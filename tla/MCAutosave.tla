----------------------------- MODULE MCAutosave -----------------------------
(* Small instances of Autosave.  The texts differ in length, so that a     *)
(* longer one shows through a shorter one written over it, and one starts  *)
(* with a newline; the first file has a carriage return.                   *)
EXTENDS Autosave

CONSTANT t1

MCChar == {"a", "b"}
MCTexts == {<<>>, <<"NL", "a">>, <<"b">>}
MCLongAndShort == {<<"a", "a">>, <<"b">>}
MCInitialDisk == [kind |-> "file", text |-> <<"b", "CR", "NL">>]
MCNoFile == [kind |-> "missing", text |-> <<>>]
=============================================================================
