------------------------------ MODULE MCEditor ------------------------------
(* A small instance of Editor: one typed letter, one named key that is     *)
(* inserted as text, and files of one and of three lines.                  *)
EXTENDS Editor

MCChar == {"x", "<"}
MCTypedKeys == {"x", "<LEFT>"}
MCKeyText == [k \in MCTypedKeys |-> IF k = "x" THEN <<"x">> ELSE <<"<", "<">>]
MCInitialBuffers ==
  { << <<>> >>, << <<"x", "<">>, <<>>, <<"x">> >> }
MCGotoLines == {-1, 1, 9}
=============================================================================
