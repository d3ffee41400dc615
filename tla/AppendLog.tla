----------------------------- MODULE AppendLog ------------------------------
(***************************************************************************)
(* What a log promises to the database that is kept in it: modifications   *)
(* are appended, a growing part of them is durable, and after a crash the  *)
(* database is what it was after some of them, in their order and without  *)
(* a gap, and no durable one is missing.                                   *)
(***************************************************************************)
EXTENDS Naturals, Sequences

CONSTANT Modifications

VARIABLES log, durable

Init == log = <<>> /\ durable = 0

Persist == /\ UNCHANGED log
           /\ durable' \in durable .. Len(log)

Modify == /\ \E m \in Modifications : log' = Append(log, m)
          /\ UNCHANGED durable

Recover == \E n \in durable .. Len(log) :
             /\ log' = SubSeq(log, 1, n)
             /\ durable' \in durable .. n

Next == Persist \/ Modify \/ Recover

Spec == Init /\ [][Next]_<<log, durable>>
=============================================================================
