----------------------------- MODULE RedisTypes -----------------------------
(***************************************************************************)
(* What the commands of all value types of the Redis server have in        *)
(* common: a database from keys to values, and what a command leaves       *)
(* behind: the new database, the reply, the keys it has signalled as       *)
(* modified (signalModifiedKey), whether it has counted a change           *)
(* (server.dirty, without which call does not propagate it), and what is   *)
(* propagated to slaves and to the append-only file in its place.          *)
(***************************************************************************)
EXTENDS Integers, Sequences, SequencesExt, FiniteSetsExt, Functions

CONSTANTS
  Keys,
  REDIS_AOF_REWRITE_ITEMS_PER_CMD  \* the items that a rewrite puts into one command

None == [type |-> "none"]
(* A value of a type other than the one a module is about. *)
Foreign == [type |-> "foreign"]

Outcome(d, reply, signalled, dirty, sent) ==
  [db |-> d, reply |-> reply, signalled |-> signalled, dirty |-> dirty, sent |-> sent]

(* A command that only reads, or does not do anything. *)
Answer(d, reply) == Outcome(d, reply, {}, FALSE, <<>>)

IntReply(n) == <<"int", n>>
BulkReply(x) == <<"bulk", x>>
NullReply == <<"null">>
WrongType == <<"wrongtype">>
MultiReply(xs) == <<"multi", xs>>
StatusReply == <<"ok">>
ErrorReply == <<"error">>

(* checkType *)
HasOther(d, k, type) == d[k].type \notin {"none", type}

(* lookupKeyReadOrReply, or lookupKeyWriteOrReply, and checkType, with     *)
(* what the command does if both succeed.                                  *)
WithValue(d, k, type, missing, outcome) ==
  IF d[k] = None THEN Answer(d, missing)
  ELSE IF HasOther(d, k, type) THEN Answer(d, WrongType)
  ELSE outcome

(* The change of one key. *)
Store(d, k, value, reply, op) == Outcome([d EXCEPT ![k] = value], reply, {k}, TRUE, <<op>>)

(* The positions, from 0, that a range with ends counted from either end   *)
(* denotes in a value of length llen.                                      *)
IndexRange(op, llen) ==
  LET from == IF op.start < 0 THEN llen + op.start ELSE op.start
      start == IF from < 0 THEN 0 ELSE from
      end == IF op.end < 0 THEN llen + op.end ELSE op.end
  IN [start |-> start, end |-> IF end >= llen THEN llen - 1 ELSE end,
      empty |-> start > end \/ start >= llen]

-----------------------------------------------------------------------------
(* A ziplist, as the types that use it see it: a sequence.                 *)

(* The position of the first entry equal to x, when skip entries are       *)
(* passed over after each one that is compared, or 0.                      *)
ziplistFind(zl, x, skip) ==
  LET at == { i \in DOMAIN zl : (i - 1) % (skip + 1) = 0 /\ zl[i] = x }
  IN IF at = {} THEN 0 ELSE Min(at)

ziplistDeleteRange(zl, i, n) == SubSeq(zl, 1, i - 1) \o SubSeq(zl, i + n, Len(zl))

ziplistInsert(zl, i, x) == SubSeq(zl, 1, i - 1) \o <<x>> \o SubSeq(zl, i, Len(zl))

(* Entries i, i + 2, ...: the fields of a hash (i = 1) or its values. *)
EverySecond(zl, i) == [j \in 1 .. Len(zl) \div 2 |-> zl[2 * j - 2 + i]]

-----------------------------------------------------------------------------
(* Files.                                                                  *)

(* The items of a value as the rewrite of the append-only file groups      *)
(* them, each group the arguments of one command.                          *)
Batches(items) ==
  LET n == REDIS_AOF_REWRITE_ITEMS_PER_CMD
  IN [i \in 1 .. (Len(items) + n - 1) \div n |-> SubSeq(items, (i - 1) * n + 1, Min({i * n, Len(items)}))]
=============================================================================
