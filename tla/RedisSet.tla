------------------------------ MODULE RedisSet ------------------------------
(***************************************************************************)
(* Sets (redis/src/t_set.c).  A set of few integers is an intset, any      *)
(* other a hash table, and a set is converted, at most once, by the        *)
(* command that makes the change necessary.  Both are sets here: module    *)
(* Intset shows that an intset is one.                                     *)
(***************************************************************************)
EXTENDS RedisTypes

CONSTANTS
  Numbers,             \* the members that are integers
  Words,               \* and those that are not
  set_max_intset_entries

VARIABLE db

Members == Numbers \cup Words

-----------------------------------------------------------------------------
(* The type, over both encodings.                                          *)

createIntsetObject == [type |-> "set", enc |-> "intset", val |-> {}]
createSetObject == [type |-> "set", enc |-> "ht", val |-> {}]

setTypeCreate(v) == IF v \in Numbers THEN createIntsetObject ELSE createSetObject

(* The members in some order, that of an iterator. *)
setTypeMembers(o) == o.val
setTypeSize(o) == Cardinality(o.val)
setTypeConvert(o) == [o EXCEPT !.enc = "ht"]

setTypeAdd(o, v) ==
  LET added == [o EXCEPT !.val = @ \cup {v}]
  IN IF o.enc = "intset" /\ (v \in Words \/ (added # o /\ setTypeSize(added) > set_max_intset_entries))
     THEN setTypeConvert(added) ELSE added

setTypeRemove(o, v) == [o EXCEPT !.val = @ \ {v}]

setTypeIsMember(o, v) == v \in o.val

(* An empty set is deleted with its key. *)
OrNone(o) == IF setTypeSize(o) = 0 THEN None ELSE o

-----------------------------------------------------------------------------
(* The commands.                                                           *)

saddCommand(d, op) ==
  LET k == op.key
      old == IF d[k] = None THEN setTypeCreate(op.members[1]) ELSE d[k]
      new == FoldLeft(setTypeAdd, old, op.members)
      added == setTypeSize(new) - setTypeSize(old)
  IN IF HasOther(d, k, "set") THEN Answer(d, WrongType)
     ELSE Outcome([d EXCEPT ![k] = new], IntReply(added),
                  IF added > 0 THEN {k} ELSE {}, added > 0, <<op>>)

sremCommand(d, op) ==
  LET k == op.key
      new == FoldLeft(setTypeRemove, d[k], op.members)
      deleted == setTypeSize(d[k]) - setTypeSize(new)
  IN WithValue(d, k, "set", IntReply(0),
       Outcome([d EXCEPT ![k] = OrNone(new)], IntReply(deleted),
               IF deleted > 0 THEN {k} ELSE {}, deleted > 0, <<op>>))

(* Mutant: the destination is created before the member is known to be in  *)
(* the source.                                                             *)
smoveCommand_creates_first(d, op) ==
  LET src == op.key
      dst == op.dst
      target == IF d[dst] = None THEN setTypeCreate(op.member) ELSE d[dst]
  IN IF d[src] = None THEN Answer(d, IntReply(0))
     ELSE IF HasOther(d, src, "set") \/ HasOther(d, dst, "set") THEN Answer(d, WrongType)
     ELSE IF src = dst THEN Answer(d, IntReply(1))
     ELSE IF ~setTypeIsMember(d[src], op.member)
     THEN Answer([d EXCEPT ![dst] = target], IntReply(0))
     ELSE Outcome([d EXCEPT ![src] = OrNone(setTypeRemove(@, op.member)),
                            ![dst] = setTypeAdd(target, op.member)],
                  IntReply(1), {src, dst}, TRUE, <<op>>)

smoveCommand(d, op) ==
  LET src == op.key
      dst == op.dst
      target == IF d[dst] = None THEN setTypeCreate(op.member) ELSE d[dst]
  IN IF d[src] = None THEN Answer(d, IntReply(0))
     ELSE IF HasOther(d, src, "set") \/ HasOther(d, dst, "set") THEN Answer(d, WrongType)
     ELSE IF src = dst THEN Answer(d, IntReply(1))
     ELSE IF ~setTypeIsMember(d[src], op.member) THEN Answer(d, IntReply(0))
     ELSE Outcome([d EXCEPT ![src] = OrNone(setTypeRemove(@, op.member)),
                            ![dst] = setTypeAdd(target, op.member)],
                  IntReply(1), {src, dst}, TRUE, <<op>>)

sismemberCommand(d, op) ==
  WithValue(d, op.key, "set", IntReply(0),
    Answer(d, IntReply(IF setTypeIsMember(d[op.key], op.member) THEN 1 ELSE 0)))

scardCommand(d, op) ==
  WithValue(d, op.key, "set", IntReply(0), Answer(d, IntReply(setTypeSize(d[op.key]))))

(* A random member; what is propagated is the SREM of that one. *)
spopCommand(d, op) ==
  LET k == op.key
  IN IF d[k] = None THEN {Answer(d, NullReply)}
     ELSE IF HasOther(d, k, "set") THEN {Answer(d, WrongType)}
     ELSE { Outcome([d EXCEPT ![k] = OrNone(setTypeRemove(@, v))], BulkReply(v), {k}, TRUE,
                    <<[cmd |-> "srem", key |-> k, members |-> <<v>>]>>) :
              v \in setTypeMembers(d[k]) }

srandmemberCommand(d, op) ==
  LET k == op.key
  IN IF d[k] = None THEN {Answer(d, NullReply)}
     ELSE IF HasOther(d, k, "set") THEN {Answer(d, WrongType)}
     ELSE { Answer(d, BulkReply(v)) : v \in setTypeMembers(d[k]) }

(* The result goes to the client, or to the key dst in place of whatever   *)
(* was there.                                                              *)
Deliver(d, op, result) ==
  IF op.dst \notin Keys THEN Answer(d, MultiReply(setTypeMembers(result)))
  ELSE Outcome([d EXCEPT ![op.dst] = OrNone(result)], IntReply(setTypeSize(result)),
               {op.dst}, TRUE, <<op>>)

(* The keys are looked up in order until one is missing, which makes the   *)
(* result empty, or is not a set.                                          *)
sinterGenericCommand(d, op) ==
  LET odd == SelectInSeq(op.keys, LAMBDA k : d[k].type # "set")
      smallest == CHOOSE k \in ToSet(op.keys) : \A other \in ToSet(op.keys) :
                    setTypeSize(d[k]) <= setTypeSize(d[other])
      common == { v \in setTypeMembers(d[smallest]) :
                    \A k \in ToSet(op.keys) : setTypeIsMember(d[k], v) }
  IN IF odd # 0 /\ d[op.keys[odd]] # None THEN Answer(d, WrongType)
     ELSE IF odd # 0 /\ op.dst \notin Keys THEN Answer(d, MultiReply({}))
     ELSE IF odd # 0
     THEN Outcome([d EXCEPT ![op.dst] = None], IntReply(0),
                  IF d[op.dst] # None THEN {op.dst} ELSE {}, d[op.dst] # None, <<op>>)
     ELSE Deliver(d, op, FoldSet(LAMBDA v, o : setTypeAdd(o, v), createIntsetObject, common))

sunionDiffGenericCommand(d, op) ==
  LET merge(acc, j) ==
        LET members == IF d[op.keys[j]] = None THEN {} ELSE setTypeMembers(d[op.keys[j]])
            step(v, o) == IF op.cmd = "sunion" \/ j = 1 THEN setTypeAdd(o, v)
                          ELSE setTypeRemove(o, v)
        IN FoldSet(step, acc, members)
  IN IF \E j \in DOMAIN op.keys : HasOther(d, op.keys[j], "set") THEN Answer(d, WrongType)
     ELSE Deliver(d, op, FoldLeftDomain(LAMBDA acc, j : merge(acc, j), createIntsetObject, op.keys))

-----------------------------------------------------------------------------
(* A set in the dump file, and in the rewritten append-only file.          *)

(* An intset as it is, or the members in the order of an iterator. *)
rdbSaveObject(o) ==
  IF o.enc = "intset" THEN {[rdbtype |-> "set_intset", members |-> SetToSortSeq(o.val, <)]}
  ELSE { [rdbtype |-> "set", members |-> s] : s \in SetToSeqs(o.val) }

(* Into a server whose set_max_intset_entries is max. *)
LoadIntset(members, max) ==
  LET o == [createIntsetObject EXCEPT !.val = ToSet(members)]
  IN IF setTypeSize(o) > max THEN setTypeConvert(o) ELSE o

LoadSet(members, max) ==
  LET Load(o, v) == [o EXCEPT !.enc = IF v \in Numbers THEN @ ELSE "ht", !.val = @ \cup {v}]
  IN FoldLeft(Load, IF Len(members) > max THEN createSetObject ELSE createIntsetObject, members)

rdbLoadObject(file, max) ==
  IF file.rdbtype = "set_intset" THEN LoadIntset(file.members, max) ELSE LoadSet(file.members, max)

rewriteSetObject(k, o) ==
  LET orders == IF o.enc = "intset" THEN {SetToSortSeq(o.val, <)} ELSE SetToSeqs(o.val)
      Sadd(members) == [cmd |-> "sadd", key |-> k, members |-> members]
  IN { [i \in DOMAIN Batches(s) |-> Sadd(Batches(s)[i])] : s \in orders }

-----------------------------------------------------------------------------

Execute(d, op) ==
  CASE op.cmd = "sadd" -> {saddCommand(d, op)}
    [] op.cmd = "srem" -> {sremCommand(d, op)}
    [] op.cmd = "smove" -> {smoveCommand(d, op)}
    [] op.cmd = "sismember" -> {sismemberCommand(d, op)}
    [] op.cmd = "scard" -> {scardCommand(d, op)}
    [] op.cmd = "spop" -> spopCommand(d, op)
    [] op.cmd = "srandmember" -> srandmemberCommand(d, op)
    [] op.cmd = "sinter" -> {sinterGenericCommand(d, op)}
    [] op.cmd \in {"sunion", "sdiff"} -> {sunionDiffGenericCommand(d, op)}

Commands ==
  [cmd : {"sadd", "srem"}, key : Keys, members : TupleOf(Members, 1) \cup TupleOf(Members, 2)]
  \cup [cmd : {"smove"}, key : Keys, dst : Keys, member : Members]
  \cup [cmd : {"sismember"}, key : Keys, member : Members]
  \cup [cmd : {"scard", "spop", "srandmember"}, key : Keys]
  \cup [cmd : {"sinter", "sunion", "sdiff"}, dst : Keys \cup {"client"},
        keys : TupleOf(Keys, 1) \cup TupleOf(Keys, 2)]

Init == db \in [Keys -> {None, Foreign}]

Next == \E op \in Commands : \E r \in Execute(db, op) : db' = r.db

-----------------------------------------------------------------------------
(* What the commands promise.                                              *)

(* A database without its encodings. *)
Abstract(d) ==
  [k \in Keys |-> IF d[k].type = "set" THEN [type |-> "set", val |-> setTypeMembers(d[k])]
                  ELSE d[k]]
Content(a, k) == IF a[k].type = "set" THEN a[k].val ELSE {}
Put(a, k, set) == [a EXCEPT ![k] = IF set = {} THEN None ELSE [type |-> "set", val |-> set]]

Combined(a, op) ==
  CASE op.cmd = "sinter" -> { v \in Members : \A k \in ToSet(op.keys) : v \in Content(a, k) }
    [] op.cmd = "sunion" -> UNION { Content(a, k) : k \in ToSet(op.keys) }
    [] op.cmd = "sdiff" -> { v \in Content(a, op.keys[1]) :
                               \A j \in 2 .. Len(op.keys) : v \notin Content(a, op.keys[j]) }

(* The keys whose type an operation depends on: for SINTER those before    *)
(* the first that is missing, for SMOVE the destination only if there is a *)
(* source.                                                                 *)
Needed(a, op) ==
  CASE op.cmd = "sinter" -> { op.keys[j] : j \in { i \in DOMAIN op.keys :
                                \A h \in 1 .. i : a[op.keys[h]] # None } }
    [] op.cmd \in {"sunion", "sdiff"} -> ToSet(op.keys)
    [] op.cmd = "smove" -> IF a[op.key] = None THEN {} ELSE {op.key, op.dst}
    [] OTHER -> {op.key}

(* What a command may do to the database, and reply, in terms of sets. *)
Promised(a, op) ==
  LET S == Content(a, op.key)
      M == ToSet(op.members)
  IN IF \E k \in Needed(a, op) : a[k] = Foreign THEN {<<a, WrongType>>}
     ELSE CASE op.cmd = "sadd" -> {<<Put(a, op.key, S \cup M), IntReply(Cardinality(M \ S))>>}
       [] op.cmd = "srem" -> {<<Put(a, op.key, S \ M), IntReply(Cardinality(M \cap S))>>}
       [] op.cmd = "smove" ->
            {IF op.key = op.dst THEN <<a, IntReply(IF S # {} THEN 1 ELSE 0)>>
             ELSE IF op.member \notin S THEN <<a, IntReply(0)>>
             ELSE <<Put(Put(a, op.key, S \ {op.member}), op.dst,
                        Content(a, op.dst) \cup {op.member}), IntReply(1)>>}
       [] op.cmd = "sismember" -> {<<a, IntReply(IF op.member \in S THEN 1 ELSE 0)>>}
       [] op.cmd = "scard" -> {<<a, IntReply(Cardinality(S))>>}
       [] op.cmd \in {"spop", "srandmember"} /\ S = {} -> {<<a, NullReply>>}
       [] op.cmd = "spop" /\ S # {} -> { <<Put(a, op.key, S \ {v}), BulkReply(v)>> : v \in S }
       [] op.cmd = "srandmember" /\ S # {} -> { <<a, BulkReply(v)>> : v \in S }
       [] OTHER -> {IF op.dst \in Keys
                    THEN <<Put(a, op.dst, Combined(a, op)), IntReply(Cardinality(Combined(a, op)))>>
                    ELSE <<a, MultiReply(Combined(a, op))>>}

Replayed(d, sent) == FoldLeft(LAMBDA x, op : (CHOOSE r \in Execute(x, op) : TRUE).db, d, sent)

-----------------------------------------------------------------------------

(* Every command, in every encoding, changes the sets and replies as it    *)
(* promises.                                                               *)
CommandsAgree ==
  \A op \in Commands : \A r \in Execute(db, op) :
    <<Abstract(r.db), r.reply>> \in Promised(Abstract(db), op)

(* No command changes a key without signalling it and counting a change:   *)
(* a client that watches the key, and the slaves, would not hear of it.    *)
ChangesAreSignalled ==
  \A op \in Commands : \A r \in Execute(db, op) :
    \A k \in Keys : Abstract(r.db)[k] # Abstract(db)[k] => k \in r.signalled /\ r.dirty

(* What is propagated makes the same change on a slave, also of a command  *)
(* that chose at random.                                                   *)
SlavesAgree ==
  \A op \in Commands : \A r \in Execute(db, op) :
    r.dirty => Abstract(Replayed(db, r.sent)) = Abstract(r.db)

(* A set is never empty; an intset has only integers, and few. *)
Sound(o, max) ==
  /\ setTypeSize(o) > 0
  /\ o.enc = "intset" => o.val \subseteq Numbers /\ setTypeSize(o) <= max

(* So is every set of the database. *)
EncodingsAreSound ==
  \A k \in Keys : db[k].type = "set" => Sound(db[k], set_max_intset_entries)

(* The dump file gives a set with the same members, in a sound encoding,   *)
(* also to a server with another limit; and so do the commands of the      *)
(* rewritten append-only file.                                             *)
FilesAgree ==
  \A k \in Keys : db[k].type = "set" =>
    /\ \A file \in rdbSaveObject(db[k]), max \in 0 .. setTypeSize(db[k]) :
         LET o == rdbLoadObject(file, max) IN o.val = db[k].val /\ Sound(o, max)
    /\ \A sent \in rewriteSetObject(k, db[k]) :
         Abstract(Replayed([db EXCEPT ![k] = None], sent)) = Abstract(db)
=============================================================================
