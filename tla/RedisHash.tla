----------------------------- MODULE RedisHash ------------------------------
(***************************************************************************)
(* Hashes (redis/src/t_hash.c).  A small hash is a ziplist of fields and   *)
(* values in turn, so that a value that looks like a field must never be   *)
(* taken for one; a large one, or one with a long string, a hash table.    *)
(***************************************************************************)
EXTENDS RedisTypes

CONSTANTS
  Fields,
  Integers64,   \* the values that are integers: an interval around 0
  Strings,      \* those that are not
  Long,         \* the strings longer than hash_max_ziplist_value
  Increments,   \* the arguments of HINCRBY and HINCRBYFLOAT
  hash_max_ziplist_entries

VARIABLE db

Values == Integers64 \cup Strings

-----------------------------------------------------------------------------
(* The type, over both encodings.                                          *)

createHashObject == [type |-> "hash", enc |-> "ziplist", val |-> <<>>]

hashTypeLength(o) ==
  IF o.enc = "ziplist" THEN Len(o.val) \div 2 ELSE Cardinality(DOMAIN o.val)

hashTypeConvert(o) ==
  [o EXCEPT !.enc = "ht",
            !.val = [f \in ToSet(EverySecond(@, 1)) |-> @[ziplistFind(@, f, 1) + 1]]]

(* The arguments of a command, fields and values, that are strings are     *)
(* looked at before anything is stored.                                    *)
hashTypeTryConversion(o, args) ==
  IF o.enc = "ziplist" /\ args \cap Long # {} THEN hashTypeConvert(o) ELSE o

hashTypeExists(o, f) ==
  IF o.enc = "ziplist" THEN ziplistFind(o.val, f, 1) # 0 ELSE f \in DOMAIN o.val

hashTypeGetObject(o, f) ==
  IF o.enc = "ziplist" THEN o.val[ziplistFind(o.val, f, 1) + 1] ELSE o.val[f]

(* Mutant: a field that exists is appended again. *)
hashTypeSet_appends(o, f, v) ==
  LET new == [o EXCEPT !.val = @ \o <<f, v>>]
  IN IF o.enc = "ht" THEN [o EXCEPT !.val = (f :> v) @@ @]
     ELSE IF hashTypeLength(new) > hash_max_ziplist_entries THEN hashTypeConvert(new)
     ELSE new

hashTypeSet(o, f, v) ==
  LET i == ziplistFind(o.val, f, 1)
      new == [o EXCEPT !.val = IF i = 0 THEN @ \o <<f, v>>
                ELSE ziplistInsert(ziplistDeleteRange(@, i + 1, 1), i + 1, v)]
  IN IF o.enc = "ht" THEN [o EXCEPT !.val = (f :> v) @@ @]
     ELSE IF hashTypeLength(new) > hash_max_ziplist_entries THEN hashTypeConvert(new)
     ELSE new

hashTypeDelete(o, f) ==
  IF ~hashTypeExists(o, f) THEN o
  ELSE [o EXCEPT !.val = IF o.enc = "ziplist"
                         THEN ziplistDeleteRange(@, ziplistFind(@, f, 1), 2)
                         ELSE Restrict(@, DOMAIN @ \ {f})]

(* The fields and values as the iterators return them: in the order of the *)
(* ziplist, or in any.                                                     *)
hashTypePairs(o) ==
  IF o.enc = "ziplist" THEN { <<o.val[i], o.val[i + 1]>> : i \in { j \in DOMAIN o.val : j % 2 = 1 } }
  ELSE { <<f, o.val[f]>> : f \in DOMAIN o.val }

-----------------------------------------------------------------------------
(* The commands.                                                           *)

(* The hash at key k, a new one if there is none. *)
hashTypeLookupWriteOrCreate(d, k) == IF d[k] = None THEN createHashObject ELSE d[k]

hsetCommand(d, op) ==
  LET o == hashTypeLookupWriteOrCreate(d, op.key)
      new == hashTypeSet(hashTypeTryConversion(o, {op.field, op.value}), op.field, op.value)
  IN IF HasOther(d, op.key, "hash") THEN Answer(d, WrongType)
     ELSE Store(d, op.key, new, IntReply(IF hashTypeExists(o, op.field) THEN 0 ELSE 1), op)

(* The hash may be converted although the field exists. *)
hsetnxCommand(d, op) ==
  LET o == hashTypeTryConversion(hashTypeLookupWriteOrCreate(d, op.key), {op.field, op.value})
  IN IF HasOther(d, op.key, "hash") THEN Answer(d, WrongType)
     ELSE IF hashTypeExists(o, op.field) THEN Answer([d EXCEPT ![op.key] = o], IntReply(0))
     ELSE Store(d, op.key, hashTypeSet(o, op.field, op.value), IntReply(1), op)

hmsetCommand(d, op) ==
  LET args == UNION { {p[1], p[2]} : p \in ToSet(op.pairs) }
      o == hashTypeTryConversion(hashTypeLookupWriteOrCreate(d, op.key), args)
      new == FoldLeft(LAMBDA h, p : hashTypeSet(h, p[1], p[2]), o, op.pairs)
  IN IF HasOther(d, op.key, "hash") THEN Answer(d, WrongType)
     ELSE Store(d, op.key, new, StatusReply, op)

(* HINCRBY refuses what would overflow.  HINCRBYFLOAT has no such check,   *)
(* since a float does not wrap (sums outside the values of the instance    *)
(* are left out), and is propagated as HSET with the result.  If there is  *)
(* no hash, one is created before the field is looked at, but then the     *)
(* value is 0, and the command succeeds.                                   *)
hincrbyCommand(d, op) ==
  LET o == hashTypeLookupWriteOrCreate(d, op.key)
      old == IF hashTypeExists(o, op.field) THEN hashTypeGetObject(o, op.field) ELSE 0
      new == hashTypeSet(o, op.field, old + op.by)
      overflow == \/ op.by < 0 /\ old < 0 /\ op.by < Min(Integers64) - old
                  \/ op.by > 0 /\ old > 0 /\ op.by > Max(Integers64) - old
  IN IF HasOther(d, op.key, "hash") THEN Answer(d, WrongType)
     ELSE IF old \in Strings THEN Answer([d EXCEPT ![op.key] = o], ErrorReply)
     ELSE IF overflow THEN Answer([d EXCEPT ![op.key] = o], ErrorReply)
     ELSE IF op.cmd = "hincrby" THEN Store(d, op.key, new, IntReply(old + op.by), op)
     ELSE Store(d, op.key, new, BulkReply(old + op.by),
                [cmd |-> "hset", key |-> op.key, field |-> op.field, value |-> old + op.by])

(* addHashFieldToReply *)
FieldReply(o, f) ==
  IF o # None /\ hashTypeExists(o, f) THEN BulkReply(hashTypeGetObject(o, f)) ELSE NullReply

hgetCommand(d, op) ==
  WithValue(d, op.key, "hash", NullReply, Answer(d, FieldReply(d[op.key], op.field)))

hmgetCommand(d, op) ==
  IF HasOther(d, op.key, "hash") THEN Answer(d, WrongType)
  ELSE Answer(d, MultiReply([i \in DOMAIN op.fields |-> FieldReply(d[op.key], op.fields[i])]))

(* The loop ends with the field that leaves the hash empty. *)
hdelCommand(d, op) ==
  LET new == FoldLeft(hashTypeDelete, d[op.key], op.fields)
      deleted == hashTypeLength(d[op.key]) - hashTypeLength(new)
  IN WithValue(d, op.key, "hash", IntReply(0),
       IF deleted = 0 THEN Answer(d, IntReply(0))
       ELSE Store(d, op.key, IF hashTypeLength(new) = 0 THEN None ELSE new, IntReply(deleted), op))

hlenCommand(d, op) ==
  WithValue(d, op.key, "hash", IntReply(0), Answer(d, IntReply(hashTypeLength(d[op.key]))))

(* HGETALL; HKEYS and HVALS are its projections. *)
genericHgetallCommand(d, op) ==
  WithValue(d, op.key, "hash", MultiReply({}), Answer(d, MultiReply(hashTypePairs(d[op.key]))))

hexistsCommand(d, op) ==
  WithValue(d, op.key, "hash", IntReply(0),
    Answer(d, IntReply(IF hashTypeExists(d[op.key], op.field) THEN 1 ELSE 0)))

-----------------------------------------------------------------------------
(* A hash in the dump file, and in the rewritten append-only file.         *)

(* The fields and values in the order in which they are saved. *)
Orders(o) ==
  IF o.enc = "ziplist" THEN {[j \in 1 .. hashTypeLength(o) |-> <<o.val[2 * j - 1], o.val[2 * j]>>]}
  ELSE SetToSeqs(hashTypePairs(o))

rdbSaveObject(o) ==
  { [rdbtype |-> IF o.enc = "ziplist" THEN "hash_ziplist" ELSE "hash", pairs |-> s] : s \in Orders(o) }

(* Into a server whose hash_max_ziplist_entries is max. *)
LoadZiplist(pairs, max) ==
  LET o == [createHashObject EXCEPT !.val = FlattenSeq(pairs)]
  IN IF hashTypeLength(o) > max THEN hashTypeConvert(o) ELSE o

(* Into a ziplist until a string is too long.  No field comes twice, so    *)
(* that dictAdd succeeds.                                                  *)
LoadHash(pairs, max) ==
  LET Load(o, p) ==
        LET pushed == [o EXCEPT !.val = @ \o p]
        IN IF o.enc = "ht" THEN [o EXCEPT !.val = (p[1] :> p[2]) @@ @]
           ELSE IF ToSet(p) \cap Long # {} THEN hashTypeConvert(pushed) ELSE pushed
  IN FoldLeft(Load, IF Len(pairs) > max THEN hashTypeConvert(createHashObject) ELSE createHashObject, pairs)

rdbLoadObject(file, max) ==
  IF file.rdbtype = "hash_ziplist" THEN LoadZiplist(file.pairs, max) ELSE LoadHash(file.pairs, max)

rewriteHashObject(k, o) ==
  LET Hmset(pairs) == [cmd |-> "hmset", key |-> k, pairs |-> pairs]
  IN { [i \in DOMAIN Batches(s) |-> Hmset(Batches(s)[i])] : s \in Orders(o) }

-----------------------------------------------------------------------------

Execute(d, op) ==
  CASE op.cmd = "hset" -> hsetCommand(d, op)
    [] op.cmd = "hsetnx" -> hsetnxCommand(d, op)
    [] op.cmd = "hmset" -> hmsetCommand(d, op)
    [] op.cmd \in {"hincrby", "hincrbyfloat"} -> hincrbyCommand(d, op)
    [] op.cmd = "hget" -> hgetCommand(d, op)
    [] op.cmd = "hmget" -> hmgetCommand(d, op)
    [] op.cmd = "hdel" -> hdelCommand(d, op)
    [] op.cmd = "hlen" -> hlenCommand(d, op)
    [] op.cmd = "hgetall" -> genericHgetallCommand(d, op)
    [] op.cmd = "hexists" -> hexistsCommand(d, op)

Commands ==
  [cmd : {"hset", "hsetnx"}, key : Keys, field : Fields, value : Values]
  \cup [cmd : {"hmset"}, key : Keys, pairs : TupleOf(Fields \X (Fields \cup Long), 2)]
  \cup [cmd : {"hincrby", "hincrbyfloat"}, key : Keys, field : Fields, by : Increments]
  \cup [cmd : {"hget", "hexists"}, key : Keys, field : Fields]
  \cup [cmd : {"hmget", "hdel"}, key : Keys, fields : TupleOf(Fields, 2)]
  \cup [cmd : {"hlen", "hgetall"}, key : Keys]

Init == db \in [Keys -> {None, Foreign}]

Next == \E op \in Commands : db' = Execute(db, op).db

-----------------------------------------------------------------------------
(* What the commands promise: a hash is a function.                        *)

Function(o) ==
  [f \in { p[1] : p \in hashTypePairs(o) } |-> (CHOOSE p \in hashTypePairs(o) : p[1] = f)[2]]

Abstract(d) ==
  [k \in Keys |-> IF d[k].type = "hash" THEN [type |-> "hash", val |-> Function(d[k])] ELSE d[k]]

Put(a, k, h) ==
  [a EXCEPT ![k] = IF DOMAIN h = {} THEN None ELSE [type |-> "hash", val |-> h]]

(* What a command does to the database, and replies. *)
Promised(a, op) ==
  LET h == IF a[op.key] = None THEN <<>> ELSE a[op.key].val
      Get(f) == IF f \in DOMAIN h THEN BulkReply(h[f]) ELSE NullReply
      Bit(b) == IntReply(IF b THEN 1 ELSE 0)
      old == IF op.field \in DOMAIN h THEN h[op.field] ELSE 0
      gone == ToSet(op.fields) \cap DOMAIN h
  IN IF a[op.key] = Foreign THEN <<a, WrongType>>
     ELSE CASE op.cmd = "hset" ->
                 <<Put(a, op.key, (op.field :> op.value) @@ h), Bit(op.field \notin DOMAIN h)>>
       [] op.cmd = "hsetnx" ->
            <<Put(a, op.key, h @@ (op.field :> op.value)), Bit(op.field \notin DOMAIN h)>>
       [] op.cmd = "hmset" ->
            <<Put(a, op.key, (op.pairs[2][1] :> op.pairs[2][2]) @@
                             (op.pairs[1][1] :> op.pairs[1][2]) @@ h), StatusReply>>
       [] op.cmd \in {"hincrby", "hincrbyfloat"} ->
            IF old \in Strings \/ old + op.by \notin Integers64 THEN <<a, ErrorReply>>
            ELSE <<Put(a, op.key, (op.field :> old + op.by) @@ h),
                   IF op.cmd = "hincrby" THEN IntReply(old + op.by) ELSE BulkReply(old + op.by)>>
       [] op.cmd = "hget" -> <<a, Get(op.field)>>
       [] op.cmd = "hexists" -> <<a, Bit(op.field \in DOMAIN h)>>
       [] op.cmd = "hmget" -> <<a, MultiReply([i \in DOMAIN op.fields |-> Get(op.fields[i])])>>
       [] op.cmd = "hdel" -> <<Put(a, op.key, Restrict(h, DOMAIN h \ gone)),
                               IntReply(Cardinality(gone))>>
       [] op.cmd = "hlen" -> <<a, IntReply(Cardinality(DOMAIN h))>>
       [] op.cmd = "hgetall" -> <<a, MultiReply({ <<f, h[f]>> : f \in DOMAIN h })>>

Replayed(d, sent) == FoldLeft(LAMBDA x, op : Execute(x, op).db, d, sent)

Visible(r) == <<Abstract(r.db), r.reply>>
Signalled(d, r) ==
  \A k \in Keys : Abstract(r.db)[k] # Abstract(d)[k] => k \in r.signalled /\ r.dirty
Repeatable(d, r) == r.dirty => Abstract(Replayed(d, r.sent)) = Abstract(r.db)

-----------------------------------------------------------------------------

(* Every command, in both encodings, does what it promises. *)
CommandsAgree ==
  \A op \in Commands : Visible(Execute(db, op)) = Promised(Abstract(db), op)

(* No command changes a key without signalling it and counting a change. *)
ChangesAreSignalled ==
  \A op \in Commands : Signalled(db, Execute(db, op))

(* What is propagated makes the same change on a slave. *)
SlavesAgree ==
  \A op \in Commands : Repeatable(db, Execute(db, op))

(* A hash is never empty; a ziplist has whole pairs, each field once, and  *)
(* not too many of them.                                                   *)
Sound(o, max) ==
  /\ hashTypeLength(o) > 0
  /\ o.enc = "ziplist" => /\ Len(o.val) % 2 = 0
                          /\ IsInjective(EverySecond(o.val, 1))
                          /\ hashTypeLength(o) <= max

(* So is every hash of the database. *)
EncodingsAreSound ==
  \A k \in Keys : db[k].type = "hash" => Sound(db[k], hash_max_ziplist_entries)

(* The dump file gives the same hash, in a sound encoding, also to a       *)
(* server with another limit; and so do the commands of the rewritten      *)
(* append-only file.                                                       *)
FilesAgree ==
  \A k \in Keys : db[k].type = "hash" =>
    /\ \A file \in rdbSaveObject(db[k]), max \in 0 .. hashTypeLength(db[k]) :
         LET o == rdbLoadObject(file, max) IN Function(o) = Function(db[k]) /\ Sound(o, max)
    /\ \A sent \in rewriteHashObject(k, db[k]) :
         Abstract(Replayed([db EXCEPT ![k] = None], sent)) = Abstract(db)
=============================================================================
