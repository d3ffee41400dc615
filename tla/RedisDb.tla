------------------------------ MODULE RedisDb ------------------------------
(***************************************************************************)
(* The key space of the Redis server that coffee-table starts as its       *)
(* database (redis/src/db.c, with SET from t_string.c): what each command  *)
(* does to the dictionaries of keys and of expire times, which keys it     *)
(* reports as modified and what it sends to the slaves and the AOF.        *)
(*                                                                         *)
(* A command is an operator from a store to a store.  The clock is         *)
(* abstracted to whether an expire time lies ahead ("later") or behind     *)
(* ("past"), since that is all the commands look at.                       *)
(***************************************************************************)
EXTENDS Integers, Sequences

CONSTANTS
  Dbs,      \* the numbers of the databases
  Keys,
  Values,
  NoValue   \* the key is not in the dictionary

ASSUME RedisDbAssumption ==
  /\ 0 \in Dbs
  /\ NoValue \notin Values

(* A key is identified by its name and its database. *)
Places == Dbs \X Keys

Dict == [Places -> Values \cup {NoValue}]
Expires == [Places -> {"never", "later", "past"}]

(* dict and expires are the server's.  The other fields belong to the      *)
(* command being executed: whether the server is a slave; what it sends;   *)
(* the keys it signals as modified, or as flushed; whether it counts       *)
(* as a modification (server.dirty).                                       *)
Store(dict, expires, slave) ==
  [dict |-> dict, expires |-> expires, slave |-> slave,
   out |-> <<>>, touched |-> {}, flushed |-> {}, dirty |-> FALSE]

Exists(s, p) == s.dict[p] # NoValue

Dirty(s) == [s EXCEPT !.dirty = TRUE]

-----------------------------------------------------------------------------
(* The C-level API.                                                        *)

\* Mutant: the expire time is left behind.
dbDelete_keeps_expire(s, p) == [s EXCEPT !.dict[p] = NoValue]
dbDelete(s, p) == [s EXCEPT !.dict[p] = NoValue, !.expires[p] = "never"]

DelOp(keys) == [cmd |-> "del", keys |-> keys]

propagateExpire(s, p) ==
  [s EXCEPT !.out = Append(@, [db |-> p[1], op |-> DelOp({p[2]})])]

(* A slave waits for the DEL of its master. *)
expireIfNeeded(s, p) ==
  IF s.slave \/ s.expires[p] # "past" THEN s
  ELSE dbDelete(propagateExpire(s, p), p)

signalModifiedKey(s, p) == [s EXCEPT !.touched = @ \cup {p}]

setExpire(s, p) == [s EXCEPT !.expires[p] = "later"]

setKey(s, p, val) ==
  LET found == expireIfNeeded(s, p)
  IN signalModifiedKey([found EXCEPT !.dict[p] = val, !.expires[p] = "never"], p)

-----------------------------------------------------------------------------
(* The commands.                                                           *)

(* GET, EXISTS and the other readers. *)
lookupKeyRead(s, p) == expireIfNeeded(s, p)

(* SET, SETNX (nx) and SETEX (ttl). *)
setGenericCommand(s, p, val, nx, ttl) ==
  LET found == expireIfNeeded(s, p)
      set == Dirty(setKey(found, p, val))
  IN IF nx /\ Exists(found, p) THEN found
     ELSE IF ttl THEN setExpire(set, p) ELSE set

(* DEL does not look at expire times: an expired key is deleted as well.   *)
delCommand(s, db, keys) ==
  LET deleted == { p \in {db} \X keys : Exists(s, p) }
  IN [s EXCEPT !.dict = [p \in Places |-> IF p \in {db} \X keys THEN NoValue
                                          ELSE s.dict[p]],
               !.expires = [p \in Places |-> IF p \in {db} \X keys THEN "never"
                                             ELSE s.expires[p]],
               !.touched = @ \cup deleted,
               !.dirty = @ \/ deleted # {}]

(* EXPIRE and its variants; past when the time given has gone by, which no *)
(* slave is ever sent.  The key is looked up without expireIfNeeded, so an *)
(* expired one lives again.                                                *)
expireGenericCommand(s, p, past) ==
  IF ~Exists(s, p) THEN s
  ELSE Dirty(signalModifiedKey(
         IF past /\ ~s.slave THEN dbDelete(s, p) ELSE setExpire(s, p), p))

(* PERSIST looks keys up in the same way, and signals nothing. *)
persistCommand(s, p) ==
  IF ~Exists(s, p) \/ s.expires[p] = "never" THEN s
  ELSE Dirty([s EXCEPT !.expires[p] = "never"])

\* Mutant: only the new name is signalled.
renameGenericCommand_signals_one(s, p, q, nx) ==
  LET found == expireIfNeeded(s, p)
      target == expireIfNeeded(found, q)
      moved == [dbDelete(target, p) EXCEPT
                  !.dict[q] = found.dict[p], !.expires[q] = found.expires[p]]
  IN IF p = q THEN s
     ELSE IF ~Exists(found, p) THEN found
     ELSE IF Exists(target, q) /\ nx THEN target
     ELSE Dirty(signalModifiedKey(moved, q))

renameGenericCommand(s, p, q, nx) ==
  LET found == expireIfNeeded(s, p)
      target == expireIfNeeded(found, q)
      moved == [dbDelete(target, p) EXCEPT
                  !.dict[q] = found.dict[p], !.expires[q] = found.expires[p]]
  IN IF p = q THEN s
     ELSE IF ~Exists(found, p) THEN found
     ELSE IF Exists(target, q) /\ nx THEN target
     ELSE Dirty(signalModifiedKey(signalModifiedKey(moved, p), q))

(* The moved key has no expire time, and neither place is signalled.  An   *)
(* unknown database is an error, as is the one the key is in.              *)
moveCommand(s, p, q) ==
  LET found == expireIfNeeded(s, p)
      target == expireIfNeeded(found, q)
  IN IF q \notin Places \/ p = q THEN s
     ELSE IF ~Exists(found, p) THEN found
     ELSE IF Exists(target, q) THEN target
     ELSE Dirty([dbDelete(target, p) EXCEPT !.dict[q] = found.dict[p]])

(* The places of some databases emptied, and the existing ones signalled. *)
Flushed(s, dbs) ==
  [s EXCEPT !.flushed = { p \in dbs \X Keys : Exists(s, p) },
            !.dict = [p \in Places |-> IF p[1] \in dbs THEN NoValue
                                       ELSE s.dict[p]],
            !.expires = [p \in Places |-> IF p[1] \in dbs THEN "never"
                                          ELSE s.expires[p]]]

flushdbCommand(s, db) ==
  LET flushed == Flushed(s, {db})
  IN IF flushed.flushed = {} THEN flushed ELSE Dirty(flushed)

flushallCommand(s) == Dirty(Flushed(s, Dbs))

Ops ==
       [cmd : {"get", "persist"}, key : Keys]
  \cup [cmd : {"set"}, key : Keys, val : Values, nx : BOOLEAN, ttl : BOOLEAN]
  \cup [cmd : {"del"}, keys : SUBSET Keys]
  \cup [cmd : {"expire"}, key : Keys, past : BOOLEAN]
  \cup [cmd : {"rename"}, key : Keys, to : Keys, nx : BOOLEAN]
  \cup [cmd : {"move"}, key : Keys, db : Int]
  \cup [cmd : {"select"}, db : Int]
  \cup [cmd : {"flushdb", "flushall", "unwatch", "multi", "exec"}]

(* The commands that work on the key space, in the database db. *)
Execute(s, db, op) ==
  CASE op.cmd = "get"      -> lookupKeyRead(s, <<db, op.key>>)
    [] op.cmd = "set"      ->
         setGenericCommand(s, <<db, op.key>>, op.val, op.nx, op.ttl)
    [] op.cmd = "del"      -> delCommand(s, db, op.keys)
    [] op.cmd = "expire"   -> expireGenericCommand(s, <<db, op.key>>, op.past)
    [] op.cmd = "persist"  -> persistCommand(s, <<db, op.key>>)
    [] op.cmd = "rename"   ->
         renameGenericCommand(s, <<db, op.key>>, <<db, op.to>>, op.nx)
    [] op.cmd = "move"     -> moveCommand(s, <<db, op.key>>, <<op.db, op.key>>)
    [] op.cmd = "flushdb"  -> flushdbCommand(s, db)
    [] op.cmd = "flushall" -> flushallCommand(s)

(* EXPIRE with a time gone by is sent as the DEL it was. *)
PropagatedAs(op) ==
  IF op.cmd = "expire" /\ op.past THEN DelOp({op.key}) ELSE op

(* A command run by the master, and what it sends: first the keys it found *)
(* expired, then itself if it has modified anything.                       *)
call(dict, expires, db, op) ==
  LET s == Execute(Store(dict, expires, FALSE), db, op)
  IN IF s.dirty
     THEN [s EXCEPT !.out = Append(@, [db |-> db, op |-> PropagatedAs(op)])]
     ELSE s
=============================================================================
