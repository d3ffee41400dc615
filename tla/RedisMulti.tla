----------------------------- MODULE RedisMulti -----------------------------
(***************************************************************************)
(* Transactions of the Redis server: MULTI, EXEC, DISCARD, WATCH and       *)
(* UNWATCH (redis/src/multi.c) around the key space of RedisDb, with the   *)
(* clients that issue them, keys that expire or are evicted meanwhile, and *)
(* the slave that is fed every modification.                               *)
(*                                                                         *)
(* The server has one thread: commands of different clients interleave,    *)
(* and between two commands queued by MULTI only the clock moves.  EXEC is *)
(* one step per queued command for that reason.  The clock does not move   *)
(* within a command.                                                       *)
(***************************************************************************)
EXTENDS RedisDb, SequencesExt

CONSTANTS
  Clients,
  Nobody,           \* no client is in the middle of EXEC
  Commands,         \* the commands the clients send
  WatchKeys,        \* the keys they watch
  MaxmemoryPolicy,  \* which keys may be evicted: "noeviction", "volatile", "allkeys"
  MaxQueue          \* bound on the commands queued by MULTI

ASSUME RedisMultiAssumption ==
  /\ Commands \subseteq Ops
  /\ \A op \in Commands : op.cmd \notin {"multi", "exec"}
  /\ WatchKeys \subseteq Keys
  /\ Nobody \notin Clients
  /\ MaxmemoryPolicy \in {"noeviction", "volatile", "allkeys"}
  /\ MaxQueue \in Nat

VARIABLES
  dict, expires,  \* the key space of the server
  db,             \* per client: the database selected
  multi,          \* per client: the flag REDIS_MULTI
  dirty_cas,      \* per client: the flag REDIS_DIRTY_CAS
  queue,          \* per client: the commands queued since MULTI
  watched,        \* per client: the list of watched keys
  watched_keys,   \* per key: the list of clients that watch it
  running,        \* the client in the middle of EXEC, or Nobody
  slave,          \* the slave, and what the master knows of it
  stale           \* history, per client: a command whose modifications are
                  \* signalled has changed a key while the client watched it

keyspace == <<dict, expires>>
session == <<db, multi, queue>>
watching == <<watched, watched_keys>>
vars == <<dict, expires, db, multi, dirty_cas, queue, watched, watched_keys,
          running, slave, stale>>

-----------------------------------------------------------------------------
(* The slave executes what it is sent, in order, as the commands of one    *)
(* client.  seldb is the master's idea of the database selected there.     *)

SelectOp(id) == [cmd |-> "select", db |-> id]

Applied(f, op) ==
  IF op.cmd = "select" THEN [f EXCEPT !.db = op.db]
  ELSE LET s == Execute(Store(f.dict, f.expires, TRUE), f.db, op)
       IN [f EXCEPT !.dict = s.dict, !.expires = s.expires]

Received(f, op) ==
  CASE op.cmd = "multi" -> [f EXCEPT !.multi = TRUE]
    [] op.cmd = "exec"  ->
         [FoldLeft(Applied, f, f.queue) EXCEPT !.multi = FALSE, !.queue = <<>>]
    [] op.cmd \notin {"multi", "exec"} ->
         IF f.multi THEN [f EXCEPT !.queue = Append(@, op)] ELSE Applied(f, op)

\* Mutant: the database is selected only if it is not the default.
replicationFeedSlave_assumes_0(f, message) ==
  IF message.db # 0 /\ f.seldb # message.db
  THEN Received(Received([f EXCEPT !.seldb = message.db], SelectOp(message.db)),
                message.op)
  ELSE Received(f, message.op)
replicationFeedSlave(f, message) ==
  IF f.seldb # message.db
  THEN Received(Received([f EXCEPT !.seldb = message.db], SelectOp(message.db)),
                message.op)
  ELSE Received(f, message.op)

Fed(messages) == FoldLeft(replicationFeedSlave, slave, messages)

-----------------------------------------------------------------------------

(* A server without data; the slave has just synchronised with it. *)
Init ==
  /\ dict = [p \in Places |-> NoValue]
  /\ expires = [p \in Places |-> "never"]
  /\ db = [c \in Clients |-> 0]
  /\ multi = [c \in Clients |-> FALSE]
  /\ dirty_cas = [c \in Clients |-> FALSE]
  /\ queue = [c \in Clients |-> <<>>]
  /\ watched = [c \in Clients |-> {}]
  /\ watched_keys = [p \in Places |-> {}]
  /\ running = Nobody
  /\ slave = [seldb |-> 0, db |-> 0, multi |-> FALSE, queue |-> <<>>,
              dict |-> dict, expires |-> expires]
  /\ stale = [c \in Clients |-> FALSE]

Idle == running = Nobody

(* unwatchAllKeys: the client leaves the list of every key on its own.     *)
(* watchers is watched_keys; taken is the client's list.                   *)
Unwatched(watchers, c, taken) ==
  [p \in Places |-> IF p \in taken THEN watchers[p] \ {c} ELSE watchers[p]]

unwatchAllKeys(c) ==
  /\ watched' = [watched EXCEPT ![c] = {}]
  /\ watched_keys' = Unwatched(watched_keys, c, watched[c])
  /\ stale' = [stale EXCEPT ![c] = FALSE]

(* touchWatchedKey goes by the list of clients of the key,                 *)
(* touchWatchedKeysOnFlush by the lists of keys of the clients.            *)
Touched(s) ==
  [c \in Clients |-> \/ dirty_cas[c]
                     \/ \E p \in s.touched : c \in watched_keys[p]
                     \/ \E p \in s.flushed : p \in watched[c]]

(* The places a command has changed, an expired key's removal aside. *)
Changed(s) ==
  { p \in Places : /\ s.dict[p] # dict[p] \/ s.expires[p] # expires[p]
                   /\ ~(expires[p] = "past" /\ ~Exists(s, p)) }

(* The commands whose modifications the code does not signal. *)
Unsignalled == {"move", "persist"}

(* The key space becomes that of s, which op has produced. *)
Commits(s, op) ==
  /\ dict' = s.dict
  /\ expires' = s.expires
  /\ dirty_cas' = Touched(s)
  /\ slave' = Fed(s.out)
  /\ stale' = [c \in Clients |->
                 \/ stale[c]
                 \/ op.cmd \notin Unsignalled /\ Changed(s) \cap watched[c] # {}]

(* SELECT of a database that does not exist is an error. *)
selectDb(c, id) == db' = IF id \in Dbs THEN [db EXCEPT ![c] = id] ELSE db

\* Mutant: the flag survives.
unwatchCommand_keeps_flag(c) == unwatchAllKeys(c) /\ UNCHANGED dirty_cas
unwatchCommand(c) ==
  /\ unwatchAllKeys(c)
  /\ dirty_cas' = [dirty_cas EXCEPT ![c] = FALSE]

(* call() of one command of client c: on the key space, or on the client. *)
Calls(c, op) ==
  \/ /\ op.cmd = "select"
     /\ selectDb(c, op.db)
     /\ UNCHANGED <<keyspace, dirty_cas, watching, slave, stale>>
  \/ /\ op.cmd = "unwatch"
     /\ unwatchCommand(c)
     /\ UNCHANGED <<keyspace, db, slave>>
  \/ /\ op.cmd \notin {"select", "unwatch"}
     /\ Commits(call(dict, expires, db[c], op), op)
     /\ UNCHANGED <<db, watching>>

Command(c, op) ==
  /\ Idle
  /\ ~multi[c]
  /\ Calls(c, op)
  /\ UNCHANGED <<multi, queue, running>>

queueMultiCommand(c, op) ==
  /\ Idle
  /\ multi[c]
  /\ Len(queue[c]) < MaxQueue
  /\ queue' = [queue EXCEPT ![c] = Append(@, op)]
  /\ UNCHANGED <<keyspace, db, multi, dirty_cas, watching, running, slave, stale>>

(* A nested MULTI, and DISCARD or EXEC without MULTI, are errors that      *)
(* change nothing.                                                         *)
multiCommand(c) ==
  /\ Idle
  /\ ~multi[c]
  /\ multi' = [multi EXCEPT ![c] = TRUE]
  /\ UNCHANGED <<keyspace, db, dirty_cas, queue, watching, running, slave, stale>>

discardTransaction(c) ==
  /\ queue' = [queue EXCEPT ![c] = <<>>]
  /\ multi' = [multi EXCEPT ![c] = FALSE]
  /\ dirty_cas' = [dirty_cas EXCEPT ![c] = FALSE]
  /\ unwatchAllKeys(c)

discardCommand(c) ==
  /\ Idle
  /\ multi[c]
  /\ discardTransaction(c)
  /\ UNCHANGED <<keyspace, db, running, slave>>

(* WATCH; an error inside MULTI. *)
watchCommand(c, k) ==
  LET p == <<db[c], k>>
  IN /\ Idle
     /\ ~multi[c]
     /\ p \notin watched[c]
     /\ watched' = [watched EXCEPT ![c] = @ \cup {p}]
     /\ watched_keys' = [watched_keys EXCEPT ![p] = @ \cup {c}]
     /\ UNCHANGED <<keyspace, session, dirty_cas, running, slave, stale>>

-----------------------------------------------------------------------------
(* execCommand, from its first line to its last.                           *)

(* A watched key was touched. *)
ExecAbort(c) ==
  /\ Idle
  /\ multi[c] /\ dirty_cas[c]
  /\ discardTransaction(c)
  /\ UNCHANGED <<keyspace, db, running, slave>>

\* Mutant: MULTI is not sent.
ExecStart_no_multi(c) ==
  /\ Idle
  /\ multi[c] /\ ~dirty_cas[c]
  /\ running' = c
  /\ unwatchAllKeys(c)
  /\ UNCHANGED <<keyspace, session, dirty_cas, slave>>
\* Mutant: the flag is not looked at.
ExecStart_despite_dirty(c) ==
  /\ Idle
  /\ multi[c]
  /\ running' = c
  /\ slave' = Fed(<<[db |-> db[c], op |-> [cmd |-> "multi"]]>>)
  /\ unwatchAllKeys(c)
  /\ UNCHANGED <<keyspace, session, dirty_cas>>
ExecStart(c) ==
  /\ Idle
  /\ multi[c] /\ ~dirty_cas[c]
  /\ running' = c
  /\ slave' = Fed(<<[db |-> db[c], op |-> [cmd |-> "multi"]]>>)
  /\ unwatchAllKeys(c)
  /\ UNCHANGED <<keyspace, session, dirty_cas>>

ExecStep(c) ==
  /\ running = c
  /\ queue[c] # <<>>
  /\ Calls(c, Head(queue[c]))
  /\ queue' = [queue EXCEPT ![c] = Tail(@)]
  /\ UNCHANGED <<multi, running>>

(* server.dirty is incremented, so that EXEC itself is sent. *)
ExecEnd(c) ==
  /\ running = c
  /\ queue[c] = <<>>
  /\ running' = Nobody
  /\ multi' = [multi EXCEPT ![c] = FALSE]
  /\ dirty_cas' = [dirty_cas EXCEPT ![c] = FALSE]
  /\ slave' = Fed(<<[db |-> db[c], op |-> [cmd |-> "exec"]]>>)
  /\ UNCHANGED <<keyspace, db, queue, watching, stale>>

-----------------------------------------------------------------------------
(* What happens without a command.                                         *)

\* Mutant: the lists of the watched keys are not looked at.
freeClient_stays_listed(c) ==
  /\ Idle
  /\ db' = [db EXCEPT ![c] = 0]
  /\ multi' = [multi EXCEPT ![c] = FALSE]
  /\ dirty_cas' = [dirty_cas EXCEPT ![c] = FALSE]
  /\ queue' = [queue EXCEPT ![c] = <<>>]
  /\ watched' = [watched EXCEPT ![c] = {}]
  /\ stale' = [stale EXCEPT ![c] = FALSE]
  /\ UNCHANGED <<keyspace, watched_keys, running, slave>>
(* The connection is closed, and another one opened in its place. *)
freeClient(c) ==
  /\ Idle
  /\ db' = [db EXCEPT ![c] = 0]
  /\ discardTransaction(c)
  /\ UNCHANGED <<keyspace, running, slave>>

(* The expire time of a key goes by. *)
Clock(p) ==
  /\ expires[p] = "later"
  /\ expires' = [expires EXCEPT ![p] = "past"]
  /\ UNCHANGED <<dict, session, dirty_cas, watching, running, slave, stale>>

(* The server removes a key on its own account, and signals nothing. *)
Removes(p) ==
  LET s == dbDelete(propagateExpire(Store(dict, expires, FALSE), p), p)
  IN /\ dict' = s.dict
     /\ expires' = s.expires
     /\ slave' = Fed(s.out)
     /\ UNCHANGED <<session, dirty_cas, watching, running, stale>>

activeExpireCycle(p) == Idle /\ expires[p] = "past" /\ Removes(p)

(* Called before each command a client sends, not before queued ones. *)
freeMemoryIfNeeded(p) ==
  /\ Idle
  /\ \/ MaxmemoryPolicy = "allkeys" /\ dict[p] # NoValue
     \/ MaxmemoryPolicy = "volatile" /\ expires[p] # "never"
  /\ Removes(p)

-----------------------------------------------------------------------------

Exec(c) == ExecAbort(c) \/ ExecStart(c) \/ ExecStep(c) \/ ExecEnd(c)

Next ==
  \/ \E c \in Clients :
       \/ \E op \in Commands : Command(c, op) \/ queueMultiCommand(c, op)
       \/ \E k \in WatchKeys : watchCommand(c, k)
       \/ multiCommand(c) \/ discardCommand(c) \/ Exec(c) \/ freeClient(c)
  \/ \E p \in Places : Clock(p) \/ activeExpireCycle(p) \/ freeMemoryIfNeeded(p)

Spec == Init /\ [][Next]_vars

-----------------------------------------------------------------------------
(* Properties.                                                             *)

(* Every variable has its type. *)
TypeOK ==
  /\ dict \in Dict
  /\ expires \in Expires
  /\ db \in [Clients -> Dbs]
  /\ multi \in [Clients -> BOOLEAN]
  /\ dirty_cas \in [Clients -> BOOLEAN]
  /\ queue \in [Clients -> Seq(Commands)]
  /\ watched \in [Clients -> SUBSET Places]
  /\ watched_keys \in [Places -> SUBSET Clients]
  /\ running \in Clients \cup {Nobody}
  /\ stale \in [Clients -> BOOLEAN]

(* The list of clients of each key and the lists of keys of the clients    *)
(* say the same, whatever way a client stops watching: unwatchAllKeys      *)
(* asserts it (multi.c:200), and a client freed while it is still listed   *)
(* would be written to.                                                    *)
WatchListsAgree ==
  \A p \in Places, c \in Clients : c \in watched_keys[p] <=> p \in watched[c]

(* Only keys in the dictionary have an expire time: removeExpire,          *)
(* setExpire and getExpire assert it (db.c:416, 425, 441).                 *)
ExpiresHaveKeys == \A p \in Places : expires[p] # "never" => dict[p] # NoValue

(* The flag of a client that watches nothing is clear, so a transaction    *)
(* without WATCH never fails, not even after one that did.                 *)
DirtyOnlyIfWatching == \A c \in Clients : dirty_cas[c] => watched[c] # {}

(* The client that executes EXEC has stopped watching, so its own queued   *)
(* commands cannot set the flag that ExecEnd clears.                       *)
RunningWatchesNothing == \A c \in Clients : running = c => watched[c] = {}

(* A client one of whose watched keys was changed by a command that        *)
(* signals has the flag set until it stops watching: EXEC cannot go        *)
(* through on what it read before.                                         *)
StaleIsDirty == \A c \in Clients : stale[c] => dirty_cas[c]

(* EXEC starts on the queued commands only if nothing the client watches   *)
(* has been changed by a command that signals.                             *)
ExecOnlyIfUnchanged ==
  [][\A c \in Clients : Idle /\ running' = c => ~stale[c]]_vars

(* Between commands the slave has the data of the master, the same keys    *)
(* are volatile on both, and it has no half transaction and no other       *)
(* database selected than the master thinks.                               *)
SlaveAgrees ==
  Idle =>
    /\ slave.dict = dict
    /\ \A p \in Places : slave.expires[p] = "never" <=> expires[p] = "never"
    /\ ~slave.multi /\ slave.queue = <<>>
    /\ slave.db = slave.seldb

(* The comment of execCommand (multi.c:102): the block is delivered as a   *)
(* whole.  The slave's data does not change before EXEC has ended.         *)
SlaveSeesNoHalfTransaction ==
  [][running # Nobody /\ running' # Nobody =>
       slave'.dict = slave.dict /\ slave'.expires = slave.expires]_vars
=============================================================================
