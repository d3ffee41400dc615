----------------------------- MODULE RedisSync -----------------------------
(***************************************************************************)
(* How a slave of the Redis server gets in sync (redis/src/replication.c,  *)
(* with BGSAVE from rdb.c): SYNC waits for a background save, the file is  *)
(* sent in pieces, and then the modifications made meanwhile, which the    *)
(* master has been collecting in the slave's output buffer since the fork. *)
(*                                                                         *)
(* The data is abstracted to a counter per database and a modification to  *)
(* an increment of one of them: what is lost, applied twice or applied to  *)
(* the wrong database shows.  What the network delays is the same to the   *)
(* master as what still sits in the output buffer.                         *)
(***************************************************************************)
EXTENDS Integers, Sequences, SequencesExt

CONSTANTS
  Slaves,     \* the connections of slaves
  Dbs,        \* the numbers of the databases
  Faults,     \* what may go wrong: see FaultKinds
  Chunks,     \* the number of pieces the file is sent in
  MaxCount,   \* bound on the counters
  MaxReply    \* bound on the output buffers

(* fork fails; the child ends with an error; it is killed from outside *)
FaultKinds == {"fork", "save", "kill"}

ASSUME RedisSyncAssumption ==
  /\ 0 \in Dbs
  /\ Faults \subseteq FaultKinds
  /\ Chunks \in Nat \ {0}
  /\ MaxCount \in Nat /\ MaxReply \in Nat

VARIABLES
  data,        \* the master's data
  rdb,         \* the dump file: whether it exists, and its data
  child,       \* the child that saves: whether there is one, how it ended
  snapshot,    \* the data it has from the fork, while it saves
  slaves,      \* server.slaves
  replstate,   \* per slave: how far the master has come with it
  slaveseldb,  \* per slave: the database the master has selected last
  reply,       \* per slave: the output buffer
  bulk,        \* per slave: the file being sent, and the pieces left
  replica,     \* per slave: the data it has got over this connection, and
               \* the database selected there
  spoiled      \* history, per slave: one of the three exceptions of SlaveWillAgree

sync == <<slaves, replstate, slaveseldb, reply, bulk, replica, spoiled>>
vars == <<data, rdb, child, snapshot, slaves, replstate, slaveseldb, reply,
          bulk, replica, spoiled>>

Data == [Dbs -> 0..MaxCount]
Empty == [d \in Dbs |-> 0]
File(content) == [exists |-> TRUE, data |-> content]
NoFile == [exists |-> FALSE, data |-> Empty]
NoBulk == [data |-> Empty, left |-> 0]
Fresh(content) == [data |-> content, db |-> 0]

Select(d) == [cmd |-> "select", db |-> d]
Incr == [cmd |-> "incr"]
FlushAll == [cmd |-> "flushall"]
Messages == { Select(d) : d \in Dbs } \cup {Incr, FlushAll}

(* What a slave makes of a command it receives. *)
Applied(r, op) ==
  CASE op.cmd = "select"   -> [r EXCEPT !.db = op.db]
    [] op.cmd = "incr"     -> [r EXCEPT !.data[r.db] = @ + 1]
    [] op.cmd = "flushall" -> [r EXCEPT !.data = Empty]

Init ==
  /\ data = Empty
  /\ rdb = NoFile
  /\ child = "none"
  /\ snapshot = Empty
  /\ slaves = <<>>
  /\ replstate = [s \in Slaves |-> "none"]
  /\ slaveseldb = [s \in Slaves |-> 0]
  /\ reply = [s \in Slaves |-> <<>>]
  /\ bulk = [s \in Slaves |-> NoBulk]
  /\ replica = [s \in Slaves |-> Fresh(Empty)]
  /\ spoiled = [s \in Slaves |-> FALSE]

In(state) == { s \in Slaves : replstate[s] = state }

-----------------------------------------------------------------------------
(* Modifications, made by a client in database d.                          *)

(* Slaves that wait for the BGSAVE to start are not fed: its snapshot will *)
(* have the modification.                                                  *)
replicationFeedSlaves(d, op) ==
  LET fed == Slaves \ (In("none") \cup In("wait_start"))
  IN /\ reply' = [s \in Slaves |->
           IF s \notin fed THEN reply[s]
           ELSE reply[s] \o (IF slaveseldb[s] # d THEN <<Select(d), op>> ELSE <<op>>)]
     /\ slaveseldb' = [s \in Slaves |-> IF s \in fed THEN d ELSE slaveseldb[s]]
     /\ \A s \in fed : Len(reply'[s]) <= MaxReply

Write(d) ==
  /\ data[d] < MaxCount
  /\ data' = [data EXCEPT ![d] = @ + 1]
  /\ replicationFeedSlaves(d, Incr)
  /\ UNCHANGED <<rdb, child, snapshot, slaves, replstate, bulk, replica, spoiled>>

(* The child is killed, unless it has ended already, and with save points  *)
(* configured the empty data is saved at once.                             *)
flushallCommand(d) ==
  /\ data' = Empty
  /\ child' = IF child = "saving" THEN "killed" ELSE child
  /\ snapshot' = Empty
  /\ rdb' \in {rdb, File(Empty)}
  /\ replicationFeedSlaves(d, FlushAll)
  /\ UNCHANGED <<slaves, replstate, bulk, replica, spoiled>>

-----------------------------------------------------------------------------
(* BGSAVE.                                                                 *)

Forks == child' = "saving" /\ snapshot' = data

(* BGSAVE, or a save point reached; when fork fails, nothing changes. *)
bgsaveCommand ==
  /\ child = "none"
  /\ Forks
  /\ UNCHANGED <<data, rdb, sync>>

saveCommand ==
  /\ child = "none"
  /\ rdb' = File(data)
  /\ UNCHANGED <<data, child, snapshot, sync>>

(* The child renames its file over the old one, and exits. *)
ChildExits ==
  /\ child = "saving"
  /\ \/ child' = "saved" /\ rdb' = File(snapshot)
     \/ "save" \in Faults /\ child' = "failed" /\ UNCHANGED rdb
  /\ snapshot' = Empty
  /\ UNCHANGED <<data, sync>>

ChildKilled ==
  /\ "kill" \in Faults
  /\ child = "saving"
  /\ child' = "killed"
  /\ snapshot' = Empty
  /\ spoiled' = [s \in Slaves |-> spoiled[s] \/ replstate[s] = "wait_end"]
  /\ UNCHANGED <<data, rdb, slaves, replstate, slaveseldb, reply, bulk, replica>>

-----------------------------------------------------------------------------
(* The master's side of SYNC.                                              *)

(* The places on the list of those that wait for the BGSAVE to end. *)
Waiting == { i \in DOMAIN slaves : replstate[slaves[i]] = "wait_end" }

\* Mutant: any BGSAVE in progress will do.
syncCommand_joins_any(s) ==
  /\ replstate[s] = "none"
  /\ slaves' = Append(slaves, s)
  /\ slaveseldb' = [slaveseldb EXCEPT ![s] = 0]
  /\ replstate' = [replstate EXCEPT ![s] = "wait_end"]
  /\ \/ /\ child # "none"
        /\ UNCHANGED <<reply, spoiled, child, snapshot>>
     \/ /\ child = "none"
        /\ Forks
        /\ UNCHANGED <<reply, spoiled>>
  /\ UNCHANGED <<data, rdb, bulk, replica>>

(* A BGSAVE in progress is good if another slave has been collecting since *)
(* it was forked: its buffer is copied.  Otherwise the next one is.  If    *)
(* there is none and fork fails, an error is all that happens.             *)
syncCommand(s) ==
  /\ replstate[s] = "none"
  /\ slaves' = Append(slaves, s)
  /\ slaveseldb' = [slaveseldb EXCEPT ![s] = 0]
  /\ \/ /\ child # "none" /\ Waiting # {}
        /\ LET other == slaves[Min(Waiting)]
           IN /\ reply' = [reply EXCEPT ![s] = reply[other]]
              /\ spoiled' = [spoiled EXCEPT ![s] = \/ spoiled[other]
                                                   \/ slaveseldb[other] # 0]
        /\ replstate' = [replstate EXCEPT ![s] = "wait_end"]
        /\ UNCHANGED <<child, snapshot>>
     \/ /\ child # "none" /\ Waiting = {}
        /\ replstate' = [replstate EXCEPT ![s] = "wait_start"]
        /\ UNCHANGED <<reply, spoiled, child, snapshot>>
     \/ /\ child = "none"
        /\ Forks
        /\ replstate' = [replstate EXCEPT ![s] = "wait_end"]
        /\ UNCHANGED <<reply, spoiled>>
  /\ UNCHANGED <<data, rdb, bulk, replica>>

(* The list, those that are gone deleted from it. *)
Without(list, gone) ==
  FoldLeft(LAMBDA l, s : IF s \in gone THEN l ELSE Append(l, s), <<>>, list)

(* freeClient on each of some slaves.  states is replstate, as the caller  *)
(* leaves it for the others.                                               *)
Freed(gone, states) ==
  /\ slaves' = Without(slaves, gone)
  /\ replstate' = [s \in Slaves |-> IF s \in gone THEN "none" ELSE states[s]]
  /\ slaveseldb' = [s \in Slaves |-> IF s \in gone THEN 0 ELSE slaveseldb[s]]
  /\ reply' = [s \in Slaves |-> IF s \in gone THEN <<>> ELSE reply[s]]
  /\ replica' = [s \in Slaves |-> IF s \in gone THEN Fresh(Empty) ELSE replica[s]]

\* Mutant: the slaves that waited for a BGSAVE to start wait for it to end,
\* but none is started.
updateSlavesWaitingBgsave_no_start(bgsaveerr) ==
  LET ready == IF ~bgsaveerr /\ rdb.exists THEN In("wait_end") ELSE {}
      gone == In("wait_end") \ ready
      starting == In("wait_start")
      states == [s \in Slaves |-> IF s \in ready THEN "send_bulk"
                                  ELSE IF s \in starting THEN "wait_end"
                                  ELSE replstate[s]]
  IN /\ Freed(gone, states)
     /\ bulk' = [s \in Slaves |->
          IF s \in ready THEN [data |-> rdb.data, left |-> Chunks]
          ELSE IF s \in gone THEN NoBulk ELSE bulk[s]]
     /\ child' = "none" /\ UNCHANGED snapshot
     /\ spoiled' = [s \in Slaves |-> spoiled[s] /\ s \notin gone]

(* The slaves that waited for the end of the BGSAVE are sent the file, or  *)
(* freed if it failed or the file cannot be opened; for those that waited  *)
(* for one to start, one is started.  If it cannot be, the code looks for  *)
(* slaves still waiting for the start to free them, and finds none.        *)
updateSlavesWaitingBgsave(bgsaveerr) ==
  LET ready == IF ~bgsaveerr /\ rdb.exists THEN In("wait_end") ELSE {}
      gone == In("wait_end") \ ready
      starting == In("wait_start")
      states == [s \in Slaves |-> IF s \in ready THEN "send_bulk"
                                  ELSE IF s \in starting THEN "wait_end"
                                  ELSE replstate[s]]
  IN /\ Freed(gone, states)
     /\ bulk' = [s \in Slaves |->
          IF s \in ready THEN [data |-> rdb.data, left |-> Chunks]
          ELSE IF s \in gone THEN NoBulk ELSE bulk[s]]
     /\ \/ /\ starting # {}
           /\ Forks
           /\ spoiled' = [s \in Slaves |-> spoiled[s] /\ s \notin gone]
        \/ /\ starting = {} \/ "fork" \in Faults
           /\ child' = "none" /\ UNCHANGED snapshot
           /\ spoiled' = [s \in Slaves |-> \/ spoiled[s] /\ s \notin gone
                                           \/ s \in starting]

(* serverCron finds that the child has ended.  The exit code of a child    *)
(* killed by a signal is 0, which updateSlavesWaitingBgsave takes for      *)
(* success.                                                                *)
backgroundSaveDoneHandler ==
  /\ child \in {"saved", "failed", "killed"}
  /\ updateSlavesWaitingBgsave(child = "failed")
  /\ UNCHANGED <<data, rdb>>

(* One piece; after the last the slave loads the file, and its connection  *)
(* to the master becomes a client in database 0.                           *)
sendBulkToSlave(s) ==
  /\ replstate[s] = "send_bulk"
  /\ IF bulk[s].left = 1
     THEN /\ bulk' = [bulk EXCEPT ![s] = NoBulk]
          /\ replstate' = [replstate EXCEPT ![s] = "online"]
          /\ replica' = [replica EXCEPT ![s] = Fresh(bulk[s].data)]
     ELSE /\ bulk' = [bulk EXCEPT ![s].left = @ - 1]
          /\ UNCHANGED <<replstate, replica>>
  /\ UNCHANGED <<data, rdb, child, snapshot, slaves, slaveseldb, reply, spoiled>>

sendReplyToClient(s) ==
  /\ replstate[s] = "online"
  /\ reply[s] # <<>>
  /\ replica' = [replica EXCEPT ![s] = Applied(@, Head(reply[s]))]
  /\ reply' = [reply EXCEPT ![s] = Tail(@)]
  /\ UNCHANGED <<data, rdb, child, snapshot, slaves, replstate, slaveseldb,
                 bulk, spoiled>>

\* Mutant: the slave stays on the list of slaves.
freeClient_stays_listed(s) ==
  /\ replstate[s] # "none"
  /\ replstate' = [replstate EXCEPT ![s] = "none"]
  /\ slaveseldb' = [slaveseldb EXCEPT ![s] = 0]
  /\ reply' = [reply EXCEPT ![s] = <<>>]
  /\ bulk' = [bulk EXCEPT ![s] = NoBulk]
  /\ replica' = [replica EXCEPT ![s] = Fresh(Empty)]
  /\ spoiled' = [spoiled EXCEPT ![s] = FALSE]
  /\ UNCHANGED <<data, rdb, child, snapshot, slaves>>

(* The connection is lost, a limit of the output buffer is exceeded, or a  *)
(* read or write of the file fails.  The slave will have to SYNC again.    *)
freeClient(s) ==
  /\ replstate[s] # "none"
  /\ Freed({s}, replstate)
  /\ bulk' = [bulk EXCEPT ![s] = NoBulk]
  /\ spoiled' = [spoiled EXCEPT ![s] = FALSE]
  /\ UNCHANGED <<data, rdb, child, snapshot>>

-----------------------------------------------------------------------------

Next ==
  \/ \E d \in Dbs : Write(d) \/ flushallCommand(d)
  \/ bgsaveCommand \/ saveCommand \/ ChildExits \/ ChildKilled
  \/ backgroundSaveDoneHandler
  \/ \E s \in Slaves : \/ syncCommand(s) \/ sendBulkToSlave(s)
                       \/ sendReplyToClient(s) \/ freeClient(s)

(* The child ends, serverCron runs, and a connection that is writable is   *)
(* written to.  Nobody has to send commands, and connections may break.    *)
Fairness ==
  /\ WF_vars(ChildExits)
  /\ WF_vars(backgroundSaveDoneHandler)
  /\ \A s \in Slaves : WF_vars(sendBulkToSlave(s))

Spec == Init /\ [][Next]_vars /\ Fairness

-----------------------------------------------------------------------------
(* Properties.                                                             *)

(* Every variable has its type. *)
TypeOK ==
  /\ data \in Data
  /\ rdb \in [exists : BOOLEAN, data : Data]
  /\ child \in {"none", "saving", "saved", "failed", "killed"}
  /\ snapshot \in Data
  /\ slaves \in Seq(Slaves)
  /\ replstate \in [Slaves -> {"none", "wait_start", "wait_end", "send_bulk", "online"}]
  /\ slaveseldb \in [Slaves -> Dbs]
  /\ reply \in [Slaves -> Seq(Messages)]
  /\ bulk \in [Slaves -> [data : Data, left : 0..Chunks]]
  /\ replica \in [Slaves -> [data : [Dbs -> Nat], db : Dbs]]
  /\ spoiled \in [Slaves -> BOOLEAN]

(* A slave is on the list once from SYNC until it is freed: freeClient     *)
(* asserts that it finds it there (networking.c:613).                      *)
SlavesAreListed ==
  \A s \in Slaves :
    IF replstate[s] = "none" THEN \A i \in DOMAIN slaves : slaves[i] # s
    ELSE \E i \in DOMAIN slaves : \A j \in DOMAIN slaves : slaves[j] = s <=> j = i

(* What a slave has once it has received all that is in its buffer. *)
Drained(s) ==
  FoldLeft(Applied,
           IF replstate[s] = "send_bulk" THEN Fresh(bulk[s].data) ELSE replica[s],
           reply[s])

(* From the moment the file is sent, file and buffer together make the     *)
(* master's data, with no modification missing or applied twice, and the   *)
(* database selected is the one the master thinks, whenever SYNC was       *)
(* issued and whatever FLUSHALL did to the child meanwhile.  The three     *)
(* exceptions: the slave has joined a BGSAVE when a database other than 0  *)
(* was selected; the child it waited for was killed by someone else; or    *)
(* the BGSAVE it waited for could not be started.                          *)
SlaveWillAgree ==
  \A s \in Slaves :
    replstate[s] \in {"send_bulk", "online"} /\ ~spoiled[s] =>
      Drained(s) = [data |-> data, db |-> slaveseldb[s]]

(* A slave waits for a BGSAVE only while there is one, or it would wait    *)
(* forever, with the same three exceptions; a slave whose BGSAVE could not *)
(* be started is the one that does wait without a child.                   *)
WaitersHaveChild ==
  \A s \in Slaves :
    \/ replstate[s] = "wait_start"
    \/ replstate[s] = "wait_end" /\ ~spoiled[s]
    => child # "none"

(* A slave that waits for a BGSAVE, or for the file, gets into sync or is  *)
(* freed, or is one of the three exceptions, of which nothing is said.     *)
SyncEnds ==
  \A s \in Slaves :
    replstate[s] \in {"wait_start", "wait_end", "send_bulk"}
      ~> replstate[s] \in {"none", "online"} \/ spoiled[s]

-----------------------------------------------------------------------------
(* What the repository says and the code does not do.                      *)

(* redis.conf:141, "Use slaveof to make a Redis instance a copy of another *)
(* Redis server", and the test of three slaves that synchronise at once    *)
(* (tests/integration/replication.tcl:152).  syncCommand copies the output *)
(* buffer of another slave but sets slaveseldb to 0, whatever database was *)
(* selected there: modifications of database 0 then go to that one.        *)
SlaveIsCopy ==
  \A s \in Slaves :
    replstate[s] = "online" /\ reply[s] = <<>> => replica[s].data = data
=============================================================================
