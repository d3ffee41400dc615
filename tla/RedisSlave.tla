----------------------------- MODULE RedisSlave -----------------------------
(***************************************************************************)
(* The slave's side of replication (redis/src/replication.c): connecting   *)
(* to the master in the background, the transfer of its data, the link     *)
(* that follows, timeouts, SLAVEOF at any time, and a slave of this slave. *)
(* Masters are external: after SYNC one sends a header, Chunks pieces of   *)
(* its data and then commands.                                             *)
(***************************************************************************)
EXTENDS Integers, Sequences, FiniteSetsExt

CONSTANTS
  Hosts,       \* masters
  None,
  Chunks,
  MaxSlaveofs, MaxFaults   \* bounds

VARIABLE rep   \* struct redisServer, the repl_ fields

Fds == 1 .. MaxSlaveofs + 2

(* A descriptor and its entry in the event loop, which the event loop      *)
(* keeps when it is closed without aeDeleteFileEvent ("stale"); pos: how   *)
(* much of what the master sends has been read.                            *)
Free == [open |-> FALSE, host |-> None, handler |-> "none", pos |-> 0, hung |-> FALSE]

Own == [base |-> None, stream |-> {}]

(* slave: there is a slave of this slave; stale: it has data that have     *)
(* been replaced here; hasty: SLAVEOF has come while there was a           *)
(* connection in progress.                                                 *)
Started ==
  [masterhost |-> None, repl_state |-> "none", repl_transfer_s |-> 0, repl_transfer_left |-> -1,
   tmpfile |-> <<>>, master |-> 0, socks |-> [fd \in Fds |-> Free], data |-> Own, at |-> "up",
   aof |-> TRUE, slave |-> FALSE, stale |-> FALSE, hasty |-> FALSE, slaveofs |-> 0, faults |-> 0]

Init == rep = Started

-----------------------------------------------------------------------------
(* The event loop: descriptors are reused, and an entry that has stayed    *)
(* makes the next aeCreateFileEvent for its descriptor fail.               *)

Closed(x, fd) == [x EXCEPT !.socks[fd] = Free]
ClosedOnly(x, fd) ==
  [x EXCEPT !.socks[fd] = [Free EXCEPT !.handler = IF x.socks[fd].handler = "sync" THEN "stale" ELSE "none"]]

Dead(x, how) == [x EXCEPT !.at = how]

-----------------------------------------------------------------------------

disconnectSlaves(x) == [x EXCEPT !.slave = FALSE, !.stale = FALSE]

(* freeClient of the link to the master. *)
FreeMaster(x) ==
  LET y == [Closed(x, x.master) EXCEPT !.master = 0, !.repl_state = "connect"]
  IN IF x.master = 0 THEN x ELSE IF x.masterhost # None THEN disconnectSlaves(y) ELSE y

replicationAbortSyncTransfer(x) ==
  IF x.repl_state # "transfer" THEN Dead(x, "assert")
  ELSE [ClosedOnly(x, x.repl_transfer_s) EXCEPT !.tmpfile = <<>>, !.repl_state = "connect"]

undoConnectWithMaster(x) ==
  IF x.repl_state # "connecting" THEN Dead(x, "assert")
  ELSE [Closed(x, x.repl_transfer_s) EXCEPT !.repl_transfer_s = 0, !.repl_state = "connect"]

connectWithMaster(x) ==
  LET fd == Min({ f \in Fds : ~x.socks[f].open })
  IN IF x.socks[fd].handler = "stale" THEN x
     ELSE [x EXCEPT !.socks[fd] = [Free EXCEPT !.open = TRUE, !.host = x.masterhost, !.handler = "sync"],
                    !.repl_transfer_s = fd, !.repl_state = "connecting"]

-----------------------------------------------------------------------------
(* SLAVEOF.                                                                *)

SlaveofNoOne(x) ==
  LET y == FreeMaster([x EXCEPT !.masterhost = None])
      z == CASE y.repl_state = "transfer" -> replicationAbortSyncTransfer(y)
             [] y.repl_state = "connecting" -> undoConnectWithMaster(y)
             [] OTHER -> y
  IN IF x.masterhost = None THEN x ELSE [z EXCEPT !.repl_state = "none"]

SlaveofHost(x, h) ==
  LET y == disconnectSlaves(FreeMaster([x EXCEPT !.masterhost = h]))
      z == IF y.repl_state = "transfer" THEN replicationAbortSyncTransfer(y) ELSE y
  IN IF x.masterhost = h THEN x
     ELSE [z EXCEPT !.repl_state = "connect", !.hasty = @ \/ x.repl_state = "connecting"]

slaveofCommand ==
  /\ rep.at = "up" /\ rep.slaveofs < MaxSlaveofs
  /\ LET x == [rep EXCEPT !.slaveofs = @ + 1]
     IN \/ rep.masterhost # None /\ rep' = SlaveofNoOne(x)
        \/ \E h \in Hosts : rep.masterhost # h /\ rep' = SlaveofHost(x, h)

-----------------------------------------------------------------------------
(* replicationCron.  Nothing has come for repl_timeout seconds exactly if  *)
(* the connection hangs.                                                   *)

TimedOut(x, fd) == x.masterhost # None /\ fd # 0 /\ (x.socks[fd].hung \/ ~x.socks[fd].open)

(* Mutant: a transfer does not time out. *)
Timeouts_not_of_transfer(x) ==
  CASE x.repl_state = "connecting" /\ TimedOut(x, x.repl_transfer_s) -> undoConnectWithMaster(x)
    [] x.repl_state = "connected" /\ TimedOut(x, x.master) -> FreeMaster(x)
    [] OTHER -> x

Timeouts(x) ==
  CASE x.repl_state = "connecting" /\ TimedOut(x, x.repl_transfer_s) -> undoConnectWithMaster(x)
    [] x.repl_state = "transfer" /\ TimedOut(x, x.repl_transfer_s) -> replicationAbortSyncTransfer(x)
    [] x.repl_state = "connected" /\ TimedOut(x, x.master) -> FreeMaster(x)
    [] OTHER -> x

replicationCron ==
  /\ rep.at = "up"
  /\ LET x == Timeouts(rep)
     IN rep' = IF x.repl_state = "connect" THEN connectWithMaster(x) ELSE x

-----------------------------------------------------------------------------
(* Events of sockets.                                                      *)

Fires(fd, handler) ==
  rep.at = "up" /\ rep.socks[fd].open /\ rep.socks[fd].handler = handler /\ ~rep.socks[fd].hung

Faulty == [rep EXCEPT !.faults = @ + 1]
MayFail == rep.faults < MaxFaults

(* The temporary file of an earlier transfer is forgotten, and             *)
(* repl_transfer_s is taken to be this socket.                             *)
SyncSent(x, fd) ==
  [x EXCEPT !.socks[fd].handler = "bulk", !.repl_state = "transfer", !.repl_transfer_left = -1, !.tmpfile = <<>>]

syncWithMaster ==
  \E fd \in Fds :
    /\ Fires(fd, "sync")
    /\ \/ rep.repl_state = "none" /\ rep' = ClosedOnly(rep, fd)
       \/ rep.repl_state # "none" /\ rep' = SyncSent(rep, fd)
       \/ rep.repl_state # "none" /\ MayFail /\ rep' = [Closed(Faulty, fd) EXCEPT !.repl_state = "connect"]

(* The pieces of one host's data, in order. *)
Valid(file) == \E h \in Hosts : file = [i \in 1 .. Chunks |-> <<h, i>>]

(* createClient, for the socket that is thought to be the one. *)
Linked(x) ==
  LET s == x.repl_transfer_s
  IN IF s = 0 \/ ~x.socks[s].open THEN Dead(x, "exit")
     ELSE [x EXCEPT !.socks[s].handler = IF @ = "sync" THEN @ ELSE "client",
                    !.master = s, !.repl_state = "connected", !.tmpfile = <<>>]

(* The append-only file is switched off and on again.  The last of ten     *)
(* attempts ends the server if it succeeds, and if it fails the file stays *)
(* off.                                                                    *)
RestartAof(x) ==
  {x} \cup (IF x.at = "up" /\ x.aof /\ MayFail
            THEN LET y == [x EXCEPT !.faults = @ + 1] IN {Dead(y, "exit"), [y EXCEPT !.aof = FALSE]}
            ELSE {})

(* rename, emptyDb, rdbLoad. *)
TransferEnds(x) ==
  LET s == x.repl_transfer_s
      bulk == s # 0 /\ x.socks[s].handler = "bulk"
      emptied == [x EXCEPT !.data = Own, !.stale = x.slave, !.socks = IF bulk THEN [@ EXCEPT ![s].handler = "none"] ELSE @]
  IN IF Valid(x.tmpfile)
     THEN RestartAof(Linked([emptied EXCEPT !.data.base = x.tmpfile[1][1]]))
     ELSE {replicationAbortSyncTransfer(emptied), Dead(emptied, "exit")}

(* The header, unless this socket is past it, or a piece of data. *)
Header(x, fd) ==
  IF x.socks[fd].pos = 0 THEN [x EXCEPT !.repl_transfer_left = Chunks, !.socks[fd].pos = 1]
  ELSE replicationAbortSyncTransfer(x)

Piece(x, fd) ==
  [x EXCEPT !.tmpfile = Append(@, <<x.socks[fd].host, x.socks[fd].pos>>), !.repl_transfer_left = @ - 1,
            !.socks[fd].pos = IF @ > Chunks THEN @ ELSE @ + 1]

readSyncBulkPayload ==
  \E fd \in Fds :
    /\ Fires(fd, "bulk")
    /\ \/ rep.repl_transfer_left = -1 /\ rep' = Header(rep, fd)
       \/ /\ rep.repl_transfer_left > 0
          /\ LET x == Piece(rep, fd)
             IN IF x.repl_transfer_left = 0 THEN rep' \in TransferEnds(x) ELSE rep' = x
       \/ MayFail /\ rep' = replicationAbortSyncTransfer(Faulty)

(* A command from the master; the link is lost. *)
readQueryFromMaster ==
  \E fd \in Fds :
    /\ Fires(fd, "client")
    /\ \/ rep' = [rep EXCEPT !.data.stream = @ \cup {rep.socks[fd].host}]
       \/ MayFail /\ rep' = FreeMaster(Faulty)

(* SYNC of a slave, which gets the data and from then on the commands. *)
syncCommand ==
  /\ rep.at = "up" /\ ~rep.slave
  /\ rep.masterhost # None => rep.repl_state = "connected"
  /\ rep' = [rep EXCEPT !.slave = TRUE]

(* freeClient of that slave. *)
FreeSlave == rep.at = "up" /\ rep.slave /\ rep' = disconnectSlaves(rep)

(* The other side does not answer any more. *)
Hang == \E fd \in Fds :
          /\ rep.at = "up" /\ MayFail /\ rep.socks[fd].open /\ ~rep.socks[fd].hung
          /\ rep' = [Faulty EXCEPT !.socks[fd].hung = TRUE]

Restart == /\ rep.at # "up"
           /\ rep' = [Started EXCEPT !.slaveofs = rep.slaveofs, !.faults = rep.faults]

Progress == replicationCron \/ syncWithMaster \/ readSyncBulkPayload \/ Restart

Next == Progress \/ slaveofCommand \/ readQueryFromMaster \/ syncCommand \/ FreeSlave \/ Hang

-----------------------------------------------------------------------------

Watched == { fd \in Fds : rep.socks[fd].handler # "none" }

(* As long as no SLAVEOF comes while a connection is in progress: the      *)
(* socket that is connecting, transferring or linked is the master's that  *)
(* the user asked for, there is no other, the data and the commands are    *)
(* that master's once the link is there, and no assertion fails.           *)
SlaveFollowsHost ==
  ~rep.hasty =>
    /\ rep.at # "assert"
    /\ rep.at = "up" =>
         LET s == IF rep.repl_state = "connected" THEN rep.master ELSE rep.repl_transfer_s
         IN IF rep.repl_state \in {"none", "connect"} THEN Watched = {}
            ELSE Watched = {s} /\ rep.socks[s].open /\ rep.socks[s].host = rep.masterhost
    /\ rep.at = "up" /\ rep.repl_state = "connected" =>
         rep.data.base = rep.masterhost /\ rep.data.stream \subseteq {rep.masterhost}

(* A slave of this slave never stays attached when the data are replaced   *)
(* by the master's, after SLAVEOF or a lost link.                          *)
SubslavesHaveOurData == ~rep.hasty => ~rep.stale

(* A slave whose connections have failed, hung or been lost at any point   *)
(* is linked to its master in the end, once they stop doing so.            *)
Settled == rep.masterhost = None \/ rep.repl_state = "connected" \/ rep.hasty
=============================================================================
