--------------------------- MODULE RedisSlaveProof ---------------------------
(***************************************************************************)
(* Proofs about the slave's side of replication, for any masters, any size *)
(* of their data, and any number of SLAVEOFs, faults and restarts.  As     *)
(* long as no SLAVEOF comes during a connect, the state of the link says   *)
(* exactly which socket there is and what its handler is, and how much of  *)
(* the data has come through it (Good).                                    *)
(***************************************************************************)
EXTENDS RedisSlave, FoldFacts, SequenceTheorems

Spec == Init /\ [][Next]_rep

(* There are data to be sent, and a descriptor left besides one in use. *)
SlaveAssumption == Chunks \in Nat \ {0} /\ MaxSlaveofs \in Nat /\ None \notin Hosts

(* x has the fields of the server, with whatever values. *)
Server(x) ==
  /\ x.hasty \in BOOLEAN
  /\ x = [masterhost |-> x.masterhost, repl_state |-> x.repl_state, repl_transfer_s |-> x.repl_transfer_s,
          repl_transfer_left |-> x.repl_transfer_left, tmpfile |-> x.tmpfile, master |-> x.master,
          socks |-> x.socks, data |-> x.data, at |-> x.at, aof |-> x.aof, slave |-> x.slave,
          stale |-> x.stale, hasty |-> x.hasty, slaveofs |-> x.slaveofs, faults |-> x.faults]

(* An entry of the table of sockets, and what is set of it. *)
Yes == TRUE
No == FALSE
Socket(open, h, handler, pos, hung) ==
  [open |-> open, host |-> h, handler |-> handler, pos |-> pos, hung |-> hung]
Handled(c, handler) == [c EXCEPT !.handler = handler]
Moved(c, pos) == [c EXCEPT !.pos = pos]
Hanging(c, hung) == [c EXCEPT !.hung = hung]

(* The table with one of them open, or none. *)
Sock(h, handler, pos, hung) == Socket(Yes, h, handler, pos, hung)
Only(s, c) == [fd \in Fds |-> IF fd = s THEN c ELSE Free]
NoSocks == [fd \in Fds |-> Free]

(* The first n pieces of a host's data. *)
Pieces(h, n) == [i \in 1 .. n |-> <<h, i>>]

(* What there is in each state of the link, with the socket s of master h. *)
Resting(x) == x.socks = NoSocks /\ x.master = 0
Connecting(x, s, hung) ==
  /\ x.repl_transfer_s = s /\ x.socks = Only(s, Sock(x.masterhost, "sync", 0, hung)) /\ x.master = 0
Asked(x, s, hung) ==
  /\ x.repl_transfer_s = s /\ x.socks = Only(s, Sock(x.masterhost, "bulk", 0, hung)) /\ x.master = 0
  /\ x.repl_transfer_left = -1 /\ x.tmpfile = <<>>
Receiving(x, s, hung, n) ==
  /\ x.repl_transfer_s = s /\ x.socks = Only(s, Sock(x.masterhost, "bulk", n + 1, hung)) /\ x.master = 0
  /\ x.repl_transfer_left = Chunks - n /\ x.tmpfile = Pieces(x.masterhost, n)
Following(x, s, hung) ==
  /\ x.master = s /\ x.socks = Only(s, Sock(x.masterhost, "client", Chunks + 1, hung))
  /\ \E st \in SUBSET {x.masterhost} : x.data = [base |-> x.masterhost, stream |-> st]

(* The state of the link with what there is. *)
Link(x) ==
  \/ x.repl_state = "none" /\ x.masterhost = None /\ Resting(x)
  \/ /\ x.masterhost \in Hosts
     /\ \/ x.repl_state = "connect" /\ Resting(x) /\ x.slave = FALSE
        \/ /\ x.repl_state = "connecting" /\ x.slave = FALSE
           /\ \E s \in Fds, hung \in BOOLEAN : Connecting(x, s, hung)
        \/ /\ x.repl_state = "transfer" /\ x.slave = FALSE
           /\ \E s \in Fds, hung \in BOOLEAN :
                Asked(x, s, hung) \/ (\E n \in 0 .. Chunks - 1 : Receiving(x, s, hung, n))
        \/ /\ x.repl_state = "connected"
           /\ \E s \in Fds, hung \in BOOLEAN : Following(x, s, hung)

(* Without a hasty SLAVEOF. *)
Good(x) == x.at = "up" /\ x.stale = FALSE /\ Link(x)
Fine(x) == x.at = "exit" /\ x.stale = FALSE
Inv == Server(rep) /\ (rep.hasty \/ Good(rep) \/ Fine(rep))

-----------------------------------------------------------------------------
(* One entry of the table of sockets. *)
LEMMA OneSocket ==
  ASSUME NEW s \in Fds, NEW c, NEW e
  PROVE  /\ Only(s, c)[s] = c
         /\ [Only(s, c) EXCEPT ![s] = e] = Only(s, e)
         /\ [Only(s, c) EXCEPT ![s] = Free] = NoSocks
         /\ [NoSocks EXCEPT ![s] = e] = Only(s, e)
         /\ \A fd \in Fds : fd # s => Only(s, c)[fd] = Free
         /\ \A fd \in Fds : NoSocks[fd] = Free
  BY DEF Only, NoSocks

(* y is a server, and as hasty as x. *)
Keeps(x, y) == Server(y) /\ y.hasty = x.hasty

(* The link to the master is freed. *)
LEMMA FreeMasterFields ==
  ASSUME NEW x, Server(x)
  PROVE  /\ Keeps(x, FreeMaster(x))
         /\ FreeMaster(x).masterhost = x.masterhost /\ FreeMaster(x).at = x.at
         /\ FreeMaster(x).repl_transfer_s = x.repl_transfer_s
         /\ FreeMaster(x).repl_transfer_left = x.repl_transfer_left
         /\ FreeMaster(x).tmpfile = x.tmpfile
         /\ x.master = 0 => FreeMaster(x) = x
         /\ x.master # 0 => /\ FreeMaster(x).socks = [x.socks EXCEPT ![x.master] = Free]
                            /\ FreeMaster(x).master = 0 /\ FreeMaster(x).repl_state = "connect"
         /\ x.master # 0 /\ x.masterhost # None =>
              FreeMaster(x).slave = FALSE /\ FreeMaster(x).stale = FALSE
         /\ x.master # 0 /\ x.masterhost = None =>
              FreeMaster(x).slave = x.slave /\ FreeMaster(x).stale = x.stale
<1>1. CASE x.master = 0
  BY <1>1 DEF FreeMaster, Keeps
<1>2. CASE x.master # 0 /\ x.masterhost # None
  BY <1>2 DEF FreeMaster, Keeps, Server, Closed, disconnectSlaves
<1>3. CASE x.master # 0 /\ x.masterhost = None
  BY <1>3 DEF FreeMaster, Keeps, Server, Closed, disconnectSlaves
<1> QED BY <1>1, <1>2, <1>3

(* The end of a transfer. *)
LEMMA AbortFields ==
  ASSUME NEW x, Server(x)
  PROVE  /\ Keeps(x, replicationAbortSyncTransfer(x))
         /\ x.repl_state = "transfer" =>
              /\ replicationAbortSyncTransfer(x).masterhost = x.masterhost
              /\ replicationAbortSyncTransfer(x).at = x.at
              /\ replicationAbortSyncTransfer(x).master = x.master
              /\ replicationAbortSyncTransfer(x).slave = x.slave
              /\ replicationAbortSyncTransfer(x).stale = x.stale
              /\ replicationAbortSyncTransfer(x).repl_state = "connect"
              /\ replicationAbortSyncTransfer(x).socks = ClosedOnly(x, x.repl_transfer_s).socks
<1>1. CASE x.repl_state = "transfer"
  <2> DEFINE e == [Free EXCEPT !.handler = IF x.socks[x.repl_transfer_s].handler = "sync" THEN "stale" ELSE "none"]
  <2>1. ClosedOnly(x, x.repl_transfer_s) = [x EXCEPT !.socks = [x.socks EXCEPT ![x.repl_transfer_s] = e]]
    BY DEF ClosedOnly
  <2> DEFINE k == [x.socks EXCEPT ![x.repl_transfer_s] = e]
  <2> HIDE DEF e, k
  <2> QED BY <1>1, <2>1 DEF replicationAbortSyncTransfer, Keeps, Server
<1>2. CASE x.repl_state # "transfer"
  BY <1>2 DEF replicationAbortSyncTransfer, Keeps, Server, Dead
<1> QED BY <1>1, <1>2

(* The end of a connect. *)
LEMMA UndoFields ==
  ASSUME NEW x, Server(x)
  PROVE  /\ Keeps(x, undoConnectWithMaster(x))
         /\ x.repl_state = "connecting" =>
              /\ undoConnectWithMaster(x).masterhost = x.masterhost
              /\ undoConnectWithMaster(x).at = x.at
              /\ undoConnectWithMaster(x).master = x.master
              /\ undoConnectWithMaster(x).slave = x.slave
              /\ undoConnectWithMaster(x).stale = x.stale
              /\ undoConnectWithMaster(x).repl_state = "connect"
              /\ undoConnectWithMaster(x).socks = [x.socks EXCEPT ![x.repl_transfer_s] = Free]
<1>1. CASE x.repl_state = "connecting"
  BY <1>1 DEF undoConnectWithMaster, Keeps, Server, Closed
<1>2. CASE x.repl_state # "connecting"
  BY <1>2 DEF undoConnectWithMaster, Keeps, Server, Dead
<1> QED BY <1>1, <1>2

(* Fields of a socket. *)
LEMMA SocketParts ==
  ASSUME NEW a, NEW h, NEW k, NEW p, NEW u
  PROVE  /\ Socket(a, h, k, p, u).open = a /\ Socket(a, h, k, p, u).host = h
         /\ Socket(a, h, k, p, u).handler = k
         /\ Socket(a, h, k, p, u).pos = p /\ Socket(a, h, k, p, u).hung = u
  BY DEF Socket

(* What it is when one of them is set. *)
LEMMA SocketFields ==
  ASSUME NEW a, NEW h, NEW k, NEW p, NEW u, NEW l
  PROVE  /\ Handled(Socket(a, h, k, p, u), l) = Socket(a, h, l, p, u)
         /\ Moved(Socket(a, h, k, p, u), l) = Socket(a, h, k, l, u)
         /\ Hanging(Socket(a, h, k, p, u), l) = Socket(a, h, k, p, l)
  BY DEF Socket, Handled, Moved, Hanging

(* An entry that is not in use. *)
LEMMA FreeSocket == Free = Socket(No, None, "none", 0, No)
  BY Zenon DEF Free, Socket, No

(* Without a handler it is what it was. *)
LEMMA FreeHasNoHandler == [Free EXCEPT !.handler = "none"] = Free
<1>1. Handled(Free, "none") = Free
  BY FreeSocket, SocketFields
<1> QED BY <1>1 DEF Handled

(* A socket that is opened. *)
LEMMA OpenedSocket ==
  ASSUME NEW h
  PROVE  [Free EXCEPT !.open = TRUE, !.host = h, !.handler = "sync"] = Sock(h, "sync", 0, No)
<1> DEFINE r1 == [Free EXCEPT !.open = Yes]
           r2 == [r1 EXCEPT !.host = h]
           r3 == [r2 EXCEPT !.handler = "sync"]
<1>1. [Free EXCEPT !.open = Yes, !.host = h, !.handler = "sync"] = r3
  OBVIOUS
<1>2. r1 = Socket(Yes, None, "none", 0, No)
  BY FreeSocket DEF Socket
<1> HIDE DEF r1
<1>3. r2 = Socket(Yes, h, "none", 0, No)
  BY <1>2 DEF Socket
<1> HIDE DEF r2
<1>4. r3 = Socket(Yes, h, "sync", 0, No)
  BY <1>3 DEF Socket
<1> HIDE DEF r3
<1>5. [Free EXCEPT !.open = Yes, !.host = h, !.handler = "sync"] = Sock(h, "sync", 0, No)
  BY <1>1, <1>4 DEF Sock
<1> QED BY <1>5, Zenon DEF Yes

(* A new connection. *)
LEMMA ConnectKeeps ==
  ASSUME NEW x, Server(x)
  PROVE  Keeps(x, connectWithMaster(x))
<1> DEFINE fd == Min({ f \in Fds : ~x.socks[f].open })
<1> HIDE DEF fd
<1>1. CASE x.socks[fd].handler = "stale"
  BY <1>1 DEF connectWithMaster, Keeps, fd
<1>2. CASE x.socks[fd].handler # "stale"
  <2> DEFINE k == [x.socks EXCEPT ![fd] = [Free EXCEPT !.open = TRUE, !.host = x.masterhost, !.handler = "sync"]]
  <2>1. connectWithMaster(x) = [x EXCEPT !.socks = k, !.repl_transfer_s = fd, !.repl_state = "connecting"]
    BY <1>2 DEF connectWithMaster, fd
  <2> HIDE DEF k
  <2> QED BY <2>1 DEF Keeps, Server
<1> QED BY <1>1, <1>2

(* All that Good is about is as it was. *)
Alike(x, y) ==
  /\ y.masterhost = x.masterhost /\ y.repl_state = x.repl_state /\ y.repl_transfer_s = x.repl_transfer_s
  /\ y.repl_transfer_left = x.repl_transfer_left /\ y.tmpfile = x.tmpfile /\ y.master = x.master
  /\ y.socks = x.socks /\ y.data = x.data /\ y.at = x.at /\ y.slave = x.slave /\ y.stale = x.stale

(* Then it stays good. *)
LEMMA AlikeGood ==
  ASSUME NEW x, NEW y, Alike(x, y), Good(x)
  PROVE  Good(y)
  BY DEF Alike, Good, Link, Resting, Connecting, Asked, Receiving, Following

(* The five states of the link, one by one. *)
LEMMA AloneGood ==
  ASSUME NEW x, x.at = "up", x.stale = FALSE, x.repl_state = "none", x.masterhost = None,
         x.socks = NoSocks, x.master = 0
  PROVE  Good(x)
  BY DEF Good, Link, Resting

(* There is a master, and no socket. *)
LEMMA RestingGood ==
  ASSUME NEW x, x.at = "up", x.stale = FALSE, x.repl_state = "connect", x.masterhost \in Hosts,
         x.socks = NoSocks, x.master = 0, x.slave = FALSE
  PROVE  Good(x)
  BY DEF Good, Link, Resting

(* What is good in a state of the link is that. *)
LEMMA GoodStates ==
  ASSUME NEW x, Good(x), SlaveAssumption
  PROVE  /\ x.at = "up" /\ x.stale = FALSE
         /\ x.repl_state \in {"none", "connect", "connecting", "transfer", "connected"}
         /\ x.masterhost = None <=> x.repl_state = "none"
         /\ x.repl_state # "none" => x.masterhost \in Hosts
         /\ x.repl_state \in {"none", "connect"} => x.socks = NoSocks /\ x.master = 0
         /\ x.repl_state \in {"connect", "connecting", "transfer"} => x.slave = FALSE /\ x.master = 0
         /\ x.repl_state = "connecting" => \E s \in Fds, hung \in BOOLEAN : Connecting(x, s, hung)
         /\ x.repl_state = "transfer" =>
              \E s \in Fds, hung \in BOOLEAN :
                Asked(x, s, hung) \/ (\E n \in 0 .. Chunks - 1 : Receiving(x, s, hung, n))
         /\ x.repl_state = "connected" => \E s \in Fds, hung \in BOOLEAN : Following(x, s, hung)
  BY DEF Good, Link, Resting, Connecting, Asked, Receiving, SlaveAssumption

(* A descriptor is not 0. *)
LEMMA FdsArePositive ==
  ASSUME SlaveAssumption
  PROVE  0 \notin Fds /\ 1 \in Fds /\ Fds \subseteq Nat
  BY DEF Fds, SlaveAssumption

(* The first descriptor is the one for a new connection. *)
LEMMA ConnectGood ==
  ASSUME NEW x, SlaveAssumption, Server(x), Good(x), x.repl_state = "connect"
  PROVE  Good(connectWithMaster(x))
<1> DEFINE T == { f \in Fds : ~x.socks[f].open }
           fd == Min(T)
           c == Sock(x.masterhost, "sync", 0, No)
<1>1. x.socks = NoSocks /\ x.master = 0 /\ x.slave = FALSE /\ x.stale = FALSE /\ x.at = "up" /\ x.masterhost \in Hosts
  BY GoodStates
<1>2. \A f \in Fds : x.socks[f] = Free
  BY <1>1 DEF NoSocks
<1>3. \A f \in Fds : x.socks[f].open = FALSE /\ x.socks[f].handler = "none"
  BY <1>2 DEF Free
<1>4. T \in SUBSET Nat /\ T # {}
  BY <1>3, FdsArePositive
<1>5. fd \in Fds
  <2>1. \E n \in T : \A m \in T : n <= m
    BY <1>4, LeastNat
  <2> HIDE DEF T
  <2>2. fd \in T
    BY <2>1 DEF Min
  <2> QED BY <2>2 DEF T
<1>6. [Free EXCEPT !.open = TRUE, !.host = x.masterhost, !.handler = "sync"] = c
  BY OpenedSocket
<1>7. connectWithMaster(x)
        = [x EXCEPT !.socks = [x.socks EXCEPT ![fd] = c], !.repl_transfer_s = fd, !.repl_state = "connecting"]
  <2>1. x.socks[fd].handler # "stale"
    BY <1>3, <1>5
  <2> HIDE DEF c
  <2> QED BY <1>6, <2>1 DEF connectWithMaster
<1> HIDE DEF fd, T, c
<1>8. [x.socks EXCEPT ![fd] = c] = Only(fd, c)
  BY <1>1, <1>5, OneSocket
<1> DEFINE y == connectWithMaster(x)
<1>9. /\ y.socks = Only(fd, c) /\ y.repl_transfer_s = fd /\ y.repl_state = "connecting"
      /\ y.masterhost = x.masterhost /\ y.at = "up" /\ y.stale = FALSE /\ y.slave = FALSE /\ y.master = 0
  BY <1>1, <1>7, <1>8 DEF Server
<1> HIDE DEF y
<1>10. Connecting(y, fd, No)
  BY <1>9 DEF Connecting, c
<1> QED BY <1>1, <1>5, <1>9, <1>10 DEF Good, Link, No, y

(* The socket of a transfer is closed, and forgotten by the event loop. *)
LEMMA ClosedBulk ==
  ASSUME NEW x, Server(x), NEW s \in Fds, NEW h, NEW pos, NEW hung,
         x.repl_transfer_s = s, x.socks = Only(s, Sock(h, "bulk", pos, hung))
  PROVE  ClosedOnly(x, x.repl_transfer_s).socks = NoSocks
<1>1. x.socks[s].handler = "bulk"
  <2>1. x.socks[s] = Sock(h, "bulk", pos, hung)
    BY OneSocket
  <2> QED BY <2>1, SocketParts DEF Sock
<1>2. [Free EXCEPT !.handler = "none"] = Free
  BY FreeHasNoHandler
<1>3. ClosedOnly(x, s) = [x EXCEPT !.socks = [x.socks EXCEPT ![s] = Free]]
  BY <1>1, <1>2 DEF ClosedOnly
<1>4. [x.socks EXCEPT ![s] = Free] = NoSocks
  BY OneSocket
<1> QED BY <1>3, <1>4 DEF Server

(* So it is in a transfer, whatever has come of the data. *)
LEMMA TransferSocket ==
  ASSUME NEW x, SlaveAssumption, Good(x), x.repl_state = "transfer"
  PROVE  \E s \in Fds, pos \in Nat, hung \in BOOLEAN :
           x.repl_transfer_s = s /\ x.socks = Only(s, Sock(x.masterhost, "bulk", pos, hung))
<1>1. PICK s \in Fds, hung \in BOOLEAN :
        Asked(x, s, hung) \/ (\E n \in 0 .. Chunks - 1 : Receiving(x, s, hung, n))
  BY GoodStates
<1>2. CASE Asked(x, s, hung)
  BY <1>2 DEF Asked
<1>3. ASSUME NEW n \in 0 .. Chunks - 1, Receiving(x, s, hung, n)
      PROVE  \E p \in Nat : x.repl_transfer_s = s /\ x.socks = Only(s, Sock(x.masterhost, "bulk", p, hung))
  <2>1. n + 1 \in Nat
    BY DEF SlaveAssumption
  <2> QED BY <1>3, <2>1 DEF Receiving
<1> QED BY <1>1, <1>2, <1>3

(* A transfer that is given up. *)
LEMMA AbortGood ==
  ASSUME NEW x, SlaveAssumption, Server(x), Good(x), x.repl_state = "transfer"
  PROVE  Good(replicationAbortSyncTransfer(x))
<1>1. PICK s \in Fds, pos \in Nat, hung \in BOOLEAN :
        x.repl_transfer_s = s /\ x.socks = Only(s, Sock(x.masterhost, "bulk", pos, hung))
  BY TransferSocket
<1>2. ClosedOnly(x, x.repl_transfer_s).socks = NoSocks
  BY <1>1, ClosedBulk
<1>3. x.slave = FALSE /\ x.master = 0 /\ x.stale = FALSE /\ x.at = "up" /\ x.masterhost \in Hosts
  BY GoodStates
<1> QED BY <1>2, <1>3, AbortFields, RestingGood

(* A connect that is given up. *)
LEMMA UndoGood ==
  ASSUME NEW x, SlaveAssumption, Server(x), Good(x), x.repl_state = "connecting"
  PROVE  Good(undoConnectWithMaster(x))
<1>1. PICK s \in Fds, hung \in BOOLEAN : Connecting(x, s, hung)
  BY GoodStates
<1>2. [x.socks EXCEPT ![x.repl_transfer_s] = Free] = NoSocks
  BY <1>1, OneSocket DEF Connecting
<1>3. x.slave = FALSE /\ x.master = 0 /\ x.stale = FALSE /\ x.at = "up" /\ x.masterhost \in Hosts
  BY GoodStates
<1> QED BY <1>2, <1>3, UndoFields, RestingGood

(* A link that is lost. *)
LEMMA FreeMasterGood ==
  ASSUME NEW x, SlaveAssumption, Server(x), Good(x), x.repl_state = "connected"
  PROVE  Good(FreeMaster(x))
<1>1. PICK s \in Fds, hung \in BOOLEAN : Following(x, s, hung)
  BY GoodStates
<1>2. [x.socks EXCEPT ![x.master] = Free] = NoSocks /\ x.master # 0
  BY <1>1, OneSocket, FdsArePositive DEF Following
<1>3. x.stale = FALSE /\ x.at = "up" /\ x.masterhost \in Hosts /\ x.masterhost # None
  BY GoodStates DEF SlaveAssumption
<1> QED BY <1>2, <1>3, FreeMasterFields, RestingGood

(* What replicationCron does first. *)
LEMMA TimeoutsKeep ==
  ASSUME NEW x, SlaveAssumption, Server(x)
  PROVE  /\ Keeps(x, Timeouts(x))
         /\ Good(x) => Good(Timeouts(x))
<1>1. Keeps(x, x)
  BY DEF Keeps
<1>2. \/ x.repl_state = "connecting" /\ Timeouts(x) = undoConnectWithMaster(x)
      \/ x.repl_state = "transfer" /\ Timeouts(x) = replicationAbortSyncTransfer(x)
      \/ x.repl_state = "connected" /\ Timeouts(x) = FreeMaster(x)
      \/ Timeouts(x) = x
  BY DEF Timeouts
<1>3. /\ Keeps(x, undoConnectWithMaster(x)) /\ Keeps(x, replicationAbortSyncTransfer(x))
      /\ Keeps(x, FreeMaster(x))
  BY UndoFields, AbortFields, FreeMasterFields
<1>4. Keeps(x, Timeouts(x))
  BY <1>1, <1>2, <1>3
<1>5. Good(x) => Good(Timeouts(x))
  BY <1>2, UndoGood, AbortGood, FreeMasterGood
<1> QED BY <1>4, <1>5

(* A server is left as hasty as it was and, if it was good, good or ended. *)
Safe(x, y) == Keeps(x, y) /\ (Good(x) => Good(y) \/ Fine(y))

(* The timer of the replication. *)
LEMMA CronSafe ==
  ASSUME SlaveAssumption, Server(rep), replicationCron
  PROVE  Safe(rep, rep')
<1> DEFINE x == Timeouts(rep)
<1>1. Keeps(rep, x) /\ (Good(rep) => Good(x))
  BY TimeoutsKeep
<1>2. rep' = IF x.repl_state = "connect" THEN connectWithMaster(x) ELSE x
  BY DEF replicationCron
<1> HIDE DEF x
<1>3. Server(x)
  BY <1>1 DEF Keeps
<1>4. CASE x.repl_state = "connect"
  <2>1. rep' = connectWithMaster(x)
    BY <1>2, <1>4
  <2>2. Keeps(x, rep') /\ (Good(x) => Good(rep'))
    BY <1>3, <1>4, <2>1, ConnectKeeps, ConnectGood
  <2> QED BY <1>1, <2>2 DEF Safe, Keeps
<1>5. CASE x.repl_state # "connect"
  BY <1>1, <1>2, <1>5 DEF Safe
<1> QED BY <1>4, <1>5

(* The server with one more fault, or one more SLAVEOF. *)
LEMMA CountedFields ==
  ASSUME NEW x, Server(x), NEW n
  PROVE  /\ Keeps(x, [x EXCEPT !.faults = n]) /\ Alike(x, [x EXCEPT !.faults = n])
         /\ Keeps(x, [x EXCEPT !.slaveofs = n]) /\ Alike(x, [x EXCEPT !.slaveofs = n])
  BY DEF Server, Keeps, Alike

(* The server of a fault is as good as it was. *)
LEMMA FaultyFields ==
  ASSUME Server(rep)
  PROVE  Keeps(rep, Faulty) /\ Alike(rep, Faulty) /\ Server(Faulty) /\ (Good(rep) => Good(Faulty))
<1> DEFINE n == rep.faults + 1
<1>1. Faulty = [rep EXCEPT !.faults = n]
  BY DEF Faulty
<1> HIDE DEF n
<1>2. Keeps(rep, Faulty) /\ Alike(rep, Faulty)
  BY <1>1, CountedFields
<1> QED BY <1>2, AlikeGood DEF Keeps

(* An event comes from the one socket there is, which has the handler of   *)
(* the state of the link.                                                  *)
LEMMA FiringSocket ==
  ASSUME SlaveAssumption, Good(rep), NEW fd \in Fds, rep.socks[fd].open
  PROVE  /\ rep.repl_state \in {"connecting", "transfer", "connected"}
         /\ rep.repl_state = "connecting" => \E hung \in BOOLEAN : Connecting(rep, fd, hung)
         /\ rep.repl_state = "transfer" =>
              \E hung \in BOOLEAN :
                Asked(rep, fd, hung) \/ (\E n \in 0 .. Chunks - 1 : Receiving(rep, fd, hung, n))
         /\ rep.repl_state = "connected" => \E hung \in BOOLEAN : Following(rep, fd, hung)
<1>1. Free.open = FALSE
  BY DEF Free
<1>2. ASSUME NEW s \in Fds, NEW c, rep.socks = Only(s, c) PROVE fd = s
  BY <1>1, <1>2, OneSocket
<1>3. ~(rep.socks = NoSocks)
  BY <1>1, OneSocket
<1>4. rep.repl_state \in {"connecting", "transfer", "connected"}
  BY <1>3, GoodStates
<1>5. rep.repl_state = "connecting" => \E hung \in BOOLEAN : Connecting(rep, fd, hung)
  BY <1>2, GoodStates DEF Connecting
<1>6. ASSUME rep.repl_state = "transfer"
      PROVE  \E hung \in BOOLEAN :
               Asked(rep, fd, hung) \/ (\E n \in 0 .. Chunks - 1 : Receiving(rep, fd, hung, n))
  <2>1. PICK s \in Fds, hung \in BOOLEAN :
          Asked(rep, s, hung) \/ (\E n \in 0 .. Chunks - 1 : Receiving(rep, s, hung, n))
    BY <1>6, GoodStates
  <2>2. fd = s
    BY <1>2, <2>1 DEF Asked, Receiving
  <2> QED BY <2>1, <2>2
<1>7. rep.repl_state = "connected" => \E hung \in BOOLEAN : Following(rep, fd, hung)
  BY <1>2, GoodStates DEF Following
<1> QED BY <1>4, <1>5, <1>6, <1>7

(* The handler of that socket. *)
LEMMA FiringHandler ==
  ASSUME SlaveAssumption, Good(rep), NEW fd \in Fds, rep.socks[fd].open
  PROVE  /\ rep.socks[fd].handler = "sync" => rep.repl_state = "connecting"
         /\ rep.socks[fd].handler = "bulk" => rep.repl_state = "transfer"
         /\ rep.socks[fd].handler = "client" => rep.repl_state = "connected"
<1>1. ASSUME NEW h, NEW k, NEW p, NEW u, rep.socks = Only(fd, Sock(h, k, p, u))
      PROVE  rep.socks[fd].handler = k
  <2>1. rep.socks[fd] = Sock(h, k, p, u)
    BY <1>1, OneSocket
  <2> QED BY <2>1, SocketParts DEF Sock
<1>2. rep.repl_state = "connecting" => rep.socks[fd].handler = "sync"
  BY <1>1, FiringSocket DEF Connecting
<1>3. rep.repl_state = "transfer" => rep.socks[fd].handler = "bulk"
  BY <1>1, FiringSocket DEF Asked, Receiving
<1>4. rep.repl_state = "connected" => rep.socks[fd].handler = "client"
  BY <1>1, FiringSocket DEF Following
<1> QED BY <1>2, <1>3, <1>4, FiringSocket

(* syncWithMaster sends SYNC, or fails. *)
LEMMA SyncSafe ==
  ASSUME SlaveAssumption, Server(rep), syncWithMaster
  PROVE  Safe(rep, rep')
<1>1. PICK fd \in Fds :
        /\ Fires(fd, "sync")
        /\ \/ rep.repl_state = "none" /\ rep' = ClosedOnly(rep, fd)
           \/ rep.repl_state # "none" /\ rep' = SyncSent(rep, fd)
           \/ rep.repl_state # "none" /\ rep' = [Closed(Faulty, fd) EXCEPT !.repl_state = "connect"]
  BY DEF syncWithMaster
<1>2. rep.socks[fd].open /\ rep.socks[fd].handler = "sync"
  BY <1>1 DEF Fires
<1>3. ASSUME Good(rep)
      PROVE  /\ rep.repl_state = "connecting" /\ rep.masterhost \in Hosts
             /\ rep.at = "up" /\ rep.stale = FALSE /\ rep.slave = FALSE /\ rep.master = 0
             /\ \E hung \in BOOLEAN : Connecting(rep, fd, hung)
  BY <1>2, <1>3, FiringSocket, FiringHandler, GoodStates
<1>4. CASE rep.repl_state = "none" /\ rep' = ClosedOnly(rep, fd)
  <2> DEFINE k == [rep.socks EXCEPT ![fd] =
                     [Free EXCEPT !.handler = IF rep.socks[fd].handler = "sync" THEN "stale" ELSE "none"]]
  <2>1. rep' = [rep EXCEPT !.socks = k]
    BY <1>4 DEF ClosedOnly
  <2> HIDE DEF k
  <2>2. Keeps(rep, rep')
    BY <2>1 DEF Keeps, Server
  <2> QED BY <1>3, <1>4, <2>2 DEF Safe
<1>5. CASE rep' = SyncSent(rep, fd)
  <2> DEFINE c == Handled(rep.socks[fd], "bulk")
             k == [rep.socks EXCEPT ![fd] = c]
  <2>1. rep' = [rep EXCEPT !.socks = k, !.repl_state = "transfer", !.repl_transfer_left = -1, !.tmpfile = <<>>]
    BY <1>5 DEF SyncSent, Handled
  <2> HIDE DEF c, k
  <2>2. Keeps(rep, rep')
    BY <2>1 DEF Keeps, Server
  <2>3. /\ rep'.socks = k /\ rep'.repl_state = "transfer" /\ rep'.repl_transfer_left = -1
        /\ rep'.tmpfile = <<>> /\ rep'.masterhost = rep.masterhost /\ rep'.at = rep.at
        /\ rep'.stale = rep.stale /\ rep'.slave = rep.slave /\ rep'.master = rep.master
        /\ rep'.repl_transfer_s = rep.repl_transfer_s
    BY <2>1 DEF Server
  <2>4. ASSUME Good(rep) PROVE Good(rep')
    <3>1. PICK hung \in BOOLEAN : Connecting(rep, fd, hung)
      BY <1>3, <2>4
    <3>2. rep.socks[fd] = Sock(rep.masterhost, "sync", 0, hung)
      BY <3>1, OneSocket DEF Connecting
    <3>3. c = Sock(rep.masterhost, "bulk", 0, hung)
      BY <3>2, SocketFields DEF Sock, c
    <3>4. k = Only(fd, Sock(rep.masterhost, "bulk", 0, hung))
      BY <3>1, <3>3, OneSocket DEF Connecting, k
    <3>5. Asked(rep', fd, hung)
      BY <2>3, <3>1, <3>4 DEF Asked, Connecting
    <3> QED BY <1>3, <2>3, <2>4, <3>5 DEF Good, Link
  <2> QED BY <2>2, <2>4 DEF Safe
<1>6. CASE rep' = [Closed(Faulty, fd) EXCEPT !.repl_state = "connect"]
  <2> DEFINE f == Faulty
  <2>1. Keeps(rep, f) /\ Alike(rep, f) /\ Server(f)
    BY FaultyFields
  <2>2. rep' = [[f EXCEPT !.socks[fd] = Free] EXCEPT !.repl_state = "connect"]
    BY <1>6 DEF Closed
  <2> HIDE DEF f
  <2>3. Keeps(f, rep')
    BY <2>1, <2>2 DEF Keeps, Server
  <2>4. /\ rep'.socks = [f.socks EXCEPT ![fd] = Free] /\ rep'.repl_state = "connect"
        /\ rep'.masterhost = f.masterhost /\ rep'.at = f.at /\ rep'.stale = f.stale
        /\ rep'.slave = f.slave /\ rep'.master = f.master
    BY <2>1, <2>2 DEF Server
  <2>5. ASSUME Good(rep) PROVE Good(rep')
    <3>1. PICK hung \in BOOLEAN : Connecting(rep, fd, hung)
      BY <1>3, <2>5
    <3>2. [rep.socks EXCEPT ![fd] = Free] = NoSocks
      BY <3>1, OneSocket DEF Connecting
    <3> QED BY <1>3, <2>1, <2>4, <2>5, <3>2, RestingGood DEF Alike
  <2> QED BY <2>1, <2>3, <2>5 DEF Safe, Keeps
<1> QED BY <1>1, <1>4, <1>5, <1>6

(* The header. *)
LEMMA HeaderSafe ==
  ASSUME SlaveAssumption, Server(rep), NEW fd \in Fds, rep.socks[fd].open, rep.socks[fd].handler = "bulk",
         rep.repl_transfer_left = -1
  PROVE  Safe(rep, Header(rep, fd))
<1> DEFINE y == Header(rep, fd)
<1>1. CASE rep.socks[fd].pos # 0
  <2>1. y = replicationAbortSyncTransfer(rep)
    BY <1>1 DEF Header
  <2>2. Good(rep) => rep.repl_state = "transfer"
    BY FiringHandler
  <2> QED BY <2>1, <2>2, AbortFields, AbortGood DEF Safe
<1>2. CASE rep.socks[fd].pos = 0
  <2> DEFINE c == Moved(rep.socks[fd], 1)
             k == [rep.socks EXCEPT ![fd] = c]
  <2>1. y = [rep EXCEPT !.repl_transfer_left = Chunks, !.socks = k]
    BY <1>2 DEF Header, Moved
  <2> HIDE DEF c, k, y
  <2>2. Keeps(rep, y)
    BY <2>1 DEF Keeps, Server
  <2>3. /\ y.socks = k /\ y.repl_state = rep.repl_state /\ y.repl_transfer_left = Chunks
        /\ y.tmpfile = rep.tmpfile /\ y.masterhost = rep.masterhost /\ y.at = rep.at
        /\ y.stale = rep.stale /\ y.slave = rep.slave /\ y.master = rep.master
        /\ y.repl_transfer_s = rep.repl_transfer_s
    BY <2>1 DEF Server
  <2>4. ASSUME Good(rep) PROVE Good(y)
    <3>1. /\ rep.repl_state = "transfer" /\ rep.masterhost \in Hosts
          /\ rep.at = "up" /\ rep.stale = FALSE /\ rep.slave = FALSE /\ rep.master = 0
      BY <2>4, FiringHandler, GoodStates
    <3>2. PICK hung \in BOOLEAN :
            Asked(rep, fd, hung) \/ (\E n \in 0 .. Chunks - 1 : Receiving(rep, fd, hung, n))
      BY <2>4, <3>1, FiringSocket
    <3>3. Asked(rep, fd, hung)
      <4>1. ASSUME NEW n \in 0 .. Chunks - 1, Receiving(rep, fd, hung, n) PROVE FALSE
        BY <4>1 DEF Receiving, SlaveAssumption
      <4> QED BY <3>2, <4>1
    <3>4. rep.socks[fd] = Sock(rep.masterhost, "bulk", 0, hung)
      BY <3>3, OneSocket DEF Asked
    <3>5. c = Sock(rep.masterhost, "bulk", 1, hung)
      BY <3>4, SocketFields DEF Sock, c
    <3>6. k = Only(fd, Sock(rep.masterhost, "bulk", 1, hung))
      BY <3>3, <3>5, OneSocket DEF Asked, k
    <3>7. Pieces(rep.masterhost, 0) = <<>>
      BY DEF Pieces
    <3>8. 0 + 1 = 1 /\ Chunks - 0 = Chunks /\ 0 \in 0 .. Chunks - 1
      BY DEF SlaveAssumption
    <3>9. Receiving(y, fd, hung, 0)
      BY <2>3, <3>3, <3>6, <3>7, <3>8 DEF Receiving, Asked
    <3> QED BY <3>1, <2>3, <3>8, <3>9 DEF Good, Link
  <2> QED BY <2>2, <2>4 DEF Safe, y
<1> QED BY <1>1, <1>2

(* The file with what comes next through a socket. *)
Longer(x, fd) == Append(x.tmpfile, <<x.socks[fd].host, x.socks[fd].pos>>)

(* The position of a socket behind one more piece. *)
Further(x, fd) == IF x.socks[fd].pos > Chunks THEN x.socks[fd].pos ELSE x.socks[fd].pos + 1

(* What a piece of data changes. *)
LEMMA PieceIs ==
  ASSUME NEW x, NEW fd
  PROVE  Piece(x, fd) = [x EXCEPT !.tmpfile = Longer(x, fd), !.repl_transfer_left = x.repl_transfer_left - 1,
                                  !.socks = [x.socks EXCEPT ![fd] = Moved(x.socks[fd], Further(x, fd))]]
  BY DEF Piece, Moved, Longer, Further

(* It is put behind the others. *)
LEMMA PieceFile ==
  ASSUME NEW x, Server(x), NEW fd
  PROVE  Piece(x, fd).tmpfile = Longer(x, fd)
<1> DEFINE t == Longer(x, fd)
           l == x.repl_transfer_left - 1
           k == [x.socks EXCEPT ![fd] = Moved(x.socks[fd], Further(x, fd))]
<1>1. Piece(x, fd) = [x EXCEPT !.tmpfile = t, !.repl_transfer_left = l, !.socks = k]
  BY PieceIs
<1> HIDE DEF t, l, k
<1>2. Piece(x, fd).tmpfile = t
  BY <1>1 DEF Server
<1> QED BY <1>2 DEF t

(* The other fields after it. *)
LEMMA PieceFields ==
  ASSUME NEW x, Server(x), NEW fd
  PROVE  /\ Keeps(x, Piece(x, fd))
         /\ Piece(x, fd).repl_transfer_left = x.repl_transfer_left - 1
         /\ Piece(x, fd).socks = [x.socks EXCEPT ![fd] = Moved(x.socks[fd], Further(x, fd))]
         /\ Piece(x, fd).repl_state = x.repl_state /\ Piece(x, fd).masterhost = x.masterhost
         /\ Piece(x, fd).at = x.at /\ Piece(x, fd).stale = x.stale /\ Piece(x, fd).slave = x.slave
         /\ Piece(x, fd).master = x.master /\ Piece(x, fd).repl_transfer_s = x.repl_transfer_s
<1> DEFINE t == Longer(x, fd)
           l == x.repl_transfer_left - 1
           k == [x.socks EXCEPT ![fd] = Moved(x.socks[fd], Further(x, fd))]
<1>1. Piece(x, fd) = [x EXCEPT !.tmpfile = t, !.repl_transfer_left = l, !.socks = k]
  BY PieceIs
<1> HIDE DEF t, l, k
<1>2. /\ Keeps(x, Piece(x, fd))
      /\ Piece(x, fd).repl_transfer_left = l /\ Piece(x, fd).socks = k
      /\ Piece(x, fd).repl_state = x.repl_state /\ Piece(x, fd).masterhost = x.masterhost
      /\ Piece(x, fd).at = x.at /\ Piece(x, fd).stale = x.stale /\ Piece(x, fd).slave = x.slave
      /\ Piece(x, fd).master = x.master /\ Piece(x, fd).repl_transfer_s = x.repl_transfer_s
  BY <1>1 DEF Keeps, Server
<1> QED BY <1>2 DEF t, l, k

(* The pieces that have come with one more. *)
LEMMA OneMorePiece ==
  ASSUME NEW h, NEW n \in Nat
  PROVE  Append(Pieces(h, n), <<h, n + 1>>) = Pieces(h, n + 1)
<1> DEFINE p == Pieces(h, n)
           q == Append(p, <<h, n + 1>>)
           r == Pieces(h, n + 1)
<1>1. p \in Seq({h} \X Nat) /\ Len(p) = n /\ \A i \in 1 .. n : p[i] = <<h, i>>
  BY DEF Pieces
<1>2. r \in Seq({h} \X Nat) /\ Len(r) = n + 1 /\ \A i \in 1 .. n + 1 : r[i] = <<h, i>>
  BY DEF Pieces
<1> HIDE DEF p, r
<1>3. q \in Seq({h} \X Nat) /\ Len(q) = n + 1 /\ \A i \in 1 .. n + 1 : q[i] = <<h, i>>
  BY <1>1
<1> HIDE DEF q
<1>4. q = r
  BY <1>2, <1>3, SeqEqual
<1> QED BY <1>4 DEF p, q, r

(* A piece from the one socket there is. *)
LEMMA PieceReceived ==
  ASSUME SlaveAssumption, Server(rep), Good(rep), NEW fd \in Fds, rep.socks[fd].open,
         rep.socks[fd].handler = "bulk", rep.repl_transfer_left > 0
  PROVE  \E hung \in BOOLEAN, n \in 0 .. Chunks - 1 :
           /\ Receiving(rep, fd, hung, n) /\ Receiving(Piece(rep, fd), fd, hung, n + 1)
           /\ Piece(rep, fd).repl_transfer_left = Chunks - (n + 1)
<1>1. rep.repl_state = "transfer"
  BY FiringHandler
<1>2. PICK hung \in BOOLEAN :
        Asked(rep, fd, hung) \/ (\E n \in 0 .. Chunks - 1 : Receiving(rep, fd, hung, n))
  BY <1>1, FiringSocket
<1>3. ~Asked(rep, fd, hung)
  BY DEF Asked
<1>4. PICK n \in 0 .. Chunks - 1 : Receiving(rep, fd, hung, n)
  BY <1>2, <1>3
<1> DEFINE h == rep.masterhost
           c == Sock(h, "bulk", n + 1, hung)
           y == Piece(rep, fd)
<1>5. rep.socks[fd] = c /\ rep.socks = Only(fd, c)
  BY <1>4, OneSocket DEF Receiving
<1>6. c.host = h /\ c.pos = n + 1
  <2> DEFINE m == n + 1
  <2>1. c = Socket(Yes, h, "bulk", m, hung)
    BY DEF Sock
  <2> HIDE DEF m, c
  <2>2. c.host = h /\ c.pos = m
    BY <2>1, SocketParts
  <2> QED BY <2>2 DEF m
<1>7. n \in Nat /\ ~(n + 1 > Chunks) /\ Chunks - n - 1 = Chunks - (n + 1)
  BY DEF SlaveAssumption
<1> HIDE DEF c
<1>8. Moved(c, n + 1 + 1) = Sock(h, "bulk", n + 1 + 1, hung)
  BY SocketFields DEF Sock, c
<1>9. y.socks = Only(fd, Sock(h, "bulk", n + 1 + 1, hung))
  <2>1. y.socks = [rep.socks EXCEPT ![fd] = Moved(rep.socks[fd], Further(rep, fd))]
    BY PieceFields
  <2>2. Further(rep, fd) = n + 1 + 1
    BY <1>5, <1>6, <1>7 DEF Further
  <2>3. y.socks = [rep.socks EXCEPT ![fd] = Sock(h, "bulk", n + 1 + 1, hung)]
    BY <1>5, <1>8, <2>1, <2>2
  <2> QED BY <1>5, <2>3, OneSocket
<1>10. y.tmpfile = Pieces(h, n + 1)
  <2>0. y.tmpfile = Longer(rep, fd)
    BY PieceFile
  <2>1. y.tmpfile = Append(rep.tmpfile, <<h, n + 1>>)
    BY <1>5, <1>6, <2>0 DEF Longer
  <2>2. rep.tmpfile = Pieces(h, n)
    BY <1>4 DEF Receiving
  <2> QED BY <1>7, <2>1, <2>2, OneMorePiece
<1>11. y.repl_transfer_left = Chunks - (n + 1)
  <2>1. y.repl_transfer_left = rep.repl_transfer_left - 1
    BY PieceFields
  <2>2. rep.repl_transfer_left = Chunks - n
    BY <1>4 DEF Receiving
  <2> QED BY <1>7, <2>1, <2>2
<1>12. y.masterhost = h /\ y.master = 0 /\ y.repl_transfer_s = fd
  <2>1. y.masterhost = rep.masterhost /\ y.master = rep.master /\ y.repl_transfer_s = rep.repl_transfer_s
    BY PieceFields
  <2> QED BY <1>4, <2>1 DEF Receiving
<1> HIDE DEF y
<1>13. Receiving(y, fd, hung, n + 1)
  BY <1>9, <1>10, <1>11, <1>12 DEF Receiving
<1> QED BY <1>4, <1>11, <1>13 DEF y

-----------------------------------------------------------------------------
(* The end of the transfer.                                                *)

(* createClient changes the socket, and the state of the link. *)
Linking(x) ==
  [x EXCEPT !.socks[x.repl_transfer_s] = Handled(@, IF @.handler = "sync" THEN "sync" ELSE "client"),
            !.master = x.repl_transfer_s, !.repl_state = "connected", !.tmpfile = <<>>]

(* That is what Linked does, or the server ends. *)
LEMMA LinkedIs ==
  ASSUME NEW x
  PROVE  /\ Linked(x) = Linking(x) \/ Linked(x) = Dead(x, "exit")
         /\ x.repl_transfer_s # 0 /\ x.socks[x.repl_transfer_s].open => Linked(x) = Linking(x)
<1>1. Linking(x) = [x EXCEPT !.socks[x.repl_transfer_s].handler = IF @ = "sync" THEN @ ELSE "client",
                             !.master = x.repl_transfer_s, !.repl_state = "connected", !.tmpfile = <<>>]
  BY DEF Linking, Handled
<1> QED BY <1>1 DEF Linked

(* Linked keeps the fields. *)
LEMMA LinkedKeeps ==
  ASSUME NEW x, Server(x)
  PROVE  Keeps(x, Linked(x))
<1> DEFINE k == [x.socks EXCEPT ![x.repl_transfer_s] = Handled(@, IF @.handler = "sync" THEN "sync" ELSE "client")]
           m == x.repl_transfer_s
<1>1. Linking(x) = [x EXCEPT !.socks = k, !.master = m, !.repl_state = "connected", !.tmpfile = <<>>]
  BY DEF Linking
<1> HIDE DEF k, m
<1>2. Keeps(x, Linking(x))
  BY <1>1 DEF Keeps, Server
<1>3. Keeps(x, Dead(x, "exit"))
  BY DEF Dead, Keeps, Server
<1> QED BY <1>2, <1>3, LinkedIs

(* Restarting the append-only file ends the server, or changes nothing     *)
(* that Good is about.                                                     *)
LEMMA RestartSafe ==
  ASSUME NEW x, Server(x), NEW y \in RestartAof(x)
  PROVE  Safe(x, y)
<1> DEFINE n == x.faults + 1
           z == [x EXCEPT !.faults = n]
<1>1. y = x \/ y = Dead(z, "exit") \/ y = [z EXCEPT !.aof = FALSE]
  BY DEF RestartAof
<1> HIDE DEF n
<1>2. Server(z) /\ z.hasty = x.hasty /\ z.stale = x.stale
  BY DEF Server
<1>3. Safe(x, x)
  BY DEF Safe, Keeps
<1>4. Keeps(x, Dead(z, "exit")) /\ Dead(z, "exit").at = "exit" /\ Dead(z, "exit").stale = x.stale
  <2> HIDE DEF z
  <2> QED BY <1>2 DEF Dead, Keeps, Server
<1>5. Safe(x, Dead(z, "exit"))
  <2> HIDE DEF z
  <2> QED BY <1>4 DEF Safe, Fine, Good
<1>6. Keeps(x, [z EXCEPT !.aof = FALSE]) /\ Alike(x, [z EXCEPT !.aof = FALSE])
  <2>1. Alike(x, z)
    BY DEF Server, Alike
  <2> HIDE DEF z
  <2>2. ASSUME NEW f PROVE Keeps(x, [z EXCEPT !.aof = f]) /\ Alike(x, [z EXCEPT !.aof = f])
    BY <1>2, <2>1 DEF Keeps, Alike, Server
  <2> QED BY <2>2
<1>7. Safe(x, [z EXCEPT !.aof = FALSE])
  <2> HIDE DEF z
  <2> QED BY <1>6, AlikeGood DEF Safe
<1> QED BY <1>1, <1>3, <1>5, <1>7

(* The server with its data replaced. *)
Bulk(x) == x.repl_transfer_s # 0 /\ x.socks[x.repl_transfer_s].handler = "bulk"
Unhandled(x) == [x.socks EXCEPT ![x.repl_transfer_s] = Handled(@, "none")]
Table(x) == IF Bulk(x) THEN Unhandled(x) ELSE x.socks
Emptied(x) == [x EXCEPT !.data = Own, !.stale = x.slave, !.socks = Table(x)]
Loaded(x) == [Emptied(x) EXCEPT !.data = [base |-> x.tmpfile[1][1], stream |-> {}]]

(* The end of the transfer by these names. *)
LEMMA TransferEndsIs ==
  ASSUME NEW x, Server(x)
  PROVE  TransferEnds(x) =
           IF Valid(x.tmpfile) THEN RestartAof(Linked(Loaded(x)))
           ELSE {replicationAbortSyncTransfer(Emptied(x)), Dead(Emptied(x), "exit")}
<1> DEFINE s == x.repl_transfer_s
           bulk == s # 0 /\ x.socks[s].handler = "bulk"
           k == IF bulk THEN [x.socks EXCEPT ![s].handler = "none"] ELSE x.socks
           e == [x EXCEPT !.data = Own, !.stale = x.slave, !.socks = k]
           b == x.tmpfile[1][1]
<1>1. e = Emptied(x)
  <2>1. k = Table(x)
    BY DEF Table, Unhandled, Bulk, Handled
  <2> QED BY <2>1 DEF Emptied
<1>2. TransferEnds(x) = IF Valid(x.tmpfile) THEN RestartAof(Linked([e EXCEPT !.data.base = b]))
                        ELSE {replicationAbortSyncTransfer(e), Dead(e, "exit")}
  BY DEF TransferEnds
<1>3. e.data = Own
  BY DEF Server
<1> HIDE DEF e, b
<1>4. [Own EXCEPT !.base = b] = [base |-> b, stream |-> {}]
  BY DEF Own
<1>5. [e EXCEPT !.data.base = b] = [e EXCEPT !.data = [base |-> b, stream |-> {}]]
  BY <1>3, <1>4
<1>6. [e EXCEPT !.data.base = b] = Loaded(x)
  BY <1>1, <1>5 DEF Loaded, b
<1> QED BY <1>1, <1>2, <1>6

(* What is replaced then. *)
LEMMA EmptiedFields ==
  ASSUME NEW x, Server(x)
  PROVE  /\ Keeps(x, Emptied(x)) /\ Keeps(x, Loaded(x))
         /\ Emptied(x).stale = x.slave /\ Loaded(x).stale = x.slave
         /\ Loaded(x).data = [base |-> x.tmpfile[1][1], stream |-> {}]
         /\ Loaded(x).masterhost = x.masterhost /\ Loaded(x).at = x.at
         /\ Loaded(x).repl_transfer_s = x.repl_transfer_s
         /\ Bulk(x) => Loaded(x).socks = Unhandled(x)
<1> DEFINE k == Table(x)
           d == [base |-> x.tmpfile[1][1], stream |-> {}]
           e == Emptied(x)
<1>1. e = [x EXCEPT !.data = Own, !.stale = x.slave, !.socks = k]
  BY DEF Emptied
<1>2. Loaded(x) = [e EXCEPT !.data = d]
  BY DEF Loaded
<1>3. Bulk(x) => k = Unhandled(x)
  BY DEF Table
<1> HIDE DEF k, d, e
<1>4. /\ Keeps(x, e) /\ e.stale = x.slave /\ e.masterhost = x.masterhost /\ e.at = x.at
      /\ e.repl_transfer_s = x.repl_transfer_s /\ e.socks = k
  BY <1>1 DEF Keeps, Server
<1>5. Server(e) /\ e.hasty = x.hasty
  BY <1>4 DEF Keeps
<1>6. /\ Keeps(x, Loaded(x)) /\ Loaded(x).stale = e.stale /\ Loaded(x).masterhost = e.masterhost
      /\ Loaded(x).at = e.at /\ Loaded(x).repl_transfer_s = e.repl_transfer_s /\ Loaded(x).socks = e.socks
      /\ Loaded(x).data = d
  BY <1>2, <1>5 DEF Keeps, Server
<1> QED BY <1>3, <1>4, <1>6 DEF d, e

(* Whatever the end of the transfer, the server has its fields. *)
LEMMA TransferEndsKeeps ==
  ASSUME NEW x, Server(x), NEW y \in TransferEnds(x)
  PROVE  Keeps(x, y)
<1>1. Keeps(x, Emptied(x)) /\ Keeps(x, Loaded(x))
  BY EmptiedFields
<1>2. CASE Valid(x.tmpfile)
  <2>1. y \in RestartAof(Linked(Loaded(x)))
    BY <1>2, TransferEndsIs
  <2>2. Keeps(Loaded(x), Linked(Loaded(x)))
    BY <1>1, LinkedKeeps DEF Keeps
  <2>3. Safe(Linked(Loaded(x)), y)
    BY <2>1, <2>2, RestartSafe DEF Keeps
  <2> QED BY <1>1, <2>2, <2>3 DEF Safe, Keeps
<1>3. CASE ~Valid(x.tmpfile)
  <2> DEFINE e == Emptied(x)
  <2>1. y = replicationAbortSyncTransfer(e) \/ y = Dead(e, "exit")
    BY <1>3, TransferEndsIs
  <2> HIDE DEF e
  <2>2. Server(e) /\ e.hasty = x.hasty
    BY <1>1 DEF Keeps, e
  <2>3. Keeps(e, replicationAbortSyncTransfer(e))
    BY <2>2, AbortFields
  <2>4. Keeps(e, Dead(e, "exit"))
    BY <2>2 DEF Dead, Keeps, Server
  <2> QED BY <2>1, <2>2, <2>3, <2>4 DEF Keeps
<1> QED BY <1>2, <1>3

(* When all pieces have come from the master, they are loaded and the      *)
(* socket becomes the link to it.                                          *)
LEMMA TransferEndsGood ==
  ASSUME NEW x, SlaveAssumption, Server(x), NEW fd \in Fds, NEW hung \in BOOLEAN, NEW n, n = Chunks,
         Receiving(x, fd, hung, n), x.masterhost \in Hosts, x.at = "up", x.slave = FALSE,
         NEW y \in TransferEnds(x)
  PROVE  Good(y) \/ Fine(y)
<1> DEFINE h == x.masterhost
           c == Sock(h, "bulk", n + 1, hung)
           z == Loaded(x)
           l == Linked(z)
<1>1. x.tmpfile = Pieces(h, Chunks) /\ x.socks = Only(fd, c) /\ x.repl_transfer_s = fd
  BY DEF Receiving
<1>2. Valid(x.tmpfile)
  BY <1>1 DEF Valid, Pieces
<1>3. x.tmpfile[1][1] = h
  BY <1>1 DEF Pieces, SlaveAssumption
<1> HIDE DEF z, l, c
<1>4. fd # 0
  BY FdsArePositive
<1>5. x.socks[fd] = c
  BY <1>1, OneSocket
<1>6. c.handler = "bulk" /\ Handled(c, "none") = Sock(h, "none", n + 1, hung)
  <2> DEFINE m == n + 1
  <2>1. c = Socket(Yes, h, "bulk", m, hung)
    BY DEF Sock, c
  <2> HIDE DEF m
  <2>2. c.handler = "bulk" /\ Handled(c, "none") = Socket(Yes, h, "none", m, hung)
    BY <2>1, SocketFields, SocketParts
  <2> QED BY <2>2 DEF Sock, m
<1>7. Bulk(x)
  BY <1>1, <1>4, <1>5, <1>6 DEF Bulk
<1>8. z.socks = Only(fd, Sock(h, "none", n + 1, hung))
  <2>1. z.socks = Unhandled(x)
    BY <1>7, EmptiedFields DEF z
  <2>2. z.socks = [x.socks EXCEPT ![fd] = Handled(c, "none")]
    BY <1>1, <1>5, <2>1 DEF Unhandled
  <2> QED BY <1>1, <1>6, <2>2, OneSocket
<1>9. /\ Server(z) /\ z.stale = FALSE /\ z.data = [base |-> h, stream |-> {}]
      /\ z.masterhost = h /\ z.at = "up" /\ z.repl_transfer_s = fd
  <2>1. Keeps(x, z)
    BY EmptiedFields DEF z
  <2>2. z.data = [base |-> x.tmpfile[1][1], stream |-> {}]
    BY EmptiedFields DEF z
  <2>3. z.stale = x.slave /\ z.masterhost = h /\ z.at = x.at /\ z.repl_transfer_s = x.repl_transfer_s
    BY EmptiedFields DEF z
  <2> QED BY <1>1, <1>3, <2>1, <2>2, <2>3 DEF Keeps
<1> DEFINE e == Sock(h, "none", n + 1, hung)
<1>10. z.socks[fd] = e
  BY <1>8, OneSocket
<1>11. e.open /\ e.handler = "none" /\ Handled(e, "client") = Sock(h, "client", n + 1, hung)
  <2> DEFINE m == n + 1
  <2>1. e = Socket(Yes, h, "none", m, hung)
    BY DEF Sock
  <2> HIDE DEF m, e
  <2>2. e.open = Yes /\ e.handler = "none" /\ Handled(e, "client") = Socket(Yes, h, "client", m, hung)
    BY <2>1, SocketFields, SocketParts
  <2> QED BY <2>2 DEF Sock, m, Yes
<1> HIDE DEF e
<1>12. l = Linking(z)
  BY <1>4, <1>9, <1>10, <1>11, LinkedIs DEF l
<1>13. /\ l.socks = [z.socks EXCEPT ![fd] = Handled(e, "client")] /\ l.master = fd
       /\ l.repl_state = "connected" /\ l.data = z.data /\ l.masterhost = z.masterhost /\ l.at = z.at
       /\ l.stale = z.stale
  <2> DEFINE k == [z.socks EXCEPT ![fd] = Handled(e, "client")]
  <2>1. k = [z.socks EXCEPT ![z.repl_transfer_s] = Handled(@, IF @.handler = "sync" THEN "sync" ELSE "client")]
    BY <1>9, <1>10, <1>11
  <2> HIDE DEF k
  <2>2. l = [z EXCEPT !.socks = k, !.master = z.repl_transfer_s, !.repl_state = "connected", !.tmpfile = <<>>]
    BY <1>12, <2>1 DEF Linking
  <2>3. /\ l.socks = k /\ l.master = fd
        /\ l.repl_state = "connected" /\ l.data = z.data /\ l.masterhost = z.masterhost /\ l.at = z.at
        /\ l.stale = z.stale
    BY <1>9, <2>2 DEF Server
  <2> QED BY <2>3 DEF k
<1>14. l.socks = Only(fd, Sock(h, "client", Chunks + 1, hung))
  BY <1>8, <1>11, <1>13, OneSocket
<1>15. Following(l, fd, hung)
  <2>1. {} \in SUBSET {h}
    OBVIOUS
  <2> QED BY <1>9, <1>13, <1>14, <2>1 DEF Following
<1>16. Good(l)
  BY <1>9, <1>13, <1>15 DEF Good, Link
<1>17. Server(l)
  BY <1>9, LinkedKeeps DEF Keeps, l
<1>18. y \in RestartAof(l)
  BY <1>2, TransferEndsIs DEF l, z
<1> QED BY <1>16, <1>17, <1>18, RestartSafe DEF Safe

(* readSyncBulkPayload. *)
LEMMA BulkSafe ==
  ASSUME SlaveAssumption, Server(rep), readSyncBulkPayload
  PROVE  Safe(rep, rep')
<1>1. PICK fd \in Fds :
        /\ Fires(fd, "bulk")
        /\ \/ rep.repl_transfer_left = -1 /\ rep' = Header(rep, fd)
           \/ /\ rep.repl_transfer_left > 0
              /\ IF Piece(rep, fd).repl_transfer_left = 0 THEN rep' \in TransferEnds(Piece(rep, fd))
                 ELSE rep' = Piece(rep, fd)
           \/ rep' = replicationAbortSyncTransfer(Faulty)
  BY DEF readSyncBulkPayload
<1>2. rep.socks[fd].open /\ rep.socks[fd].handler = "bulk"
  BY <1>1 DEF Fires
<1>3. CASE rep.repl_transfer_left = -1 /\ rep' = Header(rep, fd)
  BY <1>2, <1>3, HeaderSafe
<1>4. ASSUME rep.repl_transfer_left > 0,
             IF Piece(rep, fd).repl_transfer_left = 0 THEN rep' \in TransferEnds(Piece(rep, fd))
             ELSE rep' = Piece(rep, fd)
      PROVE  Safe(rep, rep')
  <2> DEFINE x == Piece(rep, fd)
  <2>1. Keeps(rep, x)
    BY PieceFields
  <2>2. Keeps(rep, rep')
    <3> HIDE DEF x
    <3>1. CASE x.repl_transfer_left = 0
      <4>1. rep' \in TransferEnds(x)
        BY <1>4, <3>1 DEF x
      <4> QED BY <2>1, <4>1, TransferEndsKeeps DEF Keeps
    <3>2. CASE x.repl_transfer_left # 0
      BY <1>4, <2>1, <3>2 DEF x
    <3> QED BY <3>1, <3>2
  <2>3. ASSUME Good(rep) PROVE Good(rep') \/ Fine(rep')
    <3>1. PICK hung \in BOOLEAN, n \in 0 .. Chunks - 1 :
            /\ Receiving(rep, fd, hung, n) /\ Receiving(x, fd, hung, n + 1)
            /\ x.repl_transfer_left = Chunks - (n + 1)
      BY <1>2, <1>4, <2>3, PieceReceived
    <3>2. rep.repl_state = "transfer"
      BY <1>2, <2>3, FiringHandler
    <3>3. rep.masterhost \in Hosts /\ rep.at = "up" /\ rep.stale = FALSE /\ rep.slave = FALSE
      BY <2>3, <3>2, GoodStates
    <3>4. /\ x.masterhost = rep.masterhost /\ x.at = rep.at /\ x.stale = rep.stale /\ x.slave = rep.slave
          /\ x.repl_state = rep.repl_state
      BY PieceFields
    <3> DEFINE m == n + 1
    <3>5. m \in Nat /\ m <= Chunks /\ (x.repl_transfer_left = 0 <=> m = Chunks)
      BY <3>1 DEF SlaveAssumption
    <3> HIDE DEF x, m
    <3>6. Receiving(x, fd, hung, m)
      BY <3>1 DEF m
    <3>7. CASE m = Chunks
      <4>1. rep' \in TransferEnds(x)
        BY <1>4, <3>5, <3>7 DEF x
      <4>2. Server(x)
        BY <2>1 DEF Keeps
      <4>3. x.masterhost \in Hosts /\ x.at = "up" /\ x.slave = FALSE
        BY <3>3, <3>4
      <4> QED BY <3>6, <3>7, <4>1, <4>2, <4>3, TransferEndsGood
    <3>8. CASE m # Chunks
      <4>1. rep' = x
        BY <1>4, <3>5, <3>8 DEF x
      <4>2. m \in 0 .. Chunks - 1
        BY <3>5, <3>8 DEF SlaveAssumption
      <4> QED BY <3>2, <3>3, <3>4, <3>6, <4>1, <4>2 DEF Good, Link
    <3> QED BY <3>7, <3>8
  <2> QED BY <2>2, <2>3 DEF Safe
<1>5. CASE rep' = replicationAbortSyncTransfer(Faulty)
  <2> DEFINE f == Faulty
  <2>1. Keeps(rep, f) /\ Alike(rep, f) /\ Server(f) /\ (Good(rep) => Good(f))
    BY FaultyFields
  <2>2. Good(rep) => rep.repl_state = "transfer"
    BY <1>2, FiringHandler
  <2> HIDE DEF f
  <2>3. Keeps(f, rep') /\ (Good(rep) => Good(rep'))
    BY <1>5, <2>1, <2>2, AbortFields, AbortGood DEF f, Alike
  <2> QED BY <2>1, <2>3 DEF Safe, Keeps
<1> QED BY <1>1, <1>3, <1>4, <1>5

-----------------------------------------------------------------------------
(* The other actions.                                                      *)

(* A command of the master, or the end of the link. *)
LEMMA QuerySafe ==
  ASSUME SlaveAssumption, Server(rep), readQueryFromMaster
  PROVE  Safe(rep, rep')
<1>1. PICK fd \in Fds :
        /\ Fires(fd, "client")
        /\ \/ rep' = [rep EXCEPT !.data.stream = @ \cup {rep.socks[fd].host}]
           \/ rep' = FreeMaster(Faulty)
  BY DEF readQueryFromMaster
<1>2. rep.socks[fd].open /\ rep.socks[fd].handler = "client"
  BY <1>1 DEF Fires
<1>3. Good(rep) => rep.repl_state = "connected"
  BY <1>2, FiringHandler
<1>4. CASE rep' = [rep EXCEPT !.data.stream = @ \cup {rep.socks[fd].host}]
  <2> DEFINE d == [rep.data EXCEPT !.stream = @ \cup {rep.socks[fd].host}]
  <2>1. rep' = [rep EXCEPT !.data = d]
    BY <1>4
  <2> HIDE DEF d
  <2>2. Keeps(rep, rep')
    BY <2>1 DEF Keeps, Server
  <2>3. /\ rep'.data = d /\ rep'.masterhost = rep.masterhost /\ rep'.repl_state = rep.repl_state
        /\ rep'.socks = rep.socks /\ rep'.master = rep.master /\ rep'.at = rep.at /\ rep'.stale = rep.stale
    BY <2>1 DEF Server
  <2>4. ASSUME Good(rep) PROVE Good(rep')
    <3>1. PICK hung \in BOOLEAN : Following(rep, fd, hung)
      BY <1>2, <1>3, <2>4, FiringSocket
    <3> DEFINE h == rep.masterhost
               p == Chunks + 1
    <3>2. rep.socks[fd].host = h
      <4>1. rep.socks[fd] = Sock(h, "client", p, hung)
        BY <3>1, OneSocket DEF Following
      <4> HIDE DEF p
      <4> QED BY <4>1, SocketParts DEF Sock
    <3>3. PICK st \in SUBSET {h} : rep.data = [base |-> h, stream |-> st]
      BY <3>1 DEF Following
    <3>4. d = [base |-> h, stream |-> st \cup {h}] /\ st \cup {h} \in SUBSET {h}
      BY <3>2, <3>3 DEF d
    <3>5. Following(rep', fd, hung)
      BY <2>3, <3>1, <3>4 DEF Following
    <3> QED BY <1>3, <2>3, <2>4, <3>5, GoodStates DEF Good, Link
  <2> QED BY <2>2, <2>4 DEF Safe
<1>5. CASE rep' = FreeMaster(Faulty)
  <2> DEFINE f == Faulty
  <2>1. Keeps(rep, f) /\ Alike(rep, f) /\ Server(f) /\ (Good(rep) => Good(f))
    BY FaultyFields
  <2> HIDE DEF f
  <2>2. Keeps(f, rep') /\ (Good(rep) => Good(rep'))
    BY <1>3, <1>5, <2>1, FreeMasterFields, FreeMasterGood DEF f, Alike
  <2> QED BY <2>1, <2>2 DEF Safe, Keeps
<1> QED BY <1>1, <1>4, <1>5

(* The other side falls silent. *)
LEMMA HangSafe ==
  ASSUME SlaveAssumption, Server(rep), Hang
  PROVE  Safe(rep, rep')
<1>1. PICK fd \in Fds : rep.socks[fd].open /\ rep' = [Faulty EXCEPT !.socks[fd].hung = TRUE]
  BY DEF Hang
<1> DEFINE f == Faulty
           c == Hanging(f.socks[fd], Yes)
           k == [f.socks EXCEPT ![fd] = c]
<1>2. rep' = [f EXCEPT !.socks = k]
  BY <1>1 DEF Hanging, Yes
<1>3. Keeps(rep, f) /\ Alike(rep, f) /\ Server(f) /\ (Good(rep) => Good(f))
  BY FaultyFields
<1> HIDE DEF f, c, k
<1>4. Keeps(f, rep')
  BY <1>2, <1>3 DEF Keeps, Server
<1>5. /\ rep'.masterhost = f.masterhost /\ rep'.repl_state = f.repl_state
      /\ rep'.repl_transfer_s = f.repl_transfer_s /\ rep'.repl_transfer_left = f.repl_transfer_left
      /\ rep'.tmpfile = f.tmpfile /\ rep'.master = f.master /\ rep'.socks = k /\ rep'.data = f.data
      /\ rep'.at = f.at /\ rep'.slave = f.slave /\ rep'.stale = f.stale
  BY <1>2, <1>3 DEF Server
<1>6. ASSUME NEW h, NEW handler, NEW p, NEW hung, rep.socks = Only(fd, Sock(h, handler, p, hung))
      PROVE  k = Only(fd, Sock(h, handler, p, Yes))
  <2>1. f.socks = Only(fd, Sock(h, handler, p, hung))
    BY <1>3, <1>6 DEF Alike
  <2>2. f.socks[fd] = Sock(h, handler, p, hung)
    BY <2>1, OneSocket
  <2>3. c = Sock(h, handler, p, Yes)
    BY <2>2, SocketFields DEF Sock, c
  <2> QED BY <2>1, <2>3, OneSocket DEF k
<1>7. Yes \in BOOLEAN
  BY DEF Yes
<1>8. ASSUME Good(rep) PROVE Good(rep')
  <2>1. /\ rep.repl_state \in {"connecting", "transfer", "connected"} /\ rep.masterhost \in Hosts
        /\ rep.at = "up" /\ rep.stale = FALSE
        /\ rep.repl_state # "connected" => rep.slave = FALSE
    BY <1>1, <1>8, FiringSocket, GoodStates
  <2>2. CASE rep.repl_state = "connecting"
    <3>1. PICK hung \in BOOLEAN : Connecting(rep, fd, hung)
      BY <1>1, <1>8, <2>2, FiringSocket
    <3>2. k = Only(fd, Sock(rep.masterhost, "sync", 0, Yes))
      BY <3>1, <1>6 DEF Connecting
    <3>3. Connecting(rep', fd, Yes)
      BY <1>3, <1>5, <3>1, <3>2 DEF Connecting, Alike
    <3> QED BY <1>3, <1>5, <1>7, <2>1, <2>2, <3>3 DEF Good, Link, Alike
  <2>3. CASE rep.repl_state = "transfer"
    <3>1. PICK hung \in BOOLEAN :
            Asked(rep, fd, hung) \/ (\E n \in 0 .. Chunks - 1 : Receiving(rep, fd, hung, n))
      BY <1>1, <1>8, <2>3, FiringSocket
    <3>2. CASE Asked(rep, fd, hung)
      <4>1. k = Only(fd, Sock(rep.masterhost, "bulk", 0, Yes))
        BY <3>2, <1>6 DEF Asked
      <4>2. Asked(rep', fd, Yes)
        BY <1>3, <1>5, <3>2, <4>1 DEF Asked, Alike
      <4> QED BY <1>3, <1>5, <1>7, <2>1, <2>3, <4>2 DEF Good, Link, Alike
    <3>3. ASSUME NEW n \in 0 .. Chunks - 1, Receiving(rep, fd, hung, n) PROVE Good(rep')
      <4>1. k = Only(fd, Sock(rep.masterhost, "bulk", n + 1, Yes))
        BY <3>3, <1>6 DEF Receiving
      <4>2. Receiving(rep', fd, Yes, n)
        BY <1>3, <1>5, <3>3, <4>1 DEF Receiving, Alike
      <4> QED BY <1>3, <1>5, <1>7, <2>1, <2>3, <3>3, <4>2 DEF Good, Link, Alike
    <3> QED BY <3>1, <3>2, <3>3
  <2>4. CASE rep.repl_state = "connected"
    <3>1. PICK hung \in BOOLEAN : Following(rep, fd, hung)
      BY <1>1, <1>8, <2>4, FiringSocket
    <3>2. k = Only(fd, Sock(rep.masterhost, "client", Chunks + 1, Yes))
      BY <3>1, <1>6 DEF Following
    <3>3. Following(rep', fd, Yes)
      BY <1>3, <1>5, <3>1, <3>2 DEF Following, Alike
    <3> QED BY <1>3, <1>5, <1>7, <2>1, <2>4, <3>3 DEF Good, Link, Alike
  <2> QED BY <2>1, <2>2, <2>3, <2>4
<1> QED BY <1>3, <1>4, <1>8 DEF Safe, Keeps

(* A slave of this slave comes, which it does only if there is no master   *)
(* or a link to it, or goes.                                               *)
LEMMA SubslaveSafe ==
  ASSUME SlaveAssumption, Server(rep), syncCommand \/ FreeSlave
  PROVE  Safe(rep, rep')
<1>1. CASE syncCommand
  <2>1. rep' = [rep EXCEPT !.slave = Yes]
    BY <1>1 DEF syncCommand, Yes
  <2>2. /\ Keeps(rep, rep')
        /\ rep'.masterhost = rep.masterhost /\ rep'.repl_state = rep.repl_state
        /\ rep'.repl_transfer_s = rep.repl_transfer_s /\ rep'.repl_transfer_left = rep.repl_transfer_left
        /\ rep'.tmpfile = rep.tmpfile /\ rep'.master = rep.master /\ rep'.socks = rep.socks
        /\ rep'.data = rep.data /\ rep'.at = rep.at /\ rep'.stale = rep.stale
    BY <2>1 DEF Keeps, Server
  <2>3. rep.masterhost # None => rep.repl_state = "connected"
    BY <1>1 DEF syncCommand
  <2>4. ASSUME Good(rep) PROVE Good(rep')
    <3>1. rep.repl_state \in {"none", "connected"}
      BY <2>3, <2>4, GoodStates
    <3> QED BY <2>2, <2>4, <3>1 DEF Good, Link, Resting, Following
  <2> QED BY <2>2, <2>4 DEF Safe
<1>2. CASE FreeSlave
  <2>1. rep' = [rep EXCEPT !.slave = No, !.stale = No]
    BY <1>2 DEF FreeSlave, disconnectSlaves, No
  <2>2. /\ Keeps(rep, rep')
        /\ rep'.masterhost = rep.masterhost /\ rep'.repl_state = rep.repl_state
        /\ rep'.repl_transfer_s = rep.repl_transfer_s /\ rep'.repl_transfer_left = rep.repl_transfer_left
        /\ rep'.tmpfile = rep.tmpfile /\ rep'.master = rep.master /\ rep'.socks = rep.socks
        /\ rep'.data = rep.data /\ rep'.at = rep.at /\ rep'.stale = No /\ rep'.slave = No
    BY <2>1 DEF Keeps, Server
  <2>3. ASSUME Good(rep) PROVE Good(rep')
    BY <2>2, <2>3 DEF Good, Link, Resting, Connecting, Asked, Receiving, Following, No
  <2> QED BY <2>2, <2>3 DEF Safe
<1> QED BY <1>1, <1>2

-----------------------------------------------------------------------------
(* SLAVEOF and the restart.                                                *)

(* The server with another master. *)
Hosted(x, h) == [x EXCEPT !.masterhost = h]
Stated(x, state) == [x EXCEPT !.repl_state = state]
Hastened(x, hasty) == [x EXCEPT !.repl_state = "connect", !.hasty = hasty]

(* Nothing else is changed. *)
LEMMA HostedFields ==
  ASSUME NEW x, Server(x), NEW h
  PROVE  /\ Keeps(x, Hosted(x, h)) /\ Hosted(x, h).masterhost = h
         /\ Hosted(x, h).repl_state = x.repl_state /\ Hosted(x, h).repl_transfer_s = x.repl_transfer_s
         /\ Hosted(x, h).master = x.master /\ Hosted(x, h).socks = x.socks /\ Hosted(x, h).at = x.at
         /\ Hosted(x, h).slave = x.slave /\ Hosted(x, h).stale = x.stale
  BY DEF Hosted, Server, Keeps

(* Nor when the state of the link is. *)
LEMMA StatedFields ==
  ASSUME NEW x, Server(x), NEW state
  PROVE  /\ Keeps(x, Stated(x, state)) /\ Stated(x, state).repl_state = state
         /\ Stated(x, state).masterhost = x.masterhost
         /\ Stated(x, state).master = x.master /\ Stated(x, state).socks = x.socks
         /\ Stated(x, state).at = x.at /\ Stated(x, state).slave = x.slave /\ Stated(x, state).stale = x.stale
  BY DEF Stated, Server, Keeps

(* Nor when SLAVEOF has been hasty. *)
LEMMA HastenedFields ==
  ASSUME NEW x, Server(x), NEW u \in BOOLEAN
  PROVE  /\ Server(Hastened(x, u)) /\ Hastened(x, u).hasty = u
         /\ Hastened(x, u).repl_state = "connect" /\ Hastened(x, u).masterhost = x.masterhost
         /\ Hastened(x, u).master = x.master /\ Hastened(x, u).socks = x.socks
         /\ Hastened(x, u).at = x.at /\ Hastened(x, u).slave = x.slave /\ Hastened(x, u).stale = x.stale
<1> DEFINE y == [x EXCEPT !.hasty = u]
<1>1. y = [masterhost |-> x.masterhost, repl_state |-> x.repl_state, repl_transfer_s |-> x.repl_transfer_s,
           repl_transfer_left |-> x.repl_transfer_left, tmpfile |-> x.tmpfile, master |-> x.master,
           socks |-> x.socks, data |-> x.data, at |-> x.at, aof |-> x.aof, slave |-> x.slave,
           stale |-> x.stale, hasty |-> u, slaveofs |-> x.slaveofs, faults |-> x.faults]
  BY DEF Server
<1>2. y.hasty = u
  BY <1>1
<1>3. Server(y)
  BY <1>1, <1>2 DEF Server
<1>4. y.masterhost = x.masterhost /\ y.master = x.master /\ y.socks = x.socks /\ y.at = x.at
      /\ y.slave = x.slave /\ y.stale = x.stale
  BY <1>1
<1>5. Hastened(x, u) = Stated(y, "connect")
  BY DEF Hastened, Stated, Server
<1> HIDE DEF y
<1> QED BY <1>2, <1>3, <1>4, <1>5, StatedFields DEF Keeps

(* Nor when the slaves of this slave are disconnected. *)
LEMMA DisconnectedFields ==
  ASSUME NEW x, Server(x)
  PROVE  /\ Keeps(x, disconnectSlaves(x)) /\ disconnectSlaves(x).repl_state = x.repl_state
         /\ disconnectSlaves(x).masterhost = x.masterhost
         /\ disconnectSlaves(x).repl_transfer_s = x.repl_transfer_s
         /\ disconnectSlaves(x).master = x.master /\ disconnectSlaves(x).socks = x.socks
         /\ disconnectSlaves(x).at = x.at
         /\ disconnectSlaves(x).slave = FALSE /\ disconnectSlaves(x).stale = FALSE
<1>1. disconnectSlaves(x) = [x EXCEPT !.slave = No, !.stale = No]
  BY DEF disconnectSlaves, No
<1>2. /\ Keeps(x, disconnectSlaves(x)) /\ disconnectSlaves(x).repl_state = x.repl_state
      /\ disconnectSlaves(x).masterhost = x.masterhost
      /\ disconnectSlaves(x).repl_transfer_s = x.repl_transfer_s
      /\ disconnectSlaves(x).master = x.master /\ disconnectSlaves(x).socks = x.socks
      /\ disconnectSlaves(x).at = x.at
      /\ disconnectSlaves(x).slave = No /\ disconnectSlaves(x).stale = No
  BY <1>1 DEF Keeps, Server
<1> QED BY <1>2 DEF No

(* The one socket is that of a transfer, or of a connect. *)
Transferring(x) ==
  \E s \in Fds, h \in Hosts, pos \in Nat, hung \in BOOLEAN :
    x.repl_transfer_s = s /\ x.socks = Only(s, Sock(h, "bulk", pos, hung))
Dialling(x) ==
  \E s \in Fds, h \in Hosts, hung \in BOOLEAN :
    x.repl_transfer_s = s /\ x.socks = Only(s, Sock(h, "sync", 0, hung))

(* It is left only when the link is freed or the attempt given up. *)
Unlinked(x) ==
  /\ x.at = "up" /\ x.stale = FALSE /\ x.master = 0
  /\ x.repl_state \in {"none", "connect", "connecting", "transfer"}
  /\ x.repl_state \in {"none", "connect"} => x.socks = NoSocks
  /\ x.repl_state = "transfer" => Transferring(x)
  /\ x.repl_state = "connecting" => Dialling(x)

(* The link is freed with another master's name already set. *)
LEMMA FreedUnlinked ==
  ASSUME NEW x, SlaveAssumption, Server(x), Good(x), NEW h
  PROVE  /\ Unlinked(FreeMaster(Hosted(x, h)))
         /\ FreeMaster(Hosted(x, h)).repl_state = "connecting" => x.repl_state = "connecting"
<1> DEFINE w == Hosted(x, h)
           y == FreeMaster(w)
<1>1. /\ Server(w) /\ w.repl_state = x.repl_state /\ w.repl_transfer_s = x.repl_transfer_s
      /\ w.master = x.master /\ w.socks = x.socks /\ w.at = "up" /\ w.stale = FALSE
  <2>1. x.at = "up" /\ x.stale = FALSE
    BY GoodStates
  <2>2. /\ Keeps(x, w) /\ w.repl_state = x.repl_state /\ w.repl_transfer_s = x.repl_transfer_s
        /\ w.master = x.master /\ w.socks = x.socks /\ w.at = x.at /\ w.stale = x.stale
    BY HostedFields
  <2> HIDE DEF w
  <2> QED BY <2>1, <2>2 DEF Keeps
<1> HIDE DEF w
<1>2. CASE x.repl_state = "connected"
  <2>1. PICK s \in Fds, hung \in BOOLEAN : Following(x, s, hung)
    BY <1>2, GoodStates
  <2>2. [w.socks EXCEPT ![w.master] = Free] = NoSocks /\ w.master # 0
    BY <1>1, <2>1, OneSocket, FdsArePositive DEF Following
  <2>3. y.socks = NoSocks /\ y.master = 0 /\ y.repl_state = "connect" /\ y.at = "up" /\ y.stale = FALSE
    BY <1>1, <2>2, FreeMasterFields
  <2> HIDE DEF y
  <2>4. Unlinked(y)
    BY <2>3 DEF Unlinked
  <2> QED BY <2>3, <2>4 DEF y, w
<1>3. CASE x.repl_state # "connected"
  <2>1. x.master = 0 /\ x.repl_state \in {"none", "connect", "connecting", "transfer"}
    BY <1>3, GoodStates
  <2>2. y = w
    BY <1>1, <2>1, FreeMasterFields
  <2>3. x.repl_state \in {"none", "connect"} => w.socks = NoSocks
    BY <1>1, GoodStates
  <2>4. ASSUME x.repl_state = "transfer" PROVE Transferring(w)
    <3>1. PICK s \in Fds, pos \in Nat, hung \in BOOLEAN :
            x.repl_transfer_s = s /\ x.socks = Only(s, Sock(x.masterhost, "bulk", pos, hung))
      BY <2>4, TransferSocket
    <3>2. x.masterhost \in Hosts
      BY <2>4, GoodStates
    <3> QED BY <1>1, <3>1, <3>2 DEF Transferring
  <2>5. ASSUME x.repl_state = "connecting" PROVE Dialling(w)
    <3>1. PICK s \in Fds, hung \in BOOLEAN : Connecting(x, s, hung)
      BY <2>5, GoodStates
    <3>2. x.masterhost \in Hosts
      BY <2>5, GoodStates
    <3> QED BY <1>1, <3>1, <3>2 DEF Dialling, Connecting
  <2>6. Unlinked(w)
    BY <1>1, <2>1, <2>3, <2>4, <2>5 DEF Unlinked
  <2> QED BY <1>1, <2>2, <2>6 DEF w
<1> QED BY <1>2, <1>3

(* The transfer is given up. *)
LEMMA TransferGivenUp ==
  ASSUME NEW x, Server(x), Unlinked(x), x.repl_state = "transfer"
  PROVE  replicationAbortSyncTransfer(x).socks = NoSocks
<1>1. PICK s \in Fds, h \in Hosts, pos \in Nat, hung \in BOOLEAN :
        x.repl_transfer_s = s /\ x.socks = Only(s, Sock(h, "bulk", pos, hung))
  BY DEF Unlinked, Transferring
<1>2. ClosedOnly(x, x.repl_transfer_s).socks = NoSocks
  BY <1>1, ClosedBulk
<1> QED BY <1>2, AbortFields

(* The connect is. *)
LEMMA ConnectGivenUp ==
  ASSUME NEW x, Server(x), Unlinked(x), x.repl_state = "connecting"
  PROVE  undoConnectWithMaster(x).socks = NoSocks
<1>1. PICK s \in Fds, h \in Hosts, hung \in BOOLEAN :
        x.repl_transfer_s = s /\ x.socks = Only(s, Sock(h, "sync", 0, hung))
  BY DEF Unlinked, Dialling
<1>2. [x.socks EXCEPT ![x.repl_transfer_s] = Free] = NoSocks
  BY <1>1, OneSocket
<1> QED BY <1>2, UndoFields

(* SLAVEOF NO ONE. *)
LEMMA NoOneSafe ==
  ASSUME NEW x, SlaveAssumption, Server(x)
  PROVE  Safe(x, SlaveofNoOne(x))
<1>1. CASE x.masterhost = None
  BY <1>1 DEF SlaveofNoOne, Safe, Keeps
<1>2. CASE x.masterhost # None
  <2> DEFINE y == FreeMaster(Hosted(x, None))
             z == CASE y.repl_state = "transfer" -> replicationAbortSyncTransfer(y)
                    [] y.repl_state = "connecting" -> undoConnectWithMaster(y)
                    [] OTHER -> y
  <2>1. SlaveofNoOne(x) = Stated(z, "none")
    BY <1>2 DEF SlaveofNoOne, Stated, Hosted
  <2>2. Keeps(x, y) /\ y.masterhost = None
    <3> DEFINE w == Hosted(x, None)
    <3>1. Keeps(x, w) /\ w.masterhost = None
      BY HostedFields
    <3> HIDE DEF w
    <3>2. Keeps(w, FreeMaster(w)) /\ FreeMaster(w).masterhost = w.masterhost
      BY <3>1, FreeMasterFields DEF Keeps
    <3> QED BY <3>1, <3>2 DEF Keeps, w
  <2>3. Good(x) => Unlinked(y)
    BY FreedUnlinked
  <2> HIDE DEF y
  <2>4. \/ y.repl_state = "transfer" /\ z = replicationAbortSyncTransfer(y)
        \/ y.repl_state = "connecting" /\ z = undoConnectWithMaster(y)
        \/ y.repl_state \notin {"transfer", "connecting"} /\ z = y
    OBVIOUS
  <2> HIDE DEF z
  <2>5. Keeps(y, z)
    BY <2>2, <2>4, AbortFields, UndoFields DEF Keeps
  <2>6. ASSUME Good(x)
        PROVE  z.at = "up" /\ z.stale = FALSE /\ z.masterhost = None /\ z.socks = NoSocks /\ z.master = 0
    <3>1. Server(y) /\ Unlinked(y)
      BY <2>2, <2>3, <2>6 DEF Keeps
    <3>2. CASE y.repl_state = "transfer" /\ z = replicationAbortSyncTransfer(y)
      BY <2>2, <3>1, <3>2, TransferGivenUp, AbortFields DEF Unlinked
    <3>3. CASE y.repl_state = "connecting" /\ z = undoConnectWithMaster(y)
      BY <2>2, <3>1, <3>3, ConnectGivenUp, UndoFields DEF Unlinked
    <3>4. CASE y.repl_state \notin {"transfer", "connecting"} /\ z = y
      BY <2>2, <3>1, <3>4 DEF Unlinked
    <3> QED BY <2>4, <3>2, <3>3, <3>4
  <2>7. Keeps(x, SlaveofNoOne(x))
    BY <2>1, <2>2, <2>5, StatedFields DEF Keeps
  <2>8. ASSUME Good(x) PROVE Good(SlaveofNoOne(x))
    <3>1. Server(z)
      BY <2>5 DEF Keeps
    <3> DEFINE v == Stated(z, "none")
    <3>2. /\ v.repl_state = "none" /\ v.masterhost = z.masterhost /\ v.master = z.master
          /\ v.socks = z.socks /\ v.at = z.at /\ v.stale = z.stale
      BY <3>1, StatedFields
    <3> HIDE DEF v
    <3>3. Good(v)
      BY <2>6, <2>8, <3>2, AloneGood
    <3> QED BY <2>1, <3>3 DEF v
  <2> QED BY <2>7, <2>8 DEF Safe
<1> QED BY <1>1, <1>2

(* SLAVEOF of a host.  During a connect it is hasty. *)
LEMMA HostSafe ==
  ASSUME NEW x, SlaveAssumption, Server(x), NEW h \in Hosts
  PROVE  /\ Server(SlaveofHost(x, h))
         /\ x.hasty => SlaveofHost(x, h).hasty
         /\ Good(x) => Good(SlaveofHost(x, h)) \/ SlaveofHost(x, h).hasty
<1>1. CASE x.masterhost = h
  BY <1>1 DEF SlaveofHost
<1>2. CASE x.masterhost # h
  <2> DEFINE m == FreeMaster(Hosted(x, h))
             y == disconnectSlaves(m)
             z == IF y.repl_state = "transfer" THEN replicationAbortSyncTransfer(y) ELSE y
             u == z.hasty \/ x.repl_state = "connecting"
             r == Hastened(z, u)
  <2>1. SlaveofHost(x, h) = r
    BY <1>2 DEF SlaveofHost, Hastened, Hosted
  <2>2. Keeps(x, m) /\ m.masterhost = h
    <3> DEFINE w == Hosted(x, h)
    <3>1. Keeps(x, w) /\ w.masterhost = h
      BY HostedFields
    <3> HIDE DEF w
    <3>2. Keeps(w, FreeMaster(w)) /\ FreeMaster(w).masterhost = w.masterhost
      BY <3>1, FreeMasterFields DEF Keeps
    <3> QED BY <3>1, <3>2 DEF Keeps, w
  <2>3. Good(x) => Unlinked(m) /\ (m.repl_state = "connecting" => x.repl_state = "connecting")
    BY FreedUnlinked
  <2> HIDE DEF m
  <2>4. /\ Keeps(m, y) /\ y.repl_state = m.repl_state /\ y.masterhost = h
        /\ y.repl_transfer_s = m.repl_transfer_s /\ y.master = m.master /\ y.socks = m.socks
        /\ y.at = m.at /\ y.slave = FALSE /\ y.stale = FALSE
    BY <2>2, DisconnectedFields DEF Keeps
  <2> HIDE DEF y
  <2>5. \/ y.repl_state = "transfer" /\ z = replicationAbortSyncTransfer(y)
        \/ y.repl_state # "transfer" /\ z = y
    OBVIOUS
  <2> HIDE DEF z
  <2>6. Server(y)
    BY <2>4 DEF Keeps
  <2>7. Server(z) /\ z.hasty = x.hasty
    BY <2>2, <2>4, <2>5, <2>6, AbortFields DEF Keeps
  <2>8. u \in BOOLEAN /\ (x.hasty => u) /\ (x.repl_state = "connecting" => u)
    BY <2>7
  <2> HIDE DEF u
  <2>9. /\ Server(r) /\ r.hasty = u /\ r.repl_state = "connect" /\ r.masterhost = z.masterhost
        /\ r.master = z.master /\ r.socks = z.socks /\ r.at = z.at /\ r.slave = z.slave /\ r.stale = z.stale
    BY <2>7, <2>8, HastenedFields
  <2> HIDE DEF r
  <2>10. ASSUME Good(x), x.repl_state # "connecting" PROVE Good(r)
    <3>1. Unlinked(y) /\ y.repl_state # "connecting"
      BY <2>3, <2>4, <2>10 DEF Unlinked, Transferring, Dialling
    <3>2. /\ z.at = "up" /\ z.stale = FALSE /\ z.slave = FALSE /\ z.masterhost = h
          /\ z.socks = NoSocks /\ z.master = 0
      <4>1. CASE y.repl_state = "transfer" /\ z = replicationAbortSyncTransfer(y)
        BY <2>4, <2>6, <3>1, <4>1, TransferGivenUp, AbortFields DEF Unlinked
      <4>2. CASE y.repl_state # "transfer" /\ z = y
        BY <2>4, <3>1, <4>2 DEF Unlinked
      <4> QED BY <2>5, <4>1, <4>2
    <3> QED BY <2>9, <3>2, RestingGood
  <2> QED BY <2>1, <2>8, <2>9, <2>10
<1> QED BY <1>1, <1>2

(* A server that has just been started, but for the numbers of commands    *)
(* and faults that there have been.                                        *)
Fresh(none, zero, left, k, d, yes, no, m, n) ==
  [masterhost |-> none, repl_state |-> "none", repl_transfer_s |-> zero, repl_transfer_left |-> left,
   tmpfile |-> <<>>, master |-> zero, socks |-> k, data |-> d, at |-> "up", aof |-> yes, slave |-> no,
   stale |-> no, hasty |-> no, slaveofs |-> m, faults |-> n]

Counted(x, m, n) == [x EXCEPT !.slaveofs = m, !.faults = n]

(* What it is when they are set. *)
LEMMA FreshFields ==
  ASSUME NEW none, NEW zero, NEW left, NEW k, NEW d, NEW yes, NEW no, NEW m, NEW n, NEW i, NEW j
  PROVE  Counted(Fresh(none, zero, left, k, d, yes, no, i, j), m, n)
           = Fresh(none, zero, left, k, d, yes, no, m, n)
<1> DEFINE x == Fresh(none, zero, left, k, d, yes, no, i, j)
           y == [x EXCEPT !.slaveofs = m]
           z == [y EXCEPT !.faults = n]
<1>1. Counted(x, m, n) = z
  BY DEF Counted
<1>2. y = Fresh(none, zero, left, k, d, yes, no, m, j)
  BY DEF Fresh
<1> HIDE DEF y
<1>3. z = Fresh(none, zero, left, k, d, yes, no, m, n)
  BY <1>2 DEF Fresh
<1> QED BY <1>1, <1>3

(* Its parts. *)
LEMMA FreshParts ==
  ASSUME NEW none, NEW zero, NEW left, NEW k, NEW d, NEW yes, NEW no \in BOOLEAN, NEW m, NEW n
  PROVE  LET y == Fresh(none, zero, left, k, d, yes, no, m, n)
         IN /\ Server(y) /\ y.at = "up" /\ y.stale = no /\ y.repl_state = "none" /\ y.masterhost = none
            /\ y.socks = k /\ y.master = zero /\ y.hasty = no
<1> DEFINE y == Fresh(none, zero, left, k, d, yes, no, m, n)
<1>1. /\ y.at = "up" /\ y.stale = no /\ y.repl_state = "none" /\ y.masterhost = none
      /\ y.socks = k /\ y.master = zero /\ y.hasty = no
  BY DEF Fresh
<1>2. Server(y)
  BY DEF Fresh, Server
<1> QED BY <1>1, <1>2

(* A server that is started is good. *)
LEMMA StartedGood ==
  ASSUME SlaveAssumption, NEW m, NEW n
  PROVE  /\ Server(Counted(Started, m, n))
         /\ Good(Counted(Started, m, n))
         /\ Server(Started) /\ Good(Started)
<1> DEFINE F(i, j) == Fresh(None, 0, -1, NoSocks, Own, Yes, No, i, j)
<1>1. Started = F(0, 0)
  BY Zenon DEF Started, Fresh, NoSocks, Yes, No
<1>2. Counted(Started, m, n) = F(m, n)
  BY <1>1, FreshFields
<1>3. ASSUME NEW i, NEW j PROVE Server(F(i, j)) /\ Good(F(i, j))
  <2>1. No \in BOOLEAN
    BY DEF No
  <2> DEFINE y == F(i, j)
  <2>2. /\ Server(y) /\ y.at = "up" /\ y.stale = No /\ y.repl_state = "none" /\ y.masterhost = None
        /\ y.socks = NoSocks /\ y.master = 0
    BY <2>1, FreshParts
  <2> HIDE DEF y
  <2>3. Good(y)
    BY <2>2, AloneGood DEF No
  <2> QED BY <2>2, <2>3 DEF y
<1> QED BY <1>1, <1>2, <1>3

-----------------------------------------------------------------------------
(* The invariant.                                                          *)

(* SLAVEOF keeps it. *)
LEMMA SlaveofKeepsInv ==
  ASSUME SlaveAssumption, Server(rep), slaveofCommand, rep.hasty \/ Good(rep)
  PROVE  Inv'
<1> DEFINE n == rep.slaveofs + 1
           x == [rep EXCEPT !.slaveofs = n]
<1>1. rep' = SlaveofNoOne(x) \/ (\E h \in Hosts : rep' = SlaveofHost(x, h))
  BY DEF slaveofCommand
<1> HIDE DEF n
<1>2. Keeps(rep, x) /\ Alike(rep, x)
  BY CountedFields
<1> HIDE DEF x
<1>3. Server(x) /\ (rep.hasty => x.hasty) /\ (Good(rep) => Good(x))
  BY <1>2, AlikeGood DEF Keeps
<1>4. CASE rep' = SlaveofNoOne(x)
  <2>1. Safe(x, rep')
    BY <1>3, <1>4, NoOneSafe
  <2> QED BY <1>3, <2>1 DEF Safe, Keeps, Inv
<1>5. ASSUME NEW h \in Hosts, rep' = SlaveofHost(x, h) PROVE Inv'
  <2>1. Server(rep') /\ (x.hasty => rep'.hasty) /\ (Good(x) => Good(rep') \/ rep'.hasty)
    BY <1>3, <1>5, HostSafe
  <2> QED BY <1>3, <2>1 DEF Inv
<1> QED BY <1>1, <1>4, <1>5

(* A restart makes it hold, whatever there was. *)
LEMMA RestartKeepsInv ==
  ASSUME SlaveAssumption, Restart
  PROVE  Inv'
<1>1. rep' = Counted(Started, rep.slaveofs, rep.faults)
  BY DEF Restart, Counted
<1> QED BY <1>1, StartedGood DEF Inv

(* Every step keeps it. *)
LEMMA NextKeepsInv ==
  ASSUME SlaveAssumption, Inv, [Next]_rep
  PROVE  Inv'
<1>1. Server(rep) /\ (rep.hasty \/ Good(rep) \/ Fine(rep))
  BY DEF Inv
<1>2. CASE UNCHANGED rep
  BY <1>1, <1>2 DEF Inv
<1>3. CASE Restart
  BY <1>3, RestartKeepsInv
<1>4. ASSUME rep.at = "up", Safe(rep, rep') PROVE Inv'
  BY <1>1, <1>4 DEF Safe, Keeps, Inv, Fine
<1>5. CASE replicationCron
  BY <1>1, <1>4, <1>5, CronSafe DEF replicationCron
<1>6. CASE syncWithMaster
  BY <1>1, <1>4, <1>6, SyncSafe DEF syncWithMaster, Fires
<1>7. CASE readSyncBulkPayload
  BY <1>1, <1>4, <1>7, BulkSafe DEF readSyncBulkPayload, Fires
<1>8. CASE slaveofCommand
  BY <1>1, <1>8, SlaveofKeepsInv DEF slaveofCommand, Fine
<1>9. CASE readQueryFromMaster
  BY <1>1, <1>4, <1>9, QuerySafe DEF readQueryFromMaster, Fires
<1>10. CASE syncCommand \/ FreeSlave
  BY <1>1, <1>4, <1>10, SubslaveSafe DEF syncCommand, FreeSlave
<1>11. CASE Hang
  BY <1>1, <1>4, <1>11, HangSafe DEF Hang
<1> QED BY <1>2, <1>3, <1>5, <1>6, <1>7, <1>8, <1>9, <1>10, <1>11 DEF Next, Progress

(* The server starts with it. *)
LEMMA InitInv ==
  ASSUME SlaveAssumption, Init
  PROVE  Inv
  BY StartedGood DEF Init, Inv

(* One socket is watched, or none. *)
LEMMA OneIsWatched ==
  ASSUME NEW s \in Fds, NEW h, NEW handler, NEW pos, NEW hung, handler # "none",
         rep.socks = Only(s, Sock(h, handler, pos, hung))
  PROVE  Watched = {s} /\ rep.socks[s].open /\ rep.socks[s].host = h
<1>1. rep.socks[s] = Sock(h, handler, pos, hung) /\ \A fd \in Fds : fd # s => rep.socks[fd] = Free
  BY OneSocket
<1>2. rep.socks[s].open = Yes /\ rep.socks[s].host = h /\ rep.socks[s].handler = handler
  BY <1>1, SocketParts DEF Sock
<1>3. Free.handler = "none"
  BY FreeSocket, SocketParts
<1>4. Watched = {s}
  BY <1>1, <1>2, <1>3 DEF Watched
<1> QED BY <1>2, <1>4 DEF Yes

(* The invariant says what the slave follows. *)
LEMMA InvFollows ==
  ASSUME SlaveAssumption, Inv
  PROVE  SlaveFollowsHost
<1> DEFINE s == IF rep.repl_state = "connected" THEN rep.master ELSE rep.repl_transfer_s
           One == Watched = {s} /\ rep.socks[s].open /\ rep.socks[s].host = rep.masterhost
           Data == rep.data.base = rep.masterhost /\ rep.data.stream \subseteq {rep.masterhost}
<1> SUFFICES ASSUME ~rep.hasty, rep.at # "exit"
             PROVE  /\ rep.at = "up"
                    /\ IF rep.repl_state \in {"none", "connect"} THEN Watched = {} ELSE One
                    /\ rep.repl_state = "connected" => Data
  <2> HIDE DEF One, Data
  <2>1. rep.at = "exit" => rep.at # "up" /\ rep.at # "assert"
    OBVIOUS
  <2>2. CASE rep.at = "exit"
    BY <2>2 DEF SlaveFollowsHost
  <2>3. CASE rep.at # "exit" /\ rep.hasty
    BY <2>3 DEF SlaveFollowsHost
  <2>4. CASE rep.at # "exit" /\ ~rep.hasty
    BY <2>4 DEF SlaveFollowsHost, One, Data
  <2> QED BY <2>2, <2>3, <2>4
<1>1. Good(rep)
  BY DEF Inv, Fine
<1>2. /\ rep.at = "up"
      /\ rep.repl_state \in {"none", "connect", "connecting", "transfer", "connected"}
  BY <1>1, GoodStates
<1>3. CASE rep.repl_state \in {"none", "connect"}
  <2>1. rep.socks = NoSocks
    BY <1>1, <1>3, GoodStates
  <2>2. \A fd \in Fds : rep.socks[fd] = Free
    BY <2>1 DEF NoSocks
  <2>3. Free.handler = "none"
    BY FreeSocket, SocketParts
  <2>4. Watched = {}
    BY <2>2, <2>3 DEF Watched
  <2> QED BY <1>2, <1>3, <2>4
<1>4. CASE rep.repl_state = "connecting"
  <2>1. PICK t \in Fds, hung \in BOOLEAN : Connecting(rep, t, hung)
    BY <1>1, <1>4, GoodStates
  <2>2. s = t /\ rep.socks = Only(t, Sock(rep.masterhost, "sync", 0, hung))
    BY <1>4, <2>1 DEF Connecting
  <2>3. One
    BY <2>2, OneIsWatched
  <2> QED BY <1>2, <1>4, <2>3
<1>5. CASE rep.repl_state = "transfer"
  <2>1. PICK t \in Fds, pos \in Nat, hung \in BOOLEAN :
          rep.repl_transfer_s = t /\ rep.socks = Only(t, Sock(rep.masterhost, "bulk", pos, hung))
    BY <1>1, <1>5, TransferSocket
  <2>2. s = t
    BY <1>5, <2>1
  <2>3. One
    BY <2>1, <2>2, OneIsWatched
  <2> QED BY <1>2, <1>5, <2>3
<1>6. CASE rep.repl_state = "connected"
  <2>1. PICK t \in Fds, hung \in BOOLEAN : Following(rep, t, hung)
    BY <1>1, <1>6, GoodStates
  <2> DEFINE p == Chunks + 1
  <2>2. s = t /\ rep.socks = Only(t, Sock(rep.masterhost, "client", p, hung))
    BY <1>6, <2>1 DEF Following
  <2> HIDE DEF p
  <2>3. One
    BY <2>2, OneIsWatched
  <2>4. Data
    BY <2>1 DEF Following
  <2> QED BY <1>2, <1>6, <2>3, <2>4
<1> QED BY <1>2, <1>3, <1>4, <1>5, <1>6

(* For any masters and any size of their data, and whatever fails: unless  *)
(* a SLAVEOF comes during a connect, a slave has the one socket that its   *)
(* state says, to the master the user asked for; linked, its data and the  *)
(* commands it applies are that master's alone; and neither of the         *)
(* assertions on the state of the link fails (replication.c).              *)
THEOREM FollowsHost ==
  ASSUME SlaveAssumption
  PROVE  Spec => []SlaveFollowsHost
<1>1. Init => Inv
  BY InitInv
<1>2. Inv /\ [Next]_rep => Inv'
  BY NextKeepsInv
<1>3. Inv => SlaveFollowsHost
  BY InvFollows
<1> QED BY <1>1, <1>2, <1>3, PTL DEF Spec

(* Under the same condition no slave of this slave stays attached with     *)
(* data that readSyncBulkPayload has replaced here: freeClient of the      *)
(* master and SLAVEOF have cut it off, and syncCommand lets none in before *)
(* the link is up again.                                                   *)
THEOREM SubslavesAreCutOff ==
  ASSUME SlaveAssumption
  PROVE  Spec => []SubslavesHaveOurData
<1>1. Init => Inv
  BY InitInv
<1>2. Inv /\ [Next]_rep => Inv'
  BY NextKeepsInv
<1>3. Inv => SubslavesHaveOurData
  BY DEF Inv, Good, Fine, SubslavesHaveOurData
<1> QED BY <1>1, <1>2, <1>3, PTL DEF Spec
=============================================================================
