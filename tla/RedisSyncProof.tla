--------------------------- MODULE RedisSyncProof ---------------------------
(***************************************************************************)
(* For any number of slaves and databases, and whatever the order of       *)
(* SYNC, BGSAVE, FLUSHALL, broken connections and children that end: no    *)
(* slave is left waiting for a background save that does not exist, the    *)
(* list of slaves has each of them once, and what a slave is sent makes    *)
(* the master's data.                                                      *)
(***************************************************************************)
EXTENDS RedisSync, FoldFacts

States == {"none", "wait_start", "wait_end", "send_bulk", "online"}

StateTypes ==
  /\ replstate \in [Slaves -> States]
  /\ spoiled \in [Slaves -> BOOLEAN]

Inv == StateTypes /\ WaitersHaveChild

(* What updateSlavesWaitingBgsave makes of the slaves: those that are sent *)
(* the file, those that are freed, and the states of the others.           *)
Ready == IF child # "failed" /\ rdb.exists THEN In("wait_end") ELSE {}
Gone == In("wait_end") \ Ready
NewStates == [s \in Slaves |-> IF s \in Ready THEN "send_bulk"
                               ELSE IF s \in In("wait_start") THEN "wait_end"
                               ELSE replstate[s]]

(* The parts of the handler, under these names. *)
LEMMA DoneParts ==
  ASSUME backgroundSaveDoneHandler
  PROVE  /\ child \in {"saved", "failed", "killed"}
         /\ Freed(Gone, NewStates)
         /\ bulk' = [s \in Slaves |->
              IF s \in Ready THEN [data |-> rdb.data, left |-> Chunks]
              ELSE IF s \in Gone THEN NoBulk ELSE bulk[s]]
         /\ UNCHANGED <<data, rdb>>
         /\ \/ /\ Forks
               /\ spoiled' = [s \in Slaves |-> spoiled[s] /\ s \notin Gone]
            \/ /\ child' = "none" /\ UNCHANGED snapshot
               /\ spoiled' = [s \in Slaves |-> \/ spoiled[s] /\ s \notin Gone
                                               \/ s \in In("wait_start")]
  BY DEF backgroundSaveDoneHandler, updateSlavesWaitingBgsave, Gone, Ready, NewStates

(* A step that changes neither the states of the slaves nor the flags, and *)
(* does not lose the child, preserves the invariant.                       *)
LEMMA Frame ==
  ASSUME Inv, UNCHANGED <<replstate, spoiled>>, child # "none" => child' # "none"
  PROVE  Inv'
  BY DEF Inv, StateTypes, WaitersHaveChild

(* At first no slave waits. *)
LEMMA InitInv == Init => Inv
  BY DEF Init, Inv, StateTypes, States, WaitersHaveChild

(* A slave that is freed, or leaves the states of waiting, does no harm. *)
LEMMA LeavingKeepsInv ==
  ASSUME Inv, NEW s \in Slaves, NEW state \in {"none", "online"},
         replstate' = [replstate EXCEPT ![s] = state],
         spoiled' \in {spoiled, [spoiled EXCEPT ![s] = FALSE]},
         child' = child
  PROVE  Inv'
<1>1. StateTypes'
  BY DEF Inv, StateTypes, States
<1>2. WaitersHaveChild'
  <2> SUFFICES ASSUME NEW x \in Slaves,
                      \/ replstate'[x] = "wait_start"
                      \/ replstate'[x] = "wait_end" /\ ~spoiled'[x]
               PROVE  child' # "none"
    BY DEF WaitersHaveChild
  <2>1. x # s
    BY DEF Inv, StateTypes
  <2>2. replstate'[x] = replstate[x] /\ spoiled'[x] = spoiled[x]
    BY <2>1 DEF Inv, StateTypes
  <2> QED BY <2>2 DEF Inv, WaitersHaveChild
<1> QED BY <1>1, <1>2 DEF Inv

(* SYNC makes a slave wait only for a child that is there. *)
LEMMA SyncKeepsInv ==
  ASSUME Inv, NEW s \in Slaves, syncCommand(s)
  PROVE  Inv'
<1>1. PICK state \in {"wait_start", "wait_end"} :
        replstate' = [replstate EXCEPT ![s] = state]
  BY DEF syncCommand
<1>2. child' # "none"
  BY DEF syncCommand, Forks
<1>3. spoiled' \in [Slaves -> BOOLEAN]
  <2>1. \/ spoiled' = spoiled
        \/ \E b \in BOOLEAN : spoiled' = [spoiled EXCEPT ![s] = b]
    BY DEF syncCommand
  <2> QED BY <2>1 DEF Inv, StateTypes
<1>4. StateTypes'
  BY <1>1, <1>3 DEF Inv, StateTypes, States
<1> QED BY <1>2, <1>4 DEF Inv, WaitersHaveChild

(* When a child has ended, no slave waits any longer but those for which   *)
(* the next one has been started, or could not be.                         *)
LEMMA DoneKeepsInv ==
  ASSUME Inv, backgroundSaveDoneHandler
  PROVE  Inv'
<1>1. replstate' = [s \in Slaves |-> IF s \in Gone THEN "none" ELSE NewStates[s]]
  BY DoneParts DEF Freed
<1>2. \/ /\ child' = "saving"
         /\ spoiled' = [s \in Slaves |-> spoiled[s] /\ s \notin Gone]
      \/ spoiled' = [s \in Slaves |-> \/ spoiled[s] /\ s \notin Gone
                                      \/ s \in In("wait_start")]
  BY DoneParts DEF Forks
<1>3. \A s \in Slaves : /\ replstate'[s] \in States \ {"wait_start"}
                        /\ replstate'[s] = "wait_end" => s \in In("wait_start")
  BY <1>1 DEF In, Inv, StateTypes, States, Ready, Gone, NewStates
<1>4. replstate' \in [Slaves -> States]
  BY <1>1, <1>3
<1>5. spoiled' \in [Slaves -> BOOLEAN]
  BY <1>2 DEF Inv, StateTypes
<1>6. WaitersHaveChild'
  BY <1>2, <1>3 DEF WaitersHaveChild
<1> QED BY <1>4, <1>5, <1>6 DEF Inv, StateTypes

(* Every step preserves the invariant. *)
LEMMA NextInv == Inv /\ [Next]_vars => Inv'
<1> SUFFICES ASSUME Inv, [Next]_vars PROVE Inv'
  OBVIOUS
<1>1. ASSUME NEW d \in Dbs, Write(d) PROVE Inv'
  BY <1>1, Frame DEF Write
<1>2. ASSUME NEW d \in Dbs, flushallCommand(d) PROVE Inv'
  BY <1>2, Frame DEF flushallCommand
<1>3. CASE bgsaveCommand
  BY <1>3, Frame DEF bgsaveCommand, Forks, sync
<1>4. CASE saveCommand
  BY <1>4, Frame DEF saveCommand, sync
<1>5. CASE ChildExits
  BY <1>5, Frame DEF ChildExits, sync
<1>6. CASE ChildKilled
  <2>1. StateTypes' /\ child' # "none"
    BY <1>6 DEF ChildKilled, Inv, StateTypes
  <2> QED BY <2>1 DEF Inv, WaitersHaveChild
<1>7. CASE backgroundSaveDoneHandler
  BY <1>7, DoneKeepsInv
<1>8. ASSUME NEW s \in Slaves, syncCommand(s) PROVE Inv'
  BY <1>8, SyncKeepsInv
<1>9. ASSUME NEW s \in Slaves, sendBulkToSlave(s) PROVE Inv'
  <2>1. CASE bulk[s].left = 1
    BY <1>9, <2>1, LeavingKeepsInv DEF sendBulkToSlave
  <2>2. CASE bulk[s].left # 1
    BY <1>9, <2>2, Frame DEF sendBulkToSlave
  <2> QED BY <2>1, <2>2
<1>10. ASSUME NEW s \in Slaves, sendReplyToClient(s) PROVE Inv'
  BY <1>10, Frame DEF sendReplyToClient
<1>11. ASSUME NEW s \in Slaves, freeClient(s) PROVE Inv'
  <2>1. replstate' = [replstate EXCEPT ![s] = "none"]
    BY <1>11 DEF freeClient, Freed, Inv, StateTypes
  <2>2. spoiled' = [spoiled EXCEPT ![s] = FALSE] /\ child' = child
    BY <1>11 DEF freeClient
  <2> QED BY <2>1, <2>2, LeavingKeepsInv
<1>12. CASE UNCHANGED vars
  BY <1>12, Frame DEF vars
<1> QED BY <1>1, <1>2, <1>3, <1>4, <1>5, <1>6, <1>7, <1>8, <1>9, <1>10, <1>11,
           <1>12 DEF Next

(* A slave never waits for a BGSAVE when there is none, unless the BGSAVE  *)
(* it was promised could not be started.                                   *)
THEOREM NobodyWaitsInVain == Spec => []WaitersHaveChild
<1>1. Inv => WaitersHaveChild
  BY DEF Inv
<1> QED BY InitInv, NextInv, <1>1, PTL DEF Spec

-----------------------------------------------------------------------------
(* What a slave makes of a buffer. *)
(* What a slave may have, and the function that applies a command to it. *)
Replicas == [data : [Dbs -> Nat], db : Dbs]
Step == [p \in Replicas \X Messages |-> Applied(p[1], p[2])]

(* A command makes a replica of a replica. *)
LEMMA AppliedType ==
  ASSUME NEW r \in Replicas, NEW op \in Messages
  PROVE  Applied(r, op) \in Replicas
<1> USE RedisSyncAssumption
<1>1. CASE op.cmd = "select"
  BY <1>1 DEF Applied, Replicas, Messages, Select, Incr, FlushAll
<1>2. CASE op.cmd = "incr"
  <2>1. Applied(r, op) = [r EXCEPT !.data[r.db] = @ + 1]
    BY <1>2 DEF Applied
  <2> QED BY <2>1 DEF Replicas
<1>3. CASE op.cmd = "flushall"
  <2>1. Applied(r, op) = [r EXCEPT !.data = Empty]
    BY <1>3 DEF Applied
  <2> QED BY <2>1 DEF Replicas, Empty
<1> QED BY <1>1, <1>2, <1>3 DEF Messages, Select, Incr, FlushAll

(* Step stays among the replicas, and is Applied there. *)
LEMMA StepType == /\ Stays(Step, Replicas, Messages)
                  /\ \A r \in Replicas, op \in Messages : Step[<<r, op>>] = Applied(r, op)
<1>1. ASSUME NEW p \in Replicas \X Messages PROVE Applied(p[1], p[2]) \in Replicas
  BY AppliedType
<1>2. \A r \in Replicas, op \in Messages : <<r, op>> \in Replicas \X Messages
  OBVIOUS
<1> HIDE DEF Replicas
<1> QED BY <1>1, <1>2 DEF Step, Stays

(* Folding a buffer is running Step over it. *)
LEMMA AppliedFold ==
  ASSUME NEW b \in Replicas, NEW q \in Seq(Messages)
  PROVE  FoldLeft(Applied, b, q) = Result(Step, b, q)
<1> DEFINE P(g) == g = [s \in SUBSET DOMAIN q |->
             IF s = {} THEN b ELSE Applied(g[s \ {Max(s)}], q[Max(s)])]
<1>1. FoldLeft(Applied, b, q) = (CHOOSE g : P(g))[DOMAIN q]
  BY Zenon DEF FoldLeft, MapThenFoldSet
<1>2. DOMAIN q = 1 .. Len(q) /\ Len(q) \in Nat
  OBVIOUS
<1>3. PICK f : IsFold(f, Replicas, Step, b, q)
  BY StepType, SubsetFoldOfSequence, Zenon
<1>4. P(f)
  <2>1. f \in [SUBSET (1 .. Len(q)) -> Replicas] /\ f = SubsetStep(Step, b, q, f)
    BY <1>3 DEF IsFold
  <2>2. ASSUME NEW s \in SUBSET (1 .. Len(q)), s # {}
        PROVE  f[s] = Applied(f[s \ {Max(s)}], q[Max(s)])
    <3>1. Max(s) \in 1 .. Len(q)
      BY <1>2, <2>2, MaxOfPositions
    <3>2. q[Max(s)] \in Messages
      BY <3>1
    <3>a. f[s \ {Max(s)}] \in Replicas
      <4>1. s \ {Max(s)} \in SUBSET (1 .. Len(q))
        OBVIOUS
      <4> QED BY <2>1, <4>1
    <3>3. f[s] = Step[<<f[s \ {Max(s)}], q[Max(s)]>>]
      BY <2>1, <2>2 DEF SubsetStep
    <3> QED BY <3>2, <3>a, <3>3, StepType
  <2>3. f[{}] = b
    BY <2>1 DEF SubsetStep
  <2>4. f = [s \in SUBSET (1 .. Len(q)) |-> f[s]]
    BY <2>1
  <2> QED BY <1>2, <2>2, <2>3, <2>4, Zenon
<1>5. P(CHOOSE g : P(g))
  <2> HIDE DEF P
  <2> QED BY <1>4, Zenon
<1> DEFINE g == CHOOSE g : P(g)
<1>6. /\ g[{}] = b
      /\ \A s \in SUBSET (1 .. Len(q)) : s # {} =>
            g[s] = Applied(g[s \ {Max(s)}], q[Max(s)])
  BY <1>2, <1>5
<1> HIDE DEF g
<1>7. SolvesFold(g, Replicas, Step, b, q)
  <2> SUFFICES ASSUME NEW s \in SUBSET (1 .. Len(q)), s # {}, g[s \ {Max(s)}] \in Replicas
               PROVE  g[s] = Step[<<g[s \ {Max(s)}], q[Max(s)]>>]
    BY <1>6, Zenon DEF SolvesFold
  <2>1. Max(s) \in 1 .. Len(q)
    BY <1>2, MaxOfPositions
  <2>2. q[Max(s)] \in Messages
    BY <2>1
  <2> QED BY <1>6, <2>2, StepType
<1>8. Gives(g, Step, b, q)
  <2>1. Stays(Step, Replicas, Messages)
    BY StepType
  <2> QED BY <1>7, <2>1, FoldIsResult
<1> QED BY <1>1, <1>2, <1>8 DEF g, Gives

(* What b becomes when the commands in q have been applied. *)
Fold(b, q) == FoldLeft(Applied, b, q)

(* An empty buffer changes nothing, the last command is applied last, and  *)
(* the first one first.                                                    *)
LEMMA FoldFact ==
  ASSUME NEW b \in Replicas
  PROVE  /\ Fold(b, <<>>) = b
         /\ \A q \in Seq(Messages) : Fold(b, q) \in Replicas
         /\ \A q \in Seq(Messages), e \in Messages : Fold(b, Append(q, e)) = Applied(Fold(b, q), e)
         /\ \A q \in Seq(Messages) : q # <<>> => Fold(b, q) = Fold(Applied(b, Head(q)), Tail(q))
<1>1. Stays(Step, Replicas, Messages)
  BY StepType
<1>2. <<>> \in Seq(Messages)
  OBVIOUS
<1>3. \A q \in Seq(Messages) : Fold(b, q) = Result(Step, b, q)
  BY AppliedFold DEF Fold
<1>4. Fold(b, <<>>) = b
  BY <1>1, <1>2, <1>3, ResultEmpty
<1>5. ASSUME NEW q \in Seq(Messages) PROVE Fold(b, q) \in Replicas
  BY <1>1, <1>3, ResultType
<1>6. ASSUME NEW q \in Seq(Messages), NEW e \in Messages
      PROVE  Fold(b, Append(q, e)) = Applied(Fold(b, q), e)
  <2>1. Append(q, e) \in Seq(Messages)
    OBVIOUS
  <2>2. Result(Step, b, Append(q, e)) = Step[<<Result(Step, b, q), e>>]
    BY <1>1, ResultAppend
  <2> QED BY <1>3, <1>5, <2>1, <2>2, StepType
<1>7. ASSUME NEW q \in Seq(Messages), q # <<>>
      PROVE  Fold(b, q) = Fold(Applied(b, Head(q)), Tail(q))
  <2>1. Head(q) \in Messages /\ Tail(q) \in Seq(Messages)
    BY <1>7
  <2>2. Step[<<b, Head(q)>>] = Applied(b, Head(q)) /\ Applied(b, Head(q)) \in Replicas
    BY <2>1, StepType, AppliedType
  <2>3. Result(Step, b, q) = Result(Step, Step[<<b, Head(q)>>], Tail(q))
    BY <1>1, <1>7, ResultCons
  <2> QED BY <1>3, <2>1, <2>2, <2>3, AppliedFold DEF Fold
<1> QED BY <1>4, <1>5, <1>6, <1>7

(* The database selected at the end does not depend on the data. *)
LEMMA DbOnly ==
  ASSUME NEW b \in Replicas, NEW c \in Replicas, b.db = c.db, NEW q \in Seq(Messages)
  PROVE  Fold(b, q).db = Fold(c, q).db
<1> DEFINE T == { p \in Replicas \X Replicas : p[1].db = p[2].db }
<1>1. <<b, c>> \in T
  OBVIOUS
<1>2. ASSUME NEW x \in Replicas, NEW y \in Replicas, NEW e \in Messages, <<x, y>> \in T
      PROVE  <<Step[<<x, e>>], Step[<<y, e>>]>> \in T
  <2>1. x.db = y.db
    BY <1>2
  <2>2. Applied(x, e) \in Replicas /\ Applied(y, e) \in Replicas
    BY AppliedType
  <2>3. Applied(x, e).db = Applied(y, e).db
    BY <2>1 DEF Applied, Replicas, Messages, Select, Incr, FlushAll
  <2> QED BY <2>2, <2>3, StepType
<1> HIDE DEF T
<1>3. <<Result(Step, b, q), Result(Step, c, q)>> \in T
  <2>1. Stays(Step, Replicas, Messages)
    BY StepType
  <2>2. Related(T, Replicas, Step, Replicas, Step, Messages)
    BY <1>2 DEF Related
  <2> QED BY <1>1, <2>1, <2>2, ResultsRelated
<1> QED BY <1>3, AppliedFold DEF T, Fold

(* What replicationFeedSlaves adds to the buffer of a slave. *)
Fed(sel, d, op) == IF sel # d THEN <<Select(d), op>> ELSE <<op>>

(* It selects the database where need be, and applies the command there. *)
LEMMA FedFold ==
  ASSUME NEW b \in Replicas, NEW q \in Seq(Messages), NEW d \in Dbs, NEW op \in Messages
  PROVE  LET r == Fold(b, q)
         IN /\ q \o Fed(r.db, d, op) \in Seq(Messages)
            /\ Fold(b, q \o Fed(r.db, d, op)) = Applied([r EXCEPT !.db = d], op)
<1> DEFINE r == Fold(b, q)
<1>1. r \in Replicas
  BY FoldFact
<1>2. CASE r.db = d
  <2>1. q \o Fed(r.db, d, op) = Append(q, op)
    BY <1>2 DEF Fed
  <2>2. Append(q, op) \in Seq(Messages)
    OBVIOUS
  <2>3. [r EXCEPT !.db = d] = r
    BY <1>1, <1>2 DEF Replicas
  <2> QED BY <2>1, <2>2, <2>3, FoldFact
<1>3. CASE r.db # d
  <2> DEFINE q1 == Append(q, Select(d))
  <2>1. Select(d) \in Messages
    BY DEF Messages
  <2>2. q \o Fed(r.db, d, op) = Append(q1, op)
    BY <1>3, <2>1 DEF Fed
  <2>3. q1 \in Seq(Messages) /\ Append(q1, op) \in Seq(Messages)
    BY <2>1
  <2>4. Fold(b, q1) = Applied(r, Select(d))
    BY <2>1, FoldFact
  <2>5. Fold(b, Append(q1, op)) = Applied(Fold(b, q1), op)
    <3> HIDE DEF q1
    <3> QED BY <2>3, FoldFact
  <2>6. Applied(r, Select(d)) = [r EXCEPT !.db = d]
    BY DEF Applied, Select
  <2> QED BY <2>2, <2>3, <2>4, <2>5, <2>6
<1> QED BY <1>2, <1>3

-----------------------------------------------------------------------------
(* The function that keeps a slave on a list unless it is gone. *)
Keep(gone) ==
  [p \in Seq(Slaves) \X Slaves |-> IF p[2] \in gone THEN p[1] ELSE Append(p[1], p[2])]

(* Keep makes a list of a list. *)
LEMMA KeepType ==
  ASSUME NEW gone
  PROVE  /\ Stays(Keep(gone), Seq(Slaves), Slaves)
         /\ \A l \in Seq(Slaves), s \in Slaves :
              /\ s \in gone => Keep(gone)[<<l, s>>] = l
              /\ s \notin gone => Keep(gone)[<<l, s>>] = Append(l, s)
<1>1. ASSUME NEW p \in Seq(Slaves) \X Slaves
      PROVE  (IF p[2] \in gone THEN p[1] ELSE Append(p[1], p[2])) \in Seq(Slaves)
  OBVIOUS
<1>2. \A l \in Seq(Slaves), s \in Slaves : <<l, s>> \in Seq(Slaves) \X Slaves
  OBVIOUS
<1> QED BY <1>1, <1>2 DEF Keep, Stays

(* Without folds Keep. *)
LEMMA WithoutFold ==
  ASSUME NEW list \in Seq(Slaves), NEW gone
  PROVE  Without(list, gone) = Result(Keep(gone), <<>>, list)
<1> DEFINE n == Len(list)
           K(l, s) == IF s \in gone THEN l ELSE Append(l, s)
           P(g) == g = [t \in SUBSET DOMAIN list |->
                          IF t = {} THEN <<>> ELSE K(g[t \ {Max(t)}], list[Max(t)])]
<1>1. Without(list, gone) = (CHOOSE g : P(g))[DOMAIN list]
  BY Zenon DEF Without, FoldLeft, MapThenFoldSet
<1>2. DOMAIN list = 1 .. n /\ n \in Nat /\ <<>> \in Seq(Slaves)
  OBVIOUS
<1>a. ASSUME NEW l \in Seq(Slaves), NEW s \in Slaves PROVE Keep(gone)[<<l, s>>] = K(l, s)
  BY KeepType
<1>3. PICK f : IsFold(f, Seq(Slaves), Keep(gone), <<>>, list)
  BY <1>2, KeepType, SubsetFoldOfSequence
<1>4. P(f)
  <2>1. /\ f \in [SUBSET (1 .. n) -> Seq(Slaves)]
        /\ f = SubsetStep(Keep(gone), <<>>, list, f)
    BY <1>3 DEF IsFold
  <2>2. ASSUME NEW t \in SUBSET (1 .. n), t # {}
        PROVE  f[t] = K(f[t \ {Max(t)}], list[Max(t)])
    <3>1. Max(t) \in 1 .. n
      BY <1>2, <2>2, MaxOfPositions
    <3>2. list[Max(t)] \in Slaves
      BY <3>1
    <3>3. t \ {Max(t)} \in SUBSET (1 .. n)
      OBVIOUS
    <3>4. f[t \ {Max(t)}] \in Seq(Slaves)
      BY <2>1, <3>3
    <3>5. f[t] = Keep(gone)[<<f[t \ {Max(t)}], list[Max(t)]>>]
      BY <2>1, <2>2 DEF SubsetStep
    <3> HIDE DEF K
    <3> QED BY <1>a, <3>2, <3>4, <3>5
  <2>3. f[{}] = <<>>
    BY <2>1 DEF SubsetStep
  <2>4. f = [t \in SUBSET (1 .. n) |-> f[t]]
    BY <2>1
  <2> HIDE DEF K
  <2> QED BY <1>2, <2>2, <2>3, <2>4, Zenon
<1>5. P(CHOOSE g : P(g))
  <2> HIDE DEF P
  <2> QED BY <1>4, Zenon
<1> DEFINE g == CHOOSE g : P(g)
<1>6. /\ g[{}] = <<>>
      /\ \A t \in SUBSET (1 .. n) : t # {} => g[t] = K(g[t \ {Max(t)}], list[Max(t)])
  <2> HIDE DEF K
  <2> QED BY <1>2, <1>5
<1> HIDE DEF g
<1>7. SolvesFold(g, Seq(Slaves), Keep(gone), <<>>, list)
  <2> SUFFICES ASSUME NEW t \in SUBSET (1 .. n), t # {}, g[t \ {Max(t)}] \in Seq(Slaves)
               PROVE  g[t] = Keep(gone)[<<g[t \ {Max(t)}], list[Max(t)]>>]
    BY <1>6, Zenon DEF SolvesFold
  <2>1. Max(t) \in 1 .. n
    BY <1>2, MaxOfPositions
  <2>2. list[Max(t)] \in Slaves
    BY <2>1
  <2> HIDE DEF K
  <2> QED BY <1>a, <1>6, <2>2
<1>8. Gives(g, Keep(gone), <<>>, list)
  <2>1. Stays(Keep(gone), Seq(Slaves), Slaves)
    BY KeepType
  <2> QED BY <1>2, <1>7, <2>1, FoldIsResult
<1> QED BY <1>1, <1>2, <1>8 DEF g, Gives

(* l has no slave twice; l is list up to its place i, without those gone. *)
OnceEach(l) == \A j, k \in DOMAIN l : l[j] = l[k] => j = k
Kept(l, list, i, gone) ==
  /\ l \in Seq(Slaves)
  /\ \A j \in DOMAIN l : l[j] \notin gone /\ \E k \in 1 .. i : list[k] = l[j]
  /\ \A k \in 1 .. i : list[k] \notin gone => \E j \in DOMAIN l : l[j] = list[k]
  /\ OnceEach(list) => OnceEach(l)

(* Without deletes those that are gone, and no others. *)
LEMMA WithoutKeeps ==
  ASSUME NEW list \in Seq(Slaves), NEW gone
  PROVE  Kept(Without(list, gone), list, Len(list), gone)
<1> DEFINE n == Len(list)
           T == { p \in (0 .. n) \X Seq(Slaves) : Kept(p[2], list, p[1], gone) }
<1>1. n \in Nat /\ DOMAIN list = 1 .. n /\ <<>> \in Seq(Slaves)
  OBVIOUS
<1>2. Kept(<<>>, list, 0, gone)
  BY DEF Kept, OnceEach
<1>3. <<0, <<>>>> \in T
  <2>a. 0 \in 0 .. n
    BY <1>1
  <2>1. <<0, <<>>>> \in (0 .. n) \X Seq(Slaves)
    BY <1>1, <2>a, Zenon
  <2> QED BY <1>2, <2>1
<1>4. ASSUME NEW i \in 0 .. n - 1, NEW l \in Seq(Slaves), Kept(l, list, i, gone)
      PROVE  Kept(Keep(gone)[<<l, list[i + 1]>>], list, i + 1, gone)
  <2> DEFINE s == list[i + 1]
  <2>1. s \in Slaves /\ i + 1 \in 1 .. n
    BY <1>1
  <2>2. 1 .. i + 1 = (1 .. i) \cup {i + 1}
    BY <1>1
  <2>3. CASE s \in gone
    <3>1. Keep(gone)[<<l, s>>] = l
      BY <2>1, <2>3, KeepType
    <3>2. Kept(l, list, i + 1, gone)
      BY <1>4, <2>2, <2>3 DEF Kept
    <3> QED BY <3>1, <3>2
  <2>4. CASE s \notin gone
    <3> DEFINE m == Append(l, s)
    <3>1. Keep(gone)[<<l, s>>] = m
      BY <2>1, <2>4, KeepType
    <3>2. m \in Seq(Slaves) /\ DOMAIN m = DOMAIN l \cup {Len(l) + 1} /\ Len(l) + 1 \notin DOMAIN l
      BY <2>1
    <3>3. m[Len(l) + 1] = s /\ \A j \in DOMAIN l : m[j] = l[j]
      BY <2>1
    <3> HIDE DEF m, s
    <3>4. \A j \in DOMAIN m : m[j] \notin gone /\ \E k \in 1 .. i + 1 : list[k] = m[j]
      BY <1>4, <2>2, <2>4, <3>2, <3>3 DEF Kept, s
    <3>5. \A k \in 1 .. i + 1 : list[k] \notin gone => \E j \in DOMAIN m : m[j] = list[k]
      BY <1>4, <2>2, <3>2, <3>3 DEF Kept, s
    <3>6. ASSUME OnceEach(list) PROVE OnceEach(m)
      <4>1. \A k \in 1 .. i : list[k] # s
        BY <1>1, <2>1, <3>6 DEF OnceEach, s
      <4>2. \A j \in DOMAIN l : l[j] # s
        BY <1>4, <4>1 DEF Kept
      <4>3. OnceEach(l)
        BY <1>4, <3>6 DEF Kept
      <4> QED BY <3>2, <3>3, <4>2, <4>3 DEF OnceEach
    <3> QED BY <3>1, <3>2, <3>4, <3>5, <3>6 DEF Kept, s
  <2> QED BY <2>3, <2>4
<1>5. Inductive(T, Seq(Slaves), Keep(gone), list)
  <2> SUFFICES ASSUME NEW i \in 0 .. n - 1, NEW l \in Seq(Slaves), <<i, l>> \in T
               PROVE  <<i + 1, Keep(gone)[<<l, list[i + 1]>>]>> \in T
    BY DEF Inductive
  <2>1. Kept(Keep(gone)[<<l, list[i + 1]>>], list, i + 1, gone) /\ i + 1 \in 0 .. n
    BY <1>1, <1>4
  <2>2. Keep(gone)[<<l, list[i + 1]>>] \in Seq(Slaves)
    BY <2>1 DEF Kept
  <2> QED BY <2>1, <2>2
<1> HIDE DEF T
<1>6. <<n, Result(Keep(gone), <<>>, list)>> \in T
  <2>1. Stays(Keep(gone), Seq(Slaves), Slaves)
    BY KeepType
  <2> QED BY <1>1, <1>3, <1>5, <2>1, ResultInduct
<1> QED BY <1>6, WithoutFold DEF T

-----------------------------------------------------------------------------
(* While the file is sent to a slave, some of it is left. *)
Sending == \A s \in Slaves : replstate[s] = "send_bulk" => bulk[s].left # 0
Types == TypeOK /\ Sending

(* What the slaves are fed are commands. *)
LEMMA FeedType ==
  ASSUME TypeOK, NEW d \in Dbs, NEW op \in Messages, replicationFeedSlaves(d, op)
  PROVE  reply' \in [Slaves -> Seq(Messages)] /\ slaveseldb' \in [Slaves -> Dbs]
<1>1. slaveseldb' \in [Slaves -> Dbs]
  BY DEF replicationFeedSlaves, TypeOK
<1>2. ASSUME NEW s \in Slaves
      PROVE  reply[s] \o (IF slaveseldb[s] # d THEN <<Select(d), op>> ELSE <<op>>)
               \in Seq(Messages)
  <2>1. Select(d) \in Messages /\ reply[s] \in Seq(Messages)
    BY DEF Messages, TypeOK
  <2>2. <<Select(d), op>> \in Seq(Messages) /\ <<op>> \in Seq(Messages)
    BY <2>1
  <2> QED BY <2>1, <2>2
<1>3. reply' \in [Slaves -> Seq(Messages)]
  BY <1>2 DEF replicationFeedSlaves, TypeOK
<1> QED BY <1>1, <1>3

(* The first of those that wait for the BGSAVE to end is one of them. *)
LEMMA MinWaiting ==
  ASSUME TypeOK, Waiting # {}
  PROVE  Min(Waiting) \in DOMAIN slaves /\ slaves[Min(Waiting)] \in In("wait_end")
<1>1. Waiting \in SUBSET Nat
  <2>1. DOMAIN slaves = 1 .. Len(slaves) /\ Len(slaves) \in Nat
    BY DEF TypeOK
  <2> QED BY <2>1 DEF Waiting
<1>2. \E x \in Waiting : \A y \in Waiting : x <= y
  BY <1>1, LeastNat
<1>3. Min(Waiting) \in Waiting
  BY <1>2 DEF Min
<1> HIDE DEF Min
<1> QED BY <1>3 DEF Waiting, TypeOK, In

(* The initial state has the types. *)
LEMMA InitType == Init => Types
<1> SUFFICES ASSUME Init PROVE Types
  OBVIOUS
<1> USE RedisSyncAssumption DEF Init
<1>1. Empty \in Data
  BY DEF Empty, Data
<1>2. NoBulk \in [data : Data, left : 0 .. Chunks] /\ NoFile \in [exists : BOOLEAN, data : Data]
  BY <1>1 DEF NoBulk, NoFile
<1>3. Fresh(Empty) \in [data : [Dbs -> Nat], db : Dbs]
  BY <1>1 DEF Fresh, Data
<1> QED BY <1>1, <1>2, <1>3 DEF Types, TypeOK, Sending

(* Every step preserves the types. *)
LEMMA NextType == Types /\ [Next]_vars => Types'
<1> SUFFICES ASSUME Types, [Next]_vars PROVE Types'
  OBVIOUS
<1> USE RedisSyncAssumption
<1>a. TypeOK /\ Sending
  BY DEF Types
<1>b. Empty \in Data /\ Incr \in Messages /\ FlushAll \in Messages
  BY DEF Empty, Data, Messages
<1>c. \A x \in Data : /\ x \in [Dbs -> Nat]
                      /\ File(x) \in [exists : BOOLEAN, data : Data]
                      /\ Fresh(x) \in [data : [Dbs -> Nat], db : Dbs]
  BY DEF Data, File, Fresh
<1>d. NoBulk \in [data : Data, left : 0 .. Chunks]
  BY <1>b DEF NoBulk
<1>1. ASSUME NEW d \in Dbs, Write(d) PROVE Types'
  <2>1. data' \in Data
    BY <1>1, <1>a DEF Write, TypeOK, Data
  <2> QED BY <1>1, <1>a, <1>b, <2>1, FeedType DEF Write, Types, TypeOK, Sending
<1>2. ASSUME NEW d \in Dbs, flushallCommand(d) PROVE Types'
  BY <1>2, <1>a, <1>b, <1>c, FeedType DEF flushallCommand, Types, TypeOK, Sending
<1>3. CASE bgsaveCommand
  BY <1>3, <1>a DEF bgsaveCommand, Forks, sync, Types, TypeOK, Sending
<1>4. CASE saveCommand
  BY <1>4, <1>a, <1>c DEF saveCommand, sync, Types, TypeOK, Sending
<1>5. CASE ChildExits
  BY <1>5, <1>a, <1>b, <1>c DEF ChildExits, sync, Types, TypeOK, Sending
<1>6. CASE ChildKilled
  BY <1>6, <1>a, <1>b DEF ChildKilled, Types, TypeOK, Sending
<1>7. CASE backgroundSaveDoneHandler
  <2>1. /\ Freed(Gone, NewStates)
        /\ bulk' = [s \in Slaves |->
             IF s \in Ready THEN [data |-> rdb.data, left |-> Chunks]
             ELSE IF s \in Gone THEN NoBulk ELSE bulk[s]]
        /\ UNCHANGED <<data, rdb>>
    BY <1>7, DoneParts
  <2>2. /\ child' \in {"none", "saving"} /\ snapshot' \in {snapshot, data}
        /\ spoiled' \in [Slaves -> BOOLEAN]
    BY <1>7, <1>a, DoneParts DEF Forks, TypeOK
  <2>3. NewStates \in [Slaves -> States] /\ rdb.data \in Data
    BY <1>a DEF TypeOK, States, NewStates
  <2>4. \A s \in Slaves : (IF s \in Gone THEN "none" ELSE NewStates[s]) = "send_bulk" =>
          s \in Ready \/ (s \notin Gone /\ replstate[s] = "send_bulk")
    BY DEF In, Ready, Gone, NewStates
  <2>5. slaves' \in Seq(Slaves)
    BY <1>a, <2>1, WithoutKeeps DEF Freed, TypeOK, Kept
  <2>6. /\ replstate' \in [Slaves -> States]
        /\ slaveseldb' \in [Slaves -> Dbs]
        /\ reply' \in [Slaves -> Seq(Messages)]
    BY <1>a, <2>1, <2>3 DEF Freed, TypeOK, States
  <2>7. replica' \in [Slaves -> [data : [Dbs -> Nat], db : Dbs]]
    BY <1>a, <1>b, <1>c, <2>1 DEF Freed, TypeOK
  <2>8. bulk' \in [Slaves -> [data : Data, left : 0 .. Chunks]]
    BY <1>a, <1>d, <2>1, <2>3 DEF TypeOK
  <2>9. Sending'
    BY <1>a, <2>1, <2>4 DEF Sending, Freed, TypeOK
  <2> QED BY <1>a, <2>1, <2>2, <2>5, <2>6, <2>7, <2>8, <2>9 DEF Types, TypeOK, States
<1>8. ASSUME NEW s \in Slaves, syncCommand(s) PROVE Types'
  <2>1. slaves' \in Seq(Slaves) /\ slaveseldb' \in [Slaves -> Dbs]
    BY <1>8, <1>a DEF syncCommand, TypeOK
  <2>2. reply' \in [Slaves -> Seq(Messages)] /\ spoiled' \in [Slaves -> BOOLEAN]
    <3>1. CASE Waiting # {} /\ child # "none"
      <4> DEFINE other == slaves[Min(Waiting)]
      <4>1. other \in Slaves
        BY <1>a, <3>1, MinWaiting DEF In
      <4>2. /\ reply' = [reply EXCEPT ![s] = reply[other]]
            /\ spoiled' = [spoiled EXCEPT ![s] = spoiled[other] \/ slaveseldb[other] # 0]
        BY <1>8, <3>1 DEF syncCommand
      <4> HIDE DEF other
      <4> QED BY <1>a, <4>1, <4>2 DEF TypeOK
    <3>2. CASE ~(Waiting # {} /\ child # "none")
      BY <1>8, <1>a, <3>2 DEF syncCommand, TypeOK
    <3> QED BY <3>1, <3>2
  <2>3. /\ child' \in {child, "saving"} /\ snapshot' \in {snapshot, data}
        /\ \E state \in {"wait_start", "wait_end"} : replstate' = [replstate EXCEPT ![s] = state]
        /\ UNCHANGED <<data, rdb, bulk, replica>>
    BY <1>8 DEF syncCommand, Forks
  <2>4. /\ replstate' \in [Slaves -> States]
        /\ \A x \in Slaves : replstate'[x] = "send_bulk" => replstate[x] = "send_bulk"
    BY <1>a, <2>3 DEF TypeOK, States
  <2>5. Sending'
    BY <1>a, <2>3, <2>4 DEF Sending
  <2> QED BY <1>a, <2>1, <2>2, <2>3, <2>4, <2>5 DEF Types, TypeOK, States
<1>9. ASSUME NEW s \in Slaves, sendBulkToSlave(s) PROVE Types'
  <2>1. bulk[s].left \in 1 .. Chunks /\ bulk[s].data \in Data
    BY <1>9, <1>a DEF sendBulkToSlave, Sending, TypeOK
  <2>2. CASE bulk[s].left = 1
    <3>1. /\ bulk' = [bulk EXCEPT ![s] = NoBulk]
          /\ replstate' = [replstate EXCEPT ![s] = "online"]
          /\ replica' = [replica EXCEPT ![s] = Fresh(bulk[s].data)]
      BY <1>9, <2>2 DEF sendBulkToSlave
    <3>2. /\ bulk' \in [Slaves -> [data : Data, left : 0 .. Chunks]]
          /\ replica' \in [Slaves -> [data : [Dbs -> Nat], db : Dbs]]
      BY <1>a, <1>c, <1>d, <2>1, <3>1 DEF TypeOK
    <3>3. replstate' \in [Slaves -> States] /\ Sending'
      BY <1>a, <3>1 DEF TypeOK, States, Sending
    <3> QED BY <1>9, <1>a, <3>2, <3>3 DEF sendBulkToSlave, Types, TypeOK, States
  <2>3. CASE bulk[s].left # 1
    <3> DEFINE b == [bulk[s] EXCEPT !.left = @ - 1]
    <3>1. bulk' = [bulk EXCEPT ![s] = b] /\ UNCHANGED <<replstate, replica>>
      BY <1>9, <2>3 DEF sendBulkToSlave
    <3>2. b \in [data : Data, left : 0 .. Chunks] /\ b.left # 0
      <4>1. bulk[s] \in [data : Data, left : 0 .. Chunks] /\ bulk[s].left - 1 \in 1 .. Chunks
        BY <1>a, <2>1, <2>3 DEF TypeOK
      <4>2. ASSUME NEW x \in [data : Data, left : 0 .. Chunks], NEW n \in 1 .. Chunks
            PROVE  LET y == [x EXCEPT !.left = n]
                   IN y \in [data : Data, left : 0 .. Chunks] /\ y.left # 0
        OBVIOUS
      <4> QED BY <4>1, <4>2
    <3> HIDE DEF b
    <3>3. bulk' \in [Slaves -> [data : Data, left : 0 .. Chunks]] /\ Sending'
      BY <1>a, <3>1, <3>2 DEF TypeOK, Sending
    <3> QED BY <1>9, <1>a, <3>1, <3>3 DEF sendBulkToSlave, Types, TypeOK
  <2> QED BY <2>2, <2>3
<1>10. ASSUME NEW s \in Slaves, sendReplyToClient(s) PROVE Types'
  <2>1. Head(reply[s]) \in Messages /\ Tail(reply[s]) \in Seq(Messages) /\ replica[s] \in Replicas
    BY <1>10, <1>a DEF sendReplyToClient, TypeOK, Replicas
  <2>2. Applied(replica[s], Head(reply[s])) \in Replicas
    BY <2>1, AppliedType
  <2>3. reply' \in [Slaves -> Seq(Messages)] /\ replica' \in [Slaves -> Replicas]
    BY <1>10, <1>a, <2>1, <2>2 DEF sendReplyToClient, TypeOK, Replicas
  <2> QED BY <1>10, <1>a, <2>3 DEF sendReplyToClient, Types, TypeOK, Sending, Replicas
<1>11. ASSUME NEW s \in Slaves, freeClient(s) PROVE Types'
  <2>1. slaves' \in Seq(Slaves)
    BY <1>11, <1>a, WithoutKeeps DEF freeClient, Freed, TypeOK, Kept
  <2>2. /\ replstate' \in [Slaves -> States]
        /\ slaveseldb' \in [Slaves -> Dbs]
        /\ reply' \in [Slaves -> Seq(Messages)]
    BY <1>11, <1>a DEF freeClient, Freed, TypeOK, States
  <2>3. replica' \in [Slaves -> [data : [Dbs -> Nat], db : Dbs]]
    BY <1>11, <1>a, <1>b, <1>c DEF freeClient, Freed, TypeOK
  <2>4. bulk' \in [Slaves -> [data : Data, left : 0 .. Chunks]] /\ Sending'
    BY <1>11, <1>a, <1>d DEF freeClient, Freed, TypeOK, Sending
  <2> QED BY <1>11, <1>a, <2>1, <2>2, <2>3, <2>4 DEF freeClient, Types, TypeOK, States
<1>12. CASE UNCHANGED vars
  BY <1>12, <1>a DEF vars, Types, TypeOK, Sending
<1> QED BY <1>1, <1>2, <1>3, <1>4, <1>5, <1>6, <1>7, <1>8, <1>9, <1>10, <1>11,
           <1>12 DEF Next

(* Every variable has its type: in particular the count of the pieces left *)
(* stays in its range, and a slave has a counter for each database.        *)
THEOREM TypeCorrect == Spec => []TypeOK
<1>1. Types => TypeOK
  BY DEF Types
<1> QED BY InitType, NextType, <1>1, PTL DEF Spec

-----------------------------------------------------------------------------
(* SlavesAreListed, said of any list and states. *)
Listed(l, states) ==
  /\ OnceEach(l)
  /\ \A s \in Slaves : (\E i \in DOMAIN l : l[i] = s) <=> states[s] # "none"

(* The places on a list after one more was added. *)
LEMMA AppendPositions ==
  ASSUME NEW S, NEW l \in Seq(S), NEW s \in S
  PROVE  /\ DOMAIN Append(l, s) = DOMAIN l \cup {Len(l) + 1}
         /\ Len(l) + 1 \notin DOMAIN l
         /\ Append(l, s)[Len(l) + 1] = s
         /\ \A i \in DOMAIN l : Append(l, s)[i] = l[i]
  OBVIOUS

(* What a slave has after it has loaded a file. *)
LEMMA FreshType ==
  /\ \A x \in Data : x \in [Dbs -> Nat]
  /\ \A x \in [Dbs -> Nat] : /\ Fresh(x) \in Replicas
                             /\ Fresh(x).db = 0 /\ Fresh(x).data = x
  BY RedisSyncAssumption DEF Data, Fresh, Replicas

(* The two ways to say it are the same. *)
LEMMA ListedOnce ==
  ASSUME NEW l \in Seq(Slaves), NEW states
  PROVE  (\A s \in Slaves :
            IF states[s] = "none" THEN \A i \in DOMAIN l : l[i] # s
            ELSE \E i \in DOMAIN l : \A j \in DOMAIN l : l[j] = s <=> j = i)
         <=> Listed(l, states)
<1>1. \A i \in DOMAIN l : l[i] \in Slaves
  OBVIOUS
<1> QED BY <1>1 DEF Listed, OnceEach

(* freeClient takes those it frees off the list. *)
LEMMA FreedListed ==
  ASSUME TypeOK, Listed(slaves, replstate), NEW gone, NEW states, Freed(gone, states),
         \A s \in Slaves \ gone : states[s] = "none" <=> replstate[s] = "none"
  PROVE  Listed(slaves', replstate')
<1>1. slaves \in Seq(Slaves) /\ DOMAIN slaves = 1 .. Len(slaves)
  BY DEF TypeOK
<1>2. Kept(slaves', slaves, Len(slaves), gone)
  BY <1>1, WithoutKeeps DEF Freed
<1>3. \A s \in Slaves : replstate'[s] = IF s \in gone THEN "none" ELSE states[s]
  BY DEF Freed
<1>4. OnceEach(slaves')
  BY <1>2 DEF Kept, Listed
<1>5. ASSUME NEW s \in Slaves
      PROVE  (\E i \in DOMAIN slaves' : slaves'[i] = s) <=> replstate'[s] # "none"
  <2>1. (\E i \in DOMAIN slaves' : slaves'[i] = s)
           <=> s \notin gone /\ \E i \in DOMAIN slaves : slaves[i] = s
    BY <1>1, <1>2 DEF Kept
  <2>2. replstate'[s] # "none" <=> s \notin gone /\ replstate[s] # "none"
    BY <1>3
  <2> QED BY <2>1, <2>2 DEF Listed
<1> QED BY <1>4, <1>5 DEF Listed

(* Every step keeps the list right. *)
LEMMA NextListed ==
  ASSUME TypeOK, Listed(slaves, replstate), [Next]_vars
  PROVE  Listed(slaves', replstate')
<1>1. ASSUME UNCHANGED <<slaves, replstate>> PROVE Listed(slaves', replstate')
  BY <1>1
<1>2. CASE backgroundSaveDoneHandler
  <2>1. Freed(Gone, NewStates)
    BY <1>2, DoneParts
  <2>2. \A s \in Slaves \ Gone : NewStates[s] = "none" <=> replstate[s] = "none"
    BY DEF In, Ready, Gone, NewStates
  <2> QED BY <2>1, <2>2, FreedListed
<1>3. ASSUME NEW s \in Slaves, syncCommand(s) PROVE Listed(slaves', replstate')
  <2>1. /\ slaves' = Append(slaves, s) /\ replstate[s] = "none"
        /\ \E state \in {"wait_start", "wait_end"} : replstate' = [replstate EXCEPT ![s] = state]
    BY <1>3 DEF syncCommand
  <2>2. \A x \in Slaves : replstate'[x] = "none" <=> replstate[x] = "none" /\ x # s
    BY <2>1 DEF TypeOK
  <2>3. /\ DOMAIN slaves' = DOMAIN slaves \cup {Len(slaves) + 1}
        /\ Len(slaves) + 1 \notin DOMAIN slaves
        /\ slaves'[Len(slaves) + 1] = s
        /\ \A i \in DOMAIN slaves : slaves'[i] = slaves[i]
    BY <2>1, AppendPositions DEF TypeOK
  <2>4. \A i \in DOMAIN slaves : slaves[i] # s
    BY <2>1 DEF Listed
  <2> QED BY <2>2, <2>3, <2>4 DEF Listed, OnceEach
<1>4. ASSUME NEW s \in Slaves, sendBulkToSlave(s) PROVE Listed(slaves', replstate')
  <2>1. slaves' = slaves /\ \A x \in Slaves : replstate'[x] = "none" <=> replstate[x] = "none"
    BY <1>4 DEF sendBulkToSlave, TypeOK
  <2> QED BY <2>1 DEF Listed
<1>5. ASSUME NEW s \in Slaves, freeClient(s) PROVE Listed(slaves', replstate')
  BY <1>5, FreedListed DEF freeClient
<1> QED BY <1>1, <1>2, <1>3, <1>4, <1>5
        DEF Next, vars, sync, Write, flushallCommand, bgsaveCommand, saveCommand, ChildExits,
            ChildKilled, sendReplyToClient

(* A slave is on the list of slaves, once, from SYNC until freeClient,     *)
(* which finds it there (networking.c:613).                                *)
THEOREM SlavesListedOnce == Spec => []SlavesAreListed
<1> DEFINE I == Types /\ Listed(slaves, replstate)
<1>1. Init => I
  BY InitType DEF Init, Listed, OnceEach
<1>2. I /\ [Next]_vars => I'
  BY NextType, NextListed DEF Types
<1>3. I => SlavesAreListed
  BY ListedOnce DEF Types, TypeOK, SlavesAreListed
<1> QED BY <1>1, <1>2, <1>3, PTL DEF Spec

-----------------------------------------------------------------------------
(* What a slave is to have: the master's data, and the database that the   *)
(* master believes to be selected.                                         *)
Now(s) == [data |-> data, db |-> slaveseldb[s]]

(* b may be what the slave will apply its buffer to: the data of the child *)
(* that saves, of the file, any data at all if FLUSHALL killed the child,  *)
(* the file being sent, or what the slave already has.                     *)
Base(s, b) ==
  \/ replstate[s] = "wait_end" /\ child = "saving" /\ b = Fresh(snapshot)
  \/ replstate[s] = "wait_end" /\ child = "saved" /\ b = Fresh(rdb.data)
  \/ replstate[s] = "wait_end" /\ child = "killed" /\ \E x \in [Dbs -> Nat] : b = Fresh(x)
  \/ replstate[s] = "send_bulk" /\ b = Fresh(bulk[s].data)
  \/ replstate[s] = "online" /\ b = replica[s]

(* Whatever it is, the buffer makes it what the slave is to have. *)
Agreeing ==
  \A s \in Slaves : ~spoiled[s] =>
    \A b \in Replicas : Base(s, b) => Fold(b, reply[s]) = Now(s)

(* Nothing is collected for a slave before the BGSAVE is forked. *)
Idle ==
  \A s \in Slaves : replstate[s] \in {"none", "wait_start"} =>
    reply[s] = <<>> /\ slaveseldb[s] = 0

SyncInv == Types /\ Inv /\ Idle /\ Agreeing

(* The invariant implies what is to be proved. *)
LEMMA AgreeingSlaves == SyncInv => SlaveWillAgree
<1> SUFFICES ASSUME SyncInv, NEW s \in Slaves,
                    replstate[s] \in {"send_bulk", "online"}, ~spoiled[s]
             PROVE  Drained(s) = [data |-> data, db |-> slaveseldb[s]]
  BY DEF SlaveWillAgree
<1> DEFINE b == IF replstate[s] = "send_bulk" THEN Fresh(bulk[s].data) ELSE replica[s]
<1>1. b \in Replicas
  <2>1. bulk[s].data \in Data /\ replica[s] \in Replicas
    BY DEF SyncInv, Types, TypeOK, Replicas
  <2> QED BY <2>1, FreshType
<1>2. Base(s, b)
  BY DEF Base
<1>3. Drained(s) = Fold(b, reply[s])
  BY DEF Drained, Fold
<1> HIDE DEF b
<1> QED BY <1>1, <1>2, <1>3 DEF SyncInv, Agreeing, Now

(* Every step preserves Idle. *)
LEMMA NextIdle ==
  ASSUME Types, Idle, [Next]_vars
  PROVE  Idle'
<1>1. ASSUME UNCHANGED <<replstate, reply, slaveseldb>> PROVE Idle'
  BY <1>1 DEF Idle
<1>2. ASSUME NEW d, NEW op, replicationFeedSlaves(d, op), UNCHANGED replstate PROVE Idle'
  BY <1>2 DEF replicationFeedSlaves, In, Idle
<1>3. CASE backgroundSaveDoneHandler
  <2>1. Freed(Gone, NewStates)
    BY <1>3, DoneParts
  <2>2. \A s \in Slaves : NewStates[s] \in {"none", "wait_start"} => NewStates[s] = replstate[s]
    BY DEF NewStates
  <2> QED BY <2>1, <2>2 DEF Idle, Freed
<1>4. ASSUME NEW s \in Slaves, syncCommand(s) PROVE Idle'
  <2>1. CASE child # "none" /\ Waiting # {}
    <3>1. replstate' = [replstate EXCEPT ![s] = "wait_end"]
      BY <1>4, <2>1 DEF syncCommand
    <3>2. \A x \in Slaves : x # s => reply'[x] = reply[x] /\ slaveseldb'[x] = slaveseldb[x]
      BY <1>4, <2>1 DEF syncCommand, Types, TypeOK
    <3> QED BY <3>1, <3>2 DEF Idle, Types, TypeOK
  <2>2. CASE ~(child # "none" /\ Waiting # {})
    <3>1. replstate[s] = "none" /\ reply' = reply /\ slaveseldb' = [slaveseldb EXCEPT ![s] = 0]
      BY <1>4, <2>2 DEF syncCommand
    <3>2. \E state : replstate' = [replstate EXCEPT ![s] = state]
      BY <1>4, <2>2 DEF syncCommand
    <3> QED BY <3>1, <3>2 DEF Idle, Types, TypeOK
  <2> QED BY <2>1, <2>2
<1>5. ASSUME NEW s \in Slaves, sendBulkToSlave(s) PROVE Idle'
  BY <1>5 DEF sendBulkToSlave, Idle, Types, TypeOK
<1>6. ASSUME NEW s \in Slaves, sendReplyToClient(s) PROVE Idle'
  BY <1>6 DEF sendReplyToClient, Idle, Types, TypeOK
<1>7. ASSUME NEW s \in Slaves, freeClient(s) PROVE Idle'
  BY <1>7 DEF freeClient, Freed, Idle
<1> QED BY <1>1, <1>2, <1>3, <1>4, <1>5, <1>6, <1>7
        DEF Next, vars, sync, Write, flushallCommand, bgsaveCommand, saveCommand, ChildExits,
            ChildKilled

(* A step that neither feeds the slave nor changes the data. *)
LEMMA AgreeingFrame ==
  ASSUME SyncInv, NEW s \in Slaves, NEW b \in Replicas, ~spoiled[s], Base(s, b),
         reply'[s] = reply[s], slaveseldb'[s] = slaveseldb[s], data' = data
  PROVE  Fold(b, reply'[s]) = Now(s)'
  BY DEF SyncInv, Agreeing, Now

(* What a modification makes of a slave that is fed with it. *)
LEMMA AgreeingFed ==
  ASSUME SyncInv, NEW s \in Slaves, NEW d \in Dbs, NEW op \in Messages,
         replicationFeedSlaves(d, op), NEW b \in Replicas,
         replstate[s] \in {"wait_end", "send_bulk", "online"},
         Fold(b, reply[s]).db = slaveseldb[s]
  PROVE  /\ Fold(b, reply'[s]) = Applied([Fold(b, reply[s]) EXCEPT !.db = d], op)
         /\ slaveseldb'[s] = d
<1>1. reply[s] \in Seq(Messages)
  BY DEF SyncInv, Types, TypeOK
<1>2. reply'[s] = reply[s] \o Fed(slaveseldb[s], d, op) /\ slaveseldb'[s] = d
  BY DEF replicationFeedSlaves, In, Fed
<1> QED BY <1>1, <1>2, FedFold

(* Every step preserves Agreeing. *)
LEMMA NextAgreeing ==
  ASSUME SyncInv, [Next]_vars
  PROVE  Agreeing'
<1> SUFFICES ASSUME NEW x \in Slaves, ~spoiled'[x], NEW b \in Replicas, Base(x, b)'
             PROVE  Fold(b, reply'[x]) = Now(x)'
  BY DEF Agreeing
<1>a. TypeOK
  BY DEF SyncInv, Types
<1>b. Base(x, b) => replstate[x] \in {"wait_end", "send_bulk", "online"}
  BY DEF Base
<1>c. ASSUME UNCHANGED <<data, reply, slaveseldb, spoiled>>, Base(x, b)
      PROVE  Fold(b, reply'[x]) = Now(x)'
  BY <1>c, AgreeingFrame
<1>1. ASSUME NEW d \in Dbs, Write(d) PROVE Fold(b, reply'[x]) = Now(x)'
  <2>1. Base(x, b) /\ ~spoiled[x]
    BY <1>1 DEF Write, Base
  <2>2. Fold(b, reply[x]) = Now(x) /\ Incr \in Messages
    BY <2>1 DEF SyncInv, Agreeing, Messages
  <2>3. Fold(b, reply[x]).db = slaveseldb[x]
    BY <2>2 DEF Now
  <2>4. Fold(b, reply'[x]) = Applied([Now(x) EXCEPT !.db = d], Incr) /\ slaveseldb'[x] = d
    BY <1>1, <1>b, <2>1, <2>2, <2>3, AgreeingFed DEF Write
  <2>5. Applied([Now(x) EXCEPT !.db = d], Incr) = [data |-> [data EXCEPT ![d] = @ + 1], db |-> d]
    <3>1. Applied([data |-> data, db |-> d], Incr) = [data |-> [data EXCEPT ![d] = @ + 1], db |-> d]
      BY DEF Applied, Incr
    <3> QED BY <3>1 DEF Now
  <2> QED BY <1>1, <2>4, <2>5 DEF Write, Now
<1>2. ASSUME NEW d \in Dbs, flushallCommand(d) PROVE Fold(b, reply'[x]) = Now(x)'
  <2>1. ~spoiled[x] /\ UNCHANGED <<replstate, bulk, replica>> /\ replicationFeedSlaves(d, FlushAll)
    BY <1>2 DEF flushallCommand
  <2>2. PICK c \in Replicas : Base(x, c) /\ c.db = b.db
    <3>1. CASE replstate[x] = "wait_end"
      <4>1. b.db = 0
        <5>1. \E y \in [Dbs -> Nat] : b = Fresh(y)
          BY <1>a, <2>1, <3>1, NextType, FreshType DEF Base, SyncInv, Types, TypeOK
        <5> QED BY <5>1, FreshType
      <4>2. CASE child = "saving"
        <5>1. Base(x, Fresh(snapshot)) /\ snapshot \in Data
          BY <1>a, <3>1, <4>2 DEF Base, TypeOK
        <5> QED BY <4>1, <5>1, FreshType
      <4>3. CASE child = "saved"
        <5>1. Base(x, Fresh(rdb.data)) /\ rdb.data \in Data
          BY <1>a, <3>1, <4>3 DEF Base, TypeOK
        <5> QED BY <4>1, <5>1, FreshType
      <4>4. CASE child \notin {"saving", "saved"}
        <5>1. Base(x, b)
          BY <1>2, <2>1, <3>1, <4>4 DEF flushallCommand, Base
        <5> QED BY <5>1
      <4> QED BY <4>2, <4>3, <4>4
    <3>2. CASE replstate[x] # "wait_end"
      BY <2>1, <3>2 DEF Base
    <3> QED BY <3>1, <3>2
  <2>3. reply[x] \in Seq(Messages) /\ FlushAll \in Messages
    BY <1>a DEF TypeOK, Messages
  <2>4. Fold(b, reply[x]).db = slaveseldb[x] /\ Fold(b, reply[x]) \in Replicas
    <3>1. Fold(c, reply[x]) = Now(x)
      BY <2>1, <2>2 DEF SyncInv, Agreeing
    <3>2. Fold(b, reply[x]).db = Fold(c, reply[x]).db
      BY <2>2, <2>3, DbOnly
    <3> QED BY <2>3, <3>1, <3>2, FoldFact DEF Now
  <2>5. replstate[x] \in {"wait_end", "send_bulk", "online"}
    BY <2>2 DEF Base
  <2>6. /\ Fold(b, reply'[x]) = Applied([Fold(b, reply[x]) EXCEPT !.db = d], FlushAll)
        /\ slaveseldb'[x] = d
    BY <2>1, <2>3, <2>4, <2>5, AgreeingFed
  <2>7. ASSUME NEW r \in Replicas
        PROVE  Applied([r EXCEPT !.db = d], FlushAll) = [data |-> Empty, db |-> d]
    BY DEF Applied, FlushAll, Replicas
  <2> QED BY <1>2, <2>4, <2>6, <2>7 DEF flushallCommand, Now
<1>3. CASE bgsaveCommand
  <2>1. Base(x, b)
    BY <1>3 DEF bgsaveCommand, Forks, sync, Base, SyncInv, Inv, WaitersHaveChild
  <2> QED BY <1>3, <1>c, <2>1 DEF bgsaveCommand, sync
<1>4. CASE saveCommand
  <2>1. Base(x, b)
    BY <1>4 DEF saveCommand, sync, Base
  <2> QED BY <1>4, <1>c, <2>1 DEF saveCommand, sync
<1>5. CASE ChildExits
  <2>1. Base(x, b)
    BY <1>5 DEF ChildExits, sync, Base, File
  <2> QED BY <1>5, <1>c, <2>1 DEF ChildExits, sync
<1>6. CASE ChildKilled
  <2>1. Base(x, b) /\ ~spoiled[x]
    BY <1>6 DEF ChildKilled, Base
  <2> QED BY <1>6, <2>1, AgreeingFrame DEF ChildKilled
<1>7. CASE backgroundSaveDoneHandler
  <2>1. /\ Freed(Gone, NewStates)
        /\ bulk' = [s \in Slaves |->
             IF s \in Ready THEN [data |-> rdb.data, left |-> Chunks]
             ELSE IF s \in Gone THEN NoBulk ELSE bulk[s]]
        /\ UNCHANGED <<data, rdb>>
        /\ child \in {"saved", "failed", "killed"}
    BY <1>7, DoneParts
  <2>2. /\ child' \in {"saving", "none"}
        /\ child' = "saving" => snapshot' = data
        /\ spoiled'[x] = (spoiled[x] /\ x \notin Gone) \/ spoiled'[x] = TRUE
    BY <1>7, DoneParts DEF Forks
  <2>3. x \notin Gone
    BY <2>1 DEF Freed, Base
  <2>4. /\ replstate'[x] = NewStates[x] /\ slaveseldb'[x] = slaveseldb[x]
        /\ reply'[x] = reply[x] /\ replica'[x] = replica[x] /\ ~spoiled[x]
    BY <2>1, <2>2, <2>3 DEF Freed
  <2>5. CASE x \in Ready
    <3>1. b = Fresh(rdb.data) /\ child \in {"saved", "killed"} /\ replstate[x] = "wait_end"
      BY <2>1, <2>4, <2>5 DEF Base, In, Ready, NewStates
    <3>2. Base(x, b)
      BY <1>a, <3>1, FreshType DEF Base, TypeOK
    <3> QED BY <2>1, <2>4, <3>2, AgreeingFrame
  <2>6. CASE x \in In("wait_start")
    <3>1. replstate[x] = "wait_start"
      BY <2>6 DEF In
    <3>2. NewStates[x] = "wait_end"
      BY <3>1 DEF In, Ready, NewStates
    <3>3. b = Fresh(data)
      BY <2>2, <2>4, <3>2 DEF Base
    <3>4. reply[x] = <<>> /\ slaveseldb[x] = 0
      BY <3>1 DEF SyncInv, Idle
    <3>5. Fold(b, reply'[x]) = b
      BY <2>4, <3>4, FoldFact
    <3> QED BY <2>1, <2>4, <3>3, <3>4, <3>5 DEF Now, Fresh
  <2>7. CASE x \notin Ready /\ x \notin In("wait_start")
    <3>1. NewStates[x] = replstate[x] /\ bulk'[x] = bulk[x] /\ replstate[x] # "wait_end"
      BY <2>1, <2>3, <2>7 DEF In, Gone, NewStates
    <3>2. Base(x, b)
      BY <2>4, <3>1 DEF Base
    <3> QED BY <2>1, <2>4, <3>2, AgreeingFrame
  <2> QED BY <2>5, <2>6, <2>7
<1>8. ASSUME NEW s \in Slaves, syncCommand(s) PROVE Fold(b, reply'[x]) = Now(x)'
  <2>1. replstate[s] = "none" /\ UNCHANGED <<data, rdb, bulk, replica>>
        /\ slaveseldb' = [slaveseldb EXCEPT ![s] = 0]
    BY <1>8 DEF syncCommand
  <2>2. CASE x # s
    <3>1. /\ replstate'[x] = replstate[x] /\ reply'[x] = reply[x] /\ spoiled'[x] = spoiled[x]
          /\ slaveseldb'[x] = slaveseldb[x]
      BY <1>8, <1>a, <2>2 DEF syncCommand, TypeOK
    <3>2. (child' = child /\ snapshot' = snapshot) \/ child = "none"
      BY <1>8 DEF syncCommand
    <3>3. Base(x, b)
      BY <2>1, <3>1, <3>2 DEF Base, SyncInv, Inv, WaitersHaveChild
    <3> QED BY <2>1, <3>1, <3>3, AgreeingFrame
  <2>3. CASE x = s
    <3>1. slaveseldb'[x] = 0
      BY <1>a, <2>1, <2>3 DEF TypeOK
    <3>2. CASE child # "none" /\ Waiting # {}
      <4> DEFINE other == slaves[Min(Waiting)]
      <4>1. other \in Slaves /\ replstate[other] = "wait_end"
        BY <1>a, <3>2, MinWaiting DEF In
      <4>2. /\ reply' = [reply EXCEPT ![s] = reply[other]]
            /\ spoiled' = [spoiled EXCEPT ![s] = spoiled[other] \/ slaveseldb[other] # 0]
            /\ replstate' = [replstate EXCEPT ![s] = "wait_end"]
            /\ UNCHANGED <<child, snapshot>>
        BY <1>8, <3>2 DEF syncCommand
      <4> HIDE DEF other
      <4>3. reply'[x] = reply[other] /\ ~spoiled[other] /\ slaveseldb[other] = 0
            /\ replstate'[x] = "wait_end"
        BY <1>a, <2>3, <4>1, <4>2 DEF TypeOK
      <4>4. Base(other, b)
        BY <2>1, <4>1, <4>2, <4>3 DEF Base
      <4>5. Fold(b, reply[other]) = Now(other)
        BY <4>1, <4>3, <4>4 DEF SyncInv, Agreeing
      <4> QED BY <2>1, <3>1, <4>3, <4>5 DEF Now
    <3>3. CASE child # "none" /\ Waiting = {}
      <4>1. replstate'[x] = "wait_start"
        BY <1>8, <1>a, <2>3, <3>3 DEF syncCommand, TypeOK
      <4> QED BY <4>1 DEF Base
    <3>4. CASE child = "none"
      <4>1. replstate'[x] = "wait_end" /\ child' = "saving" /\ snapshot' = data /\ reply' = reply
        BY <1>8, <1>a, <2>3, <3>4 DEF syncCommand, TypeOK, Forks
      <4>2. b = Fresh(data) /\ reply'[x] = <<>>
        BY <2>1, <2>3, <4>1 DEF Base, SyncInv, Idle
      <4>3. Fold(b, reply'[x]) = b
        BY <4>2, FoldFact
      <4> QED BY <2>1, <3>1, <4>2, <4>3 DEF Now, Fresh
    <3> QED BY <3>2, <3>3, <3>4
  <2> QED BY <2>2, <2>3
<1>9. ASSUME NEW s \in Slaves, sendBulkToSlave(s) PROVE Fold(b, reply'[x]) = Now(x)'
  <2>1. Base(x, b)
    <3>1. CASE bulk[s].left = 1
      <4>1. /\ bulk' = [bulk EXCEPT ![s] = NoBulk]
            /\ replstate' = [replstate EXCEPT ![s] = "online"]
            /\ replica' = [replica EXCEPT ![s] = Fresh(bulk[s].data)]
            /\ UNCHANGED <<rdb, child, snapshot>> /\ replstate[s] = "send_bulk"
        BY <1>9, <3>1 DEF sendBulkToSlave
      <4>2. CASE x = s
        BY <1>a, <4>1, <4>2 DEF Base, TypeOK
      <4>3. CASE x # s
        BY <1>a, <4>1, <4>3 DEF Base, TypeOK
      <4> QED BY <4>2, <4>3
    <3>2. CASE bulk[s].left # 1
      <4>1. /\ bulk' = [bulk EXCEPT ![s].left = @ - 1]
            /\ UNCHANGED <<rdb, child, snapshot, replstate, replica>>
        BY <1>9, <3>2 DEF sendBulkToSlave
      <4>2. bulk'[x].data = bulk[x].data
        BY <1>a, <4>1 DEF TypeOK
      <4> QED BY <4>1, <4>2 DEF Base
    <3> QED BY <3>1, <3>2
  <2> QED BY <1>9, <1>c, <2>1 DEF sendBulkToSlave
<1>10. ASSUME NEW s \in Slaves, sendReplyToClient(s) PROVE Fold(b, reply'[x]) = Now(x)'
  <2>1. UNCHANGED <<data, rdb, child, snapshot, replstate, slaveseldb, bulk, spoiled>>
    BY <1>10 DEF sendReplyToClient
  <2>2. CASE x # s
    <3>1. reply'[x] = reply[x] /\ replica'[x] = replica[x]
      BY <1>10, <1>a, <2>2 DEF sendReplyToClient, TypeOK
    <3>2. Base(x, b)
      BY <2>1, <3>1 DEF Base
    <3> QED BY <2>1, <3>1, <3>2, AgreeingFrame
  <2>3. CASE x = s
    <3> DEFINE c == replica[s]
    <3>1. /\ replstate[s] = "online" /\ reply[s] # <<>> /\ reply'[s] = Tail(reply[s])
          /\ replica'[s] = Applied(c, Head(reply[s]))
      BY <1>10, <1>a DEF sendReplyToClient, TypeOK
    <3>2. b = Applied(c, Head(reply[s]))
      BY <2>1, <2>3, <3>1 DEF Base
    <3>3. c \in Replicas /\ Base(s, c) /\ reply[s] \in Seq(Messages)
      BY <1>a, <3>1 DEF Base, TypeOK, Replicas
    <3>4. Fold(c, reply[s]) = Now(s)
      BY <2>1, <2>3, <3>3 DEF SyncInv, Agreeing
    <3> HIDE DEF c
    <3>5. Fold(c, reply[s]) = Fold(b, reply'[s])
      BY <3>1, <3>2, <3>3, FoldFact
    <3> QED BY <2>1, <2>3, <3>4, <3>5 DEF Now
  <2> QED BY <2>2, <2>3
<1>11. ASSUME NEW s \in Slaves, freeClient(s) PROVE Fold(b, reply'[x]) = Now(x)'
  <2>1. x # s
    BY <1>11 DEF freeClient, Freed, Base
  <2>2. /\ replstate'[x] = replstate[x] /\ reply'[x] = reply[x] /\ spoiled'[x] = spoiled[x]
        /\ slaveseldb'[x] = slaveseldb[x] /\ replica'[x] = replica[x] /\ bulk'[x] = bulk[x]
        /\ UNCHANGED <<data, rdb, child, snapshot>>
    BY <1>11, <1>a, <2>1 DEF freeClient, Freed, TypeOK
  <2>3. Base(x, b)
    BY <2>2 DEF Base
  <2> QED BY <2>2, <2>3, AgreeingFrame
<1>12. CASE UNCHANGED vars
  <2>1. Base(x, b)
    BY <1>12 DEF vars, Base
  <2> QED BY <1>12, <1>c, <2>1 DEF vars
<1> QED BY <1>1, <1>2, <1>3, <1>4, <1>5, <1>6, <1>7, <1>8, <1>9, <1>10, <1>11,
           <1>12 DEF Next

(* File and buffer together make the master's data, from the moment the    *)
(* file is sent, whatever the interleaving.                                *)
THEOREM SlavesWillAgree == Spec => []SlaveWillAgree
<1>1. Init => SyncInv
  <2>1. Init => Idle /\ Agreeing
    BY DEF Init, Idle, Agreeing, Base
  <2> QED BY <2>1, InitType, InitInv DEF SyncInv
<1>2. SyncInv /\ [Next]_vars => SyncInv'
  BY NextType, NextInv, NextIdle, NextAgreeing DEF SyncInv
<1> QED BY <1>1, <1>2, AgreeingSlaves, PTL DEF Spec
=============================================================================
