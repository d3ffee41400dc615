--------------------------- MODULE RedisAofProof ----------------------------
(* The proofs about RedisAof: what the append-only file holds is a state   *)
(* of the past, for all databases, modifications and configurations; it    *)
(* implements AppendLog; a rewriting that is waited for is not forgotten;  *)
(* and replies survive what they promise to survive.                       *)
EXTENDS RedisAof, FoldFacts, SequenceTheorems, FiniteSetTheorems

(* What the variables are made of. *)
DataSet == [Dbs -> Nat]
LoaderSet == [data : DataSet, db : Dbs, multi : BOOLEAN, whole : DataSet]
Files == [loads : Seq(LoaderSet), torn : BOOLEAN, synced : Nat]
Records == {Select(d) : d \in Dbs} \cup {Set(n) : n \in Nat} \cup {Incr, Multi, Exec}

(* Database 0 exists, and no database has the number NoDb. *)
LEMMA DbFacts == 0 \in Dbs /\ NoDb \notin Dbs /\ NoDb \in Nat /\ Dbs \subseteq Nat
  BY DbAssumption DEF Dbs, NoDb

(* What loading starts from. *)
LEMMA LoaderType == Empty \in DataSet /\ Loader \in LoaderSet
<1>1. Empty \in DataSet
  BY DEF Empty, DataSet
<1> QED BY <1>1, DbFacts DEF Loader, LoaderSet

-----------------------------------------------------------------------------
(* What is loaded from the file of records, one by one.                    *)

(* y without a transaction that is not complete. *)
Settled(y) == IF y.multi THEN y ELSE [y EXCEPT !.whole = y.data]

(* Loading one record of each kind. *)
LEMMA RanCases ==
  ASSUME NEW x
  PROVE  /\ \A d \in Dbs : Ran(x, Select(d)) = [x EXCEPT !.db = d]
         /\ \A n \in Nat : Ran(x, Set(n)) = [x EXCEPT !.data[x.db] = n]
         /\ Ran(x, Incr) = [x EXCEPT !.data[x.db] = @ + 1]
         /\ Ran(x, Multi) = [x EXCEPT !.multi = TRUE]
         /\ Ran(x, Exec) = [x EXCEPT !.multi = FALSE]
<1>1. ASSUME NEW d \in Dbs PROVE Ran(x, Select(d)) = [x EXCEPT !.db = d]
  BY DEF Ran, Select
<1>2. ASSUME NEW n \in Nat PROVE Ran(x, Set(n)) = [x EXCEPT !.data[x.db] = n]
  BY DEF Ran, Set
<1>3. Ran(x, Incr) = [x EXCEPT !.data[x.db] = @ + 1]
  BY DEF Ran, Incr
<1>4. Ran(x, Multi) = [x EXCEPT !.multi = TRUE]
  BY DEF Ran, Multi
<1>5. Ran(x, Exec) = [x EXCEPT !.multi = FALSE]
  BY DEF Ran, Exec
<1> QED BY <1>1, <1>2, <1>3, <1>4, <1>5

(* What is loaded is a loader's state again. *)
LEMMA RanType ==
  ASSUME NEW x \in LoaderSet, NEW rec \in Records
  PROVE  Ran(x, rec) \in LoaderSet
<1>1. x.data \in DataSet /\ x.db \in Dbs /\ x.data[x.db] \in Nat
  BY DEF LoaderSet, DataSet
<1>2. ASSUME NEW n \in Nat PROVE [x EXCEPT !.data[x.db] = n] \in LoaderSet
  BY <1>1, <1>2 DEF LoaderSet, DataSet
<1>3. ASSUME NEW d \in Dbs, rec = Select(d) PROVE Ran(x, rec) \in LoaderSet
  <2>1. Ran(x, rec) = [x EXCEPT !.db = d]
    BY <1>3, RanCases
  <2> QED BY <2>1 DEF LoaderSet
<1>4. ASSUME NEW n \in Nat, rec = Set(n) PROVE Ran(x, rec) \in LoaderSet
  <2>1. Ran(x, rec) = [x EXCEPT !.data[x.db] = n]
    BY <1>4, RanCases
  <2> QED BY <2>1, <1>2
<1>5. CASE rec = Incr
  <2>1. Ran(x, rec) = [x EXCEPT !.data[x.db] = x.data[x.db] + 1]
    BY <1>5, RanCases
  <2> QED BY <2>1, <1>1, <1>2
<1>6. CASE rec = Multi
  <2>1. Ran(x, rec) = [x EXCEPT !.multi = TRUE]
    BY <1>6, RanCases
  <2> QED BY <2>1 DEF LoaderSet
<1>7. CASE rec = Exec
  <2>1. Ran(x, rec) = [x EXCEPT !.multi = FALSE]
    BY <1>7, RanCases
  <2> QED BY <2>1 DEF LoaderSet
<1> QED BY <1>3, <1>4, <1>5, <1>6, <1>7 DEF Records

(* What can be trusted of it is what was there before MULTI, or all of it. *)
LEMMA ReplayedType ==
  ASSUME NEW x \in LoaderSet, NEW rec \in Records
  PROVE  /\ Replayed(x, rec) \in LoaderSet
         /\ Replayed(x, rec) = Settled(Ran(x, rec))
         /\ Ran(x, rec).whole = x.whole
         /\ Replayed(x, rec).whole = IF Replayed(x, rec).multi THEN x.whole ELSE Replayed(x, rec).data
<1>1. Replayed(x, rec) = Settled(Ran(x, rec))
  BY DEF Replayed, Settled
<1>2. Ran(x, rec) \in LoaderSet
  BY RanType
<1>3. Ran(x, rec).whole = x.whole
  <2>1. ASSUME NEW d \in Dbs, rec = Select(d) PROVE Ran(x, rec).whole = x.whole
    <3>1. Ran(x, rec) = [x EXCEPT !.db = d]
      BY <2>1, RanCases
    <3> QED BY <3>1 DEF LoaderSet
  <2>2. ASSUME NEW n \in Nat, rec = Set(n) PROVE Ran(x, rec).whole = x.whole
    <3>1. Ran(x, rec) = [x EXCEPT !.data[x.db] = n]
      BY <2>2, RanCases
    <3> QED BY <3>1 DEF LoaderSet
  <2>3. CASE rec = Incr
    BY <2>3, RanCases DEF LoaderSet
  <2>4. CASE rec = Multi \/ rec = Exec
    <3>1. Ran(x, rec) = [x EXCEPT !.multi = TRUE] \/ Ran(x, rec) = [x EXCEPT !.multi = FALSE]
      BY <2>4, RanCases
    <3> QED BY <3>1 DEF LoaderSet
  <2> QED BY <2>1, <2>2, <2>3, <2>4 DEF Records
<1> QED BY <1>1, <1>2, <1>3 DEF Settled, LoaderSet

-----------------------------------------------------------------------------
(* Appending records to a file.                                            *)

End(f) == LoadedUpTo(f, Len(f.loads))
Whole(f, k) == LoadedUpTo(f, k).whole

(* What is loaded from any part of a file. *)
LEMMA LoadedType ==
  ASSUME NEW f \in Files, NEW k \in 0 .. Len(f.loads)
  PROVE  LoadedUpTo(f, k) \in LoaderSet /\ Whole(f, k) \in DataSet /\ Len(f.loads) \in Nat
<1>1. f.loads \in Seq(LoaderSet)
  BY DEF Files
<1>2. LoadedUpTo(f, k) \in LoaderSet
  BY <1>1, LoaderType DEF LoadedUpTo
<1>3. Len(f.loads) \in Nat
  BY <1>1
<1> QED BY <1>2, <1>3 DEF Whole, LoaderSet

(* What is loaded from the whole file has a type, and is what it is after  *)
(* the last record.                                                        *)
LEMMA EndType ==
  ASSUME NEW f \in Files
  PROVE  End(f) \in LoaderSet /\ Len(f.loads) \in Nat /\ End(f).whole = Whole(f, Len(f.loads))
<1>1. Len(f.loads) \in Nat
  BY DEF Files
<1> QED BY <1>1, LoadedType DEF End, Whole

(* A record is appended behind the others. *)
LEMMA AppendRecordFacts ==
  ASSUME NEW f \in Files, NEW rec \in Records
  PROVE  LET g == AppendRecord(f, rec)
         IN /\ g \in Files /\ Len(g.loads) = Len(f.loads) + 1
            /\ g.synced = f.synced /\ g.torn = f.torn
            /\ \A k \in 0 .. Len(f.loads) : LoadedUpTo(g, k) = LoadedUpTo(f, k)
            /\ End(g) = Replayed(End(f), rec)
<1> DEFINE y == Replayed(End(f), rec)
           g == AppendRecord(f, rec)
<1>1. y \in LoaderSet
  BY EndType, ReplayedType
<1>2. g = [f EXCEPT !.loads = Append(f.loads, y)]
  BY DEF AppendRecord, End
<1> HIDE DEF y
<1>3. /\ f.loads \in Seq(LoaderSet) /\ f.torn \in BOOLEAN /\ f.synced \in Nat
      /\ g.loads = Append(f.loads, y) /\ g.synced = f.synced /\ g.torn = f.torn
  BY <1>2 DEF Files
<1>4. Append(f.loads, y) \in Seq(LoaderSet) /\ Len(Append(f.loads, y)) = Len(f.loads) + 1 /\ Len(f.loads) \in Nat
  BY <1>1, <1>3
<1>5. g \in Files
  BY <1>2, <1>4 DEF Files
<1> HIDE DEF g
<1>6. ASSUME NEW k \in 0 .. Len(f.loads) PROVE LoadedUpTo(g, k) = LoadedUpTo(f, k)
  BY <1>1, <1>3, <1>4 DEF LoadedUpTo
<1>7. End(g) = y
  BY <1>1, <1>3, <1>4 DEF LoadedUpTo, End
<1> QED BY <1>3, <1>4, <1>5, <1>6, <1>7 DEF y, g

AppendStep == [p \in Files \X Records |-> AppendRecord(p[1], p[2])]

(* AppendStep stays among the files, and is AppendRecord there. *)
LEMMA AppendStepType ==
  /\ Stays(AppendStep, Files, Records)
  /\ \A x \in Files, rec \in Records : AppendStep[<<x, rec>>] = AppendRecord(x, rec)
<1>1. ASSUME NEW p \in Files \X Records PROVE AppendRecord(p[1], p[2]) \in Files
  BY AppendRecordFacts
<1>2. \A x \in Files, rec \in Records : <<x, rec>> \in Files \X Records
  OBVIOUS
<1> HIDE DEF Files, Records
<1> QED BY <1>1, <1>2 DEF AppendStep, Stays

(* Writing records is running AppendStep over them. *)
LEMMA WriteFold ==
  ASSUME NEW b \in Files, NEW q \in Seq(Records)
  PROVE  FoldLeft(AppendRecord, b, q) = Result(AppendStep, b, q)
<1> DEFINE P(g) == g = [s \in SUBSET DOMAIN q |->
             IF s = {} THEN b ELSE AppendRecord(g[s \ {Max(s)}], q[Max(s)])]
<1>1. FoldLeft(AppendRecord, b, q) = (CHOOSE g : P(g))[DOMAIN q]
  BY Zenon DEF FoldLeft, MapThenFoldSet
<1>2. DOMAIN q = 1 .. Len(q) /\ Len(q) \in Nat
  OBVIOUS
<1>3. PICK f : IsFold(f, Files, AppendStep, b, q)
  BY AppendStepType, SubsetFoldOfSequence, Zenon
<1>4. P(f)
  <2>1. f \in [SUBSET (1 .. Len(q)) -> Files] /\ f = SubsetStep(AppendStep, b, q, f)
    BY <1>3 DEF IsFold
  <2>2. ASSUME NEW s \in SUBSET (1 .. Len(q)), s # {}
        PROVE  f[s] = AppendRecord(f[s \ {Max(s)}], q[Max(s)])
    <3>1. Max(s) \in 1 .. Len(q)
      BY <1>2, <2>2, MaxOfPositions
    <3>2. q[Max(s)] \in Records
      BY <3>1
    <3>a. f[s \ {Max(s)}] \in Files
      <4>1. s \ {Max(s)} \in SUBSET (1 .. Len(q))
        OBVIOUS
      <4> QED BY <2>1, <4>1
    <3>3. f[s] = AppendStep[<<f[s \ {Max(s)}], q[Max(s)]>>]
      BY <2>1, <2>2 DEF SubsetStep
    <3> QED BY <3>2, <3>a, <3>3, AppendStepType
  <2>3. f[{}] = b
    BY <2>1 DEF SubsetStep
  <2>4. f = [s \in SUBSET (1 .. Len(q)) |-> f[s]]
    BY <2>1
  <2> QED BY <1>2, <2>2, <2>3, <2>4, Zenon
<1>5. P(CHOOSE g : P(g))
  <2> HIDE DEF P
  <2> QED BY <1>4, Zenon
<1> DEFINE g == CHOOSE g : P(g)
<1>6. /\ g[{}] = b
      /\ \A s \in SUBSET (1 .. Len(q)) : s # {} =>
            g[s] = AppendRecord(g[s \ {Max(s)}], q[Max(s)])
  BY <1>2, <1>5
<1> HIDE DEF g
<1>7. SolvesFold(g, Files, AppendStep, b, q)
  <2> SUFFICES ASSUME NEW s \in SUBSET (1 .. Len(q)), s # {}, g[s \ {Max(s)}] \in Files
               PROVE  g[s] = AppendStep[<<g[s \ {Max(s)}], q[Max(s)]>>]
    BY <1>6, Zenon DEF SolvesFold
  <2>1. Max(s) \in 1 .. Len(q)
    BY <1>2, MaxOfPositions
  <2>2. q[Max(s)] \in Records
    BY <2>1
  <2> QED BY <1>6, <2>2, AppendStepType
<1>8. Gives(g, AppendStep, b, q)
  <2>1. Stays(AppendStep, Files, Records)
    BY AppendStepType
  <2> QED BY <1>7, <2>1, FoldIsResult
<1> QED BY <1>1, <1>2, <1>8 DEF g, Gives

(* Writing nothing, or one more record. *)
LEMMA WriteFacts ==
  ASSUME NEW f \in Files
  PROVE  /\ Write(f, <<>>) = f
         /\ \A q \in Seq(Records) : Write(f, q) \in Files
         /\ \A q \in Seq(Records), rec \in Records : Write(f, Append(q, rec)) = AppendRecord(Write(f, q), rec)
<1>1. Stays(AppendStep, Files, Records)
  BY AppendStepType
<1>2. <<>> \in Seq(Records)
  OBVIOUS
<1>3. \A q \in Seq(Records) : Write(f, q) = Result(AppendStep, f, q)
  BY WriteFold DEF Write
<1>4. Write(f, <<>>) = f
  BY <1>1, <1>2, <1>3, ResultEmpty
<1>5. ASSUME NEW q \in Seq(Records) PROVE Write(f, q) \in Files
  BY <1>1, <1>3, ResultType
<1>6. ASSUME NEW q \in Seq(Records), NEW rec \in Records
      PROVE  Write(f, Append(q, rec)) = AppendRecord(Write(f, q), rec)
  <2>1. Append(q, rec) \in Seq(Records)
    OBVIOUS
  <2>2. Result(AppendStep, f, Append(q, rec)) = AppendStep[<<Result(AppendStep, f, q), rec>>]
    BY <1>1, ResultAppend
  <2> QED BY <1>3, <1>5, <2>1, <2>2, AppendStepType
<1> QED BY <1>4, <1>5, <1>6

(* Writing a and b is writing a, and then b. *)
LEMMA WriteConcat ==
  ASSUME NEW f \in Files, NEW a \in Seq(Records), NEW b \in Seq(Records)
  PROVE  Write(f, a \o b) = Write(Write(f, a), b)
<1> DEFINE g == Write(f, a)
           T == { i \in 0 .. Len(b) : Write(f, a \o SubSeq(b, 1, i)) = Write(g, SubSeq(b, 1, i)) }
<1>1. g \in Files /\ Len(b) \in Nat
  BY WriteFacts
<1> HIDE DEF g
<1>2. 0 \in T
  <2>1. SubSeq(b, 1, 0) = <<>> /\ a \o <<>> = a
    OBVIOUS
  <2>2. Write(g, <<>>) = g
    BY <1>1, WriteFacts
  <2>3. Write(f, a \o SubSeq(b, 1, 0)) = Write(g, SubSeq(b, 1, 0))
    BY <2>1, <2>2 DEF g
  <2> QED BY <1>1, <2>3
<1>3. ASSUME NEW i \in 0 .. Len(b) - 1, i \in T PROVE i + 1 \in T
  <2> DEFINE p == SubSeq(b, 1, i)
             e == b[i + 1]
  <2>1. p \in Seq(Records) /\ e \in Records /\ i + 1 \in 0 .. Len(b)
    BY <1>1
  <2>2. SubSeq(b, 1, i + 1) = Append(p, e)
    BY <1>1
  <2>3. a \o Append(p, e) = Append(a \o p, e) /\ a \o p \in Seq(Records)
    <3> HIDE DEF p, e
    <3> QED BY <2>1
  <2>4. Write(f, a \o p) = Write(g, p)
    BY <1>3
  <2> HIDE DEF p, e
  <2>5. Write(f, Append(a \o p, e)) = AppendRecord(Write(f, a \o p), e)
    BY <2>1, <2>3, WriteFacts
  <2>6. Write(g, Append(p, e)) = AppendRecord(Write(g, p), e)
    BY <1>1, <2>1, WriteFacts
  <2> QED BY <2>1, <2>2, <2>3, <2>4, <2>5, <2>6
<1> HIDE DEF T
<1>4. Len(b) \in T
  <2>1. 0 .. Len(b) \subseteq T
    BY <1>1, <1>2, <1>3, BoundedInduction
  <2> QED BY <1>1, <2>1
<1>5. SubSeq(b, 1, Len(b)) = b
  OBVIOUS
<1> QED BY <1>4, <1>5 DEF T, g

(* g has what f has, and perhaps more. *)
Prolongs(g, f) ==
  /\ Len(f.loads) <= Len(g.loads)
  /\ g.synced = f.synced /\ g.torn = f.torn
  /\ \A k \in 0 .. Len(f.loads) : LoadedUpTo(g, k) = LoadedUpTo(f, k)

(* Writing changes nothing of what was in the file before. *)
LEMMA WriteProlongs ==
  ASSUME NEW f \in Files, NEW q \in Seq(Records)
  PROVE  Prolongs(Write(f, q), f)
<1> DEFINE T == { p \in Nat \X Files : Prolongs(p[2], f) }
<1>1. Stays(AppendStep, Files, Records)
  BY AppendStepType
<1>2. Write(f, q) = Result(AppendStep, f, q)
  BY WriteFold DEF Write
<1>3. <<0, f>> \in T
  <2>1. Len(f.loads) \in Nat
    BY EndType
  <2>2. Prolongs(f, f)
    BY <2>1 DEF Prolongs
  <2> QED BY <2>2
<1>4. ASSUME NEW i \in 0 .. Len(q) - 1, NEW x \in Files, <<i, x>> \in T
      PROVE  <<i + 1, AppendStep[<<x, q[i + 1]>>]>> \in T
  <2>1. q[i + 1] \in Records /\ i + 1 \in Nat
    OBVIOUS
  <2> DEFINE y == AppendRecord(x, q[i + 1])
  <2>2. Prolongs(x, f)
    BY <1>4
  <2>3. /\ y \in Files /\ Len(y.loads) = Len(x.loads) + 1
        /\ y.synced = x.synced /\ y.torn = x.torn
        /\ \A k \in 0 .. Len(x.loads) : LoadedUpTo(y, k) = LoadedUpTo(x, k)
    BY <2>1, AppendRecordFacts
  <2> HIDE DEF y
  <2>4. Len(x.loads) \in Nat /\ Len(f.loads) \in Nat
    BY EndType
  <2>5. Prolongs(y, f)
    BY <2>2, <2>3, <2>4 DEF Prolongs
  <2>6. AppendStep[<<x, q[i + 1]>>] = y
    BY <2>1, AppendStepType DEF y
  <2> HIDE DEF Prolongs
  <2> QED BY <2>1, <2>3, <2>5, <2>6
<1> HIDE DEF T
<1>5. Inductive(T, Files, AppendStep, q)
  BY <1>4 DEF Inductive
<1>6. <<Len(q), Result(AppendStep, f, q)>> \in T
  BY <1>1, <1>3, <1>5, ResultInduct
<1> QED BY <1>2, <1>6 DEF T

-----------------------------------------------------------------------------
(* The databases of the past, and files that hold nothing else.            *)

Histories == Seq(DataSet)
State(H, n) == IF n = 0 THEN Empty ELSE H[n]
Now(H) == State(H, Len(H))
Past(H, D) == \E n \in 0 .. Len(H) : D = State(H, n)
Leq(D, E) == \A d \in Dbs : D[d] <= E[d]
Ordered(H) ==
  \A i, j \in 0 .. Len(H) : i < j => Leq(State(H, i), State(H, j)) /\ State(H, i) # State(H, j)

(* What may be trusted of a part of a file is what it was before the MULTI *)
(* of a transaction that is not complete.                                  *)
Sound(f) ==
  /\ f.synced <= Len(f.loads)
  /\ \A k \in 1 .. Len(f.loads) :
       Whole(f, k) = IF LoadedUpTo(f, k).multi THEN Whole(f, k - 1) ELSE LoadedUpTo(f, k).data
Climbs(f) ==
  \A j, k \in f.synced .. Len(f.loads) : j <= k => Leq(Whole(f, j), Whole(f, k))
Recalls(H, f) == \A k \in f.synced .. Len(f.loads) : Past(H, Whole(f, k))
GoodFile(H, f) == f \in Files /\ Sound(f) /\ Climbs(f) /\ Recalls(H, f)

Below(f, D) == \A k \in f.synced .. Len(f.loads) : Leq(Whole(f, k), D)

(* The databases are partially ordered, key by key. *)
LEMMA LeqOrder ==
  /\ \A D \in DataSet : Leq(D, D)
  /\ \A D, E, F \in DataSet : Leq(D, E) /\ Leq(E, F) => Leq(D, F)
  /\ \A D, E \in DataSet : Leq(D, E) /\ Leq(E, D) => D = E
<1>1. \A D \in DataSet : \A d \in Dbs : D[d] \in Nat
  BY DEF DataSet
<1>2. \A D \in DataSet : Leq(D, D)
  BY <1>1 DEF Leq
<1>3. ASSUME NEW D \in DataSet, NEW E \in DataSet, NEW F \in DataSet, Leq(D, E), Leq(E, F)
      PROVE  Leq(D, F)
  BY <1>1, <1>3 DEF Leq
<1>4. ASSUME NEW D \in DataSet, NEW E \in DataSet, Leq(D, E), Leq(E, D)
      PROVE  D = E
  <2>1. \A d \in Dbs : D[d] = E[d]
    BY <1>1, <1>4 DEF Leq
  <2> QED BY <2>1 DEF DataSet
<1> QED BY <1>2, <1>3, <1>4

(* Every state of a history is a database, the present one is one of them. *)
LEMMA StateType ==
  ASSUME NEW H \in Histories
  PROVE  /\ Len(H) \in Nat
         /\ \A n \in 0 .. Len(H) : State(H, n) \in DataSet
         /\ Now(H) \in DataSet /\ Past(H, Now(H))
         /\ \A D : Past(H, D) => D \in DataSet
<1>1. Len(H) \in Nat
  BY DEF Histories
<1>2. ASSUME NEW n \in 0 .. Len(H) PROVE State(H, n) \in DataSet
  BY LoaderType DEF State, Histories
<1>3. Len(H) \in 0 .. Len(H)
  BY <1>1
<1> QED BY <1>1, <1>2, <1>3 DEF Now, Past

(* Nothing of the past is more than what there is now, and less is earlier. *)
LEMMA PastOrder ==
  ASSUME NEW H \in Histories, Ordered(H)
  PROVE  /\ \A D : Past(H, D) => Leq(D, Now(H))
         /\ \A i, j \in 0 .. Len(H) : i <= j => Leq(State(H, i), State(H, j))
         /\ \A i, j \in 0 .. Len(H) : Leq(State(H, i), State(H, j)) => i <= j
<1>0. Len(H) \in Nat /\ Len(H) \in 0 .. Len(H)
  BY StateType
<1>1. ASSUME NEW i \in 0 .. Len(H), NEW j \in 0 .. Len(H), i <= j
      PROVE  Leq(State(H, i), State(H, j))
  <2>1. CASE i = j
    BY <2>1, StateType, LeqOrder
  <2>2. CASE i < j
    BY <2>2 DEF Ordered
  <2> QED BY <1>1, <2>1, <2>2
<1>2. ASSUME NEW i \in 0 .. Len(H), NEW j \in 0 .. Len(H), Leq(State(H, i), State(H, j))
      PROVE  i <= j
  <2> SUFFICES ASSUME j < i PROVE FALSE
    OBVIOUS
  <2>1. Leq(State(H, j), State(H, i)) /\ State(H, j) # State(H, i)
    BY DEF Ordered
  <2>2. State(H, i) \in DataSet /\ State(H, j) \in DataSet
    BY StateType
  <2> QED BY <1>2, <2>1, <2>2, LeqOrder
<1>3. ASSUME NEW D, Past(H, D) PROVE Leq(D, Now(H))
  <2>1. PICK n \in 0 .. Len(H) : D = State(H, n)
    BY <1>3 DEF Past
  <2>2. n <= Len(H)
    BY <1>0
  <2> QED BY <1>0, <1>1, <2>1, <2>2 DEF Now
<1> QED BY <1>1, <1>2, <1>3

(* One more modification is the latest of all. *)
LEMMA OrderedAppend ==
  ASSUME NEW H \in Histories, Ordered(H), NEW D \in DataSet, Leq(Now(H), D), D # Now(H)
  PROVE  /\ Append(H, D) \in Histories /\ Ordered(Append(H, D)) /\ Now(Append(H, D)) = D
         /\ \A n \in 0 .. Len(H) : State(Append(H, D), n) = State(H, n)
         /\ Len(Append(H, D)) = Len(H) + 1
<1> DEFINE G == Append(H, D)
<1>1. G \in Histories /\ Len(G) = Len(H) + 1 /\ Len(H) \in Nat
  BY DEF Histories
<1>2. \A n \in 0 .. Len(H) : State(G, n) = State(H, n)
  BY <1>1 DEF State, Histories
<1>3. State(G, Len(H) + 1) = D
  BY <1>1 DEF State, Histories
<1> HIDE DEF G
<1>4. ASSUME NEW i \in 0 .. Len(G), NEW j \in 0 .. Len(G), i < j
      PROVE  Leq(State(G, i), State(G, j)) /\ State(G, i) # State(G, j)
  <2>1. i \in 0 .. Len(H) /\ State(G, i) = State(H, i) /\ State(H, i) \in DataSet
    BY <1>1, <1>2, <1>4, StateType
  <2>2. CASE j <= Len(H)
    BY <1>1, <1>2, <1>4, <2>1, <2>2 DEF Ordered
  <2>3. CASE j = Len(H) + 1
    <3>1. Past(H, State(H, i))
      BY <2>1 DEF Past
    <3>2. Leq(State(H, i), Now(H)) /\ Now(H) \in DataSet
      BY <3>1, PastOrder, StateType
    <3>3. Leq(State(H, i), D)
      BY <2>1, <3>2, LeqOrder
    <3>4. State(H, i) # D
      BY <3>2, LeqOrder
    <3> QED BY <1>3, <2>1, <2>3, <3>3, <3>4
  <2> QED BY <1>1, <2>2, <2>3
<1>5. Ordered(G)
  BY <1>4 DEF Ordered
<1>6. Now(G) = D
  BY <1>1, <1>3 DEF Now
<1> QED BY <1>1, <1>2, <1>5, <1>6 DEF G

(* The beginning of a history. *)
LEMMA OrderedCut ==
  ASSUME NEW H \in Histories, Ordered(H), NEW n \in 0 .. Len(H)
  PROVE  LET G == SubSeq(H, 1, n)
         IN /\ G \in Histories /\ Ordered(G) /\ Now(G) = State(H, n) /\ Len(G) = n
            /\ \A i \in 0 .. n : State(G, i) = State(H, i)
<1> DEFINE G == SubSeq(H, 1, n)
<1>1. G \in Histories /\ Len(G) = n /\ n \in Nat /\ Len(H) \in Nat
  BY DEF Histories
<1>2. \A i \in 1 .. n : G[i] = H[i]
  BY <1>1 DEF Histories
<1> HIDE DEF G
<1>3. \A i \in 0 .. n : State(G, i) = State(H, i)
  BY <1>2 DEF State
<1>4. Ordered(G)
  BY <1>1, <1>3 DEF Ordered
<1>5. Now(G) = State(H, n)
  BY <1>1, <1>3 DEF Now
<1> QED BY <1>1, <1>3, <1>4, <1>5 DEF G

-----------------------------------------------------------------------------
(* What is done to a file leaves it good.                                  *)

(* What is known of the end of a good file: it is a state of the past, and *)
(* nothing that a crash can leave of the file has more in it.              *)
LEMMA GoodEnd ==
  ASSUME NEW H, NEW f, GoodFile(H, f)
  PROVE  /\ f \in Files /\ f.synced \in Nat /\ Len(f.loads) \in Nat
         /\ f.synced <= Len(f.loads)
         /\ Len(f.loads) \in f.synced .. Len(f.loads)
         /\ f.synced \in f.synced .. Len(f.loads)
         /\ End(f) \in LoaderSet /\ End(f).whole \in DataSet
         /\ End(f).whole = Whole(f, Len(f.loads))
         /\ Past(H, End(f).whole) /\ Below(f, End(f).whole)
         /\ \A k \in f.synced .. Len(f.loads) : k \in 0 .. Len(f.loads) /\ Whole(f, k) \in DataSet
<1>1. f \in Files /\ f.synced <= Len(f.loads) /\ f.synced \in Nat /\ Len(f.loads) \in Nat
  BY EndType DEF GoodFile, Sound, Files
<1>2. Len(f.loads) \in f.synced .. Len(f.loads) /\ f.synced \in f.synced .. Len(f.loads)
  BY <1>1
<1>3. End(f) \in LoaderSet /\ End(f).whole = Whole(f, Len(f.loads))
  BY <1>1, EndType
<1>4. End(f).whole \in DataSet
  BY <1>3 DEF LoaderSet
<1>5. Past(H, End(f).whole)
  BY <1>2, <1>3 DEF GoodFile, Recalls
<1>6. ASSUME NEW k \in f.synced .. Len(f.loads)
      PROVE  k \in 0 .. Len(f.loads) /\ Whole(f, k) \in DataSet /\ Leq(Whole(f, k), End(f).whole)
  <2>1. k \in 0 .. Len(f.loads) /\ k <= Len(f.loads)
    BY <1>1
  <2>2. Leq(Whole(f, k), Whole(f, Len(f.loads)))
    BY <1>2, <2>1 DEF GoodFile, Climbs
  <2> QED BY <1>1, <1>3, <2>1, <2>2, LoadedType
<1> QED BY <1>1, <1>2, <1>3, <1>4, <1>5, <1>6 DEF Below

(* Whatever the record, what may be trusted is known. *)
LEMMA AppendSound ==
  ASSUME NEW f \in Files, Sound(f), NEW rec \in Records
  PROVE  Sound(AppendRecord(f, rec))
<1> DEFINE g == AppendRecord(f, rec)
           y == Replayed(End(f), rec)
           n == Len(f.loads)
<1>1. /\ f.synced \in Nat /\ n \in Nat /\ f.synced <= n
      /\ End(f) \in LoaderSet /\ End(f).whole = Whole(f, n)
  BY EndType DEF Sound, Files
<1>2. /\ g \in Files /\ Len(g.loads) = n + 1 /\ g.synced = f.synced
      /\ \A k \in 0 .. n : LoadedUpTo(g, k) = LoadedUpTo(f, k)
      /\ End(g) = y
  BY <1>1, AppendRecordFacts
<1>3. y.whole = IF y.multi THEN End(f).whole ELSE y.data
  BY <1>1, ReplayedType
<1>a. \A k \in 1 .. n : Whole(f, k) = IF LoadedUpTo(f, k).multi THEN Whole(f, k - 1) ELSE LoadedUpTo(f, k).data
  BY DEF Sound
<1> HIDE DEF g, y, n
<1>4. /\ \A k \in 0 .. n : Whole(g, k) = Whole(f, k)
      /\ Whole(g, n + 1) = y.whole /\ LoadedUpTo(g, n + 1) = y
  BY <1>1, <1>2 DEF Whole, End
<1>5. g.synced <= Len(g.loads)
  BY <1>1, <1>2
<1>6. ASSUME NEW k \in 1 .. n + 1
      PROVE  Whole(g, k) = IF LoadedUpTo(g, k).multi THEN Whole(g, k - 1) ELSE LoadedUpTo(g, k).data
  <2>1. CASE k \in 1 .. n
    <3>1. k \in 0 .. n /\ k - 1 \in 0 .. n
      BY <1>1, <2>1
    <3> QED BY <1>2, <1>4, <1>a, <2>1, <3>1
  <2>2. CASE k = n + 1
    <3>1. k - 1 = n /\ n \in 0 .. n
      BY <1>1, <2>2
    <3> QED BY <1>1, <1>3, <1>4, <2>2, <3>1
  <2> QED BY <1>1, <2>1, <2>2
<1> QED BY <1>2, <1>5, <1>6 DEF Sound, g

(* Another record. *)
LEMMA AppendGood ==
  ASSUME NEW H, NEW f, GoodFile(H, f), NEW rec \in Records,
         Past(H, Replayed(End(f), rec).whole),
         Leq(End(f).whole, Replayed(End(f), rec).whole)
  PROVE  GoodFile(H, AppendRecord(f, rec)) /\ End(AppendRecord(f, rec)) = Replayed(End(f), rec)
<1> DEFINE g == AppendRecord(f, rec)
           y == Replayed(End(f), rec)
           n == Len(f.loads)
<1>1. /\ f \in Files /\ f.synced \in Nat /\ n \in Nat /\ f.synced <= n
      /\ End(f) \in LoaderSet /\ End(f).whole \in DataSet /\ End(f).whole = Whole(f, n)
      /\ n \in f.synced .. n
  BY GoodEnd
<1>2. /\ g \in Files /\ Len(g.loads) = n + 1 /\ g.synced = f.synced
      /\ \A k \in 0 .. n : LoadedUpTo(g, k) = LoadedUpTo(f, k)
      /\ End(g) = y
  BY <1>1, AppendRecordFacts
<1>3. y \in LoaderSet /\ y.whole = (IF y.multi THEN End(f).whole ELSE y.data) /\ y.whole \in DataSet
  <2>1. y \in LoaderSet /\ y.whole = (IF y.multi THEN End(f).whole ELSE y.data)
    BY <1>1, ReplayedType
  <2> QED BY <2>1 DEF LoaderSet
<1>a. Past(H, y.whole) /\ Leq(End(f).whole, y.whole)
  OBVIOUS
<1> HIDE DEF g, y, n
<1>4. /\ \A k \in 0 .. n : Whole(g, k) = Whole(f, k)
      /\ Whole(g, n + 1) = y.whole /\ LoadedUpTo(g, n + 1) = y
  BY <1>1, <1>2 DEF Whole, End
<1>5. Sound(g)
  BY AppendSound DEF GoodFile, g
<1>6. Recalls(H, g)
  <2> SUFFICES ASSUME NEW k \in f.synced .. n + 1 PROVE Past(H, Whole(g, k))
    BY <1>2 DEF Recalls
  <2>1. CASE k \in f.synced .. n
    BY <1>1, <1>4, <2>1 DEF GoodFile, Recalls, n
  <2>2. CASE k = n + 1
    BY <1>4, <1>a, <2>2
  <2> QED BY <1>1, <2>1, <2>2
<1>7. Climbs(g)
  <2> SUFFICES ASSUME NEW j \in f.synced .. n + 1, NEW k \in f.synced .. n + 1, j <= k
               PROVE  Leq(Whole(g, j), Whole(g, k))
    BY <1>2 DEF Climbs
  <2>1. CASE k \in f.synced .. n
    <3>1. j \in f.synced .. n /\ j \in 0 .. n /\ k \in 0 .. n
      BY <1>1, <2>1
    <3>2. Leq(Whole(f, j), Whole(f, k))
      BY <2>1, <3>1 DEF GoodFile, Climbs, n
    <3> QED BY <1>4, <3>1, <3>2
  <2>2. CASE k = n + 1 /\ j = n + 1
    BY <1>3, <1>4, <2>2, LeqOrder
  <2>3. CASE k = n + 1 /\ j \in f.synced .. n
    <3>1. Leq(Whole(f, j), End(f).whole) /\ Whole(f, j) \in DataSet /\ j \in 0 .. n
      BY <2>3, GoodEnd DEF Below, n
    <3>2. Leq(Whole(f, j), y.whole)
      BY <1>1, <1>3, <1>a, <3>1, LeqOrder
    <3> QED BY <1>4, <2>3, <3>1, <3>2
  <2> QED BY <1>1, <2>1, <2>2, <2>3
<1>8. GoodFile(H, g)
  BY <1>2, <1>5, <1>6, <1>7 DEF GoodFile
<1> QED BY <1>2, <1>8 DEF g, y

(* A part of a file that has at least what was synced, whatever is behind  *)
(* it; perhaps more of it has been synced.                                 *)
LEMMA PartGood ==
  ASSUME NEW H, NEW f, GoodFile(H, f), NEW g \in Files,
         Len(g.loads) <= Len(f.loads), f.synced <= g.synced, g.synced <= Len(g.loads),
         \A k \in 0 .. Len(g.loads) : LoadedUpTo(g, k) = LoadedUpTo(f, k)
  PROVE  GoodFile(H, g) /\ \A k \in 0 .. Len(g.loads) : Whole(g, k) = Whole(f, k)
<1>1. /\ f \in Files /\ f.synced \in Nat /\ Len(f.loads) \in Nat
      /\ g.synced \in Nat /\ Len(g.loads) \in Nat
  BY GoodEnd, EndType DEF Files
<1>2. \A k \in 0 .. Len(g.loads) : Whole(g, k) = Whole(f, k)
  BY DEF Whole
<1>3. \A k \in g.synced .. Len(g.loads) : k \in f.synced .. Len(f.loads) /\ k \in 0 .. Len(g.loads)
  BY <1>1
<1>4. Recalls(H, g)
  BY <1>2, <1>3 DEF GoodFile, Recalls
<1>5. Climbs(g)
  BY <1>2, <1>3 DEF GoodFile, Climbs
<1>6. Sound(g)
  <2>1. ASSUME NEW k \in 1 .. Len(g.loads)
        PROVE  Whole(g, k) = IF LoadedUpTo(g, k).multi THEN Whole(g, k - 1) ELSE LoadedUpTo(g, k).data
    <3>1. k \in 1 .. Len(f.loads) /\ k \in 0 .. Len(g.loads) /\ k - 1 \in 0 .. Len(g.loads)
      BY <1>1
    <3>2. Whole(f, k) = IF LoadedUpTo(f, k).multi THEN Whole(f, k - 1) ELSE LoadedUpTo(f, k).data
      BY <3>1 DEF GoodFile, Sound
    <3> QED BY <1>2, <3>1, <3>2
  <2> QED BY <2>1 DEF Sound
<1> QED BY <1>2, <1>4, <1>5, <1>6 DEF GoodFile

(* fsync: everything is on the disk. *)
LEMMA SyncedGood ==
  ASSUME NEW H, NEW f, GoodFile(H, f)
  PROVE  /\ GoodFile(H, Synced(f)) /\ End(Synced(f)) = End(f)
         /\ Synced(f).synced = Len(f.loads) /\ Synced(f).loads = f.loads
         /\ Whole(Synced(f), Len(f.loads)) = End(f).whole
<1> DEFINE g == Synced(f)
<1>1. f \in Files /\ Len(f.loads) \in Nat /\ f.synced <= Len(f.loads)
  BY GoodEnd
<1>2. g \in Files /\ g.loads = f.loads /\ g.synced = Len(f.loads)
  BY <1>1 DEF Synced, Files
<1> HIDE DEF g
<1>3. \A k \in 0 .. Len(g.loads) : LoadedUpTo(g, k) = LoadedUpTo(f, k)
  BY <1>2 DEF LoadedUpTo
<1>4. GoodFile(H, g)
  BY <1>1, <1>2, <1>3, PartGood
<1>5. End(g) = End(f)
  BY <1>2 DEF End, LoadedUpTo
<1>6. Whole(g, Len(f.loads)) = End(f).whole
  BY <1>2 DEF End, LoadedUpTo, Whole
<1> QED BY <1>2, <1>4, <1>5, <1>6 DEF g

(* What is left after a power failure. *)
LEMMA CutGood ==
  ASSUME NEW H, NEW f, GoodFile(H, f), NEW k \in f.synced .. Len(f.loads), NEW torn \in BOOLEAN
  PROVE  LET g == [loads |-> SubSeq(f.loads, 1, k), torn |-> torn, synced |-> k]
         IN /\ GoodFile(H, g) /\ End(g).whole = Whole(f, k) /\ Len(g.loads) = k
            /\ Whole(g, k) = Whole(f, k)
<1> DEFINE g == [loads |-> SubSeq(f.loads, 1, k), torn |-> torn, synced |-> k]
<1>1. f \in Files /\ f.loads \in Seq(LoaderSet) /\ f.synced \in Nat /\ Len(f.loads) \in Nat
      /\ f.synced <= k /\ k <= Len(f.loads) /\ k \in Nat
  <2>1. f \in Files /\ f.synced \in Nat /\ Len(f.loads) \in Nat
    BY GoodEnd
  <2> QED BY <2>1 DEF Files
<1>2. SubSeq(f.loads, 1, k) \in Seq(LoaderSet) /\ Len(SubSeq(f.loads, 1, k)) = k
      /\ \A i \in 1 .. k : SubSeq(f.loads, 1, k)[i] = f.loads[i]
  BY <1>1
<1>3. g \in Files /\ Len(g.loads) = k /\ g.synced = k /\ \A i \in 1 .. k : g.loads[i] = f.loads[i]
  BY <1>1, <1>2 DEF Files
<1> HIDE DEF g
<1>4. \A i \in 0 .. Len(g.loads) : LoadedUpTo(g, i) = LoadedUpTo(f, i)
  BY <1>1, <1>3 DEF LoadedUpTo
<1>5. GoodFile(H, g) /\ \A i \in 0 .. Len(g.loads) : Whole(g, i) = Whole(f, i)
  BY <1>1, <1>3, <1>4, PartGood
<1>6. End(g).whole = Whole(f, k) /\ Whole(g, k) = Whole(f, k)
  BY <1>1, <1>3, <1>5 DEF End, Whole
<1> QED BY <1>3, <1>5, <1>6 DEF g

(* Where redis-check-aof cuts the file. *)
CutAt(f) == Max({0} \cup { k \in DOMAIN f.loads : ~f.loads[k].multi })

(* Where redis-check-aof cuts: behind the last record that is outside of a *)
(* transaction.                                                            *)
LEMMA CutAtFacts ==
  ASSUME NEW f \in Files
  PROVE  /\ CutAt(f) \in 0 .. Len(f.loads)
         /\ \A k \in CutAt(f) + 1 .. Len(f.loads) : LoadedUpTo(f, k).multi
         /\ ~LoadedUpTo(f, CutAt(f)).multi
<1> DEFINE n == Len(f.loads)
           P == { k \in 1 .. n : ~f.loads[k].multi }
<1>1. f.loads \in Seq(LoaderSet) /\ n \in Nat /\ DOMAIN f.loads = 1 .. n
  BY DEF Files
<1>2. CutAt(f) = Max({0} \cup P)
  BY <1>1 DEF CutAt
<1>3. ASSUME NEW m \in {0} \cup P, \A x \in P : x <= m
      PROVE  CutAt(f) = m
  <2>1. {0} \cup P \in SUBSET Int /\ m \in Int /\ \A x \in {0} \cup P : x <= m
    BY <1>1, <1>3
  <2> QED BY <1>2, <2>1, <1>3, MaxIs
<1>4. PICK m \in {0} \cup P : \A x \in P : x <= m
  <2>1. CASE P = {}
    BY <2>1
  <2>2. CASE P # {}
    BY <1>1, <2>2, MaxOfPositions
  <2> QED BY <2>1, <2>2
<1>5. CutAt(f) = m
  BY <1>3, <1>4
<1>6. m \in 0 .. n
  BY <1>1
<1>7. ASSUME NEW k \in m + 1 .. n PROVE LoadedUpTo(f, k).multi
  BY <1>1, <1>4, <1>6, <1>7 DEF LoadedUpTo
<1>8. ~LoadedUpTo(f, m).multi
  BY <1>1 DEF LoadedUpTo, Loader
<1> QED BY <1>5, <1>6, <1>7, <1>8

(* The repaired file has the same to be trusted. *)
LEMMA FixedGood ==
  ASSUME NEW H, NEW f, GoodFile(H, f)
  PROVE  /\ GoodFile(H, Fixed(f)) /\ End(Fixed(f)).whole = End(f).whole
         /\ Whole(Fixed(f), Fixed(f).synced) = Whole(f, f.synced)
<1> DEFINE g == Fixed(f)
           n == Len(f.loads)
           c == CutAt(f)
           s == IF f.synced <= c THEN f.synced ELSE c
<1>1. f \in Files /\ f.loads \in Seq(LoaderSet) /\ f.synced \in Nat /\ n \in Nat /\ f.synced <= n
  <2>1. f \in Files /\ f.synced \in Nat /\ n \in Nat /\ f.synced <= n
    BY GoodEnd
  <2> QED BY <2>1 DEF Files
<1>2. c \in 0 .. n /\ \A k \in c + 1 .. n : LoadedUpTo(f, k).multi
  BY <1>1, CutAtFacts
<1>3. g = [loads |-> SubSeq(f.loads, 1, c), torn |-> FALSE, synced |-> Min({f.synced, c})]
  BY DEF Fixed, CutAt
<1>a. \A k \in 1 .. n : Whole(f, k) = IF LoadedUpTo(f, k).multi THEN Whole(f, k - 1) ELSE LoadedUpTo(f, k).data
  BY DEF GoodFile, Sound
<1> HIDE DEF c, n, g
<1>4. Min({f.synced, c}) = s
  <2>1. s \in {f.synced, c} /\ \A y \in {f.synced, c} : s <= y
    BY <1>1, <1>2
  <2>2. \A x \in {f.synced, c} : (\A y \in {f.synced, c} : x <= y) => x = s
    BY <1>1, <1>2
  <2> QED BY <2>1, <2>2 DEF Min
<1>5. SubSeq(f.loads, 1, c) \in Seq(LoaderSet) /\ Len(SubSeq(f.loads, 1, c)) = c
      /\ \A i \in 1 .. c : SubSeq(f.loads, 1, c)[i] = f.loads[i]
  BY <1>1, <1>2 DEF n
<1>6. g \in Files /\ Len(g.loads) = c /\ g.synced = s /\ \A i \in 1 .. c : g.loads[i] = f.loads[i]
  BY <1>1, <1>2, <1>3, <1>4, <1>5 DEF Files
<1>7. \A i \in 0 .. c : LoadedUpTo(g, i) = LoadedUpTo(f, i) /\ Whole(g, i) = Whole(f, i)
  BY <1>2, <1>6 DEF LoadedUpTo, Whole
<1>8. \A k \in c .. n : Whole(f, k) = Whole(f, c)
  <2> DEFINE T == { i \in 0 .. n - c : Whole(f, c + i) = Whole(f, c) }
  <2>1. 0 \in T /\ n - c \in Nat
    BY <1>1, <1>2
  <2>2. ASSUME NEW i \in 0 .. (n - c) - 1, i \in T PROVE i + 1 \in T
    <3>1. c + (i + 1) \in c + 1 .. n /\ c + (i + 1) \in 1 .. n /\ (c + (i + 1)) - 1 = c + i
      BY <1>1, <1>2
    <3>2. Whole(f, c + (i + 1)) = Whole(f, c + i)
      BY <1>2, <1>a, <3>1
    <3> QED BY <1>1, <1>2, <2>2, <3>2
  <2> HIDE DEF T
  <2>3. 0 .. n - c \subseteq T
    BY <2>1, <2>2, BoundedInduction
  <2>4. ASSUME NEW k \in c .. n PROVE Whole(f, k) = Whole(f, c)
    <3>1. k - c \in 0 .. n - c /\ c + (k - c) = k
      BY <1>1, <1>2
    <3> QED BY <2>3, <3>1 DEF T
  <2> QED BY <2>4
<1>9. Whole(g, s) = Whole(f, f.synced) /\ s \in 0 .. c
  BY <1>1, <1>2, <1>7, <1>8
<1>10. End(g).whole = End(f).whole
  <2>1. End(g).whole = Whole(g, c) /\ c \in 0 .. c /\ n \in c .. n
    BY <1>1, <1>2, <1>6 DEF End, Whole
  <2>2. End(f).whole = Whole(f, n)
    BY <1>1, EndType DEF n
  <2> QED BY <1>7, <1>8, <2>1, <2>2
<1>11. Sound(g)
  <2>1. ASSUME NEW k \in 1 .. c
        PROVE  Whole(g, k) = IF LoadedUpTo(g, k).multi THEN Whole(g, k - 1) ELSE LoadedUpTo(g, k).data
    <3>1. k \in 1 .. n /\ k \in 0 .. c /\ k - 1 \in 0 .. c
      BY <1>1, <1>2
    <3> QED BY <1>a, <1>7, <3>1
  <2> QED BY <1>1, <1>2, <1>6, <2>1 DEF Sound
<1>12. \A k \in s .. c : \E j \in f.synced .. n : Whole(g, k) = Whole(f, j) /\ (f.synced <= c => j = k) /\ (f.synced > c => j = f.synced)
  <2>1. CASE f.synced <= c
    BY <1>1, <1>2, <1>7, <2>1
  <2>2. CASE f.synced > c
    <3>1. \A k \in s .. c : k = s
      BY <1>1, <1>2, <2>2
    <3>2. f.synced \in f.synced .. n
      BY <1>1
    <3> QED BY <1>9, <2>2, <3>1, <3>2
  <2> QED BY <1>1, <1>2, <2>1, <2>2
<1>13. Recalls(H, g)
  BY <1>6, <1>12 DEF GoodFile, Recalls, n
<1>14. Climbs(g)
  <2> SUFFICES ASSUME NEW j \in s .. c, NEW k \in s .. c, j <= k PROVE Leq(Whole(g, j), Whole(g, k))
    BY <1>6 DEF Climbs
  <2>1. CASE f.synced <= c
    <3>1. j \in f.synced .. n /\ k \in f.synced .. n /\ j \in 0 .. c /\ k \in 0 .. c
      BY <1>1, <1>2, <2>1
    <3>2. Leq(Whole(f, j), Whole(f, k))
      BY <3>1 DEF GoodFile, Climbs, n
    <3> QED BY <1>7, <3>1, <3>2
  <2>2. CASE f.synced > c
    <3>1. j = s /\ k = s /\ f.synced \in 0 .. Len(f.loads)
      BY <1>1, <1>2, <2>2 DEF n
    <3>2. Whole(f, f.synced) \in DataSet
      BY <1>1, <3>1, LoadedType
    <3> QED BY <1>9, <3>1, <3>2, LeqOrder
  <2> QED BY <1>1, <1>2, <2>1, <2>2
<1> QED BY <1>6, <1>9, <1>10, <1>11, <1>13, <1>14 DEF GoodFile, g

(* A good file stays good when the history goes on ... *)
LEMMA LongerGood ==
  ASSUME NEW H \in Histories, NEW G \in Histories, Len(H) <= Len(G),
         \A n \in 0 .. Len(H) : State(G, n) = State(H, n),
         NEW f, GoodFile(H, f)
  PROVE  GoodFile(G, f)
<1>1. Len(H) \in Nat /\ Len(G) \in Nat
  BY StateType
<1>2. \A n \in 0 .. Len(H) : n \in 0 .. Len(G)
  BY <1>1
<1>3. \A D : Past(H, D) => Past(G, D)
  BY <1>2 DEF Past
<1> QED BY <1>3 DEF GoodFile, Recalls

(* ... or is cut behind all that is in the file. *)
LEMMA ShorterGood ==
  ASSUME NEW H \in Histories, Ordered(H), NEW n \in 0 .. Len(H),
         NEW f, GoodFile(H, f), Below(f, State(H, n))
  PROVE  GoodFile(SubSeq(H, 1, n), f)
<1> DEFINE G == SubSeq(H, 1, n)
<1>1. Len(G) = n /\ \A i \in 0 .. n : State(G, i) = State(H, i)
  BY OrderedCut
<1>2. n \in Nat /\ Len(H) \in Nat
  BY StateType
<1> HIDE DEF G
<1>3. ASSUME NEW k \in f.synced .. Len(f.loads) PROVE Past(G, Whole(f, k))
  <2>1. PICK i \in 0 .. Len(H) : Whole(f, k) = State(H, i)
    BY DEF GoodFile, Recalls, Past
  <2>2. Leq(State(H, i), State(H, n))
    BY <2>1 DEF Below
  <2>3. i <= n
    BY <2>2, PastOrder
  <2>4. i \in 0 .. n
    BY <1>2, <2>3
  <2> QED BY <1>1, <2>1, <2>4 DEF Past
<1> QED BY <1>3 DEF GoodFile, Recalls, G

(* Some of the records, and a part of the next. *)
Torn(f, q, n) == [Write(f, SubSeq(q, 1, n)) EXCEPT !.torn = TRUE]

(* A write that is cut short after some records, in the middle of the      *)
(* next: what had been there is still there.                               *)
LEMMA WritePartGood ==
  ASSUME NEW H, NEW f \in Files, f.synced <= Len(f.loads), NEW q \in Seq(Records), GoodFile(H, Write(f, q)),
         NEW n \in 0 .. Len(q)
  PROVE  /\ GoodFile(H, Torn(f, q, n)) /\ Torn(f, q, n).synced = f.synced
         /\ Len(f.loads) <= Len(Torn(f, q, n).loads)
         /\ \A k \in 0 .. Len(f.loads) : Whole(Torn(f, q, n), k) = Whole(f, k)
<1> DEFINE g == Write(f, SubSeq(q, 1, n))
           t == [g EXCEPT !.torn = TRUE]
           w == Write(f, q)
           p == SubSeq(q, 1, n)
           r == SubSeq(q, n + 1, Len(q))
<1>1. p \in Seq(Records) /\ r \in Seq(Records) /\ q = p \o r
  <2>1. p \in Seq(Records) /\ Len(p) = n /\ \A i \in 1 .. n : p[i] = q[i]
    OBVIOUS
  <2>2. r \in Seq(Records) /\ Len(r) = Len(q) - n /\ \A i \in 1 .. Len(q) - n : r[i] = q[n + i]
    OBVIOUS
  <2> HIDE DEF p, r
  <2>3. p \o r \in Seq(Records) /\ Len(p \o r) = Len(q)
    BY <2>1, <2>2
  <2>4. ASSUME NEW i \in 1 .. Len(q) PROVE (p \o r)[i] = q[i]
    <3>1. CASE i <= n
      <4>1. (p \o r)[i] = p[i] /\ i \in 1 .. n
        BY <2>1, <2>2, <3>1
      <4> QED BY <2>1, <4>1
    <3>2. CASE i > n
      <4>1. (p \o r)[i] = r[i - n] /\ i - n \in 1 .. Len(q) - n /\ n + (i - n) = i
        BY <2>1, <2>2, <3>2
      <4> QED BY <2>2, <4>1
    <3>3. i <= n \/ i > n
      OBVIOUS
    <3> QED BY <3>1, <3>2, <3>3
  <2>5. p \o r = q
    BY <2>3, <2>4, SeqEqual
  <2> QED BY <2>1, <2>2, <2>5
<1>2. g \in Files /\ w \in Files /\ w = Write(g, r)
  <2>1. g = Write(f, p) /\ w = Write(f, q)
    OBVIOUS
  <2> HIDE DEF p, r, g, w
  <2>2. g \in Files /\ w \in Files
    BY <1>1, <2>1, WriteFacts
  <2>3. w = Write(Write(f, p), r)
    BY <1>1, <2>1, WriteConcat
  <2> QED BY <2>1, <2>2, <2>3
<1> HIDE DEF p, r
<1>3. Prolongs(g, f) /\ Prolongs(w, g)
  BY <1>1, <1>2, WriteProlongs DEF p
<1> HIDE DEF g, w
<1>4. t \in Files /\ t.loads = g.loads /\ t.synced = g.synced
  BY <1>2 DEF Files
<1>5. f.synced \in Nat /\ Len(f.loads) \in Nat /\ Len(g.loads) \in Nat /\ Len(w.loads) \in Nat
  BY <1>2, EndType DEF Files
<1> HIDE DEF t
<1>6. GoodFile(H, w)
  BY DEF w
<1>7. GoodFile(H, g)
  <2>1. /\ Len(g.loads) <= Len(w.loads) /\ w.synced <= g.synced /\ g.synced <= Len(g.loads)
        /\ \A k \in 0 .. Len(g.loads) : LoadedUpTo(g, k) = LoadedUpTo(w, k)
    BY <1>3, <1>5 DEF Prolongs
  <2> QED BY <1>2, <1>6, <2>1, PartGood
<1>8. \A k \in 0 .. Len(g.loads) : LoadedUpTo(t, k) = LoadedUpTo(g, k)
  BY <1>4 DEF LoadedUpTo
<1>9. GoodFile(H, t)
  <2>1. /\ Len(t.loads) <= Len(g.loads) /\ g.synced <= t.synced /\ t.synced <= Len(t.loads)
    BY <1>3, <1>4, <1>5 DEF Prolongs
  <2> QED BY <1>4, <1>7, <1>8, <2>1, PartGood
<1>10. \A k \in 0 .. Len(f.loads) : Whole(g, k) = Whole(f, k) /\ Whole(t, k) = Whole(f, k)
  BY <1>3, <1>4, <1>5, <1>8 DEF Prolongs, Whole
<1>11. Len(f.loads) <= Len(t.loads) /\ t.synced = f.synced
  BY <1>3, <1>4 DEF Prolongs
<1>12. t = Torn(f, q, n)
  BY DEF Torn, t, g
<1> QED BY <1>9, <1>10, <1>11, <1>12

-----------------------------------------------------------------------------
(* Single records at the end of a good file.                               *)

(* Outside of a transaction, and inside of one. *)
Idle(x, D) == ~x.multi /\ x.data = D /\ x.whole = D
Busy(x, D, W) == x.multi /\ x.data = D /\ x.whole = W

Plus(D, d) == [D EXCEPT ![d] = @ + 1]

(* INCR makes a database larger, and another one. *)
LEMMA PlusFacts ==
  ASSUME NEW D \in DataSet, NEW d \in Dbs
  PROVE  Plus(D, d) \in DataSet /\ Leq(D, Plus(D, d)) /\ D # Plus(D, d)
<1>1. \A e \in Dbs : D[e] \in Nat
  BY DEF DataSet
<1>2. D[d] + 1 \in Nat /\ D[d] + 1 # D[d]
  BY <1>1
<1>3. Plus(D, d) \in DataSet /\ Plus(D, d)[d] = D[d] + 1 /\ \A e \in Dbs \ {d} : Plus(D, d)[e] = D[e]
  BY <1>2 DEF DataSet, Plus
<1> QED BY <1>1, <1>2, <1>3 DEF Leq

(* A SELECT at the end of a file changes nothing but the database of the   *)
(* next record.                                                            *)
LEMMA SelectGood ==
  ASSUME NEW H, NEW f, GoodFile(H, f), NEW d \in Dbs
  PROVE  LET g == AppendRecord(f, Select(d))
         IN /\ GoodFile(H, g) /\ End(g).db = d
            /\ \A D : Idle(End(f), D) => Idle(End(g), D)
            /\ \A D, W : Busy(End(f), D, W) => Busy(End(g), D, W)
<1> DEFINE x == End(f)
           y == Replayed(x, Select(d))
<1>1. f \in Files /\ x \in LoaderSet /\ x.whole \in DataSet /\ Past(H, x.whole) /\ Select(d) \in Records
  BY GoodEnd DEF Records
<1>2. ~x.multi => x.whole = x.data
  <2>1. Len(f.loads) \in Nat
    BY <1>1, EndType
  <2>2. CASE Len(f.loads) = 0
    BY <2>2 DEF End, LoadedUpTo, Loader
  <2>3. CASE Len(f.loads) # 0
    <3>1. Len(f.loads) \in 1 .. Len(f.loads)
      BY <2>1, <2>3
    <3> QED BY <3>1 DEF GoodFile, Sound, End, Whole
  <2> QED BY <2>2, <2>3
<1>3. Ran(x, Select(d)) = [x EXCEPT !.db = d]
  BY RanCases
<1>4. y = Settled([x EXCEPT !.db = d])
  BY <1>3 DEF Replayed, Settled
<1> HIDE DEF x, y
<1>5. y.db = d /\ y.data = x.data /\ (y.multi <=> x.multi) /\ y.whole = x.whole
  <2>1. CASE x.multi
    BY <1>1, <1>4, <2>1 DEF Settled, LoaderSet
  <2>2. CASE ~x.multi
    BY <1>1, <1>2, <1>4, <2>2 DEF Settled, LoaderSet
  <2> QED BY <2>1, <2>2
<1>6. Past(H, y.whole) /\ Leq(x.whole, y.whole)
  BY <1>1, <1>5, LeqOrder
<1>7. GoodFile(H, AppendRecord(f, Select(d))) /\ End(AppendRecord(f, Select(d))) = y
  BY <1>1, <1>6, AppendGood DEF x, y
<1> QED BY <1>5, <1>7 DEF Idle, Busy, x

(* An INCR at the end of a file that is outside of a transaction makes it  *)
(* the state with one key incremented, if there was such a state.          *)
LEMMA IncrGood ==
  ASSUME NEW H, NEW f, GoodFile(H, f), NEW D \in DataSet, NEW W \in DataSet,
         \/ Idle(End(f), D) /\ Past(H, Plus(D, End(f).db))
         \/ Busy(End(f), D, W)
  PROVE  LET g == AppendRecord(f, Incr)
         IN /\ GoodFile(H, g) /\ End(g).db = End(f).db
            /\ Idle(End(f), D) => Idle(End(g), Plus(D, End(f).db))
            /\ Busy(End(f), D, W) => Busy(End(g), Plus(D, End(f).db), W)
<1> DEFINE x == End(f)
           y == Replayed(x, Incr)
           P == Plus(D, x.db)
<1>1. f \in Files /\ x \in LoaderSet /\ x.whole \in DataSet /\ Past(H, x.whole) /\ Incr \in Records
      /\ x.db \in Dbs
  <2>1. f \in Files /\ x \in LoaderSet /\ x.whole \in DataSet /\ Past(H, x.whole)
    BY GoodEnd
  <2> QED BY <2>1 DEF Records, LoaderSet
<1>2. x.data = D
  BY DEF Idle, Busy
<1>3. Ran(x, Incr) = [x EXCEPT !.data[x.db] = @ + 1]
  BY RanCases
<1>4. P \in DataSet /\ Leq(D, P)
  BY <1>1, PlusFacts
<1>5. y = Settled([x EXCEPT !.data[x.db] = @ + 1])
  BY <1>3 DEF Replayed, Settled
<1> HIDE DEF x, y
<1>6. [x EXCEPT !.data[x.db] = @ + 1] = [x EXCEPT !.data = P]
  BY <1>1, <1>2 DEF LoaderSet, Plus, DataSet
<1>7. y = Settled([x EXCEPT !.data = P])
  BY <1>5, <1>6
<1> HIDE DEF P
<1>8. y.db = x.db /\ y.data = P /\ (y.multi <=> x.multi)
      /\ (x.multi => y.whole = x.whole) /\ (~x.multi => y.whole = P)
  <2>1. CASE x.multi
    BY <1>1, <1>7, <2>1 DEF Settled, LoaderSet
  <2>2. CASE ~x.multi
    BY <1>1, <1>7, <2>2 DEF Settled, LoaderSet
  <2> QED BY <2>1, <2>2
<1>9. Past(H, y.whole) /\ Leq(x.whole, y.whole)
  <2>1. CASE x.multi
    BY <1>1, <1>8, <2>1, LeqOrder
  <2>2. CASE ~x.multi
    <3>1. Idle(x, D) /\ Past(H, P)
      BY <2>2 DEF Idle, Busy, x, P
    <3> QED BY <1>4, <1>8, <2>2, <3>1 DEF Idle
  <2> QED BY <2>1, <2>2
<1>10. GoodFile(H, AppendRecord(f, Incr)) /\ End(AppendRecord(f, Incr)) = y
  BY <1>1, <1>9, AppendGood DEF x, y
<1> QED BY <1>8, <1>10 DEF Idle, Busy, x, P

(* Behind a MULTI, the file is worth what it was before. *)
LEMMA MultiGood ==
  ASSUME NEW H, NEW f, GoodFile(H, f), NEW D, Idle(End(f), D)
  PROVE  LET g == AppendRecord(f, Multi)
         IN GoodFile(H, g) /\ End(g).db = End(f).db /\ Busy(End(g), D, D)
<1> DEFINE x == End(f)
           y == Replayed(x, Multi)
<1>1. f \in Files /\ x \in LoaderSet /\ x.whole \in DataSet /\ Past(H, x.whole) /\ Multi \in Records
  BY GoodEnd DEF Records
<1>2. Ran(x, Multi) = [x EXCEPT !.multi = TRUE]
  BY RanCases
<1>3. y = Settled([x EXCEPT !.multi = TRUE])
  BY <1>2 DEF Replayed, Settled
<1>a. Idle(x, D)
  OBVIOUS
<1> HIDE DEF x, y
<1>4. y.db = x.db /\ y.data = x.data /\ y.multi /\ y.whole = x.whole
  BY <1>1, <1>3 DEF Settled, LoaderSet
<1>5. Past(H, y.whole) /\ Leq(x.whole, y.whole)
  BY <1>1, <1>4, LeqOrder
<1>6. GoodFile(H, AppendRecord(f, Multi)) /\ End(AppendRecord(f, Multi)) = y
  BY <1>1, <1>5, AppendGood DEF x, y
<1>7. Busy(y, D, D)
  BY <1>4, <1>a DEF Idle, Busy
<1> QED BY <1>4, <1>6, <1>7 DEF x

(* An EXEC makes everything behind the MULTI count, all at once. *)
LEMMA ExecGood ==
  ASSUME NEW H, NEW f, GoodFile(H, f), NEW D, NEW W, Busy(End(f), D, W), Past(H, D), Leq(W, D)
  PROVE  LET g == AppendRecord(f, Exec)
         IN GoodFile(H, g) /\ End(g).db = End(f).db /\ Idle(End(g), D)
<1> DEFINE x == End(f)
           y == Replayed(x, Exec)
<1>1. f \in Files /\ x \in LoaderSet /\ Exec \in Records
  BY GoodEnd DEF Records
<1>2. Ran(x, Exec) = [x EXCEPT !.multi = FALSE]
  BY RanCases
<1>3. y = Settled([x EXCEPT !.multi = FALSE])
  BY <1>2 DEF Replayed, Settled
<1>a. Busy(x, D, W)
  OBVIOUS
<1> HIDE DEF x, y
<1>4. y.db = x.db /\ y.data = x.data /\ ~y.multi /\ y.whole = x.data
  BY <1>1, <1>3 DEF Settled, LoaderSet
<1>5. Past(H, y.whole) /\ Leq(x.whole, y.whole)
  BY <1>4, <1>a DEF Busy
<1>6. GoodFile(H, AppendRecord(f, Exec)) /\ End(AppendRecord(f, Exec)) = y
  BY <1>1, <1>5, AppendGood DEF x, y
<1>7. Idle(y, D)
  BY <1>4, <1>a DEF Idle, Busy
<1> QED BY <1>4, <1>6, <1>7 DEF x

-----------------------------------------------------------------------------
(* What a modification adds to the buffers.                                *)

FedSet == [recs : Seq(Records), sel : Nat]
AtDb(f, sel) == sel # NoDb => End(f).db = sel

(* u is what AppendRecord makes of w, but for a SELECT between them. *)
Selected(H, w, u, d, rec) ==
  \E v : /\ GoodFile(H, v) /\ End(v).db = d /\ u = AppendRecord(v, rec)
         /\ \A D : Idle(End(w), D) => Idle(End(v), D)
         /\ \A D, W : Busy(End(w), D, W) => Busy(End(v), D, W)

(* If necessary there is a SELECT, and then the record. *)
LEMMA FeedFacts ==
  ASSUME NEW H, NEW f \in Files, NEW x \in FedSet, NEW d \in Dbs, NEW rec \in Records,
         GoodFile(H, Write(f, x.recs)), AtDb(Write(f, x.recs), x.sel)
  PROVE  LET g == feedAppendOnlyFile(x, d, rec)
         IN /\ g \in FedSet /\ g.sel = d /\ g.recs # <<>>
            /\ Selected(H, Write(f, x.recs), Write(f, g.recs), d, rec)
<1> DEFINE g == feedAppendOnlyFile(x, d, rec)
           w == Write(f, x.recs)
           v == IF d # x.sel THEN AppendRecord(w, Select(d)) ELSE w
           q == IF d # x.sel THEN Append(x.recs, Select(d)) ELSE x.recs
<1>1. x.recs \in Seq(Records) /\ x.sel \in Nat /\ d \in Nat /\ d # NoDb /\ Select(d) \in Records
  BY DbFacts DEF FedSet, Records
<1>2. q \in Seq(Records)
  BY <1>1
<1>3. g = [recs |-> Append(q, rec), sel |-> d]
  <2>1. x.recs \o <<Select(d)>> \o <<rec>> = Append(Append(x.recs, Select(d)), rec)
    BY <1>1
  <2>2. x.recs \o <<>> \o <<rec>> = Append(x.recs, rec)
    BY <1>1
  <2>3. CASE d # x.sel
    BY <2>1, <2>3 DEF feedAppendOnlyFile
  <2>4. CASE d = x.sel
    BY <2>2, <2>4 DEF feedAppendOnlyFile
  <2> QED BY <2>3, <2>4
<1>4. Write(f, q) = v /\ v \in Files
  <2>1. w \in Files /\ Write(f, Append(x.recs, Select(d))) = AppendRecord(w, Select(d))
    BY <1>1, WriteFacts
  <2>2. AppendRecord(w, Select(d)) \in Files
    BY <1>1, <2>1, AppendRecordFacts
  <2> QED BY <2>1, <2>2
<1>5. /\ GoodFile(H, v) /\ End(v).db = d
      /\ \A D : Idle(End(w), D) => Idle(End(v), D)
      /\ \A D, W : Busy(End(w), D, W) => Busy(End(v), D, W)
  <2>1. CASE d # x.sel
    BY <2>1, SelectGood
  <2>2. CASE d = x.sel
    BY <1>1, <2>2 DEF AtDb
  <2> QED BY <2>1, <2>2
<1> HIDE DEF w, v, q, g
<1>6. Append(q, rec) \in Seq(Records) /\ Append(q, rec) # <<>>
  BY <1>2
<1>7. Write(f, Append(q, rec)) = AppendRecord(v, rec)
  BY <1>2, <1>4, WriteFacts
<1>8. g \in FedSet /\ g.sel = d /\ g.recs = Append(q, rec)
  BY <1>1, <1>3, <1>6 DEF FedSet
<1>9. Selected(H, w, Write(f, g.recs), d, rec)
  BY <1>5, <1>7, <1>8 DEF Selected
<1> QED BY <1>6, <1>8, <1>9 DEF w, g

(* x is what has been fed to f, and leaves it in database d. *)
IdleFed(H, f, x, D) ==
  /\ x \in FedSet
  /\ GoodFile(H, Write(f, x.recs)) /\ Idle(End(Write(f, x.recs)), D)
  /\ AtDb(Write(f, x.recs), x.sel)
BusyFed(H, f, x, D, W) ==
  /\ x \in FedSet
  /\ GoodFile(H, Write(f, x.recs)) /\ Busy(End(Write(f, x.recs)), D, W)
  /\ AtDb(Write(f, x.recs), x.sel)

(* feedAppendOnlyFile of an INCR outside of a transaction. *)
LEMMA FeedIncrIdle ==
  ASSUME NEW H, NEW f \in Files, NEW x, NEW D \in DataSet, IdleFed(H, f, x, D),
         NEW d \in Dbs, Past(H, Plus(D, d))
  PROVE  IdleFed(H, f, Call(x, d), Plus(D, d)) /\ Call(x, d).recs # <<>> /\ Call(x, d).sel = d
<1> DEFINE g == feedAppendOnlyFile(x, d, Incr)
<1>0. /\ x \in FedSet /\ GoodFile(H, Write(f, x.recs)) /\ AtDb(Write(f, x.recs), x.sel)
      /\ Idle(End(Write(f, x.recs)), D) /\ Incr \in Records
  BY DEF IdleFed, Records
<1>1. /\ g \in FedSet /\ g.sel = d /\ g.recs # <<>>
      /\ Selected(H, Write(f, x.recs), Write(f, g.recs), d, Incr)
  BY <1>0, FeedFacts
<1> HIDE DEF g
<1>2. PICK v : /\ GoodFile(H, v) /\ End(v).db = d
               /\ Write(f, g.recs) = AppendRecord(v, Incr)
               /\ Idle(End(v), D)
  BY <1>0, <1>1 DEF Selected
<1>3. /\ GoodFile(H, AppendRecord(v, Incr)) /\ End(AppendRecord(v, Incr)).db = d
      /\ Idle(End(AppendRecord(v, Incr)), Plus(D, d))
  BY <1>2, IncrGood
<1>4. IdleFed(H, f, g, Plus(D, d))
  BY <1>1, <1>2, <1>3 DEF IdleFed, AtDb
<1> QED BY <1>1, <1>4 DEF g, Call

(* feedAppendOnlyFile of an INCR within a transaction. *)
LEMMA FeedIncrBusy ==
  ASSUME NEW H, NEW f \in Files, NEW x, NEW D \in DataSet, NEW W \in DataSet, BusyFed(H, f, x, D, W),
         NEW d \in Dbs
  PROVE  BusyFed(H, f, Call(x, d), Plus(D, d), W)
<1> DEFINE g == feedAppendOnlyFile(x, d, Incr)
<1>0. /\ x \in FedSet /\ GoodFile(H, Write(f, x.recs)) /\ AtDb(Write(f, x.recs), x.sel)
      /\ Busy(End(Write(f, x.recs)), D, W) /\ Incr \in Records
  BY DEF BusyFed, Records
<1>1. /\ g \in FedSet /\ g.sel = d /\ g.recs # <<>>
      /\ Selected(H, Write(f, x.recs), Write(f, g.recs), d, Incr)
  BY <1>0, FeedFacts
<1> HIDE DEF g
<1>2. PICK v : /\ GoodFile(H, v) /\ End(v).db = d
               /\ Write(f, g.recs) = AppendRecord(v, Incr)
               /\ Busy(End(v), D, W)
  BY <1>0, <1>1 DEF Selected
<1>3. /\ GoodFile(H, AppendRecord(v, Incr)) /\ End(AppendRecord(v, Incr)).db = d
      /\ Busy(End(AppendRecord(v, Incr)), Plus(D, d), W)
  BY <1>2, IncrGood
<1>4. BusyFed(H, f, g, Plus(D, d), W)
  BY <1>1, <1>2, <1>3 DEF BusyFed, AtDb
<1> QED BY <1>4 DEF g, Call

(* feedAppendOnlyFile of a MULTI. *)
LEMMA FeedMulti ==
  ASSUME NEW H, NEW f \in Files, NEW x, NEW D, IdleFed(H, f, x, D), NEW d \in Dbs
  PROVE  BusyFed(H, f, feedAppendOnlyFile(x, d, Multi), D, D)
<1> DEFINE g == feedAppendOnlyFile(x, d, Multi)
<1>0. /\ x \in FedSet /\ GoodFile(H, Write(f, x.recs)) /\ AtDb(Write(f, x.recs), x.sel)
      /\ Idle(End(Write(f, x.recs)), D) /\ Multi \in Records
  BY DEF IdleFed, Records
<1>1. /\ g \in FedSet /\ g.sel = d /\ g.recs # <<>>
      /\ Selected(H, Write(f, x.recs), Write(f, g.recs), d, Multi)
  BY <1>0, FeedFacts
<1> HIDE DEF g
<1>2. PICK v : /\ GoodFile(H, v) /\ End(v).db = d
               /\ Write(f, g.recs) = AppendRecord(v, Multi)
               /\ Idle(End(v), D)
  BY <1>0, <1>1 DEF Selected
<1>3. /\ GoodFile(H, AppendRecord(v, Multi)) /\ End(AppendRecord(v, Multi)).db = d
      /\ Busy(End(AppendRecord(v, Multi)), D, D)
  BY <1>2, MultiGood
<1>4. BusyFed(H, f, g, D, D)
  BY <1>1, <1>2, <1>3 DEF BusyFed, AtDb
<1> QED BY <1>4 DEF g

(* feedAppendOnlyFile of an EXEC. *)
LEMMA FeedExec ==
  ASSUME NEW H, NEW f \in Files, NEW x, NEW D, NEW W, BusyFed(H, f, x, D, W), NEW d \in Dbs,
         Past(H, D), Leq(W, D)
  PROVE  LET g == feedAppendOnlyFile(x, d, Exec)
         IN IdleFed(H, f, g, D) /\ g.recs # <<>> /\ g.sel = d
<1> DEFINE g == feedAppendOnlyFile(x, d, Exec)
<1>0. /\ x \in FedSet /\ GoodFile(H, Write(f, x.recs)) /\ AtDb(Write(f, x.recs), x.sel)
      /\ Busy(End(Write(f, x.recs)), D, W) /\ Exec \in Records
  BY DEF BusyFed, Records
<1>1. /\ g \in FedSet /\ g.sel = d /\ g.recs # <<>>
      /\ Selected(H, Write(f, x.recs), Write(f, g.recs), d, Exec)
  BY <1>0, FeedFacts
<1> HIDE DEF g
<1>2. PICK v : /\ GoodFile(H, v) /\ End(v).db = d
               /\ Write(f, g.recs) = AppendRecord(v, Exec)
               /\ Busy(End(v), D, W)
  BY <1>0, <1>1 DEF Selected
<1>3. /\ GoodFile(H, AppendRecord(v, Exec)) /\ End(AppendRecord(v, Exec)).db = d
      /\ Idle(End(AppendRecord(v, Exec)), D)
  BY <1>2, ExecGood
<1>4. IdleFed(H, f, g, D)
  BY <1>1, <1>2, <1>3 DEF IdleFed, AtDb
<1> QED BY <1>1, <1>4 DEF g

(* A command of one database after the other. *)
CallStep == [p \in FedSet \X Dbs |-> Call(p[1], p[2])]

(* What call feeds is a sequence of records and a database. *)
LEMMA CallType ==
  ASSUME NEW x \in FedSet, NEW d \in Dbs
  PROVE  Call(x, d) \in FedSet
<1>1. x.recs \in Seq(Records) /\ x.sel \in Nat /\ d \in Nat /\ Select(d) \in Records /\ Incr \in Records
  BY DbFacts DEF FedSet, Records
<1> DEFINE s == IF d # x.sel THEN <<Select(d)>> ELSE <<>>
<1>2. s \in Seq(Records)
  BY <1>1
<1>3. Call(x, d) = [recs |-> x.recs \o s \o <<Incr>>, sel |-> d]
  BY DEF Call, feedAppendOnlyFile
<1> HIDE DEF s
<1>4. x.recs \o s \o <<Incr>> \in Seq(Records)
  BY <1>1, <1>2
<1> QED BY <1>1, <1>3, <1>4 DEF FedSet

(* CallStep stays among what can be fed, and is Call there. *)
LEMMA CallStepType ==
  /\ Stays(CallStep, FedSet, Dbs)
  /\ \A x \in FedSet, d \in Dbs : CallStep[<<x, d>>] = Call(x, d)
<1>1. ASSUME NEW p \in FedSet \X Dbs PROVE Call(p[1], p[2]) \in FedSet
  BY CallType
<1>2. \A x \in FedSet, d \in Dbs : <<x, d>> \in FedSet \X Dbs
  OBVIOUS
<1> HIDE DEF FedSet, Dbs
<1> QED BY <1>1, <1>2 DEF CallStep, Stays

(* Feeding the commands of a modification is running CallStep over them. *)
LEMMA CallFold ==
  ASSUME NEW b \in FedSet, NEW q \in Seq(Dbs)
  PROVE  FoldLeft(Call, b, q) = Result(CallStep, b, q)
<1> DEFINE P(g) == g = [s \in SUBSET DOMAIN q |->
             IF s = {} THEN b ELSE Call(g[s \ {Max(s)}], q[Max(s)])]
<1>1. FoldLeft(Call, b, q) = (CHOOSE g : P(g))[DOMAIN q]
  BY Zenon DEF FoldLeft, MapThenFoldSet
<1>2. DOMAIN q = 1 .. Len(q) /\ Len(q) \in Nat
  OBVIOUS
<1>3. PICK f : IsFold(f, FedSet, CallStep, b, q)
  BY CallStepType, SubsetFoldOfSequence, Zenon
<1>4. P(f)
  <2>1. f \in [SUBSET (1 .. Len(q)) -> FedSet] /\ f = SubsetStep(CallStep, b, q, f)
    BY <1>3 DEF IsFold
  <2>2. ASSUME NEW s \in SUBSET (1 .. Len(q)), s # {}
        PROVE  f[s] = Call(f[s \ {Max(s)}], q[Max(s)])
    <3>1. Max(s) \in 1 .. Len(q)
      BY <1>2, <2>2, MaxOfPositions
    <3>2. q[Max(s)] \in Dbs
      BY <3>1
    <3>a. f[s \ {Max(s)}] \in FedSet
      <4>1. s \ {Max(s)} \in SUBSET (1 .. Len(q))
        OBVIOUS
      <4> QED BY <2>1, <4>1
    <3>3. f[s] = CallStep[<<f[s \ {Max(s)}], q[Max(s)]>>]
      BY <2>1, <2>2 DEF SubsetStep
    <3> QED BY <3>2, <3>a, <3>3, CallStepType
  <2>3. f[{}] = b
    BY <2>1 DEF SubsetStep
  <2>4. f = [s \in SUBSET (1 .. Len(q)) |-> f[s]]
    BY <2>1
  <2> QED BY <1>2, <2>2, <2>3, <2>4, Zenon
<1>5. P(CHOOSE g : P(g))
  <2> HIDE DEF P
  <2> QED BY <1>4, Zenon
<1> DEFINE g == CHOOSE g : P(g)
<1>6. /\ g[{}] = b
      /\ \A s \in SUBSET (1 .. Len(q)) : s # {} =>
            g[s] = Call(g[s \ {Max(s)}], q[Max(s)])
  BY <1>2, <1>5
<1> HIDE DEF g
<1>7. SolvesFold(g, FedSet, CallStep, b, q)
  <2> SUFFICES ASSUME NEW s \in SUBSET (1 .. Len(q)), s # {}, g[s \ {Max(s)}] \in FedSet
               PROVE  g[s] = CallStep[<<g[s \ {Max(s)}], q[Max(s)]>>]
    BY <1>6, Zenon DEF SolvesFold
  <2>1. Max(s) \in 1 .. Len(q)
    BY <1>2, MaxOfPositions
  <2>2. q[Max(s)] \in Dbs
    BY <2>1
  <2> QED BY <1>6, <2>2, CallStepType
<1>8. Gives(g, CallStep, b, q)
  <2>1. Stays(CallStep, FedSet, Dbs)
    BY CallStepType
  <2> QED BY <1>7, <2>1, FoldIsResult
<1> QED BY <1>1, <1>2, <1>8 DEF g, Gives

(* A second element. *)
LEMMA AppendSecond ==
  ASSUME NEW S, NEW q \in Seq(S), Len(q) = 1, NEW elt \in S
  PROVE  /\ Append(q, elt) \in Seq(S) /\ Len(Append(q, elt)) = 2
         /\ Append(q, elt)[1] = q[1] /\ Append(q, elt)[2] = elt
<1>1. ASSUME NEW r \in Seq(S)
      PROVE  /\ Append(r, elt) \in Seq(S) /\ Len(Append(r, elt)) = Len(r) + 1
             /\ \A i \in 1 .. Len(r) : Append(r, elt)[i] = r[i]
             /\ Append(r, elt)[Len(r) + 1] = elt
  OBVIOUS
<1>2. /\ Append(q, elt) \in Seq(S) /\ Len(Append(q, elt)) = Len(q) + 1
      /\ \A i \in 1 .. Len(q) : Append(q, elt)[i] = q[i]
      /\ Append(q, elt)[Len(q) + 1] = elt
  BY <1>1, Zenon
<1>3. Len(q) + 1 = 2 /\ 1 \in 1 .. Len(q)
  OBVIOUS
<1> QED BY <1>2, <1>3, Zenon

(* A modification has one command, or two. *)
LEMMA CallsAre ==
  ASSUME NEW b \in FedSet, NEW m \in Seq(Dbs)
  PROVE  /\ Len(m) = 1 => FoldLeft(Call, b, m) = Call(b, m[1])
         /\ Len(m) = 2 => FoldLeft(Call, b, m) = Call(Call(b, m[1]), m[2])
<1>1. Stays(CallStep, FedSet, Dbs)
  BY CallStepType
<1>2. <<>> \in Seq(Dbs)
  OBVIOUS
<1>3. FoldLeft(Call, b, m) = Result(CallStep, b, m)
  BY CallFold
<1>4. Result(CallStep, b, <<>>) = b
  BY <1>1, ResultEmpty
<1>5. ASSUME NEW d \in Dbs
      PROVE  Append(<<>>, d) \in Seq(Dbs) /\ Result(CallStep, b, Append(<<>>, d)) = Call(b, d)
  <2>1. ASSUME NEW z \in Seq(Dbs) PROVE Result(CallStep, b, Append(z, d)) = CallStep[<<Result(CallStep, b, z), d>>]
    BY <1>1, ResultAppend
  <2>2. Result(CallStep, b, Append(<<>>, d)) = CallStep[<<Result(CallStep, b, <<>>), d>>]
    BY <1>2, <2>1, Zenon
  <2>3. Append(<<>>, d) \in Seq(Dbs)
    OBVIOUS
  <2>4. Result(CallStep, b, Append(<<>>, d)) = CallStep[<<b, d>>]
    BY <1>4, <2>2, Zenon
  <2>5. CallStep[<<b, d>>] = Call(b, d)
    BY CallStepType
  <2> QED BY <2>3, <2>4, <2>5, Zenon
<1>6. CASE Len(m) = 1
  <2>1. m[1] \in Dbs /\ m = Append(<<>>, m[1])
    BY <1>6
  <2>2. Result(CallStep, b, Append(<<>>, m[1])) = Call(b, m[1])
    BY <1>5, <2>1
  <2> QED BY <1>3, <1>6, <2>1, <2>2
<1>7. CASE Len(m) = 2
  <2> DEFINE p == Append(<<>>, m[1])
  <2>0. m[1] \in Dbs /\ m[2] \in Dbs
    BY <1>7
  <2>1. m[1] \in Dbs /\ m[2] \in Dbs /\ m = Append(p, m[2])
    <3>1. p \in Seq(Dbs) /\ Len(p) = 1 /\ p[1] = m[1]
      BY <2>0
    <3> HIDE DEF p
    <3> DEFINE e == m[2]
    <3>a. e \in Dbs
      BY <2>0
    <3> HIDE DEF e
    <3>b. Append(p, e) \in Seq(Dbs) /\ Len(Append(p, e)) = 2
          /\ Append(p, e)[1] = p[1] /\ Append(p, e)[2] = e
      BY <3>a, <3>1, AppendSecond
    <3>2. Append(p, m[2]) \in Seq(Dbs) /\ Len(Append(p, m[2])) = 2
          /\ Append(p, m[2])[1] = m[1] /\ Append(p, m[2])[2] = m[2]
      BY <3>b, <3>1 DEF e
    <3>3. \A i \in 1 .. 2 : i = 1 \/ i = 2
      OBVIOUS
    <3>4. \A i \in 1 .. Len(m) : m[i] = Append(p, m[2])[i]
      BY <1>7, <3>2, <3>3
    <3> QED BY <1>7, <2>0, <3>2, <3>4, SeqEqual
  <2>2. p \in Seq(Dbs) /\ Result(CallStep, b, p) = Call(b, m[1])
    BY <1>5, <2>1
  <2> HIDE DEF p
  <2>3. Result(CallStep, b, Append(p, m[2])) = CallStep[<<Result(CallStep, b, p), m[2]>>]
    BY <1>1, <2>1, <2>2, ResultAppend
  <2>4. Call(b, m[1]) \in FedSet
    BY <2>1, CallType
  <2>5. Result(CallStep, b, Append(p, m[2])) = Call(Call(b, m[1]), m[2])
    BY <2>1, <2>2, <2>3, <2>4, CallStepType
  <2>6. FoldLeft(Call, b, m) = Call(Call(b, m[1]), m[2])
    BY <1>3, <2>1, <2>5, Zenon
  <2> QED BY <1>7, <2>6
<1> QED BY <1>6, <1>7

Sum2(D, m) == IF Len(m) = 1 THEN Plus(D, m[1]) ELSE Plus(Plus(D, m[1]), m[2])

(* After what is fed for it, the modification can be loaded. *)
LEMMA FedGood ==
  ASSUME NEW H, NEW f, GoodFile(H, f), NEW D \in DataSet, Idle(End(f), D),
         NEW sel \in Nat, AtDb(f, sel),
         NEW m \in Seq(Dbs), Len(m) \in {1, 2}, Past(H, Sum2(D, m))
  PROVE  LET x == Fed(sel, m)
         IN IdleFed(H, f, x, Sum2(D, m)) /\ x.recs # <<>> /\ x.sel \in Dbs
<1> DEFINE b == [recs |-> <<>>, sel |-> sel]
<1>1. f \in Files
  BY GoodEnd
<1>2. Write(f, <<>>) = f
  BY <1>1, WriteFacts
<1>3. b \in FedSet /\ b.recs = <<>> /\ b.sel = sel
  BY DEF FedSet
<1>4. IdleFed(H, f, b, D)
  BY <1>2, <1>3 DEF IdleFed
<1>5. m[1] \in Dbs /\ (Len(m) = 2 => m[2] \in Dbs /\ Last(m) = m[2])
  BY DEF Last
<1> HIDE DEF b
<1>6. CASE Len(m) = 1
  <2>1. Fed(sel, m) = FoldLeft(Call, b, m)
    BY <1>6 DEF Fed, b
  <2>2. Fed(sel, m) = Call(b, m[1]) /\ Sum2(D, m) = Plus(D, m[1])
    BY <1>3, <1>6, <2>1, CallsAre DEF Sum2
  <2> QED BY <1>1, <1>4, <1>5, <2>2, FeedIncrIdle
<1>7. CASE Len(m) = 2
  <2> DEFINE x0 == feedAppendOnlyFile(b, m[1], Multi)
             x1 == Call(x0, m[1])
             x2 == Call(x1, m[2])
             D1 == Plus(D, m[1])
             D2 == Plus(D1, m[2])
  <2>1. BusyFed(H, f, x0, D, D)
    BY <1>1, <1>4, <1>5, FeedMulti
  <2>2. Fed(sel, m) = feedAppendOnlyFile(FoldLeft(Call, x0, m), m[2], Exec)
    BY <1>5, <1>7 DEF Fed, b
  <2>3. x0 \in FedSet
    BY <2>1 DEF BusyFed
  <2> HIDE DEF x0
  <2>4. FoldLeft(Call, x0, m) = x2
    BY <1>7, <2>3, CallsAre
  <2>5. D1 \in DataSet /\ D2 \in DataSet /\ Leq(D, D2) /\ Sum2(D, m) = D2
    <3>1. D1 \in DataSet /\ Leq(D, D1)
      BY <1>5, PlusFacts
    <3>2. D2 \in DataSet /\ Leq(D1, D2)
      BY <1>5, <1>7, <3>1, PlusFacts
    <3> QED BY <1>7, <3>1, <3>2, LeqOrder DEF Sum2
  <2>6. BusyFed(H, f, x1, D1, D)
    BY <1>1, <1>5, <2>1, FeedIncrBusy
  <2> HIDE DEF x1, D1
  <2>7. BusyFed(H, f, x2, D2, D)
    BY <1>1, <1>5, <1>7, <2>5, <2>6, FeedIncrBusy
  <2> HIDE DEF x2, D2
  <2>8. Fed(sel, m) = feedAppendOnlyFile(x2, m[2], Exec)
    BY <2>2, <2>4
  <2> QED BY <1>1, <1>5, <1>7, <2>5, <2>7, <2>8, FeedExec
<1> QED BY <1>6, <1>7

(* The model's counting of the commands. *)
Once(m, i, d) == IF m[i] = d THEN 1 ELSE 0

(* How often a database occurs in a modification with one or two commands. *)
LEMMA CountIs ==
  ASSUME NEW m \in Seq(Dbs), Len(m) \in {1, 2}, NEW d \in Dbs
  PROVE  LET c == Cardinality({ i \in DOMAIN m : m[i] = d })
         IN /\ Len(m) = 1 => c = Once(m, 1, d)
            /\ Len(m) = 2 => c = Once(m, 1, d) + Once(m, 2, d)
<1> DEFINE C == { i \in DOMAIN m : m[i] = d }
<1>1. DOMAIN m = 1 .. Len(m)
  OBVIOUS
<1>a. Once(m, 1, d) = (IF m[1] = d THEN 1 ELSE 0) /\ Once(m, 2, d) = (IF m[2] = d THEN 1 ELSE 0)
  BY DEF Once
<1>2. Cardinality({}) = 0 /\ Cardinality({1}) = 1 /\ Cardinality({2}) = 1 /\ Cardinality({1, 2}) = 2
  <2>1. Cardinality({}) = 0
    BY FS_EmptySet
  <2>2. IsFiniteSet({1}) /\ Cardinality({1}) = 1 /\ Cardinality({2}) = 1
    BY FS_Singleton
  <2>3. Cardinality({1} \cup {2}) = Cardinality({1}) + 1
    <3>1. 2 \notin {1}
      OBVIOUS
    <3> QED BY <2>2, <3>1, FS_AddElement, Zenon
  <2>4. {1} \cup {2} = {1, 2}
    OBVIOUS
  <2>5. \A a, b : a = 1 /\ b = a + 1 => b = 2
    OBVIOUS
  <2>6. Cardinality({1, 2}) = 2
    BY <2>2, <2>3, <2>4, <2>5, Zenon
  <2> QED BY <2>1, <2>2, <2>6, Zenon
<1> DEFINE c == Cardinality(C)
<1>b. SUFFICES /\ Len(m) = 1 => c = Once(m, 1, d)
               /\ Len(m) = 2 => c = Once(m, 1, d) + Once(m, 2, d)
  OBVIOUS
<1> HIDE DEF c
<1>3. CASE Len(m) = 1
  <2>1. CASE m[1] = d
    <3>1. C = {1}
      BY <1>1, <1>3, <2>1
    <3>2. c = 1
      BY <1>2, <3>1, Zenon DEF c
    <3> QED BY <1>a, <3>2, <1>3, <2>1
  <2>2. CASE m[1] # d
    <3>1. C = {}
      BY <1>1, <1>3, <2>2
    <3>2. c = 0
      BY <1>2, <3>1, Zenon DEF c
    <3> QED BY <1>a, <3>2, <1>3, <2>2
  <2> QED BY <2>1, <2>2
<1>4. CASE Len(m) = 2
  <2>1. \A i : i \in C <=> (i = 1 /\ m[1] = d) \/ (i = 2 /\ m[2] = d)
    BY <1>1, <1>4
  <2> HIDE DEF C
  <2>2. CASE m[1] = d /\ m[2] = d
    <3>1. C = {1, 2}
      BY <2>1, <2>2
    <3>2. c = 2
      BY <1>2, <3>1, Zenon DEF c
    <3> QED BY <1>a, <3>2, <1>4, <2>2
  <2>3. CASE m[1] = d /\ m[2] # d
    <3>1. C = {1}
      BY <2>1, <2>3
    <3>2. c = 1
      BY <1>2, <3>1, Zenon DEF c
    <3> QED BY <1>a, <3>2, <1>4, <2>3
  <2>4. CASE m[1] # d /\ m[2] = d
    <3>1. C = {2}
      BY <2>1, <2>4
    <3>2. c = 1
      BY <1>2, <3>1, Zenon DEF c
    <3> QED BY <1>a, <3>2, <1>4, <2>4
  <2>5. CASE m[1] # d /\ m[2] # d
    <3>1. C = {}
      BY <2>1, <2>5
    <3>2. c = 0
      BY <1>2, <3>1, Zenon DEF c
    <3> QED BY <1>a, <3>2, <1>4, <2>5
  <2> QED BY <2>2, <2>3, <2>4, <2>5
<1> QED BY <1>3, <1>4

(* A modification makes the database larger, by at most two in each key. *)
LEMMA ModifiedIs ==
  ASSUME hist \in Histories, NEW m \in Commands
  PROVE  /\ Data = Now(hist) /\ m \in Seq(Dbs) /\ Len(m) \in {1, 2}
         /\ Modified(m) = Sum2(Data, m) /\ Modified(m) \in DataSet
         /\ Leq(Now(hist), Modified(m)) /\ Modified(m) # Now(hist)
         /\ \A d \in Dbs : Modified(m)[d] <= Data[d] + 2
<1>1. m \in Seq(Dbs) /\ Len(m) \in {1, 2}
  BY CommandAssumption
<1>2. Data = Now(hist)
  BY DEF Data, Now, State, Last, Histories
<1>3. Data \in DataSet
  BY <1>2, StateType
<1>4. m[1] \in Dbs /\ (Len(m) = 2 => m[2] \in Dbs)
  BY <1>1
<1> DEFINE D1 == Plus(Data, m[1])
           D2 == Plus(D1, m[2])
<1>5. D1 \in DataSet /\ Leq(Data, D1) /\ Data # D1
  BY <1>3, <1>4, PlusFacts
<1>6. ASSUME Len(m) = 2 PROVE D2 \in DataSet /\ Leq(D1, D2)
  BY <1>4, <1>5, <1>6, PlusFacts
<1>7. \A d \in Dbs : Data[d] \in Nat
  BY <1>3 DEF DataSet
<1>8. \A d \in Dbs : D1[d] = Data[d] + Once(m, 1, d) /\ D1[d] \in Nat
  BY <1>3, <1>7 DEF Plus, DataSet, Once
<1>9. ASSUME Len(m) = 2 PROVE \A d \in Dbs : D2[d] = D1[d] + Once(m, 2, d)
  <2> HIDE DEF D1
  <2> QED BY <1>5, <1>8 DEF Plus, DataSet, Once
<1> HIDE DEF D1, D2
<1>10. \A d \in Dbs : Modified(m)[d] = Data[d] + Cardinality({ i \in DOMAIN m : m[i] = d })
  BY DEF Modified
<1>11. Sum2(Data, m) = IF Len(m) = 1 THEN D1 ELSE D2
  BY DEF Sum2, D1, D2
<1>12. ASSUME NEW d \in Dbs PROVE Modified(m)[d] = Sum2(Data, m)[d] /\ Modified(m)[d] <= Data[d] + 2
  <2> DEFINE c == Cardinality({ i \in DOMAIN m : m[i] = d })
  <2>0. /\ Len(m) = 1 => c = Once(m, 1, d)
        /\ Len(m) = 2 => c = Once(m, 1, d) + Once(m, 2, d)
    BY <1>1, CountIs
  <2>a. Once(m, 1, d) \in {0, 1} /\ Once(m, 2, d) \in {0, 1}
    BY DEF Once
  <2>b. Modified(m)[d] = Data[d] + c
    BY <1>10
  <2> HIDE DEF c
  <2>1. CASE Len(m) = 1
    BY <1>7, <1>8, <1>11, <2>0, <2>a, <2>b, <2>1
  <2>2. CASE Len(m) = 2
    BY <1>7, <1>8, <1>9, <1>11, <2>0, <2>a, <2>b, <2>2
  <2> QED BY <1>1, <2>1, <2>2
<1>13. Sum2(Data, m) \in DataSet /\ Leq(Data, Sum2(Data, m)) /\ Data # Sum2(Data, m)
  <2>1. CASE Len(m) = 1
    BY <1>5, <1>11, <2>1
  <2>2. CASE Len(m) = 2
    <3>1. Leq(Data, D2)
      BY <1>3, <1>5, <1>6, <2>2, LeqOrder
    <3>2. Data # D2
      BY <1>3, <1>5, <1>6, <2>2, LeqOrder
    <3> QED BY <1>6, <1>11, <2>2, <3>1, <3>2
  <2> QED BY <1>1, <2>1, <2>2
<1>14. Modified(m) = Sum2(Data, m)
  <2>1. Modified(m) = [d \in Dbs |-> Modified(m)[d]]
    BY DEF Modified
  <2>2. Sum2(Data, m) = [d \in Dbs |-> Sum2(Data, m)[d]]
    BY <1>13 DEF DataSet
  <2> QED BY <1>12, <2>1, <2>2
<1> QED BY <1>1, <1>2, <1>12, <1>13, <1>14

-----------------------------------------------------------------------------
(* Rewriting: a SELECT and a SET for every database with a key.            *)

RecordSeq == Seq(Records)
Keys == [id : Dbs, key : Nat]
RewriteStep == [p \in RecordSeq \X Keys |-> RewriteDb(p[1], p[2])]

(* RewriteStep stays among the sequences of records, and is RewriteDb there. *)
LEMMA RewriteStepType ==
  /\ Stays(RewriteStep, RecordSeq, Keys)
  /\ \A q \in RecordSeq, k \in Keys : RewriteStep[<<q, k>>] = RewriteDb(q, k)
<1>0. ASSUME NEW q \in RecordSeq, NEW k \in Keys PROVE RewriteDb(q, k) \in RecordSeq
  <2>1. k.id \in Dbs /\ k.key \in Nat
    BY DEF Keys
  <2>2. Select(k.id) \in Records /\ Set(k.key) \in Records
    BY <2>1 DEF Records
  <2>3. <<Select(k.id), Set(k.key)>> \in RecordSeq
    BY <2>2 DEF RecordSeq
  <2>4. q \o <<Select(k.id), Set(k.key)>> \in RecordSeq
    BY <2>3 DEF RecordSeq
  <2> QED BY <2>4 DEF RewriteDb
<1>1. ASSUME NEW p \in RecordSeq \X Keys PROVE RewriteDb(p[1], p[2]) \in RecordSeq
  BY <1>0
<1>2. \A q \in RecordSeq, k \in Keys : <<q, k>> \in RecordSeq \X Keys
  OBVIOUS
<1> HIDE DEF RecordSeq, Keys
<1> QED BY <1>1, <1>2 DEF RewriteStep, Stays

(* Rewriting the databases is running RewriteStep over them. *)
LEMMA RewriteFold ==
  ASSUME NEW b \in RecordSeq, NEW q \in Seq(Keys)
  PROVE  FoldLeft(RewriteDb, b, q) = Result(RewriteStep, b, q)
<1> DEFINE P(g) == g = [s \in SUBSET DOMAIN q |->
             IF s = {} THEN b ELSE RewriteDb(g[s \ {Max(s)}], q[Max(s)])]
<1>1. FoldLeft(RewriteDb, b, q) = (CHOOSE g : P(g))[DOMAIN q]
  BY Zenon DEF FoldLeft, MapThenFoldSet
<1>2. DOMAIN q = 1 .. Len(q) /\ Len(q) \in Nat
  OBVIOUS
<1>3. PICK f : IsFold(f, RecordSeq, RewriteStep, b, q)
  BY RewriteStepType, SubsetFoldOfSequence, Zenon
<1>4. P(f)
  <2>1. f \in [SUBSET (1 .. Len(q)) -> RecordSeq] /\ f = SubsetStep(RewriteStep, b, q, f)
    BY <1>3 DEF IsFold
  <2>2. ASSUME NEW s \in SUBSET (1 .. Len(q)), s # {}
        PROVE  f[s] = RewriteDb(f[s \ {Max(s)}], q[Max(s)])
    <3>1. Max(s) \in 1 .. Len(q)
      BY <1>2, <2>2, MaxOfPositions
    <3>2. q[Max(s)] \in Keys
      BY <3>1
    <3>a. f[s \ {Max(s)}] \in RecordSeq
      <4>1. s \ {Max(s)} \in SUBSET (1 .. Len(q))
        OBVIOUS
      <4> QED BY <2>1, <4>1
    <3>3. f[s] = RewriteStep[<<f[s \ {Max(s)}], q[Max(s)]>>]
      BY <2>1, <2>2 DEF SubsetStep
    <3> QED BY <3>2, <3>a, <3>3, RewriteStepType
  <2>3. f[{}] = b
    BY <2>1 DEF SubsetStep
  <2>4. f = [s \in SUBSET (1 .. Len(q)) |-> f[s]]
    BY <2>1
  <2> QED BY <1>2, <2>2, <2>3, <2>4, Zenon
<1>5. P(CHOOSE g : P(g))
  <2> HIDE DEF P
  <2> QED BY <1>4, Zenon
<1> DEFINE g == CHOOSE g : P(g)
<1>6. /\ g[{}] = b
      /\ \A s \in SUBSET (1 .. Len(q)) : s # {} =>
            g[s] = RewriteDb(g[s \ {Max(s)}], q[Max(s)])
  BY <1>2, <1>5
<1> HIDE DEF g
<1>7. SolvesFold(g, RecordSeq, RewriteStep, b, q)
  <2> SUFFICES ASSUME NEW s \in SUBSET (1 .. Len(q)), s # {}, g[s \ {Max(s)}] \in RecordSeq
               PROVE  g[s] = RewriteStep[<<g[s \ {Max(s)}], q[Max(s)]>>]
    BY <1>6, Zenon DEF SolvesFold
  <2>1. Max(s) \in 1 .. Len(q)
    BY <1>2, MaxOfPositions
  <2>2. q[Max(s)] \in Keys
    BY <2>1
  <2> QED BY <1>6, <2>2, RewriteStepType
<1>8. Gives(g, RewriteStep, b, q)
  <2>1. Stays(RewriteStep, RecordSeq, Keys)
    BY RewriteStepType
  <2> QED BY <1>7, <2>1, FoldIsResult
<1> QED BY <1>1, <1>2, <1>8 DEF g, Gives

(* SELECT and SET outside of a transaction. *)
LEMMA SelectSet ==
  ASSUME NEW f \in Files, Sound(f), NEW D \in DataSet, Idle(End(f), D), NEW d \in Dbs, NEW n \in Nat
  PROVE  LET g == AppendRecord(AppendRecord(f, Select(d)), Set(n))
         IN g \in Files /\ Sound(g) /\ Idle(End(g), [D EXCEPT ![d] = n])
<1> DEFINE v == AppendRecord(f, Select(d))
           g == AppendRecord(v, Set(n))
           x == End(f)
           y == End(v)
           z == End(g)
<1>0. Select(d) \in Records /\ Set(n) \in Records
  BY DEF Records
<1>1. v \in Files /\ Sound(v) /\ y = Replayed(x, Select(d)) /\ x \in LoaderSet
  BY <1>0, AppendRecordFacts, AppendSound, EndType
<1>2. y \in LoaderSet
  BY <1>1, EndType
<1>3. y = Settled([x EXCEPT !.db = d])
  BY <1>1, RanCases DEF Replayed, Settled
<1>4. Idle(x, D)
  OBVIOUS
<1> HIDE DEF v, x, y
<1>5. Idle(y, D) /\ y.db = d
  BY <1>1, <1>3, <1>4 DEF Idle, Settled, LoaderSet
<1>6. g \in Files /\ Sound(g) /\ z = Replayed(y, Set(n))
  BY <1>0, <1>1, AppendRecordFacts, AppendSound DEF y
<1> HIDE DEF g, z
<1>7. Ran(y, Set(n)) = [y EXCEPT !.data[y.db] = n]
  BY RanCases
<1>8. z = Settled([y EXCEPT !.data[y.db] = n])
  BY <1>6, <1>7 DEF Replayed, Settled
<1> DEFINE E == [D EXCEPT ![d] = n]
<1>9. [y EXCEPT !.data[y.db] = n] = [y EXCEPT !.data = E]
  BY <1>2, <1>5 DEF LoaderSet, Idle
<1> HIDE DEF E
<1>10. z = Settled([y EXCEPT !.data = E])
  BY <1>8, <1>9
<1>11. Idle(z, E)
  BY <1>2, <1>5, <1>10 DEF Idle, Settled, LoaderSet
<1> QED BY <1>6, <1>11 DEF g, v, z, E

(* The empty file loads as the empty database. *)
LEMMA NewFileFacts ==
  /\ NewFile \in Files /\ Sound(NewFile) /\ Idle(End(NewFile), Empty)
  /\ NewFile.synced = 0 /\ Len(NewFile.loads) = 0
<1>1. NewFile \in Files /\ NewFile.synced = 0 /\ NewFile.loads = <<>>
  BY DEF NewFile, Files
<1>2. Len(NewFile.loads) = 0
  BY <1>1
<1>3. Sound(NewFile)
  BY <1>1, <1>2 DEF Sound
<1>4. End(NewFile) = Loader
  BY <1>2 DEF End, LoadedUpTo
<1>5. Idle(Loader, Empty)
  BY DEF Idle, Loader
<1> QED BY <1>1, <1>2, <1>3, <1>4, <1>5

(* The first databases. *)
FirstDbs(D, j) == [d \in Dbs |-> IF d < j THEN D[d] ELSE 0]

(* What is loaded from a rewritten file is what has been rewritten. *)
LEMMA RewriteLoads ==
  ASSUME NEW D \in DataSet
  PROVE  LET q == rewriteAppendOnlyFile(D)
             f == Write(NewFile, q)
         IN q \in Seq(Records) /\ f \in Files /\ Sound(f) /\ Idle(End(f), D)
<1> DEFINE keys == [j \in 1 .. dbnum |-> [id |-> j - 1, key |-> D[j - 1]]]
           Holds(j, q) == /\ Sound(Write(NewFile, q))
                          /\ Idle(End(Write(NewFile, q)), FirstDbs(D, j))
           T == { p \in Nat \X RecordSeq : Holds(p[1], p[2]) }
<1>0. dbnum \in Nat /\ \A d \in Dbs : d \in Nat /\ D[d] \in Nat
  BY DbAssumption, DbFacts DEF DataSet
<1>a. \A j \in 1 .. dbnum : j - 1 \in Dbs /\ [id |-> j - 1, key |-> D[j - 1]] \in Keys
  BY <1>0 DEF Dbs, Keys
<1>1. keys \in Seq(Keys) /\ Len(keys) = dbnum /\ \A j \in 1 .. dbnum : keys[j] = [id |-> j - 1, key |-> D[j - 1]]
  BY <1>0, <1>a
<1>2. rewriteAppendOnlyFile(D) = FoldLeft(RewriteDb, <<>>, keys)
  BY DEF rewriteAppendOnlyFile
<1> HIDE DEF keys
<1>3. <<>> \in RecordSeq /\ Stays(RewriteStep, RecordSeq, Keys)
  BY RewriteStepType DEF RecordSeq
<1>4. rewriteAppendOnlyFile(D) = Result(RewriteStep, <<>>, keys)
  BY <1>1, <1>2, <1>3, RewriteFold
<1>5. <<0, <<>>>> \in T
  <2>1. Write(NewFile, <<>>) = NewFile
    BY NewFileFacts, WriteFacts
  <2>2. FirstDbs(D, 0) = Empty
    BY <1>0 DEF FirstDbs, Empty
  <2>3. Holds(0, <<>>)
    BY <2>1, <2>2, NewFileFacts
  <2> HIDE DEF Holds
  <2> QED BY <1>3, <2>3
<1>6. ASSUME NEW i \in 0 .. Len(keys) - 1, NEW q \in RecordSeq, <<i, q>> \in T
      PROVE  <<i + 1, RewriteStep[<<q, keys[i + 1]>>]>> \in T
  <2> DEFINE k == keys[i + 1]
             w == Write(NewFile, q)
             F == FirstDbs(D, i)
  <2>1. i \in Dbs /\ i + 1 \in 1 .. dbnum /\ i + 1 \in Nat /\ (i + 1) - 1 = i
    BY <1>0, <1>1 DEF Dbs
  <2>2. k \in Keys /\ k.id = i /\ k.key = D[i] /\ D[i] \in Nat
    BY <1>0, <1>1, <1>a, <2>1
  <2>3. Sound(w) /\ Idle(End(w), F)
    BY <1>6
  <2>4. w \in Files /\ q \in Seq(Records)
    BY NewFileFacts, WriteFacts DEF RecordSeq
  <2>5. F \in DataSet
    BY <1>0 DEF FirstDbs, DataSet
  <2>6. RewriteStep[<<q, k>>] = RewriteDb(q, k) /\ RewriteDb(q, k) \in RecordSeq
    BY <2>2, RewriteStepType DEF Stays
  <2> HIDE DEF k, w, F
  <2>7. FirstDbs(D, i + 1) = [F EXCEPT ![i] = D[i]]
    <3>1. \A d \in Dbs : (d < i + 1) <=> (d < i \/ d = i)
      BY <1>0, <2>1
    <3>2. \A d \in Dbs : [F EXCEPT ![i] = D[i]][d] = FirstDbs(D, i + 1)[d]
      BY <1>0, <2>1, <2>5, <3>1 DEF FirstDbs, F, DataSet
    <3>3. FirstDbs(D, i + 1) = [d \in Dbs |-> FirstDbs(D, i + 1)[d]]
      BY DEF FirstDbs
    <3>4. [F EXCEPT ![i] = D[i]] = [d \in Dbs |-> [F EXCEPT ![i] = D[i]][d]]
      BY <2>5 DEF DataSet
    <3> QED BY <3>2, <3>3, <3>4
  <2>8. Holds(i + 1, RewriteDb(q, k))
    <3>1. CASE k.key = 0
      <4>1. RewriteDb(q, k) = q
        BY <3>1 DEF RewriteDb
      <4>2. F[i] = 0
        BY <1>0, <2>1 DEF F, FirstDbs
      <4>3. [F EXCEPT ![i] = D[i]] = F
        BY <2>1, <2>2, <2>5, <3>1, <4>2 DEF DataSet
      <4> QED BY <2>3, <2>7, <4>1, <4>3 DEF w
    <3>2. CASE k.key # 0
      <4> DEFINE a == Select(i)
                 b == Set(D[i])
      <4>1. RewriteDb(q, k) = q \o <<a, b>> /\ a \in Records /\ b \in Records
        BY <2>1, <2>2, <3>2 DEF RewriteDb, Records
      <4> HIDE DEF a, b
      <4>2. q \o <<a, b>> = Append(Append(q, a), b) /\ Append(q, a) \in Seq(Records)
        BY <2>4, <4>1
      <4>3. Write(NewFile, Append(q, a)) = AppendRecord(w, a)
        BY <2>4, <4>1, NewFileFacts, WriteFacts DEF w
      <4>4. Write(NewFile, Append(Append(q, a), b)) = AppendRecord(AppendRecord(w, a), b)
        <5> DEFINE r == Append(q, a)
        <5>1. r \in Seq(Records)
          BY <4>2
        <5> HIDE DEF r
        <5>2. Write(NewFile, Append(r, b)) = AppendRecord(Write(NewFile, r), b)
          BY <4>1, <5>1, NewFileFacts, WriteFacts
        <5> QED BY <4>3, <5>2 DEF r
      <4> DEFINE u == AppendRecord(AppendRecord(w, a), b)
      <4>5. Sound(u) /\ Idle(End(u), [F EXCEPT ![i] = D[i]])
        BY <2>1, <2>2, <2>3, <2>4, <2>5, SelectSet DEF a, b
      <4> HIDE DEF u
      <4>6. Write(NewFile, RewriteDb(q, k)) = u
        BY <4>1, <4>2, <4>4 DEF u
      <4> QED BY <2>7, <4>5, <4>6
    <3> QED BY <3>1, <3>2
  <2> HIDE DEF Holds
  <2> QED BY <2>1, <2>6, <2>8 DEF k
<1>7. <<Len(keys), Result(RewriteStep, <<>>, keys)>> \in T
  <2> HIDE DEF T
  <2>1. Inductive(T, RecordSeq, RewriteStep, keys)
    BY <1>6 DEF Inductive
  <2>2. ASSUME NEW b \in RecordSeq, b = <<>> PROVE <<Len(keys), Result(RewriteStep, b, keys)>> \in T
    BY <1>1, <1>3, <1>5, <2>1, <2>2, ResultInduct
  <2> QED BY <1>3, <2>2
<1>8. rewriteAppendOnlyFile(D) \in RecordSeq /\ Holds(dbnum, rewriteAppendOnlyFile(D))
  <2> HIDE DEF Holds
  <2> QED BY <1>1, <1>4, <1>7
<1>9. FirstDbs(D, dbnum) = D
  <2>1. \A d \in Dbs : d < dbnum
    BY <1>0 DEF Dbs
  <2>2. \A d \in Dbs : FirstDbs(D, dbnum)[d] = D[d]
    BY <2>1 DEF FirstDbs
  <2>3. D = [d \in Dbs |-> D[d]] /\ FirstDbs(D, dbnum) = [d \in Dbs |-> FirstDbs(D, dbnum)[d]]
    BY DEF DataSet, FirstDbs
  <2> QED BY <2>2, <2>3
<1>10. Write(NewFile, rewriteAppendOnlyFile(D)) \in Files
  BY <1>8, NewFileFacts, WriteFacts DEF RecordSeq
<1> QED BY <1>8, <1>9, <1>10 DEF RecordSeq

(* The file the child leaves, all of which is on the disk. *)
LEMMA RewriteGood ==
  ASSUME NEW H, NEW D \in DataSet, Past(H, D)
  PROVE  LET f == Synced(Write(NewFile, rewriteAppendOnlyFile(D)))
         IN GoodFile(H, f) /\ Idle(End(f), D)
<1> DEFINE g == Write(NewFile, rewriteAppendOnlyFile(D))
           f == Synced(g)
<1>1. g \in Files /\ Sound(g) /\ Idle(End(g), D)
  BY RewriteLoads
<1> HIDE DEF g
<1>2. Len(g.loads) \in Nat
  BY <1>1, EndType
<1>3. f \in Files /\ f.loads = g.loads /\ f.synced = Len(g.loads)
  BY <1>1, <1>2 DEF Synced, Files
<1> HIDE DEF f
<1>4. \A k : LoadedUpTo(f, k) = LoadedUpTo(g, k) /\ Whole(f, k) = Whole(g, k)
  BY <1>3 DEF LoadedUpTo, Whole
<1>5. End(f) = End(g)
  BY <1>3, <1>4 DEF End
<1>6. Sound(f)
  <2>1. f.synced <= Len(f.loads)
    BY <1>2, <1>3
  <2>2. \A k \in 1 .. Len(f.loads) :
       Whole(f, k) = IF LoadedUpTo(f, k).multi THEN Whole(f, k - 1) ELSE LoadedUpTo(f, k).data
    BY <1>1, <1>3, <1>4 DEF Sound
  <2> QED BY <2>1, <2>2 DEF Sound
<1>7. Whole(f, Len(g.loads)) = D
  BY <1>1, <1>3, <1>5 DEF Whole, End, Idle
<1>8. \A k \in f.synced .. Len(f.loads) : k = Len(g.loads)
  BY <1>2, <1>3
<1>9. Recalls(H, f) /\ Climbs(f)
  BY <1>7, <1>8, LeqOrder DEF Recalls, Climbs
<1> QED BY <1>1, <1>3, <1>5, <1>6, <1>9 DEF GoodFile, f, g

-----------------------------------------------------------------------------
(* The inductive invariant.                                                *)

ServerSet ==
  [state : {"on", "off", "wait"}, fd : {"open", "none", "stale"}, buf : Seq(Records), sel : Nat,
   rwbuf : Seq(Records), child : BOOLEAN, snap : DataSet, sched : BOOLEAN,
   postponed : {"no", "0s", "1s", "2s"}, second : BOOLEAN]

Types ==
  /\ conf \in Configs /\ hist \in Histories /\ replied \in Nat
  /\ output \in BOOLEAN /\ armed \in BOOLEAN
  /\ at \in {"loop", "written", "renamed", "down"}
  /\ srv \in ServerSet
  /\ jobs \in Seq({"named", "closed"}) /\ rdb_child \in BOOLEAN
  /\ spent \in [forks : Nat, restarts : Nat]

(* f is good, outside of a transaction, and next may come what is fed with *)
(* sel as the database of the last record.                                 *)
Follows(H, f, D, sel) == GoodFile(H, f) /\ Idle(End(f), D) /\ AtDb(f, sel)

(* A file that has been replaced has nothing that the new one has not. *)
FilesOK(H, f, S) == GoodFile(H, f) /\ \A g \in S : GoodFile(H, g) /\ Below(g, End(f).whole)

(* The file that is there after the rewriting, and what is loaded from it. *)
ChildFile(s) == Synced(Write(NewFile, rewriteAppendOnlyFile(s.snap)))
NewAof(s) == Write(ChildFile(s), s.rwbuf)
Goal(H, s) == IF s.state = "off" THEN s.snap ELSE Now(H)

Buffers(s, a) ==
  /\ s.state # "on" => s.buf = <<>>
  /\ s.fd = "none" => s.state = "off"
  /\ ~s.child \/ s.state = "off" => s.rwbuf = <<>>
  /\ a = "written" => s.buf = <<>>

(* With what is in the buffer, the file has everything. *)
FileOK(H, s, f) == s.state = "on" => Follows(H, Write(f, s.buf), Now(H), s.sel)

(* With what is in the other one, the rewritten file has. *)
ChildOK(H, s, f) ==
  s.child => Past(H, s.snap) /\ Follows(H, NewAof(s), Goal(H, s), s.sel) /\ Below(f, Goal(H, s))

Running(H, s, f, a) ==
  /\ Buffers(s, a)
  /\ a # "renamed" => FileOK(H, s, f) /\ ChildOK(H, s, f)
  /\ a = "renamed" /\ s.state # "off" => Follows(H, f, Now(H), NoDb)

Inv ==
  /\ Types /\ Ordered(hist) /\ FilesOK(hist, file, shadows)
  /\ at # "down" => Running(hist, srv, file, at)

-----------------------------------------------------------------------------

(* The fields that Running is about. *)
Alike(s, t) ==
  /\ t.state = s.state /\ t.fd = s.fd /\ t.buf = s.buf /\ t.sel = s.sel /\ t.rwbuf = s.rwbuf
  /\ t.child = s.child /\ t.snap = s.snap

(* What is known of a running server depends on those fields only. *)
LEMMA RunningAlike ==
  ASSUME NEW H, NEW s, NEW t, NEW f, NEW a, Running(H, s, f, a), Alike(s, t)
  PROVE  Running(H, t, f, a)
<1>1. NewAof(t) = NewAof(s) /\ Goal(H, t) = Goal(H, s)
  BY DEF NewAof, ChildFile, Goal, Alike
<1>2. Buffers(t, a)
  BY DEF Running, Buffers, Alike
<1>3. a # "renamed" => FileOK(H, t, f) /\ ChildOK(H, t, f)
  BY <1>1 DEF Running, FileOK, ChildOK, Alike
<1> QED BY <1>2, <1>3 DEF Running, Alike

(* In the loop, after a write, or while the new file is being switched to. *)
LEMMA RunningAt ==
  ASSUME NEW H, NEW s, NEW f, NEW a, Running(H, s, f, a), a # "renamed"
  PROVE  Running(H, s, f, "loop")
  BY DEF Running, Buffers

(* What is fed has a type, wherever the server is. *)
LEMMA FeedType ==
  ASSUME NEW x \in FedSet, NEW d \in Dbs, NEW rec \in Records
  PROVE  feedAppendOnlyFile(x, d, rec) \in FedSet
<1>1. x.recs \in Seq(Records) /\ x.sel \in Nat /\ d \in Nat /\ Select(d) \in Records
  BY DbFacts DEF FedSet, Records
<1> DEFINE s == IF d # x.sel THEN <<Select(d)>> ELSE <<>>
<1>2. s \in Seq(Records)
  BY <1>1
<1>3. feedAppendOnlyFile(x, d, rec) = [recs |-> x.recs \o s \o <<rec>>, sel |-> d]
  BY DEF feedAppendOnlyFile
<1> HIDE DEF s
<1>4. x.recs \o s \o <<rec>> \in Seq(Records)
  BY <1>1, <1>2
<1> QED BY <1>1, <1>3, <1>4 DEF FedSet

(* What a modification feeds is a sequence of records and a database. *)
LEMMA FedType ==
  ASSUME NEW sel \in Nat, NEW m \in Seq(Dbs), Len(m) \in {1, 2}
  PROVE  Fed(sel, m) \in FedSet
<1> DEFINE b == [recs |-> <<>>, sel |-> sel]
<1>1. b \in FedSet /\ Multi \in Records /\ Exec \in Records
  BY DEF FedSet, Records
<1>2. m[1] \in Dbs /\ (Len(m) = 2 => m[2] \in Dbs /\ Last(m) = m[2])
  BY DEF Last
<1> HIDE DEF b
<1>3. CASE Len(m) = 1
  <2>1. Fed(sel, m) = FoldLeft(Call, b, m)
    BY <1>3 DEF Fed, b
  <2>2. Fed(sel, m) = Call(b, m[1])
    BY <1>1, <1>3, <2>1, CallsAre
  <2> QED BY <1>1, <1>2, <2>2, CallType
<1>4. CASE Len(m) = 2
  <2> DEFINE x0 == feedAppendOnlyFile(b, m[1], Multi)
  <2>1. x0 \in FedSet
    BY <1>1, <1>2, FeedType
  <2>2. Fed(sel, m) = feedAppendOnlyFile(FoldLeft(Call, x0, m), m[2], Exec)
    BY <1>2, <1>4 DEF Fed, b
  <2> HIDE DEF x0
  <2>3. FoldLeft(Call, x0, m) = Call(Call(x0, m[1]), m[2])
    BY <1>4, <2>1, CallsAre
  <2>4. Call(x0, m[1]) \in FedSet
    BY <1>2, <2>1, CallType
  <2>5. Call(Call(x0, m[1]), m[2]) \in FedSet
    BY <1>2, <1>4, <2>4, CallType
  <2> QED BY <1>1, <1>2, <1>4, <2>2, <2>3, <2>5, FeedType
<1> QED BY <1>3, <1>4

(* A file with what is in its buffer has the next modification as well. *)
LEMMA FeedMore ==
  ASSUME NEW H \in Histories, Ordered(H), NEW m \in Seq(Dbs), Len(m) \in {1, 2},
         NEW G \in Histories, G = Append(H, Sum2(Now(H), m)), Len(H) <= Len(G),
         Now(G) = Sum2(Now(H), m), \A n \in 0 .. Len(H) : State(G, n) = State(H, n),
         NEW f \in Files, NEW q \in Seq(Records), NEW sel \in Nat, Follows(H, Write(f, q), Now(H), sel)
  PROVE  Follows(G, Write(f, q \o Fed(sel, m).recs), Now(G), Fed(sel, m).sel)
<1> DEFINE w == Write(f, q)
           x == Fed(sel, m)
           D == Now(H)
<1>1. GoodFile(H, w) /\ Idle(End(w), D) /\ AtDb(w, sel) /\ w \in Files
  BY GoodEnd DEF Follows
<1>2. D \in DataSet /\ Past(G, Sum2(D, m))
  BY StateType
<1>3. x \in FedSet /\ x.recs \in Seq(Records)
  BY FedType DEF FedSet
<1> HIDE DEF x, w, D
<1>4. GoodFile(G, w)
  BY <1>1, LongerGood
<1>5. IdleFed(G, w, x, Sum2(D, m))
  BY <1>1, <1>2, <1>4, FedGood DEF x
<1>6. Write(f, q \o x.recs) = Write(w, x.recs)
  BY <1>3, WriteConcat DEF w
<1>7. Follows(G, Write(w, x.recs), Sum2(D, m), x.sel)
  BY <1>5 DEF IdleFed, Follows
<1> QED BY <1>6, <1>7 DEF x, D

(* The file that the child writes. *)
LEMMA ChildFileGood ==
  ASSUME NEW H, NEW s \in ServerSet, Past(H, s.snap)
  PROVE  GoodFile(H, ChildFile(s)) /\ Idle(End(ChildFile(s)), s.snap) /\ ChildFile(s) \in Files
<1>1. s.snap \in DataSet
  BY DEF ServerSet
<1>2. GoodFile(H, ChildFile(s)) /\ Idle(End(ChildFile(s)), s.snap)
  BY <1>1, RewriteGood DEF ChildFile
<1> QED BY <1>2 DEF GoodFile

-----------------------------------------------------------------------------
(* Writing to the same file with another number of synced records.         *)

WithSynced(f, n) == [f EXCEPT !.synced = n]

(* Records are appended in the same way, however much of the file has been *)
(* synced.                                                                 *)
LEMMA WriteWithSynced ==
  ASSUME NEW f \in Files, NEW n \in Nat, NEW q \in Seq(Records)
  PROVE  Write(WithSynced(f, n), q) = WithSynced(Write(f, q), n)
<1> DEFINE T == { p \in Files \X Files : p[2] = WithSynced(p[1], n) }
           g == WithSynced(f, n)
<1>1. \A x \in Files : WithSynced(x, n) \in Files
  BY DEF WithSynced, Files
<1>2. <<f, g>> \in T
  BY <1>1
<1>3. ASSUME NEW x \in Files, NEW rec \in Records
      PROVE  AppendRecord(WithSynced(x, n), rec) = WithSynced(AppendRecord(x, rec), n)
  <2> DEFINE y == WithSynced(x, n)
  <2>1. y.loads = x.loads /\ y.torn = x.torn /\ y.synced = n
    BY DEF WithSynced, Files
  <2>2. LoadedUpTo(y, Len(x.loads)) = LoadedUpTo(x, Len(x.loads))
    BY <2>1 DEF LoadedUpTo
  <2> DEFINE r == Replayed(LoadedUpTo(x, Len(x.loads)), rec)
  <2>3. AppendRecord(x, rec) = [x EXCEPT !.loads = Append(x.loads, r)]
    BY DEF AppendRecord
  <2>4. AppendRecord(y, rec) = [y EXCEPT !.loads = Append(x.loads, r)]
    BY <2>1, <2>2 DEF AppendRecord
  <2> HIDE DEF r
  <2> QED BY <2>3, <2>4 DEF WithSynced, Files
<1>4. ASSUME NEW x \in Files, NEW y \in Files, NEW rec \in Records, <<x, y>> \in T
      PROVE  <<AppendStep[<<x, rec>>], AppendStep[<<y, rec>>]>> \in T
  <2>1. y = WithSynced(x, n)
    BY <1>4
  <2>2. AppendStep[<<x, rec>>] = AppendRecord(x, rec) /\ AppendStep[<<y, rec>>] = AppendRecord(y, rec)
    BY AppendStepType
  <2>3. AppendRecord(x, rec) \in Files /\ AppendRecord(y, rec) \in Files
    BY AppendRecordFacts
  <2> QED BY <1>3, <2>1, <2>2, <2>3
<1> HIDE DEF T
<1>5. Related(T, Files, AppendStep, Files, AppendStep, Records)
  BY <1>4 DEF Related
<1>6. Stays(AppendStep, Files, Records) /\ g \in Files
  BY <1>1, AppendStepType
<1> HIDE DEF g
<1>7. <<Result(AppendStep, f, q), Result(AppendStep, g, q)>> \in T
  BY <1>2, <1>5, <1>6, ResultsRelated
<1>8. Write(f, q) = Result(AppendStep, f, q) /\ Write(g, q) = Result(AppendStep, g, q)
  BY <1>6, WriteFold DEF Write
<1> QED BY <1>7, <1>8 DEF T, g

(* A good file of which more is synced. *)
LEMMA WithSyncedGood ==
  ASSUME NEW H, NEW f, GoodFile(H, f), NEW n \in f.synced .. Len(f.loads)
  PROVE  /\ GoodFile(H, WithSynced(f, n)) /\ End(WithSynced(f, n)) = End(f)
         /\ \A D : Below(f, D) => Below(WithSynced(f, n), D)
<1> DEFINE g == WithSynced(f, n)
<1>1. f \in Files /\ Len(f.loads) \in Nat /\ f.synced \in Nat /\ f.synced <= n /\ n <= Len(f.loads) /\ n \in Nat
  <2>1. f \in Files /\ Len(f.loads) \in Nat /\ f.synced \in Nat
    BY GoodEnd
  <2> QED BY <2>1
<1>2. g \in Files /\ g.loads = f.loads /\ g.synced = n
  BY <1>1 DEF WithSynced, Files
<1> HIDE DEF g
<1>3. \A k : LoadedUpTo(g, k) = LoadedUpTo(f, k) /\ Whole(g, k) = Whole(f, k)
  BY <1>2 DEF LoadedUpTo, Whole
<1>4. GoodFile(H, g)
  BY <1>1, <1>2, <1>3, PartGood
<1>5. End(g) = End(f)
  BY <1>2, <1>3 DEF End
<1>6. \A k \in g.synced .. Len(g.loads) : k \in f.synced .. Len(f.loads)
  BY <1>1, <1>2
<1>7. \A D : Below(f, D) => Below(g, D)
  BY <1>3, <1>6 DEF Below
<1> QED BY <1>4, <1>5, <1>7 DEF g

(* An fsync while there is something in the buffer. *)
LEMMA SyncedFollows ==
  ASSUME NEW H, NEW f, GoodFile(H, f), NEW q \in Seq(Records), NEW D, NEW sel, Follows(H, Write(f, q), D, sel)
  PROVE  Follows(H, Write(Synced(f), q), D, sel)
<1> DEFINE n == Len(f.loads)
           w == Write(f, q)
<1>1. f \in Files /\ n \in Nat /\ f.synced \in Nat /\ f.synced <= n
  BY GoodEnd
<1>2. Synced(f) = WithSynced(f, n)
  BY DEF Synced, WithSynced
<1>3. Write(Synced(f), q) = WithSynced(w, n)
  BY <1>1, <1>2, WriteWithSynced
<1>4. Prolongs(w, f)
  BY <1>1, WriteProlongs
<1>5. GoodFile(H, w) /\ Idle(End(w), D) /\ AtDb(w, sel)
  BY DEF Follows
<1> HIDE DEF w, n
<1>6. Len(w.loads) \in Nat
  BY <1>5, GoodEnd
<1>7. n \in w.synced .. Len(w.loads)
  BY <1>1, <1>4, <1>6 DEF Prolongs, n
<1>8. GoodFile(H, WithSynced(w, n)) /\ End(WithSynced(w, n)) = End(w)
  BY <1>5, <1>7, WithSyncedGood
<1> QED BY <1>3, <1>5, <1>8 DEF Follows, AtDb

-----------------------------------------------------------------------------
(* The parts of the invariant under what is done to the file.              *)

(* An fsync, with the directory: the files it replaced are gone,           *)
(* everything else that is known stays true.                               *)
LEMMA SyncKeeps ==
  ASSUME NEW H, NEW f, NEW S, FilesOK(H, f, S)
  PROVE  /\ FilesOK(H, Synced(f), {})
         /\ \A s \in ServerSet : \A a : Running(H, s, f, a) => Running(H, s, Synced(f), a)
<1>1. GoodFile(H, f)
  BY DEF FilesOK
<1>2. GoodFile(H, Synced(f)) /\ End(Synced(f)) = End(f)
  BY <1>1, SyncedGood
<1>3. FilesOK(H, Synced(f), {})
  BY <1>2 DEF FilesOK
<1>4. \A D : Below(f, D) => Below(Synced(f), D)
  <2>1. Len(f.loads) \in f.synced .. Len(f.loads)
    BY <1>1, GoodEnd
  <2>2. Synced(f) = WithSynced(f, Len(f.loads))
    BY DEF Synced, WithSynced
  <2> QED BY <1>1, <2>1, <2>2, WithSyncedGood
<1>5. ASSUME NEW s \in ServerSet, NEW a, Running(H, s, f, a) PROVE Running(H, s, Synced(f), a)
  <2>1. s.buf \in Seq(Records)
    BY DEF ServerSet
  <2>2. FileOK(H, s, f) => FileOK(H, s, Synced(f))
    BY <1>1, <2>1, SyncedFollows DEF FileOK
  <2>3. ChildOK(H, s, f) => ChildOK(H, s, Synced(f))
    BY <1>4 DEF ChildOK
  <2>4. Follows(H, f, Now(H), NoDb) => Follows(H, Synced(f), Now(H), NoDb)
    BY <1>2 DEF Follows, AtDb
  <2> QED BY <1>5, <2>2, <2>3, <2>4 DEF Running
<1> QED BY <1>3, <1>5

(* More at the end of the file: the ones it replaced have still less. *)
LEMMA LongerFile ==
  ASSUME NEW H, NEW f, NEW g, NEW S, FilesOK(H, f, S), GoodFile(H, g),
         g.synced = f.synced, Len(f.loads) <= Len(g.loads),
         \A k \in 0 .. Len(f.loads) : Whole(g, k) = Whole(f, k)
  PROVE  FilesOK(H, g, S)
<1>1. /\ f \in Files /\ Len(f.loads) \in Nat /\ f.synced \in Nat /\ f.synced <= Len(f.loads)
      /\ End(f).whole = Whole(f, Len(f.loads)) /\ End(f).whole \in DataSet
  BY GoodEnd DEF FilesOK
<1>2. Len(g.loads) \in Nat /\ End(g).whole \in DataSet /\ Below(g, End(g).whole)
  BY GoodEnd
<1>3. Len(f.loads) \in g.synced .. Len(g.loads)
  BY <1>1, <1>2
<1>4. Leq(End(f).whole, End(g).whole)
  BY <1>1, <1>2, <1>3 DEF Below
<1>5. ASSUME NEW h \in S PROVE GoodFile(H, h) /\ Below(h, End(g).whole)
  <2>1. GoodFile(H, h) /\ Below(h, End(f).whole)
    BY DEF FilesOK
  <2>2. \A k \in h.synced .. Len(h.loads) : Whole(h, k) \in DataSet
    BY <2>1, GoodEnd
  <2> QED BY <1>1, <1>2, <1>4, <2>1, <2>2, LeqOrder DEF Below
<1> QED BY <1>5 DEF FilesOK

(* Writing the buffer. *)
LEMMA WriteBuffer ==
  ASSUME NEW H, NEW s \in ServerSet, NEW f, NEW S, FilesOK(H, f, S), Buffers(s, "loop"), FileOK(H, s, f)
  PROVE  /\ FilesOK(H, Write(f, s.buf), S)
         /\ s.state = "on" => Follows(H, Write(f, s.buf), Now(H), s.sel)
         /\ s.state # "on" => Write(f, s.buf) = f
<1>1. GoodFile(H, f) /\ f \in Files /\ s.buf \in Seq(Records)
  BY GoodEnd DEF FilesOK, ServerSet
<1>2. CASE s.state # "on"
  <2>1. s.buf = <<>>
    BY <1>2 DEF Buffers
  <2>2. Write(f, s.buf) = f
    BY <1>1, <2>1, WriteFacts
  <2> QED BY <1>2, <2>2
<1>3. CASE s.state = "on"
  <2> DEFINE w == Write(f, s.buf)
  <2>1. Follows(H, w, Now(H), s.sel)
    BY <1>3 DEF FileOK
  <2>2. Prolongs(w, f)
    BY <1>1, WriteProlongs
  <2> HIDE DEF w
  <2>3. GoodFile(H, w)
    BY <2>1 DEF Follows
  <2>4. FilesOK(H, w, S)
    BY <2>2, <2>3, LongerFile DEF Prolongs, Whole
  <2> QED BY <1>3, <2>1, <2>4 DEF w
<1> QED BY <1>2, <1>3

(* There is no more in a file than there is in the database. *)
LEMMA BelowNow ==
  ASSUME NEW H \in Histories, Ordered(H), NEW f, GoodFile(H, f)
  PROVE  Below(f, Now(H))
  BY PastOrder DEF GoodFile, Recalls, Below

(* Following is forgotten when the database is not known. *)
LEMMA FollowsNoDb ==
  ASSUME NEW H, NEW f, NEW D, NEW sel, Follows(H, f, D, sel)
  PROVE  Follows(H, f, D, NoDb)
  BY DEF Follows, AtDb

-----------------------------------------------------------------------------
(* The actions.                                                            *)

(* Nothing but at, and fields that do not matter, has changed. *)
LEMMA FrameKeeps ==
  ASSUME Inv, Types', UNCHANGED <<hist, file>>, Alike(srv, srv'), shadows' \subseteq shadows,
         at' = at
  PROVE  Inv'
<1>1. FilesOK(hist, file, shadows)'
  BY DEF Inv, FilesOK
<1>2. Ordered(hist)'
  BY DEF Inv
<1>3. at # "down" => Running(hist, srv', file, at)
  BY RunningAlike DEF Inv
<1>4. at' # "down" => Running(hist', srv', file', at')
  BY <1>3
<1> QED BY <1>1, <1>2, <1>4 DEF Inv

(* The end of the server. *)
LEMMA DownKeeps ==
  ASSUME Inv, Types', UNCHANGED hist, at' = "down", FilesOK(hist, file', shadows')
  PROVE  Inv'
<1>1. FilesOK(hist, file, shadows)'
  <2>1. FilesOK(hist', file', shadows')
    OBVIOUS
  <2> QED BY <2>1
<1> QED BY <1>1 DEF Inv

(* A server is like itself. *)
LEMMA AlikeSame == \A s : Alike(s, s)
  BY DEF Alike

(* A server that has just been started, with an empty file, satisfies the  *)
(* invariant.                                                              *)
LEMMA InitInv == Init => Inv
<1> SUFFICES ASSUME Init PROVE Inv
  OBVIOUS
<1>1. Empty \in DataSet /\ <<>> \in Seq(Records) /\ NoDb \in Nat
  BY LoaderType, DbFacts
<1>2. Started(Empty) \in ServerSet
  BY <1>1 DEF Started, ServerSet
<1>3. hist \in Histories /\ Len(hist) = 0
  BY DEF Init, Histories
<1>4. Types
  <2>1. conf \in Configs /\ replied \in Nat /\ output \in BOOLEAN /\ armed \in BOOLEAN /\ rdb_child \in BOOLEAN
    BY DEF Init
  <2>2. at \in {"loop", "written", "renamed", "down"} /\ jobs \in Seq({"named", "closed"})
    BY DEF Init
  <2>3. spent \in [forks : Nat, restarts : Nat]
    BY DEF Init
  <2>4. srv \in ServerSet
    BY <1>2 DEF Init
  <2> QED BY <1>3, <2>1, <2>2, <2>3, <2>4 DEF Types
<1>5. Ordered(hist)
  BY <1>3 DEF Ordered
<1>6. Now(hist) = Empty /\ Past(hist, Empty)
  BY <1>3 DEF Now, State, Past
<1>7. Follows(hist, NewFile, Empty, NoDb)
  <2>1. Whole(NewFile, 0) = Empty
    BY NewFileFacts DEF Whole, LoadedUpTo, Loader
  <2>2. \A k \in NewFile.synced .. Len(NewFile.loads) : k = 0
    BY NewFileFacts
  <2>3. Recalls(hist, NewFile) /\ Climbs(NewFile)
    BY <1>1, <1>6, <2>1, <2>2, LeqOrder DEF Recalls, Climbs
  <2> QED BY <2>3, NewFileFacts DEF Follows, GoodFile, AtDb
<1>8. FilesOK(hist, file, shadows)
  BY <1>7 DEF Init, FilesOK, Follows
<1>9. Running(hist, srv, file, at)
  <2>1. /\ srv.state = "on" /\ srv.fd = "open" /\ srv.buf = <<>> /\ srv.rwbuf = <<>>
        /\ srv.sel = NoDb /\ ~srv.child /\ at = "loop" /\ file = NewFile
    BY DEF Init, Started
  <2>2. Write(NewFile, <<>>) = NewFile
    BY NewFileFacts, WriteFacts
  <2>3. FileOK(hist, srv, file)
    BY <1>6, <1>7, <2>1, <2>2 DEF FileOK
  <2> QED BY <2>1, <2>3 DEF Running, Buffers, ChildOK
<1> QED BY <1>4, <1>5, <1>8, <1>9 DEF Inv

(* The types. *)
LEMMA SrvFields ==
  ASSUME srv \in ServerSet
  PROVE  /\ srv.state \in {"on", "off", "wait"} /\ srv.fd \in {"open", "none", "stale"}
         /\ srv.buf \in Seq(Records) /\ srv.sel \in Nat /\ srv.rwbuf \in Seq(Records)
         /\ srv.child \in BOOLEAN /\ srv.snap \in DataSet /\ srv.sched \in BOOLEAN
         /\ srv.postponed \in {"no", "0s", "1s", "2s"} /\ srv.second \in BOOLEAN
  BY DEF ServerSet

(* A command of a client: what it feeds goes to the buffer and to the list *)
(* of blocks, and both files stay behind by nothing but these.             *)
LEMMA ExecuteKeeps == Inv /\ Execute => Inv'
<1> SUFFICES ASSUME Inv, Execute PROVE Inv'
  OBVIOUS
<1>1. PICK m \in Commands :
        /\ at = "loop"
        /\ hist' = Append(hist, Modified(m)) /\ output' = TRUE
        /\ srv' = IF srv.state = "off" THEN srv
                  ELSE [srv EXCEPT !.sel = Fed(srv.sel, m).sel,
                          !.buf = IF srv.state = "on" THEN @ \o Fed(srv.sel, m).recs ELSE @,
                          !.rwbuf = IF srv.child THEN aofRewriteBufferAppend(@, Fed(srv.sel, m).recs) ELSE @]
        /\ UNCHANGED <<conf, replied, armed, at, disk, jobs, rdb_child, spent>>
  BY DEF Execute
<1> DEFINE x == Fed(srv.sel, m)
           D == Modified(m)
           buf == IF srv.state = "on" THEN srv.buf \o x.recs ELSE srv.buf
           rwbuf == IF srv.child THEN srv.rwbuf \o x.recs ELSE srv.rwbuf
<1>2. hist \in Histories /\ srv \in ServerSet /\ Ordered(hist) /\ FilesOK(hist, file, shadows)
      /\ Running(hist, srv, file, "loop") /\ GoodFile(hist, file)
  BY <1>1 DEF Inv, Types, FilesOK
<1>3. /\ m \in Seq(Dbs) /\ Len(m) \in {1, 2} /\ Data = Now(hist) /\ D = Sum2(Now(hist), m)
      /\ D \in DataSet /\ Leq(Now(hist), D) /\ D # Now(hist)
  BY <1>2, ModifiedIs
<1>4. /\ hist' \in Histories /\ Ordered(hist') /\ Now(hist') = D /\ Len(hist) <= Len(hist')
      /\ \A n \in 0 .. Len(hist) : State(hist', n) = State(hist, n)
  <2>1. Len(hist) \in Nat
    BY <1>2, StateType
  <2> QED BY <1>1, <1>2, <1>3, <2>1, OrderedAppend
<1>5. x \in FedSet /\ x.recs \in Seq(Records) /\ x.sel \in Nat
  BY <1>2, <1>3, SrvFields, FedType DEF FedSet
<1>6. buf \in Seq(Records) /\ rwbuf \in Seq(Records)
  BY <1>2, <1>5, SrvFields
<1>7. CASE srv.state # "off"
  <2>1. srv' = [srv EXCEPT !.sel = x.sel, !.buf = buf, !.rwbuf = rwbuf]
    BY <1>1, <1>7 DEF aofRewriteBufferAppend
  <2> HIDE DEF x, D, buf, rwbuf
  <2>2. /\ srv' \in ServerSet /\ srv'.state = srv.state /\ srv'.fd = srv.fd /\ srv'.child = srv.child
        /\ srv'.snap = srv.snap /\ srv'.buf = buf /\ srv'.rwbuf = rwbuf /\ srv'.sel = x.sel
    BY <1>2, <1>5, <1>6, <2>1 DEF ServerSet
  <2>3. Types'
    BY <1>1, <1>4, <2>2 DEF Inv, Types
  <2>4. FilesOK(hist', file, shadows)
    BY <1>2, <1>4, LongerGood DEF FilesOK
  <2>5. Buffers(srv', "loop")
    BY <1>2, <1>7, <2>2 DEF Running, Buffers, buf, rwbuf
  <2>6. FileOK(hist', srv', file)
    <3>1. CASE srv.state = "on"
      <4>1. Follows(hist, Write(file, srv.buf), Now(hist), srv.sel)
        BY <1>2, <3>1 DEF Running, FileOK
      <4>2. file \in Files /\ srv.buf \in Seq(Records) /\ srv.sel \in Nat
        BY <1>2, SrvFields DEF GoodFile
      <4>3. Follows(hist', Write(file, srv.buf \o x.recs), Now(hist'), x.sel)
        BY <1>1, <1>2, <1>3, <1>4, <4>1, <4>2, FeedMore DEF x, D
      <4> QED BY <2>2, <3>1, <4>3 DEF FileOK, buf
    <3> QED BY <3>1, <2>2 DEF FileOK
  <2>7. ChildOK(hist', srv', file)
    <3>1. CASE srv.child
      <4>1. /\ Past(hist, srv.snap) /\ Follows(hist, NewAof(srv), Now(hist), srv.sel)
        BY <1>2, <1>7, <3>1 DEF Running, ChildOK, Goal
      <4>2. ChildFile(srv) \in Files /\ srv.rwbuf \in Seq(Records) /\ srv.sel \in Nat
        BY <1>2, <4>1, SrvFields, ChildFileGood
      <4>3. Follows(hist', Write(ChildFile(srv), srv.rwbuf \o x.recs), Now(hist'), x.sel)
        BY <1>1, <1>2, <1>3, <1>4, <4>1, <4>2, FeedMore DEF x, D, NewAof
      <4>4. NewAof(srv') = Write(ChildFile(srv), srv.rwbuf \o x.recs)
        BY <2>2, <3>1 DEF NewAof, ChildFile, rwbuf
      <4>5. Goal(hist', srv') = Now(hist')
        BY <1>7, <2>2 DEF Goal
      <4>6. Past(hist', srv.snap)
        <5>1. PICK n \in 0 .. Len(hist) : srv.snap = State(hist, n)
          BY <4>1 DEF Past
        <5>2. n \in 0 .. Len(hist')
          BY <1>2, <1>4, StateType
        <5> QED BY <1>4, <5>1, <5>2 DEF Past
      <4>7. Below(file, Now(hist'))
        <5>1. GoodFile(hist', file)
          BY <2>4 DEF FilesOK
        <5> QED BY <1>4, <5>1, BelowNow
      <4> QED BY <2>2, <4>3, <4>4, <4>5, <4>6, <4>7 DEF ChildOK
    <3>2. CASE ~srv.child
      BY <3>2, <2>2 DEF ChildOK
    <3> QED BY <3>1, <3>2
  <2>8. Running(hist', srv', file, "loop")
    BY <2>5, <2>6, <2>7 DEF Running
  <2> QED BY <1>1, <1>4, <2>3, <2>4, <2>8 DEF Inv, disk
<1>8. CASE srv.state = "off"
  <2>1. srv' = srv
    BY <1>1, <1>8
  <2>3. Types'
    BY <1>1, <1>4, <2>1 DEF Inv, Types
  <2>4. FilesOK(hist', file, shadows)
    BY <1>2, <1>4, LongerGood DEF FilesOK
  <2>5. Buffers(srv, "loop") /\ FileOK(hist', srv, file)
    BY <1>2, <1>8 DEF Running, FileOK
  <2>6. ChildOK(hist', srv, file)
    <3>1. CASE srv.child
      <4>1. /\ Past(hist, srv.snap) /\ Follows(hist, NewAof(srv), srv.snap, srv.sel)
            /\ Below(file, srv.snap)
        BY <1>2, <1>8, <3>1 DEF Running, ChildOK, Goal
      <4>2. Past(hist', srv.snap)
        <5>1. PICK n \in 0 .. Len(hist) : srv.snap = State(hist, n)
          BY <4>1 DEF Past
        <5>2. n \in 0 .. Len(hist')
          BY <1>2, <1>4, StateType
        <5> QED BY <1>4, <5>1, <5>2 DEF Past
      <4>3. GoodFile(hist', NewAof(srv))
        BY <1>2, <1>4, <4>1, LongerGood DEF Follows
      <4> QED BY <1>8, <4>1, <4>2, <4>3 DEF ChildOK, Goal, Follows
    <3> QED BY <3>1 DEF ChildOK
  <2>7. Running(hist', srv', file, "loop")
    BY <2>1, <2>5, <2>6 DEF Running
  <2> QED BY <1>1, <1>4, <2>3, <2>4, <2>7 DEF Inv, disk
<1> QED BY <1>7, <1>8

(* sendReplyToClient leaves the files alone. *)
LEMMA ReplyKeeps == Inv /\ Reply => Inv'
<1> SUFFICES ASSUME Inv, Reply PROVE Inv'
  OBVIOUS
<1>1. UNCHANGED <<conf, hist, at, srv, disk, jobs, rdb_child, spent>> /\ output' = FALSE /\ armed' = FALSE
      /\ replied' \in {Len(hist), replied}
  BY DEF Reply
<1>2. Types'
  BY <1>1, StateType DEF Inv, Types
<1> QED BY <1>1, <1>2, FrameKeeps, AlikeSame DEF disk

(* A flushAppendOnlyFile that writes nothing changes nothing. *)
LEMMA FlushNothingKeeps == Inv /\ FlushNothing => Inv'
<1> SUFFICES ASSUME Inv, FlushNothing PROVE Inv'
  OBVIOUS
<1>1. UNCHANGED <<conf, hist, replied, output, at, disk, jobs, rdb_child, spent>> /\ armed' = output
      /\ (srv' = srv \/ srv' = [srv EXCEPT !.postponed = "0s"])
  BY DEF FlushNothing
<1>2. srv' \in ServerSet /\ Alike(srv, srv')
  BY <1>1 DEF Inv, Types, ServerSet, Alike
<1>3. Types'
  BY <1>1, <1>2 DEF Inv, Types
<1> QED BY <1>1, <1>2, <1>3, FrameKeeps DEF disk

(* So does the clock. *)
LEMMA TickKeeps == Inv /\ Tick => Inv'
<1> SUFFICES ASSUME Inv, Tick PROVE Inv'
  OBVIOUS
<1>1. UNCHANGED <<conf, client, at, disk, jobs, rdb_child, spent>>
      /\ \E p \in {"no", "0s", "1s", "2s"} : srv' = [srv EXCEPT !.second = TRUE, !.postponed = p]
  BY SrvFields DEF Tick, Inv, Types
<1>2. srv' \in ServerSet /\ Alike(srv, srv')
  BY <1>1 DEF Inv, Types, ServerSet, Alike
<1>3. Types'
  BY <1>1, <1>2 DEF Inv, Types, client
<1> QED BY <1>1, <1>2, <1>3, FrameKeeps DEF disk, client

(* A BGSAVE, a scheduled rewriting, and the kernel that writes the         *)
(* directory.                                                              *)
LEMMA BgsaveKeeps == Inv /\ (BgsaveStart \/ BgsaveEnd \/ bgrewriteaofCommand \/ DirectorySync) => Inv'
<1> SUFFICES ASSUME Inv, BgsaveStart \/ BgsaveEnd \/ bgrewriteaofCommand \/ DirectorySync PROVE Inv'
  OBVIOUS
<1>1. UNCHANGED <<conf, client, at, file, jobs>> /\ rdb_child' \in BOOLEAN /\ shadows' \subseteq shadows
      /\ (srv' = srv \/ srv' = [srv EXCEPT !.sched = TRUE])
      /\ (spent' = spent \/ spent' = [spent EXCEPT !.forks = @ + 1])
  BY DEF BgsaveStart, BgsaveEnd, bgrewriteaofCommand, DirectorySync, disk, Inv, Types
<1>2. srv' \in ServerSet /\ Alike(srv, srv')
  BY <1>1 DEF Inv, Types, ServerSet, Alike
<1>3. spent' \in [forks : Nat, restarts : Nat]
  BY <1>1 DEF Inv, Types
<1>4. Types'
  BY <1>1, <1>2, <1>3 DEF Inv, Types, client
<1> QED BY <1>1, <1>2, <1>4, FrameKeeps DEF client

(* flushAppendOnlyFile, as far as the write: now the file has everything. *)
LEMMA FlushWriteKeeps == Inv /\ FlushWrite => Inv'
<1> SUFFICES ASSUME Inv, FlushWrite PROVE Inv'
  OBVIOUS
<1>1. /\ at = "loop" /\ srv.buf # <<>> /\ at' = "written"
      /\ file' = Write(file, srv.buf) /\ srv' = [srv EXCEPT !.buf = <<>>, !.postponed = "no"]
      /\ UNCHANGED <<conf, hist, replied, output, armed, shadows, jobs, rdb_child, spent>>
  BY DEF FlushWrite, client
<1>2. /\ hist \in Histories /\ Ordered(hist) /\ srv \in ServerSet /\ FilesOK(hist, file, shadows)
      /\ Running(hist, srv, file, "loop")
  BY <1>1 DEF Inv, Types
<1>3. /\ srv' \in ServerSet /\ srv'.state = srv.state /\ srv'.fd = srv.fd /\ srv'.child = srv.child
      /\ srv'.snap = srv.snap /\ srv'.buf = <<>> /\ srv'.rwbuf = srv.rwbuf /\ srv'.sel = srv.sel
  <2>1. <<>> \in Seq(Records)
    OBVIOUS
  <2>2. srv' \in ServerSet
    BY <1>1, <1>2, <2>1 DEF ServerSet
  <2>3. srv'.buf = <<>>
    BY <1>1, <1>2, Zenon DEF ServerSet
  <2>4. /\ srv'.state = srv.state /\ srv'.fd = srv.fd /\ srv'.child = srv.child
        /\ srv'.snap = srv.snap /\ srv'.rwbuf = srv.rwbuf /\ srv'.sel = srv.sel
    BY <1>1, <1>2 DEF ServerSet
  <2> QED BY <2>2, <2>3, <2>4
<1>4. srv.state = "on" /\ Buffers(srv, "loop") /\ FileOK(hist, srv, file) /\ ChildOK(hist, srv, file)
  BY <1>1, <1>2 DEF Running, Buffers
<1>5. FilesOK(hist, file', shadows) /\ Follows(hist, file', Now(hist), srv.sel)
  BY <1>1, <1>2, <1>4, WriteBuffer
<1>6. FileOK(hist, srv', file')
  <2>1. file' \in Files
    BY <1>5 DEF Follows, GoodFile
  <2>2. Write(file', <<>>) = file'
    BY <2>1, WriteFacts
  <2> QED BY <1>3, <1>5, <2>2 DEF FileOK
<1>7. ChildOK(hist, srv', file')
  <2>1. Goal(hist, srv) = Now(hist) /\ Goal(hist, srv') = Now(hist) /\ NewAof(srv') = NewAof(srv)
    BY <1>3, <1>4 DEF Goal, NewAof, ChildFile
  <2>2. Below(file', Now(hist))
    BY <1>2, <1>5, BelowNow DEF Follows
  <2> QED BY <1>3, <1>4, <2>1, <2>2 DEF ChildOK
<1>8. Running(hist, srv', file', "written")
  BY <1>3, <1>4, <1>6, <1>7 DEF Running, Buffers
<1>9. Types'
  BY <1>1, <1>3 DEF Inv, Types
<1> QED BY <1>1, <1>2, <1>5, <1>8, <1>9 DEF Inv

(* An fsync, whoever does it. *)
LEMMA SyncInv ==
  ASSUME Inv, Types', UNCHANGED hist, Alike(srv, srv'),
         at' = at \/ (at = "written" /\ at' = "loop"),
         UNCHANGED <<file, shadows>> \/ (file' = Synced(file) /\ shadows' = {})
  PROVE  Inv'
<1>1. srv \in ServerSet /\ FilesOK(hist, file, shadows) /\ Ordered(hist)
  BY DEF Inv, Types
<1>2. FilesOK(hist, file', shadows')
  BY <1>1, SyncKeeps
<1>3. ASSUME at' # "down" PROVE Running(hist, srv, file, at')
  BY <1>3, RunningAt DEF Inv
<1>4. ASSUME at' # "down" PROVE Running(hist, srv, file', at')
  BY <1>1, <1>3, <1>4, SyncKeeps
<1>5. at' # "down" => Running(hist, srv', file', at')
  BY <1>4, RunningAlike
<1> QED BY <1>1, <1>2, <1>5 DEF Inv

(* ... and its fsync, or the job for one. *)
LEMMA FlushSyncKeeps == Inv /\ FlushSync => Inv'
<1> SUFFICES ASSUME Inv, FlushSync PROVE Inv'
  OBVIOUS
<1>1. /\ at = "written" /\ at' = "loop" /\ armed' = output
      /\ (UNCHANGED <<file, shadows>> \/ (file' = Synced(file) /\ shadows' = {}))
      /\ (jobs' = jobs \/ jobs' = <<"named">>)
      /\ (srv' = srv \/ srv' = [srv EXCEPT !.second = FALSE])
      /\ UNCHANGED <<conf, hist, replied, output, rdb_child, spent>>
  BY DEF FlushSync, disk
<1>2. srv' \in ServerSet /\ Alike(srv, srv')
  BY <1>1 DEF Inv, Types, ServerSet, Alike
<1>3. jobs' \in Seq({"named", "closed"})
  <2> DEFINE J == {"named", "closed"}
  <2>1. "named" \in J /\ jobs \in Seq(J)
    BY DEF Inv, Types
  <2> HIDE DEF J
  <2>2. <<"named">> \in Seq(J)
    BY <2>1
  <2>3. jobs' \in Seq(J)
    BY <1>1, <2>1, <2>2, Zenon
  <2> QED BY <2>3 DEF J
<1>4. Types'
  BY <1>1, <1>2, <1>3 DEF Inv, Types
<1> QED BY <1>1, <1>2, <1>4, SyncInv

(* The job in the background. *)
LEMMA BioKeeps == Inv /\ bioProcessBackgroundJobs => Inv'
<1> SUFFICES ASSUME Inv, bioProcessBackgroundJobs PROVE Inv'
  OBVIOUS
<1>1. /\ jobs # <<>> /\ jobs' = Tail(jobs)
      /\ (UNCHANGED <<file, shadows>> \/ (file' = Synced(file) /\ shadows' = {}))
      /\ UNCHANGED <<conf, client, at, srv, rdb_child, spent>>
  BY DEF bioProcessBackgroundJobs, disk
<1>2. jobs' \in Seq({"named", "closed"})
  BY <1>1 DEF Inv, Types
<1>3. Types'
  BY <1>1, <1>2 DEF Inv, Types, client
<1> QED BY <1>1, <1>3, SyncInv, AlikeSame DEF client

-----------------------------------------------------------------------------

(* A child that has just been forked. *)
LEMMA ForkOK ==
  ASSUME NEW H \in Histories, Ordered(H), NEW s \in ServerSet, s.snap = Now(H), s.rwbuf = <<>>,
         s.sel = NoDb, NEW f, GoodFile(H, f)
  PROVE  ChildOK(H, s, f)
<1>1. Past(H, s.snap) /\ Goal(H, s) = Now(H) /\ Below(f, Now(H))
  BY StateType, BelowNow DEF Goal
<1>2. GoodFile(H, ChildFile(s)) /\ Idle(End(ChildFile(s)), s.snap) /\ ChildFile(s) \in Files
  BY <1>1, ChildFileGood
<1>3. NewAof(s) = ChildFile(s)
  BY <1>2, WriteFacts DEF NewAof
<1>4. Follows(H, NewAof(s), Now(H), s.sel)
  BY <1>2, <1>3 DEF Follows, AtDb
<1> QED BY <1>1, <1>4 DEF ChildOK

(* The server after the fork: the child has its data, the next record      *)
(* begins with a SELECT.                                                   *)
LEMMA ForkedFields ==
  ASSUME srv \in ServerSet, hist \in Histories
  PROVE  /\ Forked \in ServerSet /\ Forked.state = srv.state /\ Forked.fd = srv.fd /\ Forked.buf = srv.buf
         /\ Forked.rwbuf = srv.rwbuf /\ Forked.snap = Now(hist) /\ Forked.child = TRUE /\ Forked.sel = NoDb
         /\ Forked.postponed = srv.postponed /\ Forked.second = srv.second
<1>1. Data = Now(hist)
  BY DEF Data, Now, State, Last, Histories
<1>2. Data \in DataSet /\ NoDb \in Nat
  BY <1>1, StateType, DbFacts
<1> QED BY <1>1, <1>2 DEF Forked, ServerSet

(* The bound on forks is counted. *)
LEMMA SpentType ==
  ASSUME spent \in [forks : Nat, restarts : Nat], Forks
  PROVE  spent' \in [forks : Nat, restarts : Nat]
  BY DEF Forks

(* rewriteAppendOnlyFileBackground: from here on, the child's file and the *)
(* list of blocks have everything, too.                                    *)
LEMMA RewriteKeeps == Inv /\ rewriteAppendOnlyFileBackground => Inv'
<1> SUFFICES ASSUME Inv, rewriteAppendOnlyFileBackground PROVE Inv'
  OBVIOUS
<1>1. /\ at = "loop" /\ ~srv.child /\ Forks /\ srv' = Forked
      /\ UNCHANGED <<conf, hist, replied, output, armed, at, file, shadows, jobs, rdb_child>>
  BY DEF rewriteAppendOnlyFileBackground, client, disk
<1>2. /\ hist \in Histories /\ Ordered(hist) /\ srv \in ServerSet /\ FilesOK(hist, file, shadows)
      /\ Running(hist, srv, file, "loop") /\ GoodFile(hist, file)
  BY <1>1 DEF Inv, Types, FilesOK
<1>3. /\ srv' \in ServerSet /\ srv'.state = srv.state /\ srv'.fd = srv.fd /\ srv'.buf = srv.buf
      /\ srv'.rwbuf = srv.rwbuf /\ srv'.snap = Now(hist) /\ srv'.child /\ srv'.sel = NoDb
  BY <1>1, <1>2, ForkedFields
<1>4. srv'.rwbuf = <<>>
  BY <1>1, <1>2, <1>3 DEF Running, Buffers
<1>5. ChildOK(hist, srv', file)
  BY <1>2, <1>3, <1>4, ForkOK
<1>6. FileOK(hist, srv', file)
  BY <1>2, <1>3, FollowsNoDb DEF Running, FileOK
<1>7. Running(hist, srv', file, "loop")
  BY <1>2, <1>3, <1>4, <1>5, <1>6 DEF Running, Buffers
<1>8. spent' \in [forks : Nat, restarts : Nat]
  BY <1>1, SpentType DEF Inv, Types
<1>9. Types'
  BY <1>1, <1>3, <1>8 DEF Inv, Types
<1> QED BY <1>1, <1>2, <1>7, <1>9 DEF Inv

(* The server after the end of a rewriting. *)
LEMMA CleanupFields ==
  ASSUME NEW s \in ServerSet
  PROVE  LET c == Cleanup(s)
         IN /\ c \in ServerSet /\ c.state = s.state /\ c.fd = s.fd /\ c.buf = s.buf /\ c.sel = s.sel
            /\ c.rwbuf = <<>> /\ c.child = FALSE /\ c.snap = Empty
            /\ c.postponed = s.postponed /\ c.second = s.second
            /\ c.sched = (s.sched \/ s.state = "wait")
<1>1. Empty \in DataSet /\ s.sched \in BOOLEAN
  BY LoaderType DEF ServerSet
<1> DEFINE b == s.sched \/ s.state = "wait"
           c == Cleanup(s)
<1>2. b \in BOOLEAN /\ <<>> \in Seq(Records)
  OBVIOUS
<1>3. c = [s EXCEPT !.child = FALSE, !.snap = Empty, !.rwbuf = <<>>, !.sched = b]
  BY DEF Cleanup
<1> HIDE DEF b, c
<1>4. c \in ServerSet
  BY <1>1, <1>2, <1>3 DEF ServerSet
<1>5. /\ c.state = s.state /\ c.fd = s.fd /\ c.buf = s.buf /\ c.sel = s.sel
      /\ c.snap = Empty /\ c.postponed = s.postponed /\ c.second = s.second
  BY <1>3 DEF ServerSet
<1>6. c.rwbuf = <<>> /\ c.child = FALSE /\ c.sched = b
  BY <1>3, Zenon DEF ServerSet
<1> QED BY <1>4, <1>5, <1>6, Zenon DEF b, c

(* A rewriting that fails leaves the old file and its buffer. *)
LEMMA RewriteFailsKeeps == Inv /\ RewriteFails => Inv'
<1> SUFFICES ASSUME Inv, RewriteFails PROVE Inv'
  OBVIOUS
<1>1. /\ at = "loop" /\ srv' = Cleanup(srv)
      /\ UNCHANGED <<conf, hist, replied, output, armed, at, file, shadows, jobs, rdb_child, spent>>
  BY DEF RewriteFails, client, disk
<1>2. srv \in ServerSet /\ FilesOK(hist, file, shadows) /\ Running(hist, srv, file, "loop")
  BY <1>1 DEF Inv, Types
<1>3. /\ srv' \in ServerSet /\ srv'.state = srv.state /\ srv'.fd = srv.fd /\ srv'.buf = srv.buf
      /\ srv'.rwbuf = <<>> /\ ~srv'.child /\ srv'.sel = srv.sel
  BY <1>1, <1>2, CleanupFields
<1>4. Running(hist, srv', file, "loop")
  BY <1>2, <1>3 DEF Running, Buffers, FileOK, ChildOK
<1>5. Types'
  BY <1>1, <1>3 DEF Inv, Types
<1> QED BY <1>1, <1>4, <1>5 DEF Inv

(* The new file takes the place of the old one. *)
LEMMA ReplaceOK ==
  ASSUME NEW H, NEW f, NEW S, FilesOK(H, f, S), NEW g, GoodFile(H, g), Below(f, End(g).whole)
  PROVE  FilesOK(H, g, S \cup {f})
<1>1. /\ GoodFile(H, f) /\ Leq(End(f).whole, End(g).whole)
      /\ End(f).whole \in DataSet /\ End(g).whole \in DataSet
  <2>1. /\ GoodFile(H, f) /\ Len(f.loads) \in f.synced .. Len(f.loads)
        /\ End(f).whole = Whole(f, Len(f.loads))
        /\ End(f).whole \in DataSet /\ End(g).whole \in DataSet
    BY GoodEnd DEF FilesOK
  <2> QED BY <2>1 DEF Below
<1>2. ASSUME NEW h \in S PROVE GoodFile(H, h) /\ Below(h, End(g).whole)
  <2>1. GoodFile(H, h) /\ Below(h, End(f).whole)
    BY DEF FilesOK
  <2>2. \A k \in h.synced .. Len(h.loads) : Whole(h, k) \in DataSet
    BY <2>1, GoodEnd
  <2> QED BY <1>1, <2>1, <2>2, LeqOrder DEF Below
<1> QED BY <1>1, <1>2 DEF FilesOK

(* The rename: the new file takes the place of the old one, and nothing    *)
(* that can be loaded from the old one is more than what is in the new     *)
(* one.                                                                    *)
LEMMA RewriteRenameKeeps == Inv /\ RewriteRename => Inv'
<1> SUFFICES ASSUME Inv, RewriteRename PROVE Inv'
  OBVIOUS
<1> DEFINE new == NewAof(srv)
<1>1. /\ at = "loop" /\ srv.child /\ at' = "renamed" /\ shadows' = shadows \cup {file}
      /\ file' = (IF conf.ordered THEN Synced(new) ELSE new)
      /\ UNCHANGED <<conf, hist, replied, output, armed, srv, jobs, rdb_child, spent>>
  BY DEF RewriteRename, client, NewAof, ChildFile
<1>2. /\ srv \in ServerSet /\ FilesOK(hist, file, shadows) /\ Running(hist, srv, file, "loop")
  BY <1>1 DEF Inv, Types
<1>3. Follows(hist, new, Goal(hist, srv), srv.sel) /\ Below(file, Goal(hist, srv))
  BY <1>1, <1>2 DEF Running, ChildOK
<1> HIDE DEF new
<1>4. GoodFile(hist, new) /\ Idle(End(new), Goal(hist, srv))
  BY <1>3 DEF Follows
<1>5. GoodFile(hist, Synced(new)) /\ End(Synced(new)) = End(new)
  BY <1>4, SyncedGood
<1>6. GoodFile(hist, file') /\ Idle(End(file'), Goal(hist, srv))
  BY <1>1, <1>4, <1>5
<1>7. FilesOK(hist, file', shadows')
  <2>1. End(file').whole = Goal(hist, srv)
    BY <1>6 DEF Idle
  <2> QED BY <1>1, <1>2, <1>3, <1>6, <2>1, ReplaceOK
<1>8. Running(hist, srv, file', "renamed")
  <2>1. Buffers(srv, "renamed")
    BY <1>2 DEF Running, Buffers
  <2>2. srv.state # "off" => Follows(hist, file', Now(hist), NoDb)
    BY <1>6 DEF Follows, Goal, AtDb
  <2> QED BY <2>1, <2>2 DEF Running
<1>9. Types'
  BY <1>1 DEF Inv, Types
<1> QED BY <1>1, <1>7, <1>8, <1>9 DEF Inv

Jobs == {"named", "closed"}

(* Closing a file makes its jobs do nothing. *)
LEMMA ClosedJobs ==
  ASSUME NEW q \in Seq(Jobs)
  PROVE  LET c == [i \in DOMAIN q |-> "closed"] IN c \in Seq(Jobs) /\ Append(c, "named") \in Seq(Jobs)
<1> DEFINE c == [i \in DOMAIN q |-> "closed"]
<1>1. "closed" \in Jobs /\ "named" \in Jobs
  BY DEF Jobs
<1>2. DOMAIN q = 1 .. Len(q) /\ Len(q) \in Nat
  OBVIOUS
<1>3. c \in [1 .. Len(q) -> Jobs]
  BY <1>1, <1>2
<1>4. c \in Seq(Jobs)
  BY <1>2, <1>3
<1> HIDE DEF c
<1>5. Append(c, "named") \in Seq(Jobs)
  BY <1>1, <1>4
<1> QED BY <1>4, <1>5 DEF c

(* The server with the new file. *)
NewServer(s) == Cleanup([Switched(s) EXCEPT !.state = IF @ = "wait" THEN "on" ELSE @])

(* Its fields: the buffer is empty, since what was in it is in the new     *)
(* file, and the next record begins with a SELECT.                         *)
LEMMA NewServerFields ==
  ASSUME NEW s \in ServerSet
  PROVE  LET c == NewServer(s)
         IN /\ c \in ServerSet /\ c.state = (IF s.state = "wait" THEN "on" ELSE s.state)
            /\ c.fd = "open" /\ c.buf = <<>> /\ c.sel = NoDb
            /\ c.rwbuf = <<>> /\ c.child = FALSE /\ c.snap = Empty
            /\ c.postponed = s.postponed /\ c.second = s.second
<1> DEFINE st == IF s.state = "wait" THEN "on" ELSE s.state
           u == [s EXCEPT !.fd = "open", !.sel = NoDb, !.buf = <<>>, !.state = st]
<1>1. st \in {"on", "off", "wait"} /\ <<>> \in Seq(Records) /\ NoDb \in Nat
  BY DbFacts DEF ServerSet
<1>2. NewServer(s) = Cleanup(u)
  BY DEF NewServer, Switched, ServerSet
<1> HIDE DEF st
<1>3. u \in ServerSet
  BY <1>1 DEF ServerSet
<1>4. u.state = st /\ u.fd = "open" /\ u.sel = NoDb /\ u.postponed = s.postponed /\ u.second = s.second
  BY DEF ServerSet
<1>5. u.buf = <<>>
  BY Zenon DEF ServerSet
<1> HIDE DEF u
<1>6. LET c == Cleanup(u)
      IN /\ c \in ServerSet /\ c.state = u.state /\ c.fd = u.fd /\ c.buf = u.buf /\ c.sel = u.sel
         /\ c.rwbuf = <<>> /\ c.child = FALSE /\ c.snap = Empty
         /\ c.postponed = u.postponed /\ c.second = u.second
  BY <1>3, CleanupFields
<1> QED BY <1>2, <1>4, <1>5, <1>6, Zenon DEF st

(* Behind the rename, the server appends to the new file. *)
LEMMA RewriteSwitchKeeps == Inv /\ RewriteSwitch => Inv'
<1> SUFFICES ASSUME Inv, RewriteSwitch PROVE Inv'
  OBVIOUS
<1>1. /\ at = "renamed" /\ at' = "loop"
      /\ UNCHANGED <<conf, hist, replied, output, armed, rdb_child, spent>>
  BY DEF RewriteSwitch, client
<1>2. /\ srv \in ServerSet /\ FilesOK(hist, file, shadows) /\ Running(hist, srv, file, "renamed")
      /\ jobs \in Seq(Jobs) /\ Ordered(hist)
  BY <1>1 DEF Inv, Types, Jobs
<1>3. CASE srv.fd = "none"
  <2>1. srv' = Cleanup(srv) /\ UNCHANGED <<file, shadows, jobs>>
    BY <1>3 DEF RewriteSwitch, disk
  <2>2. srv.state = "off" /\ srv.buf = <<>>
    BY <1>2, <1>3 DEF Running, Buffers
  <2>3. /\ srv' \in ServerSet /\ srv'.state = "off" /\ srv'.buf = <<>> /\ srv'.rwbuf = <<>> /\ ~srv'.child
    BY <1>2, <2>1, <2>2, CleanupFields, Zenon
  <2>4. Running(hist, srv', file, "loop")
    BY <2>3 DEF Running, Buffers, FileOK, ChildOK
  <2>5. Types'
    BY <1>1, <2>1, <2>3 DEF Inv, Types
  <2> QED BY <1>1, <1>2, <2>1, <2>4, <2>5 DEF Inv
<1>4. CASE srv.fd # "none"
  <2>1. /\ srv' = NewServer(srv)
        /\ ((file' = Synced(file) /\ shadows' = {}) \/ UNCHANGED <<file, shadows>>)
        /\ LET closed == [i \in DOMAIN jobs |-> "closed"] IN jobs' \in {closed, Append(closed, "named")}
    BY <1>4 DEF RewriteSwitch, disk, NewServer
  <2>2. jobs' \in Seq(Jobs)
    BY <1>2, <2>1, ClosedJobs, Zenon
  <2>3. /\ srv' \in ServerSet /\ srv'.state = (IF srv.state = "wait" THEN "on" ELSE srv.state)
        /\ srv'.fd = "open" /\ srv'.buf = <<>> /\ srv'.sel = NoDb /\ srv'.rwbuf = <<>> /\ ~srv'.child
    BY <1>2, <2>1, NewServerFields, Zenon
  <2>4. srv.state # "off" => Follows(hist, file, Now(hist), NoDb)
    BY <1>2 DEF Running
  <2>5. Write(file, <<>>) = file
    BY <1>2, WriteFacts DEF FilesOK, GoodFile
  <2>6. srv'.state = "on" => srv.state # "off"
    BY <2>3
  <2>7. FileOK(hist, srv', file)
    BY <2>3, <2>4, <2>5, <2>6 DEF FileOK
  <2>8. Running(hist, srv', file, "loop")
    BY <2>3, <2>7 DEF Running, Buffers, ChildOK
  <2>9. FilesOK(hist, file', shadows') /\ Running(hist, srv', file', "loop")
    BY <1>2, <2>1, <2>3, <2>8, SyncKeeps
  <2>10. Types'
    BY <1>1, <2>2, <2>3 DEF Inv, Types, Jobs
  <2> QED BY <1>1, <1>2, <2>9, <2>10 DEF Inv
<1> QED BY <1>3, <1>4

(* stopAppendOnly writes and syncs what there is. *)
LEMMA StopKeeps == Inv /\ stopAppendOnly => Inv'
<1> SUFFICES ASSUME Inv, stopAppendOnly PROVE Inv'
  OBVIOUS
<1> DEFINE p == IF srv.buf = <<>> THEN srv.postponed ELSE "no"
<1>1. /\ at = "loop" /\ file' = Synced(Write(file, srv.buf)) /\ shadows' = {}
      /\ jobs' = [i \in DOMAIN jobs |-> "closed"]
      /\ srv' = [srv EXCEPT !.buf = <<>>, !.rwbuf = <<>>, !.child = FALSE, !.snap = Empty, !.state = "off",
                            !.fd = "none", !.sel = NoDb, !.postponed = p]
      /\ UNCHANGED <<conf, hist, replied, output, armed, at, rdb_child, spent>>
  BY DEF stopAppendOnly, client
<1>2. /\ srv \in ServerSet /\ FilesOK(hist, file, shadows) /\ Running(hist, srv, file, "loop")
      /\ jobs \in Seq(Jobs)
  BY <1>1 DEF Inv, Types, Jobs
<1>3. p \in {"no", "0s", "1s", "2s"} /\ Empty \in DataSet /\ NoDb \in Nat /\ <<>> \in Seq(Records)
  BY <1>2, SrvFields, LoaderType, DbFacts
<1> HIDE DEF p
<1>4. srv' \in ServerSet
  BY <1>1, <1>2, <1>3 DEF ServerSet
<1>5. srv'.state = "off" /\ srv'.buf = <<>> /\ srv'.rwbuf = <<>> /\ ~srv'.child
  BY <1>1, <1>2, Zenon DEF ServerSet
<1>6. jobs' \in Seq(Jobs)
  BY <1>1, <1>2, ClosedJobs, Zenon
<1>7. FilesOK(hist, Write(file, srv.buf), shadows)
  BY <1>2, WriteBuffer DEF Running
<1>8. FilesOK(hist, file', shadows')
  BY <1>1, <1>7, SyncKeeps
<1>9. Running(hist, srv', file', "loop")
  BY <1>5 DEF Running, Buffers, FileOK, ChildOK
<1>10. Types'
  BY <1>1, <1>4, <1>6 DEF Inv, Types, Jobs
<1> QED BY <1>1, <1>8, <1>9, <1>10 DEF Inv

(* startAppendOnly: the old file stays until a rewriting has ended, if one *)
(* could be begun.                                                         *)
LEMMA StartKeeps == Inv /\ startAppendOnly => Inv'
<1> SUFFICES ASSUME Inv, startAppendOnly PROVE Inv'
  OBVIOUS
<1>1. /\ at = "loop" /\ srv.state = "off"
      /\ UNCHANGED <<conf, hist, replied, output, armed, at, file, shadows, jobs, rdb_child>>
  BY DEF startAppendOnly, client, disk
<1>2. /\ hist \in Histories /\ Ordered(hist) /\ srv \in ServerSet /\ FilesOK(hist, file, shadows)
      /\ Running(hist, srv, file, "loop") /\ GoodFile(hist, file)
  BY <1>1 DEF Inv, Types, FilesOK
<1>3. CASE ~srv.child /\ Forks /\ srv' = [Forked EXCEPT !.state = "wait", !.fd = "open"]
  <2>1. /\ Forked \in ServerSet /\ Forked.buf = srv.buf
        /\ Forked.rwbuf = srv.rwbuf /\ Forked.snap = Now(hist) /\ Forked.child = TRUE /\ Forked.sel = NoDb
    BY <1>2, ForkedFields
  <2> DEFINE u == Forked
  <2>2. u \in ServerSet /\ srv' = [u EXCEPT !.state = "wait", !.fd = "open"]
    BY <1>3, <2>1
  <2> HIDE DEF u
  <2>3. /\ srv' \in ServerSet /\ srv'.state = "wait" /\ srv'.fd = "open" /\ srv'.buf = u.buf
        /\ srv'.rwbuf = u.rwbuf /\ srv'.snap = u.snap /\ srv'.child = u.child /\ srv'.sel = u.sel
    BY <2>2 DEF ServerSet
  <2>4. srv.buf = <<>> /\ srv.rwbuf = <<>>
    BY <1>1, <1>2 DEF Running, Buffers
  <2>5. srv'.buf = <<>> /\ srv'.rwbuf = <<>> /\ srv'.snap = Now(hist) /\ srv'.sel = NoDb
    BY <2>1, <2>3, <2>4 DEF u
  <2>6. ChildOK(hist, srv', file)
    BY <1>2, <2>3, <2>5, ForkOK
  <2>7. Running(hist, srv', file, "loop")
    BY <2>3, <2>5, <2>6 DEF Running, Buffers, FileOK
  <2>8. spent' \in [forks : Nat, restarts : Nat]
    BY <1>3, SpentType DEF Inv, Types
  <2>9. Types'
    BY <1>1, <2>3, <2>8 DEF Inv, Types
  <2> QED BY <1>1, <1>2, <2>7, <2>9 DEF Inv
<1>4. CASE srv' = [srv EXCEPT !.fd = "stale"] /\ UNCHANGED spent
  <2>1. /\ srv' \in ServerSet /\ srv'.state = srv.state /\ srv'.fd = "stale" /\ srv'.buf = srv.buf
        /\ srv'.rwbuf = srv.rwbuf /\ srv'.snap = srv.snap /\ srv'.child = srv.child /\ srv'.sel = srv.sel
    BY <1>2, <1>4 DEF ServerSet
  <2>2. NewAof(srv') = NewAof(srv) /\ Goal(hist, srv') = Goal(hist, srv)
    BY <2>1 DEF NewAof, ChildFile, Goal
  <2>3. Running(hist, srv', file, "loop")
    BY <1>2, <2>1, <2>2 DEF Running, Buffers, FileOK, ChildOK
  <2>4. Types'
    BY <1>1, <1>4, <2>1 DEF Inv, Types
  <2> QED BY <1>1, <1>2, <2>3, <2>4 DEF Inv
<1> QED BY <1>3, <1>4 DEF startAppendOnly

-----------------------------------------------------------------------------

(* What is left of struct redisServer for a server that is down has its    *)
(* type.                                                                   *)
LEMMA OffType ==
  ASSUME srv \in ServerSet
  PROVE  Off \in ServerSet /\ Off.state = srv.state
<1>1. Empty \in DataSet /\ <<>> \in Seq(Records)
  BY LoaderType
<1> QED BY <1>1 DEF Off, ServerSet

(* Types do not change when the server ends. *)
LEMMA EndTypes ==
  ASSUME Types, at' = "down", srv' = Off, jobs' = <<>>, rdb_child' = FALSE, UNCHANGED <<conf, client, spent>>
  PROVE  Types'
<1>1. srv' \in ServerSet
  BY OffType DEF Types
<1> DEFINE J == {"named", "closed"}
<1>2. jobs' \in Seq(J)
  OBVIOUS
<1> QED BY <1>1, <1>2 DEF Types, client

(* A write that ends in the middle of a record. *)
LEMMA TornFile ==
  ASSUME NEW H, NEW f, NEW S, FilesOK(H, f, S), NEW q \in Seq(Records), GoodFile(H, Write(f, q)),
         NEW n \in 0 .. Len(q)
  PROVE  FilesOK(H, Torn(f, q, n), S)
<1>1. f \in Files /\ f.synced <= Len(f.loads) /\ Len(f.loads) \in Nat
  BY GoodEnd DEF FilesOK
<1>2. /\ GoodFile(H, Torn(f, q, n)) /\ Torn(f, q, n).synced = f.synced
      /\ Len(f.loads) <= Len(Torn(f, q, n).loads)
      /\ \A k \in 0 .. Len(f.loads) : Whole(Torn(f, q, n), k) = Whole(f, k)
  BY <1>1, WritePartGood
<1> QED BY <1>2, LongerFile

(* A short write that is not cut off leaves a part of what was to be       *)
(* written.                                                                *)
LEMMA FlushFailsKeeps == Inv /\ FlushFails => Inv'
<1> SUFFICES ASSUME Inv, FlushFails PROVE Inv'
  OBVIOUS
<1>1. /\ at = "loop" /\ srv.buf # <<>> /\ at' = "down" /\ srv' = Off /\ jobs' = <<>> /\ rdb_child' = FALSE
      /\ UNCHANGED <<conf, client, spent>> /\ shadows' = shadows
      /\ (file' = file \/ \E n \in 0 .. Len(srv.buf) - 1 :
                             file' = [Write(file, SubSeq(srv.buf, 1, n)) EXCEPT !.torn = TRUE])
  BY DEF FlushFails, client
<1>2. Types'
  BY <1>1, EndTypes DEF Inv
<1>3. /\ srv \in ServerSet /\ FilesOK(hist, file, shadows) /\ Running(hist, srv, file, "loop")
      /\ GoodFile(hist, file)
  BY <1>1 DEF Inv, Types, FilesOK
<1>4. CASE file' = file
  BY <1>1, <1>2, <1>3, <1>4, DownKeeps DEF client
<1>5. ASSUME NEW n \in 0 .. Len(srv.buf) - 1,
             file' = [Write(file, SubSeq(srv.buf, 1, n)) EXCEPT !.torn = TRUE]
      PROVE  FilesOK(hist, file', shadows)
  <2>1. srv.state = "on" /\ srv.buf \in Seq(Records)
    BY <1>1, <1>3 DEF Running, Buffers, ServerSet
  <2>2. GoodFile(hist, Write(file, srv.buf))
    BY <1>3, <2>1 DEF Running, FileOK, Follows
  <2>3. n \in 0 .. Len(srv.buf)
    BY <2>1
  <2>4. FilesOK(hist, Torn(file, srv.buf, n), shadows)
    BY <1>3, <2>1, <2>2, <2>3, TornFile
  <2> QED BY <1>5, <2>4 DEF Torn
<1>6. FilesOK(hist, file', shadows)
  BY <1>1, <1>3, <1>5
<1> QED BY <1>1, <1>2, <1>6, DownKeeps DEF client

(* SHUTDOWN and a crash of the process leave the file. *)
LEMMA EndsKeeps == Inv /\ (prepareForShutdown \/ Kill) => Inv'
<1> SUFFICES ASSUME Inv, prepareForShutdown \/ Kill PROVE Inv'
  OBVIOUS
<1>1. /\ at' = "down" /\ srv' = Off /\ jobs' = <<>> /\ rdb_child' = FALSE
      /\ UNCHANGED <<conf, client, spent>>
      /\ (UNCHANGED <<file, shadows>> \/ (file' = Synced(file) /\ shadows' = {}))
  BY DEF prepareForShutdown, Kill, Ends, disk
<1>2. Types'
  BY <1>1, EndTypes DEF Inv
<1>3. FilesOK(hist, file', shadows')
  BY <1>1, SyncKeeps DEF Inv
<1> QED BY <1>1, <1>2, <1>3, DownKeeps DEF client

(* After a power failure there is a part of the file, or of one that it    *)
(* has replaced, with at least what was synced.                            *)
LEMMA PowerKeeps == Inv /\ Power => Inv'
<1> SUFFICES ASSUME Inv, Power PROVE Inv'
  OBVIOUS
<1>1. /\ at' = "down" /\ srv' = Off /\ jobs' = <<>> /\ rdb_child' = FALSE
      /\ UNCHANGED <<conf, client, spent>> /\ shadows' = {}
  BY DEF Power, Ends
<1>a. PICK f \in shadows \cup {file} : \E k \in f.synced .. Len(f.loads) :
        \E torn \in IF k < Len(f.loads) THEN BOOLEAN ELSE {f.torn} :
          file' = [loads |-> SubSeq(f.loads, 1, k), torn |-> torn, synced |-> k]
  BY DEF Power
<1>b. PICK k \in f.synced .. Len(f.loads) :
        \E torn \in IF k < Len(f.loads) THEN BOOLEAN ELSE {f.torn} :
          file' = [loads |-> SubSeq(f.loads, 1, k), torn |-> torn, synced |-> k]
  BY <1>a
<1>2. PICK torn \in IF k < Len(f.loads) THEN BOOLEAN ELSE {f.torn} :
        file' = [loads |-> SubSeq(f.loads, 1, k), torn |-> torn, synced |-> k]
  BY <1>b
<1>3. Types'
  BY <1>1, EndTypes DEF Inv
<1>4. GoodFile(hist, f)
  BY DEF Inv, FilesOK
<1>5. torn \in BOOLEAN
  <2>1. f.torn \in BOOLEAN
    BY <1>4 DEF GoodFile, Files
  <2> QED BY <2>1
<1>6. GoodFile(hist, file')
  BY <1>2, <1>4, <1>5, CutGood
<1>7. FilesOK(hist, file', shadows')
  BY <1>1, <1>6 DEF FilesOK
<1> QED BY <1>1, <1>3, <1>7, DownKeeps DEF client

(* redis-check-aof --fix does not change what is loaded. *)
LEMMA CheckAofKeeps == Inv /\ CheckAof => Inv'
<1> SUFFICES ASSUME Inv, CheckAof PROVE Inv'
  OBVIOUS
<1>1. /\ at = "down" /\ file' = Fixed(file)
      /\ UNCHANGED <<conf, client, at, srv, shadows, jobs, rdb_child, spent>>
  BY DEF CheckAof
<1>2. Types'
  BY <1>1 DEF Inv, Types, client
<1>3. GoodFile(hist, file) /\ FilesOK(hist, file, shadows)
  BY DEF Inv, FilesOK
<1>4. GoodFile(hist, Fixed(file)) /\ End(Fixed(file)).whole = End(file).whole
  BY <1>3, FixedGood
<1>5. FilesOK(hist, file', shadows')
  BY <1>1, <1>3, <1>4 DEF FilesOK
<1> QED BY <1>1, <1>2, <1>5, DownKeeps DEF client

-----------------------------------------------------------------------------
(* After how many modifications the database was D.                        *)

Index(H, D) ==
  LET past == { n \in 0 .. Len(H) : D = State(H, n) } IN IF past = {} THEN 0 ELSE Min(past)

(* Min is in the set, and nothing in it is less. *)
LEMMA MinFacts ==
  ASSUME NEW T \in SUBSET Nat, T # {}
  PROVE  Min(T) \in T /\ \A m \in T : Min(T) <= m
<1>1. \E n \in T : \A m \in T : n <= m
  BY LeastNat
<1> QED BY <1>1 DEF Min

(* The index of a state of the past is one. *)
LEMMA IndexFacts ==
  ASSUME NEW H \in Histories, NEW D, Past(H, D)
  PROVE  Index(H, D) \in 0 .. Len(H) /\ State(H, Index(H, D)) = D
<1> DEFINE T == { n \in 0 .. Len(H) : D = State(H, n) }
<1>1. T \in SUBSET Nat /\ T # {}
  BY DEF Past
<1>2. Index(H, D) = Min(T)
  BY <1>1 DEF Index
<1> HIDE DEF T
<1>3. Min(T) \in T
  BY <1>1, MinFacts
<1> QED BY <1>2, <1>3 DEF T

(* What is restored from a part of a file, said with Index. *)
LEMMA RestoredIs ==
  /\ \A f, k : RestoredFrom(f, k) = Index(hist, Whole(f, k))
  /\ \A f, k : PastStates(f, k) = { n \in 0 .. Len(hist) : Whole(f, k) = State(hist, n) }
  BY DEF RestoredFrom, PastStates, Index, Whole, State

(* A file that can be loaded has all that is in it. *)
LEMMA LoadsAll ==
  ASSUME NEW H, NEW f, GoodFile(H, f), Loads(f)
  PROVE  Idle(End(f), End(f).whole)
<1>1. Len(f.loads) \in Nat /\ End(f).whole = Whole(f, Len(f.loads)) /\ ~End(f).multi
  BY GoodEnd DEF Loads, End
<1>2. CASE Len(f.loads) = 0
  BY <1>1, <1>2 DEF Idle, End, LoadedUpTo, Loader
<1>3. CASE Len(f.loads) # 0
  <2>1. Len(f.loads) \in 1 .. Len(f.loads)
    BY <1>1, <1>3
  <2> QED BY <1>1, <2>1 DEF GoodFile, Sound, Idle, End
<1> QED BY <1>2, <1>3

(* A restart with what the file has. *)
LEMMA RestartKeeps == Inv /\ Restart => Inv'
<1> SUFFICES ASSUME Inv, Restart PROVE Inv'
  OBVIOUS
<1> DEFINE r == Restored
           D == End(file).whole
<1>1. /\ Loads(file) /\ hist' = SubSeq(hist, 1, r) /\ replied' = Min({replied, r})
      /\ output' = FALSE /\ armed' = FALSE /\ srv' = Started(Empty) /\ at' = "loop"
      /\ spent' = [spent EXCEPT !.restarts = @ + 1]
      /\ UNCHANGED <<conf, file, shadows, jobs, rdb_child>>
  BY DEF Restart, disk
<1>2. hist \in Histories /\ Ordered(hist) /\ GoodFile(hist, file) /\ FilesOK(hist, file, shadows)
  BY DEF Inv, Types, FilesOK
<1>3. Past(hist, D) /\ D = Whole(file, Len(file.loads)) /\ Below(file, D)
  BY <1>2, GoodEnd
<1>4. r = Index(hist, D)
  BY <1>3, RestoredIs DEF Restored
<1> HIDE DEF r, D
<1>5. r \in 0 .. Len(hist) /\ State(hist, r) = D
  BY <1>2, <1>3, <1>4, IndexFacts
<1>6. hist' \in Histories /\ Ordered(hist') /\ Now(hist') = D
  BY <1>1, <1>2, <1>5, OrderedCut
<1>7. FilesOK(hist', file, shadows)
  <2>1. GoodFile(hist', file)
    BY <1>1, <1>2, <1>3, <1>5, ShorterGood
  <2>2. ASSUME NEW g \in shadows PROVE GoodFile(hist', g) /\ Below(g, D)
    <3>1. GoodFile(hist, g) /\ Below(g, D)
      BY <1>2 DEF FilesOK, D
    <3> QED BY <1>1, <1>2, <1>5, <3>1, ShorterGood
  <2> QED BY <2>1, <2>2 DEF FilesOK, D
<1>8. Empty \in DataSet /\ <<>> \in Seq(Records) /\ NoDb \in Nat
  BY LoaderType, DbFacts
<1>9. srv' \in ServerSet /\ srv'.state = "on" /\ srv'.fd = "open" /\ srv'.sel = NoDb /\ ~srv'.child
  BY <1>1, <1>8 DEF Started, ServerSet
<1>10. srv'.buf = <<>> /\ srv'.rwbuf = <<>>
  BY <1>1 DEF Started
<1>11. Running(hist', srv', file, "loop")
  <2>1. Idle(End(file), D)
    BY <1>1, <1>2, LoadsAll DEF D
  <2>2. Follows(hist', file, Now(hist'), NoDb)
    BY <1>6, <1>7, <2>1 DEF Follows, FilesOK, AtDb
  <2>3. Write(file, <<>>) = file
    BY <1>2, WriteFacts DEF GoodFile
  <2> QED BY <1>9, <1>10, <2>2, <2>3 DEF Running, Buffers, FileOK, ChildOK
<1>12. replied' \in Nat
  <2> DEFINE T == {replied, r}
  <2>1. T \in SUBSET Nat /\ T # {}
    BY <1>2, <1>5, StateType DEF Inv, Types
  <2> HIDE DEF T
  <2>2. Min(T) \in Nat
    BY <2>1, MinFacts
  <2> QED BY <1>1, <2>2 DEF T
<1>13. spent' \in [forks : Nat, restarts : Nat]
  BY <1>1 DEF Inv, Types
<1>14. Types'
  BY <1>1, <1>6, <1>9, <1>12, <1>13 DEF Inv, Types
<1> QED BY <1>1, <1>6, <1>7, <1>11, <1>14 DEF Inv

(* Every step preserves the invariant. *)
LEMMA NextInv == Inv /\ [Next]_vars => Inv'
<1> SUFFICES ASSUME Inv, [Next]_vars PROVE Inv'
  OBVIOUS
<1>1. CASE UNCHANGED vars
  BY <1>1, FrameKeeps, AlikeSame DEF vars, Inv, Types
<1>2. CASE Execute
  BY <1>2, ExecuteKeeps
<1>3. CASE Reply
  BY <1>3, ReplyKeeps
<1>4. CASE FlushNothing
  BY <1>4, FlushNothingKeeps
<1>5. CASE FlushWrite
  BY <1>5, FlushWriteKeeps
<1>6. CASE FlushSync
  BY <1>6, FlushSyncKeeps
<1>7. CASE FlushFails
  BY <1>7, FlushFailsKeeps
<1>8. CASE Tick
  BY <1>8, TickKeeps
<1>9. CASE bioProcessBackgroundJobs
  BY <1>9, BioKeeps
<1>10. CASE rewriteAppendOnlyFileBackground
  BY <1>10, RewriteKeeps
<1>11. CASE BgsaveStart \/ BgsaveEnd \/ bgrewriteaofCommand \/ DirectorySync
  BY <1>11, BgsaveKeeps
<1>12. CASE RewriteFails
  BY <1>12, RewriteFailsKeeps
<1>13. CASE RewriteRename
  BY <1>13, RewriteRenameKeeps
<1>14. CASE RewriteSwitch
  BY <1>14, RewriteSwitchKeeps
<1>15. CASE stopAppendOnly
  BY <1>15, StopKeeps
<1>16. CASE startAppendOnly
  BY <1>16, StartKeeps
<1>17. CASE prepareForShutdown \/ Kill
  BY <1>17, EndsKeeps
<1>18. CASE Power
  BY <1>18, PowerKeeps
<1>19. CASE CheckAof
  BY <1>19, CheckAofKeeps
<1>20. CASE Restart
  BY <1>20, RestartKeeps
<1> QED BY <1>1, <1>2, <1>3, <1>4, <1>5, <1>6, <1>7, <1>8, <1>9, <1>10, <1>11, <1>12, <1>13, <1>14,
           <1>15, <1>16, <1>17, <1>18, <1>19, <1>20 DEF Next

(* The inductive invariant of the append-only file: with what is in the    *)
(* buffer, the file has everything, and so does the file of the child with *)
(* the list of blocks; whatever a crash leaves of them, or of the files    *)
(* they replaced, is a state of the past.                                  *)
THEOREM Invariant == Spec => []Inv
  BY InitInv, NextInv, PTL DEF Spec

(* Whatever the commands, rewritings, fsyncs and failures, and whatever a  *)
(* crash has left, the append-only file is the database after a number of  *)
(* modifications, each once, in order and as a whole (FileIsPastState).    *)
THEOREM NothingButThePast == Spec => []FileIsPastState
<1>1. Inv => FileIsPastState
  <2> SUFFICES ASSUME Inv PROVE FileIsPastState
    OBVIOUS
  <2>1. Past(hist, Whole(file, Len(file.loads)))
    BY GoodEnd DEF Inv, FilesOK
  <2> QED BY <2>1, RestoredIs DEF Past, FileIsPastState
<1> QED BY <1>1, Invariant, PTL

(* No step leaves a server without a file and without a rewriting that has *)
(* begun or will.                                                          *)
LEMMA WaitingKeeps == Inv /\ WaitingIsRewriting /\ [Next]_vars => WaitingIsRewriting'
<1> SUFFICES ASSUME Inv, WaitingIsRewriting, [Next]_vars, at' # "down", srv'.state = "wait"
             PROVE  srv'.child \/ srv'.sched
  BY DEF WaitingIsRewriting
<1>0. srv \in ServerSet /\ hist \in Histories
  BY DEF Inv, Types
<1>a. at # "down" /\ srv.state = "wait" => srv.child \/ srv.sched
  BY DEF WaitingIsRewriting
<1>b. ASSUME at # "down", srv'.state = srv.state, srv'.child = srv.child, srv'.sched = srv.sched
      PROVE  srv'.child \/ srv'.sched
  BY <1>a, <1>b
<1>1. CASE UNCHANGED vars \/ Reply \/ bioProcessBackgroundJobs \/ RewriteRename \/ BgsaveStart
           \/ BgsaveEnd \/ DirectorySync \/ CheckAof
  <2>1. at' = at \/ (at = "loop" /\ at' = "renamed")
    BY <1>1 DEF vars, Reply, bioProcessBackgroundJobs, RewriteRename, BgsaveStart, BgsaveEnd,
                DirectorySync, CheckAof
  <2>2. srv' = srv
    BY <1>1 DEF vars, Reply, bioProcessBackgroundJobs, RewriteRename, BgsaveStart, BgsaveEnd,
                DirectorySync, CheckAof
  <2> QED BY <1>b, <2>1, <2>2
<1>2. CASE Execute
  <2> DEFINE more(x, y, z) == [srv EXCEPT !.sel = x, !.buf = y, !.rwbuf = z]
  <2>1. srv' = srv \/ \E x, y, z : srv' = more(x, y, z)
    <3>1. PICK m \in Commands :
            srv' = IF srv.state = "off" THEN srv
                   ELSE [srv EXCEPT !.sel = Fed(srv.sel, m).sel,
                           !.buf = IF srv.state = "on" THEN @ \o Fed(srv.sel, m).recs ELSE @,
                           !.rwbuf = IF srv.child THEN aofRewriteBufferAppend(@, Fed(srv.sel, m).recs) ELSE @]
      BY <1>2 DEF Execute
    <3> DEFINE y0 == IF srv.state = "on" THEN srv.buf \o Fed(srv.sel, m).recs ELSE srv.buf
               z0 == IF srv.child THEN aofRewriteBufferAppend(srv.rwbuf, Fed(srv.sel, m).recs) ELSE srv.rwbuf
    <3>2. srv' = srv \/ srv' = more(Fed(srv.sel, m).sel, y0, z0)
      BY <3>1
    <3> HIDE DEF y0, z0, more
    <3> QED BY <3>2, Zenon
  <2>2. at = "loop"
    BY <1>2 DEF Execute
  <2>3. srv'.state = srv.state /\ srv'.child = srv.child /\ srv'.sched = srv.sched
    BY <1>0, <2>1 DEF ServerSet
  <2> QED BY <1>b, <2>2, <2>3
<1>3. CASE FlushNothing \/ Tick \/ FlushWrite \/ FlushSync
  <2>1. at # "down"
    BY <1>3 DEF FlushNothing, Tick, FlushWrite, FlushSync
  <2>2. PICK x, y, z : srv' = srv \/ srv' = [srv EXCEPT !.postponed = x]
                       \/ srv' = [srv EXCEPT !.second = y, !.postponed = x]
                       \/ srv' = [srv EXCEPT !.buf = z, !.postponed = x]
                       \/ srv' = [srv EXCEPT !.second = y]
    BY <1>3 DEF FlushNothing, Tick, FlushWrite, FlushSync
  <2>3. srv'.state = srv.state /\ srv'.child = srv.child /\ srv'.sched = srv.sched
    BY <1>0, <2>2 DEF ServerSet
  <2> QED BY <1>b, <2>1, <2>3
<1>4. CASE FlushFails \/ prepareForShutdown \/ Kill \/ Power
  BY <1>4 DEF FlushFails, prepareForShutdown, Kill, Power, Ends
<1>5. CASE rewriteAppendOnlyFileBackground
  BY <1>0, <1>5, ForkedFields DEF rewriteAppendOnlyFileBackground
<1>6. CASE bgrewriteaofCommand
  <2>1. srv' = [srv EXCEPT !.sched = TRUE]
    BY <1>6 DEF bgrewriteaofCommand
  <2> QED BY <1>0, <2>1 DEF ServerSet
<1>7. CASE RewriteFails
  <2>1. srv' = Cleanup(srv)
    BY <1>7 DEF RewriteFails
  <2>2. srv'.state = srv.state /\ (srv'.sched <=> srv.sched \/ srv.state = "wait")
    BY <1>0, <2>1, CleanupFields, Zenon
  <2> QED BY <2>2
<1>8. CASE RewriteSwitch
  <2>1. srv' = Cleanup(srv) \/ srv' = NewServer(srv)
    BY <1>8 DEF RewriteSwitch, NewServer
  <2>2. CASE srv' = Cleanup(srv)
    <3>1. srv'.state = srv.state /\ (srv'.sched <=> srv.sched \/ srv.state = "wait")
      BY <1>0, <2>2, CleanupFields, Zenon
    <3> QED BY <3>1
  <2>3. CASE srv' = NewServer(srv)
    <3>1. srv'.state = (IF srv.state = "wait" THEN "on" ELSE srv.state)
      BY <1>0, <2>3, NewServerFields, Zenon
    <3> QED BY <3>1
  <2> QED BY <2>1, <2>2, <2>3
<1>9. CASE stopAppendOnly
  <2>1. srv'.state = "off"
    BY <1>0, <1>9 DEF stopAppendOnly, ServerSet
  <2> QED BY <2>1
<1>10. CASE startAppendOnly
  <2>1. srv.state = "off"
    BY <1>10 DEF startAppendOnly
  <2>2. CASE srv' = [Forked EXCEPT !.state = "wait", !.fd = "open"]
    <3>1. Forked \in ServerSet /\ Forked.child = TRUE
      BY <1>0, ForkedFields
    <3>2. srv'.child = Forked.child
      BY <2>2, <3>1 DEF ServerSet
    <3> QED BY <3>1, <3>2
  <2>3. CASE srv' = [srv EXCEPT !.fd = "stale"]
    BY <1>0, <2>1, <2>3 DEF ServerSet
  <2> QED BY <1>10, <2>2, <2>3 DEF startAppendOnly
<1>11. CASE Restart
  BY <1>11 DEF Restart, Started
<1> QED BY <1>1, <1>2, <1>3, <1>4, <1>5, <1>6, <1>7, <1>8, <1>9, <1>10, <1>11 DEF Next

(* A server that has been told to have an append-only file, and has none,  *)
(* is rewriting it or has scheduled that (WaitingIsRewriting).             *)
THEOREM WaitingGoesOn == Spec => []WaitingIsRewriting
<1>1. Init => WaitingIsRewriting
  BY DEF Init, Started, WaitingIsRewriting
<1> QED BY <1>1, Invariant, WaitingKeeps, PTL DEF Spec

-----------------------------------------------------------------------------
(* The file as a log.                                                      *)

(* What is left of a file if nothing but what was synced is. *)
Kept(f) == Whole(f, f.synced)
Least(H, S) == Min({ Index(H, Kept(f)) : f \in S })
Keeps(S, T) == \A g \in T : \E f \in S : Leq(Kept(f), Kept(g))
Good(H, S) == S # {} /\ \A f \in S : GoodFile(H, f)

(* What is durable, said with Least, before and after a step. *)
LEMMA DurableIs ==
  /\ Durable = Least(hist, shadows \cup {file})
  /\ Durable' = Least(hist', shadows' \cup {file'})
<1>1. \A f : RestoredFrom(f, f.synced) = Index(hist, Kept(f))
  BY RestoredIs DEF Kept
<1>2. \A f : RestoredFrom(f, f.synced)' = Index(hist', Kept(f))
  BY DEF RestoredFrom, PastStates, Index, Whole, State, Kept, LoadedUpTo
<1> QED BY <1>1, <1>2 DEF Durable, Least

(* In a history without repetitions, more comes later. *)
LEMMA IndexOrder ==
  ASSUME NEW H \in Histories, Ordered(H), NEW D, Past(H, D), NEW E, Past(H, E), Leq(D, E)
  PROVE  Index(H, D) <= Index(H, E)
<1>1. Index(H, D) \in 0 .. Len(H) /\ State(H, Index(H, D)) = D
  BY IndexFacts
<1>2. Index(H, E) \in 0 .. Len(H) /\ State(H, Index(H, E)) = E
  BY IndexFacts
<1> QED BY <1>1, <1>2, PastOrder

(* Every state is where it is. *)
LEMMA IndexOf ==
  ASSUME NEW H \in Histories, Ordered(H), NEW n \in 0 .. Len(H)
  PROVE  Index(H, State(H, n)) = n
<1> DEFINE i == Index(H, State(H, n))
<1>1. Past(H, State(H, n))
  BY DEF Past
<1>2. i \in 0 .. Len(H) /\ State(H, i) = State(H, n)
  BY <1>1, IndexFacts
<1> HIDE DEF i
<1>3. Len(H) \in Nat /\ i \in Nat /\ n \in Nat
  BY <1>2, StateType
<1>4. ~(i < n) /\ ~(n < i)
  BY <1>2 DEF Ordered
<1>5. i = n
  BY <1>3, <1>4
<1> QED BY <1>5 DEF i

(* What was synced is a state of the past, and no more than the file. *)
LEMMA KeptPast ==
  ASSUME NEW H, NEW f, GoodFile(H, f)
  PROVE  Past(H, Kept(f)) /\ Kept(f) \in DataSet /\ Leq(Kept(f), End(f).whole)
<1>1. f.synced \in f.synced .. Len(f.loads) /\ Below(f, End(f).whole)
  BY GoodEnd
<1>2. Whole(f, f.synced) \in DataSet
  BY <1>1, GoodEnd
<1> QED BY <1>1, <1>2 DEF GoodFile, Recalls, Kept, Below

(* The least of the files is one of them. *)
LEMMA LeastFacts ==
  ASSUME NEW H \in Histories, NEW S, Good(H, S)
  PROVE  /\ \E f \in S : Least(H, S) = Index(H, Kept(f))
         /\ \A f \in S : Least(H, S) <= Index(H, Kept(f))
         /\ Least(H, S) \in 0 .. Len(H)
<1> DEFINE T == { Index(H, Kept(f)) : f \in S }
<1>1. \A f \in S : Index(H, Kept(f)) \in 0 .. Len(H)
  BY KeptPast, IndexFacts DEF Good
<1>2. T # {} /\ T \subseteq 0 .. Len(H)
  BY <1>1 DEF Good
<1>3. T \in SUBSET Nat
  BY <1>2, StateType
<1>4. Least(H, S) = Min(T)
  BY DEF Least
<1>5. Min(T) \in T /\ \A m \in T : Min(T) <= m
  <2> HIDE DEF T
  <2> QED BY <1>2, <1>3, MinFacts
<1> QED BY <1>2, <1>4, <1>5

(* Where nothing is lost, what was durable is. *)
LEMMA LeastGrows ==
  ASSUME NEW H \in Histories, Ordered(H), NEW S, NEW T, Good(H, S), Good(H, T), Keeps(S, T)
  PROVE  Least(H, T) \in Least(H, S) .. Len(H)
<1>1. PICK g \in T : Least(H, T) = Index(H, Kept(g))
  BY LeastFacts
<1>2. PICK f \in S : Leq(Kept(f), Kept(g))
  BY DEF Keeps
<1>3. Index(H, Kept(f)) <= Index(H, Kept(g)) /\ Index(H, Kept(f)) \in Nat
  <2>1. Past(H, Kept(f)) /\ Past(H, Kept(g))
    BY KeptPast DEF Good
  <2> QED BY <1>2, <2>1, IndexOrder, IndexFacts, StateType
<1>4. Least(H, S) <= Index(H, Kept(f)) /\ Least(H, S) \in 0 .. Len(H) /\ Least(H, T) \in 0 .. Len(H)
  BY LeastFacts
<1> QED BY <1>1, <1>3, <1>4, StateType

(* What is known of the files depends on nothing that comes later, nor on  *)
(* what was after the last of them.                                        *)
LEMMA LeastSame ==
  ASSUME NEW H \in Histories, Ordered(H), NEW G \in Histories, Ordered(G), NEW S,
         Good(H, S), Good(G, S),
         \A n \in 0 .. Len(G) : n \in 0 .. Len(H) => State(G, n) = State(H, n)
  PROVE  Least(G, S) = Least(H, S)
<1>1. ASSUME NEW f \in S PROVE Index(G, Kept(f)) = Index(H, Kept(f))
  <2> DEFINE i == Index(H, Kept(f))
             j == Index(G, Kept(f))
  <2>1. i \in 0 .. Len(H) /\ State(H, i) = Kept(f) /\ j \in 0 .. Len(G) /\ State(G, j) = Kept(f)
    BY KeptPast, IndexFacts DEF Good
  <2>2. i \in Nat /\ j \in Nat /\ Len(G) \in Nat /\ Len(H) \in Nat
    BY <2>1, StateType
  <2> HIDE DEF i, j
  <2>3. CASE i \in 0 .. Len(G)
    <3>1. State(G, i) = State(G, j)
      BY <2>1, <2>3
    <3> QED BY <2>1, <2>3, <3>1, IndexOf DEF i, j
  <2>4. CASE j \in 0 .. Len(H)
    <3>1. State(H, i) = State(H, j)
      BY <2>1, <2>4
    <3> QED BY <2>1, <2>4, <3>1, IndexOf DEF i, j
  <2>5. i \in 0 .. Len(G) \/ j \in 0 .. Len(H)
    BY <2>1, <2>2
  <2> QED BY <2>3, <2>4, <2>5 DEF i, j
<1>2. { Index(G, Kept(f)) : f \in S } = { Index(H, Kept(f)) : f \in S }
  BY <1>1
<1> QED BY <1>2 DEF Least

(* All files that may have the name are good. *)
LEMMA FilesGood ==
  ASSUME NEW H, NEW f, NEW S, FilesOK(H, f, S)
  PROVE  Good(H, S \cup {f})
  BY DEF FilesOK, Good

-----------------------------------------------------------------------------
(* What the steps do to what is durable.                                   *)

(* Fewer files keep what more files do. *)
LEMMA KeepsSame ==
  ASSUME NEW H, NEW S, NEW T, Good(H, S), T \subseteq S
  PROVE  Keeps(S, T)
<1>1. \A f \in S : Leq(Kept(f), Kept(f))
  BY KeptPast, LeqOrder DEF Good
<1> QED BY <1>1 DEF Keeps

(* The file is another, perhaps. *)
LEMMA KeepsFile ==
  ASSUME NEW H, NEW f, NEW S, FilesOK(H, f, S), NEW g, NEW T, T \subseteq S \cup {f}, Leq(Kept(f), Kept(g))
  PROVE  Keeps(S \cup {f}, T \cup {g})
<1>1. Good(H, S \cup {f})
  BY FilesGood
<1>2. Keeps(S \cup {f}, T)
  BY <1>1, KeepsSame
<1> QED BY <1>2 DEF Keeps

(* An fsync keeps the whole file. *)
LEMMA KeptSynced ==
  ASSUME NEW H, NEW f, GoodFile(H, f)
  PROVE  Kept(Synced(f)) = End(f).whole /\ Leq(Kept(f), Kept(Synced(f)))
<1>1. Kept(Synced(f)) = End(f).whole
  BY SyncedGood DEF Kept
<1> QED BY <1>1, KeptPast

(* A write changes nothing of what has been synced. *)
LEMMA KeptWritten ==
  ASSUME NEW H, NEW f, GoodFile(H, f), NEW q \in Seq(Records)
  PROVE  Kept(Write(f, q)) = Kept(f)
<1>1. f \in Files /\ f.synced \in 0 .. Len(f.loads)
  BY GoodEnd
<1>2. Prolongs(Write(f, q), f)
  BY <1>1, WriteProlongs
<1> QED BY <1>1, <1>2 DEF Prolongs, Kept, Whole

(* Nothing that was durable is lost by an fsync, or when the directory is  *)
(* written.                                                                *)
LEMMA SyncStep ==
  ASSUME NEW H, FilesOK(H, file, shadows),
         (UNCHANGED file /\ shadows' \subseteq shadows) \/ (file' = Synced(file) /\ shadows' = {})
  PROVE  Keeps(shadows \cup {file}, shadows' \cup {file'})
<1>1. CASE UNCHANGED file /\ shadows' \subseteq shadows
  <2>1. Good(H, shadows \cup {file}) /\ shadows' \cup {file'} \subseteq shadows \cup {file}
    BY <1>1, FilesGood
  <2> QED BY <2>1, KeepsSame
<1>2. CASE file' = Synced(file) /\ shadows' = {}
  <2>1. Leq(Kept(file), Kept(Synced(file))) /\ {} \subseteq shadows \cup {file}
    BY KeptSynced DEF FilesOK
  <2>2. Keeps(shadows \cup {file}, {} \cup {Synced(file)})
    BY <2>1, KeepsFile
  <2> QED BY <1>2, <2>2
<1> QED BY <1>1, <1>2

(* Once durable, a modification stays: with files that are ordered behind  *)
(* the data they are about, no step forgets any of it.                     *)
LEMMA StepKeeps ==
  ASSUME Inv, conf.ordered, [Next]_vars, ~Execute, ~Restart
  PROVE  hist' = hist /\ Keeps(shadows \cup {file}, shadows' \cup {file'})
<1>0. FilesOK(hist, file, shadows) /\ GoodFile(hist, file) /\ Good(hist, shadows \cup {file})
  BY FilesGood DEF Inv, FilesOK
<1>a. /\ srv \in ServerSet /\ srv.buf \in Seq(Records) /\ Kept(file) \in DataSet
      /\ shadows \subseteq shadows \cup {file} /\ {} \subseteq shadows \cup {file}
  BY <1>0, KeptPast, SrvFields DEF Inv, Types
<1>1. CASE UNCHANGED vars \/ Reply \/ FlushNothing \/ Tick \/ rewriteAppendOnlyFileBackground
           \/ bgrewriteaofCommand \/ RewriteFails \/ startAppendOnly \/ BgsaveStart \/ BgsaveEnd \/ Kill
           \/ DirectorySync
  <2>1. hist' = hist /\ file' = file /\ shadows' \subseteq shadows
    BY <1>1 DEF vars, client, disk, Reply, FlushNothing, Tick, rewriteAppendOnlyFileBackground,
       bgrewriteaofCommand, RewriteFails, startAppendOnly, BgsaveStart, BgsaveEnd, Kill, DirectorySync
  <2> QED BY <1>0, <2>1, SyncStep
<1>2. CASE FlushSync \/ bioProcessBackgroundJobs \/ RewriteSwitch \/ prepareForShutdown
  <2>1. hist' = hist /\ ((UNCHANGED file /\ shadows' \subseteq shadows) \/ (file' = Synced(file) /\ shadows' = {}))
    BY <1>2 DEF client, disk, FlushSync, bioProcessBackgroundJobs, RewriteSwitch, prepareForShutdown
  <2> QED BY <1>0, <2>1, SyncStep
<1>3. CASE FlushWrite
  <2>1. hist' = hist /\ shadows' = shadows /\ file' = Write(file, srv.buf)
    BY <1>3 DEF FlushWrite, client
  <2>2. Leq(Kept(file), Kept(file'))
    BY <1>0, <1>a, <2>1, KeptWritten, LeqOrder
  <2> QED BY <1>0, <1>a, <2>1, <2>2, KeepsFile
<1>4. CASE stopAppendOnly
  <2>1. hist' = hist /\ shadows' = {} /\ file' = Synced(Write(file, srv.buf)) /\ at = "loop"
    BY <1>4 DEF stopAppendOnly, client
  <2>2. FilesOK(hist, Write(file, srv.buf), shadows)
    BY <1>0, <1>a, <2>1, WriteBuffer DEF Inv, Running
  <2>3. Leq(Kept(Write(file, srv.buf)), Kept(file')) /\ Kept(Write(file, srv.buf)) = Kept(file)
    BY <1>0, <1>a, <2>1, <2>2, KeptWritten, KeptSynced DEF FilesOK
  <2>4. Keeps(shadows \cup {file}, {} \cup {file'})
    BY <1>0, <1>a, <2>3, KeepsFile
  <2> QED BY <2>1, <2>4
<1>5. CASE FlushFails
  <2>1. hist' = hist /\ shadows' = shadows /\ at = "loop" /\ srv.buf # <<>>
    BY <1>5 DEF FlushFails, client
  <2>2. CASE file' = file
    BY <1>0, <2>1, <2>2, SyncStep
  <2>3. ASSUME NEW n \in 0 .. Len(srv.buf) - 1, file' = Torn(file, srv.buf, n)
        PROVE  Leq(Kept(file), Kept(file'))
    <3>1. GoodFile(hist, Write(file, srv.buf))
      BY <1>a, <2>1 DEF Inv, Running, Buffers, FileOK, Follows
    <3>2. n \in 0 .. Len(srv.buf) /\ file \in Files /\ file.synced \in 0 .. Len(file.loads)
          /\ file.synced <= Len(file.loads)
      BY <1>0, <1>a, GoodEnd
    <3>3. Torn(file, srv.buf, n).synced = file.synced
          /\ \A k \in 0 .. Len(file.loads) : Whole(Torn(file, srv.buf, n), k) = Whole(file, k)
      BY <1>a, <3>1, <3>2, WritePartGood
    <3>4. Kept(file') = Kept(file)
      BY <2>3, <3>2, <3>3 DEF Kept
    <3> QED BY <1>a, <3>4, LeqOrder
  <2>4. file' = file \/ \E n \in 0 .. Len(srv.buf) - 1 : file' = Torn(file, srv.buf, n)
    BY <1>5 DEF FlushFails, Torn
  <2>5. CASE Leq(Kept(file), Kept(file'))
    BY <1>0, <1>a, <2>1, <2>5, KeepsFile
  <2> QED BY <2>1, <2>2, <2>3, <2>4, <2>5
<1>6. CASE RewriteRename
  <2>1. /\ at = "loop" /\ srv.child /\ hist' = hist /\ shadows' = shadows \cup {file}
        /\ file' = Synced(NewAof(srv))
    BY <1>6 DEF RewriteRename, client, NewAof, ChildFile
  <2>2. Follows(hist, NewAof(srv), Goal(hist, srv), srv.sel) /\ Below(file, Goal(hist, srv))
    BY <2>1 DEF Inv, Running, ChildOK
  <2>3. Kept(file') = Goal(hist, srv)
    BY <2>1, <2>2, KeptSynced DEF Follows, Idle
  <2>4. Leq(Kept(file), Kept(file'))
    BY <1>0, <2>2, <2>3, GoodEnd DEF Below, Kept
  <2> QED BY <1>0, <2>1, <2>4, KeepsFile
<1>7. CASE Power
  <2>1. hist' = hist /\ shadows' = {}
    BY <1>7 DEF Power, client
  <2>2. PICK f \in shadows \cup {file} : \E k \in f.synced .. Len(f.loads) :
          \E torn \in IF k < Len(f.loads) THEN BOOLEAN ELSE {f.torn} :
            file' = [loads |-> SubSeq(f.loads, 1, k), torn |-> torn, synced |-> k]
    BY <1>7 DEF Power
  <2>3. PICK k \in f.synced .. Len(f.loads) :
          \E torn \in IF k < Len(f.loads) THEN BOOLEAN ELSE {f.torn} :
            file' = [loads |-> SubSeq(f.loads, 1, k), torn |-> torn, synced |-> k]
    BY <2>2
  <2>4. PICK torn \in IF k < Len(f.loads) THEN BOOLEAN ELSE {f.torn} :
          file' = [loads |-> SubSeq(f.loads, 1, k), torn |-> torn, synced |-> k]
    BY <2>3
  <2>5. GoodFile(hist, f)
    BY <1>0 DEF Good
  <2>6. torn \in BOOLEAN
    <3>1. f.torn \in BOOLEAN
      BY <2>5 DEF GoodFile, Files
    <3> QED BY <3>1
  <2>7. Whole(file', k) = Whole(f, k) /\ file'.synced = k
    BY <2>4, <2>5, <2>6, CutGood
  <2>8. f.synced \in f.synced .. Len(f.loads) /\ f.synced <= k
    BY <2>5, GoodEnd
  <2>9. Leq(Kept(f), Kept(file'))
    BY <2>5, <2>7, <2>8 DEF GoodFile, Climbs, Kept
  <2> QED BY <2>1, <2>9 DEF Keeps
<1>8. CASE CheckAof
  <2>1. hist' = hist /\ shadows' = shadows /\ file' = Fixed(file)
    BY <1>8 DEF CheckAof, client
  <2>2. Leq(Kept(file), Kept(file'))
    BY <1>0, <1>a, <2>1, FixedGood, LeqOrder DEF Kept
  <2> QED BY <1>0, <1>a, <2>1, <2>2, KeepsFile
<1> QED BY <1>1, <1>2, <1>3, <1>4, <1>5, <1>6, <1>7, <1>8 DEF Next

(* No key has been incremented more than twice by a modification. *)
Small(H) == \A n \in 0 .. Len(H) : \A d \in Dbs : State(H, n)[d] <= 2 * n

(* A modification increments a key at most twice, so that the values stay  *)
(* within the bounds.                                                      *)
LEMMA ModifiedSmall ==
  ASSUME Inv, Small(hist), NEW m \in Commands
  PROVE  /\ Small(Append(hist, Modified(m)))
         /\ Len(hist) < MaxModifications => Modified(m) \in [Dbs -> 0 .. 2 * MaxModifications]
<1> DEFINE D == Modified(m)
           G == Append(hist, D)
           l == Len(hist)
<1>1. hist \in Histories /\ Ordered(hist) /\ l \in Nat /\ l \in 0 .. l
  BY StateType DEF Inv, Types
<1>2. /\ Data = Now(hist) /\ D \in DataSet /\ \A d \in Dbs : D[d] <= Data[d] + 2
      /\ Leq(Now(hist), D) /\ D # Now(hist) /\ Now(hist) \in DataSet
  BY <1>1, ModifiedIs, StateType
<1> HIDE DEF D
<1>3. Len(G) = l + 1 /\ Now(G) = D /\ \A n \in 0 .. l : State(G, n) = State(hist, n)
  BY <1>1, <1>2, OrderedAppend
<1> HIDE DEF G
<1>4. \A d \in Dbs : Now(hist)[d] <= 2 * l
  BY <1>1 DEF Small, Now
<1>5. \A d \in Dbs : D[d] \in Nat /\ Now(hist)[d] \in Nat
  BY <1>2 DEF DataSet
<1> HIDE DEF l
<1>6. \A d \in Dbs : D[d] <= 2 * (l + 1)
  BY <1>1, <1>2, <1>4, <1>5
<1>7. Small(G)
  <2>1. ASSUME NEW n \in 0 .. l + 1, NEW d \in Dbs PROVE State(G, n)[d] <= 2 * n
    <3>1. CASE n \in 0 .. l
      BY <1>3, <3>1 DEF Small, l
    <3>2. CASE n = l + 1
      <4>1. State(G, n) = D
        BY <1>3, <3>2 DEF Now
      <4> QED BY <1>6, <3>2, <4>1
    <3> QED BY <1>1, <3>1, <3>2
  <2> QED BY <1>3, <2>1 DEF Small
<1>8. ASSUME l < MaxModifications PROVE D \in [Dbs -> 0 .. 2 * MaxModifications]
  <2>1. MaxModifications \in Nat
    BY BoundsAssumption
  <2>2. \A d \in Dbs : D[d] \in 0 .. 2 * MaxModifications
    BY <1>1, <1>5, <1>6, <1>8, <2>1
  <2> QED BY <1>2, <2>2 DEF DataSet
<1> QED BY <1>7, <1>8 DEF D, G, l

(* So does the beginning of a history. *)
LEMMA SmallCut ==
  ASSUME NEW H \in Histories, Ordered(H), Small(H), NEW n \in 0 .. Len(H)
  PROVE  Small(SubSeq(H, 1, n))
<1> DEFINE G == SubSeq(H, 1, n)
<1>1. Len(G) = n /\ \A i \in 0 .. n : State(G, i) = State(H, i)
  BY OrderedCut
<1>2. \A i \in 0 .. n : i \in 0 .. Len(H)
  BY StateType
<1> HIDE DEF G
<1>3. Small(G)
  BY <1>1, <1>2 DEF Small
<1> QED BY <1>3 DEF G

(* What a restart leaves. *)
LEMMA RestoredFacts ==
  ASSUME Inv
  PROVE  /\ Restored \in 0 .. Len(hist) /\ State(hist, Restored) = End(file).whole
         /\ Durable \in 0 .. Len(hist) /\ Durable <= Restored
<1>1. hist \in Histories /\ Ordered(hist) /\ GoodFile(hist, file) /\ FilesOK(hist, file, shadows)
  BY DEF Inv, Types, FilesOK
<1>2. Past(hist, End(file).whole) /\ End(file).whole = Whole(file, Len(file.loads))
  BY <1>1, GoodEnd
<1>3. Restored = Index(hist, End(file).whole)
  BY <1>2, RestoredIs DEF Restored
<1>4. Restored \in 0 .. Len(hist) /\ State(hist, Restored) = End(file).whole
  BY <1>1, <1>2, <1>3, IndexFacts
<1>5. Good(hist, shadows \cup {file})
  BY <1>1, FilesGood
<1>6. Durable \in 0 .. Len(hist) /\ Durable <= Index(hist, Kept(file))
  BY <1>1, <1>5, LeastFacts, DurableIs
<1>7. Past(hist, Kept(file)) /\ Leq(Kept(file), End(file).whole)
  BY <1>1, KeptPast
<1>8. Index(hist, Kept(file)) <= Restored /\ Index(hist, Kept(file)) \in 0 .. Len(hist)
  BY <1>1, <1>2, <1>3, <1>7, IndexOrder, IndexFacts
<1>9. Len(hist) \in Nat
  BY <1>1, StateType
<1>10. Durable <= Restored
  BY <1>4, <1>6, <1>8, <1>9
<1> QED BY <1>4, <1>6, <1>10

(* The part of the history that is durable, if the file system is ordered. *)
LEMMA DurableSteps ==
  ASSUME Inv, Inv', [Next]_vars
  PROVE  /\ Execute => Durable' = Durable
         /\ Restart => Durable' = Durable
         /\ conf.ordered /\ ~Execute /\ ~Restart => Durable' \in Durable .. Len(hist)
<1>1. hist \in Histories /\ Ordered(hist) /\ FilesOK(hist, file, shadows)
  BY DEF Inv, Types
<1>2. hist' \in Histories /\ Ordered(hist') /\ FilesOK(hist', file', shadows')
  BY DEF Inv, Types
<1>3. Good(hist, shadows \cup {file}) /\ Good(hist', shadows' \cup {file'})
  BY <1>1, <1>2, FilesGood
<1>4. ASSUME Execute PROVE Durable' = Durable
  <2>1. PICK m \in Commands : hist' = Append(hist, Modified(m)) /\ UNCHANGED <<file, shadows>>
    BY <1>4 DEF Execute, disk
  <2>2. Modified(m) \in DataSet /\ Leq(Now(hist), Modified(m)) /\ Modified(m) # Now(hist)
    BY <1>1, ModifiedIs
  <2>3. \A n \in 0 .. Len(hist) : State(hist', n) = State(hist, n)
    BY <1>1, <2>1, <2>2, OrderedAppend
  <2>4. Least(hist', shadows \cup {file}) = Least(hist, shadows \cup {file})
    BY <1>1, <1>2, <1>3, <2>1, <2>3, LeastSame
  <2> QED BY <2>1, <2>4, DurableIs
<1>5. ASSUME Restart PROVE Durable' = Durable
  <2>1. hist' = SubSeq(hist, 1, Restored) /\ UNCHANGED <<file, shadows>>
    BY <1>5 DEF Restart, disk
  <2>2. Restored \in 0 .. Len(hist)
    BY RestoredFacts
  <2>3. Len(hist') = Restored /\ \A n \in 0 .. Restored : State(hist', n) = State(hist, n)
    BY <1>1, <2>1, <2>2, OrderedCut
  <2>4. Least(hist', shadows \cup {file}) = Least(hist, shadows \cup {file})
    BY <1>1, <1>2, <1>3, <2>1, <2>3, LeastSame
  <2> QED BY <2>1, <2>4, DurableIs
<1>6. ASSUME conf.ordered, ~Execute, ~Restart PROVE Durable' \in Durable .. Len(hist)
  <2>1. hist' = hist /\ Keeps(shadows \cup {file}, shadows' \cup {file'})
    BY <1>6, StepKeeps
  <2>2. Least(hist, shadows' \cup {file'}) \in Least(hist, shadows \cup {file}) .. Len(hist)
    BY <1>1, <1>3, <2>1, LeastGrows
  <2> QED BY <2>1, <2>2, DurableIs
<1> QED BY <1>4, <1>5, <1>6

(* Only a command and a restart change the history. *)
LEMMA HistSteps ==
  ASSUME [Next]_vars, ~Execute, ~Restart
  PROVE  hist' = hist
  BY DEF Next, vars, client, Reply, FlushNothing, FlushWrite, FlushSync, FlushFails, Tick,
     bioProcessBackgroundJobs, rewriteAppendOnlyFileBackground, bgrewriteaofCommand, RewriteFails,
     RewriteRename, RewriteSwitch, stopAppendOnly, startAppendOnly, BgsaveStart, BgsaveEnd,
     prepareForShutdown, Kill, Power, DirectorySync, CheckAof

(* And every step keeps them there. *)
LEMMA SmallSteps ==
  ASSUME Inv, Small(hist), [Next]_vars
  PROVE  Small(hist')
<1>1. CASE Execute
  BY <1>1, ModifiedSmall DEF Execute
<1>2. CASE Restart
  <2>1. hist' = SubSeq(hist, 1, Restored) /\ Restored \in 0 .. Len(hist)
    BY <1>2, RestoredFacts DEF Restart
  <2> QED BY <2>1, SmallCut DEF Inv, Types
<1>3. CASE ~Execute /\ ~Restart
  BY <1>3, HistSteps
<1> QED BY <1>1, <1>2, <1>3

(* The configuration does not change. *)
LEMMA ConfSame == [Next]_vars => UNCHANGED conf
  BY DEF Next, vars, Execute, Restart, Reply, FlushNothing, FlushWrite, FlushSync, FlushFails, Tick,
     bioProcessBackgroundJobs, rewriteAppendOnlyFileBackground, bgrewriteaofCommand, RewriteFails,
     RewriteRename, RewriteSwitch, stopAppendOnly, startAppendOnly, BgsaveStart, BgsaveEnd,
     prepareForShutdown, Kill, Power, DirectorySync, CheckAof

(* The refinement, step by step. *)
LEMMA LogInit == Init => Log!Init
<1> SUFFICES ASSUME Init PROVE Log!Init
  OBVIOUS
<1>1. Inv /\ hist = <<>> /\ Len(hist) = 0
  BY InitInv DEF Init
<1>2. Durable = 0
  BY <1>1, RestoredFacts
<1> QED BY <1>1, <1>2 DEF Log!Init

(* Every step of the append-only file is a step of the log: a command is   *)
(* Modify, a restart is Recover, and everything else makes more durable,   *)
(* or nothing.                                                             *)
LEMMA LogNext ==
  Inv /\ Inv' /\ Small(hist) /\ [Next]_vars =>
    [Log!Next]_<<hist, IF conf.ordered THEN Durable ELSE 0>>
<1> SUFFICES ASSUME Inv, Inv', Small(hist), [Next]_vars
             PROVE  [Log!Next]_<<hist, IF conf.ordered THEN Durable ELSE 0>>
  OBVIOUS
<1> DEFINE dur == IF conf.ordered THEN Durable ELSE 0
<1>1. conf' = conf
  BY ConfSame
<1>2. /\ Restored \in 0 .. Len(hist) /\ Durable \in 0 .. Len(hist) /\ Durable <= Restored
      /\ Len(hist) \in Nat
  BY RestoredFacts, StateType DEF Inv, Types
<1>3. CASE Execute
  <2>1. PICK m \in Commands : hist' = Append(hist, Modified(m)) /\ Len(hist) < MaxModifications
    BY <1>3 DEF Execute
  <2>2. Modified(m) \in [Dbs -> 0 .. 2 * MaxModifications]
    BY <2>1, ModifiedSmall
  <2>3. Durable' = Durable
    BY <1>3, DurableSteps
  <2>4. dur' = dur
    BY <1>1, <2>3
  <2>5. Log!Modify
    BY <2>1, <2>2, <2>4 DEF Log!Modify
  <2> QED BY <2>5 DEF Log!Next
<1>4. CASE Restart
  <2>1. hist' = SubSeq(hist, 1, Restored)
    BY <1>4 DEF Restart
  <2>2. Durable' = Durable
    BY <1>4, DurableSteps
  <2>3. dur' = dur /\ dur \in dur .. Restored /\ Restored \in dur .. Len(hist)
    BY <1>1, <1>2, <2>2
  <2>4. Log!Recover
    BY <2>1, <2>3 DEF Log!Recover
  <2> QED BY <2>4 DEF Log!Next
<1>5. CASE ~Execute /\ ~Restart
  <2>1. hist' = hist
    BY <1>5, HistSteps
  <2>2. conf.ordered => Durable' \in Durable .. Len(hist)
    BY <1>5, DurableSteps
  <2>3. dur' \in dur .. Len(hist)
    BY <1>1, <1>2, <2>2
  <2>4. Log!Persist
    BY <2>1, <2>3 DEF Log!Persist
  <2> QED BY <2>4 DEF Log!Next
<1> QED BY <1>3, <1>4, <1>5

(* The append-only file implements AppendLog, for all numbers of databases *)
(* and modifications: after a crash at any point the database is what it   *)
(* was after some of the modifications, no durable one is missing, and     *)
(* what is durable only grows (LogSpec).                                   *)
THEOREM FileIsLog == Spec => LogSpec
<1>1. Init => Small(hist)
  <2> SUFFICES ASSUME Init PROVE Small(hist)
    OBVIOUS
  <2>1. Len(hist) = 0 /\ \A d \in Dbs : Empty[d] = 0
    BY DEF Init, Empty
  <2> QED BY <2>1 DEF Small, State
<1>2. Inv /\ Small(hist) /\ [Next]_vars => Small(hist)'
  BY SmallSteps
<1>3. Spec => []Small(hist)
  BY <1>1, <1>2, Invariant, PTL DEF Spec
<1> QED BY <1>3, Invariant, LogInit, LogNext, PTL DEF Spec, LogSpec, Log!Spec

-----------------------------------------------------------------------------
(* Replies.                                                                *)

(* A reply promises that the power may fail. *)
Strict == conf.appendfsync = "always" /\ ~conf.no_fsync_on_rewrite /\ conf.ordered

(* The socket is armed for what is in the output buffer; no more has been   *)
(* answered than there was; writes are postponed with everysec only.       *)
Asked ==
  /\ armed => output
  /\ replied <= Len(hist)
  /\ conf.appendfsync # "everysec" => srv.postponed = "no"
(* Before the socket is armed, the buffer is written or postponed. *)
Written ==
  Promised /\ at # "renamed" /\ srv.postponed = "no" =>
    replied <= Restored /\ (armed => srv.buf = <<>>)
(* ... and synced, where that is promised. *)
OnDisk ==
  Strict =>
    /\ replied <= Durable
    /\ at # "down" /\ armed /\ srv.state = "on" => Len(hist) <= Durable
    /\ at = "loop" /\ srv.state = "on" /\ output /\ srv.buf = <<>> =>
         file.synced = Len(file.loads) /\ shadows = {}
Answered == Asked /\ Written /\ OnDisk

(* What is restored from the file, before and after a step. *)
LEMMA RestoredAre ==
  /\ Inv => Restored = Index(hist, End(file).whole)
  /\ Inv' => Restored' = Index(hist', End(file').whole)
<1>1. ASSUME NEW H, NEW f, NEW S, FilesOK(H, f, S) PROVE End(f).whole = Whole(f, Len(f.loads))
  BY <1>1, GoodEnd DEF FilesOK
<1>2. Restored = Index(hist, Whole(file, Len(file.loads)))
  BY RestoredIs DEF Restored
<1>3. Restored' = Index(hist', Whole(file', Len(file'.loads)))
  BY DEF Restored, RestoredFrom, PastStates, Index, Whole, State, LoadedUpTo
<1>4. Inv => FilesOK(hist, file, shadows)
  BY DEF Inv
<1>5. Inv' => FilesOK(hist', file', shadows')
  BY DEF Inv
<1> QED BY <1>1, <1>2, <1>3, <1>4, <1>5

(* A file that has everything. *)
LEMMA FullIndex ==
  ASSUME NEW H \in Histories, Ordered(H)
  PROVE  Index(H, Now(H)) = Len(H)
<1>1. Len(H) \in 0 .. Len(H)
  BY StateType
<1> QED BY <1>1, IndexOf DEF Now

(* If it has been synced, and replaced nothing, it is safe. *)
LEMMA SyncedLeast ==
  ASSUME NEW H \in Histories, Ordered(H), NEW f, GoodFile(H, f), f.synced = Len(f.loads),
         End(f).whole = Now(H)
  PROVE  Least(H, {} \cup {f}) = Len(H)
<1>1. Good(H, {} \cup {f})
  BY DEF Good
<1>2. Kept(f) = Now(H)
  BY GoodEnd DEF Kept
<1>3. PICK g \in {} \cup {f} : Least(H, {} \cup {f}) = Index(H, Kept(g))
  BY <1>1, LeastFacts
<1>4. g = f
  OBVIOUS
<1> QED BY <1>2, <1>3, <1>4, FullIndex

(* With an ordered file system, no step makes less of the history durable. *)
LEMMA DurableGrows ==
  ASSUME Inv, Inv', [Next]_vars, conf.ordered
  PROVE  Durable <= Durable' /\ Durable \in Nat /\ Durable' \in Nat
<1>1. Durable \in 0 .. Len(hist) /\ Len(hist) \in Nat
  BY RestoredFacts, StateType DEF Inv, Types
<1>2. (Durable' = Durable) \/ Durable' \in Durable .. Len(hist)
  BY DurableSteps
<1> QED BY <1>1, <1>2

(* Whether replies promise durability does not change. *)
LEMMA StrictSame == [Next]_vars => (Strict' <=> Strict)
  BY ConfSame DEF Strict

(* Steps that leave the loop as it is. *)
LEMMA QuietAnswered ==
  ASSUME Inv, Inv', [Next]_vars, Answered, UNCHANGED <<hist, replied, output, armed, at>>,
         srv'.buf = srv.buf, srv'.state = srv.state, srv'.postponed = srv.postponed,
         (UNCHANGED file /\ shadows' \subseteq shadows) \/ (file' = Synced(file) /\ shadows' = {})
  PROVE  Answered'
<1>1. End(file') = End(file)
  BY SyncedGood DEF Inv, FilesOK
<1>2. Restored' = Restored
  BY <1>1, RestoredAre
<1>3. conf' = conf /\ (Strict' <=> Strict)
  BY ConfSame, StrictSame
<1>4. Asked'
  BY <1>3 DEF Answered, Asked
<1>5. Written'
  BY <1>2 DEF Answered, Written, Promised
<1>6. OnDisk'
  <2> SUFFICES ASSUME Strict
               PROVE  /\ replied' <= Durable'
                      /\ at' # "down" /\ armed' /\ srv'.state = "on" => Len(hist') <= Durable'
                      /\ at' = "loop" /\ srv'.state = "on" /\ output' /\ srv'.buf = <<>> =>
                           file'.synced = Len(file'.loads) /\ shadows' = {}
    BY <1>3 DEF OnDisk
  <2>1. Durable <= Durable' /\ Durable \in Nat /\ Durable' \in Nat
    BY DurableGrows DEF Strict
  <2>2. Len(hist) \in Nat /\ replied \in Nat
    BY StateType DEF Inv, Types
  <2>3. file' = Synced(file) => file'.synced = Len(file'.loads)
    BY SyncedGood DEF Inv, FilesOK
  <2>4. replied' <= Durable'
    BY <2>1, <2>2 DEF Answered, OnDisk
  <2>5. at' # "down" /\ armed' /\ srv'.state = "on" => Len(hist') <= Durable'
    BY <2>1, <2>2 DEF Answered, OnDisk
  <2>6. at' = "loop" /\ srv'.state = "on" /\ output' /\ srv'.buf = <<>> =>
          file'.synced = Len(file'.loads) /\ shadows' = {}
    BY <2>3 DEF Answered, OnDisk
  <2> QED BY <2>4, <2>5, <2>6
<1> QED BY <1>4, <1>5, <1>6 DEF Answered

(* Steps after which nobody has to be told, since the server is down or    *)
(* has no file.                                                            *)
LEMMA DownAnswered ==
  ASSUME Inv, Inv', [Next]_vars, Answered, UNCHANGED <<hist, replied, output, armed>>,
         at' \in {"down", "renamed"} \/ srv'.state # "on",
         at' = "renamed" => at # "down" /\ srv'.state = srv.state,
         conf.appendfsync # "everysec" => srv'.postponed = "no"
  PROVE  Answered'
<1>3. conf' = conf /\ (Strict' <=> Strict)
  BY ConfSame, StrictSame
<1>4. Asked'
  BY <1>3 DEF Answered, Asked
<1>5. Written'
  BY DEF Written, Promised
<1>6. OnDisk'
  <2> SUFFICES ASSUME Strict
               PROVE  /\ replied' <= Durable'
                      /\ at' # "down" /\ armed' /\ srv'.state = "on" => Len(hist') <= Durable'
                      /\ at' = "loop" /\ srv'.state = "on" /\ output' /\ srv'.buf = <<>> =>
                           file'.synced = Len(file'.loads) /\ shadows' = {}
    BY <1>3 DEF OnDisk
  <2>1. Durable <= Durable' /\ Durable \in Nat /\ Durable' \in Nat
    BY DurableGrows DEF Strict
  <2>2. Len(hist) \in Nat /\ replied \in Nat
    BY StateType DEF Inv, Types
  <2>4. replied' <= Durable'
    BY <2>1, <2>2 DEF Answered, OnDisk
  <2>5. at' # "down" /\ armed' /\ srv'.state = "on" => Len(hist') <= Durable'
    BY <2>1, <2>2 DEF Answered, OnDisk
  <2> QED BY <2>4, <2>5
<1> QED BY <1>4, <1>5, <1>6 DEF Answered

(* A modification feeds at least one record. *)
LEMMA FedSome ==
  ASSUME NEW sel \in Nat, NEW m \in Seq(Dbs), Len(m) \in {1, 2}
  PROVE  \A q \in Seq(Records) : q \o Fed(sel, m).recs # <<>>
<1> DEFINE b == [recs |-> <<>>, sel |-> sel]
<1>0. b \in FedSet /\ m[1] \in Dbs /\ (Len(m) = 2 => m[2] \in Dbs /\ Last(m) = m[2])
      /\ Multi \in Records /\ Incr \in Records /\ Exec \in Records
  BY DEF FedSet, Last, Records
<1> HIDE DEF b
<1>1. \E x \in FedSet, d \in Dbs, rec \in Records : Fed(sel, m) = feedAppendOnlyFile(x, d, rec)
  <2>1. CASE Len(m) = 1
    <3>1. Fed(sel, m) = FoldLeft(Call, b, m)
      BY <2>1 DEF Fed, b
    <3>2. Fed(sel, m) = Call(b, m[1])
      BY <1>0, <2>1, <3>1, CallsAre
    <3> QED BY <1>0, <3>2 DEF Call
  <2>2. CASE Len(m) = 2
    <3> DEFINE x0 == feedAppendOnlyFile(b, m[1], Multi)
               x1 == FoldLeft(Call, x0, m)
    <3>1. x0 \in FedSet
      BY <1>0, FeedType
    <3>2. Fed(sel, m) = feedAppendOnlyFile(x1, m[2], Exec)
      BY <1>0, <2>2 DEF Fed, b
    <3> HIDE DEF x0
    <3>3. x1 = Call(Call(x0, m[1]), m[2])
      BY <2>2, <3>1, CallsAre
    <3>4. x1 \in FedSet
      BY <1>0, <2>2, <3>1, <3>3, CallType
    <3> HIDE DEF x1
    <3> QED BY <1>0, <2>2, <3>2, <3>4
  <2> QED BY <2>1, <2>2
<1>2. PICK x \in FedSet, d \in Dbs, rec \in Records : Fed(sel, m) = feedAppendOnlyFile(x, d, rec)
  BY <1>1
<1> DEFINE p == x.recs \o (IF d # x.sel THEN <<Select(d)>> ELSE <<>>)
<1>3. Fed(sel, m).recs = p \o <<rec>>
  <2> DEFINE y == p \o <<rec>>
  <2>1. feedAppendOnlyFile(x, d, rec) = [recs |-> y, sel |-> d]
    BY Zenon DEF feedAppendOnlyFile
  <2> HIDE DEF y
  <2>2. Fed(sel, m).recs = y
    BY <1>2, <2>1
  <2> QED BY <2>2 DEF y
<1>4. p \in Seq(Records)
  <2> DEFINE s == IF d # x.sel THEN <<Select(d)>> ELSE <<>>
  <2>1. Select(d) \in Records /\ x.recs \in Seq(Records)
    BY DEF Records, FedSet
  <2>2. s \in Seq(Records)
    BY <2>1
  <2> HIDE DEF s
  <2>3. x.recs \o s \in Seq(Records)
    BY <2>1, <2>2
  <2> QED BY <2>3 DEF s
<1> HIDE DEF p
<1>5. ASSUME NEW q \in Seq(Records) PROVE Len(q \o (p \o <<rec>>)) > 0
  BY <1>4
<1>6. Len(<<>>) = 0
  OBVIOUS
<1> QED BY <1>3, <1>5, <1>6

(* sendReplyToClient: the socket was armed by a beforeSleep that has       *)
(* written the buffer, and synced it where that is promised; since then    *)
(* there was no command.                                                   *)
LEMMA ReplyAnswered == Inv /\ Inv' /\ Answered /\ Reply => Answered'
<1> SUFFICES ASSUME Inv, Inv', Answered, Reply PROVE Answered'
  OBVIOUS
<1>1. /\ at = "loop" /\ armed /\ replied' = (IF srv.state = "on" THEN Len(hist) ELSE replied)
      /\ output' = FALSE /\ armed' = FALSE /\ UNCHANGED <<conf, hist, at, srv, file, shadows>>
  BY DEF Reply, disk
<1>2. /\ hist \in Histories /\ Ordered(hist) /\ GoodFile(hist, file) /\ Running(hist, srv, file, "loop")
      /\ Len(hist) \in Nat /\ replied \in Nat
  BY <1>1, StateType DEF Inv, Types, FilesOK
<1>3. Restored' = Restored /\ Durable' = Durable
  BY <1>1, RestoredAre, DurableIs
<1>4. Asked'
  BY <1>1, <1>2 DEF Answered, Asked
<1>5. Written'
  <2> SUFFICES ASSUME srv.state = "on", srv.postponed = "no" PROVE replied' <= Restored'
    BY <1>1 DEF Written, Promised
  <2>1. srv.buf = <<>>
    BY <1>1 DEF Answered, Written, Promised
  <2>2. Write(file, <<>>) = file
    BY <1>2, WriteFacts DEF GoodFile
  <2>3. End(file).whole = Now(hist)
    BY <1>2, <2>1, <2>2 DEF Running, FileOK, Follows, Idle
  <2>4. Restored = Len(hist)
    BY <1>2, <2>3, FullIndex, RestoredAre
  <2> QED BY <1>1, <1>2, <1>3, <2>4
<1>6. OnDisk'
  <2>1. Strict' <=> Strict
    BY <1>1 DEF Strict
  <2> QED BY <1>1, <1>3, <2>1 DEF Answered, OnDisk
<1> QED BY <1>4, <1>5, <1>6 DEF Answered

(* beforeSleep arms the socket; if there was something to write and it was *)
(* postponed, that is remembered.                                          *)
LEMMA FlushNothingAnswered == Inv /\ Inv' /\ Answered /\ FlushNothing => Answered'
<1> SUFFICES ASSUME Inv, Inv', Answered, FlushNothing PROVE Answered'
  OBVIOUS
<1>1. /\ at = "loop" /\ armed' = output /\ UNCHANGED <<conf, hist, replied, output, at, file, shadows>>
      /\ (srv.buf = <<>> \/ conf.appendfsync = "everysec")
      /\ srv' = IF srv.buf # <<>> /\ srv.postponed = "no" THEN [srv EXCEPT !.postponed = "0s"] ELSE srv
  BY DEF FlushNothing, disk, Postpones
<1>2. /\ hist \in Histories /\ Ordered(hist) /\ GoodFile(hist, file) /\ Running(hist, srv, file, "loop")
      /\ Len(hist) \in Nat /\ replied \in Nat /\ srv \in ServerSet
  BY <1>1, StateType DEF Inv, Types, FilesOK
<1>3. Restored' = Restored /\ Durable' = Durable
  BY <1>1, RestoredAre, DurableIs
<1>4. /\ srv'.buf = srv.buf /\ srv'.state = srv.state
      /\ srv'.postponed = IF srv.buf # <<>> /\ srv.postponed = "no" THEN "0s" ELSE srv.postponed
  BY <1>1, <1>2 DEF ServerSet
<1>5. Asked'
  BY <1>1, <1>4 DEF Answered, Asked
<1>6. Written'
  BY <1>1, <1>3, <1>4 DEF Answered, Written, Promised
<1>7. OnDisk'
  <2>1. Strict' <=> Strict
    BY <1>1 DEF Strict
  <2>2. ASSUME Strict, output, srv.state = "on" PROVE Len(hist) <= Durable
    <3>1. srv.buf = <<>>
      BY <1>1, <2>2 DEF Strict
    <3>2. file.synced = Len(file.loads) /\ shadows = {}
      BY <1>1, <2>2, <3>1 DEF Answered, OnDisk
    <3>3. Write(file, <<>>) = file
      BY <1>2, WriteFacts DEF GoodFile
    <3>4. End(file).whole = Now(hist)
      BY <1>2, <2>2, <3>1, <3>3 DEF Running, FileOK, Follows, Idle
    <3>5. Least(hist, {} \cup {file}) = Len(hist)
      BY <1>2, <3>2, <3>4, SyncedLeast
    <3> QED BY <1>2, <3>2, <3>5, DurableIs
  <2> QED BY <1>1, <1>3, <1>4, <2>1, <2>2 DEF Answered, OnDisk
<1> QED BY <1>5, <1>6, <1>7 DEF Answered

(* After the write, everything is in the file. *)
LEMMA FlushWriteAnswered == Inv /\ Inv' /\ Answered /\ FlushWrite => Answered'
<1> SUFFICES ASSUME Inv, Inv', Answered, FlushWrite PROVE Answered'
  OBVIOUS
<1>1. /\ at = "loop" /\ srv.buf # <<>> /\ at' = "written"
      /\ file' = Write(file, srv.buf) /\ srv' = [srv EXCEPT !.buf = <<>>, !.postponed = "no"]
      /\ UNCHANGED <<conf, hist, replied, output, armed, shadows>> /\ [Next]_vars
  BY DEF FlushWrite, client, Next
<1>2. /\ hist \in Histories /\ Ordered(hist) /\ Running(hist, srv, file, "loop")
      /\ Len(hist) \in Nat /\ replied \in Nat /\ srv \in ServerSet
  BY <1>1, StateType DEF Inv, Types, FilesOK
<1>3. srv'.state = srv.state /\ srv'.postponed = "no"
  BY <1>1, <1>2 DEF ServerSet
<1>a. srv'.buf = <<>>
  BY <1>1, <1>2, Zenon DEF ServerSet
<1>4. srv.state = "on" /\ End(file').whole = Now(hist)
  BY <1>1, <1>2 DEF Running, Buffers, FileOK, Follows, Idle
<1>5. Restored' = Len(hist)
  BY <1>1, <1>2, <1>4, FullIndex, RestoredAre
<1>6. Asked'
  BY <1>1, <1>3 DEF Answered, Asked
<1>7. Written'
  <2>1. replied <= Len(hist)
    BY DEF Answered, Asked
  <2> QED BY <1>1, <1>5, <1>a, <2>1 DEF Written
<1>8. OnDisk'
  <2>1. Strict' <=> Strict
    BY <1>1 DEF Strict
  <2>2. Strict => Durable <= Durable' /\ Durable \in Nat /\ Durable' \in Nat
    BY <1>1, DurableGrows DEF Strict
  <2>3. Strict => replied' <= Durable'
    BY <1>1, <1>2, <2>2 DEF Answered, OnDisk
  <2>4. Strict /\ armed => Len(hist) <= Durable'
    BY <1>1, <1>2, <1>4, <2>2 DEF Answered, OnDisk
  <2> QED BY <1>1, <2>1, <2>3, <2>4 DEF OnDisk
<1> QED BY <1>6, <1>7, <1>8 DEF Answered

(* With an fsync after every write, beforeSleep arms the socket only after *)
(* it.                                                                     *)
LEMMA FlushSyncAnswered == Inv /\ Inv' /\ Answered /\ FlushSync => Answered'
<1> SUFFICES ASSUME Inv, Inv', Answered, FlushSync PROVE Answered'
  OBVIOUS
<1>1. /\ at = "written" /\ at' = "loop" /\ armed' = output
      /\ (UNCHANGED <<file, shadows>> \/ (file' = Synced(file) /\ shadows' = {}))
      /\ (Strict => file' = Synced(file) /\ shadows' = {})
      /\ (srv' = srv \/ srv' = [srv EXCEPT !.second = FALSE])
      /\ UNCHANGED <<conf, hist, replied, output>> /\ [Next]_vars
  BY DEF FlushSync, disk, Strict, FsyncWanted, Next
<1>2. /\ hist \in Histories /\ Ordered(hist) /\ Running(hist, srv, file, "written") /\ GoodFile(hist, file)
      /\ Len(hist) \in Nat /\ replied \in Nat /\ srv \in ServerSet
  BY <1>1, StateType DEF Inv, Types, FilesOK
<1>3. srv'.state = srv.state /\ srv'.postponed = srv.postponed /\ srv'.buf = srv.buf /\ srv.buf = <<>>
  <2>1. srv.buf = <<>>
    BY <1>2 DEF Running, Buffers
  <2>2. srv'.state = srv.state /\ srv'.postponed = srv.postponed /\ srv'.buf = srv.buf
    BY <1>1, <1>2 DEF ServerSet
  <2> QED BY <2>1, <2>2
<1>4. End(file') = End(file) /\ GoodFile(hist, file')
  BY <1>1, <1>2, SyncedGood
<1>5. Restored' = Restored
  BY <1>1, <1>4, RestoredAre
<1>6. Asked'
  BY <1>1, <1>3 DEF Answered, Asked
<1>7. Written'
  BY <1>1, <1>3, <1>5 DEF Answered, Written, Promised
<1>8. OnDisk'
  <2>1. Strict' <=> Strict
    BY <1>1 DEF Strict
  <2>2. ASSUME Strict PROVE file'.synced = Len(file'.loads) /\ shadows' = {}
    BY <1>1, <1>2, <2>2, SyncedGood
  <2>3. ASSUME Strict, srv.state = "on" PROVE Len(hist) <= Durable'
    <3>1. Write(file, <<>>) = file
      BY <1>2, WriteFacts DEF GoodFile
    <3>2. End(file').whole = Now(hist)
      BY <1>2, <1>3, <1>4, <2>3, <3>1 DEF Running, FileOK, Follows, Idle
    <3>3. Least(hist, {} \cup {file'}) = Len(hist)
      BY <1>2, <1>4, <2>2, <2>3, <3>2, SyncedLeast
    <3>4. Durable' = Least(hist, {} \cup {file'})
      BY <1>1, <2>2, <2>3, DurableIs
    <3> QED BY <1>2, <3>3, <3>4
  <2>4. Strict => Durable <= Durable' /\ Durable \in Nat /\ Durable' \in Nat
    BY <1>1, DurableGrows DEF Strict
  <2>5. Strict => replied' <= Durable'
    BY <1>1, <1>2, <2>4 DEF Answered, OnDisk
  <2> QED BY <1>1, <1>3, <2>1, <2>2, <2>3, <2>5 DEF OnDisk
<1> QED BY <1>6, <1>7, <1>8 DEF Answered

(* The clock never makes a buffer that has been postponed one that has     *)
(* not.                                                                    *)
LEMMA TickAnswered == Inv /\ Inv' /\ Answered /\ Tick => Answered'
<1> SUFFICES ASSUME Inv, Inv', Answered, Tick PROVE Answered'
  OBVIOUS
<1>1. /\ conf.appendfsync = "everysec" /\ UNCHANGED <<conf, hist, replied, output, armed, at, file, shadows>>
      /\ srv' = [srv EXCEPT !.second = TRUE, !.postponed =
                   CASE srv.postponed = "0s" -> "1s" [] srv.postponed = "1s" -> "2s" [] OTHER -> srv.postponed]
  BY DEF Tick, client, disk
<1>2. srv \in ServerSet
  BY DEF Inv, Types
<1>3. srv'.state = srv.state /\ srv'.buf = srv.buf /\ (srv'.postponed = "no" => srv.postponed = "no")
  BY <1>1, <1>2 DEF ServerSet
<1>4. Restored' = Restored
  BY <1>1, RestoredAre
<1>5. Asked'
  BY <1>1 DEF Answered, Asked
<1>6. Written'
  BY <1>1, <1>3, <1>4 DEF Answered, Written, Promised
<1>7. OnDisk'
  BY <1>1 DEF OnDisk, Strict
<1> QED BY <1>5, <1>6, <1>7 DEF Answered

(* Behind the rename everything is in the new file, and with an fsync      *)
(* after every write it is synced.                                         *)
LEMMA SwitchAnswered == Inv /\ Inv' /\ Answered /\ RewriteSwitch => Answered'
<1> SUFFICES ASSUME Inv, Inv', Answered, RewriteSwitch PROVE Answered'
  OBVIOUS
<1>1. /\ at = "renamed" /\ at' = "loop" /\ UNCHANGED <<conf, hist, replied, output, armed>> /\ [Next]_vars
  BY DEF RewriteSwitch, client, Next
<1>2. /\ hist \in Histories /\ Ordered(hist) /\ Running(hist, srv, file, "renamed") /\ GoodFile(hist, file)
      /\ Len(hist) \in Nat /\ replied \in Nat /\ srv \in ServerSet /\ replied <= Len(hist)
  BY <1>1, StateType DEF Inv, Types, FilesOK, Answered, Asked
<1>3. CASE srv.fd = "none"
  <2>1. srv' = Cleanup(srv)
    BY <1>3 DEF RewriteSwitch
  <2>2. srv.state = "off"
    BY <1>2, <1>3 DEF Running, Buffers
  <2>3. srv'.state = "off" /\ srv'.postponed = srv.postponed
    BY <1>2, <2>1, <2>2, CleanupFields, Zenon
  <2>4. conf.appendfsync # "everysec" => srv'.postponed = "no"
    BY <2>3 DEF Answered, Asked
  <2> QED BY <1>1, <2>3, <2>4, DownAnswered
<1>4. CASE srv.fd # "none"
  <2>1. /\ srv' = NewServer(srv)
        /\ (UNCHANGED <<file, shadows>> \/ (file' = Synced(file) /\ shadows' = {}))
        /\ (Strict => file' = Synced(file) /\ shadows' = {})
    BY <1>4 DEF RewriteSwitch, disk, NewServer, Strict
  <2>2. /\ srv'.state = (IF srv.state = "wait" THEN "on" ELSE srv.state)
        /\ srv'.buf = <<>> /\ srv'.postponed = srv.postponed
    BY <1>2, <2>1, NewServerFields, Zenon
  <2>3. srv'.state = "on" => srv.state # "off"
    BY <2>2
  <2>4. End(file') = End(file) /\ GoodFile(hist, file')
    BY <1>2, <2>1, SyncedGood
  <2>5. srv'.state = "on" => End(file').whole = Now(hist)
    BY <1>2, <2>3, <2>4 DEF Running, Follows, Idle
  <2>6. srv'.state = "on" => Restored' = Len(hist)
    BY <1>1, <1>2, <2>5, FullIndex, RestoredAre
  <2>7. Asked'
    BY <1>1, <2>2 DEF Answered, Asked
  <2>8. Written'
    BY <1>1, <1>2, <2>2, <2>6 DEF Written, Promised
  <2>9. OnDisk'
    <3>1. Strict' <=> Strict
      BY <1>1 DEF Strict
    <3>2. ASSUME Strict PROVE file'.synced = Len(file'.loads) /\ shadows' = {}
      BY <1>2, <2>1, <3>2, SyncedGood
    <3>3. ASSUME Strict, srv'.state = "on" PROVE Len(hist) <= Durable'
      <4>1. Least(hist, {} \cup {file'}) = Len(hist)
        BY <1>2, <2>4, <2>5, <3>2, <3>3, SyncedLeast
      <4>2. Durable' = Least(hist, {} \cup {file'})
        BY <1>1, <3>2, <3>3, DurableIs
      <4> QED BY <1>2, <4>1, <4>2
    <3>4. Strict => Durable <= Durable' /\ Durable \in Nat /\ Durable' \in Nat
      BY <1>1, DurableGrows DEF Strict
    <3>5. Strict => replied' <= Durable'
      BY <1>1, <1>2, <3>4 DEF Answered, OnDisk
    <3> QED BY <1>1, <3>1, <3>2, <3>3, <3>5 DEF OnDisk
  <2> QED BY <2>7, <2>8, <2>9 DEF Answered
<1> QED BY <1>3, <1>4

(* A command of a client that waits for its replies: nothing is armed. *)
LEMMA ExecuteAnswered ==
  ASSUME ~Pipelining, Inv, Inv', Answered, Execute
  PROVE  Answered'
<1>1. PICK m \in Commands :
        /\ at = "loop" /\ (Pipelining \/ ~output)
        /\ hist' = Append(hist, Modified(m)) /\ output' = TRUE
        /\ srv' = IF srv.state = "off" THEN srv
                  ELSE [srv EXCEPT !.sel = Fed(srv.sel, m).sel,
                          !.buf = IF srv.state = "on" THEN @ \o Fed(srv.sel, m).recs ELSE @,
                          !.rwbuf = IF srv.child THEN aofRewriteBufferAppend(@, Fed(srv.sel, m).recs) ELSE @]
        /\ UNCHANGED <<conf, replied, armed, at, file, shadows>> /\ [Next]_vars
  BY DEF Execute, disk, Next
<1>2. /\ hist \in Histories /\ Ordered(hist) /\ GoodFile(hist, file) /\ Len(hist) \in Nat
      /\ replied \in Nat /\ srv \in ServerSet /\ srv.buf \in Seq(Records) /\ srv.sel \in Nat
      /\ replied <= Len(hist) /\ ~armed
  BY <1>1, StateType, SrvFields DEF Inv, Types, FilesOK, Answered, Asked
<1>3. /\ m \in Seq(Dbs) /\ Len(m) \in {1, 2} /\ Modified(m) \in DataSet
      /\ Leq(Now(hist), Modified(m)) /\ Modified(m) # Now(hist)
  BY <1>2, ModifiedIs
<1>4. /\ hist' \in Histories /\ Ordered(hist') /\ Len(hist') = Len(hist) + 1
      /\ \A n \in 0 .. Len(hist) : State(hist', n) = State(hist, n)
  BY <1>1, <1>2, <1>3, OrderedAppend
<1> DEFINE buf == IF srv.state = "on" THEN srv.buf \o Fed(srv.sel, m).recs ELSE srv.buf
           rwbuf == IF srv.child THEN aofRewriteBufferAppend(srv.rwbuf, Fed(srv.sel, m).recs) ELSE srv.rwbuf
           sel == Fed(srv.sel, m).sel
<1>5. srv' = srv \/ srv' = [srv EXCEPT !.sel = sel, !.buf = buf, !.rwbuf = rwbuf]
  BY <1>1
<1>6. srv.state # "off" => srv' = [srv EXCEPT !.sel = sel, !.buf = buf, !.rwbuf = rwbuf]
  BY <1>1
<1>7. srv.state = "on" => buf # <<>>
  BY <1>2, <1>3, FedSome
<1> HIDE DEF buf, rwbuf, sel
<1>8. srv'.state = srv.state /\ srv'.postponed = srv.postponed
  BY <1>2, <1>5 DEF ServerSet
<1>9. srv.state = "on" => srv'.buf # <<>>
  <2>1. srv.state # "off" => srv'.buf = buf
    BY <1>2, <1>6 DEF ServerSet
  <2> QED BY <1>7, <2>1
<1>10. Restored' = Restored
  <2> DEFINE D == End(file).whole
             i == Restored
  <2>1. i \in 0 .. Len(hist) /\ State(hist, i) = D
    BY RestoredFacts
  <2>2. i \in 0 .. Len(hist') /\ State(hist', i) = D
    BY <1>2, <1>4, <2>1
  <2>3. Index(hist', D) = i
    <3> HIDE DEF D, i
    <3> QED BY <1>4, <2>2, IndexOf
  <2> QED BY <1>1, <2>3, RestoredAre
<1>11. Durable' = Durable
  BY <1>1, DurableSteps
<1>12. Asked'
  BY <1>1, <1>2, <1>4, <1>8 DEF Answered, Asked
<1>13. Written'
  BY <1>1, <1>2, <1>8, <1>10 DEF Answered, Written, Promised
<1>14. OnDisk'
  <2>1. Strict' <=> Strict
    BY <1>1 DEF Strict
  <2> QED BY <1>1, <1>2, <1>8, <1>9, <1>11, <2>1 DEF Answered, OnDisk
<1> QED BY <1>12, <1>13, <1>14 DEF Answered

(* After a restart the clients that were told of more than there is have   *)
(* been told of it before the crash.                                       *)
LEMMA RestartAnswered == Inv /\ Inv' /\ Answered /\ Restart => Answered'
<1> SUFFICES ASSUME Inv, Inv', Answered, Restart PROVE Answered'
  OBVIOUS
<1>1. /\ hist' = SubSeq(hist, 1, Restored) /\ replied' = Min({replied, Restored})
      /\ output' = FALSE /\ armed' = FALSE /\ srv' = Started(Empty) /\ at' = "loop"
      /\ UNCHANGED <<conf, file, shadows>> /\ [Next]_vars
  BY DEF Restart, disk, Next
<1>2. /\ Restored \in 0 .. Len(hist) /\ State(hist, Restored) = End(file).whole
      /\ hist \in Histories /\ Ordered(hist) /\ Len(hist) \in Nat /\ replied \in Nat
  BY RestoredFacts, StateType DEF Inv, Types
<1>3. hist' \in Histories /\ Ordered(hist') /\ Now(hist') = End(file').whole /\ Len(hist') = Restored
  BY <1>1, <1>2, OrderedCut
<1>4. Restored' = Restored
  BY <1>3, FullIndex, RestoredAre
<1>5. replied' <= Restored /\ replied' <= replied /\ replied' \in Nat
  <2> DEFINE T == {replied, Restored}
  <2>1. T \in SUBSET Nat /\ T # {} /\ replied \in T /\ Restored \in T /\ replied' = Min(T)
    BY <1>1, <1>2
  <2> HIDE DEF T
  <2> QED BY <2>1, MinFacts
<1>6. srv'.postponed = "no"
  BY <1>1 DEF Started
<1>7. Asked' /\ Written'
  BY <1>1, <1>3, <1>4, <1>5, <1>6 DEF Asked, Written
<1>8. OnDisk'
  <2>1. Strict' <=> Strict
    BY <1>1 DEF Strict
  <2>2. Durable' = Durable /\ Durable \in Nat
    BY <1>1, <1>2, DurableSteps, RestoredFacts
  <2>3. Strict => replied <= Durable
    BY DEF Answered, OnDisk
  <2>4. Strict => replied' <= Durable'
    BY <1>2, <1>5, <2>2, <2>3
  <2> QED BY <1>1, <2>1, <2>4 DEF OnDisk
<1> QED BY <1>7, <1>8 DEF Answered

(* Every step preserves it, if clients wait for their replies. *)
LEMMA NextAnswered ==
  ASSUME ~Pipelining, Inv, Inv', Answered, [Next]_vars
  PROVE  Answered'
<1>0. srv \in ServerSet /\ hist \in Histories /\ (conf.appendfsync # "everysec" => srv.postponed = "no")
  BY DEF Inv, Types, Answered, Asked
<1>1. CASE UNCHANGED vars \/ bioProcessBackgroundJobs \/ BgsaveStart \/ BgsaveEnd \/ DirectorySync
  <2>1. /\ UNCHANGED <<hist, replied, output, armed, at, srv>>
        /\ ((UNCHANGED file /\ shadows' \subseteq shadows) \/ (file' = Synced(file) /\ shadows' = {}))
    BY <1>1 DEF vars, bioProcessBackgroundJobs, BgsaveStart, BgsaveEnd, DirectorySync, client, disk
  <2> QED BY <2>1, QuietAnswered
<1>2. CASE rewriteAppendOnlyFileBackground \/ bgrewriteaofCommand \/ RewriteFails
  <2>1. UNCHANGED <<hist, replied, output, armed, at, file, shadows>>
    BY <1>2 DEF rewriteAppendOnlyFileBackground, bgrewriteaofCommand, RewriteFails, client, disk
  <2>2. srv' = Forked \/ srv' = [srv EXCEPT !.sched = TRUE] \/ srv' = Cleanup(srv)
    BY <1>2 DEF rewriteAppendOnlyFileBackground, bgrewriteaofCommand, RewriteFails
  <2>3. srv' = Forked => srv'.buf = srv.buf /\ srv'.state = srv.state /\ srv'.postponed = srv.postponed
    BY <1>0, ForkedFields
  <2>4. srv' = Cleanup(srv) => srv'.buf = srv.buf /\ srv'.state = srv.state /\ srv'.postponed = srv.postponed
    BY <1>0, CleanupFields, Zenon
  <2>5. srv' = [srv EXCEPT !.sched = TRUE] =>
          srv'.buf = srv.buf /\ srv'.state = srv.state /\ srv'.postponed = srv.postponed
    BY <1>0 DEF ServerSet
  <2> QED BY <2>1, <2>2, <2>3, <2>4, <2>5, QuietAnswered
<1>3. CASE FlushFails \/ prepareForShutdown \/ Kill \/ Power \/ CheckAof
  <2>1. UNCHANGED <<hist, replied, output, armed>> /\ at' = "down" /\ (srv' = Off \/ srv' = srv)
    BY <1>3 DEF FlushFails, prepareForShutdown, Kill, Power, CheckAof, Ends, client
  <2>2. srv'.postponed = srv.postponed
    BY <1>0, <2>1 DEF Off, ServerSet
  <2> QED BY <1>0, <2>1, <2>2, DownAnswered
<1>4. CASE RewriteRename
  <2>1. UNCHANGED <<hist, replied, output, armed, srv>> /\ at' = "renamed" /\ at = "loop"
    BY <1>4 DEF RewriteRename, client
  <2> QED BY <1>0, <2>1, DownAnswered
<1>5. CASE stopAppendOnly
  <2>1. UNCHANGED <<hist, replied, output, armed, at>> /\ at = "loop"
    BY <1>5 DEF stopAppendOnly, client
  <2>2. srv'.state = "off" /\ srv'.postponed = (IF srv.buf = <<>> THEN srv.postponed ELSE "no")
    BY <1>0, <1>5 DEF stopAppendOnly, ServerSet
  <2> QED BY <1>0, <2>1, <2>2, DownAnswered
<1>6. CASE startAppendOnly
  <2>1. UNCHANGED <<hist, replied, output, armed, at>> /\ at = "loop" /\ srv.state = "off"
    BY <1>6 DEF startAppendOnly, client
  <2>2. srv' = [Forked EXCEPT !.state = "wait", !.fd = "open"] \/ srv' = [srv EXCEPT !.fd = "stale"]
    BY <1>6 DEF startAppendOnly
  <2>3. Forked \in ServerSet /\ Forked.postponed = srv.postponed
    BY <1>0, ForkedFields
  <2>4. srv'.state # "on" /\ srv'.postponed = srv.postponed
    BY <1>0, <2>1, <2>2, <2>3 DEF ServerSet
  <2> QED BY <1>0, <2>1, <2>4, DownAnswered
<1>7. CASE Execute
  BY <1>7, ExecuteAnswered
<1>8. CASE Reply
  BY <1>8, ReplyAnswered
<1>9. CASE FlushNothing
  BY <1>9, FlushNothingAnswered
<1>10. CASE FlushWrite
  BY <1>10, FlushWriteAnswered
<1>11. CASE FlushSync
  BY <1>11, FlushSyncAnswered
<1>12. CASE Tick
  BY <1>12, TickAnswered
<1>13. CASE RewriteSwitch
  BY <1>13, SwitchAnswered
<1>14. CASE Restart
  BY <1>14, RestartAnswered
<1> QED BY <1>1, <1>2, <1>3, <1>4, <1>5, <1>6, <1>7, <1>8, <1>9, <1>10, <1>11, <1>12, <1>13, <1>14 DEF Next

(* For clients that wait for their replies, a modification that was        *)
(* answered survives the end of the process, unless the buffer waits for   *)
(* an fsync, and with an fsync after every write it survives a power       *)
(* failure (RepliesSurvive).  With pipelining it does not: that is one of  *)
(* the findings.                                                           *)
THEOREM AnswersAreKept ==
  ASSUME ~Pipelining
  PROVE  Spec => []RepliesSurvive
<1>1. Init => Answered
  <2> SUFFICES ASSUME Init PROVE Answered
    OBVIOUS
  <2>1. /\ Inv /\ Len(hist) = 0 /\ replied = 0 /\ ~output /\ ~armed /\ srv.postponed = "no"
    BY InitInv DEF Init, Started
  <2>2. Restored \in 0 .. Len(hist) /\ Durable \in 0 .. Len(hist)
    BY <2>1, RestoredFacts
  <2>3. Restored = 0 /\ Durable = 0
    BY <2>1, <2>2
  <2> QED BY <2>1, <2>3 DEF Answered, Asked, Written, OnDisk
<1>2. Inv /\ Inv' /\ Answered /\ [Next]_vars => Answered'
  BY NextAnswered
<1>3. Inv /\ Answered => RepliesSurvive
  <2> SUFFICES ASSUME Inv, Answered, Promised PROVE RepliesSurvive
    BY DEF RepliesSurvive
  <2>1. CASE at # "renamed"
    BY <2>1 DEF Answered, Written, OnDisk, Strict, RepliesSurvive
  <2>2. CASE at = "renamed"
    <3>1. hist \in Histories /\ Ordered(hist) /\ replied <= Len(hist)
      BY DEF Inv, Types, Answered, Asked
    <3>2. End(file).whole = Now(hist)
      BY <2>2 DEF Inv, Running, Promised, Follows, Idle
    <3>3. Restored = Len(hist)
      BY <3>1, <3>2, FullIndex, RestoredAre
    <3> QED BY <3>1, <3>3 DEF Answered, OnDisk, Strict, RepliesSurvive
  <2> QED BY <2>1, <2>2
<1>4. Spec => []Answered
  BY <1>1, <1>2, Invariant, PTL DEF Spec
<1> QED BY <1>3, <1>4, Invariant, PTL
=============================================================================
