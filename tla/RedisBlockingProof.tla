------------------------- MODULE RedisBlockingProof -------------------------
(***************************************************************************)
(* Proofs about the blocking list commands, for any clients, keys,         *)
(* requests and elements.  The first part is about counting in sequences,  *)
(* the second about the operations as functions of the server, the third   *)
(* about its steps.                                                        *)
(***************************************************************************)
EXTENDS RedisBlocking, FoldFacts, SequenceTheorems, FiniteSetTheorems

Spec == Init /\ [][Next]_srv

RequestSet == [keys : Seq(Keys), target : Keys \cup {None}, timeout : BOOLEAN]

(* A request has keys, and BRPOPLPUSH has one. *)
BlockingAssumption ==
  /\ IsFiniteSet(Clients) /\ None \notin Keys /\ MaxElements \in Nat /\ MaxInput \in Nat
  /\ Requests \subseteq RequestSet
  /\ \A r \in Requests : r.keys # <<>> /\ (r.target # None => Len(r.keys) = 1)

-----------------------------------------------------------------------------
(* Counting.  Of the first n places of q, those with e.                    *)
Places(q, n, e) == { i \in 1 .. n : q[i] = e }

(* They are finitely many. *)
LEMMA PlacesFinite ==
  ASSUME NEW q, NEW n \in Nat, NEW e
  PROVE  IsFiniteSet(Places(q, n, e)) /\ Cardinality(Places(q, n, e)) \in Nat
<1>1. IsFiniteSet(1 .. n)
  BY FS_Interval
<1>2. Places(q, n, e) \in SUBSET (1 .. n)
  BY DEF Places
<1> QED BY <1>1, <1>2, FS_Subset, FS_CardinalityType

(* With one place more. *)
LEMMA OnePlaceMore ==
  ASSUME NEW q, NEW n \in Nat, NEW e
  PROVE  Cardinality(Places(q, n + 1, e))
           = IF q[n + 1] = e THEN Cardinality(Places(q, n, e)) + 1 ELSE Cardinality(Places(q, n, e))
<1>1. CASE q[n + 1] = e
  <2>1. Places(q, n + 1, e) = Places(q, n, e) \cup {n + 1}
    BY <1>1 DEF Places
  <2>2. n + 1 \notin Places(q, n, e)
    BY DEF Places
  <2> QED BY <1>1, <2>1, <2>2, PlacesFinite, FS_AddElement
<1>2. CASE q[n + 1] # e
  <2>1. Places(q, n + 1, e) = Places(q, n, e)
    BY <1>2 DEF Places
  <2> QED BY <1>2, <2>1
<1> QED BY <1>1, <1>2

(* Counting in a sequence is counting its places. *)
LEMMA CountIs ==
  ASSUME NEW S, NEW q \in Seq(S), NEW e
  PROVE  Count(q, e) = Cardinality(Places(q, Len(q), e)) /\ Count(q, e) \in Nat
<1>1. DOMAIN q = 1 .. Len(q) /\ Len(q) \in Nat
  OBVIOUS
<1>2. Count(q, e) = Cardinality(Places(q, Len(q), e))
  BY <1>1 DEF Count, Places
<1> QED BY <1>1, <1>2, PlacesFinite

(* Nothing is counted in the empty sequence, ... *)
LEMMA CountEmpty ==
  ASSUME NEW e
  PROVE  Count(<<>>, e) = 0
<1>1. { i \in DOMAIN <<>> : <<>>[i] = e } = {}
  OBVIOUS
<1> QED BY <1>1, FS_EmptySet DEF Count

(* ... and something exactly where it is. *)
LEMMA CountZero ==
  ASSUME NEW S, NEW q \in Seq(S), NEW e
  PROVE  Count(q, e) = 0 <=> e \notin ToSet(q)
<1>1. DOMAIN q = 1 .. Len(q) /\ Len(q) \in Nat
  OBVIOUS
<1>2. Cardinality(Places(q, Len(q), e)) = 0 <=> Places(q, Len(q), e) = {}
  BY <1>1, PlacesFinite, FS_EmptySet
<1>3. Places(q, Len(q), e) = {} <=> e \notin ToSet(q)
  BY <1>1 DEF Places, ToSet
<1> QED BY <1>2, <1>3, CountIs

(* An element is added at the end. *)
LEMMA CountAppend ==
  ASSUME NEW S, NEW q \in Seq(S), NEW d \in S, NEW e
  PROVE  Count(Append(q, d), e) = IF d = e THEN Count(q, e) + 1 ELSE Count(q, e)
<1> DEFINE p == Append(q, d)
<1>1. p \in Seq(S) /\ Len(p) = Len(q) + 1 /\ p[Len(q) + 1] = d /\ Len(q) \in Nat
      /\ \A i \in 1 .. Len(q) : p[i] = q[i]
  OBVIOUS
<1> HIDE DEF p
<1>2. Places(p, Len(q), e) = Places(q, Len(q), e)
  BY <1>1 DEF Places
<1>3. Count(p, e) = Cardinality(Places(p, Len(q) + 1, e)) /\ Count(q, e) = Cardinality(Places(q, Len(q), e))
  BY <1>1, CountIs
<1>4. Cardinality(Places(p, Len(q) + 1, e))
        = IF p[Len(q) + 1] = e THEN Cardinality(Places(p, Len(q), e)) + 1 ELSE Cardinality(Places(p, Len(q), e))
  BY <1>1, OnePlaceMore
<1> QED BY <1>1, <1>2, <1>3, <1>4 DEF p

(* r is q without the place m. *)
Skips(r, q, m) ==
  /\ m \in 1 .. Len(q) /\ Len(r) = Len(q) - 1
  /\ \A i \in 1 .. Len(r) : r[i] = IF i < m THEN q[i] ELSE q[i + 1]

(* What follows the place m of a sequence. *)
LEMMA AfterPlace ==
  ASSUME NEW S, NEW q \in Seq(S), NEW m \in 1 .. Len(q)
  PROVE  /\ SubSeq(q, m + 1, Len(q)) \in Seq(S)
         /\ Len(SubSeq(q, m + 1, Len(q))) = Len(q) - m
         /\ \A i \in 1 .. Len(q) - m : SubSeq(q, m + 1, Len(q))[i] = q[i + m]
<1>1. Len(q) \in Nat /\ m \in Nat /\ m <= Len(q)
  OBVIOUS
<1>2. m + 1 \in Int /\ Len(q) \in Int /\ \A i \in m + 1 .. Len(q) : q[i] \in S
  BY <1>1
<1> DEFINE b == SubSeq(q, m + 1, Len(q))
<1>3. b \in Seq(S)
  BY <1>2, SubSeqProperties
<1>4. Len(b) = IF m + 1 <= Len(q) THEN Len(q) - (m + 1) + 1 ELSE 0
  BY <1>2, SubSeqProperties
<1>5. \A i \in 1 .. Len(q) - (m + 1) + 1 : b[i] = q[m + 1 + i - 1]
  BY <1>2, SubSeqProperties
<1> HIDE DEF b
<1>6. Len(b) = Len(q) - m
  <2>1. (IF m + 1 <= Len(q) THEN Len(q) - (m + 1) + 1 ELSE 0) = Len(q) - m
    BY <1>1
  <2> QED BY <1>4, <2>1
<1>7. ASSUME NEW i \in 1 .. Len(q) - m PROVE b[i] = q[i + m]
  <2>1. i \in 1 .. Len(q) - (m + 1) + 1 /\ m + 1 + i - 1 = i + m
    BY <1>1
  <2>2. b[i] = q[m + 1 + i - 1]
    BY <1>5, <2>1
  <2> QED BY <2>1, <2>2
<1> QED BY <1>3, <1>6, <1>7 DEF b

(* RemoveFirst skips the first place with e. *)
LEMMA RemoveFirstSkips ==
  ASSUME NEW S, NEW q \in Seq(S), NEW e
  PROVE  /\ RemoveFirst(q, e) \in Seq(S)
         /\ e \notin ToSet(q) => RemoveFirst(q, e) = q
         /\ e \in ToSet(q) =>
              \E m \in 1 .. Len(q) : /\ Skips(RemoveFirst(q, e), q, m) /\ q[m] = e
                                     /\ \A i \in 1 .. m - 1 : q[i] # e
<1>1. DOMAIN q = 1 .. Len(q) /\ Len(q) \in Nat
  OBVIOUS
<1>2. CASE e \notin ToSet(q)
  <2>1. ~ \E i \in 1 .. Len(q) : q[i] = e
    BY <1>1, <1>2 DEF ToSet
  <2> QED BY <1>2, <2>1 DEF RemoveFirst
<1>3. CASE e \in ToSet(q)
  <2> DEFINE T == { i \in 1 .. Len(q) : q[i] = e }
             m == Min(T)
             r == RemoveAt(q, m)
  <2>1. T \in SUBSET Nat /\ T # {}
    BY <1>1, <1>3 DEF ToSet
  <2>2. m \in T /\ \A i \in T : m <= i
    <3>1. \E n \in T : \A i \in T : n <= i
      BY <2>1, LeastNat
    <3> HIDE DEF T
    <3> QED BY <3>1 DEF Min
  <2>3. RemoveFirst(q, e) = r
    <3>1. \E i \in 1 .. Len(q) : q[i] = e
      BY <2>1
    <3>2. SelectInSeq(q, LAMBDA v : v = e) = m
      BY <2>1, Zenon DEF SelectInSeq
    <3> QED BY <3>1, <3>2 DEF RemoveFirst
  <2>4. m \in 1 .. Len(q) /\ q[m] = e /\ \A i \in 1 .. m - 1 : q[i] # e
    <3>1. m \in 1 .. Len(q) /\ q[m] = e
      BY <2>2
    <3>2. ASSUME NEW i \in 1 .. m - 1 PROVE q[i] # e
      <4>1. i \in 1 .. Len(q) /\ i < m
        BY <1>1, <3>1
      <4> QED BY <2>2, <3>1, <4>1
    <3> QED BY <3>1, <3>2
  <2> HIDE DEF T, m
  <2> DEFINE a == SubSeq(q, 1, m - 1)
             b == SubSeq(q, m + 1, Len(q))
  <2>5. /\ a \in Seq(S) /\ Len(a) = m - 1 /\ \A i \in 1 .. m - 1 : a[i] = q[i]
    BY <1>1, <2>4
  <2>6. /\ b \in Seq(S) /\ Len(b) = Len(q) - m /\ \A i \in 1 .. Len(q) - m : b[i] = q[i + m]
    BY <2>4, AfterPlace
  <2>7. r = a \o b
    BY DEF RemoveAt
  <2> HIDE DEF a, b, r
  <2>8. r \in Seq(S) /\ Len(r) = Len(q) - 1
    <3>1. a \o b \in Seq(S) /\ Len(a \o b) = Len(a) + Len(b)
      BY <2>5, <2>6, ConcatProperties
    <3> QED BY <1>1, <2>4, <2>5, <2>6, <2>7, <3>1
  <2>9. ASSUME NEW i \in 1 .. Len(r) PROVE r[i] = IF i < m THEN q[i] ELSE q[i + 1]
    <3>1. i \in 1 .. Len(a) + Len(b) /\ i \in Int /\ m \in Int /\ i <= Len(q) - 1
      BY <1>1, <2>4, <2>5, <2>6, <2>8
    <3>2. \A j \in 1 .. Len(a) + Len(b) : (a \o b)[j] = IF j <= Len(a) THEN a[j] ELSE b[j - Len(a)]
      BY <2>5, <2>6, ConcatProperties, Zenon
    <3>3. r[i] = IF i <= Len(a) THEN a[i] ELSE b[i - Len(a)]
      BY <2>7, <3>1, <3>2, Zenon
    <3>4. CASE i < m
      <4>1. i <= Len(a) /\ i \in 1 .. m - 1
        BY <2>5, <3>1, <3>4
      <4>2. a[i] = q[i]
        BY <2>5, <4>1, Zenon
      <4> QED BY <3>3, <3>4, <4>1, <4>2, Zenon
    <3>5. CASE ~(i < m)
      <4>1. ~(i <= Len(a)) /\ i - Len(a) \in 1 .. Len(q) - m /\ (i - Len(a)) + m = i + 1
        BY <1>1, <2>5, <3>1, <3>5
      <4>2. b[i - Len(a)] = q[(i - Len(a)) + m]
        BY <2>6, <4>1, Zenon
      <4> QED BY <3>3, <3>5, <4>1, <4>2, Zenon
    <3> QED BY <3>4, <3>5
  <2> QED BY <1>3, <2>3, <2>4, <2>8, <2>9 DEF Skips
<1> QED BY <1>2, <1>3

(* So e is counted once less, and everything else as before. *)
LEMMA CountRemoveFirst ==
  ASSUME NEW S, NEW q \in Seq(S), NEW d, NEW e, d \in ToSet(q)
  PROVE  Count(RemoveFirst(q, d), e) = IF d = e THEN Count(q, e) - 1 ELSE Count(q, e)
<1> DEFINE r == RemoveFirst(q, d)
<1>1. r \in Seq(S)
  BY RemoveFirstSkips
<1>2. PICK m \in 1 .. Len(q) : Skips(r, q, m) /\ q[m] = d
  BY RemoveFirstSkips
<1> HIDE DEF r
<1>3. Len(q) \in Nat /\ Len(r) \in Nat /\ Len(r) = Len(q) - 1
  BY <1>1, <1>2 DEF Skips
<1> DEFINE A == Places(q, Len(q), e) \ {m}
           B == Places(r, Len(r), e)
           f == [i \in A |-> IF i < m THEN i ELSE i - 1]
<1>4. IsFiniteSet(A) /\ Cardinality(A) = IF m \in Places(q, Len(q), e) THEN Count(q, e) - 1 ELSE Count(q, e)
  BY <1>3, PlacesFinite, FS_RemoveElement, CountIs
<1>5. m \in Places(q, Len(q), e) <=> d = e
  BY <1>2 DEF Places
<1>6. f \in [A -> B]
  <2> SUFFICES ASSUME NEW i \in A PROVE f[i] \in B
    OBVIOUS
  <2>1. i \in 1 .. Len(q) /\ i # m /\ q[i] = e
    BY DEF Places
  <2>2. f[i] \in 1 .. Len(r) /\ f[i] = IF i < m THEN i ELSE i - 1
    BY <1>3, <2>1
  <2>3. r[f[i]] = IF f[i] < m THEN q[f[i]] ELSE q[f[i] + 1]
    BY <1>2, <2>2 DEF Skips
  <2>4. r[f[i]] = q[i]
    <3> HIDE DEF f
    <3>1. CASE i < m
      BY <2>2, <2>3, <3>1
    <3>2. CASE ~(i < m)
      <4>1. f[i] = i - 1 /\ ~(f[i] < m) /\ f[i] + 1 = i
        BY <1>3, <2>1, <2>2, <3>2
      <4> QED BY <2>3, <4>1
    <3> QED BY <3>1, <3>2
  <2> QED BY <2>1, <2>2, <2>4 DEF Places
<1>7. f \in Injection(A, B)
  <2>1. ASSUME NEW i \in A, NEW j \in A, f[i] = f[j] PROVE i = j
    <3>1. i \in 1 .. Len(q) /\ i # m /\ j \in 1 .. Len(q) /\ j # m
      BY DEF Places
    <3> HIDE DEF A
    <3> QED BY <1>3, <2>1, <3>1
  <2> QED BY <1>6, <2>1 DEF Injection, IsInjective
<1>8. f \in Surjection(A, B)
  <2>1. ASSUME NEW j \in B PROVE \E i \in A : f[i] = j
    <3> DEFINE i == IF j < m THEN j ELSE j + 1
    <3>1. j \in 1 .. Len(r) /\ r[j] = e
      BY DEF Places
    <3>2. i \in 1 .. Len(q) /\ i # m /\ q[i] = r[j]
      BY <1>2, <1>3, <3>1 DEF Skips
    <3>3. i \in A
      BY <3>1, <3>2 DEF Places
    <3>4. (IF i < m THEN i ELSE i - 1) = j
      BY <1>3, <3>1
    <3> QED BY <3>3, <3>4
  <2> QED BY <1>6, <2>1 DEF Surjection
<1>9. Cardinality(B) = Cardinality(A)
  <2> HIDE DEF A, B, f
  <2>1. ExistsBijection(A, B)
    BY <1>7, <1>8 DEF ExistsBijection, Bijection
  <2> QED BY <1>4, <2>1, FS_Bijection
<1> QED BY <1>1, <1>4, <1>5, <1>9, CountIs DEF r

-----------------------------------------------------------------------------
(* The six folds of the module, each as the run of a function.             *)
BlockKey(b, k, c) == [b EXCEPT ![k] = Append(@, c)]
UnblockKey(b, k, c) == [b EXCEPT ![k] = RemoveFirst(@, c)]
Process(t, c) ==
  LET req == Head(t.querybuf[c])
      u == [t EXCEPT !.querybuf[c] = Tail(@)]
  IN IF t.querybuf[c] = <<>> \/ c \in t.BLOCKED THEN t
     ELSE IF req.target = None THEN blockingPopGenericCommand(u, c, req)
     ELSE brpoplpushCommand(u, c, req)

(* What a slave makes of the commands q. *)
ReplayAll(b, q) == FoldLeft(Replayed, b, q)
ReplayKeeps(S, M) == \A x \in S, e \in M : Replayed(x, e) \in S
ReplayStep(S, M) == [p \in S \X M |-> Replayed(p[1], p[2])]

(* The function stays in what the operator keeps, and has its values. *)
LEMMA ReplayStepType ==
  ASSUME NEW S, NEW M, ReplayKeeps(S, M)
  PROVE  /\ Stays(ReplayStep(S, M), S, M)
         /\ \A x \in S, e \in M : ReplayStep(S, M)[<<x, e>>] = Replayed(x, e)
<1>1. ASSUME NEW p \in S \X M PROVE Replayed(p[1], p[2]) \in S
  BY Zenon DEF ReplayKeeps
<1>2. \A x \in S, e \in M : <<x, e>> \in S \X M
  OBVIOUS
<1> QED BY <1>1, <1>2 DEF ReplayStep, Stays

(* To fold the operator is to run the function. *)
LEMMA ReplayFold ==
  ASSUME NEW S, NEW M, ReplayKeeps(S, M), NEW b \in S, NEW q \in Seq(M)
  PROVE  ReplayAll(b, q) = Result(ReplayStep(S, M), b, q)
<1> DEFINE F == ReplayStep(S, M)
           P(g) == g = [s \in SUBSET DOMAIN q |->
             IF s = {} THEN b ELSE Replayed(g[s \ {Max(s)}], q[Max(s)])]
<1>0. Stays(F, S, M) /\ \A x \in S, e \in M : F[<<x, e>>] = Replayed(x, e)
  BY ReplayStepType, Zenon
<1>1. ReplayAll(b, q) = (CHOOSE g : P(g))[DOMAIN q]
  BY Zenon DEF ReplayAll, FoldLeft, MapThenFoldSet
<1>2. DOMAIN q = 1 .. Len(q) /\ Len(q) \in Nat
  OBVIOUS
<1> HIDE DEF F
<1>3. PICK f : IsFold(f, S, F, b, q)
  BY <1>0, SubsetFoldOfSequence, Zenon
<1>4. P(f)
  <2>1. f \in [SUBSET (1 .. Len(q)) -> S] /\ f = SubsetStep(F, b, q, f)
    BY <1>3 DEF IsFold
  <2>2. ASSUME NEW s \in SUBSET (1 .. Len(q)), s # {}
        PROVE  f[s] = Replayed(f[s \ {Max(s)}], q[Max(s)])
    <3>1. Max(s) \in 1 .. Len(q)
      BY <1>2, <2>2, MaxOfPositions
    <3>2. q[Max(s)] \in M
      BY <3>1
    <3>a. f[s \ {Max(s)}] \in S
      <4>1. s \ {Max(s)} \in SUBSET (1 .. Len(q))
        OBVIOUS
      <4> QED BY <2>1, <4>1
    <3>3. f[s] = F[<<f[s \ {Max(s)}], q[Max(s)]>>]
      BY <2>1, <2>2 DEF SubsetStep
    <3> QED BY <1>0, <3>2, <3>a, <3>3, Zenon
  <2>3. f[{}] = b
    BY <2>1 DEF SubsetStep
  <2>4. f = [s \in SUBSET (1 .. Len(q)) |-> f[s]]
    BY <2>1
  <2> QED BY <1>2, <2>2, <2>3, <2>4, Zenon
<1>5. P(CHOOSE g : P(g))
  <2> HIDE DEF P
  <2> QED BY <1>4, Zenon
<1> DEFINE g == CHOOSE g : P(g)
<1>6. /\ g[{}] = b
      /\ \A s \in SUBSET (1 .. Len(q)) : s # {} =>
            g[s] = Replayed(g[s \ {Max(s)}], q[Max(s)])
  BY <1>2, <1>5
<1> HIDE DEF g
<1>7. SolvesFold(g, S, F, b, q)
  <2> SUFFICES ASSUME NEW s \in SUBSET (1 .. Len(q)), s # {}, g[s \ {Max(s)}] \in S
               PROVE  g[s] = F[<<g[s \ {Max(s)}], q[Max(s)]>>]
    BY <1>6, Zenon DEF SolvesFold
  <2>1. Max(s) \in 1 .. Len(q)
    BY <1>2, MaxOfPositions
  <2>2. q[Max(s)] \in M
    BY <2>1
  <2>3. g[s] = Replayed(g[s \ {Max(s)}], q[Max(s)])
    BY <1>6
  <2> QED BY <1>0, <2>2, <2>3, Zenon
<1>8. Gives(g, F, b, q)
  BY <1>0, <1>7, FoldIsResult
<1> QED BY <1>1, <1>2, <1>8 DEF g, Gives, F

(* So the fold stays there, too, ... *)
LEMMA ReplayStays ==
  ASSUME NEW S, NEW M, ReplayKeeps(S, M), NEW b \in S, NEW q \in Seq(M)
  PROVE  ReplayAll(b, q) \in S
<1>1. Stays(ReplayStep(S, M), S, M)
  BY ReplayStepType
<1>2. ReplayAll(b, q) = Result(ReplayStep(S, M), b, q)
  BY ReplayFold
<1> HIDE DEF ReplayStep
<1>3. Result(ReplayStep(S, M), b, q) \in S
  BY <1>1, ResultType
<1> QED BY <1>2, <1>3

(* The lists of the keys q with client c at their ends. *)
BlockAll(b, q, c) == FoldLeft(LAMBDA d, k : [d EXCEPT ![k] = Append(@, c)], b, q)
BlockKeeps(S, M, c) == \A x \in S, e \in M : BlockKey(x, e, c) \in S
BlockStep(S, M, c) == [p \in S \X M |-> BlockKey(p[1], p[2], c)]

(* The function stays in what the operator keeps, and has its values. *)
LEMMA BlockStepType ==
  ASSUME NEW c, NEW S, NEW M, BlockKeeps(S, M, c)
  PROVE  /\ Stays(BlockStep(S, M, c), S, M)
         /\ \A x \in S, e \in M : BlockStep(S, M, c)[<<x, e>>] = BlockKey(x, e, c)
<1>1. ASSUME NEW p \in S \X M PROVE BlockKey(p[1], p[2], c) \in S
  BY Zenon DEF BlockKeeps
<1>2. \A x \in S, e \in M : <<x, e>> \in S \X M
  OBVIOUS
<1> QED BY <1>1, <1>2 DEF BlockStep, Stays

(* To fold the operator is to run the function. *)
LEMMA BlockFold ==
  ASSUME NEW c, NEW S, NEW M, BlockKeeps(S, M, c), NEW b \in S, NEW q \in Seq(M)
  PROVE  BlockAll(b, q, c) = Result(BlockStep(S, M, c), b, q)
<1> DEFINE F == BlockStep(S, M, c)
           P(g) == g = [s \in SUBSET DOMAIN q |->
             IF s = {} THEN b ELSE BlockKey(g[s \ {Max(s)}], q[Max(s)], c)]
<1>0. Stays(F, S, M) /\ \A x \in S, e \in M : F[<<x, e>>] = BlockKey(x, e, c)
  BY BlockStepType, Zenon
<1>1. BlockAll(b, q, c) = (CHOOSE g : P(g))[DOMAIN q]
  BY Zenon DEF BlockAll, FoldLeft, MapThenFoldSet, BlockKey
<1>2. DOMAIN q = 1 .. Len(q) /\ Len(q) \in Nat
  OBVIOUS
<1> HIDE DEF F
<1>3. PICK f : IsFold(f, S, F, b, q)
  BY <1>0, SubsetFoldOfSequence, Zenon
<1>4. P(f)
  <2>1. f \in [SUBSET (1 .. Len(q)) -> S] /\ f = SubsetStep(F, b, q, f)
    BY <1>3 DEF IsFold
  <2>2. ASSUME NEW s \in SUBSET (1 .. Len(q)), s # {}
        PROVE  f[s] = BlockKey(f[s \ {Max(s)}], q[Max(s)], c)
    <3>1. Max(s) \in 1 .. Len(q)
      BY <1>2, <2>2, MaxOfPositions
    <3>2. q[Max(s)] \in M
      BY <3>1
    <3>a. f[s \ {Max(s)}] \in S
      <4>1. s \ {Max(s)} \in SUBSET (1 .. Len(q))
        OBVIOUS
      <4> QED BY <2>1, <4>1
    <3>3. f[s] = F[<<f[s \ {Max(s)}], q[Max(s)]>>]
      BY <2>1, <2>2 DEF SubsetStep
    <3> QED BY <1>0, <3>2, <3>a, <3>3, Zenon
  <2>3. f[{}] = b
    BY <2>1 DEF SubsetStep
  <2>4. f = [s \in SUBSET (1 .. Len(q)) |-> f[s]]
    BY <2>1
  <2> QED BY <1>2, <2>2, <2>3, <2>4, Zenon
<1>5. P(CHOOSE g : P(g))
  <2> HIDE DEF P
  <2> QED BY <1>4, Zenon
<1> DEFINE g == CHOOSE g : P(g)
<1>6. /\ g[{}] = b
      /\ \A s \in SUBSET (1 .. Len(q)) : s # {} =>
            g[s] = BlockKey(g[s \ {Max(s)}], q[Max(s)], c)
  BY <1>2, <1>5
<1> HIDE DEF g
<1>7. SolvesFold(g, S, F, b, q)
  <2> SUFFICES ASSUME NEW s \in SUBSET (1 .. Len(q)), s # {}, g[s \ {Max(s)}] \in S
               PROVE  g[s] = F[<<g[s \ {Max(s)}], q[Max(s)]>>]
    BY <1>6, Zenon DEF SolvesFold
  <2>1. Max(s) \in 1 .. Len(q)
    BY <1>2, MaxOfPositions
  <2>2. q[Max(s)] \in M
    BY <2>1
  <2>3. g[s] = BlockKey(g[s \ {Max(s)}], q[Max(s)], c)
    BY <1>6
  <2> QED BY <1>0, <2>2, <2>3, Zenon
<1>8. Gives(g, F, b, q)
  BY <1>0, <1>7, FoldIsResult
<1> QED BY <1>1, <1>2, <1>8 DEF g, Gives, F

(* So the fold stays there, too, ... *)
LEMMA BlockStays ==
  ASSUME NEW c, NEW S, NEW M, BlockKeeps(S, M, c), NEW b \in S, NEW q \in Seq(M)
  PROVE  BlockAll(b, q, c) \in S
<1>1. Stays(BlockStep(S, M, c), S, M)
  BY BlockStepType
<1>2. BlockAll(b, q, c) = Result(BlockStep(S, M, c), b, q)
  BY BlockFold
<1> HIDE DEF BlockStep
<1>3. Result(BlockStep(S, M, c), b, q) \in S
  BY <1>1, ResultType
<1> QED BY <1>2, <1>3

(* ... and what every step preserves, counting the steps, holds at the end. *)
BlockInductive(T, S, q, c) ==
  \A i \in 0 .. Len(q) - 1 : \A x \in S : <<i, x>> \in T => <<i + 1, BlockKey(x, q[i + 1], c)>> \in T

(* An induction along the fold. *)
LEMMA BlockInduct ==
  ASSUME NEW c, NEW S, NEW M, BlockKeeps(S, M, c), NEW b \in S, NEW q \in Seq(M),
         NEW T, <<0, b>> \in T, BlockInductive(T, S, q, c)
  PROVE  <<Len(q), BlockAll(b, q, c)>> \in T
<1> DEFINE F == BlockStep(S, M, c)
<1>0. Stays(F, S, M) /\ \A x \in S, e \in M : F[<<x, e>>] = BlockKey(x, e, c)
  BY BlockStepType, Zenon
<1>1. BlockAll(b, q, c) = Result(F, b, q)
  BY BlockFold
<1> HIDE DEF F
<1>2. Inductive(T, S, F, q)
  <2>1. \A i \in 0 .. Len(q) - 1 : q[i + 1] \in M
    OBVIOUS
  <2> QED BY <1>0, <2>1, Zenon DEF Inductive, BlockInductive
<1>3. <<Len(q), Result(F, b, q)>> \in T
  BY <1>0, <1>2, ResultInduct
<1> QED BY <1>1, <1>3

(* The lists of the keys q without client c. *)
UnblockAll(b, q, c) == FoldLeft(LAMBDA d, k : [d EXCEPT ![k] = RemoveFirst(@, c)], b, q)
UnblockKeeps(S, M, c) == \A x \in S, e \in M : UnblockKey(x, e, c) \in S
UnblockStep(S, M, c) == [p \in S \X M |-> UnblockKey(p[1], p[2], c)]

(* The function stays in what the operator keeps, and has its values. *)
LEMMA UnblockStepType ==
  ASSUME NEW c, NEW S, NEW M, UnblockKeeps(S, M, c)
  PROVE  /\ Stays(UnblockStep(S, M, c), S, M)
         /\ \A x \in S, e \in M : UnblockStep(S, M, c)[<<x, e>>] = UnblockKey(x, e, c)
<1>1. ASSUME NEW p \in S \X M PROVE UnblockKey(p[1], p[2], c) \in S
  BY Zenon DEF UnblockKeeps
<1>2. \A x \in S, e \in M : <<x, e>> \in S \X M
  OBVIOUS
<1> QED BY <1>1, <1>2 DEF UnblockStep, Stays

(* To fold the operator is to run the function. *)
LEMMA UnblockFold ==
  ASSUME NEW c, NEW S, NEW M, UnblockKeeps(S, M, c), NEW b \in S, NEW q \in Seq(M)
  PROVE  UnblockAll(b, q, c) = Result(UnblockStep(S, M, c), b, q)
<1> DEFINE F == UnblockStep(S, M, c)
           P(g) == g = [s \in SUBSET DOMAIN q |->
             IF s = {} THEN b ELSE UnblockKey(g[s \ {Max(s)}], q[Max(s)], c)]
<1>0. Stays(F, S, M) /\ \A x \in S, e \in M : F[<<x, e>>] = UnblockKey(x, e, c)
  BY UnblockStepType, Zenon
<1>1. UnblockAll(b, q, c) = (CHOOSE g : P(g))[DOMAIN q]
  BY Zenon DEF UnblockAll, FoldLeft, MapThenFoldSet, UnblockKey
<1>2. DOMAIN q = 1 .. Len(q) /\ Len(q) \in Nat
  OBVIOUS
<1> HIDE DEF F
<1>3. PICK f : IsFold(f, S, F, b, q)
  BY <1>0, SubsetFoldOfSequence, Zenon
<1>4. P(f)
  <2>1. f \in [SUBSET (1 .. Len(q)) -> S] /\ f = SubsetStep(F, b, q, f)
    BY <1>3 DEF IsFold
  <2>2. ASSUME NEW s \in SUBSET (1 .. Len(q)), s # {}
        PROVE  f[s] = UnblockKey(f[s \ {Max(s)}], q[Max(s)], c)
    <3>1. Max(s) \in 1 .. Len(q)
      BY <1>2, <2>2, MaxOfPositions
    <3>2. q[Max(s)] \in M
      BY <3>1
    <3>a. f[s \ {Max(s)}] \in S
      <4>1. s \ {Max(s)} \in SUBSET (1 .. Len(q))
        OBVIOUS
      <4> QED BY <2>1, <4>1
    <3>3. f[s] = F[<<f[s \ {Max(s)}], q[Max(s)]>>]
      BY <2>1, <2>2 DEF SubsetStep
    <3> QED BY <1>0, <3>2, <3>a, <3>3, Zenon
  <2>3. f[{}] = b
    BY <2>1 DEF SubsetStep
  <2>4. f = [s \in SUBSET (1 .. Len(q)) |-> f[s]]
    BY <2>1
  <2> QED BY <1>2, <2>2, <2>3, <2>4, Zenon
<1>5. P(CHOOSE g : P(g))
  <2> HIDE DEF P
  <2> QED BY <1>4, Zenon
<1> DEFINE g == CHOOSE g : P(g)
<1>6. /\ g[{}] = b
      /\ \A s \in SUBSET (1 .. Len(q)) : s # {} =>
            g[s] = UnblockKey(g[s \ {Max(s)}], q[Max(s)], c)
  BY <1>2, <1>5
<1> HIDE DEF g
<1>7. SolvesFold(g, S, F, b, q)
  <2> SUFFICES ASSUME NEW s \in SUBSET (1 .. Len(q)), s # {}, g[s \ {Max(s)}] \in S
               PROVE  g[s] = F[<<g[s \ {Max(s)}], q[Max(s)]>>]
    BY <1>6, Zenon DEF SolvesFold
  <2>1. Max(s) \in 1 .. Len(q)
    BY <1>2, MaxOfPositions
  <2>2. q[Max(s)] \in M
    BY <2>1
  <2>3. g[s] = UnblockKey(g[s \ {Max(s)}], q[Max(s)], c)
    BY <1>6
  <2> QED BY <1>0, <2>2, <2>3, Zenon
<1>8. Gives(g, F, b, q)
  BY <1>0, <1>7, FoldIsResult
<1> QED BY <1>1, <1>2, <1>8 DEF g, Gives, F

(* So the fold stays there, too, ... *)
LEMMA UnblockStays ==
  ASSUME NEW c, NEW S, NEW M, UnblockKeeps(S, M, c), NEW b \in S, NEW q \in Seq(M)
  PROVE  UnblockAll(b, q, c) \in S
<1>1. Stays(UnblockStep(S, M, c), S, M)
  BY UnblockStepType
<1>2. UnblockAll(b, q, c) = Result(UnblockStep(S, M, c), b, q)
  BY UnblockFold
<1> HIDE DEF UnblockStep
<1>3. Result(UnblockStep(S, M, c), b, q) \in S
  BY <1>1, ResultType
<1> QED BY <1>2, <1>3

(* ... and what every step preserves, counting the steps, holds at the end. *)
UnblockInductive(T, S, q, c) ==
  \A i \in 0 .. Len(q) - 1 : \A x \in S : <<i, x>> \in T => <<i + 1, UnblockKey(x, q[i + 1], c)>> \in T

(* An induction along the fold. *)
LEMMA UnblockInduct ==
  ASSUME NEW c, NEW S, NEW M, UnblockKeeps(S, M, c), NEW b \in S, NEW q \in Seq(M),
         NEW T, <<0, b>> \in T, UnblockInductive(T, S, q, c)
  PROVE  <<Len(q), UnblockAll(b, q, c)>> \in T
<1> DEFINE F == UnblockStep(S, M, c)
<1>0. Stays(F, S, M) /\ \A x \in S, e \in M : F[<<x, e>>] = UnblockKey(x, e, c)
  BY UnblockStepType, Zenon
<1>1. UnblockAll(b, q, c) = Result(F, b, q)
  BY UnblockFold
<1> HIDE DEF F
<1>2. Inductive(T, S, F, q)
  <2>1. \A i \in 0 .. Len(q) - 1 : q[i + 1] \in M
    OBVIOUS
  <2> QED BY <1>0, <2>1, Zenon DEF Inductive, UnblockInductive
<1>3. <<Len(q), Result(F, b, q)>> \in T
  BY <1>0, <1>2, ResultInduct
<1> QED BY <1>1, <1>3

(* The way of an element from client to client. *)
HandAll(b, q, ele) == FoldLeft(LAMBDA x, i : HandOver(x, ele), b, q)
HandKeeps(S, M, ele) == \A x \in S, e \in M : HandOver(x, ele) \in S
HandStep(S, M, ele) == [p \in S \X M |-> HandOver(p[1], ele)]

(* The function stays in what the operator keeps, and has its values. *)
LEMMA HandStepType ==
  ASSUME NEW ele, NEW S, NEW M, HandKeeps(S, M, ele)
  PROVE  /\ Stays(HandStep(S, M, ele), S, M)
         /\ \A x \in S, e \in M : HandStep(S, M, ele)[<<x, e>>] = HandOver(x, ele)
<1>1. ASSUME NEW p \in S \X M PROVE HandOver(p[1], ele) \in S
  BY Zenon DEF HandKeeps
<1>2. \A x \in S, e \in M : <<x, e>> \in S \X M
  OBVIOUS
<1> QED BY <1>1, <1>2 DEF HandStep, Stays

(* To fold the operator is to run the function. *)
LEMMA HandFold ==
  ASSUME NEW ele, NEW S, NEW M, HandKeeps(S, M, ele), NEW b \in S, NEW q \in Seq(M)
  PROVE  HandAll(b, q, ele) = Result(HandStep(S, M, ele), b, q)
<1> DEFINE F == HandStep(S, M, ele)
           P(g) == g = [s \in SUBSET DOMAIN q |->
             IF s = {} THEN b ELSE HandOver(g[s \ {Max(s)}], ele)]
<1>0. Stays(F, S, M) /\ \A x \in S, e \in M : F[<<x, e>>] = HandOver(x, ele)
  BY HandStepType, Zenon
<1>1. HandAll(b, q, ele) = (CHOOSE g : P(g))[DOMAIN q]
  BY Zenon DEF HandAll, FoldLeft, MapThenFoldSet
<1>2. DOMAIN q = 1 .. Len(q) /\ Len(q) \in Nat
  OBVIOUS
<1> HIDE DEF F
<1>3. PICK f : IsFold(f, S, F, b, q)
  BY <1>0, SubsetFoldOfSequence, Zenon
<1>4. P(f)
  <2>1. f \in [SUBSET (1 .. Len(q)) -> S] /\ f = SubsetStep(F, b, q, f)
    BY <1>3 DEF IsFold
  <2>2. ASSUME NEW s \in SUBSET (1 .. Len(q)), s # {}
        PROVE  f[s] = HandOver(f[s \ {Max(s)}], ele)
    <3>1. Max(s) \in 1 .. Len(q)
      BY <1>2, <2>2, MaxOfPositions
    <3>2. q[Max(s)] \in M
      BY <3>1
    <3>a. f[s \ {Max(s)}] \in S
      <4>1. s \ {Max(s)} \in SUBSET (1 .. Len(q))
        OBVIOUS
      <4> QED BY <2>1, <4>1
    <3>3. f[s] = F[<<f[s \ {Max(s)}], q[Max(s)]>>]
      BY <2>1, <2>2 DEF SubsetStep
    <3> QED BY <1>0, <3>2, <3>a, <3>3, Zenon
  <2>3. f[{}] = b
    BY <2>1 DEF SubsetStep
  <2>4. f = [s \in SUBSET (1 .. Len(q)) |-> f[s]]
    BY <2>1
  <2> QED BY <1>2, <2>2, <2>3, <2>4, Zenon
<1>5. P(CHOOSE g : P(g))
  <2> HIDE DEF P
  <2> QED BY <1>4, Zenon
<1> DEFINE g == CHOOSE g : P(g)
<1>6. /\ g[{}] = b
      /\ \A s \in SUBSET (1 .. Len(q)) : s # {} =>
            g[s] = HandOver(g[s \ {Max(s)}], ele)
  BY <1>2, <1>5
<1> HIDE DEF g
<1>7. SolvesFold(g, S, F, b, q)
  <2> SUFFICES ASSUME NEW s \in SUBSET (1 .. Len(q)), s # {}, g[s \ {Max(s)}] \in S
               PROVE  g[s] = F[<<g[s \ {Max(s)}], q[Max(s)]>>]
    BY <1>6, Zenon DEF SolvesFold
  <2>1. Max(s) \in 1 .. Len(q)
    BY <1>2, MaxOfPositions
  <2>2. q[Max(s)] \in M
    BY <2>1
  <2>3. g[s] = HandOver(g[s \ {Max(s)}], ele)
    BY <1>6
  <2> QED BY <1>0, <2>2, <2>3, Zenon
<1>8. Gives(g, F, b, q)
  BY <1>0, <1>7, FoldIsResult
<1> QED BY <1>1, <1>2, <1>8 DEF g, Gives, F

(* So the fold stays there, too, ... *)
LEMMA HandStays ==
  ASSUME NEW ele, NEW S, NEW M, HandKeeps(S, M, ele), NEW b \in S, NEW q \in Seq(M)
  PROVE  HandAll(b, q, ele) \in S
<1>1. Stays(HandStep(S, M, ele), S, M)
  BY HandStepType
<1>2. HandAll(b, q, ele) = Result(HandStep(S, M, ele), b, q)
  BY HandFold
<1> HIDE DEF HandStep
<1>3. Result(HandStep(S, M, ele), b, q) \in S
  BY <1>1, ResultType
<1> QED BY <1>2, <1>3

(* ... and what every step preserves, counting the steps, holds at the end. *)
HandInductive(T, S, q, ele) ==
  \A i \in 0 .. Len(q) - 1 : \A x \in S : <<i, x>> \in T => <<i + 1, HandOver(x, ele)>> \in T

(* An induction along the fold. *)
LEMMA HandInduct ==
  ASSUME NEW ele, NEW S, NEW M, HandKeeps(S, M, ele), NEW b \in S, NEW q \in Seq(M),
         NEW T, <<0, b>> \in T, HandInductive(T, S, q, ele)
  PROVE  <<Len(q), HandAll(b, q, ele)>> \in T
<1> DEFINE F == HandStep(S, M, ele)
<1>0. Stays(F, S, M) /\ \A x \in S, e \in M : F[<<x, e>>] = HandOver(x, ele)
  BY HandStepType, Zenon
<1>1. HandAll(b, q, ele) = Result(F, b, q)
  BY HandFold
<1> HIDE DEF F
<1>2. Inductive(T, S, F, q)
  <2>1. \A i \in 0 .. Len(q) - 1 : q[i + 1] \in M
    OBVIOUS
  <2> QED BY <1>0, <2>1, Zenon DEF Inductive, HandInductive
<1>3. <<Len(q), Result(F, b, q)>> \in T
  BY <1>0, <1>2, ResultInduct
<1> QED BY <1>1, <1>3

(* The elements q of one command. *)
PushAll(b, q, key) == FoldLeft(LAMBDA x, e : PushElement(x, key, e), b, q)
PushKeeps(S, M, key) == \A x \in S, e \in M : PushElement(x, key, e) \in S
PushStep(S, M, key) == [p \in S \X M |-> PushElement(p[1], key, p[2])]

(* The function stays in what the operator keeps, and has its values. *)
LEMMA PushStepType ==
  ASSUME NEW key, NEW S, NEW M, PushKeeps(S, M, key)
  PROVE  /\ Stays(PushStep(S, M, key), S, M)
         /\ \A x \in S, e \in M : PushStep(S, M, key)[<<x, e>>] = PushElement(x, key, e)
<1>1. ASSUME NEW p \in S \X M PROVE PushElement(p[1], key, p[2]) \in S
  BY Zenon DEF PushKeeps
<1>2. \A x \in S, e \in M : <<x, e>> \in S \X M
  OBVIOUS
<1> QED BY <1>1, <1>2 DEF PushStep, Stays

(* To fold the operator is to run the function. *)
LEMMA PushFold ==
  ASSUME NEW key, NEW S, NEW M, PushKeeps(S, M, key), NEW b \in S, NEW q \in Seq(M)
  PROVE  PushAll(b, q, key) = Result(PushStep(S, M, key), b, q)
<1> DEFINE F == PushStep(S, M, key)
           P(g) == g = [s \in SUBSET DOMAIN q |->
             IF s = {} THEN b ELSE PushElement(g[s \ {Max(s)}], key, q[Max(s)])]
<1>0. Stays(F, S, M) /\ \A x \in S, e \in M : F[<<x, e>>] = PushElement(x, key, e)
  BY PushStepType, Zenon
<1>1. PushAll(b, q, key) = (CHOOSE g : P(g))[DOMAIN q]
  BY Zenon DEF PushAll, FoldLeft, MapThenFoldSet
<1>2. DOMAIN q = 1 .. Len(q) /\ Len(q) \in Nat
  OBVIOUS
<1> HIDE DEF F
<1>3. PICK f : IsFold(f, S, F, b, q)
  BY <1>0, SubsetFoldOfSequence, Zenon
<1>4. P(f)
  <2>1. f \in [SUBSET (1 .. Len(q)) -> S] /\ f = SubsetStep(F, b, q, f)
    BY <1>3 DEF IsFold
  <2>2. ASSUME NEW s \in SUBSET (1 .. Len(q)), s # {}
        PROVE  f[s] = PushElement(f[s \ {Max(s)}], key, q[Max(s)])
    <3>1. Max(s) \in 1 .. Len(q)
      BY <1>2, <2>2, MaxOfPositions
    <3>2. q[Max(s)] \in M
      BY <3>1
    <3>a. f[s \ {Max(s)}] \in S
      <4>1. s \ {Max(s)} \in SUBSET (1 .. Len(q))
        OBVIOUS
      <4> QED BY <2>1, <4>1
    <3>3. f[s] = F[<<f[s \ {Max(s)}], q[Max(s)]>>]
      BY <2>1, <2>2 DEF SubsetStep
    <3> QED BY <1>0, <3>2, <3>a, <3>3, Zenon
  <2>3. f[{}] = b
    BY <2>1 DEF SubsetStep
  <2>4. f = [s \in SUBSET (1 .. Len(q)) |-> f[s]]
    BY <2>1
  <2> QED BY <1>2, <2>2, <2>3, <2>4, Zenon
<1>5. P(CHOOSE g : P(g))
  <2> HIDE DEF P
  <2> QED BY <1>4, Zenon
<1> DEFINE g == CHOOSE g : P(g)
<1>6. /\ g[{}] = b
      /\ \A s \in SUBSET (1 .. Len(q)) : s # {} =>
            g[s] = PushElement(g[s \ {Max(s)}], key, q[Max(s)])
  BY <1>2, <1>5
<1> HIDE DEF g
<1>7. SolvesFold(g, S, F, b, q)
  <2> SUFFICES ASSUME NEW s \in SUBSET (1 .. Len(q)), s # {}, g[s \ {Max(s)}] \in S
               PROVE  g[s] = F[<<g[s \ {Max(s)}], q[Max(s)]>>]
    BY <1>6, Zenon DEF SolvesFold
  <2>1. Max(s) \in 1 .. Len(q)
    BY <1>2, MaxOfPositions
  <2>2. q[Max(s)] \in M
    BY <2>1
  <2>3. g[s] = PushElement(g[s \ {Max(s)}], key, q[Max(s)])
    BY <1>6
  <2> QED BY <1>0, <2>2, <2>3, Zenon
<1>8. Gives(g, F, b, q)
  BY <1>0, <1>7, FoldIsResult
<1> QED BY <1>1, <1>2, <1>8 DEF g, Gives, F

(* So the fold stays there, too, ... *)
LEMMA PushStays ==
  ASSUME NEW key, NEW S, NEW M, PushKeeps(S, M, key), NEW b \in S, NEW q \in Seq(M)
  PROVE  PushAll(b, q, key) \in S
<1>1. Stays(PushStep(S, M, key), S, M)
  BY PushStepType
<1>2. PushAll(b, q, key) = Result(PushStep(S, M, key), b, q)
  BY PushFold
<1> HIDE DEF PushStep
<1>3. Result(PushStep(S, M, key), b, q) \in S
  BY <1>1, ResultType
<1> QED BY <1>2, <1>3

(* ... and what every step preserves, counting the steps, holds at the end. *)
PushInductive(T, S, q, key) ==
  \A i \in 0 .. Len(q) - 1 : \A x \in S : <<i, x>> \in T => <<i + 1, PushElement(x, key, q[i + 1])>> \in T

(* An induction along the fold. *)
LEMMA PushInduct ==
  ASSUME NEW key, NEW S, NEW M, PushKeeps(S, M, key), NEW b \in S, NEW q \in Seq(M),
         NEW T, <<0, b>> \in T, PushInductive(T, S, q, key)
  PROVE  <<Len(q), PushAll(b, q, key)>> \in T
<1> DEFINE F == PushStep(S, M, key)
<1>0. Stays(F, S, M) /\ \A x \in S, e \in M : F[<<x, e>>] = PushElement(x, key, e)
  BY PushStepType, Zenon
<1>1. PushAll(b, q, key) = Result(F, b, q)
  BY PushFold
<1> HIDE DEF F
<1>2. Inductive(T, S, F, q)
  <2>1. \A i \in 0 .. Len(q) - 1 : q[i + 1] \in M
    OBVIOUS
  <2> QED BY <1>0, <2>1, Zenon DEF Inductive, PushInductive
<1>3. <<Len(q), Result(F, b, q)>> \in T
  BY <1>0, <1>2, ResultInduct
<1> QED BY <1>1, <1>3

(* The requests of client c. *)
ProcessAll(b, q, c) == FoldLeft(LAMBDA t, i : Process(t, c), b, q)
ProcessKeeps(S, M, c) == \A x \in S, e \in M : Process(x, c) \in S
ProcessStep(S, M, c) == [p \in S \X M |-> Process(p[1], c)]

(* The function stays in what the operator keeps, and has its values. *)
LEMMA ProcessStepType ==
  ASSUME NEW c, NEW S, NEW M, ProcessKeeps(S, M, c)
  PROVE  /\ Stays(ProcessStep(S, M, c), S, M)
         /\ \A x \in S, e \in M : ProcessStep(S, M, c)[<<x, e>>] = Process(x, c)
<1>1. ASSUME NEW p \in S \X M PROVE Process(p[1], c) \in S
  BY Zenon DEF ProcessKeeps
<1>2. \A x \in S, e \in M : <<x, e>> \in S \X M
  OBVIOUS
<1> QED BY <1>1, <1>2 DEF ProcessStep, Stays

(* To fold the operator is to run the function. *)
LEMMA ProcessFold ==
  ASSUME NEW c, NEW S, NEW M, ProcessKeeps(S, M, c), NEW b \in S, NEW q \in Seq(M)
  PROVE  ProcessAll(b, q, c) = Result(ProcessStep(S, M, c), b, q)
<1> DEFINE F == ProcessStep(S, M, c)
           P(g) == g = [s \in SUBSET DOMAIN q |->
             IF s = {} THEN b ELSE Process(g[s \ {Max(s)}], c)]
<1>0. Stays(F, S, M) /\ \A x \in S, e \in M : F[<<x, e>>] = Process(x, c)
  BY ProcessStepType, Zenon
<1>1. ProcessAll(b, q, c) = (CHOOSE g : P(g))[DOMAIN q]
  BY Zenon DEF ProcessAll, FoldLeft, MapThenFoldSet
<1>2. DOMAIN q = 1 .. Len(q) /\ Len(q) \in Nat
  OBVIOUS
<1> HIDE DEF F
<1>3. PICK f : IsFold(f, S, F, b, q)
  BY <1>0, SubsetFoldOfSequence, Zenon
<1>4. P(f)
  <2>1. f \in [SUBSET (1 .. Len(q)) -> S] /\ f = SubsetStep(F, b, q, f)
    BY <1>3 DEF IsFold
  <2>2. ASSUME NEW s \in SUBSET (1 .. Len(q)), s # {}
        PROVE  f[s] = Process(f[s \ {Max(s)}], c)
    <3>1. Max(s) \in 1 .. Len(q)
      BY <1>2, <2>2, MaxOfPositions
    <3>2. q[Max(s)] \in M
      BY <3>1
    <3>a. f[s \ {Max(s)}] \in S
      <4>1. s \ {Max(s)} \in SUBSET (1 .. Len(q))
        OBVIOUS
      <4> QED BY <2>1, <4>1
    <3>3. f[s] = F[<<f[s \ {Max(s)}], q[Max(s)]>>]
      BY <2>1, <2>2 DEF SubsetStep
    <3> QED BY <1>0, <3>2, <3>a, <3>3, Zenon
  <2>3. f[{}] = b
    BY <2>1 DEF SubsetStep
  <2>4. f = [s \in SUBSET (1 .. Len(q)) |-> f[s]]
    BY <2>1
  <2> QED BY <1>2, <2>2, <2>3, <2>4, Zenon
<1>5. P(CHOOSE g : P(g))
  <2> HIDE DEF P
  <2> QED BY <1>4, Zenon
<1> DEFINE g == CHOOSE g : P(g)
<1>6. /\ g[{}] = b
      /\ \A s \in SUBSET (1 .. Len(q)) : s # {} =>
            g[s] = Process(g[s \ {Max(s)}], c)
  BY <1>2, <1>5
<1> HIDE DEF g
<1>7. SolvesFold(g, S, F, b, q)
  <2> SUFFICES ASSUME NEW s \in SUBSET (1 .. Len(q)), s # {}, g[s \ {Max(s)}] \in S
               PROVE  g[s] = F[<<g[s \ {Max(s)}], q[Max(s)]>>]
    BY <1>6, Zenon DEF SolvesFold
  <2>1. Max(s) \in 1 .. Len(q)
    BY <1>2, MaxOfPositions
  <2>2. q[Max(s)] \in M
    BY <2>1
  <2>3. g[s] = Process(g[s \ {Max(s)}], c)
    BY <1>6
  <2> QED BY <1>0, <2>2, <2>3, Zenon
<1>8. Gives(g, F, b, q)
  BY <1>0, <1>7, FoldIsResult
<1> QED BY <1>1, <1>2, <1>8 DEF g, Gives, F

(* So the fold stays there, too, ... *)
LEMMA ProcessStays ==
  ASSUME NEW c, NEW S, NEW M, ProcessKeeps(S, M, c), NEW b \in S, NEW q \in Seq(M)
  PROVE  ProcessAll(b, q, c) \in S
<1>1. Stays(ProcessStep(S, M, c), S, M)
  BY ProcessStepType
<1>2. ProcessAll(b, q, c) = Result(ProcessStep(S, M, c), b, q)
  BY ProcessFold
<1> HIDE DEF ProcessStep
<1>3. Result(ProcessStep(S, M, c), b, q) \in S
  BY <1>1, ResultType
<1> QED BY <1>2, <1>3

-----------------------------------------------------------------------------
(* The lists of the clients that wait.                                     *)
Queues == [Keys -> Seq(Clients)]

(* Client c is n times more in the list of a key, and n times less, if the *)
(* key is n times among the first i of q.                                  *)
Added(x, b, c, q, i) ==
  \A k \in Keys, d \in Clients :
    Count(x[k], d) = IF d = c THEN Count(b[k], d) + Cardinality(Places(q, i, k)) ELSE Count(b[k], d)
Removed(x, b, c, q, i) ==
  \A k \in Keys, d \in Clients :
    Count(x[k], d) = IF d = c THEN Count(b[k], d) - Cardinality(Places(q, i, k)) ELSE Count(b[k], d)

(* Nothing is among the first 0. *)
LEMMA NoPlaces ==
  ASSUME NEW q, NEW e
  PROVE  Cardinality(Places(q, 0, e)) = 0
<1>1. Places(q, 0, e) = {}
  BY DEF Places
<1> QED BY <1>1, FS_EmptySet

(* A list with a client more. *)
LEMMA BlockKeyAdds ==
  ASSUME NEW c \in Clients, NEW b \in Queues, NEW q \in Seq(Keys), NEW x \in Queues,
         NEW i \in Nat, NEW j, j = i + 1, j \in 1 .. Len(q), Added(x, b, c, q, i)
  PROVE  Added(BlockKey(x, q[j], c), b, c, q, j)
<1> DEFINE y == BlockKey(x, q[j], c)
<1>1. q[j] \in Keys
  OBVIOUS
<1> SUFFICES ASSUME NEW k \in Keys, NEW d \in Clients
             PROVE  Count(y[k], d) = IF d = c THEN Count(b[k], d) + Cardinality(Places(q, j, k)) ELSE Count(b[k], d)
  BY DEF Added
<1>2. Count(x[k], d) = IF d = c THEN Count(b[k], d) + Cardinality(Places(q, i, k)) ELSE Count(b[k], d)
  BY DEF Added
<1>3. Cardinality(Places(q, j, k))
        = IF q[j] = k THEN Cardinality(Places(q, i, k)) + 1 ELSE Cardinality(Places(q, i, k))
  BY OnePlaceMore
<1>4. x[k] \in Seq(Clients) /\ b[k] \in Seq(Clients)
  BY DEF Queues
<1>5. Count(x[k], d) \in Nat /\ Count(b[k], d) \in Nat /\ Cardinality(Places(q, i, k)) \in Nat
  BY <1>4, CountIs, PlacesFinite
<1>6. CASE q[j] = k
  <2>1. y[k] = Append(x[k], c)
    BY <1>6 DEF Queues, BlockKey
  <2>2. Count(y[k], d) = IF c = d THEN Count(x[k], d) + 1 ELSE Count(x[k], d)
    BY <1>4, <2>1, CountAppend
  <2> HIDE DEF y
  <2> QED BY <1>2, <1>3, <1>5, <1>6, <2>2
<1>7. CASE q[j] # k
  <2>1. y[k] = x[k]
    BY <1>7 DEF Queues, BlockKey
  <2> HIDE DEF y
  <2> QED BY <1>2, <1>3, <1>7, <2>1
<1> QED BY <1>6, <1>7

(* A client that blocks is added to the list of each of its keys. *)
LEMMA BlockAllAdds ==
  ASSUME NEW c \in Clients, NEW b \in Queues, NEW q \in Seq(Keys)
  PROVE  BlockAll(b, q, c) \in Queues /\ Added(BlockAll(b, q, c), b, c, q, Len(q))
<1>1. BlockKeeps(Queues, Keys, c)
  BY DEF BlockKeeps, BlockKey, Queues
<1>2. BlockAll(b, q, c) \in Queues
  BY <1>1, BlockStays
<1> DEFINE T == { p \in Nat \X Queues : Added(p[2], b, c, q, p[1]) }
<1>3. <<0, b>> \in T
  <2>1. Added(b, b, c, q, 0)
    <3> SUFFICES ASSUME NEW k \in Keys, NEW d \in Clients
                 PROVE  Count(b[k], d) = IF d = c THEN Count(b[k], d) + Cardinality(Places(q, 0, k)) ELSE Count(b[k], d)
      BY DEF Added
    <3>1. b[k] \in Seq(Clients)
      BY DEF Queues
    <3> QED BY <3>1, CountIs, NoPlaces
  <2> QED BY <2>1
<1>4. BlockInductive(T, Queues, q, c)
  <2> SUFFICES ASSUME NEW i \in 0 .. Len(q) - 1, NEW x \in Queues, <<i, x>> \in T
               PROVE  <<i + 1, BlockKey(x, q[i + 1], c)>> \in T
    BY DEF BlockInductive
  <2>1. i \in Nat /\ i + 1 \in 1 .. Len(q) /\ Added(x, b, c, q, i) /\ i + 1 \in Nat
    OBVIOUS
  <2>2. Added(BlockKey(x, q[i + 1], c), b, c, q, i + 1)
    BY <2>1, BlockKeyAdds
  <2>3. q[i + 1] \in Keys
    BY <2>1
  <2>4. BlockKey(x, q[i + 1], c) \in Queues
    BY <1>1, <2>3 DEF BlockKeeps
  <2> QED BY <2>1, <2>2, <2>4
<1> HIDE DEF T
<1>5. <<Len(q), BlockAll(b, q, c)>> \in T
  BY <1>1, <1>3, <1>4, BlockInduct
<1> QED BY <1>2, <1>5 DEF T

(* A list without the client, which must be in it. *)
LEMMA UnblockKeyRemoves ==
  ASSUME NEW c \in Clients, NEW b \in Queues, NEW q \in Seq(Keys), NEW x \in Queues,
         NEW i \in Nat, NEW j, j = i + 1, j \in 1 .. Len(q), Removed(x, b, c, q, i),
         \A k \in Keys : Count(b[k], c) = Count(q, k)
  PROVE  Removed(UnblockKey(x, q[j], c), b, c, q, j)
<1> DEFINE y == UnblockKey(x, q[j], c)
<1>1. q[j] \in Keys
  OBVIOUS
<1> SUFFICES ASSUME NEW k \in Keys, NEW d \in Clients
             PROVE  Count(y[k], d) = IF d = c THEN Count(b[k], d) - Cardinality(Places(q, j, k)) ELSE Count(b[k], d)
  BY DEF Removed
<1>2. Count(x[k], d) = IF d = c THEN Count(b[k], d) - Cardinality(Places(q, i, k)) ELSE Count(b[k], d)
  BY DEF Removed
<1>3. Cardinality(Places(q, j, k))
        = IF q[j] = k THEN Cardinality(Places(q, i, k)) + 1 ELSE Cardinality(Places(q, i, k))
  BY OnePlaceMore
<1>4. x[k] \in Seq(Clients) /\ b[k] \in Seq(Clients)
  BY DEF Queues
<1>5. Count(x[k], d) \in Nat /\ Count(b[k], d) \in Nat /\ Cardinality(Places(q, i, k)) \in Nat
  BY <1>4, CountIs, PlacesFinite
<1>6. CASE q[j] = k
  <2>1. y[k] = RemoveFirst(x[k], c)
    BY <1>6 DEF Queues, UnblockKey
  <2>2. Cardinality(Places(q, j, k)) <= Count(q, k)
    <3>1. Places(q, j, k) \in SUBSET Places(q, Len(q), k)
      BY DEF Places
    <3>2. Len(q) \in Nat /\ IsFiniteSet(Places(q, Len(q), k))
      BY PlacesFinite
    <3>3. Cardinality(Places(q, j, k)) <= Cardinality(Places(q, Len(q), k))
      BY <3>1, <3>2, FS_Subset
    <3> QED BY <3>3, CountIs
  <2>3. Count(x[k], c) = Count(b[k], c) - Cardinality(Places(q, i, k))
    BY DEF Removed
  <2>4. Count(b[k], c) = Count(q, k) /\ Count(q, k) \in Nat
    BY CountIs
  <2>5. Count(x[k], c) # 0
    BY <1>3, <1>5, <1>6, <2>2, <2>3, <2>4
  <2>6. c \in ToSet(x[k])
    BY <1>4, <2>5, CountZero
  <2>7. Count(y[k], d) = IF c = d THEN Count(x[k], d) - 1 ELSE Count(x[k], d)
    BY <1>4, <2>1, <2>6, CountRemoveFirst
  <2> HIDE DEF y
  <2> QED BY <1>2, <1>3, <1>5, <1>6, <2>7
<1>7. CASE q[j] # k
  <2>1. y[k] = x[k]
    BY <1>7 DEF Queues, UnblockKey
  <2> HIDE DEF y
  <2> QED BY <1>2, <1>3, <1>7, <2>1
<1> QED BY <1>6, <1>7

(* A client that is unblocked is removed from the list of each of its      *)
(* keys.                                                                   *)
LEMMA UnblockAllRemoves ==
  ASSUME NEW c \in Clients, NEW b \in Queues, NEW q \in Seq(Keys),
         \A k \in Keys : Count(b[k], c) = Count(q, k)
  PROVE  UnblockAll(b, q, c) \in Queues /\ Removed(UnblockAll(b, q, c), b, c, q, Len(q))
<1>1. UnblockKeeps(Queues, Keys, c)
  <2> SUFFICES ASSUME NEW x \in Queues, NEW k \in Keys PROVE UnblockKey(x, k, c) \in Queues
    BY DEF UnblockKeeps
  <2>1. x[k] \in Seq(Clients)
    BY DEF Queues
  <2>2. RemoveFirst(x[k], c) \in Seq(Clients)
    BY <2>1, RemoveFirstSkips
  <2> QED BY <2>2 DEF UnblockKey, Queues
<1>2. UnblockAll(b, q, c) \in Queues
  BY <1>1, UnblockStays
<1> DEFINE T == { p \in Nat \X Queues : Removed(p[2], b, c, q, p[1]) }
<1>3. <<0, b>> \in T
  <2>1. Removed(b, b, c, q, 0)
    <3> SUFFICES ASSUME NEW k \in Keys, NEW d \in Clients
                 PROVE  Count(b[k], d) = IF d = c THEN Count(b[k], d) - Cardinality(Places(q, 0, k)) ELSE Count(b[k], d)
      BY DEF Removed
    <3>1. b[k] \in Seq(Clients)
      BY DEF Queues
    <3> QED BY <3>1, CountIs, NoPlaces
  <2> QED BY <2>1
<1>4. UnblockInductive(T, Queues, q, c)
  <2> SUFFICES ASSUME NEW i \in 0 .. Len(q) - 1, NEW x \in Queues, <<i, x>> \in T
               PROVE  <<i + 1, UnblockKey(x, q[i + 1], c)>> \in T
    BY DEF UnblockInductive
  <2>1. i \in Nat /\ i + 1 \in 1 .. Len(q) /\ Removed(x, b, c, q, i) /\ i + 1 \in Nat
    OBVIOUS
  <2>2. Removed(UnblockKey(x, q[i + 1], c), b, c, q, i + 1)
    BY <2>1, UnblockKeyRemoves
  <2>3. q[i + 1] \in Keys
    BY <2>1
  <2>4. UnblockKey(x, q[i + 1], c) \in Queues
    BY <1>1, <2>3 DEF UnblockKeeps
  <2> QED BY <2>1, <2>2, <2>4
<1> HIDE DEF T
<1>5. <<Len(q), UnblockAll(b, q, c)>> \in T
  BY <1>1, <1>3, <1>4, UnblockInduct
<1> QED BY <1>2, <1>5 DEF T

-----------------------------------------------------------------------------
(* The server.                                                             *)
DictSet == [Keys -> Seq(Nat)]
Waits == Requests \cup {NotBlocked}

SrvSet ==
  [dict : DictSet, blocking_keys : Queues, bpop : [Clients -> Waits],
   BLOCKED : SUBSET Clients, UNBLOCKED : SUBSET Clients, unblocked_clients : Seq(Clients),
   bpop_blocked_clients : Int, clients : SUBSET Clients, querybuf : [Clients -> Seq(Requests)],
   read : SUBSET Clients, at : {"events", "before_sleep", "aborted"},
   slave : DictSet, live : SUBSET Nat, renamed : SUBSET Keys, again : SUBSET Clients]

SameData(s, t) == t.dict = s.dict /\ t.slave = s.slave /\ t.live = s.live /\ t.renamed = s.renamed
SameClients(s, t) == t.clients = s.clients /\ t.querybuf = s.querybuf /\ t.read = s.read /\ t.at = s.at
SameQueues(s, t) ==
  /\ t.blocking_keys = s.blocking_keys /\ t.bpop = s.bpop /\ t.BLOCKED = s.BLOCKED
  /\ t.bpop_blocked_clients = s.bpop_blocked_clients
SamePending(s, t) == t.UNBLOCKED = s.UNBLOCKED /\ t.unblocked_clients = s.unblocked_clients /\ t.again = s.again

Waiting(w, c, r) == [w EXCEPT ![c] = r]

(* What a client waits for is a sequence of keys, and it is none only if   *)
(* the client is not blocked.                                              *)
LEMMA WaitsHaveKeys ==
  ASSUME BlockingAssumption, NEW r \in Waits
  PROVE  /\ r.keys \in Seq(Keys) /\ r.target \in Keys \cup {None}
         /\ r.keys # <<>> <=> r # NotBlocked
         /\ r # NotBlocked => r \in Requests
<1>1. CASE r \in Requests
  <2>1. r \in RequestSet /\ r.keys # <<>>
    BY <1>1 DEF BlockingAssumption
  <2>2. r # NotBlocked
    BY <2>1 DEF NotBlocked
  <2> QED BY <1>1, <2>1, <2>2 DEF RequestSet
<1>2. CASE r = NotBlocked
  BY <1>2 DEF NotBlocked
<1> QED BY <1>1, <1>2 DEF Waits

(* blockForKeys: what it changes. *)
BlockChanges(s, t, c, req) ==
  /\ t.blocking_keys = BlockAll(s.blocking_keys, req.keys, c)
  /\ t.bpop = Waiting(s.bpop, c, req)
  /\ t.BLOCKED = s.BLOCKED \cup {c} /\ t.bpop_blocked_clients = s.bpop_blocked_clients + 1
  /\ t.UNBLOCKED = s.UNBLOCKED /\ t.unblocked_clients = s.unblocked_clients
  /\ t.again = s.again \cup ({c} \cap s.UNBLOCKED)

(* blockForKeys makes these changes and no others. *)
LEMMA BlockFields ==
  ASSUME BlockingAssumption, NEW s \in SrvSet, NEW c \in Clients, NEW req \in Requests
  PROVE  /\ blockForKeys(s, c, req) \in SrvSet
         /\ BlockChanges(s, blockForKeys(s, c, req), c, req)
         /\ SameData(s, blockForKeys(s, c, req)) /\ SameClients(s, blockForKeys(s, c, req))
<1> DEFINE B == BlockAll(s.blocking_keys, req.keys, c)
           W == Waiting(s.bpop, c, req)
           t == [s EXCEPT !.bpop = W, !.blocking_keys = B, !.BLOCKED = @ \cup {c},
                          !.bpop_blocked_clients = @ + 1, !.again = @ \cup ({c} \cap s.UNBLOCKED)]
<1>1. blockForKeys(s, c, req) = t
  BY Zenon DEF blockForKeys, BlockAll, Waiting
<1>2. req.keys \in Seq(Keys) /\ req \in Waits
  BY DEF BlockingAssumption, RequestSet, Waits
<1>3. s.blocking_keys \in Queues
  BY DEF SrvSet
<1>4. B \in Queues
  BY <1>2, <1>3, BlockAllAdds
<1>5. W \in [Clients -> Waits]
  BY <1>2 DEF Waiting, SrvSet
<1> HIDE DEF B, W
<1>6. t \in SrvSet
  <2> DEFINE D == s.BLOCKED \cup {c}
             n == s.bpop_blocked_clients + 1
             A == s.again \cup ({c} \cap s.UNBLOCKED)
  <2>1. D \in SUBSET Clients /\ n \in Int /\ A \in SUBSET Clients
    BY DEF SrvSet
  <2>2. t = [s EXCEPT !.bpop = W, !.blocking_keys = B, !.BLOCKED = D, !.bpop_blocked_clients = n, !.again = A]
    OBVIOUS
  <2> HIDE DEF D, n, A, t
  <2> QED BY <1>4, <1>5, <2>1, <2>2 DEF SrvSet
<1>7. /\ t.bpop = W /\ t.blocking_keys = B /\ t.BLOCKED = s.BLOCKED \cup {c}
      /\ t.bpop_blocked_clients = s.bpop_blocked_clients + 1 /\ t.again = s.again \cup ({c} \cap s.UNBLOCKED)
      /\ t.UNBLOCKED = s.UNBLOCKED /\ t.unblocked_clients = s.unblocked_clients
      /\ SameData(s, t) /\ SameClients(s, t)
  BY DEF SrvSet, SameData, SameClients
<1> HIDE DEF t
<1> QED BY <1>1, <1>6, <1>7 DEF BlockChanges, B, W

(* unblockClientWaitingData: what it changes. *)
UnblockChanges(s, t, c) ==
  /\ t.blocking_keys = UnblockAll(s.blocking_keys, s.bpop[c].keys, c)
  /\ t.bpop = Waiting(s.bpop, c, NotBlocked)
  /\ t.BLOCKED = s.BLOCKED \ {c} /\ t.bpop_blocked_clients = s.bpop_blocked_clients - 1
  /\ t.UNBLOCKED = s.UNBLOCKED \cup {c} /\ t.unblocked_clients = Append(s.unblocked_clients, c)
  /\ t.again = s.again

(* The lists of the keys are those of the clients. *)
Lists(b, w) == \A c \in Clients : \A k \in Keys : Count(b[k], c) = Count(w[c].keys, k)

(* unblockClientWaitingData makes these changes and no others. *)
LEMMA UnblockFields ==
  ASSUME BlockingAssumption, NEW s \in SrvSet, NEW c \in Clients, Lists(s.blocking_keys, s.bpop)
  PROVE  /\ unblockClientWaitingData(s, c) \in SrvSet
         /\ UnblockChanges(s, unblockClientWaitingData(s, c), c)
         /\ SameData(s, unblockClientWaitingData(s, c)) /\ SameClients(s, unblockClientWaitingData(s, c))
<1> DEFINE B == UnblockAll(s.blocking_keys, s.bpop[c].keys, c)
           W == Waiting(s.bpop, c, NotBlocked)
           t == [s EXCEPT !.blocking_keys = B, !.bpop = W, !.BLOCKED = @ \ {c}, !.UNBLOCKED = @ \cup {c},
                          !.bpop_blocked_clients = @ - 1, !.unblocked_clients = Append(@, c)]
<1>1. unblockClientWaitingData(s, c) = t
  BY Zenon DEF unblockClientWaitingData, UnblockAll, Waiting
<1>2. s.bpop[c] \in Waits /\ s.bpop[c].keys \in Seq(Keys)
  <2>1. s.bpop[c] \in Waits
    BY DEF SrvSet
  <2> QED BY <2>1, WaitsHaveKeys
<1>3. s.blocking_keys \in Queues
  BY DEF SrvSet
<1>4. B \in Queues
  <2>1. \A k \in Keys : Count(s.blocking_keys[k], c) = Count(s.bpop[c].keys, k)
    BY DEF Lists
  <2> QED BY <1>2, <1>3, <2>1, UnblockAllRemoves
<1>5. W \in [Clients -> Waits]
  BY DEF Waiting, SrvSet, Waits
<1> HIDE DEF B, W
<1>6. t \in SrvSet
  <2> DEFINE D == s.BLOCKED \ {c}
             n == s.bpop_blocked_clients - 1
             A == s.UNBLOCKED \cup {c}
             u == Append(s.unblocked_clients, c)
  <2>1. D \in SUBSET Clients /\ n \in Int /\ A \in SUBSET Clients
    BY DEF SrvSet
  <2>2. u \in Seq(Clients)
    BY DEF SrvSet
  <2>3. t = [s EXCEPT !.blocking_keys = B, !.bpop = W, !.BLOCKED = D, !.UNBLOCKED = A,
                      !.bpop_blocked_clients = n, !.unblocked_clients = u]
    OBVIOUS
  <2> HIDE DEF D, n, A, t, u
  <2> QED BY <1>4, <1>5, <2>1, <2>2, <2>3 DEF SrvSet
<1>7. /\ t.bpop = W /\ t.blocking_keys = B /\ t.BLOCKED = s.BLOCKED \ {c}
      /\ t.bpop_blocked_clients = s.bpop_blocked_clients - 1 /\ t.again = s.again
      /\ t.UNBLOCKED = s.UNBLOCKED \cup {c} /\ t.unblocked_clients = Append(s.unblocked_clients, c)
      /\ SameData(s, t) /\ SameClients(s, t)
  BY DEF SrvSet, SameData, SameClients
<1> HIDE DEF t
<1> QED BY <1>1, <1>6, <1>7 DEF UnblockChanges, B, W

(* A client that did not wait is added to the lists of the keys it waits   *)
(* for.                                                                    *)
LEMMA ListsBlock ==
  ASSUME BlockingAssumption, NEW b \in Queues, NEW w \in [Clients -> Waits], Lists(b, w),
         NEW c \in Clients, w[c] = NotBlocked, NEW req \in Requests
  PROVE  Lists(BlockAll(b, req.keys, c), Waiting(w, c, req))
<1> DEFINE x == BlockAll(b, req.keys, c)
           q == req.keys
<1>1. q \in Seq(Keys)
  BY DEF BlockingAssumption, RequestSet
<1>2. Added(x, b, c, q, Len(q))
  BY <1>1, BlockAllAdds
<1> SUFFICES ASSUME NEW d \in Clients, NEW k \in Keys
             PROVE  Count(x[k], d) = Count(Waiting(w, c, req)[d].keys, k)
  BY DEF Lists
<1>3. Count(x[k], d) = IF d = c THEN Count(b[k], d) + Cardinality(Places(q, Len(q), k)) ELSE Count(b[k], d)
  BY <1>2 DEF Added
<1>4. Count(q, k) = Cardinality(Places(q, Len(q), k)) /\ Count(q, k) \in Nat
  BY <1>1, CountIs
<1>5. Count(b[k], d) = Count(w[d].keys, k)
  BY DEF Lists
<1> HIDE DEF x
<1>6. CASE d = c
  <2>1. Waiting(w, c, req)[d].keys = q
    BY <1>6 DEF Waiting
  <2>2. Count(w[d].keys, k) = 0
    BY <1>6, CountEmpty DEF NotBlocked
  <2> QED BY <1>3, <1>4, <1>5, <1>6, <2>1, <2>2
<1>7. CASE d # c
  <2>1. Waiting(w, c, req)[d] = w[d]
    BY <1>7 DEF Waiting
  <2> QED BY <1>3, <1>5, <1>7, <2>1
<1> QED BY <1>6, <1>7

(* A client is removed from the lists of the keys it waited for. *)
LEMMA ListsUnblock ==
  ASSUME BlockingAssumption, NEW b \in Queues, NEW w \in [Clients -> Waits], Lists(b, w), NEW c \in Clients
  PROVE  Lists(UnblockAll(b, w[c].keys, c), Waiting(w, c, NotBlocked))
<1> DEFINE q == w[c].keys
           x == UnblockAll(b, q, c)
<1>1. q \in Seq(Keys)
  BY WaitsHaveKeys
<1>2. \A k \in Keys : Count(b[k], c) = Count(q, k)
  BY DEF Lists
<1>3. Removed(x, b, c, q, Len(q))
  BY <1>1, <1>2, UnblockAllRemoves
<1> SUFFICES ASSUME NEW d \in Clients, NEW k \in Keys
             PROVE  Count(x[k], d) = Count(Waiting(w, c, NotBlocked)[d].keys, k)
  BY DEF Lists
<1>4. Count(x[k], d) = IF d = c THEN Count(b[k], d) - Cardinality(Places(q, Len(q), k)) ELSE Count(b[k], d)
  BY <1>3 DEF Removed
<1>5. Count(q, k) = Cardinality(Places(q, Len(q), k)) /\ Count(q, k) \in Nat
  BY <1>1, CountIs
<1>6. Count(b[k], d) = Count(w[d].keys, k)
  BY DEF Lists
<1> HIDE DEF x
<1>7. CASE d = c
  <2>1. Waiting(w, c, NotBlocked)[d].keys = <<>>
    BY <1>7 DEF Waiting, NotBlocked
  <2>2. Count(<<>>, k) = 0
    BY CountEmpty
  <2> QED BY <1>4, <1>5, <1>6, <1>7, <2>1, <2>2
<1>8. CASE d # c
  <2>1. Waiting(w, c, NotBlocked)[d] = w[d]
    BY <1>8 DEF Waiting
  <2> QED BY <1>4, <1>6, <1>8, <2>1
<1> QED BY <1>7, <1>8

(* A list that nobody was in stays empty. *)
LEMMA EmptyStaysEmpty ==
  ASSUME BlockingAssumption, NEW b \in Queues, NEW w \in [Clients -> Waits], Lists(b, w), NEW c \in Clients,
         NEW k \in Keys, b[k] = <<>>
  PROVE  UnblockAll(b, w[c].keys, c)[k] = <<>>
<1> DEFINE q == w[c].keys
           x == UnblockAll(b, q, c)
<1>1. q \in Seq(Keys)
  BY WaitsHaveKeys
<1>2. \A l \in Keys : Count(b[l], c) = Count(q, l)
  BY DEF Lists
<1>3. x \in Queues /\ Removed(x, b, c, q, Len(q))
  BY <1>1, <1>2, UnblockAllRemoves
<1> HIDE DEF x
<1>4. x[k] \in Seq(Clients)
  BY <1>3 DEF Queues
<1>5. ASSUME NEW d \in Clients PROVE d \notin ToSet(x[k])
  <2>1. Count(x[k], d) = IF d = c THEN Count(b[k], d) - Cardinality(Places(q, Len(q), k)) ELSE Count(b[k], d)
    BY <1>3 DEF Removed
  <2>2. Count(b[k], d) = 0
    BY CountEmpty
  <2>3. Cardinality(Places(q, Len(q), k)) \in Nat /\ Count(x[k], d) \in Nat
    BY <1>1, <1>4, PlacesFinite, CountIs
  <2>4. Count(x[k], d) = 0
    BY <2>1, <2>2, <2>3
  <2> QED BY <1>4, <2>4, CountZero
<1>6. x[k] = <<>>
  <2>1. \A i \in 1 .. Len(x[k]) : x[k][i] \in Clients /\ x[k][i] \in ToSet(x[k])
    BY <1>4 DEF ToSet
  <2>2. Len(x[k]) = 0
    <3>1. SUFFICES ASSUME Len(x[k]) # 0 PROVE FALSE
      OBVIOUS
    <3>2. 1 \in 1 .. Len(x[k])
      BY <1>4, <3>1
    <3> QED BY <1>5, <2>1, <3>2
  <2> QED BY <1>4, <2>2
<1> QED BY <1>6 DEF x

-----------------------------------------------------------------------------
(* The clients that wait, the ones that have been unblocked, and the keys  *)
(* they wait for.                                                          *)
QueuesSound(s) ==
  /\ Lists(s.blocking_keys, s.bpop)
  /\ s.BLOCKED = { c \in Clients : s.bpop[c] # NotBlocked }
  /\ s.BLOCKED \subseteq s.clients
  /\ s.bpop_blocked_clients = Cardinality(s.BLOCKED)

(* A client that is twice in u is in A. *)
Repeats(u, A) == \A i, j \in 1 .. Len(u) : i # j /\ u[i] = u[j] => u[i] \in A

PendingSound(s) ==
  /\ s.UNBLOCKED \subseteq ToSet(s.unblocked_clients) /\ s.UNBLOCKED \subseteq s.clients
  /\ ToSet(s.unblocked_clients) \subseteq s.again \cup s.UNBLOCKED
  /\ Repeats(s.unblocked_clients, s.again)
  /\ s.BLOCKED \cap s.UNBLOCKED \subseteq s.again

WaitersSound(s) ==
  \A k \in Keys : IsList(s.dict[k]) => k \in s.renamed \/ s.blocking_keys[k] = <<>>

(* The clients of a server are finitely many. *)
LEMMA ClientsFinite ==
  ASSUME BlockingAssumption, NEW S \in SUBSET Clients
  PROVE  IsFiniteSet(S) /\ Cardinality(S) \in Nat /\ Cardinality(S) <= Cardinality(Clients) /\ Cardinality(Clients) \in Nat
  BY FS_Subset, FS_CardinalityType DEF BlockingAssumption

(* blockForKeys of a client that is not blocked preserves the queues, ... *)
LEMMA BlockQueues ==
  ASSUME BlockingAssumption, NEW s \in SrvSet, NEW t \in SrvSet, NEW c \in Clients, NEW req \in Requests,
         BlockChanges(s, t, c, req), SameClients(s, t), c \in s.clients, c \notin s.BLOCKED, QueuesSound(s)
  PROVE  QueuesSound(t)
<1>1. s.blocking_keys \in Queues /\ s.bpop \in [Clients -> Waits] /\ s.BLOCKED \in SUBSET Clients
  BY DEF SrvSet
<1>2. s.bpop[c] = NotBlocked
  BY DEF QueuesSound
<1>3. Lists(t.blocking_keys, t.bpop)
  BY <1>1, <1>2, ListsBlock DEF QueuesSound, BlockChanges
<1>4. t.BLOCKED = { d \in Clients : t.bpop[d] # NotBlocked }
  <2>1. req # NotBlocked
    <3>1. req \in Waits /\ req.keys # <<>>
      BY DEF BlockingAssumption, Waits
    <3> QED BY <3>1, WaitsHaveKeys
  <2>2. \A d \in Clients : t.bpop[d] = IF d = c THEN req ELSE s.bpop[d]
    BY <1>1 DEF BlockChanges, Waiting
  <2>3. t.BLOCKED = s.BLOCKED \cup {c}
    BY DEF BlockChanges
  <2> QED BY <2>1, <2>2, <2>3 DEF QueuesSound
<1>5. t.BLOCKED \subseteq t.clients
  BY DEF QueuesSound, BlockChanges, SameClients
<1>6. t.bpop_blocked_clients = Cardinality(t.BLOCKED)
  <2>1. IsFiniteSet(s.BLOCKED)
    BY <1>1, ClientsFinite
  <2>2. Cardinality(s.BLOCKED \cup {c}) = Cardinality(s.BLOCKED) + 1
    BY <2>1, FS_AddElement
  <2> QED BY <2>2 DEF BlockChanges, QueuesSound
<1> QED BY <1>3, <1>4, <1>5, <1>6 DEF QueuesSound

(* ... and the list of the unblocked ones, ... *)
LEMMA BlockPending ==
  ASSUME NEW s \in SrvSet, NEW t \in SrvSet, NEW c \in Clients, NEW req \in Requests,
         BlockChanges(s, t, c, req), SameClients(s, t), PendingSound(s)
  PROVE  PendingSound(t)
<1>1. Repeats(t.unblocked_clients, t.again)
  BY DEF PendingSound, BlockChanges, Repeats
<1> QED BY <1>1 DEF PendingSound, BlockChanges, SameClients

(* ... and that who waits does so for keys without a list. *)
LEMMA BlockWaiters ==
  ASSUME BlockingAssumption, NEW s \in SrvSet, NEW t \in SrvSet, NEW c \in Clients, NEW req \in Requests,
         BlockChanges(s, t, c, req), SameData(s, t), WaitersSound(s),
         \A i \in 1 .. Len(req.keys) : s.dict[req.keys[i]] = <<>>
  PROVE  WaitersSound(t)
<1>1. req.keys \in Seq(Keys) /\ s.blocking_keys \in Queues
  BY DEF BlockingAssumption, RequestSet, SrvSet
<1> SUFFICES ASSUME NEW k \in Keys, IsList(t.dict[k]), k \notin t.renamed PROVE t.blocking_keys[k] = <<>>
  BY DEF WaitersSound
<1>2. IsList(s.dict[k]) /\ k \notin s.renamed
  BY DEF SameData
<1>3. s.blocking_keys[k] = <<>>
  BY <1>2 DEF WaitersSound
<1>4. t.blocking_keys = BlockAll(s.blocking_keys, req.keys, c)
  BY DEF BlockChanges
<1>5. t.blocking_keys \in Queues /\ Added(t.blocking_keys, s.blocking_keys, c, req.keys, Len(req.keys))
  BY <1>1, <1>4, BlockAllAdds
<1>6. t.blocking_keys[k] \in Seq(Clients)
  BY <1>5 DEF Queues
<1>7. k \notin ToSet(req.keys)
  BY <1>1, <1>2 DEF ToSet, IsList
<1>8. ASSUME NEW d \in Clients PROVE d \notin ToSet(t.blocking_keys[k])
  <2>1. Count(t.blocking_keys[k], d)
          = IF d = c THEN Count(s.blocking_keys[k], d) + Cardinality(Places(req.keys, Len(req.keys), k))
                     ELSE Count(s.blocking_keys[k], d)
    BY <1>5 DEF Added
  <2>2. Count(s.blocking_keys[k], d) = 0
    BY <1>3, CountEmpty
  <2>3. Count(req.keys, k) = 0
    BY <1>1, <1>7, CountZero
  <2>4. Cardinality(Places(req.keys, Len(req.keys), k)) = 0
    BY <1>1, <2>3, CountIs
  <2>5. Count(t.blocking_keys[k], d) = 0
    BY <2>1, <2>2, <2>4
  <2> QED BY <1>6, <2>5, CountZero
<1> DEFINE z == t.blocking_keys[k]
<1>9. \A i \in 1 .. Len(z) : z[i] \in Clients /\ z[i] \in ToSet(z)
  BY <1>6 DEF ToSet
<1>10. Len(z) = 0
  <2>1. SUFFICES ASSUME Len(z) # 0 PROVE FALSE
    OBVIOUS
  <2>2. 1 \in 1 .. Len(z)
    BY <1>6, <2>1
  <2> QED BY <1>8, <1>9, <2>2
<1> QED BY <1>6, <1>10

(* unblockClientWaitingData of a client that waits preserves the queues    *)
(* and leaves one client less in them, ...                                 *)
LEMMA UnblockQueues ==
  ASSUME BlockingAssumption, NEW s \in SrvSet, NEW t \in SrvSet, NEW c \in Clients,
         UnblockChanges(s, t, c), SameClients(s, t), c \in s.BLOCKED, QueuesSound(s)
  PROVE  QueuesSound(t) /\ Cardinality(t.BLOCKED) = Cardinality(s.BLOCKED) - 1
<1>1. s.blocking_keys \in Queues /\ s.bpop \in [Clients -> Waits] /\ s.BLOCKED \in SUBSET Clients
  BY DEF SrvSet
<1>3. Lists(t.blocking_keys, t.bpop)
  BY <1>1, ListsUnblock DEF QueuesSound, UnblockChanges
<1>4. t.BLOCKED = { d \in Clients : t.bpop[d] # NotBlocked }
  <2>2. \A d \in Clients : t.bpop[d] = IF d = c THEN NotBlocked ELSE s.bpop[d]
    BY <1>1 DEF UnblockChanges, Waiting
  <2>3. t.BLOCKED = s.BLOCKED \ {c}
    BY DEF UnblockChanges
  <2> QED BY <2>2, <2>3 DEF QueuesSound
<1>5. t.BLOCKED \subseteq t.clients
  BY DEF QueuesSound, UnblockChanges, SameClients
<1>6. t.bpop_blocked_clients = Cardinality(t.BLOCKED) /\ Cardinality(t.BLOCKED) = Cardinality(s.BLOCKED) - 1
  <2>1. IsFiniteSet(s.BLOCKED)
    BY <1>1, ClientsFinite
  <2>2. Cardinality(s.BLOCKED \ {c}) = Cardinality(s.BLOCKED) - 1
    BY <2>1, FS_RemoveElement
  <2> QED BY <2>2 DEF UnblockChanges, QueuesSound
<1> QED BY <1>3, <1>4, <1>5, <1>6 DEF QueuesSound

(* ... and the list of the unblocked ones, on which it is a second time    *)
(* only if it has blocked again, ...                                       *)
LEMMA UnblockPending ==
  ASSUME NEW s \in SrvSet, NEW t \in SrvSet, NEW c \in Clients,
         UnblockChanges(s, t, c), SameClients(s, t), c \in s.BLOCKED, QueuesSound(s), PendingSound(s)
  PROVE  PendingSound(t)
<1> DEFINE u == s.unblocked_clients
           v == t.unblocked_clients
<1>1. u \in Seq(Clients) /\ v = Append(u, c)
  BY DEF SrvSet, UnblockChanges
<1>2. /\ v \in Seq(Clients) /\ Len(v) = Len(u) + 1 /\ v[Len(u) + 1] = c /\ Len(u) \in Nat
      /\ \A i \in 1 .. Len(u) : v[i] = u[i]
  BY <1>1
<1>3. ToSet(v) = ToSet(u) \cup {c}
  <2> HIDE DEF u, v
  <2>1. DOMAIN u = 1 .. Len(u) /\ DOMAIN v = 1 .. Len(u) + 1
    BY <1>1, <1>2
  <2>2. \A i \in 1 .. Len(u) + 1 : i \in 1 .. Len(u) \/ i = Len(u) + 1
    BY <1>2
  <2>3. \A i \in 1 .. Len(u) : i \in 1 .. Len(u) + 1
    BY <1>2
  <2>4. Len(u) + 1 \in 1 .. Len(u) + 1
    BY <1>2
  <2> QED BY <1>2, <2>1, <2>2, <2>3, <2>4 DEF ToSet
<1>4. c \in ToSet(u) => c \in s.again
  BY DEF PendingSound
<1>5. Repeats(v, s.again)
  <2> SUFFICES ASSUME NEW i \in 1 .. Len(v), NEW j \in 1 .. Len(v), i # j, v[i] = v[j] PROVE v[i] \in s.again
    BY DEF Repeats
  <2>1. \A n \in 1 .. Len(u) : u[n] \in ToSet(u)
    BY <1>1 DEF ToSet
  <2>2. Repeats(u, s.again)
    BY DEF PendingSound
  <2> HIDE DEF u, v
  <2>3. CASE i \in 1 .. Len(u) /\ j \in 1 .. Len(u)
    BY <1>2, <2>2, <2>3 DEF Repeats
  <2>4. CASE i = Len(u) + 1 /\ j \in 1 .. Len(u)
    BY <1>2, <1>4, <2>1, <2>4
  <2>5. CASE i \in 1 .. Len(u) /\ j = Len(u) + 1
    BY <1>2, <1>4, <2>1, <2>5
  <2>6. \A n \in 1 .. Len(v) : n \in 1 .. Len(u) \/ n = Len(u) + 1
    BY <1>2
  <2> QED BY <2>3, <2>4, <2>5, <2>6
<1>6. c \in s.clients
  BY DEF QueuesSound
<1>7. t.again = s.again /\ t.UNBLOCKED = s.UNBLOCKED \cup {c} /\ t.BLOCKED = s.BLOCKED \ {c} /\ t.clients = s.clients
  BY DEF UnblockChanges, SameClients
<1> QED BY <1>3, <1>5, <1>6, <1>7 DEF PendingSound

(* ... and that who waits does so for keys without a list. *)
LEMMA UnblockWaiters ==
  ASSUME BlockingAssumption, NEW s \in SrvSet, NEW t \in SrvSet, NEW c \in Clients,
         UnblockChanges(s, t, c), SameData(s, t), QueuesSound(s), WaitersSound(s)
  PROVE  /\ WaitersSound(t)
         /\ \A k \in Keys : s.blocking_keys[k] = <<>> => t.blocking_keys[k] = <<>>
<1>1. s.blocking_keys \in Queues /\ s.bpop \in [Clients -> Waits]
  BY DEF SrvSet
<1>2. t.blocking_keys = UnblockAll(s.blocking_keys, s.bpop[c].keys, c)
  BY DEF UnblockChanges
<1>3. \A k \in Keys : s.blocking_keys[k] = <<>> => t.blocking_keys[k] = <<>>
  BY <1>1, <1>2, EmptyStaysEmpty DEF QueuesSound
<1> QED BY <1>3 DEF WaitersSound, SameData

(* The first client in the list of a key is blocked. *)
LEMMA FirstIsBlocked ==
  ASSUME BlockingAssumption, NEW s \in SrvSet, QueuesSound(s), NEW k \in Keys, s.blocking_keys[k] # <<>>
  PROVE  /\ Head(s.blocking_keys[k]) \in s.BLOCKED /\ Head(s.blocking_keys[k]) \in Clients
         /\ s.bpop[Head(s.blocking_keys[k])] \in Requests
<1> DEFINE q == s.blocking_keys[k]
           c == Head(q)
<1>1. q \in Seq(Clients)
  BY DEF SrvSet, Queues
<1>2. c \in Clients /\ c \in ToSet(q)
  BY <1>1 DEF ToSet
<1>3. Count(q, c) # 0
  BY <1>1, <1>2, CountZero
<1>4. Count(s.bpop[c].keys, k) # 0
  BY <1>2, <1>3 DEF QueuesSound, Lists
<1>5. s.bpop[c] # NotBlocked
  <2>1. Count(<<>>, k) = 0
    BY CountEmpty
  <2> QED BY <1>4, <2>1 DEF NotBlocked
<1>6. s.bpop[c] \in Waits
  BY <1>2 DEF SrvSet
<1> QED BY <1>2, <1>5, <1>6 DEF QueuesSound, Waits

-----------------------------------------------------------------------------
(* The data, and a slave's copy of it.                                     *)
Put(d, k, v) == [d EXCEPT ![k] = v]

OpSet == [cmd : {"lpush", "lpop", "rpop", "del"}, key : Keys, elements : Seq(Nat)]
OpsNotAt(k) == { op \in OpSet : op.key # k }

(* One key gets another value. *)
LEMMA PutFacts ==
  ASSUME NEW d \in DictSet, NEW k \in Keys, NEW v \in Seq(Nat)
  PROVE  Put(d, k, v) \in DictSet /\ \A l \in Keys : Put(d, k, v)[l] = IF l = k THEN v ELSE d[l]
  BY DEF Put, DictSet

(* The reverse of a sequence is one of the same elements, ... *)
LEMMA ReverseType ==
  ASSUME NEW S, NEW p \in Seq(S)
  PROVE  Reverse(p) \in Seq(S) /\ Len(Reverse(p)) = Len(p) /\ \A i \in 1 .. Len(p) : Reverse(p)[i] = p[Len(p) - i + 1]
<1>1. Len(p) \in Nat
  OBVIOUS
<1>2. \A i \in 1 .. Len(p) : (Len(p) - i) + 1 \in 1 .. Len(p)
  BY <1>1
<1>3. \A i \in 1 .. Len(p) : p[(Len(p) - i) + 1] \in S
  BY <1>2
<1>4. [i \in 1 .. Len(p) |-> p[(Len(p) - i) + 1]] \in [1 .. Len(p) -> S]
  BY <1>3
<1> QED BY <1>1, <1>4 DEF Reverse

(* ... empty if the sequence is, ... *)
LEMMA ReverseEmpty ==
  ASSUME NEW v \in Seq(Nat)
  PROVE  Reverse(<<>>) \o v = v
<1>1. Reverse(<<>>) \in Seq(Nat) /\ Len(Reverse(<<>>)) = 0
  <2>1. <<>> \in Seq(Nat) /\ Len(<<>>) = 0
    OBVIOUS
  <2> QED BY <2>1, ReverseType
<1>2. Reverse(<<>>) = <<>>
  <2> DEFINE r == Reverse(<<>>)
  <2>1. r \in Seq(Nat) /\ Len(r) = 0
    BY <1>1
  <2> HIDE DEF r
  <2>2. r = <<>>
    BY <2>1
  <2> QED BY <2>2 DEF r
<1> QED BY <1>2, ConcatEmptySeq

(* ... and begins with the last element. *)
LEMMA ReverseAppend ==
  ASSUME NEW p \in Seq(Nat), NEW e \in Nat, NEW v \in Seq(Nat)
  PROVE  Reverse(Append(p, e)) \o v = <<e>> \o (Reverse(p) \o v)
<1> DEFINE a == Append(p, e)
           r == Reverse(a)
           w == Reverse(p)
<1>1. a \in Seq(Nat) /\ Len(a) = Len(p) + 1 /\ Len(p) \in Nat /\ a[Len(p) + 1] = e /\ \A i \in 1 .. Len(p) : a[i] = p[i]
  OBVIOUS
<1> HIDE DEF a
<1>2. r \in Seq(Nat) /\ Len(r) = Len(p) + 1 /\ \A i \in 1 .. Len(p) + 1 : r[i] = a[Len(p) + 1 - i + 1]
  BY <1>1, ReverseType
<1>3. w \in Seq(Nat) /\ Len(w) = Len(p) /\ \A i \in 1 .. Len(p) : w[i] = p[Len(p) - i + 1]
  BY ReverseType
<1> HIDE DEF r, w
<1> DEFINE x == <<e>> \o w
<1>4. x \in Seq(Nat) /\ Len(x) = Len(p) + 1 /\ \A i \in 1 .. Len(p) + 1 : x[i] = IF i = 1 THEN e ELSE w[i - 1]
  <2>1. <<e>> \in Seq(Nat) /\ Len(<<e>>) = 1 /\ <<e>>[1] = e
    OBVIOUS
  <2> HIDE DEF x
  <2>2. x \in Seq(Nat) /\ Len(x) = 1 + Len(w) /\ \A i \in 1 .. 1 + Len(w) : x[i] = IF i <= 1 THEN <<e>>[i] ELSE w[i - 1]
    BY <1>3, <2>1, ConcatProperties DEF x
  <2>3. ASSUME NEW i \in 1 .. Len(p) + 1 PROVE x[i] = IF i = 1 THEN e ELSE w[i - 1]
    <3>1. i \in 1 .. 1 + Len(w) /\ (i <= 1 <=> i = 1)
      BY <1>1, <1>3
    <3> QED BY <2>1, <2>2, <3>1
  <2> QED BY <1>1, <1>3, <2>2, <2>3
<1> HIDE DEF x
<1>5. ASSUME NEW i \in 1 .. Len(p) + 1 PROVE r[i] = x[i]
  <2>1. CASE i = 1
    <3>1. Len(p) + 1 - i + 1 = Len(p) + 1
      BY <1>1, <2>1
    <3> QED BY <1>1, <1>2, <1>4, <2>1, <3>1
  <2>2. CASE i # 1
    <3>1. i - 1 \in 1 .. Len(p) /\ Len(p) + 1 - i + 1 \in 1 .. Len(p) /\ Len(p) + 1 - i + 1 = Len(p) - (i - 1) + 1
      BY <1>1, <2>2
    <3>2. r[i] = a[Len(p) + 1 - i + 1]
      BY <1>2
    <3>3. a[Len(p) + 1 - i + 1] = p[Len(p) + 1 - i + 1]
      BY <1>1, <3>1
    <3>4. w[i - 1] = p[Len(p) - (i - 1) + 1]
      BY <1>3, <3>1
    <3>5. x[i] = w[i - 1]
      BY <1>4, <2>2
    <3> QED BY <3>1, <3>2, <3>3, <3>4, <3>5
  <2> QED BY <2>1, <2>2
<1>6. r = x
  BY <1>1, <1>2, <1>4, <1>5
<1>7. <<e>> \in Seq(Nat)
  OBVIOUS
<1>8. x \o v = <<e>> \o (w \o v)
  BY <1>3, <1>7, ConcatAssociative DEF x
<1> QED BY <1>6, <1>8 DEF r, w, a

(* What a push does to the data. *)
LEMMA LpushPuts ==
  ASSUME NEW d \in DictSet, NEW k \in Keys, NEW p \in Seq(Nat)
  PROVE  /\ Lpush(k, p) \in OpSet /\ Lpush(k, p).key = k
         /\ Reverse(p) \o d[k] \in Seq(Nat)
         /\ Replayed(d, Lpush(k, p)) = Put(d, k, Reverse(p) \o d[k])
<1>1. d[k] \in Seq(Nat)
  BY DEF DictSet
<1>2. Reverse(p) \in Seq(Nat)
  BY ReverseType
<1>3. Lpush(k, p) \in OpSet /\ Lpush(k, p).key = k /\ Lpush(k, p).cmd = "lpush" /\ Lpush(k, p).elements = p
  BY DEF Lpush, OpSet
<1>4. Replayed(d, Lpush(k, p)) = Put(d, k, Reverse(p) \o d[k])
  <2> DEFINE op == Lpush(k, p)
  <2> HIDE DEF op
  <2>1. op.cmd = "lpush" /\ op.key = k /\ op.elements = p
    BY <1>3 DEF op
  <2>2. Replayed(d, op) = Put(d, k, Reverse(p) \o d[k])
    BY <2>1 DEF Replayed, Put
  <2> QED BY <2>2 DEF op
<1> QED BY <1>1, <1>2, <1>3, <1>4, ConcatProperties

(* ... of one element. *)
LEMMA LpushOne ==
  ASSUME NEW d \in DictSet, NEW k \in Keys, NEW e \in Nat
  PROVE  /\ Lpush(k, <<e>>) \in OpSet /\ Lpush(k, <<e>>).key = k
         /\ <<e>> \o d[k] \in Seq(Nat)
         /\ Replayed(d, Lpush(k, <<e>>)) = Put(d, k, <<e>> \o d[k])
<1>1. d[k] \in Seq(Nat)
  BY DEF DictSet
<1> DEFINE p == Append(<<>>, e)
<1>2. p = <<e>> /\ p \in Seq(Nat) /\ <<>> \in Seq(Nat)
  OBVIOUS
<1> HIDE DEF p
<1>3. Reverse(p) \o d[k] = <<e>> \o d[k]
  <2>1. Reverse(p) \o d[k] = <<e>> \o (Reverse(<<>>) \o d[k])
    BY <1>1, <1>2, ReverseAppend DEF p
  <2>2. Reverse(<<>>) \o d[k] = d[k]
    BY <1>1, ReverseEmpty
  <2> QED BY <2>1, <2>2
<1>4. /\ Lpush(k, p) \in OpSet /\ Lpush(k, p).key = k
      /\ Reverse(p) \o d[k] \in Seq(Nat)
      /\ Replayed(d, Lpush(k, p)) = Put(d, k, Reverse(p) \o d[k])
  BY <1>2, LpushPuts
<1> QED BY <1>2, <1>3, <1>4

(* A command changes the value of its key, and depends on nothing else. *)
LEMMA ReplayedAt ==
  ASSUME NEW d \in DictSet, NEW op \in OpSet
  PROVE  /\ Replayed(d, op) \in DictSet
         /\ \A l \in Keys : l # op.key => Replayed(d, op)[l] = d[l]
         /\ \A k \in Keys, v \in Seq(Nat) : k # op.key =>
              Replayed(Put(d, k, v), op) = Put(Replayed(d, op), k, v)
<1> DEFINE V(x) == CASE op.cmd = "lpush" -> Reverse(op.elements) \o x
                     [] op.cmd = "lpop" -> SubSeq(x, 2, Len(x))
                     [] op.cmd = "rpop" -> Front(x)
                     [] op.cmd = "del" -> <<>>
<1>0. op.key \in Keys /\ op.elements \in Seq(Nat) /\ op.cmd \in {"lpush", "lpop", "rpop", "del"}
  BY DEF OpSet
<1>1. \A x \in DictSet : Replayed(x, op) = [x EXCEPT ![op.key] = V(x[op.key])]
  BY DEF Replayed
<1>2. ASSUME NEW x \in Seq(Nat) PROVE V(x) \in Seq(Nat)
  <2>1. Reverse(op.elements) \o x \in Seq(Nat)
    <3>1. Reverse(op.elements) \in Seq(Nat)
      BY <1>0, ReverseType
    <3> QED BY <3>1, ConcatProperties
  <2>2. SubSeq(x, 2, Len(x)) \in Seq(Nat)
    <3>1. Len(x) \in Int /\ 2 \in Int /\ \A i \in 2 .. Len(x) : x[i] \in Nat
      OBVIOUS
    <3> QED BY <3>1, SubSeqProperties
  <2>3. Front(x) \in Seq(Nat)
    <3>1. Len(x) - 1 \in Int /\ 1 \in Int /\ \A i \in 1 .. Len(x) - 1 : x[i] \in Nat
      OBVIOUS
    <3>2. SubSeq(x, 1, Len(x) - 1) \in Seq(Nat)
      BY <3>1, SubSeqProperties
    <3> QED BY <3>2 DEF Front
  <2>4. <<>> \in Seq(Nat)
    OBVIOUS
  <2> QED BY <1>0, <2>1, <2>2, <2>3, <2>4
<1> HIDE DEF V
<1>3. Replayed(d, op) \in DictSet /\ \A l \in Keys : l # op.key => Replayed(d, op)[l] = d[l]
  <2>1. V(d[op.key]) \in Seq(Nat)
    BY <1>0, <1>2 DEF DictSet
  <2> QED BY <1>0, <1>1, <2>1 DEF DictSet
<1>4. ASSUME NEW k \in Keys, NEW v \in Seq(Nat), k # op.key
      PROVE  Replayed(Put(d, k, v), op) = Put(Replayed(d, op), k, v)
  <2>1. Put(d, k, v) \in DictSet /\ Put(d, k, v)[op.key] = d[op.key]
    BY <1>0, <1>4, PutFacts
  <2>2. Replayed(Put(d, k, v), op) = [Put(d, k, v) EXCEPT ![op.key] = V(d[op.key])]
    BY <1>1, <2>1
  <2>3. Replayed(d, op) = [d EXCEPT ![op.key] = V(d[op.key])]
    BY <1>1
  <2> DEFINE z == V(d[op.key])
  <2> HIDE DEF z
  <2>4. [Put(d, k, v) EXCEPT ![op.key] = z] = Put([d EXCEPT ![op.key] = z], k, v)
    BY <1>0, <1>4 DEF Put, DictSet
  <2> QED BY <2>2, <2>3, <2>4 DEF z
<1> QED BY <1>3, <1>4

(* A slave that executes commands has data. *)
LEMMA ReplayOps ==
  ReplayKeeps(DictSet, OpSet)
  BY ReplayedAt DEF ReplayKeeps

(* No commands change nothing; one is executed. *)
LEMMA ReplayFacts ==
  ASSUME NEW d \in DictSet
  PROVE  /\ ReplayAll(d, <<>>) = d
         /\ \A q \in Seq(OpSet) : ReplayAll(d, q) \in DictSet
         /\ \A q \in Seq(OpSet), op \in OpSet : ReplayAll(d, Append(q, op)) = Replayed(ReplayAll(d, q), op)
         /\ \A q \in Seq(OpSet), op \in OpSet : ReplayAll(d, <<op>> \o q) = ReplayAll(Replayed(d, op), q)
<1> DEFINE F == ReplayStep(DictSet, OpSet)
<1>1. Stays(F, DictSet, OpSet) /\ \A x \in DictSet, e \in OpSet : F[<<x, e>>] = Replayed(x, e)
  BY ReplayOps, ReplayStepType
<1>2. \A x \in DictSet, q \in Seq(OpSet) : ReplayAll(x, q) = Result(F, x, q)
  BY ReplayOps, ReplayFold
<1> HIDE DEF F
<1>3. ReplayAll(d, <<>>) = d
  <2>1. <<>> \in Seq(OpSet)
    OBVIOUS
  <2>2. Result(F, d, <<>>) = d
    BY <1>1, ResultEmpty
  <2> QED BY <1>2, <2>1, <2>2
<1>4. ASSUME NEW q \in Seq(OpSet) PROVE ReplayAll(d, q) \in DictSet
  <2>1. Result(F, d, q) \in DictSet
    BY <1>1, ResultType
  <2> QED BY <1>2, <2>1
<1>5. ASSUME NEW q \in Seq(OpSet), NEW op \in OpSet
      PROVE  ReplayAll(d, Append(q, op)) = Replayed(ReplayAll(d, q), op)
  <2>1. Append(q, op) \in Seq(OpSet)
    OBVIOUS
  <2>2. Result(F, d, Append(q, op)) = F[<<Result(F, d, q), op>>]
    BY <1>1, ResultAppend
  <2>3. ReplayAll(d, Append(q, op)) = Result(F, d, Append(q, op)) /\ ReplayAll(d, q) = Result(F, d, q)
    BY <1>2, <2>1
  <2> QED BY <1>1, <1>4, <2>2, <2>3
<1>6. ASSUME NEW q \in Seq(OpSet), NEW op \in OpSet
      PROVE  ReplayAll(d, <<op>> \o q) = ReplayAll(Replayed(d, op), q)
  <2> DEFINE p == <<op>> \o q
  <2>1. p \in Seq(OpSet) /\ p # <<>> /\ Head(p) = op
    OBVIOUS
  <2>2. Tail(p) = q
    <3>1. Len(p) = Len(q) + 1 /\ Len(q) \in Nat /\ \A i \in 1 .. Len(q) : p[i + 1] = q[i]
      OBVIOUS
    <3>2. Tail(p) \in Seq(OpSet) /\ Len(Tail(p)) = Len(q) /\ \A i \in 1 .. Len(q) : Tail(p)[i] = p[i + 1]
      <4> HIDE DEF p
      <4> QED BY <2>1, <3>1, HeadTailProperties
    <3> HIDE DEF p
    <3> QED BY <3>1, <3>2
  <2> HIDE DEF p
  <2>3. Result(F, d, p) = Result(F, F[<<d, Head(p)>>], Tail(p))
    BY <1>1, <2>1, ResultCons
  <2>4. F[<<d, op>>] = Replayed(d, op) /\ Replayed(d, op) \in DictSet
    BY <1>1, ReplayedAt
  <2>5. ReplayAll(d, p) = Result(F, d, p) /\ ReplayAll(Replayed(d, op), q) = Result(F, Replayed(d, op), q)
    BY <1>2, <2>1, <2>4
  <2> QED BY <2>1, <2>2, <2>3, <2>4, <2>5 DEF p
<1> QED BY <1>3, <1>4, <1>5, <1>6

(* Commands at other keys commute with what is done to one. *)
LEMMA ReplayCommutes ==
  ASSUME NEW d \in DictSet, NEW k \in Keys, NEW v \in Seq(Nat), NEW q \in Seq(OpsNotAt(k))
  PROVE  /\ ReplayAll(d, q)[k] = d[k]
         /\ ReplayAll(Put(d, k, v), q) = Put(ReplayAll(d, q), k, v)
<1> DEFINE N == OpsNotAt(k)
           F == ReplayStep(DictSet, N)
           T == { p \in DictSet \X DictSet : p[1][k] = d[k] /\ p[2] = Put(p[1], k, v) }
<1>1. ReplayKeeps(DictSet, N)
  BY ReplayedAt DEF ReplayKeeps, OpsNotAt
<1>2. Stays(F, DictSet, N) /\ \A x \in DictSet, e \in N : F[<<x, e>>] = Replayed(x, e)
  BY <1>1, ReplayStepType
<1>3. \A x \in DictSet : ReplayAll(x, q) = Result(F, x, q)
  BY <1>1, ReplayFold
<1>4. Put(d, k, v) \in DictSet
  BY PutFacts
<1>5. Related(T, DictSet, F, DictSet, F, N)
  <2> HIDE DEF T, F, N
  <2> SUFFICES ASSUME NEW x \in DictSet, NEW y \in DictSet, NEW e \in N, <<x, y>> \in T
               PROVE  <<F[<<x, e>>], F[<<y, e>>]>> \in T
    BY Zenon DEF Related
  <2>1. x[k] = d[k] /\ y = Put(x, k, v) /\ e \in OpSet /\ e.key # k
    BY DEF OpsNotAt, T, N
  <2>2. Replayed(x, e) \in DictSet /\ Replayed(x, e)[k] = d[k] /\ Replayed(y, e) = Put(Replayed(x, e), k, v)
        /\ Replayed(y, e) \in DictSet
    BY <2>1, ReplayedAt
  <2>3. F[<<x, e>>] = Replayed(x, e) /\ F[<<y, e>>] = Replayed(y, e)
    BY <1>2
  <2> QED BY <2>2, <2>3 DEF T
<1>6. <<d, Put(d, k, v)>> \in T
  BY <1>4
<1> HIDE DEF T, F, N
<1>7. q \in Seq(N)
  BY DEF N
<1>8. <<Result(F, d, q), Result(F, Put(d, k, v), q)>> \in T
  BY <1>2, <1>4, <1>5, <1>6, <1>7, ResultsRelated
<1> QED BY <1>3, <1>4, <1>8 DEF T

-----------------------------------------------------------------------------
(* The elements: d has those of L, each in one place.                      *)
Elem == 1 .. MaxElements
Stored(d, L) ==
  /\ \A k \in Keys : d[k] = Other \/ d[k] \in Seq(Elem)
  /\ \A k, l \in Keys : d[k] # Other /\ d[l] # Other =>
       \A i \in 1 .. Len(d[k]), j \in 1 .. Len(d[l]) : d[k][i] = d[l][j] => k = l /\ i = j
  /\ \A e : e \in L <=> \E k \in Keys : e \in Elements(d[k])

(* The elements of a list, none of which is twice in it. *)
IsListOf(v) == v \in Seq(Elem) /\ \A i, j \in 1 .. Len(v) : v[i] = v[j] => i = j

(* A sequence of elements is a list, or empty, and never another value. *)
LEMMA ElementsOf ==
  ASSUME BlockingAssumption, NEW v
  PROVE  /\ v \in Seq(Elem) => /\ v # Other /\ v \in Seq(Nat) /\ Elements(v) = ToSet(v)
                                           /\ \A e : e \in ToSet(v) <=> \E i \in 1 .. Len(v) : v[i] = e
         /\ v = Other => Elements(v) = {} /\ v \in Seq(Nat)
         /\ Elements(<<>>) = {}
<1>1. ASSUME v \in Seq(Elem)
      PROVE  /\ v # Other /\ v \in Seq(Nat) /\ Elements(v) = ToSet(v)
             /\ \A e : e \in ToSet(v) <=> \E i \in 1 .. Len(v) : v[i] = e
  <2>1. v # Other
    <3>1. SUFFICES ASSUME v = Other PROVE FALSE
      OBVIOUS
    <3>2. Len(v) = 1 /\ v[1] = 0 /\ 1 \in 1 .. 1
      BY <3>1 DEF Other
    <3>3. v[1] \in Elem
      <4> DEFINE one == 1
      <4>1. one \in 1 .. Len(v)
        BY <3>2
      <4> HIDE DEF one
      <4>2. v[one] \in Elem
        BY <1>1, <4>1
      <4> QED BY <4>2 DEF one
    <3> QED BY <3>2, <3>3 DEF BlockingAssumption, Elem
  <2>2. v \in Seq(Nat)
    <3>1. Len(v) \in Nat /\ v \in [1 .. Len(v) -> Elem]
      BY <1>1
    <3>2. v \in [1 .. Len(v) -> Nat]
      BY <3>1 DEF Elem, BlockingAssumption
    <3> QED BY <3>1, <3>2
  <2>3. Elements(v) = ToSet(v)
    BY <2>1 DEF Elements
  <2> QED BY <1>1, <2>1, <2>2, <2>3 DEF ToSet
<1>2. v = Other => Elements(v) = {} /\ v \in Seq(Nat)
  BY DEF Elements, Other
<1>3. Elements(<<>>) = {}
  BY DEF Elements, Other, ToSet
<1> QED BY <1>1, <1>2, <1>3

(* A value is replaced by a list that has no element of the other keys. *)
LEMMA StoredPut ==
  ASSUME BlockingAssumption, NEW d \in DictSet, NEW L, Stored(d, L), NEW k \in Keys, NEW v, IsListOf(v),
         \A i \in 1 .. Len(v) : v[i] \notin L \ Elements(d[k])
  PROVE  Stored(Put(d, k, v), (L \ Elements(d[k])) \cup ToSet(v))
<1> DEFINE f == Put(d, k, v)
           M == (L \ Elements(d[k])) \cup ToSet(v)
<1>1. v \in Seq(Elem) /\ v # Other /\ v \in Seq(Nat) /\ Elements(v) = ToSet(v)
      /\ \A e : e \in ToSet(v) <=> \E i \in 1 .. Len(v) : v[i] = e
  BY ElementsOf DEF IsListOf
<1>2. \A l \in Keys : f[l] = IF l = k THEN v ELSE d[l]
  BY <1>1, PutFacts
<1> HIDE DEF f
<1>3. \A l \in Keys : f[l] = Other \/ f[l] \in Seq(Elem)
  BY <1>1, <1>2 DEF Stored
<1>4. ASSUME NEW l \in Keys, l # k, d[l] # Other, NEW j \in 1 .. Len(d[l])
      PROVE  d[l][j] \in L \ Elements(d[k]) /\ d[l][j] \in Elements(d[l])
  <2>1. d[l] \in Seq(Elem)
    BY <1>4 DEF Stored
  <2>2. d[l][j] \in Elements(d[l])
    BY <2>1, ElementsOf
  <2>3. d[l][j] \in L
    BY <2>2 DEF Stored
  <2>4. d[l][j] \notin Elements(d[k])
    <3>1. SUFFICES ASSUME d[l][j] \in Elements(d[k]) PROVE FALSE
      OBVIOUS
    <3>2. d[k] # Other
      BY <3>1, ElementsOf
    <3>3. d[k] \in Seq(Elem)
      BY <3>2 DEF Stored
    <3> DEFINE e == d[l][j]
               q == d[k]
    <3>a. e \in ToSet(q) <=> \E i \in 1 .. Len(q) : q[i] = e
      <4> HIDE DEF e
      <4> QED BY <3>3, ElementsOf
    <3>b. e \in ToSet(q)
      BY <3>1, <3>3, ElementsOf
    <3>4. PICK i \in 1 .. Len(q) : q[i] = e
      BY <3>a, <3>b
    <3> QED BY <1>4, <3>2, <3>4 DEF Stored
  <2> QED BY <2>2, <2>3, <2>4
<1>5. ASSUME NEW l \in Keys, NEW m \in Keys, f[l] # Other, f[m] # Other,
             NEW i \in 1 .. Len(f[l]), NEW j \in 1 .. Len(f[m]), f[l][i] = f[m][j]
      PROVE  l = m /\ i = j
  <2>1. CASE l = k /\ m = k
    BY <1>2, <1>5, <2>1 DEF IsListOf
  <2>2. CASE l = k /\ m # k
    BY <1>2, <1>4, <1>5, <2>2
  <2>3. CASE l # k /\ m = k
    BY <1>2, <1>4, <1>5, <2>3
  <2>4. CASE l # k /\ m # k
    BY <1>2, <1>5, <2>4 DEF Stored
  <2> QED BY <2>1, <2>2, <2>3, <2>4
<1>6. ASSUME NEW e PROVE e \in M <=> \E l \in Keys : e \in Elements(f[l])
  <2>1. ASSUME e \in M PROVE \E l \in Keys : e \in Elements(f[l])
    <3>1. CASE e \in ToSet(v)
      BY <1>1, <1>2, <3>1
    <3>2. CASE e \in L /\ e \notin Elements(d[k])
      <4>1. PICK l \in Keys : e \in Elements(d[l])
        BY <3>2 DEF Stored
      <4>2. f[l] = d[l]
        BY <1>2, <3>2, <4>1
      <4> QED BY <4>1, <4>2
    <3> QED BY <2>1, <3>1, <3>2
  <2>2. ASSUME NEW l \in Keys, e \in Elements(f[l]) PROVE e \in M
    <3>1. CASE l = k
      BY <1>1, <1>2, <2>2, <3>1
    <3>2. CASE l # k
      <4>1. e \in Elements(d[l])
        BY <1>2, <2>2, <3>2
      <4>2. d[l] # Other
        BY <4>1, ElementsOf
      <4>3. d[l] \in Seq(Elem)
        BY <4>2 DEF Stored
      <4>4. PICK j \in 1 .. Len(d[l]) : d[l][j] = e
        BY <4>1, <4>3, ElementsOf
      <4> QED BY <1>4, <3>2, <4>2, <4>4
    <3> QED BY <3>1, <3>2
  <2> QED BY <2>1, <2>2
<1> HIDE DEF M
<1>7. Stored(f, M)
  BY <1>3, <1>5, <1>6 DEF Stored
<1> QED BY <1>7 DEF f, M

(* ... by a value of another type. *)
LEMMA StoredOther ==
  ASSUME BlockingAssumption, NEW d \in DictSet, NEW L, Stored(d, L), NEW k \in Keys
  PROVE  Stored(Put(d, k, Other), L \ Elements(d[k]))
<1> DEFINE f == Put(d, k, Other)
           g == Put(d, k, <<>>)
<1>1. \A l \in Keys : f[l] = IF l = k THEN Other ELSE d[l]
  BY DEF Put, DictSet
<1>2. \A l \in Keys : g[l] = IF l = k THEN <<>> ELSE d[l]
  BY DEF Put, DictSet
<1>3. Stored(g, (L \ Elements(d[k])) \cup ToSet(<<>>))
  <2> DEFINE v == <<>>
  <2>1. IsListOf(v) /\ Len(v) = 0
    BY DEF IsListOf
  <2> HIDE DEF v
  <2>2. Stored(Put(d, k, v), (L \ Elements(d[k])) \cup ToSet(v))
    BY <2>1, StoredPut
  <2> QED BY <2>2 DEF v
<1>4. (L \ Elements(d[k])) \cup ToSet(<<>>) = L \ Elements(d[k])
  BY DEF ToSet
<1>5. Elements(<<>>) = {} /\ Elements(Other) = {}
  BY ElementsOf DEF Elements
<1> HIDE DEF f, g
<1>6. \A l \in Keys : Elements(f[l]) = Elements(g[l]) /\ (f[l] = Other \/ f[l] = g[l])
  BY <1>1, <1>2, <1>5
<1>7. Stored(g, L \ Elements(d[k]))
  BY <1>3, <1>4
<1>8. Stored(f, L \ Elements(d[k]))
  BY <1>6, <1>7 DEF Stored
<1> QED BY <1>8 DEF f

(* ... by no list. *)
LEMMA StoredClear ==
  ASSUME BlockingAssumption, NEW d \in DictSet, NEW L, Stored(d, L), NEW k \in Keys
  PROVE  Stored(Put(d, k, <<>>), L \ Elements(d[k]))
<1> DEFINE v == <<>>
<1>1. IsListOf(v) /\ Len(v) = 0 /\ ToSet(v) = {}
  BY DEF IsListOf, ToSet
<1> HIDE DEF v
<1>2. Stored(Put(d, k, v), (L \ Elements(d[k])) \cup ToSet(v))
  BY <1>1, StoredPut
<1>3. (L \ Elements(d[k])) \cup ToSet(v) = L \ Elements(d[k])
  BY <1>1
<1> QED BY <1>2, <1>3 DEF v

(* What the lists of the data are. *)
LEMMA StoredList ==
  ASSUME BlockingAssumption, NEW d \in DictSet, NEW L, Stored(d, L), NEW k \in Keys, d[k] # Other
  PROVE  /\ IsListOf(d[k]) /\ Elements(d[k]) = ToSet(d[k]) /\ ToSet(d[k]) \subseteq L
         /\ \A e : e \in ToSet(d[k]) <=> \E i \in 1 .. Len(d[k]) : d[k][i] = e
<1>1. d[k] \in Seq(Elem)
  BY DEF Stored
<1>2. IsListOf(d[k])
  BY <1>1 DEF Stored, IsListOf
<1>3. Elements(d[k]) = ToSet(d[k]) /\ \A e : e \in ToSet(d[k]) <=> \E i \in 1 .. Len(d[k]) : d[k][i] = e
  BY <1>1, ElementsOf
<1> QED BY <1>2, <1>3 DEF Stored

(* A new element is pushed to a list. *)
LEMMA StoredPush ==
  ASSUME BlockingAssumption, NEW d \in DictSet, NEW L, Stored(d, L), NEW k \in Keys, d[k] # Other,
         NEW e \in Elem, e \notin L
  PROVE  Stored(Put(d, k, <<e>> \o d[k]), L \cup {e})
<1> DEFINE q == d[k]
           v == <<e>> \o q
<1>1. IsListOf(q) /\ Elements(q) = ToSet(q) /\ ToSet(q) \subseteq L
      /\ \A x : x \in ToSet(q) <=> \E i \in 1 .. Len(q) : q[i] = x
  BY StoredList
<1> HIDE DEF q
<1>2. q \in Seq(Elem) /\ Len(q) \in Nat
  BY <1>1 DEF IsListOf
<1>3. v \in Seq(Elem) /\ Len(v) = Len(q) + 1
      /\ \A i \in 1 .. Len(q) + 1 : v[i] = IF i = 1 THEN e ELSE q[i - 1]
  <2>1. <<e>> \in Seq(Elem) /\ Len(<<e>>) = 1 /\ <<e>>[1] = e
    OBVIOUS
  <2> HIDE DEF v
  <2>2. v \in Seq(Elem) /\ Len(v) = 1 + Len(q) /\ \A i \in 1 .. 1 + Len(q) : v[i] = IF i <= 1 THEN <<e>>[i] ELSE q[i - 1]
    BY <1>2, <2>1, ConcatProperties DEF v
  <2>3. ASSUME NEW i \in 1 .. Len(q) + 1 PROVE v[i] = IF i = 1 THEN e ELSE q[i - 1]
    <3>1. i \in 1 .. 1 + Len(q) /\ (i <= 1 <=> i = 1)
      BY <1>2
    <3> QED BY <2>1, <2>2, <3>1
  <2> QED BY <1>2, <2>2, <2>3
<1> HIDE DEF v
<1>4. \A i \in 1 .. Len(q) : q[i] # e
  BY <1>1
<1>5. IsListOf(v)
  <2> SUFFICES ASSUME NEW i \in 1 .. Len(v), NEW j \in 1 .. Len(v), v[i] = v[j] PROVE i = j
    BY <1>3 DEF IsListOf
  <2>1. \A n \in 1 .. Len(v) : n = 1 \/ (n - 1 \in 1 .. Len(q) /\ v[n] = q[n - 1])
    BY <1>2, <1>3
  <2>2. v[1] = e
    BY <1>2, <1>3
  <2>3. CASE i = 1 /\ j # 1
    BY <1>4, <2>1, <2>2, <2>3
  <2>4. CASE i # 1 /\ j = 1
    BY <1>4, <2>1, <2>2, <2>4
  <2>5. CASE i # 1 /\ j # 1
    <3>1. i - 1 = j - 1
      BY <1>1, <2>1, <2>5 DEF IsListOf
    <3> QED BY <3>1
  <2> QED BY <2>3, <2>4, <2>5
<1>6. \A x : x \in ToSet(v) <=> x = e \/ x \in ToSet(q)
  <2>1. DOMAIN v = 1 .. Len(q) + 1
    BY <1>3
  <2>2. ASSUME NEW x, x \in ToSet(v) PROVE x = e \/ x \in ToSet(q)
    <3>1. PICK i \in 1 .. Len(q) + 1 : v[i] = x
      BY <2>1, <2>2 DEF ToSet
    <3>2. i = 1 \/ i - 1 \in 1 .. Len(q)
      BY <1>2
    <3> QED BY <1>1, <1>3, <3>1, <3>2
  <2>3. ASSUME NEW x, x \in ToSet(q) PROVE x \in ToSet(v)
    <3>1. PICK i \in 1 .. Len(q) : q[i] = x
      BY <1>1, <2>3
    <3>2. i + 1 \in 1 .. Len(q) + 1 /\ i + 1 # 1 /\ (i + 1) - 1 = i
      BY <1>2
    <3>3. v[i + 1] = x
      BY <1>3, <3>1, <3>2
    <3> QED BY <2>1, <3>2, <3>3 DEF ToSet
  <2>4. e \in ToSet(v)
    <3>1. 1 \in 1 .. Len(q) + 1
      BY <1>2
    <3> QED BY <1>3, <2>1, <3>1 DEF ToSet
  <2> QED BY <2>2, <2>3, <2>4
<1>7. ASSUME NEW i \in 1 .. Len(v) PROVE v[i] \notin L \ Elements(q)
  <2>1. v[i] \in ToSet(v)
    BY <1>3 DEF ToSet
  <2> QED BY <1>1, <1>6, <2>1
<1>8. Stored(Put(d, k, v), (L \ Elements(d[k])) \cup ToSet(v))
  BY <1>5, <1>7, StoredPut DEF q
<1>9. (L \ Elements(d[k])) \cup ToSet(v) = L \cup {e}
  BY <1>1, <1>6 DEF q
<1> QED BY <1>8, <1>9 DEF v, q

(* The first element is popped from a list, or the last. *)
LEMMA StoredPop ==
  ASSUME BlockingAssumption, NEW d \in DictSet, NEW L, Stored(d, L), NEW k \in Keys, IsList(d[k])
  PROVE  /\ Tail(d[k]) \in Seq(Nat) /\ Tail(d[k]) # Other /\ Head(d[k]) \in L
         /\ Stored(Put(d, k, Tail(d[k])), L \ {Head(d[k])})
         /\ Front(d[k]) \in Seq(Nat) /\ Front(d[k]) # Other /\ Last(d[k]) \in L /\ Last(d[k]) \in Elem
         /\ Stored(Put(d, k, Front(d[k])), L \ {Last(d[k])})
<1> DEFINE q == d[k]
<1>1. IsListOf(q) /\ Elements(q) = ToSet(q) /\ ToSet(q) \subseteq L
      /\ \A x : x \in ToSet(q) <=> \E i \in 1 .. Len(q) : q[i] = x
  BY StoredList DEF IsList
<1>2. q # <<>>
  BY DEF IsList
<1> HIDE DEF q
<1>3. q \in Seq(Elem) /\ Len(q) \in Nat /\ Len(q) > 0
  BY <1>1, <1>2 DEF IsListOf
<1>4. ASSUME NEW v \in Seq(Elem), NEW n \in {0, 1}, NEW e, Len(v) = Len(q) - 1,
             \A i \in 1 .. Len(v) : v[i] = q[i + n],
             e = IF n = 1 THEN q[1] ELSE q[Len(q)]
      PROVE  v \in Seq(Nat) /\ v # Other /\ e \in L /\ e \in Elem /\ Stored(Put(d, k, v), L \ {e})
  <2> DEFINE p == IF n = 1 THEN 1 ELSE Len(q)
  <2>1. p \in 1 .. Len(q) /\ q[p] = e
    BY <1>3, <1>4
  <2>2. \A i \in 1 .. Len(v) : i + n \in 1 .. Len(q) /\ i + n # p
    BY <1>3, <1>4
  <2>3. \A j \in 1 .. Len(q) : j # p => j - n \in 1 .. Len(v) /\ (j - n) + n = j
    BY <1>3, <1>4
  <2> HIDE DEF p
  <2>4. IsListOf(v)
    <3> SUFFICES ASSUME NEW i \in 1 .. Len(v), NEW j \in 1 .. Len(v), v[i] = v[j] PROVE i = j
      BY DEF IsListOf
    <3>1. i + n = j + n
      BY <1>1, <1>4, <2>2 DEF IsListOf
    <3> QED BY <3>1
  <2>5. \A x : x \in ToSet(v) <=> x \in ToSet(q) /\ x # e
    <3>1. DOMAIN v = 1 .. Len(v)
      OBVIOUS
    <3>2. ASSUME NEW x, x \in ToSet(v) PROVE x \in ToSet(q) /\ x # e
      <4>1. PICK i \in 1 .. Len(v) : v[i] = x
        BY <3>1, <3>2 DEF ToSet
      <4>2. q[i + n] = x /\ i + n \in 1 .. Len(q) /\ i + n # p
        BY <1>4, <2>2, <4>1
      <4> QED BY <1>1, <2>1, <4>2 DEF IsListOf
    <3>3. ASSUME NEW x, x \in ToSet(q), x # e PROVE x \in ToSet(v)
      <4>1. PICK j \in 1 .. Len(q) : q[j] = x
        BY <1>1, <3>3
      <4>2. j # p
        BY <2>1, <3>3, <4>1
      <4>3. v[j - n] = x /\ j - n \in 1 .. Len(v)
        BY <1>4, <2>3, <4>1, <4>2
      <4> QED BY <3>1, <4>3 DEF ToSet
    <3> QED BY <3>2, <3>3
  <2>6. ASSUME NEW i \in 1 .. Len(v) PROVE v[i] \notin L \ Elements(q)
    <3>1. v[i] \in ToSet(v)
      BY DEF ToSet
    <3> QED BY <1>1, <2>5, <3>1
  <2>7. Stored(Put(d, k, v), (L \ Elements(d[k])) \cup ToSet(v))
    BY <2>4, <2>6, StoredPut DEF q
  <2>8. e \in ToSet(q)
    BY <1>1, <2>1
  <2>9. (L \ Elements(d[k])) \cup ToSet(v) = L \ {e}
    BY <1>1, <2>5, <2>8 DEF q
  <2>10. v # Other /\ v \in Seq(Nat)
    BY ElementsOf
  <2>11. e \in Elem
    BY <1>3, <2>1
  <2> QED BY <1>1, <2>7, <2>8, <2>9, <2>10, <2>11
<1>5. /\ Tail(q) \in Seq(Elem) /\ Len(Tail(q)) = Len(q) - 1 /\ Head(q) = q[1]
      /\ \A i \in 1 .. Len(Tail(q)) : Tail(q)[i] = q[i + 1]
  BY <1>2, <1>3, HeadTailProperties
<1>6. /\ Front(q) \in Seq(Elem) /\ Len(Front(q)) = Len(q) - 1 /\ Last(q) = q[Len(q)]
      /\ \A i \in 1 .. Len(Front(q)) : Front(q)[i] = q[i + 0]
  <2>1. 1 \in Int /\ Len(q) - 1 \in Int /\ \A i \in 1 .. Len(q) - 1 : q[i] \in Elem
    BY <1>3
  <2> DEFINE a == SubSeq(q, 1, Len(q) - 1)
  <2>2. /\ a \in Seq(Elem) /\ Len(a) = IF 1 <= Len(q) - 1 THEN (Len(q) - 1) - 1 + 1 ELSE 0
        /\ \A i \in 1 .. (Len(q) - 1) - 1 + 1 : a[i] = q[1 + i - 1]
    BY <2>1, SubSeqProperties
  <2> HIDE DEF a
  <2>3. Len(a) = Len(q) - 1
    <3>1. CASE Len(q) = 1
      BY <1>3, <2>2, <3>1
    <3>2. CASE Len(q) > 1
      <4>1. 1 <= Len(q) - 1 /\ (Len(q) - 1) - 1 + 1 = Len(q) - 1
        BY <1>3, <3>2
      <4> QED BY <2>2, <4>1
    <3>3. Len(q) = 1 \/ Len(q) > 1
      <4> DEFINE n == Len(q)
      <4>1. n \in Nat /\ n > 0
        BY <1>3
      <4> HIDE DEF n
      <4>2. n = 1 \/ n > 1
        BY <4>1
      <4> QED BY <4>2 DEF n
    <3> QED BY <3>1, <3>2, <3>3
  <2>4. ASSUME NEW i \in 1 .. Len(a) PROVE a[i] = q[i + 0]
    <3>1. i \in 1 .. (Len(q) - 1) - 1 + 1 /\ 1 + i - 1 = i + 0
      BY <1>3, <2>3
    <3> QED BY <2>2, <3>1
  <2> QED BY <2>2, <2>3, <2>4 DEF Front, Last, a
<1>7. Tail(q) \in Seq(Nat) /\ Tail(q) # Other /\ Head(q) \in L /\ Stored(Put(d, k, Tail(q)), L \ {Head(q)})
  BY <1>4, <1>5
<1>8. Front(q) \in Seq(Nat) /\ Front(q) # Other /\ Last(q) \in L /\ Last(q) \in Elem
      /\ Stored(Put(d, k, Front(q)), L \ {Last(q)})
  <2> DEFINE v == Front(q)
             e == Last(q)
             n == 0
  <2>1. v \in Seq(Elem) /\ n \in {0, 1} /\ Len(v) = Len(q) - 1 /\ (\A i \in 1 .. Len(v) : v[i] = q[i + n])
        /\ e = IF n = 1 THEN q[1] ELSE q[Len(q)]
    BY <1>6
  <2> HIDE DEF v, e, n
  <2>2. v \in Seq(Nat) /\ v # Other /\ e \in L /\ e \in Elem /\ Stored(Put(d, k, v), L \ {e})
    BY <1>4, <2>1
  <2> QED BY <2>2 DEF v, e
<1> QED BY <1>7, <1>8 DEF q

-----------------------------------------------------------------------------
(* The way of an element from client to client.                            *)
HandSet == [s : SrvSet, key : Keys, first : BOOLEAN, to : {"nobody", "list", "target", "client"}, also : Seq(OpSet)]

PutIn(s, k, v) == [s EXCEPT !.dict[k] = v]
Gone(s, e) == [s EXCEPT !.live = @ \ {e}]

(* A server with another value at a key. *)
LEMMA PutInFields ==
  ASSUME NEW s \in SrvSet, NEW k \in Keys, NEW v \in Seq(Nat)
  PROVE  /\ PutIn(s, k, v) \in SrvSet /\ PutIn(s, k, v).dict = Put(s.dict, k, v)
         /\ SameClients(s, PutIn(s, k, v)) /\ SameQueues(s, PutIn(s, k, v)) /\ SamePending(s, PutIn(s, k, v))
         /\ PutIn(s, k, v).slave = s.slave /\ PutIn(s, k, v).live = s.live /\ PutIn(s, k, v).renamed = s.renamed
<1> DEFINE D == Put(s.dict, k, v)
           t == [s EXCEPT !.dict = D]
<1>1. s.dict \in DictSet
  BY DEF SrvSet
<1>2. D \in DictSet
  BY <1>1, PutFacts
<1>3. PutIn(s, k, v) = t
  BY DEF PutIn, Put
<1> HIDE DEF D
<1>4. t \in SrvSet /\ t.dict = D
  BY <1>2 DEF SrvSet
<1>5. SameClients(s, t) /\ SameQueues(s, t) /\ SamePending(s, t) /\ t.slave = s.slave /\ t.live = s.live /\ t.renamed = s.renamed
  BY DEF SrvSet, SameClients, SameQueues, SamePending
<1> HIDE DEF t
<1> QED BY <1>3, <1>4, <1>5 DEF D

(* A server with an element less. *)
LEMMA GoneFields ==
  ASSUME NEW s \in SrvSet, NEW e
  PROVE  /\ Gone(s, e) \in SrvSet /\ Gone(s, e).live = s.live \ {e} /\ Gone(s, e).dict = s.dict
         /\ SameClients(s, Gone(s, e)) /\ SameQueues(s, Gone(s, e)) /\ SamePending(s, Gone(s, e))
         /\ Gone(s, e).slave = s.slave /\ Gone(s, e).renamed = s.renamed
<1> DEFINE D == s.live \ {e}
           t == [s EXCEPT !.live = D]
<1>2. D \in SUBSET Nat
  BY DEF SrvSet
<1>3. Gone(s, e) = t
  BY DEF Gone
<1> HIDE DEF D
<1>4. t \in SrvSet /\ t.live = D /\ t.dict = s.dict
  BY <1>2 DEF SrvSet
<1>5. SameClients(s, t) /\ SameQueues(s, t) /\ SamePending(s, t) /\ t.slave = s.slave /\ t.renamed = s.renamed
  BY DEF SrvSet, SameClients, SameQueues, SamePending
<1> HIDE DEF t
<1> QED BY <1>3, <1>4, <1>5 DEF D

(* What is said of the clients concerns only their fields. *)
LEMMA ClientsSame ==
  ASSUME NEW s, NEW t, SameClients(s, t), SameQueues(s, t), SamePending(s, t)
  PROVE  (QueuesSound(s) => QueuesSound(t)) /\ (PendingSound(s) => PendingSound(t))
<1>1. QueuesSound(s) => QueuesSound(t)
  BY DEF SameClients, SameQueues, QueuesSound
<1>2. PendingSound(s) => PendingSound(t)
  BY DEF SameClients, SameQueues, SamePending, PendingSound
<1> QED BY <1>1, <1>2

(* One step of HandOver, by its cases. *)
Receiver(x) == Head(x.s.blocking_keys[x.key])
Target(x) == x.s.bpop[Receiver(x)].target
Served(x) == unblockClientWaitingData(x.s, Receiver(x))

HandDone(x, y) == x.to # "nobody" /\ y = x
HandToList(x, y) ==
  /\ x.to = "nobody" /\ x.s.blocking_keys[x.key] = <<>> /\ x.first
  /\ y.s = x.s /\ y.key = x.key /\ (y.first <=> x.first) /\ y.to = "list" /\ y.also = x.also
HandToTarget(x, y, ele) ==
  /\ x.to = "nobody" /\ x.s.blocking_keys[x.key] = <<>> /\ ~x.first
  /\ y.s = PutIn(x.s, x.key, <<ele>> \o x.s.dict[x.key])
  /\ y.key = x.key /\ (y.first <=> x.first) /\ y.to = "target" /\ y.also = Append(x.also, Lpush(x.key, <<ele>>))
HandToClient(x, y, ele) ==
  /\ x.to = "nobody" /\ x.s.blocking_keys[x.key] # <<>>
  /\ y.s = Gone(Served(x), ele) /\ y.key = x.key /\ (y.first <=> x.first) /\ y.to = "client" /\ y.also = x.also
HandOn(x, y) ==
  /\ x.to = "nobody" /\ x.s.blocking_keys[x.key] # <<>>
  /\ y.s = Served(x) /\ y.to = "nobody" /\ y.also = x.also
  /\ \/ y.key = x.key /\ (y.first <=> x.first)
     \/ Target(x) # None /\ x.s.dict[Target(x)] # Other /\ y.key = Target(x) /\ ~y.first

(* There are no others. *)
LEMMA HandCases ==
  ASSUME NEW x \in HandSet, NEW ele
  PROVE  \/ HandDone(x, HandOver(x, ele)) \/ HandToList(x, HandOver(x, ele))
         \/ HandToTarget(x, HandOver(x, ele), ele) \/ HandToClient(x, HandOver(x, ele), ele)
         \/ HandOn(x, HandOver(x, ele))
<1> DEFINE b == x.s.blocking_keys[x.key]
           y == HandOver(x, ele)
           t == Served(x)
           g == Gone(t, ele)
           p == PutIn(x.s, x.key, <<ele>> \o x.s.dict[x.key])
           a == Append(x.also, Lpush(x.key, <<ele>>))
           k == Target(x)
           d == x.s.dict[k]
<1>1. y = IF x.to # "nobody" THEN x
          ELSE IF b = <<>> THEN
            IF x.first THEN [x EXCEPT !.to = "list"]
            ELSE [x EXCEPT !.to = "target", !.s.dict[x.key] = <<ele>> \o @, !.also = Append(@, Lpush(x.key, <<ele>>))]
          ELSE IF k = None THEN [x EXCEPT !.s = [t EXCEPT !.live = @ \ {ele}], !.to = "client"]
          ELSE IF d = Other THEN [x EXCEPT !.s = t]
          ELSE [x EXCEPT !.s = t, !.key = k, !.first = FALSE]
  BY Zenon DEF HandOver, Receiver, Target, Served
<1>2. [x EXCEPT !.to = "target", !.s.dict[x.key] = <<ele>> \o @, !.also = Append(@, Lpush(x.key, <<ele>>))]
        = [x EXCEPT !.to = "target", !.s = p, !.also = a]
  BY DEF PutIn, HandSet
<1>3. [t EXCEPT !.live = @ \ {ele}] = g
  BY DEF Gone
<1> HIDE DEF b, y, t, g, p, a, k, d
<1>4. CASE x.to # "nobody"
  BY <1>1, <1>4 DEF HandDone, y
<1>5. CASE x.to = "nobody" /\ b = <<>> /\ x.first
  <2>1. y = [x EXCEPT !.to = "list"]
    BY <1>1, <1>5
  <2>2. y.s = x.s /\ y.key = x.key /\ (y.first <=> x.first) /\ y.to = "list" /\ y.also = x.also
    BY <2>1 DEF HandSet
  <2> QED BY <1>5, <2>2 DEF HandToList, b, y
<1>6. CASE x.to = "nobody" /\ b = <<>> /\ ~x.first
  <2>1. y = [x EXCEPT !.to = "target", !.s = p, !.also = a]
    BY <1>1, <1>2, <1>6
  <2>2. y.s = p /\ y.key = x.key /\ (y.first <=> x.first) /\ y.to = "target" /\ y.also = a
    BY <2>1 DEF HandSet
  <2> QED BY <1>6, <2>2 DEF HandToTarget, b, y, p, a
<1>7. CASE x.to = "nobody" /\ b # <<>> /\ k = None
  <2>1. y = [x EXCEPT !.s = g, !.to = "client"]
    BY <1>1, <1>3, <1>7
  <2>2. y.s = g /\ y.key = x.key /\ (y.first <=> x.first) /\ y.to = "client" /\ y.also = x.also
    BY <2>1 DEF HandSet
  <2> QED BY <1>7, <2>2 DEF HandToClient, b, y, g, t
<1>8. CASE x.to = "nobody" /\ b # <<>> /\ k # None /\ d = Other
  <2>1. y = [x EXCEPT !.s = t]
    BY <1>1, <1>8
  <2>2. y.s = t /\ y.key = x.key /\ (y.first <=> x.first) /\ y.to = "nobody" /\ y.also = x.also
    BY <1>8, <2>1 DEF HandSet
  <2> QED BY <1>8, <2>2 DEF HandOn, b, y, t
<1>9. CASE x.to = "nobody" /\ b # <<>> /\ k # None /\ d # Other
  <2>1. y = [x EXCEPT !.s = t, !.key = k, !.first = FALSE]
    BY <1>1, <1>9
  <2>2. y.s = t /\ y.key = k /\ ~y.first /\ y.to = "nobody" /\ y.also = x.also
    BY <1>9, <2>1 DEF HandSet
  <2> QED BY <1>9, <2>2 DEF HandOn, b, y, t, k, d
<1> QED BY <1>4, <1>5, <1>6, <1>7, <1>8, <1>9

(* What holds of the way of ele: the slave, the clients and the requests   *)
(* are as they were, the data too unless a client's target has got the     *)
(* element, which is then all that is to be propagated, and the element is *)
(* gone if a client has got it.                                            *)
HandSound(x, s, key, also, ele) ==
  /\ x \in HandSet
  /\ SameClients(s, x.s) /\ x.s.slave = s.slave /\ x.s.renamed = s.renamed
  /\ QueuesSound(x.s) /\ PendingSound(x.s) /\ WaitersSound(x.s)
  /\ s.dict[x.key] # Other
  /\ x.first => x.key = key
  /\ x.to = "list" => x.first /\ x.s.blocking_keys[key] = <<>>
  /\ x.to # "target" => x.also = also /\ x.s.dict = s.dict
  /\ x.to = "target" => /\ x.also = Append(also, Lpush(x.key, <<ele>>))
                        /\ x.s.dict = Put(s.dict, x.key, <<ele>> \o s.dict[x.key])
  /\ x.to # "client" => x.s.live = s.live
  /\ x.to = "client" => x.s.live = s.live \ {ele}

(* As long as the element goes on, a client less is blocked each time.     *)
Fewer(x, y) == y.to = "nobody" => x.to = "nobody" /\ Cardinality(y.s.BLOCKED) = Cardinality(x.s.BLOCKED) - 1

(* What a client is served with, and what is left. *)
LEMMA ServedSound ==
  ASSUME BlockingAssumption, NEW x \in HandSet, x.s.blocking_keys[x.key] # <<>>,
         QueuesSound(x.s), PendingSound(x.s), WaitersSound(x.s)
  PROVE  /\ Served(x) \in SrvSet /\ SameData(x.s, Served(x)) /\ SameClients(x.s, Served(x))
         /\ QueuesSound(Served(x)) /\ PendingSound(Served(x)) /\ WaitersSound(Served(x))
         /\ Cardinality(Served(x).BLOCKED) = Cardinality(x.s.BLOCKED) - 1
         /\ Target(x) \in Keys \cup {None}
<1> DEFINE s == x.s
           c == Receiver(x)
           t == Served(x)
<1>1. s \in SrvSet /\ x.key \in Keys
  BY DEF HandSet
<1>2. c \in s.BLOCKED /\ c \in Clients /\ s.bpop[c] \in Requests
  BY <1>1, FirstIsBlocked DEF Receiver
<1>3. t = unblockClientWaitingData(s, c)
  BY DEF Served
<1>4. Target(x) \in Keys \cup {None}
  BY <1>2 DEF Target, BlockingAssumption, RequestSet
<1> HIDE DEF s, c, t
<1>5. QueuesSound(s) /\ PendingSound(s) /\ WaitersSound(s)
  BY DEF s
<1>6. t \in SrvSet /\ UnblockChanges(s, t, c) /\ SameData(s, t) /\ SameClients(s, t)
  <2>1. Lists(s.blocking_keys, s.bpop)
    BY <1>5 DEF QueuesSound
  <2> QED BY <1>1, <1>2, <1>3, <2>1, UnblockFields
<1>7. QueuesSound(t) /\ Cardinality(t.BLOCKED) = Cardinality(s.BLOCKED) - 1
  BY <1>1, <1>2, <1>5, <1>6, UnblockQueues
<1>8. PendingSound(t)
  BY <1>1, <1>2, <1>5, <1>6, UnblockPending
<1>9. WaitersSound(t)
  BY <1>1, <1>2, <1>5, <1>6, UnblockWaiters
<1> QED BY <1>4, <1>6, <1>7, <1>8, <1>9 DEF s, t

(* A list at a key that nobody waits for. *)
LEMMA PutWaiters ==
  ASSUME NEW s \in SrvSet, NEW k \in Keys, NEW v \in Seq(Nat), WaitersSound(s),
         IsList(v) => s.blocking_keys[k] = <<>> \/ IsList(s.dict[k])
  PROVE  WaitersSound(PutIn(s, k, v))
<1> DEFINE t == PutIn(s, k, v)
<1>1. t.dict = Put(s.dict, k, v) /\ t.renamed = s.renamed /\ t.blocking_keys = s.blocking_keys
  BY PutInFields DEF SameQueues
<1>2. \A l \in Keys : t.dict[l] = IF l = k THEN v ELSE s.dict[l]
  BY <1>1, PutFacts DEF SrvSet
<1> HIDE DEF t
<1>3. WaitersSound(t)
  BY <1>1, <1>2 DEF WaitersSound
<1> QED BY <1>3 DEF t

(* Every step keeps this. *)
LEMMA HandKeepsSound ==
  ASSUME BlockingAssumption, NEW s \in SrvSet, NEW key \in Keys, NEW also \in Seq(OpSet), NEW ele \in Nat,
         NEW x, HandSound(x, s, key, also, ele)
  PROVE  HandSound(HandOver(x, ele), s, key, also, ele) /\ Fewer(x, HandOver(x, ele))
<1> DEFINE y == HandOver(x, ele)
<1>0. x \in HandSet /\ x.s \in SrvSet /\ x.key \in Keys /\ x.also \in Seq(OpSet) /\ x.first \in BOOLEAN
  BY DEF HandSound, HandSet
<1>1. HandDone(x, y) \/ HandToList(x, y) \/ HandToTarget(x, y, ele) \/ HandToClient(x, y, ele) \/ HandOn(x, y)
  BY <1>0, HandCases
<1>a. y \in [s : {y.s}, key : {y.key}, first : {y.first}, to : {y.to}, also : {y.also}] /\ y.first \in BOOLEAN
  BY <1>0 DEF HandOver, HandSet
<1> HIDE DEF y
<1>b. ASSUME y.s \in SrvSet, y.key \in Keys, y.to \in {"nobody", "list", "target", "client"}, y.also \in Seq(OpSet)
      PROVE  y \in HandSet
  BY <1>a, <1>b DEF HandSet
<1>2. CASE HandDone(x, y)
  BY <1>2 DEF HandDone, Fewer, y
<1>3. CASE HandToList(x, y)
  <2>1. y \in HandSet
    BY <1>0, <1>b, <1>3 DEF HandToList
  <2>2. HandSound(y, s, key, also, ele)
    BY <1>3, <2>1 DEF HandToList, HandSound
  <2> QED BY <1>3, <2>2 DEF HandToList, Fewer, y
<1>4. CASE HandToTarget(x, y, ele)
  <2> DEFINE v == <<ele>> \o x.s.dict[x.key]
             op == Lpush(x.key, <<ele>>)
  <2>1. v \in Seq(Nat) /\ op \in OpSet
    BY <1>0, LpushOne DEF SrvSet
  <2>2. x.to = "nobody" /\ x.s.blocking_keys[x.key] = <<>> /\ y.s = PutIn(x.s, x.key, v) /\ y.key = x.key
        /\ (y.first <=> x.first) /\ y.to = "target" /\ y.also = Append(x.also, op)
    BY <1>4 DEF HandToTarget
  <2>3. x.s.dict = s.dict /\ x.also = also /\ v = <<ele>> \o s.dict[x.key]
    BY <2>2 DEF HandSound
  <2> HIDE DEF v, op
  <2>4. /\ y.s \in SrvSet /\ y.s.dict = Put(x.s.dict, x.key, v)
        /\ SameClients(x.s, y.s) /\ SameQueues(x.s, y.s) /\ SamePending(x.s, y.s)
        /\ y.s.slave = x.s.slave /\ y.s.live = x.s.live /\ y.s.renamed = x.s.renamed
    BY <1>0, <2>1, <2>2, PutInFields
  <2>5. Append(x.also, op) \in Seq(OpSet)
    BY <1>0, <2>1
  <2>6. y \in HandSet
    BY <1>0, <1>b, <2>2, <2>4, <2>5
  <2>7. QueuesSound(y.s) /\ PendingSound(y.s)
    BY <2>4, ClientsSame DEF HandSound
  <2>8. WaitersSound(y.s)
    BY <1>0, <2>1, <2>2, PutWaiters DEF HandSound
  <2>9. SameClients(s, y.s)
    BY <2>4 DEF HandSound, SameClients
  <2>10. HandSound(y, s, key, also, ele)
    BY <2>2, <2>3, <2>4, <2>6, <2>7, <2>8, <2>9 DEF HandSound, op
  <2> QED BY <2>2, <2>10 DEF Fewer, y
<1>5. CASE HandToClient(x, y, ele)
  <2> DEFINE t == Served(x)
  <2>1. x.to = "nobody" /\ x.s.blocking_keys[x.key] # <<>> /\ y.s = Gone(t, ele) /\ y.key = x.key
        /\ (y.first <=> x.first) /\ y.to = "client" /\ y.also = x.also
    BY <1>5 DEF HandToClient
  <2>2. /\ t \in SrvSet /\ SameData(x.s, t) /\ SameClients(x.s, t)
        /\ QueuesSound(t) /\ PendingSound(t) /\ WaitersSound(t)
    BY <1>0, <2>1, ServedSound DEF HandSound
  <2> HIDE DEF t
  <2>3. /\ y.s \in SrvSet /\ y.s.live = t.live \ {ele} /\ y.s.dict = t.dict
        /\ SameClients(t, y.s) /\ SameQueues(t, y.s) /\ SamePending(t, y.s)
        /\ y.s.slave = t.slave /\ y.s.renamed = t.renamed
    BY <2>1, <2>2, GoneFields
  <2>4. y \in HandSet
    BY <1>0, <1>b, <2>1, <2>3
  <2>5. QueuesSound(y.s) /\ PendingSound(y.s)
    BY <2>2, <2>3, ClientsSame
  <2>6. WaitersSound(y.s)
    BY <2>2, <2>3 DEF WaitersSound, SameQueues
  <2>7. SameClients(s, y.s)
    BY <2>2, <2>3 DEF HandSound, SameClients
  <2>8. y.s.slave = s.slave /\ y.s.renamed = s.renamed /\ y.s.dict = s.dict /\ y.s.live = s.live \ {ele}
    BY <2>1, <2>2, <2>3 DEF HandSound, SameData
  <2>9. HandSound(y, s, key, also, ele)
    BY <2>1, <2>4, <2>5, <2>6, <2>7, <2>8 DEF HandSound
  <2> QED BY <2>1, <2>9 DEF Fewer, y
<1>6. CASE HandOn(x, y)
  <2> DEFINE t == Served(x)
  <2>1. /\ x.to = "nobody" /\ x.s.blocking_keys[x.key] # <<>> /\ y.s = t /\ y.to = "nobody" /\ y.also = x.also
        /\ \/ y.key = x.key /\ (y.first <=> x.first)
           \/ Target(x) # None /\ x.s.dict[Target(x)] # Other /\ y.key = Target(x) /\ ~y.first
    BY <1>6 DEF HandOn
  <2>2. /\ t \in SrvSet /\ SameData(x.s, t) /\ SameClients(x.s, t)
        /\ QueuesSound(t) /\ PendingSound(t) /\ WaitersSound(t)
        /\ Cardinality(t.BLOCKED) = Cardinality(x.s.BLOCKED) - 1
        /\ Target(x) \in Keys \cup {None}
    BY <1>0, <2>1, ServedSound DEF HandSound
  <2> HIDE DEF t
  <2>3. y \in HandSet
    BY <1>0, <1>b, <2>1, <2>2
  <2>4. x.s.dict = s.dict
    BY <2>1 DEF HandSound
  <2>5. s.dict[y.key] # Other /\ (y.first => y.key = key)
    BY <2>1, <2>4 DEF HandSound
  <2>6. SameClients(s, y.s)
    BY <2>1, <2>2 DEF HandSound, SameClients
  <2>7. y.s.slave = s.slave /\ y.s.renamed = s.renamed /\ y.s.dict = s.dict /\ y.s.live = s.live /\ y.also = also
    BY <2>1, <2>2 DEF HandSound, SameData
  <2>8. HandSound(y, s, key, also, ele)
    BY <2>1, <2>2, <2>3, <2>5, <2>6, <2>7 DEF HandSound
  <2> QED BY <2>1, <2>2, <2>8 DEF Fewer, y
<1> QED BY <1>1, <1>2, <1>3, <1>4, <1>5, <1>6 DEF y

(* handleClientsWaitingListPush: in the end the element has come to the    *)
(* list of the command, to a target or to a client.                        *)
LEMMA HandResult ==
  ASSUME BlockingAssumption, NEW s \in SrvSet, NEW key \in Keys, NEW also \in Seq(OpSet), NEW ele \in Nat,
         QueuesSound(s), PendingSound(s), WaitersSound(s), s.dict[key] # Other
  PROVE  /\ HandSound(handleClientsWaitingListPush(s, key, ele, also), s, key, also, ele)
         /\ handleClientsWaitingListPush(s, key, ele, also).to # "nobody"
<1> DEFINE n == Cardinality(Clients) + 1
           q == [i \in 1 .. n |-> i]
           b == [s |-> s, key |-> key, first |-> TRUE, to |-> "nobody", also |-> also]
           S == { x \in HandSet : HandSound(x, s, key, also, ele) }
           T == { p \in Nat \X HandSet : p[2].to = "nobody" => Cardinality(p[2].s.BLOCKED) + p[1] <= Cardinality(Clients) }
           h == handleClientsWaitingListPush(s, key, ele, also)
<1>1. h = HandAll(b, q, ele)
  BY Zenon DEF handleClientsWaitingListPush, HandAll
<1>2. Cardinality(Clients) \in Nat /\ \A X \in SUBSET Clients : Cardinality(X) \in Nat /\ Cardinality(X) <= Cardinality(Clients)
  BY ClientsFinite
<1>3. q \in Seq(Nat) /\ Len(q) = n /\ n \in Nat
  BY <1>2
<1>4. b \in HandSet /\ b.s = s /\ b.key = key /\ b.first /\ b.to = "nobody" /\ b.also = also
  BY DEF HandSet
<1> HIDE DEF b, h
<1>5. HandSound(b, s, key, also, ele)
  <2>1. SameClients(s, b.s)
    BY <1>4 DEF SameClients
  <2> QED BY <1>4, <2>1 DEF HandSound
<1>6. HandKeeps(S, Nat, ele)
  <2> SUFFICES ASSUME NEW x \in S PROVE HandOver(x, ele) \in S
    BY DEF HandKeeps
  <2>1. HandSound(HandOver(x, ele), s, key, also, ele)
    BY HandKeepsSound
  <2>2. HandOver(x, ele) \in HandSet
    BY <2>1 DEF HandSound
  <2> QED BY <2>1, <2>2
<1>7. <<0, b>> \in T
  <2>1. b.s.BLOCKED \in SUBSET Clients
    BY <1>4 DEF SrvSet
  <2> QED BY <1>2, <1>4, <2>1
<1>8. HandInductive(T, S, q, ele)
  <2> SUFFICES ASSUME NEW i \in 0 .. Len(q) - 1, NEW x \in S, <<i, x>> \in T
               PROVE  <<i + 1, HandOver(x, ele)>> \in T
    BY DEF HandInductive
  <2> DEFINE y == HandOver(x, ele)
  <2>1. HandSound(y, s, key, also, ele) /\ Fewer(x, y)
    BY HandKeepsSound
  <2>2. y \in HandSet /\ x \in HandSet /\ i \in Nat
    BY <2>1 DEF HandSound
  <2> HIDE DEF y
  <2>3. y.s.BLOCKED \in SUBSET Clients /\ x.s.BLOCKED \in SUBSET Clients
    BY <2>2 DEF HandSet, SrvSet
  <2>4. y.to = "nobody" => Cardinality(y.s.BLOCKED) + (i + 1) <= Cardinality(Clients)
    <3> SUFFICES ASSUME y.to = "nobody" PROVE Cardinality(y.s.BLOCKED) + (i + 1) <= Cardinality(Clients)
      OBVIOUS
    <3>1. x.to = "nobody" /\ Cardinality(y.s.BLOCKED) = Cardinality(x.s.BLOCKED) - 1
      BY <2>1 DEF Fewer
    <3>2. Cardinality(x.s.BLOCKED) + i <= Cardinality(Clients)
      BY <3>1
    <3>3. Cardinality(x.s.BLOCKED) \in Nat
      BY <1>2, <2>3
    <3> QED BY <1>2, <2>2, <3>1, <3>2, <3>3
  <2>5. <<i + 1, y>> \in T
    BY <2>2, <2>4
  <2> QED BY <2>5 DEF y
<1>9. b \in S
  BY <1>4, <1>5
<1> HIDE DEF S, T, q
<1>10. h \in S
  BY <1>1, <1>3, <1>6, <1>9, HandStays
<1>11. <<Len(q), h>> \in T
  BY <1>1, <1>3, <1>6, <1>7, <1>8, <1>9, HandInduct
<1>12. HandSound(h, s, key, also, ele)
  BY <1>10 DEF S
<1>13. h.to # "nobody"
  <2>1. SUFFICES ASSUME h.to = "nobody" PROVE FALSE
    OBVIOUS
  <2>2. Cardinality(h.s.BLOCKED) + n <= Cardinality(Clients)
    BY <1>3, <1>11, <2>1 DEF T
  <2>3. h.s.BLOCKED \in SUBSET Clients
    BY <1>12 DEF HandSound, HandSet, SrvSet
  <2> QED BY <1>2, <2>2, <2>3
<1> QED BY <1>12, <1>13 DEF h

-----------------------------------------------------------------------------
(* The elements of a command.                                              *)
PushSet == [s : SrvSet, also : Seq(OpSet), lobj : BOOLEAN, may_wait : BOOLEAN, pushed : Seq(Nat), aborted : BOOLEAN]

Handed(x, key, e) == handleClientsWaitingListPush(x.s, key, e, x.also)

(* The server that an element that is not handed over is pushed in. *)
Listed(x, key, e) == IF x.may_wait THEN Handed(x, key, e).s ELSE x.s

(* One step of PushElement, by its cases. *)
PushDone(x, y) == x.aborted /\ y = x
PushHanded(x, y, key, e) ==
  /\ ~x.aborted /\ x.may_wait /\ Handed(x, key, e).to # "list"
  /\ y.s = Handed(x, key, e).s /\ y.also = Handed(x, key, e).also
  /\ (y.lobj <=> x.lobj) /\ (y.may_wait <=> x.may_wait) /\ y.pushed = x.pushed /\ ~y.aborted
PushAborts(x, y, key, e) ==
  /\ ~x.aborted /\ ~x.lobj /\ (x.may_wait => Handed(x, key, e).to = "list") /\ Listed(x, key, e).dict[key] # <<>>
  /\ y.aborted /\ y.s = x.s /\ y.also = x.also
  /\ (y.lobj <=> x.lobj) /\ (y.may_wait <=> x.may_wait) /\ y.pushed = x.pushed
PushListed(x, y, key, e) ==
  /\ ~x.aborted /\ (x.may_wait => Handed(x, key, e).to = "list")
  /\ ~x.lobj => Listed(x, key, e).dict[key] = <<>>
  /\ y.s = PutIn(Listed(x, key, e), key, <<e>> \o Listed(x, key, e).dict[key])
  /\ y.also = x.also /\ y.lobj /\ ~y.may_wait /\ y.pushed = Append(x.pushed, e) /\ ~y.aborted

(* There are no others. *)
LEMMA PushCases ==
  ASSUME NEW x \in PushSet, NEW key, NEW e
  PROVE  \/ PushDone(x, PushElement(x, key, e)) \/ PushHanded(x, PushElement(x, key, e), key, e)
         \/ PushAborts(x, PushElement(x, key, e), key, e) \/ PushListed(x, PushElement(x, key, e), key, e)
<1> DEFINE h == Handed(x, key, e)
           y == PushElement(x, key, e)
           s == Listed(x, key, e)
           p == PutIn(s, key, <<e>> \o s.dict[key])
           u == Append(x.pushed, e)
<1>1. y = IF x.aborted THEN x
          ELSE IF x.may_wait /\ h.to # "list" THEN [x EXCEPT !.s = s, !.also = h.also]
          ELSE IF ~x.lobj /\ s.dict[key] # <<>> THEN [x EXCEPT !.aborted = TRUE]
          ELSE [x EXCEPT !.s = [s EXCEPT !.dict[key] = <<e>> \o @], !.may_wait = FALSE, !.lobj = TRUE,
                         !.pushed = Append(@, e)]
  BY Zenon DEF PushElement, Handed, Listed
<1>2. [s EXCEPT !.dict[key] = <<e>> \o @] = p
  BY DEF PutIn
<1>3. x.may_wait => s = h.s
  BY DEF Listed
<1> HIDE DEF h, y, s, p, u
<1>4. CASE x.aborted
  BY <1>1, <1>4 DEF PushDone, y
<1>5. CASE ~x.aborted /\ x.may_wait /\ h.to # "list"
  <2>1. y = [x EXCEPT !.s = s, !.also = h.also]
    BY <1>1, <1>5
  <2>2. y.s = s /\ y.also = h.also /\ (y.lobj <=> x.lobj) /\ (y.may_wait <=> x.may_wait) /\ y.pushed = x.pushed
        /\ (y.aborted <=> x.aborted)
    BY <2>1 DEF PushSet
  <2> QED BY <1>3, <1>5, <2>2 DEF PushHanded, y, h
<1>6. CASE ~x.aborted /\ ~(x.may_wait /\ h.to # "list") /\ ~x.lobj /\ s.dict[key] # <<>>
  <2>1. y = [x EXCEPT !.aborted = TRUE]
    BY <1>1, <1>6
  <2>2. y.s = x.s /\ y.also = x.also /\ (y.lobj <=> x.lobj) /\ (y.may_wait <=> x.may_wait) /\ y.pushed = x.pushed
        /\ y.aborted
    BY <2>1 DEF PushSet
  <2> QED BY <1>6, <2>2 DEF PushAborts, y, h, s
<1>7. CASE ~x.aborted /\ ~(x.may_wait /\ h.to # "list") /\ ~(~x.lobj /\ s.dict[key] # <<>>)
  <2>1. y = [x EXCEPT !.s = p, !.may_wait = FALSE, !.lobj = TRUE, !.pushed = u]
    BY <1>1, <1>2, <1>7 DEF u
  <2>2. y.s = p /\ y.also = x.also /\ y.lobj /\ ~y.may_wait /\ y.pushed = u /\ (y.aborted <=> x.aborted)
    BY <2>1 DEF PushSet
  <2> QED BY <1>7, <2>2 DEF PushListed, y, h, s, p, u
<1> QED BY <1>4, <1>5, <1>6, <1>7

(* A step has a record with these fields. *)
LEMMA PushRecord ==
  ASSUME NEW x \in PushSet, NEW key, NEW e,
         PushElement(x, key, e).s \in SrvSet, PushElement(x, key, e).also \in Seq(OpSet),
         PushElement(x, key, e).pushed \in Seq(Nat)
  PROVE  PushElement(x, key, e) \in PushSet
<1> DEFINE h == Handed(x, key, e)
           y == PushElement(x, key, e)
           s == Listed(x, key, e)
           p == PutIn(s, key, <<e>> \o s.dict[key])
           u == Append(x.pushed, e)
<1>1. y = IF x.aborted THEN x
          ELSE IF x.may_wait /\ h.to # "list" THEN [x EXCEPT !.s = s, !.also = h.also]
          ELSE IF ~x.lobj /\ s.dict[key] # <<>> THEN [x EXCEPT !.aborted = TRUE]
          ELSE [x EXCEPT !.s = [s EXCEPT !.dict[key] = <<e>> \o @], !.may_wait = FALSE, !.lobj = TRUE,
                         !.pushed = Append(@, e)]
  BY Zenon DEF PushElement, Handed, Listed
<1>2. [s EXCEPT !.dict[key] = <<e>> \o @] = p
  BY DEF PutIn
<1>3. y.s \in SrvSet /\ y.also \in Seq(OpSet) /\ y.pushed \in Seq(Nat)
  OBVIOUS
<1> HIDE DEF h, y, s, p, u
<1>4. y = x \/ y = [x EXCEPT !.s = s, !.also = h.also] \/ y = [x EXCEPT !.aborted = TRUE]
      \/ y = [x EXCEPT !.s = p, !.may_wait = FALSE, !.lobj = TRUE, !.pushed = u]
  BY <1>1, <1>2 DEF u
<1>5. CASE y = x
  BY <1>5 DEF y
<1>6. CASE y = [x EXCEPT !.s = s, !.also = h.also]
  <2>1. s \in SrvSet /\ h.also \in Seq(OpSet)
    BY <1>3, <1>6 DEF PushSet
  <2>2. y \in PushSet
    BY <1>6, <2>1 DEF PushSet
  <2> QED BY <2>2 DEF y
<1>7. CASE y = [x EXCEPT !.aborted = TRUE]
  <2>1. y \in PushSet
    BY <1>7 DEF PushSet
  <2> QED BY <2>1 DEF y
<1>8. CASE y = [x EXCEPT !.s = p, !.may_wait = FALSE, !.lobj = TRUE, !.pushed = u]
  <2>1. p \in SrvSet /\ u \in Seq(Nat)
    BY <1>3, <1>8 DEF PushSet
  <2>2. y \in PushSet
    BY <1>8, <2>1 DEF PushSet
  <2> QED BY <2>2 DEF y
<1> QED BY <1>4, <1>5, <1>6, <1>7, <1>8

(* What holds after each element: the data are what the slave would make   *)
(* of the elements pushed so far and of what else is to be propagated,     *)
(* none of which is at the key of the command once an element has been     *)
(* pushed there.                                                           *)
PushSound(x, s, key) ==
  /\ x \in PushSet
  /\ SameClients(s, x.s) /\ x.s.slave = s.slave /\ x.s.renamed = s.renamed
  /\ QueuesSound(x.s) /\ PendingSound(x.s) /\ WaitersSound(x.s)
  /\ x.s.dict[key] # Other
  /\ x.s.dict = ReplayAll(Replayed(s.dict, Lpush(key, x.pushed)), x.also)
  /\ x.may_wait => x.pushed = <<>> /\ ~x.lobj
  /\ ~x.may_wait => x.lobj /\ IsList(x.s.dict[key])
  /\ ~x.may_wait \/ x.s.dict[key] = <<>> => x.also \in Seq(OpsNotAt(key))

(* An element leaves for a client or comes to a list. *)
ElementMoves(x, y, e) ==
  ~y.aborted =>
    /\ ~x.aborted
    /\ \/ y.s.dict = x.s.dict /\ y.s.live = x.s.live \ {e}
       \/ /\ y.s.live = x.s.live
          /\ \E k \in Keys : x.s.dict[k] # Other /\ y.s.dict = Put(x.s.dict, k, <<e>> \o x.s.dict[k])

(* A list that begins with an element is not another value. *)
LEMMA PushedIsList ==
  ASSUME NEW e \in Elem, NEW v \in Seq(Nat)
  PROVE  /\ <<e>> \o v \in Seq(Nat) /\ IsList(<<e>> \o v)
         /\ <<e>> \o v # <<>> /\ <<e>> \o v # Other
<1> DEFINE w == <<e>> \o v
<1>1. e \in Nat /\ e # 0
  BY DEF Elem
<1>2. <<e>> \in Seq(Nat) /\ Len(<<e>>) = 1 /\ <<e>>[1] = e
  BY <1>1
<1>3. w \in Seq(Nat) /\ Len(w) = 1 + Len(v) /\ \A i \in 1 .. 1 + Len(v) : w[i] = IF i <= 1 THEN <<e>>[i] ELSE v[i - 1]
  BY <1>2, ConcatProperties
<1>4. Len(v) \in Nat /\ 1 \in 1 .. 1 + Len(v)
  OBVIOUS
<1>5. w[1] = e
  BY <1>2, <1>3, <1>4
<1> HIDE DEF w
<1>6. w # <<>>
  BY <1>3, <1>4
<1>7. w # Other
  BY <1>1, <1>5 DEF Other
<1> QED BY <1>3, <1>6, <1>7 DEF w, IsList

(* Every step keeps this. *)
LEMMA PushKeepsSound ==
  ASSUME BlockingAssumption, NEW s \in SrvSet, NEW key \in Keys, NEW e \in Elem, NEW x, PushSound(x, s, key)
  PROVE  PushSound(PushElement(x, key, e), s, key) /\ ElementMoves(x, PushElement(x, key, e), e)
<1> DEFINE y == PushElement(x, key, e)
           h == Handed(x, key, e)
           D == Replayed(s.dict, Lpush(key, x.pushed))
<1>0. /\ x \in PushSet /\ x.s \in SrvSet /\ x.also \in Seq(OpSet) /\ x.pushed \in Seq(Nat) /\ e \in Nat
      /\ s.dict \in DictSet /\ x.s.dict \in DictSet
  BY DEF PushSound, PushSet, SrvSet, Elem
<1>1. HandSound(h, x.s, key, x.also, e) /\ h.to # "nobody"
  BY <1>0, HandResult DEF PushSound, Handed
<1>2. PushDone(x, y) \/ PushHanded(x, y, key, e) \/ PushAborts(x, y, key, e) \/ PushListed(x, y, key, e)
  BY <1>0, PushCases
<1>3. y.s \in SrvSet /\ y.also \in Seq(OpSet) /\ y.pushed \in Seq(Nat) => y \in PushSet
  BY <1>0, PushRecord
<1>4. D \in DictSet /\ D = Put(s.dict, key, Reverse(x.pushed) \o s.dict[key]) /\ Reverse(x.pushed) \o s.dict[key] \in Seq(Nat)
  <2>1. Lpush(key, x.pushed) \in OpSet /\ D = Put(s.dict, key, Reverse(x.pushed) \o s.dict[key])
        /\ Reverse(x.pushed) \o s.dict[key] \in Seq(Nat)
    BY <1>0, LpushPuts
  <2> DEFINE V == Reverse(x.pushed) \o s.dict[key]
  <2> HIDE DEF V
  <2>2. V \in Seq(Nat) /\ D = Put(s.dict, key, V)
    BY <2>1 DEF V
  <2> HIDE DEF D
  <2>3. Put(s.dict, key, V) \in DictSet
    BY <1>0, <2>2, PutFacts
  <2> QED BY <2>1, <2>2, <2>3
<1>5. x.s.dict = ReplayAll(D, x.also)
  BY DEF PushSound
<1> HIDE DEF y, h, D
<1>6. CASE PushDone(x, y)
  BY <1>6 DEF PushDone, ElementMoves, y
<1>7. CASE PushAborts(x, y, key, e)
  <2>1. y \in PushSet
    BY <1>0, <1>3, <1>7 DEF PushAborts
  <2>2. PushSound(y, s, key)
    BY <1>7, <2>1 DEF PushAborts, PushSound
  <2>3. ElementMoves(x, y, e)
    BY <1>7 DEF PushAborts, ElementMoves
  <2> QED BY <2>2, <2>3 DEF y
<1>8. CASE PushHanded(x, y, key, e)
  <2>1. /\ ~x.aborted /\ x.may_wait /\ h.to # "list" /\ y.s = h.s /\ y.also = h.also
        /\ (y.lobj <=> x.lobj) /\ (y.may_wait <=> x.may_wait) /\ y.pushed = x.pushed /\ ~y.aborted
    BY <1>8 DEF PushHanded, h
  <2>2. h \in HandSet /\ h.s \in SrvSet /\ h.also \in Seq(OpSet) /\ h.key \in Keys
    BY <1>1 DEF HandSound, HandSet
  <2>3. y \in PushSet
    BY <1>0, <1>3, <2>1, <2>2
  <2>4. SameClients(s, y.s) /\ y.s.slave = s.slave /\ y.s.renamed = s.renamed
        /\ QueuesSound(y.s) /\ PendingSound(y.s) /\ WaitersSound(y.s)
    BY <1>1, <2>1 DEF PushSound, HandSound, SameClients
  <2>5. CASE h.to = "target"
    <3> DEFINE v == <<e>> \o x.s.dict[h.key]
               op == Lpush(h.key, <<e>>)
    <3>1. h.also = Append(x.also, op) /\ h.s.dict = Put(x.s.dict, h.key, v) /\ x.s.dict[h.key] # Other
          /\ h.s.live = x.s.live
      BY <1>1, <2>5 DEF HandSound
    <3>2. v \in Seq(Nat) /\ v # <<>> /\ v # Other
      <4>1. x.s.dict[h.key] \in Seq(Nat)
        BY <1>0, <2>2 DEF DictSet
      <4> QED BY <4>1, PushedIsList
    <3>3. op \in OpSet /\ op.key = h.key /\ Replayed(x.s.dict, op) = Put(x.s.dict, h.key, v)
      BY <1>0, <2>2, LpushOne
    <3> HIDE DEF v, op
    <3>4. y.s.dict = ReplayAll(D, y.also)
      <4>1. ReplayAll(D, Append(x.also, op)) = Replayed(ReplayAll(D, x.also), op)
        BY <1>0, <1>4, <3>3, ReplayFacts
      <4> QED BY <1>5, <2>1, <3>1, <3>3, <4>1
    <3>5. \A l \in Keys : y.s.dict[l] = IF l = h.key THEN v ELSE x.s.dict[l]
      <4>1. \A l \in Keys : Put(x.s.dict, h.key, v)[l] = IF l = h.key THEN v ELSE x.s.dict[l]
        <5> DEFINE d == x.s.dict
                   k == h.key
        <5>1. d \in DictSet /\ k \in Keys
          BY <1>0, <2>2
        <5> HIDE DEF d, k
        <5>2. Put(d, k, v) \in DictSet /\ \A l \in Keys : Put(d, k, v)[l] = IF l = k THEN v ELSE d[l]
          BY <3>2, <5>1, PutFacts
        <5> QED BY <5>2 DEF d, k
      <4> QED BY <2>1, <3>1, <4>1
    <3>6. y.s.dict[key] # Other
      BY <3>2, <3>5 DEF PushSound
    <3>7. ASSUME y.s.dict[key] = <<>> PROVE y.also \in Seq(OpsNotAt(key))
      <4>1. h.key # key /\ x.s.dict[key] = <<>>
        BY <3>2, <3>5, <3>7
      <4>2. x.also \in Seq(OpsNotAt(key))
        BY <4>1 DEF PushSound
      <4>3. op \in OpsNotAt(key)
        BY <3>3, <4>1 DEF OpsNotAt
      <4>4. Append(x.also, op) \in Seq(OpsNotAt(key))
        BY <4>2, <4>3
      <4> QED BY <2>1, <3>1, <4>4
    <3>8. x.may_wait /\ x.pushed = <<>> /\ ~x.lobj
      BY <2>1 DEF PushSound
    <3>9. PushSound(y, s, key)
      BY <2>1, <2>3, <2>4, <3>4, <3>6, <3>7, <3>8 DEF PushSound, D
    <3>10. ElementMoves(x, y, e)
      BY <2>1, <2>2, <3>1 DEF ElementMoves, v
    <3> QED BY <3>9, <3>10 DEF y
  <2>6. CASE h.to = "client"
    <3>1. h.also = x.also /\ h.s.dict = x.s.dict /\ h.s.live = x.s.live \ {e}
      BY <1>1, <2>6 DEF HandSound
    <3>2. PushSound(y, s, key)
      BY <2>1, <2>3, <2>4, <3>1 DEF PushSound
    <3>3. ElementMoves(x, y, e)
      BY <2>1, <3>1 DEF ElementMoves
    <3> QED BY <3>2, <3>3 DEF y
  <2>7. h.to \in {"nobody", "list", "target", "client"}
    BY <2>2 DEF HandSet
  <2> QED BY <1>1, <2>1, <2>5, <2>6, <2>7
<1>9. CASE PushListed(x, y, key, e)
  <2> DEFINE t == Listed(x, key, e)
             V == Reverse(x.pushed) \o s.dict[key]
             v == <<e>> \o t.dict[key]
  <2>1. /\ ~x.aborted /\ (x.may_wait => h.to = "list") /\ (~x.lobj => t.dict[key] = <<>>)
        /\ y.s = PutIn(t, key, v) /\ y.also = x.also /\ y.lobj /\ ~y.may_wait /\ y.pushed = Append(x.pushed, e)
        /\ ~y.aborted
    BY <1>9 DEF PushListed, h
  <2>2. /\ t \in SrvSet /\ t.dict = x.s.dict /\ t.live = x.s.live
        /\ SameClients(s, t) /\ t.slave = s.slave /\ t.renamed = s.renamed
        /\ QueuesSound(t) /\ PendingSound(t) /\ WaitersSound(t)
        /\ t.blocking_keys[key] = <<>> \/ IsList(t.dict[key])
    <3>1. CASE x.may_wait
      <4>1. t = h.s /\ h.to = "list"
        BY <2>1, <3>1 DEF Listed, h
      <4>2. h.s \in SrvSet /\ h.s.dict = x.s.dict /\ h.s.live = x.s.live /\ h.s.blocking_keys[key] = <<>>
        BY <1>1, <4>1 DEF HandSound, HandSet
      <4>3. /\ SameClients(s, h.s) /\ h.s.slave = s.slave /\ h.s.renamed = s.renamed
            /\ QueuesSound(h.s) /\ PendingSound(h.s) /\ WaitersSound(h.s)
        BY <1>1 DEF HandSound, PushSound, SameClients
      <4> HIDE DEF t
      <4> QED BY <4>1, <4>2, <4>3
    <3>2. CASE ~x.may_wait
      <4>1. t = x.s
        BY <3>2 DEF Listed
      <4> HIDE DEF t
      <4> QED BY <1>0, <3>2, <4>1 DEF PushSound
    <3> QED BY <3>1, <3>2
  <2> HIDE DEF t
  <2>3. x.also \in Seq(OpsNotAt(key))
    <3>1. CASE x.may_wait
      <4>1. ~x.lobj
        BY <3>1 DEF PushSound
      <4> QED BY <2>1, <2>2, <4>1 DEF PushSound
    <3>2. CASE ~x.may_wait
      BY <3>2 DEF PushSound
    <3> QED BY <3>1, <3>2
  <2>4. V \in Seq(Nat) /\ D = Put(s.dict, key, V)
    BY <1>4
  <2>5. x.s.dict[key] = V
    <3>1. ReplayAll(D, x.also)[key] = D[key]
      BY <1>4, <2>3, <2>4, ReplayCommutes
    <3>2. D[key] = V
      <4> DEFINE d == s.dict
      <4>1. d \in DictSet /\ V \in Seq(Nat) /\ D = Put(d, key, V)
        BY <1>0, <2>4
      <4> HIDE DEF d, V
      <4>2. Put(d, key, V) \in DictSet /\ \A l \in Keys : Put(d, key, V)[l] = IF l = key THEN V ELSE d[l]
        BY <4>1, PutFacts
      <4> QED BY <4>1, <4>2
    <3> QED BY <1>5, <3>1, <3>2
  <2>6. v = <<e>> \o V /\ v \in Seq(Nat) /\ IsList(v) /\ v # Other
    <3> HIDE DEF V
    <3> QED BY <2>2, <2>4, <2>5, PushedIsList
  <2>7. v = Reverse(Append(x.pushed, e)) \o s.dict[key]
    <3>1. s.dict[key] \in Seq(Nat)
      BY <1>0 DEF DictSet
    <3>2. Reverse(Append(x.pushed, e)) \o s.dict[key] = <<e>> \o (Reverse(x.pushed) \o s.dict[key])
      BY <1>0, <3>1, ReverseAppend
    <3> HIDE DEF v
    <3> QED BY <2>6, <3>2 DEF V
  <2>8. Append(x.pushed, e) \in Seq(Nat)
    BY <1>0
  <2>9. Replayed(s.dict, Lpush(key, y.pushed)) = Put(s.dict, key, v)
    <3>1. Replayed(s.dict, Lpush(key, Append(x.pushed, e))) = Put(s.dict, key, Reverse(Append(x.pushed, e)) \o s.dict[key])
      BY <1>0, <2>8, LpushPuts
    <3> HIDE DEF v
    <3> QED BY <2>1, <2>7, <3>1
  <2> HIDE DEF v, V
  <2>10. /\ y.s \in SrvSet /\ y.s.dict = Put(t.dict, key, v)
         /\ SameClients(t, y.s) /\ SameQueues(t, y.s) /\ SamePending(t, y.s)
         /\ y.s.slave = t.slave /\ y.s.live = t.live /\ y.s.renamed = t.renamed
    <3> DEFINE z == PutIn(t, key, v)
    <3>1. /\ z \in SrvSet /\ z.dict = Put(t.dict, key, v)
          /\ SameClients(t, z) /\ SameQueues(t, z) /\ SamePending(t, z)
          /\ z.slave = t.slave /\ z.live = t.live /\ z.renamed = t.renamed
      BY <2>2, <2>6, PutInFields
    <3> HIDE DEF z
    <3>2. y.s = z
      BY <2>1 DEF z
    <3> QED BY <3>1, <3>2
  <2>11. y.s.dict = ReplayAll(Replayed(s.dict, Lpush(key, y.pushed)), y.also)
    <3>1. ReplayAll(Put(D, key, v), x.also) = Put(ReplayAll(D, x.also), key, v)
      BY <1>4, <2>3, <2>6, ReplayCommutes
    <3>2. Put(D, key, v) = Put(s.dict, key, v)
      BY <1>0, <2>4, <2>6 DEF Put, DictSet
    <3> QED BY <1>5, <2>1, <2>2, <2>9, <2>10, <3>1, <3>2
  <2>12. y \in PushSet
    BY <1>0, <1>3, <2>1, <2>8, <2>10
  <2>13. y.s.dict[key] = v
    <3>1. Put(x.s.dict, key, v)[key] = v
      <4> DEFINE d == x.s.dict
      <4>1. d \in DictSet /\ v \in Seq(Nat)
        BY <1>0, <2>6
      <4> HIDE DEF d
      <4>2. Put(d, key, v) \in DictSet /\ \A l \in Keys : Put(d, key, v)[l] = IF l = key THEN v ELSE d[l]
        BY <4>1, PutFacts
      <4> QED BY <4>2 DEF d
    <3> QED BY <2>2, <2>10, <3>1
  <2>14. QueuesSound(y.s) /\ PendingSound(y.s)
    BY <2>2, <2>10, ClientsSame
  <2>15. WaitersSound(y.s)
    BY <2>1, <2>2, <2>6, PutWaiters
  <2>16. SameClients(s, y.s)
    BY <2>2, <2>10 DEF SameClients
  <2>17. y.s.slave = s.slave /\ y.s.renamed = s.renamed
    BY <2>2, <2>10
  <2>18. PushSound(y, s, key)
    BY <2>1, <2>3, <2>6, <2>11, <2>12, <2>13, <2>14, <2>15, <2>16, <2>17 DEF PushSound
  <2>19. ElementMoves(x, y, e)
    <3>1. y.s.live = x.s.live /\ y.s.dict = Put(x.s.dict, key, <<e>> \o x.s.dict[key]) /\ x.s.dict[key] # Other
      BY <2>2, <2>10 DEF PushSound, v
    <3> QED BY <2>1, <3>1 DEF ElementMoves
  <2> QED BY <2>18, <2>19 DEF y
<1> QED BY <1>2, <1>6, <1>7, <1>8, <1>9

-----------------------------------------------------------------------------
(* The commands.  What holds of the server after each of them.             *)
ServerSound(s) ==
  /\ s \in SrvSet /\ QueuesSound(s) /\ PendingSound(s) /\ WaitersSound(s)
  /\ Stored(s.dict, s.live) /\ s.slave = s.dict

WithLive(s, X) == [s EXCEPT !.live = @ \cup X]

(* propagate: only the slave is concerned. *)
LEMMA PropagateFields ==
  ASSUME NEW s \in SrvSet, NEW ops \in Seq(OpSet)
  PROVE  /\ propagate(s, ops) \in SrvSet /\ propagate(s, ops).slave = ReplayAll(s.slave, ops)
         /\ propagate(s, ops).dict = s.dict /\ propagate(s, ops).live = s.live /\ propagate(s, ops).renamed = s.renamed
         /\ SameClients(s, propagate(s, ops)) /\ SameQueues(s, propagate(s, ops)) /\ SamePending(s, propagate(s, ops))
<1> DEFINE D == ReplayAll(s.slave, ops)
           t == [s EXCEPT !.slave = D]
<1>1. propagate(s, ops) = t
  BY Zenon DEF propagate, ReplayAll
<1>2. D \in DictSet
  <2>1. s.slave \in DictSet
    BY DEF SrvSet
  <2> QED BY <2>1, ReplayFacts
<1> HIDE DEF D
<1>3. t \in SrvSet /\ t.slave = D
  BY <1>2 DEF SrvSet
<1>4. t.dict = s.dict /\ t.live = s.live /\ t.renamed = s.renamed
      /\ SameClients(s, t) /\ SameQueues(s, t) /\ SamePending(s, t)
  BY DEF SrvSet, SameClients, SameQueues, SamePending
<1> HIDE DEF t
<1> QED BY <1>1, <1>3, <1>4 DEF D

(* A server is sound when what has been done to it has been propagated. *)
LEMMA PropagateSound ==
  ASSUME NEW s \in SrvSet, NEW ops \in Seq(OpSet), QueuesSound(s), PendingSound(s), WaitersSound(s),
         Stored(s.dict, s.live), ReplayAll(s.slave, ops) = s.dict
  PROVE  ServerSound(propagate(s, ops)) /\ SameClients(s, propagate(s, ops))
<1> DEFINE t == propagate(s, ops)
<1>1. /\ t \in SrvSet /\ t.slave = s.dict /\ t.dict = s.dict /\ t.live = s.live /\ t.renamed = s.renamed
      /\ SameClients(s, t) /\ SameQueues(s, t) /\ SamePending(s, t)
  BY PropagateFields
<1> HIDE DEF t
<1>2. QueuesSound(t) /\ PendingSound(t)
  BY <1>1, ClientsSame
<1>3. WaitersSound(t)
  BY <1>1 DEF WaitersSound, SameQueues
<1>4. ServerSound(t)
  BY <1>1, <1>2, <1>3 DEF ServerSound
<1> QED BY <1>1, <1>4 DEF t

(* The elements that have not been pushed yet. *)
Rest(els, i) == { els[j] : j \in i + 1 .. Len(els) }

(* All of them, one less, and none. *)
LEMMA RestFacts ==
  ASSUME NEW els, IsListOf(els)
  PROVE  /\ Rest(els, 0) = ToSet(els) /\ Rest(els, Len(els)) = {}
         /\ \A i \in 0 .. Len(els) - 1 : /\ els[i + 1] \in Rest(els, i) /\ els[i + 1] \in Elem
                                         /\ Rest(els, i + 1) = Rest(els, i) \ {els[i + 1]}
<1>1. els \in Seq(Elem) /\ Len(els) \in Nat /\ DOMAIN els = 1 .. Len(els)
  BY DEF IsListOf
<1>2. Rest(els, 0) = ToSet(els)
  BY <1>1 DEF Rest, ToSet
<1>3. Rest(els, Len(els)) = {}
  BY <1>1 DEF Rest
<1>4. ASSUME NEW i \in 0 .. Len(els) - 1
      PROVE  els[i + 1] \in Rest(els, i) /\ els[i + 1] \in Elem /\ Rest(els, i + 1) = Rest(els, i) \ {els[i + 1]}
  <2>1. i + 1 \in 1 .. Len(els) /\ i + 1 \in i + 1 .. Len(els)
    BY <1>1
  <2>2. \A j \in i + 1 .. Len(els) : j \in 1 .. Len(els) /\ (j = i + 1 \/ j \in (i + 1) + 1 .. Len(els))
    BY <1>1
  <2>3. \A j \in (i + 1) + 1 .. Len(els) : j \in i + 1 .. Len(els) /\ j # i + 1
    BY <1>1
  <2>4. \A j \in i + 1 .. Len(els) : els[j] = els[i + 1] => j = i + 1
    BY <2>1, <2>2 DEF IsListOf
  <2>5. els[i + 1] \in Elem
    BY <1>1, <2>1
  <2> QED BY <2>1, <2>2, <2>3, <2>4, <2>5 DEF Rest
<1> QED BY <1>2, <1>3, <1>4

(* An element that moves is stored or gone. *)
LEMMA MovesStored ==
  ASSUME BlockingAssumption, NEW x \in PushSet, NEW y \in PushSet, NEW e \in Elem, NEW R, NEW Q,
         ElementMoves(x, y, e), ~y.aborted, e \in R, Q = R \ {e},
         R \subseteq x.s.live, Stored(x.s.dict, x.s.live \ R)
  PROVE  Q \subseteq y.s.live /\ Stored(y.s.dict, y.s.live \ Q)
<1>1. x.s.dict \in DictSet
  BY DEF PushSet, SrvSet
<1>2. CASE y.s.dict = x.s.dict /\ y.s.live = x.s.live \ {e}
  <2>1. y.s.live \ Q = x.s.live \ R
    BY <1>2
  <2> QED BY <1>2, <2>1
<1>3. ASSUME y.s.live = x.s.live, NEW k \in Keys, x.s.dict[k] # Other,
             y.s.dict = Put(x.s.dict, k, <<e>> \o x.s.dict[k])
      PROVE  Q \subseteq y.s.live /\ Stored(y.s.dict, y.s.live \ Q)
  <2>1. y.s.live \ Q = (x.s.live \ R) \cup {e} /\ e \notin x.s.live \ R
    BY <1>3
  <2> DEFINE L == x.s.live \ R
             d == x.s.dict
  <2>2. Stored(d, L) /\ d \in DictSet /\ d[k] # Other /\ e \notin L
    BY <1>1, <1>3, <2>1
  <2> HIDE DEF L, d
  <2>3. Stored(Put(d, k, <<e>> \o d[k]), L \cup {e})
    BY <2>2, StoredPush DEF Elem
  <2> QED BY <1>3, <2>1, <2>3 DEF L, d
<1> QED BY <1>2, <1>3 DEF ElementMoves

(* A server with elements in flight. *)
LEMMA LiveFields ==
  ASSUME NEW s \in SrvSet, NEW X \in SUBSET Nat
  PROVE  /\ WithLive(s, X) \in SrvSet /\ WithLive(s, X).live = s.live \cup X /\ WithLive(s, X).dict = s.dict
         /\ SameClients(s, WithLive(s, X)) /\ SameQueues(s, WithLive(s, X)) /\ SamePending(s, WithLive(s, X))
         /\ WithLive(s, X).slave = s.slave /\ WithLive(s, X).renamed = s.renamed
<1> DEFINE D == s.live \cup X
           t == [s EXCEPT !.live = D]
<1>2. D \in SUBSET Nat
  BY DEF SrvSet
<1>3. WithLive(s, X) = t
  BY DEF WithLive
<1> HIDE DEF D
<1>4. t \in SrvSet /\ t.live = D /\ t.dict = s.dict
  BY <1>2 DEF SrvSet
<1>5. SameClients(s, t) /\ SameQueues(s, t) /\ SamePending(s, t) /\ t.slave = s.slave /\ t.renamed = s.renamed
  BY DEF SrvSet, SameClients, SameQueues, SamePending
<1> HIDE DEF t
<1> QED BY <1>3, <1>4, <1>5 DEF D

(* A server that has aborted has the data and the clients that it had. *)
LEMMA AbortedSound ==
  ASSUME NEW s, ServerSound(s)
  PROVE  ServerSound(Aborted(s))
<1> DEFINE t == Aborted(s)
<1>1. t = [s EXCEPT !.at = "aborted"] /\ s \in SrvSet
  BY DEF Aborted, ServerSound
<1> HIDE DEF t
<1>2. t \in SrvSet
  BY <1>1 DEF SrvSet
<1>3. t.dict = s.dict /\ t.live = s.live /\ t.slave = s.slave /\ t.renamed = s.renamed /\ t.clients = s.clients
      /\ SameQueues(s, t) /\ SamePending(s, t)
  BY <1>1 DEF SrvSet, SameQueues, SamePending
<1>4. QueuesSound(t) /\ PendingSound(t) /\ WaitersSound(t)
  BY <1>3 DEF QueuesSound, PendingSound, WaitersSound, ServerSound, SameQueues, SamePending
<1>5. ServerSound(t)
  BY <1>2, <1>3, <1>4 DEF ServerSound
<1> QED BY <1>5 DEF t

(* What a slave makes of what is propagated for a push. *)
LEMMA PushReplayed ==
  ASSUME NEW d \in DictSet, NEW k \in Keys, NEW p \in Seq(Nat), NEW also \in Seq(OpSet)
  PROVE  LET ops == (IF p = <<>> THEN <<>> ELSE <<Lpush(k, p)>>) \o also
         IN /\ ops \in Seq(OpSet)
            /\ ReplayAll(d, ops) = ReplayAll(Replayed(d, Lpush(k, p)), also)
<1> DEFINE op == Lpush(k, p)
           ops == (IF p = <<>> THEN <<>> ELSE <<op>>) \o also
<1>1. op \in OpSet /\ Replayed(d, op) = Put(d, k, Reverse(p) \o d[k])
  BY LpushPuts
<1>2. CASE p = <<>>
  <2>1. ops = also
    <3>1. ops = <<>> \o also
      BY <1>2
    <3> HIDE DEF ops
    <3> QED BY <3>1, ConcatEmptySeq
  <2>2. d[k] \in Seq(Nat)
    BY DEF DictSet
  <2>3. Reverse(p) \o d[k] = d[k]
    BY <1>2, <2>2, ReverseEmpty
  <2>4. Put(d, k, d[k]) = d
    BY DEF Put, DictSet
  <2> HIDE DEF op, ops
  <2>5. Replayed(d, op) = d
    BY <1>1, <2>3, <2>4
  <2> QED BY <2>1, <2>5 DEF op, ops
<1>3. CASE p # <<>>
  <2>1. ops = <<op>> \o also
    BY <1>3
  <2>2. <<op>> \in Seq(OpSet)
    BY <1>1
  <2> HIDE DEF op, ops
  <2>3. ops \in Seq(OpSet)
    BY <2>1, <2>2, ConcatProperties
  <2>4. ReplayAll(d, <<op>> \o also) = ReplayAll(Replayed(d, op), also)
    BY <1>1, ReplayFacts
  <2> QED BY <2>1, <2>3, <2>4 DEF op, ops
<1> QED BY <1>2, <1>3

(* The state of a push after its elements. *)
PushStart(s, key, els) ==
  [s |-> WithLive(s, ToSet(els)), also |-> <<>>, lobj |-> s.dict[key] # <<>>,
   may_wait |-> ~(s.dict[key] # <<>>), pushed |-> <<>>, aborted |-> FALSE]

(* What it is before them, ... *)
LEMMA PushStartSound ==
  ASSUME BlockingAssumption, NEW s, ServerSound(s), NEW key \in Keys, s.dict[key] # Other, NEW els, IsListOf(els),
         ToSet(els) \cap s.live = {}
  PROVE  /\ WithLive(s, ToSet(els)) \in SrvSet
         /\ PushSound(PushStart(s, key, els), WithLive(s, ToSet(els)), key)
         /\ PushStart(s, key, els) \in PushSet
         /\ PushStart(s, key, els).s.live = s.live \cup ToSet(els) /\ PushStart(s, key, els).s.dict = s.dict
<1> DEFINE X == ToSet(els)
           t == WithLive(s, X)
           l == (s.dict[key] # <<>>)
           b == PushStart(s, key, els)
<1>1. s \in SrvSet /\ QueuesSound(s) /\ PendingSound(s) /\ WaitersSound(s)
  BY DEF ServerSound
<1>2. X \in SUBSET Nat
  <2>1. els \in Seq(Elem)
    BY DEF IsListOf
  <2>2. els \in Seq(Nat) /\ \A e : e \in ToSet(els) <=> \E i \in 1 .. Len(els) : els[i] = e
    BY <2>1, ElementsOf
  <2> QED BY <2>2
<1>3. /\ t \in SrvSet /\ t.live = s.live \cup X /\ t.dict = s.dict
      /\ SameClients(s, t) /\ SameQueues(s, t) /\ SamePending(s, t)
      /\ t.slave = s.slave /\ t.renamed = s.renamed
  BY <1>1, <1>2, LiveFields
<1>4. b = [s |-> t, also |-> <<>>, lobj |-> l, may_wait |-> ~l, pushed |-> <<>>, aborted |-> FALSE]
  BY DEF PushStart
<1>5. l \in BOOLEAN /\ (l <=> s.dict[key] # <<>>)
  OBVIOUS
<1> HIDE DEF X, t, l, b
<1>6. b \in PushSet
  BY <1>3, <1>4, <1>5 DEF PushSet
<1>7. b.s = t /\ b.also = <<>> /\ (b.lobj <=> l) /\ (b.may_wait <=> ~l) /\ b.pushed = <<>>
  BY <1>4, <1>5
<1>8. QueuesSound(t) /\ PendingSound(t)
  BY <1>1, <1>3, ClientsSame
<1>9. WaitersSound(t)
  BY <1>1, <1>3 DEF WaitersSound, SameQueues
<1>10. t.dict = ReplayAll(Replayed(t.dict, Lpush(key, <<>>)), <<>>)
  <2> DEFINE d == t.dict
             p == <<>>
  <2>1. d \in DictSet /\ p \in Seq(Nat) /\ p = <<>>
    BY <1>3 DEF SrvSet
  <2> HIDE DEF d, p
  <2>2. d[key] \in Seq(Nat)
    BY <2>1 DEF DictSet
  <2>3. Reverse(<<>>) \o d[key] = d[key]
    BY <2>2, ReverseEmpty
  <2>4. Replayed(d, Lpush(key, p)) = Put(d, key, Reverse(p) \o d[key])
    BY <2>1, LpushPuts
  <2>5. Put(d, key, d[key]) = d
    BY <2>1 DEF Put, DictSet
  <2>6. Replayed(d, Lpush(key, p)) = d
    BY <2>1, <2>3, <2>4, <2>5
  <2>7. ReplayAll(d, <<>>) = d
    BY <2>1, ReplayFacts
  <2> QED BY <2>6, <2>7 DEF d, p
<1>11. <<>> \in Seq(OpsNotAt(key))
  OBVIOUS
<1>12. SameClients(t, t)
  BY DEF SameClients
<1>13. l => IsList(t.dict[key])
  BY <1>3, <1>5 DEF IsList
<1>14. PushSound(b, t, key)
  BY <1>3, <1>6, <1>7, <1>8, <1>9, <1>10, <1>11, <1>12, <1>13 DEF PushSound
<1> QED BY <1>3, <1>6, <1>7, <1>14 DEF b, t, X

(* ... and after them: if the push has not aborted, all the elements are   *)
(* stored, or gone.                                                        *)
LEMMA PushEnd ==
  ASSUME BlockingAssumption, NEW s, ServerSound(s), NEW key \in Keys, s.dict[key] # Other, NEW els, IsListOf(els),
         ToSet(els) \cap s.live = {}
  PROVE  /\ PushSound(PushAll(PushStart(s, key, els), els, key), WithLive(s, ToSet(els)), key)
         /\ ~PushAll(PushStart(s, key, els), els, key).aborted =>
              Stored(PushAll(PushStart(s, key, els), els, key).s.dict, PushAll(PushStart(s, key, els), els, key).s.live)
<1> DEFINE t == WithLive(s, ToSet(els))
           b == PushStart(s, key, els)
           S == { x \in PushSet : PushSound(x, t, key) }
           Good(i, x) == ~x.aborted => Rest(els, i) \subseteq x.s.live /\ Stored(x.s.dict, x.s.live \ Rest(els, i))
           T == { p \in Nat \X PushSet : Good(p[1], p[2]) }
           y == PushAll(b, els, key)
<1>1. t \in SrvSet /\ PushSound(b, t, key) /\ b \in PushSet /\ b.s.live = s.live \cup ToSet(els) /\ b.s.dict = s.dict
  BY PushStartSound
<1>2. els \in Seq(Elem)
  BY DEF IsListOf
<1> HIDE DEF t, b
<1>3. PushKeeps(S, Elem, key)
  <2> SUFFICES ASSUME NEW x \in S, NEW e \in Elem PROVE PushElement(x, key, e) \in S
    BY DEF PushKeeps
  <2>1. PushSound(PushElement(x, key, e), t, key)
    BY <1>1, PushKeepsSound
  <2>2. PushElement(x, key, e) \in PushSet
    BY <2>1 DEF PushSound
  <2> QED BY <2>1, <2>2
<1>4. <<0, b>> \in T
  <2>1. Rest(els, 0) = ToSet(els)
    BY RestFacts
  <2>2. b.s.live \ Rest(els, 0) = s.live /\ Rest(els, 0) \subseteq b.s.live
    BY <1>1, <2>1
  <2>3. Good(0, b)
    BY <1>1, <2>2 DEF ServerSound
  <2> HIDE DEF Good
  <2> QED BY <1>1, <2>3
<1>5. PushInductive(T, S, els, key)
  <2> SUFFICES ASSUME NEW i \in 0 .. Len(els) - 1, NEW x \in S, <<i, x>> \in T
               PROVE  <<i + 1, PushElement(x, key, els[i + 1])>> \in T
    BY DEF PushInductive
  <2> DEFINE e == els[i + 1]
             z == PushElement(x, key, e)
             R == Rest(els, i)
             Q == Rest(els, i + 1)
  <2>1. e \in R /\ e \in Elem /\ Q = R \ {e}
    BY RestFacts
  <2>2. PushSound(z, t, key) /\ ElementMoves(x, z, e) /\ x \in PushSet /\ i + 1 \in Nat
    BY <1>1, <2>1, PushKeepsSound
  <2>3. z \in PushSet
    BY <2>2 DEF PushSound
  <2>4. ~x.aborted => R \subseteq x.s.live /\ Stored(x.s.dict, x.s.live \ R)
    OBVIOUS
  <2> HIDE DEF e, z, R, Q
  <2>5. ~z.aborted => Q \subseteq z.s.live /\ Stored(z.s.dict, z.s.live \ Q)
    <3> SUFFICES ASSUME ~z.aborted PROVE Q \subseteq z.s.live /\ Stored(z.s.dict, z.s.live \ Q)
      OBVIOUS
    <3>1. ~x.aborted
      BY <2>2 DEF ElementMoves
    <3>2. R \subseteq x.s.live /\ Stored(x.s.dict, x.s.live \ R)
      BY <2>4, <3>1
    <3> QED BY <2>1, <2>2, <2>3, <3>2, MovesStored
  <2>6. Good(i + 1, z)
    BY <2>5 DEF Q
  <2> HIDE DEF Good
  <2>7. <<i + 1, z>> \in T
    BY <2>2, <2>3, <2>6
  <2> QED BY <2>7 DEF z, e
<1>6. b \in S
  BY <1>1
<1> HIDE DEF S, T
<1>7. y \in S
  BY <1>2, <1>3, <1>6, PushStays
<1>8. <<Len(els), y>> \in T
  BY <1>2, <1>3, <1>4, <1>5, <1>6, PushInduct
<1> HIDE DEF y
<1>9. PushSound(y, t, key)
  BY <1>7 DEF S
<1>10. ~y.aborted => Stored(y.s.dict, y.s.live)
  <2>1. Rest(els, Len(els)) = {}
    BY RestFacts
  <2>2. ~y.aborted => Stored(y.s.dict, y.s.live \ Rest(els, Len(els)))
    BY <1>8 DEF T
  <2>3. y.s.live \ Rest(els, Len(els)) = y.s.live
    BY <2>1
  <2> QED BY <2>2, <2>3
<1> QED BY <1>9, <1>10 DEF y, t, b

(* pushGenericCommand. *)
LEMMA PushCommandSound ==
  ASSUME BlockingAssumption, NEW s, ServerSound(s), NEW key \in Keys, NEW els, IsListOf(els),
         ToSet(els) \cap s.live = {}
  PROVE  ServerSound(pushGenericCommand(s, key, els))
<1> DEFINE b == PushStart(s, key, els)
           y == PushAll(b, els, key)
           ops == (IF y.pushed = <<>> THEN <<>> ELSE <<Lpush(key, y.pushed)>>) \o y.also
           t == WithLive(s, ToSet(els))
<1>1. pushGenericCommand(s, key, els) =
        IF s.dict[key] = Other THEN s ELSE IF y.aborted THEN Aborted(s) ELSE propagate(y.s, ops)
  BY Zenon DEF pushGenericCommand, PushStart, PushAll, WithLive
<1>2. CASE s.dict[key] = Other
  BY <1>1, <1>2
<1>3. CASE s.dict[key] # Other /\ y.aborted
  BY <1>1, <1>3, AbortedSound
<1>4. CASE s.dict[key] # Other /\ ~y.aborted
  <2>1. PushSound(y, t, key) /\ Stored(y.s.dict, y.s.live)
    BY <1>4, PushEnd
  <2>2. t \in SrvSet /\ t.dict = s.dict /\ t.slave = s.dict /\ s.dict \in DictSet
    <3>1. s \in SrvSet /\ s.slave = s.dict
      BY DEF ServerSound
    <3>2. ToSet(els) \in SUBSET Nat
      <4>1. els \in Seq(Elem)
        BY DEF IsListOf
      <4>2. els \in Seq(Nat) /\ \A e : e \in ToSet(els) <=> \E i \in 1 .. Len(els) : els[i] = e
        BY <4>1, ElementsOf
      <4> QED BY <4>2
    <3>3. t \in SrvSet /\ t.dict = s.dict /\ t.slave = s.slave
      BY <3>1, <3>2, LiveFields
    <3> QED BY <3>1, <3>3 DEF SrvSet
  <2> HIDE DEF y, t
  <2>3. y.s \in SrvSet /\ y.pushed \in Seq(Nat) /\ y.also \in Seq(OpSet)
    BY <2>1 DEF PushSound, PushSet
  <2>4. ops \in Seq(OpSet) /\ ReplayAll(s.dict, ops) = ReplayAll(Replayed(s.dict, Lpush(key, y.pushed)), y.also)
    BY <2>2, <2>3, PushReplayed
  <2> HIDE DEF ops
  <2>5. ReplayAll(y.s.slave, ops) = y.s.dict
    BY <2>1, <2>2, <2>4 DEF PushSound
  <2>6. ServerSound(propagate(y.s, ops))
    BY <2>1, <2>3, <2>4, <2>5, PropagateSound DEF PushSound
  <2> QED BY <1>1, <1>4, <2>6
<1> QED BY <1>2, <1>3, <1>4

(* The replay of a pop. *)
LEMMA PopReplayed ==
  ASSUME NEW d \in DictSet, NEW k \in Keys, d[k] # <<>>
  PROVE  /\ Pop("rpop", k) \in OpSet /\ Replayed(d, Pop("rpop", k)) = Put(d, k, Front(d[k]))
         /\ Pop("lpop", k) \in OpSet /\ Replayed(d, Pop("lpop", k)) = Put(d, k, Tail(d[k]))
<1>1. d[k] \in Seq(Nat)
  BY DEF DictSet
<1>2. Tail(d[k]) = SubSeq(d[k], 2, Len(d[k]))
  BY <1>1, TailIsSubSeq
<1>3. ASSUME NEW op \in OpSet, op.key = k
      PROVE  /\ op.cmd = "rpop" => Replayed(d, op) = Put(d, k, Front(d[k]))
             /\ op.cmd = "lpop" => Replayed(d, op) = Put(d, k, Tail(d[k]))
  <2>1. ASSUME op.cmd = "rpop" PROVE Replayed(d, op) = Put(d, k, Front(d[k]))
    BY <1>3, <2>1 DEF Replayed, Put
  <2>2. ASSUME op.cmd = "lpop" PROVE Replayed(d, op) = Put(d, k, Tail(d[k]))
    BY <1>2, <1>3, <2>2 DEF Replayed, Put
  <2> QED BY <2>1, <2>2
<1>4. Pop("rpop", k) \in OpSet /\ Pop("rpop", k).key = k /\ Pop("rpop", k).cmd = "rpop"
  BY DEF Pop, OpSet
<1>5. Pop("lpop", k) \in OpSet /\ Pop("lpop", k).key = k /\ Pop("lpop", k).cmd = "lpop"
  BY DEF Pop, OpSet
<1> QED BY <1>3, <1>4, <1>5

(* What rpoplpushCommand has done before it propagates it. *)
Moved(h, dst, value) ==
  IF h.to # "list" THEN h
  ELSE [h EXCEPT !.s.dict[dst] = <<value>> \o @, !.also = <<Lpush(dst, <<value>>)>>]

(* It is a server that the data of a slave that pops and pushes agree with. *)
LEMMA MovedFields ==
  ASSUME NEW h \in HandSet, NEW dst, NEW value
  PROVE  /\ h.to # "list" => Moved(h, dst, value).s = h.s /\ Moved(h, dst, value).also = h.also
         /\ h.to = "list" => /\ Moved(h, dst, value).s = PutIn(h.s, dst, <<value>> \o h.s.dict[dst])
                             /\ Moved(h, dst, value).also = <<Lpush(dst, <<value>>)>>
<1> DEFINE p == PutIn(h.s, dst, <<value>> \o h.s.dict[dst])
           a == <<Lpush(dst, <<value>>)>>
           m == [h EXCEPT !.s.dict[dst] = <<value>> \o @, !.also = <<Lpush(dst, <<value>>)>>]
<1>1. m = [h EXCEPT !.s = p, !.also = a]
  BY DEF PutIn, HandSet
<1> HIDE DEF p, a
<1>2. m.s = p /\ m.also = a
  BY <1>1 DEF HandSet
<1> QED BY <1>2 DEF Moved, p, a

(* rpoplpushCommand. *)
LEMMA RpoplpushSound ==
  ASSUME BlockingAssumption, NEW s, ServerSound(s), NEW src \in Keys, NEW dst \in Keys
  PROVE  ServerSound(rpoplpushCommand(s, src, dst)) /\ SameClients(s, rpoplpushCommand(s, src, dst))
<1> DEFINE d == s.dict
           f == Front(d[src])
           value == Last(d[src])
           p == PutIn(s, src, f)
           h == handleClientsWaitingListPush(p, dst, value, <<>>)
           m == Moved(h, dst, value)
           r == Pop("rpop", src)
           ops == <<r>> \o m.also
<1>1. rpoplpushCommand(s, src, dst) = IF ~IsList(d[src]) \/ d[dst] = Other THEN s ELSE propagate(m.s, ops)
  BY Zenon DEF rpoplpushCommand, PutIn, Moved
<1>2. CASE ~IsList(d[src]) \/ d[dst] = Other
  BY <1>1, <1>2 DEF SameClients
<1>3. CASE IsList(d[src]) /\ d[dst] # Other
  <2>1. /\ s \in SrvSet /\ QueuesSound(s) /\ PendingSound(s) /\ WaitersSound(s) /\ Stored(d, s.live) /\ s.slave = d
        /\ d \in DictSet
    BY DEF ServerSound, SrvSet
  <2> HIDE DEF d
  <2>2. f \in Seq(Nat) /\ f # Other /\ value \in s.live /\ value \in Elem /\ Stored(Put(d, src, f), s.live \ {value})
    BY <1>3, <2>1, StoredPop
  <2>3. r \in OpSet /\ Replayed(d, r) = Put(d, src, f)
    BY <1>3, <2>1, PopReplayed DEF IsList
  <2> HIDE DEF f, value, r
  <2>4. /\ p \in SrvSet /\ p.dict = Put(d, src, f)
        /\ SameClients(s, p) /\ SameQueues(s, p) /\ SamePending(s, p)
        /\ p.slave = d /\ p.live = s.live /\ p.renamed = s.renamed
    BY <2>1, <2>2, PutInFields DEF d
  <2>5. QueuesSound(p) /\ PendingSound(p)
    BY <2>1, <2>4, ClientsSame
  <2>6. WaitersSound(p)
    BY <1>3, <2>1, <2>2, PutWaiters DEF d
  <2>7. p.dict[dst] # Other
    <3>1. Put(d, src, f) \in DictSet /\ \A l \in Keys : Put(d, src, f)[l] = IF l = src THEN f ELSE d[l]
      BY <2>1, <2>2, PutFacts
    <3> QED BY <1>3, <2>2, <2>4, <3>1
  <2> HIDE DEF p
  <2>8. <<>> \in Seq(OpSet) /\ value \in Nat
    BY <2>2 DEF Elem
  <2>9. HandSound(h, p, dst, <<>>, value) /\ h.to # "nobody"
    BY <2>4, <2>5, <2>6, <2>7, <2>8, HandResult
  <2> HIDE DEF h
  <2>10. h \in HandSet /\ h.s \in SrvSet /\ h.key \in Keys
    BY <2>9 DEF HandSound, HandSet
  <2>11. SameClients(p, h.s) /\ h.s.slave = d /\ h.s.renamed = s.renamed /\ QueuesSound(h.s) /\ PendingSound(h.s) /\ WaitersSound(h.s)
    BY <2>4, <2>9 DEF HandSound
  (* An element at the key k of the data after the pop. *)
  <2> DEFINE D == p.dict
  <2>12. D \in DictSet /\ Stored(D, s.live \ {value}) /\ D = Replayed(d, r)
    BY <2>2, <2>3, <2>4 DEF SrvSet
  <2> HIDE DEF D
  <2>13. ASSUME NEW k \in Keys, D[k] # Other, NEW a, a = <<Lpush(k, <<value>>)>>
         PROVE  /\ a \in Seq(OpSet) /\ Stored(Put(D, k, <<value>> \o D[k]), s.live)
                /\ ReplayAll(d, <<r>> \o a) = Put(D, k, <<value>> \o D[k])
                /\ IsList(<<value>> \o D[k]) /\ <<value>> \o D[k] \in Seq(Nat)
    <3> DEFINE op == Lpush(k, <<value>>)
    <3>1. op \in OpSet /\ Replayed(D, op) = Put(D, k, <<value>> \o D[k])
      BY <2>8, <2>12, LpushOne
    <3>2. a = Append(<<>>, op) /\ a \in Seq(OpSet)
      <4> HIDE DEF op
      <4>1. a = <<op>>
        BY <2>13 DEF op
      <4> QED BY <3>1, <4>1
    <3> HIDE DEF op
    <3>a. d \in DictSet /\ D \in DictSet /\ r \in OpSet /\ D = Replayed(d, r) /\ <<>> \in Seq(OpSet)
      BY <2>1, <2>3, <2>8, <2>12
    <3>b. \A u \in Seq(OpSet), o \in OpSet : ReplayAll(d, <<o>> \o u) = ReplayAll(Replayed(d, o), u)
      <4>1. d \in DictSet
        BY <3>a
      <4> QED BY <4>1, ReplayFacts, Zenon
    <3>c. \A u \in Seq(OpSet), o \in OpSet : ReplayAll(D, Append(u, o)) = Replayed(ReplayAll(D, u), o)
      <4>1. D \in DictSet
        BY <3>a
      <4> QED BY <4>1, ReplayFacts, Zenon
    <3>3. ReplayAll(d, <<r>> \o a) = ReplayAll(D, a)
      BY <3>2, <3>a, <3>b
    <3>4. ReplayAll(D, a) = Replayed(ReplayAll(D, <<>>), op)
      <4>1. op \in OpSet
        BY <3>1
      <4> QED BY <3>2, <3>a, <3>c, <4>1
    <3>5. ReplayAll(D, <<>>) = D
      BY <2>12, ReplayFacts
    <3>6. Stored(Put(D, k, <<value>> \o D[k]), (s.live \ {value}) \cup {value})
      BY <2>2, <2>12, <2>13, StoredPush DEF Elem
    <3>7. (s.live \ {value}) \cup {value} = s.live
      BY <2>2
    <3>8. D[k] \in Seq(Nat)
      BY <2>12 DEF DictSet
    <3>9. IsList(<<value>> \o D[k]) /\ <<value>> \o D[k] \in Seq(Nat)
      BY <2>2, <3>8, PushedIsList
    <3> QED BY <3>1, <3>2, <3>3, <3>4, <3>5, <3>6, <3>7, <3>9
  <2>14. /\ m.s \in SrvSet /\ QueuesSound(m.s) /\ PendingSound(m.s) /\ WaitersSound(m.s) /\ SameClients(s, m.s)
         /\ ops \in Seq(OpSet) /\ Stored(m.s.dict, m.s.live) /\ m.s.slave = d /\ ReplayAll(d, ops) = m.s.dict
    <3>1. CASE h.to = "list"
      <4> DEFINE v == <<value>> \o D[dst]
                 a == <<Lpush(dst, <<value>>)>>
      <4>1. D[dst] # Other
        BY <2>7 DEF D
      <4>2. a \in Seq(OpSet) /\ Stored(Put(D, dst, v), s.live) /\ ReplayAll(d, <<r>> \o a) = Put(D, dst, v)
            /\ IsList(v) /\ v \in Seq(Nat)
        BY <2>13, <4>1
      <4>3. h.s.dict = D /\ h.s.live = s.live /\ h.s.blocking_keys[dst] = <<>>
        BY <2>4, <2>9, <3>1 DEF HandSound, D
      <4>4. m.s = PutIn(h.s, dst, v) /\ m.also = a
        BY <2>10, <3>1, <4>3, MovedFields
      <4> HIDE DEF v, a, m
      <4>5. /\ m.s \in SrvSet /\ m.s.dict = Put(D, dst, v)
            /\ SameClients(h.s, m.s) /\ SameQueues(h.s, m.s) /\ SamePending(h.s, m.s)
            /\ m.s.slave = h.s.slave /\ m.s.live = h.s.live /\ m.s.renamed = h.s.renamed
        <5> DEFINE z == PutIn(h.s, dst, v)
        <5>1. /\ z \in SrvSet /\ z.dict = Put(h.s.dict, dst, v)
              /\ SameClients(h.s, z) /\ SameQueues(h.s, z) /\ SamePending(h.s, z)
              /\ z.slave = h.s.slave /\ z.live = h.s.live /\ z.renamed = h.s.renamed
          BY <2>10, <4>2, PutInFields
        <5> HIDE DEF z
        <5>2. m.s = z
          BY <4>4 DEF z
        <5> QED BY <4>3, <5>1, <5>2
      <4>6. QueuesSound(m.s) /\ PendingSound(m.s)
        BY <2>11, <4>5, ClientsSame
      <4>7. WaitersSound(m.s)
        BY <2>10, <2>11, <4>2, <4>3, <4>4, PutWaiters
      <4>8. SameClients(s, m.s)
        BY <2>4, <2>11, <4>5 DEF SameClients
      <4>9. ops = <<r>> \o a
        BY <4>4
      <4>10. ops \in Seq(OpSet)
        <5>1. <<r>> \in Seq(OpSet)
          BY <2>3
        <5> HIDE DEF ops
        <5> QED BY <4>2, <4>9, <5>1, ConcatProperties
      <4> QED BY <2>11, <4>2, <4>3, <4>5, <4>6, <4>7, <4>8, <4>9, <4>10
    <3>2. CASE h.to = "target"
      <4> DEFINE v == <<value>> \o D[h.key]
                 a == <<Lpush(h.key, <<value>>)>>
      <4>1. D[h.key] # Other /\ h.s.dict = Put(D, h.key, v) /\ h.also = Append(<<>>, Lpush(h.key, <<value>>))
            /\ h.s.live = s.live
        BY <2>4, <2>9, <3>2 DEF HandSound, D
      <4>2. a \in Seq(OpSet) /\ Stored(Put(D, h.key, v), s.live) /\ ReplayAll(d, <<r>> \o a) = Put(D, h.key, v)
        BY <2>10, <2>13, <4>1
      <4>3. a = Append(<<>>, Lpush(h.key, <<value>>))
        OBVIOUS
      <4>4. m.s = h.s /\ m.also = h.also
        <5>1. h \in HandSet /\ h.to # "list"
          BY <2>10, <3>2
        <5> QED BY <5>1, MovedFields
      <4> HIDE DEF v, a, m
      <4>5. ops = <<r>> \o a
        BY <4>1, <4>3, <4>4
      <4>6. ops \in Seq(OpSet)
        <5>1. <<r>> \in Seq(OpSet)
          BY <2>3
        <5> HIDE DEF ops
        <5> QED BY <4>2, <4>5, <5>1, ConcatProperties
      <4>7. SameClients(s, m.s)
        BY <2>4, <2>11, <4>4 DEF SameClients
      <4> QED BY <2>10, <2>11, <4>1, <4>2, <4>4, <4>5, <4>6, <4>7
    <3>3. CASE h.to = "client"
      <4>1. h.s.dict = D /\ h.also = <<>> /\ h.s.live = s.live \ {value}
        BY <2>4, <2>9, <3>3 DEF HandSound, D
      <4>2. m.s = h.s /\ m.also = h.also
        <5>1. h \in HandSet /\ h.to # "list"
          BY <2>10, <3>3
        <5> QED BY <5>1, MovedFields
      <4> HIDE DEF m
      <4>3. ops = <<r>> \o <<>>
        BY <4>1, <4>2
      <4>4. ReplayAll(d, <<r>> \o <<>>) = ReplayAll(D, <<>>)
        BY <2>1, <2>3, <2>8, <2>12, ReplayFacts
      <4>5. ReplayAll(D, <<>>) = D
        BY <2>12, ReplayFacts
      <4>6. ops \in Seq(OpSet)
        <5>1. <<r>> \in Seq(OpSet)
          BY <2>3
        <5> HIDE DEF ops
        <5> QED BY <2>8, <4>3, <5>1, ConcatProperties
      <4>7. SameClients(s, m.s)
        BY <2>4, <2>11, <4>2 DEF SameClients
      <4> QED BY <2>10, <2>11, <2>12, <4>1, <4>2, <4>3, <4>4, <4>5, <4>6, <4>7
    <3>4. h.to \in {"nobody", "list", "target", "client"}
      BY <2>10 DEF HandSet
    <3> QED BY <2>9, <3>1, <3>2, <3>3, <3>4
  <2> HIDE DEF m, ops
  <2>15. ReplayAll(m.s.slave, ops) = m.s.dict
    BY <2>14
  <2>16. ServerSound(propagate(m.s, ops)) /\ SameClients(m.s, propagate(m.s, ops))
    BY <2>14, <2>15, PropagateSound
  <2>17. rpoplpushCommand(s, src, dst) = propagate(m.s, ops)
    BY <1>1, <1>3
  <2> QED BY <2>14, <2>16, <2>17 DEF SameClients
<1> QED BY <1>2, <1>3

(* The least of some positions is one of them. *)
LEMMA LeastPosition ==
  ASSUME NEW T \in SUBSET Nat, T # {}
  PROVE  Min(T) \in T
<1>1. \E n \in T : \A i \in T : n <= i
  BY LeastNat
<1> QED BY <1>1 DEF Min

(* blockForKeys, for keys without a value. *)
LEMMA BlockSound ==
  ASSUME BlockingAssumption, NEW s, ServerSound(s), NEW c \in Clients, c \in s.clients, c \notin s.BLOCKED,
         NEW req \in Requests, \A i \in 1 .. Len(req.keys) : s.dict[req.keys[i]] = <<>>
  PROVE  ServerSound(blockForKeys(s, c, req)) /\ SameClients(s, blockForKeys(s, c, req))
<1> DEFINE t == blockForKeys(s, c, req)
<1>1. s \in SrvSet /\ QueuesSound(s) /\ PendingSound(s) /\ WaitersSound(s) /\ Stored(s.dict, s.live) /\ s.slave = s.dict
  BY DEF ServerSound
<1>2. t \in SrvSet /\ BlockChanges(s, t, c, req) /\ SameData(s, t) /\ SameClients(s, t)
  BY <1>1, BlockFields
<1> HIDE DEF t
<1>3. QueuesSound(t)
  BY <1>1, <1>2, BlockQueues
<1>4. PendingSound(t)
  BY <1>1, <1>2, BlockPending
<1>5. WaitersSound(t)
  BY <1>1, <1>2, BlockWaiters
<1>6. ServerSound(t)
  BY <1>1, <1>2, <1>3, <1>4, <1>5 DEF ServerSound, SameData
<1> QED BY <1>2, <1>6 DEF t

(* blockingPopGenericCommand. *)
LEMMA BlockingPopSound ==
  ASSUME BlockingAssumption, NEW s, ServerSound(s), NEW c \in Clients, c \in s.clients, c \notin s.BLOCKED,
         NEW req \in Requests
  PROVE  ServerSound(blockingPopGenericCommand(s, c, req)) /\ SameClients(s, blockingPopGenericCommand(s, c, req))
<1> DEFINE found == { i \in DOMAIN req.keys : s.dict[req.keys[i]] # <<>> }
           key == req.keys[Min(found)]
           d == s.dict
           v == Tail(d[key])
           e == Head(d[key])
           p == PutIn(s, key, v)
           g == Gone(p, e)
           r == Pop("lpop", key)
           ops == <<r>>
           w == [s EXCEPT !.dict[key] = Tail(@), !.live = @ \ {Head(s.dict[key])}]
<1>1. blockingPopGenericCommand(s, c, req) =
        IF found = {} THEN blockForKeys(s, c, req) ELSE IF s.dict[key] = Other THEN s ELSE propagate(w, ops)
  BY Zenon DEF blockingPopGenericCommand
<1>2. req.keys \in Seq(Keys) /\ DOMAIN req.keys = 1 .. Len(req.keys)
  BY DEF BlockingAssumption, RequestSet
<1>3. /\ s \in SrvSet /\ QueuesSound(s) /\ PendingSound(s) /\ WaitersSound(s) /\ Stored(d, s.live) /\ s.slave = d
      /\ d \in DictSet
  BY DEF ServerSound, SrvSet
<1>4. CASE found = {}
  <2>1. \A i \in 1 .. Len(req.keys) : s.dict[req.keys[i]] = <<>>
    BY <1>2, <1>4
  <2>2. ServerSound(blockForKeys(s, c, req)) /\ SameClients(s, blockForKeys(s, c, req))
    BY <2>1, BlockSound
  <2> QED BY <1>1, <1>4, <2>2
<1>5. CASE found # {}
  <2>1. found \in SUBSET Nat
    BY <1>2
  <2>2. Min(found) \in found
    BY <1>5, <2>1, LeastPosition
  <2>3. key \in Keys /\ d[key] # <<>>
    <3> DEFINE n == Min(found)
    <3>1. n \in 1 .. Len(req.keys) /\ s.dict[req.keys[n]] # <<>>
      <4>1. n \in found
        BY <2>2
      <4> HIDE DEF n
      <4> QED BY <1>2, <4>1
    <3>2. key = req.keys[n] /\ d = s.dict
      OBVIOUS
    <3> HIDE DEF n, found, key, d
    <3>3. req.keys[n] \in Keys
      BY <1>2, <3>1
    <3> QED BY <3>1, <3>2, <3>3
  <2> HIDE DEF found, key
  <2>4. CASE d[key] = Other
    BY <1>1, <1>5, <2>4 DEF SameClients
  <2>5. CASE d[key] # Other
    <3>1. IsList(d[key])
      BY <2>3, <2>5 DEF IsList
    <3>2. w = g
      <4>1. w = [[s EXCEPT !.dict[key] = v] EXCEPT !.live = @ \ {e}]
        BY <1>3 DEF SrvSet
      <4> QED BY <4>1 DEF PutIn, Gone
    <3> HIDE DEF w, d
    <3>3. v \in Seq(Nat) /\ v # Other /\ e \in s.live /\ Stored(Put(d, key, v), s.live \ {e})
      BY <1>3, <2>3, <3>1, StoredPop
    <3>4. r \in OpSet /\ Replayed(d, r) = Put(d, key, v)
      BY <1>3, <2>3, PopReplayed
    <3> HIDE DEF v, e, r
    <3>5. /\ p \in SrvSet /\ p.dict = Put(d, key, v)
          /\ SameClients(s, p) /\ SameQueues(s, p) /\ SamePending(s, p)
          /\ p.slave = d /\ p.live = s.live /\ p.renamed = s.renamed
      BY <1>3, <2>3, <3>3, PutInFields DEF d
    <3>6. QueuesSound(p) /\ PendingSound(p)
      BY <1>3, <3>5, ClientsSame
    <3>7. WaitersSound(p)
      BY <1>3, <2>3, <3>1, <3>3, PutWaiters DEF d
    <3> HIDE DEF p
    <3>8. /\ g \in SrvSet /\ g.live = p.live \ {e} /\ g.dict = p.dict
          /\ SameClients(p, g) /\ SameQueues(p, g) /\ SamePending(p, g)
          /\ g.slave = p.slave /\ g.renamed = p.renamed
      BY <3>5, GoneFields
    <3> HIDE DEF g
    <3>9. QueuesSound(g) /\ PendingSound(g)
      BY <3>6, <3>8, ClientsSame
    <3>10. WaitersSound(g)
      BY <3>7, <3>8 DEF WaitersSound, SameQueues
    <3>11. ops = Append(<<>>, r) /\ <<>> \in Seq(OpSet)
      OBVIOUS
    <3>12. ops \in Seq(OpSet) /\ ReplayAll(d, ops) = Replayed(d, r)
      <4>1. Append(<<>>, r) \in Seq(OpSet)
        BY <3>4
      <4>2. ReplayAll(d, Append(<<>>, r)) = Replayed(ReplayAll(d, <<>>), r) /\ ReplayAll(d, <<>>) = d
        BY <1>3, <3>4, <3>11, ReplayFacts
      <4> QED BY <3>11, <4>1, <4>2
    <3> HIDE DEF ops
    <3>13. ReplayAll(g.slave, ops) = g.dict /\ Stored(g.dict, g.live)
      BY <3>3, <3>4, <3>5, <3>8, <3>12
    <3>14. ServerSound(propagate(g, ops)) /\ SameClients(g, propagate(g, ops))
      BY <3>8, <3>9, <3>10, <3>12, <3>13, PropagateSound
    <3>15. SameClients(s, propagate(g, ops))
      BY <3>5, <3>8, <3>14 DEF SameClients
    <3>16. blockingPopGenericCommand(s, c, req) = propagate(g, ops)
      BY <1>1, <1>5, <2>5, <3>2 DEF d
    <3> QED BY <3>14, <3>15, <3>16
  <2> QED BY <2>4, <2>5
<1> QED BY <1>4, <1>5

(* brpoplpushCommand. *)
LEMMA BrpoplpushSound ==
  ASSUME BlockingAssumption, NEW s, ServerSound(s), NEW c \in Clients, c \in s.clients, c \notin s.BLOCKED,
         NEW req \in Requests, req.target # None
  PROVE  ServerSound(brpoplpushCommand(s, c, req)) /\ SameClients(s, brpoplpushCommand(s, c, req))
<1> DEFINE src == req.keys[1]
           B == blockForKeys(s, c, req)
           R == rpoplpushCommand(s, src, req.target)
<1>1. brpoplpushCommand(s, c, req) = IF s.dict[src] = <<>> THEN B ELSE IF s.dict[src] = Other THEN s ELSE R
  BY Zenon DEF brpoplpushCommand
<1>2. req.keys \in Seq(Keys) /\ Len(req.keys) = 1 /\ req.target \in Keys /\ src \in Keys
  BY DEF BlockingAssumption, RequestSet
<1>3. CASE s.dict[src] = <<>>
  <2>1. \A i \in 1 .. Len(req.keys) : s.dict[req.keys[i]] = <<>>
    <3>1. \A i \in 1 .. Len(req.keys) : i = 1
      BY <1>2
    <3> QED BY <1>3, <3>1
  <2>2. ServerSound(B) /\ SameClients(s, B)
    BY <2>1, BlockSound
  <2> QED BY <1>1, <1>3, <2>2
<1>4. ServerSound(R) /\ SameClients(s, R)
  BY <1>2, RpoplpushSound
<1>5. ServerSound(s) /\ SameClients(s, s)
  BY DEF SameClients
<1> HIDE DEF B, R, src
<1> QED BY <1>1, <1>3, <1>4, <1>5

(* A server that knows that c is connected. *)
Serving(s, c) == ServerSound(s) /\ c \in s.clients

(* A server with another input of a client, ... *)
LEMMA QuerybufSound ==
  ASSUME NEW s, ServerSound(s), NEW q \in [Clients -> Seq(Requests)]
  PROVE  /\ [s EXCEPT !.querybuf = q] \in SrvSet /\ ServerSound([s EXCEPT !.querybuf = q])
         /\ [s EXCEPT !.querybuf = q].clients = s.clients /\ [s EXCEPT !.querybuf = q].BLOCKED = s.BLOCKED
         /\ [s EXCEPT !.querybuf = q].at = s.at
<1> DEFINE t == [s EXCEPT !.querybuf = q]
<1>1. s \in SrvSet
  BY DEF ServerSound
<1>2. t \in SrvSet
  BY <1>1 DEF SrvSet
<1>3. /\ t.dict = s.dict /\ t.live = s.live /\ t.slave = s.slave /\ t.renamed = s.renamed /\ t.clients = s.clients /\ t.at = s.at
      /\ SameQueues(s, t) /\ SamePending(s, t)
  BY <1>1 DEF SrvSet, SameQueues, SamePending
<1> HIDE DEF t
<1>4. QueuesSound(t) /\ PendingSound(t) /\ WaitersSound(t)
  BY <1>3 DEF QueuesSound, PendingSound, WaitersSound, ServerSound, SameQueues, SamePending
<1>5. ServerSound(t) /\ t.BLOCKED = s.BLOCKED
  BY <1>2, <1>3, <1>4 DEF ServerSound, SameQueues
<1> QED BY <1>2, <1>3, <1>5 DEF t

(* ... and after one of its requests. *)
LEMMA ProcessSound ==
  ASSUME BlockingAssumption, NEW c \in Clients, NEW s, Serving(s, c)
  PROVE  Serving(Process(s, c), c) /\ Process(s, c).at = s.at
<1> DEFINE req == Head(s.querybuf[c])
           q == [s.querybuf EXCEPT ![c] = Tail(@)]
           u == [s EXCEPT !.querybuf = q]
           A == blockingPopGenericCommand(u, c, req)
           B == brpoplpushCommand(u, c, req)
<1>1. Process(s, c) = IF s.querybuf[c] = <<>> \/ c \in s.BLOCKED THEN s ELSE IF req.target = None THEN A ELSE B
  BY Zenon DEF Process
<1>2. s.querybuf \in [Clients -> Seq(Requests)] /\ ServerSound(s) /\ c \in s.clients
  BY DEF Serving, ServerSound, SrvSet
<1>3. CASE s.querybuf[c] = <<>> \/ c \in s.BLOCKED
  BY <1>1, <1>3
<1>4. CASE s.querybuf[c] # <<>> /\ c \notin s.BLOCKED
  <2>1. req \in Requests /\ q \in [Clients -> Seq(Requests)]
    <3>1. s.querybuf[c] \in Seq(Requests)
      BY <1>2
    <3>2. Head(s.querybuf[c]) \in Requests /\ Tail(s.querybuf[c]) \in Seq(Requests)
      BY <1>4, <3>1
    <3> QED BY <1>2, <3>2
  <2> HIDE DEF req, q
  <2>2. ServerSound(u) /\ c \in u.clients /\ c \notin u.BLOCKED /\ u.at = s.at
    BY <1>2, <1>4, <2>1, QuerybufSound
  <2> HIDE DEF u
  <2>3. ServerSound(A) /\ SameClients(u, A)
    BY <2>1, <2>2, BlockingPopSound
  <2>4. req.target # None => ServerSound(B) /\ SameClients(u, B)
    BY <2>1, <2>2, BrpoplpushSound
  <2> HIDE DEF A, B
  <2>5. Process(s, c) = A \/ (req.target # None /\ Process(s, c) = B)
    BY <1>1, <1>4
  <2> QED BY <2>2, <2>3, <2>4, <2>5 DEF Serving, SameClients
<1> QED BY <1>3, <1>4

(* processInputBuffer. *)
LEMMA InputSound ==
  ASSUME BlockingAssumption, NEW c \in Clients, NEW s, Serving(s, c)
  PROVE  ServerSound(processInputBuffer(s, c)) /\ processInputBuffer(s, c).at = s.at
<1> DEFINE q == [i \in 1 .. MaxInput + 1 |-> i]
           S == { t \in SrvSet : Serving(t, c) /\ t.at = s.at }
<1>1. processInputBuffer(s, c) = ProcessAll(s, q, c)
  BY Zenon DEF processInputBuffer, ProcessAll, Process
<1>2. q \in Seq(Nat)
  <2>1. MaxInput + 1 \in Nat
    BY DEF BlockingAssumption
  <2> QED BY <2>1
<1>3. ProcessKeeps(S, Nat, c)
  <2> SUFFICES ASSUME NEW x \in S PROVE Process(x, c) \in S
    BY DEF ProcessKeeps
  <2>1. Serving(Process(x, c), c) /\ Process(x, c).at = x.at
    BY ProcessSound
  <2> QED BY <2>1 DEF Serving, ServerSound
<1>4. s \in S
  BY DEF Serving, ServerSound
<1> HIDE DEF S, q
<1>5. ProcessAll(s, q, c) \in S
  BY <1>2, <1>3, <1>4, ProcessStays
<1> QED BY <1>1, <1>5 DEF S, Serving

-----------------------------------------------------------------------------
(* The steps of the server.                                                *)

(* A server that has been started. *)
LEMMA StartedSound ==
  ASSUME BlockingAssumption
  PROVE  ServerSound(Started)
<1> DEFINE E == [k \in Keys |-> <<>>]
           W == [c \in Clients |-> NotBlocked]
           Q == [c \in Clients |-> <<>>]
           t == Started
           z == 0
<1>1. /\ E \in DictSet /\ E \in Queues /\ W \in [Clients -> Waits] /\ Q \in [Clients -> Seq(Requests)]
      /\ z \in Int /\ <<>> \in Seq(Clients)
  BY DEF DictSet, Queues, Waits
<1>2. \A k \in Keys : E[k] = <<>>
  OBVIOUS
<1>3. \A c \in Clients : W[c] = NotBlocked
  OBVIOUS
<1>4. t = [dict |-> E, blocking_keys |-> E, bpop |-> W, BLOCKED |-> {}, UNBLOCKED |-> {},
           unblocked_clients |-> <<>>, bpop_blocked_clients |-> z, clients |-> Clients, querybuf |-> Q,
           read |-> {}, at |-> "events", slave |-> E, live |-> {}, renamed |-> {}, again |-> {}]
  BY Zenon DEF Started, Empty
<1> HIDE DEF E, W, Q, t, z
<1>5. t \in SrvSet
  BY <1>1, <1>4 DEF SrvSet
<1>6. /\ t.dict = E /\ t.blocking_keys = E /\ t.bpop = W /\ t.BLOCKED = {} /\ t.UNBLOCKED = {}
      /\ t.unblocked_clients = <<>> /\ t.bpop_blocked_clients = z /\ t.slave = E /\ t.live = {}
  BY <1>4
<1>7. QueuesSound(t)
  <2>1. Lists(E, W)
    <3> SUFFICES ASSUME NEW c \in Clients, NEW k \in Keys PROVE Count(E[k], c) = Count(W[c].keys, k)
      BY DEF Lists
    <3>1. E[k] = <<>> /\ W[c].keys = <<>>
      BY <1>2, <1>3 DEF NotBlocked
    <3> QED BY <3>1, CountEmpty
  <2>2. {} = { c \in Clients : W[c] # NotBlocked }
    BY <1>3
  <2>3. z = Cardinality({})
    BY FS_EmptySet DEF z
  <2>4. {} \subseteq t.clients
    OBVIOUS
  <2> QED BY <1>6, <2>1, <2>2, <2>3, <2>4 DEF QueuesSound
<1>8. PendingSound(t)
  <2>1. ToSet(<<>>) = {}
    BY DEF ToSet
  <2>2. Repeats(<<>>, t.again)
    BY DEF Repeats
  <2> QED BY <1>6, <2>1, <2>2 DEF PendingSound
<1>9. WaitersSound(t)
  BY <1>2, <1>6 DEF WaitersSound, IsList
<1>10. Stored(E, {})
  <2>1. Elements(<<>>) = {} /\ <<>> \in Seq(Elem) /\ 1 .. Len(<<>>) = {}
    BY ElementsOf
  <2> QED BY <1>2, <2>1 DEF Stored
<1>11. ServerSound(t)
  BY <1>5, <1>6, <1>7, <1>8, <1>9, <1>10 DEF ServerSound
<1> QED BY <1>11 DEF t

(* A server with other data has the same clients. *)
Data(s, d, slave, L, R) == [s EXCEPT !.dict = d, !.slave = slave, !.live = L, !.renamed = R]

(* These are its fields. *)
LEMMA DataFields ==
  ASSUME NEW s \in SrvSet, NEW d \in DictSet, NEW e \in DictSet, NEW L \in SUBSET Nat, NEW R \in SUBSET Keys
  PROVE  /\ Data(s, d, e, L, R) \in SrvSet
         /\ Data(s, d, e, L, R).dict = d /\ Data(s, d, e, L, R).slave = e
         /\ Data(s, d, e, L, R).live = L /\ Data(s, d, e, L, R).renamed = R
         /\ SameClients(s, Data(s, d, e, L, R)) /\ SameQueues(s, Data(s, d, e, L, R))
         /\ SamePending(s, Data(s, d, e, L, R))
<1> DEFINE t == Data(s, d, e, L, R)
<1>1. t = [s EXCEPT !.dict = d, !.slave = e, !.live = L, !.renamed = R]
  BY DEF Data
<1> HIDE DEF t
<1>2. t \in SrvSet
  BY <1>1 DEF SrvSet
<1>3. t.dict = d /\ t.slave = e /\ t.live = L /\ t.renamed = R
  BY <1>1 DEF SrvSet
<1>4. SameClients(s, t) /\ SameQueues(s, t) /\ SamePending(s, t)
  BY <1>1 DEF SrvSet, SameClients, SameQueues, SamePending
<1> QED BY <1>2, <1>3, <1>4 DEF t

(* A key that gets a list by a command that serves nobody is renamed. *)
LEMMA DataSound ==
  ASSUME NEW s, ServerSound(s), NEW d \in DictSet, NEW L \in SUBSET Nat, NEW R \in SUBSET Keys, Stored(d, L),
         \A k \in Keys : IsList(d[k]) => k \in R \/ (IsList(s.dict[k]) /\ (k \in s.renamed => k \in R))
  PROVE  ServerSound(Data(s, d, d, L, R)) /\ Data(s, d, d, L, R).at = s.at
<1> DEFINE t == Data(s, d, d, L, R)
<1>1. s \in SrvSet
  BY DEF ServerSound
<1>2. /\ t \in SrvSet /\ t.dict = d /\ t.slave = d /\ t.live = L /\ t.renamed = R
      /\ SameClients(s, t) /\ SameQueues(s, t) /\ SamePending(s, t)
  BY <1>1, DataFields
<1> HIDE DEF t
<1>3. QueuesSound(t) /\ PendingSound(t)
  BY <1>2, ClientsSame DEF ServerSound
<1>4. WaitersSound(t)
  BY <1>2 DEF WaitersSound, SameQueues, ServerSound
<1>5. ServerSound(t) /\ t.at = s.at
  BY <1>2, <1>3, <1>4 DEF ServerSound, SameClients
<1> QED BY <1>5 DEF t

(* delCommand. *)
LEMMA DelSound ==
  ASSUME BlockingAssumption, NEW s, ServerSound(s), NEW k \in Keys
  PROVE  ServerSound(propagate(Without(s, k), <<Del(k)>>)) /\ propagate(Without(s, k), <<Del(k)>>).at = s.at
<1> DEFINE d == s.dict
           D == Put(d, k, <<>>)
           L == s.live \ Elements(d[k])
           R == s.renamed \ {k}
           r == Del(k)
           ops == <<r>>
<1>1. s \in SrvSet /\ d \in DictSet /\ Stored(d, s.live) /\ s.slave = d
  BY DEF ServerSound, SrvSet
<1>2. D \in DictSet /\ \A l \in Keys : D[l] = IF l = k THEN <<>> ELSE d[l]
  <2> DEFINE v == <<>>
  <2>1. v \in Seq(Nat) /\ D = Put(d, k, v)
    OBVIOUS
  <2> HIDE DEF v, d, D
  <2>2. Put(d, k, v) \in DictSet /\ \A l \in Keys : Put(d, k, v)[l] = IF l = k THEN v ELSE d[l]
    BY <1>1, <2>1, PutFacts
  <2> QED BY <2>1, <2>2 DEF v
<1>3. L \in SUBSET Nat /\ R \in SUBSET Keys
  BY <1>1 DEF SrvSet
<1>4. Stored(D, L)
  BY <1>1, StoredClear
<1>5. r \in OpSet /\ Replayed(d, r) = D
  <2>1. r \in OpSet /\ r.key = k /\ r.cmd = "del"
    BY DEF Del, OpSet
  <2> HIDE DEF r, d
  <2> QED BY <2>1 DEF Replayed, Put
<1>6. Without(s, k) = Data(s, D, d, L, R)
  <2>1. Without(s, k) = [s EXCEPT !.dict = D, !.live = L, !.renamed = R]
    BY DEF Without, Put
  <2> HIDE DEF D, L, R
  <2>2. [s EXCEPT !.dict = D, !.live = L, !.renamed = R] = [s EXCEPT !.dict = D, !.slave = d, !.live = L, !.renamed = R]
    BY <1>1 DEF SrvSet
  <2> QED BY <2>1, <2>2 DEF Data
<1> DEFINE w == Data(s, D, d, L, R)
           t == Data(s, D, D, L, R)
<1>7. ops \in Seq(OpSet) /\ ReplayAll(d, ops) = D
  <2>1. ops = Append(<<>>, r) /\ <<>> \in Seq(OpSet)
    OBVIOUS
  <2> HIDE DEF r, ops
  <2>2. ReplayAll(d, Append(<<>>, r)) = Replayed(ReplayAll(d, <<>>), r) /\ ReplayAll(d, <<>>) = d
    BY <1>1, <1>5, <2>1, ReplayFacts
  <2> QED BY <1>5, <2>1, <2>2
<1>8. ServerSound(t)
  <2>1. \A l \in Keys : IsList(D[l]) => l \in R \/ (IsList(s.dict[l]) /\ (l \in s.renamed => l \in R))
    BY <1>2 DEF IsList
  <2> HIDE DEF D, L, R
  <2> QED BY <1>2, <1>3, <1>4, <2>1, DataSound
<1> HIDE DEF D, L, R, r, ops
<1>9. /\ w \in SrvSet /\ w.dict = D /\ w.slave = d /\ w.live = L /\ w.renamed = R
      /\ SameClients(s, w) /\ SameQueues(s, w) /\ SamePending(s, w)
  BY <1>1, <1>2, <1>3, DataFields
<1>10. /\ t.dict = D /\ t.renamed = R /\ SameClients(s, t) /\ SameQueues(s, t) /\ SamePending(s, t)
  BY <1>1, <1>2, <1>3, DataFields
<1> HIDE DEF w, t
<1>11. QueuesSound(w) /\ PendingSound(w)
  BY <1>9, ClientsSame DEF ServerSound
<1>12. WaitersSound(w)
  BY <1>8, <1>9, <1>10 DEF ServerSound, WaitersSound, SameQueues
<1>13. ServerSound(propagate(w, ops)) /\ SameClients(w, propagate(w, ops))
  BY <1>4, <1>7, <1>9, <1>11, <1>12, PropagateSound
<1>14. propagate(w, ops).at = s.at
  BY <1>9, <1>13 DEF SameClients
<1> QED BY <1>6, <1>13, <1>14 DEF w, ops, r

(* The server with another value at a key. *)
Set(s, k) == [Without(s, k) EXCEPT !.dict[k] = Other, !.slave[k] = Other]

(* setCommand. *)
LEMMA SetSound ==
  ASSUME BlockingAssumption, NEW s, ServerSound(s), NEW k \in Keys
  PROVE  ServerSound(Set(s, k)) /\ Set(s, k).at = s.at
<1> DEFINE d == s.dict
           D == Put(d, k, Other)
           L == s.live \ Elements(d[k])
           R == s.renamed \ {k}
<1>1. s \in SrvSet /\ d \in DictSet /\ Stored(d, s.live) /\ s.slave = d
  BY DEF ServerSound, SrvSet
<1>2. D \in DictSet /\ \A l \in Keys : D[l] = IF l = k THEN Other ELSE d[l]
  <2>1. Other \in Seq(Nat)
    BY DEF Other
  <2> QED BY <1>1, <2>1, PutFacts
<1>3. L \in SUBSET Nat /\ R \in SUBSET Keys
  BY <1>1 DEF SrvSet
<1>4. Stored(D, L)
  BY <1>1, StoredOther
<1>5. Set(s, k) = Data(s, D, D, L, R)
  <2> DEFINE C == Put(d, k, <<>>)
             w == Without(s, k)
  <2>1. w = [s EXCEPT !.dict = C, !.live = L, !.renamed = R]
    BY DEF Without, Put
  <2>2. Put(C, k, Other) = D
    BY <1>1 DEF Put, DictSet
  <2> HIDE DEF C, L, R
  <2>3. w.dict = C /\ w.slave = d
    BY <1>1, <2>1 DEF SrvSet
  <2>4. [w EXCEPT !.dict[k] = Other, !.slave[k] = Other] = [w EXCEPT !.dict = D, !.slave = D]
    <3>1. [w EXCEPT !.dict[k] = Other, !.slave[k] = Other]
            = [w EXCEPT !.dict = [w.dict EXCEPT ![k] = Other], !.slave = [w.slave EXCEPT ![k] = Other]]
      <4> HIDE DEF w
      <4> QED OBVIOUS
    <3> QED BY <2>2, <2>3, <3>1 DEF Put
  <2> HIDE DEF w, D
  <2>5. [w EXCEPT !.dict = D, !.slave = D] = [s EXCEPT !.dict = D, !.slave = D, !.live = L, !.renamed = R]
    BY <1>1, <2>1 DEF SrvSet
  <2> QED BY <2>4, <2>5 DEF Data, Set, w
<1>6. \A l \in Keys : IsList(D[l]) => l \in R \/ (IsList(s.dict[l]) /\ (l \in s.renamed => l \in R))
  BY <1>2 DEF IsList
<1>7. ServerSound(Data(s, D, D, L, R)) /\ Data(s, D, D, L, R).at = s.at
  <2> HIDE DEF D, L, R
  <2> QED BY <1>2, <1>3, <1>4, <1>6, DataSound
<1> QED BY <1>5, <1>7

(* The server with the value of k at another key. *)
Renamed(s, k, to) ==
  LET w == Without(s, to)
  IN [w EXCEPT !.dict = [@ EXCEPT ![to] = w.dict[k], ![k] = <<>>],
               !.slave = [@ EXCEPT ![to] = w.slave[k], ![k] = <<>>],
               !.renamed = (@ \ {k}) \cup {to}]

(* renameCommand: the value may be of any type. *)
LEMMA RenameSound ==
  ASSUME BlockingAssumption, NEW s, ServerSound(s), NEW k \in Keys, NEW to \in Keys, k # to
  PROVE  ServerSound(Renamed(s, k, to)) /\ Renamed(s, k, to).at = s.at
<1> DEFINE d == s.dict
           v == d[k]
           e == <<>>
           L == s.live \ Elements(d[to])
           A == Put(d, to, e)
           B == Put(A, k, e)
           D == Put(B, to, v)
           R == ((s.renamed \ {to}) \ {k}) \cup {to}
           w == Without(s, to)
           t == [w EXCEPT !.dict = [@ EXCEPT ![to] = w.dict[k], ![k] = <<>>],
                          !.slave = [@ EXCEPT ![to] = w.slave[k], ![k] = <<>>],
                          !.renamed = (@ \ {k}) \cup {to}]
<1>1. s \in SrvSet /\ d \in DictSet /\ Stored(d, s.live) /\ s.slave = d /\ v \in Seq(Nat)
      /\ L \in SUBSET Nat /\ R \in SUBSET Keys
  BY DEF ServerSound, SrvSet, DictSet
<1>2. e \in Seq(Nat) /\ Elements(e) = {}
  BY ElementsOf
<1>3. Stored(A, L)
  BY <1>1, StoredClear
<1>4. w = [s EXCEPT !.dict = A, !.live = L, !.renamed = @ \ {to}]
  BY DEF Without, Put
<1> HIDE DEF w, e, d
<1>5. A \in DictSet /\ \A l \in Keys : A[l] = IF l = to THEN e ELSE d[l]
  BY <1>1, <1>2, PutFacts
<1> HIDE DEF A
<1>6. B \in DictSet /\ \A l \in Keys : B[l] = IF l = k THEN e ELSE A[l]
  BY <1>2, <1>5, PutFacts
<1>7. Stored(B, L \ Elements(A[k])) /\ A[k] = v
  <2>1. Stored(Put(A, k, <<>>), L \ Elements(A[k]))
    BY <1>3, <1>5, StoredClear
  <2> QED BY <1>5, <2>1 DEF e
<1> HIDE DEF B, L
<1>8. D \in DictSet /\ \A l \in Keys : D[l] = IF l = to THEN v ELSE B[l]
  <2> HIDE DEF v
  <2> QED BY <1>1, <1>6, PutFacts
<1>9. B[to] = e
  BY <1>5, <1>6
<1>10. Stored(D, L)
  <2>1. CASE v = Other
    <3>1. Stored(Put(B, to, Other), (L \ Elements(v)) \ Elements(B[to]))
      BY <1>6, <1>7, StoredOther
    <3>2. Elements(v) = {} /\ (L \ {}) \ {} = L
      BY <2>1, ElementsOf
    <3> QED BY <1>2, <1>9, <2>1, <3>1, <3>2
  <2>2. CASE v # Other
    <3>1. IsListOf(v) /\ Elements(v) = ToSet(v) /\ \A x : x \in ToSet(v) <=> \E i \in 1 .. Len(v) : v[i] = x
      BY <1>1, <2>2, StoredList
    <3>2. ToSet(v) \subseteq L
      <4>1. A[k] # Other
        BY <1>7, <2>2
      <4>2. ToSet(A[k]) \subseteq L
        BY <1>3, <1>5, <4>1, StoredList
      <4> QED BY <1>7, <4>2
    <3> DEFINE M == L \ Elements(v)
    <3>3. Stored(B, M)
      BY <1>7
    <3>4. \A i \in 1 .. Len(v) : v[i] \notin M \ Elements(B[to])
      BY <3>1
    <3>5. (M \ Elements(B[to])) \cup ToSet(v) = L
      BY <1>2, <1>9, <3>1, <3>2
    <3> HIDE DEF M, v
    <3>6. Stored(Put(B, to, v), (M \ Elements(B[to])) \cup ToSet(v))
      BY <1>6, <3>1, <3>3, <3>4, StoredPut
    <3> QED BY <3>5, <3>6
  <2> QED BY <2>1, <2>2
<1>11. D = [A EXCEPT ![to] = v, ![k] = e] /\ D = [d EXCEPT ![to] = v, ![k] = e]
  <2>1. D \in [Keys -> Seq(Nat)] /\ A \in [Keys -> Seq(Nat)] /\ d \in [Keys -> Seq(Nat)]
    BY <1>1, <1>5, <1>8 DEF DictSet
  <2>2. \A l \in Keys : D[l] = IF l = to THEN v ELSE IF l = k THEN e ELSE d[l]
    BY <1>5, <1>6, <1>8
  <2> HIDE DEF D, v
  <2> QED BY <1>5, <2>1, <2>2
<1> HIDE DEF D, v, R
<1>12. t = Data(s, D, D, L, R)
  <2>1. w.dict = A /\ w.slave = d /\ w.dict[k] = v /\ w.slave[k] = v /\ w.renamed = s.renamed \ {to}
    <3>1. w.dict = A /\ w.slave = d /\ w.renamed = s.renamed \ {to}
      BY <1>1, <1>4 DEF SrvSet
    <3> QED BY <1>7, <3>1 DEF v
  <2>2. t = [w EXCEPT !.dict = [w.dict EXCEPT ![to] = v, ![k] = e], !.slave = [w.slave EXCEPT ![to] = v, ![k] = e],
                      !.renamed = (w.renamed \ {k}) \cup {to}]
    BY <2>1 DEF e
  <2> HIDE DEF t
  <2>3. t = [w EXCEPT !.dict = D, !.slave = D, !.renamed = R]
    BY <1>11, <2>1, <2>2 DEF R
  <2>4. [w EXCEPT !.dict = D, !.slave = D, !.renamed = R] = [s EXCEPT !.dict = D, !.slave = D, !.live = L, !.renamed = R]
    BY <1>1, <1>4 DEF SrvSet
  <2> QED BY <2>3, <2>4 DEF Data
<1>13. \A l \in Keys : IsList(D[l]) => l \in R \/ (IsList(s.dict[l]) /\ (l \in s.renamed => l \in R))
  <2> SUFFICES ASSUME NEW l \in Keys, IsList(D[l]), l # to
               PROVE  IsList(s.dict[l]) /\ (l \in s.renamed => l \in R)
    BY DEF R
  <2>1. l # k
    BY <1>6, <1>8 DEF IsList, e
  <2>2. D[l] = d[l]
    BY <1>5, <1>6, <1>8, <2>1
  <2> QED BY <2>1, <2>2 DEF d, R
<1>14. ServerSound(Data(s, D, D, L, R)) /\ Data(s, D, D, L, R).at = s.at
  BY <1>1, <1>8, <1>10, <1>13, DataSound DEF R
<1>15. ServerSound(t) /\ t.at = s.at
  BY <1>12, <1>14
<1> QED BY <1>15, Zenon DEF w, t, Renamed


(* A server that is at another place of its loop. *)
LEMMA LoopSound ==
  ASSUME NEW s, ServerSound(s), NEW t \in SrvSet, SameData(s, t), SameQueues(s, t), SamePending(s, t),
         t.clients = s.clients
  PROVE  ServerSound(t)
<1>1. QueuesSound(t) /\ PendingSound(t) /\ WaitersSound(t)
  BY DEF QueuesSound, PendingSound, WaitersSound, ServerSound, SameQueues, SamePending, SameData
<1> QED BY <1>1 DEF ServerSound, SameData

(* The server for the request that has been read. *)
Read(s, c, req) == [s EXCEPT !.querybuf[c] = Append(@, req), !.read = @ \cup {c}]

(* readQueryFromClient. *)
LEMMA ReadSound ==
  ASSUME BlockingAssumption, NEW s, ServerSound(s), NEW c \in s.clients, NEW req \in Requests
  PROVE  ServerSound(processInputBuffer(Read(s, c, req), c)) /\ processInputBuffer(Read(s, c, req), c).at = s.at
<1> DEFINE q == [s.querybuf EXCEPT ![c] = Append(@, req)]
           r == s.read \cup {c}
           t == Read(s, c, req)
<1>1. s \in SrvSet /\ c \in Clients
  BY DEF ServerSound, SrvSet
<1>2. q \in [Clients -> Seq(Requests)] /\ r \in SUBSET Clients
  BY <1>1 DEF SrvSet
<1>3. t = [s EXCEPT !.querybuf = q, !.read = r]
  BY DEF Read
<1> HIDE DEF q, r, t
<1>4. t \in SrvSet
  BY <1>1, <1>2, <1>3 DEF SrvSet
<1>5. SameData(s, t) /\ SameQueues(s, t) /\ SamePending(s, t) /\ t.clients = s.clients /\ t.at = s.at
  BY <1>1, <1>3 DEF SrvSet, SameData, SameQueues, SamePending
<1>6. ServerSound(t)
  BY <1>4, <1>5, LoopSound
<1>7. Serving(t, c)
  BY <1>5, <1>6 DEF Serving
<1>8. ServerSound(processInputBuffer(t, c)) /\ processInputBuffer(t, c).at = s.at
  BY <1>1, <1>5, <1>7, InputSound
<1> QED BY <1>8 DEF t

(* The end of a blocked client's wait. *)
LEMMA UnblockSound ==
  ASSUME BlockingAssumption, NEW s, ServerSound(s), NEW c \in s.BLOCKED
  PROVE  /\ ServerSound(unblockClientWaitingData(s, c)) /\ SameClients(s, unblockClientWaitingData(s, c))
         /\ c \notin unblockClientWaitingData(s, c).BLOCKED
<1> DEFINE t == unblockClientWaitingData(s, c)
<1>1. s \in SrvSet /\ c \in Clients /\ QueuesSound(s) /\ PendingSound(s) /\ WaitersSound(s)
      /\ Stored(s.dict, s.live) /\ s.slave = s.dict
  BY DEF ServerSound, SrvSet
<1>2. Lists(s.blocking_keys, s.bpop)
  BY <1>1 DEF QueuesSound
<1>3. t \in SrvSet /\ UnblockChanges(s, t, c) /\ SameData(s, t) /\ SameClients(s, t)
  BY <1>1, <1>2, UnblockFields
<1> HIDE DEF t
<1>4. QueuesSound(t)
  BY <1>1, <1>3, UnblockQueues
<1>5. PendingSound(t)
  BY <1>1, <1>3, UnblockPending
<1>6. WaitersSound(t)
  BY <1>1, <1>3, UnblockWaiters
<1>7. ServerSound(t)
  BY <1>1, <1>3, <1>4, <1>5, <1>6 DEF ServerSound, SameData
<1>8. c \notin t.BLOCKED
  BY <1>3 DEF UnblockChanges
<1> QED BY <1>3, <1>7, <1>8 DEF t

(* createClient. *)
LEMMA CreateSound ==
  ASSUME NEW s, ServerSound(s), NEW c \in Clients
  PROVE  ServerSound([s EXCEPT !.clients = @ \cup {c}]) /\ [s EXCEPT !.clients = @ \cup {c}].at = s.at
<1> DEFINE t == [s EXCEPT !.clients = @ \cup {c}]
<1>1. s \in SrvSet
  BY DEF ServerSound
<1>2. t \in SrvSet /\ t.clients = s.clients \cup {c} /\ t.at = s.at
  BY <1>1 DEF SrvSet
<1>3. SameData(s, t) /\ SameQueues(s, t) /\ SamePending(s, t)
  BY <1>1 DEF SrvSet, SameData, SameQueues, SamePending
<1> HIDE DEF t
<1>4. QueuesSound(t)
  <2>1. QueuesSound(s)
    BY DEF ServerSound
  <2> QED BY <1>2, <1>3, <2>1 DEF QueuesSound, SameQueues
<1>5. PendingSound(t)
  <2>1. PendingSound(s)
    BY DEF ServerSound
  <2> QED BY <1>2, <1>3, <2>1 DEF PendingSound, SamePending, SameQueues
<1>6. WaitersSound(t)
  BY <1>3 DEF WaitersSound, ServerSound, SameQueues, SameData
<1>7. ServerSound(t)
  BY <1>2, <1>3, <1>4, <1>5, <1>6 DEF ServerSound, SameData
<1> QED BY <1>2, <1>7 DEF t

(* EndEvents. *)
LEMMA EndSound ==
  ASSUME NEW s, ServerSound(s)
  PROVE  ServerSound([s EXCEPT !.at = "before_sleep"])
<1> DEFINE t == [s EXCEPT !.at = "before_sleep"]
<1>1. s \in SrvSet
  BY DEF ServerSound
<1>2. t \in SrvSet
  BY <1>1 DEF SrvSet
<1>3. SameData(s, t) /\ SameQueues(s, t) /\ SamePending(s, t) /\ t.clients = s.clients
  BY <1>1 DEF SrvSet, SameData, SameQueues, SamePending
<1> HIDE DEF t
<1>4. ServerSound(t)
  BY <1>2, <1>3, LoopSound
<1> QED BY <1>4 DEF t

(* The next round of events. *)
Polled(s) == [s EXCEPT !.at = "events", !.read = {}, !.again = {}]

(* Poll, when nobody is left on the list of unblocked clients: nobody is   *)
(* marked as unblocked either.                                             *)
LEMMA PollSound ==
  ASSUME NEW s, ServerSound(s), s.unblocked_clients = <<>>
  PROVE  ServerSound(Polled(s))
<1> DEFINE t == Polled(s)
<1>1. s \in SrvSet /\ QueuesSound(s) /\ PendingSound(s) /\ WaitersSound(s)
      /\ Stored(s.dict, s.live) /\ s.slave = s.dict
  BY DEF ServerSound
<1>2. t \in SrvSet
  BY <1>1 DEF SrvSet, Polled
<1>3. /\ SameData(s, t) /\ SameQueues(s, t) /\ t.clients = s.clients
      /\ t.UNBLOCKED = s.UNBLOCKED /\ t.unblocked_clients = s.unblocked_clients
  BY <1>1 DEF SrvSet, SameData, SameQueues, Polled
<1> HIDE DEF t
<1>4. QueuesSound(t) /\ WaitersSound(t)
  BY <1>1, <1>3 DEF QueuesSound, WaitersSound, SameQueues, SameData
<1>5. PendingSound(t)
  <2>1. ToSet(<<>>) = {} /\ Repeats(<<>>, t.again)
    BY DEF ToSet, Repeats
  <2>2. s.UNBLOCKED = {}
    BY <1>1, <2>1 DEF PendingSound
  <2> QED BY <1>3, <2>1, <2>2 DEF PendingSound
<1>6. ServerSound(t)
  BY <1>1, <1>2, <1>3, <1>4, <1>5 DEF ServerSound, SameData
<1> QED BY <1>6 DEF t

(* One client less on a list: it is still on it only if it was twice.      *)
LEMMA OnceLess ==
  ASSUME NEW S, NEW u \in Seq(S), NEW v \in Seq(S), NEW m, Skips(v, u, m), NEW A, Repeats(u, A)
  PROVE  /\ \A x : x \in ToSet(u) /\ x # u[m] => x \in ToSet(v)
         /\ \A x : x \in ToSet(v) => x \in ToSet(u)
         /\ u[m] \in ToSet(v) => u[m] \in A
         /\ Repeats(v, A)
<1>1. /\ DOMAIN u = 1 .. Len(u) /\ DOMAIN v = 1 .. Len(v) /\ Len(u) \in Nat /\ Len(v) \in Nat
      /\ m \in 1 .. Len(u) /\ Len(v) = Len(u) - 1
      /\ \A i \in 1 .. Len(v) : v[i] = IF i < m THEN u[i] ELSE u[i + 1]
  BY DEF Skips
<1>2. ASSUME NEW x, x \in ToSet(u), x # u[m] PROVE x \in ToSet(v)
  <2>1. PICK i \in 1 .. Len(u) : u[i] = x
    BY <1>1, <1>2 DEF ToSet
  <2>2. PICK j \in 1 .. Len(v) : v[j] = x
    <3>1. CASE i < m
      <4>1. i \in 1 .. Len(v) /\ v[i] = x
        BY <1>1, <2>1, <3>1
      <4> QED BY <4>1
    <3>2. CASE ~(i < m)
      <4>1. i # m
        BY <1>2, <2>1
      <4>2. i - 1 \in 1 .. Len(v) /\ ~(i - 1 < m) /\ i - 1 + 1 = i
        BY <1>1, <3>2, <4>1
      <4>3. v[i - 1] = x
        BY <1>1, <2>1, <4>2
      <4> QED BY <4>2, <4>3
    <3> QED BY <3>1, <3>2
  <2> QED BY <1>1, <2>2 DEF ToSet
(* The place that a place of the shorter list had. *)
<1> DEFINE old(i) == IF i < m THEN i ELSE i + 1
<1>3. \A i \in 1 .. Len(v) : old(i) \in 1 .. Len(u) /\ old(i) # m /\ v[i] = u[old(i)]
  BY <1>1
<1>4. \A i, j \in 1 .. Len(v) : i # j => old(i) # old(j)
  BY <1>1
<1> HIDE DEF old
<1>5. ASSUME NEW x, x \in ToSet(v) PROVE x \in ToSet(u)
  <2>1. PICK i \in 1 .. Len(v) : v[i] = x
    BY <1>1, <1>5 DEF ToSet
  <2> QED BY <1>1, <1>3, <2>1 DEF ToSet
<1>6. ASSUME u[m] \in ToSet(v) PROVE u[m] \in A
  <2>1. PICK i \in 1 .. Len(v) : v[i] = u[m]
    BY <1>1, <1>6 DEF ToSet
  <2>2. old(i) \in 1 .. Len(u) /\ old(i) # m /\ u[old(i)] = u[m]
    BY <1>3, <2>1
  <2> QED BY <1>1, <2>2 DEF Repeats
<1>7. Repeats(v, A)
  <2> SUFFICES ASSUME NEW i \in 1 .. Len(v), NEW j \in 1 .. Len(v), i # j, v[i] = v[j] PROVE v[i] \in A
    BY DEF Repeats
  <2>1. /\ old(i) \in 1 .. Len(u) /\ old(j) \in 1 .. Len(u) /\ old(i) # old(j)
        /\ u[old(i)] = u[old(j)] /\ v[i] = u[old(i)]
    BY <1>3, <1>4
  <2> QED BY <2>1 DEF Repeats
<1> QED BY <1>2, <1>5, <1>6, <1>7

(* freeClient, once the client is not blocked any more: it is taken from   *)
(* the list of unblocked clients if it is marked as one.                   *)
Freed(t, c) ==
  [t EXCEPT !.clients = @ \ {c}, !.UNBLOCKED = @ \ {c}, !.read = @ \ {c},
            !.unblocked_clients = IF c \in t.UNBLOCKED THEN RemoveFirst(@, c) ELSE @]

(* Whoever else is on that list stays on it, and the freed client only if  *)
(* it had blocked again.                                                   *)
LEMMA FreedSound ==
  ASSUME NEW s, ServerSound(s), NEW c \in Clients, c \notin s.BLOCKED
  PROVE  ServerSound(Freed(s, c)) /\ Freed(s, c).at = s.at
<1> DEFINE u == s.unblocked_clients
           v == IF c \in s.UNBLOCKED THEN RemoveFirst(u, c) ELSE u
           C == s.clients \ {c}
           U == s.UNBLOCKED \ {c}
           r == s.read \ {c}
           t == Freed(s, c)
<1>1. s \in SrvSet /\ QueuesSound(s) /\ PendingSound(s) /\ WaitersSound(s)
      /\ Stored(s.dict, s.live) /\ s.slave = s.dict
  BY DEF ServerSound
<1>2. u \in Seq(Clients) /\ C \in SUBSET Clients /\ U \in SUBSET Clients /\ r \in SUBSET Clients
  BY <1>1 DEF SrvSet
<1>3. /\ s.UNBLOCKED \subseteq ToSet(u) /\ s.UNBLOCKED \subseteq s.clients
      /\ ToSet(u) \subseteq s.again \cup s.UNBLOCKED /\ Repeats(u, s.again)
      /\ s.BLOCKED \cap s.UNBLOCKED \subseteq s.again
  BY <1>1 DEF PendingSound
<1>4. t = [s EXCEPT !.clients = C, !.UNBLOCKED = U, !.read = r, !.unblocked_clients = v]
  BY DEF Freed
<1> HIDE DEF t, u
<1>5. /\ v \in Seq(Clients) /\ U \subseteq ToSet(v) /\ ToSet(v) \subseteq s.again \cup U
      /\ Repeats(v, s.again)
  <2>1. CASE c \notin s.UNBLOCKED
    <3>1. v = u /\ U = s.UNBLOCKED
      BY <2>1
    <3> QED BY <1>2, <1>3, <3>1
  <2>2. CASE c \in s.UNBLOCKED
    <3>1. v = RemoveFirst(u, c)
      BY <2>2
    <3> HIDE DEF v
    <3>2. c \in ToSet(u)
      BY <1>3, <2>2
    <3>3. RemoveFirst(u, c) \in Seq(Clients)
      BY <1>2, RemoveFirstSkips
    <3>4. PICK m \in 1 .. Len(u) : Skips(RemoveFirst(u, c), u, m) /\ u[m] = c
      BY <1>2, <3>2, RemoveFirstSkips
    <3>5. Skips(v, u, m) /\ v \in Seq(Clients)
      BY <3>1, <3>3, <3>4
    <3>6. /\ \A x : x \in ToSet(u) /\ x # u[m] => x \in ToSet(v)
          /\ \A x : x \in ToSet(v) => x \in ToSet(u)
          /\ u[m] \in ToSet(v) => u[m] \in s.again
          /\ Repeats(v, s.again)
      BY <1>2, <1>3, <3>5, OnceLess
    <3>7. U \subseteq ToSet(v)
      BY <1>3, <3>4, <3>6
    <3>8. ToSet(v) \subseteq s.again \cup U
      BY <1>3, <3>4, <3>6
    <3> QED BY <3>5, <3>6, <3>7, <3>8
  <2> QED BY <2>1, <2>2
<1>6. U \subseteq C /\ s.BLOCKED \subseteq C /\ s.BLOCKED \cap U \subseteq s.again
  BY <1>1, <1>3 DEF QueuesSound
<1> HIDE DEF v, C, U, r
<1>7. t \in SrvSet
  BY <1>1, <1>2, <1>4, <1>5 DEF SrvSet
<1>8. /\ SameData(s, t) /\ SameQueues(s, t) /\ t.clients = C /\ t.at = s.at
      /\ t.UNBLOCKED = U /\ t.unblocked_clients = v /\ t.again = s.again
  BY <1>1, <1>4 DEF SrvSet, SameData, SameQueues
<1>9. QueuesSound(t)
  BY <1>1, <1>6, <1>8 DEF QueuesSound, SameQueues
<1>10. PendingSound(t)
  BY <1>5, <1>6, <1>8 DEF PendingSound, SameQueues
<1>11. WaitersSound(t)
  BY <1>1, <1>8 DEF WaitersSound, SameQueues, SameData
<1>12. ServerSound(t)
  BY <1>1, <1>7, <1>8, <1>9, <1>10, <1>11 DEF ServerSound, SameData
<1> QED BY <1>8, <1>12 DEF t

(* First the client is unblocked. *)
Left(s, c) ==
  LET w == [s EXCEPT !.querybuf[c] = <<>>]
      t == IF c \in w.BLOCKED THEN unblockClientWaitingData(w, c) ELSE w
  IN Freed(t, c)

(* freeClient. *)
LEMMA FreeSound ==
  ASSUME BlockingAssumption, NEW s, ServerSound(s), NEW c \in s.clients
  PROVE  ServerSound(Left(s, c)) /\ Left(s, c).at = s.at
<1> DEFINE w == [s EXCEPT !.querybuf[c] = <<>>]
           q == [s.querybuf EXCEPT ![c] = <<>>]
           t == IF c \in w.BLOCKED THEN unblockClientWaitingData(w, c) ELSE w
<1>1. s \in SrvSet /\ c \in Clients
  BY DEF ServerSound, SrvSet
<1>2. q \in [Clients -> Seq(Requests)] /\ w = [s EXCEPT !.querybuf = q]
  BY <1>1 DEF SrvSet
<1> HIDE DEF q, w
<1>3. ServerSound(w) /\ w.at = s.at
  BY <1>2, QuerybufSound
<1>4. ServerSound(t) /\ c \notin t.BLOCKED /\ t.at = s.at
  BY <1>3, UnblockSound DEF SameClients
<1> HIDE DEF t
<1>5. ServerSound(Freed(t, c)) /\ Freed(t, c).at = s.at
  BY <1>1, <1>4, FreedSound
<1> QED BY <1>5, Zenon DEF w, t, Left

(* The first of the unblocked clients leaves the list. *)
Woken(s) ==
  LET c == Head(s.unblocked_clients)
      w == [s EXCEPT !.unblocked_clients = Tail(@), !.UNBLOCKED = @ \ {c}]
  IN IF c \in s.clients THEN processInputBuffer(w, c) ELSE Aborted(s)

(* beforeSleep. *)
LEMMA SleepSound ==
  ASSUME BlockingAssumption, NEW s, ServerSound(s), s.unblocked_clients # <<>>
  PROVE  /\ ServerSound(Woken(s))
         /\ Woken(s).at # s.at => Head(s.unblocked_clients) \in s.again \ s.clients
<1> DEFINE u == s.unblocked_clients
           c == Head(u)
           v == Tail(u)
           U == s.UNBLOCKED \ {c}
           t == [s EXCEPT !.unblocked_clients = Tail(@), !.UNBLOCKED = @ \ {c}]
<1>1. s \in SrvSet /\ QueuesSound(s) /\ PendingSound(s) /\ WaitersSound(s)
      /\ Stored(s.dict, s.live) /\ s.slave = s.dict
  BY DEF ServerSound
<1>2. u \in Seq(Clients) /\ U \in SUBSET Clients
  BY <1>1 DEF SrvSet
<1>3. /\ s.UNBLOCKED \subseteq ToSet(u) /\ s.UNBLOCKED \subseteq s.clients
      /\ ToSet(u) \subseteq s.again \cup s.UNBLOCKED /\ Repeats(u, s.again)
      /\ s.BLOCKED \cap s.UNBLOCKED \subseteq s.again
  BY <1>1 DEF PendingSound
<1>4. t = [s EXCEPT !.unblocked_clients = v, !.UNBLOCKED = U]
  OBVIOUS
<1> HIDE DEF t, u
<1>5. v \in Seq(Clients) /\ Skips(v, u, 1) /\ c = u[1] /\ c \in Clients
  <2>1. u # <<>>
    BY DEF u
  <2> QED BY <1>2, <2>1 DEF Skips
<1> HIDE DEF v, c
<1>6. /\ \A x : x \in ToSet(u) /\ x # c => x \in ToSet(v)
      /\ \A x : x \in ToSet(v) => x \in ToSet(u)
      /\ c \in ToSet(v) => c \in s.again
      /\ Repeats(v, s.again)
  <2> DEFINE m == 1
  <2>1. Skips(v, u, m) /\ c = u[m]
    BY <1>5
  <2> HIDE DEF m
  <2> QED BY <1>2, <1>3, <1>5, <2>1, OnceLess
<1>7. U \subseteq ToSet(v) /\ ToSet(v) \subseteq s.again \cup U /\ U \subseteq s.clients /\ s.BLOCKED \cap U \subseteq s.again
  BY <1>3, <1>6
<1> HIDE DEF U
<1>8. t \in SrvSet
  BY <1>1, <1>2, <1>4, <1>5 DEF SrvSet
<1>9. /\ SameData(s, t) /\ SameQueues(s, t) /\ t.clients = s.clients /\ t.at = s.at
      /\ t.UNBLOCKED = U /\ t.unblocked_clients = v /\ t.again = s.again
  BY <1>1, <1>4 DEF SrvSet, SameData, SameQueues
<1>10. QueuesSound(t) /\ WaitersSound(t)
  BY <1>1, <1>9 DEF QueuesSound, WaitersSound, SameQueues, SameData
<1>11. PendingSound(t)
  BY <1>6, <1>7, <1>9 DEF PendingSound, SameQueues
<1>12. ServerSound(t)
  BY <1>1, <1>8, <1>9, <1>10, <1>11 DEF ServerSound, SameData
<1>13. c \in s.clients => ServerSound(processInputBuffer(t, c)) /\ processInputBuffer(t, c).at = s.at
  BY <1>5, <1>9, <1>12, InputSound DEF Serving
<1>14. ServerSound(Aborted(s))
  BY AbortedSound
<1>15. ServerSound(IF c \in s.clients THEN processInputBuffer(t, c) ELSE Aborted(s))
  BY <1>13, <1>14
<1>16. c \in s.clients \/ c \in s.again
  <2>1. c \in ToSet(u)
    BY <1>2, <1>5 DEF ToSet, Skips
  <2> QED BY <1>3, <2>1
<1>17. Woken(s) = IF c \in s.clients THEN processInputBuffer(t, c) ELSE Aborted(s)
  BY Zenon DEF t, c, u, Woken
<1>18. Woken(s).at # s.at => c \in s.again \ s.clients
  BY <1>13, <1>16, <1>17
<1> QED BY <1>15, <1>17, <1>18 DEF c, u

(* Push: there are as many fresh elements as it takes, all different, and  *)
(* none of them is in a list.                                              *)
LEMMA FreshSound ==
  ASSUME BlockingAssumption, ServerSound(srv), NEW n \in 1 .. 2, Cardinality(Unused) >= n
  PROVE  IsListOf(Fresh(n)) /\ ToSet(Fresh(n)) \cap srv.live = {}
<1> DEFINE U == Unused
           N == Cardinality(U)
           F == [1 .. n -> U]
           g == Fresh(n)
<1>1. U \subseteq Elem /\ \A e \in U : \A k \in Keys : e \notin Elements(srv.dict[k])
  BY DEF Unused, Elem
<1>2. g = CHOOSE s \in F : IsInjective(s)
  BY DEF Fresh
<1>3. U \cap srv.live = {}
  <2>1. Stored(srv.dict, srv.live)
    BY DEF ServerSound
  <2>2. \A e : e \in srv.live => \E k \in Keys : e \in Elements(srv.dict[k])
    BY <2>1 DEF Stored
  <2> HIDE DEF U
  <2> QED BY <1>1, <2>2
<1> HIDE DEF U, g
<1>4. IsFiniteSet(U)
  <2>1. MaxElements \in Int /\ 1 \in Int
    BY DEF BlockingAssumption
  <2>2. IsFiniteSet(Elem)
    BY <2>1, FS_Interval DEF Elem
  <2> QED BY <1>1, <2>2, FS_Subset
<1>5. N \in Nat /\ ExistsBijection(1 .. N, U)
  BY <1>4, FS_CardinalityType
<1>6. N >= n
  BY DEF U
<1> HIDE DEF N
<1>7. PICK f : f \in Bijection(1 .. N, U)
  BY <1>5 DEF ExistsBijection
<1> DEFINE h == [i \in 1 .. n |-> f[i]]
<1>8. h \in F /\ IsInjective(h)
  <2>1. f \in [1 .. N -> U] /\ \A a, b \in 1 .. N : f[a] = f[b] => a = b
    BY <1>7 DEF Bijection, Injection, IsInjective
  <2>2. \A i \in 1 .. n : i \in 1 .. N
    BY <1>5, <1>6
  <2>3. h \in [1 .. n -> U] /\ DOMAIN h = 1 .. n
    BY <2>1, <2>2
  <2>4. \A a, b \in 1 .. n : h[a] = h[b] => a = b
    BY <2>1, <2>2
  <2> HIDE DEF h
  <2> QED BY <2>3, <2>4 DEF IsInjective
<1> HIDE DEF h, F
<1>9. g \in F /\ IsInjective(g)
  BY <1>2, <1>8
<1>10. g \in [1 .. n -> U] /\ n \in Nat
  BY <1>9 DEF F
<1>11. g \in Seq(Elem) /\ Len(g) = n /\ DOMAIN g = 1 .. n /\ \A i \in 1 .. n : g[i] \in U
  <2>1. g \in [1 .. n -> Elem]
    BY <1>1, <1>10
  <2> QED BY <1>10, <2>1
<1>12. \A i, j \in 1 .. Len(g) : g[i] = g[j] => i = j
  BY <1>9, <1>11 DEF IsInjective
<1>13. ToSet(g) \subseteq U
  BY <1>11 DEF ToSet
<1> QED BY <1>3, <1>11, <1>12, <1>13 DEF IsListOf, g

(* Every step preserves what is said of the server. *)
LEMMA NextSound ==
  ASSUME BlockingAssumption, ServerSound(srv), [Next]_srv
  PROVE  ServerSound(srv')
<1>0. srv \in SrvSet
  BY DEF ServerSound
<1>1. CASE readQueryFromClient
  <2>1. PICK c \in srv.clients, req \in Requests :
          srv' = processInputBuffer(Read(srv, c, req), c)
    BY <1>1, Zenon DEF readQueryFromClient, Read
  <2>2. ServerSound(processInputBuffer(Read(srv, c, req), c))
    BY ReadSound
  <2> QED BY <2>1, <2>2
<1>2. CASE Push
  <2>1. PICK k \in Keys, n \in 1 .. 2 : Cardinality(Unused) >= n /\ srv' = pushGenericCommand(srv, k, Fresh(n))
    BY <1>2 DEF Push
  <2>2. IsListOf(Fresh(n)) /\ ToSet(Fresh(n)) \cap srv.live = {}
    BY <2>1, FreshSound
  <2>3. ServerSound(pushGenericCommand(srv, k, Fresh(n)))
    BY <2>2, PushCommandSound
  <2> QED BY <2>1, <2>3
<1>3. CASE Rpoplpush
  <2>1. PICK src \in Keys, dst \in Keys : srv' = rpoplpushCommand(srv, src, dst)
    BY <1>3 DEF Rpoplpush
  <2> QED BY <2>1, RpoplpushSound
<1>4. CASE delCommand
  <2>1. PICK k \in Keys : srv' = propagate(Without(srv, k), <<Del(k)>>)
    BY <1>4 DEF delCommand
  <2> QED BY <2>1, DelSound
<1>5. CASE setCommand
  <2>1. PICK k \in Keys : srv' = Set(srv, k)
    BY <1>5, Zenon DEF setCommand, Set
  <2>2. ServerSound(Set(srv, k))
    BY SetSound
  <2> QED BY <2>1, <2>2
<1>6. CASE renameCommand
  <2>1. PICK k \in Keys, to \in Keys : k # to /\ srv' = Renamed(srv, k, to)
    BY <1>6, Zenon DEF renameCommand, Renamed
  <2>2. ServerSound(Renamed(srv, k, to))
    BY <2>1, RenameSound
  <2> QED BY <2>1, <2>2
<1>7. CASE clientsCronHandleTimeout
  <2>1. PICK c \in srv.BLOCKED : srv' = unblockClientWaitingData(srv, c)
    BY <1>7 DEF clientsCronHandleTimeout
  <2> QED BY <2>1, UnblockSound
<1>8. CASE freeClient
  <2>1. PICK c \in srv.clients : srv' = Left(srv, c)
    BY <1>8, Zenon DEF freeClient, Freed, Left
  <2> QED BY <2>1, FreeSound
<1>9. CASE createClient
  <2>1. PICK c \in Clients : srv' = [srv EXCEPT !.clients = @ \cup {c}]
    BY <1>9 DEF createClient
  <2>2. ServerSound([srv EXCEPT !.clients = @ \cup {c}])
    BY CreateSound
  <2> QED BY <2>1, <2>2
<1>10. CASE EndEvents
  <2>1. ServerSound([srv EXCEPT !.at = "before_sleep"])
    BY EndSound
  <2> QED BY <1>10, <2>1 DEF EndEvents
<1>11. CASE beforeSleep
  <2>1. srv.unblocked_clients # <<>> /\ srv' = Woken(srv)
    BY <1>11, Zenon DEF beforeSleep, Woken
  <2>2. ServerSound(Woken(srv))
    BY <2>1, SleepSound
  <2> QED BY <2>1, <2>2
<1>12. CASE Poll
  <2>1. srv.unblocked_clients = <<>> /\ srv' = Polled(srv)
    BY <1>12, Zenon DEF Poll, Polled
  <2>2. ServerSound(Polled(srv))
    BY <2>1, PollSound
  <2> QED BY <2>1, <2>2
<1>13. CASE Restart
  BY <1>13, StartedSound DEF Restart
<1>14. CASE UNCHANGED srv
  BY <1>14
<1> QED BY <1>1, <1>2, <1>3, <1>4, <1>5, <1>6, <1>7, <1>8, <1>9, <1>10, <1>11, <1>12, <1>13, <1>14 DEF Next

-----------------------------------------------------------------------------
(* What is true of every state.                                            *)

Sound == ServerSound(srv)

(* The server is sound in every state. *)
THEOREM ServerIsSound ==
  ASSUME BlockingAssumption
  PROVE  Spec => []Sound
<1>1. Init => Sound
  BY StartedSound DEF Init, Sound
<1>2. Sound /\ [Next]_srv => Sound'
  BY NextSound DEF Sound
<1> QED BY <1>1, <1>2, PTL DEF Spec

(* The clients that are blocked, the keys that they wait for, the queues   *)
(* of the keys and the count agree; whoever is marked as unblocked is on   *)
(* the list that beforeSleep goes through, and whoever is on it is         *)
(* connected, unless it had blocked again.                                 *)
THEOREM BlockedClientsAreQueued ==
  ASSUME BlockingAssumption
  PROVE  Spec => []BlockingListsAgree
<1>1. Sound => BlockingListsAgree
  <2> SUFFICES ASSUME ServerSound(srv) PROVE BlockingListsAgree
    BY DEF Sound
  <2>1. QueuesSound(srv) /\ PendingSound(srv)
    BY DEF ServerSound
  <2>2. ToSet(srv.unblocked_clients) \subseteq srv.clients \cup srv.again
    BY <2>1 DEF PendingSound
  <2> QED BY <2>1, <2>2 DEF QueuesSound, PendingSound, Lists, BlockingListsAgree
<1> QED BY <1>1, ServerIsSound, PTL

(* A slave that replays what is propagated, and hands over nothing, has    *)
(* the lists of its master.                                                *)
THEOREM SlaveHasOurLists ==
  ASSUME BlockingAssumption
  PROVE  Spec => []SlaveListsAgree
<1>1. Sound => SlaveListsAgree
  BY DEF Sound, ServerSound, SlaveListsAgree
<1> QED BY <1>1, ServerIsSound, PTL

(* Nobody waits for a key that has a list, unless RENAME has put it there. *)
THEOREM NobodyWaitsInVain ==
  ASSUME BlockingAssumption
  PROVE  Spec => []WaitersHaveNoList
<1>1. Sound => WaitersHaveNoList
  <2> SUFFICES ASSUME ServerSound(srv), NEW c \in srv.BLOCKED, NEW k \in ToSet(srv.bpop[c].keys),
                      IsList(srv.dict[k]), k \notin srv.renamed
               PROVE  FALSE
    BY DEF WaitersHaveNoList, Sound
  <2> DEFINE q == srv.bpop[c].keys
  <2>1. c \in Clients /\ srv.bpop[c] \in Waits /\ WaitersSound(srv) /\ Lists(srv.blocking_keys, srv.bpop)
    BY DEF ServerSound, SrvSet, QueuesSound
  <2>2. q \in Seq(Keys)
    BY <2>1, WaitsHaveKeys
  <2>3. k \in ToSet(q)
    OBVIOUS
  <2> HIDE DEF q
  <2>4. k \in Keys
    BY <2>2, <2>3 DEF ToSet
  <2>5. srv.blocking_keys[k] = <<>>
    BY <2>1, <2>4 DEF WaitersSound
  <2>6. Count(srv.blocking_keys[k], c) = Count(q, k)
    BY <2>1, <2>4 DEF Lists, q
  <2>7. Count(q, k) = 0
    BY <2>5, <2>6, CountEmpty
  <2> QED BY <2>2, <2>3, <2>7, CountZero
<1> QED BY <1>1, ServerIsSound, PTL

(* A list has no more elements than there are. *)
LEMMA ListsAreShort ==
  ASSUME BlockingAssumption, NEW v, IsListOf(v)
  PROVE  Len(v) <= MaxElements
<1> DEFINE n == Len(v)
<1>1. v \in Seq(Elem) /\ n \in Nat /\ MaxElements \in Nat /\ \A i, j \in 1 .. n : v[i] = v[j] => i = j
  BY DEF IsListOf, BlockingAssumption
<1>2. v \in [1 .. n -> Elem] /\ DOMAIN v = 1 .. n
  BY <1>1
<1> HIDE DEF n
<1>3. v \in Injection(1 .. n, Elem)
  BY <1>1, <1>2 DEF Injection, IsInjective
<1>4. IsFiniteSet(Elem) /\ Cardinality(Elem) = MaxElements
  BY <1>1, FS_Interval DEF Elem
<1>5. Cardinality(1 .. n) = n
  BY <1>1, FS_Interval
<1>6. Cardinality(1 .. n) <= Cardinality(Elem)
  BY <1>3, <1>4, FS_Injection
<1> QED BY <1>4, <1>5, <1>6 DEF n

(* Every element that has been pushed and neither popped nor deleted is in *)
(* one list, at one place of it, whatever chain of clients it went         *)
(* through.                                                                *)
THEOREM NoElementGetsLost ==
  ASSUME BlockingAssumption
  PROVE  Spec => []NoElementIsLost
<1>1. Sound => NoElementIsLost
  <2> SUFFICES ASSUME ServerSound(srv) PROVE NoElementIsLost
    BY DEF Sound
  <2> DEFINE d == srv.dict
             L == srv.live
             P == { p \in Keys \X (1 .. MaxElements) : d[p[1]] # Other /\ p[2] \in DOMAIN d[p[1]] }
             f == [p \in P |-> d[p[1]][p[2]]]
  <2>1. NoElementIsLost <=> { d[p[1]][p[2]] : p \in P } = L /\ Cardinality(P) = Cardinality(L)
    BY Zenon DEF NoElementIsLost
  <2>2. d \in DictSet /\ Stored(d, L)
    BY DEF ServerSound, SrvSet
  <2> HIDE DEF d, L
  <2>3. ASSUME NEW k \in Keys, d[k] # Other
        PROVE  /\ IsListOf(d[k]) /\ Elements(d[k]) = ToSet(d[k]) /\ ToSet(d[k]) \subseteq L
               /\ \A e : e \in ToSet(d[k]) <=> \E i \in 1 .. Len(d[k]) : d[k][i] = e
    BY <2>2, <2>3, StoredList
  <2>4. ASSUME NEW p \in P
        PROVE  /\ p = <<p[1], p[2]>> /\ p[1] \in Keys /\ d[p[1]] # Other
               /\ p[2] \in 1 .. Len(d[p[1]]) /\ d[p[1]][p[2]] \in L
    <3>1. p = <<p[1], p[2]>> /\ p[1] \in Keys /\ d[p[1]] # Other /\ p[2] \in DOMAIN d[p[1]]
      OBVIOUS
    <3> DEFINE k == p[1]
               i == p[2]
    <3> HIDE DEF k, i
    <3>2. k \in Keys /\ d[k] # Other /\ i \in DOMAIN d[k]
      BY <3>1 DEF k, i
    <3>3. i \in 1 .. Len(d[k])
      BY <2>3, <3>2 DEF IsListOf
    <3>4. d[k][i] \in L
      BY <2>3, <3>2, <3>3
    <3> QED BY <3>1, <3>3, <3>4 DEF k, i
  <2>5. ASSUME NEW e \in L PROVE \E p \in P : d[p[1]][p[2]] = e
    <3>1. PICK k \in Keys : e \in Elements(d[k])
      BY <2>2 DEF Stored
    <3>2. d[k] # Other
      BY <3>1, ElementsOf
    <3>3. PICK i \in 1 .. Len(d[k]) : d[k][i] = e
      BY <2>3, <3>1, <3>2
    <3>4. d[k] \in Seq(Elem) /\ Len(d[k]) <= MaxElements
      BY <2>3, <3>2, ListsAreShort DEF IsListOf
    <3>5. i \in 1 .. MaxElements /\ i \in DOMAIN d[k]
      BY <3>3, <3>4 DEF BlockingAssumption
    <3>6. <<k, i>> \in P
      BY <3>2, <3>5
    <3> QED BY <3>3, <3>6
  <2>6. \A p, q \in P : d[p[1]][p[2]] = d[q[1]][q[2]] => p = q
    <3> SUFFICES ASSUME NEW p \in P, NEW q \in P, d[p[1]][p[2]] = d[q[1]][q[2]] PROVE p = q
      OBVIOUS
    <3>1. p[1] = q[1] /\ p[2] = q[2]
      BY <2>2, <2>4 DEF Stored
    <3> QED BY <2>4, <3>1
  <2> HIDE DEF P
  <2>7. { d[p[1]][p[2]] : p \in P } = L
    BY <2>4, <2>5
  <2>8. f \in [P -> L] /\ DOMAIN f = P
    BY <2>4
  <2>9. f \in Injection(P, L)
    BY <2>6, <2>8 DEF Injection, IsInjective
  <2>10. f \in Surjection(P, L)
    BY <2>5, <2>8 DEF Surjection
  <2> HIDE DEF f
  <2>11. IsFiniteSet(L)
    <3>1. L \subseteq Elem
      <4> SUFFICES ASSUME NEW e \in L PROVE e \in Elem
        OBVIOUS
      <4>1. PICK k \in Keys : e \in Elements(d[k])
        BY <2>2 DEF Stored
      <4>2. d[k] # Other
        BY <4>1, ElementsOf
      <4>3. PICK i \in 1 .. Len(d[k]) : d[k][i] = e
        BY <2>3, <4>1, <4>2
      <4> QED BY <2>3, <4>2, <4>3 DEF IsListOf
    <3>2. IsFiniteSet(Elem)
      BY FS_Interval DEF Elem, BlockingAssumption
    <3> QED BY <3>1, <3>2, FS_Subset
  <2>12. Cardinality(P) = Cardinality(L)
    BY <2>9, <2>10, <2>11, FS_Injection
  <2> QED BY <2>1, <2>7, <2>12
<1> QED BY <1>1, ServerIsSound, PTL

-----------------------------------------------------------------------------
(* When the server aborts.                                                 *)

(* A client that waits for k passes an element on to another key. *)
ServesIn(s, k, to) == \E c \in s.BLOCKED : Contains(s.bpop[c].keys, k) /\ s.bpop[c].target = to
Closed(s, T, key) == \A j \in T \cup {key}, to \in Keys : ServesIn(s, j, to) => to \in T

(* Who waits in t waits in s, for the same keys, ... *)
Within(t, s) == t.BLOCKED \subseteq s.BLOCKED /\ \A c \in t.BLOCKED : t.bpop[c] = s.bpop[c]

(* ... and only the keys of T have other values. *)
OnlyAt(t, s, T) == \A k \in Keys : k \notin T => t.dict[k] = s.dict[k]

(* Both are transitive, and fewer waiting clients need no larger set. *)
LEMMA WithinFacts ==
  ASSUME NEW r, NEW t, NEW s, NEW T, NEW key, Within(t, s)
  PROVE  /\ Closed(s, T, key) => Closed(t, T, key)
         /\ Within(r, t) => Within(r, s)
         /\ OnlyAt(r, t, T) /\ OnlyAt(t, s, T) => OnlyAt(r, s, T)
<1>1. ASSUME NEW j, NEW to, ServesIn(t, j, to) PROVE ServesIn(s, j, to)
  <2>1. PICK c \in t.BLOCKED : Contains(t.bpop[c].keys, j) /\ t.bpop[c].target = to
    BY <1>1, Zenon DEF ServesIn
  <2>2. c \in s.BLOCKED /\ t.bpop[c] = s.bpop[c]
    BY <2>1 DEF Within
  <2>3. Contains(s.bpop[c].keys, j) /\ s.bpop[c].target = to
    BY <2>1, <2>2
  <2> QED BY <2>2, <2>3, Zenon DEF ServesIn
<1>2. Closed(s, T, key) => Closed(t, T, key)
  BY <1>1, Zenon DEF Closed
<1>3. Within(r, t) => Within(r, s)
  BY DEF Within
<1>4. OnlyAt(r, t, T) /\ OnlyAt(t, s, T) => OnlyAt(r, s, T)
  BY DEF OnlyAt
<1> QED BY <1>2, <1>3, <1>4

(* The client that is served passes the element on to its target. *)
LEMMA ServedWithin ==
  ASSUME BlockingAssumption, NEW x \in HandSet, x.s.blocking_keys[x.key] # <<>>, QueuesSound(x.s)
  PROVE  Within(Served(x), x.s) /\ ServesIn(x.s, x.key, Target(x))
<1> DEFINE s == x.s
           k == x.key
           q == s.blocking_keys[k]
           c == Head(q)
           t == Served(x)
           w == s.bpop[c].keys
<1>1. s \in SrvSet /\ k \in Keys /\ QueuesSound(s) /\ Lists(s.blocking_keys, s.bpop)
  BY DEF HandSet, QueuesSound
<1>2. c \in s.BLOCKED /\ c \in Clients /\ s.bpop[c] \in Requests
  BY <1>1, FirstIsBlocked
<1>3. t = unblockClientWaitingData(s, c) /\ Target(x) = s.bpop[c].target
  BY DEF Served, Receiver, Target
<1>4. q \in Seq(Clients) /\ q # <<>>
  BY <1>1 DEF SrvSet, Queues
<1>5. Count(q, c) = Count(w, k)
  BY <1>1, <1>2 DEF Lists
<1>6. w \in Seq(Keys)
  BY <1>2 DEF BlockingAssumption, RequestSet
<1> HIDE DEF s, k, t
<1>7. t \in SrvSet /\ UnblockChanges(s, t, c) /\ SameData(s, t) /\ SameClients(s, t)
  <2> HIDE DEF c
  <2> QED BY <1>1, <1>2, <1>3, UnblockFields
<1> HIDE DEF q, w
<1>8. c \in ToSet(q)
  BY <1>4 DEF ToSet
<1> HIDE DEF c
<1>9. Contains(w, k)
  <2>1. Count(q, c) # 0
    BY <1>4, <1>8, CountZero
  <2>2. k \in ToSet(w)
    BY <1>5, <1>6, <2>1, CountZero
  <2>3. DOMAIN w = 1 .. Len(w)
    BY <1>6
  <2> QED BY <2>2, <2>3 DEF ToSet, Contains
<1>10. ServesIn(s, k, Target(x))
  BY <1>2, <1>3, <1>9 DEF ServesIn, w
<1>11. Within(t, s)
  <2>1. t.BLOCKED = s.BLOCKED \ {c} /\ t.bpop = Waiting(s.bpop, c, NotBlocked)
    BY <1>7 DEF UnblockChanges
  <2>2. s.bpop \in [Clients -> Waits] /\ s.BLOCKED \in SUBSET Clients
    BY <1>1 DEF SrvSet
  <2>3. \A d \in Clients : d # c => t.bpop[d] = s.bpop[d]
    BY <2>1, <2>2 DEF Waiting
  <2> QED BY <2>1, <2>2, <2>3 DEF Within
<1> QED BY <1>10, <1>11 DEF s, k, t

(* The element has come to keys of T only. *)
HandIn(x, s, T) == Within(x.s, s) /\ OnlyAt(x.s, s, T) /\ (~x.first => x.key \in T)

(* Every step keeps this. *)
LEMMA HandKeepsIn ==
  ASSUME BlockingAssumption, NEW s \in SrvSet, NEW key \in Keys, NEW also \in Seq(OpSet), NEW ele \in Nat,
         NEW T \in SUBSET Keys, Closed(s, T, key),
         NEW x, HandSound(x, s, key, also, ele), HandIn(x, s, T)
  PROVE  HandIn(HandOver(x, ele), s, T)
<1> DEFINE y == HandOver(x, ele)
<1>1. x \in HandSet /\ x.s \in SrvSet /\ x.key \in Keys /\ QueuesSound(x.s) /\ PendingSound(x.s) /\ WaitersSound(x.s)
      /\ x.s.dict \in DictSet
  BY DEF HandSound, HandSet, SrvSet
<1>2. HandDone(x, y) \/ HandToList(x, y) \/ HandToTarget(x, y, ele) \/ HandToClient(x, y, ele) \/ HandOn(x, y)
  BY <1>1, HandCases
<1>3. Within(x.s, s) /\ OnlyAt(x.s, s, T) /\ (~x.first => x.key \in T) /\ (x.first => x.key = key)
  BY DEF HandIn, HandSound
<1> HIDE DEF y
<1>4. ASSUME x.s.blocking_keys[x.key] # <<>>
      PROVE  /\ Served(x) \in SrvSet /\ Within(Served(x), s) /\ OnlyAt(Served(x), s, T)
             /\ Target(x) \in Keys => Target(x) \in T
             /\ Target(x) \in Keys \cup {None}
  <2>1. Within(Served(x), x.s) /\ ServesIn(x.s, x.key, Target(x))
    BY <1>1, <1>4, ServedWithin
  <2>2. Served(x) \in SrvSet /\ SameData(x.s, Served(x)) /\ Target(x) \in Keys \cup {None}
    BY <1>1, <1>4, ServedSound
  <2>3. Within(Served(x), s) /\ Closed(x.s, T, key)
    BY <1>3, <2>1, WithinFacts
  <2>4. OnlyAt(Served(x), s, T)
    BY <1>3, <2>2 DEF OnlyAt, SameData
  <2>5. x.key \in T \cup {key}
    BY <1>3
  <2>6. Target(x) \in Keys => Target(x) \in T
    BY <2>1, <2>3, <2>5 DEF Closed
  <2> QED BY <2>2, <2>3, <2>4, <2>6
<1>5. CASE HandDone(x, y)
  BY <1>5 DEF HandDone, y
<1>6. CASE HandToList(x, y)
  <2>1. HandIn(y, s, T)
    BY <1>3, <1>6 DEF HandToList, HandIn
  <2> QED BY <2>1 DEF y
<1>7. CASE HandToTarget(x, y, ele)
  <2> DEFINE v == <<ele>> \o x.s.dict[x.key]
             d == x.s.dict
             k == x.key
  <2>1. y.s = PutIn(x.s, k, v) /\ y.key = k /\ ~y.first /\ k \in T
    BY <1>3, <1>7 DEF HandToTarget
  <2>2. v \in Seq(Nat)
    BY <1>1, LpushOne
  <2>3. d \in DictSet /\ k \in Keys
    BY <1>1
  <2> HIDE DEF v, k
  <2>4. y.s.dict = Put(d, k, v) /\ SameQueues(x.s, y.s)
    BY <1>1, <2>1, <2>2, <2>3, PutInFields
  <2> HIDE DEF d
  <2>5. Put(d, k, v) \in DictSet /\ \A l \in Keys : Put(d, k, v)[l] = IF l = k THEN v ELSE d[l]
    BY <2>2, <2>3, PutFacts
  <2>6. OnlyAt(y.s, s, T)
    BY <1>3, <2>1, <2>4, <2>5 DEF OnlyAt, d
  <2>7. Within(y.s, s)
    BY <1>3, <2>4 DEF Within, SameQueues
  <2>8. HandIn(y, s, T)
    BY <2>1, <2>6, <2>7 DEF HandIn
  <2> QED BY <2>8 DEF y
<1>8. CASE HandToClient(x, y, ele)
  <2> DEFINE t == Served(x)
  <2>1. x.s.blocking_keys[x.key] # <<>> /\ y.s = Gone(t, ele) /\ y.key = x.key /\ (y.first <=> x.first)
    BY <1>8 DEF HandToClient
  <2>2. t \in SrvSet /\ Within(t, s) /\ OnlyAt(t, s, T)
    BY <1>4, <2>1
  <2> HIDE DEF t
  <2>3. y.s.dict = t.dict /\ SameQueues(t, y.s)
    BY <2>1, <2>2, GoneFields
  <2>4. HandIn(y, s, T)
    BY <1>3, <2>1, <2>2, <2>3 DEF HandIn, Within, OnlyAt, SameQueues
  <2> QED BY <2>4 DEF y
<1>9. CASE HandOn(x, y)
  <2>1. /\ x.s.blocking_keys[x.key] # <<>> /\ y.s = Served(x)
        /\ \/ y.key = x.key /\ (y.first <=> x.first)
           \/ Target(x) # None /\ y.key = Target(x) /\ ~y.first
    BY <1>9 DEF HandOn
  <2>2. HandIn(y, s, T)
    BY <1>3, <1>4, <2>1 DEF HandIn
  <2> QED BY <2>2 DEF y
<1> QED BY <1>2, <1>5, <1>6, <1>7, <1>8, <1>9

(* handleClientsWaitingListPush. *)
LEMMA HandResultIn ==
  ASSUME BlockingAssumption, NEW s \in SrvSet, NEW key \in Keys, NEW also \in Seq(OpSet), NEW ele \in Nat,
         QueuesSound(s), PendingSound(s), WaitersSound(s), s.dict[key] # Other,
         NEW T \in SUBSET Keys, Closed(s, T, key)
  PROVE  HandIn(handleClientsWaitingListPush(s, key, ele, also), s, T)
<1> DEFINE n == Cardinality(Clients) + 1
           q == [i \in 1 .. n |-> i]
           b == [s |-> s, key |-> key, first |-> TRUE, to |-> "nobody", also |-> also]
           S == { x \in HandSet : HandSound(x, s, key, also, ele) /\ HandIn(x, s, T) }
           h == handleClientsWaitingListPush(s, key, ele, also)
<1>1. h = HandAll(b, q, ele)
  BY Zenon DEF handleClientsWaitingListPush, HandAll
<1>2. Cardinality(Clients) \in Nat
  BY ClientsFinite
<1>3. q \in Seq(Nat)
  BY <1>2
<1>4. b \in HandSet /\ b.s = s /\ b.key = key /\ b.first /\ b.to = "nobody" /\ b.also = also
  BY DEF HandSet
<1> HIDE DEF b, h
<1>5. HandSound(b, s, key, also, ele)
  <2>1. SameClients(s, b.s)
    BY <1>4 DEF SameClients
  <2> QED BY <1>4, <2>1 DEF HandSound
<1>6. HandIn(b, s, T)
  BY <1>4 DEF HandIn, Within, OnlyAt
<1>7. HandKeeps(S, Nat, ele)
  <2> SUFFICES ASSUME NEW x \in S PROVE HandOver(x, ele) \in S
    BY DEF HandKeeps
  <2>1. HandSound(HandOver(x, ele), s, key, also, ele)
    BY HandKeepsSound
  <2>2. HandIn(HandOver(x, ele), s, T)
    BY HandKeepsIn
  <2>3. HandOver(x, ele) \in HandSet
    BY <2>1 DEF HandSound
  <2> QED BY <2>1, <2>2, <2>3
<1>8. b \in S
  BY <1>4, <1>5, <1>6
<1> HIDE DEF S, q
<1>9. h \in S
  BY <1>1, <1>3, <1>7, <1>8, HandStays
<1> QED BY <1>9 DEF S, h

(* As long as the elements of a push may be handed over, only keys of T    *)
(* have got some; a push that aborts finds a list at its key, which had    *)
(* none.                                                                   *)
PushIn(x, s, key, T) ==
  /\ x.may_wait => Within(x.s, s) /\ OnlyAt(x.s, s, T)
  /\ ~x.lobj => s.dict[key] = <<>>
  /\ x.aborted => key \in T

(* Every step keeps this. *)
LEMMA PushKeepsIn ==
  ASSUME BlockingAssumption, NEW s \in SrvSet, NEW key \in Keys, NEW e \in Elem,
         NEW T \in SUBSET Keys, Closed(s, T, key), NEW x, PushSound(x, s, key), PushIn(x, s, key, T)
  PROVE  PushIn(PushElement(x, key, e), s, key, T)
<1> DEFINE y == PushElement(x, key, e)
           h == Handed(x, key, e)
<1>1. x \in PushSet /\ x.s \in SrvSet /\ x.also \in Seq(OpSet) /\ e \in Nat
  BY DEF PushSound, PushSet, Elem
<1>2. PushDone(x, y) \/ PushHanded(x, y, key, e) \/ PushAborts(x, y, key, e) \/ PushListed(x, y, key, e)
  BY <1>1, PushCases
<1>3. /\ QueuesSound(x.s) /\ PendingSound(x.s) /\ WaitersSound(x.s) /\ x.s.dict[key] # Other
      /\ (~x.may_wait => x.lobj)
  BY DEF PushSound
<1>4. HandSound(h, x.s, key, x.also, e)
  BY <1>1, <1>3, HandResult DEF Handed
<1>5. ASSUME x.may_wait
      PROVE  Within(h.s, s) /\ OnlyAt(h.s, s, T)
  <2>1. Within(x.s, s) /\ OnlyAt(x.s, s, T)
    BY <1>5 DEF PushIn
  <2>2. Closed(x.s, T, key)
    BY <2>1, WithinFacts
  <2>3. HandIn(h, x.s, T)
    BY <1>1, <1>3, <2>2, HandResultIn DEF Handed
  <2>4. Within(h.s, x.s) /\ OnlyAt(h.s, x.s, T)
    BY <2>3 DEF HandIn
  <2> HIDE DEF h
  <2> QED BY <2>1, <2>4, WithinFacts
<1> HIDE DEF y, h
<1>6. CASE PushDone(x, y)
  BY <1>6 DEF PushDone, y
<1>7. CASE PushHanded(x, y, key, e)
  <2>1. x.may_wait /\ y.s = h.s /\ (y.lobj <=> x.lobj) /\ ~y.aborted
    BY <1>7 DEF PushHanded, h
  <2>2. PushIn(y, s, key, T)
    BY <1>5, <2>1 DEF PushIn
  <2> QED BY <2>2 DEF y
<1>8. CASE PushAborts(x, y, key, e)
  <2>1. /\ ~x.lobj /\ (x.may_wait => h.to = "list") /\ Listed(x, key, e).dict[key] # <<>>
        /\ y.s = x.s /\ (y.lobj <=> x.lobj) /\ (y.may_wait <=> x.may_wait)
    BY <1>8 DEF PushAborts, h
  <2>2. x.may_wait /\ h.to = "list"
    BY <1>3, <2>1
  <2>3. Listed(x, key, e) = h.s
    BY <2>2 DEF Listed, h
  <2>4. h.s.dict = x.s.dict
    BY <1>4, <2>2 DEF HandSound
  <2>5. x.s.dict[key] # <<>> /\ s.dict[key] = <<>> /\ OnlyAt(x.s, s, T)
    BY <2>1, <2>2, <2>3, <2>4 DEF PushIn
  <2>6. key \in T
    BY <2>5 DEF OnlyAt
  <2>7. PushIn(y, s, key, T)
    BY <2>1, <2>6 DEF PushIn
  <2> QED BY <2>7 DEF y
<1>9. CASE PushListed(x, y, key, e)
  <2>1. y.lobj /\ ~y.may_wait /\ ~y.aborted
    BY <1>9 DEF PushListed
  <2>2. PushIn(y, s, key, T)
    BY <2>1 DEF PushIn
  <2> QED BY <2>2 DEF y
<1> QED BY <1>2, <1>6, <1>7, <1>8, <1>9

(* pushGenericCommand aborts only at a key that is in every closed set. *)
LEMMA PushAborting ==
  ASSUME BlockingAssumption, NEW s, ServerSound(s), NEW key \in Keys, NEW els, IsListOf(els),
         ToSet(els) \cap s.live = {}, NEW T \in SUBSET Keys, Closed(s, T, key),
         pushGenericCommand(s, key, els).at # s.at
  PROVE  key \in T
<1> DEFINE b == PushStart(s, key, els)
           y == PushAll(b, els, key)
           ops == (IF y.pushed = <<>> THEN <<>> ELSE <<Lpush(key, y.pushed)>>) \o y.also
           X == ToSet(els)
           t == WithLive(s, X)
           S == { x \in PushSet : PushSound(x, t, key) /\ PushIn(x, t, key, T) }
<1>1. pushGenericCommand(s, key, els) =
        IF s.dict[key] = Other THEN s ELSE IF y.aborted THEN Aborted(s) ELSE propagate(y.s, ops)
  BY Zenon DEF pushGenericCommand, PushStart, PushAll, WithLive
<1>2. s.dict[key] # Other
  BY <1>1
<1>3. t \in SrvSet /\ PushSound(b, t, key) /\ b \in PushSet
  BY <1>2, PushStartSound
<1>4. els \in Seq(Elem) /\ s \in SrvSet
  BY DEF IsListOf, ServerSound
<1>5. X \in SUBSET Nat
  <2>1. els \in Seq(Nat) /\ \A e : e \in ToSet(els) <=> \E i \in 1 .. Len(els) : els[i] = e
    BY <1>4, ElementsOf
  <2> QED BY <2>1
<1>6. b.s = t /\ (b.lobj <=> s.dict[key] # <<>>) /\ ~b.aborted
  BY DEF PushStart
<1> HIDE DEF b, X
<1>7. SameQueues(s, t) /\ SameClients(s, t) /\ t.dict = s.dict
  BY <1>4, <1>5, LiveFields
<1> HIDE DEF t
<1>8. Closed(t, T, key)
  <2>1. Within(t, s)
    BY <1>7 DEF Within, SameQueues
  <2> QED BY <2>1, WithinFacts
<1>9. PushIn(b, t, key, T)
  BY <1>6, <1>7 DEF PushIn, Within, OnlyAt
<1>10. PushKeeps(S, Elem, key)
  <2> SUFFICES ASSUME NEW x \in S, NEW e \in Elem PROVE PushElement(x, key, e) \in S
    BY DEF PushKeeps
  <2>1. PushSound(PushElement(x, key, e), t, key)
    BY <1>3, PushKeepsSound
  <2>2. PushIn(PushElement(x, key, e), t, key, T)
    BY <1>3, <1>8, PushKeepsIn
  <2>3. PushElement(x, key, e) \in PushSet
    BY <2>1 DEF PushSound
  <2> QED BY <2>1, <2>2, <2>3
<1>11. b \in S
  BY <1>3, <1>9
<1> HIDE DEF S
<1>12. y \in S
  BY <1>4, <1>10, <1>11, PushStays
<1> HIDE DEF y
<1>13. PushSound(y, t, key) /\ PushIn(y, t, key, T)
  BY <1>12 DEF S
<1>14. y.s \in SrvSet /\ y.pushed \in Seq(Nat) /\ y.also \in Seq(OpSet) /\ y.s.at = s.at
  BY <1>7, <1>13 DEF PushSound, PushSet, SameClients
<1>15. ops \in Seq(OpSet)
  <2>1. s.dict \in DictSet
    BY <1>4 DEF SrvSet
  <2> QED BY <1>14, <2>1, PushReplayed
<1> HIDE DEF ops
<1>16. propagate(y.s, ops).at = s.at
  BY <1>14, <1>15, PropagateFields DEF SameClients
<1>17. y.aborted
  BY <1>1, <1>2, <1>16
<1> QED BY <1>13, <1>17 DEF PushIn

(* The server aborts only on a push that the clients that wait pass back   *)
(* to its key, which was looked up before, and on a client that was freed  *)
(* after it had blocked again.                                             *)
THEOREM AbortsComeFromLoops ==
  ASSUME BlockingAssumption
  PROVE  Spec => [][AbortsNeedLoopStep]_srv
<1>1. ASSUME Sound, Next PROVE AbortsNeedLoopStep
  <2> USE <1>1
  <2> SUFFICES ASSUME srv'.at # srv.at, srv'.at = "aborted"
               PROVE  IF srv.at = "events" THEN Loop ELSE Head(srv.unblocked_clients) \in srv.again \ srv.clients
    BY DEF AbortsNeedLoopStep
  <2>0. ServerSound(srv)
    BY DEF Sound
  <2>1. CASE readQueryFromClient
    <3>1. PICK c \in srv.clients, req \in Requests : srv' = processInputBuffer(Read(srv, c, req), c)
      BY <2>1, Zenon DEF readQueryFromClient, Read
    <3> QED BY <2>0, <3>1, ReadSound
  <2>2. CASE Push
    <3>1. PICK k \in Keys, n \in 1 .. 2 : srv.at = "events" /\ Cardinality(Unused) >= n
                                          /\ srv' = pushGenericCommand(srv, k, Fresh(n))
      BY <2>2 DEF Push
    <3>2. IsListOf(Fresh(n)) /\ ToSet(Fresh(n)) \cap srv.live = {}
      BY <2>0, <3>1, FreshSound
    <3>3. ASSUME NEW T \in SUBSET Keys, \A j \in T \cup {k}, to \in Keys : Serves(j, to) => to \in T
          PROVE  k \in T
      <4>1. Closed(srv, T, k)
        BY <3>3, Zenon DEF Closed, ServesIn, Serves
      <4>2. pushGenericCommand(srv, k, Fresh(n)).at # srv.at
        BY <3>1
      <4> QED BY <2>0, <3>2, <4>1, <4>2, PushAborting
    <3>4. Loop
      BY <3>3, Zenon DEF Loop
    <3> QED BY <3>1, <3>4
  <2>3. CASE Rpoplpush
    <3>1. PICK src \in Keys, dst \in Keys : srv' = rpoplpushCommand(srv, src, dst)
      BY <2>3 DEF Rpoplpush
    <3> QED BY <2>0, <3>1, RpoplpushSound DEF SameClients
  <2>4. CASE delCommand
    <3>1. PICK k \in Keys : srv' = propagate(Without(srv, k), <<Del(k)>>)
      BY <2>4 DEF delCommand
    <3> QED BY <2>0, <3>1, DelSound
  <2>5. CASE setCommand
    <3>1. PICK k \in Keys : srv' = Set(srv, k)
      BY <2>5, Zenon DEF setCommand, Set
    <3> QED BY <2>0, <3>1, SetSound
  <2>6. CASE renameCommand
    <3>1. PICK k \in Keys, to \in Keys : k # to /\ srv' = Renamed(srv, k, to)
      BY <2>6, Zenon DEF renameCommand, Renamed
    <3> QED BY <2>0, <3>1, RenameSound
  <2>7. CASE clientsCronHandleTimeout
    <3>1. PICK c \in srv.BLOCKED : srv' = unblockClientWaitingData(srv, c)
      BY <2>7 DEF clientsCronHandleTimeout
    <3> QED BY <2>0, <3>1, UnblockSound DEF SameClients
  <2>8. CASE freeClient
    <3>1. PICK c \in srv.clients : srv' = Left(srv, c)
      BY <2>8, Zenon DEF freeClient, Freed, Left
    <3> QED BY <2>0, <3>1, FreeSound
  <2>9. CASE createClient
    <3>1. PICK c \in Clients : srv' = [srv EXCEPT !.clients = @ \cup {c}]
      BY <2>9 DEF createClient
    <3>2. [srv EXCEPT !.clients = @ \cup {c}].at = srv.at
      BY <2>0, CreateSound
    <3> QED BY <3>1, <3>2
  <2>10. CASE EndEvents \/ Poll
    <3>1. srv \in SrvSet
      BY <2>0 DEF ServerSound
    <3> QED BY <2>10, <3>1 DEF EndEvents, Poll, SrvSet
  <2>11. CASE beforeSleep
    <3>1. srv.at = "before_sleep" /\ srv.unblocked_clients # <<>> /\ srv' = Woken(srv)
      BY <2>11, Zenon DEF beforeSleep, Woken
    <3> QED BY <2>0, <3>1, SleepSound
  <2>12. CASE Restart
    BY <2>12 DEF Restart
  <2> QED BY <2>1, <2>2, <2>3, <2>4, <2>5, <2>6, <2>7, <2>8, <2>9, <2>10, <2>11, <2>12 DEF Next
<1>2. Sound /\ [Next]_srv => [AbortsNeedLoopStep]_srv
  BY <1>1
<1> QED BY <1>2, ServerIsSound, PTL DEF Spec
=============================================================================
