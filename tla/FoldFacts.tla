------------------------------ MODULE FoldFacts ------------------------------
(***************************************************************************)
(* Induction over the natural numbers, and what the folds of the community *)
(* modules compute.  The induction theorems of the library are about an    *)
(* operator, which the provers do not instantiate; here an induction is    *)
(* about a set, and a fold about a function.  A module that folds with an  *)
(* operator op shows once that FoldLeft(op, b, q) is Result(F, b, q), for  *)
(* the function F with the values of op.                                   *)
(***************************************************************************)
EXTENDS Integers, Sequences, SequencesExt, TLAPS, WellFoundedInduction

(* A set of natural numbers has a least element. *)
LEMMA LeastNat ==
  ASSUME NEW T \in SUBSET Nat, T # {}
  PROVE  \E n \in T : \A m \in T : n <= m
<1> DEFINE R == OpToRel(<, Nat)
<1>1. IsWellFoundedOn(R, Nat)
  BY NatLessThanWellFounded
<1>2. R = {ss \in Nat \X Nat : ss[1] < ss[2]}
  BY Zenon DEF OpToRel
<1> HIDE DEF R
<1>3. PICK x \in T : \A y \in T : ~ (<<y, x>> \in R)
  BY <1>1, WFMin
<1>4. ASSUME NEW y \in T PROVE x <= y
  <2>1. <<y, x>> \in Nat \X Nat /\ ~(<<y, x>> \in R)
    BY <1>3
  <2>2. ~(y < x)
    BY <2>1, <1>2
  <2> QED BY <2>2
<1> QED BY <1>4

(* A set that has 0, and n + 1 if it has n, has all natural numbers. *)
LEMMA SetInduction ==
  ASSUME NEW S, 0 \in S, \A n \in Nat : n \in S => n + 1 \in S
  PROVE  Nat \subseteq S
<1> DEFINE T == Nat \ S
<1> SUFFICES ASSUME T # {} PROVE FALSE
  OBVIOUS
<1>1. PICK n \in T : \A m \in T : n <= m
  BY LeastNat
<1>2. n # 0 /\ n - 1 \in Nat /\ n - 1 \notin T
  BY <1>1
<1> QED BY <1>1, <1>2

(* The same up to a bound. *)
LEMMA BoundedInduction ==
  ASSUME NEW N \in Nat, NEW S, 0 \in S, \A n \in 0 .. N - 1 : n \in S => n + 1 \in S
  PROVE  0 .. N \subseteq S
<1> DEFINE T == { n \in Nat : n <= N => n \in S }
<1>1. 0 \in T
  OBVIOUS
<1>2. ASSUME NEW n \in Nat, n \in T PROVE n + 1 \in T
  BY <1>2
<1> HIDE DEF T
<1>3. Nat \subseteq T
  BY <1>1, <1>2, SetInduction
<1> QED BY <1>3 DEF T

(* The greatest number of a set that has one. *)
LEMMA MaxIs ==
  ASSUME NEW s \in SUBSET Int, NEW m \in s, \A x \in s : x <= m
  PROVE  Max(s) = m
<1>1. \E x \in s : \A y \in s : x >= y
  OBVIOUS
<1>2. Max(s) \in s /\ \A y \in s : Max(s) >= y
  BY <1>1 DEF Max
<1>3. Max(s) \in Int /\ m \in Int /\ Max(s) >= m /\ Max(s) <= m
  BY <1>2
<1> HIDE DEF Max
<1> QED BY <1>3

(* A set of positions that is not empty has a greatest element. *)
LEMMA MaxOfPositions ==
  ASSUME NEW n \in Nat, NEW s \in SUBSET (1 .. n), s # {}
  PROVE  Max(s) \in s /\ Max(s) \in 1 .. n /\ \A x \in s : x <= Max(s)
<1> DEFINE T == { n - x : x \in s }
<1>0. \A x \in s : x \in 1 .. n /\ n - x \in Nat
  OBVIOUS
<1>1. T \in SUBSET Nat /\ T # {}
  BY <1>0
<1>2. PICK y \in T : \A z \in T : y <= z
  BY <1>1, LeastNat
<1>3. PICK x \in s : y = n - x
  OBVIOUS
<1>4. ASSUME NEW z \in s PROVE z <= x
  <2>1. n - z \in T /\ n - x <= n - z
    BY <1>2, <1>3
  <2> QED BY <2>1
<1>5. Max(s) = x
  <2>1. s \in SUBSET Int
    BY <1>0
  <2> QED BY <2>1, <1>4, MaxIs, Zenon
<1> QED BY <1>4, <1>5

-----------------------------------------------------------------------------
(* Folding elements of M, F stays in S. *)
Stays(F, S, M) == F \in [S \X M -> S]

(* The results of folding F over the beginnings of q, from b on. *)
IsRun(h, F, b, q) ==
  h = [i \in 0 .. Len(q) |-> IF i = 0 THEN b ELSE F[<<h[i - 1], q[i]>>]]
Result(F, b, q) == (CHOOSE h : IsRun(h, F, b, q))[Len(q)]

(* Two runs agree up to n, or agree at first, and after a step if they did *)
(* before.                                                                 *)
Agree(h, k, n) == \A i \in 0 .. n : h[i] = k[i]
StepsAgree(h, k, n) ==
  h[0] = k[0] /\ \A i \in 0 .. n - 1 : h[i] = k[i] => h[i + 1] = k[i + 1]

(* Runs every step of which preserves that they agree do agree. *)
LEMMA RunsAgree ==
  ASSUME NEW n \in Nat, NEW h, NEW k, StepsAgree(h, k, n)
  PROVE  Agree(h, k, n)
<1> USE DEF Agree, StepsAgree
<1> DEFINE T == { i \in 0 .. n : h[i] = k[i] }
<1>1. 0 \in T
  OBVIOUS
<1>2. \A i \in 0 .. n - 1 : i \in T => i + 1 \in T
  OBVIOUS
<1> HIDE DEF T
<1>3. 0 .. n \subseteq T
  BY <1>1, <1>2, BoundedInduction
<1> QED BY <1>3 DEF T

(* A function on the subsets of 1 .. n that is, for a set with greatest    *)
(* element m, what G makes of its value for the others and m.              *)
FoldStep(G, g, s) == G[<<g[s \ {Max(s)}], Max(s)>>]

IsSubsetFold(f, S, b, n, G) ==
  /\ f \in [SUBSET (1 .. n) -> S]
  /\ f[{}] = b
  /\ \A s \in SUBSET (1 .. n) : s # {} => f[s] = FoldStep(G, f, s)

(* There is such a function ... *)
LEMMA SubsetFold ==
  ASSUME NEW S, NEW b \in S, NEW n \in Nat, NEW G \in [S \X (1 .. n) -> S]
  PROVE  \E f : IsSubsetFold(f, S, b, n, G)
<1> DEFINE Good(f, m) == /\ f \in [SUBSET (1 .. m) -> S]
                         /\ f[{}] = b
                         /\ \A s \in SUBSET (1 .. m) : s # {} => f[s] = FoldStep(G, f, s)
           T == { m \in 0 .. n : \E f : Good(f, m) }
<1>1. 0 \in T
  <2> DEFINE z == [s \in SUBSET (1 .. 0) |-> b]
  <2>1. \A s \in SUBSET (1 .. 0) : s = {}
    OBVIOUS
  <2>2. Good(z, 0)
    BY <2>1
  <2> HIDE DEF z, Good
  <2> QED BY <2>2
<1>2. ASSUME NEW m \in 0 .. n - 1, m \in T PROVE m + 1 \in T
  <2>1. PICK f : Good(f, m)
    BY <1>2
  <2> DEFINE e == [s \in SUBSET (1 .. m + 1) |->
                     IF m + 1 \in s THEN G[<<f[s \ {m + 1}], m + 1>>] ELSE f[s]]
  <2>2. ASSUME NEW s \in SUBSET (1 .. m + 1), m + 1 \notin s PROVE s \in SUBSET (1 .. m)
    BY <2>2
  <2>3. ASSUME NEW s \in SUBSET (1 .. m + 1) PROVE s \ {m + 1} \in SUBSET (1 .. m)
    OBVIOUS
  <2>4. e \in [SUBSET (1 .. m + 1) -> S]
    BY <2>1, <2>2, <2>3
  <2>5. e[{}] = b
    BY <2>1
  <2>6. ASSUME NEW s \in SUBSET (1 .. m + 1), s # {} PROVE e[s] = FoldStep(G, e, s)
    <3>1. CASE m + 1 \in s
      <4>1. Max(s) = m + 1
        BY <3>1, MaxIs
      <4>2. e[s \ {m + 1}] = f[s \ {m + 1}]
        BY <2>3
      <4> QED BY <3>1, <4>1, <4>2 DEF FoldStep
    <3>2. CASE m + 1 \notin s
      <4>1. s \in SUBSET (1 .. m)
        BY <3>2, <2>2
      <4>2. f[s] = FoldStep(G, f, s)
        BY <4>1, <2>1, <2>6
      <4>3. ASSUME NEW t \in SUBSET s PROVE e[t] = f[t]
        BY <4>1, <3>2
      <4>4. e[s \ {Max(s)}] = f[s \ {Max(s)}] /\ e[s] = f[s]
        BY <4>3
      <4> QED BY <4>2, <4>4 DEF FoldStep
    <3> QED BY <3>1, <3>2
  <2>7. Good(e, m + 1)
    BY <2>4, <2>5, <2>6
  <2> HIDE DEF e, Good
  <2> QED BY <2>7
<1>3. n \in T
  <2> HIDE DEF T
  <2> QED BY <1>1, <1>2, BoundedInduction
<1>4. PICK f : Good(f, n)
  BY <1>3
<1>5. IsSubsetFold(f, S, b, n, G)
  BY <1>4 DEF IsSubsetFold
<1> QED BY <1>5

(* ... and one only, as long as its values are in S. *)
LEMMA SubsetFoldUnique ==
  ASSUME NEW S, NEW b \in S, NEW n \in Nat, NEW G \in [S \X (1 .. n) -> S],
         NEW f \in [SUBSET (1 .. n) -> S], f[{}] = b,
         \A s \in SUBSET (1 .. n) : s # {} => f[s] = FoldStep(G, f, s),
         NEW g, g[{}] = b,
         \A s \in SUBSET (1 .. n) :
           s # {} /\ g[s \ {Max(s)}] \in S => g[s] = FoldStep(G, g, s)
  PROVE  \A s \in SUBSET (1 .. n) : g[s] = f[s]
<1> DEFINE T == { m \in 0 .. n : \A s \in SUBSET (1 .. m) : g[s] = f[s] }
<1>1. 0 \in T
  <2>1. ASSUME NEW s \in SUBSET (1 .. 0) PROVE g[s] = f[s]
    <3>1. s = {}
      OBVIOUS
    <3> QED BY <3>1
  <2> QED BY <2>1
<1>2. ASSUME NEW m \in 0 .. n - 1, m \in T PROVE m + 1 \in T
  <2> SUFFICES ASSUME NEW s \in SUBSET (1 .. m + 1) PROVE g[s] = f[s]
    OBVIOUS
  <2>1. CASE m + 1 \notin s
    <3>1. s \in SUBSET (1 .. m)
      BY <2>1
    <3> QED BY <3>1, <1>2
  <2>2. CASE m + 1 \in s
    <3>1. Max(s) = m + 1
      BY <2>2, MaxIs
    <3>2. s \ {m + 1} \in SUBSET (1 .. m) /\ s \in SUBSET (1 .. n) /\ s # {}
      BY <2>2
    <3>3. s \ {m + 1} \in SUBSET (1 .. n)
      BY <3>2
    <3>4. g[s \ {m + 1}] = f[s \ {m + 1}] /\ f[s \ {m + 1}] \in S
      BY <3>2, <3>3, <1>2
    <3> QED BY <3>1, <3>2, <3>4 DEF FoldStep
  <2> QED BY <2>1, <2>2
<1>3. n \in T
  <2> HIDE DEF T
  <2> QED BY <1>1, <1>2, BoundedInduction
<1> QED BY <1>3

-----------------------------------------------------------------------------
(* What a fold over q makes of the subsets of its positions. *)
SubsetStep(F, b, q, g) ==
  [s \in SUBSET (1 .. Len(q)) |-> IF s = {} THEN b ELSE F[<<g[s \ {Max(s)}], q[Max(s)]>>]]

IsFold(f, S, F, b, q) ==
  f \in [SUBSET (1 .. Len(q)) -> S] /\ f = SubsetStep(F, b, q, f)

(* There is such a function. *)
LEMMA SubsetFoldOfSequence ==
  ASSUME NEW S, NEW M, NEW b \in S, NEW F, Stays(F, S, M), NEW q \in Seq(M)
  PROVE  \E f : IsFold(f, S, F, b, q)
<1> DEFINE n == Len(q)
           G == [p \in S \X (1 .. n) |-> F[<<p[1], q[p[2]]>>]]
<1>1. n \in Nat /\ \A i \in 1 .. n : q[i] \in M
  OBVIOUS
<1>2. G \in [S \X (1 .. n) -> S]
  BY <1>1 DEF Stays
<1>3. \A x \in S, i \in 1 .. n : G[<<x, i>>] = F[<<x, q[i]>>]
  OBVIOUS
<1> HIDE DEF G, n
<1>a. PICK f : IsSubsetFold(f, S, b, n, G)
  BY <1>1, <1>2, SubsetFold, Zenon
<1>4. /\ f \in [SUBSET (1 .. n) -> S]
      /\ f[{}] = b
      /\ \A s \in SUBSET (1 .. n) : s # {} => f[s] = FoldStep(G, f, s)
  BY <1>a DEF IsSubsetFold
<1>5. ASSUME NEW s \in SUBSET (1 .. n), s # {}
      PROVE  f[s] = F[<<f[s \ {Max(s)}], q[Max(s)]>>]
  <2>1. Max(s) \in 1 .. n
    BY <1>1, <1>5, MaxOfPositions
  <2>2. f[s \ {Max(s)}] \in S
    BY <1>4
  <2> QED BY <1>3, <1>4, <1>5, <2>1, <2>2 DEF FoldStep
<1>6. f = SubsetStep(F, b, q, f)
  BY <1>4, <1>5 DEF SubsetStep, n
<1> QED BY <1>4, <1>6 DEF n, IsFold

(* There is a run ... *)
LEMMA RunExists ==
  ASSUME NEW S, NEW M, NEW b \in S, NEW F, Stays(F, S, M), NEW q \in Seq(M)
  PROVE  \E h \in [0 .. Len(q) -> S] : IsRun(h, F, b, q)
<1>0. PICK f : IsFold(f, S, F, b, q)
  BY SubsetFoldOfSequence, Zenon
<1>1. f \in [SUBSET (1 .. Len(q)) -> S] /\ f = SubsetStep(F, b, q, f)
  BY <1>0 DEF IsFold
<1> DEFINE h == [i \in 0 .. Len(q) |-> f[1 .. i]]
<1>2. h \in [0 .. Len(q) -> S]
  <2>1. \A i \in 0 .. Len(q) : 1 .. i \in SUBSET (1 .. Len(q))
    OBVIOUS
  <2> QED BY <1>1, <2>1
<1>3. h[0] = b
  <2>1. 1 .. 0 = {} /\ 0 \in 0 .. Len(q)
    OBVIOUS
  <2> QED BY <2>1, <1>1 DEF SubsetStep
<1>4. ASSUME NEW i \in 1 .. Len(q) PROVE h[i] = F[<<h[i - 1], q[i]>>]
  <2>0. /\ i \in Nat /\ i <= Len(q) /\ Len(q) \in Nat
        /\ i \in 1 .. i /\ i - 1 \in 0 .. Len(q) /\ i \in 0 .. Len(q)
    OBVIOUS
  <2>1. 1 .. i \in SUBSET (1 .. Len(q)) /\ 1 .. i # {}
    <3>1. \A x \in 1 .. i : x \in 1 .. Len(q)
      BY <2>0
    <3> QED BY <2>0, <3>1
  <2>2. Max(1 .. i) = i
    <3>1. 1 .. i \in SUBSET Int /\ \A x \in 1 .. i : x <= i
      BY <2>0
    <3> QED BY <2>0, <3>1, MaxIs, Zenon
  <2>3. (1 .. i) \ {i} = 1 .. i - 1
    OBVIOUS
  <2>4. f[1 .. i] = F[<<f[1 .. i - 1], q[i]>>]
    BY <1>1, <2>1, <2>2, <2>3 DEF SubsetStep
  <2> QED BY <2>0, <2>4
<1>5. IsRun(h, F, b, q)
  <2> HIDE DEF h
  <2> QED BY <1>2, <1>3, <1>4 DEF IsRun
<1> QED BY <1>2, <1>5

(* ... and one only. *)
LEMMA RunUnique ==
  ASSUME NEW M, NEW b, NEW F, NEW q \in Seq(M), NEW h, NEW k,
         IsRun(h, F, b, q), IsRun(k, F, b, q)
  PROVE  h = k
<1>1. Len(q) \in Nat
  OBVIOUS
<1>2. h[0] = k[0]
  BY <1>1 DEF IsRun
<1>3. ASSUME NEW i \in 0 .. Len(q) - 1, h[i] = k[i] PROVE h[i + 1] = k[i + 1]
  <2>1. i + 1 \in 0 .. Len(q) /\ i + 1 # 0 /\ (i + 1) - 1 = i
    BY <1>1
  <2>2. h[i + 1] = F[<<h[i], q[i + 1]>>]
    BY <2>1 DEF IsRun
  <2>3. k[i + 1] = F[<<k[i], q[i + 1]>>]
    BY <2>1 DEF IsRun
  <2> QED BY <1>3, <2>2, <2>3
<1>4. StepsAgree(h, k, Len(q))
  BY <1>2, <1>3 DEF StepsAgree
<1>5. Agree(h, k, Len(q))
  BY <1>1, <1>4, RunsAgree
<1>6. h = [i \in 0 .. Len(q) |-> h[i]] /\ k = [i \in 0 .. Len(q) |-> k[i]]
  BY DEF IsRun
<1> QED BY <1>5, <1>6 DEF Agree

(* The result is the last value of the run. *)
LEMMA ResultIsLast ==
  ASSUME NEW M, NEW b, NEW F, NEW q \in Seq(M), NEW h, IsRun(h, F, b, q)
  PROVE  Result(F, b, q) = h[Len(q)]
<1> DEFINE P(k) == IsRun(k, F, b, q)
<1>1. P(CHOOSE k : P(k))
  <2> HIDE DEF P
  <2>1. P(h)
    BY DEF P
  <2> QED BY <2>1, Zenon
<1>2. (CHOOSE k : P(k)) = h
  BY <1>1, RunUnique
<1> QED BY <1>2 DEF Result

(* The result is in S if F stays in S. *)
LEMMA ResultType ==
  ASSUME NEW S, NEW M, NEW b \in S, NEW F, Stays(F, S, M), NEW q \in Seq(M)
  PROVE  Result(F, b, q) \in S
<1>1. PICK h \in [0 .. Len(q) -> S] : IsRun(h, F, b, q)
  BY RunExists
<1>2. Result(F, b, q) = h[Len(q)]
  BY <1>1, ResultIsLast
<1>3. Len(q) \in 0 .. Len(q)
  OBVIOUS
<1> QED BY <1>2, <1>3

(* g satisfies the equation of a fold, as long as its values are in S. *)
SolvesFold(g, S, F, b, q) ==
  /\ g[{}] = b
  /\ \A s \in SUBSET (1 .. Len(q)) : s # {} /\ g[s \ {Max(s)}] \in S =>
       g[s] = F[<<g[s \ {Max(s)}], q[Max(s)]>>]

(* The value of g for all positions is the result. *)
Gives(g, F, b, q) == g[1 .. Len(q)] = Result(F, b, q)

(* What satisfies the equation gives the result. *)
LEMMA FoldIsResult ==
  ASSUME NEW S, NEW M, NEW b \in S, NEW F, Stays(F, S, M), NEW q \in Seq(M),
         NEW g, SolvesFold(g, S, F, b, q)
  PROVE  Gives(g, F, b, q)
<1>1. PICK h \in [0 .. Len(q) -> S] : IsRun(h, F, b, q)
  BY RunExists
<1> DEFINE k == [i \in 0 .. Len(q) |-> g[1 .. i]]
<1>2. Len(q) \in Nat
  OBVIOUS
<1>3. k[0] = h[0]
  <2>1. 1 .. 0 = {} /\ 0 \in 0 .. Len(q)
    OBVIOUS
  <2> QED BY <1>1, <2>1 DEF IsRun, SolvesFold
<1>4. ASSUME NEW i \in 0 .. Len(q) - 1, k[i] = h[i] PROVE k[i + 1] = h[i + 1]
  <2>1. i \in 0 .. Len(q) /\ i + 1 \in 0 .. Len(q) /\ i + 1 # 0 /\ (i + 1) - 1 = i
    BY <1>2
  <2>2. h[i + 1] = F[<<h[i], q[i + 1]>>]
    BY <1>1, <2>1 DEF IsRun
  <2>3. /\ 1 .. i + 1 \in SUBSET (1 .. Len(q))
        /\ 1 .. i + 1 # {} /\ (1 .. i + 1) \ {i + 1} = 1 .. i
    <3>1. \A x \in 1 .. i + 1 : x \in 1 .. Len(q)
      BY <2>1, <1>2
    <3>2. i + 1 \in 1 .. i + 1
      OBVIOUS
    <3>3. (1 .. i + 1) \ {i + 1} = 1 .. i
      OBVIOUS
    <3> QED BY <3>1, <3>2, <3>3, Zenon
  <2>4. Max(1 .. i + 1) = i + 1
    <3>1. /\ 1 .. i + 1 \in SUBSET Int /\ i + 1 \in 1 .. i + 1
          /\ \A x \in 1 .. i + 1 : x <= i + 1
      OBVIOUS
    <3> QED BY <3>1, MaxIs, Zenon
  <2>5. g[1 .. i] = h[i] /\ h[i] \in S
    BY <1>4, <2>1
  <2>6. g[1 .. i + 1] = F[<<g[1 .. i], q[i + 1]>>]
    BY <2>3, <2>4, <2>5 DEF SolvesFold
  <2> QED BY <2>1, <2>2, <2>5, <2>6
<1> HIDE DEF k
<1>b. StepsAgree(k, h, Len(q))
  BY <1>3, <1>4 DEF StepsAgree
<1>5. Agree(k, h, Len(q))
  BY <1>2, <1>b, RunsAgree
<1>6. Result(F, b, q) = h[Len(q)]
  BY <1>1, ResultIsLast
<1> QED BY <1>2, <1>5, <1>6 DEF k, Agree, Gives

-----------------------------------------------------------------------------
(* The result of folding nothing. *)
LEMMA ResultEmpty ==
  ASSUME NEW S, NEW M, NEW b \in S, NEW F, Stays(F, S, M)
  PROVE  Result(F, b, <<>>) = b
<1>1. ASSUME NEW z \in Seq(M), Len(z) = 0 PROVE Result(F, b, z) = b
  <2>1. PICK h \in [0 .. Len(z) -> S] : IsRun(h, F, b, z)
    BY RunExists
  <2>2. Result(F, b, z) = h[Len(z)]
    BY <2>1, ResultIsLast
  <2>3. h[0] = b
    BY <1>1, <2>1 DEF IsRun
  <2> QED BY <1>1, <2>2, <2>3
<1>2. <<>> \in Seq(M) /\ Len(<<>>) = 0
  OBVIOUS
<1> QED BY <1>1, <1>2, Zenon

(* One more element at the end is folded last. *)
LEMMA ResultAppend ==
  ASSUME NEW S, NEW M, NEW b \in S, NEW F, Stays(F, S, M), NEW q \in Seq(M), NEW e \in M
  PROVE  Result(F, b, Append(q, e)) = F[<<Result(F, b, q), e>>]
<1> DEFINE p == Append(q, e)
<1>1. p \in Seq(M) /\ Len(p) = Len(q) + 1 /\ p[Len(q) + 1] = e /\ Len(q) \in Nat
      /\ \A i \in 1 .. Len(q) : p[i] = q[i]
  OBVIOUS
<1> HIDE DEF p
<1>2. PICK h \in [0 .. Len(q) -> S] : IsRun(h, F, b, q)
  BY RunExists
<1>3. PICK k \in [0 .. Len(p) -> S] : IsRun(k, F, b, p)
  BY <1>1, RunExists
<1>4. h[0] = k[0]
  BY <1>1, <1>2, <1>3 DEF IsRun
<1>5. ASSUME NEW i \in 0 .. Len(q) - 1, h[i] = k[i] PROVE h[i + 1] = k[i + 1]
  <2>1. /\ i + 1 \in 0 .. Len(q) /\ i + 1 \in 0 .. Len(p) /\ i + 1 # 0
        /\ (i + 1) - 1 = i /\ i + 1 \in 1 .. Len(q)
    BY <1>1
  <2>2. h[i + 1] = F[<<h[i], q[i + 1]>>]
    BY <1>2, <2>1 DEF IsRun
  <2>3. k[i + 1] = F[<<k[i], p[i + 1]>>]
    BY <1>3, <2>1 DEF IsRun
  <2> QED BY <1>1, <1>5, <2>1, <2>2, <2>3
<1>6. h[Len(q)] = k[Len(q)]
  <2>1. StepsAgree(h, k, Len(q))
    BY <1>4, <1>5 DEF StepsAgree
  <2>2. Agree(h, k, Len(q))
    BY <1>1, <2>1, RunsAgree
  <2> QED BY <1>1, <2>2 DEF Agree
<1>7. k[Len(p)] = F[<<k[Len(q)], e>>]
  <2>1. Len(p) \in 0 .. Len(p) /\ Len(p) # 0 /\ Len(p) - 1 = Len(q)
    BY <1>1
  <2> QED BY <1>1, <1>3, <2>1 DEF IsRun
<1>8. Result(F, b, q) = h[Len(q)]
  BY <1>2, ResultIsLast
<1>9. Result(F, b, p) = k[Len(p)]
  BY <1>1, <1>3, ResultIsLast
<1> QED BY <1>6, <1>7, <1>8, <1>9 DEF p

(* The first element is folded first, and the rest from there. *)
LEMMA ResultCons ==
  ASSUME NEW S, NEW M, NEW b \in S, NEW F, Stays(F, S, M), NEW q \in Seq(M), q # <<>>
  PROVE  Result(F, b, q) = Result(F, F[<<b, Head(q)>>], Tail(q))
<1> DEFINE t == Tail(q)
           c == F[<<b, Head(q)>>]
<1>1. /\ t \in Seq(M) /\ Len(t) \in Nat /\ Len(q) = Len(t) + 1
      /\ Head(q) = q[1] /\ Head(q) \in M
      /\ \A i \in 1 .. Len(t) : t[i] = q[i + 1]
  OBVIOUS
<1>2. c \in S
  BY <1>1 DEF Stays
<1> HIDE DEF t
<1>3. PICK h \in [0 .. Len(q) -> S] : IsRun(h, F, b, q)
  BY RunExists
<1>4. h[0] = b /\ h[1] = c
  <2>1. 0 \in 0 .. Len(q) /\ 1 \in 0 .. Len(q) /\ 1 - 1 = 0
    BY <1>1
  <2>2. h[0] = b
    BY <1>3, <2>1 DEF IsRun
  <2>3. h[1] = F[<<h[1 - 1], q[1]>>]
    <3>1. \A i \in 0 .. Len(q) : i # 0 => h[i] = F[<<h[i - 1], q[i]>>]
      BY <1>3 DEF IsRun
    <3> QED BY <2>1, <3>1
  <2> QED BY <1>1, <2>1, <2>2, <2>3
<1> HIDE DEF c
<1>5. PICK k \in [0 .. Len(t) -> S] : IsRun(k, F, c, t)
  BY <1>1, <1>2, RunExists
<1> DEFINE l == [i \in 0 .. Len(t) |-> h[i + 1]]
<1>6. l[0] = k[0]
  BY <1>1, <1>4, <1>5 DEF IsRun
<1>7. ASSUME NEW i \in 0 .. Len(t) - 1, l[i] = k[i] PROVE l[i + 1] = k[i + 1]
  <2>1. /\ i \in 0 .. Len(t) /\ i + 1 \in 0 .. Len(t) /\ i + 1 # 0
        /\ (i + 1) - 1 = i /\ i + 1 \in 1 .. Len(t)
        /\ (i + 1) + 1 \in 0 .. Len(q) /\ (i + 1) + 1 # 0 /\ ((i + 1) + 1) - 1 = i + 1
    BY <1>1
  <2>2. h[(i + 1) + 1] = F[<<h[i + 1], q[(i + 1) + 1]>>]
    BY <1>3, <2>1 DEF IsRun
  <2>3. k[i + 1] = F[<<k[i], t[i + 1]>>]
    BY <1>5, <2>1 DEF IsRun
  <2> QED BY <1>1, <1>7, <2>1, <2>2, <2>3
<1>8. l[Len(t)] = h[Len(q)]
  BY <1>1
<1> HIDE DEF l
<1>9. l[Len(t)] = k[Len(t)]
  <2>1. StepsAgree(l, k, Len(t))
    BY <1>6, <1>7 DEF StepsAgree
  <2>2. Agree(l, k, Len(t))
    BY <1>1, <2>1, RunsAgree
  <2> QED BY <1>1, <2>2 DEF Agree
<1>10. Result(F, b, q) = h[Len(q)]
  BY <1>3, ResultIsLast
<1>11. Result(F, c, t) = k[Len(t)]
  BY <1>1, <1>5, ResultIsLast
<1> QED BY <1>8, <1>9, <1>10, <1>11 DEF c, t

-----------------------------------------------------------------------------
(* T has <<i + 1, y>>, for the value y after element i + 1, if it has      *)
(* <<i, x>> for the value x before it.                                     *)
Inductive(T, S, F, q) ==
  \A i \in 0 .. Len(q) - 1 : \A x \in S :
    <<i, x>> \in T => <<i + 1, F[<<x, q[i + 1]>>]>> \in T

(* What holds of b before the first element, and after each element if it  *)
(* did before it, holds of the result after all of them.                   *)
LEMMA ResultInduct ==
  ASSUME NEW S, NEW M, NEW b \in S, NEW F, Stays(F, S, M), NEW q \in Seq(M),
         NEW T, <<0, b>> \in T, Inductive(T, S, F, q)
  PROVE  <<Len(q), Result(F, b, q)>> \in T
<1>1. PICK h \in [0 .. Len(q) -> S] : IsRun(h, F, b, q)
  BY RunExists
<1>2. Len(q) \in Nat
  OBVIOUS
<1> DEFINE U == { i \in 0 .. Len(q) : <<i, h[i]>> \in T }
<1>3. 0 \in U
  <2>1. h[0] = b
    BY <1>1, <1>2 DEF IsRun
  <2>2. 0 \in 0 .. Len(q)
    BY <1>2
  <2> QED BY <2>1, <2>2, Zenon
<1>4. ASSUME NEW i \in 0 .. Len(q) - 1, i \in U PROVE i + 1 \in U
  <2>1. i \in 0 .. Len(q) /\ i + 1 \in 0 .. Len(q) /\ i + 1 # 0 /\ (i + 1) - 1 = i
    BY <1>2
  <2>2. h[i + 1] = F[<<h[i], q[i + 1]>>]
    BY <1>1, <2>1 DEF IsRun
  <2>3. h[i] \in S /\ <<i, h[i]>> \in T
    BY <1>4, <2>1
  <2> QED BY <2>1, <2>2, <2>3 DEF Inductive
<1>5. Len(q) \in U
  <2> HIDE DEF U
  <2>1. 0 .. Len(q) \subseteq U
    BY <1>2, <1>3, <1>4, BoundedInduction, Zenon
  <2> QED BY <1>2, <2>1
<1>6. Result(F, b, q) = h[Len(q)]
  BY <1>1, ResultIsLast
<1> QED BY <1>5, <1>6

(* Folding an element with F and with G keeps a pair of values in T. *)
Related(T, S, F, R, G, M) ==
  \A x \in S, y \in R, e \in M :
    <<x, y>> \in T => <<F[<<x, e>>], G[<<y, e>>]>> \in T

(* A relation between b and c that folding one more element with F and     *)
(* with G preserves relates the results.                                   *)
LEMMA ResultsRelated ==
  ASSUME NEW S, NEW M, NEW b \in S, NEW F, Stays(F, S, M), NEW q \in Seq(M),
         NEW R, NEW c \in R, NEW G, Stays(G, R, M),
         NEW T, <<b, c>> \in T, Related(T, S, F, R, G, M)
  PROVE  <<Result(F, b, q), Result(G, c, q)>> \in T
<1>1. PICK h \in [0 .. Len(q) -> S] : IsRun(h, F, b, q)
  BY RunExists
<1>2. PICK k \in [0 .. Len(q) -> R] : IsRun(k, G, c, q)
  BY RunExists
<1>3. Len(q) \in Nat
  OBVIOUS
<1> DEFINE U == { i \in 0 .. Len(q) : <<h[i], k[i]>> \in T }
<1>4. 0 \in U
  <2>1. h[0] = b /\ k[0] = c
    BY <1>1, <1>2, <1>3 DEF IsRun
  <2>2. 0 \in 0 .. Len(q)
    BY <1>3
  <2> QED BY <2>1, <2>2, Zenon
<1>5. ASSUME NEW i \in 0 .. Len(q) - 1, i \in U PROVE i + 1 \in U
  <2>1. i \in 0 .. Len(q) /\ i + 1 \in 0 .. Len(q) /\ i + 1 # 0 /\ (i + 1) - 1 = i
    BY <1>3
  <2>2. h[i + 1] = F[<<h[i], q[i + 1]>>] /\ k[i + 1] = G[<<k[i], q[i + 1]>>]
    BY <1>1, <1>2, <2>1 DEF IsRun
  <2>3. h[i] \in S /\ k[i] \in R /\ <<h[i], k[i]>> \in T /\ q[i + 1] \in M
    BY <1>5, <2>1
  <2> QED BY <2>1, <2>2, <2>3 DEF Related
<1>6. Len(q) \in U
  <2> HIDE DEF U
  <2>1. 0 .. Len(q) \subseteq U
    BY <1>3, <1>4, <1>5, BoundedInduction, Zenon
  <2> QED BY <1>3, <2>1
<1>7. Result(F, b, q) = h[Len(q)] /\ Result(G, c, q) = k[Len(q)]
  BY <1>1, <1>2, ResultIsLast
<1> QED BY <1>6, <1>7
=============================================================================
