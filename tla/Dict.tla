-------------------------------- MODULE Dict --------------------------------
(***************************************************************************)
(* The hash table behind the key space, and behind most values             *)
(* (redis/src/dict.c).  It grows and shrinks by moving one bucket at a     *)
(* time to a second table, in the calls that use it, unless there is a     *)
(* safe iterator: the user of one adds, finds and deletes the entry it has *)
(* been given while it goes through the table.                             *)
(***************************************************************************)
EXTENDS Integers, Sequences, SequencesExt, FiniteSetsExt

CONSTANTS
  Keys,                     \* natural numbers, which are their own hash values
  DICT_HT_INITIAL_SIZE,
  dict_force_resize_ratio,
  REDIS_HT_MINFILL          \* in percent

VARIABLES
  d,                 \* the dictionary
  dict_can_resize,   \* off while a child process saves
  iter,              \* a safe iterator
  bound              \* the keys it must return, because they stay, those it may
                     \* return again, because they are added meanwhile, those it has
                     \* returned and those it has returned twice

vars == <<d, dict_can_resize, iter, bound>>

NULL == -1

(* A table is a function from indexes to chains, in the order of the       *)
(* pointers; ht[1] has the size 0 unless there is a rehashing.             *)
NoTable == [size |-> 0, used |-> 0, table |-> [i \in {} |-> <<>>]]
NewTable(n) == [size |-> n, used |-> 0, table |-> [i \in 0 .. n - 1 |-> <<>>]]

dictIsRehashing(x) == x.rehashidx # -1
dictSize(x) == x.ht[0].used + x.ht[1].used

_dictInit == [ht |-> [t \in {0, 1} |-> NoTable], rehashidx |-> -1, iterators |-> 0]

Index(x, t, k) == k % x.ht[t].size
Chain(x, t, k) == x.ht[t].table[Index(x, t, k)]

_dictNextPower(size) ==
  LET powers == { DICT_HT_INITIAL_SIZE * 2 ^ n : n \in 0 .. size } IN Min({ p \in powers : p >= size })

dictExpand(x, size) ==
  LET n == NewTable(_dictNextPower(size))
  IN IF dictIsRehashing(x) \/ x.ht[0].used > size THEN x
     ELSE IF x.ht[0].size = 0 THEN [x EXCEPT !.ht[0] = n]
     ELSE [x EXCEPT !.ht[1] = n, !.rehashidx = 0]

(* The entries of a bucket are put in front of the chains they go to. *)
Moved(ht, k) ==
  [ht EXCEPT !.used = @ + 1, !.table[k % ht.size] = <<k>> \o @]

(* One step: the first bucket from rehashidx on that is not empty, or the  *)
(* end of the rehashing.                                                   *)
dictRehash(x) ==
  LET idx == Min({ i \in x.rehashidx .. x.ht[0].size - 1 : x.ht[0].table[i] # <<>> })
      bucket == x.ht[0].table[idx]
  IN IF ~dictIsRehashing(x) THEN x
     ELSE IF x.ht[0].used = 0
     THEN [x EXCEPT !.ht[0] = x.ht[1], !.ht[1] = NoTable, !.rehashidx = -1]
     ELSE [x EXCEPT !.ht[0].table[idx] = <<>>, !.ht[0].used = @ - Len(bucket),
                    !.ht[1] = FoldLeft(Moved, @, bucket), !.rehashidx = idx + 1]

_dictRehashStep(x) == IF x.iterators = 0 THEN dictRehash(x) ELSE x

_dictExpandIfNeeded(x, can_resize) ==
  LET size == x.ht[0].size
      used == x.ht[0].used
  IN IF dictIsRehashing(x) THEN x
     ELSE IF size = 0 THEN dictExpand(x, DICT_HT_INITIAL_SIZE)
     ELSE IF used >= size /\ (can_resize \/ used \div size > dict_force_resize_ratio)
     THEN dictExpand(x, 2 * Max({size, used}))
     ELSE x

(* The tables in which a key is looked for. *)
Tables(x) == IF x.ht[0].size = 0 THEN {} ELSE IF dictIsRehashing(x) THEN {0, 1} ELSE {0}
Holds(x, k) == \E t \in Tables(x) : Contains(Chain(x, t, k), k)

(* The entry goes to the new table if there is a rehashing. *)
Inserted(x, k) ==
  LET t == IF dictIsRehashing(x) THEN 1 ELSE 0
  IN IF Holds(x, k) THEN x ELSE [x EXCEPT !.ht[t] = Moved(@, k)]
dictAddRaw(x, k, can_resize) == Inserted(_dictExpandIfNeeded(_dictRehashStep(x), can_resize), k)

dictFind(x) == IF x.ht[0].size = 0 THEN x ELSE _dictRehashStep(x)

(* A key that exists is found again to replace its value. *)
dictReplace(x, k, can_resize) ==
  IF Holds(x, k) THEN dictFind(dictAddRaw(x, k, can_resize)) ELSE dictAddRaw(x, k, can_resize)

Removed(x, k) ==
  LET t == CHOOSE t \in Tables(x) : Contains(Chain(x, t, k), k)
  IN IF ~Holds(x, k) THEN x
     ELSE [x EXCEPT !.ht[t].used = @ - 1, !.ht[t].table[Index(x, t, k)] = Remove(@, k)]
dictGenericDelete(x, k) == IF x.ht[0].size = 0 THEN x ELSE Removed(_dictRehashStep(x), k)

dictResize(x) == dictExpand(x, Max({x.ht[0].used, DICT_HT_INITIAL_SIZE}))

-----------------------------------------------------------------------------
(* Iterators.                                                              *)

NoIter == [open |-> FALSE, done |-> FALSE, table |-> 0, index |-> -1, entry |-> NULL, nextEntry |-> NULL]
dictGetSafeIterator == [NoIter EXCEPT !.open = TRUE]

(* The pointer to the entry behind entry k of a bucket. *)
NextIn(chain, k) ==
  LET i == SelectInSeq(chain, LAMBDA y : y = k) IN IF i = Len(chain) THEN NULL ELSE chain[i + 1]

(* The buckets, <<table, index>>, that the iterator has not come to. *)
Ahead(x, it) ==
  { <<it.table, i>> : i \in it.index + 1 .. x.ht[it.table].size - 1 }
  \cup (IF it.table = 0 /\ dictIsRehashing(x) THEN { <<1, i>> : i \in 0 .. x.ht[1].size - 1 } ELSE {})

(* The first call counts the iterator. *)
Counted(x, it) == IF it.index = -1 /\ it.table = 0 THEN [x EXCEPT !.iterators = @ + 1] ELSE x

dictNext(x, it) ==
  LET full == { b \in Ahead(x, it) : x.ht[b[1]].table[b[2]] # <<>> }
      b == CHOOSE b \in full : \A c \in full : b[1] < c[1] \/ (b[1] = c[1] /\ b[2] <= c[2])
      chain == x.ht[b[1]].table[b[2]]
      e == it.nextEntry
  IN IF it.entry # NULL /\ e # NULL
     THEN [it EXCEPT !.entry = e, !.nextEntry = NextIn(x.ht[it.table].table[it.index], e)]
     ELSE IF full = {} THEN [it EXCEPT !.entry = NULL, !.nextEntry = NULL, !.done = TRUE,
                                       !.table = IF dictIsRehashing(x) THEN 1 ELSE @,
                                       !.index = x.ht[IF dictIsRehashing(x) THEN 1 ELSE it.table].size]
     ELSE [it EXCEPT !.table = b[1], !.index = b[2], !.entry = chain[1],
                     !.nextEntry = NextIn(chain, chain[1])]

dictReleaseIterator(x, it) ==
  IF it.index = -1 /\ it.table = 0 THEN x ELSE [x EXCEPT !.iterators = @ - 1]

-----------------------------------------------------------------------------

NoBound == [must |-> {}, may |-> {}, seen |-> {}, twice |-> {}]

Content(x) == { k \in Keys : Holds(x, k) }

Init == /\ d = _dictInit /\ dict_can_resize = TRUE /\ iter = NoIter
        /\ bound = NoBound

Add == \E k \in Keys :
         /\ d' = dictReplace(d, k, dict_can_resize)
         /\ bound' = IF iter.open /\ ~Holds(d, k) THEN [bound EXCEPT !.may = @ \cup {k}] ELSE bound
         /\ UNCHANGED <<dict_can_resize, iter>>

Find == d' = dictFind(d) /\ UNCHANGED <<dict_can_resize, iter, bound>>

(* While it is iterated through, only the entry that has been returned may *)
(* be deleted: the iterator points to the next one.                        *)
Delete == \E k \in Keys :
            /\ iter.open => k = iter.entry
            /\ d' = dictGenericDelete(d, k)
            /\ bound' = [bound EXCEPT !.must = @ \ {k}]
            /\ UNCHANGED <<dict_can_resize, iter>>

(* What serverCron does, which does not run while a command iterates. *)

updateDictResizePolicy ==
  ~iter.open /\ dict_can_resize' = ~dict_can_resize /\ UNCHANGED <<d, iter, bound>>

htNeedsResize(x) ==
  LET size == x.ht[0].size + x.ht[1].size
  IN dictSize(x) > 0 /\ size > DICT_HT_INITIAL_SIZE /\ (dictSize(x) * 100) \div size < REDIS_HT_MINFILL

tryResizeHashTables ==
  /\ ~iter.open /\ dict_can_resize /\ htNeedsResize(d)
  /\ d' = dictResize(d)
  /\ UNCHANGED <<dict_can_resize, iter, bound>>

(* As many steps as fit into a millisecond. *)
incrementallyRehash ==
  /\ ~iter.open /\ dictIsRehashing(d)
  /\ d' = dictRehash(d)
  /\ UNCHANGED <<dict_can_resize, iter, bound>>

dictEmpty == ~iter.open /\ d' = _dictInit /\ UNCHANGED <<dict_can_resize, iter, bound>>

Iterate == /\ ~iter.open
           /\ iter' = dictGetSafeIterator
           /\ bound' = [NoBound EXCEPT !.must = Content(d)]
           /\ UNCHANGED <<d, dict_can_resize>>

IterNext == /\ iter.open /\ ~iter.done
            /\ d' = Counted(d, iter)
            /\ iter' = dictNext(d, iter)
            /\ bound' = IF iter'.done THEN bound
                        ELSE [bound EXCEPT !.seen = @ \cup {iter'.entry},
                                           !.twice = @ \cup (bound.seen \cap {iter'.entry})]
            /\ UNCHANGED dict_can_resize

IterRelease == /\ iter.open
               /\ d' = dictReleaseIterator(d, iter)
               /\ iter' = NoIter
               /\ bound' = NoBound
               /\ UNCHANGED dict_can_resize

Next == \/ Add \/ Find \/ Delete \/ dictEmpty \/ Iterate \/ IterNext \/ IterRelease
        \/ updateDictResizePolicy \/ tryResizeHashTables \/ incrementallyRehash

-----------------------------------------------------------------------------

(* Every key is in one chain, of the table and bucket where it is looked   *)
(* for; the counts are right; the buckets before rehashidx are empty, so   *)
(* that a rehashing step finds one that is not.                            *)
StructureIsSound ==
  /\ \A t \in {0, 1} : \A i \in DOMAIN d.ht[t].table :
       /\ IsInjective(d.ht[t].table[i])
       /\ \A k \in ToSet(d.ht[t].table[i]) : Index(d, t, k) = i
  /\ \A t \in {0, 1} : d.ht[t].used = MapThenSumSet(LAMBDA i : Len(d.ht[t].table[i]), DOMAIN d.ht[t].table)
  /\ dictSize(d) = Cardinality(Content(d))
  /\ dictIsRehashing(d) <=> d.ht[1].size > 0
  /\ \A i \in 0 .. d.rehashidx - 1 : d.ht[0].table[i] = <<>>
  /\ d.iterators = IF iter.open /\ ~(iter.index = -1 /\ iter.table = 0) THEN 1 ELSE 0

(* A rehashing, a new table, a change of the policy and a search change    *)
(* nothing but the place of the keys; an addition and a deletion only the  *)
(* one key.                                                                *)
FunctionsAgree ==
  LET all == Content(d)
  IN /\ Content(dictRehash(d)) = all /\ Content(dictResize(d)) = all /\ Content(dictFind(d)) = all
     /\ \A k \in Keys : /\ \A can \in BOOLEAN : Content(dictReplace(d, k, can)) = all \cup {k}
                        /\ Content(dictGenericDelete(d, k)) = all \ {k}

(* A safe iterator returns every key that stays in the table, and none     *)
(* twice that was not added again, also if the table begins to grow under  *)
(* it, or is moving to another one when it is opened.                      *)
IterationIsExact ==
  /\ bound.twice \subseteq bound.may
  /\ iter.done => bound.must \subseteq bound.seen
=============================================================================
