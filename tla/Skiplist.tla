------------------------------ MODULE Skiplist ------------------------------
(***************************************************************************)
(* The skip list of a large sorted set (the first part of                  *)
(* redis/src/t_zset.c): nodes with several levels of forward pointers, the *)
(* number of nodes each one passes over (its span), and a pointer back.    *)
(* RedisZset takes it for a sorted sequence: this module shows that its    *)
(* functions are those of the sequence.                                    *)
(***************************************************************************)
EXTENDS Integers, Sequences, SequencesExt, FiniteSetsExt

CONSTANTS
  Objects,              \* positive integers, in the order of compareStringObjects
  Scores,               \* integers
  ZSKIPLIST_MAXLEVEL

VARIABLE zsl

(* A node is named by its object. *)
NULL == -1
Header == 0

zslCreateNode(level, score) ==
  [score |-> score, backward |-> NULL,
   forward |-> [i \in 1 .. level |-> NULL], span |-> [i \in 1 .. level |-> 0]]

zslCreate ==
  [level |-> 1, length |-> 0, tail |-> NULL,
   node |-> [x \in {Header} |-> zslCreateNode(ZSKIPLIST_MAXLEVEL, 0)]]

Forward(z, x, i) == z.node[x].forward[i]
Span(z, x, i) == z.node[x].span[i]

(* The loop of every function: from the header, and from the highest level *)
(* down, go to the next node as long as Go says so of it and of the nodes  *)
(* traversed so far.  The result is where each level was left (update[i]   *)
(* and rank[i]).                                                           *)
Descend(z, Go(_, _)) ==
  LET from(p, i) ==
        LET after[n \in 0 .. z.length] ==
              IF n = 0 THEN p
              ELSE LET q == after[n - 1]
                       y == Forward(z, q.x, i)
                       rank == q.rank + Span(z, q.x, i)
                   IN IF y # NULL /\ Go(y, rank) THEN [x |-> y, rank |-> rank] ELSE q
        IN after[z.length]
      level[i \in 1 .. z.level] ==
        from(IF i = z.level THEN [x |-> Header, rank |-> 0] ELSE level[i + 1], i)
  IN level

Before(z, score, obj) ==
  Descend(z, LAMBDA y, rank : z.node[y].score < score \/ (z.node[y].score = score /\ y < obj))

(* Mutant: the spans of the levels above the new node stay. *)
zslInsert_keeps_spans(z, score, obj, level) ==
  LET found == Before(z, score, obj)
      high == IF level > z.level THEN level ELSE z.level
      update(i) == IF i <= z.level THEN found[i] ELSE [x |-> Header, rank |-> 0]
      span(i) == IF i <= z.level THEN Span(z, update(i).x, i) ELSE z.length
      crossed(i) == found[1].rank - update(i).rank
      next == Forward(z, found[1].x, 1)
      new == [score |-> score,
              backward |-> IF found[1].x = Header THEN NULL ELSE found[1].x,
              forward |-> [i \in 1 .. level |-> Forward(z, update(i).x, i)],
              span |-> [i \in 1 .. level |-> span(i) - crossed(i)]]
      relinked(x) ==
        [z.node[x] EXCEPT
           !.backward = IF x = next THEN obj ELSE @,
           !.forward = [i \in DOMAIN @ |-> IF i <= level /\ update(i).x = x THEN obj ELSE @[i]],
           !.span = [i \in DOMAIN @ |-> IF i <= level /\ update(i).x = x THEN crossed(i) + 1 ELSE @[i]]]
  IN [level |-> high, length |-> z.length + 1, tail |-> IF next = NULL THEN obj ELSE z.tail,
      node |-> [x \in DOMAIN z.node \cup {obj} |-> IF x = obj THEN new ELSE relinked(x)]]

(* The level is the one zslRandomLevel gives. *)
zslInsert(z, score, obj, level) ==
  LET found == Before(z, score, obj)
      high == IF level > z.level THEN level ELSE z.level
      update(i) == IF i <= z.level THEN found[i] ELSE [x |-> Header, rank |-> 0]
      span(i) == IF i <= z.level THEN Span(z, update(i).x, i) ELSE z.length
      crossed(i) == found[1].rank - update(i).rank
      next == Forward(z, found[1].x, 1)
      new == [score |-> score,
              backward |-> IF found[1].x = Header THEN NULL ELSE found[1].x,
              forward |-> [i \in 1 .. level |-> Forward(z, update(i).x, i)],
              span |-> [i \in 1 .. level |-> span(i) - crossed(i)]]
      relinked(x) ==
        [z.node[x] EXCEPT
           !.backward = IF x = next THEN obj ELSE @,
           !.forward = [i \in DOMAIN @ |-> IF i <= level /\ update(i).x = x THEN obj ELSE @[i]],
           !.span = [i \in DOMAIN @ |->
                       CASE i > high \/ update(i).x # x -> @[i]
                         [] i <= level /\ update(i).x = x -> crossed(i) + 1
                         [] i \in level + 1 .. high /\ update(i).x = x -> @[i] + 1]]
  IN [level |-> high, length |-> z.length + 1, tail |-> IF next = NULL THEN obj ELSE z.tail,
      node |-> [x \in DOMAIN z.node \cup {obj} |-> IF x = obj THEN new ELSE relinked(x)]]

(* Unlinks and frees x; update is where a search for it left each level. *)
zslDeleteNode(z, x, update) ==
  LET gone == z.node[x]
      next == gone.forward[1]
      points(y, i) == i <= z.level /\ update[i].x = y
      relinked(y) ==
        [z.node[y] EXCEPT
           !.backward = IF y = next THEN gone.backward ELSE @,
           !.forward = [i \in DOMAIN @ |-> IF points(y, i) /\ @[i] = x THEN gone.forward[i] ELSE @[i]],
           !.span = [i \in DOMAIN @ |->
                       IF ~points(y, i) THEN @[i]
                       ELSE IF Forward(z, y, i) = x THEN @[i] + gone.span[i] - 1 ELSE @[i] - 1]]
      node == [y \in DOMAIN z.node \ {x} |-> relinked(y)]
  IN [level |-> Max({1} \cup { i \in 1 .. z.level : node[Header].forward[i] # NULL }),
      length |-> z.length - 1, tail |-> IF next = NULL THEN gone.backward ELSE z.tail,
      node |-> node]

zslDelete(z, score, obj) ==
  LET update == Before(z, score, obj)
      x == Forward(z, update[1].x, 1)
  IN IF x # NULL /\ z.node[x].score = score /\ x = obj THEN zslDeleteNode(z, x, update) ELSE z

zslValueGteMin(value, range) == IF range.minex THEN value > range.min ELSE value >= range.min
zslValueLteMax(value, range) == IF range.maxex THEN value < range.max ELSE value <= range.max

(* Whether a part of the list may be in the range, from its two ends. *)
zslIsInRange(z, range) ==
  LET first == Forward(z, Header, 1)
  IN /\ range.min < range.max \/ (range.min = range.max /\ ~range.minex /\ ~range.maxex)
     /\ z.tail # NULL /\ zslValueGteMin(z.node[z.tail].score, range)
     /\ first # NULL /\ zslValueLteMax(z.node[first].score, range)

zslFirstInRange(z, range) ==
  LET x == Forward(z, Descend(z, LAMBDA y, rank : ~zslValueGteMin(z.node[y].score, range))[1].x, 1)
  IN IF zslIsInRange(z, range) /\ zslValueLteMax(z.node[x].score, range) THEN x ELSE NULL

(* The header, whose score is 0, would be returned if no node were <= max. *)
zslLastInRange(z, range) ==
  LET x == Descend(z, LAMBDA y, rank : zslValueLteMax(z.node[y].score, range))[1].x
  IN IF zslIsInRange(z, range) /\ zslValueGteMin(z.node[x].score, range) THEN x ELSE NULL

(* The nodes behind x that are deleted as long as Doomed, each with the    *)
(* same update.                                                            *)
DeleteWhile(z, update, Doomed(_, _)) ==
  LET step[n \in 0 .. z.length] ==
        IF n = 0 THEN z
        ELSE LET before == step[n - 1]
                 x == Forward(before, update[1].x, 1)
             IN IF x # NULL /\ Doomed(x, update[1].rank + n) THEN zslDeleteNode(before, x, update)
                ELSE before
  IN step[z.length]

zslDeleteRangeByScore(z, range) ==
  DeleteWhile(z, Descend(z, LAMBDA y, rank : IF range.minex THEN z.node[y].score <= range.min
                                             ELSE z.node[y].score < range.min),
              LAMBDA x, rank : IF range.maxex THEN z.node[x].score < range.max
                               ELSE z.node[x].score <= range.max)

zslDeleteRangeByRank(z, start, end) ==
  DeleteWhile(z, Descend(z, LAMBDA y, rank : rank < start), LAMBDA x, rank : rank <= end)

(* The search stops on the first level on which it meets the object. *)
zslGetRank(z, score, obj) ==
  LET at == Descend(z, LAMBDA y, rank : z.node[y].score < score
                                        \/ (z.node[y].score = score /\ y <= obj))
      met == { i \in DOMAIN at : at[i].x = obj }
  IN IF met = {} THEN 0 ELSE at[Max(met)].rank

zslGetElementByRank(z, rank) ==
  LET at == Descend(z, LAMBDA y, traversed : traversed <= rank)
      met == { i \in DOMAIN at : at[i].rank = rank }
  IN IF met = {} THEN NULL ELSE at[Max(met)].x

-----------------------------------------------------------------------------

Ranges == [min : Scores, max : Scores, minex : BOOLEAN, maxex : BOOLEAN]
Ranks == 1 .. Cardinality(Objects)

Init == zsl = zslCreate

(* The caller has looked in the dictionary that the object is not there. *)
Insert == \E obj \in Objects \ DOMAIN zsl.node, score \in Scores, level \in 1 .. ZSKIPLIST_MAXLEVEL :
            zsl' = zslInsert(zsl, score, obj, level)
Delete == \E obj \in Objects, score \in Scores : zsl' = zslDelete(zsl, score, obj)
DeleteRangeByScore == \E range \in Ranges : zsl' = zslDeleteRangeByScore(zsl, range)
DeleteRangeByRank == \E start, end \in Ranks : zsl' = zslDeleteRangeByRank(zsl, start, end)

Next == Insert \/ Delete \/ DeleteRangeByScore \/ DeleteRangeByRank

-----------------------------------------------------------------------------

(* The nodes on a level, in its order. *)
Chain(z, i) ==
  LET step[n \in 0 .. z.length] ==
        IF n = 0 THEN <<>>
        ELSE LET x == Forward(z, IF step[n - 1] = <<>> THEN Header ELSE Last(step[n - 1]), i)
             IN IF x = NULL THEN step[n - 1] ELSE Append(step[n - 1], x)
  IN step[z.length]

(* Every level is the lowest one without the nodes that are not as high,   *)
(* in order; a span is the distance to the next node, or to the end; the   *)
(* pointers back undo those of the lowest level, and the tail is its end.  *)
StructureIsSound ==
  LET all == Chain(zsl, 1)
      rank(x) == IF x = Header THEN 0 ELSE SelectInSeq(all, LAMBDA y : y = x)
  IN /\ zsl.length = Len(all) /\ ToSet(all) = DOMAIN zsl.node \ {Header}
     /\ \A j, k \in DOMAIN all : j < k => \/ zsl.node[all[j]].score < zsl.node[all[k]].score
                                          \/ /\ zsl.node[all[j]].score = zsl.node[all[k]].score
                                             /\ all[j] < all[k]
     /\ \A i \in 1 .. zsl.level :
          LET chain == Chain(zsl, i)
          IN /\ chain = SelectSeq(all, LAMBDA x : i \in DOMAIN zsl.node[x].forward)
             /\ i > 1 => chain # <<>>
             /\ \A x \in ToSet(chain) \cup {Header} :
                  LET next == Forward(zsl, x, i)
                  IN Span(zsl, x, i) = (IF next = NULL THEN Len(all) ELSE rank(next)) - rank(x)
     /\ zsl.tail = (IF all = <<>> THEN NULL ELSE Last(all))
     /\ \A k \in DOMAIN all : zsl.node[all[k]].backward = IF k = 1 THEN NULL ELSE all[k - 1]

(* The functions are those of a sorted sequence: rank and element by rank, *)
(* the ends of a range of scores, and what a deletion leaves.              *)
FunctionsAgree ==
  LET all == Chain(zsl, 1)
      score(x) == zsl.node[x].score
      rank(x) == SelectInSeq(all, LAMBDA y : y = x)
      within(range) == SelectSeq(all, LAMBDA x : zslValueGteMin(score(x), range)
                                                 /\ zslValueLteMax(score(x), range))
  IN /\ \A k \in Ranks : zslGetElementByRank(zsl, k) = IF k \in DOMAIN all THEN all[k] ELSE NULL
     /\ \A k \in DOMAIN all : zslGetRank(zsl, score(all[k]), all[k]) = k
     /\ \A range \in Ranges :
          LET in == within(range)
          IN /\ zslFirstInRange(zsl, range) = IF in = <<>> THEN NULL ELSE in[1]
             /\ zslLastInRange(zsl, range) = IF in = <<>> THEN NULL ELSE Last(in)
             /\ Chain(zslDeleteRangeByScore(zsl, range), 1)
                  = SelectSeq(all, LAMBDA x : ~Contains(in, x))
     /\ \A obj \in Objects, s \in Scores :
          Chain(zslDelete(zsl, s, obj), 1)
            = SelectSeq(all, LAMBDA x : ~(x = obj /\ score(x) = s))
     /\ \A start, end \in Ranks :
          Chain(zslDeleteRangeByRank(zsl, start, end), 1)
            = SelectSeq(all, LAMBDA x : rank(x) \notin start .. end)
=============================================================================
