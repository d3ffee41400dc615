----------------------------- MODULE RedisZset ------------------------------
(***************************************************************************)
(* Sorted sets (redis/src/t_zset.c).  A small one is a ziplist of elements *)
(* and scores in turn, a large one a skip list with a dictionary from      *)
(* elements to scores.  The skip list is a sorted sequence of pairs here:  *)
(* the module Skiplist shows that its functions compute what the operators *)
(* zsl... below say.                                                       *)
(***************************************************************************)
EXTENDS RedisTypes

CONSTANTS
  Elements,     \* numbers: their order is the order of the strings
  Long,         \* the elements longer than zset_max_ziplist_value
  Scores,       \* the scores that sorted sets have
  Increments,
  Bounds,       \* the ends of ranges of scores
  Indexes,
  MaxTotal,     \* a bound on the number of elements of all sorted sets
  zset_max_ziplist_entries

VARIABLE db

(* Doubles: infinity is any number that no sum of the instance reaches. *)
Inf == 1000
NaN == 9999

Plus(a, b) ==
  IF a = -b /\ a \in {Inf, -Inf} THEN NaN
  ELSE IF {a, b} \cap {Inf, -Inf} # {} THEN IF Inf \in {a, b} THEN Inf ELSE -Inf
  ELSE a + b

Times(weight, s) ==
  IF {weight, s} \cap {Inf, -Inf} = {} THEN weight * s
  ELSE IF 0 \in {weight, s} THEN NaN
  ELSE IF weight > 0 <=> s > 0 THEN Inf ELSE -Inf

(* The double, or 0 if it is not a number. *)
NumberOr0(s) == IF s = NaN THEN 0 ELSE s

(* The order of the pairs <<element, score>>. *)
Less(p, q) == p[2] < q[2] \/ (p[2] = q[2] /\ p[1] < q[1])

zslValueGteMin(s, range) == IF range.minex THEN s > range.min ELSE s >= range.min
zslValueLteMax(s, range) == IF range.maxex THEN s < range.max ELSE s <= range.max

-----------------------------------------------------------------------------
(* The ziplist.                                                            *)

zzlPairs(zl) == [j \in 1 .. Len(zl) \div 2 |-> <<zl[2 * j - 1], zl[2 * j]>>]

zzlIsInRange(zl, range) ==
  /\ range.min < range.max \/ (range.min = range.max /\ ~range.minex /\ ~range.maxex)
  /\ zl # <<>>
  /\ zslValueGteMin(Last(zl), range)
  /\ zslValueLteMax(zl[2], range)

(* The number of the first, or last, pair in the range, or 0. *)
zzlFirstInRange(zl, range) ==
  LET j == SelectInSeq(zzlPairs(zl), LAMBDA p : zslValueGteMin(p[2], range))
  IN IF zzlIsInRange(zl, range) /\ j # 0 /\ zslValueLteMax(zl[2 * j], range) THEN j ELSE 0

zzlLastInRange(zl, range) ==
  LET j == SelectLastInSeq(zzlPairs(zl), LAMBDA p : zslValueLteMax(p[2], range))
  IN IF zzlIsInRange(zl, range) /\ j # 0 /\ zslValueGteMin(zl[2 * j], range) THEN j ELSE 0

(* The place of the element in the ziplist, or 0. *)
zzlFind(zl, ele) == ziplistFind(zl, ele, 1)
zzlDelete(zl, i) == ziplistDeleteRange(ziplistDeleteRange(zl, i, 1), i, 1)
zzlInsertAt(zl, i, ele, score) == ziplistInsert(ziplistInsert(zl, i, ele), i + 1, score)

zzlInsert(zl, ele, score) ==
  LET j == SelectInSeq(zzlPairs(zl),
                       LAMBDA p : p[2] > score \/ (p[2] = score /\ p[1] > ele))
  IN zzlInsertAt(zl, IF j = 0 THEN Len(zl) + 1 ELSE 2 * j - 1, ele, score)

(* From the first pair in the range while the pairs are not above it. *)
zzlDeleteRangeByScore(zl, range) ==
  LET j == zzlFirstInRange(zl, range)
      above == SelectInSeq(zzlPairs(zl), LAMBDA p : ~zslValueLteMax(p[2], range))
      n == (IF above = 0 THEN Len(zl) \div 2 + 1 ELSE above) - j
  IN IF j = 0 THEN zl ELSE ziplistDeleteRange(zl, 2 * j - 1, 2 * n)

zzlDeleteRangeByRank(zl, start, end) ==
  ziplistDeleteRange(zl, 2 * (start - 1) + 1, 2 * (end - start + 1))

-----------------------------------------------------------------------------
(* The type, over both encodings.                                          *)

createZsetObject == [type |-> "zset", enc |-> "skiplist", zsl |-> <<>>, dict |-> <<>>]
createZsetZiplistObject == [type |-> "zset", enc |-> "ziplist", val |-> <<>>]

zsetPairs(o) == IF o.enc = "ziplist" THEN zzlPairs(o.val) ELSE o.zsl
zsetLength(o) == IF o.enc = "ziplist" THEN Len(o.val) \div 2 ELSE Len(o.zsl)

zslInsert(zsl, ele, score) ==
  ziplistInsert(zsl, 1 + Len(SelectSeq(zsl, LAMBDA p : Less(p, <<ele, score>>))), <<ele, score>>)
zslDelete(zsl, ele, score) == SelectSeq(zsl, LAMBDA p : p # <<ele, score>>)

(* A skip list without the pairs for which Gone holds, and the dictionary  *)
(* without their elements.                                                 *)
zslWithout(o, Gone(_)) ==
  LET gone == { o.zsl[i] : i \in { j \in DOMAIN o.zsl : Gone(j) } }
  IN [o EXCEPT !.zsl = SelectSeq(@, LAMBDA p : p \notin gone),
               !.dict = Restrict(@, DOMAIN @ \ { p[1] : p \in gone })]

(* The same in the other encoding. *)
zsetConvert(o) ==
  LET pairs == zsetPairs(o)
  IN IF o.enc = "ziplist"
     THEN [createZsetObject EXCEPT
             !.zsl = FoldLeft(LAMBDA z, p : zslInsert(z, p[1], p[2]), <<>>, pairs),
             !.dict = [e \in { p[1] : p \in ToSet(pairs) } |->
                         (CHOOSE p \in ToSet(pairs) : p[1] = e)[2]]]
     ELSE [createZsetZiplistObject EXCEPT
             !.val = FoldLeft(LAMBDA zl, p : zl \o p, <<>>, pairs)]

(* zzlFind, or dictFind: the element's score, if it is there. *)
HasElement(o, ele) == IF o.enc = "ziplist" THEN zzlFind(o.val, ele) # 0 ELSE ele \in DOMAIN o.dict
ScoreOf(o, ele) == IF o.enc = "ziplist" THEN o.val[zzlFind(o.val, ele) + 1] ELSE o.dict[ele]

(* One element of zaddGenericCommand: a new one, or one whose score        *)
(* changes, is removed and inserted again.                                 *)
Added(o, ele, score) ==
  LET larger == [o EXCEPT !.val = zzlInsert(@, ele, score)]
  IN CASE o.enc = "ziplist" /\ ~HasElement(o, ele) ->
            IF zsetLength(larger) > zset_max_ziplist_entries \/ ele \in Long
            THEN zsetConvert(larger) ELSE larger
       [] o.enc = "ziplist" /\ HasElement(o, ele) ->
            [o EXCEPT !.val = zzlInsert(zzlDelete(@, zzlFind(@, ele)), ele, score)]
       [] o.enc = "skiplist" /\ ~HasElement(o, ele) ->
            [o EXCEPT !.zsl = zslInsert(@, ele, score), !.dict = (ele :> score) @@ @]
       [] o.enc = "skiplist" /\ HasElement(o, ele) ->
            [o EXCEPT !.zsl = zslInsert(zslDelete(@, ele, o.dict[ele]), ele, score),
                      !.dict = (ele :> score) @@ @]

Deleted(o, ele) ==
  IF ~HasElement(o, ele) THEN o
  ELSE IF o.enc = "ziplist" THEN [o EXCEPT !.val = zzlDelete(@, zzlFind(@, ele))]
  ELSE [o EXCEPT !.zsl = zslDelete(@, ele, o.dict[ele]), !.dict = Restrict(@, DOMAIN @ \ {ele})]

OrNone(o) == IF zsetLength(o) = 0 THEN None ELSE o

-----------------------------------------------------------------------------
(* The commands.                                                           *)

(* A new sorted set is made for its first element. *)
LookupOrCreate(d, k, ele) ==
  IF d[k] # None THEN d[k]
  ELSE IF zset_max_ziplist_entries = 0 \/ ele \in Long THEN createZsetObject
  ELSE createZsetZiplistObject

zaddCommand(d, op) ==
  LET old == LookupOrCreate(d, op.key, op.pairs[1][1])
      add(s, p) == IF HasElement(s.o, p[1]) /\ ScoreOf(s.o, p[1]) = p[2] THEN s
                   ELSE [o |-> Added(s.o, p[1], p[2]), dirty |-> TRUE]
      new == FoldLeft(add, [o |-> old, dirty |-> FALSE], op.pairs)
  IN IF HasOther(d, op.key, "zset") THEN Answer(d, WrongType)
     ELSE Outcome([d EXCEPT ![op.key] = new.o], IntReply(zsetLength(new.o) - zsetLength(old)),
                  IF new.dirty THEN {op.key} ELSE {}, new.dirty, <<op>>)

(* An infinity plus the opposite one is refused. *)
zincrbyCommand(d, op) ==
  LET old == LookupOrCreate(d, op.key, op.element)
      has == HasElement(old, op.element)
      score == IF has THEN Plus(ScoreOf(old, op.element), op.by) ELSE op.by
      same == has /\ score = ScoreOf(old, op.element)
  IN IF HasOther(d, op.key, "zset") THEN Answer(d, WrongType)
     ELSE IF score = NaN THEN Answer(d, ErrorReply)
     ELSE IF same THEN Answer(d, BulkReply(score))
     ELSE Store(d, op.key, Added(old, op.element, score), BulkReply(score), op)

(* The loop ends with the element that leaves the sorted set empty. *)
zremCommand(d, op) ==
  LET new == FoldLeft(Deleted, d[op.key], op.elements)
      deleted == zsetLength(d[op.key]) - zsetLength(new)
  IN WithValue(d, op.key, "zset", IntReply(0),
       IF deleted = 0 THEN Answer(d, IntReply(0))
       ELSE Store(d, op.key, OrNone(new), IntReply(deleted), op))

(* The end of both ZREMRANGE commands. *)
Shortened(d, op, new) ==
  LET deleted == zsetLength(d[op.key]) - zsetLength(new)
  IN IF deleted = 0 THEN Answer(d, IntReply(0))
     ELSE Store(d, op.key, OrNone(new), IntReply(deleted), op)

zremrangebyscoreCommand(d, op) ==
  LET o == d[op.key]
      InRange(i) == zslValueGteMin(o.zsl[i][2], op.range) /\ zslValueLteMax(o.zsl[i][2], op.range)
  IN WithValue(d, op.key, "zset", IntReply(0),
       Shortened(d, op, IF o.enc = "ziplist"
                        THEN [o EXCEPT !.val = zzlDeleteRangeByScore(@, op.range)]
                        ELSE zslWithout(o, InRange)))

zremrangebyrankCommand(d, op) ==
  LET o == d[op.key]
      r == IndexRange(op, zsetLength(o))
      InRange(i) == r.start + 1 <= i /\ i <= r.end + 1
  IN WithValue(d, op.key, "zset", IntReply(0),
       IF r.empty THEN Answer(d, IntReply(0))
       ELSE Shortened(d, op, IF o.enc = "ziplist"
                             THEN [o EXCEPT !.val = zzlDeleteRangeByRank(@, r.start + 1, r.end + 1)]
                             ELSE zslWithout(o, InRange)))

(* The inputs of ZUNIONSTORE and ZINTERSTORE are sets and sorted sets; the *)
(* members of a set have the score 1.                                      *)
zuiLength(o) ==
  IF o = None THEN 0 ELSE IF o.type = "set" THEN Cardinality(o.val) ELSE zsetLength(o)
zuiFind(o, ele) ==
  o # None /\ IF o.type = "set" THEN ele \in o.val ELSE HasElement(o, ele)
zuiScore(o, ele) == IF o.type = "set" THEN 1 ELSE ScoreOf(o, ele)
zuiElements(o) ==
  IF o = None THEN <<>> ELSE IF o.type = "set" THEN SetToSortSeq(o.val, <)
  ELSE [i \in 1 .. zsetLength(o) |-> zsetPairs(o)[i][1]]

(* A sum that is not a number is 0; a val that is not one is less, and     *)
(* greater, than no target.                                                *)
zunionInterAggregate(target, val, aggregate) ==
  CASE aggregate = "sum" -> IF val = NaN THEN 0 ELSE NumberOr0(Plus(target, val))
    [] aggregate = "min" -> IF val # NaN /\ val < target THEN val ELSE target
    [] aggregate = "max" -> IF val # NaN /\ val > target THEN val ELSE target

(* The end of both commands: the result is converted to a ziplist if it    *)
(* fits, and replaces whatever was at dst.                                 *)
Compact(result) ==
  IF Len(result.zsl) <= zset_max_ziplist_entries /\ DOMAIN result.dict \cap Long = {}
  THEN zsetConvert(result) ELSE result
StoreResult(d, op, result) ==
  LET touched == d[op.dst] # None \/ result.zsl # <<>>
  IN Outcome([d EXCEPT ![op.dst] = IF result.zsl = <<>> THEN None ELSE Compact(result)],
             IntReply(Len(result.zsl)), IF touched THEN {op.dst} ELSE {}, touched, <<op>>)

(* The score of e, found in src[i], over that input and the ones behind it; *)
(* a first score that is not a number is 0.                                 *)
Aggregated(op, src, i, e) ==
  LET value(j) == Times(src[j].weight, zuiScore(src[j].o, e))
  IN FoldLeft(LAMBDA acc, j : IF zuiFind(src[j].o, e)
                              THEN zunionInterAggregate(acc, value(j), op.aggregate) ELSE acc,
              NumberOr0(value(i)), [k \in 1 .. Len(src) - i |-> i + k])

With(z, e, score) == [z EXCEPT !.zsl = zslInsert(@, e, score), !.dict = (e :> score) @@ @]

(* The elements of src[i] that go into the result z. *)
Collected(op, src, z, i) ==
  FoldLeft(LAMBDA acc, e : IF IF op.cmd = "zinterstore" THEN \A s \in ToSet(src) : zuiFind(s.o, e)
                              ELSE e \notin DOMAIN acc.dict
                           THEN With(acc, e, Aggregated(op, src, i, e)) ELSE acc,
           z, zuiElements(src[i].o))

(* The inputs are taken from the smallest on: an element is looked for in  *)
(* the inputs behind the one it is found in.                               *)
zunionInterGenericCommand(d, op) ==
  LET src == SortSeq([i \in DOMAIN op.keys |-> [o |-> d[op.keys[i]], weight |-> op.weights[i]]],
                     LAMBDA s, t : zuiLength(s.o) < zuiLength(t.o))
      inputs == IF op.cmd = "zinterstore" THEN <<1>> ELSE [i \in DOMAIN op.keys |-> i]
  IN IF \E k \in ToSet(op.keys) : d[k].type \notin {"none", "set", "zset"} THEN Answer(d, WrongType)
     ELSE StoreResult(d, op, FoldLeft(LAMBDA z, i : Collected(op, src, z, i), createZsetObject, inputs))

(* n pairs from pair i on, or back. *)
Walk(pairs, i, n, reverse) == [k \in 1 .. n |-> pairs[IF reverse THEN i - k + 1 ELSE i + k - 1]]

(* ZRANGE and ZREVRANGE; a skip list is entered by rank. *)
zrangeGenericCommand(d, op) ==
  LET o == d[op.key]
      llen == zsetLength(o)
      r == IndexRange(op, llen)
      reverse == op.cmd = "zrevrange"
      first == IF reverse THEN llen - r.start ELSE r.start + 1
  IN WithValue(d, op.key, "zset", MultiReply(<<>>),
       Answer(d, MultiReply(IF r.empty THEN <<>>
                            ELSE Walk(zsetPairs(o), first, r.end - r.start + 1, reverse))))

(* The first, or last, pair of a skip list in the range, or 0. *)
zslFirstInRange(zsl, range) ==
  SelectInSeq(zsl, LAMBDA p : zslValueGteMin(p[2], range) /\ zslValueLteMax(p[2], range))
zslLastInRange(zsl, range) ==
  SelectLastInSeq(zsl, LAMBDA p : zslValueGteMin(p[2], range) /\ zslValueLteMax(p[2], range))

(* n pairs from the first one in the range on, or fewer if the range ends. *)
Within(walked, out) == IF out = 0 THEN walked ELSE SubSeq(walked, 1, out - 1)
WalkInRange(pairs, start, n, op, reverse) ==
  LET Outside(p) == IF reverse THEN ~zslValueGteMin(p[2], op.range) ELSE ~zslValueLteMax(p[2], op.range)
  IN Within(Walk(pairs, start, n, reverse), SelectInSeq(Walk(pairs, start, n, reverse), Outside))

(* Offset pairs (limits[1]) are passed over without a look at their        *)
(* scores, a negative number of them passing over everything; then         *)
(* limits[2] pairs, or all, are sent.                                      *)
Limited(pairs, first, op, reverse) ==
  LET rest == IF reverse THEN first ELSE Len(pairs) - first + 1
      left == IF op.limits[1] < 0 \/ op.limits[1] > rest THEN 0 ELSE rest - op.limits[1]
  IN IF first = 0 THEN <<>>
     ELSE WalkInRange(pairs, IF reverse THEN first - op.limits[1] ELSE first + op.limits[1],
                      IF op.limits[2] < 0 THEN left ELSE Min({left, op.limits[2]}), op, reverse)

(* ZRANGEBYSCORE and ZREVRANGEBYSCORE. *)
genericZrangebyscoreCommand(d, op) ==
  LET o == d[op.key]
      reverse == op.cmd = "zrevrangebyscore"
      first == CASE reverse /\ o.enc = "ziplist" -> zzlLastInRange(o.val, op.range)
                 [] ~reverse /\ o.enc = "ziplist" -> zzlFirstInRange(o.val, op.range)
                 [] reverse /\ o.enc = "skiplist" -> zslLastInRange(o.zsl, op.range)
                 [] ~reverse /\ o.enc = "skiplist" -> zslFirstInRange(o.zsl, op.range)
  IN WithValue(d, op.key, "zset", MultiReply(<<>>),
       Answer(d, MultiReply(Limited(zsetPairs(o), first, op, reverse))))

(* A ziplist is counted pair by pair, a skip list by ranks: what is from   *)
(* the first one on less what is behind the last one.                      *)
zcountCommand(d, op) ==
  LET o == d[op.key]
      len == zsetLength(o)
      first == IF o.enc = "ziplist" THEN zzlFirstInRange(o.val, op.range)
               ELSE zslFirstInRange(o.zsl, op.range)
      last == zslLastInRange(zsetPairs(o), op.range)
      above == SelectInSeq(zsetPairs(o), LAMBDA p : ~zslValueLteMax(p[2], op.range))
  IN WithValue(d, op.key, "zset", IntReply(0),
       Answer(d, IntReply(CASE first = 0 -> 0
                            [] first # 0 /\ o.enc = "ziplist" ->
                                 (IF above = 0 THEN len + 1 ELSE above) - first
                            [] first # 0 /\ o.enc = "skiplist" ->
                                 (len - (first - 1)) - (IF last = 0 THEN 0 ELSE len - last))))

zcardCommand(d, op) ==
  WithValue(d, op.key, "zset", IntReply(0), Answer(d, IntReply(zsetLength(d[op.key]))))

zscoreCommand(d, op) ==
  LET o == d[op.key]
  IN WithValue(d, op.key, "zset", NullReply,
       Answer(d, IF HasElement(o, op.element) THEN BulkReply(ScoreOf(o, op.element)) ELSE NullReply))

(* ZRANK and ZREVRANK, from 0. *)
zrankGenericCommand(d, op) ==
  LET o == d[op.key]
      rank == SelectInSeq(zsetPairs(o), LAMBDA p : p[1] = op.element)
  IN WithValue(d, op.key, "zset", NullReply,
       Answer(d, IF ~HasElement(o, op.element) THEN NullReply
                 ELSE IntReply(IF op.cmd = "zrank" THEN rank - 1 ELSE zsetLength(o) - rank)))

-----------------------------------------------------------------------------
(* A sorted set in the dump file, and in the rewritten append-only file.   *)

(* The pairs in the order in which they are saved: that of the ziplist, or *)
(* of an iterator over the dictionary.                                     *)
Orders(o) ==
  IF o.enc = "ziplist" THEN {zzlPairs(o.val)} ELSE SetToSeqs({ <<e, o.dict[e]>> : e \in DOMAIN o.dict })

rdbSaveObject(o) ==
  { [rdbtype |-> IF o.enc = "ziplist" THEN "zset_ziplist" ELSE "zset", pairs |-> s] : s \in Orders(o) }

(* Into a server whose zset_max_ziplist_entries is max. *)
LoadZiplist(pairs, max) ==
  LET o == [createZsetZiplistObject EXCEPT !.val = FlattenSeq(pairs)]
  IN IF zsetLength(o) > max THEN zsetConvert(o) ELSE o

(* Converted behind the last pair, since they do not come in order. *)
LoadZset(pairs, max) ==
  LET Load(o, p) == [o EXCEPT !.zsl = zslInsert(@, p[1], p[2]), !.dict = (p[1] :> p[2]) @@ @]
      o == FoldLeft(Load, createZsetObject, pairs)
  IN IF zsetLength(o) <= max /\ DOMAIN o.dict \cap Long = {} THEN zsetConvert(o) ELSE o

rdbLoadObject(file, max) ==
  IF file.rdbtype = "zset_ziplist" THEN LoadZiplist(file.pairs, max) ELSE LoadZset(file.pairs, max)

rewriteSortedSetObject(k, o) ==
  LET Zadd(pairs) == [cmd |-> "zadd", key |-> k, pairs |-> pairs]
  IN { [i \in DOMAIN Batches(s) |-> Zadd(Batches(s)[i])] : s \in Orders(o) }

-----------------------------------------------------------------------------

Execute(d, op) ==
  CASE op.cmd = "zadd" -> zaddCommand(d, op)
    [] op.cmd = "zincrby" -> zincrbyCommand(d, op)
    [] op.cmd = "zrem" -> zremCommand(d, op)
    [] op.cmd = "zremrangebyscore" -> zremrangebyscoreCommand(d, op)
    [] op.cmd = "zremrangebyrank" -> zremrangebyrankCommand(d, op)
    [] op.cmd \in {"zunionstore", "zinterstore"} -> zunionInterGenericCommand(d, op)
    [] op.cmd \in {"zrange", "zrevrange"} -> zrangeGenericCommand(d, op)
    [] op.cmd \in {"zrangebyscore", "zrevrangebyscore"} -> genericZrangebyscoreCommand(d, op)
    [] op.cmd = "zcount" -> zcountCommand(d, op)
    [] op.cmd = "zcard" -> zcardCommand(d, op)
    [] op.cmd = "zscore" -> zscoreCommand(d, op)
    [] op.cmd \in {"zrank", "zrevrank"} -> zrankGenericCommand(d, op)

Ranges == [min : Bounds, max : Bounds, minex : BOOLEAN, maxex : BOOLEAN]

Writes ==
  [cmd : {"zadd"}, key : Keys, pairs : TupleOf(Elements \X Scores, 1) \cup TupleOf(Elements \X Scores, 2)]
  \cup [cmd : {"zincrby"}, key : Keys, element : Elements, by : Increments]
  \cup [cmd : {"zrem"}, key : Keys, elements : TupleOf(Elements, 2)]
  \cup [cmd : {"zremrangebyscore"}, key : Keys, range : Ranges]
  \cup [cmd : {"zremrangebyrank"}, key : Keys, start : Indexes, end : Indexes]
  \cup [cmd : {"zunionstore", "zinterstore"}, dst : Keys, keys : TupleOf(Keys, 2),
        weights : {<<1, 1>>, <<1, -1>>, <<0, 0>>}, aggregate : {"sum", "min", "max"}]

Commands ==
  Writes
  \cup [cmd : {"zcount"}, key : Keys, range : Ranges]
  \cup [cmd : {"zrange", "zrevrange"}, key : Keys, start : Indexes, end : Indexes]
  \cup [cmd : {"zrangebyscore", "zrevrangebyscore"}, key : Keys, range : Ranges,
        limits : {<<0, -1>>, <<1, 1>>, <<-1, -1>>}]
  \cup [cmd : {"zcard"}, key : Keys]
  \cup [cmd : {"zscore", "zrank", "zrevrank"}, key : Keys, element : Elements]

Pairs(d, k) == IF d[k].type = "zset" THEN zsetPairs(d[k]) ELSE <<>>

(* There may be a set, which the STORE commands accept. *)
Init == db \in [Keys -> {None, Foreign, [type |-> "set", val |-> Elements]}]

Next == \E op \in Commands :
          /\ db' = Execute(db, op).db
          /\ \A k \in Keys : \A p \in ToSet(Pairs(db', k)) : p[2] \in Scores
          /\ MapThenSumSet(LAMBDA k : Len(Pairs(db', k)), Keys) <= MaxTotal

-----------------------------------------------------------------------------
(* What the commands promise: a sorted set is a function from elements to  *)
(* scores, with an order.                                                  *)

ScoreFunction(pairs) ==
  [e \in { p[1] : p \in ToSet(pairs) } |-> (CHOOSE p \in ToSet(pairs) : p[1] = e)[2]]

Abstract(d) ==
  [k \in Keys |-> IF d[k].type = "zset" THEN [type |-> "zset", val |-> ScoreFunction(zsetPairs(d[k]))]
                  ELSE d[k]]

Put(a, k, f) == [a EXCEPT ![k] = IF DOMAIN f = {} THEN None ELSE [type |-> "zset", val |-> f]]

InOrder(f) == SetToSortSeq({ <<e, f[e]>> : e \in DOMAIN f }, Less)

InRangeOf(range, s) ==
  /\ s > range.min \/ (~range.minex /\ s = range.min)
  /\ s < range.max \/ (~range.maxex /\ s = range.max)

(* The scores of an input, and the combination of two, where an infinity   *)
(* times 0, and the sum of opposite infinities, are 0.                     *)
InputScores(a, k) ==
  CASE a[k].type = "zset" -> a[k].val
    [] a[k].type = "set" -> [e \in a[k].val |-> 1]
    [] OTHER -> <<>>

Combination(a, op) ==
  LET f == InputScores(a, op.keys[1])
      g == InputScores(a, op.keys[2])
      F(e) == NumberOr0(Times(op.weights[1], f[e]))
      G(e) == NumberOr0(Times(op.weights[2], g[e]))
      both == DOMAIN f \cap DOMAIN g
      joint(e) == CASE op.aggregate = "min" -> Min({F(e), G(e)})
                    [] op.aggregate = "max" -> Max({F(e), G(e)})
                    [] op.aggregate = "sum" -> NumberOr0(Plus(F(e), G(e)))
  IN [e \in IF op.cmd = "zinterstore" THEN both ELSE DOMAIN f \cup DOMAIN g |->
        IF e \in both THEN joint(e) ELSE IF e \in DOMAIN f THEN F(e) ELSE G(e)]

(* What a command does to the database, and replies. *)
Promised(a, op) ==
  LET f == IF a[op.key].type = "zset" THEN a[op.key].val ELSE <<>>
      order == IF op.cmd \in {"zrevrange", "zrevrangebyscore", "zrevrank"} THEN Reverse(InOrder(f))
               ELSE InOrder(f)
      Without(gone) == <<Put(a, op.key, Restrict(f, DOMAIN f \ gone)), IntReply(Cardinality(gone))>>
      from == IF op.start < 0 THEN Max({0, Len(order) + op.start}) ELSE op.start
      to == IF op.end < 0 THEN Len(order) + op.end ELSE Min({op.end, Len(order) - 1})
      ranked == SubSeq(order, from + 1, to + 1)
      within == SelectSeq(order, LAMBDA p : InRangeOf(op.range, p[2]))
      skipped == IF op.limits[1] < 0 THEN <<>> ELSE SubSeq(within, op.limits[1] + 1, Len(within))
  IN IF op.cmd \in {"zunionstore", "zinterstore"}
     THEN IF \E k \in ToSet(op.keys) : a[k] = Foreign THEN <<a, WrongType>>
          ELSE <<Put(a, op.dst, Combination(a, op)), IntReply(Cardinality(DOMAIN Combination(a, op)))>>
     ELSE IF a[op.key].type \notin {"none", "zset"} THEN <<a, WrongType>>
     ELSE CASE op.cmd = "zadd" ->
              LET g == FoldLeft(LAMBDA h, p : (p[1] :> p[2]) @@ h, f, op.pairs)
              IN <<Put(a, op.key, g), IntReply(Cardinality(DOMAIN g) - Cardinality(DOMAIN f))>>
       [] op.cmd = "zincrby" ->
            LET s == IF op.element \in DOMAIN f THEN Plus(f[op.element], op.by) ELSE op.by
            IN IF s = NaN THEN <<a, ErrorReply>>
               ELSE <<Put(a, op.key, (op.element :> s) @@ f), BulkReply(s)>>
       [] op.cmd = "zrem" -> Without(ToSet(op.elements) \cap DOMAIN f)
       [] op.cmd = "zremrangebyscore" -> Without({ e \in DOMAIN f : InRangeOf(op.range, f[e]) })
       [] op.cmd = "zremrangebyrank" -> Without({ p[1] : p \in ToSet(ranked) })
       [] op.cmd \in {"zrange", "zrevrange"} -> <<a, MultiReply(ranked)>>
       [] op.cmd \in {"zrangebyscore", "zrevrangebyscore"} ->
            <<a, MultiReply(IF op.limits[2] < 0 THEN skipped ELSE SubSeq(skipped, 1, Min({op.limits[2], Len(skipped)})))>>
       [] op.cmd = "zcount" -> <<a, IntReply(Len(within))>>
       [] op.cmd = "zcard" -> <<a, IntReply(Cardinality(DOMAIN f))>>
       [] op.cmd = "zscore" -> <<a, IF op.element \in DOMAIN f THEN BulkReply(f[op.element]) ELSE NullReply>>
       [] op.cmd \in {"zrank", "zrevrank"} ->
            <<a, IF op.element \in DOMAIN f
                 THEN IntReply(SelectInSeq(order, LAMBDA p : p[1] = op.element) - 1) ELSE NullReply>>

Replayed(d, sent) == FoldLeft(LAMBDA x, op : Execute(x, op).db, d, sent)

Visible(r) == <<Abstract(r.db), r.reply>>
Signalled(d, r) ==
  \A k \in Keys : Abstract(r.db)[k] # Abstract(d)[k] => k \in r.signalled /\ r.dirty
Repeatable(d, r) == r.dirty => Abstract(Replayed(d, r.sent)) = Abstract(r.db)

-----------------------------------------------------------------------------

(* Every command, in both encodings, does what it promises. *)
CommandsAgree ==
  \A op \in Commands : Visible(Execute(db, op)) = Promised(Abstract(db), op)

(* No command changes a key without signalling it and counting a change. *)
ChangesAreSignalled ==
  \A op \in Writes : Signalled(db, Execute(db, op))

(* What is propagated makes the same change on a slave. *)
SlavesAgree ==
  \A op \in Writes : Repeatable(db, Execute(db, op))

(* A sorted set is never empty and is in order, and each element is there  *)
(* once; the skip list and its dictionary hold the same scores; a ziplist  *)
(* has few and only short elements.                                        *)
Sound(o, max) ==
  LET pairs == zsetPairs(o)
  IN /\ pairs # <<>>
     /\ \A i \in 1 .. Len(pairs) - 1 : Less(pairs[i], pairs[i + 1])
     /\ IsInjective([i \in DOMAIN pairs |-> pairs[i][1]])
     /\ IF o.enc = "skiplist" THEN o.dict = ScoreFunction(pairs)
        ELSE Len(pairs) <= max /\ { p[1] : p \in ToSet(pairs) } \cap Long = {}

(* So is every sorted set of the database. *)
EncodingsAreSound ==
  \A k \in Keys : db[k].type = "zset" => Sound(db[k], zset_max_ziplist_entries)

(* The dump file gives the same sorted set, in a sound encoding, also to a *)
(* server with another limit; and so do the commands of the rewritten      *)
(* append-only file.                                                       *)
FilesAgree ==
  \A k \in Keys : db[k].type = "zset" =>
    /\ \A file \in rdbSaveObject(db[k]), max \in 0 .. zsetLength(db[k]) :
         LET o == rdbLoadObject(file, max) IN zsetPairs(o) = zsetPairs(db[k]) /\ Sound(o, max)
    /\ \A sent \in rewriteSortedSetObject(k, db[k]) :
         Abstract(Replayed([db EXCEPT ![k] = None], sent)) = Abstract(db)
=============================================================================
