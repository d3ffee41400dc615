----------------------------- MODULE RedisList ------------------------------
(***************************************************************************)
(* Lists (redis/src/t_list.c): a ziplist, or a linked list once it is long *)
(* or has a long element.  Nobody is blocked on a list here: the hand-over *)
(* of pushed elements is the module RedisBlocking.                         *)
(***************************************************************************)
EXTENDS RedisTypes

CONSTANTS
  Elements,
  Long,        \* the elements longer than list_max_ziplist_value
  Indexes,     \* the positions and counts that clients give, from both ends
  MaxTotal,    \* a bound on the number of elements of all lists
  list_max_ziplist_entries

VARIABLE db

AtHead == "head"
AtTail == "tail"

-----------------------------------------------------------------------------
(* The type, over both encodings: the positions of a list are 1 .. n, and  *)
(* 0 is the null pointer.                                                  *)

createZiplistObject == [type |-> "list", enc |-> "ziplist", val |-> <<>>]
listTypeLength(o) == Len(o.val)
listTypeConvert(o) == [o EXCEPT !.enc = "linkedlist"]

listTypeTryConversion(o, v) ==
  IF o.enc = "ziplist" /\ v \in Long THEN listTypeConvert(o) ELSE o

listTypePush(o, v, where) ==
  LET tried == listTypeTryConversion(o, v)
      room == IF tried.enc = "ziplist" /\ Len(o.val) >= list_max_ziplist_entries
              THEN listTypeConvert(tried) ELSE tried
  IN [room EXCEPT !.val = IF where = AtHead THEN <<v>> \o @ ELSE Append(@, v)]

listTypePop(o, where) ==
  IF where = AtHead THEN [value |-> o.val[1], rest |-> [o EXCEPT !.val = SubSeq(@, 2, Len(@))]]
  ELSE [value |-> Last(o.val), rest |-> [o EXCEPT !.val = Front(@)]]

(* ziplistIndex and listIndex: from the head, or with a negative index     *)
(* from the tail.                                                          *)
listIndex(o, index) ==
  LET i == IF index < 0 THEN Len(o.val) + index + 1 ELSE index + 1
  IN IF i \in DOMAIN o.val THEN i ELSE 0

listTypeInsert(o, i, v, where) ==
  [o EXCEPT !.val = ziplistInsert(@, IF where = AtTail THEN i + 1 ELSE i, v)]

(* The entry is deleted.  The iterator goes on in its direction: in a      *)
(* ziplist from where the entry was, which is its successor or the end.    *)
listTypeDelete(o, i, direction) ==
  LET rest == ziplistDeleteRange(o.val, i, 1)
      following == IF i <= Len(rest) THEN i ELSE 0
  IN [list |-> [o EXCEPT !.val = rest],
      next |-> IF direction = AtTail THEN following ELSE i - 1]

-----------------------------------------------------------------------------
(* The commands.                                                           *)

OrNone(o) == IF listTypeLength(o) = 0 THEN None ELSE o

pushGenericCommand(d, op) ==
  LET where == IF op.cmd = "lpush" THEN AtHead ELSE AtTail
      old == IF d[op.key] = None THEN createZiplistObject ELSE d[op.key]
      new == FoldLeft(LAMBDA o, v : listTypePush(o, v, where), old, op.values)
  IN IF HasOther(d, op.key, "list") THEN Answer(d, WrongType)
     ELSE Store(d, op.key, new, IntReply(listTypeLength(new)), op)

(* LPUSHX and RPUSHX *)
pushxGenericCommand(d, op) ==
  LET new == listTypePush(d[op.key], op.value, IF op.cmd = "lpushx" THEN AtHead ELSE AtTail)
  IN WithValue(d, op.key, "list", IntReply(0),
       Store(d, op.key, new, IntReply(listTypeLength(new)), op))

(* The list is converted for the new element before the pivot is sought. *)
linsertCommand(d, op) ==
  LET o == listTypeTryConversion(d[op.key], op.value)
      i == ziplistFind(o.val, op.pivot, 0)
      more == listTypeInsert(o, i, op.value, op.where)
      new == IF more.enc = "ziplist" /\ Len(more.val) > list_max_ziplist_entries
             THEN listTypeConvert(more) ELSE more
  IN WithValue(d, op.key, "list", IntReply(0),
       IF i = 0 THEN Answer([d EXCEPT ![op.key] = o], IntReply(-1))
       ELSE Store(d, op.key, new, IntReply(listTypeLength(new)), op))

llenCommand(d, op) ==
  WithValue(d, op.key, "list", IntReply(0), Answer(d, IntReply(listTypeLength(d[op.key]))))

lindexCommand(d, op) ==
  LET i == listIndex(d[op.key], op.index)
  IN WithValue(d, op.key, "list", NullReply,
       Answer(d, IF i = 0 THEN NullReply ELSE BulkReply(d[op.key].val[i])))

(* A ziplist has the old entry deleted and the new one inserted there. *)
lsetCommand(d, op) ==
  LET o == listTypeTryConversion(d[op.key], op.value)
      i == listIndex(o, op.index)
      new == [o EXCEPT !.val = ziplistInsert(ziplistDeleteRange(@, i, 1), i, op.value)]
  IN WithValue(d, op.key, "list", ErrorReply,
       IF i = 0 THEN Answer([d EXCEPT ![op.key] = o], ErrorReply)
       ELSE Store(d, op.key, new, StatusReply, op))

popGenericCommand(d, op) ==
  LET popped == listTypePop(d[op.key], IF op.cmd = "lpop" THEN AtHead ELSE AtTail)
  IN WithValue(d, op.key, "list", NullReply,
       Store(d, op.key, OrNone(popped.rest), BulkReply(popped.value), op))

(* A linked list is entered from the nearer end. *)
lrangeCommand(d, op) ==
  LET o == d[op.key]
      llen == listTypeLength(o)
      r == IndexRange(op, llen)
      first == listIndex(o, IF o.enc = "linkedlist" /\ r.start > llen \div 2
                            THEN r.start - llen ELSE r.start)
  IN WithValue(d, op.key, "list", MultiReply(<<>>),
       Answer(d, MultiReply(IF r.empty THEN <<>>
                            ELSE SubSeq(o.val, first, first + r.end - r.start))))

ltrimCommand(d, op) ==
  LET o == d[op.key]
      llen == listTypeLength(o)
      r == IndexRange(op, llen)
      ltrim == IF r.empty THEN llen ELSE r.start
      rtrim == IF r.empty THEN 0 ELSE llen - r.end - 1
      left == ziplistDeleteRange(o.val, 1, ltrim)
      new == [o EXCEPT !.val = ziplistDeleteRange(left, Len(left) - rtrim + 1, rtrim)]
  IN WithValue(d, op.key, "list", StatusReply, Store(d, op.key, OrNone(new), StatusReply, op))

(* From the head or, if the count is negative, from the tail; all equal    *)
(* elements if it is 0.                                                    *)
lremCommand(d, op) ==
  LET o == d[op.key]
      direction == IF op.index < 0 THEN AtHead ELSE AtTail
      toremove == IF op.index < 0 THEN -op.index ELSE op.index
      Following(i) == IF direction = AtHead THEN i - 1 ELSE i + 1
      Valid(list, i) == IF i \in DOMAIN list.val THEN i ELSE 0
      it[n \in 0 .. Len(o.val)] ==   \* after n turns of the loop
        IF n = 0
        THEN [list |-> o, next |-> listIndex(o, IF direction = AtHead THEN -1 ELSE 0), removed |-> 0]
        ELSE LET s == it[n - 1]
                 gone == listTypeDelete(s.list, s.next, direction)
             IN IF s.next = 0 \/ (toremove # 0 /\ s.removed = toremove) THEN s
                ELSE IF s.list.val[s.next] = op.value
                THEN [list |-> gone.list, next |-> gone.next, removed |-> s.removed + 1]
                ELSE [s EXCEPT !.next = Valid(s.list, Following(@))]
      end == it[Len(o.val)]
  IN WithValue(d, op.key, "list", IntReply(0),
       Outcome([d EXCEPT ![op.key] = OrNone(end.list)], IntReply(end.removed),
               IF end.removed > 0 THEN {op.key} ELSE {}, end.removed > 0, <<op>>))

(* Mutant: the command is propagated as it is besides the push. *)
rpoplpushCommand_twice(d, op) ==
  LET popped == listTypePop(d[op.key], AtTail)
      d1 == [d EXCEPT ![op.key] = popped.rest]
      target == IF d1[op.dst] = None THEN createZiplistObject ELSE d1[op.dst]
      d2 == [d1 EXCEPT ![op.dst] = listTypePush(target, popped.value, AtHead)]
  IN WithValue(d, op.key, "list", NullReply,
       IF HasOther(d, op.dst, "list") THEN Answer(d, WrongType)
       ELSE Outcome([d2 EXCEPT ![op.key] = OrNone(@)], BulkReply(popped.value),
                    {op.key} \cup (IF d[op.dst] = None THEN {} ELSE {op.dst}), TRUE,
                    <<op, [cmd |-> "lpush", key |-> op.dst, values |-> <<popped.value>>]>>))

(* With rpoplpushHandlePush.  The destination is signalled only if it      *)
(* exists already.  What is propagated is RPOP and then LPUSH.             *)
rpoplpushCommand(d, op) ==
  LET popped == listTypePop(d[op.key], AtTail)
      d1 == [d EXCEPT ![op.key] = popped.rest]
      target == IF d1[op.dst] = None THEN createZiplistObject ELSE d1[op.dst]
      d2 == [d1 EXCEPT ![op.dst] = listTypePush(target, popped.value, AtHead)]
  IN WithValue(d, op.key, "list", NullReply,
       IF HasOther(d, op.dst, "list") THEN Answer(d, WrongType)
       ELSE Outcome([d2 EXCEPT ![op.key] = OrNone(@)], BulkReply(popped.value),
                    {op.key} \cup (IF d[op.dst] = None THEN {} ELSE {op.dst}), TRUE,
                    <<[cmd |-> "rpop", key |-> op.key],
                      [cmd |-> "lpush", key |-> op.dst, values |-> <<popped.value>>]>>))

-----------------------------------------------------------------------------
(* A list in the dump file, and in the rewritten append-only file.         *)

rdbSaveObject(o) ==
  [rdbtype |-> IF o.enc = "ziplist" THEN "list_ziplist" ELSE "list", elements |-> o.val]

(* Into a server whose list_max_ziplist_entries is max. *)
LoadZiplist(elements, max) ==
  LET o == [createZiplistObject EXCEPT !.val = elements]
  IN IF listTypeLength(o) > max THEN listTypeConvert(o) ELSE o

LoadList(elements, max) ==
  LET Load(o, v) == [listTypeTryConversion(o, v) EXCEPT !.val = Append(@, v)]
  IN FoldLeft(Load, IF Len(elements) > max THEN listTypeConvert(createZiplistObject) ELSE createZiplistObject,
              elements)

rdbLoadObject(file, max) ==
  IF file.rdbtype = "list_ziplist" THEN LoadZiplist(file.elements, max) ELSE LoadList(file.elements, max)

rewriteListObject(k, o) ==
  [i \in DOMAIN Batches(o.val) |-> [cmd |-> "rpush", key |-> k, values |-> Batches(o.val)[i]]]

-----------------------------------------------------------------------------

Execute(d, op) ==
  CASE op.cmd \in {"lpush", "rpush"} -> pushGenericCommand(d, op)
    [] op.cmd \in {"lpushx", "rpushx"} -> pushxGenericCommand(d, op)
    [] op.cmd = "linsert" -> linsertCommand(d, op)
    [] op.cmd = "llen" -> llenCommand(d, op)
    [] op.cmd = "lindex" -> lindexCommand(d, op)
    [] op.cmd = "lset" -> lsetCommand(d, op)
    [] op.cmd \in {"lpop", "rpop"} -> popGenericCommand(d, op)
    [] op.cmd = "lrange" -> lrangeCommand(d, op)
    [] op.cmd = "ltrim" -> ltrimCommand(d, op)
    [] op.cmd = "lrem" -> lremCommand(d, op)
    [] op.cmd = "rpoplpush" -> rpoplpushCommand(d, op)

Writes ==
  [cmd : {"lpush", "rpush"}, key : Keys, values : TupleOf(Elements, 1) \cup TupleOf(Elements, 2)]
  \cup [cmd : {"lpushx", "rpushx"}, key : Keys, value : Elements]
  \cup [cmd : {"linsert"}, key : Keys, where : {AtHead, AtTail}, pivot : Elements, value : Elements]
  \cup [cmd : {"lpop", "rpop"}, key : Keys]
  \cup [cmd : {"lset", "lrem"}, key : Keys, index : Indexes, value : Elements]
  \cup [cmd : {"ltrim"}, key : Keys, start : Indexes, end : Indexes]
  \cup [cmd : {"rpoplpush"}, key : Keys, dst : Keys]

Commands ==
  Writes
  \cup [cmd : {"llen"}, key : Keys]
  \cup [cmd : {"lindex"}, key : Keys, index : Indexes]
  \cup [cmd : {"lrange"}, key : Keys, start : Indexes, end : Indexes]

Content(d, k) == IF d[k].type = "list" THEN d[k].val ELSE <<>>

Init == db \in [Keys -> {None, Foreign}]

Next == \E op \in Commands :
          /\ db' = Execute(db, op).db
          /\ MapThenSumSet(LAMBDA k : Len(Content(db', k)), Keys) <= MaxTotal

-----------------------------------------------------------------------------
(* What the commands promise: a list is a sequence.                        *)

Abstract(d) ==
  [k \in Keys |-> IF d[k].type = "list" THEN [type |-> "list", val |-> d[k].val] ELSE d[k]]

Put(a, k, s) == [a EXCEPT ![k] = IF s = <<>> THEN None ELSE [type |-> "list", val |-> s]]

(* The elements at the positions that a range denotes. *)
InRange(s, op) ==
  LET At(i) == IF i < 0 THEN Len(s) + i + 1 ELSE i + 1
  IN SubSeq(s, IF At(op.start) < 1 THEN 1 ELSE At(op.start),
            IF At(op.end) > Len(s) THEN Len(s) ELSE At(op.end))

(* Those that LREM removes: the first ones, or the last ones, or all. *)
Removed(s, op) ==
  { i \in DOMAIN s :
      /\ s[i] = op.value
      /\ op.index > 0 => Cardinality({ j \in 1 .. i : s[j] = op.value }) <= op.index
      /\ op.index < 0 => Cardinality({ j \in i .. Len(s) : s[j] = op.value }) <= -op.index }

(* What a command does to the database, and replies. *)
Promised(a, op) ==
  LET s == Content(a, op.key)
      Set(t, reply) == <<Put(a, op.key, t), reply>>
      at == IF op.index < 0 THEN Len(s) + op.index + 1 ELSE op.index + 1
      pivot == SelectInSeq(s, LAMBDA x : x = op.pivot)
      moved == Put(a, op.key, Front(s))
  IN IF a[op.key] = Foreign THEN <<a, WrongType>>
     ELSE CASE op.cmd = "lpush" -> Set(Reverse(op.values) \o s, IntReply(Len(s) + Len(op.values)))
       [] op.cmd = "rpush" -> Set(s \o op.values, IntReply(Len(s) + Len(op.values)))
       [] op.cmd \in {"lpushx", "rpushx"} ->
            IF s = <<>> THEN <<a, IntReply(0)>>
            ELSE Set(IF op.cmd = "lpushx" THEN <<op.value>> \o s ELSE s \o <<op.value>>,
                     IntReply(Len(s) + 1))
       [] op.cmd = "linsert" ->
            IF pivot = 0 THEN <<a, IntReply(IF s = <<>> THEN 0 ELSE -1)>>
            ELSE Set(InsertAt(s, IF op.where = AtHead THEN pivot ELSE pivot + 1, op.value),
                     IntReply(Len(s) + 1))
       [] op.cmd = "llen" -> <<a, IntReply(Len(s))>>
       [] op.cmd = "lindex" -> <<a, IF at \in DOMAIN s THEN BulkReply(s[at]) ELSE NullReply>>
       [] op.cmd = "lset" -> IF at \notin DOMAIN s THEN <<a, ErrorReply>>
                             ELSE Set([s EXCEPT ![at] = op.value], StatusReply)
       [] op.cmd \in {"lpop", "rpop", "rpoplpush"} /\ s = <<>> -> <<a, NullReply>>
       [] op.cmd = "lpop" /\ s # <<>> -> Set(SubSeq(s, 2, Len(s)), BulkReply(s[1]))
       [] op.cmd = "rpop" /\ s # <<>> -> Set(Front(s), BulkReply(Last(s)))
       [] op.cmd = "lrange" -> <<a, MultiReply(InRange(s, op))>>
       [] op.cmd = "ltrim" -> Set(InRange(s, op), StatusReply)
       [] op.cmd = "lrem" ->
            LET kept == SetToSortSeq(DOMAIN s \ Removed(s, op), <)
            IN Set([i \in DOMAIN kept |-> s[kept[i]]], IntReply(Cardinality(Removed(s, op))))
       [] op.cmd = "rpoplpush" /\ s # <<>> ->
            IF a[op.dst] = Foreign THEN <<a, WrongType>>
            ELSE <<Put(moved, op.dst, <<Last(s)>> \o Content(moved, op.dst)), BulkReply(Last(s))>>

Replayed(d, sent) == FoldLeft(LAMBDA x, op : Execute(x, op).db, d, sent)

Visible(r) == <<Abstract(r.db), r.reply>>
Signalled(d, op, r) ==
  \A k \in Keys : Abstract(r.db)[k] # Abstract(d)[k] =>
    /\ r.dirty
    /\ k \in r.signalled \/ (op.cmd = "rpoplpush" /\ k = op.dst /\ d[k] = None)
Repeatable(d, r) == r.dirty => Abstract(Replayed(d, r.sent)) = Abstract(r.db)

-----------------------------------------------------------------------------

(* Every command, in both encodings, does what it promises. *)
CommandsAgree ==
  \A op \in Commands : Visible(Execute(db, op)) = Promised(Abstract(db), op)

(* No command changes a key without signalling it and counting a change,   *)
(* but RPOPLPUSH, which does not signal a destination that it creates.     *)
ChangesAreSignalled ==
  \A op \in Writes : Signalled(db, op, Execute(db, op))

(* What is propagated makes the same change on a slave. *)
SlavesAgree ==
  \A op \in Writes : Repeatable(db, Execute(db, op))

(* A list is never empty; a ziplist has few and only short elements. *)
Sound(o, max) ==
  /\ o.val # <<>>
  /\ o.enc = "ziplist" => Len(o.val) <= max /\ ToSet(o.val) \cap Long = {}

(* So is every list of the database. *)
EncodingsAreSound ==
  \A k \in Keys : db[k].type = "list" => Sound(db[k], list_max_ziplist_entries)

(* The dump file gives the same list, in a sound encoding, also to a       *)
(* server with another limit; and so do the commands of the rewritten      *)
(* append-only file.                                                       *)
FilesAgree ==
  \A k \in Keys : db[k].type = "list" =>
    /\ \A max \in 0 .. listTypeLength(db[k]) :
         LET o == rdbLoadObject(rdbSaveObject(db[k]), max) IN o.val = db[k].val /\ Sound(o, max)
    /\ Abstract(Replayed([db EXCEPT ![k] = None], rewriteListObject(k, db[k]))) = Abstract(db)
=============================================================================
