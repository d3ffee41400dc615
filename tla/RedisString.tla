---------------------------- MODULE RedisString -----------------------------
(***************************************************************************)
(* Strings (redis/src/t_string.c, bitops.c): sequences of bytes, or the    *)
(* number they spell.  Everything is scaled down: a byte has 4 bits, a     *)
(* numeral the base 4, a long long the bounds LLONG_MIN and LLONG_MAX.     *)
(***************************************************************************)
EXTENDS RedisTypes

CONSTANTS
  Texts,        \* the arguments that become strings, sequences of bytes
  LLONG_MAX,
  Increments,
  Indexes,
  MaxTotal,     \* a bound on the bytes of all strings
  MaxString,    \* the 512 MB that a string may have
  BitopWords,   \* the bytes that BITOP combines at once (4 longs)
  IntegerBits   \* the sizes of integers in a dump file (8, 16 and 32 bits)

VARIABLE db

LLONG_MIN == -LLONG_MAX - 1
LongLong == LLONG_MIN .. LLONG_MAX

Nul == 0
Minus == 5
Base == 4
Digit(n) == 8 + n
IsDigit(c) == c \in Digit(0) .. Digit(Base - 1)
Bits == 4

-----------------------------------------------------------------------------
(* Numbers and their spelling (util.c, object.c).                          *)

ll2string(n) ==
  LET v == IF n < 0 THEN -n ELSE n
      numeral[m \in 0 .. v] ==
        IF m < Base THEN <<Digit(m)>> ELSE Append(numeral[m \div Base], Digit(m % Base))
  IN (IF n < 0 THEN <<Minus>> ELSE <<>>) \o numeral[v]

(* The number that a sequence of digits, with a sign, spells. *)
Digits(s) == IF s # <<>> /\ s[1] = Minus THEN SubSeq(s, 2, Len(s)) ELSE s
Numeral(ds) == ds # <<>> /\ \A i \in DOMAIN ds : IsDigit(ds[i])
Value(ds) == FoldLeft(LAMBDA v, c : v * Base + c - Digit(0), 0, ds)
Spelt(s) == IF Digits(s) = s THEN Value(s) ELSE -Value(Digits(s))

Number(n) == [ok |-> TRUE, value |-> n]
NoNumber == [ok |-> FALSE, value |-> 0]

(* Only the spelling that ll2string would give is accepted. *)
string2ll(s) ==
  IF /\ Numeral(Digits(s))
     /\ Digits(s)[1] # Digit(0) \/ s = <<Digit(0)>>
     /\ Spelt(s) \in LongLong
  THEN Number(Spelt(s)) ELSE NoNumber

(* The C library stops at a zero byte, and is content with zeros in front  *)
(* and with nothing at all.                                                *)
UpToNul(s) ==
  IF \E i \in DOMAIN s : s[i] = Nul THEN SubSeq(s, 1, SelectInSeq(s, LAMBDA c : c = Nul) - 1) ELSE s
ParsedText(text) ==
  IF text = <<>> THEN Number(0) ELSE IF Numeral(Digits(text)) THEN Number(Spelt(text)) ELSE NoNumber
strtoll(s) == ParsedText(UpToNul(s))

Raw(s) == [type |-> "string", enc |-> "raw", val |-> s]
createStringObjectFromLongLong(n) == [type |-> "string", enc |-> "int", val |-> n]

Encoded(s, n) == IF n.ok THEN createStringObjectFromLongLong(n.value) ELSE Raw(s)
tryObjectEncoding(s) == Encoded(s, string2ll(s))

getDecodedObject(o) == IF o.enc = "int" THEN ll2string(o.val) ELSE o.val
stringObjectLen(o) == Len(getDecodedObject(o))

(* A key that is not there counts as 0.  A long double is as good as a     *)
(* long long for the numbers of the instance, but has no bounds.           *)
getLongDoubleFromObject(o) ==
  IF o = None THEN [ok |-> TRUE, value |-> 0]
  ELSE IF o.enc = "int" THEN [ok |-> TRUE, value |-> o.val] ELSE strtoll(o.val)

Bounded(n) == [n EXCEPT !.ok = @ /\ n.value \in LongLong]
getLongLongFromObject(o) == Bounded(getLongDoubleFromObject(o))

-----------------------------------------------------------------------------
(* t_string.c                                                              *)

IsString(d, k) == ~HasOther(d, k, "string")
Bytes(d, k) == IF d[k] = None THEN <<>> ELSE getDecodedObject(d[k])

(* SET and SETNX, which overwrite a value of any type; the expire time of  *)
(* SETEX is in RedisDb.                                                    *)
setGenericCommand(d, op) ==
  IF op.cmd = "setnx" /\ d[op.key] # None THEN Answer(d, IntReply(0))
  ELSE Store(d, op.key, tryObjectEncoding(op.value),
             IF op.cmd = "setnx" THEN IntReply(1) ELSE StatusReply, op)

getGenericCommand(d, op) ==
  WithValue(d, op.key, "string", NullReply, Answer(d, BulkReply(Bytes(d, op.key))))

getsetCommand(d, op) ==
  LET got == getGenericCommand(d, op)
  IN IF got.reply = WrongType THEN got
     ELSE Store(d, op.key, tryObjectEncoding(op.value), got.reply, op)

(* sdsgrowzero, and the bytes of value from offset on. *)
Overwritten(s, offset, value) ==
  LET n == IF offset + Len(value) > Len(s) THEN offset + Len(value) ELSE Len(s)
  IN [i \in 1 .. n |-> IF i > offset /\ i <= offset + Len(value) THEN value[i - offset]
                       ELSE IF i \in DOMAIN s THEN s[i] ELSE Nul]

setrangeCommand(d, op) ==
  LET k == op.key
      new == Overwritten(Bytes(d, k), op.offset, op.value)
  IN IF op.offset < 0 THEN Answer(d, ErrorReply)
     ELSE IF ~IsString(d, k) THEN Answer(d, WrongType)
     ELSE IF op.value = <<>> THEN Answer(d, IntReply(Len(Bytes(d, k))))
     ELSE IF op.offset + Len(op.value) > MaxString THEN Answer(d, ErrorReply)
     ELSE Store(d, k, Raw(new), IntReply(Len(new)), op)

(* The range of GETRANGE and BITCOUNT, whose end is clamped at both sides. *)
ByteRange(op, strlen) ==
  LET r == IndexRange(op, strlen)
      end == IF op.end < 0 THEN strlen + op.end ELSE op.end
      low == IF end < 0 THEN 0 ELSE end
  IN [start |-> r.start, end |-> IF low >= strlen THEN strlen - 1 ELSE low]

getrangeCommand(d, op) ==
  LET s == Bytes(d, op.key)
      r == ByteRange(op, Len(s))
  IN WithValue(d, op.key, "string", BulkReply(<<>>),
       Answer(d, BulkReply(IF r.start > r.end THEN <<>> ELSE SubSeq(s, r.start + 1, r.end + 1))))

mgetCommand(d, op) ==
  Answer(d, MultiReply([i \in DOMAIN op.keys |->
    IF d[op.keys[i]].type # "string" THEN NullReply ELSE BulkReply(Bytes(d, op.keys[i]))]))

(* MSETNX sets nothing if one of the keys exists. *)
msetGenericCommand(d, op) ==
  LET new == FoldLeft(LAMBDA x, p : [x EXCEPT ![p[1]] = tryObjectEncoding(p[2])], d, op.pairs)
      keys == { p[1] : p \in ToSet(op.pairs) }
  IN IF op.cmd = "msetnx" /\ \E k \in keys : d[k] # None THEN Answer(d, IntReply(0))
     ELSE Outcome(new, IF op.cmd = "msetnx" THEN IntReply(1) ELSE StatusReply, keys, TRUE, <<op>>)

(* INCR, DECR, INCRBY and DECRBY; the negation of LLONG_MIN, which is not  *)
(* defined, is left out.                                                   *)
Overflows(old, incr) ==
  \/ incr < 0 /\ old < 0 /\ incr < LLONG_MIN - old
  \/ incr > 0 /\ old > 0 /\ incr > LLONG_MAX - old

Incremented(d, op, old, incr) ==
  IF ~IsString(d, op.key) THEN Answer(d, WrongType)
  ELSE IF ~old.ok \/ Overflows(old.value, incr) THEN Answer(d, ErrorReply)
  ELSE Store(d, op.key, createStringObjectFromLongLong(old.value + incr),
             IntReply(old.value + incr), op)

incrDecrCommand(d, op) ==
  Incremented(d, op, getLongLongFromObject(d[op.key]), IF op.cmd = "decrby" THEN -op.by ELSE op.by)

(* The result is a string even if it spells an integer, and is propagated  *)
(* as SET.                                                                 *)
incrbyfloatCommand(d, op) ==
  LET old == getLongDoubleFromObject(d[op.key])
      new == ll2string(old.value + op.by)
  IN IF ~IsString(d, op.key) THEN Answer(d, WrongType)
     ELSE IF ~old.ok THEN Answer(d, ErrorReply)
     ELSE Store(d, op.key, Raw(new), BulkReply(new), [cmd |-> "set", key |-> op.key, value |-> new])

appendCommand(d, op) ==
  LET k == op.key
      new == IF d[k] = None THEN tryObjectEncoding(op.value) ELSE Raw(Bytes(d, k) \o op.value)
      totlen == Len(Bytes(d, k)) + Len(op.value)
  IN IF ~IsString(d, k) THEN Answer(d, WrongType)
     ELSE IF d[k] # None /\ totlen > MaxString THEN Answer(d, ErrorReply)
     ELSE Store(d, k, new, IntReply(stringObjectLen(new)), op)

strlenCommand(d, op) ==
  WithValue(d, op.key, "string", IntReply(0), Answer(d, IntReply(stringObjectLen(d[op.key]))))

-----------------------------------------------------------------------------
(* bitops.c                                                                *)

BitOf(byte, bit) == (byte \div 2 ^ bit) % 2

setbitCommand(d, op) ==
  LET k == op.key
      byte == op.offset \div Bits
      bit == Bits - 1 - (op.offset % Bits)
      s == Overwritten(Bytes(d, k), byte + 1, <<>>)
      old == BitOf(s[byte + 1], bit)
      new == [s EXCEPT ![byte + 1] = @ + (op.on - old) * 2 ^ bit]
  IN IF ~IsString(d, k) THEN Answer(d, WrongType)
     ELSE Store(d, k, Raw(new), IntReply(old), op)

getbitCommand(d, op) ==
  LET s == Bytes(d, op.key)
      byte == op.offset \div Bits
      bit == Bits - 1 - (op.offset % Bits)
  IN WithValue(d, op.key, "string", IntReply(0),
       Answer(d, IntReply(IF byte < Len(s) THEN BitOf(s[byte + 1], bit) ELSE 0)))

Combine(name, a, b) ==
  LET bit(i) == CASE name = "and" -> BitOf(a, i) * BitOf(b, i)
                  [] name = "or" -> IF BitOf(a, i) + BitOf(b, i) > 0 THEN 1 ELSE 0
                  [] name = "xor" -> (BitOf(a, i) + BitOf(b, i)) % 2
  IN MapThenSumSet(LAMBDA i : bit(i) * 2 ^ i, 0 .. Bits - 1)

(* As long as all strings have bytes, they are combined several at a time; *)
(* the rest byte by byte, a string that has ended giving zeros.            *)
bitopCommand(d, op) ==
  LET src == [i \in DOMAIN op.keys |-> Bytes(d, op.keys[i])]
      lens == { Len(src[i]) : i \in DOMAIN src }
      maxlen == Max(lens)
      fast == (Min(lens) \div BitopWords) * BitopWords
      Byte(i, j) == IF j <= fast \/ j <= Len(src[i]) THEN src[i][j] ELSE 0
      output(j) ==
        IF op.name = "not" THEN 2 ^ Bits - 1 - Byte(1, j)
        ELSE FoldLeft(LAMBDA acc, i : Combine(op.name, acc, Byte(i, j)), Byte(1, j),
                      [i \in 1 .. Len(src) - 1 |-> i + 1])
      res == [j \in 1 .. maxlen |-> output(j)]
  IN IF \E k \in ToSet(op.keys) : ~IsString(d, k) THEN Answer(d, WrongType)
     ELSE IF maxlen > 0 THEN Store(d, op.dst, Raw(res), IntReply(maxlen), op)
     ELSE Outcome([d EXCEPT ![op.dst] = None], IntReply(0),
                  IF d[op.dst] # None THEN {op.dst} ELSE {}, TRUE, <<op>>)

popcount(s) == MapThenSumSet(LAMBDA j : MapThenSumSet(LAMBDA i : BitOf(s[j], i), 0 .. Bits - 1), DOMAIN s)

bitcountCommand(d, op) ==
  LET s == Bytes(d, op.key)
      r == ByteRange(op, Len(s))
  IN WithValue(d, op.key, "string", IntReply(0),
       Answer(d, IntReply(IF r.start > r.end THEN 0 ELSE popcount(SubSeq(s, r.start + 1, r.end + 1)))))

-----------------------------------------------------------------------------
(* A string in the dump file, and in the rewritten append-only file.       *)

Fits(v, w) == -(2 ^ (w - 1)) <= v /\ v < 2 ^ (w - 1)
Verbatim(s) == [bits |-> 0, val |-> s]

(* In the smallest size that holds the number, if one does. *)
rdbEncodeInteger(v) ==
  LET w == Min({ b \in IntegerBits : Fits(v, b) }) IN [bits |-> w, val |-> v % 2 ^ w]
Encodable(v) == \E w \in IntegerBits : Fits(v, w)

(* The C library reads the number, so that only spelling it again tells    *)
(* whether the string is its spelling.                                     *)
rdbTryIntegerEncoding(s) ==
  LET n == strtoll(s) IN n.ok /\ ll2string(n.value) = s /\ Encodable(n.value)

(* Compression, which gives back what it was given, is left out. *)
rdbSaveRawString(s) == IF rdbTryIntegerEncoding(s) THEN rdbEncodeInteger(strtoll(s).value) ELSE Verbatim(s)

rdbSaveLongLongAsStringObject(n) == IF Encodable(n) THEN rdbEncodeInteger(n) ELSE Verbatim(ll2string(n))

rdbSaveStringObject(o) ==
  IF o.enc = "int" THEN rdbSaveLongLongAsStringObject(o.val) ELSE rdbSaveRawString(o.val)

rdbLoadIntegerObject(file) ==
  createStringObjectFromLongLong(IF file.val < 2 ^ (file.bits - 1) THEN file.val ELSE file.val - 2 ^ file.bits)

rdbGenericLoadStringObject(file) == IF file.bits = 0 THEN Raw(file.val) ELSE rdbLoadIntegerObject(file)

rdbLoadObject(file) ==
  LET o == rdbGenericLoadStringObject(file) IN IF o.enc = "raw" THEN tryObjectEncoding(o.val) ELSE o

rewriteStringObject(k, o) == <<[cmd |-> "set", key |-> k, value |-> getDecodedObject(o)]>>

-----------------------------------------------------------------------------

Execute(d, op) ==
  CASE op.cmd \in {"set", "setnx"} -> setGenericCommand(d, op)
    [] op.cmd = "get" -> getGenericCommand(d, op)
    [] op.cmd = "getset" -> getsetCommand(d, op)
    [] op.cmd = "setrange" -> setrangeCommand(d, op)
    [] op.cmd = "getrange" -> getrangeCommand(d, op)
    [] op.cmd = "mget" -> mgetCommand(d, op)
    [] op.cmd \in {"mset", "msetnx"} -> msetGenericCommand(d, op)
    [] op.cmd \in {"incrby", "decrby"} -> incrDecrCommand(d, op)
    [] op.cmd = "incrbyfloat" -> incrbyfloatCommand(d, op)
    [] op.cmd = "append" -> appendCommand(d, op)
    [] op.cmd = "strlen" -> strlenCommand(d, op)
    [] op.cmd = "setbit" -> setbitCommand(d, op)
    [] op.cmd = "getbit" -> getbitCommand(d, op)
    [] op.cmd = "bitop" -> bitopCommand(d, op)
    [] op.cmd = "bitcount" -> bitcountCommand(d, op)

Writes ==
  [cmd : {"set", "setnx", "getset", "append"}, key : Keys, value : Texts]
  \cup [cmd : {"setrange"}, key : Keys, offset : Indexes, value : Texts]
  \cup [cmd : {"mset", "msetnx"}, pairs : TupleOf(Keys \X Texts, 2)]
  \cup [cmd : {"incrby", "decrby", "incrbyfloat"}, key : Keys, by : Increments]
  \cup [cmd : {"setbit"}, key : Keys, offset : {0, 3, Bits + 1}, on : {0, 1}]
  \cup [cmd : {"bitop"}, name : {"and", "or", "xor"}, dst : Keys, keys : TupleOf(Keys, 2)]
  \cup [cmd : {"bitop"}, name : {"not"}, dst : Keys, keys : TupleOf(Keys, 1)]

Commands ==
  Writes
  \cup [cmd : {"get", "strlen"}, key : Keys]
  \cup [cmd : {"getrange", "bitcount"}, key : Keys, start : Indexes, end : Indexes]
  \cup [cmd : {"mget"}, keys : TupleOf(Keys, 2)]
  \cup [cmd : {"getbit"}, key : Keys, offset : {0, 3, Bits + 1}]

Init == db \in [Keys -> {None, Foreign}]

Next == \E op \in Commands :
          /\ db' = Execute(db, op).db
          /\ MapThenSumSet(LAMBDA k : IF db'[k] = Foreign THEN 0 ELSE Len(Bytes(db', k)), Keys) <= MaxTotal

-----------------------------------------------------------------------------
(* What the commands promise: a string is a sequence of bytes.             *)

Abstract(d) ==
  [k \in Keys |-> IF d[k].type = "string" THEN [type |-> "string", val |-> Bytes(d, k)] ELSE d[k]]

Put(a, k, s) == [a EXCEPT ![k] = [type |-> "string", val |-> s]]

Content(a, k) == IF a[k].type = "string" THEN a[k].val ELSE <<>>

(* A bit of a string, which is 0 behind its end. *)
BitAt(s, i) ==
  IF i \div Bits < Len(s) THEN BitOf(s[(i \div Bits) + 1], Bits - 1 - (i % Bits)) ELSE 0

(* The string of n bytes with the given bits. *)
FromBits(n, Bit(_)) ==
  [j \in 1 .. n |-> MapThenSumSet(LAMBDA i : Bit((j - 1) * Bits + Bits - 1 - i) * 2 ^ i, 0 .. Bits - 1)]

(* The positions that a range denotes; an end before the string counts as  *)
(* its first byte.                                                         *)
Positions(s, op) ==
  LET At(i) == IF i < 0 THEN Len(s) + i ELSE i
  IN { j \in DOMAIN s : At(op.start) <= j - 1 /\ j - 1 <= Max({0, At(op.end)}) }

Promised(a, op) ==
  LET s == Content(a, op.key)
      number == strtoll(s)
      sum == number.value + (IF op.cmd = "decrby" THEN -op.by ELSE op.by)
      keys == { p[1] : p \in ToSet(op.pairs) }
      S(i) == Content(a, op.keys[i])
      n == Max({ Len(S(i)) : i \in DOMAIN op.keys })
      Result(i) == CASE op.name = "and" -> Min({BitAt(S(1), i), BitAt(S(2), i)})
                     [] op.name = "or" -> Max({BitAt(S(1), i), BitAt(S(2), i)})
                     [] op.name = "xor" -> IF BitAt(S(1), i) = BitAt(S(2), i) THEN 0 ELSE 1
                     [] op.name = "not" -> 1 - BitAt(S(1), i)
      SetBit(i) == IF i = op.offset THEN op.on ELSE BitAt(s, i)
      wrong == IF op.cmd = "bitop" THEN \E k \in ToSet(op.keys) : a[k] = Foreign
               ELSE op.cmd \notin {"set", "setnx", "mget", "mset", "msetnx"} /\ a[op.key] = Foreign
  IN IF op.cmd = "setrange" /\ op.offset < 0 THEN <<a, ErrorReply>>
     ELSE IF wrong THEN <<a, WrongType>>
     ELSE CASE op.cmd = "set" -> <<Put(a, op.key, op.value), StatusReply>>
       [] op.cmd = "setnx" -> IF a[op.key] # None THEN <<a, IntReply(0)>>
                              ELSE <<Put(a, op.key, op.value), IntReply(1)>>
       [] op.cmd = "get" -> <<a, IF a[op.key] = None THEN NullReply ELSE BulkReply(s)>>
       [] op.cmd = "getset" ->
            <<Put(a, op.key, op.value), IF a[op.key] = None THEN NullReply ELSE BulkReply(s)>>
       [] op.cmd = "append" ->
            IF a[op.key] # None /\ Len(s \o op.value) > MaxString THEN <<a, ErrorReply>>
            ELSE <<Put(a, op.key, s \o op.value), IntReply(Len(s \o op.value))>>
       [] op.cmd = "strlen" -> <<a, IntReply(Len(s))>>
       [] op.cmd = "setrange" ->
            IF op.value = <<>> THEN <<a, IntReply(Len(s))>>
            ELSE IF op.offset + Len(op.value) > MaxString THEN <<a, ErrorReply>>
            ELSE LET padded == s \o [i \in 1 .. Max({0, op.offset - Len(s)}) |-> Nul]
                     new == SubSeq(padded, 1, op.offset) \o op.value \o
                            SubSeq(s, op.offset + Len(op.value) + 1, Len(s))
                 IN <<Put(a, op.key, new), IntReply(Len(new))>>
       [] op.cmd = "getrange" ->
            <<a, BulkReply(IF Positions(s, op) = {} THEN <<>>
                           ELSE SubSeq(s, Min(Positions(s, op)), Max(Positions(s, op))))>>
       [] op.cmd = "mget" ->
            <<a, MultiReply([i \in DOMAIN op.keys |->
                   IF a[op.keys[i]].type = "string" THEN BulkReply(S(i)) ELSE NullReply])>>
       [] op.cmd \in {"mset", "msetnx"} ->
            IF op.cmd = "msetnx" /\ \E k \in keys : a[k] # None THEN <<a, IntReply(0)>>
            ELSE <<Put(Put(a, op.pairs[1][1], op.pairs[1][2]), op.pairs[2][1], op.pairs[2][2]),
                   IF op.cmd = "msetnx" THEN IntReply(1) ELSE StatusReply>>
       [] op.cmd \in {"incrby", "decrby"} ->
            IF ~number.ok \/ number.value \notin LongLong \/ sum \notin LongLong THEN <<a, ErrorReply>>
            ELSE <<Put(a, op.key, ll2string(sum)), IntReply(sum)>>
       [] op.cmd = "incrbyfloat" ->
            IF ~number.ok THEN <<a, ErrorReply>>
            ELSE <<Put(a, op.key, ll2string(sum)), BulkReply(ll2string(sum))>>
       [] op.cmd = "setbit" ->
            <<Put(a, op.key, FromBits(Max({Len(s), (op.offset \div Bits) + 1}), SetBit)),
              IntReply(BitAt(s, op.offset))>>
       [] op.cmd = "getbit" -> <<a, IntReply(BitAt(s, op.offset))>>
       [] op.cmd = "bitop" -> <<IF n = 0 THEN [a EXCEPT ![op.dst] = None]
                                ELSE Put(a, op.dst, FromBits(n, Result)), IntReply(n)>>
       [] op.cmd = "bitcount" ->
            <<a, IntReply(Cardinality({ i \in 0 .. Len(s) * Bits - 1 :
                            (i \div Bits) + 1 \in Positions(s, op) /\ BitAt(s, i) = 1 }))>>

Replayed(d, sent) == FoldLeft(LAMBDA x, op : Execute(x, op).db, d, sent)

Visible(r) == <<Abstract(r.db), r.reply>>
Signalled(d, r) ==
  \A k \in Keys : Abstract(r.db)[k] # Abstract(d)[k] => k \in r.signalled /\ r.dirty
Repeatable(d, r) == r.dirty => Abstract(Replayed(d, r.sent)) = Abstract(r.db)

-----------------------------------------------------------------------------

(* Every command, in both encodings, does what it promises. *)
CommandsAgree ==
  \A op \in Commands : Visible(Execute(db, op)) = Promised(Abstract(db), op)

(* No command changes a key without signalling it and counting a change. *)
ChangesAreSignalled ==
  \A op \in Writes : Signalled(db, Execute(db, op))

(* What is propagated makes the same change on a slave. *)
SlavesAgree ==
  \A op \in Writes : Repeatable(db, Execute(db, op))

(* A number is a long long, and reading back its spelling gives it again;  *)
(* no string is too long.                                                  *)
EncodingsAreSound ==
  \A k \in Keys : db[k].type = "string" =>
    /\ Len(Bytes(db, k)) <= MaxString
    /\ db[k].enc = "int" => db[k].val \in LongLong /\ tryObjectEncoding(Bytes(db, k)) = db[k]

(* The dump file gives the same bytes, encoded as SET would encode them,   *)
(* whichever size of integer it uses for them; and so does the SET of the  *)
(* rewritten append-only file.                                             *)
FilesAgree ==
  \A k \in Keys : db[k].type = "string" =>
    /\ rdbLoadObject(rdbSaveStringObject(db[k])) = tryObjectEncoding(Bytes(db, k))
    /\ Abstract(Replayed([db EXCEPT ![k] = None], rewriteStringObject(k, db[k]))) = Abstract(db)
=============================================================================
