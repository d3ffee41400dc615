---------------------------- MODULE RedisProtocol ---------------------------
(***************************************************************************)
(* How the server takes requests from what a client sends                  *)
(* (redis/src/networking.c): the bytes come in pieces of any length, and   *)
(* stay in the query buffer while the client is blocked.  A byte is a      *)
(* string: "*", "$", a digit, "cr", "lf", "sp" or a letter.                *)
(***************************************************************************)
EXTENDS Integers, Sequences, SequencesExt, FiniteSetsExt, TLC

CONSTANTS
  Requests,            \* [type, args]: "inline", "multibulk", or "raw", which is no request
  MaxRequests,         \* bound on the requests of a connection
  REDIS_IOBUF_LEN,
  REDIS_MBULK_BIG_ARG,
  REDIS_INLINE_MAX_SIZE   \* more than the sum of the other two, as in the code

VARIABLE conn   \* a redisClient, and the client's side of the connection

Crlf == <<"cr", "lf">>
Joined(parts) == FoldLeft(\o, <<>>, parts)

(* What the client sends for a request. *)
Encoded(r) ==
  CASE r.type = "multibulk" ->
         <<"*", ToString(Len(r.args))>> \o Crlf
         \o Joined([i \in DOMAIN r.args |-> <<"$", ToString(Len(r.args[i]))>> \o Crlf \o r.args[i] \o Crlf])
    [] r.type = "inline" -> Joined([i \in DOMAIN r.args |-> r.args[i] \o <<"sp">>]) \o Crlf
    [] r.type = "raw" -> Joined(r.args)

(* executed: the requests that have been; grown: a pass over the buffer    *)
(* has begun with more in it than one read adds to a partial argument.     *)
Connected(sent) ==
  [todo |-> Joined([i \in DOMAIN sent |-> Encoded(sent[i])]), sent |-> sent, executed |-> <<>>,
   querybuf |-> <<>>, reqtype |-> "none", argv |-> <<>>, multibulklen |-> 0, bulklen |-> -1,
   BLOCKED |-> FALSE, CLOSE_AFTER_REPLY |-> FALSE, grown |-> FALSE, open |-> TRUE]

createClient == { Connected(sent) : sent \in UNION { [1 .. n -> Requests] : n \in 1 .. MaxRequests } }

Init == conn \in createClient

-----------------------------------------------------------------------------

Trimmed(c, pos) == [c EXCEPT !.querybuf = SubSeq(@, pos + 1, Len(@))]

(* strchr: the position of the first "cr" behind pos, or 0. *)
Newline(buf, pos) ==
  LET found == { i \in pos + 1 .. Len(buf) : buf[i] = "cr" } IN IF found = {} THEN 0 ELSE Min(found)

(* string2ll, for numbers of one digit. *)
Digits == { ToString(n) : n \in 0 .. 9 }
IsNumber(s) == (Len(s) = 1 /\ s[1] \in Digits) \/ (Len(s) = 2 /\ s[1] = "-" /\ s[2] \in Digits)
Number(s) ==
  LET n == CHOOSE n \in 0 .. 9 : ToString(n) = Last(s) IN IF Len(s) = 2 THEN -n ELSE n

setProtocolError(c, pos) == [Trimmed(c, pos) EXCEPT !.CLOSE_AFTER_REPLY = TRUE]
TooBig(c) == IF Len(c.querybuf) > REDIS_INLINE_MAX_SIZE THEN setProtocolError(c, 0) ELSE c

resetClient(c) == [c EXCEPT !.reqtype = "none", !.argv = <<>>, !.multibulklen = 0, !.bulklen = -1]

(* A line, split at the spaces. *)
Words(line) ==
  LET cuts == SelectSeq([i \in 1 .. Len(line) + 1 |-> i], LAMBDA i : i > Len(line) \/ line[i] = "sp")
      word == [j \in DOMAIN cuts |-> SubSeq(line, (IF j = 1 THEN 0 ELSE cuts[j - 1]) + 1, cuts[j] - 1)]
  IN SelectSeq(word, LAMBDA w : w # <<>>)

processInlineBuffer(c) ==
  LET ends == { i \in 1 .. Len(c.querybuf) - 1 : SubSeq(c.querybuf, i, i + 1) = Crlf }
      newline == Min(ends)
  IN IF ends = {} THEN [ok |-> FALSE, c |-> TooBig(c)]
     ELSE [ok |-> TRUE, c |-> [Trimmed(c, newline + 1) EXCEPT !.argv = Words(SubSeq(c.querybuf, 1, newline - 1))]]

(* The arguments of a request in a loop with the position pos; "break"     *)
(* waits for more input, "error" does not even trim the buffer.            *)
ReadBulkLen(x) ==
  LET c == x.c
      newline == Newline(c.querybuf, x.pos)
      digits == SubSeq(c.querybuf, x.pos + 2, newline - 1)
      ll == Number(digits)
      y == [x EXCEPT !.pos = newline + 1, !.c.bulklen = ll]
  IN IF c.bulklen # -1 THEN x
     ELSE IF newline = 0 THEN [x EXCEPT !.c = TooBig(@), !.state = "break"]
     ELSE IF newline > Len(c.querybuf) - 1 THEN [x EXCEPT !.state = "break"]
     ELSE IF c.querybuf[x.pos + 1] # "$" \/ ~IsNumber(digits) \/ ll < 0
     THEN [x EXCEPT !.c = setProtocolError(@, x.pos), !.state = "error"]
     ELSE IF ll >= REDIS_MBULK_BIG_ARG THEN [y EXCEPT !.c = Trimmed(@, y.pos), !.pos = 0]
     ELSE y

(* Mutant: the "cr" and "lf" behind the argument may be missing still. *)
ReadBulk_without_crlf(x) ==
  LET c == x.c
      arg == SubSeq(c.querybuf, x.pos + 1, x.pos + c.bulklen)
      whole == x.pos = 0 /\ c.bulklen >= REDIS_MBULK_BIG_ARG /\ Len(c.querybuf) = c.bulklen + 2
      d == [c EXCEPT !.argv = Append(@, arg), !.bulklen = -1, !.multibulklen = @ - 1]
  IN IF x.state # "loop" THEN x
     ELSE IF Len(c.querybuf) - x.pos < c.bulklen THEN [x EXCEPT !.state = "break"]
     ELSE IF whole THEN [x EXCEPT !.c = [d EXCEPT !.querybuf = <<>>]]
     ELSE [x EXCEPT !.c = d, !.pos = @ + c.bulklen + 2]

ReadBulk(x) ==
  LET c == x.c
      arg == SubSeq(c.querybuf, x.pos + 1, x.pos + c.bulklen)
      whole == x.pos = 0 /\ c.bulklen >= REDIS_MBULK_BIG_ARG /\ Len(c.querybuf) = c.bulklen + 2
      d == [c EXCEPT !.argv = Append(@, arg), !.bulklen = -1, !.multibulklen = @ - 1]
  IN IF x.state # "loop" THEN x
     ELSE IF Len(c.querybuf) - x.pos < c.bulklen + 2 THEN [x EXCEPT !.state = "break"]
     ELSE IF whole THEN [x EXCEPT !.c = [d EXCEPT !.querybuf = <<>>]]
     ELSE [x EXCEPT !.c = d, !.pos = @ + c.bulklen + 2]

ReadBulks(c, pos) ==
  LET Step(x, i) == IF x.state # "loop" THEN x ELSE ReadBulk(ReadBulkLen(x))
      x == FoldLeft(Step, [c |-> c, pos |-> pos, state |-> "loop"], [i \in 1 .. c.multibulklen |-> i])
  IN IF x.state = "error" THEN [ok |-> FALSE, c |-> x.c]
     ELSE [ok |-> x.c.multibulklen = 0, c |-> Trimmed(x.c, x.pos)]

processMultibulkBuffer(c) ==
  LET newline == Newline(c.querybuf, 0)
      digits == SubSeq(c.querybuf, 2, newline - 1)
      ll == Number(digits)
  IN IF c.multibulklen # 0 THEN ReadBulks(c, 0)
     ELSE IF newline = 0 THEN [ok |-> FALSE, c |-> TooBig(c)]
     ELSE IF newline > Len(c.querybuf) - 1 THEN [ok |-> FALSE, c |-> c]
     ELSE IF ~IsNumber(digits) THEN [ok |-> FALSE, c |-> setProtocolError(c, 0)]
     ELSE IF ll <= 0 THEN [ok |-> TRUE, c |-> Trimmed(c, newline + 1)]
     ELSE ReadBulks([c EXCEPT !.multibulklen = ll], newline + 1)

(* A request is executed; the one named "b" blocks, and QUIT, "q", lets    *)
(* the connection end and the client as it is.                             *)
processCommand(c) ==
  LET d == [c EXCEPT !.executed = Append(@, c.argv)]
  IN CASE c.argv[1] = <<"q">> -> [d EXCEPT !.CLOSE_AFTER_REPLY = TRUE]
       [] c.argv[1] = <<"b">> -> resetClient([d EXCEPT !.BLOCKED = TRUE])
       [] OTHER -> resetClient(d)

(* One pass through the loop of processInputBuffer. *)
ProcessRequest(c) ==
  LET type == IF c.reqtype # "none" THEN c.reqtype ELSE IF c.querybuf[1] = "*" THEN "multibulk" ELSE "inline"
      typed == [c EXCEPT !.reqtype = type]
      r == IF type = "inline" THEN processInlineBuffer(typed) ELSE processMultibulkBuffer(typed)
  IN IF ~r.ok THEN [stop |-> TRUE, c |-> r.c]
     ELSE [stop |-> FALSE, c |-> IF r.c.argv = <<>> THEN resetClient(r.c) ELSE processCommand(r.c)]

processInputBuffer(c) ==
  LET Loop(x, i) == IF x.stop \/ x.c.querybuf = <<>> \/ x.c.BLOCKED \/ x.c.CLOSE_AFTER_REPLY THEN x
                    ELSE ProcessRequest(x.c)
      start == [c EXCEPT !.grown = @ \/ (~c.BLOCKED /\ Len(c.querybuf) > REDIS_INLINE_MAX_SIZE)]
  IN FoldLeft(Loop, [stop |-> FALSE, c |-> start], [i \in 1 .. MaxRequests + 1 |-> i]).c

-----------------------------------------------------------------------------

(* At most so much is read that the buffer ends with a large argument. *)
ReadLen(c) ==
  IF c.reqtype = "multibulk" /\ c.multibulklen # 0 /\ c.bulklen >= REDIS_MBULK_BIG_ARG
  THEN Min({REDIS_IOBUF_LEN, c.bulklen + 2 - Len(c.querybuf)})
  ELSE REDIS_IOBUF_LEN

readQueryFromClient ==
  /\ conn.open
  /\ \E n \in 1 .. Min({ReadLen(conn), Len(conn.todo)}) :
       conn' = processInputBuffer([conn EXCEPT !.querybuf = @ \o SubSeq(conn.todo, 1, n),
                                               !.todo = SubSeq(@, n + 1, Len(@))])

(* What the client waits for has come: unblockClientWaitingData, and then  *)
(* beforeSleep.                                                            *)
Unblock == /\ conn.open /\ conn.BLOCKED
           /\ conn' = processInputBuffer([conn EXCEPT !.BLOCKED = FALSE])

(* The end of the input, or the reply to the last request has been sent. *)
freeClient == /\ conn.open
              /\ conn.todo = <<>> \/ conn.CLOSE_AFTER_REPLY
              /\ conn' = [Connected(<<>>) EXCEPT !.open = FALSE]

Accept == ~conn.open /\ conn' \in createClient

Next == readQueryFromClient \/ Unblock \/ freeClient \/ Accept

-----------------------------------------------------------------------------

IsQuit(r) == r.type # "raw" /\ r.args # <<>> /\ r.args[1] = <<"q">>

(* The requests before the first thing that is none, or with QUIT. *)
Expected(sent) ==
  LET last == SelectInSeq(sent, LAMBDA r : r.type = "raw" \/ IsQuit(r))
      all == IF last = 0 THEN sent ELSE IF IsQuit(sent[last]) THEN SubSeq(sent, 1, last) ELSE SubSeq(sent, 1, last - 1)
      args == [i \in DOMAIN all |-> all[i].args]
  IN SelectSeq(args, LAMBDA a : a # <<>>)

Ends(sent) == \E i \in DOMAIN sent : sent[i].type = "raw" \/ IsQuit(sent[i])

(* However the input is cut into pieces, and wherever the client blocks in *)
(* between, exactly the requests that were sent are executed, in their     *)
(* order; and a connection is given up only at what is no request, or when *)
(* the client had sent more than a limit while it was blocked: the limit   *)
(* for one line is compared with all of the request that has come.         *)
RequestsAreExecuted ==
  LET expected == Expected(conn.sent)
      given_up == conn.CLOSE_AFTER_REPLY /\ conn.grown
      finished == conn.CLOSE_AFTER_REPLY \/ (conn.todo = <<>> /\ ~conn.BLOCKED)
  IN /\ IsPrefix(conn.executed, expected)
     /\ conn.open /\ finished =>
          given_up \/ (conn.executed = expected /\ conn.CLOSE_AFTER_REPLY = Ends(conn.sent))
=============================================================================
