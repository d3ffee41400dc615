----------------------------- MODULE RedisPubsub ----------------------------
(***************************************************************************)
(* Publish and subscribe (redis/src/pubsub.c) and the output of clients    *)
(* (redis/src/networking.c) that carries the messages: the static buffer   *)
(* and the list behind it, lengths that are filled in later, writes that   *)
(* take a part of what there is, limits that close a client later on, and  *)
(* the end of a client in each of these states.  A piece of output, which  *)
(* one call of addReply adds, is a tuple, and the unit of all sizes.       *)
(***************************************************************************)
EXTENDS Naturals, Sequences, SequencesExt, FiniteSetsExt

CONSTANTS
  Clients,
  Channels, Patterns, Messages,
  Matches,             \* the pairs <<pattern, channel>> of stringmatchlen
  REDIS_REPLY_CHUNK_BYTES, BufferSize,   \* of a node, of the static buffer
  client_obuf_limits,  \* [normal |-> [hard, soft], pubsub |-> [hard, soft]], 0 for none
  MaxDue               \* bound on the output before another command

VARIABLE out   \* struct redisServer

(* A node of the list, which is NULL until the length is known. *)
Node(s) == [null |-> FALSE, s |-> s]
NullNode == [null |-> TRUE, s |-> <<>>]

(* The reply to a command. *)
Ack == <<"ok">>

(* due: what the client has still to get. *)
Fresh ==
  [pubsub_channels |-> {}, pubsub_patterns |-> <<>>, buf |-> <<>>, reply |-> <<>>, sentlen |-> 0,
   reply_bytes |-> 0, soft_limit |-> "below", WRITABLE |-> FALSE, CLOSE_AFTER_REPLY |-> FALSE,
   CLOSE_ASAP |-> FALSE, due |-> <<>>]

Init == out = [clients |-> Clients, c |-> [c \in Clients |-> Fresh],
               pubsub_channels |-> [ch \in Channels |-> <<>>], pubsub_patterns |-> <<>>,
               clients_to_close |-> <<>>]

-----------------------------------------------------------------------------
(* Output.                                                                 *)

prepareClientToWrite(p) == [p EXCEPT !.WRITABLE = @ \/ (p.buf = <<>> /\ p.reply = <<>>)]

getClientOutputBufferMemoryUsage(p) == p.reply_bytes + Len(p.reply)
getClientLimitClass(p) == IF p.pubsub_channels # {} \/ p.pubsub_patterns # <<>> THEN "pubsub" ELSE "normal"

Reached(p, limit) == limit > 0 /\ getClientOutputBufferMemoryUsage(p) >= limit

(* The soft limit has been reached now and before, longer than the time    *)
(* it allows.                                                              *)
checkClientOutputBufferLimits(p) ==
  LET limits == client_obuf_limits[getClientLimitClass(p)]
  IN Reached(p, limits.hard) \/ (Reached(p, limits.soft) /\ p.soft_limit = "long")
SoftLimit(p) ==
  IF ~Reached(p, client_obuf_limits[getClientLimitClass(p)].soft) THEN "below"
  ELSE IF p.soft_limit = "below" THEN "above" ELSE p.soft_limit

asyncCloseClientOnOutputBufferLimitReached(s, c) ==
  LET p == s.c[c]
      checked == [s EXCEPT !.c[c].soft_limit = SoftLimit(p)]
  IN IF p.reply_bytes = 0 \/ p.CLOSE_ASAP THEN s
     ELSE IF ~checkClientOutputBufferLimits(p) THEN checked
     ELSE [checked EXCEPT !.c[c].CLOSE_ASAP = TRUE, !.clients_to_close = Append(@, c)]

(* A piece goes behind the last node if that is not NULL, nor too long. *)
_addReplyObjectToList(p, piece) ==
  LET n == Len(p.reply)
      glued == n > 0 /\ ~p.reply[n].null /\ Len(p.reply[n].s) + 1 <= REDIS_REPLY_CHUNK_BYTES
  IN [p EXCEPT !.reply = IF glued THEN [@ EXCEPT ![n].s = Append(@, piece)] ELSE Append(@, Node(<<piece>>)),
               !.reply_bytes = @ + 1]

_addReplyToBuffer(p, piece) == [p EXCEPT !.buf = Append(@, piece)]
FitsBuffer(p) == p.reply = <<>> /\ Len(p.buf) < BufferSize

addReply(s, c, piece) ==
  LET p == prepareClientToWrite(s.c[c])
  IN IF p.CLOSE_AFTER_REPLY THEN [s EXCEPT !.c[c] = p]
     ELSE IF FitsBuffer(p) THEN [s EXCEPT !.c[c] = _addReplyToBuffer(p, piece)]
     ELSE asyncCloseClientOnOutputBufferLimitReached([s EXCEPT !.c[c] = _addReplyObjectToList(p, piece)], c)

addReplies(s, c, pieces) == FoldLeft(LAMBDA x, piece : addReply(x, c, piece), s, pieces)

addDeferredMultiBulkLength(s, c) ==
  LET p == prepareClientToWrite(s.c[c]) IN [s EXCEPT !.c[c] = [p EXCEPT !.reply = Append(@, NullNode)]]

(* The length is glued to the next node, if there is one. *)
setDeferredMultiBulkLength(s, c, piece) ==
  LET reply == s.c[c].reply
      i == SelectInSeq(reply, LAMBDA n : n.null)
      next == IF i < Len(reply) THEN reply[i + 1].s ELSE <<>>
      t == [s EXCEPT !.c[c].reply = SubSeq(reply, 1, i - 1) \o <<Node(<<piece>> \o next)>>
                                    \o SubSeq(reply, i + 2, Len(reply)),
                     !.c[c].reply_bytes = @ + 1]
  IN asyncCloseClientOnOutputBufferLimitReached(t, c)

(* One piece is written. *)
SendPiece(p) ==
  LET q == [p EXCEPT !.sentlen = @ + 1]
      node == IF p.buf # <<>> THEN p.buf ELSE p.reply[1].s
  IN IF q.sentlen < Len(node) THEN q
     ELSE IF p.buf # <<>> THEN [q EXCEPT !.buf = <<>>, !.sentlen = 0]
     ELSE [q EXCEPT !.reply = Tail(@), !.sentlen = 0, !.reply_bytes = @ - Len(node)]

Pending(p) ==
  LET all == p.buf \o FoldLeft(LAMBDA s, n : s \o n.s, <<>>, p.reply) IN SubSeq(all, p.sentlen + 1, Len(all))

-----------------------------------------------------------------------------
(* Subscriptions.  The number of them is part of the replies.              *)

pubsubSubscribeChannel(s, c, ch) ==
  LET t == IF ch \in s.c[c].pubsub_channels THEN s
           ELSE [s EXCEPT !.c[c].pubsub_channels = @ \cup {ch}, !.pubsub_channels[ch] = Append(@, c)]
  IN addReply(t, c, Ack)

Unsubscribed(s, c, ch) ==
  IF ch \notin s.c[c].pubsub_channels THEN s
  ELSE [s EXCEPT !.c[c].pubsub_channels = @ \ {ch}, !.pubsub_channels[ch] = RemoveFirst(@, c)]
pubsubUnsubscribeChannel(s, c, ch) == addReply(Unsubscribed(s, c, ch), c, Ack)

pubsubSubscribePattern(s, c, pat) ==
  LET t == IF Contains(s.c[c].pubsub_patterns, pat) THEN s
           ELSE [s EXCEPT !.c[c].pubsub_patterns = Append(@, pat), !.pubsub_patterns = Append(@, <<c, pat>>)]
  IN addReply(t, c, Ack)

Punsubscribed(s, c, pat) ==
  IF ~Contains(s.c[c].pubsub_patterns, pat) THEN s
  ELSE [s EXCEPT !.c[c].pubsub_patterns = RemoveFirst(@, pat), !.pubsub_patterns = RemoveFirst(@, <<c, pat>>)]
pubsubUnsubscribePattern(s, c, pat) == addReply(Punsubscribed(s, c, pat), c, Ack)

Message(m) == << <<"message", m>> >>
Pmessage(pat, m) == << <<"pmessage", pat>>, <<"payload", m>> >>

pubsubPublishMessage(s, ch, m) ==
  LET t == FoldLeft(LAMBDA x, c : addReplies(x, c, Message(m)), s, s.pubsub_channels[ch])
      matching == SelectSeq(s.pubsub_patterns, LAMBDA e : <<e[2], ch>> \in Matches)
  IN FoldLeft(LAMBDA x, e : addReplies(x, e[1], Pmessage(e[2], m)), t, matching)

UnsubscribedFromAll(s, c) ==
  LET t == FoldLeft(LAMBDA x, ch : Unsubscribed(x, c, ch), s, SetToSeq(s.c[c].pubsub_channels))
  IN FoldLeft(LAMBDA x, pat : Punsubscribed(x, c, pat), t, s.c[c].pubsub_patterns)

(* A freed client is taken from every list. *)
Freed(s, c) ==
  LET t == UnsubscribedFromAll(s, c)
  IN [t EXCEPT !.clients = @ \ {c}, !.c[c] = Fresh,
               !.clients_to_close = IF s.c[c].CLOSE_ASAP THEN RemoveFirst(@, c) ELSE @]

-----------------------------------------------------------------------------
(* Commands and events.                                                    *)

(* What a client is to get after this, unless its connection ends. *)
Owing(s, c, pieces) == IF s.c[c].CLOSE_AFTER_REPLY THEN s ELSE [s EXCEPT !.c[c].due = @ \o pieces]

Quiet == MapThenSumSet(LAMBDA c : Len(out.c[c].due), Clients) <= MaxDue
MayCommand(c) == c \in out.clients /\ ~out.c[c].CLOSE_AFTER_REPLY /\ Quiet

subscribeCommand ==
  \E c \in Clients, ch \in Channels :
    MayCommand(c) /\ out' = pubsubSubscribeChannel(Owing(out, c, << Ack >>), c, ch)

unsubscribeCommand ==
  \E c \in Clients, ch \in Channels :
    MayCommand(c) /\ out' = pubsubUnsubscribeChannel(Owing(out, c, << Ack >>), c, ch)

psubscribeCommand ==
  \E c \in Clients, pat \in Patterns :
    MayCommand(c) /\ out' = pubsubSubscribePattern(Owing(out, c, << Ack >>), c, pat)

punsubscribeCommand ==
  \E c \in Clients, pat \in Patterns :
    MayCommand(c) /\ out' = pubsubUnsubscribePattern(Owing(out, c, << Ack >>), c, pat)

(* UNSUBSCRIBE and PUNSUBSCRIBE of all, with a reply for each. *)
UnsubscribeAll ==
  \E c \in Clients :
    LET chs == SetToSeq(out.c[c].pubsub_channels)
        s == Owing(out, c, [i \in DOMAIN chs |-> Ack])
    IN MayCommand(c) /\ chs # <<>> /\ out' = FoldLeft(LAMBDA x, ch : pubsubUnsubscribeChannel(x, c, ch), s, chs)

PunsubscribeAll ==
  \E c \in Clients :
    LET pats == out.c[c].pubsub_patterns
        s == Owing(out, c, [i \in DOMAIN pats |-> Ack])
    IN MayCommand(c) /\ pats # <<>> /\ out' = FoldLeft(LAMBDA x, pat : pubsubUnsubscribePattern(x, c, pat), s, pats)

(* The messages a client's own subscriptions promise it. *)
Promised(p, ch, m) ==
  FoldLeft(LAMBDA s, pat : IF <<pat, ch>> \in Matches THEN s \o Pmessage(pat, m) ELSE s,
           IF ch \in p.pubsub_channels THEN Message(m) ELSE <<>>, p.pubsub_patterns)

(* PUBLISH of some other client. *)
publishCommand ==
  \E ch \in Channels, m \in Messages :
    /\ Quiet
    /\ LET s == FoldLeft(LAMBDA x, c : Owing(x, c, Promised(out.c[c], ch, m)), out, SetToSeq(out.clients))
       IN out' = pubsubPublishMessage(s, ch, m)

(* A command with n elements in its reply whose number is known behind     *)
(* them, like KEYS, which subscribers may not call.                        *)
keysCommand ==
  \E c \in Clients, n \in 0 .. 2 :
    LET elements == [i \in 1 .. n |-> <<"element", i>>]
        s == Owing(out, c, << <<"length", n>> >> \o elements)
    IN /\ MayCommand(c) /\ getClientLimitClass(out.c[c]) = "normal"
       /\ out' = setDeferredMultiBulkLength(addReplies(addDeferredMultiBulkLength(s, c), c, elements), c, <<"length", n>>)

(* QUIT *)
Quit == \E c \in Clients :
          /\ MayCommand(c)
          /\ LET s == addReply(Owing(out, c, << Ack >>), c, Ack)
             IN out' = [s EXCEPT !.c[c].CLOSE_AFTER_REPLY = TRUE]

(* The socket takes n pieces, up to the end or until it is full. *)
sendReplyToClient ==
  \E c \in out.clients : \E n \in 1 .. Len(Pending(out.c[c])) :
    LET p == FoldLeft(LAMBDA q, i : SendPiece(q), out.c[c], [i \in 1 .. n |-> i])
        sent == [p EXCEPT !.due = SubSeq(@, n + 1, Len(@))]
        done == p.buf = <<>> /\ p.reply = <<>>
    IN /\ out.c[c].WRITABLE
       /\ out' = IF done /\ p.CLOSE_AFTER_REPLY THEN Freed([out EXCEPT !.c[c] = sent], c)
                 ELSE [out EXCEPT !.c[c] = [sent EXCEPT !.WRITABLE = ~done]]

(* A read or write error, the end of input, a timeout, CLIENT KILL. *)
freeClient == \E c \in out.clients : out' = Freed(out, c)

freeClientsInAsyncFreeQueue ==
  /\ out.clients_to_close # <<>>
  /\ out' = [FoldLeft(LAMBDA x, c : Freed([x EXCEPT !.c[c].CLOSE_ASAP = FALSE], c), out, out.clients_to_close)
             EXCEPT !.clients_to_close = <<>>]

(* A client has been above its soft limit for the time allowed. *)
TimePasses == \E c \in out.clients : out.c[c].soft_limit = "above" /\ out' = [out EXCEPT !.c[c].soft_limit = "long"]

createClient == \E c \in Clients \ out.clients : out' = [out EXCEPT !.clients = @ \cup {c}]

Next == \/ subscribeCommand \/ unsubscribeCommand \/ psubscribeCommand \/ punsubscribeCommand \/ UnsubscribeAll
        \/ PunsubscribeAll \/ publishCommand \/ keysCommand \/ Quit \/ sendReplyToClient \/ freeClient
        \/ freeClientsInAsyncFreeQueue \/ TimePasses \/ createClient

-----------------------------------------------------------------------------

(* What the server knows of its subscribers is what the clients have       *)
(* subscribed to, and no freed client is in any list; the memory that is   *)
(* charged to a client is what its list holds; there is a handler for the  *)
(* socket exactly if there is output, so that none waits for ever, and the *)
(* end of a client that has quit comes.                                    *)
SubscribersAgree ==
  /\ \A ch \in Channels : /\ IsInjective(out.pubsub_channels[ch])
                          /\ ToSet(out.pubsub_channels[ch]) = { c \in out.clients : ch \in out.c[c].pubsub_channels }
  /\ \A c \in Clients : LET own == SelectSeq(out.pubsub_patterns, LAMBDA e : e[1] = c)
                        IN [i \in DOMAIN own |-> own[i][2]] = out.c[c].pubsub_patterns
  /\ IsInjective(out.clients_to_close)
  /\ ToSet(out.clients_to_close) = { c \in out.clients : out.c[c].CLOSE_ASAP }
  /\ \A c \in Clients : LET p == out.c[c]
                        IN /\ p.reply_bytes = FoldLeft(LAMBDA n, node : n + Len(node.s), 0, p.reply)
                           /\ p.WRITABLE = (Pending(p) # <<>>)
                           /\ p.CLOSE_AFTER_REPLY => p.WRITABLE
                           /\ c \notin out.clients => p = Fresh

(* A client gets the replies to its commands and exactly the messages of   *)
(* its subscriptions at the time they were published, whole and in order,  *)
(* however the output is spread over the buffer and the list, and however  *)
(* the writes cut it.                                                      *)
RepliesAreInOrder == \A c \in out.clients : Pending(out.c[c]) = out.c[c].due
=============================================================================
