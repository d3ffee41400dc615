---------------------------- MODULE RedisBlocking ---------------------------
(***************************************************************************)
(* Blocking list commands (redis/src/t_list.c, and parts of networking.c   *)
(* and redis.c): clients that wait for an element, the hand-over of what   *)
(* others push, also along a chain of BRPOPLPUSH, timeouts, the end of     *)
(* connections, and the input that clients have sent while they waited.    *)
(* The others' commands come from any number of further clients.           *)
(***************************************************************************)
EXTENDS Naturals, Sequences, SequencesExt, FiniteSetsExt

CONSTANTS
  Clients,     \* those that block
  Keys,
  Requests,    \* what they send: [keys, target, timeout], with None for BLPOP's target
  None,
  MaxElements, \* bound on the elements in lists
  MaxInput     \* bound on the requests sent ahead

VARIABLE srv   \* struct redisServer

(* A missing key is an empty list, and this one a value of another type. *)
Other == <<0>>
IsList(v) == v # <<>> /\ v # Other

NotBlocked == [keys |-> <<>>, target |-> None, timeout |-> FALSE]

Empty == [k \in Keys |-> <<>>]

(* live: the elements that have been pushed and neither popped nor         *)
(* deleted; renamed: keys that have got a list by RENAME; again: clients   *)
(* that have blocked again while they are on the list of unblocked ones.   *)
Started ==
  [dict |-> Empty, blocking_keys |-> Empty, bpop |-> [c \in Clients |-> NotBlocked],
   BLOCKED |-> {}, UNBLOCKED |-> {}, unblocked_clients |-> <<>>, bpop_blocked_clients |-> 0,
   clients |-> Clients, querybuf |-> [c \in Clients |-> <<>>], read |-> {}, at |-> "events",
   slave |-> Empty, live |-> {}, renamed |-> {}, again |-> {}]

Init == srv = Started

Elements(v) == IF v = Other THEN {} ELSE ToSet(v)
Unused == { e \in 1 .. MaxElements : \A k \in Keys : e \notin Elements(srv.dict[k]) }
Fresh(n) == CHOOSE s \in [1 .. n -> Unused] : IsInjective(s)

-----------------------------------------------------------------------------
(* What a slave makes of the commands it is sent.                          *)

Lpush(k, elements) == [cmd |-> "lpush", key |-> k, elements |-> elements]
Pop(cmd, k) == [cmd |-> cmd, key |-> k, elements |-> <<>>]
Del(k) == [cmd |-> "del", key |-> k, elements |-> <<>>]

Replayed(dict, op) ==
  [dict EXCEPT ![op.key] = CASE op.cmd = "lpush" -> Reverse(op.elements) \o @
                             [] op.cmd = "lpop" -> SubSeq(@, 2, Len(@))
                             [] op.cmd = "rpop" -> Front(@)
                             [] op.cmd = "del" -> <<>>]

propagate(s, ops) == [s EXCEPT !.slave = FoldLeft(Replayed, @, ops)]

-----------------------------------------------------------------------------

blockForKeys(s, c, req) ==
  [s EXCEPT !.bpop[c] = req,
            !.blocking_keys = FoldLeft(LAMBDA b, k : [b EXCEPT ![k] = Append(@, c)], @, req.keys),
            !.BLOCKED = @ \cup {c}, !.bpop_blocked_clients = @ + 1, !.again = @ \cup ({c} \cap s.UNBLOCKED)]

(* Mutant: the client stays in the lists of its other keys. *)
unblockClientWaitingData_first_key(s, c) ==
  [s EXCEPT !.blocking_keys[s.bpop[c].keys[1]] = RemoveFirst(@, c),
            !.bpop[c] = NotBlocked, !.BLOCKED = @ \ {c}, !.UNBLOCKED = @ \cup {c},
            !.bpop_blocked_clients = @ - 1, !.unblocked_clients = Append(@, c)]

unblockClientWaitingData(s, c) ==
  [s EXCEPT !.blocking_keys = FoldLeft(LAMBDA b, k : [b EXCEPT ![k] = RemoveFirst(@, c)], @, s.bpop[c].keys),
            !.bpop[c] = NotBlocked, !.BLOCKED = @ \ {c}, !.UNBLOCKED = @ \cup {c},
            !.bpop_blocked_clients = @ - 1, !.unblocked_clients = Append(@, c)]

(* handleClientsWaitingListPush and rpoplpushHandlePush call each other:   *)
(* the element goes from client to client until one of them keeps it or    *)
(* has to push it to its target.  One step of this; first: is this the key *)
(* of the command?                                                         *)
HandOver(x, ele) ==
  LET s == x.s
      receiver == Head(s.blocking_keys[x.key])
      dstkey == s.bpop[receiver].target
      t == unblockClientWaitingData(s, receiver)
  IN IF x.to # "nobody" THEN x
     ELSE IF s.blocking_keys[x.key] = <<>> THEN
       IF x.first THEN [x EXCEPT !.to = "list"]
       ELSE [x EXCEPT !.to = "target", !.s.dict[x.key] = <<ele>> \o @,
                      !.also = Append(@, Lpush(x.key, <<ele>>))]
     ELSE IF dstkey = None THEN [x EXCEPT !.s = [t EXCEPT !.live = @ \ {ele}], !.to = "client"]
     ELSE IF s.dict[dstkey] = Other THEN [x EXCEPT !.s = t]
     ELSE [x EXCEPT !.s = t, !.key = dstkey, !.first = FALSE]

handleClientsWaitingListPush(s, key, ele, also) ==
  FoldLeft(LAMBDA x, i : HandOver(x, ele),
           [s |-> s, key |-> key, first |-> TRUE, to |-> "nobody", also |-> also],
           [i \in 1 .. Cardinality(Clients) + 1 |-> i])

(* Mutant: the list that has been created is not remembered. *)
PushElement_forgets_lobj(x, key, ele) ==
  LET h == handleClientsWaitingListPush(x.s, key, ele, x.also)
      handled == x.may_wait /\ h.to # "list"
      s == IF x.may_wait THEN h.s ELSE x.s
  IN IF x.aborted THEN x
     ELSE IF handled THEN [x EXCEPT !.s = s, !.also = h.also]
     ELSE IF ~x.lobj /\ s.dict[key] # <<>> THEN [x EXCEPT !.aborted = TRUE]
     ELSE [x EXCEPT !.s = [s EXCEPT !.dict[key] = <<ele>> \o @], !.may_wait = FALSE,
                    !.pushed = Append(@, ele)]

(* lobj was looked up before the first element was handed over. *)
PushElement(x, key, ele) ==
  LET h == handleClientsWaitingListPush(x.s, key, ele, x.also)
      handled == x.may_wait /\ h.to # "list"
      s == IF x.may_wait THEN h.s ELSE x.s
  IN IF x.aborted THEN x
     ELSE IF handled THEN [x EXCEPT !.s = s, !.also = h.also]
     ELSE IF ~x.lobj /\ s.dict[key] # <<>> THEN [x EXCEPT !.aborted = TRUE]
     ELSE [x EXCEPT !.s = [s EXCEPT !.dict[key] = <<ele>> \o @], !.may_wait = FALSE, !.lobj = TRUE,
                    !.pushed = Append(@, ele)]

Aborted(s) == [s EXCEPT !.at = "aborted"]

(* Mutant: what has been handed over is propagated, too. *)
pushGenericCommand_propagates_all(s, key, elements) ==
  LET lobj == s.dict[key] # <<>>
      start == [s |-> [s EXCEPT !.live = @ \cup ToSet(elements)], also |-> <<>>, lobj |-> lobj,
                may_wait |-> ~lobj, pushed |-> <<>>, aborted |-> FALSE]
      end == FoldLeft(LAMBDA x, e : PushElement(x, key, e), start, elements)
      ops == (IF end.pushed = <<>> THEN <<>> ELSE <<Lpush(key, elements)>>) \o end.also
  IN IF s.dict[key] = Other THEN s
     ELSE IF end.aborted THEN Aborted(s)
     ELSE propagate(end.s, ops)

pushGenericCommand(s, key, elements) ==
  LET lobj == s.dict[key] # <<>>
      start == [s |-> [s EXCEPT !.live = @ \cup ToSet(elements)], also |-> <<>>, lobj |-> lobj,
                may_wait |-> ~lobj, pushed |-> <<>>, aborted |-> FALSE]
      end == FoldLeft(LAMBDA x, e : PushElement(x, key, e), start, elements)
      ops == (IF end.pushed = <<>> THEN <<>> ELSE <<Lpush(key, end.pushed)>>) \o end.also
  IN IF s.dict[key] = Other THEN s
     ELSE IF end.aborted THEN Aborted(s)
     ELSE propagate(end.s, ops)

(* The key of a list that has become empty is deleted behind the push. *)
rpoplpushCommand(s, src, dst) ==
  LET value == Last(s.dict[src])
      popped == [s EXCEPT !.dict[src] = Front(@)]
      h == handleClientsWaitingListPush(popped, dst, value, <<>>)
      end == IF h.to # "list" THEN h
             ELSE [h EXCEPT !.s.dict[dst] = <<value>> \o @, !.also = <<Lpush(dst, <<value>>)>>]
  IN IF ~IsList(s.dict[src]) \/ s.dict[dst] = Other THEN s
     ELSE propagate(end.s, <<Pop("rpop", src)>> \o end.also)

(* BLPOP, outside of MULTI: the first of the keys that has a list. *)
blockingPopGenericCommand(s, c, req) ==
  LET found == { i \in DOMAIN req.keys : s.dict[req.keys[i]] # <<>> }
      key == req.keys[Min(found)]
  IN IF found = {} THEN blockForKeys(s, c, req)
     ELSE IF s.dict[key] = Other THEN s
     ELSE propagate([s EXCEPT !.dict[key] = Tail(@), !.live = @ \ {Head(s.dict[key])}], <<Pop("lpop", key)>>)

brpoplpushCommand(s, c, req) ==
  LET src == req.keys[1]
  IN IF s.dict[src] = <<>> THEN blockForKeys(s, c, req)
     ELSE IF s.dict[src] = Other THEN s
     ELSE rpoplpushCommand(s, src, req.target)

-----------------------------------------------------------------------------
(* The event loop.                                                         *)

(* As many of the client's requests as it can, until it is blocked. *)
processInputBuffer(s, c) ==
  LET Process(t, i) ==
        LET req == Head(t.querybuf[c])
            u == [t EXCEPT !.querybuf[c] = Tail(@)]
        IN IF t.querybuf[c] = <<>> \/ c \in t.BLOCKED THEN t
           ELSE IF req.target = None THEN blockingPopGenericCommand(u, c, req)
           ELSE brpoplpushCommand(u, c, req)
  IN FoldLeft(Process, s, [i \in 1 .. MaxInput + 1 |-> i])

(* One event of a socket in each poll. *)
readQueryFromClient ==
  /\ srv.at = "events"
  /\ \E c \in srv.clients \ srv.read, req \in Requests :
       /\ Len(srv.querybuf[c]) < MaxInput
       /\ srv' = processInputBuffer([srv EXCEPT !.querybuf[c] = Append(@, req), !.read = @ \cup {c}], c)

Without(s, k) == [s EXCEPT !.dict[k] = <<>>, !.live = @ \ Elements(s.dict[k]), !.renamed = @ \ {k}]

(* Commands of other clients. *)
Push == \E k \in Keys, n \in 1 .. 2 :
          /\ srv.at = "events" /\ Cardinality(Unused) >= n
          /\ srv' = pushGenericCommand(srv, k, Fresh(n))

Rpoplpush == \E src, dst \in Keys :
               /\ srv.at = "events" /\ IsList(srv.dict[src])
               /\ srv' = rpoplpushCommand(srv, src, dst)

delCommand == \E k \in Keys :
                /\ srv.at = "events" /\ srv.dict[k] # <<>>
                /\ srv' = propagate(Without(srv, k), <<Del(k)>>)

(* SET: a value of another type. *)
setCommand == \E k \in Keys :
                /\ srv.at = "events" /\ srv.dict[k] # Other
                /\ srv' = [Without(srv, k) EXCEPT !.dict[k] = Other, !.slave[k] = Other]

renameCommand ==
  \E k, to \in Keys :
    /\ srv.at = "events" /\ k # to /\ srv.dict[k] # <<>>
    /\ LET s == Without(srv, to)
       IN srv' = [s EXCEPT !.dict = [@ EXCEPT ![to] = s.dict[k], ![k] = <<>>],
                           !.slave = [@ EXCEPT ![to] = s.slave[k], ![k] = <<>>],
                           !.renamed = (@ \ {k}) \cup {to}]

(* clientsCronHandleTimeout *)
clientsCronHandleTimeout ==
  \E c \in srv.BLOCKED :
    /\ srv.at = "events" /\ srv.bpop[c].timeout
    /\ srv' = unblockClientWaitingData(srv, c)

(* A read or write error, CLIENT KILL, or a limit. *)
freeClient ==
  \E c \in srv.clients :
    LET s == [srv EXCEPT !.querybuf[c] = <<>>]
        t == IF c \in s.BLOCKED THEN unblockClientWaitingData(s, c) ELSE s
    IN /\ srv.at = "events"
       /\ srv' = [t EXCEPT !.clients = @ \ {c}, !.UNBLOCKED = @ \ {c}, !.read = @ \ {c},
                           !.unblocked_clients = IF c \in t.UNBLOCKED THEN RemoveFirst(@, c) ELSE @]

createClient ==
  \E c \in Clients \ srv.clients :
    /\ srv.at = "events" /\ ~Contains(srv.unblocked_clients, c)
    /\ srv' = [srv EXCEPT !.clients = @ \cup {c}]

(* The end of this round of events. *)
EndEvents == srv.at = "events" /\ srv' = [srv EXCEPT !.at = "before_sleep"]

(* One client in each step; a freed one makes the server fail. *)
beforeSleep ==
  /\ srv.at = "before_sleep" /\ srv.unblocked_clients # <<>>
  /\ LET c == Head(srv.unblocked_clients)
         s == [srv EXCEPT !.unblocked_clients = Tail(@), !.UNBLOCKED = @ \ {c}]
     IN srv' = IF c \in srv.clients THEN processInputBuffer(s, c) ELSE Aborted(srv)

Poll == /\ srv.at = "before_sleep" /\ srv.unblocked_clients = <<>>
        /\ srv' = [srv EXCEPT !.at = "events", !.read = {}, !.again = {}]

(* The process is started again, without the data. *)
Restart == srv.at = "aborted" /\ srv' = Started

Next == \/ readQueryFromClient \/ Push \/ Rpoplpush \/ delCommand \/ setCommand \/ renameCommand
        \/ clientsCronHandleTimeout \/ freeClient \/ createClient \/ EndEvents \/ beforeSleep \/ Poll \/ Restart

-----------------------------------------------------------------------------

Count(s, e) == Cardinality({ i \in DOMAIN s : s[i] = e })

(* The clients that are blocked, the keys they wait for, and the lists of  *)
(* the keys agree, as does the count that INFO gives; who has been         *)
(* unblocked is on that list, and a freed client on none, unless it had    *)
(* blocked again before beforeSleep came to it: then it is on the list     *)
(* twice and freeClient removes one.                                       *)
BlockingListsAgree ==
  /\ \A c \in Clients : \A k \in Keys : Count(srv.blocking_keys[k], c) = Count(srv.bpop[c].keys, k)
  /\ srv.BLOCKED = { c \in Clients : srv.bpop[c] # NotBlocked }
  /\ srv.BLOCKED \subseteq srv.clients
  /\ srv.bpop_blocked_clients = Cardinality(srv.BLOCKED)
  /\ srv.UNBLOCKED \subseteq ToSet(srv.unblocked_clients)
  /\ ToSet(srv.unblocked_clients) \subseteq srv.clients \cup srv.again

(* Every element that has been pushed and not been popped is in exactly    *)
(* one list, once, whatever chain of clients it went through.              *)
NoElementIsLost ==
  LET places == { p \in Keys \X (1 .. MaxElements) : srv.dict[p[1]] # Other /\ p[2] \in DOMAIN srv.dict[p[1]] }
  IN { srv.dict[p[1]][p[2]] : p \in places } = srv.live /\ Cardinality(places) = Cardinality(srv.live)

(* A slave, which has no blocked clients and sees only what is propagated  *)
(* for what was not handed over, has the same lists.                       *)
SlaveListsAgree == srv.slave = srv.dict

(* A client waits only for keys without a list, unless the list got there  *)
(* by RENAME.                                                              *)
WaitersHaveNoList ==
  \A c \in srv.BLOCKED : \A k \in ToSet(srv.bpop[c].keys) : IsList(srv.dict[k]) => k \in srv.renamed

Serves(k, to) == \E c \in srv.BLOCKED : Contains(srv.bpop[c].keys, k) /\ srv.bpop[c].target = to

(* An element that is pushed to a key goes round if the key is in every    *)
(* set of keys that has, with each of them, those that it serves.          *)
Loop == \E k \in Keys : \A T \in SUBSET Keys :
          (\A j \in T \cup {k}, to \in Keys : Serves(j, to) => to \in T) => k \in T

(* The server aborts on a push only if the clients that wait pass an       *)
(* element from a key back to it, which the command has looked up before;  *)
(* and otherwise only on a freed client that had blocked again.            *)
AbortsNeedLoopStep ==
  srv.at # srv'.at /\ srv'.at = "aborted" =>
    IF srv.at = "events" THEN Loop ELSE Head(srv.unblocked_clients) \in srv.again \ srv.clients
=============================================================================
