---------------------------- MODULE MCRedisServer ---------------------------
(***************************************************************************)
(* Parts of the server on small instances, one of them in each behavior:   *)
(* the dictionary, blocking lists, the slave's side of replication,        *)
(* publish and subscribe with the output of clients, and their input.      *)
(***************************************************************************)
EXTENDS Integers, Sequences

CONSTANTS alpha, beta, None

VARIABLES
  kind,   \* what this behavior is about
  data,   \* its state
  dict_can_resize, iter, bound   \* the rest of Dict's

rest == <<dict_can_resize, iter, bound>>
vars == <<kind, data, rest>>

(* Tables of two buckets have two keys in one of them. *)
Dictionary == INSTANCE Dict WITH
  d <- data, Keys <- {0, 1, 2}, DICT_HT_INITIAL_SIZE <- 2, dict_force_resize_ratio <- 1,
  REDIS_HT_MINFILL <- 60

(* BLPOP of two keys, and BRPOPLPUSH in both directions. *)
Blocking == INSTANCE RedisBlocking WITH
  srv <- data, Clients <- {"c1", "c2"}, Keys <- {alpha, beta}, MaxElements <- 2, MaxInput <- 1,
  Requests <- {[keys |-> <<beta, alpha>>, target |-> None, timeout |-> TRUE],
               [keys |-> <<alpha>>, target |-> beta, timeout |-> FALSE],
               [keys |-> <<beta>>, target |-> alpha, timeout |-> FALSE]}

Slave == INSTANCE RedisSlave WITH
  rep <- data, Hosts <- {alpha, beta}, Chunks <- 2, MaxSlaveofs <- 3, MaxFaults <- 1

Pubsub == INSTANCE RedisPubsub WITH
  out <- data, Clients <- {"c1", "c2"}, Channels <- {alpha}, Patterns <- {"p"}, Messages <- {"m"},
  Matches <- {<<"p", alpha>>}, REDIS_REPLY_CHUNK_BYTES <- 2, BufferSize <- 1, MaxDue <- 1,
  client_obuf_limits <- [normal |-> [hard |-> 0, soft |-> 0], pubsub |-> [hard |-> 5, soft |-> 2]]

Multibulk(args) == [type |-> "multibulk", args |-> args]
Raw(bytes) == [type |-> "raw", args |-> <<bytes>>]

(* No arguments, the one that blocks, three of which the last is large and *)
(* looks like the end of a line, a line, QUIT, and no requests.            *)
Protocol == INSTANCE RedisProtocol WITH
  conn <- data, MaxRequests <- 3, REDIS_IOBUF_LEN <- 4, REDIS_MBULK_BIG_ARG <- 3, REDIS_INLINE_MAX_SIZE <- 8,
  Requests <- {Multibulk(<<>>), Multibulk(<< <<"b">> >>), Multibulk(<< <<"x">>, <<"y">>, <<"cr", "lf", "z">> >>),
               [type |-> "inline", args |-> << <<"g">>, <<"k">> >>], Multibulk(<< <<"q">> >>),
               Raw(<<"*", "x", "cr", "lf">>), Raw(<<"*", "1", "cr", "lf", "-", "1", "cr", "lf">>)}

NoRest == dict_can_resize = TRUE /\ iter = Dictionary!NoIter /\ bound = Dictionary!NoBound

Init == \/ kind = "dict" /\ Dictionary!Init
        \/ kind = "blocking" /\ Blocking!Init /\ NoRest
        \/ kind = "slave" /\ Slave!Init /\ NoRest
        \/ kind = "pubsub" /\ Pubsub!Init /\ NoRest
        \/ kind = "protocol" /\ Protocol!Init /\ NoRest

Next == \/ kind = "dict" /\ Dictionary!Next /\ UNCHANGED kind
        \/ kind = "blocking" /\ Blocking!Next /\ UNCHANGED <<kind, rest>>
        \/ kind = "slave" /\ Slave!Next /\ UNCHANGED <<kind, rest>>
        \/ kind = "pubsub" /\ Pubsub!Next /\ UNCHANGED <<kind, rest>>
        \/ kind = "protocol" /\ Protocol!Next /\ UNCHANGED <<kind, rest>>

(* The event loop of a slave goes on: its timer fires, the sockets on      *)
(* which there is something are served, and a process that has ended is    *)
(* started again.                                                          *)
Spec == /\ Init /\ [][Next]_vars
        /\ WF_vars(kind = "slave" /\ Slave!Progress /\ UNCHANGED <<kind, rest>>)

(* What is kept in two places agrees: the tables of a dictionary, their    *)
(* counts and the position of a rehashing; who waits and the lists of      *)
(* those who wait; the subscriptions of clients and the lists of           *)
(* subscribers, the output of clients and the handlers that write it.      *)
StructuresAgree ==
  /\ kind = "dict" => Dictionary!StructureIsSound /\ Dictionary!FunctionsAgree
  /\ kind = "blocking" => Blocking!BlockingListsAgree
  /\ kind = "pubsub" => Pubsub!SubscribersAgree

(* Nothing is lost or comes twice: a key in an iteration, an element that  *)
(* goes from client to client, or stays while one waits for it, a message  *)
(* or a reply in the buffers, a request that comes in pieces.              *)
NothingIsLost ==
  /\ kind = "dict" => Dictionary!IterationIsExact
  /\ kind = "blocking" => Blocking!NoElementIsLost /\ Blocking!WaitersHaveNoList
  /\ kind = "pubsub" => Pubsub!RepliesAreInOrder
  /\ kind = "protocol" => Protocol!RequestsAreExecuted

(* What a slave has is its master's: without blocked clients it makes the  *)
(* same lists of what it is sent; its socket, its data and the commands it *)
(* gets are those of the master that SLAVEOF named last, unless SLAVEOF    *)
(* has come during a connect; and a slave of a slave is not left with the  *)
(* data from before.                                                       *)
CopiesAgree ==
  /\ kind = "blocking" => Blocking!SlaveListsAgree
  /\ kind = "slave" => Slave!SlaveFollowsHost /\ Slave!SubslavesHaveOurData

(* The blocking lists end the server only if clients pass an element       *)
(* around in a loop, or one is freed that had blocked again.               *)
AbortsNeedLoop == [][kind = "blocking" => Blocking!AbortsNeedLoopStep]_vars

(* Whatever fails in the connection to the master, the slave is linked to  *)
(* it in the end.                                                          *)
SlaveReconnects == []<>(kind = "slave" => Slave!Settled)
=============================================================================
