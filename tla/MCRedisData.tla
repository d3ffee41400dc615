----------------------------- MODULE MCRedisData ----------------------------
(***************************************************************************)
(* The five value types and the structures they are made of on small       *)
(* instances, one of them in each behavior: no command works on values of  *)
(* two types but ZUNIONSTORE, whose sets are part of RedisZset.            *)
(***************************************************************************)
EXTENDS Integers, Sequences

CONSTANTS text, word, long   \* strings, the last one too long for a ziplist

VARIABLES
  kind,   \* what this behavior is about
  data    \* the database, or the structure

vars == <<kind, data>>

Keys == {"a", "b"}

REDIS_AOF_REWRITE_ITEMS_PER_CMD == 2

Set == INSTANCE RedisSet WITH
  db <- data, Numbers <- {1, 2, 3}, Words <- {text}, set_max_intset_entries <- 2

Hash == INSTANCE RedisHash WITH
  db <- data, Keys <- {"a"}, Fields <- {1, text, long}, Integers64 <- -2 .. 1, Strings <- {text, long},
  Long <- {long}, Increments <- {-1, 1}, hash_max_ziplist_entries <- 2

List == INSTANCE RedisList WITH
  db <- data, Elements <- {text, word, long}, Long <- {long}, Indexes <- -3 .. 3, MaxTotal <- 4,
  list_max_ziplist_entries <- 2

Zset == INSTANCE RedisZset WITH
  db <- data, Elements <- {1, 2, 9}, Long <- {9}, Scores <- {1, 1000}, Increments <- {1, -1000},
  Bounds <- {1, 1000}, Indexes <- {-2, 0, 1}, MaxTotal <- 3, zset_max_ziplist_entries <- 2

(* The bytes 8, 9, ... are the digits 0, 1, ..., and 5 is the minus sign. *)
String == INSTANCE RedisString WITH
  db <- data, Texts <- {<<>>, <<8, 9>>, <<5, 11>>}, LLONG_MAX <- 7, Increments <- {1, -7},
  Indexes <- {-2, -1, 0, 1}, MaxTotal <- 2, MaxString <- 3, BitopWords <- 2, IntegerBits <- {2, 3}

Ints == INSTANCE Intset WITH is <- data, Unit <- 4, Numbers <- {1, 0, -2, -8, 7, 100}, MaxLength <- 4

Skip == INSTANCE Skiplist WITH
  zsl <- data, Objects <- 1 .. 3, Scores <- {1, 2}, ZSKIPLIST_MAXLEVEL <- 3

(* Entries of 2, 4 and 8 bytes, where 8 need a large prevlen. *)
Zip == INSTANCE Ziplist WITH
  zl <- data, Payloads <- [name : {text}, lensize : {1}, len : {0, 2, 6}], Garbled <- "garbled",
  ZIP_BIGLEN <- 8, LargeSize <- 5, LENGTH_MAX <- 3, MaxEntries <- 5

Init == \/ kind = "set" /\ Set!Init
        \/ kind = "hash" /\ Hash!Init
        \/ kind = "list" /\ List!Init
        \/ kind = "zset" /\ Zset!Init
        \/ kind = "string" /\ String!Init
        \/ kind = "intset" /\ Ints!Init
        \/ kind = "skiplist" /\ Skip!Init
        \/ kind = "ziplist" /\ Zip!Init

Next == \/ kind = "set" /\ Set!Next /\ UNCHANGED kind
        \/ kind = "hash" /\ Hash!Next /\ UNCHANGED kind
        \/ kind = "list" /\ List!Next /\ UNCHANGED kind
        \/ kind = "zset" /\ Zset!Next /\ UNCHANGED kind
        \/ kind = "string" /\ String!Next /\ UNCHANGED kind
        \/ kind = "intset" /\ Ints!Next /\ UNCHANGED kind
        \/ kind = "skiplist" /\ Skip!Next /\ UNCHANGED kind
        \/ kind = "ziplist" /\ Zip!Next /\ UNCHANGED kind

Spec == Init /\ [][Next]_vars

(* Every command of every type, in every encoding, changes the values and  *)
(* replies as it promises, in terms of sets, functions and sequences.      *)
CommandsAgree ==
  /\ kind = "set" => Set!CommandsAgree
  /\ kind = "hash" => Hash!CommandsAgree
  /\ kind = "list" => List!CommandsAgree
  /\ kind = "zset" => Zset!CommandsAgree
  /\ kind = "string" => String!CommandsAgree

(* No command changes a key without calling signalModifiedKey and counting *)
(* the change in server.dirty, or those who watch the key, and the slaves, *)
(* would not hear of it (but for the destination RPOPLPUSH creates).       *)
ChangesAreSignalled ==
  /\ kind = "set" => Set!ChangesAreSignalled
  /\ kind = "hash" => Hash!ChangesAreSignalled
  /\ kind = "list" => List!ChangesAreSignalled
  /\ kind = "zset" => Zset!ChangesAreSignalled
  /\ kind = "string" => String!ChangesAreSignalled

(* What is propagated for a command, which is another one where it chooses *)
(* at random, computes with floats or pops and pushes, makes the same      *)
(* change on a slave; and the dump file that a slave is sent, and the      *)
(* rewritten append-only file, make the same values, in an encoding that   *)
(* is sound under whatever limits the server that loads them has.          *)
SlavesAgree ==
  /\ kind = "set" => Set!SlavesAgree /\ Set!FilesAgree
  /\ kind = "hash" => Hash!SlavesAgree /\ Hash!FilesAgree
  /\ kind = "list" => List!SlavesAgree /\ List!FilesAgree
  /\ kind = "zset" => Zset!SlavesAgree /\ Zset!FilesAgree
  /\ kind = "string" => String!SlavesAgree /\ String!FilesAgree

(* The structure behind a value is what its functions rely on: sorted,     *)
(* without duplicates, within the limits of its encoding, never empty; an  *)
(* intset and a skip list keep their pointers, spans, lengths and          *)
(* encodings right through every growth and every deletion, and a ziplist  *)
(* its prevlens, tail and size until an insertion cuts off part of the     *)
(* header of the last entry (ziplist.c:589), as the code does.             *)
EncodingsAreSound ==
  /\ kind = "set" => Set!EncodingsAreSound
  /\ kind = "hash" => Hash!EncodingsAreSound
  /\ kind = "list" => List!EncodingsAreSound
  /\ kind = "zset" => Zset!EncodingsAreSound
  /\ kind = "string" => String!EncodingsAreSound
  /\ kind = "intset" => Ints!StructureIsSound
  /\ kind = "skiplist" => Skip!StructureIsSound
  /\ kind = "ziplist" => Zip!StructureIsSound

(* An intset behaves as the set, and a skip list as the sorted sequence,   *)
(* that the value types take them for.                                     *)
FunctionsAgree ==
  /\ kind = "intset" => Ints!FunctionsAgree
  /\ kind = "skiplist" => Skip!FunctionsAgree
=============================================================================
