------------------------------- MODULE Intset -------------------------------
(***************************************************************************)
(* The sorted array of integers that small sets are kept in                *)
(* (redis/src/intset.c), down to the memory: a value takes 1, 2 or 4       *)
(* units, as its encoding says, and an upgrade rewrites the array in       *)
(* place.  A unit is scaled down from 16 bits to a digit in base Unit.     *)
(***************************************************************************)
EXTENDS Integers, Sequences, FiniteSets, Functions

CONSTANTS
  Unit,      \* the number of values of a unit of memory
  Numbers,   \* the values that are added and removed
  MaxLength  \* the bound that set_max_intset_entries is

VARIABLE is

Int16 == 1
Int32 == 2
Int64 == 4

(* The largest value plus one of an encoding: Half(enc) - 1 is its INT_MAX. *)
Half(enc) == (Unit ^ enc) \div 2

_intsetValueEncoding(v) ==
  IF v < -Half(Int32) \/ v > Half(Int32) - 1 THEN Int64
  ELSE IF v < -Half(Int16) \/ v > Half(Int16) - 1 THEN Int32
  ELSE Int16

(* The memory is a function from offsets, counted in units, to digits:     *)
(* little endian, in two's complement.                                     *)
_intsetGetEncoded(memory, pos, enc) ==
  LET digit(i) == memory[pos * enc + i] * Unit ^ i
      raw == digit(0) + (IF enc > 1 THEN digit(1) ELSE 0)
                      + (IF enc > 2 THEN digit(2) + digit(3) ELSE 0)
  IN IF raw >= Half(enc) THEN raw - 2 * Half(enc) ELSE raw

_intsetSet(memory, pos, enc, value) ==
  [a \in DOMAIN memory |->
     IF a \div enc = pos THEN ((value % (Unit ^ enc)) \div (Unit ^ (a % enc))) % Unit
     ELSE memory[a]]

intsetNew == [encoding |-> Int16, length |-> 0, contents |-> [a \in {} |-> 0]]

_intsetGet(set, pos) == _intsetGetEncoded(set.contents, pos, set.encoding)

(* New memory is not initialized: it is filled with digits that no value   *)
(* was written to.                                                         *)
intsetResize(set, len) ==
  [set EXCEPT !.contents = [a \in 0 .. len * set.encoding - 1 |->
                             IF a \in DOMAIN set.contents THEN set.contents[a] ELSE 0]]

(* Where the value set, or where it can be inserted. *)
intsetSearch(set, value) ==
  LET last == set.length - 1
      bisect[min \in 0 .. set.length, max \in -1 .. last] ==
        LET mid == (min + max) \div 2
            cur == _intsetGet(set, mid)
        IN IF max < min THEN [found |-> FALSE, pos |-> min]
           ELSE IF value > cur THEN bisect[mid + 1, max]
           ELSE IF value < cur THEN bisect[min, mid - 1]
           ELSE [found |-> TRUE, pos |-> mid]
  IN IF set.length = 0 THEN [found |-> FALSE, pos |-> 0]
     ELSE IF value > _intsetGet(set, last) THEN [found |-> FALSE, pos |-> set.length]
     ELSE IF value < _intsetGet(set, 0) THEN [found |-> FALSE, pos |-> 0]
     ELSE bisect[0, last]

(* The values are rewritten in the wider encoding, back to front, each     *)
(* read from the memory that those behind it have been written to already. *)
(* A place is left free at the beginning or at the end.                    *)
Upgraded(set, prepend, newenc) ==
  LET old == set.encoding
      resized == intsetResize([set EXCEPT !.encoding = newenc], set.length + 1)
      after[n \in 0 .. set.length] ==   \* with the last n values rewritten
        IF n = 0 THEN resized.contents
        ELSE LET i == set.length - n
             IN _intsetSet(after[n - 1], i + prepend, newenc,
                           _intsetGetEncoded(after[n - 1], i, old))
  IN [resized EXCEPT !.contents = after[set.length]]

intsetUpgradeAndAdd(set, value) ==
  LET newenc == _intsetValueEncoding(value)
      prepend == IF value < 0 THEN 1 ELSE 0
      up == Upgraded(set, prepend, newenc)
      pos == IF value < 0 THEN 0 ELSE set.length
  IN [up EXCEPT !.contents = _intsetSet(@, pos, newenc, value), !.length = @ + 1]

intsetMoveTail(set, from, to) ==
  LET shift == (to - from) * set.encoding
      moved == to * set.encoding .. (to + set.length - from) * set.encoding - 1
  IN [set EXCEPT !.contents = [a \in DOMAIN @ |->
        IF a \in moved THEN set.contents[a - shift] ELSE @[a]]]

intsetAdd(set, value) ==
  IF _intsetValueEncoding(value) > set.encoding THEN intsetUpgradeAndAdd(set, value)
  ELSE LET at == intsetSearch(set, value)
           larger == intsetResize(set, set.length + 1)
           open == IF at.pos < set.length THEN intsetMoveTail(larger, at.pos, at.pos + 1)
                   ELSE larger
       IN IF at.found THEN set
          ELSE [open EXCEPT !.contents = _intsetSet(@, at.pos, set.encoding, value),
                            !.length = @ + 1]

intsetFind(set, value) ==
  _intsetValueEncoding(value) <= set.encoding /\ intsetSearch(set, value).found

intsetRemove(set, value) ==
  LET pos == intsetSearch(set, value).pos
      closed == IF pos < set.length - 1 THEN intsetMoveTail(set, pos + 1, pos) ELSE set
  IN IF intsetFind(set, value)
     THEN [intsetResize(closed, set.length - 1) EXCEPT !.length = @ - 1]
     ELSE set

(* The values that intsetGet and intsetRandom can return. *)
intsetMembers(set) == { _intsetGet(set, pos) : pos \in 0 .. set.length - 1 }

-----------------------------------------------------------------------------

Init == is = intsetNew

Add == \E v \in Numbers : is.length < MaxLength /\ is' = intsetAdd(is, v)
Remove == \E v \in Numbers : is' = intsetRemove(is, v)

Next == Add \/ Remove

-----------------------------------------------------------------------------

(* The array is strictly sorted, as the binary search needs it, and fills  *)
(* its memory; only values that were written are read from it.             *)
StructureIsSound ==
  /\ DOMAIN is.contents = 0 .. is.length * is.encoding - 1
  /\ \A i \in 0 .. is.length - 2 : _intsetGet(is, i) < _intsetGet(is, i + 1)
  /\ intsetMembers(is) \subseteq Numbers

(* The functions are those of a set, in every encoding and across every    *)
(* upgrade.                                                                *)
FunctionsAgree ==
  LET members == intsetMembers(is) IN
  \A v \in Numbers : /\ intsetFind(is, v) <=> v \in members
                     /\ intsetMembers(intsetAdd(is, v)) = members \cup {v}
                     /\ intsetMembers(intsetRemove(is, v)) = members \ {v}
=============================================================================
