------------------------------- MODULE Ziplist ------------------------------
(***************************************************************************)
(* The ziplist (redis/src/ziplist.c): entries one behind the other in one  *)
(* block of memory, each of which begins with the length of the one before *)
(* it.  A length below ZIP_BIGLEN takes one byte, a larger one LargeSize   *)
(* bytes, so that an entry that grows can make all that follow grow.       *)
(*                                                                         *)
(* An entry is a record with the two numbers at its front and its value;   *)
(* the offset of the last entry and the total size, which the code updates *)
(* by adding differences, are kept as it computes them.                    *)
(***************************************************************************)
EXTENDS Integers, Sequences, SequencesExt, FiniteSetsExt

CONSTANTS
  Payloads,     \* records [name, lensize, len]: a value, and the bytes of its
                \* encoding (zipTryEncoding, zipIntSize, zipEncodeLength)
  Garbled,      \* the name of a value some bytes of which are lost
  ZIP_BIGLEN,
  LargeSize,    \* 5, the bytes of a large prevlen
  LENGTH_MAX,   \* UINT16_MAX
  MaxEntries    \* a bound

VARIABLE zl

HeaderSize == 10

zipPrevEncodeLength(len) == IF len < ZIP_BIGLEN THEN 1 ELSE LargeSize

zipRawEntryLength(e) == e.prevlensize + e.value.lensize + e.value.len

ziplistNew ==
  [bytes |-> HeaderSize + 1, tail |-> HeaderSize, length |-> 0, entries |-> <<>>, damaged |-> FALSE]

Sizes(s) == FoldLeft(LAMBDA n, e : n + zipRawEntryLength(e), 0, s)

(* Where entry i begins; the end marker is at Offset(z, Len + 1). *)
Offset(z, i) == HeaderSize + Sizes(SubSeq(z.entries, 1, i - 1))

(* The entry at an offset. *)
EntryAt(z, offset) == CHOOSE i \in 1 .. Len(z.entries) + 1 : Offset(z, i) = offset

(* ZIPLIST_INCR_LENGTH: once at its maximum, the field counts no more. *)
IncrLength(z, incr) == IF z.length < LENGTH_MAX THEN z.length + incr ELSE z.length

(* Mutant: entries that grow in between do not move the last one. *)
Grow_keeps_tail(z, i, rawlen) ==
  LET extra == zipPrevEncodeLength(rawlen) - z.entries[i].prevlensize
  IN [z EXCEPT !.bytes = @ + extra,
               !.entries[i].prevlensize = zipPrevEncodeLength(rawlen),
               !.entries[i].prevlen = rawlen]

(* The prevlen of entry i takes more bytes: everything from there on, and  *)
(* the tail unless it is this entry, moves.                                *)
Grow(z, i, rawlen) ==
  LET extra == zipPrevEncodeLength(rawlen) - z.entries[i].prevlensize
  IN [z EXCEPT !.bytes = @ + extra,
               !.tail = IF @ # Offset(z, i) THEN @ + extra ELSE @,
               !.entries[i].prevlensize = zipPrevEncodeLength(rawlen),
               !.entries[i].prevlen = rawlen]

(* From the entry p on, whose length has changed.  A prevlen field never   *)
(* shrinks here: a small length is written into a large one.               *)
__ziplistCascadeUpdate(zl0, p) ==
  LET step[i \in p .. Len(zl0.entries)] ==
        LET before == IF i = p THEN [z |-> zl0, stop |-> FALSE] ELSE step[i - 1]
            z == before.z
            rawlen == zipRawEntryLength(z.entries[i])
            next == z.entries[i + 1]
        IN CASE before.stop \/ i = Len(z.entries) -> before
             [] ~before.stop /\ i < Len(z.entries) ->
                  IF next.prevlen = rawlen THEN [before EXCEPT !.stop = TRUE]
                  ELSE IF next.prevlensize < zipPrevEncodeLength(rawlen)
                  THEN [before EXCEPT !.z = Grow(z, i + 1, rawlen)]
                  ELSE [z |-> [z EXCEPT !.entries[i + 1].prevlen = rawlen], stop |-> TRUE]
  IN IF p > Len(zl0.entries) THEN zl0 ELSE step[Len(zl0.entries)].z

__ziplistDelete(z, i, num) ==
  LET first == z.entries[i]
      j == Min({i + num, Len(z.entries) + 1})
      totlen == Sizes(SubSeq(z.entries, i, j - 1))
      prevlen == first.prevlen
      nextdiff == IF j <= Len(z.entries)
                  THEN zipPrevEncodeLength(prevlen) - z.entries[j].prevlensize ELSE 0
      next == [z.entries[j] EXCEPT !.prevlensize = zipPrevEncodeLength(prevlen), !.prevlen = prevlen]
      new == [z EXCEPT
                !.bytes = @ - totlen + nextdiff,
                !.tail = IF j > Len(z.entries) THEN Offset(z, i) - prevlen
                         ELSE @ - totlen + (IF j < Len(z.entries) THEN nextdiff ELSE 0),
                !.length = IncrLength(z, i - j),
                !.entries = SubSeq(@, 1, i - 1) \o
                              (IF j > Len(@) THEN <<>> ELSE <<next>> \o SubSeq(@, j + 1, Len(@)))]
  IN IF totlen = 0 THEN z ELSE IF nextdiff # 0 THEN __ziplistCascadeUpdate(new, i) ELSE new

(* If the new entry takes less than the next one gives back, the block is  *)
(* cut by the difference before its end has been moved to the front, and   *)
(* the last bytes of the last entry are lost.  If they are bytes of its    *)
(* header, nothing is known of the block any more: zl.damaged.             *)
__ziplistInsert(z, i, value) ==
  LET isLast == i > Len(z.entries)
      prevlen == IF ~isLast THEN z.entries[i].prevlen
                 ELSE IF z.entries = <<>> THEN 0
                 ELSE zipRawEntryLength(z.entries[EntryAt(z, z.tail)])
      entry == [prevlensize |-> zipPrevEncodeLength(prevlen), prevlen |-> prevlen, value |-> value]
      reqlen == zipRawEntryLength(entry)
      nextdiff == IF isLast THEN 0 ELSE zipPrevEncodeLength(reqlen) - z.entries[i].prevlensize
      cut == -(reqlen + nextdiff)
      old == IF cut > 0 THEN [z.entries EXCEPT ![Len(z.entries)].value.name = Garbled] ELSE z.entries
      next == [old[i] EXCEPT !.prevlensize = zipPrevEncodeLength(reqlen), !.prevlen = reqlen]
      new == [z EXCEPT
                !.bytes = @ + reqlen + nextdiff,
                !.tail = IF isLast THEN Offset(z, i)
                         ELSE @ + reqlen + (IF i < Len(z.entries) THEN nextdiff ELSE 0),
                !.length = IncrLength(z, 1),
                !.entries = SubSeq(old, 1, i - 1) \o <<entry>> \o
                              (IF isLast THEN <<>> ELSE <<next>> \o SubSeq(old, i + 1, Len(old))),
                !.damaged = @ \/ (cut > 0 /\ cut > Last(z.entries).value.len)]
  IN IF nextdiff # 0 THEN __ziplistCascadeUpdate(new, i + 1) ELSE new

(* The position of the entry before the one at position i, going back by   *)
(* its prevlen, or from the end to the tail; 0 if there is none.           *)
ziplistPrev(z, i) ==
  IF i > Len(z.entries) THEN IF z.entries = <<>> THEN 0 ELSE EntryAt(z, z.tail)
  ELSE IF i = 1 THEN 0
  ELSE EntryAt(z, Offset(z, i) - z.entries[i].prevlen)

ziplistNext(z, i) == IF i >= Len(z.entries) THEN 0 ELSE i + 1

(* A negative index counts from the tail back, through the prevlens. *)
ziplistIndex(z, index) ==
  LET back[n \in 0 .. Len(z.entries)] ==
        IF n = 0 THEN EntryAt(z, z.tail)
        ELSE IF back[n - 1] = 0 THEN 0 ELSE ziplistPrev(z, back[n - 1])
  IN IF z.entries = <<>> THEN 0
     ELSE IF index < 0 THEN IF -index > Len(z.entries) + 1 THEN 0 ELSE back[-index - 1]
     ELSE IF index < Len(z.entries) THEN index + 1 ELSE 0

ziplistDeleteRange(z, index, num) ==
  LET i == ziplistIndex(z, index) IN IF i = 0 THEN z ELSE __ziplistDelete(z, i, num)

(* The entries are counted if the field has been at its maximum, and it is *)
(* set again if they are few enough.                                       *)
ziplistLen(z) == IF z.length < LENGTH_MAX THEN z.length ELSE Len(z.entries)
Recounted(z) == [z EXCEPT !.length = IF @ = LENGTH_MAX /\ Len(z.entries) < LENGTH_MAX
                                     THEN Len(z.entries) ELSE @]

-----------------------------------------------------------------------------

Init == zl = ziplistNew

Insert == /\ ~zl.damaged
          /\ Len(zl.entries) < MaxEntries
          /\ \E i \in 1 .. Len(zl.entries) + 1, value \in Payloads :
               zl' = __ziplistInsert(zl, i, value)

Delete == /\ ~zl.damaged
          /\ \E index \in -1 .. Len(zl.entries) - 1, num \in 1 .. 2 :
               zl' = ziplistDeleteRange(zl, index, num)

Count == zl' = Recounted(zl)

Next == Insert \/ Delete \/ Count

-----------------------------------------------------------------------------

(* The prevlens lead from each entry to the one before it, and the tail    *)
(* offset to the last one, no matter how the fields have grown; the size   *)
(* is that of the entries; the length is exact, or is known not to be.     *)
(* This is not so once an insertion of a short entry in front of a field   *)
(* that has stayed large (ziplist.c:418-423) has made ziplistResize cut    *)
(* off header bytes of the last entry (ziplist.c:589, before the memmove   *)
(* of line 595): the code has this defect, and nothing is said of a block  *)
(* behind it.  A last entry that loses bytes of its payload only is wrong, *)
(* but the block around it stays right.                                    *)
StructureIsSound ==
  LET e == zl.entries IN
  ~zl.damaged =>
    /\ zl.bytes = Offset(zl, Len(e) + 1) + 1
    /\ zl.tail = IF e = <<>> THEN HeaderSize ELSE Offset(zl, Len(e))
    /\ \A i \in DOMAIN e :
         /\ e[i].prevlen = IF i = 1 THEN 0 ELSE zipRawEntryLength(e[i - 1])
         /\ e[i].prevlensize >= zipPrevEncodeLength(e[i].prevlen)
    /\ ziplistLen(zl) = Len(e)
    /\ \A i \in 1 .. Len(e) : ziplistIndex(zl, -i) = Len(e) + 1 - i
    /\ ziplistIndex(zl, -Len(e) - 1) = 0
=============================================================================
