---------------------------- MODULE EditorProof -----------------------------
(***************************************************************************)
(* Proofs about Editor for every alphabet, key set, initial file and       *)
(* bound: type correctness, the safety invariants of the key handler, what *)
(* one step may do to the cursor and to the lines of the buffer, and that  *)
(* <BS> undoes typing.                                                     *)
(***************************************************************************)
EXTENDS Editor, SequenceTheorems, TLAPS

Text == Seq(Seq(Char))

(* A state in the middle of a movement: its column may be negative. *)
LooseState ==
  [cursor : [line : Int, col : Int], buffer : Text, mode : Modes,
   repeat_number : Nat \cup {UndefinedRepeat}]

(* What every editing operation preserves: a well-typed state whose cursor *)
(* is at most one line outside the buffer and whose repeat number is       *)
(* undefined only in insert mode.                                          *)
Good(s) ==
  /\ s \in EditorState
  /\ -1 <= s.cursor.line
  /\ s.cursor.line <= Len(s.buffer)
  /\ s.mode # "insert" => s.repeat_number # UndefinedRepeat

-----------------------------------------------------------------------------
(* Slices and splices.                                                     *)

(* The two slices of a sequence are sequences over the same elements. *)
LEMMA SliceType ==
  ASSUME NEW S, NEW s \in Seq(S), NEW n \in Nat
  PROVE  SliceTo(s, n) \in Seq(S) /\ SliceFrom(s, n) \in Seq(S)
<1>1. Len(s) \in Nat /\ \A i \in 1..Len(s) : s[i] \in S
  BY LenProperties, ElementOfSeq
<1>2. SubSeq(s, 1, MathMin(n, Len(s))) \in Seq(S)
  <2>1. MathMin(n, Len(s)) \in Int /\ MathMin(n, Len(s)) <= Len(s)
    BY <1>1 DEF MathMin
  <2>2. \A i \in 1..MathMin(n, Len(s)) : s[i] \in S
    BY <1>1, <2>1
  <2>3. QED
    BY <2>1, <2>2, SubSeqProperties
<1>3. SubSeq(s, n + 1, Len(s)) \in Seq(S)
  BY <1>1, SubSeqProperties
<1>4. QED
  BY <1>2, <1>3 DEF SliceTo, SliceFrom

(* splice clamps its start into the array and its end after the start. *)
LEMMA SpliceBounds ==
  ASSUME NEW S, NEW s \in Seq(S), NEW start \in Int, NEW count \in Int
  PROVE  /\ SpliceStart(s, start) \in 0..Len(s)
         /\ SpliceEnd(s, start, count) \in SpliceStart(s, start)..Len(s)
         /\ start >= 0 => SpliceStart(s, start) = MathMin(start, Len(s))
         /\ start >= 0 /\ count >= 0 =>
              SpliceEnd(s, start, count)
                = MathMin(start, Len(s))
                    + MathMin(count, Len(s) - MathMin(start, Len(s)))
<1> DEFINE a == SpliceStart(s, start)
<1>1. Len(s) \in Nat
  BY LenProperties
<1>2. /\ a \in 0..Len(s)
      /\ start >= 0 => a = MathMin(start, Len(s))
  BY <1>1 DEF SpliceStart, MathMin, MathMax
<1>3. SpliceEnd(s, start, count)
        = a + MathMax(0, MathMin(count, Len(s) - a))
  BY DEF SpliceEnd
<1> HIDE DEF a
<1>4. SpliceEnd(s, start, count) \in a..Len(s)
  BY <1>1, <1>2, <1>3 DEF MathMin, MathMax
<1>5. count >= 0 => SpliceEnd(s, start, count) = a + MathMin(count, Len(s) - a)
  BY <1>1, <1>2, <1>3 DEF MathMin, MathMax
<1>6. QED
  BY <1>2, <1>4, <1>5 DEF a

(* What splice returns, and how long it is. *)
LEMMA SpliceType ==
  ASSUME NEW S, NEW s \in Seq(S), NEW start \in Int, NEW count \in Int,
         NEW items \in Seq(S)
  PROVE  /\ Splice(s, start, count, items) \in Seq(S)
         /\ Len(Splice(s, start, count, items))
              = Len(s) + Len(items)
                  - (SpliceEnd(s, start, count) - SpliceStart(s, start))
<1> DEFINE a == SpliceStart(s, start)
           b == SpliceEnd(s, start, count)
<1>1. Len(s) \in Nat /\ Len(items) \in Nat /\ \A i \in 1..Len(s) : s[i] \in S
  BY LenProperties, ElementOfSeq
<1>2. a \in 0..Len(s) /\ b \in a..Len(s)
  BY SpliceBounds
<1>3. SubSeq(s, 1, a) \in Seq(S) /\ Len(SubSeq(s, 1, a)) = a
  <2>1. \A i \in 1..a : s[i] \in S
    BY <1>1, <1>2
  <2>2. QED
    BY <1>1, <1>2, <2>1, SubSeqProperties
<1>4. SubSeq(s, b + 1, Len(s)) \in Seq(S)
      /\ Len(SubSeq(s, b + 1, Len(s))) = Len(s) - b
  <2>1. \A i \in b + 1..Len(s) : s[i] \in S
    BY <1>1, <1>2
  <2>2. QED
    BY <1>1, <1>2, <2>1, SubSeqProperties
<1>5. SubSeq(s, 1, a) \o items \in Seq(S)
      /\ Len(SubSeq(s, 1, a) \o items) = a + Len(items)
  BY <1>3, ConcatProperties
<1>6. /\ (SubSeq(s, 1, a) \o items) \o SubSeq(s, b + 1, Len(s)) \in Seq(S)
      /\ Len((SubSeq(s, 1, a) \o items) \o SubSeq(s, b + 1, Len(s)))
           = (a + Len(items)) + (Len(s) - b)
  BY <1>4, <1>5, ConcatProperties
<1>7. QED
  BY <1>1, <1>2, <1>6 DEF Splice

(* The same for splices of the buffer, with the length in the cases that   *)
(* matter: an inner start, and the start -1 of a splice on line 0.         *)
LEMMA TextSplice ==
  ASSUME NEW s \in Text, NEW items \in Text, NEW start \in Int, NEW count \in Nat
  PROVE  LET t == Splice(s, start, count, items)
         IN /\ t \in Text
            /\ Len(t) \in Nat
            /\ Len(t) >= Len(items)
            /\ start \in 0..Len(s) => Len(t) >= start + Len(items)
            /\ count = 0 => Len(t) = Len(s) + Len(items)
<1> DEFINE t == Splice(s, start, count, items)
           a == SpliceStart(s, start)
           b == SpliceEnd(s, start, count)
<1>1. s \in Seq(Seq(Char)) /\ items \in Seq(Seq(Char))
  BY DEF Text
<1>2. Len(s) \in Nat /\ Len(items) \in Nat
  BY <1>1, LenProperties
<1>3. t \in Text /\ Len(t) = Len(s) + Len(items) - (b - a)
  BY <1>1, SpliceType DEF Text
<1>4. a \in 0..Len(s) /\ b \in a..Len(s)
  BY <1>1, SpliceBounds
<1>5. start \in 0..Len(s) => a = start
  BY <1>2 DEF SpliceStart, MathMin
<1>6. count = 0 => b = a
  <2>1. b = a + MathMax(0, MathMin(count, Len(s) - a))
    BY DEF SpliceEnd
  <2> HIDE DEF a, b
  <2>2. QED
    BY <1>2, <1>4, <2>1 DEF MathMin, MathMax
<1> HIDE DEF t, a, b
<1>7. QED
  BY <1>2, <1>3, <1>4, <1>5, <1>6 DEF t

-----------------------------------------------------------------------------
(* Normalisation and movements.                                            *)

(* Fields of the right types make a state. *)
LEMMA MakeStateType ==
  ASSUME NEW cursor \in Cursor, NEW buffer \in Text, NEW mode \in Modes,
         NEW repeat_number \in Nat \cup {UndefinedRepeat}
  PROVE  make_state(cursor, buffer, mode, repeat_number) \in EditorState
  BY DEF make_state, EditorState, Text

(* The fields of a state. *)
LEMMA FieldsType ==
  ASSUME NEW s \in EditorState
  PROVE  /\ s.cursor \in Cursor /\ s.cursor.line \in Int /\ s.cursor.col \in Nat
         /\ s.buffer \in Text /\ Len(s.buffer) \in Nat
         /\ s.mode \in Modes
         /\ s.repeat_number \in Nat \cup {UndefinedRepeat}
<1>1. s.cursor \in Cursor /\ s.buffer \in Text /\ s.mode \in Modes
      /\ s.repeat_number \in Nat \cup {UndefinedRepeat}
  BY DEF EditorState, Text
<1>2. QED
  BY <1>1, LenProperties DEF Cursor, Text

(* Normalising the line alone clamps it to the buffer, or to one past it.  *)
LEMMA NormalLineRange ==
  ASSUME NEW s \in LooseState, NEW normalize_line \in BOOLEAN
  PROVE  /\ NormalLine(s, normalize_line) \in Int
         /\ normalize_line =>
              0 <= NormalLine(s, normalize_line)
                /\ NormalLine(s, normalize_line) <= Len(s.buffer)
<1>1. Len(s.buffer) \in Nat /\ s.cursor.line \in Int
  BY LenProperties DEF LooseState, Text
<1>2. EndOfLine(s) \in {0, -1}
  BY DEF EndOfLine
<1>3. CASE normalize_line
  <2>1. NormalLine(s, normalize_line)
          = MathMax(0, MathMin(s.cursor.line, Len(s.buffer) + EndOfLine(s)))
    BY <1>3 DEF NormalLine
  <2>2. QED
    BY <1>1, <1>2, <2>1 DEF MathMin, MathMax
<1>4. CASE ~normalize_line
  BY <1>1, <1>4 DEF NormalLine
<1>5. QED
  BY <1>3, <1>4

(* A normalised state is well typed, and only its cursor has changed. *)
LEMMA NormalizeType ==
  ASSUME NEW s \in LooseState,
         NEW normalize_line \in BOOLEAN, NEW normalize_col \in BOOLEAN,
         ~NormalizeThrows(s, normalize_line, normalize_col),
         normalize_col \/ s.cursor.col \in Nat
  PROVE  LET n == normalize_cursor(s, normalize_line, normalize_col)
         IN /\ n \in EditorState
            /\ n.cursor.line = NormalLine(s, normalize_line)
            /\ n.cursor.col \in Nat
            /\ ~normalize_col => n.cursor.col = s.cursor.col
            /\ n.buffer = s.buffer /\ n.mode = s.mode
            /\ n.repeat_number = s.repeat_number
<1> DEFINE line == NormalLine(s, normalize_line)
           col == IF normalize_col
                  THEN MathMax(0, MathMin(s.cursor.col,
                                     Len(LineAt(s, line)) + EndOfLine(s)))
                  ELSE s.cursor.col
<1>1. line \in Int
  BY NormalLineRange
<1>2. col \in Nat
  <2>1. CASE ~normalize_col
    BY <2>1
  <2>2. CASE normalize_col
    <3>1. HasLine(s, line)
      BY <2>2 DEF NormalizeThrows
    <3>2. s.buffer[line + 1] \in Seq(Char)
      BY <3>1, <1>1, ElementOfSeq, LenProperties DEF HasLine, LooseState, Text
    <3>3. Len(LineAt(s, line)) \in Nat
      BY <3>2, LenProperties DEF LineAt
    <3>4. s.cursor.col \in Int
      BY DEF LooseState
    <3>5. QED
      BY <2>2, <3>3, <3>4 DEF EndOfLine, MathMin, MathMax
  <2>3. QED
    BY <2>1, <2>2
<1>3. normalize_cursor(s, normalize_line, normalize_col)
        = make_state(At(line, col), s.buffer, s.mode, s.repeat_number)
  BY DEF normalize_cursor
<1>4. ~normalize_col => col = s.cursor.col
  OBVIOUS
<1>5. At(line, col) \in Cursor
  BY <1>1, <1>2 DEF At, Cursor
<1> HIDE DEF line, col
<1>6. s.buffer \in Text /\ s.mode \in Modes
      /\ s.repeat_number \in Nat \cup {UndefinedRepeat}
  BY DEF LooseState
<1>7. QED
  BY <1>2, <1>3, <1>4, <1>5, <1>6, MakeStateType DEF At, line, make_state

(* What has to be shown of the state an operation returns. *)
LEMMA MakeStateGood ==
  ASSUME NEW cursor \in Cursor, NEW buffer \in Text, NEW mode \in Modes,
         NEW repeat_number \in Nat \cup {UndefinedRepeat},
         -1 <= cursor.line, cursor.line <= Len(buffer),
         mode # "insert" => repeat_number # UndefinedRepeat
  PROVE  Good(make_state(cursor, buffer, mode, repeat_number))
<1>1. make_state(cursor, buffer, mode, repeat_number) \in EditorState
  BY MakeStateType
<1>2. QED
  BY <1>1 DEF Good, make_state

(* 0 is a repeat number, and not the undefined one. *)
LEMMA ZeroRepeat ==
  0 \in Nat \cup {UndefinedRepeat} /\ 0 # UndefinedRepeat
  BY DEF UndefinedRepeat

(* Every state of the editor is a loose state. *)
LEMMA GoodIsLoose == \A s \in EditorState : s \in LooseState
  BY DEF EditorState, LooseState, Cursor, Text

(* move_cursor is only registered with one of its two offsets non-zero.    *)
(* Its target is a cursor, on the old line or on a normalised one.         *)
LEMMA MoveCursorTarget ==
  ASSUME NEW s, Good(s), NEW offset \in [lines : Int, cols : Int],
         NEW repeat \in Int,
         offset.cols = 0 \/ offset.lines = 0,
         offset.cols # 0 => InBuffer(s)
  PROVE  LET target == move_cursor(s, offset, repeat)
         IN /\ target \in Cursor
            /\ -1 <= target.line /\ target.line <= Len(s.buffer)
<1> DEFINE byLine == offset.lines # 0
           byCol == offset.cols # 0
           start == normalize_cursor(s, byLine, byCol)
           down == offset.lines * repeat
           right == offset.cols * repeat
           moved == make_state(At(start.cursor.line + down,
                                  start.cursor.col + right),
                               start.buffer, start.mode, start.repeat_number)
<1>1. s \in LooseState /\ s.cursor.col \in Nat /\ s.cursor.line \in Int
  BY GoodIsLoose DEF Good, EditorState, Cursor
<1>2. ~NormalizeThrows(s, byLine, byCol)
  BY DEF NormalizeThrows, NormalLine, InBuffer
<1>3. /\ start \in EditorState
      /\ start.cursor.line = NormalLine(s, byLine)
      /\ ~byCol => start.cursor.col = s.cursor.col
      /\ start.buffer = s.buffer
  BY <1>1, <1>2, NormalizeType
<1>4. /\ down \in Int /\ right \in Int
      /\ offset.lines = 0 => down = 0
      /\ offset.cols = 0 => right = 0
  OBVIOUS
<1>7. move_cursor(s, offset, repeat) = normalize_cursor(moved, byLine, byCol).cursor
  BY DEF move_cursor
<1> HIDE DEF start, down, right
<1>5. start.cursor.line \in Int /\ start.cursor.col \in Nat
  BY <1>3 DEF EditorState, Cursor
<1>6. moved \in LooseState /\ moved.buffer = s.buffer
      /\ moved.cursor.line = start.cursor.line + down
      /\ moved.cursor.col = start.cursor.col + right
  <2>1. start.buffer \in Text /\ start.mode \in Modes
        /\ start.repeat_number \in Nat \cup {UndefinedRepeat}
    BY <1>3, FieldsType
  <2>2. start.cursor.line + down \in Int /\ start.cursor.col + right \in Int
    BY <1>4, <1>5
  <2>3. QED
    BY <1>3, <2>1, <2>2 DEF LooseState, make_state, At
<1> HIDE DEF moved
<1>8. CASE offset.cols = 0
  <2>1. moved.cursor.col \in Nat
    BY <1>4, <1>5, <1>6, <1>8
  <2>2. ~NormalizeThrows(moved, byLine, byCol)
    BY <1>8 DEF NormalizeThrows
  <2>3. normalize_cursor(moved, byLine, byCol) \in EditorState
        /\ normalize_cursor(moved, byLine, byCol).cursor.line
             = NormalLine(moved, byLine)
    BY <1>6, <2>1, <2>2, NormalizeType
  <2>4. CASE byLine
    <3>1. 0 <= NormalLine(moved, byLine)
          /\ NormalLine(moved, byLine) <= Len(s.buffer)
      BY <1>6, <2>4, NormalLineRange
    <3>2. NormalLine(moved, byLine) \in Int
      BY <1>6, NormalLineRange
    <3>3. QED
      BY <1>7, <2>3, <3>1, <3>2 DEF EditorState
  <2>5. CASE ~byLine
    <3>1. NormalLine(moved, byLine) = s.cursor.line
      BY <1>1, <1>3, <1>4, <1>6, <2>5 DEF NormalLine
    <3>2. QED
      BY <1>7, <2>3, <3>1 DEF EditorState, Good
  <2>6. QED
    BY <2>4, <2>5
<1>9. CASE offset.lines = 0 /\ offset.cols # 0
  <2>1. NormalLine(moved, byLine) = s.cursor.line
    BY <1>1, <1>3, <1>4, <1>6, <1>9 DEF NormalLine
  <2>2. ~NormalizeThrows(moved, byLine, byCol)
    BY <1>6, <1>9, <2>1 DEF NormalizeThrows, InBuffer, HasLine
  <2>3. normalize_cursor(moved, byLine, byCol) \in EditorState
        /\ normalize_cursor(moved, byLine, byCol).cursor.line = s.cursor.line
    BY <1>6, <1>9, <2>1, <2>2, NormalizeType
  <2>4. QED
    BY <1>7, <2>3 DEF EditorState, Good
<1>10. QED
  BY <1>8, <1>9

(* The offsets of the key table move along one axis each. *)
LEMMA OffsetType ==
  ASSUME NEW key \in MoveKeys
  PROVE  /\ Offset(key) \in [lines : Int, cols : Int]
         /\ Offset(key).cols = 0 \/ Offset(key).lines = 0
  BY DEF MoveKeys, Offset

(* Every movement that does not throw leads to a cursor near the buffer. *)
LEMMA MovementTargetType ==
  ASSUME NEW s, Good(s), NEW key \in MoveKeys \cup {"G"},
         NEW repeat \in Int, ~MovementThrows(s, key)
  PROVE  LET target == MovementTarget(s, key, repeat)
         IN /\ target \in Cursor
            /\ -1 <= target.line /\ target.line <= Len(s.buffer)
<1>1. CASE key = "G"
  <2>1. Len(s.buffer) \in Nat /\ s.cursor.col \in Nat
    BY LenProperties DEF Good, EditorState, Cursor
  <2>2. MovementTarget(s, key, repeat)
          = [line |-> Len(s.buffer) - 1, col |-> s.cursor.col]
    BY <1>1 DEF MovementTarget, move_cursor_end_of_file, At
  <2>3. QED
    BY <2>1, <2>2 DEF Cursor
<1>2. CASE key # "G"
  <2>1. key \in MoveKeys
    BY <1>2
  <2>2. Offset(key).cols # 0 => InBuffer(s)
    BY <1>2 DEF MovementThrows
  <2>3. MovementTarget(s, key, repeat) = move_cursor(s, Offset(key), repeat)
    BY <1>2 DEF MovementTarget
  <2>4. QED
    BY <2>1, <2>2, <2>3, OffsetType, MoveCursorTarget
<1>3. QED
  BY <1>1, <1>2

(* Going to a line, when it does not throw, ends on a line of the buffer. *)
LEMMA GotoGood ==
  ASSUME NEW s, Good(s), NEW line \in Int, ~GotoThrows(s, line)
  PROVE  /\ Good(goto_line(s, line))
         /\ InBuffer(goto_line(s, line))
         /\ goto_line(s, line).buffer = s.buffer
<1> DEFINE t == AtLine(s, line)
           n == normalize_cursor(t, TRUE, TRUE)
<1>1. s \in EditorState
  BY DEF Good
<1>2. t \in EditorState /\ t.buffer = s.buffer
  <2>1. At(line, s.cursor.col) \in Cursor
    BY <1>1, FieldsType DEF At, Cursor
  <2>2. QED
    BY <1>1, <2>1, FieldsType, MakeStateType DEF AtLine, make_state
<1>3. ~NormalizeThrows(t, TRUE, TRUE)
  BY DEF GotoThrows
<1>4. HasLine(t, NormalLine(t, TRUE))
  BY <1>3 DEF NormalizeThrows
<1> HIDE DEF t
<1>5. n \in EditorState /\ n.cursor.line = NormalLine(t, TRUE)
  BY <1>2, <1>3, NormalizeType, GoodIsLoose
<1>6. goto_line(s, line) = make_state(n.cursor, s.buffer, "command", 0)
  BY DEF goto_line, t
<1> HIDE DEF n
<1>7. 0 <= n.cursor.line /\ n.cursor.line < Len(s.buffer)
  BY <1>2, <1>4, <1>5 DEF HasLine
<1>8. n.cursor \in Cursor /\ n.cursor.line \in Int /\ Len(s.buffer) \in Nat
      /\ s.buffer \in Text
  BY <1>1, <1>5, FieldsType
<1>9. -1 <= n.cursor.line /\ n.cursor.line <= Len(s.buffer)
  BY <1>7, <1>8
<1>10. Good(goto_line(s, line))
  BY <1>6, <1>8, <1>9, ZeroRepeat, MakeStateGood DEF Modes
<1>11. QED
  BY <1>6, <1>7, <1>10 DEF InBuffer, HasLine, make_state

-----------------------------------------------------------------------------
(* Edits.                                                                  *)

(* Entering a mode keeps the text and the cursor. *)
LEMMA EnterModeGood ==
  ASSUME NEW s, Good(s), NEW mode \in Modes
  PROVE  Good(enter_mode(s, mode))
<1>1. s \in EditorState /\ -1 <= s.cursor.line /\ s.cursor.line <= Len(s.buffer)
  BY DEF Good
<1>2. QED
  BY <1>1, FieldsType, ZeroRepeat, MakeStateGood DEF enter_mode

(* i and a keep the text; a may move the column past the line's end. *)
LEMMA InsertGood ==
  ASSUME NEW s, Good(s), NEW location \in {"before", "after"}
  PROVE  Good(insert(s, location))
<1> DEFINE to == At(s.cursor.line,
                    s.cursor.col + IF location = "after" THEN 1 ELSE 0)
<1>1. s \in EditorState /\ -1 <= s.cursor.line /\ s.cursor.line <= Len(s.buffer)
  BY DEF Good
<1>2. to \in Cursor /\ to.line = s.cursor.line
  BY <1>1, FieldsType DEF At, Cursor
<1>3. insert(s, location) = make_state(to, s.buffer, "insert", s.repeat_number)
  BY DEF insert
<1> HIDE DEF to
<1>4. QED
  BY <1>1, <1>2, <1>3, FieldsType, MakeStateGood DEF Modes

(* o and O add a line and put the cursor on it, or where the new line      *)
(* would have been had the cursor been in the buffer.                      *)
LEMMA InsertLineGood ==
  ASSUME NEW s, Good(s), NEW location \in {"before", "after"}
  PROVE  Good(insert_line(s, location))
<1> DEFINE line == s.cursor.line + IF location = "before" THEN 0 ELSE 1
           blank == << <<>> >>
           buffer == Splice(s.buffer, line, 0, blank)
<1>1. s \in EditorState /\ -1 <= s.cursor.line /\ s.cursor.line <= Len(s.buffer)
  BY DEF Good
<1>2. line \in Int /\ -1 <= line /\ line <= Len(s.buffer) + 1
  BY <1>1, FieldsType
<1>3. blank \in Text /\ Len(blank) = 1
  BY DEF Text
<1>4. insert_line(s, location)
        = make_state(At(line, 0), buffer, "insert", s.repeat_number)
  BY DEF insert_line
<1> HIDE DEF line, blank
<1>5. buffer \in Text /\ Len(buffer) = Len(s.buffer) + 1
  <2>1. s.buffer \in Text /\ 0 \in Nat /\ Len(s.buffer) \in Nat
    BY <1>1, FieldsType
  <2>2. line \in Int
    BY <1>2
  <2>3. buffer \in Text /\ Len(buffer) = Len(s.buffer) + Len(blank)
    BY <1>3, <2>1, <2>2, TextSplice
  <2>4. QED
    BY <1>3, <2>1, <2>3
<1>6. At(line, 0) \in Cursor /\ At(line, 0).line = line
  BY <1>2 DEF At, Cursor
<1> HIDE DEF buffer
<1>7. QED
  BY <1>1, <1>2, <1>4, <1>5, <1>6, FieldsType, MakeStateGood DEF Modes

(* Where a text edit in insert mode takes place: on a line of the buffer,  *)
(* whose two halves around the cursor are lines.                           *)
LEMMA TextPlace ==
  ASSUME NEW s, Good(s), ~TextThrows(s)
  PROVE  LET n == normalize_cursor(s, TRUE, TRUE).cursor
         IN /\ n.line \in 0..Len(s.buffer) - 1
            /\ n.col \in Nat
            /\ n.line + 1 \in 1..Len(s.buffer)
            /\ LineAt(s, n.line) \in Seq(Char)
<1> DEFINE n == normalize_cursor(s, TRUE, TRUE)
<1>1. s \in EditorState /\ s \in LooseState
  BY GoodIsLoose DEF Good
<1>2. ~NormalizeThrows(s, TRUE, TRUE)
  BY DEF TextThrows
<1>3. HasLine(s, NormalLine(s, TRUE))
  BY <1>2 DEF NormalizeThrows
<1>4. n.cursor.line = NormalLine(s, TRUE) /\ n.cursor.col \in Nat
  BY <1>1, <1>2, NormalizeType
<1>5. NormalLine(s, TRUE) \in Int
  BY <1>1, NormalLineRange
<1> HIDE DEF n
<1>6. n.cursor.line \in 0..Len(s.buffer) - 1
      /\ n.cursor.line + 1 \in 1..Len(s.buffer)
  <2>1. 0 <= n.cursor.line /\ n.cursor.line < Len(s.buffer)
    BY <1>3, <1>4 DEF HasLine
  <2>2. n.cursor.line \in Int /\ Len(s.buffer) \in Nat
    BY <1>1, <1>4, <1>5, FieldsType
  <2>3. QED
    BY <2>1, <2>2
<1>7. LineAt(s, n.cursor.line) \in Seq(Char)
  BY <1>1, <1>6, FieldsType, ElementOfSeq DEF LineAt, Text
<1>8. QED
  BY <1>4, <1>6, <1>7 DEF n

(* Replacing one line keeps the number of lines. *)
LEMMA TextExcept ==
  ASSUME NEW b \in Text, NEW i \in 1..Len(b), NEW line \in Seq(Char)
  PROVE  [b EXCEPT ![i] = line] \in Text
         /\ Len([b EXCEPT ![i] = line]) = Len(b)
  BY ExceptSeq DEF Text

(* Typing a character or a named key. *)
LEMMA InsertStringGood ==
  ASSUME NEW s, Good(s), s.mode = "insert", ~TextThrows(s),
         NEW string \in Seq(Char)
  PROVE  Good(insert_string_at_cursor(s, string))
<1> DEFINE n == normalize_cursor(s, TRUE, TRUE).cursor
           text == LineAt(s, n.line)
           left == SliceTo(text, n.col)
           right == SliceFrom(text, n.col)
           joined == left \o string \o right
           buffer == [s.buffer EXCEPT ![n.line + 1] = joined]
           to == At(n.line, n.col + Len(string))
<1>1. /\ n.line \in 0..Len(s.buffer) - 1 /\ n.col \in Nat
      /\ n.line + 1 \in 1..Len(s.buffer) /\ text \in Seq(Char)
  BY TextPlace
<1>2. insert_string_at_cursor(s, string)
        = make_state(to, buffer, s.mode, UndefinedRepeat)
  BY DEF insert_string_at_cursor
<1>3. s \in EditorState
  BY DEF Good
<1> HIDE DEF n, text
<1>4. left \in Seq(Char) /\ right \in Seq(Char)
  BY <1>1, SliceType
<1> HIDE DEF left, right
<1>5. joined \in Seq(Char)
  BY <1>4, ConcatProperties
<1> HIDE DEF joined
<1>6. s.buffer \in Text /\ Len(s.buffer) \in Nat
  BY <1>3, FieldsType
<1>7. buffer \in Text /\ Len(buffer) = Len(s.buffer)
  BY <1>1, <1>5, <1>6, TextExcept
<1> HIDE DEF buffer
<1>8. to \in Cursor /\ to.line = n.line
  BY <1>1, LenProperties DEF At, Cursor
<1> HIDE DEF to
<1>9. -1 <= to.line /\ to.line <= Len(buffer)
  BY <1>1, <1>6, <1>7, <1>8
<1>10. s.mode \in Modes /\ UndefinedRepeat \in Nat \cup {UndefinedRepeat}
  BY DEF Modes
<1>11. QED
  BY <1>2, <1>7, <1>8, <1>9, <1>10, MakeStateGood

(* Breaking a line: the cursor goes to the second of the two lines that    *)
(* replace it.                                                             *)
LEMMA BreakLineGood ==
  ASSUME NEW s, Good(s), s.mode = "insert", ~TextThrows(s)
  PROVE  Good(break_line_at_cursor(s))
<1> DEFINE n == normalize_cursor(s, TRUE, TRUE).cursor
           text == LineAt(s, n.line)
           left == SliceTo(text, n.col)
           right == SliceFrom(text, n.col)
           halves == <<left, right>>
           buffer == Splice(s.buffer, n.line, 1, halves)
           to == At(n.line + 1, 0)
<1>1. /\ n.line \in 0..Len(s.buffer) - 1 /\ n.col \in Nat
      /\ text \in Seq(Char)
  BY TextPlace
<1>2. break_line_at_cursor(s) = make_state(to, buffer, s.mode, UndefinedRepeat)
  BY DEF break_line_at_cursor
<1>3. s \in EditorState
  BY DEF Good
<1> HIDE DEF n, text
<1>4. left \in Seq(Char) /\ right \in Seq(Char)
  BY <1>1, SliceType
<1> HIDE DEF left, right
<1>5. halves \in Text /\ Len(halves) = 2
  BY <1>4 DEF Text
<1> HIDE DEF halves
<1>6. s.buffer \in Text /\ Len(s.buffer) \in Nat
  BY <1>3, FieldsType
<1>7. buffer \in Text /\ Len(buffer) \in Nat /\ Len(buffer) >= n.line + 2
  <2>1. n.line \in Int /\ n.line \in 0..Len(s.buffer) /\ 1 \in Nat
    BY <1>1, <1>6
  <2>2. QED
    BY <1>5, <1>6, <2>1, TextSplice
<1> HIDE DEF buffer
<1>8. to \in Cursor /\ to.line = n.line + 1
  BY <1>1 DEF At, Cursor
<1> HIDE DEF to
<1>9. -1 <= to.line /\ to.line <= Len(buffer)
  BY <1>1, <1>7, <1>8
<1>10. s.mode \in Modes /\ UndefinedRepeat \in Nat \cup {UndefinedRepeat}
  BY DEF Modes
<1>11. QED
  BY <1>2, <1>7, <1>8, <1>9, <1>10, MakeStateGood

(* <BS>: a character, or the line break before the cursor, is removed.  On *)
(* the first line the splice starts at -1 and the cursor goes there too.   *)
LEMMA DeleteCharGood ==
  ASSUME NEW s, Good(s), s.mode = "insert", ~TextThrows(s)
  PROVE  Good(delete_char_before_cursor(s))
<1> DEFINE n == normalize_cursor(s, TRUE, TRUE).cursor
           text == LineAt(s, n.line)
           previous == IF HasLine(s, n.line - 1) THEN LineAt(s, n.line - 1)
                       ELSE <<>>
           joined == <<previous \o text>>
           spliced == Splice(s.buffer, n.line - 1, 2, joined)
           left == SliceTo(text, n.col - 1)
           right == SliceFrom(text, n.col)
           shorter == [s.buffer EXCEPT ![n.line + 1] = left \o right]
<1>1. /\ n.line \in 0..Len(s.buffer) - 1 /\ n.col \in Nat
      /\ n.line + 1 \in 1..Len(s.buffer) /\ text \in Seq(Char)
  BY TextPlace
<1>2. /\ n.col = 0 => delete_char_before_cursor(s)
                        = make_state(At(n.line - 1, Len(previous)), spliced,
                                     s.mode, s.repeat_number)
      /\ n.col # 0 => delete_char_before_cursor(s)
                        = make_state(At(n.line, n.col - 1), shorter,
                                     s.mode, s.repeat_number)
  BY DEF delete_char_before_cursor
<1>3. s \in EditorState
  BY DEF Good
<1>4. /\ s.buffer \in Text /\ Len(s.buffer) \in Nat /\ s.mode \in Modes
      /\ s.repeat_number \in Nat \cup {UndefinedRepeat}
  BY <1>3, FieldsType
<1> HIDE DEF n, text
<1>5. CASE n.col = 0
  <2>1. previous \in Seq(Char)
    <3>1. CASE HasLine(s, n.line - 1)
      <4>1. LineAt(s, n.line - 1) \in Seq(Char)
        BY <1>1, <1>4, <3>1, ElementOfSeq DEF HasLine, LineAt, Text
      <4>2. QED
        BY <3>1, <4>1
    <3>2. CASE ~HasLine(s, n.line - 1)
      BY <3>2
    <3>3. QED
      BY <3>1, <3>2
  <2> HIDE DEF previous
  <2>2. joined \in Text /\ Len(joined) = 1
    <3>1. previous \o text \in Seq(Char)
      BY <1>1, <2>1, ConcatProperties
    <3>2. QED
      BY <3>1 DEF Text
  <2> HIDE DEF joined
  <2>3. n.line - 1 \in Int /\ -1 <= n.line - 1
        /\ (n.line - 1 >= 0 => n.line - 1 \in 0..Len(s.buffer)) /\ 2 \in Nat
    BY <1>1, <1>4
  <2>4. /\ spliced \in Text /\ Len(spliced) \in Nat
        /\ n.line - 1 \in 0..Len(s.buffer) => Len(spliced) >= n.line - 1 + Len(joined)
    BY <1>4, <2>2, <2>3, TextSplice
  <2>5. n.line - 1 <= Len(spliced)
    BY <2>2, <2>3, <2>4
  <2>6. At(n.line - 1, Len(previous)) \in Cursor
        /\ At(n.line - 1, Len(previous)).line = n.line - 1
    BY <2>1, <2>3, LenProperties DEF At, Cursor
  <2> HIDE DEF spliced
  <2>7. QED
    BY <1>2, <1>4, <1>5, <2>3, <2>4, <2>5, <2>6, MakeStateGood
<1>6. CASE n.col # 0
  <2>1. n.col - 1 \in Nat
    BY <1>1, <1>6
  <2>2. left \in Seq(Char) /\ right \in Seq(Char)
    BY <1>1, <2>1, SliceType
  <2> HIDE DEF left, right
  <2>3. left \o right \in Seq(Char)
    BY <2>2, ConcatProperties
  <2>4. shorter \in Text /\ Len(shorter) = Len(s.buffer)
    BY <1>1, <1>4, <2>3, TextExcept
  <2> HIDE DEF shorter
  <2>5. At(n.line, n.col - 1) \in Cursor /\ At(n.line, n.col - 1).line = n.line
    BY <1>1, <2>1 DEF At, Cursor
  <2>6. -1 <= n.line /\ n.line <= Len(shorter)
    BY <1>1, <1>4, <2>4
  <2>7. QED
    BY <1>2, <1>4, <1>6, <2>4, <2>5, <2>6, MakeStateGood
<1>7. QED
  BY <1>5, <1>6

(* Normalising the line only, as dd and cc do. *)
LEMMA NormalizeLineGood ==
  ASSUME NEW s \in EditorState,
         s.mode # "insert" => s.repeat_number # UndefinedRepeat
  PROVE  Good(normalize_cursor(s, TRUE, FALSE))
<1> DEFINE n == normalize_cursor(s, TRUE, FALSE)
<1>1. s \in LooseState /\ s.cursor.col \in Nat /\ Len(s.buffer) \in Nat
  BY GoodIsLoose, FieldsType
<1>2. ~NormalizeThrows(s, TRUE, FALSE)
  BY DEF NormalizeThrows
<1>3. /\ n \in EditorState /\ n.cursor.line = NormalLine(s, TRUE)
      /\ n.buffer = s.buffer /\ n.mode = s.mode
      /\ n.repeat_number = s.repeat_number
  BY <1>1, <1>2, NormalizeType
<1>4. /\ NormalLine(s, TRUE) \in Int /\ 0 <= NormalLine(s, TRUE)
      /\ NormalLine(s, TRUE) <= Len(s.buffer)
  BY <1>1, NormalLineRange
<1>5. -1 <= NormalLine(s, TRUE)
  <2> DEFINE line == NormalLine(s, TRUE)
  <2>1. line \in Int /\ 0 <= line
    BY <1>4
  <2> HIDE DEF line
  <2>2. -1 <= line
    BY <2>1
  <2>3. QED
    BY <2>2 DEF line
<1> HIDE DEF n
<1>6. Good(n)
  BY <1>3, <1>4, <1>5 DEF Good
<1>7. QED
  BY <1>6 DEF n

(* dd *)
LEMMA DeleteLineGood ==
  ASSUME NEW s, Good(s), s.repeat_number \in Nat
  PROVE  Good(delete_current_line(s))
<1> DEFINE buffer == Splice(s.buffer, s.cursor.line, 1, <<>>)
           t == make_state(s.cursor, buffer, "command", s.repeat_number)
<1>1. s \in EditorState
  BY DEF Good
<1>2. buffer \in Text
  <2>1. s.buffer \in Text /\ s.cursor.line \in Int /\ 1 \in Nat
    BY <1>1, FieldsType
  <2>2. <<>> \in Text
    BY DEF Text
  <2>3. QED
    BY <2>1, <2>2, TextSplice
<1>3. delete_current_line(s) = normalize_cursor(t, TRUE, FALSE)
  BY DEF delete_current_line
<1> HIDE DEF buffer
<1>4. s.cursor \in Cursor /\ "command" \in Modes
  BY <1>1, FieldsType DEF Modes
<1>5. s.repeat_number \in Nat \cup {UndefinedRepeat}
      /\ s.repeat_number # UndefinedRepeat
  BY DEF UndefinedRepeat
<1>6. t \in EditorState
  BY <1>2, <1>4, <1>5, MakeStateType
<1>7. t.repeat_number # UndefinedRepeat
  BY <1>5 DEF make_state
<1> HIDE DEF t
<1>8. QED
  BY <1>3, <1>6, <1>7, NormalizeLineGood

(* cc *)
LEMMA ChangeLineGood ==
  ASSUME NEW s, Good(s)
  PROVE  Good(change_current_line(s))
<1> DEFINE line == s.cursor.line
           buffer == IF HasLine(s, line) THEN [s.buffer EXCEPT ![line + 1] = <<>>]
                     ELSE IF line = Len(s.buffer) THEN Append(s.buffer, <<>>)
                     ELSE s.buffer
           t == make_state(s.cursor, buffer, "insert", s.repeat_number)
<1>1. s \in EditorState
  BY DEF Good
<1>2. /\ s.buffer \in Text /\ Len(s.buffer) \in Nat /\ s.cursor.line \in Int
      /\ s.cursor \in Cursor
      /\ s.repeat_number \in Nat \cup {UndefinedRepeat}
  BY <1>1, FieldsType
<1>3. buffer \in Text
  <2>1. <<>> \in Seq(Char)
    OBVIOUS
  <2>2. CASE HasLine(s, line)
    <3>1. line + 1 \in 1..Len(s.buffer)
      BY <1>2, <2>2 DEF HasLine
    <3>2. [s.buffer EXCEPT ![line + 1] = <<>>] \in Text
      BY <1>2, <2>1, <3>1, TextExcept
    <3>3. QED
      BY <2>2, <3>2
  <2>3. CASE ~HasLine(s, line) /\ line = Len(s.buffer)
    <3>1. Append(s.buffer, <<>>) \in Text
      BY <1>2, <2>1, AppendProperties DEF Text
    <3>2. QED
      BY <2>3, <3>1
  <2>4. CASE ~HasLine(s, line) /\ line # Len(s.buffer)
    BY <1>2, <2>4
  <2>5. QED
    BY <2>2, <2>3, <2>4
<1>4. change_current_line(s) = normalize_cursor(t, TRUE, FALSE)
  BY DEF change_current_line
<1> HIDE DEF buffer
<1>5. t \in EditorState
  BY <1>2, <1>3, MakeStateType DEF Modes
<1>6. t.mode = "insert"
  BY DEF make_state
<1> HIDE DEF t
<1>7. QED
  BY <1>4, <1>5, <1>6, NormalizeLineGood

(* d with a movement. *)
LEMMA DeleteToGood ==
  ASSUME NEW s, Good(s), s.repeat_number \in Nat, NEW target \in Cursor,
         -1 <= target.line, target.line <= Len(s.buffer),
         ~DeleteToThrows(s, target)
  PROVE  Good(delete_to_cursor(s, target))
<1>1. s \in EditorState /\ -1 <= s.cursor.line /\ s.cursor.line <= Len(s.buffer)
  BY DEF Good
<1>2. /\ s.buffer \in Text /\ Len(s.buffer) \in Nat /\ s.cursor.line \in Int
      /\ s.cursor.col \in Nat /\ "command" \in Modes
  BY <1>1, FieldsType DEF Modes
<1>3. target.line \in Int /\ target.col \in Nat
  BY DEF Cursor
<1>4. s.repeat_number \in Nat \cup {UndefinedRepeat}
      /\ s.repeat_number # UndefinedRepeat
  BY DEF UndefinedRepeat
<1>5. CASE s.cursor.line = target.line
  <2> DEFINE start == MathMin(s.cursor.col, target.col)
             end == MathMax(s.cursor.col, target.col)
             text == LineAt(s, s.cursor.line)
             left == SliceTo(text, start)
             right == SliceFrom(text, end)
             buffer == [s.buffer EXCEPT ![s.cursor.line + 1] = left \o right]
  <2>1. delete_to_cursor(s, target)
          = make_state(At(s.cursor.line, start), buffer, "command",
                       s.repeat_number)
    BY <1>5 DEF delete_to_cursor
  <2>2. start \in Nat /\ end \in Nat
    BY <1>2, <1>3 DEF MathMin, MathMax
  <2>3. s.cursor.line + 1 \in 1..Len(s.buffer)
    BY <1>2, <1>5 DEF DeleteToThrows, InBuffer, HasLine
  <2>4. text \in Seq(Char)
    BY <1>2, <2>3, ElementOfSeq DEF LineAt, Text
  <2> HIDE DEF start, end, text
  <2>5. left \in Seq(Char) /\ right \in Seq(Char)
    BY <2>2, <2>4, SliceType
  <2> HIDE DEF left, right
  <2>6. left \o right \in Seq(Char)
    BY <2>5, ConcatProperties
  <2>7. buffer \in Text /\ Len(buffer) = Len(s.buffer)
    BY <1>2, <2>3, <2>6, TextExcept
  <2> HIDE DEF buffer
  <2>8. At(s.cursor.line, start) \in Cursor
        /\ At(s.cursor.line, start).line = s.cursor.line
    BY <1>2, <2>2 DEF At, Cursor
  <2>9. QED
    BY <1>1, <1>2, <1>4, <2>1, <2>7, <2>8, MakeStateGood
<1>6. CASE s.cursor.line # target.line
  <2> DEFINE start == MathMin(s.cursor.line, target.line)
             end == MathMax(s.cursor.line, target.line)
             count == end - start + 1
             buffer == Splice(s.buffer, start, count, <<>>)
  <2>1. delete_to_cursor(s, target)
          = make_state(At(start, 0), buffer, "command", s.repeat_number)
    BY <1>6 DEF delete_to_cursor
  <2>2. /\ start \in Int /\ -1 <= start /\ start <= Len(s.buffer)
        /\ count \in Nat
    BY <1>1, <1>2, <1>3 DEF MathMin, MathMax
  <2> HIDE DEF start, count
  <2>3. start >= 0 => start \in 0..Len(s.buffer)
    BY <1>2, <2>2
  <2>4. <<>> \in Text /\ Len(<<>>) = 0
    BY DEF Text
  <2>5. /\ buffer \in Text /\ Len(buffer) \in Nat
        /\ start \in 0..Len(s.buffer) => Len(buffer) >= start + Len(<<>>)
    BY <1>2, <2>2, <2>4, TextSplice
  <2>6. start <= Len(buffer)
    BY <2>2, <2>3, <2>4, <2>5
  <2> HIDE DEF buffer
  <2>7. At(start, 0) \in Cursor /\ At(start, 0).line = start
    BY <2>2 DEF At, Cursor
  <2>8. QED
    BY <1>2, <1>4, <2>1, <2>2, <2>5, <2>6, <2>7, MakeStateGood
<1>7. QED
  BY <1>5, <1>6

-----------------------------------------------------------------------------
(* The key table.                                                          *)

(* What a bound key is bound to is one of the bindings. *)
LEMMA BoundToIsBinding ==
  ASSUME NEW group, NEW key, Bound(group, key)
  PROVE  \E b \in Bindings : b[1] = group /\ b[2] = key /\ b[3] = BoundTo(group, key)
  BY DEF Bound, BoundTo

(* Only movement keys are bound to movements, only digits to numbers. *)
LEMMA BindingFacts ==
  ASSUME NEW b \in Bindings
  PROVE  /\ b[3] # "type"
         /\ b[3] = "movement" => b[2] \in MoveKeys \cup {"G"}
         /\ b[3] = "push_repeat_number" =>
              b[1] = "repeat_number" /\ b[2] \in DigitKeys
<1>1. CASE b \in { <<"movement", k, "movement">> : k \in MoveKeys \cup {"G"} }
  BY <1>1
<1>2. CASE b \in { <<"repeat_number", k, "push_repeat_number">> : k \in DigitKeys }
  BY <1>2
<1>3. CASE /\ b \notin { <<"movement", k, "movement">> : k \in MoveKeys \cup {"G"} }
           /\ b \notin { <<"repeat_number", k, "push_repeat_number">> : k \in DigitKeys }
  BY <1>3 DEF Bindings
<1>4. QED
  BY <1>1, <1>2, <1>3

(* What the actions that depend on the mode or the key may assume. *)
LEMMA KeyFacts ==
  ASSUME NEW mode \in Modes, NEW key \in Keys
  PROVE  LET action == action_of_key[mode][key]
         IN /\ action = "type" => mode = "insert"
            /\ action = "movement" => key \in MoveKeys \cup {"G"}
            /\ action = "push_repeat_number" =>
                 mode # "insert" /\ key \in DigitKeys
<1> DEFINE sub == CHOOSE g \in Subgroups(mode) : Bound(g, key)
           subaction == BoundTo(sub, key)
<1>1. action_of_key[mode][key]
        = IF Bound(mode, key) THEN BoundTo(mode, key)
          ELSE IF \E g \in Subgroups(mode) : Bound(g, key)
               THEN subaction
               ELSE Catchall(mode)
  BY DEF action_of_key
<1>2. CASE Bound(mode, key)
  <2>1. PICK b \in Bindings :
          b[1] = mode /\ b[2] = key /\ b[3] = BoundTo(mode, key)
    BY <1>2, BoundToIsBinding
  <2>2. mode # "repeat_number"
    BY DEF Modes
  <2>3. action_of_key[mode][key] = b[3]
    BY <1>1, <1>2, <2>1
  <2>4. QED
    BY <2>1, <2>2, <2>3, BindingFacts
<1>3. CASE ~Bound(mode, key) /\ \E g \in Subgroups(mode) : Bound(g, key)
  <2>1. Bound(sub, key)
    BY <1>3
  <2>2. mode # "insert"
    BY <1>3 DEF Subgroups
  <2> HIDE DEF sub
  <2>3. PICK b \in Bindings :
          b[1] = sub /\ b[2] = key /\ b[3] = BoundTo(sub, key)
    BY <2>1, BoundToIsBinding
  <2>4. action_of_key[mode][key] = b[3]
    BY <1>1, <1>3, <2>3
  <2>5. QED
    BY <2>2, <2>3, <2>4, BindingFacts
<1>4. CASE ~Bound(mode, key) /\ ~\E g \in Subgroups(mode) : Bound(g, key)
  <2>1. action_of_key[mode][key] = Catchall(mode)
    BY <1>1, <1>4
  <2>2. /\ Catchall(mode) = "type" => mode = "insert"
        /\ Catchall(mode) # "movement"
        /\ Catchall(mode) # "push_repeat_number"
    BY DEF Catchall, Modes
  <2>3. QED
    BY <2>1, <2>2
<1>5. QED
  BY <1>2, <1>3, <1>4

(* The value of a digit key. *)
LEMMA DigitValueType ==
  ASSUME NEW key \in DigitKeys
  PROVE  DigitValue(key) \in Nat
<1> DEFINE D(n) == <<"0", "1", "2", "3", "4", "5", "6", "7", "8", "9">>[n + 1] = key
<1>1. \E n \in 0..9 : D(n)
  <2>1. /\ key = "0" => D(0) /\ 0 \in 0..9
        /\ key = "1" => D(1) /\ 1 \in 0..9
        /\ key = "2" => D(2) /\ 2 \in 0..9
        /\ key = "3" => D(3) /\ 3 \in 0..9
        /\ key = "4" => D(4) /\ 4 \in 0..9
        /\ key = "5" => D(5) /\ 5 \in 0..9
        /\ key = "6" => D(6) /\ 6 \in 0..9
        /\ key = "7" => D(7) /\ 7 \in 0..9
        /\ key = "8" => D(8) /\ 8 \in 0..9
        /\ key = "9" => D(9) /\ 9 \in 0..9
    OBVIOUS
  <2> HIDE DEF D
  <2>2. QED
    BY <2>1 DEF DigitKeys
<1>2. DigitValue(key) = CHOOSE n \in 0..9 : D(n)
  BY DEF DigitValue
<1> HIDE DEF D
<1>3. QED
  BY <1>1, <1>2

-----------------------------------------------------------------------------
(* The inductive invariant.                                                *)

(* The five invariants only hold together: that the cursor stays near the  *)
(* buffer needs the types, that a movement can multiply the repeat number  *)
(* needs NumericRepeat, and each action passes the whole state on.         *)
Inv ==
  /\ Good(state)
  /\ SaveSeesEveryEdit
  /\ focus \in {"node", "exec"}
  /\ exec_open \in BOOLEAN
  /\ FocusedWindowIsShown

(* The state handed to an action is good and has a numeric repeat number. *)
LEMMA ClearedGood ==
  ASSUME Inv
  PROVE  /\ Good(Cleared)
         /\ Cleared.repeat_number \in Nat
         /\ Cleared.mode = state.mode
         /\ Cleared.buffer = state.buffer
<1>1. Good(state)
  BY DEF Inv
<1>2. state \in EditorState /\ -1 <= state.cursor.line
      /\ state.cursor.line <= Len(state.buffer)
  BY <1>1 DEF Good
<1>3. Good(Cleared)
  BY <1>2, FieldsType, ZeroRepeat, MakeStateGood DEF Cleared
<1>4. QED
  BY <1>3 DEF Cleared, make_state

(* An action that returns a good state preserves the invariant. *)
LEMMA CompletesInv ==
  ASSUME Inv, NEW s, Good(s), Completes(s)
  PROVE  Inv'
<1>1. state' = s /\ saved' = s.buffer /\ focus' = focus /\ exec_open' = exec_open
  BY DEF Completes
<1>2. Good(s)'
  BY <1>1 DEF Good
<1>3. Good(state)'
  BY <1>1, <1>2 DEF Good
<1>4. QED
  BY <1>1, <1>3 DEF Inv, SaveSeesEveryEdit, FocusedWindowIsShown

(* An action that throws preserves the invariant. *)
LEMMA FailsInv ==
  ASSUME Inv, Fails
  PROVE  Inv'
<1>1. state' = Cleared /\ saved' = saved /\ focus' = focus /\ exec_open' = exec_open
  BY DEF Fails
<1>2. Good(Cleared) /\ Cleared.buffer = state.buffer
  BY ClearedGood
<1>3. Good(state)'
  BY <1>1, <1>2 DEF Good
<1>4. QED
  BY <1>1, <1>2, <1>3 DEF Inv, SaveSeesEveryEdit, FocusedWindowIsShown

(* The page is opened in a state that satisfies the invariant. *)
LEMMA InitInv == Init => Inv
<1> SUFFICES ASSUME Init PROVE Inv
  OBVIOUS
<1>1. PICK buffer \in InitialBuffers :
        state = make_state(At(0, 0), buffer, "command", 0)
  BY DEF Init
<1>2. buffer \in Text /\ Len(buffer) \in Nat
  BY EditorAssumption, LenProperties DEF Text
<1>3. At(0, 0) \in Cursor /\ At(0, 0).line = 0
  BY DEF At, Cursor
<1>4. Good(state)
  BY <1>1, <1>2, <1>3, ZeroRepeat, MakeStateGood DEF Modes
<1>5. QED
  BY <1>4 DEF Init, Inv, SaveSeesEveryEdit, FocusedWindowIsShown

(* A key pressed in the editor preserves the invariant. *)
LEMMA NodeKeyInv ==
  ASSUME Inv, NEW key \in Keys, NodeKey(key)
  PROVE  Inv'
<1> USE ClearedGood
<1>0. Good(state) /\ state \in EditorState /\ state.mode \in Modes
  BY FieldsType DEF Inv, Good
<1>1. CASE OpenExec(key)
  <2>1. Good(state)' /\ state'.buffer = state.buffer
    BY <1>1 DEF OpenExec, Good
  <2>2. QED
    BY <1>1, <2>1 DEF OpenExec, Inv, SaveSeesEveryEdit, FocusedWindowIsShown
<1>2. CASE Insert(key)
  BY <1>2, InsertGood, CompletesInv DEF Insert
<1>3. CASE InsertLine(key)
  BY <1>3, InsertLineGood, CompletesInv DEF InsertLine
<1>4. CASE EnterMode(key)
  BY <1>4, EnterModeGood, CompletesInv DEF EnterMode, Modes
<1>5. CASE DeleteLine(key)
  BY <1>5, DeleteLineGood, CompletesInv DEF DeleteLine
<1>6. CASE ChangeLine(key)
  BY <1>6, ChangeLineGood, CompletesInv DEF ChangeLine
<1>7. CASE GotoFirstLine(key)
  BY <1>7, GotoGood, CompletesInv, FailsInv DEF GotoFirstLine
<1>8. CASE PushRepeatNumber(key)
  <2> DEFINE number == state.repeat_number * 10 + DigitValue(key)
             s == make_state(state.cursor, state.buffer, state.mode, number)
  <2>1. Completes(s)
    BY <1>8 DEF PushRepeatNumber
  <2>2. state.mode # "insert" /\ key \in DigitKeys
    BY <1>0, <1>8, KeyFacts DEF PushRepeatNumber, Pressed
  <2>3. state.repeat_number \in Nat
    BY <1>0, <2>2, FieldsType DEF Good
  <2>4. number \in Nat
    BY <2>2, <2>3, DigitValueType
  <2> HIDE DEF number
  <2>5. number \in Nat \cup {UndefinedRepeat} /\ number # UndefinedRepeat
    BY <2>4 DEF UndefinedRepeat
  <2>6. Good(s)
    <3>1. /\ state.cursor \in Cursor /\ state.buffer \in Text
          /\ -1 <= state.cursor.line /\ state.cursor.line <= Len(state.buffer)
      BY <1>0, FieldsType DEF Good
    <3>2. QED
      BY <1>0, <2>5, <3>1, MakeStateGood
  <2> HIDE DEF s
  <2>7. QED
    BY <2>1, <2>6, CompletesInv
<1>9. CASE Movement(key)
  <2> DEFINE target == MovementTarget(Cleared, key, Repeat)
             s == make_state(target, state.buffer, state.mode, 0)
  <2>1. CASE Fails
    BY <2>1, FailsInv
  <2>2. CASE ~Fails
    <3>1. /\ Pressed(key, "movement")
          /\ ~MovementThrows(Cleared, key)
          /\ \/ state.mode = "command" /\ Completes(s)
             \/ /\ ~DeleteToThrows(Cleared, target)
                /\ \/ Completes(delete_to_cursor(Cleared, target))
                   \/ Completes(change_to_cursor(Cleared, target))
          /\ state.mode \in {"command", "delete", "change"}
      BY <1>9, <2>2 DEF Movement
    <3>2. key \in MoveKeys \cup {"G"}
      BY <1>0, <3>1, KeyFacts DEF Pressed
    <3>3. Repeat \in Int
      <4>1. state.repeat_number \in Nat \cup {UndefinedRepeat}
        BY <1>0, FieldsType
      <4>2. QED
        BY <4>1 DEF Repeat, UndefinedRepeat
    <3>4. /\ target \in Cursor
          /\ -1 <= target.line /\ target.line <= Len(state.buffer)
      BY <3>1, <3>2, <3>3, MovementTargetType
    <3> HIDE DEF target
    <3>5. Good(s)
      <4>1. state.buffer \in Text
        BY <1>0, FieldsType
      <4>2. QED
        BY <1>0, <3>4, <4>1, ZeroRepeat, MakeStateGood
    <3> HIDE DEF s
    <3>6. ~DeleteToThrows(Cleared, target) =>
            /\ Good(delete_to_cursor(Cleared, target))
            /\ Good(change_to_cursor(Cleared, target))
      BY <3>4, DeleteToGood, EnterModeGood DEF change_to_cursor, Modes
    <3>7. QED
      BY <3>1, <3>5, <3>6, CompletesInv
  <2>3. QED
    BY <2>1, <2>2
<1>10. CASE Type(key)
  <2>1. state.mode = "insert"
    BY <1>0, <1>10, KeyFacts DEF Type, Pressed
  <2>2. key \in TypedKeys => KeyText[key] \in Seq(Char)
    BY EditorAssumption
  <2>3. QED
    BY <1>10, <2>1, <2>2, DeleteCharGood, BreakLineGood, InsertStringGood,
       CompletesInv, FailsInv DEF Type
<1>11. QED
  BY <1>1, <1>2, <1>3, <1>4, <1>5, <1>6, <1>7, <1>8, <1>9, <1>10 DEF NodeKey

(* Every step preserves the invariant. *)
LEMMA NextInv == Inv /\ [Next]_vars => Inv'
<1> SUFFICES ASSUME Inv, [Next]_vars PROVE Inv'
  OBVIOUS
<1>1. ASSUME NEW key \in Keys, NodeKey(key) PROVE Inv'
  BY <1>1, NodeKeyInv
<1>2. ASSUME NEW line \in GotoLines, ExecGoto(line) PROVE Inv'
  <2> DEFINE s == goto_line(state, line)
  <2>1. line \in Int
    BY EditorAssumption
  <2>2. Good(s) /\ s.buffer = state.buffer
    BY <1>2, <2>1, GotoGood DEF ExecGoto, Inv
  <2>3. state' = s /\ saved' = saved
        /\ (\/ exec_open' = FALSE /\ focus' = "node"
            \/ exec_open' = exec_open /\ focus' = focus)
    BY <1>2 DEF ExecGoto, ExecCompletes
  <2> HIDE DEF s
  <2>4. Good(state)'
    BY <2>2, <2>3 DEF Good
  <2>5. QED
    BY <2>2, <2>3, <2>4 DEF Inv, SaveSeesEveryEdit, FocusedWindowIsShown
<1>3. CASE ExecOther
  BY <1>3 DEF ExecOther, ExecCompletes, Inv, Good, SaveSeesEveryEdit,
     FocusedWindowIsShown
<1>4. CASE ExecEscape
  BY <1>4 DEF ExecEscape, Inv, Good, SaveSeesEveryEdit, FocusedWindowIsShown
<1>5. CASE Click
  BY <1>5 DEF Click, Inv, Good, SaveSeesEveryEdit, FocusedWindowIsShown
<1>6. CASE UNCHANGED vars
  BY <1>6 DEF vars, Inv, Good, SaveSeesEveryEdit, FocusedWindowIsShown
<1>7. QED
  BY <1>1, <1>2, <1>3, <1>4, <1>5, <1>6 DEF Next

(* In every behaviour of the editor the invariant holds throughout. *)
THEOREM Invariant == Spec => []Inv
  BY InitInv, NextInv, PTL DEF Spec

-----------------------------------------------------------------------------
(* The theorems.                                                           *)

(* Type correctness: no sequence of keys, in any file, gives the cursor a  *)
(* negative column or the state a value that is not a state.               *)
THEOREM TypeCorrect == Spec => []TypeOK
<1>1. Inv => TypeOK
  <2> SUFFICES ASSUME Inv PROVE TypeOK
    OBVIOUS
  <2>1. state \in EditorState /\ saved = state.buffer
    BY DEF Inv, Good, SaveSeesEveryEdit
  <2>2. saved \in Seq(Seq(Char))
    BY <2>1, FieldsType DEF Text
  <2>3. QED
    BY <2>1, <2>2 DEF Inv, TypeOK
<1>2. QED
  BY <1>1, Invariant, PTL

(* The cursor is never more than one line outside the buffer. *)
THEOREM CursorStaysNear == Spec => []CursorNearBuffer
<1>1. Inv => CursorNearBuffer
  BY DEF Inv, Good, CursorNearBuffer
<1>2. QED
  BY <1>1, Invariant, PTL

(* No path of the handlers changes the text without handing it to save. *)
THEOREM EveryEditIsSaved == Spec => []SaveSeesEveryEdit
<1>1. Inv => SaveSeesEveryEdit
  BY DEF Inv
<1>2. QED
  BY <1>1, Invariant, PTL

(* No movement or digit ever meets the undefined repeat number. *)
THEOREM RepeatIsNumeric == Spec => []NumericRepeat
<1>1. Inv => NumericRepeat
  BY DEF Inv, Good, NumericRepeat
<1>2. QED
  BY <1>1, Invariant, PTL

(* The exec window is shown whenever it has the keys. *)
THEOREM FocusIsVisible == Spec => []FocusedWindowIsShown
<1>1. Inv => FocusedWindowIsShown
  BY DEF Inv
<1>2. QED
  BY <1>1, Invariant, PTL

-----------------------------------------------------------------------------
(* Where an operation leaves the cursor, and which lines it keeps.         *)

(* w is u followed by v, element by element. *)
Joins(w, u, v) ==
  /\ Len(w) = Len(u) + Len(v)
  /\ \A i \in 1 .. Len(u) : w[i] = u[i]
  /\ \A i \in 1 .. Len(v) : w[Len(u) + i] = v[i]

(* The pieces of a concatenation. *)
LEMMA Glued ==
  ASSUME NEW S, NEW u \in Seq(S), NEW v \in Seq(S)
  PROVE  u \o v \in Seq(S) /\ Joins(u \o v, u, v)
<1>1. u \o v \in Seq(S) /\ Len(u \o v) = Len(u) + Len(v)
  BY ConcatProperties
<1>2. ASSUME NEW i \in 1 .. Len(u) PROVE (u \o v)[i] = u[i]
  BY ConcatProperties, LenProperties
<1>3. ASSUME NEW i \in 1 .. Len(v) PROVE (u \o v)[Len(u) + i] = v[i]
  BY ConcatProperties, LenProperties
<1> QED BY <1>1, <1>2, <1>3 DEF Joins

(* The start and the end of a sequence. *)
LEMMA Pieces ==
  ASSUME NEW S, NEW s \in Seq(S), NEW a \in 0 .. Len(s), NEW b \in 0 .. Len(s)
  PROVE  /\ SubSeq(s, 1, a) \in Seq(S) /\ Len(SubSeq(s, 1, a)) = a
         /\ \A i \in 1 .. a : SubSeq(s, 1, a)[i] = s[i]
         /\ SubSeq(s, b + 1, Len(s)) \in Seq(S) /\ Len(SubSeq(s, b + 1, Len(s))) = Len(s) - b
         /\ \A i \in 1 .. Len(s) - b : SubSeq(s, b + 1, Len(s))[i] = s[b + i]
<1>1. Len(s) \in Nat /\ \A i \in 1 .. Len(s) : s[i] \in S
  BY LenProperties, ElementOfSeq
<1>2. SubSeq(s, 1, a) = [i \in 1 .. a |-> s[i]]
  BY <1>1
<1>3. SubSeq(s, b + 1, Len(s)) = [i \in 1 .. Len(s) - b |-> s[b + i]]
  BY <1>1
<1>4. SubSeq(s, 1, a) \in Seq(S) /\ Len(SubSeq(s, 1, a)) = a
  BY <1>1
<1>5. SubSeq(s, b + 1, Len(s)) \in Seq(S) /\ Len(SubSeq(s, b + 1, Len(s))) = Len(s) - b
  BY <1>1
<1> QED BY <1>2, <1>3, <1>4, <1>5

(* t is s with count elements after the first a replaced by items. *)
Spliced(t, s, a, count, items) ==
  /\ Len(t) = Len(s) - count + Len(items)
  /\ \A i \in 1 .. a : t[i] = s[i]
  /\ \A i \in 1 .. Len(items) : t[a + i] = items[i]
  /\ \A i \in 1 .. Len(s) - (a + count) : t[a + Len(items) + i] = s[a + count + i]

(* A splice inside the array: what it returns, element by element. *)
LEMMA SpliceInside ==
  ASSUME NEW S, NEW s \in Seq(S), NEW a \in 0 .. Len(s), NEW count \in 0 .. Len(s) - a,
         NEW items \in Seq(S)
  PROVE  /\ Splice(s, a, count, items)
              = (SubSeq(s, 1, a) \o items) \o SubSeq(s, a + count + 1, Len(s))
         /\ Splice(s, a, count, items) \in Seq(S)
         /\ Spliced(Splice(s, a, count, items), s, a, count, items)
<1> DEFINE b == a + count
           u == SubSeq(s, 1, a)
           v == SubSeq(s, b + 1, Len(s))
           w == u \o items
<1>1. Len(s) \in Nat /\ Len(items) \in Nat /\ a \in Nat /\ count \in Nat /\ b \in 0 .. Len(s)
  BY LenProperties
<1>2. SpliceStart(s, a) = a
  BY <1>1 DEF SpliceStart, MathMin
<1>3. SpliceEnd(s, a, count) = b
  BY <1>1, <1>2 DEF SpliceEnd, MathMin, MathMax
<1>4. Splice(s, a, count, items) = w \o v
  BY <1>2, <1>3 DEF Splice
<1>5. /\ u \in Seq(S) /\ Len(u) = a /\ \A i \in 1 .. a : u[i] = s[i]
      /\ v \in Seq(S) /\ Len(v) = Len(s) - b /\ \A i \in 1 .. Len(s) - b : v[i] = s[b + i]
  BY <1>1, Pieces
<1> HIDE DEF u, v
<1>a. u \in Seq(S) /\ v \in Seq(S) /\ Len(u) = a /\ Len(v) = Len(s) - b
  BY <1>5
<1>6. /\ w \in Seq(S) /\ Len(w) = Len(u) + Len(items)
      /\ \A i \in 1 .. Len(u) : w[i] = u[i]
      /\ \A i \in 1 .. Len(items) : w[Len(u) + i] = items[i]
  <2>1. w \in Seq(S) /\ Joins(w, u, items)
    BY <1>a, Glued
  <2> QED BY <2>1 DEF Joins
<1> HIDE DEF w
<1>b. w \in Seq(S) /\ Len(w) = a + Len(items)
  BY <1>a, <1>6
<1>7. /\ w \o v \in Seq(S) /\ Len(w \o v) = Len(w) + Len(v)
      /\ \A i \in 1 .. Len(w) : (w \o v)[i] = w[i]
      /\ \A i \in 1 .. Len(v) : (w \o v)[Len(w) + i] = v[i]
  <2>1. w \o v \in Seq(S) /\ Joins(w \o v, w, v)
    BY <1>a, <1>b, Glued
  <2> QED BY <2>1 DEF Joins
<1>8. ASSUME NEW i \in 1 .. a PROVE (w \o v)[i] = s[i]
  <2>1. i \in 1 .. Len(w) /\ i \in 1 .. Len(u)
    BY <1>1, <1>a, <1>b
  <2> QED BY <1>5, <1>6, <1>7, <2>1
<1>9. ASSUME NEW i \in 1 .. Len(items) PROVE (w \o v)[a + i] = items[i]
  <2>1. a + i \in 1 .. Len(w)
    BY <1>1, <1>5, <1>6
  <2> QED BY <1>5, <1>6, <1>7, <2>1
<1>10. ASSUME NEW i \in 1 .. Len(s) - b PROVE (w \o v)[a + Len(items) + i] = s[b + i]
  BY <1>5, <1>6, <1>7
<1>11. Len(w \o v) = Len(s) - count + Len(items)
  BY <1>1, <1>5, <1>6, <1>7
<1> HIDE DEF b
<1>12. b = a + count
  BY DEF b
<1>13. Spliced(w \o v, s, a, count, items)
  BY <1>8, <1>9, <1>10, <1>11, <1>12 DEF Spliced
<1> QED BY <1>4, <1>7, <1>12, <1>13 DEF u, v, w

(* The line that text operations work on: the cursor's own if it has one,  *)
(* which it can only lack by being outside the buffer.                     *)
LEMMA OwnLine ==
  ASSUME NEW s, Good(s), InBuffer(s)
  PROVE  /\ NormalLine(s, TRUE) = s.cursor.line
         /\ ~TextThrows(s)
         /\ s.cursor.line \in 0 .. Len(s.buffer) - 1
         /\ s.cursor.line + 1 \in 1 .. Len(s.buffer)
<1>1. s \in EditorState /\ s.cursor.line \in Int /\ Len(s.buffer) \in Nat
  BY FieldsType DEF Good
<1>2. 0 <= s.cursor.line /\ s.cursor.line < Len(s.buffer)
  BY DEF InBuffer, HasLine
<1> DEFINE l == NormalLine(s, TRUE)
<1>3. l = s.cursor.line
  <2>1. l = MathMax(0, MathMin(s.cursor.line, Len(s.buffer) + EndOfLine(s)))
    BY DEF NormalLine
  <2>2. EndOfLine(s) \in {0, -1}
    BY DEF EndOfLine
  <2>3. \A i, n \in Int, e \in {0, -1} : 0 <= i /\ i < n => MathMax(0, MathMin(i, n + e)) = i
    BY DEF MathMin, MathMax
  <2> HIDE DEF l
  <2> QED BY <1>1, <1>2, <2>1, <2>2, <2>3
<1>4. ~TextThrows(s)
  <2>1. TextThrows(s) = ~HasLine(s, l)
    BY DEF TextThrows, NormalizeThrows
  <2> HIDE DEF l
  <2> QED BY <1>2, <1>3, <2>1 DEF HasLine
<1>5. s.cursor.line \in 0 .. Len(s.buffer) - 1 /\ s.cursor.line + 1 \in 1 .. Len(s.buffer)
  BY <1>1, <1>2
<1> QED BY <1>3, <1>4, <1>5

(* The columns: in insert mode the normalised cursor is in the line's text *)
(* or just behind it.                                                      *)
LEMMA InsertColumn ==
  ASSUME NEW s, Good(s), s.mode = "insert", ~TextThrows(s)
  PROVE  LET n == normalize_cursor(s, TRUE, TRUE).cursor
         IN /\ n = At(NormalLine(s, TRUE), MathMax(0, MathMin(s.cursor.col, Len(LineAt(s, n.line)))))
            /\ n.line = NormalLine(s, TRUE)
            /\ n.col \in 0 .. Len(LineAt(s, n.line))
<1> DEFINE n == normalize_cursor(s, TRUE, TRUE).cursor
           line == NormalLine(s, TRUE)
           col == MathMax(0, MathMin(s.cursor.col, Len(LineAt(s, line)) + EndOfLine(s)))
<1>1. n = At(line, col)
  BY DEF normalize_cursor, make_state
<1>2. n.line = line /\ n.col = col
  <2> HIDE DEF n, line, col
  <2> QED BY <1>1 DEF At
<1>3. LineAt(s, n.line) \in Seq(Char)
  BY TextPlace
<1>4. Len(LineAt(s, line)) \in Nat /\ s.cursor.col \in Nat
  BY <1>2, <1>3, FieldsType, LenProperties DEF Good
<1>5. EndOfLine(s) = 0
  BY DEF EndOfLine
<1>6. col = MathMax(0, MathMin(s.cursor.col, Len(LineAt(s, line))))
  BY <1>4, <1>5
<1>7. col \in 0 .. Len(LineAt(s, line))
  <2> HIDE DEF col, line
  <2> QED BY <1>4, <1>6 DEF MathMax, MathMin
<1> QED BY <1>1, <1>2, <1>6, <1>7

(* A movement that starts in the buffer ends there, except in insert mode, *)
(* which has no movements.                                                 *)
LEMMA MovementLands ==
  ASSUME NEW s, Good(s), InBuffer(s), s.mode # "insert",
         NEW key \in MoveKeys \cup {"G"}, NEW repeat \in Int
  PROVE  /\ ~MovementThrows(s, key)
         /\ MovementTarget(s, key, repeat).line \in 0 .. Len(s.buffer) - 1
         /\ MovementTarget(s, key, repeat).col \in Nat
<1>0. /\ s \in EditorState /\ s \in LooseState
      /\ s.cursor.line \in 0 .. Len(s.buffer) - 1 /\ Len(s.buffer) \in Nat
      /\ s.cursor.col \in Nat
  BY FieldsType, OwnLine, GoodIsLoose DEF Good
<1>1. ~MovementThrows(s, key)
  BY DEF MovementThrows
<1>2. MovementTarget(s, key, repeat) \in Cursor
  BY <1>1, MovementTargetType
<1>3. MovementTarget(s, key, repeat).col \in Nat
  BY <1>2 DEF Cursor
<1>4. CASE key = "G"
  <2>1. MovementTarget(s, key, repeat).line = Len(s.buffer) - 1
    BY <1>4 DEF MovementTarget, move_cursor_end_of_file, At
  <2> QED BY <1>0, <1>1, <1>3, <2>1
<1>5. CASE key # "G"
  <2> DEFINE offset == Offset(key)
             byLine == offset.lines # 0
             byCol == offset.cols # 0
             start == normalize_cursor(s, byLine, byCol)
             down == offset.lines * repeat
             right == offset.cols * repeat
             moved == make_state(At(start.cursor.line + down, start.cursor.col + right),
                                 start.buffer, start.mode, start.repeat_number)
  <2>1. key \in MoveKeys /\ offset \in [lines : Int, cols : Int] /\ (offset.cols = 0 \/ offset.lines = 0)
    BY <1>5, OffsetType
  <2>2. MovementTarget(s, key, repeat) = normalize_cursor(moved, byLine, byCol).cursor
    BY <1>5 DEF MovementTarget, move_cursor
  <2>3. MovementTarget(s, key, repeat).line = NormalLine(moved, byLine)
    BY <2>2 DEF normalize_cursor, make_state, At
  <2>4. /\ start.cursor.line = NormalLine(s, byLine) /\ start.buffer = s.buffer /\ start.mode = s.mode
    BY DEF normalize_cursor, make_state, At
  <2>5. NormalLine(s, byLine) = s.cursor.line
    BY OwnLine DEF NormalLine
  <2>6. down \in Int /\ (offset.lines = 0 => down = 0)
    BY <2>1
  <2>7. moved.cursor.line = s.cursor.line + down /\ moved.buffer = s.buffer /\ moved.mode = s.mode
    BY <2>4, <2>5 DEF make_state, At
  <2> HIDE DEF moved, down
  <2>8. EndOfLine(moved) = -1
    BY <2>7 DEF EndOfLine
  <2>9. NormalLine(moved, byLine) \in 0 .. Len(s.buffer) - 1
    <3>1. CASE byLine
      <4>1. NormalLine(moved, byLine) = MathMax(0, MathMin(s.cursor.line + down, Len(s.buffer) + (-1)))
        BY <2>7, <2>8, <3>1 DEF NormalLine
      <4> HIDE DEF byLine
      <4> QED BY <1>0, <2>6, <4>1 DEF MathMax, MathMin
    <3>2. CASE ~byLine
      <4>1. NormalLine(moved, byLine) = s.cursor.line
        BY <1>0, <2>6, <2>7, <3>2 DEF NormalLine
      <4> QED BY <1>0, <4>1
    <3> QED BY <3>1, <3>2
  <2> QED BY <1>1, <1>3, <2>3, <2>9
<1> QED BY <1>4, <1>5

(* What there is of a line of n characters between two columns, and how    *)
(* much it may be for a movement that was repeated from the column col.    *)
Stretch(col, target, n) ==
  MathMin(MathMax(col, target), n) - MathMin(MathMin(col, target), n)
Limit(col, n, repeat) == repeat + IF col < n THEN 0 ELSE 1

(* The stretch of the cursor's line up to the target is within the limit. *)
Near(s, target, limit) ==
  Stretch(s.cursor.col, target.col, Len(s.buffer[s.cursor.line + 1])) <= limit

(* A movement along the line goes no further than its repeat number says,  *)
(* from the last character if the cursor is behind it.                     *)
LEMMA ColumnReach ==
  ASSUME NEW col \in Nat, NEW n \in Nat, NEW repeat \in Nat, NEW right \in {repeat, -repeat}
  PROVE  LET start == MathMax(0, MathMin(col, n + (-1)))
             target == MathMax(0, MathMin(start + right, n + (-1)))
         IN Stretch(col, target, n) <= Limit(col, n, repeat)
<1> DEFINE start == MathMax(0, MathMin(col, n + (-1)))
           target == MathMax(0, MathMin(start + right, n + (-1)))
<1>1. CASE n = 0
  <2>1. start = 0 /\ target = 0
    BY <1>1 DEF MathMax, MathMin
  <2> HIDE DEF start, target
  <2>2. Stretch(col, target, n) = 0 /\ Limit(col, n, repeat) >= 0
    BY <1>1, <2>1 DEF Stretch, Limit, MathMax, MathMin
  <2>3. Stretch(col, target, n) <= Limit(col, n, repeat)
    BY <2>2
  <2> QED BY <2>3 DEF start, target
<1>2. CASE n > 0
  <2>1. start = IF col < n THEN col ELSE n - 1
    BY <1>2 DEF MathMax, MathMin
  <2> HIDE DEF start
  <2>2. target \in 0 .. n - 1 /\ target - start <= repeat /\ start - target <= repeat
    BY <1>2, <2>1 DEF MathMax, MathMin
  <2> HIDE DEF target
  <2>3. CASE col < n
    BY <1>2, <2>1, <2>2, <2>3 DEF Stretch, Limit, MathMax, MathMin
  <2>4. CASE ~(col < n)
    BY <1>2, <2>1, <2>2, <2>4 DEF Stretch, Limit, MathMax, MathMin
  <2> QED BY <2>3, <2>4 DEF start, target
<1> QED BY <1>1, <1>2

(* So the stretch between the cursor and the place a movement leads to is  *)
(* no longer than that.                                                    *)
LEMMA MovementReach ==
  ASSUME NEW s, Good(s), InBuffer(s), s.mode # "insert",
         NEW key \in MoveKeys \cup {"G"}, NEW repeat \in Nat
  PROVE  LET n == Len(s.buffer[s.cursor.line + 1])
         IN Stretch(s.cursor.col, MovementTarget(s, key, repeat).col, n)
              <= Limit(s.cursor.col, n, repeat)
<1> DEFINE n == Len(s.buffer[s.cursor.line + 1])
           c == s.cursor.col
           target == MovementTarget(s, key, repeat)
<1>1. /\ c \in Nat /\ s.cursor.line + 1 \in 1 .. Len(s.buffer) /\ s.buffer \in Text
      /\ s.cursor.line \in Int
  BY FieldsType, OwnLine DEF Good
<1>2. n \in Nat
  <2>1. s.buffer[s.cursor.line + 1] \in Seq(Char)
    BY <1>1, ElementOfSeq DEF Text
  <2> QED BY <2>1, LenProperties
<1>3. ASSUME target.col = c PROVE Stretch(c, target.col, n) <= Limit(c, n, repeat)
  <2> HIDE DEF n, c, target
  <2> QED BY <1>1, <1>2, <1>3 DEF Stretch, Limit, MathMax, MathMin
<1>4. CASE key = "G"
  <2>1. target.col = c
    BY <1>4 DEF MovementTarget, move_cursor_end_of_file, At
  <2> QED BY <1>3, <2>1
<1>5. CASE key # "G"
  <2> DEFINE offset == Offset(key)
             byLine == offset.lines # 0
             byCol == offset.cols # 0
             start == normalize_cursor(s, byLine, byCol)
             down == offset.lines * repeat
             right == offset.cols * repeat
             moved == make_state(At(start.cursor.line + down, start.cursor.col + right),
                                 start.buffer, start.mode, start.repeat_number)
  <2>1. /\ key \in MoveKeys /\ offset.cols \in {-1, 0, 1} /\ offset.lines \in Int
        /\ offset.cols = 0 \/ offset.lines = 0
    BY <1>5 DEF MoveKeys, Offset
  <2>2. target = normalize_cursor(moved, byLine, byCol).cursor
    BY <1>5 DEF MovementTarget, move_cursor
  <2>3. start.cursor.line = NormalLine(s, byLine) /\ start.buffer = s.buffer /\ start.mode = s.mode
    BY DEF normalize_cursor, make_state, At
  <2>4. NormalLine(s, byLine) = s.cursor.line
    BY OwnLine DEF NormalLine
  <2>5. CASE ~byCol
    <3>1. start.cursor.col = c
      BY <2>5 DEF normalize_cursor, make_state, At
    <3>2. right = 0
      BY <2>1, <2>5
    <3> HIDE DEF start, right
    <3>3. moved.cursor.col = c
      BY <1>1, <3>1, <3>2 DEF make_state, At
    <3> HIDE DEF moved
    <3>4. target.col = moved.cursor.col
      BY <2>2, <2>5 DEF normalize_cursor, make_state, At
    <3> QED BY <1>3, <3>3, <3>4
  <2>6. CASE byCol
    <3>1. down = 0 /\ ~byLine /\ right \in {repeat, -repeat}
      BY <2>1, <2>6
    <3>2. EndOfLine(s) = -1
      BY DEF EndOfLine
    <3>3. LineAt(s, s.cursor.line) = s.buffer[s.cursor.line + 1]
      BY DEF LineAt
    <3>4. start.cursor.col = MathMax(0, MathMin(c, n + (-1)))
      BY <2>4, <2>6, <3>2, <3>3 DEF normalize_cursor, make_state, At
    <3> HIDE DEF start, down, right
    <3>5. /\ moved.cursor.line = s.cursor.line /\ moved.cursor.col = start.cursor.col + right
          /\ moved.buffer = s.buffer /\ moved.mode = s.mode
      BY <1>1, <2>3, <2>4, <3>1 DEF make_state, At
    <3> HIDE DEF moved
    <3>6. /\ EndOfLine(moved) = -1 /\ NormalLine(moved, byLine) = s.cursor.line
          /\ LineAt(moved, s.cursor.line) = s.buffer[s.cursor.line + 1]
      BY <3>1, <3>5 DEF EndOfLine, NormalLine, LineAt
    <3>7. target.col = MathMax(0, MathMin(moved.cursor.col, n + (-1)))
      <4> HIDE DEF byLine, byCol
      <4> QED BY <2>2, <2>6, <3>6 DEF normalize_cursor, make_state, At
    <3> HIDE DEF n, c, target
    <3>8. target.col = MathMax(0, MathMin(MathMax(0, MathMin(c, n + (-1))) + right, n + (-1)))
      BY <3>4, <3>5, <3>7
    <3>9. Stretch(c, target.col, n) <= Limit(c, n, repeat)
      BY <1>1, <1>2, <3>1, <3>8, ColumnReach
    <3> QED BY <3>9 DEF n, c, target
  <2> QED BY <2>5, <2>6
<1> QED BY <1>4, <1>5

(* A goto from any place of a file that has a line ends in the file, but   *)
(* in insert mode the line past the end would be admitted.                 *)
LEMMA GotoNeverThrows ==
  ASSUME NEW s, Good(s), InBuffer(s), s.mode # "insert", NEW line \in Int
  PROVE  ~GotoThrows(s, line)
<1>0. Len(s.buffer) \in Nat /\ s.cursor.line \in 0 .. Len(s.buffer) - 1
  BY FieldsType, OwnLine DEF Good
<1> DEFINE t == AtLine(s, line)
<1>1. t.buffer = s.buffer /\ t.mode = s.mode /\ t.cursor.line = line
  BY DEF AtLine, make_state, At
<1>2. NormalLine(t, TRUE) = MathMax(0, MathMin(line, Len(s.buffer) + (-1)))
  <2> HIDE DEF t
  <2> QED BY <1>1 DEF NormalLine, EndOfLine
<1> HIDE DEF t
<1>3. HasLine(t, NormalLine(t, TRUE))
  <2>1. MathMax(0, MathMin(line, Len(s.buffer) + (-1))) \in 0 .. Len(s.buffer) - 1
    BY <1>0 DEF MathMax, MathMin
  <2> DEFINE l == NormalLine(t, TRUE)
  <2>2. l \in 0 .. Len(t.buffer) - 1 /\ Len(t.buffer) \in Nat
    BY <1>0, <1>1, <1>2, <2>1
  <2> HIDE DEF l
  <2>3. HasLine(t, l)
    BY <2>2 DEF HasLine
  <2> QED BY <2>3 DEF l
<1> QED BY <1>3 DEF GotoThrows, NormalizeThrows, t

(* A key handler can throw only when the cursor has left the buffer, for   *)
(* any file, any key and any line number given to goto.                    *)
THEOREM FaultsComeFromStrayCursors == Spec => []FaultsNeedStrayCursor
<1>1. Inv => FaultsNeedStrayCursor
  <2> SUFFICES ASSUME Inv, InBuffer(state)
               PROVE  /\ ~TextThrows(state)
                      /\ \A key \in MoveKeys \cup {"G"} :
                           /\ ~MovementThrows(state, key)
                           /\ ~DeleteToThrows(state, MovementTarget(state, key, 1))
                      /\ state.mode # "insert" =>
                           \A line \in GotoLines \cup {0} : ~GotoThrows(state, line)
    BY DEF FaultsNeedStrayCursor
  <2>1. Good(state)
    BY DEF Inv
  <2>2. ~TextThrows(state)
    BY <2>1, OwnLine
  <2>3. \A key \in MoveKeys \cup {"G"} :
           /\ ~MovementThrows(state, key)
           /\ ~DeleteToThrows(state, MovementTarget(state, key, 1))
    BY DEF MovementThrows, DeleteToThrows
  <2>4. ASSUME state.mode # "insert", NEW line \in GotoLines \cup {0} PROVE ~GotoThrows(state, line)
    BY <2>1, <2>4, EditorAssumption, GotoNeverThrows
  <2> QED BY <2>2, <2>3, <2>4
<1> QED BY <1>1, Invariant, PTL

(* A splice that puts nothing in cuts a range out. *)
LEMMA SpliceCuts ==
  ASSUME NEW S, NEW s \in Seq(S), NEW a \in 0 .. Len(s), NEW count \in 0 .. Len(s) - a
  PROVE  /\ Splice(s, a, count, <<>>) = Without(s, a, a + count)
         /\ Splice(s, a, count, <<>>) \in Seq(S)
         /\ Len(Splice(s, a, count, <<>>)) = Len(s) - count
<1>1. <<>> \in Seq(S) /\ Len(<<>>) = 0
  OBVIOUS
<1>2. /\ Splice(s, a, count, <<>>)
              = (SubSeq(s, 1, a) \o <<>>) \o SubSeq(s, a + count + 1, Len(s))
      /\ Splice(s, a, count, <<>>) \in Seq(S)
      /\ Spliced(Splice(s, a, count, <<>>), s, a, count, <<>>)
  BY <1>1, SpliceInside
<1>3. SubSeq(s, 1, a) \in Seq(S)
  BY Pieces
<1>4. SubSeq(s, 1, a) \o <<>> = SubSeq(s, 1, a)
  BY <1>3, ConcatEmptySeq
<1>5. Len(Splice(s, a, count, <<>>)) = Len(s) - count + 0
  BY <1>1, <1>2 DEF Spliced
<1>6. Len(s) \in Nat
  BY LenProperties
<1>7. Without(s, a, a + count) = SubSeq(s, 1, a) \o SubSeq(s, a + count + 1, Len(s))
  BY DEF Without
<1>8. Splice(s, a, count, <<>>) = Without(s, a, a + count)
  BY <1>2, <1>4, <1>7, Zenon
<1> DEFINE t == Splice(s, a, count, <<>>)
<1> HIDE DEF t
<1>9. Len(t) = Len(s) - count
  BY <1>5, <1>6 DEF t
<1> QED BY <1>2, <1>8, <1>9 DEF t

(* Whole lines go, from the cursor's line on or up to it. *)
LinesGo(line, old, new) ==
  \E a \in 0 .. line, b \in line + 1 .. Len(old) :
     /\ a = line \/ b = line + 1
     /\ new = Without(old, a, b)

(* One stretch of the line goes, of limit characters at most. *)
TextGoes(line, limit, old, new) ==
  \E a, b \in 0 .. Len(old[line + 1]) :
     /\ a < b
     /\ b - a <= limit
     /\ new = [old EXCEPT ![line + 1] = Without(@, a, b)]

(* The same line is the cursor's before and after, and in the buffer. *)
SameLine(s, t) == t.cursor.line = s.cursor.line /\ Len(t.buffer) = Len(s.buffer)

(* A cursor that keeps its line is in the buffer if it was. *)
LEMMA SameLineStays ==
  ASSUME NEW s, NEW t, InBuffer(s), SameLine(s, t)
  PROVE  InBuffer(t)
  BY DEF InBuffer, HasLine, SameLine

(* o and O put the cursor on the line they make. *)
LEMMA InsertLineLands ==
  ASSUME NEW s, Good(s), InBuffer(s), NEW location \in {"before", "after"}
  PROVE  InBuffer(insert_line(s, location))
<1> DEFINE line == s.cursor.line + IF location = "before" THEN 0 ELSE 1
           buffer == Splice(s.buffer, line, 0, << <<>> >>)
<1>1. s.buffer \in Text /\ Len(s.buffer) \in Nat /\ s.cursor.line \in 0 .. Len(s.buffer) - 1
  BY FieldsType, OwnLine DEF Good
<1>2. line \in 0 .. Len(s.buffer)
  BY <1>1
<1>3. << <<>> >> \in Text /\ Len(<< <<>> >>) = 1
  BY DEF Text
<1>4. insert_line(s, location).buffer = buffer /\ insert_line(s, location).cursor.line = line
  BY DEF insert_line, make_state, At
<1> HIDE DEF line
<1>5. Len(buffer) = Len(s.buffer) + Len(<< <<>> >>)
  <2>1. line \in Int /\ 0 \in Nat
    BY <1>2
  <2> QED BY <1>1, <1>3, <2>1, TextSplice
<1> HIDE DEF buffer
<1> QED BY <1>1, <1>2, <1>3, <1>4, <1>5 DEF InBuffer, HasLine

(* dd takes the cursor's line out. *)
LEMMA DeleteLineEffect ==
  ASSUME NEW s, Good(s), InBuffer(s)
  PROVE  /\ Len(delete_current_line(s).buffer) < Len(s.buffer)
         /\ LinesGo(s.cursor.line, s.buffer, delete_current_line(s).buffer)
<1> DEFINE line == s.cursor.line
           buffer == Splice(s.buffer, line, 1, <<>>)
<1>1. s.buffer \in Text /\ Len(s.buffer) \in Nat /\ line \in 0 .. Len(s.buffer) - 1
  BY FieldsType, OwnLine DEF Good
<1>2. delete_current_line(s).buffer = buffer
  BY DEF delete_current_line, normalize_cursor, make_state
<1> HIDE DEF line
<1>3. line \in 0 .. Len(s.buffer) /\ 1 \in 0 .. Len(s.buffer) - line /\ s.buffer \in Seq(Seq(Char))
  BY <1>1 DEF Text
<1>4. buffer = Without(s.buffer, line, line + 1) /\ Len(buffer) = Len(s.buffer) - 1
  BY <1>3, SpliceCuts
<1> HIDE DEF buffer
<1>5. line \in 0 .. line /\ line + 1 \in line + 1 .. Len(s.buffer)
  BY <1>1
<1>6. LinesGo(line, s.buffer, buffer)
  BY <1>4, <1>5 DEF LinesGo
<1>7. Len(buffer) < Len(s.buffer)
  BY <1>1, <1>4
<1> QED BY <1>2, <1>6, <1>7 DEF line

(* cc empties the cursor's line. *)
LEMMA ChangeLineLands ==
  ASSUME NEW s, Good(s), InBuffer(s)
  PROVE  InBuffer(change_current_line(s))
<1> DEFINE line == s.cursor.line
           buffer == [s.buffer EXCEPT ![line + 1] = <<>>]
           t == make_state(s.cursor, buffer, "insert", s.repeat_number)
<1>1. s.buffer \in Text /\ Len(s.buffer) \in Nat /\ line \in 0 .. Len(s.buffer) - 1 /\ line + 1 \in 1 .. Len(s.buffer)
  BY FieldsType, OwnLine DEF Good
<1>2. HasLine(s, line)
  BY DEF InBuffer
<1>3. change_current_line(s) = normalize_cursor(t, TRUE, FALSE)
  BY <1>2 DEF change_current_line
<1>4. <<>> \in Seq(Char)
  OBVIOUS
<1>5. buffer \in Text /\ Len(buffer) = Len(s.buffer)
  BY <1>1, <1>4, TextExcept
<1>6. t.cursor = s.cursor /\ t.buffer = buffer /\ t.mode = "insert"
  BY DEF make_state
<1> HIDE DEF t, buffer
<1>7. /\ normalize_cursor(t, TRUE, FALSE).cursor.line = NormalLine(t, TRUE)
      /\ normalize_cursor(t, TRUE, FALSE).buffer = t.buffer
  BY DEF normalize_cursor, make_state, At
<1>8. NormalLine(t, TRUE) = MathMax(0, MathMin(line, Len(s.buffer) + 0))
  BY <1>5, <1>6 DEF NormalLine, EndOfLine
<1>9. MathMax(0, MathMin(line, Len(s.buffer) + 0)) = line
  BY <1>1 DEF MathMax, MathMin
<1>10. change_current_line(s).cursor.line = line /\ Len(change_current_line(s).buffer) = Len(s.buffer)
  BY <1>3, <1>5, <1>6, <1>7, <1>8, <1>9, Zenon
<1> QED BY <1>10, SameLineStays DEF SameLine

(* A stretch of a line is cut out of it: the columns may lie beyond it. *)
LEMMA CutText ==
  ASSUME NEW S, NEW text \in Seq(S), NEW start \in Nat, NEW end \in Nat, start <= end
  PROVE  LET a == MathMin(start, Len(text))
             b == MathMin(end, Len(text))
         IN /\ a \in 0 .. Len(text) /\ b \in a .. Len(text)
            /\ SliceTo(text, start) \o SliceFrom(text, end) = Without(text, a, b)
            /\ a = b => Without(text, a, b) = text
<1> DEFINE a == MathMin(start, Len(text))
           b == MathMin(end, Len(text))
<1>1. Len(text) \in Nat
  BY LenProperties
<1>2. a \in 0 .. Len(text) /\ b \in a .. Len(text)
  BY <1>1 DEF MathMin
<1>3. SliceTo(text, start) = SubSeq(text, 1, a)
  BY DEF SliceTo
<1>4. SliceFrom(text, end) = SubSeq(text, b + 1, Len(text))
  <2>1. CASE end <= Len(text)
    BY <2>1 DEF SliceFrom, MathMin
  <2>2. CASE ~(end <= Len(text))
    <3>1. b = Len(text)
      BY <1>1, <2>2 DEF MathMin
    <3>2. SubSeq(text, end + 1, Len(text)) = <<>> /\ SubSeq(text, b + 1, Len(text)) = <<>>
      BY <1>1, <2>2, <3>1
    <3> QED BY <3>2 DEF SliceFrom
  <2> QED BY <2>1, <2>2
<1> HIDE DEF a, b
<1>5. ASSUME a = b PROVE Without(text, a, b) = text
  <2> DEFINE u == SubSeq(text, 1, a)
             v == SubSeq(text, b + 1, Len(text))
  <2>0. b \in 0 .. Len(text)
    BY <1>1, <1>2
  <2>1. /\ u \in Seq(S) /\ Len(u) = a /\ \A i \in 1 .. a : u[i] = text[i]
        /\ v \in Seq(S) /\ Len(v) = Len(text) - b /\ \A i \in 1 .. Len(text) - b : v[i] = text[b + i]
    BY <1>2, <2>0, Pieces
  <2> HIDE DEF u, v
  <2>2. u \in Seq(S) /\ v \in Seq(S) /\ Len(u) = a /\ Len(v) = Len(text) - b
    BY <2>1
  <2>3. u \o v \in Seq(S) /\ Joins(u \o v, u, v)
    BY <2>2, Glued
  <2>4. Len(u \o v) = Len(text)
    BY <1>1, <1>2, <1>5, <2>2, <2>3 DEF Joins
  <2>5. ASSUME NEW i \in 1 .. Len(text) PROVE (u \o v)[i] = text[i]
    <3>1. CASE i <= a
      BY <1>2, <2>1, <2>3, <3>1 DEF Joins
    <3>2. CASE ~(i <= a)
      <4>1. i - a \in 1 .. Len(text) - b /\ i = Len(u) + (i - a) /\ b + (i - a) = i
        BY <1>1, <1>2, <1>5, <2>2, <3>2
      <4>2. (u \o v)[Len(u) + (i - a)] = v[i - a]
        BY <2>2, <2>3, <4>1 DEF Joins
      <4> QED BY <2>1, <4>1, <4>2
    <3> QED BY <3>1, <3>2
  <2>6. u \o v = text
    BY <2>3, <2>4, <2>5, SeqEqual
  <2> QED BY <2>6 DEF Without, u, v
<1> QED BY <1>2, <1>3, <1>4, <1>5 DEF Without, a, b

(* d with a movement: a stretch of the line, or whole lines. *)
LEMMA DeleteToEffect ==
  ASSUME NEW s, Good(s), InBuffer(s), NEW target,
         target.line \in 0 .. Len(s.buffer) - 1, target.col \in Nat,
         NEW limit, Near(s, target, limit)
  PROVE  LET t == delete_to_cursor(s, target)
         IN \/ /\ SameLine(s, t)
               /\ t.buffer = s.buffer \/ TextGoes(s.cursor.line, limit, s.buffer, t.buffer)
            \/ /\ Len(t.buffer) < Len(s.buffer)
               /\ LinesGo(s.cursor.line, s.buffer, t.buffer)
<1> DEFINE line == s.cursor.line
           t == delete_to_cursor(s, target)
<1>1. /\ s.buffer \in Text /\ Len(s.buffer) \in Nat /\ line \in 0 .. Len(s.buffer) - 1
      /\ line + 1 \in 1 .. Len(s.buffer) /\ s.cursor.col \in Nat
  BY FieldsType, OwnLine DEF Good
<1>2. CASE line = target.line
  <2> DEFINE start == MathMin(s.cursor.col, target.col)
             end == MathMax(s.cursor.col, target.col)
             text == s.buffer[line + 1]
             cut == SliceTo(text, start) \o SliceFrom(text, end)
             a == MathMin(start, Len(text))
             b == MathMin(end, Len(text))
             new == [s.buffer EXCEPT ![line + 1] = cut]
  <2>1. start \in Nat /\ end \in Nat /\ start <= end
    BY <1>1 DEF MathMin, MathMax
  <2>2. text \in Seq(Char)
    BY <1>1, ElementOfSeq DEF Text
  <2>3. t.buffer = new /\ t.cursor.line = line
    BY <1>2 DEF delete_to_cursor, make_state, At, LineAt
  <2>a. b - a <= limit
    BY DEF Near, Stretch
  <2> HIDE DEF start, end, line
  <2>4. /\ a \in 0 .. Len(text) /\ b \in a .. Len(text)
        /\ cut = Without(text, a, b)
        /\ a = b => Without(text, a, b) = text
    <3> HIDE DEF text
    <3> QED BY <2>1, <2>2, CutText
  <2> HIDE DEF a, b, cut
  <2>5. cut \in Seq(Char)
    <3> HIDE DEF text
    <3>1. SliceTo(text, start) \in Seq(Char) /\ SliceFrom(text, end) \in Seq(Char)
      BY <2>1, <2>2, SliceType
    <3> QED BY <3>1 DEF cut
  <2>6. Len(new) = Len(s.buffer)
    BY <1>1, <2>5, TextExcept
  <2>7. CASE a = b
    <3>1. cut = s.buffer[line + 1]
      BY <2>4, <2>7
    <3>2. new = s.buffer
      <4> DEFINE old == s.buffer
      <4>1. old \in Seq(Seq(Char)) /\ new \in Seq(Seq(Char)) /\ Len(new) = Len(old)
        BY <1>1, <2>5, TextExcept DEF Text
      <4>2. \A i \in 1 .. Len(new) : new[i] = old[i]
        BY <1>1, <2>6, <3>1
      <4> HIDE DEF new, old
      <4>3. new = old
        BY <4>1, <4>2, SeqEqual
      <4> QED BY <4>3 DEF old
    <3> QED BY <2>3, <2>6, <3>2 DEF SameLine, line
  <2>8. CASE a # b
    <3>1. a < b /\ a \in 0 .. Len(text) /\ b \in 0 .. Len(text)
      <4>1. Len(text) \in Nat
        BY <2>2, LenProperties
      <4> HIDE DEF text
      <4> QED BY <2>4, <2>8, <4>1
    <3>2. new = [s.buffer EXCEPT ![line + 1] = Without(s.buffer[line + 1], a, b)]
      BY <2>4
    <3>3. TextGoes(line, limit, s.buffer, new)
      <4> HIDE DEF new
      <4> QED BY <2>a, <3>1, <3>2 DEF TextGoes
    <3> QED BY <2>3, <2>6, <3>3 DEF SameLine, line
  <2> QED BY <2>7, <2>8
<1>3. CASE line # target.line
  <2> DEFINE start == MathMin(line, target.line)
             end == MathMax(line, target.line)
             count == end - start + 1
             new == Splice(s.buffer, start, count, <<>>)
  <2>1. t.buffer = new
    BY <1>3 DEF delete_to_cursor, make_state
  <2>2. /\ start \in 0 .. line /\ end \in line .. Len(s.buffer) - 1 /\ (start = line \/ end = line)
        /\ count \in 0 .. Len(s.buffer) - start /\ count > 0 /\ start + count = end + 1
        /\ start \in 0 .. Len(s.buffer)
    <3> DEFINE n == Len(s.buffer)
               tl == target.line
    <3>1. n \in Nat /\ line \in 0 .. n - 1 /\ tl \in 0 .. n - 1 /\ line # tl
      BY <1>1, <1>3
    <3>2. start = MathMin(line, tl) /\ end = MathMax(line, tl) /\ count = end - start + 1
      OBVIOUS
    <3> HIDE DEF n, tl, line, start, end, count
    <3>3. \/ start = line /\ end = tl /\ line < tl
          \/ start = tl /\ end = line /\ tl < line
      BY <3>1, <3>2 DEF MathMin, MathMax
    <3>4. /\ start \in 0 .. line /\ end \in line .. n - 1 /\ (start = line \/ end = line)
          /\ count \in 0 .. n - start /\ count > 0 /\ start + count = end + 1
          /\ start \in 0 .. n
      BY <3>1, <3>2, <3>3
    <3> QED BY <3>4 DEF n
  <2> HIDE DEF start, end, count, line
  <2>3. new = Without(s.buffer, start, start + count) /\ Len(new) = Len(s.buffer) - count
    BY <1>1, <2>2, SpliceCuts DEF Text
  <2> HIDE DEF new
  <2>4. end + 1 \in line + 1 .. Len(s.buffer) /\ (start = line \/ end + 1 = line + 1)
    BY <1>1, <2>2
  <2>5. new = Without(s.buffer, start, end + 1)
    BY <2>2, <2>3
  <2>6. LinesGo(line, s.buffer, new)
    BY <2>2, <2>4, <2>5 DEF LinesGo
  <2>7. Len(new) < Len(s.buffer)
    BY <1>1, <2>2, <2>3
  <2> QED BY <2>1, <2>6, <2>7 DEF line
<1> QED BY <1>2, <1>3

(* What the lines of new have to do with those of old after an edit in     *)
(* insert mode at the given line: KeepsOtherLines, of any two buffers.     *)
KeepsLines(line, old, new) ==
  /\ Len(new) >= Len(old) - (line + 1) + line - 1
  /\ \A i \in 1 .. line - 1 : new[i] = old[i]
  /\ \A i \in 0 .. Len(old) - (line + 1) - 1 : new[Len(new) - i] = old[Len(old) - i]

(* Replacing the elements from line - 1 on, and not past the one at line,  *)
(* keeps the others.                                                       *)
LEMMA SpliceKeeps ==
  ASSUME NEW S, NEW old \in Seq(S), NEW a \in Nat, NEW count \in Nat, NEW line \in Nat,
         NEW items \in Seq(S), NEW t, Spliced(t, old, a, count, items),
         line < Len(old), a + count = line + 1, line - 1 <= a, Len(items) >= 1
  PROVE  KeepsLines(line, old, t)
<1>1. Len(old) \in Nat /\ Len(items) \in Nat
  BY LenProperties
<1>2. Len(t) = Len(old) - count + Len(items)
  BY DEF Spliced
<1>3. ASSUME NEW i \in 1 .. line - 1 PROVE t[i] = old[i]
  BY <1>1 DEF Spliced
<1>4. ASSUME NEW i \in 0 .. Len(old) - (line + 1) - 1 PROVE t[Len(t) - i] = old[Len(old) - i]
  <2> DEFINE j == Len(old) - (a + count) - i
  <2>1. j \in 1 .. Len(old) - (a + count) /\ Len(t) - i = a + Len(items) + j /\ Len(old) - i = a + count + j
    BY <1>1, <1>2
  <2> HIDE DEF j
  <2>2. t[a + Len(items) + j] = old[a + count + j]
    BY <2>1 DEF Spliced
  <2> QED BY <2>1, <2>2
<1>5. Len(t) >= Len(old) - (line + 1) + line - 1
  BY <1>1, <1>2
<1> QED BY <1>3, <1>4, <1>5 DEF KeepsLines

(* Where text goes in: the line, its text and the column in it. *)
InsertAt(s, n, text) ==
  /\ n = normalize_cursor(s, TRUE, TRUE).cursor
  /\ text = LineAt(s, n.line) /\ text = s.buffer[n.line + 1]
  /\ n.line = NormalLine(s, TRUE)
  /\ n.line \in 0 .. Len(s.buffer) - 1 /\ n.line + 1 \in 1 .. Len(s.buffer)
  /\ text \in Seq(Char) /\ Len(text) \in Nat
  /\ n.col \in 0 .. Len(text)
  /\ n.col = MathMax(0, MathMin(s.cursor.col, Len(text)))
  /\ n = At(n.line, n.col)
  /\ s.buffer \in Text /\ Len(s.buffer) \in Nat

(* There is such a place whenever a key does not throw. *)
LEMMA InsertPlace ==
  ASSUME NEW s, Good(s), s.mode = "insert", ~TextThrows(s)
  PROVE  \E n, text : InsertAt(s, n, text)
<1> DEFINE n == normalize_cursor(s, TRUE, TRUE).cursor
           text == LineAt(s, n.line)
<1>1. /\ n.line \in 0..Len(s.buffer) - 1 /\ n.line + 1 \in 1..Len(s.buffer)
      /\ text \in Seq(Char)
  BY TextPlace
<1> DEFINE col == MathMax(0, MathMin(s.cursor.col, Len(text)))
<1>2. n.line = NormalLine(s, TRUE) /\ n.col \in 0 .. Len(text) /\ n = At(NormalLine(s, TRUE), col)
  BY InsertColumn
<1>7. n.col = col /\ n = At(n.line, n.col)
  <2> HIDE DEF n, col
  <2>1. n.line = NormalLine(s, TRUE) /\ n = At(NormalLine(s, TRUE), col)
    BY <1>2
  <2>2. n.col = col
    BY <2>1 DEF At
  <2> QED BY <2>1, <2>2, Zenon
<1>3. s.buffer \in Text /\ Len(s.buffer) \in Nat
  BY FieldsType DEF Good
<1>4. Len(text) \in Nat
  BY <1>1, LenProperties
<1>5. text = s.buffer[n.line + 1]
  BY DEF LineAt
<1>6. n = normalize_cursor(s, TRUE, TRUE).cursor /\ text = LineAt(s, n.line)
  OBVIOUS
<1> HIDE DEF n, text
<1> QED BY <1>1, <1>2, <1>3, <1>4, <1>5, <1>6, <1>7 DEF InsertAt

(* The two parts of a line, before and after a column of it. *)
LEMMA Parts ==
  ASSUME NEW S, NEW text \in Seq(S), NEW col \in 0 .. Len(text)
  PROVE  /\ SliceTo(text, col) \in Seq(S) /\ Len(SliceTo(text, col)) = col
         /\ \A i \in 1 .. col : SliceTo(text, col)[i] = text[i]
         /\ SliceFrom(text, col) \in Seq(S) /\ Len(SliceFrom(text, col)) = Len(text) - col
         /\ \A i \in 1 .. Len(text) - col : SliceFrom(text, col)[i] = text[col + i]
<1>1. Len(text) \in Nat
  BY LenProperties
<1>2. MathMin(col, Len(text)) = col
  BY <1>1 DEF MathMin
<1>3. SliceTo(text, col) = SubSeq(text, 1, col)
  BY <1>2 DEF SliceTo
<1>4. SliceFrom(text, col) = SubSeq(text, col + 1, Len(text))
  BY DEF SliceFrom
<1>5. /\ SubSeq(text, 1, col) \in Seq(S) /\ Len(SubSeq(text, 1, col)) = col
      /\ \A i \in 1 .. col : SubSeq(text, 1, col)[i] = text[i]
      /\ SubSeq(text, col + 1, Len(text)) \in Seq(S) /\ Len(SubSeq(text, col + 1, Len(text))) = Len(text) - col
      /\ \A i \in 1 .. Len(text) - col : SubSeq(text, col + 1, Len(text))[i] = text[col + i]
  BY Pieces
<1> QED BY <1>3, <1>4, <1>5, Zenon

(* What has to be shown of an edit in insert mode: where the cursor is     *)
(* afterwards, and which lines are kept.                                   *)
Typed(s, t) ==
  /\ InBuffer(s) /\ ~InBuffer(t) => s.cursor.line = 0 /\ t.cursor.line = -1
  /\ \/ KeepsLines(NormalLine(s, TRUE), s.buffer, t.buffer)
     \/ AtOrigin(s) /\ t.buffer = FirstLineIsLast(s)

(* An edit of the cursor's line only. *)
LEMMA LineTyped ==
  ASSUME NEW s, NEW n, NEW text, InsertAt(s, n, text), NEW new \in Seq(Char),
         NEW t, t.buffer = [s.buffer EXCEPT ![n.line + 1] = new], t.cursor.line = n.line
  PROVE  Typed(s, t) /\ InBuffer(t)
<1> DEFINE buffer == [s.buffer EXCEPT ![n.line + 1] = new]
<1>4. Len(buffer) = Len(s.buffer) /\ \A i \in 1 .. Len(s.buffer) : i # n.line + 1 => buffer[i] = s.buffer[i]
  <2>1. s.buffer \in Text /\ n.line + 1 \in 1 .. Len(s.buffer)
    BY DEF InsertAt
  <2>2. Len(buffer) = Len(s.buffer)
    BY <2>1, TextExcept
  <2>3. \A i \in 1 .. Len(s.buffer) : i # n.line + 1 => buffer[i] = s.buffer[i]
    BY <2>1 DEF Text
  <2> QED BY <2>2, <2>3
<1> HIDE DEF buffer
<1>5. n.line \in 0 .. Len(s.buffer) - 1 /\ Len(s.buffer) \in Nat
  BY DEF InsertAt
<1>6. InBuffer(t)
  BY <1>4, <1>5 DEF InBuffer, HasLine, buffer
<1>7. KeepsLines(n.line, s.buffer, buffer)
  <2> DEFINE k == n.line
             m == Len(s.buffer)
  <2>1. k \in 0 .. m - 1 /\ m \in Nat /\ Len(buffer) = m
    BY <1>4, <1>5
  <2>2. \A i \in 1 .. m : i # k + 1 => buffer[i] = s.buffer[i]
    BY <1>4
  <2>3. KeepsLines(k, s.buffer, buffer) <=>
          /\ Len(buffer) >= m - (k + 1) + k - 1
          /\ \A i \in 1 .. k - 1 : buffer[i] = s.buffer[i]
          /\ \A i \in 0 .. m - (k + 1) - 1 : buffer[Len(buffer) - i] = s.buffer[m - i]
    BY DEF KeepsLines
  <2> HIDE DEF k, m
  <2>4. ASSUME NEW i \in 1 .. k - 1 PROVE buffer[i] = s.buffer[i]
    BY <2>1, <2>2
  <2>5. ASSUME NEW i \in 0 .. m - (k + 1) - 1 PROVE buffer[Len(buffer) - i] = s.buffer[m - i]
    <3>1. m - i \in 1 .. m /\ m - i # k + 1 /\ Len(buffer) - i = m - i
      BY <2>1
    <3> QED BY <2>2, <3>1
  <2>6. Len(buffer) >= m - (k + 1) + k - 1
    BY <2>1
  <2>7. KeepsLines(k, s.buffer, buffer)
    BY <2>3, <2>4, <2>5, <2>6
  <2> QED BY <2>7 DEF k
<1>8. n.line = NormalLine(s, TRUE)
  BY DEF InsertAt
<1> QED BY <1>6, <1>7, <1>8, Zenon DEF Typed, buffer

(* Typing text. *)
LEMMA InsertStringTyped ==
  ASSUME NEW s, Good(s), s.mode = "insert", ~TextThrows(s), NEW string \in Seq(Char)
  PROVE  Typed(s, insert_string_at_cursor(s, string))
<1>0. PICK n, text : InsertAt(s, n, text)
  BY InsertPlace
<1> DEFINE t == insert_string_at_cursor(s, string)
           new == SliceTo(text, n.col) \o string \o SliceFrom(text, n.col)
           buffer == [s.buffer EXCEPT ![n.line + 1] = new]
<1>1. t = make_state(At(n.line, n.col + Len(string)), buffer, s.mode, UndefinedRepeat)
  BY <1>0 DEF insert_string_at_cursor, InsertAt
<1>2. t.buffer = buffer /\ t.cursor.line = n.line
  <2> HIDE DEF t, buffer
  <2> QED BY <1>1 DEF make_state, At
<1>3. new \in Seq(Char)
  <2>1. SliceTo(text, n.col) \in Seq(Char) /\ SliceFrom(text, n.col) \in Seq(Char)
    BY <1>0, Parts DEF InsertAt
  <2>2. SliceTo(text, n.col) \o string \in Seq(Char)
    BY <2>1, ConcatProperties
  <2> QED BY <2>1, <2>2, ConcatProperties
<1> HIDE DEF new, t
<1> QED BY <1>0, <1>2, <1>3, LineTyped DEF t

(* Breaking a line. *)
LEMMA BreakLineTyped ==
  ASSUME NEW s, Good(s), s.mode = "insert", ~TextThrows(s)
  PROVE  Typed(s, break_line_at_cursor(s))
<1>0. PICK n, text : InsertAt(s, n, text)
  BY InsertPlace
<1> DEFINE t == break_line_at_cursor(s)
           items == <<SliceTo(text, n.col), SliceFrom(text, n.col)>>
           buffer == Splice(s.buffer, n.line, 1, items)
<1>1. t = make_state(At(n.line + 1, 0), buffer, s.mode, UndefinedRepeat)
  BY <1>0 DEF break_line_at_cursor, InsertAt
<1>2. t.buffer = buffer /\ t.cursor.line = n.line + 1
  <2> HIDE DEF t, buffer
  <2> QED BY <1>1 DEF make_state, At
<1>3. items \in Seq(Seq(Char)) /\ Len(items) = 2
  <2>1. SliceTo(text, n.col) \in Seq(Char) /\ SliceFrom(text, n.col) \in Seq(Char)
    BY <1>0, Parts DEF InsertAt
  <2> QED BY <2>1
<1> HIDE DEF items, t
<1>4. /\ n.line \in 0 .. Len(s.buffer) - 1 /\ Len(s.buffer) \in Nat /\ s.buffer \in Seq(Seq(Char))
      /\ n.line \in 0 .. Len(s.buffer) /\ 1 \in 0 .. Len(s.buffer) - n.line
  <2>1. n.line \in 0 .. Len(s.buffer) - 1 /\ Len(s.buffer) \in Nat /\ s.buffer \in Text
    BY <1>0 DEF InsertAt
  <2> QED BY <2>1 DEF Text
<1>5. Spliced(buffer, s.buffer, n.line, 1, items)
  BY <1>3, <1>4, SpliceInside
<1> HIDE DEF buffer
<1>6. Len(buffer) = Len(s.buffer) - 1 + 2
  BY <1>3, <1>5 DEF Spliced
<1>7. InBuffer(t)
  BY <1>2, <1>4, <1>6 DEF InBuffer, HasLine
<1>8. KeepsLines(n.line, s.buffer, buffer)
  <2> DEFINE k == n.line
             old == s.buffer
  <2>1. /\ k \in Nat /\ 1 \in Nat /\ old \in Seq(Seq(Char)) /\ k < Len(old) /\ k + 1 = k + 1
        /\ k - 1 <= k /\ Len(items) >= 1 /\ Spliced(buffer, old, k, 1, items)
    BY <1>3, <1>4, <1>5
  <2> HIDE DEF k, old
  <2>2. KeepsLines(k, old, buffer)
    BY <1>3, <2>1, SpliceKeeps
  <2> QED BY <2>2 DEF k, old
<1>9. n.line = NormalLine(s, TRUE)
  BY <1>0 DEF InsertAt
<1> QED BY <1>2, <1>7, <1>8, <1>9, Zenon DEF Typed, t

(* A slice from -1 to 0, replaced by the first element: the last one is.   *)
LEMMA SpliceWraps ==
  ASSUME NEW S, NEW s \in Seq(S), Len(s) > 0
  PROVE  Splice(s, -1, 2, <<s[1]>>) = [s EXCEPT ![Len(s)] = s[1]]
<1> DEFINE n == Len(s)
           items == <<s[1]>>
           t == Splice(s, n - 1, 1, items)
           u == [s EXCEPT ![n] = s[1]]
<1>1. n \in Nat /\ n > 0 /\ s[1] \in S
  BY LenProperties, ElementOfSeq
<1>2. items \in Seq(S) /\ Len(items) = 1 /\ items[1] = s[1]
  BY <1>1
<1>3. Splice(s, -1, 2, items) = t
  <2> HIDE DEF items
  <2>1. SpliceStart(s, -1) = n - 1 /\ SpliceStart(s, n - 1) = n - 1
    BY <1>1 DEF SpliceStart, MathMin, MathMax
  <2>2. SpliceEnd(s, -1, 2) = n /\ SpliceEnd(s, n - 1, 1) = n
    BY <1>1, <2>1 DEF SpliceEnd, MathMin, MathMax
  <2> QED BY <2>1, <2>2 DEF Splice
<1>4. t \in Seq(S) /\ Spliced(t, s, n - 1, 1, items)
  <2>1. n - 1 \in 0 .. Len(s) /\ 1 \in 0 .. Len(s) - (n - 1)
    BY <1>1
  <2> HIDE DEF n, items
  <2> QED BY <1>2, <2>1, SpliceInside
<1>5. u \in Seq(S) /\ Len(u) = n /\ \A i \in 1 .. n : u[i] = IF i = n THEN s[1] ELSE s[i]
  <2>1. n \in 1 .. Len(s)
    BY <1>1
  <2> QED BY <1>1, <2>1, ExceptSeq
<1> HIDE DEF t, u, items
<1>6. Len(t) = n /\ \A i \in 1 .. n - 1 : t[i] = s[i]
  BY <1>1, <1>2, <1>4 DEF Spliced
<1>7. t[n] = s[1]
  <2>1. t[n - 1 + 1] = items[1]
    BY <1>2, <1>4 DEF Spliced
  <2> QED BY <1>1, <1>2, <2>1
<1> HIDE DEF n
<1>8. \A i \in 1 .. n : t[i] = u[i]
  BY <1>1, <1>5, <1>6, <1>7
<1>9. t = u
  BY <1>4, <1>5, <1>6, <1>8, SeqEqual
<1> QED BY <1>3, <1>9 DEF u, n, items

(* <BS>. *)
LEMMA DeleteCharTyped ==
  ASSUME NEW s, Good(s), s.mode = "insert", ~TextThrows(s)
  PROVE  Typed(s, delete_char_before_cursor(s))
<1>0. PICK n, text : InsertAt(s, n, text)
  BY InsertPlace
<1>1. /\ n.line \in 0 .. Len(s.buffer) - 1 /\ Len(s.buffer) \in Nat
      /\ text \in Seq(Char) /\ n.col \in 0 .. Len(text) /\ Len(text) \in Nat
      /\ s.buffer \in Text /\ n = At(n.line, n.col)
  BY <1>0 DEF InsertAt
<1>2. /\ n.line = NormalLine(s, TRUE)
      /\ n = normalize_cursor(s, TRUE, TRUE).cursor /\ text = LineAt(s, n.line)
  BY <1>0 DEF InsertAt
<1> DEFINE t == delete_char_before_cursor(s)
           previous == IF HasLine(s, n.line - 1) THEN LineAt(s, n.line - 1) ELSE <<>>
           items == <<previous \o text>>
           buffer == Splice(s.buffer, n.line - 1, 2, items)
           cut == SliceTo(text, n.col - 1) \o SliceFrom(text, n.col)
<1>3. t = IF n.col = 0
          THEN make_state(At(n.line - 1, Len(previous)), buffer, s.mode, s.repeat_number)
          ELSE make_state(At(n.line, n.col - 1), [s.buffer EXCEPT ![n.line + 1] = cut],
                          s.mode, s.repeat_number)
  BY <1>2 DEF delete_char_before_cursor
<1>4. CASE n.col # 0
  <2>1. t.buffer = [s.buffer EXCEPT ![n.line + 1] = cut] /\ t.cursor.line = n.line
    <3> HIDE DEF t, cut
    <3> QED BY <1>3, <1>4 DEF make_state, At
  <2>2. cut \in Seq(Char)
    <3>1. n.col - 1 \in 0 .. Len(text)
      BY <1>1, <1>4
    <3>2. SliceTo(text, n.col - 1) \in Seq(Char) /\ SliceFrom(text, n.col) \in Seq(Char)
      BY <1>1, <3>1, Parts
    <3> QED BY <3>2, ConcatProperties
  <2> HIDE DEF t, cut
  <2>3. Typed(s, t)
    BY <1>0, <2>1, <2>2, LineTyped
  <2> QED BY <2>3 DEF t
<1>5. CASE n.col = 0 /\ n.line = 0
  <2>1. t.cursor.line = n.line - 1
    <3> HIDE DEF t, previous, buffer
    <3> QED BY <1>3, <1>5 DEF make_state, At
  <2>2. n = At(0, 0)
    BY <1>1, <1>5
  <2>3. AtOrigin(s)
    BY <1>2, <2>2, Zenon DEF AtOrigin
  <2>4. InBuffer(s) => s.cursor.line = n.line
    BY <1>2, OwnLine
  <2>5. InBuffer(s) => s.cursor.line = 0 /\ t.cursor.line = -1
    <3> HIDE DEF t
    <3> QED BY <1>5, <2>1, <2>4
  <2>7. t.buffer = FirstLineIsLast(s)
    <3>1. ~HasLine(s, n.line - 1)
      BY <1>5 DEF HasLine
    <3>2. previous \o text = text
      <4>1. <<>> \o text = text
        BY <1>1, ConcatEmptySeq
      <4> QED BY <3>1, <4>1
    <3>3. text = s.buffer[1] /\ n.line - 1 = -1
      <4>1. text = s.buffer[n.line + 1]
        BY <1>2, Zenon DEF LineAt
      <4>2. n.line + 1 = 1 /\ n.line - 1 = -1
        BY <1>5
      <4> QED BY <4>1, <4>2, Zenon
    <3>4. buffer = Splice(s.buffer, -1, 2, <<s.buffer[1]>>)
      BY <3>2, <3>3
    <3>5. s.buffer \in Seq(Seq(Char)) /\ Len(s.buffer) > 0
      BY <1>1 DEF Text
    <3>6. buffer = FirstLineIsLast(s)
      BY <3>4, <3>5, SpliceWraps DEF FirstLineIsLast
    <3> HIDE DEF buffer, previous, t
    <3> QED BY <1>3, <1>5, <3>6 DEF make_state
  <2> HIDE DEF t
  <2>6. Typed(s, t)
    BY <2>3, <2>5, <2>7, Zenon DEF Typed
  <2> QED BY <2>6 DEF t
<1>6. CASE n.col = 0 /\ n.line # 0
  <2> DEFINE a == n.line - 1
             old == s.buffer
  <2>1. t.cursor.line = a /\ t.buffer = buffer
    <3> HIDE DEF t, previous, buffer
    <3> QED BY <1>3, <1>6 DEF make_state, At
  <2>2. /\ a \in Nat /\ a \in 0 .. Len(old) /\ 2 \in 0 .. Len(old) - a /\ a + 2 = n.line + 1
        /\ old \in Seq(Seq(Char)) /\ n.line \in Nat /\ n.line < Len(old) /\ n.line - 1 <= a
        /\ a < Len(old) - 1 /\ Len(old) \in Nat
    <3>1. n.line \in 1 .. Len(old) - 1 /\ Len(old) \in Nat
      BY <1>1, <1>6
    <3>2. old \in Seq(Seq(Char))
      BY <1>1 DEF Text
    <3> DEFINE l == n.line
               len == Len(old)
    <3>3. l \in 1 .. len - 1 /\ len \in Nat /\ a = l - 1
      BY <3>1
    <3> HIDE DEF l, len, a
    <3>4. /\ a \in Nat /\ a \in 0 .. len /\ 2 \in 0 .. len - a /\ a + 2 = l + 1
          /\ l \in Nat /\ l < len /\ l - 1 <= a /\ a < len - 1
      BY <3>3
    <3> QED BY <3>2, <3>3, <3>4 DEF l, len
  <2>3. previous \in Seq(Char)
    <3>1. HasLine(s, a) => a + 1 \in 1 .. Len(old)
      <4> HIDE DEF a, old
      <4> QED BY <2>2
    <3>2. HasLine(s, a) => LineAt(s, a) \in Seq(Char)
      BY <2>2, <3>1, ElementOfSeq DEF LineAt
    <3> QED BY <3>2
  <2>4. items \in Seq(Seq(Char)) /\ Len(items) = 1
    <3> HIDE DEF previous
    <3>1. previous \o text \in Seq(Char)
      BY <1>1, <2>3, ConcatProperties
    <3> QED BY <3>1
  <2> HIDE DEF items, t
  <2>5. Spliced(buffer, old, a, 2, items)
    <3> HIDE DEF a, old
    <3>1. Splice(old, a, 2, items) \in Seq(Seq(Char)) /\ Spliced(Splice(old, a, 2, items), old, a, 2, items)
      BY <2>2, <2>4, SpliceInside
    <3> QED BY <3>1 DEF a, old
  <2> HIDE DEF buffer, a, old
  <2>6. KeepsLines(n.line, old, buffer)
    <3>1. Len(items) >= 1 /\ 2 \in Nat
      BY <2>4
    <3> QED BY <2>2, <2>4, <2>5, <3>1, SpliceKeeps
  <2>7. Len(buffer) = Len(old) - 2 + 1
    BY <2>4, <2>5 DEF Spliced
  <2>8. InBuffer(t)
    BY <2>1, <2>2, <2>7 DEF InBuffer, HasLine
  <2>9. Typed(s, t)
    BY <1>2, <2>1, <2>6, <2>8, Zenon DEF Typed, old
  <2> QED BY <2>9 DEF t
<1> QED BY <1>4, <1>5, <1>6

(* The two parts of a line make it again. *)
LEMMA PartsJoin ==
  ASSUME NEW S, NEW text \in Seq(S), NEW col \in 0 .. Len(text)
  PROVE  SliceTo(text, col) \o SliceFrom(text, col) = text
<1>1. Len(text) \in Nat /\ col \in Nat /\ col <= col
  BY LenProperties
<1>2. MathMin(col, Len(text)) = col
  BY <1>1 DEF MathMin
<1>3. /\ SliceTo(text, col) \o SliceFrom(text, col)
           = Without(text, MathMin(col, Len(text)), MathMin(col, Len(text)))
      /\ Without(text, MathMin(col, Len(text)), MathMin(col, Len(text))) = text
  BY <1>1, CutText
<1> QED BY <1>3

(* <CR> and then <BS>. *)
LEMMA BreakUndone ==
  ASSUME NEW s, Good(s), s.mode = "insert", ~TextThrows(s)
  PROVE  delete_char_before_cursor(break_line_at_cursor(s)).buffer = s.buffer
<1>0. PICK n, text : InsertAt(s, n, text)
  BY InsertPlace
<1> DEFINE t == break_line_at_cursor(s)
           pre == SliceTo(text, n.col)
           post == SliceFrom(text, n.col)
           items == <<pre, post>>
           old == s.buffer
           k == n.line
           new == Splice(old, k, 1, items)
<1>1. t = make_state(At(k + 1, 0), new, s.mode, UndefinedRepeat)
  BY <1>0 DEF break_line_at_cursor, InsertAt
<1>2. t.buffer = new /\ t.cursor.line = k + 1 /\ t.cursor.col = 0 /\ t.mode = "insert"
  <2> HIDE DEF t, new
  <2> QED BY <1>1 DEF make_state, At
<1>3. pre \in Seq(Char) /\ post \in Seq(Char) /\ pre \o post = text
  BY <1>0, Parts, PartsJoin DEF InsertAt
<1> HIDE DEF t, pre, post
<1>4. items \in Seq(Seq(Char)) /\ Len(items) = 2 /\ items[1] = pre /\ items[2] = post
  BY <1>3
<1>5. /\ k \in 0 .. Len(old) - 1 /\ Len(old) \in Nat /\ old \in Seq(Seq(Char))
      /\ text = old[k + 1] /\ text \in Seq(Char)
  BY <1>0 DEF InsertAt, Text
<1> HIDE DEF items, old, k
<1>6. k \in 0 .. Len(old) /\ 1 \in 0 .. Len(old) - k
  BY <1>5
<1>7. new \in Seq(Seq(Char)) /\ Spliced(new, old, k, 1, items)
  BY <1>4, <1>5, <1>6, SpliceInside
<1> HIDE DEF new
<1>8. /\ Len(new) = Len(old) - 1 + 2
      /\ \A i \in 1 .. k : new[i] = old[i]
      /\ \A i \in 1 .. 2 : new[k + i] = items[i]
      /\ \A i \in 1 .. Len(old) - (k + 1) : new[k + 2 + i] = old[k + 1 + i]
  BY <1>4, <1>7 DEF Spliced
<1>9. new[k + 1] = pre /\ new[k + 1 + 1] = post
  <2>1. new[k + 1] = items[1] /\ new[k + 2] = items[2]
    BY <1>8
  <2>2. k + 1 + 1 = k + 2
    BY <1>5
  <2> QED BY <1>4, <2>1, <2>2
<1>10. Good(t)
  BY BreakLineGood DEF t
<1>11. InBuffer(t)
  BY <1>2, <1>5, <1>8 DEF InBuffer, HasLine
<1>12. ~TextThrows(t) /\ NormalLine(t, TRUE) = t.cursor.line
  BY <1>10, <1>11, OwnLine
<1>13. PICK m, text2 : InsertAt(t, m, text2)
  BY <1>2, <1>10, <1>12, InsertPlace
<1>14. m = normalize_cursor(t, TRUE, TRUE).cursor /\ text2 = LineAt(t, m.line) /\ m.line = k + 1
  BY <1>2, <1>12, <1>13 DEF InsertAt
<1>a. m.line = k + 1 /\ m.line - 1 = k
  <2>1. m.line = k + 1
    BY <1>14
  <2> QED BY <1>5, <2>1
<1>15. m.col = 0
  <2>1. Len(text2) \in Nat /\ m.col = MathMax(0, MathMin(0, Len(text2)))
    BY <1>2, <1>13 DEF InsertAt
  <2> QED BY <2>1 DEF MathMax, MathMin
<1>16. text2 = post
  BY <1>2, <1>9, <1>14 DEF LineAt
<1> DEFINE previous == IF HasLine(t, m.line - 1) THEN LineAt(t, m.line - 1) ELSE <<>>
           last == Splice(t.buffer, m.line - 1, 2, <<previous \o text2>>)
<1>17. delete_char_before_cursor(t).buffer = last
  BY <1>14, <1>15 DEF delete_char_before_cursor, make_state
<1>18. previous = pre
  <2>2. HasLine(t, k)
    BY <1>2, <1>5, <1>8 DEF HasLine
  <2>3. LineAt(t, k) = pre
    BY <1>2, <1>9 DEF LineAt
  <2> QED BY <1>a, <2>2, <2>3
<1> HIDE DEF previous
<1>19. last = Splice(new, k, 2, <<text>>)
  BY <1>2, <1>3, <1>16, <1>18, <1>a
<1> HIDE DEF last
<1>20. last \in Seq(Seq(Char)) /\ Spliced(last, new, k, 2, <<text>>)
  <2>1. k \in 0 .. Len(new) /\ 2 \in 0 .. Len(new) - k
    BY <1>5, <1>8
  <2>2. <<text>> \in Seq(Seq(Char))
    BY <1>5
  <2>3. /\ Splice(new, k, 2, <<text>>) \in Seq(Seq(Char))
        /\ Spliced(Splice(new, k, 2, <<text>>), new, k, 2, <<text>>)
    BY <1>7, <2>1, <2>2, SpliceInside
  <2> QED BY <1>19, <2>3
<1>21. /\ Len(last) = Len(new) - 2 + 1
       /\ \A i \in 1 .. k : last[i] = new[i]
       /\ last[k + 1] = text
       /\ \A i \in 1 .. Len(new) - (k + 2) : last[k + 1 + i] = new[k + 2 + i]
  <2> DEFINE one == <<text>>
  <2>1. Len(one) = 1 /\ one[1] = text
    OBVIOUS
  <2>2. Spliced(last, new, k, 2, one)
    BY <1>20
  <2> HIDE DEF one
  <2>3. 1 \in 1 .. Len(one)
    BY <2>1
  <2> QED BY <2>1, <2>2, <2>3 DEF Spliced
<1>22. Len(last) = Len(old)
  BY <1>5, <1>8, <1>21
<1>23. ASSUME NEW i \in 1 .. Len(last) PROVE last[i] = old[i]
  <2>1. CASE i <= k
    BY <1>5, <1>8, <1>21, <2>1
  <2>2. CASE i = k + 1
    BY <1>5, <1>21, <2>2
  <2>3. CASE i > k + 1
    <3> DEFINE j == i - (k + 1)
    <3>1. /\ j \in 1 .. Len(new) - (k + 2) /\ j \in 1 .. Len(old) - (k + 1)
          /\ i = k + 1 + j
      BY <1>5, <1>8, <1>22, <2>3
    <3> HIDE DEF j
    <3>2. last[k + 1 + j] = new[k + 2 + j] /\ new[k + 2 + j] = old[k + 1 + j]
      BY <1>8, <1>21, <3>1
    <3> QED BY <3>1, <3>2
  <2> QED BY <1>5, <1>22, <2>1, <2>2, <2>3
<1>24. last = old
  BY <1>5, <1>20, <1>22, <1>23, SeqEqual
<1> QED BY <1>17, <1>24 DEF t, old

(* A character put in after the first col of a text, and taken out again. *)
LEMMA CharTakenOut ==
  ASSUME NEW S, NEW text \in Seq(S), NEW col \in 0 .. Len(text), NEW string \in Seq(S), Len(string) = 1
  PROVE  LET longer == SliceTo(text, col) \o string \o SliceFrom(text, col)
         IN /\ longer \in Seq(S) /\ Len(longer) = Len(text) + 1
            /\ SliceTo(longer, col) \o SliceFrom(longer, col + 1) = text
<1> DEFINE pre == SliceTo(text, col)
           post == SliceFrom(text, col)
           half == pre \o string
           longer == half \o post
<1>0. Len(text) \in Nat /\ col \in Nat
  BY LenProperties
<1>1. /\ pre \in Seq(S) /\ Len(pre) = col
      /\ \A i \in 1 .. col : pre[i] = text[i]
      /\ post \in Seq(S) /\ Len(post) = Len(text) - col
      /\ \A i \in 1 .. Len(text) - col : post[i] = text[col + i]
  BY Parts
<1> HIDE DEF pre, post
<1>2. pre \in Seq(S) /\ post \in Seq(S) /\ Len(pre) = col /\ Len(post) = Len(text) - col
  BY <1>1
<1>3. half \in Seq(S) /\ Joins(half, pre, string)
  BY <1>2, Glued
<1> HIDE DEF half
<1>4. longer \in Seq(S) /\ Joins(longer, half, post)
  BY <1>2, <1>3, Glued
<1> HIDE DEF longer
<1>5. /\ Len(half) = col + 1
      /\ \A i \in 1 .. col : half[i] = pre[i]
  BY <1>2, <1>3 DEF Joins
<1>6. /\ Len(longer) = col + 1 + (Len(text) - col)
      /\ \A i \in 1 .. col + 1 : longer[i] = half[i]
      /\ \A i \in 1 .. Len(text) - col : longer[col + 1 + i] = post[i]
  BY <1>2, <1>4, <1>5 DEF Joins
<1>7. Len(longer) = Len(text) + 1 /\ col \in 0 .. Len(longer) /\ col + 1 \in 0 .. Len(longer)
  BY <1>0, <1>6
<1> DEFINE a == SliceTo(longer, col)
           b == SliceFrom(longer, col + 1)
<1>8. a \in Seq(S) /\ Len(a) = col /\ \A i \in 1 .. col : a[i] = longer[i]
  BY <1>4, <1>7, Parts
<1>9. /\ b \in Seq(S) /\ Len(b) = Len(longer) - (col + 1)
      /\ \A i \in 1 .. Len(longer) - (col + 1) : b[i] = longer[col + 1 + i]
  BY <1>4, <1>7, Parts
<1> HIDE DEF a, b
<1>10. a \in Seq(S) /\ b \in Seq(S) /\ Len(a) = col /\ Len(b) = Len(text) - col
  BY <1>0, <1>7, <1>8, <1>9
<1>11. a \o b \in Seq(S) /\ Joins(a \o b, a, b)
  BY <1>10, Glued
<1>12. Len(a \o b) = Len(text)
  BY <1>0, <1>10, <1>11 DEF Joins
<1>13. ASSUME NEW i \in 1 .. Len(a \o b) PROVE (a \o b)[i] = text[i]
  <2>1. CASE i <= col
    <3>1. i \in 1 .. col /\ i \in 1 .. col + 1 /\ i \in 1 .. Len(a)
      BY <1>0, <1>10, <1>12, <2>1
    <3>2. (a \o b)[i] = a[i]
      BY <1>11, <3>1 DEF Joins
    <3>3. a[i] = longer[i] /\ longer[i] = half[i] /\ half[i] = pre[i] /\ pre[i] = text[i]
      BY <1>1, <1>5, <1>6, <1>8, <3>1
    <3> QED BY <3>2, <3>3
  <2>2. CASE ~(i <= col)
    <3> DEFINE j == i - col
    <3>1. /\ j \in 1 .. Len(text) - col /\ j \in 1 .. Len(longer) - (col + 1) /\ j \in 1 .. Len(b)
          /\ i = Len(a) + j /\ i = col + j
      BY <1>0, <1>7, <1>10, <1>12, <2>2
    <3> HIDE DEF j
    <3>2. (a \o b)[Len(a) + j] = b[j]
      BY <1>11, <3>1 DEF Joins
    <3>3. b[j] = longer[col + 1 + j] /\ longer[col + 1 + j] = post[j] /\ post[j] = text[col + j]
      BY <1>1, <1>6, <1>9, <3>1
    <3> QED BY <3>1, <3>2, <3>3
  <2> QED BY <2>1, <2>2
<1>14. a \o b = text
  BY <1>11, <1>12, <1>13, SeqEqual
<1> QED BY <1>4, <1>7, <1>14 DEF a, b, longer, half, pre, post

(* A character and then <BS>. *)
LEMMA InsertUndone ==
  ASSUME NEW s, Good(s), s.mode = "insert", ~TextThrows(s),
         NEW string \in Seq(Char), Len(string) = 1
  PROVE  delete_char_before_cursor(insert_string_at_cursor(s, string)).buffer = s.buffer
<1>0. PICK n, text : InsertAt(s, n, text)
  BY InsertPlace
<1> DEFINE t == insert_string_at_cursor(s, string)
           longer == SliceTo(text, n.col) \o string \o SliceFrom(text, n.col)
           old == s.buffer
           k == n.line
           col == n.col
           new == [old EXCEPT ![k + 1] = longer]
<1>1. t = make_state(At(k, col + Len(string)), new, s.mode, UndefinedRepeat)
  BY <1>0 DEF insert_string_at_cursor, InsertAt
<1>2. t.buffer = new /\ t.cursor.line = k /\ t.cursor.col = col + Len(string) /\ t.mode = "insert"
  <2> HIDE DEF t, new, col
  <2> QED BY <1>1 DEF make_state, At
<1>3. /\ k \in 0 .. Len(old) - 1 /\ Len(old) \in Nat /\ old \in Seq(Seq(Char))
      /\ k + 1 \in 1 .. Len(old) /\ text = old[k + 1] /\ text \in Seq(Char)
      /\ col \in 0 .. Len(text) /\ Len(text) \in Nat
  BY <1>0 DEF InsertAt, Text
<1>4. /\ longer \in Seq(Char) /\ Len(longer) = Len(text) + 1
      /\ SliceTo(longer, col) \o SliceFrom(longer, col + 1) = text
  <2> HIDE DEF col
  <2>1. LET w == SliceTo(text, col) \o string \o SliceFrom(text, col)
        IN /\ w \in Seq(Char) /\ Len(w) = Len(text) + 1
           /\ SliceTo(w, col) \o SliceFrom(w, col + 1) = text
    <3>1. text \in Seq(Char) /\ col \in 0 .. Len(text)
      BY <1>3
    <3> QED BY <3>1, CharTakenOut, Zenon
  <2> QED BY <2>1 DEF col
<1> HIDE DEF t, longer
<1>5. Good(t)
  BY InsertStringGood DEF t
<1>6. InBuffer(t)
  BY <1>0, <1>2, <1>4, LineTyped
<1>7. ~TextThrows(t) /\ NormalLine(t, TRUE) = t.cursor.line
  BY <1>5, <1>6, OwnLine
<1>8. PICK m, text2 : InsertAt(t, m, text2)
  BY <1>2, <1>5, <1>7, InsertPlace
<1>9. m = normalize_cursor(t, TRUE, TRUE).cursor /\ text2 = LineAt(t, m.line) /\ m.line = NormalLine(t, TRUE)
  BY <1>8 DEF InsertAt
<1>10. m.line = k
  BY <1>2, <1>7, <1>9
<1>11. text2 = longer
  <2>1. new[k + 1] = longer
    BY <1>3
  <2>2. text2 = LineAt(t, m.line)
    BY <1>9
  <2> HIDE DEF new, k
  <2> QED BY <1>2, <1>10, <2>1, <2>2 DEF LineAt
<1> HIDE DEF new, k, old, col
<1>12. m.col = col + 1
  <2>1. m.col = MathMax(0, MathMin(t.cursor.col, Len(text2)))
    BY <1>8 DEF InsertAt
  <2>2. t.cursor.col = col + 1 /\ Len(text2) = Len(text) + 1
    BY <1>2, <1>4, <1>11
  <2>3. \A c \in Nat, l \in Nat : c <= l => MathMax(0, MathMin(c + 1, l + 1)) = c + 1
    BY DEF MathMax, MathMin
  <2>4. col \in Nat /\ Len(text) \in Nat /\ col <= Len(text)
    BY <1>3
  <2>5. m.col = MathMax(0, MathMin(col + 1, Len(text) + 1))
    BY <2>1, <2>2
  <2> QED BY <2>3, <2>4, <2>5
<1> DEFINE last == [t.buffer EXCEPT ![m.line + 1] = SliceTo(text2, m.col - 1) \o SliceFrom(text2, m.col)]
<1>13. m.col # 0 /\ m.col - 1 = col
  BY <1>3, <1>12
<1>14. delete_char_before_cursor(t).buffer = last
  BY <1>9, <1>13 DEF delete_char_before_cursor, make_state
<1>15. last = [new EXCEPT ![k + 1] = text]
  BY <1>2, <1>4, <1>10, <1>11, <1>12, <1>13
<1> HIDE DEF last
<1>16. [new EXCEPT ![k + 1] = text] = old
  <2>1. new \in Seq(Seq(Char)) /\ Len(new) = Len(old)
    BY <1>3, <1>4, TextExcept DEF new, Text
  <2>2. [new EXCEPT ![k + 1] = text] \in Seq(Seq(Char)) /\ Len([new EXCEPT ![k + 1] = text]) = Len(old)
    BY <1>3, <2>1, TextExcept DEF Text
  <2> DEFINE r == [new EXCEPT ![k + 1] = text]
  <2>3. \A i \in 1 .. Len(old) : r[i] = old[i]
    BY <1>3, <2>1 DEF new
  <2> HIDE DEF r
  <2>4. r \in Seq(Seq(Char)) /\ Len(r) = Len(old)
    BY <2>2 DEF r
  <2>5. r = old
    BY <1>3, <2>3, <2>4, SeqEqual
  <2> QED BY <2>5 DEF r
<1> QED BY <1>14, <1>15, <1>16 DEF t, old

(* In insert mode, wherever the cursor is, <BS> takes back a line break or *)
(* a character, for any text and any alphabet.                             *)
THEOREM TypingCanBeUndone == Spec => []TypingIsUndone
<1>1. Inv => TypingIsUndone
  <2> SUFFICES ASSUME Inv, state.mode = "insert", ~TextThrows(state)
               PROVE  /\ delete_char_before_cursor(break_line_at_cursor(state)).buffer = state.buffer
                      /\ \A key \in TypedKeys :
                           Len(KeyText[key]) = 1 =>
                             delete_char_before_cursor(
                               insert_string_at_cursor(state, KeyText[key])).buffer = state.buffer
    BY DEF TypingIsUndone
  <2>1. Good(state)
    BY DEF Inv
  <2>2. delete_char_before_cursor(break_line_at_cursor(state)).buffer = state.buffer
    BY <2>1, BreakUndone
  <2>3. ASSUME NEW key \in TypedKeys, Len(KeyText[key]) = 1
        PROVE  delete_char_before_cursor(
                 insert_string_at_cursor(state, KeyText[key])).buffer = state.buffer
    <3>1. KeyText[key] \in Seq(Char)
      BY EditorAssumption
    <3> QED BY <2>1, <2>3, <3>1, InsertUndone
  <2> QED BY <2>2, <2>3
<1> QED BY <1>1, Invariant, PTL

-----------------------------------------------------------------------------
(* What a step may do.                                                     *)

(* Each group of keys has its own actions. *)
LEMMA GroupFacts ==
  ASSUME NEW b \in Bindings
  PROVE  /\ b[1] = "goto" => b[3] = "goto_first_line"
         /\ b[1] = "insert" => b[3] = "enter_command"
         /\ b[1] = "delete" => b[3] = "delete_current_line"
         /\ b[1] = "movement" => b[3] = "movement"
         /\ b[1] = "repeat_number" => b[3] = "push_repeat_number"
         /\ b[3] = "delete_current_line" => b[1] = "delete"
         /\ b[3] = "change_current_line" => b[1] = "change"
<1>1. CASE b \in { <<"movement", k, "movement">> : k \in MoveKeys \cup {"G"} }
  BY <1>1
<1>2. CASE b \in { <<"repeat_number", k, "push_repeat_number">> : k \in DigitKeys }
  BY <1>2
<1>3. CASE /\ b \notin { <<"movement", k, "movement">> : k \in MoveKeys \cup {"G"} }
           /\ b \notin { <<"repeat_number", k, "push_repeat_number">> : k \in DigitKeys }
  BY <1>3 DEF Bindings
<1> QED BY <1>1, <1>2, <1>3

(* Which actions a key can have in a mode. *)
LEMMA ModeFacts ==
  ASSUME NEW mode \in Modes, NEW key \in Keys
  PROVE  LET action == action_of_key[mode][key]
         IN /\ mode = "goto" => action \in {"goto_first_line", "none"}
            /\ mode = "insert" => action \in {"enter_command", "type"}
            /\ mode = "delete" => action \in {"delete_current_line", "movement",
                                              "push_repeat_number", "enter_command"}
            /\ action = "delete_current_line" => mode = "delete"
            /\ action = "change_current_line" => mode = "change"
<1> DEFINE sub == CHOOSE g \in Subgroups(mode) : Bound(g, key)
           subaction == BoundTo(sub, key)
<1>1. action_of_key[mode][key]
        = IF Bound(mode, key) THEN BoundTo(mode, key)
          ELSE IF \E g \in Subgroups(mode) : Bound(g, key)
               THEN subaction
               ELSE Catchall(mode)
  BY DEF action_of_key
<1>2. CASE Bound(mode, key)
  <2>1. PICK b \in Bindings :
          b[1] = mode /\ b[2] = key /\ b[3] = BoundTo(mode, key)
    BY <1>2, BoundToIsBinding
  <2>2. action_of_key[mode][key] = b[3]
    BY <1>1, <1>2, <2>1
  <2> QED BY <2>1, <2>2, GroupFacts
<1>3. CASE ~Bound(mode, key) /\ \E g \in Subgroups(mode) : Bound(g, key)
  <2>1. Bound(sub, key) /\ sub \in Subgroups(mode)
    BY <1>3
  <2> HIDE DEF sub
  <2>2. mode \in {"command", "delete", "change"} /\ sub \in {"movement", "repeat_number"}
    BY <2>1 DEF Subgroups
  <2>3. PICK b \in Bindings :
          b[1] = sub /\ b[2] = key /\ b[3] = BoundTo(sub, key)
    BY <2>1, BoundToIsBinding
  <2>4. action_of_key[mode][key] = b[3]
    BY <1>1, <1>3, <2>3
  <2>5. b[3] \in {"movement", "push_repeat_number"}
    BY <2>2, <2>3, GroupFacts
  <2> QED BY <2>2, <2>4, <2>5
<1>4. CASE ~Bound(mode, key) /\ ~\E g \in Subgroups(mode) : Bound(g, key)
  <2>1. action_of_key[mode][key] = Catchall(mode)
    BY <1>1, <1>4
  <2>2. /\ mode = "goto" => Catchall(mode) = "none"
        /\ mode = "insert" => Catchall(mode) = "type"
        /\ mode = "delete" => Catchall(mode) = "enter_command"
        /\ Catchall(mode) \in {"type", "enter_command", "none"}
    BY DEF Catchall, Modes
  <2> QED BY <2>1, <2>2
<1> QED BY <1>2, <1>3, <1>4

(* The four things that are shown of every step: the bodies of the action  *)
(* properties GotoLandsInBuffer, CursorStraysOnlyByDeletion,               *)
(* DeletesAroundCursor and InsertModeIsLocal.                              *)
GotoLands ==
  /\ state.mode = "goto" /\ state'.mode # "goto" => InBuffer(state')
  /\ focus = "exec" /\ state' # state => InBuffer(state') /\ focus' = "node" /\ ~exec_open'

StraysByDeletion ==
  InBuffer(state) /\ ~InBuffer(state') =>
        \/ /\ state.mode \in {"delete", "change"}
           /\ Len(state'.buffer) < Len(state.buffer)
        \/ /\ state.mode = "insert"
           /\ state.cursor.line = 0
           /\ state'.cursor.line = -1

(* How much of the cursor's line a movement with the pending number removes. *)
OwnLimit == Limit(state.cursor.col, Len(state.buffer[state.cursor.line + 1]), Repeat)

DeletesHere ==
  state.mode = "delete" /\ InBuffer(state) /\ state'.buffer # state.buffer =>
    \/ LinesGo(state.cursor.line, state.buffer, state'.buffer)
    \/ TextGoes(state.cursor.line, OwnLimit, state.buffer, state'.buffer)

InsertsHere ==
  state.mode = "insert" /\ state'.buffer # state.buffer =>
    \/ KeepsLines(NormalLine(state, TRUE), state.buffer, state'.buffer)
    \/ AtOrigin(state) /\ state'.buffer = FirstLineIsLast(state)

StepOK == GotoLands /\ StraysByDeletion /\ DeletesHere /\ InsertsHere

(* A step that leaves the text and the cursor's line as they are. *)
LEMMA KeptOK ==
  ASSUME state'.cursor.line = state.cursor.line, state'.buffer = state.buffer,
         focus = "exec" => state' = state,
         state.mode = "goto" => state'.mode = "goto"
  PROVE  StepOK
<1>1. InBuffer(state) => InBuffer(state')
  BY DEF InBuffer, HasLine
<1>2. GotoLands /\ StraysByDeletion
  BY <1>1 DEF GotoLands, StraysByDeletion
<1> QED BY <1>2 DEF StepOK, DeletesHere, InsertsHere

(* A step that leaves the text as it is and ends in the buffer, and in the *)
(* editor.                                                                 *)
LEMMA LandedOK ==
  ASSUME state'.buffer = state.buffer, InBuffer(state'),
         focus = "exec" => focus' = "node" /\ ~exec_open'
  PROVE  StepOK
  BY DEF StepOK, GotoLands, StraysByDeletion, DeletesHere, InsertsHere

(* A step of command or change mode that does not leave the buffer. *)
LEMMA CommandOK ==
  ASSUME focus = "node", state.mode \in {"command", "change"}, InBuffer(state) => InBuffer(state')
  PROVE  StepOK
  BY DEF StepOK, GotoLands, StraysByDeletion, DeletesHere, InsertsHere

(* A step that deletes. *)
LEMMA DeletedOK ==
  ASSUME focus = "node", state.mode \in {"delete", "change"},
         InBuffer(state) =>
            \/ /\ InBuffer(state')
               /\ \/ state'.buffer = state.buffer
                  \/ TextGoes(state.cursor.line, OwnLimit, state.buffer, state'.buffer)
            \/ /\ Len(state'.buffer) < Len(state.buffer)
               /\ LinesGo(state.cursor.line, state.buffer, state'.buffer)
  PROVE  StepOK
<1>1. GotoLands /\ InsertsHere
  BY DEF GotoLands, InsertsHere
<1>2. StraysByDeletion
  BY DEF StraysByDeletion
<1>3. DeletesHere
  BY DEF DeletesHere
<1> QED BY <1>1, <1>2, <1>3 DEF StepOK

(* A step that types. *)
LEMMA TypedOK ==
  ASSUME focus = "node", state.mode = "insert", Typed(state, state')
  PROVE  StepOK
<1>1. GotoLands /\ DeletesHere
  BY DEF GotoLands, DeletesHere
<1>2. StraysByDeletion
  BY DEF StraysByDeletion, Typed
<1>3. InsertsHere
  BY Zenon DEF InsertsHere, Typed
<1> QED BY <1>1, <1>2, <1>3 DEF StepOK

(* The repeat number is not looked at by what places the cursor or types.  *)
LEMMA ClearedSame ==
  /\ Cleared.cursor = state.cursor /\ Cleared.buffer = state.buffer /\ Cleared.mode = state.mode
  /\ Cleared.repeat_number = 0
  /\ InBuffer(Cleared) <=> InBuffer(state)
  /\ \A t : Typed(Cleared, t) => Typed(state, t)
<1>1. Cleared.cursor = state.cursor /\ Cleared.buffer = state.buffer /\ Cleared.mode = state.mode
      /\ Cleared.repeat_number = 0
  BY DEF Cleared, make_state
<1>2. InBuffer(Cleared) <=> InBuffer(state)
  BY <1>1 DEF InBuffer, HasLine
<1>3. NormalLine(Cleared, TRUE) = NormalLine(state, TRUE)
  BY <1>1 DEF NormalLine, EndOfLine
<1>6. FirstLineIsLast(Cleared) = FirstLineIsLast(state)
  BY <1>1 DEF FirstLineIsLast
<1>4. AtOrigin(Cleared) <=> AtOrigin(state)
  <2>1. normalize_cursor(Cleared, TRUE, TRUE).cursor = normalize_cursor(state, TRUE, TRUE).cursor
    <3> DEFINE line == NormalLine(state, TRUE)
               c(s) == MathMax(0, MathMin(s.cursor.col, Len(LineAt(s, line)) + EndOfLine(s)))
    <3>1. normalize_cursor(Cleared, TRUE, TRUE).cursor = At(line, c(Cleared))
      BY <1>3 DEF normalize_cursor, make_state
    <3>2. normalize_cursor(state, TRUE, TRUE).cursor = At(line, c(state))
      BY DEF normalize_cursor, make_state
    <3>3. c(Cleared) = c(state)
      <4> HIDE DEF line
      <4> QED BY <1>1 DEF LineAt, EndOfLine
    <3> QED BY <3>1, <3>2, <3>3, Zenon
  <2> QED BY <2>1, Zenon DEF AtOrigin
<1>5. ASSUME NEW t, Typed(Cleared, t) PROVE Typed(state, t)
  BY <1>1, <1>2, <1>3, <1>4, <1>5, <1>6, Zenon DEF Typed
<1> QED BY <1>1, <1>2, <1>5

(* A key pressed in the editor. *)
LEMMA NodeKeyOK ==
  ASSUME Inv, NEW key \in Keys, NodeKey(key)
  PROVE  StepOK
<1> DEFINE action == action_of_key[state.mode][key]
<1>0. state \in EditorState /\ Good(state) /\ state.mode \in Modes /\ Good(Cleared)
  BY FieldsType, ClearedGood DEF Inv, Good
<1>a. /\ Cleared.cursor = state.cursor /\ Cleared.buffer = state.buffer /\ Cleared.mode = state.mode
      /\ Cleared.repeat_number = 0
  BY ClearedSame
<1>b. InBuffer(Cleared) <=> InBuffer(state)
  BY ClearedSame
<1>c. /\ state.mode = "goto" => action \in {"goto_first_line", "none"}
      /\ state.mode = "insert" => action \in {"enter_command", "type"}
      /\ state.mode = "delete" => action \in {"delete_current_line", "movement",
                                              "push_repeat_number", "enter_command"}
      /\ action = "delete_current_line" => state.mode = "delete"
      /\ action = "change_current_line" => state.mode = "change"
      /\ action = "type" => state.mode = "insert"
      /\ action = "movement" => key \in MoveKeys \cup {"G"}
  BY <1>0, ModeFacts, KeyFacts
<1>d. ASSUME Fails PROVE state' = Cleared
  BY <1>d DEF Fails
<1>e. focus = "node"
  BY DEF NodeKey, OpenExec, Insert, InsertLine, EnterMode, DeleteLine, ChangeLine, GotoFirstLine,
     PushRepeatNumber, Movement, Type, Pressed
<1>f. ASSUME state' = Cleared PROVE StepOK
  BY <1>a, <1>e, <1>f, KeptOK
<1>g. state.mode # "goto" /\ state.mode # "insert" /\ state.mode # "delete" => state.mode \in {"command", "change"}
  BY <1>0 DEF Modes
<1> HIDE DEF action
<1>1. CASE OpenExec(key)
  BY <1>1, <1>f DEF OpenExec
<1>2. CASE Insert(key)
  <2>1. action \in {"insert_before", "insert_after"}
    BY <1>2 DEF Insert, Pressed, action
  <2>2. PICK location : state' = insert(Cleared, location)
    BY <1>2 DEF Insert, Completes
  <2>3. state'.cursor.line = Cleared.cursor.line /\ state'.buffer = Cleared.buffer
    BY <2>2 DEF insert, make_state, At
  <2> QED BY <1>a, <1>c, <1>e, <2>1, <2>3, KeptOK
<1>3. CASE InsertLine(key)
  <2>1. action \in {"insert_line_before", "insert_line_after"}
    BY <1>3 DEF InsertLine, Pressed, action
  <2>2. PICK location \in {"before", "after"} : state' = insert_line(Cleared, location)
    BY <1>3 DEF InsertLine, Completes
  <2>3. InBuffer(state) => InBuffer(state')
    BY <1>0, <1>b, <2>2, InsertLineLands
  <2> QED BY <1>c, <1>e, <1>g, <2>1, <2>3, CommandOK
<1>4. CASE EnterMode(key)
  <2>1. action \in {"enter_delete", "enter_change", "enter_goto", "enter_command"}
    BY <1>4 DEF EnterMode, Pressed, action
  <2>2. PICK mode : state' = enter_mode(Cleared, mode)
    BY <1>4 DEF EnterMode, Completes
  <2>3. state'.cursor = Cleared.cursor /\ state'.buffer = Cleared.buffer
    BY <2>2 DEF enter_mode, make_state
  <2> QED BY <1>a, <1>c, <1>e, <2>1, <2>3, KeptOK
<1>5. CASE DeleteLine(key)
  <2>1. action = "delete_current_line" /\ state' = delete_current_line(Cleared)
    BY <1>5 DEF DeleteLine, Pressed, Completes, action
  <2>2. InBuffer(state) => /\ Len(state'.buffer) < Len(state.buffer)
                           /\ LinesGo(state.cursor.line, state.buffer, state'.buffer)
    BY <1>0, <1>a, <1>b, <2>1, DeleteLineEffect
  <2> QED BY <1>c, <1>e, <2>1, <2>2, DeletedOK
<1>6. CASE ChangeLine(key)
  <2>1. action = "change_current_line" /\ state' = change_current_line(Cleared)
    BY <1>6 DEF ChangeLine, Pressed, Completes, action
  <2>2. InBuffer(state) => InBuffer(state')
    BY <1>0, <1>b, <2>1, ChangeLineLands
  <2> QED BY <1>c, <1>e, <2>1, <2>2, CommandOK
<1>7. CASE GotoFirstLine(key)
  <2>1. CASE Fails
    BY <1>d, <1>f, <2>1
  <2>2. CASE ~Fails
    <3>1. ~GotoThrows(Cleared, 0) /\ state' = goto_line(Cleared, 0)
      BY <1>7, <2>2 DEF GotoFirstLine, Completes
    <3>2. InBuffer(state') /\ state'.buffer = Cleared.buffer
      BY <1>0, <3>1, GotoGood
    <3> QED BY <1>a, <1>e, <3>2, LandedOK
  <2> QED BY <2>1, <2>2
<1>8. CASE PushRepeatNumber(key)
  <2>1. action = "push_repeat_number"
    BY <1>8 DEF PushRepeatNumber, Pressed, action
  <2>2. PICK number : state' = make_state(state.cursor, state.buffer, state.mode, number)
    BY <1>8 DEF PushRepeatNumber, Completes
  <2>3. state'.cursor = state.cursor /\ state'.buffer = state.buffer /\ state'.mode = state.mode
    BY <2>2 DEF make_state
  <2> QED BY <1>e, <2>3, KeptOK
<1>9. CASE Movement(key)
  <2> DEFINE target == MovementTarget(Cleared, key, Repeat)
             t == delete_to_cursor(Cleared, target)
  <2>1. CASE Fails
    BY <1>d, <1>f, <2>1
  <2>2. CASE ~Fails
    <3>1. /\ action = "movement"
          /\ \/ state.mode = "command" /\ state' = make_state(target, state.buffer, state.mode, 0)
             \/ state.mode = "delete" /\ state' = t
             \/ state.mode = "change" /\ state' = change_to_cursor(Cleared, target)
      BY <1>9, <2>2 DEF Movement, Pressed, Completes, action
    <3>2. Repeat \in Nat
      BY <1>0, <3>1, FieldsType DEF Repeat, UndefinedRepeat, Good
    <3>3. key \in MoveKeys \cup {"G"}
      BY <1>c, <3>1
    <3>4. InBuffer(state) => target.line \in 0 .. Len(state.buffer) - 1 /\ target.col \in Nat
      <4>1. state.mode # "insert"
        BY <3>1
      <4> QED BY <1>0, <1>a, <1>b, <3>2, <3>3, <4>1, MovementLands
    <3>a. InBuffer(state) => Near(Cleared, target, OwnLimit)
      <4>1. Cleared.mode # "insert"
        BY <1>a, <3>1
      <4>2. OwnLimit = Limit(Cleared.cursor.col, Len(Cleared.buffer[Cleared.cursor.line + 1]), Repeat)
        BY <1>a DEF OwnLimit
      <4> HIDE DEF target
      <4>3. InBuffer(state) =>
              Stretch(Cleared.cursor.col, target.col, Len(Cleared.buffer[Cleared.cursor.line + 1]))
                <= Limit(Cleared.cursor.col, Len(Cleared.buffer[Cleared.cursor.line + 1]), Repeat)
        BY <1>0, <1>b, <3>2, <3>3, <4>1, MovementReach DEF target
      <4> QED BY <4>2, <4>3, Zenon DEF Near
    <3> HIDE DEF target
    <3>5. CASE state.mode = "command"
      <4>1. state'.buffer = state.buffer /\ state'.cursor = target
        BY <3>1, <3>5 DEF make_state
      <4>2. Len(state.buffer) \in Nat
        BY <1>0, FieldsType
      <4>3. InBuffer(state) => InBuffer(state')
        BY <3>4, <4>1, <4>2 DEF InBuffer, HasLine
      <4> QED BY <1>e, <3>5, <4>3, CommandOK
    <3>6. CASE state.mode \in {"delete", "change"}
      <4>1. state'.buffer = t.buffer /\ state'.cursor = t.cursor
        BY <3>1, <3>6 DEF change_to_cursor, enter_mode, make_state
      <4>2. ASSUME InBuffer(state)
            PROVE  \/ /\ SameLine(Cleared, t)
                      /\ t.buffer = Cleared.buffer
                         \/ TextGoes(Cleared.cursor.line, OwnLimit, Cleared.buffer, t.buffer)
                   \/ /\ Len(t.buffer) < Len(Cleared.buffer)
                      /\ LinesGo(Cleared.cursor.line, Cleared.buffer, t.buffer)
        BY <1>0, <1>a, <1>b, <3>4, <3>a, <4>2, DeleteToEffect
      <4> HIDE DEF t
      <4>3. InBuffer(t) <=> InBuffer(state')
        BY <4>1 DEF InBuffer, HasLine
      <4>4. InBuffer(state) /\ SameLine(Cleared, t) => InBuffer(state')
        BY <1>b, <4>3, SameLineStays
      <4>5. InBuffer(state) =>
              \/ /\ InBuffer(state')
                 /\ \/ state'.buffer = state.buffer
                    \/ TextGoes(state.cursor.line, OwnLimit, state.buffer, state'.buffer)
              \/ /\ Len(state'.buffer) < Len(state.buffer)
                 /\ LinesGo(state.cursor.line, state.buffer, state'.buffer)
        BY <1>a, <4>1, <4>2, <4>4
      <4> QED BY <1>e, <3>6, <4>5, DeletedOK
    <3> QED BY <3>1, <3>5, <3>6
  <2> QED BY <2>1, <2>2
<1>10. CASE Type(key)
  <2>1. CASE Fails
    BY <1>d, <1>f, <2>1
  <2>2. CASE ~Fails
    <3>1. /\ action = "type" /\ ~TextThrows(Cleared)
          /\ \/ state' = delete_char_before_cursor(Cleared)
             \/ state' = break_line_at_cursor(Cleared)
             \/ key \in TypedKeys /\ state' = insert_string_at_cursor(Cleared, KeyText[key])
      BY <1>10, <2>2 DEF Type, Pressed, Completes, action
    <3>2. state.mode = "insert" /\ Cleared.mode = "insert"
      BY <1>a, <1>c, <3>1
    <3>3. key \in TypedKeys => KeyText[key] \in Seq(Char)
      BY EditorAssumption
    <3>4. Typed(Cleared, state')
      BY <1>0, <3>1, <3>2, <3>3, DeleteCharTyped, BreakLineTyped, InsertStringTyped
    <3>5. Typed(state, state')
      BY <3>4, ClearedSame
    <3> QED BY <1>e, <3>2, <3>5, TypedOK
  <2> QED BY <2>1, <2>2
<1> QED BY <1>1, <1>2, <1>3, <1>4, <1>5, <1>6, <1>7, <1>8, <1>9, <1>10 DEF NodeKey

(* Every step. *)
LEMMA NextOK == Inv /\ Next => StepOK
<1> SUFFICES ASSUME Inv, Next PROVE StepOK
  OBVIOUS
<1>1. ASSUME NEW key \in Keys, NodeKey(key) PROVE StepOK
  BY <1>1, NodeKeyOK
<1>2. ASSUME NEW line \in GotoLines, ExecGoto(line) PROVE StepOK
  <2>1. line \in Int /\ ~GotoThrows(state, line) /\ state' = goto_line(state, line)
    BY <1>2, EditorAssumption DEF ExecGoto, ExecCompletes
  <2>2. InBuffer(state') /\ state'.buffer = state.buffer
    BY <2>1, GotoGood DEF Inv
  <2>3. focus' = "node" /\ ~exec_open'
    BY <1>2, <2>1, <2>2 DEF ExecGoto, ExecCompletes, InBuffer, HasLine
  <2> QED BY <2>2, <2>3, LandedOK
<1>3. ASSUME ExecOther \/ ExecEscape \/ Click PROVE StepOK
  BY <1>3, KeptOK DEF ExecOther, ExecCompletes, ExecEscape, Click
<1> QED BY <1>1, <1>2, <1>3 DEF Next

(* gg, and a number in the exec window, end on a line of the buffer, and   *)
(* the window is closed.                                                   *)
THEOREM GotoEndsInBuffer == Spec => GotoLandsInBuffer
<1>1. Inv /\ [Next]_vars => [GotoLands]_vars
  BY NextOK DEF StepOK
<1> QED BY <1>1, Invariant, PTL DEF Spec, GotoLandsInBuffer, GotoLands

(* Only d and c, and <BS> at the start of the file, take the cursor out of *)
(* the buffer.                                                             *)
THEOREM OnlyDeletionStrays == Spec => CursorStraysOnlyByDeletion
<1>1. Inv /\ [Next]_vars => [StraysByDeletion]_vars
  BY NextOK DEF StepOK
<1> QED BY <1>1, Invariant, PTL DEF Spec, CursorStraysOnlyByDeletion, StraysByDeletion

(* d removes whole lines next to the cursor, or a stretch of its line that *)
(* is as long as the repeat number says at most, or one character longer.  *)
THEOREM DeletionsAreLocal == Spec => DeletesAroundCursor
<1>1. Inv /\ [Next]_vars => [DeletesHere]_vars
  BY NextOK DEF StepOK
<1> QED BY <1>1, Invariant, PTL DEF Spec, DeletesAroundCursor, DeletesHere, LinesGo, TextGoes, OwnLimit, Limit

(* A key of insert mode leaves all lines but the cursor's and the one      *)
(* above it as they are, but for <BS> at the start of the file, which      *)
(* writes the first line over the last one.                                *)
THEOREM TypingIsLocal == Spec => InsertModeIsLocal
<1>1. Inv /\ [Next]_vars => [InsertsHere]_vars
  BY NextOK DEF StepOK
<1> QED BY <1>1, Invariant, PTL DEF Spec, InsertModeIsLocal, InsertsHere, KeepsLines, KeepsOtherLines

=============================================================================
