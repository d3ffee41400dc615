------------------------------- MODULE Editor -------------------------------
(***************************************************************************)
(* The modal text editor of assets/js/app.coffee: one key handler over a   *)
(* buffer of lines, a cursor, a mode and a pending repeat number, and the  *)
(* exec (":") window that shares that state with it.                       *)
(*                                                                         *)
(* Lines and columns are counted from 0, as in the source, so line l of    *)
(* the buffer is state.buffer[l + 1].  Reading a line outside the buffer   *)
(* yields undefined in the source, and taking its length or a slice of it  *)
(* raises a TypeError out of the key handler: every operation that can do  *)
(* so has a ...Throws predicate beside it.                                 *)
(***************************************************************************)
EXTENDS Integers, Sequences

CONSTANTS
  Char,            \* the characters a line is made of
  TypedKeys,       \* keys of insert mode other than <BS>, <CR> and <ESC>
  KeyText,         \* the text each of them inserts: its own name, so the named
                   \* keys ("<LEFT>") insert more than one character
  InitialBuffers,  \* the contents a page is opened with, split at newlines
  GotoLines,       \* the numbers typed after ":" in the exec window
  MaxLines, MaxCols, MaxRepeat   \* bounds of the instance

ASSUME EditorAssumption ==
  /\ KeyText \in [TypedKeys -> Seq(Char) \ {<<>>}]
  /\ InitialBuffers \subseteq Seq(Seq(Char)) \ {<<>>}
  /\ GotoLines \subseteq Int
  /\ MaxLines \in Nat /\ MaxCols \in Nat /\ MaxRepeat \in Nat
  /\ TypedKeys \cap {"<BS>", "<CR>", "<ESC>"} = {}

VARIABLES
  state,      \* the editor's state record: cursor, buffer, mode, repeat_number
  saved,      \* the buffer last handed to save (at first, the one loaded)
  focus,      \* which of the two grab_focus nodes receives the keys
  exec_open   \* whether the exec window is shown

vars == <<state, saved, focus, exec_open>>

Modes == {"command", "insert", "delete", "change", "goto"}

(* insert_string_at_cursor and break_line_at_cursor build their result     *)
(* without make_state and leave repeat_number undefined.                   *)
UndefinedRepeat == -1

Cursor == [line : Int, col : Nat]

EditorState ==
  [cursor : Cursor, buffer : Seq(Seq(Char)), mode : Modes,
   repeat_number : Nat \cup {UndefinedRepeat}]

-----------------------------------------------------------------------------
(* JavaScript's array and string primitives, as the source uses them.      *)

MathMin(a, b) == IF a <= b THEN a ELSE b
MathMax(a, b) == IF a >= b THEN a ELSE b

(* s[...n] and s[n...] for n >= 0 *)
SliceTo(s, n) == SubSeq(s, 1, MathMin(n, Len(s)))
SliceFrom(s, n) == SubSeq(s, n + 1, Len(s))

(* Array.splice, which a slice assignment compiles to: a negative start    *)
(* counts from the end of the array and both arguments are clamped.        *)
SpliceStart(s, start) ==
  IF start < 0 THEN MathMax(Len(s) + start, 0) ELSE MathMin(start, Len(s))
SpliceEnd(s, start, count) ==
  SpliceStart(s, start)
    + MathMax(0, MathMin(count, Len(s) - SpliceStart(s, start)))
Splice(s, start, count, items) ==
  SubSeq(s, 1, SpliceStart(s, start)) \o items
    \o SubSeq(s, SpliceEnd(s, start, count) + 1, Len(s))

HasLine(s, line) == 0 <= line /\ line < Len(s.buffer)
LineAt(s, line) == s.buffer[line + 1]
InBuffer(s) == HasLine(s, s.cursor.line)

At(line, col) == [line |-> line, col |-> col]

(* A new state record; a field that does not change is passed as it is. *)
make_state(cursor, buffer, mode, repeat_number) ==
  [cursor |-> cursor, buffer |-> buffer, mode |-> mode,
   repeat_number |-> repeat_number]

-----------------------------------------------------------------------------
(* Cursor normalisation.                                                   *)

\* Mutant: command mode may also stand one past the end.
EndOfLineAlwaysInsert(s) == 0
EndOfLine(s) == IF s.mode = "insert" THEN 0 ELSE -1

NormalLine(s, normalize_line) ==
  IF normalize_line
  THEN MathMax(0, MathMin(s.cursor.line, Len(s.buffer) + EndOfLine(s)))
  ELSE s.cursor.line

NormalizeThrows(s, normalize_line, normalize_col) ==
  normalize_col /\ ~HasLine(s, NormalLine(s, normalize_line))

\* Mutant: the column is clamped to the end of the line but not to 0.
normalize_cursor_no_floor(s, normalize_line, normalize_col) ==
  LET line == NormalLine(s, normalize_line)
      col == IF normalize_col
             THEN MathMin(s.cursor.col, Len(LineAt(s, line)) + EndOfLine(s))
             ELSE s.cursor.col
  IN make_state(At(line, col), s.buffer, s.mode, s.repeat_number)

normalize_cursor(s, normalize_line, normalize_col) ==
  LET line == NormalLine(s, normalize_line)
      col == IF normalize_col
             THEN MathMax(0, MathMin(s.cursor.col,
                                     Len(LineAt(s, line)) + EndOfLine(s)))
             ELSE s.cursor.col
  IN make_state(At(line, col), s.buffer, s.mode, s.repeat_number)

-----------------------------------------------------------------------------
(* Movements: functions from a state to a new cursor position.             *)

(* The lines and columns each movement key is registered with. *)
Offset(key) ==
  CASE key \in {"h", "<LEFT>"}  -> [lines |-> 0, cols |-> -1]
    [] key \in {"l", "<RIGHT>"} -> [lines |-> 0, cols |-> 1]
    [] key \in {"j", "<DOWN>"}  -> [lines |-> 1, cols |-> 0]
    [] key \in {"k", "<UP>"}    -> [lines |-> -1, cols |-> 0]
    [] key = "<C-U>"            -> [lines |-> -20, cols |-> 0]
    [] key = "<C-D>"            -> [lines |-> 20, cols |-> 0]

MoveKeys == {"h", "l", "j", "k", "<LEFT>", "<RIGHT>", "<DOWN>", "<UP>",
             "<C-U>", "<C-D>"}

\* Mutant: the moved cursor is not normalised again.
move_cursor_unclamped(s, offset, repeat) ==
  LET start == normalize_cursor(s, offset.lines # 0, offset.cols # 0)
  IN At(start.cursor.line + offset.lines * repeat,
        start.cursor.col + offset.cols * repeat)

move_cursor(s, offset, repeat) ==
  LET byLine == offset.lines # 0
      byCol == offset.cols # 0
      start == normalize_cursor(s, byLine, byCol)
      moved == make_state(At(start.cursor.line + offset.lines * repeat,
                             start.cursor.col + offset.cols * repeat),
                          start.buffer, start.mode, start.repeat_number)
  IN normalize_cursor(moved, byLine, byCol).cursor

\* Mutant: off by one.
move_cursor_past_end_of_file(s) ==
  At(Len(s.buffer), s.cursor.col)

move_cursor_end_of_file(s) ==
  At(Len(s.buffer) - 1, s.cursor.col)

(* The movement group, looked up by key. *)
MovementTarget(s, key, repeat) ==
  IF key = "G" THEN move_cursor_end_of_file(s)
  ELSE move_cursor(s, Offset(key), repeat)

MovementThrows(s, key) ==
  /\ key # "G"
  /\ Offset(key).cols # 0
  /\ ~InBuffer(s)

(* The options of goto_line's last two lines bind to make_state, which     *)
(* ignores them, so both coordinates are normalised.                       *)
AtLine(s, line) ==
  make_state(At(line, s.cursor.col), s.buffer, s.mode, s.repeat_number)
GotoThrows(s, line) == NormalizeThrows(AtLine(s, line), TRUE, TRUE)
\* Mutant: the target line is not normalised.
goto_line_unclamped(s, line) ==
  make_state(At(line, s.cursor.col), s.buffer, "command", 0)
\* Mutant: the mode is set without enter_mode's reset of the repeat number.
goto_line_keeps_repeat(s, line) ==
  make_state(normalize_cursor(AtLine(s, line), TRUE, TRUE).cursor,
             s.buffer, "command", s.repeat_number)
goto_line(s, line) ==
  make_state(normalize_cursor(AtLine(s, line), TRUE, TRUE).cursor,
             s.buffer, "command", 0)

-----------------------------------------------------------------------------
(* Edits.                                                                  *)

enter_mode(s, mode) == make_state(s.cursor, s.buffer, mode, 0)

insert(s, location) ==
  make_state(At(s.cursor.line,
                s.cursor.col + IF location = "after" THEN 1 ELSE 0),
             s.buffer, "insert", s.repeat_number)

insert_line(s, location) ==
  LET line == s.cursor.line + IF location = "before" THEN 0 ELSE 1
  IN make_state(At(line, 0), Splice(s.buffer, line, 0, << <<>> >>),
                "insert", s.repeat_number)

TextThrows(s) == NormalizeThrows(s, TRUE, TRUE)

\* Mutant: the cursor stays in front of the inserted text.
insert_string_behind_cursor(s, string) ==
  LET n == normalize_cursor(s, TRUE, TRUE).cursor
      text == LineAt(s, n.line)
  IN make_state(n,
        [s.buffer EXCEPT ![n.line + 1] =
           SliceTo(text, n.col) \o string \o SliceFrom(text, n.col)],
        s.mode, UndefinedRepeat)

insert_string_at_cursor(s, string) ==
  LET n == normalize_cursor(s, TRUE, TRUE).cursor
      text == LineAt(s, n.line)
  IN make_state(At(n.line, n.col + Len(string)),
        [s.buffer EXCEPT ![n.line + 1] =
           SliceTo(text, n.col) \o string \o SliceFrom(text, n.col)],
        s.mode, UndefinedRepeat)

\* Mutant: the slice replaced is one line too long.
break_line_eats_next(s) ==
  LET n == normalize_cursor(s, TRUE, TRUE).cursor
      text == LineAt(s, n.line)
  IN make_state(At(n.line + 1, 0),
        Splice(s.buffer, n.line, 2,
               <<SliceTo(text, n.col), SliceFrom(text, n.col)>>),
        s.mode, UndefinedRepeat)

break_line_at_cursor(s) ==
  LET n == normalize_cursor(s, TRUE, TRUE).cursor
      text == LineAt(s, n.line)
  IN make_state(At(n.line + 1, 0),
        Splice(s.buffer, n.line, 1,
               <<SliceTo(text, n.col), SliceFrom(text, n.col)>>),
        s.mode, UndefinedRepeat)

(* delete_chars_at_cursor {count: -1}, its only use: at column 0 the line  *)
(* is joined to the one before it, by a slice assignment to                *)
(* [line-1 .. line] whose start is -1 on the first line.                   *)
delete_char_before_cursor(s) ==
  LET n == normalize_cursor(s, TRUE, TRUE).cursor
      text == LineAt(s, n.line)
      previous == IF HasLine(s, n.line - 1) THEN LineAt(s, n.line - 1) ELSE <<>>
  IN IF n.col = 0
     THEN make_state(At(n.line - 1, Len(previous)),
                     Splice(s.buffer, n.line - 1, 2, <<previous \o text>>),
                     s.mode, s.repeat_number)
     ELSE make_state(At(n.line, n.col - 1),
                     [s.buffer EXCEPT ![n.line + 1] =
                        SliceTo(text, n.col - 1) \o SliceFrom(text, n.col)],
                     s.mode, s.repeat_number)

delete_current_line(s) ==
  normalize_cursor(
    make_state(s.cursor, Splice(s.buffer, s.cursor.line, 1, <<>>),
               "command", s.repeat_number),
    TRUE, FALSE)

(* Assigning to the line just past the end extends the array; assigning to *)
(* line -1 sets a property that is not an element of it.                   *)
change_current_line(s) ==
  LET line == s.cursor.line
      buffer == IF HasLine(s, line) THEN [s.buffer EXCEPT ![line + 1] = <<>>]
                ELSE IF line = Len(s.buffer) THEN Append(s.buffer, <<>>)
                ELSE s.buffer
  IN normalize_cursor(make_state(s.cursor, buffer, "insert", s.repeat_number),
                      TRUE, FALSE)

DeleteToThrows(s, target) == s.cursor.line = target.line /\ ~InBuffer(s)

\* Mutant: an exclusive slice where the source has an inclusive one.
delete_to_cursor_exclusive(s, target) ==
  LET start == MathMin(s.cursor.line, target.line)
      end == MathMax(s.cursor.line, target.line)
  IN make_state(At(start, 0), Splice(s.buffer, start, end - start, <<>>),
                "command", s.repeat_number)

delete_to_cursor(s, target) ==
  IF s.cursor.line = target.line
  THEN LET start == MathMin(s.cursor.col, target.col)
           end == MathMax(s.cursor.col, target.col)
           text == LineAt(s, s.cursor.line)
       IN make_state(At(s.cursor.line, start),
                     [s.buffer EXCEPT ![s.cursor.line + 1] =
                        SliceTo(text, start) \o SliceFrom(text, end)],
                     "command", s.repeat_number)
  ELSE LET start == MathMin(s.cursor.line, target.line)
           end == MathMax(s.cursor.line, target.line)
       IN make_state(At(start, 0),
                     Splice(s.buffer, start, end - start + 1, <<>>),
                     "command", s.repeat_number)

change_to_cursor(s, target) == enter_mode(delete_to_cursor(s, target), "insert")

-----------------------------------------------------------------------------
(* Key bindings: <<group, key, action>> as register_command fills them.    *)

DigitKeys == {"0", "1", "2", "3", "4", "5", "6", "7", "8", "9"}
DigitValue(key) ==
  CHOOSE n \in 0..9 :
    <<"0", "1", "2", "3", "4", "5", "6", "7", "8", "9">>[n + 1] = key

Bindings ==
  { <<"command", ":", "open_exec">>,
    <<"command", "i", "insert_before">>, <<"command", "a", "insert_after">>,
    <<"command", "o", "insert_line_after">>,
    <<"command", "O", "insert_line_before">>,
    <<"command", "d", "enter_delete">>, <<"delete", "d", "delete_current_line">>,
    <<"command", "c", "enter_change">>, <<"change", "c", "change_current_line">>,
    <<"command", "g", "enter_goto">>, <<"goto", "g", "goto_first_line">>,
    <<"insert", "<ESC>", "enter_command">> }
  \cup { <<"movement", k, "movement">> : k \in MoveKeys \cup {"G"} }
  \cup { <<"repeat_number", k, "push_repeat_number">> : k \in DigitKeys }

Keys == { b[2] : b \in Bindings } \cup TypedKeys \cup {"<BS>", "<CR>"}

Bound(group, key) == \E b \in Bindings : b[1] = group /\ b[2] = key
BoundTo(group, key) == (CHOOSE b \in Bindings : b[1] = group /\ b[2] = key)[3]

Subgroups(mode) ==
  IF mode \in {"command", "delete", "change"}
  THEN {"movement", "repeat_number"} ELSE {}

Catchall(mode) ==
  CASE mode = "insert" -> "type"
    [] mode \in {"delete", "change"} -> "enter_command"
    [] mode \in {"command", "goto"} -> "none"

action_of_key ==
  [mode \in Modes |-> [key \in Keys |->
     IF Bound(mode, key) THEN BoundTo(mode, key)
     ELSE IF \E g \in Subgroups(mode) : Bound(g, key)
          THEN BoundTo(CHOOSE g \in Subgroups(mode) : Bound(g, key), key)
          ELSE Catchall(mode)]]

-----------------------------------------------------------------------------
(* The handler of the keys of the editor node.                             *)

(* What the page is opened with: split always yields at least one line. *)
Init ==
  /\ \E buffer \in InitialBuffers :
       state = make_state(At(0, 0), buffer, "command", 0)
  /\ saved = state.buffer
  /\ focus = "node"
  /\ exec_open = FALSE

(* The state handed to the action: its repeat number is consumed. *)
Cleared == make_state(state.cursor, state.buffer, state.mode, 0)
Repeat == IF state.repeat_number = 0 THEN 1 ELSE state.repeat_number

(* The instance's bound on the text and on the column, which "a" followed  *)
(* by <ESC> increases without limit.                                       *)
Fits(s) ==
  /\ Len(s.buffer) <= MaxLines
  /\ s.cursor.col <= MaxCols + 1
  /\ \A i \in 1..Len(s.buffer) : Len(s.buffer[i]) <= MaxCols

Pressed(key, action) ==
  focus = "node" /\ action_of_key[state.mode][key] = action

\* Mutant: the state saved is the one before the action.
CompletesSavingOld(s) ==
  /\ Fits(s)
  /\ state' = s
  /\ saved' = state.buffer
  /\ UNCHANGED <<focus, exec_open>>

(* The action returns a state: it replaces the old one and is saved.  The  *)
(* refresh and scroll_to_cursor that follow change nothing here.           *)
Completes(s) ==
  /\ Fits(s)
  /\ state' = s
  /\ saved' = s.buffer
  /\ UNCHANGED <<focus, exec_open>>

(* The action throws: the repeat number is gone and nothing is saved. *)
Fails ==
  /\ state' = Cleared
  /\ UNCHANGED <<saved, focus, exec_open>>

OpenExec(key) ==
  /\ Pressed(key, "open_exec")
  /\ exec_open' = TRUE
  /\ focus' = "exec"
  /\ state' = Cleared
  /\ saved' = state.buffer

Insert(key) ==
  \/ Pressed(key, "insert_before") /\ Completes(insert(Cleared, "before"))
  \/ Pressed(key, "insert_after") /\ Completes(insert(Cleared, "after"))

InsertLine(key) ==
  \/ Pressed(key, "insert_line_before")
       /\ Completes(insert_line(Cleared, "before"))
  \/ Pressed(key, "insert_line_after")
       /\ Completes(insert_line(Cleared, "after"))

EnterMode(key) ==
  \/ Pressed(key, "enter_delete") /\ Completes(enter_mode(Cleared, "delete"))
  \/ Pressed(key, "enter_change") /\ Completes(enter_mode(Cleared, "change"))
  \/ Pressed(key, "enter_goto") /\ Completes(enter_mode(Cleared, "goto"))
  \/ Pressed(key, "enter_command") /\ Completes(enter_mode(Cleared, "command"))

DeleteLine(key) ==
  /\ Pressed(key, "delete_current_line")
  /\ Completes(delete_current_line(Cleared))

ChangeLine(key) ==
  /\ Pressed(key, "change_current_line")
  /\ Completes(change_current_line(Cleared))

GotoFirstLine(key) ==
  /\ Pressed(key, "goto_first_line")
  /\ \/ ~GotoThrows(Cleared, 0) /\ Completes(goto_line(Cleared, 0))
     \/ GotoThrows(Cleared, 0) /\ Fails

PushRepeatNumber(key) ==
  /\ Pressed(key, "push_repeat_number")
  /\ LET number == state.repeat_number * 10 + DigitValue(key)
     IN /\ number <= MaxRepeat
        /\ Completes(make_state(state.cursor, state.buffer, state.mode, number))

(* A movement, applied as the mode's wrapper says. *)
Movement(key) ==
  LET target == MovementTarget(Cleared, key, Repeat)
  IN /\ Pressed(key, "movement")
     /\ \/ MovementThrows(Cleared, key) /\ Fails
        \/ /\ ~MovementThrows(Cleared, key)
           /\ state.mode = "command"
           /\ Completes(make_state(target, state.buffer, state.mode, 0))
        \/ /\ ~MovementThrows(Cleared, key)
           /\ state.mode \in {"delete", "change"}
           /\ DeleteToThrows(Cleared, target)
           /\ Fails
        \/ /\ ~MovementThrows(Cleared, key)
           /\ ~DeleteToThrows(Cleared, target)
           /\ \/ state.mode = "delete"
                   /\ Completes(delete_to_cursor(Cleared, target))
              \/ state.mode = "change"
                   /\ Completes(change_to_cursor(Cleared, target))

(* The catchall of insert mode. *)
Type(key) ==
  /\ Pressed(key, "type")
  /\ \/ TextThrows(Cleared) /\ Fails
     \/ /\ ~TextThrows(Cleared)
        /\ \/ key = "<BS>" /\ Completes(delete_char_before_cursor(Cleared))
           \/ key = "<CR>" /\ Completes(break_line_at_cursor(Cleared))
           \/ key \in TypedKeys
                /\ Completes(insert_string_at_cursor(Cleared, KeyText[key]))

-----------------------------------------------------------------------------
(* The exec window.  It has the keys while it is focused; a click moves    *)
(* the focus between it and the editor in any mode.                        *)

(* scroll_to_cursor reads the offset of the rendered cursor, and throws    *)
(* when no line was rendered with one: close_exec is then not reached.     *)
ExecCompletes(s) ==
  /\ state' = s
  /\ IF InBuffer(s) THEN exec_open' = FALSE /\ focus' = "node"
                    ELSE UNCHANGED <<exec_open, focus>>
  /\ UNCHANGED saved

(* <CR> on ":<number>".  When goto_line throws, nothing has changed. *)
ExecGoto(line) ==
  /\ focus = "exec"
  /\ ~GotoThrows(state, line)
  /\ ExecCompletes(goto_line(state, line))

(* <CR> on anything else, ":NaN" excepted: it throws and changes nothing. *)
ExecOther == focus = "exec" /\ ExecCompletes(state)

ExecEscape ==
  /\ focus = "exec"
  /\ exec_open' = FALSE
  /\ focus' = "node"
  /\ UNCHANGED <<state, saved>>

Click ==
  /\ exec_open
  /\ focus' = IF focus = "node" THEN "exec" ELSE "node"
  /\ UNCHANGED <<state, saved, exec_open>>

-----------------------------------------------------------------------------

NodeKey(key) ==
  \/ OpenExec(key) \/ Insert(key) \/ InsertLine(key) \/ EnterMode(key)
  \/ DeleteLine(key) \/ ChangeLine(key) \/ GotoFirstLine(key)
  \/ PushRepeatNumber(key) \/ Movement(key) \/ Type(key)

Next ==
  \/ \E key \in Keys : NodeKey(key)
  \/ \E line \in GotoLines : ExecGoto(line)
  \/ ExecOther
  \/ ExecEscape
  \/ Click

Spec == Init /\ [][Next]_vars

-----------------------------------------------------------------------------
(* Properties.                                                             *)

(* Every variable has its type; in particular normalisation and column     *)
(* arithmetic never produce a negative column.                             *)
TypeOK ==
  /\ state \in EditorState
  /\ saved \in Seq(Seq(Char))
  /\ focus \in {"node", "exec"}
  /\ exec_open \in BOOLEAN

(* However lines are deleted, joined and inserted, the cursor is never     *)
(* more than one line outside the buffer.  (It does leave it: dG, dj and   *)
(* cG leave the cursor one line past the end, <BS> at the start of the     *)
(* file leaves it on line -1.)                                             *)
CursorNearBuffer ==
  -1 <= state.cursor.line /\ state.cursor.line <= Len(state.buffer)

(* The text on screen is the text last given to save: no path of the key   *)
(* handler, throwing ones and the exec window's included, changes the      *)
(* buffer without saving it.                                               *)
SaveSeesEveryEdit == saved = state.buffer

(* The undefined repeat number that typing leaves behind is gone by the    *)
(* time push_repeat_number or a movement could multiply it.                *)
NumericRepeat ==
  state.mode # "insert" => state.repeat_number # UndefinedRepeat

(* Keys never go to a hidden exec window. *)
FocusedWindowIsShown == focus = "exec" => exec_open

(* A key handler can throw only when the cursor is outside the buffer; a   *)
(* goto from the exec window also when the editor is in insert mode, where *)
(* normalize_cursor admits the line past the end.                          *)
FaultsNeedStrayCursor ==
  InBuffer(state) =>
    /\ ~TextThrows(state)
    /\ \A key \in MoveKeys \cup {"G"} :
         /\ ~MovementThrows(state, key)
         /\ ~DeleteToThrows(state, MovementTarget(state, key, 1))
    /\ state.mode # "insert" =>
         \A line \in GotoLines \cup {0} : ~GotoThrows(state, line)

(* Both ways of going to a line (gg, and a number in the exec window) end  *)
(* on a line of the buffer, wherever the cursor was before; and the exec   *)
(* window is closed, since scroll_to_cursor then finds the cursor.         *)
GotoLandsInBuffer ==
  [][ /\ state.mode = "goto" /\ state'.mode # "goto" => InBuffer(state')
      /\ focus = "exec" /\ state' # state =>
           InBuffer(state') /\ focus' = "node" /\ ~exec_open' ]_vars

(* The cursor leaves the buffer only when d or c removes lines, or by      *)
(* <BS> on the first line; no movement and no other edit takes it out.     *)
CursorStraysOnlyByDeletion ==
  [][ InBuffer(state) /\ ~InBuffer(state') =>
        \/ /\ state.mode \in {"delete", "change"}
           /\ Len(state'.buffer) < Len(state.buffer)
        \/ /\ state.mode = "insert"
           /\ state.cursor.line = 0
           /\ state'.cursor.line = -1 ]_vars

(* s with the elements from a up to but not including b left out, counting *)
(* from 0.                                                                 *)
Without(s, a, b) == SubSeq(s, 1, a) \o SubSeq(s, b + 1, Len(s))

(* With the cursor in the buffer, d removes either whole lines, a range    *)
(* that starts or ends with the cursor's line, or one stretch of the       *)
(* cursor's line; every other line is kept as it is.  A stretch is as long *)
(* as the repeat number at most, but for one character more with the       *)
(* cursor behind the last one, where vertical movements leave it: the      *)
(* movement starts from the last character then, the stretch does not.     *)
DeletesAroundCursor ==
  [][ state.mode = "delete" /\ InBuffer(state)
        /\ state'.buffer # state.buffer =>
      LET line == state.cursor.line
          old == state.buffer
      IN \/ \E a \in 0..line, b \in line + 1 .. Len(old) :
              /\ a = line \/ b = line + 1
              /\ state'.buffer = Without(old, a, b)
         \/ \E a, b \in 0..Len(old[line + 1]) :
              /\ a < b
              /\ b - a <= Repeat + IF state.cursor.col < Len(old[line + 1]) THEN 0 ELSE 1
              /\ state'.buffer =
                   [old EXCEPT ![line + 1] = Without(@, a, b)] ]_vars

(* <BS> takes back what was just typed, a single character or a line       *)
(* break, at every cursor position insert mode can be in.                  *)
TypingIsUndone ==
  state.mode = "insert" /\ ~TextThrows(state) =>
    /\ delete_char_before_cursor(break_line_at_cursor(state)).buffer
         = state.buffer
    /\ \A key \in TypedKeys :
         Len(KeyText[key]) = 1 =>
           delete_char_before_cursor(
             insert_string_at_cursor(state, KeyText[key])).buffer
             = state.buffer

(* The lines a step taken in insert mode leaves alone: all those before    *)
(* the line above the cursor's and all those after the cursor's.           *)
KeepsOtherLines ==
  LET line == NormalLine(state, TRUE)
      old == state.buffer
      new == state'.buffer
      after == Len(old) - (line + 1)
  IN /\ Len(new) >= after + line - 1
     /\ \A i \in 1 .. line - 1 : new[i] = old[i]
     /\ \A i \in 0 .. after - 1 : new[Len(new) - i] = old[Len(old) - i]

AtOrigin(s) == normalize_cursor(s, TRUE, TRUE).cursor = At(0, 0)

(* The text of the first line in place of that of the last one. *)
FirstLineIsLast(s) == [s.buffer EXCEPT ![Len(s.buffer)] = s.buffer[1]]

(* A key in insert mode changes the cursor's line and the one above it and *)
(* no other.  Only <BS> at the very start of the file, whose slice starts  *)
(* at line -1, writes the first line over the last one, and does no more.  *)
InsertModeIsLocal ==
  [][ state.mode = "insert" /\ state'.buffer # state.buffer =>
        \/ KeepsOtherLines
        \/ AtOrigin(state) /\ state'.buffer = FirstLineIsLast(state) ]_vars
=============================================================================
