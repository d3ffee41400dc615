--------------------------- MODULE AutosaveProof ----------------------------
(***************************************************************************)
(* Proofs about saving, for any number of pages, any texts, any faults and *)
(* any number of posts in flight: the debounced save never forgets an      *)
(* edit; every variable has its type; a save that met no other and no      *)
(* fault is in the file when it is answered; and a page that is loaded     *)
(* then shows it.                                                          *)
(***************************************************************************)
EXTENDS Autosave, FoldFacts

(* The four functions of a page are indexed by the tabs. *)
Indexed ==
  /\ DOMAIN at = Tabs /\ DOMAIN buffer = Tabs
  /\ DOMAIN pending = Tabs /\ DOMAIN sent = Tabs

(* An open page either has its timer armed with its text, or has no timer  *)
(* and has sent its text.  That a timer is one of these two is what makes  *)
(* the property inductive.                                                 *)
Saving(c) ==
  \/ pending[c] = Armed(buffer[c])
  \/ pending[c] = NoTimer /\ sent[c].text = buffer[c]

Inv ==
  /\ Indexed
  /\ \A c \in Tabs : at[c] = "editor" => Saving(c)
  /\ \A c \in Tabs : at[c] # "editor" => pending[c] = NoTimer

(* A step that leaves a page alone keeps what it has to save. *)
LEMMA PageUnchanged ==
  ASSUME Inv, UNCHANGED page
  PROVE  Inv'
  BY DEF Inv, Indexed, Saving, page

(* What has to be shown of a step on page c that leaves the others alone. *)
Only(c) ==
  /\ Indexed'
  /\ \A d \in Tabs \ {c} :
       /\ at'[d] = at[d] /\ buffer'[d] = buffer[d]
       /\ pending'[d] = pending[d] /\ sent'[d] = sent[d]

(* Such a step preserves the invariant if page c satisfies it afterwards. *)
LEMMA OtherPages ==
  ASSUME Inv, NEW c \in Tabs, Only(c),
         IF at'[c] = "editor" THEN Saving(c)' ELSE pending'[c] = NoTimer
  PROVE  Inv'
<1>1. ASSUME NEW d \in Tabs
      PROVE  /\ at'[d] = "editor" => Saving(d)'
             /\ at'[d] # "editor" => pending'[d] = NoTimer
  <2>1. CASE d = c
    BY <2>1
  <2>2. CASE d # c
    BY <2>2 DEF Only, Saving, Inv, Armed, NoTimer
  <2>3. QED
    BY <2>1, <2>2
<1>2. QED
  BY <1>1 DEF Inv, Only, NoTimer

(* At first every page is closed. *)
LEMMA InitInv == Init => Inv
  BY DEF Init, Inv, Indexed

(* Every step preserves the invariant. *)
LEMMA NextInv == Inv /\ [Next]_vars => Inv'
<1> SUFFICES ASSUME Inv, [Next]_vars PROVE Inv'
  OBVIOUS
<1> USE DEF Inv, Indexed, Only
<1>1. ASSUME NEW c \in Tabs, Open(c) \/ Close(c) PROVE Inv'
  <2>1. PICK where \in {"stat", "closed"} : Leaves(c, where)
    BY <1>1 DEF Open, Close
  <2>2. Only(c)
    BY <2>1 DEF Leaves
  <2>3. at'[c] # "editor" /\ pending'[c] = NoTimer
    BY <2>1 DEF Leaves
  <2>4. QED
    BY <2>2, <2>3, OtherPages
<1>3. ASSUME NEW c \in Tabs, Key(c) PROVE Inv'
  <2>1. PICK text :
          /\ buffer' = [buffer EXCEPT ![c] = text]
          /\ pending' = [pending EXCEPT ![c] = Armed(text)]
    BY <1>3 DEF Key, debounce
  <2>2. at[c] = "editor" /\ at' = at /\ sent' = sent
    BY <1>3 DEF Key
  <2>3. Only(c)
    BY <2>1, <2>2
  <2>4. at'[c] = "editor" /\ pending'[c] = Armed(buffer'[c])
    BY <2>1, <2>2
  <2>5. Saving(c)'
    BY <2>4 DEF Saving, Armed
  <2>6. QED
    BY <2>3, <2>4, <2>5, OtherPages
<1>4. ASSUME NEW c \in Tabs, save(c) PROVE Inv'
  <2> DEFINE s == [posted |-> TRUE, text |-> pending[c].text]
  <2>1. pending[c].armed
    BY <1>4 DEF save
  <2>2. at[c] = "editor" /\ pending[c] = Armed(buffer[c])
    BY <2>1 DEF Saving, NoTimer
  <2>3. s.text = buffer[c]
    BY <2>2 DEF Armed
  <2>4. /\ sent' = [sent EXCEPT ![c] = s]
        /\ pending' = [pending EXCEPT ![c] = NoTimer]
        /\ at' = at /\ buffer' = buffer
    BY <1>4 DEF save
  <2> HIDE DEF s
  <2>5. Only(c)
    BY <2>4
  <2>6. at'[c] = "editor" /\ pending'[c] = NoTimer /\ sent'[c].text = buffer'[c]
    BY <2>2, <2>3, <2>4
  <2>7. Saving(c)'
    BY <2>6 DEF Saving, NoTimer
  <2>8. QED
    BY <2>5, <2>6, <2>7, OtherPages
<1>5. ASSUME NEW c \in Tabs, GetStat(c) \/ GetReaddir(c) PROVE Inv'
  <2>1. PICK a : at' = [at EXCEPT ![c] = a] /\ a # "editor"
    BY <1>5 DEF GetStat, GetReaddir
  <2>2. at[c] # "editor" /\ buffer' = buffer /\ pending' = pending /\ sent' = sent
    BY <1>5 DEF GetStat, GetReaddir
  <2>3. at'[c] # "editor" /\ pending'[c] = NoTimer
    BY <2>1, <2>2
  <2>4. Only(c)
    BY <2>1, <2>2
  <2>5. QED
    BY <2>3, <2>4, OtherPages
<1>6. ASSUME NEW c \in Tabs, GetRead(c) PROVE Inv'
  <2>1. at[c] # "editor" /\ pending' = pending
    BY <1>6 DEF GetRead
  <2>2. pending'[c] = NoTimer
    BY <2>1
  <2>4. ASSUME NEW text, Edits(c, text) PROVE Inv'
    <3> DEFINE s == [posted |-> FALSE, text |-> text]
    <3>1. s.text = text
      OBVIOUS
    <3>2. /\ at' = [at EXCEPT ![c] = "editor"]
          /\ buffer' = [buffer EXCEPT ![c] = text]
          /\ sent' = [sent EXCEPT ![c] = s]
      BY <2>4 DEF Edits
    <3> HIDE DEF s
    <3>3. Only(c)
      BY <2>1, <3>2
    <3>4. at'[c] = "editor" /\ sent'[c].text = buffer'[c]
      BY <3>1, <3>2
    <3>5. Saving(c)'
      BY <2>2, <3>4 DEF Saving, NoTimer
    <3>6. QED
      BY <3>3, <3>4, <3>5, OtherPages
  <2>5. ASSUME at' = [at EXCEPT ![c] = "refused"], UNCHANGED <<buffer, sent>>
        PROVE  Inv'
    <3>1. Only(c)
      BY <2>1, <2>5
    <3>2. at'[c] # "editor"
      BY <2>5
    <3>3. QED
      BY <2>2, <3>1, <3>2, OtherPages
  <2>6. QED
    BY <1>6, <2>4, <2>5 DEF GetRead
<1>7. ASSUME NEW i \in 1..Len(posts),
             PostStep(i) \/ Lose(i) \/ PostWriteFails(i)
      PROVE  Inv'
  BY <1>7, PageUnchanged
  DEF PostStep, Deliver, PostOpen, PostWrite, PostClose, Lose, PostWriteFails
<1>8. CASE Crash
  <2>1. /\ at' = [c \in Tabs |-> IF at[c] \in Loading THEN "closed" ELSE at[c]]
        /\ buffer' = buffer /\ pending' = pending /\ sent' = sent
    BY <1>8 DEF Crash
  <2>2. \A c \in Tabs : at'[c] = "editor" <=> at[c] = "editor"
    BY <2>1 DEF Loading
  <2>3. DOMAIN at' = Tabs
    BY <2>1
  <2>4. QED
    BY <2>1, <2>2, <2>3 DEF Inv, Indexed, Saving
<1>9. CASE Restart
  BY <1>9, PageUnchanged DEF Restart
<1>10. CASE Outside
  BY <1>10, PageUnchanged DEF Outside
<1>11. CASE UNCHANGED vars
  BY <1>11, PageUnchanged DEF vars, page
<1>12. QED
  BY <1>1, <1>3, <1>4, <1>5, <1>6, <1>7, <1>8, <1>9, <1>10, <1>11
  DEF Next, GetStep

(* Whatever the network, the server and the disk do, an open page has      *)
(* posted its text or is about to.                                         *)
THEOREM EditIsNeverForgotten == Spec => []EditIsSentOrPending
<1>1. Inv => EditIsSentOrPending
  <2> SUFFICES ASSUME Inv, NEW c \in Tabs, at[c] = "editor"
               PROVE  IF pending[c].armed THEN pending[c].text = buffer[c]
                                          ELSE sent[c].text = buffer[c]
    BY DEF EditIsSentOrPending
  <2>1. CASE pending[c] = Armed(buffer[c])
    BY <2>1 DEF Armed
  <2>2. CASE pending[c] = NoTimer /\ sent[c].text = buffer[c]
    BY <2>2 DEF NoTimer
  <2>3. QED
    BY <2>1, <2>2 DEF Inv, Saving
<1>2. QED
  BY <1>1, InitInv, NextInv, PTL DEF Spec

-----------------------------------------------------------------------------
(* The HTML parser, as a fold over the characters of the file.             *)

Reader == [text : PageText, cr : BOOLEAN]
ReadStep == [p \in Reader \X AnyChar |-> Normalised(p[1], p[2])]
NothingRead == [text |-> <<>>, cr |-> FALSE]

(* Whatever the character, the text read so far has no CR. *)
LEMMA NormalisedType ==
  ASSUME NEW x \in Reader, NEW char \in AnyChar
  PROVE  Normalised(x, char) \in Reader
<1> DEFINE c == IF char = "CR" THEN "NL" ELSE char
<1>1. c \in AnyChar \ {"CR"}
  BY DEF AnyChar
<1>2. x.text \in PageText /\ x.cr \in BOOLEAN
  BY DEF Reader
<1> HIDE DEF c
<1>3. Append(x.text, c) \in PageText
  BY <1>1, <1>2 DEF PageText
<1>4. Normalised(x, char) = IF x.cr /\ char = "NL" THEN [x EXCEPT !.cr = FALSE]
                            ELSE [text |-> Append(x.text, c), cr |-> char = "CR"]
  BY DEF Normalised, c
<1>5. [x EXCEPT !.cr = FALSE] \in Reader
  BY DEF Reader
<1>6. [text |-> Append(x.text, c), cr |-> char = "CR"] \in Reader
  BY <1>3, Zenon DEF Reader
<1> QED BY <1>4, <1>5, <1>6

(* ReadStep stays among the readers, and is Normalised there. *)
LEMMA ReadStepType ==
  /\ Stays(ReadStep, Reader, AnyChar)
  /\ \A x \in Reader, char \in AnyChar : ReadStep[<<x, char>>] = Normalised(x, char)
<1>1. ASSUME NEW p \in Reader \X AnyChar PROVE Normalised(p[1], p[2]) \in Reader
  BY NormalisedType
<1>2. \A x \in Reader, char \in AnyChar : <<x, char>> \in Reader \X AnyChar
  OBVIOUS
<1> HIDE DEF Reader, AnyChar
<1> QED BY <1>1, <1>2 DEF ReadStep, Stays

(* Reading a text is running ReadStep over it. *)
LEMMA ReadFold ==
  ASSUME NEW b \in Reader, NEW q \in Seq(AnyChar)
  PROVE  FoldLeft(Normalised, b, q) = Result(ReadStep, b, q)
<1> DEFINE P(g) == g = [s \in SUBSET DOMAIN q |->
             IF s = {} THEN b ELSE Normalised(g[s \ {Max(s)}], q[Max(s)])]
<1>1. FoldLeft(Normalised, b, q) = (CHOOSE g : P(g))[DOMAIN q]
  BY Zenon DEF FoldLeft, MapThenFoldSet
<1>2. DOMAIN q = 1 .. Len(q) /\ Len(q) \in Nat
  OBVIOUS
<1>3. PICK f : IsFold(f, Reader, ReadStep, b, q)
  BY ReadStepType, SubsetFoldOfSequence, Zenon
<1>4. P(f)
  <2>1. f \in [SUBSET (1 .. Len(q)) -> Reader] /\ f = SubsetStep(ReadStep, b, q, f)
    BY <1>3 DEF IsFold
  <2>2. ASSUME NEW s \in SUBSET (1 .. Len(q)), s # {}
        PROVE  f[s] = Normalised(f[s \ {Max(s)}], q[Max(s)])
    <3>1. Max(s) \in 1 .. Len(q)
      BY <1>2, <2>2, MaxOfPositions
    <3>2. q[Max(s)] \in AnyChar
      BY <3>1
    <3>a. f[s \ {Max(s)}] \in Reader
      <4>1. s \ {Max(s)} \in SUBSET (1 .. Len(q))
        OBVIOUS
      <4> QED BY <2>1, <4>1
    <3>3. f[s] = ReadStep[<<f[s \ {Max(s)}], q[Max(s)]>>]
      BY <2>1, <2>2 DEF SubsetStep
    <3> QED BY <3>2, <3>a, <3>3, ReadStepType
  <2>3. f[{}] = b
    BY <2>1 DEF SubsetStep
  <2>4. f = [s \in SUBSET (1 .. Len(q)) |-> f[s]]
    BY <2>1
  <2> QED BY <1>2, <2>2, <2>3, <2>4, Zenon
<1>5. P(CHOOSE g : P(g))
  <2> HIDE DEF P
  <2> QED BY <1>4, Zenon
<1> DEFINE g == CHOOSE g : P(g)
<1>6. /\ g[{}] = b
      /\ \A s \in SUBSET (1 .. Len(q)) : s # {} =>
            g[s] = Normalised(g[s \ {Max(s)}], q[Max(s)])
  BY <1>2, <1>5
<1> HIDE DEF g
<1>7. SolvesFold(g, Reader, ReadStep, b, q)
  <2> SUFFICES ASSUME NEW s \in SUBSET (1 .. Len(q)), s # {}, g[s \ {Max(s)}] \in Reader
               PROVE  g[s] = ReadStep[<<g[s \ {Max(s)}], q[Max(s)]>>]
    BY <1>6, Zenon DEF SolvesFold
  <2>1. Max(s) \in 1 .. Len(q)
    BY <1>2, MaxOfPositions
  <2>2. q[Max(s)] \in AnyChar
    BY <2>1
  <2> QED BY <1>6, <2>2, ReadStepType
<1>8. Gives(g, ReadStep, b, q)
  <2>1. Stays(ReadStep, Reader, AnyChar)
    BY ReadStepType
  <2> QED BY <1>7, <2>1, FoldIsResult
<1> QED BY <1>1, <1>2, <1>8 DEF g, Gives

(* No text read has a CR, and one without a CR is read as it is. *)
LEMMA NormalNewlinesFacts ==
  ASSUME NEW text \in Seq(AnyChar)
  PROVE  /\ NormalNewlines(text) \in PageText
         /\ text \in PageText => NormalNewlines(text) = text
<1>1. NothingRead \in Reader
  <2>1. <<>> \in PageText
    BY DEF PageText
  <2> QED BY <2>1 DEF NothingRead, Reader
<1>2. NormalNewlines(text) = Result(ReadStep, NothingRead, text).text
  BY <1>1, ReadFold DEF NormalNewlines, NothingRead
<1>3. Stays(ReadStep, Reader, AnyChar)
  BY ReadStepType
<1>4. Result(ReadStep, NothingRead, text) \in Reader
  BY <1>1, <1>3, ResultType
<1>5. ASSUME text \in PageText PROVE NormalNewlines(text) = text
  <2> DEFINE T == { p \in (0 .. Len(text)) \X Reader : p[2] = [text |-> SubSeq(text, 1, p[1]), cr |-> FALSE] }
  <2>1. <<0, NothingRead>> \in T
    <3>1. 0 \in 0 .. Len(text) /\ SubSeq(text, 1, 0) = <<>>
      OBVIOUS
    <3>2. NothingRead = [text |-> SubSeq(text, 1, 0), cr |-> FALSE]
      BY <3>1 DEF NothingRead
    <3> QED BY <1>1, <3>1, <3>2
  <2>2. Inductive(T, Reader, ReadStep, text)
    <3> SUFFICES ASSUME NEW i \in 0 .. Len(text) - 1, NEW x \in Reader, <<i, x>> \in T
                 PROVE  <<i + 1, ReadStep[<<x, text[i + 1]>>]>> \in T
      BY DEF Inductive
    <3>1. i + 1 \in 0 .. Len(text) /\ i + 1 \in 1 .. Len(text) /\ i \in 0 .. Len(text)
      OBVIOUS
    <3>2. text[i + 1] \in AnyChar \ {"CR"} /\ text[i + 1] \in AnyChar
      BY <1>5, <3>1 DEF PageText
    <3>3. x = [text |-> SubSeq(text, 1, i), cr |-> FALSE]
      OBVIOUS
    <3>4. SubSeq(text, 1, i + 1) = Append(SubSeq(text, 1, i), text[i + 1])
      BY <3>1
    <3>5. Normalised(x, text[i + 1]) = [text |-> SubSeq(text, 1, i + 1), cr |-> FALSE]
      BY <3>2, <3>3, <3>4 DEF Normalised
    <3>6. ReadStep[<<x, text[i + 1]>>] = Normalised(x, text[i + 1]) /\ Normalised(x, text[i + 1]) \in Reader
      BY <3>2, ReadStepType, NormalisedType
    <3> QED BY <3>1, <3>5, <3>6
  <2> HIDE DEF T
  <2>3. <<Len(text), Result(ReadStep, NothingRead, text)>> \in T
    BY <1>1, <1>3, <2>1, <2>2, ResultInduct
  <2>4. Result(ReadStep, NothingRead, text) = [text |-> SubSeq(text, 1, Len(text)), cr |-> FALSE]
    BY <2>3 DEF T
  <2>5. SubSeq(text, 1, Len(text)) = text
    OBVIOUS
  <2> QED BY <1>2, <2>4, <2>5
<1> QED BY <1>2, <1>4, <1>5 DEF Reader

(* What the page gets of a file has no CR; of a text without CR it gets    *)
(* all but a newline at the start.                                         *)
LEMMA ParsedFacts ==
  ASSUME NEW text \in Seq(AnyChar)
  PROVE  /\ Parsed(text) \in PageText
         /\ text \in PageText =>
              Parsed(text) = IF text # <<>> /\ text[1] = "NL" THEN Tail(text) ELSE text
<1> DEFINE lines == NormalNewlines(text)
<1>1. lines \in PageText /\ (text \in PageText => lines = text)
  BY NormalNewlinesFacts
<1>2. Parsed(text) = IF lines # <<>> /\ lines[1] = "NL" THEN Tail(lines) ELSE lines
  BY DEF Parsed
<1> HIDE DEF lines
<1>3. lines # <<>> => Tail(lines) \in PageText
  BY <1>1 DEF PageText
<1> QED BY <1>1, <1>2, <1>3

-----------------------------------------------------------------------------
(* The posts.                                                              *)

PostSeq == Seq(Post)
KeepStep == [p \in PostSeq \X Post |-> StillSent(p[1], p[2])]

(* KeepStep stays among the sequences of posts, and is StillSent there. *)
LEMMA KeepStepType ==
  /\ Stays(KeepStep, PostSeq, Post)
  /\ \A x \in PostSeq, p \in Post : KeepStep[<<x, p>>] = StillSent(x, p)
<1>1. ASSUME NEW p \in PostSeq \X Post PROVE StillSent(p[1], p[2]) \in PostSeq
  BY DEF StillSent, PostSeq
<1>2. \A x \in PostSeq, p \in Post : <<x, p>> \in PostSeq \X Post
  OBVIOUS
<1> HIDE DEF PostSeq, Post
<1> QED BY <1>1, <1>2 DEF KeepStep, Stays

(* Forgetting the accepted posts is running KeepStep over all of them. *)
LEMMA KeepFold ==
  ASSUME NEW b \in PostSeq, NEW q \in Seq(Post)
  PROVE  FoldLeft(StillSent, b, q) = Result(KeepStep, b, q)
<1> DEFINE P(g) == g = [s \in SUBSET DOMAIN q |->
             IF s = {} THEN b ELSE StillSent(g[s \ {Max(s)}], q[Max(s)])]
<1>1. FoldLeft(StillSent, b, q) = (CHOOSE g : P(g))[DOMAIN q]
  BY Zenon DEF FoldLeft, MapThenFoldSet
<1>2. DOMAIN q = 1 .. Len(q) /\ Len(q) \in Nat
  OBVIOUS
<1>3. PICK f : IsFold(f, PostSeq, KeepStep, b, q)
  BY KeepStepType, SubsetFoldOfSequence, Zenon
<1>4. P(f)
  <2>1. f \in [SUBSET (1 .. Len(q)) -> PostSeq] /\ f = SubsetStep(KeepStep, b, q, f)
    BY <1>3 DEF IsFold
  <2>2. ASSUME NEW s \in SUBSET (1 .. Len(q)), s # {}
        PROVE  f[s] = StillSent(f[s \ {Max(s)}], q[Max(s)])
    <3>1. Max(s) \in 1 .. Len(q)
      BY <1>2, <2>2, MaxOfPositions
    <3>2. q[Max(s)] \in Post
      BY <3>1
    <3>a. f[s \ {Max(s)}] \in PostSeq
      <4>1. s \ {Max(s)} \in SUBSET (1 .. Len(q))
        OBVIOUS
      <4> QED BY <2>1, <4>1
    <3>3. f[s] = KeepStep[<<f[s \ {Max(s)}], q[Max(s)]>>]
      BY <2>1, <2>2 DEF SubsetStep
    <3> QED BY <3>2, <3>a, <3>3, KeepStepType
  <2>3. f[{}] = b
    BY <2>1 DEF SubsetStep
  <2>4. f = [s \in SUBSET (1 .. Len(q)) |-> f[s]]
    BY <2>1
  <2> QED BY <1>2, <2>2, <2>3, <2>4, Zenon
<1>5. P(CHOOSE g : P(g))
  <2> HIDE DEF P
  <2> QED BY <1>4, Zenon
<1> DEFINE g == CHOOSE g : P(g)
<1>6. /\ g[{}] = b
      /\ \A s \in SUBSET (1 .. Len(q)) : s # {} =>
            g[s] = StillSent(g[s \ {Max(s)}], q[Max(s)])
  BY <1>2, <1>5
<1> HIDE DEF g
<1>7. SolvesFold(g, PostSeq, KeepStep, b, q)
  <2> SUFFICES ASSUME NEW s \in SUBSET (1 .. Len(q)), s # {}, g[s \ {Max(s)}] \in PostSeq
               PROVE  g[s] = KeepStep[<<g[s \ {Max(s)}], q[Max(s)]>>]
    BY <1>6, Zenon DEF SolvesFold
  <2>1. Max(s) \in 1 .. Len(q)
    BY <1>2, MaxOfPositions
  <2>2. q[Max(s)] \in Post
    BY <2>1
  <2> QED BY <1>6, <2>2, KeepStepType
<1>8. Gives(g, KeepStep, b, q)
  <2>1. Stays(KeepStep, PostSeq, Post)
    BY KeepStepType
  <2> QED BY <1>7, <2>1, FoldIsResult
<1> QED BY <1>1, <1>2, <1>8 DEF g, Gives

(* What a crash leaves of the posts are posts, and not more of them. *)
LEMMA StillSentFacts ==
  ASSUME NEW q \in Seq(Post)
  PROVE  FoldLeft(StillSent, <<>>, q) \in Seq(Post) /\ Len(FoldLeft(StillSent, <<>>, q)) <= Len(q)
<1> DEFINE T == { p \in (0 .. Len(q)) \X PostSeq : Len(p[2]) <= p[1] }
<1>0. <<>> \in PostSeq
  BY DEF PostSeq
<1>1. <<0, <<>>>> \in T
  BY <1>0
<1>2. Inductive(T, PostSeq, KeepStep, q)
  <2> SUFFICES ASSUME NEW i \in 0 .. Len(q) - 1, NEW x \in PostSeq, <<i, x>> \in T
               PROVE  <<i + 1, KeepStep[<<x, q[i + 1]>>]>> \in T
    BY DEF Inductive
  <2>1. i + 1 \in 0 .. Len(q) /\ i + 1 \in 1 .. Len(q) /\ Len(x) <= i
    OBVIOUS
  <2>2. q[i + 1] \in Post
    BY <2>1
  <2>3. StillSent(x, q[i + 1]) \in PostSeq /\ Len(StillSent(x, q[i + 1])) <= i + 1
    BY <2>1, <2>2 DEF StillSent, PostSeq
  <2> QED BY <2>1, <2>2, <2>3, KeepStepType
<1> HIDE DEF T
<1>3. <<Len(q), Result(KeepStep, <<>>, q)>> \in T
  <2>1. Stays(KeepStep, PostSeq, Post)
    BY KeepStepType
  <2> QED BY <1>0, <1>1, <1>2, <2>1, ResultInduct
<1>4. FoldLeft(StillSent, <<>>, q) = Result(KeepStep, <<>>, q)
  BY <1>0, KeepFold
<1> QED BY <1>3, <1>4 DEF T, PostSeq

(* An answered post is gone, and the others are still there. *)
LEMMA RemoveAtFacts ==
  ASSUME NEW S, NEW q \in Seq(S), NEW i \in 1 .. Len(q)
  PROVE  RemoveAt(q, i) \in Seq(S) /\ Len(RemoveAt(q, i)) = Len(q) - 1
<1>1. SubSeq(q, 1, i - 1) \in Seq(S) /\ Len(SubSeq(q, 1, i - 1)) = i - 1
  OBVIOUS
<1>2. SubSeq(q, i + 1, Len(q)) \in Seq(S) /\ Len(SubSeq(q, i + 1, Len(q))) = Len(q) - i
  OBVIOUS
<1> DEFINE a == SubSeq(q, 1, i - 1)
           b == SubSeq(q, i + 1, Len(q))
<1>3. RemoveAt(q, i) = a \o b
  BY DEF RemoveAt
<1> HIDE DEF a, b
<1>4. a \in Seq(S) /\ b \in Seq(S) /\ Len(a) = i - 1 /\ Len(b) = Len(q) - i
  BY <1>1, <1>2 DEF a, b
<1>5. a \o b \in Seq(S) /\ Len(a \o b) = Len(a) + Len(b)
  BY <1>4
<1> QED BY <1>3, <1>4, <1>5

(* A post that is in flight is replaced by one with the same text. *)
LEMMA ReplacedFacts ==
  ASSUME NEW q \in Seq(Post), NEW i \in 1 .. Len(q), NEW p \in Post
  PROVE  [q EXCEPT ![i] = p] \in Seq(Post) /\ Len([q EXCEPT ![i] = p]) = Len(q)
  OBVIOUS

(* A write leaves a file of the characters there are. *)
LEMMA WriteAtType ==
  ASSUME NEW text \in Seq(AnyChar), NEW pos \in Nat, NEW chunk \in Seq(AnyChar)
  PROVE  WriteAt(text, pos, chunk) \in Seq(AnyChar)
<1> DEFINE end == pos + Len(chunk)
           n == IF Len(text) > end THEN Len(text) ELSE end
           f == [i \in 1 .. n |-> IF pos < i /\ i <= end THEN chunk[i - pos]
                                  ELSE IF i <= Len(text) THEN text[i] ELSE "NUL"]
<1>1. n \in Nat
  OBVIOUS
<1>2. ASSUME NEW i \in 1 .. n PROVE f[i] \in AnyChar
  <2>1. f[i] = IF pos < i /\ i <= end THEN chunk[i - pos]
                                  ELSE IF i <= Len(text) THEN text[i] ELSE "NUL"
    OBVIOUS
  <2>2. pos < i /\ i <= end => i - pos \in 1 .. Len(chunk)
    OBVIOUS
  <2>3. i <= Len(text) => i \in 1 .. Len(text)
    OBVIOUS
  <2>4. "NUL" \in AnyChar
    BY DEF AnyChar
  <2> QED BY <2>1, <2>2, <2>3, <2>4
<1>3. f \in [1 .. n -> AnyChar]
  <2>1. DOMAIN f = 1 .. n /\ f = [i \in 1 .. n |-> f[i]]
    OBVIOUS
  <2> HIDE DEF f, n
  <2> QED BY <1>2, <2>1
<1>4. WriteAt(text, pos, chunk) = f
  BY DEF WriteAt
<1> HIDE DEF f, n
<1>5. f \in Seq(AnyChar)
  BY <1>1, <1>3
<1> QED BY <1>4, <1>5

(* Writing what follows after the first pos characters of a text, at pos,  *)
(* gives the first end characters of it.                                   *)
LEMMA WriteAtExtends ==
  ASSUME NEW t \in Seq(AnyChar), NEW pos \in Nat, NEW end \in pos .. Len(t)
  PROVE  WriteAt(SubSeq(t, 1, pos), pos, SubSeq(t, pos + 1, end)) = SubSeq(t, 1, end)
<1> DEFINE a == SubSeq(t, 1, pos)
           b == SubSeq(t, pos + 1, end)
<1>1. Len(a) = pos /\ \A i \in 1 .. pos : a[i] = t[i]
  OBVIOUS
<1>2. Len(b) = end - pos /\ \A i \in 1 .. end - pos : b[i] = t[pos + i]
  OBVIOUS
<1>3. SubSeq(t, 1, end) = [i \in 1 .. end |-> t[i]]
  OBVIOUS
<1> HIDE DEF a, b
<1>4. pos + Len(b) = end /\ ~(Len(a) > end)
  BY <1>1, <1>2
<1>5. WriteAt(a, pos, b) = [i \in 1 .. end |-> IF pos < i /\ i <= end THEN b[i - pos]
                                  ELSE IF i <= Len(a) THEN a[i] ELSE "NUL"]
  BY <1>4 DEF WriteAt
<1>6. ASSUME NEW i \in 1 .. end
      PROVE  (IF pos < i /\ i <= end THEN b[i - pos]
                                  ELSE IF i <= Len(a) THEN a[i] ELSE "NUL") = t[i]
  <2>1. CASE pos < i
    <3>1. i - pos \in 1 .. end - pos /\ pos + (i - pos) = i /\ i <= end
      BY <2>1
    <3> QED BY <1>2, <2>1, <3>1
  <2>2. CASE ~(pos < i)
    <3>1. i \in 1 .. pos /\ i <= Len(a)
      BY <1>1, <2>2
    <3> QED BY <1>1, <2>2, <3>1
  <2> QED BY <2>1, <2>2
<1>7. WriteAt(a, pos, b) = SubSeq(t, 1, end)
  BY <1>3, <1>5, <1>6
<1> QED BY <1>7 DEF a, b

-----------------------------------------------------------------------------
(* Types.                                                                  *)

(* The texts of the user are texts of a page. *)
LEMMA TextsArePageTexts ==
  Texts \subseteq PageText /\ PageText \subseteq Seq(AnyChar) /\ <<>> \in PageText
<1>1. Char \cup {"NL"} \subseteq AnyChar \ {"CR"} /\ AnyChar \ {"CR"} \subseteq AnyChar
  BY AutosaveAssumption DEF AnyChar
<1>2. ASSUME NEW S, NEW T, S \subseteq T, NEW q \in Seq(S) PROVE q \in Seq(T)
  <2>1. \A i \in 1 .. Len(q) : q[i] \in T
    BY <1>2
  <2>2. q \in [1 .. Len(q) -> T] /\ Len(q) \in Nat
    BY <1>2, <2>1
  <2> QED BY <2>2
<1>3. Seq(Char \cup {"NL"}) \subseteq PageText
  BY <1>1, <1>2 DEF PageText
<1>4. PageText \subseteq Seq(AnyChar)
  BY <1>1, <1>2 DEF PageText
<1>5. <<>> \in PageText
  BY DEF PageText
<1> QED BY <1>3, <1>4, <1>5, AutosaveAssumption

(* The posts, what is on the disk and whether the server runs. *)
ServerTypeOK ==
  /\ posts \in Seq(Post) /\ Len(posts) <= MaxPosts
  /\ up \in BOOLEAN
  /\ disk \in [kind : {"file", "missing", "dir"}, text : Seq(AnyChar)]

(* The pages. *)
PageTypeOK ==
  /\ at \in [Tabs -> PageStates]
  /\ buffer \in [Tabs -> PageText]
  /\ pending \in [Tabs -> [armed : BOOLEAN, text : Seq(AnyChar)]]
  /\ sent \in [Tabs -> [posted : BOOLEAN, text : PageText]]

(* A page of which one function changes at one tab keeps its type. *)
LEMMA PageTypes ==
  ASSUME PageTypeOK, NEW c \in Tabs, NEW a \in PageStates, NEW b \in PageText,
         NEW p \in PageText, NEW s \in PageText, NEW posted \in BOOLEAN, NEW armed \in BOOLEAN
  PROVE  /\ [at EXCEPT ![c] = a] \in [Tabs -> PageStates]
         /\ [buffer EXCEPT ![c] = b] \in [Tabs -> PageText]
         /\ [pending EXCEPT ![c] = [armed |-> armed, text |-> p]]
              \in [Tabs -> [armed : BOOLEAN, text : Seq(AnyChar)]]
         /\ [sent EXCEPT ![c] = [posted |-> posted, text |-> s]]
              \in [Tabs -> [posted : BOOLEAN, text : PageText]]
<1>1. [armed |-> armed, text |-> p] \in [armed : BOOLEAN, text : Seq(AnyChar)]
  BY TextsArePageTexts, Zenon
<1>2. [posted |-> posted, text |-> s] \in [posted : BOOLEAN, text : PageText]
  BY Zenon
<1> QED BY <1>1, <1>2 DEF PageTypeOK

(* Every step of a page keeps the types. *)
LEMMA PageStepTypes ==
  ASSUME Inv, TypeOK, NEW c \in Tabs,
         Open(c) \/ Close(c) \/ Key(c) \/ save(c) \/ GetStep(c)
  PROVE  TypeOK'
<1> USE TextsArePageTexts
<1>1. PageTypeOK /\ ServerTypeOK /\ clean \in [is : BOOLEAN, text : PageText]
  BY DEF TypeOK, PageTypeOK, ServerTypeOK
<1>2. CASE Open(c) \/ Close(c)
  <2>1. PICK where \in PageStates : Leaves(c, where)
    BY <1>2 DEF Open, Close, PageStates, Loading
  <2>2. UNCHANGED <<posts, up, disk, clean>>
    BY <1>2 DEF Open, Close
  <2> QED BY <1>1, <2>1, <2>2, PageTypes DEF Leaves, NoTimer, NothingSent, TypeOK
<1>3. CASE Key(c)
  <2>1. PICK text \in PageText :
          /\ buffer' = [buffer EXCEPT ![c] = text]
          /\ pending' = [pending EXCEPT ![c] = Armed(text)]
    <3>1. buffer[c] \in PageText
      BY DEF TypeOK
    <3> QED BY <1>3, <3>1 DEF Key, debounce
  <2>2. UNCHANGED <<at, sent, posts, up, disk, clean>>
    BY <1>3 DEF Key
  <2> QED BY <1>1, <2>1, <2>2, PageTypes DEF Armed, TypeOK
<1>4. CASE save(c)
  <2> DEFINE text == pending[c].text
  <2>1. text \in PageText
    <3>1. at[c] = "editor" /\ pending[c] = Armed(buffer[c])
      BY <1>4 DEF save, Inv, Saving, NoTimer
    <3>2. buffer[c] \in PageText
      BY DEF TypeOK
    <3> QED BY <3>1, <3>2 DEF Armed
  <2> DEFINE p == [text |-> text, at |-> "sent", pos |-> 0, named |-> TRUE]
  <2>2. /\ posts' = Append(posts, p)
        /\ Len(posts) < MaxPosts
        /\ sent' = [sent EXCEPT ![c] = [posted |-> TRUE, text |-> text]]
        /\ pending' = [pending EXCEPT ![c] = [armed |-> FALSE, text |-> <<>>]]
        /\ clean' = [is |-> TRUE, text |-> text] \/ clean' = [is |-> FALSE, text |-> <<>>]
        /\ UNCHANGED <<at, buffer, up, disk>>
    BY <1>4 DEF save, Clean, NotClean, NoTimer
  <2>3. p \in Post
    BY <2>1 DEF Post
  <2> HIDE DEF text, p
  <2>4. posts' \in Seq(Post) /\ Len(posts') <= MaxPosts
    BY <2>2, <2>3, AutosaveAssumption DEF TypeOK
  <2>5. sent' \in [Tabs -> [posted : BOOLEAN, text : PageText]]
    BY <1>1, <2>1, <2>2, PageTypes DEF PageTypeOK
  <2>6. pending' \in [Tabs -> [armed : BOOLEAN, text : Seq(AnyChar)]]
    BY <1>1, <2>1, <2>2, PageTypes DEF PageTypeOK
  <2>7. clean' \in [is : BOOLEAN, text : PageText]
    <3>1. [is |-> TRUE, text |-> text] \in [is : BOOLEAN, text : PageText]
      BY <2>1
    <3>2. [is |-> FALSE, text |-> <<>>] \in [is : BOOLEAN, text : PageText]
      OBVIOUS
    <3> QED BY <2>2, <3>1, <3>2
  <2> QED BY <2>2, <2>4, <2>5, <2>6, <2>7 DEF TypeOK
<1>5. CASE GetStat(c) \/ GetReaddir(c)
  <2>1. PICK a \in PageStates : at' = [at EXCEPT ![c] = a]
    BY <1>5 DEF GetStat, GetReaddir, PageStates, Loading
  <2>2. UNCHANGED <<buffer, pending, sent, posts, up, disk, clean>>
    BY <1>5 DEF GetStat, GetReaddir
  <2> QED BY <1>1, <2>1, <2>2, PageTypes DEF TypeOK
<1>6. CASE GetRead(c)
  <2>1. UNCHANGED <<pending, posts, up, disk, clean>>
    BY <1>6 DEF GetRead
  <2>2. CASE \E text \in PageText : Edits(c, text)
    <3>1. PICK text \in PageText :
             /\ at' = [at EXCEPT ![c] = "editor"]
             /\ buffer' = [buffer EXCEPT ![c] = text]
             /\ sent' = [sent EXCEPT ![c] = [posted |-> FALSE, text |-> text]]
      BY <2>2 DEF Edits
    <3>2. "editor" \in PageStates
      BY DEF PageStates
    <3> QED BY <1>1, <2>1, <3>1, <3>2, PageTypes DEF TypeOK
  <2>3. CASE at' = [at EXCEPT ![c] = "refused"] /\ UNCHANGED <<buffer, sent>>
    <3>1. "refused" \in PageStates
      BY DEF PageStates
    <3> QED BY <1>1, <2>1, <2>3, <3>1, PageTypes DEF TypeOK
  <2>4. Parsed(disk.text) \in PageText
    <3>1. disk.text \in Seq(AnyChar)
      BY DEF TypeOK
    <3> QED BY <3>1, ParsedFacts
  <2> QED BY <1>6, <2>2, <2>3, <2>4 DEF GetRead
<1> QED BY <1>2, <1>3, <1>4, <1>5, <1>6 DEF GetStep

(* A post moves on: its place, its position and its name may change. *)
LEMMA PostMoves ==
  ASSUME NEW p \in Post, NEW a \in {"sent", "open", "write", "close"}, NEW pos \in Nat, NEW named \in BOOLEAN
  PROVE  /\ [p EXCEPT !.at = a] \in Post
         /\ [p EXCEPT !.pos = pos, !.at = a] \in Post
         /\ [p EXCEPT !.named = named] \in Post
  BY DEF Post

(* Every step of a post keeps the types. *)
LEMMA PostStepTypes ==
  ASSUME ServerTypeOK, NEW i \in 1 .. Len(posts),
         PostStep(i) \/ Lose(i) \/ PostWriteFails(i)
  PROVE  ServerTypeOK'
<1> DEFINE p == posts[i]
<1>1. p \in Post /\ Len(posts) \in Nat /\ MaxPosts \in Nat
  BY AutosaveAssumption DEF ServerTypeOK
<1>2. up' = up
  BY DEF PostStep, Deliver, PostOpen, PostWrite, PostClose, Lose, PostWriteFails
<1>3. ASSUME Answered(i) PROVE posts' \in Seq(Post) /\ Len(posts') <= MaxPosts
  <2>1. posts' \in Seq(Post) /\ Len(posts') = Len(posts) - 1
    BY <1>3, RemoveAtFacts DEF Answered, ServerTypeOK
  <2> QED BY <1>1, <2>1 DEF ServerTypeOK
<1>4. ASSUME NEW q \in Post, posts' = [posts EXCEPT ![i] = q]
      PROVE  posts' \in Seq(Post) /\ Len(posts') <= MaxPosts
  BY <1>4, ReplacedFacts DEF ServerTypeOK
<1>5. CASE Deliver(i) \/ Lose(i) \/ PostWriteFails(i) \/ PostClose(i)
  <2>1. disk' = disk
    BY <1>5 DEF Deliver, Lose, PostWriteFails, PostClose
  <2>2. Answered(i) \/ posts' = [posts EXCEPT ![i] = [p EXCEPT !.at = "open"]]
    BY <1>5 DEF Deliver, Lose, PostWriteFails, PostClose
  <2>3. [p EXCEPT !.at = "open"] \in Post
    BY <1>1, PostMoves
  <2> QED BY <1>2, <1>3, <1>4, <2>1, <2>2, <2>3 DEF ServerTypeOK
<1>6. CASE PostOpen(i)
  <2>1. \/ disk' = Truncated(disk) /\ posts' = [posts EXCEPT ![i] = [p EXCEPT !.at = "write"]]
        \/ disk' = disk /\ Answered(i)
    BY <1>6 DEF PostOpen
  <2>2. [p EXCEPT !.at = "write"] \in Post
    BY <1>1, PostMoves
  <2>3. Truncated(disk) \in [kind : {"file", "missing", "dir"}, text : Seq(AnyChar)]
    BY DEF Truncated
  <2> QED BY <1>2, <1>3, <1>4, <2>1, <2>2, <2>3 DEF ServerTypeOK
<1>7. CASE PostWrite(i)
  <2>1. PICK end \in p.pos .. Len(p.text) :
          /\ disk' = written(i, end)
          /\ posts' = [posts EXCEPT ![i].pos = end,
                         ![i].at = IF end = Len(posts[i].text) THEN "close" ELSE @]
    BY <1>7 DEF PostWrite
  <2> DEFINE a == IF end = Len(p.text) THEN "close" ELSE p.at
  <2>2. posts' = [posts EXCEPT ![i] = [p EXCEPT !.pos = end, !.at = a]]
    BY <2>1 DEF ServerTypeOK
  <2>3. end \in Nat /\ a \in {"sent", "open", "write", "close"} /\ p.text \in Seq(AnyChar) /\ p.pos \in Nat
    BY <1>1 DEF Post
  <2>4. [p EXCEPT !.pos = end, !.at = a] \in Post
    BY <1>1, <2>3, PostMoves
  <2> DEFINE chunk == SubSeq(p.text, p.pos + 1, end)
  <2>5. chunk \in Seq(AnyChar)
    BY <2>3
  <2>6. disk' = IF p.named THEN [disk EXCEPT !.text = WriteAt(disk.text, p.pos, chunk)] ELSE disk
    BY <2>1 DEF written
  <2> HIDE DEF p, chunk
  <2>7. disk.text \in Seq(AnyChar)
    BY DEF ServerTypeOK
  <2>8. WriteAt(disk.text, p.pos, chunk) \in Seq(AnyChar)
    BY <2>3, <2>5, <2>7, WriteAtType
  <2>9. disk' \in [kind : {"file", "missing", "dir"}, text : Seq(AnyChar)]
    BY <2>6, <2>8 DEF ServerTypeOK
  <2> QED BY <1>2, <1>4, <2>2, <2>4, <2>9 DEF ServerTypeOK
<1> QED BY <1>5, <1>6, <1>7 DEF PostStep

(* Whatever happens, every variable keeps its type.                        *)
LEMMA NextTypes == Inv /\ TypeOK /\ [Next]_vars => TypeOK'
<1> SUFFICES ASSUME Inv, TypeOK, [Next]_vars PROVE TypeOK'
  OBVIOUS
<1>1. PageTypeOK /\ ServerTypeOK /\ clean \in [is : BOOLEAN, text : PageText]
  BY DEF TypeOK, PageTypeOK, ServerTypeOK
<1>2. ASSUME UNCHANGED page, ServerTypeOK', clean' = clean \/ clean' = NotClean PROVE TypeOK'
  <2>1. NotClean \in [is : BOOLEAN, text : PageText]
    BY TextsArePageTexts DEF NotClean
  <2> QED BY <1>1, <1>2, <2>1 DEF TypeOK, PageTypeOK, ServerTypeOK, page
<1>3. ASSUME NEW c \in Tabs, Open(c) \/ Close(c) \/ Key(c) \/ save(c) \/ GetStep(c) PROVE TypeOK'
  BY <1>3, PageStepTypes
<1>4. ASSUME NEW i \in 1 .. Len(posts), PostStep(i) \/ Lose(i) \/ PostWriteFails(i) PROVE TypeOK'
  <2>1. UNCHANGED page /\ (clean' = clean \/ clean' = NotClean)
    BY <1>4 DEF PostStep, Deliver, PostOpen, PostWrite, PostClose, Lose, PostWriteFails
  <2>2. ServerTypeOK'
    BY <1>1, <1>4, PostStepTypes
  <2> QED BY <1>2, <2>1, <2>2
<1>5. CASE Crash
  <2>1. posts' \in Seq(Post) /\ Len(posts') <= Len(posts)
    BY <1>1, <1>5, StillSentFacts DEF Crash, ServerTypeOK
  <2>2. Len(posts') <= MaxPosts
    BY <1>1, <2>1, AutosaveAssumption DEF ServerTypeOK
  <2>3. up' \in BOOLEAN /\ UNCHANGED <<buffer, pending, sent, disk>> /\ clean' = NotClean
    BY <1>5 DEF Crash
  <2>4. at' \in [Tabs -> PageStates]
    BY <1>1, <1>5 DEF Crash, PageTypeOK, PageStates
  <2>5. NotClean \in [is : BOOLEAN, text : PageText]
    BY TextsArePageTexts DEF NotClean
  <2> QED BY <1>1, <2>1, <2>2, <2>3, <2>4, <2>5 DEF PageTypeOK, ServerTypeOK, TypeOK
<1>6. CASE Restart
  <2>1. ServerTypeOK'
    BY <1>1, <1>6 DEF Restart, ServerTypeOK
  <2> QED BY <1>2, <1>6, <2>1 DEF Restart
<1>7. CASE Outside
  <2> DEFINE unnamed == [i \in 1..Len(posts) |->
                           IF posts[i].at \in {"write", "close"}
                           THEN [posts[i] EXCEPT !.named = FALSE] ELSE posts[i]]
  <2>1. unnamed \in Seq(Post) /\ Len(unnamed) = Len(posts)
    <3>1. ASSUME NEW i \in 1 .. Len(posts) PROVE unnamed[i] \in Post
      <4>1. posts[i] \in Post
        BY <1>1 DEF ServerTypeOK
      <4>2. [posts[i] EXCEPT !.named = FALSE] \in Post
        BY <4>1, PostMoves
      <4> QED BY <4>1, <4>2
    <3>2. DOMAIN unnamed = 1 .. Len(posts) /\ unnamed = [i \in 1 .. Len(posts) |-> unnamed[i]]
      OBVIOUS
    <3>3. Len(posts) \in Nat
      BY <1>1 DEF ServerTypeOK
    <3> HIDE DEF unnamed
    <3> QED BY <3>1, <3>2, <3>3
  <2>2. posts' = unnamed /\ up' = up /\ clean' = NotClean /\ UNCHANGED page
    BY <1>7 DEF Outside
  <2>3. PICK kind \in {"missing", "dir"} : disk' = [kind |-> kind, text |-> <<>>]
    BY <1>7 DEF Outside
  <2> HIDE DEF unnamed
  <2>4. ServerTypeOK'
    BY <1>1, <2>1, <2>2, <2>3 DEF ServerTypeOK
  <2> QED BY <1>2, <2>2, <2>4
<1>8. CASE UNCHANGED vars
  <2>1. ServerTypeOK'
    BY <1>1, <1>8 DEF vars, ServerTypeOK
  <2> QED BY <1>2, <1>8, <2>1 DEF vars, page
<1> QED BY <1>3, <1>4, <1>5, <1>6, <1>7, <1>8 DEF Next

(* At first the pages are closed and no post is in flight. *)
LEMMA InitTypes == Init => TypeOK
<1> SUFFICES ASSUME Init PROVE TypeOK
  OBVIOUS
<1>1. "closed" \in PageStates /\ <<>> \in PageText /\ <<>> \in Seq(AnyChar) /\ <<>> \in Seq(Post)
  BY TextsArePageTexts DEF PageStates
<1>2. Len(posts) <= MaxPosts
  BY AutosaveAssumption DEF Init
<1>3. NoTimer \in [armed : BOOLEAN, text : Seq(AnyChar)]
  BY <1>1 DEF NoTimer
<1>4. NothingSent \in [posted : BOOLEAN, text : PageText]
  BY <1>1 DEF NothingSent
<1>5. NotClean \in [is : BOOLEAN, text : PageText]
  BY <1>1 DEF NotClean
<1> HIDE DEF NoTimer, NothingSent, NotClean
<1> QED BY <1>1, <1>2, <1>3, <1>4, <1>5, AutosaveAssumption DEF Init, TypeOK

(* For any pages, texts and faults, every variable has its type: no page   *)
(* ever holds a CR, whatever is in the file, and the posts are within      *)
(* their bound.                                                            *)
THEOREM TypeCorrect == Spec => []TypeOK
<1>1. Init => Inv /\ TypeOK
  BY InitInv, InitTypes
<1>2. Inv /\ TypeOK /\ [Next]_vars => (Inv /\ TypeOK)'
  BY NextInv, NextTypes
<1> QED BY <1>1, <1>2, PTL DEF Spec

-----------------------------------------------------------------------------
(* A save that meets no other and no fault.                                *)

(* A file that has this text. *)
File(text) == [kind |-> "file", text |-> text]

(* The post p of the clean save, step by step: the file is written from    *)
(* its start, and holds at every moment what has been written.             *)
OnItsWay(p, text, file) ==
  /\ p.text = text
  /\ p.named
  /\ p.at \in {"sent", "open"} => p.pos = 0
  /\ p.at = "write" => p.pos <= Len(p.text) /\ file = File(SubSeq(p.text, 1, p.pos))
  /\ p.at = "close" => file = File(p.text)

(* The clean save is the only post in flight, or is on the disk. *)
CleanInv ==
  clean.is => IF posts = <<>> THEN disk = File(clean.text)
              ELSE Len(posts) = 1 /\ OnItsWay(posts[1], clean.text, disk)

(* A clean save is the last post there is. *)
LEMMA OnlyPost ==
  ASSUME TypeOK, CleanInv, clean.is, NEW i \in 1 .. Len(posts)
  PROVE  /\ i = 1 /\ posts[i] \in Post /\ OnItsWay(posts[i], clean.text, disk)
         /\ \A q \in Post : [posts EXCEPT ![i] = q] # <<>> /\ Len([posts EXCEPT ![i] = q]) = 1
                            /\ [posts EXCEPT ![i] = q][1] = q
         /\ RemoveAt(posts, i) = <<>>
<1>1. posts \in Seq(Post)
  BY DEF TypeOK
<1>2. posts # <<>>
  BY <1>1
<1>3. Len(posts) = 1 /\ OnItsWay(posts[1], clean.text, disk)
  BY <1>2 DEF CleanInv
<1>4. Len(posts) = 1
  BY <1>3
<1>5. i = 1
  BY <1>4
<1>6. RemoveAt(posts, i) \in Seq(Post) /\ Len(RemoveAt(posts, i)) = Len(posts) - 1
  BY <1>1, RemoveAtFacts
<1>7. RemoveAt(posts, i) = <<>>
  BY <1>4, <1>6
<1>8. ASSUME NEW q \in Post
      PROVE  [posts EXCEPT ![i] = q] # <<>> /\ Len([posts EXCEPT ![i] = q]) = 1 /\ [posts EXCEPT ![i] = q][1] = q
  <2> DEFINE r == [posts EXCEPT ![i] = q]
  <2>1. r \in Seq(Post) /\ Len(r) = Len(posts)
    BY <1>1, <1>8, ReplacedFacts
  <2>2. r[1] = q
    BY <1>1, <1>5
  <2> HIDE DEF r
  <2>3. r # <<>> /\ Len(r) = 1
    BY <1>4, <2>1
  <2> QED BY <2>2, <2>3 DEF r
<1>9. posts[i] \in Post /\ OnItsWay(posts[i], clean.text, disk)
  <2>1. posts[i] \in Post
    BY <1>1
  <2> QED BY <1>3, <1>5, <2>1, Zenon
<1> QED BY <1>5, <1>7, <1>8, <1>9

(* Every step of the post keeps it on its way. *)
LEMMA PostStepClean ==
  ASSUME TypeOK, CleanInv, NEW i \in 1 .. Len(posts), clean'.is,
         PostStep(i) \/ Lose(i) \/ PostWriteFails(i)
  PROVE  CleanInv'
<1> DEFINE p == posts[i]
<1>1. clean' = clean
  BY DEF PostStep, Deliver, PostOpen, PostWrite, PostClose, Lose, PostWriteFails, NotClean
<1>2. /\ i = 1 /\ p \in Post /\ OnItsWay(p, clean.text, disk)
      /\ \A q \in Post : [posts EXCEPT ![i] = q] # <<>> /\ Len([posts EXCEPT ![i] = q]) = 1
                            /\ [posts EXCEPT ![i] = q][1] = q
      /\ RemoveAt(posts, i) = <<>>
  BY <1>1, OnlyPost
<1>3. p.text \in Seq(AnyChar) /\ p.pos \in Nat
  BY <1>2 DEF Post
<1>4. ASSUME NEW q \in Post, posts' = [posts EXCEPT ![i] = q], OnItsWay(q, clean'.text, disk')
      PROVE  CleanInv'
  <2>1. posts' # <<>> /\ Len(posts') = 1 /\ posts'[1] = q
    BY <1>2, <1>4
  <2>2. OnItsWay(posts'[1], clean'.text, disk')
    BY <1>4, <2>1 DEF OnItsWay
  <2> QED BY <2>1, <2>2 DEF CleanInv
<1>5. CASE Deliver(i) \/ Lose(i) \/ PostWriteFails(i)
  <2> DEFINE q == [p EXCEPT !.at = "open"]
  <2>1. p.at = "sent" /\ posts' = [posts EXCEPT ![i] = q] /\ disk' = disk
    BY <1>1, <1>5 DEF Deliver, Lose, PostWriteFails, NotClean
  <2>2. q \in Post
    BY <1>2, PostMoves
  <2>3. q.at = "open" /\ q.text = p.text /\ q.pos = p.pos /\ q.named = p.named
    BY <1>2 DEF Post
  <2> HIDE DEF q, p
  <2>4. OnItsWay(q, clean'.text, disk')
    BY <1>1, <1>2, <2>1, <2>3 DEF OnItsWay
  <2> QED BY <1>4, <2>1, <2>2, <2>4
<1>6. CASE PostOpen(i)
  <2> DEFINE q == [p EXCEPT !.at = "write"]
  <2>1. p.at = "open" /\ posts' = [posts EXCEPT ![i] = q] /\ disk' = File(<<>>)
    BY <1>1, <1>6 DEF PostOpen, NotClean, Truncated, File
  <2>2. q \in Post
    BY <1>2, PostMoves
  <2>3. q.at = "write" /\ q.text = p.text /\ q.pos = p.pos /\ q.named = p.named
    BY <1>2 DEF Post
  <2> HIDE DEF q, p
  <2>4. q.pos = 0 /\ q.pos <= Len(q.text) /\ SubSeq(q.text, 1, q.pos) = <<>>
    BY <1>2, <1>3, <2>1, <2>3 DEF OnItsWay
  <2>5. OnItsWay(q, clean'.text, disk')
    BY <1>1, <1>2, <2>1, <2>3, <2>4 DEF OnItsWay
  <2> QED BY <1>4, <2>1, <2>2, <2>5
<1>7. CASE PostWrite(i)
  <2>1. PICK end \in p.pos .. Len(p.text) :
          /\ disk' = written(i, end)
          /\ posts' = [posts EXCEPT ![i].pos = end,
                         ![i].at = IF end = Len(posts[i].text) THEN "close" ELSE @]
    BY <1>7 DEF PostWrite
  <2> DEFINE a == IF end = Len(p.text) THEN "close" ELSE p.at
             q == [p EXCEPT !.pos = end, !.at = a]
  <2>2. posts' = [posts EXCEPT ![i] = q]
    BY <2>1 DEF TypeOK
  <2>3. end \in Nat /\ a \in {"sent", "open", "write", "close"}
    BY <1>2, <1>3 DEF Post
  <2>4. q \in Post
    BY <1>2, <2>3, PostMoves
  <2>5. q.at = a /\ q.text = p.text /\ q.pos = end /\ q.named = p.named
    BY <1>2 DEF Post
  <2>6. p.named /\ p.at = "write"
    BY <1>2, <1>7 DEF PostWrite, OnItsWay
  <2> DEFINE chunk == SubSeq(p.text, p.pos + 1, end)
  <2>7. disk' = [disk EXCEPT !.text = WriteAt(disk.text, p.pos, chunk)]
    BY <2>1, <2>6 DEF written
  <2>8. disk = File(SubSeq(p.text, 1, p.pos))
    BY <1>2, <2>6 DEF OnItsWay
  <2> HIDE DEF p, q
  <2>9. WriteAt(SubSeq(p.text, 1, p.pos), p.pos, chunk) = SubSeq(p.text, 1, end)
    BY <1>3, WriteAtExtends
  <2>10. disk' = File(SubSeq(p.text, 1, end))
    <3> HIDE DEF chunk
    <3> QED BY <2>7, <2>8, <2>9 DEF File
  <2>11. end = Len(p.text) => SubSeq(p.text, 1, end) = p.text
    BY <1>3
  <2>12. OnItsWay(q, clean'.text, disk')
    <3> HIDE DEF chunk
    <3>1. a \in {"write", "close"} /\ (a = "close" => end = Len(p.text)) /\ end <= Len(p.text)
      BY <1>3, <2>6
    <3> HIDE DEF a
    <3> QED BY <1>1, <1>2, <2>5, <2>6, <2>10, <2>11, <3>1 DEF OnItsWay
  <2> HIDE DEF a
  <2> QED BY <1>4, <2>2, <2>4, <2>12
<1>8. CASE PostClose(i)
  <2>1. p.at = "close" /\ posts' = <<>> /\ disk' = disk
    BY <1>2, <1>8 DEF PostClose, Answered
  <2> HIDE DEF p
  <2>2. disk' = File(clean'.text)
    BY <1>1, <1>2, <2>1 DEF OnItsWay
  <2> QED BY <2>1, <2>2 DEF CleanInv
<1> QED BY <1>5, <1>6, <1>7, <1>8 DEF PostStep

(* Every step keeps the clean save clean. *)
LEMMA NextClean == TypeOK /\ CleanInv /\ [Next]_vars => CleanInv'
<1> SUFFICES ASSUME TypeOK, CleanInv, [Next]_vars, clean'.is PROVE CleanInv'
  BY DEF CleanInv
<1>1. ASSUME UNCHANGED <<posts, disk, clean>> PROVE CleanInv'
  BY <1>1 DEF CleanInv, OnItsWay
<1>2. ASSUME NEW c \in Tabs, Open(c) \/ Close(c) \/ Key(c) \/ GetStep(c) PROVE CleanInv'
  BY <1>1, <1>2 DEF Open, Close, Key, GetStep, GetStat, GetReaddir, GetRead
<1>3. ASSUME NEW c \in Tabs, save(c) PROVE CleanInv'
  <2> DEFINE text == pending[c].text
             p == [text |-> text, at |-> "sent", pos |-> 0, named |-> TRUE]
  <2>1. posts = <<>> /\ posts' = Append(posts, p) /\ clean' = Clean(text)
    BY <1>3 DEF save, NotClean
  <2>2. p.text = text /\ p.at = "sent" /\ p.pos = 0 /\ p.named
    OBVIOUS
  <2> HIDE DEF text, p
  <2>3. posts' # <<>> /\ Len(posts') = 1 /\ posts'[1] = p
    BY <2>1
  <2>4. OnItsWay(posts'[1], clean'.text, disk')
    BY <2>1, <2>2, <2>3 DEF OnItsWay, Clean
  <2> QED BY <2>3, <2>4 DEF CleanInv
<1>4. ASSUME NEW i \in 1 .. Len(posts), PostStep(i) \/ Lose(i) \/ PostWriteFails(i) PROVE CleanInv'
  BY <1>4, PostStepClean
<1>5. ~Crash /\ ~Outside
  BY DEF Crash, Outside, NotClean
<1>6. CASE Restart
  BY <1>1, <1>6 DEF Restart
<1>7. CASE UNCHANGED vars
  BY <1>1, <1>7 DEF vars
<1> QED BY <1>2, <1>3, <1>4, <1>5, <1>6, <1>7 DEF Next

(* What the proofs of both properties use. *)
LEMMA AlwaysClean == Spec => [](TypeOK /\ CleanInv)
<1>1. Init => Inv /\ TypeOK /\ CleanInv
  BY InitInv, InitTypes DEF Init, CleanInv, NotClean
<1>2. Inv /\ TypeOK /\ CleanInv /\ [Next]_vars => (Inv /\ TypeOK /\ CleanInv)'
  BY NextInv, NextTypes, NextClean
<1> QED BY <1>1, <1>2, PTL DEF Spec

(* A save posted while no other was in flight, and that met no fault, is   *)
(* in the file when it is answered, whole and alone, however many writes   *)
(* it took, whatever was in the file, and for any number of pages.         *)
THEOREM SaveOverwrites == Spec => []CleanSaveIsOnDisk
<1>1. TypeOK /\ CleanInv => CleanSaveIsOnDisk
  <2> SUFFICES ASSUME TypeOK, CleanInv, clean.is, posts = <<>> \/ posts[1].at = "close"
               PROVE  disk = [kind |-> "file", text |-> clean.text]
    BY DEF CleanSaveIsOnDisk
  <2>1. CASE posts = <<>>
    BY <2>1 DEF CleanInv, File
  <2>2. CASE posts # <<>>
    BY <2>2 DEF CleanInv, OnItsWay, File
  <2> QED BY <2>1, <2>2
<1> QED BY <1>1, AlwaysClean, PTL

(* A page that is loaded when no write is going on shows the last save, if *)
(* that one was clean, but for a newline at its start.                     *)
THEOREM LoadShowsLastSave == Spec => CleanLoadShowsLastSave
<1> DEFINE Shows(c) ==
      at[c] = "read" /\ at'[c] = "editor" /\ clean.is /\ posts = <<>> =>
        buffer'[c] = IF clean.text # <<>> /\ clean.text[1] = "NL"
                     THEN Tail(clean.text) ELSE clean.text
<1>1. TypeOK /\ CleanInv /\ [Next]_vars => [\A c \in Tabs : Shows(c)]_vars
  <2> SUFFICES ASSUME TypeOK, CleanInv, Next, NEW c \in Tabs,
                      at[c] = "read", at'[c] = "editor", clean.is, posts = <<>>
               PROVE  buffer'[c] = IF clean.text # <<>> /\ clean.text[1] = "NL"
                                   THEN Tail(clean.text) ELSE clean.text
    OBVIOUS
  <2>1. DOMAIN at = Tabs /\ DOMAIN buffer = Tabs /\ Len(posts) = 0
    BY DEF TypeOK
  <2>2. PICK d \in Tabs : Open(d) \/ Close(d) \/ Key(d) \/ save(d) \/ GetStep(d)
    <3>1. ~Crash /\ ~Restart /\ ~Outside
      BY <2>1 DEF Crash, Restart, Outside, page, Loading
    <3>2. 1 .. Len(posts) = {}
      BY <2>1
    <3> QED BY <3>1, <3>2 DEF Next
  <2>3. GetRead(c)
    BY <2>1, <2>2 DEF Open, Close, Leaves, Key, save, GetStep, GetStat, GetReaddir, GetRead, Edits
  <2>4. disk = File(clean.text)
    BY DEF CleanInv
  <2>5. Edits(c, Parsed(clean.text))
    BY <2>1, <2>3, <2>4 DEF GetRead, File
  <2>6. buffer'[c] = Parsed(clean.text)
    BY <2>1, <2>5 DEF Edits
  <2>7. clean.text \in PageText /\ clean.text \in Seq(AnyChar)
    BY TextsArePageTexts DEF TypeOK
  <2> QED BY <2>6, <2>7, ParsedFacts
<1> QED BY <1>1, AlwaysClean, PTL DEF Spec, CleanLoadShowsLastSave

=============================================================================
