------------------------------ MODULE Autosave ------------------------------
(***************************************************************************)
(* How an edit reaches the disk and comes back: the debounced save of      *)
(* assets/js/app.coffee, the two handlers of src/edit.coffee, and between  *)
(* them a network and a file system that the code does not control.        *)
(*                                                                         *)
(* Several pages (tabs) have one file open.  A page posts its text one     *)
(* second after the last key, without waiting for an earlier post and      *)
(* without looking at the answer; the server truncates the file, writes it *)
(* piece by piece and closes it, one asynchronous call each, so the calls  *)
(* of two posts interleave, and a crash leaves the file as it was.         *)
(***************************************************************************)
EXTENDS Integers, Sequences, SequencesExt

CONSTANTS
  Tabs,         \* the pages on which the file is opened
  Char,         \* characters other than "NL" and "CR"
  Texts,        \* the texts the user edits the buffer to
  InitialDisk,  \* what the path names at first
  Faults,       \* what may go wrong: see FaultKinds
  MaxPosts      \* bound on the posts in flight

FaultKinds == {"crash", "loss", "io", "outside"}

(* What a file is made of, and what the text of a page is. *)
AnyChar == Char \cup {"NL", "CR", "NUL"}
PageText == Seq(AnyChar \ {"CR"})

ASSUME AutosaveAssumption ==
  /\ "CR" \notin Char
  /\ Texts \subseteq Seq(Char \cup {"NL"})
  /\ InitialDisk \in [kind : {"file", "missing", "dir"}, text : Seq(AnyChar)]
  /\ Faults \subseteq FaultKinds
  /\ MaxPosts \in Nat \ {0}

VARIABLES
  at,       \* per tab: where the page is, from the GET to the open editor
  buffer,   \* per tab: the text being edited (the lines, joined)
  pending,  \* per tab: what the armed timer of save will post, or none
  posts,    \* the POST requests in flight, oldest first
  up,       \* whether the node server runs
  disk,     \* what the path names, and the file's text
  sent,     \* history, per tab: the text last posted, or else loaded
  clean     \* history: the text last posted by any tab, if it was posted with
            \* no other post in flight and nothing has gone wrong since

page == <<at, buffer, pending, sent>>
vars == <<at, buffer, pending, posts, up, disk, sent, clean>>

(* A timer that is armed, with its argument; none otherwise. *)
NoTimer == [armed |-> FALSE, text |-> <<>>]
NotClean == [is |-> FALSE, text |-> <<>>]
Clean(text) == [is |-> TRUE, text |-> text]

NothingSent == [posted |-> FALSE, text |-> <<>>]
Armed(text) == [armed |-> TRUE, text |-> text]

(* Where a page is: "stat", "readdir" and "read" are the callbacks the GET *)
(* handler waits in; "refused" is an answer of 400.                        *)
Loading == {"stat", "readdir", "read"}
PageStates == {"closed", "editor", "folder", "refused"} \cup Loading

(* Where a post is: on the network, waiting for open, for write or for     *)
(* close.  pos is the number of characters written; a post that had the    *)
(* file open when its path was removed writes to a file with no name.      *)
Post == [text : Seq(AnyChar), at : {"sent", "open", "write", "close"},
         pos : Nat, named : BOOLEAN]

Init ==
  /\ at = [c \in Tabs |-> "closed"]
  /\ buffer = [c \in Tabs |-> <<>>]
  /\ pending = [c \in Tabs |-> NoTimer]
  /\ posts = <<>>
  /\ up = TRUE
  /\ disk = InitialDisk
  /\ sent = [c \in Tabs |-> NothingSent]
  /\ clean = NotClean

-----------------------------------------------------------------------------
(* The page.                                                               *)

(* The document is gone: its text, and the timer with it. *)
Leaves(c, where) ==
  /\ at' = [at EXCEPT ![c] = where]
  /\ buffer' = [buffer EXCEPT ![c] = <<>>]
  /\ pending' = [pending EXCEPT ![c] = NoTimer]
  /\ sent' = [sent EXCEPT ![c] = NothingSent]

(* The user opens the page, or reloads it.  (With the server down, Close.) *)
Open(c) ==
  /\ up
  /\ at[c] \notin Loading
  /\ Leaves(c, "stat")
  /\ UNCHANGED <<posts, up, disk, clean>>

Close(c) ==
  /\ at[c] = "editor"
  /\ Leaves(c, "closed")
  /\ UNCHANGED <<posts, up, disk, clean>>

\* Mutant: a timer that runs is left to run, with the text it was armed with.
debounce_first(armed, text) == IF armed.armed THEN armed ELSE Armed(text)
(* debounce: the new call replaces the timer and its argument. *)
debounce(armed, text) == Armed(text)

(* A key that the editor handles, whether or not it changes the text. *)
Key(c) ==
  /\ at[c] = "editor"
  /\ \E text \in Texts \cup {buffer[c]} :
       /\ buffer' = [buffer EXCEPT ![c] = text]
       /\ pending' = [pending EXCEPT ![c] = debounce(pending[c], text)]
  /\ UNCHANGED <<at, sent, posts, up, disk, clean>>

\* Mutant: the timer does nothing while a post is in flight.
save_unless_busy(c) ==
  /\ pending[c].armed
  /\ IF posts = <<>>
     THEN /\ posts' = <<[text |-> pending[c].text, at |-> "sent",
                         pos |-> 0, named |-> TRUE]>>
          /\ sent' = [sent EXCEPT ![c] = [posted |-> TRUE, text |-> pending[c].text]]
          /\ clean' = Clean(pending[c].text)
     ELSE UNCHANGED <<posts, sent, clean>>
  /\ pending' = [pending EXCEPT ![c] = NoTimer]
  /\ UNCHANGED <<at, buffer, up, disk>>
(* The timer fires: the text is posted, whatever is in flight already. *)
save(c) ==
  /\ pending[c].armed
  /\ Len(posts) < MaxPosts
  /\ LET text == pending[c].text
     IN /\ posts' = Append(posts, [text |-> text, at |-> "sent",
                                   pos |-> 0, named |-> TRUE])
        /\ sent' = [sent EXCEPT ![c] = [posted |-> TRUE, text |-> text]]
        /\ clean' = IF posts = <<>> THEN Clean(text) ELSE NotClean
  /\ pending' = [pending EXCEPT ![c] = NoTimer]
  /\ UNCHANGED <<at, buffer, up, disk>>

-----------------------------------------------------------------------------
(* The POST handler and the steps of fs.writeFile.                         *)

Answered(i) == posts' = RemoveAt(posts, i)

(* The handler calls fs.writeFile; a server that is down answers nobody,   *)
(* and the page does not notice.                                           *)
Deliver(i) ==
  /\ posts[i].at = "sent"
  /\ \/ up /\ posts' = [posts EXCEPT ![i].at = "open"] /\ UNCHANGED clean
     \/ ~up /\ Answered(i) /\ clean' = NotClean
  /\ UNCHANGED <<page, up, disk>>

Lose(i) ==
  /\ "loss" \in Faults
  /\ posts[i].at = "sent"
  /\ Answered(i)
  /\ clean' = NotClean
  /\ UNCHANGED <<page, up, disk>>

\* Mutant: the file is opened without being truncated.
Truncated_r(d) == IF d.kind = "file" THEN d ELSE [kind |-> "file", text |-> <<>>]
(* open with flag "w" *)
Truncated(d) == [kind |-> "file", text |-> <<>>]

PostOpen(i) ==
  /\ posts[i].at = "open"
  /\ \/ /\ disk.kind # "dir"
        /\ disk' = Truncated(disk)
        /\ posts' = [posts EXCEPT ![i].at = "write"]
        /\ UNCHANGED clean
     \/ /\ disk.kind = "dir" \/ "io" \in Faults
        /\ Answered(i)
        /\ clean' = NotClean
        /\ UNCHANGED disk
  /\ UNCHANGED <<page, up>>

(* chunk written at offset pos; bytes between the end of the file and pos  *)
(* become zero.                                                            *)
WriteAt(text, pos, chunk) ==
  LET end == pos + Len(chunk)
  IN [i \in 1 .. (IF Len(text) > end THEN Len(text) ELSE end) |->
        IF pos < i /\ i <= end THEN chunk[i - pos]
        ELSE IF i <= Len(text) THEN text[i] ELSE "NUL"]

(* A write of the characters up to end, at the position of the first. *)
written(i, end) ==
  LET p == posts[i]
      chunk == SubSeq(p.text, p.pos + 1, end)
  IN IF p.named THEN [disk EXCEPT !.text = WriteAt(disk.text, p.pos, chunk)]
     ELSE disk

(* One write may be short; fs.writeFile then goes on where it stopped. *)
PostWrite(i) ==
  /\ posts[i].at = "write"
  /\ \E end \in posts[i].pos .. Len(posts[i].text) :
       /\ end > posts[i].pos \/ end = Len(posts[i].text)
       /\ disk' = written(i, end)
       /\ posts' = [posts EXCEPT ![i].pos = end,
                      ![i].at = IF end = Len(posts[i].text) THEN "close" ELSE @]
  /\ UNCHANGED <<page, up, clean>>

PostWriteFails(i) ==
  /\ "io" \in Faults
  /\ posts[i].at = "write"
  /\ Answered(i)
  /\ clean' = NotClean
  /\ UNCHANGED <<page, up, disk>>

(* The file is closed and {okay: true} is answered. *)
PostClose(i) ==
  /\ posts[i].at = "close"
  /\ Answered(i)
  /\ UNCHANGED <<page, up, disk, clean>>

-----------------------------------------------------------------------------
(* The GET handler and what the browser makes of the page.                 *)

(* HTML parsing turns CR LF and CR into LF, one character at a time; cr is *)
(* whether the last one was a CR.                                          *)
Normalised(s, char) ==
  IF s.cr /\ char = "NL" THEN [s EXCEPT !.cr = FALSE]
  ELSE [text |-> Append(s.text, IF char = "CR" THEN "NL" ELSE char), cr |-> char = "CR"]
NormalNewlines(text) == FoldLeft(Normalised, [text |-> <<>>, cr |-> FALSE], text).text

(* ... and drops a newline that follows the start tag of pre. *)
Parsed(text) ==
  LET lines == NormalNewlines(text)
  IN IF lines # <<>> /\ lines[1] = "NL" THEN Tail(lines) ELSE lines

GetStat(c) ==
  /\ at[c] = "stat"
  /\ at' = [at EXCEPT ![c] = IF disk.kind = "dir" THEN "readdir" ELSE "read"]
  /\ UNCHANGED <<buffer, pending, sent, posts, up, disk, clean>>

(* A directory that is gone, or cannot be read, is tried as a file. *)
GetReaddir(c) ==
  /\ at[c] = "readdir"
  /\ \/ disk.kind = "dir" /\ at' = [at EXCEPT ![c] = "folder"]
     \/ /\ disk.kind # "dir" \/ "io" \in Faults
        /\ at' = [at EXCEPT ![c] = "read"]
  /\ UNCHANGED <<buffer, pending, sent, posts, up, disk, clean>>

\* Mutant: the text loses its first character on the way to the buffer.
Edits_from_1(c, text) ==
  LET loaded == IF text = <<>> THEN text ELSE Tail(text)
  IN /\ at' = [at EXCEPT ![c] = "editor"]
     /\ buffer' = [buffer EXCEPT ![c] = loaded]
     /\ sent' = [sent EXCEPT ![c] = [posted |-> FALSE, text |-> loaded]]
Edits(c, text) ==
  /\ at' = [at EXCEPT ![c] = "editor"]
  /\ buffer' = [buffer EXCEPT ![c] = text]
  /\ sent' = [sent EXCEPT ![c] = [posted |-> FALSE, text |-> text]]

(* A missing file is edited as an empty one. *)
GetRead(c) ==
  /\ at[c] = "read"
  /\ \/ disk.kind = "file" /\ Edits(c, Parsed(disk.text))
     \/ disk.kind = "missing" /\ Edits(c, <<>>)
     \/ /\ disk.kind = "dir" \/ "io" \in Faults
        /\ at' = [at EXCEPT ![c] = "refused"]
        /\ UNCHANGED <<buffer, sent>>
  /\ UNCHANGED <<pending, posts, up, disk, clean>>

-----------------------------------------------------------------------------
(* The world outside the code.                                             *)

(* The posts that the server has not accepted yet, one by one. *)
StillSent(kept, p) == IF p.at = "sent" THEN Append(kept, p) ELSE kept

(* The server crashes, or its supervisor restarts it because a file under  *)
(* app/ or views/ has changed: what it was doing is forgotten.             *)
Crash ==
  /\ "crash" \in Faults
  /\ up
  /\ up' = FALSE
  /\ posts' = FoldLeft(StillSent, <<>>, posts)
  /\ at' = [c \in Tabs |-> IF at[c] \in Loading THEN "closed" ELSE at[c]]
  /\ clean' = NotClean
  /\ UNCHANGED <<buffer, pending, sent, disk>>

Restart ==
  /\ ~up
  /\ up' = TRUE
  /\ UNCHANGED <<page, posts, disk, clean>>

(* Another program removes the file, or makes or removes a directory. *)
Outside ==
  /\ "outside" \in Faults
  /\ \E kind \in {"missing", "dir"} :
       /\ (kind = "missing") # (disk.kind = "missing")
       /\ disk' = [kind |-> kind, text |-> <<>>]
  /\ posts' = [i \in 1..Len(posts) |->
                 IF posts[i].at \in {"write", "close"}
                 THEN [posts[i] EXCEPT !.named = FALSE] ELSE posts[i]]
  /\ clean' = NotClean
  /\ UNCHANGED <<page, up>>

-----------------------------------------------------------------------------

PostStep(i) ==
  Deliver(i) \/ PostOpen(i) \/ PostWrite(i) \/ PostClose(i)

GetStep(c) == GetStat(c) \/ GetReaddir(c) \/ GetRead(c)

Next ==
  \/ \E c \in Tabs : Open(c) \/ Close(c) \/ Key(c) \/ save(c) \/ GetStep(c)
  \/ \E i \in 1..Len(posts) : PostStep(i) \/ Lose(i) \/ PostWriteFails(i)
  \/ Crash \/ Restart \/ Outside

(* The browser's timer fires, node runs the callbacks of requests it has   *)
(* accepted, and the supervisor restarts the server.  Nothing makes the    *)
(* user type or stop typing.                                               *)
Fairness ==
  /\ \A c \in Tabs : WF_vars(save(c)) /\ WF_vars(GetStep(c))
  /\ WF_vars(\E i \in 1..Len(posts) : PostStep(i))
  /\ WF_vars(Restart)

Spec == Init /\ [][Next]_vars

FairSpec == Spec /\ Fairness

-----------------------------------------------------------------------------
(* Properties.                                                             *)

(* Every variable has its type. *)
TypeOK ==
  /\ at \in [Tabs -> PageStates]
  /\ buffer \in [Tabs -> PageText]
  /\ pending \in [Tabs -> [armed : BOOLEAN, text : Seq(AnyChar)]]
  /\ posts \in Seq(Post) /\ Len(posts) <= MaxPosts
  /\ up \in BOOLEAN
  /\ disk \in [kind : {"file", "missing", "dir"}, text : Seq(AnyChar)]
  /\ sent \in [Tabs -> [posted : BOOLEAN, text : PageText]]
  /\ clean \in [is : BOOLEAN, text : PageText]

(* The debounced save never forgets an edit: while a page is open its text *)
(* is what it last posted (or loaded), or the timer is armed with it.      *)
EditIsSentOrPending ==
  \A c \in Tabs : at[c] = "editor" =>
    IF pending[c].armed THEN pending[c].text = buffer[c]
                        ELSE sent[c].text = buffer[c]

(* A save sent while no other was in flight overwrites the file with its   *)
(* text, however the write is split up, and is not answered before it has. *)
CleanSaveIsOnDisk ==
  clean.is /\ (posts = <<>> \/ posts[1].at = "close") =>
    disk = [kind |-> "file", text |-> clean.text]

(* A page opened when no write is going on shows the last save, if that    *)
(* save met no other and no fault, except that the HTML parser takes a     *)
(* newline off its start.                                                  *)
CleanLoadShowsLastSave ==
  [][ \A c \in Tabs :
        at[c] = "read" /\ at'[c] = "editor" /\ clean.is /\ posts = <<>> =>
          buffer'[c] = IF clean.text # <<>> /\ clean.text[1] = "NL"
                       THEN Tail(clean.text) ELSE clean.text ]_vars

(* Once the user stops typing and leaves the page open, the armed save is  *)
(* posted and every post is answered; if the page has saved at all and its *)
(* last save did not meet an earlier one in flight, the file then has the  *)
(* page's text.                                                            *)
TypingStops(c) ==
  <>[][at[c] = "editor" /\ at'[c] = "editor" /\ ~Key(c)]_vars
EventuallyOnDisk ==
  \A c \in Tabs :
    TypingStops(c) =>
      <>[](at[c] = "editor" =>
             /\ ~pending[c].armed
             /\ posts = <<>>
             /\ clean.is /\ sent[c].posted => disk.text = buffer[c])

-----------------------------------------------------------------------------
(* What the repository says and the code does not do.                      *)

(* ideas.md:2, "implicit locks on every file, save overwrites the server   *)
(* copy": with all saves answered and no fault, the file is one of the     *)
(* texts the user had on the page.  The code has no lock: two writes that  *)
(* overlap leave a mixture.                                                *)
SavesDoNotMix ==
  posts = <<>> =>
    \E text \in Texts \cup {InitialDisk.text} : disk.text \in {text, Parsed(text)}

=============================================================================
