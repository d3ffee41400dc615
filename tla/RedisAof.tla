------------------------------ MODULE RedisAof ------------------------------
(***************************************************************************)
(* The append-only file (redis/src/aof.c, and parts of bio.c, redis.c,     *)
(* ae.c, config.c and redis-check-aof.c): how modifications get to the     *)
(* file and the file to the disk, how it is rewritten in the background,   *)
(* and what is loaded after a crash at any point.  A modification is an    *)
(* INCR in a database, or a transaction with two of them.                  *)
(***************************************************************************)
EXTENDS Naturals, Sequences, SequencesExt, FiniteSetsExt

CONSTANTS
  dbnum,         \* how many databases there are
  Commands,      \* sequences of one or two of them: where they increment a key
  Configs,       \* the configurations: appendfsync, no-appendfsync-on-rewrite, and
                 \* whether the file system orders a rename behind the data
  Pipelining,    \* does a client send a command before it has the last reply?
  Faults,        \* "kill", "power", "write", "fork", "child", "rename"
  MaxModifications, MaxForks, MaxRestarts   \* bounds

ASSUME DbAssumption == dbnum \in Nat \ {0}

Dbs == 0 .. dbnum - 1

ASSUME CommandAssumption == \A m \in Commands : m \in Seq(Dbs) /\ Len(m) \in {1, 2}
ASSUME ConfigAssumption ==
  Configs \subseteq [appendfsync : {"no", "everysec", "always"},
                    no_fsync_on_rewrite : BOOLEAN, ordered : BOOLEAN]
ASSUME PipeliningAssumption == Pipelining \in BOOLEAN
ASSUME BoundsAssumption == MaxModifications \in Nat /\ MaxForks \in Nat /\ MaxRestarts \in Nat

VARIABLES
  conf,
  hist,       \* the database after every modification
  replied,    \* how many of them have been answered, the last with the file switched on
  output,     \* is there a reply in the client's output buffer?
  armed,      \* was there one before the last poll?
  at,         \* where the main thread is
  srv,        \* struct redisServer, the aof_ fields
  file,       \* the file of that name
  shadows,    \* files of that name that the directory on the disk may still have
  jobs,       \* bio_jobs[REDIS_BIO_AOF_FSYNC]
  rdb_child,  \* is a BGSAVE running?
  spent       \* forks and restarts so far

vars == <<conf, hist, replied, output, armed, at, srv, file, shadows, jobs, rdb_child, spent>>

Empty == [d \in Dbs |-> 0]
Data == IF hist = <<>> THEN Empty ELSE Last(hist)
Modified(m) == [d \in Dbs |-> Data[d] + Cardinality({ i \in DOMAIN m : m[i] = d })]

-----------------------------------------------------------------------------
(* Records of the file.                                                    *)

Select(d) == <<"select", d>>
Incr == <<"incr">>
Set(n) == <<"set", n>>
Multi == <<"multi">>
Exec == <<"exec">>

(* One command, with a SELECT if the last one was for another database; -1 *)
(* is written as dbnum.                                                    *)
feedAppendOnlyFile(f, d, rec) ==
  [recs |-> f.recs \o (IF d # f.sel THEN <<Select(d)>> ELSE <<>>) \o <<rec>>, sel |-> d]

NoDb == dbnum

(* What call and execCommand propagate for a modification. *)
Call(f, d) == feedAppendOnlyFile(f, d, Incr)
Fed(sel, m) ==
  LET start == [recs |-> <<>>, sel |-> sel]
  IN IF Len(m) = 1 THEN FoldLeft(Call, start, m)
     ELSE feedAppendOnlyFile(FoldLeft(Call, feedAppendOnlyFile(start, m[1], Multi), m), Last(m), Exec)

(* The databases in their order, those without keys left out. *)
RewriteDb(recs, db) == IF db.key = 0 THEN recs ELSE recs \o <<Select(db.id), Set(db.key)>>
rewriteAppendOnlyFile(data) ==
  FoldLeft(RewriteDb, <<>>, [j \in 1 .. dbnum |-> [id |-> j - 1, key |-> data[j - 1]]])

(* loadAppendOnlyFile: the database it has filled, the one it is in, is it *)
(* behind a MULTI, and what it had filled before that.                     *)
Loader == [data |-> Empty, db |-> 0, multi |-> FALSE, whole |-> Empty]

(* The commands between MULTI and EXEC are run at once. *)
Ran(x, rec) ==
  CASE rec[1] = "select" -> [x EXCEPT !.db = rec[2]]
    [] rec[1] = "incr" -> [x EXCEPT !.data[x.db] = @ + 1]
    [] rec[1] = "set" -> [x EXCEPT !.data[x.db] = rec[2]]
    [] rec[1] = "multi" -> [x EXCEPT !.multi = TRUE]
    [] rec[1] = "exec" -> [x EXCEPT !.multi = FALSE]
Replayed(x, rec) ==
  LET y == Ran(x, rec) IN IF y.multi THEN y ELSE [y EXCEPT !.whole = y.data]

(* A file is kept as what loading makes of it, record by record; perhaps   *)
(* there is a part of one more; synced is how many of them the disk has.   *)
NewFile == [loads |-> <<>>, torn |-> FALSE, synced |-> 0]
LoadedUpTo(f, k) == IF k = 0 THEN Loader ELSE f.loads[k]
AppendRecord(f, rec) == [f EXCEPT !.loads = Append(@, Replayed(LoadedUpTo(f, Len(@)), rec))]
Write(f, recs) == FoldLeft(AppendRecord, f, recs)
Synced(f) == [f EXCEPT !.synced = Len(f.loads)]

(* At the end of the file there is neither a part of a record nor a MULTI. *)
Loads(f) == ~f.torn /\ ~LoadedUpTo(f, Len(f.loads)).multi

(* redis-check-aof --fix cuts off what cannot be loaded. *)
Fixed(f) ==
  LET good == Max({0} \cup { k \in DOMAIN f.loads : ~f.loads[k].multi })
  IN [loads |-> SubSeq(f.loads, 1, good), torn |-> FALSE, synced |-> Min({f.synced, good})]

(* The numbers of modifications after which the database was what is       *)
(* loaded from k records, those of a cut transaction left out.             *)
PastStates(f, k) ==
  LET data == LoadedUpTo(f, k).whole
  IN { n \in 0 .. Len(hist) : data = IF n = 0 THEN Empty ELSE hist[n] }
RestoredFrom(f, k) == LET past == PastStates(f, k) IN IF past = {} THEN 0 ELSE Min(past)
Restored == RestoredFrom(file, Len(file.loads))

(* The least that is left of a file when the power fails, of all files     *)
(* that the name may stand for.                                            *)
Durable == Min({ RestoredFrom(f, f.synced) : f \in shadows \cup {file} })

-----------------------------------------------------------------------------

Started(data) ==
  [state |-> "on", fd |-> "open", buf |-> <<>>, sel |-> NoDb, rwbuf |-> <<>>, child |-> FALSE,
   snap |-> data, sched |-> FALSE, postponed |-> "no", second |-> FALSE]

Init == /\ conf \in Configs
        /\ hist = <<>> /\ replied = 0 /\ output = FALSE /\ armed = FALSE /\ at = "loop"
        /\ srv = Started(Empty)
        /\ file = NewFile /\ shadows = {}
        /\ jobs = <<>> /\ rdb_child = FALSE
        /\ spent = [forks |-> 0, restarts |-> 0]

disk == <<file, shadows>>
client == <<hist, replied, output, armed>>

(* The list of blocks holds what has been appended to it, in order. *)
aofRewriteBufferAppend(blocks, recs) == blocks \o recs

(* A command of the client: call, propagate. *)
Execute ==
  \E m \in Commands :
    LET fed == Fed(srv.sel, m)
    IN /\ at = "loop" /\ Len(hist) < MaxModifications
       /\ Pipelining \/ ~output
       /\ hist' = Append(hist, Modified(m)) /\ output' = TRUE
       /\ srv' = IF srv.state = "off" THEN srv
                 ELSE [srv EXCEPT !.sel = fed.sel,
                                  !.buf = IF srv.state = "on" THEN @ \o fed.recs ELSE @,
                                  !.rwbuf = IF srv.child THEN aofRewriteBufferAppend(@, fed.recs) ELSE @]
       /\ UNCHANGED <<conf, replied, armed, at, disk, jobs, rdb_child, spent>>

(* sendReplyToClient, if the socket was polled for writing: everything in  *)
(* the output buffer, what a command has added since then too.             *)
Reply ==
  /\ at = "loop" /\ armed
  /\ replied' = (IF srv.state = "on" THEN Len(hist) ELSE replied) /\ output' = FALSE /\ armed' = FALSE
  /\ UNCHANGED <<conf, hist, at, srv, disk, jobs, rdb_child, spent>>

-----------------------------------------------------------------------------
(* flushAppendOnlyFile, called by beforeSleep; the call of serverCron, if  *)
(* it has been postponed, comes right before that one.                     *)

(* Mutant: there is no limit to it. *)
Postpones_for_ever == conf.appendfsync = "everysec" /\ jobs # <<>>

(* Every second, and an fsync is going on: postponed for two seconds. *)
Postpones == conf.appendfsync = "everysec" /\ jobs # <<>> /\ srv.postponed # "2s"

FlushNothing ==
  /\ at = "loop" /\ (srv.buf = <<>> \/ Postpones)
  /\ srv' = IF srv.buf # <<>> /\ srv.postponed = "no" THEN [srv EXCEPT !.postponed = "0s"] ELSE srv
  /\ armed' = output
  /\ UNCHANGED <<conf, hist, replied, output, at, disk, jobs, rdb_child, spent>>

FlushWrite ==
  /\ at = "loop" /\ srv.buf # <<>> /\ ~Postpones
  /\ file' = Write(file, srv.buf)
  /\ srv' = [srv EXCEPT !.buf = <<>>, !.postponed = "no"]
  /\ at' = "written"
  /\ UNCHANGED <<conf, client, shadows, jobs, rdb_child, spent>>

(* Mutant: while a child works, there is never an fsync. *)
FsyncWanted_not_with_child == ~srv.child /\ ~rdb_child

FsyncWanted == ~(conf.no_fsync_on_rewrite /\ (srv.child \/ rdb_child))

(* Every second, the fsync is a job of the background thread. *)
FlushSync ==
  /\ at = "written" /\ at' = "loop"
  /\ IF conf.appendfsync = "always" /\ FsyncWanted
     THEN file' = Synced(file) /\ shadows' = {}
     ELSE UNCHANGED disk
  /\ IF conf.appendfsync = "everysec" /\ srv.second /\ FsyncWanted
     THEN /\ jobs' = IF jobs = <<>> THEN <<"named">> ELSE jobs
          /\ srv' = [srv EXCEPT !.second = FALSE]
     ELSE UNCHANGED <<jobs, srv>>
  /\ armed' = output
  /\ UNCHANGED <<conf, hist, replied, output, rdb_child, spent>>

Off == [srv EXCEPT !.buf = <<>>, !.rwbuf = <<>>, !.child = FALSE, !.snap = Empty]

(* A write that fails or is short ends the server; what it wrote is cut    *)
(* off, if that works.                                                     *)
FlushFails ==
  /\ "write" \in Faults /\ at = "loop" /\ srv.buf # <<>> /\ ~Postpones
  /\ spent.restarts < MaxRestarts
  /\ \/ UNCHANGED file
     \/ \E n \in 0 .. Len(srv.buf) - 1 :
          file' = [Write(file, SubSeq(srv.buf, 1, n)) EXCEPT !.torn = TRUE]
  /\ at' = "down" /\ srv' = Off /\ jobs' = <<>> /\ rdb_child' = FALSE
  /\ UNCHANGED <<conf, client, shadows, spent>>

(* server.unixtime; "second": it is later than aof_last_fsync. *)
Tick ==
  /\ at = "loop" /\ conf.appendfsync = "everysec"
  /\ srv' = [srv EXCEPT !.second = TRUE,
                        !.postponed = CASE @ = "0s" -> "1s" [] @ = "1s" -> "2s" [] OTHER -> @]
  /\ UNCHANGED <<conf, client, at, disk, jobs, rdb_child, spent>>

(* The thread of bio.c; a file that has been replaced is closed. *)
bioProcessBackgroundJobs ==
  /\ at # "down" /\ jobs # <<>>
  /\ jobs' = Tail(jobs)
  /\ IF Head(jobs) = "named" THEN file' = Synced(file) /\ shadows' = {} ELSE UNCHANGED disk
  /\ UNCHANGED <<conf, client, at, srv, rdb_child, spent>>

-----------------------------------------------------------------------------
(* Rewriting.                                                              *)

(* Mutant: the differences need not begin with a SELECT. *)
Forked_keeps_sel == [srv EXCEPT !.child = TRUE, !.snap = Data, !.sched = FALSE]

Forked == [srv EXCEPT !.child = TRUE, !.snap = Data, !.sched = FALSE, !.sel = NoDb]

(* The bound is on the rewritings somebody asks for. *)
Forks == \/ srv.sched /\ UNCHANGED spent
         \/ ~srv.sched /\ spent.forks < MaxForks /\ spent' = [spent EXCEPT !.forks = @ + 1]

(* BGREWRITEAOF, and serverCron if the file has grown or there is one      *)
(* scheduled.                                                              *)
rewriteAppendOnlyFileBackground ==
  /\ at = "loop" /\ ~srv.child /\ ~rdb_child
  /\ Forks /\ srv' = Forked
  /\ UNCHANGED <<conf, client, at, disk, jobs, rdb_child>>

bgrewriteaofCommand ==
  /\ at = "loop" /\ ~srv.child /\ rdb_child /\ ~srv.sched
  /\ spent.forks < MaxForks /\ spent' = [spent EXCEPT !.forks = @ + 1]
  /\ srv' = [srv EXCEPT !.sched = TRUE]
  /\ UNCHANGED <<conf, client, at, disk, jobs, rdb_child>>

(* Mutant: a rewriting that the server waits for is not tried again. *)
Cleanup_no_retry(s) == [s EXCEPT !.child = FALSE, !.snap = Empty, !.rwbuf = <<>>]

Cleanup(s) == [s EXCEPT !.child = FALSE, !.snap = Empty, !.rwbuf = <<>>, !.sched = @ \/ s.state = "wait"]

(* The child fails or is killed, or its file cannot be opened, written or  *)
(* renamed.                                                                *)
RewriteFails ==
  /\ "child" \in Faults /\ at = "loop" /\ srv.child
  /\ srv' = Cleanup(srv)
  /\ UNCHANGED <<conf, client, at, disk, jobs, rdb_child, spent>>

(* backgroundRewriteDoneHandler, as far as the rename.  The child has      *)
(* synced its file, nobody yet what is appended to it.                     *)
RewriteRename ==
  LET rewritten == Synced(Write(NewFile, rewriteAppendOnlyFile(srv.snap)))
      new == Write(rewritten, srv.rwbuf)
  IN /\ at = "loop" /\ srv.child
     /\ file' = IF conf.ordered THEN Synced(new) ELSE new
     /\ shadows' = shadows \cup {file}
     /\ at' = "renamed"
     /\ UNCHANGED <<conf, client, srv, jobs, rdb_child, spent>>

(* Mutant: what is in the buffer is written to the new file, too. *)
Switched_keeps_buf(s) == [s EXCEPT !.fd = "open", !.sel = NoDb]

Switched(s) == [s EXCEPT !.fd = "open", !.sel = NoDb, !.buf = <<>>]

(* ... and behind it. *)
RewriteSwitch ==
  /\ at = "renamed" /\ at' = "loop"
  /\ IF srv.fd = "none"
     THEN srv' = Cleanup(srv) /\ UNCHANGED <<disk, jobs>>
     ELSE /\ srv' = Cleanup([Switched(srv) EXCEPT !.state = IF @ = "wait" THEN "on" ELSE @])
          /\ IF conf.appendfsync = "always" THEN file' = Synced(file) /\ shadows' = {} ELSE UNCHANGED disk
          /\ LET closed == [i \in DOMAIN jobs |-> "closed"]
             IN jobs' = IF conf.appendfsync = "everysec" THEN Append(closed, "named") ELSE closed
  /\ UNCHANGED <<conf, client, rdb_child, spent>>

-----------------------------------------------------------------------------
(* CONFIG SET appendonly.                                                  *)

stopAppendOnly ==
  /\ at = "loop" /\ srv.state # "off"
  /\ file' = Synced(Write(file, srv.buf)) /\ shadows' = {}
  /\ jobs' = [i \in DOMAIN jobs |-> "closed"]
  /\ srv' = [srv EXCEPT !.buf = <<>>, !.rwbuf = <<>>, !.child = FALSE, !.snap = Empty, !.state = "off",
                        !.fd = "none", !.sel = NoDb,
                        !.postponed = IF srv.buf = <<>> THEN @ ELSE "no"]
  /\ UNCHANGED <<conf, client, at, rdb_child, spent>>

(* If there cannot be a rewriting, the descriptor is closed but kept. *)
startAppendOnly ==
  /\ at = "loop" /\ srv.state = "off"
  /\ \/ ~srv.child /\ Forks /\ srv' = [Forked EXCEPT !.state = "wait", !.fd = "open"]
     \/ /\ srv.child \/ "fork" \in Faults
        /\ srv' = [srv EXCEPT !.fd = "stale"] /\ UNCHANGED spent
  /\ UNCHANGED <<conf, client, at, disk, jobs, rdb_child>>

BgsaveStart == /\ at = "loop" /\ ~rdb_child /\ ~srv.child
               /\ rdb_child' = TRUE
               /\ UNCHANGED <<conf, client, at, srv, disk, jobs, spent>>
BgsaveEnd == /\ at = "loop" /\ rdb_child
             /\ rdb_child' = FALSE
             /\ UNCHANGED <<conf, client, at, srv, disk, jobs, spent>>

-----------------------------------------------------------------------------
(* The end of the server, and its restart.                                 *)

Ends == at' = "down" /\ srv' = Off /\ jobs' = <<>> /\ rdb_child' = FALSE

(* SHUTDOWN: the file is synced; what has not been written is not written. *)
prepareForShutdown ==
  /\ at = "loop" /\ spent.restarts < MaxRestarts
  /\ Ends
  /\ IF srv.state # "off" THEN file' = Synced(file) /\ shadows' = {} ELSE UNCHANGED disk
  /\ UNCHANGED <<conf, client, spent>>

Kill == /\ "kill" \in Faults /\ at # "down" /\ spent.restarts < MaxRestarts
        /\ Ends
        /\ UNCHANGED <<conf, client, disk, spent>>

(* Of every file that may have the name, the disk has what was synced and  *)
(* some of the rest, perhaps with a part of one more record.               *)
Power ==
  /\ "power" \in Faults /\ spent.restarts < MaxRestarts
  /\ Ends
  /\ \E f \in shadows \cup {file} : \E k \in f.synced .. Len(f.loads) :
       \E torn \in IF k < Len(f.loads) THEN BOOLEAN ELSE {f.torn} :
         file' = [loads |-> SubSeq(f.loads, 1, k), torn |-> torn, synced |-> k]
  /\ shadows' = {}
  /\ UNCHANGED <<conf, client, spent>>

(* The kernel writes the directory. *)
DirectorySync == /\ shadows # {} /\ shadows' = {}
                 /\ UNCHANGED <<conf, client, at, srv, file, jobs, rdb_child, spent>>

(* redis-check-aof --fix, after a start that has failed. *)
CheckAof == /\ at = "down" /\ ~Loads(file)
            /\ file' = Fixed(file)
            /\ UNCHANGED <<conf, client, at, srv, shadows, jobs, rdb_child, spent>>

(* main, loadAppendOnlyFile.  What is not in the file has never happened. *)
Restart ==
  /\ at = "down" /\ Loads(file)
  /\ hist' = SubSeq(hist, 1, Restored)
  /\ replied' = Min({replied, Restored}) /\ output' = FALSE /\ armed' = FALSE
  /\ srv' = Started(Empty) /\ at' = "loop"
  /\ spent' = [spent EXCEPT !.restarts = @ + 1]
  /\ UNCHANGED <<conf, disk, jobs, rdb_child>>

Next ==
  \/ Execute \/ Reply \/ FlushNothing \/ FlushWrite \/ FlushSync \/ FlushFails \/ Tick
  \/ bioProcessBackgroundJobs \/ rewriteAppendOnlyFileBackground \/ bgrewriteaofCommand
  \/ RewriteFails \/ RewriteRename \/ RewriteSwitch \/ stopAppendOnly \/ startAppendOnly
  \/ BgsaveStart \/ BgsaveEnd \/ prepareForShutdown \/ Kill \/ Power \/ DirectorySync
  \/ CheckAof \/ Restart

(* The event loop goes round and time passes; the disk may be busy for as  *)
(* long as it likes, and children may, too.  The weak fairness of the main *)
(* thread's steps is stated by their guards.                               *)
FlushDue == at = "loop" /\ srv.buf # <<>> /\ (Postpones => srv.postponed = "no")
Fairness == []<>(at \in {"loop", "down"}) /\ []<>~FlushDue /\ WF_vars(Tick)

Spec == Init /\ [][Next]_vars /\ Fairness

-----------------------------------------------------------------------------

(* Whatever is in the file, and whatever a crash leaves of it, is the      *)
(* database after a number of modifications, transactions as a whole:      *)
(* never one twice, in the wrong database, or missing before another.      *)
FileIsPastState == PastStates(file, Len(file.loads)) # {}

(* The append-only file is a log, for every configuration: see AppendLog.  *)
(* A file system that does not order a rename behind the data it is about  *)
(* can take back what was durable in the file before the rewriting.        *)
Log == INSTANCE AppendLog WITH
  Modifications <- [Dbs -> 0 .. 2 * MaxModifications], log <- hist, durable <- IF conf.ordered THEN Durable ELSE 0
LogSpec == Log!Spec

Promised == at # "down" /\ srv.state = "on"

(* A modification that has been answered survives the end of the process,  *)
(* unless the buffer waits for an fsync in the background; and, if there   *)
(* is an fsync after every write, it survives a power failure: no rewrite, *)
(* no failure of one and no switching off and on in between breaks this.   *)
RepliesSurvive ==
  Promised =>
    /\ srv.postponed = "no" => replied <= Restored
    /\ conf.appendfsync = "always" /\ ~conf.no_fsync_on_rewrite /\ conf.ordered => replied <= Durable

(* A server that is to have an append-only file, and has none yet, is      *)
(* rewriting it or will, also after a rewriting has failed.                *)
WaitingIsRewriting == srv.state = "wait" /\ at # "down" => srv.child \/ srv.sched

(* The buffer is written to the file at the latest two seconds after it    *)
(* should have been, even if an fsync in the background never ends.        *)
BufferIsWritten == srv.buf # <<>> ~> srv.buf = <<>>
=============================================================================
