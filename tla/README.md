# coffee-table in TLA+

coffee-table is a text editor in a web page: a subset of Vim in the browser
(`assets/js/app.coffee`), a node server that loads and saves the files
(`src/edit.coffee`), and a Redis server kept in the repository and started
beside it as its database (`redis/`, `Cakefile:63-94`, `src/persist.coffee`).
This directory models the parts in which its own state changes, checks them
with TLC on small instances and proves the safety properties that matter most
with TLAPS.

## Inventory

| Part | State | Operations | What makes it correct |
|---|---|---|---|
| Editor, `app.coffee:55-440` | cursor, buffer, mode, repeat number | one handler for all keys: movements, insertions, deletions, mode changes | edits change what they should and no other line; the cursor does not wander off; whatever is on the screen has been handed to `save` |
| Exec window, `app.coffee:225-231,442-469` | shown or hidden, focus; shares the editor's state | open, `:<number>`, anything else, `<ESC>` | goes to a line of the buffer; never has the keys while hidden |
| Autosave, `app.coffee:392-396`, `underscore.js:554-566` | one timer and its argument | key, timeout | no edit is forgotten |
| GET and POST handlers, `src/edit.coffee:16-53` | none but what the callbacks close over, and the file | `stat`, `readdir`, `readFile`; `writeFile` | the file is the last text saved; a page shows the file |
| Redis key space, `redis/src/db.c` | two dictionaries per database: keys, expire times | SET, DEL, EXPIRE, PERSIST, RENAME, MOVE, FLUSH*, lookups that expire | an expire time belongs to a key; every modification is reported and propagated |
| Redis transactions, `redis/src/multi.c` | per client: queue, two flags, watched keys; per key: watchers | MULTI, EXEC, DISCARD, WATCH, UNWATCH, end of the connection | check-and-set: EXEC does nothing if a watched key was changed; both lists agree |
| Redis replication, `redis/src/replication.c` | per slave: state of the synchronisation, selected database, output buffer; the dump file and the child that writes it; in a slave: the state of its link, the sockets, the file received so far | feed; SYNC, the end of a BGSAVE, the transfer; SLAVEOF, connect, handshake, transfer, time-outs | the slave has the master's data; a transaction arrives as a whole; nobody waits in vain; a lost link is made again |
| Redis persistence, `redis/src/aof.c`, `bio.c`, `rdb.c` | buffer, file, difference buffer, rewrite child, fsync jobs; what the disk has of it | append, flush, fsync, rewrite, switch on and off, SHUTDOWN, crash, check, load; save and load of each value | what a crash leaves is a state there was; what was acknowledged survives as the policy says; a loaded value is the one saved |
| Value types, `t_string.c`, `t_hash.c`, `t_list.c`, `t_set.c`, `t_zset.c`, `bitops.c` | a value in one of two encodings | some ninety commands | a command does the same in both encodings, reports and propagates what it changed |
| Structures, `intset.c`, `ziplist.c`, `t_zset.c` (skip list), `dict.c` | memory, lengths, offsets, spans, two tables | insert, delete, search, upgrade, cascade, rehash, iterate | they are the set, sequence and function that the types take them for |
| Blocking lists, `t_list.c` | who waits for which keys; clients served in this round | BLPOP, BRPOPLPUSH, pushes, time-outs, end of a client | no element is lost or given twice; the lists of waiting clients agree |
| Publish/subscribe and output, `pubsub.c`, `networking.c` | subscriptions on both sides; buffer and list of each client | subscribe, publish, partial writes, limits, deferred closing | messages arrive whole and in order, once; no freed client is in a list |
| Input, `networking.c` | query buffer, request being read | read, parse, block, close | the requests sent are executed, however they are cut |

How they interact: a command of any type runs inside `call` (`redis.c`), which
propagates it to the append-only file and to the slaves; its keys are reported
to the watching clients of `multi.c`; a push may serve clients blocked in
`t_list.c`; a reply goes to the output buffers of `networking.c`; the event loop
(`ae.c`) calls `beforeSleep`, which serves the input of unblocked clients and
flushes the append-only file, and `serverCron`, which collects children and does
the replication's time-outs; `bio.c` is the only other thread.

The hard behaviours are these. In the browser: long sequences of legal keys that
leave the cursor outside the buffer; handlers that throw halfway; a timer that
is replaced while posts are in flight.  Between browser and server: posts that
overlap, are lost, or meet a restart, on a file that is truncated, written in
pieces and read at any moment.  In Redis: commands of several clients between
WATCH and EXEC, keys that expire or are evicted at any moment, inside a
transaction too, and a stream to the slave that has to carry all of that in
order and in the right database; and slaves that get in sync while the data
changes, one joining the save that was begun for another, with a child process
that may fail, be killed, or not be started; a slave whose master falls silent,
or is replaced by SLAVEOF, in any phase of the transfer; a file that is written,
synced and rewritten by three parties while the power may fail between any two
calls; clients served through a chain of other blocked clients; tables and
blocks of memory that are rearranged while they are used.  `hazards` in PROJECT.json lists them by line.

## Modules

| Module | Models | Checked by |
|---|---|---|
| `Editor` | the editor and the exec window | `MCEditor` |
| `Autosave` | the page's timer, the network, both handlers, the file | `MCAutosave`, three configurations |
| `RedisDb` | the key space: each command as an operator from a store to a store | through `RedisMulti` |
| `RedisMulti` | clients, transactions, clock, eviction, the slave's feed, around `RedisDb` | `MCRedis`, two configurations |
| `RedisSync` | the master's side of SYNC, with SAVE, BGSAVE and FLUSHALL | `MCRedisSync`, two configurations |
| `RedisSlave` | the slave's side of replication | `MCRedisServer` |
| `RedisAof`, `AppendLog` | the append-only file with bio's thread; the log it implements | `MCRedisAof`, two configurations |
| `RedisTypes`, `RedisString`, `RedisHash`, `RedisList`, `RedisSet`, `RedisZset` | the value types, their encodings, and their form in files | `MCRedisData` |
| `Intset`, `Ziplist`, `Skiplist` | the structures behind them, down to offsets and spans | `MCRedisData` |
| `Dict` | the hash table with incremental rehashing and safe iterators | `MCRedisServer` |
| `RedisBlocking` | blocked list clients and the rounds of the event loop | `MCRedisServer` |
| `RedisPubsub` | subscriptions, messages, output buffers and their limits | `MCRedisServer` |
| `RedisProtocol` | the query buffer and the parser of requests | `MCRedisServer` |
| `EditorProof`, `AutosaveProof`, `RedisMultiProof`, `RedisSyncProof`, `RedisSlaveProof`, `RedisAofProof`, `RedisBlockingProof` | theorems about seven specifications | TLAPS |
| `FoldFacts` | induction and folds, for the proofs | TLAPS |

`RedisMulti` composes `RedisDb` with clients, clock and slave.  `RedisSync` has
the same feed for several slaves that are not in sync yet, and abstracts the
commands, which `RedisMulti` has in full, to increments.  `RedisZset` and
`RedisSet` take a skip list for a sorted sequence and an intset for a set, which
`Skiplist` and `Intset` show them to be.  `MCRedisData` and `MCRedisServer`
instantiate several components that do not share state, one in each behaviour
(`kind`), so that one run asks the same question of all of them.

### Editor

`state` is the source's state record.  Lines and columns count from 0 and a line
is a sequence of characters.  Each function of the source is an operator of the
same name from a state to a state (or, for a movement, to a cursor), and
JavaScript's slices and splices are modelled with their clamping and their
negative indices, since what the keys do at the ends of the text depends on
them.  Where the source
would read a property of `undefined`, a `...Throws` predicate says so, and the
action has a second case, `Fails`: the repeat number is already reset, nothing
else changes, nothing is saved.  `action_of_key` is the table that
`register_command` builds, looked up as in the source; an action of the
specification is one group of keys bound to the same function.  `saved` is the
buffer last handed to `save`.

Left out: rendering, scrolling (except that `scroll_to_cursor` throws when no
cursor was rendered, which keeps the exec window open), and the translation of
browser events into key names.

### Autosave

A page goes through `stat`, `readdir` and `read` to `editor`; from then on
`Key` replaces buffer and timer, and `save` posts.  `fs.writeFile` is the
sequence the file system sees: open with truncation, writes that may be short,
close.  Calls of several posts interleave.  `Faults` switches on crashes (and
the supervisor's restarts), lost posts, I/O errors, and programs that remove the
file or put a directory in its place.  `sent` and `clean` are history
variables: `clean` holds the text of a save that was posted with no other in
flight and has met no fault.  Carriage returns and the newline after `<pre>` are
modelled because the HTML parser changes them on the way in (`Parsed`); what it
makes of line ends is a fold over the characters (`Normalised`).  A page
whose server is down when it is opened is not distinguished from a closed one.

### RedisDb and RedisMulti

A key is a pair of a database and a name.  A command takes a store (both
dictionaries, and what the command has signalled and sent so far) to a store.
Time is abstracted to whether an expire time is ahead or has gone by, which is
all the code compares; `Clock` may move any key past its time between any two
commands, and between two queued commands of an EXEC.  EXEC is therefore several
steps (`ExecStart`, `ExecStep`, `ExecEnd`), during which no other client is
served.  The propagation of a command, with the DELs of the keys it found
expired and the SELECTs that the feed inserts, goes to `slave`, which executes
it as `processCommand` would, in a transaction of its own between MULTI and
EXEC.  The feed is in order and without loss: it is one TCP connection to a
slave in sync.  `stale` is a history variable: a command that signals its
modifications has changed a key the client watches.  The value types are
abstracted to opaque values, so SET stands for every command that writes
through `setKey`.

### RedisSync

A slave's connection goes from `none` through `wait_start` (WAIT_BGSAVE_START),
`wait_end` and `send_bulk` to `online`, and back to `none` when it is freed.
The data is a counter per database and a modification an increment, so that one
that is lost, made twice or made in the wrong database shows.  `reply` is the
output buffer: filled from `wait_end` on, drained when the slave is online.
`rdb` is the dump file, which the child replaces by a rename at its end, SAVE
and FLUSHALL at once.  `replica` is what a slave that keeps to the protocol has
made of what it was sent, its selected database included.

The child ends with success, with an error, or by a signal.  A signal leaves an
exit code of 0 (`redis.c:910`), which `backgroundSaveDoneHandler` passes on as
success, so `updateSlavesWaitingBgsave(child = "failed")` is what the code does.
`spoiled` is a history variable that marks a slave to which one of three things
happened: it copied a buffer in which another database than 0 was selected, the
child it waited for was killed by someone other than FLUSHALL, or the BGSAVE it
was promised could not be forked.  Each makes a slave differ from its master;
`SlaveWillAgree` says that nothing else does.

### RedisSlave

`rep` holds the `repl_` fields of the server and the table of sockets.  A
descriptor has an entry in the event loop (`handler`) that is separate from its
being open, as in `ae.c`: closing one without `aeDeleteFileEvent` leaves the
entry, and descriptors are used again.  Masters are external; they send a
header, `Chunks` pieces and then commands, or fall silent (`Hang`).  Which master
a piece came from is part of the data, so that a mixture shows.  `hasty` is a
history variable: SLAVEOF came while a connection was in progress, in which case
`slaveofCommand` (`replication.c:603-628`) leaves the old socket and its handler
as they are; the properties are stated for the other histories.

### RedisAof and AppendLog

`srv` holds the `aof_` fields, `file` what has been written, synced and may be
lost, `jobs` the queue of bio's thread, `hist` the database after each
modification.  There are `dbnum` databases, with one counter each; a modification
is an INCR, or a transaction of two.  The main thread is at one of a few places (`at`), between which
the process may be killed or the power fail: `FlushWrite` and `FlushSync` are
two steps, as are `RewriteRename` and `RewriteSwitch`.  After a power failure
the disk has what was synced and any part of the rest, perhaps half a record,
which `redis-check-aof` cuts off; before the directory is synced the name may
stand for the old file (`shadows`).  `ordered` says whether the file system puts
a rename behind the data it is about.  `AppendLog` is the abstract
specification: modifications are appended, a growing part is durable, and
recovery gives a prefix that has all of the durable part.  The refinement maps
the log to `hist` and the durable part to `Durable`, the least that any failure
would leave (for a file system without that order, 0).

### Value types

Each module has one operator per command from a database to an outcome: the new
database, the reply, the keys signalled, `dirty`, and what is propagated.  Every
branch on an encoding is kept, with the conversions where the code does them.
`Promised` states for each command what it does to a set, function or sequence
and what it replies, without encodings.  Commands that choose at random give a
set of outcomes.  Strings are bytes of four bits and numerals of base 4, so that
the bounds of a long long, BITOP's word-wise loop and the parsers' corner cases
are within reach; doubles are integers with infinities and a NaN.  The last section of
each module is the value in the dump file (`rdbSaveObject`, `rdbLoadObject`,
loaded by a server with any limit) and in the rewritten append-only file.

`Intset` has memory in units and the in-place upgrade; `Ziplist` the lengths of
previous entries, the cascade when one grows past the limit of the short form,
and the bytes that an insertion loses when it cuts the block too early (see
Findings): a last value that loses bytes is `Garbled`, and once header bytes are
lost the block is `damaged` and nothing more is done with it; `Skiplist` the levels, spans and backward pointers.

### Dict

Both tables with their chains, `rehashidx`, the resize policy and one safe
iterator whose user adds, finds and deletes meanwhile.  Hash values are the keys
themselves; with tables of two buckets two of three keys share a chain.

### RedisBlocking

A client is blocked on several keys with a target or not.  The recursion of
`handleClientsWaitingListPush` and `rpoplpushHandlePush` is a fold of steps
(`HandOver`), at most one per client.  A round of the event loop serves sockets
(`events`), then `before_sleep` serves the input of the clients on
`unblocked_clients`, one per step.  `live` is a history variable, the elements
that are somewhere; `slave` is what the propagated commands make.

### RedisPubsub and RedisProtocol

A piece of output is the unit of all sizes.  `due` is what a client has still to
get; a write takes any number of pieces.  Limits close a client later, through
`clients_to_close`.  In `RedisProtocol` the input is a sequence of bytes that
arrives in pieces of any length up to `REDIS_IOBUF_LEN`; `executed` is compared
with what was sent.

## Runs

`editor` - all key sequences over files of up to 3 lines of up to 2 characters,
repeat numbers up to 2, starting from an empty file and from one of three
lines; one letter, and one named key that insert mode inserts as text.  Three
lines are the least with a line before, at and after the cursor's, and two
characters the least with one on each side of it.  Checked:
the type; `CursorNearBuffer`; `SaveSeesEveryEdit`; `NumericRepeat`;
`FaultsNeedStrayCursor` (a handler throws only after the cursor has left the
buffer); `TypingIsUndone` (`<BS>` takes back what was typed);
`GotoLandsInBuffer` (and the exec window is closed);
`CursorStraysOnlyByDeletion`; `DeletesAroundCursor` (whole lines, or a stretch
of the line no longer than the repeat number, or one character longer when the
cursor is behind the last one); `InsertModeIsLocal` (what `<BS>` does at the
start of the file included).

`autosave_faults` - one page, two posts in flight, all faults, a first file
with a carriage return, texts of length 0 to 2 one of which begins with a
newline.  `EditIsSentOrPending`; `CleanSaveIsOnDisk`; `CleanLoadShowsLastSave`.
Two posts are enough for every pair of their calls to interleave.

`autosave_fair` - the same page without faults and with fairness:
`EventuallyOnDisk`.  Fairness is weak, on the timer (`setTimeout` fires), on the
GET handler's callbacks, on the posts taken together (node runs the callbacks of
requests it has accepted; nothing orders two posts), and on the restart.  There
is none on the user: the property assumes that typing stops.

`autosave_mix` - violation of `SavesDoNotMix`; see Findings.

`redis_watch` - two clients, one key in two databases, transactions of one
command, eviction of any key: `WatchListsAgree`, `DirtyOnlyIfWatching`,
`ExecOnlyIfUnchanged`.  Numbers of databases that do
not exist are among the inputs.  Two clients are one that watches and one that
interferes; symmetry in the clients is sound because the properties are.

`redis_transaction` - one client, two keys in two databases, transactions of two
commands, eviction of volatile keys: `ExpiresHaveKeys`, `StaleIsDirty`,
`SlaveAgrees`, `SlaveSeesNoHalfTransaction`.  Two queued commands are the least
between which the clock can move.

`redis_sync` - two slaves, two databases, one increment of each between
flushes, output buffers of two commands (a SELECT and a modification), the file
in two pieces, and all three faults: `SlavesAreListed`, `SlaveWillAgree`,
`WaitersHaveChild`, `SyncEnds`.  Two slaves are the least of which one can join
the other's BGSAVE, or wait for the next one while the other is served.
Fairness is weak: on the end of the child (it writes a finite file), on
`serverCron`, which looks for ended children ten times a second, and on the
transfer to each slave whose connection is writable.  There is none on clients,
on SYNC, and on the delivery of buffers.

`redis_sync_copy` - violation, without faults; see Findings.

`redis_aof` - two databases, an INCR and a transaction over both, two
modifications, one rewrite asked for, one restart; the policies always and
everysec, with and without `no-appendfsync-on-rewrite`, on file systems with and
without order; all faults but a failing rename.  `FileIsPastState`,
`RepliesSurvive`, `WaitingIsRewriting`, the refinement `LogSpec`, and
`BufferIsWritten`.  Two modifications are one before and one during a rewrite,
and need a SELECT and a MULTI in the file.  Fairness: the main thread comes back
to its loop and flushes when it should, and time passes; there is none on the
thread of `bio.c`, on the disk and on the children.

`redis_aof_pipeline` - violation; see Findings.

`redis_data` - the five value types with two keys (one for hashes), limits of
two entries, so that every command meets both encodings and the conversion
between them; lists of up to four elements in all, sorted sets of three, strings
of two bytes; an intset of four numbers in all three encodings, a skip list of
three nodes and three levels, a ziplist of up to five entries of three sizes.
`CommandsAgree`, `ChangesAreSignalled`, `SlavesAgree` (propagated commands, dump
file and rewritten file make the same values), `EncodingsAreSound`,
`FunctionsAgree`.  Of a ziplist `EncodingsAreSound` says that size, tail, prevlens
and length are right, also when an insertion has lost bytes of the last value;
it exempts a ziplist of which header bytes were lost, and does not say that
values survive.

`redis_server` - `Dict` with three keys in tables of 2 and 4 buckets; two
blocked clients, two keys, a BLPOP of both and a BRPOPLPUSH each way; a slave
with two masters, two pieces of data, three SLAVEOFs and one fault; two
subscribers to a channel and a pattern with buffers of one and two pieces; three
requests of seven kinds cut anywhere.  `StructuresAgree`, `NothingIsLost`,
`CopiesAgree`, `AbortsNeedLoop`, `SlaveReconnects`.  Two clients are the least
chain and the least loop of BRPOPLPUSH.  Fairness is weak, on the slave's event
loop: its timer fires, sockets that are ready are served, and an ended process
is started again; the fault is not repeated, and SLAVEOF comes finitely often.

Deadlock is checked in every run: the server and the editor can always take a
step.

## Findings

Shown by a run:

1. `autosave_mix`: overlapping saves of one page leave a mixture on the disk
   (`edit.coffee:47`), where `ideas.md:2` plans a lock per file.
2. `redis_sync_copy`: a slave that joins a BGSAVE in progress is given another
   slave's output buffer but `slaveseldb = 0` (`replication.c:122,143`): if the
   buffer selects a database, later modifications of database 0 go to that one,
   and the slave is not the copy that `redis.conf:141` promises.
3. `redis_aof_pipeline`: `aof.c:184` says that replies leave after the file was
   written.  `aeProcessEvents` calls the write handler of a socket right after
   its read handler (`ae.c:347-363`), so a client that pipelines gets a reply
   before the flush.

Seen in the code, and modelled:

4. `__ziplistInsert` (`ziplist.c:588-595`) resizes the block to its new size before
   it moves the entries behind the new one.  When the new size is the smaller one,
   the end of the last entry is cut off first, and `ziplistResize` writes the end
   mark over it.  That happens when an entry of two or three bytes is inserted in
   front of one whose prevlen field has five bytes although the entry before is
   short: four bytes are gained and fewer are needed.  Such fields are left by
   the cascade, which does not shrink them ("the field is allowed to stay larger
   than necessary", `ziplist.c:418-423`, taken for harmless there).  A field of
   five bytes needs an entry of about 250 bytes in front of it, so that the limits
   on the length of values (`list-max-ziplist-value` and its like, 64 by default)
   must have been raised.  The last value loses one or two bytes, or, if it is
   shorter than that, its header does.  `Ziplist` does the same; there is no run
   of its own for it.

Exceptions that the properties state, because the code is so:

- A ziplist whose last entry has lost header bytes (4 above) is exempt from
  `EncodingsAreSound`.
- `dh` with the cursor behind the end of its line removes one character
  more than the repeat number (`app.coffee:239`): `DeletesAroundCursor` allows it
  there.
- ZUNIONSTORE and ZINTERSTORE turn an infinite score times the weight 0 into 0
  when it is the first of an element's scores (`t_zset.c:1555,1599`), and pass it
  over with MIN and MAX when it is a later one; which one is first depends on the
  sizes of the inputs.  With the weight 0 for one input only the result therefore
  depends on the sizes; the instance has it for both inputs, where it does not.
- In insert mode `normalize_cursor` lets the line be one past the end of the
  buffer, against its comment (`app.coffee:57`); after `cG` the next key throws.
- `<BS>` at the start of a file replaces the last line by the first
  (`app.coffee:193`: the slice starts at -1), and saves the result.
- MOVE and PERSIST modify keys without `signalModifiedKey`, against the comment
  at `db.c:162`: a transaction that watches the key goes through.  So does one
  whose key was evicted (`redis.c:2297`).  RPOPLPUSH
  does not signal a destination that it creates (`t_list.c:672`).
- A client that is served, blocks again and is freed within one round of the
  event loop stays on `unblocked_clients` (`t_list.c:836`), and an element
  passed round a loop of BRPOPLPUSH makes `dbAdd` fail (`t_list.c:283`):
  `AbortsNeedLoop` says that nothing else ends the server.
- The limit on one line of a request is compared with the whole buffer
  (`networking.c:864`), so a client that sent more than that while it was
  blocked can be refused: `RequestsAreExecuted` allows it only then.
- SLAVEOF during a connect (`replication.c:625`) leaves the old connection:
  `hasty` in `RedisSlave`.
- The rewrite of the append-only file writes the value of a key that has expired
  and leaves out its expire time, against its comment (`aof.c:877`); no module
  has both, so this is not part of a run.

`SlaveWillAgree` is `SlaveIsCopy` with its exceptions stated, and holds.  The two other
exceptions of `SlaveWillAgree` are seen in the code in the same way: slaves are
sent an old file when the child was killed (`rdb.c:1164`), and slaves whose
BGSAVE could not be forked are looked for in a state they have just left
(`replication.c:258,292`), so that they are neither served nor freed until some
other BGSAVE ends, whose file already has what they collected.

## Proofs

The proofs hold for every value of the constants that satisfies the named
assumptions; the bounds (`MaxLines`, `MaxQueue`, ...) are arbitrary numbers there.

`EditorProof` (`EditorAssumption`: named keys insert non-empty text, a page is
opened with at least one line): all ten properties of the run.  The invariant
`Inv` is the conjunction of `TypeOK`, `CursorNearBuffer`, `SaveSeesEveryEdit`,
`NumericRepeat` and `FocusedWindowIsShown`; each needs others.  That the line
stays within one of the buffer depends on the type (columns are natural numbers)
and on the repeat number being one; that splices produce texts depends on the
line being near the buffer.  The lemmas go from slices and splices, through one
lemma for each editing function (`...Good`: it takes a good state to a good
state), to one step per action.  `FaultsNeedStrayCursor` and `TypingIsUndone`
follow from the invariant; for the second, a splice followed by its inverse is
compared line by line.  The four action properties are one lemma per kind of key
about what it does to the cursor and the lines.

`AutosaveProof` (`AutosaveAssumption`): `EditIsSentOrPending` with the fact that
only an open page has a timer, page by page; `TypeOK`; and the two properties of
a clean save.  Their invariant is `CleanInv`: while `clean` holds there is at
most one post, and once it has begun to write, the file is exactly what it has
written so far.  `LoadShowsLastSave` uses in addition that a text without
carriage returns, as every posted text is, passes the parser unchanged but for
one newline at its start, which is an induction over the text.

`RedisMultiProof` (`RedisDbAssumption`, `RedisMultiAssumption`).  `Inv` is
`DataInv` (types of the key space, `ExpiresHaveKeys`), `SessionInv`, `WatchInv`
(`WatchListsAgree`, `DirtyOnlyIfWatching`, `StaleIsDirty`) and
`RunningWatchesNothing`.  The last is what makes it inductive: `ExecEnd` clears
the flag without looking, which would break `StaleIsDirty` if the running client
could watch anything.  The core is one lemma per command, `...Signals`: every
place whose value or expire time changed is among those it signals, unless an
expired key was removed.  `CheckAndSet` is the action property, from
`StaleIsDirty` and the guard of `ExecStart`.

The second half of `RedisMultiProof` is about the slave: `SlaveAgrees` and
`SlaveSeesNoHalfTransaction`.  A command looks up at most two keys, each of which
may have to be deleted because it has expired, and then works on what it has
found (`Reached`).  For each command, `Mirrors` says that a slave with that data
which executes what the command sends gets the data the command leaves; what
differs between the two is that a slave deletes nothing on its own account and
that EXPIRE with a time gone by is sent as a DEL.  The invariant `SlaveInv` is
about the slave as it will be when its queue has been executed (`View`): this
has the master's data at every moment, inside EXEC too, and the database the
master thinks it has selected.  That it has a queue only during EXEC makes it
`SlaveAgrees`.

`RedisSyncProof` (`RedisSyncAssumption`).  `WaitersHaveChild` with the types of
the states and flags: the one step that can take the child away is
`backgroundSaveDoneHandler`; after it only those wait for whom a new child was
forked, or who are marked.  `SlavesAreListed` needs that the fold which removes
slaves from the list keeps the others in it once each.  For `SlaveWillAgree` the
invariant says it of every phase (`Agreeing`): whatever data a slave will start
from (what the child was forked with, the file, what is being sent, what it has;
any data at all if FLUSHALL killed the child, since its buffer then has the
flush), its buffer makes the master's data of it, in the database the master
thinks; and before the BGSAVE nothing is collected (`Idle`).

`RedisSlaveProof` (`SlaveAssumption`, a hypothesis of the theorems: there is at
least one piece of data, and `None` is no host; `MCRedisServer`'s values satisfy
it): `SlaveFollowsHost` and `SubslavesHaveOurData`, the slave's part of
`CopiesAgree`, under `Init /\ [][Next]_rep`.  The properties say which socket is
watched, and not enough to be kept by a step.  `Good` adds, for each
state of the link, the whole table of sockets: none, or one with the handler that
this state has, and everything else free; in a transfer also that the file has
the first n pieces of that host's data, that `repl_transfer_left` is `Chunks - n`
and the socket at piece n + 1, so that the file is complete exactly when nothing
is left, and there is no slave of this slave before the link is up.
The invariant is that the server is `Good`, has ended in an exit of the code
(`Fine`), or `hasty`; SLAVEOF during a connect is the only step from `Good` to
`hasty`, and a restart leads back to `Good`.  `Keeps` is what every operation does
even to a hasty server, `Safe` adds that it leaves a good one good or ended.

`RedisAofProof` (`DbAssumption`, `CommandAssumption`, `ConfigAssumption`,
`PipeliningAssumption`, `BoundsAssumption`): `FileIsPastState`,
`WaitingIsRewriting`, the refinement of `AppendLog` and `RepliesSurvive`.  `Inv`
says that

- the file has only prefixes that load to something in `hist`, and so has any
  file that the directory may still name, which has nothing that the file has not;
- the file followed by the buffer has everything, with no transaction open and
  the database selected that `aof_selected_db` says (`FileOK`);
- what the rewriting child writes, followed by the difference buffer, has
  everything as well, and the file has nothing beyond it (`ChildOK`).  This is what makes the
  switch of files safe, and it holds whichever of append, flush, fork and switch
  comes first.

The modifications only grow (`Ordered`), so that "has as much as" is a comparison of
data, by which a file's index in the history is defined.  The refinement shows
that every step appends to the log, makes more of it durable, or leaves both
alone, and that a crash keeps a prefix with the durable part.
`RepliesSurvive` needs besides how far answers, writes and syncs have come at
each place of the loop (`Answered`).  It is proved for `~Pipelining`, since with
pipelining it is false (finding 3); that is also how the passing run states it.

`RedisBlockingProof` (`BlockingAssumption`, a hypothesis of the theorems: finitely
many clients, `None` is no key, a request has at least one key and a BRPOPLPUSH
exactly one; `MCRedisServer`'s values satisfy it): the blocking parts of
`StructuresAgree`, `NothingIsLost` and `CopiesAgree`, and the step of
`AbortsNeedLoop`, under `Init /\ [][Next]_srv`.  The invariant `ServerSound` has

- the types, among them that what is queued and propagated is well formed;
- `QueuesSound`: a client is in the queue of a key as often as the key is in its
  request (a key may be named twice), which is kept by counting: an append adds
  one, `RemoveFirst` takes one away;
- `PendingSound`: a client on `unblocked_clients` is marked `UNBLOCKED` or has
  blocked again, and only the latter can be on it twice;
- `WaitersSound`: a key with a list has no queue, unless RENAME put it there;
- `Stored`: each element of `live` is at one place of one list;
- `slave = dict`.

The core is the hand-over of an element.  In the middle of a push the element is
in no list, some clients have been served, and the propagation is pending, so
none of the last three holds of the server as it is; the lemmas say what a step
of `HandOver` does to a server that is `ServerSound` but for the element in hand,
and that each step serves a client that was blocked before, so that after as many
steps as there are clients the element has been stored or popped.  What is
propagated (a push of the elements that stayed, and one for each element that
ended in the list of a target) is replayed step by step beside it.  For `AbortsComeFromLoops`, the keys to
which the element has been handed so far are in every set of keys that is closed
under `Serves`; dbAdd fails only if the element comes back to the key of the push
itself, which is therefore in all of them, and that is `Loop`.

`FoldFacts`: the library's induction theorems take an operator, which the
provers do not instantiate.  They are replaced by sets: a set of natural numbers
has a least element (`LeastNat`, from the well-foundedness of `<`), so a set with
0 and closed under + 1 is everything.  A fold with an operator is shown equal to a
recursive function (`Result`) of the same step as a function, for which the facts
(empty sequence, last element, invariance) are proved once.

Only model-checked: `EventuallyOnDisk`, `SyncEnds`, `BufferIsWritten` and
`SlaveReconnects` (liveness under fairness); the properties of `redis_data`
(`CommandsAgree`, `ChangesAreSignalled`, `SlavesAgree`, `EncodingsAreSound`,
`FunctionsAgree`), whose modules recurse over data; and the safety properties of
`redis_server` (`StructuresAgree`, `NothingIsLost`, `CopiesAgree`,
`AbortsNeedLoop`) as stated there, over five components one of which is chosen at
the start; of their conjuncts those about blocking lists and about the slave's
link are proved, those about `Dict`, `RedisPubsub` and `RedisProtocol` are not.

## Not modelled

`make_absolute`, `routes`, `square`, `index`, the Cakefile and the views' layout
have no state; `persist` is not used by the server yet.  Two pages on one file
are possible in `Autosave` (`Tabs`) and proved about, but the runs use one: the
code makes no promise between pages.  Repeat numbers that overflow to `Infinity`
are beyond TLC.

In Redis: Lua scripting (its behaviour is the interpreter's); SORT, KEYS,
RANDOMKEY, INFO, CONFIG, MONITOR, the slow log and DEBUG, which read data or set
options; `sds`, `adlist`, `zipmap`, the LZF compression and the formats of
doubles, which are byte layouts; the loop of `rdbLoad` and `loadAppendOnlyFile`
over the file beyond what `RedisSync` and `RedisAof` have of it; the tools.

## Plan

Done: every module above with its runs, and the safety properties of `Editor`,
`Autosave`, `RedisMulti`, `RedisSync`, `RedisSlave`, `RedisAof` and
`RedisBlocking` proved.  What is left is `RedisPubsub`, whose two directions of
subscriptions have to agree by an invariant of the same kind as
`WatchListsAgree`, and `Dict`.
