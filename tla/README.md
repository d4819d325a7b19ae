# Verification of PixelWarRemake

TLA+ models of the pixel-map server (`src/src`, C++20) and of the page that
follows it (`src/public/app.js`), the TLC runs that check them on small
instances, and proofs about the map and its replies, the page, the handlers with
their files and crashes, the accounts, the guards of logins and sessions, and the
connections, that hold for every instance.
`PROJECT.json` lists the components, the runs, the source lines behind every
definition, the mutants each property rejects, the hazards and the theorems.

## 1. The system

One process serves a shared map of pixels over HTTP. An accept loop hands each
connection to a thread pool; a handler runs from request to reply on one
thread. A scheduler thread makes an hourly backup. Everything is in memory,
behind one lock per component, and is rewritten to plain files in `data/` after
each change.

| Component | State | Operations that change it | Properties that make it correct |
|---|---|---|---|
| `PixelMap` | pixels, sequence number, log of the last 100000 changes, cached run-length encoding with a dirty flag; a `shared_mutex` | `setPixel`, `reset`, `loadBinary`, `toJson` (cache), `saveBinary`/`saveBmp` (files) | a reply brings a browser to the current map; the cache is never stale; a file loads to the map saved or is refused |
| handlers of `ApiController` | none of their own, the order of their calls | `/pixel`, `/admin/map/reset`, `/admin/backups/create`, `/rollback` | what was answered is on disk; nothing is overwritten before it is saved |
| `MapBackup` | `backups/<id>.pwm`, `.bmp`, `.meta` | create, restore, hourly thread | a listed backup is whole and stays what it was |
| `PixelHistory`, `AuditLog` | last entries in memory, append-only file | `append`, `load` | order, bound, agreement of memory and file |
| `UserStore` | accounts by id with two indexes, next id, `users.db`, `email_outbox.txt` | `registerUser`, `verifyEmailToken`, `consumePixelSlot`, `resetPixelQuota`, `save`, `load`; the link added to the outbox by `POST /register` | quota over time and restarts; accounts and ids unique and kept; whoever must open a link has one |
| login lockout, `RateLimiter`, `SessionManager` | tables with times | `recordFailure`/`clear`, `allow`, `createSession`/`validate` | limits per window, sessions end |
| `ThreadPool`, `HttpServer` | a queue of tasks that capture descriptors, a buffer per connection | `run` (accept), `enqueue`, `workerLoop`, `handleClient` (receive, frame, dispatch, answer, close) | a descriptor has one owner, the answer does not depend on how a request is cut, every connection ends |
| `MapBackupScheduler` | flag `running_`, a thread, a condition variable | `start`, `run`, `stop` | a lost wake-up does not keep the process from ending |
| `ServerConfig`, `Json`, `HttpTypes`, `Router`, static files, hashing | none after the start | none | conversions |
| map page (`app.js`) | pixels shown, number shown, event stream, requests in flight | load, refresh every minute, stream, own pixel | the page reaches the current map again |
| administration page | none shared | none | forms only |

How they interact: `POST /pixel` consumes a quota slot in `UserStore` (which
saves `users.db`), then calls `setPixel`, saves `map.pwm`, appends to the
history and answers. A reset makes a backup (map file, screenshot, metadata),
changes the map, saves it and appends to the audit log; a rollback makes a
backup, parses the chosen file without a lock, installs it under the lock, and
saves. Each of these calls takes the lock by itself. `saveBinary` takes it only
in shared mode, so several threads may be writing one file. `main` loads
`map.pwm`, and if that fails keeps a blank map and saves it over the file. The
page asks for the full map once, then for what changed since the number it
holds; the server answers a diff if its log still reaches back that far.

What is hard here, and where each case is listed in `PROJECT.json`
("hazards"): threads between two calls of one handler; writers that overlap in
a file; connections that stall, break off or wait for one of a few
descriptors; a notification sent without the mutex; a crash in a file rewritten
in place, or in a line added to a log; a stream that is never checked for
errors; replies applied in another order than they were made; sequence numbers
that move back with a rollback; a system clock that is set back; the boundaries
of the log and of the quota window; data cut in the middle that still parses.

## 2. Modules

| Module | Models | Uses |
|---|---|---|
| `MapFile` | the file format and its run-length code: `Runs`, `FileOf`, the early returns of `loadBinary` (`Loads`). Pure | |
| `MapPayload` | what the page does with a payload: `decodeRle`, `applyDiff`, `applyMapPayload`. Pure | `MapFile` |
| `PixelMap` | the methods of `PixelMap` as actions, one per method | `MapFile` |
| `MapLog` | what the log of changes and the cached encoding say about the map, the parts that invariants about `PixelMap` are made of | `PixelMap`, `MapPayload` |
| `MapLineage` | `PixelMap` with all its callers, and the map at each number as a history variable; each map in a file, whole or with any tokens missing; the invariants | `MapLog` |
| `SumTheorems` | lemmas about `SumFunction`, by which the models add up | |
| `PixelMapProofs` | lemmas about the file format, the run-length code, the methods of the map, its log and its replies | `MapLog`, `SumTheorems` |
| `MapLineageProofs` | the theorems about `MapLineage` | `MapLineage`, `PixelMapProofs` |
| `MapClient` | one page, its requests in flight and the server | `MapLog` |
| `MapClientProofs` | the theorems about `MapClient` | `MapClient`, `PixelMapProofs` |
| `AppendLog` | `PixelHistory` and `AuditLog`, which differ in the fields of an entry only: entries in memory, the lines of the file, lines cut or missed, `load` | |
| `DurableMap` | abstract: what a map and its file promise together, without locks and blocks | |
| `MapServer` | the handlers on their threads, the files, crash and start | `PixelMap`; `AppendLog` twice; implements `DurableMap` |
| `MapServerProofs` | the theorems about `MapServer` | `MapServer`, `PixelMapProofs` |
| `UserStore` | accounts, with and without verification, their links, quota, `users.db` and the outbox, the system clock, crash and load | |
| `UserStoreProofs` | the theorems about `UserStore` | `UserStore`, `SumTheorems` |
| `AccessGuards` | rate limiter, login lockout and sessions, as `/login` and the guard of `/pixel` call them on their threads | |
| `AccessGuardsProofs` | the theorems about `AccessGuards` | `AccessGuards`, `SumTheorems` |
| `HttpServer` | the accept loop, the pool's queue and workers, the framing of requests, descriptors and clients | |
| `MapBackupScheduler` | the scheduler's thread with its condition variable, `start` and `stop` | |
| `ServerProcess` | `main()`: starts the scheduler, runs the server, unwinds when `run` throws | `HttpServer`, `MapBackupScheduler` |
| `MCServerProcess` | the sample requests of its run | `ServerProcess` |
| `HttpServerProofs` | the theorems about `HttpServer` and `ServerProcess` | `ServerProcess` |

Correspondence of the main state:

- `pixels`, `sequence`, `changes`, `cacheDirty`, `cachedRle` are the members of
  the same name (`cachedRleBase64_` before base64). A map is a function from
  cells `0 .. Width*Height-1` to colours.
- A file is a pair `[image, written]`: the map a writer is writing and the
  tokens that have reached the disk. Token 0 is the header, token *i* the
  *i*-th run; bytes inside a token are not told apart because a cut token fails
  the read as a missing one does. A writer has its own offset, so two writers
  of one file may leave a hole, which reads as zeros.
- `job[t]` in `MapServer` is the handler thread `t` runs and its `pc`: `setPixel`,
  `reset`, `stamp`, `open`, `write`, `bmp`, `meta`, `find`, `parse`, `read`,
  `install`, `history`, `audit`, `reply`. A step is one call that takes the lock, one
  flush of a file, or one block read from it: `loadBinary` reads a backup before it
  takes the lock, so `Parse` is its first block, `ReadOn` the next ones and `EndParse`
  its checks, between which others may write to the file. The disk may cut a map, a
  screenshot (`CutPicture`) or a metadata line short, and nobody looks at the streams;
  the save of the blank map in `main` fails or is cut off like any other
  (`SaveAtStart`, `DieStarting`). A crash is one of the process: what the system was
  given it keeps, so closed files that are not synced count as kept. `NoReaders` is
  the exclusive mode of the `shared_mutex`: no thread is between the truncation and
  the close of a save.
- `exchange[e]` in `MapClient` is what an HTTP exchange carries: the request,
  then the reply the server computed. Delivery is a step of its own, so that
  replies overtake each other. `streamSince` is the number in the stream's URL,
  which never changes.
- `History` and `Audit` in `MapServer` are two instances of `AppendLog`: `entries`
  is `entries_`, `pieces` the file. Each append leaves a piece in it: a line, or a
  line that lacks its end. What matters of a piece is how many tabs it has and
  whether its newline is there, since `load` splits at newlines and goes by the
  number of fields; `exact` says whether a field was cut or glued to another.
- `DurableMap` is `MapServer` seen through this mapping: `memory` is the map,
  `disk` the map of `map.pwm` if the file is whole and otherwise `Torn`, `owed` are
  the threads that have changed the map, or are about to save it, and have not
  closed the file, `saving` those of them that have truncated it, `broken` says
  that the last save failed.
- `users`, `nextId` in `UserStore` are the members; the two indexes are derived
  from `users`, since they change with it under the mutex. `file` is `users.db`
  as `load` would read it. Nobody reads it while `save` holds the mutex, so the
  rows appear when it is closed; a crash or a full disk before that leaves any of
  them (`LeftOver`; the hash table has them in any order) and perhaps one that was
  cut. `now` is the true time, `Clock` the system clock the code reads, behind it by
  `setBack`. `outbox` has the accounts whose link can be read in
  `email_outbox.txt`.
- `sockets` in `HttpServer` gives the client behind each descriptor; `accepted`
  is the local of `run` between `accept` and `enqueue`, `tasks` is `tasks_` with
  what its lambdas captured, `job[w]` where worker `w` is in `handleClient` and how
  much it has received. A request is what the framing looks at: where its head
  ends, the length it announces (`BadLength` if it does not parse), how much the
  client really sends, and whether the lines of the head parse. `AfterReceive`
  is the loop of `handleClient` after one `recv`, with the `parseRequest` that
  follows it: refuse, dispatch, give up, or receive more.
- `thread` in `MapBackupScheduler` is where `run` is: `test` looks at `running_`,
  `falling asleep` is between that look and the wait, in which a notification
  is lost, `asleep` waits for a notification or for the hour to end. `process` in
  `ServerProcess` is where `main` is; `stopping` and `joining` are inside `stop`.

History variables record what the properties speak of and guard nothing:
`lineage`, `saved` (maps that were, and those worth a file), `acked`, `told` and
`earlier` (what was answered, and before what), `held` (maps that some write
made), `spoiled` (files whose last save failed), `twins`, `appended` (each append
to a log and how it fared; `placed` and `acted` in `MapServer`), `answered`,
`opened`, `placed`, `lastSave` and `forgot` of `UserStore`, `loadedAfter` (the
rollbacks before a page's first load), and the times that
`AccessGuards` keeps of what passed. `acked` is lowered by a rollback, which takes
pixels back on purpose; `placed` of an account is cleared when the administrator
resets its cooldown.

Operators whose comment says "Mutant of ..." are used by no specification. They
are plausible mistakes, put in the place of the definition they follow to make
sure that the property named in `PROJECT.json` would notice.

## 3. Runs

| Run | Checks | Shows |
|---|---|---|
| `map_lineage` | `TypeOK`, `CacheFresh`, `DiffReachesCurrent`, `ReplyReachesCurrent`, `LogAccountsForMap`, `WholeFileRestoresImage`, `TornFileIsRefused`, `BrowserDecodesFullReply` | any reply brings any browser of the lineage to the current map; saving and loading are inverse, every torn file is refused, the page decodes what the server encodes |
| `client_page` | `TypeOK`, `RefreshBringsCurrent`, `StreamBringsCurrent`, `FollowerConverges` | a page that only watches, or that has an event stream, can at each moment be brought to the current map, and is once writing stops, whatever is lost, trimmed or restarted, and though it places pixels itself; a rollback is over when the page loads |
| `server` | `TypeOK`, `LiveFileCurrent`, `MemoryIsReal`, `ListedBackupIsWhole`, `SafetyBackup`, `LogsShowAnswered`, `LogsTellTruth`, `RestartKeepsAcked`, `ListedBackupKept`, `RollbackRestores`, `ImplementsDurableMap` | any two of a pixel, a reset, a rollback and the hourly backup, with a crash and a fault of the disk: overlapping saves leave the current map in the file; a restart from a whole file loses nothing answered; a map nobody made is never loaded; what is listed can be restored and is not touched again; a rollback brings the very map of its backup; a reset or rollback comes after a whole backup with every earlier write; the logs show what was answered, in its order |
| `server_ends` | `HandlersEnd` | no handler waits for ever for the map's lock |
| `users` | `TypeOK`, `FileCurrent`, `QuotaHolds`, `StatusTellsTruth`, `AnsweredAccountKept`, `NoSharedIdentity` | over crashes, failed and short saves, loads and a clock that is set back: the last handler to save leaves the memory in the file; at most 2*Quota-1 pixels in any stretch of one cooldown; `/cooldown` agrees with `/pixel`; an answered registration survives, its id is not given again, identities are unique, until a start meets a row that was cut in its address |
| `access_guards` | `TypeOK`, `RateHolds`, `LockHolds`, `LockIsEarned`, `SessionLasts` | with clocks read before each mutex: less than twice the limit passes in any window, a lock is set only after the failures it takes and holds the failures of its time to the limit and what was under way, a session lasts exactly its time |
| `server_process` | `TypeOK`, `DescriptorsOwned`, `AnswerFitsRequest`, `RequestsEnd`, `ExitFollows` | requests in any pieces, that stall, announce too much or end early, on few workers and descriptors: a buffer is bounded, no descriptor is lost, shared or closed twice, the answer does not depend on the pieces, every connection ends, if clients that stall in `recv` or `send` leave some time; a server that cannot listen ends, though a wake-up may be lost |

Runs that find what the documentation says violated by the code:

| Run | Property | The code | The documentation |
|---|---|---|---|
| `client_old_page` | `ScreenConverges` | `PixelMap.cpp:358` answers an empty diff to a number ahead of the map, as a page has it after a rollback | README:136, a diff if the log can serve it |
| `server_torn_map` | `AckedSurvivesCrash` | `PixelMap.cpp:186` truncates `map.pwm` in place; `main.cpp:24` blanks a file that does not load | README:5, a persistent map |
| `server_late_pixel` | `FinalStateInBackup` | a pixel fits between the backup and the reset (`ApiController.cpp:740`) | README:164, openapi.yaml:296 |
| `users_torn_row` | `VerifiedByLink` | a row of `users.db` cut behind the address loads as a verified account (`UserStore.cpp:190`) | README:90 |
| `users_lost_link` | `AnsweredHasLink` | an outbox that does not open is passed over in silence (`ApiController.cpp:87`), the account waits for a link nobody has (with `exposeLocalVerificationLink` the answer shows the link; this server is without it) | README:88 |

More disagreements, met while modelling, that no run repeats:

- A page without `EventSource` that places a pixel takes over its number
  (`app.js:676`) without the pixels placed just before, and never asks for them.
  `RefreshBringsCurrent` and `Follows` therefore speak of pages without own
  pixels, or with a stream, whose URL keeps an old number and repairs them.
- `applyMapPayload` (`app.js:302`) applies a reply whatever came before it. A
  refresh clicked during the first load may bring its old diff after the full
  map, and the stream is then opened at a number the page does not show. This
  needs two requests in flight (`Fetches` of two); `client_page` has one besides
  the stream.
- `load()` decodes whatever is left of an address in a row that was cut
  (`UserStore.cpp:180`), and that may be the whole address of another account: after a
  crash in a save the two share it, and `findByEmail` finds one of them.
  `NoSharedIdentity` exempts an address that was cut, once a start has met such a
  file.
- `sendAll` (`HttpServer.cpp:341`) waits for a client that does not read without a
  limit of time, as `recv` does for one that does not send: each holds a worker. No
  document sets a limit.
- The id of a backup is chosen by looking whether a file of that name exists
  (`MapBackup.cpp:232`), and the file is made later. Two resets of one
  millisecond and one sequence number may share an id, and the later one then
  saves the map already reset over the backup of the earlier. `MapServer` has
  these backups; `twins` says that one has happened, and the properties of
  backups speak of the states before. So do `RollbackRestores` and `MemoryIsReal`: the
  second writer of a listed backup may truncate and rewrite it while a rollback
  reads it, and the header of one map with the runs of another then loads. Without
  this exemption TLC refutes `MemoryIsReal` with three jobs on two threads (`Kinds` of
  a reset and a rollback, `MaxJobs` of 3), in 31 states. The run has two jobs, which
  cannot reach it; the proof covers any number.
- History entries are appended after the map's lock (`ApiController.cpp:595`), so
  two handlers may append in the other order than they placed; openapi.yaml:114
  calls them the latest placed pixels. `LogsTellTruth` is what does hold: only
  handlers that ran at once are listed in the other order.
- A disk that refuses a write leaves a short backup that is listed all the same
  (`MapBackup.cpp:236` checks no stream), and a reset then goes on. `MapServer` has
  such a disk; `SafetyBackup` is about the files it did not spoil, and
  `MemoryIsReal` says that a short backup is never taken for a map.
- A save that throws ends `POST /pixel` with a 500 (`ApiController.cpp:593`), but the
  pixel stays in memory, is served to browsers, and is saved by the next
  handler. `/register` is the same: the name stays taken after the 500. If
  the server stops between the save and the outbox, the account is kept and its
  link is nowhere.
- `send` is called without `MSG_NOSIGNAL` and nothing ignores `SIGPIPE`
  (`HttpServer.cpp:347`): on Linux a client that leaves at the wrong moment ends
  the server. `KilledBySend` is that step; no document promises otherwise.
- When `bind` or `listen` fails, `run` closes the listening socket
  (`HttpServer.cpp:166`) and the destructor closes the same number once more
  (line 213).
- With two `Content-Length` headers the framing goes by the first
  (`parseContentLengthFromHeaderBlock`) and `parseRequest` by the last. A request of
  `HttpServer` has one.
- docs/testing.md:35 expects the second of two pixels to be refused; the default
  quota is three (`README.md:14`).

### Bounds

- Maps have two cells and two colours, three cells in `map_lineage`. Two suffice
  for a diff to touch one cell and leave the other, for one run and two, and
  for a torn file of every length. Three cells with runs cut at two give maps
  of two runs and of three, and a run that goes on past the cut.
- In `map_lineage` the log holds two changes and several writes run over it, so it
  is trimmed and a browser is behind it, at its edge and ahead of it. In
  `client_page` it holds one and the map starts at number 1 (`FirstSequence`; 0
  is the number that always gets the full map), so a page at 1 is served a diff
  after one write and the full map after two. Diffs play no part in `MapServer`.
- `client_page` allows one incident: a failed exchange, a restart or a rollback
  (`MaxIncidents`), each at any moment.
- Two threads are enough for every pair of handlers to overlap at every step, and
  nothing in the code compares more than two parties. `server` runs any two handlers,
  at once or one after the other, but the manual backup, whose steps a reset takes
  too; that one is in `server_ends` and in the proofs, which have all five. It starts
  with a backup and an entry in each log from an earlier life of the server
  (`EarlierLife`), so that a rollback finds a backup at once, meets every other
  handler, and a log reaches its end (`MaxEntries` of two). Requests ask for one
  colour (`Asked`) other than the blank one. A line of a log has three fields
  (`LogFields`), so that it can be cut before, in and behind its only inner tab, and
  two cut pieces can make a line together; the code has six and four.
- `server` has one crash and one fault (a file that does not open, or a disk that
  is full), each at any step of the others. `Symmetry` exchanges threads only and
  stands in the run without liveness; `server_ends` has none, and neither crashes
  nor faults, which only end handlers.
- In `UserStore` a cooldown lasts two seconds and the clock runs from one to three,
  so a window ends and the next begins; the quota of two lets a window be used
  in part. `users.db` is empty at first or holds one verified account of an
  earlier life (`EarlierFiles`), which places pixels at once; four requests are
  enough for two accounts that compete for a name or an id, and for two windows of
  the account that was there. Two faults of any kind (`MaxFaults`: a crash, a file
  or an outbox that does not open, a disk that is full, a second by which the
  clock is set back) meet each other and every step. `required` is either, and
  stays over restarts. What is left of an address that was cut (`CutEmails`) is the
  whole address of another account in the run `users`, the case that matters, and an
  address of nobody in the two runs that show a finding. So `Symmetry` exchanges
  threads and names, which are only compared, and no addresses; no liveness is checked
  under it.
- In `AccessGuards` the clock runs to four with windows of two, locks of three and
  sessions of two seconds, so that each ends and begins again; five requests exceed
  both limits and both locks. A handler keeps a reading of the clock for at most one
  second (`MaxDelay`): a lock that is set late is that much shorter, which is what
  `LockHolds` says. The bound it states is `FailureLimit` and one for each other
  thread, which may have passed the check before the lock was set. The numbers of the
  code are 30 logins and 120 pixels a minute.
- In `server_process` the sizes are the smallest that the framing tells apart: a
  buffer of two units, room of two for the head, bodies of at most one. The five
  sample requests are the largest that surely has room, from a client that does not
  read the answer, a head that never
  ends, a body that stalls, a head too long that may still come whole in large
  pieces, and a body announced too large. Three clients on two workers and two
  descriptors: one waits in the listen queue while two hold everything. Each
  client connects once, which suffices for a descriptor to be used again. Requests
  whose head does not parse are left to the proofs, which hold for all.
- All bounds are guards on actions that start something (a request, a write, a
  fault); no reply, save or delivery is bounded. `LoseExchange` and `Restart`
  wait until the page is ready: a page whose first load fails stays empty and
  says so.

`CHECK_DEADLOCK FALSE` stands in the configurations of `MapServer`, `UserStore`,
`AccessGuards` and `ServerProcess`: with all requests served nobody has anything
to do, and a process may be over. `HandlersEnd`
checks instead that no thread is stuck.

### Fairness

`MapClient!Fairness`: the server answers what it received, an answer that is not lost
is delivered, the page opens and reopens its stream, its timer refreshes. These are
the thread pool, TCP and the browser's `EventSource` and `setInterval`. Nothing is
assumed of users, administrators and faults; they are bounded, so they stop, which is
what "converges once writing stops" needs. `MapServer!FairSpec`: a thread that can
take a step takes one eventually. For a writer that waits for the lock this asks that
readers leave it in the end; the bound on handlers grants that, and `server_ends` does
not show that `shared_mutex` prefers writers: a stream of readers that starves a
writer for ever is outside it. `ServerProcess!FairSpec`: the threads of main, of the
pool and of the scheduler run, the hour of the scheduler passes, and what a client
sends arrives. A client that announced more than it sends, or does not read an answer
that the buffers do not hold, leaves some time: neither `recv` nor `send` has a limit
of time, and a worker is lost to it until then (`HttpServer.cpp:229`, 347). That it
leaves is an assumption about clients, not a promise of the code; nobody else needs to
leave, and `RequestsEnd` says nothing after the process was killed. Nothing is assumed
of the spurious wake-ups, of failures, and of clients connecting.

## 4. Proofs

The theorems hold for every value of the constants that the named assumptions of
the modules allow. Each is an invariant or an action property of the
specification that the runs check, unless its text says otherwise.

### The map

`MapLineageProofs`, for every width, height, palette, length of the log and run
limit (`DimensionAssumption`, `MaxChangesAssumption`, `BoundsAssumption`):

- `TypeCorrect`: `Spec => []TypeOK`. The log never exceeds `MaxChanges`.
- `CacheIsFresh`: `Spec => []CacheFresh`, by induction over the actions; the
  interesting one is `setPixel`, which raises the flag only when the colour
  changes. `FullReplyIsCurrent`: so a full reply encodes the current map.
- `LogAccounts`: `Spec => []LogAccountsForMap`, the inductive invariant of the
  log. "A diff is right" is not inductive: a step needs to know why earlier
  diffs were right. The invariant says that the log is numbered without gaps up
  to `sequence`, that the history of maps covers the numbers of the log, that a
  cell shows the last change that names it, and that a cell which no change
  after *s* names has its colour of *s*. `LogPlace` shows that appending and
  trimming keep it (`SetPixelLog` says what becomes of the log); reset and
  restore start it afresh (`StartsAfresh`).
- `DiffsReachCurrent`: `Spec => []DiffReachesCurrent`. `DiffIsRight` derives it
  from the invariant alone: the last change of the served diff to name a cell is
  the last of the whole log to name it.
- `FullReplyIsDecoded`: `Spec => []BrowserDecodesFullReply`, and with it
  `RepliesReachCurrent`: `Spec => []ReplyReachesCurrent`.
- `WholeFilesRestore`: `Spec => []WholeFileRestoresImage`, and `TornFilesRefused`:
  `Spec => []TornFileIsRefused`.

`SetPixelLog`, `DiffIsRight` and `ReplyIsRight` are lemmas of `PixelMapProofs` about
any page that agrees with the map since some number, so that the page's proofs use
them too. The last four theorems of the list rest on that module as well. `Runs` is a
recursive function over the cells, that is, a value chosen among the solutions of an
equation. That there is a solution (`RunsExist`), that what it gives encodes the map
(`RunsEncode`) and that it has a run for each token of the file (`RunsCount`) are
inductions, stated as the absence of a least counterexample. `RunsOfMap` sums up: the
runs cover every cell once, with its colour, and end where the map ends. A torn file
is refused because the runs that are left sum up to fewer cells, or a hole is a run of
no cells.

### The page

`MapClientProofs`, for any map, any length of the log and any bounds on pixels, writes,
failures, restarts and rollbacks (`ClientAssumption` and those of the map):

- `TypeCorrect`: `Spec => []TypeOK`, for any number of requests in flight. What is drawn
  is a map from the first full reply on. `Shapes` is its invariant: who may be
  asking for what while the page loads, is loaded and is ready.
- `RefreshIsSafetyNet`: `OneFetch => (Spec => []RefreshBringsCurrent)` and
  `StreamRepairs`: `OneFetch => (Spec => []StreamBringsCurrent)`. `OneFetch` says that the
  page has one request in flight besides its stream, as in the run. With two,
  both are false, as section 3 says of the refresh that is clicked early: an older
  reply drawn after a newer one brings old colours back, which the next numbers hide.

The properties are about the next reply, and not inductive. Under them lies what "the
page is at number *n*" means while others write (`Held`): *n* is not ahead of the map, and
if the log still reaches back to *n*, then the page shows every cell as the map does that
no change after *n* names. A full payload on its way is such a page; a diff is made of
changes that the log still has or is past (`Known`). `GoesOn` says of a step that it
leaves true whatever was `Held` or `Known`, and each write of the map is shown to
do so: a pixel, since its change is new in the log; a reset, since it empties the log; a
restart, since it empties the log at a number where only the map itself is held. A rollback
does not, which is why `PageHeld` asks for the history under which the page was
loaded. A page that watches asks from the number it is at and is at the number
it is told (`WatcherHeld`); a page with a stream is at the number in the stream's URL
whatever it draws, since no reply on its way says anything older (`StreamHeld`). From `Held`,
`ReplyIsRight` gives both properties.

### The handlers, their files and crashes

`MapServerProofs`, for any map, any set of threads, any handlers and any bounds on jobs,
crashes and faults (`ServerAssumption` and those of the map):

- `Types`: `Spec => []TypeOK`.
- `LiveFileIsCurrent`: `Spec => []LiveFileCurrent`. When no handler is at work and
  the last save did not fail, `map.pwm` holds the map in memory, however the
  saves overlapped.
- `MemoryReal`: `Spec => []MemoryIsReal`. No start takes a torn or short `map.pwm`,
  or a mixture that two writers leave in it, for a map, and no rollback a short backup,
  while no two backups have had one name.
- `RollbackIsExact`: `Spec => RollbackRestores`, an action property: what a rollback
  installs is the map of the backup it found, though it has read it block by block and
  without the lock, and other handlers ran meanwhile, again while no two backups
  have had one name.
- `ListedAreWhole`: `Spec => []ListedBackupIsWhole`, and `ListedStays`:
  `Spec => ListedBackupKept`, an action property.
- `BackupIsSafe`: `Spec => []SafetyBackup`. When a reset or a rollback changes the map,
  a whole backup holds every write that was there when it was numbered and was not
  rolled back since.
- `RestartKeeps`: `Spec => RestartKeepsAcked`, an action property: a start from a
  whole file loses nothing answered.
- `Durability`: `Spec => ImplementsDurableMap`. Each step of the handlers is a step of
  `DurableMap` under the mapping of section 2, or changes nothing of it.

`Invariance` proves their one inductive invariant, `IInv`, in four layers. `Shapes`
says what jobs, files, names of backups and logs look like, and that the file that a
thread has open is of the map in memory: nobody changes the map while a reader holds
the lock. `LiveSaved` says that, unless the last save failed, `map.pwm` is the map in
memory, or some thread is about to open it, or is writing it and finds all up to its
offset there: the thread that truncated the file last has lost nothing since, and
writes the rest. `BackupsSaved` says the same of each backup while no two jobs share a
name (`NamesDiffer`), so that one gets its metadata only when it is whole or spoiled.
`RealMaps` is about the readers: every file is of a map that some write made, if not
all of it, and what a rollback has read of its backup so far is what the backup holds
(`ReadsFind`), since a listed file is not written again. `Protection` and `Answers`
are about numbers: the backup of a job that may change the map reaches the number the
map had when the backup was numbered, and what was answered, or is about to be, is at
most the number of the map in memory and of `map.pwm`, if that is whole. No layer
stands without the one below it: that a file is whole when its writer closes it needs
the number of its tokens to be that of the map in memory, which is `Shapes`. For each
action a lemma `...Step` says once what it does to the parts the upper layers look at.

`RestartKeeps` found a mistake in an earlier form of the model: after a start from a torn
file, which blanks the map, `acked` still held what was lost, and a second crash made
the property false. `Boot` now forgets what such a start loses; that it loses it is what
`server_torn_map` shows.

Two more are about the logs:

- `AnsweredIsShown`: `Spec => []LogsShowAnswered`. Who was answered has appended, and
  the log in memory shows every one of the last `MaxEntries` appends whose line was neither
  cut nor glued to a cut one.
- `LogsAreTrue`: `Spec => []LogsTellTruth`. The log shows what was appended, in the order
  of the appends, and no handler before one that was answered before it began.

They need an invariant of their own, `LogInv`, which is kept beside `IInv`
(`LogInvariance`); TLC checked it with the constants of the run `server` before it was
proved. The two properties compare a log with the appends that were made, and neither
survives a start alone: a start makes the entries anew from the file, so the file has
to be accounted for as well, whatever cuts it suffered. `LogKept` does that by two
witnesses. One maps the entries to the appends that they are of (`Shows`), the other
the pieces of the file to the appends that left them (`Holds`); both are strictly
increasing, which carries the order and, since a position that climbs to the last
cannot lag behind (`ClimbsBelow`), the count: who drops the oldest entries beyond
`MaxEntries` drops none of the last `MaxEntries` appends (`NewestShows`). An append
extends the witnesses (`ShowsOneMore`, `HoldsOneMore`). A start composes the second
with the positions of the lines that `load` can read, which `CountedInOrder`
enumerates (`LoadedShows`), and needs that the piece of an unharmed append has a line
of its own: the piece before it ended its line, since only a cut append leaves one
that does not, and every append between would have left a piece (`UnharmedPiece`). The
rest of `LogInv` is about the handlers: no two at work have one number, and none that
of an answered one (`Serials`); who is at its answer has appended; and no append is of
a handler that the handler of an earlier append had found answered (`InOrder`). That
is kept since whoever appends is at work, hence not answered, hence in nobody's past.

### Accounts

`UserStoreProofs` proves, for any finite set of threads, any names, addresses, quota,
cooldown, time of life of a link and bounds (from `UserStoreAssumption` alone):

- `TypeCorrect`: `Spec => []TypeOK`. No window ever holds more than the quota,
  though handlers consume slots between each other's saves.
- `FilesAreCurrent`: `Spec => []FileCurrent`.
- `AnsweredAreKept`: `Spec => []AnsweredAccountKept`.
- `IdentitiesUnique`: `Spec => []NoSharedIdentity`. Names are unique always;
  addresses too, until a start has met a file that was cut short, and from then on but
  for what is left of an address that was cut.
- `StatusIsTrue`: `Spec => []StatusTellsTruth`.
- `QuotaIsKept`: `Spec => []QuotaHolds`.

All but the last are drawn from one inductive invariant, `IInv`: the types; `Numbered`
(ids are below `nextId`, in memory and in the file); `JobsKnown` (who has to save
works for an account that is there); `StartsPast` (no window starts later than now:
the clock can be set back, but is never ahead); `Distinct` of the memory and of the
file (what a start may load next must have distinct identities before it is loaded);
`Uncut` (until a start has met a short file, no two accounts of the memory share an
address, nor two of a file whose last save was not short); `Kept`; and `FileCurrent`.
The step that needs the most is `Load`: what it installs is distinct and holds the
answered accounts because every file that a save leaves does, and the next id is new
because it is above all ids of the file (`LastIdOfFile`, where `MaxOfBounded` shows
that `Max` is one, by well-founded descent). A save cut short leaves rows that are
those of the memory but for their address (`CutRowsAreRows`, `LeftOverRows`). `Kept`
speaks of accounts whose registration is answered, and also of those that wait for the
outbox, whose answer comes when the save is long over: other handlers may have opened,
lost or rewritten the file since.

`QuotaHolds` counts the pixels that are placed, and needs a second invariant,
`QuotaFits`, which TLC checked before it was proved, with placements and pardons over
five seconds. It counts a slot from the second in which it is consumed (`Used`), since
what the handlers hold will be placed later, and speaks of three sums:
those of every stretch (`StretchesFit`), and, for the window of the memory and the one
of the file, the sum of the slots since it was opened (`OpenedAt`). That second is not the
window's start, which was read from a clock that may have been set back before or
since, by `setBack` at most; it is a second the invariant says there is. Of it,
besides that the count has every slot since, two things are known which
make the bound `2 * Quota - 1` and not twice the quota: the window was opened by a slot of
that second, and the window before left at most `Quota - 1` of its own within the
stretches that reach the new one. `FitsOneMore` is the step that consumes a
slot, in the open window or in a new one. The file may hold an older window than the
memory, but one that fits all that is *placed* (`FileFits`): a handler places its pixel
after a save that wrote at least its own slot, so a start forgets only slots
whose pixels never came. A save that is cut short breaks just that, and is where
the hypothesis `~forgot` comes from. `ResetPixelQuota` has to pardon what is on its way
too: without that the property is not what the code promises.

### Guards

`AccessGuardsProofs` proves, for any finite set of threads, any logins, limits and
times (from `GuardsAssumption` alone):

- `TypeCorrect`: `Spec => []TypeOK`. No window counts more than the limit of its key,
  and no more tokens are given than requests were made: `TokensCounted` counts the
  tokens and the logins under way together, of which each step raises at most one with
  the requests.
- `RatesHold`: `Spec => []RateHolds`. The sums are over the seconds of a stretch.
  The invariant (`RateFits`) says of each bucket that what was counted since its window
  began is at most its count, and that a stretch which meets the window saw at most
  one less than the limit before; the lemmas of `SumTheorems` say what one more
  request adds to a sum. A reading that lags more than a second can be counted in
  a third window: the stretch of `RateHolds` is shorter by that lag.
- `LocksHold`: `Spec => []LockHolds`, likewise, with the checks that passed before the lock
  was set counted by the threads that are on their way: `FailureLimit + |Threads| - 1`
  failures at most.
- `LocksAreEarned`: `Spec => LockIsEarned`, an action property. Under it lies that the
  count of failures never exceeds the failures since the last success and the last
  lock (`LocksFit`), also when a failure is recorded with an old reading of the clock.
- `SessionsLast`: `Spec => SessionLasts`. The invariant has to speak of sessions that
  are gone: each that was ever made and is not in the table has ended by now
  (`SessionsFit`). It is kept because no reading of the clock is of the time to come
  (`ReadingsPast`), so that whoever prunes is right for everybody
  (`PrunedHaveEnded`), and because a new token is none of the old ones.

### Connections

`HttpServerProofs` proves, for any sets of workers, descriptors and clients, any
requests and any `MaxBody`, `HeadRoom` and `Chunk` (from `HttpServerAssumption` alone):

- `ProcessRunsServer`: `Spec => HttpSpec`, a step simulation: what is proved of the
  server alone holds of the process, whatever the scheduler does.
- `BuffersBounded`: `Spec => []TypeOK`. A buffer holds at most the limit of the
  loop and one `recv`.
- `DescriptorsAreOwned`: `Spec => []DescriptorsOwned`.
- `AnswersFit`: `Spec => []AnswerFitsRequest`.

The inductive invariant is `TypeOK`, `DescriptorsOwned`, `JobsFit` and
`AnswerFitsRequest` together. `JobsFit` says of each worker that goes on receiving that
it has not used up the room, and of each that is about to dispatch or answer that
the answer fits the request of its peer; `AfterReceiveFits` is the arithmetic of the
framing behind it. No part stands alone: the bound of a buffer needs the room
left before the `recv`, and an answer fits its client only because
`DescriptorsOwned` keeps another worker from closing the descriptor, and `accept` from
giving it to the next client, between the `recv` and the `send`. `BusyWorker` draws
that from the invariant, and `SameHolders` and `WorkerCloses` are the two ways the
owners change.

### Only model-checked

- `RequestsEnd`, `ExitFollows`, `HandlersEnd` and `FollowerConverges`: liveness under
  fairness, for which the prover has no rule here. The scheduler has no safety property
  of its own.

## 5. Not modelled

Rendering, account forms and the administration page; JSON, base64, hashing and
HTTP text. The guards of `AccessGuards` stand before the handlers of `MapServer` and
`UserStore` and only reduce what reaches them. The rules for the text of names,
addresses and passwords are predicates of their own. The system clock of
`AccessGuards`, which the lockout and the sessions read, does not go back.
A `palette_size` of 256 passes the check of `ServerConfig.cpp:104` and
becomes 0 in eight bits, a configuration under which every pixel is refused; the
modules assume a palette of at least one colour. The exact numbers of the rate
limits differ between docs/testing.md:31-32 and `ApiController.cpp:415,468`, a
matter of constants.

## 6. Plan

Done, in this order: file format, map, its log and proofs, page, handlers with
crashes, accounts with quota, the guards before the handlers, the server's
threads and connections with their proofs, the two logs in the handlers, the
abstract `DurableMap`, disks that are full, backups of one name, accounts without
verification, the outbox and a clock that is set back, the
proofs about accounts and about the guards, the run-length code, the handlers with their
refinement, the rates, the page, the quota, and the logs. Every safety property that a
passing run checks is proved.

Next, extending the models. New modules share a run through a module that
composes them, as `ServerProcess` does, so that the set of runs stays readable:

1. `PlacePixel`: quota, map and history composed in one handler, with a crash
   between any two, for what a slot that was consumed but not used costs.
2. `MapClient` with two requests in flight and a page that reloads by itself.
