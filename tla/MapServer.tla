----------------------------- MODULE MapServer -----------------------------
(***************************************************************************)
(* The handlers that change the map, run by the threads of the server:     *)
(* POST /pixel, POST /admin/map/reset, /admin/backups/create and           *)
(* /admin/backups/rollback, and the hourly backup of the scheduler; the    *)
(* files they write (map.pwm, the backups with their screenshot and        *)
(* metadata, the pixel history, the audit log); crashes, and the start of  *)
(* main() from whatever the files hold.                                    *)
(*                                                                         *)
(* Each handler takes the map's lock several times, once per method call.  *)
(* A step of a thread is one such call, or one flush of a file: saveBinary *)
(* holds the lock in shared mode from the truncation of its file to the    *)
(* close, so several threads may be writing the same file, while setPixel, *)
(* reset and the install of a loaded map wait until none is.               *)
(***************************************************************************)
EXTENDS PixelMap, FiniteSets, TLC

CONSTANTS
    Threads,            \* the thread pool and the scheduler's thread
    Kinds,              \* the handlers that run
    Asked,              \* the colours that requests ask for
    EarlierLife,        \* are there a backup and log entries from before?
    LogFields,          \* fields of a line of the logs: 6 and 4 in the code
    MaxEntries,         \* maxEntries_ of both logs
    MaxJobs,            \* bound on the handlers started
    MaxCrashes,         \* bound on crashes
    MaxFaults           \* bound on files that cannot be opened for writing
                        \* and writes that the disk refuses

ASSUME ServerAssumption ==
    /\ Kinds \subseteq {"pixel", "reset", "create", "hourly", "rollback"}
    /\ Asked \subseteq Colors
    /\ EarlierLife \in BOOLEAN
    /\ LogFields \in Nat \ {0} /\ MaxEntries \in Nat \ {0}
    /\ MaxJobs \in Nat /\ MaxCrashes \in Nat /\ MaxFaults \in Nat

VARIABLES
    job,        \* what each thread is doing
    up,         \* is the process running?
    live,       \* the file map.pwm
    pwm,        \* the backup files, by id
    bmp,        \* the screenshots, by id
    meta,       \* the metadata files, by id
    history, historyFile,   \* pixel_history.log in memory and on the disk
    audit, auditFile,       \* audit.log in memory and on the disk
    acked,      \* history variable: the largest number a client was told
                \* since a start last found no map
    held,       \* history variable: the maps that writes have made
    spoiled,    \* history variable: the files whose last save failed
    twins,      \* history variable: have two backups been given one name?
    told,       \* history variable: the handlers that answered with success
    earlier,    \* history variable: whom each handler found answered
    placed, acted,  \* history variables: what was appended to the two logs
    clock,      \* the millisecond of the last stamp
    jobs, crashes, faults   \* how much of each bound is used

History == INSTANCE AppendLog WITH
    Fields <- LogFields, entries <- history, pieces <- historyFile, appended <- placed

Audit == INSTANCE AppendLog WITH
    Fields <- LogFields, entries <- audit, pieces <- auditFile, appended <- acted

historyVars == <<history, historyFile, placed>>
auditVars   == <<audit, auditFile, acted>>

logs     == <<historyVars, auditVars>>
files    == <<live, pwm, bmp, meta, logs>>
answers  == <<acked, told, earlier>>
ghosts   == <<answers, held, spoiled, twins>>
counters == <<clock, jobs, crashes, faults>>
vars     == <<mapVars, job, up, files, ghosts, counters>>

Whole(file) == file.written = Tokens(file.image)

(* The job field `lasting' is a history variable: the number that the map  *)
(* had when this job wrote or backed it up, less what was rolled back.     *)
IdleJob == [kind |-> "none", pc |-> "idle"]

(* A job starts at the first step of its handler. *)
FirstStep == [pixel    |-> "setPixel", reset  |-> "stamp", create |-> "stamp",
              hourly   |-> "stamp",    rollback |-> "find"]

AfterBackup == [reset |-> "reset", create |-> "audit", rollback |-> "parse"]

AfterSave   == [pixel |-> "history", reset |-> "audit", rollback |-> "audit"]

(* A manual backup takes a screenshot when the request asks for one.       *)
Screenshot(kind) ==
    CASE kind \in {"reset", "rollback"} -> {TRUE}
      [] kind = "create"                -> BOOLEAN
      [] kind = "hourly"                -> {FALSE}

----------------------------------------------------------------------------
(* The lock. *)

Saving(t)  == job[t].pc = "write"

(* Mutant of NoReaders: loadBinary keeps its shared lock while it waits    *)
(* for the exclusive one.                                                  *)
NoReadersNorParsers == \A t \in Threads : job[t].pc \notin {"write", "install"}

(* Mutant of NoReaders: the writers of the map take the lock in shared     *)
(* mode, as the writers of its file do.                                    *)
SharedLock == TRUE

NoReaders  == \A t \in Threads : ~Saving(t)

At(t, pc)   == up /\ job[t].pc = pc
Go(t, pc)   == job' = [job EXCEPT ![t].pc = pc]
Finish(t)   == job' = [job EXCEPT ![t] = IdleJob]

(* The file that thread t is to write: the backup until it has one.        *)
WritesBackup(t) == job[t].target = "backup"

Faulty == faults < MaxFaults /\ faults' = faults + 1

(* What thread t writes, by id; <<>> stands for map.pwm. *)
Aim(t) == IF WritesBackup(t) THEN job[t].id ELSE <<>>

Target(t) == IF WritesBackup(t) THEN pwm[job[t].id] ELSE live

SetTarget(t, file) ==
    IF WritesBackup(t)
    THEN /\ pwm' = [id \in DOMAIN pwm \cup {job[t].id} |->
                       IF id = job[t].id THEN file ELSE pwm[id]]
         /\ UNCHANGED live
    ELSE live' = file /\ UNCHANGED pwm

----------------------------------------------------------------------------

(* What an earlier life of the server may have left: a backup of a map of  *)
(* one pixel, whose map.pwm is gone, and one entry in each log.            *)
EarlierImage ==
    [sequence |-> 1, pixels |-> [BlankImage.pixels EXCEPT ![0] = PaletteSize - 1]]

EarlierIds == IF EarlierLife THEN {<<0, "manual", 1, 1>>} ELSE {}

Init ==
    /\ MapInit
    /\ job = [t \in Threads |-> IdleJob]
    /\ up = TRUE
    /\ live = [image |-> BlankImage, written |-> Tokens(BlankImage)]
    /\ pwm = [id \in EarlierIds |->
                [image |-> EarlierImage, written |-> Tokens(EarlierImage)]]
    /\ meta = [id \in EarlierIds |-> EarlierImage.sequence]
    /\ bmp = <<>>
    /\ IF EarlierLife
       THEN History!StartsWith(0) /\ Audit!StartsWith(0)
       ELSE History!StartsEmpty /\ Audit!StartsEmpty
    /\ acked = 0 /\ spoiled = {} /\ twins = FALSE
    /\ told = {} /\ earlier = [n \in 1 .. MaxJobs |-> {}]
    /\ held = {BlankImage} \cup {EarlierImage : id \in EarlierIds}
    /\ clock = 0 /\ jobs = 0 /\ crashes = 0 /\ faults = 0

(* A request has passed its guards, or the hour is over; the scheduler has *)
(* one thread and makes one backup at a time.                              *)
Start(t, kind) ==
    /\ At(t, "idle")
    /\ jobs < MaxJobs
    /\ kind = "hourly" => \A u \in Threads : job[u].kind # "hourly"
    /\ jobs' = jobs + 1
    /\ job' = [job EXCEPT ![t] =
                 [kind |-> kind, pc |-> FirstStep[kind], serial |-> jobs + 1,
                  target |-> "live", id |-> <<>>, number |-> 0, lasting |-> 0,
                  offset |-> 0, loaded |-> <<>>, read |-> FileOf(BlankImage)]]
    /\ earlier' = [earlier EXCEPT ![jobs + 1] = told]
    /\ UNCHANGED <<mapVars, up, files, acked, told, held, spoiled, twins,
                   clock, crashes, faults>>

(* Mutant of DoSetPixel: the handler goes on without saving. *)
DoSetPixelUnsaved(t, x, y, color) ==
    /\ At(t, "setPixel")
    /\ NoReaders
    /\ SetPixel(x, y, color)
    /\ job' = [job EXCEPT ![t].pc = "history", ![t].number = sequence',
                          ![t].lasting = sequence']
    /\ held' = held \cup {MapImage'}
    /\ UNCHANGED <<up, files, answers, spoiled, twins, counters>>

(* PixelMap::setPixel in POST /pixel. *)
DoSetPixel(t, x, y, color) ==
    /\ At(t, "setPixel")
    /\ NoReaders
    /\ SetPixel(x, y, color)
    /\ job' = [job EXCEPT ![t].pc = "open", ![t].number = sequence',
                          ![t].lasting = sequence']
    /\ held' = held \cup {MapImage'}
    /\ UNCHANGED <<up, files, answers, spoiled, twins, counters>>

(* Mutant of DoReset: the handler goes on without saving. *)
DoResetUnsaved(t, color) ==
    /\ At(t, "reset")
    /\ NoReaders
    /\ Reset(color)
    /\ job' = [job EXCEPT ![t].pc = "audit", ![t].number = sequence',
                          ![t].lasting = sequence']
    /\ held' = held \cup {MapImage'}
    /\ UNCHANGED <<up, files, answers, spoiled, twins, counters>>

(* PixelMap::reset in POST /admin/map/reset. *)
DoReset(t, color) ==
    /\ At(t, "reset")
    /\ NoReaders
    /\ Reset(color)
    /\ job' = [job EXCEPT ![t].pc = "open", ![t].number = sequence',
                          ![t].lasting = sequence']
    /\ held' = held \cup {MapImage'}
    /\ UNCHANGED <<up, files, answers, spoiled, twins, counters>>

----------------------------------------------------------------------------
(* createMapBackup *)

Reason(kind) ==
    [reset |-> "before-reset", create |-> "manual", hourly |-> "hourly",
     rollback |-> "before-rollback"][kind]

(* Mutant of Suffixed: whether the file is there is not asked. *)
Unsuffixed(ms, reason, number) == <<ms, reason, number, 1>>

(* Within one millisecond the suffix tells two backups apart, provided the *)
(* map file of the other is there already.                                 *)
Suffixed(ms, reason, number) ==
    LET free == {<<ms, reason, number, n>> : n \in 1 .. (Cardinality(DOMAIN pwm) + 1)}
                   \ DOMAIN pwm
    IN  CHOOSE id \in free : \A other \in free : id[4] <= other[4]

(* The sequence number is read, and an id is made of the time, the reason  *)
(* and the number.                                                         *)
Stamp(t) ==
    /\ At(t, "stamp")
    /\ clock' \in {clock, clock + 1} \ {0}
    /\ LET id == Suffixed(clock', Reason(job[t].kind), sequence) IN
          /\ job' = [job EXCEPT ![t] = [@ EXCEPT !.pc = "open", !.target = "backup", !.id = id,
                                                 !.number = sequence, !.lasting = sequence]]
          /\ twins' = (twins \/ \E u \in Threads \ {t} :
                                   job[u].pc # "idle" /\ job[u].id = id)
    /\ UNCHANGED <<mapVars, up, files, answers, held, spoiled,
                   jobs, crashes, faults>>

(* What is left of a screenshot that the disk cuts short. *)
CutPicture == <<>>

(* saveBmp of a backup: the lock is taken again.  It does not look at the  *)
(* state of its stream either.  Two threads whose backups have one name    *)
(* write their screenshots one after the other here.                       *)
SaveBmp(t) ==
    /\ At(t, "bmp")
    /\ \E picture \in {pixels, CutPicture} :
          /\ IF picture = pixels THEN UNCHANGED faults ELSE Faulty
          /\ bmp' = [id \in DOMAIN bmp \cup {job[t].id} |->
                       IF id = job[t].id THEN picture ELSE bmp[id]]
    /\ Go(t, "meta")
    /\ UNCHANGED <<mapVars, up, live, pwm, meta, logs, ghosts, clock, jobs, crashes>>

(* writeMetadata.  Nobody notices when the disk cuts the line short;       *)
(* readMetadata then refuses it, and the backup is not listed.             *)
WriteMetadata(t) ==
    /\ At(t, "meta")
    /\ \/ /\ meta' = [id \in DOMAIN meta \cup {job[t].id} |->
                        IF id = job[t].id THEN job[t].number ELSE meta[id]]
          /\ UNCHANGED <<spoiled, faults>>
       \/ /\ meta' = [id \in DOMAIN meta \ {job[t].id} |-> meta[id]]
          /\ spoiled' = spoiled \cup {Aim(t)}
          /\ Faulty
    /\ IF job[t].kind = "hourly"
       THEN Finish(t)
       ELSE job' = [job EXCEPT ![t].pc = AfterBackup[job[t].kind], ![t].target = "live"]
    /\ UNCHANGED <<mapVars, up, live, pwm, bmp, logs, answers, held, twins,
                   clock, jobs, crashes>>

----------------------------------------------------------------------------
(* saveBinary *)

(* The lock is taken in shared mode and the file truncated. *)
OpenSave(t) ==
    /\ At(t, "open")
    /\ SetTarget(t, [image |-> MapImage, written |-> {}])
    /\ job' = [job EXCEPT ![t].pc = "write", ![t].offset = 0]
    /\ spoiled' = spoiled \ {Aim(t)}
    /\ UNCHANGED <<mapVars, up, bmp, meta, logs, answers, held, twins, counters>>

(* The map file, the screenshot or the metadata cannot be opened: the      *)
(* exception ends the handler, which answers 500; what it did to the map   *)
(* and to other files before stays.                                        *)
OpenFails(t) ==
    /\ \E pc \in {"open", "bmp", "meta"} : At(t, pc)
    /\ Faulty
    /\ Finish(t)
    /\ spoiled' = spoiled \cup {Aim(t)}
    /\ UNCHANGED <<mapVars, up, files, answers, held, twins,
                   clock, jobs, crashes>>

(* The stream's buffer is full, or the file is being closed: the tokens up *)
(* to the n-th reach the file, at the offset this writer has come to.      *)
Flush(t, n) ==
    /\ At(t, "write")
    /\ n \in Tokens(MapImage) /\ n >= job[t].offset
    /\ SetTarget(t, [Target(t) EXCEPT !.written = @ \cup (job[t].offset .. n)])
    /\ job' = [job EXCEPT ![t].offset = n + 1]
    /\ UNCHANGED <<mapVars, up, bmp, meta, logs, ghosts, counters>>

AfterClose(t) ==
    IF WritesBackup(t)
    THEN {IF screenshot THEN "bmp" ELSE "meta" : screenshot \in Screenshot(job[t].kind)}
    ELSE {AfterSave[job[t].kind]}

(* Mutant of CloseSave: the handler goes on while its file is still open   *)
(* and partly in the buffer of the stream.                                 *)
CloseSaveEarly(t) ==
    /\ At(t, "write")
    /\ \E pc \in AfterClose(t) : Go(t, pc)
    /\ UNCHANGED <<mapVars, up, files, ghosts, counters>>

(* Everything is written: the file is closed, then the lock released. *)
CloseSave(t) ==
    /\ At(t, "write")
    /\ job[t].offset = Cardinality(Tokens(MapImage))
    /\ \E pc \in AfterClose(t) : Go(t, pc)
    /\ UNCHANGED <<mapVars, up, files, ghosts, counters>>

(* The disk refuses what is left to write; saveBinary does not look at the *)
(* state of its stream and returns as if all were well.                    *)
CloseWithLoss(t) ==
    /\ At(t, "write")
    /\ job[t].offset < Cardinality(Tokens(MapImage))
    /\ Faulty
    /\ \E pc \in AfterClose(t) : Go(t, pc)
    /\ spoiled' = spoiled \cup {Aim(t)}
    /\ UNCHANGED <<mapVars, up, files, answers, held, twins,
                   clock, jobs, crashes>>

----------------------------------------------------------------------------
(* rollback *)

(* The backups the list shows and a rollback finds: those with both files. *)
Listed == DOMAIN meta \cap DOMAIN pwm

(* Mutant of Find: no backup is made before the rollback. *)
FindThenRestore(t) ==
    /\ At(t, "find")
    /\ \/ \E id \in Listed :
             job' = [job EXCEPT ![t].pc = "parse", ![t].loaded = id]
       \/ Finish(t)
    /\ UNCHANGED <<mapVars, up, files, ghosts, counters>>

(* findMapBackup: a listed backup whose file exists, or 404. *)
Find(t) ==
    /\ At(t, "find")
    /\ \/ \E id \in Listed :
             job' = [job EXCEPT ![t].pc = "stamp", ![t].loaded = id]
       \/ Finish(t)
    /\ UNCHANGED <<mapVars, up, files, ghosts, counters>>

(* loadBinary before its lock: the file is opened and read block by block, *)
(* while other threads may write to it.  The header is in the first block. *)
(* What is read later is read ahead here, and replaced by ReadOn when the  *)
(* file has changed under the reader.  The edge of a block lies between    *)
(* two runs; the reader has come to the run `offset'.                      *)
Found(t) == Content(pwm[job[t].loaded].image, pwm[job[t].loaded].written)

(* Mutant of Parse: the backup just made is loaded, not the one found. *)
ParseSafetyBackup(t) ==
    /\ At(t, "parse")
    /\ LET made == pwm[job[t].id] IN
          job' = [job EXCEPT ![t].pc = "read", ![t].offset = 0,
                             ![t].read = Content(made.image, made.written)]
    /\ UNCHANGED <<mapVars, up, files, ghosts, counters>>

Parse(t) ==
    /\ At(t, "parse")
    /\ job' = [job EXCEPT ![t] = [@ EXCEPT !.pc = "read", !.offset = 0, !.read = Found(t)]]
    /\ UNCHANGED <<mapVars, up, files, ghosts, counters>>

(* The first n runs were read before, the others are read now. *)
Reread(t, n) ==
    LET old == job[t].read.runs  new == Found(t).runs
    IN  [job[t].read EXCEPT !.runs = SubSeq(old, 1, n) \o SubSeq(new, n + 1, Len(new))]

ReadOn(t, n) ==
    /\ At(t, "read")
    /\ n \in job[t].offset .. Len(job[t].read.runs)
    /\ job' = [job EXCEPT ![t] = [@ EXCEPT !.offset = n, !.read = Reread(t, n)]]
    /\ UNCHANGED <<mapVars, up, files, ghosts, counters>>

(* The whole file has been parsed, or is refused (500). *)
EndParse(t) ==
    /\ At(t, "read")
    /\ IF Loads(job[t].read)
       THEN job' = [job EXCEPT ![t] = [@ EXCEPT !.pc = "install", !.offset = 0]]
       ELSE Finish(t)
    /\ UNCHANGED <<mapVars, up, files, ghosts, counters>>

AtMost(number, bound) == IF number > bound THEN bound ELSE number

(* The locked end of loadBinary.  What was written since the backup is     *)
(* taken back, also what other handlers are about to answer.               *)
DoInstall(t) ==
    /\ At(t, "install")
    /\ NoReaders
    /\ Install(LoadedImage(job[t].read))
    /\ job' = [u \in Threads |->
                 IF u = t
                 THEN [job[t] EXCEPT !.pc = "open", !.read = FileOf(BlankImage),
                                     !.number = sequence', !.lasting = sequence']
                 ELSE IF job[u].pc = "idle" THEN job[u]
                 ELSE [job[u] EXCEPT !.lasting = AtMost(@, sequence')]]
    /\ acked' = AtMost(acked, sequence')
    /\ UNCHANGED <<up, files, told, earlier, held, spoiled, twins, counters>>

----------------------------------------------------------------------------
(* The ends of the handlers. *)

(* PixelHistory::append or AuditLog::append, under a mutex of its own; a   *)
(* file that does not open or a full disk stays unnoticed.                 *)
AppendHistory(t) ==
    /\ At(t, "history")
    /\ \/ History!AppendEntry(job[t].serial) /\ UNCHANGED faults
       \/ Faulty /\ History!AppendMissed(job[t].serial)
       \/ Faulty /\ History!AppendCut(job[t].serial)
    /\ Go(t, "reply")
    /\ UNCHANGED <<mapVars, up, live, pwm, bmp, meta, auditVars,
                   ghosts, clock, jobs, crashes>>

AppendAudit(t) ==
    /\ At(t, "audit")
    /\ \/ Audit!AppendEntry(job[t].serial) /\ UNCHANGED faults
       \/ Faulty /\ Audit!AppendMissed(job[t].serial)
       \/ Faulty /\ Audit!AppendCut(job[t].serial)
    /\ Go(t, "reply")
    /\ UNCHANGED <<mapVars, up, live, pwm, bmp, meta, historyVars,
                   ghosts, clock, jobs, crashes>>

Reply(t) ==
    /\ At(t, "reply")
    /\ acked' = IF job[t].kind # "create" /\ job[t].lasting > acked
                THEN job[t].lasting ELSE acked
    /\ told' = told \cup {job[t].serial}
    /\ Finish(t)
    /\ UNCHANGED <<mapVars, up, files, earlier, held, spoiled, twins, counters>>

----------------------------------------------------------------------------
(* Crash and start. *)

(* The process dies in any state of its threads (a signal): the memory and *)
(* what was not yet flushed are gone, and a line of a log may be in the    *)
(* file in part.  What the system was given stays: the code never asks for *)
(* it to be on the disk, so the machine must not die with the process.     *)
Crash ==
    /\ up
    /\ crashes < MaxCrashes
    /\ crashes' = crashes + 1
    /\ up' = FALSE
    /\ job' = [t \in Threads |-> IdleJob]
    /\ \/ UNCHANGED logs
       \/ /\ \E t \in Threads : At(t, "history") /\ History!DieAppending(job[t].serial)
          /\ UNCHANGED auditVars
       \/ /\ \E t \in Threads : At(t, "audit") /\ Audit!DieAppending(job[t].serial)
          /\ UNCHANGED historyVars
    /\ UNCHANGED <<mapVars, live, pwm, bmp, meta, ghosts,
                   clock, jobs, faults>>

(* A file of the blank map is whole, or the disk refuses the rest of it,   *)
(* which main() does not notice.                                           *)
CutBlanks == {[image |-> BlankImage, written |-> 0 .. (n - 1)] : n \in Tokens(BlankImage)}

SaveAtStart(image) ==
    \/ /\ live' = [image |-> image, written |-> Tokens(image)]
       /\ spoiled' = spoiled \ {<<>>} /\ UNCHANGED faults
    \/ /\ live' \in CutBlanks
       /\ spoiled' = spoiled \cup {<<>>} /\ Faulty

(* Mutant of LoadMap: loadBinary assigns the sequence number as soon as it *)
(* has read the header, before it has read the runs.                       *)
LoadMapAssignsEarly ==
    LET file == Content(live.image, live.written)
    IN IF Loads(file)
       THEN Install(LoadedImage(file)) /\ spoiled' = spoiled \ {<<>>} /\ UNCHANGED <<live, faults>>
       ELSE LET image == [BlankImage EXCEPT
                            !.sequence = IF file.magic THEN file.sequence ELSE 0]
            IN  Install(image) /\ SaveAtStart(image)

(* The map of map.pwm, or else a blank map that is saved over it. *)
LoadMap ==
    LET file == Content(live.image, live.written)
    IN IF Loads(file)
       THEN Install(LoadedImage(file)) /\ spoiled' = spoiled \ {<<>>} /\ UNCHANGED <<live, faults>>
       ELSE Install(BlankImage) /\ SaveAtStart(BlankImage)

(* main, and the load of the two logs by registerApiRoutes *)
Boot ==
    /\ ~up
    /\ up' = TRUE
    /\ LoadMap
    /\ History!Load /\ Audit!Load
    /\ acked' = IF Whole(live) THEN acked ELSE 0
    /\ UNCHANGED <<job, pwm, bmp, meta, told, earlier, held, twins,
                   clock, jobs, crashes>>

(* The process dies while main() saves the blank map, as often as it is    *)
(* started.  If that file does not open, main() gives up, and nothing has  *)
(* changed.                                                                *)
DieStarting ==
    /\ ~up
    /\ ~Whole(live)
    /\ live' \in CutBlanks
    /\ UNCHANGED <<mapVars, job, up, pwm, bmp, meta, logs, ghosts, counters>>

----------------------------------------------------------------------------

Next ==
    \/ \E t \in Threads, kind \in Kinds : Start(t, kind)
    \/ \E t \in Threads, x \in Columns, y \in Rows, color \in Asked :
          DoSetPixel(t, x, y, color)
    \/ \E t \in Threads, color \in Asked : DoReset(t, color)
    \/ \E t \in Threads : Stamp(t)
    \/ \E t \in Threads : OpenSave(t)
    \/ \E t \in Threads : OpenFails(t)
    \/ \E t \in Threads, n \in 0 .. Size : Flush(t, n)
    \/ \E t \in Threads : CloseSave(t)
    \/ \E t \in Threads : CloseWithLoss(t)
    \/ \E t \in Threads : SaveBmp(t)
    \/ \E t \in Threads : WriteMetadata(t)
    \/ \E t \in Threads : Find(t)
    \/ \E t \in Threads : Parse(t)
    \/ \E t \in Threads, n \in 0 .. Size : ReadOn(t, n)
    \/ \E t \in Threads : EndParse(t)
    \/ \E t \in Threads : DoInstall(t)
    \/ \E t \in Threads : AppendHistory(t)
    \/ \E t \in Threads : AppendAudit(t)
    \/ \E t \in Threads : Reply(t)
    \/ Crash
    \/ Boot
    \/ DieStarting

Spec == Init /\ [][Next]_vars

(* Threads are only compared. *)
Symmetry == Permutations(Threads)

(* What thread t does when the scheduler of the machine lets it run.  The  *)
(* arrival of requests, the failures and the crashes are nobody's duty.    *)
Work(t) ==
    \/ \E x \in Columns, y \in Rows, color \in Asked : DoSetPixel(t, x, y, color)
    \/ \E color \in Asked : DoReset(t, color)
    \/ Stamp(t) \/ OpenSave(t) \/ \E n \in 0 .. Size : Flush(t, n)
    \/ CloseSave(t) \/ SaveBmp(t) \/ WriteMetadata(t)
    \/ Find(t) \/ Parse(t) \/ \E n \in 0 .. Size : ReadOn(t, n)
    \/ EndParse(t) \/ DoInstall(t)
    \/ AppendHistory(t) \/ AppendAudit(t) \/ Reply(t)

FairSpec == Spec /\ \A t \in Threads : WF_vars(Work(t))

----------------------------------------------------------------------------
(* Properties. *)

TypeOK ==
    /\ MapTypeOK
    /\ \A t \in Threads : job[t].kind \in Kinds \cup {"none"}
    /\ live.image \in Images /\ live.written \subseteq Tokens(live.image)
    /\ \A id \in DOMAIN pwm :
          pwm[id].image \in Images /\ pwm[id].written \subseteq Tokens(pwm[id].image)
    /\ \A id \in DOMAIN bmp : bmp[id] \in Pixmaps \cup {CutPicture}
    /\ \A id \in DOMAIN meta : meta[id] \in Nat
    /\ Len(history) <= MaxEntries /\ Len(audit) <= MaxEntries
    /\ held \subseteq Images

(* Thread t has changed the map, or is about to, and its save of map.pwm   *)
(* is not over.                                                            *)
OwesSave(t) == job[t].pc \in {"open", "write"} /\ ~WritesBackup(t)

SavesLive(t) == OwesSave(t) /\ job[t].pc = "write"

(* No map has this number. *)
NoImage == [BlankImage EXCEPT !.sequence = -1]

Durable == INSTANCE DurableMap WITH
    Writers  <- Threads,
    Maps     <- Images,
    BlankMap <- BlankImage,
    Torn     <- NoImage,
    memory   <- MapImage,
    disk     <- IF Whole(live) THEN live.image ELSE NoImage,
    owed     <- {t \in Threads : OwesSave(t)},
    saving   <- {t \in Threads : SavesLive(t)},
    broken   <- <<>> \in spoiled

(* The handlers, their overlapping saves, the crashes and the start do     *)
(* what DurableMap promises of a map and its file: they never change the   *)
(* map under a save, nor leave on the disk anything but the map in memory  *)
(* or a file that no start accepts, nor forget a change, nor start from    *)
(* another map (PixelMap.cpp:126-216, main.cpp:20-27).                     *)
ImplementsDurableMap == Durable!Spec

(* However writers of map.pwm overlap, truncate each other's file and      *)
(* overtake one another, the file is the current map whenever no save is   *)
(* owed: the last one to close has not put an older map there, nor left a  *)
(* hole; and a save that failed is made good by the next                   *)
(* (ApiController.cpp:593, PixelMap.cpp:180-216).                          *)
LiveFileCurrent ==
    up /\ <<>> \notin spoiled /\ (\A t \in Threads : ~OwesSave(t))
    => Whole(live) /\ live.image = MapImage

(* A restart from a whole map.pwm brings back the map of that file, and    *)
(* with it every pixel, reset or rollback that was answered with success   *)
(* and not rolled back, also when some saves failed or were refused by the *)
(* disk (main.cpp:25).                                                     *)
RestartKeepsAcked ==
    [][~up /\ up' /\ Whole(live)
          => MapImage' = live.image /\ acked <= sequence']_vars

(* The map in memory is always one that some write made: neither a torn    *)
(* file, nor one with a hole, nor a map.pwm that several threads wrote at  *)
(* once, nor a backup that the disk cut short is ever taken for a map by a *)
(* restart or a rollback (PixelMap.cpp:126-170, MapBackup.cpp:236), unless *)
(* two backups were given one name: a rollback reads without the lock, and *)
(* the second writer of a listed file may rewrite it in the middle.        *)
MemoryIsReal == up /\ ~twins => MapImage \in held

(* A rollback installs the very map of the backup that it found, number    *)
(* and pixels, and that backup is whole on the disk: its safety backup,    *)
(* the reading in pieces without the lock and the wait for the lock come   *)
(* between, and other handlers write, back up and roll back meanwhile      *)
(* (ApiController.cpp:732-751, PixelMap.cpp:126-177), unless two backups   *)
(* were given one name.                                                    *)
RollbackRestores ==
    [][\A t \in Threads :
          job[t].pc = "install" /\ job'[t].pc = "open" /\ ~twins
          => /\ Whole(pwm[job[t].loaded])
             /\ MapImage' = pwm[job[t].loaded].image]_vars

(* A listed backup (findMapBackup needs both files) is a whole map file    *)
(* of a map that really was, so every listed backup can be rolled back to  *)
(* (MapBackup.cpp:236-253: the metadata is written last), unless the disk  *)
(* refused it or another backup has its name.                              *)
ListedBackupIsWhole ==
    \A id \in DOMAIN meta \ spoiled :
        /\ id \in DOMAIN pwm
        /\ twins \/ (Whole(pwm[id]) /\ pwm[id].image \in held)

(* A listed backup is never touched again, though several be made in one   *)
(* millisecond (MapBackup.cpp:229-234: a new backup looks for a name of    *)
(* its own), unless two look for it before either has its file.            *)
ListedBackupKept == [][~twins => \A id \in DOMAIN meta : pwm'[id] = pwm[id]]_vars

(* Nothing is overwritten before it is safe: a reset or a rollback that is *)
(* about to change the map has a listed backup with every write that was   *)
(* there when the backup was numbered and has not been rolled back since   *)
(* (README.md:164), unless the disk refused it.                            *)
SafetyBackup ==
    \A t \in Threads :
        job[t].pc \in {"reset", "parse", "read", "install"} /\ job[t].id \notin spoiled /\ ~twins =>
            /\ job[t].id \in DOMAIN meta
            /\ Whole(pwm[job[t].id])
            /\ pwm[job[t].id].image.sequence >= job[t].lasting

(* Every pixel answered with success is in the history, and every answered *)
(* action of the administrator in the audit log, over restarts, until it   *)
(* is among the last maxEntries_ no more; a line that the disk or a crash  *)
(* cut costs itself and at most the one behind it (PixelHistory.cpp:114,   *)
(* AuditLog.cpp:101, README.md:164).                                       *)
LogsShowAnswered ==
    /\ \A n \in told : \E i \in DOMAIN placed \cup DOMAIN acted :
          \/ i \in DOMAIN placed /\ placed[i].what = n
          \/ i \in DOMAIN acted /\ acted[i].what = n
    /\ History!ShowsRecent /\ Audit!ShowsRecent

Overtakes(log) ==
    \E m, n \in DOMAIN log :
        m < n /\ log[m].what # 0 /\ log[n].what \in earlier[log[m].what]

(* The logs show what happened and nothing else, over restarts: a line     *)
(* that was cut or glued to another never passes for another's, and two    *)
(* handlers are listed in the other order only if they ran at once: the    *)
(* entry is written after the lock is released (ApiController.cpp:595).    *)
LogsTellTruth ==
    /\ History!ShowsNothingElse /\ Audit!ShowsNothingElse
    /\ ~Overtakes(history) /\ ~Overtakes(audit)

(* No handler waits for ever: the lock that saveBinary shares and setPixel,*)
(* reset and loadBinary need alone is always given back.  The readers are  *)
(* as few as the jobs; a lock that lets new ones pass a writer for ever is *)
(* outside it.                                                             *)
HandlersEnd == \A t \in Threads : job[t].pc # "idle" ~> job[t].pc = "idle"

(* README.md:5 calls the map persistent: a pixel answered with success is  *)
(* there after a restart, whenever the process was killed.                 *)
AckedSurvivesCrash == [][~up /\ up' => acked <= sequence']_vars

(* README.md:164: the backup and the screenshot made before a reset show   *)
(* the final state, so what a reset clears is what they hold.              *)
FinalStateInBackup ==
    [][\A t \in Threads : job[t].pc = "reset" /\ job'[t].pc = "open"
          => pwm[job[t].id].image.pixels = pixels /\ bmp[job[t].id] = pixels]_vars

============================================================================
