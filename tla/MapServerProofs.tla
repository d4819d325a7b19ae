-------------------------- MODULE MapServerProofs --------------------------
(***************************************************************************)
(* What the handlers, their files, crashes and restarts keep, for any map, *)
(* any threads, any handlers and any bounds on jobs, crashes and faults.   *)
(*                                                                         *)
(* The invariant IInv has four layers.  Shapes says what a job, a file, a  *)
(* backup's name and a log look like, and that the file a thread has open  *)
(* is of the map in memory, since no one changes the map meanwhile.  On it *)
(* rest LiveSaved (map.pwm is current, or a thread is about to make it so  *)
(* or has written all of it up to its offset) and, while no two jobs have  *)
(* one name, BackupsSaved (the same of each backup).  RealMaps is about    *)
(* the maps themselves: those in memory and in the files were made by      *)
(* writes, and what a rollback has read so far is the backup it found,     *)
(* for a listed backup is not written again.  The last layer is about      *)
(* numbers: what a safety backup holds and what was answered.              *)
(*                                                                         *)
(* A lemma ...Step says once what each action does, as far as the second   *)
(* and third layer look at it.                                             *)
(*                                                                         *)
(* LogInv, at the end of the module, is kept beside IInv: it is about the  *)
(* two logs, their files and the handlers that are answered, and needs of  *)
(* IInv only what jobs and logs look like.                                 *)
(***************************************************************************)
EXTENDS MapServer, PixelMapProofs

USE ServerAssumption

----------------------------------------------------------------------------
(* What threads do, and where. *)

Reasons == {"before-reset", "manual", "hourly", "before-rollback"}
Ids     == Nat \X Reasons \X Nat \X Nat

BackupSteps == {"open", "write", "bmp", "meta"}

Steps == BackupSteps \cup {"setPixel", "stamp", "reset", "find", "parse", "read", "install",
                           "history", "audit", "reply"}

Jobs == [kind : Kinds, pc : Steps, serial : Nat, target : {"live", "backup"},
         id : Ids \cup {<<>>}, number : Nat, lasting : Nat, offset : Nat,
         loaded : Ids \cup {<<>>}, read : FileRecords]

(* The steps of each handler outside its backup. *)
InHandler(kind, pc) ==
    \/ kind = "pixel" /\ pc \in {"setPixel", "open", "write", "history", "reply"}
    \/ kind = "reset" /\ pc \in {"stamp", "reset", "open", "write", "audit", "reply"}
    \/ kind = "create" /\ pc \in {"stamp", "audit", "reply"}
    \/ kind = "hourly" /\ pc = "stamp"
    \/ kind = "rollback" /\ pc \in {"find", "stamp", "parse", "read", "install", "open",
                                    "write", "audit", "reply"}

InBackup(j) == j.pc \in BackupSteps /\ j.kind # "pixel" /\ j.id \in Ids

IsJob(j) ==
    /\ j \in Jobs
    /\ j.target = "backup" => InBackup(j)
    /\ j.target = "live" => InHandler(j.kind, j.pc)

JobsFit ==
    /\ DOMAIN job = Threads /\ job = [t \in Threads |-> job[t]]
    /\ \A t \in Threads : job[t] = IdleJob \/ IsJob(job[t])

(* A thread that is at a step has a job. *)
LEMMA BusyIsJob ==
    ASSUME JobsFit, NEW t \in Threads, job[t].pc # "idle"
    PROVE  IsJob(job[t])
BY DEF JobsFit, IdleJob

(* Another record in the place of t's job. *)
LEMMA JobChanged ==
    ASSUME JobsFit, NEW t \in Threads, NEW j, j = IdleJob \/ IsJob(j),
           job' = [job EXCEPT ![t] = j]
    PROVE  /\ JobsFit'
           /\ job'[t] = j
           /\ \A u \in Threads \ {t} : job'[u] = job[u]
BY DEF JobsFit

(* The end of a handler, or of a request that is refused. *)
LEMMA FinishJob ==
    ASSUME JobsFit, NEW t \in Threads, Finish(t)
    PROVE  /\ JobsFit'
           /\ job'[t] = IdleJob /\ job'[t].pc = "idle" /\ job'[t].kind = "none"
           /\ \A u \in Threads \ {t} : job'[u] = job[u]
<1>1. job' = [job EXCEPT ![t] = IdleJob] /\ IdleJob.pc = "idle" /\ IdleJob.kind = "none"
  BY DEF Finish, IdleJob
<1>2. QED  BY <1>1, JobChanged, Zenon

(* The fields that a step leaves alone. *)
Keeps(t) ==
    /\ job'[t].kind = job[t].kind
    /\ job'[t].id = job[t].id
    /\ job'[t].serial = job[t].serial
    /\ job'[t].lasting = job[t].lasting
    /\ job'[t].loaded = job[t].loaded
    /\ job'[t].read = job[t].read

(* The next step of a handler. *)
LEMMA GoJob ==
    ASSUME JobsFit, NEW t \in Threads, job[t].pc # "idle", NEW pc \in Steps, Go(t, pc),
           job[t].target = "backup" => pc \in BackupSteps,
           job[t].target = "live" => InHandler(job[t].kind, pc)
    PROVE  /\ JobsFit'
           /\ job'[t].pc = pc /\ Keeps(t)
           /\ job'[t].target = job[t].target /\ job'[t].offset = job[t].offset
           /\ \A u \in Threads \ {t} : job'[u] = job[u]
<1> DEFINE j == [job[t] EXCEPT !.pc = pc]
<1>1. IsJob(job[t])
  BY BusyIsJob
<1>2. job[t] \in Jobs
  BY <1>1 DEF IsJob
<1>3. /\ j \in Jobs /\ j.pc = pc /\ j.kind = job[t].kind /\ j.id = job[t].id
      /\ j.serial = job[t].serial /\ j.lasting = job[t].lasting /\ j.loaded = job[t].loaded
      /\ j.read = job[t].read /\ j.target = job[t].target /\ j.offset = job[t].offset
  BY <1>2 DEF Jobs, Steps, BackupSteps
<1>4. IsJob(j)
  BY <1>1, <1>3 DEF IsJob, InBackup
<1>5. job' = [job EXCEPT ![t] = j]
  BY DEF Go
<1> HIDE DEF j
<1>6. /\ JobsFit' /\ job'[t] = j
      /\ \A u \in Threads \ {t} : job'[u] = job[u]
  BY <1>4, <1>5, JobChanged, Zenon
<1>7. QED  BY <1>3, <1>6 DEF Keeps

----------------------------------------------------------------------------
(* What each step does to the jobs. *)

(* Nothing happens to the jobs of the other threads. *)
Alone(t) == \A u \in Threads \ {t} : job'[u] = job[u]

(* A job that reads no file has the file of the blank map. *)
LEMMA BlankFileIsRecord == FileOf(BlankImage) \in FileRecords
<1>1. BlankImage \in Images
  BY BlankIsPixmap DEF BlankImage, Images
<1>2. Tokens(BlankImage) \in SUBSET Tokens(BlankImage)
  OBVIOUS
<1>3. Content(BlankImage, Tokens(BlankImage)) = FileOf(BlankImage)
  BY <1>1, WholeContent
<1>4. QED  BY <1>1, <1>2, <1>3, ContentIsRecord

(* The first step of a handler. *)
LEMMA StartJob ==
    ASSUME JobsFit, MapTypeOK, jobs \in Nat, NEW t \in Threads, NEW kind \in Kinds,
           Start(t, kind)
    PROVE  /\ JobsFit' /\ Alone(t)
           /\ job[t].pc = "idle"
           /\ job'[t].kind = kind /\ job'[t].target = "live" /\ job'[t].id = <<>>
           /\ job'[t].pc \in {"setPixel", "stamp", "find"}
           /\ kind = "rollback" => job'[t].pc = "find"
           /\ job'[t].lasting = 0
<1> DEFINE j == [kind |-> kind, pc |-> FirstStep[kind], serial |-> jobs + 1,
                 target |-> "live", id |-> <<>>, number |-> 0, lasting |-> 0,
                 offset |-> 0, loaded |-> <<>>, read |-> FileOf(BlankImage)]
<1>1. FileOf(BlankImage) \in FileRecords
  BY BlankFileIsRecord
<1>2. /\ FirstStep[kind] \in {"setPixel", "stamp", "find"}
      /\ InHandler(kind, FirstStep[kind])
      /\ kind = "rollback" => FirstStep[kind] = "find"
  <2>1. /\ FirstStep["pixel"] = "setPixel" /\ FirstStep["rollback"] = "find"
        /\ FirstStep["reset"] = "stamp" /\ FirstStep["create"] = "stamp"
        /\ FirstStep["hourly"] = "stamp"
    BY DEF FirstStep
  <2>2. kind \in {"pixel", "reset", "create", "hourly", "rollback"}
    OBVIOUS
  <2>3. QED  BY <2>1, <2>2, Zenon DEF InHandler
<1>3. j \in Jobs
  BY <1>1, <1>2 DEF Jobs, Steps
<1>4. IsJob(j)
  BY <1>2, <1>3 DEF IsJob
<1>5. job' = [job EXCEPT ![t] = j] /\ job[t].pc = "idle"
  BY DEF Start, At
<1>6. /\ j.kind = kind /\ j.target = "live" /\ j.id = <<>>
      /\ j.pc \in {"setPixel", "stamp", "find"} /\ j.lasting = 0
      /\ kind = "rollback" => j.pc = "find"
  BY <1>2
<1> HIDE DEF j
<1>7. JobsFit' /\ job'[t] = j /\ Alone(t)
  BY <1>4, <1>5, JobChanged, Zenon DEF Alone
<1>8. QED  BY <1>5, <1>6, <1>7

(* setPixel and reset: the change is to be saved. *)
LEMMA ChangeJob ==
    ASSUME JobsFit, NEW t \in Threads, NEW pc \in {"setPixel", "reset"}, job[t].pc = pc,
           NEW n \in Nat,
           job' = [job EXCEPT ![t].pc = "open", ![t].number = n, ![t].lasting = n]
    PROVE  /\ JobsFit' /\ Alone(t)
           /\ job[t].target = "live" /\ job'[t].target = "live"
           /\ job'[t].kind = job[t].kind /\ job'[t].id = job[t].id
           /\ job[t].kind # "create" /\ job[t].kind # "hourly" /\ job[t].kind # "rollback"
           /\ job'[t].pc = "open" /\ job'[t].lasting = n
<1> DEFINE j == [job[t] EXCEPT !.pc = "open", !.number = n, !.lasting = n]
<1>1. IsJob(job[t])
  BY BusyIsJob
<1>2. job[t] \in Jobs /\ job[t].target = "live" /\ InHandler(job[t].kind, job[t].pc)
  BY <1>1 DEF IsJob, InBackup, BackupSteps, Jobs
<1>3. /\ j \in Jobs /\ j.pc = "open" /\ j.kind = job[t].kind /\ j.id = job[t].id
      /\ j.target = "live" /\ j.lasting = n
  BY <1>2 DEF Jobs, Steps, BackupSteps
<1>4. /\ IsJob(j)
      /\ job[t].kind # "create" /\ job[t].kind # "hourly" /\ job[t].kind # "rollback"
  BY <1>2, <1>3 DEF IsJob, InHandler
<1>5. job' = [job EXCEPT ![t] = j]
  BY DEF JobsFit
<1> HIDE DEF j
<1>6. JobsFit' /\ job'[t] = j /\ Alone(t)
  BY <1>4, <1>5, JobChanged, Zenon DEF Alone
<1>7. QED  BY <1>2, <1>3, <1>4, <1>6

(* A backup gets its name. *)
LEMMA StampJob ==
    ASSUME JobsFit, NEW t \in Threads, job[t].pc = "stamp", NEW n \in Nat, NEW name \in Ids,
           job' = [job EXCEPT ![t] = [job[t] EXCEPT !.pc = "open", !.target = "backup",
                                         !.id = name, !.number = n, !.lasting = n]]
    PROVE  /\ JobsFit' /\ Alone(t)
           /\ job[t].target = "live" /\ job'[t].target = "backup"
           /\ job'[t].kind = job[t].kind /\ job[t].kind # "pixel"
           /\ job'[t].loaded = job[t].loaded
           /\ job'[t].pc = "open" /\ job'[t].id = name /\ job'[t].lasting = n
<1> DEFINE j == [job[t] EXCEPT !.pc = "open", !.target = "backup", !.id = name,
                               !.number = n, !.lasting = n]
<1>1. IsJob(job[t])
  BY BusyIsJob
<1>2. job[t] \in Jobs /\ job[t].target = "live" /\ InHandler(job[t].kind, job[t].pc)
  BY <1>1 DEF IsJob, InBackup, BackupSteps, Jobs
<1>3. /\ j \in Jobs /\ j.pc = "open" /\ j.kind = job[t].kind /\ j.id = name
      /\ j.target = "backup" /\ j.lasting = n /\ j.loaded = job[t].loaded
  BY <1>2 DEF Jobs, Steps, BackupSteps
<1>4. IsJob(j) /\ job[t].kind # "pixel"
  BY <1>2, <1>3 DEF IsJob, InHandler, InBackup, BackupSteps
<1>5. job' = [job EXCEPT ![t] = j]
  BY DEF JobsFit
<1> HIDE DEF j
<1>6. JobsFit' /\ job'[t] = j /\ Alone(t)
  BY <1>4, <1>5, JobChanged, Zenon DEF Alone
<1>7. QED  BY <1>2, <1>3, <1>4, <1>6

(* The writer moves on in its file, or has just opened it. *)
LEMMA WriterJob ==
    ASSUME JobsFit, NEW t \in Threads, job[t].pc \in {"open", "write"}, NEW n \in Nat,
           job' = [job EXCEPT ![t].pc = "write", ![t].offset = n]
    PROVE  /\ JobsFit' /\ Alone(t)
           /\ Keeps(t) /\ job'[t].target = job[t].target
           /\ job'[t].pc = "write" /\ job'[t].offset = n
<1> DEFINE j == [job[t] EXCEPT !.pc = "write", !.offset = n]
<1>1. IsJob(job[t])
  BY BusyIsJob
<1>2. job[t] \in Jobs
  BY <1>1 DEF IsJob
<1>3. /\ j \in Jobs /\ j.pc = "write" /\ j.kind = job[t].kind /\ j.id = job[t].id
      /\ j.serial = job[t].serial /\ j.lasting = job[t].lasting /\ j.loaded = job[t].loaded
      /\ j.read = job[t].read /\ j.target = job[t].target /\ j.offset = n
  BY <1>2 DEF Jobs, Steps, BackupSteps
<1>4. IsJob(j)
  BY <1>1, <1>3 DEF IsJob, InBackup, InHandler, BackupSteps
<1>5. job' = [job EXCEPT ![t] = j]
  BY DEF JobsFit
<1> HIDE DEF j
<1>6. JobsFit' /\ job'[t] = j /\ Alone(t)
  BY <1>4, <1>5, JobChanged, Zenon DEF Alone
<1>7. QED  BY <1>3, <1>6 DEF Keeps

(* saveBinary returns: a backup gets its other files, a change is logged. *)
LEMMA CloseJob ==
    ASSUME JobsFit, NEW t \in Threads, job[t].pc = "write",
           NEW pc \in AfterClose(t), Go(t, pc)
    PROVE  /\ JobsFit' /\ Alone(t)
           /\ Keeps(t) /\ job'[t].target = job[t].target
           /\ job'[t].pc \in {"bmp", "meta", "history", "audit"}
           /\ job'[t].pc \in {"bmp", "meta"} <=> WritesBackup(t)
           /\ job'[t].pc \in {"bmp", "meta"} <=> WritesBackup(t)'
           /\ ~WritesBackup(t) => job[t].kind # "create"
<1>1. IsJob(job[t])
  BY BusyIsJob
<1>2. /\ job[t] \in Jobs
      /\ WritesBackup(t) => InBackup(job[t])
      /\ ~WritesBackup(t) => InHandler(job[t].kind, job[t].pc)
  BY <1>1 DEF IsJob, WritesBackup, Jobs
<1>3. CASE WritesBackup(t)
  <2>1. pc \in {"bmp", "meta"}
    BY <1>3 DEF AfterClose
  <2>2. JobsFit' /\ Alone(t) /\ Keeps(t) /\ job'[t].target = job[t].target /\ job'[t].pc = pc
    BY <1>3, <2>1, GoJob DEF WritesBackup, BackupSteps, Alone, Steps
  <2>3. QED  BY <1>3, <2>1, <2>2 DEF WritesBackup
<1>4. CASE ~WritesBackup(t)
  <2>1. job[t].kind \in {"pixel", "reset", "rollback"}
    BY <1>2, <1>4 DEF InHandler
  <2>2. pc = AfterSave[job[t].kind]
    BY <1>4 DEF AfterClose
  <2>3. pc \in {"history", "audit"} /\ InHandler(job[t].kind, pc)
    BY <2>1, <2>2 DEF AfterSave, InHandler
  <2>4. JobsFit' /\ Alone(t) /\ Keeps(t) /\ job'[t].target = job[t].target /\ job'[t].pc = pc
    BY <1>4, <2>3, GoJob DEF WritesBackup, Alone, Steps, BackupSteps
  <2>5. QED  BY <1>4, <2>1, <2>3, <2>4 DEF WritesBackup
<1>5. QED  BY <1>3, <1>4

(* The screenshot and the metadata belong to a backup. *)
LEMMA BackupJob ==
    ASSUME JobsFit, NEW t \in Threads, job[t].pc \in {"bmp", "meta"}
    PROVE  /\ job[t].target = "backup" /\ job[t].kind # "pixel" /\ job[t].id \in Ids
           /\ job[t] \in Jobs
BY BusyIsJob DEF IsJob, InBackup, InHandler, Jobs

(* The screenshot is written. *)
LEMMA BmpJob ==
    ASSUME JobsFit, NEW t \in Threads, job[t].pc = "bmp", Go(t, "meta")
    PROVE  /\ JobsFit' /\ Alone(t)
           /\ Keeps(t) /\ job'[t].target = job[t].target /\ job'[t].pc = "meta"
BY BackupJob, GoJob DEF Alone, BackupSteps, Steps

(* The backup is complete: the handler goes on with what it is for. *)
LEMMA MetaJob ==
    ASSUME JobsFit, NEW t \in Threads, job[t].pc = "meta",
           IF job[t].kind = "hourly"
           THEN Finish(t)
           ELSE job' = [job EXCEPT ![t].pc = AfterBackup[job[t].kind], ![t].target = "live"]
    PROVE  /\ JobsFit' /\ Alone(t)
           /\ job[t].target = "backup" /\ job[t].id \in Ids
           /\ \/ job'[t].pc = "idle" /\ job'[t].kind = "none"
              \/ /\ Keeps(t) /\ job'[t].target = "live"
                 /\ \/ job'[t].pc \in {"reset", "parse"}
                    \/ job'[t].pc = "audit" /\ job[t].kind = "create"
                 /\ job'[t].pc = "parse" => job[t].kind = "rollback"
<1>1. /\ job[t].target = "backup" /\ job[t].kind # "pixel" /\ job[t].id \in Ids
      /\ job[t] \in Jobs
  BY BackupJob
<1>2. CASE job[t].kind = "hourly"
  BY <1>1, <1>2, FinishJob DEF Alone
<1>3. CASE job[t].kind # "hourly"
  <2> DEFINE pc == AfterBackup[job[t].kind]
             j == [job[t] EXCEPT !.pc = pc, !.target = "live"]
  <2>1. job[t].kind \in {"reset", "create", "rollback"}
    BY <1>1, <1>3 DEF Jobs
  <2>2. /\ pc \in {"reset", "parse"} \/ (pc = "audit" /\ job[t].kind = "create")
        /\ InHandler(job[t].kind, pc) /\ (pc = "parse" => job[t].kind = "rollback")
    BY <2>1 DEF AfterBackup, InHandler
  <2> HIDE DEF pc
  <2>3. pc \in Steps
    BY <2>2 DEF Steps
  <2>4. /\ j \in Jobs /\ j.pc = pc /\ j.kind = job[t].kind /\ j.id = job[t].id
        /\ j.serial = job[t].serial /\ j.lasting = job[t].lasting /\ j.loaded = job[t].loaded
        /\ j.read = job[t].read /\ j.target = "live"
    BY <1>1, <2>3 DEF Jobs
  <2>5. IsJob(j)
    BY <2>2, <2>4 DEF IsJob
  <2>6. job' = [job EXCEPT ![t] = j]
    BY <1>3 DEF JobsFit, pc
  <2> HIDE DEF j
  <2>7. JobsFit' /\ job'[t] = j /\ Alone(t)
    BY <2>5, <2>6, JobChanged, Zenon DEF Alone
  <2>8. QED  BY <1>1, <2>2, <2>4, <2>7 DEF Keeps
<1>4. QED  BY <1>2, <1>3

(* Among one name more than there are files, one is free. *)
LEMMA SuffixedIsNew ==
    ASSUME IsFiniteSet(DOMAIN pwm), NEW ms \in Nat, NEW reason \in Reasons,
           NEW number \in Nat
    PROVE  Suffixed(ms, reason, number) \in Ids \ DOMAIN pwm
<1> DEFINE k == Cardinality(DOMAIN pwm)
           name(n) == <<ms, reason, number, n>>
           names == {name(n) : n \in 1 .. (k + 1)}
           free  == names \ DOMAIN pwm
           ends  == {id[4] : id \in free}
<1>1. k \in Nat
  BY FS_CardinalityType
<1>2. \A n \in 1 .. (k + 1) : name(n) \in Ids /\ name(n)[4] = n
  BY <1>1 DEF Ids
<1>3. free # {}
  <2> SUFFICES ASSUME free = {} PROVE FALSE
    OBVIOUS
  <2> DEFINE S == 1 .. (k + 1)
             T == DOMAIN pwm
             f == [n \in S |-> name(n)]
  <2>1. f \in [S -> T]
    OBVIOUS
  <2>2. IsFiniteSet(S) /\ Cardinality(S) = k + 1
    <3> HIDE DEF k
    <3>1. 1 \in Int /\ k + 1 \in Int /\ ~(1 > k + 1) /\ (k + 1) - 1 + 1 = k + 1
      BY <1>1
    <3>2. QED  BY <3>1, FS_Interval
  <2>3. IsFiniteSet(T) /\ Cardinality(T) < Cardinality(S)
    BY <1>1, <2>2
  <2>4. \A n \in S : f[n] = name(n)
    OBVIOUS
  <2> HIDE DEF f, S, T
  <2>5. \E x, y \in S : x # y /\ f[x] = f[y]
    BY ONLY <2>1, <2>2, <2>3, FS_PigeonHole
  <2>6. PICK x \in S, y \in S : x # y /\ f[x] = f[y]
    BY <2>5
  <2>7. name(x)[4] = name(y)[4] /\ x # y
    BY <2>4, <2>6
  <2>8. QED  BY <1>2, <2>7 DEF S
<1>4. ends \in SUBSET Nat /\ ends # {}
  BY <1>1, <1>2, <1>3
<1>5. PICK least \in ends : \A m \in ends : least <= m
  BY <1>4, LeastNumber
<1>6. \E id \in free : \A other \in free : id[4] <= other[4]
  BY <1>5
<1>7. Suffixed(ms, reason, number)
        = CHOOSE id \in free : \A other \in free : id[4] <= other[4]
  BY DEF Suffixed
<1>8. Suffixed(ms, reason, number) \in free
  BY <1>6, <1>7
<1>9. free \subseteq Ids \ DOMAIN pwm
  BY <1>2
<1>10. QED  BY <1>8, <1>9

----------------------------------------------------------------------------
(* The types, with what the names of backups refer to. *)

IsFile(file) ==
    /\ file \in [image : Images, written : SUBSET Nat]
    /\ file.written \subseteq Tokens(file.image)

FilesFit ==
    /\ held \subseteq Images /\ BlankImage \in held
    /\ IsFile(live)
    /\ IsFiniteSet(DOMAIN pwm)
    /\ \A id \in DOMAIN pwm : id \in Ids /\ IsFile(pwm[id])
    /\ DOMAIN meta \subseteq DOMAIN pwm
    /\ \A id \in DOMAIN meta : meta[id] \in Nat
    /\ \A id \in DOMAIN bmp : bmp[id] \in Pixmaps \cup {CutPicture}

(* The thread is making a backup; it has not installed the one to restore. *)
BacksUp(t)  == job[t].pc \in BackupSteps /\ WritesBackup(t)
HasFile(t)  == job[t].pc \in {"write", "bmp", "meta"} /\ WritesBackup(t)
Restores(t) ==
    /\ job[t].kind = "rollback"
    /\ BacksUp(t) \/ job[t].pc \in {"stamp", "parse", "read", "install"}

NameFits(t) ==
    /\ HasFile(t) => job[t].id \in DOMAIN pwm
    /\ Restores(t) => job[t].loaded \in DOMAIN pwm
    /\ job[t].pc = "install" => Loads(job[t].read)

NamesFit == \A t \in Threads : NameFits(t)

(* While a file is open, its map is the map in memory. *)
WritersFit == \A t \in Threads : job[t].pc = "write" => Target(t).image = MapImage

(* A log in memory, and its file. *)
IsSequence(log) == \E S : log \in Seq(S)

LogFits(log, file) == IsSequence(log) /\ Len(log) <= MaxEntries /\ IsSequence(file)

LogsFit == LogFits(history, historyFile) /\ LogFits(audit, auditFile)

NumbersFit == clock \in Nat /\ jobs \in Nat

Shapes ==
    /\ MapTypeOK /\ JobsFit /\ FilesFit /\ NamesFit /\ WritersFit
    /\ LogsFit /\ NumbersFit

(* They include the types. *)
LEMMA ShapesGiveTypes == Shapes => TypeOK
<1> SUFFICES ASSUME Shapes PROVE TypeOK
  OBVIOUS
<1>1. \A t \in Threads : job[t].kind \in Kinds \cup {"none"}
  BY DEF Shapes, JobsFit, IsJob, Jobs, IdleJob
<1>2. live.image \in Images /\ live.written \subseteq Tokens(live.image)
  BY DEF Shapes, FilesFit, IsFile
<1>3. \A id \in DOMAIN pwm :
         pwm[id].image \in Images /\ pwm[id].written \subseteq Tokens(pwm[id].image)
  BY DEF Shapes, FilesFit, IsFile
<1>4. QED  BY <1>1, <1>2, <1>3 DEF Shapes, TypeOK, FilesFit, LogsFit, LogFits

----------------------------------------------------------------------------
(* The jobs of a rollback. *)

(* A rollback stays the one it was. *)
Carries(t) ==
    /\ job'[t].kind = "rollback" /\ job[t].kind = "rollback"
    /\ job'[t].target = "live" /\ job'[t].id = job[t].id
    /\ job'[t].serial = job[t].serial /\ job'[t].lasting = job[t].lasting

(* A rollback is refused, or has the name of a backup to restore. *)
LEMMA FindJob ==
    ASSUME JobsFit, FilesFit, NEW t \in Threads, Find(t)
    PROVE  /\ JobsFit' /\ Alone(t)
           /\ \/ job'[t].pc = "idle" /\ job'[t].kind = "none"
              \/ /\ Carries(t) /\ job'[t].pc = "stamp"
                 /\ job'[t].loaded \in DOMAIN meta /\ job'[t].loaded \in DOMAIN pwm
<1>1. IsJob(job[t])
  BY BusyIsJob DEF Find, At
<1>2. job[t] \in Jobs /\ job[t].target = "live" /\ job[t].kind = "rollback"
  BY <1>1 DEF IsJob, InBackup, BackupSteps, Jobs, InHandler, Find, At
<1>3. CASE Finish(t)
  BY <1>3, FinishJob DEF Alone
<1>4. ASSUME NEW id \in Listed, job' = [job EXCEPT ![t].pc = "stamp", ![t].loaded = id]
      PROVE  /\ JobsFit' /\ Alone(t)
             /\ Carries(t) /\ job'[t].pc = "stamp"
             /\ job'[t].loaded \in DOMAIN meta /\ job'[t].loaded \in DOMAIN pwm
  <2> DEFINE j == [job[t] EXCEPT !.pc = "stamp", !.loaded = id]
  <2>1. id \in Ids /\ id \in DOMAIN meta /\ id \in DOMAIN pwm
    BY DEF Listed, FilesFit
  <2>2. /\ j \in Jobs /\ j.pc = "stamp" /\ j.kind = "rollback" /\ j.id = job[t].id
        /\ j.target = "live" /\ j.serial = job[t].serial /\ j.lasting = job[t].lasting
        /\ j.loaded = id
    BY <1>2, <2>1 DEF Jobs, Steps
  <2>3. IsJob(j)
    BY <2>2 DEF IsJob, InHandler
  <2>4. job' = [job EXCEPT ![t] = j]
    BY <1>4 DEF JobsFit
  <2> HIDE DEF j
  <2>5. JobsFit' /\ job'[t] = j /\ Alone(t)
    BY <2>3, <2>4, JobChanged, Zenon DEF Alone
  <2>6. QED  BY <1>2, <2>1, <2>2, <2>5 DEF Carries
<1>5. QED  BY <1>3, <1>4 DEF Find

(* A file that loads is whole, and gives its map. *)
LEMMA LoadedFile ==
    ASSUME NEW file, IsFile(file)
    PROVE  /\ Content(file.image, file.written) \in FileRecords
           /\ Loads(Content(file.image, file.written)) <=> Whole(file)
           /\ Whole(file) => LoadedImage(Content(file.image, file.written)) = file.image
           /\ file.image \in Images
<1>1. file.image \in Images /\ file.written \in SUBSET Tokens(file.image)
  BY DEF IsFile
<1>2. QED  BY <1>1, ContentIsRecord, WholeFileLoads, TornFileFails DEF Whole

(* What a rollback finds when it opens its backup, or reads on in it. *)
LEMMA FoundIsRecord ==
    ASSUME FilesFit, NamesFit, NEW t \in Threads, Restores(t)
    PROVE  Found(t) \in FileRecords
<1>1. IsFile(pwm[job[t].loaded])
  BY DEF NamesFit, NameFits, FilesFit
<1>2. QED  BY <1>1, LoadedFile DEF Found

(* A rollback that reads its backup, or has read it. *)
LEMMA Reader ==
    ASSUME JobsFit, NEW t \in Threads, job[t].pc \in {"parse", "read", "install"}
    PROVE  /\ job[t] \in Jobs /\ job[t].target = "live" /\ job[t].kind = "rollback"
           /\ Restores(t)
<1>1. IsJob(job[t])
  BY BusyIsJob
<1>2. job[t] \in Jobs /\ job[t].target = "live" /\ job[t].kind = "rollback"
  BY <1>1 DEF IsJob, InBackup, BackupSteps, Jobs, InHandler
<1>3. QED  BY <1>2 DEF Restores

(* The reader gets on. *)
LEMMA ReaderJob ==
    ASSUME JobsFit, NEW t \in Threads, job[t].pc \in {"parse", "read"},
           NEW j \in Jobs, j.pc \in {"read", "install"},
           j.kind = job[t].kind, j.target = job[t].target, j.id = job[t].id,
           j.serial = job[t].serial, j.lasting = job[t].lasting,
           job' = [job EXCEPT ![t] = j]
    PROVE  /\ JobsFit' /\ Alone(t) /\ Carries(t)
           /\ job'[t] = j
<1>1. job[t] \in Jobs /\ job[t].target = "live" /\ job[t].kind = "rollback"
  BY Reader
<1>2. IsJob(j)
  BY <1>1 DEF IsJob, InHandler
<1>3. JobsFit' /\ job'[t] = j /\ Alone(t)
  BY <1>2, JobChanged, Zenon DEF Alone
<1>4. QED  BY <1>1, <1>3 DEF Carries

(* The backup is opened, and read ahead. *)
LEMMA ParseJob ==
    ASSUME JobsFit, FilesFit, NamesFit, NEW t \in Threads, Parse(t)
    PROVE  /\ JobsFit' /\ Alone(t) /\ Carries(t)
           /\ job'[t].pc = "read" /\ job'[t].loaded = job[t].loaded
           /\ job'[t].read = Found(t)
<1>1. /\ job[t].pc = "parse"
      /\ job' = [job EXCEPT ![t] = [job[t] EXCEPT !.pc = "read", !.offset = 0, !.read = Found(t)]]
  BY DEF Parse, At
<1>2. Found(t) \in FileRecords
  BY <1>1, Reader, FoundIsRecord
<1>3. job[t] \in Jobs
  BY <1>1, Reader
<1>4. PICK file \in FileRecords : file = Found(t)
  BY <1>2
<1> DEFINE j == [job[t] EXCEPT !.pc = "read", !.offset = 0, !.read = file]
<1>5. /\ j \in Jobs /\ j.pc = "read" /\ j.kind = job[t].kind /\ j.target = job[t].target
      /\ j.id = job[t].id /\ j.serial = job[t].serial /\ j.lasting = job[t].lasting
      /\ j.loaded = job[t].loaded /\ j.read = file
  BY <1>3 DEF Jobs, Steps
<1>6. job' = [job EXCEPT ![t] = j]
  BY <1>1, <1>4
<1> HIDE DEF j
<1>7. job[t].pc \in {"parse", "read"} /\ j.pc \in {"read", "install"}
  BY <1>1, <1>5
<1>8. JobsFit' /\ Alone(t) /\ Carries(t) /\ job'[t] = j
  BY <1>5, <1>6, <1>7, ReaderJob, Zenon
<1>9. QED  BY <1>4, <1>5, <1>8

(* What is read again is a file that may have been read. *)
LEMMA RereadIsRecord ==
    ASSUME NEW t \in Threads, job[t].read \in FileRecords, Found(t) \in FileRecords,
           NEW n \in 0 .. Len(job[t].read.runs)
    PROVE  Reread(t, n) \in FileRecords
<1> DEFINE old == job[t].read.runs
           new == Found(t).runs
<1>1. old \in Seq(FileRuns) /\ new \in Seq(FileRuns)
  BY DEF FileRecords
<1>2. Reread(t, n) = [job[t].read EXCEPT
                        !.runs = SubSeq(old, 1, n) \o SubSeq(new, n + 1, Len(new))]
  BY DEF Reread
<1> HIDE DEF old, new
<1>3. n \in Nat /\ n <= Len(old)
  BY <1>1 DEF old
<1>4. SubSeq(old, 1, n) \in Seq(FileRuns) /\ SubSeq(new, n + 1, Len(new)) \in Seq(FileRuns)
  BY <1>1, <1>3
<1>5. SubSeq(old, 1, n) \o SubSeq(new, n + 1, Len(new)) \in Seq(FileRuns)
  BY <1>4
<1>6. ASSUME NEW f \in FileRecords, NEW r \in Seq(FileRuns)
      PROVE  [f EXCEPT !.runs = r] \in FileRecords
  BY DEF FileRecords
<1>7. QED  BY <1>2, <1>5, <1>6

(* The reader reads on, from wherever it is. *)
LEMMA ReadOnJob ==
    ASSUME JobsFit, FilesFit, NamesFit, NEW t \in Threads, NEW n \in 0 .. Size, ReadOn(t, n)
    PROVE  /\ JobsFit' /\ Alone(t) /\ Carries(t)
           /\ job'[t].pc = "read" /\ job'[t].loaded = job[t].loaded
           /\ job'[t].read = Reread(t, n)
           /\ n \in 0 .. Len(job[t].read.runs)
<1>1. /\ job[t].pc = "read" /\ n \in job[t].offset .. Len(job[t].read.runs)
      /\ job' = [job EXCEPT ![t] = [job[t] EXCEPT !.offset = n, !.read = Reread(t, n)]]
  BY DEF ReadOn, At
<1>2. job[t] \in Jobs /\ Restores(t)
  BY <1>1, Reader
<1>3. job[t].read \in FileRecords /\ job[t].offset \in Nat
  BY <1>2 DEF Jobs
<1>4. n \in Nat /\ n \in 0 .. Len(job[t].read.runs)
  <2>1. job[t].read.runs \in Seq(FileRuns)
    BY <1>3 DEF FileRecords
  <2>2. Len(job[t].read.runs) \in Nat
    BY <2>1
  <2>3. QED  BY <1>1, <1>3, <2>2
<1>5. Reread(t, n) \in FileRecords
  BY <1>2, <1>3, <1>4, FoundIsRecord, RereadIsRecord
<1>6. PICK file \in FileRecords : file = Reread(t, n)
  BY <1>5
<1> DEFINE j == [job[t] EXCEPT !.offset = n, !.read = file]
<1>7. /\ j \in Jobs /\ j.pc = "read" /\ j.kind = job[t].kind /\ j.target = job[t].target
      /\ j.id = job[t].id /\ j.serial = job[t].serial /\ j.lasting = job[t].lasting
      /\ j.loaded = job[t].loaded /\ j.read = file
  BY <1>1, <1>2, <1>4 DEF Jobs
<1>8. job' = [job EXCEPT ![t] = j]
  BY <1>1, <1>6
<1> HIDE DEF j
<1>9. job[t].pc \in {"parse", "read"} /\ j.pc \in {"read", "install"}
  BY <1>1, <1>7
<1>10. JobsFit' /\ Alone(t) /\ Carries(t) /\ job'[t] = j
  BY <1>7, <1>8, <1>9, ReaderJob, Zenon
<1>11. QED  BY <1>4, <1>6, <1>7, <1>10

(* The backup is refused, or will be installed as it was read. *)
LEMMA EndParseJob ==
    ASSUME JobsFit, NEW t \in Threads, EndParse(t)
    PROVE  /\ JobsFit' /\ Alone(t)
           /\ \/ job'[t].pc = "idle" /\ job'[t].kind = "none"
              \/ /\ Carries(t) /\ job'[t].pc = "install"
                 /\ job'[t].loaded = job[t].loaded /\ job'[t].read = job[t].read
                 /\ Loads(job[t].read)
<1>1. job[t].pc = "read"
  BY DEF EndParse, At
<1>2. job[t] \in Jobs
  BY <1>1, Reader
<1>3. CASE ~Loads(job[t].read)
  <2>1. Finish(t)
    BY <1>3 DEF EndParse
  <2>2. QED  BY <2>1, FinishJob DEF Alone
<1>4. CASE Loads(job[t].read)
  <2> DEFINE j == [job[t] EXCEPT !.pc = "install", !.offset = 0]
  <2>1. job' = [job EXCEPT ![t] = j]
    BY <1>4 DEF EndParse
  <2>2. /\ j \in Jobs /\ j.pc = "install" /\ j.kind = job[t].kind /\ j.target = job[t].target
        /\ j.id = job[t].id /\ j.serial = job[t].serial /\ j.lasting = job[t].lasting
        /\ j.loaded = job[t].loaded /\ j.read = job[t].read
    BY <1>2 DEF Jobs, Steps
  <2> HIDE DEF j
  <2>3. JobsFit' /\ Alone(t) /\ Carries(t) /\ job'[t] = j
    BY <1>1, <2>1, <2>2, ReaderJob
  <2>4. QED  BY <1>4, <2>2, <2>3
<1>5. QED  BY <1>3, <1>4

(* A rollback on the way to its backup's map. *)
LooksUp(t) == Find(t) \/ Parse(t) \/ (\E n \in 0 .. Size : ReadOn(t, n)) \/ EndParse(t)

(* What it has come to. *)
Looked(t) ==
    \/ /\ job[t].pc = "find" /\ job'[t].pc = "stamp"
       /\ job'[t].loaded \in DOMAIN meta /\ job'[t].loaded \in DOMAIN pwm
    \/ /\ job[t].pc = "parse" /\ job'[t].pc = "read" /\ job'[t].loaded = job[t].loaded
       /\ job'[t].read = Found(t)
    \/ /\ job[t].pc = "read" /\ job'[t].pc = "read" /\ job'[t].loaded = job[t].loaded
       /\ \E n \in 0 .. Len(job[t].read.runs) : job'[t].read = Reread(t, n)
    \/ /\ job[t].pc = "read" /\ job'[t].pc = "install" /\ job'[t].loaded = job[t].loaded
       /\ job'[t].read = job[t].read /\ Loads(job[t].read)

LEMMA LooksUpJob ==
    ASSUME JobsFit, FilesFit, NamesFit, NEW t \in Threads, LooksUp(t)
    PROVE  /\ JobsFit' /\ Alone(t)
           /\ job[t].pc \in {"find", "parse", "read"}
           /\ \/ job'[t].pc = "idle" /\ job'[t].kind = "none"
              \/ Carries(t) /\ Looked(t)
<1>1. CASE Find(t)
  <2>1. job[t].pc = "find"
    BY <1>1 DEF Find, At
  <2>2. QED  BY <1>1, <2>1, FindJob DEF Looked
<1>2. CASE Parse(t)
  <2>1. job[t].pc = "parse"
    BY <1>2 DEF Parse, At
  <2>2. QED  BY <1>2, <2>1, ParseJob DEF Looked
<1>3. CASE \E n \in 0 .. Size : ReadOn(t, n)
  <2>1. PICK n \in 0 .. Size : ReadOn(t, n)
    BY <1>3
  <2>2. job[t].pc = "read"
    BY <2>1 DEF ReadOn, At
  <2>3. QED  BY <2>1, <2>2, ReadOnJob DEF Looked
<1>4. CASE EndParse(t)
  <2>1. job[t].pc = "read"
    BY <1>4 DEF EndParse, At
  <2>2. QED  BY <1>4, <2>1, EndParseJob DEF Looked
<1>5. QED  BY <1>1, <1>2, <1>3, <1>4 DEF LooksUp

(* It changes nothing else. *)
LEMMA LooksUpOnly ==
    ASSUME NEW t \in Threads, LooksUp(t)
    PROVE  /\ up /\ UNCHANGED mapVars /\ UNCHANGED files /\ UNCHANGED ghosts
           /\ UNCHANGED counters /\ up' = up
BY DEF LooksUp, Find, Parse, ReadOn, EndParse, At

(* What another thread's rollback does to a job. *)
TakenBack(t) ==
    /\ job'[t].kind = job[t].kind /\ job'[t].pc = job[t].pc
    /\ job'[t].target = job[t].target /\ job'[t].id = job[t].id
    /\ job'[t].offset = job[t].offset /\ job'[t].loaded = job[t].loaded
    /\ job'[t].serial = job[t].serial /\ job'[t].read = job[t].read
    /\ job'[t].lasting = AtMost(job[t].lasting, sequence')

(* A rollback installs its map; the other jobs stay as they are but for    *)
(* what is taken back from them.                                           *)
LEMMA InstallJob ==
    ASSUME JobsFit, FilesFit, NamesFit, NEW t \in Threads, DoInstall(t)
    PROVE  /\ JobsFit'
           /\ job[t].kind = "rollback" /\ job[t].target = "live"
           /\ LoadedImage(job[t].read) \in Images
           /\ job'[t].serial = job[t].serial
           /\ job'[t].kind = "rollback" /\ job'[t].target = "live" /\ job'[t].id = job[t].id
           /\ job'[t].pc = "open" /\ job'[t].lasting = sequence'
           /\ sequence' \in Nat
           /\ \A u \in Threads \ {t} :
                 IF job[u].pc = "idle" THEN job'[u] = job[u] ELSE TakenBack(u)
<1>1. job[t].pc = "install"
  BY DEF DoInstall, At
<1>2. IsJob(job[t])
  BY <1>1, BusyIsJob
<1>3. job[t] \in Jobs /\ job[t].target = "live" /\ job[t].kind = "rollback"
  BY <1>1, <1>2 DEF IsJob, InBackup, BackupSteps, Jobs, InHandler
<1>4. LoadedImage(job[t].read) \in Images
  <2>1. job[t].read \in FileRecords /\ Loads(job[t].read)
    BY <1>1, <1>3 DEF NamesFit, NameFits, Jobs
  <2>2. QED  BY <2>1, LoadedIsImage
<1>5. sequence' = LoadedImage(job[t].read).sequence /\ sequence' \in Nat
  BY <1>4 DEF DoInstall, Install, Images
<1>6. PICK n \in Nat : n = sequence'
  BY <1>5
<1> DEFINE mine == [job[t] EXCEPT !.pc = "open", !.read = FileOf(BlankImage),
                                  !.number = n, !.lasting = n]
           theirs(u) == IF job[u].pc = "idle" THEN job[u]
                        ELSE [job[u] EXCEPT !.lasting = AtMost(@, n)]
<1>7. job' = [u \in Threads |-> IF u = t THEN mine ELSE theirs(u)]
  BY <1>6 DEF DoInstall
<1>8. /\ IsJob(mine) /\ mine.kind = "rollback" /\ mine.target = "live"
      /\ mine.id = job[t].id /\ mine.pc = "open" /\ mine.lasting = n
      /\ mine.serial = job[t].serial
  <2>1. /\ mine \in Jobs /\ mine.kind = "rollback" /\ mine.target = "live"
        /\ mine.id = job[t].id /\ mine.pc = "open" /\ mine.lasting = n
        /\ mine.serial = job[t].serial
    BY <1>3, BlankFileIsRecord DEF Jobs, Steps, BackupSteps
  <2> HIDE DEF mine
  <2>2. QED  BY <2>1 DEF IsJob, InHandler
<1>9. ASSUME NEW u \in Threads, u # t
      PROVE  /\ job'[u] = theirs(u)
             /\ job'[u] = IdleJob \/ IsJob(job'[u])
             /\ IF job[u].pc = "idle" THEN job'[u] = job[u] ELSE TakenBack(u)
  <2>1. job'[u] = theirs(u)
    BY <1>7, <1>9
  <2>2. CASE job[u].pc = "idle"
    <3>1. job'[u] = job[u]
      BY <2>1, <2>2
    <3>2. QED  BY <2>1, <2>2, <3>1 DEF JobsFit
  <2>3. CASE job[u].pc # "idle"
    <3> DEFINE j == [job[u] EXCEPT !.lasting = AtMost(@, n)]
    <3>1. job'[u] = j
      BY <2>1, <2>3
    <3>2. IsJob(job[u])
      BY <2>3, BusyIsJob
    <3>3. job[u] \in Jobs
      BY <3>2 DEF IsJob
    <3>4. AtMost(job[u].lasting, n) \in Nat
      BY <3>3 DEF Jobs, AtMost
    <3>5. /\ j \in Jobs /\ j.kind = job[u].kind /\ j.pc = job[u].pc
          /\ j.target = job[u].target /\ j.id = job[u].id /\ j.offset = job[u].offset
          /\ j.loaded = job[u].loaded /\ j.read = job[u].read
          /\ j.serial = job[u].serial /\ j.lasting = AtMost(job[u].lasting, n)
      BY <3>3, <3>4 DEF Jobs
    <3> HIDE DEF j
    <3>6. IsJob(j)
      BY <3>2, <3>5 DEF IsJob, InBackup
    <3>7. TakenBack(u)
      BY <1>6, <3>1, <3>5 DEF TakenBack
    <3>8. QED  BY <2>1, <2>3, <3>1, <3>6, <3>7
  <2>4. QED  BY <2>2, <2>3
<1> HIDE DEF mine, theirs
<1>10. job'[t] = mine
  BY <1>7
<1>11. JobsFit'
  <2>1. DOMAIN job' = Threads /\ job' = [u \in Threads |-> job'[u]]
    BY <1>7
  <2>2. \A u \in Threads : job'[u] = IdleJob \/ IsJob(job'[u])
    BY <1>8, <1>9, <1>10
  <2>3. QED  BY <2>1, <2>2 DEF JobsFit
<1>12. QED  BY <1>3, <1>4, <1>5, <1>6, <1>8, <1>9, <1>10, <1>11

----------------------------------------------------------------------------
(* The logs. *)

Newest(log) ==
    IF Len(log) > MaxEntries THEN SubSeq(log, Len(log) - MaxEntries + 1, Len(log)) ELSE log

(* The newest entries of a log are at most maxEntries_. *)
LEMMA NewestFits ==
    ASSUME NEW log, IsSequence(log)
    PROVE  IsSequence(Newest(log)) /\ Len(Newest(log)) <= MaxEntries
<1>1. PICK S : log \in Seq(S)
  BY DEF IsSequence
<1>2. Len(log) \in Nat
  BY <1>1
<1>3. CASE Len(log) > MaxEntries
  <2> DEFINE m == Len(log) - MaxEntries + 1
  <2>1. m \in 1 .. Len(log) /\ Len(log) - m + 1 = MaxEntries
    BY <1>2, <1>3
  <2>2. SubSeq(log, m, Len(log)) \in Seq(S) /\ Len(SubSeq(log, m, Len(log))) = MaxEntries
    BY <1>1, <1>2, <2>1
  <2>3. Newest(log) = SubSeq(log, m, Len(log))
    BY <1>3 DEF Newest
  <2> HIDE DEF m
  <2>4. Newest(log) \in Seq(S) /\ Len(Newest(log)) <= MaxEntries
    BY <2>2, <2>3
  <2>5. QED  BY <2>4 DEF IsSequence
<1>4. QED  BY <1>1, <1>2, <1>3 DEF Newest, IsSequence

(* What is appended to a sequence of anything leaves a sequence. *)
LEMMA AppendIsSequence ==
    ASSUME NEW log, IsSequence(log), NEW entry
    PROVE  IsSequence(Append(log, entry))
<1>1. PICK S : log \in Seq(S)
  BY DEF IsSequence
<1>2. log \in Seq(S \cup {entry})
  BY <1>1
<1>3. Append(log, entry) \in Seq(S \cup {entry})
  BY <1>2
<1>4. QED  BY <1>3 DEF IsSequence

(* A line of a log is written, missed or cut. *)
LEMMA HistoryAppended ==
    ASSUME LogFits(history, historyFile), NEW what,
           \/ History!AppendEntry(what) \/ History!AppendMissed(what)
           \/ History!AppendCut(what)
    PROVE  LogFits(history, historyFile)'
<1>1. history' = Newest(Append(history, History!Entry(what, TRUE)))
  BY DEF History!AppendEntry, History!AppendMissed, History!AppendCut, History!Show,
         History!Latest, Newest
<1>2. historyFile' = historyFile \/ \E piece : historyFile' = Append(historyFile, piece)
  BY DEF History!AppendEntry, History!AppendMissed, History!AppendCut
<1>3. QED  BY <1>1, <1>2, AppendIsSequence, NewestFits DEF LogFits

(* ... and of audit.log. *)
LEMMA AuditAppended ==
    ASSUME LogFits(audit, auditFile), NEW what,
           \/ Audit!AppendEntry(what) \/ Audit!AppendMissed(what) \/ Audit!AppendCut(what)
    PROVE  LogFits(audit, auditFile)'
<1>1. audit' = Newest(Append(audit, Audit!Entry(what, TRUE)))
  BY DEF Audit!AppendEntry, Audit!AppendMissed, Audit!AppendCut, Audit!Show,
         Audit!Latest, Newest
<1>2. auditFile' = auditFile \/ \E piece : auditFile' = Append(auditFile, piece)
  BY DEF Audit!AppendEntry, Audit!AppendMissed, Audit!AppendCut
<1>3. QED  BY <1>1, <1>2, AppendIsSequence, NewestFits DEF LogFits

(* The machine dies in a line. *)
LEMMA LogsCut ==
    ASSUME LogsFit, NEW what,
           \/ History!DieAppending(what) /\ UNCHANGED auditVars
           \/ Audit!DieAppending(what) /\ UNCHANGED historyVars
    PROVE  LogsFit'
<1>1. CASE History!DieAppending(what) /\ UNCHANGED auditVars
  <2>1. history' = history /\ audit' = audit /\ auditFile' = auditFile
    BY <1>1 DEF History!DieAppending, auditVars
  <2>2. \E piece : historyFile' = Append(historyFile, piece)
    BY <1>1 DEF History!DieAppending
  <2>3. QED  BY <2>1, <2>2, AppendIsSequence DEF LogsFit, LogFits
<1>2. CASE Audit!DieAppending(what) /\ UNCHANGED historyVars
  <2>1. audit' = audit /\ history' = history /\ historyFile' = historyFile
    BY <1>2 DEF Audit!DieAppending, historyVars
  <2>2. \E piece : auditFile' = Append(auditFile, piece)
    BY <1>2 DEF Audit!DieAppending
  <2>3. QED  BY <2>1, <2>2, AppendIsSequence DEF LogsFit, LogFits
<1>3. QED  BY <1>1, <1>2

(* What is loaded is a sequence, whatever is in the file. *)
LEMMA CountedIsSequence ==
    ASSUME NEW file, IsSequence(file), NEW S \in SUBSET DOMAIN file, NEW f
    PROVE  IsSequence([n \in 1 .. Cardinality(S) |-> f[n]])
<1>1. PICK T : file \in Seq(T)
  BY DEF IsSequence
<1>2. IsFiniteSet(1 .. Len(file)) /\ DOMAIN file = 1 .. Len(file)
  BY <1>1, FS_Interval
<1>3. Cardinality(S) \in Nat
  BY <1>2, FS_Subset, FS_CardinalityType
<1> DEFINE k == Cardinality(S)
           R == {f[n] : n \in 1 .. k}
<1> HIDE DEF k
<1>4. [n \in 1 .. k |-> f[n]] \in [1 .. k -> R]
  OBVIOUS
<1>5. [n \in 1 .. k |-> f[n]] \in Seq(R)
  BY <1>3, <1>4 DEF k
<1>6. QED  BY <1>5 DEF IsSequence, k

(* What a start reads of pixel_history.log is in shape, ... *)
LEMMA HistoryLoadedFits ==
    ASSUME IsSequence(historyFile)
    PROVE  IsSequence(History!Loaded) /\ Len(History!Loaded) <= MaxEntries
<1> DEFINE f == [n \in 1 .. Cardinality(History!Readable) |->
                    History!EntryAt(History!Nth(History!Readable, n))]
<1>1. History!Cardinality(History!Readable) = Cardinality(History!Readable)
  BY DEF History!Cardinality, Cardinality
<1>2. History!Loaded = History!Latest(f)
  BY <1>1 DEF History!Loaded
<1>3. History!Readable \in SUBSET DOMAIN historyFile
  BY DEF History!Readable, History!LineEnds
<1>4. IsSequence([n \in 1 .. Cardinality(History!Readable) |-> f[n]])
  BY <1>3, CountedIsSequence
<1>5. f = [n \in 1 .. Cardinality(History!Readable) |-> f[n]]
  OBVIOUS
<1> HIDE DEF f
<1>6. IsSequence(f)
  BY <1>4, <1>5
<1>7. History!Latest(f) = Newest(f)
  BY DEF History!Latest, Newest
<1>8. QED  BY <1>2, <1>6, <1>7, NewestFits

(* ... and what it reads of audit.log. *)
LEMMA AuditLoadedFits ==
    ASSUME IsSequence(auditFile)
    PROVE  IsSequence(Audit!Loaded) /\ Len(Audit!Loaded) <= MaxEntries
<1> DEFINE f == [n \in 1 .. Cardinality(Audit!Readable) |->
                    Audit!EntryAt(Audit!Nth(Audit!Readable, n))]
<1>1. Audit!Cardinality(Audit!Readable) = Cardinality(Audit!Readable)
  BY DEF Audit!Cardinality, Cardinality
<1>2. Audit!Loaded = Audit!Latest(f)
  BY <1>1 DEF Audit!Loaded
<1>3. Audit!Readable \in SUBSET DOMAIN auditFile
  BY DEF Audit!Readable, Audit!LineEnds
<1>4. IsSequence([n \in 1 .. Cardinality(Audit!Readable) |-> f[n]])
  BY <1>3, CountedIsSequence
<1>5. f = [n \in 1 .. Cardinality(Audit!Readable) |-> f[n]]
  OBVIOUS
<1> HIDE DEF f
<1>6. IsSequence(f)
  BY <1>4, <1>5
<1>7. Audit!Latest(f) = Newest(f)
  BY DEF Audit!Latest, Newest
<1>8. QED  BY <1>2, <1>6, <1>7, NewestFits

----------------------------------------------------------------------------
(* The files. *)

(* The maps of before remain known, and no file is touched. *)
LEMMA FilesStay ==
    ASSUME FilesFit, held \subseteq held', held' \subseteq Images,
           live' = live, pwm' = pwm, meta' = meta, bmp' = bmp
    PROVE  FilesFit'
BY DEF FilesFit, IsFile

(* What a thread that writes is writing is a file of a known map. *)
LEMMA TargetIsFile ==
    ASSUME JobsFit, FilesFit, NamesFit, NEW t \in Threads, job[t].pc = "write"
    PROVE  IsFile(Target(t))
<1>1. CASE WritesBackup(t)
  <2>1. job[t].id \in DOMAIN pwm
    BY <1>1 DEF NamesFit, NameFits, HasFile
  <2>2. QED  BY <1>1, <2>1 DEF FilesFit, Target
<1>2. CASE ~WritesBackup(t)
  BY <1>2 DEF FilesFit, Target
<1>3. QED  BY <1>1, <1>2

(* <<>>, which stands for map.pwm, is no name of a backup. *)
LEMMA NotEmptyName == \A id \in Ids : id # <<>>
<1> SUFFICES ASSUME NEW id \in Ids, id = <<>> PROVE FALSE
  OBVIOUS
<1>1. DOMAIN id = 1 .. 4
  BY DEF Ids
<1>2. DOMAIN id = {}
  OBVIOUS
<1>3. QED  BY <1>1, <1>2

(* A writer's backup has a name. *)
LEMMA WriterJobs ==
    ASSUME JobsFit, NEW t \in Threads, job[t].pc \in {"open", "write"}
    PROVE  /\ job[t] \in Jobs
           /\ WritesBackup(t) => job[t].id \in Ids /\ Aim(t) = job[t].id /\ Aim(t) # <<>>
           /\ ~WritesBackup(t) => Aim(t) = <<>> /\ job[t].target = "live"
<1>1. IsJob(job[t])
  BY BusyIsJob
<1>2. job[t] \in Jobs /\ (WritesBackup(t) => job[t].id \in Ids)
  BY <1>1 DEF IsJob, InBackup, WritesBackup
<1>3. \A id \in Ids : id # <<>>
  BY NotEmptyName
<1>4. job[t].target \in {"live", "backup"}
  BY <1>2 DEF Jobs
<1>5. QED  BY <1>2, <1>3, <1>4 DEF Aim, WritesBackup

(* One file is written, and the others are not. *)
LEMMA TargetSet ==
    ASSUME JobsFit, FilesFit, NEW t \in Threads, job[t].pc \in {"open", "write"},
           NEW file, IsFile(file), SetTarget(t, file),
           held' = held, MapImage' = MapImage, meta' = meta, bmp' = bmp
    PROVE  /\ FilesFit'
           /\ DOMAIN pwm \subseteq DOMAIN pwm'
           /\ ~WritesBackup(t) => live' = file /\ pwm' = pwm
           /\ WritesBackup(t) => /\ live' = live
                                 /\ DOMAIN pwm' = DOMAIN pwm \cup {job[t].id}
                                 /\ pwm'[job[t].id] = file
                                 /\ \A id \in DOMAIN pwm \ {job[t].id} : pwm'[id] = pwm[id]
<1>1. CASE WritesBackup(t)
  <2>1. PICK name \in Ids : name = job[t].id
    BY <1>1, WriterJobs
  <2>2. /\ live' = live
        /\ pwm' = [id \in DOMAIN pwm \cup {name} |-> IF id = name THEN file ELSE pwm[id]]
    BY <1>1, <2>1 DEF SetTarget
  <2>3. /\ DOMAIN pwm' = DOMAIN pwm \cup {name} /\ pwm'[name] = file
        /\ \A id \in DOMAIN pwm \ {name} : pwm'[id] = pwm[id]
    BY <2>2
  <2>4. IsFiniteSet(DOMAIN pwm')
    BY <2>3, FS_AddElement DEF FilesFit
  <2>5. \A id \in DOMAIN pwm' : id \in Ids /\ IsFile(pwm'[id])
    BY <2>1, <2>3 DEF FilesFit
  <2>6. \A other : IsFile(other) => IsFile(other)'
    BY DEF IsFile
  <2>7. FilesFit'
    <3>1. IsFile(live)'
      BY <2>2 DEF FilesFit, IsFile
    <3>2. \A id \in DOMAIN pwm' : id \in Ids /\ IsFile(pwm[id])'
      BY <2>5 DEF IsFile
    <3>3. DOMAIN meta' \subseteq DOMAIN pwm'
      BY <2>3 DEF FilesFit
    <3>4. QED  BY <2>4, <3>1, <3>2, <3>3 DEF FilesFit
  <2>8. QED  BY <1>1, <2>1, <2>2, <2>3, <2>7
<1>2. CASE ~WritesBackup(t)
  <2>1. live' = file /\ pwm' = pwm
    BY <1>2 DEF SetTarget
  <2>2. IsFile(live)'
    BY <2>1 DEF IsFile
  <2>3. QED  BY <1>2, <2>1, <2>2 DEF FilesFit, IsFile
<1>3. QED  BY <1>1, <1>2

(* The step of one thread that forgets no backup and no map. *)
LEMMA NamesStay ==
    ASSUME NamesFit, NEW t \in Threads, Alone(t),
           DOMAIN pwm \subseteq DOMAIN pwm', held \subseteq held', NameFits(t)'
    PROVE  NamesFit'
<1> SUFFICES ASSUME NEW u \in Threads, u # t PROVE NameFits(u)'
  BY DEF NamesFit
<1>1. job'[u] = job[u]
  BY DEF Alone
<1>2. QED  BY <1>1 DEF NamesFit, NameFits, HasFile, Restores, BacksUp, WritesBackup

(* Between steps of the map, the map stays. *)
LEMMA MapStays ==
    ASSUME MapTypeOK, UNCHANGED mapVars
    PROVE  /\ MapTypeOK' /\ MapImage' = MapImage /\ sequence' = sequence /\ pixels' = pixels
BY DEF mapVars, MapTypeOK, MapImage

(* A new file is opened, a flush adds to one. *)
LEMMA NewFile ==
    ASSUME MapTypeOK PROVE IsFile([image |-> MapImage, written |-> {}])
BY MapImageIsImage DEF IsFile

(* A flush adds tokens of the map to the file. *)
LEMMA MoreOfFile ==
    ASSUME MapTypeOK, NEW file, IsFile(file), file.image = MapImage,
           NEW n \in Tokens(MapImage), NEW m \in Nat
    PROVE  /\ IsFile([file EXCEPT !.written = @ \cup (m .. n)])
           /\ [file EXCEPT !.written = @ \cup (m .. n)].image = MapImage
           /\ [file EXCEPT !.written = @ \cup (m .. n)].written = file.written \cup (m .. n)
<1> DEFINE more == [file EXCEPT !.written = @ \cup (m .. n)]
<1>1. MapImage \in Images
  BY MapImageIsImage
<1>2. PICK k \in Nat : Tokens(MapImage) = 0 .. k
  BY <1>1, TokensOfImage
<1>3. m .. n \in SUBSET Tokens(MapImage) /\ m .. n \in SUBSET Nat
  BY <1>2
<1>4. file \in [image : Images, written : SUBSET Nat]
  BY DEF IsFile
<1>5. /\ more \in [image : Images, written : SUBSET Nat]
      /\ more.image = file.image /\ more.written = file.written \cup (m .. n)
  BY <1>3, <1>4
<1> HIDE DEF more
<1>6. IsFile(more)
  BY <1>3, <1>5 DEF IsFile
<1>7. QED  BY <1>5, <1>6 DEF more

(* A step that writes no file and leaves the map alone. *)
LEMMA WritersStay ==
    ASSUME NamesFit, WritersFit, NEW t \in Threads, Alone(t),
           live' = live, pwm' = pwm, MapImage' = MapImage,
           job'[t].pc = "write" => Target(t)'.image = MapImage
    PROVE  WritersFit'
<1> SUFFICES ASSUME NEW u \in Threads, u # t, job'[u].pc = "write"
             PROVE  Target(u)'.image = MapImage'
  BY DEF WritersFit
<1>1. job'[u] = job[u]
  BY DEF Alone
<1>2. Target(u)' = Target(u)
  BY <1>1 DEF Target, WritesBackup
<1>3. QED  BY <1>1, <1>2 DEF WritersFit

(* A step that changes the map, when nobody writes. *)
LEMMA WritersNone ==
    ASSUME NEW t \in Threads, NoReaders, job'[t].pc # "write",
           \A u \in Threads \ {t} : job'[u].pc = job[u].pc
    PROVE  WritersFit'
BY DEF WritersFit, NoReaders, Saving

(* A step that writes a file of the map in memory. *)
LEMMA WritersWrite ==
    ASSUME JobsFit, FilesFit, NamesFit, WritersFit,
           NEW t \in Threads, job[t].pc \in {"open", "write"}, Alone(t),
           NEW file, IsFile(file), file.image = MapImage, SetTarget(t, file),
           held' = held, MapImage' = MapImage, meta' = meta, bmp' = bmp,
           job'[t].target = job[t].target, job'[t].id = job[t].id
    PROVE  WritersFit'
<1> SUFFICES ASSUME NEW u \in Threads, job'[u].pc = "write"
             PROVE  Target(u)'.image = MapImage
  BY DEF WritersFit
<1>1. /\ DOMAIN pwm \subseteq DOMAIN pwm'
      /\ ~WritesBackup(t) => live' = file /\ pwm' = pwm
      /\ WritesBackup(t) => /\ live' = live
                            /\ pwm'[job[t].id] = file
                            /\ \A id \in DOMAIN pwm \ {job[t].id} : pwm'[id] = pwm[id]
  BY TargetSet
<1>2. CASE u = t
  <2>1. WritesBackup(t)' <=> WritesBackup(t)
    BY DEF WritesBackup
  <2>2. Target(t)' = file
    BY <1>1, <2>1 DEF Target
  <2>3. QED  BY <1>2, <2>2
<1>3. CASE u # t
  <2>1. job'[u] = job[u]
    BY <1>3 DEF Alone
  <2>2. Target(u).image = MapImage
    BY <2>1 DEF WritersFit
  <2>3. WritesBackup(u) => job[u].id \in DOMAIN pwm
    BY <2>1 DEF NamesFit, NameFits, HasFile
  <2>4. Target(u)' = Target(u) \/ Target(u)' = file
    BY <1>1, <2>1, <2>3 DEF Target, WritesBackup
  <2>5. QED  BY <2>2, <2>4
<1>4. QED  BY <1>2, <1>3

----------------------------------------------------------------------------
(* The types hold at first, and each step keeps them. *)

(* The first state has the shapes. *)
LEMMA InitShapes == Init => Shapes
<1> SUFFICES ASSUME Init PROVE Shapes
  OBVIOUS
<1>1. MapTypeOK /\ MapImage = BlankImage
  BY MapInitTypes DEF Init, MapInit, MapImage, BlankImage
<1>2. BlankImage \in Images
  BY <1>1, MapImageIsImage
<1>3. EarlierImage \in Images /\ EarlierImage.sequence \in Nat
  <2>1. 0 \in Cells
    BY SizeIsPositive DEF Cells
  <2>5. PaletteSize - 1 \in Colors
    BY DimensionAssumption DEF Colors
  <2>2. [BlankImage.pixels EXCEPT ![0] = PaletteSize - 1] \in Pixmaps
    BY <1>2, <2>1, <2>5 DEF Images, Pixmaps
  <2>3. QED  BY <2>2 DEF EarlierImage, Images
<1>4. JobsFit
  BY DEF Init, JobsFit
<1>5. \A t \in Threads : job[t].pc = "idle" /\ job[t].kind = "none"
  BY DEF Init, IdleJob
<1>6. NamesFit /\ WritersFit
  BY <1>5 DEF NamesFit, NameFits, HasFile, Restores, BacksUp, BackupSteps, WritersFit
<1>7. FilesFit
  <2>1. held = {BlankImage} \cup {EarlierImage : id \in EarlierIds}
    BY DEF Init
  <2>2. held \subseteq Images /\ BlankImage \in held
    BY <1>2, <1>3, <2>1
  <2>3. IsFile(live)
    <3>1. live = [image |-> BlankImage, written |-> Tokens(BlankImage)]
      BY DEF Init
    <3>2. Tokens(BlankImage) \in SUBSET Nat
      BY DEF Tokens
    <3>3. QED  BY <1>2, <3>1, <3>2 DEF IsFile
  <2>4. /\ DOMAIN pwm = EarlierIds /\ DOMAIN meta = EarlierIds
        /\ \A id \in EarlierIds :
              /\ pwm[id] = [image |-> EarlierImage, written |-> Tokens(EarlierImage)]
              /\ meta[id] = EarlierImage.sequence
    BY DEF Init
  <2>5. \A id \in EarlierIds : id \in Ids
    BY DEF EarlierIds, Ids, Reasons
  <2>6. Tokens(EarlierImage) \in SUBSET Nat
    BY DEF Tokens
  <2>7. \A id \in DOMAIN pwm : id \in Ids /\ IsFile(pwm[id])
    BY <1>3, <2>4, <2>5, <2>6 DEF IsFile
  <2>8. IsFiniteSet(EarlierIds)
    BY FS_EmptySet, FS_Singleton DEF EarlierIds
  <2>9. DOMAIN bmp = {}
    BY DEF Init
  <2>10. QED  BY <1>3, <2>2, <2>3, <2>4, <2>7, <2>8, <2>9 DEF FilesFit
<1>8. LogsFit
  <2>1. IsSequence(<<>>) /\ Len(<<>>) = 0
    BY DEF IsSequence
  <2>2. \A e : IsSequence(<<e>>)
    <3>1. \A e : <<e>> \in Seq({e})
      OBVIOUS
    <3>2. QED  BY <3>1 DEF IsSequence
  <2>3. CASE EarlierLife
    <3>1. History!StartsWith(0) /\ Audit!StartsWith(0)
      BY <2>3 DEF Init
    <3>2. IsSequence(historyFile) /\ history = History!Loaded
      BY <2>2, <3>1 DEF History!StartsWith
    <3>3. IsSequence(auditFile) /\ audit = Audit!Loaded
      BY <2>2, <3>1 DEF Audit!StartsWith
    <3>4. IsSequence(history) /\ Len(history) <= MaxEntries
      BY <3>2, HistoryLoadedFits
    <3>5. IsSequence(audit) /\ Len(audit) <= MaxEntries
      BY <3>3, AuditLoadedFits
    <3>6. QED  BY <3>2, <3>3, <3>4, <3>5 DEF LogsFit, LogFits
  <2>4. CASE ~EarlierLife
    <3>1. History!StartsEmpty /\ Audit!StartsEmpty
      BY <2>4 DEF Init
    <3>2. history = <<>> /\ historyFile = <<>> /\ audit = <<>> /\ auditFile = <<>>
      BY <3>1 DEF History!StartsEmpty, Audit!StartsEmpty
    <3>3. QED  BY <2>1, <3>2 DEF LogsFit, LogFits
  <2>5. QED  BY <2>3, <2>4
<1>9. NumbersFit
  BY DEF Init, NumbersFit
<1>10. QED  BY <1>1, <1>4, <1>6, <1>7, <1>8, <1>9 DEF Shapes

(* A step that is not one of the logs. *)
LEMMA LogsStay == ASSUME LogsFit, UNCHANGED logs PROVE LogsFit'
BY DEF LogsFit, LogFits, logs, historyVars, auditVars

(* The shapes stay when a handler starts. *)
LEMMA ShapesStart ==
    ASSUME Shapes, NEW t \in Threads, NEW kind \in Kinds, Start(t, kind)
    PROVE  Shapes'
<1>1. UNCHANGED mapVars /\ UNCHANGED logs
  BY DEF Start, files
<1>2. /\ live' = live /\ pwm' = pwm /\ meta' = meta /\ bmp' = bmp /\ held' = held
      /\ clock' = clock /\ jobs' = jobs + 1
  BY DEF Start, files
<1>3. MapTypeOK' /\ MapImage' = MapImage
  BY <1>1, MapStays DEF Shapes
<1>4. JobsFit' /\ Alone(t) /\ job'[t].pc \in {"setPixel", "stamp", "find"}
      /\ (kind = "rollback" => job'[t].pc = "find") /\ job'[t].kind = kind
  BY StartJob DEF Shapes, NumbersFit
<1>5. FilesFit'
  BY <1>2, <1>3, FilesStay DEF Shapes, FilesFit
<1>6. NameFits(t)'
  BY <1>4 DEF NameFits, HasFile, Restores, BacksUp, BackupSteps
<1>7. NamesFit'
  BY <1>2, <1>4, <1>6, NamesStay DEF Shapes
<1>8. WritersFit'
  BY <1>2, <1>3, <1>4, WritersStay DEF Shapes
<1>9. LogsFit'
  BY <1>1, LogsStay DEF Shapes
<1>10. NumbersFit'
  BY <1>2 DEF Shapes, NumbersFit
<1>11. QED  BY <1>3, <1>4, <1>5, <1>7, <1>8, <1>9, <1>10 DEF Shapes

(* setPixel and reset: a new map is known, and its writer owes a save. *)
LEMMA ShapesChange ==
    ASSUME Shapes, NEW t \in Threads, MapTypeOK', NoReaders,
           \/ \E x \in Columns, y \in Rows, color \in Asked : DoSetPixel(t, x, y, color)
           \/ \E color \in Asked : DoReset(t, color)
    PROVE  Shapes'
<1>1. /\ UNCHANGED logs /\ live' = live /\ pwm' = pwm /\ meta' = meta /\ bmp' = bmp
      /\ held' = held \cup {MapImage'}
      /\ clock' = clock /\ jobs' = jobs
  BY DEF DoSetPixel, DoReset, files, counters
<1>2. job[t].pc \in {"setPixel", "reset"}
  BY DEF DoSetPixel, DoReset, At
<1>3. PICK n \in Nat : n = sequence'
  BY DEF MapTypeOK
<1>4. job' = [job EXCEPT ![t].pc = "open", ![t].number = n, ![t].lasting = n]
  BY <1>3 DEF DoSetPixel, DoReset
<1>5. /\ JobsFit' /\ Alone(t) /\ job'[t].pc = "open" /\ job'[t].target = "live"
      /\ job'[t].kind = job[t].kind /\ job[t].kind # "rollback"
  BY <1>2, <1>4, ChangeJob DEF Shapes
<1>6. MapImage' \in Images
  BY MapImageIsImage DEF MapTypeOK, MapImage, Images
<1>7. FilesFit'
  BY <1>1, <1>6, FilesStay DEF Shapes, FilesFit
<1>8. NameFits(t)'
  BY <1>5 DEF NameFits, HasFile, Restores, WritesBackup
<1>9. NamesFit'
  BY <1>1, <1>5, <1>8, NamesStay DEF Shapes
<1>10. WritersFit'
  BY <1>5, WritersNone DEF Alone
<1>11. LogsFit'
  BY <1>1, LogsStay DEF Shapes
<1>12. NumbersFit'
  BY <1>1 DEF Shapes, NumbersFit
<1>13. QED  BY <1>5, <1>7, <1>9, <1>10, <1>11, <1>12 DEF Shapes

(* They stay when a pixel is set, ... *)
LEMMA ShapesSetPixel ==
    ASSUME Shapes, NEW t \in Threads, NEW x \in Columns, NEW y \in Rows,
           NEW color \in Asked, DoSetPixel(t, x, y, color)
    PROVE  Shapes'
<1>1. SetPixel(x, y, color) /\ NoReaders /\ color \in Colors
  BY DEF DoSetPixel
<1>2. MapTypeOK'
  BY <1>1, SetPixelTypes DEF Shapes
<1>3. QED  BY <1>1, <1>2, ShapesChange

(* ... and when the map is reset. *)
LEMMA ShapesReset ==
    ASSUME Shapes, NEW t \in Threads, NEW color \in Asked, DoReset(t, color)
    PROVE  Shapes'
<1>1. Reset(color) /\ NoReaders
  BY DEF DoReset
<1>2. MapTypeOK'
  BY <1>1, ResetTypes DEF Shapes
<1>3. QED  BY <1>1, <1>2, ShapesChange

(* The name that a backup gets. *)
LEMMA StampName ==
    ASSUME Shapes, NEW t \in Threads, Stamp(t)
    PROVE  /\ clock' \in Nat
           /\ \E id \in Ids \ DOMAIN pwm :
                 /\ id = Suffixed(clock', Reason(job[t].kind), sequence)
                 /\ job' = [job EXCEPT ![t] = [job[t] EXCEPT !.pc = "open", !.target = "backup",
                                       !.id = id, !.number = sequence, !.lasting = sequence]]
                 /\ twins' = (twins \/ \E u \in Threads \ {t} :
                                          job[u].pc # "idle" /\ job[u].id = id)
<1> DEFINE name == Suffixed(clock', Reason(job[t].kind), sequence)
<1>1. clock' \in Nat
  BY DEF Stamp, Shapes, NumbersFit
<1>2. job[t].pc = "stamp"
  BY DEF Stamp, At
<1>3. IsJob(job[t])
  BY <1>2, BusyIsJob DEF Shapes
<1>4. job[t].kind \in {"reset", "create", "hourly", "rollback"}
  BY <1>2, <1>3 DEF IsJob, InBackup, BackupSteps, InHandler, Jobs
<1>5. Reason(job[t].kind) \in Reasons
  BY <1>4 DEF Reason, Reasons
<1>6. name \in Ids \ DOMAIN pwm
  BY <1>1, <1>5, SuffixedIsNew DEF Shapes, FilesFit, MapTypeOK
<1>7. /\ job' = [job EXCEPT ![t] = [job[t] EXCEPT !.pc = "open", !.target = "backup",
                                       !.id = name, !.number = sequence, !.lasting = sequence]]
      /\ twins' = (twins \/ \E u \in Threads \ {t} :
                               job[u].pc # "idle" /\ job[u].id = name)
  BY DEF Stamp
<1> HIDE DEF name
<1>8. QED  BY <1>1, <1>6, <1>7 DEF name

(* They stay when a backup gets its name. *)
LEMMA ShapesStamp ==
    ASSUME Shapes, NEW t \in Threads, Stamp(t) PROVE Shapes'
<1>1. /\ UNCHANGED mapVars /\ UNCHANGED logs
      /\ live' = live /\ pwm' = pwm /\ meta' = meta /\ bmp' = bmp /\ held' = held
      /\ jobs' = jobs
  BY DEF Stamp, files
<1>2. MapTypeOK' /\ MapImage' = MapImage
  BY <1>1, MapStays DEF Shapes
<1>3. job[t].pc = "stamp"
  BY DEF Stamp, At
<1>4. /\ JobsFit' /\ Alone(t) /\ job'[t].pc = "open" /\ job'[t].kind = job[t].kind
      /\ job'[t].loaded = job[t].loaded /\ clock' \in Nat
  <2>1. PICK id \in Ids :
           job' = [job EXCEPT ![t] = [job[t] EXCEPT !.pc = "open", !.target = "backup",
                                       !.id = id, !.number = sequence, !.lasting = sequence]]
    BY StampName
  <2>2. sequence \in Nat /\ JobsFit /\ clock' \in Nat
    BY StampName DEF Shapes, MapTypeOK
  <2>3. QED  BY <1>3, <2>1, <2>2, StampJob
<1>5. FilesFit'
  BY <1>1, <1>2, FilesStay DEF Shapes, FilesFit
<1>6. NameFits(t)'
  BY <1>1, <1>3, <1>4 DEF Shapes, NamesFit, NameFits, HasFile, Restores
<1>7. NamesFit'
  BY <1>1, <1>4, <1>6, NamesStay DEF Shapes
<1>8. WritersFit'
  BY <1>1, <1>2, <1>4, WritersStay DEF Shapes
<1>9. LogsFit'
  BY <1>1, LogsStay DEF Shapes
<1>10. NumbersFit'
  BY <1>1, <1>4 DEF Shapes, NumbersFit
<1>11. QED  BY <1>2, <1>4, <1>5, <1>7, <1>8, <1>9, <1>10 DEF Shapes

(* saveBinary opens its file or writes to it. *)
LEMMA ShapesWrite ==
    ASSUME Shapes, NEW t \in Threads, job[t].pc \in {"open", "write"}, NEW n \in Nat,
           job' = [job EXCEPT ![t].pc = "write", ![t].offset = n],
           NEW file, IsFile(file), file.image = MapImage, SetTarget(t, file),
           UNCHANGED mapVars, UNCHANGED logs,
           held' = held, meta' = meta, bmp' = bmp, clock' = clock, jobs' = jobs
    PROVE  Shapes'
<1>1. MapTypeOK' /\ MapImage' = MapImage
  BY MapStays DEF Shapes
<1>2. /\ JobsFit' /\ Alone(t) /\ Keeps(t) /\ job'[t].target = job[t].target
      /\ job'[t].pc = "write"
  BY WriterJob DEF Shapes
<1>3. /\ FilesFit' /\ DOMAIN pwm \subseteq DOMAIN pwm'
      /\ WritesBackup(t) => job[t].id \in DOMAIN pwm'
  <2>1. JobsFit /\ FilesFit
    BY DEF Shapes
  <2>2. /\ FilesFit' /\ DOMAIN pwm \subseteq DOMAIN pwm'
        /\ WritesBackup(t) => DOMAIN pwm' = DOMAIN pwm \cup {job[t].id}
    BY <1>1, <2>1, TargetSet
  <2>3. QED  BY <2>2
<1>4. NameFits(t)'
  <2>1. HasFile(t)' => job'[t].id \in DOMAIN pwm'
    BY <1>2, <1>3 DEF HasFile, WritesBackup, Keeps
  <2>2. Restores(t)' => Restores(t)
    BY <1>2 DEF Restores, BacksUp, BackupSteps, WritesBackup, Keeps
  <2>3. Restores(t)' => job'[t].loaded \in DOMAIN pwm'
    BY <1>2, <1>3, <2>2 DEF Shapes, NamesFit, NameFits, Keeps
  <2>4. QED  BY <1>2, <2>1, <2>3 DEF NameFits
<1>5. NamesFit'
  BY <1>2, <1>3, <1>4, NamesStay DEF Shapes
<1>6. WritersFit'
  BY <1>1, <1>2, WritersWrite DEF Shapes, Keeps
<1>7. LogsFit'
  BY LogsStay DEF Shapes
<1>8. NumbersFit'
  BY DEF Shapes, NumbersFit
<1>9. QED  BY <1>1, <1>2, <1>3, <1>5, <1>6, <1>7, <1>8 DEF Shapes

(* They stay when a file is opened and truncated. *)
LEMMA ShapesOpenSave ==
    ASSUME Shapes, NEW t \in Threads, OpenSave(t) PROVE Shapes'
<1> DEFINE file == [image |-> MapImage, written |-> {}]
<1>1. /\ job[t].pc = "open" /\ SetTarget(t, file)
      /\ job' = [job EXCEPT ![t].pc = "write", ![t].offset = 0]
      /\ UNCHANGED mapVars /\ UNCHANGED logs
      /\ held' = held /\ meta' = meta /\ bmp' = bmp /\ clock' = clock /\ jobs' = jobs
  BY DEF OpenSave, At, counters
<1>2. IsFile(file) /\ file.image = MapImage
  BY NewFile DEF Shapes
<1> HIDE DEF file
<1>3. QED  BY <1>1, <1>2, ShapesWrite

(* What a flush makes of the file. *)
LEMMA FlushedFile ==
    ASSUME Shapes, NEW t \in Threads, NEW n \in 0 .. Size, Flush(t, n)
    PROVE  \E file :
              /\ IsFile(file) /\ file.image = MapImage /\ SetTarget(t, file)
              /\ Target(t).image = MapImage
              /\ file.written = Target(t).written \cup (job[t].offset .. n)
              /\ n \in Tokens(MapImage) /\ job[t].offset \in Nat /\ n >= job[t].offset
<1> DEFINE file == [Target(t) EXCEPT !.written = @ \cup (job[t].offset .. n)]
<1>1. /\ job[t].pc = "write" /\ SetTarget(t, file)
      /\ n \in Tokens(MapImage) /\ n >= job[t].offset
  BY DEF Flush, At
<1>2. job[t].offset \in Nat
  BY <1>1, WriterJobs DEF Shapes, Jobs
<1>3. IsFile(Target(t)) /\ Target(t).image = MapImage
  BY <1>1, TargetIsFile DEF Shapes, WritersFit
<1>4. /\ IsFile(file) /\ file.image = MapImage
      /\ file.written = Target(t).written \cup (job[t].offset .. n)
  BY <1>1, <1>2, <1>3, MoreOfFile DEF Shapes
<1> HIDE DEF file
<1>5. QED  BY <1>1, <1>2, <1>3, <1>4

(* They stay when a part of a file is written. *)
LEMMA ShapesFlush ==
    ASSUME Shapes, NEW t \in Threads, NEW n \in 0 .. Size, Flush(t, n) PROVE Shapes'
<1>1. PICK file : IsFile(file) /\ file.image = MapImage /\ SetTarget(t, file)
  BY FlushedFile
<1>2. /\ job[t].pc = "write" /\ n + 1 \in Nat
      /\ job' = [job EXCEPT ![t].offset = n + 1]
      /\ UNCHANGED mapVars /\ UNCHANGED logs
      /\ held' = held /\ meta' = meta /\ bmp' = bmp /\ clock' = clock /\ jobs' = jobs
  BY SizeIsPositive DEF Flush, At, counters, ghosts
<1>3. job[t] \in Jobs
  BY <1>2, WriterJobs DEF Shapes
<1>4. [job[t] EXCEPT !.pc = "write"] = job[t]
  BY <1>2, <1>3 DEF Jobs
<1>5. job' = [job EXCEPT ![t].pc = "write", ![t].offset = n + 1]
  BY <1>2, <1>4 DEF Shapes, JobsFit
<1>6. QED  BY <1>1, <1>2, <1>5, ShapesWrite

(* A step of a thread at a step without the map and its files.             *)
LEMMA ShapesGo ==
    ASSUME Shapes, NEW t \in Threads, Alone(t), JobsFit',
           \/ job'[t].pc = "idle" /\ job'[t].kind = "none"
           \/ /\ Keeps(t) /\ job'[t].target = job[t].target
              /\ job'[t].pc \notin {"write", "stamp", "parse", "read", "install"}
              /\ HasFile(t)' => HasFile(t)
              /\ BacksUp(t)' => BacksUp(t),
           UNCHANGED mapVars, LogsFit', held' = held, live' = live, pwm' = pwm,
           FilesFit', clock' = clock, jobs' = jobs
    PROVE  Shapes'
<1>1. MapTypeOK' /\ MapImage' = MapImage
  BY MapStays DEF Shapes
<1>2. NameFits(t)'
  <2>1. CASE job'[t].pc = "idle" /\ job'[t].kind = "none"
    BY <2>1 DEF NameFits, HasFile, Restores
  <2>2. CASE /\ Keeps(t) /\ job'[t].target = job[t].target
             /\ job'[t].pc \notin {"write", "stamp", "parse", "read", "install"}
             /\ HasFile(t)' => HasFile(t)
             /\ BacksUp(t)' => BacksUp(t)
    BY <2>2 DEF NameFits, Restores, Keeps, Shapes, NamesFit
  <2>3. QED  BY <2>1, <2>2
<1>3. NamesFit'
  BY <1>2, NamesStay DEF Shapes
<1>4. WritersFit'
  BY <1>1, WritersStay DEF Shapes
<1>5. NumbersFit'
  BY DEF Shapes, NumbersFit
<1>6. QED  BY <1>1, <1>3, <1>4, <1>5 DEF Shapes

(* They stay when a handler ends. *)
LEMMA ShapesEnds ==
    ASSUME Shapes, NEW t \in Threads, OpenFails(t) \/ Reply(t) PROVE Shapes'
<1>1. /\ Finish(t) /\ UNCHANGED mapVars /\ UNCHANGED logs
      /\ held' = held /\ live' = live /\ pwm' = pwm /\ meta' = meta /\ bmp' = bmp
      /\ clock' = clock /\ jobs' = jobs
  BY DEF OpenFails, Reply, files, counters
<1>2. JobsFit' /\ Alone(t) /\ job'[t].pc = "idle" /\ job'[t].kind = "none"
  BY <1>1, FinishJob DEF Shapes, Alone
<1>3. MapImage' = MapImage
  BY <1>1, MapStays DEF Shapes
<1>4. FilesFit' /\ LogsFit'
  BY <1>1, <1>3, FilesStay, LogsStay DEF Shapes, FilesFit
<1>5. QED  BY <1>1, <1>2, <1>4, ShapesGo

(* They stay when a file is closed, whole or not. *)
LEMMA ShapesClose ==
    ASSUME Shapes, NEW t \in Threads, CloseSave(t) \/ CloseWithLoss(t) PROVE Shapes'
<1>1. /\ job[t].pc = "write" /\ UNCHANGED mapVars /\ UNCHANGED logs
      /\ held' = held /\ live' = live /\ pwm' = pwm /\ meta' = meta /\ bmp' = bmp
      /\ clock' = clock /\ jobs' = jobs
  BY DEF CloseSave, CloseWithLoss, files, counters, ghosts, At
<1>2. PICK pc \in AfterClose(t) : Go(t, pc)
  BY DEF CloseSave, CloseWithLoss
<1>3. /\ JobsFit' /\ Alone(t) /\ Keeps(t) /\ job'[t].target = job[t].target
      /\ job'[t].pc \in {"bmp", "meta", "history", "audit"}
  BY <1>1, <1>2, CloseJob DEF Shapes
<1>4. (HasFile(t)' => HasFile(t)) /\ (BacksUp(t)' => BacksUp(t))
  BY <1>1, <1>3 DEF HasFile, BacksUp, BackupSteps, WritesBackup
<1>5. MapImage' = MapImage
  BY <1>1, MapStays DEF Shapes
<1>6. FilesFit' /\ LogsFit'
  BY <1>1, <1>5, FilesStay, LogsStay DEF Shapes, FilesFit
<1>7. QED  BY <1>1, <1>3, <1>4, <1>6, ShapesGo

(* They stay when a screenshot is written. *)
LEMMA ShapesSaveBmp ==
    ASSUME Shapes, NEW t \in Threads, SaveBmp(t) PROVE Shapes'
<1>1. /\ job[t].pc = "bmp" /\ Go(t, "meta") /\ UNCHANGED mapVars /\ UNCHANGED logs
      /\ held' = held /\ live' = live /\ pwm' = pwm /\ meta' = meta
      /\ clock' = clock /\ jobs' = jobs
  BY DEF SaveBmp, ghosts, At
<1>2. /\ JobsFit' /\ Alone(t) /\ Keeps(t) /\ job'[t].target = job[t].target
      /\ job'[t].pc = "meta"
  BY <1>1, BmpJob DEF Shapes
<1>3. (HasFile(t)' => HasFile(t)) /\ (BacksUp(t)' => BacksUp(t))
  BY <1>1, <1>2 DEF HasFile, BacksUp, BackupSteps, WritesBackup
<1>4. MapImage' = MapImage
  BY <1>1, MapStays DEF Shapes
<1>5. \A id \in DOMAIN bmp' : bmp'[id] \in Pixmaps \cup {CutPicture}
  <2>1. PICK picture \in Pixmaps \cup {CutPicture} :
           bmp' = [id \in DOMAIN bmp \cup {job[t].id} |->
                     IF id = job[t].id THEN picture ELSE bmp[id]]
    BY DEF SaveBmp, Shapes, MapTypeOK
  <2>2. QED  BY <2>1 DEF Shapes, FilesFit
<1>6. FilesFit'
  BY <1>1, <1>4, <1>5 DEF Shapes, FilesFit, IsFile
<1>7. LogsFit'
  BY <1>1, LogsStay DEF Shapes
<1>8. QED  BY <1>1, <1>2, <1>3, <1>6, <1>7, ShapesGo

(* The metadata make a backup of a file, or spoil it. *)
LEMMA MetaWritten ==
    ASSUME Shapes, NEW t \in Threads, WriteMetadata(t)
    PROVE  /\ HasFile(t) /\ job[t].id \in DOMAIN pwm /\ job[t].id \in Ids
           /\ \/ DOMAIN meta' = DOMAIN meta \cup {job[t].id} /\ spoiled' = spoiled
              \/ /\ DOMAIN meta' = DOMAIN meta \ {job[t].id}
                 /\ spoiled' = spoiled \cup {job[t].id}
           /\ \A id \in DOMAIN meta' : meta'[id] \in Nat
<1>1. job[t].pc = "meta"
  BY DEF WriteMetadata, At
<1>2. job[t].target = "backup" /\ job[t] \in Jobs /\ job[t].id \in Ids
  BY <1>1, BackupJob DEF Shapes
<1>3. HasFile(t) /\ Aim(t) = job[t].id
  BY <1>1, <1>2 DEF HasFile, WritesBackup, Aim
<1>4. job[t].id \in DOMAIN pwm
  BY <1>3 DEF Shapes, NamesFit, NameFits
<1>5. job[t].number \in Nat
  BY <1>2 DEF Jobs
<1>6. CASE /\ meta' = [id \in DOMAIN meta \cup {job[t].id} |->
                         IF id = job[t].id THEN job[t].number ELSE meta[id]]
           /\ spoiled' = spoiled
  <2>1. DOMAIN meta' = DOMAIN meta \cup {job[t].id}
    BY <1>6
  <2>2. \A id \in DOMAIN meta' : meta'[id] \in Nat
    BY <1>5, <1>6 DEF Shapes, FilesFit
  <2>3. QED  BY <1>2, <1>3, <1>4, <1>6, <2>1, <2>2
<1>7. CASE /\ meta' = [id \in DOMAIN meta \ {job[t].id} |-> meta[id]]
           /\ spoiled' = spoiled \cup {Aim(t)}
  <2>1. DOMAIN meta' = DOMAIN meta \ {job[t].id}
    BY <1>7
  <2>2. \A id \in DOMAIN meta' : meta'[id] \in Nat
    BY <1>7 DEF Shapes, FilesFit
  <2>3. QED  BY <1>2, <1>3, <1>4, <1>7, <2>1, <2>2
<1>8. QED  BY <1>6, <1>7 DEF WriteMetadata

(* They stay when a backup is listed. *)
LEMMA ShapesWriteMetadata ==
    ASSUME Shapes, NEW t \in Threads, WriteMetadata(t) PROVE Shapes'
<1>1. /\ job[t].pc = "meta" /\ UNCHANGED mapVars /\ UNCHANGED logs
      /\ held' = held /\ live' = live /\ pwm' = pwm /\ bmp' = bmp
      /\ clock' = clock /\ jobs' = jobs
  BY DEF WriteMetadata, At
<1>2. /\ JobsFit' /\ Alone(t)
      /\ \/ job'[t].pc = "idle" /\ job'[t].kind = "none"
         \/ /\ Keeps(t) /\ job'[t].target = "live"
            /\ job'[t].pc \in {"reset", "parse", "audit"}
            /\ job'[t].pc = "parse" => job[t].kind = "rollback"
  BY <1>1, MetaJob DEF WriteMetadata, Shapes
<1>3. MapTypeOK' /\ MapImage' = MapImage
  BY <1>1, MapStays DEF Shapes
<1>4. HasFile(t)
  BY MetaWritten
<1>5. NameFits(t)'
  <2>1. ~HasFile(t)' /\ job'[t].pc # "install"
    BY <1>2 DEF HasFile
  <2>2. Restores(t)' => Restores(t) /\ Keeps(t)
    BY <1>2, <1>4 DEF Restores, HasFile, BacksUp, BackupSteps, Keeps
  <2>3. QED  BY <1>1, <2>1, <2>2 DEF NameFits, Shapes, NamesFit, Keeps
<1>6. NamesFit'
  BY <1>1, <1>2, <1>5, NamesStay DEF Shapes
<1>7. WritersFit'
  BY <1>1, <1>2, <1>3, WritersStay DEF Shapes
<1>8. FilesFit'
  BY <1>1, <1>3, MetaWritten DEF Shapes, FilesFit, IsFile
<1>9. LogsFit'
  BY <1>1, LogsStay DEF Shapes
<1>10. NumbersFit'
  BY <1>1 DEF Shapes, NumbersFit
<1>11. QED  BY <1>2, <1>3, <1>6, <1>7, <1>8, <1>9, <1>10 DEF Shapes

(* They stay when a rollback finds and reads its backup. *)
LEMMA ShapesLooksUp ==
    ASSUME Shapes, NEW t \in Threads, LooksUp(t) PROVE Shapes'
<1>1. /\ UNCHANGED mapVars /\ UNCHANGED logs
      /\ held' = held /\ live' = live /\ pwm' = pwm /\ meta' = meta /\ bmp' = bmp
      /\ clock' = clock /\ jobs' = jobs
  BY LooksUpOnly DEF files, counters, ghosts
<1>2. /\ JobsFit' /\ Alone(t)
      /\ job[t].pc \in {"find", "parse", "read"}
      /\ \/ job'[t].pc = "idle" /\ job'[t].kind = "none"
         \/ Carries(t) /\ Looked(t)
  BY LooksUpJob DEF Shapes
<1>3. MapTypeOK' /\ MapImage' = MapImage
  BY <1>1, MapStays DEF Shapes
<1>4. NameFits(t)'
  <2>1. CASE job'[t].pc = "idle" /\ job'[t].kind = "none"
    BY <2>1 DEF NameFits, HasFile, Restores
  <2>2. CASE Carries(t) /\ Looked(t)
    <3>1. job[t].pc \in {"parse", "read"} => job[t].loaded \in DOMAIN pwm
      BY <2>2 DEF Carries, Shapes, NamesFit, NameFits, Restores
    <3>2. ~HasFile(t)'
      BY <2>2 DEF Carries, HasFile, WritesBackup
    <3>3. job'[t].loaded \in DOMAIN pwm /\ (job'[t].pc = "install" => Loads(job'[t].read))
      BY <2>2, <3>1 DEF Looked
    <3>4. QED  BY <1>1, <3>2, <3>3 DEF NameFits
  <2>3. QED  BY <1>2, <2>1, <2>2
<1>5. NamesFit'
  BY <1>1, <1>2, <1>4, NamesStay DEF Shapes
<1>6. job'[t].pc # "write"
  BY <1>2 DEF Looked
<1>7. WritersFit'
  BY <1>1, <1>2, <1>3, <1>6, WritersStay DEF Shapes
<1>8. FilesFit' /\ LogsFit'
  BY <1>1, FilesStay, LogsStay DEF Shapes, FilesFit
<1>9. NumbersFit'
  BY <1>1 DEF Shapes, NumbersFit
<1>10. QED  BY <1>2, <1>3, <1>5, <1>7, <1>8, <1>9 DEF Shapes

(* They stay when a rollback installs its map. *)
LEMMA ShapesInstall ==
    ASSUME Shapes, NEW t \in Threads, DoInstall(t) PROVE Shapes'
<1>1. /\ UNCHANGED logs /\ NoReaders
      /\ held' = held /\ live' = live /\ pwm' = pwm /\ meta' = meta /\ bmp' = bmp
      /\ clock' = clock /\ jobs' = jobs
      /\ Install(LoadedImage(job[t].read)) /\ job[t].pc = "install"
  BY DEF DoInstall, files, counters, At
<1>2. LoadedImage(job[t].read) \in Images
  BY InstallJob DEF Shapes
<1>3. MapTypeOK'
  BY <1>1, <1>2, InstallTypes
<1>4. /\ JobsFit' /\ job'[t].pc = "open" /\ job'[t].target = "live"
      /\ \A u \in Threads \ {t} : job'[u] = job[u] \/ TakenBack(u)
  BY InstallJob DEF Shapes
<1>5. NamesFit'
  <2>1. NameFits(t)'
    BY <1>4 DEF NameFits, HasFile, Restores, BacksUp, WritesBackup
  <2>2. ASSUME NEW u \in Threads, u # t PROVE NameFits(u)'
    <3>1. job'[u] = job[u] \/ TakenBack(u)
      BY <1>4, <2>2
    <3>2. /\ job'[u].pc = job[u].pc /\ job'[u].target = job[u].target
          /\ job'[u].id = job[u].id /\ job'[u].loaded = job[u].loaded
          /\ job'[u].kind = job[u].kind /\ job'[u].read = job[u].read
      BY <3>1 DEF TakenBack
    <3>3. QED  BY <1>1, <3>2 DEF Shapes, NamesFit, NameFits, HasFile, Restores, BacksUp,
                                 WritesBackup
  <2>3. QED  BY <2>1, <2>2 DEF NamesFit
<1>6. WritersFit'
  BY <1>1, <1>4, WritersNone DEF TakenBack
<1>7. FilesFit'
  BY <1>1, FilesStay DEF Shapes, FilesFit
<1>8. LogsFit'
  BY <1>1, LogsStay DEF Shapes
<1>9. NumbersFit'
  BY <1>1 DEF Shapes, NumbersFit
<1>10. QED  BY <1>3, <1>4, <1>5, <1>6, <1>7, <1>8, <1>9 DEF Shapes

(* They stay when an entry is appended to a log. *)
LEMMA ShapesAppend ==
    ASSUME Shapes, NEW t \in Threads, AppendHistory(t) \/ AppendAudit(t) PROVE Shapes'
<1>1. /\ job[t].pc \in {"history", "audit"} /\ Go(t, "reply") /\ UNCHANGED mapVars
      /\ held' = held /\ live' = live /\ pwm' = pwm /\ bmp' = bmp /\ meta' = meta
      /\ clock' = clock /\ jobs' = jobs
  BY DEF AppendHistory, AppendAudit, ghosts, At
<1>2. IsJob(job[t])
  BY <1>1, BusyIsJob DEF Shapes
<1>3. job[t].target = "live" /\ InHandler(job[t].kind, "reply")
  BY <1>1, <1>2 DEF IsJob, InBackup, BackupSteps, InHandler, Jobs
<1>4. /\ JobsFit' /\ Alone(t) /\ Keeps(t) /\ job'[t].target = job[t].target
      /\ job'[t].pc = "reply"
  BY <1>1, <1>3, GoJob DEF Shapes, Alone, Steps
<1>5. (HasFile(t)' => HasFile(t)) /\ (BacksUp(t)' => BacksUp(t))
  BY <1>4 DEF HasFile, BacksUp, BackupSteps
<1>6. MapImage' = MapImage
  BY <1>1, MapStays DEF Shapes
<1>7. FilesFit'
  BY <1>1, <1>6, FilesStay DEF Shapes, FilesFit
<1>8. LogsFit'
  <2>1. CASE AppendHistory(t)
    <3>1. audit' = audit /\ auditFile' = auditFile
      BY <2>1 DEF AppendHistory, auditVars
    <3>2. LogFits(history, historyFile)'
      BY <2>1, HistoryAppended DEF AppendHistory, Shapes, LogsFit
    <3>3. QED  BY <3>1, <3>2 DEF Shapes, LogsFit, LogFits
  <2>2. CASE AppendAudit(t)
    <3>1. history' = history /\ historyFile' = historyFile
      BY <2>2 DEF AppendAudit, historyVars
    <3>2. LogFits(audit, auditFile)'
      BY <2>2, AuditAppended DEF AppendAudit, Shapes, LogsFit
    <3>3. QED  BY <3>1, <3>2 DEF Shapes, LogsFit, LogFits
  <2>3. QED  BY <2>1, <2>2
<1>9. QED  BY <1>1, <1>4, <1>5, <1>7, <1>8, ShapesGo

(* They stay when the process dies. *)
LEMMA ShapesCrash == ASSUME Shapes, Crash PROVE Shapes'
<1>1. /\ job' = [t \in Threads |-> IdleJob] /\ UNCHANGED mapVars
      /\ held' = held /\ live' = live /\ pwm' = pwm /\ bmp' = bmp /\ meta' = meta
      /\ clock' = clock /\ jobs' = jobs
  BY DEF Crash, ghosts
<1>2. JobsFit' /\ NamesFit' /\ WritersFit'
  <2>1. \A t \in Threads : job'[t].pc = "idle" /\ job'[t].kind = "none"
    BY <1>1 DEF IdleJob
  <2>2. JobsFit'
    BY <1>1 DEF JobsFit
  <2>3. QED  BY <2>1, <2>2 DEF NamesFit, NameFits, HasFile, Restores, BacksUp, BackupSteps,
                               WritersFit
<1>3. MapTypeOK' /\ MapImage' = MapImage
  BY <1>1, MapStays DEF Shapes
<1>4. FilesFit'
  BY <1>1, <1>3, FilesStay DEF Shapes, FilesFit
<1>5. LogsFit'
  BY LogsCut, LogsStay DEF Crash, Shapes
<1>6. NumbersFit'
  BY <1>1 DEF Shapes, NumbersFit
<1>7. QED  BY <1>2, <1>3, <1>4, <1>5, <1>6 DEF Shapes

(* What a start may make of map.pwm. *)
LEMMA BlankFile ==
    /\ IsFile([image |-> BlankImage, written |-> Tokens(BlankImage)])
    /\ \A file \in CutBlanks : IsFile(file) /\ file.image = BlankImage /\ ~Whole(file)
<1>1. BlankImage \in Images
  BY BlankIsPixmap DEF BlankImage, Images
<1>2. PICK k \in Nat : Tokens(BlankImage) = 0 .. k
  BY <1>1, TokensOfImage
<1>3. ASSUME NEW n \in Tokens(BlankImage),
             NEW file, file = [image |-> BlankImage, written |-> 0 .. (n - 1)]
      PROVE  IsFile(file) /\ file.image = BlankImage /\ ~Whole(file)
  <2>1. 0 .. (n - 1) \in SUBSET Nat /\ 0 .. (n - 1) \subseteq Tokens(BlankImage)
        /\ n \notin 0 .. (n - 1)
    BY <1>2
  <2>2. QED  BY <1>1, <1>3, <2>1 DEF IsFile, Whole
<1>4. Tokens(BlankImage) \in SUBSET Nat
  BY <1>2
<1>5. IsFile([image |-> BlankImage, written |-> Tokens(BlankImage)])
  BY <1>1, <1>4 DEF IsFile
<1>6. QED  BY <1>3, <1>5 DEF CutBlanks

(* A start takes the map of the file, or a blank one that it saves. *)
LEMMA MapLoaded ==
    ASSUME Shapes, LoadMap
    PROVE  /\ MapTypeOK' /\ IsFile(live')
           /\ IF Whole(live)
              THEN MapImage' = live.image /\ live' = live /\ spoiled' = spoiled \ {<<>>}
              ELSE /\ MapImage' = BlankImage /\ live'.image = BlankImage
                   /\ \/ Whole(live') /\ spoiled' = spoiled \ {<<>>}
                      \/ ~Whole(live') /\ spoiled' = spoiled \cup {<<>>}
<1> DEFINE file == Content(live.image, live.written)
<1>1. /\ Loads(file) <=> Whole(live)
      /\ Whole(live) => LoadedImage(file) = live.image
      /\ live.image \in Images /\ IsFile(live)
  BY LoadedFile DEF Shapes, FilesFit
<1>2. BlankImage \in Images
  BY DEF Shapes, FilesFit
<1>3. ASSUME NEW image \in Images, Install(image)
      PROVE  MapTypeOK' /\ MapImage' = image
  <2>1. pixels' = image.pixels /\ sequence' = image.sequence
    BY <1>3 DEF Install
  <2>2. QED  BY <1>3, <2>1, InstallTypes DEF MapImage, Images
<1>4. CASE Whole(live)
  <2>1. Install(live.image) /\ live' = live /\ spoiled' = spoiled \ {<<>>}
    BY <1>1, <1>4 DEF LoadMap
  <2>2. QED  BY <1>1, <1>3, <1>4, <2>1
<1>5. CASE ~Whole(live)
  <2>1. Install(BlankImage) /\ SaveAtStart(BlankImage)
    BY <1>1, <1>5 DEF LoadMap
  <2>2. CASE /\ live' = [image |-> BlankImage, written |-> Tokens(BlankImage)]
             /\ spoiled' = spoiled \ {<<>>}
    <3>1. IsFile(live') /\ live'.image = BlankImage /\ Whole(live')
      BY <2>2, BlankFile DEF Whole
    <3>2. QED  BY <1>2, <1>3, <1>5, <2>1, <2>2, <3>1
  <2>3. CASE live' \in CutBlanks /\ spoiled' = spoiled \cup {<<>>}
    <3>1. IsFile(live') /\ live'.image = BlankImage /\ ~Whole(live')
      BY <2>3, BlankFile
    <3>2. QED  BY <1>2, <1>3, <1>5, <2>1, <2>3, <3>1
  <2>4. QED  BY <2>1, <2>2, <2>3 DEF SaveAtStart
<1>6. QED  BY <1>4, <1>5

(* They stay when the process starts from whatever the files hold. *)
LEMMA ShapesBoot == ASSUME Shapes, ~up => \A t \in Threads : job[t] = IdleJob, Boot PROVE Shapes'
<1>1. /\ LoadMap /\ ~up /\ job' = job
      /\ held' = held /\ pwm' = pwm /\ bmp' = bmp /\ meta' = meta
      /\ clock' = clock /\ jobs' = jobs
  BY DEF Boot, counters
<1>2. MapTypeOK' /\ IsFile(live')
  BY <1>1, MapLoaded
<1>3. IsFile(live)'
  BY <1>2 DEF IsFile
<1>4. FilesFit'
  BY <1>1, <1>3 DEF Shapes, FilesFit, IsFile
<1>5. JobsFit'
  BY <1>1 DEF Shapes, JobsFit
<1>6. \A t \in Threads : job'[t].pc = "idle" /\ job'[t].kind = "none"
  BY <1>1 DEF IdleJob
<1>7. NamesFit' /\ WritersFit'
  BY <1>6 DEF NamesFit, NameFits, HasFile, Restores, BacksUp, BackupSteps, WritersFit
<1>8. LogsFit'
  BY HistoryLoadedFits, AuditLoadedFits DEF Boot, History!Load, Audit!Load, Shapes,
     LogsFit, LogFits
<1>9. NumbersFit'
  BY <1>1 DEF Shapes, NumbersFit
<1>10. QED  BY <1>2, <1>4, <1>5, <1>7, <1>8, <1>9 DEF Shapes

(* They stay when the process dies while it starts. *)
LEMMA ShapesDieStarting ==
    ASSUME Shapes, ~up => \A t \in Threads : job[t] = IdleJob, DieStarting PROVE Shapes'
<1>1. /\ ~up /\ job' = job /\ UNCHANGED mapVars /\ UNCHANGED logs
      /\ held' = held /\ pwm' = pwm /\ bmp' = bmp /\ meta' = meta
      /\ clock' = clock /\ jobs' = jobs /\ live' \in CutBlanks
  BY DEF DieStarting, ghosts, counters
<1>2. MapTypeOK' /\ MapImage' = MapImage
  BY <1>1, MapStays DEF Shapes
<1>3. IsFile(live)'
  BY <1>1, BlankFile DEF IsFile
<1>4. FilesFit'
  BY <1>1, <1>3 DEF Shapes, FilesFit, IsFile
<1>5. JobsFit'
  BY <1>1 DEF Shapes, JobsFit
<1>6. \A t \in Threads : job'[t].pc = "idle" /\ job'[t].kind = "none"
  BY <1>1 DEF IdleJob
<1>7. NamesFit' /\ WritersFit'
  BY <1>6 DEF NamesFit, NameFits, HasFile, Restores, BacksUp, BackupSteps, WritersFit
<1>8. LogsFit'
  BY <1>1, LogsStay DEF Shapes
<1>9. NumbersFit'
  BY <1>1 DEF Shapes, NumbersFit
<1>10. QED  BY <1>2, <1>4, <1>5, <1>7, <1>8, <1>9 DEF Shapes

(* Between a crash and the next start no thread has a job. *)
DownIsIdle == ~up => \A t \in Threads : job[t] = IdleJob

(* No step leaves the shapes. *)
LEMMA ShapesStep == Shapes /\ DownIsIdle /\ [Next]_vars => Shapes'
<1> SUFFICES ASSUME Shapes, DownIsIdle, [Next]_vars PROVE Shapes'
  OBVIOUS
<1>1. CASE UNCHANGED vars
  <2>1. UNCHANGED <<job, live, pwm, bmp, meta, held, clock, jobs>> /\ UNCHANGED logs
        /\ UNCHANGED mapVars
    BY <1>1 DEF vars, files, ghosts, counters
  <2>2. MapTypeOK' /\ MapImage' = MapImage
    BY <2>1, MapStays DEF Shapes
  <2>3. FilesFit' /\ LogsFit' /\ JobsFit' /\ NumbersFit'
    BY <2>1, <2>2, FilesStay, LogsStay DEF Shapes, FilesFit, JobsFit, NumbersFit
  <2>4. NamesFit' /\ WritersFit'
    BY <2>1, <2>2 DEF Shapes, NamesFit, NameFits, HasFile, Restores, BacksUp, WritesBackup,
                      WritersFit, Target
  <2>5. QED  BY <2>2, <2>3, <2>4 DEF Shapes
<1>2. CASE Next
  <2>1. CASE \E t \in Threads : LooksUp(t)
    BY <2>1, ShapesLooksUp
  <2>2. CASE ~\E t \in Threads : LooksUp(t)
    <3>1. \A t \in Threads : ~Find(t) /\ ~Parse(t) /\ ~EndParse(t)
                            /\ \A n \in 0 .. Size : ~ReadOn(t, n)
      BY <2>2 DEF LooksUp
    <3>2. QED
      BY <1>2, <3>1, ShapesStart, ShapesSetPixel, ShapesReset, ShapesStamp, ShapesOpenSave,
         ShapesEnds, ShapesFlush, ShapesClose, ShapesSaveBmp, ShapesWriteMetadata,
         ShapesInstall, ShapesAppend, ShapesCrash, ShapesBoot, ShapesDieStarting
      DEF Next, DownIsIdle
  <2>3. QED  BY <2>1, <2>2
<1>3. QED  BY <1>1, <1>2

----------------------------------------------------------------------------
(* What each step does, as the invariants below need it. *)

MapSame   == MapImage' = MapImage /\ sequence' = sequence
FilesSame == live' = live /\ pwm' = pwm /\ meta' = meta
Working   == up /\ up'
GhostSame == spoiled' = spoiled /\ twins' = twins /\ acked' = acked

(* A handler starts: nothing but its job changes. *)
LEMMA StartStep ==
    ASSUME Shapes, NEW t \in Threads, NEW kind \in Kinds, Start(t, kind)
    PROVE  /\ Working /\ MapSame /\ FilesSame /\ GhostSame /\ held' = held /\ Alone(t)
           /\ job[t].pc = "idle"
           /\ job'[t].kind = kind /\ job'[t].target = "live" /\ job'[t].id = <<>>
           /\ job'[t].pc \in {"setPixel", "stamp", "find"} /\ job'[t].lasting = 0
<1>1. UNCHANGED mapVars
  BY DEF Start
<1>2. MapSame
  BY <1>1, MapStays DEF Shapes, MapSame
<1>3. Working /\ FilesSame /\ GhostSame /\ held' = held
  BY DEF Start, At, Working, FilesSame, GhostSame, files
<1>4. QED  BY <1>2, <1>3, StartJob DEF Shapes, NumbersFit

(* A pixel or a reset: one thread alone gives the map its next number. *)
LEMMA ChangeStep ==
    ASSUME Shapes, NEW t \in Threads,
           \/ \E x \in Columns, y \in Rows, color \in Asked : DoSetPixel(t, x, y, color)
           \/ \E color \in Asked : DoReset(t, color)
    PROVE  /\ Working /\ FilesSame /\ GhostSame /\ Alone(t)
           /\ NoReaders /\ sequence' = sequence + 1
           /\ job[t].pc \in {"setPixel", "reset"} /\ job'[t].pc = "open"
           /\ job[t].target = "live" /\ job'[t].target = "live"
           /\ job'[t].kind = job[t].kind /\ job'[t].id = job[t].id
           /\ job'[t].lasting = sequence'
<1>1. /\ Working /\ FilesSame /\ GhostSame /\ NoReaders
      /\ job[t].pc \in {"setPixel", "reset"}
  BY DEF DoSetPixel, DoReset, At, Working, FilesSame, GhostSame, files, answers
<1>2. sequence' = sequence + 1 /\ sequence' \in Nat
  <2>1. sequence' = sequence + 1
    BY DEF DoSetPixel, DoReset, SetPixel, Reset
  <2>2. QED  BY <2>1 DEF Shapes, MapTypeOK
<1>3. PICK n \in Nat : n = sequence'
  BY <1>2
<1>4. job' = [job EXCEPT ![t].pc = "open", ![t].number = n, ![t].lasting = n]
  BY <1>3 DEF DoSetPixel, DoReset
<1>5. /\ Alone(t) /\ job[t].target = "live" /\ job'[t].target = "live"
      /\ job'[t].kind = job[t].kind /\ job'[t].id = job[t].id
      /\ job'[t].pc = "open" /\ job'[t].lasting = n
  <2>1. JobsFit
    BY DEF Shapes
  <2>2. PICK pc \in {"setPixel", "reset"} : job[t].pc = pc
    BY <1>1
  <2>3. n \in Nat /\ t \in Threads
    BY <1>3
  <2>4. QED  BY ONLY <1>4, <2>1, <2>2, <2>3, ChangeJob
<1>6. QED  BY <1>1, <1>2, <1>3, <1>5

(* A backup gets a name that no file has, and twins tells if a job has     *)
(* it.                                                                     *)
LEMMA StampStep ==
    ASSUME Shapes, NEW t \in Threads, Stamp(t)
    PROVE  /\ Working /\ MapSame /\ FilesSame /\ held' = held /\ Alone(t)
           /\ spoiled' = spoiled /\ acked' = acked
           /\ job[t].pc = "stamp" /\ job'[t].pc = "open"
           /\ job[t].target = "live" /\ job'[t].target = "backup"
           /\ job'[t].kind = job[t].kind /\ job'[t].lasting = sequence
           /\ job'[t].loaded = job[t].loaded
           /\ job'[t].id \in Ids \ DOMAIN pwm
           /\ twins' = (twins \/ \E u \in Threads \ {t} :
                                    job[u].pc # "idle" /\ job[u].id = job'[t].id)
<1>1. UNCHANGED mapVars /\ job[t].pc = "stamp"
  BY DEF Stamp, At
<1>2. MapSame
  BY <1>1, MapStays DEF Shapes, MapSame
<1>3. /\ Working /\ FilesSame /\ held' = held
      /\ spoiled' = spoiled /\ acked' = acked
  BY DEF Stamp, At, Working, FilesSame, files, answers
<1>4. PICK id \in Ids :
         /\ id \notin DOMAIN pwm
         /\ job' = [job EXCEPT ![t] = [job[t] EXCEPT !.pc = "open", !.target = "backup",
                                       !.id = id, !.number = sequence, !.lasting = sequence]]
         /\ twins' = (twins \/ \E u \in Threads \ {t} :
                                  job[u].pc # "idle" /\ job[u].id = id)
  BY StampName
<1>5. sequence \in Nat /\ JobsFit
  BY DEF Shapes, MapTypeOK
<1>6. /\ Alone(t) /\ job[t].target = "live" /\ job'[t].target = "backup"
      /\ job'[t].kind = job[t].kind /\ job'[t].pc = "open" /\ job'[t].id = id
      /\ job'[t].lasting = sequence /\ job'[t].loaded = job[t].loaded
  <2>1. job' = [job EXCEPT ![t] = [job[t] EXCEPT !.pc = "open", !.target = "backup",
                                       !.id = id, !.number = sequence, !.lasting = sequence]]
    BY <1>4
  <2>2. sequence \in Nat /\ JobsFit /\ job[t].pc = "stamp"
    BY <1>1, <1>5
  <2>3. job[t] \in Jobs /\ DOMAIN job = Threads
    BY <2>2, BusyIsJob DEF IsJob, JobsFit
  <2>4. job'[t].id = id /\ job'[t].lasting = sequence
    BY <2>1, <2>3 DEF Jobs
  <2>5. /\ Alone(t) /\ job[t].target = "live" /\ job'[t].target = "backup"
        /\ job'[t].kind = job[t].kind /\ job'[t].pc = "open"
        /\ job'[t].loaded = job[t].loaded
    BY <2>1, <2>2, StampJob
  <2>6. QED  BY <2>4, <2>5
<1>7. QED  BY <1>1, <1>2, <1>3, <1>4, <1>6

(* The thread opens its file: empty, and of the map in memory. *)
LEMMA OpenStep ==
    ASSUME Shapes, NEW t \in Threads, OpenSave(t)
    PROVE  /\ Working /\ MapSame /\ meta' = meta /\ held' = held /\ Alone(t) /\ Keeps(t)
           /\ twins' = twins /\ acked' = acked /\ spoiled' = spoiled \ {Aim(t)}
           /\ job[t].pc = "open" /\ job'[t].pc = "write" /\ job'[t].offset = 0
           /\ job'[t].target = job[t].target
           /\ ~WritesBackup(t) =>
                 pwm' = pwm /\ live' = [image |-> MapImage, written |-> {}]
           /\ WritesBackup(t) =>
                 /\ live' = live
                 /\ DOMAIN pwm' = DOMAIN pwm \cup {job[t].id}
                 /\ pwm'[job[t].id] = [image |-> MapImage, written |-> {}]
                 /\ \A id \in DOMAIN pwm \ {job[t].id} : pwm'[id] = pwm[id]
<1> DEFINE file == [image |-> MapImage, written |-> {}]
<1>1. /\ job[t].pc = "open" /\ SetTarget(t, file) /\ Working
      /\ job' = [job EXCEPT ![t].pc = "write", ![t].offset = 0]
      /\ UNCHANGED mapVars /\ held' = held /\ meta' = meta /\ bmp' = bmp
      /\ twins' = twins /\ acked' = acked /\ spoiled' = spoiled \ {Aim(t)}
  BY DEF OpenSave, At, Working, answers
<1>2. IsFile(file)
  BY NewFile DEF Shapes
<1>3. MapSame
  BY <1>1, MapStays DEF Shapes, MapSame
<1>4. /\ Alone(t) /\ Keeps(t) /\ job'[t].target = job[t].target
      /\ job'[t].pc = "write" /\ job'[t].offset = 0
  BY <1>1, WriterJob DEF Shapes
<1> HIDE DEF file
<1>5. /\ ~WritesBackup(t) => live' = file /\ pwm' = pwm
      /\ WritesBackup(t) => /\ live' = live
                            /\ DOMAIN pwm' = DOMAIN pwm \cup {job[t].id}
                            /\ pwm'[job[t].id] = file
                            /\ \A id \in DOMAIN pwm \ {job[t].id} : pwm'[id] = pwm[id]
  BY <1>1, <1>2, <1>3, TargetSet DEF Shapes, MapSame
<1>6. QED  BY <1>1, <1>3, <1>4, <1>5 DEF file

(* More of the file is written, from the offset on. *)
LEMMA FlushStep ==
    ASSUME Shapes, NEW t \in Threads, NEW n \in 0 .. Size, Flush(t, n)
    PROVE  /\ Working /\ MapSame /\ meta' = meta /\ held' = held /\ Alone(t) /\ Keeps(t)
           /\ GhostSame
           /\ job[t].pc = "write" /\ job'[t].pc = "write"
           /\ job'[t].offset = n + 1 /\ job[t].offset \in Nat /\ n >= job[t].offset
           /\ n \in Tokens(MapImage)
           /\ job'[t].target = job[t].target
           /\ ~WritesBackup(t) =>
                 /\ pwm' = pwm /\ live'.image = MapImage /\ live.image = MapImage
                 /\ live'.written = live.written \cup (job[t].offset .. n)
           /\ WritesBackup(t) =>
                 /\ live' = live
                 /\ DOMAIN pwm' = DOMAIN pwm /\ job[t].id \in DOMAIN pwm
                 /\ pwm'[job[t].id].image = MapImage /\ pwm[job[t].id].image = MapImage
                 /\ pwm'[job[t].id].written
                       = pwm[job[t].id].written \cup (job[t].offset .. n)
                 /\ \A id \in DOMAIN pwm \ {job[t].id} : pwm'[id] = pwm[id]
<1>1. PICK file :
         /\ IsFile(file) /\ file.image = MapImage /\ SetTarget(t, file)
         /\ Target(t).image = MapImage
         /\ file.written = Target(t).written \cup (job[t].offset .. n)
         /\ n \in Tokens(MapImage) /\ job[t].offset \in Nat /\ n >= job[t].offset
  BY FlushedFile
<1>2. /\ job[t].pc = "write" /\ n + 1 \in Nat /\ Working
      /\ job' = [job EXCEPT ![t].offset = n + 1]
      /\ UNCHANGED mapVars /\ held' = held /\ meta' = meta /\ bmp' = bmp /\ GhostSame
  BY SizeIsPositive DEF Flush, At, ghosts, answers, Working, GhostSame
<1>3. job[t] \in Jobs
  BY <1>2, WriterJobs DEF Shapes
<1>4. [job[t] EXCEPT !.pc = "write"] = job[t]
  BY <1>2, <1>3 DEF Jobs
<1>5. job' = [job EXCEPT ![t].pc = "write", ![t].offset = n + 1]
  BY <1>2, <1>4 DEF Shapes, JobsFit
<1>6. /\ Alone(t) /\ Keeps(t) /\ job'[t].target = job[t].target
      /\ job'[t].pc = "write" /\ job'[t].offset = n + 1
  BY <1>2, <1>5, WriterJob DEF Shapes
<1>7. MapSame
  BY <1>2, MapStays DEF Shapes, MapSame
<1>8. /\ ~WritesBackup(t) => live' = file /\ pwm' = pwm
      /\ WritesBackup(t) => /\ live' = live
                            /\ DOMAIN pwm' = DOMAIN pwm \cup {job[t].id}
                            /\ pwm'[job[t].id] = file
                            /\ \A id \in DOMAIN pwm \ {job[t].id} : pwm'[id] = pwm[id]
  BY <1>1, <1>2, <1>7, TargetSet DEF Shapes, MapSame
<1>9. WritesBackup(t) => job[t].id \in DOMAIN pwm /\ Target(t) = pwm[job[t].id]
  BY <1>2 DEF Shapes, NamesFit, NameFits, HasFile, Target
<1>10. ~WritesBackup(t) => Target(t) = live
  BY DEF Target
<1>11. WritesBackup(t) => DOMAIN pwm' = DOMAIN pwm
  BY <1>8, <1>9
<1>12. QED  BY <1>1, <1>2, <1>6, <1>7, <1>8, <1>9, <1>10, <1>11

(* A file is closed: when all was written or else with its name in         *)
(* spoiled.                                                                *)
LEMMA CloseStep ==
    ASSUME Shapes, NEW t \in Threads, CloseSave(t) \/ CloseWithLoss(t)
    PROVE  /\ Working /\ MapSame /\ FilesSame /\ held' = held /\ Alone(t) /\ Keeps(t)
           /\ twins' = twins /\ acked' = acked
           /\ \/ spoiled' = spoiled /\ job[t].offset = Cardinality(Tokens(MapImage))
              \/ spoiled' = spoiled \cup {Aim(t)}
           /\ job[t].pc = "write" /\ job'[t].target = job[t].target
           /\ job'[t].pc \in {"bmp", "meta", "history", "audit"}
           /\ job'[t].pc \in {"bmp", "meta"} <=> WritesBackup(t)
           /\ ~WritesBackup(t) => job[t].kind # "create"
<1>1. /\ job[t].pc = "write" /\ UNCHANGED mapVars /\ FilesSame /\ Working
      /\ held' = held /\ twins' = twins /\ acked' = acked
      /\ \/ spoiled' = spoiled /\ job[t].offset = Cardinality(Tokens(MapImage))
         \/ spoiled' = spoiled \cup {Aim(t)}
  BY DEF CloseSave, CloseWithLoss, files, ghosts, answers, At, FilesSame, Working
<1>2. PICK pc \in AfterClose(t) : Go(t, pc)
  BY DEF CloseSave, CloseWithLoss
<1>3. /\ Alone(t) /\ Keeps(t) /\ job'[t].target = job[t].target
      /\ job'[t].pc \in {"bmp", "meta", "history", "audit"}
      /\ job'[t].pc \in {"bmp", "meta"} <=> WritesBackup(t)
      /\ ~WritesBackup(t) => job[t].kind # "create"
  BY <1>1, <1>2, CloseJob DEF Shapes
<1>4. MapSame
  BY <1>1, MapStays DEF Shapes, MapSame
<1>5. QED  BY <1>1, <1>3, <1>4

(* A file does not open: the handler ends and the name is in spoiled. *)
LEMMA FailStep ==
    ASSUME Shapes, NEW t \in Threads, OpenFails(t)
    PROVE  /\ Working /\ MapSame /\ FilesSame /\ held' = held /\ Alone(t)
           /\ twins' = twins /\ acked' = acked /\ spoiled' = spoiled \cup {Aim(t)}
           /\ job'[t].pc = "idle"
           /\ job[t].pc \in {"open", "bmp", "meta"}
           /\ WritesBackup(t) => Aim(t) # <<>>
           /\ ~WritesBackup(t) => Aim(t) = <<>> /\ job[t].pc = "open"
<1>1. /\ Finish(t) /\ UNCHANGED mapVars /\ FilesSame /\ Working
      /\ held' = held /\ twins' = twins /\ acked' = acked
      /\ spoiled' = spoiled \cup {Aim(t)}
      /\ job[t].pc \in {"open", "bmp", "meta"}
  BY DEF OpenFails, files, answers, At, FilesSame, Working
<1>2. MapSame
  BY <1>1, MapStays DEF Shapes, MapSame
<1>3. Alone(t) /\ job'[t].pc = "idle"
  BY <1>1, FinishJob DEF Shapes, Alone
<1>4. /\ WritesBackup(t) => Aim(t) # <<>>
      /\ ~WritesBackup(t) => Aim(t) = <<>> /\ job[t].pc = "open"
  <2>1. CASE job[t].pc = "open"
    BY <2>1, WriterJobs DEF Shapes
  <2>2. CASE job[t].pc \in {"bmp", "meta"}
    <3>1. WritesBackup(t) /\ job[t].id \in Ids
      BY <2>2, BackupJob DEF Shapes, WritesBackup
    <3>2. QED  BY <3>1, NotEmptyName DEF Aim
  <2>3. QED  BY <1>1, <2>1, <2>2
<1>5. QED  BY <1>1, <1>2, <1>3, <1>4

(* The screenshot: only the job goes on. *)
LEMMA BmpStep ==
    ASSUME Shapes, NEW t \in Threads, SaveBmp(t)
    PROVE  /\ Working /\ MapSame /\ FilesSame /\ GhostSame /\ held' = held
           /\ Alone(t) /\ Keeps(t) /\ job'[t].target = job[t].target
           /\ job[t].pc = "bmp" /\ job'[t].pc = "meta" /\ WritesBackup(t)
<1>1. /\ job[t].pc = "bmp" /\ Go(t, "meta") /\ UNCHANGED mapVars /\ Working
      /\ FilesSame /\ GhostSame /\ held' = held
  BY DEF SaveBmp, ghosts, answers, At, FilesSame, GhostSame, Working
<1>2. MapSame
  BY <1>1, MapStays DEF Shapes, MapSame
<1>3. /\ Alone(t) /\ Keeps(t) /\ job'[t].target = job[t].target /\ job'[t].pc = "meta"
  BY <1>1, BmpJob DEF Shapes
<1>4. QED  BY <1>1, <1>2, <1>3, BackupJob DEF Shapes, WritesBackup

(* The metadata: the backup is listed or spoiled, and the handler goes on  *)
(* or ends.                                                                *)
LEMMA MetaStep ==
    ASSUME Shapes, NEW t \in Threads, WriteMetadata(t)
    PROVE  /\ Working /\ MapSame /\ twins' = twins /\ acked' = acked
           /\ held' = held /\ live' = live /\ pwm' = pwm
           /\ Alone(t) /\ job[t].pc = "meta" /\ WritesBackup(t)
           /\ job[t].id \in DOMAIN pwm /\ job[t].id \in Ids
           /\ \/ DOMAIN meta' = DOMAIN meta \cup {job[t].id} /\ spoiled' = spoiled
              \/ /\ DOMAIN meta' = DOMAIN meta \ {job[t].id}
                 /\ spoiled' = spoiled \cup {job[t].id}
           /\ spoiled \subseteq spoiled' /\ (<<>> \in spoiled' <=> <<>> \in spoiled)
           /\ \/ job'[t].pc = "idle"
              \/ /\ Keeps(t) /\ job'[t].target = "live"
                 /\ \/ job'[t].pc \in {"reset", "parse"}
                    \/ job'[t].pc = "audit" /\ job[t].kind = "create"
<1>1. /\ job[t].pc = "meta" /\ UNCHANGED mapVars /\ Working
      /\ twins' = twins /\ acked' = acked /\ held' = held /\ live' = live /\ pwm' = pwm
  BY DEF WriteMetadata, answers, At, Working
<1>2. MapSame
  BY <1>1, MapStays DEF Shapes, MapSame
<1>3. /\ Alone(t)
      /\ job[t].target = "backup" /\ job[t].id \in Ids
      /\ \/ job'[t].pc = "idle"
         \/ /\ Keeps(t) /\ job'[t].target = "live"
            /\ \/ job'[t].pc \in {"reset", "parse"}
               \/ job'[t].pc = "audit" /\ job[t].kind = "create"
  BY <1>1, MetaJob DEF WriteMetadata, Shapes
<1>4. /\ job[t].id \in DOMAIN pwm
      /\ \/ DOMAIN meta' = DOMAIN meta \cup {job[t].id} /\ spoiled' = spoiled
         \/ /\ DOMAIN meta' = DOMAIN meta \ {job[t].id}
            /\ spoiled' = spoiled \cup {job[t].id}
  BY MetaWritten
<1>5. job[t].id # <<>>
  BY <1>3, NotEmptyName
<1>6. spoiled \subseteq spoiled' /\ (<<>> \in spoiled' <=> <<>> \in spoiled)
  BY <1>4, <1>5
<1>7. QED  BY <1>1, <1>2, <1>3, <1>4, <1>6 DEF WritesBackup

(* A rollback looks for its backup and reads it: no file changes. *)
LEMMA FindStep ==
    ASSUME Shapes, NEW t \in Threads, LooksUp(t)
    PROVE  /\ Working /\ MapSame /\ FilesSame /\ GhostSame /\ held' = held /\ Alone(t)
           /\ job[t].pc \in {"find", "parse", "read"}
           /\ \/ job'[t].pc = "idle"
              \/ /\ Carries(t) /\ Looked(t)
                 /\ job[t].pc = "find" => job'[t].pc = "stamp"
                 /\ job[t].pc \in {"parse", "read"} => job'[t].pc \in {"read", "install"}
                 /\ job'[t].target = "live" /\ job'[t].id = job[t].id
                 /\ job'[t].lasting = job[t].lasting
<1>1. /\ UNCHANGED mapVars /\ Working /\ FilesSame /\ GhostSame /\ held' = held
  BY LooksUpOnly DEF files, ghosts, answers, FilesSame, GhostSame, Working
<1>2. MapSame
  BY <1>1, MapStays DEF Shapes, MapSame
<1>3. /\ Alone(t) /\ job[t].pc \in {"find", "parse", "read"}
      /\ job'[t].pc = "idle" \/ (Carries(t) /\ Looked(t))
  BY LooksUpJob DEF Shapes
<1>4. ASSUME Carries(t), Looked(t)
      PROVE  /\ job[t].pc = "find" => job'[t].pc = "stamp"
             /\ job[t].pc \in {"parse", "read"} => job'[t].pc \in {"read", "install"}
             /\ job'[t].target = "live" /\ job'[t].id = job[t].id
             /\ job'[t].lasting = job[t].lasting
  BY <1>4 DEF Carries, Looked
<1>5. QED  BY <1>1, <1>2, <1>3, <1>4

(* An entry of a log: the map and its files stay. *)
LEMMA AppendStep ==
    ASSUME Shapes, NEW t \in Threads, AppendHistory(t) \/ AppendAudit(t)
    PROVE  /\ Working /\ MapSame /\ FilesSame /\ GhostSame /\ held' = held
           /\ Alone(t) /\ Keeps(t)
           /\ job[t].target = "live" /\ job'[t].target = "live"
           /\ job[t].pc \in {"history", "audit"} /\ job'[t].pc = "reply"
<1>1. /\ job[t].pc \in {"history", "audit"} /\ Go(t, "reply") /\ UNCHANGED mapVars
      /\ Working /\ FilesSame /\ GhostSame /\ held' = held
  BY DEF AppendHistory, AppendAudit, ghosts, answers, At, FilesSame, GhostSame, Working
<1>2. IsJob(job[t])
  BY <1>1, BusyIsJob DEF Shapes
<1>3. job[t].target = "live" /\ InHandler(job[t].kind, "reply")
  BY <1>1, <1>2 DEF IsJob, InBackup, BackupSteps, InHandler, Jobs
<1>4. Alone(t) /\ Keeps(t) /\ job'[t].target = job[t].target /\ job'[t].pc = "reply"
  BY <1>1, <1>3, GoJob DEF Shapes, Alone, Steps
<1>5. MapSame
  BY <1>1, MapStays DEF Shapes, MapSame
<1>6. QED  BY <1>1, <1>3, <1>4, <1>5

(* A success is told: acked may grow to what the job saved. *)
LEMMA ReplyStep ==
    ASSUME Shapes, NEW t \in Threads, Reply(t)
    PROVE  /\ Working /\ MapSame /\ FilesSame /\ held' = held /\ Alone(t)
           /\ spoiled' = spoiled /\ twins' = twins
           /\ job[t].pc = "reply" /\ job'[t].pc = "idle"
           /\ acked' = IF job[t].kind # "create" /\ job[t].lasting > acked
                       THEN job[t].lasting ELSE acked
<1>1. /\ job[t].pc = "reply" /\ Finish(t) /\ UNCHANGED mapVars
      /\ Working /\ FilesSame /\ held' = held /\ spoiled' = spoiled /\ twins' = twins
      /\ acked' = IF job[t].kind # "create" /\ job[t].lasting > acked
                  THEN job[t].lasting ELSE acked
  BY DEF Reply, files, At, FilesSame, Working
<1>2. MapSame
  BY <1>1, MapStays DEF Shapes, MapSame
<1>3. Alone(t) /\ job'[t].pc = "idle"
  BY <1>1, FinishJob DEF Shapes, Alone
<1>4. QED  BY <1>1, <1>2, <1>3

(* A rollback installs its map while nobody writes, and takes back. *)
LEMMA InstallStep ==
    ASSUME Shapes, NEW t \in Threads, DoInstall(t)
    PROVE  /\ Working /\ FilesSame /\ held' = held /\ spoiled' = spoiled /\ twins' = twins
           /\ MapImage' = LoadedImage(job[t].read)
           /\ NoReaders /\ sequence' \in Nat /\ acked' = AtMost(acked, sequence')
           /\ job[t].pc = "install" /\ job'[t].pc = "open"
           /\ job[t].target = "live" /\ job'[t].target = "live"
           /\ job'[t].id = job[t].id /\ job'[t].lasting = sequence'
           /\ \A u \in Threads \ {t} :
                 IF job[u].pc = "idle" THEN job'[u] = job[u] ELSE TakenBack(u)
<1>1. /\ Working /\ FilesSame /\ held' = held /\ spoiled' = spoiled /\ twins' = twins
      /\ NoReaders /\ acked' = AtMost(acked, sequence') /\ job[t].pc = "install"
  BY DEF DoInstall, files, At, FilesSame, Working
<1>2. MapImage' = LoadedImage(job[t].read)
  <2>1. LoadedImage(job[t].read) \in Images
    BY InstallJob DEF Shapes
  <2>2. /\ pixels' = LoadedImage(job[t].read).pixels
        /\ sequence' = LoadedImage(job[t].read).sequence
    BY DEF DoInstall, Install
  <2>3. \A image \in Images : image = [sequence |-> image.sequence, pixels |-> image.pixels]
    BY DEF Images
  <2>4. QED  BY <2>1, <2>2, <2>3 DEF MapImage
<1>3. QED  BY <1>1, <1>2, InstallJob DEF Shapes

(* The process dies: the files stay, no thread has a job. *)
LEMMA CrashStep ==
    ASSUME Shapes, Crash
    PROVE  /\ up /\ ~up' /\ MapSame /\ FilesSame /\ GhostSame /\ held' = held
           /\ \A t \in Threads : job'[t] = IdleJob /\ job'[t].pc = "idle"
<1>1. /\ up /\ ~up' /\ UNCHANGED mapVars /\ FilesSame /\ GhostSame /\ held' = held
      /\ job' = [t \in Threads |-> IdleJob]
  BY DEF Crash, ghosts, answers, FilesSame, GhostSame
<1>2. MapSame
  BY <1>1, MapStays DEF Shapes, MapSame
<1>3. QED  BY <1>1, <1>2 DEF IdleJob

(* The process starts: from map.pwm if it is whole, or else blank. *)
LEMMA BootStep ==
    ASSUME Shapes, DownIsIdle, Boot
    PROVE  /\ ~up /\ up' /\ pwm' = pwm /\ meta' = meta /\ held' = held /\ twins' = twins
           /\ job' = job /\ \A t \in Threads : job'[t].pc = "idle"
           /\ spoiled \ {<<>>} \subseteq spoiled'
           /\ acked' = (IF Whole(live) THEN acked ELSE 0)
           /\ MapImage' = live'.image /\ MapImage' \in {live.image, BlankImage}
           /\ Whole(live) => live' = live
           /\ ~Whole(live) => MapImage' = BlankImage
           /\ Whole(live') <=> <<>> \notin spoiled'
<1>1. /\ ~up /\ up' /\ LoadMap /\ pwm' = pwm /\ meta' = meta /\ held' = held
      /\ twins' = twins /\ job' = job
      /\ acked' = (IF Whole(live) THEN acked ELSE 0)
  BY DEF Boot
<1>2. \A t \in Threads : job'[t].pc = "idle"
  BY <1>1 DEF DownIsIdle, IdleJob
<1>3. /\ spoiled \ {<<>>} \subseteq spoiled'
      /\ MapImage' = live'.image /\ MapImage' \in {live.image, BlankImage}
      /\ Whole(live) => live' = live
      /\ ~Whole(live) => MapImage' = BlankImage
      /\ Whole(live') <=> <<>> \notin spoiled'
  BY <1>1, MapLoaded
<1>4. QED  BY <1>1, <1>2, <1>3

(* The process dies while it saves the blank map. *)
LEMMA DieStep ==
    ASSUME Shapes, DownIsIdle, DieStarting
    PROVE  /\ ~up /\ ~up' /\ MapSame /\ pwm' = pwm /\ meta' = meta /\ held' = held
           /\ GhostSame /\ job' = job /\ \A t \in Threads : job'[t].pc = "idle"
           /\ ~Whole(live) /\ ~Whole(live') /\ live'.image = BlankImage
<1>1. /\ ~up /\ ~up' /\ UNCHANGED mapVars /\ pwm' = pwm /\ meta' = meta /\ held' = held
      /\ GhostSame /\ job' = job /\ ~Whole(live) /\ live' \in CutBlanks
  BY DEF DieStarting, ghosts, answers, GhostSame
<1>2. MapSame
  BY <1>1, MapStays DEF Shapes, MapSame
<1>3. \A t \in Threads : job'[t].pc = "idle"
  BY <1>1 DEF DownIsIdle, IdleJob
<1>4. QED  BY <1>1, <1>2, <1>3, BlankFile

----------------------------------------------------------------------------
(* The inductive invariant. *)

(* Two busy threads have one name for their backups. *)
Clash(t, u) ==
    /\ t # u /\ job[t].pc # "idle" /\ job[u].pc # "idle"
    /\ job[t].id = job[u].id /\ job[t].id # <<>>

NamesDiffer == ~twins => \A t, u \in Threads : ~Clash(t, u)

(* A saver of map.pwm that has written all up to its offset, so that what  *)
(* another truncated is there again when it closes.                        *)
Restoring(t) == SavesLive(t) /\ 0 .. (job[t].offset - 1) \subseteq live.written

AboutToSave(t) == OwesSave(t) /\ job[t].pc = "open"

LiveSaved ==
    up /\ <<>> \notin spoiled =>
        \/ \E t \in Threads : AboutToSave(t) \/ Restoring(t)
        \/ Whole(live) /\ live.image = MapImage

(* A backup has its name alone, and is whole before it gets metadata. *)
BackupSaved(t) ==
    /\ job[t].pc = "open" => job[t].id \notin DOMAIN pwm
    /\ job[t].pc # "open" => job[t].id \notin DOMAIN meta
    /\ job[t].pc = "write" => 0 .. (job[t].offset - 1) \subseteq pwm[job[t].id].written
    /\ job[t].pc \in {"bmp", "meta"} => job[t].id \in spoiled \/ Whole(pwm[job[t].id])

BackupsSaved == ~twins => \A t \in Threads : BacksUp(t) => BackupSaved(t)

(* The backup of a job that is about to change the map has what the map    *)
(* had when the backup was numbered, less what was taken back since.       *)
Protected(t) == job[t].pc \in {"reset", "parse", "read", "install"}

Protection ==
    \A t \in Threads :
        /\ Protected(t) => job[t].id \in DOMAIN pwm
        /\ ~twins /\ Protected(t) => job[t].id \in DOMAIN meta \cup spoiled
        /\ ~twins /\ (Protected(t) \/ HasFile(t))
              => job[t].lasting <= pwm[job[t].id].image.sequence

(* What was or will be answered is in the map, and in map.pwm if whole.    *)
Saved(t) == job[t].pc \in {"history", "audit", "reply"} /\ job[t].kind # "create"

Answers ==
    /\ acked \in Nat
    /\ up => acked <= sequence
    /\ Whole(live) => acked <= live.image.sequence
    /\ \A t \in Threads : job[t].pc # "idle" => job[t].lasting <= sequence
    /\ \A t \in Threads : Saved(t) /\ Whole(live) => job[t].lasting <= live.image.sequence

(* Every map in memory and in a file was made by a write, and a rollback   *)
(* reads its backup, which is listed, as if in one piece.                  *)
RealFiles ==
    /\ MapImage \in held /\ live.image \in held
    /\ \A id \in DOMAIN pwm : pwm[id].image \in held

ReadsTrue(t) ==
    /\ Restores(t) => job[t].loaded \in DOMAIN meta
    /\ job[t].pc \in {"read", "install"} => job[t].read = Found(t)

RealMaps == ~twins => RealFiles /\ \A t \in Threads : ReadsTrue(t)

IInv ==
    /\ Shapes /\ DownIsIdle /\ NamesDiffer /\ LiveSaved
    /\ BackupsSaved /\ ListedBackupIsWhole /\ RealMaps /\ Protection /\ Answers

(* It holds at first. *)
LEMMA InitIInv == Init => IInv
<1> SUFFICES ASSUME Init PROVE IInv
  OBVIOUS
<1>1. Shapes
  BY InitShapes
<1>2. \A t \in Threads : job[t].pc = "idle" /\ job[t].kind = "none"
  BY DEF Init, IdleJob
<1>3. DownIsIdle /\ NamesDiffer /\ BackupsSaved /\ Protection
  BY <1>2 DEF Init, DownIsIdle, NamesDiffer, Clash, BackupsSaved, BacksUp, BackupSteps,
              Protection, Protected, HasFile
<1>4. Whole(live) /\ live.image = MapImage /\ sequence = 0 /\ MapImage.sequence = 0
  BY DEF Init, Whole, MapInit, MapImage, BlankImage
<1>5. LiveSaved
  BY <1>4 DEF LiveSaved
<1>6. ListedBackupIsWhole
  <2>1. /\ DOMAIN pwm = EarlierIds /\ DOMAIN meta = EarlierIds
        /\ \A id \in EarlierIds :
              pwm[id] = [image |-> EarlierImage, written |-> Tokens(EarlierImage)]
        /\ \A id \in EarlierIds : EarlierImage \in held
    BY DEF Init
  <2>2. QED  BY <2>1 DEF ListedBackupIsWhole, Whole
<1>7. Answers
  <2>1. acked = 0
    BY DEF Init
  <2>2. QED  BY <1>2, <1>4, <2>1 DEF Answers, Saved
<1>8. RealMaps
  <2>1. MapImage = BlankImage /\ live.image = BlankImage /\ BlankImage \in held
    BY DEF Init, MapInit, MapImage, BlankImage
  <2>2. \A id \in DOMAIN pwm : pwm[id].image \in held
    BY DEF Init
  <2>3. QED  BY <1>2, <2>1, <2>2 DEF RealMaps, RealFiles, ReadsTrue, Restores
<1>9. QED  BY <1>1, <1>3, <1>5, <1>6, <1>7, <1>8 DEF IInv

(* Only a crash stops the process, and it leaves no thread a job. *)
LEMMA DownStep == IInv /\ [Next]_vars => DownIsIdle'
<1> SUFFICES ASSUME IInv, [Next]_vars PROVE DownIsIdle'
  OBVIOUS
<1> USE DEF IInv
<1>1. CASE UNCHANGED vars
  BY <1>1 DEF vars, DownIsIdle
<1>2. ASSUME Working PROVE DownIsIdle'
  BY <1>2 DEF Working, DownIsIdle
<1>3. CASE Crash
  BY <1>3, CrashStep DEF DownIsIdle
<1>4. CASE Boot \/ DieStarting
  BY <1>4, BootStep, DieStep DEF DownIsIdle
<1>5. QED
  BY <1>1, <1>2, <1>3, <1>4, StartStep, ChangeStep, StampStep, OpenStep, FailStep,
     FlushStep, CloseStep, BmpStep, MetaStep, FindStep, InstallStep, AppendStep, ReplyStep
  DEF Next, LooksUp

----------------------------------------------------------------------------
(* Names. *)

(* A step that gives no new name to a thread's backup. *)
LEMMA NamesMove ==
    ASSUME NamesDiffer, twins' = twins, NEW t \in Threads, Alone(t),
           \/ job'[t].pc = "idle" \/ job'[t].id = <<>>
           \/ job[t].pc # "idle" /\ job'[t].id = job[t].id
    PROVE  NamesDiffer'
<1> SUFFICES ASSUME ~twins, NEW u \in Threads, NEW v \in Threads, Clash(u, v)'
             PROVE  FALSE
  BY DEF NamesDiffer
<1>1. /\ u # v /\ job'[u].pc # "idle" /\ job'[v].pc # "idle"
      /\ job'[u].id = job'[v].id /\ job'[u].id # <<>>
  BY DEF Clash
<1>2. ASSUME NEW w \in Threads, job'[w].pc # "idle", job'[w].id # <<>>
      PROVE  job[w].pc # "idle" /\ job[w].id = job'[w].id
  BY <1>2 DEF Alone
<1>3. Clash(u, v)
  BY <1>1, <1>2 DEF Clash
<1>4. QED  BY <1>3 DEF NamesDiffer

(* No two jobs have one name, unless twins is set. *)
LEMMA NamesStep == IInv /\ [Next]_vars => NamesDiffer'
<1> SUFFICES ASSUME IInv, [Next]_vars PROVE NamesDiffer'
  OBVIOUS
<1> USE DEF IInv
<1>1. CASE UNCHANGED vars
  BY <1>1 DEF vars, ghosts, NamesDiffer, Clash
<1>2. ASSUME NEW t \in Threads, NEW kind \in Kinds, Start(t, kind) PROVE NamesDiffer'
  BY <1>2, StartStep, NamesMove DEF GhostSame
<1>3. ASSUME NEW t \in Threads,
             \/ \E x \in Columns, y \in Rows, color \in Asked : DoSetPixel(t, x, y, color)
             \/ \E color \in Asked : DoReset(t, color)
      PROVE  NamesDiffer'
  <2>1. GhostSame /\ Alone(t) /\ job[t].pc # "idle" /\ job'[t].id = job[t].id
    BY <1>3, ChangeStep
  <2>2. QED  BY <2>1, NamesMove DEF GhostSame
<1>4. ASSUME NEW t \in Threads, Stamp(t) PROVE NamesDiffer'
  <2> SUFFICES ASSUME ~twins', NEW u \in Threads, NEW v \in Threads, Clash(u, v)'
               PROVE  FALSE
    BY DEF NamesDiffer
  <2>1. /\ Alone(t) /\ ~twins
        /\ \A w \in Threads \ {t} : ~(job[w].pc # "idle" /\ job[w].id = job'[t].id)
    <3>1. Shapes
      OBVIOUS
    <3>2. /\ Alone(t)
          /\ twins' = (twins \/ \E w \in Threads \ {t} :
                                   job[w].pc # "idle" /\ job[w].id = job'[t].id)
      BY <1>4, <3>1, StampStep
    <3>3. QED  BY <3>2
  <2>2. /\ u # v /\ job'[u].pc # "idle" /\ job'[v].pc # "idle"
        /\ job'[u].id = job'[v].id /\ job'[u].id # <<>>
    BY DEF Clash
  <2>3. u # t /\ v # t
    BY <2>1, <2>2 DEF Alone
  <2>4. Clash(u, v)
    BY <2>1, <2>2, <2>3 DEF Alone, Clash
  <2>5. QED  BY <2>1, <2>4 DEF NamesDiffer
<1>5. ASSUME NEW t \in Threads, OpenSave(t) PROVE NamesDiffer'
  BY <1>5, OpenStep, NamesMove DEF Keeps
<1>6. ASSUME NEW t \in Threads, OpenFails(t) PROVE NamesDiffer'
  BY <1>6, FailStep, NamesMove
<1>7. ASSUME NEW t \in Threads, NEW n \in 0 .. Size, Flush(t, n) PROVE NamesDiffer'
  BY <1>7, FlushStep, NamesMove DEF Keeps, GhostSame
<1>8. ASSUME NEW t \in Threads, CloseSave(t) \/ CloseWithLoss(t) PROVE NamesDiffer'
  BY <1>8, CloseStep, NamesMove DEF Keeps
<1>9. ASSUME NEW t \in Threads, SaveBmp(t) PROVE NamesDiffer'
  BY <1>9, BmpStep, NamesMove DEF Keeps, GhostSame
<1>10. ASSUME NEW t \in Threads, WriteMetadata(t) PROVE NamesDiffer'
  BY <1>10, MetaStep, NamesMove DEF Keeps, GhostSame
<1>11. ASSUME NEW t \in Threads, LooksUp(t) PROVE NamesDiffer'
  BY <1>11, FindStep, NamesMove DEF GhostSame
<1>12. ASSUME NEW t \in Threads, DoInstall(t) PROVE NamesDiffer'
  <2>1. \A w \in Threads : job'[w].id = job[w].id /\ (job'[w].pc = "idle" <=> job[w].pc = "idle")
    BY <1>12, InstallStep DEF TakenBack
  <2>2. twins' = twins
    BY <1>12, InstallStep
  <2>3. QED  BY <2>1, <2>2 DEF NamesDiffer, Clash
<1>13. ASSUME NEW t \in Threads, AppendHistory(t) \/ AppendAudit(t) PROVE NamesDiffer'
  BY <1>13, AppendStep, NamesMove DEF Keeps, GhostSame
<1>14. ASSUME NEW t \in Threads, Reply(t) PROVE NamesDiffer'
  BY <1>14, ReplyStep, NamesMove
<1>15. CASE Crash \/ Boot \/ DieStarting
  BY <1>15, CrashStep, BootStep, DieStep DEF NamesDiffer, Clash
<1>16. QED
  BY <1>1, <1>2, <1>3, <1>4, <1>5, <1>6, <1>7, <1>8, <1>9, <1>10, <1>11, <1>12, <1>13,
     <1>14, <1>15 DEF Next, LooksUp

----------------------------------------------------------------------------
(* The file map.pwm. *)

(* A step that owes map.pwm nothing. *)
LEMMA LiveQuiet ==
    ASSUME LiveSaved, up, NEW t \in Threads, Alone(t), ~OwesSave(t),
           live' = live, MapImage' = MapImage, <<>> \in spoiled => <<>> \in spoiled'
    PROVE  LiveSaved'
<1> SUFFICES ASSUME <<>> \notin spoiled',
                    ~ \E u \in Threads : AboutToSave(u)' \/ Restoring(u)'
             PROVE  Whole(live)' /\ live'.image = MapImage'
  BY DEF LiveSaved
<1>1. ASSUME NEW u \in Threads, AboutToSave(u) \/ Restoring(u) PROVE FALSE
  <2>1. u # t
    BY <1>1 DEF AboutToSave, Restoring, SavesLive
  <2>2. job'[u] = job[u]
    BY <2>1 DEF Alone
  <2>3. AboutToSave(u)' \/ Restoring(u)'
    BY <1>1, <2>2 DEF AboutToSave, Restoring, SavesLive, OwesSave, WritesBackup
  <2>4. QED  BY <2>3
<1>2. Whole(live) /\ live.image = MapImage
  BY <1>1 DEF LiveSaved
<1>3. QED  BY <1>2 DEF Whole

(* All tokens up to the last are all tokens. *)
LEMMA AllWritten ==
    ASSUME Shapes, NEW file, IsFile(file), file.image = MapImage,
           0 .. (Cardinality(Tokens(MapImage)) - 1) \subseteq file.written
    PROVE  Whole(file)
<1>1. MapImage \in Images
  BY MapImageIsImage DEF Shapes
<1>2. PICK k \in Nat : Tokens(MapImage) = 0 .. k /\ Cardinality(Tokens(MapImage)) = k + 1
  BY <1>1, TokensOfImage
<1>3. k + 1 - 1 = k
  OBVIOUS
<1>4. file.written \subseteq 0 .. k /\ 0 .. k \subseteq file.written
  <2>1. Cardinality(Tokens(MapImage)) - 1 = k
    BY <1>2, <1>3
  <2>2. file.written \subseteq Tokens(MapImage)
    BY DEF IsFile
  <2>3. QED  BY <1>2, <2>1, <2>2
<1>5. QED  BY <1>2, <1>4 DEF Whole

(* A part of the file is written from the offset on. *)
LEMMA PartWritten ==
    ASSUME NEW written, NEW m \in Nat, NEW n \in Nat, 0 .. (m - 1) \subseteq written
    PROVE  0 .. (n + 1 - 1) \subseteq written \cup (m .. n)
<1> SUFFICES ASSUME NEW i \in 0 .. n PROVE i \in written \/ i \in m .. n
  OBVIOUS
<1>1. i \in 0 .. (m - 1) \/ i \in m .. n
  OBVIOUS
<1>2. QED  BY <1>1

(* map.pwm is current, or a thread will make it so, after every step. *)
LEMMA LiveStep == IInv /\ [Next]_vars => LiveSaved'
<1> SUFFICES ASSUME IInv, [Next]_vars PROVE LiveSaved'
  OBVIOUS
<1> USE DEF IInv
<1>1. CASE UNCHANGED vars
  <2>1. job' = job /\ live' = live /\ spoiled' = spoiled /\ up' = up /\ MapImage' = MapImage
    BY <1>1 DEF vars, files, ghosts, mapVars, MapImage
  <2>2. QED  BY <2>1 DEF LiveSaved, AboutToSave, Restoring, SavesLive, OwesSave,
                         WritesBackup, Whole
<1>2. ASSUME NEW t \in Threads, NEW kind \in Kinds, Start(t, kind) PROVE LiveSaved'
  <2>1. ~OwesSave(t)
    BY <1>2, StartStep DEF OwesSave
  <2>2. QED  BY <1>2, <2>1, StartStep, LiveQuiet DEF Working, MapSame, FilesSame, GhostSame
<1>3. ASSUME NEW t \in Threads,
             \/ \E x \in Columns, y \in Rows, color \in Asked : DoSetPixel(t, x, y, color)
             \/ \E color \in Asked : DoReset(t, color)
      PROVE  LiveSaved'
  <2>1. job'[t].pc = "open" /\ job'[t].target = "live"
    BY <1>3, ChangeStep
  <2>2. AboutToSave(t)'
    BY <2>1 DEF AboutToSave, OwesSave, WritesBackup
  <2>3. QED  BY <2>2 DEF LiveSaved
<1>4. ASSUME NEW t \in Threads, Stamp(t) PROVE LiveSaved'
  <2>1. ~OwesSave(t)
    BY <1>4, StampStep DEF OwesSave
  <2>2. QED  BY <1>4, <2>1, StampStep, LiveQuiet DEF Working, MapSame, FilesSame
<1>5. ASSUME NEW t \in Threads, OpenSave(t) PROVE LiveSaved'
  <2>1. CASE WritesBackup(t)
    <3>1. ~OwesSave(t)
      BY <2>1 DEF OwesSave
    <3>2. job[t].pc = "open" /\ spoiled' = spoiled \ {Aim(t)} /\ live' = live
      BY <1>5, <2>1, OpenStep
    <3>3. Aim(t) # <<>>
      BY <2>1, <3>2, WriterJobs DEF Shapes
    <3>4. QED  BY <1>5, <3>1, <3>2, <3>3, OpenStep, LiveQuiet DEF Working, MapSame
  <2>2. CASE ~WritesBackup(t)
    <3>1. job'[t].pc = "write" /\ job'[t].offset = 0 /\ job'[t].target = job[t].target
      BY <1>5, OpenStep
    <3>2. SavesLive(t)'
      BY <2>2, <3>1 DEF SavesLive, OwesSave, WritesBackup
    <3>3. 0 .. (job'[t].offset - 1) \subseteq live'.written
      BY <3>1
    <3>4. QED  BY <3>2, <3>3 DEF LiveSaved, Restoring
  <2>3. QED  BY <2>1, <2>2
<1>6. ASSUME NEW t \in Threads, OpenFails(t) PROVE LiveSaved'
  <2>1. CASE WritesBackup(t)
    <3>1. ~OwesSave(t)
      BY <2>1 DEF OwesSave
    <3>2. QED  BY <1>6, <3>1, FailStep, LiveQuiet DEF Working, MapSame, FilesSame
  <2>2. CASE ~WritesBackup(t)
    BY <1>6, <2>2, FailStep DEF LiveSaved
  <2>3. QED  BY <2>1, <2>2
<1>7. ASSUME NEW t \in Threads, NEW n \in 0 .. Size, Flush(t, n) PROVE LiveSaved'
  <2>1. CASE WritesBackup(t)
    <3>1. ~OwesSave(t)
      BY <2>1 DEF OwesSave
    <3>2. QED  BY <1>7, <2>1, <3>1, FlushStep, LiveQuiet DEF Working, MapSame, GhostSame
  <2>2. CASE ~WritesBackup(t)
    <3> DEFINE m == job[t].offset
    <3>1. /\ up /\ spoiled' = spoiled /\ MapImage' = MapImage /\ Alone(t)
          /\ m \in Nat /\ n \in Tokens(MapImage)
          /\ job[t].pc = "write" /\ job'[t].pc = "write" /\ job'[t].target = job[t].target
          /\ job'[t].offset = n + 1
          /\ live.image = MapImage /\ live'.image = MapImage
          /\ live'.written = live.written \cup (m .. n)
      BY <1>7, <2>2, FlushStep DEF Working, GhostSame, MapSame
    <3>2. m .. n \subseteq Tokens(MapImage)
      <4>1. PICK k \in Nat : Tokens(MapImage) = 0 .. k
        BY MapImageIsImage, TokensOfImage DEF Shapes
      <4>2. QED  BY <3>1, <4>1
    <3> HIDE DEF m
    <3>3. CASE ~(up /\ <<>> \notin spoiled)
      BY <3>1, <3>3 DEF LiveSaved
    <3>4. CASE Whole(live) /\ live.image = MapImage
      BY <3>1, <3>2, <3>4 DEF LiveSaved, Whole
    <3>5. ASSUME NEW u \in Threads, u # t, AboutToSave(u) \/ Restoring(u) PROVE LiveSaved'
      <4>1. job'[u] = job[u]
        BY <3>1, <3>5 DEF Alone
      <4>2. AboutToSave(u)' \/ Restoring(u)'
        BY <3>1, <3>5, <4>1 DEF AboutToSave, Restoring, SavesLive, OwesSave, WritesBackup
      <4>3. QED  BY <4>2 DEF LiveSaved
    <3>6. CASE AboutToSave(t) \/ Restoring(t)
      <4>1. Restoring(t)
        BY <3>1, <3>6 DEF AboutToSave
      <4>2. 0 .. (m - 1) \subseteq live.written
        BY <4>1 DEF Restoring, m
      <4>3. n \in Nat
        BY SizeIsPositive
      <4>4. 0 .. (n + 1 - 1) \subseteq live'.written
        BY <3>1, <4>2, <4>3, PartWritten
      <4>5. SavesLive(t)'
        BY <2>2, <3>1 DEF SavesLive, OwesSave, WritesBackup
      <4>6. Restoring(t)'
        BY <3>1, <4>4, <4>5 DEF Restoring
      <4>7. QED  BY <4>6 DEF LiveSaved
    <3>7. QED  BY <3>3, <3>4, <3>5, <3>6 DEF LiveSaved
  <2>3. QED  BY <2>1, <2>2
<1>8. ASSUME NEW t \in Threads, CloseSave(t) \/ CloseWithLoss(t) PROVE LiveSaved'
  <2>1. /\ up /\ live' = live /\ MapImage' = MapImage /\ Alone(t)
        /\ spoiled \subseteq spoiled'
        /\ \/ job[t].offset = Cardinality(Tokens(MapImage))
           \/ Aim(t) \in spoiled'
        /\ job[t].pc = "write"
    BY <1>8, CloseStep DEF Working, MapSame, FilesSame
  <2>2. CASE WritesBackup(t)
    <3>1. ~OwesSave(t)
      BY <2>2 DEF OwesSave
    <3>2. QED  BY <2>1, <3>1, LiveQuiet
  <2>3. CASE ~WritesBackup(t)
    <3> SUFFICES ASSUME <<>> \notin spoiled',
                        ~ \E u \in Threads : AboutToSave(u)' \/ Restoring(u)'
                 PROVE  Whole(live)' /\ live'.image = MapImage'
      BY DEF LiveSaved
    <3>1. job[t].offset = Cardinality(Tokens(MapImage))
      BY <2>1, <2>3, WriterJobs DEF Shapes
    <3>2. ASSUME NEW u \in Threads, u # t, AboutToSave(u) \/ Restoring(u) PROVE FALSE
      <4>1. job'[u] = job[u]
        BY <2>1, <3>2 DEF Alone
      <4>2. AboutToSave(u)' \/ Restoring(u)'
        BY <2>1, <3>2, <4>1 DEF AboutToSave, Restoring, SavesLive, OwesSave, WritesBackup
      <4>3. QED  BY <4>2
    <3>3. ~AboutToSave(t)
      BY <2>1 DEF AboutToSave
    <3>4. IsFile(live) /\ live.image = MapImage
      BY <2>1, <2>3 DEF Shapes, FilesFit, WritersFit, Target
    <3>5. CASE Restoring(t)
      <4>1. Whole(live)
        BY <3>1, <3>4, <3>5, AllWritten DEF Restoring
      <4>2. QED  BY <2>1, <3>4, <4>1 DEF Whole
    <3>6. CASE ~Restoring(t)
      <4>1. Whole(live)
        BY <2>1, <3>2, <3>3, <3>6 DEF LiveSaved
      <4>2. QED  BY <2>1, <3>4, <4>1 DEF Whole
    <3>7. QED  BY <3>5, <3>6
  <2>4. QED  BY <2>2, <2>3
<1>9. ASSUME NEW t \in Threads, SaveBmp(t) PROVE LiveSaved'
  <2>1. ~OwesSave(t)
    BY <1>9, BmpStep DEF OwesSave
  <2>2. QED  BY <1>9, <2>1, BmpStep, LiveQuiet DEF Working, MapSame, FilesSame, GhostSame
<1>10. ASSUME NEW t \in Threads, WriteMetadata(t) PROVE LiveSaved'
  <2>1. ~OwesSave(t)
    BY <1>10, MetaStep DEF OwesSave
  <2>2. QED  BY <1>10, <2>1, MetaStep, LiveQuiet DEF Working, MapSame
<1>11. ASSUME NEW t \in Threads, LooksUp(t) PROVE LiveSaved'
  <2>1. ~OwesSave(t)
    BY <1>11, FindStep DEF OwesSave
  <2>2. QED  BY <1>11, <2>1, FindStep, LiveQuiet DEF Working, MapSame, FilesSame, GhostSame
<1>12. ASSUME NEW t \in Threads, DoInstall(t) PROVE LiveSaved'
  <2>1. job'[t].pc = "open" /\ job'[t].target = "live"
    BY <1>12, InstallStep
  <2>2. AboutToSave(t)'
    BY <2>1 DEF AboutToSave, OwesSave, WritesBackup
  <2>3. QED  BY <2>2 DEF LiveSaved
<1>13. ASSUME NEW t \in Threads, AppendHistory(t) \/ AppendAudit(t) PROVE LiveSaved'
  <2>1. ~OwesSave(t)
    BY <1>13, AppendStep DEF OwesSave
  <2>2. QED  BY <1>13, <2>1, AppendStep, LiveQuiet DEF Working, MapSame, FilesSame, GhostSame
<1>14. ASSUME NEW t \in Threads, Reply(t) PROVE LiveSaved'
  <2>1. ~OwesSave(t)
    BY <1>14, ReplyStep DEF OwesSave
  <2>2. QED  BY <1>14, <2>1, ReplyStep, LiveQuiet DEF Working, MapSame, FilesSame
<1>15. CASE Crash
  BY <1>15, CrashStep DEF LiveSaved
<1>16. CASE Boot
  <2>1. (<<>> \in spoiled' \/ Whole(live)') /\ live'.image = MapImage'
    BY <1>16, BootStep DEF Whole
  <2>2. QED  BY <2>1 DEF LiveSaved
<1>17. CASE DieStarting
  BY <1>17, DieStep DEF LiveSaved
<1>18. QED
  BY <1>1, <1>2, <1>3, <1>4, <1>5, <1>6, <1>7, <1>8, <1>9, <1>10, <1>11, <1>12, <1>13,
     <1>14, <1>15, <1>16, <1>17 DEF Next, LooksUp

----------------------------------------------------------------------------
(* The backups. *)

(* A thread that makes a backup has a name for it, which no other busy     *)
(* thread has.                                                             *)
LEMMA BackupName ==
    ASSUME IInv, NEW t \in Threads, BacksUp(t)
    PROVE  /\ job[t].id \in Ids /\ job[t].id # <<>> /\ job[t] \in Jobs
           /\ \A u \in Threads \ {t} :
                 ~twins /\ job[u].pc # "idle" => job[u].id # job[t].id
<1>1. job[t].pc \in BackupSteps /\ job[t].target = "backup"
  BY DEF BacksUp, WritesBackup
<1>2. IsJob(job[t]) /\ job[t].pc # "idle"
  BY <1>1, BusyIsJob DEF IInv, Shapes, BackupSteps
<1>3. job[t].id \in Ids /\ job[t] \in Jobs
  BY <1>1, <1>2 DEF IsJob, InBackup
<1>4. job[t].id # <<>>
  BY <1>3, NotEmptyName
<1>5. QED  BY <1>2, <1>3, <1>4 DEF IInv, NamesDiffer, Clash

(* What a step must not touch of a backup that is being made. *)
Untouched(u) ==
    /\ job[u].id \in DOMAIN pwm' <=> job[u].id \in DOMAIN pwm
    /\ job[u].id \in DOMAIN pwm => pwm'[job[u].id] = pwm[job[u].id]
    /\ job[u].id \in DOMAIN meta' => job[u].id \in DOMAIN meta
    /\ job[u].id \in spoiled => job[u].id \in spoiled'

(* A backup that a step does not touch stays as good as it was. *)
LEMMA BackupStays ==
    ASSUME IInv, NEW u \in Threads, BacksUp(u), Untouched(u), ~twins,
           job'[u].pc = job[u].pc, job'[u].id = job[u].id, job'[u].offset = job[u].offset
    PROVE  BackupSaved(u)'
<1>1. BackupSaved(u)
  BY DEF IInv, BackupsSaved
<1>2. job[u].pc \in {"write", "bmp", "meta"} => job[u].id \in DOMAIN pwm
  BY DEF IInv, Shapes, NamesFit, NameFits, HasFile, BacksUp
<1>3. QED  BY <1>1, <1>2 DEF BackupSaved, Untouched, Whole

(* The step of one thread that does not touch the others' backups. *)
LEMMA BackupsMove ==
    ASSUME IInv, NEW t \in Threads, Alone(t), ~twins' => ~twins,
           ~twins' /\ BacksUp(t)' => BackupSaved(t)',
           ~twins' => \A u \in Threads \ {t} : BacksUp(u) => Untouched(u)
    PROVE  BackupsSaved'
<1> SUFFICES ASSUME ~twins', NEW u \in Threads, u # t, BacksUp(u)' PROVE BackupSaved(u)'
  BY DEF BackupsSaved
<1>1. job'[u] = job[u]
  BY DEF Alone
<1>2. BacksUp(u)
  BY <1>1 DEF BacksUp, WritesBackup
<1>3. QED  BY <1>1, <1>2, BackupStays

(* No file is touched. *)
LEMMA FilesUntouched ==
    ASSUME pwm' = pwm, meta' = meta, spoiled \subseteq spoiled'
    PROVE  \A u \in Threads : Untouched(u)
BY DEF Untouched

(* The backups that are being made stay as good as they should be. *)
LEMMA BackupsStep == IInv /\ [Next]_vars => BackupsSaved'
<1> SUFFICES ASSUME IInv, [Next]_vars PROVE BackupsSaved'
  OBVIOUS
<1>1. CASE UNCHANGED vars
  <2>1. /\ job' = job /\ twins' = twins /\ pwm' = pwm /\ meta' = meta
        /\ spoiled' = spoiled
    BY <1>1 DEF vars, files, ghosts
  <2>2. QED  BY <2>1 DEF IInv, BackupsSaved, BackupSaved, BacksUp, WritesBackup, Whole
<1>2. ASSUME NEW t \in Threads, NEW kind \in Kinds, Start(t, kind) PROVE BackupsSaved'
  <2>1. ~BacksUp(t)' /\ Alone(t) /\ FilesSame /\ GhostSame
    BY <1>2, StartStep DEF BacksUp, BackupSteps, IInv
  <2>2. QED  BY <2>1, FilesUntouched, BackupsMove DEF FilesSame, GhostSame
<1>3. ASSUME NEW t \in Threads,
             \/ \E x \in Columns, y \in Rows, color \in Asked : DoSetPixel(t, x, y, color)
             \/ \E color \in Asked : DoReset(t, color)
      PROVE  BackupsSaved'
  <2>1. ~BacksUp(t)' /\ Alone(t) /\ FilesSame /\ GhostSame
    BY <1>3, ChangeStep DEF BacksUp, WritesBackup, IInv
  <2>2. QED  BY <2>1, FilesUntouched, BackupsMove DEF FilesSame, GhostSame
<1>4. ASSUME NEW t \in Threads, Stamp(t) PROVE BackupsSaved'
  <2>1. /\ Alone(t) /\ FilesSame /\ spoiled' = spoiled /\ (~twins' => ~twins)
        /\ job'[t].pc = "open" /\ job'[t].id \notin DOMAIN pwm
    BY <1>4, StampStep DEF IInv
  <2>2. BackupSaved(t)'
    BY <2>1 DEF BackupSaved, FilesSame
  <2>3. QED  BY <2>1, <2>2, FilesUntouched, BackupsMove DEF FilesSame
<1>5. ASSUME NEW t \in Threads, OpenSave(t) PROVE BackupsSaved'
  <2>1. /\ Alone(t) /\ Keeps(t) /\ twins' = twins /\ meta' = meta
        /\ spoiled' = spoiled \ {Aim(t)} /\ job'[t].target = job[t].target
        /\ job[t].pc = "open" /\ job'[t].pc = "write" /\ job'[t].offset = 0
    BY <1>5, OpenStep DEF IInv
  <2>2. CASE WritesBackup(t)
    <3>1. BacksUp(t)
      BY <2>1, <2>2 DEF BacksUp, BackupSteps
    <3>2. PICK id \in Ids : id = job[t].id
      BY <3>1, BackupName
    <3>3. /\ DOMAIN pwm' = DOMAIN pwm \cup {id} /\ Aim(t) = id
          /\ pwm'[id] = [image |-> MapImage, written |-> {}]
          /\ \A other \in DOMAIN pwm \ {id} : pwm'[other] = pwm[other]
      BY <1>5, <2>2, <3>2, OpenStep DEF IInv, Aim
    <3>4. ASSUME ~twins, NEW u \in Threads, u # t, BacksUp(u) PROVE Untouched(u)
      <4>1. job[u].id # id
        BY <2>1, <3>2, <3>4, BackupName DEF BacksUp, BackupSteps
      <4>2. QED  BY <2>1, <3>3, <4>1 DEF Untouched
    <3>5. ASSUME ~twins PROVE BackupSaved(t)'
      <4>1. id \notin DOMAIN pwm
        BY <2>1, <3>1, <3>2, <3>5 DEF IInv, BackupsSaved, BackupSaved
      <4>2. id \notin DOMAIN meta
        BY <4>1 DEF IInv, Shapes, FilesFit
      <4>3. job'[t].id = id
        BY <2>1, <3>2 DEF Keeps
      <4>4. 0 .. (job'[t].offset - 1) \subseteq pwm'[id].written
        BY <2>1
      <4>5. QED  BY <2>1, <4>2, <4>3, <4>4 DEF BackupSaved
    <3>6. QED  BY <2>1, <3>4, <3>5, BackupsMove
  <2>3. CASE ~WritesBackup(t)
    <3>1. Aim(t) = <<>> /\ pwm' = pwm
      BY <1>5, <2>1, <2>3, OpenStep, WriterJobs DEF IInv, Shapes
    <3>2. ~BacksUp(t)'
      BY <2>1, <2>3 DEF BacksUp, WritesBackup
    <3>3. ASSUME NEW u \in Threads, u # t, BacksUp(u) PROVE Untouched(u)
      BY <2>1, <3>1, <3>3, BackupName DEF Untouched
    <3>4. QED  BY <2>1, <3>2, <3>3, BackupsMove
  <2>4. QED  BY <2>2, <2>3
<1>6. ASSUME NEW t \in Threads, OpenFails(t) PROVE BackupsSaved'
  <2>1. ~BacksUp(t)' /\ Alone(t) /\ FilesSame /\ twins' = twins /\ spoiled \subseteq spoiled'
    BY <1>6, FailStep DEF BacksUp, BackupSteps, IInv
  <2>2. QED  BY <2>1, FilesUntouched, BackupsMove DEF FilesSame
<1>7. ASSUME NEW t \in Threads, NEW n \in 0 .. Size, Flush(t, n) PROVE BackupsSaved'
  <2>1. /\ Alone(t) /\ Keeps(t) /\ GhostSame /\ meta' = meta
        /\ job[t].pc = "write" /\ job'[t].pc = "write" /\ job'[t].target = job[t].target
        /\ job'[t].offset = n + 1 /\ job[t].offset \in Nat
    BY <1>7, FlushStep DEF IInv
  <2>2. CASE WritesBackup(t)
    <3>1. BacksUp(t)
      BY <2>1, <2>2 DEF BacksUp, BackupSteps
    <3>2. PICK id \in Ids : id = job[t].id
      BY <3>1, BackupName
    <3>3. PICK m \in Nat : m = job[t].offset
      BY <2>1
    <3>4. /\ DOMAIN pwm' = DOMAIN pwm
          /\ pwm'[id].written = pwm[id].written \cup (m .. n)
          /\ \A other \in DOMAIN pwm \ {id} : pwm'[other] = pwm[other]
      BY <1>7, <2>2, <3>2, <3>3, FlushStep DEF IInv
    <3>5. ASSUME ~twins, NEW u \in Threads, u # t, BacksUp(u) PROVE Untouched(u)
      <4>1. job[u].id # id
        BY <2>1, <3>2, <3>5, BackupName DEF BacksUp, BackupSteps
      <4>2. QED  BY <2>1, <3>4, <4>1 DEF Untouched, GhostSame
    <3>6. ASSUME ~twins PROVE BackupSaved(t)'
      <4>1. /\ id \notin DOMAIN meta
            /\ 0 .. (m - 1) \subseteq pwm[id].written
        BY <2>1, <3>1, <3>2, <3>3, <3>6 DEF IInv, BackupsSaved, BackupSaved
      <4>2. n \in Nat
        BY SizeIsPositive
      <4>3. 0 .. (n + 1 - 1) \subseteq pwm'[id].written
        BY <3>4, <4>1, <4>2, PartWritten
      <4>4. job'[t].id = id
        BY <2>1, <3>2 DEF Keeps
      <4>5. QED  BY <2>1, <4>1, <4>3, <4>4 DEF BackupSaved
    <3>7. QED  BY <2>1, <3>5, <3>6, BackupsMove DEF GhostSame
  <2>3. CASE ~WritesBackup(t)
    <3>1. pwm' = pwm /\ spoiled' = spoiled
      BY <1>7, <2>1, <2>3, FlushStep DEF IInv, GhostSame
    <3>2. ~BacksUp(t)'
      BY <2>1, <2>3 DEF BacksUp, WritesBackup
    <3>3. QED  BY <2>1, <3>1, <3>2, FilesUntouched, BackupsMove DEF GhostSame
  <2>4. QED  BY <2>2, <2>3
<1>8. ASSUME NEW t \in Threads, CloseSave(t) \/ CloseWithLoss(t) PROVE BackupsSaved'
  <2>1. /\ Alone(t) /\ Keeps(t) /\ FilesSame /\ twins' = twins
        /\ spoiled \subseteq spoiled'
        /\ \/ job[t].offset = Cardinality(Tokens(MapImage))
           \/ Aim(t) \in spoiled'
        /\ job[t].pc = "write"
        /\ job'[t].pc \in {"bmp", "meta", "history", "audit"}
        /\ job'[t].target = job[t].target
    BY <1>8, CloseStep DEF IInv
  <2>2. ASSUME ~twins, BacksUp(t)' PROVE BackupSaved(t)'
    <3>1. WritesBackup(t) /\ BacksUp(t)
      BY <2>1, <2>2 DEF BacksUp, BackupSteps, WritesBackup
    <3>2. job[t].id \in DOMAIN pwm
      BY <2>1, <3>1 DEF IInv, Shapes, NamesFit, NameFits, HasFile
    <3>3. IsFile(pwm[job[t].id]) /\ pwm[job[t].id].image = MapImage
      BY <2>1, <3>1, <3>2 DEF IInv, Shapes, FilesFit, WritersFit, Target
    <3>4. /\ 0 .. (job[t].offset - 1) \subseteq pwm[job[t].id].written
          /\ job[t].id \notin DOMAIN meta
      BY <2>1, <2>2, <3>1 DEF IInv, BackupsSaved, BackupSaved
    <3>5. job[t].offset = Cardinality(Tokens(MapImage)) => Whole(pwm[job[t].id])
      BY <3>3, <3>4, AllWritten DEF IInv
    <3>6. job[t].id \in spoiled' \/ Whole(pwm[job[t].id])
      BY <2>1, <3>1, <3>5 DEF Aim
    <3>7. job'[t].id = job[t].id /\ pwm' = pwm /\ meta' = meta
      BY <2>1 DEF Keeps, FilesSame
    <3>8. QED  BY <2>1, <3>4, <3>6, <3>7 DEF BackupSaved, Whole
  <2>3. QED  BY <2>1, <2>2, FilesUntouched, BackupsMove DEF FilesSame
<1>9. ASSUME NEW t \in Threads, SaveBmp(t) PROVE BackupsSaved'
  <2>1. /\ Alone(t) /\ Keeps(t) /\ FilesSame /\ GhostSame
        /\ job[t].pc = "bmp" /\ job'[t].pc = "meta" /\ WritesBackup(t)
    BY <1>9, BmpStep DEF IInv
  <2>2. ASSUME ~twins PROVE BackupSaved(t)'
    <3>1. /\ job[t].id \in spoiled \/ Whole(pwm[job[t].id])
          /\ job[t].id \notin DOMAIN meta
      BY <2>1, <2>2 DEF IInv, BackupsSaved, BackupSaved, BacksUp, BackupSteps
    <3>2. job'[t].id = job[t].id /\ pwm' = pwm /\ spoiled' = spoiled /\ meta' = meta
      BY <2>1 DEF Keeps, FilesSame, GhostSame
    <3>3. QED  BY <2>1, <3>1, <3>2 DEF BackupSaved, Whole
  <2>3. QED  BY <2>1, <2>2, FilesUntouched, BackupsMove DEF FilesSame, GhostSame
<1>10. ASSUME NEW t \in Threads, WriteMetadata(t) PROVE BackupsSaved'
  <2>1. /\ Alone(t) /\ pwm' = pwm /\ twins' = twins /\ spoiled \subseteq spoiled'
        /\ DOMAIN meta' \subseteq DOMAIN meta \cup {job[t].id}
        /\ job[t].pc = "meta" /\ WritesBackup(t)
        /\ job'[t].pc \in {"idle", "reset", "parse", "audit"}
    BY <1>10, MetaStep DEF IInv
  <2>2. ~BacksUp(t)' /\ BacksUp(t)
    BY <2>1 DEF BacksUp, BackupSteps
  <2>3. ASSUME ~twins, NEW u \in Threads, u # t, BacksUp(u) PROVE Untouched(u)
    <3>1. job[u].id # job[t].id
      BY <2>2, <2>3, BackupName DEF BacksUp, BackupSteps
    <3>2. QED  BY <2>1, <3>1 DEF Untouched
  <2>4. QED  BY <2>1, <2>2, <2>3, BackupsMove
<1>11. ASSUME NEW t \in Threads, LooksUp(t) PROVE BackupsSaved'
  <2>1. ~BacksUp(t)' /\ Alone(t) /\ FilesSame /\ GhostSame
    BY <1>11, FindStep DEF BacksUp, BackupSteps, IInv
  <2>2. QED  BY <2>1, FilesUntouched, BackupsMove DEF FilesSame, GhostSame
<1>12. ASSUME NEW t \in Threads, DoInstall(t) PROVE BackupsSaved'
  <2> SUFFICES ASSUME ~twins, NEW u \in Threads, BacksUp(u)' PROVE BackupSaved(u)'
    BY <1>12, InstallStep DEF BackupsSaved, IInv
  <2>1. FilesSame /\ spoiled' = spoiled /\ job'[t].target = "live"
    BY <1>12, InstallStep DEF IInv
  <2>2. u # t
    BY <2>1 DEF BacksUp, WritesBackup
  <2>3. job'[u] = job[u] \/ TakenBack(u)
    BY <1>12, <2>2, InstallStep DEF IInv
  <2>4. /\ job'[u].pc = job[u].pc /\ job'[u].id = job[u].id
        /\ job'[u].offset = job[u].offset /\ job'[u].target = job[u].target
    BY <2>3 DEF TakenBack
  <2>5. BacksUp(u)
    BY <2>4 DEF BacksUp, WritesBackup
  <2>6. Untouched(u)
    BY <2>1 DEF Untouched, FilesSame
  <2>7. QED  BY <2>4, <2>5, <2>6, BackupStays
<1>13. ASSUME NEW t \in Threads, AppendHistory(t) \/ AppendAudit(t) PROVE BackupsSaved'
  <2>1. ~BacksUp(t)' /\ Alone(t) /\ FilesSame /\ GhostSame
    BY <1>13, AppendStep DEF BacksUp, BackupSteps, IInv
  <2>2. QED  BY <2>1, FilesUntouched, BackupsMove DEF FilesSame, GhostSame
<1>14. ASSUME NEW t \in Threads, Reply(t) PROVE BackupsSaved'
  <2>1. ~BacksUp(t)' /\ Alone(t) /\ FilesSame /\ twins' = twins /\ spoiled' = spoiled
    BY <1>14, ReplyStep DEF BacksUp, BackupSteps, IInv
  <2>2. QED  BY <2>1, FilesUntouched, BackupsMove DEF FilesSame
<1>15. CASE Crash \/ Boot \/ DieStarting
  <2>1. \A t \in Threads : job'[t].pc = "idle"
    BY <1>15, CrashStep, BootStep, DieStep DEF IInv
  <2>2. QED  BY <2>1 DEF BackupsSaved, BacksUp, BackupSteps
<1>16. QED
  BY <1>1, <1>2, <1>3, <1>4, <1>5, <1>6, <1>7, <1>8, <1>9, <1>10, <1>11, <1>12, <1>13,
     <1>14, <1>15 DEF Next, LooksUp

----------------------------------------------------------------------------
(* The listed backups. *)

(* A backup with metadata has its map file, and is not map.pwm. *)
LEMMA ListedIsThere ==
    ASSUME IInv
    PROVE  \A id \in DOMAIN meta : id \in DOMAIN pwm /\ id \in Ids /\ id # <<>>
BY NotEmptyName DEF IInv, Shapes, FilesFit

(* A step that touches no file of a backup and lists none. *)
LEMMA ListedQuiet ==
    ASSUME IInv, pwm' = pwm, meta' = meta, held \subseteq held', twins => twins',
           spoiled \ {<<>>} \subseteq spoiled'
    PROVE  ListedBackupIsWhole'
<1> SUFFICES ASSUME NEW id \in DOMAIN meta, id \notin spoiled'
             PROVE  /\ id \in DOMAIN pwm
                    /\ twins \/ (Whole(pwm[id]) /\ pwm[id].image \in held)
  BY DEF ListedBackupIsWhole, Whole
<1>1. id \notin spoiled
  BY ListedIsThere
<1>2. QED  BY <1>1 DEF IInv, ListedBackupIsWhole

(* The backups that are listed stay listed, whole and not written. *)
LEMMA ListedStep == IInv /\ [Next]_vars => ListedBackupIsWhole'
<1> SUFFICES ASSUME IInv, [Next]_vars PROVE ListedBackupIsWhole'
  OBVIOUS
<1>1. CASE UNCHANGED vars
  BY <1>1, ListedQuiet DEF vars, files, ghosts
<1>2. ASSUME FilesSame, held' = held, twins => twins', spoiled \subseteq spoiled'
      PROVE  ListedBackupIsWhole'
  BY <1>2, ListedQuiet DEF FilesSame
<1>3. ASSUME NEW t \in Threads,
             \/ \E x \in Columns, y \in Rows, color \in Asked : DoSetPixel(t, x, y, color)
             \/ \E color \in Asked : DoReset(t, color)
      PROVE  ListedBackupIsWhole'
  <2>1. held \subseteq held'
    BY <1>3 DEF DoSetPixel, DoReset
  <2>2. QED  BY <1>3, <2>1, ChangeStep, ListedQuiet DEF FilesSame, GhostSame, IInv
<1>4. ASSUME NEW t \in Threads, OpenSave(t) PROVE ListedBackupIsWhole'
  <2>1. /\ twins' = twins /\ meta' = meta /\ held' = held /\ job[t].pc = "open"
        /\ spoiled' = spoiled \ {Aim(t)}
    BY <1>4, OpenStep DEF IInv
  <2>2. CASE WritesBackup(t)
    <3>1. BacksUp(t)
      BY <2>1, <2>2 DEF BacksUp, BackupSteps
    <3>2. PICK id : id = job[t].id
      OBVIOUS
    <3>3. /\ DOMAIN pwm' = DOMAIN pwm \cup {id} /\ Aim(t) = id
          /\ \A other \in DOMAIN pwm \ {id} : pwm'[other] = pwm[other]
      BY <1>4, <2>2, <3>2, OpenStep DEF IInv, Aim
    <3>4. CASE twins
      BY <2>1, <3>3, <3>4, ListedIsThere DEF ListedBackupIsWhole
    <3>5. CASE ~twins
      <4>1. id \notin DOMAIN pwm
        BY <2>1, <3>1, <3>2, <3>5 DEF IInv, BackupsSaved, BackupSaved
      <4> SUFFICES ASSUME NEW other \in DOMAIN meta, other \notin spoiled'
                   PROVE  /\ other \in DOMAIN pwm'
                          /\ Whole(pwm[other])' /\ pwm'[other].image \in held
        BY <2>1 DEF ListedBackupIsWhole
      <4>2. other \in DOMAIN pwm /\ other # id
        BY <4>1, ListedIsThere
      <4>3. other \notin spoiled
        BY <2>1, <3>3, <4>2
      <4>4. Whole(pwm[other]) /\ pwm[other].image \in held
        BY <3>5, <4>3 DEF IInv, ListedBackupIsWhole
      <4>5. pwm'[other] = pwm[other]
        BY <3>3, <4>2
      <4>6. QED  BY <3>3, <4>2, <4>4, <4>5 DEF Whole
    <3>6. QED  BY <3>4, <3>5
  <2>3. CASE ~WritesBackup(t)
    <3>1. Aim(t) = <<>> /\ pwm' = pwm
      BY <1>4, <2>1, <2>3, OpenStep, WriterJobs DEF IInv, Shapes
    <3>2. QED  BY <2>1, <3>1, ListedQuiet
  <2>4. QED  BY <2>2, <2>3
<1>5. ASSUME NEW t \in Threads, NEW n \in 0 .. Size, Flush(t, n) PROVE ListedBackupIsWhole'
  <2>1. GhostSame /\ meta' = meta /\ held' = held /\ job[t].pc = "write"
    BY <1>5, FlushStep DEF IInv
  <2>2. CASE WritesBackup(t)
    <3>1. BacksUp(t)
      BY <2>1, <2>2 DEF BacksUp, BackupSteps
    <3>2. PICK id : id = job[t].id
      OBVIOUS
    <3>3. /\ DOMAIN pwm' = DOMAIN pwm
          /\ \A other \in DOMAIN pwm \ {id} : pwm'[other] = pwm[other]
      BY <1>5, <2>2, <3>2, FlushStep DEF IInv
    <3>4. CASE twins
      BY <2>1, <3>3, <3>4, ListedIsThere DEF ListedBackupIsWhole, GhostSame
    <3>5. CASE ~twins
      <4>1. id \notin DOMAIN meta
        BY <2>1, <3>1, <3>2, <3>5 DEF IInv, BackupsSaved, BackupSaved
      <4> SUFFICES ASSUME NEW other \in DOMAIN meta, other \notin spoiled
                   PROVE  /\ other \in DOMAIN pwm'
                          /\ Whole(pwm[other])' /\ pwm'[other].image \in held
        BY <2>1 DEF ListedBackupIsWhole, GhostSame
      <4>2. other \in DOMAIN pwm /\ pwm'[other] = pwm[other]
        BY <3>3, <4>1, ListedIsThere
      <4>3. Whole(pwm[other]) /\ pwm[other].image \in held
        BY <3>5 DEF IInv, ListedBackupIsWhole
      <4>4. QED  BY <3>3, <4>2, <4>3 DEF Whole
    <3>6. QED  BY <3>4, <3>5
  <2>3. CASE ~WritesBackup(t)
    <3>1. pwm' = pwm
      BY <1>5, <2>3, FlushStep DEF IInv
    <3>2. QED  BY <2>1, <3>1, ListedQuiet DEF GhostSame
  <2>4. QED  BY <2>2, <2>3
<1>6. ASSUME NEW t \in Threads, WriteMetadata(t) PROVE ListedBackupIsWhole'
  <2>1. PICK id : id = job[t].id
    OBVIOUS
  <2>2. /\ pwm' = pwm /\ twins' = twins /\ held' = held /\ id \in DOMAIN pwm
        /\ spoiled \subseteq spoiled'
        /\ DOMAIN meta' \subseteq DOMAIN meta \cup {id}
        /\ job[t].pc = "meta" /\ WritesBackup(t)
    BY <1>6, <2>1, MetaStep DEF IInv
  <2>3. ~twins => id \in spoiled \/ (Whole(pwm[id]) /\ pwm[id].image \in held)
    BY <2>1, <2>2 DEF IInv, BackupsSaved, BackupSaved, BacksUp, BackupSteps, RealMaps,
                      RealFiles
  <2>4. \A other \in DOMAIN meta' \ spoiled' :
            /\ other \in DOMAIN pwm
            /\ twins \/ (Whole(pwm[other]) /\ pwm[other].image \in held)
    BY <2>2, <2>3 DEF IInv, ListedBackupIsWhole
  <2>5. QED  BY <2>2, <2>4 DEF ListedBackupIsWhole, Whole
<1>7. CASE Boot \/ DieStarting
  BY <1>7, BootStep, DieStep, ListedQuiet DEF IInv, GhostSame
<1>8. ASSUME NEW t \in Threads, NEW kind \in Kinds, Start(t, kind) PROVE ListedBackupIsWhole'
  BY <1>2, <1>8, StartStep DEF IInv, GhostSame
<1>9. ASSUME NEW t \in Threads, Stamp(t) PROVE ListedBackupIsWhole'
  BY <1>2, <1>9, StampStep DEF IInv
<1>10. ASSUME NEW t \in Threads, CloseSave(t) \/ CloseWithLoss(t) \/ OpenFails(t)
       PROVE  ListedBackupIsWhole'
  BY <1>2, <1>10, CloseStep, FailStep DEF IInv
<1>11. ASSUME NEW t \in Threads, SaveBmp(t) \/ LooksUp(t) \/ DoInstall(t)
       PROVE  ListedBackupIsWhole'
  BY <1>2, <1>11, BmpStep, FindStep, InstallStep DEF IInv, GhostSame
<1>12. ASSUME NEW t \in Threads, AppendHistory(t) \/ AppendAudit(t) \/ Reply(t)
       PROVE  ListedBackupIsWhole'
  BY <1>2, <1>12, AppendStep, ReplyStep DEF IInv, GhostSame
<1>13. CASE Crash
  BY <1>2, <1>13, CrashStep DEF IInv, GhostSame
<1>14. QED
  BY <1>1, <1>3, <1>4, <1>5, <1>6, <1>7, <1>8, <1>9, <1>10, <1>11, <1>12, <1>13
  DEF Next, LooksUp

----------------------------------------------------------------------------
(* The maps that are read. *)

(* No step writes the map file of a listed backup. *)
LEMMA ListedUntouched ==
    ASSUME IInv, [Next]_vars, ~twins, NEW id \in DOMAIN meta
    PROVE  pwm'[id] = pwm[id]
<1>1. CASE pwm' = pwm
  BY <1>1
<1>2. ASSUME NEW t \in Threads, OpenSave(t) \/ \E n \in 0 .. Size : Flush(t, n)
      PROVE  pwm'[id] = pwm[id]
  <2>1. CASE ~WritesBackup(t)
    BY <1>2, <2>1, OpenStep, FlushStep DEF IInv
  <2>2. CASE WritesBackup(t)
    <3>1. job[t].pc \in {"open", "write"}
      BY <1>2 DEF OpenSave, Flush, At
    <3>2. BackupSaved(t)
      BY <2>2, <3>1 DEF IInv, BackupsSaved, BacksUp, BackupSteps
    <3>3. id \in DOMAIN pwm
      BY ListedIsThere
    <3>4. id # job[t].id
      BY <3>1, <3>2, <3>3 DEF BackupSaved
    <3>5. \A other \in DOMAIN pwm \ {job[t].id} : pwm'[other] = pwm[other]
      BY <1>2, <2>2, OpenStep, FlushStep DEF IInv
    <3>6. QED  BY <3>3, <3>4, <3>5
  <2>3. QED  BY <2>1, <2>2
<1>3. CASE UNCHANGED vars
  BY <1>1, <1>3 DEF vars, files
<1>4. CASE Crash \/ Boot \/ DieStarting
  BY <1>1, <1>4, CrashStep, BootStep, DieStep DEF IInv, FilesSame
<1>5. QED
  BY <1>1, <1>2, <1>3, <1>4, StartStep, ChangeStep, StampStep, FailStep, CloseStep,
     BmpStep, MetaStep, FindStep, InstallStep, AppendStep, ReplyStep
  DEF Next, LooksUp, IInv, FilesSame

(* No step unlists a backup: metadata that are cut are of a new one. *)
LEMMA ListedForGood ==
    ASSUME IInv, [Next]_vars, ~twins
    PROVE  DOMAIN meta \subseteq DOMAIN meta'
<1>1. CASE meta' = meta
  BY <1>1
<1>2. ASSUME NEW t \in Threads, WriteMetadata(t) PROVE DOMAIN meta \subseteq DOMAIN meta'
  <2>1. /\ job[t].pc = "meta" /\ WritesBackup(t)
        /\ \/ DOMAIN meta' = DOMAIN meta \cup {job[t].id}
           \/ DOMAIN meta' = DOMAIN meta \ {job[t].id}
    BY <1>2, MetaStep DEF IInv
  <2>2. job[t].id \notin DOMAIN meta
    BY <2>1 DEF IInv, BackupsSaved, BackupSaved, BacksUp, BackupSteps
  <2>3. QED  BY <2>1, <2>2
<1>3. CASE UNCHANGED vars
  BY <1>1, <1>3 DEF vars, files
<1>4. CASE Crash \/ Boot \/ DieStarting
  BY <1>1, <1>4, CrashStep, BootStep, DieStep DEF IInv, FilesSame
<1>5. QED
  BY <1>1, <1>2, <1>3, <1>4, StartStep, ChangeStep, StampStep, OpenStep, FailStep, FlushStep,
     CloseStep, BmpStep, FindStep, InstallStep, AppendStep, ReplyStep
  DEF Next, LooksUp, IInv, FilesSame

(* Once two backups have one name, twins stays set. *)
LEMMA TwinsStay == ASSUME IInv, [Next]_vars, ~twins' PROVE ~twins
<1>1. CASE twins' = twins
  BY <1>1
<1>2. ASSUME NEW t \in Threads, Stamp(t) PROVE ~twins
  BY <1>2, StampStep DEF IInv
<1>3. CASE UNCHANGED vars
  BY <1>1, <1>3 DEF vars, ghosts
<1>4. CASE Crash \/ Boot \/ DieStarting
  BY <1>1, <1>4, CrashStep, BootStep, DieStep DEF IInv, GhostSame
<1>5. QED
  BY <1>1, <1>2, <1>3, <1>4, StartStep, ChangeStep, OpenStep, FailStep, FlushStep,
     CloseStep, BmpStep, MetaStep, FindStep, InstallStep, AppendStep, ReplyStep
  DEF Next, LooksUp, IInv, GhostSame

(* What is read in two pieces of one file is the file. *)
LEMMA RereadIsFound ==
    ASSUME NEW t \in Threads, job[t].read = Found(t), Found(t) \in FileRecords,
           NEW n \in 0 .. Len(job[t].read.runs)
    PROVE  Reread(t, n) = Found(t)
<1>1. PICK file \in FileRecords : file = Found(t) /\ file = job[t].read
  OBVIOUS
<1> DEFINE runs == file.runs
<1>2. runs \in Seq(FileRuns)
  BY DEF FileRecords
<1>3. Reread(t, n) = [file EXCEPT !.runs = SubSeq(runs, 1, n) \o SubSeq(runs, n + 1, Len(runs))]
  BY <1>1 DEF Reread
<1>4. n \in 0 .. Len(runs)
  BY <1>1
<1> HIDE DEF runs
<1>5. SubSeq(runs, 1, n) \o SubSeq(runs, n + 1, Len(runs)) = runs
  <2>1. Len(runs) \in Nat
    BY <1>2
  <2>2. /\ 1 \in 1 .. Len(runs) + 1 /\ n \in 1 - 1 .. Len(runs)
        /\ Len(runs) \in n .. Len(runs)
    BY <1>4, <2>1
  <2>3. SubSeq(runs, 1, n) \o SubSeq(runs, n + 1, Len(runs)) = SubSeq(runs, 1, Len(runs))
    BY <1>2, <2>2, ConcatAdjacentSubSeq
  <2>4. QED  BY <1>2, <2>3, SubSeqFull
<1>6. [file EXCEPT !.runs = runs] = file
  BY DEF runs, FileRecords
<1>7. QED  BY <1>1, <1>3, <1>5, <1>6

(* What a rollback has read is the map of its backup, and that is whole. *)
LEMMA ReadIsReal ==
    ASSUME IInv, ~twins, NEW t \in Threads, job[t].pc = "install"
    PROVE  /\ Whole(pwm[job[t].loaded])
           /\ LoadedImage(job[t].read) = pwm[job[t].loaded].image
           /\ pwm[job[t].loaded].image \in held
<1>1. job[t].read = Found(t) /\ Loads(job[t].read)
  BY DEF IInv, RealMaps, ReadsTrue, Shapes, NamesFit, NameFits
<1>2. job[t].loaded \in DOMAIN pwm
  BY Reader DEF IInv, Shapes, NamesFit, NameFits
<1>3. IsFile(pwm[job[t].loaded]) /\ pwm[job[t].loaded].image \in held
  BY <1>2 DEF IInv, Shapes, FilesFit, RealMaps, RealFiles
<1>4. QED  BY <1>1, <1>3, LoadedFile DEF Found

(* A job that stays where it is, or is at no step of a rollback's reading. *)
LEMMA ReadsQuiet ==
    ASSUME IInv, [Next]_vars, ~twins, NEW t \in Threads,
           Restores(t)' => Restores(t) /\ job'[t].loaded = job[t].loaded,
           job'[t].pc \in {"read", "install"} =>
              job'[t].pc = job[t].pc /\ job'[t].read = job[t].read /\ job'[t].loaded = job[t].loaded
    PROVE  ReadsTrue(t)'
<1>1. ReadsTrue(t)
  BY DEF IInv, RealMaps
<1>2. Restores(t)' => job'[t].loaded \in DOMAIN meta'
  BY <1>1, ListedForGood DEF ReadsTrue
<1>3. ASSUME job'[t].pc \in {"read", "install"} PROVE job'[t].read = Found(t)'
  <2>1. Restores(t) /\ job'[t].loaded = job[t].loaded
    BY <1>3, Reader DEF IInv, Shapes
  <2>2. pwm'[job[t].loaded] = pwm[job[t].loaded]
    BY <1>1, <2>1, ListedUntouched DEF ReadsTrue
  <2>3. job[t].read = Found(t)
    BY <1>1, <1>3 DEF ReadsTrue
  <2>4. QED  BY <1>3, <2>1, <2>2, <2>3 DEF Found
<1>4. QED  BY <1>2, <1>3 DEF ReadsTrue

(* The step of one thread leaves the reading of the others alone. *)
LEMMA ReadsAlone ==
    ASSUME IInv, [Next]_vars, ~twins, NEW t \in Threads, Alone(t), ReadsTrue(t)'
    PROVE  \A u \in Threads : ReadsTrue(u)'
<1> SUFFICES ASSUME NEW u \in Threads, u # t PROVE ReadsTrue(u)'
  OBVIOUS
<1>1. job'[u] = job[u]
  BY DEF Alone
<1>2. Restores(u)' => Restores(u)
  BY <1>1 DEF Restores, BacksUp, WritesBackup
<1>3. QED  BY <1>1, <1>2, ReadsQuiet

(* No step brings up a map that no write made. *)
LEMMA RealFilesStep == ASSUME IInv, [Next]_vars, ~twins PROVE RealFiles'
<1>1. RealFiles
  BY DEF IInv, RealMaps
<1>2. ASSUME MapSame, FilesSame, held' = held PROVE RealFiles'
  BY <1>1, <1>2 DEF RealFiles, MapSame, FilesSame
<1>3. CASE UNCHANGED vars
  <2>1. UNCHANGED mapVars /\ FilesSame /\ held' = held
    BY <1>3 DEF vars, files, ghosts, FilesSame
  <2>2. MapSame
    BY <2>1, MapStays DEF IInv, Shapes, MapSame
  <2>3. QED  BY <1>2, <2>1, <2>2
<1>4. ASSUME NEW t \in Threads,
             \/ \E x \in Columns, y \in Rows, color \in Asked : DoSetPixel(t, x, y, color)
             \/ \E color \in Asked : DoReset(t, color)
      PROVE  RealFiles'
  <2>1. held' = held \cup {MapImage'}
    BY <1>4 DEF DoSetPixel, DoReset
  <2>2. FilesSame
    BY <1>4, ChangeStep DEF IInv
  <2>3. QED  BY <1>1, <2>1, <2>2 DEF RealFiles, FilesSame
<1>5. ASSUME NEW t \in Threads, OpenSave(t) \/ \E n \in 0 .. Size : Flush(t, n)
      PROVE  RealFiles'
  <2>1. MapSame /\ held' = held
    BY <1>5, OpenStep, FlushStep DEF IInv
  <2>2. CASE WritesBackup(t)
    <3>1. /\ live' = live /\ DOMAIN pwm' = DOMAIN pwm \cup {job[t].id}
          /\ pwm'[job[t].id].image = MapImage
          /\ \A id \in DOMAIN pwm \ {job[t].id} : pwm'[id] = pwm[id]
      <4>1. CASE OpenSave(t)
        <5>1. /\ live' = live /\ DOMAIN pwm' = DOMAIN pwm \cup {job[t].id}
              /\ pwm'[job[t].id] = [image |-> MapImage, written |-> {}]
              /\ \A id \in DOMAIN pwm \ {job[t].id} : pwm'[id] = pwm[id]
          BY <2>2, <4>1, OpenStep DEF IInv
        <5>2. pwm'[job[t].id].image = MapImage
          BY <5>1
        <5>3. QED  BY <5>1, <5>2
      <4>2. CASE \E n \in 0 .. Size : Flush(t, n)
        <5>1. PICK n \in 0 .. Size : Flush(t, n)
          BY <4>2
        <5>2. /\ live' = live /\ DOMAIN pwm' = DOMAIN pwm /\ job[t].id \in DOMAIN pwm
              /\ pwm'[job[t].id].image = MapImage
              /\ \A id \in DOMAIN pwm \ {job[t].id} : pwm'[id] = pwm[id]
          BY <2>2, <5>1, FlushStep DEF IInv
        <5>3. QED  BY <5>2
      <4>3. QED  BY <1>5, <4>1, <4>2
    <3>2. QED  BY <1>1, <2>1, <3>1 DEF RealFiles, MapSame
  <2>3. CASE ~WritesBackup(t)
    <3>1. pwm' = pwm /\ live'.image = MapImage
      <4>1. CASE OpenSave(t)
        <5>1. live' = [image |-> MapImage, written |-> {}]
          BY <2>3, <4>1, OpenStep DEF IInv
        <5>2. QED  BY <2>3, <4>1, <5>1, OpenStep DEF IInv
      <4>2. CASE \E n \in 0 .. Size : Flush(t, n)
        BY <2>3, <4>2, FlushStep DEF IInv
      <4>3. QED  BY <1>5, <4>1, <4>2
    <3>2. QED  BY <1>1, <2>1, <3>1 DEF RealFiles, MapSame
  <2>4. QED  BY <2>2, <2>3
<1>6. ASSUME NEW t \in Threads, WriteMetadata(t) PROVE RealFiles'
  <2>1. MapSame /\ held' = held /\ live' = live /\ pwm' = pwm
    BY <1>6, MetaStep DEF IInv
  <2>2. QED  BY <1>1, <2>1 DEF RealFiles, MapSame
<1>7. ASSUME NEW t \in Threads, DoInstall(t) PROVE RealFiles'
  <2>1. /\ FilesSame /\ held' = held /\ job[t].pc = "install"
        /\ MapImage' = LoadedImage(job[t].read)
    BY <1>7, InstallStep DEF IInv
  <2>2. LoadedImage(job[t].read) \in held
    BY <2>1, ReadIsReal
  <2>3. QED  BY <1>1, <2>1, <2>2 DEF RealFiles, FilesSame
<1>8. CASE Boot
  <2>1. /\ pwm' = pwm /\ held' = held /\ MapImage' = live'.image
        /\ MapImage' \in {live.image, BlankImage}
    BY <1>8, BootStep DEF IInv
  <2>2. BlankImage \in held
    BY DEF IInv, Shapes, FilesFit
  <2>3. QED  BY <1>1, <2>1, <2>2 DEF RealFiles
<1>9. CASE DieStarting
  <2>1. MapSame /\ pwm' = pwm /\ held' = held /\ live'.image = BlankImage
    BY <1>9, DieStep DEF IInv
  <2>2. BlankImage \in held
    BY DEF IInv, Shapes, FilesFit
  <2>3. QED  BY <1>1, <2>1, <2>2 DEF RealFiles, MapSame
<1>10. CASE Crash
  BY <1>2, <1>10, CrashStep DEF IInv
<1>11. ASSUME NEW t \in Threads,
              \/ \E kind \in Kinds : Start(t, kind)
              \/ Stamp(t) \/ OpenFails(t) \/ CloseSave(t) \/ CloseWithLoss(t)
       PROVE  RealFiles'
  BY <1>2, <1>11, StartStep, StampStep, FailStep, CloseStep DEF IInv
<1>12. ASSUME NEW t \in Threads, SaveBmp(t) \/ LooksUp(t) PROVE RealFiles'
  BY <1>2, <1>12, BmpStep, FindStep DEF IInv
<1>13. ASSUME NEW t \in Threads, AppendHistory(t) \/ AppendAudit(t) \/ Reply(t) PROVE RealFiles'
  BY <1>2, <1>13, AppendStep, ReplyStep DEF IInv
<1>14. QED
  BY <1>3, <1>4, <1>5, <1>6, <1>7, <1>8, <1>9, <1>10, <1>11, <1>12, <1>13 DEF Next, LooksUp

(* A rollback that looks for its backup or reads it finds what is there. *)
LEMMA ReadsFind ==
    ASSUME IInv, [Next]_vars, ~twins, NEW t \in Threads, LooksUp(t)
    PROVE  ReadsTrue(t)'
<1>1. /\ FilesSame /\ job[t].pc \in {"find", "parse", "read"}
      /\ job'[t].pc = "idle" \/ Looked(t)
  BY FindStep DEF IInv
<1>2. ReadsTrue(t) /\ JobsFit /\ FilesFit /\ NamesFit
  BY DEF IInv, RealMaps, Shapes
<1>3. CASE job'[t].pc = "idle"
  BY <1>3 DEF ReadsTrue, Restores, BacksUp, BackupSteps
<1>4. CASE job[t].pc = "find" /\ Looked(t)
  BY <1>1, <1>4 DEF Looked, ReadsTrue, FilesSame
<1>5. CASE job[t].pc \in {"parse", "read"} /\ Looked(t)
  <2>1. job[t].loaded \in DOMAIN meta /\ job'[t].loaded = job[t].loaded
    BY <1>2, <1>5, Reader DEF ReadsTrue, Looked
  <2>2. Found(t)' = Found(t) /\ job'[t].loaded \in DOMAIN meta'
    BY <1>1, <2>1 DEF Found, FilesSame
  <2>3. CASE job[t].pc = "parse"
    BY <1>5, <2>2, <2>3 DEF Looked, ReadsTrue
  <2>4. CASE job[t].pc = "read"
    <3>1. job[t].read = Found(t) /\ Found(t) \in FileRecords
      BY <1>2, <2>4, Reader, FoundIsRecord DEF ReadsTrue
    <3>2. job'[t].read = Found(t)
      BY <1>5, <2>4, <3>1, RereadIsFound DEF Looked
    <3>3. QED  BY <2>2, <3>2 DEF ReadsTrue
  <2>5. QED  BY <1>5, <2>3, <2>4
<1>6. QED  BY <1>1, <1>3, <1>4, <1>5

(* No step makes a rollback's reading untrue. *)
LEMMA ReadsStep == ASSUME IInv, [Next]_vars, ~twins PROVE \A t \in Threads : ReadsTrue(t)'
<1>1. ASSUME NEW t \in Threads, Alone(t), ~Restores(t)', job'[t].pc \notin {"read", "install"}
      PROVE  \A u \in Threads : ReadsTrue(u)'
  BY <1>1, ReadsAlone DEF ReadsTrue
<1>2. ASSUME NEW t \in Threads, Alone(t), job'[t].loaded = job[t].loaded, Restores(t)' => Restores(t),
             job'[t].pc \notin {"read", "install"}
      PROVE  \A u \in Threads : ReadsTrue(u)'
  <2>1. ReadsTrue(t)'
    BY <1>2, ReadsQuiet
  <2>2. QED  BY <1>2, <2>1, ReadsAlone
<1>3. CASE UNCHANGED vars
  <2>1. job' = job
    BY <1>3 DEF vars
  <2>2. \A t \in Threads : Restores(t)' => Restores(t)
    BY <2>1 DEF Restores, BacksUp, WritesBackup
  <2>3. QED  BY <2>1, <2>2, ReadsQuiet
<1>4. ASSUME NEW t \in Threads, NEW kind \in Kinds, Start(t, kind)
      PROVE  \A u \in Threads : ReadsTrue(u)'
  <2>1. /\ Alone(t) /\ job'[t].kind = kind /\ job'[t].pc \in {"setPixel", "stamp", "find"}
        /\ kind = "rollback" => job'[t].pc = "find"
    BY <1>4, StartJob DEF IInv, Shapes, NumbersFit
  <2>2. ~Restores(t)' /\ job'[t].pc \notin {"read", "install"}
    BY <2>1 DEF Restores, BacksUp, BackupSteps
  <2>3. QED  BY <1>1, <2>1, <2>2
<1>5. ASSUME NEW t \in Threads,
             \/ \E x \in Columns, y \in Rows, color \in Asked : DoSetPixel(t, x, y, color)
             \/ \E color \in Asked : DoReset(t, color)
      PROVE  \A u \in Threads : ReadsTrue(u)'
  <2>1. Alone(t) /\ job'[t].pc = "open" /\ job'[t].target = "live"
    BY <1>5, ChangeStep DEF IInv
  <2>2. QED  BY <1>1, <2>1 DEF Restores, BacksUp, WritesBackup
<1>6. ASSUME NEW t \in Threads, Stamp(t) PROVE \A u \in Threads : ReadsTrue(u)'
  <2>1. /\ Alone(t) /\ job[t].pc = "stamp" /\ job'[t].pc = "open"
        /\ job'[t].kind = job[t].kind /\ job'[t].loaded = job[t].loaded
    BY <1>6, StampStep DEF IInv
  <2>2. QED  BY <1>2, <2>1 DEF Restores
<1>7. ASSUME NEW t \in Threads, OpenSave(t) \/ \E n \in 0 .. Size : Flush(t, n)
      PROVE  \A u \in Threads : ReadsTrue(u)'
  <2>1. /\ Alone(t) /\ Keeps(t) /\ job[t].pc \in {"open", "write"} /\ job'[t].pc = "write"
        /\ job'[t].target = job[t].target
    BY <1>7, OpenStep, FlushStep DEF IInv
  <2>2. QED  BY <1>2, <2>1 DEF Restores, BacksUp, WritesBackup, BackupSteps, Keeps
<1>8. ASSUME NEW t \in Threads, CloseSave(t) \/ CloseWithLoss(t)
      PROVE  \A u \in Threads : ReadsTrue(u)'
  <2>1. /\ Alone(t) /\ Keeps(t) /\ job[t].pc = "write" /\ job'[t].target = job[t].target
        /\ job'[t].pc \in {"bmp", "meta", "history", "audit"}
    BY <1>8, CloseStep DEF IInv
  <2>2. QED  BY <1>2, <2>1 DEF Restores, BacksUp, WritesBackup, BackupSteps, Keeps
<1>9. ASSUME NEW t \in Threads, SaveBmp(t) PROVE \A u \in Threads : ReadsTrue(u)'
  <2>1. /\ Alone(t) /\ Keeps(t) /\ job[t].pc = "bmp" /\ job'[t].pc = "meta" /\ WritesBackup(t)
    BY <1>9, BmpStep DEF IInv
  <2>2. QED  BY <1>2, <2>1 DEF Restores, BacksUp, BackupSteps, Keeps
<1>10. ASSUME NEW t \in Threads, WriteMetadata(t) PROVE \A u \in Threads : ReadsTrue(u)'
  <2>1. /\ Alone(t) /\ job[t].pc = "meta" /\ WritesBackup(t)
        /\ \/ job'[t].pc = "idle"
           \/ Keeps(t) /\ job'[t].pc \in {"reset", "parse", "audit"}
    BY <1>10, MetaStep DEF IInv
  <2>2. CASE job'[t].pc = "idle"
    BY <1>1, <2>1, <2>2 DEF Restores, BacksUp, BackupSteps
  <2>3. CASE Keeps(t) /\ job'[t].pc \in {"reset", "parse", "audit"}
    BY <1>2, <2>1, <2>3 DEF Restores, BacksUp, BackupSteps, Keeps
  <2>4. QED  BY <2>1, <2>2, <2>3
<1>11. ASSUME NEW t \in Threads, LooksUp(t) PROVE \A u \in Threads : ReadsTrue(u)'
  <2>1. Alone(t)
    BY <1>11, FindStep DEF IInv
  <2>2. QED  BY <1>11, <2>1, ReadsFind, ReadsAlone
<1>12. ASSUME NEW t \in Threads, DoInstall(t) PROVE \A u \in Threads : ReadsTrue(u)'
  <2> SUFFICES ASSUME NEW u \in Threads PROVE ReadsTrue(u)'
    OBVIOUS
  <2>1. CASE u = t
    <3>1. job'[t].pc = "open" /\ job'[t].target = "live"
      BY <1>12, InstallStep DEF IInv
    <3>2. QED  BY <2>1, <3>1 DEF ReadsTrue, Restores, BacksUp, WritesBackup
  <2>2. CASE u # t
    <3>1. job'[u] = job[u] \/ TakenBack(u)
      BY <1>12, <2>2, InstallStep DEF IInv
    <3>2. Restores(u)' => Restores(u)
      BY <3>1 DEF Restores, BacksUp, WritesBackup, TakenBack
    <3>3. /\ job'[u].pc = job[u].pc /\ job'[u].loaded = job[u].loaded
          /\ job'[u].read = job[u].read
      BY <3>1 DEF TakenBack
    <3>4. QED  BY <3>2, <3>3, ReadsQuiet
  <2>3. QED  BY <2>1, <2>2
<1>13. ASSUME NEW t \in Threads, AppendHistory(t) \/ AppendAudit(t)
       PROVE  \A u \in Threads : ReadsTrue(u)'
  <2>1. Alone(t) /\ job'[t].pc = "reply"
    BY <1>13, AppendStep DEF IInv
  <2>2. QED  BY <1>1, <2>1 DEF Restores, BacksUp, BackupSteps
<1>14. ASSUME NEW t \in Threads, OpenFails(t) \/ Reply(t) PROVE \A u \in Threads : ReadsTrue(u)'
  <2>1. Alone(t) /\ job'[t].pc = "idle"
    BY <1>14, FailStep, ReplyStep DEF IInv
  <2>2. QED  BY <1>1, <2>1 DEF Restores, BacksUp, BackupSteps
<1>15. CASE Crash \/ Boot \/ DieStarting
  <2>1. \A t \in Threads : job'[t].pc = "idle"
    BY <1>15, CrashStep, BootStep, DieStep DEF IInv
  <2>2. QED  BY <2>1 DEF ReadsTrue, Restores, BacksUp, BackupSteps
<1>16. QED
  BY <1>3, <1>4, <1>5, <1>6, <1>7, <1>8, <1>9, <1>10, <1>11, <1>12, <1>13, <1>14, <1>15
  DEF Next, LooksUp

(* The maps in memory and in the files stay real. *)
LEMMA RealStep == IInv /\ [Next]_vars => RealMaps'
BY TwinsStay, RealFilesStep, ReadsStep DEF RealMaps

----------------------------------------------------------------------------
(* The safety backups. *)

(* The backup that t made is listed or spoiled, and not older than t's     *)
(* stamp.                                                                  *)
ProtectionOf(t) ==
    /\ Protected(t) => job[t].id \in DOMAIN pwm
    /\ ~twins /\ Protected(t) => job[t].id \in DOMAIN meta \cup spoiled
    /\ ~twins /\ (Protected(t) \/ HasFile(t))
          => job[t].lasting <= pwm[job[t].id].image.sequence

(* A file, once opened, is of one map. *)
LEMMA BackupKeepsMap ==
    ASSUME IInv, NEW t \in Threads, OpenSave(t) \/ \E n \in 0 .. Size : Flush(t, n),
           ~twins, NEW u \in Threads \ {t}, Protected(u) \/ HasFile(u)
    PROVE  pwm'[job[u].id].image = pwm[job[u].id].image
<1>1. job[u].id \in DOMAIN pwm
  BY DEF IInv, Shapes, FilesFit, NamesFit, NameFits, Protection
<1>2. job[u].pc # "idle"
  BY DEF Protected, HasFile
<1>3. CASE OpenSave(t)
  <2>1. CASE WritesBackup(t)
    <3>1. BacksUp(t)
      BY <1>3, <2>1, OpenStep DEF IInv, BacksUp, BackupSteps
    <3>2. job[u].id # job[t].id
      BY <1>2, <3>1, BackupName
    <3>3. \A id \in DOMAIN pwm \ {job[t].id} : pwm'[id] = pwm[id]
      BY <1>3, <2>1, OpenStep DEF IInv
    <3>4. QED  BY <1>1, <3>2, <3>3
  <2>2. CASE ~WritesBackup(t)
    BY <1>3, <2>2, OpenStep DEF IInv
  <2>3. QED  BY <2>1, <2>2
<1>4. CASE \E n \in 0 .. Size : Flush(t, n)
  <2>1. PICK n \in 0 .. Size : Flush(t, n)
    BY <1>4
  <2>2. CASE WritesBackup(t)
    BY <1>1, <2>1, <2>2, FlushStep DEF IInv
  <2>3. CASE ~WritesBackup(t)
    BY <2>1, <2>3, FlushStep DEF IInv
  <2>4. QED  BY <2>2, <2>3
<1>5. QED  BY <1>3, <1>4

(* The step of one thread that changes no map of the others' backups. *)
LEMMA ProtectionMoves ==
    ASSUME IInv, NEW t \in Threads, Alone(t), ~twins' => ~twins,
           DOMAIN pwm \subseteq DOMAIN pwm', ProtectionOf(t)',
           ~twins => \A u \in Threads \ {t} : Protected(u) \/ HasFile(u) =>
                        pwm'[job[u].id].image = pwm[job[u].id].image,
           ~twins => \A u \in Threads \ {t} : Protected(u) =>
                        (job[u].id \in DOMAIN meta \cup spoiled
                           => job[u].id \in DOMAIN meta' \cup spoiled')
    PROVE  Protection'
<1> SUFFICES ASSUME NEW u \in Threads, u # t PROVE ProtectionOf(u)'
  BY DEF Protection, ProtectionOf
<1>1. job'[u] = job[u]
  BY DEF Alone
<1>2. ProtectionOf(u)
  BY DEF IInv, Protection, ProtectionOf
<1>3. Protected(u)' = Protected(u) /\ HasFile(u)' = HasFile(u)
  BY <1>1 DEF Protected, HasFile, WritesBackup
<1>4. QED  BY <1>1, <1>2, <1>3 DEF ProtectionOf

(* The steps that touch no backup. *)
LEMMA ProtectionQuiet ==
    ASSUME IInv, NEW t \in Threads, Alone(t), ~twins' => ~twins, FilesSame,
           spoiled \subseteq spoiled',
           Protected(t)' \/ HasFile(t)' =>
              /\ Protected(t)' => Protected(t)
              /\ Protected(t) \/ HasFile(t)
              /\ job'[t].id = job[t].id /\ job'[t].lasting = job[t].lasting
    PROVE  Protection'
<1>1. ProtectionOf(t)
  BY DEF IInv, Protection, ProtectionOf
<1>2. ProtectionOf(t)'
  BY <1>1 DEF ProtectionOf, FilesSame
<1>3. QED  BY <1>2, ProtectionMoves DEF FilesSame

(* The safety backups stay listed and not older than their stamps. *)
LEMMA ProtectionStep == IInv /\ [Next]_vars => Protection'
<1> SUFFICES ASSUME IInv, [Next]_vars PROVE Protection'
  OBVIOUS
<1>1. CASE UNCHANGED vars
  <2>1. job' = job /\ twins' = twins /\ pwm' = pwm /\ meta' = meta /\ spoiled' = spoiled
    BY <1>1 DEF vars, files, ghosts
  <2>2. QED  BY <2>1 DEF IInv, Protection, Protected, HasFile, WritesBackup
<1>2. ASSUME NEW t \in Threads, NEW kind \in Kinds, Start(t, kind) PROVE Protection'
  BY <1>2, StartStep, ProtectionQuiet DEF IInv, GhostSame, Protected, HasFile
<1>3. ASSUME NEW t \in Threads,
             \/ \E x \in Columns, y \in Rows, color \in Asked : DoSetPixel(t, x, y, color)
             \/ \E color \in Asked : DoReset(t, color)
      PROVE  Protection'
  BY <1>3, ChangeStep, ProtectionQuiet DEF IInv, GhostSame, Protected, HasFile
<1>4. ASSUME NEW t \in Threads, Stamp(t) PROVE Protection'
  BY <1>4, StampStep, ProtectionQuiet DEF IInv, Protected, HasFile
<1>5. ASSUME NEW t \in Threads, OpenSave(t) PROVE Protection'
  <2>1. /\ Alone(t) /\ Keeps(t) /\ twins' = twins /\ meta' = meta /\ job[t].pc = "open"
        /\ job'[t].pc = "write" /\ job'[t].target = job[t].target
    BY <1>5, OpenStep DEF IInv
  <2>2. ProtectionOf(t)'
    <3>1. CASE WritesBackup(t)
      <4>1. pwm'[job[t].id].image = MapImage
        <5>1. pwm'[job[t].id] = [image |-> MapImage, written |-> {}]
          BY <1>5, <3>1, OpenStep DEF IInv
        <5>2. QED  BY <5>1
      <4>2. MapImage.sequence = sequence
        BY DEF MapImage
      <4>3. job[t].lasting <= sequence
        BY <2>1 DEF IInv, Answers
      <4>4. QED  BY <2>1, <4>1, <4>2, <4>3 DEF ProtectionOf, Protected, Keeps
    <3>2. CASE ~WritesBackup(t)
      BY <2>1, <3>2 DEF ProtectionOf, Protected, HasFile, WritesBackup
    <3>3. QED  BY <3>1, <3>2
  <2>3. DOMAIN pwm \subseteq DOMAIN pwm'
    BY <1>5, OpenStep DEF IInv
  <2>4. ASSUME ~twins, NEW u \in Threads \ {t}, Protected(u)
        PROVE  job[u].id \in DOMAIN meta \cup spoiled => job[u].id \in DOMAIN meta' \cup spoiled'
    <3>1. spoiled' = spoiled \ {Aim(t)}
      BY <1>5, OpenStep DEF IInv
    <3>2. job[u].id # Aim(t)
      <4>1. CASE WritesBackup(t)
        <5>1. BacksUp(t) /\ job[u].pc # "idle"
          BY <2>1, <2>4, <4>1 DEF BacksUp, BackupSteps, Protected
        <5>2. QED  BY <2>4, <4>1, <5>1, BackupName DEF Aim
      <4>2. CASE ~WritesBackup(t)
        <5>1. job[u].id \in Ids
          BY <2>4 DEF IInv, Protection, Shapes, FilesFit
        <5>2. QED  BY <4>2, <5>1, NotEmptyName DEF Aim
      <4>3. QED  BY <4>1, <4>2
    <3>3. QED  BY <2>1, <3>1, <3>2
  <2>5. ASSUME ~twins, NEW u \in Threads \ {t}, Protected(u) \/ HasFile(u)
        PROVE  pwm'[job[u].id].image = pwm[job[u].id].image
    BY <1>5, <2>5, BackupKeepsMap
  <2>6. QED  BY <2>1, <2>2, <2>3, <2>4, <2>5, ProtectionMoves
<1>6. ASSUME NEW t \in Threads, OpenFails(t) PROVE Protection'
  BY <1>6, FailStep, ProtectionQuiet DEF IInv, Protected, HasFile
<1>7. ASSUME NEW t \in Threads, NEW n \in 0 .. Size, Flush(t, n) PROVE Protection'
  <2>1. /\ Alone(t) /\ Keeps(t) /\ GhostSame /\ meta' = meta
        /\ job[t].pc = "write" /\ job'[t].pc = "write" /\ job'[t].target = job[t].target
    BY <1>7, FlushStep DEF IInv
  <2>2. ProtectionOf(t)'
    <3>1. CASE WritesBackup(t)
      <4>1. pwm'[job[t].id].image = pwm[job[t].id].image
        BY <1>7, <3>1, FlushStep DEF IInv
      <4>2. ProtectionOf(t) /\ HasFile(t)
        BY <2>1, <3>1 DEF IInv, Protection, ProtectionOf, HasFile
      <4>3. QED  BY <2>1, <4>1, <4>2 DEF ProtectionOf, Protected, Keeps, GhostSame
    <3>2. CASE ~WritesBackup(t)
      BY <2>1, <3>2 DEF ProtectionOf, Protected, HasFile, WritesBackup
    <3>3. QED  BY <3>1, <3>2
  <2>3. DOMAIN pwm \subseteq DOMAIN pwm'
    BY <1>7, FlushStep DEF IInv
  <2>4. ASSUME ~twins, NEW u \in Threads \ {t}, Protected(u) \/ HasFile(u)
        PROVE  pwm'[job[u].id].image = pwm[job[u].id].image
    BY <1>7, <2>4, BackupKeepsMap
  <2>5. QED  BY <2>1, <2>2, <2>3, <2>4, ProtectionMoves DEF GhostSame
<1>8. ASSUME NEW t \in Threads, CloseSave(t) \/ CloseWithLoss(t) PROVE Protection'
  <2>1. /\ Alone(t) /\ Keeps(t) /\ FilesSame /\ twins' = twins /\ job[t].pc = "write"
        /\ job'[t].pc \in {"bmp", "meta", "history", "audit"}
        /\ job'[t].target = job[t].target
    BY <1>8, CloseStep DEF IInv
  <2>2. spoiled \subseteq spoiled'
    BY <1>8, CloseStep DEF IInv
  <2>3. QED
    BY <2>1, <2>2, ProtectionQuiet DEF Protected, HasFile, WritesBackup, Keeps
<1>9. ASSUME NEW t \in Threads, SaveBmp(t) PROVE Protection'
  <2>1. /\ Alone(t) /\ Keeps(t) /\ FilesSame /\ GhostSame /\ job[t].pc = "bmp"
        /\ job'[t].pc = "meta" /\ WritesBackup(t)
    BY <1>9, BmpStep DEF IInv
  <2>2. QED  BY <2>1, ProtectionQuiet DEF Protected, HasFile, Keeps, GhostSame
<1>10. ASSUME NEW t \in Threads, WriteMetadata(t) PROVE Protection'
  <2>1. /\ Alone(t) /\ pwm' = pwm /\ twins' = twins
        /\ job[t].pc = "meta" /\ WritesBackup(t) /\ job[t].id \in DOMAIN pwm
        /\ \/ job'[t].pc = "idle"
           \/ Keeps(t) /\ job'[t].target = "live"
    BY <1>10, MetaStep DEF IInv
  <2>2. \/ DOMAIN meta' = DOMAIN meta \cup {job[t].id} /\ spoiled' = spoiled
        \/ /\ DOMAIN meta' = DOMAIN meta \ {job[t].id}
           /\ spoiled' = spoiled \cup {job[t].id}
    BY <1>10, MetaStep DEF IInv
  <2>3. DOMAIN meta \cup spoiled \cup {job[t].id} \subseteq DOMAIN meta' \cup spoiled'
    BY <2>2
  <2>4. ProtectionOf(t) /\ HasFile(t)
    BY <2>1 DEF IInv, Protection, ProtectionOf, HasFile
  <2>5. ProtectionOf(t)'
    <3>1. CASE job'[t].pc = "idle"
      BY <3>1 DEF ProtectionOf, Protected, HasFile
    <3>2. CASE Keeps(t) /\ job'[t].target = "live"
      <4>1. ~HasFile(t)' /\ job'[t].id = job[t].id /\ job'[t].lasting = job[t].lasting
        BY <3>2 DEF HasFile, WritesBackup, Keeps
      <4>2. ~twins => job[t].lasting <= pwm[job[t].id].image.sequence
        BY <2>4 DEF ProtectionOf
      <4>3. QED  BY <2>1, <2>3, <4>1, <4>2 DEF ProtectionOf
    <3>3. QED  BY <2>1, <3>1, <3>2
  <2>6. QED  BY <2>1, <2>3, <2>5, ProtectionMoves
<1>11. ASSUME NEW t \in Threads, LooksUp(t) PROVE Protection'
  BY <1>11, FindStep, ProtectionQuiet DEF IInv, GhostSame, Protected, HasFile
<1>12. ASSUME NEW t \in Threads, DoInstall(t) PROVE Protection'
  <2>1. /\ FilesSame /\ twins' = twins /\ sequence' \in Nat
        /\ job'[t].pc = "open" /\ job'[t].target = "live"
    BY <1>12, InstallStep DEF IInv
  <2>2. ~Protected(t)' /\ ~HasFile(t)'
    BY <2>1 DEF Protected, HasFile
  <2> SUFFICES ASSUME NEW u \in Threads, u # t, Protected(u)' \/ HasFile(u)'
               PROVE  ProtectionOf(u)'
    BY <2>2 DEF Protection, ProtectionOf
  <2>3. job[u].pc # "idle" /\ TakenBack(u)
    BY <1>12, InstallStep DEF IInv, Protected, HasFile
  <2>4. /\ Protected(u)' = Protected(u) /\ HasFile(u)' = HasFile(u)
        /\ job'[u].id = job[u].id /\ job'[u].lasting = AtMost(job[u].lasting, sequence')
    BY <2>3 DEF Protected, HasFile, WritesBackup, TakenBack
  <2>5. ProtectionOf(u) /\ job[u].id \in DOMAIN pwm
    BY <2>4 DEF IInv, Protection, ProtectionOf, Shapes, FilesFit, NamesFit, NameFits
  <2>6. pwm[job[u].id].image.sequence \in Nat /\ job[u].lasting \in Nat
    <3>1. pwm[job[u].id].image \in Images
      BY <2>5 DEF IInv, Shapes, FilesFit, IsFile
    <3>2. job[u] \in Jobs
      BY <2>3, BusyIsJob DEF IInv, Shapes, IsJob
    <3>3. QED  BY <3>1, <3>2 DEF Images, Jobs
  <2>7. ~twins => job'[u].lasting <= pwm[job[u].id].image.sequence
    BY <2>1, <2>4, <2>5, <2>6 DEF AtMost, ProtectionOf
  <2>8. spoiled' = spoiled
    BY <1>12, InstallStep DEF IInv
  <2>9. QED  BY <2>1, <2>4, <2>5, <2>7, <2>8 DEF ProtectionOf, FilesSame
<1>13. ASSUME NEW t \in Threads, AppendHistory(t) \/ AppendAudit(t) PROVE Protection'
  BY <1>13, AppendStep, ProtectionQuiet DEF IInv, GhostSame, Protected, HasFile
<1>14. ASSUME NEW t \in Threads, Reply(t) PROVE Protection'
  BY <1>14, ReplyStep, ProtectionQuiet DEF IInv, Protected, HasFile
<1>15. CASE Crash \/ Boot \/ DieStarting
  <2>1. \A t \in Threads : job'[t].pc = "idle"
    BY <1>15, CrashStep, BootStep, DieStep DEF IInv
  <2>2. QED  BY <2>1 DEF Protection, Protected, HasFile
<1>16. QED
  BY <1>1, <1>2, <1>3, <1>4, <1>5, <1>6, <1>7, <1>8, <1>9, <1>10, <1>11, <1>12, <1>13,
     <1>14, <1>15 DEF Next, LooksUp

----------------------------------------------------------------------------
(* The answers. *)

(* The numbers that are compared. *)
LEMMA NumbersAreNatural ==
    ASSUME IInv
    PROVE  /\ acked \in Nat /\ sequence \in Nat /\ live.image.sequence \in Nat
           /\ MapImage.sequence = sequence
           /\ \A t \in Threads : job[t].pc # "idle" => job[t].lasting \in Nat
<1>1. live.image \in Images
  BY DEF IInv, Shapes, FilesFit, IsFile
<1>2. \A t \in Threads : job[t].pc # "idle" => job[t] \in Jobs
  BY BusyIsJob DEF IInv, Shapes, IsJob
<1>3. MapImage.sequence = sequence
  BY DEF MapImage
<1>4. acked \in Nat /\ sequence \in Nat
  BY DEF IInv, Answers, Shapes, MapTypeOK
<1>5. QED  BY <1>1, <1>2, <1>3, <1>4 DEF Images, Jobs

(* A thread that has saved is at work. *)
LEMMA SavedIsBusy == \A t \in Threads : Saved(t) => job[t].pc # "idle"
BY DEF Saved

(* A step of one thread that changes neither the map nor map.pwm. *)
LEMMA AnswersQuiet ==
    ASSUME IInv, NEW t \in Threads, Alone(t), MapSame, Working, live' = live, acked' = acked,
           job'[t].pc # "idle" => job'[t].lasting <= sequence,
           Saved(t)' /\ Whole(live) => job'[t].lasting <= live.image.sequence
    PROVE  Answers'
<1>1. Whole(live)' = Whole(live)
  BY DEF Whole
<1>2. \A u \in Threads \ {t} : job'[u] = job[u]
  BY DEF Alone
<1>3. \A u \in Threads : job'[u].pc # "idle" => job'[u].lasting <= sequence'
  BY <1>2 DEF IInv, Answers, MapSame
<1>4. \A u \in Threads : Saved(u)' /\ Whole(live) => job'[u].lasting <= live.image.sequence
  BY <1>2 DEF IInv, Answers, Saved
<1>5. QED  BY <1>1, <1>3, <1>4 DEF IInv, Answers, MapSame, Working

(* A step that writes the map in memory to map.pwm, or empties the file.   *)
LEMMA AnswersWrite ==
    ASSUME IInv, NEW t \in Threads, Alone(t), MapSame, Working, acked' = acked,
           job'[t].pc # "idle", job[t].pc # "idle", job'[t].lasting = job[t].lasting,
           live'.image = MapImage
    PROVE  Answers'
<1>1. \A u \in Threads : job'[u].pc # "idle" => job'[u].lasting <= sequence
  BY DEF Alone, IInv, Answers
<1>2. acked \in Nat /\ acked <= sequence
  BY DEF IInv, Answers, Working
<1>3. live'.image.sequence = sequence
  BY NumbersAreNatural
<1>4. \A u \in Threads : Saved(u)' => job'[u].pc # "idle"
  BY DEF Saved
<1>5. QED  BY <1>1, <1>2, <1>3, <1>4 DEF Answers, MapSame

(* What was or will be answered stays in the map and in a whole map.pwm. *)
LEMMA AnswersStep == IInv /\ [Next]_vars => Answers'
<1> SUFFICES ASSUME IInv, [Next]_vars PROVE Answers'
  OBVIOUS
<1>1. CASE UNCHANGED vars
  <2>1. job' = job /\ acked' = acked /\ live' = live /\ sequence' = sequence /\ up' = up
    BY <1>1 DEF vars, files, ghosts, answers, mapVars
  <2>2. QED  BY <2>1 DEF IInv, Answers, Saved, Whole
<1>2. ASSUME NEW t \in Threads, NEW kind \in Kinds, Start(t, kind) PROVE Answers'
  <2>1. /\ Alone(t) /\ MapSame /\ Working /\ live' = live /\ acked' = acked
        /\ job'[t].lasting = 0 /\ ~Saved(t)'
    BY <1>2, StartStep DEF IInv, FilesSame, GhostSame, Saved
  <2>2. 0 <= sequence
    BY NumbersAreNatural
  <2>3. QED  BY <2>1, <2>2, AnswersQuiet
<1>3. ASSUME NEW t \in Threads,
             \/ \E x \in Columns, y \in Rows, color \in Asked : DoSetPixel(t, x, y, color)
             \/ \E color \in Asked : DoReset(t, color)
      PROVE  Answers'
  <2>1. /\ Alone(t) /\ Working /\ live' = live /\ acked' = acked
        /\ sequence' = sequence + 1 /\ job'[t].lasting = sequence' /\ ~Saved(t)'
    BY <1>3, ChangeStep DEF IInv, FilesSame, GhostSame, Saved
  <2>2. acked <= sequence'
    BY <2>1, NumbersAreNatural DEF IInv, Answers, Working
  <2>3. \A u \in Threads : job'[u].pc # "idle" => job'[u].lasting <= sequence'
    <3>1. ASSUME NEW u \in Threads, u # t, job'[u].pc # "idle"
          PROVE  job'[u].lasting <= sequence'
      <4>1. job'[u] = job[u]
        BY <2>1, <3>1 DEF Alone
      <4>2. job[u].lasting <= sequence /\ job[u].lasting \in Nat
        BY <3>1, <4>1, NumbersAreNatural DEF IInv, Answers
      <4>3. QED  BY <2>1, <4>1, <4>2, NumbersAreNatural
    <3>2. sequence' <= sequence'
      BY <2>1, NumbersAreNatural
    <3>3. QED  BY <2>1, <3>1, <3>2
  <2>4. \A u \in Threads : Saved(u)' => Saved(u) /\ job'[u] = job[u]
    BY <2>1 DEF Saved, Alone
  <2>5. QED  BY <2>1, <2>2, <2>3, <2>4 DEF IInv, Answers, Whole
<1>4. ASSUME NEW t \in Threads, Stamp(t) PROVE Answers'
  <2>1. /\ Alone(t) /\ MapSame /\ Working /\ live' = live /\ acked' = acked
        /\ job'[t].lasting = sequence /\ ~Saved(t)'
    BY <1>4, StampStep DEF IInv, FilesSame, Saved
  <2>2. sequence <= sequence
    BY NumbersAreNatural
  <2>3. QED  BY <2>1, <2>2, AnswersQuiet
<1>5. ASSUME NEW t \in Threads, OpenSave(t) PROVE Answers'
  <2>1. /\ Alone(t) /\ MapSame /\ Working /\ acked' = acked
        /\ job[t].pc # "idle" /\ job'[t].pc = "write" /\ job'[t].lasting = job[t].lasting
    BY <1>5, OpenStep DEF IInv, Keeps
  <2>2. CASE WritesBackup(t)
    <3>1. live' = live
      BY <1>5, <2>2, OpenStep DEF IInv
    <3>2. ~Saved(t)' /\ job'[t].lasting <= sequence
      BY <2>1 DEF Saved, IInv, Answers
    <3>3. QED  BY <2>1, <3>1, <3>2, AnswersQuiet
  <2>3. CASE ~WritesBackup(t)
    <3>1. live' = [image |-> MapImage, written |-> {}]
      BY <1>5, <2>3, OpenStep DEF IInv
    <3>2. live'.image = MapImage
      BY <3>1
    <3>3. QED  BY <2>1, <3>2, AnswersWrite
  <2>4. QED  BY <2>2, <2>3
<1>6. ASSUME NEW t \in Threads, OpenFails(t) PROVE Answers'
  BY <1>6, FailStep, AnswersQuiet DEF IInv, FilesSame, Saved
<1>7. ASSUME NEW t \in Threads, NEW n \in 0 .. Size, Flush(t, n) PROVE Answers'
  <2>1. /\ Alone(t) /\ MapSame /\ Working /\ acked' = acked
        /\ job[t].pc # "idle" /\ job'[t].pc = "write" /\ job'[t].lasting = job[t].lasting
    BY <1>7, FlushStep DEF IInv, Keeps, GhostSame
  <2>2. CASE WritesBackup(t)
    <3>1. live' = live
      BY <1>7, <2>2, FlushStep DEF IInv
    <3>2. ~Saved(t)' /\ job'[t].lasting <= sequence
      BY <2>1 DEF Saved, IInv, Answers
    <3>3. QED  BY <2>1, <3>1, <3>2, AnswersQuiet
  <2>3. CASE ~WritesBackup(t)
    <3>1. live'.image = MapImage
      BY <1>7, <2>3, FlushStep DEF IInv
    <3>2. QED  BY <2>1, <3>1, AnswersWrite
  <2>4. QED  BY <2>2, <2>3
<1>8. ASSUME NEW t \in Threads, CloseSave(t) \/ CloseWithLoss(t) PROVE Answers'
  <2>1. /\ Alone(t) /\ MapSame /\ Working /\ live' = live /\ acked' = acked
        /\ job[t].pc = "write" /\ job'[t].lasting = job[t].lasting
        /\ job'[t].pc \in {"bmp", "meta"} <=> WritesBackup(t)
        /\ job'[t].pc \in {"bmp", "meta", "history", "audit"}
    BY <1>8, CloseStep DEF IInv, FilesSame, Keeps
  <2>2. job[t].lasting <= sequence
    BY <2>1 DEF IInv, Answers
  <2>3. CASE WritesBackup(t)
    <3>1. ~Saved(t)'
      BY <2>1, <2>3 DEF Saved
    <3>2. QED  BY <2>1, <2>2, <3>1, AnswersQuiet
  <2>4. CASE ~WritesBackup(t)
    <3>1. live.image = MapImage
      BY <2>1, <2>4 DEF IInv, Shapes, WritersFit, Target
    <3>2. job[t].lasting <= live.image.sequence
      BY <2>2, <3>1, NumbersAreNatural
    <3>3. QED  BY <2>1, <2>2, <3>2, AnswersQuiet
  <2>5. QED  BY <2>3, <2>4
<1>9. ASSUME NEW t \in Threads, SaveBmp(t) PROVE Answers'
  <2>1. /\ Alone(t) /\ MapSame /\ Working /\ live' = live /\ acked' = acked
        /\ job[t].pc = "bmp" /\ ~Saved(t)' /\ job'[t].lasting = job[t].lasting
    BY <1>9, BmpStep DEF IInv, FilesSame, GhostSame, Keeps, Saved
  <2>2. job[t].lasting <= sequence
    BY <2>1 DEF IInv, Answers
  <2>3. QED  BY <2>1, <2>2, AnswersQuiet
<1>10. ASSUME NEW t \in Threads, WriteMetadata(t) PROVE Answers'
  <2>1. /\ Alone(t) /\ MapSame /\ Working /\ live' = live /\ acked' = acked
        /\ job[t].pc = "meta" /\ ~Saved(t)'
        /\ job'[t].pc = "idle" \/ job'[t].lasting = job[t].lasting
    <3>1. Shapes
      BY DEF IInv
    <3>2. /\ Working /\ MapSame /\ acked' = acked /\ live' = live /\ Alone(t)
          /\ job[t].pc = "meta"
          /\ \/ job'[t].pc = "idle"
             \/ Keeps(t) /\ job'[t].pc \in {"reset", "parse"}
             \/ Keeps(t) /\ job'[t].pc = "audit" /\ job[t].kind = "create"
      BY <1>10, <3>1, MetaStep
    <3>3. ~Saved(t)'
      BY <3>2 DEF Saved, Keeps
    <3>4. job'[t].pc = "idle" \/ job'[t].lasting = job[t].lasting
      BY <3>2 DEF Keeps
    <3>5. QED  BY <3>2, <3>3, <3>4
  <2>2. job[t].lasting <= sequence
    BY <2>1 DEF IInv, Answers
  <2>3. QED  BY <2>1, <2>2, AnswersQuiet
<1>11. ASSUME NEW t \in Threads, LooksUp(t) PROVE Answers'
  <2>1. /\ Alone(t) /\ MapSame /\ Working /\ live' = live /\ acked' = acked
        /\ job[t].pc # "idle" /\ ~Saved(t)'
        /\ job'[t].pc = "idle" \/ job'[t].lasting = job[t].lasting
    BY <1>11, FindStep DEF IInv, FilesSame, GhostSame, Saved
  <2>2. job[t].lasting <= sequence
    BY <2>1 DEF IInv, Answers
  <2>3. QED  BY <2>1, <2>2, AnswersQuiet
<1>12. ASSUME NEW t \in Threads, DoInstall(t) PROVE Answers'
  <2>1. /\ Working /\ live' = live /\ sequence' \in Nat /\ acked' = AtMost(acked, sequence')
        /\ job'[t].lasting = sequence' /\ job'[t].pc = "open"
        /\ \A u \in Threads \ {t} :
              IF job[u].pc = "idle" THEN job'[u] = job[u] ELSE TakenBack(u)
    BY <1>12, InstallStep DEF IInv, FilesSame
  <2>2. \A number \in Nat : /\ AtMost(number, sequence') \in Nat
                            /\ AtMost(number, sequence') <= sequence'
                            /\ AtMost(number, sequence') <= number
    BY <2>1 DEF AtMost
  <2>3. acked' \in Nat /\ acked' <= sequence' /\ acked' <= acked
    BY <2>1, <2>2, NumbersAreNatural
  <2>4. ASSUME NEW u \in Threads, u # t, job'[u].pc # "idle"
        PROVE  /\ job[u].pc = job'[u].pc /\ job[u].kind = job'[u].kind
               /\ job[u].lasting \in Nat /\ job'[u].lasting \in Nat
               /\ job'[u].lasting <= sequence' /\ job'[u].lasting <= job[u].lasting
    BY <2>1, <2>2, <2>4, NumbersAreNatural DEF TakenBack
  <2>5. \A u \in Threads : job'[u].pc # "idle" => job'[u].lasting <= sequence'
    BY <2>1, <2>4
  <2>6. ASSUME NEW u \in Threads, Saved(u)', Whole(live)
        PROVE  job'[u].lasting <= live.image.sequence
    <3>1. u # t /\ job'[u].pc # "idle"
      BY <2>1, <2>6 DEF Saved
    <3>2. Saved(u)
      BY <2>4, <2>6, <3>1 DEF Saved
    <3>3. job[u].lasting <= live.image.sequence
      BY <2>6, <3>2 DEF IInv, Answers
    <3>4. QED  BY <2>4, <3>1, <3>3, NumbersAreNatural
  <2>7. Whole(live) => acked' <= live.image.sequence
    BY <2>3, NumbersAreNatural DEF IInv, Answers
  <2>8. QED  BY <2>1, <2>3, <2>5, <2>6, <2>7 DEF Answers, Whole
<1>13. ASSUME NEW t \in Threads, AppendHistory(t) \/ AppendAudit(t) PROVE Answers'
  <2>1. /\ Alone(t) /\ MapSame /\ Working /\ live' = live /\ acked' = acked
        /\ job[t].pc \in {"history", "audit"} /\ job'[t].pc = "reply"
        /\ job'[t].lasting = job[t].lasting /\ job'[t].kind = job[t].kind
    BY <1>13, AppendStep DEF IInv, FilesSame, GhostSame, Keeps
  <2>2. job[t].lasting <= sequence
    BY <2>1 DEF IInv, Answers
  <2>3. Saved(t)' => Saved(t)
    BY <2>1 DEF Saved
  <2>4. QED  BY <2>1, <2>2, <2>3, AnswersQuiet DEF IInv, Answers
<1>14. ASSUME NEW t \in Threads, Reply(t) PROVE Answers'
  <2>1. /\ Alone(t) /\ MapSame /\ Working /\ live' = live
        /\ job[t].pc = "reply" /\ job'[t].pc = "idle"
        /\ \/ acked' = acked
           \/ acked' = job[t].lasting /\ job[t].kind # "create"
    BY <1>14, ReplyStep DEF IInv, FilesSame
  <2>2. acked' \in Nat /\ acked' <= sequence
    BY <2>1, NumbersAreNatural DEF IInv, Answers, Working
  <2>3. Whole(live) => acked' <= live.image.sequence
    <3>1. job[t].kind # "create" => Saved(t)
      BY <2>1 DEF Saved
    <3>2. QED  BY <2>1, <3>1 DEF IInv, Answers
  <2>4. \A u \in Threads : job'[u].pc # "idle" => u # t /\ job'[u] = job[u]
    BY <2>1 DEF Alone
  <2>5. \A u \in Threads : job'[u].pc # "idle" => job'[u].lasting <= sequence
    BY <2>4 DEF IInv, Answers
  <2>6. \A u \in Threads : Saved(u)' => Saved(u) /\ job'[u] = job[u]
    BY <2>4 DEF Saved
  <2>7. QED  BY <2>1, <2>2, <2>3, <2>5, <2>6 DEF IInv, Answers, MapSame, Whole
<1>15. CASE Crash
  <2>1. /\ ~up' /\ live' = live /\ acked' = acked /\ \A t \in Threads : job'[t].pc = "idle"
    BY <1>15, CrashStep DEF IInv, FilesSame, GhostSame
  <2>2. QED  BY <2>1 DEF IInv, Answers, Saved, Whole
<1>16. CASE Boot
  <2>1. /\ \A t \in Threads : job'[t].pc = "idle"
        /\ acked' = (IF Whole(live) THEN acked ELSE 0)
        /\ MapImage' = live'.image
        /\ Whole(live) => live' = live
    BY <1>16, BootStep DEF IInv
  <2>2. MapImage'.sequence = sequence'
    BY DEF MapImage
  <2>3. MapTypeOK'
    BY ShapesStep DEF IInv, Shapes
  <2>4. acked' \in Nat /\ acked' <= sequence'
    BY <2>1, <2>2, <2>3, NumbersAreNatural DEF IInv, Answers, MapTypeOK
  <2>5. QED  BY <2>1, <2>2, <2>4 DEF Answers, Saved
<1>17. CASE DieStarting
  <2>1. /\ ~up' /\ ~Whole(live') /\ MapSame /\ acked' = acked
        /\ \A t \in Threads : job'[t].pc = "idle"
    BY <1>17, DieStep DEF IInv, GhostSame
  <2>2. QED  BY <2>1 DEF IInv, Answers, Saved, Whole
<1>18. QED
  BY <1>1, <1>2, <1>3, <1>4, <1>5, <1>6, <1>7, <1>8, <1>9, <1>10, <1>11, <1>12, <1>13,
     <1>14, <1>15, <1>16, <1>17 DEF Next, LooksUp

(* Every step of the system leads from the invariant to the invariant.     *)
LEMMA NextKeepsIInv == IInv /\ [Next]_vars => IInv'
BY ShapesStep, DownStep, NamesStep, LiveStep, BackupsStep, ListedStep, RealStep,
   ProtectionStep, AnswersStep DEF IInv

(* The invariant holds at every step, whatever the threads do.             *)
THEOREM Invariance == Spec => []IInv
BY NextKeepsIInv, InitIInv, PTL DEF Spec

----------------------------------------------------------------------------
(* What the runs check. *)

(* Maps, files, jobs and logs have their shapes, whatever handlers, crashes*)
(* and faults come together: every file holds what a save of some map      *)
(* writes, or a part of it, and a log never has more than maxEntries_      *)
(* entries.                                                                *)
THEOREM Types == Spec => []TypeOK
<1>1. IInv => TypeOK
  BY ShapesGiveTypes DEF IInv
<1>2. QED  BY <1>1, Invariance, PTL

(* The map in memory is one that some write made: no start takes a torn    *)
(* map.pwm, nor one that several threads wrote at once, for a map, and no  *)
(* rollback what it read of a backup, piece by piece, while the others     *)
(* wrote, as long as no two backups were given one name.                   *)
THEOREM MemoryReal == Spec => []MemoryIsReal
<1>1. IInv => MemoryIsReal
  BY DEF IInv, RealMaps, RealFiles, MemoryIsReal
<1>2. QED  BY <1>1, Invariance, PTL

(* Once nobody owes a save, map.pwm is whole and is the map in memory.     *)
LEMMA SavedIsCurrent ==
    ASSUME IInv, up, <<>> \notin spoiled, \A t \in Threads : ~OwesSave(t)
    PROVE  Whole(live) /\ live.image = MapImage
BY DEF IInv, LiveSaved, AboutToSave, Restoring, SavesLive

(* However many writers of map.pwm overlap and truncate each other's file, *)
(* the last to close leaves the current map there.                         *)
THEOREM LiveFileIsCurrent == Spec => []LiveFileCurrent
<1>1. IInv => LiveFileCurrent
  BY SavedIsCurrent DEF LiveFileCurrent
<1>2. QED  BY <1>1, Invariance, PTL

(* Every listed backup has its map file, a whole one of a map that was.    *)
THEOREM ListedAreWhole == Spec => []ListedBackupIsWhole
<1>1. IInv => ListedBackupIsWhole
  BY DEF IInv
<1>2. QED  BY <1>1, Invariance, PTL

(* A reset or a rollback that is about to change the map has a whole and   *)
(* listed backup of it.                                                    *)
THEOREM BackupIsSafe == Spec => []SafetyBackup
<1>1. ASSUME IInv PROVE SafetyBackup
  <2> SUFFICES ASSUME NEW t \in Threads, job[t].pc \in {"reset", "parse", "read", "install"},
                      job[t].id \notin spoiled, ~twins
               PROVE  /\ job[t].id \in DOMAIN meta
                      /\ Whole(pwm[job[t].id])
                      /\ pwm[job[t].id].image.sequence >= job[t].lasting
    BY DEF SafetyBackup
  <2>1. Protected(t)
    BY DEF Protected
  <2>2. /\ job[t].id \in DOMAIN meta
        /\ job[t].lasting <= pwm[job[t].id].image.sequence
    BY <1>1, <2>1 DEF IInv, Protection
  <2>3. Whole(pwm[job[t].id])
    BY <1>1, <2>2 DEF IInv, ListedBackupIsWhole
  <2>4. QED  BY <2>2, <2>3
<1>2. QED  BY <1>1, Invariance, PTL

(* Only a start brings the process up. *)
LEMMA OnlyBootStarts ==
    ASSUME IInv, [Next]_vars, ~up, up' PROVE Boot
<1>1. CASE UNCHANGED vars
  BY <1>1 DEF vars
<1>2. ASSUME Working PROVE FALSE
  BY <1>2 DEF Working
<1>3. Crash \/ DieStarting => FALSE
  BY DieStep DEF Crash, IInv
<1>4. QED
  BY <1>1, <1>2, <1>3, StartStep, ChangeStep, StampStep, OpenStep, FailStep, FlushStep,
     CloseStep, BmpStep, MetaStep, FindStep, InstallStep, AppendStep, ReplyStep
  DEF Next, LooksUp, IInv

(* A restart from a whole map.pwm has its map, and with it all that was    *)
(* answered with success since a start last found no map.                  *)
THEOREM RestartKeeps == Spec => RestartKeepsAcked
<1>1. ASSUME IInv, [Next]_vars
      PROVE  [~up /\ up' /\ Whole(live)
                 => MapImage' = live.image /\ acked <= sequence']_vars
  <2> SUFFICES ASSUME ~up, up', Whole(live)
               PROVE  MapImage' = live.image /\ acked <= sequence'
    OBVIOUS
  <2>1. MapImage' = live.image
    BY <1>1, OnlyBootStarts, BootStep DEF IInv
  <2>2. MapImage'.sequence = sequence'
    BY DEF MapImage
  <2>3. acked <= live.image.sequence
    BY <1>1 DEF IInv, Answers
  <2>4. QED  BY <2>1, <2>2, <2>3
<1>2. QED  BY <1>1, Invariance, PTL DEF Spec, RestartKeepsAcked

(* A listed backup is never touched again. *)
THEOREM ListedStays == Spec => ListedBackupKept
<1>1. ASSUME IInv, [Next]_vars
      PROVE  [~twins => \A id \in DOMAIN meta : pwm'[id] = pwm[id]]_vars
  BY <1>1, ListedUntouched
<1>2. QED  BY <1>1, Invariance, PTL DEF Spec, ListedBackupKept

(* Only its own install takes a rollback from the waiting for the lock to  *)
(* the save.                                                               *)
LEMMA OnlyInstalls ==
    ASSUME IInv, [Next]_vars, NEW t \in Threads, job[t].pc = "install", job'[t].pc = "open"
    PROVE  DoInstall(t)
<1>1. CASE UNCHANGED vars
  BY <1>1 DEF vars
<1>2. ASSUME NEW u \in Threads, Alone(u), job[u].pc # "install" PROVE FALSE
  BY <1>2 DEF Alone
<1>3. ASSUME NEW u \in Threads, DoInstall(u) PROVE u = t
  <2> SUFFICES ASSUME u # t PROVE FALSE
    OBVIOUS
  <2>1. TakenBack(t)
    BY <1>3, InstallStep DEF IInv
  <2>2. QED  BY <2>1 DEF TakenBack
<1>4. CASE Crash \/ Boot \/ DieStarting
  BY <1>4, CrashStep, BootStep, DieStep DEF IInv
<1>5. ASSUME NEW u \in Threads,
             \/ \E kind \in Kinds : Start(u, kind)
             \/ \E x \in Columns, y \in Rows, color \in Asked : DoSetPixel(u, x, y, color)
             \/ \E color \in Asked : DoReset(u, color)
             \/ Stamp(u) \/ LooksUp(u)
      PROVE  FALSE
  BY <1>2, <1>5, StartStep, ChangeStep, StampStep, FindStep DEF IInv
<1>6. ASSUME NEW u \in Threads,
             \/ OpenSave(u) \/ OpenFails(u) \/ \E n \in 0 .. Size : Flush(u, n)
             \/ CloseSave(u) \/ CloseWithLoss(u)
      PROVE  FALSE
  BY <1>2, <1>6, OpenStep, FailStep, FlushStep, CloseStep DEF IInv
<1>7. ASSUME NEW u \in Threads,
             SaveBmp(u) \/ WriteMetadata(u) \/ AppendHistory(u) \/ AppendAudit(u) \/ Reply(u)
      PROVE  FALSE
  BY <1>2, <1>7, BmpStep, MetaStep, AppendStep, ReplyStep DEF IInv
<1>8. QED  BY <1>1, <1>3, <1>4, <1>5, <1>6, <1>7 DEF Next, LooksUp

(* A rollback installs the very map of the backup that it found, and that  *)
(* backup is whole, whatever the other handlers do between.                *)
THEOREM RollbackIsExact == Spec => RollbackRestores
<1>1. ASSUME IInv, [Next]_vars
      PROVE  [\A t \in Threads :
                 job[t].pc = "install" /\ job'[t].pc = "open" /\ ~twins
                 => /\ Whole(pwm[job[t].loaded])
                    /\ MapImage' = pwm[job[t].loaded].image]_vars
  <2> SUFFICES ASSUME NEW t \in Threads, job[t].pc = "install", job'[t].pc = "open", ~twins
               PROVE  Whole(pwm[job[t].loaded]) /\ MapImage' = pwm[job[t].loaded].image
    OBVIOUS
  <2>1. MapImage' = LoadedImage(job[t].read)
    BY <1>1, OnlyInstalls, InstallStep DEF IInv
  <2>2. QED  BY <1>1, <2>1, ReadIsReal
<1>2. QED  BY <1>1, Invariance, PTL DEF Spec, RollbackRestores

----------------------------------------------------------------------------
(* The map and its file as DurableMap sees them. *)

Disk   == IF Whole(live) THEN live.image ELSE NoImage
Owing  == {t \in Threads : OwesSave(t)}
Savers == {t \in Threads : SavesLive(t)}
Broken == <<>> \in spoiled

(* No map is NoImage, and a file that is being written has a token.        *)
LEMMA NoImageIsNone ==
    ASSUME NEW image \in Images
    PROVE  image # NoImage /\ Tokens(image) # {}
<1>1. NoImage.sequence = -1
  BY DEF NoImage, BlankImage
<1>2. image.sequence \in Nat
  BY DEF Images
<1>3. 0 \in Tokens(image)
  BY TokensOfImage
<1>4. QED  BY <1>1, <1>2, <1>3

(* The step of a thread says nothing of what others owe. *)
LEMMA OthersOwe ==
    ASSUME NEW t \in Threads,
           \A u \in Threads \ {t} : job'[u].pc = job[u].pc /\ job'[u].target = job[u].target
    PROVE  Owing' \ {t} = Owing \ {t} /\ Savers' \ {t} = Savers \ {t}
<1>1. \A u \in Threads \ {t} : /\ OwesSave(u)' <=> OwesSave(u)
                               /\ SavesLive(u)' <=> SavesLive(u)
  BY DEF OwesSave, SavesLive, WritesBackup
<1>2. QED  BY <1>1 DEF Owing, Savers

(* A step of the server that DurableMap does not see. *)
LEMMA DurableQuiet ==
    ASSUME NEW t \in Threads, Alone(t), MapSame, Working, live' = live,
           <<>> \in spoiled' <=> <<>> \in spoiled, ~OwesSave(t), ~OwesSave(t)'
    PROVE  UNCHANGED Durable!vars
<1>1. Owing' \ {t} = Owing \ {t} /\ Savers' \ {t} = Savers \ {t}
  BY OthersOwe DEF Alone
<1>2. t \notin Owing /\ t \notin Owing' /\ t \notin Savers /\ t \notin Savers'
  BY DEF Owing, Savers, SavesLive
<1>3. Owing' = Owing /\ Savers' = Savers
  <2>1. \A S : t \notin S => S \ {t} = S
    OBVIOUS
  <2>2. QED  BY <1>1, <1>2, <2>1
<1>4. Disk' = Disk
  BY DEF Disk, Whole
<1>5. Broken' = Broken /\ MapImage' = MapImage /\ up' = up
  BY DEF Broken, MapSame, Working
<1>6. QED  BY <1>3, <1>4, <1>5 DEF Durable!vars, Owing, Savers, Disk, Broken

(* A step that changes the map, when nobody writes. *)
LEMMA DurableChange ==
    ASSUME IInv, IInv', NEW t \in Threads, NoReaders, Working, live' = live,
           spoiled' = spoiled, job[t].pc \notin {"open", "write"},
           job'[t].pc = "open", job'[t].target = "live",
           \A u \in Threads \ {t} : job'[u].pc = job[u].pc /\ job'[u].target = job[u].target
    PROVE  Durable!Next
<1>1. Owing' \ {t} = Owing \ {t} /\ Savers' \ {t} = Savers \ {t}
  BY OthersOwe
<1>2. /\ t \notin Owing /\ t \in Owing' /\ t \notin Savers'
      /\ Savers = {}
  BY DEF Owing, Savers, SavesLive, OwesSave, WritesBackup, NoReaders, Saving
<1>3. Owing' = Owing \cup {t} /\ Savers' = Savers
  BY <1>1, <1>2
<1>4. Disk' = Disk /\ Broken' = Broken /\ up' = up /\ up
  BY DEF Disk, Whole, Broken, Working
<1>5. MapImage' \in Images
  BY DEF IInv, Shapes, MapTypeOK, MapImage, Images
<1>6. Durable!Change(t)
  BY <1>2, <1>3, <1>4, <1>5 DEF Durable!Change, Owing, Savers, Disk, Broken
<1>7. QED  BY <1>6, <1>2 DEF Durable!Next, Owing, Savers

(* A truncated map.pwm: a save begins. *)
LEMMA DurableOpen ==
    ASSUME IInv, NEW t \in Threads, OpenSave(t), ~WritesBackup(t)
    PROVE  Durable!Next
<1>1. /\ Working /\ MapSame /\ Alone(t) /\ spoiled' = spoiled \ {Aim(t)}
      /\ job[t].pc = "open" /\ job'[t].pc = "write" /\ job'[t].target = job[t].target
      /\ live' = [image |-> MapImage, written |-> {}]
  BY OpenStep DEF IInv
<1>2. Owing' \ {t} = Owing \ {t} /\ Savers' \ {t} = Savers \ {t}
  BY <1>1, OthersOwe DEF Alone
<1>3. t \in Owing /\ t \in Owing' /\ t \notin Savers /\ t \in Savers'
  BY <1>1 DEF Owing, Savers, SavesLive, OwesSave, WritesBackup
<1>4. Owing' = Owing /\ Savers' = Savers \cup {t}
  BY <1>2, <1>3
<1>5. Disk' = NoImage
  <2>1. live'.image = MapImage /\ live'.written = {}
    BY <1>1
  <2>2. Tokens(MapImage) # {}
    BY MapImageIsImage, NoImageIsNone DEF IInv, Shapes
  <2>3. ~Whole(live)'
    BY <2>1, <2>2 DEF Whole
  <2>4. QED  BY <2>3 DEF Disk
<1>6. Broken' = FALSE
  BY <1>1, WriterJobs DEF Broken, IInv, Shapes
<1>7. Durable!BeginSave(t)
  BY <1>1, <1>3, <1>4, <1>5, <1>6
  DEF Durable!BeginSave, Owing, Savers, Disk, Broken, Working, MapSame
<1>8. QED  BY <1>7, <1>3 DEF Durable!Next, Owing, Savers

(* A map.pwm that does not open: a save fails. *)
LEMMA DurableFails ==
    ASSUME IInv, NEW t \in Threads, OpenFails(t), ~WritesBackup(t)
    PROVE  Durable!Next
<1>1. /\ Working /\ MapSame /\ Alone(t) /\ spoiled' = spoiled \cup {<<>>} /\ live' = live
      /\ job[t].pc = "open" /\ job'[t].pc = "idle"
  BY FailStep DEF IInv, FilesSame
<1>2. Owing' \ {t} = Owing \ {t} /\ Savers' \ {t} = Savers \ {t}
  BY <1>1, OthersOwe DEF Alone
<1>3. t \in Owing /\ t \notin Owing' /\ t \notin Savers /\ t \notin Savers'
  BY <1>1 DEF Owing, Savers, SavesLive, OwesSave
<1>4. Owing' = Owing \ {t} /\ Savers' = Savers
  BY <1>2, <1>3
<1>5. Disk' = Disk /\ Broken' = TRUE
  BY <1>1 DEF Disk, Whole, Broken
<1>6. Durable!SaveFails(t)
  BY <1>1, <1>3, <1>4, <1>5
  DEF Durable!SaveFails, Owing, Savers, Disk, Broken, Working, MapSame
<1>7. QED  BY <1>6, <1>3 DEF Durable!Next, Owing, Savers

(* A flush to map.pwm: all of it is there now, or not yet. *)
LEMMA DurableWrite ==
    ASSUME IInv, IInv', NEW t \in Threads, NEW n \in 0 .. Size, Flush(t, n), ~WritesBackup(t)
    PROVE  Durable!Next
<1>1. /\ Working /\ MapSame /\ Alone(t) /\ spoiled' = spoiled
      /\ job[t].pc = "write" /\ job'[t].pc = "write" /\ job'[t].target = job[t].target
      /\ live.image = MapImage /\ live'.image = MapImage /\ live.written \subseteq live'.written
  BY FlushStep DEF IInv, GhostSame
<1>2. Owing' \ {t} = Owing \ {t} /\ Savers' \ {t} = Savers \ {t}
  BY <1>1, OthersOwe DEF Alone
<1>3. t \in Owing /\ t \in Owing' /\ t \in Savers /\ t \in Savers'
  BY <1>1 DEF Owing, Savers, SavesLive, OwesSave, WritesBackup
<1>4. Owing' = Owing /\ Savers' = Savers /\ Savers # {}
  BY <1>2, <1>3
<1>5. Whole(live) => Whole(live)'
  <2>1. live'.written \subseteq Tokens(live'.image)
    BY DEF IInv, Shapes, FilesFit, IsFile
  <2>2. QED  BY <1>1, <2>1 DEF Whole
<1>6. Disk' \in {MapImage, Disk}
  BY <1>1, <1>5 DEF Disk
<1>7. Broken' = Broken
  BY <1>1 DEF Broken
<1>8. Durable!Write
  BY <1>1, <1>4, <1>6, <1>7 DEF Durable!Write, Owing, Savers, Disk, Broken, Working, MapSame
<1>9. QED  BY <1>8 DEF Durable!Next

(* A closed map.pwm: the save is over, and if no other is owed the file    *)
(* is the map.                                                             *)
LEMMA DurableClose ==
    ASSUME IInv, IInv', NEW t \in Threads, CloseSave(t) \/ CloseWithLoss(t), ~WritesBackup(t)
    PROVE  Durable!Next
<1>1. /\ Working /\ MapSame /\ Alone(t) /\ live' = live
      /\ spoiled' = spoiled \/ spoiled' = spoiled \cup {Aim(t)}
      /\ job[t].pc = "write" /\ job'[t].pc \notin {"open", "write"}
  BY CloseStep DEF IInv, FilesSame
<1>2. Owing' \ {t} = Owing \ {t} /\ Savers' \ {t} = Savers \ {t}
  BY <1>1, OthersOwe DEF Alone
<1>3. t \in Owing /\ t \notin Owing' /\ t \in Savers /\ t \notin Savers'
  BY <1>1 DEF Owing, Savers, SavesLive, OwesSave
<1>4. Owing' = Owing \ {t} /\ Savers' = Savers \ {t}
  BY <1>2, <1>3
<1>5. Disk' = Disk /\ up' = up /\ up /\ MapImage' = MapImage
  BY <1>1 DEF Disk, Whole, Working, MapSame
<1>6. Aim(t) = <<>>
  BY <1>1, WriterJobs DEF IInv, Shapes
<1>7. Broken' \in {Broken, TRUE}
  BY <1>1, <1>6 DEF Broken
<1>8. Owing' # {} \/ Broken' \/ Disk' = MapImage'
  <2> SUFFICES ASSUME Owing' = {}, ~Broken' PROVE Disk' = MapImage'
    OBVIOUS
  <2>1. up' /\ <<>> \notin spoiled' /\ \A u \in Threads : ~OwesSave(u)'
    BY <1>1 DEF Owing, Broken, Working
  <2>2. Whole(live)' /\ live'.image = MapImage'
    BY <2>1 DEF IInv, LiveSaved, AboutToSave, Restoring, SavesLive
  <2>3. QED  BY <2>2 DEF Disk
<1>9. Durable!EndSave(t)
  BY <1>3, <1>4, <1>5, <1>7, <1>8
  DEF Durable!EndSave, Durable!Settled, Durable!Agree, Owing, Savers, Disk, Broken
<1>10. QED  BY <1>9, <1>3 DEF Durable!Next, Owing, Savers

(* A crash forgets what was owed. *)
LEMMA DurableCrash == ASSUME IInv, Crash PROVE Durable!Next
<1>1. /\ ~up' /\ up' \in BOOLEAN /\ MapSame /\ live' = live /\ spoiled' = spoiled
      /\ \A t \in Threads : job'[t].pc = "idle"
  BY CrashStep DEF IInv, FilesSame, GhostSame, Crash
<1>2. Owing' = {} /\ Savers' = {}
  BY <1>1 DEF Owing, Savers, SavesLive, OwesSave
<1>3. Disk' = Disk /\ Broken' = Broken
  BY <1>1 DEF Disk, Whole, Broken
<1>4. up' = FALSE
  BY DEF Crash
<1>5. Durable!Crash
  BY <1>1, <1>2, <1>3, <1>4 DEF Durable!Crash, Owing, Savers, Disk, Broken, MapSame
<1>6. QED  BY <1>5 DEF Durable!Next

(* A start takes the map of the file, or a blank one. *)
LEMMA DurableStart == ASSUME IInv, Boot PROVE Durable!Next
<1>1. /\ ~up /\ up' = TRUE /\ job' = job
      /\ Whole(live) => live' = live
      /\ ~Whole(live) => MapImage' = BlankImage
      /\ MapImage' = live'.image
      /\ Whole(live') <=> <<>> \notin spoiled'
  BY BootStep DEF IInv, Boot
<1>2. Owing' = Owing /\ Savers' = Savers
  BY <1>1 DEF Owing, Savers, SavesLive, OwesSave, WritesBackup
<1>3. live.image \in Images
  BY DEF IInv, Shapes, FilesFit, IsFile
<1>4. MapImage' = (IF Disk = NoImage THEN BlankImage ELSE Disk)
  BY <1>1, <1>3, NoImageIsNone DEF Disk
<1>5. Whole(live') => Disk' = MapImage' /\ Broken' = FALSE
  BY <1>1 DEF Disk, Broken, Whole
<1>6. ~Whole(live') => Disk = NoImage /\ Disk' = NoImage /\ Broken' = TRUE
  <2> SUFFICES ASSUME ~Whole(live') PROVE Disk = NoImage /\ Disk' = NoImage /\ Broken' = TRUE
    OBVIOUS
  <2>1. ~Whole(live) /\ ~Whole(live)'
    BY <1>1 DEF Whole
  <2>2. QED  BY <1>1, <2>1 DEF Disk, Broken
<1>7. Durable!Start
  BY <1>1, <1>2, <1>4, <1>5, <1>6 DEF Durable!Start, Owing, Savers, Disk, Broken
<1>8. QED  BY <1>7 DEF Durable!Next

(* A start that does not come to its end leaves map.pwm as torn as it was. *)
LEMMA DurableDies == ASSUME IInv, DieStarting PROVE UNCHANGED Durable!vars
<1>1. /\ MapSame /\ up' = up /\ spoiled' = spoiled /\ job' = job
      /\ ~Whole(live) /\ ~Whole(live)'
  <2>1. ~Whole(live') /\ MapSame /\ GhostSame /\ job' = job /\ ~Whole(live)
    BY DieStep DEF IInv
  <2>2. up' = up
    BY DEF DieStarting
  <2>3. QED  BY <2>1, <2>2 DEF GhostSame, Whole
<1>2. Owing' = Owing /\ Savers' = Savers
  BY <1>1 DEF Owing, Savers, SavesLive, OwesSave, WritesBackup
<1>3. Disk' = Disk /\ Broken' = Broken
  BY <1>1 DEF Disk, Broken
<1>4. QED  BY <1>1, <1>2, <1>3 DEF Durable!vars, Owing, Savers, Disk, Broken, MapSame

(* Every step of the server is one of DurableMap, or one it does not see.  *)
LEMMA DurableStep == ASSUME IInv, IInv', [Next]_vars PROVE [Durable!Next]_(Durable!vars)
<1>1. CASE UNCHANGED vars
  <2>1. job' = job /\ live' = live /\ spoiled' = spoiled /\ up' = up /\ MapImage' = MapImage
    BY <1>1 DEF vars, files, ghosts, mapVars, MapImage
  <2>2. UNCHANGED Durable!vars
    BY <2>1 DEF Durable!vars, Whole, OwesSave, SavesLive, WritesBackup
  <2>3. QED  BY <2>2
<1>2. ASSUME NEW t \in Threads, NEW kind \in Kinds, Start(t, kind) PROVE UNCHANGED Durable!vars
  BY <1>2, StartStep, DurableQuiet DEF IInv, FilesSame, GhostSame, OwesSave
<1>3. ASSUME NEW t \in Threads,
             \/ \E x \in Columns, y \in Rows, color \in Asked : DoSetPixel(t, x, y, color)
             \/ \E color \in Asked : DoReset(t, color)
      PROVE  Durable!Next
  BY <1>3, ChangeStep, DurableChange DEF IInv, FilesSame, GhostSame, Alone
<1>4. ASSUME NEW t \in Threads, Stamp(t) PROVE UNCHANGED Durable!vars
  BY <1>4, StampStep, DurableQuiet DEF IInv, FilesSame, OwesSave, WritesBackup
<1>5. ASSUME NEW t \in Threads, OpenSave(t)
      PROVE  UNCHANGED Durable!vars \/ Durable!Next
  <2>1. CASE WritesBackup(t)
    <3>1. /\ Alone(t) /\ MapSame /\ Working /\ live' = live /\ spoiled' = spoiled \ {Aim(t)}
          /\ job[t].pc = "open" /\ job'[t].target = job[t].target
      BY <1>5, <2>1, OpenStep DEF IInv
    <3>2. Aim(t) # <<>>
      BY <2>1, <3>1, WriterJobs DEF IInv, Shapes
    <3>3. ~OwesSave(t) /\ ~OwesSave(t)'
      BY <2>1, <3>1 DEF OwesSave, WritesBackup
    <3>4. QED  BY <3>1, <3>2, <3>3, DurableQuiet
  <2>2. QED  BY <1>5, <2>1, DurableOpen
<1>6. ASSUME NEW t \in Threads, OpenFails(t)
      PROVE  UNCHANGED Durable!vars \/ Durable!Next
  <2>1. CASE WritesBackup(t)
    <3>1. /\ Alone(t) /\ MapSame /\ Working /\ live' = live /\ Aim(t) # <<>>
          /\ spoiled' = spoiled \cup {Aim(t)} /\ job'[t].pc = "idle"
      BY <1>6, <2>1, FailStep DEF IInv, FilesSame
    <3>2. ~OwesSave(t) /\ ~OwesSave(t)'
      BY <2>1, <3>1 DEF OwesSave
    <3>3. QED  BY <3>1, <3>2, DurableQuiet
  <2>2. QED  BY <1>6, <2>1, DurableFails
<1>7. ASSUME NEW t \in Threads, NEW n \in 0 .. Size, Flush(t, n)
      PROVE  UNCHANGED Durable!vars \/ Durable!Next
  <2>1. CASE WritesBackup(t)
    <3>1. /\ Alone(t) /\ MapSame /\ Working /\ live' = live /\ spoiled' = spoiled
          /\ job'[t].target = job[t].target
      BY <1>7, <2>1, FlushStep DEF IInv, GhostSame
    <3>2. ~OwesSave(t) /\ ~OwesSave(t)'
      BY <2>1, <3>1 DEF OwesSave, WritesBackup
    <3>3. QED  BY <3>1, <3>2, DurableQuiet
  <2>2. QED  BY <1>7, <2>1, DurableWrite
<1>8. ASSUME NEW t \in Threads, CloseSave(t) \/ CloseWithLoss(t)
      PROVE  UNCHANGED Durable!vars \/ Durable!Next
  <2>1. CASE WritesBackup(t)
    <3>1. /\ Alone(t) /\ MapSame /\ Working /\ live' = live
          /\ spoiled' = spoiled \/ spoiled' = spoiled \cup {Aim(t)}
          /\ job[t].pc = "write" /\ job'[t].target = job[t].target
      BY <1>8, <2>1, CloseStep DEF IInv, FilesSame
    <3>2. Aim(t) # <<>>
      BY <2>1, <3>1, WriterJobs DEF IInv, Shapes
    <3>3. ~OwesSave(t) /\ ~OwesSave(t)'
      BY <2>1, <3>1 DEF OwesSave, WritesBackup
    <3>4. QED  BY <3>1, <3>2, <3>3, DurableQuiet
  <2>2. QED  BY <1>8, <2>1, DurableClose
<1>9. ASSUME NEW t \in Threads, SaveBmp(t) PROVE UNCHANGED Durable!vars
  BY <1>9, BmpStep, DurableQuiet DEF IInv, FilesSame, GhostSame, OwesSave
<1>10. ASSUME NEW t \in Threads, WriteMetadata(t) PROVE UNCHANGED Durable!vars
  <2>1. /\ Alone(t) /\ MapSame /\ Working /\ live' = live
        /\ <<>> \in spoiled' <=> <<>> \in spoiled
        /\ job[t].pc = "meta" /\ job'[t].pc \notin {"open", "write"}
    BY <1>10, MetaStep DEF IInv
  <2>2. QED  BY <2>1, DurableQuiet DEF OwesSave
<1>11. ASSUME NEW t \in Threads, LooksUp(t) PROVE UNCHANGED Durable!vars
  BY <1>11, FindStep, DurableQuiet DEF IInv, FilesSame, GhostSame, OwesSave
<1>12. ASSUME NEW t \in Threads, DoInstall(t) PROVE Durable!Next
  <2>1. /\ NoReaders /\ Working /\ live' = live /\ spoiled' = spoiled
        /\ job[t].pc = "install" /\ job'[t].pc = "open" /\ job'[t].target = "live"
        /\ \A u \in Threads \ {t} : job'[u].pc = job[u].pc /\ job'[u].target = job[u].target
    BY <1>12, InstallStep DEF IInv, FilesSame, TakenBack
  <2>2. QED  BY <2>1, DurableChange
<1>13. ASSUME NEW t \in Threads, AppendHistory(t) \/ AppendAudit(t) PROVE UNCHANGED Durable!vars
  BY <1>13, AppendStep, DurableQuiet DEF IInv, FilesSame, GhostSame, OwesSave
<1>14. ASSUME NEW t \in Threads, Reply(t) PROVE UNCHANGED Durable!vars
  BY <1>14, ReplyStep, DurableQuiet DEF IInv, FilesSame, OwesSave
<1>15. QED
  BY <1>1, <1>2, <1>3, <1>4, <1>5, <1>6, <1>7, <1>8, <1>9, <1>10, <1>11, <1>12, <1>13,
     <1>14, DurableCrash, DurableStart, DurableDies DEF Next, LooksUp

(* The server starts as DurableMap does. *)
LEMMA DurableInit == Init => Durable!Init
<1> SUFFICES ASSUME Init PROVE Durable!Init
  OBVIOUS
<1>1. MapImage = BlankImage /\ Whole(live) /\ live.image = BlankImage
  BY DEF Init, Whole, MapInit, MapImage, BlankImage
<1>2. Owing = {} /\ Savers = {}
  BY DEF Init, IdleJob, Owing, Savers, SavesLive, OwesSave
<1>3. Disk = BlankImage /\ Broken = FALSE /\ up = TRUE
  BY <1>1 DEF Disk, Broken, Init
<1>4. QED
  BY <1>1, <1>2, <1>3 DEF Durable!Init, Durable!Agree, Owing, Savers, Disk, Broken

(* The handlers, their overlapping saves, the crashes and the start do what*)
(* DurableMap promises of a map and its file.                              *)
THEOREM Durability == Spec => ImplementsDurableMap
<1>1. QED
  BY DurableInit, DurableStep, NextKeepsIInv, Invariance, PTL
  DEF Spec, ImplementsDurableMap, Durable!Spec

----------------------------------------------------------------------------
(* What the logs show.  Two witnesses carry the argument: one from the     *)
(* entries of a log to the appends that they are of, one from the pieces   *)
(* of its file to the appends that left them.  Both climb, so that a log   *)
(* of at most maxEntries_ entries that drops its oldest ones drops none of *)
(* the last maxEntries_ appends.                                           *)

(* What an append was of, and what became of its line. *)
Appends == [what : Nat, fate : {"whole", "missed", "cut"}]

(* The line of the append was written behind one that was cut. *)
GluedIn(appended, i) ==
    \E j \in 1 .. (i - 1) :
        /\ appended[j].fate = "cut"
        /\ \A k \in (j + 1) .. (i - 1) : appended[k].fate = "missed"

UnharmedIn(appended, i) == appended[i].fate = "whole" /\ ~GluedIn(appended, i)

(* The entry of a line that is read as it was written. *)
Exactly(what) == [what |-> what, exact |-> TRUE]

(* A witness keeps the order. *)
Climbs(q) == \A m, n \in DOMAIN q : m < n => q[m] < q[n]

(* Entry n of the log is of append q[n]; the last appends are all shown.   *)
Shows(q, log, appended) ==
    /\ q \in [DOMAIN log -> DOMAIN appended] /\ Climbs(q)
    /\ \A n \in DOMAIN log :
          /\ log[n].what = appended[q[n]].what
          /\ UnharmedIn(appended, q[n]) => log[n] = Exactly(appended[q[n]].what)
    /\ \A i \in DOMAIN appended :
          i > Len(appended) - MaxEntries /\ UnharmedIn(appended, i)
             => \E n \in DOMAIN log : q[n] = i

(* Piece k of the file is what append p[k] left; only those that found the *)
(* file closed left nothing.                                               *)
Holds(p, file, appended) ==
    /\ p \in [DOMAIN file -> DOMAIN appended] /\ Climbs(p)
    /\ \A k \in DOMAIN file :
          /\ file[k].what = appended[p[k]].what
          /\ appended[p[k]].fate # "missed"
          /\ appended[p[k]].fate = "whole"
                => file[k].tabs = LogFields - 1 /\ file[k].exact = TRUE /\ file[k].ended
    /\ \A i \in DOMAIN appended :
          appended[i].fate # "missed" => \E k \in DOMAIN file : p[k] = i

(* The appends account for the log, and for its file. *)
LogKept(log, file, appended) ==
    /\ appended \in Seq(Appends)
    /\ \E q : Shows(q, log, appended)
    /\ \E p : Holds(p, file, appended)

(* The n-th element of a set of numbers. *)
NthOf(S, n) == CHOOSE i \in S : Cardinality({j \in S : j <= i}) = n

(* Counting the elements of a finite set of numbers from the least one     *)
(* enumerates them, in order.                                              *)
LEMMA CountedInOrder ==
    ASSUME NEW S \in SUBSET Nat, IsFiniteSet(S)
    PROVE  /\ Cardinality(S) \in Nat
           /\ \A n \in 1 .. Cardinality(S) : NthOf(S, n) \in S
           /\ \A m, n \in 1 .. Cardinality(S) : m < n => NthOf(S, m) < NthOf(S, n)
           /\ \A i \in S : \E n \in 1 .. Cardinality(S) : NthOf(S, n) = i
<1> DEFINE upTo(i) == {j \in S : j <= i}
           rank == [i \in S |-> Cardinality(upTo(i))]
           R == {rank[i] : i \in S}
           k == Cardinality(S)
<1>1. k \in Nat /\ \A T \in SUBSET S : /\ IsFiniteSet(T) /\ Cardinality(T) \in Nat
                                      /\ Cardinality(T) <= k
                                      /\ Cardinality(T) = k => T = S
  BY FS_Subset, FS_CardinalityType
<1>2. ASSUME NEW i \in S PROVE rank[i] \in 1 .. k
  <2>1. upTo(i) \in SUBSET S /\ i \in upTo(i)
    OBVIOUS
  <2>2. PICK U : U = upTo(i)
    OBVIOUS
  <2>3. /\ U \in SUBSET S /\ U # {}
        /\ rank[i] = Cardinality(U)
    BY <2>1, <2>2
  <2> HIDE DEF upTo, rank
  <2>4. IsFiniteSet(U) /\ Cardinality(U) \in Nat /\ Cardinality(U) <= k
    BY <2>3, FS_Subset, FS_CardinalityType
  <2> HIDE DEF k
  <2>5. Cardinality(U) # 0
    BY <2>3, <2>4, FS_EmptySet
  <2>6. QED  BY <1>1, <2>3, <2>4, <2>5
<1>3. ASSUME NEW i \in S, NEW j \in S, i < j PROVE rank[i] < rank[j]
  <2>1. i \in Nat /\ j \in Nat /\ \A m \in S : m \in Nat
    OBVIOUS
  <2>2. PICK U : U = upTo(i)
    OBVIOUS
  <2>3. PICK V : V = upTo(j)
    OBVIOUS
  <2>4. /\ U \in SUBSET S /\ V \in SUBSET S /\ j \in V
        /\ rank[i] = Cardinality(U) /\ rank[j] = Cardinality(V)
    BY <2>1, <2>2, <2>3
  <2>5. U \subseteq V /\ j \notin U
    <3>1. \A m : (m \in U <=> m \in S /\ m <= i) /\ (m \in V <=> m \in S /\ m <= j)
      BY <2>2, <2>3
    <3>2. \A m \in S : m <= i => m <= j
      BY <1>3, <2>1
    <3>3. ~(j <= i)
      BY <1>3, <2>1
    <3> HIDE DEF upTo
    <3>4. QED  BY <3>1, <3>2, <3>3
  <2> HIDE DEF upTo, rank, k
  <2>6. IsFiniteSet(V) /\ IsFiniteSet(U)
    BY <2>4, FS_Subset
  <2>7. /\ Cardinality(U) \in Nat /\ Cardinality(V) \in Nat
        /\ Cardinality(U) <= Cardinality(V)
        /\ Cardinality(U) = Cardinality(V) => U = V
    BY <2>5, <2>6, FS_Subset, FS_CardinalityType
  <2>8. U # V
    BY <2>4, <2>5
  <2>9. QED  BY <2>4, <2>7, <2>8
<1> HIDE DEF rank
<1>4. \A i, j \in S : rank[i] = rank[j] => i = j
  <2>1. \A i, j \in S : i \in Nat /\ j \in Nat /\ rank[i] \in Nat /\ rank[j] \in Nat
    BY <1>1, <1>2
  <2> HIDE DEF k
  <2>2. QED  BY <1>3, <2>1
<1>5. R = 1 .. k
  <2>1. rank \in Bijection(S, R)
    <3>1. rank \in [S -> R]
      BY DEF rank
    <3>2. QED  BY <1>4, <3>1 DEF Bijection, Injection, Surjection, IsInjective
  <2>2. IsFiniteSet(R) /\ Cardinality(R) = k
    <3> HIDE DEF R, k
    <3>1. ExistsBijection(S, R)
      BY <2>1 DEF ExistsBijection
    <3>2. QED  BY <3>1, FS_Bijection DEF k
  <2>3. IsFiniteSet(1 .. k) /\ Cardinality(1 .. k) = k
    BY <1>1, FS_Interval
  <2>4. R \subseteq 1 .. k
    BY <1>2
  <2> HIDE DEF R, k
  <2>5. QED  BY <2>2, <2>3, <2>4, FS_Subset
<1>6. \A n \in 1 .. k : \E i \in S : rank[i] = n
  BY <1>5
<1>7. \A i \in S : rank[i] = Cardinality({j \in S : j <= i})
  BY DEF rank
<1>8. ASSUME NEW n \in 1 .. k PROVE NthOf(S, n) \in S /\ rank[NthOf(S, n)] = n
  <2>1. PICK i \in S : Cardinality({j \in S : j <= i}) = n
    BY <1>6, <1>7
  <2>2. NthOf(S, n) \in S /\ Cardinality({j \in S : j <= NthOf(S, n)}) = n
    BY ONLY <2>1 DEF NthOf
  <2>3. QED  BY <1>7, <2>2
<1>9. \A i \in S : NthOf(S, rank[i]) = i
  BY <1>2, <1>4, <1>8
<1>10. ASSUME NEW m \in 1 .. k, NEW n \in 1 .. k, m < n PROVE NthOf(S, m) < NthOf(S, n)
  <2> DEFINE i == NthOf(S, m)
             j == NthOf(S, n)
  <2>1. i \in S /\ j \in S /\ rank[i] = m /\ rank[j] = n /\ i \in Nat /\ j \in Nat
    BY <1>8
  <2>2. m \in Nat /\ n \in Nat
    BY <1>1
  <2>3. j < i => n < m
    BY <1>3, <2>1
  <2>4. i # j
    BY <1>10, <2>1, <2>2
  <2> HIDE DEF i, j
  <2>5. i < j
    BY ONLY <1>10, <2>1, <2>2, <2>3, <2>4
  <2>6. QED  BY <2>5 DEF i, j
<1>11. QED  BY <1>1, <1>2, <1>8, <1>9, <1>10

(* A witness that climbs leaves room for all that is still to come.        *)
LEMMA ClimbsBelow ==
    ASSUME NEW L \in Nat, NEW N \in Nat, NEW q \in [1 .. L -> 1 .. N], Climbs(q),
           NEW n \in 1 .. L
    PROVE  q[n] <= N - (L - n)
<1> DEFINE T == {k \in Nat : k < L /\ ~(q[L - k] <= N - k)}
<1>1. T = {}
  <2> SUFFICES ASSUME T # {} PROVE FALSE
    OBVIOUS
  <2>1. PICK k \in T : \A m \in T : k <= m
    <3>1. T \in SUBSET Nat
      OBVIOUS
    <3> HIDE DEF T
    <3>2. QED  BY <3>1, LeastNumber
  <2>2. k \in Nat /\ k < L /\ L - k \in 1 .. L /\ q[L - k] \in 1 .. N /\ ~(q[L - k] <= N - k)
    OBVIOUS
  <2>3. k # 0
    BY <2>2
  <2>4. k - 1 \in Nat /\ k - 1 < L /\ k - 1 \notin T
    <3>1. k - 1 \in Nat /\ k - 1 < L /\ ~(k <= k - 1)
      BY <2>2, <2>3
    <3> HIDE DEF T
    <3>2. QED  BY <2>1, <3>1
  <2>5. L - (k - 1) \in 1 .. L /\ q[L - (k - 1)] \in 1 .. N
    BY <2>2, <2>3
  <2>6. q[L - (k - 1)] <= N - (k - 1)
    BY <2>4
  <2>7. q[L - k] < q[L - (k - 1)]
    <3>1. L - k < L - (k - 1)
      BY <2>2
    <3>2. QED  BY <2>2, <2>5, <3>1 DEF Climbs
  <2> HIDE DEF T
  <2>8. QED  BY ONLY <2>2, <2>5, <2>6, <2>7
<1>2. L - n \in Nat /\ L - n < L /\ L - (L - n) = n
  OBVIOUS
<1>3. L - n \notin T
  BY <1>1
<1>4. QED  BY <1>2, <1>3

(* The oldest entries can go: they are not of the last appends. *)
LEMMA NewestShows ==
    ASSUME NEW log, IsSequence(log), NEW appended, appended \in Seq(Appends),
           NEW q, Shows(q, log, appended)
    PROVE  \E r : Shows(r, Newest(log), appended)
<1>1. PICK S : log \in Seq(S)
  BY DEF IsSequence
<1>2. CASE ~(Len(log) > MaxEntries)
  BY <1>2 DEF Newest
<1>3. CASE Len(log) > MaxEntries
  <2> DEFINE L == Len(log)
             N == Len(appended)
             d == L - MaxEntries
             short == Newest(log)
             r == [n \in 1 .. MaxEntries |-> q[n + d]]
  <2>1. L \in Nat /\ N \in Nat /\ DOMAIN log = 1 .. L /\ DOMAIN appended = 1 .. N
    BY <1>1
  <2>2. q \in [1 .. L -> 1 .. N] /\ Climbs(q)
    BY <2>1 DEF Shows
  <2>3. short = SubSeq(log, d + 1, L)
    BY <1>3 DEF Newest
  <2>4. d \in Nat /\ L - (d + 1) + 1 = MaxEntries /\ d + 1 \in 1 .. L
    BY <1>3, <2>1
  <2>5. DOMAIN short = 1 .. MaxEntries /\ \A n \in 1 .. MaxEntries : short[n] = log[n + d]
    <3>1. short = [n \in 1 .. MaxEntries |-> log[n + d]]
      <4>1. short = [n \in 1 .. (L - (d + 1) + 1) |-> log[n + (d + 1) - 1]]
        BY <2>3 DEF SubSeq
      <4>2. \A n \in 1 .. MaxEntries : n + (d + 1) - 1 = n + d
        BY <2>4
      <4> HIDE DEF short, d, L
      <4>3. QED  BY <2>4, <4>1, <4>2
    <3> HIDE DEF short
    <3>2. QED  BY <3>1
  <2>6. \A n \in 1 .. MaxEntries : n + d \in 1 .. L /\ n + d \in Nat /\ n \in Nat
    BY <2>1, <2>4
  <2> HIDE DEF short
  <2>7. r \in [DOMAIN short -> DOMAIN appended] /\ Climbs(r)
    <3>1. r \in [1 .. MaxEntries -> 1 .. N]
      <4> HIDE DEF d, L, N
      <4>1. QED  BY <2>2, <2>6
    <3>2. ASSUME NEW m \in 1 .. MaxEntries, NEW n \in 1 .. MaxEntries, m < n
          PROVE  r[m] < r[n]
      <4>1. m + d < n + d
        BY <2>4, <3>2
      <4>2. m + d \in DOMAIN q /\ n + d \in DOMAIN q
        BY <2>2, <2>6
      <4> HIDE DEF d, L, N
      <4>3. QED  BY <2>2, <4>1, <4>2 DEF Climbs
    <3>3. DOMAIN r = 1 .. MaxEntries
      OBVIOUS
    <3> HIDE DEF r
    <3>4. QED  BY <2>1, <2>5, <3>1, <3>2, <3>3 DEF Climbs
  <2>8. ASSUME NEW n \in DOMAIN short
        PROVE  /\ short[n].what = appended[r[n]].what
               /\ UnharmedIn(appended, r[n]) => short[n] = Exactly(appended[r[n]].what)
    <3>1. n \in 1 .. MaxEntries /\ n + d \in DOMAIN log
      BY <2>1, <2>5, <2>6
    <3>2. short[n] = log[n + d] /\ r[n] = q[n + d]
      BY <2>5, <3>1
    <3> HIDE DEF r
    <3>3. QED  BY <3>1, <3>2 DEF Shows
  <2>9. ASSUME NEW i \in DOMAIN appended, i > N - MaxEntries, UnharmedIn(appended, i)
        PROVE  \E n \in DOMAIN short : r[n] = i
    <3>1. PICK n \in 1 .. L : q[n] = i
      BY <2>1, <2>9 DEF Shows
    <3>2. q[n] <= N - (L - n)
      <4> HIDE DEF L, N
      <4>1. QED  BY <2>1, <2>2, ClimbsBelow
    <3>3. n > d
      <4>1. i \in Nat /\ n \in Nat
        BY <2>1
      <4> HIDE DEF L, N
      <4>2. QED  BY <2>1, <2>9, <3>1, <3>2, <4>1
    <3>4. n - d \in 1 .. MaxEntries /\ (n - d) + d = n
      BY <2>1, <2>4, <3>3
    <3> HIDE DEF d
    <3>5. r[n - d] = i
      BY <3>1, <3>4
    <3> HIDE DEF r
    <3>6. QED  BY <2>5, <3>4, <3>5
  <2> HIDE DEF r, L
  <2>10. Shows(r, short, appended)
    BY <2>7, <2>8, <2>9 DEF Shows
  <2>11. QED  BY <2>10 DEF short
<1>4. QED  BY <1>2, <1>3

(* An append leaves the ones before it as harmed as they were. *)
LEMMA OneMoreAppend ==
    ASSUME NEW appended, appended \in Seq(Appends), NEW entry \in Appends
    PROVE  LET more == Append(appended, entry)
               N == Len(appended)
           IN  /\ N \in Nat /\ DOMAIN appended = 1 .. N
               /\ more \in Seq(Appends) /\ Len(more) = N + 1
               /\ DOMAIN more = 1 .. (N + 1) /\ more[N + 1] = entry
               /\ \A i \in 1 .. N :
                     /\ more[i] = appended[i]
                     /\ UnharmedIn(more, i) <=> UnharmedIn(appended, i)
<1> DEFINE more == Append(appended, entry)
           N == Len(appended)
<1>1. /\ N \in Nat /\ DOMAIN appended = 1 .. N
      /\ more \in Seq(Appends) /\ Len(more) = N + 1 /\ DOMAIN more = 1 .. (N + 1)
  OBVIOUS
<1>2. more[N + 1] = entry /\ \A i \in 1 .. N : more[i] = appended[i]
  OBVIOUS
<1> HIDE DEF more, N
<1>3. ASSUME NEW i \in 1 .. N
      PROVE  UnharmedIn(more, i) <=> UnharmedIn(appended, i)
  <2>1. \A j \in 1 .. (i - 1) : j \in 1 .. N
    BY <1>1
  <2>2. \A j \in 1 .. (i - 1) : \A k \in (j + 1) .. (i - 1) : k \in 1 .. N
    BY <1>1
  <2>3. GluedIn(more, i) <=> GluedIn(appended, i)
    BY <1>2, <2>1, <2>2 DEF GluedIn
  <2>4. QED  BY <1>2, <2>3 DEF UnharmedIn
<1>4. QED  BY <1>1, <1>2, <1>3 DEF more, N

(* What is not shown of a new append need not be, if it was harmed. *)
LEMMA ShowsHarmed ==
    ASSUME NEW log, NEW appended, appended \in Seq(Appends), NEW q, Shows(q, log, appended),
           NEW entry \in Appends, entry.fate # "whole"
    PROVE  Shows(q, log, Append(appended, entry))
<1> DEFINE more == Append(appended, entry)
           N == Len(appended)
<1>1. /\ N \in Nat /\ DOMAIN appended = 1 .. N
      /\ Len(more) = N + 1 /\ DOMAIN more = 1 .. (N + 1) /\ more[N + 1] = entry
      /\ \A i \in 1 .. N : /\ more[i] = appended[i]
                           /\ UnharmedIn(more, i) <=> UnharmedIn(appended, i)
  BY OneMoreAppend
<1> HIDE DEF more, N
<1>2. q \in [DOMAIN log -> DOMAIN more] /\ Climbs(q) /\ \A n \in DOMAIN log : q[n] \in 1 .. N
  <2>1. DOMAIN appended \subseteq DOMAIN more
    BY <1>1
  <2>2. QED  BY <1>1, <2>1 DEF Shows
<1>3. \A n \in DOMAIN log :
         /\ log[n].what = more[q[n]].what
         /\ UnharmedIn(more, q[n]) => log[n] = Exactly(more[q[n]].what)
  BY <1>1, <1>2 DEF Shows
<1>4. ASSUME NEW i \in DOMAIN more, i > Len(more) - MaxEntries, UnharmedIn(more, i)
      PROVE  \E n \in DOMAIN log : q[n] = i
  <2>1. i # N + 1
    BY <1>1, <1>4 DEF UnharmedIn
  <2>2. i \in 1 .. N /\ i > N - MaxEntries
    BY <1>1, <1>4, <2>1
  <2>3. QED  BY <1>1, <1>4, <2>2 DEF Shows, N
<1>5. QED  BY <1>2, <1>3, <1>4 DEF Shows, more

(* A witness climbs on to something new. *)
GoesOn(r, q, L, N) ==
    /\ r \in [1 .. (L + 1) -> 1 .. (N + 1)]
    /\ Climbs(r) /\ r[L + 1] = N + 1
    /\ \A n \in 1 .. L : r[n] = q[n] /\ r[n] \in 1 .. N

(* The witness of a log, or of a file, with what came last at its end.     *)
LEMMA ClimbsOn ==
    ASSUME NEW L \in Nat, NEW N \in Nat, NEW q \in [1 .. L -> 1 .. N], Climbs(q)
    PROVE  \E r : GoesOn(r, q, L, N)
<1> DEFINE r == [n \in 1 .. (L + 1) |-> IF n = L + 1 THEN N + 1 ELSE q[n]]
<1>1. /\ r \in [1 .. (L + 1) -> 1 .. (N + 1)] /\ DOMAIN r = 1 .. (L + 1)
      /\ r[L + 1] = N + 1 /\ \A n \in 1 .. L : r[n] = q[n] /\ r[n] \in 1 .. N
  <2>1. ASSUME NEW n \in 1 .. L PROVE n \in 1 .. (L + 1) /\ n # L + 1
    OBVIOUS
  <2>2. ASSUME NEW n \in 1 .. (L + 1), n # L + 1 PROVE n \in 1 .. L
    BY <2>2
  <2>3. L + 1 \in 1 .. (L + 1) /\ N + 1 \in 1 .. (N + 1) /\ 1 .. N \subseteq 1 .. (N + 1)
    OBVIOUS
  <2>4. QED  BY <2>1, <2>2, <2>3
<1> HIDE DEF r
<1>2. ASSUME NEW m \in 1 .. (L + 1), NEW n \in 1 .. (L + 1), m < n PROVE r[m] < r[n]
  <2>1. m \in 1 .. L
    BY <1>2
  <2>2. CASE n \in 1 .. L
    <3>1. q[m] < q[n]
      BY <1>2, <2>1, <2>2 DEF Climbs
    <3>2. QED  BY <1>1, <2>1, <2>2, <3>1
  <2>3. CASE n = L + 1
    <3>1. r[m] \in 1 .. N /\ r[n] = N + 1
      BY <1>1, <2>1, <2>3
    <3>2. QED  BY <3>1
  <2>4. QED  BY <2>2, <2>3
<1>3. QED  BY <1>1, <1>2 DEF Climbs, GoesOn

(* The entry of a new append comes last. *)
LEMMA ShowsOneMore ==
    ASSUME NEW log, IsSequence(log), NEW appended, appended \in Seq(Appends),
           NEW q, Shows(q, log, appended), NEW entry \in Appends
    PROVE  \E r : Shows(r, Append(log, Exactly(entry.what)), Append(appended, entry))
<1> DEFINE more == Append(appended, entry)
           N == Len(appended)
           long == Append(log, Exactly(entry.what))
           L == Len(log)
<1>1. /\ N \in Nat /\ DOMAIN appended = 1 .. N
      /\ Len(more) = N + 1 /\ DOMAIN more = 1 .. (N + 1) /\ more[N + 1] = entry
      /\ \A i \in 1 .. N : /\ more[i] = appended[i]
                           /\ UnharmedIn(more, i) <=> UnharmedIn(appended, i)
  BY OneMoreAppend
<1>2. /\ L \in Nat /\ DOMAIN log = 1 .. L /\ DOMAIN long = 1 .. (L + 1)
      /\ long[L + 1] = Exactly(entry.what) /\ \A n \in 1 .. L : long[n] = log[n]
  <2>1. PICK S : log \in Seq(S)
    BY DEF IsSequence
  <2>2. log \in Seq(S \cup {Exactly(entry.what)})
    BY <2>1
  <2>3. QED  BY <2>2
<1> HIDE DEF more, N, long, L
<1>3. q \in [1 .. L -> 1 .. N] /\ Climbs(q)
  BY <1>1, <1>2 DEF Shows
<1>4. PICK r : GoesOn(r, q, L, N)
  <2>1. L \in Nat /\ N \in Nat
    BY <1>1, <1>2
  <2>2. QED  BY ONLY <1>3, <2>1, ClimbsOn
<1>5. /\ r \in [1 .. (L + 1) -> 1 .. (N + 1)] /\ Climbs(r) /\ r[L + 1] = N + 1
      /\ \A n \in 1 .. L : r[n] = q[n] /\ r[n] \in 1 .. N
  BY <1>4 DEF GoesOn
<1>6. \A n \in 1 .. (L + 1) : n \in 1 .. L \/ n = L + 1
  BY <1>2
<1>7. r \in [DOMAIN long -> DOMAIN more] /\ Climbs(r)
  BY <1>1, <1>2, <1>5
<1>8. ASSUME NEW n \in DOMAIN long
      PROVE  /\ long[n].what = more[r[n]].what
             /\ UnharmedIn(more, r[n]) => long[n] = Exactly(more[r[n]].what)
  <2>1. CASE n = L + 1
    <3>1. long[n] = Exactly(entry.what) /\ more[r[n]] = entry
      BY <1>1, <1>2, <1>5, <2>1
    <3>2. QED  BY <3>1 DEF Exactly
  <2>2. CASE n \in 1 .. L
    <3>1. long[n] = log[n] /\ r[n] = q[n] /\ r[n] \in 1 .. N /\ n \in DOMAIN log
      BY <1>2, <1>5, <2>2
    <3>2. more[r[n]] = appended[q[n]] /\ (UnharmedIn(more, r[n]) <=> UnharmedIn(appended, q[n]))
      BY <1>1, <3>1
    <3>3. QED  BY <3>1, <3>2 DEF Shows
  <2>3. QED  BY <1>2, <1>6, <2>1, <2>2
<1>9. ASSUME NEW i \in DOMAIN more, i > Len(more) - MaxEntries, UnharmedIn(more, i)
      PROVE  \E n \in DOMAIN long : r[n] = i
  <2>1. CASE i = N + 1
    <3>1. L + 1 \in DOMAIN long
      BY <1>2
    <3>2. QED  BY <1>5, <2>1, <3>1
  <2>2. CASE i # N + 1
    <3>1. i \in 1 .. N /\ i > N - MaxEntries
      BY <1>1, <1>9, <2>2
    <3>2. PICK n \in 1 .. L : q[n] = i
      BY <1>1, <1>2, <1>9, <3>1 DEF Shows, N
    <3>3. n \in DOMAIN long
      BY <1>2
    <3>4. QED  BY <1>5, <3>2, <3>3
  <2>3. QED  BY <2>1, <2>2
<1>10. Shows(r, long, more)
  BY <1>7, <1>8, <1>9 DEF Shows
<1>11. QED  BY <1>10 DEF long, more

(* An append that found the file closed left no piece. *)
LEMMA HoldsMissed ==
    ASSUME NEW file, NEW appended, appended \in Seq(Appends), NEW p, Holds(p, file, appended),
           NEW entry \in Appends, entry.fate = "missed"
    PROVE  Holds(p, file, Append(appended, entry))
<1> DEFINE more == Append(appended, entry)
           N == Len(appended)
<1>1. /\ N \in Nat /\ DOMAIN appended = 1 .. N
      /\ Len(more) = N + 1 /\ DOMAIN more = 1 .. (N + 1) /\ more[N + 1] = entry
      /\ \A i \in 1 .. N : more[i] = appended[i]
  BY OneMoreAppend
<1> HIDE DEF more, N
<1>2. p \in [DOMAIN file -> DOMAIN more] /\ Climbs(p) /\ \A n \in DOMAIN file : p[n] \in 1 .. N
  <2>1. DOMAIN appended \subseteq DOMAIN more
    BY <1>1
  <2>2. QED  BY <1>1, <2>1 DEF Holds
<1>3. \A k \in DOMAIN file : more[p[k]] = appended[p[k]]
  BY <1>1, <1>2
<1>4. ASSUME NEW i \in DOMAIN more, more[i].fate # "missed"
      PROVE  \E k \in DOMAIN file : p[k] = i
  <2>1. i # N + 1
    BY <1>1, <1>4
  <2>2. i \in 1 .. N
    BY <1>1, <2>1
  <2>3. QED  BY <1>1, <1>4, <2>2 DEF Holds
<1>5. QED  BY <1>2, <1>3, <1>4 DEF Holds, more

(* The piece of a new append comes last. *)
LEMMA HoldsOneMore ==
    ASSUME NEW file, IsSequence(file), NEW appended, appended \in Seq(Appends),
           NEW p, Holds(p, file, appended), NEW entry \in Appends, entry.fate # "missed",
           NEW piece, piece.what = entry.what,
           entry.fate = "whole" =>
               piece.tabs = LogFields - 1 /\ piece.exact = TRUE /\ piece.ended
    PROVE  \E r : Holds(r, Append(file, piece), Append(appended, entry))
<1> DEFINE more == Append(appended, entry)
           N == Len(appended)
           long == Append(file, piece)
           L == Len(file)
<1>1. /\ N \in Nat /\ DOMAIN appended = 1 .. N
      /\ Len(more) = N + 1 /\ DOMAIN more = 1 .. (N + 1) /\ more[N + 1] = entry
      /\ \A i \in 1 .. N : more[i] = appended[i]
  BY OneMoreAppend
<1>2. /\ L \in Nat /\ DOMAIN file = 1 .. L /\ DOMAIN long = 1 .. (L + 1)
      /\ long[L + 1] = piece /\ \A n \in 1 .. L : long[n] = file[n]
  <2>1. PICK S : file \in Seq(S)
    BY DEF IsSequence
  <2>2. file \in Seq(S \cup {piece})
    BY <2>1
  <2>3. QED  BY <2>2
<1> HIDE DEF more, N, long, L
<1>3. p \in [1 .. L -> 1 .. N] /\ Climbs(p)
  BY <1>1, <1>2 DEF Holds
<1>4. PICK r : GoesOn(r, p, L, N)
  <2>1. L \in Nat /\ N \in Nat
    BY <1>1, <1>2
  <2>2. QED  BY ONLY <1>3, <2>1, ClimbsOn
<1>5. /\ r \in [1 .. (L + 1) -> 1 .. (N + 1)] /\ Climbs(r) /\ r[L + 1] = N + 1
      /\ \A n \in 1 .. L : r[n] = p[n] /\ r[n] \in 1 .. N
  BY <1>4 DEF GoesOn
<1>6. \A n \in 1 .. (L + 1) : n \in 1 .. L \/ n = L + 1
  BY <1>2
<1>7. r \in [DOMAIN long -> DOMAIN more] /\ Climbs(r)
  BY <1>1, <1>2, <1>5
<1>8. ASSUME NEW k \in DOMAIN long
      PROVE  /\ long[k].what = more[r[k]].what
             /\ more[r[k]].fate # "missed"
             /\ more[r[k]].fate = "whole"
                   => long[k].tabs = LogFields - 1 /\ long[k].exact = TRUE /\ long[k].ended
  <2>1. CASE k = L + 1
    BY <1>1, <1>2, <1>5, <2>1
  <2>2. CASE k \in 1 .. L
    <3>1. long[k] = file[k] /\ r[k] = p[k] /\ r[k] \in 1 .. N /\ k \in DOMAIN file
      BY <1>2, <1>5, <2>2
    <3>2. more[r[k]] = appended[p[k]]
      BY <1>1, <3>1
    <3>3. QED  BY <3>1, <3>2 DEF Holds
  <2>3. QED  BY <1>2, <1>6, <2>1, <2>2
<1>9. ASSUME NEW i \in DOMAIN more, more[i].fate # "missed"
      PROVE  \E k \in DOMAIN long : r[k] = i
  <2>1. CASE i = N + 1
    <3>1. L + 1 \in DOMAIN long
      BY <1>2
    <3>2. QED  BY <1>5, <2>1, <3>1
  <2>2. CASE i # N + 1
    <3>1. i \in 1 .. N
      BY <1>1, <2>2
    <3>2. PICK k \in 1 .. L : p[k] = i
      BY <1>1, <1>2, <1>9, <3>1 DEF Holds
    <3>3. k \in DOMAIN long
      BY <1>2
    <3>4. QED  BY <1>5, <3>2, <3>3
  <2>3. QED  BY <2>1, <2>2
<1>10. Holds(r, long, more)
  BY <1>7, <1>8, <1>9 DEF Holds
<1>11. QED  BY <1>10 DEF long, more

(* A piece of an unharmed append has a line of its own. *)
LEMMA UnharmedPiece ==
    ASSUME NEW file, IsSequence(file), NEW appended, appended \in Seq(Appends),
           NEW p, Holds(p, file, appended),
           NEW k \in DOMAIN file, UnharmedIn(appended, p[k])
    PROVE  /\ k = 1 \/ file[k - 1].ended
           /\ file[k].tabs = LogFields - 1 /\ file[k].exact = TRUE /\ file[k].ended
<1>1. DOMAIN file = 1 .. Len(file) /\ Len(file) \in Nat
  BY DEF IsSequence
<1>2. DOMAIN appended = 1 .. Len(appended) /\ Len(appended) \in Nat
      /\ \A i \in DOMAIN appended : appended[i] \in Appends
  OBVIOUS
<1>3. \A m \in DOMAIN file : p[m] \in DOMAIN appended /\ p[m] \in Nat
  BY <1>2 DEF Holds
<1>4. file[k].tabs = LogFields - 1 /\ file[k].exact = TRUE /\ file[k].ended
  BY DEF Holds, UnharmedIn
<1>5. ASSUME k # 1 PROVE file[k - 1].ended
  <2>1. k - 1 \in DOMAIN file /\ k - 1 < k /\ k \in Nat
    BY <1>1, <1>5
  <2>2. PICK i \in Nat : i = p[k]
    BY <1>3
  <2>3. PICK j \in Nat : j = p[k - 1]
    BY <1>3, <2>1
  <2>4. j < i /\ j \in DOMAIN appended
    BY <1>3, <2>1, <2>2, <2>3 DEF Holds, Climbs
  <2>5. ASSUME NEW m \in (j + 1) .. (i - 1) PROVE appended[m].fate = "missed"
    <3>1. m \in DOMAIN appended /\ m \in Nat /\ j < m /\ m < i
      BY <1>2, <1>3, <2>2, <2>4
    <3>2. SUFFICES ASSUME appended[m].fate # "missed" PROVE FALSE
      OBVIOUS
    <3>3. PICK l \in DOMAIN file : p[l] = m
      BY <3>1, <3>2 DEF Holds
    <3>4. l \in Nat /\ (l < k - 1 \/ l = k - 1 \/ l = k \/ k < l)
      BY <1>1, <2>1
    <3>5. l < k - 1 => p[l] < p[k - 1]
      BY <2>1 DEF Holds, Climbs
    <3>6. k < l => p[k] < p[l]
      BY DEF Holds, Climbs
    <3>7. QED  BY ONLY <2>2, <2>3, <3>1, <3>3, <3>4, <3>5, <3>6
  <2>6. appended[j].fate # "cut"
    <3>1. j \in 1 .. (i - 1)
      BY <1>2, <2>2, <2>4
    <3>2. ~GluedIn(appended, i)
      BY <2>2 DEF UnharmedIn
    <3>3. QED  BY <2>5, <3>1, <3>2 DEF GluedIn
  <2>7. appended[j].fate # "missed"
    BY <2>1, <2>3 DEF Holds
  <2>8. appended[j].fate = "whole"
    BY <1>2, <2>4, <2>6, <2>7 DEF Appends
  <2>9. QED  BY <2>1, <2>3, <2>8 DEF Holds
<1>6. QED  BY <1>4, <1>5

(* The pieces of R are read as at says: among them, and as it was written, *)
(* every whole piece that has a line of its own.                           *)
Reads(file, R, at) ==
    /\ R \subseteq DOMAIN file
    /\ \A k \in DOMAIN file : at[k].what = file[k].what
    /\ \A k \in DOMAIN file :
          /\ k = 1 \/ file[k - 1].ended
          /\ file[k].tabs = LogFields - 1 /\ file[k].exact = TRUE /\ file[k].ended
          => k \in R /\ at[k] = Exactly(file[k].what)

(* What a start reads of a file shows the appends that the file holds,     *)
(* whatever it makes of the lines that were cut or glued.                  *)
LEMMA LoadedShows ==
    ASSUME NEW file, IsSequence(file), NEW appended, appended \in Seq(Appends),
           NEW p, Holds(p, file, appended),
           NEW R, NEW at, Reads(file, R, at)
    PROVE  \E q : Shows(q, Newest([n \in 1 .. Cardinality(R) |-> at[NthOf(R, n)]]), appended)
<1> DEFINE K == Cardinality(R)
           log == [n \in 1 .. K |-> at[NthOf(R, n)]]
           q == [n \in 1 .. K |-> p[NthOf(R, n)]]
<1>1. DOMAIN file = 1 .. Len(file) /\ Len(file) \in Nat
  BY DEF IsSequence
<1>2. R \in SUBSET Nat /\ IsFiniteSet(R)
  <2>1. IsFiniteSet(DOMAIN file)
    BY <1>1, FS_Interval
  <2>2. IsFiniteSet(R) /\ R \subseteq DOMAIN file
    BY <2>1, FS_Subset DEF Reads
  <2>3. QED  BY <1>1, <2>2
<1>3. K \in Nat
  BY <1>2, CountedInOrder
<1>4. \A n \in 1 .. K : NthOf(R, n) \in R
  BY <1>2, CountedInOrder
<1>5. \A m, n \in 1 .. K : m < n => NthOf(R, m) < NthOf(R, n)
  BY <1>2, CountedInOrder
<1>6. \A i \in R : \E n \in 1 .. K : NthOf(R, n) = i
  BY <1>2, CountedInOrder
<1> HIDE DEF K
<1>7. IsSequence(log) /\ DOMAIN log = 1 .. K
  <2> DEFINE S == {at[NthOf(R, n)] : n \in 1 .. K}
  <2>1. log \in [1 .. K -> S]
    OBVIOUS
  <2>2. log \in Seq(S)
    BY <1>3, <2>1
  <2>3. QED  BY <2>2 DEF IsSequence
<1>8. \A n \in 1 .. K : log[n] = at[NthOf(R, n)] /\ q[n] = p[NthOf(R, n)]
  OBVIOUS
<1>9. q \in [DOMAIN log -> DOMAIN appended] /\ Climbs(q)
  <2>1. p \in [DOMAIN file -> DOMAIN appended] /\ Climbs(p) /\ R \subseteq DOMAIN file
    BY DEF Holds, Reads
  <2>2. q \in [1 .. K -> DOMAIN appended] /\ DOMAIN q = 1 .. K
    BY <1>4, <2>1
  <2>3. ASSUME NEW m \in 1 .. K, NEW n \in 1 .. K, m < n PROVE q[m] < q[n]
    BY <1>4, <1>5, <1>8, <2>1, <2>3 DEF Climbs
  <2> HIDE DEF q, log
  <2>4. QED  BY <1>7, <2>2, <2>3 DEF Climbs
<1> HIDE DEF q, log
<1>10. ASSUME NEW n \in DOMAIN log
       PROVE  /\ log[n].what = appended[q[n]].what
              /\ UnharmedIn(appended, q[n]) => log[n] = Exactly(appended[q[n]].what)
  <2>1. PICK k \in R : k = NthOf(R, n)
    BY <1>4, <1>7
  <2>2. k \in DOMAIN file /\ log[n] = at[k] /\ q[n] = p[k]
    BY <1>7, <1>8, <2>1 DEF Reads
  <2>3. file[k].what = appended[p[k]].what /\ at[k].what = file[k].what
    BY <2>2 DEF Holds, Reads
  <2>4. UnharmedIn(appended, p[k]) => at[k] = Exactly(file[k].what)
    BY <2>2, UnharmedPiece DEF Reads
  <2>5. QED  BY <2>2, <2>3, <2>4
<1>11. ASSUME NEW i \in DOMAIN appended, UnharmedIn(appended, i)
       PROVE  \E n \in DOMAIN log : q[n] = i
  <2>1. appended[i].fate # "missed"
    BY <1>11 DEF UnharmedIn
  <2>2. PICK k \in DOMAIN file : p[k] = i
    BY <2>1 DEF Holds
  <2>3. k \in R
    BY <1>11, <2>2, UnharmedPiece DEF Reads
  <2>4. PICK n \in 1 .. K : NthOf(R, n) = k
    BY <1>6, <2>3
  <2>5. QED  BY <1>7, <1>8, <2>2, <2>4
<1>12. Shows(q, log, appended)
  BY <1>9, <1>10, <1>11 DEF Shows
<1>13. \E r : Shows(r, Newest(log), appended)
  BY <1>7, <1>12, NewestShows
<1>14. QED  BY <1>13 DEF log, K

(* The largest of some numbers. *)
LEMMA LargestIs ==
    ASSUME NEW S \in SUBSET Int, NEW k \in S, \A x \in S : x <= k
    PROVE  Max(S) = k
<1>1. k \in S /\ \A y \in S : k >= y
  OBVIOUS
<1>2. Max(S) \in S /\ \A y \in S : Max(S) >= y
  BY <1>1 DEF Max
<1>3. Max(S) >= k /\ k >= Max(S) /\ Max(S) \in Int /\ k \in Int
  BY <1>1, <1>2
<1>4. QED  BY <1>3

(* A line of one piece has the tabs of the piece. *)
LEMMA TabsOfOne ==
    ASSUME NEW k \in Nat, NEW tabs, tabs[k] \in Int
    PROVE  SumFunction([j \in k .. k |-> tabs[j]]) = tabs[k]
<1>1. k .. k = {k}
  OBVIOUS
<1>2. SumOver(tabs, {k}) = tabs[k] + SumOver(tabs, {k} \ {k})
  BY FS_Singleton, SumOverRemove
<1>3. {k} \ {k} = {}
  OBVIOUS
<1>4. SumOver(tabs, {k}) = tabs[k]
  BY <1>2, <1>3, SumOverEmpty
<1>5. QED  BY <1>1, <1>4 DEF SumOver

(* The start of a line, behind the last piece that ended one. *)
StartsLine(file, k) == {1} \cup {j + 1 : j \in {m \in 1 .. (k - 1) : file[m].ended}}

(* The first piece, and one behind a piece that ended its line, start one. *)
LEMMA LineOfOne ==
    ASSUME NEW file, IsSequence(file), NEW k \in DOMAIN file, k = 1 \/ file[k - 1].ended
    PROVE  k \in Nat /\ Max(StartsLine(file, k)) = k
<1>1. k \in Nat /\ k >= 1
  BY DEF IsSequence
<1> DEFINE S == StartsLine(file, k)
<1>2. S \in SUBSET Int /\ \A x \in S : x <= k
  BY <1>1 DEF StartsLine
<1>3. k \in S
  <2>1. CASE k = 1
    BY <2>1 DEF StartsLine
  <2>2. CASE k # 1
    <3>1. k - 1 \in {m \in 1 .. (k - 1) : file[m].ended} /\ (k - 1) + 1 = k
      BY <1>1, <2>2
    <3>2. QED  BY <3>1 DEF StartsLine
  <2>3. QED  BY <2>1, <2>2
<1> HIDE DEF S
<1>4. QED  BY <1>1, <1>2, <1>3, LargestIs DEF S

(* A whole piece with a line of its own is read from pixel_history.log.    *)
LEMMA HistoryLine ==
    ASSUME IsSequence(historyFile), NEW k \in DOMAIN historyFile,
           k = 1 \/ historyFile[k - 1].ended,
           historyFile[k].tabs = LogFields - 1, historyFile[k].exact = TRUE,
           historyFile[k].ended
    PROVE  /\ k \in History!Readable
           /\ History!EntryAt(k) = Exactly(historyFile[k].what)
<1> DEFINE tabs == [j \in DOMAIN historyFile |-> historyFile[j].tabs]
<1>1. k \in Nat /\ Max(StartsLine(historyFile, k)) = k
  BY LineOfOne
<1>2. History!LineStart(k) = k
  <2>1. \A S : History!Max(S) = Max(S)
    BY DEF History!Max, Max
  <2>2. History!LineStart(k) = History!Max(StartsLine(historyFile, k))
    BY DEF History!LineStart, StartsLine
  <2>3. QED  BY <1>1, <2>1, <2>2
<1>3. History!Tabs(k) = LogFields - 1
  <2>1. \A f : History!SumFunction(f) = SumFunction(f)
    BY DEF History!SumFunction, History!SumFunctionOnSet, History!FoldFunctionOnSet,
           History!MapThenFoldSet, SumFunction, SumFunctionOnSet, FoldFunctionOnSet,
           MapThenFoldSet
  <2>2. History!Tabs(k) = SumFunction([j \in k .. k |-> historyFile[j].tabs])
    BY <1>2, <2>1 DEF History!Tabs
  <2>3. [j \in k .. k |-> historyFile[j].tabs] = [j \in k .. k |-> tabs[j]]
    BY <1>1
  <2>4. tabs[k] = LogFields - 1 /\ tabs[k] \in Int
    OBVIOUS
  <2> HIDE DEF tabs
  <2>5. SumFunction([j \in k .. k |-> tabs[j]]) = tabs[k]
    BY <1>1, <2>4, TabsOfOne
  <2>6. QED  BY <2>2, <2>3, <2>4, <2>5
<1>4. k \in History!LineEnds
  BY DEF History!LineEnds
<1>5. k \in History!Readable
  BY <1>3, <1>4 DEF History!Readable
<1>6. History!EntryAt(k) = Exactly(historyFile[k].what)
  BY <1>2 DEF History!EntryAt, History!Entry, Exactly
<1>7. QED  BY <1>5, <1>6

(* What a start reads of pixel_history.log shows the appends to it. *)
LEMMA HistoryLoadedShows ==
    ASSUME IsSequence(historyFile), placed \in Seq(Appends),
           NEW p, Holds(p, historyFile, placed)
    PROVE  \E q : Shows(q, History!Loaded, placed)
<1> DEFINE R == History!Readable
           at == [k \in DOMAIN historyFile |-> History!EntryAt(k)]
<1>1. R \in SUBSET DOMAIN historyFile
  BY DEF History!Readable, History!LineEnds
<1>2. \A k \in DOMAIN historyFile : at[k].what = historyFile[k].what
  BY DEF History!EntryAt, History!Entry
<1>3. \A k \in DOMAIN historyFile : at[k] = History!EntryAt(k)
  OBVIOUS
<1> HIDE DEF at
<1>4. Reads(historyFile, R, at)
  BY <1>1, <1>2, <1>3, HistoryLine DEF Reads
<1>5. \E q : Shows(q, Newest([n \in 1 .. Cardinality(R) |-> at[NthOf(R, n)]]), placed)
  <2> HIDE DEF R
  <2>1. QED  BY <1>4, LoadedShows
<1>6. History!Loaded = Newest([n \in 1 .. Cardinality(R) |-> at[NthOf(R, n)]])
  <2>1. \A S : History!Cardinality(S) = Cardinality(S)
    BY DEF History!Cardinality, Cardinality
  <2>2. \A n : History!Nth(R, n) = NthOf(R, n)
    BY <2>1 DEF History!Nth, NthOf
  <2>3. ASSUME NEW n \in 1 .. Cardinality(R)
        PROVE  History!EntryAt(History!Nth(R, n)) = at[NthOf(R, n)]
    <3>1. IsFiniteSet(R) /\ R \in SUBSET Nat
      BY <1>1, FS_Interval, FS_Subset DEF IsSequence
    <3> HIDE DEF R
    <3>2. NthOf(R, n) \in R
      BY <3>1, CountedInOrder
    <3>3. NthOf(R, n) \in DOMAIN historyFile
      BY <1>1, <3>2
    <3>4. QED  BY <1>3, <2>2, <3>3
  <2>4. History!Loaded
           = History!Latest([n \in 1 .. Cardinality(R) |-> History!EntryAt(History!Nth(R, n))])
    BY <2>1 DEF History!Loaded
  <2>5. [n \in 1 .. Cardinality(R) |-> History!EntryAt(History!Nth(R, n))]
           = [n \in 1 .. Cardinality(R) |-> at[NthOf(R, n)]]
    BY <2>3
  <2>6. \A log : History!Latest(log) = Newest(log)
    BY DEF History!Latest, Newest
  <2> HIDE DEF R
  <2>7. QED  BY <2>4, <2>5, <2>6
<1>7. QED  BY <1>5, <1>6
(* A whole piece with a line of its own is read from audit.log.    *)
LEMMA AuditLine ==
    ASSUME IsSequence(auditFile), NEW k \in DOMAIN auditFile,
           k = 1 \/ auditFile[k - 1].ended,
           auditFile[k].tabs = LogFields - 1, auditFile[k].exact = TRUE,
           auditFile[k].ended
    PROVE  /\ k \in Audit!Readable
           /\ Audit!EntryAt(k) = Exactly(auditFile[k].what)
<1> DEFINE tabs == [j \in DOMAIN auditFile |-> auditFile[j].tabs]
<1>1. k \in Nat /\ Max(StartsLine(auditFile, k)) = k
  BY LineOfOne
<1>2. Audit!LineStart(k) = k
  <2>1. \A S : Audit!Max(S) = Max(S)
    BY DEF Audit!Max, Max
  <2>2. Audit!LineStart(k) = Audit!Max(StartsLine(auditFile, k))
    BY DEF Audit!LineStart, StartsLine
  <2>3. QED  BY <1>1, <2>1, <2>2
<1>3. Audit!Tabs(k) = LogFields - 1
  <2>1. \A f : Audit!SumFunction(f) = SumFunction(f)
    BY DEF Audit!SumFunction, Audit!SumFunctionOnSet, Audit!FoldFunctionOnSet,
           Audit!MapThenFoldSet, SumFunction, SumFunctionOnSet, FoldFunctionOnSet,
           MapThenFoldSet
  <2>2. Audit!Tabs(k) = SumFunction([j \in k .. k |-> auditFile[j].tabs])
    BY <1>2, <2>1 DEF Audit!Tabs
  <2>3. [j \in k .. k |-> auditFile[j].tabs] = [j \in k .. k |-> tabs[j]]
    BY <1>1
  <2>4. tabs[k] = LogFields - 1 /\ tabs[k] \in Int
    OBVIOUS
  <2> HIDE DEF tabs
  <2>5. SumFunction([j \in k .. k |-> tabs[j]]) = tabs[k]
    BY <1>1, <2>4, TabsOfOne
  <2>6. QED  BY <2>2, <2>3, <2>4, <2>5
<1>4. k \in Audit!LineEnds
  BY DEF Audit!LineEnds
<1>5. k \in Audit!Readable
  BY <1>3, <1>4 DEF Audit!Readable
<1>6. Audit!EntryAt(k) = Exactly(auditFile[k].what)
  BY <1>2 DEF Audit!EntryAt, Audit!Entry, Exactly
<1>7. QED  BY <1>5, <1>6

(* What a start reads of audit.log shows the appends to it. *)
LEMMA AuditLoadedShows ==
    ASSUME IsSequence(auditFile), acted \in Seq(Appends),
           NEW p, Holds(p, auditFile, acted)
    PROVE  \E q : Shows(q, Audit!Loaded, acted)
<1> DEFINE R == Audit!Readable
           at == [k \in DOMAIN auditFile |-> Audit!EntryAt(k)]
<1>1. R \in SUBSET DOMAIN auditFile
  BY DEF Audit!Readable, Audit!LineEnds
<1>2. \A k \in DOMAIN auditFile : at[k].what = auditFile[k].what
  BY DEF Audit!EntryAt, Audit!Entry
<1>3. \A k \in DOMAIN auditFile : at[k] = Audit!EntryAt(k)
  OBVIOUS
<1> HIDE DEF at
<1>4. Reads(auditFile, R, at)
  BY <1>1, <1>2, <1>3, AuditLine DEF Reads
<1>5. \E q : Shows(q, Newest([n \in 1 .. Cardinality(R) |-> at[NthOf(R, n)]]), acted)
  <2> HIDE DEF R
  <2>1. QED  BY <1>4, LoadedShows
<1>6. Audit!Loaded = Newest([n \in 1 .. Cardinality(R) |-> at[NthOf(R, n)]])
  <2>1. \A S : Audit!Cardinality(S) = Cardinality(S)
    BY DEF Audit!Cardinality, Cardinality
  <2>2. \A n : Audit!Nth(R, n) = NthOf(R, n)
    BY <2>1 DEF Audit!Nth, NthOf
  <2>3. ASSUME NEW n \in 1 .. Cardinality(R)
        PROVE  Audit!EntryAt(Audit!Nth(R, n)) = at[NthOf(R, n)]
    <3>1. IsFiniteSet(R) /\ R \in SUBSET Nat
      BY <1>1, FS_Interval, FS_Subset DEF IsSequence
    <3> HIDE DEF R
    <3>2. NthOf(R, n) \in R
      BY <3>1, CountedInOrder
    <3>3. NthOf(R, n) \in DOMAIN auditFile
      BY <1>1, <3>2
    <3>4. QED  BY <1>3, <2>2, <3>3
  <2>4. Audit!Loaded
           = Audit!Latest([n \in 1 .. Cardinality(R) |-> Audit!EntryAt(Audit!Nth(R, n))])
    BY <2>1 DEF Audit!Loaded
  <2>5. [n \in 1 .. Cardinality(R) |-> Audit!EntryAt(Audit!Nth(R, n))]
           = [n \in 1 .. Cardinality(R) |-> at[NthOf(R, n)]]
    BY <2>3
  <2>6. \A log : Audit!Latest(log) = Newest(log)
    BY DEF Audit!Latest, Newest
  <2> HIDE DEF R
  <2>7. QED  BY <2>4, <2>5, <2>6
<1>7. QED  BY <1>5, <1>6

(* One more append, whatever became of its line. *)
LEMMA KeptGrows ==
    ASSUME NEW log, IsSequence(log), NEW file, IsSequence(file),
           NEW appended, LogKept(log, file, appended), NEW entry \in Appends,
           NEW log2, \/ log2 = Newest(Append(log, Exactly(entry.what)))
                     \/ log2 = log /\ entry.fate # "whole",
           NEW file2, \/ file2 = file /\ entry.fate = "missed"
                      \/ \E piece :
                            /\ file2 = Append(file, piece) /\ entry.fate # "missed"
                            /\ piece.what = entry.what
                            /\ entry.fate = "whole" =>
                                  piece.tabs = LogFields - 1 /\ piece.exact = TRUE /\ piece.ended
    PROVE  LogKept(log2, file2, Append(appended, entry))
<1>1. appended \in Seq(Appends) /\ Append(appended, entry) \in Seq(Appends)
  BY OneMoreAppend DEF LogKept
<1>2. \E q : Shows(q, log2, Append(appended, entry))
  <2>1. PICK q : Shows(q, log, appended)
    BY DEF LogKept
  <2>2. CASE log2 = log /\ entry.fate # "whole"
    BY <1>1, <2>1, <2>2, ShowsHarmed
  <2>3. CASE log2 = Newest(Append(log, Exactly(entry.what)))
    <3>1. PICK r : Shows(r, Append(log, Exactly(entry.what)), Append(appended, entry))
      BY <1>1, <2>1, ShowsOneMore
    <3>2. IsSequence(Append(log, Exactly(entry.what)))
      BY AppendIsSequence
    <3>3. QED  BY <1>1, <2>3, <3>1, <3>2, NewestShows
  <2>4. QED  BY <2>2, <2>3
<1>3. \E p : Holds(p, file2, Append(appended, entry))
  <2>1. PICK p : Holds(p, file, appended)
    BY DEF LogKept
  <2>2. CASE file2 = file /\ entry.fate = "missed"
    BY <1>1, <2>1, <2>2, HoldsMissed
  <2>3. CASE ~(file2 = file /\ entry.fate = "missed")
    BY <1>1, <2>1, <2>3, HoldsOneMore
  <2>4. QED  BY <2>2, <2>3
<1>4. QED  BY <1>1, <1>2, <1>3 DEF LogKept

(* The one entry that an earlier life of the server may have left. *)
LEMMA KeptAtFirst ==
    ASSUME NEW file, NEW appended,
           \/ file = <<>> /\ appended = <<>>
           \/ /\ appended = <<[what |-> 0, fate |-> "whole"]>>
              /\ \E piece : /\ file = <<piece>> /\ piece.what = 0
                            /\ piece.tabs = LogFields - 1 /\ piece.exact = TRUE /\ piece.ended
    PROVE  /\ IsSequence(file) /\ appended \in Seq(Appends)
           /\ \E p : Holds(p, file, appended)
<1>1. CASE file = <<>> /\ appended = <<>>
  <2>1. Holds(<<>>, file, appended)
    BY <1>1 DEF Holds, Climbs
  <2>2. file \in Seq({}) /\ appended \in Seq(Appends)
    BY <1>1
  <2>3. QED  BY <2>1, <2>2 DEF IsSequence
<1>2. CASE ~(file = <<>> /\ appended = <<>>)
  <2>1. PICK piece : /\ file = <<piece>> /\ piece.what = 0
                     /\ piece.tabs = LogFields - 1 /\ piece.exact = TRUE /\ piece.ended
    BY <1>2
  <2>2. /\ appended = <<[what |-> 0, fate |-> "whole"]>>
        /\ [what |-> 0, fate |-> "whole"] \in Appends
    BY <1>2 DEF Appends
  <2>3. file \in Seq({piece}) /\ appended \in Seq(Appends)
    BY <2>1, <2>2
  <2>4. /\ DOMAIN file = {1} /\ DOMAIN appended = {1} /\ file[1] = piece
        /\ appended[1].what = 0 /\ appended[1].fate = "whole"
    BY <2>1, <2>2
  <2> DEFINE p == [n \in {1} |-> 1]
  <2>5. p \in [{1} -> {1}] /\ p[1] = 1
    OBVIOUS
  <2>6. Climbs(p)
    BY DEF Climbs
  <2> HIDE DEF p
  <2>7. Holds(p, file, appended)
    BY <2>1, <2>4, <2>5, <2>6 DEF Holds
  <2>8. QED  BY <2>3, <2>7 DEF IsSequence
<1>3. QED  BY <1>1, <1>2

(* An append to pixel_history.log, of which the machine may die. *)
LEMMA HistoryGrows ==
    ASSUME LogFits(history, historyFile), LogKept(history, historyFile, placed),
           NEW what \in Nat,
           \/ History!AppendEntry(what) \/ History!AppendMissed(what)
           \/ History!AppendCut(what) \/ History!DieAppending(what)
    PROVE  /\ LogKept(history, historyFile, placed)'
           /\ \E fate \in {"whole", "missed", "cut"} :
                 placed' = Append(placed, [what |-> what, fate |-> fate])
<1>1. IsSequence(history) /\ IsSequence(historyFile)
  BY DEF LogFits
<1>2. PICK fate \in {"whole", "missed", "cut"} :
         /\ placed' = Append(placed, [what |-> what, fate |-> fate])
         /\ \/ history' = Newest(Append(history, Exactly(what)))
            \/ history' = history /\ fate # "whole"
         /\ \/ historyFile' = historyFile /\ fate = "missed"
            \/ \E piece :
                  /\ historyFile' = Append(historyFile, piece) /\ fate # "missed"
                  /\ piece.what = what
                  /\ fate = "whole" =>
                        piece.tabs = LogFields - 1 /\ piece.exact = TRUE /\ piece.ended
  <2>1. \A log : History!Latest(log) = Newest(log)
    BY DEF History!Latest, Newest
  <2>2. History!Show(what) => history' = Newest(Append(history, Exactly(what)))
    BY <2>1 DEF History!Show, History!Entry, Exactly
  <2>3. \A piece \in History!CutPieces(what) : piece.what = what
    BY DEF History!CutPieces, History!WholePiece
  <2>4. CASE History!AppendEntry(what)
    <3>1. /\ history' = Newest(Append(history, Exactly(what)))
          /\ historyFile' = Append(historyFile, History!WholePiece(what))
          /\ placed' = Append(placed, [what |-> what, fate |-> "whole"])
      BY <2>2, <2>4 DEF History!AppendEntry, History!Remember
    <3>2. LET piece == History!WholePiece(what)
          IN  /\ piece.what = what /\ piece.tabs = LogFields - 1
              /\ piece.exact = TRUE /\ piece.ended
      BY DEF History!WholePiece
    <3>3. QED  BY <3>1, <3>2
  <2>5. CASE History!AppendMissed(what)
    BY <2>2, <2>5 DEF History!AppendMissed, History!Remember
  <2>6. CASE History!AppendCut(what)
    <3>1. PICK piece : historyFile' = Append(historyFile, piece) /\ piece.what = what
      BY <2>3, <2>6 DEF History!AppendCut
    <3>2. /\ history' = Newest(Append(history, Exactly(what)))
          /\ placed' = Append(placed, [what |-> what, fate |-> "cut"])
      BY <2>2, <2>6 DEF History!AppendCut, History!Remember
    <3>3. QED  BY <3>1, <3>2
  <2>7. CASE History!DieAppending(what)
    <3>1. PICK piece : historyFile' = Append(historyFile, piece) /\ piece.what = what
      BY <2>3, <2>7 DEF History!DieAppending
    <3>2. history' = history /\ placed' = Append(placed, [what |-> what, fate |-> "cut"])
      BY <2>7 DEF History!DieAppending, History!Remember
    <3>3. QED  BY <3>1, <3>2
  <2>8. QED  BY <2>4, <2>5, <2>6, <2>7
<1> DEFINE entry == [what |-> what, fate |-> fate]
<1>3. entry \in Appends /\ entry.what = what /\ entry.fate = fate
  BY DEF Appends
<1> HIDE DEF entry
<1>4. placed' = Append(placed, entry)
  BY <1>2 DEF entry
<1>5. LogKept(history', historyFile', Append(placed, entry))
  BY <1>1, <1>2, <1>3, KeptGrows
<1>6. QED  BY <1>2, <1>4, <1>5

(* A start reads pixel_history.log. *)
LEMMA HistoryLoads ==
    ASSUME LogFits(history, historyFile), LogKept(history, historyFile, placed), History!Load
    PROVE  LogKept(history, historyFile, placed)' /\ placed' = placed
<1>1. history' = History!Loaded /\ historyFile' = historyFile /\ placed' = placed
  BY DEF History!Load
<1>2. PICK p : Holds(p, historyFile, placed)
  BY DEF LogKept
<1>3. \E q : Shows(q, History!Loaded, placed)
  BY <1>2, HistoryLoadedShows DEF LogFits, LogKept
<1>4. QED  BY <1>1, <1>2, <1>3 DEF LogKept

(* pixel_history.log at first. *)
LEMMA HistoryAtFirst ==
    ASSUME History!StartsWith(0) \/ History!StartsEmpty
    PROVE  LogKept(history, historyFile, placed)
<1>1. /\ IsSequence(historyFile) /\ placed \in Seq(Appends)
      /\ \E p : Holds(p, historyFile, placed)
  <2>1. /\ History!WholePiece(0).what = 0 /\ History!WholePiece(0).tabs = LogFields - 1
        /\ History!WholePiece(0).exact = TRUE /\ History!WholePiece(0).ended
    BY DEF History!WholePiece
  <2>2. QED  BY <2>1, KeptAtFirst DEF History!StartsWith, History!StartsEmpty
<1>2. \E q : Shows(q, history, placed)
  <2>1. CASE History!StartsWith(0)
    <3>1. history = History!Loaded
      BY <2>1 DEF History!StartsWith
    <3>2. QED  BY <1>1, <3>1, HistoryLoadedShows
  <2>2. CASE History!StartsEmpty
    <3>1. history = <<>> /\ placed = <<>>
      BY <2>2 DEF History!StartsEmpty
    <3>2. Shows(<<>>, history, placed)
      BY <3>1 DEF Shows, Climbs
    <3>3. QED  BY <3>2
  <2>3. QED  BY <2>1, <2>2
<1>3. QED  BY <1>1, <1>2 DEF LogKept

(* An append to audit.log, of which the machine may die. *)
LEMMA AuditGrows ==
    ASSUME LogFits(audit, auditFile), LogKept(audit, auditFile, acted),
           NEW what \in Nat,
           \/ Audit!AppendEntry(what) \/ Audit!AppendMissed(what)
           \/ Audit!AppendCut(what) \/ Audit!DieAppending(what)
    PROVE  /\ LogKept(audit, auditFile, acted)'
           /\ \E fate \in {"whole", "missed", "cut"} :
                 acted' = Append(acted, [what |-> what, fate |-> fate])
<1>1. IsSequence(audit) /\ IsSequence(auditFile)
  BY DEF LogFits
<1>2. PICK fate \in {"whole", "missed", "cut"} :
         /\ acted' = Append(acted, [what |-> what, fate |-> fate])
         /\ \/ audit' = Newest(Append(audit, Exactly(what)))
            \/ audit' = audit /\ fate # "whole"
         /\ \/ auditFile' = auditFile /\ fate = "missed"
            \/ \E piece :
                  /\ auditFile' = Append(auditFile, piece) /\ fate # "missed"
                  /\ piece.what = what
                  /\ fate = "whole" =>
                        piece.tabs = LogFields - 1 /\ piece.exact = TRUE /\ piece.ended
  <2>1. \A log : Audit!Latest(log) = Newest(log)
    BY DEF Audit!Latest, Newest
  <2>2. Audit!Show(what) => audit' = Newest(Append(audit, Exactly(what)))
    BY <2>1 DEF Audit!Show, Audit!Entry, Exactly
  <2>3. \A piece \in Audit!CutPieces(what) : piece.what = what
    BY DEF Audit!CutPieces, Audit!WholePiece
  <2>4. CASE Audit!AppendEntry(what)
    <3>1. /\ audit' = Newest(Append(audit, Exactly(what)))
          /\ auditFile' = Append(auditFile, Audit!WholePiece(what))
          /\ acted' = Append(acted, [what |-> what, fate |-> "whole"])
      BY <2>2, <2>4 DEF Audit!AppendEntry, Audit!Remember
    <3>2. LET piece == Audit!WholePiece(what)
          IN  /\ piece.what = what /\ piece.tabs = LogFields - 1
              /\ piece.exact = TRUE /\ piece.ended
      BY DEF Audit!WholePiece
    <3>3. QED  BY <3>1, <3>2
  <2>5. CASE Audit!AppendMissed(what)
    BY <2>2, <2>5 DEF Audit!AppendMissed, Audit!Remember
  <2>6. CASE Audit!AppendCut(what)
    <3>1. PICK piece : auditFile' = Append(auditFile, piece) /\ piece.what = what
      BY <2>3, <2>6 DEF Audit!AppendCut
    <3>2. /\ audit' = Newest(Append(audit, Exactly(what)))
          /\ acted' = Append(acted, [what |-> what, fate |-> "cut"])
      BY <2>2, <2>6 DEF Audit!AppendCut, Audit!Remember
    <3>3. QED  BY <3>1, <3>2
  <2>7. CASE Audit!DieAppending(what)
    <3>1. PICK piece : auditFile' = Append(auditFile, piece) /\ piece.what = what
      BY <2>3, <2>7 DEF Audit!DieAppending
    <3>2. audit' = audit /\ acted' = Append(acted, [what |-> what, fate |-> "cut"])
      BY <2>7 DEF Audit!DieAppending, Audit!Remember
    <3>3. QED  BY <3>1, <3>2
  <2>8. QED  BY <2>4, <2>5, <2>6, <2>7
<1> DEFINE entry == [what |-> what, fate |-> fate]
<1>3. entry \in Appends /\ entry.what = what /\ entry.fate = fate
  BY DEF Appends
<1> HIDE DEF entry
<1>4. acted' = Append(acted, entry)
  BY <1>2 DEF entry
<1>5. LogKept(audit', auditFile', Append(acted, entry))
  BY <1>1, <1>2, <1>3, KeptGrows
<1>6. QED  BY <1>2, <1>4, <1>5

(* A start reads audit.log. *)
LEMMA AuditLoads ==
    ASSUME LogFits(audit, auditFile), LogKept(audit, auditFile, acted), Audit!Load
    PROVE  LogKept(audit, auditFile, acted)' /\ acted' = acted
<1>1. audit' = Audit!Loaded /\ auditFile' = auditFile /\ acted' = acted
  BY DEF Audit!Load
<1>2. PICK p : Holds(p, auditFile, acted)
  BY DEF LogKept
<1>3. \E q : Shows(q, Audit!Loaded, acted)
  BY <1>2, AuditLoadedShows DEF LogFits, LogKept
<1>4. QED  BY <1>1, <1>2, <1>3 DEF LogKept

(* audit.log at first. *)
LEMMA AuditAtFirst ==
    ASSUME Audit!StartsWith(0) \/ Audit!StartsEmpty
    PROVE  LogKept(audit, auditFile, acted)
<1>1. /\ IsSequence(auditFile) /\ acted \in Seq(Appends)
      /\ \E p : Holds(p, auditFile, acted)
  <2>1. /\ Audit!WholePiece(0).what = 0 /\ Audit!WholePiece(0).tabs = LogFields - 1
        /\ Audit!WholePiece(0).exact = TRUE /\ Audit!WholePiece(0).ended
    BY DEF Audit!WholePiece
  <2>2. QED  BY <2>1, KeptAtFirst DEF Audit!StartsWith, Audit!StartsEmpty
<1>2. \E q : Shows(q, audit, acted)
  <2>1. CASE Audit!StartsWith(0)
    <3>1. audit = Audit!Loaded
      BY <2>1 DEF Audit!StartsWith
    <3>2. QED  BY <1>1, <3>1, AuditLoadedShows
  <2>2. CASE Audit!StartsEmpty
    <3>1. audit = <<>> /\ acted = <<>>
      BY <2>2 DEF Audit!StartsEmpty
    <3>2. Shows(<<>>, audit, acted)
      BY <3>1 DEF Shows, Climbs
    <3>3. QED  BY <3>2
  <2>3. QED  BY <2>1, <2>2
<1>3. QED  BY <1>1, <1>2 DEF LogKept

----------------------------------------------------------------------------
(* Who is answered, and whom the logs name. *)

Whats(appended) == {appended[i].what : i \in DOMAIN appended}

(* The handlers that have appended. *)
Logged == Whats(placed) \cup Whats(acted)

(* A handler is at work on the thread. *)
Busy(t) == job[t].pc # "idle"

(* A handler has its number alone; who was answered has none at work.      *)
Serials ==
    /\ jobs \in 0 .. MaxJobs /\ told \subseteq 1 .. jobs
    /\ DOMAIN earlier = 1 .. MaxJobs
    /\ \A n \in 1 .. MaxJobs : earlier[n] \subseteq told
    /\ \A t \in Threads : Busy(t) => job[t].serial \in (1 .. jobs) \ told
    /\ \A t, u \in Threads : t # u /\ Busy(t) /\ Busy(u) => job[t].serial # job[u].serial

(* No append was made of a handler that the one of an append before it had *)
(* found answered.                                                         *)
InOrder(appended) ==
    \A i, j \in DOMAIN appended :
        i < j /\ appended[i].what # 0 => appended[j].what \notin earlier[appended[i].what]

(* Who answers has appended. *)
Logging ==
    /\ Logged \subseteq 0 .. jobs /\ told \subseteq Logged
    /\ \A t \in Threads : job[t].pc = "reply" => job[t].serial \in Logged
    /\ InOrder(placed) /\ InOrder(acted)

(* The invariant of the logs, beside IInv. *)
LogInv ==
    /\ LogKept(history, historyFile, placed) /\ LogKept(audit, auditFile, acted)
    /\ Serials /\ Logging

(* No handler begins, none gets to its answer, and none changes number.    *)
SerialsStay ==
    \A u \in Threads :
        job'[u].pc # "idle" =>
            /\ job[u].pc # "idle" /\ job'[u].serial = job[u].serial
            /\ job'[u].pc = "reply" => job[u].pc = "reply"

(* A step of one thread that does not get to its answer.                   *)
LEMMA OneStays ==
    ASSUME NEW t \in Threads, Alone(t), job[t].pc # "idle",
           \/ job'[t].pc = "idle"
           \/ job'[t].serial = job[t].serial /\ job'[t].pc # "reply"
    PROVE  SerialsStay
BY DEF Alone, SerialsStay

(* A step of no log, in which no handler begins or answers, keeps all this.*)
LEMMA SerialsQuiet ==
    ASSUME LogInv, SerialsStay, UNCHANGED logs, told' = told, earlier' = earlier, jobs' = jobs
    PROVE  LogInv'
<1>1. /\ history' = history /\ historyFile' = historyFile /\ placed' = placed
      /\ audit' = audit /\ auditFile' = auditFile /\ acted' = acted
  BY DEF logs, historyVars, auditVars
<1>2. LogKept(history, historyFile, placed)' /\ LogKept(audit, auditFile, acted)'
  BY <1>1 DEF LogInv
<1>3. Serials'
  <2>1. \A t \in Threads : Busy(t)' => Busy(t) /\ job'[t].serial = job[t].serial
    BY DEF SerialsStay, Busy
  <2>2. /\ \A t \in Threads : Busy(t)' => job'[t].serial \in (1 .. jobs) \ told
        /\ \A t, u \in Threads : t # u /\ Busy(t)' /\ Busy(u)' => job'[t].serial # job'[u].serial
    BY <2>1 DEF LogInv, Serials
  <2>3. /\ jobs' \in 0 .. MaxJobs /\ told' \subseteq 1 .. jobs'
        /\ DOMAIN earlier' = 1 .. MaxJobs
        /\ \A n \in 1 .. MaxJobs : earlier'[n] \subseteq told'
    BY DEF LogInv, Serials
  <2>4. QED  BY <2>2, <2>3 DEF Serials
<1>4. Logging'
  <2>1. Logged' = Logged /\ InOrder(placed)' /\ InOrder(acted)'
    BY <1>1 DEF LogInv, Logging, Logged, InOrder
  <2>2. \A t \in Threads : job'[t].pc = "reply" =>
           job[t].pc = "reply" /\ job'[t].serial = job[t].serial
    BY DEF SerialsStay
  <2>3. QED  BY <2>1, <2>2 DEF LogInv, Logging
<1>5. QED  BY <1>2, <1>3, <1>4 DEF LogInv

(* What has a handler of the fields of its job. *)
LEMMA BusyHasJob ==
    ASSUME Shapes, NEW t \in Threads, job[t].pc # "idle"
    PROVE  job[t] \in Jobs /\ DOMAIN job = Threads
BY BusyIsJob DEF Shapes, JobsFit, IsJob

(* A pixel is set, or the map reset.                                       *)
LEMMA ChangeSerials ==
    ASSUME Shapes, NEW t \in Threads,
           \/ \E x \in Columns, y \in Rows, color \in Asked : DoSetPixel(t, x, y, color)
           \/ \E color \in Asked : DoReset(t, color)
    PROVE  SerialsStay
<1>1. Alone(t) /\ job[t].pc \in {"setPixel", "reset"} /\ job'[t].pc = "open"
  BY ChangeStep
<1>2. job[t] \in Jobs /\ DOMAIN job = Threads
  BY <1>1, BusyHasJob
<1>3. job' = [job EXCEPT ![t].pc = "open", ![t].number = sequence', ![t].lasting = sequence']
  BY DEF DoSetPixel, DoReset
<1>4. job'[t].serial = job[t].serial
  BY <1>2, <1>3 DEF Jobs
<1>5. QED  BY <1>1, <1>4, OneStays

(* A backup gets its name.                                                 *)
LEMMA StampSerials == ASSUME Shapes, NEW t \in Threads, Stamp(t) PROVE SerialsStay
<1>1. Alone(t) /\ job[t].pc = "stamp" /\ job'[t].pc = "open"
  BY StampStep
<1>2. job[t] \in Jobs /\ DOMAIN job = Threads
  BY <1>1, BusyHasJob
<1>3. PICK id : job' = [job EXCEPT ![t] = [job[t] EXCEPT !.pc = "open", !.target = "backup",
                                       !.id = id, !.number = sequence, !.lasting = sequence]]
  BY StampName
<1>4. job'[t].serial = job[t].serial
  BY <1>2, <1>3 DEF Jobs
<1>5. QED  BY <1>1, <1>4, OneStays

(* A rollback looks for its backup, and reads it.                          *)
LEMMA FindSerials == ASSUME Shapes, NEW t \in Threads, LooksUp(t) PROVE SerialsStay
<1>1. /\ Alone(t) /\ job[t].pc # "idle"
      /\ \/ job'[t].pc = "idle"
         \/ Carries(t) /\ job'[t].pc \in {"stamp", "read", "install"}
  BY FindStep
<1>2. QED  BY <1>1, OneStays DEF Carries

(* A rollback puts the backup in the place of the map, under every job.    *)
LEMMA InstallSerials == ASSUME Shapes, NEW t \in Threads, DoInstall(t) PROVE SerialsStay
<1>1. /\ job[t].pc = "install" /\ job'[t].pc = "open"
      /\ \A u \in Threads \ {t} :
            IF job[u].pc = "idle" THEN job'[u] = job[u] ELSE TakenBack(u)
  BY InstallStep
<1>2. job'[t].serial = job[t].serial
  BY InstallJob DEF Shapes
<1>3. QED  BY <1>1, <1>2 DEF SerialsStay, TakenBack

(* The steps that are not of the logs, nor the first or the last one of a  *)
(* handler.                                                                *)
LEMMA OtherSerials ==
    ASSUME Shapes, NEW t \in Threads,
           \/ OpenSave(t) \/ OpenFails(t) \/ \E n \in 0 .. Size : Flush(t, n)
           \/ CloseSave(t) \/ CloseWithLoss(t) \/ SaveBmp(t) \/ WriteMetadata(t)
    PROVE  SerialsStay
<1> DEFINE Goes == /\ Alone(t) /\ job[t].pc # "idle"
                   /\ job'[t].pc = "idle" \/ (Keeps(t) /\ job'[t].pc # "reply")
<1>1. OpenSave(t) \/ (\E n \in 0 .. Size : Flush(t, n)) => Goes
  BY OpenStep, FlushStep
<1>2. OpenFails(t) \/ WriteMetadata(t) => Goes
  BY FailStep, MetaStep
<1>3. CloseSave(t) \/ CloseWithLoss(t) \/ SaveBmp(t) => Goes
  BY CloseStep, BmpStep
<1>4. QED  BY <1>1, <1>2, <1>3, OneStays DEF Keeps

(* A handler begins: what it finds answered is older than itself. *)
LEMMA StartLogs ==
    ASSUME Shapes, LogInv, NEW t \in Threads, NEW kind \in Kinds, Start(t, kind)
    PROVE  LogInv'
<1>1. /\ history' = history /\ historyFile' = historyFile /\ placed' = placed
      /\ audit' = audit /\ auditFile' = auditFile /\ acted' = acted
  BY DEF Start, files, logs, historyVars, auditVars
<1>2. LogKept(history, historyFile, placed)' /\ LogKept(audit, auditFile, acted)'
  BY <1>1 DEF LogInv
<1>3. /\ jobs \in Nat /\ jobs < MaxJobs /\ jobs' = jobs + 1 /\ told' = told
      /\ earlier' = [earlier EXCEPT ![jobs + 1] = told]
  BY DEF Start, LogInv, Serials
<1>4. /\ Alone(t) /\ job[t].pc = "idle" /\ job'[t].pc \in {"setPixel", "stamp", "find"}
      /\ job'[t].serial = jobs + 1
  <2>1. Alone(t) /\ job[t].pc = "idle" /\ job'[t].pc \in {"setPixel", "stamp", "find"}
    BY StartStep
  <2>2. job'[t].serial = jobs + 1
    BY DEF Start, Shapes, JobsFit
  <2>3. QED  BY <2>1, <2>2
<1>5. \A u \in Threads : Busy(u)' => u = t \/ (Busy(u) /\ job'[u].serial = job[u].serial)
  BY <1>4 DEF Alone, Busy
<1>6. \A u \in Threads : Busy(u) => job[u].serial \in 1 .. jobs /\ job[u].serial \notin told
  BY DEF LogInv, Serials
<1>7. told \subseteq 1 .. jobs /\ jobs + 1 \notin 1 .. jobs /\ 1 .. jobs \subseteq 1 .. (jobs + 1)
      /\ jobs + 1 \in 1 .. MaxJobs /\ 0 .. jobs \subseteq 0 .. (jobs + 1)
  BY <1>3 DEF LogInv, Serials
<1>8. Serials'
  <2>1. jobs' \in 0 .. MaxJobs /\ told' \subseteq 1 .. jobs'
    BY <1>3, <1>7
  <2>2. DOMAIN earlier' = 1 .. MaxJobs /\ \A n \in 1 .. MaxJobs : earlier'[n] \subseteq told'
    BY <1>3, <1>7 DEF LogInv, Serials
  <2>3. ASSUME NEW u \in Threads, Busy(u)' PROVE job'[u].serial \in (1 .. jobs') \ told'
    <3>1. CASE u = t
      BY <1>3, <1>4, <1>7, <3>1
    <3>2. CASE u # t
      BY <1>3, <1>5, <1>6, <1>7, <2>3, <3>2
    <3>3. QED  BY <3>1, <3>2
  <2>4. ASSUME NEW u \in Threads, NEW v \in Threads, u # v, Busy(u)', Busy(v)'
        PROVE  job'[u].serial # job'[v].serial
    <3>1. CASE u = t
      BY <1>4, <1>5, <1>6, <1>7, <2>4, <3>1
    <3>2. CASE v = t
      BY <1>4, <1>5, <1>6, <1>7, <2>4, <3>2
    <3>3. CASE u # t /\ v # t
      BY <1>5, <2>4, <3>3 DEF LogInv, Serials
    <3>4. QED  BY <3>1, <3>2, <3>3
  <2>5. QED  BY <2>1, <2>2, <2>3, <2>4 DEF Serials
<1>9. Logging'
  <2>1. Logged' = Logged /\ Logged \subseteq 0 .. jobs
    BY <1>1 DEF Logged, LogInv, Logging
  <2>2. Logged' \subseteq 0 .. jobs' /\ told' \subseteq Logged'
    BY <1>3, <1>7, <2>1 DEF LogInv, Logging
  <2>3. \A u \in Threads : job'[u].pc = "reply" => job'[u].serial \in Logged'
    BY <1>4, <2>1 DEF Alone, LogInv, Logging
  <2>4. \A n \in 0 .. jobs : n # 0 => earlier'[n] = earlier[n]
    BY <1>3 DEF LogInv, Serials
  <2>5. \A i \in DOMAIN placed : placed[i].what \in 0 .. jobs
    BY <2>1 DEF Logged, Whats
  <2>6. \A i \in DOMAIN acted : acted[i].what \in 0 .. jobs
    BY <2>1 DEF Logged, Whats
  <2>7. InOrder(placed)'
    BY <1>1, <2>4, <2>5 DEF LogInv, Logging, InOrder
  <2>8. InOrder(acted)'
    BY <1>1, <2>4, <2>6 DEF LogInv, Logging, InOrder
  <2>9. QED  BY <2>2, <2>3, <2>7, <2>8 DEF Logging
<1>10. QED  BY <1>2, <1>8, <1>9 DEF LogInv

(* The append of a handler that nobody found answered comes in order. *)
LEMMA OrderGrows ==
    ASSUME NEW appended, appended \in Seq(Appends), InOrder(appended),
           Whats(appended) \subseteq 0 .. MaxJobs,
           NEW entry \in Appends, \A n \in 1 .. MaxJobs : entry.what \notin earlier[n]
    PROVE  /\ InOrder(Append(appended, entry))
           /\ Whats(Append(appended, entry)) = Whats(appended) \cup {entry.what}
<1> DEFINE more == Append(appended, entry)
           N == Len(appended)
<1>1. /\ N \in Nat /\ DOMAIN appended = 1 .. N
      /\ DOMAIN more = 1 .. (N + 1) /\ more[N + 1] = entry
      /\ \A i \in 1 .. N : more[i] = appended[i]
  BY OneMoreAppend
<1> HIDE DEF more, N
<1>2. \A i \in 1 .. (N + 1) : i \in 1 .. N \/ i = N + 1
  BY <1>1
<1>3. N + 1 \in 1 .. (N + 1) /\ 1 .. N \subseteq 1 .. (N + 1)
  BY <1>1
<1>4. Whats(more) = Whats(appended) \cup {entry.what}
  BY <1>1, <1>2, <1>3 DEF Whats
<1>5. ASSUME NEW i \in DOMAIN more, NEW j \in DOMAIN more, i < j, more[i].what # 0
      PROVE  more[j].what \notin earlier[more[i].what]
  <2>1. i \in 1 .. N /\ more[i] = appended[i]
    BY <1>1, <1>5
  <2>2. CASE j \in 1 .. N
    BY <1>1, <1>5, <2>1, <2>2 DEF InOrder
  <2>3. CASE j = N + 1
    <3>1. appended[i].what \in 0 .. MaxJobs /\ appended[i].what # 0
      BY <1>1, <1>5, <2>1 DEF Whats
    <3>2. appended[i].what \in 1 .. MaxJobs
      BY <3>1
    <3>3. QED  BY <1>1, <2>1, <2>3, <3>2
  <2>4. QED  BY <1>1, <1>2, <2>2, <2>3
<1>6. InOrder(more)
  BY <1>5 DEF InOrder
<1>7. QED  BY <1>4, <1>6 DEF more

(* What the serials of handlers at work are. *)
LEMMA BusySerial ==
    ASSUME Serials, NEW t \in Threads, job[t].pc # "idle"
    PROVE  /\ job[t].serial \in 1 .. jobs /\ job[t].serial \notin told
           /\ job[t].serial \in Nat /\ 0 .. jobs \subseteq 0 .. MaxJobs
           /\ \A n \in 1 .. MaxJobs : job[t].serial \notin earlier[n]
<1>1. job[t].serial \in 1 .. jobs /\ job[t].serial \notin told /\ jobs \in Nat /\ jobs <= MaxJobs
  BY DEF Serials, Busy
<1>2. \A n \in 1 .. MaxJobs : earlier[n] \subseteq told
  BY DEF Serials
<1>3. QED  BY <1>1, <1>2

(* The numbers stay while a thread goes on to its answer, or stops. *)
LEMMA SerialsOf ==
    ASSUME Serials, told' = told, earlier' = earlier, jobs' = jobs,
           \A u \in Threads : job'[u].pc # "idle" =>
              job[u].pc # "idle" /\ job'[u].serial = job[u].serial
    PROVE  Serials'
<1>1. \A u \in Threads : Busy(u)' => Busy(u) /\ job'[u].serial = job[u].serial
  BY DEF Busy
<1>2. /\ \A u \in Threads : Busy(u)' => job'[u].serial \in (1 .. jobs) \ told
      /\ \A u, v \in Threads : u # v /\ Busy(u)' /\ Busy(v)' => job'[u].serial # job'[v].serial
  BY <1>1 DEF Serials
<1>3. /\ jobs' \in 0 .. MaxJobs /\ told' \subseteq 1 .. jobs' /\ DOMAIN earlier' = 1 .. MaxJobs
      /\ \A n \in 1 .. MaxJobs : earlier'[n] \subseteq told'
  BY DEF Serials
<1>4. QED  BY <1>2, <1>3 DEF Serials

(* A handler appends to one of the logs, and gets to its answer or dies.   *)
LEMMA AppendedLogs ==
    ASSUME LogInv, LogKept(history, historyFile, placed)', LogKept(audit, auditFile, acted)',
           NEW t \in Threads, job[t].pc # "idle", NEW fate \in {"whole", "missed", "cut"},
           LET entry == [what |-> job[t].serial, fate |-> fate]
           IN  \/ placed' = Append(placed, entry) /\ acted' = acted
               \/ acted' = Append(acted, entry) /\ placed' = placed,
           told' = told, earlier' = earlier, jobs' = jobs,
           \A u \in Threads : job'[u].pc # "idle" =>
              /\ job[u].pc # "idle" /\ job'[u].serial = job[u].serial
              /\ u # t => job'[u].pc = job[u].pc
    PROVE  LogInv'
<1> DEFINE entry == [what |-> job[t].serial, fate |-> fate]
<1>1. /\ job[t].serial \in 1 .. jobs /\ job[t].serial \in Nat
      /\ 0 .. jobs \subseteq 0 .. MaxJobs
      /\ \A n \in 1 .. MaxJobs : job[t].serial \notin earlier[n]
  BY BusySerial DEF LogInv
<1>2. entry \in Appends /\ entry.what = job[t].serial
  BY <1>1 DEF Appends
<1>3. placed \in Seq(Appends) /\ acted \in Seq(Appends)
  BY DEF LogInv, LogKept
<1>4. /\ Whats(placed) \subseteq 0 .. MaxJobs /\ Whats(acted) \subseteq 0 .. MaxJobs
      /\ InOrder(placed) /\ InOrder(acted) /\ Logged \subseteq 0 .. jobs /\ told \subseteq Logged
  BY <1>1 DEF LogInv, Logging, Logged
<1>5. \/ placed' = Append(placed, entry) /\ acted' = acted
      \/ acted' = Append(acted, entry) /\ placed' = placed
  OBVIOUS
<1> HIDE DEF entry
<1>6. /\ InOrder(placed') /\ InOrder(acted')
      /\ Whats(placed') \cup Whats(acted') = Logged \cup {job[t].serial}
  <2>1. /\ InOrder(Append(placed, entry))
        /\ Whats(Append(placed, entry)) = Whats(placed) \cup {job[t].serial}
    BY <1>1, <1>2, <1>3, <1>4, OrderGrows
  <2>2. /\ InOrder(Append(acted, entry))
        /\ Whats(Append(acted, entry)) = Whats(acted) \cup {job[t].serial}
    BY <1>1, <1>2, <1>3, <1>4, OrderGrows
  <2>3. CASE placed' = Append(placed, entry) /\ acted' = acted
    BY <1>4, <2>1, <2>3 DEF Logged
  <2>4. CASE acted' = Append(acted, entry) /\ placed' = placed
    BY <1>4, <2>2, <2>4 DEF Logged
  <2>5. QED  BY <1>5, <2>3, <2>4
<1>7. Logged' = Logged \cup {job[t].serial}
  BY <1>6 DEF Logged, Whats
<1>8. InOrder(placed)' /\ InOrder(acted)'
  BY <1>6 DEF InOrder
<1>9. \A u \in Threads : job'[u].pc = "reply" => job'[u].serial \in Logged'
  BY <1>7 DEF LogInv, Logging
<1>10. Logging'
  <2>1. Logged' \subseteq 0 .. jobs' /\ told' \subseteq Logged'
    <3>1. job[t].serial \in 0 .. jobs
      BY <1>1
    <3>2. QED  BY <1>4, <1>7, <3>1
  <2>2. QED  BY <1>8, <1>9, <2>1 DEF Logging
<1>11. Serials'
  BY SerialsOf DEF LogInv
<1>12. QED  BY <1>10, <1>11 DEF LogInv

(* The append of a handler. *)
LEMMA AppendLogs ==
    ASSUME Shapes, LogInv, NEW t \in Threads, AppendHistory(t) \/ AppendAudit(t)
    PROVE  LogInv'
<1>1. /\ Alone(t) /\ job'[t].serial = job[t].serial /\ job[t].pc \in {"history", "audit"}
      /\ told' = told /\ earlier' = earlier /\ jobs' = jobs
  BY AppendStep DEF Keeps, AppendHistory, AppendAudit, ghosts, answers
<1>2. \A u \in Threads : job'[u].pc # "idle" =>
         /\ job[u].pc # "idle" /\ job'[u].serial = job[u].serial
         /\ u # t => job'[u].pc = job[u].pc
  BY <1>1 DEF Alone
<1>3. job[t].serial \in Nat /\ job[t].pc # "idle"
  BY <1>1, BusySerial DEF LogInv
<1>4. CASE AppendHistory(t)
  <2>1. /\ \/ History!AppendEntry(job[t].serial) \/ History!AppendMissed(job[t].serial)
           \/ History!AppendCut(job[t].serial)
        /\ audit' = audit /\ auditFile' = auditFile /\ acted' = acted
    BY <1>4 DEF AppendHistory, auditVars
  <2>2. /\ LogKept(history, historyFile, placed)'
        /\ \E fate \in {"whole", "missed", "cut"} :
              placed' = Append(placed, [what |-> job[t].serial, fate |-> fate])
    BY <1>3, <2>1, HistoryGrows DEF Shapes, LogsFit, LogInv
  <2>3. LogKept(audit, auditFile, acted)'
    BY <2>1 DEF LogInv
  <2>4. QED  BY <1>1, <1>2, <1>3, <2>1, <2>2, <2>3, AppendedLogs
<1>5. CASE AppendAudit(t)
  <2>1. /\ \/ Audit!AppendEntry(job[t].serial) \/ Audit!AppendMissed(job[t].serial)
           \/ Audit!AppendCut(job[t].serial)
        /\ history' = history /\ historyFile' = historyFile /\ placed' = placed
    BY <1>5 DEF AppendAudit, historyVars
  <2>2. /\ LogKept(audit, auditFile, acted)'
        /\ \E fate \in {"whole", "missed", "cut"} :
              acted' = Append(acted, [what |-> job[t].serial, fate |-> fate])
    BY <1>3, <2>1, AuditGrows DEF Shapes, LogsFit, LogInv
  <2>3. LogKept(history, historyFile, placed)'
    BY <2>1 DEF LogInv
  <2>4. QED  BY <1>1, <1>2, <1>3, <2>1, <2>2, <2>3, AppendedLogs
<1>6. QED  BY <1>4, <1>5

(* The process dies, perhaps in the middle of a line of one of the logs.   *)
LEMMA CrashLogs == ASSUME Shapes, LogInv, Crash PROVE LogInv'
<1>1. \A u \in Threads : job'[u].pc = "idle"
  BY CrashStep
<1>2. told' = told /\ earlier' = earlier /\ jobs' = jobs
  BY DEF Crash, ghosts, answers
<1>3. CASE UNCHANGED logs
  BY <1>1, <1>2, <1>3, SerialsQuiet DEF SerialsStay
<1>4. ASSUME NEW t \in Threads, At(t, "history"), History!DieAppending(job[t].serial),
             UNCHANGED auditVars
      PROVE  LogInv'
  <2>1. job[t].pc # "idle" /\ job[t].serial \in Nat
    BY <1>4, BusySerial DEF At, LogInv
  <2>2. audit' = audit /\ auditFile' = auditFile /\ acted' = acted
    BY <1>4 DEF auditVars
  <2>3. /\ LogKept(history, historyFile, placed)'
        /\ \E fate \in {"whole", "missed", "cut"} :
              placed' = Append(placed, [what |-> job[t].serial, fate |-> fate])
    BY <1>4, <2>1, HistoryGrows DEF Shapes, LogsFit, LogInv
  <2>4. LogKept(audit, auditFile, acted)'
    BY <2>2 DEF LogInv
  <2>5. QED  BY <1>1, <1>2, <2>1, <2>2, <2>3, <2>4, AppendedLogs
<1>5. ASSUME NEW t \in Threads, At(t, "audit"), Audit!DieAppending(job[t].serial),
             UNCHANGED historyVars
      PROVE  LogInv'
  <2>1. job[t].pc # "idle" /\ job[t].serial \in Nat
    BY <1>5, BusySerial DEF At, LogInv
  <2>2. history' = history /\ historyFile' = historyFile /\ placed' = placed
    BY <1>5 DEF historyVars
  <2>3. /\ LogKept(audit, auditFile, acted)'
        /\ \E fate \in {"whole", "missed", "cut"} :
              acted' = Append(acted, [what |-> job[t].serial, fate |-> fate])
    BY <1>5, <2>1, AuditGrows DEF Shapes, LogsFit, LogInv
  <2>4. LogKept(history, historyFile, placed)'
    BY <2>2 DEF LogInv
  <2>5. QED  BY <1>1, <1>2, <2>1, <2>2, <2>3, <2>4, AppendedLogs
<1>6. QED  BY <1>3, <1>4, <1>5 DEF Crash

(* The process starts: the logs are what their files say. *)
LEMMA BootLogs == ASSUME Shapes, DownIsIdle, LogInv, Boot PROVE LogInv'
<1>1. History!Load /\ Audit!Load /\ told' = told /\ earlier' = earlier /\ jobs' = jobs
      /\ job' = job
  BY DEF Boot, counters
<1>2. LogKept(history, historyFile, placed)' /\ placed' = placed
  BY <1>1, HistoryLoads DEF Shapes, LogsFit, LogInv
<1>3. LogKept(audit, auditFile, acted)' /\ acted' = acted
  BY <1>1, AuditLoads DEF Shapes, LogsFit, LogInv
<1>4. Serials'
  BY <1>1, SerialsOf DEF LogInv
<1>5. Logging'
  BY <1>1, <1>2, <1>3 DEF LogInv, Logging, Logged, InOrder
<1>6. QED  BY <1>2, <1>3, <1>4, <1>5 DEF LogInv

(* A handler answers: it has appended, and works no more. *)
LEMMA ReplyLogs == ASSUME Shapes, LogInv, NEW t \in Threads, Reply(t) PROVE LogInv'
<1>1. /\ Alone(t) /\ job[t].pc = "reply" /\ job'[t].pc = "idle"
      /\ told' = told \cup {job[t].serial} /\ earlier' = earlier /\ jobs' = jobs
  BY ReplyStep DEF Reply, counters
<1>2. /\ history' = history /\ historyFile' = historyFile /\ placed' = placed
      /\ audit' = audit /\ auditFile' = auditFile /\ acted' = acted
  BY DEF Reply, files, logs, historyVars, auditVars
<1>3. LogKept(history, historyFile, placed)' /\ LogKept(audit, auditFile, acted)'
  BY <1>2 DEF LogInv
<1>4. job[t].serial \in 1 .. jobs /\ job[t].serial \in Logged
  BY <1>1, BusySerial DEF LogInv, Logging
<1>5. \A u \in Threads : job'[u].pc # "idle" => u # t /\ job'[u] = job[u]
  BY <1>1 DEF Alone
<1>6. Serials'
  <2>1. \A u \in Threads : Busy(u)' => u # t /\ Busy(u) /\ job'[u] = job[u]
    BY <1>5 DEF Busy
  <2>2. Busy(t)
    BY <1>1 DEF Busy
  <2>3. ASSUME NEW u \in Threads, Busy(u)' PROVE job'[u].serial \in (1 .. jobs) \ told'
    <3>1. job[u].serial \in (1 .. jobs) \ told /\ job[u].serial # job[t].serial
      BY <2>1, <2>2, <2>3 DEF LogInv, Serials
    <3>2. QED  BY <1>1, <2>1, <2>3, <3>1
  <2>4. \A u, v \in Threads : u # v /\ Busy(u)' /\ Busy(v)' => job'[u].serial # job'[v].serial
    BY <2>1 DEF LogInv, Serials
  <2>5. /\ jobs' \in 0 .. MaxJobs /\ told' \subseteq 1 .. jobs' /\ DOMAIN earlier' = 1 .. MaxJobs
        /\ \A n \in 1 .. MaxJobs : earlier'[n] \subseteq told'
    BY <1>1, <1>4 DEF LogInv, Serials
  <2>6. QED  BY <1>1, <2>3, <2>4, <2>5 DEF Serials
<1>7. Logging'
  <2>1. Logged' = Logged /\ InOrder(placed)' /\ InOrder(acted)'
    BY <1>1, <1>2 DEF LogInv, Logging, Logged, InOrder
  <2>2. \A u \in Threads : job'[u].pc = "reply" => job'[u].serial \in Logged
    BY <1>5 DEF LogInv, Logging
  <2>3. QED  BY <1>1, <1>4, <2>1, <2>2 DEF LogInv, Logging
<1>8. QED  BY <1>3, <1>6, <1>7 DEF LogInv

(* The logs at first. *)
LEMMA InitLogs == Init => LogInv
<1> SUFFICES ASSUME Init PROVE LogInv
  OBVIOUS
<1>1. /\ History!StartsWith(0) \/ History!StartsEmpty
      /\ Audit!StartsWith(0) \/ Audit!StartsEmpty
  BY DEF Init
<1>2. LogKept(history, historyFile, placed) /\ LogKept(audit, auditFile, acted)
  BY <1>1, HistoryAtFirst, AuditAtFirst
<1>3. /\ jobs = 0 /\ told = {} /\ earlier = [n \in 1 .. MaxJobs |-> {}]
      /\ \A t \in Threads : job[t].pc = "idle"
  BY DEF Init, IdleJob
<1>4. Serials
  <2>1. \A t \in Threads : ~Busy(t)
    BY <1>3 DEF Busy
  <2>2. 0 \in 0 .. MaxJobs
    OBVIOUS
  <2>3. QED  BY <1>3, <2>1, <2>2 DEF Serials
<1>5. Whats(placed) \subseteq {0} /\ Whats(acted) \subseteq {0}
  <2>1. Whats(<<>>) = {} /\ Whats(<<[what |-> 0, fate |-> "whole"]>>) = {0}
    BY DEF Whats
  <2>2. QED  BY <1>1, <2>1 DEF History!StartsWith, History!StartsEmpty,
                               Audit!StartsWith, Audit!StartsEmpty
<1>6. Logging
  <2>1. \A i \in DOMAIN placed : placed[i].what = 0
    BY <1>5 DEF Whats
  <2>2. \A i \in DOMAIN acted : acted[i].what = 0
    BY <1>5 DEF Whats
  <2>3. InOrder(placed) /\ InOrder(acted)
    BY <2>1, <2>2 DEF InOrder
  <2>4. Logged \subseteq 0 .. jobs
    BY <1>3, <1>5 DEF Logged
  <2>5. QED  BY <1>3, <2>3, <2>4 DEF Logging
<1>7. QED  BY <1>2, <1>4, <1>6 DEF LogInv

(* The steps that leave the logs alone. *)
LEMMA OtherLogs ==
    ASSUME Shapes, LogInv, NEW t \in Threads,
           \/ \E x \in Columns, y \in Rows, color \in Asked : DoSetPixel(t, x, y, color)
           \/ \E color \in Asked : DoReset(t, color)
           \/ Stamp(t) \/ OpenSave(t) \/ OpenFails(t) \/ \E n \in 0 .. Size : Flush(t, n)
           \/ CloseSave(t) \/ CloseWithLoss(t) \/ SaveBmp(t) \/ WriteMetadata(t)
           \/ LooksUp(t) \/ DoInstall(t)
    PROVE  LogInv'
<1>1. SerialsStay
  BY ChangeSerials, StampSerials, OtherSerials, FindSerials, InstallSerials
<1>2. UNCHANGED logs
  BY LooksUpOnly
  DEF DoSetPixel, DoReset, Stamp, OpenSave, OpenFails, Flush, CloseSave, CloseWithLoss,
      SaveBmp, WriteMetadata, DoInstall, files
<1>3. told' = told /\ earlier' = earlier /\ jobs' = jobs
  BY LooksUpOnly
  DEF DoSetPixel, DoReset, Stamp, OpenSave, OpenFails, Flush, CloseSave, CloseWithLoss,
      SaveBmp, WriteMetadata, DoInstall, ghosts, answers, counters
<1>4. QED  BY <1>1, <1>2, <1>3, SerialsQuiet

(* No step leaves the invariant of the logs. *)
LEMMA LogStep == IInv /\ LogInv /\ [Next]_vars => LogInv'
<1> SUFFICES ASSUME Shapes, DownIsIdle, LogInv, [Next]_vars PROVE LogInv'
  BY DEF IInv
<1>1. CASE UNCHANGED vars
  <2>1. /\ UNCHANGED logs /\ told' = told /\ earlier' = earlier /\ jobs' = jobs /\ job' = job
    BY <1>1 DEF vars, files, ghosts, answers, counters
  <2>2. SerialsStay
    BY <2>1 DEF SerialsStay
  <2>3. QED  BY <2>1, <2>2, SerialsQuiet
<1>2. CASE Next
  <2>1. CASE DieStarting
    <3>1. /\ UNCHANGED logs /\ told' = told /\ earlier' = earlier /\ jobs' = jobs /\ job' = job
      BY <2>1 DEF DieStarting, ghosts, answers, counters
    <3>2. SerialsStay
      BY <3>1 DEF SerialsStay
    <3>3. QED  BY <3>1, <3>2, SerialsQuiet
  <2>2. QED
    BY <1>2, <2>1, StartLogs, OtherLogs, AppendLogs, ReplyLogs, CrashLogs, BootLogs
    DEF Next, LooksUp
<1>3. QED  BY <1>1, <1>2

(* The appends account for the entries and for the files in every state:   *)
(* over crashes, starts, lines that are cut and handlers that overtake     *)
(* each other between the map's lock and the log (ApiController.cpp:595).  *)
THEOREM LogInvariance == Spec => []LogInv
<1>1. QED  BY InitLogs, LogStep, Invariance, PTL DEF Spec

(* The invariant gives what pixel_history.log promises ... *)
LEMMA HistoryPromises ==
    ASSUME LogKept(history, historyFile, placed), InOrder(placed)
    PROVE  History!ShowsRecent /\ History!ShowsNothingElse /\ ~Overtakes(history)
<1>1. PICK q : Shows(q, history, placed)
  BY DEF LogKept
<1>2. \A i : History!Unharmed(i) <=> UnharmedIn(placed, i)
  BY DEF History!Unharmed, History!Glued, UnharmedIn, GluedIn
<1>3. \A n \in DOMAIN history : /\ q[n] \in DOMAIN placed
                                /\ history[n].what = placed[q[n]].what
  BY <1>1 DEF Shows
<1>4. \A m, n \in DOMAIN history : m < n => q[m] < q[n]
  BY <1>1 DEF Shows, Climbs
<1>5. History!ShowsRecent
  <2>1. ASSUME NEW i \in History!Recent, History!Unharmed(i)
        PROVE  History!Entry(placed[i].what, TRUE) \in History!Range(history)
    <3>1. i \in DOMAIN placed /\ i > Len(placed) - MaxEntries
      BY DEF History!Recent
    <3>2. PICK n \in DOMAIN history : q[n] = i
      BY <1>1, <1>2, <2>1, <3>1 DEF Shows
    <3>3. history[n] = Exactly(placed[i].what)
      BY <1>1, <1>2, <2>1, <3>2 DEF Shows
    <3>4. QED  BY <3>3 DEF History!Entry, Exactly, History!Range
  <2>2. QED  BY <2>1 DEF History!ShowsRecent
<1>6. History!ShowsNothingElse
  <2>1. ASSUME NEW n \in DOMAIN history
        PROVE  \E i \in DOMAIN placed :
                  /\ placed[i].what = history[n].what
                  /\ History!Unharmed(i) => history[n].exact
    <3>1. UnharmedIn(placed, q[n]) => history[n].exact
      BY <1>1 DEF Shows, Exactly
    <3>2. QED  BY <1>2, <1>3, <3>1
  <2>2. ASSUME NEW m \in DOMAIN history, NEW n \in DOMAIN history, m < n
        PROVE  \E i, j \in DOMAIN placed :
                  /\ i < j
                  /\ placed[i].what = history[m].what
                  /\ placed[j].what = history[n].what
    BY <1>3, <1>4, <2>2
  <2>3. QED  BY <2>1, <2>2 DEF History!ShowsNothingElse
<1>7. ~Overtakes(history)
  BY <1>3, <1>4 DEF Overtakes, InOrder
<1>8. QED  BY <1>5, <1>6, <1>7

(* ... and what audit.log promises. *)
LEMMA AuditPromises ==
    ASSUME LogKept(audit, auditFile, acted), InOrder(acted)
    PROVE  Audit!ShowsRecent /\ Audit!ShowsNothingElse /\ ~Overtakes(audit)
<1>1. PICK q : Shows(q, audit, acted)
  BY DEF LogKept
<1>2. \A i : Audit!Unharmed(i) <=> UnharmedIn(acted, i)
  BY DEF Audit!Unharmed, Audit!Glued, UnharmedIn, GluedIn
<1>3. \A n \in DOMAIN audit : /\ q[n] \in DOMAIN acted
                                /\ audit[n].what = acted[q[n]].what
  BY <1>1 DEF Shows
<1>4. \A m, n \in DOMAIN audit : m < n => q[m] < q[n]
  BY <1>1 DEF Shows, Climbs
<1>5. Audit!ShowsRecent
  <2>1. ASSUME NEW i \in Audit!Recent, Audit!Unharmed(i)
        PROVE  Audit!Entry(acted[i].what, TRUE) \in Audit!Range(audit)
    <3>1. i \in DOMAIN acted /\ i > Len(acted) - MaxEntries
      BY DEF Audit!Recent
    <3>2. PICK n \in DOMAIN audit : q[n] = i
      BY <1>1, <1>2, <2>1, <3>1 DEF Shows
    <3>3. audit[n] = Exactly(acted[i].what)
      BY <1>1, <1>2, <2>1, <3>2 DEF Shows
    <3>4. QED  BY <3>3 DEF Audit!Entry, Exactly, Audit!Range
  <2>2. QED  BY <2>1 DEF Audit!ShowsRecent
<1>6. Audit!ShowsNothingElse
  <2>1. ASSUME NEW n \in DOMAIN audit
        PROVE  \E i \in DOMAIN acted :
                  /\ acted[i].what = audit[n].what
                  /\ Audit!Unharmed(i) => audit[n].exact
    <3>1. UnharmedIn(acted, q[n]) => audit[n].exact
      BY <1>1 DEF Shows, Exactly
    <3>2. QED  BY <1>2, <1>3, <3>1
  <2>2. ASSUME NEW m \in DOMAIN audit, NEW n \in DOMAIN audit, m < n
        PROVE  \E i, j \in DOMAIN acted :
                  /\ i < j
                  /\ acted[i].what = audit[m].what
                  /\ acted[j].what = audit[n].what
    BY <1>3, <1>4, <2>2
  <2>3. QED  BY <2>1, <2>2 DEF Audit!ShowsNothingElse
<1>7. ~Overtakes(audit)
  BY <1>3, <1>4 DEF Overtakes, InOrder
<1>8. QED  BY <1>5, <1>6, <1>7

(* Every pixel and every action of the administrator that was answered is  *)
(* in its log, over crashes and restarts and whatever lines the disk cuts, *)
(* until maxEntries_ later ones have come: append drops the oldest entry   *)
(* only (PixelHistory.cpp:114, AuditLog.cpp:101).                          *)
THEOREM AnsweredIsShown == Spec => []LogsShowAnswered
<1>1. LogInv => LogsShowAnswered
  <2> SUFFICES ASSUME LogInv PROVE LogsShowAnswered
    OBVIOUS
  <2>1. History!ShowsRecent /\ Audit!ShowsRecent
    BY HistoryPromises, AuditPromises DEF LogInv, Logging
  <2>2. \A n \in told : \E i \in DOMAIN placed \cup DOMAIN acted :
           \/ i \in DOMAIN placed /\ placed[i].what = n
           \/ i \in DOMAIN acted /\ acted[i].what = n
    BY DEF LogInv, Logging, Logged, Whats
  <2>3. QED  BY <2>1, <2>2 DEF LogsShowAnswered
<1>2. QED  BY <1>1, LogInvariance, PTL

(* The logs show nothing but what was appended, in that order, and list no *)
(* handler before one that was answered before it began, though the entry  *)
(* is written after the lock is released (ApiController.cpp:595).          *)
THEOREM LogsAreTrue == Spec => []LogsTellTruth
<1>1. LogInv => LogsTellTruth
  BY HistoryPromises, AuditPromises DEF LogInv, Logging, LogsTellTruth
<1>2. QED  BY <1>1, LogInvariance, PTL

=============================================================================
