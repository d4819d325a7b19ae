----------------------------- MODULE UserStore -----------------------------
(***************************************************************************)
(* storage::UserStore: the accounts, their e-mail verification and their   *)
(* pixel quota, with the file users.db that every change rewrites, and the *)
(* outbox to which POST /register adds the link of a new account.          *)
(*                                                                         *)
(* Each change takes the mutex twice: once to change the memory and once,  *)
(* in save(), to rewrite the file from the memory as it is by then.  In    *)
(* between other handlers change the memory and save.  A handler goes on   *)
(* (answers, or places the pixel) only when its own save has returned.     *)
(*                                                                         *)
(* A row of the file that a crash cut short is, for load(), one of: no     *)
(* row; a row of nine fields, which it takes for one of an older format    *)
(* without verification; a row whose last number is cut.                   *)
(***************************************************************************)
EXTENDS Integers, FiniteSets, FiniteSetsExt, Functions, TLC

CONSTANTS
    Threads,            \* the thread pool
    Names, Emails,      \* what users ask to be registered with
    Quota,              \* cfg.pixelQuotaPerCooldown
    Cooldown,           \* cfg.cooldownSeconds
    VerificationTtl,    \* cfg.emailVerificationTtlSeconds
    Kinds,              \* the requests that are made
    CutEmails,          \* what may be left of an address that was cut, the
                        \* whole address of another account perhaps
    MaxTime,            \* bound on the clock
    MaxRequests,        \* bound on the requests
    MaxFaults           \* bound on crashes, on files that cannot be opened,
                        \* on saves that the disk cuts short, and on seconds
                        \* by which the clock is set back

ASSUME UserStoreAssumption ==
    /\ Quota \in Nat \ {0} /\ Cooldown \in Nat \ {0}
    /\ VerificationTtl \in Nat \ {0}
    /\ IsFiniteSet(Threads)
    /\ Kinds \subseteq {"register", "verify", "place", "forgive"}
    /\ MaxTime \in Nat \ {0} /\ MaxRequests \in Nat /\ MaxFaults \in Nat

VARIABLES
    users,      \* usersById_, with the two indexes
    nextId,     \* nextId_
    file,       \* users.db as load() would read it: the rows by id
    job,        \* what each thread is doing
    up,         \* is the process running?
    required,   \* cfg.requireEmailVerification
    outbox,     \* the accounts whose link is in email_outbox.txt
    now,        \* the seconds gone by
    setBack,    \* how far the system clock has been set back
    answered,   \* history variable: the names registered with success, by id
    opened,     \* history variable: the accounts that owed no link, or opened it
    placed,     \* history variable: the pixels, by account and time of slot
    lastSave,   \* history variable: "whole", "failed" or "short"
    forgot,     \* history variable: has a start met a short file?
    requests, faults    \* how much of each bound is used

time     == <<now, setBack>>
ghosts   == <<answered, opened, placed, lastSave, forgot>>
counters == <<requests, faults>>
vars     == <<users, nextId, file, job, up, required, outbox, time, ghosts, counters>>

Ids   == 1 .. (MaxRequests + 1)
Times == 1 .. MaxTime
Never == 0              \* a timestamp that is not set
Clock == now - setBack  \* nowSeconds

User == [name : Names, email : Emails \cup CutEmails, verified : BOOLEAN,
         link : BOOLEAN, expires : 0 .. (MaxTime + VerificationTtl),
         start : 0 .. MaxTime, count : 0 .. Quota]

Job == [pc : {"idle", "open", "write", "outbox"}, kind : Kinds \cup {"none"},
        id : 0 .. (MaxRequests + 1), time : 0 .. MaxTime]

IdleJob == [pc |-> "idle", kind |-> "none", id |-> 0, time |-> Never]

Free        == up /\ \A t \in Threads : job[t].pc # "write"     \* the mutex
At(t, pc)   == up /\ job[t].pc = pc
Idle(t, kind) ==
    /\ At(t, "idle") /\ Free
    /\ kind \in Kinds
    /\ requests < MaxRequests
    /\ requests' = requests + 1
MustSave(t, kind, id, slot) ==
    job' = [job EXCEPT ![t] = [pc |-> "open", kind |-> kind, id |-> id, time |-> slot]]

Faulty == faults < MaxFaults /\ faults' = faults + 1

(* What an earlier life of the server may have left: no account or one. *)
EarlierFiles ==
    {<<>>} \cup {<<[name |-> name, email |-> email, verified |-> TRUE, link |-> FALSE,
                   expires |-> Never, start |-> Never, count |-> 0]>> :
                    name \in Names, email \in Emails}

Init ==
    /\ file \in EarlierFiles
    /\ users = file /\ nextId = Cardinality(DOMAIN file) + 1
    /\ job = [t \in Threads |-> IdleJob]
    /\ up = TRUE
    /\ required \in BOOLEAN /\ outbox = {}
    /\ now = 1 /\ setBack = 0
    /\ answered = [id \in DOMAIN file |-> file[id].name]
    /\ opened = DOMAIN file
    /\ placed = [id \in Ids |-> [slot \in Times |-> 0]]
    /\ lastSave = "whole" /\ forgot = FALSE
    /\ requests = 0 /\ faults = 0

----------------------------------------------------------------------------
(* The changes of the memory. *)

(* Mutant of Taken: the address is not compared. *)
TakenByName(name, email) == \E id \in DOMAIN users : users[id].name = name

Taken(name, email) ==
    \E id \in DOMAIN users : users[id].name = name \/ users[id].email = email

(* registerUser *)
Register(t, name, email) ==
    /\ Idle(t, "register")
    /\ ~Taken(name, email)
    /\ users' = [id \in DOMAIN users \cup {nextId} |->
                   IF id = nextId
                   THEN [name |-> name, email |-> email, verified |-> ~required,
                         link |-> required,
                         expires |-> IF required THEN Clock + VerificationTtl ELSE Never,
                         start |-> Never, count |-> 0]
                   ELSE users[id]]
    /\ nextId' = nextId + 1
    /\ opened' = IF required THEN opened ELSE opened \cup {nextId}
    /\ MustSave(t, "register", nextId, Never)
    /\ UNCHANGED <<file, up, required, outbox, time, answered, placed, lastSave, forgot, faults>>

LinkValid(id) ==
    /\ users[id].link
    /\ users[id].expires = Never \/ Clock <= users[id].expires

(* Mutant of VerifyEmail: the change is not saved. *)
VerifyEmailUnsaved(t, id) ==
    /\ Idle(t, "verify")
    /\ id \in DOMAIN users \cap outbox /\ LinkValid(id)
    /\ users' = [users EXCEPT ![id].verified = TRUE, ![id].link = FALSE,
                              ![id].expires = Never]
    /\ opened' = opened \cup {id}
    /\ UNCHANGED <<nextId, file, job, up, required, outbox, time, answered, placed,
                   lastSave, forgot, faults>>

(* verifyEmailToken: a link of the outbox is opened. *)
VerifyEmail(t, id) ==
    /\ Idle(t, "verify")
    /\ id \in DOMAIN users \cap outbox /\ LinkValid(id)
    /\ users' = [users EXCEPT ![id].verified = TRUE, ![id].link = FALSE,
                              ![id].expires = Never]
    /\ opened' = opened \cup {id}
    /\ MustSave(t, "verify", id, Never)
    /\ UNCHANGED <<nextId, file, up, required, outbox, time, answered, placed,
                   lastSave, forgot, faults>>

(* consumePixelSlot: is the window of a user over?  Then a new one opens.  *)
WindowOver(user) == user.start = Never \/ Clock - user.start >= Cooldown

InWindow(user) ==
    IF WindowOver(user) THEN [user EXCEPT !.start = Clock, !.count = 0] ELSE user

(* Mutant of StatusWindowOver: the window lasts a second longer.           *)
StatusWindowOverLate(user) == user.start = Never \/ Clock - user.start > Cooldown

(* pixelQuotaStatus asks the same in code of its own. *)
StatusWindowOver(user) == user.start = Never \/ Clock - user.start >= Cooldown

(* pixelQuotaStatus, remainingPlacements *)
RemainingPlacements(user) ==
    IF StatusWindowOver(user) THEN Quota
    ELSE IF user.count >= Quota THEN 0 ELSE Quota - user.count

(* pixelQuotaStatus, remainingSeconds *)
RemainingSeconds(user) ==
    IF RemainingPlacements(user) > 0 THEN 0
    ELSE Cooldown - (Clock - user.start)

(* Mutant of ConsumePixelSlot: off by one at the quota. *)
ConsumePixelSlotOneMore(t, id) ==
    /\ Idle(t, "place")
    /\ id \in DOMAIN users /\ users[id].verified
    /\ LET user == InWindow(users[id]) IN
          /\ user.count <= Quota
          /\ users' = [users EXCEPT ![id] = [user EXCEPT !.count = @ + 1]]
    /\ MustSave(t, "place", id, now)
    /\ UNCHANGED <<nextId, file, up, required, outbox, time, ghosts, faults>>

(* consumePixelSlot of a user whom the session guard has let pass. *)
ConsumePixelSlot(t, id) ==
    /\ Idle(t, "place")
    /\ id \in DOMAIN users /\ users[id].verified
    /\ LET user == InWindow(users[id]) IN
          /\ user.count < Quota
          /\ users' = [users EXCEPT ![id] = [user EXCEPT !.count = @ + 1]]
    /\ MustSave(t, "place", id, now)
    /\ UNCHANGED <<nextId, file, up, required, outbox, time, ghosts, faults>>

(* resetPixelQuota by the administrator: what was placed is forgiven, also *)
(* what is being placed.                                                   *)
ResetPixelQuota(t, id) ==
    /\ Idle(t, "forgive")
    /\ id \in DOMAIN users
    /\ users' = [users EXCEPT ![id].start = Never, ![id].count = 0]
    /\ placed' = [placed EXCEPT ![id] = [slot \in Times |-> 0]]
    /\ job' = [u \in Threads |->
                 IF u = t
                 THEN [pc |-> "open", kind |-> "forgive", id |-> id, time |-> Never]
                 ELSE IF job[u].id = id THEN [job[u] EXCEPT !.time = Never]
                 ELSE job[u]]
    /\ UNCHANGED <<nextId, file, up, required, outbox, time, answered, opened,
                   lastSave, forgot, faults>>

----------------------------------------------------------------------------
(* save: the mutex is held from the truncation of the file to the end, and *)
(* nobody reads the file in between: what it holds by then matters only if *)
(* the process ends, or when the handler goes on.                          *)

OpenFile(t) ==
    /\ At(t, "open") /\ Free
    /\ file' = <<>>
    /\ job' = [job EXCEPT ![t].pc = "write"]
    /\ UNCHANGED <<users, nextId, up, required, outbox, time, ghosts, counters>>

(* The exception ends the handler; the memory keeps the change. *)
OpenFileFails(t) ==
    /\ At(t, "open") /\ Free
    /\ Faulty
    /\ job' = [job EXCEPT ![t] = IdleJob]
    /\ lastSave' = IF lastSave = "short" THEN "short" ELSE "failed"
    /\ UNCHANGED <<users, nextId, file, up, required, outbox, time,
                   answered, opened, placed, forgot, requests>>

Answer(id) ==
    answered' = [i \in DOMAIN answered \cup {id} |->
                   IF i = id THEN users[id].name ELSE answered[i]]

(* What the handler does when save has returned: the pixel is placed, the  *)
(* registration is answered, or the link has to be sent first.             *)
GoOn(t) ==
    LET sends == job[t].kind = "register" /\ required IN
    /\ job' = [job EXCEPT ![t] = IF sends THEN [@ EXCEPT !.pc = "outbox"] ELSE IdleJob]
    /\ IF job[t].kind = "register" /\ ~required THEN Answer(job[t].id) ELSE UNCHANGED answered
    /\ placed' = IF job[t].kind = "place" /\ job[t].time # Never
                 THEN [placed EXCEPT ![job[t].id][job[t].time] = @ + 1]
                 ELSE placed

(* Mutant of CloseFile: the handler goes on before the rows are written. *)
CloseFileEarly(t) ==
    /\ At(t, "write")
    /\ GoOn(t)
    /\ lastSave' = "whole"
    /\ UNCHANGED <<users, nextId, file, up, required, outbox, time, opened, forgot, counters>>

CloseFile(t) ==
    /\ At(t, "write")
    /\ file' = users
    /\ GoOn(t)
    /\ lastSave' = "whole"
    /\ UNCHANGED <<users, nextId, up, required, outbox, time, opened, forgot, counters>>

(* appendVerificationOutbox: an outbox that cannot be opened is passed     *)
(* over in silence, and the registration is answered all the same.         *)
AppendOutbox(t) ==
    /\ At(t, "outbox")
    /\ \/ outbox' = outbox \cup {job[t].id} /\ UNCHANGED faults
       \/ Faulty /\ UNCHANGED outbox
    /\ Answer(job[t].id)
    /\ job' = [job EXCEPT ![t] = IdleJob]
    /\ UNCHANGED <<users, nextId, file, up, required, time,
                   opened, placed, lastSave, forgot, requests>>

(* What load() makes of a row that was cut: in the address, of which it    *)
(* decodes and takes whatever is left (UserStore.cpp:180), or behind it,   *)
(* or in the number at the end, of which a prefix is left or nothing.      *)
CutRows(user) ==
    {[user EXCEPT !.email = email, !.verified = TRUE, !.link = FALSE, !.expires = Never] :
        email \in {user.email} \cup CutEmails}
    \cup (IF user.expires = Never THEN {}
          ELSE {[user EXCEPT !.expires = expires] : expires \in {Never, 1}})

(* The file when the rest of it does not reach the disk: some of the rows, *)
(* which the hash table has in any order, and perhaps one that was cut.    *)
LeftOver ==
    UNION {{Restrict(users, whole)} \cup
           UNION {{[id \in whole \cup {last} |-> IF id = last THEN row ELSE users[id]] :
                      row \in CutRows(users[last])} : last \in DOMAIN users \ whole} :
              whole \in SUBSET DOMAIN users}

(* save does not look at the state of its stream. *)
CloseWithLoss(t) ==
    /\ At(t, "write")
    /\ Faulty
    /\ file' \in LeftOver \ {users}
    /\ lastSave' = "short"
    /\ GoOn(t)
    /\ UNCHANGED <<users, nextId, up, required, outbox, time, opened, forgot, requests>>

----------------------------------------------------------------------------
(* The world. *)

Tick ==
    /\ now < MaxTime
    /\ now' = now + 1
    /\ UNCHANGED <<users, nextId, file, job, up, required, outbox, setBack, ghosts, counters>>

(* The system clock is set back: the windows and the links were stamped    *)
(* with times that are yet to come.                                        *)
SetClockBack ==
    /\ Clock > 1
    /\ Faulty
    /\ setBack' = setBack + 1
    /\ UNCHANGED <<users, nextId, file, job, up, required, outbox, now, ghosts, requests>>

Crash ==
    /\ up
    /\ Faulty
    /\ up' = FALSE
    /\ job' = [t \in Threads |-> IdleJob]
    /\ LET writing == \E t \in Threads : job[t].pc = "write" IN
          /\ file' \in IF writing THEN LeftOver ELSE {file}
          /\ lastSave' = IF writing /\ file' # users THEN "short" ELSE lastSave
    /\ UNCHANGED <<users, nextId, required, outbox, time, answered, opened, placed,
                   forgot, requests>>

(* Mutant of Load: the row is written with the window and the count, but   *)
(* only the last placement is read back.                                   *)
LoadForgetsWindow ==
    /\ ~up
    /\ up' = TRUE
    /\ users' = [id \in DOMAIN file |-> [file[id] EXCEPT !.start = Never, !.count = 0]]
    /\ nextId' = Max(DOMAIN file \cup {0}) + 1
    /\ outbox' = outbox \cap DOMAIN file /\ opened' = opened \cap DOMAIN file
    /\ lastSave' = "whole" /\ forgot' = (forgot \/ lastSave = "short")
    /\ UNCHANGED <<file, job, required, time, answered, placed, counters>>

(* load, in main.  A link whose account is lost opens nothing, also when   *)
(* the id is given again.                                                  *)
Load ==
    /\ ~up
    /\ up' = TRUE
    /\ users' = file
    /\ nextId' = Max(DOMAIN file \cup {0}) + 1
    /\ outbox' = outbox \cap DOMAIN file /\ opened' = opened \cap DOMAIN file
    /\ lastSave' = "whole" /\ forgot' = (forgot \/ lastSave = "short")
    /\ UNCHANGED <<file, job, required, time, answered, placed, counters>>

Next ==
    \/ \E t \in Threads, name \in Names, email \in Emails : Register(t, name, email)
    \/ \E t \in Threads, id \in Ids : VerifyEmail(t, id)
    \/ \E t \in Threads, id \in Ids : ConsumePixelSlot(t, id)
    \/ \E t \in Threads, id \in Ids : ResetPixelQuota(t, id)
    \/ \E t \in Threads : OpenFile(t)
    \/ \E t \in Threads : OpenFileFails(t)
    \/ \E t \in Threads : CloseFile(t)
    \/ \E t \in Threads : CloseWithLoss(t)
    \/ \E t \in Threads : AppendOutbox(t)
    \/ Tick
    \/ SetClockBack
    \/ Crash
    \/ Load

(* Threads and names are only compared. *)
Symmetry == Permutations(Threads) \cup Permutations(Names)

Spec == Init /\ [][Next]_vars

----------------------------------------------------------------------------
(* Properties. *)

TypeOK ==
    /\ DOMAIN users \subseteq Ids /\ \A id \in DOMAIN users : users[id] \in User
    /\ DOMAIN file \subseteq Ids /\ \A id \in DOMAIN file : file[id] \in User
    /\ nextId \in 1 .. (MaxRequests + 2)
    /\ job \in [Threads -> Job]
    /\ up \in BOOLEAN /\ required \in BOOLEAN /\ forgot \in BOOLEAN
    /\ now \in Times /\ Clock \in Times /\ setBack \in Nat
    /\ DOMAIN answered \subseteq Ids /\ outbox \subseteq Ids /\ opened \subseteq Ids
    /\ placed \in [Ids -> [Times -> Nat]]
    /\ lastSave \in {"whole", "failed", "short"}
    /\ requests \in 0 .. MaxRequests /\ faults \in 0 .. MaxFaults

(* Of the handlers that change the memory and then save, each on its own,  *)
(* the last to save leaves the memory in the file, whatever it overtook,   *)
(* unless its save failed; and the next save makes that good               *)
(* (UserStore.cpp:202-229, 287).                                           *)
FileCurrent ==
    up /\ lastSave = "whole" /\ (\A t \in Threads : job[t].pc \notin {"open", "write"})
    => file = users

PlacedIn(id, from, length) ==
    LET window == {slot \in Times : from <= slot /\ slot < from + length}
    IN SumFunction([slot \in window |-> placed[id][slot]])

(* The quota holds in every stretch of true time, wherever its windows     *)
(* fall, for requests that run at once, over restarts, and though the      *)
(* system clock, by which the windows are measured, be set back: in less   *)
(* than one cooldown nobody places more than a full window and what was    *)
(* left of the one before, short of the pixel that opened it.              *)
(* (UserStore.cpp:456-469; ApiController.cpp:573 saves the slot before the *)
(* pixel is set.)  A pixel counts by the time of its slot.  A clock that is*)
(* set forward closes windows early, and is outside the model.             *)
QuotaHolds ==
    ~forgot => \A id \in Ids, from \in Times :
                  PlacedIn(id, from, Cooldown) <= 2 * Quota - 1

(* What GET /cooldown says is what POST /pixel does: there is a slot if    *)
(* and only if placements remain, and when none do, one will exactly when  *)
(* the seconds it names are over on the system clock, which are more than  *)
(* a cooldown only by as much as that clock was set back                   *)
(* (UserStore.cpp:421-433 and 455-466 compute the window separately).      *)
StatusTellsTruth ==
    up => \A id \in DOMAIN users :
        /\ InWindow(users[id]).count < Quota <=> RemainingPlacements(users[id]) > 0
        /\ RemainingSeconds(users[id]) \in 0 .. (Cooldown + setBack)
        /\ RemainingPlacements(users[id]) = 0
              => Clock + RemainingSeconds(users[id]) = users[id].start + Cooldown

(* An account whose registration was answered stays what it was, over      *)
(* restarts and failed saves of others: the id of a lost registration may  *)
(* be given again, that of an answered one never (UserStore.cpp:196, 287). *)
AnsweredAccountKept ==
    up /\ ~forgot => \A id \in DOMAIN answered :
                        id \in DOMAIN users /\ users[id].name = answered[id]

(* Two accounts never share a name or an address (README.md, local         *)
(* accounts 3), whatever registers at once and is loaded back.  Only once a*)
(* start has met a short file may two share an address, and then one that  *)
(* is left of an address that was cut, though it may be the whole one of   *)
(* the other account (UserStore.cpp:180, 256-263).                         *)
NoSharedIdentity ==
    \A i, j \in DOMAIN users : i # j =>
        /\ users[i].name # users[j].name
        /\ users[i].email = users[j].email => forgot /\ users[i].email \in CutEmails

(* README.md, local accounts 7: an account can log in only once its        *)
(* address has been verified.                                              *)
VerifiedByLink ==
    up => \A id \in DOMAIN users : users[id].verified => id \in opened

(* README.md, local accounts 5: an account that is to be verified has its  *)
(* link in the outbox by the time its registration is answered, on a server*)
(* that is not configured to show the link in the answer.                  *)
AnsweredHasLink ==
    up /\ ~forgot => \A id \in DOMAIN answered \cap DOMAIN users :
                        users[id].link => id \in outbox

============================================================================
