-------------------------- MODULE UserStoreProofs --------------------------
(***************************************************************************)
(* For any threads, names, addresses, quota, cooldown and any bounds: the  *)
(* types of UserStore, that the file keeps up with the memory, that the    *)
(* status tells what a placement will do, that answered accounts are kept, *)
(* that no two accounts share a name or an address, and that the quota     *)
(* holds in every stretch of time.                                         *)
(***************************************************************************)
EXTENDS UserStore, SumTheorems

USE UserStoreAssumption DEF Never

----------------------------------------------------------------------------
(* The next id. *)

(* A set of numbers with a bound has a greatest one. *)
LEMMA MaxOfBounded ==
    ASSUME NEW bound \in Nat, NEW S \in SUBSET (0 .. bound), S # {}
    PROVE  Max(S) \in S /\ \A n \in S : Max(S) >= n
<1> DEFINE above == {n \in Nat : \A i \in S : n >= i}
           less  == OpToRel(<, Nat)
<1>1. above \subseteq Nat /\ above # {}
  <2>1. bound \in above
    OBVIOUS
  <2>2. QED  BY <2>1
<1>2. IsWellFoundedOn(less, Nat)
  BY NatLessThanWellFounded
<1>3. PICK n \in above : \A i \in above : ~(<<i, n>> \in less)
  <2> HIDE DEF above, less
  <2>1. QED  BY <1>1, <1>2, WFMin
<1>4. \A i \in above : ~(i < n)
  BY <1>1, <1>3 DEF OpToRel
<1>5. n \in S
  <2> SUFFICES ASSUME n \notin S PROVE FALSE
    OBVIOUS
  <2>1. \A i \in S : i \in Nat /\ n > i
    OBVIOUS
  <2>2. n \in Nat /\ n - 1 \in Nat
    <3>1. PICK i \in S : TRUE
      OBVIOUS
    <3>2. QED  BY <2>1, <3>1
  <2>3. n - 1 \in above
    BY <2>1, <2>2
  <2>4. QED  BY <1>4, <2>2, <2>3
<1>6. \E m \in S : \A i \in S : m >= i
  BY <1>5
<1>7. QED  BY <1>6 DEF Max

(* load() gives ids beyond every id of the file. *)
LEMMA LastIdOfFile ==
    ASSUME NEW bound \in Nat, NEW f, DOMAIN f \subseteq 1 .. bound
    PROVE  /\ Max(DOMAIN f \cup {0}) \in 0 .. bound
           /\ DOMAIN f \subseteq 1 .. Max(DOMAIN f \cup {0})
<1> DEFINE S == DOMAIN f \cup {0}
<1>1. S \in SUBSET (0 .. bound) /\ S # {}
  OBVIOUS
<1>2. Max(S) \in S /\ \A n \in S : Max(S) >= n
  <2> HIDE DEF S
  <2>1. QED  BY <1>1, MaxOfBounded
<1>3. Max(S) \in 0 .. bound
  BY <1>1, <1>2
<1>4. \A id \in DOMAIN f : id \in 1 .. bound /\ id <= Max(S)
  BY <1>2
<1>5. DOMAIN f \subseteq 1 .. Max(S)
  <2> HIDE DEF S
  <2>1. QED  BY <1>3, <1>4
<1>6. QED  BY <1>3, <1>5

----------------------------------------------------------------------------
(* The inductive invariant. *)

(* A file as load() reads it holds rows of the memory, some of them cut. *)
RowsOf(f, g) ==
    /\ DOMAIN f \subseteq DOMAIN g
    /\ \A id \in DOMAIN f :
          /\ f[id] \in User
          /\ f[id].name = g[id].name
          /\ f[id].email \in {g[id].email} \cup CutEmails
          /\ f[id].start = g[id].start

(* Ids are given in order, and no more of them than there were requests. *)
Numbered ==
    /\ nextId \in 1 .. (requests + 2)
    /\ DOMAIN users \subseteq 1 .. (nextId - 1)
    /\ DOMAIN file \subseteq 1 .. (nextId - 1)

(* Handlers run only in a process, and for accounts that there are. *)
JobsKnown ==
    \A t \in Threads : job[t].pc # "idle" => up /\ job[t].id \in DOMAIN users

(* The clock may be set back, but no window opens in the time to come. *)
StartsPast ==
    /\ \A id \in DOMAIN users : users[id].start <= now
    /\ \A id \in DOMAIN file : file[id].start <= now

(* Names are told apart always, addresses if none of the two was cut. *)
Distinct(f) ==
    \A i, j \in DOMAIN f : i # j =>
        /\ f[i].name # f[j].name
        /\ f[i].email # f[j].email \/ f[i].email \in CutEmails

(* Until a start has met a short file no address of the memory was cut,    *)
(* and none of a file that was not cut short itself.                       *)
Unshared(f) == \A i, j \in DOMAIN f : i # j => f[i].email # f[j].email

Uncut ==
    ~forgot => /\ Unshared(users)
               /\ lastSave # "short" => Unshared(file)

(* The accounts that are answered, or are saved and about to be. *)
Keeps(f) ==
    /\ \A id \in DOMAIN answered : id \in DOMAIN f /\ f[id].name = answered[id]
    /\ \A t \in Threads : job[t].pc = "outbox" =>
          job[t].id \in DOMAIN f /\ f[job[t].id].name = users[job[t].id].name

Kept ==
    ~forgot =>
        /\ up => Keeps(users)
        /\ lastSave # "short" /\ (\A t \in Threads : job[t].pc # "write") => Keeps(file)

IInv == /\ TypeOK /\ Numbered /\ JobsKnown /\ StartsPast
        /\ Distinct(users) /\ Distinct(file) /\ Uncut
        /\ Kept /\ FileCurrent

----------------------------------------------------------------------------
(* What is left of a file. *)

(* A row that was cut is one of the same account, whose address may be     *)
(* cut, whose name and window are not.                                     *)
LEMMA CutRowsAreRows ==
    ASSUME NEW user \in User, NEW row \in CutRows(user)
    PROVE  /\ row \in User /\ row.name = user.name /\ row.start = user.start
           /\ row.email \in {user.email} \cup CutEmails
<1>1. CASE \E email \in {user.email} \cup CutEmails :
             row = [user EXCEPT !.email = email, !.verified = TRUE, !.link = FALSE,
                                !.expires = Never]
  <2>1. PICK email \in {user.email} \cup CutEmails :
          row = [user EXCEPT !.email = email, !.verified = TRUE, !.link = FALSE,
                             !.expires = Never]
    BY <1>1
  <2>2. email \in Emails \cup CutEmails
    BY DEF User
  <2>3. Never \in 0 .. (MaxTime + VerificationTtl)
    OBVIOUS
  <2>4. row \in User
    BY <2>1, <2>2, <2>3 DEF User
  <2>5. row.name = user.name /\ row.start = user.start /\ row.email = email
    BY <2>1 DEF User
  <2>6. QED  BY <2>1, <2>4, <2>5
<1>2. CASE \E expires \in {Never, 1} : row = [user EXCEPT !.expires = expires]
  BY <1>2 DEF User
<1>3. QED  BY <1>1, <1>2 DEF CutRows

(* What is left of a save that was cut short holds rows of the memory, in  *)
(* whatever order they were written.                                       *)
LEMMA LeftOverRows ==
    ASSUME \A id \in DOMAIN users : users[id] \in User, NEW f \in LeftOver
    PROVE  RowsOf(f, users)
<1>1. PICK whole \in SUBSET DOMAIN users :
        f \in {Restrict(users, whole)} \cup
              UNION {{[id \in whole \cup {last} |-> IF id = last THEN row ELSE users[id]] :
                         row \in CutRows(users[last])} : last \in DOMAIN users \ whole}
  BY DEF LeftOver
<1>2. CASE f = Restrict(users, whole)
  BY <1>2 DEF Restrict, RowsOf
<1>3. CASE f # Restrict(users, whole)
  <2> DEFINE Cut(last) ==
                {[id \in whole \cup {last} |-> IF id = last THEN row ELSE users[id]] :
                    row \in CutRows(users[last])}
  <2>0. PICK last \in DOMAIN users \ whole : f \in Cut(last)
    <3> HIDE DEF Cut
    <3>1. f \in UNION {Cut(last) : last \in DOMAIN users \ whole}
      BY <1>1, <1>3 DEF Cut
    <3>2. QED  BY <3>1
  <2>1. PICK row \in CutRows(users[last]) :
          f = [id \in whole \cup {last} |-> IF id = last THEN row ELSE users[id]]
    BY <2>0
  <2>2. /\ row \in User /\ row.name = users[last].name /\ row.start = users[last].start
        /\ row.email \in {users[last].email} \cup CutEmails
    BY CutRowsAreRows
  <2>3. QED  BY <2>1, <2>2 DEF RowsOf
<1>4. QED  BY <1>2, <1>3

(* What every file that a save leaves has in common. *)
LEMMA RowsOfMemory ==
    ASSUME IInv, NEW f, RowsOf(f, users)
    PROVE  /\ DOMAIN f \subseteq Ids /\ \A id \in DOMAIN f : f[id] \in User
           /\ DOMAIN f \subseteq 1 .. (nextId - 1)
           /\ \A id \in DOMAIN f : f[id].start <= now
           /\ Distinct(f)
<1>1. \A id \in DOMAIN f : id \in DOMAIN users
  BY DEF RowsOf
<1>2. Distinct(f)
  BY <1>1 DEF RowsOf, Distinct, IInv
<1>3. QED  BY <1>1, <1>2 DEF RowsOf, IInv, TypeOK, Numbered, StartsPast

(* A whole save does so all the more. *)
LEMMA MemoryIsRows == IInv => RowsOf(users, users)
  BY DEF IInv, TypeOK, RowsOf

----------------------------------------------------------------------------
(* Types, and the numbering of accounts. *)

(* A thread that waits has a well-typed job. *)
LEMMA IdleIsJob == IdleJob \in Job
  BY DEF IdleJob, Job

(* A job stays one when it is pardoned, or goes on to write. *)
LEMMA JobChanges ==
    \A j \in Job : [j EXCEPT !.time = Never] \in Job /\ [j EXCEPT !.pc = "write"] \in Job
  BY DEF Job

(* The kinds of job, seen from the types. *)
LEMMA JobToSave ==
    ASSUME IInv, NEW t \in Threads, NEW kind \in Kinds, NEW id \in Ids,
           NEW slot \in 0 .. MaxTime, MustSave(t, kind, id, slot)
    PROVE  job' \in [Threads -> Job]
<1>1. [pc |-> "open", kind |-> kind, id |-> id, time |-> slot] \in Job
  BY DEF Job, Ids
<1>2. QED  BY <1>1 DEF MustSave, IInv, TypeOK

(* The types of what a handler does once its save has returned. *)
LEMMA JobGoesOn ==
    ASSUME IInv, NEW t \in Threads, At(t, "write"), GoOn(t)
    PROVE  /\ job' \in [Threads -> Job]
           /\ DOMAIN answered' \subseteq Ids
           /\ placed' \in [Ids -> [Times -> Nat]]
<1>1. job[t] \in Job /\ job[t].id \in DOMAIN users /\ DOMAIN users \subseteq Ids
  BY DEF At, IInv, JobsKnown, TypeOK
<1>2. [job[t] EXCEPT !.pc = "outbox"] \in Job
  BY <1>1 DEF Job
<1>3. job' \in [Threads -> Job]
  BY <1>2, IdleIsJob DEF GoOn, IInv, TypeOK
<1>4. DOMAIN answered' \subseteq Ids
  BY <1>1 DEF GoOn, Answer, IInv, TypeOK
<1>5. placed' \in [Ids -> [Times -> Nat]]
  <2>1. CASE job[t].kind = "place" /\ job[t].time # Never
    <3>1. placed' = [placed EXCEPT ![job[t].id][job[t].time] = @ + 1]
      BY <2>1 DEF GoOn
    <3>2. job[t].id \in Ids /\ job[t].time \in Times
      BY <1>1, <2>1 DEF Job, Times
    <3>3. placed[job[t].id][job[t].time] \in Nat
      BY <3>2 DEF IInv, TypeOK
    <3>4. QED  BY <3>1, <3>2, <3>3 DEF IInv, TypeOK
  <2>2. CASE ~(job[t].kind = "place" /\ job[t].time # Never)
    BY <2>2 DEF GoOn, IInv, TypeOK
  <2>3. QED  BY <2>1, <2>2
<1>6. QED  BY <1>3, <1>4, <1>5

(* One account is changed, and nobody's id. *)
LEMMA ChangedAccount ==
    ASSUME IInv, NEW id \in DOMAIN users, NEW user \in User,
           users' = [users EXCEPT ![id] = user]
    PROVE  /\ DOMAIN users' = DOMAIN users
           /\ users'[id] = user
           /\ \A i \in DOMAIN users : users'[i] \in User /\ (i # id => users'[i] = users[i])
BY DEF IInv, TypeOK

(* Opening a window changes the window only, and opens it no later than    *)
(* now, since the clock is never ahead of the true time.                   *)
LEMMA WindowTypes ==
    ASSUME TypeOK, NEW user \in User
    PROVE  /\ InWindow(user) \in User
           /\ InWindow(user).name = user.name /\ InWindow(user).email = user.email
           /\ user.start <= now => InWindow(user).start <= now
<1>1. Clock \in 0 .. MaxTime /\ Clock <= now
  BY DEF TypeOK, Times, Clock
<1>2. CASE WindowOver(user)
  <2>1. InWindow(user) = [user EXCEPT !.start = Clock, !.count = 0]
    BY <1>2 DEF InWindow
  <2>2. 0 \in 0 .. Quota
    OBVIOUS
  <2> HIDE DEF Never
  <2>3. InWindow(user) \in User
    BY <2>1, <2>2, <1>1 DEF User
  <2>4. QED  BY <2>1, <2>3, <1>1 DEF User
<1>3. CASE ~WindowOver(user)
  BY <1>3 DEF InWindow
<1>4. QED  BY <1>2, <1>3

(* Every step keeps the types, and gives ids in order. *)
LEMMA TypeStep == IInv /\ [Next]_vars => TypeOK' /\ Numbered'
<1> SUFFICES ASSUME IInv, [Next]_vars PROVE TypeOK' /\ Numbered'
  OBVIOUS
<1>0. requests \in Nat /\ MaxRequests \in Nat
  BY DEF IInv, TypeOK
<1>1. ASSUME NEW t \in Threads, NEW name \in Names, NEW email \in Emails,
             Register(t, name, email)
      PROVE  TypeOK' /\ Numbered'
  <2> DEFINE user == [name |-> name, email |-> email, verified |-> ~required,
                      link |-> required,
                      expires |-> IF required THEN Clock + VerificationTtl ELSE Never,
                      start |-> Never, count |-> 0]
  <2>1. nextId \in Ids /\ requests' = requests + 1 /\ requests < MaxRequests
        /\ nextId' = nextId + 1
    BY <1>1, <1>0 DEF Register, Idle, IInv, Numbered, Ids
  <2>2. user \in User
    <3>1. Clock \in 1 .. MaxTime /\ required \in BOOLEAN
      BY DEF IInv, TypeOK, Times
    <3>2. (IF required THEN Clock + VerificationTtl ELSE Never)
             \in 0 .. (MaxTime + VerificationTtl)
      BY <3>1
    <3>3. QED  BY <3>1, <3>2 DEF User
  <2> HIDE DEF user
  <2>3. users' = [id \in DOMAIN users \cup {nextId} |-> IF id = nextId THEN user ELSE users[id]]
    BY <1>1 DEF Register, user
  <2>4. DOMAIN users' \subseteq Ids /\ \A id \in DOMAIN users' : users'[id] \in User
    BY <2>1, <2>2, <2>3 DEF IInv, TypeOK
  <2>5. job' \in [Threads -> Job]
    BY <1>1, <2>1, JobToSave DEF Register, Idle
  <2>6. opened' \subseteq Ids
    BY <1>1, <2>1 DEF Register, IInv, TypeOK
  <2>7. nextId' \in 1 .. (MaxRequests + 2) /\ requests' \in 0 .. MaxRequests
    BY <1>0, <2>1 DEF Ids, IInv, TypeOK
  <2>8. TypeOK'
    BY <1>1, <2>4, <2>5, <2>6, <2>7
    DEF Register, TypeOK, IInv, time, Clock
  <2>9. Numbered'
    BY <1>0, <1>1, <2>1, <2>3 DEF Register, Numbered, IInv, Ids
  <2>10. QED  BY <2>8, <2>9
<1>2. ASSUME NEW t \in Threads, NEW id \in Ids, VerifyEmail(t, id)
      PROVE  TypeOK' /\ Numbered'
  <2> DEFINE user == [users[id] EXCEPT !.verified = TRUE, !.link = FALSE, !.expires = Never]
  <2>1. id \in DOMAIN users /\ users' = [users EXCEPT ![id] = user]
    BY <1>2 DEF VerifyEmail
  <2>2. user \in User
    <3>1. users[id] \in User /\ 0 \in 0 .. (MaxTime + VerificationTtl)
      BY <2>1 DEF IInv, TypeOK
    <3>2. QED  BY <3>1 DEF User
  <2> HIDE DEF user
  <2>3. DOMAIN users' = DOMAIN users /\ \A i \in DOMAIN users : users'[i] \in User
    BY <2>1, <2>2, ChangedAccount
  <2>4. job' \in [Threads -> Job]
    BY <1>2, JobToSave DEF VerifyEmail, Idle
  <2>5. requests' = requests + 1 /\ requests' \in 0 .. MaxRequests
    BY <1>0, <1>2 DEF VerifyEmail, Idle, IInv, TypeOK
  <2>6. TypeOK'
    BY <1>2, <2>3, <2>4, <2>5 DEF VerifyEmail, TypeOK, IInv, time, Clock
  <2>7. Numbered'
    BY <1>0, <1>2, <2>3, <2>5 DEF VerifyEmail, Numbered, IInv
  <2>8. QED  BY <2>6, <2>7
<1>3. ASSUME NEW t \in Threads, NEW id \in Ids, ConsumePixelSlot(t, id)
      PROVE  TypeOK' /\ Numbered'
  <2> DEFINE user == [InWindow(users[id]) EXCEPT !.count = @ + 1]
  <2>1. /\ id \in DOMAIN users /\ users' = [users EXCEPT ![id] = user]
        /\ InWindow(users[id]).count < Quota
    BY <1>3 DEF ConsumePixelSlot
  <2>2. user \in User
    <3>1. InWindow(users[id]) \in User
      BY <2>1, WindowTypes DEF IInv, TypeOK
    <3>2. InWindow(users[id]).count + 1 \in 0 .. Quota
      BY <2>1, <3>1 DEF User
    <3>3. QED  BY <3>1, <3>2 DEF User
  <2> HIDE DEF user
  <2>3. DOMAIN users' = DOMAIN users /\ \A i \in DOMAIN users : users'[i] \in User
    BY <2>1, <2>2, ChangedAccount
  <2>4. job' \in [Threads -> Job]
    <3>1. now \in 0 .. MaxTime
      BY DEF IInv, TypeOK, Times
    <3>2. QED  BY <1>3, <3>1, JobToSave DEF ConsumePixelSlot, Idle
  <2>5. requests' = requests + 1 /\ requests' \in 0 .. MaxRequests
    BY <1>0, <1>3 DEF ConsumePixelSlot, Idle, IInv, TypeOK
  <2>6. TypeOK'
    BY <1>3, <2>3, <2>4, <2>5 DEF ConsumePixelSlot, TypeOK, IInv, time, ghosts, Clock
  <2>7. Numbered'
    BY <1>0, <1>3, <2>3, <2>5 DEF ConsumePixelSlot, Numbered, IInv
  <2>8. QED  BY <2>6, <2>7
<1>4. ASSUME NEW t \in Threads, NEW id \in Ids, ResetPixelQuota(t, id)
      PROVE  TypeOK' /\ Numbered'
  <2> DEFINE user == [users[id] EXCEPT !.start = Never, !.count = 0]
  <2>1. id \in DOMAIN users /\ users' = [users EXCEPT ![id] = user]
    BY <1>4 DEF ResetPixelQuota
  <2>2. user \in User
    <3>1. users[id] \in User /\ 0 \in 0 .. MaxTime /\ 0 \in 0 .. Quota
      BY <2>1 DEF IInv, TypeOK
    <3>2. QED  BY <3>1 DEF User
  <2> HIDE DEF user
  <2>3. DOMAIN users' = DOMAIN users /\ \A i \in DOMAIN users : users'[i] \in User
    BY <2>1, <2>2, ChangedAccount
  <2>4. job' \in [Threads -> Job]
    <3>1. [pc |-> "open", kind |-> "forgive", id |-> id, time |-> Never] \in Job
      BY <1>4 DEF ResetPixelQuota, Idle, Job, Ids
    <3>2. \A u \in Threads : job[u] \in Job /\ [job[u] EXCEPT !.time = Never] \in Job
      <4>1. \A u \in Threads : job[u] \in Job
        BY DEF IInv, TypeOK
      <4>2. QED  BY <4>1, JobChanges
    <3>3. QED  BY <1>4, <3>1, <3>2 DEF ResetPixelQuota
  <2>5. requests' = requests + 1 /\ requests' \in 0 .. MaxRequests
    BY <1>0, <1>4 DEF ResetPixelQuota, Idle, IInv, TypeOK
  <2>6. placed' \in [Ids -> [Times -> Nat]]
    BY <1>4 DEF ResetPixelQuota, IInv, TypeOK
  <2>7. TypeOK'
    BY <1>4, <2>3, <2>4, <2>5, <2>6 DEF ResetPixelQuota, TypeOK, IInv, time, Clock
  <2>8. Numbered'
    BY <1>0, <1>4, <2>3, <2>5 DEF ResetPixelQuota, Numbered, IInv
  <2>9. QED  BY <2>7, <2>8
<1>5. ASSUME NEW t \in Threads, OpenFile(t) PROVE TypeOK' /\ Numbered'
  <2>1. job' \in [Threads -> Job]
    <3>1. job \in [Threads -> Job] /\ job' = [job EXCEPT ![t] = [job[t] EXCEPT !.pc = "write"]]
      BY <1>5 DEF OpenFile, IInv, TypeOK
    <3>2. QED  BY <3>1, JobChanges
  <2>2. DOMAIN file' = {}
    BY <1>5 DEF OpenFile
  <2>3. QED
    BY <1>5, <2>1, <2>2
    DEF OpenFile, IInv, TypeOK, Numbered, time, ghosts, counters, Clock
<1>6. ASSUME NEW t \in Threads, OpenFileFails(t) PROVE TypeOK' /\ Numbered'
  BY <1>6, IdleIsJob DEF OpenFileFails, Faulty, IInv, TypeOK, Numbered, time, Clock
<1>7. ASSUME NEW t \in Threads, CloseFile(t) PROVE TypeOK' /\ Numbered'
  <2>1. At(t, "write") /\ GoOn(t) /\ file' = users
    BY <1>7 DEF CloseFile
  <2>2. QED
    BY <1>7, <2>1, JobGoesOn DEF CloseFile, IInv, TypeOK, Numbered, time, counters, Clock
<1>8. ASSUME NEW t \in Threads, CloseWithLoss(t) PROVE TypeOK' /\ Numbered'
  <2>1. PICK f \in LeftOver : file' = f
    BY <1>8 DEF CloseWithLoss
  <2>2. RowsOf(f, users)
    BY LeftOverRows DEF IInv, TypeOK
  <2>3. /\ DOMAIN f \subseteq Ids /\ \A id \in DOMAIN f : f[id] \in User
        /\ DOMAIN f \subseteq 1 .. (nextId - 1)
    BY <2>2, RowsOfMemory
  <2>4. At(t, "write") /\ GoOn(t)
    BY <1>8 DEF CloseWithLoss
  <2>5. QED
    BY <1>8, <2>1, <2>3, <2>4, JobGoesOn
    DEF CloseWithLoss, Faulty, IInv, TypeOK, Numbered, time, Clock
<1>9. ASSUME NEW t \in Threads, AppendOutbox(t) PROVE TypeOK' /\ Numbered'
  <2>1. job[t].id \in Ids
    BY <1>9 DEF AppendOutbox, At, IInv, JobsKnown, TypeOK
  <2>2. outbox' \subseteq Ids /\ faults' \in 0 .. MaxFaults
    BY <1>9, <2>1 DEF AppendOutbox, Faulty, IInv, TypeOK
  <2>3. DOMAIN answered' \subseteq Ids
    BY <1>9, <2>1 DEF AppendOutbox, Answer, IInv, TypeOK
  <2>4. QED
    BY <1>9, <2>2, <2>3, IdleIsJob DEF AppendOutbox, IInv, TypeOK, Numbered, time, Clock
<1>10. CASE Tick
  <2>1. now' \in Times /\ Clock' \in Times
    BY <1>10 DEF Tick, IInv, TypeOK, Times, Clock
  <2>2. QED
    BY <1>10, <2>1 DEF Tick, IInv, TypeOK, Numbered, ghosts, counters
<1>11. CASE SetClockBack
  <2>1. Clock' \in Times /\ setBack' \in Nat /\ faults' \in 0 .. MaxFaults
    BY <1>11 DEF SetClockBack, Faulty, IInv, TypeOK, Times, Clock
  <2>2. QED
    BY <1>11, <2>1 DEF SetClockBack, IInv, TypeOK, Numbered, ghosts
<1>12. CASE Crash
  <2>1. PICK f : f = file'
    OBVIOUS
  <2>2. /\ DOMAIN f \subseteq Ids /\ \A id \in DOMAIN f : f[id] \in User
        /\ DOMAIN f \subseteq 1 .. (nextId - 1)
    <3>1. CASE f \in LeftOver
      <4>1. RowsOf(f, users)
        BY <3>1, LeftOverRows DEF IInv, TypeOK
      <4>2. QED  BY <4>1, RowsOfMemory
    <3>2. CASE f = file
      BY <3>2 DEF IInv, TypeOK, Numbered
    <3>3. QED  BY <1>12, <2>1, <3>1, <3>2 DEF Crash
  <2>3. lastSave' \in {"whole", "failed", "short"}
    BY <1>12 DEF Crash, IInv, TypeOK
  <2>4. job' \in [Threads -> Job]
    BY <1>12, IdleIsJob DEF Crash
  <2>5. /\ up' = FALSE /\ faults' \in 0 .. MaxFaults
        /\ UNCHANGED <<users, nextId, required, outbox, now, setBack, answered, opened,
                       placed, forgot, requests>>
    BY <1>12 DEF Crash, Faulty, IInv, TypeOK, time
  <2>6. TypeOK'
    BY <2>1, <2>2, <2>3, <2>4, <2>5 DEF IInv, TypeOK, Clock
  <2>7. Numbered'
    BY <2>1, <2>2, <2>5 DEF IInv, Numbered
  <2>8. QED  BY <2>6, <2>7
<1>13. CASE Load
  <2>1. /\ nextId' \in 1 .. nextId
        /\ DOMAIN file \subseteq 1 .. (nextId' - 1)
    <3>1. /\ nextId \in Nat /\ nextId - 1 \in Nat
          /\ DOMAIN file \subseteq 1 .. (nextId - 1)
      BY <1>0 DEF IInv, Numbered
    <3>2. PICK bound \in Nat : bound = nextId - 1
      BY <3>1
    <3> DEFINE last == Max(DOMAIN file \cup {0})
    <3>3. nextId' = last + 1
      BY <1>13 DEF Load
    <3>4. DOMAIN file \subseteq 1 .. bound
      BY <3>1, <3>2
    <3>5. last \in 0 .. bound /\ DOMAIN file \subseteq 1 .. last
      BY <3>4, LastIdOfFile
    <3> HIDE DEF last
    <3>6. nextId' \in 1 .. (bound + 1) /\ DOMAIN file \subseteq 1 .. (nextId' - 1)
      BY <3>3, <3>5
    <3>7. QED  BY <3>1, <3>2, <3>6
  <2>2. nextId' \in 1 .. (requests + 2) /\ nextId' \in 1 .. (MaxRequests + 2)
    BY <1>0, <2>1 DEF IInv, Numbered, TypeOK
  <2>3. QED
    BY <1>13, <2>1, <2>2 DEF Load, IInv, TypeOK, Numbered, time, counters, Clock
<1>14. CASE UNCHANGED vars
  BY <1>14 DEF vars, time, ghosts, counters, IInv, TypeOK, Numbered, Clock
<1>15. QED
  BY <1>1, <1>2, <1>3, <1>4, <1>5, <1>6, <1>7, <1>8, <1>9, <1>10, <1>11, <1>12,
     <1>13, <1>14 DEF Next

(* A window opens now, by a clock that is never ahead of the true time, and *)
(* a job works for an account that stays.                                  *)
LEMMA KnownStep == IInv /\ [Next]_vars => JobsKnown' /\ StartsPast'
<1> SUFFICES ASSUME IInv, [Next]_vars PROVE JobsKnown' /\ StartsPast'
  OBVIOUS
<1>0. now \in Nat /\ job \in [Threads -> Job]
  BY DEF IInv, TypeOK, Times
<1>1. ASSUME NEW t \in Threads, NEW name \in Names, NEW email \in Emails,
             Register(t, name, email)
      PROVE  JobsKnown' /\ StartsPast'
  <2>1. DOMAIN users' = DOMAIN users \cup {nextId} /\ up' = up /\ up
    BY <1>1 DEF Register, Idle, At
  <2>2. \A id \in DOMAIN users' : users'[id].start <= now
    BY <1>0, <1>1 DEF Register, IInv, StartsPast
  <2>3. \A u \in Threads : job'[u].id \in DOMAIN users' \/ job'[u].pc = "idle"
    BY <1>0, <1>1, <2>1 DEF Register, MustSave, IInv, JobsKnown
  <2>4. JobsKnown'
    BY <2>1, <2>3 DEF JobsKnown
  <2>5. UNCHANGED <<file, now>>
    BY <1>1 DEF Register, time
  <2>6. QED  BY <2>2, <2>4, <2>5 DEF IInv, StartsPast
<1>2. ASSUME NEW t \in Threads, NEW id \in Ids, VerifyEmail(t, id)
      PROVE  JobsKnown' /\ StartsPast'
  BY <1>0, <1>2 DEF VerifyEmail, Idle, At, MustSave, time, IInv, TypeOK, User, JobsKnown,
                    StartsPast
<1>3. ASSUME NEW t \in Threads, NEW id \in Ids, ConsumePixelSlot(t, id)
      PROVE  JobsKnown' /\ StartsPast'
  <2> DEFINE user == [InWindow(users[id]) EXCEPT !.count = @ + 1]
  <2>1. id \in DOMAIN users /\ users' = [users EXCEPT ![id] = user] /\ up
    BY <1>3 DEF ConsumePixelSlot, Idle, At
  <2>2. user.start <= now
    <3>1. users[id] \in User /\ users[id].start <= now
      BY <2>1 DEF IInv, TypeOK, StartsPast
    <3>2. InWindow(users[id]) \in User /\ InWindow(users[id]).start <= now
      BY <3>1, WindowTypes DEF IInv
    <3>3. QED  BY <3>2 DEF User
  <2> HIDE DEF user
  <2>3. UNCHANGED <<file, now, up>>
    BY <1>3 DEF ConsumePixelSlot, time
  <2>4. DOMAIN users' = DOMAIN users /\ \A i \in DOMAIN users : users'[i].start <= now
    BY <2>1, <2>2 DEF IInv, StartsPast
  <2>5. JobsKnown'
    BY <1>0, <1>3, <2>1, <2>3, <2>4 DEF ConsumePixelSlot, MustSave, IInv, JobsKnown
  <2>6. QED  BY <2>3, <2>4, <2>5 DEF IInv, StartsPast
<1>4. ASSUME NEW t \in Threads, NEW id \in Ids, ResetPixelQuota(t, id)
      PROVE  JobsKnown' /\ StartsPast'
  <2>1. /\ id \in DOMAIN users /\ DOMAIN users' = DOMAIN users /\ up /\ up'
        /\ \A u \in Threads : job'[u].pc = "idle" \/ job'[u].id \in DOMAIN users
    BY <1>0, <1>4 DEF ResetPixelQuota, Idle, At, IInv, JobsKnown, Job
  <2>2. \A i \in DOMAIN users : users'[i].start <= now
    BY <1>0, <1>4, <2>1 DEF ResetPixelQuota, IInv, TypeOK, User, StartsPast
  <2>3. QED
    BY <1>4, <2>1, <2>2 DEF ResetPixelQuota, time, IInv, JobsKnown, StartsPast
<1>5. ASSUME NEW t \in Threads, OpenFile(t) PROVE JobsKnown' /\ StartsPast'
  <2>1. DOMAIN file' = {}
    BY <1>5 DEF OpenFile
  <2>2. QED
    BY <1>0, <1>5, <2>1 DEF OpenFile, At, time, IInv, JobsKnown, StartsPast
<1>6. ASSUME NEW t \in Threads, OpenFileFails(t) PROVE JobsKnown' /\ StartsPast'
  BY <1>0, <1>6 DEF OpenFileFails, IdleJob, time, IInv, JobsKnown, StartsPast
<1>7. ASSUME NEW t \in Threads, CloseFile(t) PROVE JobsKnown' /\ StartsPast'
  BY <1>0, <1>7 DEF CloseFile, GoOn, At, IdleJob, time, Job, IInv, JobsKnown, StartsPast
<1>8. ASSUME NEW t \in Threads, CloseWithLoss(t) PROVE JobsKnown' /\ StartsPast'
  <2>1. PICK f \in LeftOver : file' = f
    BY <1>8 DEF CloseWithLoss
  <2>2. RowsOf(f, users)
    BY LeftOverRows DEF IInv, TypeOK
  <2>3. \A id \in DOMAIN f : f[id].start <= now
    BY <2>2, RowsOfMemory
  <2>4. QED
    BY <1>0, <1>8, <2>1, <2>3
    DEF CloseWithLoss, GoOn, At, IdleJob, time, Job, IInv, JobsKnown, StartsPast
<1>9. ASSUME NEW t \in Threads, AppendOutbox(t) PROVE JobsKnown' /\ StartsPast'
  BY <1>0, <1>9 DEF AppendOutbox, IdleJob, time, IInv, JobsKnown, StartsPast
<1>10. CASE Tick
  <2>1. \A n \in Nat : n <= now => n <= now'
    BY <1>0, <1>10 DEF Tick
  <2>2. QED
    BY <1>10, <2>1 DEF Tick, IInv, TypeOK, User, JobsKnown, StartsPast
<1>11. CASE SetClockBack
  BY <1>11 DEF SetClockBack, IInv, JobsKnown, StartsPast
<1>12. CASE Crash
  <2>1. PICK f : f = file'
    OBVIOUS
  <2>2. \A id \in DOMAIN f : f[id].start <= now
    <3>1. CASE f \in LeftOver
      <4>1. RowsOf(f, users)
        BY <3>1, LeftOverRows DEF IInv, TypeOK
      <4>2. QED  BY <4>1, RowsOfMemory
    <3>2. CASE f = file
      BY <3>2 DEF IInv, StartsPast
    <3>3. QED  BY <1>12, <2>1, <3>1, <3>2 DEF Crash
  <2>3. \A t \in Threads : job'[t].pc = "idle"
    BY <1>12 DEF Crash, IdleJob
  <2>4. UNCHANGED <<users, now>>
    BY <1>12 DEF Crash, time
  <2>5. QED  BY <2>1, <2>2, <2>3, <2>4 DEF IInv, JobsKnown, StartsPast
<1>13. CASE Load
  BY <1>13 DEF Load, time, IInv, JobsKnown, StartsPast
<1>14. CASE UNCHANGED vars
  BY <1>14 DEF vars, time, ghosts, counters, IInv, JobsKnown, StartsPast
<1>15. QED
  BY <1>1, <1>2, <1>3, <1>4, <1>5, <1>6, <1>7, <1>8, <1>9, <1>10, <1>11, <1>12,
     <1>13, <1>14 DEF Next

----------------------------------------------------------------------------
(* Names and addresses. *)

(* One account is changed, but neither its name nor its address. *)
LEMMA SameIdentities ==
    ASSUME IInv, DOMAIN users' = DOMAIN users,
           \A id \in DOMAIN users : /\ users'[id].name = users[id].name
                                    /\ users'[id].email = users[id].email
    PROVE  Distinct(users)'
BY DEF IInv, Distinct

(* What VerifyEmail, ConsumePixelSlot and ResetPixelQuota leave alone. *)
LEMMA AccountStep ==
    ASSUME IInv, NEW t \in Threads, NEW id \in Ids,
           VerifyEmail(t, id) \/ ConsumePixelSlot(t, id) \/ ResetPixelQuota(t, id)
    PROVE  /\ DOMAIN users' = DOMAIN users
           /\ \A i \in DOMAIN users : /\ users'[i].name = users[i].name
                                      /\ users'[i].email = users[i].email
           /\ At(t, "idle") /\ Free
           /\ job'[t].pc = "open"
           /\ \A u \in Threads : u # t => job'[u].pc = job[u].pc /\ job'[u].id = job[u].id
           /\ UNCHANGED <<file, up, answered, lastSave, forgot>>
<1>0. job \in [Threads -> Job] /\ \A i \in DOMAIN users : users[i] \in User
  BY DEF IInv, TypeOK
<1>1. CASE VerifyEmail(t, id)
  BY <1>0, <1>1 DEF VerifyEmail, Idle, At, MustSave, User
<1>2. CASE ConsumePixelSlot(t, id)
  <2> DEFINE user == [InWindow(users[id]) EXCEPT !.count = @ + 1]
  <2>1. id \in DOMAIN users /\ users' = [users EXCEPT ![id] = user]
    BY <1>2 DEF ConsumePixelSlot
  <2>2. user.name = users[id].name /\ user.email = users[id].email
    <3>1. /\ InWindow(users[id]) \in User /\ InWindow(users[id]).name = users[id].name
          /\ InWindow(users[id]).email = users[id].email
      BY <1>0, <2>1, WindowTypes DEF IInv
    <3>2. QED  BY <3>1 DEF User
  <2> HIDE DEF user
  <2>3. /\ DOMAIN users' = DOMAIN users
        /\ \A i \in DOMAIN users : /\ users'[i].name = users[i].name
                                   /\ users'[i].email = users[i].email
    BY <2>1, <2>2
  <2>4. QED  BY <1>0, <1>2, <2>3 DEF ConsumePixelSlot, Idle, At, MustSave, ghosts
<1>3. CASE ResetPixelQuota(t, id)
  BY <1>0, <1>3 DEF ResetPixelQuota, Idle, At, User, Job
<1>4. QED  BY <1>1, <1>2, <1>3

(* Every step keeps names and addresses apart, in memory and in the file:  *)
(* registerUser compares them under the mutex that it adds the account in. *)
LEMMA DistinctStep == IInv /\ [Next]_vars => Distinct(users)' /\ Distinct(file)'
<1> SUFFICES ASSUME IInv, [Next]_vars PROVE Distinct(users)' /\ Distinct(file)'
  OBVIOUS
<1>1. ASSUME NEW t \in Threads, NEW name \in Names, NEW email \in Emails,
             Register(t, name, email)
      PROVE  Distinct(users)' /\ Distinct(file)'
  <2> DEFINE user == [name |-> name, email |-> email, verified |-> ~required,
                      link |-> required,
                      expires |-> IF required THEN Clock + VerificationTtl ELSE Never,
                      start |-> Never, count |-> 0]
  <2>1. user.name = name /\ user.email = email
    OBVIOUS
  <2> HIDE DEF user
  <2>2. users' = [id \in DOMAIN users \cup {nextId} |-> IF id = nextId THEN user ELSE users[id]]
    BY <1>1 DEF Register, user
  <2>3. \A id \in DOMAIN users : users[id].name # name /\ users[id].email # email
    BY <1>1 DEF Register, Taken
  <2>4. Distinct(users)'
    BY <2>1, <2>2, <2>3 DEF IInv, Distinct
  <2>5. Distinct(file)'
    BY <1>1 DEF Register, IInv, Distinct
  <2>6. QED  BY <2>4, <2>5
<1>2. ASSUME NEW t \in Threads, NEW id \in Ids,
             VerifyEmail(t, id) \/ ConsumePixelSlot(t, id) \/ ResetPixelQuota(t, id)
      PROVE  Distinct(users)' /\ Distinct(file)'
  <2>1. Distinct(users)'
    BY <1>2, AccountStep, SameIdentities
  <2>2. UNCHANGED file
    BY <1>2, AccountStep
  <2>3. QED  BY <2>1, <2>2 DEF IInv, Distinct
<1>3. ASSUME NEW t \in Threads, OpenFile(t) PROVE Distinct(users)' /\ Distinct(file)'
  <2>1. DOMAIN file' = {}
    BY <1>3 DEF OpenFile
  <2>2. QED  BY <1>3, <2>1 DEF OpenFile, IInv, Distinct
<1>4. ASSUME NEW t \in Threads, OpenFileFails(t) PROVE Distinct(users)' /\ Distinct(file)'
  BY <1>4 DEF OpenFileFails, IInv, Distinct
<1>5. ASSUME NEW t \in Threads, CloseFile(t) PROVE Distinct(users)' /\ Distinct(file)'
  BY <1>5 DEF CloseFile, IInv, Distinct
<1>6. ASSUME \E f \in LeftOver : file' = f, UNCHANGED users
      PROVE  Distinct(users)' /\ Distinct(file)'
  <2>1. PICK f \in LeftOver : file' = f
    BY <1>6
  <2>2. RowsOf(f, users)
    BY LeftOverRows DEF IInv, TypeOK
  <2>3. Distinct(f)
    BY <2>2, RowsOfMemory
  <2>4. QED  BY <1>6, <2>1, <2>3 DEF IInv, Distinct
<1>7. ASSUME NEW t \in Threads, CloseWithLoss(t) PROVE Distinct(users)' /\ Distinct(file)'
  BY <1>6, <1>7 DEF CloseWithLoss
<1>8. ASSUME NEW t \in Threads, AppendOutbox(t) PROVE Distinct(users)' /\ Distinct(file)'
  BY <1>8 DEF AppendOutbox, IInv, Distinct
<1>9. CASE Tick \/ SetClockBack
  BY <1>9 DEF Tick, SetClockBack, IInv, Distinct
<1>10. CASE Crash
  <2>1. UNCHANGED users /\ (file' \in LeftOver \/ file' = file)
    BY <1>10 DEF Crash
  <2>2. CASE file' = file
    BY <2>1, <2>2 DEF IInv, Distinct
  <2>3. QED  BY <1>6, <2>1, <2>2
<1>11. CASE Load
  BY <1>11 DEF Load, IInv, Distinct
<1>12. CASE UNCHANGED vars
  BY <1>12 DEF vars, IInv, Distinct
<1>13. QED
  BY <1>1, <1>2, <1>3, <1>4, <1>5, <1>7, <1>8, <1>9, <1>10, <1>11, <1>12 DEF Next

(* Every step keeps the addresses of what was never cut short apart: the   *)
(* file is the memory, or what was the memory, unless the last save was    *)
(* short, and a start that meets such a file is remembered.                *)
LEMMA UncutStep == IInv /\ [Next]_vars => Uncut'
<1> SUFFICES ASSUME IInv, [Next]_vars PROVE Uncut'
  OBVIOUS
<1>1. ASSUME NEW t \in Threads, NEW name \in Names, NEW email \in Emails,
             Register(t, name, email)
      PROVE  Uncut'
  <2> DEFINE user == [name |-> name, email |-> email, verified |-> ~required,
                      link |-> required,
                      expires |-> IF required THEN Clock + VerificationTtl ELSE Never,
                      start |-> Never, count |-> 0]
  <2>1. user.email = email
    OBVIOUS
  <2> HIDE DEF user
  <2>2. users' = [id \in DOMAIN users \cup {nextId} |-> IF id = nextId THEN user ELSE users[id]]
    BY <1>1 DEF Register, user
  <2>3. \A id \in DOMAIN users : users[id].email # email
    BY <1>1 DEF Register, Taken
  <2>4. Unshared(users) => Unshared(users)'
    BY <2>1, <2>2, <2>3 DEF Unshared
  <2>5. UNCHANGED <<file, forgot, lastSave>>
    BY <1>1 DEF Register
  <2>6. QED  BY <2>4, <2>5 DEF IInv, Uncut, Unshared
<1>2. ASSUME NEW t \in Threads, NEW id \in Ids,
             VerifyEmail(t, id) \/ ConsumePixelSlot(t, id) \/ ResetPixelQuota(t, id)
      PROVE  Uncut'
  <2>1. /\ DOMAIN users' = DOMAIN users
        /\ \A i \in DOMAIN users : users'[i].email = users[i].email
        /\ UNCHANGED <<file, forgot, lastSave>>
    BY <1>2, AccountStep
  <2>2. Unshared(users) => Unshared(users)'
    BY <2>1 DEF Unshared
  <2>3. QED  BY <2>1, <2>2 DEF IInv, Uncut, Unshared
<1>3. ASSUME NEW t \in Threads, OpenFile(t) PROVE Uncut'
  <2>1. DOMAIN file' = {} /\ UNCHANGED <<users, forgot, lastSave>>
    BY <1>3 DEF OpenFile, ghosts
  <2>2. QED  BY <2>1 DEF IInv, Uncut, Unshared
<1>4. ASSUME NEW t \in Threads, OpenFileFails(t) PROVE Uncut'
  BY <1>4 DEF OpenFileFails, IInv, Uncut, Unshared
<1>5. ASSUME NEW t \in Threads, CloseFile(t) PROVE Uncut'
  BY <1>5 DEF CloseFile, IInv, Uncut, Unshared
<1>6. ASSUME NEW t \in Threads, CloseWithLoss(t) PROVE Uncut'
  BY <1>6 DEF CloseWithLoss, IInv, Uncut, Unshared
<1>7. ASSUME NEW t \in Threads, AppendOutbox(t) PROVE Uncut'
  BY <1>7 DEF AppendOutbox, IInv, Uncut, Unshared
<1>8. CASE Tick \/ SetClockBack
  BY <1>8 DEF Tick, SetClockBack, ghosts, IInv, Uncut, Unshared
<1>9. CASE Crash
  <2>1. /\ UNCHANGED <<users, forgot>>
        /\ lastSave' # "short" => lastSave' = lastSave /\ (file' = users \/ file' = file)
    BY <1>9 DEF Crash
  <2>2. QED  BY <2>1 DEF IInv, Uncut, Unshared
<1>10. CASE Load
  <2>1. users' = file /\ file' = file /\ forgot' = (forgot \/ lastSave = "short")
    BY <1>10 DEF Load
  <2>2. QED  BY <2>1 DEF IInv, Uncut, Unshared
<1>11. CASE UNCHANGED vars
  BY <1>11 DEF vars, ghosts, IInv, Uncut, Unshared
<1>12. QED
  BY <1>1, <1>2, <1>3, <1>4, <1>5, <1>6, <1>7, <1>8, <1>9, <1>10, <1>11 DEF Next

----------------------------------------------------------------------------
(* The file keeps up with the memory. *)

(* Every step keeps the file current: who changes the memory still has to  *)
(* save it.                                                                *)
LEMMA CurrentStep == IInv /\ [Next]_vars => FileCurrent'
<1> SUFFICES ASSUME IInv, [Next]_vars PROVE FileCurrent'
  OBVIOUS
<1>0. job \in [Threads -> Job]
  BY DEF IInv, TypeOK
<1>1. ASSUME NEW t \in Threads, NEW name \in Names, NEW email \in Emails,
             Register(t, name, email)
      PROVE  FileCurrent'
  BY <1>0, <1>1 DEF Register, MustSave, FileCurrent
<1>2. ASSUME NEW t \in Threads, NEW id \in Ids,
             VerifyEmail(t, id) \/ ConsumePixelSlot(t, id) \/ ResetPixelQuota(t, id)
      PROVE  FileCurrent'
  <2>1. job'[t].pc = "open"
    BY <1>2, AccountStep
  <2>2. QED  BY <2>1 DEF FileCurrent
<1>3. ASSUME NEW t \in Threads, OpenFile(t) PROVE FileCurrent'
  BY <1>0, <1>3 DEF OpenFile, FileCurrent
<1>4. ASSUME NEW t \in Threads, OpenFileFails(t) PROVE FileCurrent'
  BY <1>4 DEF OpenFileFails, FileCurrent
<1>5. ASSUME NEW t \in Threads, CloseFile(t) PROVE FileCurrent'
  BY <1>5 DEF CloseFile, FileCurrent
<1>6. ASSUME NEW t \in Threads, CloseWithLoss(t) PROVE FileCurrent'
  BY <1>6 DEF CloseWithLoss, FileCurrent
<1>7. ASSUME NEW t \in Threads, AppendOutbox(t) PROVE FileCurrent'
  BY <1>0, <1>7 DEF AppendOutbox, At, IdleJob, IInv, FileCurrent
<1>8. CASE Tick \/ SetClockBack
  BY <1>8 DEF Tick, SetClockBack, ghosts, IInv, FileCurrent
<1>9. CASE Crash
  BY <1>9 DEF Crash, FileCurrent
<1>10. CASE Load
  BY <1>10 DEF Load, FileCurrent
<1>11. CASE UNCHANGED vars
  BY <1>11 DEF vars, ghosts, IInv, FileCurrent
<1>12. QED
  BY <1>1, <1>2, <1>3, <1>4, <1>5, <1>6, <1>7, <1>8, <1>9, <1>10, <1>11 DEF Next

----------------------------------------------------------------------------
(* Answered accounts are kept. *)

(* Nothing that Kept looks at has changed, but perhaps who saves. *)
LEMMA SameKept ==
    ASSUME IInv, UNCHANGED <<file, answered, lastSave, forgot>>, up' => up,
           \A id \in DOMAIN users : id \in DOMAIN users' /\ users'[id].name = users[id].name,
           \A t \in Threads : job'[t].pc = "outbox" =>
              job[t].pc = "outbox" /\ job'[t].id = job[t].id,
           (\A t \in Threads : job'[t].pc # "write") => \A t \in Threads : job[t].pc # "write"
    PROVE  Kept'
<1>1. \A t \in Threads : job'[t].pc = "outbox" => job[t].id \in DOMAIN users
  BY DEF IInv, JobsKnown
<1>2. ASSUME up', ~forgot PROVE Keeps(users)'
  <2>1. Keeps(users)
    BY <1>2 DEF IInv, Kept
  <2>2. \A id \in DOMAIN answered' : id \in DOMAIN users' /\ users'[id].name = answered'[id]
    BY <2>1 DEF Keeps
  <2>3. \A t \in Threads : job'[t].pc = "outbox" => job'[t].id \in DOMAIN users'
    BY <1>1
  <2>4. QED  BY <2>2, <2>3 DEF Keeps
<1>3. ASSUME ~forgot, lastSave # "short", \A t \in Threads : job'[t].pc # "write"
      PROVE  Keeps(file)'
  <2>1. Keeps(file)
    BY <1>3 DEF IInv, Kept
  <2>2. \A id \in DOMAIN answered' : id \in DOMAIN file' /\ file'[id].name = answered'[id]
    BY <2>1 DEF Keeps
  <2>3. \A t \in Threads : job'[t].pc = "outbox" =>
           job'[t].id \in DOMAIN file' /\ file'[job'[t].id].name = users'[job'[t].id].name
    BY <1>1, <2>1 DEF Keeps
  <2>4. QED  BY <2>2, <2>3 DEF Keeps
<1>4. QED  BY <1>2, <1>3 DEF Kept

(* The save of t is over: its account is answered, or will be. *)
LEMMA GoOnKeeps ==
    ASSUME IInv, NEW t \in Threads, At(t, "write"), GoOn(t), UNCHANGED <<users, up, forgot>>,
           ~forgot
    PROVE  Keeps(users)'
<1>1. Keeps(users) /\ job[t].id \in DOMAIN users /\ job \in [Threads -> Job]
  BY DEF IInv, Kept, At, JobsKnown, TypeOK
<1>2. \A id \in DOMAIN answered' : id \in DOMAIN users /\ users[id].name = answered'[id]
  BY <1>1 DEF GoOn, Answer, Keeps
<1>3. \A u \in Threads : job'[u].pc = "outbox" => job'[u].id \in DOMAIN users
  BY <1>1 DEF GoOn, IdleJob, Job, Keeps
<1>4. QED  BY <1>2, <1>3 DEF Keeps

(* Every step keeps what was answered: in the memory for good, and in the  *)
(* file unless the disk has just cut it short.                             *)
LEMMA KeptStep == IInv /\ [Next]_vars => Kept'
<1> SUFFICES ASSUME IInv, [Next]_vars PROVE Kept'
  OBVIOUS
<1>0. job \in [Threads -> Job]
  BY DEF IInv, TypeOK
<1>1. ASSUME NEW t \in Threads, NEW name \in Names, NEW email \in Emails,
             Register(t, name, email)
      PROVE  Kept'
  <2>1. nextId \notin DOMAIN users
    BY DEF IInv, Numbered, TypeOK
  <2>2. \A id \in DOMAIN users : id \in DOMAIN users' /\ users'[id] = users[id]
    BY <1>1, <2>1 DEF Register
  <2>3. /\ UNCHANGED <<file, answered, lastSave, forgot, up>>
        /\ \A u \in Threads : job'[u].pc = "outbox" => job'[u] = job[u]
        /\ \A u \in Threads : job[u].pc # "write"
    BY <1>0, <1>1 DEF Register, Idle, Free, MustSave
  <2>4. QED  BY <2>2, <2>3, SameKept
<1>2. ASSUME NEW t \in Threads, NEW id \in Ids,
             VerifyEmail(t, id) \/ ConsumePixelSlot(t, id) \/ ResetPixelQuota(t, id)
      PROVE  Kept'
  <2>1. /\ DOMAIN users' = DOMAIN users
        /\ \A i \in DOMAIN users : users'[i].name = users[i].name
        /\ Free /\ job'[t].pc = "open"
        /\ \A u \in Threads : u # t => job'[u].pc = job[u].pc /\ job'[u].id = job[u].id
        /\ UNCHANGED <<file, up, answered, lastSave, forgot>>
    BY <1>2, AccountStep
  <2>2. /\ \A u \in Threads : job'[u].pc = "outbox" =>
              job[u].pc = "outbox" /\ job'[u].id = job[u].id
        /\ \A u \in Threads : job[u].pc # "write"
    BY <2>1 DEF Free
  <2>3. QED  BY <2>1, <2>2, SameKept
<1>3. ASSUME NEW t \in Threads, OpenFile(t) PROVE Kept'
  <2>1. job'[t].pc = "write"
    BY <1>0, <1>3 DEF OpenFile
  <2>2. up /\ (~forgot => Keeps(users))
    BY <1>3 DEF OpenFile, At, IInv, Kept
  <2>3. ~forgot => Keeps(users)'
    BY <1>0, <1>3, <2>2 DEF OpenFile, ghosts, Keeps
  <2>4. QED  BY <1>3, <2>1, <2>3 DEF OpenFile, ghosts, Kept
<1>4. ASSUME NEW t \in Threads, OpenFileFails(t) PROVE Kept'
  <2>1. /\ UNCHANGED <<users, file, answered, forgot, up>>
        /\ lastSave' # "short" => lastSave # "short"
        /\ \A u \in Threads : job[u].pc # "write"
        /\ \A u \in Threads : job'[u].pc = "outbox" => job'[u] = job[u]
    BY <1>0, <1>4 DEF OpenFileFails, Free, IdleJob
  <2>2. QED  BY <2>1 DEF IInv, Kept, Keeps
<1>5. ASSUME NEW t \in Threads, CloseFile(t) PROVE Kept'
  <2>1. /\ At(t, "write") /\ GoOn(t) /\ UNCHANGED <<users, up, forgot>> /\ file' = users
    BY <1>5 DEF CloseFile
  <2>2. ~forgot => Keeps(users)' /\ file' = users'
    BY <2>1, GoOnKeeps
  <2>3. QED  BY <2>1, <2>2 DEF Kept, Keeps
<1>6. ASSUME NEW t \in Threads, CloseWithLoss(t) PROVE Kept'
  <2>1. /\ At(t, "write") /\ GoOn(t) /\ UNCHANGED <<users, up, forgot>>
        /\ lastSave' = "short"
    BY <1>6 DEF CloseWithLoss
  <2>2. QED  BY <2>1, GoOnKeeps DEF Kept
<1>7. ASSUME NEW t \in Threads, AppendOutbox(t) PROVE Kept'
  <2> DEFINE id == job[t].id
  <2>1. /\ job[t].pc = "outbox" /\ up /\ id \in DOMAIN users
        /\ UNCHANGED <<users, file, up, lastSave, forgot>>
    BY <1>7 DEF AppendOutbox, At, IInv, JobsKnown
  <2>2. /\ answered' = [i \in DOMAIN answered \cup {id} |->
                           IF i = id THEN users[id].name ELSE answered[i]]
        /\ job' = [job EXCEPT ![t] = IdleJob]
    BY <1>7 DEF AppendOutbox, Answer
  <2> HIDE DEF id
  <2>3. \A i \in DOMAIN answered' :
           \/ i = id /\ answered'[i] = users[id].name
           \/ i \in DOMAIN answered /\ answered'[i] = answered[i]
    BY <2>2
  <2>4. \A u \in Threads : u # t => job'[u] = job[u]
    BY <1>0, <2>2
  <2>5. \A u \in Threads : job'[u].pc = IF u = t THEN "idle" ELSE job[u].pc
    BY <1>0, <2>2 DEF IdleJob
  <2>6. ASSUME NEW f, Keeps(f) PROVE /\ id \in DOMAIN f /\ f[id].name = users[id].name
                                     /\ \A i \in DOMAIN answered' :
                                           i \in DOMAIN f /\ f[i].name = answered'[i]
    BY <2>1, <2>3, <2>6 DEF Keeps, id
  <2>7. ASSUME Keeps(users) PROVE Keeps(users)'
    BY <2>1, <2>4, <2>5, <2>6, <2>7 DEF Keeps
  <2>8. ASSUME Keeps(file) PROVE Keeps(file)'
    BY <2>1, <2>4, <2>5, <2>6, <2>8 DEF Keeps
  <2>9. (\A u \in Threads : job'[u].pc # "write") => \A u \in Threads : job[u].pc # "write"
    BY <2>1, <2>5
  <2>10. QED  BY <2>1, <2>7, <2>8, <2>9 DEF IInv, Kept
<1>8. CASE Tick \/ SetClockBack
  BY <1>8 DEF Tick, SetClockBack, ghosts, IInv, Kept, Keeps
<1>9. CASE Crash
  <2>1. /\ up' = FALSE /\ UNCHANGED <<users, answered, forgot>>
        /\ \A t \in Threads : job'[t].pc = "idle"
    BY <1>9 DEF Crash, IdleJob
  <2>2. ASSUME ~forgot, lastSave' # "short" PROVE Keeps(file)'
    <3>1. CASE \E t \in Threads : job[t].pc = "write"
      <4>1. file' = users /\ Keeps(users)
        BY <1>9, <2>2, <3>1 DEF Crash, IInv, Kept
      <4>2. QED  BY <2>1, <4>1 DEF Keeps
    <3>2. CASE ~ \E t \in Threads : job[t].pc = "write"
      <4>1. file' = file /\ Keeps(file)
        BY <1>9, <2>2, <3>2 DEF Crash, IInv, Kept
      <4>2. QED  BY <2>1, <4>1 DEF Keeps
    <3>3. QED  BY <3>1, <3>2
  <2>3. QED  BY <2>1, <2>2 DEF Kept
<1>10. CASE Load
  <2>1. /\ ~up /\ users' = file /\ UNCHANGED <<file, job, answered>>
        /\ lastSave' = "whole" /\ (forgot' <=> forgot \/ lastSave = "short")
    BY <1>10 DEF Load, IInv, TypeOK
  <2>2. \A t \in Threads : job[t].pc = "idle"
    BY <2>1 DEF IInv, JobsKnown
  <2>3. ~forgot' => Keeps(file)
    BY <2>1, <2>2 DEF IInv, Kept
  <2>4. ~forgot' => Keeps(users)' /\ Keeps(file)'
    BY <2>1, <2>2, <2>3 DEF Keeps
  <2>5. QED  BY <2>4 DEF Kept
<1>11. CASE UNCHANGED vars
  BY <1>11 DEF vars, ghosts, IInv, Kept, Keeps
<1>12. QED
  BY <1>1, <1>2, <1>3, <1>4, <1>5, <1>6, <1>7, <1>8, <1>9, <1>10, <1>11 DEF Next

----------------------------------------------------------------------------
(* The theorems. *)

(* The file of an earlier life, which has one account at most. *)
LEMMA EarlierFile ==
    ASSUME file \in EarlierFiles
    PROVE  /\ DOMAIN file \subseteq {1}
           /\ Cardinality(DOMAIN file) = IF DOMAIN file = {} THEN 0 ELSE 1
           /\ \A id \in DOMAIN file : file[id] \in User /\ file[id].start = 0
<1>1. CASE file = <<>>
  <2>1. DOMAIN file = {} /\ Cardinality(DOMAIN file) = 0
    BY <1>1, FS_EmptySet
  <2>2. QED  BY <2>1
<1>2. ASSUME NEW name \in Names, NEW email \in Emails,
             file = <<[name |-> name, email |-> email, verified |-> TRUE, link |-> FALSE,
                       expires |-> Never, start |-> Never, count |-> 0]>>
      PROVE  /\ DOMAIN file = {1} /\ Cardinality(DOMAIN file) = 1
             /\ file[1] \in User /\ file[1].start = 0
  <2>1. DOMAIN file = {1}
    BY <1>2
  <2>2. Cardinality(DOMAIN file) = 1
    BY <2>1, FS_Singleton
  <2>3. QED  BY <1>2, <2>1, <2>2 DEF User
<1>3. QED  BY <1>1, <1>2 DEF EarlierFiles

(* The invariant holds of what an earlier life left. *)
LEMMA InitIInv == Init => IInv
<1> SUFFICES ASSUME Init PROVE IInv
  OBVIOUS
<1>1. /\ DOMAIN file \subseteq {1} /\ users = file
      /\ nextId = IF DOMAIN file = {} THEN 1 ELSE 2
      /\ \A id \in DOMAIN file : file[id] \in User /\ file[id].start = 0
  BY EarlierFile DEF Init
<1>2. TypeOK /\ Numbered
  <2>1. /\ DOMAIN file \subseteq Ids /\ nextId \in 1 .. (MaxRequests + 2)
        /\ nextId \in 1 .. 2 /\ DOMAIN file \subseteq 1 .. (nextId - 1)
    BY <1>1 DEF Ids
  <2>2. job \in [Threads -> Job]
    BY IdleIsJob DEF Init
  <2>3. now \in Times /\ Clock \in Times /\ setBack \in Nat
    BY DEF Init, Times, Clock
  <2>4. placed \in [Ids -> [Times -> Nat]]
    BY DEF Init
  <2>5. DOMAIN answered \subseteq Ids /\ outbox \subseteq Ids /\ opened \subseteq Ids
    BY <2>1 DEF Init
  <2>6. requests = 0 /\ requests \in 0 .. MaxRequests /\ faults \in 0 .. MaxFaults
    BY DEF Init
  <2>7. /\ up \in BOOLEAN /\ required \in BOOLEAN /\ forgot \in BOOLEAN
        /\ lastSave \in {"whole", "failed", "short"}
    BY Zenon DEF Init
  <2>8. TypeOK
    BY <1>1, <2>1, <2>2, <2>3, <2>4, <2>5, <2>6, <2>7 DEF TypeOK
  <2>9. Numbered
    BY <1>1, <2>1, <2>6 DEF Numbered
  <2>10. QED  BY <2>8, <2>9
<1>3. JobsKnown /\ StartsPast
  BY <1>1 DEF Init, JobsKnown, StartsPast, IdleJob
<1>4. Distinct(users) /\ Distinct(file) /\ Uncut
  BY <1>1 DEF Distinct, Uncut, Unshared
<1>5. FileCurrent
  BY <1>1 DEF FileCurrent
<1>6. Keeps(file) /\ Keeps(users)
  BY <1>1 DEF Init, Keeps, IdleJob
<1>7. QED  BY <1>2, <1>3, <1>4, <1>5, <1>6 DEF IInv, Kept

(* The inductive invariant holds in every state. *)
THEOREM Invariance == Spec => []IInv
<1>1. IInv /\ [Next]_vars => IInv'
  BY TypeStep, KnownStep, DistinctStep, UncutStep, KeptStep, CurrentStep DEF IInv
<1>2. QED  BY InitIInv, <1>1, PTL DEF Spec

(* The types: an account never has more pixels in its window than its      *)
(* quota, ids stay in their range.                                         *)
THEOREM TypeCorrect == Spec => []TypeOK
<1>1. IInv => TypeOK
  BY DEF IInv
<1>2. QED  BY Invariance, <1>1, PTL

(* The last handler to save leaves the memory in users.db                  *)
(* (UserStore.cpp:202-229, 287).                                           *)
THEOREM FilesAreCurrent == Spec => []FileCurrent
<1>1. IInv => FileCurrent
  BY DEF IInv
<1>2. QED  BY Invariance, <1>1, PTL

(* Answered accounts stay what they were, over restarts and failed saves   *)
(* (UserStore.cpp:196, 287).                                               *)
THEOREM AnsweredAreKept == Spec => []AnsweredAccountKept
<1>1. IInv => AnsweredAccountKept
  BY DEF IInv, Kept, Keeps, AnsweredAccountKept
<1>2. QED  BY Invariance, <1>1, PTL

(* No two accounts share a name, and none an address unless a start has met*)
(* a short file and the address is what was left of one that was cut,      *)
(* which may be the other's whole one (UserStore.cpp:180, 256-263).        *)
THEOREM IdentitiesUnique == Spec => []NoSharedIdentity
<1>1. IInv => NoSharedIdentity
  BY DEF IInv, Distinct, Uncut, Unshared, NoSharedIdentity
<1>2. QED  BY Invariance, <1>1, PTL

(* GET /cooldown says what POST /pixel does, in every state of the window  *)
(* and wherever the clock was set (UserStore.cpp:421-433, 455-466).        *)
THEOREM StatusIsTrue == Spec => []StatusTellsTruth
<1>1. IInv => StatusTellsTruth
  <2> SUFFICES ASSUME IInv, NEW id \in DOMAIN users
               PROVE  /\ InWindow(users[id]).count < Quota
                            <=> RemainingPlacements(users[id]) > 0
                      /\ RemainingSeconds(users[id]) \in 0 .. (Cooldown + setBack)
                      /\ RemainingPlacements(users[id]) = 0
                            => Clock + RemainingSeconds(users[id])
                                  = users[id].start + Cooldown
    BY DEF StatusTellsTruth
  <2>1. /\ users[id] \in User /\ users[id].start <= now /\ users[id].start \in Nat
        /\ users[id].count \in 0 .. Quota /\ now \in Nat /\ setBack \in Nat
        /\ Quota \in Nat \ {0} /\ Cooldown \in Nat \ {0}
    BY DEF IInv, TypeOK, StartsPast, User, Times
  <2>2. CASE WindowOver(users[id])
    <3>1. InWindow(users[id]).count = 0
      BY <2>1, <2>2 DEF InWindow, User
    <3>2. RemainingPlacements(users[id]) = Quota /\ RemainingSeconds(users[id]) = 0
      BY <2>1, <2>2 DEF RemainingPlacements, RemainingSeconds, WindowOver, StatusWindowOver
    <3>3. QED  BY <2>1, <3>1, <3>2
  <2>3. CASE ~WindowOver(users[id])
    <3>1. InWindow(users[id]) = users[id] /\ ~(Clock - users[id].start >= Cooldown)
      BY <2>3 DEF InWindow, WindowOver
    <3>2. RemainingPlacements(users[id]) = Quota - users[id].count
      BY <2>1, <2>3 DEF RemainingPlacements, WindowOver, StatusWindowOver
    <3>3. RemainingSeconds(users[id])
             = IF users[id].count < Quota THEN 0 ELSE Cooldown - (Clock - users[id].start)
      BY <2>1, <3>2 DEF RemainingSeconds
    <3>4. QED  BY <2>1, <3>1, <3>2, <3>3 DEF Clock
  <2>4. QED  BY <2>2, <2>3
<1>2. QED  BY Invariance, <1>1, PTL

----------------------------------------------------------------------------
(* The quota.                                                              *)
(*                                                                         *)
(* Slots of an account are counted by the second of true time at which     *)
(* they were consumed, whether their pixel is placed or under way.  A      *)
(* window was opened at some second s, when its start was read from the    *)
(* clock; the clock may have been set back before or after.  The file may  *)
(* hold an older window than the memory: it fits what is placed, which is  *)
(* what a start from it remembers.                                         *)

(* The handlers that have consumed a slot of account id at second x and    *)
(* have not placed its pixel.                                              *)
Placing(id, x) ==
    {t \in Threads : /\ job[t].pc # "idle" /\ job[t].kind = "place"
                     /\ job[t].id = id /\ job[t].time = x}

Used(id) == [x \in Times |-> placed[id][x] + Cardinality(Placing(id, x))]

From(f, s)    == SumOver(f, {x \in Times : x >= s})
Stretch(f, s) == SumOver(f, {x \in Times : s <= x /\ x < s + Cooldown})

(* The window of the user was opened at s, and its count has all slots     *)
(* since; when it opened, the one before left less than a quota in reach.  *)
OpenedAt(user, f, s) ==
    /\ user.start <= s /\ s <= user.start + setBack /\ s <= now
    /\ From(f, s) <= user.count
    /\ From(f, s + 1) <= user.count - 1
    /\ From(f, s - Cooldown + 1) <= Quota - 1 + user.count

FitsWindow(user, f) ==
    /\ user.start = Never => \A x \in Times : f[x] = 0
    /\ user.start # Never =>
          /\ user.count >= 1
          /\ \A x \in Times : f[x] # 0 => x < user.start + setBack + Cooldown
          /\ \E s \in Times : OpenedAt(user, f, s)

Fits(rows, id, f) ==
    /\ id \in DOMAIN rows => FitsWindow(rows[id], f)
    /\ id \notin DOMAIN rows => \A x \in Times : f[x] = 0

(* No slot is of a second that has not come. *)
NoneLater == \A id \in Ids : \A x \in Times : x > now => Used(id)[x] = 0

MemoryFits == up /\ ~forgot => \A id \in Ids : Fits(users, id, Used(id))

FileFits ==
    ~forgot /\ lastSave # "short" /\ (\A t \in Threads : job[t].pc # "write")
    => \A id \in Ids : Fits(file, id, placed[id])

StretchesFit ==
    ~forgot => \A id \in Ids : \A s \in Times : Stretch(Used(id), s) <= 2 * Quota - 1

QuotaFits == NoneLater /\ MemoryFits /\ FileFits /\ StretchesFit

Slots == [Times -> Nat]

AtMost(f, g) == \A x \in Times : f[x] <= g[x]

(* Sums over seconds are numbers, and grow with the set and the terms. *)
LEMMA SlotSums ==
    ASSUME NEW f \in Slots, NEW S \in SUBSET Times
    PROVE  /\ IsFiniteSet(S) /\ SumOver(f, S) \in Nat
           /\ \A U \in SUBSET S : SumOver(f, U) <= SumOver(f, S)
           /\ \A g \in Slots : AtMost(g, f) => SumOver(g, S) <= SumOver(f, S)
           /\ (\A x \in S : f[x] = 0) => SumOver(f, S) = 0
<1>1. IsFiniteSet(Times)
  BY FS_Interval DEF Times
<1>2. IsFiniteSet(S)
  BY <1>1, FS_Subset
<1>3. \A x \in S : f[x] \in Nat /\ f[x] \in Int
  BY DEF Slots
<1>4. SumOver(f, S) \in Nat /\ \A U \in SUBSET S : SumOver(f, U) <= SumOver(f, S)
  BY <1>2, <1>3, SumOverSubset
<1>5. ASSUME NEW g \in Slots, AtMost(g, f) PROVE SumOver(g, S) <= SumOver(f, S)
  <2>1. \A x \in S : g[x] \in Int /\ f[x] \in Int /\ g[x] <= f[x]
    BY <1>5 DEF Slots, AtMost
  <2>2. QED  BY <1>2, <2>1, SumOverMonotonic
<1>6. (\A x \in S : f[x] = 0) => SumOver(f, S) = 0
  BY <1>2, SumOverZero
<1>7. QED  BY <1>2, <1>4, <1>5, <1>6

(* One more slot at second n is one more in the sums over n. *)
LEMMA OneMoreSlot ==
    ASSUME NEW f \in Slots, NEW n \in Times, NEW S \in SUBSET Times
    PROVE  LET g == [f EXCEPT ![n] = @ + 1] IN
           /\ g \in Slots
           /\ SumOver(g, S) = IF n \in S THEN SumOver(f, S) + 1 ELSE SumOver(f, S)
<1> DEFINE g == [f EXCEPT ![n] = @ + 1]
<1>1. g \in Slots /\ g[n] = f[n] + 1 /\ \A y \in S \ {n} : g[y] = f[y]
  BY DEF Slots
<1>2. IsFiniteSet(S) /\ \A y \in S : f[y] \in Int
  BY SlotSums DEF Slots
<1> HIDE DEF g
<1>3. SumOver(g, S) = IF n \in S THEN SumOver(f, S) + 1 ELSE SumOver(f, S)
  BY <1>1, <1>2, SumOverOneMore
<1>4. QED  BY <1>1, <1>3 DEF g

(* A window that fits some slots fits fewer, *)
LEMMA FitsFewer ==
    ASSUME NEW user, user.count \in Nat, NEW f \in Slots, NEW g \in Slots, AtMost(g, f),
           FitsWindow(user, f)
    PROVE  FitsWindow(user, g)
<1>1. \A x \in Times : f[x] = 0 => g[x] = 0
  BY DEF Slots, AtMost
<1>2. \A s : From(g, s) <= From(f, s) /\ From(g, s) \in Nat /\ From(f, s) \in Nat
  BY SlotSums DEF From
<1>3. ASSUME NEW s \in Times, OpenedAt(user, f, s) PROVE OpenedAt(user, g, s)
  <2>1. /\ From(g, s) <= user.count /\ From(g, s + 1) <= user.count - 1
        /\ From(g, s - Cooldown + 1) <= Quota - 1 + user.count
    <3>1. /\ From(f, s) <= user.count /\ From(f, s + 1) <= user.count - 1
          /\ From(f, s - Cooldown + 1) <= Quota - 1 + user.count
      BY <1>3 DEF OpenedAt
    <3>2. QED  BY <1>2, <3>1
  <2>2. QED  BY <2>1, <1>3 DEF OpenedAt
<1>4. QED  BY <1>1, <1>3 DEF FitsWindow

(* and fits later, also when the clock was set back. *)
LEMMA FitsLater ==
    ASSUME NEW user, user.start \in Nat, NEW f,
           now \in Nat, now' \in Nat, now' >= now,
           setBack \in Nat, setBack' \in Nat, setBack' >= setBack, FitsWindow(user, f)
    PROVE  FitsWindow(user, f)'
<1>1. ASSUME NEW s \in Times, OpenedAt(user, f, s) PROVE OpenedAt(user, f, s)'
  <2>1. /\ user.start <= s /\ s <= user.start + setBack' /\ s <= now'
    BY <1>1 DEF OpenedAt, Times
  <2>2. QED  BY <2>1, <1>1 DEF OpenedAt, From
<1>2. user.start # Never => \A x \in Times : f[x] # 0 => x < user.start + setBack' + Cooldown
  BY DEF FitsWindow, Times
<1>3. QED  BY <1>1, <1>2 DEF FitsWindow

(* A consumed slot: the window that is counted, and every stretch.         *)
LEMMA FitsOneMore ==
    ASSUME TypeOK, NEW user \in User, user.start <= now, InWindow(user).count < Quota,
           NEW f \in Slots, FitsWindow(user, f), \A x \in Times : x > now => f[x] = 0,
           \A s \in Times : Stretch(f, s) <= 2 * Quota - 1
    PROVE  LET g == [f EXCEPT ![now] = @ + 1]
               u == [InWindow(user) EXCEPT !.count = @ + 1] IN
           /\ g \in Slots /\ FitsWindow(u, g)
           /\ \A s \in Times : Stretch(g, s) <= 2 * Quota - 1
<1> DEFINE g == [f EXCEPT ![now] = @ + 1]
           u == [InWindow(user) EXCEPT !.count = @ + 1]
<1>1. /\ now \in Times /\ Clock \in Times /\ setBack \in Nat /\ Clock = now - setBack
      /\ user.start \in Nat /\ user.count \in 0 .. Quota
      /\ Quota \in Nat \ {0} /\ Cooldown \in Nat \ {0}
  BY DEF TypeOK, Clock, User
<1>2. now \in Nat /\ now >= 1 /\ Clock \in Nat /\ Clock >= 1
  BY <1>1 DEF Times
<1>3. InWindow(user) \in User /\ u.start = InWindow(user).start
      /\ u.count = InWindow(user).count + 1 /\ u.count \in 1 .. Quota
  <2>1. InWindow(user) \in User
    BY WindowTypes
  <2>2. QED  BY <1>1, <2>1 DEF User
<1>4. /\ g \in Slots
      /\ \A S \in SUBSET Times :
            SumOver(g, S) = IF now \in S THEN SumOver(f, S) + 1 ELSE SumOver(f, S)
  BY <1>1, OneMoreSlot
<1>5. \A x \in Times : g[x] # 0 => x = now \/ f[x] # 0
  BY DEF Slots
<1> HIDE DEF g, u
<1>6. \A s : From(f, s) \in Nat /\ From(g, s) \in Nat /\ From(g, s) <= From(f, s) + 1
  <2> SUFFICES ASSUME NEW s
               PROVE  From(f, s) \in Nat /\ From(g, s) \in Nat /\ From(g, s) <= From(f, s) + 1
    OBVIOUS
  <2> DEFINE S == {x \in Times : x >= s}
  <2>1. S \in SUBSET Times
    OBVIOUS
  <2> HIDE DEF S
  <2>2. SumOver(f, S) \in Nat /\ SumOver(g, S) \in Nat
    BY <2>1, <1>4, SlotSums
  <2>3. SumOver(g, S) <= SumOver(f, S) + 1
    BY <2>1, <2>2, <1>4
  <2>4. QED  BY <2>2, <2>3 DEF From, S
<1>7. \E s \in Times : OpenedAt(u, g, s) /\ u.start # 0
                       /\ \A x \in Times : g[x] # 0 => x < u.start + setBack + Cooldown
  <2>1. CASE WindowOver(user)
    <3>1. u.start = Clock /\ u.count = 1
      BY <2>1, <1>1, <1>3 DEF InWindow, User
    <3>2. \A x \in Times : f[x] # 0 => x < now
      <4>1. CASE user.start = 0
        BY <4>1 DEF FitsWindow
      <4>2. CASE user.start # 0
        <5>1. \A x \in Times : f[x] # 0 => x < user.start + setBack + Cooldown
          BY <4>2 DEF FitsWindow
        <5>2. Clock - user.start >= Cooldown
          BY <2>1, <4>2 DEF WindowOver
        <5>3. user.start + setBack + Cooldown <= now
          BY <5>2, <1>1, <1>2
        <5>4. QED  BY <5>1, <5>3, <1>1, <1>2 DEF Times
      <4>3. QED  BY <4>1, <4>2
    <3>3. From(f, now) = 0 /\ From(f, now + 1) = 0
      <4>1. \A s \in Nat : s >= now => \A x \in {y \in Times : y >= s} : f[x] = 0
        BY <3>2, <1>2 DEF Times
      <4>2. \A s \in Nat : s >= now => From(f, s) = 0
        BY <4>1, SlotSums DEF From
      <4>3. QED  BY <4>2, <1>2
    <3>4. From(g, now + 1) = 0
      <4>1. now \notin {x \in Times : x >= now + 1}
        BY <1>2
      <4>2. QED  BY <3>3, <4>1, <1>4 DEF From
    <3>5. From(f, now - Cooldown + 1) <= Quota - 1
      <4>1. CASE user.start = 0
        <5>1. \A x \in {y \in Times : y >= now - Cooldown + 1} : f[x] = 0
          BY <4>1 DEF FitsWindow
        <5>2. From(f, now - Cooldown + 1) = 0
          BY <5>1, SlotSums DEF From
        <5>3. QED  BY <5>2, <1>1
      <4>2. CASE user.start # 0
        <5>1. PICK s \in Times : OpenedAt(user, f, s)
          BY <4>2 DEF FitsWindow
        <5>2. s \in Nat /\ s <= user.start + setBack /\ From(f, s + 1) <= user.count - 1
          BY <5>1 DEF OpenedAt, Times
        <5>3. Clock - user.start >= Cooldown
          BY <2>1, <4>2 DEF WindowOver
        <5>4. s + 1 <= now - Cooldown + 1
          BY <5>2, <5>3, <1>1, <1>2
        <5>5. {x \in Times : x >= now - Cooldown + 1} \subseteq {x \in Times : x >= s + 1}
          BY <5>2, <5>4, <1>1, <1>2 DEF Times
        <5>6. From(f, now - Cooldown + 1) <= From(f, s + 1)
          BY <5>5, SlotSums DEF From
        <5>7. QED  BY <5>2, <5>6, <1>1, <1>6
      <4>3. QED  BY <4>1, <4>2
    <3>6. /\ From(g, now) <= 1 /\ From(g, now + 1) <= 0
          /\ From(g, now - Cooldown + 1) <= Quota - 1 + 1
      BY <3>3, <3>4, <3>5, <1>1, <1>6
    <3>7. OpenedAt(u, g, now)
      BY <3>1, <3>6, <1>1, <1>2 DEF OpenedAt
    <3>8. \A x \in Times : g[x] # 0 => x < u.start + setBack + Cooldown
      <4>1. \A x \in Times : g[x] # 0 => x <= now
        BY <3>2, <1>2, <1>5 DEF Times
      <4>2. u.start + setBack + Cooldown > now
        BY <3>1, <1>1, <1>2
      <4>3. QED  BY <4>1, <4>2, <3>1, <1>1, <1>2 DEF Times
    <3>9. QED  BY <3>1, <3>7, <3>8, <1>1, <1>2
  <2>2. CASE ~WindowOver(user)
    <3>1. /\ user.start # 0 /\ Clock - user.start < Cooldown
          /\ u.start = user.start /\ u.count = user.count + 1
      BY <2>2, <1>1, <1>2, <1>3 DEF WindowOver, InWindow
    <3>2. PICK s \in Times : OpenedAt(user, f, s)
      BY <3>1 DEF FitsWindow
    <3>3. /\ From(f, s) <= user.count /\ From(f, s + 1) <= user.count - 1
          /\ From(f, s - Cooldown + 1) <= Quota - 1 + user.count
      BY <3>2 DEF OpenedAt
    <3>4. /\ From(g, s) <= user.count + 1 /\ From(g, s + 1) <= user.count + 1 - 1
          /\ From(g, s - Cooldown + 1) <= Quota - 1 + (user.count + 1)
      BY <3>3, <1>1, <1>6
    <3>5. OpenedAt(u, g, s)
      <4>1. u.start <= s /\ s <= u.start + setBack /\ s <= now
        BY <3>1, <3>2 DEF OpenedAt
      <4>2. /\ From(g, s) <= u.count /\ From(g, s + 1) <= u.count - 1
            /\ From(g, s - Cooldown + 1) <= Quota - 1 + u.count
        BY <3>1, <3>4, <1>1, <1>6
      <4>3. QED  BY <4>1, <4>2 DEF OpenedAt
    <3>6. now < user.start + setBack + Cooldown
      BY <3>1, <1>1, <1>2
    <3>7. \A x \in Times : f[x] # 0 => x < user.start + setBack + Cooldown
      BY <3>1 DEF FitsWindow
    <3>8. QED  BY <3>1, <3>5, <3>6, <3>7, <1>5
  <2>3. QED  BY <2>1, <2>2
<1>8. FitsWindow(u, g)
  BY <1>3, <1>7 DEF FitsWindow
<1>9. ASSUME NEW r \in Times PROVE Stretch(g, r) <= 2 * Quota - 1
  <2> DEFINE R == {x \in Times : r <= x /\ x < r + Cooldown}
  <2>1. Stretch(f, r) <= 2 * Quota - 1
    OBVIOUS
  <2>2. CASE now \notin R
    <3>1. Stretch(g, r) = Stretch(f, r)
      BY <2>2, <1>4 DEF Stretch
    <3>2. QED  BY <2>1, <3>1
  <2>3. CASE now \in R
    <3>1. PICK s \in Times : OpenedAt(u, g, s)
      BY <1>7
    <3>2. s \in Nat /\ s <= now /\ From(g, s - Cooldown + 1) <= Quota - 1 + u.count
      BY <3>1 DEF OpenedAt, Times
    <3>3. r \in Nat /\ now < r + Cooldown
      BY <2>3 DEF Times
    <3>4. s - Cooldown + 1 <= r
      BY <3>2, <3>3, <1>1, <1>2
    <3>5. R \subseteq {x \in Times : x >= s - Cooldown + 1}
      BY <3>2, <3>3, <3>4, <1>1 DEF Times
    <3>6. Stretch(g, r) <= From(g, s - Cooldown + 1) /\ Stretch(g, r) \in Nat
      BY <3>5, <1>4, SlotSums DEF From, Stretch
    <3>7. QED  BY <3>2, <3>6, <1>1, <1>3, <1>6
  <2>4. QED  BY <2>2, <2>3
<1>10. QED  BY <1>4, <1>8, <1>9 DEF g, u


(* Slots that are used are placed or under way. *)
LEMMA UsedTypes ==
    TypeOK => \A id \in Ids : /\ placed[id] \in Slots /\ Used(id) \in Slots
                              /\ AtMost(placed[id], Used(id))
<1> SUFFICES ASSUME TypeOK, NEW id \in Ids
             PROVE  /\ placed[id] \in Slots /\ Used(id) \in Slots
                    /\ AtMost(placed[id], Used(id))
  OBVIOUS
<1>1. \A x \in Times : placed[id][x] \in Nat /\ Cardinality(Placing(id, x)) \in Nat
  <2> SUFFICES ASSUME NEW x \in Times
               PROVE  placed[id][x] \in Nat /\ Cardinality(Placing(id, x)) \in Nat
    OBVIOUS
  <2>1. Placing(id, x) \in SUBSET Threads
    BY DEF Placing
  <2>2. Cardinality(Placing(id, x)) \in Nat
    BY <2>1, FS_Subset, FS_CardinalityType
  <2>3. QED  BY <2>2 DEF TypeOK
<1>2. QED  BY <1>1 DEF Used, Slots, AtMost, TypeOK

(* The same after a step. *)
LEMMA UsedTypesNext ==
    TypeOK' => \A id \in Ids : /\ placed'[id] \in Slots /\ Used(id)' \in Slots
                               /\ AtMost(placed'[id], Used(id)')
<1>1. (TypeOK => \A id \in Ids : /\ placed[id] \in Slots /\ Used(id) \in Slots
                                 /\ AtMost(placed[id], Used(id)))'
  BY UsedTypes, PTL
<1>2. QED  BY <1>1 DEF Ids, Slots, AtMost, Times

(* The account whose window fits some slots: it fits fewer, and later. *)
LEMMA FitsStays ==
    ASSUME TypeOK, TypeOK', now' >= now, setBack' >= setBack,
           NEW rows, NEW id \in Ids, id \in DOMAIN rows => rows[id] \in User,
           NEW f \in Slots, NEW g \in Slots, AtMost(g, f), Fits(rows, id, f)
    PROVE  Fits(rows, id, g)'
<1>1. /\ now \in Nat /\ now' \in Nat /\ setBack \in Nat /\ setBack' \in Nat
  <2>1. now \in Times /\ setBack \in Nat
    BY Zenon DEF TypeOK
  <2>2. now' \in Times /\ setBack' \in Nat
    BY Zenon DEF TypeOK
  <2>3. QED  BY <2>1, <2>2 DEF Times
<1>2. CASE id \in DOMAIN rows
  <2>1. rows[id].count \in Nat /\ rows[id].start \in Nat
    BY <1>2 DEF User
  <2>2. FitsWindow(rows[id], g)
    BY <1>2, <2>1, FitsFewer DEF Fits
  <2>3. FitsWindow(rows[id], g)'
    BY <1>1, <2>1, <2>2, FitsLater
  <2>4. QED  BY <1>2, <2>3 DEF Fits
<1>3. CASE id \notin DOMAIN rows
  BY <1>3 DEF Fits, Slots, AtMost
<1>4. QED  BY <1>2, <1>3

(* The memory fits what is used if it fits, by the time before the step,   *)
(* as many slots or more;                                                  *)
LEMMA MemoryFrom ==
    ASSUME TypeOK, TypeOK', now' >= now, setBack' >= setBack,
           up' /\ ~forgot' => \A id \in Ids :
              \E f \in Slots : AtMost(Used(id)', f) /\ Fits(users', id, f)
    PROVE  MemoryFits'
<1> SUFFICES ASSUME up', ~forgot', NEW id \in Ids PROVE Fits(users, id, Used(id))'
  BY DEF MemoryFits, Ids
<1>1. PICK f \in Slots : AtMost(Used(id)', f) /\ Fits(users', id, f)
  OBVIOUS
<1>2. PICK rows : rows = users'
  OBVIOUS
<1>3. PICK g \in Slots : g = Used(id)'
  BY UsedTypesNext
<1>4. id \in DOMAIN rows => rows[id] \in User
  BY <1>2 DEF TypeOK
<1>5. Fits(rows, id, g)'
  BY <1>1, <1>2, <1>3, <1>4, FitsStays
<1>6. QED  BY <1>2, <1>3, <1>5 DEF Fits, FitsWindow, OpenedAt

(* and the file likewise. *)
LEMMA FileFrom ==
    ASSUME TypeOK, TypeOK', now' >= now, setBack' >= setBack,
           ~forgot' /\ lastSave' # "short" /\ (\A t \in Threads : job'[t].pc # "write")
           => \A id \in Ids : \E f \in Slots : AtMost(placed'[id], f) /\ Fits(file', id, f)
    PROVE  FileFits'
<1> SUFFICES ASSUME ~forgot', lastSave' # "short", \A t \in Threads : job'[t].pc # "write",
                    NEW id \in Ids
             PROVE  Fits(file, id, placed[id])'
  BY DEF FileFits, Ids
<1>1. PICK f \in Slots : AtMost(placed'[id], f) /\ Fits(file', id, f)
  OBVIOUS
<1>2. PICK rows : rows = file'
  OBVIOUS
<1>3. PICK g \in Slots : g = placed'[id]
  BY UsedTypesNext
<1>4. id \in DOMAIN rows => rows[id] \in User
  BY <1>2 DEF TypeOK
<1>5. Fits(rows, id, g)'
  BY <1>1, <1>2, <1>3, <1>4, FitsStays
<1>6. QED  BY <1>2, <1>3, <1>5 DEF Fits, FitsWindow, OpenedAt

(* A step that consumes no slot and leaves the windows alone. *)
LEMMA MemoryStays ==
    ASSUME TypeOK, TypeOK', MemoryFits, now' >= now, setBack' >= setBack, forgot => forgot',
           up' => up, \A id \in Ids : AtMost(Used(id)', Used(id)),
           DOMAIN users \subseteq DOMAIN users',
           \A id \in DOMAIN users' :
              \/ id \notin DOMAIN users /\ users'[id].start = Never
              \/ /\ id \in DOMAIN users /\ users'[id].start = users[id].start
                 /\ users'[id].count = users[id].count
    PROVE  MemoryFits'
<1>1. ASSUME up', ~forgot', NEW id \in Ids
      PROVE  \E f \in Slots : AtMost(Used(id)', f) /\ Fits(users', id, f)
  <2>1. Used(id) \in Slots /\ Fits(users, id, Used(id))
    BY <1>1, UsedTypes DEF MemoryFits
  <2>2. Fits(users', id, Used(id))
    BY <2>1 DEF Fits, FitsWindow, OpenedAt
  <2>3. QED  BY <2>1, <2>2
<1>2. QED  BY <1>1, MemoryFrom

(* A step at which nobody writes the file or places a pixel. *)
LEMMA FileStays ==
    ASSUME TypeOK, TypeOK', FileFits, now' >= now, setBack' >= setBack, forgot => forgot',
           lastSave' # "short" => lastSave # "short",
           (\A t \in Threads : job'[t].pc # "write") => \A t \in Threads : job[t].pc # "write",
           UNCHANGED <<file, placed>>
    PROVE  FileFits'
<1>1. ASSUME ~forgot', lastSave' # "short", \A t \in Threads : job'[t].pc # "write",
             NEW id \in Ids
      PROVE  \E f \in Slots : AtMost(placed'[id], f) /\ Fits(file', id, f)
  <2>1. placed[id] \in Slots /\ Fits(file, id, placed[id])
    BY <1>1, UsedTypes DEF FileFits
  <2>2. AtMost(placed'[id], placed[id])
    BY <2>1 DEF AtMost, Slots
  <2>3. QED  BY <2>1, <2>2
<1>2. QED  BY <1>1, FileFrom

(* No more slots are used than before: none is of a later second, and no   *)
(* stretch has too many.                                                   *)
LEMMA StretchesStay ==
    ASSUME TypeOK, TypeOK', NoneLater, StretchesFit, now' >= now, forgot => forgot',
           \A id \in Ids : AtMost(Used(id)', Used(id))
    PROVE  NoneLater' /\ StretchesFit'
<1>1. ASSUME NEW id \in Ids, NEW x \in Times, x > now' PROVE Used(id)'[x] = 0
  <2>1. Used(id)'[x] <= Used(id)[x] /\ Used(id)'[x] \in Nat /\ Used(id) [x] \in Nat
    BY UsedTypes, UsedTypesNext DEF AtMost, Slots
  <2>2. x > now
    <3>1. now \in Times
      BY Zenon DEF TypeOK
    <3>2. now' \in Times
      BY Zenon DEF TypeOK
    <3>3. QED  BY <1>1, <3>1, <3>2 DEF Times
  <2>3. Used(id)[x] = 0
    BY <2>2 DEF NoneLater
  <2>4. QED  BY <2>1, <2>3
<1>2. ASSUME ~forgot', NEW id \in Ids, NEW s \in Times
      PROVE  Stretch(Used(id)', s) <= 2 * Quota - 1
  <2>1. PICK f \in Slots : f = Used(id)'
    BY UsedTypesNext
  <2>2. PICK g \in Slots : g = Used(id)
    BY UsedTypes
  <2>3. AtMost(f, g) /\ Stretch(g, s) <= 2 * Quota - 1
    BY <1>2, <2>1, <2>2 DEF StretchesFit
  <2>4. Stretch(f, s) <= Stretch(g, s) /\ Stretch(f, s) \in Nat /\ Stretch(g, s) \in Nat
    BY <2>3, SlotSums DEF Stretch
  <2>5. QED  BY <2>1, <2>3, <2>4
<1>3. QED  BY <1>1, <1>2 DEF NoneLater, StretchesFit, Ids, Times, Stretch

(* Nobody begins to place, and no pixel is placed more. *)
LEMMA UsedShrinks ==
    ASSUME TypeOK, TypeOK',
           \A t \in Threads :
              job'[t].pc # "idle" /\ job'[t].kind = "place" /\ job'[t].time # Never
              => job[t].pc # "idle" /\ UNCHANGED <<job[t].kind, job[t].id, job[t].time>>,
           \A id \in Ids : AtMost(placed'[id], placed[id])
    PROVE  \A id \in Ids : AtMost(Used(id)', Used(id))
<1> SUFFICES ASSUME NEW id \in Ids, NEW x \in Times PROVE Used(id)'[x] <= Used(id)[x]
  BY DEF AtMost
<1>1. Placing(id, x)' \subseteq Placing(id, x)
  BY DEF Placing, Times
<1>2. IsFiniteSet(Placing(id, x)) /\ IsFiniteSet(Placing(id, x)')
  BY <1>1, FS_Subset DEF Placing
<1>3. Cardinality(Placing(id, x)') <= Cardinality(Placing(id, x))
  BY <1>1, <1>2, FS_Subset
<1>4. Cardinality(Placing(id, x)') \in Nat /\ Cardinality(Placing(id, x)) \in Nat
  BY <1>2, FS_CardinalityType
<1>5. placed'[id][x] <= placed[id][x] /\ placed'[id][x] \in Nat /\ placed[id][x] \in Nat
  <2>1. placed[id] \in Slots /\ placed'[id] \in Slots
    BY UsedTypes, UsedTypesNext
  <2>2. QED  BY <2>1 DEF AtMost, Slots
<1>6. Used(id)[x] = placed[id][x] + Cardinality(Placing(id, x))
  BY DEF Used
<1>7. Used(id)'[x] = placed'[id][x] + Cardinality(Placing(id, x)')
  BY DEF Used, Times
<1>8. QED  BY <1>3, <1>4, <1>5, <1>6, <1>7

(* When a save is over, the pixel is placed that was under way. *)
LEMMA GoOnUses ==
    ASSUME IInv, TypeOK', NEW t \in Threads, At(t, "write"), GoOn(t)
    PROVE  \A id \in Ids : AtMost(Used(id)', Used(id)) /\ AtMost(placed'[id], Used(id))
<1>0. /\ job \in [Threads -> Job] /\ TypeOK /\ placed \in [Ids -> [Times -> Nat]]
      /\ job[t].id \in Ids /\ job[t].pc = "write"
  BY DEF IInv, TypeOK, JobsKnown, At
<1>1. /\ \A u \in Threads : u # t => job'[u] = job[u]
      /\ job'[t].pc = "idle" \/ job'[t].kind = "register"
  BY <1>0 DEF GoOn, IdleJob, Job
<1>2. \A id \in Ids : AtMost(Used(id)', Used(id))
  <2>1. CASE ~(job[t].kind = "place" /\ job[t].time # Never)
    <3>1. placed' = placed
      BY <2>1 DEF GoOn
    <3>2. \A id \in Ids : AtMost(placed'[id], placed[id])
      BY <1>0, <3>1 DEF AtMost
    <3>3. \A u \in Threads :
              job'[u].pc # "idle" /\ job'[u].kind = "place" /\ job'[u].time # Never
              => job[u].pc # "idle" /\ UNCHANGED <<job[u].kind, job[u].id, job[u].time>>
      BY <1>1
    <3>4. QED  BY <1>0, <3>2, <3>3, UsedShrinks
  <2>2. CASE job[t].kind = "place" /\ job[t].time # Never
    <3> SUFFICES ASSUME NEW id \in Ids, NEW x \in Times PROVE Used(id)'[x] <= Used(id)[x]
      BY DEF AtMost
    <3>1. placed' = [placed EXCEPT ![job[t].id][job[t].time] = @ + 1] /\ job[t].time \in Times
      BY <1>0, <2>2 DEF GoOn, Job, Times
    <3>2. job'[t].pc = "idle"
      BY <1>0, <2>2 DEF GoOn, IdleJob
    <3>3. Placing(id, x)' = Placing(id, x) \ {t}
      BY <1>1, <3>2 DEF Placing
    <3>4. IsFiniteSet(Placing(id, x)) /\ Cardinality(Placing(id, x)) \in Nat
      BY FS_Subset, FS_CardinalityType DEF Placing
    <3>5. /\ Used(id)[x] = placed[id][x] + Cardinality(Placing(id, x))
          /\ Used(id)'[x] = placed'[id][x] + Cardinality(Placing(id, x)')
      BY DEF Used, Times
    <3>6. CASE job[t].id = id /\ job[t].time = x
      <4>1. t \in Placing(id, x)
        BY <1>0, <2>2, <3>6 DEF Placing
      <4>2. Cardinality(Placing(id, x)') = Cardinality(Placing(id, x)) - 1
        <5>1. Cardinality(Placing(id, x) \ {t}) = Cardinality(Placing(id, x)) - 1
          BY <3>4, <4>1, FS_RemoveElement
        <5>2. QED  BY <3>3, <5>1
      <4>3. placed'[id][x] = placed[id][x] + 1 /\ placed[id][x] \in Nat
        BY <1>0, <3>1, <3>6
      <4>4. QED  BY <3>4, <3>5, <4>2, <4>3
    <3>7. CASE ~(job[t].id = id /\ job[t].time = x)
      <4>1. t \notin Placing(id, x)
        BY <3>7 DEF Placing
      <4>2. Placing(id, x)' = Placing(id, x)
        BY <3>3, <4>1
      <4>3. placed'[id][x] = placed[id][x] /\ placed[id][x] \in Nat
        BY <1>0, <3>1, <3>7
      <4>4. QED  BY <3>4, <3>5, <4>2, <4>3
    <3>8. QED  BY <3>6, <3>7
  <2>3. QED  BY <2>1, <2>2
<1>3. ASSUME NEW id \in Ids PROVE AtMost(placed'[id], Used(id))
  <2>1. \A x \in Times : /\ placed'[id][x] <= Used(id)'[x] /\ Used(id)'[x] <= Used(id)[x]
                         /\ placed'[id][x] \in Nat /\ Used(id)'[x] \in Nat
                         /\ Used(id)[x] \in Nat
    BY <1>0, <1>2, UsedTypes, UsedTypesNext DEF AtMost, Slots
  <2>2. QED  BY <2>1 DEF AtMost
<1>4. QED  BY <1>2, <1>3

(* A slot is consumed: of one account, at this second. *)
LEMMA SlotUses ==
    ASSUME TypeOK, TypeOK', NEW t \in Threads, NEW id \in Ids, ConsumePixelSlot(t, id)
    PROVE  /\ \A i \in Ids \ {id} : AtMost(Used(i)', Used(i))
           /\ AtMost(Used(id)', [Used(id) EXCEPT ![now] = @ + 1])
<1>0. /\ job \in [Threads -> Job] /\ placed' = placed /\ now \in Times
      /\ job[t].pc = "idle"
      /\ job' = [job EXCEPT ![t] = [pc |-> "open", kind |-> "place", id |-> id, time |-> now]]
  BY DEF ConsumePixelSlot, Idle, At, MustSave, ghosts, TypeOK
<1>1. /\ \A u \in Threads : u # t => job'[u] = job[u]
      /\ job'[t].id = id /\ job'[t].time = now
  BY <1>0
<1>2. ASSUME NEW i \in Ids, NEW x \in Times
      PROVE  /\ Used(i)[x] \in Nat /\ Used(i)'[x] \in Nat
             /\ Used(i)'[x] <= IF i = id /\ x = now THEN Used(i)[x] + 1 ELSE Used(i)[x]
  <2>1. t \notin Placing(i, x)
    BY <1>0 DEF Placing
  <2>2. Placing(i, x)' \subseteq IF i = id /\ x = now THEN Placing(i, x) \cup {t}
                                 ELSE Placing(i, x)
    BY <1>1 DEF Placing
  <2>3. IsFiniteSet(Placing(i, x)) /\ Cardinality(Placing(i, x)) \in Nat
    BY FS_Subset, FS_CardinalityType DEF Placing
  <2>4. /\ IsFiniteSet(Placing(i, x) \cup {t})
        /\ Cardinality(Placing(i, x) \cup {t}) = Cardinality(Placing(i, x)) + 1
    BY <2>1, <2>3, FS_AddElement
  <2>5. /\ Cardinality(Placing(i, x)') \in Nat
        /\ Cardinality(Placing(i, x)') <= IF i = id /\ x = now
                                          THEN Cardinality(Placing(i, x)) + 1
                                          ELSE Cardinality(Placing(i, x))
    <3>1. CASE i = id /\ x = now
      <4>1. Placing(i, x)' \subseteq Placing(i, x) \cup {t}
        BY <2>2, <3>1
      <4>2. QED  BY <2>4, <3>1, <4>1, FS_Subset, FS_CardinalityType
    <3>2. CASE ~(i = id /\ x = now)
      <4>1. Placing(i, x)' \subseteq Placing(i, x)
        BY <2>2, <3>2
      <4>2. QED  BY <2>3, <3>2, <4>1, FS_Subset, FS_CardinalityType
    <3>3. QED  BY <3>1, <3>2
  <2>6. /\ Used(i)[x] = placed[i][x] + Cardinality(Placing(i, x))
        /\ Used(i)'[x] = placed[i][x] + Cardinality(Placing(i, x)')
        /\ placed[i][x] \in Nat
    <3>1. placed[i] \in Slots
      BY UsedTypes
    <3>2. Used(i)'[x] = placed'[i][x] + Cardinality(Placing(i, x)')
      BY DEF Used, Times
    <3>3. Used(i)[x] = placed[i][x] + Cardinality(Placing(i, x))
      BY DEF Used
    <3>4. QED  BY <1>0, <3>1, <3>2, <3>3 DEF Slots
  <2>7. QED  BY <2>3, <2>5, <2>6
<1>3. \A i \in Ids \ {id} : AtMost(Used(i)', Used(i))
  BY <1>2 DEF AtMost
<1>4. Used(id) \in Slots
  BY UsedTypes
<1>5. AtMost(Used(id)', [Used(id) EXCEPT ![now] = @ + 1])
  BY <1>0, <1>2, <1>4 DEF AtMost, Slots
<1>6. QED  BY <1>3, <1>5

(* The window that consumePixelSlot checks and counts in is one that fits  *)
(* every slot used, so that the one more fits too.                         *)
LEMMA SlotFits ==
    ASSUME IInv, TypeOK', QuotaFits, NEW t \in Threads, NEW id \in Ids, ConsumePixelSlot(t, id)
    PROVE  QuotaFits'
<1> DEFINE user == users[id]
           f == Used(id)
           g == [f EXCEPT ![now] = @ + 1]
           u == [InWindow(user) EXCEPT !.count = @ + 1]
<1>1. /\ TypeOK /\ now \in Times /\ now' = now /\ setBack' = setBack /\ now \in Nat
      /\ setBack \in Nat
      /\ UNCHANGED <<up, file, placed, lastSave, forgot>> /\ up
      /\ id \in DOMAIN users /\ users' = [users EXCEPT ![id] = u]
      /\ user \in User /\ user.start <= now /\ InWindow(user).count < Quota
  <2>0. TypeOK
    BY DEF IInv
  <2>1. now \in Times /\ now \in Nat /\ setBack \in Nat
    BY <2>0 DEF TypeOK, Times
  <2>2. /\ now' = now /\ setBack' = setBack /\ up
        /\ UNCHANGED <<up, file, placed, lastSave, forgot>>
    BY DEF ConsumePixelSlot, Idle, At, time, ghosts
  <2>3. /\ id \in DOMAIN users /\ users' = [users EXCEPT ![id] = u]
        /\ InWindow(user).count < Quota
    BY DEF ConsumePixelSlot
  <2>4. user \in User /\ user.start <= now
    BY <2>3 DEF IInv, TypeOK, StartsPast
  <2>5. QED  BY <2>0, <2>1, <2>2, <2>3, <2>4
<1>2. /\ \A i \in Ids \ {id} : AtMost(Used(i)', Used(i))
      /\ AtMost(Used(id)', g)
  BY <1>1, SlotUses
<1>3. f \in Slots /\ g \in Slots /\ \A x \in Times : x > now => f[x] = 0
  <2>1. f \in Slots /\ \A x \in Times : x > now => f[x] = 0
    BY <1>1, UsedTypes DEF QuotaFits, NoneLater
  <2> HIDE DEF f
  <2>2. QED  BY <1>1, <2>1, OneMoreSlot
<1>4. ~forgot => /\ FitsWindow(user, f)
                 /\ \A s \in Times : Stretch(f, s) <= 2 * Quota - 1
  BY <1>1 DEF QuotaFits, MemoryFits, Fits, StretchesFit
<1>5. ~forgot => /\ FitsWindow(u, g)
                 /\ \A s \in Times : Stretch(g, s) <= 2 * Quota - 1
  <2> HIDE DEF user, f
  <2>1. QED  BY <1>1, <1>3, <1>4, FitsOneMore
<1>6. \A i \in Ids : Used(i) \in Slots /\ Used(i)' \in Slots
  BY <1>1, UsedTypes, UsedTypesNext
<1> HIDE DEF user, f, g, u
<1>7. NoneLater'
  <2> SUFFICES ASSUME NEW i \in Ids, NEW x \in Times, x > now PROVE Used(i)'[x] = 0
    BY <1>1 DEF NoneLater, Ids, Times
  <2>1. Used(i)'[x] <= 0
    <3>1. CASE i = id
      <4>1. x # now
        BY <1>1
      <4>2. Used(id)'[x] <= g[x] /\ g[x] = f[x] /\ f[x] = 0
        BY <1>2, <1>3, <4>1 DEF AtMost, g, Slots
      <4>3. QED  BY <3>1, <4>2
    <3>2. CASE i # id
      <4>1. Used(i)'[x] <= Used(i)[x] /\ Used(i)[x] = 0
        BY <1>2, <3>2 DEF AtMost, QuotaFits, NoneLater
      <4>2. QED  BY <4>1
    <3>3. QED  BY <3>1, <3>2
  <2>2. QED  BY <1>6, <2>1 DEF Slots
<1>8. MemoryFits'
  <2>1. ASSUME ~forgot, NEW i \in Ids
        PROVE  \E h \in Slots : AtMost(Used(i)', h) /\ Fits(users', i, h)
    <3>1. CASE i = id
      <4>1. users'[id] = u /\ id \in DOMAIN users'
        BY <1>1
      <4>2. Fits(users', i, g)
        BY <1>5, <2>1, <3>1, <4>1 DEF Fits
      <4>3. QED  BY <1>2, <1>3, <3>1, <4>2
    <3>2. CASE i # id
      <4>1. Fits(users, i, Used(i))
        BY <1>1, <2>1 DEF QuotaFits, MemoryFits
      <4>2. Fits(users', i, Used(i))
        BY <1>1, <3>2, <4>1 DEF Fits
      <4>3. QED  BY <1>2, <1>6, <3>2, <4>2
    <3>3. QED  BY <3>1, <3>2
  <2>2. ASSUME up', ~forgot', NEW i \in Ids
        PROVE  \E h \in Slots : AtMost(Used(i)', h) /\ Fits(users', i, h)
    BY <1>1, <2>1, <2>2
  <2>3. now' >= now /\ setBack' >= setBack
    BY <1>1
  <2>4. QED  BY <1>1, <2>2, <2>3, MemoryFrom
<1>9. FileFits'
  <2>1. \A v \in Threads : job[v].pc # "write"
    BY DEF ConsumePixelSlot, Idle, Free
  <2>2. QED  BY <1>1, <2>1, FileStays DEF QuotaFits
<1>10. StretchesFit'
  <2> SUFFICES ASSUME ~forgot, NEW i \in Ids, NEW s \in Times
               PROVE  Stretch(Used(i)', s) <= 2 * Quota - 1
    BY <1>1 DEF StretchesFit, Ids, Times, Stretch
  <2>1. PICK h \in Slots : h = Used(i)'
    BY <1>6
  <2>2. PICK k \in Slots : AtMost(h, k) /\ Stretch(k, s) <= 2 * Quota - 1
    <3>1. CASE i = id
      BY <1>2, <1>3, <1>5, <2>1, <3>1
    <3>2. CASE i # id
      BY <1>2, <1>6, <2>1, <3>2 DEF QuotaFits, StretchesFit
    <3>3. QED  BY <3>1, <3>2
  <2>3. Stretch(h, s) <= Stretch(k, s) /\ Stretch(h, s) \in Nat /\ Stretch(k, s) \in Nat
    BY <2>2, SlotSums DEF Stretch
  <2>4. QED  BY <2>1, <2>2, <2>3
<1>11. QED  BY <1>7, <1>8, <1>9, <1>10 DEF QuotaFits

(* Every step keeps the slots that are used within the windows.            *)
LEMMA QuotaStep == IInv /\ IInv' /\ QuotaFits /\ [Next]_vars => QuotaFits'
<1> SUFFICES ASSUME IInv, IInv', QuotaFits, [Next]_vars PROVE QuotaFits'
  OBVIOUS
<1>0. /\ TypeOK /\ TypeOK' /\ job \in [Threads -> Job] /\ placed \in [Ids -> [Times -> Nat]]
      /\ now \in Nat /\ setBack \in Nat
      /\ \A id \in DOMAIN users : users[id] \in User
  <2>1. TypeOK
    BY DEF IInv
  <2>2. TypeOK'
    BY DEF IInv
  <2>3. /\ job \in [Threads -> Job] /\ placed \in [Ids -> [Times -> Nat]]
        /\ now \in Nat /\ setBack \in Nat
        /\ \A id \in DOMAIN users : users[id] \in User
    BY <2>1 DEF TypeOK, Times
  <2>4. QED  BY <2>1, <2>2, <2>3
<1>1. QuotaFits = (NoneLater /\ MemoryFits /\ FileFits /\ StretchesFit)
  BY DEF QuotaFits
<1>2. placed' = placed => \A id \in Ids : AtMost(placed'[id], placed[id])
  BY <1>0 DEF AtMost
<1>3. ASSUME NEW t \in Threads, NEW name \in Names, NEW email \in Emails,
             Register(t, name, email)
      PROVE  QuotaFits'
  <2>1. nextId \notin DOMAIN users
    BY DEF IInv, Numbered, TypeOK
  <2>2. /\ \A u \in Threads : u # t => job'[u] = job[u]
        /\ job'[t].kind = "register"
        /\ \A u \in Threads : job[u].pc # "write"
        /\ UNCHANGED <<file, placed, lastSave, forgot, up, now, setBack>>
    BY <1>0, <1>3 DEF Register, Idle, Free, MustSave, time
  <2>3. \A id \in Ids : AtMost(Used(id)', Used(id))
    BY <1>0, <1>2, <2>2, UsedShrinks
  <2>4. /\ DOMAIN users \subseteq DOMAIN users'
        /\ \A id \in DOMAIN users' :
              \/ id \notin DOMAIN users /\ users'[id].start = Never
              \/ /\ id \in DOMAIN users /\ users'[id].start = users[id].start
                 /\ users'[id].count = users[id].count
    BY <1>3, <2>1 DEF Register
  <2>5. QED
    BY <1>0, <1>1, <2>2, <2>3, <2>4, MemoryStays, FileStays, StretchesStay DEF QuotaFits
<1>4. ASSUME NEW t \in Threads, NEW id \in Ids, VerifyEmail(t, id)
      PROVE  QuotaFits'
  <2>1. /\ \A u \in Threads : u # t => job'[u] = job[u]
        /\ job'[t].kind = "verify"
        /\ \A u \in Threads : job[u].pc # "write"
        /\ UNCHANGED <<file, placed, lastSave, forgot, up, now, setBack>>
    BY <1>0, <1>4 DEF VerifyEmail, Idle, Free, MustSave, time
  <2>2. \A i \in Ids : AtMost(Used(i)', Used(i))
    BY <1>0, <1>2, <2>1, UsedShrinks
  <2>3. /\ DOMAIN users' = DOMAIN users
        /\ \A i \in DOMAIN users : /\ users'[i].start = users[i].start
                                   /\ users'[i].count = users[i].count
    BY <1>0, <1>4 DEF VerifyEmail, User
  <2>4. QED
    BY <1>0, <1>1, <2>1, <2>2, <2>3, MemoryStays, FileStays, StretchesStay DEF QuotaFits
<1>5. ASSUME NEW t \in Threads, NEW id \in Ids, ConsumePixelSlot(t, id)
      PROVE  QuotaFits'
  BY <1>0, <1>5, SlotFits
<1>6. ASSUME NEW t \in Threads, NEW id \in Ids, ResetPixelQuota(t, id)
      PROVE  QuotaFits'
  <2>1. /\ \A u \in Threads : u # t /\ job[u].id # id => job'[u] = job[u]
        /\ \A u \in Threads : u # t /\ job[u].id = id => job'[u].time = Never
        /\ job'[t].kind = "forgive"
        /\ \A u \in Threads : job[u].pc # "write" /\ job'[u].pc # "write"
        /\ UNCHANGED <<file, lastSave, forgot, up, now, setBack>> /\ id \in DOMAIN users
    BY <1>0, <1>6 DEF ResetPixelQuota, Idle, Free, time, Job
  <2>2. /\ placed' = [placed EXCEPT ![id] = [slot \in Times |-> 0]]
        /\ users' = [users EXCEPT ![id].start = Never, ![id].count = 0]
    BY <1>6 DEF ResetPixelQuota
  <2>3. \A i \in Ids : AtMost(placed'[i], placed[i])
    BY <1>0, <2>2 DEF AtMost
  <2>4. \A i \in Ids : AtMost(Used(i)', Used(i))
    BY <1>0, <2>1, <2>3, UsedShrinks
  <2>5. \A x \in Times : Used(id)'[x] = 0
    <3> SUFFICES ASSUME NEW x \in Times PROVE Used(id)'[x] = 0
      OBVIOUS
    <3>1. \A u \in Threads : ~(job'[u].kind = "place" /\ job'[u].id = id /\ job'[u].time = x)
      BY <2>1 DEF Times
    <3>2. Placing(id, x)' = {}
      BY <3>1 DEF Placing
    <3>3. placed'[id][x] = 0
      BY <1>0, <2>2
    <3>4. Cardinality(Placing(id, x)') = 0
      BY <3>2, FS_EmptySet
    <3>5. Used(id)'[x] = placed'[id][x] + Cardinality(Placing(id, x)')
      BY DEF Used, Times
    <3>6. QED  BY <3>3, <3>4, <3>5
  <2>6. MemoryFits'
    <3>1. ASSUME ~forgot, NEW i \in Ids
          PROVE  \E f \in Slots : AtMost(Used(i)', f) /\ Fits(users', i, f)
      <4>1. CASE i = id
        <5>1. users'[id].start = Never /\ id \in DOMAIN users'
          BY <1>0, <2>1, <2>2 DEF User
        <5>2. PICK f \in Slots : f = Used(id)'
          BY <1>0, UsedTypesNext
        <5>3. Fits(users', id, f) /\ AtMost(f, f)
          BY <2>5, <5>1, <5>2 DEF Fits, FitsWindow, AtMost, Slots
        <5>4. QED  BY <4>1, <5>2, <5>3
      <4>2. CASE i # id
        <5>1. Used(i) \in Slots /\ Fits(users, i, Used(i))
          BY <1>0, <2>1, <3>1, UsedTypes, <1>6
             DEF QuotaFits, MemoryFits, ResetPixelQuota, Idle, At
        <5>2. Fits(users', i, Used(i))
          BY <2>2, <4>2, <5>1 DEF Fits
        <5>3. QED  BY <2>4, <5>1, <5>2
      <4>3. QED  BY <4>1, <4>2
    <3>2. now' >= now /\ setBack' >= setBack
      BY <1>0, <2>1
    <3>3. QED  BY <1>0, <2>1, <3>1, <3>2, MemoryFrom
  <2>7. FileFits'
    <3>1. ASSUME ~forgot, lastSave # "short", NEW i \in Ids
          PROVE  \E f \in Slots : AtMost(placed'[i], f) /\ Fits(file', i, f)
      <4>1. placed[i] \in Slots /\ Fits(file, i, placed[i])
        BY <1>0, <2>1, <3>1, UsedTypes DEF QuotaFits, FileFits
      <4>2. QED  BY <2>1, <2>3, <4>1
    <3>2. now' >= now /\ setBack' >= setBack
      BY <1>0, <2>1
    <3>3. QED  BY <1>0, <2>1, <3>1, <3>2, FileFrom
  <2>8. NoneLater' /\ StretchesFit'
    <3>1. NoneLater /\ StretchesFit /\ now' >= now /\ (forgot => forgot')
      BY <1>0, <2>1 DEF QuotaFits
    <3>2. QED  BY <1>0, <2>4, <3>1, StretchesStay
  <2>9. QED  BY <2>6, <2>7, <2>8 DEF QuotaFits
<1>7. ASSUME NEW t \in Threads, OpenFile(t) PROVE QuotaFits'
  <2>1. /\ \A u \in Threads : job'[u].kind = job[u].kind /\ job'[u].id = job[u].id
                              /\ job'[u].time = job[u].time
        /\ \A u \in Threads : u # t => job'[u].pc = job[u].pc
        /\ job[t].pc = "open" /\ job'[t].pc = "write"
        /\ UNCHANGED <<users, placed, lastSave, forgot, up, now, setBack>>
    BY <1>0, <1>7 DEF OpenFile, At, time, ghosts, Job
  <2>2. \A i \in Ids : AtMost(Used(i)', Used(i))
    <3>1. \A u \in Threads : job'[u].pc # "idle" => job[u].pc # "idle"
      BY <2>1
    <3>2. QED  BY <1>0, <1>2, <2>1, <3>1, UsedShrinks
  <2>3. FileFits'
    BY <2>1 DEF FileFits
  <2>4. QED
    BY <1>0, <1>1, <2>1, <2>2, <2>3, MemoryStays, StretchesStay DEF QuotaFits
<1>8. ASSUME NEW t \in Threads, OpenFileFails(t) PROVE QuotaFits'
  <2>1. /\ \A u \in Threads : u # t => job'[u] = job[u]
        /\ job'[t].pc = "idle"
        /\ \A u \in Threads : job[u].pc # "write"
        /\ UNCHANGED <<users, file, placed, forgot, up, now, setBack>>
        /\ lastSave' # "short" => lastSave # "short"
    BY <1>0, <1>8 DEF OpenFileFails, Free, IdleJob, time
  <2>2. \A i \in Ids : AtMost(Used(i)', Used(i))
    BY <1>0, <1>2, <2>1, UsedShrinks
  <2>3. QED
    BY <1>0, <1>1, <2>1, <2>2, MemoryStays, FileStays, StretchesStay DEF QuotaFits
<1>9. ASSUME NEW t \in Threads, CloseFile(t) \/ CloseWithLoss(t) PROVE QuotaFits'
  <2>1. /\ At(t, "write") /\ GoOn(t) /\ up
        /\ UNCHANGED <<users, forgot, up, now, setBack>>
        /\ lastSave' # "short" => file' = users
    BY <1>9 DEF CloseFile, CloseWithLoss, At, time
  <2>2. \A i \in Ids : AtMost(Used(i)', Used(i)) /\ AtMost(placed'[i], Used(i))
    BY <1>0, <2>1, GoOnUses
  <2>3. ASSUME ~forgot', lastSave' # "short", NEW i \in Ids
        PROVE  \E f \in Slots : AtMost(placed'[i], f) /\ Fits(file', i, f)
    <3>1. Used(i) \in Slots /\ Fits(users, i, Used(i))
      BY <1>0, <2>1, <2>3, UsedTypes DEF QuotaFits, MemoryFits
    <3>2. QED  BY <2>1, <2>2, <2>3, <3>1
  <2>4. now' >= now /\ setBack' >= setBack
    BY <1>0, <2>1
  <2>5. FileFits'
    BY <1>0, <2>3, <2>4, FileFrom
  <2>6. QED
    BY <1>0, <1>1, <2>1, <2>2, <2>4, <2>5, MemoryStays, StretchesStay DEF QuotaFits
<1>10. ASSUME NEW t \in Threads, AppendOutbox(t) PROVE QuotaFits'
  <2>1. /\ \A u \in Threads : u # t => job'[u] = job[u]
        /\ job'[t].pc = "idle" /\ job[t].pc = "outbox"
        /\ UNCHANGED <<users, file, placed, lastSave, forgot, up, now, setBack>>
    BY <1>0, <1>10 DEF AppendOutbox, At, IdleJob, time
  <2>2. \A i \in Ids : AtMost(Used(i)', Used(i))
    BY <1>0, <1>2, <2>1, UsedShrinks
  <2>3. (\A u \in Threads : job'[u].pc # "write") => \A u \in Threads : job[u].pc # "write"
    BY <2>1
  <2>4. QED
    BY <1>0, <1>1, <2>1, <2>2, <2>3, MemoryStays, FileStays, StretchesStay DEF QuotaFits
<1>11. CASE Tick \/ SetClockBack
  <2>1. /\ UNCHANGED <<users, file, job, placed, lastSave, forgot, up>>
        /\ now' >= now /\ setBack' >= setBack
    BY <1>0, <1>11 DEF Tick, SetClockBack, ghosts
  <2>2. \A i \in Ids : AtMost(Used(i)', Used(i))
    BY <1>0, <1>2, <2>1, UsedShrinks
  <2>3. QED
    BY <1>0, <1>1, <2>1, <2>2, MemoryStays, FileStays, StretchesStay DEF QuotaFits
<1>12. CASE Crash
  <2>1. /\ ~up' /\ up /\ UNCHANGED <<users, placed, forgot, now, setBack>>
        /\ \A u \in Threads : job'[u].pc = "idle"
    BY <1>12 DEF Crash, IdleJob, time
  <2>2. \A i \in Ids : AtMost(Used(i)', Used(i))
    BY <1>0, <1>2, <2>1, UsedShrinks
  <2>3. MemoryFits'
    BY <2>1 DEF MemoryFits
  <2>4. ASSUME ~forgot', lastSave' # "short", NEW i \in Ids
        PROVE  \E f \in Slots : AtMost(placed'[i], f) /\ Fits(file', i, f)
    <3>1. placed[i] \in Slots /\ Used(i) \in Slots /\ AtMost(placed[i], Used(i))
          /\ AtMost(placed[i], placed[i])
      BY <1>0, UsedTypes DEF AtMost, Slots
    <3>2. CASE \E t \in Threads : job[t].pc = "write"
      <4>1. file' = users
        BY <1>12, <2>4, <3>2 DEF Crash
      <4>2. Fits(users, i, Used(i))
        BY <2>1, <2>4 DEF QuotaFits, MemoryFits
      <4>3. QED  BY <2>1, <3>1, <4>1, <4>2
    <3>3. CASE ~ \E t \in Threads : job[t].pc = "write"
      <4>1. file' = file /\ lastSave # "short"
        BY <1>12, <2>4, <3>3 DEF Crash
      <4>2. Fits(file, i, placed[i])
        BY <2>1, <2>4, <3>3, <4>1 DEF QuotaFits, FileFits
      <4>3. QED  BY <2>1, <3>1, <4>1, <4>2
    <3>4. QED  BY <3>2, <3>3
  <2>5. now' >= now /\ setBack' >= setBack
    BY <1>0, <2>1
  <2>6. FileFits'
    BY <1>0, <2>4, <2>5, FileFrom
  <2>7. QED
    BY <1>0, <1>1, <2>1, <2>2, <2>3, <2>5, <2>6, StretchesStay DEF QuotaFits
<1>13. CASE Load
  <2>1. /\ ~up /\ users' = file /\ UNCHANGED <<file, job, placed, now, setBack>>
        /\ ~forgot' => ~forgot /\ lastSave # "short"
    BY <1>13 DEF Load, time
  <2>2. \A u \in Threads : job[u].pc = "idle" /\ job'[u].pc = "idle"
    BY <2>1 DEF IInv, JobsKnown
  <2>3. \A i \in Ids : AtMost(Used(i)', Used(i))
    BY <1>0, <1>2, <2>1, <2>2, UsedShrinks
  <2>4. ASSUME NEW i \in Ids PROVE AtMost(Used(i)', placed[i])
    <3> SUFFICES ASSUME NEW x \in Times PROVE Used(i)'[x] <= placed[i][x]
      BY DEF AtMost
    <3>1. Placing(i, x)' = {}
      BY <2>2 DEF Placing
    <3>2. Used(i)'[x] = placed'[i][x] + Cardinality(Placing(i, x)')
      BY DEF Used, Times
    <3>3. Cardinality(Placing(i, x)') = 0
      BY <3>1, FS_EmptySet
    <3>4. placed'[i][x] = placed[i][x] /\ placed[i][x] \in Nat
      BY <1>0, <2>1
    <3>5. QED  BY <3>2, <3>3, <3>4
  <2>5. ASSUME ~forgot', NEW i \in Ids
        PROVE  /\ placed[i] \in Slots /\ Fits(file, i, placed[i])
               /\ AtMost(placed'[i], placed[i])
    <3>1. placed[i] \in Slots /\ Fits(file, i, placed[i])
      BY <1>0, <2>1, <2>2, <2>5, UsedTypes DEF QuotaFits, FileFits
    <3>2. QED  BY <1>2, <2>1, <3>1
  <2>6. now' >= now /\ setBack' >= setBack
    BY <1>0, <2>1
  <2>7. MemoryFits'
    <3>1. ASSUME ~forgot', NEW i \in Ids
          PROVE  \E f \in Slots : AtMost(Used(i)', f) /\ Fits(users', i, f)
      BY <2>1, <2>4, <2>5, <3>1
    <3>2. QED  BY <1>0, <2>6, <3>1, MemoryFrom
  <2>8. FileFits'
    <3>1. ASSUME ~forgot', NEW i \in Ids
          PROVE  \E f \in Slots : AtMost(placed'[i], f) /\ Fits(file', i, f)
      BY <2>1, <2>5, <3>1
    <3>2. QED  BY <1>0, <2>6, <3>1, FileFrom
  <2>9. forgot => forgot'
    BY <1>13 DEF Load
  <2>10. QED
    BY <1>0, <1>1, <2>3, <2>6, <2>7, <2>8, <2>9, StretchesStay DEF QuotaFits
<1>14. CASE UNCHANGED vars
  <2>1. /\ UNCHANGED <<users, file, job, placed, lastSave, forgot, up, now, setBack>>
        /\ now' >= now /\ setBack' >= setBack
    BY <1>0, <1>14 DEF vars, time, ghosts
  <2>2. \A i \in Ids : AtMost(Used(i)', Used(i))
    BY <1>0, <1>2, <2>1, UsedShrinks
  <2>3. QED
    BY <1>0, <1>1, <2>1, <2>2, MemoryStays, FileStays, StretchesStay DEF QuotaFits
<1>15. QED
  BY <1>3, <1>4, <1>5, <1>6, <1>7, <1>8, <1>9, <1>10, <1>11, <1>12, <1>13, <1>14 DEF Next

(* Nothing is placed when the server starts for the first time. *)
LEMMA InitQuota == Init => QuotaFits
<1> SUFFICES ASSUME Init PROVE QuotaFits
  OBVIOUS
<1>1. /\ TypeOK /\ users = file
      /\ \A id \in DOMAIN file : file[id].start = Never
  BY InitIInv, EarlierFile DEF IInv, Init
<1>2. ASSUME NEW id \in Ids, NEW x \in Times PROVE placed[id][x] = 0 /\ Used(id)[x] = 0
  <2>1. Placing(id, x) = {} /\ placed[id][x] = 0
    BY DEF Placing, Init, IdleJob
  <2>2. QED  BY <2>1, FS_EmptySet DEF Used
<1>3. \A id \in Ids : Fits(users, id, Used(id)) /\ Fits(file, id, placed[id])
  BY <1>1, <1>2 DEF Fits, FitsWindow
<1>4. ASSUME NEW id \in Ids, NEW s \in Times PROVE Stretch(Used(id), s) <= 2 * Quota - 1
  <2>1. Stretch(Used(id), s) = 0
    BY <1>1, <1>2, UsedTypes, SlotSums DEF Stretch
  <2>2. QED  BY <2>1
<1>5. QED
  BY <1>2, <1>3, <1>4 DEF QuotaFits, NoneLater, MemoryFits, FileFits, StretchesFit

(* In no stretch of one cooldown of true time does an account place more   *)
(* than a window and what the one before had left, for any number of       *)
(* requests at once, over crashes and restarts, and though the clock be    *)
(* set back (UserStore.cpp:456-469; ApiController.cpp:573).                *)
THEOREM QuotaIsKept == Spec => []QuotaHolds
<1>1. IInv /\ QuotaFits => QuotaHolds
  <2> SUFFICES ASSUME IInv, QuotaFits, ~forgot, NEW id \in Ids, NEW from \in Times
               PROVE  PlacedIn(id, from, Cooldown) <= 2 * Quota - 1
    BY DEF QuotaHolds
  <2>1. /\ placed[id] \in Slots /\ Used(id) \in Slots /\ AtMost(placed[id], Used(id))
        /\ Stretch(Used(id), from) <= 2 * Quota - 1
    BY UsedTypes DEF IInv, QuotaFits, StretchesFit
  <2>2. PlacedIn(id, from, Cooldown) = Stretch(placed[id], from)
    BY DEF PlacedIn, Stretch, SumOver
  <2>3. /\ Stretch(placed[id], from) <= Stretch(Used(id), from)
        /\ Stretch(placed[id], from) \in Nat /\ Stretch(Used(id), from) \in Nat
    BY <2>1, SlotSums DEF Stretch
  <2>4. QED  BY <2>1, <2>2, <2>3
<1>2. QED  BY Invariance, InitQuota, QuotaStep, <1>1, PTL DEF Spec

============================================================================
