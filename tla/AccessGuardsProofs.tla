------------------------- MODULE AccessGuardsProofs -------------------------
(***************************************************************************)
(* For any threads, logins, limits and times: the types of AccessGuards,   *)
(* that a lock is earned, and that a session lasts as long as it was made  *)
(* for, whatever overtakes between a reading of the clock and the mutex it *)
(* is used under.                                                          *)
(***************************************************************************)
EXTENDS AccessGuards, SumTheorems

USE GuardsAssumption

----------------------------------------------------------------------------
(* The inductive invariant. *)

LoginSteps == {"allow login", "check", "failure", "success", "create"}
PixelSteps == {"validate", "allow pixel"}

Job == [pc : {"idle"} \cup LoginSteps \cup PixelSteps, login : Logins \cup {"nobody"},
        token : Nat, time : Nat]

(* What a handler holds: no reading of the clock is of the time to come,   *)
(* and a request that shows a token got it from a session.                 *)
JobFits(j) ==
    /\ j.time <= now
    /\ j.pc \in LoginSteps \cup {"allow pixel"} => j.login \in Logins
    /\ j.pc = "validate" => j.token \in DOMAIN ends

JobsFit == job \in [Threads -> Job] /\ \A t \in Threads : JobFits(job[t])

BucketsFit ==
    /\ buckets \in [Keys -> [start : Nat, count : Nat]]
    /\ \A key \in Keys : buckets[key].start <= now /\ buckets[key].count <= Limit(key)

(* The count of failures goes back to zero with a success and with a lock, *)
(* but never counts what was not a failure.                                *)
LocksFit ==
    /\ attempts \in [Logins -> [failures : 0 .. (FailureLimit - 1), lockedUntil : Nat]]
    /\ streak \in [Logins -> Nat]
    /\ \A login \in Logins :
          /\ attempts[login].lockedUntil <= now + LockSeconds
          /\ attempts[login].failures <= streak[login]

(* What is pruned has ended by the clock of the one who prunes, and so for *)
(* everybody.                                                              *)
SessionsFit ==
    /\ DOMAIN sessions \subseteq DOMAIN ends
    /\ \A token \in DOMAIN ends : ends[token] \in Nat
    /\ \A token \in DOMAIN sessions : /\ sessions[token].expires = ends[token]
                                      /\ sessions[token].user \in Logins
    /\ \A token \in DOMAIN ends \ DOMAIN sessions : ends[token] <= now

(* Every token was asked for by a login, and each is given once. *)
LoggingIn == {t \in Threads : job[t].pc \in LoginSteps}
Given     == Cardinality(DOMAIN ends)

TokensCounted ==
    /\ IsFiniteSet(LoggingIn)
    /\ Given \in Nat /\ DOMAIN ends = 1 .. Given
    /\ Given + Cardinality(LoggingIn) <= requests
    /\ requests \in 0 .. MaxRequests

IInv == /\ now \in Times
        /\ JobsFit /\ BucketsFit /\ LocksFit /\ SessionsFit /\ TokensCounted

----------------------------------------------------------------------------
(* The job of one thread changes. *)

(* A thread that is done holds nothing. *)
LEMMA IdleFits == IInv => IdleJob \in Job /\ JobFits(IdleJob)
BY DEF IInv, IdleJob, Job, JobFits, LoginSteps, PixelSteps, Times

(* A reading of the clock is of the past. *)
LEMMA ReadingsPast ==
    ASSUME IInv, NEW t \in Threads
    PROVE  now \in Nat /\ job[t].time \in Nat /\ job[t].time <= now
<1>1. now \in Nat
  BY DEF IInv, Times
<1>2. job[t] \in Job /\ JobFits(job[t])
  BY DEF IInv, JobsFit
<1>3. job[t].time \in Nat
  BY <1>2 DEF Job
<1>4. job[t].time <= now
  BY <1>2, Zenon DEF JobFits
<1>5. QED  BY <1>1, <1>3, <1>4

(* What a handler that has just read the clock holds. *)
LEMMA ReadingFits ==
    ASSUME NEW j \in Job, j.time <= now,
           j.pc \in LoginSteps \cup {"allow pixel"} => j.login \in Logins,
           j.pc = "validate" => j.token \in DOMAIN ends
    PROVE  JobFits(j)
BY Zenon DEF JobFits

(* One thread goes on, the others keep what they hold. *)
LEMMA OneJob ==
    ASSUME IInv, NEW t \in Threads, NEW j \in Job, JobFits(j),
           job' = [job EXCEPT ![t] = j], now' = now, DOMAIN ends \subseteq DOMAIN ends'
    PROVE  JobsFit'
<1>1. job' \in [Threads -> Job]
  BY DEF IInv, JobsFit
<1>2. ASSUME NEW u \in Threads PROVE JobFits(job[u])'
  <2>1. job'[u] = IF u = t THEN j ELSE job[u]
    BY DEF IInv, JobsFit
  <2>2. JobFits(job'[u])
    BY <2>1 DEF IInv, JobsFit
  <2>3. QED  BY <2>2 DEF JobFits
<1>3. QED  BY <1>1, <1>2 DEF JobsFit

(* A step within a handler, on a reading of the clock that is old or new. *)
LEMMA GoesOn ==
    ASSUME IInv, NEW t \in Threads, job[t].pc \in LoginSteps,
           NEW pc \in LoginSteps, NEW time \in {job[t].time, now},
           job' = [job EXCEPT ![t].pc = pc, ![t].time = time], now' = now,
           DOMAIN ends \subseteq DOMAIN ends'
    PROVE  JobsFit' /\ LoggingIn' = LoggingIn
<1> DEFINE j == [job[t] EXCEPT !.pc = pc, !.time = time]
<1>1. job[t] \in Job /\ JobFits(job[t])
  BY DEF IInv, JobsFit
<1>2. j \in Job /\ j.pc = pc /\ j.time = time /\ j.login = job[t].login
  <2>1. time \in Nat
    BY ReadingsPast
  <2>2. QED  BY <1>1, <2>1 DEF Job
<1>3. JobFits(j)
  <2>1. pc # "validate"
    BY DEF LoginSteps
  <2>2. time <= now
    BY ReadingsPast
  <2>3. job[t].login \in Logins
    BY <1>1, Zenon DEF JobFits
  <2> HIDE DEF j
  <2>4. j.time <= now /\ j.login \in Logins /\ j.pc # "validate"
    BY <1>2, <2>1, <2>2, <2>3, Zenon
  <2>5. QED  BY <1>2, <2>4, ReadingFits
<1>4. job' = [job EXCEPT ![t] = j]
  BY DEF IInv, JobsFit
<1>5. JobsFit'
  BY <1>2, <1>3, <1>4, OneJob
<1>6. LoggingIn' = LoggingIn
  BY <1>2, <1>4 DEF LoggingIn, IInv, JobsFit
<1>7. QED  BY <1>5, <1>6

(* A handler ends. *)
LEMMA Ends ==
    ASSUME IInv, NEW t \in Threads, Finish(t), now' = now, DOMAIN ends \subseteq DOMAIN ends'
    PROVE  JobsFit' /\ LoggingIn' = LoggingIn \ {t}
<1>1. JobsFit'
  BY IdleFits, OneJob DEF Finish
<1>2. LoggingIn' = LoggingIn \ {t}
  BY DEF Finish, LoggingIn, IInv, JobsFit, IdleJob, LoginSteps
<1>3. QED  BY <1>1, <1>2

(* Every step keeps what the handlers hold. *)
LEMMA JobStep == IInv /\ [Next]_vars => JobsFit'
<1> SUFFICES ASSUME IInv, [Next]_vars PROVE JobsFit'
  OBVIOUS
<1>0. now \in Nat /\ \A t \in Threads : job[t] \in Job /\ JobFits(job[t])
  BY DEF IInv, JobsFit, Times
<1>1. ASSUME NEW t \in Threads, NEW login \in Logins, StartLogin(t, login) PROVE JobsFit'
  <2> DEFINE j == [pc |-> "allow login", login |-> login, token |-> 0, time |-> now]
  <2>1. j \in Job
    BY <1>0 DEF Job, LoginSteps
  <2>2. JobFits(j)
    <3>1. j.time <= now /\ j.login \in Logins /\ j.pc # "validate"
      BY <1>0
    <3> HIDE DEF j
    <3>2. QED  BY <2>1, <3>1, ReadingFits
  <2>3. QED  BY <1>1, <2>1, <2>2, OneJob DEF StartLogin, ghosts
<1>2. ASSUME NEW t \in Threads, AllowLogin(t) PROVE JobsFit'
  <2>1. CASE Finish(t)
    BY <1>2, <2>1, Ends DEF AllowLogin
  <2>2. CASE GoReading(t, "check")
    BY <1>2, <2>2, GoesOn DEF AllowLogin, GoReading, At, LoginSteps
  <2>3. QED  BY <1>2, <2>1, <2>2 DEF AllowLogin
<1>3. ASSUME NEW t \in Threads, CheckLock(t) PROVE JobsFit'
  <2>1. CASE Finish(t)
    BY <1>3, <2>1, Ends DEF CheckLock, ghosts
  <2>2. ASSUME NEW outcome \in Verdicts, job' = [job EXCEPT ![t].pc = outcome]
        PROVE  JobsFit'
    <3>1. job' = [job EXCEPT ![t].pc = outcome, ![t].time = job[t].time]
      BY <2>2, <1>0 DEF IInv, JobsFit, Job
    <3>2. QED  BY <1>3, <3>1, GoesOn DEF CheckLock, At, Verdicts, LoginSteps, ghosts
  <2>3. QED  BY <1>3, <2>1, <2>2 DEF CheckLock
<1>4. ASSUME NEW t \in Threads, RecordFailure(t) \/ RefuseUnverified(t) PROVE JobsFit'
  BY <1>4, Ends DEF RecordFailure, RefuseUnverified, ghosts
<1>5. ASSUME NEW t \in Threads, ClearFailures(t) PROVE JobsFit'
  BY <1>5, GoesOn DEF ClearFailures, GoReading, At, LoginSteps
<1>6. ASSUME NEW t \in Threads, CreateSession(t) PROVE JobsFit'
  BY <1>6, Ends DEF CreateSession
<1>7. ASSUME NEW t \in Threads, NEW token \in Tokens, StartPixel(t, token) PROVE JobsFit'
  <2> DEFINE j == [pc |-> "validate", login |-> "nobody", token |-> token, time |-> now]
  <2>1. token \in Nat /\ token \in DOMAIN ends
    BY <1>7 DEF Tokens, StartPixel
  <2>2. j \in Job
    BY <1>0, <2>1 DEF Job, PixelSteps
  <2>3. JobFits(j)
    <3>1. j.time <= now /\ j.token \in DOMAIN ends
      BY <1>0, <2>1
    <3>2. j.pc \notin LoginSteps \cup {"allow pixel"}
      BY DEF LoginSteps
    <3> HIDE DEF j
    <3>3. QED  BY <2>2, <3>1, <3>2, ReadingFits
  <2>4. QED  BY <1>7, <2>2, <2>3, OneJob DEF StartPixel, ghosts
<1>8. ASSUME NEW t \in Threads, Validate(t) PROVE JobsFit'
  <2>1. CASE Finish(t)
    BY <1>8, <2>1, Ends DEF Validate, ghosts
  <2>2. CASE /\ job[t].token \in Live(job[t].time)
             /\ job' = [job EXCEPT ![t].pc = "allow pixel", ![t].time = now,
                                   ![t].login = sessions[job[t].token].user]
    <3> DEFINE j == [job[t] EXCEPT !.pc = "allow pixel", !.time = now,
                                   !.login = sessions[job[t].token].user]
    <3>1. sessions[job[t].token].user \in Logins
      BY <2>2 DEF Live, IInv, SessionsFit
    <3>2. j \in Job /\ JobFits(j)
      <4>1. job[t] \in Job /\ "allow pixel" \in PixelSteps
        BY <1>0 DEF PixelSteps
      <4>2. j \in Job /\ j.pc = "allow pixel" /\ j.time = now /\ j.login \in Logins
        BY <1>0, <3>1, <4>1 DEF Job
      <4> HIDE DEF j
      <4>3. now <= now
        BY <1>0
      <4>4. j.time <= now /\ j.pc # "validate"
        BY <4>2, <4>3, Zenon
      <4>5. QED  BY <4>2, <4>4, ReadingFits
    <3>3. job' = [job EXCEPT ![t] = j]
      BY <2>2 DEF IInv, JobsFit
    <3>4. QED  BY <1>8, <3>2, <3>3, OneJob DEF Validate, ghosts
  <2>3. QED  BY <1>8, <2>1, <2>2 DEF Validate
<1>9. ASSUME NEW t \in Threads, AllowPixel(t) PROVE JobsFit'
  BY <1>9, Ends DEF AllowPixel
<1>10. CASE Tick
  <2>1. now <= now' /\ now' \in Nat /\ UNCHANGED <<job, ends>>
    BY <1>0, <1>10 DEF Tick, ghosts
  <2>2. ASSUME NEW t \in Threads PROVE JobFits(job[t])'
    <3>1. job[t].time <= now'
      BY <1>0, <2>1, ReadingsPast
    <3>2. QED  BY <1>0, <2>1, <3>1, Zenon DEF JobFits
  <2>3. QED  BY <2>1, <2>2 DEF IInv, JobsFit
<1>11. CASE UNCHANGED vars
  BY <1>11 DEF vars, ghosts, IInv, JobsFit, JobFits
<1>12. QED
  BY <1>1, <1>2, <1>3, <1>4, <1>5, <1>6, <1>7, <1>8, <1>9, <1>10, <1>11 DEF Next

----------------------------------------------------------------------------
(* The tables. *)

(* A window of the limiter never holds more than the limit. *)
LEMMA AllowFits ==
    ASSUME IInv, NEW t \in Threads, NEW key \in Keys, Allow(t, key, Limit(key)), now' = now
    PROVE  BucketsFit'
<1> DEFINE time   == job[t].time
           bucket == Bucket(key, time)
<1>1. time \in Nat /\ time <= now /\ now \in Nat
  BY ReadingsPast
<1>2. /\ buckets[key] \in [start : Nat, count : Nat] /\ buckets[key].start <= now
      /\ buckets[key].count <= Limit(key) /\ Limit(key) \in Nat
  BY DEF IInv, BucketsFit, Limit
<1>3. /\ bucket \in [start : Nat, count : Nat] /\ bucket.start <= now
      /\ bucket.count <= Limit(key)
  BY <1>1, <1>2 DEF Bucket
<1> HIDE DEF bucket, time
<1>4. ASSUME NEW b \in [start : Nat, count : Nat], b.start <= now, b.count <= Limit(key),
             buckets' = [buckets EXCEPT ![key] = b]
      PROVE  BucketsFit'
  BY <1>4 DEF IInv, BucketsFit
<1>5. CASE bucket.count >= Limit(key)
  BY <1>3, <1>4, <1>5 DEF Allow, bucket, time
<1>6. CASE ~(bucket.count >= Limit(key))
  <2> DEFINE b == [bucket EXCEPT !.count = bucket.count + 1]
  <2>1. b \in [start : Nat, count : Nat] /\ b.start <= now /\ b.count <= Limit(key)
    BY <1>2, <1>3, <1>6
  <2>2. buckets' = [buckets EXCEPT ![key] = b]
    BY <1>6 DEF Allow, bucket, time
  <2> HIDE DEF b
  <2>3. QED  BY <1>4, <2>1, <2>2
<1>7. QED  BY <1>5, <1>6

(* Every step keeps the windows of the limiter; the two calls of allow     *)
(* are the ones that change them.                                          *)
LEMMA BucketStep == IInv /\ [Next]_vars => BucketsFit'
<1> SUFFICES ASSUME IInv, [Next]_vars PROVE BucketsFit'
  OBVIOUS
<1>1. ASSUME UNCHANGED buckets, now <= now', now' \in Nat PROVE BucketsFit'
  BY <1>1 DEF IInv, BucketsFit, Times
<1>2. ASSUME NEW t \in Threads, AllowLogin(t) PROVE BucketsFit'
  BY <1>2, AllowFits DEF AllowLogin, Keys, Limit
<1>3. ASSUME NEW t \in Threads, AllowPixel(t) PROVE BucketsFit'
  <2>1. job[t].login \in Logins
    BY <1>3 DEF AllowPixel, At, IInv, JobsFit, JobFits
  <2>2. QED  BY <1>3, <2>1, AllowFits DEF AllowPixel, Keys, Limit
<1>4. now \in Nat
  BY DEF IInv, Times
<1>5. CASE Tick
  BY <1>1, <1>4, <1>5 DEF Tick
<1>6. ASSUME UNCHANGED <<buckets, now>> PROVE BucketsFit'
  BY <1>1, <1>4, <1>6
<1>7. QED
  BY <1>2, <1>3, <1>5, <1>6
     DEF Next, vars, StartLogin, CheckLock, RecordFailure, RefuseUnverified,
         ClearFailures, CreateSession, StartPixel, Validate

(* What a failure makes of the lock of its login. *)
LEMMA CountedFits ==
    ASSUME IInv, NEW t \in Threads, RecordFailure(t), job[t].login \in Logins
    PROVE  LET login == job[t].login IN
           /\ LocksFit'
           /\ \A other \in Logins \ {login} : attempts'[other] = attempts[other]
           /\ attempts'[login].lockedUntil > attempts[login].lockedUntil
                 => streak[login] + 1 >= FailureLimit
<1> DEFINE login   == job[t].login
           time    == job[t].time
           attempt == IF IsLocked(login, time) THEN attempts[login]
                      ELSE Counted(attempts[login], time)
<1>1. /\ attempts[login] \in [failures : 0 .. (FailureLimit - 1), lockedUntil : Nat]
      /\ attempts[login].failures <= streak[login]
      /\ attempts[login].lockedUntil <= now + LockSeconds
      /\ streak[login] \in Nat
  BY DEF IInv, LocksFit
<1>2. time \in Nat /\ time <= now /\ now \in Nat
  BY ReadingsPast
<1>3. /\ attempts' = [attempts EXCEPT ![login] = attempt]
      /\ streak' = [streak EXCEPT ![login] =
                       IF attempt.lockedUntil # attempts[login].lockedUntil
                       THEN 0 ELSE @ + 1]
      /\ now' = now
  BY DEF RecordFailure
<1>4. CASE IsLocked(login, time)
  <2>1. attempt = attempts[login]
    BY <1>4
  <2> HIDE DEF login, time, attempt
  <2>2. QED  BY <1>1, <1>2, <1>3, <2>1 DEF IInv, LocksFit, login
<1>5. CASE ~IsLocked(login, time) /\ attempts[login].failures + 1 >= FailureLimit
  <2>1. attempt = [failures |-> 0, lockedUntil |-> time + LockSeconds]
    BY <1>5 DEF Counted
  <2>2. attempts[login].lockedUntil <= time
    BY <1>1, <1>2, <1>5 DEF IsLocked
  <2> HIDE DEF login, time, attempt
  <2>3. streak' = [streak EXCEPT ![login] = 0]
    <3>1. attempt.lockedUntil = time + LockSeconds
      BY <2>1
    <3>2. attempt.lockedUntil # attempts[login].lockedUntil
      BY <1>1, <1>2, <2>2, <3>1
    <3>3. QED  BY <1>3, <3>2
  <2>4. LocksFit'
    BY <1>1, <1>2, <1>3, <2>1, <2>3 DEF IInv, LocksFit, login
  <2>5. QED  BY <1>1, <1>3, <1>5, <2>4 DEF IInv, LocksFit, login
<1>6. CASE ~IsLocked(login, time) /\ ~(attempts[login].failures + 1 >= FailureLimit)
  <2>1. attempt = [attempts[login] EXCEPT !.failures = @ + 1]
    BY <1>6 DEF Counted
  <2>2. /\ attempt \in [failures : 0 .. (FailureLimit - 1), lockedUntil : Nat]
        /\ attempt.lockedUntil = attempts[login].lockedUntil
        /\ attempt.failures = attempts[login].failures + 1
    <3> HIDE DEF login, time, attempt
    <3>1. QED  BY <1>1, <1>6, <2>1
  <2> HIDE DEF login, time, attempt
  <2>3. streak' = [streak EXCEPT ![login] = @ + 1]
    BY <1>3, <2>2
  <2>4. QED  BY <1>1, <1>2, <1>3, <2>2, <2>3 DEF IInv, LocksFit, login
<1>7. QED  BY <1>4, <1>5, <1>6

(* Every step keeps the locks. *)
LEMMA LockStep == IInv /\ [Next]_vars => LocksFit'
<1> SUFFICES ASSUME IInv, [Next]_vars PROVE LocksFit'
  OBVIOUS
<1>1. ASSUME UNCHANGED <<attempts, streak>>, now <= now', now' \in Nat PROVE LocksFit'
  BY <1>1 DEF IInv, LocksFit, Times
<1>2. ASSUME NEW t \in Threads, RecordFailure(t) PROVE LocksFit'
  <2>1. job[t].login \in Logins
    BY <1>2 DEF RecordFailure, At, IInv, JobsFit, JobFits, LoginSteps
  <2>2. QED  BY <1>2, <2>1, CountedFits
<1>3. ASSUME NEW t \in Threads, ClearFailures(t) PROVE LocksFit'
  <2>1. now \in Nat /\ now' = now
    BY <1>3 DEF ClearFailures, IInv, Times
  <2>2. /\ attempts' = [attempts EXCEPT ![job[t].login] = [failures |-> 0, lockedUntil |-> 0]]
        /\ streak' = [streak EXCEPT ![job[t].login] = 0]
    BY <1>3 DEF ClearFailures
  <2>3. [failures |-> 0, lockedUntil |-> 0]
            \in [failures : 0 .. (FailureLimit - 1), lockedUntil : Nat]
    OBVIOUS
  <2>4. /\ attempts' \in [Logins -> [failures : 0 .. (FailureLimit - 1), lockedUntil : Nat]]
        /\ streak' \in [Logins -> Nat]
    BY <2>2, <2>3 DEF IInv, LocksFit
  <2>5. ASSUME NEW login \in Logins
        PROVE  /\ attempts'[login].lockedUntil <= now' + LockSeconds
               /\ attempts'[login].failures <= streak'[login]
    <3>1. CASE login = job[t].login
      BY <2>1, <2>2, <3>1 DEF IInv, LocksFit
    <3>2. CASE login # job[t].login
      BY <2>1, <2>2, <3>2 DEF IInv, LocksFit
    <3>3. QED  BY <3>1, <3>2
  <2>6. QED  BY <2>4, <2>5 DEF LocksFit
<1>4. now \in Nat
  BY DEF IInv, Times
<1>5. CASE Tick
  BY <1>1, <1>4, <1>5 DEF Tick, ghosts
<1>6. ASSUME UNCHANGED <<attempts, streak, now>> PROVE LocksFit'
  BY <1>1, <1>4, <1>6
<1>7. QED
  BY <1>2, <1>3, <1>5, <1>6
     DEF Next, vars, ghosts, StartLogin, AllowLogin, CheckLock, RefuseUnverified,
         CreateSession, StartPixel, Validate, AllowPixel

(* What createSession and validate prune has ended, now or long ago. *)
LEMMA PrunedHaveEnded ==
    ASSUME IInv, NEW t \in Threads, NEW token \in DOMAIN ends \ Live(job[t].time)
    PROVE  ends[token] <= now
<1>1. ends[token] \in Nat
  BY DEF IInv, SessionsFit
<1>2. CASE token \in DOMAIN sessions
  <2>1. ~(ends[token] > job[t].time)
    BY <1>2 DEF Live, IInv, SessionsFit
  <2>2. QED  BY <1>1, <2>1, ReadingsPast
<1>3. CASE token \notin DOMAIN sessions
  BY <1>3 DEF IInv, SessionsFit
<1>4. QED  BY <1>2, <1>3

(* Every step keeps what is known of the sessions that were pruned. *)
LEMMA SessionStep == IInv /\ [Next]_vars => SessionsFit'
<1> SUFFICES ASSUME IInv, [Next]_vars PROVE SessionsFit'
  OBVIOUS
<1>1. ASSUME UNCHANGED <<sessions, ends>>, now <= now', now' \in Nat PROVE SessionsFit'
  BY <1>1 DEF IInv, SessionsFit, Times
<1>2. now \in Nat
  BY DEF IInv, Times
<1>3. \A t \in Threads : \A token \in DOMAIN ends \ Live(job[t].time) : ends[token] <= now
  BY PrunedHaveEnded
<1>4. ASSUME NEW t \in Threads, CreateSession(t) PROVE SessionsFit'
  <2> DEFINE token == Given + 1
             end   == job[t].time + Ttl
             kept  == Live(job[t].time)
  <2>1. /\ sessions' = [other \in kept \cup {token} |->
                          IF other = token THEN [user |-> job[t].login, expires |-> end]
                          ELSE sessions[other]]
        /\ ends' = [other \in DOMAIN ends \cup {token} |->
                      IF other = token THEN end ELSE ends[other]]
        /\ now' = now
    BY <1>4 DEF CreateSession, Given
  <2>2. end \in Nat
    BY ReadingsPast
  <2>3. job[t].login \in Logins
    BY <1>4 DEF CreateSession, At, IInv, JobsFit, JobFits, LoginSteps
  <2>4. kept \subseteq DOMAIN sessions /\ kept \subseteq DOMAIN ends
    BY DEF Live, IInv, SessionsFit
  <2>5. \A other \in DOMAIN ends \ kept : ends[other] <= now
    BY <1>3
  <2>6. token \notin DOMAIN ends
    BY DEF IInv, TokensCounted
  <2> HIDE DEF token, end, kept
  <2>7. DOMAIN sessions' = kept \cup {token} /\ DOMAIN ends' = DOMAIN ends \cup {token}
    BY <2>1
  <2>8. \A other \in DOMAIN ends' : ends'[other] \in Nat
    BY <2>1, <2>2 DEF IInv, SessionsFit
  <2>9. \A other \in DOMAIN sessions' : /\ sessions'[other].expires = ends'[other]
                                        /\ sessions'[other].user \in Logins
    BY <2>1, <2>3, <2>4, <2>6 DEF IInv, SessionsFit
  <2>10. \A other \in DOMAIN ends' \ DOMAIN sessions' : ends'[other] <= now'
    BY <2>1, <2>5, <2>7
  <2>11. QED  BY <2>4, <2>7, <2>8, <2>9, <2>10 DEF SessionsFit
<1>5. ASSUME NEW t \in Threads, Validate(t) PROVE SessionsFit'
  <2> DEFINE kept == Live(job[t].time)
  <2>1. /\ sessions' = [token \in kept |-> sessions[token]]
        /\ ends' = ends /\ now' = now
    BY <1>5 DEF Validate, Restrict, ghosts
  <2>2. kept \subseteq DOMAIN sessions
    BY DEF Live
  <2>3. \A token \in DOMAIN ends \ kept : ends[token] <= now
    BY <1>3
  <2> HIDE DEF kept
  <2>4. QED  BY <2>1, <2>2, <2>3 DEF IInv, SessionsFit
<1>6. CASE Tick
  BY <1>1, <1>2, <1>6 DEF Tick, ghosts
<1>7. ASSUME UNCHANGED <<sessions, ends, now>> PROVE SessionsFit'
  BY <1>1, <1>2, <1>7
<1>8. QED
  BY <1>4, <1>5, <1>6, <1>7
     DEF Next, vars, ghosts, StartLogin, AllowLogin, CheckLock, RecordFailure,
         RefuseUnverified, ClearFailures, StartPixel, AllowPixel

----------------------------------------------------------------------------
(* The tokens. *)

(* Every step keeps the tokens in order, and below the logins that asked   *)
(* for them.                                                               *)
LEMMA TokenStep == IInv /\ [Next]_vars => TokensCounted'
<1> SUFFICES ASSUME IInv, [Next]_vars PROVE TokensCounted'
  OBVIOUS
<1>0. /\ IsFiniteSet(LoggingIn) /\ Cardinality(LoggingIn) \in Nat
      /\ Given \in Nat /\ DOMAIN ends = 1 .. Given
      /\ Given + Cardinality(LoggingIn) <= requests
      /\ requests \in 0 .. MaxRequests
  BY FS_CardinalityType DEF IInv, TokensCounted
<1>1. ASSUME LoggingIn' = LoggingIn, UNCHANGED ends,
             requests' \in {requests, requests + 1}, requests' <= MaxRequests
      PROVE  TokensCounted'
  <2>1. Given' = Given
    BY <1>1 DEF Given
  <2>2. requests' \in 0 .. MaxRequests /\ requests <= requests'
    BY <1>0, <1>1
  <2>3. QED  BY <1>0, <1>1, <2>1, <2>2 DEF TokensCounted
<1>2. ASSUME NEW t \in Threads, LoggingIn' = LoggingIn \ {t}, UNCHANGED <<ends, requests>>
      PROVE  TokensCounted'
  <2>1. Given' = Given
    BY <1>2 DEF Given
  <2>2. /\ IsFiniteSet(LoggingIn \ {t})
        /\ Cardinality(LoggingIn \ {t}) \in Nat
        /\ Cardinality(LoggingIn \ {t}) <= Cardinality(LoggingIn)
    <3>1. /\ IsFiniteSet(LoggingIn \ {t})
          /\ Cardinality(LoggingIn \ {t}) \in {Cardinality(LoggingIn) - 1, Cardinality(LoggingIn)}
      BY <1>0, FS_RemoveElement
    <3>2. Cardinality(LoggingIn \ {t}) \in Nat
      BY <3>1, FS_CardinalityType
    <3>3. QED  BY <1>0, <3>1, <3>2
  <2>3. QED  BY <1>0, <1>2, <2>1, <2>2 DEF TokensCounted
<1>3. ASSUME NEW t \in Threads, NEW login \in Logins, StartLogin(t, login)
      PROVE  TokensCounted'
  <2>1. t \notin LoggingIn /\ LoggingIn' = LoggingIn \cup {t}
    BY <1>3 DEF StartLogin, LoggingIn, At, LoginSteps, IInv, JobsFit
  <2>2. /\ IsFiniteSet(LoggingIn \cup {t})
        /\ Cardinality(LoggingIn \cup {t}) = Cardinality(LoggingIn) + 1
    BY <1>0, <2>1, FS_AddElement
  <2>3. Given' = Given /\ UNCHANGED ends
    BY <1>3 DEF StartLogin, ghosts, Given
  <2>4. requests' = requests + 1 /\ requests < MaxRequests
    BY <1>3 DEF StartLogin
  <2>5. QED  BY <1>0, <2>1, <2>2, <2>3, <2>4 DEF TokensCounted
<1>4. ASSUME NEW t \in Threads, CreateSession(t) PROVE TokensCounted'
  <2>1. t \in LoggingIn
    BY <1>4 DEF CreateSession, At, LoggingIn, LoginSteps
  <2>2. DOMAIN ends' = DOMAIN ends \cup {Given + 1} /\ UNCHANGED requests
    BY <1>4 DEF CreateSession, Given
  <2>3. DOMAIN ends' = 1 .. (Given + 1)
    BY <1>0, <2>2
  <2>4. Given' = Given + 1
    BY <1>0, <2>3, FS_Interval DEF Given
  <2>5. LoggingIn' = LoggingIn \ {t}
    BY <1>4, Ends, <2>2 DEF CreateSession
  <2>6. /\ IsFiniteSet(LoggingIn \ {t})
        /\ Cardinality(LoggingIn \ {t}) = Cardinality(LoggingIn) - 1
    BY <1>0, <2>1, FS_RemoveElement
  <2>7. QED  BY <1>0, <2>2, <2>3, <2>4, <2>5, <2>6 DEF TokensCounted
<1>5. ASSUME NEW t \in Threads, Finish(t), UNCHANGED <<ends, requests, now>>
      PROVE  TokensCounted'
  BY <1>2, <1>5, Ends
<1>6. ASSUME NEW t \in Threads, job[t].pc \in LoginSteps, NEW pc \in LoginSteps,
             NEW time \in {job[t].time, now},
             job' = [job EXCEPT ![t].pc = pc, ![t].time = time],
             UNCHANGED <<ends, requests, now>>
      PROVE  TokensCounted'
  <2>1. LoggingIn' = LoggingIn
    <3>1. now' = now /\ DOMAIN ends \subseteq DOMAIN ends'
      BY <1>6
    <3>2. QED  BY <1>6, <3>1, GoesOn
  <2>2. UNCHANGED ends /\ requests' = requests
    BY <1>6
  <2>3. requests' <= MaxRequests
    BY <1>0, <2>2
  <2>4. QED  BY <1>1, <2>1, <2>2, <2>3
<1>7. ASSUME NEW t \in Threads, AllowLogin(t) PROVE TokensCounted'
  <2>1. CASE Finish(t)
    BY <1>5, <1>7, <2>1 DEF AllowLogin
  <2>2. CASE GoReading(t, "check")
    BY <1>6, <1>7, <2>2 DEF AllowLogin, GoReading, At, LoginSteps
  <2>3. QED  BY <1>7, <2>1, <2>2 DEF AllowLogin
<1>8. ASSUME NEW t \in Threads, CheckLock(t) PROVE TokensCounted'
  <2>1. CASE Finish(t)
    BY <1>5, <1>8, <2>1 DEF CheckLock, ghosts
  <2>2. ASSUME NEW outcome \in Verdicts, job' = [job EXCEPT ![t].pc = outcome]
        PROVE  TokensCounted'
    <3>1. job' = [job EXCEPT ![t].pc = outcome, ![t].time = job[t].time]
      BY <2>2 DEF IInv, JobsFit, Job
    <3>2. QED  BY <1>6, <1>8, <3>1 DEF CheckLock, At, Verdicts, LoginSteps, ghosts
  <2>3. QED  BY <1>8, <2>1, <2>2 DEF CheckLock
<1>9. ASSUME NEW t \in Threads, RecordFailure(t) \/ RefuseUnverified(t) \/ AllowPixel(t)
      PROVE  TokensCounted'
  BY <1>5, <1>9 DEF RecordFailure, RefuseUnverified, AllowPixel, ghosts
<1>10. ASSUME NEW t \in Threads, ClearFailures(t) PROVE TokensCounted'
  BY <1>6, <1>10 DEF ClearFailures, GoReading, At, LoginSteps
<1>11. ASSUME NEW t \in Threads, NEW token \in Tokens, StartPixel(t, token)
       PROVE  TokensCounted'
  <2>1. LoggingIn' = LoggingIn
    BY <1>11 DEF StartPixel, LoggingIn, At, LoginSteps, IInv, JobsFit
  <2>2. UNCHANGED ends /\ requests' = requests + 1 /\ requests' <= MaxRequests
    BY <1>0, <1>11 DEF StartPixel, ghosts
  <2>3. QED  BY <1>1, <2>1, <2>2
<1>12. ASSUME NEW t \in Threads, Validate(t) PROVE TokensCounted'
  <2>1. UNCHANGED <<ends, requests, now>>
    BY <1>12 DEF Validate, ghosts
  <2>2. CASE job[t].token \in Live(job[t].time)
    <3>1. LoggingIn' = LoggingIn
      <4> DEFINE j == [job[t] EXCEPT !.pc = "allow pixel", !.time = now,
                                     !.login = sessions[job[t].token].user]
      <4>1. job \in [Threads -> Job] /\ job[t].pc = "validate" /\ job' = [job EXCEPT ![t] = j]
        BY <1>12, <2>2 DEF Validate, At, IInv, JobsFit
      <4>2. j.pc = "allow pixel"
        BY <4>1 DEF Job
      <4> HIDE DEF j
      <4>3. job[t].pc \notin LoginSteps /\ job'[t].pc \notin LoginSteps
        BY <4>1, <4>2 DEF LoginSteps
      <4>4. \A u \in Threads \ {t} : job'[u] = job[u]
        BY <4>1
      <4>5. QED  BY <4>3, <4>4 DEF LoggingIn
    <3>2. QED  BY <1>0, <1>1, <2>1, <3>1
  <2>3. CASE job[t].token \notin Live(job[t].time)
    BY <1>5, <1>12, <2>1, <2>3 DEF Validate
  <2>4. QED  BY <2>2, <2>3
<1>13. ASSUME UNCHANGED <<job, ends, requests>> PROVE TokensCounted'
  BY <1>0, <1>1, <1>13 DEF LoggingIn
<1>14. QED
  BY <1>3, <1>4, <1>7, <1>8, <1>9, <1>10, <1>11, <1>12, <1>13 DEF Next, Tick, vars, ghosts

----------------------------------------------------------------------------
(* The theorems. *)

(* The invariant holds of a server that starts. *)
LEMMA InitIInv == Init => IInv
<1> SUFFICES ASSUME Init PROVE IInv
  OBVIOUS
<1>1. now = 1 /\ now \in Times
  BY DEF Init, Times
<1>2. DOMAIN ends = {} /\ DOMAIN sessions = {} /\ requests = 0
  BY DEF Init
<1>3. JobsFit
  <2>1. IdleJob \in Job
    BY DEF IdleJob, Job
  <2>2. JobFits(IdleJob)
    BY <1>1 DEF IdleJob, JobFits, LoginSteps
  <2>3. QED  BY <2>1, <2>2 DEF Init, JobsFit
<1>4. BucketsFit /\ LocksFit
  BY <1>1 DEF Init, BucketsFit, LocksFit, Limit
<1>5. SessionsFit
  BY <1>2 DEF SessionsFit
<1>6. TokensCounted
  <2>1. LoggingIn = {}
    BY DEF Init, LoggingIn, IdleJob, LoginSteps
  <2>2. Given = 0
    BY <1>2, FS_EmptySet DEF Given
  <2>3. QED  BY <1>2, <2>1, <2>2, FS_EmptySet DEF TokensCounted
<1>7. QED  BY <1>1, <1>3, <1>4, <1>5, <1>6 DEF IInv

(* The inductive invariant holds in every state. *)
THEOREM Invariance == Spec => []IInv
<1>1. IInv /\ [Next]_vars => IInv'
  <2>1. IInv /\ [Next]_vars => now' \in Times
    <3>1. Tick /\ now \in Times => now' \in Times
      BY DEF Tick, Times
    <3>2. [Next]_vars => Tick \/ now' = now
      BY DEF Next, vars, StartLogin, AllowLogin, CheckLock, RecordFailure,
             RefuseUnverified, ClearFailures, CreateSession, StartPixel, Validate,
             AllowPixel
    <3>3. QED  BY <3>1, <3>2 DEF IInv
  <2>2. QED  BY <2>1, JobStep, BucketStep, LockStep, SessionStep, TokenStep DEF IInv
<1>2. QED  BY InitIInv, <1>1, PTL DEF Spec

(* The types: no window counts more than the limit of its key, no login has*)
(* more failures than one short of a lock, no lock ends later than its     *)
(* length from now, and no token exists beyond the requests that were made *)
(* (RateLimiter.cpp:5-21, ApiController.cpp:111-122,                       *)
(* SessionManager.cpp:10-22).                                              *)
THEOREM TypeCorrect == Spec => []TypeOK
<1>1. IInv => TypeOK
  <2> SUFFICES ASSUME IInv PROVE TypeOK
    OBVIOUS
  <2>1. \A key \in Keys : buckets[key].start \in 0 .. now
                       /\ buckets[key].count \in 0 .. Limit(key)
    BY DEF IInv, BucketsFit, Times, Limit
  <2>2. \A login \in Logins : attempts[login].failures \in 0 .. (FailureLimit - 1)
                           /\ attempts[login].lockedUntil \in 0 .. (now + LockSeconds)
    BY DEF IInv, LocksFit, Times
  <2>3. DOMAIN sessions \subseteq 1 .. requests
    <3>1. /\ Given \in Nat /\ requests \in Nat /\ Given <= requests
          /\ DOMAIN ends = 1 .. Given
      BY FS_CardinalityType DEF IInv, TokensCounted
    <3>2. QED  BY <3>1 DEF IInv, SessionsFit
  <2>4. QED  BY <2>1, <2>2, <2>3 DEF IInv, TypeOK
<1>2. QED  BY Invariance, <1>1, PTL

(* Whoever is locked out has failed as often as it takes since the last    *)
(* success and the last lock, though the failures of other threads be      *)
(* recorded late (ApiController.cpp:111-122, 485-493).                     *)
THEOREM LocksAreEarned == Spec => LockIsEarned
<1>1. IInv /\ [Next]_vars =>
        [\A login \in Logins :
            attempts'[login].lockedUntil > attempts[login].lockedUntil
                => streak[login] + 1 >= FailureLimit]_vars
  <2> SUFFICES ASSUME IInv, [Next]_vars, NEW login \in Logins,
                      attempts'[login].lockedUntil > attempts[login].lockedUntil
               PROVE  streak[login] + 1 >= FailureLimit
    OBVIOUS
  <2>1. attempts[login].lockedUntil \in Nat
    BY DEF IInv, LocksFit
  <2>2. attempts' # attempts
    BY <2>1
  <2>3. ASSUME NEW t \in Threads, RecordFailure(t) PROVE streak[login] + 1 >= FailureLimit
    <3>1. job[t].login \in Logins
      BY <2>3 DEF RecordFailure, At, IInv, JobsFit, JobFits, LoginSteps
    <3>2. login = job[t].login
      BY <2>1, <2>3, <3>1, CountedFits
    <3>3. QED  BY <2>3, <3>1, <3>2, CountedFits
  <2>4. ASSUME NEW t \in Threads, ClearFailures(t) PROVE FALSE
    BY <2>1, <2>4 DEF ClearFailures, IInv, LocksFit
  <2>5. QED
    BY <2>2, <2>3, <2>4 DEF Next, vars, StartLogin, AllowLogin, CheckLock,
       RefuseUnverified, CreateSession, StartPixel, Validate, AllowPixel, Tick
<1>2. QED  BY Invariance, <1>1, PTL DEF Spec, LockIsEarned

(* A session lets its holder pass until its end and never longer, whichever*)
(* thread has pruned it (SessionManager.cpp:24-49).                        *)
THEOREM SessionsLast == Spec => SessionLasts
<1>1. IInv /\ [Next]_vars =>
        [\A t \in Threads : job[t].pc = "validate" /\ job'[t].pc # "validate" =>
            IF job'[t].pc = "allow pixel" THEN ends[job[t].token] > job[t].time
                                         ELSE ends[job[t].token] <= now]_vars
  <2> SUFFICES ASSUME IInv, [Next]_vars, NEW t \in Threads,
                      job[t].pc = "validate", job'[t].pc # "validate"
               PROVE  IF job'[t].pc = "allow pixel" THEN ends[job[t].token] > job[t].time
                                                   ELSE ends[job[t].token] <= now
    OBVIOUS
  <2>1. job \in [Threads -> Job] /\ job[t].token \in DOMAIN ends
    BY DEF IInv, JobsFit, JobFits
  <2>2. Validate(t)
    <3>1. ASSUME NEW u \in Threads, NEW j, job' = [job EXCEPT ![u] = j] PROVE u = t
      BY <2>1, <3>1
    <3>2. ASSUME NEW u \in Threads, Finish(u) PROVE u = t
      BY <3>1, <3>2 DEF Finish
    <3>3. ASSUME NEW u \in Threads, NEW pc, GoReading(u, pc) PROVE u = t
      BY <2>1, <3>3 DEF GoReading
    <3>4. ASSUME NEW u \in Threads, AllowLogin(u) PROVE FALSE
      BY <3>2, <3>3, <3>4 DEF AllowLogin, At
    <3>5. ASSUME NEW u \in Threads, CheckLock(u) PROVE FALSE
      <4>1. CASE Finish(u)
        BY <3>2, <3>5, <4>1 DEF CheckLock, At
      <4>2. CASE \E outcome \in Verdicts : job' = [job EXCEPT ![u].pc = outcome]
        BY <2>1, <3>5, <4>2 DEF CheckLock, At
      <4>3. QED  BY <3>5, <4>1, <4>2 DEF CheckLock
    <3>6. ASSUME NEW u \in Threads, Validate(u) PROVE u = t
      <4>1. CASE Finish(u)
        BY <3>2, <4>1
      <4>2. CASE job' = [job EXCEPT ![u].pc = "allow pixel", ![u].time = now,
                                    ![u].login = sessions[job[u].token].user]
        BY <2>1, <4>2
      <4>3. QED  BY <3>6, <4>1, <4>2 DEF Validate
    <3>7. ASSUME NEW u \in Threads, \/ RecordFailure(u) \/ RefuseUnverified(u)
                                    \/ CreateSession(u) \/ AllowPixel(u)
          PROVE  FALSE
      BY <3>2, <3>7 DEF RecordFailure, RefuseUnverified, CreateSession, AllowPixel, At
    <3>8. ASSUME NEW u \in Threads, ClearFailures(u) PROVE FALSE
      BY <3>3, <3>8 DEF ClearFailures, At
    <3>9. ASSUME NEW u \in Threads, NEW login \in Logins, StartLogin(u, login) PROVE FALSE
      BY <3>1, <3>9 DEF StartLogin, At
    <3>10. ASSUME NEW u \in Threads, NEW token \in Tokens, StartPixel(u, token) PROVE FALSE
      BY <3>1, <3>10 DEF StartPixel, At
    <3>11. ~UNCHANGED job
      OBVIOUS
    <3>12. QED
      BY <3>4, <3>5, <3>6, <3>7, <3>8, <3>9, <3>10, <3>11 DEF Next, vars, Tick
  <2>3. CASE job[t].token \in Live(job[t].time)
    <3>1. job'[t].pc = "allow pixel"
      <4>1. job' = [job EXCEPT ![t].pc = "allow pixel", ![t].time = now,
                               ![t].login = sessions[job[t].token].user]
        BY <2>2, <2>3 DEF Validate
      <4>2. QED  BY <2>1, <4>1 DEF Job
    <3>2. ends[job[t].token] > job[t].time
      BY <2>3 DEF Live, IInv, SessionsFit
    <3>3. QED  BY <3>1, <3>2
  <2>4. CASE job[t].token \notin Live(job[t].time)
    <3>1. job'[t].pc = "idle"
      BY <2>1, <2>2, <2>4 DEF Validate, Finish, IdleJob
    <3>2. ends[job[t].token] <= now
      BY <2>1, <2>4, PrunedHaveEnded
    <3>3. QED  BY <3>1, <3>2
  <2>5. QED  BY <2>3, <2>4
<1>2. QED  BY Invariance, <1>1, PTL DEF Spec, SessionLasts

----------------------------------------------------------------------------
(* What the limiter lets pass in a stretch of time. *)

Since(from)        == {time \in Times : from <= time}
Between(from, len) == {time \in Times : from <= time /\ time < from + len}

(* The stretch in which less than twice the limit passes. *)
RateStretch == Window + 1 - MaxDelay

(* What was let pass, by clock reading, fits the bucket of the key: nothing*)
(* is newer than the window of the bucket; what is not older than its start*)
(* was counted in it; and of what came before, as much as a stretch that   *)
(* meets the window can see was counted in the window before, whose first  *)
(* request is outside a stretch that reaches the start of this one.        *)
RateFits(counts, bucket, max) ==
    /\ bucket.count <= max
    /\ \A time \in Times : counts[time] > 0 =>
          bucket.start > 0 /\ time < bucket.start + Window
    /\ bucket.start > 0 =>
          /\ bucket.start \in Times /\ counts[bucket.start] > 0
          /\ SumOver(counts, Since(bucket.start)) <= bucket.count
          /\ SumOver(counts, Since(bucket.start + 1 - Window)) <= max - 1 + bucket.count
          /\ SumOver(counts, Since(bucket.start - Window)) <= max + bucket.count
    /\ \A from \in Times :
          SumOver(counts, Between(from, RateStretch)) <= 2 * max - 1

RatesFit ==
    /\ allowed \in [Keys -> [Times -> Nat]]
    /\ \A key \in Keys : RateFits(allowed[key], buckets[key], Limit(key))

(* No handler sits on a reading of the clock for longer than Tick allows. *)
ReadingsFresh ==
    \A t \in Threads : job[t].pc # "idle" =>
        job[t].time \in Times /\ now <= job[t].time + MaxDelay

(* A stretch of the clock is finite. *)
LEMMA StretchFinite ==
    ASSUME NEW S \in SUBSET Times  PROVE IsFiniteSet(S)
<1>1. IsFiniteSet(Times)
  BY FS_Interval DEF Times
<1>2. QED  BY <1>1, FS_Subset

(* One more at a time is one more in each stretch with that time. *)
LEMMA OneMoreCounted ==
    ASSUME NEW counts \in [Times -> Nat], NEW time \in Times, NEW S \in SUBSET Times
    PROVE  LET more == [counts EXCEPT ![time] = @ + 1]
           IN  /\ SumOver(counts, S) \in Nat
               /\ SumOver(more, S) = IF time \in S THEN SumOver(counts, S) + 1
                                                   ELSE SumOver(counts, S)
<1> DEFINE more == [counts EXCEPT ![time] = @ + 1]
<1>1. IsFiniteSet(S)
  BY StretchFinite
<1>2. \A x \in S : counts[x] \in Nat
  OBVIOUS
<1>3. SumOver(counts, S) \in Nat
  BY <1>1, <1>2, SumOverSubset
<1>4. (time \in S => more[time] = counts[time] + 1) /\ \A x \in S \ {time} : more[x] = counts[x]
  OBVIOUS
<1> HIDE DEF more
<1>5. SumOver(more, S) = IF time \in S THEN SumOver(counts, S) + 1 ELSE SumOver(counts, S)
  BY <1>1, <1>2, <1>4, SumOverOneMore
<1> USE DEF more
<1>6. QED  BY <1>3, <1>5

(* A stretch sees no more than a longer one, and less than that if it      *)
(* leaves out a time at which something passed.                            *)
LEMMA ShorterSeesLess ==
    ASSUME NEW counts \in [Times -> Nat], NEW S \in SUBSET Times, NEW U \in SUBSET S
    PROVE  /\ SumOver(counts, U) \in Nat /\ SumOver(counts, S) \in Nat
           /\ SumOver(counts, U) <= SumOver(counts, S)
           /\ \A x \in S \ U : counts[x] > 0 => SumOver(counts, U) <= SumOver(counts, S) - 1
<1>1. IsFiniteSet(S) /\ \A x \in S : counts[x] \in Nat
  BY StretchFinite
<1>2. /\ SumOver(counts, U) \in Nat /\ SumOver(counts, S) \in Nat
      /\ SumOver(counts, U) <= SumOver(counts, S)
  BY <1>1, SumOverSubset
<1>3. ASSUME NEW x \in S \ U, counts[x] > 0
      PROVE  SumOver(counts, U) <= SumOver(counts, S) - 1
  <2>1. SumOver(counts, S) = counts[x] + SumOver(counts, S \ {x})
    BY <1>1, SumOverRemove
  <2>2. SumOver(counts, U) <= SumOver(counts, S \ {x}) /\ SumOver(counts, S \ {x}) \in Nat
    <3>1. IsFiniteSet(S \ {x}) /\ U \in SUBSET (S \ {x}) /\ S \ {x} \in SUBSET (S \ {x})
      BY <1>1, <1>3, StretchFinite
    <3>2. QED  BY <1>1, <3>1, SumOverSubset
  <2>3. counts[x] \in Nat
    BY <1>3
  <2>4. QED  BY <1>2, <1>3, <2>1, <2>2, <2>3
<1>4. QED  BY <1>2, <1>3

(* One more request passes, in the window of the bucket. *)
LEMMA RateInWindow ==
    ASSUME NEW counts \in [Times -> Nat], NEW start \in Nat, NEW count \in Nat,
           NEW max \in Nat \ {0}, NEW time \in Times,
           RateFits(counts, [start |-> start, count |-> count], max),
           start # 0, time - start < Window, count < max, start <= time + MaxDelay
    PROVE  RateFits([counts EXCEPT ![time] = @ + 1],
                    [start |-> start, count |-> count + 1], max)
<1> DEFINE more == [counts EXCEPT ![time] = @ + 1]
<1>1. /\ \A x \in Times : counts[x] > 0 => x < start + Window
      /\ start \in Times /\ counts[start] > 0
      /\ SumOver(counts, Since(start)) <= count
      /\ SumOver(counts, Since(start + 1 - Window)) <= max - 1 + count
      /\ SumOver(counts, Since(start - Window)) <= max + count
      /\ \A from \in Times : SumOver(counts, Between(from, RateStretch)) <= 2 * max - 1
  BY DEF RateFits
<1>2. ASSUME NEW S \in SUBSET Times
      PROVE  /\ SumOver(counts, S) \in Nat /\ SumOver(more, S) \in Nat
             /\ SumOver(more, S) <= SumOver(counts, S) + 1
             /\ time \notin S => SumOver(more, S) = SumOver(counts, S)
  <2>1. /\ SumOver(counts, S) \in Nat
        /\ SumOver(more, S) = IF time \in S THEN SumOver(counts, S) + 1
                                            ELSE SumOver(counts, S)
    BY OneMoreCounted
  <2> HIDE DEF more
  <2>2. QED  BY <2>1
<1>3. \A from : Since(from) \in SUBSET Times /\ Between(from, RateStretch) \in SUBSET Times
  BY DEF Since, Between
<1>4. \A x \in Times : more[x] > 0 => x = time \/ counts[x] > 0
  OBVIOUS
<1>5. more[start] > 0
  BY <1>1
<1>6. time \in Nat /\ time >= 1 /\ Window \in Nat /\ MaxDelay \in Nat \ {0}
  BY DEF Times
<1> HIDE DEF more
<1>7. ASSUME NEW from
      PROVE  /\ SumOver(more, Since(from)) <= SumOver(counts, Since(from)) + 1
             /\ SumOver(more, Since(from)) \in Nat /\ SumOver(counts, Since(from)) \in Nat
  <2> DEFINE S == Since(from)
  <2>1. S \in SUBSET Times
    BY <1>3
  <2> HIDE DEF S
  <2>2. SumOver(more, S) <= SumOver(counts, S) + 1 /\ SumOver(more, S) \in Nat
        /\ SumOver(counts, S) \in Nat
    BY <1>2, <2>1
  <2>3. QED  BY <2>2 DEF S
<1>8. ASSUME NEW from \in Times
      PROVE  SumOver(more, Between(from, RateStretch)) <= 2 * max - 1
  <2> DEFINE S == Between(from, RateStretch)
  <2>1. S \in SUBSET Times /\ SumOver(counts, S) <= 2 * max - 1
    BY <1>1, <1>3
  <2>2. /\ SumOver(counts, S) \in Nat /\ SumOver(more, S) \in Nat
        /\ SumOver(more, S) <= SumOver(counts, S) + 1
        /\ time \notin S => SumOver(more, S) = SumOver(counts, S)
    <3> HIDE DEF S
    <3>1. QED  BY <1>2, <2>1
  <2>3. CASE time \notin S
    BY <2>1, <2>2, <2>3
  <2>4. CASE time \in S
    <3>1. from \in Nat /\ from <= time /\ time < from + Window + 1 - MaxDelay
      BY <1>6, <2>4 DEF Between, RateStretch, Times
    <3>2. start - Window <= from
      BY <1>6, <3>1
    <3>3. SumOver(counts, S) <= max + count - 1
      <4>1. CASE start + 1 - Window <= from
        <5>1. S \in SUBSET Since(start + 1 - Window)
          BY <1>6, <3>1, <4>1 DEF S, Between, Since, Times
        <5>2. SumOver(counts, S) <= SumOver(counts, Since(start + 1 - Window))
          BY <1>3, <5>1, ShorterSeesLess
        <5>3. QED  BY <1>1, <1>7, <2>2, <5>2
      <4>2. CASE from = start - Window
        <5>1. S \in SUBSET Since(start - Window)
          BY <1>6, <3>1, <4>2 DEF S, Between, Since, Times
        <5>2. start \in Since(start - Window) \ S
          BY <1>1, <1>6, <3>1, <4>2 DEF S, Between, Since, RateStretch
        <5>3. SumOver(counts, S) <= SumOver(counts, Since(start - Window)) - 1
          BY <1>1, <1>3, <5>1, <5>2, ShorterSeesLess
        <5>4. QED  BY <1>1, <1>7, <2>2, <5>3
      <4>3. QED  BY <1>6, <3>1, <3>2, <4>1, <4>2
    <3>4. QED  BY <2>2, <3>3
  <2>5. QED  BY <2>3, <2>4
<1>9. /\ SumOver(more, Since(start)) <= count + 1
      /\ SumOver(more, Since(start + 1 - Window)) <= max - 1 + (count + 1)
      /\ SumOver(more, Since(start - Window)) <= max + (count + 1)
  <2>1. SumOver(more, Since(start)) <= count + 1
    BY <1>1, <1>7
  <2>2. SumOver(more, Since(start + 1 - Window)) <= max - 1 + (count + 1)
    BY <1>1, <1>7
  <2>3. SumOver(more, Since(start - Window)) <= max + (count + 1)
    BY <1>1, <1>7
  <2>4. QED  BY <2>1, <2>2, <2>3
<1>10. \A x \in Times : more[x] > 0 => start > 0 /\ x < start + Window
  BY <1>1, <1>4, <1>6
<1>11. RateFits(more, [start |-> start, count |-> count + 1], max)
  BY <1>1, <1>5, <1>8, <1>9, <1>10 DEF RateFits
<1> USE DEF more
<1>12. QED  BY <1>11

(* One more request passes and opens a window, the first or the next. *)
LEMMA RateNewWindow ==
    ASSUME NEW counts \in [Times -> Nat], NEW start \in Nat, NEW count \in Nat,
           NEW max \in Nat \ {0}, NEW time \in Times,
           RateFits(counts, [start |-> start, count |-> count], max),
           start = 0 \/ time - start >= Window
    PROVE  RateFits([counts EXCEPT ![time] = @ + 1],
                    [start |-> time, count |-> 1], max)
<1> DEFINE more == [counts EXCEPT ![time] = @ + 1]
<1>1. /\ \A x \in Times : counts[x] > 0 => start > 0 /\ x < start + Window
      /\ count <= max
      /\ \A from \in Times : SumOver(counts, Between(from, RateStretch)) <= 2 * max - 1
  BY DEF RateFits
<1>2. ASSUME NEW S \in SUBSET Times
      PROVE  /\ SumOver(counts, S) \in Nat /\ SumOver(more, S) \in Nat
             /\ SumOver(more, S) <= SumOver(counts, S) + 1
             /\ time \notin S => SumOver(more, S) = SumOver(counts, S)
  <2>1. /\ SumOver(counts, S) \in Nat
        /\ SumOver(more, S) = IF time \in S THEN SumOver(counts, S) + 1
                                            ELSE SumOver(counts, S)
    BY OneMoreCounted
  <2> HIDE DEF more
  <2>2. QED  BY <2>1
<1>3. \A from : Since(from) \in SUBSET Times /\ Between(from, RateStretch) \in SUBSET Times
  BY DEF Since, Between
<1>4. time \in Nat /\ time >= 1 /\ Window \in Nat \ {0} /\ MaxDelay \in Nat \ {0}
  BY DEF Times
<1>5. \A x \in Times : counts[x] > 0 => x < time
  <2>1. \A x \in Times : x \in Nat
    BY DEF Times
  <2>2. QED  BY <1>1, <1>4, <2>1
<1>6. \A x \in Times : more[x] > 0 => x = time \/ counts[x] > 0
  OBVIOUS
<1>7. more[time] > 0
  OBVIOUS
<1> HIDE DEF more
<1>8. ASSUME NEW from
      PROVE  /\ SumOver(more, Since(from)) <= SumOver(counts, Since(from)) + 1
             /\ SumOver(more, Since(from)) \in Nat /\ SumOver(counts, Since(from)) \in Nat
  <2> DEFINE S == Since(from)
  <2>1. S \in SUBSET Times
    BY <1>3
  <2> HIDE DEF S
  <2>2. SumOver(more, S) <= SumOver(counts, S) + 1 /\ SumOver(more, S) \in Nat
        /\ SumOver(counts, S) \in Nat
    BY <1>2, <2>1
  <2>3. QED  BY <2>2 DEF S
<1>9. SumOver(counts, Since(time)) = 0
  <2>1. \A x \in Since(time) : counts[x] = 0
    <3>1. \A x \in Since(time) : x \in Times /\ x \in Nat /\ time <= x
      BY DEF Since, Times
    <3>2. QED  BY <1>4, <1>5, <3>1
  <2>2. QED  BY <1>3, <2>1, SumOverZero, StretchFinite
<1>10. /\ SumOver(counts, Since(time + 1 - Window)) <= max - 1
       /\ SumOver(counts, Since(time - Window)) <= max
  <2>1. CASE start = 0
    <3>1. \A from : \A x \in Since(from) : counts[x] = 0
      BY <1>1, <2>1 DEF Since
    <3>2. \A from : SumOver(counts, Since(from)) = 0
      BY <1>3, <3>1, SumOverZero, StretchFinite
    <3>3. QED  BY <3>2
  <2>2. CASE start # 0
    <3>1. start \in Times /\ counts[start] > 0 /\ SumOver(counts, Since(start)) <= count
      BY <2>2 DEF RateFits
    <3>2. start <= time - Window
      BY <1>4, <2>2
    <3>3. /\ Since(time - Window) \in SUBSET Since(start)
          /\ Since(time + 1 - Window) \in SUBSET Since(start)
          /\ start \in Since(start) \ Since(time + 1 - Window)
      BY <1>4, <3>1, <3>2 DEF Since, Times
    <3>4. SumOver(counts, Since(time - Window)) <= SumOver(counts, Since(start))
      BY <1>3, <3>3, ShorterSeesLess
    <3>5. SumOver(counts, Since(time + 1 - Window)) <= SumOver(counts, Since(start)) - 1
      BY <1>3, <3>1, <3>3, ShorterSeesLess
    <3>6. QED  BY <1>1, <1>8, <3>1, <3>4, <3>5
  <2>3. QED  BY <2>1, <2>2
<1>11. /\ SumOver(more, Since(time)) <= 1
       /\ SumOver(more, Since(time + 1 - Window)) <= max - 1 + 1
       /\ SumOver(more, Since(time - Window)) <= max + 1
  <2>1. SumOver(more, Since(time)) <= 1
    BY <1>8, <1>9
  <2>2. SumOver(more, Since(time + 1 - Window)) <= max - 1 + 1
    BY <1>8, <1>10
  <2>3. SumOver(more, Since(time - Window)) <= max + 1
    BY <1>8, <1>10
  <2>4. QED  BY <2>1, <2>2, <2>3
<1>12. ASSUME NEW from \in Times
       PROVE  SumOver(more, Between(from, RateStretch)) <= 2 * max - 1
  <2> DEFINE S == Between(from, RateStretch)
  <2>1. S \in SUBSET Times /\ SumOver(counts, S) <= 2 * max - 1
    BY <1>1, <1>3
  <2>2. /\ SumOver(counts, S) \in Nat /\ SumOver(more, S) \in Nat
        /\ SumOver(more, S) <= SumOver(counts, S) + 1
        /\ time \notin S => SumOver(more, S) = SumOver(counts, S)
    <3> HIDE DEF S
    <3>1. QED  BY <1>2, <2>1
  <2>3. CASE time \notin S
    BY <2>1, <2>2, <2>3
  <2>4. CASE time \in S
    <3>1. from \in Nat /\ from <= time /\ time < from + Window + 1 - MaxDelay
      BY <1>4, <2>4 DEF Between, RateStretch, Times
    <3>2. S \in SUBSET Since(time + 1 - Window)
      BY <1>4, <3>1 DEF S, Between, Since, Times
    <3>3. SumOver(counts, S) <= SumOver(counts, Since(time + 1 - Window))
      BY <1>3, <3>2, ShorterSeesLess
    <3>4. QED  BY <1>8, <1>10, <2>2, <3>3
  <2>5. QED  BY <2>3, <2>4
<1>13. \A x \in Times : more[x] > 0 => time > 0 /\ x < time + Window
  BY <1>4, <1>5, <1>6 DEF Times
<1>14. RateFits(more, [start |-> time, count |-> 1], max)
  BY <1>4, <1>7, <1>11, <1>12, <1>13 DEF RateFits
<1> USE DEF more
<1>15. QED  BY <1>14

(* A call of allow keeps what was let pass in line with the buckets. *)
LEMMA AllowCounts ==
    ASSUME IInv, RatesFit, ReadingsFresh, NEW t \in Threads, job[t].pc # "idle",
           NEW key \in Keys, Allow(t, key, Limit(key))
    PROVE  RatesFit'
<1> DEFINE time   == job[t].time
           start  == buckets[key].start
           count  == buckets[key].count
           counts == allowed[key]
           max    == Limit(key)
           more   == [counts EXCEPT ![time] = @ + 1]
<1>1. time \in Times /\ time \in Nat /\ now <= time + MaxDelay /\ now \in Nat
  BY DEF ReadingsFresh, Times, IInv
<1>2. /\ buckets[key] = [start |-> start, count |-> count]
      /\ start \in Nat /\ count \in Nat /\ start <= now
  BY DEF IInv, BucketsFit
<1>3. /\ counts \in [Times -> Nat] /\ max \in Nat \ {0}
      /\ RateFits(counts, [start |-> start, count |-> count], max)
  <2>1. RateFits(counts, buckets[key], max) /\ counts \in [Times -> Nat]
    BY DEF RatesFit
  <2>2. max \in Nat \ {0}
    BY DEF Limit
  <2>3. QED  BY <1>2, <2>1, <2>2
<1>4. ASSUME NEW b, RateFits(more, b, max),
             buckets' = [buckets EXCEPT ![key] = b],
             allowed' = [allowed EXCEPT ![key] = more]
      PROVE  RatesFit'
  <2>1. more \in [Times -> Nat]
    BY <1>1, <1>3
  <2> HIDE DEF more, max
  <2>2. ASSUME NEW other \in Keys
        PROVE  RateFits(allowed'[other], buckets'[other], Limit(other))
    <3>1. CASE other = key
      <4>1. allowed'[other] = more /\ buckets'[other] = b
        BY <1>4, <3>1 DEF RatesFit, IInv, BucketsFit
      <4>2. QED  BY <1>4, <3>1, <4>1 DEF max
    <3>2. CASE other # key
      <4>1. allowed'[other] = allowed[other] /\ buckets'[other] = buckets[other]
        BY <1>4, <3>2 DEF RatesFit, IInv, BucketsFit
      <4>2. QED  BY <4>1 DEF RatesFit
    <3>3. QED  BY <3>1, <3>2
  <2>3. allowed' \in [Keys -> [Times -> Nat]]
    BY <1>4, <2>1 DEF RatesFit
  <2>4. QED  BY <2>2, <2>3 DEF RatesFit
<1>5. CASE start = 0 \/ time - start >= Window
  <2>1. Bucket(key, time) = [start |-> time, count |-> 0]
    BY <1>5 DEF Bucket
  <2>2. /\ buckets' = [buckets EXCEPT ![key] = [start |-> time, count |-> 1]]
        /\ allowed' = [allowed EXCEPT ![key][time] = @ + 1]
    <3>1. ~(Bucket(key, time).count >= max)
      BY <1>3, <2>1
    <3>2. buckets' = [buckets EXCEPT ![key] = [Bucket(key, time) EXCEPT
                                                 !.count = Bucket(key, time).count + 1]]
      BY <3>1 DEF Allow
    <3>3. [Bucket(key, time) EXCEPT !.count = Bucket(key, time).count + 1]
             = [start |-> time, count |-> 1]
      BY <2>1
    <3>4. QED  BY <3>1, <3>2, <3>3 DEF Allow
  <2>3. RateFits(more, [start |-> time, count |-> 1], max)
    <3> HIDE DEF time, start, count, counts, max
    <3>1. QED  BY <1>1, <1>2, <1>3, <1>5, RateNewWindow
  <2>4. allowed' = [allowed EXCEPT ![key] = more]
    BY <2>2 DEF RatesFit
  <2> HIDE DEF more, max, time
  <2>5. QED  BY <1>4, <2>2, <2>3, <2>4
<1>6. CASE start # 0 /\ time - start < Window
  <2>1. Bucket(key, time) = buckets[key]
    BY <1>1, <1>2, <1>6 DEF Bucket
  <2>2. CASE count >= max
    <3>1. buckets' = [buckets EXCEPT ![key] = buckets[key]] /\ allowed' = allowed
      BY <2>1, <2>2 DEF Allow
    <3>2. buckets' = buckets
      BY <3>1 DEF IInv, BucketsFit
    <3>3. QED  BY <3>1, <3>2 DEF RatesFit
  <2>3. CASE ~(count >= max)
    <3>1. /\ buckets' = [buckets EXCEPT ![key] = [start |-> start, count |-> count + 1]]
          /\ allowed' = [allowed EXCEPT ![key][time] = @ + 1]
      <4>1. [buckets[key] EXCEPT !.count = buckets[key].count + 1]
               = [start |-> start, count |-> count + 1]
        BY <1>2
      <4>2. QED  BY <2>1, <2>3, <4>1 DEF Allow
    <3>2. RateFits(more, [start |-> start, count |-> count + 1], max)
      <4>1. count < max
        BY <1>2, <1>3, <2>3
      <4>2. start <= time + MaxDelay
        BY <1>1, <1>2
      <4> HIDE DEF time, start, count, counts, max
      <4>3. QED  BY <1>1, <1>2, <1>3, <1>6, <4>1, <4>2, RateInWindow
    <3>3. allowed' = [allowed EXCEPT ![key] = more]
      BY <3>1 DEF RatesFit
    <3> HIDE DEF more, max, time, start, count
    <3>4. QED  BY <1>4, <3>1, <3>2, <3>3
  <2>4. QED  BY <2>2, <2>3
<1>7. QED  BY <1>1, <1>2, <1>5, <1>6

(* Every step keeps what was let pass in line with the buckets. *)
LEMMA RateStep == IInv /\ RatesFit /\ ReadingsFresh /\ [Next]_vars => RatesFit'
<1> SUFFICES ASSUME IInv, RatesFit, ReadingsFresh, [Next]_vars PROVE RatesFit'
  OBVIOUS
<1>1. ASSUME UNCHANGED <<buckets, allowed>> PROVE RatesFit'
  BY <1>1 DEF RatesFit
<1>2. ASSUME NEW t \in Threads, AllowLogin(t) PROVE RatesFit'
  BY <1>2, AllowCounts DEF AllowLogin, At, Keys, Limit
<1>3. ASSUME NEW t \in Threads, AllowPixel(t) PROVE RatesFit'
  <2>1. job[t].login \in Logins
    BY <1>3 DEF AllowPixel, At, IInv, JobsFit, JobFits
  <2>2. Limit(job[t].login) = MaxPixels
    BY <2>1 DEF Limit
  <2>3. QED  BY <1>3, <2>1, <2>2, AllowCounts DEF AllowPixel, At, Keys
<1>4. QED
  BY <1>1, <1>2, <1>3
     DEF Next, vars, ghosts, StartLogin, CheckLock, RecordFailure, RefuseUnverified,
         ClearFailures, CreateSession, StartPixel, Validate, Tick

(* Every step leaves the readings of the clock that handlers hold fresh. *)
LEMMA FreshStep == IInv /\ ReadingsFresh /\ [Next]_vars => ReadingsFresh'
<1> SUFFICES ASSUME IInv, ReadingsFresh, [Next]_vars PROVE ReadingsFresh'
  OBVIOUS
<1>1. now \in Times /\ now \in Nat /\ job \in [Threads -> Job]
  BY DEF IInv, Times, JobsFit
<1>2. ASSUME NEW t \in Threads, NEW j, job' = [job EXCEPT ![t] = j], now' = now,
             j.pc # "idle" => j.time \in Times /\ now <= j.time + MaxDelay
      PROVE  ReadingsFresh'
  BY <1>1, <1>2 DEF ReadingsFresh
<1>3. now <= now + MaxDelay
  BY <1>1
<1>4. ASSUME NEW t \in Threads, Finish(t), now' = now PROVE ReadingsFresh'
  BY <1>2, <1>4 DEF Finish, IdleJob
<1>5. ASSUME NEW t \in Threads, NEW pc, GoReading(t, pc), now' = now PROVE ReadingsFresh'
  <2> DEFINE j == [job[t] EXCEPT !.pc = pc, !.time = now]
  <2>1. job' = [job EXCEPT ![t] = j]
    BY <1>1, <1>5 DEF GoReading
  <2>2. j.time = now
    BY <1>1 DEF Job
  <2> HIDE DEF j
  <2>3. QED  BY <1>1, <1>2, <1>3, <1>5, <2>1, <2>2
<1>6. ASSUME NEW t \in Threads, NEW pc, job[t].pc # "idle", now' = now,
             job' = [job EXCEPT ![t].pc = pc]
      PROVE  ReadingsFresh'
  <2> DEFINE j == [job[t] EXCEPT !.pc = pc]
  <2>1. job' = [job EXCEPT ![t] = j]
    BY <1>1, <1>6
  <2>2. j.time = job[t].time
    BY <1>1 DEF Job
  <2> HIDE DEF j
  <2>3. QED  BY <1>2, <1>6, <2>1, <2>2 DEF ReadingsFresh
<1>7. ASSUME NEW t \in Threads, NEW login \in Logins, StartLogin(t, login)
      PROVE  ReadingsFresh'
  <2> DEFINE j == [pc |-> "allow login", login |-> login, token |-> 0, time |-> now]
  <2>1. j.time = now /\ job' = [job EXCEPT ![t] = j] /\ now' = now
    BY <1>7 DEF StartLogin
  <2> HIDE DEF j
  <2>2. QED  BY <1>1, <1>2, <1>3, <2>1
<1>8. ASSUME NEW t \in Threads, NEW token \in Tokens, StartPixel(t, token)
      PROVE  ReadingsFresh'
  <2> DEFINE j == [pc |-> "validate", login |-> "nobody", token |-> token, time |-> now]
  <2>1. j.time = now /\ job' = [job EXCEPT ![t] = j] /\ now' = now
    BY <1>8 DEF StartPixel
  <2> HIDE DEF j
  <2>2. QED  BY <1>1, <1>2, <1>3, <2>1
<1>9. ASSUME NEW t \in Threads, AllowLogin(t) PROVE ReadingsFresh'
  BY <1>4, <1>5, <1>9 DEF AllowLogin
<1>10. ASSUME NEW t \in Threads, CheckLock(t) PROVE ReadingsFresh'
  BY <1>4, <1>6, <1>10 DEF CheckLock, At
<1>11. ASSUME NEW t \in Threads, ClearFailures(t) PROVE ReadingsFresh'
  BY <1>5, <1>11 DEF ClearFailures
<1>12. ASSUME NEW t \in Threads, Validate(t) PROVE ReadingsFresh'
  <2>1. CASE Finish(t)
    BY <1>4, <1>12, <2>1 DEF Validate
  <2>2. CASE job' = [job EXCEPT ![t].pc = "allow pixel", ![t].time = now,
                                ![t].login = sessions[job[t].token].user]
    <3> DEFINE j == [job[t] EXCEPT !.pc = "allow pixel", !.time = now,
                                   !.login = sessions[job[t].token].user]
    <3>1. job' = [job EXCEPT ![t] = j]
      BY <1>1, <2>2
    <3>2. j.time = now
      BY <1>1 DEF Job
    <3>3. now' = now
      BY <1>12 DEF Validate
    <3> HIDE DEF j
    <3>4. QED  BY <1>1, <1>2, <1>3, <3>1, <3>2, <3>3
  <2>3. QED  BY <1>12, <2>1, <2>2 DEF Validate
<1>13. CASE Tick
  <2>1. ASSUME NEW t \in Threads, job[t].pc # "idle"
        PROVE  job[t].time \in Times /\ now' <= job[t].time + MaxDelay
    <3>1. job[t].time \in Times /\ job[t].time \in Nat
      BY <2>1 DEF ReadingsFresh, Times
    <3>2. now < job[t].time + MaxDelay /\ now' = now + 1
      BY <1>13, <2>1 DEF Tick, At
    <3>3. QED  BY <1>1, <3>1, <3>2
  <2>2. job' = job
    BY <1>13 DEF Tick
  <2>3. QED  BY <2>1, <2>2 DEF ReadingsFresh
<1>14. CASE UNCHANGED vars
  BY <1>14 DEF vars, ReadingsFresh
<1>15. QED
  BY <1>4, <1>7, <1>8, <1>9, <1>10, <1>11, <1>12, <1>13, <1>14
     DEF Next, RecordFailure, RefuseUnverified, CreateSession, AllowPixel

----------------------------------------------------------------------------
(* The failures in a stretch of time. *)

(* A stretch this long does not reach from a lock to the end of that lock, *)
(* nor a check that passed before the lock to one that passed after it.    *)
LockStretch == LockSeconds - MaxDelay

(* The threads whose check of the lock passed at a time in the stretch, and*)
(* which have yet to record the failure.                                   *)
Racers(login, from) ==
    {t \in Threads : /\ job[t].pc = "failure" /\ job[t].login = login
                     /\ from <= job[t].time /\ job[t].time < from + LockStretch}

(* Before the end `until' of the last lock, or not within a stretch of it. *)
Apart(time, until) == until <= time \/ time + LockStretch <= until

(* Failures are recorded, or about to be, with times before the lock or    *)
(* after its end; those after its end are what the count of failures says; *)
(* and before it they and the racers are bounded in every stretch.         *)
LoginFits(login) ==
    LET until == attempts[login].lockedUntil IN
    /\ \A time \in Times : failed[login][time] > 0 => time <= now /\ Apart(time, until)
    /\ \A t \in Threads : job[t].pc = "failure" /\ job[t].login = login
          => Apart(job[t].time, until)
    /\ SumOver(failed[login], Since(until)) <= attempts[login].failures
    /\ \A from \in Times : from + LockStretch <= until =>
          SumOver(failed[login], Between(from, LockStretch))
              + Cardinality(Racers(login, from))
              <= FailureLimit + Cardinality(Threads) - 1

FailuresFit ==
    /\ failed \in [Logins -> [Times -> Nat]]
    /\ \A login \in Logins : LoginFits(login)

(* The racers of a stretch are some of the threads. *)
LEMMA RacersFinite ==
    ASSUME NEW login, NEW from
    PROVE  /\ IsFiniteSet(Racers(login, from))
           /\ Cardinality(Racers(login, from)) \in Nat /\ Cardinality(Threads) \in Nat
           /\ Cardinality(Racers(login, from)) <= Cardinality(Threads)
<1>1. Racers(login, from) \in SUBSET Threads
  BY DEF Racers
<1>2. QED  BY <1>1, FS_Subset, FS_CardinalityType

(* A stretch that reaches the end of the lock sees only the failures that  *)
(* count for the next one.                                                 *)
LEMMA PastLock ==
    ASSUME IInv, FailuresFit, NEW login \in Logins, NEW from \in Times,
           from + LockStretch > attempts[login].lockedUntil
    PROVE  SumOver(failed[login], Between(from, LockStretch)) <= attempts[login].failures
<1> DEFINE counts == failed[login]
           until  == attempts[login].lockedUntil
           S      == Between(from, LockStretch)
           late   == {time \in S : until <= time}
<1>1. counts \in [Times -> Nat] /\ S \in SUBSET Times /\ late \in SUBSET S
  BY DEF FailuresFit, LoginFits, Between
<1>2. until \in Nat /\ from \in Nat /\ LockStretch \in Nat
  BY DEF IInv, LocksFit, Times, LockStretch
<1>3. \A time \in S \ late : counts[time] = 0
  <2> SUFFICES ASSUME NEW time \in S \ late PROVE counts[time] = 0
    OBVIOUS
  <2>1. time \in Times /\ time \in Nat /\ from <= time /\ ~(until <= time)
    BY DEF Between, Times
  <2>2. ~Apart(time, until)
    BY <1>2, <2>1 DEF Apart
  <2>3. ~(counts[time] > 0) /\ counts[time] \in Nat
    BY <1>1, <2>1, <2>2 DEF FailuresFit, LoginFits
  <2>4. QED  BY <2>3
<1>4. SumOver(counts, S) = SumOver(counts, late)
  <2>1. IsFiniteSet(S) /\ \A x \in S : counts[x] \in Int
    BY <1>1, StretchFinite
  <2> HIDE DEF S, late, counts
  <2>2. QED  BY <1>1, <1>3, <2>1, SumOverNonZero
<1>5. SumOver(counts, late) <= SumOver(counts, Since(until))
  <2>1. late \in SUBSET Since(until) /\ Since(until) \in SUBSET Times
    BY DEF Between, Since
  <2>2. QED  BY <1>1, <2>1, ShorterSeesLess
<1>6. SumOver(counts, Since(until)) <= attempts[login].failures
  BY DEF FailuresFit, LoginFits
<1>7. /\ SumOver(counts, late) \in Nat /\ SumOver(counts, Since(until)) \in Nat
      /\ attempts[login].failures \in Nat
  <2>1. attempts[login].failures \in Nat
    BY DEF IInv, LocksFit
  <2>2. late \in SUBSET Times /\ Since(until) \in SUBSET Times
    BY <1>1 DEF Since
  <2>3. QED  BY <1>1, <2>1, <2>2, ShorterSeesLess
<1> HIDE DEF late, S, counts, until
<1>8. SumOver(counts, S) <= attempts[login].failures
  BY <1>4, <1>5, <1>6, <1>7
<1>9. QED  BY <1>8 DEF S, counts

(* When the failures and the lock of a login stay as they are, a thread may*)
(* only have passed the check that the lock has ended.                     *)
LEMMA SameFailures ==
    ASSUME IInv, FailuresFit, NEW login \in Logins,
           failed'[login] = failed[login], attempts'[login] = attempts[login],
           now' \in Nat, now <= now',
           \A u \in Threads : job'[u].pc = "failure" /\ job'[u].login = login =>
              \/ job[u].pc = "failure" /\ job'[u] = job[u]
              \/ /\ job'[u].time \in Nat
                 /\ attempts[login].lockedUntil <= job'[u].time
    PROVE  LoginFits(login)'
<1> DEFINE until == attempts[login].lockedUntil
<1>1. now \in Nat /\ LockStretch \in Nat \ {0} /\ until \in Nat
  BY DEF IInv, Times, LockStretch, LocksFit
<1>2. ASSUME NEW time \in Times, failed[login][time] > 0
      PROVE  time <= now' /\ Apart(time, until)
  <2>1. time \in Nat
    BY DEF Times
  <2>2. time <= now /\ Apart(time, until)
    BY <1>2 DEF FailuresFit, LoginFits
  <2>3. QED  BY <1>1, <2>1, <2>2
<1>3. ASSUME NEW t \in Threads, job'[t].pc = "failure", job'[t].login = login
      PROVE  Apart(job'[t].time, until)
  <2>1. CASE job[t].pc = "failure" /\ job'[t] = job[t]
    BY <1>3, <2>1 DEF FailuresFit, LoginFits
  <2>2. CASE until <= job'[t].time
    BY <2>2 DEF Apart
  <2>3. QED  BY <1>3, <2>1, <2>2
<1>4. ASSUME NEW from \in Times, from + LockStretch <= until
      PROVE  SumOver(failed[login], Between(from, LockStretch))
                 + Cardinality(Racers(login, from)')
                 <= FailureLimit + Cardinality(Threads) - 1
  <2> DEFINE sum == SumOver(failed[login], Between(from, LockStretch))
             R   == Racers(login, from)
             Q   == Racers(login, from)'
  <2>1. Q \in SUBSET R
    <3> SUFFICES ASSUME NEW t \in Q PROVE t \in R
      OBVIOUS
    <3>1. /\ t \in Threads /\ job'[t].pc = "failure" /\ job'[t].login = login
          /\ from <= job'[t].time /\ job'[t].time < from + LockStretch
      BY DEF Racers
    <3>2. CASE job[t].pc = "failure" /\ job'[t] = job[t]
      BY <3>1, <3>2 DEF Racers
    <3>3. CASE job'[t].time \in Nat /\ until <= job'[t].time
      BY <1>1, <1>4, <3>1, <3>3 DEF Times
    <3>4. QED  BY <3>1, <3>2, <3>3
  <2>2. Cardinality(Q) <= Cardinality(R) /\ Cardinality(Q) \in Nat
    <3>1. IsFiniteSet(R)
      BY RacersFinite
    <3> HIDE DEF R, Q
    <3>2. QED  BY <2>1, <3>1, FS_Subset, FS_CardinalityType
  <2>3. sum + Cardinality(R) <= FailureLimit + Cardinality(Threads) - 1
    BY <1>4 DEF FailuresFit, LoginFits
  <2>4. sum \in Nat /\ Cardinality(R) \in Nat /\ Cardinality(Threads) \in Nat
    <3>1. failed[login] \in [Times -> Nat] /\ Between(from, LockStretch) \in SUBSET Times
      BY DEF FailuresFit, Between
    <3>2. QED  BY <3>1, RacersFinite, ShorterSeesLess
  <2> HIDE DEF sum, R, Q
  <2>5. sum + Cardinality(Q) <= FailureLimit + Cardinality(Threads) - 1
    BY <2>2, <2>3, <2>4
  <2>6. QED  BY <2>5 DEF sum, Q
<1>5. SumOver(failed[login], Since(until)) <= attempts[login].failures
  BY DEF FailuresFit, LoginFits
<1> HIDE DEF until
<1>6. QED
  BY <1>2, <1>3, <1>4, <1>5 DEF LoginFits, Since, Between, LockStretch, Apart, Times, until

(* A failure that is recorded while the lock runs, or on the way to one. *)
LEMMA FailureCounted ==
    ASSUME IInv, FailuresFit, ReadingsFresh, NEW t \in Threads, job[t].pc = "failure",
           NEW login \in Logins, job[t].login = login,
           failed' = [failed EXCEPT ![login][job[t].time] = @ + 1],
           job' = [job EXCEPT ![t] = IdleJob], now' = now,
           attempts'[login].lockedUntil = attempts[login].lockedUntil,
           attempts'[login].failures =
              IF attempts[login].lockedUntil > job[t].time THEN attempts[login].failures
              ELSE attempts[login].failures + 1
    PROVE  LoginFits(login)'
<1> DEFINE until  == attempts[login].lockedUntil
           time   == job[t].time
           counts == failed[login]
           more   == [counts EXCEPT ![time] = @ + 1]
<1>1. /\ now \in Nat /\ LockStretch \in Nat \ {0} /\ until \in Nat
      /\ time \in Times /\ time \in Nat /\ time <= now
      /\ attempts[login].failures \in Nat /\ counts \in [Times -> Nat]
  BY ReadingsPast DEF IInv, Times, LockStretch, LocksFit, ReadingsFresh, FailuresFit
<1>2. failed'[login] = more
  BY <1>1 DEF FailuresFit
<1>3. Apart(time, until)
  BY DEF FailuresFit, LoginFits
<1>4. \A x \in Times : more[x] > 0 => x <= now /\ Apart(x, until)
  <2>1. \A x \in Times : more[x] > 0 => x = time \/ counts[x] > 0
    BY <1>1
  <2>2. QED  BY <1>1, <1>3, <2>1 DEF FailuresFit, LoginFits
<1>5. \A u \in Threads : job'[u].pc = "failure" => u # t /\ job'[u] = job[u]
  BY DEF IdleJob, IInv, JobsFit
<1>6. ASSUME NEW S \in SUBSET Times
      PROVE  /\ SumOver(counts, S) \in Nat
             /\ SumOver(more, S) = IF time \in S THEN SumOver(counts, S) + 1
                                                 ELSE SumOver(counts, S)
  BY <1>1, OneMoreCounted
<1>7. SumOver(more, Since(until)) <= attempts'[login].failures
  <2> DEFINE S == Since(until)
  <2>1. S \in SUBSET Times /\ SumOver(counts, S) <= attempts[login].failures
    BY DEF FailuresFit, LoginFits, Since
  <2>2. time \in S <=> ~(until > time)
    BY <1>1 DEF Since
  <2> HIDE DEF S, more, counts, time, until
  <2>3. /\ SumOver(counts, S) \in Nat
        /\ SumOver(more, S) = IF time \in S THEN SumOver(counts, S) + 1
                                            ELSE SumOver(counts, S)
    BY <1>6, <2>1
  <2>4. SumOver(more, S) <= attempts'[login].failures
    BY <1>1, <2>1, <2>2, <2>3 DEF until, time
  <2>5. QED  BY <2>4 DEF S
<1>8. ASSUME NEW from \in Times, from + LockStretch <= until
      PROVE  SumOver(more, Between(from, LockStretch)) + Cardinality(Racers(login, from)')
                 <= FailureLimit + Cardinality(Threads) - 1
  <2> DEFINE S == Between(from, LockStretch)
             R == Racers(login, from)
             Q == Racers(login, from)'
  <2>1. Q = R \ {t}
    BY <1>5 DEF Racers, IInv, JobsFit
  <2>2. t \in R <=> time \in S
    BY <1>1 DEF Racers, Between
  <2>3. SumOver(counts, S) + Cardinality(R) <= FailureLimit + Cardinality(Threads) - 1
    BY <1>8 DEF FailuresFit, LoginFits
  <2>4. /\ IsFiniteSet(R) /\ Cardinality(R) \in Nat /\ Cardinality(Threads) \in Nat
        /\ S \in SUBSET Times
    BY RacersFinite DEF Between
  <2> HIDE DEF S, R, Q, more, counts, time
  <2>5. Cardinality(Q) = IF t \in R THEN Cardinality(R) - 1 ELSE Cardinality(R)
    BY <2>1, <2>4, FS_RemoveElement
  <2>6. /\ SumOver(counts, S) \in Nat
        /\ SumOver(more, S) = IF time \in S THEN SumOver(counts, S) + 1
                                            ELSE SumOver(counts, S)
    BY <1>6, <2>4
  <2>7. SumOver(more, S) + Cardinality(Q) = SumOver(counts, S) + Cardinality(R)
    BY <2>2, <2>4, <2>5, <2>6
  <2>8. SumOver(more, S) + Cardinality(Q) <= FailureLimit + Cardinality(Threads) - 1
    BY <2>3, <2>7
  <2>9. QED  BY <2>8 DEF S, Q
<1>9. \A u \in Threads : job'[u].pc = "failure" /\ job'[u].login = login
         => Apart(job'[u].time, until)
  BY <1>5 DEF FailuresFit, LoginFits
<1> HIDE DEF until, more
<1>10. QED
  BY <1>2, <1>4, <1>7, <1>8, <1>9
     DEF LoginFits, Since, Between, LockStretch, Apart, Times, until

(* The failure that locks: what can be seen together with it came since the*)
(* lock before it had ended, but for the threads that are past their check.*)
LEMMA FailureLocks ==
    ASSUME IInv, FailuresFit, ReadingsFresh, NEW t \in Threads, job[t].pc = "failure",
           NEW login \in Logins, job[t].login = login,
           failed' = [failed EXCEPT ![login][job[t].time] = @ + 1],
           job' = [job EXCEPT ![t] = IdleJob], now' = now,
           attempts[login].lockedUntil <= job[t].time,
           attempts'[login] = [failures |-> 0, lockedUntil |-> job[t].time + LockSeconds]
    PROVE  LoginFits(login)'
<1> DEFINE until  == attempts[login].lockedUntil
           time   == job[t].time
           ending == time + LockSeconds
           counts == failed[login]
           more   == [counts EXCEPT ![time] = @ + 1]
<1>1. /\ now \in Nat /\ LockStretch \in Nat \ {0} /\ until \in Nat
      /\ time \in Times /\ time \in Nat /\ time <= now /\ now <= time + MaxDelay
      /\ attempts[login].failures \in 0 .. (FailureLimit - 1) /\ counts \in [Times -> Nat]
  <2>1. time \in Times /\ now <= time + MaxDelay
    BY DEF ReadingsFresh
  <2>2. now \in Nat /\ LockStretch \in Nat \ {0} /\ time \in Nat /\ time <= now
    BY ReadingsPast DEF IInv, Times, LockStretch
  <2>3. until \in Nat /\ attempts[login].failures \in 0 .. (FailureLimit - 1)
    BY DEF IInv, LocksFit
  <2>4. counts \in [Times -> Nat]
    BY DEF FailuresFit
  <2>5. QED  BY <2>1, <2>2, <2>3, <2>4
<1>2. failed'[login] = more
  BY <1>1 DEF FailuresFit
<1>3. ASSUME NEW x \in Nat, x <= now PROVE Apart(x, ending)
  BY <1>1, <1>3 DEF Apart, LockStretch
<1>4. \A x \in Times : more[x] > 0 => x \in Nat /\ x <= now
  <2>1. \A x \in Times : more[x] > 0 => x = time \/ counts[x] > 0
    BY <1>1
  <2>2. \A x \in Times : x \in Nat
    BY DEF Times
  <2>3. QED  BY <1>1, <2>1, <2>2 DEF FailuresFit, LoginFits
<1>5. \A u \in Threads : job'[u].pc = "failure" => u # t /\ job'[u] = job[u]
  BY DEF IdleJob, IInv, JobsFit
<1>6. ASSUME NEW u \in Threads, job'[u].pc = "failure" PROVE Apart(job'[u].time, ending)
  BY <1>3, <1>5, <1>6, ReadingsPast
<1>7. SumOver(more, Since(ending)) <= 0
  <2>1. Since(ending) \in SUBSET Times /\ more \in [Times -> Nat]
    BY <1>1 DEF Since
  <2>2. \A x \in Since(ending) : more[x] = 0
    <3> SUFFICES ASSUME NEW x \in Since(ending) PROVE ~(more[x] > 0)
      BY <2>1
    <3>1. x \in Times /\ x \in Nat /\ ending <= x
      BY DEF Since, Times
    <3>2. ~(x <= now)
      BY <1>1, <3>1
    <3>3. QED  BY <1>4, <3>1, <3>2
  <2> HIDE DEF more, ending
  <2>3. SumOver(more, Since(ending)) = 0
    BY <2>1, <2>2, SumOverZero, StretchFinite
  <2>4. QED  BY <2>3
<1>8. ASSUME NEW from \in Times, from + LockStretch <= ending
      PROVE  SumOver(more, Between(from, LockStretch)) + Cardinality(Racers(login, from)')
                 <= FailureLimit + Cardinality(Threads) - 1
  <2> DEFINE S == Between(from, LockStretch)
             R == Racers(login, from)
             Q == Racers(login, from)'
  <2>1. Q \in SUBSET R /\ Q \in SUBSET (Threads \ {t})
    BY <1>5 DEF Racers, IInv, JobsFit
  <2>2. /\ SumOver(counts, S) \in Nat
        /\ SumOver(more, S) = IF time \in S THEN SumOver(counts, S) + 1
                                            ELSE SumOver(counts, S)
    <3>1. S \in SUBSET Times
      BY DEF Between
    <3>2. QED  BY <1>1, <3>1, OneMoreCounted
  <2>3. /\ IsFiniteSet(R) /\ Cardinality(R) \in Nat /\ Cardinality(Threads) \in Nat
        /\ IsFiniteSet(Threads \ {t}) /\ Cardinality(Threads \ {t}) = Cardinality(Threads) - 1
    BY RacersFinite, FS_RemoveElement
  <2>4. /\ Cardinality(Q) \in Nat /\ Cardinality(Q) <= Cardinality(R)
        /\ Cardinality(Q) <= Cardinality(Threads) - 1
    <3> DEFINE others == Threads \ {t}
    <3> HIDE DEF R, Q, others
    <3>1. Q \in SUBSET others /\ IsFiniteSet(others) /\ Cardinality(others) = Cardinality(Threads) - 1
      BY <2>1, <2>3 DEF others
    <3>2. Cardinality(Q) <= Cardinality(others) /\ IsFiniteSet(Q)
      BY <3>1, FS_Subset
    <3>3. Cardinality(Q) <= Cardinality(R)
      BY <2>1, <2>3, FS_Subset
    <3>4. QED  BY <3>1, <3>2, <3>3, FS_CardinalityType
  <2>5. CASE from + LockStretch <= until
    <3>1. time \notin S
      <4>1. from \in Nat /\ until <= time
        BY DEF Times
      <4> HIDE DEF time, until
      <4>2. ~(time < from + LockStretch)
        BY <1>1, <2>5, <4>1
      <4>3. QED  BY <4>2 DEF Between
    <3>2. SumOver(counts, S) + Cardinality(R) <= FailureLimit + Cardinality(Threads) - 1
      BY <2>5 DEF FailuresFit, LoginFits
    <3> HIDE DEF S, R, Q, more, counts
    <3>3. SumOver(more, S) + Cardinality(Q) <= FailureLimit + Cardinality(Threads) - 1
      BY <2>2, <2>3, <2>4, <3>1, <3>2
    <3>4. QED  BY <3>3 DEF S, Q
  <2>6. CASE ~(from + LockStretch <= until)
    <3>1. SumOver(counts, S) <= attempts[login].failures
      <4>1. from \in Nat
        BY DEF Times
      <4>2. from + LockStretch > until
        BY <1>1, <2>6, <4>1
      <4>3. QED  BY <4>2, PastLock
    <3> HIDE DEF S, R, Q, more, counts
    <3>2. SumOver(more, S) + Cardinality(Q) <= FailureLimit + Cardinality(Threads) - 1
      BY <1>1, <2>2, <2>3, <2>4, <3>1
    <3>3. QED  BY <3>2 DEF S, Q
  <2>7. QED  BY <2>5, <2>6
<1>9. attempts'[login].failures = 0 /\ attempts'[login].lockedUntil = ending
  OBVIOUS
<1>10. \A x \in Times : more[x] > 0 => x <= now /\ Apart(x, ending)
  BY <1>3, <1>4
<1> HIDE DEF ending, more
<1>11. QED
  BY <1>2, <1>6, <1>7, <1>8, <1>9, <1>10
     DEF LoginFits, Since, Between, LockStretch, Apart, Times

(* Every step keeps the failures in line with the locks. *)
LEMMA FailureStep == IInv /\ FailuresFit /\ ReadingsFresh /\ [Next]_vars => FailuresFit'
<1> SUFFICES ASSUME IInv, FailuresFit, ReadingsFresh, [Next]_vars PROVE FailuresFit'
  OBVIOUS
<1> DEFINE NoneArrives == \A u \in Threads : job'[u].pc = "failure"
                             => job[u].pc = "failure" /\ job'[u] = job[u]
<1>1. now \in Nat /\ job \in [Threads -> Job] /\ failed \in [Logins -> [Times -> Nat]]
      /\ attempts \in [Logins -> [failures : 0 .. (FailureLimit - 1), lockedUntil : Nat]]
  BY DEF IInv, Times, JobsFit, FailuresFit, LocksFit
<1>2. ASSUME failed' = failed, attempts' = attempts, now' \in Nat, now <= now',
             \A u \in Threads : job'[u].pc = "failure" =>
                \/ job[u].pc = "failure" /\ job'[u] = job[u]
                \/ /\ job'[u].time \in Nat
                   /\ attempts[job'[u].login].lockedUntil <= job'[u].time
      PROVE  FailuresFit'
  <2>1. ASSUME NEW login \in Logins PROVE LoginFits(login)'
    BY <1>2, SameFailures
  <2>2. QED  BY <1>1, <1>2, <2>1 DEF FailuresFit
<1>3. ASSUME failed' = failed, attempts' = attempts, now' = now, NoneArrives
      PROVE  FailuresFit'
  BY <1>1, <1>2, <1>3
<1>4. ASSUME NEW t \in Threads, NEW j, job' = [job EXCEPT ![t] = j], j.pc # "failure"
      PROVE  NoneArrives
  BY <1>1, <1>4
<1>5. ASSUME NEW t \in Threads, Finish(t) PROVE NoneArrives
  <2> HIDE DEF NoneArrives
  <2>1. job' = [job EXCEPT ![t] = IdleJob] /\ IdleJob.pc # "failure"
    BY <1>5 DEF Finish, IdleJob
  <2>2. QED  BY <1>4, <2>1
<1>6. ASSUME NEW t \in Threads, NEW pc \in {"check", "create"}, GoReading(t, pc)
      PROVE  NoneArrives
  <2> DEFINE j == [job[t] EXCEPT !.pc = pc, !.time = now]
  <2>1. job' = [job EXCEPT ![t] = j]
    BY <1>6 DEF GoReading
  <2>2. j.pc # "failure"
    <3>1. job[t] \in Job
      BY <1>1
    <3>2. j.pc = pc
      BY <3>1 DEF Job
    <3>3. QED  BY <3>2
  <2> HIDE DEF j
  <2>3. QED  BY <1>4, <2>1, <2>2
<1> HIDE DEF NoneArrives
<1>7. ASSUME NEW t \in Threads, NEW login \in Logins, StartLogin(t, login)
      PROVE  FailuresFit'
  <2> DEFINE j == [pc |-> "allow login", login |-> login, token |-> 0, time |-> now]
  <2>1. j.pc # "failure" /\ job' = [job EXCEPT ![t] = j]
    BY <1>7 DEF StartLogin
  <2>2. failed' = failed /\ attempts' = attempts /\ now' = now
    BY <1>7 DEF StartLogin, ghosts
  <2> HIDE DEF j
  <2>3. QED  BY <1>4, <1>3, <2>1, <2>2
<1>8. ASSUME NEW t \in Threads, AllowLogin(t) PROVE FailuresFit'
  <2>1. failed' = failed /\ attempts' = attempts /\ now' = now
    BY <1>8 DEF AllowLogin
  <2>2. Finish(t) \/ GoReading(t, "check")
    BY <1>8 DEF AllowLogin
  <2>3. QED  BY <1>5, <1>6, <1>3, <2>1, <2>2
<1>9. ASSUME NEW t \in Threads, CheckLock(t) PROVE FailuresFit'
  <2>1. failed' = failed /\ attempts' = attempts /\ now' = now
    BY <1>9 DEF CheckLock, ghosts
  <2>2. CASE Finish(t)
    BY <1>5, <1>3, <2>1, <2>2
  <2>3. ASSUME NEW outcome, job' = [job EXCEPT ![t].pc = outcome],
               ~IsLocked(job[t].login, job[t].time)
        PROVE  FailuresFit'
    <3>1. job[t].login \in Logins
      BY <1>9 DEF CheckLock, At, IInv, JobsFit, JobFits, LoginSteps
    <3>2. job[t].time \in Nat /\ attempts[job[t].login].lockedUntil \in Nat
      BY <1>1, <3>1, ReadingsPast
    <3>3. attempts[job[t].login].lockedUntil <= job[t].time
      BY <2>3, <3>2 DEF IsLocked
    <3>4. ASSUME NEW u \in Threads, job'[u].pc = "failure"
          PROVE  \/ job[u].pc = "failure" /\ job'[u] = job[u]
                 \/ /\ job'[u].time \in Nat
                    /\ attempts[job'[u].login].lockedUntil <= job'[u].time
      <4>1. CASE u = t
        <5>1. job'[u].time = job[t].time /\ job'[u].login = job[t].login
          BY <1>1, <2>3, <4>1 DEF Job
        <5>2. QED  BY <3>2, <3>3, <5>1
      <4>2. CASE u # t
        BY <1>1, <2>3, <3>4, <4>2
      <4>3. QED  BY <4>1, <4>2
    <3>5. QED  BY <1>1, <1>2, <2>1, <3>4
  <2>4. QED  BY <1>9, <2>2, <2>3 DEF CheckLock
<1>10. ASSUME NEW t \in Threads, RecordFailure(t) PROVE FailuresFit'
  <2>1. PICK login \in Logins, time \in Times :
               job[t].pc = "failure" /\ job[t].login = login /\ job[t].time = time
    BY <1>10 DEF RecordFailure, At, IInv, JobsFit, JobFits, LoginSteps, ReadingsFresh
  <2>2. time \in Nat
    BY DEF Times
  <2> DEFINE attempt == IF IsLocked(login, time) THEN attempts[login]
                        ELSE Counted(attempts[login], time)
  <2>3. /\ failed' = [failed EXCEPT ![login][time] = @ + 1]
        /\ attempts' = [attempts EXCEPT ![login] = attempt]
        /\ job' = [job EXCEPT ![t] = IdleJob] /\ now' = now
    BY <1>10, <2>1 DEF RecordFailure, Finish
  <2>4. attempts'[login] = attempt
    BY <1>1, <2>1, <2>3
  <2>5. /\ attempts[login] \in [failures : 0 .. (FailureLimit - 1), lockedUntil : Nat]
        /\ attempts[login].failures \in Nat /\ attempts[login].lockedUntil \in Nat
    BY <1>1, <2>1
  <2>6. ASSUME IsLocked(login, time) PROVE LoginFits(login)'
    <3>1. /\ attempts'[login] = attempts[login]
          /\ attempts[login].lockedUntil > time
      BY <2>4, <2>6 DEF IsLocked
    <3>2. /\ attempts'[login].lockedUntil = attempts[login].lockedUntil
          /\ attempts'[login].failures =
                IF attempts[login].lockedUntil > job[t].time THEN attempts[login].failures
                ELSE attempts[login].failures + 1
      BY <2>1, <3>1
    <3> HIDE DEF attempt
    <3>3. failed' = [failed EXCEPT ![login][job[t].time] = @ + 1]
      BY <2>1, <2>3
    <3>4. QED  BY <2>1, <2>3, <3>2, <3>3, FailureCounted
  <2>7. ASSUME ~IsLocked(login, time), attempts[login].failures + 1 >= FailureLimit
        PROVE  LoginFits(login)'
    <3>1. attempts'[login] = [failures |-> 0, lockedUntil |-> time + LockSeconds]
      BY <2>4, <2>7 DEF Counted
    <3>2. attempts[login].lockedUntil <= time
      BY <2>2, <2>5, <2>7 DEF IsLocked
    <3> HIDE DEF attempt
    <3>3. /\ failed' = [failed EXCEPT ![login][job[t].time] = @ + 1]
          /\ attempts'[login] = [failures |-> 0, lockedUntil |-> job[t].time + LockSeconds]
          /\ attempts[login].lockedUntil <= job[t].time
      BY <2>1, <2>3, <3>1, <3>2
    <3>4. QED  BY <2>1, <2>3, <3>3, FailureLocks
  <2>8. ASSUME ~IsLocked(login, time), ~(attempts[login].failures + 1 >= FailureLimit)
        PROVE  LoginFits(login)'
    <3>1. attempts'[login] = [attempts[login] EXCEPT !.failures = @ + 1]
      BY <2>4, <2>8 DEF Counted
    <3>2. /\ attempts'[login].failures = attempts[login].failures + 1
          /\ attempts'[login].lockedUntil = attempts[login].lockedUntil
          /\ ~(attempts[login].lockedUntil > time)
      BY <2>5, <2>8, <3>1 DEF IsLocked
    <3> HIDE DEF attempt
    <3>3. /\ failed' = [failed EXCEPT ![login][job[t].time] = @ + 1]
          /\ attempts'[login].failures =
                IF attempts[login].lockedUntil > job[t].time THEN attempts[login].failures
                ELSE attempts[login].failures + 1
      BY <2>1, <2>3, <3>2
    <3>4. QED  BY <2>1, <2>3, <3>2, <3>3, FailureCounted
  <2>9. NoneArrives
    BY <1>5, <2>3 DEF Finish
  <2> HIDE DEF attempt
  <2>10. ASSUME NEW other \in Logins PROVE LoginFits(other)'
    <3>1. CASE other = login
      BY <2>6, <2>7, <2>8, <3>1
    <3>2. CASE other # login
      <4>1. failed'[other] = failed[other] /\ attempts'[other] = attempts[other]
        BY <1>1, <2>3, <3>2
      <4>2. now' \in Nat /\ now <= now'
        BY <1>1, <2>3
      <4>3. QED  BY <2>9, <4>1, <4>2, SameFailures DEF NoneArrives
    <3>3. QED  BY <3>1, <3>2
  <2>11. failed' \in [Logins -> [Times -> Nat]]
    BY <1>1, <2>1, <2>2, <2>3
  <2>12. QED  BY <2>10, <2>11 DEF FailuresFit
<1>11. ASSUME NEW t \in Threads, ClearFailures(t) PROVE FailuresFit'
  <2> DEFINE none == [time \in Times |-> 0]
  <2>1. PICK login \in Logins : job[t].login = login
    BY <1>11 DEF ClearFailures, At, IInv, JobsFit, JobFits, LoginSteps
  <2>2. /\ failed' = [failed EXCEPT ![login] = none]
        /\ attempts' = [attempts EXCEPT ![login] = [failures |-> 0, lockedUntil |-> 0]]
        /\ GoReading(t, "create") /\ now' = now
    BY <1>11, <2>1 DEF ClearFailures
  <2>3. NoneArrives
    BY <1>6, <2>2
  <2>4. /\ failed'[login] = none
        /\ attempts'[login].failures = 0 /\ attempts'[login].lockedUntil = 0
    BY <1>1, <2>1, <2>2
  <2>5. LoginFits(login)'
    <3>1. \A x \in Times : ~(none[x] > 0)
      OBVIOUS
    <3>2. ASSUME NEW u \in Threads, job'[u].pc = "failure", job'[u].login = login
          PROVE  Apart(job'[u].time, 0)
      <4>1. job'[u].time \in Nat
        BY <2>3, <3>2, ReadingsPast DEF NoneArrives
      <4>2. QED  BY <4>1 DEF Apart
    <3>3. SumOver(none, Since(0)) <= 0
      <4>1. Since(0) \in SUBSET Times /\ \A x \in Since(0) : none[x] = 0
        BY DEF Since
      <4> HIDE DEF none
      <4>2. SumOver(none, Since(0)) = 0
        BY <4>1, SumOverZero, StretchFinite
      <4>3. QED  BY <4>2
    <3>4. \A from \in Times : ~(from + LockStretch <= 0)
      BY DEF Times, LockStretch
    <3> HIDE DEF none
    <3>5. ASSUME NEW x \in Times, failed'[login][x] > 0
          PROVE  x <= now' /\ Apart(x, attempts'[login].lockedUntil)
      BY <2>4, <3>1, <3>5
    <3>6. ASSUME NEW u \in Threads, job'[u].pc = "failure", job'[u].login = login
          PROVE  Apart(job'[u].time, attempts'[login].lockedUntil)
      BY <2>4, <3>2, <3>6
    <3>7. SumOver(failed'[login], Since(attempts'[login].lockedUntil))
             <= attempts'[login].failures
      BY <2>4, <3>3
    <3>8. \A from \in Times : ~(from + LockStretch <= attempts'[login].lockedUntil)
      BY <2>4, <3>4
    <3>9. QED
      BY <3>5, <3>6, <3>7, <3>8 DEF LoginFits, Since, Between, LockStretch, Apart, Times
  <2>6. ASSUME NEW other \in Logins PROVE LoginFits(other)'
    <3>1. CASE other = login
      BY <2>5, <3>1
    <3>2. CASE other # login
      <4>1. failed'[other] = failed[other] /\ attempts'[other] = attempts[other]
        BY <1>1, <2>2, <3>2
      <4>2. now' \in Nat /\ now <= now'
        BY <1>1, <2>2
      <4>3. QED  BY <2>3, <4>1, <4>2, SameFailures DEF NoneArrives
    <3>3. QED  BY <3>1, <3>2
  <2>7. failed' \in [Logins -> [Times -> Nat]]
    BY <1>1, <2>1, <2>2
  <2>8. QED  BY <2>6, <2>7 DEF FailuresFit
<1>12. ASSUME NEW t \in Threads, NEW token \in Tokens, StartPixel(t, token)
       PROVE  FailuresFit'
  <2> DEFINE j == [pc |-> "validate", login |-> "nobody", token |-> token, time |-> now]
  <2>1. j.pc # "failure" /\ job' = [job EXCEPT ![t] = j]
    BY <1>12 DEF StartPixel
  <2>2. failed' = failed /\ attempts' = attempts /\ now' = now
    BY <1>12 DEF StartPixel, ghosts
  <2> HIDE DEF j
  <2>3. QED  BY <1>4, <1>3, <2>1, <2>2
<1>13. ASSUME NEW t \in Threads, Validate(t) PROVE FailuresFit'
  <2>1. failed' = failed /\ attempts' = attempts /\ now' = now
    BY <1>13 DEF Validate, ghosts
  <2>2. CASE Finish(t)
    BY <1>5, <1>3, <2>1, <2>2
  <2>3. CASE job' = [job EXCEPT ![t].pc = "allow pixel", ![t].time = now,
                                ![t].login = sessions[job[t].token].user]
    <3> DEFINE named == [job[t] EXCEPT !.pc = "allow pixel", !.time = now,
                                       !.login = sessions[job[t].token].user]
    <3>1. job'[t].pc = "allow pixel"
      <4>1. job'[t] = named
        BY <1>1, <2>3
      <4>2. named.pc = "allow pixel"
        BY <1>1 DEF Job
      <4>3. QED  BY <4>1, <4>2
    <3>2. \A u \in Threads \ {t} : job'[u] = job[u]
      BY <1>1, <2>3
    <3>3. NoneArrives
      BY <3>1, <3>2 DEF NoneArrives
    <3>4. QED  BY <1>3, <2>1, <3>3
  <2>4. QED  BY <1>13, <2>2, <2>3 DEF Validate
<1>14. CASE Tick
  <2>1. /\ failed' = failed /\ attempts' = attempts /\ job' = job
        /\ now' \in Nat /\ now <= now'
    BY <1>1, <1>14 DEF Tick, ghosts
  <2>2. QED  BY <1>2, <2>1
<1>15. CASE UNCHANGED vars
  <2>1. failed' = failed /\ attempts' = attempts /\ now' = now /\ job' = job
    BY <1>15 DEF vars, ghosts
  <2>2. QED  BY <1>3, <2>1 DEF NoneArrives
<1>16. ASSUME NEW t \in Threads, RefuseUnverified(t) \/ CreateSession(t) \/ AllowPixel(t)
       PROVE  FailuresFit'
  <2>1. failed' = failed /\ attempts' = attempts /\ now' = now /\ Finish(t)
    BY <1>16 DEF RefuseUnverified, CreateSession, AllowPixel, ghosts
  <2>2. QED  BY <1>5, <1>3, <2>1
<1>17. QED
  BY <1>7, <1>8, <1>9, <1>10, <1>11, <1>12, <1>13, <1>14, <1>15, <1>16 DEF Next

(* Nothing was counted when the server starts. *)
LEMMA InitCounts == Init => RatesFit /\ ReadingsFresh /\ FailuresFit
<1> SUFFICES ASSUME Init PROVE RatesFit /\ ReadingsFresh /\ FailuresFit
  OBVIOUS
<1> DEFINE none == [time \in Times |-> 0]
<1>1. ASSUME NEW S \in SUBSET Times PROVE SumOver(none, S) = 0
  <2>1. \A x \in S : none[x] = 0
    OBVIOUS
  <2> HIDE DEF none
  <2>2. QED  BY <2>1, SumOverZero, StretchFinite
<1>2. none \in [Times -> Nat]
  OBVIOUS
<1>3. RatesFit
  <2>1. allowed = [key \in Keys |-> none]
        /\ buckets = [key \in Keys |-> [start |-> 0, count |-> 0]]
    BY DEF Init
  <2>2. \A x \in Times : ~(none[x] > 0)
    OBVIOUS
  <2> HIDE DEF none
  <2>3. ASSUME NEW key \in Keys
        PROVE  RateFits(none, [start |-> 0, count |-> 0], Limit(key))
    <3>1. Limit(key) \in Nat \ {0}
      BY DEF Limit
    <3>2. \A from \in Times : SumOver(none, Between(from, RateStretch)) = 0
      BY <1>1 DEF Between
    <3>3. QED  BY <2>2, <3>1, <3>2 DEF RateFits
  <2>4. allowed \in [Keys -> [Times -> Nat]]
    BY <1>2, <2>1
  <2>5. \A key \in Keys : RateFits(allowed[key], buckets[key], Limit(key))
    BY <2>1, <2>3
  <2>6. QED  BY <2>4, <2>5 DEF RatesFit
<1>4. ReadingsFresh
  BY DEF Init, ReadingsFresh, IdleJob
<1>5. FailuresFit
  <2>1. failed = [login \in Logins |-> none]
        /\ attempts = [login \in Logins |-> [failures |-> 0, lockedUntil |-> 0]]
    BY DEF Init
  <2>2. \A x \in Times : ~(none[x] > 0)
    OBVIOUS
  <2> HIDE DEF none
  <2>3. ASSUME NEW login \in Logins PROVE LoginFits(login)
    <3>1. failed[login] = none /\ attempts[login] = [failures |-> 0, lockedUntil |-> 0]
      BY <2>1
    <3>2. \A t \in Threads : job[t].pc # "failure"
      BY DEF Init, IdleJob
    <3>3. SumOver(none, Since(0)) <= 0
      <4>1. SumOver(none, Since(0)) = 0
        BY <1>1 DEF Since
      <4>2. QED  BY <4>1
    <3>4. \A from \in Times : ~(from + LockStretch <= 0)
      BY DEF Times, LockStretch
    <3>5. QED  BY <2>2, <3>1, <3>2, <3>3, <3>4 DEF LoginFits
  <2>4. failed \in [Logins -> [Times -> Nat]]
    BY <1>2, <2>1
  <2>5. QED  BY <2>3, <2>4 DEF FailuresFit
<1>6. QED  BY <1>3, <1>4, <1>5

(* The limits of passes and failures hold in every state. *)
THEOREM CountsInvariance == Spec => [](RatesFit /\ ReadingsFresh /\ FailuresFit)
<1>1. IInv /\ (RatesFit /\ ReadingsFresh /\ FailuresFit) /\ [Next]_vars
         => (RatesFit /\ ReadingsFresh /\ FailuresFit)'
  BY RateStep, FreshStep, FailureStep
<1>2. QED  BY Invariance, InitCounts, <1>1, PTL DEF Spec

(* The sum of the model over a stretch is the sum over its times. *)
LEMMA StretchSum ==
    ASSUME NEW counts, NEW from, NEW len
    PROVE  InStretch(counts, from, len) = SumOver(counts, Between(from, len))
BY DEF InStretch, SumOver, Between

(* Wherever the fixed windows fall and whichever requests overtake others  *)
(* between clock and mutex, less than twice the limit pass in a stretch of *)
(* one window (RateLimiter.cpp:5-21).                                      *)
THEOREM RatesHold == Spec => []RateHolds
<1>1. RatesFit => RateHolds
  <2> SUFFICES ASSUME RatesFit, NEW from \in Times
               PROVE  /\ InStretch(allowed["login"], from, RateStretch) <= 2 * MaxLogins - 1
                      /\ \A user \in Logins :
                            InStretch(allowed[user], from, RateStretch) <= 2 * MaxPixels - 1
    BY DEF RateHolds, RateStretch
  <2>1. \A key \in Keys :
           SumOver(allowed[key], Between(from, RateStretch)) <= 2 * Limit(key) - 1
    BY DEF RatesFit, RateFits
  <2>2. "login" \in Keys /\ Limit("login") = MaxLogins
        /\ \A user \in Logins : user \in Keys /\ Limit(user) = MaxPixels
    BY DEF Keys, Limit
  <2>3. QED  BY <2>1, <2>2, StretchSum
<1>2. QED  BY CountsInvariance, <1>1, PTL

(* A lock keeps the failures of a login, in the time it lasts, to its limit*)
(* and the checks that were past it (ApiController.cpp:111-122, 485-493).  *)
THEOREM LocksHold == Spec => []LockHolds
<1>1. IInv /\ FailuresFit => LockHolds
  <2> SUFFICES ASSUME IInv, FailuresFit, NEW login \in Logins, NEW from \in Times
               PROVE  InStretch(failed[login], from, LockStretch)
                          <= FailureLimit + Cardinality(Threads) - 1
    BY DEF LockHolds, LockStretch
  <2> DEFINE sum == SumOver(failed[login], Between(from, LockStretch))
  <2>1. sum \in Nat /\ Cardinality(Threads) \in Nat
    <3>1. failed[login] \in [Times -> Nat] /\ Between(from, LockStretch) \in SUBSET Times
      BY DEF FailuresFit, Between
    <3>2. QED  BY <3>1, FS_CardinalityType, ShorterSeesLess
  <2>2. CASE from + LockStretch <= attempts[login].lockedUntil
    <3>1. sum + Cardinality(Racers(login, from)) <= FailureLimit + Cardinality(Threads) - 1
      BY <2>2 DEF FailuresFit, LoginFits
    <3>2. Cardinality(Racers(login, from)) \in Nat
      BY RacersFinite
    <3> HIDE DEF sum
    <3>3. sum <= FailureLimit + Cardinality(Threads) - 1
      BY <2>1, <3>1, <3>2
    <3>4. QED  BY <3>3, StretchSum DEF sum
  <2>3. CASE ~(from + LockStretch <= attempts[login].lockedUntil)
    <3>1. attempts[login] \in [failures : 0 .. (FailureLimit - 1), lockedUntil : Nat]
      BY DEF IInv, LocksFit
    <3>2. from \in Nat /\ LockStretch \in Nat
      BY DEF Times, LockStretch
    <3>3. sum <= attempts[login].failures
      BY <2>3, <3>1, <3>2, PastLock
    <3> HIDE DEF sum
    <3>4. sum <= FailureLimit + Cardinality(Threads) - 1
      BY <2>1, <3>1, <3>3
    <3>5. QED  BY <3>4, StretchSum DEF sum
  <2>4. QED  BY <2>2, <2>3
<1>2. QED  BY Invariance, CountsInvariance, <1>1, PTL

=============================================================================
