---------------------------- MODULE AccessGuards ----------------------------
(***************************************************************************)
(* What stands before the handlers: security::RateLimiter, the login       *)
(* lockout of ApiController and security::SessionManager, as POST /login   *)
(* and the guard of POST /pixel call them.                                 *)
(*                                                                         *)
(* Each of the three has a mutex of its own, and each call of one of them  *)
(* is a step.  The clock is read before the mutex is taken, and the login  *)
(* handler uses one reading for its check of the lock and for the failure  *)
(* it records after the password was verified.  Meanwhile the clock goes   *)
(* on and other threads do the same.                                       *)
(***************************************************************************)
EXTENDS Integers, FiniteSets, Functions

CONSTANTS
    Threads,        \* the thread pool
    Logins,         \* the names that users log in with, from one address
    MaxLogins,      \* logins per window, 30 in the code
    MaxPixels,      \* pixels per window, 120 in the code
    Window,         \* the window of the limiter
    FailureLimit,   \* cfg.loginFailureLimit
    LockSeconds,    \* cfg.loginLockSeconds
    Ttl,            \* cfg.sessionTtlSeconds
    MaxDelay,       \* how old a reading of the clock may become
    MaxTime,        \* bound on the clock
    MaxRequests     \* bound on the requests

ASSUME GuardsAssumption ==
    /\ MaxLogins \in Nat \ {0} /\ MaxPixels \in Nat \ {0}
    /\ Window \in Nat \ {0} /\ FailureLimit \in Nat \ {0}
    /\ LockSeconds \in Nat \ {0} /\ Ttl \in Nat \ {0}
    /\ MaxDelay \in Nat \ {0} /\ MaxDelay < LockSeconds
    /\ MaxTime \in Nat \ {0} /\ MaxRequests \in Nat
    /\ IsFiniteSet(Threads) /\ "login" \notin Logins

VARIABLES
    buckets,    \* RateLimiter::buckets_
    attempts,   \* LoginLockoutStore::attempts_
    sessions,   \* SessionManager::sessions_
    now,        \* the clocks, in seconds
    job,        \* what each thread is doing
    requests,   \* how many requests were made
    allowed,    \* history variable: what the limiter let pass, by clock reading
    failed,     \* history variable: the failures since a success, likewise
    streak,     \* history variable: the failures since a success or a lock
    ends        \* history variable: the ends of all sessions ever made

ghosts == <<allowed, failed, streak, ends>>
vars   == <<buckets, attempts, sessions, now, job, requests, ghosts>>

Times  == 1 .. MaxTime
Tokens == 1 .. MaxRequests
Keys   == {"login"} \cup Logins         \* "login:<address>", "pixel:<user>"

IdleJob == [pc |-> "idle", login |-> "nobody", token |-> 0, time |-> 0]

At(t, pc) == job[t].pc = pc
Finish(t) == job' = [job EXCEPT ![t] = IdleJob]

(* Goes on with a step that reads the clock anew. *)
GoReading(t, pc) == job' = [job EXCEPT ![t].pc = pc, ![t].time = now]

Init ==
    /\ buckets = [key \in Keys |-> [start |-> 0, count |-> 0]]
    /\ attempts = [login \in Logins |-> [failures |-> 0, lockedUntil |-> 0]]
    /\ sessions = <<>>
    /\ now = 1
    /\ job = [t \in Threads |-> IdleJob]
    /\ requests = 0
    /\ allowed = [key \in Keys |-> [time \in Times |-> 0]]
    /\ failed = [login \in Logins |-> [time \in Times |-> 0]]
    /\ streak = [login \in Logins |-> 0]
    /\ ends = <<>>

----------------------------------------------------------------------------
(* RateLimiter::allow *)

(* Mutant of Bucket: the window ends one second early. *)
BucketEarly(key, time) ==
    IF buckets[key].start = 0 \/ time - buckets[key].start >= Window - 1
    THEN [start |-> time, count |-> 0]
    ELSE buckets[key]

Bucket(key, time) ==
    IF buckets[key].start = 0 \/ time - buckets[key].start >= Window
    THEN [start |-> time, count |-> 0]
    ELSE buckets[key]

(* Passes, or is refused with 429 and goes no further. *)
Allow(t, key, max) ==
    LET bucket == Bucket(key, job[t].time)
    IN IF bucket.count >= max
       THEN /\ buckets' = [buckets EXCEPT ![key] = bucket]
            /\ UNCHANGED allowed
       ELSE /\ buckets' = [buckets EXCEPT
                             ![key] = [bucket EXCEPT !.count = bucket.count + 1]]
            /\ allowed' = [allowed EXCEPT ![key][job[t].time] = @ + 1]

Passes(t, key, max) == Bucket(key, job[t].time).count < max

----------------------------------------------------------------------------
(* LoginLockoutStore *)

IsLocked(login, time) == attempts[login].lockedUntil > time

(* Mutant of Counted: the failure that reaches the limit does not lock. *)
CountedOneMore(attempt, time) ==
    IF attempt.failures + 1 > FailureLimit
    THEN [failures |-> 0, lockedUntil |-> time + LockSeconds]
    ELSE [attempt EXCEPT !.failures = @ + 1]

(* Mutant of Counted: the lock leaves the count of failures. *)
CountedForGood(attempt, time) ==
    IF attempt.failures + 1 >= FailureLimit
    THEN [failures |-> attempt.failures + 1, lockedUntil |-> time + LockSeconds]
    ELSE [attempt EXCEPT !.failures = @ + 1]

Counted(attempt, time) ==
    IF attempt.failures + 1 >= FailureLimit
    THEN [failures |-> 0, lockedUntil |-> time + LockSeconds]
    ELSE [attempt EXCEPT !.failures = @ + 1]

----------------------------------------------------------------------------
(* SessionManager *)

(* Mutant of Live: a session ends one second early. *)
LiveShorter(time) == {token \in DOMAIN sessions : sessions[token].expires > time + 1}

(* pruneExpiredLocked leaves these. *)
Live(time) == {token \in DOMAIN sessions : sessions[token].expires > time}

----------------------------------------------------------------------------
(* POST /login *)

StartLogin(t, login) ==
    /\ At(t, "idle")
    /\ requests < MaxRequests
    /\ requests' = requests + 1
    /\ job' = [job EXCEPT ![t] =
                 [pc |-> "allow login", login |-> login, token |-> 0, time |-> now]]
    /\ UNCHANGED <<buckets, attempts, sessions, now, ghosts>>

(* Refused by the limiter or for its body, or on to the lock. *)
AllowLogin(t) ==
    /\ At(t, "allow login")
    /\ Allow(t, "login", MaxLogins)
    /\ Finish(t) \/ (Passes(t, "login", MaxLogins) /\ GoReading(t, "check"))
    /\ UNCHANGED <<attempts, sessions, now, requests, failed, streak, ends>>

(* verifyCredentials: whether the password was right is up to the visitor. *)
Verdicts == {"failure", "success"}

(* isLocked, and if it is not, verifyCredentials. *)
CheckLock(t) ==
    /\ At(t, "check")
    /\ IF IsLocked(job[t].login, job[t].time)
       THEN Finish(t)
       ELSE \E outcome \in Verdicts :
               job' = [job EXCEPT ![t].pc = outcome]
    /\ UNCHANGED <<buckets, attempts, sessions, now, requests, ghosts>>

(* recordFailure, with the time of the check *)
RecordFailure(t) ==
    /\ At(t, "failure")
    /\ LET login   == job[t].login
           time    == job[t].time
           attempt == IF IsLocked(login, time) THEN attempts[login]
                      ELSE Counted(attempts[login], time)
       IN /\ attempts' = [attempts EXCEPT ![login] = attempt]
          /\ failed' = [failed EXCEPT ![login][time] = @ + 1]
          /\ streak' = [streak EXCEPT ![login] =
                          IF attempt.lockedUntil # attempts[login].lockedUntil
                          THEN 0 ELSE @ + 1]
    /\ Finish(t)
    /\ UNCHANGED <<buckets, sessions, now, requests, allowed, ends>>

(* The account may not be verified yet: 403, and the failures stay. *)
RefuseUnverified(t) ==
    /\ At(t, "success")
    /\ Finish(t)
    /\ UNCHANGED <<buckets, attempts, sessions, now, requests, ghosts>>

ClearFailures(t) ==
    /\ At(t, "success")
    /\ attempts' = [attempts EXCEPT ![job[t].login] = [failures |-> 0, lockedUntil |-> 0]]
    /\ failed' = [failed EXCEPT ![job[t].login] = [time \in Times |-> 0]]
    /\ streak' = [streak EXCEPT ![job[t].login] = 0]
    /\ GoReading(t, "create")
    /\ UNCHANGED <<buckets, sessions, now, requests, allowed, ends>>

(* createSession, with a token nobody has *)
CreateSession(t) ==
    /\ At(t, "create")
    /\ LET token == Cardinality(DOMAIN ends) + 1
           end   == job[t].time + Ttl
       IN /\ sessions' = [other \in Live(job[t].time) \cup {token} |->
                            IF other = token
                            THEN [user |-> job[t].login, expires |-> end]
                            ELSE sessions[other]]
          /\ ends' = [other \in DOMAIN ends \cup {token} |->
                        IF other = token THEN end ELSE ends[other]]
    /\ Finish(t)
    /\ UNCHANGED <<buckets, attempts, now, requests, allowed, failed, streak>>

----------------------------------------------------------------------------
(* POST /pixel, its guards *)

StartPixel(t, token) ==
    /\ At(t, "idle")
    /\ token \in DOMAIN ends
    /\ requests < MaxRequests
    /\ requests' = requests + 1
    /\ job' = [job EXCEPT ![t] =
                 [pc |-> "validate", login |-> "nobody", token |-> token, time |-> now]]
    /\ UNCHANGED <<buckets, attempts, sessions, now, ghosts>>

(* validate: expired sessions go, and the user of a live one goes on. *)
Validate(t) ==
    /\ At(t, "validate")
    /\ sessions' = Restrict(sessions, Live(job[t].time))
    /\ IF job[t].token \in Live(job[t].time)
       THEN job' = [job EXCEPT ![t].pc = "allow pixel", ![t].time = now,
                               ![t].login = sessions[job[t].token].user]
       ELSE Finish(t)
    /\ UNCHANGED <<buckets, attempts, now, requests, ghosts>>

AllowPixel(t) ==
    /\ At(t, "allow pixel")
    /\ Allow(t, job[t].login, MaxPixels)
    /\ Finish(t)
    /\ UNCHANGED <<attempts, sessions, now, requests, failed, streak, ends>>

----------------------------------------------------------------------------

(* No handler sits on a reading of the clock for more than MaxDelay. *)
Tick ==
    /\ now < MaxTime
    /\ \A t \in Threads : At(t, "idle") \/ now < job[t].time + MaxDelay
    /\ now' = now + 1
    /\ UNCHANGED <<buckets, attempts, sessions, job, requests, ghosts>>

Next ==
    \/ \E t \in Threads, login \in Logins : StartLogin(t, login)
    \/ \E t \in Threads : AllowLogin(t)
    \/ \E t \in Threads : CheckLock(t)
    \/ \E t \in Threads : RecordFailure(t)
    \/ \E t \in Threads : RefuseUnverified(t)
    \/ \E t \in Threads : ClearFailures(t)
    \/ \E t \in Threads : CreateSession(t)
    \/ \E t \in Threads, token \in Tokens : StartPixel(t, token)
    \/ \E t \in Threads : Validate(t)
    \/ \E t \in Threads : AllowPixel(t)
    \/ Tick

Spec == Init /\ [][Next]_vars

----------------------------------------------------------------------------
(* Properties. *)

(* What a window of the bucket under this key may count. *)
Limit(key) == IF key = "login" THEN MaxLogins ELSE MaxPixels

(* No window counts more than the limit of its key, none has begun and no  *)
(* lock is set beyond the clock, a lock starts the failures from zero, and *)
(* no more tokens are given than requests were made.                       *)
TypeOK ==
    /\ \A key \in Keys : buckets[key].start \in 0 .. now
                      /\ buckets[key].count \in 0 .. Limit(key)
    /\ \A login \in Logins : attempts[login].failures \in 0 .. (FailureLimit - 1)
                          /\ attempts[login].lockedUntil \in 0 .. (now + LockSeconds)
    /\ DOMAIN sessions \subseteq 1 .. requests /\ now \in Times

InStretch(counts, from, length) ==
    LET stretch == {time \in Times : from <= time /\ time < from + length}
    IN SumFunction([time \in stretch |-> counts[time]])

(* However requests that read the clock before the mutex overtake each     *)
(* other, and wherever the fixed windows fall, a stretch of one window sees*)
(* less than twice the limit pass (RateLimiter.cpp:5-21).  The stretch is  *)
(* shorter by the whole seconds beyond the first that a reading may lag:   *)
(* a reading older than that can be counted in a third window.             *)
RateHolds ==
    \A from \in Times :
        /\ InStretch(allowed["login"], from, Window + 1 - MaxDelay) <= 2 * MaxLogins - 1
        /\ \A user \in Logins :
              InStretch(allowed[user], from, Window + 1 - MaxDelay) <= 2 * MaxPixels - 1

(* Between two successes, a lock keeps the failures in the time it lasts to*)
(* its limit and the checks that were already past it on other threads.  It*)
(* lasts LockSeconds from the check, so up to MaxDelay less from the moment*)
(* the failure was recorded (ApiController.cpp:111-122, 485-493).          *)
LockHolds ==
    \A login \in Logins, from \in Times :
        InStretch(failed[login], from, LockSeconds - MaxDelay)
            <= FailureLimit + Cardinality(Threads) - 1

(* A lock is earned: whoever is locked out has failed FailureLimit times   *)
(* since the last success and since the last lock, also when failures of   *)
(* other threads were recorded while a lock was running.  These count as   *)
(* failures here, though recordFailure drops them (ApiController.cpp:113). *)
LockIsEarned ==
    [][\A login \in Logins :
          attempts'[login].lockedUntil > attempts[login].lockedUntil
              => streak[login] + 1 >= FailureLimit]_vars

(* A session lasts as long as it was made for: a request is let pass only  *)
(* if it came before the end, and turned away only if the end has come, by *)
(* whichever thread the session was pruned (SessionManager.cpp:24-49).     *)
SessionLasts ==
    [][\A t \in Threads : job[t].pc = "validate" /\ job'[t].pc # "validate" =>
          IF job'[t].pc = "allow pixel" THEN ends[job[t].token] > job[t].time
                                       ELSE ends[job[t].token] <= now]_vars

=============================================================================
