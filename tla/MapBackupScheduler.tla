------------------------- MODULE MapBackupScheduler -------------------------
(***************************************************************************)
(* storage::MapBackupScheduler: a thread that makes a backup each hour,    *)
(* until stop() has it end.                                                *)
(*                                                                         *)
(* The flag running_ is atomic and stop() changes it without the mutex the *)
(* thread waits with.  Only the thread itself ever takes that mutex, so it *)
(* does not appear here: stop() may come between any two steps of run().   *)
(***************************************************************************)

VARIABLES
    running,    \* running_
    thread      \* where run() is, on the thread of the scheduler

schedulerVars == <<running, thread>>

SchedulerInit == running = FALSE /\ thread = "none"

(* start() is called once. *)
StartScheduler ==
    /\ ~running
    /\ running' = TRUE
    /\ thread' = "test"

(* stop(), in three steps: the exchange, the notification, and the join *)
StopScheduler == running' = FALSE /\ UNCHANGED thread

(* It reaches only a thread that sleeps. *)
NotifyScheduler ==
    /\ thread' = IF thread = "asleep" THEN "test" ELSE thread
    /\ UNCHANGED running

SchedulerJoined == thread = "over"

----------------------------------------------------------------------------
(* run() *)

From(here, there) == thread = here /\ thread' = there /\ UNCHANGED running

(* while (running_), and wait_for looks once more, before it sleeps and    *)
(* each time it is woken.                                                  *)
TestRunning == From("test", IF running THEN "falling asleep" ELSE "over")

(* A notification that came since the test is lost. *)
Sleep == From("falling asleep", "asleep")

(* Mutant of WakeUp: wait instead of wait_for. *)
WakeUpNever == FALSE /\ From("asleep", "backup")

(* The hour is over: wait_for looks once more, and a backup is made. *)
WakeUp == From("asleep", IF running THEN "backup" ELSE "over")

(* Awake for no reason, as a condition variable may be *)
WakeSpuriously == From("asleep", "test")

(* createMapBackup returns, or fails and is reported. *)
EndBackup == From("backup", "test")

SchedulerStep == TestRunning \/ Sleep \/ WakeUp \/ EndBackup

SchedulerNext == SchedulerStep \/ WakeSpuriously

============================================================================
