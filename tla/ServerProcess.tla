--------------------------- MODULE ServerProcess ---------------------------
(***************************************************************************)
(* main(): it starts the scheduler of the backups, then runs the server on *)
(* its own thread.  run() returns only by an exception, when it cannot     *)
(* listen; the destructors then stop the scheduler before the map and the  *)
(* rest of what its thread uses are gone, and the process ends with 1.     *)
(***************************************************************************)
EXTENDS HttpServer, MapBackupScheduler

VARIABLE process    \* how far main() is

vars == <<httpVars, schedulerVars, process>>

Init ==
    /\ HttpInit /\ SchedulerInit
    /\ process = "starting"

Start ==
    /\ process = "starting"
    /\ StartScheduler
    /\ process' = "running"
    /\ UNCHANGED httpVars

Serve ==
    /\ process = "running"
    /\ HttpNext
    /\ UNCHANGED <<schedulerVars, process>>

Schedule ==
    /\ process # "over" /\ up
    /\ SchedulerNext
    /\ UNCHANGED <<httpVars, process>>

(* The exception of run() leaves main's block. *)
Unwind ==
    /\ process = "running" /\ main = "threw"
    /\ StopScheduler
    /\ process' = "stopping"
    /\ UNCHANGED httpVars

Notify ==
    /\ process = "stopping"
    /\ NotifyScheduler
    /\ process' = "joining"
    /\ UNCHANGED httpVars

Exit ==
    /\ process = "joining"
    /\ SchedulerJoined
    /\ process' = "over"
    /\ UNCHANGED <<httpVars, schedulerVars>>

MainStep == Start \/ Unwind \/ Notify \/ Exit

Next == MainStep \/ Serve \/ Schedule

Spec == Init /\ [][Next]_vars

(* The thread of the scheduler runs, and its hours pass. *)
Fairness ==
    /\ HttpFairness
    /\ WF_vars(MainStep)
    /\ WF_vars(process # "over" /\ up /\ SchedulerStep /\ UNCHANGED <<httpVars, process>>)

FairSpec == Spec /\ Fairness

(* A server that cannot listen ends, whatever the scheduler is doing: the  *)
(* notification may be lost (MapBackup.cpp:326 does not hold the mutex),   *)
(* but then the end of the hour lets the thread see the flag.              *)
ExitFollows == main = "threw" ~> process = "over"

============================================================================
