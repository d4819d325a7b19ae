----------------------------- MODULE DurableMap -----------------------------
(***************************************************************************)
(* What the map and its file map.pwm promise together, without blocks,     *)
(* offsets and locks: a change of the memory is owed to the disk; while    *)
(* saves run the memory stands still and the disk holds the map in memory  *)
(* or nothing of use; and once every change is paid for, memory and disk   *)
(* agree.  A save that fails lifts this promise until the next one begins. *)
(* A start takes the map from the disk, or else a blank one, whose save    *)
(* may fail as well.                                                       *)
(***************************************************************************)
CONSTANTS
    Writers,    \* who may change the map
    Maps,       \* the maps
    BlankMap,   \* one of them
    Torn        \* a file that no start takes for a map; none of them

VARIABLES
    memory,     \* the map in memory
    disk,       \* map.pwm
    owed,       \* the writers whose change is not yet saved
    saving,     \* those of them whose save has begun
    broken,     \* has a save failed since the last one began?
    up          \* is the process running?

vars == <<memory, disk, owed, saving, broken, up>>

Agree == disk = memory

(* When nothing is owed after a step, the promise is kept. *)
Settled == owed' # {} \/ broken' \/ Agree'

Init ==
    /\ memory = BlankMap /\ Agree
    /\ owed = {} /\ saving = {}
    /\ broken = FALSE /\ up = TRUE

Change(w) ==
    /\ up /\ saving = {}
    /\ owed' = owed \cup {w}
    /\ memory' \in Maps
    /\ UNCHANGED <<disk, saving, broken, up>>

BeginSave(w) ==
    /\ up
    /\ saving' = saving \cup {w}
    /\ disk' = Torn /\ broken' = FALSE
    /\ UNCHANGED <<memory, owed, up>>

(* The file does not open. *)
SaveFails(w) ==
    /\ up
    /\ owed' = owed \ {w}
    /\ broken' = TRUE
    /\ UNCHANGED <<memory, disk, saving, up>>

(* Something reaches the disk: all that was missing, or not yet. *)
Write ==
    /\ up /\ saving # {}
    /\ disk' \in {memory, disk}
    /\ UNCHANGED <<memory, owed, saving, broken, up>>

EndSave(w) ==
    /\ up
    /\ owed' = owed \ {w} /\ saving' = saving \ {w}
    /\ broken' \in {broken, TRUE}
    /\ Settled
    /\ UNCHANGED <<memory, disk, up>>

Crash ==
    /\ up' = FALSE
    /\ owed' = {} /\ saving' = {}
    /\ UNCHANGED <<memory, disk, broken>>

Start ==
    /\ ~up /\ up' = TRUE
    /\ memory' = IF disk = Torn THEN BlankMap ELSE disk
    /\ \/ disk' = memory' /\ broken' = FALSE
       \/ disk = Torn /\ disk' = Torn /\ broken' = TRUE
    /\ UNCHANGED <<owed, saving>>

Next ==
    \/ \E w \in Writers \ owed : Change(w)
    \/ \E w \in owed \ saving : BeginSave(w) \/ SaveFails(w)
    \/ \E w \in saving : EndSave(w)
    \/ Write \/ Crash \/ Start

Spec == Init /\ [][Next]_vars

============================================================================
