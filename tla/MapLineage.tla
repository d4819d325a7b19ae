----------------------------- MODULE MapLineage -----------------------------
(***************************************************************************)
(* PixelMap with all its callers, each of its methods at any time: pixels  *)
(* placed, resets, map replies, and the restore of an image saved earlier  *)
(* (a rollback, or the load at start-up).                                  *)
(*                                                                         *)
(* Two history variables say what the log of changes and the cached        *)
(* encoding must stay consistent with.  `lineage' is the map at every      *)
(* sequence number since the last restore: what a browser that received a  *)
(* reply with that number has on its screen.  `saved' holds the images     *)
(* that saveBinary wrote.                                                  *)
(***************************************************************************)
EXTENDS MapLog, FiniteSets

CONSTANTS MaxSequence,  \* bound on the writes of a lineage
          MaxSaved      \* bound on the saved images

ASSUME BoundsAssumption == MaxSequence \in Nat /\ MaxSaved \in Nat

VARIABLES lineage, saved

vars == <<mapVars, lineage, saved>>

TypeOK ==
    /\ MapTypeOK
    /\ DOMAIN lineage \subseteq Nat
    /\ \A s \in DOMAIN lineage : lineage[s] \in Pixmaps
    /\ saved \subseteq Images

Init ==
    /\ MapInit
    /\ lineage = [s \in {0} |-> Blank]
    /\ saved = {}

(* The history after a write: the new map under the new number. *)
Recorded ==
    [s \in DOMAIN lineage \cup {sequence'} |->
        IF s = sequence' THEN pixels' ELSE lineage[s]]

PlacePixel(x, y, color) ==
    /\ sequence < MaxSequence
    /\ SetPixel(x, y, color)
    /\ lineage' = Recorded
    /\ UNCHANGED saved

ResetMap(color) ==
    /\ sequence < MaxSequence
    /\ Reset(color)
    /\ lineage' = Recorded
    /\ UNCHANGED saved

ReadMap(since) ==
    /\ ToJson(since)
    /\ UNCHANGED <<lineage, saved>>

SaveMap ==
    /\ saved' = saved \cup {MapImage}
    /\ UNCHANGED <<mapVars, lineage>>

RestoreMap(image) ==
    /\ Install(image)
    /\ lineage' = [s \in {image.sequence} |-> image.pixels]
    /\ UNCHANGED saved

Next ==
    \/ \E x \in Columns, y \in Rows, color \in Colors : PlacePixel(x, y, color)
    \/ \E color \in Colors : ResetMap(color)
    \/ \E since \in DOMAIN lineage \cup {NoSince} : ReadMap(since)
    \/ Cardinality(saved) < MaxSaved /\ SaveMap
    \/ \E image \in saved : RestoreMap(image)

Spec == Init /\ [][Next]_vars

----------------------------------------------------------------------------
(* Whenever canServeDiff lets a diff be served to a browser that is at     *)
(* sequence number s, applying the diff to the map of s gives the current  *)
(* map: the log still holds every change after s, also when it was just    *)
(* trimmed to MaxChanges or cleared by a reset.                            *)
DiffReachesCurrent ==
    \A s \in DOMAIN lineage :
        CanServeDiff(s) => ApplyDiff(lineage[s], DiffChanges(s)) = pixels

(* A browser at any number of the lineage, or one without a number, has    *)
(* the current map after applying the reply to its request.                *)
ReplyReachesCurrent ==
    /\ ApplyPayload(pixels, MapReply(NoSince)) = pixels
    /\ \A s \in DOMAIN lineage :
          ApplyPayload(lineage[s], MapReply(s)) = pixels

----------------------------------------------------------------------------
(* The files of the map: main() loads whatever a crash, a full disk or two *)
(* overlapping writers have left of one, so the format alone has to tell a *)
(* whole file from a torn one.                                             *)

(* loadBinary gives back exactly the map and the sequence number that      *)
(* saveBinary wrote, however the runs fall (PixelMap.cpp:126-216).         *)
WholeFileRestoresImage ==
    LET file == Content(MapImage, Tokens(MapImage))
    IN  Loads(file) /\ LoadedImage(file) = MapImage

(* A file with a missing token anywhere, at the end or in the middle, is   *)
(* refused: its runs can no longer cover the map (PixelMap.cpp:161-170).   *)
TornFileIsRefused ==
    \A written \in SUBSET Tokens(MapImage) :
        written # Tokens(MapImage) => ~Loads(Content(MapImage, written))

(* The browser decodes the "data" of a full reply to the map it encodes    *)
(* (PixelMap.cpp:367-389 and app.js:168-184).                              *)
BrowserDecodesFullReply == DecodeRle(Runs(pixels)) = pixels

----------------------------------------------------------------------------
(* Why the diffs are right, as an inductive invariant.                     *)

LineageCoversLog ==
    /\ DOMAIN lineage \subseteq 0 .. sequence
    /\ Base .. sequence \subseteq DOMAIN lineage
    /\ lineage[sequence] = pixels

UntouchedIsUnchanged == \A s \in DOMAIN lineage : AgreesSince(lineage[s], s)

(* The log accounts for the map: it numbers the last writes without a gap, *)
(* a cell shows the last change that names it, and a cell that no change   *)
(* after s names has kept the colour it had at s.  Trimming and clearing   *)
(* the log must move its base and nothing else.                            *)
LogAccountsForMap ==
    /\ LogInOrder
    /\ LineageCoversLog
    /\ UntouchedIsUnchanged

============================================================================
