------------------------------ MODULE PixelMap ------------------------------
(***************************************************************************)
(* storage::PixelMap: the shared map, its sequence number, the log of      *)
(* recent changes that serves diffs, and the cached run-length encoding    *)
(* that serves full replies.                                               *)
(*                                                                         *)
(* Each public method takes the map's shared_mutex for its whole body, so  *)
(* each is one action here; the two that also touch a file are split in    *)
(* MapServer, where the file has states of its own.  This module has no    *)
(* Init and Next of a system: MapLineage, MapClient and MapServer compose  *)
(* these actions with their callers.                                       *)
(***************************************************************************)
EXTENDS MapFile

CONSTANTS MaxChanges    \* maxChanges_: 100000 in the code

ASSUME MaxChangesAssumption == MaxChanges \in Nat \ {0}

VARIABLES pixels,       \* pixels_
          sequence,     \* sequence_
          changes,      \* changes_: oldest first
          cacheDirty,   \* cacheDirty_
          cachedRle     \* cachedRleBase64_, before base64

mapVars == <<pixels, sequence, changes, cacheDirty, cachedRle>>

PixelChanges == [sequence : Nat, x : Columns, y : Rows, color : Colors]

MapTypeOK ==
    /\ pixels \in Pixmaps
    /\ sequence \in Nat
    /\ changes \in Seq(PixelChanges)
    /\ Len(changes) <= MaxChanges
    /\ cacheDirty \in BOOLEAN

MapImage == [pixels |-> pixels, sequence |-> sequence]

MapInit ==
    /\ pixels = Blank
    /\ sequence = 0
    /\ changes = <<>>
    /\ cacheDirty = TRUE
    /\ cachedRle = <<>>

----------------------------------------------------------------------------
(* setPixel *)

IsInBounds(x, y) == x \in Columns /\ y \in Rows

Accepts(x, y, color) == IsInBounds(x, y) /\ color \in Colors

(* Mutant of Trimmed: the log is never shortened. *)
TrimmedNever(log) == log

Trimmed(log) ==
    IF Len(log) > MaxChanges
    THEN SubSeq(log, Len(log) - MaxChanges + 1, Len(log))
    ELSE log

(* Mutant of SetPixel: the flag is assigned where it should be or-ed. *)
SetPixelAssignsDirty(x, y, color) ==
    /\ Accepts(x, y, color)
    /\ pixels' = [pixels EXCEPT ![Index(x, y)] = color]
    /\ sequence' = sequence + 1
    /\ changes' = Trimmed(Append(changes,
                     [sequence |-> sequence + 1, x |-> x, y |-> y, color |-> color]))
    /\ cacheDirty' = (pixels[Index(x, y)] # color)
    /\ UNCHANGED cachedRle

SetPixel(x, y, color) ==
    /\ Accepts(x, y, color)
    /\ pixels' = [pixels EXCEPT ![Index(x, y)] = color]
    /\ sequence' = sequence + 1
    /\ changes' = Trimmed(Append(changes,
                     [sequence |-> sequence + 1, x |-> x, y |-> y, color |-> color]))
    /\ cacheDirty' = (cacheDirty \/ pixels[Index(x, y)] # color)
    /\ UNCHANGED cachedRle

(* reset: a colour outside the palette means colour 0. *)
ResetColor(color) == IF color \in Colors THEN color ELSE 0

(* Mutant of Reset: the log of changes survives. *)
ResetKeepsLog(color) ==
    /\ pixels' = [c \in Cells |-> ResetColor(color)]
    /\ sequence' = sequence + 1
    /\ cacheDirty' = TRUE
    /\ UNCHANGED <<changes, cachedRle>>

Reset(color) ==
    /\ pixels' = [c \in Cells |-> ResetColor(color)]
    /\ sequence' = sequence + 1
    /\ changes' = <<>>
    /\ cacheDirty' = TRUE
    /\ UNCHANGED cachedRle

(* Mutant of Install: the log of changes survives. *)
InstallKeepsLog(image) ==
    /\ pixels' = image.pixels
    /\ sequence' = image.sequence
    /\ cacheDirty' = TRUE
    /\ UNCHANGED <<changes, cachedRle>>

(* The locked end of loadBinary, once the file has been parsed. *)
Install(image) ==
    /\ pixels' = image.pixels
    /\ sequence' = image.sequence
    /\ changes' = <<>>
    /\ cacheDirty' = TRUE
    /\ UNCHANGED cachedRle

----------------------------------------------------------------------------
(* toJson *)

NoSince == -1           \* the request has no "since" parameter

(* Mutant of CanServeDiff: off by one at the front of the log. *)
CanServeDiffOffByOne(since) ==
    \/ since >= sequence
    \/ /\ since # 0
       /\ changes # <<>>
       /\ since >= changes[1].sequence - 2

CanServeDiff(since) ==
    \/ since >= sequence
    \/ /\ since # 0
       /\ changes # <<>>
       /\ since >= changes[1].sequence - 1

(* Mutant of DiffChanges: the first change after `since' is skipped. *)
DiffChangesSkipFirst(since) ==
    [i \in {j \in DOMAIN changes : changes[j].sequence > since + 1} |-> changes[i]]

DiffChanges(since) ==
    [i \in {j \in DOMAIN changes : changes[j].sequence > since} |-> changes[i]]

ServesDiff(since) == since # NoSince /\ CanServeDiff(since)

RebuiltCache == IF cacheDirty THEN Runs(pixels) ELSE cachedRle

MapReply(since) ==
    IF ServesDiff(since)
    THEN [type |-> "diff", sequence |-> sequence, changes |-> DiffChanges(since)]
    ELSE [type |-> "full", sequence |-> sequence, data |-> RebuiltCache]

(* A full reply rebuilds the cache; a diff leaves it alone. *)
ToJson(since) ==
    /\ IF ServesDiff(since)
       THEN UNCHANGED <<cacheDirty, cachedRle>>
       ELSE cacheDirty' = FALSE /\ cachedRle' = RebuiltCache
    /\ UNCHANGED <<pixels, sequence, changes>>

============================================================================
