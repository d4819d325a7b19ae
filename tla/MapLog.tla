------------------------------- MODULE MapLog -------------------------------
(***************************************************************************)
(* What the log of changes and the cached encoding say about the map, in   *)
(* any system built from the methods of PixelMap: the parts that the       *)
(* invariants of such systems are made of.                                 *)
(***************************************************************************)
EXTENDS PixelMap, MapPayload

(* The cached encoding is that of the current map unless the dirty flag    *)
(* says otherwise: no write, not even one that repeats the colour of a     *)
(* cell, lets toJson serve the encoding of an older map.                   *)
CacheFresh == ~cacheDirty => cachedRle = Runs(pixels)

(* The sequence number just before the oldest change of the log. *)
Base == sequence - Len(changes)

LogIsContiguous ==
    /\ Base >= 0
    /\ \A i \in DOMAIN changes : changes[i].sequence = Base + i

LastChangeIsShown ==
    \A c \in Cells :
        /\ \A i \in DOMAIN changes :
              LastTouch(changes, i, c) => pixels[c] = changes[i].color
        /\ (\E i \in DOMAIN changes : Touches(changes, i, c))
              => \E i \in DOMAIN changes : LastTouch(changes, i, c)

(* The changes are numbered without a gap up to the current number, and a  *)
(* cell shows the last of them that names it.                              *)
LogInOrder == LogIsContiguous /\ LastChangeIsShown

UntouchedSince(s, c) ==
    \A i \in DOMAIN changes : changes[i].sequence > s => ~Touches(changes, i, c)

(* A page that was the map at number s, if the log goes back to s: it    *)
(* shows each cell that no later change names as the map does now.         *)
AgreesSince(page, s) ==
    s \in Base .. sequence =>
        \A c \in Cells : UntouchedSince(s, c) => page[c] = pixels[c]

=============================================================================
