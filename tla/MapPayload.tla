----------------------------- MODULE MapPayload -----------------------------
(***************************************************************************)
(* What the browser (public/app.js) makes of a map payload: decodeRle,     *)
(* applyDiff and the two branches of applyMapPayload.  Pure definitions.   *)
(*                                                                         *)
(* The changes of a diff are a function from positions (a set of integers, *)
(* applied in increasing order) to records [sequence, x, y, color].        *)
(***************************************************************************)
EXTENDS MapFile

(* Mutant of DecodeRle: the loop bound loses the last run. *)
DecodeRleShort(runs) ==
    [c \in Cells |->
        IF \E i \in 1 .. (Len(runs) - 1) : Covers(runs, i, c)
        THEN runs[CHOOSE i \in 1 .. (Len(runs) - 1) : Covers(runs, i, c)].color
        ELSE 0]

(* Uint8Array(totalPixels) starts as zeros; fill() ignores what lies past  *)
(* its end.  A count is put together with << 24 (app.js:175), which is     *)
(* negative from 2^31 on: the maps considered have fewer cells.            *)
DecodeRle(runs) ==
    [c \in Cells |->
        IF \E i \in 1 .. Len(runs) : Covers(runs, i, c)
        THEN runs[CHOOSE i \in 1 .. Len(runs) : Covers(runs, i, c)].color
        ELSE 0]

CellOf(change) == Index(change.x, change.y)

Touches(ds, i, c) == i \in DOMAIN ds /\ CellOf(ds[i]) = c

(* Position i is the last one of ds that writes cell c. *)
LastTouch(ds, i, c) ==
    /\ Touches(ds, i, c)
    /\ \A j \in DOMAIN ds : j > i => ~Touches(ds, j, c)

(* Applying the changes one after the other leaves, in each cell, the      *)
(* colour of the last change that writes it.                               *)
ApplyDiff(p, ds) ==
    [c \in Cells |->
        IF \E i \in DOMAIN ds : Touches(ds, i, c)
        THEN ds[CHOOSE i \in DOMAIN ds : LastTouch(ds, i, c)].color
        ELSE p[c]]

ApplyPayload(p, payload) ==
    IF payload.type = "full" THEN DecodeRle(payload.data)
                             ELSE ApplyDiff(p, payload.changes)

============================================================================
