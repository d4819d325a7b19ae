------------------------------ MODULE MapFile ------------------------------
(***************************************************************************)
(* The map.pwm file format of PixelMap::saveBinary and PixelMap::loadBinary *)
(* and the run-length code that it shares with the "data" field of a full  *)
(* map reply.  Pure definitions: no state.                                 *)
(*                                                                         *)
(* A file is a record of the header fields and the sequence of its runs.   *)
(* The unit of writing is a token: token 0 is the whole header, token i    *)
(* the i-th run.  A token cut in the middle fails the read that meets it   *)
(* exactly as a missing token does, so bytes inside a token are not told   *)
(* apart.  A hole (a part of the file that was skipped by a writer whose   *)
(* offset lay beyond a truncation) reads as zero bytes.                    *)
(***************************************************************************)
EXTENDS Integers, Sequences, FiniteSetsExt, Functions

CONSTANTS Width,        \* columns of the map (server.json "map_width")
          Height,       \* rows of the map
          PaletteSize,  \* number of colours
          MaxRun        \* largest count of one run: 2^32 - 1 in the code

ASSUME DimensionAssumption ==
    /\ Width \in Nat \ {0}
    /\ Height \in Nat \ {0}
    /\ PaletteSize \in Nat \ {0}
    /\ MaxRun \in Nat \ {0}

Size    == Width * Height
Cells   == 0 .. (Size - 1)
Columns == 0 .. (Width - 1)
Rows    == 0 .. (Height - 1)
Colors  == 0 .. (PaletteSize - 1)
Pixmaps == [Cells -> Colors]
Images  == [pixels : Pixmaps, sequence : Nat]

Blank      == [c \in Cells |-> 0]
BlankImage == [pixels |-> Blank, sequence |-> 0]

Index(x, y) == y * Width + x

----------------------------------------------------------------------------
(* Run-length encoding: greedy runs from the first cell on, cut at MaxRun. *)

Same(p, i, n)   == \A j \in i .. (i + n - 1) : p[j] = p[i]
RunLength(p, i) == Max({n \in 1 .. (Size - i) : n <= MaxRun /\ Same(p, i, n)})

(* A constant function, which TLC computes once for all maps. *)
RunsOf ==
    [p \in Pixmaps |->
        LET from[i \in 0 .. Size] ==
              IF i = Size THEN <<>>
              ELSE <<[color |-> p[i], count |-> RunLength(p, i)]>>
                   \o from[i + RunLength(p, i)]
        IN  from[0]]

Runs(p) == RunsOf[p]

CellsBefore(runs, i) == SumFunction([j \in 1 .. i |-> runs[j].count])

Covers(runs, i, c) == CellsBefore(runs, i - 1) <= c /\ c < CellsBefore(runs, i)

----------------------------------------------------------------------------
(* Writing. *)

FileOf(image) ==
    [magic    |-> TRUE,
     width    |-> Width,
     height   |-> Height,
     sequence |-> image.sequence,
     palette  |-> PaletteSize,
     runCount |-> Len(Runs(image.pixels)),
     runs     |-> Runs(image.pixels)]

Tokens(image) == 0 .. Len(Runs(image.pixels))

Hole == [color |-> 0, count |-> 0]

(* The file when only the tokens in `written' of the image are in it. *)
Content(image, written) ==
    [FileOf(image) EXCEPT
        !.magic = 0 \in written,
        !.runs  = [i \in 1 .. Max(written \cup {0}) |->
                     IF i \in written THEN @[i] ELSE Hole]]

----------------------------------------------------------------------------
(* Two ways to get the checks of loadBinary wrong, for the mutants of      *)
(* PROJECT.json: the bound on a run excludes the last cell, the final size *)
(* check is missing.                                                       *)

LoadsStrictly(file) ==
    /\ file.magic
    /\ file.width = Width /\ file.height = Height /\ file.palette = PaletteSize
    /\ file.runCount <= Len(file.runs)
    /\ \A i \in 1 .. file.runCount :
          file.runs[i].color < PaletteSize /\ CellsBefore(file.runs, i) < Size

LoadsWithoutSizeCheck(file) ==
    /\ file.magic
    /\ file.width = Width /\ file.height = Height /\ file.palette = PaletteSize
    /\ file.runCount <= Len(file.runs)
    /\ \A i \in 1 .. file.runCount :
          file.runs[i].color < PaletteSize /\ CellsBefore(file.runs, i) <= Size

(* Reading.  `Loads' collects every early "return false" of loadBinary.    *)

Loads(file) ==
    /\ file.magic
    /\ file.width = Width
    /\ file.height = Height
    /\ file.palette = PaletteSize
    /\ file.runCount <= Len(file.runs)
    /\ \A i \in 1 .. file.runCount :
          /\ file.runs[i].color < PaletteSize
          /\ CellsBefore(file.runs, i) <= Size
    /\ CellsBefore(file.runs, file.runCount) = Size

LoadedPixels(file) ==
    [c \in Cells |->
        file.runs[CHOOSE i \in 1 .. file.runCount : Covers(file.runs, i, c)].color]

LoadedImage(file) ==
    [pixels |-> LoadedPixels(file), sequence |-> file.sequence]

============================================================================
