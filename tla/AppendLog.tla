----------------------------- MODULE AppendLog -----------------------------
(***************************************************************************)
(* storage::PixelHistory and storage::AuditLog, which differ in the fields *)
(* of an entry only: the last maxEntries_ entries in memory, and a file to *)
(* which every append adds a line.                                         *)
(*                                                                         *)
(* The file is the sequence of the pieces that appends have left in it.  A *)
(* piece may lack its end, when the disk was full or the machine died; the *)
(* next append then goes on in the same line.  Of a piece only the tabs    *)
(* count, since load() tells lines apart by the number of their fields:    *)
(* what is cut within a field, or glued to one, becomes another entry.     *)
(***************************************************************************)
EXTENDS Integers, Sequences, FiniteSetsExt, Functions

CONSTANTS
    Fields,         \* fields of a line: 6 in the history, 4 in the audit log
    MaxEntries      \* maxEntries_

VARIABLES
    entries,        \* entries_: oldest first
    pieces,         \* the file
    appended        \* history variable: every append, and how it fared

logVars == <<entries, pieces, appended>>

Entry(what, exact) == [what |-> what, exact |-> exact]

WholePiece(what) ==
    [what |-> what, tabs |-> Fields - 1, exact |-> TRUE, ended |-> TRUE]

(* A line that ends in one of its fields, or lacks only its newline.       *)
CutPieces(what) ==
    [what : {what}, tabs : 0 .. (Fields - 1), exact : {FALSE}, ended : {FALSE}]
    \cup {[WholePiece(what) EXCEPT !.ended = FALSE]}

----------------------------------------------------------------------------
(* Mutant of Latest: the oldest entries stay, the new one is dropped. *)
Earliest(log) == IF Len(log) > MaxEntries THEN SubSeq(log, 1, MaxEntries) ELSE log

Latest(log) ==
    IF Len(log) > MaxEntries
    THEN SubSeq(log, Len(log) - MaxEntries + 1, Len(log))
    ELSE log

Remember(what, fate) == appended' = Append(appended, [what |-> what, fate |-> fate])

Show(what) == entries' = Latest(Append(entries, Entry(what, TRUE)))

(* append *)
AppendEntry(what) ==
    /\ Show(what)
    /\ pieces' = Append(pieces, WholePiece(what))
    /\ Remember(what, "whole")

(* The file cannot be opened, which append passes over in silence. *)
AppendMissed(what) ==
    /\ Show(what)
    /\ UNCHANGED pieces
    /\ Remember(what, "missed")

(* The disk refuses the end of the line; the stream is not looked at. *)
AppendCut(what) ==
    /\ Show(what)
    /\ \E piece \in CutPieces(what) : pieces' = Append(pieces, piece)
    /\ Remember(what, "cut")

(* The machine dies while the line is being written. *)
DieAppending(what) ==
    /\ \E piece \in CutPieces(what) : pieces' = Append(pieces, piece)
    /\ Remember(what, "cut")
    /\ UNCHANGED entries

----------------------------------------------------------------------------
(* load: a line is what lies between two newlines. *)

LineEnds == {i \in DOMAIN pieces : pieces[i].ended \/ i = Len(pieces)}

LineStart(i) == Max({1} \cup {j + 1 : j \in {k \in 1 .. (i - 1) : pieces[k].ended}})

Tabs(i) == SumFunction([j \in LineStart(i) .. i |-> pieces[j].tabs])

Readable == {i \in LineEnds : Tabs(i) = Fields - 1}

EntryAt(i) == Entry(pieces[i].what, LineStart(i) = i /\ pieces[i].exact)

(* The n-th of some positions. *)
Nth(positions, n) ==
    CHOOSE i \in positions : Cardinality({j \in positions : j <= i}) = n

(* Mutant of Loaded: the newest line comes first. *)
LoadedNewestFirst ==
    LET count == Cardinality(Readable)
    IN  Latest([n \in 1 .. count |-> EntryAt(Nth(Readable, count + 1 - n))])

Loaded ==
    Latest([n \in 1 .. Cardinality(Readable) |-> EntryAt(Nth(Readable, n))])

Load == entries' = Loaded /\ UNCHANGED <<pieces, appended>>

(* What earlier lives of the server left: nothing, or one entry. *)
StartsEmpty == pieces = <<>> /\ appended = <<>> /\ entries = <<>>

StartsWith(what) ==
    /\ pieces = <<WholePiece(what)>>
    /\ appended = <<[what |-> what, fate |-> "whole"]>>
    /\ entries = Loaded

----------------------------------------------------------------------------
(* What a log promises. *)

(* The line of append i was glued to one that was cut before it. *)
Glued(i) ==
    \E j \in 1 .. (i - 1) :
        /\ appended[j].fate = "cut"
        /\ \A k \in (j + 1) .. (i - 1) : appended[k].fate = "missed"

Unharmed(i) == appended[i].fate = "whole" /\ ~Glued(i)

Recent == {i \in DOMAIN appended : i > Len(appended) - MaxEntries}

(* A harmed append costs itself and at most the one behind it.  Nothing is *)
(* said of an entry in memory whose line was missed by the file.           *)
ShowsRecent ==
    \A i \in Recent : Unharmed(i) => Entry(appended[i].what, TRUE) \in Range(entries)

(* What is shown as it was appended is shown once and in that order; only  *)
(* a line that was cut or glued is shown as something else.                *)
ShowsNothingElse ==
    /\ \A n \in DOMAIN entries :
          \E i \in DOMAIN appended :
             /\ appended[i].what = entries[n].what
             /\ Unharmed(i) => entries[n].exact
    /\ \A m, n \in DOMAIN entries :
          m < n => \E i, j \in DOMAIN appended :
                      /\ i < j
                      /\ appended[i].what = entries[m].what
                      /\ appended[j].what = entries[n].what

============================================================================
