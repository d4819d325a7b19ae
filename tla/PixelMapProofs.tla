--------------------------- MODULE PixelMapProofs ---------------------------
(***************************************************************************)
(* For every size of the map, every palette and every bound on a run: what *)
(* the run-length code makes of a map, that loadBinary gives back what     *)
(* saveBinary wrote and refuses a file with a token missing, and what the  *)
(* methods of the map keep: its types, its cache and the order of its log, *)
(* so that a page has the map after any reply.  The modules that compose   *)
(* PixelMap build on it.                                                   *)
(***************************************************************************)
EXTENDS MapLog, SumTheorems, SequenceTheorems

USE DimensionAssumption, MaxChangesAssumption

----------------------------------------------------------------------------
(* Numbers and cells. *)

(* A map has at least one cell. *)
LEMMA SizeIsPositive == Size \in Nat \ {0}
  BY SMT DEF Size

(* A set of numbers with a bound has a greatest one. *)
LEMMA GreatestNumber ==
    ASSUME NEW k \in Nat, NEW T \in SUBSET (0 .. k), T # {}
    PROVE  Max(T) \in T /\ \A n \in T : n <= Max(T)
<1> DEFINE below == {k - n : n \in T}
<1>1. below \in SUBSET Nat /\ below # {}
  <2>1. \A n \in T : k - n \in Nat
    OBVIOUS
  <2>2. PICK n \in T : TRUE
    OBVIOUS
  <2>3. k - n \in below
    BY <2>2
  <2>4. QED  BY <2>1, <2>3
<1>2. PICK least \in below : \A n \in below : least <= n
  <2> HIDE DEF below
  <2>1. QED  BY <1>1, LeastNumber
<1>3. PICK m \in T : least = k - m
  OBVIOUS
<1>4. \A n \in T : m >= n
  <2> SUFFICES ASSUME NEW n \in T PROVE m >= n
    OBVIOUS
  <2>1. least <= k - n
    BY <1>2
  <2>2. QED  BY <1>3, <2>1
<1>5. Max(T) \in T /\ \A n \in T : Max(T) >= n
  BY <1>4 DEF Max
<1>6. QED  BY <1>5

(* A run has at least the cell it starts at, and one colour. *)
LEMMA RunLengths ==
    ASSUME NEW p \in Pixmaps, NEW i \in 0 .. (Size - 1)
    PROVE  /\ RunLength(p, i) \in 1 .. (Size - i)
           /\ RunLength(p, i) <= MaxRun
           /\ Same(p, i, RunLength(p, i))
<1> DEFINE lengths == {n \in 1 .. (Size - i) : n <= MaxRun /\ Same(p, i, n)}
<1>1. 1 \in lengths
  BY SizeIsPositive DEF Same
<1>2. Max(lengths) \in lengths
  <2>1. lengths \in SUBSET (0 .. Size)
    BY SizeIsPositive
  <2> HIDE DEF lengths
  <2>2. QED  BY <1>1, <2>1, SizeIsPositive, GreatestNumber
<1>3. RunLength(p, i) = Max(lengths)
  BY DEF RunLength
<1>4. QED
  BY <1>2, <1>3

----------------------------------------------------------------------------
(* The recursive function of RunsOf. *)

Run(p, i) == [color |-> p[i], count |-> RunLength(p, i)]

(* f[i] are the runs from cell i on. *)
RunsStep(p, f, i) ==
    IF i = Size THEN <<>> ELSE <<Run(p, i)>> \o f[i + RunLength(p, i)]

RunsFrom(p, f) == f = [i \in 0 .. Size |-> RunsStep(p, f, i)]

(* RunsOf chooses such a function. *)
LEMMA RunsUnfolded ==
    ASSUME NEW p \in Pixmaps
    PROVE  Runs(p) = (CHOOSE f : RunsFrom(p, f))[0]
BY DEF Runs, RunsOf, RunsFrom, RunsStep, Run

(* There is one: the runs from cell n + 1 on give those from cell n on. *)
LEMMA RunsExist ==
    ASSUME NEW p \in Pixmaps
    PROVE  \E f : RunsFrom(p, f)
<1> DEFINE since(n, f) == \A i \in n .. Size : f[i] = RunsStep(p, f, i)
           missing == {m \in Nat : m <= Size /\ ~ \E f : since(Size - m, f)}
<1>1. Size \in Nat \ {0}
  BY SizeIsPositive
<1>2. missing = {}
  <2> SUFFICES ASSUME missing # {} PROVE FALSE
    OBVIOUS
  <2>1. PICK m \in missing : \A k \in missing : m <= k
    BY LeastNumber
  <2>2. m \in Nat /\ m <= Size
    OBVIOUS
  <2>3. m # 0
    <3>1. since(Size, [i \in {Size} |-> <<>>])
      BY <1>1 DEF RunsStep
    <3>2. Size - 0 = Size
      BY <1>1
    <3> HIDE DEF since
    <3>3. QED  BY <3>1, <3>2
  <2>4. PICK f : since(Size - (m - 1), f)
    <3>1. m - 1 \in Nat /\ m - 1 <= Size /\ ~(m <= m - 1)
      BY <1>1, <2>2, <2>3
    <3> HIDE DEF since
    <3>2. QED  BY <2>1, <3>1
  <2> DEFINE n == Size - m
             h == [i \in 0 .. Size |-> IF i = n THEN RunsStep(p, f, n) ELSE f[i]]
  <2>5. n \in 0 .. (Size - 1) /\ Size - (m - 1) = n + 1
    BY <1>1, <2>2, <2>3
  <2>6. since(n, h)
    <3> SUFFICES ASSUME NEW i \in n .. Size PROVE h[i] = RunsStep(p, h, i)
      OBVIOUS
    <3>1. i \in 0 .. Size
      BY <2>5
    <3>2. h[i] = RunsStep(p, f, i)
      BY <2>4, <2>5, <3>1
    <3>3. RunsStep(p, h, i) = RunsStep(p, f, i)
      <4>1. CASE i = Size
        BY <4>1 DEF RunsStep
      <4>2. CASE i # Size
        <5>1. i \in 0 .. (Size - 1)
          BY <1>1, <3>1, <4>2
        <5>2. i + RunLength(p, i) \in 0 .. Size /\ i + RunLength(p, i) # n
          BY <1>1, <2>5, <5>1, RunLengths
        <5>3. h[i + RunLength(p, i)] = f[i + RunLength(p, i)]
          BY <5>2
        <5> HIDE DEF h
        <5>4. QED  BY <5>3 DEF RunsStep
      <4>3. QED  BY <4>1, <4>2
    <3> HIDE DEF h
    <3>4. QED  BY <3>2, <3>3
  <2> HIDE DEF since, h
  <2>7. QED  BY <2>6
<1>3. PICK g : since(0, g)
  <2>1. Size \in Nat /\ Size <= Size /\ Size - Size = 0
    BY <1>1
  <2> HIDE DEF since
  <2>2. QED  BY <1>2, <2>1
<1> DEFINE f == [i \in 0 .. Size |-> g[i]]
<1>4. ASSUME NEW i \in 0 .. Size PROVE f[i] = RunsStep(p, f, i)
  <2>1. f[i] = RunsStep(p, g, i)
    BY <1>3
  <2>2. CASE i = Size
    BY <2>1, <2>2 DEF RunsStep
  <2>3. CASE i # Size
    <3>1. i \in 0 .. (Size - 1)
      BY <1>1, <2>3
    <3>2. i + RunLength(p, i) \in 0 .. Size
      BY <1>1, <3>1, RunLengths
    <3>3. f[i + RunLength(p, i)] = g[i + RunLength(p, i)]
      BY <3>2
    <3> HIDE DEF f
    <3>4. QED  BY <2>1, <3>3 DEF RunsStep
  <2>4. QED  BY <2>2, <2>3
<1>5. f = [i \in 0 .. Size |-> f[i]]
  OBVIOUS
<1> HIDE DEF f
<1>6. f = [i \in 0 .. Size |-> RunsStep(p, f, i)]
  BY <1>4, <1>5
<1>7. QED  BY <1>6 DEF RunsFrom

----------------------------------------------------------------------------
(* The cells before a run. *)

RunRecords == [color : Colors, count : Nat \ {0}]

CountsOf(runs, n) == \A j \in 1 .. n : runs[j].count \in Nat

(* A sequence of runs counts cells. *)
LEMMA RunsCount ==
    ASSUME NEW runs \in Seq(RunRecords) PROVE CountsOf(runs, Len(runs))
<1>1. \A run \in RunRecords : run.count \in Nat
  BY DEF RunRecords
<1>2. \A k \in 1 .. Len(runs) : runs[k] \in RunRecords
  OBVIOUS
<1>3. QED  BY <1>1, <1>2 DEF CountsOf

(* No cell is before the first run. *)
LEMMA NoCells == ASSUME NEW runs PROVE CellsBefore(runs, 0) = 0
<1> DEFINE f == [j \in {} |-> runs[j].count]
<1>1. 1 .. 0 = {}
  OBVIOUS
<1>2. CellsBefore(runs, 0) = SumFunction(f)
  BY <1>1 DEF CellsBefore
<1>3. f = [x \in {} |-> f[x]]
  OBVIOUS
<1> HIDE DEF f
<1>4. SumFunction(f) = SumOver(f, {})
  BY <1>3 DEF SumOver
<1>5. QED  BY <1>2, <1>4, SumOverEmpty

(* The cells before run n + 1 are a part of the sum of more runs. *)
LEMMA CellsAreSum ==
    ASSUME NEW n \in Nat, NEW i \in 0 .. n, NEW runs
    PROVE  CellsBefore(runs, i) = SumOver([j \in 1 .. n |-> runs[j].count], 1 .. i)
<1>1. \A x \in 1 .. i : x \in 1 .. n
  OBVIOUS
<1>2. [j \in 1 .. i |-> runs[j].count]
         = [x \in 1 .. i |-> [j \in 1 .. n |-> runs[j].count][x]]
  BY <1>1
<1>3. QED  BY <1>2 DEF CellsBefore, SumOver

(* Each run adds its cells. *)
LEMMA NextCells ==
    ASSUME NEW n \in Nat, NEW runs, CountsOf(runs, n + 1)
    PROVE  /\ CellsBefore(runs, n) \in Nat
           /\ CellsBefore(runs, n + 1) = CellsBefore(runs, n) + runs[n + 1].count
<1> DEFINE f == [j \in 1 .. (n + 1) |-> runs[j].count]
           S == 1 .. n
<1>1. /\ IsFiniteSet(S) /\ S \in SUBSET S /\ n + 1 \notin S
      /\ S \cup {n + 1} = 1 .. (n + 1)
  <2>1. IsFiniteSet(S)
    BY FS_Interval
  <2>2. S \in SUBSET S /\ n + 1 \notin S
    OBVIOUS
  <2>3. S \cup {n + 1} = 1 .. (n + 1)
    OBVIOUS
  <2>4. QED  BY <2>1, <2>2, <2>3
<1>2. /\ \A x \in S \cup {n + 1} : f[x] \in Int
      /\ \A x \in S : f[x] \in Nat
  BY DEF CountsOf
<1>3. /\ CellsBefore(runs, n) = SumOver(f, S)
      /\ CellsBefore(runs, n + 1) = SumOver(f, S \cup {n + 1})
  <2>1. n + 1 \in Nat /\ n \in 0 .. (n + 1) /\ n + 1 \in 0 .. (n + 1)
    OBVIOUS
  <2>2. CellsBefore(runs, n) = SumOver(f, 1 .. n)
    BY <2>1, CellsAreSum
  <2>3. CellsBefore(runs, n + 1) = SumOver(f, 1 .. (n + 1))
    BY <2>1, CellsAreSum
  <2> HIDE DEF f
  <2>4. QED  BY <1>1, <2>2, <2>3
<1>4. f[n + 1] = runs[n + 1].count
  OBVIOUS
<1> HIDE DEF f, S
<1>5. SumOver(f, S \cup {n + 1}) = SumOver(f, S) + f[n + 1]
  BY <1>1, <1>2, SumOverAdd
<1>6. SumOver(f, S) \in Nat
  BY <1>1, <1>2, SumOverSubset
<1>7. QED  BY <1>3, <1>4, <1>5, <1>6

(* More runs have more cells. *)
LEMMA CellsGrow ==
    ASSUME NEW n \in Nat, NEW runs, CountsOf(runs, n), NEW j \in 0 .. n, NEW i \in 0 .. j
    PROVE  /\ CellsBefore(runs, i) \in Nat
           /\ CellsBefore(runs, j) \in Nat
           /\ CellsBefore(runs, i) <= CellsBefore(runs, j)
<1> DEFINE f == [k \in 1 .. n |-> runs[k].count]
           S == 1 .. j
           U == 1 .. i
<1>1. IsFiniteSet(S) /\ U \in SUBSET S /\ S \in SUBSET S
  BY FS_Interval
<1>2. \A x \in S : f[x] \in Nat
  BY DEF CountsOf
<1>3. CellsBefore(runs, i) = SumOver(f, U) /\ CellsBefore(runs, j) = SumOver(f, S)
  BY CellsAreSum
<1> HIDE DEF f, S, U
<1>4. QED  BY <1>1, <1>2, <1>3, SumOverSubset

(* A run put in front moves the others on by its cells. *)
LEMMA CellsBehind ==
    ASSUME NEW runs \in Seq(RunRecords), NEW run \in RunRecords
    PROVE  \A k \in 0 .. Len(runs) :
              CellsBefore(<<run>> \o runs, k + 1) = run.count + CellsBefore(runs, k)
<1> DEFINE all   == <<run>> \o runs
           wrong == {k \in 0 .. Len(runs) :
                        CellsBefore(all, k + 1) # run.count + CellsBefore(runs, k)}
<1>1. /\ all \in Seq(RunRecords) /\ Len(all) = Len(runs) + 1 /\ Len(runs) \in Nat
      /\ all[1] = run /\ \A k \in 1 .. Len(runs) : all[k + 1] = runs[k]
  OBVIOUS
<1>2. /\ \A k \in 1 .. Len(all) : all[k].count \in Nat
      /\ \A k \in 1 .. Len(runs) : runs[k].count \in Nat
      /\ run.count \in Nat
  <2>1. \A r \in RunRecords : r.count \in Nat
    BY DEF RunRecords
  <2> HIDE DEF all
  <2>2. \A k \in 1 .. Len(all) : all[k] \in RunRecords
    BY <1>1
  <2>3. \A k \in 1 .. Len(runs) : runs[k] \in RunRecords
    OBVIOUS
  <2>4. QED  BY <2>1, <2>2, <2>3
<1> HIDE DEF all
<1>3. wrong = {}
  <2> SUFFICES ASSUME wrong # {} PROVE FALSE
    OBVIOUS
  <2>1. PICK k \in wrong : \A m \in wrong : k <= m
    <3>1. wrong \in SUBSET Nat
      BY <1>1
    <3> HIDE DEF wrong
    <3>2. QED  BY <3>1, LeastNumber
  <2>2. k \in 0 .. Len(runs) /\ CellsBefore(all, k + 1) # run.count + CellsBefore(runs, k)
    OBVIOUS
  <2>3. CASE k = 0
    <3>1. CellsBefore(all, 0) = 0 /\ CellsBefore(runs, 0) = 0
      BY NoCells
    <3>2. CellsBefore(all, 0 + 1) = CellsBefore(all, 0) + all[0 + 1].count
      <4>1. CountsOf(all, 0 + 1)
        BY <1>1, <1>2 DEF CountsOf
      <4>2. QED  BY <4>1, NextCells
    <3>3. QED  BY <1>1, <1>2, <2>2, <2>3, <3>1, <3>2
  <2>4. CASE k # 0
    <3> DEFINE j == k - 1
    <3>1. j \in Nat /\ k \in Nat /\ j + 1 = k /\ k \in 1 .. Len(runs)
      BY <1>1, <2>2, <2>4
    <3>2. j \in 0 .. Len(runs) /\ ~(k <= j)
      BY <1>1, <3>1
    <3>3. CellsBefore(all, j + 1) = run.count + CellsBefore(runs, j)
      BY <2>1, <3>2
    <3> HIDE DEF j
    <3>4. /\ CellsBefore(all, k) \in Nat
          /\ CellsBefore(all, k + 1) = CellsBefore(all, k) + all[k + 1].count
      <4>1. CountsOf(all, k + 1)
        BY <1>1, <1>2, <3>1 DEF CountsOf
      <4>2. QED  BY <3>1, <4>1, NextCells
    <3>5. /\ CellsBefore(runs, j) \in Nat
          /\ CellsBefore(runs, j + 1) = CellsBefore(runs, j) + runs[j + 1].count
      <4>1. CountsOf(runs, j + 1)
        BY <1>1, <1>2, <3>1 DEF CountsOf
      <4>2. QED  BY <3>1, <4>1, NextCells
    <3>6. all[k + 1].count = runs[k].count /\ runs[k].count \in Nat
      BY <1>1, <1>2, <3>1
    <3>7. CellsBefore(all, k + 1) = run.count + CellsBefore(runs, k)
      <4>1. run.count \in Int
        BY <1>2
      <4>2. CellsBefore(runs, k) = CellsBefore(runs, j) + runs[k].count
        BY <3>1, <3>5
      <4>3. CellsBefore(all, k) = run.count + CellsBefore(runs, j)
        BY <3>1, <3>3
      <4>4. /\ CellsBefore(all, k + 1) = CellsBefore(all, k) + runs[k].count
            /\ CellsBefore(runs, j) \in Int /\ runs[k].count \in Int
        BY <3>4, <3>5, <3>6
      <4>5. QED  BY ONLY <4>1, <4>2, <4>3, <4>4
    <3>8. QED  BY <2>2, <3>7
  <2>5. QED  BY <2>3, <2>4
<1>4. QED  BY <1>3 DEF all

----------------------------------------------------------------------------
(* What the runs say of the map. *)

(* The runs from cell i on end at the last cell, and have its colours. *)
Encodes(p, i, runs) ==
    /\ runs \in Seq(RunRecords)
    /\ \A k \in 1 .. Len(runs) : runs[k].count <= MaxRun
    /\ CellsBefore(runs, Len(runs)) = Size - i
    /\ \A k \in 1 .. Len(runs), n \in Nat :
          CellsBefore(runs, k - 1) <= n /\ n < CellsBefore(runs, k)
             => p[i + n] = runs[k].color

(* No run encodes no cell. *)
LEMMA EncodesNone == ASSUME NEW p PROVE Encodes(p, Size, <<>>)
<1>1. <<>> \in Seq(RunRecords) /\ Len(<<>>) = 0
  OBVIOUS
<1>2. 1 .. 0 = {} /\ Size - Size = 0
  BY SizeIsPositive
<1>3. QED  BY <1>1, <1>2, NoCells DEF Encodes

(* One more run encodes the cells in front. *)
LEMMA EncodesMore ==
    ASSUME NEW p \in Pixmaps, NEW i \in 0 .. (Size - 1), NEW runs,
           Encodes(p, i + RunLength(p, i), runs)
    PROVE  Encodes(p, i, <<Run(p, i)>> \o runs)
<1> DEFINE run == Run(p, i)
           all == <<run>> \o runs
           j   == i + RunLength(p, i)
<1>1. /\ RunLength(p, i) \in 1 .. (Size - i) /\ RunLength(p, i) <= MaxRun
      /\ \A c \in i .. (i + RunLength(p, i) - 1) : p[c] = p[i]
  BY RunLengths DEF Same
<1>2. Size \in Nat \ {0}
  BY SizeIsPositive
<1>3. run \in RunRecords /\ run.color = p[i] /\ run.count = RunLength(p, i)
  <2>1. p[i] \in Colors
    BY DEF Pixmaps, Cells
  <2>2. QED  BY <1>1, <1>2, <2>1 DEF Run, RunRecords
<1>4. runs \in Seq(RunRecords) /\ Encodes(p, j, runs)
  BY DEF Encodes
<1>5. /\ all \in Seq(RunRecords) /\ Len(all) = Len(runs) + 1 /\ Len(runs) \in Nat
      /\ all[1] = run /\ \A k \in 1 .. Len(runs) : all[k + 1] = runs[k]
  <2> HIDE DEF run
  <2>1. QED  BY <1>3, <1>4
<1>6. \A k \in 0 .. Len(runs) : CellsBefore(all, k + 1) = run.count + CellsBefore(runs, k)
  <2> HIDE DEF run
  <2>1. QED  BY <1>3, <1>4, CellsBehind
<1>7. CountsOf(runs, Len(runs))
  BY <1>4, RunsCount
<1>8. \A k \in 0 .. Len(runs) : CellsBefore(runs, k) \in Nat
  <2>1. \A k \in 0 .. Len(runs) : 0 \in 0 .. k /\ k \in 0 .. k
    BY <1>5
  <2>2. QED  BY <1>5, <1>7, <2>1, CellsGrow
<1>9. CellsBefore(all, 1) = run.count
  <2>1. 0 \in 0 .. Len(runs) /\ CellsBefore(runs, 0) = 0 /\ 0 + 1 = 1
    BY <1>5, NoCells
  <2>2. CellsBefore(all, 0 + 1) = run.count + CellsBefore(runs, 0)
    BY <1>6, <2>1
  <2>3. run.count \in Nat
    BY <1>1, <1>2, <1>3
  <2> HIDE DEF all, run
  <2>4. QED  BY <2>1, <2>2, <2>3
<1> HIDE DEF all, run
<1>10. CellsBefore(all, Len(all)) = Size - i
  <2>1. CellsBefore(runs, Len(runs)) = Size - j
    BY <1>4 DEF Encodes
  <2>2. CellsBefore(all, Len(runs) + 1) = run.count + (Size - j)
    BY <1>5, <1>6, <2>1
  <2>3. run.count + (Size - j) = Size - i
    BY <1>1, <1>2, <1>3
  <2>4. QED  BY <1>5, <2>2, <2>3
<1>11. \A k \in 1 .. Len(all) : all[k].count <= MaxRun
  <2> SUFFICES ASSUME NEW k \in 1 .. Len(all) PROVE all[k].count <= MaxRun
    OBVIOUS
  <2>1. CASE k = 1
    BY <1>1, <1>3, <1>5, <2>1
  <2>2. CASE k # 1
    <3>1. k - 1 \in 1 .. Len(runs) /\ (k - 1) + 1 = k
      BY <1>5, <2>2
    <3>2. runs[k - 1].count <= MaxRun
      BY <1>4, <3>1 DEF Encodes
    <3>3. all[k] = runs[k - 1]
      BY <1>5, <3>1
    <3>4. QED  BY <3>2, <3>3
  <2>3. QED  BY <2>1, <2>2
<1>12. ASSUME NEW k \in 1 .. Len(all), NEW n \in Nat,
              CellsBefore(all, k - 1) <= n, n < CellsBefore(all, k)
       PROVE  p[i + n] = all[k].color
  <2>1. CASE k = 1
    <3>1. n < RunLength(p, i)
      BY <1>3, <1>9, <1>12, <2>1
    <3>2. i + n \in i .. (i + RunLength(p, i) - 1)
      BY <1>1, <1>2, <3>1
    <3>3. p[i + n] = p[i]
      BY <1>1, <3>2
    <3>4. QED  BY <1>3, <1>5, <2>1, <3>3
  <2>2. CASE k # 1
    <3> DEFINE m == n - RunLength(p, i)
    <3>1. /\ k - 1 \in 1 .. Len(runs) /\ (k - 1) + 1 = k
          /\ k - 2 \in 0 .. Len(runs) /\ (k - 2) + 1 = k - 1 /\ (k - 1) - 1 = k - 2
          /\ k - 1 \in 0 .. Len(runs)
      BY <1>5, <2>2
    <3>2. /\ CellsBefore(all, k) = run.count + CellsBefore(runs, k - 1)
          /\ CellsBefore(all, k - 1) = run.count + CellsBefore(runs, k - 2)
      BY <1>6, <3>1
    <3>3. CellsBefore(runs, k - 1) \in Nat /\ CellsBefore(runs, k - 2) \in Nat
      BY <1>8, <3>1
    <3>4. /\ m \in Nat /\ CellsBefore(runs, k - 2) <= m /\ m < CellsBefore(runs, k - 1)
      BY <1>1, <1>2, <1>3, <1>12, <3>2, <3>3
    <3>5. i + n = j + m
      BY <1>1, <1>2
    <3> HIDE DEF m, j
    <3>6. p[j + m] = runs[k - 1].color
      BY <1>4, <3>1, <3>4 DEF Encodes
    <3>7. all[k] = runs[k - 1]
      BY <1>5, <3>1
    <3>8. QED  BY <3>5, <3>6, <3>7
  <2>3. QED  BY <2>1, <2>2
<1>13. Encodes(p, i, all)
  BY <1>5, <1>10, <1>11, <1>12 DEF Encodes
<1>14. QED  BY <1>13 DEF all, run

(* The runs of a map encode all of it. *)
LEMMA RunsEncode == \A p \in Pixmaps : Encodes(p, 0, Runs(p))
<1> SUFFICES ASSUME NEW p \in Pixmaps PROVE Encodes(p, 0, Runs(p))
  OBVIOUS
<1> DEFINE f == CHOOSE f : RunsFrom(p, f)
<1>1. RunsFrom(p, f) /\ Runs(p) = f[0]
  <2>1. RunsFrom(p, f)
    BY RunsExist
  <2>2. QED  BY <2>1, RunsUnfolded
<1> HIDE DEF f
<1>2. Size \in Nat \ {0}
  BY SizeIsPositive
<1> DEFINE wrong == {m \in 0 .. Size : ~Encodes(p, Size - m, f[Size - m])}
<1>3. wrong = {}
  <2> SUFFICES ASSUME wrong # {} PROVE FALSE
    OBVIOUS
  <2>1. PICK m \in wrong : \A k \in wrong : m <= k
    <3>1. wrong \in SUBSET Nat
      BY <1>2
    <3> HIDE DEF wrong
    <3>2. QED  BY <3>1, LeastNumber
  <2> DEFINE i == Size - m
  <2>2. m \in 0 .. Size /\ ~Encodes(p, i, f[i]) /\ i \in 0 .. Size
    BY <1>2
  <2>3. f[i] = RunsStep(p, f, i)
    BY <1>1, <2>2 DEF RunsFrom
  <2>4. CASE i = Size
    <3> HIDE DEF i
    <3>1. QED  BY <2>2, <2>3, <2>4, EncodesNone DEF RunsStep
  <2>5. CASE i # Size
    <3>1. i \in 0 .. (Size - 1)
      BY <1>2, <2>2, <2>5
    <3> DEFINE k == m - RunLength(p, i)
    <3>2. RunLength(p, i) \in 1 .. (Size - i)
      BY <3>1, RunLengths
    <3>3. k \in 0 .. Size /\ ~(m <= k) /\ Size - k = i + RunLength(p, i)
      BY <1>2, <2>2, <3>1, <3>2
    <3>4. Encodes(p, Size - k, f[Size - k])
      BY <2>1, <3>3
    <3>5. Encodes(p, i + RunLength(p, i), f[i + RunLength(p, i)])
      BY <3>3, <3>4
    <3> HIDE DEF i, k
    <3>6. Encodes(p, i, <<Run(p, i)>> \o f[i + RunLength(p, i)])
      BY <3>1, <3>5, EncodesMore
    <3>7. QED  BY <2>2, <2>3, <2>5, <3>6 DEF RunsStep
  <2>6. QED  BY <2>4, <2>5
<1>4. Size \in 0 .. Size /\ Size - Size = 0
  BY <1>2
<1>5. Encodes(p, 0, f[0])
  BY <1>3, <1>4
<1>6. QED  BY <1>1, <1>5

(* A map has at least one run, and its runs have all its cells. *)
LEMMA RunsOfMap ==
    ASSUME NEW p \in Pixmaps
    PROVE  /\ Runs(p) \in Seq(RunRecords) /\ Len(Runs(p)) \in Nat \ {0}
           /\ CellsBefore(Runs(p), Len(Runs(p))) = Size
           /\ \A k \in 1 .. Len(Runs(p)), c \in Cells :
                 Covers(Runs(p), k, c) => p[c] = Runs(p)[k].color
<1> DEFINE runs == Runs(p)
<1>1. Encodes(p, 0, runs)
  BY RunsEncode
<1> HIDE DEF runs
<1>2. Size \in Nat \ {0}
  BY SizeIsPositive
<1>3. runs \in Seq(RunRecords) /\ Len(runs) \in Nat /\ CellsBefore(runs, Len(runs)) = Size
  BY <1>1, <1>2 DEF Encodes
<1>4. Len(runs) # 0
  BY <1>2, <1>3, NoCells
<1>5. ASSUME NEW k \in 1 .. Len(runs), NEW c \in Cells, Covers(runs, k, c)
      PROVE  p[c] = runs[k].color
  <2>1. c \in Nat /\ 0 + c = c
    BY <1>2 DEF Cells
  <2>2. p[0 + c] = runs[k].color
    BY <1>1, <1>5, <2>1 DEF Encodes, Covers
  <2>3. QED  BY <2>1, <2>2
<1>6. QED  BY <1>3, <1>4, <1>5 DEF runs

(* Every cell is in one of the runs. *)
LEMMA CellIsCovered ==
    ASSUME NEW runs \in Seq(RunRecords), CellsBefore(runs, Len(runs)) = Size,
           NEW c \in Cells
    PROVE  \E i \in 1 .. Len(runs) : Covers(runs, i, c)
<1> DEFINE beyond == {i \in 0 .. Len(runs) : c < CellsBefore(runs, i)}
<1>1. Len(runs) \in Nat /\ Size \in Nat \ {0} /\ c \in Nat /\ c < Size
  BY SizeIsPositive DEF Cells
<1>2. \A i \in 0 .. Len(runs) : CellsBefore(runs, i) \in Nat
  <2>1. CountsOf(runs, Len(runs))
    BY RunsCount
  <2>2. \A i \in 0 .. Len(runs) : i \in 0 .. i
    OBVIOUS
  <2>3. QED  BY <1>1, <2>1, <2>2, CellsGrow
<1>3. beyond \in SUBSET Nat /\ Len(runs) \in beyond
  BY <1>1
<1>4. PICK i \in beyond : \A j \in beyond : i <= j
  <2> HIDE DEF beyond
  <2>1. QED  BY <1>3, LeastNumber
<1>5. i # 0
  BY <1>1, NoCells
<1>6. i \in 1 .. Len(runs) /\ i - 1 \in 0 .. Len(runs) /\ ~(i <= i - 1)
  BY <1>1, <1>5
<1>7. ~(c < CellsBefore(runs, i - 1))
  BY <1>4, <1>6
<1>8. CellsBefore(runs, i - 1) <= c
  BY <1>1, <1>2, <1>6, <1>7
<1>9. QED  BY <1>6, <1>8 DEF Covers

----------------------------------------------------------------------------
(* Whole files and torn ones. *)

(* The tokens of a file are its header and its runs. *)
LEMMA TokensOfImage ==
    ASSUME NEW image \in Images
    PROVE  /\ Tokens(image) = 0 .. Len(Runs(image.pixels))
           /\ Len(Runs(image.pixels)) \in Nat \ {0}
           /\ IsFiniteSet(Tokens(image))
           /\ Cardinality(Tokens(image)) = Len(Runs(image.pixels)) + 1
<1> DEFINE n == Len(Runs(image.pixels))
<1>1. n \in Nat \ {0}
  BY RunsOfMap DEF Images
<1> HIDE DEF n
<1>2. IsFiniteSet(0 .. n) /\ Cardinality(0 .. n) = n + 1
  <2>1. 0 \in Int /\ n \in Int /\ ~(0 > n)
    BY <1>1
  <2>2. Cardinality(0 .. n) = IF 0 > n THEN 0 ELSE n - 0 + 1
    BY <2>1, FS_Interval
  <2>3. QED  BY <1>1, <2>1, <2>2, FS_Interval
<1>3. QED  BY <1>1, <1>2 DEF Tokens, n

(* With every token the file is what saveBinary means to write. *)
LEMMA WholeContent ==
    ASSUME NEW image \in Images
    PROVE  Content(image, Tokens(image)) = FileOf(image)
<1> DEFINE runs    == Runs(image.pixels)
           written == Tokens(image)
<1>1. runs \in Seq(RunRecords) /\ Len(runs) \in Nat /\ written = 0 .. Len(runs)
  BY RunsOfMap, TokensOfImage DEF Images
<1>2. Max(written \cup {0}) = Len(runs)
  <2> DEFINE T == written \cup {0}
  <2>1. T \in SUBSET (0 .. Len(runs)) /\ T # {} /\ Len(runs) \in T
    BY <1>1
  <2> HIDE DEF T, runs, written
  <2>2. Max(T) \in T /\ \A n \in T : n <= Max(T)
    BY <1>1, <2>1, GreatestNumber
  <2>3. Max(T) \in 0 .. Len(runs) /\ Len(runs) <= Max(T)
    BY <2>1, <2>2
  <2>4. Max(T) = Len(runs)
    BY <1>1, <2>3
  <2>5. QED  BY <2>4 DEF T
<1>3. \A i \in 1 .. Len(runs) : i \in written
  BY <1>1
<1>4. (0 \in written) = TRUE
  BY <1>1
<1>5. FileOf(image).runs = runs /\ FileOf(image).magic = TRUE
  BY DEF FileOf
<1> HIDE DEF runs, written
<1>6. [i \in 1 .. Len(runs) |-> IF i \in written THEN runs[i] ELSE Hole] = runs
  BY <1>1, <1>3
<1>7. Content(image, written) = [FileOf(image) EXCEPT !.magic = TRUE, !.runs = runs]
  BY <1>2, <1>4, <1>5, <1>6 DEF Content
<1>8. [FileOf(image) EXCEPT !.magic = TRUE, !.runs = runs] = FileOf(image)
  BY <1>5 DEF FileOf
<1>9. QED  BY <1>7, <1>8 DEF written

(* loadBinary takes a whole file, and makes of it the map that was saved.  *)
LEMMA WholeFileLoads ==
    ASSUME NEW image \in Images
    PROVE  /\ Loads(Content(image, Tokens(image)))
           /\ LoadedImage(Content(image, Tokens(image))) = image
<1> DEFINE runs == Runs(image.pixels)
           file == FileOf(image)
<1>1. /\ runs \in Seq(RunRecords) /\ Len(runs) \in Nat
      /\ CellsBefore(runs, Len(runs)) = Size
      /\ image \in [pixels : Pixmaps, sequence : Nat]
  BY RunsOfMap DEF Images
<1>2. \A k \in 1 .. Len(runs), c \in Cells : Covers(runs, k, c) => image.pixels[c] = runs[k].color
  BY RunsOfMap DEF Images
<1>3. file = [magic |-> TRUE, width |-> Width, height |-> Height,
              sequence |-> image.sequence, palette |-> PaletteSize,
              runCount |-> Len(runs), runs |-> runs]
  BY DEF FileOf
<1> HIDE DEF runs, file
<1>4. \A i \in 1 .. Len(runs) : runs[i].color < PaletteSize
  <2>1. \A run \in RunRecords : run.color < PaletteSize
    BY DEF RunRecords, Colors
  <2>2. QED  BY <1>1, <2>1
<1>5. \A i \in 1 .. Len(runs) : CellsBefore(runs, i) <= Size
  <2>1. CountsOf(runs, Len(runs))
    BY <1>1, RunsCount
  <2>2. \A i \in 1 .. Len(runs) : i \in 0 .. Len(runs)
    OBVIOUS
  <2>3. Len(runs) \in 0 .. Len(runs)
    BY <1>1
  <2>4. QED  BY <1>1, <2>1, <2>2, <2>3, CellsGrow
<1>6. Loads(file)
  BY <1>1, <1>3, <1>4, <1>5 DEF Loads
<1>7. LoadedPixels(file) = image.pixels
  <2>1. \A c \in Cells :
           runs[CHOOSE i \in 1 .. Len(runs) : Covers(runs, i, c)].color = image.pixels[c]
    <3> SUFFICES ASSUME NEW c \in Cells
                 PROVE  runs[CHOOSE i \in 1 .. Len(runs) : Covers(runs, i, c)].color
                           = image.pixels[c]
      OBVIOUS
    <3> DEFINE run == CHOOSE i \in 1 .. Len(runs) : Covers(runs, i, c)
    <3>1. run \in 1 .. Len(runs) /\ Covers(runs, run, c)
      BY <1>1, CellIsCovered
    <3> HIDE DEF run
    <3>2. runs[run].color = image.pixels[c]
      BY <1>2, <3>1
    <3>3. QED  BY <3>2 DEF run
  <2>2. LoadedPixels(file) = [c \in Cells |-> image.pixels[c]]
    BY <1>3, <2>1 DEF LoadedPixels
  <2>3. image.pixels = [c \in Cells |-> image.pixels[c]]
    BY <1>1 DEF Pixmaps
  <2>4. QED  BY <2>2, <2>3
<1>8. LoadedImage(file) = image
  BY <1>1, <1>3, <1>7 DEF LoadedImage
<1>9. QED  BY <1>6, <1>8, WholeContent DEF file

(* loadBinary refuses a file with any token missing: its runs cannot cover *)
(* the map.                                                                *)
LEMMA TornFileFails ==
    ASSUME NEW image \in Images, NEW written \in SUBSET Tokens(image),
           written # Tokens(image)
    PROVE  ~Loads(Content(image, written))
<1> SUFFICES ASSUME Loads(Content(image, written)) PROVE FALSE
  OBVIOUS
<1> DEFINE runs == Runs(image.pixels)
           last == Max(written \cup {0})
           left == [i \in 1 .. last |-> IF i \in written THEN runs[i] ELSE Hole]
           n    == Len(runs)
<1>1. /\ runs \in Seq(RunRecords) /\ n \in Nat \ {0} /\ CellsBefore(runs, n) = Size
      /\ Tokens(image) = 0 .. n
  BY RunsOfMap, TokensOfImage DEF Images
<1>2. last \in 0 .. n
  <2> DEFINE T == written \cup {0}
  <2>1. T \in SUBSET (0 .. n) /\ T # {}
    BY <1>1
  <2> HIDE DEF T, n
  <2>2. Max(T) \in 0 .. n
    BY <1>1, <2>1, GreatestNumber
  <2>3. QED  BY <2>2 DEF T
<1>3. /\ 0 \in written /\ n <= Len(left) /\ CellsBefore(left, n) = Size
  <2> DEFINE file == Content(image, written)
  <2>1. /\ file.magic = (0 \in written) /\ file.runCount = n /\ file.runs = left
    BY DEF Content, FileOf
  <2> HIDE DEF file, left, n
  <2>2. /\ file.magic /\ file.runCount <= Len(file.runs)
        /\ CellsBefore(file.runs, file.runCount) = Size
    BY DEF Loads, file
  <2>3. QED  BY <2>1, <2>2
<1>4. Len(left) = last
  <2>1. last \in Nat
    BY <1>1, <1>2
  <2> HIDE DEF last
  <2>2. QED  BY <2>1
<1>5. last = n
  BY <1>1, <1>2, <1>3, <1>4
<1>6. left = [i \in 1 .. n |-> IF i \in written THEN runs[i] ELSE Hole]
  BY <1>5
<1>7. PICK gap \in 1 .. n : gap \notin written
  <2>1. PICK token \in Tokens(image) : token \notin written
    OBVIOUS
  <2>2. token \in 0 .. n /\ token # 0
    BY <1>1, <1>3, <2>1
  <2> HIDE DEF n
  <2>3. token \in 1 .. n
    BY <1>1, <2>2
  <2>4. QED  BY <2>1, <2>3
<1> DEFINE f == [j \in 1 .. n |-> runs[j].count]
           g == [j \in 1 .. n |-> left[j].count]
           S == 1 .. n
           U == S \ {gap}
<1> HIDE DEF left, last, n
<1>8. \A j \in S : f[j] \in Nat \ {0} /\ g[j] \in Nat /\ g[j] <= f[j]
  <2> SUFFICES ASSUME NEW j \in S PROVE f[j] \in Nat \ {0} /\ g[j] \in Nat /\ g[j] <= f[j]
    OBVIOUS
  <2>1. f[j] = runs[j].count /\ g[j] = left[j].count
    OBVIOUS
  <2>2. runs[j] \in RunRecords
    BY <1>1 DEF n
  <2>3. runs[j].count \in Nat \ {0}
    BY <2>2 DEF RunRecords
  <2>4. left[j].count = runs[j].count \/ left[j].count = 0
    BY <1>6 DEF Hole
  <2> HIDE DEF runs, f, g
  <2>5. QED  BY <2>1, <2>3, <2>4
<1>9. g[gap] = 0
  BY <1>6, <1>7 DEF Hole
<1>10. CellsBefore(runs, n) = SumOver(f, S) /\ CellsBefore(left, n) = SumOver(g, S)
  <2>1. n \in Nat /\ n \in 0 .. n
    BY <1>1
  <2>2. QED  BY <2>1, CellsAreSum
<1> HIDE DEF f, g, S, runs
<1>11. gap \in S /\ IsFiniteSet(S) /\ U \in SUBSET S /\ IsFiniteSet(U)
  <2>1. IsFiniteSet(1 .. n)
    BY <1>1, FS_Interval
  <2>2. gap \in S /\ IsFiniteSet(S) /\ U \in SUBSET S
    BY <2>1 DEF S
  <2>3. QED  BY <2>2, FS_Subset
<1> HIDE DEF U
<1>12. /\ SumOver(f, S) = f[gap] + SumOver(f, U)
       /\ SumOver(g, S) = g[gap] + SumOver(g, U)
  <2>1. \A x \in S : f[x] \in Int /\ g[x] \in Int
    BY <1>8
  <2>2. QED  BY <1>11, <2>1, SumOverRemove DEF U
<1>13. SumOver(g, U) <= SumOver(f, U) /\ SumOver(g, U) \in Nat /\ SumOver(f, U) \in Nat
  <2>1. \A x \in U : f[x] \in Int /\ g[x] \in Int /\ f[x] \in Nat /\ g[x] \in Nat /\ g[x] <= f[x]
    BY <1>8, <1>11
  <2>2. SumOver(g, U) <= SumOver(f, U)
    BY <1>11, <2>1, SumOverMonotonic
  <2>3. U \in SUBSET U
    OBVIOUS
  <2>4. QED  BY <1>11, <2>1, <2>2, <2>3, SumOverSubset
<1>14. f[gap] \in Nat \ {0}
  BY <1>8, <1>11
<1>15. QED  BY <1>1, <1>3, <1>9, <1>10, <1>12, <1>13, <1>14

(* What may be read of map.pwm or of a backup, whole or not: its runs are  *)
(* of colours of the palette, and a hole is a run of no cell.              *)
FileRuns    == [color : Colors, count : Nat]
FileRecords == [magic : BOOLEAN, width : Nat, height : Nat, sequence : Nat,
                palette : Nat, runCount : Nat, runs : Seq(FileRuns)]

(* The file of an image, with any of its tokens missing, is one of them.   *)
LEMMA ContentIsRecord ==
    ASSUME NEW image \in Images, NEW written \in SUBSET Tokens(image)
    PROVE  Content(image, written) \in FileRecords
<1> DEFINE runs == Runs(image.pixels)
           last == Max(written \cup {0})
           left == [i \in 1 .. last |-> IF i \in written THEN runs[i] ELSE Hole]
           n    == Len(runs)
<1>1. /\ runs \in Seq(RunRecords) /\ n \in Nat /\ Tokens(image) = 0 .. n
      /\ image.sequence \in Nat
  BY RunsOfMap, TokensOfImage DEF Images
<1>2. last \in 0 .. n
  <2> DEFINE T == written \cup {0}
  <2>1. T \in SUBSET (0 .. n) /\ T # {}
    BY <1>1
  <2> HIDE DEF T, n
  <2>2. Max(T) \in 0 .. n
    BY <1>1, <2>1, GreatestNumber
  <2>3. QED  BY <2>2 DEF T
<1>3. Content(image, written)
         = [FileOf(image) EXCEPT !.magic = (0 \in written), !.runs = left]
  <2>1. FileOf(image).runs = runs
    BY DEF FileOf
  <2> HIDE DEF runs
  <2>2. QED  BY <2>1 DEF Content
<1>4. left \in Seq(FileRuns)
  <2>1. Hole \in FileRuns
    <3>1. 0 \in Colors
      BY DimensionAssumption DEF Colors
    <3>2. QED  BY <3>1 DEF Hole, FileRuns
  <2>2. \A i \in 1 .. last : (IF i \in written THEN runs[i] ELSE Hole) \in FileRuns
    <3> SUFFICES ASSUME NEW i \in 1 .. last PROVE runs[i] \in FileRuns
      BY <2>1
    <3> HIDE DEF last, n
    <3>1. i \in 1 .. n
      BY <1>1, <1>2
    <3>2. runs[i] \in RunRecords
      BY <1>1, <3>1 DEF n
    <3>3. QED  BY <3>2 DEF RunRecords, FileRuns
  <2>3. last \in Nat
    <3> HIDE DEF last, n
    <3>1. QED  BY <1>1, <1>2
  <2> HIDE DEF last, runs
  <2>4. QED  BY <2>2, <2>3
<1> HIDE DEF left, n, runs, last
<1>5. (0 \in written) \in BOOLEAN
  OBVIOUS
<1>6. FileOf(image) = [magic |-> TRUE, width |-> Width, height |-> Height,
                       sequence |-> image.sequence, palette |-> PaletteSize,
                       runCount |-> n, runs |-> runs]
  BY DEF FileOf, n, runs
<1>7. ASSUME NEW f \in FileRecords, NEW magic \in BOOLEAN, NEW r \in Seq(FileRuns)
      PROVE  [f EXCEPT !.magic = magic, !.runs = r] \in FileRecords
  BY DEF FileRecords
<1>8. FileOf(image) \in FileRecords
  <2>1. runs \in Seq(FileRuns)
    <3>1. RunRecords \subseteq FileRuns
      BY DEF RunRecords, FileRuns
    <3>2. QED  BY <1>1, <3>1
  <2>2. Width \in Nat /\ Height \in Nat /\ PaletteSize \in Nat
    BY DimensionAssumption
  <2>3. QED  BY <1>1, <1>6, <2>1, <2>2 DEF FileRecords
<1>9. QED  BY <1>3, <1>4, <1>5, <1>7, <1>8

(* Whatever loadBinary accepts, it makes a map of. *)
LEMMA LoadedIsImage ==
    ASSUME NEW file \in FileRecords, Loads(file)
    PROVE  LoadedImage(file) \in Images
<1> DEFINE runs   == file.runs
           n      == file.runCount
           run(c) == CHOOSE i \in 1 .. n : Covers(runs, i, c)
<1>1. /\ runs \in Seq(FileRuns) /\ n \in Nat /\ n <= Len(runs) /\ file.sequence \in Nat
      /\ CellsBefore(runs, n) = Size
  BY DEF FileRecords, Loads
<1> HIDE DEF runs, n
<1>2. \A i \in 1 .. n : runs[i] \in FileRuns
  <2>1. 1 .. n \subseteq 1 .. Len(runs)
    BY <1>1
  <2>2. QED  BY <1>1, <2>1
<1>3. CountsOf(runs, n)
  BY <1>2 DEF CountsOf, FileRuns
<1>4. \A i \in 0 .. n : CellsBefore(runs, i) \in Nat
  <2>1. \A i \in 0 .. n : i \in 0 .. i
    OBVIOUS
  <2>2. QED  BY <1>1, <1>3, <2>1, CellsGrow
<1>5. ASSUME NEW c \in Cells PROVE \E i \in 1 .. n : Covers(runs, i, c)
  <2> DEFINE beyond == {i \in 0 .. n : c < CellsBefore(runs, i)}
  <2>1. Size \in Nat \ {0} /\ c \in Nat /\ c < Size
    BY SizeIsPositive DEF Cells
  <2>2. beyond \in SUBSET Nat /\ n \in beyond
    BY <1>1, <2>1
  <2>3. PICK i \in beyond : \A j \in beyond : i <= j
    <3> HIDE DEF beyond
    <3>1. QED  BY <2>2, LeastNumber
  <2>4. i # 0
    BY <2>1, NoCells
  <2>5. i \in 1 .. n /\ i - 1 \in 0 .. n /\ ~(i <= i - 1)
    BY <1>1, <2>4
  <2>6. ~(c < CellsBefore(runs, i - 1))
    BY <2>3, <2>5
  <2>7. CellsBefore(runs, i - 1) <= c
    BY <1>4, <2>1, <2>5, <2>6
  <2>8. QED  BY <2>5, <2>7 DEF Covers
<1>6. \A c \in Cells : run(c) \in 1 .. n
  BY <1>5
<1>7. \A c \in Cells : runs[run(c)].color \in Colors
  <2>1. \A r \in FileRuns : r.color \in Colors
    BY DEF FileRuns
  <2> HIDE DEF run
  <2>2. QED  BY <1>2, <1>6, <2>1
<1>8. LoadedPixels(file) = [c \in Cells |-> runs[run(c)].color]
  BY DEF LoadedPixels, runs, n
<1> HIDE DEF run
<1>9. LoadedPixels(file) \in Pixmaps
  BY <1>7, <1>8 DEF Pixmaps
<1>10. QED  BY <1>1, <1>9 DEF LoadedImage, Images

----------------------------------------------------------------------------
(* Cells. *)

(* The cell of a position inside the map is a cell of the map. *)
LEMMA IndexIsCell ==
    ASSUME NEW x \in Columns, NEW y \in Rows
    PROVE  Index(x, y) \in Cells
<1>1. /\ x \in Int /\ 0 <= x /\ x <= Width - 1
      /\ y \in Int /\ 0 <= y /\ y <= Height - 1
      /\ Width \in Nat /\ Height \in Nat
  BY DEF Columns, Rows
<1>2. y * Width <= (Height - 1) * Width
  BY <1>1, SMT
<1>3. (Height - 1) * Width = Width * Height - Width
  BY <1>1, SMT
<1>4. 0 <= y * Width /\ y * Width \in Int /\ Width * Height \in Int
  BY <1>1, SMT
<1>5. QED  BY <1>1, <1>2, <1>3, <1>4 DEF Index, Cells, Size

(* Colour 0 exists. *)
LEMMA ZeroIsColor == 0 \in Colors
  BY DEF Colors

(* A reset to a colour outside the palette takes colour 0. *)
LEMMA ResetColorIsColor == \A color : ResetColor(color) \in Colors
  BY ZeroIsColor DEF ResetColor

----------------------------------------------------------------------------
(* Appending to the log and trimming it keeps the newest changes. *)

(* t ends with the change e, and the rest of t is the end of log: all of   *)
(* it, or all but its oldest change.                                       *)
IsTrimmedAppend(t, log, e) ==
    /\ t \in Seq(PixelChanges)
    /\ Len(t) \in 1 .. MaxChanges
    /\ t[Len(t)] = e
    /\ \E d \in {0, 1} :
          /\ Len(t) = Len(log) + 1 - d
          /\ \A i \in 1 .. (Len(t) - 1) : i + d \in 1 .. Len(log) /\ t[i] = log[i + d]

(* What setPixel does to the log: IsTrimmedAppend holds of the result. *)
LEMMA TrimmedAppend ==
    ASSUME NEW log \in Seq(PixelChanges), Len(log) <= MaxChanges,
           NEW e \in PixelChanges
    PROVE  IsTrimmedAppend(Trimmed(Append(log, e)), log, e)
<1> DEFINE t == Trimmed(Append(log, e))
           a == Append(log, e)
<1>1. /\ a \in Seq(PixelChanges)
      /\ Len(a) = Len(log) + 1
      /\ a[Len(log) + 1] = e
      /\ \A i \in 1 .. Len(log) : a[i] = log[i]
      /\ Len(log) \in Nat
  OBVIOUS
<1>2. CASE Len(a) > MaxChanges
  <2>1. t = SubSeq(a, Len(a) - MaxChanges + 1, Len(a))
    BY <1>2 DEF Trimmed
  <2>2. Len(log) = MaxChanges
    BY <1>1, <1>2
  <2>3. t = SubSeq(a, 2, MaxChanges + 1)
    BY <2>1, <2>2, <1>1
  <2> HIDE DEF a
  <2>4. /\ t \in Seq(PixelChanges)
        /\ Len(t) = MaxChanges
        /\ \A i \in 1 .. MaxChanges : t[i] = a[i + 1]
    BY <2>2, <2>3, <1>1
  <2> HIDE DEF t
  <2>5. t[Len(t)] = e /\ Len(t) \in 1 .. MaxChanges
    BY <2>2, <2>4, <1>1
  <2>6. /\ 1 \in {0, 1} /\ Len(t) = Len(log) + 1 - 1
        /\ \A i \in 1 .. (Len(t) - 1) : i + 1 \in 1 .. Len(log) /\ t[i] = log[i + 1]
    BY <2>2, <2>4, <1>1
  <2>7. QED  BY <2>4, <2>5, <2>6 DEF IsTrimmedAppend, t
<1>3. CASE ~(Len(a) > MaxChanges)
  <2>1. t = a
    BY <1>3 DEF Trimmed
  <2> HIDE DEF a, t
  <2>2. t \in Seq(PixelChanges) /\ t[Len(t)] = e /\ Len(t) \in 1 .. MaxChanges
    BY <2>1, <1>1, <1>3
  <2>3. /\ 0 \in {0, 1} /\ Len(t) = Len(log) + 1 - 0
        /\ \A i \in 1 .. (Len(t) - 1) : i + 0 \in 1 .. Len(log) /\ t[i] = log[i + 0]
    BY <2>1, <1>1
  <2>4. QED  BY <2>2, <2>3 DEF IsTrimmedAppend, t
<1>4. QED  BY <1>2, <1>3

----------------------------------------------------------------------------
(* What the methods of the map keep. *)

(* The map of a new server has colours of the palette only. *)
LEMMA BlankIsPixmap == Blank \in Pixmaps
  BY ZeroIsColor DEF Blank, Pixmaps

(* A new map has the types. *)
LEMMA MapInitTypes == MapInit => MapTypeOK
  BY BlankIsPixmap DEF MapInit, MapTypeOK

(* The types of what setPixel writes. *)
LEMMA SetPixelTypes ==
    ASSUME MapTypeOK, NEW x \in Columns, NEW y \in Rows, NEW color \in Colors,
           SetPixel(x, y, color)
    PROVE  MapTypeOK'
<1> DEFINE e == [sequence |-> sequence + 1, x |-> x, y |-> y, color |-> color]
<1>1. e \in PixelChanges
  BY DEF MapTypeOK, PixelChanges
<1>2. changes' = Trimmed(Append(changes, e))
  BY DEF SetPixel
<1>3. changes' \in Seq(PixelChanges) /\ Len(changes') <= MaxChanges
  <2> HIDE DEF e
  <2>1. IsTrimmedAppend(changes', changes, e)
    BY <1>1, <1>2, TrimmedAppend DEF MapTypeOK
  <2>2. QED  BY <2>1 DEF IsTrimmedAppend
<1>4. pixels' \in Pixmaps
  BY IndexIsCell DEF SetPixel, MapTypeOK, Pixmaps
<1>5. sequence' \in Nat
  BY DEF SetPixel, MapTypeOK
<1>6. cacheDirty' \in BOOLEAN
  BY DEF SetPixel, MapTypeOK
<1>7. QED  BY <1>3, <1>4, <1>5, <1>6 DEF MapTypeOK

(* The types of what reset writes. *)
LEMMA ResetTypes ==
    ASSUME MapTypeOK, NEW color, Reset(color) PROVE MapTypeOK'
<1>1. pixels' \in Pixmaps
  BY ResetColorIsColor DEF Reset, Pixmaps
<1>2. changes' = <<>> /\ sequence' = sequence + 1 /\ cacheDirty' = TRUE
  BY DEF Reset
<1>3. QED  BY <1>1, <1>2 DEF MapTypeOK

(* The types of what a load installs. *)
LEMMA InstallTypes ==
    ASSUME NEW image \in Images, Install(image) PROVE MapTypeOK'
<1>1. pixels' \in Pixmaps /\ sequence' \in Nat
  BY DEF Install, Images
<1>2. changes' = <<>> /\ cacheDirty' = TRUE
  BY DEF Install
<1>3. QED  BY <1>1, <1>2 DEF MapTypeOK

(* The map in memory is one that can be saved. *)
LEMMA MapImageIsImage == MapTypeOK => MapImage \in Images
  BY DEF MapTypeOK, MapImage, Images

----------------------------------------------------------------------------
(* The cached encoding and the log. *)

(* setPixel leaves the flag alone only when it leaves the map alone. *)
LEMMA SetPixelFresh ==
    ASSUME MapTypeOK, CacheFresh, NEW x \in Columns, NEW y \in Rows,
           NEW color \in Colors, SetPixel(x, y, color)
    PROVE  CacheFresh'
<1>1. SUFFICES ASSUME ~cacheDirty' PROVE cachedRle' = Runs(pixels')
  BY DEF CacheFresh
<1>2. ~cacheDirty /\ pixels[Index(x, y)] = color /\ cachedRle' = cachedRle
  BY <1>1 DEF SetPixel
<1>3. pixels' = pixels
  BY <1>2, IndexIsCell DEF SetPixel, MapTypeOK, Pixmaps
<1>4. QED  BY <1>2, <1>3 DEF CacheFresh

(* The other methods drop the encoding or make it anew. *)
LEMMA OthersFresh ==
    ASSUME CacheFresh,
           (\E color : Reset(color)) \/ (\E image : Install(image)) \/ \E since : ToJson(since)
    PROVE  CacheFresh'
BY DEF CacheFresh, Reset, Install, ToJson, RebuiltCache

(* A log that is empty is in order, and goes back to now. *)
LEMMA EmptyLog ==
    ASSUME sequence \in Nat, changes = <<>> PROVE LogInOrder /\ Base = sequence
<1>1. Len(changes) = 0 /\ DOMAIN changes = {} /\ Base = sequence
  BY DEF Base
<1>2. QED  BY <1>1 DEF LogInOrder, LogIsContiguous, LastChangeIsShown

(* So it is after a step that clears the log. *)
LEMMA EmptyLogNext ==
    ASSUME sequence' \in Nat, changes' = <<>> PROVE LogInOrder' /\ Base' = sequence'
<1>1. (sequence \in Nat /\ changes = <<>> => LogInOrder /\ Base = sequence)'
  BY EmptyLog, PTL
<1>2. QED  BY <1>1

(* A pixel placed: the log grows by one change, or moves by one.  A page   *)
(* that agreed with the map since s still does, and the log forgets no     *)
(* change after its base.                                                  *)
LEMMA SetPixelLog ==
    ASSUME MapTypeOK, LogInOrder,
           NEW x \in Columns, NEW y \in Rows, NEW color \in Colors,
           SetPixel(x, y, color)
    PROVE  /\ LogInOrder' /\ Base' >= Base
           /\ \A page : \A s \in Int :
                 s <= sequence /\ AgreesSince(page, s) => AgreesSince(page, s)'
           /\ \E i \in DOMAIN changes' : /\ changes'[i].sequence = sequence'
                                        /\ CellOf(changes'[i]) = Index(x, y)
           /\ \A j \in DOMAIN changes : changes[j].sequence > Base' =>
                 \E i \in DOMAIN changes' : changes'[i] = changes[j]
<1> DEFINE e == [sequence |-> sequence + 1, x |-> x, y |-> y, color |-> color]
           t == changes'
           k == Len(t)
           here == Index(x, y)
<1>1. /\ sequence \in Nat /\ sequence' = sequence + 1
      /\ changes \in Seq(PixelChanges) /\ Len(changes) <= MaxChanges
      /\ Len(changes) \in Nat /\ DOMAIN changes = 1 .. Len(changes)
      /\ pixels \in Pixmaps
      /\ pixels' = [pixels EXCEPT ![here] = color]
  BY DEF MapTypeOK, SetPixel
<1>2. e \in PixelChanges /\ t = Trimmed(Append(changes, e))
  BY <1>1 DEF SetPixel, PixelChanges
<1>3. /\ e.sequence = sequence + 1 /\ e.color = color /\ CellOf(e) = here
  BY DEF CellOf
<1> HIDE DEF e
<1>4. /\ t \in Seq(PixelChanges)
      /\ k \in 1 .. MaxChanges
      /\ t[k] = e
      /\ \E d \in {0, 1} :
            /\ k = Len(changes) + 1 - d
            /\ \A i \in 1 .. (k - 1) :
                  i + d \in 1 .. Len(changes) /\ t[i] = changes[i + d]
  <2>1. IsTrimmedAppend(t, changes, e)
    BY <1>1, <1>2, TrimmedAppend
  <2>2. QED  BY <2>1 DEF IsTrimmedAppend
<1>5. PICK d \in {0, 1} :
            /\ k = Len(changes) + 1 - d
            /\ \A i \in 1 .. (k - 1) :
                  i + d \in 1 .. Len(changes) /\ t[i] = changes[i + d]
  BY <1>4
<1>5a. DOMAIN t = 1 .. k /\ k \in Nat /\ Len(changes) = k + d - 1
  BY <1>1, <1>4, <1>5
<1> HIDE DEF t, k
<1>6. Base' = Base + d
  BY <1>1, <1>4, <1>5, <1>5a DEF Base, k, t
<1>7. here \in Cells /\ pixels'[here] = color
      /\ \A c \in Cells : c # here => pixels'[c] = pixels[c]
  BY <1>1, IndexIsCell DEF Pixmaps, here
<1> HIDE DEF here
<1>8. Base \in Int /\ Base = sequence - (k + d - 1) /\ Base >= 0
  BY <1>1, <1>4, <1>5, <1>5a DEF Base, LogInOrder, LogIsContiguous
<1>9. \A i \in 1 .. k : t[i].sequence = Base + d + i
  <2>1. TAKE i \in 1 .. k
  <2>2. CASE i = k
    <3>1. t[i].sequence = sequence + 1
      BY <2>2, <1>3, <1>4, <1>5
    <3>2. sequence + 1 = Base + d + k
      <4>1. sequence \in Nat /\ d \in Int /\ k \in Nat
        BY <1>1, <1>5, <1>5a
      <4>2. Base = sequence - (k + d - 1)
        BY <1>8
      <4>3. QED  BY <4>1, <4>2
    <3>3. QED  BY <2>2, <3>1, <3>2
  <2>3. CASE i # k
    <3>1. i \in 1 .. (k - 1)
      BY <2>1, <2>3, <1>5, <1>5a
    <3>2. i + d \in DOMAIN changes /\ t[i] = changes[i + d]
      BY <3>1, <1>1, <1>4, <1>5
    <3>3. changes[i + d].sequence = Base + (i + d)
      BY <3>2 DEF LogInOrder, LogIsContiguous
    <3>4. t[i].sequence = Base + (i + d) /\ i \in Int /\ d \in Int /\ Base \in Int
      BY <3>1, <3>2, <3>3, <1>5, <1>8
    <3>5. QED  BY ONLY <3>4
  <2>4. QED  BY <2>2, <2>3
<1>10. LogIsContiguous'
  <2>1. Base' >= 0
    BY <1>4, <1>5, <1>6, <1>8
  <2>2. \A i \in 1 .. k : t[i].sequence = Base' + i
    BY <1>6, <1>9
  <2>3. QED  BY <2>1, <2>2, <1>5, <1>5a DEF LogIsContiguous, t
<1>13. \A c \in Cells, i \in 1 .. k : c # here /\ Touches(t, i, c)
          => i \in 1 .. (k - 1) /\ Touches(changes, i + d, c)
  BY <1>1, <1>3, <1>4, <1>5, <1>5a DEF Touches
<1>14. \A c \in Cells, j \in DOMAIN changes : j > d /\ Touches(changes, j, c)
          => j - d \in 1 .. (k - 1) /\ Touches(t, j - d, c)
  <2>1. TAKE c \in Cells, j \in DOMAIN changes
  <2>2. HAVE j > d /\ Touches(changes, j, c)
  <2>3. j \in 1 .. (k + d - 1) /\ j - d \in 1 .. (k - 1) /\ j - d + d = j
    BY <2>1, <2>2, <1>1, <1>4, <1>5, <1>5a
  <2>4. t[j - d] = changes[j]
    BY <2>3, <1>4, <1>5
  <2>5. QED  BY <2>2, <2>3, <2>4, <1>5, <1>5a DEF Touches
<1>15. LastChangeIsShown'
  <2>1. SUFFICES ASSUME NEW c \in Cells
                 PROVE  /\ \A i \in 1 .. k : LastTouch(t, i, c) => pixels'[c] = t[i].color
                        /\ (\E i \in 1 .. k : Touches(t, i, c))
                              => \E i \in 1 .. k : LastTouch(t, i, c)
    BY <1>5, <1>5a DEF LastChangeIsShown, t
  <2>2. CASE c = here
    <3>1. Touches(t, k, c)
      BY <2>2, <1>3, <1>4, <1>5, <1>5a DEF Touches
    <3>2. LastTouch(t, k, c)
      BY <3>1, <1>5, <1>5a DEF LastTouch
    <3>3. \A i \in 1 .. k : LastTouch(t, i, c) => i = k
      <4>1. TAKE i \in 1 .. k
      <4>2. HAVE LastTouch(t, i, c)
      <4>3. ~(k > i)
        BY <3>1, <4>2, <1>5a DEF LastTouch, Touches
      <4>4. QED  BY <4>1, <4>3, <1>5a
    <3>4. QED  BY <2>2, <3>2, <3>3, <1>3, <1>4, <1>5, <1>5a, <1>7
  <2>3. CASE c # here
    <3>1. ASSUME NEW i \in 1 .. k, LastTouch(t, i, c)
          PROVE  pixels'[c] = t[i].color
      <4>1. i \in 1 .. (k - 1) /\ Touches(changes, i + d, c) /\ i + d \in DOMAIN changes
        BY <3>1, <2>3, <1>1, <1>4, <1>5, <1>13 DEF LastTouch
      <4>2. ASSUME NEW j \in DOMAIN changes, j > i + d, Touches(changes, j, c)
            PROVE  FALSE
        <5>1. j - d \in 1 .. (k - 1) /\ Touches(t, j - d, c) /\ j - d > i
          BY <4>2, <1>1, <1>4, <1>5, <1>14
        <5>2. j - d \in DOMAIN t
          BY <5>1, <1>5, <1>5a
        <5>3. QED  BY <5>1, <5>2, <3>1 DEF LastTouch
      <4>3. LastTouch(changes, i + d, c)
        BY <4>1, <4>2 DEF LastTouch
      <4>4. pixels[c] = changes[i + d].color
        BY <4>1, <4>3 DEF LogInOrder, LastChangeIsShown
      <4>5. QED  BY <4>1, <4>4, <2>3, <1>4, <1>5, <1>7
    <3>2. ASSUME NEW i \in 1 .. k, Touches(t, i, c)
          PROVE  \E l \in 1 .. k : LastTouch(t, l, c)
      <4>1. i \in 1 .. (k - 1) /\ Touches(changes, i + d, c) /\ i + d \in DOMAIN changes
        BY <3>2, <2>3, <1>1, <1>4, <1>5, <1>13
      <4>2. PICK l \in DOMAIN changes : LastTouch(changes, l, c)
        BY <4>1 DEF LogInOrder, LastChangeIsShown
      <4>3. l >= i + d
        <5>1. i + d \in Int /\ l \in Int
          BY <1>1, <1>4, <1>5, <4>1
        <5>2. ~(i + d > l)
          BY <4>1, <4>2 DEF LastTouch
        <5>3. QED  BY <5>1, <5>2
      <4>4. l - d \in 1 .. (k - 1) /\ Touches(t, l - d, c)
        BY <4>1, <4>2, <4>3, <1>1, <1>4, <1>5, <1>14 DEF LastTouch
      <4>5. ASSUME NEW j \in DOMAIN t, j > l - d, Touches(t, j, c)
            PROVE  FALSE
        <5>1. j \in 1 .. (k - 1) /\ Touches(changes, j + d, c)
          BY <4>5, <2>3, <1>5a, <1>13
        <5>2. l \in Int /\ j \in Int /\ d \in Int /\ j + d > l
          BY <4>2, <4>5, <5>1, <1>1
        <5>3. j + d \in DOMAIN changes
          BY <5>1 DEF Touches
        <5>4. QED  BY <5>1, <5>2, <5>3, <4>2 DEF LastTouch
      <4>6. LastTouch(t, l - d, c)
        BY <4>4, <4>5 DEF LastTouch
      <4>7. QED  BY <4>4, <4>6, <1>5, <1>5a
    <3>3. QED  BY <3>1, <3>2
  <2>4. QED  BY <2>2, <2>3
<1>16. ASSUME NEW page, NEW s \in Int, s <= sequence, AgreesSince(page, s)
       PROVE  AgreesSince(page, s)'
  <2>1. SUFFICES ASSUME s \in (Base + d) .. (sequence + 1), NEW c \in Cells,
                        \A i \in 1 .. k : t[i].sequence > s => ~Touches(t, i, c)
                 PROVE  page[c] = pixels'[c]
    BY <1>1, <1>5, <1>5a, <1>6 DEF AgreesSince, UntouchedSince, t
  <2>2. QED
    <3>1. s \in Base .. sequence /\ s >= Base + d /\ s <= sequence
      <4>1. /\ s \in (Base + d) .. (sequence + 1) /\ s \in Int /\ s <= sequence
            /\ Base \in Int /\ sequence \in Int /\ d \in {0, 1}
        BY <2>1, <1>16, <1>1, <1>5, <1>8
      <4>2. QED  BY ONLY <4>1
    <3>2. c # here
      <4>1. t[k].sequence > s /\ k \in 1 .. k
        BY <3>1, <1>1, <1>3, <1>4, <1>5
      <4>2. ~Touches(t, k, c)
        BY <4>1, <2>1
      <4>3. QED  BY <4>2, <1>3, <1>4, <1>5, <1>5a DEF Touches
    <3>3. ASSUME NEW j \in DOMAIN changes, changes[j].sequence > s, Touches(changes, j, c)
          PROVE  FALSE
      <4>1. changes[j].sequence = Base + j /\ j \in Int
        BY <3>3, <1>1 DEF LogInOrder, LogIsContiguous
      <4>2. j > d
        <5>1. Base + j > s /\ s >= Base + d
          BY <4>1, <3>1, <3>3
        <5>2. Base \in Int /\ j \in Int /\ d \in Int /\ s \in Int
          BY <4>1, <3>1, <1>5, <1>8
        <5>3. QED  BY ONLY <5>1, <5>2
      <4>3. j - d \in 1 .. (k - 1) /\ Touches(t, j - d, c)
        BY <3>3, <4>2, <1>14
      <4>4. t[j - d].sequence = Base + d + (j - d) /\ j - d \in 1 .. k
        BY <4>3, <1>9, <1>5, <1>5a
      <4>5. t[j - d].sequence > s
        BY <4>1, <4>4, <3>3, <1>4, <1>5, <1>8
      <4>6. QED  BY <4>3, <4>4, <4>5, <2>1
    <3>4. page[c] = pixels[c]
      BY <3>1, <3>3, <1>16 DEF AgreesSince, UntouchedSince
    <3>5. QED  BY <3>2, <3>4, <1>7
<1>17. \E i \in DOMAIN changes' : /\ changes'[i].sequence = sequence'
                                  /\ CellOf(changes'[i]) = Index(x, y)
  BY <1>1, <1>3, <1>4, <1>5, <1>5a DEF t, here
<1>18. ASSUME NEW j \in DOMAIN changes, changes[j].sequence > Base'
       PROVE  \E i \in DOMAIN changes' : changes'[i] = changes[j]
  <2>1. changes[j].sequence = Base + j /\ j \in 1 .. Len(changes)
    BY <1>1 DEF LogInOrder, LogIsContiguous
  <2>2. j > d
    BY <2>1, <1>18, <1>5, <1>6, <1>8
  <2>3. j - d \in 1 .. (k - 1) /\ j - d + d = j
    BY <2>1, <2>2, <1>5, <1>5a
  <2>4. t[j - d] = changes[j] /\ j - d \in DOMAIN t
    BY <2>3, <1>5, <1>5a
  <2>5. QED  BY <2>4 DEF t
<1>19. LogInOrder' /\ Base' >= Base
  BY <1>5, <1>6, <1>8, <1>10, <1>15 DEF LogInOrder
<1>20. QED  BY <1>16, <1>17, <1>18, <1>19

(* A last change of the diff since s is a last change of the whole log:    *)
(* what follows it in the log has a larger number, so it is in the diff.   *)
LEMMA LastOfDiff ==
    ASSUME LogIsContiguous, sequence \in Nat, changes \in Seq(PixelChanges),
           NEW s \in Nat, NEW c \in Cells,
           NEW i \in DOMAIN changes, changes[i].sequence > s
    PROVE  LastTouch(DiffChanges(s), i, c) <=> LastTouch(changes, i, c)
<1> DEFINE D == {j \in DOMAIN changes : changes[j].sequence > s}
           diff == [j \in D |-> changes[j]]
<1>1. DOMAIN diff = D /\ i \in D /\ \A j \in D : diff[j] = changes[j]
  OBVIOUS
<1>2. \A j \in DOMAIN changes : j > i => j \in D
  <2>1. Len(changes) \in Nat /\ DOMAIN changes = 1 .. Len(changes)
    OBVIOUS
  <2>2. Base \in Int
    BY <2>1 DEF Base
  <2>3. \A j \in DOMAIN changes : changes[j].sequence = Base + j
    BY DEF LogIsContiguous
  <2>4. QED  BY <2>1, <2>2, <2>3
<1>3. \A j : j \in D => j \in DOMAIN changes
  OBVIOUS
<1>4. DiffChanges(s) = diff
  BY DEF DiffChanges
<1> HIDE DEF diff, D
<1>5. \A j \in D : Touches(diff, j, c) <=> Touches(changes, j, c)
  BY <1>1, <1>3 DEF Touches
<1>6. QED  BY <1>1, <1>2, <1>3, <1>4, <1>5 DEF LastTouch

(* The core of the argument: a page that agrees with the map since s has   *)
(* the map once it applies a diff since s that may be served.              *)
LEMMA DiffIsRight ==
    ASSUME MapTypeOK, LogInOrder, NEW page, NEW s \in Nat, s <= sequence,
           AgreesSince(page, s), CanServeDiff(s)
    PROVE  ApplyDiff(page, DiffChanges(s)) = pixels
<1>1. /\ sequence \in Nat /\ s \in Nat /\ s <= sequence
      /\ changes \in Seq(PixelChanges) /\ Len(changes) \in Nat
      /\ DOMAIN changes = 1 .. Len(changes)
      /\ pixels \in Pixmaps
      /\ Base \in Int /\ Base = sequence - Len(changes)
  BY DEF MapTypeOK, Base
<1>2. LogIsContiguous /\ \A i \in DOMAIN changes : changes[i].sequence = Base + i
  BY DEF LogInOrder, LogIsContiguous
<1>3. s \in Base .. sequence
  <2>1. CASE s >= sequence
    BY <2>1, <1>1
  <2>2. CASE changes # <<>> /\ s >= changes[1].sequence - 1
    <3>1. 1 \in DOMAIN changes
      BY <2>2, <1>1
    <3>2. changes[1].sequence = Base + 1
      BY <3>1, <1>2
    <3>3. QED  BY <2>2, <3>2, <1>1
  <2>3. QED  BY <2>1, <2>2 DEF CanServeDiff
<1> DEFINE D == {j \in DOMAIN changes : changes[j].sequence > s}
           diff == DiffChanges(s)
<1>4. DOMAIN diff = D /\ \A j \in D : diff[j] = changes[j]
  BY DEF DiffChanges
<1> HIDE DEF diff
<1>5. ASSUME NEW c \in Cells
      PROVE  ApplyDiff(page, diff)[c] = pixels[c]
  <2>1. CASE \E i \in DOMAIN diff : Touches(diff, i, c)
    <3>1. PICK i \in D : Touches(diff, i, c)
      BY <2>1, <1>4
    <3>2. Touches(changes, i, c) /\ i \in DOMAIN changes
      BY <3>1, <1>4 DEF Touches
    <3>3. PICK l \in DOMAIN changes : LastTouch(changes, l, c)
      BY <3>2 DEF LogInOrder, LastChangeIsShown
    <3>4. l >= i
      BY <3>2, <3>3, <1>1 DEF LastTouch
    <3>5. changes[l].sequence > s /\ l \in D
      <4>1. changes[l].sequence = Base + l /\ changes[i].sequence = Base + i
        BY <3>2, <3>3, <1>2
      <4>2. changes[i].sequence > s
        BY <3>1
      <4>3. QED  BY <4>1, <4>2, <3>2, <3>3, <3>4, <1>1
    <3>6. LastTouch(diff, l, c)
      BY <3>3, <3>5, <1>1, <1>2, LastOfDiff DEF diff
    <3> DEFINE m == CHOOSE j \in DOMAIN diff : LastTouch(diff, j, c)
    <3>7. m \in D /\ LastTouch(diff, m, c)
      BY <3>5, <3>6, <1>4
    <3> HIDE DEF m
    <3>8. LastTouch(changes, m, c) /\ m \in DOMAIN changes
      BY <3>7, <1>1, <1>2, LastOfDiff DEF diff
    <3>9. pixels[c] = changes[m].color
      BY <3>8 DEF LogInOrder, LastChangeIsShown
    <3>10. ApplyDiff(page, diff)[c] = diff[m].color
      BY <2>1 DEF ApplyDiff, m
    <3>11. QED  BY <3>7, <3>9, <3>10, <1>4
  <2>2. CASE ~ \E i \in DOMAIN diff : Touches(diff, i, c)
    <3>1. UntouchedSince(s, c)
      BY <2>2, <1>4 DEF UntouchedSince, Touches
    <3>2. page[c] = pixels[c]
      BY <3>1, <1>3 DEF AgreesSince
    <3>3. QED  BY <2>2, <3>2 DEF ApplyDiff
  <2>3. QED  BY <2>1, <2>2
<1>6. /\ ApplyDiff(page, diff) = [c \in Cells |-> ApplyDiff(page, diff)[c]]
      /\ pixels = [c \in Cells |-> pixels[c]]
  BY <1>1 DEF ApplyDiff, Pixmaps
<1>7. QED  BY <1>5, <1>6 DEF diff

(* decodeRle fills every cell with the colour of the one run it is in. *)
LEMMA DecodesRuns ==
    ASSUME NEW p \in Pixmaps PROVE DecodeRle(Runs(p)) = p
<1> DEFINE runs == Runs(p)
<1>1. /\ runs \in Seq(RunRecords) /\ CellsBefore(runs, Len(runs)) = Size
      /\ \A k \in 1 .. Len(runs), c \in Cells : Covers(runs, k, c) => p[c] = runs[k].color
  BY RunsOfMap
<1> HIDE DEF runs
<1>2. ASSUME NEW c \in Cells PROVE DecodeRle(runs)[c] = p[c]
  <2> DEFINE run == CHOOSE i \in 1 .. Len(runs) : Covers(runs, i, c)
  <2>1. \E i \in 1 .. Len(runs) : Covers(runs, i, c)
    BY <1>1, CellIsCovered
  <2>2. run \in 1 .. Len(runs) /\ Covers(runs, run, c)
    BY <2>1
  <2>3. DecodeRle(runs)[c] = runs[run].color
    BY <2>1 DEF DecodeRle
  <2> HIDE DEF run
  <2>4. QED  BY <1>1, <2>2, <2>3
<1>3. /\ DecodeRle(runs) = [c \in Cells |-> DecodeRle(runs)[c]]
      /\ p = [c \in Cells |-> p[c]]
  BY DEF DecodeRle, Pixmaps
<1>4. DecodeRle(runs) = p
  BY <1>2, <1>3
<1>5. QED  BY <1>4 DEF runs

(* A full reply is decoded to the map, cached or not. *)
LEMMA FullIsRight ==
    ASSUME MapTypeOK, CacheFresh, NEW page, NEW number
    PROVE  /\ RebuiltCache = Runs(pixels)
           /\ ApplyPayload(page, [type |-> "full", sequence |-> number,
                                  data |-> RebuiltCache]) = pixels
<1>1. RebuiltCache = Runs(pixels)
  BY DEF RebuiltCache, CacheFresh
<1>2. DecodeRle(Runs(pixels)) = pixels
  BY DecodesRuns DEF MapTypeOK
<1>3. QED  BY <1>1, <1>2 DEF ApplyPayload

(* Whatever the server answers, a diff or all, a page that agrees with the *)
(* map since the number it asks from has the map then.                     *)
LEMMA ReplyIsRight ==
    ASSUME MapTypeOK, CacheFresh, LogInOrder, NEW page, NEW s \in Nat,
           s <= sequence, AgreesSince(page, s)
    PROVE  ApplyPayload(page, MapReply(s)) = pixels
<1>1. CASE ServesDiff(s)
  BY <1>1, DiffIsRight DEF ServesDiff, MapReply, ApplyPayload
<1>2. CASE ~ServesDiff(s)
  BY <1>2, FullIsRight DEF MapReply
<1>3. QED  BY <1>1, <1>2
============================================================================
