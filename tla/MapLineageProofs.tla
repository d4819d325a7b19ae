-------------------------- MODULE MapLineageProofs --------------------------
(***************************************************************************)
(* For every size of the map, every palette and every length of the log:   *)
(* the types of MapLineage, the freshness of the cached encoding, and that *)
(* a diff the server agrees to serve leads to the current map.             *)
(***************************************************************************)
EXTENDS MapLineage, PixelMapProofs

USE DimensionAssumption, MaxChangesAssumption, BoundsAssumption

----------------------------------------------------------------------------
(* Types. *)

(* What one step does to the map and its history, by action. *)
LEMMA StepCases ==
    ASSUME Next
    PROVE  \/ \E x \in Columns, y \in Rows, color \in Colors : PlacePixel(x, y, color)
           \/ \E color \in Colors : ResetMap(color)
           \/ \E since : ReadMap(since)
           \/ SaveMap
           \/ \E image \in saved : RestoreMap(image)
  BY DEF Next

(* The types hold of a new server. *)
LEMMA TypeInit == Init => TypeOK
  BY MapInitTypes, BlankIsPixmap DEF Init, MapInit, TypeOK

(* Every method of the map keeps the types. *)
LEMMA TypeStep == TypeOK /\ [Next]_vars => TypeOK'
<1> SUFFICES ASSUME TypeOK, [Next]_vars PROVE TypeOK'
  OBVIOUS
<1>1. ASSUME NEW x \in Columns, NEW y \in Rows, NEW color \in Colors,
             PlacePixel(x, y, color)
      PROVE  TypeOK'
  <2>1. MapTypeOK'
    BY <1>1, SetPixelTypes DEF TypeOK, PlacePixel
  <2>2. QED  BY <1>1, <2>1 DEF TypeOK, MapTypeOK, PlacePixel, Recorded
<1>2. ASSUME NEW color \in Colors, ResetMap(color)
      PROVE  TypeOK'
  <2>1. MapTypeOK'
    BY <1>2, ResetTypes DEF TypeOK, ResetMap
  <2>2. QED  BY <1>2, <2>1 DEF TypeOK, MapTypeOK, ResetMap, Recorded
<1>3. ASSUME NEW since, ReadMap(since)
      PROVE  TypeOK'
  BY <1>3 DEF TypeOK, MapTypeOK, ReadMap, ToJson
<1>4. ASSUME SaveMap
      PROVE  TypeOK'
  BY <1>4 DEF TypeOK, MapTypeOK, SaveMap, MapImage, Images, mapVars
<1>5. ASSUME NEW image \in saved, RestoreMap(image)
      PROVE  TypeOK'
  BY <1>5 DEF TypeOK, MapTypeOK, RestoreMap, Install, Images
<1>6. CASE UNCHANGED vars
  BY <1>6 DEF TypeOK, MapTypeOK, vars, mapVars
<1>7. QED  BY <1>1, <1>2, <1>3, <1>4, <1>5, <1>6, StepCases

(* The state of the map, of its log and of the two history variables stays *)
(* well typed: trimming never leaves a log longer than MaxChanges, and no  *)
(* cell ever holds a colour outside the palette.                           *)
THEOREM TypeCorrect == Spec => []TypeOK
<1>1. QED  BY TypeInit, TypeStep, PTL DEF Spec

----------------------------------------------------------------------------
(* The cached encoding. *)

(* Every method keeps the cache fresh. *)
LEMMA CacheStep == TypeOK /\ CacheFresh /\ [Next]_vars => CacheFresh'
<1> SUFFICES ASSUME TypeOK, CacheFresh, [Next]_vars PROVE CacheFresh'
  OBVIOUS
<1>1. ASSUME NEW x \in Columns, NEW y \in Rows, NEW color \in Colors,
             PlacePixel(x, y, color)
      PROVE  CacheFresh'
  BY <1>1, SetPixelFresh DEF PlacePixel, TypeOK
<1>2. ASSUME NEW color \in Colors, ResetMap(color)
      PROVE  CacheFresh'
  BY <1>2, OthersFresh DEF ResetMap
<1>3. ASSUME NEW since, ReadMap(since)
      PROVE  CacheFresh'
  BY <1>3, OthersFresh DEF ReadMap
<1>4. ASSUME SaveMap
      PROVE  CacheFresh'
  BY <1>4 DEF CacheFresh, SaveMap, mapVars
<1>5. ASSUME NEW image \in saved, RestoreMap(image)
      PROVE  CacheFresh'
  BY <1>5, OthersFresh DEF RestoreMap
<1>6. CASE UNCHANGED vars
  BY <1>6 DEF CacheFresh, vars, mapVars
<1>7. QED  BY <1>1, <1>2, <1>3, <1>4, <1>5, <1>6, StepCases

(* The cached encoding is that of the current map whenever the dirty flag  *)
(* is down, although setPixel raises it only for a change of colour.       *)
THEOREM CacheIsFresh == Spec => []CacheFresh
<1>1. Init => CacheFresh
  BY DEF Init, MapInit, CacheFresh
<1>2. QED  BY <1>1, TypeCorrect, CacheStep, PTL DEF Spec

(* Every full reply carries the encoding of the current map, whether the   *)
(* cache was rebuilt for it or reused.                                     *)
THEOREM FullReplyIsCurrent ==
    Spec => [](\A since : ~ServesDiff(since) => MapReply(since).data = Runs(pixels))
<1>1. CacheFresh => \A since : ~ServesDiff(since) => MapReply(since).data = Runs(pixels)
  BY DEF CacheFresh, MapReply, RebuiltCache
<1>2. QED  BY <1>1, CacheIsFresh, PTL

----------------------------------------------------------------------------
(* The log of changes. *)

(* The history ends with the current map, and covers no more than it. *)
EndsWithMap ==
    /\ DOMAIN lineage \subseteq 0 .. sequence
    /\ sequence \in DOMAIN lineage
    /\ lineage[sequence] = pixels

(* After a reset, a restore or the start the log accounts for the map.     *)
LEMMA StartsAfresh ==
    ASSUME sequence \in Nat, changes = <<>>, EndsWithMap PROVE LogAccountsForMap
<1>1. LogInOrder /\ Base = sequence
  BY EmptyLog
<1>2. LineageCoversLog
  BY <1>1 DEF LineageCoversLog, EndsWithMap
<1>3. UntouchedIsUnchanged
  BY <1>1 DEF UntouchedIsUnchanged, AgreesSince, EndsWithMap
<1>4. QED  BY <1>1, <1>2, <1>3 DEF LogAccountsForMap

(* So it does after such a step. *)
LEMMA StartsAfreshNext ==
    ASSUME sequence' \in Nat, changes' = <<>>, EndsWithMap' PROVE LogAccountsForMap'
<1>1. (sequence \in Nat /\ changes = <<>> /\ EndsWithMap => LogAccountsForMap)'
  BY StartsAfresh, PTL
<1>2. QED  BY <1>1

(* A new server has an empty log. *)
LEMMA LogInit == Init => LogAccountsForMap
<1> SUFFICES ASSUME Init PROVE LogAccountsForMap
  OBVIOUS
<1>1. sequence = 0 /\ changes = <<>> /\ pixels = Blank /\ lineage = [s \in {0} |-> Blank]
  BY DEF Init, MapInit
<1>2. DOMAIN lineage = {0} /\ lineage[0] = Blank
  BY <1>1
<1>3. QED  BY <1>1, <1>2, StartsAfresh DEF EndsWithMap

(* A pixel placed: the pages of the history still agree with the map, and  *)
(* the new one is the map.                                                 *)
LEMMA LogPlace ==
    ASSUME TypeOK, LogAccountsForMap,
           NEW x \in Columns, NEW y \in Rows, NEW color \in Colors,
           PlacePixel(x, y, color)
    PROVE  LogAccountsForMap'
<1>1. /\ LogInOrder' /\ Base' >= Base
      /\ \A page : \A s \in Int :
            s <= sequence /\ AgreesSince(page, s) => AgreesSince(page, s)'
  BY SetPixelLog DEF TypeOK, PlacePixel, LogAccountsForMap
<1>2. sequence \in Nat /\ sequence' = sequence + 1 /\ lineage' = Recorded
  BY DEF TypeOK, MapTypeOK, PlacePixel, SetPixel
<1>3. /\ DOMAIN lineage' = DOMAIN lineage \cup {sequence + 1}
      /\ lineage'[sequence + 1] = pixels'
      /\ \A s \in DOMAIN lineage : s # sequence + 1 => lineage'[s] = lineage[s]
  BY <1>2 DEF Recorded
<1>4. /\ DOMAIN lineage \subseteq 0 .. sequence
      /\ Base .. sequence \subseteq DOMAIN lineage
  BY DEF LogAccountsForMap, LineageCoversLog
<1>5. Base \in Int /\ Base' \in Int
  <2>1. Len(changes) \in Nat /\ Len(changes') \in Nat
    BY SetPixelTypes DEF TypeOK, MapTypeOK, PlacePixel
  <2>2. QED  BY <2>1, <1>2 DEF Base
<1>6. LineageCoversLog'
  <2>1. DOMAIN lineage' \subseteq 0 .. (sequence + 1)
    BY <1>2, <1>3, <1>4
  <2>2. Base' .. (sequence + 1) \subseteq DOMAIN lineage'
    BY <1>1, <1>2, <1>3, <1>4, <1>5
  <2>3. QED  BY <2>1, <2>2, <1>2, <1>3 DEF LineageCoversLog
<1>7. UntouchedIsUnchanged'
  <2>1. SUFFICES ASSUME NEW s \in DOMAIN lineage' PROVE AgreesSince(lineage[s], s)'
    BY DEF UntouchedIsUnchanged
  <2>2. CASE s = sequence + 1
    BY <2>2, <1>2, <1>3 DEF AgreesSince
  <2>3. CASE s # sequence + 1
    <3>1. s \in DOMAIN lineage /\ s \in 0 .. sequence /\ lineage'[s] = lineage[s]
      BY <2>1, <2>3, <1>3, <1>4
    <3>2. PICK page : page = lineage[s]
      OBVIOUS
    <3>3. AgreesSince(page, s)
      BY <3>1, <3>2 DEF LogAccountsForMap, UntouchedIsUnchanged
    <3>4. AgreesSince(page, s)'
      BY <3>1, <3>3, <1>1, <1>2
    <3>5. QED  BY <3>1, <3>2, <3>4 DEF AgreesSince
  <2>4. QED  BY <2>2, <2>3
<1>8. QED  BY <1>1, <1>6, <1>7 DEF LogAccountsForMap

(* Every method of the map keeps its log in order. *)
LEMMA LogStep == TypeOK /\ LogAccountsForMap /\ [Next]_vars => LogAccountsForMap'
<1> SUFFICES ASSUME TypeOK, LogAccountsForMap, [Next]_vars PROVE LogAccountsForMap'
  OBVIOUS
<1>1. ASSUME NEW x \in Columns, NEW y \in Rows, NEW color \in Colors,
             PlacePixel(x, y, color)
      PROVE  LogAccountsForMap'
  BY <1>1, LogPlace
<1>2. ASSUME NEW color \in Colors, ResetMap(color)
      PROVE  LogAccountsForMap'
  <2>1. /\ sequence \in Nat /\ sequence' = sequence + 1 /\ changes' = <<>>
        /\ lineage' = Recorded
    BY <1>2 DEF TypeOK, MapTypeOK, ResetMap, Reset
  <2>2. DOMAIN lineage \subseteq 0 .. sequence
    BY DEF LogAccountsForMap, LineageCoversLog
  <2>3. /\ DOMAIN lineage' \subseteq 0 .. sequence'
        /\ sequence' \in DOMAIN lineage'
        /\ lineage'[sequence'] = pixels'
    BY <2>1, <2>2 DEF Recorded
  <2>4. QED  BY <2>1, <2>3, StartsAfreshNext DEF EndsWithMap
<1>3. ASSUME UNCHANGED <<pixels, sequence, changes, lineage>>
      PROVE  LogAccountsForMap'
  BY <1>3 DEF LogAccountsForMap, LogInOrder, LogIsContiguous, LineageCoversLog,
              LastChangeIsShown, UntouchedIsUnchanged, AgreesSince, UntouchedSince, Base
<1>4. ASSUME NEW since, ReadMap(since)
      PROVE  LogAccountsForMap'
  BY <1>3, <1>4 DEF ReadMap, ToJson
<1>5. ASSUME SaveMap
      PROVE  LogAccountsForMap'
  BY <1>3, <1>5 DEF SaveMap, mapVars
<1>6. ASSUME NEW image \in saved, RestoreMap(image)
      PROVE  LogAccountsForMap'
  <2>1. /\ image.sequence \in Nat
        /\ pixels' = image.pixels /\ sequence' = image.sequence /\ changes' = <<>>
        /\ lineage' = [s \in {image.sequence} |-> image.pixels]
    BY <1>6 DEF TypeOK, Images, RestoreMap, Install
  <2>2. /\ DOMAIN lineage' \subseteq 0 .. sequence'
        /\ sequence' \in DOMAIN lineage'
        /\ lineage'[sequence'] = pixels'
    BY <2>1
  <2>3. QED  BY <2>1, <2>2, StartsAfreshNext DEF EndsWithMap
<1>7. CASE UNCHANGED vars
  BY <1>3, <1>7 DEF vars, mapVars
<1>8. QED  BY <1>1, <1>2, <1>4, <1>5, <1>6, <1>7, StepCases

(* The log of changes, trimmed at MaxChanges and cleared by resets and     *)
(* restores, accounts for the map at every number it covers.               *)
THEOREM LogAccounts == Spec => []LogAccountsForMap
<1>1. QED  BY LogInit, TypeCorrect, LogStep, PTL DEF Spec

----------------------------------------------------------------------------
(* Diffs. *)

(* A browser at any sequence number for which the server answers with a    *)
(* diff has the current map once it has applied it, for every map size and *)
(* every length of the log.                                                *)
THEOREM DiffsReachCurrent == Spec => []DiffReachesCurrent
<1>1. TypeOK /\ LogAccountsForMap => DiffReachesCurrent
  <2>1. SUFFICES ASSUME TypeOK, LogAccountsForMap, NEW s \in DOMAIN lineage, CanServeDiff(s)
                 PROVE  ApplyDiff(lineage[s], DiffChanges(s)) = pixels
    BY DEF DiffReachesCurrent
  <2>2. sequence \in Nat /\ s \in 0 .. sequence
    BY <2>1 DEF TypeOK, MapTypeOK, LogAccountsForMap, LineageCoversLog
  <2>3. AgreesSince(lineage[s], s)
    BY <2>1 DEF LogAccountsForMap, UntouchedIsUnchanged
  <2>4. QED  BY <2>1, <2>2, <2>3, DiffIsRight DEF TypeOK, LogAccountsForMap
<1>2. QED  BY <1>1, TypeCorrect, LogAccounts, PTL

----------------------------------------------------------------------------
(* The browser's decoder and the files. *)

(* The browser decodes every full reply to the map that it encodes. *)
THEOREM FullReplyIsDecoded == Spec => []BrowserDecodesFullReply
<1>1. TypeOK => BrowserDecodesFullReply
  BY DecodesRuns DEF TypeOK, MapTypeOK, BrowserDecodesFullReply
<1>2. QED  BY <1>1, TypeCorrect, PTL

(* Whatever a browser of this lineage asks, full map or diff, it shows the *)
(* current map once it has applied the answer.                             *)
THEOREM RepliesReachCurrent == Spec => []ReplyReachesCurrent
<1>1. TypeOK /\ CacheFresh /\ LogAccountsForMap => ReplyReachesCurrent
  <2> SUFFICES ASSUME TypeOK, CacheFresh, LogAccountsForMap PROVE ReplyReachesCurrent
    OBVIOUS
  <2>1. ApplyPayload(pixels, MapReply(NoSince)) = pixels
    BY FullIsRight DEF TypeOK, MapReply, ServesDiff
  <2>2. ASSUME NEW s \in DOMAIN lineage PROVE ApplyPayload(lineage[s], MapReply(s)) = pixels
    <3>1. sequence \in Nat /\ s \in 0 .. sequence
      BY DEF TypeOK, MapTypeOK, LogAccountsForMap, LineageCoversLog
    <3>2. AgreesSince(lineage[s], s)
      BY DEF LogAccountsForMap, UntouchedIsUnchanged
    <3>3. QED  BY <3>1, <3>2, ReplyIsRight DEF TypeOK, LogAccountsForMap
  <2>3. QED  BY <2>1, <2>2 DEF ReplyReachesCurrent
<1>2. QED  BY <1>1, TypeCorrect, CacheIsFresh, LogAccounts, PTL

(* saveBinary followed by loadBinary changes nothing, for every map. *)
THEOREM WholeFilesRestore == Spec => []WholeFileRestoresImage
<1>1. TypeOK => WholeFileRestoresImage
  BY MapImageIsImage, WholeFileLoads DEF TypeOK, WholeFileRestoresImage
<1>2. QED  BY <1>1, TypeCorrect, PTL

(* A file of the current map with any of its tokens missing is refused. *)
THEOREM TornFilesRefused == Spec => []TornFileIsRefused
<1>1. TypeOK => TornFileIsRefused
  BY MapImageIsImage, TornFileFails DEF TypeOK, TornFileIsRefused
<1>2. QED  BY <1>1, TypeCorrect, PTL

==============================================================================
