-------------------------- MODULE MapClientProofs --------------------------
(***************************************************************************)
(* What a page keeps that follows the map, for any map, any length of the  *)
(* log, and any bounds on pixels, writes and incidents: its types, and, if *)
(* it has one request in flight besides its stream, that the next answer   *)
(* brings it to the current map.                                           *)
(*                                                                         *)
(* The invariant says what "the page is at number n" means while others    *)
(* write: n is not ahead of the map, and if the log still goes back to n,  *)
(* the page shows every cell as the map does that no change after n names. *)
(* A payload on its way is such a page, or consists of changes that the    *)
(* log has or is past.  It holds until the map is rolled back.             *)
(***************************************************************************)
EXTENDS MapClient, PixelMapProofs

USE DimensionAssumption, MaxChangesAssumption, ClientAssumption

----------------------------------------------------------------------------
(* What an exchange may carry. *)

Numbers == 0 .. MaxSequence

(* An encoding of some map, or some of its changes. *)
IsFull(body) ==
    /\ body.type = "full" /\ body.sequence \in Numbers
    /\ \E p \in Pixmaps : body.data = Runs(p)

IsDiff(body) ==
    /\ body.type = "diff" /\ body.sequence \in Numbers
    /\ DOMAIN body.changes \subseteq 1 .. MaxChanges
    /\ \A i \in DOMAIN body.changes : body.changes[i] \in PixelChanges

IsAsk(x)    == x.kind = "ask" /\ x.since \in {NoSince} \cup Numbers
IsPlace(x)  == x.kind = "place" /\ IsInBounds(x.x, x.y) /\ x.color \in Colors
IsPlaced(x) == /\ x.kind = "placed" /\ IsInBounds(x.x, x.y) /\ x.color \in Colors
               /\ x.sequence \in Numbers

IsPayload(x) ==
    /\ x.kind = "payload" /\ x.since \in {NoSince} \cup Numbers
    /\ IsFull(x.body) \/ IsDiff(x.body)
    /\ x.since = NoSince => IsFull(x.body)

IsExchange(x) == x = Idle \/ IsAsk(x) \/ IsPlace(x) \/ IsPayload(x) \/ IsPlaced(x)

ExchangesFit ==
    /\ DOMAIN exchange = Exchanges /\ exchange = [e \in Exchanges |-> exchange[e]]
    /\ \A e \in Exchanges : IsExchange(exchange[e])

(* The request of the first load, and its answer. *)
Loading(e) == exchange[e].kind \in {"ask", "payload"} /\ exchange[e].since = NoSince

(* There is one first load, and pixels are placed by a page that is ready. *)
RequestsFit ==
    \A e \in Exchanges :
        /\ Loading(e) => phase = "loading" /\ \A d \in Exchanges : Loading(d) => d = e
        /\ exchange[e].kind \in {"place", "placed"} => phase = "ready" /\ ownPixels > 0

MapFits ==
    /\ MapTypeOK /\ CacheFresh /\ LogInOrder
    /\ sequence <= MaxSequence
    /\ backup \in Images /\ backup.sequence <= MaxSequence

PageFits ==
    /\ screen \in Pixmaps \cup {NoMap}
    /\ shown \in Numbers
    /\ phase \in {"loading", "loaded", "ready"}
    /\ phase # "loading" => screen \in Pixmaps
    /\ streamSince \in {NoStream} \cup Numbers
    /\ ownPixels \in Nat
    /\ phase # "ready" => streamSince = NoStream /\ ownPixels = 0
    /\ streamSince = NoStream => exchange["stream"] = Idle
    /\ rollbacks \in Nat /\ loadedAfter \in 0 .. rollbacks

Shapes == MapFits /\ ExchangesFit /\ RequestsFit /\ PageFits

(* They include the types. *)
LEMMA ShapesGiveTypes == Shapes => TypeOK
<1>1. ASSUME ExchangesFit, NEW e \in Exchanges
      PROVE  exchange[e].kind \in {"idle", "ask", "place", "payload", "placed"}
  BY <1>1 DEF ExchangesFit, IsExchange, IsAsk, IsPlace, IsPayload, IsPlaced, Idle
<1>2. QED  BY <1>1 DEF Shapes, MapFits, PageFits, TypeOK, Numbers

(* Another thing in the place of what e carried. *)
LEMMA ExchangeChanged ==
    ASSUME ExchangesFit, NEW e \in Exchanges, NEW x, IsExchange(x),
           exchange' = [exchange EXCEPT ![e] = x]
    PROVE  /\ ExchangesFit'
           /\ exchange'[e] = x
           /\ \A d \in Exchanges \ {e} : exchange'[d] = exchange[d]
BY DEF ExchangesFit

(* It is no first load unless it was one. *)
LEMMA RequestChanged ==
    ASSUME ExchangesFit, RequestsFit, PageFits, NEW e \in Exchanges, NEW x,
           exchange' = [exchange EXCEPT ![e] = x],
           phase' = phase, ownPixels' \in Nat, ownPixels' >= ownPixels,
           x.kind \in {"ask", "payload"} /\ x.since = NoSince => Loading(e),
           x.kind \in {"place", "placed"} => phase = "ready" /\ ownPixels' > 0
    PROVE  RequestsFit'
<1>1. exchange'[e] = x /\ \A d \in Exchanges \ {e} : exchange'[d] = exchange[d]
  BY DEF ExchangesFit
<1>2. \A d \in Exchanges : Loading(d)' => Loading(d)
  BY <1>1 DEF Loading
<1>3. ASSUME NEW d \in Exchanges, exchange'[d].kind \in {"place", "placed"}
      PROVE  phase' = "ready" /\ ownPixels' > 0
  <2>1. CASE d = e
    BY <1>1, <1>3, <2>1
  <2>2. CASE d # e
    <3>1. phase = "ready" /\ ownPixels > 0
      BY <1>1, <1>3, <2>2 DEF RequestsFit
    <3>2. QED  BY <3>1 DEF PageFits
  <2>3. QED  BY <2>1, <2>2
<1>4. ASSUME NEW d \in Exchanges, Loading(d)'
      PROVE  phase' = "loading" /\ \A c \in Exchanges : Loading(c)' => c = d
  BY <1>2, <1>4 DEF RequestsFit
<1>5. QED  BY <1>3, <1>4 DEF RequestsFit

----------------------------------------------------------------------------
(* What is drawn is a map. *)

(* A map has a cell, the canvas before the first load has none. *)
LEMMA PixmapIsMap == NoMap \notin Pixmaps
<1>1. 0 \in Cells
  BY SizeIsPositive DEF Cells
<1>2. QED  BY <1>1 DEF Pixmaps, NoMap

(* Each cell has the colour of the last change that names it, if any does. *)
LEMMA AppliedCell ==
    ASSUME NEW body, IsDiff(body), NEW p, NEW c \in Cells
    PROVE  \/ \E i \in DOMAIN body.changes :
                 /\ LastTouch(body.changes, i, c)
                 /\ ApplyDiff(p, body.changes)[c] = body.changes[i].color
           \/ /\ \A i \in DOMAIN body.changes : ~Touches(body.changes, i, c)
              /\ ApplyDiff(p, body.changes)[c] = p[c]
<1> DEFINE ds == body.changes
           T == {i \in DOMAIN ds : Touches(ds, i, c)}
<1>1. CASE T = {}
  BY <1>1 DEF ApplyDiff
<1>2. CASE T # {}
  <2>1. T \in SUBSET (0 .. MaxChanges) /\ MaxChanges \in Nat
    BY DEF IsDiff
  <2>2. PICK l \in T : \A i \in T : i <= l
    <3> HIDE DEF T
    <3>1. QED  BY <1>2, <2>1, GreatestNumber
  <2>3. LastTouch(ds, l, c)
    <3>1. \A j \in DOMAIN ds : j \in Int /\ l \in Int
      BY <2>1, <2>2 DEF IsDiff
    <3>2. QED  BY <2>2, <3>1 DEF LastTouch
  <2> DEFINE m == CHOOSE i \in DOMAIN ds : LastTouch(ds, i, c)
  <2>4. m \in DOMAIN ds /\ LastTouch(ds, m, c)
    BY <2>2, <2>3
  <2>5. ApplyDiff(p, ds)[c] = ds[m].color
    BY <2>2 DEF ApplyDiff
  <2> HIDE DEF m
  <2>6. QED  BY <2>4, <2>5
<1>3. QED  BY <1>1, <1>2

(* So a diff leads from a map to a map, *)
LEMMA AppliedIsPixmap ==
    ASSUME NEW body, IsDiff(body), NEW p \in Pixmaps
    PROVE  ApplyDiff(p, body.changes) \in Pixmaps
<1> DEFINE q == ApplyDiff(p, body.changes)
<1>1. q = [c \in Cells |-> q[c]]
  BY DEF ApplyDiff
<1>2. ASSUME NEW c \in Cells PROVE q[c] \in Colors
  <2>1. p[c] \in Colors
    BY DEF Pixmaps
  <2>2. \A i \in DOMAIN body.changes : body.changes[i].color \in Colors
    BY DEF IsDiff, PixelChanges
  <2>3. QED  BY <2>1, <2>2, AppliedCell
<1> HIDE DEF q
<1>3. q \in Pixmaps
  BY <1>1, <1>2 DEF Pixmaps
<1>4. QED  BY <1>3 DEF q

(* and what the page draws is a map once it has had a full one. *)
LEMMA DrawnIsPixmap ==
    ASSUME NEW body, NEW p \in Pixmaps \cup {NoMap},
           IsFull(body) \/ (IsDiff(body) /\ p \in Pixmaps)
    PROVE  ApplyPayload(p, body) \in Pixmaps
<1>1. CASE IsFull(body)
  BY <1>1, DecodesRuns DEF IsFull, ApplyPayload
<1>2. CASE IsDiff(body) /\ p \in Pixmaps
  BY <1>2, AppliedIsPixmap DEF IsDiff, ApplyPayload
<1>3. QED  BY <1>1, <1>2

(* The answer of the server fits. *)
LEMMA ReplyFits ==
    ASSUME MapFits, NEW since \in {NoSince} \cup Numbers
    PROVE  IsPayload(Payload(since, MapReply(since)))
<1> DEFINE body == MapReply(since)
<1>1. sequence \in Numbers
  BY DEF MapFits, MapTypeOK, Numbers
<1>2. CASE ServesDiff(since)
  <2>1. body.type = "diff" /\ body.sequence = sequence /\ body.changes = DiffChanges(since)
    BY <1>2 DEF MapReply
  <2>2. /\ DOMAIN changes \subseteq 1 .. MaxChanges
        /\ \A i \in DOMAIN changes : changes[i] \in PixelChanges
    BY DEF MapFits, MapTypeOK
  <2>3. /\ DOMAIN DiffChanges(since) \subseteq DOMAIN changes
        /\ \A i \in DOMAIN DiffChanges(since) : DiffChanges(since)[i] = changes[i]
    BY DEF DiffChanges
  <2> HIDE DEF body
  <2>4. IsDiff(body)
    BY <1>1, <2>1, <2>2, <2>3 DEF IsDiff
  <2>5. since # NoSince
    BY <1>2 DEF ServesDiff
  <2>6. QED  BY <2>4, <2>5 DEF IsPayload, Payload, body
<1>3. CASE ~ServesDiff(since)
  <2>1. body.type = "full" /\ body.sequence = sequence /\ body.data = Runs(pixels)
    BY <1>3, FullIsRight DEF MapReply, MapFits
  <2> HIDE DEF body
  <2>2. IsFull(body)
    BY <1>1, <2>1 DEF IsFull, MapFits, MapTypeOK
  <2>3. QED  BY <2>2 DEF IsPayload, Payload, body
<1>4. QED  BY <1>2, <1>3

----------------------------------------------------------------------------
(* What the map keeps. *)

(* The map is left alone, but for its cache. *)
LEMMA SameMap ==
    ASSUME MapFits, (\E since : ToJson(since)) \/ UNCHANGED mapVars,
           backup' \in {backup, MapImage}
    PROVE  MapFits' /\ UNCHANGED <<pixels, sequence, changes>>
<1>1. UNCHANGED <<pixels, sequence, changes>>
  BY DEF ToJson, mapVars
<1>2. CacheFresh' /\ cacheDirty' \in BOOLEAN
  BY OthersFresh DEF mapVars, MapFits, CacheFresh, MapTypeOK, ToJson
<1>3. MapTypeOK'
  BY <1>1, <1>2 DEF MapFits, MapTypeOK
<1>4. LogInOrder'
  BY <1>1 DEF MapFits, LogInOrder, LogIsContiguous, LastChangeIsShown, Base
<1>5. MapImage \in Images /\ MapImage.sequence <= MaxSequence
  BY MapImageIsImage DEF MapFits, MapImage
<1>6. QED  BY <1>1, <1>2, <1>3, <1>4, <1>5 DEF MapFits

(* A map that is loaded has an empty log. *)
LEMMA LoadedMap ==
    ASSUME MapFits, NEW image \in Images, image.sequence <= MaxSequence, Install(image),
           backup' = backup
    PROVE  MapFits' /\ Base' = sequence' /\ sequence' = image.sequence
<1>1. MapTypeOK' /\ CacheFresh' /\ sequence' = image.sequence /\ changes' = <<>>
  BY InstallTypes, OthersFresh DEF MapFits, Install
<1>2. LogInOrder' /\ Base' = sequence'
  BY <1>1, EmptyLogNext DEF MapTypeOK
<1>3. QED  BY <1>1, <1>2 DEF MapFits

(* So has one that is reset. *)
LEMMA ClearedMap ==
    ASSUME MapFits, NEW color, Reset(color), sequence < MaxSequence, backup' = backup
    PROVE  MapFits' /\ Base' = sequence' /\ sequence' = sequence + 1
<1>1. MapTypeOK' /\ CacheFresh' /\ sequence' = sequence + 1 /\ changes' = <<>>
  BY ResetTypes, OthersFresh DEF MapFits, Reset
<1>2. LogInOrder' /\ Base' = sequence'
  BY <1>1, EmptyLogNext DEF MapTypeOK
<1>3. QED  BY <1>1, <1>2 DEF MapFits, MapTypeOK

(* A pixel is placed. *)
LEMMA PlacedMap ==
    ASSUME MapFits, NEW x \in Columns, NEW y \in Rows, NEW color \in Colors,
           SetPixel(x, y, color), sequence < MaxSequence, backup' = backup
    PROVE  MapFits' /\ sequence' = sequence + 1
<1>1. MapTypeOK' /\ CacheFresh' /\ LogInOrder' /\ sequence' = sequence + 1
  BY SetPixelTypes, SetPixelFresh, SetPixelLog DEF MapFits, SetPixel
<1>2. QED  BY <1>1 DEF MapFits, MapTypeOK

----------------------------------------------------------------------------
(* What pages and payloads keep while the map goes on. *)

(* The page p at number n. *)
Held(p, n) == n <= sequence /\ AgreesSince(p, n)

(* The log still has change d, or is past it. *)
Known(d) ==
    /\ d.sequence <= sequence
    /\ d.sequence > Base =>
          \E i \in DOMAIN changes : /\ changes[i].sequence = d.sequence
                                    /\ CellOf(changes[i]) = CellOf(d)

(* The next step does not leave this history. *)
GoesOn ==
    /\ sequence' \in Nat /\ sequence' >= sequence
    /\ \A p : \A n \in Nat : Held(p, n) => Held(p, n)'
    /\ \A d : d.sequence \in Nat /\ Known(d) => Known(d)'

(* The map at the current number agrees with itself. *)
LEMMA MapIsHeld == MapFits => Held(pixels, sequence)
BY DEF MapFits, MapTypeOK, Held, AgreesSince

(* Nothing is behind the current number in the log. *)
LEMMA NowIsMap ==
    ASSUME MapFits, NEW p, Held(p, sequence), NEW c \in Cells
    PROVE  p[c] = pixels[c]
<1>1. sequence \in Nat /\ Len(changes) \in Nat /\ DOMAIN changes = 1 .. Len(changes)
  BY DEF MapFits, MapTypeOK
<1>2. Base \in Nat /\ sequence \in Base .. sequence
  BY <1>1 DEF Base, MapFits, LogInOrder, LogIsContiguous
<1>3. \A i \in DOMAIN changes : changes[i].sequence = Base + i
  BY DEF MapFits, LogInOrder, LogIsContiguous
<1>4. \A i \in DOMAIN changes : ~(changes[i].sequence > sequence)
  BY <1>1, <1>2, <1>3 DEF Base
<1>5. UntouchedSince(sequence, c)
  BY <1>4 DEF UntouchedSince
<1>6. QED  BY <1>2, <1>5 DEF Held, AgreesSince

(* A step that leaves the map alone goes on. *)
LEMMA SameGoesOn ==
    ASSUME MapFits, UNCHANGED <<pixels, sequence, changes>>
    PROVE  GoesOn
<1>1. sequence' \in Nat /\ sequence' >= sequence
  BY DEF MapFits, MapTypeOK
<1>2. Base' = Base
  BY DEF Base
<1>3. \A p, n : Held(p, n) => Held(p, n)'
  BY <1>2 DEF Held, AgreesSince, UntouchedSince
<1>4. \A d : Known(d) => Known(d)'
  BY <1>2 DEF Known
<1>5. QED  BY <1>1, <1>3, <1>4 DEF GoesOn

(* So does a reset: it forgets the log, and no page is at the new number. *)
LEMMA ClearGoesOn ==
    ASSUME MapFits, NEW color, Reset(color), sequence < MaxSequence, backup' = backup
    PROVE  GoesOn
<1>1. Base' = sequence + 1 /\ sequence' = sequence + 1 /\ sequence \in Nat
  BY ClearedMap DEF MapFits, MapTypeOK
<1>2. ASSUME NEW p, NEW n \in Nat, Held(p, n) PROVE Held(p, n)'
  BY <1>1, <1>2 DEF Held, AgreesSince
<1>3. ASSUME NEW d, d.sequence \in Nat, Known(d) PROVE Known(d)'
  BY <1>1, <1>3 DEF Known
<1>4. QED  BY <1>1, <1>2, <1>3 DEF GoesOn

(* So does a pixel: a page at n keeps the cells untouched since n.         *)
LEMMA PlaceGoesOn ==
    ASSUME MapFits, NEW x \in Columns, NEW y \in Rows, NEW color \in Colors,
           SetPixel(x, y, color), sequence < MaxSequence, backup' = backup
    PROVE  GoesOn
<1>1. /\ Base' >= Base
      /\ \A page : \A s \in Int :
            s <= sequence /\ AgreesSince(page, s) => AgreesSince(page, s)'
      /\ \A j \in DOMAIN changes : changes[j].sequence > Base' =>
            \E i \in DOMAIN changes' : changes'[i] = changes[j]
  BY SetPixelLog DEF MapFits
<1>2. sequence' = sequence + 1 /\ sequence \in Nat /\ Base \in Int /\ Base' \in Int
  <2>1. MapFits' /\ sequence' = sequence + 1
    BY PlacedMap
  <2>2. sequence \in Nat /\ Len(changes) \in Nat /\ Len(changes') \in Nat
    BY <2>1 DEF MapFits, MapTypeOK
  <2>3. QED  BY <2>1, <2>2 DEF Base
<1>3. ASSUME NEW p, NEW n \in Nat, Held(p, n) PROVE Held(p, n)'
  BY <1>1, <1>2, <1>3 DEF Held
<1>4. ASSUME NEW d, d.sequence \in Nat, Known(d) PROVE Known(d)'
  <2>1. d.sequence <= sequence'
    BY <1>2, <1>4 DEF Known
  <2>2. ASSUME d.sequence > Base'
        PROVE  \E i \in DOMAIN changes' : /\ changes'[i].sequence = d.sequence
                                          /\ CellOf(changes'[i]) = CellOf(d)
    <3>1. d.sequence > Base
      BY <1>1, <1>2, <1>4, <2>2
    <3>2. PICK j \in DOMAIN changes : /\ changes[j].sequence = d.sequence
                                      /\ CellOf(changes[j]) = CellOf(d)
      BY <3>1, <1>4 DEF Known
    <3>3. PICK i \in DOMAIN changes' : changes'[i] = changes[j]
      BY <3>2, <2>2, <1>1
    <3>4. QED  BY <3>2, <3>3
  <2>3. QED  BY <2>1, <2>2 DEF Known
<1>5. QED  BY <1>2, <1>3, <1>4 DEF GoesOn

(* A restart forgets the log: only pages that are at the map agree then.   *)
LEMMA RestartGoesOn ==
    ASSUME MapFits, Install(MapImage), backup' = backup
    PROVE  GoesOn
<1>1. /\ pixels' = pixels /\ sequence' = sequence /\ sequence \in Nat /\ Base' = sequence
  <2>1. MapImage \in Images /\ MapImage.sequence <= MaxSequence
    BY MapImageIsImage DEF MapFits, MapImage
  <2>2. Base' = sequence' /\ sequence' = MapImage.sequence
    BY <2>1, LoadedMap
  <2>3. QED  BY <2>2 DEF MapImage, Install, MapFits, MapTypeOK
<1>2. ASSUME NEW p, NEW n \in Nat, Held(p, n) PROVE Held(p, n)'
  <2>1. CASE n = sequence
    <3>1. \A c \in Cells : p[c] = pixels'[c]
      BY <2>1, <1>1, <1>2, NowIsMap
    <3>2. QED  BY <2>1, <3>1, <1>1 DEF Held, AgreesSince
  <2>2. CASE n # sequence
    BY <2>2, <1>1, <1>2 DEF Held, AgreesSince
  <2>3. QED  BY <2>1, <2>2
<1>3. ASSUME NEW d, d.sequence \in Nat, Known(d) PROVE Known(d)'
  BY <1>1, <1>3 DEF Known
<1>4. QED  BY <1>1, <1>2, <1>3 DEF GoesOn

----------------------------------------------------------------------------
(* No step leaves the shapes. *)

(* The page asks, or the server answers; the page itself stays as it is. *)
LEMMA ExchangeShapes ==
    ASSUME Shapes, MapFits', NEW e \in Exchanges, NEW x, IsExchange(x),
           exchange' = [exchange EXCEPT ![e] = x],
           UNCHANGED <<screen, shown, phase, streamSince, rollbacks>>,
           loadedAfter' \in 0 .. rollbacks,
           ownPixels' \in Nat, ownPixels' >= ownPixels, phase # "ready" => ownPixels' = 0,
           x.kind \in {"ask", "payload"} /\ x.since = NoSince => Loading(e),
           x.kind \in {"place", "placed"} => phase = "ready" /\ ownPixels' > 0,
           e = "stream" /\ streamSince = NoStream => x = Idle
    PROVE  Shapes'
<1>1. ExchangesFit' /\ exchange'[e] = x /\ \A d \in Exchanges \ {e} : exchange'[d] = exchange[d]
  BY ExchangeChanged DEF Shapes
<1>2. RequestsFit'
  BY RequestChanged DEF Shapes
<1>3. "stream" \in Exchanges
  BY DEF Exchanges
<1>4. streamSince = NoStream => exchange'["stream"] = Idle
  BY <1>1, <1>3 DEF Shapes, PageFits
<1>5. PageFits'
  BY <1>4 DEF Shapes, PageFits
<1>6. QED  BY <1>1, <1>2, <1>5 DEF Shapes

(* An exchange that ends. *)
LEMMA IdleFits ==
    IsExchange(Idle) /\ Idle.kind = "idle"
BY DEF IsExchange, Idle

(* The step does nothing to the exchanges or the page. *)
LEMMA MapShapes ==
    ASSUME Shapes, MapFits',
           UNCHANGED <<screen, shown, phase, streamSince, rollbacks, exchange,
                       loadedAfter, ownPixels>>
    PROVE  Shapes'
<1>1. ExchangesFit'
  BY DEF Shapes, ExchangesFit
<1>2. RequestsFit'
  BY DEF Shapes, RequestsFit, Loading
<1>3. PageFits'
  BY DEF Shapes, PageFits
<1>4. QED  BY <1>1, <1>2, <1>3 DEF Shapes

(* The page starts in shape. *)
LEMMA ShapesInit == Init => Shapes
<1> SUFFICES ASSUME Init PROVE Shapes
  OBVIOUS
<1>1. MapFits
  <2>1. MapTypeOK
    BY BlankIsPixmap DEF Init, MapTypeOK
  <2>2. LogInOrder
    BY EmptyLog DEF Init
  <2>3. MapImage \in Images /\ MapImage.sequence <= MaxSequence
    BY <2>1, MapImageIsImage DEF Init, MapImage
  <2>4. QED  BY <2>1, <2>2, <2>3 DEF Init, MapFits, CacheFresh
<1>2. PICK first \in Fetches :
         exchange = [e \in Exchanges |-> IF e = first THEN Asks(NoSince) ELSE Idle]
  BY DEF Init
<1>3. IsExchange(Asks(NoSince)) /\ IsExchange(Idle)
  BY DEF IsExchange, IsAsk, Asks
<1>4. ExchangesFit
  BY <1>2, <1>3 DEF ExchangesFit
<1>5. RequestsFit
  BY <1>2 DEF RequestsFit, Init, Loading, Asks, Idle
<1>6. "stream" \in Exchanges /\ "stream" # first
  BY DEF Exchanges
<1>7. PageFits
  BY <1>2, <1>6 DEF PageFits, Init, Numbers
<1>8. QED  BY <1>1, <1>4, <1>5, <1>7 DEF Shapes

(* The stream opens after the first load. *)
LEMMA ShapesConnect == Shapes /\ ConnectEvents => Shapes'
<1> SUFFICES ASSUME Shapes, ConnectEvents PROVE Shapes'
  OBVIOUS
<1>1. MapFits'
  BY SameMap DEF ConnectEvents, Shapes
<1>2. ExchangesFit'
  BY DEF ConnectEvents, Shapes, ExchangesFit
<1>3. RequestsFit'
  <2>1. \A e \in Exchanges : ~Loading(e) /\ exchange[e].kind \notin {"place", "placed"}
    BY DEF ConnectEvents, Shapes, RequestsFit
  <2>2. exchange' = exchange
    BY DEF ConnectEvents
  <2>3. QED  BY <2>1, <2>2 DEF RequestsFit, Loading
<1>4. PageFits'
  BY DEF ConnectEvents, Shapes, PageFits, counters
<1>5. QED  BY <1>1, <1>2, <1>3, <1>4 DEF Shapes

(* The page asks for a map. *)
LEMMA ShapesAsk ==
    ASSUME Shapes, OpenStream \/ \E f \in Fetches : Refresh(f)
    PROVE  Shapes'
<1>1. PICK e \in Exchanges, n \in Numbers :
         /\ exchange' = [exchange EXCEPT ![e] = Asks(n)]
         /\ e = "stream" => streamSince # NoStream
  <2>1. CASE OpenStream
    BY <2>1 DEF OpenStream, Exchanges, Shapes, PageFits
  <2>2. ASSUME NEW f \in Fetches, Refresh(f)
        PROVE  /\ f \in Exchanges /\ f # "stream" /\ shown \in Numbers
               /\ exchange' = [exchange EXCEPT ![f] = Asks(shown)]
    BY <2>2 DEF Refresh, Exchanges, Shapes, PageFits
  <2>3. QED  BY <2>1, <2>2
<1>2. /\ UNCHANGED <<screen, shown, phase, streamSince, rollbacks, ownPixels, loadedAfter>>
      /\ MapFits'
  <2>1. UNCHANGED <<mapVars, clientVars, backup, counters, loadedAfter>>
    BY DEF OpenStream, Refresh
  <2>2. QED  BY <2>1, SameMap DEF clientVars, counters, Shapes
<1>3. /\ IsExchange(Asks(n)) /\ Asks(n).kind = "ask" /\ Asks(n).since = n
      /\ n # NoSince
  BY DEF IsExchange, IsAsk, Asks, Numbers, NoSince
<1>4. loadedAfter' \in 0 .. rollbacks /\ ownPixels' \in Nat /\ ownPixels' >= ownPixels
      /\ (phase # "ready" => ownPixels' = 0)
  BY <1>2 DEF Shapes, PageFits
<1> DEFINE x == Asks(n)
<1> HIDE DEF x
<1>5. QED  BY <1>1, <1>2, <1>3, <1>4, ExchangeShapes DEF x

(* The page sends a pixel. *)
LEMMA ShapesPlaceOwn ==
    ASSUME Shapes, NEW f \in Fetches, NEW x \in Columns, NEW y \in Rows,
           NEW color \in Colors, PlaceOwn(f, x, y, color)
    PROVE  Shapes'
<1> DEFINE request == Places(x, y, color)
<1>1. MapFits' /\ f \in Exchanges /\ f # "stream"
  BY SameMap DEF PlaceOwn, Shapes, Exchanges
<1>2. IsExchange(request) /\ request.kind = "place"
  BY DEF IsExchange, IsPlace, Places, IsInBounds
<1>3. /\ UNCHANGED <<screen, shown, phase, streamSince, rollbacks>>
      /\ loadedAfter' \in 0 .. rollbacks
      /\ ownPixels' \in Nat /\ ownPixels' = ownPixels + 1 /\ phase = "ready"
      /\ exchange' = [exchange EXCEPT ![f] = request]
  BY DEF PlaceOwn, clientVars, Shapes, PageFits
<1>4. ownPixels' >= ownPixels /\ ownPixels' > 0
  BY <1>3 DEF Shapes, PageFits
<1> HIDE DEF request
<1>5. QED  BY <1>1, <1>2, <1>3, <1>4, ExchangeShapes

(* An exchange is lost, or its request refused. *)
LEMMA ShapesEnd ==
    ASSUME Shapes, NEW e \in Exchanges, LoseExchange(e) \/ RefusePlace(e)
    PROVE  Shapes'
<1>1. MapFits' /\ UNCHANGED <<screen, shown, phase, streamSince, rollbacks, ownPixels, loadedAfter>>
  BY SameMap DEF LoseExchange, RefusePlace, Shapes, clientVars, counters
<1>2. exchange' = [exchange EXCEPT ![e] = Idle]
  BY DEF LoseExchange, RefusePlace
<1>3. loadedAfter' \in 0 .. rollbacks /\ ownPixels' \in Nat /\ ownPixels' >= ownPixels
      /\ (phase # "ready" => ownPixels' = 0)
  BY <1>1 DEF Shapes, PageFits
<1>4. QED  BY <1>1, <1>2, <1>3, IdleFits, ExchangeShapes

(* The server answers a request for the map. *)
LEMMA ShapesAnswerMap ==
    ASSUME Shapes, NEW e \in Exchanges, AnswerMap(e)
    PROVE  Shapes'
<1> DEFINE since == exchange[e].since
           x == Payload(since, MapReply(since))
<1>1. IsAsk(exchange[e]) /\ since \in {NoSince} \cup Numbers
  BY DEF AnswerMap, Shapes, ExchangesFit, IsExchange, IsAsk, IsPlace, IsPayload, IsPlaced, Idle
<1>2. MapFits'
  BY SameMap DEF AnswerMap, Shapes
<1>3. IsExchange(x) /\ x.kind = "payload" /\ x.since = since
  <2>1. IsPayload(x)
    BY <1>1, ReplyFits DEF Shapes
  <2>2. QED  BY <2>1 DEF IsExchange, Payload
<1>4. /\ UNCHANGED <<screen, shown, phase, streamSince, rollbacks, ownPixels>>
      /\ loadedAfter' \in 0 .. rollbacks
      /\ exchange' = [exchange EXCEPT ![e] = x]
  BY DEF AnswerMap, clientVars, counters, Shapes, PageFits
<1>5. ownPixels' \in Nat /\ ownPixels' >= ownPixels /\ (phase # "ready" => ownPixels' = 0)
  BY <1>4 DEF Shapes, PageFits
<1>6. since = NoSince => Loading(e)
  BY <1>1 DEF Loading, IsAsk
<1>7. e = "stream" => streamSince # NoStream
  BY DEF AnswerMap, Shapes, PageFits, Idle
<1> HIDE DEF x
<1>8. QED  BY <1>2, <1>3, <1>4, <1>5, <1>6, <1>7, ExchangeShapes

(* The server accepts a pixel of the page. *)
LEMMA ShapesAnswerPlace ==
    ASSUME Shapes, NEW e \in Exchanges, AnswerPlace(e)
    PROVE  /\ Shapes'
           /\ IsPlace(exchange[e]) /\ sequence' = sequence + 1
           /\ SetPixel(exchange[e].x, exchange[e].y, exchange[e].color)
           /\ exchange[e].x \in Columns /\ exchange[e].y \in Rows
           /\ exchange[e].color \in Colors
<1> DEFINE x == Placed(exchange[e], sequence')
<1>1. /\ IsPlace(exchange[e])
      /\ exchange[e].x \in Columns /\ exchange[e].y \in Rows /\ exchange[e].color \in Colors
  BY DEF AnswerPlace, Shapes, ExchangesFit, IsExchange, IsAsk, IsPlace, IsPayload, IsPlaced,
         Idle, IsInBounds
<1>2. /\ SetPixel(exchange[e].x, exchange[e].y, exchange[e].color)
      /\ sequence < MaxSequence /\ backup' = backup
  BY DEF AnswerPlace
<1>3. MapFits' /\ sequence' = sequence + 1
  BY <1>1, <1>2, PlacedMap DEF Shapes
<1>4. sequence' \in Numbers
  BY <1>3 DEF MapFits, MapTypeOK, Numbers
<1>5. IsExchange(x) /\ x.kind = "placed"
  BY <1>1, <1>4 DEF IsExchange, IsPlaced, IsPlace, Placed
<1>6. /\ UNCHANGED <<screen, shown, phase, streamSince, rollbacks, ownPixels>>
      /\ loadedAfter' \in 0 .. rollbacks
      /\ exchange' = [exchange EXCEPT ![e] = x]
  BY DEF AnswerPlace, clientVars, counters, Shapes, PageFits
<1>7. ownPixels' \in Nat /\ ownPixels' >= ownPixels /\ (phase # "ready" => ownPixels' = 0)
  BY <1>6 DEF Shapes, PageFits
<1>8. phase = "ready" /\ ownPixels' > 0
  BY <1>1, <1>6 DEF Shapes, RequestsFit, IsPlace
<1>9. e = "stream" => streamSince # NoStream
  BY <1>1 DEF IsPlace, Shapes, PageFits, Idle
<1> HIDE DEF x
<1>10. QED  BY <1>1, <1>2, <1>3, <1>5, <1>6, <1>7, <1>8, <1>9, ExchangeShapes

(* The map changes under the page. *)
LEMMA ShapesOthers ==
    ASSUME Shapes,
           \/ \E x \in Columns, y \in Rows, color \in Colors : OtherUserPlaces(x, y, color)
           \/ \E color \in Colors : AdminResets(color)
           \/ HourlyBackup
    PROVE  Shapes'
<1>1. MapFits'
  <2>1. ASSUME NEW x \in Columns, NEW y \in Rows, NEW color \in Colors,
               OtherUserPlaces(x, y, color)
        PROVE  MapFits'
    BY <2>1, PlacedMap DEF OtherUserPlaces, Shapes
  <2>2. ASSUME NEW color \in Colors, AdminResets(color)
        PROVE  MapFits'
    BY <2>2, ClearedMap DEF AdminResets, Shapes
  <2>3. CASE HourlyBackup
    BY <2>3, SameMap DEF HourlyBackup, Shapes
  <2>4. QED  BY <2>1, <2>2, <2>3
<1>2. UNCHANGED <<screen, shown, phase, streamSince, rollbacks, exchange, loadedAfter, ownPixels>>
  BY DEF OtherUserPlaces, AdminResets, HourlyBackup, clientVars, counters
<1>3. QED  BY <1>1, <1>2, MapShapes

(* The administrator installs the backup. *)
LEMMA ShapesRollBack == Shapes /\ AdminRollsBack => Shapes'
<1> SUFFICES ASSUME Shapes, AdminRollsBack PROVE Shapes'
  OBVIOUS
<1>1. MapFits'
  BY LoadedMap DEF AdminRollsBack, Shapes, MapFits
<1>2. /\ UNCHANGED <<screen, shown, phase, streamSince, exchange, loadedAfter, ownPixels>>
      /\ rollbacks' = rollbacks + 1
  BY DEF AdminRollsBack, clientVars
<1>3. ExchangesFit'
  BY <1>2 DEF Shapes, ExchangesFit
<1>4. RequestsFit'
  BY <1>2 DEF Shapes, RequestsFit, Loading
<1>5. PageFits'
  BY <1>2 DEF Shapes, PageFits
<1>6. QED  BY <1>1, <1>3, <1>4, <1>5 DEF Shapes

(* The server restarts from its own map. *)
LEMMA ShapesRestart == Shapes /\ Restart => Shapes'
<1> SUFFICES ASSUME Shapes, Restart PROVE Shapes'
  OBVIOUS
<1>1. MapFits'
  <2>1. MapImage \in Images /\ MapImage.sequence <= MaxSequence
    BY MapImageIsImage DEF Shapes, MapFits, MapImage
  <2>2. QED  BY <2>1, LoadedMap DEF Restart, Shapes
<1>2. \A e \in Exchanges : exchange'[e] = Idle
  BY DEF Restart
<1>3. ExchangesFit'
  BY IdleFits DEF Restart, ExchangesFit
<1>4. RequestsFit'
  BY <1>2, IdleFits DEF RequestsFit, Loading
<1>5. "stream" \in Exchanges
  BY DEF Exchanges
<1>6. PageFits'
  BY <1>2, <1>5 DEF Restart, clientVars, Shapes, PageFits
<1>7. QED  BY <1>1, <1>3, <1>4, <1>6 DEF Shapes

(* A payload is drawn: it is the full one that a page without a map waits  *)
(* for, or the page has a map.                                             *)
LEMMA ShapesTakePayload ==
    ASSUME Shapes, NEW e \in Exchanges, TakePayload(e)
    PROVE  /\ Shapes'
           /\ IsPayload(exchange[e])
           /\ phase # "loading" \/ IsFull(exchange[e].body)
                 => screen' = ApplyPayload(screen, exchange[e].body)
<1> DEFINE body == exchange[e].body
<1>1. IsPayload(exchange[e])
  BY DEF TakePayload, Shapes, ExchangesFit, IsExchange, IsAsk, IsPlace, IsPayload, IsPlaced, Idle
<1>2. MapFits'
  BY SameMap DEF TakePayload, Shapes
<1>3. exchange' = [exchange EXCEPT ![e] = Idle]
  BY DEF TakePayload
<1>4. ExchangesFit' /\ exchange'[e] = Idle /\ \A d \in Exchanges \ {e} : exchange'[d] = exchange[d]
  BY <1>3, IdleFits, ExchangeChanged DEF Shapes
<1>5. body.sequence \in Numbers /\ (IsFull(body) <=> body.type = "full")
      /\ (IsDiff(body) <=> body.type = "diff")
  BY <1>1 DEF IsPayload, IsFull, IsDiff
<1>6. /\ screen' = IF screen = NoMap /\ body.type = "diff" THEN NoMap
                   ELSE ApplyPayload(screen, body)
      /\ shown' = body.sequence
      /\ phase' = IF exchange[e].since = NoSince THEN "loaded" ELSE phase
      /\ streamSince' = streamSince /\ loadedAfter' = loadedAfter
      /\ ownPixels' = ownPixels /\ rollbacks' = rollbacks
  BY DEF TakePayload, counters
<1>7. screen = NoMap => phase = "loading"
  BY PixmapIsMap DEF Shapes, PageFits
<1>8. phase # "loading" \/ IsFull(body) => screen' = ApplyPayload(screen, body)
  BY <1>5, <1>6, <1>7 DEF IsFull
<1>9. screen' \in Pixmaps \cup {NoMap} /\ (phase' # "loading" => screen' \in Pixmaps)
  <2>1. screen \in Pixmaps \cup {NoMap} /\ (phase # "loading" => screen \in Pixmaps)
    BY DEF Shapes, PageFits
  <2>2. CASE IsFull(body)
    BY <2>1, <2>2, <1>8, DrawnIsPixmap
  <2>3. CASE IsDiff(body)
    <3>1. phase' = phase
      BY <2>3, <1>1, <1>6 DEF IsPayload, IsFull, IsDiff
    <3>2. screen \in Pixmaps => screen' \in Pixmaps
      BY <2>3, <1>6, PixmapIsMap, DrawnIsPixmap
    <3>3. screen = NoMap => screen' = NoMap
      BY <2>3, <1>5, <1>6
    <3>4. QED  BY <2>1, <3>1, <3>2, <3>3
  <2>4. QED  BY <2>2, <2>3, <1>1 DEF IsPayload
<1>10. RequestsFit'
  <2>1. CASE exchange[e].since = NoSince
    <3>1. Loading(e)
      BY <2>1, <1>1 DEF Loading, IsPayload
    <3>2. \A d \in Exchanges : ~Loading(d)'
      BY <3>1, <1>4, IdleFits DEF Loading, Shapes, RequestsFit
    <3>3. \A d \in Exchanges : exchange'[d].kind \notin {"place", "placed"}
      BY <3>1, <1>4, IdleFits DEF Shapes, RequestsFit
    <3>4. QED  BY <3>2, <3>3 DEF RequestsFit
  <2>2. CASE exchange[e].since # NoSince
    <3>1. phase' = phase /\ ownPixels' \in Nat /\ ownPixels' >= ownPixels
      BY <2>2, <1>6 DEF Shapes, PageFits
    <3>2. QED  BY <3>1, <1>3, IdleFits, RequestChanged DEF Shapes
  <2>3. QED  BY <2>1, <2>2
<1>11. PageFits'
  <2>1. "stream" \in Exchanges
    BY DEF Exchanges
  <2>2. streamSince' = NoStream => exchange'["stream"] = Idle
    BY <2>1, <1>4, <1>6 DEF Shapes, PageFits
  <2>3. exchange[e].since = NoSince => phase = "loading"
    BY <1>1 DEF IsPayload, Shapes, RequestsFit, Loading
  <2>4. /\ phase' \in {"loading", "loaded", "ready"}
        /\ phase' # "ready" => streamSince' = NoStream /\ ownPixels' = 0
    BY <2>3, <1>6 DEF Shapes, PageFits
  <2>5. QED  BY <2>2, <2>4, <1>5, <1>6, <1>9 DEF Shapes, PageFits
<1>12. QED  BY <1>1, <1>2, <1>4, <1>8, <1>10, <1>11 DEF Shapes

(* The own pixel is drawn. *)
LEMMA ShapesTakePlaced ==
    ASSUME Shapes, NEW e \in Exchanges, TakePlaced(e)
    PROVE  /\ Shapes'
           /\ IsPlaced(exchange[e]) /\ CellOf(exchange[e]) \in Cells
           /\ phase = "ready" /\ ownPixels > 0
<1>1. IsPlaced(exchange[e])
  BY DEF TakePlaced, Shapes, ExchangesFit, IsExchange, IsAsk, IsPlace, IsPayload, IsPlaced, Idle
<1>2. MapFits'
  BY SameMap DEF TakePlaced, Shapes
<1>3. exchange' = [exchange EXCEPT ![e] = Idle]
  BY DEF TakePlaced
<1>4. ExchangesFit' /\ exchange'[e] = Idle /\ \A d \in Exchanges \ {e} : exchange'[d] = exchange[d]
  BY <1>3, IdleFits, ExchangeChanged DEF Shapes
<1>5. CellOf(exchange[e]) \in Cells
  BY <1>1, IndexIsCell DEF IsPlaced, IsInBounds, CellOf
<1>6. phase = "ready" /\ ownPixels > 0
  BY <1>1 DEF IsPlaced, Shapes, RequestsFit
<1>7. screen' \in Pixmaps
  BY <1>1, <1>6 DEF TakePlaced, Shapes, PageFits, Pixmaps, IsPlaced
<1>8. /\ phase' = phase /\ streamSince' = streamSince /\ shown' \in Numbers
      /\ loadedAfter' = loadedAfter /\ ownPixels' = ownPixels /\ rollbacks' = rollbacks
  BY <1>1 DEF TakePlaced, counters, IsPlaced
<1>9. RequestsFit'
  <2>1. ownPixels' \in Nat /\ ownPixels' >= ownPixels
    BY <1>8 DEF Shapes, PageFits
  <2>2. QED  BY <2>1, <1>3, <1>8, IdleFits, RequestChanged DEF Shapes
<1>10. PageFits'
  <2>1. "stream" \in Exchanges
    BY DEF Exchanges
  <2>2. streamSince' = NoStream => exchange'["stream"] = Idle
    BY <2>1, <1>4, <1>8 DEF Shapes, PageFits
  <2>3. QED  BY <2>2, <1>6, <1>7, <1>8 DEF Shapes, PageFits
<1>11. QED  BY <1>1, <1>2, <1>4, <1>5, <1>6, <1>9, <1>10 DEF Shapes

(* So no step leaves the shapes. *)
LEMMA ShapesStep == Shapes /\ [Next]_vars => Shapes'
<1> SUFFICES ASSUME Shapes, [Next]_vars PROVE Shapes'
  OBVIOUS
<1>1. CASE UNCHANGED vars
  <2>1. MapFits'
    BY <1>1, SameMap DEF vars, Shapes
  <2>2. QED  BY <1>1, <2>1, MapShapes DEF vars, clientVars, counters
<1>2. CASE Next
  BY <1>2, ShapesConnect, ShapesAsk, ShapesPlaceOwn, ShapesTakePayload, ShapesTakePlaced,
     ShapesEnd, ShapesAnswerMap, ShapesAnswerPlace, ShapesOthers, ShapesRollBack,
     ShapesRestart DEF Next
<1>3. QED  BY <1>1, <1>2

(* The page, the exchanges and the map have their types: what is drawn is *)
(* a map from the first full answer on, none is beyond the last write.      *)
THEOREM TypeCorrect == Spec => []TypeOK
<1>1. Spec => []Shapes
  BY ShapesInit, ShapesStep, PTL DEF Spec
<1>2. QED  BY <1>1, ShapesGiveTypes, PTL

----------------------------------------------------------------------------
(* What the page holds.                                                    *)

(* The page's own requests go one by one: the next begins when the answer  *)
(* to the last was drawn.  With two in flight, an older answer drawn after *)
(* a newer one brings old colours back, and the number that comes with a   *)
(* still newer one hides it: the last two theorems are false then.         *)
OneFetch == \A f, g \in Fetches : f = g

(* Until the first map is there, nothing else is asked. *)
LoadsAlone ==
    phase = "loading" =>
        /\ screen = NoMap /\ shown = 0
        /\ \A e \in Fetches : Loading(e)

(* A payload on its way says what the map was, or how it changed. *)
BodyHeld(since, body) ==
    /\ since <= body.sequence /\ body.sequence <= sequence
    /\ body.type = "full" => Held(DecodeRle(body.data), body.sequence)
    /\ body.type = "diff" =>
          \A i \in DOMAIN body.changes :
              Known(body.changes[i]) /\ body.changes[i].sequence > since

ExchangeHeld(x) ==
    /\ x.kind = "ask" => x.since <= sequence
    /\ x.kind = "payload" => BodyHeld(x.since, x.body)
    /\ x.kind = "placed" => Known(x)

(* A page that watches asks for what it shows, and becomes what it is told. *)
WatcherAsks(x) ==
    /\ x.kind = "ask" => x.since = shown
    /\ x.kind = "payload" =>
          x.since = shown /\ Held(ApplyPayload(screen, x.body), x.body.sequence)

(* A page with a stream asks for nothing older than the stream. *)
StreamAsks(x) ==
    /\ x.kind \in {"ask", "payload"} => x.since >= streamSince
    /\ x.kind = "placed" => x.sequence > streamSince

Watches == phase # "loading" /\ streamSince = NoStream /\ ownPixels = 0
Streams == streamSince # NoStream

WatcherHeld ==
    Watches => Held(screen, shown) /\ \A e \in Exchanges : WatcherAsks(exchange[e])

StreamHeld ==
    Streams => /\ shown >= streamSince
               /\ Held(screen, streamSince)
               /\ \A e \in Exchanges : StreamAsks(exchange[e])

PageHeld ==
    SameHistory =>
        /\ shown <= sequence
        /\ \A e \in Exchanges : ExchangeHeld(exchange[e])
        /\ WatcherHeld
        /\ StreamHeld

(* Nothing is held of an exchange that carries nothing. *)
LEMMA IdleHeld == ExchangeHeld(Idle) /\ WatcherAsks(Idle) /\ StreamAsks(Idle)
BY DEF ExchangeHeld, WatcherAsks, StreamAsks, Idle

(* What an exchange carries fits it. *)
LEMMA KindsFit ==
    ASSUME NEW x, IsExchange(x)
    PROVE  /\ x.kind = "ask" => IsAsk(x)
           /\ x.kind = "payload" => IsPayload(x)
           /\ x.kind = "placed" => IsPlaced(x)
BY DEF IsExchange, IsAsk, IsPlace, IsPayload, IsPlaced, Idle

(* The numbers of a payload are numbers. *)
LEMMA BodyNumbers ==
    ASSUME NEW x, IsPayload(x)
    PROVE  /\ x.since \in Int /\ x.body.sequence \in Nat
           /\ x.body.type = "diff" =>
                 \A i \in DOMAIN x.body.changes : x.body.changes[i].sequence \in Nat
BY DEF IsPayload, IsFull, IsDiff, Numbers, NoSince, PixelChanges

(* What is on its way stays true while the map goes on. *)
LEMMA HeldGoesOn ==
    ASSUME MapFits, GoesOn, NEW x, IsExchange(x), ExchangeHeld(x)
    PROVE  ExchangeHeld(x)'
<1>1. sequence \in Nat /\ sequence' \in Nat /\ sequence' >= sequence
  BY DEF GoesOn, MapFits, MapTypeOK
<1>2. CASE x.kind = "ask"
  <2>1. x.since \in Int /\ x.since <= sequence
    BY <1>2, KindsFit DEF IsAsk, Numbers, NoSince, ExchangeHeld
  <2>2. QED  BY <1>1, <1>2, <2>1 DEF ExchangeHeld
<1>3. CASE x.kind = "payload"
  <2>1. IsPayload(x) /\ BodyHeld(x.since, x.body)
    BY <1>3, KindsFit DEF ExchangeHeld
  <2>2. /\ x.since \in Int /\ x.body.sequence \in Nat
        /\ x.body.type = "diff" =>
              \A i \in DOMAIN x.body.changes : x.body.changes[i].sequence \in Nat
    BY <2>1, BodyNumbers
  <2>3. x.since <= x.body.sequence /\ x.body.sequence <= sequence'
    BY <1>1, <2>1, <2>2 DEF BodyHeld
  <2>4. x.body.type = "full" => Held(DecodeRle(x.body.data), x.body.sequence)'
    BY <2>1, <2>2 DEF BodyHeld, GoesOn
  <2>5. x.body.type = "diff" =>
           \A i \in DOMAIN x.body.changes :
               Known(x.body.changes[i])' /\ x.body.changes[i].sequence > x.since
    BY <2>1, <2>2 DEF BodyHeld, GoesOn
  <2>6. BodyHeld(x.since, x.body)'
    BY <2>3, <2>4, <2>5 DEF BodyHeld
  <2>7. QED  BY <1>3, <2>6 DEF ExchangeHeld
<1>4. CASE x.kind = "placed"
  <2>1. x.sequence \in Nat /\ Known(x)
    BY <1>4, KindsFit DEF IsPlaced, Numbers, ExchangeHeld
  <2>2. Known(x)'
    BY <2>1 DEF GoesOn
  <2>3. QED  BY <1>4, <2>2 DEF ExchangeHeld
<1>5. CASE x.kind \notin {"ask", "payload", "placed"}
  BY <1>5 DEF ExchangeHeld
<1>6. QED  BY <1>2, <1>3, <1>4, <1>5

(* A step that draws nothing: the map goes on, and at most one exchange    *)
(* carries something new, of which all is held.                            *)
LEMMA PageGoesOn ==
    ASSUME Shapes, PageHeld, GoesOn, NEW x,
           UNCHANGED <<screen, shown, phase, streamSince, loadedAfter, rollbacks>>,
           ownPixels' \in Nat, ownPixels' >= ownPixels,
           \A d \in Exchanges : exchange'[d] \in {exchange[d], Idle, x},
           SameHistory => ExchangeHeld(x)',
           SameHistory /\ Watches => WatcherAsks(x)',
           SameHistory /\ Streams => StreamAsks(x)'
    PROVE  PageHeld'
<1> SUFFICES ASSUME SameHistory PROVE PageHeld'
  BY DEF PageHeld, SameHistory
<1>1. shown \in Nat /\ sequence \in Nat /\ sequence' \in Nat /\ sequence' >= sequence
  BY DEF GoesOn, Shapes, MapFits, MapTypeOK, PageFits, Numbers
<1>2. shown <= sequence
  BY DEF PageHeld
<1>3. shown' <= sequence'
  BY <1>1, <1>2
<1>4. ASSUME NEW d \in Exchanges PROVE ExchangeHeld(exchange[d])'
  <2>1. CASE exchange'[d] = exchange[d]
    <3>1. PICK y : y = exchange[d] /\ y = exchange'[d]
      BY <2>1
    <3>2. IsExchange(y) /\ ExchangeHeld(y)
      BY <3>1 DEF Shapes, ExchangesFit, PageHeld
    <3>3. ExchangeHeld(y)'
      BY <3>2, HeldGoesOn DEF Shapes
    <3>4. QED  BY <3>1, <3>3 DEF ExchangeHeld, BodyHeld
  <2>2. CASE exchange'[d] = Idle
    BY <2>2 DEF ExchangeHeld, Idle
  <2>3. CASE exchange'[d] = x
    BY <2>3 DEF ExchangeHeld, BodyHeld
  <2>4. QED  BY <2>1, <2>2, <2>3
<1>5. WatcherHeld'
  <2> SUFFICES ASSUME Watches'
               PROVE  Held(screen, shown)' /\ \A d \in Exchanges : WatcherAsks(exchange[d])'
    BY DEF WatcherHeld
  <2>1. Watches
    BY DEF Watches, Shapes, PageFits
  <2>2. Held(screen, shown) /\ \A d \in Exchanges : WatcherAsks(exchange[d])
    BY <2>1 DEF PageHeld, WatcherHeld
  <2>p. PICK p : p = screen
    OBVIOUS
  <2>3. PICK n \in Nat : n = shown
    BY <1>1
  <2>4. Held(p, n)'
    BY <2>2, <2>p, <2>3 DEF GoesOn
  <2>5. p = screen' /\ n = shown'
    BY <2>p, <2>3
  <2>6. Held(screen, shown)'
    BY <2>4, <2>5 DEF Held, AgreesSince
  <2>7. ASSUME NEW d \in Exchanges PROVE WatcherAsks(exchange[d])'
    <3>1. CASE exchange'[d] = exchange[d]
      <4>1. PICK y : y = exchange[d] /\ y = exchange'[d]
        BY <3>1
      <4>2. WatcherAsks(y) /\ IsExchange(y)
        BY <4>1, <2>2 DEF Shapes, ExchangesFit
      <4>3. ASSUME y.kind = "payload"
            PROVE  y.since = shown' /\ Held(ApplyPayload(p, y.body), y.body.sequence)'
        <5>1. y.body.sequence \in Nat
          BY <4>2, <4>3, KindsFit, BodyNumbers
        <5>2. Held(ApplyPayload(p, y.body), y.body.sequence)
          BY <4>2, <4>3, <2>p DEF WatcherAsks
        <5>3. QED  BY <5>1, <5>2, <4>2, <4>3 DEF GoesOn, WatcherAsks
      <4>4. ASSUME y.kind = "ask" PROVE y.since = shown'
        BY <4>2, <4>4 DEF WatcherAsks
      <4>5. QED  BY <4>1, <4>3, <4>4, <2>5 DEF WatcherAsks, Held, AgreesSince
    <3>2. CASE exchange'[d] = Idle
      BY <3>2 DEF WatcherAsks, Idle
    <3>3. CASE exchange'[d] = x
      BY <2>1, <3>3 DEF WatcherAsks
    <3>4. QED  BY <3>1, <3>2, <3>3
  <2>8. QED  BY <2>6, <2>7
<1>6. StreamHeld'
  <2> SUFFICES ASSUME Streams'
               PROVE  /\ shown' >= streamSince' /\ Held(screen, streamSince)'
                      /\ \A d \in Exchanges : StreamAsks(exchange[d])'
    BY DEF StreamHeld
  <2>1. Streams
    BY DEF Streams
  <2>2. /\ shown >= streamSince /\ Held(screen, streamSince)
        /\ \A d \in Exchanges : StreamAsks(exchange[d])
    BY <2>1 DEF PageHeld, StreamHeld
  <2>p. PICK p : p = screen
    OBVIOUS
  <2>3. PICK n \in Nat : n = streamSince
    BY <2>1 DEF Streams, Shapes, PageFits, Numbers
  <2>4. Held(p, n)'
    BY <2>2, <2>p, <2>3 DEF GoesOn
  <2>5. p = screen' /\ n = streamSince'
    BY <2>p, <2>3
  <2>6. Held(screen, streamSince)'
    BY <2>4, <2>5 DEF Held, AgreesSince
  <2>7. ASSUME NEW d \in Exchanges PROVE StreamAsks(exchange[d])'
    <3>1. CASE exchange'[d] = exchange[d]
      BY <3>1, <2>2 DEF StreamAsks
    <3>2. CASE exchange'[d] = Idle
      BY <3>2 DEF StreamAsks, Idle
    <3>3. CASE exchange'[d] = x
      BY <2>1, <3>3 DEF StreamAsks
    <3>4. QED  BY <3>1, <3>2, <3>3
  <2>8. QED  BY <2>2, <2>6, <2>7
<1>7. QED  BY <1>3, <1>4, <1>5, <1>6 DEF PageHeld

(* A page that is held at number m is held at any earlier number n: less   *)
(* is asked of it.                                                         *)
LEMMA HeldEarlier ==
    ASSUME MapFits, NEW p, NEW m \in Nat, NEW n \in Nat, n <= m, Held(p, m)
    PROVE  Held(p, n)
<1>1. sequence \in Nat /\ Base \in Nat
  <2>1. sequence \in Nat /\ Len(changes) \in Nat
    BY DEF MapFits, MapTypeOK
  <2>2. QED  BY <2>1 DEF Base, MapFits, LogInOrder, LogIsContiguous
<1>2. \A i \in DOMAIN changes : changes[i].sequence \in Nat
  <2>1. DOMAIN changes \subseteq Nat
    BY DEF MapFits, MapTypeOK
  <2>2. QED  BY <1>1, <2>1 DEF MapFits, LogInOrder, LogIsContiguous
<1>3. \A c \in Cells : UntouchedSince(n, c) => UntouchedSince(m, c)
  BY <1>2 DEF UntouchedSince
<1>4. m <= sequence /\ n <= sequence
  BY <1>1 DEF Held
<1>5. ASSUME n >= Base PROVE m \in Base .. sequence
  BY <1>1, <1>4, <1>5
<1>6. AgreesSince(p, n)
  BY <1>1, <1>3, <1>5 DEF Held, AgreesSince
<1>7. QED  BY <1>4, <1>6 DEF Held

(* A change that is known names no cell untouched since before it. *)
LEMMA KnownTouches ==
    ASSUME MapFits, NEW d, d.sequence \in Nat, Known(d), NEW n \in Nat,
           d.sequence > n, n >= Base
    PROVE  ~UntouchedSince(n, CellOf(d))
<1>1. Base \in Int
  BY DEF Base, MapFits, MapTypeOK
<1>2. d.sequence > Base
  BY <1>1
<1>3. PICK i \in DOMAIN changes : changes[i].sequence = d.sequence /\ CellOf(changes[i]) = CellOf(d)
  BY <1>2 DEF Known
<1>4. QED  BY <1>3 DEF UntouchedSince, Touches

(* What the server answers is held: the map itself, or changes of its log. *)
LEMMA ReplyHeld ==
    ASSUME MapFits, NEW since \in {NoSince} \cup Nat, since <= sequence
    PROVE  BodyHeld(since, MapReply(since))
<1> DEFINE body == MapReply(since)
<1>1. sequence \in Nat
  BY DEF MapFits, MapTypeOK
<1>2. body.sequence = sequence
  BY DEF MapReply
<1>3. since <= body.sequence /\ body.sequence <= sequence
  BY <1>1, <1>2
<1>4. CASE ServesDiff(since)
  <2>1. body.type = "diff" /\ body.changes = DiffChanges(since)
    BY <1>4 DEF MapReply
  <2>2. ASSUME NEW i \in DOMAIN DiffChanges(since)
        PROVE  /\ Known(DiffChanges(since)[i])
               /\ DiffChanges(since)[i].sequence > since
    <3>1. i \in DOMAIN changes /\ DiffChanges(since)[i] = changes[i]
          /\ changes[i].sequence > since
      BY <2>2 DEF DiffChanges
    <3>2. changes[i].sequence <= sequence
      <4>1. /\ DOMAIN changes = 1 .. Len(changes) /\ Len(changes) \in Nat
            /\ changes[i].sequence = Base + i
        BY <3>1 DEF MapFits, MapTypeOK, LogInOrder, LogIsContiguous
      <4>2. QED  BY <1>1, <3>1, <4>1 DEF Base
    <3>3. QED  BY <3>1, <3>2 DEF Known
  <2> HIDE DEF body
  <2>3. QED  BY <1>3, <2>1, <2>2 DEF BodyHeld, body
<1>5. CASE ~ServesDiff(since)
  <2>1. body.type = "full" /\ body.data = Runs(pixels)
    BY <1>5, FullIsRight DEF MapReply, MapFits
  <2>2. DecodeRle(Runs(pixels)) = pixels
    BY DecodesRuns DEF MapFits, MapTypeOK
  <2>3. Held(pixels, sequence)
    BY MapIsHeld
  <2> HIDE DEF body
  <2>4. QED  BY <1>2, <1>3, <2>1, <2>2, <2>3 DEF BodyHeld, body
<1>6. QED  BY <1>4, <1>5

----------------------------------------------------------------------------
(* The first load.                                                         *)

(* A page without a stream waits for nothing on it. *)
LEMMA StreamIdle ==
    ASSUME Shapes, NEW e \in Exchanges, exchange[e] # Idle, streamSince = NoStream
    PROVE  e \in Fetches
BY DEF Shapes, PageFits, Exchanges

(* The stream opens when the first map is there. *)
LEMMA NoStreamBefore ==
    ASSUME Shapes, phase # "ready"
    PROVE  streamSince = NoStream
BY DEF Shapes, PageFits

(* While the page loads, an exchange that carries something is the first   *)
(* load, and it is alone.                                                  *)
LEMMA OnlyTheLoad ==
    ASSUME Shapes, LoadsAlone, phase = "loading", NEW e \in Exchanges, exchange[e] # Idle
    PROVE  /\ Loading(e) /\ screen = NoMap /\ shown = 0
           /\ \A d \in Exchanges \ {e} : exchange[d] = Idle
<1>1. e \in Fetches
  BY NoStreamBefore, StreamIdle
<1>2. Loading(e) /\ screen = NoMap /\ shown = 0
  BY <1>1 DEF LoadsAlone
<1>3. ASSUME NEW d \in Exchanges \ {e} PROVE exchange[d] = Idle
  <2>1. d \in Fetches => Loading(d)
    BY DEF LoadsAlone
  <2>2. ~Loading(d)
    BY <1>2 DEF Shapes, RequestsFit
  <2>3. QED  BY <2>1, <2>2, NoStreamBefore DEF Shapes, PageFits, Exchanges
<1>4. QED  BY <1>2, <1>3

(* The load stays alone: whatever else a page does, it does after it.      *)
LEMMA LoadsAloneStep ==
    ASSUME Shapes, LoadsAlone, [Next]_vars
    PROVE  LoadsAlone'
<1> SUFFICES ASSUME phase' = "loading"
             PROVE  /\ screen' = NoMap /\ shown' = 0
                    /\ \A d \in Fetches : Loading(d)'
  BY DEF LoadsAlone
<1> USE DEF Exchanges
<1>1. ASSUME NEW e \in Exchanges, AnswerMap(e)
      PROVE  /\ screen' = NoMap /\ shown' = 0
             /\ \A d \in Fetches : Loading(d)'
  <2>1. phase = "loading" /\ screen' = screen /\ shown' = shown
    BY <1>1 DEF AnswerMap, clientVars
  <2>2. exchange[e].kind = "ask" /\ exchange[e] # Idle
    BY <1>1 DEF AnswerMap, Idle
  <2>3. Loading(e)
    BY <2>1, <2>2, OnlyTheLoad
  <2>4. /\ exchange'[e].kind = "payload" /\ exchange'[e].since = NoSince
        /\ \A d \in Exchanges \ {e} : exchange'[d] = exchange[d]
    BY <1>1, <2>3 DEF AnswerMap, Shapes, ExchangesFit, Payload, Loading
  <2>5. QED  BY <2>1, <2>4 DEF LoadsAlone, Loading
<1>2. ASSUME NEW e \in Exchanges, TakePayload(e)
      PROVE  FALSE
  <2>1. phase = "loading" /\ exchange[e].since # NoSince
    BY <1>2 DEF TakePayload, Shapes, PageFits
  <2>2. exchange[e] # Idle
    BY <1>2 DEF TakePayload, Idle
  <2>3. QED  BY <2>1, <2>2, OnlyTheLoad DEF Loading
<1>3. ASSUME NEW e \in Exchanges,
             TakePlaced(e) \/ AnswerPlace(e) \/ RefusePlace(e) \/ LoseExchange(e)
      PROVE  FALSE
  <2>1. phase = "loading"
    BY <1>3 DEF TakePlaced, AnswerPlace, RefusePlace, LoseExchange, clientVars
  <2>2. exchange[e].kind \in {"place", "placed"} => phase = "ready"
    BY DEF Shapes, RequestsFit
  <2>3. QED  BY <1>3, <2>1, <2>2 DEF TakePlaced, AnswerPlace, RefusePlace, LoseExchange
<1>4. ASSUME NEW f \in Fetches, Refresh(f)
      PROVE  FALSE
  <2>1. phase = "loading" /\ exchange[f] = Idle
    BY <1>4 DEF Refresh, clientVars
  <2>2. QED  BY <2>1, IdleFits DEF LoadsAlone, Loading
<1>5. CASE OpenStream
  BY <1>5, NoStreamBefore DEF OpenStream, clientVars
<1>6. CASE \/ \E x \in Columns, y \in Rows, color \in Colors : OtherUserPlaces(x, y, color)
           \/ \E color \in Colors : AdminResets(color)
           \/ HourlyBackup \/ AdminRollsBack \/ UNCHANGED vars
  <2>1. UNCHANGED <<screen, shown, phase, exchange>>
    BY <1>6 DEF OtherUserPlaces, AdminResets, HourlyBackup, AdminRollsBack, clientVars, vars
  <2>2. QED  BY <2>1 DEF LoadsAlone, Loading
<1>7. CASE \/ ConnectEvents \/ Restart
           \/ \E f \in Fetches, x \in Columns, y \in Rows, color \in Colors :
                 PlaceOwn(f, x, y, color)
  BY <1>7 DEF ConnectEvents, Restart, PlaceOwn, clientVars
<1>8. QED  BY <1>1, <1>2, <1>3, <1>4, <1>5, <1>6, <1>7 DEF Next

----------------------------------------------------------------------------
(* The page is held, step by step.                                         *)

(* Before it is known that the history is the same, nothing is. *)
LEMMA PageInit ==
    ASSUME OneFetch, Init
    PROVE  LoadsAlone /\ PageHeld
<1>1. PICK first \in Fetches :
         exchange = [e \in Exchanges |-> IF e = first THEN Asks(NoSince) ELSE Idle]
  BY DEF Init
<1>2. \A e \in Fetches : e = first /\ e \in Exchanges
  BY DEF OneFetch, Exchanges
<1>3. LoadsAlone
  BY <1>1, <1>2 DEF LoadsAlone, Init, Loading, Asks
<1>4. \A e \in Exchanges : ExchangeHeld(exchange[e])
  BY <1>1 DEF Init, ExchangeHeld, Asks, Idle, NoSince
<1>5. ~Watches /\ ~Streams /\ shown <= sequence
  BY DEF Init, Watches, Streams
<1>6. QED  BY <1>3, <1>4, <1>5 DEF PageHeld, WatcherHeld, StreamHeld

(* The stream starts at the number shown, where the page is held. *)
LEMMA PageConnects ==
    ASSUME Shapes, PageHeld, ConnectEvents
    PROVE  PageHeld'
<1> SUFFICES ASSUME SameHistory PROVE PageHeld'
  BY DEF PageHeld, SameHistory, ConnectEvents, counters
<1>1. phase = "loaded" /\ Watches
  BY DEF ConnectEvents, Watches, Shapes, PageFits
<1>2. /\ Held(screen, shown) /\ \A e \in Exchanges : WatcherAsks(exchange[e])
      /\ shown <= sequence /\ \A e \in Exchanges : ExchangeHeld(exchange[e])
  BY <1>1 DEF PageHeld, WatcherHeld
<1>3. /\ UNCHANGED <<pixels, sequence, changes, screen, shown, exchange>>
      /\ streamSince' \in {shown, NoStream}
  BY DEF ConnectEvents, mapVars
<1>4. Held(screen, shown)' /\ shown' <= sequence'
  BY <1>2, <1>3 DEF Held, AgreesSince, UntouchedSince, Base
<1>5. \A e \in Exchanges : ExchangeHeld(exchange[e])'
  BY <1>2, <1>3 DEF ExchangeHeld, BodyHeld, Held, AgreesSince, UntouchedSince, Base, Known
<1>6. \A e \in Exchanges : WatcherAsks(exchange[e])'
  BY <1>2, <1>3 DEF WatcherAsks, Held, AgreesSince, UntouchedSince, Base
<1>7. ASSUME Streams'
      PROVE  StreamHeld'
  <2>1. streamSince' = shown' /\ shown' \in Nat
    BY <1>3, <1>7 DEF Streams, Shapes, PageFits, Numbers
  <2>2. Held(screen, streamSince)'
    BY <2>1, <1>4 DEF Held, AgreesSince
  <2>3. ASSUME NEW e \in Exchanges PROVE StreamAsks(exchange[e])'
    <3>1. exchange[e].kind # "placed"
      BY <1>1 DEF Shapes, RequestsFit
    <3>2. exchange[e].kind \in {"ask", "payload"} => exchange[e].since = shown
      BY <1>2 DEF WatcherAsks
    <3>3. QED  BY <2>1, <3>1, <3>2, <1>3 DEF StreamAsks
  <2>4. QED  BY <2>1, <2>2, <2>3 DEF StreamHeld
<1>8. QED  BY <1>4, <1>5, <1>6, <1>7 DEF PageHeld, WatcherHeld, StreamHeld

(* The page asks for the map since the number it shows, or its stream has. *)
LEMMA PageAsks ==
    ASSUME Shapes, LoadsAlone, PageHeld, OpenStream \/ \E f \in Fetches : Refresh(f)
    PROVE  PageHeld'
<1>1. PICK n \in Numbers, e \in Exchanges :
         /\ exchange' = [exchange EXCEPT ![e] = Asks(n)]
         /\ \/ n = shown /\ e \in Fetches
            \/ n = streamSince /\ Streams
  <2>1. CASE OpenStream
    BY <2>1 DEF OpenStream, Exchanges, Streams, Shapes, PageFits
  <2>2. ASSUME NEW f \in Fetches, Refresh(f)
        PROVE  /\ f \in Exchanges /\ shown \in Numbers
               /\ exchange' = [exchange EXCEPT ![f] = Asks(shown)]
    BY <2>2 DEF Refresh, Exchanges, Shapes, PageFits
  <2>3. QED  BY <2>1, <2>2
<1> DEFINE x == Asks(n)
<1>2. x.kind = "ask" /\ x.since = n
  BY DEF Asks
<1> HIDE DEF x
<1>3. /\ UNCHANGED <<screen, shown, phase, streamSince, loadedAfter, rollbacks, ownPixels>>
      /\ UNCHANGED <<pixels, sequence, changes>>
  BY DEF OpenStream, Refresh, clientVars, counters, mapVars
<1>4. GoesOn
  BY <1>3, SameGoesOn DEF Shapes
<1>5. ownPixels' \in Nat /\ ownPixels' >= ownPixels
  BY <1>3 DEF Shapes, PageFits
<1>6. \A d \in Exchanges : exchange'[d] \in {exchange[d], Idle, x}
  BY <1>1 DEF Shapes, ExchangesFit, x
<1>7. n \in Nat /\ sequence \in Nat /\ shown \in Nat
  BY DEF Numbers, Shapes, MapFits, MapTypeOK, PageFits
<1>8. SameHistory => /\ shown <= sequence
                     /\ Streams => streamSince <= shown
  BY DEF PageHeld, StreamHeld
<1>9. SameHistory => n <= sequence
  BY <1>1, <1>7, <1>8
<1>10. SameHistory => ExchangeHeld(x)'
  BY <1>2, <1>3, <1>9 DEF ExchangeHeld
<1>11. Watches => WatcherAsks(x)'
  BY <1>1, <1>2, <1>3 DEF Watches, Streams, WatcherAsks
<1>12. SameHistory /\ Streams => StreamAsks(x)'
  BY <1>1, <1>2, <1>3, <1>7, <1>8 DEF StreamAsks
<1>13. QED  BY <1>3, <1>4, <1>5, <1>6, <1>10, <1>11, <1>12, PageGoesOn

(* The page sends a pixel. *)
LEMMA PagePlaces ==
    ASSUME Shapes, PageHeld, NEW f \in Fetches, NEW x \in Columns, NEW y \in Rows,
           NEW color \in Colors, PlaceOwn(f, x, y, color)
    PROVE  PageHeld'
<1> DEFINE request == Places(x, y, color)
<1>1. request.kind = "place"
  BY DEF Places
<1>2. ExchangeHeld(request)' /\ WatcherAsks(request)' /\ StreamAsks(request)'
  BY <1>1 DEF ExchangeHeld, WatcherAsks, StreamAsks
<1> HIDE DEF request
<1>3. /\ UNCHANGED <<screen, shown, phase, streamSince, loadedAfter, rollbacks>>
      /\ UNCHANGED <<pixels, sequence, changes>>
      /\ ownPixels' = ownPixels + 1
  BY DEF PlaceOwn, clientVars, mapVars
<1>4. GoesOn
  BY <1>3, SameGoesOn DEF Shapes
<1>5. ownPixels' \in Nat /\ ownPixels' >= ownPixels
  BY <1>3 DEF Shapes, PageFits
<1>6. \A d \in Exchanges : exchange'[d] \in {exchange[d], Idle, request}
  BY DEF PlaceOwn, Shapes, ExchangesFit, request
<1>7. QED  BY <1>2, <1>3, <1>4, <1>5, <1>6, PageGoesOn

(* An exchange is lost, or its request refused. *)
LEMMA PageLoses ==
    ASSUME Shapes, PageHeld, NEW e \in Exchanges, LoseExchange(e) \/ RefusePlace(e)
    PROVE  PageHeld'
<1>1. /\ UNCHANGED <<screen, shown, phase, streamSince, loadedAfter, rollbacks, ownPixels>>
      /\ UNCHANGED <<pixels, sequence, changes>>
  BY DEF LoseExchange, RefusePlace, clientVars, mapVars, counters
<1>2. GoesOn
  BY <1>1, SameGoesOn DEF Shapes
<1>3. ownPixels' \in Nat /\ ownPixels' >= ownPixels
  BY <1>1 DEF Shapes, PageFits
<1>4. \A d \in Exchanges : exchange'[d] \in {exchange[d], Idle}
  BY DEF LoseExchange, RefusePlace, Shapes, ExchangesFit
<1>5. ExchangeHeld(Idle)' /\ WatcherAsks(Idle)' /\ StreamAsks(Idle)'
  BY IdleHeld, PTL
<1>6. QED  BY <1>1, <1>2, <1>3, <1>4, <1>5, PageGoesOn

(* The map changes under the page, or the server restarts. *)
LEMMA PageOthers ==
    ASSUME Shapes, PageHeld,
           \/ \E x \in Columns, y \in Rows, color \in Colors : OtherUserPlaces(x, y, color)
           \/ \E color \in Colors : AdminResets(color)
           \/ HourlyBackup \/ Restart \/ UNCHANGED vars
    PROVE  PageHeld'
<1>1. GoesOn
  <2>1. ASSUME NEW x \in Columns, NEW y \in Rows, NEW color \in Colors,
               OtherUserPlaces(x, y, color)
        PROVE  GoesOn
    BY <2>1, PlaceGoesOn DEF OtherUserPlaces, Shapes
  <2>2. ASSUME NEW color \in Colors, AdminResets(color) PROVE GoesOn
    BY <2>2, ClearGoesOn DEF AdminResets, Shapes
  <2>3. CASE Restart
    BY <2>3, RestartGoesOn DEF Restart, Shapes
  <2>4. CASE HourlyBackup \/ UNCHANGED vars
    BY <2>4, SameGoesOn DEF HourlyBackup, vars, mapVars, Shapes
  <2>5. QED  BY <2>1, <2>2, <2>3, <2>4
<1>2. UNCHANGED <<screen, shown, phase, streamSince, loadedAfter, rollbacks, ownPixels>>
  BY DEF OtherUserPlaces, AdminResets, HourlyBackup, Restart, vars, clientVars, counters
<1>3. ownPixels' \in Nat /\ ownPixels' >= ownPixels
  BY <1>2 DEF Shapes, PageFits
<1>4. \A d \in Exchanges : exchange'[d] \in {exchange[d], Idle}
  BY DEF OtherUserPlaces, AdminResets, HourlyBackup, Restart, vars
<1>5. ExchangeHeld(Idle)' /\ WatcherAsks(Idle)' /\ StreamAsks(Idle)'
  BY IdleHeld, PTL
<1>6. QED  BY <1>1, <1>2, <1>3, <1>4, <1>5, PageGoesOn

(* A rollback: the page was loaded before it. *)
LEMMA PageRollsBack ==
    ASSUME Shapes, AdminRollsBack
    PROVE  PageHeld'
<1>1. ~SameHistory'
  BY DEF AdminRollsBack, SameHistory, Shapes, PageFits
<1>2. QED  BY <1>1 DEF PageHeld

(* The first load is answered: from here on the history is that of the map. *)
LEMMA PageLoads ==
    ASSUME Shapes, LoadsAlone, NEW e \in Exchanges, AnswerMap(e),
           exchange[e].since = NoSince
    PROVE  PageHeld'
<1> DEFINE x == Payload(NoSince, MapReply(NoSince))
<1>1. phase = "loading" /\ exchange[e] # Idle
  BY DEF AnswerMap, Shapes, RequestsFit, Loading, Idle
<1>2. shown = 0 /\ \A d \in Exchanges \ {e} : exchange[d] = Idle
  BY <1>1, OnlyTheLoad
<1>3. sequence \in Nat /\ sequence' = sequence
  BY DEF AnswerMap, ToJson, Shapes, MapFits, MapTypeOK
<1>4. exchange'[e] = x /\ \A d \in Exchanges \ {e} : exchange'[d] = Idle
  BY <1>2 DEF AnswerMap, Shapes, ExchangesFit
<1>5. BodyHeld(NoSince, MapReply(NoSince))
  BY <1>3, ReplyHeld DEF Shapes, NoSince
<1>6. IsExchange(x) /\ ExchangeHeld(x)
  <2>1. IsPayload(x)
    BY ReplyFits DEF Shapes
  <2>2. QED  BY <2>1, <1>5 DEF IsExchange, ExchangeHeld, Payload
<1>7. GoesOn
  BY SameGoesOn DEF AnswerMap, ToJson, Shapes
<1> HIDE DEF x
<1>8. PICK y : y = x
  OBVIOUS
<1>9. ExchangeHeld(y)'
  BY <1>6, <1>7, <1>8, HeldGoesOn DEF Shapes
<1>10. y = exchange'[e]
  BY <1>4, <1>8
<1>11. ExchangeHeld(exchange[e])'
  BY <1>9, <1>10 DEF ExchangeHeld, BodyHeld
<1>12. \A d \in Exchanges \ {e} : ExchangeHeld(exchange[d])'
  BY <1>4 DEF ExchangeHeld, Idle
<1>13. phase' = "loading" /\ streamSince' = NoStream /\ shown' = 0
  BY <1>1, <1>2, NoStreamBefore DEF AnswerMap, clientVars
<1>14. ~Watches' /\ ~Streams' /\ shown' <= sequence'
  BY <1>3, <1>13 DEF Watches, Streams
<1>15. QED  BY <1>11, <1>12, <1>14 DEF PageHeld, WatcherHeld, StreamHeld

(* A later request is answered: what the page is told since its number     *)
(* brings it to the map.                                                   *)
LEMMA PageAnswered ==
    ASSUME Shapes, PageHeld, NEW e \in Exchanges, AnswerMap(e),
           exchange[e].since # NoSince
    PROVE  PageHeld'
<1>1. PICK since : since = exchange[e].since
  OBVIOUS
<1>2. PICK body : body = MapReply(since)
  OBVIOUS
<1>3. PICK x : x = Payload(since, body)
  OBVIOUS
<1>4. exchange[e].kind = "ask" /\ since \in Nat
  BY <1>1, KindsFit DEF AnswerMap, Shapes, ExchangesFit, IsAsk, Numbers
<1>5. /\ UNCHANGED <<screen, shown, phase, streamSince, loadedAfter, rollbacks, ownPixels>>
      /\ UNCHANGED <<pixels, sequence, changes>>
  BY <1>1 DEF AnswerMap, ToJson, clientVars, counters
<1>6. GoesOn
  BY <1>5, SameGoesOn DEF Shapes
<1>7. ownPixels' \in Nat /\ ownPixels' >= ownPixels
  BY <1>5 DEF Shapes, PageFits
<1>8. \A d \in Exchanges : exchange'[d] \in {exchange[d], Idle, x}
  BY <1>1, <1>2, <1>3 DEF AnswerMap, Shapes, ExchangesFit
<1>9. x.kind = "payload" /\ x.since = since /\ x.body = body
  BY <1>3 DEF Payload
<1>10. IsExchange(x) /\ body.sequence = sequence /\ sequence \in Nat
  <2>1. since \in {NoSince} \cup Numbers
    BY <1>1, <1>4, KindsFit DEF Shapes, ExchangesFit, IsAsk
  <2>2. IsPayload(x)
    BY <2>1, <1>2, <1>3, ReplyFits DEF Shapes
  <2>3. QED  BY <2>2, <1>2 DEF IsExchange, MapReply, Shapes, MapFits, MapTypeOK
<1>11. ASSUME SameHistory PROVE ExchangeHeld(x)'
  <2>1. since <= sequence
    BY <1>1, <1>4, <1>11 DEF PageHeld, ExchangeHeld
  <2>2. BodyHeld(since, body)
    BY <2>1, <1>2, <1>4, ReplyHeld DEF Shapes
  <2>3. ExchangeHeld(x)
    BY <2>2, <1>9 DEF ExchangeHeld
  <2>4. QED  BY <2>3, <1>6, <1>10, HeldGoesOn DEF Shapes
<1>12. ASSUME SameHistory, Watches PROVE WatcherAsks(x)'
  <2>1. Held(screen, shown) /\ since = shown
    BY <1>1, <1>4, <1>12 DEF PageHeld, WatcherHeld, WatcherAsks
  <2>2. ApplyPayload(screen, body) = pixels
    BY <2>1, <1>2, <1>4, ReplyIsRight DEF Held, Shapes, MapFits
  <2>3. PICK p : p = pixels
    OBVIOUS
  <2>4. Held(p, sequence)
    BY <2>3, MapIsHeld DEF Shapes
  <2>5. PICK n \in Nat : n = sequence
    BY <1>10
  <2>6. Held(p, n)'
    BY <2>4, <2>5, <1>6 DEF GoesOn
  <2>7. /\ p = ApplyPayload(screen', body) /\ n = body.sequence
        /\ since = shown'
    BY <2>1, <2>2, <2>3, <2>5, <1>5, <1>10
  <2>8. QED  BY <2>6, <2>7, <1>9 DEF WatcherAsks, Held, AgreesSince
<1>13. ASSUME SameHistory, Streams PROVE StreamAsks(x)'
  BY <1>1, <1>4, <1>5, <1>9, <1>13 DEF PageHeld, StreamHeld, StreamAsks
<1>14. QED  BY <1>5, <1>6, <1>7, <1>8, <1>11, <1>12, <1>13, PageGoesOn

(* A pixel of the page is accepted: it is the last change of the log. *)
LEMMA PagePixel ==
    ASSUME Shapes, PageHeld, NEW e \in Exchanges, AnswerPlace(e)
    PROVE  PageHeld'
<1>1. PICK request : request = exchange[e]
  OBVIOUS
<1>2. /\ IsPlace(request) /\ sequence' = sequence + 1
      /\ SetPixel(request.x, request.y, request.color)
      /\ request.x \in Columns /\ request.y \in Rows /\ request.color \in Colors
      /\ Shapes'
  BY <1>1, ShapesAnswerPlace
<1>3. PICK x : x = Placed(request, sequence')
  OBVIOUS
<1>4. /\ UNCHANGED <<screen, shown, phase, streamSince, loadedAfter, rollbacks, ownPixels>>
      /\ sequence < MaxSequence /\ backup' = backup
  BY DEF AnswerPlace, clientVars, counters
<1>5. GoesOn
  BY <1>2, <1>4, PlaceGoesOn DEF Shapes
<1>6. ownPixels' \in Nat /\ ownPixels' >= ownPixels /\ ownPixels > 0
  BY <1>1, <1>2, <1>4 DEF Shapes, PageFits, RequestsFit, IsPlace
<1>7. \A d \in Exchanges : exchange'[d] \in {exchange[d], Idle, x}
  BY <1>1, <1>3 DEF AnswerPlace, Shapes, ExchangesFit
<1>8. x.kind = "placed" /\ x.sequence = sequence' /\ CellOf(x) = Index(request.x, request.y)
  BY <1>3 DEF Placed, CellOf
<1>9. sequence \in Nat /\ sequence' \in Nat
  BY <1>2 DEF Shapes, MapFits, MapTypeOK
<1>10. \E i \in DOMAIN changes' : /\ changes'[i].sequence = x.sequence
                                  /\ CellOf(changes'[i]) = CellOf(x)
  BY <1>2, <1>8, SetPixelLog DEF Shapes, MapFits
<1>11. ExchangeHeld(x)'
  BY <1>8, <1>9, <1>10 DEF ExchangeHeld, Known, CellOf
<1>12. ~Watches
  BY <1>6 DEF Watches
<1>13. ASSUME SameHistory, Streams PROVE StreamAsks(x)'
  <2>1. streamSince \in Nat /\ shown \in Nat /\ shown >= streamSince /\ shown <= sequence
    BY <1>13 DEF PageHeld, StreamHeld, Streams, Shapes, PageFits, Numbers
  <2>2. x.sequence > streamSince
    BY <2>1, <1>2, <1>8, <1>9
  <2>3. QED  BY <2>2, <1>4, <1>8 DEF StreamAsks
<1>14. QED  BY <1>4, <1>5, <1>6, <1>7, <1>11, <1>12, <1>13, PageGoesOn

(* Drawing a diff whose changes are all known, and after n, leaves a page  *)
(* at n.                                                                   *)
LEMMA DrawnDiffHeld ==
    ASSUME MapFits, NEW body, IsDiff(body), NEW p, NEW n \in Nat, Held(p, n),
           \A i \in DOMAIN body.changes :
              Known(body.changes[i]) /\ body.changes[i].sequence > n
    PROVE  Held(ApplyDiff(p, body.changes), n)
<1> DEFINE q == ApplyDiff(p, body.changes)
<1> HIDE DEF q
<1>1. ASSUME n \in Base .. sequence, NEW c \in Cells, UntouchedSince(n, c)
      PROVE  q[c] = pixels[c]
  <2>1. \A i \in DOMAIN body.changes : ~Touches(body.changes, i, c)
    <3> SUFFICES ASSUME NEW i \in DOMAIN body.changes PROVE CellOf(body.changes[i]) # c
      BY DEF Touches
    <3>1. body.changes[i].sequence \in Nat /\ n >= Base
      BY <1>1 DEF IsDiff, PixelChanges, Base, MapFits, MapTypeOK
    <3>2. ~UntouchedSince(n, CellOf(body.changes[i]))
      BY <3>1, KnownTouches
    <3>3. QED  BY <3>2, <1>1
  <2>2. q[c] = p[c]
    BY <2>1, AppliedCell DEF LastTouch, q
  <2>3. QED  BY <2>2, <1>1 DEF Held, AgreesSince
<1>2. Held(q, n)
  BY <1>1 DEF Held, AgreesSince
<1>3. QED  BY <1>2 DEF q

(* So does drawing the one own pixel. *)
LEMMA DrawnPixelHeld ==
    ASSUME MapFits, NEW d, d.sequence \in Nat, Known(d), NEW p \in Pixmaps, NEW n \in Nat,
           Held(p, n), d.sequence > n
    PROVE  Held([p EXCEPT ![CellOf(d)] = d.color], n)
<1> DEFINE q == [p EXCEPT ![CellOf(d)] = d.color]
<1>1. ASSUME n \in Base .. sequence, NEW c \in Cells, UntouchedSince(n, c)
      PROVE  q[c] = pixels[c]
  <2>1. n >= Base
    BY <1>1 DEF Base, MapFits, MapTypeOK
  <2>2. c # CellOf(d)
    BY <2>1, <1>1, KnownTouches
  <2>3. q[c] = p[c]
    BY <2>2 DEF Pixmaps
  <2>4. QED  BY <2>3, <1>1 DEF Held, AgreesSince
<1> HIDE DEF q
<1>2. Held(q, n)
  BY <1>1 DEF Held, AgreesSince
<1>3. QED  BY <1>2 DEF q

(* The first map is drawn: the page is at its number. *)
LEMMA PageDrawsFirst ==
    ASSUME Shapes, LoadsAlone, PageHeld, NEW e \in Exchanges, TakePayload(e),
           exchange[e].since = NoSince
    PROVE  PageHeld'
<1> SUFFICES ASSUME SameHistory PROVE PageHeld'
  BY DEF PageHeld, SameHistory, TakePayload, counters
<1>1. PICK body : body = exchange[e].body
  OBVIOUS
<1>2. IsPayload(exchange[e]) /\ IsFull(body) /\ body.sequence \in Nat
  BY <1>1, ShapesTakePayload DEF IsPayload, IsFull, Numbers
<1>3. phase = "loading" /\ exchange[e] # Idle
  BY <1>2 DEF IsPayload, Shapes, RequestsFit, Loading, Idle
<1>4. streamSince = NoStream /\ \A d \in Exchanges \ {e} : exchange[d] = Idle
  BY <1>3, OnlyTheLoad, NoStreamBefore
<1>5. \A d \in Exchanges : exchange'[d] = Idle
  BY <1>4 DEF TakePayload, Shapes, ExchangesFit
<1>6. body.sequence <= sequence /\ Held(DecodeRle(body.data), body.sequence)
  BY <1>1, <1>2 DEF PageHeld, ExchangeHeld, BodyHeld, IsPayload, IsFull
<1>7. /\ UNCHANGED <<pixels, sequence, changes>>
      /\ shown' = body.sequence /\ streamSince' = NoStream
  BY <1>1, <1>4 DEF TakePayload, mapVars
<1>8. screen' = DecodeRle(body.data)
  BY <1>1, <1>2, ShapesTakePayload DEF ApplyPayload, IsFull
<1>9. Held(screen, shown)'
  BY <1>6, <1>7, <1>8 DEF Held, AgreesSince, UntouchedSince, Base
<1>10. \A d \in Exchanges : ExchangeHeld(exchange[d])' /\ WatcherAsks(exchange[d])'
  BY <1>5 DEF ExchangeHeld, WatcherAsks, Idle
<1>11. shown' <= sequence' /\ ~Streams'
  BY <1>6, <1>7 DEF Streams
<1>12. QED  BY <1>9, <1>10, <1>11 DEF PageHeld, WatcherHeld, StreamHeld

(* A later payload is drawn: a page that watches becomes what it was told, *)
(* a page with a stream is no older than the stream.                       *)
LEMMA PageDraws ==
    ASSUME OneFetch, Shapes, LoadsAlone, PageHeld, NEW e \in Exchanges, TakePayload(e),
           exchange[e].since # NoSince
    PROVE  PageHeld'
<1> SUFFICES ASSUME SameHistory PROVE PageHeld'
  BY DEF PageHeld, SameHistory, TakePayload, counters
<1>1. PICK body : body = exchange[e].body
  OBVIOUS
<1>2. PICK since : since = exchange[e].since
  OBVIOUS
<1>3. /\ exchange[e].kind = "payload" /\ exchange[e] # Idle /\ Shapes'
      /\ IsFull(body) \/ IsDiff(body)
      /\ since \in Nat /\ body.sequence \in Nat
  BY <1>1, <1>2, ShapesTakePayload DEF IsPayload, IsFull, IsDiff, Numbers, NoSince, Idle
<1>4. phase # "loading"
  BY <1>3, OnlyTheLoad DEF Loading
<1>5. /\ UNCHANGED <<pixels, sequence, changes>>
      /\ screen' = ApplyPayload(screen, body) /\ shown' = body.sequence
      /\ phase' = phase /\ streamSince' = streamSince /\ ownPixels' = ownPixels
      /\ exchange'[e] = Idle /\ \A d \in Exchanges \ {e} : exchange'[d] = exchange[d]
  BY <1>1, <1>4, ShapesTakePayload DEF TakePayload, mapVars, counters, Shapes, ExchangesFit
<1>6. since <= body.sequence /\ body.sequence <= sequence /\ BodyHeld(since, body)
  BY <1>1, <1>2, <1>3 DEF PageHeld, ExchangeHeld, BodyHeld
<1>7. ASSUME NEW d \in Exchanges PROVE ExchangeHeld(exchange[d])'
  <2>1. CASE d = e
    BY <2>1, <1>5 DEF ExchangeHeld, Idle
  <2>2. CASE d # e
    <3>1. ExchangeHeld(exchange[d])
      BY DEF PageHeld
    <3>2. exchange'[d] = exchange[d] /\ UNCHANGED <<pixels, sequence, changes>>
      BY <2>2, <1>5
    <3>3. QED
      BY <3>1, <3>2 DEF ExchangeHeld, BodyHeld, Held, AgreesSince, UntouchedSince, Base, Known
  <2>3. QED  BY <2>1, <2>2
<1>8. ASSUME Watches'
      PROVE  Held(screen, shown)' /\ \A d \in Exchanges : WatcherAsks(exchange[d])'
  <2>1. Watches
    BY <1>4, <1>5, <1>8 DEF Watches
  <2>2. Held(ApplyPayload(screen, body), body.sequence)
    BY <2>1, <1>1, <1>3 DEF PageHeld, WatcherHeld, WatcherAsks
  <2>3. Held(screen, shown)'
    BY <2>2, <1>5 DEF Held, AgreesSince, UntouchedSince, Base
  <2>4. e \in Fetches /\ exchange["stream"] = Idle
    BY <2>1, <1>3, StreamIdle DEF Watches, Shapes, PageFits
  <2>5. \A d \in Exchanges : exchange'[d] = Idle
    BY <2>4, <1>5 DEF OneFetch, Exchanges
  <2>6. QED  BY <2>3, <2>5 DEF WatcherAsks, Idle
<1>9. ASSUME Streams'
      PROVE  /\ shown' >= streamSince' /\ Held(screen, streamSince)'
             /\ \A d \in Exchanges : StreamAsks(exchange[d])'
  <2>1. Streams /\ streamSince \in Nat
    BY <1>5, <1>9 DEF Streams, Shapes, PageFits, Numbers
  <2>2. Held(screen, streamSince) /\ \A d \in Exchanges : StreamAsks(exchange[d])
    BY <2>1 DEF PageHeld, StreamHeld
  <2>3. since >= streamSince /\ body.sequence >= streamSince
    BY <2>1, <2>2, <1>2, <1>3, <1>6 DEF StreamAsks
  <2>4. ASSUME IsFull(body) PROVE Held(ApplyPayload(screen, body), streamSince)
    <3>1. Held(DecodeRle(body.data), body.sequence)
      BY <2>4, <1>6 DEF BodyHeld, IsFull
    <3>2. Held(DecodeRle(body.data), streamSince)
      BY <3>1, <2>1, <2>3, <1>3, HeldEarlier DEF Shapes
    <3>3. QED  BY <2>4, <3>2 DEF ApplyPayload, IsFull
  <2>5. ASSUME IsDiff(body) PROVE Held(ApplyPayload(screen, body), streamSince)
    <3>1. ASSUME NEW i \in DOMAIN body.changes
          PROVE  Known(body.changes[i]) /\ body.changes[i].sequence > streamSince
      <4>1. Known(body.changes[i]) /\ body.changes[i].sequence > since
        BY <2>5, <1>6 DEF BodyHeld, IsDiff
      <4>2. body.changes[i].sequence \in Nat
        BY <2>5 DEF IsDiff, PixelChanges
      <4>3. QED  BY <4>1, <4>2, <2>1, <2>3, <1>3
    <3>2. Held(ApplyDiff(screen, body.changes), streamSince)
      BY <2>1, <2>2, <2>5, <3>1, DrawnDiffHeld DEF Shapes
    <3>3. QED  BY <2>5, <3>2 DEF ApplyPayload, IsDiff
  <2>6. Held(ApplyPayload(screen, body), streamSince)
    BY <2>4, <2>5, <1>3
  <2>7. QED
    <3>1. Held(screen, streamSince)'
      BY <2>6, <1>5 DEF Held, AgreesSince, UntouchedSince, Base
    <3>2. ASSUME NEW d \in Exchanges PROVE StreamAsks(exchange[d])'
      BY <2>2, <1>5 DEF StreamAsks, Idle
    <3>3. QED  BY <3>1, <3>2, <2>3, <1>5
<1>10. shown' <= sequence'
  BY <1>5, <1>6
<1>11. QED  BY <1>7, <1>8, <1>9, <1>10 DEF PageHeld, WatcherHeld, StreamHeld

(* The own pixel is drawn, on a page with a stream. *)
LEMMA PageDrawsOwn ==
    ASSUME Shapes, PageHeld, NEW e \in Exchanges, TakePlaced(e)
    PROVE  PageHeld'
<1> SUFFICES ASSUME SameHistory PROVE PageHeld'
  BY DEF PageHeld, SameHistory, TakePlaced, counters
<1>1. PICK x : x = exchange[e]
  OBVIOUS
<1>2. /\ IsPlaced(x) /\ x.sequence \in Nat /\ phase = "ready" /\ ownPixels > 0
      /\ screen \in Pixmaps
  BY <1>1, ShapesTakePlaced DEF IsPlaced, Numbers, Shapes, PageFits
<1>3. /\ UNCHANGED <<pixels, sequence, changes>>
      /\ screen' = [screen EXCEPT ![CellOf(x)] = x.color] /\ shown' = x.sequence
      /\ streamSince' = streamSince /\ ownPixels' = ownPixels
      /\ exchange'[e] = Idle /\ \A d \in Exchanges \ {e} : exchange'[d] = exchange[d]
  BY <1>1 DEF TakePlaced, mapVars, counters, Shapes, ExchangesFit
<1>4. Known(x) /\ x.sequence <= sequence
  BY <1>1, <1>2 DEF PageHeld, ExchangeHeld, IsPlaced, Known
<1>5. ASSUME NEW d \in Exchanges PROVE ExchangeHeld(exchange[d])'
  <2>1. CASE d = e
    BY <2>1, <1>3 DEF ExchangeHeld, Idle
  <2>2. CASE d # e
    <3>1. ExchangeHeld(exchange[d])
      BY DEF PageHeld
    <3>2. exchange'[d] = exchange[d] /\ UNCHANGED <<pixels, sequence, changes>>
      BY <2>2, <1>3
    <3>3. QED
      BY <3>1, <3>2 DEF ExchangeHeld, BodyHeld, Held, AgreesSince, UntouchedSince, Base, Known
  <2>3. QED  BY <2>1, <2>2
<1>6. ~Watches'
  BY <1>2, <1>3 DEF Watches, Shapes, PageFits
<1>7. ASSUME Streams'
      PROVE  /\ shown' >= streamSince' /\ Held(screen, streamSince)'
             /\ \A d \in Exchanges : StreamAsks(exchange[d])'
  <2>1. Streams /\ streamSince \in Nat
    BY <1>3, <1>7 DEF Streams, Shapes, PageFits, Numbers
  <2>2. Held(screen, streamSince) /\ \A d \in Exchanges : StreamAsks(exchange[d])
    BY <2>1 DEF PageHeld, StreamHeld
  <2>3. x.sequence > streamSince
    BY <2>2, <1>1, <1>2 DEF StreamAsks, IsPlaced
  <2>4. Held([screen EXCEPT ![CellOf(x)] = x.color], streamSince)
    BY <2>1, <2>2, <2>3, <1>2, <1>4, DrawnPixelHeld DEF Shapes
  <2>5. Held(screen, streamSince)'
    BY <2>4, <1>3 DEF Held, AgreesSince, UntouchedSince, Base
  <2>6. ASSUME NEW d \in Exchanges PROVE StreamAsks(exchange[d])'
    BY <2>2, <1>3 DEF StreamAsks, Idle
  <2>7. QED  BY <2>1, <2>3, <2>5, <2>6, <1>2, <1>3
<1>8. QED  BY <1>3, <1>4, <1>5, <1>6, <1>7 DEF PageHeld, WatcherHeld, StreamHeld

----------------------------------------------------------------------------
(* The theorems.                                                           *)

IInv == Shapes /\ LoadsAlone /\ PageHeld

(* No step of a page with one request in flight leaves the invariant. *)
LEMMA InvariantStep ==
    ASSUME OneFetch, IInv, [Next]_vars
    PROVE  IInv'
<1> USE DEF IInv
<1>1. Shapes' /\ LoadsAlone'
  BY ShapesStep, LoadsAloneStep
<1>2. ASSUME NEW e \in Exchanges, TakePayload(e) PROVE PageHeld'
  <2>1. CASE exchange[e].since = NoSince
    BY <1>2, <2>1, PageDrawsFirst
  <2>2. CASE exchange[e].since # NoSince
    BY <1>2, <2>2, PageDraws
  <2>3. QED  BY <2>1, <2>2
<1>3. ASSUME NEW e \in Exchanges, AnswerMap(e) PROVE PageHeld'
  <2>1. CASE exchange[e].since = NoSince
    BY <1>3, <2>1, PageLoads
  <2>2. CASE exchange[e].since # NoSince
    BY <1>3, <2>2, PageAnswered
  <2>3. QED  BY <2>1, <2>2
<1>4. PageHeld'
  BY <1>2, <1>3, PageConnects, PageAsks, PagePlaces, PageDrawsOwn, PageLoses, PagePixel,
     PageOthers, PageRollsBack DEF Next
<1>5. QED  BY <1>1, <1>4

(* Every reachable state of such a page satisfies it. *)
THEOREM PageKeepsItsNumber == OneFetch => (Spec => []IInv)
<1> SUFFICES ASSUME OneFetch PROVE Spec => []IInv
  OBVIOUS
<1>1. Init => IInv
  BY ShapesInit, PageInit DEF IInv
<1>2. IInv /\ [Next]_vars => IInv'
  BY InvariantStep
<1>3. QED  BY <1>1, <1>2, PTL DEF Spec

(* A page that only watches, on a map that was not rolled back under it,   *)
(* has the current map when the server answers its refresh now (README.md, *)
(* line 160: the refresh is the safety net), however many changes it       *)
(* missed and the log has dropped.                                         *)
THEOREM RefreshIsSafetyNet == OneFetch => (Spec => []RefreshBringsCurrent)
<1>1. ASSUME IInv, phase = "ready", streamSince = NoStream, ownPixels = 0, SameHistory
      PROVE  ApplyPayload(screen, MapReply(shown)) = pixels
  <2>1. Held(screen, shown) /\ shown \in Nat
    BY <1>1 DEF IInv, PageHeld, WatcherHeld, Watches, Shapes, PageFits, Numbers
  <2>2. QED  BY <1>1, <2>1, ReplyIsRight DEF IInv, Shapes, MapFits, Held
<1>2. IInv => RefreshBringsCurrent
  BY <1>1 DEF RefreshBringsCurrent
<1>3. QED  BY <1>2, PageKeepsItsNumber, PTL

(* A page with a stream, that may have jumped over the changes of others   *)
(* with its own pixels, or applied a reply that was overtaken, has the     *)
(* current map when its stream, asking from the number in its URL, is      *)
(* answered now.                                                           *)
THEOREM StreamRepairs == OneFetch => (Spec => []StreamBringsCurrent)
<1>1. ASSUME IInv, streamSince # NoStream, SameHistory
      PROVE  ApplyPayload(screen, MapReply(streamSince)) = pixels
  <2>1. Held(screen, streamSince) /\ streamSince \in Nat
    BY <1>1 DEF IInv, PageHeld, StreamHeld, Streams, Shapes, PageFits, Numbers
  <2>2. QED  BY <1>1, <2>1, ReplyIsRight DEF IInv, Shapes, MapFits, Held
<1>2. IInv => StreamBringsCurrent
  BY <1>1 DEF StreamBringsCurrent
<1>3. QED  BY <1>2, PageKeepsItsNumber, PTL

============================================================================
