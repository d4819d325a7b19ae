----------------------------- MODULE MapClient -----------------------------
(***************************************************************************)
(* One browser (public/app.js) following the map of the server.            *)
(*                                                                         *)
(* The browser has a screen and the sequence number it believes the screen *)
(* to be at.  It loads the full map once, then opens an event stream whose *)
(* URL carries the number of that moment for ever, refreshes by the number *)
(* it holds (every minute and on a click), and may place pixels itself.    *)
(* Each HTTP exchange takes two steps, the answer of the server and the    *)
(* delivery of the reply, so replies overtake one another.  Meanwhile      *)
(* other users place pixels, and the administrator resets the map or rolls *)
(* it back to a backup; the server may restart from its own live file.     *)
(***************************************************************************)
EXTENDS MapLog

CONSTANTS
    Fetches,        \* the fetch() calls that may be in flight at once
    EventSources,   \* may the browser know EventSource, may it not?
    FirstSequence,  \* the sequence number of the map that main() loads
    MaxOwnPixels,   \* bound on the pixels placed from this browser
    MaxSequence,    \* bound on the writes of all users
    MaxIncidents    \* bound on failed exchanges, server restarts and rollbacks

ASSUME ClientAssumption ==
    /\ "stream" \notin Fetches
    /\ EventSources \subseteq BOOLEAN
    /\ MaxOwnPixels \in Nat /\ MaxSequence \in Nat
    /\ FirstSequence \in 0 .. MaxSequence
    /\ MaxIncidents \in Nat

Exchanges == Fetches \cup {"stream"}

VARIABLES
    screen,         \* state.pixels
    shown,          \* state.sequence
    phase,          \* how far init() has come: "loading", "loaded", "ready"
    streamSince,    \* the number in the URL of the event stream
    exchange,       \* what each HTTP exchange carries now
    backup,         \* the last backup made on the server
    loadedAfter,    \* history: the rollbacks before the page's first load
    ownPixels, rollbacks, incidents \* how much of each bound is used

clientVars == <<screen, shown, phase, streamSince>>
counters   == <<ownPixels, rollbacks, incidents>>
vars == <<mapVars, clientVars, exchange, backup, loadedAfter, counters>>

NoMap    == <<>>                    \* the 1 x 1 canvas before the first load
NoStream == -1
Idle     == [kind |-> "idle"]

Asks(since)   == [kind |-> "ask", since |-> since]
Places(x, y, color) == [kind |-> "place", x |-> x, y |-> y, color |-> color]
Payload(since, body) == [kind |-> "payload", since |-> since, body |-> body]
Placed(request, number) ==
    [kind |-> "placed", x |-> request.x, y |-> request.y,
     color |-> request.color, sequence |-> number]

Incident ==
    /\ incidents < MaxIncidents
    /\ incidents' = incidents + 1

TypeOK ==
    /\ MapTypeOK
    /\ screen \in Pixmaps \cup {NoMap}
    /\ shown \in 0 .. MaxSequence
    /\ phase \in {"loading", "loaded", "ready"}
    /\ streamSince \in {NoStream} \cup (0 .. MaxSequence)
    /\ \A e \in Exchanges :
          exchange[e].kind \in {"idle", "ask", "place", "payload", "placed"}
    /\ backup \in Images
    /\ loadedAfter \in 0 .. rollbacks

(* main() has constructed a map and loaded map.pwm. *)
Init ==
    /\ pixels = Blank
    /\ sequence = FirstSequence
    /\ changes = <<>>
    /\ cacheDirty = TRUE
    /\ cachedRle = <<>>
    /\ screen = NoMap
    /\ shown = 0
    /\ phase = "loading"
    /\ streamSince = NoStream
    /\ \E first \in Fetches :
          exchange = [e \in Exchanges |-> IF e = first THEN Asks(NoSince) ELSE Idle]
    /\ backup = MapImage
    /\ loadedAfter = 0
    /\ ownPixels = 0 /\ rollbacks = 0 /\ incidents = 0

----------------------------------------------------------------------------
(* The browser. *)

(* connectEvents, once the first map and the history are there. *)
ConnectEvents ==
    /\ phase = "loaded"
    /\ phase' = "ready"
    /\ \E known \in EventSources : streamSince' = IF known THEN shown ELSE NoStream
    /\ UNCHANGED <<mapVars, screen, shown, exchange, backup, counters, loadedAfter>>

(* The EventSource opens its URL, and opens it again whenever the reply    *)
(* has ended.                                                              *)
OpenStream ==
    /\ streamSince # NoStream
    /\ exchange["stream"] = Idle
    /\ exchange' = [exchange EXCEPT !["stream"] = Asks(streamSince)]
    /\ UNCHANGED <<mapVars, clientVars, backup, counters, loadedAfter>>

(* Mutant of Refresh: asks from the number after the one shown. *)
RefreshSkipsOne(f) ==
    /\ exchange[f] = Idle
    /\ exchange' = [exchange EXCEPT ![f] = Asks(shown + 1)]
    /\ UNCHANGED <<mapVars, clientVars, backup, counters, loadedAfter>>

(* refreshMap: every 60 seconds and on the button, which is there from the *)
(* first moment.                                                           *)
Refresh(f) ==
    /\ exchange[f] = Idle
    /\ exchange' = [exchange EXCEPT ![f] = Asks(shown)]
    /\ UNCHANGED <<mapVars, clientVars, backup, counters, loadedAfter>>

(* placeSelectedPixel, up to the request. *)
PlaceOwn(f, x, y, color) ==
    /\ phase = "ready"
    /\ ownPixels < MaxOwnPixels
    /\ exchange[f] = Idle
    /\ exchange' = [exchange EXCEPT ![f] = Places(x, y, color)]
    /\ ownPixels' = ownPixels + 1
    /\ UNCHANGED <<mapVars, clientVars, backup, rollbacks, incidents, loadedAfter>>

(* Mutant of TakePayload: a payload that is not newer than the number      *)
(* shown is thrown away.                                                   *)
TakeNewerPayload(e) ==
    /\ exchange[e].kind = "payload"
    /\ LET body == exchange[e].body IN
          IF screen # NoMap /\ body.sequence <= shown
          THEN UNCHANGED <<screen, shown, phase>>
          ELSE /\ screen' = ApplyPayload(screen, body)
               /\ shown' = body.sequence
               /\ phase' = IF phase = "loading" THEN "loaded" ELSE phase
    /\ exchange' = [exchange EXCEPT ![e] = Idle]
    /\ UNCHANGED <<mapVars, streamSince, backup, counters, loadedAfter>>

(* applyMapPayload.  Before the first full map the canvas has one cell and *)
(* a diff is as good as dropped.                                           *)
TakePayload(e) ==
    /\ exchange[e].kind = "payload"
    /\ LET body == exchange[e].body IN
          /\ screen' = IF screen = NoMap /\ body.type = "diff" THEN NoMap
                       ELSE ApplyPayload(screen, body)
          /\ shown' = body.sequence
          /\ phase' = IF exchange[e].since = NoSince THEN "loaded" ELSE phase
    /\ exchange' = [exchange EXCEPT ![e] = Idle]
    /\ UNCHANGED <<mapVars, streamSince, backup, counters, loadedAfter>>

(* placeSelectedPixel, from the reply on: the own pixel is drawn and the   *)
(* number of the reply taken over.                                         *)
TakePlaced(e) ==
    /\ exchange[e].kind = "placed"
    /\ screen' = [screen EXCEPT ![CellOf(exchange[e])] = exchange[e].color]
    /\ shown' = exchange[e].sequence
    /\ exchange' = [exchange EXCEPT ![e] = Idle]
    /\ UNCHANGED <<mapVars, phase, streamSince, backup, counters, loadedAfter>>

(* The exchange fails before or after the server handled the request; the  *)
(* page shows an error and keeps its state.                                *)
LoseExchange(e) ==
    /\ phase = "ready"
    /\ Incident
    /\ exchange[e] # Idle
    /\ exchange' = [exchange EXCEPT ![e] = Idle]
    /\ UNCHANGED <<mapVars, clientVars, backup, ownPixels, rollbacks, loadedAfter>>

----------------------------------------------------------------------------
(* The server. *)

(* GET /map and GET /events: one call of toJson. *)
AnswerMap(e) ==
    /\ exchange[e].kind = "ask"
    /\ ToJson(exchange[e].since)
    /\ exchange' = [exchange EXCEPT
                       ![e] = Payload(exchange[e].since, MapReply(exchange[e].since))]
    /\ loadedAfter' = IF exchange[e].since = NoSince THEN rollbacks ELSE loadedAfter
    /\ UNCHANGED <<clientVars, backup, counters>>

(* POST /pixel, accepted. *)
AnswerPlace(e) ==
    /\ exchange[e].kind = "place"
    /\ sequence < MaxSequence
    /\ SetPixel(exchange[e].x, exchange[e].y, exchange[e].color)
    /\ exchange' = [exchange EXCEPT ![e] = Placed(exchange[e], sequence')]
    /\ UNCHANGED <<clientVars, backup, counters, loadedAfter>>

(* POST /pixel, refused (cooldown, rate limit, session). *)
RefusePlace(e) ==
    /\ exchange[e].kind = "place"
    /\ exchange' = [exchange EXCEPT ![e] = Idle]
    /\ UNCHANGED <<mapVars, clientVars, backup, counters, loadedAfter>>

OtherUserPlaces(x, y, color) ==
    /\ sequence < MaxSequence
    /\ SetPixel(x, y, color)
    /\ UNCHANGED <<clientVars, exchange, backup, counters, loadedAfter>>

AdminResets(color) ==
    /\ sequence < MaxSequence
    /\ Reset(color)
    /\ UNCHANGED <<clientVars, exchange, backup, counters, loadedAfter>>

HourlyBackup ==
    /\ incidents < MaxIncidents         \* nobody would roll back to a later one
    /\ backup' = MapImage
    /\ UNCHANGED <<mapVars, clientVars, exchange, counters, loadedAfter>>

AdminRollsBack ==
    /\ Incident
    /\ Install(backup)
    /\ rollbacks' = rollbacks + 1
    /\ UNCHANGED <<clientVars, exchange, backup, ownPixels, loadedAfter>>

(* A restart from an up-to-date live file; the open connections fail. *)
Restart ==
    /\ phase = "ready"
    /\ Incident
    /\ Install(MapImage)
    /\ exchange' = [e \in Exchanges |-> Idle]
    /\ UNCHANGED <<clientVars, backup, ownPixels, rollbacks, loadedAfter>>

----------------------------------------------------------------------------

Deliver(e) == TakePayload(e) \/ TakePlaced(e)
Answer(e)  == AnswerMap(e) \/ AnswerPlace(e) \/ RefusePlace(e)

Next ==
    \/ ConnectEvents
    \/ OpenStream
    \/ \E f \in Fetches : Refresh(f)
    \/ \E f \in Fetches, x \in Columns, y \in Rows, color \in Colors :
          PlaceOwn(f, x, y, color)
    \/ \E e \in Exchanges : TakePayload(e)
    \/ \E e \in Exchanges : TakePlaced(e)
    \/ \E e \in Exchanges : LoseExchange(e)
    \/ \E e \in Exchanges : AnswerMap(e)
    \/ \E e \in Exchanges : AnswerPlace(e)
    \/ \E e \in Exchanges : RefusePlace(e)
    \/ \E x \in Columns, y \in Rows, color \in Colors : OtherUserPlaces(x, y, color)
    \/ \E color \in Colors : AdminResets(color)
    \/ HourlyBackup
    \/ AdminRollsBack
    \/ Restart

Spec == Init /\ [][Next]_vars

(* The server answers every request it has received, what it answered      *)
(* arrives unless it is lost, the page reopens its stream, and its timer   *)
(* refreshes.  Nothing is assumed of the users and the administrator.      *)
Fairness ==
    /\ WF_vars(ConnectEvents)
    /\ WF_vars(OpenStream)
    /\ \A f \in Fetches : WF_vars(Refresh(f))
    /\ \A e \in Exchanges : WF_vars(Answer(e)) /\ WF_vars(Deliver(e))

FairSpec == Spec /\ Fairness

----------------------------------------------------------------------------
(* Properties. *)

(* The map has not been rolled back since the page was loaded. *)
SameHistory == loadedAfter = rollbacks

(* The refresh is a safety net (README.md:160): a page without a stream    *)
(* that only watches is brought to the current map by a refresh answered   *)
(* now, whatever was lost and trimmed.  Of a page with one request in      *)
(* flight (Fetches): with two, an old reply may be drawn over a newer one. *)
RefreshBringsCurrent ==
    /\ phase = "ready" /\ streamSince = NoStream
    /\ ownPixels = 0 /\ SameHistory
    => ApplyPayload(screen, MapReply(shown)) = pixels

(* The stream asks for ever from the number of its URL: also a page that   *)
(* jumped over changes of other users when it took over the number of its  *)
(* own pixel, or that applied an overtaken reply, is brought back, unless  *)
(* the map was rolled back under it.  One other request is in flight at a  *)
(* time (Fetches), so only stream and fetch overtake each other.           *)
StreamBringsCurrent ==
    streamSince # NoStream /\ SameHistory
        => ApplyPayload(screen, MapReply(streamSince)) = pixels

(* A page that can catch up: no rollback under it, and a stream if it      *)
(* places pixels.                                                          *)
Follows == SameHistory /\ (streamSince # NoStream \/ ownPixels = 0)

(* Once the users and the administrator stop writing (the bounds make      *)
(* them), the screen of such a page becomes the current map and stays it,  *)
(* if it has one request in flight at a time besides its stream.           *)
FollowerConverges == <>[](Follows => screen = pixels)

(* README.md:160: the browser receives the diffs nearly at once and has    *)
(* its refresh as a safety net, so every page comes to the current map.    *)
ScreenConverges == <>[](screen = pixels)

============================================================================
