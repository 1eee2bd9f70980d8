----------------------------- MODULE MapClient -----------------------------
(***************************************************************************)
(* The maps in the browser: the map application (src/apps/map-client) and  *)
(* the map page of the portal (components/gis/GisMapClient.tsx).  Both     *)
(* draw what requests bring, while filters, the viewport, layers and       *)
(* decisions change under those requests.                                  *)
(*                                                                         *)
(* The map application asks its gateway for updates with a message the     *)
(* gateway does not know, so no incident reaches it but by a request.      *)
(***************************************************************************)
EXTENDS Naturals, Sequences, FiniteSets

CONSTANTS
  Queries,         \* filters, viewports and periods a view can be asked for
  FirstQuery,
  HazardTypes,     \* as a sequence: the order of the polls
  Predictions,     \* risk predictions to be reviewed
  Layers, DefaultVisible, AddedVisible,  \* of the store, of addCoESCDLayers
  PortalIncidents, NoIncident,
  MaxMapMoves      \* bound: what users and servers do

ASSUME MapClientAssumption ==
  /\ FirstQuery \in Queries /\ NoIncident \notin PortalIncidents
  /\ DefaultVisible \cup AddedVisible \subseteq Layers
  /\ HazardTypes \in Seq(Layers) /\ MaxMapMoves \in Nat

VARIABLES
  wanted,       \* view -> what it should show
  requested,    \* requests of views under way
  shown,        \* view -> what it shows, {} before the first answer
  layered,      \* views of the map that are switched on
  behind,       \* views that lack an answer: it failed, or an older one came after it
  mapLoaded,    \* the map is in the store
  layerVisibility, drawn,   \* layers visible in the store, on the map
  lost,         \* layers that differ since the map was loaded
  forecast,     \* what the server would answer to a poll of a hazard
  riskShown, riskNewest,    \* hazard -> what the store holds, the newest it held
  polls,        \* fetchAll() runs
  polled,       \* two of them ran at once
  pending,      \* predictions the server holds for review
  listed,       \* predictions of the review panel
  decidedHere, decidedElsewhere, \* by this analyst, by others
  loads,        \* answers to load() under way
  reappeared,   \* brought back by an answer older than the decision
  liveIncidents,   \* incident -> its version on the portal's map page, 0: not there
  selectedIncident, reloaded,
  portalMap,    \* "none", "loading" or "loaded"
  overlays, overlaysDrawn, overlaysLost,
  mapMoves

viewVars == <<wanted, requested, shown, layered, behind>>
layerVars == <<mapLoaded, layerVisibility, drawn, lost>>
riskVars == <<forecast, riskShown, riskNewest, polls, polled>>
reviewVars == <<pending, listed, decidedHere, decidedElsewhere, loads, reappeared>>
portalMapVars == <<liveIncidents, selectedIncident, reloaded, portalMap, overlays, overlaysDrawn,
  overlaysLost>>
mapVars == <<viewVars, layerVars, riskVars, reviewVars, portalMapVars, mapMoves>>

OnTheMap == {"clusters", "heatmap"}
Views == {"incidents", "timeline"} \cup OnTheMap
Overlays == {"incidents", "boundaries", "hazards"}
HazardLayers == {HazardTypes[i] : i \in DOMAIN HazardTypes}
Versions == 0..MaxMapMoves
Selected == [id: PortalIncidents \cup {NoIncident}, version: Versions]
Nothing == [id |-> NoIncident, version |-> 0]
Poll == [nr: Versions, rest: Seq(Layers), answered: BOOLEAN, carries: Versions]

MapClientTypeOK ==
  /\ wanted \in [Views -> Queries] /\ shown \in [Views -> SUBSET Queries]
  /\ requested \subseteq [view: Views, query: Queries, nr: Versions]
  /\ layered \subseteq OnTheMap /\ behind \subseteq Views
  /\ mapLoaded \in BOOLEAN /\ layerVisibility \cup drawn \cup lost \subseteq Layers
  /\ forecast \in [HazardLayers -> Versions]
  /\ riskShown \in [HazardLayers -> Versions] /\ riskNewest \in [HazardLayers -> Versions]
  /\ polls \subseteq Poll /\ polled \in BOOLEAN
  /\ pending \cup listed \cup decidedHere \cup decidedElsewhere \cup reappeared \subseteq Predictions
  /\ loads \subseteq [nr: Versions, brings: SUBSET Predictions]
  /\ liveIncidents \in [PortalIncidents -> Versions] /\ selectedIncident \in Selected
  /\ reloaded \in BOOLEAN /\ portalMap \in {"none", "loading", "loaded"}
  /\ overlays \cup overlaysDrawn \cup overlaysLost \subseteq Overlays
  /\ mapMoves \in Versions

MapClientInit ==
  /\ wanted = [v \in Views |-> FirstQuery] /\ shown = [v \in Views |-> {}]
  /\ requested = {[view |-> v, query |-> FirstQuery, nr |-> 0] : v \in Views \ OnTheMap}
  /\ layered = {} /\ behind = {}
  /\ mapLoaded = FALSE /\ layerVisibility = DefaultVisible /\ drawn = {} /\ lost = {}
  /\ forecast = [h \in HazardLayers |-> 0] /\ riskShown = forecast /\ riskNewest = forecast
  /\ polls = {} /\ polled = FALSE
  /\ pending = Predictions /\ listed = {} /\ decidedHere = {} /\ decidedElsewhere = {}
  /\ loads = {} /\ reappeared = {}
  /\ liveIncidents = [i \in PortalIncidents |-> 0]
  /\ selectedIncident = Nothing /\ reloaded = FALSE
  /\ portalMap = "none" /\ overlays = Overlays /\ overlaysDrawn = {} /\ overlaysLost = {}
  /\ mapMoves = 0

MapMove == mapMoves < MaxMapMoves /\ mapMoves' = mapMoves + 1

-----------------------------------------------------------------------------
\* The lists and the layers that depend on a filter, a period or the viewport.
SendRequests(vs, q, earlier) ==
  /\ requested' = earlier \cup {[view |-> v, query |-> q, nr |-> mapMoves'] : v \in vs}
  /\ behind' = behind \ vs

\* useIncidents: the answer to an earlier filter is dropped.
FetchIncidents(q) ==
  /\ MapMove
  /\ wanted["incidents"] # q /\ wanted' = [wanted EXCEPT !["incidents"] = q]
  /\ SendRequests({"incidents"}, q, {a \in requested : a.view # "incidents"})
  /\ UNCHANGED <<shown, layered, layerVars, riskVars, reviewVars, portalMapVars>>

FetchTimeline(q) ==
  /\ MapMove
  /\ wanted["timeline"] # q /\ wanted' = [wanted EXCEPT !["timeline"] = q]
  /\ SendRequests({"timeline"}, q, {a \in requested : a.view # "timeline"})
  /\ UNCHANGED <<shown, layered, layerVars, riskVars, reviewVars, portalMapVars>>

\* The controller that is aborted belongs to no request: all of them are answered.
SwitchOn(v) ==
  /\ MapMove
  /\ mapLoaded /\ v \in OnTheMap \ layered /\ layered' = layered \cup {v}
  /\ SendRequests({v}, wanted[v], requested)
  /\ UNCHANGED <<wanted, shown, layerVars, riskVars, reviewVars, portalMapVars>>

SwitchOff(v) ==
  /\ MapMove
  /\ v \in layered /\ layered' = layered \ {v}
  /\ UNCHANGED <<wanted, requested, shown, behind, layerVars, riskVars, reviewVars, portalMapVars>>

\* moveend
MoveViewport(q) ==
  /\ MapMove
  /\ mapLoaded /\ wanted["clusters"] # q
  /\ wanted' = [v \in Views |-> IF v \in OnTheMap THEN q ELSE wanted[v]]
  /\ SendRequests(layered, q, requested)
  /\ UNCHANGED <<shown, layered, layerVars, riskVars, reviewVars, portalMapVars>>

IsOvertaken(a) == \E b \in requested : b.view = a.view /\ b.nr > a.nr

\* A later request of a view of the map may have been answered before.
TakeView(a) ==
  /\ a \in requested /\ requested' = requested \ {a}
  /\ shown' = [shown EXCEPT ![a.view] = {a.query}]
  /\ behind' = IF a.view \in OnTheMap /\ a.query # wanted[a.view] /\ ~IsOvertaken(a)
                 THEN behind \cup {a.view} ELSE behind
  /\ UNCHANGED <<wanted, layered, layerVars, riskVars, reviewVars, portalMapVars, mapMoves>>

\* It is logged, or not even that.
ViewFails(a) ==
  /\ MapMove
  /\ a \in requested /\ requested' = requested \ {a} /\ behind' = behind \cup {a.view}
  /\ UNCHANGED <<wanted, shown, layered, layerVars, riskVars, reviewVars, portalMapVars>>

-----------------------------------------------------------------------------
\* The layers: the map is put in the store once it has loaded.
LoadMap ==
  /\ ~mapLoaded /\ mapLoaded' = TRUE
  /\ drawn' = AddedVisible
  /\ lost' = {l \in Layers : (l \in layerVisibility) # (l \in AddedVisible)}
  /\ UNCHANGED <<layerVisibility, viewVars, riskVars, reviewVars, portalMapVars, mapMoves>>

With(set, x, yes) == IF yes THEN set \cup {x} ELSE set \ {x}

\* fetchAll polls the hazards whose layer is visible when it is made.
PollsOf(visible) ==
  LET IsOn(h) == h \in visible
  IN  [nr |-> mapMoves', rest |-> SelectSeq(HazardTypes, IsOn), answered |-> FALSE, carries |-> 0]

StartPoll(visible) ==
  /\ polls' = polls \cup (IF PollsOf(visible).rest = <<>> THEN {} ELSE {PollsOf(visible)})
  /\ polled' = (polled \/ Cardinality(polls') > 1)

\* Every change of a layer makes another fetchAll; the one that runs goes on.
ToggleLayer(l) ==
  /\ MapMove
  /\ LET on == l \notin layerVisibility IN
     /\ layerVisibility' = With(layerVisibility, l, on)
     /\ drawn' = IF mapLoaded THEN With(drawn, l, on) ELSE drawn
  /\ lost' = lost \ {l}
  /\ StartPoll(layerVisibility')
  /\ UNCHANGED <<mapLoaded, forecast, riskShown, riskNewest, viewVars, reviewVars, portalMapVars>>

\* Every five minutes.
PollAgain ==
  /\ MapMove
  /\ layerVisibility \cap HazardLayers # {}
  /\ StartPoll(layerVisibility)
  /\ UNCHANGED <<forecast, riskShown, riskNewest, layerVars, viewVars, reviewVars, portalMapVars>>

Publish(h) ==
  /\ MapMove
  /\ forecast' = [forecast EXCEPT ![h] = mapMoves']
  /\ UNCHANGED <<riskShown, riskNewest, polls, polled, layerVars, viewVars, reviewVars, portalMapVars>>

\* The server answers the poll of the hazard it is at.
ServePoll(p) ==
  /\ p \in polls /\ ~p.answered
  /\ polls' = (polls \ {p})
       \cup {[p EXCEPT !.answered = TRUE, !.carries = forecast[Head(p.rest)]]}
  /\ UNCHANGED <<forecast, riskShown, riskNewest, polled, layerVars, viewVars, reviewVars,
       portalMapVars, mapMoves>>

NextHazard(p) ==
  (polls \ {p}) \cup
    (IF Len(p.rest) = 1 THEN {} ELSE {[p EXCEPT !.rest = Tail(@), !.answered = FALSE, !.carries = 0]})

Newer(m, n) == IF m > n THEN m ELSE n

TakePoll(p) ==
  LET h == Head(p.rest)
  IN  /\ p \in polls /\ p.answered /\ polls' = NextHazard(p)
      /\ riskShown' = [riskShown EXCEPT ![h] = p.carries]
      /\ riskNewest' = [riskNewest EXCEPT ![h] = Newer(@, p.carries)]
      /\ UNCHANGED <<forecast, polled, layerVars, viewVars, reviewVars, portalMapVars, mapMoves>>

PollFails(p) ==
  /\ MapMove
  /\ p \in polls /\ polls' = NextHazard(p)
  /\ UNCHANGED <<forecast, riskShown, riskNewest, polled, layerVars, viewVars, reviewVars,
       portalMapVars>>

-----------------------------------------------------------------------------
\* The review panel: load() when it is opened, and after a publication.
LoadPending ==
  /\ MapMove
  /\ loads' = loads \cup {[nr |-> mapMoves', brings |-> pending]}
  /\ UNCHANGED <<pending, listed, decidedHere, decidedElsewhere, reappeared, viewVars, layerVars,
       riskVars, portalMapVars>>

TakePending(a) ==
  /\ a \in loads /\ loads' = loads \ {a}
  /\ listed' = a.brings /\ reappeared' = a.brings \cap decidedHere
  /\ UNCHANGED <<pending, decidedHere, decidedElsewhere, viewVars, layerVars, riskVars,
       portalMapVars, mapMoves>>

\* handleApprove, handleReject: the prediction leaves the list when the server agreed.
DecideHere(p) ==
  /\ MapMove
  /\ p \in listed \cap pending
  /\ pending' = pending \ {p} /\ listed' = listed \ {p}
  /\ decidedHere' = decidedHere \cup {p} /\ reappeared' = reappeared \ {p}
  /\ UNCHANGED <<decidedElsewhere, loads, viewVars, layerVars, riskVars, portalMapVars>>

DecideElsewhere(p) ==
  /\ MapMove
  /\ p \in pending /\ pending' = pending \ {p} /\ decidedElsewhere' = decidedElsewhere \cup {p}
  /\ UNCHANGED <<listed, decidedHere, loads, reappeared, viewVars, layerVars, riskVars, portalMapVars>>

-----------------------------------------------------------------------------
\* The portal's map page.  The map is made anew whenever an incident changes.
OpenMapPage ==
  /\ portalMap = "none" /\ portalMap' = "loading"
  /\ UNCHANGED <<liveIncidents, selectedIncident, reloaded, overlays, overlaysDrawn, overlaysLost,
       viewVars, layerVars, riskVars, reviewVars, mapMoves>>

Recreate == portalMap' = "loading" /\ overlaysDrawn' = {} /\ overlaysLost' = {}

\* The panel keeps the incident as it was selected.
UpsertIncidentOnly(i) ==
  /\ MapMove
  /\ portalMap # "none" /\ liveIncidents' = [liveIncidents EXCEPT ![i] = mapMoves']
  /\ Recreate
  /\ UNCHANGED <<selectedIncident, reloaded, overlays, viewVars, layerVars, riskVars, reviewVars>>

\* onIncidentUpsert
UpsertIncident(i) ==
  /\ MapMove
  /\ portalMap # "none" /\ liveIncidents' = [liveIncidents EXCEPT ![i] = mapMoves']
  /\ selectedIncident' = IF selectedIncident.id = i
       THEN [id |-> i, version |-> mapMoves'] ELSE selectedIncident
  /\ Recreate
  /\ UNCHANGED <<reloaded, overlays, viewVars, layerVars, riskVars, reviewVars>>

\* The page is rendered again with other incidents: the selection is not.
ReloadIncidents ==
  /\ MapMove
  /\ portalMap # "none"
  /\ \E i \in PortalIncidents : liveIncidents' = [liveIncidents EXCEPT ![i] = mapMoves']
  /\ reloaded' = (selectedIncident # Nothing)
  /\ Recreate
  /\ UNCHANGED <<selectedIncident, overlays, viewVars, layerVars, riskVars, reviewVars>>

LoadPortalMap ==
  /\ portalMap = "loading" /\ portalMap' = "loaded"
  /\ overlaysDrawn' = Overlays /\ overlaysLost' = Overlays \ overlays
  /\ UNCHANGED <<liveIncidents, selectedIncident, reloaded, overlays, viewVars, layerVars, riskVars,
       reviewVars, mapMoves>>

\* A click on a circle, or beside all of them.
SelectIncident(i) ==
  /\ MapMove
  /\ portalMap = "loaded"
  /\ \/ liveIncidents[i] # 0 /\ selectedIncident' = [id |-> i, version |-> liveIncidents[i]]
     \/ selectedIncident # Nothing /\ selectedIncident' = Nothing
  /\ reloaded' = FALSE
  /\ UNCHANGED <<liveIncidents, portalMap, overlays, overlaysDrawn, overlaysLost, viewVars, layerVars,
       riskVars, reviewVars>>

ToggleOverlay(o) ==
  /\ MapMove
  /\ LET on == o \notin overlays IN
     /\ overlays' = With(overlays, o, on)
     /\ IF portalMap = "loaded"
          THEN overlaysDrawn' = With(overlaysDrawn, o, on) /\ overlaysLost' = overlaysLost \ {o}
          ELSE UNCHANGED <<overlaysDrawn, overlaysLost>>
  /\ UNCHANGED <<liveIncidents, selectedIncident, reloaded, portalMap, viewVars, layerVars, riskVars,
       reviewVars>>

MapClientNext ==
  \/ \E q \in Queries : FetchIncidents(q) \/ FetchTimeline(q) \/ MoveViewport(q)
  \/ \E v \in Views : SwitchOn(v) \/ SwitchOff(v)
  \/ \E a \in requested : TakeView(a) \/ ViewFails(a)
  \/ LoadMap \/ \E l \in Layers : ToggleLayer(l)
  \/ PollAgain \/ \E h \in HazardLayers : Publish(h)
  \/ \E p \in polls : ServePoll(p) \/ TakePoll(p) \/ PollFails(p)
  \/ LoadPending \/ \E a \in loads : TakePending(a)
  \/ \E p \in Predictions : DecideHere(p) \/ DecideElsewhere(p)
  \/ OpenMapPage \/ ReloadIncidents \/ LoadPortalMap
  \/ \E i \in PortalIncidents : UpsertIncident(i) \/ SelectIncident(i)
  \/ \E o \in Overlays : ToggleOverlay(o)

MapClientSpec == MapClientInit /\ [][MapClientNext]_mapVars

\* With no request under way a view shows what its filter, period or viewport asks
\* for, unless the last request failed or, on the map, was overtaken by an older one
\* (useIncidents.ts:12-33, TimelineSlider.tsx:52-65, ClusterLayer.tsx:77-127).
ViewsShowTheirQuery ==
  \A v \in Views : (\A a \in requested : a.view # v) /\ v \notin behind /\ shown[v] # {}
    => shown[v] = {wanted[v]} \/ v \in OnTheMap \ layered

\* A layer is drawn as the panel shows it, but for those that differed when the map
\* was loaded and were not touched since (mapStore.ts:100-112, useMapLayers.ts:58-301).
LayersFollowThePanel ==
  mapLoaded => \A l \in Layers \ lost : l \in drawn <=> l \in layerVisibility

\* An older forecast takes the place of a newer one only if two polls ran at once
\* (useRiskPredictions.ts:20-40).
ForecastsDoNotAge == riskShown = riskNewest \/ polled

\* The review panel lists only what can be decided, but for what others decided since
\* and what an answer older than the decision brought back (ReviewPanel.tsx:146-182).
ReviewIsOpen == listed \subseteq pending \cup decidedElsewhere \cup reappeared

\* The portal draws the overlays as they are ticked and shows the selected incident
\* as it is, but for what a new map or a reload undid (GisMapClient.tsx:55-73, 235-273).
PortalMapAgrees ==
  /\ portalMap = "loaded" => \A o \in Overlays \ overlaysLost : o \in overlaysDrawn <=> o \in overlays
  /\ selectedIncident # Nothing /\ ~reloaded
       => selectedIncident.version = liveIncidents[selectedIncident.id]

=============================================================================
