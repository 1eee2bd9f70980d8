----------------------------- MODULE Incidents ------------------------------
(***************************************************************************)
(* One emergency incident in its two registries: the location row of the   *)
(* GIS (src/apps/backend/src/modules/gis/services/gis.service.ts) and the  *)
(* analytical record (src/apps/backend/src/modules/analytics/services/     *)
(* analytics.service.ts), joined by in-process events                      *)
(* (analytics/listeners/analytics-domain.listener.ts).                     *)
(*                                                                         *)
(* A call that emits an event goes on as the handler of that event; a call *)
(* that updates a row loads it and saves the whole of it later.            *)
(*                                                                         *)
(* rowOvertaken: a row changed between a call's reading and its saving.    *)
(* missed: a handler found no record to work on, or a crash took it.       *)
(***************************************************************************)
EXTENDS Naturals, FiniteSets

CONSTANTS
  IncidentCalls,       \* calls that run at the same time
  UpdateStatuses,      \* statuses that updateIncident is asked for
  MaxIncidentCrashes   \* bound: crashes of the backend

IncidentStatuses == {"open", "responding", "contained", "resolved", "closed", "cancelled"}
StampedStatuses == {"responding", "contained", "resolved", "closed"}
WorkingStatuses == {"responding", "contained"}
FinishedStatuses == {"resolved", "closed", "cancelled"}

ASSUME IncidentsAssumption == UpdateStatuses \subseteq IncidentStatuses /\ MaxIncidentCrashes \in Nat

\* gis.incident_locations: what was recorded of the location.
GisFacts == {"reported", "enriched", "verified", "resolved"}

\* analytics.incidents: stamps are the time columns that are set.
IncidentRows == [status: IncidentStatuses \cup {"none"}, stamps: SUBSET StampedStatuses]
NoIncident == [status |-> "none", stamps |-> {}]

VARIABLES
  location,         \* facts recorded in the row of the GIS, {} before it exists
  incident,         \* the row of the analytics, NoIncident before it exists
  incidentCall,     \* call -> where it is
  resolvedEvents,   \* number of gis.incident.resolved events
  rowOvertaken, missed, incidentCrashes

incidentVars == <<location, incident, incidentCall, resolvedEvents, rowOvertaken, missed, incidentCrashes>>

IncidentPcs == {"idle", "verifying", "resolving", "registering", "absent", "resolved_emitted",
                "updating", "loaded"}
IncidentCallStates ==
  [pc: IncidentPcs, gis: SUBSET GisFacts, copy: IncidentRows, to: IncidentStatuses \cup {"kept"}, auto: BOOLEAN]
FreeIncidentCall == [pc |-> "idle", gis |-> {}, copy |-> NoIncident, to |-> "kept", auto |-> FALSE]

\* A status that has a time column never stands without its time.
IncidentsTypeOK ==
  /\ location \subseteq GisFacts
  /\ location # {} => "reported" \in location
  /\ incident \in IncidentRows
  /\ incident.status \in StampedStatuses => incident.status \in incident.stamps
  /\ incidentCall \in [IncidentCalls -> IncidentCallStates]
  /\ resolvedEvents \in Nat
  /\ rowOvertaken \in BOOLEAN /\ missed \in BOOLEAN
  /\ incidentCrashes \in 0..MaxIncidentCrashes

IncidentsInit ==
  /\ location = {} /\ incident = NoIncident
  /\ incidentCall = [c \in IncidentCalls |-> FreeIncidentCall]
  /\ resolvedEvents = 0 /\ rowOvertaken = FALSE /\ missed = FALSE /\ incidentCrashes = 0

Registered == incident # NoIncident
SetIncidentCall(c, state) == incidentCall' = [incidentCall EXCEPT ![c] = state]
FreeIncident(c) == SetIncidentCall(c, FreeIncidentCall)

\* Bound: once a row was rowOvertaken the calls under way finish and no other begins.
MayBegin(c) == incidentCall[c].pc = "idle" /\ ~rowOvertaken

-----------------------------------------------------------------------------
\* reportIncident: the row, then the event whose handler registers the incident.
ReportIncident(c) ==
  /\ MayBegin(c) /\ location = {}
  /\ location' = {"reported"}
  /\ SetIncidentCall(c, [FreeIncidentCall EXCEPT !.pc = "registering", !.auto = TRUE])
  /\ UNCHANGED <<incident, resolvedEvents, rowOvertaken, missed, incidentCrashes>>

\* enrichIncidentLocation, in a later tick; a failure is only logged.
EnrichIncident ==
  /\ location # {} /\ "enriched" \notin location
  /\ location' = location \cup {"enriched"}
  /\ UNCHANGED <<incident, incidentCall, resolvedEvents, rowOvertaken, missed, incidentCrashes>>

\* verifyIncident and resolveIncident: load, refuse what is done already ...
MayRecord(fact) == fact \notin location

LoadLocation(c, pc, fact) ==
  /\ MayBegin(c) /\ location # {} /\ MayRecord(fact)
  /\ SetIncidentCall(c, [FreeIncidentCall EXCEPT !.pc = pc, !.gis = location])
  /\ UNCHANGED <<location, incident, resolvedEvents, rowOvertaken, missed, incidentCrashes>>

VerifyIncidentLoad(c) == LoadLocation(c, "verifying", "verified")
ResolveIncidentLoad(c) == LoadLocation(c, "resolving", "resolved")

\* ... and save the row that was loaded.
RecordedOnly(facts, fact) == {"reported", fact}
Recorded(facts, fact) == facts \cup {fact}

VerifyIncidentSave(c) ==
  /\ incidentCall[c].pc = "verifying"
  /\ location' = Recorded(incidentCall[c].gis, "verified")
  /\ rowOvertaken' = (rowOvertaken \/ location # incidentCall[c].gis)
  /\ FreeIncident(c)
  /\ UNCHANGED <<incident, resolvedEvents, missed, incidentCrashes>>

ResolveIncidentSave(c) ==
  /\ incidentCall[c].pc = "resolving"
  /\ location' = Recorded(incidentCall[c].gis, "resolved")
  /\ rowOvertaken' = (rowOvertaken \/ location # incidentCall[c].gis)
  /\ resolvedEvents' = resolvedEvents + 1
  /\ SetIncidentCall(c, [FreeIncidentCall EXCEPT !.pc = "resolved_emitted", !.auto = TRUE])
  /\ UNCHANGED <<incident, missed, incidentCrashes>>

-----------------------------------------------------------------------------
\* registerIncident, called by the handler or by a user: look, then insert.
RegisterIncident(c) ==
  /\ MayBegin(c)
  /\ SetIncidentCall(c, [FreeIncidentCall EXCEPT !.pc = "registering"])
  /\ UNCHANGED <<location, incident, resolvedEvents, rowOvertaken, missed, incidentCrashes>>

FindRegistered(c) ==
  /\ incidentCall[c].pc = "registering"
  /\ SetIncidentCall(c, IF Registered THEN FreeIncidentCall ELSE [incidentCall[c] EXCEPT !.pc = "absent"])
  /\ UNCHANGED <<location, incident, resolvedEvents, rowOvertaken, missed, incidentCrashes>>

\* The unique incident_ref refuses a second row; the handler logs it.
InsertIncident(c) ==
  /\ incidentCall[c].pc = "absent"
  /\ incident' = IF Registered THEN incident ELSE [status |-> "open", stamps |-> {}]
  /\ FreeIncident(c)
  /\ UNCHANGED <<location, resolvedEvents, rowOvertaken, missed, incidentCrashes>>

\* onGisIncidentResolved: getIncidentByRef, and nothing to do for some statuses.
NothingToResolve(status) == status \in {"resolved", "closed"}

OnGisIncidentResolved(c) ==
  /\ incidentCall[c].pc = "resolved_emitted"
  /\ IF Registered /\ ~NothingToResolve(incident.status)
       THEN SetIncidentCall(c, [incidentCall[c] EXCEPT !.pc = "updating", !.to = "resolved", !.copy = incident])
       ELSE FreeIncident(c)
  /\ missed' = (missed \/ ~Registered)
  /\ UNCHANGED <<location, incident, resolvedEvents, rowOvertaken, incidentCrashes>>

\* recordResponse: the response is stored, and an open incident moves on.
AutoStatusDue(status) == status = "open"

RecordResponse(c, to) ==
  /\ MayBegin(c) /\ Registered
  /\ AutoStatusDue(incident.status)
  /\ SetIncidentCall(c, [FreeIncidentCall EXCEPT !.pc = "updating", !.to = to, !.auto = TRUE, !.copy = incident])
  /\ UNCHANGED <<location, incident, resolvedEvents, rowOvertaken, missed, incidentCrashes>>

-----------------------------------------------------------------------------
\* updateIncident: any status may follow any other; "kept" changes other columns.
UpdateIncident(c, to) ==
  /\ MayBegin(c) /\ Registered
  /\ SetIncidentCall(c, [FreeIncidentCall EXCEPT !.pc = "updating", !.to = to])
  /\ UNCHANGED <<location, incident, resolvedEvents, rowOvertaken, missed, incidentCrashes>>

UpdateIncidentLoad(c) ==
  LET call == incidentCall[c]
  IN  /\ call.pc = "updating"
      /\ rowOvertaken' = (rowOvertaken \/ (call.copy # NoIncident /\ call.copy # incident))
      /\ SetIncidentCall(c, [call EXCEPT !.pc = "loaded", !.copy = incident])
      /\ UNCHANGED <<location, incident, resolvedEvents, missed, incidentCrashes>>

\* The time of a status is set the first time the status is reached.
Updated(row, to) ==
  IF to = "kept" THEN row
  ELSE [status |-> to, stamps |-> row.stamps \cup ({to} \cap StampedStatuses)]

UpdateIncidentSave(c) ==
  LET call == incidentCall[c]
  IN  /\ call.pc = "loaded"
      /\ incident' = Updated(call.copy, call.to)
      /\ rowOvertaken' = (rowOvertaken \/ incident # call.copy)
      /\ FreeIncident(c)
      /\ UNCHANGED <<location, resolvedEvents, missed, incidentCrashes>>

\* The process stops: the handlers that were under way are gone.
CrashOfIncidents ==
  /\ incidentCrashes < MaxIncidentCrashes
  /\ incidentCrashes' = incidentCrashes + 1
  /\ missed' = (missed \/ \E c \in IncidentCalls : incidentCall[c].auto)
  /\ incidentCall' = [c \in IncidentCalls |-> FreeIncidentCall]
  /\ UNCHANGED <<location, incident, resolvedEvents, rowOvertaken>>

\* What a handler, once started, goes on doing by itself.
IncidentHandlerStep(c) ==
  FindRegistered(c) \/ InsertIncident(c) \/ OnGisIncidentResolved(c) \/ UpdateIncidentLoad(c) \/ UpdateIncidentSave(c)

IncidentsNext ==
  \/ \E c \in IncidentCalls :
       \/ ReportIncident(c) \/ VerifyIncidentLoad(c) \/ VerifyIncidentSave(c)
       \/ ResolveIncidentLoad(c) \/ ResolveIncidentSave(c)
       \/ RegisterIncident(c) \/ FindRegistered(c) \/ InsertIncident(c)
       \/ OnGisIncidentResolved(c)
       \/ \E to \in WorkingStatuses : RecordResponse(c, to)
       \/ \E to \in UpdateStatuses \cup {"kept"} : UpdateIncident(c, to)
       \/ UpdateIncidentLoad(c) \/ UpdateIncidentSave(c)
  \/ EnrichIncident
  \/ CrashOfIncidents

IncidentsSpec ==
  IncidentsInit /\ [][IncidentsNext]_incidentVars /\ \A c \in IncidentCalls : WF_incidentVars(IncidentHandlerStep(c))

-----------------------------------------------------------------------------
\* What was recorded of an incident (enriched, verified, resolved, the times
\* of the response) is never taken back (gis.service.ts:621-672,
\* analytics.service.ts:121-170), unless a row was saved over a newer one.
RecordedFactsStay ==
  [][rowOvertaken' \/ (location \subseteq location' /\ incident.stamps \subseteq incident'.stamps)]_incidentVars

\* Only a person takes a finished incident back to work: the automatic
\* transition of recordResponse leaves it alone (analytics.service.ts:226-234),
\* unless it was overtaken between its check and its update.
OnlyPeopleReopen ==
  [][(incident.status \in FinishedStatuses /\ incident'.status \in WorkingStatuses) =>
       \/ rowOvertaken'
       \/ \E c \in IncidentCalls : /\ incidentCall[c].pc = "loaded" /\ ~incidentCall[c].auto
                                   /\ incidentCall'[c].pc = "idle"]_incidentVars

\* An incident is resolved, and its event is emitted, once
\* (gis.service.ts:648-672), unless two calls overlapped.
ResolvedOnce == resolvedEvents > 1 => rowOvertaken

\* A reported incident gets its analytical record
\* (analytics-domain.listener.ts:30-57), unless a crash took the handler.
\* It must hold in the end, as the next one.
ReportIsRegistered == "reported" \in location => Registered \/ missed

\* Once the location was resolved, the analytical record has been resolved or
\* closed (analytics-domain.listener.ts:62-81), unless the handler came before
\* the record, was taken by a crash, or the row was overtaken.
ResolutionArrives ==
  "resolved" \in location => incident.stamps \cap {"resolved", "closed"} # {} \/ missed \/ rowOvertaken
=============================================================================
