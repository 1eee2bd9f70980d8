----------------------------- MODULE MlService ------------------------------
(***************************************************************************)
(* The versions of a model and the predictions made with them              *)
(* (src/apps/backend/src/modules/ml/services/ml.service.ts).  The two      *)
(* share no state: each has its own Init, Next and Spec.                   *)
(***************************************************************************)
EXTENDS Naturals, FiniteSets, FiniteSetsExt

(***************************************************************************)
(* The versions of one model: registration, promotion and rollback         *)
(* (src/apps/backend/src/modules/ml/services/ml.service.ts).               *)
(*                                                                         *)
(* No transaction surrounds the statements of a promotion or a rollback    *)
(* and no index keeps a second version out of production.  Versions are    *)
(* numbered in the order of their creation.                                *)
(*                                                                         *)
(* overlapped: a call wrote after another had changed the versions.        *)
(* lost: the ways in which the model has lost its version in production.   *)
(***************************************************************************)

CONSTANTS
  RegistryCalls,      \* calls that run at the same time
  MaxModelVersions,   \* bound: versions registered
  MaxRegistryCrashes  \* bound: crashes of the backend

ASSUME ModelRegistryAssumption == MaxModelVersions \in Nat \ {0} /\ MaxRegistryCrashes \in Nat

VersionStatuses == {"training", "staging", "production", "archived", "failed"}
ModelVersions == 1..MaxModelVersions
LossKinds == {"withdrawn", "no_fallback", "unrestored", "cut"}

\* ml.ml_model_versions: "none" is a version that is not registered yet.
VersionTables == [ModelVersions -> VersionStatuses \cup {"none"}]

VARIABLES versions, registryCall, overlapped, lost, hadProduction, registryCrashes

registryVars == <<versions, registryCall, overlapped, lost, hadProduction, registryCrashes>>

RegistryPcs == {"idle", "demoting", "promoting", "rolling", "rolled", "restoring"}
RegistryCallStates ==
  [pc: RegistryPcs, v: ModelVersions, to: VersionStatuses, seen: VersionTables]
FreeRegistryCall ==
  [pc |-> "idle", v |-> 1, to |-> "training", seen |-> [v \in ModelVersions |-> "none"]]

\* Versions are numbered without gaps.
ModelRegistryTypeOK ==
  /\ versions \in VersionTables
  /\ \A v \in ModelVersions : v > 1 /\ versions[v] # "none" => versions[v - 1] # "none"
  /\ registryCall \in [RegistryCalls -> RegistryCallStates]
  /\ overlapped \in BOOLEAN /\ hadProduction \in BOOLEAN
  /\ lost \subseteq LossKinds
  /\ registryCrashes \in 0..MaxRegistryCrashes

ModelRegistryInit ==
  /\ versions = [v \in ModelVersions |-> "none"]
  /\ registryCall = [c \in RegistryCalls |-> FreeRegistryCall]
  /\ overlapped = FALSE /\ lost = {} /\ hadProduction = FALSE /\ registryCrashes = 0

VersionsIn(table, status) == {v \in ModelVersions : table[v] = status}
SetRegistryCall(c, state) == registryCall' = [registryCall EXCEPT ![c] = state]

\* Bound: once two calls overlapped those under way finish and no other begins.
MayCallRegistry(c) == registryCall[c].pc = "idle" /\ ~overlapped

\* One write of a call: the table it leaves, and whether it had changed.
WriteVersions(c, table) ==
  /\ versions' = table
  /\ overlapped' = (overlapped \/ versions # registryCall[c].seen)
  /\ hadProduction' = (hadProduction \/ VersionsIn(table, "production") # {})

-----------------------------------------------------------------------------
\* registerVersion: the unique (model_id, version) refuses a second one.
RegisterVersion ==
  \E v \in ModelVersions :
    /\ versions[v] = "none"
    /\ \A w \in 1..(v - 1) : versions[w] # "none"
    /\ versions' = [versions EXCEPT ![v] = "training"]
    /\ UNCHANGED <<registryCall, overlapped, lost, hadProduction, registryCrashes>>

\* promoteVersion: any status may be asked for, of any version.
PromoteVersion(c, v, to) ==
  /\ MayCallRegistry(c) /\ versions[v] # "none"
  /\ SetRegistryCall(c, [pc |-> IF to = "production" THEN "demoting" ELSE "promoting",
                         v |-> v, to |-> to, seen |-> versions])
  /\ UNCHANGED <<versions, overlapped, lost, hadProduction, registryCrashes>>

\* UPDATE ... WHERE status = 'production'.
Demoted(table, v) == [w \in ModelVersions |-> IF table[w] = "production" THEN "archived" ELSE table[w]]

DemoteProduction(c) ==
  LET call == registryCall[c]
  IN  /\ call.pc = "demoting"
      /\ WriteVersions(c, Demoted(versions, call.v))
      /\ SetRegistryCall(c, [call EXCEPT !.pc = "promoting", !.seen = Demoted(versions, call.v)])
      /\ UNCHANGED <<lost, registryCrashes>>

\* save(version)
Promoted(table, v, to) == [table EXCEPT ![v] = to]

SavePromotion(c) ==
  LET call == registryCall[c]
  IN  /\ call.pc = "promoting"
      /\ WriteVersions(c, Promoted(versions, call.v, call.to))
      /\ lost' = IF versions[call.v] = "production" /\ call.to # "production" THEN lost \cup {"withdrawn"} ELSE lost
      /\ SetRegistryCall(c, FreeRegistryCall)
      /\ UNCHANGED registryCrashes

-----------------------------------------------------------------------------
\* rollbackVersion: only a version in production; it goes back to STAGING.
RollbackVersion(c, v) ==
  /\ MayCallRegistry(c) /\ versions[v] = "production"
  /\ SetRegistryCall(c, [pc |-> "rolling", v |-> v, to |-> "staging", seen |-> versions])
  /\ UNCHANGED <<versions, overlapped, lost, hadProduction, registryCrashes>>

SaveRollback(c) ==
  LET call == registryCall[c]
      table == Promoted(versions, call.v, "staging")
  IN  /\ call.pc = "rolling"
      /\ WriteVersions(c, table)
      /\ SetRegistryCall(c, [call EXCEPT !.pc = "rolled", !.seen = Promoted(call.seen, call.v, "staging")])
      /\ UNCHANGED <<lost, registryCrashes>>

\* The newest version in STAGING, the one just rolled back among them; when
\* it is that one nothing is promoted.
NewestStaging(table) == Max(VersionsIn(table, "staging"))

FindPreviousStaging(c) ==
  LET call == registryCall[c]
      found == VersionsIn(versions, "staging") # {}
      previous == NewestStaging(versions)
  IN  /\ call.pc = "rolled"
      /\ IF found /\ previous # call.v
           THEN /\ SetRegistryCall(c, [call EXCEPT !.pc = "restoring", !.v = previous, !.to = "production"])
                /\ UNCHANGED lost
           ELSE /\ SetRegistryCall(c, FreeRegistryCall)
                /\ lost' = lost \cup {IF VersionsIn(versions, "staging") \subseteq {call.v}
                                        THEN "no_fallback" ELSE "unrestored"}
      /\ overlapped' = (overlapped \/ versions # call.seen)
      /\ UNCHANGED <<versions, hadProduction, registryCrashes>>

RestorePrevious(c) ==
  LET call == registryCall[c]
  IN  /\ call.pc = "restoring"
      /\ WriteVersions(c, Promoted(versions, call.v, "production"))
      /\ SetRegistryCall(c, FreeRegistryCall)
      /\ UNCHANGED <<lost, registryCrashes>>

\* The process stops between two statements of a call.
CrashOfRegistry ==
  /\ registryCrashes < MaxRegistryCrashes
  /\ \E c \in RegistryCalls : registryCall[c].pc # "idle"
  /\ registryCrashes' = registryCrashes + 1
  /\ lost' = lost \cup {"cut"}
  /\ registryCall' = [c \in RegistryCalls |-> FreeRegistryCall]
  /\ UNCHANGED <<versions, overlapped, hadProduction>>

ModelRegistryNext ==
  \/ RegisterVersion
  \/ \E c \in RegistryCalls :
       \/ \E v \in ModelVersions :
            (\E to \in {"staging", "production", "archived"} : PromoteVersion(c, v, to)) \/ RollbackVersion(c, v)
       \/ DemoteProduction(c) \/ SavePromotion(c)
       \/ SaveRollback(c) \/ FindPreviousStaging(c) \/ RestorePrevious(c)
  \/ CrashOfRegistry

ModelRegistrySpec == ModelRegistryInit /\ [][ModelRegistryNext]_registryVars

-----------------------------------------------------------------------------
\* At most one version of a model is in production (ml.service.ts:121-128),
\* unless promotions or rollbacks overlapped.
OneProduction == Cardinality(VersionsIn(versions, "production")) <= 1 \/ overlapped

\* A model that had a version in production has one between calls
\* (ml.service.ts:109-143, 158-201), unless calls overlapped or it was lost
\* in one of the ways listed: taken away by a promotion to another status,
\* rolled back with nothing to restore or without restoring it, or a crash.
ProductionIsKept ==
  (hadProduction /\ \A c \in RegistryCalls : registryCall[c].pc = "idle")
    => VersionsIn(versions, "production") # {} \/ overlapped \/ lost # {}

\* What a rollback brings into production was in staging
\* (ml.service.ts:177-191): never a version that nobody promoted that far.
RestoredWasStaged ==
  [][\A c \in RegistryCalls :
       registryCall[c].pc = "restoring" /\ registryCall'[c].pc = "idle" /\ registryCrashes' = registryCrashes
         => versions[registryCall[c].v] = "staging" \/ overlapped']_registryVars

-----------------------------------------------------------------------------
(***************************************************************************)
(* The predictions of the models between their review, their publication   *)
(* and their expiry                                                        *)
(* (src/apps/backend/src/modules/ml/services/ml.service.ts).               *)
(*                                                                         *)
(* A review loads a prediction and saves it later; a publication reads the *)
(* approved predictions and then updates them by their ids, whatever they  *)
(* have become; the hourly expiry is one statement.                        *)
(*                                                                         *)
(* mixed: a prediction was written that had changed since it was read.     *)
(***************************************************************************)

CONSTANTS
  Predictions,     \* predictions of a batch
  PredictionCalls  \* calls that run at the same time

PredictionStatuses == {"pending", "approved", "rejected", "published", "expired"}

VARIABLES
  prediction,      \* prediction -> its status, "none" before the batch arrives
  outdated,        \* predictions whose valid_until has passed
  predictionCall,  \* call -> where it is
  approvedOnce,    \* predictions that a review approved
  publications,    \* prediction -> number of events ml.predictions.published it was part of
  mixed

predictionVars == <<prediction, outdated, predictionCall, approvedOnce, publications, mixed>>

PredictionCallStates ==
  [pc: {"idle", "reviewing", "publishing"}, ids: SUBSET Predictions, to: {"approved", "rejected"}]
FreePredictionCall == [pc |-> "idle", ids |-> {}, to |-> "approved"]

RiskPredictionsTypeOK ==
  /\ prediction \in [Predictions -> PredictionStatuses \cup {"none"}]
  /\ \A p \in Predictions : prediction[p] = "none" => publications[p] = 0 /\ p \notin approvedOnce
  /\ outdated \subseteq Predictions /\ approvedOnce \subseteq Predictions
  /\ predictionCall \in [PredictionCalls -> PredictionCallStates]
  /\ publications \in [Predictions -> 0..Cardinality(PredictionCalls)]
  /\ mixed \in BOOLEAN

RiskPredictionsInit ==
  /\ prediction = [p \in Predictions |-> "none"]
  /\ outdated = {} /\ approvedOnce = {} /\ mixed = FALSE
  /\ predictionCall = [c \in PredictionCalls |-> FreePredictionCall]
  /\ publications = [p \in Predictions |-> 0]

\* Bound: once a stale prediction was written the calls under way finish and no other begins.
MayCallPredictions(c) == predictionCall[c].pc = "idle" /\ ~mixed

-----------------------------------------------------------------------------
\* createPrediction and batchCreatePredictions.
CreatePredictions(batch) ==
  /\ batch # {} /\ \A p \in batch : prediction[p] = "none"
  /\ prediction' = [p \in Predictions |-> IF p \in batch THEN "pending" ELSE prediction[p]]
  /\ UNCHANGED <<outdated, predictionCall, approvedOnce, publications, mixed>>

\* valid_until passes.
Outdate(p) ==
  /\ prediction[p] # "none" /\ p \notin outdated
  /\ outdated' = outdated \cup {p}
  /\ UNCHANGED <<prediction, predictionCall, approvedOnce, publications, mixed>>

\* reviewPrediction: of a pending prediction, outdated or not ...
Reviewable(p) == prediction[p] = "pending"

ReviewPrediction(c, p, to) ==
  /\ MayCallPredictions(c) /\ Reviewable(p)
  /\ predictionCall' = [predictionCall EXCEPT ![c] = [pc |-> "reviewing", ids |-> {p}, to |-> to]]
  /\ UNCHANGED <<prediction, outdated, approvedOnce, publications, mixed>>

\* ... and save.
SaveReview(c) ==
  LET call == predictionCall[c]
  IN  /\ call.pc = "reviewing"
      /\ prediction' = [p \in Predictions |-> IF p \in call.ids THEN call.to ELSE prediction[p]]
      /\ mixed' = (mixed \/ \E p \in call.ids : prediction[p] # "pending")
      /\ approvedOnce' = IF call.to = "approved" THEN approvedOnce \cup call.ids ELSE approvedOnce
      /\ predictionCall' = [predictionCall EXCEPT ![c] = FreePredictionCall]
      /\ UNCHANGED <<outdated, publications>>

\* publishApprovedPredictions: find the approved ones ...
ToPublishAgain == {p \in Predictions : prediction[p] \in {"approved", "published"}}
ToPublish == {p \in Predictions : prediction[p] = "approved"}

CollectApproved(c) ==
  /\ MayCallPredictions(c) /\ ToPublish # {}
  /\ predictionCall' = [predictionCall EXCEPT ![c] = [FreePredictionCall EXCEPT !.pc = "publishing", !.ids = ToPublish]]
  /\ UNCHANGED <<prediction, outdated, approvedOnce, publications, mixed>>

\* ... update them by their ids, and emit the event that drafts a layer.
PublishCollected(c) ==
  LET call == predictionCall[c]
  IN  /\ call.pc = "publishing"
      /\ prediction' = [p \in Predictions |-> IF p \in call.ids THEN "published" ELSE prediction[p]]
      /\ publications' = [p \in Predictions |-> publications[p] + (IF p \in call.ids THEN 1 ELSE 0)]
      /\ mixed' = (mixed \/ ~(call.ids \subseteq ToPublish))
      /\ predictionCall' = [predictionCall EXCEPT ![c] = FreePredictionCall]
      /\ UNCHANGED <<outdated, approvedOnce>>

\* expireStalePredictons, every hour.
Expiring == {p \in outdated : prediction[p] \in {"pending", "approved"}}

ExpireStale ==
  /\ Expiring # {}
  /\ prediction' = [p \in Predictions |-> IF p \in Expiring THEN "expired" ELSE prediction[p]]
  /\ UNCHANGED <<outdated, predictionCall, approvedOnce, publications, mixed>>

RiskPredictionsNext ==
  \/ \E batch \in SUBSET Predictions : CreatePredictions(batch)
  \/ \E p \in Predictions : Outdate(p)
  \/ \E c \in PredictionCalls :
       \/ \E p \in Predictions, to \in {"approved", "rejected"} : ReviewPrediction(c, p, to)
       \/ SaveReview(c) \/ CollectApproved(c) \/ PublishCollected(c)
  \/ ExpireStale

RiskPredictionsSpec == RiskPredictionsInit /\ [][RiskPredictionsNext]_predictionVars /\ WF_predictionVars(ExpireStale)

-----------------------------------------------------------------------------
\* A prediction is published only after a review approved it
\* (ml.service.ts:331-347), even when publications and reviews overlap.
PublishedWasApproved == \A p \in Predictions : prediction[p] = "published" => p \in approvedOnce

\* A prediction goes out once (ml.service.ts:331-367), unless calls overlapped.
PublishedOnce == \A p \in Predictions : publications[p] > 1 => mixed

\* A rejection stands and a published prediction is not withdrawn
\* (ml.service.ts:300-317, 503-520), unless calls overlapped.
DecisionStands ==
  [][\A p \in Predictions : prediction[p] \in {"rejected", "published"} => prediction'[p] = prediction[p] \/ mixed']_predictionVars
=============================================================================
