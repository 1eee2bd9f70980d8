---------------------------- MODULE SpatialLayers ---------------------------
(***************************************************************************)
(* One layer of the GIS with its features, its cached count and extent,    *)
(* and the review of a layer generated by the models                       *)
(* (src/apps/backend/src/modules/gis/services/gis.service.ts and           *)
(* gis/listeners/gis-ml.listener.ts).                                      *)
(*                                                                         *)
(* The operations on the layer load the row and save the whole of it; the  *)
(* operations on features write their row, then the count, then the        *)
(* extent, each in a statement of its own.                                 *)
(*                                                                         *)
(* crossedLayer: a row was saved, or an extent written, that had changed   *)
(* since it was read.  endedAgain: a feature was deleted twice.            *)
(* publishedDirectly: publishLayer was used on a generated layer.          *)
(***************************************************************************)
EXTENDS Integers, FiniteSets

CONSTANTS
  LayerCalls,      \* calls that run at the same time
  MaxFeatures,     \* bound: features created
  MaxLayerCrashes  \* bound: crashes of the backend

ASSUME SpatialLayersAssumption == IsFiniteSet(LayerCalls) /\ MaxFeatures \in Nat /\ MaxLayerCrashes \in Nat

LayerStatuses == {"none", "draft", "active", "deprecated"}
Reviews == {"none", "approved", "rejected"}
Features == 1..MaxFeatures

\* gis.spatial_layers: isAiGenerated, the approver or the reason of the
\* rejection, the cached count and extent (as the features it was taken of).
LayerRows == [status: LayerStatuses, ai: BOOLEAN, review: Reviews, count: Int, extent: SUBSET Features]
NoLayer == [status |-> "none", ai |-> FALSE, review |-> "none", count |-> 0, extent |-> {}]

VARIABLES
  layer,     \* the row of the layer
  created,   \* features that have a row
  ended,     \* features whose valid_to has passed
  layerCall, \* call -> where it is
  crossedLayer, endedAgain, publishedDirectly, cutLayer, layerCrashes

layerVars == <<layer, created, ended, layerCall, crossedLayer, endedAgain, publishedDirectly, cutLayer, layerCrashes>>

LayerOps == {"update", "publish", "deprecate", "approve", "reject", "add", "remove"}
LayerPcs == {"idle", "loaded", "written", "counted", "measured"}
LayerCallStates == [pc: LayerPcs, op: LayerOps, copy: LayerRows, feature: Features \cup {0}, extent: SUBSET Features]
FreeLayerCall == [pc |-> "idle", op |-> "update", copy |-> NoLayer, feature |-> 0, extent |-> {}]

\* Only generated layers are reviewed; the extent is taken of rows that exist.
SpatialLayersTypeOK ==
  /\ layer \in LayerRows
  /\ layer.review # "none" => layer.ai
  /\ ended \subseteq created /\ created \subseteq Features
  /\ layer.extent \subseteq created
  /\ layerCall \in [LayerCalls -> LayerCallStates]
  /\ {crossedLayer, endedAgain, publishedDirectly, cutLayer} \subseteq BOOLEAN
  /\ layerCrashes \in 0..MaxLayerCrashes

SpatialLayersInit ==
  /\ layer = NoLayer /\ created = {} /\ ended = {}
  /\ layerCall = [c \in LayerCalls |-> FreeLayerCall]
  /\ crossedLayer = FALSE /\ endedAgain = FALSE /\ publishedDirectly = FALSE /\ cutLayer = FALSE
  /\ layerCrashes = 0

SetLayerCall(c, state) == layerCall' = [layerCall EXCEPT ![c] = state]
\* Bound: once a stale row was saved, or a crash left a call's statements undone,
\* the calls under way finish and no other begins.
MayCallLayer(c) == layerCall[c].pc = "idle" /\ ~crossedLayer /\ ~cutLayer

-----------------------------------------------------------------------------
\* createLayer by a user.
CreateLayer ==
  /\ layer = NoLayer
  /\ layer' = [NoLayer EXCEPT !.status = "draft"]
  /\ UNCHANGED <<created, ended, layerCall, crossedLayer, endedAgain, publishedDirectly, cutLayer, layerCrashes>>

\* createDraftRiskLayer, on ml.predictions.published: it waits for an analyst.
GeneratedStatus == "draft"

CreateDraftRiskLayer ==
  /\ layer = NoLayer
  /\ layer' = [NoLayer EXCEPT !.status = GeneratedStatus, !.ai = TRUE]
  /\ UNCHANGED <<created, ended, layerCall, crossedLayer, endedAgain, publishedDirectly, cutLayer, layerCrashes>>

-----------------------------------------------------------------------------
\* The guards of the operations on the layer, on the row that was loaded.
Admits(op, row) ==
  /\ op = "publish" => row.status # "active"
  /\ op \in {"approve", "reject"} => row.ai /\ row.status = "draft"

\* What they write: updateLayer touches other columns only.
Changed(op, row) ==
  CASE op = "publish" -> [row EXCEPT !.status = "active"]
    [] op = "deprecate" -> [row EXCEPT !.status = "deprecated"]
    [] op = "approve" -> [row EXCEPT !.status = "active", !.review = "approved"]
    [] op = "reject" -> [row EXCEPT !.status = "deprecated", !.review = "rejected"]
    [] OTHER -> row

\* updateLayer, publishLayer, deprecateLayer, approveAiLayer, rejectAiLayer: load ...
LoadLayer(c, op) ==
  /\ MayCallLayer(c) /\ layer # NoLayer /\ Admits(op, layer)
  /\ SetLayerCall(c, [FreeLayerCall EXCEPT !.pc = "loaded", !.op = op, !.copy = layer])
  /\ UNCHANGED <<layer, created, ended, crossedLayer, endedAgain, publishedDirectly, cutLayer, layerCrashes>>

\* ... and save the whole row.
SaveLayer(c) ==
  LET call == layerCall[c]
  IN  /\ call.pc = "loaded"
      /\ layer' = Changed(call.op, call.copy)
      /\ crossedLayer' = (crossedLayer \/ layer # call.copy)
      /\ publishedDirectly' = (publishedDirectly \/ (call.op = "publish" /\ call.copy.ai))
      /\ SetLayerCall(c, FreeLayerCall)
      /\ UNCHANGED <<created, ended, endedAgain, cutLayer, layerCrashes>>

-----------------------------------------------------------------------------
\* createFeature: the INSERT, once the layer was found.
CreateFeature(c) ==
  LET f == Cardinality(created) + 1
  IN  /\ MayCallLayer(c) /\ layer # NoLayer /\ f \in Features
      /\ created' = created \cup {f}
      /\ SetLayerCall(c, [FreeLayerCall EXCEPT !.pc = "written", !.op = "add", !.feature = f])
      /\ UNCHANGED <<layer, ended, crossedLayer, endedAgain, publishedDirectly, cutLayer, layerCrashes>>

\* deleteFeature: valid_to = NOW(), of any feature that has a row, even one
\* that has ended (bound: that once).
DeleteFeature(c, f) ==
  /\ MayCallLayer(c) /\ f \in created
  /\ f \in ended => ~endedAgain
  /\ ended' = ended \cup {f}
  /\ endedAgain' = (endedAgain \/ f \in ended)
  /\ SetLayerCall(c, [FreeLayerCall EXCEPT !.pc = "written", !.op = "remove", !.feature = f])
  /\ UNCHANGED <<layer, created, crossedLayer, publishedDirectly, cutLayer, layerCrashes>>

\* layerRepo.increment and decrement: one statement each.
Delta(op) == IF op = "add" THEN 1 ELSE -1

CountFeature(c) ==
  LET call == layerCall[c]
  IN  /\ call.pc = "written"
      /\ layer' = [layer EXCEPT !.count = @ + Delta(call.op)]
      /\ SetLayerCall(c, [call EXCEPT !.pc = "counted"])
      /\ UNCHANGED <<created, ended, crossedLayer, endedAgain, publishedDirectly, cutLayer, layerCrashes>>

\* refreshLayerExtent: ST_Extent over every row of the layer, ended or not ...
Measured(c) == created

MeasureExtent(c) ==
  /\ layerCall[c].pc = "counted"
  /\ SetLayerCall(c, [layerCall[c] EXCEPT !.pc = "measured", !.extent = Measured(c)])
  /\ UNCHANGED <<layer, created, ended, crossedLayer, endedAgain, publishedDirectly, cutLayer, layerCrashes>>

\* ... and an UPDATE of that column.
StoreExtent(c) ==
  LET call == layerCall[c]
  IN  /\ call.pc = "measured"
      /\ layer' = [layer EXCEPT !.extent = call.extent]
      /\ crossedLayer' = (crossedLayer \/ ~(layer.extent \subseteq call.extent))
      /\ SetLayerCall(c, FreeLayerCall)
      /\ UNCHANGED <<created, ended, endedAgain, publishedDirectly, cutLayer, layerCrashes>>

\* The process stops between two statements of a call.
CrashOfLayers ==
  /\ layerCrashes < MaxLayerCrashes
  /\ layerCrashes' = layerCrashes + 1
  /\ cutLayer' = (cutLayer \/ \E c \in LayerCalls : layerCall[c].pc \in {"written", "counted", "measured"})
  /\ layerCall' = [c \in LayerCalls |-> FreeLayerCall]
  /\ UNCHANGED <<layer, created, ended, crossedLayer, endedAgain, publishedDirectly>>

SpatialLayersNext ==
  \/ CreateLayer \/ CreateDraftRiskLayer
  \/ \E c \in LayerCalls :
       \/ \E op \in {"update", "publish", "deprecate", "approve", "reject"} : LoadLayer(c, op)
       \/ SaveLayer(c)
       \/ CreateFeature(c) \/ (\E f \in Features : DeleteFeature(c, f))
       \/ CountFeature(c) \/ MeasureExtent(c) \/ StoreExtent(c)
  \/ CrashOfLayers

SpatialLayersSpec == SpatialLayersInit /\ [][SpatialLayersNext]_layerVars

-----------------------------------------------------------------------------
LayersAtRest == \A c \in LayerCalls : layerCall[c].pc = "idle"

\* Between calls featureCount is the number of features in force
\* (gis.service.ts:235-236, 282-286), unless a stale row was saved over it, a
\* feature was deleted twice or a crash came between the two statements.
CountIsRight ==
  LayersAtRest => layer.count = Cardinality(created \ ended) \/ crossedLayer \/ endedAgain \/ cutLayer

\* Between calls the extent covers every feature (gis.service.ts:238-239,
\* 1026-1042), under the same exceptions.
ExtentCovers == LayersAtRest => layer.extent = created \/ crossedLayer \/ cutLayer

\* A generated layer is shown to operators only after an analyst approved it
\* (gis.service.ts:676-724), unless publishLayer was used on it, or a stale
\* row came back.
ShownWasApproved ==
  layer.ai /\ layer.status = "active" => layer.review = "approved" \/ publishedDirectly \/ crossedLayer

\* What an analyst rejected stays hidden, and what one approved is not
\* rejected afterwards (gis.service.ts:681-684, 731-734), under the same
\* exceptions.
ReviewIsFinal ==
  [][\/ layer.review = "none" \/ layer'.review = layer.review
     \/ crossedLayer' \/ publishedDirectly']_layerVars
=============================================================================
