----------------------------- MODULE Lifecycles -----------------------------
(***************************************************************************)
(* The state machines of documents                                         *)
(* (src/apps/backend/src/modules/edms/entities/document.entity.ts) and of  *)
(* tasks (src/apps/backend/src/modules/tasks/entities/task.entity.ts), and *)
(* who may make which transition of a task                                 *)
(* (src/apps/backend/src/modules/tasks/services/tasks.service.ts); and the *)
(* command chain of a position, which supervisors are found in             *)
(* (src/apps/backend/src/modules/org/services/org.service.ts).             *)
(***************************************************************************)
EXTENDS Naturals, Sequences, FiniteSets

\* DocumentStatus.
DocumentStatuses ==
  {"draft", "registered", "in_workflow", "completed", "archived", "cancelled"}

\* DOCUMENT_TRANSITIONS.
Transitions(s) ==
  CASE s = "draft"       -> {"registered", "cancelled"}
    [] s = "registered"  -> {"in_workflow", "completed", "cancelled"}
    [] s = "in_workflow" -> {"completed", "registered", "cancelled"}
    [] s = "completed"   -> {"archived"}
    [] OTHER             -> {}

-----------------------------------------------------------------------------
TaskStatuses ==
  {"draft", "assigned", "accepted", "in_progress", "on_hold", "completed",
   "verified", "returned", "cannot_execute", "cancelled", "closed"}

TaskTransitions(s) ==
  CASE s = "draft" -> {"assigned", "cancelled"}
    [] s = "assigned" -> {"accepted", "in_progress", "cannot_execute", "cancelled"}
    [] s = "accepted" -> {"in_progress", "on_hold", "cannot_execute", "cancelled"}
    [] s = "in_progress" -> {"completed", "on_hold", "cannot_execute", "cancelled"}
    [] s = "on_hold" -> {"in_progress", "cancelled"}
    [] s = "completed" -> {"verified", "returned", "closed"}
    [] s = "verified" -> {"closed"}
    [] s = "returned" -> {"in_progress"}
    [] s = "cannot_execute" -> {"in_progress", "assigned", "cancelled"}
    [] s = "cancelled" -> {"closed"}
    [] OTHER -> {}

\* assertTransitionAuthority: the actor is the responsible executor, the
\* assigning authority, or found in the executor's command chain.
MayTransition(target, executor, authority, supervisor) ==
  CASE target \in {"accepted", "completed", "cannot_execute"} -> executor
    [] target \in {"in_progress", "on_hold"} -> executor \/ supervisor
    [] OTHER -> authority \/ supervisor

\* propagateToParent: a subtask is done, or keeps its parent from going on.
DoneStatuses == {"completed", "verified", "cancelled", "closed"}

BlockingStatuses == {"on_hold", "cannot_execute"}

\* ACTIVE_STATUSES of the scheduler.
ActiveStatuses == {"assigned", "accepted", "in_progress", "on_hold", "cannot_execute"}

-----------------------------------------------------------------------------
\* The command chain of a position: the position itself, then each superior up to
\* the top.  reportsTo maps a position to its superior, or to None at the top.

\* The walk of getCommandChain: at most one step per position when nobody is
\* his own superior.
ChainOf(reportsTo, None, p) ==
  LET walk[n \in Nat] ==
        IF n = 0 THEN <<p>>
        ELSE LET chain == walk[n - 1]
                 superior == reportsTo[chain[Len(chain)]]
             IN  IF superior = None THEN chain ELSE Append(chain, superior)
  IN  walk[Cardinality(DOMAIN reportsTo)]

\* isSubordinateTo: the chain starts with the position itself, so everyone is
\* found in his own chain.
Subordinate(reportsTo, None, p, q) ==
  \E i \in DOMAIN ChainOf(reportsTo, None, p) : ChainOf(reportsTo, None, p)[i] = q

=============================================================================
