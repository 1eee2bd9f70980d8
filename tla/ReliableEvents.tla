--------------------------- MODULE ReliableEvents ---------------------------
(***************************************************************************)
(* What the outbox and the inbox together promise to the domains: the      *)
(* effect of an event follows the change it announces, and it happens once *)
(* unless a failed attempt has been recorded for its key.                  *)
(***************************************************************************)
EXTENDS Naturals

CONSTANTS
  Events, \* announced changes
  Keys,   \* inbox message keys
  KeyOf   \* event -> the key its payload hashes to

VARIABLES
  changed, \* events whose business change is stored
  failed,  \* keys for which a failure has been recorded
  effects  \* key -> how often the handler has run to the end

vars == <<changed, failed, effects>>

Init ==
  /\ changed = {}
  /\ failed = {}
  /\ effects = [k \in Keys |-> 0]

Change(e) ==
  /\ changed' = changed \cup {e}
  /\ UNCHANGED <<failed, effects>>

Fail(k) ==
  /\ \E e \in changed : KeyOf[e] = k
  /\ failed' = failed \cup {k}
  /\ UNCHANGED <<changed, effects>>

Take(k) ==
  /\ \E e \in changed : KeyOf[e] = k
  /\ effects[k] = 0 \/ k \in failed
  /\ effects' = [effects EXCEPT ![k] = @ + 1]
  /\ UNCHANGED <<changed, failed>>

Next ==
  \/ \E e \in Events : Change(e)
  \/ \E k \in Keys : Fail(k) \/ Take(k)

Spec == Init /\ [][Next]_vars
=============================================================================
