------------------------------- MODULE OneShot -------------------------------
(***************************************************************************)
(* What every persisted decision of the system promises: an item is open   *)
(* until it gets one outcome, and that outcome is final.  A human          *)
(* interaction (answered, expired or cancelled), an execution unit of a    *)
(* scan (completed, failed or cancelled), a scan and a background job are  *)
(* all items of this kind; the modules that model them are shown to        *)
(* implement this one.                                                     *)
(***************************************************************************)
CONSTANTS
  Items,
  Outcomes,
  Open          \* the item has no outcome yet

VARIABLE outcome

Init == outcome = [i \in Items |-> Open]

\* Items may be decided together (cancelling a scan cancels its units).
Next ==
  /\ outcome' \in [Items -> Outcomes \cup {Open}]
  /\ \A i \in Items : outcome[i] # Open => outcome'[i] = outcome[i]

Spec == Init /\ [][Next]_outcome
=============================================================================
