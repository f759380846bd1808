---------------------------- MODULE Capabilities ----------------------------
(* The capability services of one process side by side.  They share no       *)
(* state and call each other only through the workflows, so a run of all of  *)
(* them is, for each, a run of its own: here the service that runs is chosen *)
(* in the first state, and the others stand still.                           *)
EXTENDS Plans, Reminders, Watchlists, Scans, ModelCalls, NodeRuns, ToolCalls, MarketEvidence

VARIABLE service
vars == <<service, planVars, reminderVars, watchlistVars, scanVars, modelVars, nodeVars,
          toolVars, evidenceVars>>

Services == {"plans", "reminders", "watchlists", "scans", "models", "nodes", "tools", "evidence"}

Init ==
  /\ service \in Services
  /\ PlansInit /\ RemindersInit /\ WatchlistsInit /\ ScansInit
  /\ ModelCallsInit /\ NodeRunsInit /\ ToolCallsInit /\ MarketEvidenceInit

Next ==
  /\ UNCHANGED service
  /\ \/ /\ service = "plans" /\ PlansNext
        /\ UNCHANGED <<reminderVars, watchlistVars, scanVars, modelVars,
                       nodeVars, toolVars, evidenceVars>>
     \/ /\ service = "reminders" /\ RemindersNext
        /\ UNCHANGED <<planVars, watchlistVars, scanVars, modelVars,
                       nodeVars, toolVars, evidenceVars>>
     \/ /\ service = "watchlists" /\ WatchlistsNext
        /\ UNCHANGED <<planVars, reminderVars, scanVars, modelVars,
                       nodeVars, toolVars, evidenceVars>>
     \/ /\ service = "scans" /\ ScansNext
        /\ UNCHANGED <<planVars, reminderVars, watchlistVars, modelVars,
                       nodeVars, toolVars, evidenceVars>>
     \/ /\ service = "models" /\ ModelCallsNext
        /\ UNCHANGED <<planVars, reminderVars, watchlistVars, scanVars,
                       nodeVars, toolVars, evidenceVars>>
     \/ /\ service = "nodes" /\ NodeRunsNext
        /\ UNCHANGED <<planVars, reminderVars, watchlistVars, scanVars,
                       modelVars, toolVars, evidenceVars>>
     \/ /\ service = "tools" /\ ToolCallsNext
        /\ UNCHANGED <<planVars, reminderVars, watchlistVars, scanVars,
                       modelVars, nodeVars, evidenceVars>>
     \/ /\ service = "evidence" /\ MarketEvidenceNext
        /\ UNCHANGED <<planVars, reminderVars, watchlistVars, scanVars,
                       modelVars, nodeVars, toolVars>>

Spec == Init /\ [][Next]_vars

(* The tables of every service have their types.                             *)
CapabilitiesTypeOK ==
  /\ PlansTypeOK /\ RemindersTypeOK /\ WatchlistsTypeOK /\ ScansTypeOK
  /\ ModelCallsTypeOK /\ NodeRunsTypeOK /\ ToolCallsTypeOK /\ MarketEvidenceTypeOK
=============================================================================
