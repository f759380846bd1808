----------------------------- MODULE MCResearch -----------------------------
(* Two workflows: one of an agent that is registered, one that is not.     *)
EXTENDS ResearchToPlan, TLC

MCAgentOf == [w \in Workflows |-> IF w = "research_to_plan" THEN "research" ELSE "unregistered"]
=============================================================================
