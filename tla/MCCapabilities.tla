--------------------------- MODULE MCCapabilities ---------------------------
(* A small instance of every capability service.                             *)
EXTENDS Capabilities, TLC

MCContents == {[security |-> "s1", filled |-> TRUE, text |-> "a"],
               [security |-> "s1", filled |-> TRUE, text |-> "b"],
               [security |-> "s2", filled |-> FALSE, text |-> "a"]}

(* A security twice in one import, or in two, makes a duplicate.            *)
MCParsedRows ==
  [security : Stocks, status : {"accepted"}]
    \cup [security : {NoStock}, status : {"accepted", "duplicate"}]

MCDrafts == {[rule |-> 2, complete |-> TRUE], [rule |-> 1, complete |-> FALSE]}

Input(inScope, usable, missing, value) ==
  [inScope |-> inScope, usable |-> usable, missing |-> missing, value |-> value]
MCInputs == {Input(TRUE, TRUE, 0, 1), Input(TRUE, TRUE, 0, 2), Input(TRUE, TRUE, 0, 3),
             Input(TRUE, TRUE, 1, 3), Input(TRUE, FALSE, 0, 0), Input(FALSE, TRUE, 2, 3)}

Candidate(model, quality, calibration) ==
  [model |-> model, task |-> "t", quality |-> quality, return |-> 2, calibration |-> calibration]
MCCandidates == {Candidate("m1", 2, 1), Candidate("m2", 3, 0), Candidate("m2", 1, 0)}

(* The first model prefers high values, the second one low ones.             *)
MCOutput == [p \in {"m1", "m2"} \X (1..3) |-> IF p[1] = "m1" THEN p[2] - 1 ELSE 4 - p[2]]
MCBaseline == [quality |-> 1, return |-> 1]

Call(tool, agent, user, claimed, key, approval, approved, content) ==
  [tool |-> tool, agent |-> agent, user |-> user, claimed |-> claimed, key |-> key,
   approval |-> approval, approved |-> approved, content |-> content]
MCToolRequests ==
  {Call("set_status", "planning", "u", claimed, "k", approval, approved, "a") :
      claimed \in {NoOwner, "v"}, approval, approved \in BOOLEAN}
  \cup {Call("create_reminder", "planning", "u", NoOwner, k, FALSE, FALSE, content) :
          k \in {"k", NoKey}, content \in {"a", "b", "malformed"}}
  \cup {Call("create_reminder", "planning", "v", "v", "k", FALSE, FALSE, "a"),
        Call("get_reminder", "planning", "u", "u", NoKey, FALSE, FALSE, "a"),
        Call("freeze_universe", "strategy", "u", NoOwner, NoKey, FALSE, FALSE, "a"),
        Call("freeze_universe", "strategy", NoOwner, "u", NoKey, FALSE, FALSE, "a"),
        Call("publish", "strategy", NoOwner, "u", "k", TRUE, TRUE, "a"),
        Call("publish", "strategy", NoOwner, "u", "k", TRUE, TRUE, "b"),
        Call("publish", "research", "u", NoOwner, "k", TRUE, TRUE, "a"),
        Call("unknown", "supervisor", "u", NoOwner, NoKey, FALSE, FALSE, "a")}

(* Three values of one fact, each within the tolerance of the next; one that *)
(* is not there, one that nobody vouches for, one that is old; and a type    *)
(* with neither a threshold nor a conflict rule.                             *)
Said(id, security, type, provider, age, value) ==
  [id |-> id, security |-> security, type |-> type, provider |-> provider,
   age |-> age, value |-> value]
MCEvidenceInputs ==
  {Said(1, "s1", "quote", "p1", 0, 1), Said(2, "s1", "quote", "p2", 0, 2),
   Said(3, "s1", "quote", "p1", 0, 3), Said(4, "s1", "quote", "p1", 0, Unknown),
   Said(5, "s1", "quote", "p3", 0, 1), Said(6, "s1", "quote", "p1", 2, 4),
   Said(7, "s2", "news", "p1", Unknown, 7), Said(8, "s1", "quote", "p2", 1, 4)}
MCThresholds == [quote |-> 1, news |-> Unknown]
MCAllowed == [quote |-> {"p1", "p2"}, news |-> {"p1"}]
MCTolerances == [quote |-> 1, news |-> Unknown]
MCLimits == <<0, 1>>
MCClaims ==
  {[section |-> "risks", cites |-> ids, class |-> "analysis"] : ids \in {{}, {1}, {3}, {1, 7}}}
    \cup {[section |-> "risks", cites |-> {7}, class |-> "return_guarantee"]}

(* The keys of plans and of reminders and the model's callers are the same   *)
(* three values, and reviews, worker runs, stocks, replays and tool callers  *)
(* the same two: a run is of one service, which has them to itself.          *)
Symmetry == Permutations(PlanKeys) \cup Permutations(ReviewIds)
=============================================================================
