--------------------------- MODULE MarketEvidence ---------------------------
(* Evidence for research: what providers say is frozen with how fresh it     *)
(* was, a trust policy accepts or rejects it, and an artifact is assembled   *)
(* from a draft whose claims may cite accepted evidence only.  Assessment    *)
(* and assembly are separate calls of one caller, who may collect more in    *)
(* between.                                                                  *)
EXTENDS Integers, Sequences, FiniteSets

CONSTANTS
  EvidenceInputs,   \* what providers may say, each of an identity of its own
  EvidenceTypes, Providers, Sections,
  Thresholds,       \* by type: the age up to which evidence is fresh, or none
  AllowedProviders, \* by type
  RequireFresh,     \* the types that must be fresh
  Tolerances,       \* by type: the tolerance of its conflict rule, or none
  RequiredSections,
  ConfidenceLimits, \* the finite confidence bands, ascending
  ResearchClaims,   \* what drafts claim
  MaxClaims,        \* bound: claims of one draft
  MaxEvidence,      \* bound: evidence collected
  MaxArtifacts,     \* bound
  Unknown           \* a time, a value, a threshold or a rule there is not

VARIABLES
  collected,  \* the caller's evidence, in order
  assessment, \* the last one, or Unknown
  artifacts   \* what was assembled, with what was assessed for it
evidenceVars == <<collected, assessment, artifacts>>

EvidenceInput == [id : Nat, security : STRING, type : EvidenceTypes, provider : Providers,
                  age : Nat \cup {Unknown}, value : Int \cup {Unknown}]
SafetyClass == {"analysis", "return_guarantee", "execution_claim"}
\* A candidate of a theme has a role where a claim has a section.
Claim == [section : Sections, cites : SUBSET {i.id : i \in EvidenceInputs}, class : SafetyClass]

ASSUME MarketEvidenceAssumption ==
  /\ \A i \in EvidenceInputs : DOMAIN i = {"id", "security", "type", "provider", "age", "value"}
  /\ \A i, j \in EvidenceInputs : i.id = j.id => i = j
  /\ \A i \in EvidenceInputs : i.value # Unknown => i.value \in Int
  /\ \A i \in EvidenceInputs : Tolerances[i.type] # Unknown => Tolerances[i.type] \in Nat
  /\ ResearchClaims \subseteq Claim /\ RequiredSections \subseteq Sections
  /\ ConfidenceLimits \in Seq(Int)
  /\ \A i \in 1..(Len(ConfidenceLimits) - 1) : ConfidenceLimits[i] <= ConfidenceLimits[i + 1]

Freshness == {"fresh", "stale", "unknown"}

MarketEvidenceTypeOK ==
  /\ \A i \in DOMAIN collected :
       collected[i].input \in EvidenceInputs /\ collected[i].freshness \in Freshness
  /\ assessment # Unknown => assessment.accepted \cap assessment.rejected = {}
  /\ \A a \in artifacts : a.confidence \in {Unknown} \cup 0..Len(ConfidenceLimits)

MarketEvidenceInit ==
  /\ collected = <<>>
  /\ assessment = Unknown
  /\ artifacts = {}

(* EvidenceFactory.create.                                                   *)
FreshnessOf(input) ==
  IF input.age = Unknown \/ Thresholds[input.type] = Unknown THEN "unknown"
  ELSE IF input.age <= Thresholds[input.type] THEN "fresh" ELSE "stale"

CollectEvidence(input) ==
  /\ Len(collected) < MaxEvidence
  /\ \A i \in DOMAIN collected : collected[i].input # input
  /\ collected' = Append(collected, [input |-> input, freshness |-> FreshnessOf(input)])
  /\ UNCHANGED <<assessment, artifacts>>

Items(evidence) == {evidence[i] : i \in DOMAIN evidence}
Ids(items) == {e.input.id : e \in items}

Trusted(e) == e.input.provider \in AllowedProviders[e.input.type]
Timely(e) == e.input.type \in RequireFresh => e.freshness = "fresh"

Fact(e) == <<e.input.security, e.input.type>>
Stated(e) == e.input.value # Unknown
Apart(d, e, distance) ==
  d.input.value - e.input.value > distance \/ e.input.value - d.input.value > distance

Differ(evidence, first, i) ==
  Apart(evidence[first], evidence[i], Tolerances[evidence[first].input.type])

\* Variant of InConflict that compares only what is complete throughout.
InConflictIfComplete(evidence, items) ==
  /\ \A i \in items : Stated(evidence[i])
  /\ \E first, i \in items : (\A j \in items : first <= j) /\ Differ(evidence, first, i)

(* Items are positions.  The first complete item of a fact is compared with  *)
(* each of the others; a value that is no number would have to be the same.  *)
InConflict(evidence, items) ==
  LET complete == {i \in items : Stated(evidence[i])} IN
    \E first, i \in complete :
      (\A j \in complete : first <= j) /\ Differ(evidence, first, i)

(* detect_conflicts: the facts in conflict, of the types that have a rule.   *)
Conflicts(evidence, items) ==
  {f \in {Fact(evidence[i]) : i \in items} :
     /\ Tolerances[f[2]] # Unknown
     /\ InConflict(evidence, {i \in items : Fact(evidence[i]) = f})}

(* EvidenceTrustPolicy.assess: everything said of a fact in conflict is      *)
(* rejected, and every rejection leaves a gap.                               *)
Assessment(evidence) ==
  LET timely == {i \in DOMAIN evidence : Trusted(evidence[i]) /\ Timely(evidence[i])}
      conflicts == Conflicts(evidence, timely)
      accepted == {evidence[i] : i \in {j \in timely : Fact(evidence[j]) \notin conflicts}}
  IN [accepted |-> Ids(accepted),
      rejected |-> Ids(Items(evidence) \ accepted),
      gaps |-> {<<"provider", e.input.type>> : e \in {d \in Items(evidence) : ~Trusted(d)}}
                 \cup {<<"stale", e.input.type>> :
                         e \in {d \in Items(evidence) : Trusted(d) /\ ~Timely(d)}}
                 \cup {<<"conflict", f[2]>> : f \in conflicts}]

Assess ==
  /\ assessment' = Assessment(collected)
  /\ UNCHANGED <<collected, artifacts>>

Safe(claims) == \A c \in claims : c.class = "analysis"
Cited(claims, ids) == \A c \in claims : c.cites # {} /\ c.cites \subseteq ids

(* confidence_for: how many of the bands the gaps exceed.                    *)
ConfidenceFor(n) == Cardinality({i \in DOMAIN ConfidenceLimits : ConfidenceLimits[i] < n})

Assemble(claims, gaps, confidence) ==
  LET evidence == {e \in Items(collected) : e.input.id \in assessment.accepted} IN
    /\ Cardinality(artifacts) < MaxArtifacts
    /\ Safe(claims) /\ Cited(claims, Ids(evidence))
    /\ artifacts' = artifacts \cup
         {[claims |-> claims, evidence |-> evidence, gaps |-> gaps,
           confidence |-> confidence, assessed |-> assessment]}
    /\ UNCHANGED <<collected, assessment>>

(* A claim that is unsafe, or cites nothing or what was not accepted,        *)
(* refuses the whole artifact.                                               *)
AssembleSecurity(claims) ==
  /\ assessment # Unknown
  /\ LET missing == RequiredSections \ {c.section : c \in claims}
         gaps == assessment.gaps \cup {<<"section", s>> : s \in missing}
     IN Assemble(claims, gaps, ConfidenceFor(Cardinality(gaps)))

(* A theme knows no sections, and its artifact says nothing of confidence.   *)
AssembleTheme(candidates) ==
  assessment # Unknown /\ Assemble(candidates, assessment.gaps, Unknown)

Drafted == {claims \in SUBSET ResearchClaims : Cardinality(claims) <= MaxClaims}
MarketEvidenceNext ==
  \/ \E input \in EvidenceInputs : CollectEvidence(input)
  \/ Assess
  \/ \E claims \in Drafted : AssembleSecurity(claims) \/ AssembleTheme(claims)

MarketEvidenceSpec == MarketEvidenceInit /\ [][MarketEvidenceNext]_evidenceVars

(* In an artifact nothing is claimed without evidence of an approved         *)
(* provider, fresh where it must be, whose values of one fact lie within     *)
(* twice the tolerance of each other, whatever was collected, in whatever    *)
(* order and whenever it was assessed; and what was rejected is a gap.       *)
ClaimsSupported == \A a \in artifacts :
  /\ \A c \in a.claims : c.class = "analysis" /\ c.cites # {} /\ c.cites \subseteq Ids(a.evidence)
  /\ \A e \in a.evidence : Trusted(e) /\ Timely(e)
  /\ \A d, e \in a.evidence :
       Fact(d) = Fact(e) /\ Stated(d) /\ Stated(e) /\ Tolerances[d.input.type] # Unknown
         => ~Apart(d, e, 2 * Tolerances[d.input.type])
  /\ \A i \in EvidenceInputs : i.id \in a.assessed.rejected => \E g \in a.gaps : g[2] = i.type
=============================================================================
