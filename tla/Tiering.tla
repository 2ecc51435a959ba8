------------------------------ MODULE Tiering ------------------------------
(***************************************************************************)
(* The risk-tiering model of crates/custodly-core/src/tier.rs and the      *)
(* policy() answer built on it (policy.rs, server.rs).                     *)
(*                                                                         *)
(* A scope string "repo:read,pr:write" is the set of its comma-separated   *)
(* pairs <<resource, level>>; a piece without a colon is a tuple of        *)
(* length 1, and the empty string is the empty set.  The loop that reads   *)
(* the pieces one by one is module AssessScope, which is shown to compute  *)
(* AssessGithubScope of that set.                                          *)
(*                                                                         *)
(* Option<ScopeAssessment> is a set with at most one element.              *)
(***************************************************************************)
EXTENDS Naturals, Sequences

CONTRACT_VERSION == "boundary/v1"

\* Resources that reach only the installation's own repositories.
OwnResources ==
  {"repo", "pr", "issues", "contents", "metadata", "actions", "checks"}

\* Account-level or money-adjacent: Tier 2 whatever the level.
SensitiveResources == {"admin", "billing", "secrets"}

\* A piece the loop accepts.  split_once(':') must find a colon, the level
\* must be read or write and the resource must be listed; the emptiness
\* tests of the code are subsumed by the last two.
Recognized(pair) ==
  /\ Len(pair) = 2
  /\ pair[1] \in OwnResources \cup SensitiveResources
  /\ pair[2] \in {"read", "write"}

\* The assessment of a scope whose every piece is recognized.  The test
\* scope.contains("billing") is made on the whole string; among recognized
\* pieces only the resource billing contains it.
AssessmentOf(pairs) ==
  LET sensitive == \E p \in pairs : p[1] \in SensitiveResources
  IN [reversibility      |-> IF sensitive THEN "irreversible" ELSE "reversible",
      blast_radius       |-> IF sensitive THEN "shared" ELSE "own",
      financial_exposure |-> IF \E p \in pairs : p[1] = "billing"
                               THEN "can_move_money" ELSE "none",
      read_only          |-> \A p \in pairs : p[2] = "read"]

\* assess_github_scope: None for an empty scope or any unrecognized piece.
AssessGithubScope(pairs) ==
  IF pairs # {} /\ \A p \in pairs : Recognized(p)
    THEN {AssessmentOf(pairs)}
    ELSE {}

TripsTier2(a) ==
  \/ a.reversibility = "irreversible"
  \/ a.blast_radius = "shared"
  \/ a.financial_exposure = "can_move_money"

\* Tier::score, with the tier as its wire value 0, 1 or 2 (as_u8).
Score(assessment) ==
  IF assessment = {} \/ \E a \in assessment : TripsTier2(a) THEN 2
  ELSE IF \A a \in assessment : a.read_only THEN 0
  ELSE 1

\* policy::evaluate: only "github" has an adapter, any other provider is
\* scored as unclassified.
Evaluate(provider, pairs) ==
  LET assessment == IF provider = "github" THEN AssessGithubScope(pairs) ELSE {}
      tier       == Score(assessment)
  IN [tier     |-> tier,
      requires |-> (IF assessment = {} THEN {"onboarding_complete"} ELSE {})
                   \cup (IF tier = 2 THEN {"gate:human_approval"} ELSE {})]

-----------------------------------------------------------------------------
TierOf(pairs) == Score(AssessGithubScope(pairs))

=============================================================================
