--------------------------- MODULE TieringProofs ---------------------------
(***************************************************************************)
(* What the scoring of module Tiering gives for every scope.               *)
(***************************************************************************)
EXTENDS Tiering, TLAPS

\* Tier::score of assess_github_scope, case by case.
LEMMA TierCases ==
  ASSUME NEW pairs
  PROVE  /\ TierOf(pairs) \in {0, 1, 2}
         /\ pairs = {} \/ (\E p \in pairs : ~Recognized(p)) => TierOf(pairs) = 2
         /\ (\E p \in pairs : p[1] \in SensitiveResources) => TierOf(pairs) = 2
         /\ (\E p \in pairs : p[2] # "read") => TierOf(pairs) # 0
         /\ TierOf(pairs) = 2 =>
              \/ pairs = {}
              \/ \E p \in pairs : ~Recognized(p)
              \/ \E p \in pairs : p[1] \in SensitiveResources
         /\ TierOf(pairs) = 1 => \E p \in pairs : p[2] # "read"
<1>1. CASE pairs = {} \/ \E p \in pairs : ~Recognized(p)
  <2>1. AssessGithubScope(pairs) = {}
    BY <1>1 DEF AssessGithubScope
  <2>2. TierOf(pairs) = 2
    BY <2>1 DEF TierOf, Score
  <2> QED  BY <1>1, <2>2
<1>2. CASE pairs # {} /\ \A p \in pairs : Recognized(p)
  <2> DEFINE a == AssessmentOf(pairs)
  <2>1. AssessGithubScope(pairs) = {a}
    BY <1>2 DEF AssessGithubScope
  <2>2. TierOf(pairs) = IF TripsTier2(a) THEN 2 ELSE IF a.read_only THEN 0 ELSE 1
    <3> HIDE DEF a
    <3> QED  BY <2>1 DEF TierOf, Score
  <2>3. TripsTier2(a) <=> \E p \in pairs : p[1] \in SensitiveResources
    BY DEF TripsTier2, AssessmentOf, SensitiveResources
  <2>4. a.read_only <=> \A p \in pairs : p[2] = "read"
    BY DEF AssessmentOf
  <2> HIDE DEF a
  <2> QED  BY <1>2, <2>2, <2>3, <2>4
<1> QED  BY <1>1, <1>2

\* A non-empty scope is scored as its most sensitive piece is: permissions
\* asked for together cost what the worst of them costs, no less, no more.
THEOREM TierOfWorstPiece ==
  ASSUME NEW pairs, pairs # {}
  PROVE  /\ \A p \in pairs : TierOf(pairs) >= TierOf({p})
         /\ \E p \in pairs : TierOf(pairs) = TierOf({p})
<1>1. TierOf(pairs) \in {0, 1, 2} /\ \A p \in pairs : TierOf({p}) \in {0, 1, 2}
  BY TierCases
<1>2. ASSUME NEW p \in pairs PROVE TierOf(pairs) >= TierOf({p})
  <2>1. TierOf({p}) = 2 => TierOf(pairs) = 2
    <3>1. TierOf({p}) = 2 => ~Recognized(p) \/ p[1] \in SensitiveResources
      BY TierCases
    <3> QED  BY <3>1, TierCases
  <2>2. TierOf({p}) = 1 => TierOf(pairs) # 0
    <3>1. TierOf({p}) = 1 => p[2] # "read"
      BY TierCases
    <3> QED  BY <3>1, TierCases
  <2>3. TierOf(pairs) \in {0, 1, 2} /\ TierOf({p}) \in {0, 1, 2}
    BY <1>1
  <2> QED  BY <2>1, <2>2, <2>3
<1>3. \E p \in pairs : TierOf(pairs) = TierOf({p})
  <2>1. CASE TierOf(pairs) = 2
    <3>1. PICK p \in pairs : ~Recognized(p) \/ p[1] \in SensitiveResources
      BY <2>1, TierCases
    <3>2. TierOf({p}) = 2
      BY <3>1, TierCases
    <3> QED  BY <2>1, <3>2
  <2>2. CASE TierOf(pairs) = 1
    <3>1. PICK p \in pairs : p[2] # "read"
      BY <2>2, TierCases
    <3>2. TierOf({p}) # 0
      BY <3>1, TierCases
    <3>3. TierOf({p}) \in {0, 1, 2} /\ 1 >= TierOf({p})
      BY <1>1, <1>2, <2>2
    <3> QED  BY <2>2, <3>2, <3>3
  <2>3. CASE TierOf(pairs) = 0
    BY <1>1, <1>2, <2>3
  <2> QED  BY <1>1, <2>1, <2>2, <2>3
<1> QED  BY <1>2, <1>3

=============================================================================
