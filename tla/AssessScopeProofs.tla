------------------------- MODULE AssessScopeProofs -------------------------
(***************************************************************************)
(* The loop of assess_github_scope computes the assessment of module       *)
(* Tiering, for scope strings of any number of pieces.                     *)
(***************************************************************************)
EXTENDS AssessScope, TieringProofs

\* What the flags say of the pieces read so far, and what was returned.
LoopInv ==
  /\ TypeOK
  /\ \A i \in 1 .. next - 1 : Recognized(scope[i])
  /\ read_only <=> \A i \in 1 .. next - 1 : scope[i][2] = "read"
  /\ trips_tier2 <=> \E i \in 1 .. next - 1 : scope[i][1] \in SensitiveResources
  /\ returned /\ provider = "github" => assessment = AssessGithubScope(Pieces(scope))

\* The pieces of a scope string are those between its commas.
LEMMA ScopeFacts ==
  ASSUME NEW s \in Scopes
  PROVE  /\ Len(s) \in Nat
         /\ DOMAIN s = 1 .. Len(s)
         /\ Pieces(s) = {s[i] : i \in 1 .. Len(s)}
         /\ s # <<>> => Len(s) # 0
BY ScopesAssumption DEF ScopesAssumption, Pieces

\* A scope with an unrecognized piece, and the empty one, are not assessed.
LEMMA Unassessed ==
  ASSUME NEW s \in Scopes,
         s = <<>> \/ \E i \in 1 .. Len(s) : ~Recognized(s[i])
  PROVE  AssessGithubScope(Pieces(s)) = {}
<1>1. Pieces(s) = {} \/ \E p \in Pieces(s) : ~Recognized(p)
  BY ScopeFacts
<1> QED  BY <1>1 DEF AssessGithubScope

\* The loop invariant holds before and after every piece.
LEMMA LoopInvInductive == Spec => []LoopInv
<1>1. Init => LoopInv
  <2> SUFFICES ASSUME Init PROVE LoopInv
    OBVIOUS
  <2>1. Len(scope) \in Nat
    BY ScopeFacts DEF Init
  <2>2. TypeOK
    <3>1. next \in 1 .. Len(scope) + 1
      BY <2>1 DEF Init
    <3>2. returned \in BOOLEAN
      BY Zenon DEF Init
    <3> QED  BY <3>1, <3>2 DEF Init, TypeOK
  <2>3. 1 .. next - 1 = {} /\ read_only = TRUE /\ trips_tier2 = FALSE
    BY DEF Init
  <2>4. ~(returned /\ provider = "github")
    BY DEF Init
  <2> QED  BY <2>2, <2>3, <2>4 DEF LoopInv
<1>2. LoopInv /\ [Next]_vars => LoopInv'
  <2> SUFFICES ASSUME LoopInv, [Next]_vars PROVE LoopInv'
    OBVIOUS
  <2> DEFINE n == Len(scope)
  <2>1. /\ scope \in Scopes
        /\ n \in Nat
        /\ next \in 1 .. n + 1
        /\ scope # <<>> => n # 0
    BY ScopeFacts DEF LoopInv, TypeOK
  <2>2. CASE RejectEmpty \/ RejectPiece
    <3>1. AssessGithubScope(Pieces(scope)) = {}
      BY <2>1, <2>2, Unassessed DEF RejectEmpty, RejectPiece
    <3>2. /\ returned' = TRUE /\ assessment' = {}
          /\ UNCHANGED <<provider, scope, next, read_only, trips_tier2>>
      BY <2>2 DEF RejectEmpty, RejectPiece, Return, query, loop
    <3>3. Pieces(scope)' = Pieces(scope)
      BY <3>2 DEF Pieces
    <3> QED  BY <3>1, <3>2, <3>3 DEF LoopInv, TypeOK
  <2>3. CASE ReadPiece
    <3>1. /\ next \in 1 .. n
          /\ next' = next + 1
          /\ Recognized(scope[next])
          /\ 1 .. next' - 1 = (1 .. next - 1) \cup {next}
          /\ UNCHANGED <<provider, scope, returned, assessment>>
      BY <2>1, <2>3 DEF ReadPiece, query
    <3>2. scope[next][2] # "write" <=> scope[next][2] = "read"
      BY <3>1 DEF Recognized
    <3>3. read_only' <=> \A i \in 1 .. next' - 1 : scope[i][2] = "read"
      BY <2>3, <3>1, <3>2 DEF ReadPiece, LoopInv
    <3>4. trips_tier2' <=> \E i \in 1 .. next' - 1 : scope[i][1] \in SensitiveResources
      BY <2>3, <3>1 DEF ReadPiece, LoopInv
    <3>5. TypeOK'
      BY <2>1, <2>3, <3>1 DEF ReadPiece, LoopInv, TypeOK
    <3> QED  BY <3>1, <3>3, <3>4, <3>5 DEF LoopInv
  <2>4. CASE Finish
    <3>1. next = n + 1 /\ 1 .. next - 1 = 1 .. n /\ n # 0
      BY <2>1, <2>4 DEF Finish
    <3>2. /\ Pieces(scope) # {}
          /\ \A p \in Pieces(scope) : Recognized(p)
          /\ read_only <=> \A p \in Pieces(scope) : p[2] = "read"
          /\ trips_tier2 <=> \E p \in Pieces(scope) : p[1] \in SensitiveResources
      <4>1. Pieces(scope) = {scope[i] : i \in 1 .. n}
        BY <2>1, ScopeFacts
      <4>2. /\ \A i \in 1 .. n : Recognized(scope[i])
            /\ read_only <=> \A i \in 1 .. n : scope[i][2] = "read"
            /\ trips_tier2 <=> \E i \in 1 .. n : scope[i][1] \in SensitiveResources
        BY <3>1 DEF LoopInv
      <4>3. scope[1] \in Pieces(scope)
        BY <2>1, <3>1, <4>1
      <4> HIDE DEF n
      <4> QED  BY <4>1, <4>2, <4>3
    <3>3. assessment' = {AssessmentOf(Pieces(scope))}
      BY <2>4, <3>2 DEF Finish, Return, AssessmentOf, LoopInv, TypeOK
    <3>4. assessment' = AssessGithubScope(Pieces(scope))
      BY <3>2, <3>3 DEF AssessGithubScope
    <3>5. AssessmentOf(Pieces(scope)) \in Assessment
      BY DEF AssessmentOf, Assessment
    <3>6. /\ returned' = TRUE
          /\ UNCHANGED <<provider, scope, next, read_only, trips_tier2>>
      BY <2>4 DEF Finish, Return, query, loop
    <3>7. Pieces(scope)' = Pieces(scope)
      BY <3>6 DEF Pieces
    <3>8. TypeOK'
      BY <3>3, <3>5, <3>6 DEF LoopInv, TypeOK
    <3> QED  BY <3>4, <3>6, <3>7, <3>8 DEF LoopInv
  <2>5. CASE Answered \/ UNCHANGED vars
    BY <2>5 DEF Answered, vars, LoopInv, TypeOK
  <2> QED  BY <2>2, <2>3, <2>4, <2>5 DEF Next
<1> QED  BY <1>1, <1>2, PTL DEF Spec

\* Every variable keeps its type, for scope strings of any length.
THEOREM ScopeTypeCorrect == Spec => []TypeOK
<1>1. LoopInv => TypeOK
  BY DEF LoopInv
<1> QED  BY <1>1, LoopInvInductive, PTL

\* The loop computes the assessment of the set of pieces: neither their
\* order nor a repetition nor an early return changes it.
THEOREM LoopIsCorrect == Spec => []LoopComputesAssessment
<1>1. LoopInv => LoopComputesAssessment
  BY DEF LoopInv, LoopComputesAssessment
<1> QED  BY <1>1, LoopInvInductive, PTL

\* A non-empty scope is scored exactly as its worst piece is.
THEOREM WorstPieceDecides == Spec => []TierIsWorstPiece
<1>1. ASSUME LoopInv PROVE TierIsWorstPiece
  <2> SUFFICES ASSUME returned, provider = "github", scope # <<>>
               PROVE  /\ \A p \in Pieces(scope) : Score(assessment) >= TierOf({p})
                      /\ \E p \in Pieces(scope) : Score(assessment) = TierOf({p})
    BY DEF TierIsWorstPiece
  <2>1. Score(assessment) = TierOf(Pieces(scope))
    BY <1>1 DEF LoopInv, TierOf
  <2>2. Pieces(scope) # {}
    <3>1. Len(scope) \in Nat \ {0} /\ Pieces(scope) = {scope[i] : i \in 1 .. Len(scope)}
      BY <1>1, ScopeFacts DEF LoopInv, TypeOK
    <3>2. scope[1] \in Pieces(scope)
      BY <3>1
    <3> QED  BY <3>2
  <2> QED  BY <2>1, <2>2, TierOfWorstPiece
<1> QED  BY <1>1, LoopInvInductive, PTL

=============================================================================
