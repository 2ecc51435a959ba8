---------------------------- MODULE AssessScope ----------------------------
(***************************************************************************)
(* The loop of assess_github_scope (crates/custodly-core/src/tier.rs) as   *)
(* it runs: one comma-separated piece of the scope string at a time, with  *)
(* two accumulated flags and an early `return None`.                       *)
(*                                                                         *)
(* Module Tiering states what the answer should be as a function of the    *)
(* set of pieces; here the pieces come in the order the caller wrote them, *)
(* possibly repeated, and the loop may stop at any of them.                *)
(***************************************************************************)
EXTENDS Tiering

CONSTANTS Scopes,     \* the scope strings, each the sequence of its pieces
          Providers   \* the provider names a policy() query carries

ASSUME ScopesAssumption ==
  \A s \in Scopes :
    /\ s \in Seq(Seq(STRING))
    /\ \A i \in DOMAIN s : Len(s[i]) \in {1, 2}

VARIABLES
  provider,     \* the provider of the query
  scope,        \* the scope of the query
  next,         \* index of the piece the loop reads next
  read_only,    \* no piece read so far asks for write
  trips_tier2,  \* some piece read so far is sensitive
  returned,     \* the function has returned
  assessment    \* what it returned: {} is None, {a} is Some(a)

vars == <<provider, scope, next, read_only, trips_tier2, returned, assessment>>
query == <<provider, scope>>
loop == <<next, read_only, trips_tier2>>

Pieces(s) == {s[i] : i \in DOMAIN s}

Init ==
  /\ provider \in Providers
  /\ scope \in Scopes
  /\ next = 1
  /\ read_only = TRUE
  /\ trips_tier2 = FALSE
  /\ returned = (provider # "github")   \* evaluate() never calls the loop
  /\ assessment = {}

Return(value) ==
  /\ returned' = TRUE
  /\ assessment' = value
  /\ UNCHANGED <<query, loop>>

\* if scope.trim().is_empty() { return None }
RejectEmpty ==
  /\ ~returned
  /\ scope = <<>>
  /\ Return({})

\* Any of the loop's early returns: no colon, an unknown level, an unlisted
\* resource.
RejectPiece ==
  /\ ~returned
  /\ next <= Len(scope)
  /\ ~Recognized(scope[next])
  /\ Return({})

\* Mutant: read_only is that of the last piece.
ReadPieceLastLevel ==
  /\ ~returned
  /\ next <= Len(scope)
  /\ Recognized(scope[next])
  /\ next' = next + 1
  /\ read_only' = (scope[next][2] # "write")
  /\ trips_tier2' = (trips_tier2 \/ scope[next][1] \in SensitiveResources)
  /\ UNCHANGED <<query, returned, assessment>>

\* Mutant: trips_tier2 is that of the last piece.
ReadPieceLastResource ==
  /\ ~returned
  /\ next <= Len(scope)
  /\ Recognized(scope[next])
  /\ next' = next + 1
  /\ read_only' = (read_only /\ scope[next][2] # "write")
  /\ trips_tier2' = (scope[next][1] \in SensitiveResources)
  /\ UNCHANGED <<query, returned, assessment>>

\* Mutant: every other piece is skipped.
ReadPieceSkips ==
  /\ ~returned
  /\ next <= Len(scope)
  /\ Recognized(scope[next])
  /\ next' = next + 2
  /\ read_only' = (read_only /\ scope[next][2] # "write")
  /\ trips_tier2' = (trips_tier2 \/ scope[next][1] \in SensitiveResources)
  /\ UNCHANGED <<query, returned, assessment>>

ReadPiece ==
  /\ ~returned
  /\ next <= Len(scope)
  /\ Recognized(scope[next])
  /\ next' = next + 1
  /\ read_only' = (read_only /\ scope[next][2] # "write")
  /\ trips_tier2' = (trips_tier2 \/ scope[next][1] \in SensitiveResources)
  /\ UNCHANGED <<query, returned, assessment>>

Finish ==
  /\ ~returned
  /\ scope # <<>>
  /\ next > Len(scope)
  /\ Return({[reversibility      |-> IF trips_tier2 THEN "irreversible"
                                                    ELSE "reversible",
              blast_radius       |-> IF trips_tier2 THEN "shared" ELSE "own",
              financial_exposure |-> IF \E p \in Pieces(scope) : p[1] = "billing"
                                       THEN "can_move_money" ELSE "none",
              read_only          |-> read_only]})

\* The answer is given; the query is over.
Answered == returned /\ UNCHANGED vars

Next == RejectEmpty \/ RejectPiece \/ ReadPiece \/ Finish \/ Answered

Spec == Init /\ [][Next]_vars

-----------------------------------------------------------------------------
(* Properties.                                                             *)

Assessment ==
  [reversibility:      {"reversible", "irreversible"},
   blast_radius:       {"own", "shared"},
   financial_exposure: {"none", "can_move_money"},
   read_only:          BOOLEAN]

\* Every variable has its type; the loop never reads past the last piece.
TypeOK ==
  /\ provider \in Providers
  /\ scope \in Scopes
  /\ next \in 1 .. Len(scope) + 1
  /\ read_only \in BOOLEAN
  /\ trips_tier2 \in BOOLEAN
  /\ returned \in BOOLEAN
  /\ assessment \subseteq Assessment

\* The loop agrees with the definition on the set of pieces: neither the
\* order in which a caller lists permissions, nor a repetition, nor the
\* piece at which the loop stops changes the assessment.
LoopComputesAssessment ==
  returned /\ provider = "github" => assessment = AssessGithubScope(Pieces(scope))

\* tier.rs:73-75: a non-empty scope is scored exactly as its most sensitive
\* single piece is.  A permission costs the same alone and bundled with any
\* others; a bundle costs no more than its worst permission.
TierIsWorstPiece ==
  returned /\ provider = "github" /\ scope # <<>> =>
    /\ \A p \in Pieces(scope) : Score(assessment) >= TierOf({p})
    /\ \E p \in Pieces(scope) : Score(assessment) = TierOf({p})

=============================================================================
