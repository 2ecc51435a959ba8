--------------------------- MODULE MCAssessScope ---------------------------
(***************************************************************************)
(* Instance of AssessScope for TLC: every scope string of up to three      *)
(* pieces drawn from one representative of each class of piece.            *)
(***************************************************************************)
EXTENDS AssessScope

MCPieces ==
  {<<"contents", "read">>, <<"contents", "write">>,   \* own resource
   <<"admin", "read">>, <<"billing", "write">>,       \* sensitive
   <<"contents", "admin">>,                           \* unknown level
   <<"nuclear_launch", "read">>,                      \* unlisted resource
   <<"repo">>}                                        \* no colon

MCScopes == UNION {[1..n -> MCPieces] : n \in 0..3}

=============================================================================
