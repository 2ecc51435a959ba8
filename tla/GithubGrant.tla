---------------------------- MODULE GithubGrant ----------------------------
(***************************************************************************)
(* The trust decision on a freshly minted installation token               *)
(* (crates/custodly-github/src/app.rs): is what GitHub granted no broader  *)
(* than what was requested, and which tier does it carry.                  *)
(*                                                                         *)
(* A BTreeMap<String, String> of permissions is a function from a set of   *)
(* resources to levels.                                                    *)
(***************************************************************************)
EXTENDS Tiering

CONSTANTS Resources,   \* the resource names in use
          Levels       \* the level names in use

PermissionMaps == UNION {[S -> Levels] : S \in SUBSET Resources}

\* The pairs of a permission map: its scope_string, as from_response joins
\* it.  The map is keyed by resource, so the pieces are distinct.
ScopePairs(permissions) == {<<r, permissions[r]>> : r \in DOMAIN permissions}

\* level_rank: Some(rank) for read and write, None for anything else.
HasRank(level) == level \in {"read", "write"}
LevelRank(level) == IF level = "write" THEN 1 ELSE 0

\* level_rank(requested_level).unwrap_or(u8::MAX)
RequestedRank(level) == IF HasRank(level) THEN LevelRank(level) ELSE 255

\* Mutant: the exemption does not look at the level.
IsBaselineAnyLevel(resource, level) == resource = "metadata"

\* GitHub adds metadata: read to every installation token.
IsBaseline(resource, level) == resource = "metadata" /\ level = "read"

\* Mutant: a level above the requested one is let through.
CheckPermissionNoRank(requested, granted, r) ==
  IF IsBaseline(r, granted[r]) THEN "ok"
  ELSE IF r \notin DOMAIN requested THEN "scope_creep"
  ELSE IF ~HasRank(granted[r]) THEN "unrecognized_permission"
  ELSE "ok"

\* What one iteration of the loop of verify_no_scope_creep makes of r.
CheckPermission(requested, granted, r) ==
  IF IsBaseline(r, granted[r]) THEN "ok"
  ELSE IF r \notin DOMAIN requested THEN "scope_creep"
  ELSE IF ~HasRank(granted[r]) THEN "unrecognized_permission"
  ELSE IF LevelRank(granted[r]) > RequestedRank(requested[r]) THEN "scope_creep"
  ELSE "ok"

\* Mutant: a permission that passes is reported as an error too.
VerifyReportsOk(requested, granted) ==
  {CheckPermission(requested, granted, r) : r \in DOMAIN granted}

\* verify_no_scope_creep: the errors the grant deserves, {} being Ok(()).
\* The loop returns the one of the least failing resource in map order.
VerifyNoScopeCreep(requested, granted) ==
  {CheckPermission(requested, granted, r) : r \in DOMAIN granted} \ {"ok"}

\* MintedToken::from_response: the tier is that of what was granted.
MintedTier(granted) == TierOf(ScopePairs(granted))

-----------------------------------------------------------------------------
(* Reference definitions, stated without the loop and its ranks.           *)

\* The levels a requested level covers: write covers read, and a level the
\* ranking does not know covers every level it knows.
Covers(requestedLevel) ==
  IF requestedLevel = "read" THEN {"read"} ELSE {"read", "write"}

\* No broader than requested, GitHub's metadata: read apart.
NotBroader(requested, granted) ==
  \A r \in DOMAIN granted :
    \/ IsBaseline(r, granted[r])
    \/ r \in DOMAIN requested /\ granted[r] \in Covers(requested[r])

=============================================================================
