---------------------------- MODULE MCMintGithub ----------------------------
(***************************************************************************)
(* Instances of MintGithub for TLC.  MCRuns*: two invocations and the few  *)
(* command lines and grants that take every branch.  MCData*: one          *)
(* invocation, every permission map requested against every one granted.   *)
(***************************************************************************)
EXTENDS MintGithub, TLC

MCResources == {"contents", "metadata", "billing"}
MCLevels == {"read", "write", "admin"}
MCRepositories == {"pilot", "other"}

Base ==
  [pem              |-> "valid",
   permissions      |-> "contents" :> "write",
   repository_ids   |-> {"pilot"},
   project          |-> "redaktly",
   label            |-> "github-pat",
   for_recipient    |-> FALSE,
   ferryman_project |-> NotGiven]

MCRunsCommandLines ==
  LET deposit == [Base EXCEPT !.permissions = "contents" :> "write" @@ "billing" :> "read",
                              !.ferryman_project = "redaktly"]
  IN {Base,
      [Base EXCEPT !.pem = "empty"],
      [Base EXCEPT !.pem = "unparseable"],
      [Base EXCEPT !.label = "deploy-key"],
      deposit,
      [deposit EXCEPT !.for_recipient = TRUE],
      [deposit EXCEPT !.project = ""]}

MCRunsGrants ==
  {[permissions |-> p, repositories |-> {"pilot"}] :
     p \in {"contents" :> "read" @@ "metadata" :> "read",
            "contents" :> "write",
            "billing" :> "read"}}

\* The same label twice, nothing else: the smallest rotation.
MCRotationCommandLines == {Base}
MCRotationGrants ==
  {[permissions |-> "contents" :> "write", repositories |-> {"pilot"}]}

MCDataCommandLines ==
  {[Base EXCEPT !.permissions = p, !.ferryman_project = f] :
     p \in PermissionMaps \ {<<>>}, f \in {NotGiven, "redaktly"}}

MCDataGrants ==
  [permissions: PermissionMaps, repositories: {{"pilot"}}]

\* Tier 2 and recipient command lines, with the project Ferryman knows
\* under another name.
MCDepositCommandLines ==
  {[Base EXCEPT !.permissions = "billing" :> "read", !.project = p,
                !.for_recipient = b, !.ferryman_project = "redaktly-ferry"] :
     p \in {"redaktly", ""}, b \in BOOLEAN}
MCDepositGrants ==
  [permissions: {"billing" :> "read"}, repositories: SUBSET MCRepositories]

=============================================================================
