-------------------------- MODULE MintGithubProofs --------------------------
(***************************************************************************)
(* Safety of MintGithub for any number of concurrent runs, any command     *)
(* lines, any grants and any redeployment of Ferryman.                     *)
(*                                                                         *)
(* The inductive invariant adds to the properties what ties a run's        *)
(* program counter, its outstanding call and the stores together: a call   *)
(* still outstanding carries the same guarantees as the effect it may      *)
(* have, because it may have it after the run has failed or was killed.    *)
(***************************************************************************)
EXTENDS MintGithub, TieringProofs

-----------------------------------------------------------------------------
(* The checks of module GithubGrant, for every set of resources and levels. *)

\* Ok(()) from verify_no_scope_creep means what its doc comment says.
THEOREM VerifiedIsNotBroader ==
  ASSUME NEW requested, NEW granted,
         VerifyNoScopeCreep(requested, granted) = {}
  PROVE  NotBroader(requested, granted)
<1> SUFFICES ASSUME NEW r \in DOMAIN granted, ~IsBaseline(r, granted[r])
             PROVE  r \in DOMAIN requested /\ granted[r] \in Covers(requested[r])
  BY DEF NotBroader
<1>1. CheckPermission(requested, granted, r) = "ok"
  BY DEF VerifyNoScopeCreep
<1>2. /\ r \in DOMAIN requested
      /\ HasRank(granted[r])
      /\ ~(LevelRank(granted[r]) > RequestedRank(requested[r]))
  BY <1>1 DEF CheckPermission
<1>3. granted[r] \in Covers(requested[r])
  BY <1>2 DEF HasRank, LevelRank, RequestedRank, Covers
<1> QED  BY <1>2, <1>3

\* A grant that names a permission and is no broader than the request is
\* scored no higher than policy() scores the request.
THEOREM NotBroaderTier ==
  ASSUME NEW requested, NEW granted,
         NotBroader(requested, granted),
         DOMAIN granted # {}
  PROVE  MintedTier(granted) <= TierOf(ScopePairs(requested))
<1> DEFINE G == ScopePairs(granted)
           R == ScopePairs(requested)
<1>1. /\ TierOf(G) \in {0, 1, 2}
      /\ TierOf(R) \in {0, 1, 2}
  BY TierCases
<1>2. CASE TierOf(R) = 2
  BY <1>1, <1>2 DEF MintedTier
<1>3. CASE TierOf(R) # 2
  <2>1. \A p \in R : Recognized(p) /\ p[1] \notin SensitiveResources
    BY <1>3, TierCases
  <2>2. ASSUME NEW r \in DOMAIN granted
        PROVE  \/ <<r, granted[r]>> = <<"metadata", "read">>
               \/ /\ <<r, requested[r]>> \in R
                  /\ r \in OwnResources
                  /\ granted[r] \in {"read", "write"}
                  /\ granted[r] # "read" => requested[r] # "read"
    <3>1. CASE IsBaseline(r, granted[r])
      BY <3>1 DEF IsBaseline
    <3>2. CASE ~IsBaseline(r, granted[r])
      <4>1. r \in DOMAIN requested /\ granted[r] \in Covers(requested[r])
        BY <3>2 DEF NotBroader
      <4>2. <<r, requested[r]>> \in R
        BY <4>1 DEF ScopePairs
      <4>3. r \in OwnResources /\ requested[r] \in {"read", "write"}
        BY <2>1, <4>2 DEF Recognized
      <4> QED  BY <4>1, <4>2, <4>3 DEF Covers
    <3> QED  BY <3>1, <3>2
  <2>3. \A p \in G : Recognized(p) /\ p[1] \notin SensitiveResources
    <3> SUFFICES ASSUME NEW r \in DOMAIN granted
                 PROVE  /\ Recognized(<<r, granted[r]>>)
                        /\ r \notin SensitiveResources
      BY DEF ScopePairs
    <3> QED  BY <2>2 DEF Recognized, OwnResources, SensitiveResources
  <2>4. G # {}
    BY DEF ScopePairs
  <2>5. TierOf(G) # 2
    BY <2>3, <2>4, TierCases
  <2>6. CASE TierOf(G) = 1
    <3>1. PICK p \in G : p[2] # "read"
      BY <2>6, TierCases
    <3>2. PICK r \in DOMAIN granted : p = <<r, granted[r]>>
      BY <3>1 DEF ScopePairs
    <3>3. \E q \in R : q[2] # "read"
      BY <2>2, <3>1, <3>2
    <3>4. TierOf(R) # 0
      BY <3>3, TierCases
    <3> QED  BY <1>1, <2>6, <3>4 DEF MintedTier
  <2>7. CASE TierOf(G) = 0
    BY <1>1, <2>7 DEF MintedTier
  <2> QED  BY <1>1, <2>5, <2>6, <2>7
<1> QED  BY <1>2, <1>3

-----------------------------------------------------------------------------
(* The inductive invariant.                                                 *)

Verified(r) ==
  /\ issued[r] # NoGrant
  /\ VerifyNoScopeCreep(cmd[r].permissions, issued[r].permissions) = {}

\* The run has not yet sent its token anywhere.
BeforeCustody == {"start", "awaiting_token", "minted", "fetching_key"}

\* A token that reached the stores, or is on its way there.
MayBeDeposited(r) == Deposited(r) \/ call[r] = "deposit"
MayBeCached(r)    == Cached(r) \/ call[r] = "add"

RunInv(r) ==
  /\ call[r] = "mint" => issued[r] = NoGrant
  /\ pc[r] = "start" => call[r] = "none" /\ issued[r] = NoGrant
  /\ err[r] # "none" => pc[r] = "failed"
  /\ pc[r] \in {"minted", "fetching_key", "awaiting_receipt", "caching",
                "adding", "done"}
       => Verified(r)
  /\ MayBeDeposited(r) => Verified(r) /\ NeedsFerrymanDeposit(r)
  /\ MayBeCached(r) \/ pc[r] \in {"caching", "adding"}
                    \/ err[r] \in VaultErrors \cup {"cli_failed"}
       => /\ Verified(r)
          /\ ~cmd[r].for_recipient
          /\ NeedsFerrymanDeposit(r) => Deposited(r)
  /\ pc[r] \in {"fetching_key", "awaiting_receipt"} => NeedsFerrymanDeposit(r)
  /\ pc[r] \in BeforeCustody => ~MayBeDeposited(r)
  /\ pc[r] \in BeforeCustody \cup {"awaiting_receipt", "caching"} => ~MayBeCached(r)
  /\ err[r] \in EarlyErrors => ~MayBeDeposited(r)
  /\ err[r] \in EarlyErrors \cup VaultErrors => ~MayBeCached(r)
  /\ call[r] = "deposit" => ~Deposited(r)
  /\ call[r] = "add" => ~Cached(r)
  /\ pc[r] = "done" =>
       /\ NeedsFerrymanDeposit(r) => Deposited(r)
       /\ Cached(r) <=> ~cmd[r].for_recipient

\* The stored records are those of the runs they name.
RecordsInv ==
  /\ \A d \in deposits :
       d.sealed.value \in Runs /\ d.metadata.tier = Tier(d.sealed.value)
  /\ \A e \in entries :
       e.secret \in Runs /\ e.tier = Tier(e.secret)

IInv ==
  /\ TypeOK
  /\ \A r \in Runs : RunInv(r)
  /\ RecordsInv
  /\ OneDepositPerToken

-----------------------------------------------------------------------------
(* Lemmas.                                                                 *)

\* One action of the run r, its peers or its subprocess.
ActionOf(r) == Step(r) \/ Crash(r) \/ Outside(r)

\* A step that leaves what is known of a run alone keeps its invariant.
LEMMA FrameRun ==
  ASSUME NEW q \in Runs, RunInv(q),
         pc'[q] = pc[q], err'[q] = err[q], call'[q] = call[q],
         issued'[q] = issued[q], cmd' = cmd,
         Deposited(q)' <=> Deposited(q),
         Cached(q)' <=> Cached(q)
  PROVE  RunInv(q)'
BY DEF RunInv, Verified, MayBeDeposited, MayBeCached, NeedsFerrymanDeposit, Tier

\* Every action of a run leaves the other runs alone.
LEMMA OtherRuns ==
  ASSUME TypeOK, NEW r \in Runs, NEW q \in Runs, q # r, ActionOf(r)
  PROVE  /\ pc'[q] = pc[q]
         /\ err'[q] = err[q]
         /\ call'[q] = call[q]
         /\ issued'[q] = issued[q]
         /\ cmd' = cmd
         /\ Deposited(q)' <=> Deposited(q)
         /\ Cached(q)' <=> Cached(q)
<1> USE DEF TypeOK, Goto, Fail, Send, peers, vault, Deposited, Cached
<1>1. CASE FerrymanAccepts(r)
  <2>1. Deposit(r).sealed.value = r
    BY DEF Deposit, SealForIngestion
  <2> QED  BY <1>1, <2>1 DEF FerrymanAccepts
<1>2. CASE CliAdds(r)
  <2>1. VaultEntry(r).secret = r
    BY DEF VaultEntry
  <2> QED  BY <1>2, <2>1 DEF CliAdds
<1>3. CASE GithubIssues(r)
  BY <1>3 DEF GithubIssues
<1>4. CASE Crash(r)
  BY <1>4 DEF Crash
<1>5. CASE RequestToken(r) \/ ReceiveToken(r) \/ TokenRequestFails(r) \/ Route(r)
  BY <1>5 DEF RequestToken, ReceiveToken, TokenRequestFails, Route
<1>6. CASE SendDeposit(r) \/ FetchIngestionKeyFails(r) \/ ReceiveReceipt(r) \/ DepositFails(r)
  BY <1>6 DEF SendDeposit, FetchIngestionKeyFails, ReceiveReceipt, DepositFails
<1>7. CASE PutEntry(r) \/ EntryAdded(r) \/ CliFails(r) \/ AddRefused(r)
  BY <1>7 DEF PutEntry, EntryAdded, CliFails, AddRefused
<1> QED
  BY <1>1, <1>2, <1>3, <1>4, <1>5, <1>6, <1>7 DEF ActionOf, Step, ProgramStep,
    CallReturns, Outside

\* What a verified run sends is a well-formed record.
LEMMA RecordTypes ==
  ASSUME TypeOK, NEW r \in Runs, issued[r] # NoGrant
  PROVE  Deposit(r) \in DepositRecord /\ VaultEntry(r) \in EntryRecord
<1>1. cmd[r] \in CommandLine /\ issued[r] \in Grant
  BY MintAssumption DEF TypeOK
<1>2. /\ cmd[r].project \in STRING
      /\ cmd[r].label \in STRING
      /\ cmd[r].ferryman_project \in STRING
      /\ issued[r].permissions \in PermissionMaps
  BY <1>1 DEF CommandLine, Grant
<1>3. ScopePairs(issued[r].permissions) \in SUBSET (Resources \X Levels)
  BY <1>2 DEF ScopePairs, PermissionMaps
<1>4. Tier(r) \in 0..2
  BY TierCases DEF Tier, MintedTier
<1>5. DepositMetadata(r) \in
        [project: STRING, provider: {"github"},
         scope: SUBSET (Resources \X Levels), tier: 0..2, label: STRING]
  BY <1>2, <1>3, <1>4 DEF DepositMetadata
<1>6. SealForIngestion(cmd[r].ferryman_project,
                       DepositAad(cmd[r].ferryman_project), r)
        \in [recipient: STRING,
             aad: {CONTRACT_VERSION} \X {INGESTION_IDENTITY_NAME} \X STRING,
             value: Runs]
  BY <1>2 DEF SealForIngestion, DepositAad
<1>7. Deposit(r) \in DepositRecord
  BY <1>2, <1>5, <1>6 DEF Deposit, DepositRecord, TypeOK
<1>8. VaultEntry(r) \in EntryRecord
  BY <1>2, <1>4 DEF VaultEntry, EntryRecord, GroupPath
<1> QED  BY <1>7, <1>8

\* While a run cannot be handed another token, what was decided on its
\* token stands.
LEMMA DecisionStands ==
  ASSUME NEW r \in Runs, issued'[r] = issued[r], cmd' = cmd
  PROVE  /\ Tier(r)' = Tier(r)
         /\ NeedsFerrymanDeposit(r)' = NeedsFerrymanDeposit(r)
         /\ Verified(r)' = Verified(r)
BY DEF Tier, NeedsFerrymanDeposit, Verified

-----------------------------------------------------------------------------
(* The invariant is inductive.                                             *)

\* Before any run has started nothing is outstanding and nothing is stored.
LEMMA InitEstablishes == Init => IInv
<1> SUFFICES ASSUME Init PROVE IInv
  OBVIOUS
<1>1. TypeOK
  BY DEF Init, TypeOK, Places, Ended, EarlyErrors, VaultErrors, OpenErrors
<1>2. ASSUME NEW r \in Runs PROVE RunInv(r)
  <2>1. /\ pc[r] = "start" /\ err[r] = "none" /\ call[r] = "none"
        /\ issued[r] = NoGrant /\ ~Deposited(r) /\ ~Cached(r)
    BY DEF Init, Deposited, Cached
  <2> QED
    BY <2>1 DEF RunInv, MayBeDeposited, MayBeCached, EarlyErrors, VaultErrors
<1>3. RecordsInv /\ OneDepositPerToken
  BY DEF Init, RecordsInv, OneDepositPerToken
<1> QED  BY <1>1, <1>2, <1>3 DEF IInv

\* Every step keeps every variable's type.
LEMMA TypeStep == IInv /\ [Next]_vars => TypeOK'
<1> SUFFICES ASSUME TypeOK, \A r \in Runs : RunInv(r), [Next]_vars
             PROVE  TypeOK'
  BY DEF IInv
<1> USE DEF Goto, Fail, Send, peers, vault
<1>1. ASSUME NEW r \in Runs, Step(r) PROVE TypeOK'
  <2> USE DEF TypeOK, Places, Ended, EarlyErrors, VaultErrors, OpenErrors
  <2>1. CASE RequestToken(r) \/ TokenRequestFails(r) \/ Route(r)
    BY <2>1 DEF RequestToken, TokenRequestFails, Route
  <2>2. CASE ReceiveToken(r)
    <3>1. VerifyNoScopeCreep(cmd[r].permissions, issued[r].permissions)
            \subseteq {"scope_creep", "unrecognized_permission"}
      BY DEF VerifyNoScopeCreep, CheckPermission
    <3> QED  BY <2>2, <3>1 DEF ReceiveToken
  <2>3. CASE SendDeposit(r) \/ FetchIngestionKeyFails(r) \/ DepositFails(r)
    BY <2>3 DEF SendDeposit, FetchIngestionKeyFails, DepositFails
  <2>4. CASE ReceiveReceipt(r)
    BY <2>4 DEF ReceiveReceipt
  <2>5. CASE PutEntry(r)
    <3>1. cmd[r].project \in STRING
      BY MintAssumption DEF CommandLine
    <3> QED  BY <2>5, <3>1 DEF PutEntry
  <2>6. CASE EntryAdded(r) \/ CliFails(r) \/ AddRefused(r)
    BY <2>6 DEF EntryAdded, CliFails, AddRefused
  <2> QED
    BY <1>1, <2>1, <2>2, <2>3, <2>4, <2>5, <2>6 DEF Step, ProgramStep, CallReturns
<1>2. ASSUME NEW r \in Runs, Crash(r) PROVE TypeOK'
  BY <1>2 DEF Crash, TypeOK, Places, Ended
<1>3. ASSUME NEW r \in Runs, GithubIssues(r) PROVE TypeOK'
  BY <1>3 DEF GithubIssues, TypeOK
<1>4. ASSUME NEW r \in Runs, FerrymanAccepts(r) PROVE TypeOK'
  <2>1. issued[r] # NoGrant
    BY <1>4 DEF FerrymanAccepts, RunInv, MayBeDeposited, Verified
  <2>2. Deposit(r) \in DepositRecord
    BY <2>1, RecordTypes
  <2> QED  BY <1>4, <2>2 DEF FerrymanAccepts, TypeOK
<1>5. ASSUME NEW r \in Runs, CliAdds(r) PROVE TypeOK'
  <2>1. issued[r] # NoGrant
    BY <1>5 DEF CliAdds, RunInv, MayBeCached, Verified
  <2>2. VaultEntry(r) \in EntryRecord
    BY <2>1, RecordTypes
  <2> QED  BY <1>5, <2>2 DEF CliAdds, TypeOK
<1>6. CASE DeployFerryman
  BY <1>6 DEF DeployFerryman, TypeOK
<1>7. CASE UNCHANGED vars
  BY <1>7 DEF vars, TypeOK
<1> QED  BY <1>1, <1>2, <1>3, <1>4, <1>5, <1>6, <1>7 DEF Next, Outside

\* An action of the run r keeps the invariant of r itself.
LEMMA OwnStep ==
  ASSUME IInv, NEW r \in Runs, ActionOf(r)
  PROVE  RunInv(r)'
<1>1. TypeOK /\ RunInv(r)
  BY DEF IInv
<1> USE DEF RunInv, BeforeCustody, MayBeDeposited, MayBeCached, Goto, Fail,
            Send, peers, vault, Ended, EarlyErrors, VaultErrors
<1>2. /\ r \in DOMAIN pc /\ r \in DOMAIN err
      /\ r \in DOMAIN call /\ r \in DOMAIN issued
  BY <1>1 DEF TypeOK
<1>3. ASSUME UNCHANGED <<cmd, issued>>
      PROVE  /\ NeedsFerrymanDeposit(r)' = NeedsFerrymanDeposit(r)
             /\ Verified(r)' = Verified(r)
  BY <1>3, DecisionStands
<1>4. ASSUME UNCHANGED deposits PROVE Deposited(r)' = Deposited(r)
  BY <1>4 DEF Deposited
<1>5. ASSUME UNCHANGED entries PROVE Cached(r)' = Cached(r)
  BY <1>5 DEF Cached
<1>6. CASE RequestToken(r)
  BY <1>1, <1>2, <1>3, <1>4, <1>5, <1>6 DEF RequestToken
<1>7. CASE ReceiveToken(r)
  <2>1. CASE VerifyNoScopeCreep(cmd[r].permissions, issued[r].permissions) = {}
             /\ Goto(r, "minted")
    <3>1. Verified(r)
      BY <1>7, <2>1 DEF ReceiveToken, Verified
    <3> QED  BY <1>1, <1>2, <1>3, <1>4, <1>5, <1>7, <2>1, <3>1 DEF ReceiveToken
  <2>2. CASE \E e \in VerifyNoScopeCreep(cmd[r].permissions, issued[r].permissions) :
               Fail(r, e)
    <3>1. VerifyNoScopeCreep(cmd[r].permissions, issued[r].permissions)
            \subseteq {"scope_creep", "unrecognized_permission"}
      BY DEF VerifyNoScopeCreep, CheckPermission
    <3>2. PICK e \in {"scope_creep", "unrecognized_permission"} : Fail(r, e)
      BY <2>2, <3>1
    <3> QED  BY <1>1, <1>2, <1>3, <1>4, <1>5, <1>7, <3>2 DEF ReceiveToken
  <2> QED  BY <1>7, <2>1, <2>2 DEF ReceiveToken
<1>8. CASE TokenRequestFails(r)
  BY <1>1, <1>2, <1>3, <1>4, <1>5, <1>8 DEF TokenRequestFails
<1>9. CASE Route(r)
  <2>1. CASE ~NeedsFerrymanDeposit(r) /\ Goto(r, "caching")
    <3>1. ~cmd[r].for_recipient
      BY <2>1 DEF NeedsFerrymanDeposit
    <3> QED  BY <1>1, <1>2, <1>3, <1>4, <1>5, <1>9, <2>1, <3>1 DEF Route
  <2>2. CASE Fail(r, "ferryman_not_given")
    BY <1>1, <1>2, <1>3, <1>4, <1>5, <1>9, <2>2 DEF Route
  <2>3. CASE NeedsFerrymanDeposit(r) /\ Goto(r, "fetching_key")
    BY <1>1, <1>2, <1>3, <1>4, <1>5, <1>9, <2>3 DEF Route
  <2> QED  BY <1>9, <2>1, <2>2, <2>3 DEF Route
<1>10. CASE SendDeposit(r)
  BY <1>1, <1>2, <1>3, <1>4, <1>5, <1>10 DEF SendDeposit
<1>11. CASE FetchIngestionKeyFails(r)
  BY <1>1, <1>2, <1>3, <1>4, <1>5, <1>11 DEF FetchIngestionKeyFails
<1>12. CASE ReceiveReceipt(r)
  BY <1>1, <1>2, <1>3, <1>4, <1>5, <1>12 DEF ReceiveReceipt
<1>13. CASE DepositFails(r)
  BY <1>1, <1>2, <1>3, <1>4, <1>5, <1>13 DEF DepositFails
<1>14. CASE PutEntry(r)
  BY <1>1, <1>2, <1>3, <1>4, <1>5, <1>14 DEF PutEntry
<1>15. CASE EntryAdded(r)
  BY <1>1, <1>2, <1>3, <1>4, <1>5, <1>15 DEF EntryAdded
<1>16. CASE CliFails(r)
  BY <1>1, <1>2, <1>3, <1>4, <1>5, <1>16 DEF CliFails
<1>17. CASE AddRefused(r)
  BY <1>1, <1>2, <1>3, <1>4, <1>5, <1>17 DEF AddRefused
<1>18. CASE Crash(r)
  BY <1>1, <1>2, <1>3, <1>4, <1>5, <1>18 DEF Crash
<1>19. CASE GithubIssues(r)
  <2>1. issued[r] = NoGrant
    BY <1>1, <1>19 DEF GithubIssues
  <2>2. ~Verified(r)
    BY <2>1 DEF Verified
  <2> QED  BY <1>1, <1>2, <1>4, <1>5, <1>19, <2>2 DEF GithubIssues
<1>20. CASE FerrymanAccepts(r)
  <2>1. Deposited(r)'
    <3>1. Deposit(r) \in deposits' /\ Deposit(r).sealed.value = r
      BY <1>20 DEF FerrymanAccepts, Deposit, SealForIngestion
    <3> QED  BY <3>1 DEF Deposited
  <2> QED  BY <1>1, <1>2, <1>3, <1>5, <1>20, <2>1 DEF FerrymanAccepts
<1>21. CASE CliAdds(r)
  <2>1. Cached(r)'
    <3>1. VaultEntry(r) \in entries' /\ VaultEntry(r).secret = r
      BY <1>21 DEF CliAdds, VaultEntry
    <3> QED  BY <3>1 DEF Cached
  <2> QED  BY <1>1, <1>2, <1>3, <1>4, <1>21, <2>1 DEF CliAdds
<1> QED
  BY <1>6, <1>7, <1>8, <1>9, <1>10, <1>11, <1>12, <1>13, <1>14, <1>15, <1>16,
     <1>17, <1>18, <1>19, <1>20, <1>21 DEF ActionOf, Step, ProgramStep,
    CallReturns, Outside

\* Every step keeps what IInv says of every run, those it does not move
\* included.
LEMMA RunStep == IInv /\ [Next]_vars => \A r \in Runs : RunInv(r)'
<1> SUFFICES ASSUME IInv, [Next]_vars, NEW q \in Runs PROVE RunInv(q)'
  OBVIOUS
<1>1. TypeOK /\ RunInv(q)
  BY DEF IInv
<1>2. ASSUME NEW r \in Runs, ActionOf(r) PROVE RunInv(q)'
  <2>1. CASE q = r
    BY <1>2, <2>1, OwnStep
  <2>2. CASE q # r
    BY <1>1, <1>2, <2>2, OtherRuns, FrameRun
  <2> QED  BY <2>1, <2>2
<1>3. CASE DeployFerryman
  <2>1. Deposited(q)' = Deposited(q) /\ Cached(q)' = Cached(q)
    BY <1>3 DEF DeployFerryman, Deposited, Cached, vault
  <2> QED  BY <1>1, <1>3, <2>1, FrameRun DEF DeployFerryman
<1>4. CASE UNCHANGED vars
  <2>1. Deposited(q)' = Deposited(q) /\ Cached(q)' = Cached(q)
    BY <1>4 DEF vars, Deposited, Cached
  <2> QED  BY <1>1, <1>4, <2>1, FrameRun DEF vars
<1> QED  BY <1>2, <1>3, <1>4 DEF Next, ActionOf

\* GitHub's answer to a run is final once the run has verified it.
LEMMA VerifiedGrantStands ==
  ASSUME IInv, [Next]_vars
  PROVE  /\ cmd' = cmd
         /\ \A q \in Runs : Verified(q) => issued'[q] = issued[q]
<1>1. CASE UNCHANGED vars
  BY <1>1 DEF vars
<1>2. CASE DeployFerryman
  BY <1>2 DEF DeployFerryman
<1>3. ASSUME NEW r \in Runs, Step(r) \/ Crash(r)
      PROVE  cmd' = cmd /\ issued' = issued
  BY <1>3 DEF Step, ProgramStep, CallReturns, Crash, RequestToken, ReceiveToken,
              TokenRequestFails, Route, SendDeposit, FetchIngestionKeyFails, ReceiveReceipt, DepositFails,
              PutEntry, EntryAdded, CliFails, AddRefused, peers
<1>4. ASSUME NEW r \in Runs, FerrymanAccepts(r) \/ CliAdds(r)
      PROVE  cmd' = cmd /\ issued' = issued
  BY <1>4 DEF FerrymanAccepts, CliAdds, peers
<1>5. ASSUME NEW r \in Runs, GithubIssues(r)
      PROVE  cmd' = cmd /\ \A q \in Runs : Verified(q) => issued'[q] = issued[q]
  <2>1. issued \in [Runs -> Grants \cup {NoGrant}] /\ ~Verified(r)
    BY <1>5 DEF GithubIssues, IInv, TypeOK, RunInv, Verified
  <2> QED  BY <1>5, <2>1 DEF GithubIssues
<1> QED  BY <1>1, <1>2, <1>3, <1>4, <1>5 DEF Next, Outside

\* The stores grow only by what FerrymanAccepts and CliAdds put there.
LEMMA StoresGrow ==
  ASSUME [Next]_vars
  PROVE  /\ \/ deposits' = deposits
            \/ \E r \in Runs : FerrymanAccepts(r)
         /\ \/ entries' = entries
            \/ \E r \in Runs : CliAdds(r)
BY DEF Next, vars, Step, ProgramStep, CallReturns, Outside, Crash,
       RequestToken, ReceiveToken,
       TokenRequestFails, Route, SendDeposit, FetchIngestionKeyFails,
       ReceiveReceipt, DepositFails, PutEntry, EntryAdded, CliFails, AddRefused,
       GithubIssues, FerrymanAccepts, CliAdds, DeployFerryman, peers, vault

\* Every step keeps the stored records those of the runs they name.
LEMMA RecordStep ==
  IInv /\ [Next]_vars => RecordsInv' /\ OneDepositPerToken'
<1> SUFFICES ASSUME IInv, [Next]_vars
             PROVE  RecordsInv' /\ OneDepositPerToken'
  OBVIOUS
<1>1. /\ RecordsInv /\ OneDepositPerToken
      /\ \A r \in Runs : RunInv(r)
  BY DEF IInv
<1>2. ASSUME NEW r \in Runs, MayBeDeposited(r) \/ MayBeCached(r)
      PROVE  Tier(r)' = Tier(r)
  <2>1. Verified(r)
    BY <1>1, <1>2 DEF RunInv
  <2> QED  BY <2>1, VerifiedGrantStands, DecisionStands
<1>3. \A d \in deposits :
        /\ d.sealed.value \in Runs
        /\ d.metadata.tier = Tier(d.sealed.value)'
  BY <1>1, <1>2 DEF RecordsInv, MayBeDeposited, Deposited
<1>4. \A e \in entries : e.secret \in Runs /\ e.tier = Tier(e.secret)'
  BY <1>1, <1>2 DEF RecordsInv, MayBeCached, Cached
<1>5. /\ \A d \in deposits' :
           d.sealed.value \in Runs /\ d.metadata.tier = Tier(d.sealed.value)'
      /\ OneDepositPerToken'
  <2>1. CASE deposits' = deposits
    BY <1>1, <1>3, <2>1 DEF OneDepositPerToken
  <2>2. CASE \E r \in Runs : FerrymanAccepts(r)
    <3>1. PICK r \in Runs : FerrymanAccepts(r)
      BY <2>2
    <3>2. deposits' = deposits \cup {Deposit(r)} /\ call[r] = "deposit"
      BY <3>1 DEF FerrymanAccepts
    <3>3. Deposit(r).sealed.value = r /\ Deposit(r).metadata.tier = Tier(r)'
      BY <1>2, <3>2 DEF Deposit, SealForIngestion, DepositMetadata, MayBeDeposited
    <3>4. \A d \in deposits : d.sealed.value # r
      BY <1>1, <3>2 DEF RunInv, Deposited
    <3> QED  BY <1>1, <1>3, <3>2, <3>3, <3>4 DEF OneDepositPerToken
  <2> QED  BY <2>1, <2>2, StoresGrow
<1>6. \A e \in entries' : e.secret \in Runs /\ e.tier = Tier(e.secret)'
  <2>1. CASE entries' = entries
    BY <1>4, <2>1
  <2>2. CASE \E r \in Runs : CliAdds(r)
    <3>1. PICK r \in Runs : CliAdds(r)
      BY <2>2
    <3>2. entries' = entries \cup {VaultEntry(r)} /\ call[r] = "add"
      BY <3>1 DEF CliAdds
    <3>3. VaultEntry(r).secret = r /\ VaultEntry(r).tier = Tier(r)'
      BY <1>2, <3>2 DEF VaultEntry, MayBeCached
    <3> QED  BY <1>4, <3>2, <3>3
  <2> QED  BY <2>1, <2>2, StoresGrow
<1> QED  BY <1>5, <1>6 DEF RecordsInv

\* The invariant holds in every reachable state.
THEOREM Invariance == Spec => []IInv
<1>1. Init => IInv
  BY InitEstablishes
<1>2. IInv /\ [Next]_vars => IInv'
  BY TypeStep, RunStep, RecordStep DEF IInv
<1> QED  BY <1>1, <1>2, PTL DEF Spec

-----------------------------------------------------------------------------
(* The properties of MintGithub.                                           *)

\* A token in custody was verified by the run that minted it.
LEMMA CustodyVerified ==
  ASSUME IInv, NEW r \in Runs, InCustody(r)
  PROVE  NotBroader(cmd[r].permissions, issued[r].permissions)
<1>1. Verified(r)
  BY DEF IInv, RunInv, InCustody, MayBeDeposited, MayBeCached
<1> QED  BY <1>1, VerifiedIsNotBroader DEF Verified

\* Every variable keeps its type.
THEOREM TypeCorrect == Spec => []TypeOK
<1>1. IInv => TypeOK
  BY DEF IInv
<1> QED  BY <1>1, Invariance, PTL

\* A token broader than requested reaches no store, however the runs
\* interleave, fail or are killed.
THEOREM QuarantineHolds == Spec => []Quarantine
<1>1. IInv => Quarantine
  BY CustodyVerified DEF Quarantine
<1> QED  BY <1>1, Invariance, PTL

\* A Tier 2 token is deposited before it is cached.
THEOREM Tier2Order == Spec => []Tier2LeavesFirst
<1>1. IInv => Tier2LeavesFirst
  BY DEF IInv, RunInv, MayBeCached, Tier2LeavesFirst, NeedsFerrymanDeposit
<1> QED  BY <1>1, Invariance, PTL

\* A token meant for someone else is never cached.
THEOREM RecipientsTokenLeaves == Spec => []ForRecipientNeverCached
<1>1. IInv => ForRecipientNeverCached
  BY DEF IInv, RunInv, MayBeCached, ForRecipientNeverCached
<1> QED  BY <1>1, Invariance, PTL

\* A token that may stay on the machine is not deposited.
THEOREM NothingElseLeaves == Spec => []DepositOnlyWhenMandatory
<1>1. IInv => DepositOnlyWhenMandatory
  BY DEF IInv, RunInv, MayBeDeposited, DepositOnlyWhenMandatory
<1> QED  BY <1>1, Invariance, PTL

\* What a run that reported success says of its token is true, and stays
\* true.
THEOREM SuccessIsTrue == Spec => []DoneMeansInCustody
<1>1. IInv => DoneMeansInCustody
  BY DEF IInv, RunInv, DoneMeansInCustody
<1> QED  BY <1>1, Invariance, PTL

\* What a run that reported an early error, or a vault error that settles
\* its put, says of its token is true, and no late effect changes it.
THEOREM FailureIsTrue == Spec => []RefusalIsFinal
<1>1. IInv => RefusalIsFinal
  BY DEF IInv, RunInv, MayBeDeposited, MayBeCached, RefusalIsFinal, InCustody
<1> QED  BY <1>1, Invariance, PTL

\* No token is deposited twice.
THEOREM DepositedOnce == Spec => []OneDepositPerToken
<1>1. IInv => OneDepositPerToken
  BY DEF IInv
<1> QED  BY <1>1, Invariance, PTL

\* The tier stored with a token is that of the worst permission granted.
THEOREM RecordedTierIsRight == Spec => []RecordedTierIsGranted
<1>1. ASSUME IInv PROVE RecordedTierIsGranted
  <2>1. ASSUME NEW r \in Runs
        PROVE  LET pairs == ScopePairs(issued[r].permissions)
               IN IF pairs = {} THEN Tier(r) = 2
                  ELSE /\ \A p \in pairs : Tier(r) >= TierOf({p})
                       /\ \E p \in pairs : Tier(r) = TierOf({p})
    BY TierCases, TierOfWorstPiece DEF Tier, MintedTier
  <2>2. /\ \A d \in deposits :
             d.sealed.value \in Runs /\ d.metadata.tier = Tier(d.sealed.value)
        /\ \A e \in entries : e.secret \in Runs /\ e.tier = Tier(e.secret)
    BY <1>1 DEF IInv, RecordsInv
  <2> QED  BY <2>1, <2>2 DEF RecordedTierIsGranted
<1> QED  BY <1>1, Invariance, PTL

\* What policy() answers for the scope requested bounds the tier of what is
\* stored, a grant that names no permission apart.
THEOREM PolicyIsHonest == Spec => []PolicyBoundsCustody
<1>1. ASSUME IInv PROVE PolicyBoundsCustody
  <2>1. ASSUME NEW r \in Runs, InCustody(r), DOMAIN issued[r].permissions # {}
        PROVE  Tier(r) <= Evaluate("github", ScopePairs(cmd[r].permissions)).tier
    <3>1. Tier(r) <= TierOf(ScopePairs(cmd[r].permissions))
      BY <1>1, <2>1, CustodyVerified, NotBroaderTier DEF Tier
    <3>2. Evaluate("github", ScopePairs(cmd[r].permissions)).tier
            = TierOf(ScopePairs(cmd[r].permissions))
      BY DEF Evaluate, TierOf
    <3> QED  BY <3>1, <3>2
  <2>2. /\ \A d \in deposits :
             /\ d.sealed.value \in Runs
             /\ InCustody(d.sealed.value)
             /\ d.metadata.tier = Tier(d.sealed.value)
        /\ \A e \in entries :
             /\ e.secret \in Runs
             /\ InCustody(e.secret)
             /\ e.tier = Tier(e.secret)
    BY <1>1 DEF IInv, RecordsInv, InCustody, Deposited, Cached
  <2> QED  BY <2>1, <2>2 DEF PolicyBoundsCustody
<1> QED  BY <1>1, Invariance, PTL

=============================================================================
