----------------------------- MODULE MintGithub -----------------------------
(***************************************************************************)
(* `custodly mint-github` (crates/custodly-cli/src/main.rs) from command   *)
(* line to custody: mint an installation token at GitHub, refuse it if it  *)
(* is broader than asked, score it, deposit it with Ferryman when it must  *)
(* leave the machine, cache it in working.kdbx when it may stay.           *)
(*                                                                         *)
(* Each element of Runs is one invocation of the program.  Invocations run *)
(* concurrently (nothing in the code excludes it) and a retry is another   *)
(* invocation with the same command line.  The run's token is named by the *)
(* run, which mints at most one.                                           *)
(*                                                                         *)
(* GitHub, Ferryman and keepassxc-cli are not part of the repository; they *)
(* are modelled by the answers the code handles.  A call outlives the run  *)
(* that made it: a request already sent, or a subprocess already fed its   *)
(* input, may still take effect after the run gave up or was killed.       *)
(***************************************************************************)
EXTENDS GithubGrant, FiniteSets

CONSTANTS
  Runs,          \* invocations of the program
  CommandLines,  \* the command lines they are given
  Grants,        \* the grants GitHub may answer with
  Repositories,  \* the repositories the installation covers
  Versions,      \* contract versions a Ferryman deployment may speak
  NoGrant        \* "GitHub has issued nothing to this run"

VARIABLES
  pc,        \* where each run is
  err,       \* the error a failed run reports
  cmd,       \* the command line, with the key read from stdin
  call,      \* the external call each run has outstanding
  issued,    \* GitHub: what the token of each run grants
  ferryman,  \* Ferryman: the contract version it speaks
  deposits,  \* Ferryman: the deposits it has accepted
  groups,    \* working.kdbx: its groups, one per project
  entries    \* working.kdbx: its entries

vars == <<pc, err, cmd, call, issued, ferryman, deposits, groups, entries>>
vault == <<groups, entries>>
peers == <<issued, ferryman, deposits>>

INGESTION_IDENTITY_NAME == "custodly-ingestion"

\* A --ferryman-project that was not given, or one of the three --ferryman-*
\* values missing.
NotGiven == "--"

CommandLine ==
  [pem:              {"empty", "unparseable", "valid"},  \* stdin
   permissions:      PermissionMaps,
   repository_ids:   SUBSET Repositories,
   project:          STRING,
   label:            STRING,
   for_recipient:    BOOLEAN,
   ferryman_project: STRING]

Grant == [permissions: PermissionMaps, repositories: SUBSET Repositories]

ASSUME MintAssumption ==
  /\ CommandLines \subseteq CommandLine
  /\ Grants \subseteq Grant
  /\ NoGrant \notin Grants
  /\ CONTRACT_VERSION \in Versions

Ended == {"done", "failed", "crashed"}

-----------------------------------------------------------------------------
(* What a run computes.                                                    *)

\* --repository-id not given: every repository the installation covers.
RequestedRepositories(c) ==
  IF c.repository_ids = {} THEN Repositories ELSE c.repository_ids

\* Mutant: the tier of what was requested.
TierOfRequest(r) == MintedTier(cmd[r].permissions)

Tier(r) == MintedTier(issued[r].permissions)

\* Mutant: the tier does not matter.
NeedsDepositForRecipientOnly(r) == cmd[r].for_recipient

NeedsFerrymanDeposit(r) == Tier(r) = 2 \/ cmd[r].for_recipient

DepositAad(project) == <<CONTRACT_VERSION, INGESTION_IDENTITY_NAME, project>>

\* A value sealed to the ingestion key of a project.
SealForIngestion(recipient, aad, value) ==
  [recipient |-> recipient, aad |-> aad, value |-> value]

DepositMetadata(r) ==
  [project  |-> cmd[r].project,
   provider |-> "github",
   scope    |-> ScopePairs(issued[r].permissions),
   tier     |-> Tier(r),
   label    |-> cmd[r].label]

\* The call deposit() makes, as Ferryman stores it.
Deposit(r) ==
  [deposit_id  |-> r,
   route       |-> cmd[r].ferryman_project,
   sealed      |-> SealForIngestion(cmd[r].ferryman_project,
                                    DepositAad(cmd[r].ferryman_project), r),
   metadata    |-> DepositMetadata(r),
   accepted_by |-> ferryman]

GroupPath(r) == <<cmd[r].project, cmd[r].label>>

VaultEntry(r) ==
  [group_path |-> GroupPath(r), secret |-> r, tier |-> Tier(r)]

Deposited(r) == \E d \in deposits : d.sealed.value = r
Cached(r)    == \E e \in entries : e.secret = r
InCustody(r) == Deposited(r) \/ Cached(r)

-----------------------------------------------------------------------------
(* Steps of a run.                                                         *)

Init ==
  /\ pc = [r \in Runs |-> "start"]
  /\ err = [r \in Runs |-> "none"]
  /\ cmd \in [Runs -> CommandLines]
  /\ call = [r \in Runs |-> "none"]
  /\ issued = [r \in Runs |-> NoGrant]
  /\ ferryman \in Versions
  /\ deposits = {}
  /\ groups = {}
  /\ entries = {}

Goto(r, place) ==
  /\ pc' = [pc EXCEPT ![r] = place]
  /\ UNCHANGED err

Fail(r, error) ==
  /\ pc' = [pc EXCEPT ![r] = "failed"]
  /\ err' = [err EXCEPT ![r] = error]

Send(r, kind) == call' = [call EXCEPT ![r] = kind]

\* Read the private key from stdin, sign the App JWT, post the request.
RequestToken(r) ==
  /\ pc[r] = "start"
  /\ \/ /\ cmd[r].pem = "empty"
        /\ Fail(r, "no_private_key")
        /\ UNCHANGED call
     \/ /\ cmd[r].pem = "unparseable"
        /\ Fail(r, "jwt")
        /\ UNCHANGED call
     \/ /\ cmd[r].pem = "valid"
        /\ Goto(r, "awaiting_token")
        /\ Send(r, "mint")
  /\ UNCHANGED <<cmd, peers, vault>>

\* GitHub answers: mint_installation_token verifies the grant before it
\* builds a MintedToken.
ReceiveToken(r) ==
  /\ pc[r] = "awaiting_token"
  /\ issued[r] # NoGrant
  /\ LET errors == VerifyNoScopeCreep(cmd[r].permissions, issued[r].permissions)
     IN \/ errors = {} /\ Goto(r, "minted")
        \/ \E e \in errors : Fail(r, e)
  /\ UNCHANGED <<cmd, call, peers, vault>>

\* No answer, or an answer that is not a success or does not parse.  The
\* request itself may have been, or may still be, carried out.
TokenRequestFails(r) ==
  /\ pc[r] = "awaiting_token"
  /\ Fail(r, "request")
  /\ UNCHANGED <<cmd, call, peers, vault>>

\* Mutant: deposit whenever the --ferryman-* values are there.
RouteDepositsIfGiven(r) ==
  /\ pc[r] = "minted"
  /\ IF cmd[r].ferryman_project # NotGiven
       THEN Goto(r, "fetching_key")
       ELSE Goto(r, "caching")
  /\ UNCHANGED <<cmd, call, peers, vault>>

\* Decide where the token goes.
Route(r) ==
  /\ pc[r] = "minted"
  /\ \/ /\ ~NeedsFerrymanDeposit(r)
        /\ Goto(r, "caching")
     \/ /\ NeedsFerrymanDeposit(r)
        /\ cmd[r].ferryman_project = NotGiven
        /\ Fail(r, "ferryman_not_given")
     \/ /\ NeedsFerrymanDeposit(r)
        /\ cmd[r].ferryman_project # NotGiven
        /\ Goto(r, "fetching_key")
  /\ UNCHANGED <<cmd, call, peers, vault>>

\* Mutant: the version is looked at after the deposit was posted.
SendDepositThenCheck(r) ==
  /\ pc[r] = "fetching_key"
  /\ \/ ferryman = CONTRACT_VERSION /\ Goto(r, "awaiting_receipt")
     \/ ferryman # CONTRACT_VERSION /\ Fail(r, "unsupported_version")
  /\ Send(r, "deposit")
  /\ UNCHANGED <<cmd, peers, vault>>

\* Fetch the ingestion key, check the version it was answered under, seal
\* to it and post the deposit.
SendDeposit(r) ==
  /\ pc[r] = "fetching_key"
  /\ \/ /\ ferryman = CONTRACT_VERSION
        /\ Goto(r, "awaiting_receipt")
        /\ Send(r, "deposit")
     \/ /\ ferryman # CONTRACT_VERSION
        /\ Fail(r, "unsupported_version")
        /\ UNCHANGED call
  /\ UNCHANGED <<cmd, peers, vault>>

\* The request fails, its answer does not parse, or the key it names is not
\* 32 bytes of hex and sealing refuses it.
FetchIngestionKeyFails(r) ==
  /\ pc[r] = "fetching_key"
  /\ Fail(r, "ingestion_key")
  /\ UNCHANGED <<cmd, call, peers, vault>>

\* Mutant: every deposited token is cached too.
ReceiveReceiptCaches(r) ==
  /\ pc[r] = "awaiting_receipt"
  /\ Deposited(r)
  /\ Goto(r, "caching")
  /\ UNCHANGED <<cmd, call, peers, vault>>

ReceiveReceipt(r) ==
  /\ pc[r] = "awaiting_receipt"
  /\ Deposited(r)
  /\ Goto(r, IF cmd[r].for_recipient THEN "done" ELSE "caching")
  /\ UNCHANGED <<cmd, call, peers, vault>>

\* Mutant: a deposit whose receipt did not arrive is made again.
DepositRetries(r) ==
  /\ pc[r] = "awaiting_receipt"
  /\ Goto(r, "fetching_key")
  /\ UNCHANGED <<cmd, call, peers, vault>>

DepositFails(r) ==
  /\ pc[r] = "awaiting_receipt"
  /\ Fail(r, "deposit")
  /\ UNCHANGED <<cmd, call, peers, vault>>

\* EntryMetadata::new refuses an empty project; then Vault::put makes the
\* project's group, whether or not mkdir succeeds, and starts `add`, unless
\* keepassxc-cli is not there or the keystore gives no password: an `add`
\* that has started then gets no input.
PutEntry(r) ==
  /\ pc[r] = "caching"
  /\ \/ /\ cmd[r].project = ""
        /\ Fail(r, "empty_project")
        /\ UNCHANGED <<call, groups>>
     \/ /\ cmd[r].project # ""
        /\ groups' \in {groups, groups \cup {cmd[r].project}}
        /\ \/ Goto(r, "adding") /\ Send(r, "add")
           \/ Fail(r, "cli_unavailable") /\ UNCHANGED call
  /\ UNCHANGED <<cmd, peers, entries>>

\* Mutant: the exit status of `add` is ignored.
EntryAddedUnchecked(r) ==
  /\ pc[r] = "adding"
  /\ Goto(r, "done")
  /\ UNCHANGED <<cmd, call, peers, vault>>

\* `add` exited with success.
EntryAdded(r) ==
  /\ pc[r] = "adding"
  /\ Cached(r)
  /\ Goto(r, "done")
  /\ UNCHANGED <<cmd, call, peers, vault>>

\* The wait for keepassxc-cli fails, or it ends without success.  The entry
\* may have been saved by then, and a subprocess that was only given up may
\* still save it.
CliFails(r) ==
  /\ pc[r] = "adding"
  /\ Fail(r, "cli_failed")
  /\ UNCHANGED <<cmd, call, peers, vault>>

\* keepassxc-cli refuses to add: the group is missing or the path is taken.
AddRefused(r) ==
  /\ pc[r] = "adding"
  /\ call[r] = "add"
  /\ \/ /\ cmd[r].project \notin groups
        /\ Fail(r, "no_group")
     \/ /\ \E e \in entries : e.group_path = GroupPath(r)
        /\ Fail(r, "entry_exists")
  /\ Send(r, "none")
  /\ UNCHANGED <<cmd, peers, vault>>

\* The process is killed anywhere before it ends.
Crash(r) ==
  /\ pc[r] \notin Ended
  /\ Goto(r, "crashed")
  /\ UNCHANGED <<cmd, call, peers, vault>>

-----------------------------------------------------------------------------
(* The outside world.                                                      *)

\* GitHub issues a token for a request it has received.
GithubIssues(r) ==
  /\ call[r] = "mint"
  /\ \E g \in Grants : issued' = [issued EXCEPT ![r] = g]
  /\ Send(r, "none")
  /\ UNCHANGED <<pc, err, cmd, ferryman, deposits, vault>>

\* Ferryman accepts a deposit it has received.
FerrymanAccepts(r) ==
  /\ call[r] = "deposit"
  /\ deposits' = deposits \cup {Deposit(r)}
  /\ Send(r, "none")
  /\ UNCHANGED <<pc, err, cmd, issued, ferryman, vault>>

\* keepassxc-cli adds the entry and saves the database.
CliAdds(r) ==
  /\ call[r] = "add"
  /\ cmd[r].project \in groups
  /\ ~\E e \in entries : e.group_path = GroupPath(r)
  /\ entries' = entries \cup {VaultEntry(r)}
  /\ Send(r, "none")
  /\ UNCHANGED <<pc, err, cmd, peers, groups>>

\* Ferryman is redeployed; the two repositories move at their own speed.
DeployFerryman ==
  /\ ferryman' \in Versions \ {ferryman}
  /\ UNCHANGED <<pc, err, cmd, call, issued, deposits, vault>>

-----------------------------------------------------------------------------
\* Steps the program takes by itself.
ProgramStep(r) == RequestToken(r) \/ Route(r) \/ PutEntry(r)

\* Steps it takes when a call it waits for returns.
CallReturns(r) ==
  \/ ReceiveToken(r) \/ TokenRequestFails(r)
  \/ SendDeposit(r) \/ FetchIngestionKeyFails(r)
  \/ ReceiveReceipt(r) \/ DepositFails(r)
  \/ EntryAdded(r) \/ CliFails(r) \/ AddRefused(r)

Step(r) == ProgramStep(r) \/ CallReturns(r)

Outside(r) == GithubIssues(r) \/ FerrymanAccepts(r) \/ CliAdds(r)

Next ==
  \/ \E r \in Runs : Step(r) \/ Crash(r) \/ Outside(r)
  \/ DeployFerryman

Spec == Init /\ [][Next]_vars

-----------------------------------------------------------------------------
(* Properties.                                                             *)

Places ==
  {"start", "awaiting_token", "minted", "fetching_key", "awaiting_receipt",
   "caching", "adding"} \cup Ended

\* Errors a run reports before it has posted a deposit or started an `add`.
EarlyErrors ==
  {"no_private_key", "jwt", "request", "scope_creep",
   "unrecognized_permission", "ferryman_not_given", "unsupported_version",
   "ingestion_key"}

\* Errors of storing an entry locally that leave nothing behind.
VaultErrors == {"empty_project", "cli_unavailable", "no_group", "entry_exists"}

\* Errors after which the effect asked for may or may not be there.
OpenErrors == {"deposit", "cli_failed"}

DepositRecord ==
  [deposit_id:  Runs,
   route:       STRING,
   sealed:      [recipient: STRING,
                 aad: {CONTRACT_VERSION} \X {INGESTION_IDENTITY_NAME} \X STRING,
                 value: Runs],
   metadata:    [project: STRING, provider: {"github"},
                 scope: SUBSET (Resources \X Levels), tier: 0..2,
                 label: STRING],
   accepted_by: Versions]

EntryRecord == [group_path: STRING \X STRING, secret: Runs, tier: 0..2]

\* Every variable has its type.
TypeOK ==
  /\ pc \in [Runs -> Places]
  /\ err \in [Runs -> {"none"} \cup EarlyErrors \cup VaultErrors \cup OpenErrors]
  /\ cmd \in [Runs -> CommandLines]
  /\ call \in [Runs -> {"none", "mint", "deposit", "add"}]
  /\ issued \in [Runs -> Grants \cup {NoGrant}]
  /\ ferryman \in Versions
  /\ deposits \subseteq DepositRecord
  /\ groups \subseteq STRING
  /\ entries \subseteq EntryRecord

\* The quarantine of app.rs:161-168: a token broader than its run requested
\* is in nobody's custody, whatever the run's requests do after it ended.
Quarantine ==
  \A r \in Runs :
    InCustody(r) => NotBroader(cmd[r].permissions, issued[r].permissions)

\* main.rs:199-251: custody of a Tier 2 token is with Ferryman before the
\* token is ever written to working.kdbx.
Tier2LeavesFirst ==
  \A r \in Runs : Cached(r) /\ Tier(r) = 2 => Deposited(r)

\* main.rs:253-256: a token meant for someone else never lands in
\* working.kdbx, deposited or not.
ForRecipientNeverCached ==
  \A r \in Runs : cmd[r].for_recipient => ~Cached(r)

\* main.rs:199-202: only what must leave the machine leaves it.
DepositOnlyWhenMandatory ==
  \A r \in Runs : Deposited(r) => NeedsFerrymanDeposit(r)

\* A run that reports success has put its token everywhere it had to go.
DoneMeansInCustody ==
  \A r \in Runs :
    pc[r] = "done" =>
      /\ NeedsFerrymanDeposit(r) => Deposited(r)
      /\ Cached(r) <=> ~cmd[r].for_recipient

\* An early error is final: the token is in no store and no late request or
\* orphaned subprocess puts it there.  A vault error that was given before
\* `add` had its input, or by `add` refusing, means as much for working.kdbx.
\* A deposit error, any other error of `add` and a crash leave it open.
RefusalIsFinal ==
  \A r \in Runs :
    /\ err[r] \in EarlyErrors => ~InCustody(r)
    /\ err[r] \in VaultErrors => ~Cached(r)

\* A token is deposited once, however often its run is retried and however
\* Ferryman is redeployed meanwhile.
OneDepositPerToken ==
  \A d, e \in deposits : d.sealed.value = e.sealed.value => d = e

\* app.rs:83-86: the recorded tier is that of the worst permission GitHub
\* granted, and 2 when it named none.
RecordedTierIsGranted ==
  LET Worst(r, tier) ==
        LET pairs == ScopePairs(issued[r].permissions)
        IN IF pairs = {} THEN tier = 2
           ELSE /\ \A p \in pairs : tier >= TierOf({p})
                /\ \E p \in pairs : tier = TierOf({p})
  IN /\ \A d \in deposits : Worst(d.sealed.value, d.metadata.tier)
     /\ \A e \in entries : Worst(e.secret, e.tier)

\* The answer policy() gives for the scope requested is never below the
\* tier the minted token is stored under, a grant that names no permission
\* apart: who was told 0 or 1 does not end up holding a Tier 2 token.
PolicyBoundsCustody ==
  LET Bounded(r, tier) ==
        \/ DOMAIN issued[r].permissions = {}
        \/ tier <= Evaluate("github", ScopePairs(cmd[r].permissions)).tier
  IN /\ \A d \in deposits : Bounded(d.sealed.value, d.metadata.tier)
     /\ \A e \in entries : Bounded(e.secret, e.tier)

-----------------------------------------------------------------------------
(* The abstract specification.                                             *)

Duty(r) ==
  IF issued[r] = NoGrant THEN "unknown"
  ELSE IF cmd[r].for_recipient THEN "remote"
  ELSE IF Tier(r) = 2 THEN "both" ELSE "local"

At(r) ==
  (IF Deposited(r) THEN {"ferryman"} ELSE {}) \cup
  (IF Cached(r) THEN {"vault"} ELSE {})

Outcome(r) ==
  CASE pc[r] = "done" -> "done"
    [] err[r] \in EarlyErrors -> "refused"
    [] err[r] \in VaultErrors -> "not_cached"
    [] err[r] = "cli_failed" -> "cache_unknown"
    [] err[r] = "deposit" \/ pc[r] = "crashed" -> "open"
    [] OTHER -> "running"

C == INSTANCE Custody WITH duty    <- [r \in Runs |-> Duty(r)],
                           at      <- [r \in Runs |-> At(r)],
                           outcome <- [r \in Runs |-> Outcome(r)]

\* However runs interleave, fail, are killed and have late effects, each of
\* their steps is one Custody allows, or none: a store is entered in order
\* and once, and no effect comes after a word that rules it out.
ImplementsCustody == C!Spec

-----------------------------------------------------------------------------
(* What the documentation says of the program and the program does not do. *)

\* docs/THREAT-MODEL.md:35-37: Tier 2 never sits in working.kdbx past the
\* acquisition that produced it.
Tier2NotInWorkingStore ==
  \A r \in Runs : pc[r] \in Ended /\ Cached(r) => Tier(r) # 2

\* app.rs:206-208: a token scoped to more than the grant asks for, which
\* names its repositories too, is not handed back.
RepositoriesNotBroader ==
  \A r \in Runs :
    InCustody(r) => issued[r].repositories \subseteq RequestedRepositories(cmd[r])

\* contract.rs:28-30: a payload of another contract version is rejected,
\* not used.
ReceiptVersionKnown ==
  \A d \in deposits :
    pc[d.sealed.value] = "done" => d.accepted_by = CONTRACT_VERSION

\* docs/mvp-scope.md:41-43: rotation is automatic.  A run that neither met
\* a fault nor refused its request has cached its token.
RotationIsAutomatic ==
  \A r \in Runs :
    /\ pc[r] \in {"done", "failed"}
    /\ ~cmd[r].for_recipient
    /\ err[r] \notin EarlyErrors \cup OpenErrors
                     \cup {"empty_project", "cli_unavailable", "no_group"}
    => Cached(r)

=============================================================================
