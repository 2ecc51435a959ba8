# Custodly: specification, model checking and proofs

TLA+ models of Custodly, checked with TLC and, for every value of their
constants, proved with TLAPS. Line references are to the repository's files;
`src/` is left out of `crates/...` and `docs/...`.

Custodly mints credentials and puts them in custody. It scores what a
credential can do (tiers 0 to 2), deposits what must leave the machine, sealed,
with the Ferryman, and keeps what may stay in a KeePass database, `working.kdbx`,
which it reads and writes through `keepassxc-cli`.

## 1. Inventory

| Component | State it keeps | Operations | Talks to |
|---|---|---|---|
| risk tiering, `custodly-core/src/tier.rs` | none; two flags while a scope string is read | `assess_github_scope`, `RiskAssessment::score` | called by `policy` and by `MintedToken::tier` |
| policy() answer, `policy.rs`, `server.rs` | none | `evaluate`, `GET /v1/boundary/policy` | asked by the Ferryman and by agents |
| GitHub App adapter, `custodly-github/src/app.rs` | none | `mint_jwt`, `mint_installation_token`, `verify_no_scope_creep`, `MintedToken::{scope_string,tier}` | GitHub over HTTPS |
| mint-github, `custodly-cli/src/main.rs` | the run's program counter; its token | the sequence mint, verify, score, deposit, cache | all of the others |
| boundary/v1 client, `client.rs`, `contract.rs` | none | `fetch_ingestion_key`, `deposit` | the Ferryman over HTTP |
| sealing, `seal.rs` | none | `seal`, `seal_to_hex` | - |
| entries and queries, `entry.rs` | none | `EntryMetadata::new`, `SecretQuery::new`, paths | the vault client |
| vault client, `custodly-vault/src/vault.rs` | `working.kdbx` | `put`, `get`, `ensure_group` | `keepassxc-cli` as a subprocess |
| vault password, `password.rs` | one OS keystore entry per vault name | `get_or_create` | the OS keystore |
| git-credential, `main.rs` | none | `get`, printed for git | the vault client |
| serve, `main.rs` | a listening socket | binds and serves the policy handler | HTTP |

**What interacts with what.** A run of `mint-github` reads a private key from
stdin, posts to GitHub, and checks and scores the answer; for Tier 2 or for
`--for-recipient` it asks the Ferryman for a key, seals and deposits; unless the
token is meant for somebody else it then calls `Vault::put`, which calls
`get_or_create` and `keepassxc-cli` twice each. All state that outlives a run is
outside the program: GitHub's issued tokens, the Ferryman's deposits, the
database file, the keystore entry. Nothing in the code locks any of them, and
nothing excludes two runs at a time.

**What is hard.** Three effects in three systems, any of which may fail after the
others happened; requests that take effect after the run that sent them gave up
or was killed; runs that interleave on one database and one keystore entry; a
Ferryman of another repository that is redeployed between two calls of a run;
the second mint under a label; a check that reads what was *requested* beside a
record that depends on what was *granted*.

**What makes each part correct.**

- *Tiering*: the answer depends on the set of pieces only, and is that of the
  worst one; nothing unrecognized gets below Tier 2.
- *policy()*: who was told "no gate" does not end up holding a Tier 2 token.
- *GitHub adapter*: a token broader than requested goes nowhere; the tier
  recorded is that of what GitHub granted.
- *mint-github*: Tier 2 leaves before it is cached, a recipient's token is never
  cached, nothing is deposited that need not be, a success is a success, and an
  error that settles where the token is stays right.
- *boundary client*: a token is deposited once; a payload of an unknown version
  is not used (the code does not achieve the second: section 5).
- *GitHub JWT*: a clock or a request a little off does no harm.
- *vault*: a path names one entry; an entry that was stored stays; a put or a get
  takes effect at one instant or not at all, and an answer that says which is
  true; a reader who asks by plain names gets a secret of the project it named;
  the notes give back the provenance that was written, or are refused (not so
  for an expiry: section 5).
- *password*: all calls agree on one password, forever (again, section 5).

The components with their status, and every hazard at its line, are in
`PROJECT.json`.

## 2. The modules

| Module | What it models | Code |
|---|---|---|
| `Tiering` | the score and the assessment of a *set* of scope pieces; `evaluate()` | `tier.rs`, `policy.rs` |
| `AssessScope` | the loop over the scope string, piece by piece | `tier.rs:138-184` |
| `GithubGrant` | permission maps, `verify_no_scope_creep`, the tier of a token | `app.rs:91-116`, 149-204 |
| `JwtClock` | the claims of the App JWT between two clocks | `app.rs:125-147` |
| `MintGithub` | concurrent runs of `mint-github` and everything they touch; extends `GithubGrant`, which extends `Tiering` | `main.rs:152-285`, `app.rs`, `client.rs`, `seal.rs`, `entry.rs`, `vault.rs` |
| `Custody` | what `mint-github` promises of a token: an abstract specification | - |
| `Vault` | concurrent calls of `put`, `get` and git-credential, each command a subprocess that reads and writes the whole file | `vault.rs:60-146`, `entry.rs:142-183`, `main.rs:286-302` |
| `AbstractVault` | what the vault promises: an abstract specification | - |
| `VaultNotes` | the text format of an entry's Notes | `vault.rs:149-218`, `entry.rs:90-121` |
| `Keystore` | concurrent calls of `get_or_create` | `password.rs` |
| `MC*` | the instances TLC checks | |
| `*Proofs` | theorems and their proofs | |

Three abstract specifications, and what is shown to implement each:

- `Tiering` says what the answer to a scope is, as a function of a set of pieces;
  `AssessScope` how the loop arrives at it (`LoopComputesAssessment`).
- `Custody` gives each token a duty (`local`, `both`, `remote`: the stores it must be
  in and the order it enters them) and says that what the program reports is
  true and stays true. `MintGithub` implements it (`ImplementsCustody`) under the
  mapping `Duty`, `At`, `Outcome`: a run that was killed and one whose deposit was not
  acknowledged say "open", which commits to nothing; one whose `add` failed
  otherwise than by refusing says "cache_unknown", which commits it to the deposit,
  if one was due, and to nothing about `working.kdbx`.
- `AbstractVault` is a store in which a put or a get takes effect at one instant.
  `Vault` implements it (`ImplementsAbstractVault`): the instant of a put is the save
  of its `add`, that of a get the moment its `show` has read the file, which the
  subprocess's copy of the file remembers. "stored" and "not_started" say whether the
  put took effect; "failed" does not, before its instant or after it.

**State and actions of `MintGithub`.** `pc[r]` is where run `r` is in `main.rs`:

| `pc[r]` | Code | Left by |
|---|---|---|
| `start` | `main.rs:167-185`, `app.rs:216-232` | `RequestToken`: empty stdin, a key that does not parse, or the request is sent |
| `awaiting_token` | `app.rs:221-241` | `ReceiveToken`: the grant is verified before there is a `MintedToken`; `TokenRequestFails` |
| `minted` | `main.rs:193-213` | `Route` |
| `fetching_key` | `client.rs:20-48`, `main.rs:224-244` | `SendDeposit`: the version is checked, the value sealed, the deposit posted; `FetchIngestionKeyFails` |
| `awaiting_receipt` | `client.rs:61-77`, `main.rs:236-260` | `ReceiveReceipt`, `DepositFails` |
| `caching` | `main.rs:265-276`, `vault.rs:90-115` | `PutEntry`: `EntryMetadata::new`, `mkdir` whose outcome is ignored, `add` is started, or cannot be |
| `adding` | `vault.rs:81-88` | `EntryAdded`; `CliFails`: the wait fails or the subprocess ends without success, with its save done, undone or still to come; `AddRefused` |

`call[r]` is the outstanding external call. It is *not* cleared when a run fails
(only a refusal by `add` itself ends its call) or crashes: `GithubIssues`, `FerrymanAccepts` and `CliAdds` may still happen, so
"the run reported an error" and "the effect did not happen" are different facts
here as they are in reality. A token is named by the run that mints it (a run
mints at most one), which is how a property can follow it from GitHub into
`deposits` and `entries`. In this module one `add` is atomic: that is what
`AbstractVault` promises of it when `keepassxc-cli` does not overwrite. So is the `mkdir`
before it; that a `mkdir` may outlive the wait for it is `Vault`'s subject.

**State and actions of `Vault`.** `pc[c]` is the command that call `c` has under way:
`mkdir` then `add` for a put, `show` for a get, nothing for git's store and erase.

| Step | Code |
|---|---|
| `Spawn`, `SpawnFails` | `run`, up to the end of its writes to stdin (`vault.rs:64-80`): the binary missing, the spawn, the keystore or the pipe failing |
| `RunReturns` | the subprocess has ended by itself: the exit status (81-88) and what `ensure_group`, `put` and `get` make of it |
| `RunFails` | the wait fails (81), the subprocess neither ended nor killed, or the subprocess dies after its work is done (82-86): an error either way |
| `RunError` | what the three make of an error: dropped (93), passed on (113), turned into `NotFound` (134) |
| `Ignore` | git-credential store and erase (`main.rs:292-295`) |
| `Crash` | the caller is killed; its subprocess is not |
| `Opens`, `Saves`, `Fails` | `keepassxc-cli`, external: it reads all, checks, changes its copy, writes all |
| `EditNotes` | the operator, in the KeePassXC window: Notes that no longer parse, or that name another project |

`child[c][k]` is how far the subprocess for command `k` of call `c` is, and
`snapshot[c][k]` the copy of the file it works on: one of each per command, because
the `mkdir` of a put whose wait failed may still be at work when its `add` is.
`got[c]` is the `VaultEntry` a get has returned, with the project that the Notes name,
as `decode_metadata` read it. `overwrites`, chosen
initially and never changed, says which kind of `keepassxc-cli` is installed: one
that saves over a file that has changed since it read it, or one that refuses.
`overlapped` is a history variable: such a save has happened. Projects and labels
are sequences of names and a path is their concatenation, because `format!("{}/{}")`
joins them without escaping: project `redaktly/ci` with label `key` and project
`redaktly` with label `ci/key` are one path.

**State and actions of `VaultNotes`.** A record is written (`Put`), the text is changed
by somebody, at most `MAX_EDITS` times (`DropLine`, `SpoilValue`, `CutShort`, all
external), and read (`Get`). A line is a sequence of tokens, which may be any set
(`Tokens`) with a blank, `"="`, the header, the keys, the tiers and the kinds of source
in it, so that splitting at the first `=`, trimming and the order in which a later
line replaces an earlier one are what the code does; a text is the sequence of
its lines, and a text inside a record may have several, which is how a
description can bring a `tier=0` of its own.

**State and actions of `JwtClock`.** `MintJwt` dates the claims by this machine's
clock, `drift` ahead of GitHub's, in milliseconds rounded down to seconds as
`timestamp()` does; `Arrive` is GitHub's check, `delay` later.

**State and actions of `Keystore`.** One call is `Lookup` (`get_password`), then,
if it found no entry, `Store` (`set_password`); each may fail, and the process
may be killed in between. `preceding` is a history variable, the calls that had
returned when one started: it is what "every later call" means.

**Mutants.** Beside some definitions stands an operator whose comment begins with
"Mutant:", the same definition with a plausible bug. It is in no specification.
`PROJECT.json` pairs each property with a mutant that breaks it; replacing the
definition by the mutant makes TLC report the property as violated, which shows
that the property depends on the code line the definition models.

**Abstractions.** A scope piece is the sequence `<<resource, level>>`, or a
sequence of one field when it has no colon; blanks are trimmed away. Permission
maps are functions. Sealing is the record of what was sealed, to which project's
key and under which associated data. Error messages are reduced to the branch
they come from. Neither the HTTP statuses nor the wording of errors matter to
any property. In `Vault` the secret of a put is the call itself and of the notes only
the project they name and whether they parse are kept; `VaultNotes` has the rest.

### External parts, and what is assumed of them

- *GitHub* answers a well-formed request with any grant at all (`Grants`), late,
  or never. Its resource names contain neither `,` nor `:`, so that the scope
  string built by `scope_string` splits into the pairs it was joined from. It
  accepts a JWT whose `iat` is not in the future, whose `exp` is, and by no more than
  ten minutes (`app.rs:135`).
- *The Ferryman* stores what it accepts, and may be redeployed with another
  contract version at any time (`DeployFerryman`).
- *keepassxc-cli* `add` refuses a path that is taken and a group that is missing,
  `mkdir` a group that exists or has no parent, `show` a path that names nothing;
  each decides on the copy of the file it read. A file is replaced as a whole: a
  reader never sees half of one. One that does not get all of its input, because
  the keystore gives no password or the pipe breaks (`vault.rs:74-79`), ends and saves
  nothing: `add` writes only once it has the password and the secret twice. That is
  all that is assumed of failures: a subprocess may fail or die before or after its
  save, and `run` may give it up at any time. A secret and notes are given and printed as they
  are, but for the lines `VaultNotes` is about.
- *The OS keystore* replaces an entry atomically (`set_password`).
- The cryptography is taken to be what it claims to be.

## 3. The runs

| Run | Instance | Question | Result |
|---|---|---|---|
| `assess_scope` | every scope string of up to 3 pieces of 7 kinds, two providers | does the loop compute the assessment of the set of pieces, is the tier that of the worst one? | holds |
| `mint_runs` | 2 concurrent runs, 7 command lines, 3 grants, 2 versions | do tokens go only where they may, are outcomes true, is it what `Custody` promises? | holds |
| `mint_data` | 1 run, every non-empty permission map requested against every map granted, 3 resources x 3 levels | is nothing broader stored, is the recorded tier right, does policy() bound it? | holds |
| `vault` | 3 concurrent calls in 4 combinations, both kinds of `keepassxc-cli` | what can be lost, can two entries share a path, whose secret can a reader get, does every call end, is it an atomic store? | holds |
| `vault_notes` | 81 records, texts of 1 to 3 lines, up to 2 edits | does a record come back, what can a text hide, what of an edited record is still what was written? | holds |
| `jwt_clock` | 3 instants, 18 drifts, 29 delays, to the millisecond | is the JWT accepted within the documented margins, and for how long? | holds |
| `keystore` | 4 concurrent calls, symmetric | who can disagree about the password, and can it change later? | holds |
| `later_calls_agree` | 3 calls | "every later call returns the same one" | violated |
| `tier2_not_in_working_store` | 1 run, Tier 2 | "never sit in `working.kdbx`" | violated |
| `rotation_is_automatic` | 2 runs, one label | "rotation ... automatic" | violated |
| `receipt_version_known` | 1 run, 2 versions | "check a received `contract_version`" | violated |
| `repositories_not_broader` | 1 run, 2 repositories | "refuse to hand it back if GitHub granted more" | violated |

**The properties, by what would break them.**

- `Tier2LeavesFirst`, `ForRecipientNeverCached`, `DepositOnlyWhenMandatory`: any
  change to the decision at `main.rs:202` or to the fall-through at 256.
- `DoneMeansInCustody`, `RefusalIsFinal`: an ignored exit status, an effect
  posted before a check. `RefusalIsFinal` says which errors settle the outcome.
  Two do not: "deposit", because `client.rs:69-77` cannot tell a deposit that was
  refused from one whose receipt was lost, and "cli_failed", because `vault.rs:81-86`
  cannot tell an `add` that saved from one that did not. Whoever reads either must
  look for the token where it was sent.
- `OneDepositPerToken`: a deposit that is retried. The program never retries, which is what makes the
  second hold: two deposits of one token would differ in the version that
  accepted them. A retry by the operator is another run with another token.
- `Quarantine`, `RecordedTierIsGranted`, `PolicyBoundsCustody`: the comparison of
  requested and granted levels, with the metadata baseline, unranked levels and
  grants that name no permission at all.
- `LoopComputesAssessment`, `TierIsWorstPiece`: a flag overwritten rather than
  accumulated, a piece skipped.
- `OnlyRacesDisagree`, `KeptOnceSettled`: any keystore error other than "no
  entry" taken for "no entry", a password returned although it was not stored.
- `ImplementsCustody`: an effect after the run has committed itself to what it
  said, a store entered twice or out of order, a duty that changes.
- `LostOnlyByOverlap`: an exit status that is not looked at. It also says where the
  danger is: with a `keepassxc-cli` that overwrites, two overlapping puts do lose
  entries whose put reported success (`Kept` of `AbstractVault` is all that is left),
  and nothing in the code prevents the overlap; with one that refuses, or one
  command at a time, nothing is lost.
- `PathsAreUnique`, `PlainQueriesAreExact`: an `add` that does not refuse, a path of
  fewer parts. A query whose project and label hold no `/` is handed a secret that
  was put under that project; one with a `/` may meet another project's. What the
  Notes *say* the project is, is another matter: `get` passes it on and compares it
  with nothing, so after an edit the entry returned may name any project.
- `ImplementsAbstractVault`: an answer that is not true at some moment of the call.
  `get` may say "not found" of an entry that is there, since it says so of every
  failure, and `put` may say "failed" of an entry it has stored or is about to store;
  the refinement shows that no other answer can be untrue, and that a secret
  handed out was in the store, under the path asked for, during the call.
- `RoundTrip`, `LaterFieldsStand`, `PartialWriteRefused`, `NothingIsInvented`: splitting
  at another `=`, the first of two lines winning, the mandatory field no longer
  last, a default where the code refuses.
  `NothingIsInvented` is about notes of one-line texts; what it leaves open is
  what the code does leave open: a free text may be what the editor put there,
  the provider may be empty, and an expiry may be lost.
- `DriftIsTolerated`, `ShortLived`: a margin dropped, or used up. A JWT is accepted
  for less than nine minutes after its signing plus the lead of the clock that
  dated it over GitHub's, which with the minute of lead that is tolerated makes
  less than ten; with a clock that lags, for less than nine.
- `EveryCallEnds`: a retry loop around a subprocess.

**Bounds, and why they are enough.** Two runs: every interaction between runs
goes through one group, one path, or the Ferryman's version, and involves a run
that acts and one that finds its effect. Two versions: the one the client knows
and one it does not; no code tells two unknown ones apart. Three resources: a
sensitive one, `metadata`, whose baseline is special, and an ordinary one; three
levels: the two with a rank and one without (`admin`). The command lines of
`mint_runs` are those that take every branch of `main.rs`; the data space is
explored separately, in `mint_data`, where one run suffices because grants of
different runs never meet. Scope strings of three pieces: two flags and an early
return have no memory of more than "before" and "now"; seven kinds are every
class the loop tells apart. Four keystore calls: two that race, one before or
after them, one more. Three vault calls: a subprocess that saves, one whose copy
that save makes stale, and a reader or a bystander; the four workloads are the
ways in which their groups and paths can meet (same path, same new group, paths
that meet by a `/`, nothing in common but the label). An edit may make the Notes
unparseable or name the one project of `NotedProjects`, `redaktly`, which is another
project's name in two of the workloads; what else they could name makes no
difference, as nothing reads it. The run has 285,200 distinct states, `mint_runs`
144,626 and `mint_data` 127,706. Notes: every record that
differs in one field from a plain one, or from one whose description brings a
line of its own, so that every field is the odd one and two odd fields meet; two
edits (`MAX_EDITS`), because a cut or a drop may uncover what a spoilt line hid.
The JWT: every margin in the code or the comment, a millisecond to either side,
at both edges of a second. The theorems remove the bounds for every safety
property (section 4).

**Deadlock.** All runs but `assess_scope` set `CHECK_DEADLOCK FALSE` because the system
does stop: all runs have ended, all calls returned. That none is stuck before its
end is what `EveryCallEnds` checks of the vault's calls; a run of `mint-github` may
be stuck, waiting for a peer that says nothing. `AssessScope` has no final state
without a step and is checked for deadlock.

**Fairness.** Only `Vault` has any. `FairSpec` has weak fairness on `Proceeds(c)`, what
the caller does by itself once its subprocess has ended, and on `Subprocess(c, k)`: a
`keepassxc-cli` that has all its input, which `run` writes and closes before it waits
(`vault.rs:74-81`), ends. It waits for no other process; a version that waited for a
lock held by a hung one would break that assumption. Neither a wait that fails, nor
crashes, nor edits are fair. `MintGithub` has none, and no liveness property: no HTTP
client here sets a timeout (`client.rs:27`, `app.rs:221`), so a peer that keeps a
connection open and says nothing stops a run for ever, and a fairness assumption
that says otherwise would be about the peers and not about this code.

## 4. Proofs

| Module | Theorems |
|---|---|
| `TieringProofs` | `TierOfWorstPiece`: the tier of any non-empty set of pieces is the largest tier of a single one |
| `AssessScopeProofs` | `ScopeTypeCorrect`, `LoopIsCorrect`, `WorstPieceDecides`: for scope strings of any length |
| `MintGithubProofs` | `VerifiedIsNotBroader`, `NotBroaderTier`, about the operators of `GithubGrant`: for any resources and levels. `TypeCorrect`, `QuarantineHolds`, `Tier2Order`, `RecipientsTokenLeaves`, `NothingElseLeaves`, `SuccessIsTrue`, `FailureIsTrue`, `DepositedOnce`, `RecordedTierIsRight`, `PolicyIsHonest`: for any number of runs, any command lines and any grants |
| `CustodyProofs` | `Refinement`: `MintGithub` implements `Custody`, for the same constants; `PromisesKept`: the promises of `Custody` hold of it |
| `KeystoreProofs` | `KeystoreTypeCorrect`, `OnlyRacesDisagreeHolds`, `KeptOnceSettledHolds`: for any number of calls |
| `JwtClockProofs` | `TypeCorrect`, `ToleranceHolds`, `ShortLivedHolds`: for all instants, drifts and delays |
| `VaultProofs` | `VaultTypeCorrect`, `LossHolds`, `UniquePathsHold`, `PlainQueriesHold`, and `VaultRefinement`: `Vault` implements `AbstractVault`; `VaultPromises`: the promises of `AbstractVault` hold of it; for any number of calls and any workloads |
| `VaultNotesProofs` | `NotesTypeOK`, `RoundTripHolds`, `LaterFieldsStandHolds`, `PartialWriteRefusedHolds`, `NotesRecoverable`, `NothingIsInventedHolds`: for texts of any length, made of any tokens, and any number of edits |

They assume what the modules state about their constants and nothing else:
`MintAssumption` (command lines and grants are records of the right shape,
`NoGrant` is none of them, the client's own contract version is one that a
Ferryman may speak), `ScopesAssumption` (a piece has one field or two),
`KeystoreAssumption` (`NoEntry` is no password), `ClockAssumption` (instants and delays
are natural numbers, drifts integers), `VaultAssumption` (a request has a project
and a label, each a sequence of at least one name: `EntryMetadata::new` refuses an
empty project, and an empty label is a path that ends in an empty name; what an
edit makes the Notes name is a sequence of at least one name too),
`NotesAssumption` (the separator, the blank, the header, the keys, the kinds and the
tiers are tokens; a time is a token that is not blank, not the model's junk and
not "no time"; what put is called with is a record of `EntryMetadata`'s shape).

**The argument of `MintGithubProofs`.** None of the invariants is inductive as it
stands, because an effect may happen after its run has ended: to know that a
late `FerrymanAccepts` or `CliAdds` is harmless, the *outstanding call* must carry
the guarantees that its effect will need. So `IInv` says of every run that a call
"deposit" or "add" is only outstanding if the token was verified and must, or may,
go there; that "add" for a Tier 2 token is only outstanding once the deposit is
there; that an early error has neither a deposit nor an `add` outstanding, and a
vault error that settles the put no `add`; and which program counters are
compatible with which call. The records in the
stores are tied to the runs by `RecordsInv` (a record says what its run says, and
a run's grant does not change once it is issued). `OneDepositPerToken` is a conjunct
of `IInv`; it needs that a run whose "deposit" is outstanding has not deposited yet.
Preservation has one step per action; the tier facts come from
`VerifiedIsNotBroader` and `NotBroaderTier`, and those from `TieringProofs`.

**The argument of `CustodyProofs`.** `IInv` says enough of a state to say what a step
may do to its token: `ControlStep` covers the steps that move a run and leave the
stores alone, `EffectStep` the two that put a token into a store, and both are
about one token, because `FrameToken` shows that the others' views do not change.
The two places where it could fail are a late effect after the run spoke, which
`IInv`'s account of outstanding calls excludes except where the run said "open" or "cache_unknown",
and the duty, which is settled with the verified grant and does not change.
What `Custody` amounts to is written at its end, as `Promises`: a token is nowhere
its duty does not want it, Ferryman has it first where both do, and what a run
said of it is true ever after ("done", "refused" and "not_cached" say where it is and is
not, "cache_unknown" only that Ferryman has it if it had to). It is proved of `Custody` alone, whose steps are few
(`CustodyPromises`), and `Refinement` carries it over to the program.

**The argument of `VaultProofs`.** The invariant `VInv` cannot speak of `db` alone: a
stale copy may become `db`, saved by a subprocess that nobody waits for any more. It
says of `db` and of every copy, one per call and command, that its entries are those
of puts whose `add` has saved (`MadeByPuts`), one per path, and that unless a save has
run over a change, what was written is there (`Kept`). `CallInv` says how far a
subprocess can be for what its caller has done and said: "stored" only after the
save, "not_started" only with no `add` at all, and nothing for "failed". `GotInv` says
that what a get was handed is a secret whose put has saved it under the path asked
for; the project in the Notes is nowhere in the invariant, because an edit may
change it. A path of two names is one name each of project and label (`TwoNames`),
which with `GotInv` is `PlainQueriesAreExact`. For the refinement `Roles` adds that a call
does only what it was asked to; `CallerSimulates` and `ChildSimulates` go through the
steps, and `SaveKeeps` is the heart of it: what a save keeps of the copy it was made
from is what `AbstractVault` allows it to keep, all of it or, where saves overwrite,
some of what was written. `VaultPromises` is proved the same way as `PromisesKept`:
`AbstractVault` keeps its `Promises` (`AbstractPromises`), so the vault does. A put that was
told "stored" did take effect and one that was told "not_started" never will; one that
was told "failed" may do either. A get finds nothing but what puts stored under its
path and is handed one of the secrets it found, and unless saves overwrite the store
is all that was stored, each path once. With saves that overwrite nothing is
promised of completeness; there, that no path names two entries is `UniquePathsHold`.

**The argument of `VaultNotesProofs`.** Trimming, splitting and replacing a field are
all about a first or a last position: of the ink in a line, of its first `=`, of
the last line with a key. A non-empty set of positions has a first and a last
element (`MinOfPositions`, `MaxOfPositions`), and that replaces every induction over
a sequence. A written line begins with its key and `=`, neither of them blank, so
it is split there whatever its value holds (`FieldLine`); the lines of a field are
followed by those of the next, whatever lines the text brings, so the three
fields at the end stand on the last three lines (`Encoded`). From the state the
first three properties need only `Kept`: notes that nobody edited are what was
written. `PartialWriteRefused` is about the text alone: above the last line there
is no tier, so a cut text has one only if the whole last line is there, and then
it is not cut.

`NothingIsInvented` is not implied by `Kept`, because an edit may follow an edit: a
line may be spoilt and then cut, and the drop of the lines below it may leave it
the last. `Recoverable` says what no number of edits can undo: every line
but the last is unread, or has a key other than `tier` with the value that was
written, or nothing, or junk; the last one may also be what is left of such a
line, or a tier that is whole, empty or junk. A line that is cut is the last, and
one that is not the last is never cut, so when a tier is read the last line is
the tier's and every field above it is whole (`RecoverableFields`). An empty or
junk value does not parse as a tier, a time or a source, and what is left is what
was written; as a free text, junk is as good as any other, an empty provider is
not looked at, and an expiry that does not parse is read as none, which is why the
property names what each of these fields may be instead.

**The argument of `JwtClockProofs`.** Rounding down loses less than a second
(`TimestampBounds`), so the claims lie within a second of what they would be on
exact clocks (`ClaimsBounds`); the rest is linear arithmetic.

**The argument of `AssessScopeProofs`.** The loop invariant says that each flag is
what the definition on sets gives for the pieces before `next`, and that all of
those are recognized.

**The argument of `KeystoreProofs`.** A password that was stored or returned was
generated, or is what was stored before; while one call alone has generated,
`stored` and every result are that call's.

**Only model-checked.** `EveryCallEnds`: liveness under fairness is out of the
prover's reach. Every other property of a passing run
is a theorem. The five violations are counterexamples of TLC; a counterexample needs
no proof.

## 5. Where code and documentation disagree

Each has a run whose counterexample shows it, and an entry under "findings".

1. `LaterCallsAgree`: two first uses that both find no entry leave the first
   caller with a password that is not in the keystore (`password.rs:17-22` against
   3-5). `OnlyRacesDisagree` shows that nothing else can.
2. `Tier2NotInWorkingStore`: after its deposit a Tier 2 token for the local operator
   is cached in `working.kdbx` (`main.rs:256-276` against `docs/THREAT-MODEL.md:34-37`).
3. `RotationIsAutomatic`: `put` only ever adds, so the second mint under a label
   fails after it has minted (`vault.rs:107` against `docs/mvp-scope.md:42-43`).
4. `ReceiptVersionKnown`: the receipt's version is not looked at (`client.rs:77`
   against `contract.rs:28-30`).
5. `RepositoriesNotBroader`: only permissions are compared (`app.rs:240` against
   206-208).

Seen while modelling, without a run:

- Tier 2 "always requires explicit human approval, every time" (`tier.rs:75-76`), but
  no step of a run asks for one or looks one up; what a Tier 2 token changes is
  that it must be deposited (`main.rs:202`).
- `ensure_group` is documented to ensure that the group exists (`vault.rs:90-91`) and
  returns `Ok` whatever `mkdir` said, also when there is no group; `add` then fails.
- `NotFound` is described as "a query that doesn't resolve to exactly that one
  entry" (`vault.rs:122-123`); it is also the answer to a wrong password, a missing
  binary and an unreadable file (134).
- An entry "can't end up filed under a project other than the one its own metadata
  names" (`entry.rs:8-10`): with a `/` in a name it is filed under a group that is also
  another project's.
- "`None` for anything short of a complete, valid record" (`vault.rs:177-178`): a
  record whose `expires_at` does not parse, or is missing, is read as one that never
  expires (203-206). `NothingIsInvented` states what the code does here, not what
  the comment says.
- `verify_no_scope_creep` counts a *requested* level it cannot rank as `u8::MAX`
  (`app.rs:195`), so a request for `admin`, or for any level it does not know, admits `write`; a
  *granted* level it cannot rank is refused. `Quarantine` takes that order for the
  meaning of "broader".
- A `found_at` of a migrated entry that brings a line `acquired_via=...` hides the
  kind it was recorded under, and any text may do so to a field above it; nothing
  in the program sets a `found_at` yet.
- "so a slow request never straddles expiry mid-call" (`app.rs:135-136`): no request
  has a timeout, so one may; `ShortLived` says what then happens at GitHub.
- `policy.rs:24-30` and `docs/BOUNDARY.md:70-72` list different `requires` for Tier 2;
  `DepositMetadata.project` is described as the project the Ferryman knows
  (`contract.rs:61-64`) but holds Custodly's own name for it (`main.rs:215`, the route
  being the one at 238); an empty `--project` is accepted with `--for-recipient`, since only
  `EntryMetadata::new` checks it; a deposit request carries no `contract_version`,
  which `docs/BOUNDARY.md:22` wants on every payload.

## 6. What is not modelled, and the plan

Not modelled: the cryptography, the HTTP framework and the CLI parser (libraries);
`/healthz` and `serve`, which keep no state and hand every request to the handler
that `Tiering` and `AssessScope` model; the quality of random numbers. No property
here speaks of an entry past its `expires_at`: no code reads it, git-credential
included (`main.rs:298`).

What could follow, in the order in which it matters:

1. `Keystore` composed with `Vault`: which password a database was created with and
   which one a call gives it. A caller that lost the race of `later_calls_agree`
   has a password the database will not open with, which `Vault` has as any other
   failed subprocess. Creating the database is outside the program, so the
   composition would be with an operator's step.
2. `MintGithub` over `AbstractVault` instead of its own atomic `add`, with an overlapping
   save as one more outcome of a run that reported success.
3. The notes of an entry as `keepassxc-cli` prints them: whether it changes line ends
   or drops a trailing blank is not known from this repository.
