--------------------------- MODULE CustodyProofs ---------------------------
(***************************************************************************)
(* MintGithub implements Custody, for any number of runs, any command      *)
(* lines and any grants: with the invariant of MintGithubProofs, every     *)
(* step of one run is one step of its token in Custody, or none.           *)
(***************************************************************************)
EXTENDS MintGithubProofs

\* What a run may say when it ends.
Words == {"done", "refused", "not_cached", "cache_unknown", "open"}

\* The steps Custody allows the token of one run.
Stutters(r) ==
  Duty(r)' = Duty(r) /\ At(r)' = At(r) /\ Outcome(r)' = Outcome(r)

Learns(r) ==
  /\ Duty(r) = "unknown"
  /\ Duty(r)' \in C!Duties
  /\ At(r)' = At(r) /\ Outcome(r)' = Outcome(r)

Enters(r, store) ==
  /\ Duty(r) # "unknown"
  /\ Outcome(r) \in {"running", "open", "cache_unknown"}
  /\ store \in C!Required(Duty(r)) \ At(r)
  /\ store = "vault" /\ Duty(r) = "both" => "ferryman" \in At(r)
  /\ At(r)' = At(r) \cup {store}
  /\ Duty(r)' = Duty(r) /\ Outcome(r)' = Outcome(r)

MaySay(r, what) ==
  \/ what = "done" /\ Duty(r) # "unknown" /\ At(r) = C!Required(Duty(r))
  \/ what = "refused" /\ At(r) = {}
  \/ /\ what = "not_cached"
     /\ Duty(r) # "unknown"
     /\ At(r) = C!Required(Duty(r)) \ {"vault"}
  \/ /\ what = "cache_unknown"
     /\ Duty(r) # "unknown"
     /\ C!Required(Duty(r)) \ {"vault"} \subseteq At(r)
  \/ what = "open"

Says(r, what) ==
  /\ Outcome(r) = "running"
  /\ MaySay(r, what)
  /\ Outcome(r)' = what
  /\ Duty(r)' = Duty(r) /\ At(r)' = At(r)

TokenStep(r) ==
  \/ Stutters(r)
  \/ Learns(r)
  \/ \E store \in C!Stores : Enters(r, store)
  \/ \E what \in Words : Says(r, what)

-----------------------------------------------------------------------------

\* A run whose view is not touched stands still in Custody.
LEMMA FrameToken ==
  ASSUME NEW q \in Runs,
         pc'[q] = pc[q], err'[q] = err[q], issued'[q] = issued[q], cmd' = cmd,
         Deposited(q)' <=> Deposited(q),
         Cached(q)' <=> Cached(q)
  PROVE  Stutters(q)
<1>1. Duty(q)' = Duty(q)
  BY DEF Duty, Tier
<1>2. At(q)' = At(q)
  BY DEF At
<1>3. Outcome(q)' = Outcome(q)
  BY DEF Outcome
<1> QED  BY <1>1, <1>2, <1>3 DEF Stutters

\* One token steps and the others stand still: a step of Custody.
LEMMA LiftStep ==
  ASSUME NEW r \in Runs, TokenStep(r), \A q \in Runs : q # r => Stutters(q)
  PROVE  [C!Next]_(C!vars)
<1> DEFINE duty    == [q \in Runs |-> Duty(q)]
           at      == [q \in Runs |-> At(q)]
           outcome == [q \in Runs |-> Outcome(q)]
<1>1. /\ duty' = [duty EXCEPT ![r] = Duty(r)']
      /\ at' = [at EXCEPT ![r] = At(r)']
      /\ outcome' = [outcome EXCEPT ![r] = Outcome(r)']
  BY DEF Stutters
<1>2. duty[r] = Duty(r) /\ at[r] = At(r) /\ outcome[r] = Outcome(r)
  OBVIOUS
<1>3. /\ Duty(r)' = Duty(r) => duty' = duty
      /\ At(r)' = At(r) => at' = at
      /\ Outcome(r)' = Outcome(r) => outcome' = outcome
  BY DEF Stutters
<1> HIDE DEF duty, at, outcome
<1>4. CASE Stutters(r)
  BY <1>3, <1>4 DEF Stutters, C!vars, duty, at, outcome
<1>5. CASE Learns(r)
  <2>1. C!Learn(r)
    BY <1>1, <1>2, <1>3, <1>5 DEF Learns, C!Learn, duty, at, outcome
  <2> QED  BY <2>1 DEF C!Next
<1>6. ASSUME NEW store \in C!Stores, Enters(r, store)
      PROVE  C!Next
  <2>1. C!Enter(r, store)
    BY <1>1, <1>2, <1>3, <1>6 DEF Enters, C!Enter, C!Undecided, duty, at, outcome
  <2> QED  BY <2>1 DEF C!Next
<1>7. ASSUME NEW what \in Words, Says(r, what)
      PROVE  C!Next
  <2>1. C!Say(r, what)
    BY <1>1, <1>2, <1>3, <1>7 DEF Says, C!Say, duty, at, outcome
  <2>2. C!Finish(r) \/ C!Refuse(r) \/ C!NotCached(r) \/ C!CacheUnknown(r) \/ C!GiveUp(r)
    BY <1>2, <1>7, <2>1
    DEF Says, MaySay, Words, C!Finish, C!Refuse, C!NotCached, C!CacheUnknown,
        C!GiveUp, duty, at, outcome
  <2> QED  BY <2>2 DEF C!Next
<1> QED  BY <1>4, <1>5, <1>6, <1>7 DEF TokenStep

\* What Duty says of a run that holds a token.
LEMMA DutyCases ==
  ASSUME NEW r \in Runs, issued[r] # NoGrant
  PROVE  /\ Duty(r) \in C!Duties
         /\ Duty(r) # "unknown"
         /\ "ferryman" \in C!Required(Duty(r)) <=> NeedsFerrymanDeposit(r)
         /\ "vault" \in C!Required(Duty(r)) <=> ~cmd[r].for_recipient
         /\ C!Required(Duty(r)) \subseteq C!Stores
         /\ Duty(r) = "both" => NeedsFerrymanDeposit(r)
BY DEF Duty, NeedsFerrymanDeposit, C!Duties, C!Required, C!Stores

\* A run that is under way has said nothing.
LEMMA Running ==
  ASSUME NEW r \in Runs, RunInv(r), pc[r] \notin Ended
  PROVE  Outcome(r) = "running"
BY DEF RunInv, Outcome, Ended, EarlyErrors, VaultErrors

\* A run that is moved on, or stopped, takes its token no further; what it
\* then says is what its place and its error mean.
LEMMA ControlStep ==
  ASSUME IInv, NEW r \in Runs, pc[r] \notin Ended,
         UNCHANGED <<cmd, issued, deposits, entries>>,
         \/ \E place \in Places \ Ended : Goto(r, place)
         \/ Goto(r, "crashed")
         \/ Fail(r, "deposit")
         \/ Goto(r, "done") /\ MaySay(r, "done")
         \/ \E e \in EarlyErrors : Fail(r, e) /\ MaySay(r, "refused")
         \/ \E e \in VaultErrors : Fail(r, e) /\ MaySay(r, "not_cached")
         \/ Fail(r, "cli_failed") /\ MaySay(r, "cache_unknown")
  PROVE  TokenStep(r)
<1>1. RunInv(r) /\ r \in DOMAIN pc /\ r \in DOMAIN err /\ Outcome(r) = "running"
  BY Running DEF IInv, TypeOK
<1>2. err[r] = "none"
  BY <1>1 DEF RunInv, Ended
<1>3. Duty(r)' = Duty(r) /\ At(r)' = At(r)
  BY DEF Duty, Tier, At, Deposited, Cached
<1> USE DEF Goto, Fail, Ended, EarlyErrors, VaultErrors
<1>4. CASE \E place \in Places \ Ended : Goto(r, place)
  <2>1. Outcome(r)' = "running"
    BY <1>1, <1>2, <1>4 DEF Outcome
  <2> QED  BY <1>1, <1>3, <2>1 DEF TokenStep, Stutters
<1>5. CASE Goto(r, "crashed") \/ Fail(r, "deposit")
  <2>1. Outcome(r)' = "open"
    BY <1>1, <1>2, <1>5 DEF Outcome
  <2> QED  BY <1>1, <1>3, <2>1 DEF TokenStep, Says, MaySay, Words
<1>6. CASE Goto(r, "done") /\ MaySay(r, "done")
  <2>1. Outcome(r)' = "done"
    BY <1>1, <1>6 DEF Outcome
  <2> QED  BY <1>1, <1>3, <1>6, <2>1 DEF TokenStep, Says, Words
<1>7. CASE \E e \in EarlyErrors : Fail(r, e) /\ MaySay(r, "refused")
  <2>1. Outcome(r)' = "refused"
    BY <1>1, <1>7 DEF Outcome
  <2> QED  BY <1>1, <1>3, <1>7, <2>1 DEF TokenStep, Says, Words
<1>8. CASE \E e \in VaultErrors : Fail(r, e) /\ MaySay(r, "not_cached")
  <2>1. Outcome(r)' = "not_cached"
    BY <1>1, <1>8 DEF Outcome
  <2> QED  BY <1>1, <1>3, <1>8, <2>1 DEF TokenStep, Says, Words
<1>9. CASE Fail(r, "cli_failed") /\ MaySay(r, "cache_unknown")
  <2>1. Outcome(r)' = "cache_unknown"
    BY <1>1, <1>9 DEF Outcome
  <2> QED  BY <1>1, <1>3, <1>9, <2>1 DEF TokenStep, Says, Words
<1> QED  BY <1>4, <1>5, <1>6, <1>7, <1>8, <1>9

\* Before its token went anywhere, a run may refuse; while it stores the
\* token locally, it may say that it does not know whether it did, that it
\* did not if it did not, and that it did once it did.
LEMMA MaySayCases ==
  ASSUME IInv, NEW r \in Runs
  PROVE  /\ pc[r] \in BeforeCustody => MaySay(r, "refused")
         /\ pc[r] \in {"caching", "adding"} /\ ~Cached(r) => MaySay(r, "not_cached")
         /\ pc[r] = "adding" => MaySay(r, "cache_unknown")
         /\ pc[r] = "adding" /\ Cached(r) => MaySay(r, "done")
         /\ pc[r] = "awaiting_receipt" /\ Deposited(r) /\ cmd[r].for_recipient
              => MaySay(r, "done")
<1>1. RunInv(r)
  BY DEF IInv
<1>2. ASSUME pc[r] \in BeforeCustody PROVE MaySay(r, "refused")
  BY <1>1, <1>2 DEF RunInv, MayBeDeposited, MayBeCached, MaySay, At
<1>3. ASSUME pc[r] \in {"caching", "adding"}
      PROVE  /\ issued[r] # NoGrant
             /\ ~cmd[r].for_recipient
             /\ Deposited(r) <=> NeedsFerrymanDeposit(r)
  BY <1>1, <1>3 DEF RunInv, Verified, MayBeDeposited
<1>4. ASSUME pc[r] \in {"caching", "adding"}, ~Cached(r)
      PROVE  MaySay(r, "not_cached")
  <2>1. At(r) = C!Required(Duty(r)) \ {"vault"}
    BY <1>3, <1>4, DutyCases DEF At, C!Stores
  <2> QED  BY <1>3, <1>4, <2>1, DutyCases DEF MaySay
<1>5. ASSUME pc[r] = "adding", Cached(r) PROVE MaySay(r, "done")
  <2>1. At(r) = C!Required(Duty(r))
    BY <1>3, <1>5, DutyCases DEF At, C!Stores
  <2> QED  BY <1>3, <1>5, <2>1, DutyCases DEF MaySay
<1>6. ASSUME pc[r] = "awaiting_receipt", Deposited(r), cmd[r].for_recipient
      PROVE  MaySay(r, "done")
  <2>1. /\ issued[r] # NoGrant
        /\ NeedsFerrymanDeposit(r)
        /\ ~Cached(r)
    BY <1>1, <1>6 DEF RunInv, Verified, MayBeCached
  <2>2. At(r) = C!Required(Duty(r))
    BY <1>6, <2>1, DutyCases DEF At, C!Stores
  <2> QED  BY <2>1, <2>2, DutyCases DEF MaySay
<1>7. ASSUME pc[r] = "adding" PROVE MaySay(r, "cache_unknown")
  <2>1. C!Required(Duty(r)) \ {"vault"} \subseteq At(r)
    BY <1>3, <1>7, DutyCases DEF At, C!Stores
  <2> QED  BY <1>3, <1>7, <2>1, DutyCases DEF MaySay
<1> QED  BY <1>2, <1>4, <1>5, <1>6, <1>7

\* A call that is outstanding carries a token that may enter its store.
LEMMA EffectStep ==
  ASSUME IInv, NEW r \in Runs, Outside(r)
  PROVE  TokenStep(r)
<1>1. TypeOK /\ RunInv(r)
  BY DEF IInv
<1> USE DEF Send, vault, peers
<1>2. CASE GithubIssues(r)
  <2>1. issued[r] = NoGrant /\ issued'[r] # NoGrant
    BY <1>1, <1>2, MintAssumption DEF GithubIssues, RunInv, TypeOK
  <2>2. Duty(r) = "unknown" /\ Duty(r)' \in C!Duties
    BY <2>1 DEF Duty, C!Duties
  <2>3. At(r)' = At(r) /\ Outcome(r)' = Outcome(r)
    BY <1>2 DEF GithubIssues, At, Deposited, Cached, Outcome
  <2> QED  BY <2>2, <2>3 DEF TokenStep, Learns
<1>3. CASE FerrymanAccepts(r)
  <2>1. /\ call[r] = "deposit" /\ ~Deposited(r)
        /\ issued[r] # NoGrant /\ NeedsFerrymanDeposit(r)
    BY <1>1, <1>3 DEF FerrymanAccepts, RunInv, MayBeDeposited, Verified
  <2>2. Outcome(r) \in {"running", "open"}
    BY <1>1, <2>1 DEF RunInv, MayBeDeposited, Outcome
  <2>3. Deposited(r)'
    <3>1. Deposit(r) \in deposits' /\ Deposit(r).sealed.value = r
      BY <1>3 DEF FerrymanAccepts, Deposit, SealForIngestion
    <3> QED  BY <3>1 DEF Deposited
  <2>4. /\ At(r)' = At(r) \cup {"ferryman"}
        /\ "ferryman" \notin At(r)
    <3>1. Cached(r)' = Cached(r)
      BY <1>3 DEF FerrymanAccepts, Cached
    <3> QED  BY <2>1, <2>3, <3>1 DEF At
  <2>5. Duty(r)' = Duty(r) /\ Outcome(r)' = Outcome(r)
    BY <1>3 DEF FerrymanAccepts, Duty, Tier, Outcome
  <2>6. Enters(r, "ferryman")
    BY <2>1, <2>2, <2>4, <2>5, DutyCases DEF Enters
  <2> QED  BY <2>6 DEF TokenStep, C!Stores
<1>4. CASE CliAdds(r)
  <2>1. /\ call[r] = "add" /\ ~Cached(r)
        /\ issued[r] # NoGrant /\ ~cmd[r].for_recipient
        /\ NeedsFerrymanDeposit(r) => Deposited(r)
    BY <1>1, <1>4 DEF CliAdds, RunInv, MayBeCached, Verified
  <2>2. Outcome(r) \in {"running", "open", "cache_unknown"}
    BY <1>1, <2>1 DEF RunInv, MayBeCached, Outcome
  <2>3. Cached(r)'
    <3>1. VaultEntry(r) \in entries' /\ VaultEntry(r).secret = r
      BY <1>4 DEF CliAdds, VaultEntry
    <3> QED  BY <3>1 DEF Cached
  <2>4. /\ At(r)' = At(r) \cup {"vault"}
        /\ "vault" \notin At(r)
        /\ "ferryman" \in At(r) <=> Deposited(r)
    <3>1. Deposited(r)' = Deposited(r)
      BY <1>4 DEF CliAdds, Deposited
    <3> QED  BY <2>1, <2>3, <3>1 DEF At
  <2>5. Duty(r)' = Duty(r) /\ Outcome(r)' = Outcome(r)
    BY <1>4 DEF CliAdds, Duty, Tier, Outcome
  <2>6. Enters(r, "vault")
    BY <2>1, <2>2, <2>4, <2>5, DutyCases DEF Enters
  <2> QED  BY <2>6 DEF TokenStep, C!Stores
<1> QED  BY <1>2, <1>3, <1>4 DEF Outside

\* Every action of a run is a step of its token.
LEMMA RunSimulates ==
  ASSUME IInv, NEW r \in Runs, ActionOf(r)
  PROVE  TokenStep(r)
<1>1. TypeOK /\ RunInv(r)
  BY DEF IInv
<1> USE DEF peers, vault, BeforeCustody, Ended, Places, EarlyErrors, VaultErrors
<1>2. CASE RequestToken(r)
  BY <1>2, ControlStep, MaySayCases DEF RequestToken
<1>3. CASE ReceiveToken(r)
  <2>1. VerifyNoScopeCreep(cmd[r].permissions, issued[r].permissions)
          \subseteq EarlyErrors
    BY DEF VerifyNoScopeCreep, CheckPermission
  <2> QED  BY <1>3, <2>1, ControlStep, MaySayCases DEF ReceiveToken
<1>4. CASE TokenRequestFails(r)
  BY <1>4, ControlStep, MaySayCases DEF TokenRequestFails
<1>5. CASE Route(r)
  BY <1>5, ControlStep, MaySayCases DEF Route
<1>6. CASE SendDeposit(r)
  BY <1>6, ControlStep, MaySayCases DEF SendDeposit
<1>7. CASE FetchIngestionKeyFails(r)
  BY <1>7, ControlStep, MaySayCases DEF FetchIngestionKeyFails
<1>8. CASE ReceiveReceipt(r)
  BY <1>8, ControlStep, MaySayCases DEF ReceiveReceipt
<1>9. CASE DepositFails(r)
  BY <1>9, ControlStep DEF DepositFails
<1>10. CASE PutEntry(r)
  <2>1. pc[r] = "caching" /\ ~Cached(r)
    BY <1>1, <1>10 DEF PutEntry, RunInv, MayBeCached
  <2> QED  BY <1>10, <2>1, ControlStep, MaySayCases DEF PutEntry
<1>11. CASE EntryAdded(r)
  BY <1>11, ControlStep, MaySayCases DEF EntryAdded
<1>12. CASE AddRefused(r)
  <2>1. pc[r] = "adding" /\ ~Cached(r)
    BY <1>1, <1>12 DEF AddRefused, RunInv
  <2> QED  BY <1>12, <2>1, ControlStep, MaySayCases DEF AddRefused
<1>13. CASE CliFails(r)
  BY <1>13, ControlStep, MaySayCases DEF CliFails
<1>14. CASE Crash(r)
  BY <1>14, ControlStep DEF Crash
<1>15. CASE Outside(r)
  BY <1>15, EffectStep
<1> QED
  BY <1>2, <1>3, <1>4, <1>5, <1>6, <1>7, <1>8, <1>9, <1>10, <1>11, <1>12,
     <1>13, <1>14, <1>15 DEF ActionOf, Step, ProgramStep, CallReturns

-----------------------------------------------------------------------------

\* The initial states are initial states of Custody.
LEMMA InitSimulates == Init => C!Init
<1> SUFFICES ASSUME Init PROVE C!Init
  OBVIOUS
<1>1. ASSUME NEW r \in Runs
      PROVE  Duty(r) = "unknown" /\ At(r) = {} /\ Outcome(r) = "running"
  BY DEF Init, Duty, At, Deposited, Cached, Outcome, EarlyErrors, VaultErrors
<1> QED  BY <1>1 DEF C!Init

\* Every step is a step of Custody or none.
LEMMA StepSimulates == IInv /\ [Next]_vars => [C!Next]_(C!vars)
<1> SUFFICES ASSUME IInv, [Next]_vars
             PROVE  [C!Next]_(C!vars)
  OBVIOUS
<1>1. ASSUME NEW r \in Runs, ActionOf(r)
      PROVE  [C!Next]_(C!vars)
  <2>1. TokenStep(r)
    BY <1>1, RunSimulates
  <2>2. \A q \in Runs : q # r => Stutters(q)
    BY <1>1, OtherRuns, FrameToken DEF IInv
  <2> QED  BY <2>1, <2>2, LiftStep
<1>2. CASE DeployFerryman \/ UNCHANGED vars
  <2>1. \A q \in Runs : Duty(q)' = Duty(q) /\ At(q)' = At(q) /\ Outcome(q)' = Outcome(q)
    BY <1>2 DEF DeployFerryman, vars, vault, Duty, Tier, At, Deposited, Cached, Outcome
  <2> QED  BY <2>1 DEF C!vars
<1> QED  BY <1>1, <1>2 DEF Next, ActionOf

\* `custodly mint-github` keeps what Custody promises, whatever its runs,
\* their calls and the outside world do.
THEOREM Refinement == Spec => ImplementsCustody
<1>1. Init => C!Init
  BY InitSimulates
<1>2. IInv /\ [Next]_vars => [C!Next]_(C!vars)
  BY StepSimulates
<1> QED  BY <1>1, <1>2, Invariance, PTL DEF Spec, ImplementsCustody, C!Spec

-----------------------------------------------------------------------------
(* What Custody itself amounts to, and so MintGithub with it.               *)

\* The promise to one run.
Promised(r) ==
  /\ Duty(r) \in C!Duties \cup {"unknown"}
  /\ At(r) \subseteq IF Duty(r) = "unknown" THEN {} ELSE C!Required(Duty(r))
  /\ Duty(r) = "both" /\ "vault" \in At(r) => "ferryman" \in At(r)
  /\ Outcome(r) = "done" => Duty(r) # "unknown" /\ At(r) = C!Required(Duty(r))
  /\ Outcome(r) = "refused" => At(r) = {}
  /\ Outcome(r) = "not_cached" =>
       Duty(r) # "unknown" /\ At(r) = C!Required(Duty(r)) \ {"vault"}
  /\ Outcome(r) = "cache_unknown" =>
       Duty(r) # "unknown" /\ C!Required(Duty(r)) \ {"vault"} \subseteq At(r)

\* A step of Custody is a step of one token: the converse of LiftStep.
LEMMA StepOfToken ==
  ASSUME [C!Next]_(C!vars), NEW q \in Runs
  PROVE  TokenStep(q)
<1> DEFINE duty    == [r \in Runs |-> Duty(r)]
           at      == [r \in Runs |-> At(r)]
           outcome == [r \in Runs |-> Outcome(r)]
<1>1. /\ duty[q] = Duty(q) /\ at[q] = At(q) /\ outcome[q] = Outcome(q)
      /\ duty'[q] = Duty(q)' /\ at'[q] = At(q)' /\ outcome'[q] = Outcome(q)'
  OBVIOUS
<1>2. DOMAIN duty = Runs /\ DOMAIN at = Runs /\ DOMAIN outcome = Runs
  OBVIOUS
<1>3. CASE UNCHANGED C!vars
  <2>1. duty' = duty /\ at' = at /\ outcome' = outcome
    BY <1>3 DEF C!vars
  <2> HIDE DEF duty, at, outcome
  <2> QED  BY <1>1, <2>1 DEF TokenStep, Stutters
<1>4. ASSUME NEW r \in Runs, C!Learn(r) PROVE TokenStep(q)
  <2>1. /\ duty[r] = "unknown" /\ at' = at /\ outcome' = outcome
        /\ \E d \in C!Duties : duty' = [duty EXCEPT ![r] = d]
    BY <1>4 DEF C!Learn
  <2> HIDE DEF duty, at, outcome
  <2>2. PICK d \in C!Duties : duty' = [duty EXCEPT ![r] = d]
    BY <2>1
  <2>3. CASE q = r
    BY <1>1, <1>2, <2>1, <2>2, <2>3 DEF TokenStep, Learns
  <2>4. CASE q # r
    BY <1>1, <1>2, <2>1, <2>2, <2>4 DEF TokenStep, Stutters
  <2> QED  BY <2>3, <2>4
<1>5. ASSUME NEW r \in Runs, NEW store \in C!Stores, C!Enter(r, store)
      PROVE  TokenStep(q)
  <2>1. /\ duty[r] # "unknown"
        /\ outcome[r] \in {"running", "open", "cache_unknown"}
        /\ store \in C!Required(duty[r]) \ at[r]
        /\ store = "vault" /\ duty[r] = "both" => "ferryman" \in at[r]
        /\ at' = [at EXCEPT ![r] = at[r] \cup {store}]
        /\ duty' = duty /\ outcome' = outcome
    BY <1>5 DEF C!Enter, C!Undecided
  <2> HIDE DEF duty, at, outcome
  <2>2. CASE q = r
    BY <1>1, <1>2, <2>1, <2>2 DEF TokenStep, Enters
  <2>3. CASE q # r
    BY <1>1, <1>2, <2>1, <2>3 DEF TokenStep, Stutters
  <2> QED  BY <2>2, <2>3
<1>6. ASSUME NEW r \in Runs,
             C!Finish(r) \/ C!Refuse(r) \/ C!NotCached(r) \/ C!CacheUnknown(r) \/ C!GiveUp(r)
      PROVE  TokenStep(q)
  <2>1. PICK what \in Words :
          /\ outcome[r] = "running"
          /\ outcome' = [outcome EXCEPT ![r] = what]
          /\ duty' = duty /\ at' = at
          /\ \/ what = "done" /\ duty[r] # "unknown" /\ at[r] = C!Required(duty[r])
             \/ what = "refused" /\ at[r] = {}
             \/ /\ what = "not_cached" /\ duty[r] # "unknown"
                /\ at[r] = C!Required(duty[r]) \ {"vault"}
             \/ /\ what = "cache_unknown" /\ duty[r] # "unknown"
                /\ C!Required(duty[r]) \ {"vault"} \subseteq at[r]
             \/ what = "open"
    BY <1>6 DEF C!Finish, C!Refuse, C!NotCached, C!CacheUnknown, C!GiveUp, C!Say, Words
  <2> HIDE DEF duty, at, outcome
  <2>2. CASE q = r
    BY <1>1, <1>2, <2>1, <2>2 DEF TokenStep, Says, MaySay
  <2>3. CASE q # r
    BY <1>1, <1>2, <2>1, <2>3 DEF TokenStep, Stutters
  <2> QED  BY <2>2, <2>3
<1> QED  BY <1>3, <1>4, <1>5, <1>6 DEF C!Next

\* Custody keeps its promises: a token is only where its duty wants it, with
\* Ferryman first, and where the run has said it is.
LEMMA CustodyPromises == C!Spec => []C!Promises
<1> DEFINE Inv == \A r \in Runs : Promised(r)
<1>1. C!Init => Inv
  BY DEF C!Init, Promised
<1>2. Inv /\ [C!Next]_(C!vars) => Inv'
  <2> SUFFICES ASSUME Inv, [C!Next]_(C!vars), NEW r \in Runs
               PROVE  Promised(r)'
    OBVIOUS
  <2>1. TokenStep(r) /\ Promised(r)
    BY StepOfToken
  <2>2. CASE Stutters(r)
    BY <2>1, <2>2 DEF Stutters, Promised
  <2>3. CASE Learns(r)
    BY <2>1, <2>3 DEF Learns, Promised, C!Duties
  <2>4. ASSUME NEW store \in C!Stores, Enters(r, store) PROVE Promised(r)'
    BY <2>1, <2>4 DEF Enters, Promised
  <2>5. ASSUME NEW what \in Words, Says(r, what)
        PROVE  Promised(r)'
    BY <2>1, <2>5 DEF Says, MaySay, Words, Promised
  <2> QED  BY <2>1, <2>2, <2>3, <2>4, <2>5 DEF TokenStep
<1>3. Inv => C!Promises
  BY DEF Promised, C!Promises
<1> QED  BY <1>1, <1>2, <1>3, PTL DEF C!Spec

\* `custodly mint-github` keeps them: no token is in a store it has no
\* business in, and what a run has said of its token is true ever after.
\* After an error of `add` that settles nothing a run has said no more than
\* that its token is with Ferryman if it had to go there.
THEOREM PromisesKept == Spec => []C!Promises
BY Refinement, CustodyPromises, PTL DEF ImplementsCustody

=============================================================================
