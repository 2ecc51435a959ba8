------------------------------- MODULE Custody ------------------------------
(***************************************************************************)
(* What `custodly mint-github` promises of the tokens it mints, however it *)
(* is done (docs/mvp-scope.md, docs/THREAT-MODEL.md): a token has a duty,  *)
(* which stores it must and may be in; it enters them in order, at most    *)
(* once each; and what the program says when it ends is true then and      *)
(* stays true.                                                             *)
(***************************************************************************)
CONSTANT Runs  \* the invocations; each mints at most one token

VARIABLES
  duty,    \* where the token of a run is to be kept
  at,      \* the stores that hold it
  outcome  \* what the run has said

vars == <<duty, at, outcome>>

Stores == {"ferryman", "vault"}
Duties == {"local", "both", "remote"}

Required(d) ==
  CASE d = "local"  -> {"vault"}
    [] d = "both"   -> {"ferryman", "vault"}
    [] d = "remote" -> {"ferryman"}

\* A run that has neither said nor ruled out that its token is in a store.
Undecided(r) == outcome[r] \in {"running", "open", "cache_unknown"}

TypeOK ==
  /\ duty \in [Runs -> Duties \cup {"unknown"}]
  /\ at \in [Runs -> SUBSET Stores]
  /\ outcome \in [Runs -> {"running", "done", "refused", "not_cached",
                        "cache_unknown", "open"}]

Init ==
  /\ duty = [r \in Runs |-> "unknown"]
  /\ at = [r \in Runs |-> {}]
  /\ outcome = [r \in Runs |-> "running"]

\* The token exists, and with its tier its duty.
Learn(r) ==
  /\ duty[r] = "unknown"
  /\ \E d \in Duties : duty' = [duty EXCEPT ![r] = d]
  /\ UNCHANGED <<at, outcome>>

\* The token enters a store: one that it is required in, and Ferryman first.
Enter(r, store) ==
  /\ duty[r] # "unknown"
  /\ Undecided(r)
  /\ store \in Required(duty[r]) \ at[r]
  /\ store = "vault" /\ duty[r] = "both" => "ferryman" \in at[r]
  /\ at' = [at EXCEPT ![r] = @ \cup {store}]
  /\ UNCHANGED <<duty, outcome>>

Say(r, what) ==
  /\ outcome[r] = "running"
  /\ outcome' = [outcome EXCEPT ![r] = what]
  /\ UNCHANGED <<duty, at>>

\* Success: the token is where it must be and nowhere else.
Finish(r) ==
  /\ duty[r] # "unknown"
  /\ at[r] = Required(duty[r])
  /\ Say(r, "done")

\* The token is in no store, and never will be.
Refuse(r) == at[r] = {} /\ Say(r, "refused")

\* The token is, and stays, with Ferryman alone if it had to go there, and
\* nowhere if not.
NotCached(r) ==
  /\ duty[r] # "unknown"
  /\ at[r] = Required(duty[r]) \ {"vault"}
  /\ Say(r, "not_cached")

\* The token is with Ferryman if it had to go there.  Whether it is in the
\* vault, or will be, is not known.
CacheUnknown(r) ==
  /\ duty[r] # "unknown"
  /\ Required(duty[r]) \ {"vault"} \subseteq at[r]
  /\ Say(r, "cache_unknown")

\* The run was killed, or a deposit was not acknowledged.
GiveUp(r) == Say(r, "open")

Next ==
  \E r \in Runs :
    \/ Learn(r)
    \/ \E store \in Stores : Enter(r, store)
    \/ Finish(r) \/ Refuse(r) \/ NotCached(r) \/ CacheUnknown(r) \/ GiveUp(r)

Spec == Init /\ [][Next]_vars

-----------------------------------------------------------------------------

\* What the steps amount to: a token is only where its duty wants it, with
\* Ferryman first, and where the run said it was.
Promises ==
  \A r \in Runs :
    /\ at[r] \subseteq IF duty[r] = "unknown" THEN {} ELSE Required(duty[r])
    /\ duty[r] = "both" /\ "vault" \in at[r] => "ferryman" \in at[r]
    /\ outcome[r] = "done" => duty[r] # "unknown" /\ at[r] = Required(duty[r])
    /\ outcome[r] = "refused" => at[r] = {}
    /\ outcome[r] = "not_cached" =>
         duty[r] # "unknown" /\ at[r] = Required(duty[r]) \ {"vault"}
    /\ outcome[r] = "cache_unknown" =>
         duty[r] # "unknown" /\ Required(duty[r]) \ {"vault"} \subseteq at[r]

=============================================================================
