------------------------------ MODULE Keystore ------------------------------
(***************************************************************************)
(* The unlock password of working.kdbx                                     *)
(* (crates/custodly-vault/src/password.rs): get_or_create reads the OS     *)
(* keystore and, finding no entry, generates a password and stores it.     *)
(* The read and the write are two calls with nothing held between them.    *)
(*                                                                         *)
(* Each element of Calls is one call of get_or_create for one vault name.  *)
(* A `put` makes two and a `get` one, in as many processes as agents run.  *)
(* generate() draws 40 characters at random: the password a call generates *)
(* is named by the call.  The keystore is the operating system's.          *)
(***************************************************************************)
EXTENDS Naturals

CONSTANTS Calls,   \* calls of get_or_create
          NoEntry  \* keyring::Error::NoEntry, and the result of a failed call

ASSUME KeystoreAssumption == NoEntry \notin Calls

VARIABLES
  pc,         \* where each call is
  stored,     \* the keystore's entry: a password, or NoEntry
  generated,  \* the calls that found no entry and generated a password
  result,     \* the password each call has returned
  preceding   \* the calls that had returned when each one started

vars == <<pc, stored, generated, result, preceding>>

Returned == {c \in Calls : result[c] # NoEntry}

Init ==
  /\ pc = [c \in Calls |-> "start"]
  /\ stored = NoEntry
  /\ generated = {}
  /\ result = [c \in Calls |-> NoEntry]
  /\ preceding = [c \in Calls |-> {}]

Return(c, password) ==
  /\ pc' = [pc EXCEPT ![c] = "returned"]
  /\ result' = [result EXCEPT ![c] = password]

\* Mutant: what get_password answered is taken for what was generated.
LookupKeepsAnswer(c) ==
  /\ pc[c] = "start"
  /\ preceding' = [preceding EXCEPT ![c] = Returned]
  /\ \/ /\ stored # NoEntry
        /\ Return(c, stored)
        /\ UNCHANGED generated
     \/ /\ stored = NoEntry
        /\ generated' = generated \cup {stored}
        /\ pc' = [pc EXCEPT ![c] = "storing"]
        /\ UNCHANGED result
  /\ UNCHANGED stored

\* get_password: Ok, or NoEntry.
Lookup(c) ==
  /\ pc[c] = "start"
  /\ preceding' = [preceding EXCEPT ![c] = Returned]
  /\ \/ /\ stored # NoEntry
        /\ Return(c, stored)
        /\ UNCHANGED generated
     \/ /\ stored = NoEntry
        /\ generated' = generated \cup {c}
        /\ pc' = [pc EXCEPT ![c] = "storing"]
        /\ UNCHANGED result
  /\ UNCHANGED stored

\* Mutant: any error is taken for NoEntry.
LookupFailsGenerates(c) ==
  /\ pc[c] = "start"
  /\ pc' = [pc EXCEPT ![c] = "storing"]
  /\ generated' = generated \cup {c}
  /\ UNCHANGED <<stored, result, preceding>>

\* get_password fails with any other error.
LookupFails(c) ==
  /\ pc[c] = "start"
  /\ pc' = [pc EXCEPT ![c] = "failed"]
  /\ UNCHANGED <<stored, generated, result, preceding>>

\* set_password replaces whatever the entry holds by now.
Store(c) ==
  /\ pc[c] = "storing"
  /\ stored' = c
  /\ Return(c, c)
  /\ UNCHANGED <<generated, preceding>>

\* Mutant: the error of set_password is ignored.
StoreFailsReturns(c) ==
  /\ pc[c] = "storing"
  /\ Return(c, c)
  /\ UNCHANGED <<stored, generated, preceding>>

\* set_password fails: the generated password is dropped.
StoreFails(c) ==
  /\ pc[c] = "storing"
  /\ pc' = [pc EXCEPT ![c] = "failed"]
  /\ UNCHANGED <<stored, generated, result, preceding>>

\* The calling process is killed.
Crash(c) ==
  /\ pc[c] \in {"start", "storing"}
  /\ pc' = [pc EXCEPT ![c] = "crashed"]
  /\ UNCHANGED <<stored, generated, result, preceding>>

Next ==
  \E c \in Calls :
    \/ Lookup(c) \/ LookupFails(c)
    \/ Store(c) \/ StoreFails(c)
    \/ Crash(c)

Spec == Init /\ [][Next]_vars

-----------------------------------------------------------------------------
(* Properties.                                                             *)

\* Every variable has its type.
TypeOK ==
  /\ pc \in [Calls -> {"start", "storing", "returned", "failed", "crashed"}]
  /\ stored \in Calls \cup {NoEntry}
  /\ generated \subseteq Calls
  /\ result \in [Calls -> Calls \cup {NoEntry}]
  /\ preceding \in [Calls -> SUBSET Calls]

\* The entry exists and no call is about to store one.
Settled == stored # NoEntry /\ \A c \in Calls : pc[c] # "storing"

\* password.rs:17-24: once the entry exists and the first uses are over,
\* nothing replaces it again.  In particular a keystore that cannot be read
\* is not taken for an empty one.
KeptOnceSettled == [][Settled => stored' = stored /\ Settled']_vars

\* password.rs:17-22: a password that was handed out and is not the one the
\* keystore holds is the work of two calls that both found no entry.  One
\* first use alone, whatever fails and whoever is killed, hands out nothing
\* that the keystore does not keep.
OnlyRacesDisagree ==
  (\E c \in Returned : result[c] # stored)
    => \E c, d \in generated : c # d

-----------------------------------------------------------------------------
(* What the documentation says of the program and the program does not do. *)

\* password.rs:3-5: the first call generates and stores a password; every
\* later call returns the same one.
LaterCallsAgree ==
  \A c \in Returned : \A d \in preceding[c] : result[c] = result[d]

=============================================================================
