--------------------------- MODULE KeystoreProofs ---------------------------
(***************************************************************************)
(* Module Keystore for any number of calls.                                *)
(***************************************************************************)
EXTENDS Keystore, TLAPS

\* Every password in the keystore or in a caller's hands was generated by a
\* call that found no entry, and a call that returned left an entry.
KInv ==
  /\ TypeOK
  /\ stored # NoEntry => stored \in generated
  /\ \A c \in Calls :
       /\ pc[c] = "storing" => c \in generated
       /\ result[c] # NoEntry => result[c] \in generated /\ stored # NoEntry

\* It holds in every state.
LEMMA KInvInductive == Spec => []KInv
<1>1. Init => KInv
  BY DEF Init, KInv, TypeOK
<1>2. KInv /\ [Next]_vars => KInv'
  <2> SUFFICES ASSUME KInv, [Next]_vars PROVE KInv'
    OBVIOUS
  <2> USE KeystoreAssumption DEF KInv, TypeOK
  <2>1. ASSUME NEW c \in Calls, Lookup(c) PROVE KInv'
    <3>1. CASE stored # NoEntry
      BY <2>1, <3>1 DEF Lookup, Return, Returned
    <3>2. CASE stored = NoEntry
      BY <2>1, <3>2 DEF Lookup, Return, Returned
    <3> QED  BY <3>1, <3>2
  <2>2. ASSUME NEW c \in Calls, Store(c) PROVE KInv'
    BY <2>2 DEF Store, Return
  <2>3. ASSUME NEW c \in Calls, LookupFails(c) \/ StoreFails(c) \/ Crash(c)
        PROVE  KInv'
    BY <2>3 DEF LookupFails, StoreFails, Crash
  <2>4. CASE UNCHANGED vars
    BY <2>4 DEF vars
  <2> QED  BY <2>1, <2>2, <2>3, <2>4 DEF Next
<1> QED  BY <1>1, <1>2, PTL DEF Spec

\* Every variable keeps its type, for any number of calls.
THEOREM KeystoreTypeCorrect == Spec => []TypeOK
<1>1. KInv => TypeOK
  BY DEF KInv
<1> QED  BY <1>1, KInvInductive, PTL

\* One first use alone hands out nothing that the keystore does not keep.
THEOREM OnlyRacesDisagreeHolds == Spec => []OnlyRacesDisagree
<1>1. ASSUME KInv PROVE OnlyRacesDisagree
  <2> SUFFICES ASSUME NEW c \in Returned, result[c] # stored
               PROVE  \E d, e \in generated : d # e
    BY DEF OnlyRacesDisagree
  <2>1. result[c] \in generated /\ stored \in generated
    BY <1>1 DEF KInv, Returned
  <2> QED  BY <2>1
<1> QED  BY <1>1, KInvInductive, PTL

\* Once the entry exists and the first uses are over, nothing replaces it.
THEOREM KeptOnceSettledHolds == Spec => KeptOnceSettled
<1>1. ASSUME TypeOK, [Next]_vars, Settled
      PROVE  stored' = stored /\ Settled'
  <2> USE <1>1 DEF TypeOK, Settled
  <2>1. ASSUME NEW c \in Calls,
               Lookup(c) \/ LookupFails(c) \/ Store(c) \/ StoreFails(c) \/ Crash(c)
        PROVE  stored' = stored /\ Settled'
    BY <2>1 DEF Lookup, LookupFails, Store, StoreFails, Crash, Return
  <2>2. CASE UNCHANGED vars
    BY <2>2 DEF vars
  <2> QED  BY <2>1, <2>2 DEF Next
<1>2. TypeOK /\ [Next]_vars => [Settled => stored' = stored /\ Settled']_vars
  BY <1>1
<1>3. KInv => TypeOK
  BY DEF KInv
<1> QED  BY <1>2, <1>3, KInvInductive, PTL DEF Spec, KeptOnceSettled

=============================================================================
