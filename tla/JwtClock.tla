------------------------------ MODULE JwtClock ------------------------------
(***************************************************************************)
(* The times of the App JWT (mint_jwt, crates/custodly-github/src/app.rs)  *)
(* between two clocks that do not agree and a request that takes its time. *)
(* Clocks count milliseconds; the claims are in whole seconds.             *)
(*                                                                         *)
(* GitHub is external.  It takes a JWT that was issued by now, has not     *)
(* expired, and expires no more than ten minutes from now.                 *)
(***************************************************************************)
EXTENDS Integers

CONSTANTS Starts,  \* GitHub's clock when the JWT is signed
          Drifts,  \* how far this machine's clock is ahead of GitHub's
          Delays   \* how long the request takes to GitHub

ASSUME ClockAssumption ==
  Starts \subseteq Nat /\ Drifts \subseteq Int /\ Delays \subseteq Nat

Second == 1000

BACKDATE == 60        \* Duration::seconds(60)
LIFETIME == 9 * 60    \* Duration::minutes(9)
GITHUB_LIMIT == 10 * 60

VARIABLES pc, start, drift, claims, delay, accepted

vars == <<pc, start, drift, claims, delay, accepted>>

Timestamp(clock) == clock \div Second

\* Mutant: iat is now.
ClaimsNotBackdated(now) ==
  [iat |-> Timestamp(now), exp |-> Timestamp(now + LIFETIME * Second)]

\* Mutant: the ten minutes GitHub allows are used up.
ClaimsTenMinutes(now) ==
  [iat |-> Timestamp(now - BACKDATE * Second),
   exp |-> Timestamp(now + GITHUB_LIMIT * Second)]

\* Mutant: a JWT that arrives too late leaves no answer behind.
ArriveUnanswered ==
  /\ pc = "sent"
  /\ delay' \in Delays
  /\ accepted' = (claims.exp > Timestamp(start + delay'))
  /\ pc' = IF accepted' THEN "answered" ELSE "lost"
  /\ UNCHANGED <<start, drift, claims>>

Claims(now) ==
  [iat |-> Timestamp(now - BACKDATE * Second),
   exp |-> Timestamp(now + LIFETIME * Second)]

Init ==
  /\ pc = "start"
  /\ start \in Starts
  /\ drift \in Drifts
  /\ claims = [iat |-> 0, exp |-> 0]
  /\ delay = 0
  /\ accepted = FALSE

MintJwt ==
  /\ pc = "start"
  /\ claims' = Claims(start + drift)
  /\ pc' = "sent"
  /\ UNCHANGED <<start, drift, delay, accepted>>

\* The request reaches GitHub.
Arrive ==
  /\ pc = "sent"
  /\ delay' \in Delays
  /\ LET now == Timestamp(start + delay')
     IN accepted' = (/\ claims.iat <= now
                     /\ claims.exp > now
                     /\ claims.exp - now <= GITHUB_LIMIT)
  /\ pc' = "answered"
  /\ UNCHANGED <<start, drift, claims>>

Next == MintJwt \/ Arrive

Spec == Init /\ [][Next]_vars

-----------------------------------------------------------------------------
(* Properties.                                                             *)

\* Every variable has its type.
TypeOK ==
  /\ pc \in {"start", "sent", "answered"}
  /\ start \in Starts
  /\ drift \in Drifts
  /\ claims \in [iat: Int, exp: Int]
  /\ delay \in Delays \cup {0}
  /\ accepted \in BOOLEAN

\* app.rs:133-136: a clock up to a minute ahead of GitHub's does no harm, and
\* neither does a slow one or a slow request, while the delay of the request
\* and the lag of the clock make less than nine minutes together, with a
\* second for the rounding: iat is not in the future, exp is not beyond the
\* limit and not past.
DriftIsTolerated ==
  /\ pc = "answered"
  /\ drift <= BACKDATE * Second
  /\ delay <= drift + (LIFETIME - 1) * Second
  => accepted

\* app.rs:134-136: a JWT is taken for less than nine minutes after it was
\* signed, plus what the clock that dated it was ahead of GitHub's: with a
\* clock up to a minute ahead, for less than the ten minutes GitHub allows.
ShortLived == accepted => delay < drift + LIFETIME * Second

=============================================================================
