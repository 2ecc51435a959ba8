-------------------------- MODULE JwtClockProofs ---------------------------
(* What JwtClock promises, for every clock, drift and delay.               *)
EXTENDS JwtClock, TLAPS

\* What a run of Spec keeps: the claims are those of the time of signing, and
\* the verdict is GitHub's rule on them.
ClockInv ==
  /\ TypeOK
  /\ pc # "start" => claims = Claims(start + drift)
  /\ IF pc = "answered"
     THEN accepted <=> LET now == Timestamp(start + delay)
                       IN /\ claims.iat <= now
                          /\ claims.exp > now
                          /\ claims.exp - now <= GITHUB_LIMIT
     ELSE ~accepted

\* Rounding to seconds, without the division.
LEMMA TimestampBounds ==
  ASSUME NEW t \in Int
  PROVE  /\ Timestamp(t) \in Int
         /\ Timestamp(t) * Second <= t
         /\ t < Timestamp(t) * Second + Second
BY SMT DEF Timestamp, Second

\* The claims are whole seconds, iat a minute back and exp nine ahead.
LEMMA ClaimsBounds ==
  ASSUME NEW t \in Int
  PROVE  /\ Claims(t) \in [iat: Int, exp: Int]
         /\ Claims(t).iat = Timestamp(t - BACKDATE * Second)
         /\ Claims(t).exp = Timestamp(t + LIFETIME * Second)
<1>1. t - BACKDATE * Second \in Int /\ t + LIFETIME * Second \in Int
  BY DEF BACKDATE, LIFETIME, Second
<1> QED BY <1>1, TimestampBounds DEF Claims

\* ClockInv is inductive.
LEMMA ClockInductive == Spec => []ClockInv
<1>1. Init => ClockInv
  <2> SUFFICES ASSUME Init PROVE ClockInv
    OBVIOUS
  <2>1. TypeOK
    <3>1. accepted \in BOOLEAN
      BY DEF Init
    <3>2. claims \in [iat: Int, exp: Int]
      BY DEF Init
    <3> QED BY <3>1, <3>2 DEF Init, TypeOK
  <2>2. pc = "start" /\ ~accepted
    BY DEF Init
  <2> QED BY <2>1, <2>2 DEF ClockInv
<1>2. ClockInv /\ [Next]_vars => ClockInv'
  <2> SUFFICES ASSUME ClockInv, [Next]_vars
               PROVE  ClockInv'
    OBVIOUS
  <2>1. start \in Int /\ drift \in Int /\ start + drift \in Int
    BY ClockAssumption DEF ClockInv, TypeOK
  <2>2. CASE MintJwt
    BY <2>1, <2>2, ClaimsBounds DEF MintJwt, ClockInv, TypeOK
  <2>3. CASE Arrive
    <3>1. accepted' \in BOOLEAN
      BY <2>3 DEF Arrive
    <3>2. TypeOK'
      BY <2>3, <3>1 DEF Arrive, ClockInv, TypeOK
    <3>3. /\ pc' = "answered"
          /\ claims' = Claims(start' + drift')
      BY <2>3 DEF Arrive, ClockInv
    <3>4. accepted' <=> LET now == Timestamp(start' + delay')
                        IN /\ claims'.iat <= now
                           /\ claims'.exp > now
                           /\ claims'.exp - now <= GITHUB_LIMIT
      BY <2>3 DEF Arrive
    <3> QED BY <3>2, <3>3, <3>4 DEF ClockInv
  <2>4. CASE UNCHANGED vars
    BY <2>4 DEF vars, ClockInv, TypeOK
  <2> QED BY <2>2, <2>3, <2>4 DEF Next
<1> QED BY <1>1, <1>2, PTL DEF Spec

\* Every variable keeps its type, whatever the clocks and the delays.
THEOREM TypeCorrect == Spec => []TypeOK
<1>1. ClockInv => TypeOK
  BY DEF ClockInv
<1> QED BY <1>1, ClockInductive, PTL

\* app.rs:133-136 for every clock, drift and delay: within the tolerance the
\* JWT is taken.
THEOREM ToleranceHolds == Spec => []DriftIsTolerated
<1>1. ClockInv => DriftIsTolerated
  <2> SUFFICES ASSUME ClockInv, pc = "answered",
                      drift <= BACKDATE * Second,
                      delay <= drift + (LIFETIME - 1) * Second
               PROVE  accepted
    BY DEF DriftIsTolerated
  <2> DEFINE signed  == start + drift
             arrived == start + delay
             now     == Timestamp(arrived)
             iat     == Timestamp(signed - BACKDATE * Second)
             exp     == Timestamp(signed + LIFETIME * Second)
  <2>1. /\ start \in Int /\ drift \in Int /\ delay \in Nat
        /\ signed \in Int /\ arrived \in Int
        /\ signed - BACKDATE * Second \in Int
        /\ signed + LIFETIME * Second \in Int
    BY ClockAssumption DEF ClockInv, TypeOK, BACKDATE, LIFETIME, Second
  <2>2. /\ now \in Int
        /\ now * Second <= arrived
        /\ arrived < now * Second + Second
    BY <2>1, TimestampBounds
  <2>3. /\ iat \in Int
        /\ iat * Second <= signed - BACKDATE * Second
    BY <2>1, TimestampBounds
  <2>4. /\ exp \in Int
        /\ exp * Second <= signed + LIFETIME * Second
        /\ signed + LIFETIME * Second < exp * Second + Second
    BY <2>1, TimestampBounds
  <2>5. claims.iat = iat /\ claims.exp = exp
    BY <2>1, ClaimsBounds DEF ClockInv
  <2>6. iat <= now
    BY <2>1, <2>2, <2>3 DEF BACKDATE, Second
  <2>7. exp > now
    BY <2>1, <2>2, <2>4 DEF LIFETIME, Second
  <2>8. exp - now <= GITHUB_LIMIT
    BY <2>1, <2>2, <2>4 DEF GITHUB_LIMIT, BACKDATE, LIFETIME, Second
  <2> HIDE DEF iat, exp
  <2> QED BY <2>5, <2>6, <2>7, <2>8 DEF ClockInv
<1> QED BY <1>1, ClockInductive, PTL

\* For every clock, drift and delay, a JWT is taken for less than nine minutes
\* after it was signed, plus what the clock that dated it was ahead.
THEOREM ShortLivedHolds == Spec => []ShortLived
<1>1. ClockInv => ShortLived
  <2> SUFFICES ASSUME ClockInv, accepted
               PROVE  delay < drift + LIFETIME * Second
    BY DEF ShortLived
  <2> DEFINE signed  == start + drift
             arrived == start + delay
             now     == Timestamp(arrived)
             exp     == Timestamp(signed + LIFETIME * Second)
  <2>1. /\ start \in Int /\ drift \in Int /\ delay \in Nat
        /\ signed \in Int /\ arrived \in Int
        /\ signed + LIFETIME * Second \in Int
    BY ClockAssumption DEF ClockInv, TypeOK, LIFETIME, Second
  <2>2. now \in Int /\ now * Second <= arrived /\ arrived < now * Second + Second
    BY <2>1, TimestampBounds
  <2>3. exp \in Int /\ exp * Second <= signed + LIFETIME * Second
    BY <2>1, TimestampBounds
  <2>4. claims.exp = exp
    BY <2>1, ClaimsBounds DEF ClockInv
  <2>5. exp > now
    BY <2>4 DEF ClockInv
  <2> QED BY <2>1, <2>2, <2>3, <2>5 DEF LIFETIME, Second
<1> QED BY <1>1, ClockInductive, PTL

=============================================================================
