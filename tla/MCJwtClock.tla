---------------------------- MODULE MCJwtClock ----------------------------
(* Instances of JwtClock: clocks at the edges of a second, and drifts and  *)
(* delays a millisecond to either side of every margin.                    *)
EXTENDS JwtClock

About(t) == {t - 1, t, t + 1}

MCStarts == {700000, 700001, 700999}
MCDrifts == UNION {About(d) : d \in {-60000, -1000, 0, 1000, 60000, 61000}}
MCDelays ==
  {0, 1} \cup UNION {About(t) : t \in {1000, 60000, 479000, 480000, 539000,
                                       540000, 599000, 600000, 601000}}
=============================================================================
