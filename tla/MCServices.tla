------------------------------ MODULE MCServices ------------------------------
\* Services for TLC.
EXTENDS Services

CONSTANTS t1, t2, a1, a2, a3, p1, p2, w1, c1, c2, c3, s1, s2

MCTimerPlans == [AllTimers -> TimerKinds \ {"none"}]
=============================================================================
