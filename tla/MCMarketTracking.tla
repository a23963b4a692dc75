------------------------- MODULE MCMarketTracking -------------------------
EXTENDS MarketTracking, TLC

CONSTANTS s1, s2, m1, m2, m3
MCSubjects == {s1, s2}
MCMarkets  == {m1, m2, m3}
Configured == {m1, m2}
ConfiguredSubjectOf == m1 :> s1 @@ m2 :> s2
MCSubjectOf == m1 :> s1 @@ m2 :> s2 @@ m3 :> AUTO
SharedSubjectOf == m1 :> s1 @@ m2 :> s1 @@ m3 :> AUTO
OneSubject == {s1}
MCUndated == {m2}

\* Nothing tells the two configured subjects apart, nor their markets: both
\* may change places together.
Mirror == {f \in Permutations({m1, m2, s1, s2}) :
             \A m \in Configured : f[m] \in Configured /\ f[MCSubjectOf[m]] = MCSubjectOf[f[m]]}
===========================================================================
