-------------------------- MODULE MCAutoScreener --------------------------
EXTENDS AutoScreener, TLC

CONSTANTS m1, m2
MCMarkets == {m1, m2}
OneMarket == {m1}
AnyMarket == Permutations(Markets)
===========================================================================
