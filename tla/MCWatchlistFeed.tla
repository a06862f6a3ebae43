-------------------------- MODULE MCWatchlistFeed --------------------------
EXTENDS WatchlistFeed

CONSTANTS scheduler, populate, alice, bob, g1, g2, g3

\* Two tabs of one user.
TwoTabs == [g \in {g1, g2} |-> alice]

\* ... and one of another, who may get the id of a row the first one removed.
WithAnother == [g \in {g1, g2, g3} |-> IF g = g3 THEN bob ELSE alice]
=============================================================================
