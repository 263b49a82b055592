--------------------------- MODULE MCStrategyLearning ---------------------------
EXTENDS StrategyLearning, TLC

CONSTANTS a, g, r1, r2

MCNobody   == {}
MCOne      == {a}
MCBoth     == {a, g}
MCCore     == {g}
MCRules    == {r1, r2}
MCPasses   == {"loop", "close"}

\* Rules and capital share nothing but the order of a pass's steps: either the
\* one or the other is explored.
Apart ==
  \/ marked = {} /\ learned = <<>> /\ risked = {}
  \/ now = 0 /\ ledger = <<>> /\ \A s \in Strategies : sold[s] = 0
=============================================================================
