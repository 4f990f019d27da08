------------------------- MODULE MCClusterTopology -------------------------
EXTENDS ClusterTopology
\* Two daemons, with one machine each.
MCTwoDaemons == <<1, 1>>
\* One daemon with one machine.
MCSmallest == <<1>>
=============================================================================
