----------------------------- MODULE MCWritePath ----------------------------
\* Instances of WritePath for TLC: a stripe is 2+1 shards, a block 8 bytes,
\* a megabyte 2 bytes.
EXTENDS WritePath, TLC

CONSTANTS m1, m2, m3, m4, m5, inl, w1, w2, w3

\* Two machines on one daemon, as in ClusterTopology, so that a placement may
\* put two shards of a stripe on one daemon.
MCWorkerOf == (m1 :> w1) @@ (m2 :> w1) @@ (m3 :> w2) @@ (m4 :> w2) @@ (inl :> w3)

\* A fifth block machine, one more than TopSize.
MCWorkerOfFive == MCWorkerOf @@ (m5 :> w2)

\* An inline file, exactly one stripe, a stripe and a tail.
MCConcurrentSizes == {1, 8, 11}
\* An empty file, a single verbatim block, a stripe and a tail, two stripes.
MCFaultSizes == {0, 3, 11, 16}
\* A single verbatim block.
MCOneBlock == {3}
\* Two stripes.
MCTwoStripes == {16}

\* Uploads are interchangeable.
MCSymmetry == Permutations(Uploads)

\* The write path while no disc, daemon or gateway fails, which is all of it
\* for MaxFaults = 0.
QuietSpec == WriteInit /\ [][\E u \in Uploads : UploadStep(u) \/ ClientStep(u)]_writeVars
=============================================================================
