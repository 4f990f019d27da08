----------------------------- MODULE MCReadPath -----------------------------
\* Instances of ReadPath for TLC: a stripe is 2+1 shards, a block 8 bytes, a
\* megabyte 2 bytes.  Each machine has a daemon of its own, so that a daemon
\* that goes down costs one shard.
EXTENDS ReadPath, TLC

CONSTANTS m1, m2, m3, inl, w1, w2, w3, w4

MCWorkerOf == (m1 :> w1) @@ (m2 :> w2) @@ (m3 :> w3) @@ (inl :> w4)

\* An empty file, an inline file, a stripe and a tail.
MCReadSizes == {0, 1, 11}

=============================================================================
