-------------------------- MODULE MCUsageCharging ---------------------------
EXTENDS UsageCharging, TLC
CONSTANTS t1, t2, t3, t4, d1, d2, d3, w1, w2

On(k, d, w, n) == [id |-> k, disc |-> d, worker |-> w, size |-> n]

\* Three uploads that meet in pairs on a disc, so that rings of two and of
\* three occur; two of them meet on two workers.  t2 has two chunks on one
\* disc, t4 is an inline file.
MCChunks ==
    (t1 :> {On(1, d1, w1, 1), On(2, d2, w2, 1)}) @@
    (t2 :> {On(3, d2, w2, 1), On(4, d2, w2, 1), On(5, d3, w1, 1)}) @@
    (t3 :> {On(6, d3, w1, 3), On(7, d1, w1, 1)}) @@
    (t4 :> {On(8, d1, w1, 1)})
=============================================================================
