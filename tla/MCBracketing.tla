---------------------------- MODULE MCBracketing ----------------------------
EXTENDS Bracketing
\* Three data shards and one parity shard over the field of three elements.
MCField  == 0 .. 2
MCBlocks == [0 .. 2 -> MCField]
MCWord(b, parity) == [i \in 0 .. 3 |-> IF i = 3 THEN parity ELSE b[i]]
\* The parity is the sum.
MCSum == [b \in MCBlocks |-> MCWord(b, (b[0] + b[1] + b[2]) % 3)]
\* A linear encoder whose matrix forgets the last data shard.
MCForgets == [b \in MCBlocks |-> MCWord(b, (b[0] + b[1]) % 3)]
\* The sum is such a code.
ASSUME MCReedSolomon ==
    \A kept \in {k \in SUBSET (0 .. 3) : Cardinality(k) = 3} :
        \A w \in [0 .. 3 -> MCField] : \E b \in MCBlocks :
            \A c \in MCBlocks : Agree(MCSum[c], w, kept) <=> c = b
=============================================================================
