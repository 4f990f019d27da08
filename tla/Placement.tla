----------------------------- MODULE Placement ------------------------------
(***************************************************************************)
(* PlacementService (placement_service.go): which machines may take a      *)
(* chunk.  Every machine has exactly one disc, so a machine stands for its *)
(* disc too.  The operators return the SET of answers the code may give:   *)
(* the SQL order leaves ties open and the tail of a stripe is shuffled.    *)
(* An answer is a function from shard indexes to machines.                 *)
(*                                                                         *)
(* The code also filters on workers.status and discs.status; nothing in    *)
(* the repository ever changes them from "active", so they filter nothing. *)
(***************************************************************************)
EXTENDS FileLayout, FiniteSets

CONSTANTS
    BlockMachines,    \* machines of type "block"
    InlineMachines,   \* machines of type "inline"
    CapacityMB        \* capacity of every machine's disc

ASSUME PlacementAssumption ==
    /\ BlockMachines \cap InlineMachines = {}
    /\ CapacityMB \in Nat

Machines == BlockMachines \cup InlineMachines

\* discs.used_mb as chargeUsage leaves it: used_bytes divided, rounded DOWN.
UsedMB(bytes) == bytes \div BytesPerMB

FreeMB(used, m) == CapacityMB - UsedMB(used[m])

\* candidates: the machines of a pool with enough free space.
Candidates(used, pool, mb) == {m \in pool : FreeMB(used, m) >= mb}

\* The machines ORDER BY free DESC may put first.
Emptiest(used, S) == {m \in S : \A x \in S : FreeMB(used, x) <= FreeMB(used, m)}

\* SelectMachine: candidates[0].  No answer when there is no candidate.
SelectMachine(used, pool, mb) ==
    {[s \in ShardsOf("whole") |-> m] : m \in Emptiest(used, Candidates(used, pool, mb))}

\* How many of the answer's first machines follow the order of free space:
\* all of them when there is no choice, otherwise the emptiest half.
Head(count, C) == IF Cardinality(C) = count THEN count ELSE count \div 2

\* Mutant: the tail is drawn with replacement.
NotDistinct(t, S) == TRUE

Distinct(t, S) == \A i, j \in S : i # j => t[i] # t[j]

\* SelectMachinesForEC: distinct candidates, the first Head of them the
\* emptiest in order, the rest any.  No answer with too few candidates.
SelectMachinesForEC(used, mb) ==
    LET C == Candidates(used, BlockMachines, mb)
        S == ShardsOf("stripe")
        left(t, i) == C \ {t[j] : j \in 0 .. (i - 1)}
    IN  {t \in [S -> C] :
            /\ Distinct(t, S)
            /\ \A i \in 0 .. (Head(TotalShards, C) - 1) : t[i] \in Emptiest(used, left(t, i))}
=============================================================================
