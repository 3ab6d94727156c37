----------------------------- MODULE RowReduce -----------------------------
(***************************************************************************)
(* What the row reduction promises its host.  A launch starts with an      *)
(* input in DRAM and with every output page poisoned; the output pages are *)
(* then stored one by one, in order, each with the sum of its own tile     *)
(* row.  Nothing else is ever visible in the output tensor: no partial     *)
(* sum, no stale sum of the previous launch, no page stored twice.         *)
(***************************************************************************)
EXTENDS RowSums

VARIABLES
    src,    \* input tensor, one tile per DRAM page
    dst,    \* output tensor, one reduced tile per DRAM page
    launch  \* number of the current launch, from 1

vars == <<src, dst, launch>>

Init ==
    /\ src \in Inputs
    /\ dst = AllPoison
    /\ launch = 1

\* The next output page receives the sum of its tile row.
StoreRow ==
    \E r \in Row :
        /\ dst[r] = Poison
        /\ \A q \in 0 .. r - 1 : dst[q] # Poison
        /\ dst' = [dst EXCEPT ![r] = RowSum(src, r)]
        /\ UNCHANGED <<src, launch>>

\* The host reads the complete output back and starts the next launch.
Launch ==
    /\ launch < Repeats
    /\ \A r \in Row : dst[r] # Poison
    /\ src' \in Inputs
    /\ dst' = AllPoison
    /\ launch' = launch + 1

Next == StoreRow \/ Launch

Spec == Init /\ [][Next]_vars

FairSpec == Spec /\ WF_vars(StoreRow) /\ WF_vars(Launch)

=============================================================================
