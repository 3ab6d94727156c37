-------------------------- MODULE MCReducePipeline --------------------------
(***************************************************************************)
(* Small instances of ReducePipeline.  Each input gives every page a tile  *)
(* of its own, different from every tile of the other input, so a tile     *)
(* taken from the wrong page, slot or launch shows in the result.          *)
(***************************************************************************)
EXTENDS ReducePipelineInv

MCTag == {"a", "b"}

MCDatum == MCTag \X Page

MCInputs == {[p \in Page |-> <<tag, p>>] : tag \in MCTag}

=============================================================================
