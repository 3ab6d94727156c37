------------------------- MODULE MCProfilerCapture -------------------------
(***************************************************************************)
(* Two zones, one of them on two processors.                               *)
(***************************************************************************)
EXTENDS ProfilerCapture

MCSite == {<<"reader", "brisc">>, <<"reader", "ncrisc">>, <<"writer", "brisc">>}
MCRequests == {{"reader"}, {"reader", "writer"}}

=============================================================================
