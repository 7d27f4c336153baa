------------------------------- MODULE MCAgent -------------------------------
(***************************************************************************)
(* Agents with up to two monitors.  A macroblock is two pixels wide here,  *)
(* so that pictures of six and sixteen pixels have three and eight         *)
(* columns: fewer, and more, than the five frames of a period.             *)
(***************************************************************************)
EXTENDS Agent

Monitor(w, h, fails) == [w |-> w, h |-> h, fails |-> fails]

MCMonitors ==
    {<<>>, <<Monitor(16, 2, "start")>>, <<Monitor(5, 2, "no")>>, <<Monitor(4, 3, "no")>>,
     <<Monitor(16, 2, "no"), Monitor(6, 2, "no")>>,
     <<Monitor(6, 4, "no"), Monitor(16, 2, "staging")>>}
        \cup {<<Monitor(16, 2, fails), Monitor(6, 4, "no")>> : fails \in Failures}
=============================================================================
