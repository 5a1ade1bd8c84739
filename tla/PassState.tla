------------------------------- MODULE PassState -------------------------------
(***************************************************************************)
(* What the passes over one function share: the pass that runs, and the    *)
(* graph it works on.                                                      *)
(***************************************************************************)
VARIABLES
    phase,
    cfg

InitPass(start) == phase = "build" /\ cfg = start
=============================================================================
