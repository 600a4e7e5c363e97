----------------------------- MODULE MCPanelLoop -----------------------------
(* An instance of PanelLoop: the knob in one half of it, the button in the    *)
(* other.                                                                    *)
EXTENDS PanelLoop

mcLoopMs == {1, 2}
mcAllSteps == -2 .. 2
=============================================================================
