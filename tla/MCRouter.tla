------------------------------ MODULE MCRouter ------------------------------
(***************************************************************************)
(* Small instances of Router: one worker, in base mode with a processor    *)
(* that looks at its context and one that does not, and in extension mode  *)
(* with an action to forward.                                              *)
(***************************************************************************)
EXTENDS Router, TLC

CONSTANTS keyGenerate, pay, custom

MCActions == {keyGenerate, pay, custom}
MCCtxBlind == {pay, custom}
MCForwarded == {custom}
MCModes == {{keyGenerate, pay}, {custom}}
=============================================================================
