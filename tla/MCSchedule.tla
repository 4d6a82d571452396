----------------------------- MODULE MCSchedule -----------------------------
(***************************************************************************)
(* Small instances of SignSchedule: more calls than slots.                 *)
(***************************************************************************)
EXTENDS SignSchedule
=============================================================================
