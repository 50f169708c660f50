----------------------------- MODULE MCSessions -----------------------------
(***************************************************************************)
(* Two sessions, of which each may also be the native process the other    *)
(* one launches.  MCSessionsThree.cfg has a third one instead of the       *)
(* fault, MCSessionsFaults.cfg a second fault.                             *)
(***************************************************************************)
EXTENDS Sessions
=============================================================================
