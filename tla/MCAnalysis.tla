----------------------------- MODULE MCAnalysis -----------------------------
(***************************************************************************)
(* A plan of three phases: one whose artifacts the reset keeps, the reset, *)
(* and one with jobs and stamped artifacts.  Two commits of the user's     *)
(* project.                                                                *)
(***************************************************************************)
EXTENDS Analysis

MCPlan     == <<"project_understanding", "phase_cleanup", "verification">>
MCCleanup  == "phase_cleanup"
MCStamped  == {"verification"}
MCWithJobs == {"verification"}
MCReads ==
  [ph \in Phases |-> IF ph = "verification" THEN {"verification"}
                                             ELSE {"project_understanding"}]
=============================================================================
