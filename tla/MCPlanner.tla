----------------------------- MODULE MCPlanner -----------------------------
(***************************************************************************)
(* Four functions in two project phases, the second of which depends on    *)
(* the first; calls in a chain, in a cycle and to two callees; batches of  *)
(* one to four functions.                                                  *)
(***************************************************************************)
EXTENDS Planner

MCFunctions    == 1 .. 4
MCPhaseOf      == <<1, 1, 1, 2>>
MCDependsOn    == <<{}, {1}>>
MCMaxCalls     == {<<1, 2>>, <<2, 3>>, <<3, 2>>, <<3, 1>>}
MCTokens       == <<5, 2, 2, 2>>
MCCalleeTokens == <<1, 0, 1, 0>>
MCOutcomes     == {<<"MISMATCH", "MATCH", "MATCH", "INCONCLUSIVE">>,
                   <<"MATCH", "INCONCLUSIVE", "INCONCLUSIVE", "INCONCLUSIVE">>}
=============================================================================
