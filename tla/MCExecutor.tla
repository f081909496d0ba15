----------------------------- MODULE MCExecutor -----------------------------
(***************************************************************************)
(* The instance TLC checks: plans of up to three steps over two names, so *)
(* a plan can repeat a name, mix named and unnamed steps, and be empty.   *)
(***************************************************************************)
EXTENDS Executor

CONSTANTS n1, n2

MCNames == {n1, n2}

MCMaxSteps == 3

=============================================================================
