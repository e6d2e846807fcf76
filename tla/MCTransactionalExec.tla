-------------------------- MODULE MCTransactionalExec --------------------------
(***************************************************************************)
(* TransactionalExec on two small instances: two transactions on one VM,    *)
(* with the same or different snapshot names, whose host commands are       *)
(* launched once; and one transaction whose host commands may be launched   *)
(* twice, as RunnerConfig.retries = 1 has it.                               *)
(***************************************************************************)
EXTENDS TransactionalExec, TLC

MCExitCodes == {0, 1}

TxSymmetry == Permutations(Tx) \cup Permutations(Names)
================================================================================
