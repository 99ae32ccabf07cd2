---------------------------- MODULE MCSemaphore ----------------------------
(***************************************************************************)
(* Instances of Semaphore for TLC.                                         *)
(***************************************************************************)
EXTENDS Semaphore, TLC

Symetrie == Permutations(Pids)

\* Nothing reads the date of a process that does not sleep, nor the status of
\* one that is not in wait().
Vue == <<elu, etat, prio, pere, fils, queue, suite, panique, ticks, cptTicks,
         [p \in Procs |-> IF etat[p] = "ENDORMI" THEN reveil[p] ELSE 0],
         tableauSem, count,
         [p \in Procs |-> IF suite[p].appel = "wait" THEN operationStatus[p] ELSE 0]>>
=============================================================================
