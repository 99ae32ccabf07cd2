------------------------------ MODULE MCFiles ------------------------------
(***************************************************************************)
(* Instances of Files for TLC.                                             *)
(***************************************************************************)
EXTENDS Files, TLC

Symetrie == Permutations(Pids) \cup Permutations(Messages)

\* Nothing reads the date of a process that does not sleep, nor the status and
\* the value of one that is not in a call that waits.
Vue == <<elu, etat, prio, pere, fils, queue, suite, panique, ticks, cptTicks,
         [p \in Procs |-> IF etat[p] = "ENDORMI" THEN reveil[p] ELSE 0],
         tableauSem, count, maxMsg, queueMsg,
         [p \in Procs |-> IF suite[p] = User THEN 0 ELSE operationStatus[p]],
         [p \in Procs |-> IF suite[p] = User THEN Rien ELSE fileValue[p]]>>

\* The same for programs that do not sleep: nothing reads the clock.
VueMessages ==
    <<elu, etat, prio, pere, fils, queue, suite, panique, cptTicks, maxMsg, queueMsg,
      [p \in Procs |-> IF suite[p] = User THEN 0 ELSE operationStatus[p]],
      [p \in Procs |-> IF suite[p] = User THEN Rien ELSE fileValue[p]]>>

\* For SpecServices: nothing reads the clock, and the father of a process, of
\* programs that neither sleep nor end.
VueServices ==
    <<elu, etat, prio, queue, suite, panique, cptTicks, tableauSem, count, maxMsg, queueMsg,
      [p \in Procs |-> IF suite[p] = User THEN 0 ELSE operationStatus[p]],
      [p \in Procs |-> IF suite[p] = User THEN Rien ELSE fileValue[p]]>>
=============================================================================
