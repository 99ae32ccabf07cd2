----------------------------- MODULE MCHorloge -----------------------------
(***************************************************************************)
(* Instances of Horloge for TLC.                                           *)
(***************************************************************************)
EXTENDS Horloge, TLC

Symetrie == Permutations(Pids)

\* Nothing reads the date of a process that does not sleep.
Vue == <<elu, etat, prio, pere, fils, queue, suite, panique, ticks, cptTicks,
         [p \in Procs |-> IF etat[p] = "ENDORMI" THEN reveil[p] ELSE 0]>>
=============================================================================
