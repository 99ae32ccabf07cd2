----------------------------- MODULE MCClavier -----------------------------
(***************************************************************************)
(* Instances of Clavier for TLC.                                           *)
(***************************************************************************)
EXTENDS Clavier, TLC

Symetrie == Permutations(Pids)

\* Nothing reads the clock, the priority or the call of a process that has
\* ended.
Vivant(p) == etat[p] \notin {"ZOMBIE", "MOURANT", "LIBRE"}
Vue == <<elu, etat, pere, queue, panique, clavierVars,
         [p \in Procs |-> IF Vivant(p) THEN <<prio[p], suite[p].appel>> ELSE <<>>]>>
=============================================================================
