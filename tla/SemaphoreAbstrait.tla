------------------------- MODULE SemaphoreAbstrait -------------------------
(***************************************************************************)
(* What the calls of kernel/semaphore.c promise together: a semaphore is a *)
(* number of tokens and a queue of processes that wait for one.  A process *)
(* takes a token, or joins the end of the queue until a token, or the end  *)
(* of the semaphore, is given to it as the answer of its call.             *)
(***************************************************************************)
EXTENDS Integers, SequencesExt

CONSTANTS Sids, Procs, JetonsMax

VARIABLES
    existe,     \* the semaphores that exist
    jetons,     \* the tokens of each
    attente,    \* the processes that wait, the first one first
    reponse     \* the answer a process has been given and not yet taken

vars == <<existe, jetons, attente, reponse>>

Reponses == {"rien", "jeton", "detruit", "reinitialise"}

\* The processes of w get the answer r.
Repond(w, r) ==
    reponse' = [p \in Procs |-> IF p \in Range(w) THEN r ELSE reponse[p]]

Cree(s, n) ==
    /\ s \notin existe
    /\ existe' = existe \cup {s}
    /\ jetons' = [jetons EXCEPT ![s] = n]
    /\ UNCHANGED <<attente, reponse>>

Detruit(s) ==
    /\ s \in existe
    /\ existe' = existe \ {s}
    /\ jetons' = [jetons EXCEPT ![s] = 0]
    /\ attente' = [attente EXCEPT ![s] = <<>>]
    /\ Repond(attente[s], "detruit")

Reinitialise(s, n) ==
    /\ s \in existe
    /\ jetons' = [jetons EXCEPT ![s] = n]
    /\ attente' = [attente EXCEPT ![s] = <<>>]
    /\ Repond(attente[s], "reinitialise")
    /\ UNCHANGED existe

\* n tokens, at once: the first who wait get one each.
Donne(s, n) ==
    LET servis == SubSeq(attente[s], 1, Min({n, Len(attente[s])}))
    IN  /\ s \in existe
        /\ jetons' = [jetons EXCEPT ![s] = @ + n - Len(servis)]
        /\ attente' = [attente EXCEPT ![s] = SubSeq(@, Len(servis) + 1, Len(@))]
        /\ Repond(servis, "jeton")
        /\ UNCHANGED existe

Prend(s) ==
    /\ s \in existe /\ jetons[s] > 0
    /\ jetons' = [jetons EXCEPT ![s] = @ - 1]
    /\ UNCHANGED <<existe, attente, reponse>>

Attend(p, s) ==
    /\ s \in existe /\ jetons[s] = 0
    /\ attente' = [attente EXCEPT ![s] = Append(@, p)]
    /\ UNCHANGED <<existe, jetons, reponse>>

\* The call returns its answer, or the process is killed before.
Termine(p) ==
    /\ reponse[p] # "rien"
    /\ reponse' = [reponse EXCEPT ![p] = "rien"]
    /\ UNCHANGED <<existe, jetons, attente>>

Init ==
    /\ existe = {}
    /\ jetons = [s \in Sids |-> 0]
    /\ attente = [s \in Sids |-> <<>>]
    /\ reponse = [p \in Procs |-> "rien"]

Next ==
    \/ \E s \in Sids, n \in 0 .. JetonsMax : Cree(s, n)
    \/ \E s \in Sids : Detruit(s)
    \/ \E s \in Sids, n \in 0 .. JetonsMax : Reinitialise(s, n)
    \/ \E s \in Sids, n \in 1 .. JetonsMax : Donne(s, n)
    \/ \E s \in Sids : Prend(s)
    \/ \E p \in Procs, s \in Sids : Attend(p, s)
    \/ \E p \in Procs : Termine(p)

Spec == Init /\ [][Next]_vars
=============================================================================
