----------------------------- MODULE Semaphore -----------------------------
(***************************************************************************)
(* kernel/semaphore.c: counting semaphores with 16-bit counters, added to  *)
(* the kernel of Horloge.  A negative counter is the number of processes   *)
(* that wait.  No call but wait() gives the processor up: the processes    *)
(* that signal, sreset and sdelete wake are only made ready.               *)
(***************************************************************************)
EXTENDS Horloge, Integers

CONSTANT ShortMax   \* SHORTINT_MAX

ASSUME SemaphoreAssumption == ShortMax \in Nat \ {0}

ShortMin == -ShortMax - 1   \* SHORTINT_MIN
Shorts == ShortMin .. ShortMax

VARIABLES
    tableauSem,       \* the sids whose entry of tableauSem is not NULL
    count,            \* Semaphore.count, 0 for the others
    operationStatus   \* Processus.operationStatus

semaphoreVars == <<tableauSem, count, operationStatus>>
varsSemaphore == <<vars, semaphoreVars>>

\* What a wake-up writes to operationStatus: true (1), -3 or -4.
Statuts == {-4, -3, 0, 1}

\* A descriptor that is freed in the step takes its fields with it.
Restants(st) == [p \in Procs |-> IF etat'[p] = "LIBRE" THEN 0 ELSE st[p]]

-----------------------------------------------------------------------------
\* The processes that wait for s in the order queue_out takes them.
Attendants(s) == Reverse(queue[s])

\* The processes of w leave the queue of s with the status st.
Libere(s, w, st) ==
    /\ Devient(ActiveTous([Courant EXCEPT !.queue[s] = SubSeq(@, 1, Len(@) - Len(w))], w))
    /\ operationStatus' =
           Restants([p \in Procs |-> IF p \in Range(w) THEN st ELSE operationStatus[p]])
    /\ UNCHANGED <<ticks, cptTicks>>

\* screate(n): any free sid, of which the code takes the largest.
Screate(s, n) ==
    /\ EnModeUser
    /\ s \notin tableauSem
    /\ tableauSem' = tableauSem \cup {s}
    /\ count' = [count EXCEPT ![s] = n]
    /\ UNCHANGED <<vars, operationStatus>>

Sdelete(s) ==
    /\ EnModeUser
    /\ s \in tableauSem
    /\ Libere(s, Attendants(s), -3)
    /\ tableauSem' = tableauSem \ {s}
    /\ count' = [count EXCEPT ![s] = 0]

Sreset(s, n) ==
    /\ EnModeUser
    /\ s \in tableauSem
    /\ Libere(s, Attendants(s), -4)
    /\ count' = [count EXCEPT ![s] = n]
    /\ UNCHANGED tableauSem

\* The test of the overflow as it is for one call of signal.
PeutCompterUn(s, n) == count[s] <= ShortMax - 1

\* The test signaln(s, n) makes before the n increments.
PeutCompter(s, n) == count[s] <= ShortMax - n

\* Of n calls of signal(s) one fewer wakes: < 0 for <= 0.
ReveilsPeu(s, n) == Min({n, Max({0, -count[s] - 1})})

\* The number of calls of signal(s), among n, that leave count <= 0 and so
\* take a process out of the queue.
Reveils(s, n) == Min({n, Max({0, -count[s]})})

\* signaln(s, n), and signal(s), which is signaln(s, 1).  A process killed
\* while it waited is still counted: signal then uses the NULL pointer that
\* the empty queue gives.
Signaln(s, n) ==
    /\ EnModeUser
    /\ s \in tableauSem
    /\ PeutCompter(s, n)
    /\ IF Len(queue[s]) < Reveils(s, n)
       THEN /\ Devient([Courant EXCEPT !.panique = "null"])
            /\ UNCHANGED <<ticks, cptTicks, count, operationStatus>>
       ELSE /\ Libere(s, SubSeq(Attendants(s), 1, Reveils(s, n)), 1)
            /\ count' = [count EXCEPT ![s] = @ + n]
    /\ UNCHANGED tableauSem

TryWait(s) ==
    /\ EnModeUser
    /\ s \in tableauSem
    /\ count[s] > 0
    /\ count' = [count EXCEPT ![s] = @ - 1]
    /\ UNCHANGED <<vars, tableauSem, operationStatus>>

\* wait() without its test of the overflow.
PeutDecompterToujours(s) == TRUE

\* The guard of wait() against the overflow of count.
PeutDecompter(s) == count[s] >= ShortMin + 1

\* wait(s) up to ordonnanceur() or its end.
Wait(s) ==
    /\ EnModeUser
    /\ s \in tableauSem
    /\ PeutDecompter(s)
    /\ count' = [count EXCEPT ![s] = @ - 1]
    /\ IF count'[s] < 0
       THEN Devient(Ordonnanceur(
                Enfile([Courant EXCEPT !.etat[elu] = "ATTEND_SEMAPHORE",
                                       !.suite[elu] = [appel |-> "wait", arg |-> Nul]],
                       elu, s)))
       ELSE UNCHANGED noyauVars
    /\ operationStatus' = Restants(operationStatus)
    /\ UNCHANGED <<ticks, cptTicks, tableauSem>>

\* What wait() returns once it is woken.
ValeurDeWait(p) == IF operationStatus[p] < 0 THEN operationStatus[p] ELSE 0

\* wait() after ordonnanceur(): it returns ValeurDeWait(elu).
RepriseWait ==
    /\ panique = "non" /\ suite[elu].appel = "wait"
    /\ Devient([Courant EXCEPT !.suite[elu] = User])
    /\ UNCHANGED <<ticks, cptTicks, semaphoreVars>>

\* scount(s): count, extended to an int.
Scount(s) == count[s]

SemaphoreNext ==
    \/ \E s \in Sids, n \in 0 .. ShortMax : Screate(s, n)
    \/ \E s \in Sids : Sdelete(s)
    \/ \E s \in Sids, n \in 0 .. ShortMax : Sreset(s, n)
    \/ \E s \in Sids, n \in 1 .. ShortMax : Signaln(s, n)
    \/ \E s \in Sids : TryWait(s)
    \/ \E s \in Sids : Wait(s)
    \/ RepriseWait

SemaphoreInit ==
    /\ Init
    /\ tableauSem = {}
    /\ count = [s \in Sids |-> 0]
    /\ operationStatus = [p \in Procs |-> 0]

\* The steps of the other components.
AutresNext ==
    /\ Next
    /\ operationStatus' = Restants(operationStatus)
    /\ UNCHANGED <<tableauSem, count>>

SpecSemaphore == SemaphoreInit /\ [][SemaphoreNext \/ AutresNext]_varsSemaphore

-----------------------------------------------------------------------------
\* Programs that do not kill a process that waits for a semaphore: kill()
\* takes it out of the queue and leaves it in the counter.
SansPerte ==
    \A p \in Pids : etat[p] = "ATTEND_SEMAPHORE" =>
        etat'[p] \in {"ATTEND_SEMAPHORE", "ACTIVABLE", "ELU"}

SpecSansPerte ==
    SemaphoreInit
    /\ [][(SemaphoreNext \/ AutresNext) /\ SansPerte]_varsSemaphore

-----------------------------------------------------------------------------
\* The value each variable may have.
TypeSemaphore ==
    /\ TypeOK
    /\ tableauSem \subseteq Sids
    /\ count \in [Sids -> Shorts]
    /\ operationStatus \in [Procs -> Statuts]

\* A negative counter is the number of processes that wait, none waits while
\* the counter is not negative, and none for a semaphore that is gone: signal
\* decides by the counter alone whether to take a process out of the queue.
CompteEgaleFile ==
    \A s \in Sids :
        /\ Len(queue[s]) = Max({0, -Scount(s)})
        /\ s \notin tableauSem => queue[s] = <<>>

\* With any programs: no wake-up is invented, no process waits while there are
\* tokens, and none for a semaphore that is gone.
CompteBorneFile ==
    \A s \in Sids :
        /\ Len(queue[s]) <= Max({0, -count[s]})
        /\ s \notin tableauSem => queue[s] = <<>>

\* The answer wait() is going to return to a process that is out of the queue.
ReponseDeWait(p) ==
    IF suite[p].appel = "wait" /\ etat[p] \in {"ACTIVABLE", "ELU"}
    THEN CASE ValeurDeWait(p) = 0 -> "jeton"
           [] ValeurDeWait(p) = -3 -> "detruit"
           [] ValeurDeWait(p) = -4 -> "reinitialise"
    ELSE "rien"

Abstrait == INSTANCE SemaphoreAbstrait WITH
    JetonsMax <- ShortMax,
    existe <- tableauSem,
    jetons <- [s \in Sids |-> Max({0, count[s]})],
    attente <- [s \in Sids |-> Reverse(queue[s])],
    reponse <- [p \in Procs |-> ReponseDeWait(p)]

\* The calls keep the promise of semaphore.c's comments: tokens are neither
\* lost nor invented, they go to the processes in the order they came, and
\* each wait() returns the answer of the call that woke it, whatever happened
\* between the wake-up and the return (the semaphore deleted, its sid reused).
ImplementeSemaphore == Abstrait!Spec

\* No process waits for ever for a semaphore that is signalled again and again.
SignalSert ==
    \A s \in Sids, p \in Pids :
        []<><<Signaln(s, 1)>>_varsSemaphore =>
            (p \in Membres(queue[s]) ~> p \notin Membres(queue[s]))

\* signal(): "si la valeur apres incrementation est negative ou nulle, le
\* premier processus se trouvant dans [...] la file d'attente du semaphore
\* passe dans l'etat activable": there is one.
SignalTrouveUnProcessus == panique # "null"
=============================================================================
