------------------------------ MODULE Horloge ------------------------------
(***************************************************************************)
(* kernel/horloge.c: the clock interrupt, which wakes the sleepers and     *)
(* shares the processor, put together with the system calls of processus.c.*)
(* This is the smallest kernel that runs; the other components extend it.  *)
(***************************************************************************)
EXTENDS Processus

CONSTANTS
    ClockFreq,  \* CLOCKFREQ: interrupts per second
    SchedFreq   \* SCHEDFREQ: turns of the scheduler per second

ASSUME HorlogeAssumption ==
    /\ ClockFreq \in Nat \ {0}
    /\ SchedFreq \in 1 .. ClockFreq

VARIABLES
    ticks,      \* ticks, a counter that wraps after DateMax
    cptTicks    \* cpt_ticks

vars == <<noyauVars, ticks, cptTicks>>

\* A counter that never wraps.
TicSansFin == ticks + 1

TicSuivant == (ticks + 1) % (DateMax + 1)
CptSuivant == IF cptTicks + 1 = ClockFreq THEN 0 ELSE cptTicks + 1

\* The turn forgotten.
FinTicSansTour(k, cpt) == [k EXCEPT !.suite[k.elu] = User]

\* The end of tic_PIT(), which reads cpt_ticks only when it gets there.
FinTic(k, cpt) ==
    LET k1 == [k EXCEPT !.suite[k.elu] = User]
    IN  IF cpt % (ClockFreq \div SchedFreq) = 0 THEN Ordonnanceur(k1) ELSE k1

\* tic_PIT(): taken in user mode and in the idle loop.
Tic ==
    /\ panique = "non" /\ suite[elu] = User
    /\ ticks' = TicSuivant
    /\ cptTicks' = CptSuivant
    /\ LET k == VerifieReveille(Courant, TicSuivant)
       IN  Devient(
             IF ReveilPrioritaire(Courant, TicSuivant)
             THEN Ordonnanceur([k EXCEPT !.suite[elu] = [appel |-> "tic", arg |-> Nul]])
             ELSE FinTic(k, CptSuivant))

\* A process that verifie_reveille() preempted is elected again.
RepriseTic ==
    /\ panique = "non" /\ suite[elu].appel = "tic"
    /\ Devient(FinTic(Courant, cptTicks))
    /\ UNCHANGED <<ticks, cptTicks>>

Init == NoyauInit /\ ticks = 0 /\ cptTicks = 0

Next ==
    \/ ProcessusNext /\ UNCHANGED <<ticks, cptTicks>>
    \/ Tic
    \/ RepriseTic

Spec == Init /\ [][Next]_vars

-----------------------------------------------------------------------------
\* Programs that do not kill themselves and do not change priorities.  For
\* the liveness properties: kill(getpid()) loses the wake-up of the father,
\* and chprio puts a ready process behind its equals each time.
NextCalme ==
    \/ /\ \/ \E pr \in 1 .. PrioMax : Start(pr)
          \/ Exit
          \/ \E p \in Pids : KillAutre(p)
          \/ \E cible \in Pids \cup {Nul} : Waitpid(cible)
          \/ RepriseWaitpid
          \/ \E t \in Dates : WaitClock(t)
       /\ UNCHANGED <<ticks, cptTicks>>
    \/ Tic
    \/ RepriseTic

\* The interrupt controller keeps the clock interrupt pending until interrupts
\* are unmasked, which each return to user mode and the idle loop do: strong
\* fairness of Tic.  The kernel code of the elected process always goes on:
\* fairness of the two others.  Each first part is the guard of the action and
\* stands for ENABLED, which TLC would take minutes a state to evaluate.
Vivacite ==
    /\ []<>(panique = "non" /\ suite[elu] = User) => []<><<Tic>>_vars
    /\ []<>(panique = "non" /\ suite[elu].appel = "tic") => []<><<RepriseTic>>_vars
    /\ []<>(panique = "non" /\ suite[elu].appel = "waitpid")
           => []<><<RepriseWaitpid>>_vars

SpecCalme == Init /\ [][NextCalme]_vars /\ Vivacite

-----------------------------------------------------------------------------
\* The value each variable may have.
TypeOK == TypeNoyau /\ ticks \in Dates /\ cptTicks \in 0 .. ClockFreq - 1

\* A sleeper wakes only in a clock interrupt, at a date that its own has
\* reached.
ReveilALHeure ==
    [][\A p \in Pids : etat[p] = "ENDORMI" /\ etat'[p] \in {"ACTIVABLE", "ELU"} =>
          /\ cptTicks' # cptTicks
          /\ reveil[p] <= ticks']_vars

\* Every (ClockFreq / SchedFreq)th interrupt gives the processor to the
\* strongest process, and to another one when there is one as strong.
TourDOrdonnancement ==
    [][/\ cptTicks' # cptTicks
       /\ panique' = "non"
       /\ cptTicks' % (ClockFreq \div SchedFreq) = 0
       => /\ EluPrioritaire'
          /\ elu' = elu => \A p \in Procs \ {elu} :
                etat[p] = "ACTIVABLE" => prio[p] < prio[elu]]_vars

\* A sleeper wakes, or is killed: the loop of verifie_reveille() that stops at
\* the first sleeper that is not due hides no other, and a date that the
\* counter has passed is met after it wraps.
FinDuSommeil ==
    \A p \in Pids : etat[p] = "ENDORMI" ~> etat[p] # "ENDORMI" \/ panique # "non"

\* A ready process of the strongest priority does not wait for ever: its equals
\* are queued behind it.
Equite ==
    \A p \in Pids : etat[p] = "ACTIVABLE" /\ prio[p] = PrioMax
        ~> etat[p] # "ACTIVABLE" \/ panique # "non"

\* A waitpid whose answer is there returns: the father, once woken, is elected
\* and finds the ZOMBIE, unless it is killed first.
AttenteServie ==
    \A p \in Pids :
        /\ suite[p].appel = "waitpid" /\ prio[p] = PrioMax
        /\ \E c \in Range(fils[p]) :
              etat[c] = "ZOMBIE" /\ suite[p].arg \in {Nul, c}
        ~> \/ suite[p].appel # "waitpid"
           \/ etat[p] \in {"ZOMBIE", "MOURANT"}
           \/ panique # "non"
=============================================================================
