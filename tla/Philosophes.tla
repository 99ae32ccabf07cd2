---------------------------- MODULE Philosophes ----------------------------
(***************************************************************************)
(* The semaphore demonstration of user/test_semaphore.c: test200 creates   *)
(* the semaphores and starts a launcher, which starts the philosophers;    *)
(* test200 waits for the launcher only, then destroys the semaphores.      *)
(*                                                                         *)
(* Only a ready process of the highest priority runs: the launcher (193),  *)
(* the philosophers (192), test200 (128).  Among philosophers the clock    *)
(* may give the processor to any.  The table is only touched in mutual     *)
(* exclusion, so a section is one step with the signals it ends with.      *)
(***************************************************************************)
EXTENDS Integers, Sequences

CONSTANTS
    NR_PHILO,   \* philosophers and forks
    Tours       \* turns of a philosopher (6 in the code)

ASSUME PhilosophesAssumption == NR_PHILO \in Nat /\ NR_PHILO >= 3 /\ Tours \in Nat \ {0}

VARIABLES
    fourchette,     \* f[]: the fork is in use
    bloque,         \* bloque[]: the philosopher waits for its forks
    humeur,         \* etat[]: "m" eats, "p" thinks, "-"
    semaphores,     \* mutex_philo and s[]: [compte, file, detruit]
    philosophe,     \* per philosopher: [ligne, tour, dort]
    lances,         \* philosophers started; -1 before the launcher
    test200         \* where test200 is

philosophesVars == <<fourchette, bloque, humeur, semaphores, philosophe, lances, test200>>

Convives == 0 .. NR_PHILO - 1
mutex_philo == -1
Droite(i) == (i + 1) % NR_PHILO
Gauche(i) == (i + NR_PHILO - 1) % NR_PHILO

\* A section of the code, between wait and signal of the mutex.
Section(action) == << "wait", action, "signal" >>

prendre_fourchettes == Section("prend") \o << "attend" >>
manger == Section("m") \o Section("-")
poser_fourchettes == Section("pose")
penser == Section("p") \o Section("-")
UnTour == prendre_fourchettes \o manger \o poser_fourchettes \o penser

\* philosophe(): the turns, then a last section.
Programme == UnTour \o Section("-") \o << "fini" >>

Instruction(i) == Programme[philosophe[i].ligne]

Apres(p) ==
    IF p.ligne = Len(UnTour) /\ p.tour < Tours
    THEN [ligne |-> 1, tour |-> p.tour + 1, dort |-> FALSE]
    ELSE [p EXCEPT !.ligne = @ + 1, !.dort = FALSE]

Pret(i) == i < lances /\ ~philosophe[i].dort /\ Instruction(i) # "fini"

\* The launcher, stronger, has ended before a philosopher runs.
Elu(i) == lances = NR_PHILO /\ Pret(i)

-----------------------------------------------------------------------------
(* wait and signal, as kernel/semaphore.c serves them: a process that      *)
(* blocks is woken by the signal that hands the semaphore over; a call on  *)
(* a destroyed semaphore returns an error, which nobody looks at.          *)

screate(n) == [compte |-> n, file |-> <<>>, detruit |-> FALSE]

attendre(i, sem) ==
    LET s == semaphores[sem]
        bloquant == ~s.detruit /\ s.compte <= 0
    IN  /\ semaphores' = [semaphores EXCEPT ![sem] =
               IF s.detruit THEN s
               ELSE [s EXCEPT !.compte = @ - 1,
                              !.file = IF bloquant THEN Append(@, i) ELSE @]]
        /\ philosophe' = [philosophe EXCEPT ![i] =
               IF bloquant THEN [@ EXCEPT !.dort = TRUE] ELSE Apres(@)]
        /\ UNCHANGED <<fourchette, bloque, humeur, lances, test200>>

\* signal() on each semaphore of a set; i goes on to its next line.
signaler(i, sems) ==
    LET premiers == {Head(semaphores[s].file) :
                         s \in {x \in sems : semaphores[x].file # <<>>}}
    IN  /\ semaphores' = [s \in DOMAIN semaphores |->
               IF s \notin sems \/ semaphores[s].detruit THEN semaphores[s]
               ELSE [semaphores[s] EXCEPT !.compte = @ + 1,
                                          !.file = IF @ = <<>> THEN @ ELSE Tail(@)]]
        /\ philosophe' = [j \in Convives |->
               IF j = i \/ j \in premiers THEN Apres(philosophe[j]) ELSE philosophe[j]]

-----------------------------------------------------------------------------
Attente(i) ==
    /\ Elu(i)
    /\ \/ Instruction(i) = "wait" /\ attendre(i, mutex_philo)
       \/ Instruction(i) = "attend" /\ attendre(i, i)

Signale(i) ==
    /\ Elu(i) /\ Instruction(i) = "signal"
    /\ signaler(i, {mutex_philo})
    /\ UNCHANGED <<fourchette, bloque, humeur, lances, test200>>

\* penser(), manger(): the letter shown.
Montre(i) ==
    /\ Elu(i) /\ Instruction(i) \in {"m", "p", "-"}
    /\ humeur' = [humeur EXCEPT ![i] = Instruction(i)]
    /\ signaler(i, {})
    /\ UNCHANGED <<fourchette, bloque, lances, test200>>

\* test(): are both forks of a philosopher free?
test(i) == ~fourchette[i] /\ ~fourchette[Droite(i)]

PrendFourchettes(i) ==
    /\ Elu(i) /\ Instruction(i) = "prend"
    /\ IF test(i)
       THEN /\ fourchette' = [fourchette EXCEPT ![i] = TRUE, ![Droite(i)] = TRUE]
            /\ signaler(i, {i})
            /\ UNCHANGED bloque
       ELSE /\ bloque' = [bloque EXCEPT ![i] = TRUE]
            /\ signaler(i, {})
            /\ UNCHANGED fourchette
    /\ UNCHANGED <<humeur, lances, test200>>

\* A fork is handed to a blocked neighbour whose other fork is free, without
\* looking at that other fork.
CedeSansVoir(f, voisin, autre) == bloque[voisin]

\* A fork put down is handed to a blocked neighbour whose other fork is free.
Cede(f, voisin, autre) == bloque[voisin] /\ ~f[autre]

\* poser_fourchettes(): the left fork i first, then the right one, whose
\* neighbour's other fork is Droite(Droite(i)).
Pose(i) ==
    LET g == Gauche(i)
        d == Droite(i)
        aGauche == Cede(fourchette, g, g)
        f1 == [fourchette EXCEPT ![i] = aGauche, ![g] = @ \/ aGauche]
        aDroite == Cede(f1, d, Droite(d))
    IN  /\ Elu(i) /\ Instruction(i) = "pose"
        /\ fourchette' = [f1 EXCEPT ![d] = aDroite, ![Droite(d)] = @ \/ aDroite]
        /\ bloque' = [bloque EXCEPT ![g] = @ /\ ~aGauche, ![d] = @ /\ ~aDroite]
        /\ signaler(i, (IF aGauche THEN {g} ELSE {}) \cup (IF aDroite THEN {d} ELSE {}))
        /\ UNCHANGED <<humeur, lances, test200>>

-----------------------------------------------------------------------------
(* test200() and the launcher.                                             *)

LanceLanceur ==
    /\ test200 = "debut" /\ test200' = "waitpid"
    /\ lances' = 0
    /\ UNCHANGED <<fourchette, bloque, humeur, semaphores, philosophe>>

\* launch_philo(): starts the philosophers, all weaker than it is.
LancePhilosophe ==
    /\ lances \in 0 .. NR_PHILO - 1
    /\ lances' = lances + 1
    /\ UNCHANGED <<fourchette, bloque, humeur, semaphores, philosophe, test200>>

\* A philosopher ready keeps test200 from running.
PhilosophesForts == \E i \in Convives : Pret(i)

\* waitpid() returned, test200 destroys the semaphores.
Termine ==
    /\ test200 = "waitpid" /\ lances = NR_PHILO /\ ~PhilosophesForts
    /\ test200' = "sdelete"
    /\ semaphores' = [s \in DOMAIN semaphores |-> [screate(0) EXCEPT !.detruit = TRUE]]
    /\ philosophe' = [i \in Convives |->
           IF philosophe[i].dort THEN Apres(philosophe[i]) ELSE philosophe[i]]
    /\ UNCHANGED <<fourchette, bloque, humeur, lances>>

PhilosophesInit ==
    /\ fourchette = [i \in Convives |-> FALSE]
    /\ bloque = [i \in Convives |-> FALSE]
    /\ humeur = [i \in Convives |-> "-"]
    /\ semaphores = [s \in Convives \cup {mutex_philo} |-> screate(IF s = mutex_philo THEN 1 ELSE 0)]
    /\ philosophe = [i \in Convives |-> [ligne |-> 1, tour |-> 1, dort |-> FALSE]]
    /\ lances = -1
    /\ test200 = "debut"

PhilosophesNext ==
    \/ \E i \in Convives : Attente(i) \/ Signale(i) \/ Montre(i) \/ PrendFourchettes(i) \/ Pose(i)
    \/ LanceLanceur \/ LancePhilosophe \/ Termine

-----------------------------------------------------------------------------
\* Neighbours never eat together.
VoisinsSeparement == \A i \in Convives : humeur[i] = "m" => humeur[Droite(i)] # "m"

\* The semaphores outlive their last use: test200, which never waits for the
\* philosophers, destroys them when all have ended their turns.  A deadlock of
\* the philosophers would let it run before.
DestructionTardive ==
    test200 = "sdelete" => \A i \in Convives : Instruction(i) = "fini"

\* The philosophers share their forks and end in peace (test_semaphore.c
\* prendre_fourchettes, poser_fourchettes, test200).
RepasEnPaix == VoisinsSeparement /\ DestructionTardive

=============================================================================
