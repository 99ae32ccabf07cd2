----------------------------- MODULE Processus -----------------------------
(***************************************************************************)
(* The system calls of kernel/processus.c that create, end, await, put to  *)
(* sleep and reorder processes.  A call that only returns an error changes *)
(* nothing and is not an action.                                           *)
(***************************************************************************)
EXTENDS Noyau

\* The elected process runs in user mode and may enter the kernel.
EnModeUser == panique = "non" /\ elu \in Pids /\ suite[elu] = User

\* A pid given back when its process ends, before its father collects it.
PidRendu(p) == etat[p] \in {"LIBRE", "ZOMBIE"}

\* A pid that new_pid() may return: the free list is refilled when the
\* descriptor is freed.
PidLibre(p) == etat[p] = "LIBRE"

\* start(pt_func, ssize, pr, name, arg), when a pid and memory are to be had.
\* The father is the caller.
Start(pr) ==
    /\ EnModeUser
    /\ \E p \in Pids :
        /\ PidLibre(p)
        /\ LET k == Enfile([Courant EXCEPT !.etat[p] = "ACTIVABLE",
                                           !.prio[p] = pr,
                                           !.pere[p] = elu,
                                           !.fils[elu] = <<p>> \o @],
                           p, "activables")
           IN  Devient(IF pr > prio[elu] THEN Ordonnanceur(k) ELSE k)

\* An exit that forgets the father.
FiniSansPere(k, p) == [k EXCEPT !.etat[p] = "MOURANT"]

\* What a process that ends becomes: a ZOMBIE as long as it has a father.
Fini(k, p) ==
    [k EXCEPT !.etat[p] = IF k.pere[p] = Nul THEN "MOURANT" ELSE "ZOMBIE"]

\* Two ways to wake the father wrongly: whatever it waits for, and never.
ReveilleToutPere(k, p) ==
    IF k.pere[p] # Nul THEN Active(k, k.pere[p]) ELSE k
ReveillePasPere(k, p) == k

\* The father of p is woken when it waits for a child, any child.
ReveillePere(k, p) ==
    IF k.pere[p] # Nul /\ k.etat[k.pere[p]] = "ATTEND_FILS"
    THEN Active(k, k.pere[p]) ELSE k

\* exit(retval).
Exit ==
    /\ EnModeUser
    /\ Devient(Ordonnanceur(ReveillePere(Fini(Courant, elu), elu)))

Tuable(p) == etat[p] \notin {"LIBRE", "ZOMBIE", "MOURANT"}

\* kill(elu): the father is not woken.
KillElu ==
    /\ EnModeUser
    /\ Devient(Ordonnanceur(Fini(Courant, elu)))

\* kill(p), p another process: it leaves its queue, whatever it is.
KillAutre(p) ==
    /\ EnModeUser
    /\ p # elu /\ Tuable(p)
    /\ LET k == Defile(Courant, p)
           fini == Fini(k, p)
       IN  Devient(
             IF k.panique # "non" THEN k
             ELSE FreeMourantQueue(
               IF pere[p] = Nul THEN Enfile(fini, p, "mourants")
               ELSE ReveillePere(fini, p)))

-----------------------------------------------------------------------------
\* waitpid(cible), cible = Nul for a negative pid: any child.

\* The search that never leaves the head of the list.
FinisTete(k, cible) ==
    {i \in 1 .. Len(k.fils[k.elu]) :
        /\ i = 1
        /\ k.etat[k.fils[k.elu][i]] = "ZOMBIE"
        /\ cible \in {Nul, k.fils[k.elu][i]}}

\* The positions in the caller's list of the children it may collect.
Finis(k, cible) ==
    {i \in 1 .. Len(k.fils[k.elu]) :
        /\ k.etat[k.fils[k.elu][i]] = "ZOMBIE"
        /\ cible \in {Nul, k.fils[k.elu][i]}}

Recolte(k, i) ==
    LET c == k.fils[k.elu][i]
    IN  FreeMourantQueue(
            Enfile([k EXCEPT !.fils[k.elu] = RemoveAt(@, i),
                             !.etat[c] = "MOURANT",
                             !.pere[c] = Nul,
                             !.suite[k.elu] = User],
                   c, "mourants"))

\* One turn of waitpid's loop: collect the first ZOMBIE, or block.
TourWaitpid(k, cible) ==
    IF Finis(k, cible) # {}
    THEN Recolte(k, Min(Finis(k, cible)))
    ELSE Ordonnanceur([k EXCEPT !.etat[k.elu] = "ATTEND_FILS",
                                !.suite[k.elu] = [appel |-> "waitpid", arg |-> cible]])

Waitpid(cible) ==
    /\ EnModeUser
    /\ IF cible = Nul THEN fils[elu] # <<>> ELSE pere[cible] = elu
    /\ Devient(TourWaitpid(Courant, cible))

RepriseWaitpid ==
    /\ panique = "non" /\ suite[elu].appel = "waitpid"
    /\ Devient(TourWaitpid(Courant, suite[elu].arg))

-----------------------------------------------------------------------------
\* The place of p is left as it was.
ReplacePas(k, p, f) == k

\* queue_del then queue_add: p is the youngest of its new priority.
Replace(k, p, f) == Enfile(Defile(k, p), p, f)

\* chprio(p, pr).  A process blocked on a file is moved to its new place;
\* one that sleeps, waits for a child, a semaphore or the keyboard is not.
\* The elected process means to compare pr with the strongest ready priority,
\* but gives queue_top the field prio for the link: what it compares with is
\* the link's own `prev`, an address, greater than any priority.
Chprio(p, pr) ==
    /\ EnModeUser
    /\ etat[p] \notin {"LIBRE", "ZOMBIE"}
    /\ LET k == [Courant EXCEPT !.prio[p] = pr]
       IN  Devient(
             CASE p = elu -> Ordonnanceur(k)
               [] p # elu /\ etat[p] = "ACTIVABLE" ->
                    IF prio[elu] < pr
                    THEN Ordonnanceur(Replace(k, p, "activables"))
                    ELSE Replace(k, p, "activables")
               [] p # elu /\ etat[p] = "ATTEND_FILE" ->
                    Replace(k, p, CHOOSE f \in Fids : DansQueue(k, p, f))
               [] OTHER -> k)

\* wait_clock(t): t is a date, not a delay.
WaitClock(t) ==
    /\ EnModeUser
    /\ Devient(Ordonnanceur(
           Enfile([Courant EXCEPT !.etat[elu] = "ENDORMI", !.reveil[elu] = t],
                  elu, "endormis")))

-----------------------------------------------------------------------------
\* Off by one in the test of the date, on either side.
ReveillesTrop(k, t) ==
    LET q == k.queue["endormis"]
    IN  SubSeq(q, 1, Min({i \in 1 .. Len(q) : k.reveil[q[i]] > t + 1}
                          \cup {Len(q) + 1}) - 1)
ReveillesPeu(k, t) ==
    LET q == k.queue["endormis"]
    IN  SubSeq(q, 1, Min({i \in 1 .. Len(q) : k.reveil[q[i]] >= t}
                          \cup {Len(q) + 1}) - 1)

\* verifie_reveille(t): the sleepers whose date is reached, from the head of
\* the list to the first that goes on sleeping.
Reveilles(k, t) ==
    LET q == k.queue["endormis"]
    IN  SubSeq(q, 1, Min({i \in 1 .. Len(q) : k.reveil[q[i]] > t}
                          \cup {Len(q) + 1}) - 1)

VerifieReveille(k, t) ==
    LET w == Reveilles(k, t)
    IN  ActiveTous([k EXCEPT !.queue["endormis"] = SubSeq(@, Len(w) + 1, Len(@))], w)

\* The strict comparison turned round.
ReveilMoinsPrioritaire(k, t) ==
    \E p \in Range(Reveilles(k, t)) : k.prio[p] < k.prio[k.elu]

\* Whether one of them calls for ordonnanceur().
ReveilPrioritaire(k, t) ==
    \E p \in Range(Reveilles(k, t)) : k.prio[p] > k.prio[k.elu]

-----------------------------------------------------------------------------
\* Properties of the system calls.

\* waitpid keeps the pointer `proc` and its caller's list of children across
\* ordonnanceur(): while it waits, its target is still its child, and the
\* list it searches for any child is not empty.
WaitpidValide ==
    \A p \in Procs :
        suite[p].appel = "waitpid" /\ etat[p] \notin {"ZOMBIE", "MOURANT"} =>
            /\ suite[p].arg # Nul => pere[suite[p].arg] = p
            /\ suite[p].arg = Nul => fils[p] # <<>>

\* A process blocked in waitpid never has a child it could collect.
PasDeReveilPerdu ==
    \A p \in Procs : etat[p] = "ATTEND_FILS" =>
        \A c \in Range(fils[p]) :
            etat[c] = "ZOMBIE" => suite[p].arg \notin {Nul, c}

\* A ZOMBIE disappears only because its father collects it while elected, or
\* together with its father.
DisparitionDesZombies ==
    [][\A c \in Pids : etat[c] = "ZOMBIE" /\ etat'[c] # "ZOMBIE" =>
          /\ etat'[c] = "LIBRE"
          /\ pere[c] = elu \/ etat'[pere[c]] = "LIBRE"]_noyauVars

\* No ready process is stronger than the elected one.
EluPrioritaire ==
    \A p \in Procs : etat[p] = "ACTIVABLE" => prio[p] <= prio[elu]

\* The only call that leaves a stronger process waiting for the processor is
\* a kill that wakes the victim's father.
Preemption ==
    [][EluPrioritaire /\ ~EluPrioritaire' =>
          /\ elu' = elu
          /\ \E p \in Pids : etat[p] = "ATTEND_FILS" /\ etat'[p] = "ACTIVABLE"
      ]_noyauVars

\* A process that changes its own priority keeps the processor unless a ready
\* process is then stronger.
ChprioResteElu ==
    [][LET e == elu
       IN  prio'[e] # prio[e] /\ etat'[e] # "LIBRE"
           /\ (\A p \in Procs : etat[p] = "ACTIVABLE" => prio[p] <= prio'[e])
           => elu' = e]_noyauVars

\* The three ways the kernel stops while it runs correct-looking programs.
KillRetireDeSaFile == panique # "queue_del"
EluJamaisLibere == panique # "elu_libere"

ProcessusNext ==
    \/ \E pr \in 1 .. PrioMax : Start(pr)
    \/ Exit
    \/ KillElu
    \/ \E p \in Pids : KillAutre(p)
    \/ \E cible \in Pids \cup {Nul} : Waitpid(cible)
    \/ RepriseWaitpid
    \/ \E p \in Pids, pr \in 1 .. PrioMax : Chprio(p, pr)
    \/ \E t \in Dates : WaitClock(t)
=============================================================================
