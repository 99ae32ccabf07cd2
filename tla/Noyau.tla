------------------------------- MODULE Noyau -------------------------------
(***************************************************************************)
(* The process table, the queues and the scheduler core of                 *)
(* kernel/processus.c, which every other component works on.               *)
(*                                                                         *)
(* The kernel runs with interrupts masked (interrupt gates, sti only in    *)
(* the idle loop), so a system call or a handler is atomic from its entry  *)
(* to its first call of ordonnanceur().  What a process still has to       *)
(* execute in kernel mode when it is elected again is its `suite`.         *)
(*                                                                         *)
(* The functions of the code are operators from a kernel state (a record   *)
(* with one field per variable) to the kernel state they leave, so that a  *)
(* handler is the composition of the calls it makes.                       *)
(***************************************************************************)
EXTENDS Queue

CONSTANTS
    Pids,      \* pids a started process may get: 1 .. MAX_PROCESS - 1
    Idle,      \* pid 0
    Nul,       \* the NULL pointer
    PrioMax,   \* PRIO_MAX
    DateMax,   \* the largest value of the tick counter before it wraps
    Fids,      \* file identifiers: each names the wait queue of a file
    Sids       \* semaphore identifiers: each names a wait queue too

ASSUME NoyauAssumption ==
    /\ Pids # {}
    /\ Idle \notin Pids
    /\ Nul \notin Pids \cup {Idle}
    /\ PrioMax \in Nat \ {0}
    /\ DateMax \in Nat \ {0}
    /\ Fids \cap Sids = {}
    /\ (Fids \cup Sids) \cap {"activables", "endormis", "mourants", "bloque_es"} = {}

Procs == Pids \cup {Idle}
Dates == 0 .. DateMax

\* enum Etat, and "LIBRE" for an entry of tableDesProcs that is NULL.
Etats == {"LIBRE", "ELU", "ACTIVABLE", "ENDORMI", "MOURANT", "ZOMBIE",
          "ATTEND_FILS", "ATTEND_FILE", "ATTEND_SEMAPHORE", "ATTEND_ES"}

Queues == {"activables", "endormis", "mourants", "bloque_es"} \cup Fids \cup Sids

\* Where a process goes on when it is elected: in user mode, or in the call
\* (or interrupt handler) that gave the processor away.
Suites == [appel : {"user", "waitpid", "tic", "wait", "psend", "preceive",
                    "cons_read", "clavier"},
           arg : Pids \cup {Nul}]
User == [appel |-> "user", arg |-> Nul]

\* Why the kernel stops: an assert of queue.h or of files.c, the NULL pointer
\* that an empty queue gives, the elected process freed, a line copied over the
\* end of tampon.  "non" as long as it runs.
Paniques == {"non", "queue_add", "queue_del", "add_msg", "null", "elu_libere", "tampon"}

VARIABLES
    elu,       \* ProcElu
    etat,      \* Processus.etat
    prio,      \* Processus.prio
    reveil,    \* Processus.secReveille
    pere,      \* Processus.pere
    fils,      \* Processus.FilsTete, the list from its head
    queue,     \* the queue behind each list head
    suite,     \* the continuation on the kernel stack
    panique    \* in Paniques

noyauVars == <<elu, etat, prio, reveil, pere, fils, queue, suite, panique>>

Courant == [elu |-> elu, etat |-> etat, prio |-> prio, reveil |-> reveil,
            pere |-> pere, fils |-> fils, queue |-> queue, suite |-> suite,
            panique |-> panique]

\* A handler that ends in the state k.  A panic stops the machine where it
\* happens: the state before the handler is kept beside the reason.
Devient(k) ==
    /\ panique' = k.panique
    /\ IF k.panique = "non"
       THEN /\ elu' = k.elu /\ etat' = k.etat /\ prio' = k.prio
            /\ reveil' = k.reveil /\ pere' = k.pere /\ fils' = k.fils
            /\ queue' = k.queue /\ suite' = k.suite
       ELSE UNCHANGED <<elu, etat, prio, reveil, pere, fils, queue, suite>>

-----------------------------------------------------------------------------
\* Queues of processes.

Membres(q) == Range(q)
DansQueue(k, p, f) == p \in Membres(k.queue[f])
Chaine(k, p) == \E f \in Queues : DansQueue(k, p, f)

\* The field a queue is ordered by: secReveille for the sleepers, `place`
\* (always 0) for the semaphores, prio for the others.
Cle(k, f) == IF f = "endormis" THEN k.reveil
             ELSE IF f \in Sids THEN [p \in Procs |-> 0]
             ELSE k.prio

\* queue_add(p, &f, ...): it asserts that p's links are clear.
Enfile(k, p, f) ==
    IF Chaine(k, p)
    THEN [k EXCEPT !.panique = "queue_add"]
    ELSE [k EXCEPT !.queue[f] = QueueAdd(@, p, Cle(k, f))]

\* A removal that is forgotten.
DefileOublie(k, p) == k

\* queue_del(p, chainage): it asserts that p's links are set, and unlinks p
\* from whatever list they belong to.
Defile(k, p) ==
    IF Chaine(k, p)
    THEN LET f == CHOOSE g \in Queues : DansQueue(k, p, g)
         IN  [k EXCEPT !.queue[f] = QueueDel(@, p)]
    ELSE [k EXCEPT !.panique = "queue_del"]

\* proc->etat = ACTIVABLE; queue_add(proc, &proc_activables, ...)
Active(k, p) == Enfile([k EXCEPT !.etat[p] = "ACTIVABLE"], p, "activables")

\* The same in turn for each process of w, all taken out of their queue.
ActiveTous(k, w) ==
    IF \E p \in Range(w) : Chaine(k, p)
    THEN [k EXCEPT !.panique = "queue_add"]
    ELSE [k EXCEPT !.etat = [p \in Procs |->
                                IF p \in Range(w) THEN "ACTIVABLE" ELSE @[p]],
                   !.queue["activables"] = QueueAddTous(@, w, k.prio)]

-----------------------------------------------------------------------------
\* The scheduler.

\* The processes free_mourant_queue() frees: its loop takes those of
\* proc_mourants, and free_childs() puts their ZOMBIE children there too.
Morts(k) ==
    {p \in Pids :
        \A S \in SUBSET Pids :
            /\ Membres(k.queue["mourants"]) \subseteq S
            /\ \A q \in S : \A c \in Membres(k.fils[q]) :
                   k.etat[c] = "ZOMBIE" => c \in S
            => p \in S}

\* free_childs() without its else branch: the children keep a dangling pointer.
PeresPendants(k, morts) ==
    [p \in Procs |-> IF p \in morts THEN Nul ELSE k.pere[p]]

\* The children that outlive their father become orphans.
PeresApres(k, morts) ==
    [p \in Procs |-> IF p \in morts \/ k.pere[p] \in morts THEN Nul ELSE k.pere[p]]

\* free_mourant_queue().  When the elected process is among the dead its
\* descriptor and the kernel stack it runs on are freed under it: what
\* follows is undefined, and the model stops there.
FreeMourantQueue(k) ==
    LET morts == Morts(k)
    IN  IF k.panique # "non" THEN k
        ELSE IF k.elu \in morts THEN [k EXCEPT !.panique = "elu_libere"]
        ELSE [k EXCEPT
                !.queue["mourants"] = <<>>,
                !.etat = [p \in Procs |-> IF p \in morts THEN "LIBRE" ELSE @[p]],
                !.prio = [p \in Procs |-> IF p \in morts THEN 0 ELSE @[p]],
                !.reveil = [p \in Procs |-> IF p \in morts THEN 0 ELSE @[p]],
                !.suite = [p \in Procs |-> IF p \in morts THEN User ELSE @[p]],
                !.fils = [p \in Procs |-> IF p \in morts THEN <<>> ELSE @[p]],
                !.pere = PeresApres(k, morts)]

\* What becomes of the process that gives the processor up: the switch of
\* ordonnanceur().
RangeElu(k) ==
    CASE k.etat[k.elu] = "MOURANT" -> Enfile(k, k.elu, "mourants")
      [] k.etat[k.elu] \in {"ELU", "ACTIVABLE"} -> Active(k, k.elu)
      [] OTHER -> k

Elit(k, p) == [k EXCEPT !.queue["activables"] = QueueOut(@),
                        !.etat[p] = "ELU",
                        !.elu = p]

\* ordonnanceur(): the next instruction executed is that of the suite of
\* the process it leaves elected.
Ordonnanceur(k) ==
    LET k1 == FreeMourantQueue(k)
        k2 == RangeElu(k1)
    IN  IF k1.panique # "non" \/ k1.queue["activables"] = <<>> THEN k1
        ELSE IF k2.panique # "non" THEN k2
        ELSE Elit(k2, QueueTop(k2.queue["activables"]))

-----------------------------------------------------------------------------
\* Properties of the kernel state, which every component has to keep.

\* The value each variable may have.
TypeNoyau ==
    /\ elu \in Procs
    /\ etat \in [Procs -> Etats]
    /\ prio \in [Procs -> 0 .. PrioMax]
    /\ reveil \in [Procs -> Dates]
    /\ pere \in [Procs -> Procs \cup {Nul}]
    /\ fils \in [Procs -> Seq(Pids)]
    /\ queue \in [Queues -> Seq(Procs)]
    /\ suite \in [Procs -> Suites]
    /\ panique \in Paniques

\* The queues a process in state e is chained in: one of these and no other.
QueuesDe(e) ==
    CASE e = "ACTIVABLE" -> {"activables"}
      [] e = "ENDORMI" -> {"endormis"}
      [] e = "MOURANT" -> {"mourants"}
      [] e = "ATTEND_ES" -> {"bloque_es"}
      [] e = "ATTEND_FILE" -> Fids
      [] e = "ATTEND_SEMAPHORE" -> Sids
      [] OTHER -> {}

\* The state of a process says in which queue it is: exactly one, once, or
\* none.  The processor is never without a process: IDLE is elected or
\* ready.  It is what the two asserts of queue.h rely on in all the calls
\* that move a process.
Discipline ==
    /\ \A p \in Procs, f \in Queues :
           p \in Range(queue[f]) => f \in QueuesDe(etat[p])
    /\ \A p \in Procs : QueuesDe(etat[p]) # {} =>
           \E f \in Queues : p \in Range(queue[f])
    /\ \A p \in Procs, f, g \in Queues :
           p \in Range(queue[f]) /\ p \in Range(queue[g]) => f = g
    /\ \A f \in Queues : IsInjective(queue[f])
    /\ \A p \in Procs : etat[p] = "ELU" <=> p = elu
    /\ etat[Idle] \in {"ELU", "ACTIVABLE"}

\* The lists of children and the father pointers say the same, and point to
\* live descriptors only; a ZOMBIE has a father that may still collect it.
Filiation ==
    /\ \A p \in Procs : IsInjective(fils[p])
    /\ \A p, c \in Procs : c \in Range(fils[p]) <=> pere[c] = p
    /\ \A p \in Procs : etat[p] = "LIBRE" => fils[p] = <<>>
    /\ \A p \in Procs : etat[p] \in {"LIBRE", "MOURANT"} => pere[p] = Nul
    /\ \A p \in Procs : etat[p] = "ZOMBIE" => pere[p] # Nul
    /\ pere[Idle] = Nul

\* The ready list and the sleepers stay sorted although priorities change
\* under them: queue_out then gives the strongest process, and the loop of
\* verifie_reveille may stop at the first sleeper that is not due.
FilesTriees ==
    /\ Triee(queue["activables"], prio)
    /\ Triee(queue["endormis"], reveil)

\* The assert of queue_add never fails, whatever the programs do.
JamaisEnfileDeuxFois == panique # "queue_add"

-----------------------------------------------------------------------------
\* The state init_ordonnanceur() leaves: the shell USER, started by IDLE with
\* priority 1, is elected, and IDLE waits with priority 0.
NoyauInit ==
    /\ elu \in Pids
    /\ etat = [p \in Procs |-> IF p = elu THEN "ELU"
                               ELSE IF p = Idle THEN "ACTIVABLE" ELSE "LIBRE"]
    /\ prio = [p \in Procs |-> IF p = elu THEN 1 ELSE 0]
    /\ reveil = [p \in Procs |-> 0]
    /\ pere = [p \in Procs |-> Nul]
    /\ fils = [p \in Procs |-> <<>>]
    /\ queue = [f \in Queues |-> IF f = "activables" THEN <<Idle>> ELSE <<>>]
    /\ suite = [p \in Procs |-> User]
    /\ panique = "non"
=============================================================================
