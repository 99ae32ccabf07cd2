---------------------------- MODULE NoyauProofs ----------------------------
(***************************************************************************)
(* What the operators of Noyau keep, for every value of the constants.     *)
(* First their types, Noyaux being the set of the well-typed kernel        *)
(* states, then the lists and the states of Discipline.                    *)
(***************************************************************************)
EXTENDS Noyau, QueueLemmes

Noyaux == [elu : Procs, etat : [Procs -> Etats], prio : [Procs -> 0 .. PrioMax],
           reveil : [Procs -> Dates], pere : [Procs -> Procs \cup {Nul}],
           fils : [Procs -> Seq(Pids)], queue : [Queues -> Seq(Procs)],
           suite : [Procs -> Suites],
           panique : Paniques]

\* The state of the variables has the type Noyaux.
LEMMA CourantType == TypeNoyau <=> Courant \in Noyaux
BY DEF TypeNoyau, Courant, Noyaux

\* A handler that leaves a well-typed kernel state keeps TypeNoyau.
LEMMA DevientType ==
    ASSUME TypeNoyau, NEW k \in Noyaux, Devient(k)
    PROVE  TypeNoyau'
<1>1. CASE k.panique = "non"
  BY <1>1 DEF TypeNoyau, Devient, Noyaux
<1>2. CASE k.panique # "non"
  BY <1>2 DEF TypeNoyau, Devient, Noyaux
<1> QED
  BY <1>1, <1>2

LEMMA ConstantesProcs == Pids \subseteq Procs /\ Idle \in Procs /\ Nul \notin Procs
BY NoyauAssumption DEF Procs

LEMMA ConstantesQueues ==
    /\ "activables" \in Queues /\ "endormis" \in Queues
    /\ "mourants" \in Queues /\ "bloque_es" \in Queues
    /\ Fids \subseteq Queues /\ Sids \subseteq Queues
BY DEF Queues

\* Every queue is ordered by a natural number.
LEMMA CleType ==
    ASSUME NEW k \in Noyaux, NEW f
    PROVE  Cle(k, f) \in [Procs -> Nat]
<1>1. k.reveil \in [Procs -> Nat]
  BY DEF Noyaux, Dates
<1>2. k.prio \in [Procs -> Nat]
  BY DEF Noyaux
<1> QED
  BY <1>1, <1>2 DEF Cle

LEMMA EnfileType ==
    ASSUME NEW k \in Noyaux, NEW p \in Procs, NEW f
    PROVE  /\ Enfile(k, p, f) \in Noyaux
           /\ \A g \in Queues : k.queue[g] # <<>> => Enfile(k, p, f).queue[g] # <<>>
<1>1. k.queue \in [Queues -> Seq(Procs)]
  BY DEF Noyaux
<1> DEFINE r == QueueAdd(k.queue[f], p, Cle(k, f))
<1>2. f \in Queues => r \in Seq(Procs) /\ r # <<>>
  <2> SUFFICES ASSUME f \in Queues PROVE r \in Seq(Procs) /\ r # <<>>
    OBVIOUS
  <2>1. k.queue[f] \in Seq(Procs)
    BY <1>1
  <2> QED
    BY <2>1, CleType, QueueAddElements
<1>3. CASE Chaine(k, p)
  <2>1. Enfile(k, p, f) = [k EXCEPT !.panique = "queue_add"]
    BY <1>3 DEF Enfile
  <2> QED
    BY <2>1 DEF Noyaux, Paniques
<1>4. CASE ~ Chaine(k, p)
  <2>1. Enfile(k, p, f) = [k EXCEPT !.queue[f] = r]
    BY <1>4 DEF Enfile
  <2> HIDE DEF r
  <2>2. [k EXCEPT !.queue[f] = r] \in Noyaux
    BY <1>2 DEF Noyaux
  <2>3. ASSUME NEW g \in Queues, k.queue[g] # <<>>
        PROVE  [k EXCEPT !.queue[f] = r].queue[g] # <<>>
    BY <1>1, <1>2, <2>3 DEF Noyaux
  <2> QED
    BY <2>1, <2>2, <2>3
<1> QED
  BY <1>3, <1>4

LEMMA DefileType ==
    ASSUME NEW k \in Noyaux, NEW p \in Procs
    PROVE  Defile(k, p) \in Noyaux
<1>1. CASE Chaine(k, p)
  <2> DEFINE f == CHOOSE g \in Queues : DansQueue(k, p, g)
             r == QueueDel(k.queue[f], p)
  <2>1. f \in Queues /\ p \in Range(k.queue[f])
    BY <1>1 DEF Chaine, DansQueue, Membres
  <2>2. Defile(k, p) = [k EXCEPT !.queue[f] = r]
    BY <1>1 DEF Defile
  <2> HIDE DEF f
  <2>3. k.queue[f] \in Seq(Procs)
    BY <2>1 DEF Noyaux
  <2>4. r \in Seq(Procs)
    BY <2>1, <2>3, QueueDelElements
  <2> HIDE DEF r
  <2>5. [k EXCEPT !.queue[f] = r] \in Noyaux
    BY <2>4 DEF Noyaux
  <2> QED
    BY <2>2, <2>5
<1>2. CASE ~ Chaine(k, p)
  <2>1. Defile(k, p) = [k EXCEPT !.panique = "queue_del"]
    BY <1>2 DEF Defile
  <2> QED
    BY <2>1 DEF Noyaux, Paniques
<1> QED
  BY <1>1, <1>2

LEMMA EtatType ==
    ASSUME NEW k \in Noyaux, NEW p \in Procs, NEW e \in Etats
    PROVE  [k EXCEPT !.etat[p] = e] \in Noyaux
BY DEF Noyaux

LEMMA ActiveType ==
    ASSUME NEW k \in Noyaux, NEW p \in Procs
    PROVE  /\ Active(k, p) \in Noyaux
           /\ k.queue["activables"] # <<>> => Active(k, p).queue["activables"] # <<>>
<1> DEFINE k1 == [k EXCEPT !.etat[p] = "ACTIVABLE"]
<1>1. k1 \in Noyaux
  BY EtatType DEF Etats
<1>2. Active(k, p) = Enfile(k1, p, "activables")
  BY DEF Active
<1>3. k1.queue = k.queue
  BY DEF Noyaux
<1> HIDE DEF k1
<1> QED
  BY <1>1, <1>2, <1>3, EnfileType, ConstantesQueues

LEMMA ActiveTousType ==
    ASSUME NEW k \in Noyaux, NEW w \in Seq(Procs)
    PROVE  ActiveTous(k, w) \in Noyaux
<1>1. CASE \E p \in Range(w) : Chaine(k, p)
  <2>1. ActiveTous(k, w) = [k EXCEPT !.panique = "queue_add"]
    BY <1>1 DEF ActiveTous
  <2> QED
    BY <2>1 DEF Noyaux, Paniques
<1>2. CASE ~ \E p \in Range(w) : Chaine(k, p)
  <2> DEFINE e == [p \in Procs |-> IF p \in Range(w) THEN "ACTIVABLE" ELSE k.etat[p]]
             r == QueueAddTous(k.queue["activables"], w, k.prio)
  <2>1. ActiveTous(k, w) = [k EXCEPT !.etat = e, !.queue["activables"] = r]
    BY <1>2 DEF ActiveTous
  <2>2. e \in [Procs -> Etats]
    BY DEF Noyaux, Etats
  <2>3. k.queue["activables"] \in Seq(Procs) /\ k.prio \in [Procs -> Nat]
    BY ConstantesQueues DEF Noyaux
  <2>4. r \in Seq(Procs)
    BY <2>3, QueueAddTousElements
  <2> HIDE DEF e, r
  <2>5. [k EXCEPT !.etat = e] \in Noyaux
    BY <2>2 DEF Noyaux
  <2>6. [[k EXCEPT !.etat = e] EXCEPT !.queue["activables"] = r] \in Noyaux
    BY <2>4, <2>5 DEF Noyaux
  <2>7. ActiveTous(k, w) = [[k EXCEPT !.etat = e] EXCEPT !.queue["activables"] = r]
    BY <2>1 DEF Noyaux
  <2> QED
    BY <2>6, <2>7
<1> QED
  BY <1>1, <1>2

LEMMA FreeMourantQueueType ==
    ASSUME NEW k \in Noyaux
    PROVE  FreeMourantQueue(k) \in Noyaux
<1> DEFINE m == Morts(k)
           e == [p \in Procs |-> IF p \in m THEN "LIBRE" ELSE k.etat[p]]
           pr == [p \in Procs |-> IF p \in m THEN 0 ELSE k.prio[p]]
           re == [p \in Procs |-> IF p \in m THEN 0 ELSE k.reveil[p]]
           su == [p \in Procs |-> IF p \in m THEN User ELSE k.suite[p]]
           fi == [p \in Procs |-> IF p \in m THEN <<>> ELSE k.fils[p]]
           pe == PeresApres(k, m)
           r == [k EXCEPT !.queue["mourants"] = <<>>, !.etat = e, !.prio = pr,
                          !.reveil = re, !.suite = su, !.fils = fi, !.pere = pe]
<1>1. \/ FreeMourantQueue(k) = k
      \/ FreeMourantQueue(k) = [k EXCEPT !.panique = "elu_libere"]
      \/ FreeMourantQueue(k) = r
  BY DEF FreeMourantQueue
<1>2. [k EXCEPT !.panique = "elu_libere"] \in Noyaux
  BY DEF Noyaux, Paniques
<1>3. r \in Noyaux
  <2> HIDE DEF m
  <2>1. e \in [Procs -> Etats]
    BY DEF Noyaux, Etats
  <2>2. pr \in [Procs -> 0 .. PrioMax]
    BY NoyauAssumption DEF Noyaux
  <2>3. re \in [Procs -> Dates]
    BY NoyauAssumption DEF Noyaux, Dates
  <2>4. su \in [Procs -> Suites]
    BY DEF Noyaux, Suites, User
  <2>5. fi \in [Procs -> Seq(Pids)]
    BY DEF Noyaux
  <2>6. pe \in [Procs -> Procs \cup {Nul}]
    BY DEF Noyaux, PeresApres
  <2> HIDE DEF e, pr, re, su, fi, pe
  <2>7. <<>> \in Seq(Procs)
    OBVIOUS
  <2> QED
    BY <2>1, <2>2, <2>3, <2>4, <2>5, <2>6, <2>7 DEF Noyaux
<1> HIDE DEF r
<1> QED
  BY <1>1, <1>2, <1>3

LEMMA RangeEluType ==
    ASSUME NEW k \in Noyaux
    PROVE  /\ RangeElu(k) \in Noyaux
           /\ k.queue["activables"] # <<>> => RangeElu(k).queue["activables"] # <<>>
<1>1. k.elu \in Procs
  BY DEF Noyaux
<1>2. CASE k.etat[k.elu] = "MOURANT"
  <2>1. RangeElu(k) = Enfile(k, k.elu, "mourants")
    BY <1>2 DEF RangeElu
  <2> QED
    BY <1>1, <2>1, EnfileType, ConstantesQueues
<1>3. CASE k.etat[k.elu] \in {"ELU", "ACTIVABLE"}
  <2>1. RangeElu(k) = Active(k, k.elu)
    BY <1>3 DEF RangeElu
  <2> QED
    BY <1>1, <2>1, ActiveType
<1>4. CASE k.etat[k.elu] \notin {"MOURANT", "ELU", "ACTIVABLE"}
  BY <1>4 DEF RangeElu
<1> QED
  BY <1>2, <1>3, <1>4

LEMMA ElitType ==
    ASSUME NEW k \in Noyaux, NEW p \in Procs, k.queue["activables"] # <<>>
    PROVE  Elit(k, p) \in Noyaux
<1> DEFINE r == QueueOut(k.queue["activables"])
<1>1. k.queue["activables"] \in Seq(Procs)
  BY ConstantesQueues DEF Noyaux
<1>2. r \in Seq(Procs)
  BY <1>1, QueueOutElements
<1> HIDE DEF r
<1>3. [k EXCEPT !.queue["activables"] = r, !.etat[p] = "ELU", !.elu = p] \in Noyaux
  BY <1>2 DEF Noyaux, Etats
<1> QED
  BY <1>3 DEF Elit, r

LEMMA OrdonnanceurType ==
    ASSUME NEW k \in Noyaux
    PROVE  Ordonnanceur(k) \in Noyaux
<1> DEFINE k1 == FreeMourantQueue(k)
           k2 == RangeElu(k1)
           p == QueueTop(k2.queue["activables"])
<1>1. k1 \in Noyaux
  BY FreeMourantQueueType
<1> HIDE DEF k1
<1>2. k2 \in Noyaux /\ (k1.queue["activables"] # <<>> => k2.queue["activables"] # <<>>)
  BY <1>1, RangeEluType
<1> HIDE DEF k2
<1>3. ASSUME k1.queue["activables"] # <<>> PROVE Elit(k2, p) \in Noyaux
  <2>1. k2.queue["activables"] \in Seq(Procs) /\ k2.queue["activables"] # <<>>
    BY <1>2, <1>3, ConstantesQueues DEF Noyaux
  <2>2. p \in Procs
    BY <2>1, QueueOutElements
  <2> HIDE DEF p
  <2> QED
    BY <1>2, <2>1, <2>2, ElitType
<1>4. Ordonnanceur(k) = IF k1.panique # "non" \/ k1.queue["activables"] = <<>> THEN k1
                        ELSE IF k2.panique # "non" THEN k2 ELSE Elit(k2, p)
  BY DEF Ordonnanceur, k1, k2
<1> HIDE DEF p
<1> QED
  BY <1>1, <1>2, <1>3, <1>4

-----------------------------------------------------------------------------
\* The operators of Noyau keep Discipline.

\* The part of Discipline that is about the queues q and the states e, with
\* the processes of L in no queue whatever their state: a handler that holds
\* a process between two lists has it in L.
Chainage(q, e, L) ==
    /\ \A p \in Procs, f \in Queues :
           p \in Range(q[f]) => p \notin L /\ f \in QueuesDe(e[p])
    /\ \A p \in Procs \ L : QueuesDe(e[p]) # {} =>
           \E f \in Queues : p \in Range(q[f])
    /\ \A p \in Procs, f, g \in Queues :
           p \in Range(q[f]) /\ p \in Range(q[g]) => f = g
    /\ \A f \in Queues : IsInjective(q[f])

\* IDLE never blocks.
IdlePret(k) == /\ k.etat[Idle] \in {"ELU", "ACTIVABLE"}
               /\ k.suite[Idle].appel \in {"user", "tic"}

\* A kernel state between two handlers.
Regle(k) ==
    /\ Chainage(k.queue, k.etat, {})
    /\ \A p \in Procs : k.etat[p] = "ELU" <=> p = k.elu
    /\ IdlePret(k)

\* A kernel state in which ordonnanceur() may be called: the elected process
\* is in the queue of its state unless the scheduler is to put it there.
Tenu(k) == IF k.etat[k.elu] \in {"ELU", "ACTIVABLE", "MOURANT"} THEN {k.elu} ELSE {}

Pret(k) ==
    /\ Chainage(k.queue, k.etat, Tenu(k))
    /\ \A p \in Procs : k.etat[p] = "ELU" => p = k.elu
    /\ k.elu = Idle => k.etat[Idle] = "ELU"
    /\ IdlePret(k)

LEMMA QueuesDeValeurs ==
    /\ QueuesDe("ACTIVABLE") = {"activables"} /\ QueuesDe("ENDORMI") = {"endormis"}
    /\ QueuesDe("MOURANT") = {"mourants"} /\ QueuesDe("ATTEND_ES") = {"bloque_es"}
    /\ QueuesDe("ATTEND_FILE") = Fids /\ QueuesDe("ATTEND_SEMAPHORE") = Sids
    /\ QueuesDe("ELU") = {} /\ QueuesDe("LIBRE") = {}
    /\ QueuesDe("ZOMBIE") = {} /\ QueuesDe("ATTEND_FILS") = {}
BY DEF QueuesDe

\* A queue of the scheduler holds processes in one state only.
LEMMA QueuesDeInverse ==
    ASSUME NEW e \in Etats
    PROVE  /\ "activables" \in QueuesDe(e) => e = "ACTIVABLE"
           /\ "endormis" \in QueuesDe(e) => e = "ENDORMI"
           /\ "mourants" \in QueuesDe(e) => e = "MOURANT"
BY NoyauAssumption DEF QueuesDe, Etats

-----------------------------------------------------------------------------
\* How Chainage changes with a list, and with a state.

LEMMA ChainageAjout ==
    ASSUME NEW q \in [Queues -> Seq(Procs)], NEW e, NEW L, Chainage(q, e, L),
           NEW p \in L, p \in Procs, NEW f \in Queues, f \in QueuesDe(e[p]),
           NEW r \in Seq(Procs), Range(r) = Range(q[f]) \cup {p},
           IsInjective(q[f]) /\ p \notin Range(q[f]) => IsInjective(r)
    PROVE  Chainage([q EXCEPT ![f] = r], e, L \ {p})
<1> DEFINE s == [q EXCEPT ![f] = r]
<1>1. \A g \in Queues : p \notin Range(q[g])
  BY DEF Chainage
<1>2. s[f] = r /\ \A g \in Queues : g # f => s[g] = q[g]
  OBVIOUS
<1>3. \A g \in Queues : \A x : x \in Range(s[g]) <=> x \in Range(q[g]) \/ (g = f /\ x = p)
  BY <1>2
<1>4. \A g \in Queues : IsInjective(s[g])
  <2>1. IsInjective(r)
    BY <1>1 DEF Chainage
  <2> QED
    BY <1>2, <2>1 DEF Chainage
<1> HIDE DEF s
<1>5. \A x \in Procs, g \in Queues :
         x \in Range(s[g]) => x \notin L \ {p} /\ g \in QueuesDe(e[x])
  BY <1>3 DEF Chainage
<1>6. \A x \in Procs \ (L \ {p}) : QueuesDe(e[x]) # {} =>
         \E g \in Queues : x \in Range(s[g])
  <2> SUFFICES ASSUME NEW x \in Procs \ (L \ {p}), QueuesDe(e[x]) # {}
               PROVE  \E g \in Queues : x \in Range(s[g])
    OBVIOUS
  <2>1. CASE x = p
    BY <1>3, <2>1
  <2>2. CASE x # p
    BY <1>3, <2>2 DEF Chainage
  <2> QED
    BY <2>1, <2>2
<1>7. \A x \in Procs, g, h \in Queues : x \in Range(s[g]) /\ x \in Range(s[h]) => g = h
  BY <1>1, <1>3 DEF Chainage
<1>8. Chainage(s, e, L \ {p})
  BY <1>4, <1>5, <1>6, <1>7 DEF Chainage
<1> QED
  BY <1>8 DEF s

LEMMA ChainageRetrait ==
    ASSUME NEW q \in [Queues -> Seq(Procs)], NEW e, NEW L, Chainage(q, e, L),
           NEW f \in Queues, NEW W, W \subseteq Range(q[f]),
           NEW r \in Seq(Procs), Range(r) = Range(q[f]) \ W, IsInjective(r)
    PROVE  Chainage([q EXCEPT ![f] = r], e, L \cup W)
<1> DEFINE s == [q EXCEPT ![f] = r]
<1>2. s[f] = r /\ \A g \in Queues : g # f => s[g] = q[g]
  OBVIOUS
<1>3. \A g \in Queues : \A x : x \in Range(s[g]) <=> x \in Range(q[g]) /\ (g = f => x \notin W)
  BY <1>2
<1>4. \A g \in Queues : IsInjective(s[g])
  BY <1>2 DEF Chainage
<1> HIDE DEF s
<1>5. \A x \in Procs, g \in Queues :
         x \in Range(s[g]) => x \notin L \cup W /\ g \in QueuesDe(e[x])
  <2> SUFFICES ASSUME NEW x \in Procs, NEW g \in Queues, x \in Range(s[g])
               PROVE  x \notin L \cup W /\ g \in QueuesDe(e[x])
    OBVIOUS
  <2>1. x \in Range(q[g]) /\ x \notin L /\ g \in QueuesDe(e[x])
    BY <1>3 DEF Chainage
  <2>2. x \notin W
    <3>1. CASE g = f
      BY <1>3, <3>1
    <3>2. CASE g # f
      BY <2>1, <3>2 DEF Chainage
    <3> QED
      BY <3>1, <3>2
  <2> QED
    BY <2>1, <2>2
<1>6. \A x \in Procs \ (L \cup W) : QueuesDe(e[x]) # {} =>
         \E g \in Queues : x \in Range(s[g])
  BY <1>3 DEF Chainage
<1>7. \A x \in Procs, g, h \in Queues : x \in Range(s[g]) /\ x \in Range(s[h]) => g = h
  BY <1>3 DEF Chainage
<1>8. Chainage(s, e, L \cup W)
  BY <1>4, <1>5, <1>6, <1>7 DEF Chainage
<1> QED
  BY <1>8 DEF s

LEMMA ChainageEtat ==
    ASSUME NEW q, NEW e \in [Procs -> Etats], NEW L, NEW p \in L, NEW x,
           Chainage(q, e, L)
    PROVE  Chainage(q, [e EXCEPT ![p] = x], L)
<1>1. \A y \in Procs : y \notin L => [e EXCEPT ![p] = x][y] = e[y]
  OBVIOUS
<1> QED
  BY <1>1 DEF Chainage

\* A process whose state has no queue may be held or not.
LEMMA ChainageTenir ==
    ASSUME NEW q, NEW e, NEW L, NEW p \in Procs, QueuesDe(e[p]) = {},
           Chainage(q, e, L)
    PROVE  Chainage(q, e, L \cup {p}) /\ Chainage(q, e, L \ {p})
BY DEF Chainage

-----------------------------------------------------------------------------
\* The operators of Noyau.

\* What moving a process between two lists leaves alone.
Memes(r, k) ==
    /\ r.panique = k.panique /\ r.elu = k.elu /\ r.suite = k.suite
    /\ r.pere = k.pere /\ r.fils = k.fils /\ r.prio = k.prio

LEMMA EnfileDiscipline ==
    ASSUME NEW k \in Noyaux, NEW L, Chainage(k.queue, k.etat, L),
           NEW p \in L, p \in Procs, NEW f \in Queues, f \in QueuesDe(k.etat[p])
    PROVE  /\ Chainage(Enfile(k, p, f).queue, k.etat, L \ {p})
           /\ Enfile(k, p, f).etat = k.etat
           /\ Memes(Enfile(k, p, f), k)
<1> DEFINE r == QueueAdd(k.queue[f], p, Cle(k, f))
           q == [k.queue EXCEPT ![f] = r]
<1>1. k.queue \in [Queues -> Seq(Procs)] /\ k.queue[f] \in Seq(Procs)
  BY DEF Noyaux
<1>2. ~ Chaine(k, p)
  BY DEF Chainage, Chaine, DansQueue, Membres
<1>3. /\ r \in Seq(Procs)
      /\ Range(r) = Range(k.queue[f]) \cup {p}
      /\ IsInjective(k.queue[f]) /\ p \notin Range(k.queue[f]) => IsInjective(r)
  BY <1>1, CleType, QueueAddElements
<1>4. Enfile(k, p, f) = [k EXCEPT !.queue[f] = r]
  BY <1>2 DEF Enfile
<1> HIDE DEF r
<1>5. Chainage(q, k.etat, L \ {p})
  BY <1>1, <1>3, ChainageAjout
<1>6. Enfile(k, p, f) = [k EXCEPT !.queue = q]
  BY <1>4
<1> HIDE DEF q
<1>7. /\ [k EXCEPT !.queue = q].queue = q
      /\ [k EXCEPT !.queue = q].etat = k.etat
      /\ Memes([k EXCEPT !.queue = q], k)
  BY DEF Noyaux, Memes
<1> QED
  BY <1>5, <1>6, <1>7

LEMMA DefileDiscipline ==
    ASSUME NEW k \in Noyaux, NEW L, Chainage(k.queue, k.etat, L),
           NEW p \in Procs, Chaine(k, p)
    PROVE  /\ Chainage(Defile(k, p).queue, k.etat, L \cup {p})
           /\ Defile(k, p).etat = k.etat
           /\ Memes(Defile(k, p), k)
<1> DEFINE f == CHOOSE g \in Queues : DansQueue(k, p, g)
           r == QueueDel(k.queue[f], p)
           q == [k.queue EXCEPT ![f] = r]
<1>1. f \in Queues /\ p \in Range(k.queue[f])
  BY DEF Chaine, DansQueue, Membres
<1>2. Defile(k, p) = [k EXCEPT !.queue[f] = r]
  BY DEF Defile
<1> HIDE DEF f
<1>3. k.queue \in [Queues -> Seq(Procs)] /\ k.queue[f] \in Seq(Procs)
  BY <1>1 DEF Noyaux
<1>4. IsInjective(k.queue[f])
  BY <1>1 DEF Chainage
<1>5. /\ r \in Seq(Procs) /\ IsInjective(r)
      /\ Range(r) = Range(k.queue[f]) \ {p}
  <2>1. /\ r \in Seq(Procs)
        /\ Range(r) \subseteq Range(k.queue[f])
        /\ Range(k.queue[f]) \subseteq Range(r) \cup {p}
        /\ IsInjective(r) /\ p \notin Range(r)
    BY <1>1, <1>3, <1>4, QueueDelElements
  <2> HIDE DEF r
  <2> QED
    BY <2>1
<1> HIDE DEF r
<1>6. Chainage(q, k.etat, L \cup {p})
  BY <1>1, <1>3, <1>5, ChainageRetrait
<1>7. Defile(k, p) = [k EXCEPT !.queue = q]
  BY <1>2
<1> HIDE DEF q
<1>8. /\ [k EXCEPT !.queue = q].queue = q
      /\ [k EXCEPT !.queue = q].etat = k.etat
      /\ Memes([k EXCEPT !.queue = q], k)
  BY DEF Noyaux, Memes
<1> QED
  BY <1>6, <1>7, <1>8

\* A process that no list holds becomes ready.
LEMMA ActiveDiscipline ==
    ASSUME NEW k \in Noyaux, NEW L, Chainage(k.queue, k.etat, L),
           NEW p \in L, p \in Procs
    PROVE  /\ Chainage(Active(k, p).queue, Active(k, p).etat, L \ {p})
           /\ Active(k, p).etat = [k.etat EXCEPT ![p] = "ACTIVABLE"]
           /\ Memes(Active(k, p), k)
<1> DEFINE e == [k.etat EXCEPT ![p] = "ACTIVABLE"]
           k1 == [k EXCEPT !.etat[p] = "ACTIVABLE"]
<1>1. k.etat \in [Procs -> Etats]
  BY DEF Noyaux
<1>2. k1 \in Noyaux
  BY EtatType DEF Etats
<1>3. k1.queue = k.queue /\ k1.etat = e /\ Memes(k1, k)
  BY DEF Noyaux, Memes
<1>4. Chainage(k.queue, e, L) /\ e[p] = "ACTIVABLE"
  BY <1>1, ChainageEtat
<1>5. Active(k, p) = Enfile(k1, p, "activables")
  BY DEF Active
<1> HIDE DEF e, k1
<1>6. "activables" \in QueuesDe(k1.etat[p])
  BY <1>3, <1>4, QueuesDeValeurs
<1>7. Chainage(k1.queue, k1.etat, L)
  BY <1>3, <1>4
<1>8. /\ Chainage(Enfile(k1, p, "activables").queue, k1.etat, L \ {p})
      /\ Enfile(k1, p, "activables").etat = k1.etat
      /\ Memes(Enfile(k1, p, "activables"), k1)
  BY <1>2, <1>6, <1>7, ConstantesQueues, EnfileDiscipline
<1> QED
  BY <1>3, <1>5, <1>8 DEF Memes, e

\* A loop that makes all the processes of w ready, which it holds.
LEMMA ActiveTousDiscipline ==
    ASSUME NEW k \in Noyaux, NEW w \in Seq(Procs), IsInjective(w),
           Chainage(k.queue, k.etat, Range(w))
    PROVE  /\ Chainage(ActiveTous(k, w).queue, ActiveTous(k, w).etat, {})
           /\ ActiveTous(k, w).etat =
                 [p \in Procs |-> IF p \in Range(w) THEN "ACTIVABLE" ELSE k.etat[p]]
           /\ Memes(ActiveTous(k, w), k)
<1> DEFINE e == [p \in Procs |-> IF p \in Range(w) THEN "ACTIVABLE" ELSE k.etat[p]]
           a == k.queue["activables"]
           r == QueueAddTous(a, w, k.prio)
           s == [k.queue EXCEPT !["activables"] = r]
<1>1. k.queue \in [Queues -> Seq(Procs)] /\ a \in Seq(Procs) /\ k.prio \in [Procs -> Nat]
  BY ConstantesQueues DEF Noyaux
<1>2. \A p \in Range(w), f \in Queues : p \in Procs /\ p \notin Range(k.queue[f])
  <2>1. Range(w) \subseteq Procs
    BY RangeEquality
  <2> QED
    BY <2>1 DEF Chainage
<1>3. ~ \E p \in Range(w) : Chaine(k, p)
  BY <1>2 DEF Chaine, DansQueue, Membres
<1>4. ActiveTous(k, w) = [k EXCEPT !.etat = e, !.queue["activables"] = r]
  BY <1>3 DEF ActiveTous
<1>5. r \in Seq(Procs) /\ Range(r) = Range(a) \cup Range(w) /\ IsInjective(r)
  <2>1. Range(a) \cap Range(w) = {}
    BY <1>2, ConstantesQueues
  <2>2. IsInjective(a)
    BY ConstantesQueues DEF Chainage
  <2> HIDE DEF a
  <2> QED
    BY <1>1, <2>1, <2>2, QueueAddTousElements
<1> HIDE DEF r
<1>6. s["activables"] = r /\ \A g \in Queues : g # "activables" => s[g] = k.queue[g]
  BY <1>1, ConstantesQueues
<1>7. \A g \in Queues : \A x :
         x \in Range(s[g]) <=> x \in Range(k.queue[g]) \/ (g = "activables" /\ x \in Range(w))
  BY <1>5, <1>6
<1>8. \A g \in Queues : IsInjective(s[g])
  BY <1>5, <1>6 DEF Chainage
<1>9. \A x \in Procs : e[x] = IF x \in Range(w) THEN "ACTIVABLE" ELSE k.etat[x]
  OBVIOUS
<1>10. ActiveTous(k, w).queue = s /\ ActiveTous(k, w).etat = e /\ Memes(ActiveTous(k, w), k)
  <2>1. ActiveTous(k, w) = [k EXCEPT !.etat = e, !.queue = s]
    BY <1>4
  <2> HIDE DEF e, s
  <2> QED
    BY <2>1 DEF Noyaux, Memes
<1> HIDE DEF s, e
<1>11. \A x \in Procs, g \in Queues : x \in Range(s[g]) => g \in QueuesDe(e[x])
  <2> SUFFICES ASSUME NEW x \in Procs, NEW g \in Queues, x \in Range(s[g])
               PROVE  g \in QueuesDe(e[x])
    OBVIOUS
  <2>1. CASE x \in Range(w)
    <3>1. g = "activables"
      BY <1>2, <1>7, <2>1
    <3> QED
      BY <1>9, <2>1, <3>1, QueuesDeValeurs
  <2>2. CASE x \notin Range(w)
    BY <1>7, <1>9, <2>2 DEF Chainage
  <2> QED
    BY <2>1, <2>2
<1>12. \A x \in Procs : QueuesDe(e[x]) # {} => \E g \in Queues : x \in Range(s[g])
  <2> SUFFICES ASSUME NEW x \in Procs, QueuesDe(e[x]) # {}
               PROVE  \E g \in Queues : x \in Range(s[g])
    OBVIOUS
  <2>1. CASE x \in Range(w)
    BY <1>7, <2>1, ConstantesQueues
  <2>2. CASE x \notin Range(w)
    BY <1>7, <1>9, <2>2 DEF Chainage
  <2> QED
    BY <2>1, <2>2
<1>13. \A x \in Procs, g, h \in Queues : x \in Range(s[g]) /\ x \in Range(s[h]) => g = h
  BY <1>2, <1>7 DEF Chainage
<1>14. Chainage(s, e, {})
  BY <1>8, <1>11, <1>12, <1>13 DEF Chainage
<1> QED
  BY <1>10, <1>14 DEF e

\* free_mourant_queue() frees processes that have ended, and no other.
LEMMA MortsFinis ==
    ASSUME NEW k \in Noyaux, NEW L, Chainage(k.queue, k.etat, L), IdlePret(k)
    PROVE  /\ Range(k.queue["mourants"]) \subseteq Morts(k)
           /\ \A p \in Morts(k) : p \in Pids /\ k.etat[p] \in {"MOURANT", "ZOMBIE"}
<1> DEFINE S == {p \in Pids : k.etat[p] \in {"MOURANT", "ZOMBIE"}}
<1>1. Range(k.queue["mourants"]) \subseteq Procs
  <2>1. k.queue["mourants"] \in Seq(Procs)
    BY ConstantesQueues DEF Noyaux
  <2> QED
    BY <2>1, RangeEquality
<1>2. \A p \in Range(k.queue["mourants"]) : k.etat[p] = "MOURANT" /\ p \in Pids
  <2> SUFFICES ASSUME NEW p \in Range(k.queue["mourants"])
               PROVE  k.etat[p] = "MOURANT" /\ p \in Pids
    OBVIOUS
  <2>1. p \in Procs
    BY <1>1
  <2>2. "mourants" \in QueuesDe(k.etat[p])
    BY <2>1, ConstantesQueues DEF Chainage
  <2>3. k.etat[p] \in Etats
    BY <2>1 DEF Noyaux
  <2>4. k.etat[p] = "MOURANT"
    BY <2>2, <2>3, QueuesDeInverse
  <2> QED
    BY <2>1, <2>4 DEF IdlePret, Procs
<1>3. \A q \in S : \A c \in Membres(k.fils[q]) : k.etat[c] = "ZOMBIE" => c \in S
  <2> SUFFICES ASSUME NEW q \in S, NEW c \in Membres(k.fils[q]), k.etat[c] = "ZOMBIE"
               PROVE  c \in S
    OBVIOUS
  <2>1. k.fils[q] \in Seq(Pids)
    BY ConstantesProcs DEF Noyaux
  <2>2. c \in Pids
    BY <2>1, RangeEquality DEF Membres
  <2> QED
    BY <2>2
<1>4. Range(k.queue["mourants"]) \subseteq S
  BY <1>2
<1>5. Morts(k) \subseteq S
  <2>1. S \in SUBSET Pids
    OBVIOUS
  <2> HIDE DEF S
  <2> QED
    BY <1>3, <1>4, <2>1 DEF Morts, Membres
<1>6. Range(k.queue["mourants"]) \subseteq Morts(k)
  BY <1>2 DEF Morts, Membres
<1> QED
  BY <1>5, <1>6

LEMMA FreeMourantQueueDiscipline ==
    ASSUME NEW k \in Noyaux, NEW L, Chainage(k.queue, k.etat, L), IdlePret(k),
           k.panique = "non"
    PROVE  LET r == FreeMourantQueue(k)
           IN  \/ r.panique = "elu_libere"
               \/ /\ r.panique = "non"
                  /\ Chainage(r.queue, r.etat, L)
                  /\ r.elu = k.elu
                  /\ r.etat[k.elu] = k.etat[k.elu]
                  /\ \A p \in Procs : r.etat[p] = "ELU" => k.etat[p] = "ELU"
                  /\ IdlePret(r)
<1> DEFINE m == Morts(k)
           e == [p \in Procs |-> IF p \in m THEN "LIBRE" ELSE k.etat[p]]
           pr == [p \in Procs |-> IF p \in m THEN 0 ELSE k.prio[p]]
           re == [p \in Procs |-> IF p \in m THEN 0 ELSE k.reveil[p]]
           su == [p \in Procs |-> IF p \in m THEN User ELSE k.suite[p]]
           fi == [p \in Procs |-> IF p \in m THEN <<>> ELSE k.fils[p]]
           pe == PeresApres(k, m)
           s == [k.queue EXCEPT !["mourants"] = <<>>]
           r == [k EXCEPT !.queue["mourants"] = <<>>, !.etat = e, !.prio = pr,
                          !.reveil = re, !.suite = su, !.fils = fi, !.pere = pe]
<1>1. CASE k.elu \in m
  <2>1. FreeMourantQueue(k) = [k EXCEPT !.panique = "elu_libere"]
    BY <1>1 DEF FreeMourantQueue
  <2> QED
    BY <2>1 DEF Noyaux
<1>2. CASE k.elu \notin m
  <2>1. FreeMourantQueue(k) = r
    BY <1>2 DEF FreeMourantQueue
  <2>2. r.panique = "non" /\ r.queue = s /\ r.elu = k.elu /\ r.etat = e /\ r.suite = su
    <3> HIDE DEF m, e, pr, re, su, fi, pe
    <3> QED
      BY DEF Noyaux
  <2> HIDE DEF r
  <2>3. /\ Range(k.queue["mourants"]) \subseteq m
        /\ \A p \in m : p \in Pids /\ k.etat[p] \in {"MOURANT", "ZOMBIE"}
    BY MortsFinis
  <2> HIDE DEF m
  <2>4. k.elu \in Procs /\ Idle \in Procs /\ Idle \notin m
    BY <2>3, NoyauAssumption DEF Noyaux, Procs
  <2>5. \A p \in Procs : e[p] = IF p \in m THEN "LIBRE" ELSE k.etat[p]
    OBVIOUS
  <2>6. e[k.elu] = k.etat[k.elu] /\ e[Idle] = k.etat[Idle] /\ su[Idle] = k.suite[Idle]
    BY <1>2, <2>4
  <2>7. \A p \in Procs : e[p] = "ELU" => k.etat[p] = "ELU"
    BY <2>5
  <2>8. /\ Range(s["mourants"]) = {} /\ IsInjective(s["mourants"])
        /\ \A g \in Queues : g # "mourants" => s[g] = k.queue[g]
    <3>1. k.queue \in [Queues -> Seq(Procs)]
      BY DEF Noyaux
    <3>2. s["mourants"] = <<>> /\ \A g \in Queues : g # "mourants" => s[g] = k.queue[g]
      BY <3>1, ConstantesQueues
    <3>3. Range(<<>>) = {} /\ IsInjective(<<>>)
      BY DEF Range, IsInjective
    <3> QED
      BY <3>2, <3>3
  <2> HIDE DEF s, e
  <2>9. \A x \in Procs, g \in Queues :
           x \in Range(s[g]) => x \in Range(k.queue[g]) /\ g # "mourants"
    BY <2>8
  <2>10. \A x \in Procs, g \in Queues : x \in Range(s[g]) => x \notin m
    <3> SUFFICES ASSUME NEW x \in Procs, NEW g \in Queues, x \in Range(s[g])
                 PROVE  x \notin m
      OBVIOUS
    <3>1. g \in QueuesDe(k.etat[x]) /\ g # "mourants"
      BY <2>9 DEF Chainage
    <3> QED
      BY <2>3, <3>1, QueuesDeValeurs
  <2>11. \A x \in Procs, g \in Queues :
            x \in Range(s[g]) => x \notin L /\ g \in QueuesDe(e[x])
    BY <2>5, <2>9, <2>10 DEF Chainage
  <2>12. \A x \in Procs \ L : QueuesDe(e[x]) # {} => \E g \in Queues : x \in Range(s[g])
    <3> SUFFICES ASSUME NEW x \in Procs \ L, QueuesDe(e[x]) # {}
                 PROVE  \E g \in Queues : x \in Range(s[g])
      OBVIOUS
    <3>1. x \notin m /\ e[x] = k.etat[x]
      BY <2>5, QueuesDeValeurs
    <3>2. PICK g \in Queues : x \in Range(k.queue[g])
      BY <3>1 DEF Chainage
    <3>3. g # "mourants"
      BY <2>3, <3>1, <3>2
    <3> QED
      BY <2>8, <3>2, <3>3
  <2>13. \A x \in Procs, g, h \in Queues : x \in Range(s[g]) /\ x \in Range(s[h]) => g = h
    BY <2>9 DEF Chainage
  <2>14. \A g \in Queues : IsInjective(s[g])
    BY <2>8 DEF Chainage
  <2>15. Chainage(s, e, L)
    BY <2>11, <2>12, <2>13, <2>14 DEF Chainage
  <2>16. IdlePret(r)
    BY <2>2, <2>6 DEF IdlePret
  <2> HIDE DEF su
  <2> QED
    BY <2>1, <2>2, <2>6, <2>7, <2>15, <2>16
<1> QED
  BY <1>1, <1>2

\* The switch of ordonnanceur(): every process is then in the list of its
\* state, and none is elected.
LEMMA RangeEluDiscipline ==
    ASSUME NEW k \in Noyaux, Pret(k)
    PROVE  LET r == RangeElu(k)
           IN  /\ Chainage(r.queue, r.etat, {})
               /\ \A p \in Procs : r.etat[p] # "ELU"
               /\ IdlePret(r)
               /\ r.panique = k.panique
<1> DEFINE r == RangeElu(k)
<1>0. k.elu \in Procs /\ Idle \in Procs /\ k.etat \in [Procs -> Etats]
  BY ConstantesProcs DEF Noyaux
<1>1. CASE k.etat[k.elu] = "MOURANT"
  <2>1. r = Enfile(k, k.elu, "mourants")
    BY <1>1 DEF RangeElu
  <2>2. Chainage(k.queue, k.etat, {k.elu})
    BY <1>1 DEF Pret, Tenu
  <2>5. "mourants" \in QueuesDe(k.etat[k.elu])
    BY <1>1, QueuesDeValeurs
  <2> DEFINE s == Enfile(k, k.elu, "mourants")
  <2>6. Chainage(s.queue, k.etat, {k.elu} \ {k.elu}) /\ s.etat = k.etat /\ Memes(s, k)
    BY <1>0, <2>2, <2>5, EnfileDiscipline, ConstantesQueues
  <2>7. r = s
    BY <2>1
  <2> HIDE DEF r, s
  <2>3. Chainage(r.queue, k.etat, {k.elu} \ {k.elu}) /\ r.etat = k.etat /\ Memes(r, k)
    BY <2>6, <2>7
  <2>4. {k.elu} \ {k.elu} = {}
    OBVIOUS
  <2> QED
    BY <1>1, <2>3, <2>4 DEF Pret, Memes, IdlePret, r
<1>2. CASE k.etat[k.elu] \in {"ELU", "ACTIVABLE"}
  <2>1. r = Active(k, k.elu)
    BY <1>2 DEF RangeElu
  <2>2. Chainage(k.queue, k.etat, {k.elu})
    BY <1>2 DEF Pret, Tenu
  <2>3. /\ Chainage(r.queue, r.etat, {k.elu} \ {k.elu})
        /\ r.etat = [k.etat EXCEPT ![k.elu] = "ACTIVABLE"] /\ Memes(r, k)
    BY <1>0, <2>1, <2>2, ActiveDiscipline
  <2>4. {k.elu} \ {k.elu} = {}
    OBVIOUS
  <2> HIDE DEF r
  <2>5. \A p \in Procs : r.etat[p] = IF p = k.elu THEN "ACTIVABLE" ELSE k.etat[p]
    BY <1>0, <2>3
  <2> QED
    BY <1>0, <2>3, <2>4, <2>5 DEF Pret, Memes, IdlePret, r
<1>3. CASE k.etat[k.elu] \notin {"MOURANT", "ELU", "ACTIVABLE"}
  <2>1. r = k
    BY <1>3 DEF RangeElu
  <2>2. Chainage(k.queue, k.etat, {})
    BY <1>3 DEF Pret, Tenu
  <2> HIDE DEF r
  <2> QED
    BY <1>3, <2>1, <2>2 DEF Pret, r
<1> QED
  BY <1>1, <1>2, <1>3

LEMMA ElitDiscipline ==
    ASSUME NEW k \in Noyaux, Chainage(k.queue, k.etat, {}),
           \A p \in Procs : k.etat[p] # "ELU", IdlePret(k),
           k.queue["activables"] # <<>>
    PROVE  LET r == Elit(k, QueueTop(k.queue["activables"]))
           IN  Regle(r) /\ r.panique = k.panique
<1> DEFINE a == k.queue["activables"]
           p == QueueTop(a)
           b == QueueOut(a)
           s == [k.queue EXCEPT !["activables"] = b]
           e == [k.etat EXCEPT ![p] = "ELU"]
           r == Elit(k, p)
<1>1. /\ k.queue \in [Queues -> Seq(Procs)] /\ k.etat \in [Procs -> Etats]
      /\ a \in Seq(Procs) /\ a # <<>> /\ IsInjective(a)
  BY ConstantesQueues DEF Noyaux, Chainage
<1>2. r = [k EXCEPT !.queue["activables"] = b, !.etat[p] = "ELU", !.elu = p]
  BY DEF Elit
<1> HIDE DEF a
<1>3. /\ p \in Range(a) /\ p \in Procs /\ b \in Seq(Procs)
      /\ Range(b) = Range(a) \ {p} /\ IsInjective(b)
  <2>1. /\ p \in Range(a) /\ p \in Procs /\ b \in Seq(Procs)
        /\ Range(b) \subseteq Range(a) /\ Range(a) \subseteq Range(b) \cup {p}
        /\ IsInjective(b) /\ p \notin Range(b)
    BY <1>1, QueueOutElements
  <2> HIDE DEF p, b
  <2> QED
    BY <2>1
<1> HIDE DEF p, b
<1>4. Chainage(s, k.etat, {p})
  <2>1. {p} \subseteq Range(k.queue["activables"])
        /\ Range(b) = Range(k.queue["activables"]) \ {p}
    BY <1>3 DEF a
  <2>2. Chainage(s, k.etat, {} \cup {p})
    BY <1>1, <1>3, <2>1, ChainageRetrait, ConstantesQueues
  <2>3. {} \cup {p} = {p}
    OBVIOUS
  <2> HIDE DEF s
  <2> QED
    BY <2>2, <2>3
<1>5. r.queue = s /\ r.etat = e /\ r.elu = p /\ r.suite = k.suite /\ r.panique = k.panique
  <2> HIDE DEF r
  <2>1. r = [k EXCEPT !.queue = s, !.etat = e, !.elu = p]
    BY <1>2
  <2> HIDE DEF s, e
  <2> QED
    BY <2>1 DEF Noyaux
<1> HIDE DEF s, r
<1>6. Chainage(s, e, {p})
  BY <1>1, <1>4, ChainageEtat
<1>7. \A x \in Procs : e[x] = IF x = p THEN "ELU" ELSE k.etat[x]
  BY <1>1
<1> HIDE DEF e
<1>8. Chainage(s, e, {})
  <2>1. QueuesDe(e[p]) = {}
    BY <1>3, <1>7, QueuesDeValeurs
  <2>2. Chainage(s, e, {p} \ {p})
    BY <1>3, <1>6, <2>1, ChainageTenir
  <2>3. {p} \ {p} = {}
    OBVIOUS
  <2> QED
    BY <2>2, <2>3
<1>9. Regle(r)
  BY <1>5, <1>7, <1>8, ConstantesProcs DEF Regle, IdlePret
<1> QED
  BY <1>5, <1>9 DEF r, p, a

\* ordonnanceur() leaves a kernel state between two handlers, and neither of
\* the asserts of queue.h fails in it.
LEMMA OrdonnanceurDiscipline ==
    ASSUME NEW k \in Noyaux, Pret(k), k.panique = "non"
    PROVE  \/ Ordonnanceur(k).panique = "elu_libere"
           \/ Ordonnanceur(k).panique = "non" /\ Regle(Ordonnanceur(k))
<1> DEFINE k1 == FreeMourantQueue(k)
           k2 == RangeElu(k1)
           k3 == Elit(k2, QueueTop(k2.queue["activables"]))
<1>1. Ordonnanceur(k) = IF k1.panique # "non" \/ k1.queue["activables"] = <<>> THEN k1
                        ELSE IF k2.panique # "non" THEN k2 ELSE k3
  BY DEF Ordonnanceur
<1>2. k1 \in Noyaux
  BY FreeMourantQueueType
<1>3. \/ k1.panique = "elu_libere"
      \/ /\ k1.panique = "non"
         /\ Chainage(k1.queue, k1.etat, Tenu(k))
         /\ k1.elu = k.elu
         /\ k1.etat[k.elu] = k.etat[k.elu]
         /\ \A p \in Procs : k1.etat[p] = "ELU" => k.etat[p] = "ELU"
         /\ IdlePret(k1)
  BY FreeMourantQueueDiscipline DEF Pret
<1> HIDE DEF k1
<1>4. CASE k1.panique # "non"
  BY <1>1, <1>3, <1>4
<1>5. CASE k1.panique = "non"
  <2>1. Pret(k1)
    <3>1. Tenu(k1) = Tenu(k)
      BY <1>3, <1>5 DEF Tenu
    <3> QED
      BY <1>3, <1>5, <3>1 DEF Pret
  <2>2. CASE k1.queue["activables"] = <<>>
    <3>1. Range(k1.queue["activables"]) = {}
      BY <2>2 DEF Range
    <3>2. Idle \in Procs /\ k1.etat[Idle] \in {"ELU", "ACTIVABLE"}
      BY <2>1, ConstantesProcs DEF Pret, IdlePret
    <3>3. k1.elu = Idle
      <4> SUFFICES ASSUME k1.elu # Idle PROVE FALSE
        OBVIOUS
      <4>1. k1.etat[Idle] = "ACTIVABLE"
        BY <2>1, <3>2 DEF Pret
      <4>2. Idle \notin Tenu(k1)
        BY DEF Tenu
      <4>3. PICK f \in Queues : Idle \in Range(k1.queue[f])
        BY <2>1, <3>2, <4>1, <4>2, QueuesDeValeurs DEF Pret, Chainage
      <4>4. f = "activables"
        BY <2>1, <3>2, <4>1, <4>3, QueuesDeValeurs DEF Pret, Chainage
      <4> QED
        BY <3>1, <4>3, <4>4
    <3>4. k1.etat[Idle] = "ELU" /\ Tenu(k1) = {Idle}
      BY <2>1, <3>3 DEF Pret, Tenu
    <3>5. Chainage(k1.queue, k1.etat, {})
      <4>1. Chainage(k1.queue, k1.etat, {Idle} \ {Idle})
        BY <2>1, <3>2, <3>4, ChainageTenir, QueuesDeValeurs DEF Pret
      <4>2. {Idle} \ {Idle} = {}
        OBVIOUS
      <4> QED
        BY <4>1, <4>2
    <3>6. Regle(k1)
      BY <2>1, <3>3, <3>4, <3>5 DEF Pret, Regle
    <3> QED
      BY <1>1, <1>5, <2>2, <3>6
  <2>3. CASE k1.queue["activables"] # <<>>
    <3>1. /\ k2 \in Noyaux /\ k2.queue["activables"] # <<>>
      BY <1>2, <2>3, RangeEluType
    <3>2. /\ Chainage(k2.queue, k2.etat, {})
          /\ \A p \in Procs : k2.etat[p] # "ELU"
          /\ IdlePret(k2)
          /\ k2.panique = k1.panique
      BY <1>2, <2>1, RangeEluDiscipline
    <3> HIDE DEF k2
    <3>3. Regle(k3) /\ k3.panique = k2.panique
      BY <3>1, <3>2, ElitDiscipline
    <3> HIDE DEF k3
    <3> QED
      BY <1>1, <1>5, <2>3, <3>2, <3>3
  <2> QED
    BY <2>2, <2>3
<1> QED
  BY <1>4, <1>5

\* A handler may call ordonnanceur() in any state between two handlers.
LEMMA ReglePret ==
    ASSUME NEW k \in Noyaux, Regle(k)
    PROVE  Pret(k)
<1>1. k.elu \in Procs /\ k.etat[k.elu] = "ELU"
  BY DEF Noyaux, Regle
<1>2. Tenu(k) = {} \cup {k.elu}
  BY <1>1 DEF Tenu
<1>3. QueuesDe(k.etat[k.elu]) = {}
  BY <1>1, QueuesDeValeurs
<1>4. Chainage(k.queue, k.etat, Tenu(k))
  <2>1. Chainage(k.queue, k.etat, {})
    BY DEF Regle
  <2>2. Chainage(k.queue, k.etat, {} \cup {k.elu})
    BY <1>1, <1>3, <2>1, ChainageTenir
  <2> QED
    BY <1>2, <2>2, Zenon
<1> QED
  BY <1>1, <1>4 DEF Regle, Pret
=============================================================================
