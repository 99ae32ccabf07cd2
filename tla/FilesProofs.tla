----------------------------- MODULE FilesProofs -----------------------------
(***************************************************************************)
(* The files of messages, for any programs, those that use the semaphores  *)
(* and kill processes that wait included: types, discipline, the two waits *)
(* that a queue never mixes, and the answer of pcount.                     *)
(***************************************************************************)
EXTENDS Files, SemaphoreProofs, FiniteSetTheorems

-----------------------------------------------------------------------------
\* What the kernel leaves of the queues of the files.

\* They are the same in the two kernel states, and so are the call and the
\* priority of the processes that are in them.
EnPlace(r, k) ==
    \A f \in Fids :
        /\ r.queue[f] = k.queue[f]
        /\ \A p \in Procs : p \in Range(k.queue[f]) =>
              r.suite[p] = k.suite[p] /\ r.prio[p] = k.prio[p]

\* They lost processes at most, and are in order if they were.
Epargne(r, k) ==
    \A f \in Fids :
        /\ Range(r.queue[f]) \subseteq Range(k.queue[f])
        /\ Triee(k.queue[f], k.prio) => Triee(r.queue[f], r.prio)
        /\ \A p \in Procs : p \in Range(r.queue[f]) => r.suite[p] = k.suite[p]

LEMMA EnPlaceTransitif ==
    ASSUME NEW k, NEW r, NEW s, EnPlace(r, k), EnPlace(s, r)
    PROVE  EnPlace(s, k)
BY DEF EnPlace

LEMMA EpargneTransitif ==
    ASSUME NEW k, NEW r, NEW s, Epargne(r, k), Epargne(s, r)
    PROVE  Epargne(s, k)
BY DEF Epargne

LEMMA EnPlaceEpargne ==
    ASSUME NEW k \in Noyaux, NEW r, EnPlace(r, k)
    PROVE  Epargne(r, k)
<1> SUFFICES ASSUME NEW f \in Fids
             PROVE  /\ Range(r.queue[f]) \subseteq Range(k.queue[f])
                    /\ Triee(k.queue[f], k.prio) => Triee(r.queue[f], r.prio)
                    /\ \A p \in Procs : p \in Range(r.queue[f]) => r.suite[p] = k.suite[p]
  BY DEF Epargne
<1>1. k.queue[f] \in Seq(Procs) /\ Range(k.queue[f]) \subseteq Procs
  <2>1. k.queue[f] \in Seq(Procs)
    BY ConstantesQueues DEF Noyaux
  <2> QED
    BY <2>1, RangeEquality
<1>2. Triee(k.queue[f], k.prio) => Triee(k.queue[f], r.prio)
  BY <1>1, TrieeCles DEF EnPlace
<1> QED
  BY <1>2 DEF EnPlace

\* The processes in the queue of a file wait for it.
LEMMA FidsDe ==
    ASSUME NEW e \in Etats, NEW f \in Fids, f \in QueuesDe(e)
    PROVE  e = "ATTEND_FILE"
BY QueuesDeValeurs, NoyauAssumption DEF Etats

LEMMA AttendFile ==
    ASSUME NEW k \in Noyaux, NEW L, Chainage(k.queue, k.etat, L),
           NEW f \in Fids, NEW p \in Procs, p \in Range(k.queue[f])
    PROVE  p \notin L /\ k.etat[p] = "ATTEND_FILE"
<1>1. f \in Queues /\ k.etat[p] \in Etats
  BY ConstantesQueues DEF Noyaux
<1>2. p \notin L /\ f \in QueuesDe(k.etat[p])
  BY <1>1 DEF Chainage
<1> QED
  BY <1>1, <1>2, FidsDe

\* A kernel state that differs for processes that do not wait for a file.
LEMMA AilleursEnPlace ==
    ASSUME NEW k \in Noyaux, NEW L, Chainage(k.queue, k.etat, L),
           NEW r, r.queue = k.queue,
           \A p \in Procs : k.etat[p] = "ATTEND_FILE" /\ p \notin L =>
               r.suite[p] = k.suite[p] /\ r.prio[p] = k.prio[p]
    PROVE  EnPlace(r, k)
BY AttendFile DEF EnPlace

LEMMA HorsFids ==
    {"activables", "endormis", "mourants", "bloque_es"} \cap Fids = {} /\ Sids \cap Fids = {}
BY NoyauAssumption

LEMMA QueueEnPlace ==
    ASSUME NEW k \in Noyaux, NEW r, NEW f \in Queues, f \notin Fids, NEW q,
           r.queue = [k.queue EXCEPT ![f] = q], r.suite = k.suite, r.prio = k.prio
    PROVE  EnPlace(r, k)
BY ConstantesQueues DEF Noyaux, EnPlace

LEMMA EnfileEnPlace ==
    ASSUME NEW k \in Noyaux, NEW p, NEW f \in Queues, f \notin Fids
    PROVE  EnPlace(Enfile(k, p, f), k)
<1> DEFINE r == Enfile(k, p, f)
           q == QueueAdd(k.queue[f], p, Cle(k, f))
<1> SUFFICES EnPlace(r, k)
  OBVIOUS
<1>1. r.suite = k.suite /\ r.prio = k.prio
  BY DEF Enfile, Noyaux
<1>2. r.queue = k.queue \/ r.queue = [k.queue EXCEPT ![f] = q]
  BY DEF Enfile, Noyaux
<1> HIDE DEF r, q
<1>3. CASE r.queue = [k.queue EXCEPT ![f] = q]
  BY <1>1, <1>3, QueueEnPlace
<1>4. CASE r.queue = k.queue
  BY <1>1, <1>4 DEF EnPlace
<1> QED
  BY <1>2, <1>3, <1>4

LEMMA ActiveEnPlace ==
    ASSUME NEW k \in Noyaux, NEW p \in Procs
    PROVE  EnPlace(Active(k, p), k)
<1> DEFINE r == [k EXCEPT !.etat[p] = "ACTIVABLE"]
<1>1. r \in Noyaux /\ r.queue = k.queue /\ r.suite = k.suite /\ r.prio = k.prio
  BY EtatType DEF Etats, Noyaux
<1>2. EnPlace(r, k)
  BY <1>1 DEF EnPlace
<1>3. Active(k, p) = Enfile(r, p, "activables")
  BY DEF Active
<1> HIDE DEF r
<1>4. EnPlace(Enfile(r, p, "activables"), r)
  BY <1>1, EnfileEnPlace, ConstantesQueues, HorsFids
<1> QED
  BY <1>2, <1>3, <1>4, EnPlaceTransitif

LEMMA ActiveTousEnPlace ==
    ASSUME NEW k \in Noyaux, NEW w
    PROVE  EnPlace(ActiveTous(k, w), k)
<1> DEFINE r == ActiveTous(k, w)
           q == QueueAddTous(k.queue["activables"], w, k.prio)
<1> SUFFICES EnPlace(r, k)
  OBVIOUS
<1>1. r.suite = k.suite /\ r.prio = k.prio
  BY DEF ActiveTous, Noyaux
<1>2. r.queue = k.queue \/ r.queue = [k.queue EXCEPT !["activables"] = q]
  BY DEF ActiveTous, Noyaux
<1> HIDE DEF r, q
<1>3. CASE r.queue = [k.queue EXCEPT !["activables"] = q]
  BY <1>1, <1>3, QueueEnPlace, ConstantesQueues, HorsFids
<1>4. CASE r.queue = k.queue
  BY <1>1, <1>4 DEF EnPlace
<1> QED
  BY <1>2, <1>3, <1>4

\* The processes that are freed do not wait for a file.
LEMMA FreeMourantQueueEnPlace ==
    ASSUME NEW k \in Noyaux, NEW L, Chainage(k.queue, k.etat, L), IdlePret(k),
           FreeMourantQueue(k).panique = "non"
    PROVE  EnPlace(FreeMourantQueue(k), k)
<1> DEFINE r == FreeMourantQueue(k)
           m == Morts(k)
<1>1. /\ r.queue = [k.queue EXCEPT !["mourants"] = <<>>]
      /\ \A p \in Procs : p \notin m => r.suite[p] = k.suite[p] /\ r.prio[p] = k.prio[p]
  BY FreeMourantQueuePanique, FreeMourantQueueChamps
<1>2. \A p \in m : k.etat[p] \in {"MOURANT", "ZOMBIE"}
  BY MortsFinis
<1> HIDE DEF r, m
<1>3. ASSUME NEW f \in Fids
      PROVE  /\ r.queue[f] = k.queue[f]
             /\ \A p \in Procs : p \in Range(k.queue[f]) =>
                   r.suite[p] = k.suite[p] /\ r.prio[p] = k.prio[p]
  <2>1. r.queue[f] = k.queue[f]
    BY <1>1, HorsFids, ConstantesQueues DEF Noyaux
  <2>2. \A p \in Procs : p \in Range(k.queue[f]) => k.etat[p] = "ATTEND_FILE"
    BY AttendFile
  <2> QED
    BY <1>1, <1>2, <2>1, <2>2
<1> QED
  BY <1>3 DEF EnPlace, r

LEMMA OrdonnanceurEnPlace ==
    ASSUME NEW k \in Noyaux, Pret(k), Ordonnanceur(k).panique = "non"
    PROVE  EnPlace(Ordonnanceur(k), k)
<1> DEFINE k1 == FreeMourantQueue(k)
           k2 == RangeElu(k1)
           p == QueueTop(k2.queue["activables"])
           r == Ordonnanceur(k)
<1>1. /\ k1 \in Noyaux /\ k1.panique = "non"
      /\ \/ r = k1
         \/ r = Elit(k2, p) /\ k2 \in Noyaux
  BY OrdonnanceurForme
<1>2. EnPlace(k1, k)
  BY <1>1, FreeMourantQueueEnPlace DEF Pret
<1> HIDE DEF k1, r, p
<1>3. EnPlace(k2, k1)
  <2>1. k2 \in {k1, Enfile(k1, k1.elu, "mourants"), Active(k1, k1.elu)}
    BY DEF RangeElu
  <2>2. EnPlace(k1, k1) /\ k1.elu \in Procs
    BY <1>1 DEF EnPlace, Noyaux
  <2> HIDE DEF k2
  <2> QED
    BY <1>1, <2>1, <2>2, EnfileEnPlace, ActiveEnPlace, ConstantesQueues, HorsFids
<1>4. ASSUME k2 \in Noyaux PROVE EnPlace(Elit(k2, p), k2)
  <2> DEFINE e == Elit(k2, p)
             q == QueueOut(k2.queue["activables"])
  <2> HIDE DEF k2
  <2>1. /\ e.queue = [k2.queue EXCEPT !["activables"] = q]
        /\ e.suite = k2.suite /\ e.prio = k2.prio
    BY <1>4 DEF Elit, Noyaux
  <2> HIDE DEF e, q
  <2>2. EnPlace(e, k2)
    BY <1>4, <2>1, QueueEnPlace, ConstantesQueues, HorsFids
  <2> QED
    BY <2>2 DEF e
<1> HIDE DEF k2
<1>5. \/ r = k1
      \/ r = Elit(k2, p) /\ k2 \in Noyaux
  BY <1>1 DEF k2
<1> QED
  BY <1>2, <1>3, <1>4, <1>5, EnPlaceTransitif DEF r

-----------------------------------------------------------------------------
\* Only psend and preceive stop on the assert of add_msg.

SansAddMsg(r, k) == r.panique = "add_msg" => k.panique = "add_msg"

LEMMA SansAddMsgSimples ==
    ASSUME NEW k \in Noyaux, NEW p
    PROVE  /\ \A f : SansAddMsg(Enfile(k, p, f), k)
           /\ SansAddMsg(Active(k, p), k)
           /\ SansAddMsg(ActiveTous(k, p), k)
           /\ SansAddMsg(Defile(k, p), k)
           /\ SansAddMsg(Fini(k, p), k)
           /\ SansAddMsg(FreeMourantQueue(k), k)
           /\ SansAddMsg(Elit(k, p), k)
<1>1. \A f : SansAddMsg(Enfile(k, p, f), k)
  BY DEF Enfile, Noyaux, SansAddMsg
<1>2. SansAddMsg(Active(k, p), k)
  BY DEF Active, Enfile, Noyaux, SansAddMsg
<1>3. SansAddMsg(ActiveTous(k, p), k)
  BY DEF ActiveTous, Noyaux, SansAddMsg
<1>4. SansAddMsg(Defile(k, p), k)
  BY DEF Defile, Noyaux, SansAddMsg
<1>5. SansAddMsg(Fini(k, p), k)
  BY DEF Fini, Noyaux, SansAddMsg
<1>6. SansAddMsg(FreeMourantQueue(k), k)
  BY DEF FreeMourantQueue, Noyaux, SansAddMsg
<1>7. SansAddMsg(Elit(k, p), k)
  BY DEF Elit, Noyaux, SansAddMsg
<1> QED
  BY <1>1, <1>2, <1>3, <1>4, <1>5, <1>6, <1>7

LEMMA SansAddMsgComposes ==
    ASSUME NEW k \in Noyaux, NEW p \in Procs
    PROVE  /\ SansAddMsg(Ordonnanceur(k), k)
           /\ SansAddMsg(ReveillePere(k, p), k)
           /\ \A f : SansAddMsg(Replace(k, p, f), k)
<1>1. SansAddMsg(Ordonnanceur(k), k)
  <2> DEFINE k1 == FreeMourantQueue(k)
             k2 == RangeElu(k1)
             q == QueueTop(k2.queue["activables"])
  <2>1. k1 \in Noyaux /\ SansAddMsg(k1, k)
    BY FreeMourantQueueType, SansAddMsgSimples
  <2>2. Ordonnanceur(k) \in {k1, k2, Elit(k2, q)}
    BY DEF Ordonnanceur
  <2> HIDE DEF k1
  <2>3. k2 \in Noyaux
    BY <2>1, RangeEluType
  <2>4. SansAddMsg(k2, k1)
    <3>1. k2 \in {k1, Enfile(k1, k1.elu, "mourants"), Active(k1, k1.elu)}
      BY DEF RangeElu
    <3>2. /\ SansAddMsg(Enfile(k1, k1.elu, "mourants"), k1)
          /\ SansAddMsg(Active(k1, k1.elu), k1)
      BY <2>1, SansAddMsgSimples
    <3> HIDE DEF k2
    <3> QED
      BY <3>1, <3>2 DEF SansAddMsg
  <2> HIDE DEF k2, q
  <2>5. SansAddMsg(Elit(k2, q), k2)
    BY <2>3, SansAddMsgSimples
  <2> QED
    BY <2>1, <2>2, <2>4, <2>5 DEF SansAddMsg
<1>2. SansAddMsg(ReveillePere(k, p), k)
  BY SansAddMsgSimples DEF ReveillePere, SansAddMsg
<1>3. \A f : SansAddMsg(Replace(k, p, f), k)
  BY DefileType, SansAddMsgSimples DEF Replace, SansAddMsg
<1> QED
  BY <1>1, <1>2, <1>3

-----------------------------------------------------------------------------
\* The calls of processus.c and the clock, on the queues of the files.

\* A call ends in x, which spares the files.
Sain(x, k) == x.panique # "add_msg" /\ (x.panique = "non" => Epargne(x, k))

LEMMA OrdonnanceurSain ==
    ASSUME NEW k, NEW r \in Noyaux, Pret(r), r.panique # "add_msg", Epargne(r, k)
    PROVE  Sain(Ordonnanceur(r), k)
<1> DEFINE x == Ordonnanceur(r)
<1>1. x.panique # "add_msg"
  BY SansAddMsgComposes, ConstantesProcs DEF SansAddMsg
<1>2. ASSUME x.panique = "non" PROVE Epargne(x, k)
  <2>1. EnPlace(x, r)
    BY <1>2, OrdonnanceurEnPlace
  <2>2. Epargne(x, r)
    BY <2>1, EnPlaceEpargne
  <2> QED
    BY <2>2, EpargneTransitif
<1> QED
  BY <1>1, <1>2 DEF Sain

LEMMA LibereSain ==
    ASSUME NEW k, NEW r \in Noyaux, Regle(r), r.panique # "add_msg", Epargne(r, k)
    PROVE  Sain(FreeMourantQueue(r), k)
<1> DEFINE x == FreeMourantQueue(r)
<1>1. x.panique # "add_msg"
  BY SansAddMsgSimples DEF SansAddMsg
<1>2. ASSUME x.panique = "non" PROVE Epargne(x, k)
  <2>1. EnPlace(x, r)
    BY <1>2, FreeMourantQueueEnPlace DEF Regle
  <2>2. Epargne(x, r)
    BY <2>1, EnPlaceEpargne
  <2> QED
    BY <2>2, EpargneTransitif
<1> QED
  BY <1>1, <1>2 DEF Sain

\* A process that does not wait for a file leaves its queue, or none.
LEMMA DefileEpargne ==
    ASSUME NEW k \in Noyaux, NEW p \in Procs
    PROVE  Epargne(Defile(k, p), k)
<1> DEFINE r == Defile(k, p)
           f == CHOOSE g \in Queues : DansQueue(k, p, g)
           q == QueueDel(k.queue[f], p)
<1>1. r.suite = k.suite /\ r.prio = k.prio
  BY DEF Defile, Noyaux
<1>2. CASE Chaine(k, p)
  <2>1. f \in Queues /\ p \in Range(k.queue[f])
    BY <1>2 DEF Chaine, DansQueue, Membres
  <2>2. r.queue = [k.queue EXCEPT ![f] = q]
    BY <1>2 DEF Defile, Noyaux
  <2> HIDE DEF f, r
  <2>3. k.queue[f] \in Seq(Procs) /\ k.queue \in [Queues -> Seq(Procs)]
    BY <2>1 DEF Noyaux
  <2>4. Range(q) \subseteq Range(k.queue[f]) /\ (Triee(k.queue[f], k.prio) => Triee(q, k.prio))
    BY <2>1, <2>3, QueueDelElements
  <2> HIDE DEF q
  <2>5. \A g \in Fids : r.queue[g] = IF g = f THEN q ELSE k.queue[g]
    BY <2>1, <2>2, <2>3, ConstantesQueues
  <2>6. Epargne(r, k)
    BY <1>1, <2>4, <2>5 DEF Epargne
  <2> QED
    BY <2>6 DEF r
<1>3. CASE ~ Chaine(k, p)
  <2>1. r.queue = k.queue
    BY <1>3 DEF Defile, Noyaux
  <2> HIDE DEF r
  <2>2. Epargne(r, k)
    BY <1>1, <2>1 DEF Epargne
  <2> QED
    BY <2>2 DEF r
<1> QED
  BY <1>2, <1>3

\* A process of a file, whose priority has changed, is given its new place.
LEMMA ReplaceEpargne ==
    ASSUME NEW K \in Noyaux, Chainage(K.queue, K.etat, {}),
           NEW p \in Procs, NEW f \in Fids, p \in Range(K.queue[f]),
           NEW k \in Noyaux, k.queue = K.queue, k.suite = K.suite,
           \A x \in Procs \ {p} : k.prio[x] = K.prio[x]
    PROVE  Epargne(Replace(k, p, f), K)
<1> DEFINE d == Defile(k, p)
           q == K.queue[f]
           l == QueueDel(q, p)
           m == QueueAdd(l, p, k.prio)
           r == Replace(k, p, f)
<1> SUFFICES Epargne(r, K)
  OBVIOUS
<1>1. f \in Queues /\ f # "endormis" /\ f \notin Sids /\ q \in Seq(Procs) /\ IsInjective(q)
  BY ConstantesQueues, HorsFids DEF Noyaux, Chainage
<1>2. \A g \in Queues : DansQueue(k, p, g) <=> g = f
  BY <1>1 DEF Chainage, DansQueue, Membres
<1>3. d = [k EXCEPT !.queue[f] = QueueDel(@, p)]
  BY <1>1, <1>2 DEF Defile, Chaine
<1>4. /\ d \in Noyaux /\ d.queue = [K.queue EXCEPT ![f] = l]
      /\ d.prio = k.prio /\ d.suite = K.suite
  <2>1. d \in Noyaux
    BY DefileType
  <2> QED
    BY <1>3, <2>1 DEF Noyaux
<1>5. d.queue[f] = l
  BY <1>1, <1>4 DEF Noyaux
<1> HIDE DEF d
<1>6. /\ l \in Seq(Procs) /\ Range(l) \subseteq Range(q) /\ p \notin Range(l)
      /\ Triee(q, K.prio) => Triee(l, K.prio)
  BY <1>1, QueueDelElements
<1>7. Triee(q, K.prio) => Triee(l, k.prio)
  <2>1. \A x \in Range(l) : K.prio[x] = k.prio[x]
    <3>1. Range(q) \subseteq Procs
      BY <1>1, RangeEquality
    <3> QED
      BY <1>6, <3>1
  <2> HIDE DEF l
  <2> QED
    BY <1>6, <2>1, TrieeCles
<1>8. k.prio \in [Procs -> Nat]
  BY NoyauAssumption DEF Noyaux
<1> HIDE DEF l
<1>9. /\ Range(m) = Range(l) \cup {p}
      /\ Triee(l, k.prio) => Triee(m, k.prio)
  BY <1>6, <1>8, QueueAddElements
<1>10. r.suite = K.suite /\ r.prio = k.prio
  BY <1>4, EnfileSuivi DEF Replace, d, Suivi, MemeParente
<1>11. r.queue \in {[K.queue EXCEPT ![f] = l], [K.queue EXCEPT ![f] = m]}
  <2>1. Cle(d, f) = k.prio
    BY <1>1, <1>4 DEF Cle
  <2>2. \/ r = [d EXCEPT !.panique = "queue_add"]
        \/ r = [d EXCEPT !.queue[f] = m]
    BY <1>5, <2>1 DEF Replace, Enfile, d
  <2>3. [[K.queue EXCEPT ![f] = l] EXCEPT ![f] = m] = [K.queue EXCEPT ![f] = m]
    BY DEF Noyaux
  <2> HIDE DEF m
  <2>4. r.queue = d.queue \/ r.queue = [d.queue EXCEPT ![f] = m]
    BY <1>4, <2>2 DEF Noyaux
  <2> QED
    BY <1>4, <2>3, <2>4
<1> HIDE DEF r, m
<1>12. ASSUME NEW g \in Fids
       PROVE  /\ Range(r.queue[g]) \subseteq Range(K.queue[g])
              /\ Triee(K.queue[g], K.prio) => Triee(r.queue[g], r.prio)
  <2>1. CASE g = f
    <3>1. r.queue[g] = l \/ r.queue[g] = m
      BY <1>1, <1>11, <2>1 DEF Noyaux
    <3> QED
      BY <1>6, <1>7, <1>9, <1>10, <2>1, <3>1
  <2>2. CASE g # f
    <3>1. r.queue[g] = K.queue[g] /\ K.queue[g] \in Seq(Procs)
      BY <1>11, <2>2, ConstantesQueues DEF Noyaux
    <3>2. p \notin Range(K.queue[g]) /\ Range(K.queue[g]) \subseteq Procs
      BY <1>1, <2>2, <3>1, ConstantesQueues, RangeEquality DEF Chainage
    <3>3. \A x \in Range(K.queue[g]) : K.prio[x] = r.prio[x]
      BY <1>10, <3>2
    <3> QED
      BY <3>1, <3>3, TrieeCles
  <2> QED
    BY <2>1, <2>2
<1> QED
  BY <1>10, <1>12 DEF Epargne

LEMMA StartSain ==
    ASSUME NEW k \in Noyaux, Regle(k), k.panique = "non",
           NEW p \in Pids, k.etat[p] = "LIBRE", NEW pr \in 1 .. PrioMax
    PROVE  LET l == <<p>> \o k.fils[k.elu]
               k0 == [k EXCEPT !.etat[p] = "ACTIVABLE", !.prio[p] = pr,
                               !.pere[p] = k.elu, !.fils[k.elu] = l]
               r == Enfile(k0, p, "activables")
           IN  /\ r \in Noyaux /\ Regle(r) /\ r.panique = "non"
               /\ Epargne(r, k)
<1> DEFINE l == <<p>> \o k.fils[k.elu]
           k0 == [k EXCEPT !.etat[p] = "ACTIVABLE", !.prio[p] = pr,
                           !.pere[p] = k.elu, !.fils[k.elu] = l]
           r == Enfile(k0, p, "activables")
<1>1. p \in Procs /\ k.elu \in Procs /\ pr \in 0 .. PrioMax /\ "ACTIVABLE" \in Etats
  BY ConstantesProcs, NoyauAssumption DEF Noyaux, Etats
<1>2. l \in Seq(Pids)
  BY DEF Noyaux
<1> HIDE DEF l
<1>3. k0 \in Noyaux
  BY <1>1, <1>2 DEF Noyaux
<1>4. /\ k0.queue = k.queue /\ k0.elu = k.elu /\ k0.suite = k.suite
      /\ k0.panique = "non"
      /\ k0.etat = [k.etat EXCEPT ![p] = "ACTIVABLE"]
      /\ \A x \in Procs : x # p => k0.prio[x] = k.prio[x]
  BY <1>1 DEF Noyaux
<1> HIDE DEF k0
<1>5. EnPlace(k0, k)
  BY <1>4, AilleursEnPlace DEF Regle
<1>6. /\ r \in Noyaux /\ Regle(r) /\ r.panique = "non"
      /\ EnPlace(r, k0)
  BY <1>3, <1>4, NouveauRegle, EnfileEnPlace, ConstantesQueues, HorsFids
<1> HIDE DEF r
<1>7. Epargne(r, k)
  BY <1>5, <1>6, EnPlaceTransitif, EnPlaceEpargne
<1> QED
  BY <1>6, <1>7 DEF r, k0, l

\* A process that ends, and the wake-up of its father.
LEMMA FiniEnPlace ==
    ASSUME NEW k \in Noyaux, NEW p \in Procs
    PROVE  /\ EnPlace(Fini(k, p), k)
           /\ EnPlace(ReveillePere(Fini(k, p), p), k)
           /\ SansAddMsg(ReveillePere(Fini(k, p), p), k)
<1> DEFINE f == Fini(k, p)
           r == ReveillePere(f, p)
           c == f.pere[p]
<1>1. /\ f \in Noyaux /\ f.queue = k.queue /\ f.suite = k.suite /\ f.prio = k.prio
      /\ f.panique = k.panique
  BY FiniType DEF Fini, Noyaux
<1> HIDE DEF f
<1>2. EnPlace(f, k)
  BY <1>1 DEF EnPlace
<1>3. EnPlace(r, f)
  <2>1. \/ r = f
        \/ c \in Procs /\ r = Active(f, c)
    BY <1>1 DEF ReveillePere, Noyaux
  <2> HIDE DEF r, c
  <2>2. EnPlace(f, f)
    BY DEF EnPlace
  <2> QED
    BY <1>1, <2>1, <2>2, ActiveEnPlace
<1>4. SansAddMsg(r, k)
  BY <1>1, SansAddMsgComposes DEF SansAddMsg
<1> QED
  BY <1>2, <1>3, <1>4, EnPlaceTransitif DEF f, r

LEMMA FinEluSain ==
    ASSUME NEW k \in Noyaux, Regle(k), k.elu # Idle, k.panique = "non"
    PROVE  LET f == Fini(k, k.elu)
               r == ReveillePere(f, k.elu)
           IN  Sain(Ordonnanceur(f), k) /\ Sain(Ordonnanceur(r), k)
<1> DEFINE f == Fini(k, k.elu)
           r == ReveillePere(f, k.elu)
<1>1. /\ k.elu \in Procs
      /\ f \in Noyaux /\ Pret(f) /\ f.panique = "non"
      /\ r \in Noyaux /\ Pret(r) /\ r.panique = "non"
  BY FiniType, FinEluDiscipline, ReveillePereType DEF Noyaux
<1>2. EnPlace(f, k) /\ EnPlace(r, k)
  BY <1>1, FiniEnPlace
<1> HIDE DEF f, r
<1>3. Epargne(f, k) /\ Epargne(r, k)
  BY <1>2, EnPlaceEpargne
<1>4. Sain(Ordonnanceur(f), k) /\ Sain(Ordonnanceur(r), k)
  BY <1>1, <1>3, OrdonnanceurSain
<1> QED
  BY <1>4 DEF f, r

LEMMA KillSain ==
    ASSUME NEW k \in Noyaux, Regle(k), k.panique = "non",
           NEW p \in Pids, p # k.elu, Chaine(k, p)
    PROVE  LET d == Defile(k, p)
               fini == Fini(d, p)
               m == FreeMourantQueue(Enfile(fini, p, "mourants"))
               a == FreeMourantQueue(ReveillePere(fini, p))
           IN  /\ k.pere[p] = Nul => Sain(m, k)
               /\ k.pere[p] # Nul => Sain(a, k)
<1> DEFINE d == Defile(k, p)
           fini == Fini(d, p)
           m == Enfile(fini, p, "mourants")
           a == ReveillePere(fini, p)
<1>1. p \in Procs
  BY ConstantesProcs
<1>2. /\ d \in Noyaux
      /\ k.pere[p] = Nul => m \in Noyaux /\ Regle(m) /\ m.panique = "non"
      /\ k.pere[p] # Nul => a \in Noyaux /\ Regle(a) /\ a.panique = "non"
  BY KillRegle
<1>3. Epargne(d, k)
  BY <1>1, DefileEpargne
<1> HIDE DEF d
<1>4. fini \in Noyaux /\ EnPlace(fini, d) /\ EnPlace(a, d)
  BY <1>1, <1>2, FiniType, FiniEnPlace
<1> HIDE DEF fini
<1>5. EnPlace(m, fini)
  BY <1>4, EnfileEnPlace, ConstantesQueues, HorsFids
<1> HIDE DEF m, a
<1>6. Epargne(m, k) /\ Epargne(a, k)
  <2>1. EnPlace(m, d)
    BY <1>4, <1>5, EnPlaceTransitif
  <2>2. Epargne(m, d) /\ Epargne(a, d)
    BY <1>2, <1>4, <2>1, EnPlaceEpargne
  <2> QED
    BY <1>3, <2>2, EpargneTransitif
<1>7. /\ k.pere[p] = Nul => Sain(FreeMourantQueue(m), k)
      /\ k.pere[p] # Nul => Sain(FreeMourantQueue(a), k)
  BY <1>2, <1>6, LibereSain
<1> QED
  BY <1>7 DEF m, a, fini, d

LEMMA TourWaitpidSain ==
    ASSUME NEW k \in Noyaux, Regle(k), k.panique = "non", k.elu # Idle,
           NEW cible \in Pids \cup {Nul}
    PROVE  Sain(TourWaitpid(k, cible), k)
<1>1. k.elu \in Procs /\ k.etat[k.elu] = "ELU"
  BY DEF Noyaux, Regle
<1>2. CASE Finis(k, cible) # {}
  <2> DEFINE i == Min(Finis(k, cible))
             c == k.fils[k.elu][i]
             l == RemoveAt(k.fils[k.elu], i)
             k1 == [k EXCEPT !.fils[k.elu] = l, !.etat[c] = "MOURANT",
                             !.pere[c] = Nul, !.suite[k.elu] = User]
             k2 == Enfile(k1, c, "mourants")
  <2>1. i \in 1 .. Len(k.fils[k.elu]) /\ i \in Finis(k, cible) /\ c \in Procs
    BY <1>2, FinisBornes, ConstantesProcs
  <2>2. TourWaitpid(k, cible) = FreeMourantQueue(k2)
    BY <1>2 DEF TourWaitpid, Recolte
  <2>3. k.etat[c] = "ZOMBIE"
    BY <2>1 DEF Finis
  <2>4. k2 \in Noyaux /\ Regle(k2) /\ k2.panique = "non"
    BY <2>1, <2>3, RecolteRegle
  <2>5. l \in Seq(Pids)
    BY <1>1, <2>1, RemoveAtListe DEF Noyaux
  <2> HIDE DEF i, c, l
  <2>6. k1 \in Noyaux
    BY <1>1, <2>1, <2>5, UserType DEF Noyaux, Etats
  <2>7. /\ k1.queue = k.queue /\ k1.prio = k.prio
        /\ \A x \in Procs : x # k.elu => k1.suite[x] = k.suite[x]
    BY DEF Noyaux
  <2> HIDE DEF k1
  <2>8. EnPlace(k1, k)
    BY <1>1, <2>7, AilleursEnPlace DEF Regle
  <2>9. EnPlace(k2, k1)
    BY <2>6, EnfileEnPlace, ConstantesQueues, HorsFids
  <2> HIDE DEF k2
  <2>10. Epargne(k2, k)
    BY <2>8, <2>9, EnPlaceTransitif, EnPlaceEpargne
  <2> QED
    BY <2>2, <2>4, <2>10, LibereSain
<1>3. CASE Finis(k, cible) = {}
  <2> DEFINE s == [appel |-> "waitpid", arg |-> cible]
             r == [k EXCEPT !.etat[k.elu] = "ATTEND_FILS", !.suite[k.elu] = s]
  <2>1. TourWaitpid(k, cible) = Ordonnanceur(r)
    BY <1>3 DEF TourWaitpid
  <2>2. s \in Suites
    BY DEF Suites
  <2> HIDE DEF s
  <2>3. r \in Noyaux
    BY <1>1, <2>2 DEF Noyaux, Etats
  <2>4. /\ r.queue = k.queue /\ r.elu = k.elu /\ r.prio = k.prio /\ r.panique = "non"
        /\ r.etat = [k.etat EXCEPT ![k.elu] = "ATTEND_FILS"]
        /\ \A x \in Procs : x # k.elu => r.suite[x] = k.suite[x]
    BY DEF Noyaux
  <2> HIDE DEF r
  <2>5. r.suite[Idle] = k.suite[Idle]
    BY <2>4, ConstantesProcs
  <2>6. Pret(r)
    BY <2>3, <2>4, <2>5, BloqueEluPret
  <2>7. EnPlace(r, k)
    BY <1>1, <2>4, AilleursEnPlace DEF Regle
  <2>8. Epargne(r, k)
    BY <2>7, EnPlaceEpargne
  <2> QED
    BY <2>1, <2>3, <2>4, <2>6, <2>8, OrdonnanceurSain
<1> QED
  BY <1>2, <1>3

LEMMA ChprioSain ==
    ASSUME NEW K \in Noyaux, Regle(K), K.panique = "non",
           NEW p \in Pids, NEW pr \in 1 .. PrioMax
    PROVE  LET k == [K EXCEPT !.prio[p] = pr]
               k1 == Replace(k, p, "activables")
               k2 == Replace(k, p, CHOOSE g \in Fids : DansQueue(k, p, g))
           IN  /\ K.etat[p] # "ATTEND_FILE" => Sain(k, K) /\ Sain(Ordonnanceur(k), K)
               /\ K.etat[p] = "ACTIVABLE" => Sain(k1, K) /\ Sain(Ordonnanceur(k1), K)
               /\ K.etat[p] = "ATTEND_FILE" => Sain(k2, K)
<1> DEFINE k == [K EXCEPT !.prio[p] = pr]
           f == CHOOSE g \in Fids : DansQueue(k, p, g)
           k1 == Replace(k, p, "activables")
           k2 == Replace(k, p, f)
<1>1. p \in Procs /\ pr \in 0 .. PrioMax
  BY ConstantesProcs, NoyauAssumption
<1>2. /\ k \in Noyaux
      /\ k.queue = K.queue /\ k.etat = K.etat /\ k.elu = K.elu /\ k.suite = K.suite
      /\ k.panique = "non"
      /\ \A x \in Procs \ {p} : k.prio[x] = K.prio[x]
  BY <1>1 DEF Noyaux
<1> HIDE DEF k
<1>3. Regle(k) /\ Pret(k) /\ Chainage(K.queue, K.etat, {})
  <2>1. Regle(k)
    BY <1>2 DEF Regle, IdlePret
  <2> QED
    BY <1>2, <2>1, ReglePret DEF Regle
<1>4. ASSUME K.etat[p] # "ATTEND_FILE" PROVE Epargne(k, K)
  <2>1. EnPlace(k, K)
    BY <1>2, <1>3, <1>4, AilleursEnPlace
  <2> QED
    BY <2>1, EnPlaceEpargne
<1>5. ASSUME K.etat[p] # "ATTEND_FILE"
      PROVE  Sain(k, K) /\ Sain(Ordonnanceur(k), K)
  BY <1>2, <1>3, <1>4, <1>5, OrdonnanceurSain DEF Sain
<1>6. ASSUME K.etat[p] = "ACTIVABLE"
      PROVE  Sain(k1, K) /\ Sain(Ordonnanceur(k1), K)
  <2>1. /\ "activables" \in Queues /\ "activables" \in QueuesDe(k.etat[p])
        /\ QueuesDe(k.etat[p]) # {}
    BY <1>2, <1>6, QueuesDeValeurs, ConstantesQueues
  <2>2. Chaine(k, p)
    BY <1>1, <1>2, <1>3, <2>1 DEF Chainage, Chaine, DansQueue, Membres
  <2>3. k1 \in Noyaux /\ Regle(k1) /\ k1.panique = "non"
    BY <1>1, <1>2, <1>3, <2>1, <2>2, ReplaceFiable
  <2>4. Epargne(k1, k)
    <3> DEFINE d == Defile(k, p)
    <3>1. k1 = Enfile(d, p, "activables")
      BY DEF Replace
    <3>2. d \in Noyaux /\ Epargne(d, k)
      BY <1>1, <1>2, DefileType, DefileEpargne
    <3> HIDE DEF d, k1
    <3>3. EnPlace(k1, d)
      BY <3>1, <3>2, EnfileEnPlace, ConstantesQueues, HorsFids
    <3> QED
      BY <3>2, <3>3, EnPlaceEpargne, EpargneTransitif
  <2> HIDE DEF k1
  <2>5. Epargne(k1, K)
    BY <1>4, <1>6, <2>4, EpargneTransitif
  <2> QED
    BY <2>3, <2>5, ReglePret, OrdonnanceurSain DEF Sain
<1>7. ASSUME K.etat[p] = "ATTEND_FILE" PROVE Sain(k2, K)
  <2>1. SansAddMsg(k2, k)
    BY <1>1, <1>2, SansAddMsgComposes
  <2>2. Epargne(k2, K)
    <3>1. CASE Fids = {}
      BY <3>1 DEF Epargne
    <3>2. CASE Fids # {}
      <4>1. QueuesDe(K.etat[p]) = Fids
        BY <1>7, QueuesDeValeurs
      <4>2. PICK h \in Queues : p \in Range(K.queue[h])
        BY <1>1, <1>3, <3>2, <4>1 DEF Chainage
      <4>3. h \in Fids /\ DansQueue(k, p, h)
        BY <1>1, <1>2, <1>3, <4>1, <4>2 DEF Chainage, DansQueue, Membres
      <4>4. f \in Fids /\ p \in Range(K.queue[f])
        BY <1>2, <4>3 DEF DansQueue, Membres
      <4> HIDE DEF f
      <4> QED
        BY <1>1, <1>2, <1>3, <4>4, ReplaceEpargne
    <3> QED
      BY <3>1, <3>2
  <2> HIDE DEF k2
  <2> QED
    BY <1>2, <2>1, <2>2 DEF Sain, SansAddMsg
<1> QED
  BY <1>5, <1>6, <1>7 DEF k, k1, k2, f

LEMMA WaitClockSain ==
    ASSUME NEW k \in Noyaux, Regle(k), k.elu # Idle, k.panique = "non", NEW t \in Dates
    PROVE  LET r == [k EXCEPT !.etat[k.elu] = "ENDORMI", !.reveil[k.elu] = t]
               s == Enfile(r, k.elu, "endormis")
           IN  Sain(Ordonnanceur(s), k)
<1> DEFINE r == [k EXCEPT !.etat[k.elu] = "ENDORMI", !.reveil[k.elu] = t]
           s == Enfile(r, k.elu, "endormis")
<1>1. k.elu \in Procs /\ k.etat[k.elu] = "ELU" /\ "ENDORMI" \in Etats
  BY DEF Noyaux, Regle, Etats
<1>2. r \in Noyaux
  BY <1>1 DEF Noyaux
<1>3. /\ r.queue = k.queue /\ r.elu = k.elu /\ r.suite = k.suite /\ r.prio = k.prio
      /\ r.panique = "non"
      /\ r.etat = [k.etat EXCEPT ![k.elu] = "ENDORMI"]
  BY DEF Noyaux
<1> HIDE DEF r
<1>4. EnPlace(r, k)
  BY <1>3 DEF EnPlace
<1>5. /\ "endormis" \in Queues /\ "endormis" \in QueuesDe("ENDORMI")
      /\ r.suite[Idle] = k.suite[Idle]
  BY <1>3, QueuesDeValeurs, ConstantesQueues
<1>6. s \in Noyaux /\ Pret(s) /\ s.panique = "non" /\ EnPlace(s, r)
  BY <1>1, <1>2, <1>3, <1>5, EnfileEluPret, EnfileEnPlace, HorsFids
<1> HIDE DEF s
<1>7. Epargne(s, k)
  BY <1>4, <1>6, EnPlaceTransitif, EnPlaceEpargne
<1>8. Sain(Ordonnanceur(s), k)
  BY <1>6, <1>7, OrdonnanceurSain
<1> QED
  BY <1>8 DEF s, r

\* A step that spares the files.
Menage == Epargne(Courant', Courant) /\ (panique' = "add_msg" => panique = "add_msg")

LEMMA DevientSain ==
    ASSUME NEW x, Devient(x), Sain(x, Courant)
    PROVE  Menage
<1>1. panique' # "add_msg"
  BY DEF Sain, Devient
<1>2. CASE x.panique = "non"
  <2>1. prio' = x.prio /\ suite' = x.suite /\ queue' = x.queue /\ Epargne(x, Courant)
    BY <1>2 DEF Devient, Sain
  <2> QED
    BY <1>1, <2>1 DEF Menage, Epargne, Courant
<1>3. CASE x.panique # "non"
  <2>1. prio' = prio /\ suite' = suite /\ queue' = queue
    BY <1>3 DEF Devient
  <2> QED
    BY <1>1, <2>1 DEF Menage, Epargne, Courant
<1> QED
  BY <1>2, <1>3

LEMMA MenageProcessus ==
    ASSUME TypeNoyau, Regle(Courant), ProcessusNext
    PROVE  Menage
<1> DEFINE K == Courant
<1>1. /\ K \in Noyaux /\ Regle(K)
      /\ K.elu = elu /\ K.etat = etat /\ K.prio = prio /\ K.pere = pere
      /\ K.fils = fils /\ K.queue = queue /\ K.suite = suite /\ K.panique = panique
  BY CourantType, CourantChamps
<1>2. elu \in Procs /\ prio \in [Procs -> 0 .. PrioMax] /\ Idle \notin Pids
  BY NoyauAssumption DEF TypeNoyau
<1>3. ASSUME NEW x, Devient(x), Sain(x, K) PROVE Menage
  BY <1>3, DevientSain
<1> HIDE DEF K
<1>4. ASSUME EnModeUser PROVE K.elu # Idle /\ K.panique = "non" /\ K.etat[elu] = "ELU"
  BY <1>1, <1>2, <1>4 DEF EnModeUser, Regle
<1>5. ASSUME NEW pr \in 1 .. PrioMax, Start(pr) PROVE Menage
  <2>1. PICK p \in Pids :
           /\ PidLibre(p)
           /\ LET k == Enfile([K EXCEPT !.etat[p] = "ACTIVABLE",
                                        !.prio[p] = pr,
                                        !.pere[p] = elu,
                                        !.fils[elu] = <<p>> \o @],
                              p, "activables")
              IN  Devient(IF pr > prio[elu] THEN Ordonnanceur(k) ELSE k)
    BY <1>5 DEF Start, K
  <2> DEFINE l == <<p>> \o K.fils[K.elu]
             k0 == [K EXCEPT !.etat[p] = "ACTIVABLE", !.prio[p] = pr,
                             !.pere[p] = K.elu, !.fils[K.elu] = l]
             k == Enfile(k0, p, "activables")
  <2>2. Devient(IF pr > prio[elu] THEN Ordonnanceur(k) ELSE k)
    BY <1>1, <2>1
  <2>3. K.etat[p] = "LIBRE" /\ K.panique = "non"
    BY <1>1, <1>4, <1>5, <2>1 DEF PidLibre, Start
  <2>4. k \in Noyaux /\ Regle(k) /\ k.panique = "non" /\ Epargne(k, K)
    BY <1>1, <2>3, StartSain
  <2> HIDE DEF k
  <2>5. Sain(Ordonnanceur(k), K) /\ Sain(k, K)
    BY <2>4, ReglePret, OrdonnanceurSain DEF Sain
  <2> QED
    BY <1>3, <2>2, <2>5
<1>6. ASSUME Exit \/ KillElu PROVE Menage
  <2> DEFINE f == Fini(K, elu)
             r == ReveillePere(f, elu)
  <2>1. (Devient(Ordonnanceur(r)) \/ Devient(Ordonnanceur(f))) /\ EnModeUser
    BY <1>6 DEF Exit, KillElu, K
  <2>2. Sain(Ordonnanceur(f), K) /\ Sain(Ordonnanceur(r), K)
    BY <1>1, <1>4, <2>1, FinEluSain
  <2> HIDE DEF f, r
  <2> QED
    BY <1>3, <2>1, <2>2
<1>7. ASSUME NEW p \in Pids, KillAutre(p) PROVE Menage
  <2> DEFINE d == Defile(K, p)
             fini == Fini(d, p)
             m == FreeMourantQueue(Enfile(fini, p, "mourants"))
             a == FreeMourantQueue(ReveillePere(fini, p))
             x == IF d.panique # "non" THEN d ELSE IF pere[p] = Nul THEN m ELSE a
  <2>1. /\ Devient(IF d.panique # "non" THEN d
                   ELSE FreeMourantQueue(IF pere[p] = Nul THEN Enfile(fini, p, "mourants")
                                         ELSE ReveillePere(fini, p)))
        /\ EnModeUser /\ p # elu
    BY <1>7 DEF KillAutre, K
  <2>2. Devient(x)
    BY <2>1
  <2>3. CASE ~ Chaine(K, p)
    <3>1. d = [K EXCEPT !.panique = "queue_del"]
      BY <2>3 DEF Defile
    <3>2. d.panique = "queue_del"
      BY <1>1, <3>1 DEF Noyaux
    <3>3. x = d
      BY <3>2
    <3>4. Sain(d, K)
      BY <3>2 DEF Sain
    <3> HIDE DEF x, d
    <3> QED
      BY <1>3, <2>2, <3>3, <3>4
  <2>4. CASE Chaine(K, p)
    <3>1. d.panique = "non"
      BY <1>1, <1>4, <2>1, <2>4, KillRegle
    <3>2. /\ K.pere[p] = Nul => Sain(m, K)
          /\ K.pere[p] # Nul => Sain(a, K)
      BY <1>1, <1>4, <2>1, <2>4, KillSain
    <3> HIDE DEF d, m, a
    <3> QED
      BY <1>1, <1>3, <2>2, <3>1, <3>2
  <2> QED
    BY <2>3, <2>4
<1>8. ASSUME NEW cible \in Pids \cup {Nul}, Waitpid(cible) PROVE Menage
  <2>1. Devient(TourWaitpid(K, cible)) /\ EnModeUser
    BY <1>8 DEF Waitpid, K
  <2> QED
    BY <1>1, <1>3, <1>4, <2>1, TourWaitpidSain
<1>9. ASSUME RepriseWaitpid PROVE Menage
  <2>1. /\ Devient(TourWaitpid(K, suite[elu].arg)) /\ K.panique = "non"
        /\ suite[elu].appel = "waitpid"
    BY <1>1, <1>9 DEF RepriseWaitpid, K
  <2>2. K.elu # Idle
    BY <1>1, <2>1 DEF Regle, IdlePret
  <2>3. suite[elu].arg \in Pids \cup {Nul}
    BY <1>2 DEF TypeNoyau, Suites
  <2> QED
    BY <1>1, <1>3, <2>1, <2>2, <2>3, TourWaitpidSain
<1>10. ASSUME NEW p \in Pids, NEW pr \in 1 .. PrioMax, Chprio(p, pr) PROVE Menage
  <2> DEFINE k == [K EXCEPT !.prio[p] = pr]
             f == CHOOSE g \in Fids : DansQueue(k, p, g)
             k1 == Replace(k, p, "activables")
             k2 == Replace(k, p, f)
             x == CASE p = elu -> Ordonnanceur(k)
                    [] p # elu /\ etat[p] = "ACTIVABLE" ->
                          IF prio[elu] < pr THEN Ordonnanceur(k1) ELSE k1
                    [] p # elu /\ etat[p] = "ATTEND_FILE" -> k2
                    [] OTHER -> k
  <2>1. Devient(x) /\ EnModeUser
    BY <1>10 DEF Chprio, K
  <2>2. /\ K.etat[p] # "ATTEND_FILE" => Sain(k, K) /\ Sain(Ordonnanceur(k), K)
        /\ K.etat[p] = "ACTIVABLE" => Sain(k1, K) /\ Sain(Ordonnanceur(k1), K)
        /\ K.etat[p] = "ATTEND_FILE" => Sain(k2, K)
    BY <1>1, <1>4, <2>1, ChprioSain
  <2> HIDE DEF k, k1, k2
  <2>3. Sain(x, K)
    <3>1. CASE p = elu
      BY <1>1, <1>4, <2>1, <2>2, <3>1
    <3>2. CASE p # elu /\ etat[p] = "ACTIVABLE"
      BY <1>1, <2>2, <3>2
    <3>3. CASE p # elu /\ etat[p] = "ATTEND_FILE"
      BY <1>1, <2>2, <3>3
    <3>4. CASE p # elu /\ etat[p] \notin {"ACTIVABLE", "ATTEND_FILE"}
      BY <1>1, <2>2, <3>4
    <3> QED
      BY <3>1, <3>2, <3>3, <3>4
  <2> HIDE DEF x
  <2> QED
    BY <1>3, <2>1, <2>3
<1>11. ASSUME NEW t \in Dates, WaitClock(t) PROVE Menage
  <2> DEFINE r == [K EXCEPT !.etat[K.elu] = "ENDORMI", !.reveil[K.elu] = t]
             x == Ordonnanceur(Enfile(r, K.elu, "endormis"))
  <2>1. Devient(x) /\ EnModeUser
    BY <1>1, <1>11 DEF WaitClock, K
  <2>2. Sain(x, K)
    BY <1>1, <1>4, <2>1, WaitClockSain
  <2> HIDE DEF x
  <2> QED
    BY <1>3, <2>1, <2>2
<1> QED
  BY <1>5, <1>6, <1>7, <1>8, <1>9, <1>10, <1>11 DEF ProcessusNext

\* The continuation of the elected process, which waits for no file.
LEMMA SuiteEnPlace ==
    ASSUME NEW k \in Noyaux, Regle(k), NEW s
    PROVE  EnPlace([k EXCEPT !.suite[k.elu] = s], k)
<1> DEFINE r == [k EXCEPT !.suite[k.elu] = s]
<1>1. k.elu \in Procs /\ k.etat[k.elu] = "ELU" /\ Chainage(k.queue, k.etat, {})
  BY DEF Noyaux, Regle
<1>2. /\ r.queue = k.queue /\ r.prio = k.prio
      /\ \A x \in Procs : x # k.elu => r.suite[x] = k.suite[x]
  BY DEF Noyaux
<1> HIDE DEF r
<1>3. EnPlace(r, k)
  BY <1>1, <1>2, AilleursEnPlace
<1> QED
  BY <1>3 DEF r

LEMMA SuiteSain ==
    ASSUME NEW K, NEW k \in Noyaux, Regle(k), k.panique = "non", Epargne(k, K),
           NEW s \in Suites, s.appel \in {"user", "tic"}
    PROVE  LET r == [k EXCEPT !.suite[k.elu] = s]
           IN  Sain(r, K) /\ Sain(Ordonnanceur(r), K)
<1> DEFINE r == [k EXCEPT !.suite[k.elu] = s]
<1>1. k.elu \in Procs
  BY DEF Noyaux
<1>2. r \in Noyaux /\ Regle(r) /\ r.panique = "non"
  BY <1>1, SuiteRegle
<1>3. EnPlace(r, k)
  BY SuiteEnPlace
<1> HIDE DEF r
<1>4. Epargne(r, K)
  BY <1>3, EnPlaceEpargne, EpargneTransitif
<1>5. Sain(r, K) /\ Sain(Ordonnanceur(r), K)
  BY <1>2, <1>4, ReglePret, OrdonnanceurSain DEF Sain
<1> QED
  BY <1>5 DEF r

LEMMA FinTicSain ==
    ASSUME NEW K, NEW k \in Noyaux, Regle(k), k.panique = "non", Epargne(k, K), NEW cpt
    PROVE  Sain(FinTic(k, cpt), K)
<1>1. User \in Suites /\ User.appel = "user"
  BY UserType DEF User
<1> HIDE DEF User
<1>2. Sain([k EXCEPT !.suite[k.elu] = User], K)
      /\ Sain(Ordonnanceur([k EXCEPT !.suite[k.elu] = User]), K)
  BY <1>1, SuiteSain
<1> QED
  BY <1>2 DEF FinTic

LEMMA VerifieReveilleEnPlace ==
    ASSUME NEW k \in Noyaux, NEW t
    PROVE  EnPlace(VerifieReveille(k, t), k)
<1> DEFINE q == k.queue["endormis"]
           w == Reveilles(k, t)
           l == SubSeq(q, Len(w) + 1, Len(q))
           r == [k EXCEPT !.queue["endormis"] = l]
<1>1. l \in Seq(Procs)
  <2>1. q \in Seq(Procs)
    BY ConstantesQueues DEF Noyaux
  <2>2. PICK m \in 0 .. Len(q) : w = SubSeq(q, 1, m) /\ Len(w) = m
    BY ReveillesCoupe
  <2> HIDE DEF w, q
  <2> QED
    BY <2>1, <2>2, ListeCoupee
<1>2. VerifieReveille(k, t) = ActiveTous(r, w)
  BY DEF VerifieReveille
<1> HIDE DEF w, l
<1>3. /\ r \in Noyaux /\ r.suite = k.suite /\ r.prio = k.prio
      /\ r.queue = [k.queue EXCEPT !["endormis"] = l]
  BY <1>1, ConstantesQueues DEF Noyaux
<1> HIDE DEF r
<1>4. EnPlace(r, k)
  BY <1>3, QueueEnPlace, ConstantesQueues, HorsFids
<1> QED
  BY <1>2, <1>3, <1>4, ActiveTousEnPlace, EnPlaceTransitif

LEMMA MenageTic ==
    ASSUME TypeOK, Regle(Courant), Tic \/ RepriseTic
    PROVE  Menage
<1> DEFINE K == Courant
<1>1. K \in Noyaux /\ Regle(K) /\ K.elu = elu /\ K.panique = "non" /\ K.suite = suite
  BY CourantType, CourantChamps DEF TypeOK, Tic, RepriseTic
<1>2. ASSUME NEW x, Devient(x), Sain(x, K) PROVE Menage
  BY <1>2, DevientSain
<1>3. CASE Tic
  <2> DEFINE v == VerifieReveille(K, TicSuivant)
             s == [appel |-> "tic", arg |-> Nul]
             r == [v EXCEPT !.suite[elu] = s]
  <2>1. Devient(Ordonnanceur(r)) \/ Devient(FinTic(v, CptSuivant))
    BY <1>3 DEF Tic
  <2> HIDE DEF K
  <2>2. v \in Noyaux /\ Regle(v) /\ v.elu = elu /\ v.panique = "non"
    BY <1>1, VerifieReveilleType, VerifieReveilleRegle
  <2>3. Epargne(v, K)
    BY <1>1, VerifieReveilleEnPlace, EnPlaceEpargne
  <2> HIDE DEF v
  <2>4. Sain(FinTic(v, CptSuivant), K)
    BY <2>2, <2>3, FinTicSain
  <2>5. s \in Suites /\ s.appel = "tic"
    BY DEF Suites
  <2> HIDE DEF s
  <2>6. Sain(Ordonnanceur([v EXCEPT !.suite[v.elu] = s]), K)
    BY <2>2, <2>3, <2>5, SuiteSain
  <2> QED
    BY <1>2, <2>1, <2>2, <2>4, <2>6
<1>4. CASE RepriseTic
  <2>1. Devient(FinTic(K, cptTicks))
    BY <1>4 DEF RepriseTic
  <2> HIDE DEF K
  <2>2. Epargne(K, K)
    BY DEF Epargne
  <2>3. Sain(FinTic(K, cptTicks), K)
    BY <1>1, <2>2, FinTicSain
  <2> QED
    BY <1>2, <2>1, <2>3
<1> QED
  BY <1>3, <1>4

\* The calls of semaphore.c.
LEMMA MenageLibere ==
    ASSUME TypeOK, Regle(Courant), panique = "non", NEW s \in Sids,
           NEW n \in 0 .. Len(queue[s]), NEW st,
           Libere(s, SubSeq(Attendants(s), 1, n), st)
    PROVE  Menage
<1> DEFINE w == SubSeq(Attendants(s), 1, n)
           K == Courant
           l == SubSeq(K.queue[s], 1, Len(K.queue[s]) - Len(w))
           k1 == [K EXCEPT !.queue[s] = l]
           r == ActiveTous(k1, w)
<1>1. K \in Noyaux /\ K.queue = queue /\ K.panique = "non" /\ Regle(K)
  BY CourantType, CourantChamps DEF TypeOK
<1>2. w = SubSeq(Reverse(K.queue[s]), 1, n)
  BY <1>1 DEF Attendants
<1>3. Devient(r)
  BY DEF Libere
<1>4. K.queue[s] \in Seq(Procs) /\ s \in Queues /\ s \notin Fids
  BY <1>1, ConstantesQueues, HorsFids DEF Noyaux
<1>5. l \in Seq(Procs)
  <2>1. n \in 0 .. Len(K.queue[s])
    BY <1>1
  <2> DEFINE q == K.queue[s]
  <2>2. q \in Seq(Procs) /\ n \in 0 .. Len(q) /\ w = SubSeq(Reverse(q), 1, n)
    BY <1>2, <1>4, <2>1
  <2>3. l = SubSeq(q, 1, Len(q) - Len(w))
    OBVIOUS
  <2> HIDE DEF q, w, l
  <2>4. /\ Len(SubSeq(Reverse(q), 1, n)) = n
        /\ SubSeq(q, 1, Len(q) - n) \in Seq(Procs)
    BY <2>2, ListeRetournee
  <2> QED
    BY <2>2, <2>3, <2>4
<1> HIDE DEF w, l, K
<1>6. /\ k1 \in Noyaux /\ k1.suite = K.suite /\ k1.prio = K.prio /\ k1.panique = "non"
      /\ k1.queue = [K.queue EXCEPT ![s] = l]
  BY <1>1, <1>4, <1>5 DEF Noyaux
<1> HIDE DEF k1
<1>7. EnPlace(k1, K)
  BY <1>1, <1>4, <1>6, QueueEnPlace
<1>8. EnPlace(r, K) /\ r.panique # "add_msg"
  BY <1>6, <1>7, ActiveTousEnPlace, EnPlaceTransitif, SansAddMsgSimples DEF SansAddMsg
<1> HIDE DEF r
<1>9. Sain(r, K)
  BY <1>1, <1>8, EnPlaceEpargne DEF Sain
<1> QED
  BY <1>3, <1>9, DevientSain DEF K

LEMMA MenageInchange ==
    ASSUME UNCHANGED noyauVars
    PROVE  Menage
<1>1. queue' = queue /\ prio' = prio /\ suite' = suite /\ panique' = panique
  BY DEF noyauVars
<1> QED
  BY <1>1 DEF Menage, Epargne, Courant

LEMMA MenageWait ==
    ASSUME TypeOK, Regle(Courant), NEW s \in Sids, Wait(s)
    PROVE  Menage
<1> DEFINE K == Courant
           x == [appel |-> "wait", arg |-> Nul]
           k == [K EXCEPT !.etat[elu] = "ATTEND_SEMAPHORE", !.suite[elu] = x]
           r == Enfile(k, elu, s)
<1>1. K \in Noyaux /\ Regle(K) /\ K.elu = elu /\ K.panique = "non" /\ elu \in Procs
      /\ K.elu # Idle
  BY CourantType, CourantChamps, ConstantesProcs, NoyauAssumption
     DEF TypeOK, Wait, EnModeUser
<1>2. CASE count'[s] < 0
  <2>1. Devient(Ordonnanceur(r))
    BY <1>2 DEF Wait
  <2>2. x \in Suites /\ "ATTEND_SEMAPHORE" \in Etats
    BY DEF Suites, Etats
  <2> HIDE DEF x, K
  <2>3. k \in Noyaux
    BY <1>1, <2>2 DEF Noyaux
  <2>4. /\ k.queue = K.queue /\ k.elu = K.elu /\ k.panique = "non" /\ k.prio = K.prio
        /\ k.etat = [K.etat EXCEPT ![K.elu] = "ATTEND_SEMAPHORE"]
        /\ \A y \in Procs : y # elu => k.suite[y] = K.suite[y]
    BY <1>1 DEF Noyaux
  <2> HIDE DEF k
  <2>5. s \in Queues /\ s \in QueuesDe("ATTEND_SEMAPHORE") /\ s \notin Fids
    BY QueuesDeValeurs, ConstantesQueues, HorsFids
  <2>6. EnPlace(k, K)
    <3>1. K.etat[elu] = "ELU" /\ Chainage(K.queue, K.etat, {})
      BY <1>1 DEF Regle
    <3> QED
      BY <1>1, <2>4, <3>1, AilleursEnPlace
  <2>7. k.suite[Idle] = K.suite[Idle]
    BY <1>1, <2>4, ConstantesProcs
  <2>8. r \in Noyaux /\ Pret(r) /\ r.panique = "non" /\ EnPlace(r, k)
    BY <1>1, <2>3, <2>4, <2>5, <2>7, EnfileEluPret, EnfileEnPlace
  <2> HIDE DEF r
  <2>9. Epargne(r, K)
    BY <1>1, <2>6, <2>8, EnPlaceTransitif, EnPlaceEpargne
  <2>10. Sain(Ordonnanceur(r), K)
    BY <2>8, <2>9, OrdonnanceurSain
  <2> QED
    BY <2>1, <2>10, DevientSain DEF K
<1>3. CASE ~ (count'[s] < 0)
  BY <1>3, MenageInchange DEF Wait
<1> QED
  BY <1>2, <1>3

\* The return of a call to user mode.
LEMMA MenageReprise ==
    ASSUME TypeOK, Regle(Courant), panique = "non",
           Devient([Courant EXCEPT !.suite[elu] = User])
    PROVE  Menage
<1>1. /\ Courant \in Noyaux /\ Regle(Courant) /\ Courant.elu = elu
      /\ Courant.panique = "non"
  BY CourantType, CourantChamps DEF TypeOK
<1>2. User \in Suites /\ User.appel = "user" /\ Epargne(Courant, Courant)
  BY UserType DEF User, Epargne
<1> DEFINE x == [Courant EXCEPT !.suite[Courant.elu] = User]
<1>3. Sain(x, Courant)
  BY <1>1, <1>2, SuiteSain
<1>4. Devient(x)
  BY <1>1
<1> HIDE DEF x
<1> QED
  BY <1>3, <1>4, DevientSain

LEMMA MenageSemaphore ==
    ASSUME InvSemaphore, SemaphoreNext
    PROVE  Menage
<1>1. /\ TypeOK /\ Regle(Courant) /\ count \in [Sids -> Shorts]
      /\ queue \in [Queues -> Seq(Procs)]
  BY DEF InvSemaphore, TypeSemaphore, TypeOK, TypeNoyau
<1>2. ASSUME NEW s \in Sids
      PROVE  /\ Len(queue[s]) \in 0 .. Len(queue[s])
             /\ SubSeq(Attendants(s), 1, Len(queue[s])) = Attendants(s)
  <2>1. queue[s] \in Seq(Procs)
    BY <1>1, ConstantesQueues
  <2> QED
    BY <2>1, LenProperties, TousAttendants DEF Attendants
<1>3. ASSUME NEW s \in Sids, NEW st, Libere(s, Attendants(s), st), EnModeUser
      PROVE  Menage
  <2>1. Libere(s, SubSeq(Attendants(s), 1, Len(queue[s])), st) /\ panique = "non"
    BY <1>2, <1>3 DEF EnModeUser
  <2> QED
    BY <1>1, <1>2, <2>1, MenageLibere
<1>4. ASSUME NEW s \in Sids, NEW n \in 1 .. ShortMax, Signaln(s, n) PROVE Menage
  <2>1. CASE Len(queue[s]) < Reveils(s, n)
    <3> DEFINE k == [Courant EXCEPT !.panique = "null"]
    <3>1. Devient(k) /\ k.panique = "null"
      BY <1>4, <2>1 DEF Signaln, Courant
    <3> HIDE DEF k
    <3>2. Sain(k, Courant)
      BY <3>1 DEF Sain
    <3> QED
      BY <3>1, <3>2, DevientSain
  <2>2. CASE ~ (Len(queue[s]) < Reveils(s, n))
    <3> DEFINE m == Reveils(s, n)
    <3>1. Libere(s, SubSeq(Attendants(s), 1, m), 1) /\ panique = "non"
      BY <1>4, <2>2 DEF Signaln, EnModeUser
    <3>2. m \in Nat /\ queue[s] \in Seq(Procs)
      BY <1>1, ReveilsBornes, ConstantesQueues
    <3>3. Len(queue[s]) \in Nat
      BY <3>2, LenProperties
    <3>4. m \in 0 .. Len(queue[s])
      BY <2>2, <3>2, <3>3
    <3> HIDE DEF m
    <3> QED
      BY <1>1, <3>1, <3>4, MenageLibere
  <2> QED
    BY <2>1, <2>2
<1>5. ASSUME NEW s \in Sids, NEW n, Screate(s, n) \/ TryWait(s) PROVE Menage
  BY <1>5, MenageInchange DEF Screate, TryWait, vars
<1>6. ASSUME NEW s \in Sids, NEW n, Sdelete(s) \/ Sreset(s, n) PROVE Menage
  BY <1>3, <1>6 DEF Sdelete, Sreset
<1>7. ASSUME NEW s \in Sids, Wait(s) PROVE Menage
  BY <1>1, <1>7, MenageWait
<1>8. ASSUME RepriseWait PROVE Menage
  BY <1>1, <1>8, MenageReprise DEF RepriseWait
<1> QED
  BY <1>4, <1>5, <1>6, <1>7, <1>8 DEF SemaphoreNext

\* Every step that is not of files.c.
LEMMA MenageAutres ==
    ASSUME InvSemaphore, SemaphoreNext \/ AutresNext
    PROVE  Menage
<1>1. TypeOK /\ TypeNoyau /\ Regle(Courant)
  BY DEF InvSemaphore, TypeSemaphore, TypeOK
<1>2. CASE AutresNext
  BY <1>1, <1>2, MenageProcessus, MenageTic DEF AutresNext, Next
<1> QED
  BY <1>2, MenageSemaphore

-----------------------------------------------------------------------------
\* The invariant: what makes the two waits separate, said of each process.

\* The queue of each file, in order, and what the processes in it wait for:
\* a message of an empty file, or a place in a full one for the message that
\* their fileValue holds.
Separes(k, mm, qm, fv) ==
    \A f \in Fids :
        /\ Len(qm[f]) <= mm[f]
        /\ Triee(k.queue[f], k.prio)
        /\ \A p \in Procs : p \in Range(k.queue[f]) =>
              /\ mm[f] > 0
              /\ \/ k.suite[p].appel = "preceive" /\ qm[f] = <<>>
                 \/ /\ k.suite[p].appel = "psend" /\ Len(qm[f]) = mm[f]
                    /\ fv[p] \in Messages

ChampsFiles ==
    /\ maxMsg \in [Fids -> 0 .. MsgMax]
    /\ queueMsg \in [Fids -> Seq(Messages)]
    /\ fileValue \in [Procs -> Messages \cup {Rien}]

InvFiles ==
    /\ InvSemaphore /\ ChampsFiles
    /\ panique # "add_msg"
    /\ Separes(Courant, maxMsg, queueMsg, fileValue)

LEMMA ValeursType ==
    ASSUME NEW v \in [Procs -> Messages \cup {Rien}]
    PROVE  /\ ValeursRestantes(v) \in [Procs -> Messages \cup {Rien}]
           /\ \A p \in Procs : etat'[p] # "LIBRE" => ValeursRestantes(v)[p] = v[p]
BY DEF ValeursRestantes

\* The fields that a wait has written are still there after the step.
LEMMA SeparesValeurs ==
    ASSUME Regle(Courant)', TypeNoyau', NEW mm, NEW qm, NEW v, Separes(Courant', mm, qm, v)
    PROVE  Separes(Courant', mm, qm, ValeursRestantes(v))
<1>1. Courant' \in Noyaux /\ Courant'.etat = etat'
  BY DEF TypeNoyau, Noyaux, Courant
<1> DEFINE x == Courant'
<1>2. x \in Noyaux /\ x.etat = etat' /\ Chainage(x.queue, x.etat, {})
  BY <1>1 DEF Regle, Courant
<1>3. Separes(x, mm, qm, v)
  OBVIOUS
<1> HIDE DEF x
<1>4. ASSUME NEW f \in Fids, NEW p \in Procs, p \in Range(x.queue[f])
      PROVE  ValeursRestantes(v)[p] = v[p]
  <2>1. etat'[p] = "ATTEND_FILE"
    BY <1>2, <1>4, AttendFile
  <2> QED
    BY <2>1 DEF ValeursRestantes
<1>5. Separes(x, mm, qm, ValeursRestantes(v))
  BY <1>3, <1>4 DEF Separes
<1> QED
  BY <1>5 DEF x

\* A step that spares the files keeps them separate.
LEMMA MenageSepares ==
    ASSUME InvFiles, InvSemaphore', Menage,
           fileValue' = ValeursRestantes(fileValue), UNCHANGED <<maxMsg, queueMsg>>
    PROVE  InvFiles'
<1>1. ChampsFiles'
  BY ValeursType DEF InvFiles, ChampsFiles
<1>2. Separes(Courant', maxMsg, queueMsg, fileValue)
  BY DEF InvFiles, Menage, Epargne, Separes
<1>3. TypeNoyau' /\ Regle(Courant)'
  BY DEF InvSemaphore, TypeSemaphore, TypeOK
<1>4. Separes(Courant', maxMsg', queueMsg', fileValue')
  BY <1>2, <1>3, SeparesValeurs
<1> QED
  BY <1>1, <1>4 DEF InvFiles, Menage

LEMMA HorsFilesStep ==
    ASSUME InvFiles, HorsFilesNext
    PROVE  InvFiles'
<1>1. InvSemaphore'
  BY SemaphorePas DEF InvFiles, HorsFilesNext
<1>2. Menage
  BY MenageAutres DEF InvFiles, HorsFilesNext
<1> QED
  BY <1>1, <1>2, MenageSepares DEF HorsFilesNext

\* A call of files.c that leaves the kernel in the state x.
LEMMA PasFiles ==
    ASSUME InvFiles, NEW x \in Noyaux, Devient(x), x.panique = "non", Regle(x),
           HorsFiles, NEW st \in [Procs -> Statuts],
           NEW v \in [Procs -> Messages \cup {Rien}], Ecrit(st, v),
           maxMsg' \in [Fids -> 0 .. MsgMax], queueMsg' \in [Fids -> Seq(Messages)],
           Separes(x, maxMsg', queueMsg', v)
    PROVE  InvFiles'
<1>1. Courant' = x /\ panique' = "non"
  BY DEF Devient, Courant, Noyaux
<1>2. TypeOK' /\ Regle(Courant)' /\ JamaisEnfileDeuxFois'
  <2>1. Fiable(x) /\ TypeOK /\ Regle(Courant) /\ UNCHANGED <<ticks, cptTicks>>
    BY DEF Fiable, InvFiles, InvSemaphore, TypeSemaphore, HorsFiles
  <2> QED
    BY <2>1, DevientInvariant
<1>3. InvSemaphore'
  <2>1. operationStatus' \in [Procs -> Statuts]
    BY RestantsType DEF Ecrit
  <2> QED
    BY <1>2, <2>1 DEF InvFiles, InvSemaphore, TypeSemaphore, HorsFiles
<1>4. fileValue' = ValeursRestantes(v)
  BY DEF Ecrit
<1>5. Separes(Courant', maxMsg', queueMsg', fileValue')
  BY <1>1, <1>2, <1>4, SeparesValeurs DEF TypeOK
<1>6. ChampsFiles'
  BY <1>4, ValeursType DEF ChampsFiles
<1> QED
  BY <1>1, <1>3, <1>5, <1>6 DEF InvFiles

-----------------------------------------------------------------------------
\* The kernel under the calls of files.c.

\* The processor is given up by a process that is alive: nothing can fail.
LEMMA OrdonnanceurSur ==
    ASSUME NEW k \in Noyaux, Pret(k), k.panique = "non",
           k.etat[k.elu] \notin {"MOURANT", "ZOMBIE"}
    PROVE  LET x == Ordonnanceur(k)
           IN  x \in Noyaux /\ x.panique = "non" /\ Regle(x) /\ EnPlace(x, k)
<1> DEFINE k1 == FreeMourantQueue(k)
           x == Ordonnanceur(k)
<1>1. k.elu \notin Morts(k)
  BY MortsFinis DEF Pret
<1>2. k1.panique = "non"
  BY <1>1 DEF FreeMourantQueue, Noyaux
<1>3. x.panique \in {"non", "elu_libere"} /\ (x.panique = "non" => Regle(x))
  BY OrdonnanceurDiscipline
<1>4. x.panique # "elu_libere"
  <2> DEFINE k2 == RangeElu(k1)
             p == QueueTop(k2.queue["activables"])
  <2>1. x \in {k1, k2, Elit(k2, p)}
    BY DEF Ordonnanceur
  <2>2. k1 \in Noyaux
    BY FreeMourantQueueType
  <2> HIDE DEF k1
  <2>3. k2 \in Noyaux
    BY <2>2, RangeEluType
  <2>4. k2.panique # "elu_libere"
    BY <1>2, <2>2 DEF RangeElu, Active, Enfile, Noyaux
  <2> HIDE DEF k2, p
  <2>5. Elit(k2, p).panique = k2.panique
    BY <2>3 DEF Elit, Noyaux
  <2> HIDE DEF x
  <2> QED
    BY <1>2, <2>1, <2>4, <2>5
<1>5. x \in Noyaux
  BY OrdonnanceurType
<1> HIDE DEF x
<1>6. x.panique = "non" /\ Regle(x)
  BY <1>3, <1>4
<1>7. EnPlace(x, k)
  BY <1>6, OrdonnanceurEnPlace DEF x
<1> QED
  BY <1>5, <1>6, <1>7 DEF x

\* k is K with the processes W taken out of the queue of f, and l left there.
Extrait(k, K, f, W, l) ==
    /\ W \subseteq Range(K.queue[f]) /\ Range(l) = Range(K.queue[f]) \ W
    /\ l \in Seq(Procs) /\ IsInjective(l)
    /\ k = [K EXCEPT !.queue[f] = l]

\* What it is before they are made ready.
LEMMA RetraitFile ==
    ASSUME NEW K \in Noyaux, Regle(K), K.panique = "non",
           NEW f \in Fids, NEW W, NEW l, NEW k, Extrait(k, K, f, W, l)
    PROVE  /\ k \in Noyaux /\ Chainage(k.queue, k.etat, W)
           /\ k.etat = K.etat /\ k.reveil = K.reveil /\ Memes(k, K)
           /\ k.queue = [K.queue EXCEPT ![f] = l]
           /\ Ordre(K) => Ordre(k)
           /\ \A p \in W : K.etat[p] = "ATTEND_FILE"
<1>0. /\ W \subseteq Range(K.queue[f]) /\ Range(l) = Range(K.queue[f]) \ W
      /\ l \in Seq(Procs) /\ IsInjective(l) /\ k = [K EXCEPT !.queue[f] = l]
  BY DEF Extrait
<1> DEFINE q == [K.queue EXCEPT ![f] = l]
<1>1. f \in Queues /\ f \notin {"activables", "endormis"} /\ K.queue \in [Queues -> Seq(Procs)]
  BY ConstantesQueues, HorsFids DEF Noyaux
<1>2. Chainage(K.queue, K.etat, {})
  BY DEF Regle
<1>3. k \in Noyaux /\ k.etat = K.etat /\ k.reveil = K.reveil /\ Memes(k, K) /\ k.queue = q
  BY <1>0, <1>1 DEF Noyaux, Memes
<1>4. Chainage(q, K.etat, W)
  <2>1. Chainage(q, K.etat, {} \cup W)
    BY <1>0, <1>1, <1>2, ChainageRetrait
  <2>2. {} \cup W = W
    OBVIOUS
  <2> HIDE DEF q
  <2> QED
    BY <2>1, <2>2
<1>5. Ordre(K) => Ordre(k)
  BY <1>1, <1>3, ConstantesQueues DEF Ordre, Memes
<1>6. \A p \in W : K.etat[p] = "ATTEND_FILE"
  <2>1. Range(K.queue[f]) \subseteq Procs
    BY <1>1, RangeEquality
  <2> QED
    BY <1>0, <1>2, <2>1, AttendFile
<1> QED
  BY <1>3, <1>4, <1>5, <1>6

\* Once they are ready, the kernel is in order again.
LEMMA ReveilFile ==
    ASSUME NEW K \in Noyaux, Regle(K), NEW W, \A p \in W : K.etat[p] = "ATTEND_FILE",
           NEW k \in Noyaux, Chainage(k.queue, k.etat, {}), Memes(k, K),
           \A p \in Procs : k.etat[p] = IF p \in W THEN "ACTIVABLE" ELSE K.etat[p]
    PROVE  Regle(k)
<1>1. \A p \in Procs : k.etat[p] = "ELU" <=> p = k.elu
  BY DEF Regle, Memes
<1>2. IdlePret(k)
  BY ConstantesProcs DEF Regle, IdlePret, Memes
<1> QED
  BY <1>1, <1>2 DEF Regle

\* From K to x the processes W are woken in the calls they wait in, and the
\* others go no further in theirs.
Reveillee(x, K, W) ==
    \A p \in Procs :
        IF p \in W THEN x.etat[p] \in Prets /\ x.suite[p] = K.suite[p] ELSE Fige(x, K, p)

LEMMA ReveilleeApres ==
    ASSUME NEW K \in Noyaux, Posture(K), NEW W, \A p \in W : K.etat[p] = "ATTEND_FILE",
           NEW k, k.suite = K.suite, NEW x, Figes(x, k),
           \A p \in Procs : k.etat[p] = IF p \in W THEN "ACTIVABLE" ELSE K.etat[p]
    PROVE  Reveillee(x, K, W)
<1>1. ASSUME NEW p \in Procs, p \in W
      PROVE  x.etat[p] \in Prets /\ x.suite[p] = K.suite[p]
  <2>1. Fige(x, k, p) /\ k.etat[p] = "ACTIVABLE" /\ k.suite[p] = K.suite[p]
    BY <1>1 DEF Figes
  <2>2. K.suite[p].appel \in Appels
    <3>1. Posee("ATTEND_FILE", K.suite[p].appel)
      BY <1>1 DEF Posture
    <3> QED
      BY <3>1 DEF Posee, EtatsAppel, Prets, Morte
  <2> QED
    BY <2>1, <2>2 DEF Fige, Prets, Morte
<1>2. ASSUME NEW p \in Procs, p \notin W PROVE Fige(x, K, p)
  <2>1. Fige(x, k, p) /\ k.etat[p] = K.etat[p] /\ k.suite[p] = K.suite[p]
    BY <1>2 DEF Figes
  <2> QED
    BY <2>1 DEF Fige
<1> QED
  BY <1>1, <1>2 DEF Reveillee

\* The caller keeps the processor unless it woke a stronger process.
LEMMA PreempteResultat ==
    ASSUME NEW K \in Noyaux, NEW w \in Seq(Procs),
           NEW k \in Noyaux, Regle(k), k.panique = "non", k.elu = K.elu, k.prio = K.prio,
           k.suite = K.suite,
           \A p \in Range(w) : K.etat[p] = "ATTEND_FILE",
           \A p \in Procs : k.etat[p] = IF p \in Range(w) THEN "ACTIVABLE" ELSE K.etat[p]
    PROVE  LET x == Preempte(k, w)
           IN  /\ x \in Noyaux /\ x.panique = "non" /\ Regle(x) /\ EnPlace(x, k)
               /\ Ordre(k) => Rang(x, K)
               /\ Posture(K) => Reveillee(x, K, Range(w))
<1> DEFINE x == Preempte(k, w)
<1>1. Dort(k, K)
  BY DEF Dort, Prets
<1>2. /\ x \in Noyaux /\ x.panique = "non" /\ Regle(x) /\ EnPlace(x, k)
      /\ Ordre(k) => Rang(x, K)
  <2>1. CASE \E p \in Range(w) : k.prio[p] > k.prio[k.elu]
    <3>1. x = Ordonnanceur(k)
      BY <2>1 DEF Preempte
    <3>2. k.etat[k.elu] = "ELU" /\ Pret(k)
      BY ReglePret DEF Regle, Noyaux
    <3>3. x \in Noyaux /\ x.panique = "non" /\ Regle(x) /\ EnPlace(x, k)
      BY <3>1, <3>2, OrdonnanceurSur
    <3>4. Ordre(k) => Rang(x, K)
      BY <1>1, <3>1, <3>2, <3>3, OrdonnanceurRang
    <3> QED
      BY <3>3, <3>4
  <2>2. CASE ~ (\E p \in Range(w) : k.prio[p] > k.prio[k.elu])
    <3>1. x = k
      BY <2>2 DEF Preempte
    <3>2. Range(w) \subseteq Procs
      BY RangeEquality
    <3>3. ASSUME NEW p \in Range(w) PROVE k.prio[p] <= k.prio[k.elu]
      <4>1. k.prio[p] \in Nat /\ k.prio[k.elu] \in Nat
        BY <3>2, NoyauAssumption DEF Noyaux
      <4> QED
        BY <2>2, <4>1
    <3>4. Tient(k, K)
      BY <3>3 DEF Tient
    <3> QED
      BY <1>1, <3>1, <3>4, TientCede DEF Rang, EnPlace
  <2> QED
    BY <2>1, <2>2
<1>3. Figes(x, k)
  <2>1. Figes(k, k)
    BY MemesFiges
  <2>2. CASE x = k
    BY <2>1, <2>2
  <2>3. CASE x # k
    <3>1. x = Ordonnanceur(k) /\ x.panique = "non" /\ Pret(k)
      BY <1>2, <2>3, ReglePret DEF Preempte
    <3> HIDE DEF x
    <3> QED
      BY <3>1, OrdonnanceurFiges
  <2> QED
    BY <2>2, <2>3
<1> HIDE DEF x
<1>4. Posture(K) => Reveillee(x, K, Range(w))
  BY <1>3, ReveilleeApres
<1> QED
  BY <1>2, <1>4 DEF x

\* The queue of f becomes q, the other files are in place; s is the
\* continuation of each process.
Devenue(x, K, f, q, s) ==
    /\ x.queue[f] = q
    /\ \A g \in Fids \ {f} : x.queue[g] = K.queue[g]
    /\ \A g \in Fids, p \in Procs :
          p \in Range(x.queue[g]) => x.prio[p] = K.prio[p] /\ x.suite[p] = s[p]

LEMMA DevenueEnPlace ==
    ASSUME NEW K \in Noyaux, NEW f \in Fids, NEW q, NEW k, NEW x,
           k.queue = [K.queue EXCEPT ![f] = q], k.prio = K.prio, EnPlace(x, k)
    PROVE  Devenue(x, K, f, q, k.suite)
<1>1. /\ k.queue[f] = q /\ \A g \in Fids \ {f} : k.queue[g] = K.queue[g]
  BY ConstantesQueues DEF Noyaux
<1> QED
  BY <1>1 DEF EnPlace, Devenue

\* Vidange: the processes that wait are all woken.
LEMMA VidangeResultat ==
    ASSUME NEW K \in Noyaux, Regle(K), K.panique = "non", NEW f \in Fids
    PROVE  LET w == Reverse(K.queue[f])
               x == Preempte(ActiveTous([K EXCEPT !.queue[f] = <<>>], w), w)
           IN  /\ x \in Noyaux /\ x.panique = "non" /\ Regle(x)
               /\ Devenue(x, K, f, <<>>, K.suite)
               /\ Ordre(K) => Rang(x, K)
               /\ Posture(K) => Reveillee(x, K, Range(K.queue[f]))
<1> DEFINE q == K.queue[f]
           w == Reverse(q)
           k1 == [K EXCEPT !.queue[f] = <<>>]
           k == ActiveTous(k1, w)
           x == Preempte(k, w)
<1>1. q \in Seq(Procs) /\ IsInjective(q)
  BY ConstantesQueues DEF Noyaux, Regle, Chainage
<1>2. /\ w \in Seq(Procs) /\ Range(w) = Range(q) /\ IsInjective(w)
      /\ <<>> \in Seq(Procs) /\ Range(<<>>) = {} /\ IsInjective(<<>>)
  <2> HIDE DEF q
  <2>1. Len(q) \in 0 .. Len(q) /\ w = SubSeq(Reverse(q), 1, Len(q))
    BY <1>1, LenProperties, TousAttendants
  <2>2. SubSeq(q, 1, Len(q) - Len(q)) = <<>>
    <3>1. Len(q) \in Nat
      BY <1>1, LenProperties
    <3> QED
      BY <1>1, <3>1
  <2>3. Range(<<>>) = {}
    BY DEF Range
  <2> HIDE DEF w
  <2>4. LET v == SubSeq(Reverse(q), 1, Len(q))
            r == SubSeq(q, 1, Len(q) - Len(q))
        IN  /\ v \in Seq(Procs) /\ r \in Seq(Procs)
            /\ Range(q) = Range(r) \cup Range(v)
            /\ IsInjective(v) /\ IsInjective(r)
    BY <1>1, <2>1, ListeRetournee
  <2> QED
    BY <2>1, <2>2, <2>3, <2>4
<1>3. Range(<<>>) = Range(q) \ Range(w)
  BY <1>2
<1> HIDE DEF w
<1>4. /\ k1 \in Noyaux /\ Chainage(k1.queue, k1.etat, Range(w))
      /\ k1.etat = K.etat /\ k1.reveil = K.reveil /\ Memes(k1, K)
      /\ k1.queue = [K.queue EXCEPT ![f] = <<>>]
      /\ Ordre(K) => Ordre(k1)
      /\ \A p \in Range(w) : K.etat[p] = "ATTEND_FILE"
  <2> DEFINE v == <<>>
             W == Range(w)
  <2>1. Extrait(k1, K, f, W, v)
    BY <1>2, <1>3 DEF Extrait
  <2> HIDE DEF k1, v, W
  <2>2. /\ k1 \in Noyaux /\ Chainage(k1.queue, k1.etat, W)
        /\ k1.etat = K.etat /\ k1.reveil = K.reveil /\ Memes(k1, K)
        /\ k1.queue = [K.queue EXCEPT ![f] = v]
        /\ Ordre(K) => Ordre(k1)
        /\ \A p \in W : K.etat[p] = "ATTEND_FILE"
    BY <2>1, RetraitFile
  <2> QED
    BY <2>2 DEF v, W
<1> HIDE DEF k1
<1>5. /\ k \in Noyaux /\ Chainage(k.queue, k.etat, {}) /\ Memes(k, k1)
      /\ k.etat = [p \in Procs |-> IF p \in Range(w) THEN "ACTIVABLE" ELSE k1.etat[p]]
      /\ EnPlace(k, k1)
      /\ Ordre(k1) => Ordre(k)
  BY <1>2, <1>4, ActiveTousType, ActiveTousDiscipline, ActiveTousEnPlace, ActiveTousOrdre
<1> HIDE DEF k
<1>6. /\ Memes(k, K)
      /\ \A p \in Procs : k.etat[p] = IF p \in Range(w) THEN "ACTIVABLE" ELSE K.etat[p]
  BY <1>4, <1>5 DEF Memes
<1>7. Regle(k)
  BY <1>4, <1>5, <1>6, ReveilFile
<1>8. k.panique = "non" /\ k.elu = K.elu /\ k.prio = K.prio /\ k.suite = K.suite
  BY <1>6 DEF Memes
<1>9. /\ x \in Noyaux /\ x.panique = "non" /\ Regle(x) /\ EnPlace(x, k)
      /\ Ordre(k) => Rang(x, K)
      /\ Posture(K) => Reveillee(x, K, Range(w))
  BY <1>2, <1>4, <1>5, <1>6, <1>7, <1>8, PreempteResultat
<1> HIDE DEF x
<1>10. EnPlace(x, k1) /\ k1.prio = K.prio /\ k1.suite = K.suite
  BY <1>4, <1>5, <1>9, EnPlaceTransitif DEF Memes
<1>11. Devenue(x, K, f, <<>>, k1.suite)
  BY <1>4, <1>10, DevenueEnPlace
<1>12. Posture(K) => Reveillee(x, K, Range(K.queue[f]))
  BY <1>2, <1>9
<1> QED
  BY <1>4, <1>5, <1>9, <1>10, <1>11, <1>12 DEF x, k, k1, w

\* Debloque: the strongest is woken.
LEMMA DebloqueResultat ==
    ASSUME NEW K \in Noyaux, Regle(K), K.panique = "non", NEW f \in Fids,
           K.queue[f] # <<>>
    PROVE  LET p == QueueTop(K.queue[f])
               k == Active([K EXCEPT !.queue[f] = QueueOut(@)], p)
               x == Preempte(k, <<p>>)
           IN  /\ x \in Noyaux /\ x.panique = "non" /\ Regle(x)
               /\ Devenue(x, K, f, QueueOut(K.queue[f]), K.suite)
               /\ Ordre(K) => Rang(x, K)
               /\ Posture(K) => Reveillee(x, K, {p})
<1> DEFINE q == K.queue[f]
           p == QueueTop(q)
           l == QueueOut(q)
           k1 == [K EXCEPT !.queue[f] = l]
           k == Active(k1, p)
           x == Preempte(k, <<p>>)
<1>1. q \in Seq(Procs) /\ IsInjective(q) /\ q # <<>>
  BY ConstantesQueues DEF Noyaux, Regle, Chainage
<1>2. /\ p \in Range(q) /\ p \in Procs /\ l \in Seq(Procs) /\ IsInjective(l)
      /\ Range(l) = Range(q) \ {p}
  <2> HIDE DEF q
  <2> QED
    BY <1>1, QueueOutElements
<1>3. <<p>> \in Seq(Procs) /\ Range(<<p>>) = {p}
  BY <1>2 DEF Range
<1> HIDE DEF p, l
<1>4. /\ k1 \in Noyaux /\ Chainage(k1.queue, k1.etat, {p})
      /\ k1.etat = K.etat /\ k1.reveil = K.reveil /\ Memes(k1, K)
      /\ k1.queue = [K.queue EXCEPT ![f] = l]
      /\ Ordre(K) => Ordre(k1)
      /\ \A y \in {p} : K.etat[y] = "ATTEND_FILE"
  <2> DEFINE W == {p}
  <2>1. Extrait(k1, K, f, W, l)
    BY <1>2 DEF Extrait
  <2> HIDE DEF k1, W
  <2>2. /\ k1 \in Noyaux /\ Chainage(k1.queue, k1.etat, W)
        /\ k1.etat = K.etat /\ k1.reveil = K.reveil /\ Memes(k1, K)
        /\ k1.queue = [K.queue EXCEPT ![f] = l]
        /\ Ordre(K) => Ordre(k1)
        /\ \A y \in W : K.etat[y] = "ATTEND_FILE"
    BY <2>1, RetraitFile
  <2> QED
    BY <2>2 DEF W
<1> HIDE DEF k1
<1>5. /\ k \in Noyaux /\ Chainage(k.queue, k.etat, {p} \ {p}) /\ Memes(k, k1)
      /\ k.etat = [k1.etat EXCEPT ![p] = "ACTIVABLE"]
      /\ EnPlace(k, k1)
      /\ Ordre(k1) => Ordre(k)
  BY <1>2, <1>4, ActiveType, ActiveDiscipline, ActiveEnPlace, ActiveOrdre
<1> HIDE DEF k
<1>6. /\ Memes(k, K) /\ Chainage(k.queue, k.etat, {})
      /\ \A y \in Procs : k.etat[y] = IF y \in {p} THEN "ACTIVABLE" ELSE K.etat[y]
  <2>1. {p} \ {p} = {} /\ K.etat \in [Procs -> Etats]
    BY DEF Noyaux
  <2> QED
    BY <1>2, <1>4, <1>5, <2>1 DEF Memes
<1>7. Regle(k)
  BY <1>4, <1>5, <1>6, ReveilFile
<1>8. k.panique = "non" /\ k.elu = K.elu /\ k.prio = K.prio /\ k.suite = K.suite
  BY <1>6 DEF Memes
<1>9. /\ x \in Noyaux /\ x.panique = "non" /\ Regle(x) /\ EnPlace(x, k)
      /\ Ordre(k) => Rang(x, K)
      /\ Posture(K) => Reveillee(x, K, {p})
  <2> DEFINE w == <<p>>
  <2>1. w \in Seq(Procs) /\ Range(w) = {p}
    BY <1>3
  <2> HIDE DEF w
  <2>2. x = Preempte(k, w)
    BY DEF w
  <2> HIDE DEF x
  <2>3. /\ \A y \in Range(w) : K.etat[y] = "ATTEND_FILE"
        /\ \A y \in Procs : k.etat[y] = IF y \in Range(w) THEN "ACTIVABLE" ELSE K.etat[y]
    BY <1>4, <1>6, <2>1
  <2>4. k \in Noyaux
    BY <1>5
  <2>5. LET y == Preempte(k, w)
        IN  /\ y \in Noyaux /\ y.panique = "non" /\ Regle(y) /\ EnPlace(y, k)
            /\ Ordre(k) => Rang(y, K)
            /\ Posture(K) => Reveillee(y, K, Range(w))
    BY <1>7, <1>8, <2>1, <2>3, <2>4, PreempteResultat
  <2> QED
    BY <2>1, <2>2, <2>5
<1> HIDE DEF x
<1>10. EnPlace(x, k1) /\ k1.prio = K.prio /\ k1.suite = K.suite
  BY <1>4, <1>5, <1>9, EnPlaceTransitif DEF Memes
<1>11. Devenue(x, K, f, l, k1.suite)
  BY <1>4, <1>10, DevenueEnPlace
<1> QED
  BY <1>4, <1>5, <1>9, <1>10, <1>11 DEF x, k, k1, p, l

\* Bloque: the caller waits in the queue of f.
LEMMA BloqueResultat ==
    ASSUME NEW K \in Noyaux, Regle(K), K.panique = "non", K.elu # Idle,
           NEW f \in Fids, NEW a \in {"psend", "preceive"}
    PROVE  LET s == [appel |-> a, arg |-> Nul]
               k == [K EXCEPT !.etat[K.elu] = "ATTEND_FILE", !.suite[K.elu] = s]
               x == Ordonnanceur(Enfile(k, K.elu, f))
           IN  /\ x \in Noyaux /\ x.panique = "non" /\ Regle(x)
               /\ Devenue(x, K, f, QueueAdd(K.queue[f], K.elu, K.prio),
                          [K.suite EXCEPT ![K.elu] = s])
               /\ K.elu \notin Range(K.queue[f])
               /\ Ordre(K) => Rang(x, K)
               /\ x.etat[K.elu] = "ATTEND_FILE" /\ x.suite[K.elu] = s
               /\ FigesSauf(x, K, K.elu)
<1> DEFINE p == K.elu
           q == K.queue[f]
           s == [appel |-> a, arg |-> Nul]
           k == [K EXCEPT !.etat[p] = "ATTEND_FILE", !.suite[p] = s]
           l == QueueAdd(q, p, K.prio)
           r == Enfile(k, p, f)
           x == Ordonnanceur(r)
<1>1. /\ p \in Procs /\ K.etat[p] = "ELU" /\ Chainage(K.queue, K.etat, {}) /\ f \in Queues
      /\ f # "endormis" /\ f \notin Sids /\ f \in QueuesDe("ATTEND_FILE")
  BY ConstantesQueues, HorsFids, QueuesDeValeurs DEF Regle, Noyaux
<1>2. /\ s \in Suites /\ "ATTEND_FILE" \in Etats
      /\ "ATTEND_FILE" \notin {"ELU", "ACTIVABLE", "MOURANT"}
  BY DEF Suites, Etats
<1> HIDE DEF s
<1>3. /\ k \in Noyaux /\ k.queue = K.queue /\ k.prio = K.prio /\ k.reveil = K.reveil
      /\ k.elu = K.elu /\ k.panique = "non"
      /\ k.etat = [K.etat EXCEPT ![p] = "ATTEND_FILE"]
      /\ k.suite = [K.suite EXCEPT ![p] = s]
      /\ k.suite[Idle] = K.suite[Idle]
  BY <1>1, <1>2, ConstantesProcs DEF Noyaux
<1> HIDE DEF k
<1>4. \A g \in Queues : p \notin Range(K.queue[g])
  <2> SUFFICES ASSUME NEW g \in Queues, p \in Range(K.queue[g]) PROVE FALSE
    OBVIOUS
  <2>1. g \in QueuesDe("ELU")
    BY <1>1 DEF Chainage
  <2> QED
    BY <2>1, QueuesDeValeurs
<1>5. r.queue = [K.queue EXCEPT ![f] = l]
  <2>1. ~ Chaine(k, p)
    BY <1>3, <1>4 DEF Chaine, DansQueue, Membres
  <2>2. Cle(k, f) = K.prio
    BY <1>1, <1>3 DEF Cle
  <2> QED
    BY <1>1, <1>3, <2>1, <2>2 DEF Enfile, Noyaux
<1>6. r \in Noyaux /\ Pret(r) /\ r.panique = "non"
  <2>1. /\ Enfile(k, K.elu, f) \in Noyaux /\ Pret(Enfile(k, K.elu, f))
        /\ Enfile(k, K.elu, f).panique = k.panique
    <3>1. /\ k \in Noyaux /\ k.queue = K.queue /\ k.elu = K.elu
          /\ k.etat = [K.etat EXCEPT ![K.elu] = "ATTEND_FILE"]
          /\ k.suite[Idle] = K.suite[Idle]
      BY <1>3
    <3>2. f \in Queues /\ f \in QueuesDe("ATTEND_FILE")
      BY <1>1
    <3>3. "ATTEND_FILE" \notin {"ELU", "ACTIVABLE", "MOURANT"}
      OBVIOUS
    <3> QED
      BY <3>1, <3>2, <3>3, EnfileEluPret
  <2> QED
    BY <1>3, <2>1
<1>7. r.etat = k.etat /\ r.prio = K.prio /\ r.elu = p /\ r.suite = k.suite
  <2>1. r.suite = k.suite
    BY <1>3 DEF Enfile, Noyaux
  <2> QED
    BY <1>3, <2>1, EnfileChamps
<1>8. Ordre(K) => Ordre(r)
  <2>1. Ordre(K) => Ordre(k)
    BY <1>3 DEF Ordre
  <2> QED
    BY <1>1, <1>3, <2>1, EnfileOrdre
<1>9. Dort(r, K)
  <2>1. \A y \in Procs : r.etat[y] = IF y = p THEN "ATTEND_FILE" ELSE K.etat[y]
    BY <1>3, <1>7 DEF Noyaux
  <2> HIDE DEF r
  <2> QED
    BY <2>1 DEF Dort, Prets
<1> HIDE DEF r, l
<1>10. r.etat[r.elu] \notin {"MOURANT", "ZOMBIE"}
  BY <1>1, <1>3, <1>7 DEF Noyaux
<1>11. x \in Noyaux /\ x.panique = "non" /\ Regle(x) /\ EnPlace(x, r)
  BY <1>6, <1>10, OrdonnanceurSur
<1>12. Figes(x, r)
  BY <1>6, <1>11, OrdonnanceurFiges
<1>13. Ordre(K) => Rang(x, K)
  BY <1>6, <1>8, <1>9, <1>11, OrdonnanceurRang
<1> HIDE DEF x
<1>14. Devenue(x, K, f, l, r.suite)
  BY <1>5, <1>7, <1>11, DevenueEnPlace
<1>15. Devenue(x, K, f, l, [K.suite EXCEPT ![p] = s])
  BY <1>3, <1>7, <1>14
<1>16. /\ x.etat[p] = "ATTEND_FILE" /\ x.suite[p] = s
       /\ FigesSauf(x, K, p)
  <2>1. \A y \in Procs : /\ r.etat[y] = IF y = p THEN "ATTEND_FILE" ELSE K.etat[y]
                         /\ r.suite[y] = IF y = p THEN s ELSE K.suite[y]
    BY <1>1, <1>3, <1>7 DEF Noyaux
  <2>2. s.appel \in Appels
    BY DEF s, Appels
  <2>3. r.etat[p] = "ATTEND_FILE" /\ r.suite[p] = s /\ Fige(x, r, p)
    BY <1>1, <1>12, <2>1 DEF Figes
  <2>4. x.etat[p] = "ATTEND_FILE" /\ x.suite[p] = s
    BY <2>2, <2>3 DEF Fige, Prets, Morte
  <2>5. ASSUME NEW y \in Procs \ {p} PROVE Fige(x, K, y)
    <3>1. Fige(x, r, y) /\ r.etat[y] = K.etat[y] /\ r.suite[y] = K.suite[y]
      BY <1>12, <2>1 DEF Figes
    <3> QED
      BY <3>1 DEF Fige
  <2> QED
    BY <2>4, <2>5 DEF FigesSauf
<1> QED
  BY <1>1, <1>4, <1>11, <1>13, <1>15, <1>16 DEF x, r, l, k, s

-----------------------------------------------------------------------------
\* The calls of files.c keep the waits separate.

LEMMA EluHorsFiles ==
    ASSUME NEW K \in Noyaux, Regle(K), NEW g \in Fids
    PROVE  K.elu \notin Range(K.queue[g])
<1> SUFFICES ASSUME K.elu \in Range(K.queue[g]) PROVE FALSE
  OBVIOUS
<1>1. K.elu \in Procs /\ K.etat[K.elu] = "ELU" /\ Chainage(K.queue, K.etat, {})
  BY DEF Regle, Noyaux
<1>2. K.etat[K.elu] = "ATTEND_FILE"
  BY <1>1, AttendFile
<1> QED
  BY <1>1, <1>2

\* It is enough to look at the file of the call, and at the values that the
\* processes of the others keep.
LEMMA SeparesApres ==
    ASSUME NEW K \in Noyaux, NEW mm, NEW qm, NEW fv, Separes(K, mm, qm, fv),
           NEW f \in Fids, NEW q \in Seq(Procs), NEW s, NEW x, Devenue(x, K, f, q, s),
           NEW mm2, NEW qm2, NEW v,
           \A g \in Fids \ {f} : mm2[g] = mm[g] /\ qm2[g] = qm[g],
           Len(qm2[f]) <= mm2[f], Triee(q, K.prio),
           \A p \in Procs : p \in Range(q) =>
               /\ mm2[f] > 0
               /\ \/ s[p].appel = "preceive" /\ qm2[f] = <<>>
                  \/ s[p].appel = "psend" /\ Len(qm2[f]) = mm2[f] /\ v[p] \in Messages,
           \A g \in Fids \ {f}, p \in Procs : p \in Range(K.queue[g]) =>
               s[p] = K.suite[p] /\ (fv[p] \in Messages => v[p] \in Messages)
    PROVE  Separes(x, mm2, qm2, v)
<1>1. ASSUME NEW g \in Fids PROVE Triee(x.queue[g], x.prio)
  <2>1. x.queue[g] \in Seq(Procs) /\ Triee(x.queue[g], K.prio)
    <3>1. CASE g = f
      BY <3>1 DEF Devenue
    <3>2. CASE g # f
      <4>1. K.queue[g] \in Seq(Procs) /\ Triee(K.queue[g], K.prio)
        BY ConstantesQueues DEF Noyaux, Separes
      <4> QED
        BY <3>2, <4>1 DEF Devenue
    <3> QED
      BY <3>1, <3>2
  <2>2. Range(x.queue[g]) \subseteq Procs
    BY <2>1, RangeEquality
  <2>3. \A p \in Range(x.queue[g]) : K.prio[p] = x.prio[p]
    BY <2>2 DEF Devenue
  <2> DEFINE y == x.queue[g]
             c1 == K.prio
             c2 == x.prio
  <2>4. y \in Seq(Procs) /\ Triee(y, c1) /\ \A p \in Range(y) : c1[p] = c2[p]
    BY <2>1, <2>3
  <2> HIDE DEF y, c1, c2
  <2>5. Triee(y, c2)
    BY <2>4, TrieeCles
  <2> QED
    BY <2>5 DEF y, c2
<1>2. ASSUME NEW g \in Fids
      PROVE  /\ Len(qm2[g]) <= mm2[g]
             /\ \A p \in Procs : p \in Range(x.queue[g]) =>
                   /\ mm2[g] > 0
                   /\ \/ x.suite[p].appel = "preceive" /\ qm2[g] = <<>>
                      \/ /\ x.suite[p].appel = "psend" /\ Len(qm2[g]) = mm2[g]
                         /\ v[p] \in Messages
  <2>1. CASE g = f
    BY <2>1 DEF Devenue
  <2>2. CASE g # f
    <3>1. mm2[g] = mm[g] /\ qm2[g] = qm[g] /\ x.queue[g] = K.queue[g]
      BY <2>2 DEF Devenue
    <3>2. \A p \in Procs : p \in Range(x.queue[g]) =>
             x.suite[p] = K.suite[p] /\ (fv[p] \in Messages => v[p] \in Messages)
      BY <2>2, <3>1 DEF Devenue
    <3> QED
      BY <3>1, <3>2 DEF Separes
  <2> QED
    BY <2>1, <2>2
<1> QED
  BY <1>1, <1>2 DEF Separes

\* What a call of files.c starts from.
LEMMA EntreeFiles ==
    ASSUME InvFiles, panique = "non"
    PROVE  /\ Courant \in Noyaux /\ Regle(Courant) /\ Courant.panique = "non"
           /\ Courant.elu = elu /\ Courant.queue = queue /\ Courant.suite = suite
           /\ Courant.prio = prio
           /\ Separes(Courant, maxMsg, queueMsg, fileValue)
           /\ ChampsFiles /\ elu \in Procs
           /\ operationStatus \in [Procs -> Statuts]
           /\ queue \in [Queues -> Seq(Procs)]
BY CourantType, CourantChamps
   DEF InvFiles, InvSemaphore, TypeSemaphore, TypeOK, TypeNoyau

\* The queue of a file, and the number of its messages.
LEMMA ContenuFile ==
    ASSUME InvFiles, NEW f \in Fids
    PROVE  /\ queue[f] \in Seq(Procs) /\ Range(queue[f]) \subseteq Procs
           /\ queueMsg[f] \in Seq(Messages) /\ Len(queueMsg[f]) \in Nat
           /\ queueMsg[f] = <<>> <=> Len(queueMsg[f]) = 0
           /\ maxMsg[f] \in 0 .. MsgMax /\ maxMsg[f] \in Nat
           /\ Len(queueMsg[f]) <= maxMsg[f]
           /\ Triee(queue[f], prio)
           /\ \A p \in Range(queue[f]) :
                 /\ maxMsg[f] > 0
                 /\ \/ suite[p].appel = "preceive" /\ queueMsg[f] = <<>>
                    \/ /\ suite[p].appel = "psend" /\ Len(queueMsg[f]) = maxMsg[f]
                       /\ fileValue[p] \in Messages
<1>1. queue[f] \in Seq(Procs)
  BY ConstantesQueues DEF InvFiles, InvSemaphore, TypeSemaphore, TypeOK, TypeNoyau
<1>2. Range(queue[f]) \subseteq Procs
  BY <1>1, RangeEquality
<1>3. queueMsg[f] \in Seq(Messages) /\ maxMsg[f] \in 0 .. MsgMax /\ MsgMax \in Nat
  BY FilesAssumption DEF InvFiles, ChampsFiles
<1>4. Len(queueMsg[f]) \in Nat /\ (queueMsg[f] = <<>> <=> Len(queueMsg[f]) = 0)
  BY <1>3, EmptySeq, LenProperties
<1>5. Separes(Courant, maxMsg, queueMsg, fileValue)
  BY DEF InvFiles
<1>6. /\ Len(queueMsg[f]) <= maxMsg[f]
      /\ Triee(queue[f], prio)
      /\ \A p \in Procs : p \in Range(queue[f]) =>
                 /\ maxMsg[f] > 0
                 /\ \/ suite[p].appel = "preceive" /\ queueMsg[f] = <<>>
                    \/ /\ suite[p].appel = "psend" /\ Len(queueMsg[f]) = maxMsg[f]
                       /\ fileValue[p] \in Messages
  BY <1>5, CourantChamps DEF Separes
<1> QED
  BY <1>1, <1>2, <1>3, <1>4, <1>6

LEMMA MessagesRanges ==
    ASSUME NEW q \in Seq(Messages)
    PROVE  /\ \A m \in Messages : AddMsg(q, m) \in Seq(Messages)
                                  /\ Len(AddMsg(q, m)) = Len(q) + 1
           /\ q # <<>> => RetireMsg(q) \in Seq(Messages) /\ Len(RetireMsg(q)) = Len(q) - 1
<1>1. ASSUME NEW m \in Messages
      PROVE  AddMsg(q, m) \in Seq(Messages) /\ Len(AddMsg(q, m)) = Len(q) + 1
  <2> DEFINE c == [x \in Messages |-> 0]
             i == Place(q, m, c)
  <2>1. c \in [Messages -> Nat]
    OBVIOUS
  <2> HIDE DEF c
  <2>2. i \in 1 .. Len(q) + 1
    BY <2>1, PlaceBornes
  <2> HIDE DEF i
  <2>3. InsertAt(q, i, m) \in Seq(Messages) /\ Len(InsertAt(q, i, m)) = Len(q) + 1
    BY <2>2, InsertAtElements DEF Inseree
  <2> QED
    BY <2>3 DEF AddMsg, QueueAdd, i, c
<1>2. ASSUME q # <<>>
      PROVE  RetireMsg(q) \in Seq(Messages) /\ Len(RetireMsg(q)) = Len(q) - 1
  <2>1. PICK n \in Nat \ {0} : n = Len(q)
    BY <1>2, EmptySeq
  <2> DEFINE r == SubSeq(q, 1, n - 1)
  <2>2. r \in Seq(Messages) /\ Len(r) = n - 1
    BY <2>1, SubSeqProperties
  <2>3. RetireMsg(q) = r
    BY <2>1 DEF RetireMsg, QueueOut, Front
  <2> HIDE DEF r
  <2> QED
    BY <2>1, <2>2, <2>3
<1> QED
  BY <1>1, <1>2

\* The statuses and the values that a call writes.
LEMMA EcritesType ==
    ASSUME ChampsFiles, operationStatus \in [Procs -> Statuts], elu \in Procs,
           NEW p \in Procs, NEW m \in Messages
    PROVE  /\ [operationStatus EXCEPT ![elu] = Vrai] \in [Procs -> Statuts]
           /\ [operationStatus EXCEPT ![elu] = Vrai, ![p] = Vrai] \in [Procs -> Statuts]
           /\ [fileValue EXCEPT ![elu] = m] \in [Procs -> Messages \cup {Rien}]
           /\ [fileValue EXCEPT ![elu] = Rien] \in [Procs -> Messages \cup {Rien}]
           /\ [fileValue EXCEPT ![elu] = m, ![p] = m] \in [Procs -> Messages \cup {Rien}]
BY DEF ChampsFiles, Vrai, Statuts

LEMMA PcreatePas ==
    ASSUME InvFiles, NEW f \in Fids, NEW n \in 1 .. MsgMax, Pcreate(f, n)
    PROVE  InvFiles'
<1>1. InvSemaphore'
  BY SemaphorePas DEF InvFiles, Pcreate
<1>2. Courant' = Courant /\ panique' = panique
  BY DEF Pcreate, Courant, varsSemaphore, vars, noyauVars
<1>3. /\ n \in 0 .. MsgMax /\ n \in Nat /\ n > 0
      /\ maxMsg' = [maxMsg EXCEPT ![f] = n]
      /\ UNCHANGED <<queueMsg, fileValue>> /\ ~ (maxMsg[f] > 0)
  BY FilesAssumption DEF Pcreate, FidValide
<1>4. ChampsFiles'
  BY <1>3 DEF InvFiles, ChampsFiles
<1>5. /\ \A g \in Fids : maxMsg'[g] = IF g = f THEN n ELSE maxMsg[g]
      /\ Len(queueMsg[f]) <= n
  <2>1. Len(queueMsg[f]) <= maxMsg[f] /\ maxMsg[f] \in Nat /\ Len(queueMsg[f]) \in Nat
    BY ContenuFile
  <2> QED
    BY <1>3, <2>1 DEF InvFiles, ChampsFiles
<1>6. Separes(Courant, maxMsg', queueMsg, fileValue)
  BY <1>3, <1>5 DEF InvFiles, Separes
<1> QED
  BY <1>1, <1>2, <1>3, <1>4, <1>6 DEF InvFiles

LEMMA VidangePas ==
    ASSUME InvFiles, panique = "non", NEW f \in Fids, Vidange(f),
           maxMsg' \in [Fids -> 0 .. MsgMax],
           \A g \in Fids \ {f} : maxMsg'[g] = maxMsg[g]
    PROVE  InvFiles'
<1> DEFINE w == Reverse(queue[f])
           x == Preempte(ActiveTous([Courant EXCEPT !.queue[f] = <<>>], w), w)
           st == StatutsEchec(f)
<1>1. /\ Courant \in Noyaux /\ Regle(Courant) /\ Courant.panique = "non"
      /\ Courant.queue = queue /\ Courant.suite = suite
      /\ Separes(Courant, maxMsg, queueMsg, fileValue)
      /\ fileValue \in [Procs -> Messages \cup {Rien}]
      /\ queueMsg \in [Fids -> Seq(Messages)]
      /\ operationStatus \in [Procs -> Statuts]
  BY EntreeFiles DEF ChampsFiles
<1>2. /\ Devient(x) /\ HorsFiles /\ Ecrit(st, fileValue)
      /\ queueMsg' = [queueMsg EXCEPT ![f] = <<>>]
  BY DEF Vidange
<1>3. /\ x \in Noyaux /\ x.panique = "non" /\ Regle(x)
      /\ Devenue(x, Courant, f, <<>>, Courant.suite)
  <2> DEFINE K == Courant
  <2>1. K \in Noyaux /\ Regle(K) /\ K.panique = "non" /\ K.queue = queue
    BY <1>1
  <2> HIDE DEF K
  <2>2. LET u == Reverse(K.queue[f])
            y == Preempte(ActiveTous([K EXCEPT !.queue[f] = <<>>], u), u)
        IN  /\ y \in Noyaux /\ y.panique = "non" /\ Regle(y)
            /\ Devenue(y, K, f, <<>>, K.suite)
    BY <2>1, VidangeResultat
  <2> QED
    BY <2>1, <2>2 DEF K
<1> HIDE DEF x
<1>4. st \in [Procs -> Statuts]
  BY <1>1 DEF StatutsEchec, Faux, Statuts
<1> HIDE DEF st
<1>5. /\ queueMsg' \in [Fids -> Seq(Messages)]
      /\ Len(queueMsg'[f]) <= maxMsg'[f]
      /\ \A g \in Fids \ {f} : queueMsg'[g] = queueMsg[g]
  <2>1. <<>> \in Seq(Messages) /\ Len(<<>>) = 0
    OBVIOUS
  <2>2. maxMsg'[f] \in 0 .. MsgMax /\ MsgMax \in Nat
    BY FilesAssumption
  <2>3. queueMsg'[f] = <<>>
    BY <1>1, <1>2
  <2>4. queueMsg' \in [Fids -> Seq(Messages)] /\ \A g \in Fids \ {f} : queueMsg'[g] = queueMsg[g]
    BY <1>1, <1>2, <2>1
  <2> QED
    BY <2>1, <2>2, <2>3, <2>4
<1>6. <<>> \in Seq(Procs) /\ Range(<<>>) = {} /\ Triee(<<>>, Courant.prio)
  BY DEF Range, Triee
<1> DEFINE K == Courant
           s == K.suite
<1>7. Separes(x, maxMsg', queueMsg', fileValue)
  <2> DEFINE q == <<>>
  <2>1. /\ K \in Noyaux /\ Separes(K, maxMsg, queueMsg, fileValue)
        /\ Devenue(x, K, f, q, s) /\ q \in Seq(Procs) /\ Triee(q, K.prio)
        /\ \A g \in Fids \ {f} : maxMsg'[g] = maxMsg[g] /\ queueMsg'[g] = queueMsg[g]
        /\ Len(queueMsg'[f]) <= maxMsg'[f]
    BY <1>1, <1>3, <1>5, <1>6
  <2>2. \A p \in Procs : p \in Range(q) =>
            /\ maxMsg'[f] > 0
            /\ \/ s[p].appel = "preceive" /\ queueMsg'[f] = <<>>
               \/ /\ s[p].appel = "psend" /\ Len(queueMsg'[f]) = maxMsg'[f]
                  /\ fileValue[p] \in Messages
    BY <1>6
  <2>3. \A g \in Fids \ {f}, p \in Procs : p \in Range(K.queue[g]) =>
            s[p] = K.suite[p] /\ (fileValue[p] \in Messages => fileValue[p] \in Messages)
    OBVIOUS
  <2> HIDE DEF K, s, q
  <2> QED
    BY <2>1, <2>2, <2>3, SeparesApres
<1> QED
  BY <1>1, <1>2, <1>3, <1>4, <1>5, <1>7, PasFiles

\* Debloque and Bloque, on the variables.
LEMMA DebloqueFile ==
    ASSUME InvFiles, panique = "non", NEW f \in Fids, queue[f] # <<>>
    PROVE  /\ Debloque(f) \in Noyaux /\ Debloque(f).panique = "non" /\ Regle(Debloque(f))
           /\ Devenue(Debloque(f), Courant, f, QueueOut(queue[f]), suite)
           /\ Retire(f) \in Range(queue[f]) /\ Retire(f) \in Procs
           /\ QueueOut(queue[f]) \in Seq(Procs) /\ Triee(QueueOut(queue[f]), prio)
           /\ Range(QueueOut(queue[f])) \subseteq Range(queue[f])
           /\ Ordre(Courant) => Rang(Debloque(f), Courant)
           /\ Posture(Courant) => Reveillee(Debloque(f), Courant, {Retire(f)})
<1> DEFINE K == Courant
           q == queue[f]
<1>1. K \in Noyaux /\ Regle(K) /\ K.panique = "non" /\ K.queue = queue /\ K.suite = suite
  BY EntreeFiles
<1>2. q \in Seq(Procs) /\ Triee(q, prio) /\ q # <<>>
  BY ContenuFile
<1>3. Debloque(f) = Preempte(Active([K EXCEPT !.queue[f] = QueueOut(@)], QueueTop(K.queue[f])),
                             <<QueueTop(K.queue[f])>>)
  BY <1>1 DEF Debloque, Retire
<1>4. QueueOut(K.queue[f]) = QueueOut(q)
  BY <1>1
<1> HIDE DEF K
<1>5. LET p == QueueTop(K.queue[f])
          k == Active([K EXCEPT !.queue[f] = QueueOut(@)], p)
          x == Preempte(k, <<p>>)
      IN  /\ x \in Noyaux /\ x.panique = "non" /\ Regle(x)
          /\ Devenue(x, K, f, QueueOut(K.queue[f]), K.suite)
          /\ Ordre(K) => Rang(x, K)
          /\ Posture(K) => Reveillee(x, K, {p})
  BY <1>1, <1>2, DebloqueResultat
<1> HIDE DEF q
<1>6. /\ QueueTop(q) \in Range(q) /\ QueueTop(q) \in Procs
      /\ QueueOut(q) \in Seq(Procs) /\ Triee(QueueOut(q), prio)
      /\ Range(QueueOut(q)) \subseteq Range(q)
  BY <1>2, QueueOutElements
<1> QED
  BY <1>1, <1>3, <1>4, <1>5, <1>6 DEF K, q, Retire

LEMMA BloqueFile ==
    ASSUME InvFiles, EnModeUser, NEW f \in Fids, NEW a \in {"psend", "preceive"}
    PROVE  LET s == [suite EXCEPT ![elu] = [appel |-> a, arg |-> Nul]]
               q == QueueAdd(queue[f], elu, prio)
           IN  /\ Bloque(f, a) \in Noyaux /\ Bloque(f, a).panique = "non"
               /\ Regle(Bloque(f, a))
               /\ Devenue(Bloque(f, a), Courant, f, q, s)
               /\ q \in Seq(Procs) /\ Triee(q, prio) /\ Range(q) = Range(queue[f]) \cup {elu}
               /\ s[elu].appel = a /\ \A p \in Procs \ {elu} : s[p] = suite[p]
               /\ \A g \in Fids : elu \notin Range(queue[g])
               /\ Ordre(Courant) => Rang(Bloque(f, a), Courant)
               /\ Bloque(f, a).etat[elu] = "ATTEND_FILE"
               /\ Bloque(f, a).suite[elu].appel = a
               /\ FigesSauf(Bloque(f, a), Courant, elu)
<1> DEFINE K == Courant
           t == [appel |-> a, arg |-> Nul]
           s == [suite EXCEPT ![elu] = t]
           q == QueueAdd(queue[f], elu, prio)
<1>1. /\ K \in Noyaux /\ Regle(K) /\ K.panique = "non" /\ K.queue = queue
      /\ K.suite = suite /\ K.prio = prio /\ K.elu = elu /\ elu \in Procs
      /\ panique = "non"
  BY EntreeFiles DEF EnModeUser
<1>2. K.elu # Idle
  BY <1>1, NoyauAssumption DEF EnModeUser
<1>3. /\ queue[f] \in Seq(Procs) /\ Triee(queue[f], prio) /\ prio \in [Procs -> Nat]
      /\ suite \in [Procs -> Suites]
  BY <1>1, ContenuFile, NoyauAssumption DEF Noyaux
<1>4. q \in Seq(Procs) /\ Triee(q, prio) /\ Range(q) = Range(queue[f]) \cup {elu}
  BY <1>1, <1>3, QueueAddElements
<1>5. s[elu].appel = a /\ \A p \in Procs \ {elu} : s[p] = suite[p]
  BY <1>1, <1>3
<1>6. \A g \in Fids : elu \notin Range(queue[g])
  BY <1>1, EluHorsFiles
<1>7. Bloque(f, a) = Ordonnanceur(Enfile([K EXCEPT !.etat[K.elu] = "ATTEND_FILE",
                                                   !.suite[K.elu] = t], K.elu, f))
  BY <1>1 DEF Bloque
<1>8. /\ q = QueueAdd(K.queue[f], K.elu, K.prio)
      /\ s = [K.suite EXCEPT ![K.elu] = t]
  BY <1>1
<1> HIDE DEF K
<1>9. LET u == [appel |-> a, arg |-> Nul]
          k == [K EXCEPT !.etat[K.elu] = "ATTEND_FILE", !.suite[K.elu] = u]
          x == Ordonnanceur(Enfile(k, K.elu, f))
      IN  /\ x \in Noyaux /\ x.panique = "non" /\ Regle(x)
          /\ Devenue(x, K, f, QueueAdd(K.queue[f], K.elu, K.prio),
                     [K.suite EXCEPT ![K.elu] = u])
          /\ Ordre(K) => Rang(x, K)
          /\ x.etat[K.elu] = "ATTEND_FILE" /\ x.suite[K.elu] = u
          /\ FigesSauf(x, K, K.elu)
  BY <1>1, <1>2, BloqueResultat
<1>10. /\ Bloque(f, a) \in Noyaux /\ Bloque(f, a).panique = "non" /\ Regle(Bloque(f, a))
       /\ Devenue(Bloque(f, a), K, f, q, s)
       /\ Ordre(K) => Rang(Bloque(f, a), K)
  BY <1>7, <1>8, <1>9
<1>11. /\ Bloque(f, a).etat[elu] = "ATTEND_FILE" /\ Bloque(f, a).suite[elu].appel = a
       /\ FigesSauf(Bloque(f, a), K, elu)
  <2>1. /\ Bloque(f, a).etat[K.elu] = "ATTEND_FILE" /\ Bloque(f, a).suite[K.elu] = t
        /\ FigesSauf(Bloque(f, a), K, K.elu)
    BY <1>7, <1>9
  <2> QED
    BY <1>1, <2>1
<1> QED
  BY <1>4, <1>5, <1>6, <1>10, <1>11 DEF K

\* A call on f that leaves the kernel in the state x, the queue of f made q,
\* with the continuations s and the values v, and serves both waits.
AppelFile(f, x, q, s, v) ==
    /\ x \in Noyaux /\ x.panique = "non" /\ Regle(x) /\ Devient(x)
    /\ FidValide(f) /\ HorsFiles /\ UNCHANGED maxMsg
    /\ queueMsg' \in [Fids -> Seq(Messages)]
    /\ \A g \in Fids \ {f} : queueMsg'[g] = queueMsg[g]
    /\ Len(queueMsg'[f]) <= maxMsg[f]
    /\ v \in [Procs -> Messages \cup {Rien}]
    /\ q \in Seq(Procs) /\ Triee(q, prio) /\ Devenue(x, Courant, f, q, s)
    /\ \A p \in Procs : p \in Range(q) =>
          \/ s[p].appel = "preceive" /\ queueMsg'[f] = <<>>
          \/ s[p].appel = "psend" /\ Len(queueMsg'[f]) = maxMsg[f] /\ v[p] \in Messages
    /\ \A g \in Fids \ {f}, p \in Procs : p \in Range(queue[g]) =>
          s[p] = suite[p] /\ (fileValue[p] \in Messages => v[p] \in Messages)

LEMMA PasFile ==
    ASSUME InvFiles, panique = "non", NEW f \in Fids,
           NEW x, NEW q, NEW s, NEW v, AppelFile(f, x, q, s, v),
           NEW st \in [Procs -> Statuts], Ecrit(st, v)
    PROVE  InvFiles'
<1> DEFINE K == Courant
<1>1. /\ K \in Noyaux /\ K.queue = queue /\ K.suite = suite /\ K.prio = prio
      /\ Separes(K, maxMsg, queueMsg, fileValue)
      /\ maxMsg' = maxMsg /\ maxMsg' \in [Fids -> 0 .. MsgMax] /\ maxMsg[f] > 0
  BY EntreeFiles DEF ChampsFiles, AppelFile, FidValide
<1>2. /\ x \in Noyaux /\ x.panique = "non" /\ Regle(x) /\ Devient(x) /\ HorsFiles
      /\ v \in [Procs -> Messages \cup {Rien}]
      /\ queueMsg' \in [Fids -> Seq(Messages)]
      /\ q \in Seq(Procs) /\ Triee(q, K.prio) /\ Devenue(x, K, f, q, s)
      /\ Len(queueMsg'[f]) <= maxMsg'[f]
  BY <1>1 DEF AppelFile
<1>3. \A g \in Fids \ {f} : maxMsg'[g] = maxMsg[g] /\ queueMsg'[g] = queueMsg[g]
  BY <1>1 DEF AppelFile
<1>4. \A p \in Procs : p \in Range(q) =>
         /\ maxMsg'[f] > 0
         /\ \/ s[p].appel = "preceive" /\ queueMsg'[f] = <<>>
            \/ s[p].appel = "psend" /\ Len(queueMsg'[f]) = maxMsg'[f] /\ v[p] \in Messages
  BY <1>1 DEF AppelFile
<1>5. \A g \in Fids \ {f}, p \in Procs : p \in Range(K.queue[g]) =>
         s[p] = K.suite[p] /\ (fileValue[p] \in Messages => v[p] \in Messages)
  BY <1>1 DEF AppelFile
<1> HIDE DEF K
<1>6. /\ K \in Noyaux /\ Separes(K, maxMsg, queueMsg, fileValue)
      /\ Devenue(x, K, f, q, s) /\ q \in Seq(Procs) /\ Triee(q, K.prio)
      /\ Len(queueMsg'[f]) <= maxMsg'[f]
  BY <1>1, <1>2
<1>7. Separes(x, maxMsg', queueMsg', v)
  BY <1>3, <1>4, <1>5, <1>6, SeparesApres
<1> QED
  BY <1>1, <1>2, <1>7, PasFiles

LEMMA PsendRemetPas ==
    ASSUME InvFiles, NEW f \in Fids, NEW m \in Messages, PsendRemet(f, m)
    PROVE  InvFiles'
<1> DEFINE x == Debloque(f)
           p == Retire(f)
           st == [operationStatus EXCEPT ![elu] = Vrai, ![p] = Vrai]
           v == [fileValue EXCEPT ![elu] = m, ![p] = m]
           q == QueueOut(queue[f])
<1>1. /\ panique = "non" /\ FidValide(f) /\ HorsFiles /\ UNCHANGED maxMsg
      /\ queueMsg[f] = <<>> /\ queue[f] # <<>>
      /\ Devient(x) /\ Ecrit(st, v) /\ UNCHANGED queueMsg
  BY DEF PsendRemet, EntrePsend, EnModeUser
<1>2. /\ x \in Noyaux /\ x.panique = "non" /\ Regle(x) /\ Devenue(x, Courant, f, q, suite)
      /\ p \in Procs /\ q \in Seq(Procs) /\ Triee(q, prio) /\ Range(q) \subseteq Range(queue[f])
  BY <1>1, DebloqueFile
<1>3. ChampsFiles /\ elu \in Procs /\ operationStatus \in [Procs -> Statuts]
  BY <1>1, EntreeFiles
<1> HIDE DEF p, q, x
<1>4. st \in [Procs -> Statuts] /\ v \in [Procs -> Messages \cup {Rien}]
  BY <1>2, <1>3, EcritesType
<1>5. \A y \in Procs : fileValue[y] \in Messages => v[y] \in Messages
  BY <1>2, <1>3 DEF ChampsFiles
<1> HIDE DEF st, v
<1>6. /\ queueMsg' = queueMsg /\ queueMsg' \in [Fids -> Seq(Messages)]
      /\ Len(queueMsg'[f]) <= maxMsg[f]
  BY <1>1, <1>3, ContenuFile DEF ChampsFiles
<1>7. \A y \in Procs : y \in Range(q) => suite[y].appel = "preceive" /\ queueMsg'[f] = <<>>
  <2> SUFFICES ASSUME NEW y \in Procs, y \in Range(q)
               PROVE  suite[y].appel = "preceive"
    BY <1>1
  <2>1. /\ maxMsg[f] > 0
        /\ suite[y].appel = "preceive" \/ Len(queueMsg[f]) = maxMsg[f]
    BY <1>2, ContenuFile
  <2>2. Len(queueMsg[f]) = 0
    BY <1>1
  <2> QED
    BY <2>1, <2>2
<1>8. AppelFile(f, x, q, suite, v)
  BY <1>1, <1>2, <1>4, <1>5, <1>6, <1>7 DEF AppelFile
<1> QED
  BY <1>1, <1>4, <1>8, PasFile

LEMMA PsendBloquePas ==
    ASSUME InvFiles, NEW f \in Fids, NEW m \in Messages, PsendBloque(f, m)
    PROVE  InvFiles'
<1> DEFINE x == Bloque(f, "psend")
           s == [suite EXCEPT ![elu] = [appel |-> "psend", arg |-> Nul]]
           st == [operationStatus EXCEPT ![elu] = Vrai]
           v == [fileValue EXCEPT ![elu] = m]
           q == QueueAdd(queue[f], elu, prio)
<1>1. /\ EnModeUser /\ panique = "non" /\ FidValide(f) /\ HorsFiles /\ UNCHANGED maxMsg
      /\ ~(queueMsg[f] = <<>> /\ queue[f] # <<>>) /\ Len(queueMsg[f]) = maxMsg[f]
      /\ Devient(x) /\ Ecrit(st, v) /\ UNCHANGED queueMsg
  BY DEF PsendBloque, EntrePsend, EnModeUser
<1>2. /\ x \in Noyaux /\ x.panique = "non" /\ Regle(x) /\ Devenue(x, Courant, f, q, s)
      /\ q \in Seq(Procs) /\ Triee(q, prio) /\ Range(q) = Range(queue[f]) \cup {elu}
      /\ s[elu].appel = "psend" /\ \A y \in Procs \ {elu} : s[y] = suite[y]
      /\ \A g \in Fids : elu \notin Range(queue[g])
  BY <1>1, BloqueFile
<1>3. ChampsFiles /\ elu \in Procs /\ operationStatus \in [Procs -> Statuts]
  BY <1>1, EntreeFiles
<1> HIDE DEF x, s, q
<1>4. st \in [Procs -> Statuts] /\ v \in [Procs -> Messages \cup {Rien}]
  BY <1>3, EcritesType
<1>5. v[elu] \in Messages /\ \A y \in Procs \ {elu} : v[y] = fileValue[y]
  BY <1>3 DEF ChampsFiles
<1> HIDE DEF st, v
<1>6. /\ queueMsg' = queueMsg /\ queueMsg' \in [Fids -> Seq(Messages)]
      /\ Len(queueMsg'[f]) <= maxMsg[f] /\ queueMsg[f] # <<>>
  BY <1>1, <1>3, ContenuFile DEF ChampsFiles, FidValide
<1>7. \A y \in Procs : y \in Range(q) =>
         s[y].appel = "psend" /\ Len(queueMsg'[f]) = maxMsg[f] /\ v[y] \in Messages
  <2> SUFFICES ASSUME NEW y \in Procs, y \in Range(q)
               PROVE  s[y].appel = "psend" /\ v[y] \in Messages
    BY <1>1
  <2>1. CASE y = elu
    BY <1>2, <1>5, <2>1
  <2>2. CASE y # elu
    BY <1>2, <1>5, <1>6, <2>2, ContenuFile
  <2> QED
    BY <2>1, <2>2
<1>8. \A g \in Fids \ {f}, y \in Procs : y \in Range(queue[g]) =>
         s[y] = suite[y] /\ (fileValue[y] \in Messages => v[y] \in Messages)
  BY <1>2, <1>5
<1>9. AppelFile(f, x, q, s, v)
  BY <1>1, <1>2, <1>4, <1>6, <1>7, <1>8 DEF AppelFile
<1> QED
  BY <1>1, <1>4, <1>9, PasFile

LEMMA PreceiveBloquePas ==
    ASSUME InvFiles, NEW f \in Fids, PreceiveBloque(f)
    PROVE  InvFiles'
<1> DEFINE x == Bloque(f, "preceive")
           s == [suite EXCEPT ![elu] = [appel |-> "preceive", arg |-> Nul]]
           st == [operationStatus EXCEPT ![elu] = Vrai]
           v == [fileValue EXCEPT ![elu] = Rien]
           q == QueueAdd(queue[f], elu, prio)
<1>1. /\ EnModeUser /\ panique = "non" /\ FidValide(f) /\ HorsFiles /\ UNCHANGED maxMsg
      /\ queueMsg[f] = <<>>
      /\ Devient(x) /\ Ecrit(st, v) /\ UNCHANGED queueMsg
  BY DEF PreceiveBloque, EntrePreceive, EnModeUser
<1>2. /\ x \in Noyaux /\ x.panique = "non" /\ Regle(x) /\ Devenue(x, Courant, f, q, s)
      /\ q \in Seq(Procs) /\ Triee(q, prio) /\ Range(q) = Range(queue[f]) \cup {elu}
      /\ s[elu].appel = "preceive" /\ \A y \in Procs \ {elu} : s[y] = suite[y]
      /\ \A g \in Fids : elu \notin Range(queue[g])
  BY <1>1, BloqueFile
<1>3. ChampsFiles /\ elu \in Procs /\ operationStatus \in [Procs -> Statuts]
  BY <1>1, EntreeFiles
<1> HIDE DEF x, s, q
<1>4. st \in [Procs -> Statuts] /\ v \in [Procs -> Messages \cup {Rien}]
  BY <1>3, EcritesType, FilesAssumption
<1>5. \A y \in Procs \ {elu} : v[y] = fileValue[y]
  BY <1>3 DEF ChampsFiles
<1> HIDE DEF st, v
<1>6. /\ queueMsg' = queueMsg /\ queueMsg' \in [Fids -> Seq(Messages)]
      /\ Len(queueMsg'[f]) <= maxMsg[f] /\ Len(queueMsg[f]) # maxMsg[f]
  <2>1. Len(queueMsg[f]) = 0 /\ maxMsg[f] > 0
    BY <1>1 DEF FidValide
  <2> QED
    BY <1>1, <1>3, <2>1, ContenuFile DEF ChampsFiles
<1>7. \A y \in Procs : y \in Range(q) => s[y].appel = "preceive" /\ queueMsg'[f] = <<>>
  <2> SUFFICES ASSUME NEW y \in Procs, y \in Range(q)
               PROVE  s[y].appel = "preceive"
    BY <1>1
  <2>1. CASE y = elu
    BY <1>2, <2>1
  <2>2. CASE y # elu
    BY <1>2, <1>6, <2>2, ContenuFile
  <2> QED
    BY <2>1, <2>2
<1>8. \A g \in Fids \ {f}, y \in Procs : y \in Range(queue[g]) =>
         s[y] = suite[y] /\ (fileValue[y] \in Messages => v[y] \in Messages)
  BY <1>2, <1>5
<1>9. AppelFile(f, x, q, s, v)
  BY <1>1, <1>2, <1>4, <1>6, <1>7, <1>8 DEF AppelFile
<1> QED
  BY <1>1, <1>4, <1>9, PasFile

\* The kernel does not change.
LEMMA DevenueInchangee ==
    ASSUME InvFiles, panique = "non", NEW f \in Fids
    PROVE  /\ Devenue(Courant, Courant, f, queue[f], suite)
           /\ UNCHANGED noyauVars => Devient(Courant)
BY EntreeFiles DEF Devenue, Devient, Courant, noyauVars

LEMMA PsendDeposePas ==
    ASSUME InvFiles, NEW f \in Fids, NEW m \in Messages, PsendDepose(f, m)
    PROVE  InvFiles'
<1> DEFINE x == Courant
           st == [operationStatus EXCEPT ![elu] = Vrai]
           v == [fileValue EXCEPT ![elu] = m]
           q == queue[f]
<1>1. /\ panique = "non" /\ FidValide(f) /\ HorsFiles /\ UNCHANGED maxMsg
      /\ ~(queueMsg[f] = <<>> /\ queue[f] # <<>>) /\ Len(queueMsg[f]) # maxMsg[f]
      /\ Devient([Courant EXCEPT !.panique = IF Len(queueMsg[f]) < maxMsg[f] THEN @ ELSE "add_msg"])
      /\ Ecrit(st, v) /\ queueMsg' = [queueMsg EXCEPT ![f] = AddMsg(@, m)]
  BY DEF PsendDepose, EntrePsend, EnModeUser
<1>2. /\ x \in Noyaux /\ x.panique = "non" /\ Regle(x)
      /\ ChampsFiles /\ elu \in Procs /\ operationStatus \in [Procs -> Statuts]
  BY <1>1, EntreeFiles
<1>3. /\ q \in Seq(Procs) /\ Triee(q, prio) /\ Range(q) \subseteq Procs
      /\ Len(queueMsg[f]) < maxMsg[f] /\ Len(queueMsg[f]) \in Nat /\ maxMsg[f] \in Nat
  BY <1>1, ContenuFile
<1>4. Devient(x)
  <2>1. [x EXCEPT !.panique = IF Len(queueMsg[f]) < maxMsg[f] THEN @ ELSE "add_msg"] = x
    BY <1>2, <1>3 DEF Courant
  <2> QED
    BY <1>1, <2>1
<1>5. Range(q) = {}
  <2> SUFFICES ASSUME NEW y \in Range(q) PROVE FALSE
    OBVIOUS
  <2>1. queueMsg[f] = <<>>
    <3>1. y \in Range(queue[f]) /\ Len(queueMsg[f]) # maxMsg[f]
      BY <1>1
    <3> HIDE DEF q
    <3> QED
      BY <3>1, ContenuFile
  <2>2. q = <<>>
    BY <1>1, <2>1
  <2> QED
    BY <2>2 DEF Range
<1>6. Devenue(x, Courant, f, q, suite)
  BY <1>1, DevenueInchangee
<1>7. st \in [Procs -> Statuts] /\ v \in [Procs -> Messages \cup {Rien}]
  BY <1>2, EcritesType
<1>8. \A y \in Procs : fileValue[y] \in Messages => v[y] \in Messages
  BY <1>2 DEF ChampsFiles
<1> HIDE DEF x, st, v, q
<1>9. /\ queueMsg' \in [Fids -> Seq(Messages)]
      /\ \A g \in Fids \ {f} : queueMsg'[g] = queueMsg[g]
      /\ Len(queueMsg'[f]) <= maxMsg[f]
  <2>1. queueMsg \in [Fids -> Seq(Messages)]
    BY <1>2 DEF ChampsFiles
  <2>2. /\ AddMsg(queueMsg[f], m) \in Seq(Messages)
        /\ Len(AddMsg(queueMsg[f], m)) = Len(queueMsg[f]) + 1
    BY <2>1, MessagesRanges
  <2> QED
    BY <1>1, <1>3, <2>1, <2>2
<1>10. AppelFile(f, x, q, suite, v)
  BY <1>1, <1>2, <1>3, <1>4, <1>5, <1>6, <1>7, <1>8, <1>9 DEF AppelFile
<1> QED
  BY <1>1, <1>7, <1>10, PasFile

LEMMA PreceivePrendPas ==
    ASSUME InvFiles, NEW f \in Fids, PreceivePrend(f)
    PROVE  InvFiles'
<1> DEFINE x == Courant
           st == [operationStatus EXCEPT ![elu] = Vrai]
           v == [fileValue EXCEPT ![elu] = Rien]
           q == queue[f]
<1>1. /\ panique = "non" /\ FidValide(f) /\ HorsFiles /\ UNCHANGED maxMsg
      /\ queueMsg[f] # <<>> /\ queue[f] = <<>> /\ UNCHANGED noyauVars
      /\ Ecrit(st, v) /\ queueMsg' = [queueMsg EXCEPT ![f] = RetireMsg(@)]
  BY DEF PreceivePrend, EntrePreceive, EnModeUser
<1>2. /\ x \in Noyaux /\ x.panique = "non" /\ Regle(x)
      /\ ChampsFiles /\ elu \in Procs /\ operationStatus \in [Procs -> Statuts]
      /\ x.elu = elu /\ x.queue = queue
  BY <1>1, EntreeFiles
<1>3. /\ q \in Seq(Procs) /\ Triee(q, prio)
      /\ Len(queueMsg[f]) <= maxMsg[f] /\ Len(queueMsg[f]) \in Nat /\ maxMsg[f] \in Nat
  BY <1>1, ContenuFile
<1>4. Devient(x) /\ Devenue(x, Courant, f, q, suite)
  BY <1>1, DevenueInchangee
<1>5. Range(q) = {}
  BY <1>1 DEF Range
<1>6. st \in [Procs -> Statuts] /\ v \in [Procs -> Messages \cup {Rien}]
  BY <1>2, EcritesType, FilesAssumption
<1> HIDE DEF x
<1>7. \A g \in Fids \ {f}, y \in Procs : y \in Range(queue[g]) =>
         suite[y] = suite[y] /\ (fileValue[y] \in Messages => v[y] \in Messages)
  <2>1. \A g \in Fids : elu \notin Range(queue[g])
    BY <1>2, EluHorsFiles
  <2>2. \A y \in Procs \ {elu} : v[y] = fileValue[y]
    BY <1>2 DEF ChampsFiles
  <2> HIDE DEF v
  <2> QED
    BY <2>1, <2>2
<1> HIDE DEF st, v, q
<1>8. /\ queueMsg' \in [Fids -> Seq(Messages)]
      /\ \A g \in Fids \ {f} : queueMsg'[g] = queueMsg[g]
      /\ Len(queueMsg'[f]) <= maxMsg[f]
  <2>1. queueMsg \in [Fids -> Seq(Messages)]
    BY <1>2 DEF ChampsFiles
  <2>2. /\ RetireMsg(queueMsg[f]) \in Seq(Messages)
        /\ Len(RetireMsg(queueMsg[f])) = Len(queueMsg[f]) - 1
    BY <1>1, <2>1, MessagesRanges
  <2> QED
    BY <1>1, <1>3, <2>1, <2>2
<1>9. AppelFile(f, x, q, suite, v)
  BY <1>1, <1>2, <1>3, <1>4, <1>5, <1>6, <1>7, <1>8 DEF AppelFile
<1> QED
  BY <1>1, <1>6, <1>9, PasFile

LEMMA PreceiveCompletePas ==
    ASSUME InvFiles, NEW f \in Fids, PreceiveComplete(f)
    PROVE  InvFiles'
<1> DEFINE x == Debloque(f)
           p == Retire(f)
           st == [operationStatus EXCEPT ![elu] = Vrai, ![p] = Vrai]
           v == [fileValue EXCEPT ![elu] = Rien]
           q == QueueOut(queue[f])
           l == RetireMsg(queueMsg[f])
<1>1. /\ panique = "non" /\ FidValide(f) /\ HorsFiles /\ UNCHANGED maxMsg
      /\ queueMsg[f] # <<>> /\ queue[f] # <<>>
      /\ Devient(IF Len(l) < maxMsg[f] THEN x ELSE [Courant EXCEPT !.panique = "add_msg"])
      /\ Ecrit(st, v) /\ queueMsg' = [queueMsg EXCEPT ![f] = AddMsg(RetireMsg(@), fileValue[p])]
  BY DEF PreceiveComplete, EntrePreceive, EnModeUser
<1>2. /\ x \in Noyaux /\ x.panique = "non" /\ Regle(x) /\ Devenue(x, Courant, f, q, suite)
      /\ p \in Range(queue[f]) /\ p \in Procs
      /\ q \in Seq(Procs) /\ Triee(q, prio) /\ Range(q) \subseteq Range(queue[f])
  BY <1>1, DebloqueFile
<1>3. /\ ChampsFiles /\ elu \in Procs /\ operationStatus \in [Procs -> Statuts]
      /\ Courant \in Noyaux /\ Regle(Courant) /\ Courant.elu = elu /\ Courant.queue = queue
  BY <1>1, EntreeFiles
<1> HIDE DEF x, p, q
<1>4. st \in [Procs -> Statuts] /\ v \in [Procs -> Messages \cup {Rien}]
  BY <1>2, <1>3, EcritesType, FilesAssumption
<1>5. \A y \in Procs \ {elu} : v[y] = fileValue[y]
  BY <1>3 DEF ChampsFiles
<1>6. \A g \in Fids : elu \notin Range(queue[g])
  BY <1>3, EluHorsFiles
<1> HIDE DEF st, v
<1>7. \A y \in Range(queue[f]) : /\ suite[y].appel = "psend" /\ fileValue[y] \in Messages
                                 /\ Len(queueMsg[f]) = maxMsg[f]
  BY <1>1, ContenuFile
<1>8. /\ l \in Seq(Messages) /\ Len(l) = maxMsg[f] - 1 /\ maxMsg[f] \in Nat
      /\ AddMsg(l, fileValue[p]) \in Seq(Messages)
      /\ Len(AddMsg(l, fileValue[p])) = maxMsg[f]
  <2>1. /\ queueMsg[f] \in Seq(Messages) /\ Len(queueMsg[f]) = maxMsg[f] /\ maxMsg[f] \in Nat
        /\ fileValue[p] \in Messages
    BY <1>2, <1>7, ContenuFile
  <2>2. l \in Seq(Messages) /\ Len(l) = Len(queueMsg[f]) - 1
    BY <1>1, <2>1, MessagesRanges
  <2> HIDE DEF l
  <2>3. AddMsg(l, fileValue[p]) \in Seq(Messages) /\ Len(AddMsg(l, fileValue[p])) = Len(l) + 1
    BY <2>1, <2>2, MessagesRanges
  <2> QED
    BY <2>1, <2>2, <2>3
<1>9. Devient(x)
  <2>1. Len(l) < maxMsg[f]
    BY <1>8
  <2> QED
    BY <1>1, <2>1
<1>10. /\ queueMsg' \in [Fids -> Seq(Messages)]
       /\ \A g \in Fids \ {f} : queueMsg'[g] = queueMsg[g]
       /\ Len(queueMsg'[f]) = maxMsg[f] /\ Len(queueMsg'[f]) <= maxMsg[f]
  <2>1. queueMsg \in [Fids -> Seq(Messages)]
    BY <1>3 DEF ChampsFiles
  <2> QED
    BY <1>1, <1>8, <2>1
<1>11. \A y \in Procs : y \in Range(q) =>
         suite[y].appel = "psend" /\ Len(queueMsg'[f]) = maxMsg[f] /\ v[y] \in Messages
  BY <1>2, <1>5, <1>6, <1>7, <1>10
<1>12. \A g \in Fids \ {f}, y \in Procs : y \in Range(queue[g]) =>
         suite[y] = suite[y] /\ (fileValue[y] \in Messages => v[y] \in Messages)
  BY <1>5, <1>6
<1>13. AppelFile(f, x, q, suite, v)
  BY <1>1, <1>2, <1>4, <1>9, <1>10, <1>11, <1>12 DEF AppelFile
<1> QED
  BY <1>1, <1>4, <1>13, PasFile

LEMMA RepriseFilePas ==
    ASSUME InvFiles, RepriseFile
    PROVE  InvFiles'
<1>1. /\ panique = "non" /\ Devient([Courant EXCEPT !.suite[elu] = User])
      /\ UNCHANGED <<ticks, cptTicks, semaphoreVars, filesVars>>
  BY DEF RepriseFile
<1>2. /\ Courant \in Noyaux /\ Regle(Courant) /\ Courant.panique = "non"
      /\ Courant.elu = elu /\ elu \in Procs /\ TypeOK
  BY <1>1, EntreeFiles DEF InvFiles, InvSemaphore, TypeSemaphore
<1>3. TypeOK' /\ Regle(Courant)' /\ JamaisEnfileDeuxFois'
  <2> DEFINE x == [Courant EXCEPT !.suite[elu] = User]
  <2>1. User \in Suites /\ User.appel = "user"
    BY UserType DEF User
  <2>2. x \in Noyaux /\ Regle(x) /\ x.panique = "non"
    BY <1>2, <2>1, SuiteRegle
  <2>3. Devient(x)
    BY <1>1
  <2> HIDE DEF x
  <2>4. Fiable(x)
    BY <2>2 DEF Fiable
  <2> QED
    BY <1>1, <1>2, <2>2, <2>3, <2>4, DevientInvariant
<1>4. InvSemaphore'
  BY <1>1, <1>3 DEF InvFiles, InvSemaphore, TypeSemaphore, semaphoreVars
<1>5. Menage
  BY <1>1, <1>2, MenageReprise
<1>6. Separes(Courant', maxMsg, queueMsg, fileValue)
  BY <1>5 DEF InvFiles, Menage, Epargne, Separes
<1>7. ChampsFiles'
  BY <1>1 DEF InvFiles, ChampsFiles, filesVars
<1> QED
  BY <1>1, <1>4, <1>5, <1>6, <1>7 DEF InvFiles, Menage, filesVars

LEMMA FilesStep ==
    ASSUME InvFiles, FilesNext
    PROVE  InvFiles'
<1>1. ASSUME NEW f \in Fids, NEW n \in 1 .. MsgMax, Pcreate(f, n) PROVE InvFiles'
  BY <1>1, PcreatePas
<1>2. ASSUME NEW f \in Fids, Pdelete(f) PROVE InvFiles'
  <2>1. /\ panique = "non" /\ Vidange(f) /\ maxMsg' = [maxMsg EXCEPT ![f] = 0]
        /\ maxMsg \in [Fids -> 0 .. MsgMax] /\ 0 \in 0 .. MsgMax
    BY <1>2, FilesAssumption DEF Pdelete, EnModeUser, InvFiles, ChampsFiles
  <2>2. maxMsg' \in [Fids -> 0 .. MsgMax] /\ \A g \in Fids \ {f} : maxMsg'[g] = maxMsg[g]
    BY <2>1
  <2> QED
    BY <2>1, <2>2, VidangePas
<1>3. ASSUME NEW f \in Fids, Preset(f) PROVE InvFiles'
  <2>1. /\ panique = "non" /\ Vidange(f) /\ maxMsg' = maxMsg
        /\ maxMsg \in [Fids -> 0 .. MsgMax]
    BY <1>3 DEF Preset, EnModeUser, InvFiles, ChampsFiles
  <2> QED
    BY <2>1, VidangePas
<1>4. ASSUME NEW f \in Fids, NEW m \in Messages, Psend(f, m) PROVE InvFiles'
  BY <1>4, PsendRemetPas, PsendBloquePas, PsendDeposePas DEF Psend
<1>5. ASSUME NEW f \in Fids, Preceive(f) PROVE InvFiles'
  BY <1>5, PreceiveBloquePas, PreceivePrendPas, PreceiveCompletePas DEF Preceive
<1>6. ASSUME RepriseFile PROVE InvFiles'
  BY <1>6, RepriseFilePas
<1> QED
  BY <1>1, <1>2, <1>3, <1>4, <1>5, <1>6 DEF FilesNext

LEMMA FilesInitiales == FilesInit => InvFiles
<1> SUFFICES ASSUME FilesInit PROVE InvFiles
  OBVIOUS
<1>1. InvSemaphore /\ NoyauInit
  BY InitSemaphore DEF FilesInit, SemaphoreInit, Init
<1>2. ChampsFiles
  BY FilesAssumption DEF FilesInit, ChampsFiles
<1>3. panique = "non" /\ \A f \in Fids : queue[f] = <<>>
  BY <1>1, ConstantesQueues, HorsFids DEF NoyauInit
<1>4. Separes(Courant, maxMsg, queueMsg, fileValue)
  BY <1>3, CourantChamps DEF FilesInit, Separes, Triee, Range
<1> QED
  BY <1>1, <1>2, <1>3, <1>4 DEF InvFiles

LEMMA FilesPas ==
    InvFiles /\ [FilesNext \/ HorsFilesNext]_varsFiles => InvFiles'
<1> SUFFICES ASSUME InvFiles, [FilesNext \/ HorsFilesNext]_varsFiles
             PROVE  InvFiles'
  OBVIOUS
<1>1. CASE UNCHANGED varsFiles
  <2>1. InvSemaphore'
    BY <1>1, SemaphorePas DEF InvFiles, varsFiles
  <2>2. Courant' = Courant /\ panique' = panique /\ UNCHANGED filesVars
    BY <1>1 DEF varsFiles, varsSemaphore, vars, noyauVars, Courant
  <2> QED
    BY <2>1, <2>2 DEF InvFiles, ChampsFiles, filesVars
<1> QED
  BY <1>1, FilesStep, HorsFilesStep

\* The inductive invariant of the kernel with its semaphores and its files.
THEOREM InvariantFiles == SpecFiles => []InvFiles
BY FilesInitiales, FilesPas, PTL DEF SpecFiles

\* The files and the value each process has stay in their ranges, whatever the
\* programs do and whoever is killed.
THEOREM TypeFilesCorrecte == SpecFiles => []TypeFiles
<1>1. InvFiles => TypeFiles
  BY DEF InvFiles, InvSemaphore, ChampsFiles, TypeFiles
<1> QED
  BY <1>1, InvariantFiles, PTL

\* The calls of files.c move processes between their queues and the ready list
\* and keep the discipline that the asserts of queue.h rely on.
THEOREM DisciplineFiles == SpecFiles => [](Discipline /\ JamaisEnfileDeuxFois)
<1>1. InvFiles => Discipline /\ JamaisEnfileDeuxFois
  BY RegleDiscipline DEF InvFiles, InvSemaphore
<1> QED
  BY <1>1, InvariantFiles, PTL

LEMMA SeparesAttentes == InvFiles => AttentesSeparees
<1> SUFFICES ASSUME InvFiles, NEW f \in Fids
             PROVE  /\ Len(queueMsg[f]) <= maxMsg[f]
                    /\ Bloques(f, "preceive") # {} => maxMsg[f] > 0 /\ queueMsg[f] = <<>>
                    /\ Bloques(f, "psend") # {} =>
                          maxMsg[f] > 0 /\ Len(queueMsg[f]) = maxMsg[f]
                    /\ Membres(queue[f]) = Bloques(f, "preceive") \cup Bloques(f, "psend")
                    /\ Triee(queue[f], prio)
  BY DEF AttentesSeparees, InvFiles
<1> QED
  BY ContenuFile DEF Bloques, Membres

\* The queue of a file never mixes the processes that wait for a message with
\* those that wait for a place, and the assert of add_msg() holds: psend and
\* preceive may take the first of the queue by looking at the messages alone.
THEOREM AttentesSepareesCorrecte == SpecFiles => []AttentesSeparees
BY SeparesAttentes, InvariantFiles, PTL

\* A queue without repetition has as many processes as it is long.
LEMMA TailleDesMembres ==
    ASSUME NEW S, NEW q \in Seq(S), IsInjective(q)
    PROVE  Cardinality(Range(q)) = Len(q)
<1> DEFINE n == Len(q)
<1>1. n \in Nat /\ q \in [1 .. n -> S] /\ DOMAIN q = 1 .. n
  BY LenProperties
<1>2. q \in [1 .. n -> Range(q)] /\ \A x \in Range(q) : \E i \in 1 .. n : q[i] = x
  BY <1>1 DEF Range
<1>3. q \in Bijection(1 .. n, Range(q))
  <2> HIDE DEF n
  <2> QED
    BY <1>2 DEF Bijection, Injection, Surjection
<1> HIDE DEF n
<1>4. ExistsBijection(1 .. n, Range(q))
  BY <1>3 DEF ExistsBijection
<1>5. Cardinality(Range(q)) = n
  BY <1>1, <1>4, FS_CountingElements
<1> QED
  BY <1>5 DEF n

LEMMA PcountDesMembres == InvFiles => PcountJuste
<1> SUFFICES ASSUME InvFiles, NEW f \in Fids, FidValide(f)
             PROVE  Pcount(f) = Len(queueMsg[f]) + Cardinality(Bloques(f, "psend"))
                                                 - Cardinality(Bloques(f, "preceive"))
  BY DEF PcountJuste
<1> DEFINE q == queue[f]
           m == queueMsg[f]
           e == Bloques(f, "psend")
           r == Bloques(f, "preceive")
<1>1. q \in Seq(Procs) /\ Len(m) \in Nat /\ (m = <<>> <=> Len(m) = 0) /\ maxMsg[f] > 0
  BY ContenuFile DEF FidValide
<1>2. IsInjective(q)
  BY ConstantesQueues, CourantChamps DEF InvFiles, InvSemaphore, Regle, Chainage
<1>3. Cardinality(Range(q)) = Len(q) /\ Len(q) \in Nat
  BY <1>1, <1>2, TailleDesMembres, LenProperties
<1>4. Cardinality({}) = 0
  BY FS_EmptySet
<1>5. CASE m = <<>>
  <2>1. e = {} /\ r = Range(q)
    <3>1. \A p \in Range(q) : suite[p].appel = "preceive"
      BY <1>1, <1>5, ContenuFile
    <3> QED
      BY <3>1 DEF Bloques, Membres
  <2>2. Pcount(f) = -Len(q) /\ Len(m) = 0
    BY <1>1, <1>5 DEF Pcount
  <2> HIDE DEF q, m, e, r
  <2>3. Cardinality(e) = 0 /\ Cardinality(r) = Len(q)
    BY <1>3, <1>4, <2>1
  <2> QED
    BY <1>3, <2>2, <2>3 DEF m, e, r
<1>6. CASE m # <<>>
  <2>1. r = {} /\ e = Range(q)
    <3>1. \A p \in Range(q) : suite[p].appel = "psend"
      BY <1>6, ContenuFile
    <3> QED
      BY <3>1 DEF Bloques, Membres
  <2>2. Pcount(f) = Len(m) + Len(q)
    BY <1>6 DEF Pcount
  <2> HIDE DEF q, m, e, r
  <2>3. Cardinality(r) = 0 /\ Cardinality(e) = Len(q)
    BY <1>3, <1>4, <2>1
  <2> QED
    BY <1>1, <1>3, <2>2, <2>3 DEF m, e, r
<1> QED
  BY <1>5, <1>6

\* pcount() answers minus the number of processes that wait for a message, or
\* the number of messages and of processes that wait for a place.
THEOREM PcountJusteCorrect == SpecFiles => []PcountJuste
BY PcountDesMembres, InvariantFiles, PTL

-----------------------------------------------------------------------------
\* The order of the kernel under the calls of files.c and semaphore.c.

LEMMA AvanceInchangee ==
    ASSUME UNCHANGED <<elu, etat, prio, reveil, queue>>, Ordre(Courant)
    PROVE  Avance
<1>1. Ordre(Courant)' /\ Dort(Courant', Courant)
  BY DEF Ordre, Dort, Prets, Courant
<1>2. Depassement
  BY DEF Depassement, EluPrioritaire
<1> QED
  BY <1>1, <1>2 DEF Avance

LEMMA AvanceDevient ==
    ASSUME InvFiles, Ordre(Courant), NEW x, Devient(x), Rang(x, Courant)
    PROVE  Avance
BY DevientRang DEF InvFiles, InvSemaphore, TypeSemaphore, TypeOK

\* psend and preceive give the processor to the process they wake when it is
\* stronger, and preset and pdelete to one of those they wake.
LEMMA AvanceFiles ==
    ASSUME InvFiles, Ordre(Courant), FilesNext
    PROVE  Avance
<1>1. ASSUME UNCHANGED noyauVars PROVE Avance
  BY <1>1, AvanceInchangee DEF noyauVars
<1>2. ASSUME NEW f \in Fids, NEW n \in 1 .. MsgMax, Pcreate(f, n) PROVE Avance
  BY <1>1, <1>2 DEF Pcreate, varsSemaphore, vars
<1>3. ASSUME NEW f \in Fids, Vidange(f), EnModeUser PROVE Avance
  <2> DEFINE K == Courant
             w == Reverse(queue[f])
             x == Preempte(ActiveTous([K EXCEPT !.queue[f] = <<>>], w), w)
  <2>1. K \in Noyaux /\ Regle(K) /\ K.panique = "non" /\ K.queue = queue /\ Ordre(K)
    BY <1>3, EntreeFiles DEF EnModeUser
  <2>2. Devient(x)
    BY <1>3 DEF Vidange
  <2> HIDE DEF K
  <2>3. LET u == Reverse(K.queue[f])
            y == Preempte(ActiveTous([K EXCEPT !.queue[f] = <<>>], u), u)
        IN  Ordre(K) => Rang(y, K)
    BY <2>1, VidangeResultat
  <2>4. Rang(x, K)
    BY <2>1, <2>3
  <2> HIDE DEF x
  <2> QED
    BY <2>2, <2>4, AvanceDevient DEF K
<1>4. ASSUME NEW f \in Fids, queue[f] # <<>>, panique = "non", Devient(Debloque(f))
      PROVE  Avance
  BY <1>4, DebloqueFile, AvanceDevient
<1>5. ASSUME NEW f \in Fids, NEW a \in {"psend", "preceive"}, EnModeUser,
             Devient(Bloque(f, a))
      PROVE  Avance
  BY <1>5, BloqueFile, AvanceDevient
<1>6. ASSUME NEW f \in Fids, NEW m \in Messages, PsendDepose(f, m) PROVE Avance
  <2> DEFINE k == [Courant EXCEPT !.panique =
                       IF Len(queueMsg[f]) < maxMsg[f] THEN @ ELSE "add_msg"]
  <2>1. Devient(k) /\ k.elu = elu /\ k.etat = etat /\ k.prio = prio
        /\ k.reveil = reveil /\ k.queue = queue
    BY <1>6 DEF PsendDepose, Courant
  <2> HIDE DEF k
  <2>2. UNCHANGED <<elu, etat, prio, reveil, queue>>
    BY <2>1 DEF Devient
  <2> QED
    BY <2>2, AvanceInchangee
<1>7. ASSUME NEW f \in Fids, NEW m \in Messages, Psend(f, m) PROVE Avance
  <2>1. CASE PsendRemet(f, m)
    BY <1>4, <2>1 DEF PsendRemet, EntrePsend, EnModeUser
  <2>2. CASE PsendBloque(f, m)
    BY <1>5, <2>2 DEF PsendBloque, EntrePsend
  <2> QED
    BY <1>6, <1>7, <2>1, <2>2 DEF Psend
<1>8. ASSUME NEW f \in Fids, Preceive(f) PROVE Avance
  <2>1. CASE PreceiveBloque(f)
    BY <1>5, <2>1 DEF PreceiveBloque, EntrePreceive
  <2>2. CASE PreceivePrend(f)
    BY <1>1, <2>2 DEF PreceivePrend
  <2>3. CASE PreceiveComplete(f)
    <3>1. CASE Len(RetireMsg(queueMsg[f])) < maxMsg[f]
      BY <1>4, <2>3, <3>1 DEF PreceiveComplete, EntrePreceive, EnModeUser
    <3>2. CASE ~ (Len(RetireMsg(queueMsg[f])) < maxMsg[f])
      <4> DEFINE k == [Courant EXCEPT !.panique = "add_msg"]
      <4>1. Devient(k) /\ k.panique = "add_msg"
        BY <2>3, <3>2 DEF PreceiveComplete, Courant
      <4> HIDE DEF k
      <4>2. UNCHANGED <<elu, etat, prio, reveil, queue>>
        BY <4>1 DEF Devient
      <4> QED
        BY <4>2, AvanceInchangee
    <3> QED
      BY <3>1, <3>2
  <2> QED
    BY <1>8, <2>1, <2>2, <2>3 DEF Preceive
<1>9. ASSUME RepriseFile PROVE Avance
  <2> DEFINE k == [Courant EXCEPT !.suite[elu] = User]
  <2>1. Devient(k) /\ k.elu = elu /\ k.etat = etat /\ k.prio = prio
        /\ k.reveil = reveil /\ k.queue = queue
    BY <1>9 DEF RepriseFile, Courant
  <2> HIDE DEF k
  <2>2. UNCHANGED <<elu, etat, prio, reveil, queue>>
    BY <2>1 DEF Devient
  <2> QED
    BY <2>2, AvanceInchangee
<1> QED
  BY <1>2, <1>3, <1>7, <1>8, <1>9 DEF FilesNext, Pdelete, Preset

\* Programs that wait for messages only are programs.
LEMMA MessagesPas ==
    [NextMessages]_varsFiles => [FilesNext \/ HorsFilesNext]_varsFiles
BY DEF NextMessages, HorsFilesNext, AutresNext, Next, ProcessusNext, Ecrit, HorsFiles

LEMMA MessagesStep ==
    InvFiles /\ Ordre(Courant) /\ [NextMessages]_varsFiles =>
        Ordre(Courant)' /\ Depassement
<1> SUFFICES ASSUME InvFiles, Ordre(Courant), [NextMessages]_varsFiles
             PROVE  Ordre(Courant)' /\ Depassement
  OBVIOUS
<1>1. TypeOK /\ TypeNoyau /\ Regle(Courant)
  BY DEF InvFiles, InvSemaphore, TypeSemaphore, TypeOK
<1>2. CASE FilesNext
  BY <1>2, AvanceFiles DEF Avance
<1>3. CASE ProcessusNext
  BY <1>1, <1>3, OrdreProcessus DEF Avance
<1>4. CASE Tic
  BY <1>1, <1>4, OrdreTic
<1>5. CASE UNCHANGED varsFiles
  BY <1>5, AvanceInchangee DEF varsFiles, varsSemaphore, vars, noyauVars, Avance
<1> QED
  BY <1>2, <1>3, <1>4, <1>5 DEF NextMessages, ProcessusNext

\* With programs that wait for messages only, no call leaves a process ready
\* that is stronger than the elected one, but the kill that wakes the victim's
\* father: psend, preceive, preset and pdelete test the processes they wake.
THEOREM PreemptionMessages == SpecMessages => [](FilesTriees) /\ Preemption
<1>1. FilesInit => InvFiles /\ Ordre(Courant)
  <2>1. FilesInit => InvFiles
    BY FilesInitiales
  <2>2. FilesInit => Ordre(Courant)
    BY OrdreInit DEF FilesInit, SemaphoreInit, InvOrdre
  <2> QED
    BY <2>1, <2>2
<1>2. InvFiles /\ Ordre(Courant) /\ [NextMessages]_varsFiles =>
        (InvFiles /\ Ordre(Courant))'
  BY FilesPas, MessagesPas, MessagesStep
<1>3. InvFiles /\ Ordre(Courant) /\ [NextMessages]_varsFiles => [Depassement]_noyauVars
  BY MessagesStep
<1>4. Ordre(Courant) => FilesTriees
  BY CourantOrdre
<1>5. SpecMessages => []FilesTriees /\ [][Depassement]_noyauVars
  BY <1>1, <1>2, <1>3, <1>4, PTL DEF SpecMessages
<1> QED
  BY <1>5 DEF Preemption, Depassement

\* And they keep all that the files keep with any programs.
THEOREM InvariantMessages == SpecMessages => SpecFiles
BY MessagesPas, PTL DEF SpecMessages, SpecFiles

-----------------------------------------------------------------------------
\* The calls implement the abstract file.

Messagers == {"psend", "preceive"}
FileDans(Q, p) == CHOOSE g \in Fids : p \in Membres(Q[g])

\* How far a call is, from the state e of the process, the call a, its file f,
\* and the fields st and v it answers with.
Etape(e, a, f, st, v) ==
    IF a \notin Messagers THEN FileIdeale!Aucun
    ELSE IF e = "ATTEND_FILE"
         THEN IF a = "psend" THEN FileIdeale!Emission(f, v) ELSE FileIdeale!Reception(f)
    ELSE IF e \notin Prets THEN FileIdeale!Aucun
    ELSE IF st = Faux THEN FileIdeale!Echoue
    ELSE IF a = "psend" THEN FileIdeale!Accepte ELSE FileIdeale!Livre(v)

LEMMA AppelParValeur ==
    ASSUME NEW p \in Procs
    PROVE  /\ AppelDe(p) = Etape(etat[p], suite[p].appel, FileDans(queue, p),
                                 operationStatus[p], fileValue[p])
           /\ AppelDe(p)' = Etape(etat'[p], suite'[p].appel, FileDans(queue', p),
                                  operationStatus'[p], fileValue'[p])
<1> DEFINE Cas(e, c, f, st, v) ==
        CASE e = "ATTEND_FILE" /\ c = "psend" ->
                [etape |-> "emission", file |-> f, message |-> v]
          [] e = "ATTEND_FILE" /\ c = "preceive" -> [etape |-> "reception", file |-> f]
          [] (e \in {"ACTIVABLE", "ELU"} /\ c \in {"psend", "preceive"}) /\ ~(st # Faux) ->
                [etape |-> "echoue"]
          [] (e \in {"ACTIVABLE", "ELU"} /\ c \in {"psend", "preceive"}) /\ st # Faux
                /\ c = "psend" -> [etape |-> "accepte"]
          [] (e \in {"ACTIVABLE", "ELU"} /\ c \in {"psend", "preceive"}) /\ st # Faux
                /\ c = "preceive" -> [etape |-> "livre", message |-> v]
          [] OTHER -> [etape |-> "aucun"]
<1>1. AppelDe(p) = Cas(etat[p], suite[p].appel, FileDans(queue, p),
                       operationStatus[p], fileValue[p])
  BY DEF AppelDe, FileDans
<1>2. AppelDe(p)' = Cas(etat'[p], suite'[p].appel, FileDans(queue', p),
                        operationStatus'[p], fileValue'[p])
  BY DEF AppelDe, FileDans
<1>3. ASSUME NEW e, NEW c, NEW f, NEW st, NEW v
      PROVE  Cas(e, c, f, st, v) = Etape(e, c, f, st, v)
  <2>1. CASE c \notin Messagers
    BY <2>1 DEF Etape, Messagers, FileIdeale!Aucun
  <2>2. CASE c = "psend"
    BY <2>2 DEF Etape, Messagers, Prets, FileIdeale!Aucun, FileIdeale!Emission,
                FileIdeale!Echoue, FileIdeale!Accepte
  <2>3. CASE c = "preceive"
    BY <2>3 DEF Etape, Messagers, Prets, FileIdeale!Aucun, FileIdeale!Reception,
                FileIdeale!Echoue, FileIdeale!Livre
  <2> QED
    BY <2>1, <2>2, <2>3 DEF Messagers
<1> QED
  BY <1>1, <1>2, <1>3

\* The file of a process that waits.
LEMMA FileDesMembres ==
    ASSUME NEW k \in Noyaux, Regle(k), NEW p \in Procs
    PROVE  /\ \A f \in Fids : p \in Range(k.queue[f]) =>
                  k.etat[p] = "ATTEND_FILE" /\ FileDans(k.queue, p) = f
           /\ k.etat[p] = "ATTEND_FILE" /\ Fids # {} =>
                  /\ FileDans(k.queue, p) \in Fids
                  /\ p \in Range(k.queue[FileDans(k.queue, p)])
<1>1. Chainage(k.queue, k.etat, {}) /\ Fids \subseteq Queues
  BY ConstantesQueues DEF Regle
<1>2. ASSUME NEW f \in Fids, p \in Range(k.queue[f])
      PROVE  k.etat[p] = "ATTEND_FILE" /\ FileDans(k.queue, p) = f
  <2>1. k.etat[p] = "ATTEND_FILE"
    BY <1>1, <1>2, AttendFile
  <2>2. \A g \in Fids : p \in Range(k.queue[g]) => g = f
    BY <1>1, <1>2 DEF Chainage
  <2> QED
    BY <1>2, <2>1, <2>2 DEF FileDans, Membres
<1>3. ASSUME k.etat[p] = "ATTEND_FILE", Fids # {}
      PROVE  \E f \in Fids : p \in Range(k.queue[f])
  <2>1. QueuesDe(k.etat[p]) = Fids
    BY <1>3 DEF QueuesDe
  <2>2. PICK f \in Queues : p \in Range(k.queue[f])
    BY <1>1, <1>3, <2>1 DEF Chainage
  <2>3. f \in Fids
    BY <1>1, <2>1, <2>2 DEF Chainage
  <2> QED
    BY <2>2, <2>3
<1> QED
  BY <1>2, <1>3 DEF FileDans, Membres

\* The step leaves p where it is in its call.
Intouche(p) ==
    \/ suite[p].appel \notin Messagers /\ suite'[p].appel \notin Messagers
    \/ /\ Fige(Courant', Courant, p)
       /\ \A g \in Fids : p \in Range(queue'[g]) => p \in Range(queue[g])
       /\ \/ suite[p].appel \notin Messagers
          \/ etat'[p] = "LIBRE"
          \/ operationStatus'[p] = operationStatus[p] /\ fileValue'[p] = fileValue[p]

LEMMA AppelIntouche ==
    ASSUME TypeNoyau, Regle(Courant), TypeNoyau', Regle(Courant'),
           NEW p \in Procs, Intouche(p)
    PROVE  AppelDe(p)' = AppelDe(p)
<1> DEFINE f1 == FileDans(queue, p)
           f2 == FileDans(queue', p)
<1>1. /\ AppelDe(p) = Etape(etat[p], suite[p].appel, f1, operationStatus[p], fileValue[p])
      /\ AppelDe(p)' = Etape(etat'[p], suite'[p].appel, f2, operationStatus'[p], fileValue'[p])
  BY AppelParValeur
<1>2. CASE suite[p].appel \notin Messagers /\ suite'[p].appel \notin Messagers
  BY <1>1, <1>2 DEF Etape
<1>3. CASE /\ Fige(Courant', Courant, p)
           /\ \A g \in Fids : p \in Range(queue'[g]) => p \in Range(queue[g])
           /\ suite[p].appel \in Messagers
           /\ \/ etat'[p] = "LIBRE"
              \/ operationStatus'[p] = operationStatus[p] /\ fileValue'[p] = fileValue[p]
  <2>1. /\ Courant \in Noyaux /\ Courant.etat = etat /\ Courant.queue = queue
        /\ Courant.suite = suite
    BY CourantType, CourantChamps
  <2>2. /\ Courant' \in Noyaux /\ Courant'.etat = etat' /\ Courant'.queue = queue'
        /\ Courant'.suite = suite'
    BY DEF Courant, TypeNoyau, Noyaux
  <2>3. \/ /\ suite'[p].appel \notin Messagers
           /\ Morte(etat[p])
        \/ /\ suite'[p] = suite[p]
           /\ \/ etat'[p] = etat[p]
              \/ etat'[p] \in Prets /\ etat[p] \in Prets
              \/ Morte(etat'[p]) /\ Morte(etat[p])
    BY <1>3, <2>1, <2>2 DEF Fige, Messagers, Appels
  <2>4. ASSUME etat[p] = "ATTEND_FILE", etat'[p] = "ATTEND_FILE" PROVE f1 = f2
    <3>1. CASE Fids # {}
      <4>1. f2 \in Fids /\ p \in Range(queue'[f2])
        BY <2>2, <2>4, <3>1, FileDesMembres
      <4> HIDE DEF f2
      <4> QED
        BY <1>3, <2>1, <4>1, FileDesMembres
    <3>2. CASE Fids = {}
      BY <3>2, Zenon DEF FileDans
    <3> QED
      BY <3>1, <3>2
  <2> HIDE DEF f1, f2
  <2>5. CASE suite'[p].appel \notin Messagers /\ Morte(etat[p])
    BY <1>1, <2>5 DEF Etape, Morte, Prets
  <2>6. CASE suite'[p] = suite[p] /\ etat[p] = "ATTEND_FILE" /\ etat'[p] = "ATTEND_FILE"
    BY <1>1, <1>3, <2>4, <2>6 DEF Etape
  <2>7. CASE suite'[p] = suite[p] /\ etat[p] \in Prets /\ etat'[p] \in Prets
    BY <1>1, <1>3, <2>7 DEF Etape, Prets
  <2>8. CASE suite'[p] = suite[p]
             /\ etat[p] \notin Prets \cup {"ATTEND_FILE"} /\ etat'[p] \notin Prets \cup {"ATTEND_FILE"}
    BY <1>1, <2>8 DEF Etape
  <2> QED
    BY <2>3, <2>5, <2>6, <2>7, <2>8 DEF Prets, Morte
<1>4. CASE Fige(Courant', Courant, p) /\ suite[p].appel \notin Messagers
  <2>1. suite'[p].appel \notin Messagers
    BY <1>4 DEF Fige, Messagers, Appels, Courant
  <2> QED
    BY <1>2, <1>4, <2>1
<1> QED
  BY <1>2, <1>3, <1>4 DEF Intouche

-----------------------------------------------------------------------------
\* The semaphores, under the processes in a call of files.c.

Muette(p) ==
    \/ suite[p].appel \notin Messagers /\ suite'[p].appel \notin Messagers
    \/ /\ Fige(Courant', Courant, p)
       /\ \/ suite[p].appel \notin Messagers
          \/ etat'[p] = "LIBRE"
          \/ operationStatus'[p] = operationStatus[p]
Muets == Posture(Courant') /\ \A p \in Procs : Muette(p)

LEMMA InchangeMuets ==
    ASSUME TypeSemaphore, Posture(Courant), UNCHANGED <<etat, suite>>,
           operationStatus' = operationStatus \/ operationStatus' = Restants(operationStatus)
    PROVE  Muets
<1>1. Courant'.etat = Courant.etat /\ Courant'.suite = Courant.suite
  BY DEF Courant
<1>2. Posture(Courant')
  BY <1>1 DEF Posture
<1>3. ASSUME NEW p \in Procs PROVE Muette(p)
  <2>1. Fige(Courant', Courant, p)
    BY <1>1 DEF Fige
  <2>2. etat'[p] = "LIBRE" \/ operationStatus'[p] = operationStatus[p]
    BY DEF Restants
  <2> QED
    BY <2>1, <2>2 DEF Muette
<1> QED
  BY <1>2, <1>3 DEF Muets

LEMMA LibereMuets ==
    ASSUME TypeSemaphore, Regle(Courant), Posture(Courant), panique = "non",
           NEW s \in Sids, NEW n \in 0 .. Len(queue[s]), NEW st \in {-3, -4, 1},
           Libere(s, SubSeq(Attendants(s), 1, n), st)
    PROVE  Muets
<1> DEFINE w == SubSeq(Attendants(s), 1, n)
           os == [p \in Procs |-> IF p \in Range(w) THEN st ELSE operationStatus[p]]
<1>1. /\ suite' = suite
      /\ \A p \in Procs : etat'[p] = IF p \in Range(w) THEN "ACTIVABLE" ELSE etat[p]
  BY LibereTaille
<1>2. operationStatus' = Restants(os)
  BY DEF Libere
<1>3. Posture(Courant')
  BY LibereRaffine
<1>4. Range(w) \subseteq Range(queue[s]) /\ s \in Queues /\ etat \in [Procs -> Etats]
  <2>1. queue[s] \in Seq(Procs) /\ s \in Queues /\ etat \in [Procs -> Etats]
    BY ConstantesQueues DEF TypeSemaphore, TypeOK, TypeNoyau
  <2> QED
    BY <2>1, ListeRetournee DEF Attendants
<1> HIDE DEF w
<1>5. ASSUME NEW p \in Procs, p \in Range(w) PROVE Muette(p)
  <2>1. s \in QueuesDe(etat[p])
    BY <1>4, <1>5, CourantChamps DEF Regle, Chainage
  <2>2. etat[p] = "ATTEND_SEMAPHORE"
    BY <1>4, <2>1, QueuesDeValeurs, QueuesDuNoyau DEF Etats
  <2>3. Posee(etat[p], suite[p].appel)
    BY CourantChamps DEF Posture
  <2>4. suite[p].appel \notin Messagers
    BY <2>2, <2>3 DEF Posee, Prets, Morte, Appels, EtatsAppel, Messagers
  <2> QED
    BY <1>1, <2>4 DEF Muette
<1>6. ASSUME NEW p \in Procs, p \notin Range(w) PROVE Muette(p)
  <2>1. etat'[p] = etat[p] /\ suite'[p] = suite[p] /\ os[p] = operationStatus[p]
    BY <1>1, <1>6
  <2> HIDE DEF os
  <2>2. etat'[p] = "LIBRE" \/ operationStatus'[p] = operationStatus[p]
    BY <1>2, <2>1 DEF Restants
  <2>3. Fige(Courant', Courant, p)
    BY <2>1 DEF Fige, Courant
  <2> QED
    BY <2>2, <2>3 DEF Muette
<1> QED
  BY <1>3, <1>5, <1>6 DEF Muets

LEMMA ToutLibereMuets ==
    ASSUME TypeSemaphore, Regle(Courant), Posture(Courant), panique = "non",
           NEW s \in Sids, NEW st \in {-3, -4}, Libere(s, Attendants(s), st)
    PROVE  Muets
<1> DEFINE n == Len(queue[s])
<1>1. queue[s] \in Seq(Procs)
  BY ConstantesQueues DEF TypeSemaphore, TypeOK, TypeNoyau
<1>2. n \in 0 .. n /\ SubSeq(Attendants(s), 1, n) = Attendants(s)
  BY <1>1, LenProperties, TousAttendants DEF Attendants
<1>3. Libere(s, SubSeq(Attendants(s), 1, n), st)
  BY <1>2
<1> HIDE DEF n
<1> QED
  BY <1>2, <1>3, LibereMuets DEF n

LEMMA SignalnMuets ==
    ASSUME TypeSemaphore, Regle(Courant), Posture(Courant),
           NEW s \in Sids, NEW n \in 1 .. ShortMax, Signaln(s, n)
    PROVE  Muets
<1>1. panique = "non" /\ count \in [Sids -> Shorts] /\ queue[s] \in Seq(Procs)
  BY ConstantesQueues DEF TypeSemaphore, TypeOK, TypeNoyau, Signaln, EnModeUser
<1>2. CASE Len(queue[s]) < Reveils(s, n)
  <2> DEFINE k == [Courant EXCEPT !.panique = "null"]
  <2>1. Devient(k) /\ k.panique = "null" /\ operationStatus' = operationStatus
    BY <1>2 DEF Signaln, Courant
  <2> HIDE DEF k
  <2>2. UNCHANGED <<etat, suite>>
    BY <2>1 DEF Devient
  <2> QED
    BY <2>1, <2>2, InchangeMuets
<1>3. CASE ~ (Len(queue[s]) < Reveils(s, n))
  <2> DEFINE m == Reveils(s, n)
  <2>1. Libere(s, SubSeq(Attendants(s), 1, m), 1)
    BY <1>3 DEF Signaln
  <2>2. m \in Nat /\ Len(queue[s]) \in Nat
    BY <1>1, ReveilsBornes, LenProperties
  <2>3. m \in 0 .. Len(queue[s])
    BY <1>3, <2>2
  <2> HIDE DEF m
  <2> QED
    BY <1>1, <2>1, <2>3, LibereMuets
<1> QED
  BY <1>2, <1>3

LEMMA WaitMuets ==
    ASSUME TypeSemaphore, Regle(Courant), Posture(Courant), NEW s \in Sids, Wait(s)
    PROVE  Muets
<1>1. /\ TypeNoyau /\ operationStatus' = Restants(operationStatus)
      /\ panique = "non" /\ elu \in Pids /\ suite[elu] = User
  BY DEF Wait, EnModeUser, TypeSemaphore, TypeOK
<1>2. CASE ~ (count'[s] < 0)
  <2>1. UNCHANGED <<etat, suite>>
    BY <1>2 DEF Wait, noyauVars
  <2> QED
    BY <1>1, <2>1, InchangeMuets
<1>3. CASE count'[s] < 0
  <2> DEFINE K == Courant
             w == [appel |-> "wait", arg |-> Nul]
             k == [K EXCEPT !.etat[K.elu] = "ATTEND_SEMAPHORE", !.suite[K.elu] = w]
             l == QueueAdd(K.queue[s], K.elu, [p \in Procs |-> 0])
             r == Enfile(k, K.elu, s)
             x == Ordonnanceur(r)
  <2>1. /\ K \in Noyaux /\ Regle(K) /\ K.panique = "non" /\ K.elu # Idle /\ K.elu \in Procs
        /\ K.elu = elu /\ K.queue = queue /\ K.etat = etat /\ K.suite = suite
    BY <1>1, CourantType, CourantChamps, NoyauAssumption DEF TypeNoyau
  <2>2. Devient(x)
    BY <1>3, <2>1 DEF Wait
  <2>3. w.appel = "wait"
    OBVIOUS
  <2>4. K.suite[K.elu].appel \notin Messagers
    BY <1>1, <2>1 DEF User, Messagers
  <2> HIDE DEF K
  <2>5. /\ k \in Noyaux /\ r = [k EXCEPT !.queue[s] = l] /\ r \in Noyaux /\ Pret(r)
        /\ x.panique = "non"
    BY <2>1, AttendSemaphore
  <2> HIDE DEF w
  <2>6. /\ k.etat = [K.etat EXCEPT ![K.elu] = "ATTEND_SEMAPHORE"]
        /\ k.suite = [K.suite EXCEPT ![K.elu] = w]
    BY <2>1 DEF Noyaux
  <2> HIDE DEF k, l
  <2>7. r.etat = k.etat /\ r.suite = k.suite
    BY <2>5 DEF Noyaux
  <2> HIDE DEF r
  <2>8. Figes(x, r)
    BY <2>5, OrdonnanceurFiges
  <2> HIDE DEF x
  <2>9. \A p \in Procs :
           /\ r.etat[p] = IF p = K.elu THEN "ATTEND_SEMAPHORE" ELSE K.etat[p]
           /\ r.suite[p] = IF p = K.elu THEN w ELSE K.suite[p]
    BY <2>1, <2>6, <2>7 DEF Noyaux
  <2>10. Posture(K)
    BY DEF K
  <2>11. Posture(r)
    BY <2>3, <2>9, <2>10 DEF Posture, Posee
  <2>12. Posture(x)
    BY <2>8, <2>11, FigesPosture
  <2>13. /\ etat' = x.etat /\ suite' = x.suite
         /\ Courant'.etat = x.etat /\ Courant'.suite = x.suite
    BY <2>2, <2>5 DEF Devient, Courant
  <2>14. ASSUME NEW p \in Procs, p # K.elu PROVE Muette(p)
    <3>1. Fige(x, r, p) /\ r.etat[p] = K.etat[p] /\ r.suite[p] = K.suite[p]
      BY <2>8, <2>9, <2>14 DEF Figes
    <3>2. Fige(Courant', Courant, p)
      BY <2>13, <3>1 DEF Fige, K
    <3>3. etat'[p] = "LIBRE" \/ operationStatus'[p] = operationStatus[p]
      BY <1>1 DEF Restants
    <3> QED
      BY <3>2, <3>3 DEF Muette
  <2>15. Muette(K.elu)
    <3>1. Fige(x, r, K.elu) /\ r.etat[K.elu] = "ATTEND_SEMAPHORE" /\ r.suite[K.elu] = w
      BY <2>1, <2>8, <2>9 DEF Figes
    <3>2. x.suite[K.elu].appel \notin Messagers
      BY <2>3, <3>1 DEF Fige, Messagers, Appels, Prets, Morte
    <3>3. suite'[K.elu].appel \notin Messagers
      BY <2>13, <3>2
    <3> QED
      BY <2>1, <2>4, <3>3 DEF Muette
  <2>16. Posture(Courant')
    BY <2>12, <2>13 DEF Posture
  <2> QED
    BY <2>14, <2>15, <2>16 DEF Muets
<1> QED
  BY <1>2, <1>3

LEMMA RepriseWaitMuets ==
    ASSUME TypeSemaphore, Regle(Courant), Posture(Courant), RepriseWait
    PROVE  Muets
<1>1. /\ TypeNoyau /\ elu \in Procs /\ suite \in [Procs -> Suites]
      /\ suite[elu].appel = "wait" /\ operationStatus' = operationStatus
      /\ Devient([Courant EXCEPT !.suite[elu] = User]) /\ panique = "non"
  BY DEF RepriseWait, semaphoreVars, TypeSemaphore, TypeOK, TypeNoyau
<1>2. etat' = etat /\ suite' = [suite EXCEPT ![elu] = User]
  BY <1>1 DEF Devient, Courant
<1>3. etat[elu] = "ELU" /\ User.appel = "user"
  BY <1>1, CourantChamps DEF Regle, User
<1>4. \A p \in Procs : suite'[p] = IF p = elu THEN User ELSE suite[p]
  BY <1>1, <1>2
<1>5. Courant'.etat = etat /\ Courant'.suite = suite' /\ Courant.etat = etat /\ Courant.suite = suite
  BY <1>2 DEF Courant
<1>6. ASSUME NEW p \in Procs PROVE Posee(etat[p], suite'[p].appel) /\ Muette(p)
  <2>1. CASE p = elu
    BY <1>1, <1>3, <1>4, <2>1 DEF Posee, Prets, Appels, EtatsAppel, Muette, Messagers
  <2>2. CASE p # elu
    <3>1. suite'[p] = suite[p] /\ Posee(etat[p], suite[p].appel)
      BY <1>4, <1>5, <2>2 DEF Posture
    <3>2. Fige(Courant', Courant, p)
      BY <1>5, <3>1 DEF Fige
    <3> QED
      BY <1>1, <3>1, <3>2 DEF Muette
  <2> QED
    BY <2>1, <2>2
<1> QED
  BY <1>5, <1>6 DEF Muets, Posture

LEMMA SemaphoreMuets ==
    ASSUME TypeSemaphore, Regle(Courant), Posture(Courant), SemaphoreNext
    PROVE  Muets
<1>1. ASSUME NEW s \in Sids, NEW n, Screate(s, n) \/ TryWait(s) PROVE Muets
  <2>1. UNCHANGED <<etat, suite>> /\ operationStatus' = operationStatus
    BY <1>1 DEF Screate, TryWait, vars, noyauVars
  <2> QED
    BY <2>1, InchangeMuets
<1>2. ASSUME NEW s \in Sids, NEW n, Sdelete(s) \/ Sreset(s, n) PROVE Muets
  BY <1>2, ToutLibereMuets DEF Sdelete, Sreset, EnModeUser
<1> QED
  BY <1>1, <1>2, SignalnMuets, WaitMuets, RepriseWaitMuets DEF SemaphoreNext

-----------------------------------------------------------------------------
\* The steps of the other components.

\* What is true between two steps: the waits are separate, and a process that
\* waits for a file is in psend() or preceive().
InvImplante == InvFiles /\ Posture(Courant)

LEMMA ImplanteFaits ==
    ASSUME InvImplante
    PROVE  /\ TypeSemaphore /\ TypeOK /\ TypeNoyau /\ Regle(Courant) /\ Posture(Courant)
           /\ Courant \in Noyaux /\ ChampsFiles
           /\ operationStatus \in [Procs -> Statuts]
           /\ fileValue \in [Procs -> Messages \cup {Rien}]
BY CourantType DEF InvImplante, InvFiles, InvSemaphore, TypeSemaphore, TypeOK, ChampsFiles

\* Whatever the call, no step moves a process in it but as the calls that
\* follow say.
LEMMA AppelGarde ==
    ASSUME InvImplante, InvFiles', NEW p \in Procs, Intouche(p)
    PROVE  AppelDe(p)' = AppelDe(p)
<1>1. TypeNoyau' /\ Regle(Courant')
  BY DEF InvFiles, InvSemaphore, TypeSemaphore, TypeOK
<1> QED
  BY <1>1, ImplanteFaits, AppelIntouche

LEMMA ContenuInchange ==
    ASSUME UNCHANGED <<maxMsg, queueMsg>>, \A p \in Pids : AppelDe(p)' = AppelDe(p)
    PROVE  UNCHANGED (FileIdeale!vars)
BY DEF FileIdeale!vars

\* A step that moves one process in its call.
LEMMA AppelUnSeul ==
    ASSUME NEW q \in Pids, NEW r, AppelDe(q)' = r,
           \A p \in Pids \ {q} : AppelDe(p)' = AppelDe(p)
    PROVE  [p \in Pids |-> AppelDe(p)]' = [[p \in Pids |-> AppelDe(p)] EXCEPT ![q] = r]
<1> DEFINE a == [p \in Pids |-> AppelDe(p)]
           b == [p \in Pids |-> AppelDe(p)']
<1>1. \A p \in Pids : b[p] = IF p = q THEN r ELSE a[p]
  OBVIOUS
<1>2. b = [p \in Pids |-> b[p]] /\ DOMAIN a = Pids
  OBVIOUS
<1> HIDE DEF a, b
<1>3. b = [a EXCEPT ![q] = r]
  BY <1>1, <1>2
<1> QED
  BY <1>3 DEF a, b

LEMMA MuetteIntouche ==
    ASSUME InvImplante, InvFiles', HorsFilesNext, NEW p \in Procs, Muette(p)
    PROVE  AppelDe(p)' = AppelDe(p)
<1>1. Menage
  BY MenageAutres DEF HorsFilesNext, InvImplante, InvFiles
<1>2. \A g \in Fids : Range(queue'[g]) \subseteq Range(queue[g])
  BY <1>1 DEF Menage, Epargne, Courant
<1>3. etat'[p] = "LIBRE" \/ fileValue'[p] = fileValue[p]
  BY DEF HorsFilesNext, ValeursRestantes
<1>4. Intouche(p)
  BY <1>2, <1>3 DEF Muette, Intouche
<1> QED
  BY <1>4, AppelGarde

LEMMA HorsFilesRaffine ==
    ASSUME InvImplante, InvFiles', HorsFilesNext
    PROVE  /\ Posture(Courant')
           /\ \/ \E p \in Pids : FileIdeale!Termine(p)
              \/ UNCHANGED (FileIdeale!vars)
<1>1. /\ TypeSemaphore /\ TypeOK /\ TypeNoyau /\ Regle(Courant) /\ Posture(Courant)
      /\ maxMsg' = maxMsg /\ queueMsg' = queueMsg
      /\ Pids \subseteq Procs
  BY ImplanteFaits, ConstantesProcs DEF HorsFilesNext
<1>2. CASE Muets
  <2>1. \A p \in Pids : AppelDe(p)' = AppelDe(p)
    BY <1>1, <1>2, MuetteIntouche DEF Muets
  <2> QED
    BY <1>1, <1>2, <2>1, ContenuInchange DEF Muets
<1>3. CASE AutresNext
  <2>1. Repos
    BY <1>1, <1>3, ProcessusFiges, TicFiges DEF AutresNext, Next
  <2>2. \A p \in Procs : etat'[p] = "LIBRE" \/ operationStatus'[p] = operationStatus[p]
    BY <1>3 DEF AutresNext, Restants
  <2>3. \A p \in Procs : Fige(Courant', Courant, p) => Muette(p)
    BY <2>2 DEF Muette
  <2>4. CASE Figes(Courant', Courant)
    <3>1. Posture(Courant')
      BY <1>1, <2>4, FigesPosture
    <3> QED
      BY <1>2, <2>3, <2>4, <3>1 DEF Muets, Figes
  <2>5. ASSUME NEW q \in Pids, TueFige(q)
        PROVE  /\ Posture(Courant')
               /\ (\E p \in Pids : FileIdeale!Termine(p)) \/ UNCHANGED (FileIdeale!vars)
    <3>1. q \in Procs /\ etat'[q] \in Finies /\ Posture(Courant')
      BY <1>1, <2>5, KillFinit DEF TueFige
    <3>2. AppelDe(q)' = FileIdeale!Aucun
      BY <3>1, AppelParValeur DEF Etape, Finies, Prets
    <3>3. \A p \in Pids \ {q} : AppelDe(p)' = AppelDe(p)
      BY <1>1, <2>3, <2>5, MuetteIntouche DEF TueFige, FigesSauf
    <3>4. CASE AppelDe(q) = FileIdeale!Aucun
      <4>1. \A p \in Pids : AppelDe(p)' = AppelDe(p)
        BY <3>2, <3>3, <3>4
      <4> QED
        BY <1>1, <3>1, <4>1, ContenuInchange
    <3>5. CASE AppelDe(q) # FileIdeale!Aucun
      <4>1. [p \in Pids |-> AppelDe(p)]'
                = [[p \in Pids |-> AppelDe(p)] EXCEPT ![q] = FileIdeale!Aucun]
        BY <3>2, <3>3, AppelUnSeul
      <4>2. FileIdeale!Termine(q)
        BY <1>1, <3>5, <4>1 DEF FileIdeale!Termine
      <4> QED
        BY <3>1, <4>2
    <3> QED
      BY <3>4, <3>5
  <2> QED
    BY <2>1, <2>4, <2>5 DEF Repos
<1>4. CASE SemaphoreNext
  BY <1>1, <1>2, <1>4, SemaphoreMuets
<1> QED
  BY <1>3, <1>4 DEF HorsFilesNext

-----------------------------------------------------------------------------
\* The calls of files.c.

\* The processes that wait for f, for the code and for the abstract file.
LEMMA QuiAttend ==
    ASSUME InvImplante, NEW p \in Pids, NEW f \in Fids
    PROVE  /\ p \in Range(queue[f]) <=> FileIdeale!Attend(p, f)
           /\ p \in Range(queue[f]) =>
                 /\ suite[p].appel \in Messagers /\ etat[p] = "ATTEND_FILE"
                 /\ AppelDe(p) = IF suite[p].appel = "psend"
                                 THEN FileIdeale!Emission(f, fileValue[p])
                                 ELSE FileIdeale!Reception(f)
<1> DEFINE g == FileDans(queue, p)
<1>1. /\ Courant \in Noyaux /\ Regle(Courant) /\ p \in Procs /\ InvFiles
      /\ Courant.queue = queue /\ Courant.etat = etat
  BY ImplanteFaits, CourantChamps, ConstantesProcs DEF InvImplante
<1>2. AppelDe(p) = Etape(etat[p], suite[p].appel, g, operationStatus[p], fileValue[p])
  BY <1>1, AppelParValeur
<1>3. p \in Range(queue[f]) => etat[p] = "ATTEND_FILE" /\ g = f
  BY <1>1, FileDesMembres
<1>4. etat[p] = "ATTEND_FILE" => p \in Range(queue[g])
  BY <1>1, FileDesMembres
<1> HIDE DEF g
<1>5. ASSUME p \in Range(queue[f])
      PROVE  /\ suite[p].appel \in Messagers /\ etat[p] = "ATTEND_FILE"
             /\ AppelDe(p) = IF suite[p].appel = "psend"
                             THEN FileIdeale!Emission(f, fileValue[p])
                             ELSE FileIdeale!Reception(f)
  <2>1. suite[p].appel \in Messagers
    BY <1>1, <1>5, ContenuFile DEF Messagers
  <2> QED
    BY <1>2, <1>3, <1>5, <2>1 DEF Etape
<1>6. p \in Range(queue[f]) => FileIdeale!Attend(p, f)
  BY <1>5 DEF FileIdeale!Attend, FileIdeale!Emission, FileIdeale!Reception
<1>7. ASSUME FileIdeale!Attend(p, f) PROVE p \in Range(queue[f])
  <2>1. AppelDe(p).etape \in {"emission", "reception"} /\ AppelDe(p).file = f
    BY <1>7 DEF FileIdeale!Attend
  <2>2. etat[p] = "ATTEND_FILE" /\ suite[p].appel \in Messagers
    BY <1>2, <2>1 DEF Etape, FileIdeale!Aucun, FileIdeale!Echoue, FileIdeale!Accepte,
                      FileIdeale!Livre
  <2>3. AppelDe(p).file = g
    BY <1>2, <2>2 DEF Etape, FileIdeale!Emission, FileIdeale!Reception
  <2> QED
    BY <1>4, <2>1, <2>2, <2>3
<1> QED
  BY <1>5, <1>6, <1>7

LEMMA MembresPids ==
    ASSUME InvImplante, NEW f \in Fids
    PROVE  Range(queue[f]) \subseteq Pids
<1> SUFFICES ASSUME NEW p \in Range(queue[f]) PROVE p \in Pids
  OBVIOUS
<1>1. Courant \in Noyaux /\ Regle(Courant) /\ Courant.queue = queue /\ InvFiles
  BY ImplanteFaits, CourantChamps DEF InvImplante
<1>2. p \in Procs
  BY <1>1, ContenuFile
<1>3. Courant.etat[p] = "ATTEND_FILE"
  BY <1>1, <1>2, FileDesMembres
<1>4. p # Idle
  BY <1>1, <1>3 DEF Regle, IdlePret
<1> QED
  BY <1>2, <1>4 DEF Procs

\* A call that wakes the processes W, with the status st and the value v.
LEMMA ReveilAppels ==
    ASSUME InvImplante, InvFiles', NEW x, Devient(x), x.panique = "non",
           NEW W, Reveillee(x, Courant, W),
           \A g \in Fids : Range(x.queue[g]) \subseteq Range(queue[g]),
           NEW st, NEW v, Ecrit(st, v),
           \A p \in Procs : p \notin W /\ suite[p].appel \in Messagers =>
               st[p] = operationStatus[p] /\ v[p] = fileValue[p]
    PROVE  /\ Posture(Courant')
           /\ \A p \in Procs : AppelDe(p)' =
                 IF p \in W THEN Etape("ELU", suite[p].appel, Nul, st[p], v[p])
                 ELSE AppelDe(p)
<1>1. /\ queue' = x.queue /\ etat' = x.etat /\ suite' = x.suite
      /\ Courant'.etat = x.etat /\ Courant'.suite = x.suite
  BY DEF Devient, Courant
<1>2. Courant.etat = etat /\ Courant.suite = suite /\ Posture(Courant)
  BY CourantChamps, ImplanteFaits
<1>3. \A p \in Procs : /\ operationStatus'[p] = IF etat'[p] = "LIBRE" THEN 0 ELSE st[p]
                       /\ fileValue'[p] = IF etat'[p] = "LIBRE" THEN Rien ELSE v[p]
  BY DEF Ecrit, Restants, ValeursRestantes
<1>4. ASSUME NEW p \in Procs, p \in W
      PROVE  /\ Posee(x.etat[p], x.suite[p].appel)
             /\ AppelDe(p)' = Etape("ELU", suite[p].appel, Nul, st[p], v[p])
  <2>1. x.etat[p] \in Prets /\ x.suite[p] = suite[p]
    BY <1>2, <1>4 DEF Reveillee
  <2>2. operationStatus'[p] = st[p] /\ fileValue'[p] = v[p]
    BY <1>1, <1>3, <2>1 DEF Prets
  <2>3. AppelDe(p)' = Etape(x.etat[p], suite[p].appel, FileDans(queue', p), st[p], v[p])
    BY <1>1, <2>1, <2>2, AppelParValeur
  <2> QED
    BY <2>1, <2>3 DEF Etape, Prets, Posee, EtatsAppel
<1>5. ASSUME NEW p \in Procs, p \notin W
      PROVE  Posee(x.etat[p], x.suite[p].appel) /\ AppelDe(p)' = AppelDe(p)
  <2>1. Fige(x, Courant, p)
    BY <1>5 DEF Reveillee
  <2>2. Posee(etat[p], suite[p].appel)
    BY <1>2 DEF Posture
  <2>3. Posee(x.etat[p], x.suite[p].appel)
    BY <1>2, <2>1, <2>2 DEF Fige, Posee, Morte, Prets, Appels, EtatsAppel
  <2>4. Fige(Courant', Courant, p)
    BY <1>1, <2>1 DEF Fige
  <2>5. \A g \in Fids : p \in Range(queue'[g]) => p \in Range(queue[g])
    BY <1>1
  <2>6. Intouche(p)
    BY <1>3, <1>5, <2>4, <2>5 DEF Intouche
  <2> QED
    BY <2>3, <2>6, AppelGarde
<1>6. Posture(Courant')
  BY <1>1, <1>4, <1>5 DEF Posture
<1> QED
  BY <1>4, <1>5, <1>6

\* A call that blocks the caller, in the queue of f.
LEMMA BlocageAppels ==
    ASSUME InvImplante, InvFiles', EnModeUser, NEW f \in Fids, NEW a \in Messagers,
           Devient(Bloque(f, a)), NEW st, NEW v, Ecrit(st, v),
           \A p \in Procs \ {elu} : st[p] = operationStatus[p] /\ v[p] = fileValue[p]
    PROVE  /\ Posture(Courant')
           /\ \E e \in Pids :
                 /\ AppelDe(e) = FileIdeale!Aucun
                 /\ AppelDe(e)' = IF a = "psend" THEN FileIdeale!Emission(f, v[e])
                                  ELSE FileIdeale!Reception(f)
                 /\ e = elu
                 /\ \A p \in Pids \ {e} : AppelDe(p)' = AppelDe(p)
<1> DEFINE x == Bloque(f, a)
           q == QueueAdd(queue[f], elu, prio)
<1>1. /\ x.panique = "non" /\ x.queue[f] = q
      /\ \A g \in Fids \ {f} : x.queue[g] = queue[g]
      /\ Range(q) = Range(queue[f]) \cup {elu}
      /\ x.etat[elu] = "ATTEND_FILE" /\ x.suite[elu].appel = a
      /\ FigesSauf(x, Courant, elu)
  <2> DEFINE s == [suite EXCEPT ![elu] = [appel |-> a, arg |-> Nul]]
  <2>1. /\ x.panique = "non" /\ Devenue(x, Courant, f, q, s)
        /\ Range(q) = Range(queue[f]) \cup {elu}
        /\ x.etat[elu] = "ATTEND_FILE" /\ x.suite[elu].appel = a
        /\ FigesSauf(x, Courant, elu)
    BY BloqueFile DEF InvImplante, Messagers
  <2> HIDE DEF x, q, s
  <2> QED
    BY <2>1, CourantChamps DEF Devenue
<1> HIDE DEF q
<1>2. Devient(x)
  OBVIOUS
<1> HIDE DEF x
<1>3. /\ queue' = x.queue /\ etat' = x.etat /\ suite' = x.suite
      /\ Courant'.etat = x.etat /\ Courant'.suite = x.suite
  BY <1>1, <1>2 DEF Devient, Courant
<1>4. Courant.etat = etat /\ Courant.suite = suite /\ Posture(Courant)
  BY CourantChamps, ImplanteFaits
<1>5. \A p \in Procs : /\ operationStatus'[p] = IF etat'[p] = "LIBRE" THEN 0 ELSE st[p]
                       /\ fileValue'[p] = IF etat'[p] = "LIBRE" THEN Rien ELSE v[p]
  BY DEF Ecrit, Restants, ValeursRestantes
<1>6. PICK e \in Pids : e = elu
  BY DEF EnModeUser
<1>7. e \in Procs /\ Pids \subseteq Procs
  BY ConstantesProcs
<1>8. ASSUME NEW p \in Procs, p # e
      PROVE  Posee(x.etat[p], x.suite[p].appel) /\ AppelDe(p)' = AppelDe(p)
  <2>1. Fige(x, Courant, p)
    BY <1>1, <1>6, <1>8 DEF FigesSauf
  <2>2. Posee(etat[p], suite[p].appel)
    BY <1>4 DEF Posture
  <2>3. Posee(x.etat[p], x.suite[p].appel)
    BY <1>4, <2>1, <2>2 DEF Fige, Posee, Morte, Prets, Appels, EtatsAppel
  <2>4. Fige(Courant', Courant, p)
    BY <1>3, <2>1 DEF Fige
  <2>5. \A g \in Fids : p \in Range(queue'[g]) => p \in Range(queue[g])
    BY <1>1, <1>3, <1>6, <1>8
  <2>6. Intouche(p)
    BY <1>5, <1>6, <1>8, <2>4, <2>5 DEF Intouche
  <2> QED
    BY <2>3, <2>6, AppelGarde
<1>9. Posee(x.etat[e], x.suite[e].appel)
  BY <1>1, <1>6 DEF Posee, Messagers, Appels
<1>10. AppelDe(e) = FileIdeale!Aucun
  <2>1. suite[e].appel \notin Messagers
    BY <1>6 DEF EnModeUser, User, Messagers
  <2> QED
    BY <1>7, <2>1, AppelParValeur DEF Etape
<1>11. AppelDe(e)' = IF a = "psend" THEN FileIdeale!Emission(f, v[e])
                     ELSE FileIdeale!Reception(f)
  <2>1. etat'[e] = "ATTEND_FILE" /\ suite'[e].appel = a /\ fileValue'[e] = v[e]
    BY <1>1, <1>3, <1>5, <1>6, <1>7
  <2>2. FileDans(queue', e) = f
    <3>1. Courant' \in Noyaux /\ Regle(Courant') /\ Courant'.queue = queue'
      BY CourantType, CourantChamps DEF InvFiles, InvSemaphore, TypeSemaphore, TypeOK,
           Courant, TypeNoyau, Noyaux
    <3>2. e \in Range(queue'[f])
      BY <1>1, <1>3, <1>6
    <3> QED
      BY <1>7, <3>1, <3>2, FileDesMembres
  <2> QED
    BY <1>7, <2>1, <2>2, AppelParValeur DEF Etape
<1>12. Posture(Courant')
  BY <1>3, <1>8, <1>9 DEF Posture
<1> QED
  BY <1>6, <1>7, <1>8, <1>10, <1>11, <1>12

\* The abstract contents of a file.
LEMMA ContenuFIFO ==
    ASSUME NEW q \in Seq(Messages)
    PROVE  /\ Len(Reverse(q)) = Len(q)
           /\ Reverse(q) = <<>> <=> q = <<>>
           /\ \A m \in Messages : Reverse(AddMsg(q, m)) = Append(Reverse(q), m)
           /\ q # <<>> => Reverse(RetireMsg(q)) = Tail(Reverse(q))
<1>1. Len(q) \in Nat
  BY LenProperties
<1>2. Reverse(q) \in Seq(Messages) /\ Len(Reverse(q)) = Len(q)
  BY <1>1 DEF Reverse
<1> DEFINE v == Reverse(q)
<1> HIDE DEF v
<1>3. v = <<>> <=> q = <<>>
  BY <1>1, <1>2, EmptySeq DEF v
<1>4. ASSUME NEW m \in Messages PROVE Reverse(AddMsg(q, m)) = Append(v, m)
  BY QueueAddEgaux DEF AddMsg, v
<1>5. ASSUME q # <<>> PROVE Reverse(RetireMsg(q)) = Tail(v)
  <2>1. Len(q) - 1 \in Nat /\ 1 \in 0 .. Len(q)
    BY <1>1, <1>5, EmptySeq
  <2>2. RetireMsg(q) = SubSeq(q, 1, Len(q) - 1)
    BY DEF RetireMsg, QueueOut, Front
  <2>3. Reverse(RetireMsg(q)) = SubSeq(v, 2, Len(q))
    BY <2>1, <2>2, ResteRetourne DEF v
  <2>4. v \in Seq(Messages) /\ Len(v) = Len(q)
    BY <1>2 DEF v
  <2>5. SubSeq(v, 2, Len(v)) = Tail(v)
    BY <1>5, <1>3, <2>4, HeadTailProperties
  <2> QED
    BY <2>3, <2>4, <2>5
<1> QED
  BY <1>2, <1>3, <1>4, <1>5 DEF v

LEMMA ContenuUn ==
    ASSUME ChampsFiles, NEW f \in Fids, NEW r, queueMsg' = [queueMsg EXCEPT ![f] = r]
    PROVE  [g \in Fids |-> Reverse(queueMsg[g])]'
               = [[g \in Fids |-> Reverse(queueMsg[g])] EXCEPT ![f] = Reverse(r)]
<1> DEFINE a == [g \in Fids |-> Reverse(queueMsg[g])]
           b == [g \in Fids |-> Reverse(queueMsg'[g])]
<1>1. \A g \in Fids : queueMsg'[g] = IF g = f THEN r ELSE queueMsg[g]
  BY DEF ChampsFiles
<1>2. \A g \in Fids : b[g] = IF g = f THEN Reverse(r) ELSE a[g]
  BY <1>1
<1>3. b = [g \in Fids |-> b[g]] /\ DOMAIN a = Fids
  OBVIOUS
<1> HIDE DEF a, b
<1>4. b = [a EXCEPT ![f] = Reverse(r)]
  BY <1>2, <1>3
<1> QED
  BY <1>4 DEF a, b

\* A call that moves one process and leaves the messages.
LEMMA ContenuGarde ==
    ASSUME UNCHANGED <<maxMsg, queueMsg>>
    PROVE  UNCHANGED <<maxMsg, [g \in Fids |-> Reverse(queueMsg[g])]>>
OBVIOUS

LEMMA PcreateRaffine ==
    ASSUME InvImplante, InvFiles', NEW f \in Fids, NEW n \in 1 .. MsgMax, Pcreate(f, n)
    PROVE  Posture(Courant') /\ FileIdeale!Cree(f, n)
<1>1. /\ UNCHANGED <<noyauVars, operationStatus, queueMsg, fileValue>>
      /\ maxMsg[f] = 0 /\ maxMsg' = [maxMsg EXCEPT ![f] = n]
  BY ImplanteFaits, FilesAssumption
     DEF Pcreate, FidValide, ChampsFiles, varsSemaphore, vars, semaphoreVars
<1>2. Courant' = Courant
  BY <1>1 DEF Courant, noyauVars
<1>3. \A p \in Pids : AppelDe(p)' = AppelDe(p)
  BY <1>1, ConstantesProcs, AppelParValeur DEF noyauVars
<1>4. UNCHANGED [p \in Pids |-> AppelDe(p)]
  BY <1>3
<1>5. UNCHANGED [g \in Fids |-> Reverse(queueMsg[g])]
  BY <1>1
<1> QED
  BY <1>1, <1>2, <1>4, <1>5, ImplanteFaits DEF FileIdeale!Cree

\* Vidange(f), in the call that leaves f with the capacity n.
LEMMA VidangeRaffine ==
    ASSUME InvImplante, InvFiles', panique = "non", NEW f \in Fids, FidValide(f), Vidange(f),
           NEW n \in {0, maxMsg[f]}, maxMsg' = [maxMsg EXCEPT ![f] = n]
    PROVE  Posture(Courant') /\ FileIdeale!Vide(f, n)
<1> DEFINE w == Reverse(queue[f])
           x == Preempte(ActiveTous([Courant EXCEPT !.queue[f] = <<>>], w), w)
           st == StatutsEchec(f)
           W == Range(queue[f])
<1>1. /\ Courant \in Noyaux /\ Regle(Courant) /\ Courant.panique = "non"
      /\ Courant.queue = queue /\ Posture(Courant) /\ ChampsFiles
      /\ Pids \subseteq Procs
  BY EntreeFiles, ImplanteFaits, ConstantesProcs DEF InvImplante
<1>2. /\ Devient(x) /\ Ecrit(st, fileValue)
      /\ queueMsg' = [queueMsg EXCEPT ![f] = <<>>]
  BY DEF Vidange
<1>3. /\ x.panique = "non" /\ Reveillee(x, Courant, W)
      /\ Devenue(x, Courant, f, <<>>, Courant.suite)
  <2> DEFINE K == Courant
  <2>1. K \in Noyaux /\ Regle(K) /\ K.panique = "non" /\ K.queue = queue /\ Posture(K)
    BY <1>1
  <2> HIDE DEF K
  <2>2. LET u == Reverse(K.queue[f])
            y == Preempte(ActiveTous([K EXCEPT !.queue[f] = <<>>], u), u)
        IN  /\ y \in Noyaux /\ y.panique = "non" /\ Regle(y)
            /\ Devenue(y, K, f, <<>>, K.suite)
            /\ Posture(K) => Reveillee(y, K, Range(K.queue[f]))
    BY <2>1, VidangeResultat
  <2> QED
    BY <2>1, <2>2 DEF K
<1> HIDE DEF x
<1>4. \A g \in Fids : Range(x.queue[g]) \subseteq Range(queue[g])
  BY <1>1, <1>3 DEF Devenue, Range
<1>5. \A p \in Procs : st[p] = IF p \in W THEN Faux ELSE operationStatus[p]
  BY DEF StatutsEchec, Membres
<1> HIDE DEF st, W
<1>6. /\ Posture(Courant')
      /\ \A p \in Procs : AppelDe(p)' =
            IF p \in W THEN Etape("ELU", suite[p].appel, Nul, st[p], fileValue[p])
            ELSE AppelDe(p)
  BY <1>2, <1>3, <1>4, <1>5, ReveilAppels
<1>7. ASSUME NEW p \in Pids
      PROVE  AppelDe(p)' = IF FileIdeale!Attend(p, f) THEN FileIdeale!Echoue ELSE AppelDe(p)
  <2>1. p \in W <=> FileIdeale!Attend(p, f)
    BY QuiAttend DEF W
  <2>2. p \in W => suite[p].appel \in Messagers
    BY QuiAttend DEF W
  <2>3. p \in W => AppelDe(p)' = FileIdeale!Echoue
    BY <1>1, <1>5, <1>6, <2>2 DEF Etape, Prets, Faux
  <2> QED
    BY <1>1, <1>6, <2>1, <2>3
<1>8. [p \in Pids |-> AppelDe(p)]'
        = [p \in Pids |-> IF FileIdeale!Attend(p, f) THEN FileIdeale!Echoue
                          ELSE [q \in Pids |-> AppelDe(q)][p]]
  BY <1>7
<1>9. [g \in Fids |-> Reverse(queueMsg[g])]'
        = [[g \in Fids |-> Reverse(queueMsg[g])] EXCEPT ![f] = <<>>]
  <2>1. Reverse(<<>>) = <<>>
    BY DEF Reverse
  <2> QED
    BY <1>1, <1>2, <2>1, ContenuUn
<1> QED
  BY <1>6, <1>8, <1>9 DEF FileIdeale!Vide, FidValide

\* The processes that wait for f, by the call they are in.
LEMMA Attentes ==
    ASSUME InvImplante, NEW f \in Fids
    PROVE  /\ \A p \in Pids : p \in Range(queue[f]) /\ suite[p].appel = "preceive"
                              => p \in FileIdeale!Recepteurs(f)
           /\ \A p \in Pids : p \in Range(queue[f]) /\ suite[p].appel = "psend"
                              => /\ p \in FileIdeale!Emetteurs(f)
                                 /\ AppelDe(p).message = fileValue[p]
           /\ Range(queue[f]) = {} => FileIdeale!Recepteurs(f) = {} /\ FileIdeale!Emetteurs(f) = {}
<1>1. ASSUME NEW p \in Pids, p \in Range(queue[f])
      PROVE  /\ FileIdeale!Attend(p, f)
             /\ AppelDe(p) = IF suite[p].appel = "psend"
                             THEN FileIdeale!Emission(f, fileValue[p])
                             ELSE FileIdeale!Reception(f)
  BY <1>1, QuiAttend
<1>2. \A p \in Pids : p \in Range(queue[f]) /\ suite[p].appel = "preceive"
                      => p \in FileIdeale!Recepteurs(f)
  BY <1>1 DEF FileIdeale!Recepteurs, FileIdeale!Reception
<1>3. \A p \in Pids : p \in Range(queue[f]) /\ suite[p].appel = "psend"
                      => p \in FileIdeale!Emetteurs(f) /\ AppelDe(p).message = fileValue[p]
  BY <1>1 DEF FileIdeale!Emetteurs, FileIdeale!Emission
<1>4. Range(queue[f]) = {} => \A p \in Pids : ~ FileIdeale!Attend(p, f)
  BY QuiAttend
<1>5. Range(queue[f]) = {} => FileIdeale!Recepteurs(f) = {} /\ FileIdeale!Emetteurs(f) = {}
  BY <1>4 DEF FileIdeale!Recepteurs, FileIdeale!Emetteurs
<1> QED
  BY <1>2, <1>3, <1>5

\* A call that wakes Retire(f), when the caller writes its own fields only.
LEMMA DebloqueAppels ==
    ASSUME InvImplante, InvFiles', EnModeUser, NEW f \in Fids, queue[f] # <<>>,
           Devient(Debloque(f)), NEW st, NEW v, Ecrit(st, v),
           st[Retire(f)] = Vrai,
           \A q \in Procs \ {elu, Retire(f)} :
               st[q] = operationStatus[q] /\ v[q] = fileValue[q]
    PROVE  /\ Posture(Courant')
           /\ Retire(f) \in Pids /\ Retire(f) \in Range(queue[f])
           /\ [p \in Pids |-> AppelDe(p)]'
                = [[p \in Pids |-> AppelDe(p)] EXCEPT ![Retire(f)] =
                      IF suite[Retire(f)].appel = "psend" THEN FileIdeale!Accepte
                      ELSE FileIdeale!Livre(v[Retire(f)])]
<1> DEFINE x == Debloque(f)
<1>1. /\ InvFiles /\ panique = "non" /\ Posture(Courant) /\ Courant.queue = queue
      /\ Pids \subseteq Procs /\ suite[elu].appel = "user"
  BY ImplanteFaits, CourantChamps, ConstantesProcs DEF InvImplante, EnModeUser, User
<1>2. /\ Devenue(x, Courant, f, QueueOut(queue[f]), suite) /\ x.panique = "non"
      /\ Retire(f) \in Range(queue[f]) /\ Range(QueueOut(queue[f])) \subseteq Range(queue[f])
      /\ Reveillee(x, Courant, {Retire(f)})
  BY <1>1, DebloqueFile
<1>3. PICK p \in Pids : p = Retire(f)
  BY <1>2, MembresPids
<1> DEFINE W == {p}
<1>4. Devient(x)
  OBVIOUS
<1>5. st[p] = Vrai /\ \A q \in Procs \ {elu, p} : st[q] = operationStatus[q] /\ v[q] = fileValue[q]
  BY <1>3
<1> HIDE DEF x
<1>6. \A g \in Fids : Range(x.queue[g]) \subseteq Range(queue[g])
  BY <1>1, <1>2 DEF Devenue
<1>7. \A q \in Procs : q \notin W /\ suite[q].appel \in Messagers =>
          st[q] = operationStatus[q] /\ v[q] = fileValue[q]
  <2> SUFFICES ASSUME NEW q \in Procs, q \notin W, suite[q].appel \in Messagers
               PROVE  st[q] = operationStatus[q] /\ v[q] = fileValue[q]
    OBVIOUS
  <2>1. q # elu
    BY <1>1 DEF Messagers
  <2> QED
    BY <1>5, <2>1
<1>8. Reveillee(x, Courant, W) /\ p \in Range(queue[f])
  BY <1>2, <1>3
<1> HIDE DEF W
<1>9. /\ Posture(Courant')
      /\ \A q \in Procs : AppelDe(q)' =
            IF q \in W THEN Etape("ELU", suite[q].appel, Nul, st[q], v[q])
            ELSE AppelDe(q)
  BY <1>2, <1>4, <1>6, <1>7, <1>8, ReveilAppels
<1> DEFINE r == IF suite[p].appel = "psend" THEN FileIdeale!Accepte ELSE FileIdeale!Livre(v[p])
<1>10. AppelDe(p)' = r
  <2>1. suite[p].appel \in Messagers
    BY <1>8, <1>3, QuiAttend
  <2> QED
    BY <1>1, <1>3, <1>5, <1>9, <2>1 DEF W, Etape, Prets, Faux, Vrai
<1> HIDE DEF r
<1>11. \A q \in Pids \ {p} : AppelDe(q)' = AppelDe(q)
  BY <1>1, <1>9 DEF W
<1>12. [q \in Pids |-> AppelDe(q)]' = [[q \in Pids |-> AppelDe(q)] EXCEPT ![p] = r]
  BY <1>3, <1>10, <1>11, AppelUnSeul
<1> QED
  BY <1>3, <1>9, <1>12, <1>8 DEF r

LEMMA PsendRemetRaffine ==
    ASSUME InvImplante, InvFiles', NEW f \in Fids, NEW m \in Messages, PsendRemet(f, m)
    PROVE  Posture(Courant') /\ FileIdeale!Remet(f, m)
<1> DEFINE p == Retire(f)
           st == [operationStatus EXCEPT ![elu] = Vrai, ![p] = Vrai]
           v == [fileValue EXCEPT ![elu] = m, ![p] = m]
<1>1. /\ EnModeUser /\ UNCHANGED maxMsg
      /\ queueMsg[f] = <<>> /\ queue[f] # <<>>
      /\ Devient(Debloque(f)) /\ Ecrit(st, v) /\ UNCHANGED queueMsg
  BY DEF PsendRemet, EntrePsend
<1>2. InvFiles /\ panique = "non" /\ operationStatus \in [Procs -> Statuts] /\ ChampsFiles
  BY <1>1, ImplanteFaits DEF InvImplante, EnModeUser
<1>3. p \in Range(queue[f]) /\ p \in Procs
  BY <1>1, <1>2, DebloqueFile
<1>4. st[p] = Vrai /\ v[p] = m
  <2> HIDE DEF p
  <2> QED
    BY <1>2, <1>3 DEF ChampsFiles
<1>5. \A q \in Procs \ {elu, p} : st[q] = operationStatus[q] /\ v[q] = fileValue[q]
  <2> HIDE DEF p
  <2> QED
    BY <1>2, <1>3 DEF ChampsFiles
<1> HIDE DEF st, v
<1>6. suite[p].appel = "preceive"
  <2> HIDE DEF p
  <2>1. /\ maxMsg[f] > 0 /\ maxMsg[f] \in Nat
        /\ suite[p].appel = "preceive" \/ Len(queueMsg[f]) = maxMsg[f]
    BY <1>2, <1>3, ContenuFile
  <2>2. Len(queueMsg[f]) = 0
    BY <1>1
  <2> QED
    BY <2>1, <2>2
<1>7. /\ Posture(Courant') /\ p \in Pids
      /\ [q \in Pids |-> AppelDe(q)]'
           = [[q \in Pids |-> AppelDe(q)] EXCEPT ![p] = FileIdeale!Livre(m)]
  <2>1. /\ Posture(Courant') /\ p \in Pids
        /\ [q \in Pids |-> AppelDe(q)]'
             = [[q \in Pids |-> AppelDe(q)] EXCEPT ![p] =
                   IF suite[p].appel = "psend" THEN FileIdeale!Accepte
                   ELSE FileIdeale!Livre(v[p])]
    BY <1>1, <1>4, <1>5, DebloqueAppels
  <2> QED
    BY <1>4, <1>6, <2>1
<1> HIDE DEF p
<1>8. p \in FileIdeale!Recepteurs(f)
  BY <1>3, <1>6, <1>7, Attentes
<1>9. Reverse(queueMsg[f]) = <<>>
  BY <1>1 DEF Reverse
<1>10. UNCHANGED <<maxMsg, [g \in Fids |-> Reverse(queueMsg[g])]>>
  BY <1>1
<1> QED
  BY <1>7, <1>8, <1>9, <1>10 DEF FileIdeale!Remet

LEMMA PreceiveCompleteRaffine ==
    ASSUME InvImplante, InvFiles', NEW f \in Fids, PreceiveComplete(f)
    PROVE  Posture(Courant') /\ FileIdeale!PrendEtComplete(f)
<1> DEFINE p == Retire(f)
           st == [operationStatus EXCEPT ![elu] = Vrai, ![p] = Vrai]
           v == [fileValue EXCEPT ![elu] = Rien]
           l == RetireMsg(queueMsg[f])
           a == AddMsg(l, fileValue[p])
<1>1. /\ EnModeUser /\ UNCHANGED maxMsg
      /\ queueMsg[f] # <<>> /\ queue[f] # <<>>
      /\ Devient(IF Len(l) < maxMsg[f] THEN Debloque(f)
                 ELSE [Courant EXCEPT !.panique = "add_msg"])
      /\ Ecrit(st, v) /\ queueMsg' = [queueMsg EXCEPT ![f] = a]
  BY DEF PreceiveComplete, EntrePreceive
<1>2. InvFiles /\ panique = "non" /\ operationStatus \in [Procs -> Statuts] /\ ChampsFiles
  BY <1>1, ImplanteFaits DEF InvImplante, EnModeUser
<1>3. p \in Range(queue[f]) /\ p \in Procs
  BY <1>1, <1>2, DebloqueFile
<1> HIDE DEF p
<1>4. st[p] = Vrai /\ \A q \in Procs \ {elu, p} : st[q] = operationStatus[q] /\ v[q] = fileValue[q]
  BY <1>2, <1>3 DEF ChampsFiles
<1> HIDE DEF st, v
<1>5. /\ suite[p].appel = "psend" /\ fileValue[p] \in Messages
      /\ queueMsg[f] \in Seq(Messages) /\ Len(queueMsg[f]) = maxMsg[f] /\ maxMsg[f] \in Nat
  BY <1>1, <1>2, <1>3, ContenuFile
<1>6. l \in Seq(Messages) /\ Len(l) = maxMsg[f] - 1
  BY <1>1, <1>5, MessagesRanges
<1>7. Devient(Debloque(f))
  <2>1. Len(l) < maxMsg[f]
    BY <1>5, <1>6
  <2> HIDE DEF l
  <2> QED
    BY <1>1, <2>1
<1>8. /\ Posture(Courant') /\ p \in Pids
      /\ [q \in Pids |-> AppelDe(q)]'
           = [[q \in Pids |-> AppelDe(q)] EXCEPT ![p] = FileIdeale!Accepte]
  <2>1. /\ Posture(Courant') /\ p \in Pids
        /\ [q \in Pids |-> AppelDe(q)]'
             = [[q \in Pids |-> AppelDe(q)] EXCEPT ![p] =
                   IF suite[p].appel = "psend" THEN FileIdeale!Accepte
                   ELSE FileIdeale!Livre(v[p])]
    BY <1>1, <1>4, <1>7, DebloqueAppels DEF p
  <2> QED
    BY <1>5, <2>1
<1>9. p \in FileIdeale!Emetteurs(f) /\ AppelDe(p).message = fileValue[p]
  BY <1>3, <1>5, <1>8, Attentes
<1>10. Reverse(queueMsg[f]) # <<>> /\ Reverse(a) = Append(Tail(Reverse(queueMsg[f])), fileValue[p])
  <2>1. Reverse(queueMsg[f]) # <<>> /\ Reverse(l) = Tail(Reverse(queueMsg[f]))
    BY <1>1, <1>5, ContenuFIFO
  <2> HIDE DEF l
  <2>2. Reverse(a) = Append(Reverse(l), fileValue[p])
    BY <1>5, <1>6, ContenuFIFO
  <2> QED
    BY <2>1, <2>2
<1> HIDE DEF a
<1>11. [g \in Fids |-> Reverse(queueMsg[g])]'
         = [[g \in Fids |-> Reverse(queueMsg[g])] EXCEPT ![f] =
               Append(Tail(@), [q \in Pids |-> AppelDe(q)][p].message)]
  <2>1. [g \in Fids |-> Reverse(queueMsg[g])]'
          = [[g \in Fids |-> Reverse(queueMsg[g])] EXCEPT ![f] = Reverse(a)]
    BY <1>1, <1>2, ContenuUn
  <2> QED
    BY <1>8, <1>9, <1>10, <2>1
<1> QED
  BY <1>1, <1>8, <1>9, <1>10, <1>11 DEF FileIdeale!PrendEtComplete

\* A call that returns at once.
LEMMA ImmediatAppels ==
    ASSUME InvImplante, InvFiles', EnModeUser, Devient(Courant),
           NEW st, NEW v, Ecrit(st, v),
           \A q \in Procs \ {elu} : st[q] = operationStatus[q] /\ v[q] = fileValue[q]
    PROVE  Posture(Courant') /\ UNCHANGED [p \in Pids |-> AppelDe(p)]
<1> DEFINE x == Courant
           W == {}
<1>1. /\ x.panique = "non" /\ x.queue = queue /\ suite[elu].appel = "user"
      /\ Pids \subseteq Procs
  BY CourantChamps, ImplanteFaits, ConstantesProcs, EntreeFiles
     DEF EnModeUser, User, InvImplante
<1>2. Reveillee(x, Courant, W)
  BY DEF Reveillee, Fige
<1>3. Devient(x)
  OBVIOUS
<1> HIDE DEF x
<1>4. \A g \in Fids : Range(x.queue[g]) \subseteq Range(queue[g])
  BY <1>1
<1>5. \A q \in Procs : q \notin W /\ suite[q].appel \in Messagers =>
          st[q] = operationStatus[q] /\ v[q] = fileValue[q]
  <2> SUFFICES ASSUME NEW q \in Procs, suite[q].appel \in Messagers
               PROVE  st[q] = operationStatus[q] /\ v[q] = fileValue[q]
    OBVIOUS
  <2>1. q # elu
    BY <1>1 DEF Messagers
  <2> QED
    BY <2>1
<1> HIDE DEF W
<1>6. /\ Posture(Courant')
      /\ \A q \in Procs : AppelDe(q)' =
            IF q \in W THEN Etape("ELU", suite[q].appel, Nul, st[q], v[q])
            ELSE AppelDe(q)
  BY <1>1, <1>2, <1>3, <1>4, <1>5, ReveilAppels
<1>7. \A q \in Pids : AppelDe(q)' = AppelDe(q)
  BY <1>1, <1>6 DEF W
<1> QED
  BY <1>6, <1>7

LEMMA PsendDeposeRaffine ==
    ASSUME InvImplante, InvFiles', NEW f \in Fids, NEW m \in Messages, PsendDepose(f, m)
    PROVE  Posture(Courant') /\ FileIdeale!Depose(f, m)
<1> DEFINE st == [operationStatus EXCEPT ![elu] = Vrai]
           v == [fileValue EXCEPT ![elu] = m]
           a == AddMsg(queueMsg[f], m)
<1>1. /\ EnModeUser /\ FidValide(f) /\ UNCHANGED maxMsg
      /\ ~(queueMsg[f] = <<>> /\ queue[f] # <<>>) /\ Len(queueMsg[f]) # maxMsg[f]
      /\ Devient([Courant EXCEPT !.panique = IF Len(queueMsg[f]) < maxMsg[f] THEN @ ELSE "add_msg"])
      /\ Ecrit(st, v) /\ queueMsg' = [queueMsg EXCEPT ![f] = a]
  BY DEF PsendDepose, EntrePsend
<1>2. /\ InvFiles /\ operationStatus \in [Procs -> Statuts] /\ ChampsFiles
      /\ Courant \in Noyaux
  BY ImplanteFaits DEF InvImplante
<1>3. /\ queueMsg[f] \in Seq(Messages) /\ Len(queueMsg[f]) < maxMsg[f]
      /\ Len(queueMsg[f]) \in Nat /\ maxMsg[f] \in Nat
  BY <1>1, <1>2, ContenuFile
<1>4. Devient(Courant)
  <2>1. [Courant EXCEPT !.panique = IF Len(queueMsg[f]) < maxMsg[f] THEN @ ELSE "add_msg"]
           = Courant
    BY <1>2, <1>3 DEF Courant
  <2> QED
    BY <1>1, <2>1
<1>5. Range(queue[f]) = {}
  <2> SUFFICES ASSUME NEW y \in Range(queue[f]) PROVE FALSE
    OBVIOUS
  <2>1. queueMsg[f] = <<>>
    BY <1>1, <1>2, ContenuFile
  <2>2. queue[f] = <<>>
    BY <1>1, <2>1
  <2> QED
    BY <2>2 DEF Range
<1>6. \A q \in Procs \ {elu} : st[q] = operationStatus[q] /\ v[q] = fileValue[q]
  BY <1>2 DEF ChampsFiles
<1> HIDE DEF st, v
<1>7. Posture(Courant') /\ UNCHANGED [p \in Pids |-> AppelDe(p)]
  BY <1>1, <1>4, <1>6, ImmediatAppels
<1>8. /\ Reverse(a) = Append(Reverse(queueMsg[f]), m)
      /\ Len(Reverse(queueMsg[f])) < maxMsg[f]
  BY <1>3, ContenuFIFO
<1> HIDE DEF a
<1>9. [g \in Fids |-> Reverse(queueMsg[g])]'
        = [[g \in Fids |-> Reverse(queueMsg[g])] EXCEPT ![f] = Append(@, m)]
  <2>1. [g \in Fids |-> Reverse(queueMsg[g])]'
          = [[g \in Fids |-> Reverse(queueMsg[g])] EXCEPT ![f] = Reverse(a)]
    BY <1>1, <1>2, ContenuUn
  <2> QED
    BY <1>8, <2>1
<1>10. FileIdeale!Recepteurs(f) = {}
  BY <1>5, Attentes
<1> QED
  BY <1>1, <1>7, <1>8, <1>9, <1>10 DEF FileIdeale!Depose

LEMMA PreceivePrendRaffine ==
    ASSUME InvImplante, InvFiles', NEW f \in Fids, PreceivePrend(f)
    PROVE  Posture(Courant') /\ FileIdeale!Prend(f)
<1> DEFINE st == [operationStatus EXCEPT ![elu] = Vrai]
           v == [fileValue EXCEPT ![elu] = Rien]
           l == RetireMsg(queueMsg[f])
<1>1. /\ EnModeUser /\ UNCHANGED maxMsg
      /\ queueMsg[f] # <<>> /\ queue[f] = <<>> /\ UNCHANGED noyauVars
      /\ Ecrit(st, v) /\ queueMsg' = [queueMsg EXCEPT ![f] = l]
  BY DEF PreceivePrend, EntrePreceive
<1>2. /\ InvFiles /\ operationStatus \in [Procs -> Statuts] /\ ChampsFiles
      /\ panique = "non"
  BY <1>1, ImplanteFaits DEF InvImplante, EnModeUser
<1>3. queueMsg[f] \in Seq(Messages)
  BY <1>2, ContenuFile
<1>4. Devient(Courant)
  BY <1>1, <1>2, DevenueInchangee
<1>5. Range(queue[f]) = {}
  BY <1>1 DEF Range
<1>6. \A q \in Procs \ {elu} : st[q] = operationStatus[q] /\ v[q] = fileValue[q]
  BY <1>2 DEF ChampsFiles
<1> HIDE DEF st, v
<1>7. Posture(Courant') /\ UNCHANGED [p \in Pids |-> AppelDe(p)]
  BY <1>1, <1>4, <1>6, ImmediatAppels
<1>8. Reverse(queueMsg[f]) # <<>> /\ Reverse(l) = Tail(Reverse(queueMsg[f]))
  BY <1>1, <1>3, ContenuFIFO
<1> HIDE DEF l
<1>9. [g \in Fids |-> Reverse(queueMsg[g])]'
        = [[g \in Fids |-> Reverse(queueMsg[g])] EXCEPT ![f] = Tail(@)]
  <2>1. [g \in Fids |-> Reverse(queueMsg[g])]'
          = [[g \in Fids |-> Reverse(queueMsg[g])] EXCEPT ![f] = Reverse(l)]
    BY <1>1, <1>2, ContenuUn
  <2> QED
    BY <1>8, <2>1
<1>10. FileIdeale!Emetteurs(f) = {}
  BY <1>5, Attentes
<1> QED
  BY <1>1, <1>7, <1>8, <1>9, <1>10 DEF FileIdeale!Prend

LEMMA PsendBloqueRaffine ==
    ASSUME InvImplante, InvFiles', NEW f \in Fids, NEW m \in Messages, PsendBloque(f, m)
    PROVE  /\ Posture(Courant')
           /\ \E e \in Pids : FileIdeale!AttendPlace(e, f, m)
<1> DEFINE st == [operationStatus EXCEPT ![elu] = Vrai]
           v == [fileValue EXCEPT ![elu] = m]
<1>1. /\ EnModeUser /\ FidValide(f) /\ UNCHANGED <<maxMsg, queueMsg>>
      /\ Len(queueMsg[f]) = maxMsg[f]
      /\ Devient(Bloque(f, "psend")) /\ Ecrit(st, v)
  BY DEF PsendBloque, EntrePsend
<1>2. /\ InvFiles /\ operationStatus \in [Procs -> Statuts] /\ ChampsFiles
      /\ elu \in Procs
  BY <1>1, ImplanteFaits, EntreeFiles DEF InvImplante, EnModeUser
<1>3. \A q \in Procs \ {elu} : st[q] = operationStatus[q] /\ v[q] = fileValue[q]
  BY <1>2 DEF ChampsFiles
<1>4. v[elu] = m
  BY <1>2 DEF ChampsFiles
<1> HIDE DEF st, v
<1> DEFINE a == "psend"
<1>5. a \in Messagers /\ Devient(Bloque(f, a)) /\ a = "psend"
  BY <1>1 DEF Messagers
<1> HIDE DEF a
<1>6. /\ Posture(Courant')
      /\ \E e \in Pids :
            /\ AppelDe(e) = FileIdeale!Aucun
            /\ AppelDe(e)' = IF a = "psend" THEN FileIdeale!Emission(f, v[e])
                             ELSE FileIdeale!Reception(f)
            /\ e = elu
            /\ \A p \in Pids \ {e} : AppelDe(p)' = AppelDe(p)
  BY <1>1, <1>3, <1>5, BlocageAppels
<1>7. PICK e \in Pids :
            /\ AppelDe(e) = FileIdeale!Aucun
            /\ AppelDe(e)' = IF a = "psend" THEN FileIdeale!Emission(f, v[e])
                             ELSE FileIdeale!Reception(f)
            /\ e = elu
            /\ \A p \in Pids \ {e} : AppelDe(p)' = AppelDe(p)
  BY <1>6
<1>8. AppelDe(e)' = FileIdeale!Emission(f, m)
  BY <1>4, <1>5, <1>7
<1>9. [p \in Pids |-> AppelDe(p)]'
        = [[p \in Pids |-> AppelDe(p)] EXCEPT ![e] = FileIdeale!Emission(f, m)]
  BY <1>7, <1>8, AppelUnSeul
<1>10. Len(Reverse(queueMsg[f])) = maxMsg[f]
  BY <1>1, <1>2, ContenuFile, ContenuFIFO
<1>11. FileIdeale!AttendPlace(e, f, m)
  BY <1>1, <1>7, <1>9, <1>10 DEF FileIdeale!AttendPlace, FidValide
<1> QED
  BY <1>6, <1>11

LEMMA PreceiveBloqueRaffine ==
    ASSUME InvImplante, InvFiles', NEW f \in Fids, PreceiveBloque(f)
    PROVE  /\ Posture(Courant')
           /\ \E e \in Pids : FileIdeale!AttendMessage(e, f)
<1> DEFINE st == [operationStatus EXCEPT ![elu] = Vrai]
           v == [fileValue EXCEPT ![elu] = Rien]
<1>1. /\ EnModeUser /\ FidValide(f) /\ UNCHANGED <<maxMsg, queueMsg>>
      /\ queueMsg[f] = <<>>
      /\ Devient(Bloque(f, "preceive")) /\ Ecrit(st, v)
  BY DEF PreceiveBloque, EntrePreceive
<1>2. /\ InvFiles /\ operationStatus \in [Procs -> Statuts] /\ ChampsFiles
      /\ elu \in Procs
  BY <1>1, ImplanteFaits, EntreeFiles DEF InvImplante, EnModeUser
<1>3. \A q \in Procs \ {elu} : st[q] = operationStatus[q] /\ v[q] = fileValue[q]
  BY <1>2 DEF ChampsFiles
<1> HIDE DEF st, v
<1> DEFINE a == "preceive"
<1>4. a \in Messagers /\ Devient(Bloque(f, a)) /\ a # "psend"
  BY <1>1 DEF Messagers
<1> HIDE DEF a
<1>5. /\ Posture(Courant')
      /\ \E e \in Pids :
            /\ AppelDe(e) = FileIdeale!Aucun
            /\ AppelDe(e)' = IF a = "psend" THEN FileIdeale!Emission(f, v[e])
                             ELSE FileIdeale!Reception(f)
            /\ e = elu
            /\ \A p \in Pids \ {e} : AppelDe(p)' = AppelDe(p)
  BY <1>1, <1>3, <1>4, BlocageAppels
<1>6. PICK e \in Pids :
            /\ AppelDe(e) = FileIdeale!Aucun
            /\ AppelDe(e)' = FileIdeale!Reception(f)
            /\ \A p \in Pids \ {e} : AppelDe(p)' = AppelDe(p)
  BY <1>4, <1>5
<1>7. [p \in Pids |-> AppelDe(p)]'
        = [[p \in Pids |-> AppelDe(p)] EXCEPT ![e] = FileIdeale!Reception(f)]
  BY <1>6, AppelUnSeul
<1>8. Reverse(queueMsg[f]) = <<>>
  BY <1>1 DEF Reverse
<1>9. FileIdeale!AttendMessage(e, f)
  BY <1>1, <1>6, <1>7, <1>8 DEF FileIdeale!AttendMessage, FidValide
<1> QED
  BY <1>5, <1>9

LEMMA RepriseFileRaffine ==
    ASSUME InvImplante, RepriseFile
    PROVE  Posture(Courant') /\ \E e \in Pids : FileIdeale!Termine(e)
<1>1. /\ suite[elu].appel \in Messagers
      /\ panique = "non" /\ Devient([Courant EXCEPT !.suite[elu] = User])
      /\ UNCHANGED <<operationStatus, maxMsg, queueMsg, fileValue>>
  BY DEF RepriseFile, Messagers, semaphoreVars, filesVars
<1>2. /\ TypeNoyau /\ Regle(Courant) /\ Posture(Courant)
      /\ Courant.elu = elu /\ Courant.etat = etat /\ Courant.suite = suite
      /\ elu \in Procs /\ suite \in [Procs -> Suites]
  BY ImplanteFaits, CourantChamps DEF TypeNoyau
<1>3. /\ suite' = [suite EXCEPT ![elu] = User] /\ etat' = etat /\ queue' = queue
  BY <1>1 DEF Devient, Courant
<1>4. elu # Idle
  <2>1. suite[Idle].appel \in {"user", "tic"}
    BY <1>2 DEF Regle, IdlePret
  <2> QED
    BY <1>1, <2>1 DEF Messagers
<1>5. PICK e \in Pids : e = elu
  BY <1>2, <1>4, ConstantesProcs DEF Procs
<1>6. e \in Procs /\ etat[e] = "ELU" /\ Pids \subseteq Procs
  BY <1>2, <1>5, ConstantesProcs DEF Regle
<1>7. AppelDe(e) # FileIdeale!Aucun
  <2>1. AppelDe(e) = Etape("ELU", suite[e].appel, FileDans(queue, e),
                           operationStatus[e], fileValue[e])
    BY <1>6, AppelParValeur
  <2>2. suite[e].appel \in Messagers
    BY <1>1, <1>5
  <2> QED
    BY <2>1, <2>2 DEF Etape, Prets, FileIdeale!Aucun, FileIdeale!Echoue, FileIdeale!Accepte,
                      FileIdeale!Livre
<1>8. suite'[e].appel = "user" /\ \A p \in Procs \ {e} : suite'[p] = suite[p]
  BY <1>2, <1>3, <1>5, <1>6 DEF User
<1>9. AppelDe(e)' = FileIdeale!Aucun
  BY <1>6, <1>8, AppelParValeur DEF Etape, Messagers
<1>10. \A p \in Pids \ {e} : AppelDe(p)' = AppelDe(p)
  BY <1>1, <1>3, <1>6, <1>8, AppelParValeur
<1>11. [p \in Pids |-> AppelDe(p)]'
         = [[p \in Pids |-> AppelDe(p)] EXCEPT ![e] = FileIdeale!Aucun]
  BY <1>9, <1>10, AppelUnSeul
<1>12. UNCHANGED <<maxMsg, [g \in Fids |-> Reverse(queueMsg[g])]>>
  BY <1>1
<1>13. FileIdeale!Termine(e)
  BY <1>7, <1>11, <1>12 DEF FileIdeale!Termine
<1>14. Posture(Courant')
  <2>1. Courant'.etat = etat /\ Courant'.suite = suite'
    BY <1>3 DEF Courant
  <2>2. \A p \in Procs : Posee(etat[p], suite[p].appel)
    BY <1>2 DEF Posture
  <2>3. Posee(etat[e], suite'[e].appel)
    BY <1>6, <1>8 DEF Posee, Appels, EtatsAppel
  <2> QED
    BY <1>8, <2>1, <2>2, <2>3 DEF Posture
<1> QED
  BY <1>13, <1>14

LEMMA FilesRaffine ==
    ASSUME InvImplante, InvFiles', FilesNext
    PROVE  Posture(Courant') /\ FileIdeale!Next
<1>1. ASSUME NEW f \in Fids, NEW n \in 1 .. MsgMax, Pcreate(f, n)
      PROVE  Posture(Courant') /\ FileIdeale!Next
  BY <1>1, PcreateRaffine DEF FileIdeale!Next
<1>2. ASSUME NEW f \in Fids, Pdelete(f) \/ Preset(f)
      PROVE  Posture(Courant') /\ FileIdeale!Next
  <2>1. /\ panique = "non" /\ FidValide(f) /\ Vidange(f)
        /\ maxMsg \in [Fids -> 0 .. MsgMax] /\ MsgMax \in Nat
    BY <1>2, ImplanteFaits, FilesAssumption DEF Pdelete, Preset, EnModeUser, ChampsFiles
  <2>2. PICK n \in {0, maxMsg[f]} : maxMsg' = [maxMsg EXCEPT ![f] = n]
    <3>1. maxMsg = [maxMsg EXCEPT ![f] = maxMsg[f]]
      BY <2>1
    <3> QED
      BY <1>2, <3>1 DEF Pdelete, Preset
  <2>3. n \in 0 .. MsgMax
    BY <2>1
  <2>4. Posture(Courant') /\ FileIdeale!Vide(f, n)
    BY <2>1, <2>2, VidangeRaffine
  <2> QED
    BY <2>3, <2>4 DEF FileIdeale!Next
<1>3. ASSUME NEW f \in Fids, NEW m \in Messages, Psend(f, m)
      PROVE  Posture(Courant') /\ FileIdeale!Next
  <2>1. CASE PsendRemet(f, m)
    BY <2>1, PsendRemetRaffine DEF FileIdeale!Next
  <2>2. CASE PsendBloque(f, m)
    BY <2>2, PsendBloqueRaffine DEF FileIdeale!Next
  <2>3. CASE PsendDepose(f, m)
    BY <2>3, PsendDeposeRaffine DEF FileIdeale!Next
  <2> QED
    BY <1>3, <2>1, <2>2, <2>3 DEF Psend
<1>4. ASSUME NEW f \in Fids, Preceive(f)
      PROVE  Posture(Courant') /\ FileIdeale!Next
  <2>1. CASE PreceiveBloque(f)
    BY <2>1, PreceiveBloqueRaffine DEF FileIdeale!Next
  <2>2. CASE PreceivePrend(f)
    BY <2>2, PreceivePrendRaffine DEF FileIdeale!Next
  <2>3. CASE PreceiveComplete(f)
    BY <2>3, PreceiveCompleteRaffine DEF FileIdeale!Next
  <2> QED
    BY <1>4, <2>1, <2>2, <2>3 DEF Preceive
<1>5. CASE RepriseFile
  BY <1>5, RepriseFileRaffine DEF FileIdeale!Next
<1> QED
  BY <1>1, <1>2, <1>3, <1>4, <1>5 DEF FilesNext

LEMMA ImplantePas ==
    InvImplante /\ [FilesNext \/ HorsFilesNext]_varsFiles
        => InvImplante' /\ [FileIdeale!Next]_(FileIdeale!vars)
<1> SUFFICES ASSUME InvImplante, [FilesNext \/ HorsFilesNext]_varsFiles
             PROVE  InvImplante' /\ [FileIdeale!Next]_(FileIdeale!vars)
  OBVIOUS
<1>1. InvFiles'
  BY FilesPas DEF InvImplante
<1>2. CASE FilesNext
  BY <1>1, <1>2, FilesRaffine DEF InvImplante
<1>3. CASE HorsFilesNext
  BY <1>1, <1>3, HorsFilesRaffine DEF InvImplante, FileIdeale!Next
<1>4. CASE UNCHANGED varsFiles
  <2>1. UNCHANGED <<noyauVars, operationStatus, maxMsg, queueMsg, fileValue>>
    BY <1>4 DEF varsFiles, varsSemaphore, vars, semaphoreVars, filesVars
  <2>2. Courant' = Courant
    BY <2>1 DEF Courant, noyauVars
  <2>3. \A p \in Pids : AppelDe(p)' = AppelDe(p)
    BY <2>1, ConstantesProcs, AppelParValeur DEF noyauVars
  <2>4. UNCHANGED (FileIdeale!vars)
    BY <2>1, <2>3, ContenuInchange
  <2> QED
    BY <1>1, <2>2, <2>4 DEF InvImplante
<1> QED
  BY <1>2, <1>3, <1>4

LEMMA ImplanteInit == FilesInit => InvImplante /\ FileIdeale!Init
<1> SUFFICES ASSUME FilesInit PROVE InvImplante /\ FileIdeale!Init
  OBVIOUS
<1>1. InvFiles
  BY FilesInitiales
<1>2. \A p \in Procs : suite[p].appel = "user" /\ etat[p] \in {"ELU", "ACTIVABLE", "LIBRE"}
  BY DEF FilesInit, SemaphoreInit, Init, NoyauInit, User
<1>3. Posture(Courant)
  BY <1>2, CourantChamps DEF Posture, Posee, Appels, EtatsAppel
<1>4. \A p \in Pids : AppelDe(p) = FileIdeale!Aucun
  BY <1>2, ConstantesProcs, AppelParValeur DEF Etape, Messagers
<1>5. /\ maxMsg = [f \in Fids |-> 0]
      /\ [g \in Fids |-> Reverse(queueMsg[g])] = [g \in Fids |-> <<>>]
  <2>1. Reverse(<<>>) = <<>>
    BY DEF Reverse
  <2>2. \A g \in Fids : queueMsg[g] = <<>>
    BY DEF FilesInit
  <2> QED
    BY <2>1, <2>2 DEF FilesInit
<1> QED
  BY <1>1, <1>3, <1>4, <1>5 DEF InvImplante, FileIdeale!Init

\* The calls of files.c implement bounded FIFO files: no message accepted is
\* lost, delivered twice or out of order while its file exists, and psend()
\* and preceive() return the answer of the call that woke them, although the
\* file may have been emptied, deleted or created again in between.
THEOREM ImplementeFileCorrecte == SpecFiles => ImplementeFile
<1>1. FilesInit => InvImplante /\ FileIdeale!Init
  BY ImplanteInit
<1>2. InvImplante /\ [FilesNext \/ HorsFilesNext]_varsFiles
          => InvImplante' /\ [FileIdeale!Next]_(FileIdeale!vars)
  BY ImplantePas
<1> QED
  BY <1>1, <1>2, PTL DEF SpecFiles, ImplementeFile, FileIdeale!Spec
=============================================================================
