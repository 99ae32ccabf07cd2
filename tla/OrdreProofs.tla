---------------------------- MODULE OrdreProofs ----------------------------
(***************************************************************************)
(* Proofs of what Horloge promises of the order of the lists (FilesTriees) *)
(* and of who gets the processor: Preemption, ReveilALHeure,               *)
(* TourDOrdonnancement.                                                    *)
(***************************************************************************)
EXTENDS ParenteProofs

-----------------------------------------------------------------------------
\* The order of the lists, on a kernel state.

\* FilesTriees of k.
Ordre(k) ==
    Triee(k.queue["activables"], k.prio) /\ Triee(k.queue["endormis"], k.reveil)

\* Keys that change outside of a list leave its order as it was.
LEMMA TrieeCles ==
    ASSUME NEW S, NEW q \in Seq(S), NEW c1, NEW c2, Triee(q, c1),
           \A x \in Range(q) : c1[x] = c2[x]
    PROVE  Triee(q, c2)
<1>1. \A i \in 1 .. Len(q) : q[i] \in Range(q)
  BY DEF Range
<1> QED
  BY <1>1 DEF Triee

LEMMA EnfileOrdre ==
    ASSUME NEW k \in Noyaux, NEW p \in Procs, NEW f \in Queues, Ordre(k)
    PROVE  Ordre(Enfile(k, p, f))
<1>1. CASE Chaine(k, p)
  <2>1. Enfile(k, p, f) = [k EXCEPT !.panique = "queue_add"]
    BY <1>1 DEF Enfile
  <2> QED
    BY <2>1 DEF Ordre, Noyaux
<1>2. CASE ~ Chaine(k, p)
  <2> DEFINE a == QueueAdd(k.queue[f], p, Cle(k, f))
             q == [k.queue EXCEPT ![f] = a]
             r == [k EXCEPT !.queue = q]
  <2>1. Enfile(k, p, f) = r
    BY <1>2 DEF Enfile
  <2>2. Triee(k.queue[f], Cle(k, f)) => Triee(a, Cle(k, f))
    <3>1. k.queue[f] \in Seq(Procs)
      BY DEF Noyaux
    <3> QED
      BY <3>1, CleType, QueueAddElements
  <2>3. r.queue = q /\ r.prio = k.prio /\ r.reveil = k.reveil
    <3> HIDE DEF q
    <3> QED
      BY DEF Noyaux
  <2> HIDE DEF a, r
  <2>4. q[f] = a /\ \A g \in Queues : g # f => q[g] = k.queue[g]
    BY DEF Noyaux
  <2> HIDE DEF q
  <2>5. /\ f = "activables" => Cle(k, f) = k.prio
        /\ f = "endormis" => Cle(k, f) = k.reveil
    BY NoyauAssumption DEF Cle
  <2>6. Triee(q["activables"], k.prio)
    BY <2>2, <2>4, <2>5, ConstantesQueues DEF Ordre
  <2>7. Triee(q["endormis"], k.reveil)
    BY <2>2, <2>4, <2>5, ConstantesQueues DEF Ordre
  <2> QED
    BY <2>1, <2>3, <2>6, <2>7 DEF Ordre
<1> QED
  BY <1>1, <1>2

\* What queue_del takes out of a list leaves it in order, for keys that are
\* those of the list except perhaps at the element taken.
LEMMA DefileOrdre ==
    ASSUME NEW k \in Noyaux, NEW p \in Procs, Chainage(k.queue, k.etat, {}),
           NEW pr \in [Procs -> 0 .. PrioMax],
           Triee(k.queue["activables"], pr), \A x \in Procs \ {p} : pr[x] = k.prio[x],
           Triee(k.queue["endormis"], k.reveil),
           Chaine(k, p) \/ pr[p] = k.prio[p]
    PROVE  Ordre(Defile(k, p))
<1>1. /\ k.queue["activables"] \in Seq(Procs)
      /\ Range(k.queue["activables"]) \subseteq Procs
  <2>1. k.queue["activables"] \in Seq(Procs)
    BY ConstantesQueues DEF Noyaux
  <2> QED
    BY <2>1, RangeEquality
<1>2. CASE ~ Chaine(k, p)
  <2>1. Triee(k.queue["activables"], k.prio)
    <3>1. \A x \in Range(k.queue["activables"]) : pr[x] = k.prio[x]
      BY <1>1, <1>2
    <3> QED
      BY <1>1, <3>1, TrieeCles
  <2>2. Defile(k, p) = [k EXCEPT !.panique = "queue_del"]
    BY <1>2 DEF Defile
  <2> QED
    BY <2>1, <2>2 DEF Ordre, Noyaux
<1>3. CASE Chaine(k, p)
  <2> DEFINE f == CHOOSE g \in Queues : DansQueue(k, p, g)
             a == QueueDel(k.queue[f], p)
             q == [k.queue EXCEPT ![f] = a]
             r == [k EXCEPT !.queue = q]
  <2>1. f \in Queues /\ p \in Range(k.queue[f])
    BY <1>3 DEF Chaine, DansQueue, Membres
  <2>2. Defile(k, p) = r
    BY <1>3 DEF Defile
  <2> HIDE DEF f
  <2>3. k.queue[f] \in Seq(Procs) /\ IsInjective(k.queue[f])
    BY <2>1 DEF Noyaux, Chainage
  <2>4. /\ a \in Seq(Procs) /\ Range(a) \subseteq Range(k.queue[f])
        /\ p \notin Range(a)
        /\ \A cle : Triee(k.queue[f], cle) => Triee(a, cle)
    BY <2>1, <2>3, QueueDelElements
  <2>5. r.queue = q /\ r.prio = k.prio /\ r.reveil = k.reveil
    <3> HIDE DEF q
    <3> QED
      BY DEF Noyaux
  <2> HIDE DEF a, r
  <2>6. q[f] = a /\ \A g \in Queues : g # f => q[g] = k.queue[g]
    BY <2>1 DEF Noyaux
  <2> HIDE DEF q
  <2>7. Triee(q["activables"], pr) /\ Triee(q["endormis"], k.reveil)
    BY <2>4, <2>6, ConstantesQueues
  <2>8. p \notin Range(q["activables"])
    BY <2>1, <2>4, <2>6, ConstantesQueues DEF Chainage
  <2>9. /\ q["activables"] \in Seq(Procs)
        /\ Range(q["activables"]) \subseteq Procs
    BY <1>1, <2>4, <2>6, ConstantesQueues, RangeEquality
  <2>10. Triee(q["activables"], k.prio)
    <3>1. \A x \in Range(q["activables"]) : pr[x] = k.prio[x]
      BY <2>8, <2>9
    <3> QED
      BY <2>7, <2>9, <3>1, TrieeCles
  <2> QED
    BY <2>2, <2>5, <2>7, <2>10 DEF Ordre
<1> QED
  BY <1>2, <1>3

LEMMA ActiveOrdre ==
    ASSUME NEW k \in Noyaux, NEW p \in Procs, Ordre(k)
    PROVE  Ordre(Active(k, p))
<1> DEFINE k1 == [k EXCEPT !.etat[p] = "ACTIVABLE"]
<1>1. k1 \in Noyaux
  BY EtatType DEF Etats
<1>2. Ordre(k1)
  BY DEF Ordre, Noyaux
<1>3. Active(k, p) = Enfile(k1, p, "activables")
  BY DEF Active
<1> HIDE DEF k1
<1> QED
  BY <1>1, <1>2, <1>3, ConstantesQueues, EnfileOrdre

LEMMA ActiveTousOrdre ==
    ASSUME NEW k \in Noyaux, NEW w \in Seq(Procs), Ordre(k)
    PROVE  Ordre(ActiveTous(k, w))
<1>1. CASE \E p \in Range(w) : Chaine(k, p)
  <2>1. ActiveTous(k, w) = [k EXCEPT !.panique = "queue_add"]
    BY <1>1 DEF ActiveTous
  <2> QED
    BY <2>1 DEF Ordre, Noyaux
<1>2. CASE ~ \E p \in Range(w) : Chaine(k, p)
  <2> DEFINE a == QueueAddTous(k.queue["activables"], w, k.prio)
             q == [k.queue EXCEPT !["activables"] = a]
             e == [p \in Procs |-> IF p \in Range(w) THEN "ACTIVABLE" ELSE k.etat[p]]
             r == [k EXCEPT !.etat = e, !.queue = q]
  <2>1. ActiveTous(k, w) = r
    BY <1>2 DEF ActiveTous
  <2>2. Triee(a, k.prio)
    <3>1. k.queue["activables"] \in Seq(Procs) /\ k.prio \in [Procs -> Nat]
      BY ConstantesQueues, NoyauAssumption DEF Noyaux
    <3> QED
      BY <3>1, QueueAddTousElements DEF Ordre
  <2>3. r.queue = q /\ r.prio = k.prio /\ r.reveil = k.reveil
    <3> HIDE DEF q, e
    <3> QED
      BY DEF Noyaux
  <2> HIDE DEF a, r
  <2>4. q["activables"] = a /\ q["endormis"] = k.queue["endormis"]
    BY ConstantesQueues DEF Noyaux
  <2> QED
    BY <2>1, <2>2, <2>3, <2>4 DEF Ordre
<1> QED
  BY <1>1, <1>2

\* free_mourant_queue() clears keys of processes in neither list.
LEMMA FreeMourantQueueOrdre ==
    ASSUME NEW k \in Noyaux, NEW L, Chainage(k.queue, k.etat, L), IdlePret(k),
           Ordre(k), FreeMourantQueue(k).panique = "non"
    PROVE  Ordre(FreeMourantQueue(k))
<1> DEFINE r == FreeMourantQueue(k)
           m == Morts(k)
           A == k.queue["activables"]
           E == k.queue["endormis"]
<1>1. k.panique = "non" /\ k.elu \notin m
  BY FreeMourantQueuePanique
<1>2. /\ r.queue = [k.queue EXCEPT !["mourants"] = <<>>]
      /\ \A p \in Procs : /\ r.prio[p] = IF p \in m THEN 0 ELSE k.prio[p]
                          /\ r.reveil[p] = IF p \in m THEN 0 ELSE k.reveil[p]
  BY <1>1, FreeMourantQueueChamps
<1> HIDE DEF r
<1>3. r.queue["activables"] = A /\ r.queue["endormis"] = E
  BY <1>2, ConstantesQueues DEF Noyaux
<1>4. \A p \in m : k.etat[p] \in {"MOURANT", "ZOMBIE"}
  BY MortsFinis
<1>5. A \in Seq(Procs) /\ E \in Seq(Procs)
  BY ConstantesQueues DEF Noyaux
<1>6. /\ \A x \in Range(A) : x \in Procs /\ "activables" \in QueuesDe(k.etat[x])
      /\ \A x \in Range(E) : x \in Procs /\ "endormis" \in QueuesDe(k.etat[x])
  BY <1>5, ConstantesQueues, RangeEquality DEF Chainage
<1> HIDE DEF m, A, E
<1>7. \A x \in Range(A) \cup Range(E) : x \in Procs /\ x \notin m
  BY <1>4, <1>6, QueuesDeValeurs
<1>8. Triee(A, r.prio) /\ Triee(E, r.reveil)
  <2>1. Triee(A, k.prio) /\ Triee(E, k.reveil)
    BY DEF Ordre, A, E
  <2>2. /\ \A x \in Range(A) : k.prio[x] = r.prio[x]
        /\ \A x \in Range(E) : k.reveil[x] = r.reveil[x]
    BY <1>2, <1>7
  <2> QED
    BY <1>5, <2>1, <2>2, TrieeCles
<1> QED
  BY <1>3, <1>8 DEF Ordre, r

LEMMA RangeEluOrdre ==
    ASSUME NEW k \in Noyaux, Ordre(k)
    PROVE  Ordre(RangeElu(k))
<1>1. k.elu \in Procs
  BY DEF Noyaux
<1>2. CASE k.etat[k.elu] = "MOURANT"
  BY <1>1, <1>2, ConstantesQueues, EnfileOrdre DEF RangeElu
<1>3. CASE k.etat[k.elu] \in {"ELU", "ACTIVABLE"}
  <2>1. RangeElu(k) = Active(k, k.elu)
    BY <1>3 DEF RangeElu
  <2> QED
    BY <1>1, <2>1, ActiveOrdre
<1>4. CASE k.etat[k.elu] \notin {"MOURANT", "ELU", "ACTIVABLE"}
  BY <1>4 DEF RangeElu
<1> QED
  BY <1>2, <1>3, <1>4

\* When the element that queue_add puts in an ordered list is the one that
\* queue_out would take, it is stronger than all the others.
LEMMA QueueAddTete ==
    ASSUME NEW S, NEW q \in Seq(S), NEW e \in S, NEW cle \in [S -> Nat],
           e \notin Range(q), QueueTop(QueueAdd(q, e, cle)) = e,
           NEW x \in Range(q)
    PROVE  cle[x] < cle[e]
<1>1. PICK i \in 1 .. Len(q) + 1 :
        /\ i = Place(q, e, cle)
        /\ \A j \in 1 .. Len(q) : j < i => cle[q[j]] < cle[e]
  BY PlaceBornes
<1>2. PICK r \in Seq(S) : r = InsertAt(q, i, e) /\ Inseree(r, q, i, e)
  BY InsertAtElements
<1>3. /\ Len(r) = Len(q) + 1
      /\ \A j \in i + 1 .. Len(q) + 1 : r[j] = q[j - 1]
  BY <1>2 DEF Inseree
<1>4. r[Len(r)] = e
  BY <1>1, <1>2 DEF QueueAdd, QueueTop, Last
<1>5. i = Len(q) + 1
  <2> SUFFICES ASSUME i # Len(q) + 1 PROVE FALSE
    OBVIOUS
  <2>1. /\ Len(q) + 1 \in i + 1 .. Len(q) + 1 /\ (Len(q) + 1) - 1 = Len(q)
        /\ Len(q) \in 1 .. Len(q)
    OBVIOUS
  <2>2. r[Len(q) + 1] = q[(Len(q) + 1) - 1]
    BY <1>3, <2>1
  <2>3. \A j \in 1 .. Len(q) : q[j] \in Range(q)
    BY DEF Range
  <2> QED
    BY <1>3, <1>4, <2>1, <2>2, <2>3
<1>6. PICK j \in 1 .. Len(q) : x = q[j]
  <2>1. Range(q) = {q[j] : j \in 1 .. Len(q)}
    BY RangeEquality
  <2> QED
    BY <2>1
<1> QED
  BY <1>1, <1>5, <1>6

-----------------------------------------------------------------------------
\* Who is elected.

\* The states of a process that has the processor or may be given it.
Prets == {"ELU", "ACTIVABLE"}

\* EluPrioritaire of k.
EluFort(k) == \A p \in Procs : k.etat[p] = "ACTIVABLE" => k.prio[p] <= k.prio[k.elu]

LEMMA RangeEluPrets ==
    ASSUME NEW k \in Noyaux, NEW p \in Procs, RangeElu(k).etat[p] \in Prets
    PROVE  k.etat[p] \in Prets
<1>1. k.elu \in Procs /\ k.etat \in [Procs -> Etats]
  BY DEF Noyaux
<1>2. ASSUME NEW m \in Noyaux, NEW x, NEW f PROVE Enfile(m, x, f).etat = m.etat
  BY DEF Enfile, Noyaux
<1>3. CASE k.etat[k.elu] = "MOURANT"
  BY <1>2, <1>3 DEF RangeElu
<1>4. CASE k.etat[k.elu] \in {"ELU", "ACTIVABLE"}
  <2> DEFINE m == [k EXCEPT !.etat[k.elu] = "ACTIVABLE"]
  <2>1. m \in Noyaux
    BY <1>1, EtatType DEF Etats
  <2>2. m.etat = [k.etat EXCEPT ![k.elu] = "ACTIVABLE"]
    BY DEF Noyaux
  <2>3. RangeElu(k) = Enfile(m, k.elu, "activables")
    BY <1>4 DEF RangeElu, Active
  <2> HIDE DEF m
  <2>4. RangeElu(k).etat = m.etat
    BY <1>2, <2>1, <2>3
  <2> QED
    BY <1>1, <1>4, <2>2, <2>4 DEF Prets
<1>5. CASE k.etat[k.elu] \notin {"MOURANT", "ELU", "ACTIVABLE"}
  BY <1>5 DEF RangeElu
<1> QED
  BY <1>3, <1>4, <1>5

LEMMA ElitChamps ==
    ASSUME NEW k \in Noyaux, NEW p \in Procs
    PROVE  LET r == Elit(k, p)
           IN  /\ r.elu = p /\ r.prio = k.prio /\ r.reveil = k.reveil
               /\ r.etat = [k.etat EXCEPT ![p] = "ELU"]
               /\ r.queue["activables"] = QueueOut(k.queue["activables"])
               /\ r.queue["endormis"] = k.queue["endormis"]
BY ConstantesQueues DEF Elit, Noyaux

\* ordonnanceur() leaves the lists in order, gives the processor to none that
\* a ready process is stronger than, and makes none ready.
LEMMA OrdonnanceurOrdre ==
    ASSUME NEW k \in Noyaux, Pret(k), Ordre(k), Ordonnanceur(k).panique = "non"
    PROVE  LET r == Ordonnanceur(k)
           IN  /\ Ordre(r) /\ EluFort(r)
               /\ \A p \in Procs : r.etat[p] \in Prets => k.etat[p] \in Prets
<1> DEFINE k1 == FreeMourantQueue(k)
           k2 == RangeElu(k1)
           p == QueueTop(k2.queue["activables"])
           r == Ordonnanceur(k)
<1>1. /\ k.panique = "non" /\ k.elu \notin Morts(k)
      /\ k1 \in Noyaux /\ k1.panique = "non" /\ k1.elu = k.elu /\ Pret(k1)
      /\ Regle(r)
      /\ \/ r = k1 /\ k1.queue["activables"] = <<>>
         \/ /\ r = Elit(k2, p)
            /\ k2 \in Noyaux /\ Chainage(k2.queue, k2.etat, {})
            /\ k2.queue["activables"] # <<>>
            /\ p \in Procs /\ p \in Range(k2.queue["activables"])
            /\ k2.etat[p] = "ACTIVABLE"
  BY OrdonnanceurForme
<1>2. Chainage(k.queue, k.etat, Tenu(k)) /\ IdlePret(k)
  BY DEF Pret
<1>3. Ordre(k1)
  BY <1>1, <1>2, FreeMourantQueueOrdre
<1>4. \A x \in Procs : k1.etat[x] \in Prets => k.etat[x] \in Prets
  <2>1. \A x \in Procs : k1.etat[x] = IF x \in Morts(k) THEN "LIBRE" ELSE k.etat[x]
    BY <1>1, FreeMourantQueueChamps
  <2> QED
    BY <2>1 DEF Prets
<1>5. \A x \in Procs : r.etat[x] = "ACTIVABLE" => x \in Range(r.queue["activables"])
  BY <1>1, QueuesDeValeurs, ConstantesQueues DEF Regle, Chainage
<1> HIDE DEF k1
<1>6. Ordre(k2)
  BY <1>1, <1>3, RangeEluOrdre
<1>7. \A x \in Procs : k2.etat[x] \in Prets => k.etat[x] \in Prets
  BY <1>1, <1>4, RangeEluPrets
<1> HIDE DEF k2, p, r
<1>8. CASE r = k1 /\ k1.queue["activables"] = <<>>
  <2>1. Range(r.queue["activables"]) = {}
    BY <1>8 DEF Range
  <2>2. EluFort(r)
    BY <1>5, <2>1 DEF EluFort
  <2> QED
    BY <1>3, <1>4, <1>8, <2>2 DEF r
<1>9. CASE /\ r = Elit(k2, p)
           /\ k2 \in Noyaux
           /\ k2.queue["activables"] # <<>>
           /\ p \in Procs
           /\ k2.etat[p] = "ACTIVABLE"
  <2>1. /\ r.elu = p /\ r.prio = k2.prio /\ r.reveil = k2.reveil
        /\ r.etat = [k2.etat EXCEPT ![p] = "ELU"]
        /\ r.queue["activables"] = QueueOut(k2.queue["activables"])
        /\ r.queue["endormis"] = k2.queue["endormis"]
    BY <1>9, ElitChamps
  <2>2. k2.queue["activables"] \in Seq(Procs) /\ k2.etat \in [Procs -> Etats]
    BY <1>9, ConstantesQueues DEF Noyaux
  <2>3. /\ Triee(QueueOut(k2.queue["activables"]), k2.prio)
        /\ \A x \in Range(QueueOut(k2.queue["activables"])) : k2.prio[x] <= k2.prio[p]
    BY <1>6, <1>9, <2>2, QueueOutElements DEF Ordre, p
  <2>4. Ordre(r)
    BY <1>6, <2>1, <2>3 DEF Ordre
  <2>5. EluFort(r)
    BY <1>5, <2>1, <2>3 DEF EluFort
  <2>6. \A x \in Procs : r.etat[x] \in Prets => k2.etat[x] \in Prets
    BY <1>9, <2>1, <2>2 DEF Prets
  <2> QED
    BY <1>7, <2>4, <2>5, <2>6 DEF r
<1> QED
  BY <1>1, <1>8, <1>9 DEF p

\* The process ordonnanceur() leaves the processor to was stronger than all
\* the ready ones, not as strong.
LEMMA OrdonnanceurReste ==
    ASSUME NEW k \in Noyaux, Pret(k), Ordre(k), Ordonnanceur(k).panique = "non",
           k.etat[k.elu] = "ELU", Ordonnanceur(k).elu = k.elu,
           NEW x \in Procs \ {k.elu}, k.etat[x] = "ACTIVABLE"
    PROVE  k.prio[x] < k.prio[k.elu]
<1> DEFINE k1 == FreeMourantQueue(k)
           k2 == RangeElu(k1)
           p == QueueTop(k2.queue["activables"])
           r == Ordonnanceur(k)
           A == k1.queue["activables"]
<1>1. /\ k.panique = "non" /\ k.elu \notin Morts(k)
      /\ k1 \in Noyaux /\ k1.panique = "non" /\ k1.elu = k.elu /\ Pret(k1)
      /\ \/ r = k1 /\ A = <<>>
         \/ r = Elit(k2, p) /\ k2 \in Noyaux /\ p \in Procs
  BY OrdonnanceurForme
<1>2. Chainage(k.queue, k.etat, Tenu(k)) /\ IdlePret(k)
  BY DEF Pret
<1>3. x \notin Morts(k)
  BY <1>2, MortsFinis
<1>4. k.elu \in Procs
  BY DEF Noyaux
<1>5. /\ k1.etat[x] = "ACTIVABLE" /\ k1.prio[x] = k.prio[x]
      /\ k1.etat[k.elu] = "ELU" /\ k1.prio[k.elu] = k.prio[k.elu]
  BY <1>1, <1>3, <1>4, FreeMourantQueueChamps
<1> HIDE DEF k1
<1>6. Chainage(k1.queue, k1.etat, {k.elu})
  BY <1>1, <1>5 DEF Pret, Tenu
<1>7. x \in Range(A)
  BY <1>5, <1>6, QueuesDeValeurs DEF Chainage
<1>8. \A f \in Queues : k.elu \notin Range(k1.queue[f])
  BY <1>4, <1>6 DEF Chainage
<1>9. A # <<>>
  BY <1>7 DEF Range
<1>10. k2.queue["activables"] = QueueAdd(A, k.elu, k1.prio)
  <2> DEFINE m == [k1 EXCEPT !.etat[k.elu] = "ACTIVABLE"]
  <2>1. m.queue = k1.queue /\ m.prio = k1.prio /\ m \in Noyaux
    BY <1>1, <1>4, EtatType DEF Noyaux, Etats
  <2>2. k2 = Enfile(m, k.elu, "activables")
    BY <1>1, <1>5 DEF RangeElu, Active
  <2> HIDE DEF m
  <2>3. ~ Chaine(m, k.elu)
    BY <1>8, <2>1 DEF Chaine, DansQueue, Membres
  <2>4. Cle(m, "activables") = k1.prio
    BY <2>1, NoyauAssumption DEF Cle
  <2>5. k2 = [m EXCEPT !.queue["activables"] = QueueAdd(@, k.elu, k1.prio)]
    BY <2>2, <2>3, <2>4 DEF Enfile
  <2>6. k2.queue["activables"] = QueueAdd(m.queue["activables"], k.elu, k1.prio)
    <3> DEFINE b == QueueAdd(m.queue["activables"], k.elu, k1.prio)
    <3>1. k2 = [m EXCEPT !.queue["activables"] = b]
      BY <2>5
    <3> HIDE DEF b, k2
    <3>2. k2.queue["activables"] = b
      BY <2>1, <3>1, ConstantesQueues DEF Noyaux
    <3> QED
      BY <3>2 DEF b
  <2> QED
    BY <2>1, <2>6
<1> HIDE DEF k2, A
<1>11. r.elu = p
  <2> HIDE DEF p, r
  <2>1. r = Elit(k2, p) /\ k2 \in Noyaux /\ p \in Procs
    BY <1>1, <1>9
  <2> QED
    BY <2>1, ElitChamps
<1>12. QueueTop(QueueAdd(A, k.elu, k1.prio)) = k.elu
  BY <1>10, <1>11 DEF p, r
<1>13. /\ A \in Seq(Procs) /\ k1.prio \in [Procs -> Nat] /\ k.elu \notin Range(A)
  <2>1. A \in Seq(Procs) /\ k.elu \notin Range(A)
    BY <1>1, <1>8, ConstantesQueues DEF A, Noyaux
  <2>2. k1.prio \in [Procs -> 0 .. PrioMax] /\ 0 .. PrioMax \subseteq Nat
    BY <1>1, NoyauAssumption DEF Noyaux
  <2> QED
    BY <2>1, <2>2
<1>14. k1.prio[x] < k1.prio[k.elu]
  BY <1>4, <1>7, <1>12, <1>13, QueueAddTete
<1> QED
  BY <1>5, <1>14

-----------------------------------------------------------------------------
\* What a handler that goes from k to x does to the order.

\* No sleeper is made ready.
Dort(x, k) == \A p \in Procs : k.etat[p] = "ENDORMI" => x.etat[p] \notin Prets

\* The elected process is overtaken by none but a father that is woken: a
\* step of Preemption.
Cede(x, k) ==
    EluFort(k) => \/ EluFort(x)
                  \/ /\ x.elu = k.elu
                     /\ \E p \in Pids : k.etat[p] = "ATTEND_FILS" /\ x.etat[p] = "ACTIVABLE"

Rang(x, k) == Ordre(x) /\ Dort(x, k) /\ Cede(x, k)

\* How a handler that does not call ordonnanceur() keeps Cede: the elected
\* process stays, and who is ready was so, or is a father, or is not stronger.
Tient(x, k) ==
    /\ x.elu = k.elu /\ x.prio[k.elu] = k.prio[k.elu]
    /\ \A p \in Procs : x.etat[p] = "ACTIVABLE" =>
          \/ k.etat[p] = "ACTIVABLE" /\ x.prio[p] = k.prio[p]
          \/ k.etat[p] = "ATTEND_FILS" /\ p \in Pids
          \/ x.prio[p] <= k.prio[k.elu]

LEMMA TientCede ==
    ASSUME NEW k, NEW x, Tient(x, k)
    PROVE  Cede(x, k)
BY DEF Tient, Cede, EluFort

\* The two ways a handler ends.
LEMMA OrdonnanceurRang ==
    ASSUME NEW k, NEW r \in Noyaux, Pret(r), Ordre(r), Dort(r, k),
           Ordonnanceur(r).panique = "non"
    PROVE  Rang(Ordonnanceur(r), k)
<1> DEFINE x == Ordonnanceur(r)
<1>1. /\ Ordre(x) /\ EluFort(x)
      /\ \A p \in Procs : x.etat[p] \in Prets => r.etat[p] \in Prets
  BY OrdonnanceurOrdre
<1> HIDE DEF x
<1>2. Rang(x, k)
  BY <1>1 DEF Rang, Dort, Cede
<1> QED
  BY <1>2 DEF x

LEMMA LibereRang ==
    ASSUME NEW k, NEW r \in Noyaux, Regle(r), Ordre(r), Dort(r, k), Tient(r, k),
           FreeMourantQueue(r).panique = "non"
    PROVE  Rang(FreeMourantQueue(r), k)
<1> DEFINE x == FreeMourantQueue(r)
           m == Morts(r)
<1>1. Chainage(r.queue, r.etat, {}) /\ IdlePret(r)
  BY DEF Regle
<1>2. Ordre(x)
  BY <1>1, FreeMourantQueueOrdre
<1>3. r.panique = "non" /\ r.elu \notin m /\ r.elu \in Procs
  BY FreeMourantQueuePanique DEF Noyaux
<1>4. /\ x.elu = r.elu
      /\ \A p \in Procs : /\ x.etat[p] = IF p \in m THEN "LIBRE" ELSE r.etat[p]
                          /\ x.prio[p] = IF p \in m THEN 0 ELSE r.prio[p]
  BY <1>3, FreeMourantQueueChamps
<1> HIDE DEF x, m
<1>5. Dort(x, k)
  BY <1>4 DEF Dort, Prets
<1>6. Tient(x, k)
  BY <1>3, <1>4 DEF Tient
<1> QED
  BY <1>2, <1>5, <1>6, TientCede DEF Rang, x

\* The same order when what changes is not in the list it orders.
LEMMA OrdreCles ==
    ASSUME NEW k \in Noyaux, NEW L, Chainage(k.queue, k.etat, L), Ordre(k),
           NEW r, r.queue = k.queue,
           NEW p \in Procs,
           \A x \in Procs \ {p} : r.prio[x] = k.prio[x] /\ r.reveil[x] = k.reveil[x],
           k.etat[p] = "ACTIVABLE" => r.prio[p] = k.prio[p],
           k.etat[p] = "ENDORMI" => r.reveil[p] = k.reveil[p]
    PROVE  Ordre(r)
<1> DEFINE A == k.queue["activables"]
           E == k.queue["endormis"]
<1>1. A \in Seq(Procs) /\ E \in Seq(Procs)
  BY ConstantesQueues DEF Noyaux
<1>2. /\ \A x \in Range(A) : x \in Procs /\ k.etat[x] = "ACTIVABLE"
      /\ \A x \in Range(E) : x \in Procs /\ k.etat[x] = "ENDORMI"
  <2>1. Range(A) \subseteq Procs /\ Range(E) \subseteq Procs
    BY <1>1, RangeEquality
  <2>2. \A x \in Procs : k.etat[x] \in Etats
    BY DEF Noyaux
  <2> QED
    BY <2>1, <2>2, QueuesDeInverse, ConstantesQueues DEF Chainage
<1>3. Triee(A, k.prio) /\ Triee(E, k.reveil)
  BY DEF Ordre
<1>4. /\ \A x \in Range(A) : k.prio[x] = r.prio[x]
      /\ \A x \in Range(E) : k.reveil[x] = r.reveil[x]
  BY <1>2
<1> HIDE DEF A, E
<1>5. Triee(A, r.prio) /\ Triee(E, r.reveil)
  BY <1>1, <1>3, <1>4, TrieeCles
<1> QED
  BY <1>5 DEF Ordre, A, E

-----------------------------------------------------------------------------
\* The system calls.

LEMMA FiniChamps ==
    ASSUME NEW k \in Noyaux, NEW p \in Procs
    PROVE  LET r == Fini(k, p)
           IN  /\ r.queue = k.queue /\ r.prio = k.prio /\ r.reveil = k.reveil
               /\ r.elu = k.elu
               /\ r.etat[p] \in {"MOURANT", "ZOMBIE"}
               /\ \A x \in Procs \ {p} : r.etat[x] = k.etat[x]
BY DEF Fini, Noyaux

\* What waking a father changes: his state, if he waits.
LEMMA ReveillePereChamps ==
    ASSUME NEW k \in Noyaux, NEW p \in Procs
    PROVE  LET r == ReveillePere(k, p)
           IN  /\ r.prio = k.prio /\ r.reveil = k.reveil /\ r.elu = k.elu
               /\ \A x \in Procs : \/ r.etat[x] = k.etat[x]
                                   \/ k.etat[x] = "ATTEND_FILS"
               /\ Ordre(k) => Ordre(r)
<1> DEFINE f == k.pere[p]
           m == [k EXCEPT !.etat[f] = "ACTIVABLE"]
<1>1. CASE f # Nul /\ k.etat[f] = "ATTEND_FILS"
  <2>1. f \in Procs
    BY <1>1 DEF Noyaux
  <2> HIDE DEF f
  <2>2. m \in Noyaux
    BY <2>1, EtatType DEF Etats
  <2>3. /\ m.prio = k.prio /\ m.reveil = k.reveil /\ m.elu = k.elu
        /\ m.etat = [k.etat EXCEPT ![f] = "ACTIVABLE"]
    BY DEF Noyaux
  <2>4. \A x \in Procs : x # f => m.etat[x] = k.etat[x]
    BY <2>1, <2>3 DEF Noyaux
  <2>5. Ordre(k) => Ordre(Active(k, f))
    BY <2>1, ActiveOrdre
  <2>6. ReveillePere(k, p) = Active(k, f)
    BY <1>1 DEF ReveillePere, f
  <2>7. Active(k, f) = Enfile(m, f, "activables")
    BY DEF Active
  <2> HIDE DEF m
  <2> DEFINE r == Enfile(m, f, "activables")
  <2>8. r.prio = m.prio /\ r.reveil = m.reveil /\ r.elu = m.elu /\ r.etat = m.etat
    BY <2>2 DEF Enfile, Noyaux
  <2> HIDE DEF r
  <2>9. ReveillePere(k, p) = r
    BY <2>6, <2>7 DEF r
  <2>10. \A x \in Procs : r.etat[x] = k.etat[x] \/ k.etat[x] = "ATTEND_FILS"
    BY <1>1, <2>4, <2>8
  <2>11. Ordre(k) => Ordre(r)
    BY <2>5, <2>6, <2>9
  <2> QED
    BY <2>3, <2>8, <2>9, <2>10, <2>11
<1>2. CASE ~ (f # Nul /\ k.etat[f] = "ATTEND_FILS")
  <2>1. ReveillePere(k, p) = k
    BY <1>2 DEF ReveillePere
  <2> QED
    BY <2>1
<1> QED
  BY <1>1, <1>2

LEMMA FinEluRang ==
    ASSUME NEW k \in Noyaux, Regle(k), k.elu # Idle, Ordre(k)
    PROVE  LET f == Fini(k, k.elu)
               r == ReveillePere(f, k.elu)
           IN  /\ Ordonnanceur(f).panique = "non" => Rang(Ordonnanceur(f), k)
               /\ Ordonnanceur(r).panique = "non" => Rang(Ordonnanceur(r), k)
<1> DEFINE f == Fini(k, k.elu)
           r == ReveillePere(f, k.elu)
<1>1. k.elu \in Procs /\ k.etat[k.elu] = "ELU"
  BY DEF Noyaux, Regle
<1>2. f \in Noyaux /\ Pret(f) /\ Pret(r)
  BY <1>1, FiniType, FinEluDiscipline
<1>3. /\ f.queue = k.queue /\ f.prio = k.prio /\ f.reveil = k.reveil
      /\ f.etat[k.elu] \in {"MOURANT", "ZOMBIE"}
      /\ \A x \in Procs \ {k.elu} : f.etat[x] = k.etat[x]
  BY <1>1, FiniChamps
<1> HIDE DEF f
<1>4. Ordre(f) /\ Dort(f, k)
  BY <1>1, <1>3 DEF Ordre, Dort, Prets
<1>5. /\ r \in Noyaux
      /\ Ordre(r)
      /\ \A x \in Procs : r.etat[x] = f.etat[x] \/ f.etat[x] = "ATTEND_FILS"
  BY <1>1, <1>2, <1>4, ReveillePereType, ReveillePereChamps
<1> HIDE DEF r
<1>6. Dort(r, k)
  BY <1>1, <1>3, <1>4, <1>5 DEF Dort
<1>7. /\ Ordonnanceur(f).panique = "non" => Rang(Ordonnanceur(f), k)
      /\ Ordonnanceur(r).panique = "non" => Rang(Ordonnanceur(r), k)
  BY <1>2, <1>4, <1>5, <1>6, OrdonnanceurRang
<1> QED
  BY <1>7 DEF f, r

LEMMA EnfileChamps ==
    ASSUME NEW k \in Noyaux, NEW p, NEW f
    PROVE  LET r == Enfile(k, p, f)
           IN  /\ r.etat = k.etat /\ r.prio = k.prio /\ r.reveil = k.reveil
               /\ r.elu = k.elu
BY DEF Enfile, Noyaux

LEMMA KillRang ==
    ASSUME NEW k \in Noyaux, Regle(k), k.panique = "non", Ordre(k),
           NEW p \in Pids, p # k.elu, Chaine(k, p)
    PROVE  LET d == Defile(k, p)
               fini == Fini(d, p)
               m == FreeMourantQueue(Enfile(fini, p, "mourants"))
               a == FreeMourantQueue(ReveillePere(fini, p))
           IN  /\ k.pere[p] = Nul /\ m.panique = "non" => Rang(m, k)
               /\ k.pere[p] # Nul /\ a.panique = "non" => Rang(a, k)
<1> DEFINE d == Defile(k, p)
           fini == Fini(d, p)
           m == Enfile(fini, p, "mourants")
           a == ReveillePere(fini, p)
<1>1. p \in Procs /\ k.elu \in Procs
  BY ConstantesProcs DEF Noyaux
<1>2. /\ d \in Noyaux
      /\ k.pere[p] = Nul => m \in Noyaux /\ Regle(m)
      /\ k.pere[p] # Nul => a \in Noyaux /\ Regle(a)
  BY KillRegle
<1>3. d.etat = k.etat /\ d.elu = k.elu /\ d.prio = k.prio
  <2>1. Chainage(k.queue, k.etat, {})
    BY DEF Regle
  <2> HIDE DEF d
  <2>2. d.etat = k.etat /\ Memes(d, k)
    BY <1>1, <2>1, DefileDiscipline DEF d
  <2> QED
    BY <2>2 DEF Memes
<1>4. Ordre(d)
  <2>1. /\ Chainage(k.queue, k.etat, {}) /\ k.prio \in [Procs -> 0 .. PrioMax]
        /\ Triee(k.queue["activables"], k.prio) /\ Triee(k.queue["endormis"], k.reveil)
    BY DEF Regle, Noyaux, Ordre
  <2> QED
    BY <1>1, <2>1, DefileOrdre
<1> HIDE DEF d
<1>5. /\ fini \in Noyaux /\ Ordre(fini)
      /\ fini.elu = k.elu /\ fini.prio = k.prio
      /\ fini.etat[p] \in {"MOURANT", "ZOMBIE"}
      /\ \A x \in Procs \ {p} : fini.etat[x] = k.etat[x]
  <2>1. /\ fini.queue = d.queue /\ fini.prio = d.prio /\ fini.reveil = d.reveil
        /\ fini.elu = d.elu
        /\ fini.etat[p] \in {"MOURANT", "ZOMBIE"}
        /\ \A x \in Procs \ {p} : fini.etat[x] = d.etat[x]
    BY <1>1, <1>2, FiniChamps
  <2>2. fini \in Noyaux
    BY <1>1, <1>2, FiniType
  <2> HIDE DEF fini
  <2> QED
    BY <1>3, <1>4, <2>1, <2>2 DEF Ordre
<1> HIDE DEF fini
<1>6. m.etat = fini.etat /\ m.prio = k.prio /\ m.elu = k.elu /\ Ordre(m)
  BY <1>1, <1>5, EnfileChamps, EnfileOrdre, ConstantesQueues
<1>7. /\ a.prio = k.prio /\ a.elu = k.elu /\ Ordre(a)
      /\ \A x \in Procs : a.etat[x] = fini.etat[x] \/ fini.etat[x] = "ATTEND_FILS"
  BY <1>1, <1>5, ReveillePereChamps
<1> HIDE DEF m, a
<1>8. \A x \in Procs : k.etat[x] = "ATTEND_FILS" => x \in Pids
  BY DEF Regle, IdlePret, Procs
<1>9. Dort(m, k) /\ Tient(m, k)
  BY <1>1, <1>5, <1>6 DEF Dort, Tient, Prets
<1>10. Dort(a, k) /\ Tient(a, k)
  BY <1>1, <1>5, <1>7, <1>8 DEF Dort, Tient, Prets
<1>11. /\ k.pere[p] = Nul /\ FreeMourantQueue(m).panique = "non"
          => Rang(FreeMourantQueue(m), k)
       /\ k.pere[p] # Nul /\ FreeMourantQueue(a).panique = "non"
          => Rang(FreeMourantQueue(a), k)
  BY <1>2, <1>6, <1>7, <1>9, <1>10, LibereRang
<1> QED
  BY <1>11 DEF m, a, fini, d

LEMMA RecolteRang ==
    ASSUME NEW k \in Noyaux, Regle(k), k.panique = "non", Ordre(k),
           NEW i \in 1 .. Len(k.fils[k.elu]), k.etat[k.fils[k.elu][i]] = "ZOMBIE",
           Recolte(k, i).panique = "non"
    PROVE  Rang(Recolte(k, i), k)
<1> DEFINE c == k.fils[k.elu][i]
           l == RemoveAt(k.fils[k.elu], i)
           k1 == [k EXCEPT !.fils[k.elu] = l, !.etat[c] = "MOURANT",
                           !.pere[c] = Nul, !.suite[k.elu] = User]
           k2 == Enfile(k1, c, "mourants")
           x == FreeMourantQueue(k2)
<1>1. k.fils[k.elu] \in Seq(Pids) /\ k.elu \in Procs
  BY DEF Noyaux
<1>2. c \in Pids /\ c \in Procs /\ l \in Seq(Pids)
  BY <1>1, ConstantesProcs, RemoveAtListe
<1>3. k2 \in Noyaux /\ Regle(k2) /\ k2.panique = "non"
  BY RecolteRegle
<1>4. Recolte(k, i) = x
  BY DEF Recolte
<1>5. k.etat[c] = "ZOMBIE"
  OBVIOUS
<1> HIDE DEF c, l
<1>6. k1 \in Noyaux
  BY <1>1, <1>2, UserType DEF Noyaux, Etats
<1>7. /\ k1.queue = k.queue /\ k1.prio = k.prio /\ k1.reveil = k.reveil /\ k1.elu = k.elu
      /\ k1.etat = [k.etat EXCEPT ![c] = "MOURANT"]
  BY DEF Noyaux
<1> HIDE DEF k1
<1>8. \A y \in Procs : k1.etat[y] = IF y = c THEN "MOURANT" ELSE k.etat[y]
  BY <1>2, <1>7 DEF Noyaux
<1>9. Ordre(k1)
  BY <1>7 DEF Ordre
<1>10. /\ Ordre(k2)
       /\ k2.etat = k1.etat /\ k2.prio = k.prio /\ k2.elu = k.elu
  BY <1>2, <1>6, <1>7, <1>9, EnfileOrdre, EnfileChamps, ConstantesQueues
<1> HIDE DEF k2
<1>11. Dort(k2, k) /\ Tient(k2, k)
  BY <1>8, <1>10 DEF Dort, Tient, Prets
<1> QED
  BY <1>3, <1>4, <1>10, <1>11, LibereRang

LEMMA TourWaitpidRang ==
    ASSUME NEW k \in Noyaux, Regle(k), k.panique = "non", k.elu # Idle, Ordre(k),
           NEW cible \in Pids \cup {Nul}, TourWaitpid(k, cible).panique = "non"
    PROVE  Rang(TourWaitpid(k, cible), k)
<1>1. k.elu \in Procs /\ k.etat[k.elu] = "ELU"
  BY DEF Noyaux, Regle
<1>2. CASE Finis(k, cible) # {}
  <2> DEFINE i == Min(Finis(k, cible))
  <2>1. i \in 1 .. Len(k.fils[k.elu]) /\ i \in Finis(k, cible)
    BY <1>2, FinisBornes
  <2>2. TourWaitpid(k, cible) = Recolte(k, i)
    BY <1>2 DEF TourWaitpid
  <2>3. k.etat[k.fils[k.elu][i]] = "ZOMBIE"
    BY <2>1 DEF Finis
  <2> HIDE DEF i
  <2> QED
    BY <2>1, <2>2, <2>3, RecolteRang
<1>3. CASE Finis(k, cible) = {}
  <2> DEFINE s == [appel |-> "waitpid", arg |-> cible]
             r == [k EXCEPT !.etat[k.elu] = "ATTEND_FILS", !.suite[k.elu] = s]
  <2>1. TourWaitpid(k, cible) = Ordonnanceur(r)
    BY <1>3 DEF TourWaitpid
  <2>2. s \in Suites
    BY DEF Suites
  <2> HIDE DEF s
  <2>3. r \in Noyaux
    BY <1>1, <2>2 DEF Noyaux, Etats
  <2>4. /\ r.queue = k.queue /\ r.elu = k.elu /\ r.prio = k.prio /\ r.reveil = k.reveil
        /\ r.etat = [k.etat EXCEPT ![k.elu] = "ATTEND_FILS"]
        /\ r.suite = [k.suite EXCEPT ![k.elu] = s]
    BY DEF Noyaux
  <2> HIDE DEF r
  <2>5. r.suite[Idle] = k.suite[Idle]
    BY <2>4, ConstantesProcs DEF Noyaux
  <2>6. Pret(r)
    BY <2>3, <2>4, <2>5, BloqueEluPret
  <2>7. Ordre(r) /\ Dort(r, k)
    <3>1. \A x \in Procs : r.etat[x] = IF x = k.elu THEN "ATTEND_FILS" ELSE k.etat[x]
      BY <1>1, <2>4 DEF Noyaux
    <3> QED
      BY <1>1, <2>4, <3>1 DEF Ordre, Dort, Prets
  <2> QED
    BY <2>1, <2>3, <2>6, <2>7, OrdonnanceurRang
<1> QED
  BY <1>2, <1>3

-----------------------------------------------------------------------------
\* The order, on the variables.

LEMMA CourantOrdre == (Ordre(Courant) <=> FilesTriees) /\ (EluFort(Courant) <=> EluPrioritaire)
BY DEF Ordre, FilesTriees, EluFort, EluPrioritaire, Courant

\* A step of Preemption.
Depassement ==
    EluPrioritaire /\ ~EluPrioritaire' =>
        /\ elu' = elu
        /\ \E p \in Pids : etat[p] = "ATTEND_FILS" /\ etat'[p] = "ACTIVABLE"

\* What a handler that is not the clock's does.
Avance == Ordre(Courant)' /\ Dort(Courant', Courant) /\ Depassement

LEMMA DevientRang ==
    ASSUME TypeNoyau, Regle(Courant), Ordre(Courant), NEW x, Devient(x),
           x.panique = "non" => Rang(x, Courant)
    PROVE  Avance
<1>1. CASE x.panique = "non"
  <2>1. /\ elu' = x.elu /\ etat' = x.etat /\ prio' = x.prio
        /\ reveil' = x.reveil /\ queue' = x.queue
    BY <1>1 DEF Devient
  <2>2. Ordre(x) /\ Dort(x, Courant) /\ Cede(x, Courant)
    BY <1>1 DEF Rang
  <2>3. Ordre(Courant)' /\ Dort(Courant', Courant)
    BY <2>1, <2>2 DEF Ordre, Dort, Courant
  <2>4. EluFort(x) => EluPrioritaire'
    BY <2>1 DEF EluFort, EluPrioritaire
  <2>5. Depassement
    BY <2>1, <2>2, <2>4, CourantOrdre, CourantChamps DEF Depassement, Cede
  <2> QED
    BY <2>3, <2>5 DEF Avance
<1>2. CASE x.panique # "non"
  <2>1. /\ elu' = elu /\ etat' = etat /\ prio' = prio
        /\ reveil' = reveil /\ queue' = queue
    BY <1>2 DEF Devient
  <2>2. Ordre(Courant)'
    BY <2>1 DEF Ordre, Courant
  <2>3. Dort(Courant', Courant)
    BY <2>1 DEF Dort, Courant, Prets
  <2>4. Depassement
    BY <2>1 DEF Depassement, EluPrioritaire
  <2> QED
    BY <2>2, <2>3, <2>4 DEF Avance
<1> QED
  BY <1>1, <1>2

\* What chprio() does before it moves its process.
LEMMA ChprioOrdre ==
    ASSUME NEW k \in Noyaux, Regle(k), k.panique = "non", Ordre(k),
           NEW p \in Pids, NEW pr \in 1 .. PrioMax
    PROVE  LET r == [k EXCEPT !.prio[p] = pr]
           IN  /\ r \in Noyaux /\ Regle(r) /\ r.panique = "non"
               /\ r.queue = k.queue /\ r.etat = k.etat /\ r.elu = k.elu
               /\ \A x \in Procs : r.prio[x] = IF x = p THEN pr ELSE k.prio[x]
               /\ k.etat[p] # "ACTIVABLE" => Ordre(r)
               /\ \A f : Ordre(Replace(r, p, f)) \/ ~ Chaine(r, p) \/ f \notin Queues
<1> DEFINE r == [k EXCEPT !.prio[p] = pr]
<1>1. p \in Procs /\ pr \in 0 .. PrioMax
  BY ConstantesProcs, NoyauAssumption
<1>2. /\ r \in Noyaux
      /\ r.queue = k.queue /\ r.etat = k.etat /\ r.elu = k.elu /\ r.suite = k.suite
      /\ r.panique = "non" /\ r.reveil = k.reveil
      /\ r.prio = [k.prio EXCEPT ![p] = pr]
  BY <1>1 DEF Noyaux
<1> HIDE DEF r
<1>3. \A x \in Procs : r.prio[x] = IF x = p THEN pr ELSE k.prio[x]
  BY <1>1, <1>2 DEF Noyaux
<1>4. Regle(r)
  BY <1>2 DEF Regle, IdlePret
<1>5. k.etat[p] # "ACTIVABLE" => Ordre(r)
  <2>1. Chainage(k.queue, k.etat, {})
    BY DEF Regle
  <2> QED
    BY <1>1, <1>2, <1>3, <2>1, OrdreCles
<1>6. ASSUME NEW f \in Queues, Chaine(r, p) PROVE Ordre(Replace(r, p, f))
  <2>1. /\ k.prio \in [Procs -> 0 .. PrioMax]
        /\ Triee(r.queue["activables"], k.prio) /\ Triee(r.queue["endormis"], r.reveil)
        /\ Chainage(r.queue, r.etat, {})
        /\ \A x \in Procs \ {p} : k.prio[x] = r.prio[x]
    BY <1>2, <1>3, <1>4 DEF Regle, Ordre, Noyaux
  <2>2. Ordre(Defile(r, p))
    BY <1>1, <1>2, <1>6, <2>1, DefileOrdre
  <2> QED
    BY <1>1, <1>2, <2>2, DefileType, EnfileOrdre DEF Replace
<1>7. \A f : Ordre(Replace(r, p, f)) \/ ~ Chaine(r, p) \/ f \notin Queues
  BY <1>6
<1> QED
  BY <1>2, <1>3, <1>4, <1>5, <1>7 DEF r

LEMMA ReplaceChamps ==
    ASSUME NEW k \in Noyaux, NEW p \in Procs, NEW f
    PROVE  LET r == Replace(k, p, f)
           IN  r.etat = k.etat /\ r.prio = k.prio /\ r.elu = k.elu
<1> DEFINE d == Defile(k, p)
<1>1. d.etat = k.etat /\ d.prio = k.prio /\ d.elu = k.elu
  BY DEF Defile, Noyaux
<1>2. d \in Noyaux
  BY DefileType
<1>3. Replace(k, p, f) = Enfile(d, p, f)
  BY DEF Replace
<1> HIDE DEF d
<1> QED
  BY <1>1, <1>2, <1>3, EnfileChamps

LEMMA StartRang ==
    ASSUME NEW k \in Noyaux, Regle(k), Ordre(k),
           NEW p \in Pids, k.etat[p] = "LIBRE", NEW pr \in 1 .. PrioMax
    PROVE  LET l == <<p>> \o k.fils[k.elu]
               k0 == [k EXCEPT !.etat[p] = "ACTIVABLE", !.prio[p] = pr,
                               !.pere[p] = k.elu, !.fils[k.elu] = l]
               r == Enfile(k0, p, "activables")
           IN  /\ r \in Noyaux /\ Regle(r) /\ Ordre(r) /\ Dort(r, k)
               /\ pr <= k.prio[k.elu] => Rang(r, k)
<1> DEFINE l == <<p>> \o k.fils[k.elu]
           k0 == [k EXCEPT !.etat[p] = "ACTIVABLE", !.prio[p] = pr,
                           !.pere[p] = k.elu, !.fils[k.elu] = l]
           r == Enfile(k0, p, "activables")
<1>1. /\ p \in Procs /\ k.elu \in Procs /\ pr \in 0 .. PrioMax
      /\ k.etat[k.elu] = "ELU" /\ "ACTIVABLE" \in Etats
  BY ConstantesProcs, NoyauAssumption DEF Noyaux, Regle, Etats
<1>2. l \in Seq(Pids)
  BY DEF Noyaux
<1> HIDE DEF l
<1>3. k0 \in Noyaux
  BY <1>1, <1>2 DEF Noyaux
<1>4. /\ k0.queue = k.queue /\ k0.elu = k.elu /\ k0.suite = k.suite
      /\ k0.reveil = k.reveil
      /\ k0.etat = [k.etat EXCEPT ![p] = "ACTIVABLE"]
      /\ k0.prio = [k.prio EXCEPT ![p] = pr]
  BY DEF Noyaux
<1> HIDE DEF k0
<1>5. \A x \in Procs : /\ k0.etat[x] = IF x = p THEN "ACTIVABLE" ELSE k.etat[x]
                       /\ k0.prio[x] = IF x = p THEN pr ELSE k.prio[x]
  BY <1>1, <1>4 DEF Noyaux
<1>6. Ordre(k0)
  <2>1. Chainage(k.queue, k.etat, {})
    BY DEF Regle
  <2>2. /\ \A x \in Procs \ {p} : k0.prio[x] = k.prio[x] /\ k0.reveil[x] = k.reveil[x]
        /\ k.etat[p] # "ACTIVABLE" /\ k.etat[p] # "ENDORMI"
    BY <1>4, <1>5
  <2> QED
    BY <1>1, <1>4, <2>1, <2>2, OrdreCles
<1>7. /\ r \in Noyaux /\ Regle(r) /\ Ordre(r)
      /\ r.etat = k0.etat /\ r.prio = k0.prio /\ r.elu = k.elu
  <2>1. r \in Noyaux /\ Regle(r)
    BY <1>3, <1>4, NouveauRegle
  <2>2. Ordre(r)
    BY <1>1, <1>3, <1>6, EnfileOrdre, ConstantesQueues
  <2>3. r.etat = k0.etat /\ r.prio = k0.prio /\ r.elu = k0.elu
    BY <1>3, EnfileChamps
  <2> QED
    BY <1>4, <2>1, <2>2, <2>3
<1> HIDE DEF r
<1>8. Dort(r, k)
  BY <1>5, <1>7 DEF Dort, Prets
<1>9. pr <= k.prio[k.elu] => Tient(r, k)
  BY <1>1, <1>5, <1>7 DEF Tient
<1>10. pr <= k.prio[k.elu] => Rang(r, k)
  BY <1>7, <1>8, <1>9, TientCede DEF Rang
<1> QED
  BY <1>7, <1>8, <1>10 DEF r, k0, l

LEMMA ChprioRang ==
    ASSUME NEW K \in Noyaux, Regle(K), K.panique = "non", Ordre(K),
           NEW p \in Pids, NEW pr \in 1 .. PrioMax
    PROVE  LET k == [K EXCEPT !.prio[p] = pr]
               k1 == Replace(k, p, "activables")
               k2 == Replace(k, p, CHOOSE g \in Fids : DansQueue(k, p, g))
           IN  /\ p = K.elu /\ Ordonnanceur(k).panique = "non"
                  => Rang(Ordonnanceur(k), K)
               /\ p # K.elu /\ K.etat[p] # "ACTIVABLE" => Rang(k, K)
               /\ p # K.elu /\ K.etat[p] = "ACTIVABLE" =>
                     /\ Ordonnanceur(k1).panique = "non" => Rang(Ordonnanceur(k1), K)
                     /\ pr <= K.prio[K.elu] => Rang(k1, K)
               /\ p # K.elu /\ K.etat[p] = "ATTEND_FILE" /\ k2.panique = "non"
                  => Rang(k2, K)
<1> DEFINE k == [K EXCEPT !.prio[p] = pr]
           f == CHOOSE g \in Fids : DansQueue(k, p, g)
           k1 == Replace(k, p, "activables")
           k2 == Replace(k, p, f)
<1>1. p \in Procs /\ K.elu \in Procs /\ K.etat[K.elu] = "ELU"
  BY ConstantesProcs DEF Noyaux, Regle
<1>2. /\ k \in Noyaux /\ Regle(k) /\ k.panique = "non"
      /\ k.queue = K.queue /\ k.etat = K.etat /\ k.elu = K.elu
      /\ \A x \in Procs : k.prio[x] = IF x = p THEN pr ELSE K.prio[x]
      /\ K.etat[p] # "ACTIVABLE" => Ordre(k)
      /\ \A g : Ordre(Replace(k, p, g)) \/ ~ Chaine(k, p) \/ g \notin Queues
  BY ChprioOrdre
<1> HIDE DEF k
<1>3. Dort(k, K)
  BY <1>2 DEF Dort, Prets
<1>4. ASSUME p = K.elu, Ordonnanceur(k).panique = "non"
      PROVE  Rang(Ordonnanceur(k), K)
  BY <1>1, <1>2, <1>3, <1>4, ReglePret, OrdonnanceurRang
<1>5. ASSUME p # K.elu, K.etat[p] # "ACTIVABLE" PROVE Tient(k, K) /\ Rang(k, K)
  <2>1. Tient(k, K)
    BY <1>1, <1>2, <1>5 DEF Tient
  <2> QED
    BY <1>2, <1>3, <1>5, <2>1, TientCede DEF Rang
<1>6. ASSUME p # K.elu, K.etat[p] = "ACTIVABLE"
      PROVE  /\ Ordonnanceur(k1).panique = "non" => Rang(Ordonnanceur(k1), K)
             /\ pr <= K.prio[K.elu] => Rang(k1, K)
  <2>1. /\ "activables" \in Queues /\ "activables" \in QueuesDe(k.etat[p])
        /\ QueuesDe(k.etat[p]) # {}
    BY <1>2, <1>6, QueuesDeValeurs, ConstantesQueues
  <2>2. Chaine(k, p)
    BY <1>1, <1>2, <2>1 DEF Regle, Chainage, Chaine, DansQueue, Membres
  <2>3. k1 \in Noyaux /\ Regle(k1) /\ Ordre(k1)
    BY <1>1, <1>2, <2>1, <2>2, ReplaceFiable
  <2>4. k1.etat = k.etat /\ k1.prio = k.prio /\ k1.elu = k.elu
    BY <1>1, <1>2, ReplaceChamps
  <2> HIDE DEF k1
  <2>5. Dort(k1, K)
    BY <1>3, <2>4 DEF Dort
  <2>6. pr <= K.prio[K.elu] => Tient(k1, K)
    BY <1>1, <1>2, <1>6, <2>4 DEF Tient
  <2> QED
    BY <2>3, <2>5, <2>6, ReglePret, OrdonnanceurRang, TientCede DEF Rang
<1>7. ASSUME p # K.elu, K.etat[p] = "ATTEND_FILE", k2.panique = "non"
      PROVE  Rang(k2, K)
  <2>1. QueuesDe(k.etat[p]) = Fids
    BY <1>2, <1>7, QueuesDeValeurs
  <2>2. \E g \in Fids : DansQueue(k, p, g)
    <3>1. CASE Chaine(k, p)
      BY <1>1, <1>2, <2>1, <3>1 DEF Chaine, Regle, Chainage, DansQueue, Membres
    <3>2. CASE ~ Chaine(k, p)
      <4> DEFINE d == Defile(k, p)
      <4>1. d \in Noyaux /\ d.panique = "queue_del"
        BY <1>1, <1>2, <3>2, DefileType DEF Defile, Noyaux
      <4>2. k2 = Enfile(d, p, f)
        BY DEF Replace
      <4> HIDE DEF d, f
      <4>3. k2.panique \in {"queue_add", "queue_del"}
        BY <4>1, <4>2 DEF Enfile, Noyaux
      <4> QED
        BY <1>7, <4>3
    <3> QED
      BY <3>1, <3>2
  <2>3. f \in Fids /\ f \in Queues /\ Chaine(k, p)
    BY <2>2, ConstantesQueues DEF Chaine
  <2> HIDE DEF f
  <2>4. Ordre(k2)
    BY <1>2, <2>3
  <2>5. k2.etat = k.etat /\ k2.prio = k.prio /\ k2.elu = k.elu
    BY <1>1, <1>2, ReplaceChamps
  <2> HIDE DEF k2
  <2>6. Tient(k, K)
    BY <1>5, <1>7
  <2>7. Dort(k2, K) /\ Tient(k2, K)
    BY <1>3, <2>5, <2>6 DEF Dort, Tient
  <2> QED
    BY <2>4, <2>7, TientCede DEF Rang
<1> QED
  BY <1>4, <1>5, <1>6, <1>7 DEF k, k1, k2, f

LEMMA WaitClockRang ==
    ASSUME NEW k \in Noyaux, Regle(k), k.elu # Idle, Ordre(k), NEW t \in Dates
    PROVE  LET r == [k EXCEPT !.etat[k.elu] = "ENDORMI", !.reveil[k.elu] = t]
               s == Enfile(r, k.elu, "endormis")
           IN  Ordonnanceur(s).panique = "non" => Rang(Ordonnanceur(s), k)
<1> DEFINE r == [k EXCEPT !.etat[k.elu] = "ENDORMI", !.reveil[k.elu] = t]
           s == Enfile(r, k.elu, "endormis")
<1>1. k.elu \in Procs /\ k.etat[k.elu] = "ELU" /\ "ENDORMI" \in Etats
  BY DEF Noyaux, Regle, Etats
<1>2. r \in Noyaux
  BY <1>1 DEF Noyaux
<1>3. /\ r.queue = k.queue /\ r.elu = k.elu /\ r.suite = k.suite /\ r.prio = k.prio
      /\ r.etat = [k.etat EXCEPT ![k.elu] = "ENDORMI"]
      /\ r.reveil = [k.reveil EXCEPT ![k.elu] = t]
  BY DEF Noyaux
<1> HIDE DEF r
<1>4. \A x \in Procs : /\ r.etat[x] = IF x = k.elu THEN "ENDORMI" ELSE k.etat[x]
                       /\ x # k.elu => r.reveil[x] = k.reveil[x]
  BY <1>1, <1>3 DEF Noyaux
<1>5. Ordre(r)
  <2>1. Chainage(k.queue, k.etat, {})
    BY DEF Regle
  <2>2. /\ \A x \in Procs \ {k.elu} : r.prio[x] = k.prio[x] /\ r.reveil[x] = k.reveil[x]
        /\ k.etat[k.elu] # "ACTIVABLE" /\ k.etat[k.elu] # "ENDORMI"
    BY <1>1, <1>3, <1>4
  <2> QED
    BY <1>1, <1>3, <2>1, <2>2, OrdreCles
<1>6. /\ "endormis" \in Queues /\ "endormis" \in QueuesDe("ENDORMI")
      /\ r.suite[Idle] = k.suite[Idle]
  BY <1>3, QueuesDeValeurs, ConstantesQueues
<1>7. /\ s \in Noyaux /\ Pret(s) /\ Ordre(s)
      /\ s.etat = r.etat
  BY <1>1, <1>2, <1>3, <1>5, <1>6, EnfileEluPret, EnfileOrdre, EnfileChamps
<1> HIDE DEF s
<1>8. Dort(s, k)
  BY <1>4, <1>7 DEF Dort, Prets
<1>9. Ordonnanceur(s).panique = "non" => Rang(Ordonnanceur(s), k)
  BY <1>7, <1>8, OrdonnanceurRang
<1> QED
  BY <1>9 DEF s, r

\* Every system call of processus.c.
LEMMA OrdreProcessus ==
    ASSUME TypeNoyau, Regle(Courant), Ordre(Courant), ProcessusNext
    PROVE  Avance
<1> DEFINE K == Courant
<1>1. /\ K \in Noyaux /\ Regle(K) /\ Ordre(K)
      /\ K.elu = elu /\ K.etat = etat /\ K.prio = prio /\ K.pere = pere
      /\ K.fils = fils /\ K.queue = queue /\ K.suite = suite /\ K.panique = panique
  BY CourantType, CourantChamps
<1>2. elu \in Procs /\ prio \in [Procs -> 0 .. PrioMax] /\ Idle \notin Pids
  BY NoyauAssumption DEF TypeNoyau
<1>3. ASSUME NEW x, Devient(x), x.panique = "non" => Rang(x, K)
      PROVE  Avance
  BY <1>3, DevientRang
<1> HIDE DEF K
<1>4. ASSUME EnModeUser PROVE K.elu # Idle /\ K.panique = "non" /\ K.etat[elu] = "ELU"
  BY <1>1, <1>2, <1>4 DEF EnModeUser, Regle
<1>5. ASSUME NEW pr \in 1 .. PrioMax, Start(pr) PROVE Avance
  <2>1. PICK p \in Pids :
           /\ PidLibre(p)
           /\ LET k == Enfile([K EXCEPT !.etat[p] = "ACTIVABLE",
                                        !.prio[p] = pr,
                                        !.pere[p] = elu,
                                        !.fils[elu] = <<p>> \o @],
                              p, "activables")
              IN  Devient(IF pr > prio[elu] THEN Ordonnanceur(k) ELSE k)
    BY <1>5 DEF Start, K
  <2> DEFINE l == <<p>> \o K.fils[K.elu]
             k0 == [K EXCEPT !.etat[p] = "ACTIVABLE", !.prio[p] = pr,
                             !.pere[p] = K.elu, !.fils[K.elu] = l]
             k == Enfile(k0, p, "activables")
  <2>2. Devient(IF pr > prio[elu] THEN Ordonnanceur(k) ELSE k)
    BY <1>1, <2>1
  <2>3. K.etat[p] = "LIBRE"
    BY <1>1, <2>1 DEF PidLibre
  <2>4. /\ k \in Noyaux /\ Regle(k) /\ Ordre(k) /\ Dort(k, K)
        /\ pr <= K.prio[K.elu] => Rang(k, K)
    BY <1>1, <2>3, StartRang
  <2> HIDE DEF k
  <2>5. Ordonnanceur(k).panique = "non" => Rang(Ordonnanceur(k), K)
    BY <2>4, ReglePret, OrdonnanceurRang
  <2>6. pr \in Nat /\ prio[elu] \in Nat
    BY <1>2, NoyauAssumption
  <2> DEFINE x == IF pr > prio[elu] THEN Ordonnanceur(k) ELSE k
  <2>7. x.panique = "non" => Rang(x, K)
    BY <1>1, <2>4, <2>5, <2>6
  <2>8. Devient(x)
    BY <2>2
  <2> HIDE DEF x
  <2> QED
    BY <1>3, <2>7, <2>8
<1>6. ASSUME Exit PROVE Avance
  <2> DEFINE x == Ordonnanceur(ReveillePere(Fini(K, elu), elu))
  <2>1. Devient(x)
    BY <1>6 DEF Exit, K
  <2>2. x.panique = "non" => Rang(x, K)
    BY <1>1, <1>4, <1>6, FinEluRang DEF Exit
  <2> HIDE DEF x
  <2> QED
    BY <1>3, <2>1, <2>2
<1>7. ASSUME KillElu PROVE Avance
  <2> DEFINE x == Ordonnanceur(Fini(K, elu))
  <2>1. Devient(x)
    BY <1>7 DEF KillElu, K
  <2>2. x.panique = "non" => Rang(x, K)
    BY <1>1, <1>4, <1>7, FinEluRang DEF KillElu
  <2> HIDE DEF x
  <2> QED
    BY <1>3, <2>1, <2>2
<1>8. ASSUME NEW p \in Pids, KillAutre(p) PROVE Avance
  <2> DEFINE d == Defile(K, p)
             fini == Fini(d, p)
             m == FreeMourantQueue(Enfile(fini, p, "mourants"))
             a == FreeMourantQueue(ReveillePere(fini, p))
             x == IF d.panique # "non" THEN d ELSE IF pere[p] = Nul THEN m ELSE a
  <2>1. /\ Devient(IF d.panique # "non" THEN d
                   ELSE FreeMourantQueue(IF pere[p] = Nul THEN Enfile(fini, p, "mourants")
                                         ELSE ReveillePere(fini, p)))
        /\ EnModeUser /\ p # elu
    BY <1>8 DEF KillAutre, K
  <2>2. Devient(x)
    BY <2>1
  <2>3. CASE ~ Chaine(K, p)
    <3>1. d = [K EXCEPT !.panique = "queue_del"]
      BY <2>3 DEF Defile
    <3>2. d.panique = "queue_del"
      BY <1>1, <3>1 DEF Noyaux
    <3>3. x = d
      BY <3>2
    <3> HIDE DEF x, d
    <3> QED
      BY <1>3, <2>2, <3>2, <3>3
  <2>4. CASE Chaine(K, p)
    <3>1. /\ K.pere[p] = Nul /\ m.panique = "non" => Rang(m, K)
          /\ K.pere[p] # Nul /\ a.panique = "non" => Rang(a, K)
      BY <1>1, <1>4, <2>1, <2>4, KillRang
    <3> HIDE DEF d, m, a
    <3>2. x.panique = "non" => Rang(x, K)
      BY <1>1, <3>1
    <3> HIDE DEF x
    <3> QED
      BY <1>3, <2>2, <3>2
  <2> QED
    BY <2>3, <2>4
<1>9. ASSUME NEW cible \in Pids \cup {Nul}, Waitpid(cible) PROVE Avance
  <2>1. Devient(TourWaitpid(K, cible)) /\ EnModeUser
    BY <1>9 DEF Waitpid, K
  <2> QED
    BY <1>1, <1>3, <1>4, <2>1, TourWaitpidRang
<1>10. ASSUME RepriseWaitpid PROVE Avance
  <2>1. /\ Devient(TourWaitpid(K, suite[elu].arg)) /\ K.panique = "non"
        /\ suite[elu].appel = "waitpid"
    BY <1>1, <1>10 DEF RepriseWaitpid, K
  <2>2. K.elu # Idle
    BY <1>1, <2>1 DEF Regle, IdlePret
  <2>3. suite[elu].arg \in Pids \cup {Nul}
    BY <1>2 DEF TypeNoyau, Suites
  <2> QED
    BY <1>1, <1>3, <2>1, <2>2, <2>3, TourWaitpidRang
<1>11. ASSUME NEW p \in Pids, NEW pr \in 1 .. PrioMax, Chprio(p, pr) PROVE Avance
  <2> DEFINE k == [K EXCEPT !.prio[p] = pr]
             f == CHOOSE g \in Fids : DansQueue(k, p, g)
             k1 == Replace(k, p, "activables")
             k2 == Replace(k, p, f)
             x == CASE p = elu -> Ordonnanceur(k)
                    [] p # elu /\ etat[p] = "ACTIVABLE" ->
                          IF prio[elu] < pr THEN Ordonnanceur(k1) ELSE k1
                    [] p # elu /\ etat[p] = "ATTEND_FILE" -> k2
                    [] OTHER -> k
  <2>1. Devient(x) /\ EnModeUser
    BY <1>11 DEF Chprio, K
  <2>2. /\ p = K.elu /\ Ordonnanceur(k).panique = "non" => Rang(Ordonnanceur(k), K)
        /\ p # K.elu /\ K.etat[p] # "ACTIVABLE" => Rang(k, K)
        /\ p # K.elu /\ K.etat[p] = "ACTIVABLE" =>
              /\ Ordonnanceur(k1).panique = "non" => Rang(Ordonnanceur(k1), K)
              /\ pr <= K.prio[K.elu] => Rang(k1, K)
        /\ p # K.elu /\ K.etat[p] = "ATTEND_FILE" /\ k2.panique = "non" => Rang(k2, K)
    BY <1>1, <1>4, <2>1, ChprioRang
  <2> HIDE DEF k, k1, k2
  <2>3. pr \in Nat /\ prio[elu] \in Nat
    BY <1>2, NoyauAssumption
  <2>4. x.panique = "non" => Rang(x, K)
    <3>1. CASE p = elu
      BY <1>1, <2>2, <3>1
    <3>2. CASE p # elu /\ etat[p] = "ACTIVABLE"
      BY <1>1, <2>2, <2>3, <3>2
    <3>3. CASE p # elu /\ etat[p] = "ATTEND_FILE"
      BY <1>1, <2>2, <3>3
    <3>4. CASE p # elu /\ etat[p] \notin {"ACTIVABLE", "ATTEND_FILE"}
      BY <1>1, <2>2, <3>4
    <3> QED
      BY <3>1, <3>2, <3>3, <3>4
  <2> HIDE DEF x
  <2> QED
    BY <1>3, <2>1, <2>4
<1>12. ASSUME NEW t \in Dates, WaitClock(t) PROVE Avance
  <2> DEFINE r == [K EXCEPT !.etat[K.elu] = "ENDORMI", !.reveil[K.elu] = t]
             x == Ordonnanceur(Enfile(r, K.elu, "endormis"))
  <2>1. Devient(x) /\ EnModeUser
    BY <1>1, <1>12 DEF WaitClock, K
  <2>2. x.panique = "non" => Rang(x, K)
    BY <1>1, <1>4, <2>1, WaitClockRang
  <2> HIDE DEF x
  <2> QED
    BY <1>3, <2>1, <2>2
<1> QED
  BY <1>5, <1>6, <1>7, <1>8, <1>9, <1>10, <1>11, <1>12 DEF ProcessusNext

-----------------------------------------------------------------------------
\* The clock interrupt.

\* The sleepers verifie_reveille(t) wakes have reached their date.
LEMMA ReveillesDus ==
    ASSUME NEW k \in Noyaux, NEW t \in Nat, NEW p \in Range(Reveilles(k, t))
    PROVE  p \in Range(k.queue["endormis"]) /\ k.reveil[p] <= t
<1> DEFINE q == k.queue["endormis"]
           T == {i \in 1 .. Len(q) : k.reveil[q[i]] > t} \cup {Len(q) + 1}
           m == Min(T) - 1
           w == SubSeq(q, 1, m)
<1>1. q \in Seq(Procs) /\ k.reveil \in [Procs -> Nat]
  BY ConstantesQueues DEF Noyaux, Dates
<1>2. T \subseteq 1 .. Len(q) + 1 /\ T \subseteq Nat /\ T # {}
  BY <1>1
<1>3. Min(T) \in T /\ \A y \in T : Min(T) <= y
  <2> HIDE DEF T
  <2> QED
    BY <1>2, MinEstPlusPetit
<1>4. Reveilles(k, t) = w
  BY DEF Reveilles
<1>5. \A i \in 1 .. Len(q) : i < Min(T) => k.reveil[q[i]] <= t
  <2> SUFFICES ASSUME NEW i \in 1 .. Len(q), i < Min(T) PROVE k.reveil[q[i]] <= t
    OBVIOUS
  <2>1. i \notin T
    <3>1. i \in Nat
      BY <1>1
    <3> HIDE DEF T, q
    <3>2. Min(T) \in Nat
      BY <1>2, <1>3
    <3>3. i \in T => Min(T) <= i
      BY <1>3
    <3> QED
      BY <3>1, <3>2, <3>3
  <2>2. k.reveil[q[i]] \in Nat
    BY <1>1
  <2> QED
    BY <2>1, <2>2
<1>6. Min(T) \in 1 .. Len(q) + 1
  BY <1>2, <1>3
<1> HIDE DEF T
<1>7. m \in 0 .. Len(q)
  BY <1>1, <1>6
<1>8. Len(w) = m /\ \A i \in 1 .. m : w[i] = q[i]
  <2> HIDE DEF m
  <2> QED
    BY <1>1, <1>7
<1>9. PICK i \in DOMAIN w : p = w[i]
  BY <1>4 DEF Range
<1>10. i \in 1 .. m
  <2> HIDE DEF m
  <2> QED
    BY <1>1, <1>7, <1>8, <1>9
<1> HIDE DEF w
<1>11. i \in 1 .. Len(q) /\ i < Min(T) /\ p = q[i]
  <2>1. p = q[i]
    BY <1>8, <1>9, <1>10
  <2>2. Len(q) \in Nat
    BY <1>1, LenProperties
  <2>3. i \in Nat /\ i >= 1 /\ i <= m
    <3> HIDE DEF m
    <3> QED
      BY <1>7, <1>10, <2>2
  <2> QED
    BY <1>6, <2>1, <2>2, <2>3
<1>12. \A j \in 1 .. Len(q) : q[j] \in Range(q)
  BY <1>1 DEF Range
<1> QED
  BY <1>5, <1>11, <1>12

LEMMA VerifieReveilleOrdre ==
    ASSUME NEW k \in Noyaux, Regle(k), Ordre(k), NEW t \in Nat
    PROVE  LET r == VerifieReveille(k, t)
           IN  /\ Ordre(r) /\ r.prio = k.prio /\ r.elu = k.elu
               /\ \A p \in Procs :
                     \/ r.etat[p] = k.etat[p] /\ p \notin Range(Reveilles(k, t))
                     \/ /\ p \in Range(Reveilles(k, t))
                        /\ k.etat[p] = "ENDORMI" /\ r.etat[p] = "ACTIVABLE"
                        /\ k.reveil[p] <= t
<1> DEFINE q == k.queue["endormis"]
           w == Reveilles(k, t)
           l == SubSeq(q, Len(w) + 1, Len(q))
           s == [k.queue EXCEPT !["endormis"] = l]
           k1 == [k EXCEPT !.queue = s]
           r == ActiveTous(k1, w)
<1>1. q \in Seq(Procs) /\ k.queue \in [Queues -> Seq(Procs)]
  BY ConstantesQueues DEF Noyaux
<1>2. /\ w \in Seq(Procs) /\ l \in Seq(Procs)
      /\ \A cle : Triee(q, cle) => Triee(l, cle)
  <2>1. PICK m \in 0 .. Len(q) : w = SubSeq(q, 1, m) /\ Len(w) = m
    BY ReveillesCoupe
  <2> HIDE DEF w, q
  <2> QED
    BY <1>1, <2>1, ListeCoupee
<1>3. VerifieReveille(k, t) = r
  BY DEF VerifieReveille
<1>4. ASSUME NEW p \in Procs, p \in Range(w)
      PROVE  k.etat[p] = "ENDORMI" /\ k.reveil[p] <= t
  <2>1. p \in Range(q) /\ k.reveil[p] <= t
    BY <1>4, ReveillesDus
  <2>2. "endormis" \in QueuesDe(k.etat[p]) /\ k.etat[p] \in Etats
    BY <2>1, ConstantesQueues DEF Regle, Chainage, Noyaux
  <2> QED
    BY <2>1, <2>2, QueuesDeInverse
<1>5. /\ r.elu = k.elu /\ r.panique = k.panique
      /\ \A p \in Procs : r.etat[p] = IF p \in Range(w) THEN "ACTIVABLE" ELSE k.etat[p]
  <2> HIDE DEF r
  <2> QED
    BY <1>3, VerifieReveilleRegle
<1> HIDE DEF w, l
<1>6. s \in [Queues -> Seq(Procs)] /\ s["endormis"] = l /\ s["activables"] = k.queue["activables"]
  BY <1>1, <1>2, ConstantesQueues
<1> HIDE DEF s
<1>7. /\ k1 \in Noyaux /\ k1.queue = s /\ k1.prio = k.prio /\ k1.reveil = k.reveil
      /\ k1.etat = k.etat
  BY <1>6 DEF Noyaux
<1> HIDE DEF k1
<1>8. Ordre(k1)
  BY <1>2, <1>6, <1>7 DEF Ordre
<1>9. Ordre(r)
  BY <1>2, <1>7, <1>8, ActiveTousOrdre
<1>10. r.prio = k.prio
  BY <1>7 DEF ActiveTous, Noyaux
<1> HIDE DEF r
<1> QED
  BY <1>3, <1>4, <1>5, <1>9, <1>10 DEF w

\* The processor is given to the strongest, and left to a process only if it
\* was stronger than all the others: what a turn does from k to x.
Tourne(x, k) ==
    /\ EluFort(x)
    /\ x.elu = k.elu => \A p \in Procs \ {k.elu} :
          k.etat[p] = "ACTIVABLE" => k.prio[p] < k.prio[k.elu]

\* ordonnanceur() called with the elected process still so, its continuation
\* aside.
LEMMA SuiteTourne ==
    ASSUME NEW k \in Noyaux, Regle(k), Ordre(k), NEW s \in Suites,
           s.appel \in {"user", "tic"}
    PROVE  LET r == [k EXCEPT !.suite[k.elu] = s]
           IN  /\ r \in Noyaux /\ Regle(r) /\ Ordre(r)
               /\ r.elu = k.elu /\ r.etat = k.etat /\ r.prio = k.prio
               /\ Ordonnanceur(r).panique = "non" =>
                     Rang(Ordonnanceur(r), k) /\ Tourne(Ordonnanceur(r), k)
<1> DEFINE r == [k EXCEPT !.suite[k.elu] = s]
<1>1. k.elu \in Procs /\ k.etat[k.elu] = "ELU"
  BY DEF Noyaux, Regle
<1>2. r \in Noyaux /\ Regle(r)
  BY <1>1, SuiteRegle
<1>3. /\ r.queue = k.queue /\ r.elu = k.elu /\ r.prio = k.prio /\ r.reveil = k.reveil
      /\ r.etat = k.etat
  BY DEF Noyaux
<1> HIDE DEF r
<1>4. Ordre(r) /\ Dort(r, k) /\ Pret(r)
  BY <1>2, <1>3, ReglePret DEF Ordre, Dort, Prets
<1>5. ASSUME Ordonnanceur(r).panique = "non"
      PROVE  Rang(Ordonnanceur(r), k) /\ Tourne(Ordonnanceur(r), k)
  <2> DEFINE x == Ordonnanceur(r)
  <2>1. Rang(x, k) /\ EluFort(x)
    BY <1>2, <1>4, <1>5, OrdonnanceurRang, OrdonnanceurOrdre
  <2>2. ASSUME x.elu = k.elu, NEW p \in Procs \ {k.elu}, k.etat[p] = "ACTIVABLE"
        PROVE  k.prio[p] < k.prio[k.elu]
    BY <1>1, <1>2, <1>3, <1>4, <1>5, <2>2, OrdonnanceurReste
  <2> HIDE DEF x
  <2>3. Tourne(x, k)
    BY <2>1, <2>2 DEF Tourne
  <2> QED
    BY <2>1, <2>3 DEF x
<1> QED
  BY <1>2, <1>3, <1>4, <1>5 DEF r

LEMMA FinTicRang ==
    ASSUME NEW k \in Noyaux, Regle(k), Ordre(k), NEW cpt,
           FinTic(k, cpt).panique = "non"
    PROVE  /\ Rang(FinTic(k, cpt), k)
           /\ cpt % (ClockFreq \div SchedFreq) = 0 => Tourne(FinTic(k, cpt), k)
<1> DEFINE r == [k EXCEPT !.suite[k.elu] = User]
<1>1. User.appel = "user" /\ User \in Suites
  BY UserType DEF User
<1>2. /\ Ordre(r) /\ r.elu = k.elu /\ r.etat = k.etat /\ r.prio = k.prio
      /\ Ordonnanceur(r).panique = "non" =>
            Rang(Ordonnanceur(r), k) /\ Tourne(Ordonnanceur(r), k)
  BY <1>1, SuiteTourne
<1>3. FinTic(k, cpt) = IF cpt % (ClockFreq \div SchedFreq) = 0 THEN Ordonnanceur(r) ELSE r
  BY DEF FinTic
<1> HIDE DEF r
<1>4. Rang(r, k)
  <2>1. Dort(r, k) /\ Tient(r, k)
    BY <1>2 DEF Dort, Tient, Prets
  <2> QED
    BY <1>2, <2>1, TientCede DEF Rang
<1> QED
  BY <1>2, <1>3, <1>4

\* From k, whose sleepers are woken, to the end of tic_PIT().
LEMMA TicRang ==
    ASSUME NEW k \in Noyaux, Regle(k), Ordre(k), NEW t \in Nat, NEW cpt,
           NEW x,
           LET v == VerifieReveille(k, t)
           IN  x = IF ReveilPrioritaire(k, t)
                   THEN Ordonnanceur([v EXCEPT !.suite[k.elu] = [appel |-> "tic", arg |-> Nul]])
                   ELSE FinTic(v, cpt),
           x.panique = "non"
    PROVE  /\ Ordre(x) /\ Cede(x, k)
           /\ \A p \in Procs : k.etat[p] = "ENDORMI" /\ x.etat[p] \in Prets => k.reveil[p] <= t
           /\ cpt % (ClockFreq \div SchedFreq) = 0 => Tourne(x, k)
<1> DEFINE v == VerifieReveille(k, t)
           s == [appel |-> "tic", arg |-> Nul]
           y == [v EXCEPT !.suite[v.elu] = s]
<1>1. /\ v \in Noyaux /\ Regle(v) /\ Ordre(v) /\ v.prio = k.prio /\ v.elu = k.elu
      /\ \A p \in Procs :
            \/ v.etat[p] = k.etat[p] /\ p \notin Range(Reveilles(k, t))
            \/ /\ p \in Range(Reveilles(k, t))
               /\ k.etat[p] = "ENDORMI" /\ v.etat[p] = "ACTIVABLE"
               /\ k.reveil[p] <= t
  BY VerifieReveilleType, VerifieReveilleRegle, VerifieReveilleOrdre
<1>2. x = IF ReveilPrioritaire(k, t) THEN Ordonnanceur(y) ELSE FinTic(v, cpt)
  BY <1>1
<1>3. s \in Suites /\ s.appel = "tic"
  BY DEF Suites
<1> HIDE DEF v, s
<1>4. Ordonnanceur(y).panique = "non" => Rang(Ordonnanceur(y), v) /\ Tourne(Ordonnanceur(y), v)
  BY <1>1, <1>3, SuiteTourne
<1> HIDE DEF y
<1>5. Rang(x, v)
  BY <1>1, <1>2, <1>4, FinTicRang
<1>6. \A p \in Procs : k.etat[p] = "ENDORMI" /\ x.etat[p] \in Prets => k.reveil[p] <= t
  BY <1>1, <1>5 DEF Rang, Dort
<1>7. Tourne(x, v) => Tourne(x, k)
  BY <1>1 DEF Tourne
<1>8. cpt % (ClockFreq \div SchedFreq) = 0 => Tourne(x, k)
  BY <1>1, <1>2, <1>4, <1>7, FinTicRang
<1>9. Cede(x, k)
  <2>1. CASE ReveilPrioritaire(k, t)
    BY <1>2, <1>4, <2>1 DEF Tourne, Cede
  <2>2. CASE ~ ReveilPrioritaire(k, t)
    <3>1. EluFort(k) => EluFort(v)
      <4> SUFFICES ASSUME EluFort(k), NEW p \in Procs, v.etat[p] = "ACTIVABLE"
                   PROVE  v.prio[p] <= v.prio[v.elu]
        BY DEF EluFort
      <4>1. CASE p \in Range(Reveilles(k, t))
        <5>1. ~ (k.prio[p] > k.prio[k.elu])
          BY <2>2, <4>1 DEF ReveilPrioritaire
        <5>2. k.prio[p] \in Nat /\ k.prio[k.elu] \in Nat
          BY NoyauAssumption DEF Noyaux
        <5> QED
          BY <1>1, <5>1, <5>2
      <4>2. CASE p \notin Range(Reveilles(k, t))
        BY <1>1, <4>2 DEF EluFort
      <4> QED
        BY <4>1, <4>2
    <3>2. Cede(x, v)
      BY <1>5 DEF Rang
    <3>3. \A p \in Pids : v.etat[p] = "ATTEND_FILS" => k.etat[p] = "ATTEND_FILS"
      BY <1>1, ConstantesProcs
    <3> QED
      BY <1>1, <3>1, <3>2, <3>3 DEF Cede
  <2> QED
    BY <2>1, <2>2
<1> QED
  BY <1>5, <1>6, <1>8, <1>9 DEF Rang

\* Steps of ReveilALHeure and of TourDOrdonnancement.
ReveilDu ==
    \A p \in Pids : etat[p] = "ENDORMI" /\ etat'[p] \in {"ACTIVABLE", "ELU"} =>
        /\ cptTicks' # cptTicks
        /\ reveil[p] <= ticks'

TourPris ==
    /\ cptTicks' # cptTicks
    /\ panique' = "non"
    /\ cptTicks' % (ClockFreq \div SchedFreq) = 0
    => /\ EluPrioritaire'
       /\ elu' = elu => \A p \in Procs \ {elu} :
             etat[p] = "ACTIVABLE" => prio[p] < prio[elu]

LEMMA TicChange ==
    ASSUME TypeOK, Tic
    PROVE  ticks' \in Nat /\ (ClockFreq > 1 => cptTicks' # cptTicks)
<1>1. ticks' = (ticks + 1) % (DateMax + 1) /\ cptTicks' = CptSuivant
  BY DEF Tic, TicSuivant
<1>2. ticks \in Nat /\ cptTicks \in 0 .. ClockFreq - 1 /\ DateMax + 1 \in Nat \ {0}
  BY NoyauAssumption DEF TypeOK, Dates
<1>3. ticks' \in Nat
  BY <1>1, <1>2
<1>4. ClockFreq > 1 => CptSuivant # cptTicks
  BY <1>2, HorlogeAssumption DEF CptSuivant
<1> QED
  BY <1>1, <1>3, <1>4

LEMMA OrdreTic ==
    ASSUME TypeOK, Regle(Courant), Ordre(Courant), Tic
    PROVE  /\ Ordre(Courant)' /\ Depassement /\ TourPris
           /\ ClockFreq > 1 => ReveilDu
<1> DEFINE K == Courant
           v == VerifieReveille(K, TicSuivant)
           x == IF ReveilPrioritaire(K, TicSuivant)
                THEN Ordonnanceur([v EXCEPT !.suite[K.elu] = [appel |-> "tic", arg |-> Nul]])
                ELSE FinTic(v, CptSuivant)
<1>1. K \in Noyaux /\ Regle(K) /\ Ordre(K)
  BY CourantType DEF TypeOK
<1>2. /\ K.elu = elu /\ K.etat = etat /\ K.prio = prio /\ K.reveil = reveil
      /\ K.queue = queue
  BY DEF Courant
<1>3. ticks' = TicSuivant /\ cptTicks' = CptSuivant /\ Devient(x)
  BY <1>2 DEF Tic
<1>4. ticks' \in Nat /\ (ClockFreq > 1 => cptTicks' # cptTicks)
  BY TicChange
<1>5. x.panique = "non" =>
         /\ Ordre(x) /\ Cede(x, K)
         /\ \A p \in Procs : K.etat[p] = "ENDORMI" /\ x.etat[p] \in Prets
                                => K.reveil[p] <= ticks'
         /\ cptTicks' % (ClockFreq \div SchedFreq) = 0 => Tourne(x, K)
  BY <1>1, <1>3, <1>4, TicRang
<1>6. EluFort(K) <=> EluPrioritaire
  BY CourantOrdre
<1> HIDE DEF K, x
<1>7. CASE x.panique = "non"
  <2>1. /\ elu' = x.elu /\ etat' = x.etat /\ prio' = x.prio
        /\ reveil' = x.reveil /\ queue' = x.queue
    BY <1>3, <1>7 DEF Devient
  <2>2. Ordre(Courant)'
    BY <1>5, <1>7, <2>1 DEF Ordre, Courant
  <2>3. EluFort(x) => EluPrioritaire'
    BY <2>1 DEF EluFort, EluPrioritaire
  <2>4. Depassement
    BY <1>2, <1>5, <1>6, <1>7, <2>1, <2>3 DEF Depassement, Cede
  <2>5. TourPris
    BY <1>2, <1>5, <1>7, <2>1, <2>3 DEF TourPris, Tourne
  <2>6. ClockFreq > 1 => ReveilDu
    BY <1>2, <1>4, <1>5, <1>7, <2>1, ConstantesProcs DEF ReveilDu, Prets
  <2> QED
    BY <2>2, <2>4, <2>5, <2>6
<1>8. CASE x.panique # "non"
  <2>1. /\ elu' = elu /\ etat' = etat /\ prio' = prio
        /\ reveil' = reveil /\ queue' = queue /\ panique' # "non"
    BY <1>3, <1>8 DEF Devient
  <2>2. Ordre(Courant)'
    BY <1>1, <1>2, <2>1 DEF Ordre, Courant
  <2>3. Depassement
    BY <2>1 DEF Depassement, EluPrioritaire
  <2>4. TourPris /\ ReveilDu
    BY <2>1 DEF TourPris, ReveilDu
  <2> QED
    BY <2>2, <2>3, <2>4
<1> QED
  BY <1>7, <1>8

LEMMA OrdreRepriseTic ==
    ASSUME TypeNoyau, Regle(Courant), Ordre(Courant), RepriseTic
    PROVE  Avance
<1> DEFINE x == FinTic(Courant, cptTicks)
<1>1. Devient(x)
  BY DEF RepriseTic
<1>2. x.panique = "non" => Rang(x, Courant)
  BY CourantType, FinTicRang
<1> HIDE DEF x
<1> QED
  BY <1>1, <1>2, DevientRang

\* A step without the clock.
LEMMA AvanceStep ==
    ASSUME Avance, UNCHANGED cptTicks
    PROVE  Ordre(Courant)' /\ Depassement /\ TourPris /\ ReveilDu
<1>1. ReveilDu
  BY ConstantesProcs DEF Avance, Dort, ReveilDu, Prets, Courant
<1> QED
  BY <1>1 DEF Avance, TourPris

\* The inductive invariant.
InvOrdre == InvDiscipline /\ Ordre(Courant)

LEMMA OrdreInit == Init => InvOrdre
<1> SUFFICES ASSUME Init PROVE InvOrdre
  OBVIOUS
<1>1. InvDiscipline
  BY DisciplineInit
<1>2. queue["activables"] = <<Idle>> /\ queue["endormis"] = <<>>
  BY ConstantesQueues DEF Init, NoyauInit
<1>3. Triee(<<Idle>>, prio) /\ Triee(<<>>, reveil)
  BY DEF Triee
<1> QED
  BY <1>1, <1>2, <1>3 DEF InvOrdre, Ordre, Courant

LEMMA OrdreStep ==
    InvOrdre /\ [Next]_vars =>
        /\ InvOrdre' /\ Depassement /\ TourPris
        /\ ClockFreq > 1 => ReveilDu
<1> SUFFICES ASSUME InvOrdre, [Next]_vars
             PROVE  /\ InvOrdre' /\ Depassement /\ TourPris
                    /\ ClockFreq > 1 => ReveilDu
  OBVIOUS
<1>1. InvDiscipline'
  BY DisciplineStep DEF InvOrdre
<1>2. TypeOK /\ TypeNoyau /\ Regle(Courant) /\ Ordre(Courant)
  BY DEF InvOrdre, InvDiscipline, TypeOK
<1>3. CASE ProcessusNext /\ UNCHANGED <<ticks, cptTicks>>
  BY <1>1, <1>2, <1>3, OrdreProcessus, AvanceStep DEF InvOrdre
<1>4. CASE Tic
  BY <1>1, <1>2, <1>4, OrdreTic DEF InvOrdre
<1>5. CASE RepriseTic
  <2>1. UNCHANGED cptTicks
    BY <1>5 DEF RepriseTic
  <2> QED
    BY <1>1, <1>2, <1>5, <2>1, OrdreRepriseTic, AvanceStep DEF InvOrdre
<1>6. CASE UNCHANGED vars
  <2>1. /\ elu' = elu /\ etat' = etat /\ prio' = prio /\ reveil' = reveil
        /\ queue' = queue /\ cptTicks' = cptTicks
    BY <1>6 DEF vars, noyauVars
  <2>2. Ordre(Courant)'
    BY <1>2, <2>1 DEF Ordre, Courant
  <2>3. Depassement /\ TourPris /\ ReveilDu
    BY <2>1 DEF Depassement, EluPrioritaire, TourPris, ReveilDu
  <2> QED
    BY <1>1, <2>2, <2>3 DEF InvOrdre
<1> QED
  BY <1>3, <1>4, <1>5, <1>6 DEF Next

\* The inductive invariant of the order holds in every reachable state.
THEOREM InvariantOrdre == Spec => []InvOrdre
<1>1. InvOrdre /\ [Next]_vars => InvOrdre'
  BY OrdreStep
<1> QED
  BY <1>1, OrdreInit, PTL DEF Spec

\* The ready list and the sleepers stay sorted: chprio, which changes the key
\* of a process, moves it in the ready list, and the key of a sleeper changes
\* only while it is elected.
THEOREM FilesTrieesCorrecte == Spec => []FilesTriees
<1>1. InvOrdre => FilesTriees
  BY CourantOrdre DEF InvOrdre
<1> QED
  BY <1>1, InvariantOrdre, PTL

\* Only a kill that wakes the victim's father leaves a process ready that is
\* stronger than the elected one.
THEOREM PreemptionCorrecte == Spec => Preemption
<1>1. InvOrdre /\ [Next]_vars => [Depassement]_noyauVars
  BY OrdreStep
<1>2. Spec => [][Depassement]_noyauVars
  BY <1>1, InvariantOrdre, PTL DEF Spec
<1> QED
  BY <1>2 DEF Preemption, Depassement

\* Each turn of tic_PIT() gives the processor to a process that none is
\* stronger than, and leaves it to the elected one only if all the ready ones
\* were weaker.
THEOREM TourDOrdonnancementCorrect == Spec => TourDOrdonnancement
<1>1. InvOrdre /\ [Next]_vars => [TourPris]_vars
  BY OrdreStep
<1>2. Spec => [][TourPris]_vars
  BY <1>1, InvariantOrdre, PTL DEF Spec
<1> QED
  BY <1>2 DEF TourDOrdonnancement, TourPris

\* A sleeper is made ready by the clock interrupt only, once its date is
\* reached.  With one interrupt a second cpt_ticks would never move: the
\* property reads a tick off that counter.
THEOREM ReveilALHeureCorrect == ClockFreq > 1 /\ Spec => ReveilALHeure
<1>1. ClockFreq > 1 /\ InvOrdre /\ [Next]_vars => [ReveilDu]_vars
  BY OrdreStep
<1>2. ASSUME ClockFreq > 1 PROVE Spec => [][ReveilDu]_vars
  <2>1. InvOrdre /\ [Next]_vars => [ReveilDu]_vars
    BY <1>1, <1>2
  <2> QED
    BY <2>1, InvariantOrdre, PTL DEF Spec
<1> QED
  BY <1>2 DEF ReveilALHeure, ReveilDu
=============================================================================
