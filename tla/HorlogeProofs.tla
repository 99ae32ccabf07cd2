--------------------------- MODULE HorlogeProofs ---------------------------
(***************************************************************************)
(* Theorems about the kernel of Horloge.                                   *)
(***************************************************************************)
EXTENDS Horloge, NoyauProofs

-----------------------------------------------------------------------------
\* Types of what the system calls compute.

LEMMA UserType == User \in Suites
BY DEF User, Suites

LEMMA SuiteType ==
    ASSUME NEW k \in Noyaux, NEW s \in Suites, NEW p \in Procs
    PROVE  [k EXCEPT !.suite[p] = s] \in Noyaux
BY DEF Noyaux

LEMMA FiniType ==
    ASSUME NEW k \in Noyaux, NEW p \in Procs
    PROVE  Fini(k, p) \in Noyaux
<1>1. (IF k.pere[p] = Nul THEN "MOURANT" ELSE "ZOMBIE") \in Etats
  BY DEF Etats
<1> QED
  BY <1>1, EtatType DEF Fini

LEMMA ReveillePereType ==
    ASSUME NEW k \in Noyaux, NEW p \in Procs
    PROVE  ReveillePere(k, p) \in Noyaux
<1>1. k.pere[p] \in Procs \cup {Nul}
  BY DEF Noyaux
<1>2. k.pere[p] # Nul => Active(k, k.pere[p]) \in Noyaux
  BY <1>1, ActiveType
<1> QED
  BY <1>2 DEF ReveillePere

\* The lists of children contain pids.
LEMMA FinisBornes ==
    ASSUME NEW k \in Noyaux, NEW cible, Finis(k, cible) # {}
    PROVE  /\ Min(Finis(k, cible)) \in 1 .. Len(k.fils[k.elu])
           /\ k.fils[k.elu][Min(Finis(k, cible))] \in Pids
           /\ Min(Finis(k, cible)) \in Finis(k, cible)
<1> DEFINE T == Finis(k, cible)
<1>1. T \subseteq 1 .. Len(k.fils[k.elu])
  BY DEF Finis
<1>2. k.fils[k.elu] \in Seq(Pids)
  BY DEF Noyaux
<1>3. T \subseteq Nat /\ T # {}
  BY <1>1, <1>2
<1>4. Min(T) \in T
  <2> HIDE DEF T
  <2> QED
    BY <1>3, MinEstPlusPetit
<1> QED
  BY <1>1, <1>2, <1>4

LEMMA RecolteType ==
    ASSUME NEW k \in Noyaux, NEW i \in 1 .. Len(k.fils[k.elu])
    PROVE  Recolte(k, i) \in Noyaux
<1> DEFINE c == k.fils[k.elu][i]
           l == RemoveAt(k.fils[k.elu], i)
           k1 == [k EXCEPT !.fils[k.elu] = l, !.etat[c] = "MOURANT",
                           !.pere[c] = Nul, !.suite[k.elu] = User]
<1>1. k.fils[k.elu] \in Seq(Pids) /\ k.elu \in Procs
  BY DEF Noyaux
<1>2. c \in Pids /\ c \in Procs
  BY <1>1, ConstantesProcs
<1>3. l \in Seq(Pids)
  BY <1>1, RemoveAtListe
<1>4. Recolte(k, i) = FreeMourantQueue(Enfile(k1, c, "mourants"))
  BY DEF Recolte
<1> HIDE DEF c, l
<1>5. k1 \in Noyaux
  BY <1>1, <1>2, <1>3, UserType DEF Noyaux, Etats
<1> HIDE DEF k1
<1> QED
  BY <1>2, <1>4, <1>5, EnfileType, FreeMourantQueueType, ConstantesQueues

LEMMA TourWaitpidType ==
    ASSUME NEW k \in Noyaux, NEW cible \in Pids \cup {Nul}
    PROVE  TourWaitpid(k, cible) \in Noyaux
<1>1. CASE Finis(k, cible) # {}
  BY <1>1, FinisBornes, RecolteType DEF TourWaitpid
<1>2. CASE Finis(k, cible) = {}
  <2> DEFINE s == [appel |-> "waitpid", arg |-> cible]
             k1 == [k EXCEPT !.etat[k.elu] = "ATTEND_FILS", !.suite[k.elu] = s]
  <2>1. s \in Suites
    BY DEF Suites
  <2>2. TourWaitpid(k, cible) = Ordonnanceur(k1)
    BY <1>2 DEF TourWaitpid
  <2> HIDE DEF s
  <2>3. k1 \in Noyaux
    BY <2>1 DEF Noyaux, Etats
  <2> QED
    BY <2>2, <2>3, OrdonnanceurType
<1> QED
  BY <1>1, <1>2

LEMMA ReplaceType ==
    ASSUME NEW k \in Noyaux, NEW p \in Procs, NEW f
    PROVE  Replace(k, p, f) \in Noyaux
BY EnfileType, DefileType DEF Replace

\* verifie_reveille() cuts the list of the sleepers in two.
LEMMA ReveillesCoupe ==
    ASSUME NEW k \in Noyaux, NEW t
    PROVE  \E m \in 0 .. Len(k.queue["endormis"]) :
              /\ Reveilles(k, t) = SubSeq(k.queue["endormis"], 1, m)
              /\ Len(Reveilles(k, t)) = m
<1> DEFINE q == k.queue["endormis"]
           T == {i \in 1 .. Len(q) : k.reveil[q[i]] > t} \cup {Len(q) + 1}
           m == Min(T) - 1
<1>1. q \in Seq(Procs)
  BY ConstantesQueues DEF Noyaux
<1>2. T \subseteq 1 .. Len(q) + 1 /\ T \subseteq Nat /\ T # {}
  BY <1>1
<1>3. Min(T) \in T
  <2> HIDE DEF T
  <2> QED
    BY <1>2, MinEstPlusPetit
<1>4. Reveilles(k, t) = SubSeq(q, 1, m)
  BY DEF Reveilles
<1>5. Min(T) \in 1 .. Len(q) + 1
  BY <1>2, <1>3
<1> HIDE DEF T
<1>6. m \in 0 .. Len(q)
  BY <1>1, <1>5
<1> HIDE DEF m, q
<1>7. Len(SubSeq(q, 1, m)) = m
  BY <1>1, <1>6
<1> QED
  BY <1>4, <1>6, <1>7 DEF q

LEMMA VerifieReveilleType ==
    ASSUME NEW k \in Noyaux, NEW t
    PROVE  VerifieReveille(k, t) \in Noyaux
<1> DEFINE q == k.queue["endormis"]
           w == Reveilles(k, t)
           r == SubSeq(q, Len(w) + 1, Len(q))
<1>1. q \in Seq(Procs)
  BY ConstantesQueues DEF Noyaux
<1>2. w \in Seq(Procs) /\ r \in Seq(Procs)
  <2>1. PICK m \in 0 .. Len(q) : w = SubSeq(q, 1, m) /\ Len(w) = m
    BY ReveillesCoupe
  <2> HIDE DEF w, q
  <2> QED
    BY <1>1, <2>1, ListeCoupee
<1>3. VerifieReveille(k, t) = ActiveTous([k EXCEPT !.queue["endormis"] = r], w)
  BY DEF VerifieReveille
<1> HIDE DEF w, r
<1>4. [k EXCEPT !.queue["endormis"] = r] \in Noyaux
  BY <1>2 DEF Noyaux
<1> QED
  BY <1>2, <1>3, <1>4, ActiveTousType

LEMMA FinTicType ==
    ASSUME NEW k \in Noyaux, NEW cpt
    PROVE  FinTic(k, cpt) \in Noyaux
<1> DEFINE k1 == [k EXCEPT !.suite[k.elu] = User]
<1>1. k1 \in Noyaux
  BY SuiteType, UserType DEF Noyaux
<1>2. FinTic(k, cpt) = IF cpt % (ClockFreq \div SchedFreq) = 0
                       THEN Ordonnanceur(k1) ELSE k1
  BY DEF FinTic
<1> HIDE DEF k1
<1> QED
  BY <1>1, <1>2, OrdonnanceurType

-----------------------------------------------------------------------------
\* Type correctness.

LEMMA TypeInit == Init => TypeOK
<1> SUFFICES ASSUME Init PROVE TypeOK
  OBVIOUS
<1>1. User \in Suites /\ Pids \subseteq Procs /\ Idle \in Procs
  BY UserType, ConstantesProcs
<1>2. TypeNoyau
  BY <1>1, NoyauAssumption DEF Init, NoyauInit, TypeNoyau, Etats, Dates, Paniques
<1>3. ticks \in Dates /\ cptTicks \in 0 .. ClockFreq - 1
  BY NoyauAssumption, HorlogeAssumption DEF Init, Dates
<1> QED
  BY <1>2, <1>3 DEF TypeOK

\* Every call of processus.c keeps the types.
LEMMA TypeProcessus ==
    ASSUME TypeNoyau, ProcessusNext
    PROVE  TypeNoyau'
<1>1. Courant \in Noyaux
  BY CourantType
<1>2. elu \in Procs /\ pere \in [Procs -> Procs \cup {Nul}] /\ prio \in [Procs -> 0 .. PrioMax]
  BY DEF TypeNoyau
<1>3. ASSUME NEW pr \in 1 .. PrioMax, Start(pr) PROVE TypeNoyau'
  <2>1. PICK p \in Pids :
           LET k == Enfile([Courant EXCEPT !.etat[p] = "ACTIVABLE",
                                           !.prio[p] = pr,
                                           !.pere[p] = elu,
                                           !.fils[elu] = <<p>> \o @],
                           p, "activables")
           IN  Devient(IF pr > prio[elu] THEN Ordonnanceur(k) ELSE k)
    BY <1>3 DEF Start
  <2> DEFINE l == <<p>> \o Courant.fils[elu]
             k0 == [Courant EXCEPT !.etat[p] = "ACTIVABLE", !.prio[p] = pr,
                                   !.pere[p] = elu, !.fils[elu] = l]
             k == Enfile(k0, p, "activables")
  <2>2. p \in Procs
    BY ConstantesProcs
  <2>3. l \in Seq(Pids)
    BY <1>1, <1>2 DEF Noyaux
  <2> HIDE DEF l
  <2>4. k0 \in Noyaux
    <3> DEFINE K == Courant
    <3>1. elu \in Procs /\ elu \in Procs \cup {Nul} /\ pr \in 0 .. PrioMax
          /\ "ACTIVABLE" \in Etats
      BY <1>2, NoyauAssumption DEF Etats
    <3>2. K \in Noyaux
      BY <1>1
    <3>3. k0 = [K EXCEPT !.etat[p] = "ACTIVABLE", !.prio[p] = pr,
                         !.pere[p] = elu, !.fils[elu] = l]
      OBVIOUS
    <3> HIDE DEF K, k0
    <3> QED
      BY <2>2, <2>3, <3>1, <3>2, <3>3 DEF Noyaux
  <2>5. Devient(IF pr > prio[elu] THEN Ordonnanceur(k) ELSE k)
    BY <2>1 DEF l
  <2> HIDE DEF k0
  <2>6. k \in Noyaux
    BY <2>2, <2>4, EnfileType, ConstantesQueues
  <2> HIDE DEF k
  <2> QED
    BY <2>5, <2>6, OrdonnanceurType, DevientType
<1>4. ASSUME Exit PROVE TypeNoyau'
  BY <1>1, <1>2, <1>4, FiniType, ReveillePereType, OrdonnanceurType, DevientType DEF Exit
<1>5. ASSUME KillElu PROVE TypeNoyau'
  BY <1>1, <1>2, <1>5, FiniType, OrdonnanceurType, DevientType DEF KillElu
<1>6. ASSUME NEW p \in Pids, KillAutre(p) PROVE TypeNoyau'
  <2> DEFINE k == Defile(Courant, p)
             fini == Fini(k, p)
             k1 == Enfile(fini, p, "mourants")
             k2 == ReveillePere(fini, p)
  <2>1. p \in Procs
    BY ConstantesProcs
  <2>2. k \in Noyaux
    BY <1>1, <2>1, DefileType
  <2>3. Devient(IF k.panique # "non" THEN k
                ELSE FreeMourantQueue(IF pere[p] = Nul THEN k1 ELSE k2))
    BY <1>6 DEF KillAutre
  <2> HIDE DEF k
  <2>4. fini \in Noyaux
    BY <2>1, <2>2, FiniType
  <2> HIDE DEF fini
  <2>5. k1 \in Noyaux /\ k2 \in Noyaux
    BY <2>1, <2>4, EnfileType, ReveillePereType, ConstantesQueues
  <2> HIDE DEF k1, k2
  <2> QED
    BY <2>2, <2>3, <2>5, FreeMourantQueueType, DevientType
<1>7. ASSUME NEW cible \in Pids \cup {Nul}, Waitpid(cible) PROVE TypeNoyau'
  BY <1>1, <1>7, TourWaitpidType, DevientType DEF Waitpid
<1>8. ASSUME RepriseWaitpid PROVE TypeNoyau'
  <2>1. suite[elu].arg \in Pids \cup {Nul}
    BY DEF TypeNoyau, Suites
  <2> QED
    BY <1>1, <1>8, <2>1, TourWaitpidType, DevientType DEF RepriseWaitpid
<1>9. ASSUME NEW p \in Pids, NEW pr \in 1 .. PrioMax, Chprio(p, pr) PROVE TypeNoyau'
  <2> DEFINE k == [Courant EXCEPT !.prio[p] = pr]
             k1 == Replace(k, p, "activables")
             k2 == Replace(k, p, CHOOSE f \in Fids : DansQueue(k, p, f))
             x == CASE p = elu -> Ordonnanceur(k)
                    [] p # elu /\ etat[p] = "ACTIVABLE" ->
                          IF prio[elu] < pr THEN Ordonnanceur(k1) ELSE k1
                    [] p # elu /\ etat[p] = "ATTEND_FILE" -> k2
                    [] OTHER -> k
  <2>1. Devient(x)
    BY <1>9 DEF Chprio
  <2>2. p \in Procs
    BY ConstantesProcs
  <2>3. k \in Noyaux
    <3>1. pr \in 0 .. PrioMax
      BY NoyauAssumption
    <3> QED
      BY <1>1, <2>2, <3>1 DEF Noyaux
  <2> HIDE DEF k
  <2>4. k1 \in Noyaux /\ k2 \in Noyaux
    BY <2>2, <2>3, ReplaceType
  <2> HIDE DEF k1, k2
  <2>5. Ordonnanceur(k) \in Noyaux /\ Ordonnanceur(k1) \in Noyaux
    BY <2>3, <2>4, OrdonnanceurType
  <2>6. x \in Noyaux
    BY <2>3, <2>4, <2>5
  <2> HIDE DEF x
  <2> QED
    BY <2>1, <2>6, DevientType
<1>10. ASSUME NEW t \in Dates, WaitClock(t) PROVE TypeNoyau'
  <2> DEFINE k == [Courant EXCEPT !.etat[elu] = "ENDORMI", !.reveil[elu] = t]
  <2>1. k \in Noyaux
    BY <1>1 DEF Noyaux, Etats
  <2>2. Devient(Ordonnanceur(Enfile(k, elu, "endormis")))
    BY <1>10 DEF WaitClock
  <2> HIDE DEF k
  <2> QED
    BY <1>2, <2>1, <2>2, EnfileType, OrdonnanceurType, DevientType, ConstantesQueues
<1> QED
  BY <1>3, <1>4, <1>5, <1>6, <1>7, <1>8, <1>9, <1>10 DEF ProcessusNext

LEMMA TypeStep == TypeOK /\ [Next]_vars => TypeOK'
<1> SUFFICES ASSUME TypeOK, [Next]_vars PROVE TypeOK'
  OBVIOUS
<1>0. TypeNoyau /\ Courant \in Noyaux
  BY CourantType DEF TypeOK
<1>1. CASE ProcessusNext /\ UNCHANGED <<ticks, cptTicks>>
  BY <1>0, <1>1, TypeProcessus DEF TypeOK
<1>2. CASE Tic
  <2> DEFINE k == VerifieReveille(Courant, TicSuivant)
             k1 == [k EXCEPT !.suite[elu] = [appel |-> "tic", arg |-> Nul]]
  <2>1. k \in Noyaux
    BY <1>0, VerifieReveilleType
  <2>2. Devient(IF ReveilPrioritaire(Courant, TicSuivant)
                THEN Ordonnanceur(k1) ELSE FinTic(k, CptSuivant))
    BY <1>2 DEF Tic
  <2> HIDE DEF k
  <2>3. [appel |-> "tic", arg |-> Nul] \in Suites
    BY DEF Suites
  <2>4. k1 \in Noyaux
    BY <2>1, <2>3 DEF Noyaux
  <2> HIDE DEF k1
  <2>5. TypeNoyau'
    BY <1>0, <2>1, <2>2, <2>4, OrdonnanceurType, FinTicType, DevientType
  <2>6. ticks' \in Dates
    <3>1. ticks \in Nat /\ DateMax \in Nat /\ DateMax + 1 > 0
      BY NoyauAssumption DEF TypeOK, Dates
    <3>2. (ticks + 1) % (DateMax + 1) \in 0 .. DateMax
      BY <3>1
    <3> QED
      BY <1>2, <3>2 DEF Tic, TicSuivant, Dates
  <2>7. cptTicks' \in 0 .. ClockFreq - 1
    BY <1>2, HorlogeAssumption DEF Tic, CptSuivant, TypeOK
  <2> QED
    BY <2>5, <2>6, <2>7 DEF TypeOK
<1>3. CASE RepriseTic
  <2>1. TypeNoyau'
    BY <1>0, <1>3, FinTicType, DevientType DEF RepriseTic
  <2> QED
    BY <1>3, <2>1 DEF RepriseTic, TypeOK
<1>4. CASE UNCHANGED vars
  BY <1>4 DEF vars, noyauVars, TypeOK, TypeNoyau
<1> QED
  BY <1>1, <1>2, <1>3, <1>4 DEF Next

\* Every variable keeps its type: no call of processus.c and no clock
\* interrupt leaves a list that is no list of processes, a father that is no
\* process, or a counter out of its bounds.
THEOREM TypeCorrecte == Spec => []TypeOK
BY TypeInit, TypeStep, PTL DEF Spec

-----------------------------------------------------------------------------
\* Discipline, in the form that is inductive: with the types, with IDLE that
\* never blocks, and with the assert of queue_add that never fails.

\* What a handler may leave: a panic other than that of queue_add, or a kernel
\* state between two handlers.
Fiable(k) == \/ k.panique \notin {"non", "queue_add"}
             \/ k.panique = "non" /\ Regle(k)

InvDiscipline == TypeOK /\ Regle(Courant) /\ JamaisEnfileDeuxFois

LEMMA RegleDiscipline ==
    Regle(Courant) <=> Discipline /\ suite[Idle].appel \in {"user", "tic"}
<1>1. /\ Courant.queue = queue /\ Courant.etat = etat /\ Courant.elu = elu
      /\ Courant.suite = suite
  BY DEF Courant
<1> QED
  BY <1>1 DEF Regle, IdlePret, Chainage, Discipline

LEMMA DevientRegle ==
    ASSUME TypeNoyau, Regle(Courant), NEW k \in Noyaux, Fiable(k), Devient(k)
    PROVE  Regle(Courant)' /\ JamaisEnfileDeuxFois'
<1>1. panique' = k.panique /\ k.panique # "queue_add"
  BY DEF Devient, Fiable
<1>2. CASE k.panique = "non"
  <2>1. /\ Courant'.queue = k.queue /\ Courant'.etat = k.etat
        /\ Courant'.elu = k.elu /\ Courant'.suite = k.suite
    BY <1>2 DEF Devient, Courant
  <2>2. Regle(k)
    BY <1>2 DEF Fiable
  <2>3. Regle(Courant')
    BY <2>1, <2>2 DEF Regle, IdlePret
  <2> QED
    BY <1>1, <2>3 DEF JamaisEnfileDeuxFois
<1>3. CASE k.panique # "non"
  <2>1. /\ Courant'.queue = Courant.queue /\ Courant'.etat = Courant.etat
        /\ Courant'.elu = Courant.elu /\ Courant'.suite = Courant.suite
    BY <1>3 DEF Devient, Courant
  <2>2. Regle(Courant')
    BY <2>1 DEF Regle, IdlePret
  <2> QED
    BY <1>1, <2>2 DEF JamaisEnfileDeuxFois
<1> QED
  BY <1>2, <1>3

\* A process that ends and is in no queue.
LEMMA FiniDiscipline ==
    ASSUME NEW k \in Noyaux, NEW p \in Procs, Chainage(k.queue, k.etat, {p})
    PROVE  LET r == Fini(k, p)
               L == IF k.pere[p] = Nul THEN {p} ELSE {}
           IN  /\ Chainage(r.queue, r.etat, L)
               /\ r.etat[p] = IF k.pere[p] = Nul THEN "MOURANT" ELSE "ZOMBIE"
               /\ \A x \in Procs \ {p} : r.etat[x] = k.etat[x]
               /\ Memes(r, k)
<1> DEFINE x == IF k.pere[p] = Nul THEN "MOURANT" ELSE "ZOMBIE"
           e == [k.etat EXCEPT ![p] = x]
           r == Fini(k, p)
           L == IF k.pere[p] = Nul THEN {p} ELSE {}
<1>1. k.etat \in [Procs -> Etats]
  BY DEF Noyaux
<1>2. r.queue = k.queue /\ r.etat = e /\ Memes(r, k)
  BY DEF Noyaux, Memes, Fini
<1> HIDE DEF r
<1>3. e[p] = x /\ \A y \in Procs \ {p} : e[y] = k.etat[y]
  BY <1>1
<1>4. Chainage(k.queue, e, {p})
  BY <1>1, ChainageEtat
<1> HIDE DEF e
<1>5. Chainage(k.queue, e, L)
  <2>1. CASE k.pere[p] = Nul
    BY <1>4, <2>1
  <2>2. CASE k.pere[p] # Nul
    <3>1. QueuesDe(e[p]) = {}
      BY <1>3, <2>2, QueuesDeValeurs
    <3>2. Chainage(k.queue, e, {p} \ {p})
      BY <1>4, <3>1, ChainageTenir
    <3>3. {p} \ {p} = L
      BY <2>2
    <3> QED
      BY <3>2, <3>3
  <2> QED
    BY <2>1, <2>2
<1> QED
  BY <1>2, <1>3, <1>5 DEF r

LEMMA ReveillePereDiscipline ==
    ASSUME NEW k \in Noyaux, NEW p \in Procs, NEW L, Chainage(k.queue, k.etat, L),
           \A x \in L : k.etat[x] # "ATTEND_FILS"
    PROVE  LET r == ReveillePere(k, p)
           IN  /\ Chainage(r.queue, r.etat, L)
               /\ \A x \in Procs : \/ r.etat[x] = k.etat[x]
                                   \/ /\ k.etat[x] = "ATTEND_FILS"
                                      /\ r.etat[x] = "ACTIVABLE"
               /\ Memes(r, k)
<1> DEFINE r == ReveillePere(k, p)
           c == k.pere[p]
<1>1. CASE c # Nul /\ k.etat[c] = "ATTEND_FILS"
  <2>1. r = Active(k, c)
    BY <1>1 DEF ReveillePere
  <2>2. c \in Procs /\ c \notin L
    BY <1>1 DEF Noyaux
  <2> HIDE DEF c
  <2>3. Chainage(k.queue, k.etat, L \cup {c})
    BY <1>1, <2>2, ChainageTenir, QueuesDeValeurs
  <2> DEFINE s == Active(k, c)
  <2>4. /\ Chainage(s.queue, s.etat, (L \cup {c}) \ {c})
        /\ s.etat = [k.etat EXCEPT ![c] = "ACTIVABLE"] /\ Memes(s, k)
    BY <2>2, <2>3, ActiveDiscipline
  <2>5. (L \cup {c}) \ {c} = L
    BY <2>2
  <2>6. r = s
    BY <2>1
  <2> HIDE DEF r, s
  <2>7. \A x \in Procs : r.etat[x] = IF x = c THEN "ACTIVABLE" ELSE k.etat[x]
    BY <2>4, <2>6 DEF Noyaux
  <2> QED
    BY <1>1, <2>4, <2>5, <2>6, <2>7 DEF r
<1>2. CASE ~ (c # Nul /\ k.etat[c] = "ATTEND_FILS")
  <2>1. r = k
    BY <1>2 DEF ReveillePere
  <2> HIDE DEF r
  <2> QED
    BY <2>1 DEF Memes, r
<1> QED
  BY <1>1, <1>2

\* exit() and kill() of the elected process.
LEMMA FinEluDiscipline ==
    ASSUME NEW k \in Noyaux, Regle(k), k.elu # Idle
    PROVE  /\ Pret(Fini(k, k.elu)) /\ Fini(k, k.elu).panique = k.panique
           /\ Pret(ReveillePere(Fini(k, k.elu), k.elu))
           /\ ReveillePere(Fini(k, k.elu), k.elu).panique = k.panique
<1> DEFINE k1 == Fini(k, k.elu)
           k2 == ReveillePere(k1, k.elu)
           L == IF k.pere[k.elu] = Nul THEN {k.elu} ELSE {}
<1>1. k.elu \in Procs /\ Idle \in Procs /\ k.etat[k.elu] = "ELU"
  BY ConstantesProcs DEF Noyaux, Regle
<1>2. Chainage(k.queue, k.etat, {k.elu})
  <2>1. Chainage(k.queue, k.etat, {})
    BY DEF Regle
  <2>2. Chainage(k.queue, k.etat, {} \cup {k.elu})
    BY <1>1, <2>1, ChainageTenir, QueuesDeValeurs
  <2>3. {} \cup {k.elu} = {k.elu}
    OBVIOUS
  <2> QED
    BY <2>2, <2>3
<1>3. /\ Chainage(k1.queue, k1.etat, L)
      /\ k1.etat[k.elu] = IF k.pere[k.elu] = Nul THEN "MOURANT" ELSE "ZOMBIE"
      /\ \A x \in Procs \ {k.elu} : k1.etat[x] = k.etat[x]
      /\ Memes(k1, k)
  BY <1>1, <1>2, FiniDiscipline
<1>4. k1 \in Noyaux
  BY <1>1, FiniType
<1> HIDE DEF k1
<1>5. /\ Chainage(k2.queue, k2.etat, L)
      /\ \A x \in Procs : \/ k2.etat[x] = k1.etat[x]
                          \/ k1.etat[x] = "ATTEND_FILS" /\ k2.etat[x] = "ACTIVABLE"
      /\ Memes(k2, k1)
  <2>1. \A x \in L : k1.etat[x] # "ATTEND_FILS"
    BY <1>3
  <2> HIDE DEF L
  <2> QED
    BY <1>1, <1>3, <1>4, <2>1, ReveillePereDiscipline
<1> HIDE DEF k2
<1>6. ASSUME NEW r, r.elu = k.elu, r.suite = k.suite, r.etat[k.elu] = k1.etat[k.elu],
             \A x \in Procs : \/ r.etat[x] = k1.etat[x]
                              \/ k1.etat[x] = "ATTEND_FILS" /\ r.etat[x] = "ACTIVABLE",
             Chainage(r.queue, r.etat, L)
      PROVE  Pret(r)
  <2>1. Tenu(r) = L
    BY <1>3, <1>6 DEF Tenu
  <2>2. \A x \in Procs : r.etat[x] = "ELU" => x = k.elu
    BY <1>3, <1>6 DEF Regle
  <2>3. IdlePret(r)
    BY <1>1, <1>3, <1>6 DEF Regle, IdlePret
  <2> HIDE DEF L
  <2> QED
    BY <1>6, <2>1, <2>2, <2>3 DEF Pret
<1>7. k1.elu = k.elu /\ k1.suite = k.suite /\ k1.panique = k.panique
      /\ k2.elu = k.elu /\ k2.suite = k.suite /\ k2.panique = k.panique
  BY <1>3, <1>5 DEF Memes
<1>8. k2.etat[k.elu] = k1.etat[k.elu]
  BY <1>1, <1>3, <1>5
<1> HIDE DEF L
<1>9. Pret(k1) /\ Pret(k2)
  BY <1>3, <1>5, <1>6, <1>7, <1>8
<1> QED
  BY <1>7, <1>9 DEF k1, k2

LEMMA OrdonnanceurFiable ==
    ASSUME NEW k \in Noyaux, Pret(k), k.panique = "non"
    PROVE  Ordonnanceur(k) \in Noyaux /\ Fiable(Ordonnanceur(k))
BY OrdonnanceurType, OrdonnanceurDiscipline DEF Fiable

LEMMA LibereFiable ==
    ASSUME NEW k \in Noyaux, Regle(k), k.panique = "non"
    PROVE  FreeMourantQueue(k) \in Noyaux /\ Fiable(FreeMourantQueue(k))
<1> DEFINE r == FreeMourantQueue(k)
<1>1. r \in Noyaux
  BY FreeMourantQueueType
<1>2. \/ r.panique = "elu_libere"
      \/ /\ r.panique = "non"
         /\ Chainage(r.queue, r.etat, {})
         /\ r.elu = k.elu
         /\ r.etat[k.elu] = k.etat[k.elu]
         /\ \A p \in Procs : r.etat[p] = "ELU" => k.etat[p] = "ELU"
         /\ IdlePret(r)
  BY FreeMourantQueueDiscipline DEF Regle
<1> HIDE DEF r
<1>3. k.elu \in Procs
  BY DEF Noyaux
<1>4. Fiable(r)
  BY <1>2, <1>3 DEF Fiable, Regle
<1> QED
  BY <1>1, <1>4 DEF r

\* A held process is put in the list of its state.
LEMMA EnfileRegle ==
    ASSUME NEW k \in Noyaux, NEW p \in Procs, Chainage(k.queue, k.etat, {p}),
           NEW f \in Queues, f \in QueuesDe(k.etat[p]),
           \A x \in Procs : k.etat[x] = "ELU" <=> x = k.elu, IdlePret(k)
    PROVE  /\ Enfile(k, p, f) \in Noyaux
           /\ Regle(Enfile(k, p, f))
           /\ Enfile(k, p, f).panique = k.panique
<1> DEFINE r == Enfile(k, p, f)
<1>1. /\ r \in Noyaux /\ Memes(r, k) /\ r.etat = k.etat
      /\ Chainage(r.queue, k.etat, {p} \ {p})
  BY EnfileDiscipline, EnfileType
<1> HIDE DEF r
<1>2. {p} \ {p} = {}
  OBVIOUS
<1>3. Chainage(r.queue, r.etat, {})
  BY <1>1, <1>2
<1>4. \A x \in Procs : r.etat[x] = "ELU" <=> x = r.elu
  BY <1>1 DEF Memes
<1>5. IdlePret(r)
  BY <1>1 DEF IdlePret, Memes
<1> QED
  BY <1>1, <1>3, <1>4, <1>5 DEF Regle, Memes, r

\* waitpid() that collects the i-th child of the caller: the child is put in
\* proc_mourants and nothing else moves.
LEMMA RecolteRegle ==
    ASSUME NEW k \in Noyaux, Regle(k), k.panique = "non",
           NEW i \in 1 .. Len(k.fils[k.elu]), k.etat[k.fils[k.elu][i]] = "ZOMBIE"
    PROVE  LET c == k.fils[k.elu][i]
               k2 == Enfile([k EXCEPT !.fils[k.elu] = RemoveAt(@, i),
                                      !.etat[c] = "MOURANT",
                                      !.pere[c] = Nul,
                                      !.suite[k.elu] = User],
                            c, "mourants")
           IN  k2 \in Noyaux /\ Regle(k2) /\ k2.panique = "non"
<1> DEFINE c == k.fils[k.elu][i]
           l == RemoveAt(k.fils[k.elu], i)
           e == [k.etat EXCEPT ![c] = "MOURANT"]
           k1 == [k EXCEPT !.fils[k.elu] = l, !.etat[c] = "MOURANT",
                           !.pere[c] = Nul, !.suite[k.elu] = User]
           k2 == Enfile(k1, c, "mourants")
<1>1. k.fils[k.elu] \in Seq(Pids) /\ k.elu \in Procs /\ k.etat \in [Procs -> Etats]
  BY DEF Noyaux
<1>2. c \in Pids /\ c \in Procs /\ Idle \in Procs /\ k.etat[c] = "ZOMBIE"
  BY <1>1, ConstantesProcs
<1>3. l \in Seq(Pids)
  BY <1>1, RemoveAtListe
<1> HIDE DEF c, l
<1>4. k1 \in Noyaux
  BY <1>1, <1>2, <1>3, UserType DEF Noyaux, Etats
<1>5. /\ k1.queue = k.queue /\ k1.etat = e /\ k1.elu = k.elu
      /\ k1.panique = k.panique /\ k1.suite = [k.suite EXCEPT ![k.elu] = User]
  BY DEF Noyaux
<1> HIDE DEF k1, e
<1>6. \A p \in Procs : e[p] = IF p = c THEN "MOURANT" ELSE k.etat[p]
  BY <1>1 DEF e
<1>7. Chainage(k1.queue, k1.etat, {c})
  <2>1. Chainage(k.queue, k.etat, {} \cup {c})
    BY <1>2, ChainageTenir, QueuesDeValeurs DEF Regle
  <2>2. Chainage(k.queue, [k.etat EXCEPT ![c] = "MOURANT"], {} \cup {c})
    BY <1>1, <2>1, ChainageEtat
  <2>3. {} \cup {c} = {c}
    OBVIOUS
  <2> QED
    BY <1>5, <2>2, <2>3 DEF e
<1>8. IdlePret(k1)
  <2>1. k1.suite[Idle].appel \in {"user", k.suite[Idle].appel}
    <3>1. k.suite \in [Procs -> Suites] /\ User.appel = "user"
      BY DEF Noyaux, User
    <3>2. k1.suite[Idle] = IF Idle = k.elu THEN User ELSE k.suite[Idle]
      BY <1>1, <1>2, <1>5, <3>1
    <3> QED
      BY <3>1, <3>2
  <2>2. k1.etat[Idle] = k.etat[Idle] /\ IdlePret(k)
    BY <1>2, <1>5, <1>6 DEF Regle, IdlePret
  <2> QED
    BY <2>1, <2>2 DEF IdlePret
<1>9. "mourants" \in QueuesDe(k1.etat[c])
  BY <1>2, <1>5, <1>6, QueuesDeValeurs
<1>10. \A p \in Procs : k1.etat[p] = "ELU" <=> p = k1.elu
  BY <1>2, <1>5, <1>6 DEF Regle
<1>11. k2 \in Noyaux /\ Regle(k2) /\ k2.panique = k1.panique
  BY <1>2, <1>4, <1>7, <1>8, <1>9, <1>10, EnfileRegle, ConstantesQueues
<1> HIDE DEF k2
<1>12. k2 \in Noyaux /\ Regle(k2) /\ k2.panique = "non"
  BY <1>5, <1>11
<1> QED
  BY <1>12 DEF k2, k1, c, l

LEMMA RecolteFiable ==
    ASSUME NEW k \in Noyaux, Regle(k), k.panique = "non",
           NEW i \in 1 .. Len(k.fils[k.elu]), k.etat[k.fils[k.elu][i]] = "ZOMBIE"
    PROVE  Recolte(k, i) \in Noyaux /\ Fiable(Recolte(k, i))
<1> DEFINE c == k.fils[k.elu][i]
           k2 == Enfile([k EXCEPT !.fils[k.elu] = RemoveAt(@, i),
                                  !.etat[c] = "MOURANT",
                                  !.pere[c] = Nul,
                                  !.suite[k.elu] = User],
                        c, "mourants")
<1>1. k2 \in Noyaux /\ Regle(k2) /\ k2.panique = "non"
  BY RecolteRegle
<1>2. Recolte(k, i) = FreeMourantQueue(k2)
  BY DEF Recolte
<1> HIDE DEF k2
<1> QED
  BY <1>1, <1>2, LibereFiable

\* The elected process blocks in waitpid().
LEMMA BloqueEluPret ==
    ASSUME NEW k \in Noyaux, Regle(k), k.elu # Idle,
           NEW r \in Noyaux, r.queue = k.queue, r.elu = k.elu,
           r.etat = [k.etat EXCEPT ![k.elu] = "ATTEND_FILS"],
           r.suite[Idle] = k.suite[Idle]
    PROVE  Pret(r)
<1>1. k.elu \in Procs /\ Idle \in Procs /\ k.etat \in [Procs -> Etats]
  BY ConstantesProcs DEF Noyaux
<1>2. k.etat[k.elu] = "ELU" /\ Chainage(k.queue, k.etat, {})
  BY <1>1 DEF Regle
<1> DEFINE e == [k.etat EXCEPT ![k.elu] = "ATTEND_FILS"]
<1>3. \A p \in Procs : e[p] = IF p = k.elu THEN "ATTEND_FILS" ELSE k.etat[p]
  BY <1>1
<1>4. Chainage(k.queue, e, {})
  <2>1. Chainage(k.queue, k.etat, {} \cup {k.elu})
    BY <1>1, <1>2, ChainageTenir, QueuesDeValeurs
  <2>2. Chainage(k.queue, e, {} \cup {k.elu})
    BY <1>1, <2>1, ChainageEtat
  <2>3. QueuesDe(e[k.elu]) = {}
    BY <1>1, <1>3, QueuesDeValeurs
  <2> HIDE DEF e
  <2>4. Chainage(k.queue, e, ({} \cup {k.elu}) \ {k.elu})
    BY <1>1, <2>2, <2>3, ChainageTenir
  <2>5. ({} \cup {k.elu}) \ {k.elu} = {}
    OBVIOUS
  <2> QED
    BY <2>4, <2>5
<1>5. r.etat = e
  OBVIOUS
<1> HIDE DEF e
<1>6. Tenu(r) = {}
  BY <1>1, <1>3, <1>5 DEF Tenu
<1>7. \A p \in Procs : r.etat[p] = "ELU" => p = r.elu
  BY <1>3, <1>5 DEF Regle
<1>8. IdlePret(r)
  BY <1>1, <1>3, <1>5 DEF Regle, IdlePret
<1> QED
  BY <1>4, <1>5, <1>6, <1>7, <1>8 DEF Pret

LEMMA TourWaitpidFiable ==
    ASSUME NEW k \in Noyaux, Regle(k), k.panique = "non", k.elu # Idle,
           NEW cible \in Pids \cup {Nul}
    PROVE  Fiable(TourWaitpid(k, cible))
<1>1. CASE Finis(k, cible) # {}
  <2> DEFINE i == Min(Finis(k, cible))
  <2>1. i \in 1 .. Len(k.fils[k.elu]) /\ i \in Finis(k, cible)
    BY <1>1, FinisBornes
  <2>2. TourWaitpid(k, cible) = Recolte(k, i)
    BY <1>1 DEF TourWaitpid
  <2> HIDE DEF i
  <2>3. k.etat[k.fils[k.elu][i]] = "ZOMBIE"
    BY <2>1 DEF Finis
  <2> QED
    BY <2>1, <2>2, <2>3, RecolteFiable
<1>2. CASE Finis(k, cible) = {}
  <2> DEFINE s == [appel |-> "waitpid", arg |-> cible]
             k1 == [k EXCEPT !.etat[k.elu] = "ATTEND_FILS", !.suite[k.elu] = s]
  <2>1. s \in Suites
    BY DEF Suites
  <2>2. TourWaitpid(k, cible) = Ordonnanceur(k1)
    BY <1>2 DEF TourWaitpid
  <2> HIDE DEF s
  <2>3. k1 \in Noyaux
    BY <2>1 DEF Noyaux, Etats
  <2>4. /\ k1.queue = k.queue /\ k1.elu = k.elu /\ k1.panique = "non"
        /\ k1.etat = [k.etat EXCEPT ![k.elu] = "ATTEND_FILS"]
        /\ k1.suite[Idle] = k.suite[Idle]
    BY DEF Noyaux
  <2> HIDE DEF k1
  <2>5. Pret(k1)
    BY <2>3, <2>4, BloqueEluPret
  <2> QED
    BY <2>2, <2>3, <2>4, <2>5, OrdonnanceurFiable
<1> QED
  BY <1>1, <1>2

\* A process that runs in no list, as a new one, changes its state.
LEMMA LibreEtat ==
    ASSUME NEW k \in Noyaux, Regle(k), NEW p \in Procs, QueuesDe(k.etat[p]) = {},
           NEW x
    PROVE  Chainage(k.queue, [k.etat EXCEPT ![p] = x], {p})
<1>1. k.etat \in [Procs -> Etats] /\ Chainage(k.queue, k.etat, {})
  BY DEF Noyaux, Regle
<1>2. Chainage(k.queue, k.etat, {} \cup {p})
  BY <1>1, ChainageTenir
<1>3. {} \cup {p} = {p}
  OBVIOUS
<1>4. Chainage(k.queue, k.etat, {p})
  BY <1>2, <1>3
<1> QED
  BY <1>1, <1>4, ChainageEtat

\* start() leaves the new process in the ready list.
LEMMA NouveauRegle ==
    ASSUME NEW k \in Noyaux, Regle(k), NEW p \in Pids, k.etat[p] = "LIBRE",
           NEW r \in Noyaux, r.queue = k.queue, r.elu = k.elu, r.suite = k.suite,
           r.etat = [k.etat EXCEPT ![p] = "ACTIVABLE"]
    PROVE  /\ Enfile(r, p, "activables") \in Noyaux
           /\ Regle(Enfile(r, p, "activables"))
           /\ Enfile(r, p, "activables").panique = r.panique
<1>1. k.etat \in [Procs -> Etats] /\ p \in Procs /\ Idle \in Procs
  BY ConstantesProcs DEF Noyaux
<1>2. Chainage(r.queue, r.etat, {p})
  <2>1. QueuesDe(k.etat[p]) = {}
    BY QueuesDeValeurs
  <2>2. Chainage(k.queue, [k.etat EXCEPT ![p] = "ACTIVABLE"], {p})
    BY <1>1, <2>1, LibreEtat
  <2> QED
    BY <2>2
<1>3. \A x \in Procs : r.etat[x] = IF x = p THEN "ACTIVABLE" ELSE k.etat[x]
  BY <1>1
<1>4. "activables" \in QueuesDe(r.etat[p])
  BY <1>1, <1>3, QueuesDeValeurs
<1>5. \A x \in Procs : r.etat[x] = "ELU" <=> x = r.elu
  BY <1>3 DEF Regle
<1>6. IdlePret(r)
  BY <1>1, <1>3 DEF Regle, IdlePret
<1> QED
  BY <1>1, <1>2, <1>4, <1>5, <1>6, EnfileRegle, ConstantesQueues

\* kill() of another process, once it is out of its list.
LEMMA KillRegle ==
    ASSUME NEW k \in Noyaux, Regle(k), k.panique = "non",
           NEW p \in Pids, p # k.elu, Chaine(k, p)
    PROVE  LET d == Defile(k, p)
               fini == Fini(d, p)
               m == Enfile(fini, p, "mourants")
               a == ReveillePere(fini, p)
           IN  /\ d \in Noyaux /\ d.panique = "non"
               /\ k.pere[p] = Nul => m \in Noyaux /\ Regle(m) /\ m.panique = "non"
               /\ k.pere[p] # Nul => a \in Noyaux /\ Regle(a) /\ a.panique = "non"
<1> DEFINE d == Defile(k, p)
           fini == Fini(d, p)
           m == Enfile(fini, p, "mourants")
           a == ReveillePere(fini, p)
<1>1. p \in Procs /\ Idle \in Procs /\ p # Idle /\ k.elu \in Procs
  BY ConstantesProcs, NoyauAssumption DEF Noyaux
<1>2. /\ d \in Noyaux /\ d.etat = k.etat /\ Memes(d, k)
      /\ Chainage(d.queue, k.etat, {p})
  <2>1. Chainage(k.queue, k.etat, {})
    BY DEF Regle
  <2>2. Chainage(d.queue, k.etat, {} \cup {p}) /\ d.etat = k.etat /\ Memes(d, k)
    BY <1>1, <2>1, DefileDiscipline
  <2>3. d \in Noyaux
    BY <1>1, DefileType
  <2>4. {} \cup {p} = {p}
    OBVIOUS
  <2> HIDE DEF d
  <2> QED
    BY <2>2, <2>3, <2>4
<1> HIDE DEF d
<1>3. Chainage(d.queue, d.etat, {p}) /\ d.pere[p] = k.pere[p] /\ d.panique = "non"
  BY <1>2 DEF Memes
<1>4. fini \in Noyaux
  BY <1>1, <1>2, FiniType
<1>5. /\ Chainage(fini.queue, fini.etat, IF d.pere[p] = Nul THEN {p} ELSE {})
      /\ fini.etat[p] = IF d.pere[p] = Nul THEN "MOURANT" ELSE "ZOMBIE"
      /\ \A x \in Procs \ {p} : fini.etat[x] = d.etat[x]
      /\ Memes(fini, d)
  BY <1>1, <1>2, <1>3, FiniDiscipline
<1> HIDE DEF fini
<1>6. \A x \in Procs : fini.etat[x] = "ELU" <=> x = fini.elu
  <2>1. fini.elu = k.elu
    BY <1>2, <1>5 DEF Memes
  <2>2. fini.etat[p] # "ELU"
    BY <1>5
  <2> QED
    BY <1>2, <1>5, <2>1, <2>2 DEF Regle
<1>7. IdlePret(fini)
  BY <1>1, <1>2, <1>5 DEF Regle, IdlePret, Memes
<1>8. fini.panique = "non"
  BY <1>3, <1>5 DEF Memes
<1>9. ASSUME k.pere[p] = Nul PROVE m \in Noyaux /\ Regle(m) /\ m.panique = "non"
  <2>1. Chainage(fini.queue, fini.etat, {p}) /\ fini.etat[p] = "MOURANT"
    BY <1>3, <1>5, <1>9
  <2>2. "mourants" \in QueuesDe(fini.etat[p])
    BY <2>1, QueuesDeValeurs
  <2>3. m \in Noyaux /\ Regle(m) /\ m.panique = fini.panique
    BY <1>1, <1>4, <1>6, <1>7, <2>1, <2>2, EnfileRegle, ConstantesQueues
  <2> HIDE DEF m
  <2> QED
    BY <1>8, <2>3
<1>10. ASSUME k.pere[p] # Nul PROVE a \in Noyaux /\ Regle(a) /\ a.panique = "non"
  <2>1. Chainage(fini.queue, fini.etat, {})
    BY <1>3, <1>5, <1>10
  <2>2. a \in Noyaux
    BY <1>1, <1>4, ReveillePereType
  <2>3. /\ Chainage(a.queue, a.etat, {})
        /\ \A x \in Procs : \/ a.etat[x] = fini.etat[x]
                            \/ fini.etat[x] = "ATTEND_FILS" /\ a.etat[x] = "ACTIVABLE"
        /\ Memes(a, fini)
    BY <1>1, <1>4, <2>1, ReveillePereDiscipline
  <2> HIDE DEF a
  <2>4. \A x \in Procs : a.etat[x] = "ELU" <=> x = a.elu
    BY <1>6, <2>3 DEF Memes
  <2>5. IdlePret(a)
    BY <1>1, <1>7, <2>3 DEF IdlePret, Memes
  <2>6. Regle(a) /\ a.panique = "non"
    BY <1>8, <2>3, <2>4, <2>5 DEF Regle, Memes
  <2> QED
    BY <2>2, <2>6
<1> QED
  BY <1>2, <1>3, <1>9, <1>10 DEF d, fini

LEMMA KillFiable ==
    ASSUME NEW k \in Noyaux, Regle(k), k.panique = "non",
           NEW p \in Pids, p # k.elu, Chaine(k, p)
    PROVE  LET d == Defile(k, p)
               fini == Fini(d, p)
           IN  /\ d.panique = "non"
               /\ k.pere[p] = Nul => Fiable(FreeMourantQueue(Enfile(fini, p, "mourants")))
               /\ k.pere[p] # Nul => Fiable(FreeMourantQueue(ReveillePere(fini, p)))
BY KillRegle, LibereFiable

\* chprio() of a process that it moves in its list, or to its place in
\* another of the lists its state allows.
LEMMA ReplaceFiable ==
    ASSUME NEW k \in Noyaux, Regle(k), k.panique = "non", NEW p \in Procs, NEW f,
           Chaine(k, p) => f \in Queues /\ f \in QueuesDe(k.etat[p])
    PROVE  /\ Replace(k, p, f) \in Noyaux
           /\ Fiable(Replace(k, p, f))
           /\ Chaine(k, p) => Regle(Replace(k, p, f)) /\ Replace(k, p, f).panique = "non"
<1> DEFINE d == Defile(k, p)
           r == Replace(k, p, f)
<1>1. r = Enfile(d, p, f) /\ r \in Noyaux
  BY ReplaceType DEF Replace
<1>2. CASE ~ Chaine(k, p)
  <2>1. d = [k EXCEPT !.panique = "queue_del"]
    BY <1>2 DEF Defile
  <2>2. d.queue = k.queue /\ d.panique = "queue_del"
    BY <2>1 DEF Noyaux
  <2>3. ~ Chaine(d, p)
    BY <1>2, <2>2 DEF Chaine, DansQueue
  <2> HIDE DEF d
  <2> DEFINE x == QueueAdd(d.queue[f], p, Cle(d, f))
  <2>4. Enfile(d, p, f) = [d EXCEPT !.queue[f] = x]
    BY <2>3 DEF Enfile
  <2>5. d \in Noyaux
    BY DefileType DEF d
  <2> HIDE DEF x
  <2>6. [d EXCEPT !.queue[f] = x].panique = "queue_del"
    BY <2>2, <2>5 DEF Noyaux
  <2>7. r.panique = "queue_del"
    BY <1>1, <2>4, <2>6
  <2> QED
    BY <1>1, <1>2, <2>7 DEF Fiable
<1>3. CASE Chaine(k, p)
  <2>1. /\ d \in Noyaux /\ d.etat = k.etat /\ Memes(d, k)
        /\ Chainage(d.queue, k.etat, {} \cup {p})
    BY <1>3, DefileDiscipline, DefileType DEF Regle
  <2>2. {} \cup {p} = {p}
    OBVIOUS
  <2> HIDE DEF d
  <2>3. Chainage(d.queue, d.etat, {p})
    BY <2>1, <2>2
  <2>4. f \in Queues /\ f \in QueuesDe(d.etat[p])
    BY <1>3, <2>1
  <2>5. \A x \in Procs : d.etat[x] = "ELU" <=> x = d.elu
    BY <2>1 DEF Regle, Memes
  <2>6. IdlePret(d) /\ d.panique = "non"
    BY <2>1 DEF Regle, IdlePret, Memes
  <2>7. Regle(Enfile(d, p, f)) /\ Enfile(d, p, f).panique = "non"
    BY <2>1, <2>3, <2>4, <2>5, <2>6, EnfileRegle
  <2> QED
    BY <1>1, <2>7 DEF Fiable
<1> HIDE DEF r
<1> QED
  BY <1>1, <1>2, <1>3 DEF r

\* The elected process is put in the list of the state e it blocks in.
LEMMA EnfileEluPret ==
    ASSUME NEW k \in Noyaux, Regle(k), k.elu # Idle,
           NEW e, e \notin {"ELU", "ACTIVABLE", "MOURANT"},
           NEW f \in Queues, f \in QueuesDe(e),
           NEW r \in Noyaux, r.queue = k.queue, r.elu = k.elu,
           r.etat = [k.etat EXCEPT ![k.elu] = e], r.suite[Idle] = k.suite[Idle]
    PROVE  /\ Enfile(r, k.elu, f) \in Noyaux
           /\ Pret(Enfile(r, k.elu, f))
           /\ Enfile(r, k.elu, f).panique = r.panique
<1> DEFINE s == Enfile(r, k.elu, f)
<1>1. k.elu \in Procs /\ Idle \in Procs /\ k.etat \in [Procs -> Etats]
  BY ConstantesProcs DEF Noyaux
<1>2. k.etat[k.elu] = "ELU"
  BY <1>1 DEF Regle
<1>3. Chainage(r.queue, r.etat, {k.elu})
  <2>1. QueuesDe(k.etat[k.elu]) = {}
    BY <1>2, QueuesDeValeurs
  <2>2. Chainage(k.queue, [k.etat EXCEPT ![k.elu] = e], {k.elu})
    BY <1>1, <2>1, LibreEtat
  <2> QED
    BY <2>2
<1>4. \A x \in Procs : r.etat[x] = IF x = k.elu THEN e ELSE k.etat[x]
  BY <1>1
<1>5. f \in QueuesDe(r.etat[k.elu])
  BY <1>1, <1>4
<1>6. /\ s \in Noyaux /\ s.etat = r.etat /\ Memes(s, r)
      /\ Chainage(s.queue, r.etat, {k.elu} \ {k.elu})
  <2> DEFINE p == k.elu
             L == {p}
             d == r.etat
  <2>1. /\ p \in Procs /\ p \in L /\ Chainage(r.queue, d, L) /\ f \in QueuesDe(d[p])
        /\ d = r.etat
    BY <1>1, <1>3, <1>5
  <2> HIDE DEF p, L, d
  <2>2. /\ Chainage(Enfile(r, p, f).queue, r.etat, L \ {p})
        /\ Enfile(r, p, f).etat = r.etat
        /\ Memes(Enfile(r, p, f), r)
    BY <2>1, EnfileDiscipline
  <2>3. Enfile(r, p, f) \in Noyaux
    BY <2>1, EnfileType
  <2> QED
    BY <2>2, <2>3, Zenon DEF p, L
<1> HIDE DEF s
<1>7. {k.elu} \ {k.elu} = {} /\ s.elu = k.elu
  BY <1>6 DEF Memes
<1>8. Tenu(s) = {}
  BY <1>1, <1>4, <1>6, <1>7 DEF Tenu
<1>9. Chainage(s.queue, s.etat, Tenu(s))
  BY <1>6, <1>7, <1>8
<1>10. \A x \in Procs : s.etat[x] = "ELU" => x = s.elu
  BY <1>4, <1>6, <1>7 DEF Regle
<1>11. IdlePret(s)
  BY <1>1, <1>4, <1>6 DEF Regle, IdlePret, Memes
<1> QED
  BY <1>6, <1>7, <1>9, <1>10, <1>11 DEF Pret, Memes, s

LEMMA VerifieReveilleRegle ==
    ASSUME NEW k \in Noyaux, Regle(k), NEW t
    PROVE  /\ Regle(VerifieReveille(k, t))
           /\ VerifieReveille(k, t).elu = k.elu
           /\ VerifieReveille(k, t).panique = k.panique
           /\ \A p \in Procs : VerifieReveille(k, t).etat[p] =
                 IF p \in Range(Reveilles(k, t)) THEN "ACTIVABLE" ELSE k.etat[p]
<1> DEFINE q == k.queue["endormis"]
           w == Reveilles(k, t)
           r == SubSeq(q, Len(w) + 1, Len(q))
           s == [k.queue EXCEPT !["endormis"] = r]
           k1 == [k EXCEPT !.queue["endormis"] = r]
           k2 == ActiveTous(k1, w)
<1>1. q \in Seq(Procs) /\ k.queue \in [Queues -> Seq(Procs)] /\ IsInjective(q)
  BY ConstantesQueues DEF Noyaux, Regle, Chainage
<1>2. /\ w \in Seq(Procs) /\ r \in Seq(Procs)
      /\ Range(q) = Range(w) \cup Range(r) /\ Range(w) \cap Range(r) = {}
      /\ IsInjective(w) /\ IsInjective(r)
  <2>1. PICK m \in 0 .. Len(q) : w = SubSeq(q, 1, m) /\ Len(w) = m
    BY ReveillesCoupe
  <2> HIDE DEF w, q
  <2> QED
    BY <1>1, <2>1, ListeCoupee
<1>3. VerifieReveille(k, t) = k2
  BY DEF VerifieReveille
<1> HIDE DEF w, r
<1>4. k1 \in Noyaux /\ k1.queue = s /\ k1.etat = k.etat /\ Memes(k1, k)
  BY <1>2 DEF Noyaux, Memes
<1> HIDE DEF k1
<1>5. Chainage(k1.queue, k1.etat, Range(w))
  <2>1. Range(w) \subseteq Range(q) /\ Range(r) = Range(q) \ Range(w)
    BY <1>2
  <2>2. Chainage(k.queue, k.etat, {})
    BY DEF Regle
  <2>3. Chainage(s, k.etat, {} \cup Range(w))
    BY <1>1, <1>2, <2>1, <2>2, ChainageRetrait, ConstantesQueues
  <2>4. {} \cup Range(w) = Range(w)
    OBVIOUS
  <2> HIDE DEF s
  <2> QED
    BY <1>4, <2>3, <2>4
<1>6. \A p \in Procs : p \in Range(w) => k.etat[p] = "ENDORMI"
  <2> SUFFICES ASSUME NEW p \in Procs, p \in Range(w) PROVE k.etat[p] = "ENDORMI"
    OBVIOUS
  <2>1. p \in Range(k.queue["endormis"])
    BY <1>2
  <2>2. "endormis" \in QueuesDe(k.etat[p]) /\ k.etat[p] \in Etats
    BY <2>1, ConstantesQueues DEF Regle, Chainage, Noyaux
  <2> QED
    BY <2>2, QueuesDeInverse
<1>7. /\ Chainage(k2.queue, k2.etat, {})
      /\ k2.etat = [p \in Procs |-> IF p \in Range(w) THEN "ACTIVABLE" ELSE k1.etat[p]]
      /\ Memes(k2, k1)
  BY <1>2, <1>4, <1>5, ActiveTousDiscipline
<1> HIDE DEF k2
<1>8. \A p \in Procs : k2.etat[p] = IF p \in Range(w) THEN "ACTIVABLE" ELSE k.etat[p]
  BY <1>4, <1>7
<1>9. k2.elu = k.elu /\ k2.panique = k.panique /\ k2.suite = k.suite
  BY <1>4, <1>7 DEF Memes
<1>10. \A p \in Procs : k2.etat[p] = "ELU" <=> p = k2.elu
  BY <1>6, <1>8, <1>9 DEF Regle
<1>11. IdlePret(k2)
  BY <1>6, <1>8, <1>9, ConstantesProcs DEF Regle, IdlePret
<1> QED
  BY <1>3, <1>7, <1>8, <1>9, <1>10, <1>11 DEF Regle, w

LEMMA SuiteRegle ==
    ASSUME NEW k \in Noyaux, Regle(k), NEW p \in Procs,
           NEW s \in Suites, s.appel \in {"user", "tic"}
    PROVE  LET r == [k EXCEPT !.suite[p] = s]
           IN  r \in Noyaux /\ Regle(r) /\ r.panique = k.panique
<1> DEFINE r == [k EXCEPT !.suite[p] = s]
<1>1. r \in Noyaux
  BY SuiteType
<1>2. /\ r.queue = k.queue /\ r.etat = k.etat /\ r.elu = k.elu /\ r.panique = k.panique
      /\ k.suite \in [Procs -> Suites] /\ r.suite = [k.suite EXCEPT ![p] = s]
  BY DEF Noyaux
<1> HIDE DEF r
<1>3. r.suite[Idle].appel \in {"user", "tic"}
  BY <1>2, ConstantesProcs DEF Regle, IdlePret
<1>4. Regle(r)
  BY <1>2, <1>3 DEF Regle, IdlePret
<1> QED
  BY <1>1, <1>2, <1>4 DEF r

LEMMA FinTicFiable ==
    ASSUME NEW k \in Noyaux, Regle(k), k.panique = "non", NEW cpt
    PROVE  FinTic(k, cpt) \in Noyaux /\ Fiable(FinTic(k, cpt))
<1> DEFINE k1 == [k EXCEPT !.suite[k.elu] = User]
<1>1. FinTic(k, cpt) = IF cpt % (ClockFreq \div SchedFreq) = 0
                       THEN Ordonnanceur(k1) ELSE k1
  BY DEF FinTic
<1>2. k1 \in Noyaux /\ Regle(k1) /\ k1.panique = "non"
  <2>1. k.elu \in Procs /\ User \in Suites /\ User.appel = "user"
    BY UserType DEF Noyaux, User
  <2> QED
    BY <2>1, SuiteRegle
<1> HIDE DEF k1
<1>3. Ordonnanceur(k1) \in Noyaux /\ Fiable(Ordonnanceur(k1)) /\ Fiable(k1)
  BY <1>2, ReglePret, OrdonnanceurFiable DEF Fiable
<1> QED
  BY <1>1, <1>2, <1>3

LEMMA CourantChamps ==
    /\ Courant.elu = elu /\ Courant.etat = etat /\ Courant.prio = prio
    /\ Courant.pere = pere /\ Courant.fils = fils /\ Courant.queue = queue
    /\ Courant.suite = suite /\ Courant.panique = panique
BY DEF Courant

LEMMA DisciplineProcessus ==
    ASSUME TypeNoyau, Regle(Courant), ProcessusNext
    PROVE  Regle(Courant)' /\ JamaisEnfileDeuxFois'
<1> DEFINE K == Courant
<1>1. /\ K \in Noyaux /\ Regle(K)
      /\ K.elu = elu /\ K.etat = etat /\ K.prio = prio /\ K.pere = pere
      /\ K.queue = queue /\ K.suite = suite /\ K.panique = panique
  BY CourantType, CourantChamps
<1>2. elu \in Procs /\ prio \in [Procs -> 0 .. PrioMax] /\ Idle \notin Pids
  BY NoyauAssumption DEF TypeNoyau
<1>3. ASSUME NEW k \in Noyaux, Fiable(k), Devient(k)
      PROVE  Regle(Courant)' /\ JamaisEnfileDeuxFois'
  BY <1>3, DevientRegle
<1> HIDE DEF K
<1>4. ASSUME NEW pr \in 1 .. PrioMax, Start(pr)
      PROVE  Regle(Courant)' /\ JamaisEnfileDeuxFois'
  <2>1. PICK p \in Pids :
           /\ PidLibre(p)
           /\ LET k == Enfile([K EXCEPT !.etat[p] = "ACTIVABLE",
                                        !.prio[p] = pr,
                                        !.pere[p] = elu,
                                        !.fils[elu] = <<p>> \o @],
                              p, "activables")
              IN  Devient(IF pr > prio[elu] THEN Ordonnanceur(k) ELSE k)
    BY <1>4 DEF Start, K
  <2> DEFINE l == <<p>> \o K.fils[elu]
             k0 == [K EXCEPT !.etat[p] = "ACTIVABLE", !.prio[p] = pr,
                             !.pere[p] = elu, !.fils[elu] = l]
             k == Enfile(k0, p, "activables")
  <2>2. p \in Procs /\ elu \in Procs \cup {Nul} /\ pr \in 0 .. PrioMax
        /\ "ACTIVABLE" \in Etats
    BY <1>2, ConstantesProcs, NoyauAssumption DEF Etats
  <2>3. l \in Seq(Pids)
    BY <1>1, <1>2 DEF Noyaux
  <2>4. Devient(IF pr > prio[elu] THEN Ordonnanceur(k) ELSE k)
    BY <2>1 DEF l
  <2> HIDE DEF l
  <2>5. k0 \in Noyaux
    BY <1>1, <1>2, <2>2, <2>3 DEF Noyaux
  <2>6. /\ k0.queue = K.queue /\ k0.elu = K.elu /\ k0.suite = K.suite
        /\ k0.etat = [K.etat EXCEPT ![p] = "ACTIVABLE"] /\ k0.panique = "non"
    BY <1>1, <1>4 DEF Noyaux, Start, EnModeUser
  <2> HIDE DEF k0
  <2>7. K.etat[p] = "LIBRE"
    BY <1>1, <2>1 DEF PidLibre
  <2>8. k \in Noyaux /\ Regle(k) /\ k.panique = "non"
    BY <1>1, <2>5, <2>6, <2>7, NouveauRegle
  <2> HIDE DEF k
  <2>9. Ordonnanceur(k) \in Noyaux /\ Fiable(Ordonnanceur(k)) /\ Fiable(k)
    BY <2>8, ReglePret, OrdonnanceurFiable DEF Fiable
  <2> QED
    BY <1>3, <2>4, <2>8, <2>9
<1>5. ASSUME EnModeUser PROVE K.elu # Idle /\ K.panique = "non"
  BY <1>1, <1>2, <1>5 DEF EnModeUser
<1>6. ASSUME Exit PROVE Regle(Courant)' /\ JamaisEnfileDeuxFois'
  <2> DEFINE k == ReveillePere(Fini(K, elu), elu)
  <2>1. Devient(Ordonnanceur(k))
    BY <1>6 DEF Exit, K
  <2>2. k \in Noyaux
    BY <1>1, <1>2, FiniType, ReveillePereType
  <2>3. Pret(k) /\ k.panique = "non"
    BY <1>1, <1>5, <1>6, FinEluDiscipline DEF Exit
  <2> HIDE DEF k
  <2> QED
    BY <1>3, <2>1, <2>2, <2>3, OrdonnanceurFiable
<1>7. ASSUME KillElu PROVE Regle(Courant)' /\ JamaisEnfileDeuxFois'
  <2> DEFINE k == Fini(K, elu)
  <2>1. Devient(Ordonnanceur(k))
    BY <1>7 DEF KillElu, K
  <2>2. k \in Noyaux
    BY <1>1, <1>2, FiniType
  <2>3. Pret(k) /\ k.panique = "non"
    BY <1>1, <1>5, <1>7, FinEluDiscipline DEF KillElu
  <2> HIDE DEF k
  <2> QED
    BY <1>3, <2>1, <2>2, <2>3, OrdonnanceurFiable
<1>8. ASSUME NEW p \in Pids, KillAutre(p) PROVE Regle(Courant)' /\ JamaisEnfileDeuxFois'
  <2> DEFINE d == Defile(K, p)
             fini == Fini(d, p)
             m == FreeMourantQueue(Enfile(fini, p, "mourants"))
             a == FreeMourantQueue(ReveillePere(fini, p))
  <2>1. /\ Devient(IF d.panique # "non" THEN d
                   ELSE FreeMourantQueue(IF pere[p] = Nul THEN Enfile(fini, p, "mourants")
                                         ELSE ReveillePere(fini, p)))
        /\ EnModeUser /\ p # elu
    BY <1>8 DEF KillAutre, K
  <2>2. Devient(IF d.panique # "non" THEN d ELSE IF pere[p] = Nul THEN m ELSE a)
    BY <2>1
  <2>3. p \in Procs
    BY ConstantesProcs
  <2>4. d \in Noyaux
    BY <1>1, <2>3, DefileType
  <2>5. CASE ~ Chaine(K, p)
    <3>1. d = [K EXCEPT !.panique = "queue_del"]
      BY <2>5 DEF Defile
    <3>2. d.panique = "queue_del"
      BY <1>1, <3>1 DEF Noyaux
    <3> HIDE DEF d
    <3> QED
      BY <1>3, <2>2, <2>4, <3>2 DEF Fiable
  <2>6. CASE Chaine(K, p)
    <3>1. /\ d.panique = "non"
          /\ K.pere[p] = Nul => Fiable(m)
          /\ K.pere[p] # Nul => Fiable(a)
      BY <1>1, <1>5, <2>1, <2>6, KillFiable
    <3>2. m \in Noyaux /\ a \in Noyaux
      <4>1. fini \in Noyaux
        BY <2>3, <2>4, FiniType
      <4> HIDE DEF fini
      <4> QED
        BY <2>3, <4>1, EnfileType, ReveillePereType, FreeMourantQueueType, ConstantesQueues
    <3> HIDE DEF d, m, a
    <3> QED
      BY <1>1, <1>3, <2>2, <3>1, <3>2
  <2> QED
    BY <2>5, <2>6
<1>9. ASSUME NEW cible \in Pids \cup {Nul}, Waitpid(cible)
      PROVE  Regle(Courant)' /\ JamaisEnfileDeuxFois'
  <2>1. Devient(TourWaitpid(K, cible)) /\ EnModeUser
    BY <1>9 DEF Waitpid, K
  <2> QED
    BY <1>1, <1>3, <1>5, <2>1, TourWaitpidFiable, TourWaitpidType
<1>10. ASSUME RepriseWaitpid PROVE Regle(Courant)' /\ JamaisEnfileDeuxFois'
  <2>1. Devient(TourWaitpid(K, suite[elu].arg)) /\ K.panique = "non"
    BY <1>1, <1>10 DEF RepriseWaitpid, K
  <2>2. K.elu # Idle
    <3>1. suite[Idle].appel # "waitpid"
      BY <1>1 DEF Regle, IdlePret
    <3> QED
      BY <1>1, <1>10, <3>1 DEF RepriseWaitpid
  <2>3. suite[elu].arg \in Pids \cup {Nul}
    BY <1>2 DEF TypeNoyau, Suites
  <2> QED
    BY <1>1, <1>3, <2>1, <2>2, <2>3, TourWaitpidFiable, TourWaitpidType
<1>11. ASSUME NEW p \in Pids, NEW pr \in 1 .. PrioMax, Chprio(p, pr)
       PROVE  Regle(Courant)' /\ JamaisEnfileDeuxFois'
  <2> DEFINE k == [K EXCEPT !.prio[p] = pr]
             f == CHOOSE g \in Fids : DansQueue(k, p, g)
             k1 == Replace(k, p, "activables")
             k2 == Replace(k, p, f)
             x == CASE p = elu -> Ordonnanceur(k)
                    [] p # elu /\ etat[p] = "ACTIVABLE" ->
                          IF prio[elu] < pr THEN Ordonnanceur(k1) ELSE k1
                    [] p # elu /\ etat[p] = "ATTEND_FILE" -> k2
                    [] OTHER -> k
  <2>1. Devient(x) /\ EnModeUser
    BY <1>11 DEF Chprio, K
  <2>2. p \in Procs /\ pr \in 0 .. PrioMax
    BY ConstantesProcs, NoyauAssumption
  <2>3. k \in Noyaux
    BY <1>1, <2>2 DEF Noyaux
  <2>4. k.queue = K.queue /\ k.etat = K.etat /\ k.elu = K.elu /\ k.suite = K.suite
        /\ k.panique = "non"
    BY <1>1, <1>5, <2>1 DEF Noyaux
  <2> HIDE DEF k
  <2>5. Regle(k)
    BY <1>1, <2>4 DEF Regle, IdlePret
  <2>6. Ordonnanceur(k) \in Noyaux /\ Fiable(Ordonnanceur(k)) /\ Fiable(k)
    BY <2>3, <2>4, <2>5, ReglePret, OrdonnanceurFiable DEF Fiable
  <2>7. ASSUME etat[p] = "ACTIVABLE"
        PROVE  /\ k1 \in Noyaux /\ Fiable(k1)
               /\ Ordonnanceur(k1) \in Noyaux /\ Fiable(Ordonnanceur(k1))
    <3>1. k.etat[p] = "ACTIVABLE"
      BY <1>1, <2>4, <2>7
    <3>2. "activables" \in QueuesDe(k.etat[p]) /\ "activables" \in Queues
      BY <3>1, QueuesDeValeurs, ConstantesQueues
    <3>3. Chaine(k, p)
      <4>1. QueuesDe(k.etat[p]) # {}
        BY <3>2
      <4> QED
        BY <2>2, <2>5, <4>1 DEF Regle, Chainage, Chaine, DansQueue, Membres
    <3>4. k1 \in Noyaux /\ Fiable(k1) /\ Regle(k1) /\ k1.panique = "non"
      BY <2>2, <2>3, <2>4, <2>5, <3>2, <3>3, ReplaceFiable
    <3> HIDE DEF k1
    <3> QED
      BY <3>4, ReglePret, OrdonnanceurFiable
  <2>8. ASSUME etat[p] = "ATTEND_FILE" PROVE k2 \in Noyaux /\ Fiable(k2)
    <3>1. QueuesDe(k.etat[p]) = Fids
      BY <1>1, <2>4, <2>8, QueuesDeValeurs
    <3>2. ASSUME Chaine(k, p) PROVE f \in Queues /\ f \in QueuesDe(k.etat[p])
      <4>1. PICK g \in Queues : DansQueue(k, p, g)
        BY <3>2 DEF Chaine
      <4>2. g \in Fids
        BY <2>2, <2>5, <3>1, <4>1 DEF Regle, Chainage, DansQueue, Membres
      <4>3. f \in Fids
        BY <4>1, <4>2
      <4> QED
        BY <3>1, <4>3, ConstantesQueues
    <3> HIDE DEF f
    <3> QED
      BY <2>2, <2>3, <2>4, <2>5, <3>2, ReplaceFiable
  <2> HIDE DEF k1, k2
  <2>9. x \in Noyaux /\ Fiable(x)
    <3>1. CASE p = elu
      BY <2>3, <2>6, <3>1
    <3>2. CASE p # elu /\ etat[p] = "ACTIVABLE"
      BY <2>7, <3>2
    <3>3. CASE p # elu /\ etat[p] = "ATTEND_FILE"
      BY <2>8, <3>3
    <3>4. CASE p # elu /\ etat[p] \notin {"ACTIVABLE", "ATTEND_FILE"}
      BY <2>3, <2>6, <3>4
    <3> QED
      BY <3>1, <3>2, <3>3, <3>4
  <2> HIDE DEF x
  <2> QED
    BY <1>3, <2>1, <2>9
<1>12. ASSUME NEW t \in Dates, WaitClock(t) PROVE Regle(Courant)' /\ JamaisEnfileDeuxFois'
  <2> DEFINE r == [K EXCEPT !.etat[elu] = "ENDORMI", !.reveil[elu] = t]
             s == Enfile(r, elu, "endormis")
  <2>1. Devient(Ordonnanceur(s)) /\ EnModeUser
    BY <1>12 DEF WaitClock, K
  <2>2. r \in Noyaux
    BY <1>1 DEF Noyaux, Etats
  <2>3. /\ r.queue = K.queue /\ r.elu = K.elu /\ r.suite = K.suite
        /\ r.etat = [K.etat EXCEPT ![K.elu] = "ENDORMI"] /\ r.panique = "non"
    BY <1>1, <1>5, <2>1 DEF Noyaux
  <2> HIDE DEF r
  <2>4. /\ "endormis" \in Queues /\ "endormis" \in QueuesDe("ENDORMI")
        /\ r.suite[Idle] = K.suite[Idle]
    BY <2>3, QueuesDeValeurs, ConstantesQueues
  <2>5. s \in Noyaux /\ Pret(s) /\ s.panique = "non"
    BY <1>1, <1>5, <2>1, <2>2, <2>3, <2>4, EnfileEluPret
  <2> HIDE DEF s
  <2> QED
    BY <1>3, <2>1, <2>5, OrdonnanceurFiable
<1> QED
  BY <1>4, <1>6, <1>7, <1>8, <1>9, <1>10, <1>11, <1>12 DEF ProcessusNext

LEMMA DisciplineInit == Init => InvDiscipline
<1> SUFFICES ASSUME Init PROVE InvDiscipline
  OBVIOUS
<1>1. TypeOK
  BY TypeInit
<1>2. /\ elu \in Pids /\ Idle \notin Pids /\ Idle \in Procs
      /\ etat = [p \in Procs |-> IF p = elu THEN "ELU"
                                 ELSE IF p = Idle THEN "ACTIVABLE" ELSE "LIBRE"]
      /\ queue = [f \in Queues |-> IF f = "activables" THEN <<Idle>> ELSE <<>>]
      /\ suite = [p \in Procs |-> User] /\ panique = "non"
  BY ConstantesProcs, NoyauAssumption DEF Init, NoyauInit
<1>3. /\ \A p \in Procs : etat[p] = IF p = elu THEN "ELU"
                                    ELSE IF p = Idle THEN "ACTIVABLE" ELSE "LIBRE"
      /\ \A f \in Queues : queue[f] = IF f = "activables" THEN <<Idle>> ELSE <<>>
  BY <1>2
<1>4. /\ Range(<<Idle>>) = {Idle} /\ Range(<<>>) = {}
      /\ IsInjective(<<Idle>>) /\ IsInjective(<<>>)
  BY DEF Range, IsInjective
<1>5. \A p \in Procs, f \in Queues :
         p \in Range(queue[f]) <=> p = Idle /\ f = "activables"
  BY <1>3, <1>4
<1>6. etat[Idle] = "ACTIVABLE"
  BY <1>2, <1>3
<1>7. \A p \in Procs : QueuesDe(etat[p]) # {} => p = Idle
  BY <1>3, QueuesDeValeurs
<1>8. \A f \in Queues : IsInjective(queue[f])
  BY <1>3, <1>4
<1>9. \A p \in Procs : etat[p] = "ELU" <=> p = elu
  BY <1>3
<1>10. suite[Idle].appel \in {"user", "tic"}
  BY <1>2 DEF User
<1>11. Discipline
  BY <1>5, <1>6, <1>7, <1>8, <1>9, QueuesDeValeurs, ConstantesQueues DEF Discipline
<1> QED
  BY <1>1, <1>2, <1>10, <1>11, RegleDiscipline DEF InvDiscipline, JamaisEnfileDeuxFois

LEMMA DisciplineStep == InvDiscipline /\ [Next]_vars => InvDiscipline'
<1> SUFFICES ASSUME InvDiscipline, [Next]_vars PROVE InvDiscipline'
  OBVIOUS
<1>1. TypeOK' /\ TypeNoyau /\ Regle(Courant) /\ Courant \in Noyaux
  BY TypeStep, CourantType DEF InvDiscipline, TypeOK
<1>2. CASE ProcessusNext
  BY <1>1, <1>2, DisciplineProcessus DEF InvDiscipline
<1>3. CASE Tic
  <2> DEFINE K == Courant
             k == VerifieReveille(K, TicSuivant)
             s == [appel |-> "tic", arg |-> Nul]
             k1 == [k EXCEPT !.suite[elu] = s]
  <2>1. /\ Devient(IF ReveilPrioritaire(K, TicSuivant)
                   THEN Ordonnanceur(k1) ELSE FinTic(k, CptSuivant))
        /\ panique = "non"
    BY <1>3 DEF Tic
  <2>2. k \in Noyaux /\ Regle(k) /\ k.panique = "non"
    BY <1>1, <2>1, CourantChamps, VerifieReveilleType, VerifieReveilleRegle
  <2> HIDE DEF K, k
  <2>3. elu \in Procs /\ s \in Suites /\ s.appel = "tic"
    BY <1>1 DEF TypeNoyau, Suites
  <2> HIDE DEF s
  <2>4. k1 \in Noyaux /\ Regle(k1) /\ k1.panique = "non"
    BY <2>2, <2>3, SuiteRegle
  <2> HIDE DEF k1
  <2>5. Ordonnanceur(k1) \in Noyaux /\ Fiable(Ordonnanceur(k1))
    BY <2>4, ReglePret, OrdonnanceurFiable
  <2>6. FinTic(k, CptSuivant) \in Noyaux /\ Fiable(FinTic(k, CptSuivant))
    BY <2>2, FinTicFiable
  <2> QED
    BY <1>1, <2>1, <2>5, <2>6, DevientRegle DEF InvDiscipline
<1>4. CASE RepriseTic
  <2>1. Devient(FinTic(Courant, cptTicks)) /\ Courant.panique = "non"
    BY <1>4, CourantChamps DEF RepriseTic
  <2>2. FinTic(Courant, cptTicks) \in Noyaux /\ Fiable(FinTic(Courant, cptTicks))
    BY <1>1, <2>1, FinTicFiable
  <2> QED
    BY <1>1, <2>1, <2>2, DevientRegle DEF InvDiscipline
<1>5. CASE UNCHANGED vars
  <2>1. UNCHANGED Courant /\ UNCHANGED panique
    BY <1>5 DEF vars, noyauVars, Courant
  <2>2. Regle(Courant)'
    BY <1>1, <2>1 DEF Regle, IdlePret
  <2> QED
    BY <1>1, <2>1, <2>2 DEF InvDiscipline, JamaisEnfileDeuxFois
<1> QED
  BY <1>2, <1>3, <1>4, <1>5 DEF Next

\* The inductive invariant holds in every reachable state.
THEOREM InvariantDiscipline == Spec => []InvDiscipline
BY DisciplineInit, DisciplineStep, PTL DEF Spec

\* The state of a process says in which list it is, whatever the programs do:
\* the calls of processus.c and the clock interrupt, which each move processes
\* by hand between the lists of queue.h, never lose one or chain one twice,
\* and IDLE is always there to run.
THEOREM DisciplineCorrecte == Spec => []Discipline
<1>1. InvDiscipline => Discipline
  BY RegleDiscipline DEF InvDiscipline
<1> QED
  BY <1>1, InvariantDiscipline, PTL

\* The assert of queue_add never stops the kernel: no call puts a process in a
\* list while it is still in one.
THEOREM JamaisEnfileDeuxFoisCorrect == Spec => []JamaisEnfileDeuxFois
<1>1. InvDiscipline => JamaisEnfileDeuxFois
  BY DEF InvDiscipline
<1> QED
  BY <1>1, InvariantDiscipline, PTL
=============================================================================
