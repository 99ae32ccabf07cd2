--------------------------- MODULE ParenteProofs ---------------------------
(***************************************************************************)
(* Proofs of what Horloge promises of fathers and children: Filiation,     *)
(* WaitpidValide, DisparitionDesZombies, PasDeReveilPerdu.                 *)
(***************************************************************************)
EXTENDS HorlogeProofs

-----------------------------------------------------------------------------
\* Families, on a kernel state.

\* Filiation of k.
Famille(k) ==
    /\ \A p \in Procs : IsInjective(k.fils[p])
    /\ \A p, c \in Procs : c \in Range(k.fils[p]) <=> k.pere[c] = p
    /\ \A p \in Procs : k.etat[p] = "LIBRE" => k.fils[p] = <<>>
    /\ \A p \in Procs : k.etat[p] \in {"LIBRE", "MOURANT"} => k.pere[p] = Nul
    /\ \A p \in Procs : k.etat[p] = "ZOMBIE" => k.pere[p] # Nul
    /\ k.pere[Idle] = Nul

\* WaitpidValide of k.
Attente(k) ==
    \A p \in Procs :
        k.suite[p].appel = "waitpid" /\ k.etat[p] \notin {"ZOMBIE", "MOURANT"} =>
            /\ k.suite[p].arg # Nul => k.pere[k.suite[p].arg] = p
            /\ k.suite[p].arg = Nul => k.fils[p] # <<>>

Parente(k) == Famille(k) /\ Attente(k)

\* A ZOMBIE of k that r no longer has is free in r, together with its father.
Enterres(r, k) ==
    \A c \in Procs : k.etat[c] = "ZOMBIE" /\ r.etat[c] # "ZOMBIE" =>
        r.etat[c] = "LIBRE" /\ r.etat[k.pere[c]] = "LIBRE"

\* Of families and continuations, r differs from k in the states of living
\* processes only.
Finies == {"LIBRE", "ZOMBIE", "MOURANT"}
MemeParente(r, k) ==
    /\ r.pere = k.pere /\ r.fils = k.fils /\ r.suite = k.suite
    /\ \A p \in Procs : \/ r.etat[p] = k.etat[p]
                        \/ r.etat[p] \notin Finies /\ k.etat[p] \notin Finies

\* What the operators that move processes between lists change at most: the
\* lists, the elected process and the states of living processes.
Suivi(r, k) == MemeParente(r, k) /\ r.prio = k.prio /\ r.reveil = k.reveil

\* A process that moves between lists and living states changes no family.
LEMMA MemeParenteParente ==
    ASSUME NEW k, NEW r, MemeParente(r, k), Parente(k)
    PROVE  Parente(r)
<1>1. /\ r.pere = k.pere /\ r.fils = k.fils /\ r.suite = k.suite
      /\ \A p \in Procs : \A x \in Finies : r.etat[p] = x <=> k.etat[p] = x
  BY DEF MemeParente, Finies
<1>2. \A p \in Procs : /\ r.etat[p] = "LIBRE" <=> k.etat[p] = "LIBRE"
                       /\ r.etat[p] = "ZOMBIE" <=> k.etat[p] = "ZOMBIE"
                       /\ r.etat[p] = "MOURANT" <=> k.etat[p] = "MOURANT"
  BY <1>1 DEF Finies
<1>3. Famille(r)
  BY <1>1, <1>2 DEF Parente, Famille
<1>4. Attente(r)
  BY <1>1, <1>2 DEF Parente, Attente
<1> QED
  BY <1>3, <1>4 DEF Parente

LEMMA SuiviParente ==
    ASSUME NEW k, NEW r, Suivi(r, k), Parente(k)
    PROVE  Parente(r)
BY MemeParenteParente DEF Suivi

\* What follows a handler step by step.
LEMMA SuiviTransitif ==
    ASSUME NEW k, NEW r, NEW s, Suivi(r, k), Suivi(s, r)
    PROVE  Suivi(s, k)
BY DEF Suivi, MemeParente

LEMMA EnfileSuivi ==
    ASSUME NEW k \in Noyaux, NEW p, NEW f
    PROVE  Suivi(Enfile(k, p, f), k)
<1>1. CASE Chaine(k, p)
  BY <1>1 DEF Enfile, Suivi, MemeParente, Noyaux
<1>2. CASE ~ Chaine(k, p)
  <2> DEFINE q == [k.queue EXCEPT ![f] = QueueAdd(@, p, Cle(k, f))]
  <2>1. Enfile(k, p, f) = [k EXCEPT !.queue = q]
    BY <1>2 DEF Enfile
  <2> HIDE DEF q
  <2> QED
    BY <2>1 DEF Suivi, MemeParente, Noyaux
<1> QED
  BY <1>1, <1>2

LEMMA DefileSuivi ==
    ASSUME NEW k \in Noyaux, NEW p
    PROVE  Suivi(Defile(k, p), k) /\ Defile(k, p).etat = k.etat
<1>1. CASE ~ Chaine(k, p)
  BY <1>1 DEF Defile, Suivi, MemeParente, Noyaux
<1>2. CASE Chaine(k, p)
  <2> DEFINE f == CHOOSE g \in Queues : DansQueue(k, p, g)
             q == [k.queue EXCEPT ![f] = QueueDel(@, p)]
  <2>1. Defile(k, p) = [k EXCEPT !.queue = q]
    BY <1>2 DEF Defile
  <2> HIDE DEF q
  <2> QED
    BY <2>1 DEF Suivi, MemeParente, Noyaux
<1> QED
  BY <1>1, <1>2

LEMMA ReplaceSuivi ==
    ASSUME NEW k \in Noyaux, NEW p \in Procs, NEW f
    PROVE  Suivi(Replace(k, p, f), k)
<1> DEFINE d == Defile(k, p)
<1>1. d \in Noyaux /\ Suivi(d, k)
  BY DefileType, DefileSuivi
<1> HIDE DEF d
<1>2. Suivi(Enfile(d, p, f), d)
  BY <1>1, EnfileSuivi
<1>3. Suivi(Enfile(d, p, f), k)
  BY <1>1, <1>2, SuiviTransitif
<1> QED
  BY <1>3 DEF Replace, d

LEMMA ActiveSuivi ==
    ASSUME NEW k \in Noyaux, NEW p \in Procs, k.etat[p] \notin Finies
    PROVE  Suivi(Active(k, p), k)
<1> DEFINE k1 == [k EXCEPT !.etat[p] = "ACTIVABLE"]
<1>1. k1 \in Noyaux
  BY EtatType DEF Etats
<1>2. Suivi(k1, k)
  BY DEF Suivi, MemeParente, Noyaux, Finies
<1> HIDE DEF k1
<1>3. Suivi(Enfile(k1, p, "activables"), k1)
  BY <1>1, EnfileSuivi
<1>4. Active(k, p) = Enfile(k1, p, "activables")
  BY DEF Active, k1
<1> QED
  BY <1>2, <1>3, <1>4, SuiviTransitif

LEMMA ActiveTousSuivi ==
    ASSUME NEW k \in Noyaux, NEW w,
           \A p \in Procs : p \in Range(w) => k.etat[p] \notin Finies
    PROVE  Suivi(ActiveTous(k, w), k)
<1>1. CASE \E p \in Range(w) : Chaine(k, p)
  BY <1>1 DEF ActiveTous, Suivi, MemeParente, Noyaux
<1>2. CASE ~ \E p \in Range(w) : Chaine(k, p)
  <2> DEFINE q == [k.queue EXCEPT !["activables"] = QueueAddTous(@, w, k.prio)]
             e == [p \in Procs |-> IF p \in Range(w) THEN "ACTIVABLE" ELSE k.etat[p]]
  <2>1. ActiveTous(k, w) = [k EXCEPT !.etat = e, !.queue = q]
    BY <1>2 DEF ActiveTous
  <2>2. \A p \in Procs : \/ e[p] = k.etat[p]
                         \/ e[p] \notin Finies /\ k.etat[p] \notin Finies
    BY DEF Finies
  <2> HIDE DEF q, e
  <2> QED
    BY <2>1, <2>2 DEF Suivi, MemeParente, Noyaux
<1> QED
  BY <1>1, <1>2

LEMMA RangeEluSuivi ==
    ASSUME NEW k \in Noyaux
    PROVE  Suivi(RangeElu(k), k)
<1>1. Suivi(k, k)
  BY DEF Suivi, MemeParente
<1>2. k.elu \in Procs
  BY DEF Noyaux
<1>3. CASE k.etat[k.elu] = "MOURANT"
  BY <1>3, EnfileSuivi DEF RangeElu
<1>4. CASE k.etat[k.elu] \in {"ELU", "ACTIVABLE"}
  <2>1. RangeElu(k) = Active(k, k.elu)
    BY <1>4 DEF RangeElu
  <2>2. k.etat[k.elu] \notin Finies
    BY <1>4 DEF Finies
  <2> QED
    BY <1>2, <2>1, <2>2, ActiveSuivi
<1>5. CASE k.etat[k.elu] \notin {"MOURANT", "ELU", "ACTIVABLE"}
  BY <1>1, <1>5 DEF RangeElu
<1> QED
  BY <1>3, <1>4, <1>5

LEMMA ElitSuivi ==
    ASSUME NEW k \in Noyaux, NEW p \in Procs, k.etat[p] \notin Finies
    PROVE  Suivi(Elit(k, p), k)
<1> DEFINE q == [k.queue EXCEPT !["activables"] = QueueOut(@)]
           e == [k.etat EXCEPT ![p] = "ELU"]
<1>1. Elit(k, p) = [k EXCEPT !.queue = q, !.etat = e, !.elu = p]
  BY DEF Elit
<1>2. \A x \in Procs : \/ e[x] = k.etat[x]
                       \/ e[x] \notin Finies /\ k.etat[x] \notin Finies
  BY DEF Noyaux, Finies
<1> HIDE DEF q, e
<1> QED
  BY <1>1, <1>2 DEF Suivi, MemeParente, Noyaux

-----------------------------------------------------------------------------
\* free_mourant_queue() and the families.

\* The state it leaves, field by field.
LEMMA FreeMourantQueueChamps ==
    ASSUME NEW k \in Noyaux, k.panique = "non", k.elu \notin Morts(k)
    PROVE  LET r == FreeMourantQueue(k)
               m == Morts(k)
           IN  /\ r.panique = "non" /\ r.elu = k.elu
               /\ r.queue = [k.queue EXCEPT !["mourants"] = <<>>]
               /\ \A p \in Procs :
                     /\ r.etat[p] = IF p \in m THEN "LIBRE" ELSE k.etat[p]
                     /\ r.prio[p] = IF p \in m THEN 0 ELSE k.prio[p]
                     /\ r.reveil[p] = IF p \in m THEN 0 ELSE k.reveil[p]
                     /\ r.suite[p] = IF p \in m THEN User ELSE k.suite[p]
                     /\ r.fils[p] = IF p \in m THEN <<>> ELSE k.fils[p]
                     /\ r.pere[p] = IF p \in m \/ k.pere[p] \in m THEN Nul ELSE k.pere[p]
<1> DEFINE m == Morts(k)
           e == [p \in Procs |-> IF p \in m THEN "LIBRE" ELSE k.etat[p]]
           pr == [p \in Procs |-> IF p \in m THEN 0 ELSE k.prio[p]]
           re == [p \in Procs |-> IF p \in m THEN 0 ELSE k.reveil[p]]
           su == [p \in Procs |-> IF p \in m THEN User ELSE k.suite[p]]
           fi == [p \in Procs |-> IF p \in m THEN <<>> ELSE k.fils[p]]
           pe == [p \in Procs |-> IF p \in m \/ k.pere[p] \in m THEN Nul ELSE k.pere[p]]
           r == [k EXCEPT !.queue["mourants"] = <<>>, !.etat = e, !.prio = pr,
                          !.reveil = re, !.suite = su, !.fils = fi, !.pere = pe]
<1>1. FreeMourantQueue(k) = r
  BY DEF FreeMourantQueue, PeresApres
<1>2. /\ r.panique = "non" /\ r.elu = k.elu
      /\ r.queue = [k.queue EXCEPT !["mourants"] = <<>>]
      /\ r.etat = e /\ r.prio = pr /\ r.reveil = re /\ r.suite = su
      /\ r.fils = fi /\ r.pere = pe
  <2> HIDE DEF m, e, pr, re, su, fi, pe
  <2> QED
    BY DEF Noyaux
<1> HIDE DEF r, m
<1> QED
  BY <1>1, <1>2 DEF m

\* In a panic it changes nothing, and it panics only when the elected process
\* is among the dead.
LEMMA FreeMourantQueuePanique ==
    ASSUME NEW k \in Noyaux, FreeMourantQueue(k).panique = "non"
    PROVE  k.panique = "non" /\ k.elu \notin Morts(k)
<1>1. k.panique = "non"
  BY DEF FreeMourantQueue
<1>2. CASE k.elu \in Morts(k)
  <2>1. FreeMourantQueue(k) = [k EXCEPT !.panique = "elu_libere"]
    BY <1>1, <1>2 DEF FreeMourantQueue
  <2> QED
    BY <2>1 DEF Noyaux
<1> QED
  BY <1>1, <1>2

\* The ZOMBIE children of the dead are among the dead.
LEMMA MortsFermes ==
    ASSUME NEW k \in Noyaux, NEW q \in Morts(k), NEW c \in Range(k.fils[q]),
           k.etat[c] = "ZOMBIE"
    PROVE  c \in Morts(k)
<1>1. q \in Pids
  BY DEF Morts
<1>2. k.fils[q] \in Seq(Pids)
  BY <1>1, ConstantesProcs DEF Noyaux
<1>3. c \in Pids
  BY <1>2, RangeEquality
<1>4. ASSUME NEW S \in SUBSET Pids,
             Membres(k.queue["mourants"]) \subseteq S,
             \A x \in S : \A y \in Membres(k.fils[x]) : k.etat[y] = "ZOMBIE" => y \in S
      PROVE  c \in S
  <2>1. q \in S
    BY <1>1, <1>4 DEF Morts
  <2> QED
    BY <1>4, <2>1 DEF Membres
<1> QED
  BY <1>3, <1>4 DEF Morts

\* The dead that are not in proc_mourants are children of the dead.
LEMMA MortsPeres ==
    ASSUME NEW k \in Noyaux, NEW L, Chainage(k.queue, k.etat, L), IdlePret(k),
           Famille(k), NEW p \in Morts(k)
    PROVE  \/ k.etat[p] = "MOURANT"
           \/ k.etat[p] = "ZOMBIE" /\ k.pere[p] \in Morts(k)
<1> DEFINE m == Morts(k)
           S == {x \in m : \/ k.etat[x] = "MOURANT"
                           \/ k.etat[x] = "ZOMBIE" /\ k.pere[x] \in m}
<1>1. /\ Range(k.queue["mourants"]) \subseteq m
      /\ \A x \in m : x \in Pids
  BY MortsFinis
<1>2. \A x \in Range(k.queue["mourants"]) : k.etat[x] = "MOURANT"
  <2> SUFFICES ASSUME NEW x \in Range(k.queue["mourants"])
               PROVE  k.etat[x] = "MOURANT"
    OBVIOUS
  <2>1. x \in Procs
    BY <1>1, ConstantesProcs
  <2>2. "mourants" \in QueuesDe(k.etat[x])
    BY <2>1, ConstantesQueues DEF Chainage
  <2>3. k.etat[x] \in Etats
    BY <2>1 DEF Noyaux
  <2> QED
    BY <2>2, <2>3, QueuesDeInverse
<1>3. \A q \in S : \A c \in Range(k.fils[q]) : k.etat[c] = "ZOMBIE" => c \in S
  <2> SUFFICES ASSUME NEW q \in S, NEW c \in Range(k.fils[q]), k.etat[c] = "ZOMBIE"
               PROVE  c \in S
    OBVIOUS
  <2>1. c \in m
    BY MortsFermes
  <2>2. c \in Procs /\ q \in Procs
    BY <1>1, <2>1, ConstantesProcs
  <2>3. k.pere[c] = q
    BY <2>2 DEF Famille
  <2> QED
    BY <2>1, <2>3
<1>4. S \in SUBSET Pids /\ Range(k.queue["mourants"]) \subseteq S
  BY <1>1, <1>2
<1>5. m \subseteq S
  <2> HIDE DEF S
  <2> QED
    BY <1>3, <1>4 DEF Morts, Membres
<1> QED
  BY <1>5

\* It keeps the families: who dies is forgotten by its children, no living
\* process loses a child, and the ZOMBIEs that go had lost their father.
LEMMA FreeMourantQueueParente ==
    ASSUME NEW k \in Noyaux, NEW L, Chainage(k.queue, k.etat, L), IdlePret(k),
           Parente(k), FreeMourantQueue(k).panique = "non"
    PROVE  LET r == FreeMourantQueue(k)
           IN  Parente(r) /\ Enterres(r, k)
<1> DEFINE m == Morts(k)
           r == FreeMourantQueue(k)
<1>1. k.panique = "non" /\ k.elu \notin m
  BY FreeMourantQueuePanique
<1>2. \A p \in Procs :
         /\ r.etat[p] = IF p \in m THEN "LIBRE" ELSE k.etat[p]
         /\ r.suite[p] = IF p \in m THEN User ELSE k.suite[p]
         /\ r.fils[p] = IF p \in m THEN <<>> ELSE k.fils[p]
         /\ r.pere[p] = IF p \in m \/ k.pere[p] \in m THEN Nul ELSE k.pere[p]
  BY <1>1, FreeMourantQueueChamps
<1>3. \A p \in m : p \in Pids /\ p \in Procs
  BY MortsFinis, ConstantesProcs
<1>4. \A p \in m : \/ k.etat[p] = "MOURANT"
                   \/ k.etat[p] = "ZOMBIE" /\ k.pere[p] \in m
  BY MortsPeres DEF Parente
<1>5. \A c \in Procs : k.etat[c] = "ZOMBIE" /\ k.pere[c] \in m => c \in m
  <2> SUFFICES ASSUME NEW c \in Procs, k.etat[c] = "ZOMBIE", k.pere[c] \in m
               PROVE  c \in m
    OBVIOUS
  <2>1. c \in Range(k.fils[k.pere[c]])
    BY <1>3 DEF Parente, Famille
  <2> QED
    BY <2>1, MortsFermes
<1>6. Idle \in Procs /\ Idle \notin m /\ Nul \notin m /\ Nul \notin Procs
  BY <1>3, ConstantesProcs, NoyauAssumption
<1> HIDE DEF m, r
<1>7. \A p \in Procs : p \in m => k.pere[p] = Nul \/ k.pere[p] \in m
  BY <1>4 DEF Parente, Famille
<1>8. Famille(r)
  <2>1. \A p \in Procs : IsInjective(r.fils[p])
    <3>1. IsInjective(<<>>)
      BY DEF IsInjective
    <3> QED
      BY <1>2, <3>1 DEF Parente, Famille
  <2>2. \A p, c \in Procs : c \in Range(r.fils[p]) <=> r.pere[c] = p
    <3> SUFFICES ASSUME NEW p \in Procs, NEW c \in Procs
                 PROVE  c \in Range(r.fils[p]) <=> r.pere[c] = p
      OBVIOUS
    <3>1. c \in Range(k.fils[p]) <=> k.pere[c] = p
      BY DEF Parente, Famille
    <3>2. CASE p \in m
      <4>1. Range(r.fils[p]) = {}
        BY <1>2, <3>2 DEF Range
      <4> QED
        BY <1>2, <1>6, <3>2, <4>1
    <3>3. CASE p \notin m
      BY <1>2, <1>6, <1>7, <3>1, <3>3
    <3> QED
      BY <3>2, <3>3
  <2>3. \A p \in Procs : r.etat[p] = "LIBRE" => r.fils[p] = <<>>
    BY <1>2 DEF Parente, Famille
  <2>4. \A p \in Procs : r.etat[p] \in {"LIBRE", "MOURANT"} => r.pere[p] = Nul
    BY <1>2 DEF Parente, Famille
  <2>5. \A p \in Procs : r.etat[p] = "ZOMBIE" => r.pere[p] # Nul
    BY <1>2, <1>5 DEF Parente, Famille
  <2>6. r.pere[Idle] = Nul
    BY <1>2, <1>6 DEF Parente, Famille
  <2> QED
    BY <2>1, <2>2, <2>3, <2>4, <2>5, <2>6 DEF Famille
<1>9. Attente(r)
  <2> SUFFICES ASSUME NEW p \in Procs, r.suite[p].appel = "waitpid",
                      r.etat[p] \notin {"ZOMBIE", "MOURANT"}
               PROVE  /\ r.suite[p].arg # Nul => r.pere[r.suite[p].arg] = p
                      /\ r.suite[p].arg = Nul => r.fils[p] # <<>>
    BY DEF Attente
  <2>1. p \notin m
    BY <1>2 DEF User
  <2>2. /\ r.suite[p] = k.suite[p] /\ r.etat[p] = k.etat[p] /\ r.fils[p] = k.fils[p]
    BY <1>2, <2>1
  <2>3. /\ k.suite[p].arg # Nul => k.pere[k.suite[p].arg] = p
        /\ k.suite[p].arg = Nul => k.fils[p] # <<>>
    BY <2>2 DEF Parente, Attente
  <2>4. ASSUME k.suite[p].arg # Nul PROVE r.pere[k.suite[p].arg] = p
    <3>1. k.suite[p].arg \in Procs
      BY <2>4, ConstantesProcs DEF Noyaux, Suites
    <3>2. k.suite[p].arg \notin m
      BY <1>6, <1>7, <2>1, <2>3, <2>4, <3>1
    <3> QED
      BY <1>2, <2>1, <2>3, <2>4, <3>1, <3>2
  <2> QED
    BY <2>2, <2>3, <2>4
<1>10. Enterres(r, k)
  <2> SUFFICES ASSUME NEW c \in Procs, k.etat[c] = "ZOMBIE", r.etat[c] # "ZOMBIE"
               PROVE  r.etat[c] = "LIBRE" /\ r.etat[k.pere[c]] = "LIBRE"
    BY DEF Enterres
  <2>1. c \in m
    BY <1>2
  <2>2. k.pere[c] \in m
    BY <1>4, <2>1
  <2> QED
    BY <1>2, <1>3, <2>1, <2>2
<1> QED
  BY <1>8, <1>9, <1>10 DEF Parente, r

-----------------------------------------------------------------------------
\* ordonnanceur().

\* What it does when it does not panic: the dead are freed, the process that
\* gives the processor up is put in its list, and a ready process is elected.
LEMMA OrdonnanceurForme ==
    ASSUME NEW k \in Noyaux, Pret(k), Ordonnanceur(k).panique = "non"
    PROVE  LET k1 == FreeMourantQueue(k)
               k2 == RangeElu(k1)
               p == QueueTop(k2.queue["activables"])
               r == Ordonnanceur(k)
           IN  /\ k.panique = "non" /\ k.elu \notin Morts(k)
               /\ k1 \in Noyaux /\ k1.panique = "non" /\ k1.elu = k.elu /\ Pret(k1)
               /\ Regle(r)
               /\ \/ r = k1 /\ k1.queue["activables"] = <<>>
                  \/ /\ r = Elit(k2, p)
                     /\ k2 \in Noyaux /\ Chainage(k2.queue, k2.etat, {})
                     /\ k2.queue["activables"] # <<>>
                     /\ p \in Procs /\ p \in Range(k2.queue["activables"])
                     /\ k2.etat[p] = "ACTIVABLE"
<1> DEFINE k1 == FreeMourantQueue(k)
           k2 == RangeElu(k1)
           p == QueueTop(k2.queue["activables"])
           r == Ordonnanceur(k)
<1>1. r = IF k1.panique # "non" \/ k1.queue["activables"] = <<>> THEN k1
          ELSE IF k2.panique # "non" THEN k2 ELSE Elit(k2, p)
  BY DEF Ordonnanceur
<1>2. k1 \in Noyaux
  BY FreeMourantQueueType
<1>3. k1.panique = "non"
  BY <1>1
<1>4. k.panique = "non" /\ k.elu \notin Morts(k)
  BY <1>3, FreeMourantQueuePanique
<1>5. /\ Chainage(k1.queue, k1.etat, Tenu(k)) /\ k1.elu = k.elu
      /\ k1.etat[k.elu] = k.etat[k.elu]
      /\ \A x \in Procs : k1.etat[x] = "ELU" => k.etat[x] = "ELU"
      /\ IdlePret(k1)
  BY <1>3, <1>4, FreeMourantQueueDiscipline DEF Pret
<1>6. Regle(r)
  BY <1>4, OrdonnanceurDiscipline
<1> HIDE DEF k1
<1>7. Pret(k1)
  <2>1. Tenu(k1) = Tenu(k)
    BY <1>5 DEF Tenu
  <2> QED
    BY <1>5, <2>1 DEF Pret
<1>8. ASSUME k1.queue["activables"] # <<>>
      PROVE  /\ r = Elit(k2, p) /\ k2 \in Noyaux /\ Chainage(k2.queue, k2.etat, {})
             /\ k2.queue["activables"] # <<>>
             /\ p \in Procs /\ p \in Range(k2.queue["activables"])
             /\ k2.etat[p] = "ACTIVABLE"
  <2>1. k2 \in Noyaux /\ k2.queue["activables"] # <<>>
    BY <1>2, <1>8, RangeEluType
  <2>2. Chainage(k2.queue, k2.etat, {}) /\ k2.panique = "non"
    BY <1>2, <1>3, <1>7, RangeEluDiscipline
  <2>3. r = Elit(k2, p)
    BY <1>1, <1>3, <1>8, <2>2
  <2> HIDE DEF k2, r
  <2>4. p \in Procs /\ p \in Range(k2.queue["activables"])
    <3>1. k2.queue["activables"] \in Seq(Procs)
      BY <2>1, ConstantesQueues DEF Noyaux
    <3> QED
      BY <2>1, <3>1, QueueOutElements
  <2> HIDE DEF p
  <2>5. k2.etat[p] = "ACTIVABLE"
    <3>1. "activables" \in QueuesDe(k2.etat[p])
      BY <2>2, <2>4, ConstantesQueues DEF Chainage
    <3>2. k2.etat[p] \in Etats
      BY <2>1, <2>4 DEF Noyaux
    <3> QED
      BY <3>1, <3>2, QueuesDeInverse
  <2> QED
    BY <2>1, <2>2, <2>3, <2>4, <2>5
<1> HIDE DEF k2, p, r
<1>9. k1.queue["activables"] = <<>> => r = k1
  BY <1>1
<1>10. \/ r = k1 /\ k1.queue["activables"] = <<>>
       \/ /\ r = Elit(k2, p)
          /\ k2 \in Noyaux /\ Chainage(k2.queue, k2.etat, {})
          /\ k2.queue["activables"] # <<>>
          /\ p \in Procs /\ p \in Range(k2.queue["activables"])
          /\ k2.etat[p] = "ACTIVABLE"
  BY <1>8, <1>9
<1> QED
  BY <1>2, <1>3, <1>4, <1>5, <1>6, <1>7, <1>10 DEF k1, k2, p, r

\* Between the state free_mourant_queue() leaves and the end of ordonnanceur()
\* no family changes.
LEMMA OrdonnanceurSuivi ==
    ASSUME NEW k \in Noyaux, Pret(k), Ordonnanceur(k).panique = "non"
    PROVE  Suivi(Ordonnanceur(k), FreeMourantQueue(k))
<1> DEFINE k1 == FreeMourantQueue(k)
           k2 == RangeElu(k1)
           p == QueueTop(k2.queue["activables"])
           r == Ordonnanceur(k)
<1>1. /\ k1 \in Noyaux
      /\ \/ r = k1
         \/ r = Elit(k2, p) /\ k2 \in Noyaux /\ p \in Procs /\ k2.etat[p] = "ACTIVABLE"
  BY OrdonnanceurForme
<1> HIDE DEF k1, r, p
<1>2. Suivi(k1, k1)
  BY DEF Suivi, MemeParente
<1>3. Suivi(k2, k1)
  BY <1>1, RangeEluSuivi
<1> HIDE DEF k2
<1>4. "ACTIVABLE" \notin Finies
  BY DEF Finies
<1>5. r = Elit(k2, p) /\ k2 \in Noyaux /\ p \in Procs /\ k2.etat[p] = "ACTIVABLE"
      => Suivi(r, k2)
  BY <1>4, ElitSuivi
<1> QED
  BY <1>1, <1>2, <1>3, <1>5, SuiviTransitif DEF k1, r

\* Enterres goes through the steps that follow free_mourant_queue().
LEMMA SuiviEnterres ==
    ASSUME NEW k \in Noyaux, NEW r, NEW s, Famille(k), Enterres(r, k), Suivi(s, r)
    PROVE  Enterres(s, k)
<1> SUFFICES ASSUME NEW c \in Procs, k.etat[c] = "ZOMBIE", s.etat[c] # "ZOMBIE"
             PROVE  s.etat[c] = "LIBRE" /\ s.etat[k.pere[c]] = "LIBRE"
  BY DEF Enterres
<1>1. k.pere[c] \in Procs
  BY DEF Famille, Noyaux
<1>2. r.etat[c] # "ZOMBIE"
  BY DEF Suivi, MemeParente, Finies
<1>3. r.etat[c] = "LIBRE" /\ r.etat[k.pere[c]] = "LIBRE"
  BY <1>2 DEF Enterres
<1> QED
  BY <1>1, <1>3 DEF Suivi, MemeParente, Finies

LEMMA OrdonnanceurParente ==
    ASSUME NEW k \in Noyaux, Pret(k), Parente(k), Ordonnanceur(k).panique = "non"
    PROVE  Parente(Ordonnanceur(k)) /\ Enterres(Ordonnanceur(k), k)
<1> DEFINE k1 == FreeMourantQueue(k)
           r == Ordonnanceur(k)
<1>1. Suivi(r, k1) /\ k1.panique = "non"
  BY OrdonnanceurSuivi, OrdonnanceurForme
<1>2. Parente(k1) /\ Enterres(k1, k)
  BY <1>1, FreeMourantQueueParente DEF Pret
<1> HIDE DEF k1, r
<1>3. Parente(r) /\ Enterres(r, k)
  BY <1>1, <1>2, SuiviParente, SuiviEnterres DEF Parente
<1> QED
  BY <1>3 DEF r

-----------------------------------------------------------------------------
\* The system calls and the families, on a kernel state.

\* The ZOMBIEs of k that x no longer has: collected by the elected process, or
\* gone with their father.
Recoltes(x, k) ==
    \A c \in Procs : k.etat[c] = "ZOMBIE" /\ x.etat[c] # "ZOMBIE" =>
        /\ x.etat[c] = "LIBRE"
        /\ k.pere[c] = k.elu \/ x.etat[k.pere[c]] = "LIBRE"

\* What a handler leaves when it does not panic.
Lignee(x, k) == Parente(x) /\ Recoltes(x, k)

\* The ZOMBIEs of k are still there in r, with the same father.
Garde(r, k) ==
    \A c \in Procs : k.etat[c] = "ZOMBIE" =>
        r.etat[c] = "ZOMBIE" /\ r.pere[c] = k.pere[c]

LEMMA GardeRecoltes ==
    ASSUME NEW k, NEW r, NEW x, Garde(r, k), Enterres(x, r)
    PROVE  Recoltes(x, k)
BY DEF Garde, Enterres, Recoltes

LEMMA MemeParenteGarde ==
    ASSUME NEW k, NEW r, MemeParente(r, k)
    PROVE  Garde(r, k)
BY DEF MemeParente, Garde, Finies

LEMMA GardeTransitif ==
    ASSUME NEW k, NEW r, NEW s, Garde(r, k), Garde(s, r)
    PROVE  Garde(s, k)
BY DEF Garde

\* A handler that ends without ordonnanceur().
LEMMA GardeLignee ==
    ASSUME NEW k, NEW x, Garde(x, k), Parente(x)
    PROVE  Lignee(x, k)
BY DEF Garde, Lignee, Recoltes

\* A handler that ends with ordonnanceur().
LEMMA OrdonnanceurLignee ==
    ASSUME NEW k, NEW r \in Noyaux, Pret(r), Parente(r), Garde(r, k),
           Ordonnanceur(r).panique = "non"
    PROVE  Lignee(Ordonnanceur(r), k)
BY OrdonnanceurParente, GardeRecoltes DEF Lignee

\* A handler that ends with free_mourant_queue().
LEMMA LibereLignee ==
    ASSUME NEW k, NEW r \in Noyaux, Regle(r), Parente(r), Garde(r, k),
           FreeMourantQueue(r).panique = "non"
    PROVE  Lignee(FreeMourantQueue(r), k)
<1> DEFINE x == FreeMourantQueue(r)
<1>1. Parente(x) /\ Enterres(x, r)
  BY FreeMourantQueueParente DEF Regle
<1> HIDE DEF x
<1>2. Lignee(x, k)
  BY <1>1, GardeRecoltes DEF Lignee
<1> QED
  BY <1>2 DEF x

\* exit() and kill(): a process that lives ends, and is kept as a ZOMBIE as
\* long as it has a father.
LEMMA FiniParente ==
    ASSUME NEW k \in Noyaux, NEW p \in Procs, k.etat[p] \notin Finies, Parente(k)
    PROVE  Parente(Fini(k, p)) /\ Garde(Fini(k, p), k)
<1> DEFINE v == IF k.pere[p] = Nul THEN "MOURANT" ELSE "ZOMBIE"
           r == Fini(k, p)
<1>1. /\ r.pere = k.pere /\ r.fils = k.fils /\ r.suite = k.suite
      /\ \A x \in Procs : r.etat[x] = IF x = p THEN v ELSE k.etat[x]
  <2>1. r = [k EXCEPT !.etat[p] = v]
    BY DEF Fini
  <2> HIDE DEF v, r
  <2> QED
    BY <2>1 DEF Noyaux
<1> HIDE DEF r
<1>2. Famille(r)
  BY <1>1 DEF Parente, Famille
<1>3. Attente(r)
  BY <1>1, Zenon DEF Parente, Attente, Finies
<1>4. Garde(r, k)
  BY <1>1 DEF Garde, Finies
<1> QED
  BY <1>2, <1>3, <1>4 DEF Parente, r

LEMMA ReveillePereSuivi ==
    ASSUME NEW k \in Noyaux, NEW p \in Procs
    PROVE  Suivi(ReveillePere(k, p), k)
<1>1. CASE k.pere[p] # Nul /\ k.etat[k.pere[p]] = "ATTEND_FILS"
  <2>1. k.pere[p] \in Procs /\ k.etat[k.pere[p]] \notin Finies
    BY <1>1 DEF Noyaux, Finies
  <2>2. ReveillePere(k, p) = Active(k, k.pere[p])
    BY <1>1 DEF ReveillePere
  <2> QED
    BY <2>1, <2>2, ActiveSuivi
<1>2. CASE ~ (k.pere[p] # Nul /\ k.etat[k.pere[p]] = "ATTEND_FILS")
  BY <1>2 DEF ReveillePere, Suivi, MemeParente
<1> QED
  BY <1>1, <1>2

LEMMA FinEluParente ==
    ASSUME NEW k \in Noyaux, Regle(k), k.elu # Idle, Parente(k)
    PROVE  LET f == Fini(k, k.elu)
               r == ReveillePere(f, k.elu)
           IN  /\ Ordonnanceur(f).panique = "non" => Lignee(Ordonnanceur(f), k)
               /\ Ordonnanceur(r).panique = "non" => Lignee(Ordonnanceur(r), k)
<1> DEFINE f == Fini(k, k.elu)
           r == ReveillePere(f, k.elu)
<1>1. k.elu \in Procs /\ k.etat[k.elu] \notin Finies
  BY DEF Noyaux, Regle, Finies
<1>2. f \in Noyaux /\ Pret(f) /\ Pret(r)
  BY <1>1, FiniType, FinEluDiscipline
<1>3. Parente(f) /\ Garde(f, k)
  BY <1>1, FiniParente
<1> HIDE DEF f
<1>4. r \in Noyaux /\ Suivi(r, f)
  BY <1>1, <1>2, ReveillePereType, ReveillePereSuivi
<1> HIDE DEF r
<1>5. Parente(r) /\ Garde(r, k)
  BY <1>3, <1>4, SuiviParente, MemeParenteGarde, GardeTransitif DEF Suivi
<1>6. /\ Ordonnanceur(f).panique = "non" => Lignee(Ordonnanceur(f), k)
      /\ Ordonnanceur(r).panique = "non" => Lignee(Ordonnanceur(r), k)
  BY <1>2, <1>3, <1>4, <1>5, OrdonnanceurLignee
<1> QED
  BY <1>6 DEF f, r

LEMMA KillParente ==
    ASSUME NEW k \in Noyaux, Regle(k), k.panique = "non", Parente(k),
           NEW p \in Pids, p # k.elu, k.etat[p] \notin Finies, Chaine(k, p)
    PROVE  LET d == Defile(k, p)
               fini == Fini(d, p)
               m == FreeMourantQueue(Enfile(fini, p, "mourants"))
               a == FreeMourantQueue(ReveillePere(fini, p))
           IN  /\ k.pere[p] = Nul /\ m.panique = "non" => Lignee(m, k)
               /\ k.pere[p] # Nul /\ a.panique = "non" => Lignee(a, k)
<1> DEFINE d == Defile(k, p)
           fini == Fini(d, p)
           m == Enfile(fini, p, "mourants")
           a == ReveillePere(fini, p)
<1>1. p \in Procs
  BY ConstantesProcs
<1>2. /\ d \in Noyaux
      /\ k.pere[p] = Nul => m \in Noyaux /\ Regle(m)
      /\ k.pere[p] # Nul => a \in Noyaux /\ Regle(a)
  BY KillRegle
<1>3. Suivi(d, k) /\ d.etat = k.etat
  BY DefileSuivi
<1> HIDE DEF d
<1>4. Parente(d) /\ Garde(d, k) /\ d.etat[p] \notin Finies
  BY <1>3, SuiviParente, MemeParenteGarde DEF Suivi
<1>5. fini \in Noyaux /\ Parente(fini) /\ Garde(fini, d)
  BY <1>1, <1>2, <1>4, FiniType, FiniParente
<1> HIDE DEF fini
<1>6. Suivi(m, fini) /\ Suivi(a, fini)
  BY <1>1, <1>5, EnfileSuivi, ReveillePereSuivi
<1> HIDE DEF m, a
<1>7. Parente(m) /\ Garde(m, k) /\ Parente(a) /\ Garde(a, k)
  BY <1>4, <1>5, <1>6, SuiviParente, MemeParenteGarde, GardeTransitif DEF Suivi
<1>8. /\ k.pere[p] = Nul /\ FreeMourantQueue(m).panique = "non"
         => Lignee(FreeMourantQueue(m), k)
      /\ k.pere[p] # Nul /\ FreeMourantQueue(a).panique = "non"
         => Lignee(FreeMourantQueue(a), k)
  BY <1>2, <1>7, LibereLignee
<1> QED
  BY <1>8 DEF m, a, fini, d

\* waitpid() that collects the i-th child: the child leaves the list of its
\* father, and its father.
LEMMA RecolteParente ==
    ASSUME NEW k \in Noyaux, Regle(k), k.panique = "non", Parente(k),
           NEW i \in 1 .. Len(k.fils[k.elu]), k.etat[k.fils[k.elu][i]] = "ZOMBIE",
           Recolte(k, i).panique = "non"
    PROVE  Lignee(Recolte(k, i), k)
<1> DEFINE c == k.fils[k.elu][i]
           l == RemoveAt(k.fils[k.elu], i)
           k1 == [k EXCEPT !.fils[k.elu] = l, !.etat[c] = "MOURANT",
                           !.pere[c] = Nul, !.suite[k.elu] = User]
           k2 == Enfile(k1, c, "mourants")
           x == FreeMourantQueue(k2)
<1>1. k.fils[k.elu] \in Seq(Pids) /\ k.elu \in Procs /\ IsInjective(k.fils[k.elu])
  BY DEF Noyaux, Parente, Famille
<1>2. c \in Pids /\ c \in Procs /\ c \in Range(k.fils[k.elu])
  BY <1>1, ConstantesProcs, RangeEquality
<1>3. /\ l \in Seq(Pids) /\ IsInjective(l)
      /\ \A y : y \in Range(l) <=> y \in Range(k.fils[k.elu]) /\ y # c
  <2>1. /\ l \in Seq(Pids) /\ IsInjective(l) /\ c \notin Range(l)
        /\ Range(l) \subseteq Range(k.fils[k.elu])
        /\ Range(k.fils[k.elu]) \subseteq Range(l) \cup {c}
    BY <1>1, RemoveAtListe
  <2> HIDE DEF c, l
  <2> QED
    BY <2>1
<1>4. k2 \in Noyaux /\ Regle(k2) /\ k2.panique = "non"
  BY RecolteRegle
<1>5. Recolte(k, i) = x
  BY DEF Recolte
<1>6. k.etat[c] = "ZOMBIE" /\ k.pere[c] = k.elu
  BY <1>1, <1>2 DEF Parente, Famille
<1> HIDE DEF c, l
<1>7. k1 \in Noyaux
  BY <1>1, <1>2, <1>3, UserType DEF Noyaux, Etats
<1>8. \A p \in Procs :
         /\ k1.etat[p] = IF p = c THEN "MOURANT" ELSE k.etat[p]
         /\ k1.pere[p] = IF p = c THEN Nul ELSE k.pere[p]
         /\ k1.fils[p] = IF p = k.elu THEN l ELSE k.fils[p]
         /\ k1.suite[p] = IF p = k.elu THEN User ELSE k.suite[p]
  <2>1. /\ k.etat \in [Procs -> Etats] /\ k.pere \in [Procs -> Procs \cup {Nul}]
        /\ k.fils \in [Procs -> Seq(Pids)] /\ k.suite \in [Procs -> Suites]
    BY DEF Noyaux
  <2>2. /\ k1.etat = [k.etat EXCEPT ![c] = "MOURANT"]
        /\ k1.pere = [k.pere EXCEPT ![c] = Nul]
        /\ k1.fils = [k.fils EXCEPT ![k.elu] = l]
        /\ k1.suite = [k.suite EXCEPT ![k.elu] = User]
    BY DEF Noyaux
  <2> HIDE DEF k1
  <2> QED
    BY <1>1, <1>2, <2>1, <2>2
<1> HIDE DEF k1
<1>9. Famille(k1)
  <2>1. \A p \in Procs : IsInjective(k1.fils[p])
    BY <1>3, <1>8 DEF Parente, Famille
  <2>2. \A p, d \in Procs : d \in Range(k1.fils[p]) <=> k1.pere[d] = p
    BY <1>3, <1>6, <1>8, ConstantesProcs DEF Parente, Famille
  <2>3. \A p \in Procs : k1.etat[p] = "LIBRE" => k1.fils[p] = <<>>
    <3>1. k.etat[k.elu] = "ELU" /\ k.elu \in Procs
      BY <1>1 DEF Regle
    <3> QED
      BY <1>8, <3>1 DEF Parente, Famille
  <2>4. \A p \in Procs : k1.etat[p] \in {"LIBRE", "MOURANT"} => k1.pere[p] = Nul
    BY <1>8 DEF Parente, Famille
  <2>5. \A p \in Procs : k1.etat[p] = "ZOMBIE" => k1.pere[p] # Nul
    BY <1>8 DEF Parente, Famille
  <2>6. k1.pere[Idle] = Nul
    BY <1>8, ConstantesProcs DEF Parente, Famille
  <2> QED
    BY <2>1, <2>2, <2>3, <2>4, <2>5, <2>6 DEF Famille
<1>10. Attente(k1)
  <2> SUFFICES ASSUME NEW p \in Procs, k1.suite[p].appel = "waitpid",
                      k1.etat[p] \notin {"ZOMBIE", "MOURANT"}
               PROVE  /\ k1.suite[p].arg # Nul => k1.pere[k1.suite[p].arg] = p
                      /\ k1.suite[p].arg = Nul => k1.fils[p] # <<>>
    BY DEF Attente
  <2>1. p # k.elu /\ p # c
    BY <1>8 DEF User
  <2>2. k1.suite[p] = k.suite[p] /\ k1.etat[p] = k.etat[p] /\ k1.fils[p] = k.fils[p]
    BY <1>8, <2>1
  <2>3. /\ k.suite[p].arg # Nul => k.pere[k.suite[p].arg] = p
        /\ k.suite[p].arg = Nul => k.fils[p] # <<>>
    BY <2>2 DEF Parente, Attente
  <2>4. ASSUME k.suite[p].arg # Nul PROVE k1.pere[k.suite[p].arg] = p
    <3>1. k.suite[p].arg \in Procs
      BY <2>4, ConstantesProcs DEF Noyaux, Suites
    <3> QED
      BY <1>6, <1>8, <2>1, <2>3, <2>4, <3>1
  <2> QED
    BY <2>2, <2>3, <2>4
<1>11. Suivi(k2, k1)
  BY <1>7, EnfileSuivi
<1> HIDE DEF k2
<1>12. Parente(k2)
  BY <1>9, <1>10, <1>11, SuiviParente DEF Parente
<1>13. Parente(x) /\ Enterres(x, k2)
  BY <1>4, <1>5, <1>12, FreeMourantQueueParente DEF Regle
<1>14. x.etat[c] = "LIBRE"
  <2>1. k2.etat[c] = "MOURANT"
    BY <1>2, <1>8, <1>11 DEF Suivi, MemeParente, Finies
  <2>2. PICK f \in Queues : c \in Range(k2.queue[f])
    BY <1>2, <1>4, <2>1, QueuesDeValeurs DEF Regle, Chainage
  <2>3. f = "mourants"
    BY <1>2, <1>4, <2>1, <2>2, QueuesDeValeurs DEF Regle, Chainage
  <2>4. c \in Morts(k2)
    BY <1>4, <2>2, <2>3, MortsFinis DEF Regle
  <2>5. k2.elu \notin Morts(k2)
    BY <1>4, <1>5, FreeMourantQueuePanique
  <2> QED
    BY <1>2, <1>4, <2>4, <2>5, FreeMourantQueueChamps
<1> HIDE DEF x
<1>15. Recoltes(x, k)
  <2> SUFFICES ASSUME NEW d \in Procs, k.etat[d] = "ZOMBIE", x.etat[d] # "ZOMBIE"
               PROVE  /\ x.etat[d] = "LIBRE"
                      /\ k.pere[d] = k.elu \/ x.etat[k.pere[d]] = "LIBRE"
    BY DEF Recoltes
  <2>1. CASE d = c
    BY <1>6, <1>14, <2>1
  <2>2. CASE d # c
    <3>1. k1.etat[d] = "ZOMBIE" /\ k1.pere[d] = k.pere[d]
      BY <1>8, <2>2
    <3>2. k2.etat[d] = "ZOMBIE" /\ k2.pere[d] = k.pere[d]
      BY <1>11, <3>1 DEF Suivi, MemeParente, Finies
    <3> QED
      BY <1>13, <3>2 DEF Enterres
  <2> QED
    BY <2>1, <2>2
<1> QED
  BY <1>5, <1>13, <1>15 DEF Lignee

LEMMA TourWaitpidParente ==
    ASSUME NEW k \in Noyaux, Regle(k), k.panique = "non", k.elu # Idle, Parente(k),
           NEW cible \in Pids \cup {Nul},
           cible # Nul => k.pere[cible] = k.elu,
           cible = Nul => k.fils[k.elu] # <<>>,
           TourWaitpid(k, cible).panique = "non"
    PROVE  Lignee(TourWaitpid(k, cible), k)
<1> DEFINE i == Min(Finis(k, cible))
           s == [appel |-> "waitpid", arg |-> cible]
           r == [k EXCEPT !.etat[k.elu] = "ATTEND_FILS", !.suite[k.elu] = s]
<1>1. CASE Finis(k, cible) # {}
  <2>1. /\ i \in 1 .. Len(k.fils[k.elu])
        /\ k.etat[k.fils[k.elu][i]] = "ZOMBIE"
    BY <1>1, FinisBornes DEF Finis
  <2>2. TourWaitpid(k, cible) = Recolte(k, i)
    BY <1>1 DEF TourWaitpid
  <2> HIDE DEF i
  <2> QED
    BY <2>1, <2>2, RecolteParente
<1>2. CASE Finis(k, cible) = {}
  <2>1. TourWaitpid(k, cible) = Ordonnanceur(r)
    BY <1>2 DEF TourWaitpid
  <2>2. s \in Suites /\ s.arg = cible /\ k.elu \in Procs /\ Idle \in Procs
    BY ConstantesProcs DEF Suites, Noyaux
  <2> HIDE DEF s
  <2>3. r \in Noyaux
    BY <2>2 DEF Noyaux, Etats
  <2>4. /\ r.queue = k.queue /\ r.elu = k.elu /\ r.pere = k.pere /\ r.fils = k.fils
        /\ r.etat = [k.etat EXCEPT ![k.elu] = "ATTEND_FILS"]
        /\ r.suite = [k.suite EXCEPT ![k.elu] = s]
    BY DEF Noyaux
  <2> HIDE DEF r
  <2>5. \A p \in Procs :
           /\ r.etat[p] = IF p = k.elu THEN "ATTEND_FILS" ELSE k.etat[p]
           /\ r.suite[p] = IF p = k.elu THEN s ELSE k.suite[p]
    BY <2>2, <2>4 DEF Noyaux
  <2>6. k.etat[k.elu] = "ELU"
    BY <2>2 DEF Regle
  <2>7. Pret(r)
    BY <2>2, <2>3, <2>4, <2>5, BloqueEluPret
  <2>8. Famille(r)
    BY <2>4, <2>5, <2>6 DEF Parente, Famille
  <2>9. Attente(r)
    <3> SUFFICES ASSUME NEW p \in Procs, r.suite[p].appel = "waitpid",
                        r.etat[p] \notin {"ZOMBIE", "MOURANT"}
                 PROVE  /\ r.suite[p].arg # Nul => r.pere[r.suite[p].arg] = p
                        /\ r.suite[p].arg = Nul => r.fils[p] # <<>>
      BY DEF Attente
    <3>1. CASE p = k.elu
      BY <2>2, <2>4, <2>5, <3>1
    <3>2. CASE p # k.elu
      <4>1. r.suite[p] = k.suite[p] /\ r.etat[p] = k.etat[p]
        BY <2>5, <3>2
      <4> QED
        BY <2>4, <4>1 DEF Parente, Attente
    <3> QED
      BY <3>1, <3>2
  <2>10. Garde(r, k)
    BY <2>4, <2>5, <2>6 DEF Garde
  <2> QED
    BY <2>1, <2>3, <2>7, <2>8, <2>9, <2>10, OrdonnanceurLignee DEF Parente
<1> QED
  BY <1>1, <1>2

\* A process that does not go on in waitpid() any more.
LEMMA SuiteParente ==
    ASSUME NEW k \in Noyaux, NEW p \in Procs, Parente(k),
           NEW s, s.appel # "waitpid"
    PROVE  LET r == [k EXCEPT !.suite[p] = s]
           IN  Parente(r) /\ Garde(r, k)
<1> DEFINE r == [k EXCEPT !.suite[p] = s]
<1>1. /\ r.pere = k.pere /\ r.fils = k.fils /\ r.etat = k.etat
      /\ r.suite = [k.suite EXCEPT ![p] = s]
  BY DEF Noyaux
<1> HIDE DEF r
<1>2. \A x \in Procs : r.suite[x] = IF x = p THEN s ELSE k.suite[x]
  BY <1>1 DEF Noyaux
<1>3. Famille(r) /\ Garde(r, k)
  BY <1>1 DEF Parente, Famille, Garde
<1>4. Attente(r)
  <2> SUFFICES ASSUME NEW x \in Procs, r.suite[x].appel = "waitpid",
                      r.etat[x] \notin {"ZOMBIE", "MOURANT"}
               PROVE  /\ r.suite[x].arg # Nul => r.pere[r.suite[x].arg] = x
                      /\ r.suite[x].arg = Nul => r.fils[x] # <<>>
    BY DEF Attente
  <2>1. r.suite[x] = k.suite[x]
    BY <1>2
  <2> QED
    BY <1>1, <2>1 DEF Parente, Attente
<1> QED
  BY <1>3, <1>4 DEF Parente, r

\* The sleepers that verifie_reveille() wakes are alive.
LEMMA VerifieReveilleSuivi ==
    ASSUME NEW k \in Noyaux, Regle(k), NEW t
    PROVE  Suivi(VerifieReveille(k, t), k)
<1> DEFINE q == k.queue["endormis"]
           w == Reveilles(k, t)
           s == [k.queue EXCEPT !["endormis"] = SubSeq(@, Len(w) + 1, Len(@))]
           k1 == [k EXCEPT !.queue = s]
<1>1. VerifieReveille(k, t) = ActiveTous(k1, w)
  BY DEF VerifieReveille
<1>2. PICK m \in 0 .. Len(q) : w = SubSeq(q, 1, m) /\ Len(w) = m
  BY ReveillesCoupe
<1>3. q \in Seq(Procs)
  BY ConstantesQueues DEF Noyaux
<1>4. Range(w) \subseteq Range(q) /\ SubSeq(q, m + 1, Len(q)) \in Seq(Procs)
  <2>1. /\ SubSeq(q, m + 1, Len(q)) \in Seq(Procs)
        /\ Range(q) = Range(SubSeq(q, 1, m)) \cup Range(SubSeq(q, m + 1, Len(q)))
    BY <1>3, ListeCoupee
  <2> HIDE DEF q, w
  <2> QED
    BY <1>2, <2>1
<1>5. \A p \in Procs : p \in Range(w) => k.etat[p] \notin Finies
  <2> SUFFICES ASSUME NEW p \in Procs, p \in Range(q) PROVE k.etat[p] \notin Finies
    BY <1>4
  <2>1. "endormis" \in QueuesDe(k.etat[p]) /\ k.etat[p] \in Etats
    BY ConstantesQueues DEF Regle, Chainage, Noyaux
  <2> QED
    BY <2>1, QueuesDeInverse DEF Finies
<1> HIDE DEF w
<1>6. k1 \in Noyaux
  <2>1. s = [k.queue EXCEPT !["endormis"] = SubSeq(q, m + 1, Len(q))]
    BY <1>2
  <2>2. s \in [Queues -> Seq(Procs)]
    BY <1>4, <2>1, ConstantesQueues DEF Noyaux
  <2> HIDE DEF s
  <2> QED
    BY <2>2 DEF Noyaux
<1> HIDE DEF s
<1>7. k1.etat = k.etat /\ Suivi(k1, k)
  BY DEF Suivi, MemeParente, Noyaux
<1> HIDE DEF k1
<1>8. Suivi(ActiveTous(k1, w), k1)
  BY <1>5, <1>6, <1>7, ActiveTousSuivi
<1> QED
  BY <1>1, <1>7, <1>8, SuiviTransitif

-----------------------------------------------------------------------------
\* Families, on the variables.

LEMMA CourantFamille == Famille(Courant) <=> Filiation
BY DEF Famille, Filiation, Courant

LEMMA CourantAttente == Attente(Courant) <=> WaitpidValide
BY DEF Attente, WaitpidValide, Courant

\* A step of DisparitionDesZombies.
Disparition ==
    \A c \in Pids : etat[c] = "ZOMBIE" /\ etat'[c] # "ZOMBIE" =>
        /\ etat'[c] = "LIBRE"
        /\ pere[c] = elu \/ etat'[pere[c]] = "LIBRE"

LEMMA DevientLignee ==
    ASSUME TypeNoyau, Parente(Courant), NEW x, Devient(x),
           x.panique = "non" => Lignee(x, Courant)
    PROVE  Parente(Courant)' /\ Disparition
<1>1. CASE x.panique = "non"
  <2>1. MemeParente(Courant', x) /\ etat' = x.etat
    BY <1>1 DEF Devient, MemeParente, Courant
  <2>2. Parente(x) /\ Recoltes(x, Courant)
    BY <1>1 DEF Lignee
  <2>3. Parente(Courant')
    BY <2>1, <2>2, MemeParenteParente
  <2>4. Disparition
    BY <2>1, <2>2, CourantChamps, ConstantesProcs DEF Recoltes, Disparition
  <2> QED
    BY <2>3, <2>4
<1>2. CASE x.panique # "non"
  <2>1. MemeParente(Courant', Courant) /\ etat' = etat
    BY <1>2 DEF Devient, MemeParente, Courant
  <2>2. Parente(Courant')
    BY <2>1, MemeParenteParente
  <2> QED
    BY <2>1, <2>2 DEF Disparition
<1> QED
  BY <1>1, <1>2

\* start(): the new process is the first child of the caller.
LEMMA StartParente ==
    ASSUME NEW k \in Noyaux, Regle(k), Parente(k),
           NEW p \in Pids, k.etat[p] = "LIBRE", NEW pr
    PROVE  LET r == [k EXCEPT !.etat[p] = "ACTIVABLE", !.prio[p] = pr,
                              !.pere[p] = k.elu, !.fils[k.elu] = <<p>> \o @]
           IN  Parente(r) /\ Garde(r, k)
<1> DEFINE l == <<p>> \o k.fils[k.elu]
           r == [k EXCEPT !.etat[p] = "ACTIVABLE", !.prio[p] = pr,
                          !.pere[p] = k.elu, !.fils[k.elu] = l]
<1>1. /\ k.elu \in Procs /\ p \in Procs /\ k.etat[k.elu] = "ELU" /\ p # k.elu
      /\ p # Idle /\ Idle \in Procs
  BY ConstantesProcs, NoyauAssumption DEF Noyaux, Regle
<1>2. k.fils[k.elu] \in Seq(Pids) /\ IsInjective(k.fils[k.elu])
  BY <1>1 DEF Noyaux, Parente, Famille
<1>3. /\ k.pere[p] = Nul /\ k.fils[p] = <<>>
      /\ \A x \in Procs : p \notin Range(k.fils[x])
  BY <1>1, ConstantesProcs DEF Parente, Famille
<1>4. l # <<>> /\ IsInjective(l) /\ \A y : y \in Range(l) <=> y = p \/ y \in Range(k.fils[k.elu])
  <2> DEFINE f == k.fils[k.elu]
  <2>1. f \in Seq(Pids) /\ p \notin Range(f) /\ IsInjective(f)
    BY <1>1, <1>2, <1>3
  <2> HIDE DEF f
  <2>2. Len(<<p>> \o f) = Len(f) + 1 /\ Len(f) \in Nat
    BY <2>1
  <2>3. /\ (<<p>> \o f)[1] = p
        /\ \A j \in 2 .. Len(f) + 1 : (<<p>> \o f)[j] = f[j - 1]
    BY <2>1
  <2>4. /\ DOMAIN (<<p>> \o f) = 1 .. Len(f) + 1 /\ DOMAIN f = 1 .. Len(f)
    BY <2>1, <2>2
  <2> DEFINE g == <<p>> \o f
  <2>5. /\ DOMAIN g = 1 .. Len(f) + 1 /\ g[1] = p
        /\ \A j \in 2 .. Len(f) + 1 : g[j] = f[j - 1]
        /\ g # <<>>
    BY <2>2, <2>3, <2>4
  <2> HIDE DEF g
  <2>6. \A j \in 1 .. Len(f) : f[j] # p /\ f[j] \in Range(f)
    BY <2>1, <2>4 DEF Range
  <2>7. IsInjective(g)
    <3> SUFFICES ASSUME NEW a \in 1 .. Len(f) + 1, NEW b \in 1 .. Len(f) + 1, g[a] = g[b]
                 PROVE  a = b
      BY <2>5 DEF IsInjective
    <3>1. CASE a = 1 \/ b = 1
      <4>1. \A j \in 2 .. Len(f) + 1 : g[j] # p
        BY <2>2, <2>5, <2>6
      <4> QED
        BY <2>2, <2>5, <3>1, <4>1
    <3>2. CASE a # 1 /\ b # 1
      <4>1. /\ a - 1 \in 1 .. Len(f) /\ b - 1 \in 1 .. Len(f)
            /\ f[a - 1] = f[b - 1]
        BY <2>2, <2>5, <3>2
      <4>2. a - 1 = b - 1
        BY <2>1, <2>4, <4>1 DEF IsInjective
      <4> QED
        BY <4>2
    <3> QED
      BY <3>1, <3>2
  <2>8. \A y : y \in Range(g) <=> y = p \/ y \in Range(f)
    <3>1. \A y \in Range(g) : y = p \/ y \in Range(f)
      BY <2>2, <2>5, <2>6 DEF Range
    <3>2. p \in Range(g)
      BY <2>2, <2>5 DEF Range
    <3>3. ASSUME NEW y \in Range(f) PROVE y \in Range(g)
      <4>1. PICK j \in 1 .. Len(f) : y = f[j]
        BY <2>4 DEF Range
      <4>2. j + 1 \in 2 .. Len(f) + 1 /\ g[j + 1] = f[j]
        BY <2>2, <2>5
      <4> QED
        BY <2>2, <2>5, <4>1, <4>2 DEF Range
    <3> QED
      BY <3>1, <3>2, <3>3
  <2> QED
    BY <2>5, <2>7, <2>8 DEF g, f
<1> HIDE DEF l
<1>5. \A x \in Procs :
         /\ r.etat[x] = IF x = p THEN "ACTIVABLE" ELSE k.etat[x]
         /\ r.pere[x] = IF x = p THEN k.elu ELSE k.pere[x]
         /\ r.fils[x] = IF x = k.elu THEN l ELSE k.fils[x]
         /\ r.suite[x] = k.suite[x]
  <2>1. /\ k.etat \in [Procs -> Etats] /\ k.pere \in [Procs -> Procs \cup {Nul}]
        /\ k.fils \in [Procs -> Seq(Pids)]
    BY DEF Noyaux
  <2>2. /\ r.etat = [k.etat EXCEPT ![p] = "ACTIVABLE"]
        /\ r.pere = [k.pere EXCEPT ![p] = k.elu]
        /\ r.fils = [k.fils EXCEPT ![k.elu] = l]
        /\ r.suite = k.suite
    BY DEF Noyaux
  <2> HIDE DEF r
  <2> QED
    BY <1>1, <2>1, <2>2
<1> HIDE DEF r
<1>6. Famille(r)
  <2>1. \A x \in Procs : IsInjective(r.fils[x])
    BY <1>4, <1>5 DEF Parente, Famille
  <2>2. \A x, c \in Procs : c \in Range(r.fils[x]) <=> r.pere[c] = x
    <3> SUFFICES ASSUME NEW x \in Procs, NEW c \in Procs
                 PROVE  c \in Range(r.fils[x]) <=> r.pere[c] = x
      OBVIOUS
    <3>1. c \in Range(k.fils[x]) <=> k.pere[c] = x
      BY DEF Parente, Famille
    <3>2. CASE x = k.elu
      BY <1>4, <1>5, <3>1, <3>2
    <3>3. CASE x # k.elu
      BY <1>3, <1>5, <3>1, <3>3
    <3> QED
      BY <3>2, <3>3
  <2>3. \A x \in Procs : r.etat[x] = "LIBRE" => r.fils[x] = <<>>
    BY <1>1, <1>5 DEF Parente, Famille
  <2>4. \A x \in Procs : r.etat[x] \in {"LIBRE", "MOURANT"} => r.pere[x] = Nul
    BY <1>5 DEF Parente, Famille
  <2>5. \A x \in Procs : r.etat[x] = "ZOMBIE" => r.pere[x] # Nul
    BY <1>5 DEF Parente, Famille
  <2>6. r.pere[Idle] = Nul
    BY <1>1, <1>5 DEF Parente, Famille
  <2> QED
    BY <2>1, <2>2, <2>3, <2>4, <2>5, <2>6 DEF Famille
<1>7. Attente(r)
  <2> SUFFICES ASSUME NEW x \in Procs, r.suite[x].appel = "waitpid",
                      r.etat[x] \notin {"ZOMBIE", "MOURANT"}
               PROVE  /\ r.suite[x].arg # Nul => r.pere[r.suite[x].arg] = x
                      /\ r.suite[x].arg = Nul => r.fils[x] # <<>>
    BY DEF Attente
  <2>1. k.suite[x].appel = "waitpid" /\ k.etat[x] \notin {"ZOMBIE", "MOURANT"}
    BY <1>5
  <2>2. /\ k.suite[x].arg # Nul => k.pere[k.suite[x].arg] = x
        /\ k.suite[x].arg = Nul => k.fils[x] # <<>>
    BY <2>1 DEF Parente, Attente
  <2>3. k.suite[x].arg # Nul => k.suite[x].arg \in Procs
    BY ConstantesProcs DEF Noyaux, Suites
  <2>4. k.suite[x].arg # Nul => k.suite[x].arg # p
    BY <1>3, <2>2, ConstantesProcs
  <2> QED
    BY <1>4, <1>5, <2>2, <2>3, <2>4
<1>8. Garde(r, k)
  BY <1>5 DEF Garde
<1> QED
  BY <1>6, <1>7, <1>8 DEF Parente, r, l

\* Every call of processus.c keeps the families, and lets a ZOMBIE go only to
\* its father or with it.
LEMMA ParenteProcessus ==
    ASSUME TypeNoyau, Regle(Courant), Parente(Courant), ProcessusNext
    PROVE  Parente(Courant)' /\ Disparition
<1> DEFINE K == Courant
<1>1. /\ K \in Noyaux /\ Regle(K) /\ Parente(K)
      /\ K.elu = elu /\ K.etat = etat /\ K.prio = prio /\ K.pere = pere
      /\ K.fils = fils /\ K.queue = queue /\ K.suite = suite /\ K.panique = panique
  BY CourantType, CourantChamps
<1>2. elu \in Procs /\ prio \in [Procs -> 0 .. PrioMax] /\ Idle \notin Pids
  BY NoyauAssumption DEF TypeNoyau
<1>3. ASSUME NEW x, Devient(x), x.panique = "non" => Lignee(x, K)
      PROVE  Parente(Courant)' /\ Disparition
  BY <1>3, DevientLignee
<1> HIDE DEF K
<1>4. ASSUME EnModeUser PROVE K.elu # Idle /\ K.panique = "non" /\ K.etat[elu] = "ELU"
  BY <1>1, <1>2, <1>4 DEF EnModeUser, Regle
<1>5. ASSUME NEW pr \in 1 .. PrioMax, Start(pr)
      PROVE  Parente(Courant)' /\ Disparition
  <2>1. PICK p \in Pids :
           /\ PidLibre(p)
           /\ LET k == Enfile([K EXCEPT !.etat[p] = "ACTIVABLE",
                                        !.prio[p] = pr,
                                        !.pere[p] = elu,
                                        !.fils[elu] = <<p>> \o @],
                              p, "activables")
              IN  Devient(IF pr > prio[elu] THEN Ordonnanceur(k) ELSE k)
    BY <1>5 DEF Start, K
  <2> DEFINE l == <<p>> \o K.fils[elu]
             k0 == [K EXCEPT !.etat[p] = "ACTIVABLE", !.prio[p] = pr,
                             !.pere[p] = elu, !.fils[elu] = l]
             k == Enfile(k0, p, "activables")
  <2>2. p \in Procs /\ elu \in Procs \cup {Nul} /\ pr \in 0 .. PrioMax
        /\ "ACTIVABLE" \in Etats
    BY <1>2, ConstantesProcs, NoyauAssumption DEF Etats
  <2>3. l \in Seq(Pids)
    BY <1>1, <1>2 DEF Noyaux
  <2>4. Devient(IF pr > prio[elu] THEN Ordonnanceur(k) ELSE k)
    BY <2>1 DEF l
  <2>5. K.etat[p] = "LIBRE"
    BY <1>1, <2>1 DEF PidLibre
  <2>6. Parente(k0) /\ Garde(k0, K)
    BY <1>1, <2>5, StartParente
  <2> HIDE DEF l
  <2>7. k0 \in Noyaux
    BY <1>1, <1>2, <2>2, <2>3 DEF Noyaux
  <2>8. /\ k0.queue = K.queue /\ k0.elu = K.elu /\ k0.suite = K.suite
        /\ k0.etat = [K.etat EXCEPT ![p] = "ACTIVABLE"]
    BY <1>1 DEF Noyaux
  <2> HIDE DEF k0
  <2>9. k \in Noyaux /\ Regle(k) /\ Suivi(k, k0)
    BY <1>1, <2>5, <2>7, <2>8, NouveauRegle, EnfileSuivi
  <2> HIDE DEF k
  <2>10. Parente(k) /\ Garde(k, K)
    BY <2>6, <2>9, SuiviParente, MemeParenteGarde, GardeTransitif DEF Suivi
  <2>11. Lignee(k, K) /\ (Ordonnanceur(k).panique = "non" => Lignee(Ordonnanceur(k), K))
    BY <2>9, <2>10, ReglePret, OrdonnanceurLignee, GardeLignee
  <2> QED
    BY <1>3, <2>4, <2>11
<1>6. ASSUME Exit PROVE Parente(Courant)' /\ Disparition
  <2> DEFINE x == Ordonnanceur(ReveillePere(Fini(K, elu), elu))
  <2>1. Devient(x)
    BY <1>6 DEF Exit, K
  <2>2. x.panique = "non" => Lignee(x, K)
    BY <1>1, <1>4, <1>6, FinEluParente DEF Exit
  <2> HIDE DEF x
  <2> QED
    BY <1>3, <2>1, <2>2
<1>7. ASSUME KillElu PROVE Parente(Courant)' /\ Disparition
  <2> DEFINE x == Ordonnanceur(Fini(K, elu))
  <2>1. Devient(x)
    BY <1>7 DEF KillElu, K
  <2>2. x.panique = "non" => Lignee(x, K)
    BY <1>1, <1>4, <1>7, FinEluParente DEF KillElu
  <2> HIDE DEF x
  <2> QED
    BY <1>3, <2>1, <2>2
<1>8. ASSUME NEW p \in Pids, KillAutre(p) PROVE Parente(Courant)' /\ Disparition
  <2> DEFINE d == Defile(K, p)
             fini == Fini(d, p)
             m == FreeMourantQueue(Enfile(fini, p, "mourants"))
             a == FreeMourantQueue(ReveillePere(fini, p))
             x == IF d.panique # "non" THEN d ELSE IF pere[p] = Nul THEN m ELSE a
  <2>1. /\ Devient(IF d.panique # "non" THEN d
                   ELSE FreeMourantQueue(IF pere[p] = Nul THEN Enfile(fini, p, "mourants")
                                         ELSE ReveillePere(fini, p)))
        /\ EnModeUser /\ p # elu /\ etat[p] \notin Finies
    BY <1>8 DEF KillAutre, K, Tuable, Finies
  <2>2. Devient(x)
    BY <2>1
  <2>3. CASE ~ Chaine(K, p)
    <3>1. d = [K EXCEPT !.panique = "queue_del"]
      BY <2>3 DEF Defile
    <3>2. d.panique = "queue_del"
      BY <1>1, <3>1 DEF Noyaux
    <3>3. x = d
      BY <3>2
    <3> HIDE DEF x, d
    <3> QED
      BY <1>3, <2>2, <3>2, <3>3
  <2>4. CASE Chaine(K, p)
    <3>1. /\ K.pere[p] = Nul /\ m.panique = "non" => Lignee(m, K)
          /\ K.pere[p] # Nul /\ a.panique = "non" => Lignee(a, K)
      BY <1>1, <1>4, <2>1, <2>4, KillParente
    <3> HIDE DEF d, m, a
    <3>2. x.panique = "non" => Lignee(x, K)
      BY <1>1, <3>1
    <3> HIDE DEF x
    <3> QED
      BY <1>3, <2>2, <3>2
  <2> QED
    BY <2>3, <2>4
<1>9. ASSUME NEW cible \in Pids \cup {Nul}, Waitpid(cible)
      PROVE  Parente(Courant)' /\ Disparition
  <2>1. /\ Devient(TourWaitpid(K, cible)) /\ EnModeUser
        /\ cible # Nul => K.pere[cible] = K.elu
        /\ cible = Nul => K.fils[K.elu] # <<>>
    BY <1>1, <1>9 DEF Waitpid, K
  <2> QED
    BY <1>1, <1>3, <1>4, <2>1, TourWaitpidParente
<1>10. ASSUME RepriseWaitpid PROVE Parente(Courant)' /\ Disparition
  <2>1. /\ Devient(TourWaitpid(K, suite[elu].arg)) /\ K.panique = "non"
        /\ suite[elu].appel = "waitpid"
    BY <1>1, <1>10 DEF RepriseWaitpid, K
  <2>2. K.elu # Idle
    BY <1>1, <2>1 DEF Regle, IdlePret
  <2>3. suite[elu].arg \in Pids \cup {Nul}
    BY <1>2 DEF TypeNoyau, Suites
  <2>4. K.etat[elu] = "ELU"
    BY <1>1, <1>2 DEF Regle
  <2>5. /\ suite[elu].arg # Nul => K.pere[suite[elu].arg] = K.elu
        /\ suite[elu].arg = Nul => K.fils[K.elu] # <<>>
    BY <1>1, <1>2, <2>1, <2>4 DEF Parente, Attente
  <2> QED
    BY <1>1, <1>3, <2>1, <2>2, <2>3, <2>5, TourWaitpidParente
<1>11. ASSUME NEW p \in Pids, NEW pr \in 1 .. PrioMax, Chprio(p, pr)
       PROVE  Parente(Courant)' /\ Disparition
  <2> DEFINE k == [K EXCEPT !.prio[p] = pr]
             f == CHOOSE g \in Fids : DansQueue(k, p, g)
             k1 == Replace(k, p, "activables")
             k2 == Replace(k, p, f)
             x == CASE p = elu -> Ordonnanceur(k)
                    [] p # elu /\ etat[p] = "ACTIVABLE" ->
                          IF prio[elu] < pr THEN Ordonnanceur(k1) ELSE k1
                    [] p # elu /\ etat[p] = "ATTEND_FILE" -> k2
                    [] OTHER -> k
  <2>1. Devient(x) /\ EnModeUser
    BY <1>11 DEF Chprio, K
  <2>2. p \in Procs /\ pr \in 0 .. PrioMax
    BY ConstantesProcs, NoyauAssumption
  <2>3. k \in Noyaux
    BY <1>1, <2>2 DEF Noyaux
  <2>4. /\ k.queue = K.queue /\ k.etat = K.etat /\ k.elu = K.elu /\ k.suite = K.suite
        /\ k.pere = K.pere /\ k.fils = K.fils /\ k.panique = "non"
    BY <1>1, <1>4, <2>1 DEF Noyaux
  <2> HIDE DEF k
  <2>5. Regle(k)
    BY <1>1, <2>4 DEF Regle, IdlePret
  <2>6. MemeParente(k, K)
    BY <2>4 DEF MemeParente
  <2>7. Parente(k) /\ Garde(k, K)
    BY <1>1, <2>6, MemeParenteParente, MemeParenteGarde
  <2>8. /\ Lignee(k, K)
        /\ Ordonnanceur(k).panique = "non" => Lignee(Ordonnanceur(k), K)
    BY <2>3, <2>5, <2>7, ReglePret, OrdonnanceurLignee, GardeLignee
  <2>9. ASSUME NEW g
        PROVE  /\ Parente(Replace(k, p, g)) /\ Garde(Replace(k, p, g), K)
               /\ Lignee(Replace(k, p, g), K)
    <3> DEFINE r == Replace(k, p, g)
    <3>1. Suivi(r, k)
      BY <2>2, <2>3, ReplaceSuivi
    <3> HIDE DEF r
    <3>2. Parente(r) /\ Garde(r, K)
      BY <2>7, <3>1, SuiviParente, MemeParenteGarde, GardeTransitif DEF Suivi
    <3>3. Lignee(r, K)
      BY <3>2, GardeLignee
    <3> QED
      BY <3>2, <3>3 DEF r
  <2>10. ASSUME etat[p] = "ACTIVABLE", Ordonnanceur(k1).panique = "non"
         PROVE  Lignee(Ordonnanceur(k1), K)
    <3>1. k.etat[p] = "ACTIVABLE"
      BY <1>1, <2>4, <2>10
    <3>2. "activables" \in QueuesDe(k.etat[p]) /\ "activables" \in Queues
      BY <3>1, QueuesDeValeurs, ConstantesQueues
    <3>3. Chaine(k, p)
      <4>1. QueuesDe(k.etat[p]) # {}
        BY <3>2
      <4> QED
        BY <2>2, <2>5, <4>1 DEF Regle, Chainage, Chaine, DansQueue, Membres
    <3>4. k1 \in Noyaux /\ Regle(k1)
      BY <2>2, <2>3, <2>4, <2>5, <3>2, <3>3, ReplaceFiable
    <3>5. Parente(k1) /\ Garde(k1, K)
      BY <2>9
    <3> HIDE DEF k1
    <3> QED
      BY <2>10, <3>4, <3>5, ReglePret, OrdonnanceurLignee
  <2>11. Lignee(k1, K) /\ Lignee(k2, K)
    BY <2>9
  <2> HIDE DEF k1, k2
  <2>12. x.panique = "non" => Lignee(x, K)
    <3>1. CASE p = elu
      BY <2>8, <3>1
    <3>2. CASE p # elu /\ etat[p] = "ACTIVABLE"
      BY <2>10, <2>11, <3>2
    <3>3. CASE p # elu /\ etat[p] = "ATTEND_FILE"
      BY <2>11, <3>3
    <3>4. CASE p # elu /\ etat[p] \notin {"ACTIVABLE", "ATTEND_FILE"}
      BY <2>8, <3>4
    <3> QED
      BY <3>1, <3>2, <3>3, <3>4
  <2> HIDE DEF x
  <2> QED
    BY <1>3, <2>1, <2>12
<1>12. ASSUME NEW t \in Dates, WaitClock(t) PROVE Parente(Courant)' /\ Disparition
  <2> DEFINE r == [K EXCEPT !.etat[elu] = "ENDORMI", !.reveil[elu] = t]
             s == Enfile(r, elu, "endormis")
  <2>1. Devient(Ordonnanceur(s)) /\ EnModeUser
    BY <1>12 DEF WaitClock, K
  <2>2. r \in Noyaux
    BY <1>1 DEF Noyaux, Etats
  <2>3. /\ r.queue = K.queue /\ r.elu = K.elu /\ r.suite = K.suite
        /\ r.pere = K.pere /\ r.fils = K.fils
        /\ r.etat = [K.etat EXCEPT ![K.elu] = "ENDORMI"]
    BY <1>1 DEF Noyaux
  <2> HIDE DEF r
  <2>4. MemeParente(r, K)
    <3>1. \A p \in Procs : r.etat[p] = IF p = K.elu THEN "ENDORMI" ELSE K.etat[p]
      BY <1>1, <2>3 DEF Noyaux
    <3> QED
      BY <1>1, <1>4, <2>1, <2>3, <3>1 DEF MemeParente, Finies
  <2>5. Parente(r) /\ Garde(r, K) /\ Suivi(s, r)
    BY <1>1, <2>2, <2>4, MemeParenteParente, MemeParenteGarde, EnfileSuivi
  <2>6. /\ "endormis" \in Queues /\ "endormis" \in QueuesDe("ENDORMI")
        /\ r.suite[Idle] = K.suite[Idle]
    BY <2>3, QueuesDeValeurs, ConstantesQueues
  <2>7. s \in Noyaux /\ Pret(s)
    BY <1>1, <1>4, <2>1, <2>2, <2>3, <2>6, EnfileEluPret
  <2> HIDE DEF s
  <2>8. Parente(s) /\ Garde(s, K)
    BY <2>5, SuiviParente, MemeParenteGarde, GardeTransitif DEF Suivi
  <2> QED
    BY <1>3, <2>1, <2>7, <2>8, OrdonnanceurLignee
<1> QED
  BY <1>5, <1>6, <1>7, <1>8, <1>9, <1>10, <1>11, <1>12 DEF ProcessusNext

LEMMA FinTicParente ==
    ASSUME NEW k, NEW r \in Noyaux, Regle(r), r.panique = "non", Parente(r), Garde(r, k),
           NEW cpt, FinTic(r, cpt).panique = "non"
    PROVE  Lignee(FinTic(r, cpt), k)
<1> DEFINE k1 == [r EXCEPT !.suite[r.elu] = User]
<1>1. r.elu \in Procs /\ User.appel = "user"
  BY DEF Noyaux, User
<1>2. k1 \in Noyaux /\ Regle(k1)
  BY <1>1, UserType, SuiteRegle
<1>3. Parente(k1) /\ Garde(k1, k)
  <2>1. Parente(k1) /\ Garde(k1, r)
    BY <1>1, SuiteParente
  <2> HIDE DEF k1
  <2> QED
    BY <2>1, GardeTransitif
<1>4. FinTic(r, cpt) = IF cpt % (ClockFreq \div SchedFreq) = 0 THEN Ordonnanceur(k1) ELSE k1
  BY DEF FinTic
<1> HIDE DEF k1
<1> QED
  BY <1>2, <1>3, <1>4, ReglePret, OrdonnanceurLignee, GardeLignee

\* The clock interrupt too.
LEMMA ParenteTic ==
    ASSUME TypeNoyau, Regle(Courant), Parente(Courant), Tic \/ RepriseTic
    PROVE  Parente(Courant)' /\ Disparition
<1> DEFINE K == Courant
<1>1. /\ K \in Noyaux /\ Regle(K) /\ Parente(K) /\ Garde(K, K)
      /\ K.elu = elu /\ K.panique = panique /\ elu \in Procs
  BY CourantType, CourantChamps DEF Garde, TypeNoyau
<1>2. ASSUME NEW x, Devient(x), x.panique = "non" => Lignee(x, K)
      PROVE  Parente(Courant)' /\ Disparition
  BY <1>2, DevientLignee
<1> HIDE DEF K
<1>3. CASE Tic
  <2> DEFINE k == VerifieReveille(K, TicSuivant)
             s == [appel |-> "tic", arg |-> Nul]
             k1 == [k EXCEPT !.suite[elu] = s]
  <2>1. /\ Devient(IF ReveilPrioritaire(K, TicSuivant)
                   THEN Ordonnanceur(k1) ELSE FinTic(k, CptSuivant))
        /\ panique = "non"
    BY <1>3 DEF Tic, K
  <2>2. k \in Noyaux /\ Regle(k) /\ k.panique = "non" /\ Suivi(k, K)
    BY <1>1, <2>1, VerifieReveilleType, VerifieReveilleRegle, VerifieReveilleSuivi
  <2> HIDE DEF k
  <2>3. Parente(k) /\ Garde(k, K)
    BY <1>1, <2>2, SuiviParente, MemeParenteGarde DEF Suivi
  <2>4. s \in Suites /\ s.appel = "tic"
    BY DEF Suites
  <2> HIDE DEF s
  <2>5. k1 \in Noyaux /\ Regle(k1)
    BY <1>1, <2>2, <2>4, SuiteRegle
  <2>6. Parente(k1) /\ Garde(k1, k)
    BY <1>1, <2>2, <2>3, <2>4, SuiteParente
  <2> HIDE DEF k1
  <2>7. Ordonnanceur(k1).panique = "non" => Lignee(Ordonnanceur(k1), K)
    BY <2>3, <2>5, <2>6, ReglePret, GardeTransitif, OrdonnanceurLignee
  <2>8. FinTic(k, CptSuivant).panique = "non" => Lignee(FinTic(k, CptSuivant), K)
    BY <2>2, <2>3, FinTicParente
  <2> QED
    BY <1>2, <2>1, <2>7, <2>8
<1>4. CASE RepriseTic
  <2>1. Devient(FinTic(K, cptTicks)) /\ panique = "non"
    BY <1>4 DEF RepriseTic, K
  <2> QED
    BY <1>1, <1>2, <2>1, FinTicParente
<1> QED
  BY <1>3, <1>4

\* The inductive invariant.
InvParente == InvDiscipline /\ Parente(Courant)

LEMMA ParenteInit == Init => InvParente
<1> SUFFICES ASSUME Init PROVE InvParente
  OBVIOUS
<1>1. InvDiscipline
  BY DisciplineInit
<1>2. /\ \A p \in Procs : etat[p] = IF p = elu THEN "ELU"
                                    ELSE IF p = Idle THEN "ACTIVABLE" ELSE "LIBRE"
      /\ \A p \in Procs : pere[p] = Nul /\ fils[p] = <<>> /\ suite[p] = User
      /\ Nul \notin Procs /\ Idle \in Procs
  BY ConstantesProcs DEF Init, NoyauInit
<1>3. Range(<<>>) = {} /\ IsInjective(<<>>)
  BY DEF Range, IsInjective
<1>4. Filiation
  BY <1>2, <1>3 DEF Filiation
<1>5. WaitpidValide
  BY <1>2 DEF WaitpidValide, User
<1> QED
  BY <1>1, <1>4, <1>5, CourantFamille, CourantAttente DEF InvParente, Parente

LEMMA ParenteStep == InvParente /\ [Next]_vars => InvParente' /\ Disparition
<1> SUFFICES ASSUME InvParente, [Next]_vars PROVE InvParente' /\ Disparition
  OBVIOUS
<1>1. InvDiscipline'
  BY DisciplineStep DEF InvParente
<1>2. TypeNoyau /\ Regle(Courant) /\ Parente(Courant)
  BY DEF InvParente, InvDiscipline, TypeOK
<1>3. CASE Next
  BY <1>1, <1>2, <1>3, ParenteProcessus, ParenteTic DEF Next, InvParente
<1>4. CASE UNCHANGED vars
  <2>1. MemeParente(Courant', Courant) /\ etat' = etat
    BY <1>4 DEF vars, noyauVars, Courant, MemeParente
  <2>2. Parente(Courant')
    BY <1>2, <2>1, MemeParenteParente
  <2> QED
    BY <1>1, <2>1, <2>2 DEF InvParente, Disparition
<1> QED
  BY <1>3, <1>4

\* The inductive invariant, which relates families to the lists and states,
\* holds in every reachable state.
THEOREM InvariantParente == Spec => []InvParente
<1>1. InvParente /\ [Next]_vars => InvParente'
  BY ParenteStep
<1> QED
  BY <1>1, ParenteInit, PTL DEF Spec

\* The lists of children and the father pointers agree, whatever the programs
\* do: the calls of processus.c, which change the two separately (start, waitpid,
\* free_childs), leave no pointer to a freed descriptor and no ZOMBIE without
\* a father.
THEOREM FiliationCorrecte == Spec => []Filiation
<1>1. InvParente => Filiation
  BY CourantFamille DEF InvParente, Parente
<1> QED
  BY <1>1, InvariantParente, PTL

\* What waitpid reads of its caller before ordonnanceur() and uses after it is
\* still true: the child it waits for is still a child of the caller, and the
\* list it searches for any child is not empty.
THEOREM WaitpidValideCorrect == Spec => []WaitpidValide
<1>1. InvParente => WaitpidValide
  BY CourantAttente DEF InvParente, Parente
<1> QED
  BY <1>1, InvariantParente, PTL

\* No call and no interrupt makes a ZOMBIE disappear that its father could
\* still have collected.
THEOREM DisparitionDesZombiesCorrecte == Spec => DisparitionDesZombies
<1>1. InvParente /\ [Next]_vars => [Disparition]_noyauVars
  BY ParenteStep
<1>2. Spec => [][Disparition]_noyauVars
  BY <1>1, InvariantParente, PTL DEF Spec
<1> QED
  BY <1>2 DEF DisparitionDesZombies, Disparition

-----------------------------------------------------------------------------
\* No wake-up is lost.

\* PasDeReveilPerdu of k.
Attentif(k) ==
    \A p \in Procs : k.etat[p] = "ATTEND_FILS" =>
        \A c \in Range(k.fils[p]) :
            k.etat[c] = "ZOMBIE" => k.suite[p].arg \notin {Nul, c}

\* Nobody waits in r who did not in k, nor has a new child or a new ZOMBIE.
Silence(r, k) ==
    \A p \in Procs : r.etat[p] = "ATTEND_FILS" =>
        /\ k.etat[p] = "ATTEND_FILS" /\ r.suite[p] = k.suite[p]
        /\ r.fils[p] = k.fils[p]
        /\ \A c \in Range(k.fils[p]) : r.etat[c] = "ZOMBIE" => k.etat[c] = "ZOMBIE"

LEMMA SilenceAttentif ==
    ASSUME NEW k, NEW r, Silence(r, k), Attentif(k)
    PROVE  Attentif(r)
BY DEF Silence, Attentif

\* Silence, when only states change.
LEMMA SilenceEtats ==
    ASSUME NEW k \in Noyaux, NEW r, r.suite = k.suite, r.fils = k.fils,
           \A p \in Procs : \/ r.etat[p] = k.etat[p]
                            \/ r.etat[p] \notin {"ATTEND_FILS", "ZOMBIE"}
    PROVE  Silence(r, k)
<1>1. \A p \in Procs : Range(k.fils[p]) \subseteq Procs
  <2>1. \A p \in Procs : k.fils[p] \in Seq(Pids)
    BY DEF Noyaux
  <2> QED
    BY <2>1, RangeEquality, ConstantesProcs
<1> QED
  BY <1>1 DEF Silence

LEMMA EnfileAttentif ==
    ASSUME NEW k \in Noyaux, NEW p, NEW f, Attentif(k)
    PROVE  Attentif(Enfile(k, p, f))
<1> DEFINE r == Enfile(k, p, f)
<1>1. r.etat = k.etat /\ r.fils = k.fils /\ r.suite = k.suite
  BY DEF Enfile, Noyaux
<1> HIDE DEF r
<1>2. Attentif(r)
  BY <1>1 DEF Attentif
<1> QED
  BY <1>2 DEF r

LEMMA ActiveAttentif ==
    ASSUME NEW k \in Noyaux, NEW p \in Procs, Attentif(k)
    PROVE  Attentif(Active(k, p))
<1> DEFINE m == [k EXCEPT !.etat[p] = "ACTIVABLE"]
<1>1. m \in Noyaux
  BY EtatType DEF Etats
<1>2. /\ m.etat = [k.etat EXCEPT ![p] = "ACTIVABLE"]
      /\ m.fils = k.fils /\ m.suite = k.suite
  BY DEF Noyaux
<1>3. Active(k, p) = Enfile(m, p, "activables")
  BY DEF Active
<1> HIDE DEF m
<1>4. \A x \in Procs : m.etat[x] = IF x = p THEN "ACTIVABLE" ELSE k.etat[x]
  BY <1>2 DEF Noyaux
<1>5. Attentif(m)
  <2>1. Silence(m, k)
    BY <1>2, <1>4, SilenceEtats
  <2> QED
    BY <2>1, SilenceAttentif
<1> QED
  BY <1>1, <1>3, <1>5, EnfileAttentif

LEMMA FreeMourantQueueAttentif ==
    ASSUME NEW k \in Noyaux, Attentif(k), FreeMourantQueue(k).panique = "non"
    PROVE  Attentif(FreeMourantQueue(k))
<1> DEFINE r == FreeMourantQueue(k)
           m == Morts(k)
<1>1. \A p \in Procs :
         /\ r.etat[p] = IF p \in m THEN "LIBRE" ELSE k.etat[p]
         /\ r.suite[p] = IF p \in m THEN User ELSE k.suite[p]
         /\ r.fils[p] = IF p \in m THEN <<>> ELSE k.fils[p]
  BY FreeMourantQueuePanique, FreeMourantQueueChamps
<1>2. \A p \in Procs : Range(k.fils[p]) \subseteq Procs
  <2>1. \A p \in Procs : k.fils[p] \in Seq(Pids)
    BY DEF Noyaux
  <2> QED
    BY <2>1, RangeEquality, ConstantesProcs
<1> HIDE DEF r, m
<1>3. Silence(r, k)
  BY <1>1, <1>2 DEF Silence
<1>4. Attentif(r)
  BY <1>3, SilenceAttentif
<1> QED
  BY <1>4 DEF r

LEMMA OrdonnanceurAttentif ==
    ASSUME NEW k \in Noyaux, Pret(k), Attentif(k), Ordonnanceur(k).panique = "non"
    PROVE  Attentif(Ordonnanceur(k))
<1> DEFINE k1 == FreeMourantQueue(k)
           k2 == RangeElu(k1)
           p == QueueTop(k2.queue["activables"])
           r == Ordonnanceur(k)
<1>1. /\ k1 \in Noyaux /\ k1.panique = "non"
      /\ \/ r = k1
         \/ r = Elit(k2, p) /\ k2 \in Noyaux /\ p \in Procs
  BY OrdonnanceurForme
<1>2. Attentif(k1)
  BY <1>1, FreeMourantQueueAttentif
<1> HIDE DEF k1, r
<1>3. Attentif(k2)
  <2>1. k1.elu \in Procs
    BY <1>1 DEF Noyaux
  <2>2. CASE k1.etat[k1.elu] = "MOURANT"
    BY <1>1, <1>2, <2>2, EnfileAttentif DEF RangeElu
  <2>3. CASE k1.etat[k1.elu] \in {"ELU", "ACTIVABLE"}
    <3>1. k2 = Active(k1, k1.elu)
      BY <2>3 DEF RangeElu
    <3> HIDE DEF k2
    <3> QED
      BY <1>1, <1>2, <2>1, <3>1, ActiveAttentif
  <2>4. CASE k1.etat[k1.elu] \notin {"MOURANT", "ELU", "ACTIVABLE"}
    BY <1>2, <2>4 DEF RangeElu
  <2> QED
    BY <2>2, <2>3, <2>4
<1> HIDE DEF k2, p
<1>4. ASSUME k2 \in Noyaux, p \in Procs PROVE Attentif(Elit(k2, p))
  <2> DEFINE x == Elit(k2, p)
  <2>1. /\ x.etat = [k2.etat EXCEPT ![p] = "ELU"]
        /\ x.suite = k2.suite /\ x.fils = k2.fils
    BY <1>4 DEF Elit, Noyaux
  <2> HIDE DEF x
  <2>2. \A y \in Procs : x.etat[y] = IF y = p THEN "ELU" ELSE k2.etat[y]
    BY <1>4, <2>1 DEF Noyaux
  <2>3. Silence(x, k2)
    BY <1>4, <2>1, <2>2, SilenceEtats
  <2> QED
    BY <1>3, <2>3, SilenceAttentif DEF x
<1> QED
  BY <1>1, <1>2, <1>4 DEF r

\* What makes exit and kill safe: the father of a new ZOMBIE does not wait.
LEMMA FiniReveilleAttentif ==
    ASSUME NEW k \in Noyaux, Famille(k), Attentif(k), NEW p \in Procs
    PROVE  /\ Attentif(ReveillePere(Fini(k, p), p))
           /\ k.pere[p] = Nul => Attentif(Fini(k, p))
<1> DEFINE f == Fini(k, p)
           r == ReveillePere(f, p)
           y == k.pere[p]
<1>1. /\ f \in Noyaux
      /\ f.fils = k.fils /\ f.suite = k.suite /\ f.pere = k.pere
      /\ f.etat = [k.etat EXCEPT ![p] = IF k.pere[p] = Nul THEN "MOURANT" ELSE "ZOMBIE"]
  BY FiniType DEF Fini, Noyaux
<1>2. \A x \in Procs : f.etat[x] = IF x # p THEN k.etat[x]
                                   ELSE IF y = Nul THEN "MOURANT" ELSE "ZOMBIE"
  BY <1>1 DEF Noyaux
<1>3. \A x \in Procs : \A c \in Range(k.fils[x]) : c \in Procs /\ k.pere[c] = x
  <2>1. \A x \in Procs : Range(k.fils[x]) \subseteq Procs
    <3>1. \A x \in Procs : k.fils[x] \in Seq(Pids)
      BY DEF Noyaux
    <3> QED
      BY <3>1, RangeEquality, ConstantesProcs
  <2> QED
    BY <2>1 DEF Famille
<1> HIDE DEF f
<1>4. ASSUME y = Nul PROVE Attentif(f) /\ r = f
  <2>1. \A x \in Procs : f.etat[x] = k.etat[x] \/ f.etat[x] = "MOURANT"
    BY <1>2, <1>4
  <2>2. Silence(f, k)
    BY <1>1, <2>1, SilenceEtats
  <2> QED
    BY <1>1, <1>4, <2>2, SilenceAttentif DEF ReveillePere
<1>5. ASSUME y # Nul PROVE Attentif(r)
  <2>0. y \in Procs
    BY <1>5 DEF Noyaux
  <2>1. CASE f.etat[y] = "ATTEND_FILS"
    <3> DEFINE m == [f EXCEPT !.etat[y] = "ACTIVABLE"]
    <3>1. r = Enfile(m, y, "activables")
      BY <1>1, <1>5, <2>1 DEF ReveillePere, Active
    <3> HIDE DEF y
    <3>2. m \in Noyaux
      BY <1>1, <2>0, EtatType DEF Etats
    <3>3. /\ m.etat = [f.etat EXCEPT ![y] = "ACTIVABLE"]
          /\ m.fils = k.fils /\ m.suite = k.suite
      BY <1>1 DEF Noyaux
    <3> HIDE DEF m
    <3>4. \A x \in Procs : m.etat[x] = IF x = y THEN "ACTIVABLE" ELSE f.etat[x]
      BY <1>1, <2>0, <3>3 DEF Noyaux
    <3>5. Silence(m, k)
      BY <1>2, <1>3, <3>3, <3>4 DEF Silence, y
    <3>6. Attentif(m)
      BY <3>5, SilenceAttentif
    <3> QED
      BY <3>1, <3>2, <3>6, EnfileAttentif
  <2>2. CASE f.etat[y] # "ATTEND_FILS"
    <3>1. r = f
      BY <1>1, <2>2 DEF ReveillePere
    <3>2. Silence(f, k)
      BY <1>1, <1>2, <1>3, <2>2 DEF Silence
    <3> QED
      BY <3>1, <3>2, SilenceAttentif
  <2> QED
    BY <2>1, <2>2
<1> QED
  BY <1>4, <1>5 DEF f

LEMMA KillAttentif ==
    ASSUME NEW k \in Noyaux, Regle(k), k.panique = "non", Parente(k), Attentif(k),
           NEW p \in Pids, p # k.elu, Chaine(k, p)
    PROVE  LET d == Defile(k, p)
               fini == Fini(d, p)
               m == FreeMourantQueue(Enfile(fini, p, "mourants"))
               a == FreeMourantQueue(ReveillePere(fini, p))
           IN  /\ k.pere[p] = Nul /\ m.panique = "non" => Attentif(m)
               /\ k.pere[p] # Nul /\ a.panique = "non" => Attentif(a)
<1> DEFINE d == Defile(k, p)
           fini == Fini(d, p)
           m == Enfile(fini, p, "mourants")
           a == ReveillePere(fini, p)
<1>1. p \in Procs
  BY ConstantesProcs
<1>2. /\ d \in Noyaux
      /\ k.pere[p] = Nul => m \in Noyaux /\ Regle(m)
      /\ k.pere[p] # Nul => a \in Noyaux /\ Regle(a)
  BY KillRegle
<1>3. Suivi(d, k) /\ d.etat = k.etat
  BY DefileSuivi
<1> HIDE DEF d
<1>4. Parente(d) /\ Attentif(d) /\ d.pere = k.pere
  BY <1>3, SuiviParente DEF Suivi, MemeParente, Attentif
<1>5. /\ fini \in Noyaux /\ Attentif(a)
      /\ k.pere[p] = Nul => Attentif(fini)
  BY <1>1, <1>2, <1>4, FiniType, FiniReveilleAttentif DEF Parente
<1> HIDE DEF fini
<1>6. k.pere[p] = Nul => Attentif(m)
  BY <1>5, EnfileAttentif
<1> HIDE DEF m, a
<1>7. /\ k.pere[p] = Nul /\ FreeMourantQueue(m).panique = "non"
         => Attentif(FreeMourantQueue(m))
      /\ k.pere[p] # Nul /\ FreeMourantQueue(a).panique = "non"
         => Attentif(FreeMourantQueue(a))
  BY <1>2, <1>5, <1>6, FreeMourantQueueAttentif
<1> QED
  BY <1>7 DEF m, a, fini, d

\* waitpid() blocks only when it finds nothing to collect.
LEMMA TourWaitpidAttentif ==
    ASSUME NEW k \in Noyaux, Regle(k), k.panique = "non", k.elu # Idle, Attentif(k),
           NEW cible \in Pids \cup {Nul}, TourWaitpid(k, cible).panique = "non"
    PROVE  Attentif(TourWaitpid(k, cible))
<1>1. /\ k.elu \in Procs /\ k.etat[k.elu] = "ELU"
      /\ k.fils[k.elu] \in Seq(Pids)
  BY DEF Noyaux, Regle
<1>2. CASE Finis(k, cible) # {}
  <2> DEFINE i == Min(Finis(k, cible))
             c == k.fils[k.elu][i]
             l == RemoveAt(k.fils[k.elu], i)
             k1 == [k EXCEPT !.fils[k.elu] = l, !.etat[c] = "MOURANT",
                             !.pere[c] = Nul, !.suite[k.elu] = User]
             k2 == Enfile(k1, c, "mourants")
  <2>1. i \in 1 .. Len(k.fils[k.elu]) /\ c \in Pids /\ i \in Finis(k, cible)
    BY <1>2, FinisBornes
  <2>2. TourWaitpid(k, cible) = FreeMourantQueue(k2)
    BY <1>2 DEF TourWaitpid, Recolte
  <2>3. k.etat[c] = "ZOMBIE"
    BY <2>1 DEF Finis
  <2>4. k2 \in Noyaux
    <3> HIDE DEF i
    <3> QED
      BY <2>1, <2>3, RecolteRegle
  <2>5. c \in Procs /\ l \in Seq(Pids)
    <3> HIDE DEF i
    <3> QED
      BY <1>1, <2>1, ConstantesProcs, RemoveAtListe
  <2> HIDE DEF c, l
  <2>6. k1 \in Noyaux
    BY <1>1, <2>5, UserType, ConstantesProcs DEF Noyaux, Etats
  <2>7. /\ k1.etat = [k.etat EXCEPT ![c] = "MOURANT"]
        /\ k1.fils = [k.fils EXCEPT ![k.elu] = l]
        /\ k1.suite = [k.suite EXCEPT ![k.elu] = User]
    BY DEF Noyaux
  <2> HIDE DEF k1
  <2>8. \A x \in Procs : /\ k1.etat[x] = IF x = c THEN "MOURANT" ELSE k.etat[x]
                         /\ x # k.elu => k1.fils[x] = k.fils[x] /\ k1.suite[x] = k.suite[x]
    BY <1>1, <2>5, <2>7 DEF Noyaux
  <2>9. \A x \in Procs : Range(k.fils[x]) \subseteq Procs
    <3>1. \A x \in Procs : k.fils[x] \in Seq(Pids)
      BY DEF Noyaux
    <3> QED
      BY <3>1, RangeEquality, ConstantesProcs
  <2>10. Silence(k1, k)
    BY <1>1, <2>3, <2>8, <2>9 DEF Silence
  <2>11. Attentif(k2)
    BY <2>6, <2>10, SilenceAttentif, EnfileAttentif
  <2> HIDE DEF k2
  <2> QED
    BY <2>2, <2>4, <2>11, FreeMourantQueueAttentif
<1>3. CASE Finis(k, cible) = {}
  <2> DEFINE s == [appel |-> "waitpid", arg |-> cible]
             r == [k EXCEPT !.etat[k.elu] = "ATTEND_FILS", !.suite[k.elu] = s]
  <2>1. TourWaitpid(k, cible) = Ordonnanceur(r)
    BY <1>3 DEF TourWaitpid
  <2>2. s \in Suites /\ s.arg = cible
    BY DEF Suites
  <2> HIDE DEF s
  <2>3. r \in Noyaux
    BY <1>1, <2>2 DEF Noyaux, Etats
  <2>4. /\ r.queue = k.queue /\ r.elu = k.elu /\ r.fils = k.fils
        /\ r.etat = [k.etat EXCEPT ![k.elu] = "ATTEND_FILS"]
        /\ r.suite = [k.suite EXCEPT ![k.elu] = s]
    BY DEF Noyaux
  <2> HIDE DEF r
  <2>5. r.suite[Idle] = k.suite[Idle]
    BY <2>4, ConstantesProcs DEF Noyaux
  <2>6. Pret(r)
    BY <2>3, <2>4, <2>5, BloqueEluPret
  <2>7. /\ \A x \in Procs : r.etat[x] = IF x = k.elu THEN "ATTEND_FILS" ELSE k.etat[x]
        /\ \A x \in Procs : r.suite[x] = IF x = k.elu THEN s ELSE k.suite[x]
    BY <1>1, <2>4 DEF Noyaux
  <2>8. \A c \in Range(k.fils[k.elu]) : k.etat[c] = "ZOMBIE" => cible \notin {Nul, c}
    <3>1. ASSUME NEW j \in 1 .. Len(k.fils[k.elu]), k.etat[k.fils[k.elu][j]] = "ZOMBIE"
          PROVE  cible \notin {Nul, k.fils[k.elu][j]}
      BY <1>3, <3>1 DEF Finis
    <3>2. \A c \in Range(k.fils[k.elu]) : \E j \in 1 .. Len(k.fils[k.elu]) :
             c = k.fils[k.elu][j]
      BY <1>1, RangeEquality
    <3> QED
      BY <3>1, <3>2
  <2>9. \A x \in Procs : Range(k.fils[x]) \subseteq Procs
    <3>1. \A x \in Procs : k.fils[x] \in Seq(Pids)
      BY DEF Noyaux
    <3> QED
      BY <3>1, RangeEquality, ConstantesProcs
  <2>10. Attentif(r)
    BY <2>2, <2>4, <2>7, <2>8, <2>9 DEF Attentif
  <2> QED
    BY <2>1, <2>3, <2>6, <2>10, OrdonnanceurAttentif
<1> QED
  BY <1>2, <1>3

LEMMA FinTicAttentif ==
    ASSUME NEW k \in Noyaux, Regle(k), Attentif(k), NEW cpt,
           FinTic(k, cpt).panique = "non"
    PROVE  Attentif(FinTic(k, cpt))
<1> DEFINE r == [k EXCEPT !.suite[k.elu] = User]
<1>1. k.elu \in Procs /\ k.etat[k.elu] = "ELU" /\ User \in Suites /\ User.appel = "user"
  BY UserType DEF Noyaux, Regle, User
<1>2. r \in Noyaux /\ Regle(r)
  BY <1>1, SuiteRegle
<1>3. r.etat = k.etat /\ r.fils = k.fils /\ r.suite = [k.suite EXCEPT ![k.elu] = User]
  BY DEF Noyaux
<1>4. FinTic(k, cpt) = IF cpt % (ClockFreq \div SchedFreq) = 0 THEN Ordonnanceur(r) ELSE r
  BY DEF FinTic
<1> HIDE DEF r
<1>5. \A p \in Procs : p # k.elu => r.suite[p] = k.suite[p]
  BY <1>3 DEF Noyaux
<1>6. Attentif(r)
  BY <1>1, <1>3, <1>5 DEF Attentif
<1> QED
  BY <1>2, <1>4, <1>6, ReglePret, OrdonnanceurAttentif

LEMMA DevientAttentif ==
    ASSUME Attentif(Courant), NEW x, Devient(x), x.panique = "non" => Attentif(x)
    PROVE  Attentif(Courant)'
<1>1. CASE x.panique = "non"
  BY <1>1 DEF Devient, Attentif, Courant
<1>2. CASE x.panique # "non"
  BY <1>2 DEF Devient, Attentif, Courant
<1> QED
  BY <1>1, <1>2

\* The calls of programs that do not kill themselves.
LEMMA AttentifCalme ==
    ASSUME TypeNoyau, Regle(Courant), Parente(Courant), Attentif(Courant), NextCalme
    PROVE  Attentif(Courant)'
<1> DEFINE K == Courant
<1>1. /\ K \in Noyaux /\ Regle(K) /\ Parente(K) /\ Attentif(K)
      /\ K.elu = elu /\ K.etat = etat /\ K.prio = prio /\ K.pere = pere
      /\ K.fils = fils /\ K.queue = queue /\ K.suite = suite /\ K.panique = panique
  BY CourantType, CourantChamps
<1>2. elu \in Procs /\ Idle \notin Pids
  BY NoyauAssumption DEF TypeNoyau
<1>3. ASSUME NEW x, Devient(x), x.panique = "non" => Attentif(x)
      PROVE  Attentif(Courant)'
  BY <1>3, DevientAttentif
<1> HIDE DEF K
<1>4. ASSUME EnModeUser PROVE K.elu # Idle /\ K.panique = "non" /\ K.etat[elu] = "ELU"
  BY <1>1, <1>2, <1>4 DEF EnModeUser, Regle
<1>5. ASSUME NEW pr \in 1 .. PrioMax, Start(pr) PROVE Attentif(Courant)'
  <2>1. PICK p \in Pids :
           /\ PidLibre(p) /\ EnModeUser
           /\ LET k == Enfile([K EXCEPT !.etat[p] = "ACTIVABLE",
                                        !.prio[p] = pr,
                                        !.pere[p] = elu,
                                        !.fils[elu] = <<p>> \o @],
                              p, "activables")
              IN  Devient(IF pr > prio[elu] THEN Ordonnanceur(k) ELSE k)
    BY <1>5 DEF Start, K
  <2> DEFINE l == <<p>> \o K.fils[elu]
             k0 == [K EXCEPT !.etat[p] = "ACTIVABLE", !.prio[p] = pr,
                             !.pere[p] = elu, !.fils[elu] = l]
             k == Enfile(k0, p, "activables")
  <2>2. p \in Procs /\ elu \in Procs \cup {Nul} /\ pr \in 0 .. PrioMax
        /\ "ACTIVABLE" \in Etats
    BY <1>2, ConstantesProcs, NoyauAssumption DEF Etats
  <2>3. l \in Seq(Pids)
    BY <1>1, <1>2 DEF Noyaux
  <2>4. Devient(IF pr > prio[elu] THEN Ordonnanceur(k) ELSE k)
    BY <2>1 DEF l
  <2>5. K.etat[p] = "LIBRE" /\ K.etat[elu] = "ELU"
    BY <1>1, <1>4, <2>1 DEF PidLibre
  <2> HIDE DEF l
  <2>6. k0 \in Noyaux
    BY <1>1, <1>2, <2>2, <2>3 DEF Noyaux
  <2>7. /\ k0.queue = K.queue /\ k0.elu = K.elu /\ k0.suite = K.suite
        /\ k0.etat = [K.etat EXCEPT ![p] = "ACTIVABLE"]
        /\ k0.fils = [K.fils EXCEPT ![elu] = l]
    BY <1>1 DEF Noyaux
  <2> HIDE DEF k0
  <2>8. \A x \in Procs : /\ k0.etat[x] = IF x = p THEN "ACTIVABLE" ELSE K.etat[x]
                         /\ x # elu => k0.fils[x] = K.fils[x]
    BY <1>1, <1>2, <2>2, <2>7 DEF Noyaux
  <2>9. \A x \in Procs : Range(K.fils[x]) \subseteq Procs
    <3>1. \A x \in Procs : K.fils[x] \in Seq(Pids)
      BY <1>1 DEF Noyaux
    <3> QED
      BY <3>1, RangeEquality, ConstantesProcs
  <2>10. Silence(k0, K)
    BY <2>5, <2>7, <2>8, <2>9 DEF Silence
  <2>11. k \in Noyaux /\ Regle(k) /\ Attentif(k)
    BY <1>1, <2>5, <2>6, <2>7, <2>10, NouveauRegle, SilenceAttentif, EnfileAttentif
  <2> HIDE DEF k
  <2>12. Ordonnanceur(k).panique = "non" => Attentif(Ordonnanceur(k))
    BY <2>11, ReglePret, OrdonnanceurAttentif
  <2> QED
    BY <1>3, <2>4, <2>11, <2>12
<1>6. ASSUME Exit PROVE Attentif(Courant)'
  <2> DEFINE r == ReveillePere(Fini(K, K.elu), K.elu)
             x == Ordonnanceur(r)
  <2>1. Devient(x) /\ K.elu # Idle /\ K.elu \in Procs
    BY <1>1, <1>2, <1>4, <1>6 DEF Exit, K
  <2>2. r \in Noyaux /\ Pret(r) /\ Attentif(r)
    BY <1>1, <2>1, FiniType, ReveillePereType, FinEluDiscipline,
       FiniReveilleAttentif DEF Parente
  <2> HIDE DEF r
  <2>3. x.panique = "non" => Attentif(x)
    BY <2>2, OrdonnanceurAttentif
  <2> HIDE DEF x
  <2> QED
    BY <1>3, <2>1, <2>3
<1>7. ASSUME NEW p \in Pids, KillAutre(p) PROVE Attentif(Courant)'
  <2> DEFINE d == Defile(K, p)
             fini == Fini(d, p)
             m == FreeMourantQueue(Enfile(fini, p, "mourants"))
             a == FreeMourantQueue(ReveillePere(fini, p))
             x == IF d.panique # "non" THEN d ELSE IF pere[p] = Nul THEN m ELSE a
  <2>1. /\ Devient(IF d.panique # "non" THEN d
                   ELSE FreeMourantQueue(IF pere[p] = Nul THEN Enfile(fini, p, "mourants")
                                         ELSE ReveillePere(fini, p)))
        /\ EnModeUser /\ p # elu
    BY <1>7 DEF KillAutre, K
  <2>2. Devient(x)
    BY <2>1
  <2>3. CASE ~ Chaine(K, p)
    <3>1. d = [K EXCEPT !.panique = "queue_del"]
      BY <2>3 DEF Defile
    <3>2. d.panique = "queue_del"
      BY <1>1, <3>1 DEF Noyaux
    <3>3. x = d
      BY <3>2
    <3> HIDE DEF x, d
    <3> QED
      BY <1>3, <2>2, <3>2, <3>3
  <2>4. CASE Chaine(K, p)
    <3>1. /\ K.pere[p] = Nul /\ m.panique = "non" => Attentif(m)
          /\ K.pere[p] # Nul /\ a.panique = "non" => Attentif(a)
      BY <1>1, <1>4, <2>1, <2>4, KillAttentif
    <3> HIDE DEF d, m, a
    <3>2. x.panique = "non" => Attentif(x)
      BY <1>1, <3>1
    <3> HIDE DEF x
    <3> QED
      BY <1>3, <2>2, <3>2
  <2> QED
    BY <2>3, <2>4
<1>8. ASSUME NEW cible \in Pids \cup {Nul}, Waitpid(cible) PROVE Attentif(Courant)'
  <2>1. Devient(TourWaitpid(K, cible)) /\ EnModeUser
    BY <1>8 DEF Waitpid, K
  <2> QED
    BY <1>1, <1>3, <1>4, <2>1, TourWaitpidAttentif
<1>9. ASSUME RepriseWaitpid PROVE Attentif(Courant)'
  <2>1. /\ Devient(TourWaitpid(K, suite[elu].arg)) /\ K.panique = "non"
        /\ suite[elu].appel = "waitpid"
    BY <1>1, <1>9 DEF RepriseWaitpid, K
  <2>2. K.elu # Idle
    BY <1>1, <2>1 DEF Regle, IdlePret
  <2>3. suite[elu].arg \in Pids \cup {Nul}
    BY <1>2 DEF TypeNoyau, Suites
  <2> QED
    BY <1>1, <1>3, <2>1, <2>2, <2>3, TourWaitpidAttentif
<1>10. ASSUME NEW t \in Dates, WaitClock(t) PROVE Attentif(Courant)'
  <2> DEFINE r == [K EXCEPT !.etat[elu] = "ENDORMI", !.reveil[elu] = t]
             s == Enfile(r, elu, "endormis")
             x == Ordonnanceur(s)
  <2>1. Devient(x) /\ EnModeUser
    BY <1>10 DEF WaitClock, K
  <2>2. r \in Noyaux
    BY <1>1 DEF Noyaux, Etats
  <2>3. /\ r.queue = K.queue /\ r.elu = K.elu /\ r.suite = K.suite /\ r.fils = K.fils
        /\ r.etat = [K.etat EXCEPT ![K.elu] = "ENDORMI"]
    BY <1>1 DEF Noyaux
  <2> HIDE DEF r
  <2>4. \A y \in Procs : r.etat[y] = K.etat[y] \/ r.etat[y] = "ENDORMI"
    BY <1>1, <2>3 DEF Noyaux
  <2>5. Attentif(r)
    <3>1. Silence(r, K)
      BY <1>1, <2>3, <2>4, SilenceEtats
    <3> QED
      BY <1>1, <3>1, SilenceAttentif
  <2>6. /\ "endormis" \in Queues /\ "endormis" \in QueuesDe("ENDORMI")
        /\ r.suite[Idle] = K.suite[Idle]
    BY <2>3, QueuesDeValeurs, ConstantesQueues
  <2>7. s \in Noyaux /\ Pret(s) /\ Attentif(s)
    BY <1>1, <1>4, <2>1, <2>2, <2>3, <2>5, <2>6, EnfileEluPret, EnfileAttentif
  <2> HIDE DEF s
  <2>8. x.panique = "non" => Attentif(x)
    BY <2>7, OrdonnanceurAttentif
  <2> HIDE DEF x
  <2> QED
    BY <1>3, <2>1, <2>8
<1>11. ASSUME Tic PROVE Attentif(Courant)'
  <2> DEFINE k == VerifieReveille(K, TicSuivant)
             s == [appel |-> "tic", arg |-> Nul]
             k1 == [k EXCEPT !.suite[elu] = s]
  <2>1. /\ Devient(IF ReveilPrioritaire(K, TicSuivant)
                   THEN Ordonnanceur(k1) ELSE FinTic(k, CptSuivant))
        /\ panique = "non"
    BY <1>11 DEF Tic, K
  <2>2. /\ k \in Noyaux /\ Regle(k) /\ k.panique = "non" /\ k.elu = elu
        /\ \A p \in Procs : k.etat[p] = K.etat[p] \/ k.etat[p] = "ACTIVABLE"
        /\ Suivi(k, K)
    BY <1>1, <2>1, VerifieReveilleType, VerifieReveilleRegle, VerifieReveilleSuivi
  <2> HIDE DEF k
  <2>3. Attentif(k)
    <3>1. Silence(k, K)
      BY <1>1, <2>2, SilenceEtats DEF Suivi, MemeParente
    <3> QED
      BY <1>1, <3>1, SilenceAttentif
  <2>4. s \in Suites /\ s.appel = "tic"
    BY DEF Suites
  <2> HIDE DEF s
  <2>5. k1 \in Noyaux /\ Regle(k1)
    BY <1>1, <1>2, <2>2, <2>4, SuiteRegle
  <2>6. /\ k1.etat = k.etat /\ k1.fils = k.fils
        /\ k1.suite = [k.suite EXCEPT ![elu] = s]
    BY <2>2 DEF Noyaux
  <2> HIDE DEF k1
  <2>7. Attentif(k1)
    <3>1. k.etat[elu] = "ELU" /\ \A p \in Procs : p # elu => k1.suite[p] = k.suite[p]
      BY <1>2, <2>2, <2>6 DEF Noyaux, Regle
    <3> QED
      BY <2>3, <2>6, <3>1 DEF Attentif
  <2>8. Ordonnanceur(k1).panique = "non" => Attentif(Ordonnanceur(k1))
    BY <2>5, <2>7, ReglePret, OrdonnanceurAttentif
  <2>9. FinTic(k, CptSuivant).panique = "non" => Attentif(FinTic(k, CptSuivant))
    BY <2>2, <2>3, FinTicAttentif
  <2> QED
    BY <1>3, <2>1, <2>8, <2>9
<1>12. ASSUME RepriseTic PROVE Attentif(Courant)'
  <2>1. Devient(FinTic(K, cptTicks))
    BY <1>12 DEF RepriseTic, K
  <2> QED
    BY <1>1, <1>3, <2>1, FinTicAttentif
<1> QED
  BY <1>5, <1>6, <1>7, <1>8, <1>9, <1>10, <1>11, <1>12 DEF NextCalme

LEMMA CalmeNext == NextCalme => Next
BY DEF NextCalme, Next, ProcessusNext

LEMMA CourantAttentif == Attentif(Courant) <=> PasDeReveilPerdu
BY DEF Attentif, PasDeReveilPerdu, Courant

\* As long as no process kills itself, a process blocked in waitpid never has a
\* child it could collect: exit() and kill() of another process wake the father,
\* and waitpid blocks only when its search found nothing.
THEOREM PasDeReveilPerduCorrect == SpecCalme => []PasDeReveilPerdu
<1>1. Init => PasDeReveilPerdu
  <2>1. Init => \A p \in Procs : etat[p] # "ATTEND_FILS"
    BY DEF Init, NoyauInit
  <2> QED
    BY <2>1 DEF PasDeReveilPerdu
<1>2. InvParente /\ PasDeReveilPerdu /\ [NextCalme]_vars => PasDeReveilPerdu'
  <2> SUFFICES ASSUME InvParente, PasDeReveilPerdu, [NextCalme]_vars
               PROVE  PasDeReveilPerdu'
    OBVIOUS
  <2>1. TypeNoyau /\ Regle(Courant) /\ Parente(Courant) /\ Attentif(Courant)
    BY CourantAttentif DEF InvParente, InvDiscipline, TypeOK
  <2>2. CASE NextCalme
    <3>1. Attentif(Courant)'
      BY <2>1, <2>2, AttentifCalme
    <3> QED
      BY <3>1 DEF Attentif, PasDeReveilPerdu, Courant
  <2>3. CASE UNCHANGED vars
    BY <2>3 DEF vars, noyauVars, PasDeReveilPerdu
  <2> QED
    BY <2>2, <2>3
<1>3. [NextCalme]_vars => [Next]_vars
  BY CalmeNext
<1>4. Init /\ [][Next]_vars => []InvParente
  BY InvariantParente DEF Spec
<1> QED
  BY <1>1, <1>2, <1>3, <1>4, PTL DEF SpecCalme
=============================================================================
