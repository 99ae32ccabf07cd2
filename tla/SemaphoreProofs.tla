-------------------------- MODULE SemaphoreProofs --------------------------
(***************************************************************************)
(* The kernel with semaphores.  For any programs, kills of processes that  *)
(* wait included: the types, the discipline, and counters that no wake-up  *)
(* overtakes.  For programs that kill none that waits: the counters are    *)
(* exact, and the calls implement SemaphoreAbstrait.                       *)
(***************************************************************************)
EXTENDS Semaphore, OrdreProofs

\* The inductive invariant.
InvSemaphore == TypeSemaphore /\ Regle(Courant) /\ JamaisEnfileDeuxFois

-----------------------------------------------------------------------------
\* The processes that leave the queue of a semaphore.

LEMMA TousAttendants ==
    ASSUME NEW q \in Seq(Procs)
    PROVE  SubSeq(Reverse(q), 1, Len(q)) = Reverse(q)
<1>1. Len(q) \in Nat
  BY LenProperties
<1>2. Reverse(q) \in Seq(Procs) /\ Len(Reverse(q)) = Len(q)
  BY <1>1 DEF Reverse
<1> DEFINE v == Reverse(q)
<1> HIDE DEF v
<1>3. SubSeq(v, 1, Len(v)) = v
  BY <1>2 DEF v
<1> QED
  BY <1>2, <1>3 DEF v

\* The n processes that have waited longest are made ready: the kernel state
\* keeps its type and, between two handlers, its discipline.
LEMMA ReveilAttendants ==
    ASSUME NEW k \in Noyaux, NEW s \in Sids, NEW n \in 0 .. Len(k.queue[s])
    PROVE  LET w == SubSeq(Reverse(k.queue[s]), 1, n)
               r == ActiveTous([k EXCEPT !.queue[s] = SubSeq(@, 1, Len(@) - Len(w))], w)
           IN  /\ r \in Noyaux
               /\ w \in Seq(Procs)
               /\ Regle(k) => Regle(r) /\ r.panique = k.panique
<1> DEFINE q == k.queue[s]
           w == SubSeq(Reverse(q), 1, n)
           l == SubSeq(q, 1, Len(q) - n)
           k1 == [k EXCEPT !.queue[s] = l]
           k2 == ActiveTous(k1, w)
<1>1. q \in Seq(Procs) /\ k.queue \in [Queues -> Seq(Procs)] /\ s \in Queues
  BY ConstantesQueues DEF Noyaux
<1>2. /\ w \in Seq(Procs) /\ Len(w) = n /\ l \in Seq(Procs)
      /\ Range(q) = Range(l) \cup Range(w)
      /\ IsInjective(q) => /\ IsInjective(w) /\ IsInjective(l)
                           /\ Range(l) \cap Range(w) = {}
  <2>1. n \in 0 .. Len(q)
    OBVIOUS
  <2> HIDE DEF q
  <2> QED
    BY <1>1, <2>1, ListeRetournee
<1>3. ActiveTous([k EXCEPT !.queue[s] = SubSeq(@, 1, Len(@) - Len(w))], w) = k2
  BY <1>2
<1> HIDE DEF w, l
<1>4. /\ k1 \in Noyaux /\ k1.etat = k.etat /\ Memes(k1, k)
      /\ k1.queue = [k.queue EXCEPT ![s] = l]
  BY <1>1, <1>2 DEF Noyaux, Memes
<1> HIDE DEF k1
<1>5. k2 \in Noyaux
  BY <1>2, <1>4, ActiveTousType
<1>6. ASSUME Regle(k) PROVE Regle(k2) /\ k2.panique = k.panique
  <2>1. IsInjective(q) /\ Chainage(k.queue, k.etat, {})
    BY <1>1, <1>6 DEF Regle, Chainage
  <2>2. Chainage(k1.queue, k1.etat, Range(w))
    <3>1. Range(w) \subseteq Range(q) /\ Range(l) = Range(q) \ Range(w)
      BY <1>2, <2>1
    <3> DEFINE d == [k.queue EXCEPT ![s] = l]
    <3>2. Chainage(d, k.etat, {} \cup Range(w))
      BY <1>1, <1>2, <2>1, <3>1, ChainageRetrait
    <3>3. {} \cup Range(w) = Range(w)
      OBVIOUS
    <3> HIDE DEF d
    <3> QED
      BY <1>4, <3>2, <3>3 DEF d
  <2>3. /\ Chainage(k2.queue, k2.etat, {})
        /\ k2.etat = [p \in Procs |-> IF p \in Range(w) THEN "ACTIVABLE" ELSE k1.etat[p]]
        /\ Memes(k2, k1)
    BY <1>2, <1>4, <2>1, <2>2, ActiveTousDiscipline
  <2> HIDE DEF k2
  <2>4. \A p \in Procs : k2.etat[p] = IF p \in Range(w) THEN "ACTIVABLE" ELSE k.etat[p]
    BY <1>4, <2>3
  <2>5. \A p \in Procs : p \in Range(w) => k.etat[p] # "ELU"
    <3> SUFFICES ASSUME NEW p \in Procs, p \in Range(w), k.etat[p] = "ELU" PROVE FALSE
      OBVIOUS
    <3>1. s \in QueuesDe(k.etat[p])
      BY <1>1, <1>2, <2>1 DEF Chainage
    <3> QED
      BY <3>1, QueuesDeValeurs
  <2>6. k2.elu = k.elu /\ k2.panique = k.panique /\ k2.suite = k.suite
    BY <1>4, <2>3 DEF Memes
  <2>7. \A p \in Procs : k2.etat[p] = "ELU" <=> p = k2.elu
    BY <1>6, <2>4, <2>5, <2>6 DEF Regle
  <2>8. IdlePret(k2)
    BY <1>6, <2>4, <2>6, ConstantesProcs DEF Regle, IdlePret
  <2> QED
    BY <2>3, <2>6, <2>7, <2>8 DEF Regle
<1> HIDE DEF k2
<1> QED
  BY <1>2, <1>3, <1>5, <1>6 DEF w, q
-----------------------------------------------------------------------------
\* Each call of semaphore.c.

LEMMA InitSemaphore == SemaphoreInit => InvSemaphore
<1> SUFFICES ASSUME SemaphoreInit PROVE InvSemaphore
  OBVIOUS
<1>1. InvDiscipline
  BY DisciplineInit DEF SemaphoreInit
<1>2. 0 \in Shorts /\ 0 \in Statuts
  BY SemaphoreAssumption DEF Shorts, ShortMin, Statuts
<1>3. count \in [Sids -> Shorts] /\ operationStatus \in [Procs -> Statuts]
  BY <1>2 DEF SemaphoreInit
<1> QED
  BY <1>1, <1>3 DEF SemaphoreInit, InvSemaphore, InvDiscipline, TypeSemaphore

\* A freed descriptor takes its status with it.
LEMMA RestantsType ==
    ASSUME NEW st \in [Procs -> Statuts]
    PROVE  Restants(st) \in [Procs -> Statuts]
BY DEF Restants, Statuts

\* The part of the invariant a call of semaphore.c changes through the kernel.
LEMMA DevientInvariant ==
    ASSUME TypeOK, Regle(Courant), NEW k \in Noyaux, Fiable(k), Devient(k),
           UNCHANGED <<ticks, cptTicks>>
    PROVE  TypeOK' /\ Regle(Courant)' /\ JamaisEnfileDeuxFois'
<1>1. TypeNoyau /\ TypeNoyau'
  BY DevientType DEF TypeOK
<1> QED
  BY <1>1, DevientRegle DEF TypeOK

LEMMA LibereInvariant ==
    ASSUME TypeSemaphore, Regle(Courant), panique = "non", NEW s \in Sids,
           NEW n \in 0 .. Len(queue[s]), NEW st \in Statuts,
           Libere(s, SubSeq(Attendants(s), 1, n), st)
    PROVE  /\ TypeOK' /\ Regle(Courant)' /\ JamaisEnfileDeuxFois'
           /\ operationStatus' \in [Procs -> Statuts]
<1> DEFINE w == SubSeq(Attendants(s), 1, n)
           K == Courant
           r == ActiveTous([K EXCEPT !.queue[s] = SubSeq(@, 1, Len(@) - Len(w))], w)
<1>1. TypeOK /\ K \in Noyaux /\ K.queue = queue /\ K.panique = "non" /\ Regle(K)
  BY CourantType, CourantChamps DEF TypeSemaphore, TypeOK
<1>2. w = SubSeq(Reverse(K.queue[s]), 1, n)
  BY <1>1 DEF Attendants
<1>3. Devient(r) /\ UNCHANGED <<ticks, cptTicks>>
  BY DEF Libere
<1>4. operationStatus' =
        Restants([p \in Procs |-> IF p \in Range(w) THEN st ELSE operationStatus[p]])
  BY DEF Libere
<1>5. [p \in Procs |-> IF p \in Range(w) THEN st ELSE operationStatus[p]]
        \in [Procs -> Statuts]
  BY DEF TypeSemaphore
<1> HIDE DEF w, K
<1>6. r \in Noyaux /\ Regle(r) /\ r.panique = K.panique
  BY <1>1, <1>2, ReveilAttendants
<1> HIDE DEF r
<1>7. Fiable(r)
  BY <1>1, <1>6 DEF Fiable
<1>8. TypeOK' /\ Regle(Courant)' /\ JamaisEnfileDeuxFois'
  BY <1>1, <1>3, <1>6, <1>7, DevientInvariant DEF K
<1> QED
  BY <1>4, <1>5, <1>8, RestantsType

\* The processes signaln wakes are in the queue.
LEMMA ReveilsBornes ==
    ASSUME NEW s \in Sids, count \in [Sids -> Shorts], NEW n \in 1 .. ShortMax
    PROVE  Reveils(s, n) \in Nat
<1> DEFINE c == -count[s]
           A == {0, c}
           m == Max(A)
           B == {n, m}
<1>1. c \in Int /\ n \in Nat
  BY SemaphoreAssumption DEF Shorts, ShortMin
<1>2. m \in Nat
  <2>1. \E x \in A : \A y \in A : x >= y
    BY <1>1
  <2>2. m \in A /\ \A y \in A : m >= y
    BY <2>1 DEF Max
  <2> QED
    BY <1>1, <2>2
<1> HIDE DEF m
<1>3. B \subseteq Nat /\ B # {}
  BY <1>1, <1>2
<1>4. Min(B) \in B
  BY <1>3, MinEstPlusPetit
<1>5. Reveils(s, n) = Min(B)
  BY DEF Reveils, m
<1> QED
  BY <1>3, <1>4, <1>5
\* A call that leaves the process table as it is.
LEMMA NoyauInchange ==
    ASSUME InvSemaphore, UNCHANGED vars
    PROVE  TypeOK' /\ Regle(Courant)' /\ JamaisEnfileDeuxFois'
<1>1. [Next]_vars /\ InvDiscipline
  BY DEF InvSemaphore, TypeSemaphore, InvDiscipline
<1>2. InvDiscipline'
  BY <1>1, DisciplineStep
<1> QED
  BY <1>2 DEF InvDiscipline

\* wait() with no token leaves its caller in the queue of the semaphore.
LEMMA WaitInvariant ==
    ASSUME InvSemaphore, NEW s \in Sids, Wait(s)
    PROVE  TypeOK' /\ Regle(Courant)' /\ JamaisEnfileDeuxFois'
<1> DEFINE K == Courant
           x == [appel |-> "wait", arg |-> Nul]
           k == [K EXCEPT !.etat[elu] = "ATTEND_SEMAPHORE", !.suite[elu] = x]
           r == Enfile(k, elu, s)
<1>1. /\ TypeOK /\ K \in Noyaux /\ Regle(K) /\ K.elu = elu /\ K.panique = panique
      /\ UNCHANGED <<ticks, cptTicks>>
  BY CourantType, CourantChamps DEF InvSemaphore, TypeSemaphore, TypeOK, Wait
<1>2. K.elu # Idle /\ K.panique = "non" /\ elu \in Procs
  BY <1>1, ConstantesProcs, NoyauAssumption DEF Wait, EnModeUser
<1>3. CASE count'[s] < 0
  <2>1. Devient(Ordonnanceur(r))
    BY <1>3 DEF Wait
  <2>2. x \in Suites /\ "ATTEND_SEMAPHORE" \in Etats
    BY DEF Suites, Etats
  <2> HIDE DEF x, K
  <2>3. k \in Noyaux
    BY <1>1, <1>2, <2>2 DEF Noyaux
  <2>4. /\ k.queue = K.queue /\ k.elu = K.elu /\ k.panique = "non"
        /\ k.etat = [K.etat EXCEPT ![K.elu] = "ATTEND_SEMAPHORE"]
        /\ k.suite[Idle] = K.suite[Idle]
    BY <1>1, <1>2, ConstantesProcs DEF Noyaux
  <2> HIDE DEF k
  <2>5. s \in Queues /\ s \in QueuesDe("ATTEND_SEMAPHORE")
    BY QueuesDeValeurs, ConstantesQueues
  <2>6. r \in Noyaux /\ Pret(r) /\ r.panique = "non"
    BY <1>1, <1>2, <2>3, <2>4, <2>5, EnfileEluPret
  <2> HIDE DEF r
  <2>7. Ordonnanceur(r) \in Noyaux /\ Fiable(Ordonnanceur(r))
    BY <2>6, OrdonnanceurFiable
  <2> QED
    BY <1>1, <2>1, <2>7, DevientInvariant DEF K
<1>4. CASE ~ (count'[s] < 0)
  <2>1. UNCHANGED vars
    BY <1>1, <1>4 DEF Wait, vars
  <2> QED
    BY <2>1, NoyauInchange
<1> QED
  BY <1>3, <1>4

\* Every call of semaphore.c keeps the invariant.
LEMMA SemaphoreStep ==
    ASSUME InvSemaphore, SemaphoreNext
    PROVE  InvSemaphore'
<1>1. /\ TypeSemaphore /\ TypeOK /\ Regle(Courant)
      /\ tableauSem \subseteq Sids /\ count \in [Sids -> Shorts]
      /\ operationStatus \in [Procs -> Statuts] /\ queue \in [Queues -> Seq(Procs)]
  BY DEF InvSemaphore, TypeSemaphore, TypeOK, TypeNoyau
<1>2. /\ ShortMax \in Nat \ {0} /\ Shorts = -ShortMax - 1 .. ShortMax
      /\ {1, -3, -4} \subseteq Statuts
  BY SemaphoreAssumption DEF Shorts, ShortMin, Statuts
<1>3. ASSUME TypeOK' /\ Regle(Courant)' /\ JamaisEnfileDeuxFois',
             operationStatus' \in [Procs -> Statuts],
             tableauSem' \subseteq Sids, count' \in [Sids -> Shorts]
      PROVE  InvSemaphore'
  BY <1>3 DEF InvSemaphore, TypeSemaphore
<1>4. ASSUME NEW s \in Sids
      PROVE  /\ Len(queue[s]) \in 0 .. Len(queue[s])
             /\ SubSeq(Attendants(s), 1, Len(queue[s])) = Attendants(s)
  <2>1. queue[s] \in Seq(Procs)
    BY <1>1, ConstantesQueues
  <2> QED
    BY <2>1, LenProperties, TousAttendants DEF Attendants
<1>5. ASSUME NEW s \in Sids, NEW n \in 0 .. ShortMax, Screate(s, n)
      PROVE  InvSemaphore'
  <2>1. TypeOK' /\ Regle(Courant)' /\ JamaisEnfileDeuxFois'
    BY <1>5, NoyauInchange DEF Screate
  <2>2. n \in Shorts
    BY <1>2
  <2> QED
    BY <1>1, <1>3, <1>5, <2>1, <2>2 DEF Screate
<1>6. ASSUME NEW s \in Sids, Sdelete(s) PROVE InvSemaphore'
  <2>1. Libere(s, SubSeq(Attendants(s), 1, Len(queue[s])), -3) /\ panique = "non"
    BY <1>4, <1>6 DEF Sdelete, EnModeUser
  <2>2. /\ TypeOK' /\ Regle(Courant)' /\ JamaisEnfileDeuxFois'
        /\ operationStatus' \in [Procs -> Statuts]
    BY <1>1, <1>2, <1>4, <2>1, LibereInvariant
  <2>3. 0 \in Shorts
    BY <1>2
  <2> QED
    BY <1>1, <1>3, <1>6, <2>2, <2>3 DEF Sdelete
<1>7. ASSUME NEW s \in Sids, NEW n \in 0 .. ShortMax, Sreset(s, n)
      PROVE  InvSemaphore'
  <2>1. Libere(s, SubSeq(Attendants(s), 1, Len(queue[s])), -4) /\ panique = "non"
    BY <1>4, <1>7 DEF Sreset, EnModeUser
  <2>2. /\ TypeOK' /\ Regle(Courant)' /\ JamaisEnfileDeuxFois'
        /\ operationStatus' \in [Procs -> Statuts]
    BY <1>1, <1>2, <1>4, <2>1, LibereInvariant
  <2>3. n \in Shorts
    BY <1>2
  <2> QED
    BY <1>1, <1>3, <1>7, <2>2, <2>3 DEF Sreset
<1>8. ASSUME NEW s \in Sids, NEW n \in 1 .. ShortMax, Signaln(s, n)
      PROVE  InvSemaphore'
  <2>1. CASE Len(queue[s]) < Reveils(s, n)
    <3> DEFINE k == [Courant EXCEPT !.panique = "null"]
    <3>1. Devient(k) /\ UNCHANGED <<ticks, cptTicks, semaphoreVars>>
      BY <1>8, <2>1 DEF Signaln, semaphoreVars
    <3>2. k \in Noyaux /\ Fiable(k)
      <4>1. Courant \in Noyaux
        BY <1>1, CourantType DEF TypeOK
      <4> QED
        BY <4>1 DEF Noyaux, Paniques, Fiable
    <3> HIDE DEF k
    <3>3. TypeOK' /\ Regle(Courant)' /\ JamaisEnfileDeuxFois'
      BY <1>1, <3>1, <3>2, DevientInvariant
    <3> QED
      BY <1>1, <1>3, <3>1, <3>3 DEF semaphoreVars
  <2>2. CASE ~ (Len(queue[s]) < Reveils(s, n))
    <3> DEFINE m == Reveils(s, n)
    <3>1. /\ Libere(s, SubSeq(Attendants(s), 1, m), 1) /\ panique = "non"
          /\ count' = [count EXCEPT ![s] = @ + n] /\ UNCHANGED tableauSem
          /\ count[s] <= ShortMax - n
      BY <1>8, <2>2 DEF Signaln, EnModeUser, PeutCompter
    <3>2. m \in 0 .. Len(queue[s])
      <4>1. m \in Nat
        BY <1>1, ReveilsBornes
      <4>2. queue[s] \in Seq(Procs)
        BY <1>1, ConstantesQueues
      <4> HIDE DEF m
      <4>3. Len(queue[s]) \in Nat
        BY <4>2, LenProperties
      <4> QED
        BY <2>2, <4>1, <4>3 DEF m
    <3> HIDE DEF m
    <3>3. /\ TypeOK' /\ Regle(Courant)' /\ JamaisEnfileDeuxFois'
          /\ operationStatus' \in [Procs -> Statuts]
      BY <1>1, <1>2, <3>1, <3>2, LibereInvariant
    <3>4. count[s] + n \in Shorts
      BY <1>1, <1>2, <3>1
    <3> QED
      BY <1>1, <1>3, <3>1, <3>3, <3>4
  <2> QED
    BY <2>1, <2>2
<1>9. ASSUME NEW s \in Sids, TryWait(s) PROVE InvSemaphore'
  <2>1. TypeOK' /\ Regle(Courant)' /\ JamaisEnfileDeuxFois'
    BY <1>9, NoyauInchange DEF TryWait
  <2>2. count[s] - 1 \in Shorts
    BY <1>1, <1>2, <1>9 DEF TryWait
  <2> QED
    BY <1>1, <1>3, <1>9, <2>1, <2>2 DEF TryWait
<1>10. ASSUME NEW s \in Sids, Wait(s) PROVE InvSemaphore'
  <2>1. TypeOK' /\ Regle(Courant)' /\ JamaisEnfileDeuxFois'
    BY <1>10, WaitInvariant
  <2>2. count[s] - 1 \in Shorts
    BY <1>1, <1>2, <1>10 DEF Wait, PeutDecompter, ShortMin
  <2>3. operationStatus' \in [Procs -> Statuts]
    BY <1>1, <1>10, RestantsType DEF Wait
  <2> QED
    BY <1>1, <1>3, <1>10, <2>1, <2>2, <2>3 DEF Wait
<1>11. ASSUME RepriseWait PROVE InvSemaphore'
  <2> DEFINE k == [Courant EXCEPT !.suite[elu] = User]
  <2>1. Devient(k) /\ panique = "non" /\ UNCHANGED <<ticks, cptTicks, semaphoreVars>>
    BY <1>11 DEF RepriseWait
  <2>2. k \in Noyaux /\ Fiable(k)
    <3>1. Courant \in Noyaux /\ elu \in Procs /\ User \in Suites /\ User.appel = "user"
          /\ Courant.panique = "non"
      BY <1>1, <2>1, CourantType, CourantChamps, UserType DEF TypeOK, TypeNoyau, User
    <3>2. k \in Noyaux /\ Regle(k) /\ k.panique = "non"
      BY <1>1, <3>1, SuiteRegle
    <3> QED
      BY <3>2 DEF Fiable
  <2> HIDE DEF k
  <2>3. TypeOK' /\ Regle(Courant)' /\ JamaisEnfileDeuxFois'
    BY <1>1, <2>1, <2>2, DevientInvariant
  <2> QED
    BY <1>1, <1>3, <2>1, <2>3 DEF semaphoreVars
<1> QED
  BY <1>5, <1>6, <1>7, <1>8, <1>9, <1>10, <1>11 DEF SemaphoreNext

LEMMA SemaphorePas ==
    InvSemaphore /\ [SemaphoreNext \/ AutresNext]_varsSemaphore => InvSemaphore'
<1> SUFFICES ASSUME InvSemaphore, [SemaphoreNext \/ AutresNext]_varsSemaphore
             PROVE  InvSemaphore'
  OBVIOUS
<1>1. CASE SemaphoreNext
  BY <1>1, SemaphoreStep
<1>2. CASE AutresNext
  <2>1. InvDiscipline'
    BY <1>2, DisciplineStep DEF AutresNext, InvSemaphore, InvDiscipline, TypeSemaphore
  <2>2. operationStatus' \in [Procs -> Statuts]
    BY <1>2, RestantsType DEF AutresNext, InvSemaphore, TypeSemaphore
  <2> QED
    BY <1>2, <2>1, <2>2 DEF AutresNext, InvSemaphore, InvDiscipline, TypeSemaphore
<1>3. CASE UNCHANGED varsSemaphore
  <2>1. TypeOK' /\ Regle(Courant)' /\ JamaisEnfileDeuxFois'
    BY <1>3, NoyauInchange DEF varsSemaphore
  <2> QED
    BY <1>3, <2>1 DEF varsSemaphore, semaphoreVars, InvSemaphore, TypeSemaphore
<1> QED
  BY <1>1, <1>2, <1>3

THEOREM InvariantSemaphore == SpecSemaphore => []InvSemaphore
BY InitSemaphore, SemaphorePas, PTL DEF SpecSemaphore

\* The 16-bit counters never overflow: the tests of signal, signaln and wait
\* suffice, whatever the programs do and whoever is killed.
THEOREM TypeSemaphoreCorrecte == SpecSemaphore => []TypeSemaphore
<1>1. InvSemaphore => TypeSemaphore
  BY DEF InvSemaphore
<1> QED
  BY <1>1, InvariantSemaphore, PTL

\* The calls of semaphore.c, which move processes between the queues by hand,
\* keep the discipline too, in particular when sdelete, sreset and signaln
\* wake several at once, and when a process that waits is killed.
THEOREM DisciplineSemaphore ==
    SpecSemaphore => [](Discipline /\ JamaisEnfileDeuxFois)
<1>1. InvSemaphore => Discipline /\ JamaisEnfileDeuxFois
  BY RegleDiscipline DEF InvSemaphore
<1> QED
  BY <1>1, InvariantSemaphore, PTL
-----------------------------------------------------------------------------
\* No process joins the queue of a semaphore except in wait().

\* The queues of the semaphores are the same in the two kernel states.
Intactes(r, k) == \A s \in Sids : r.queue[s] = k.queue[s]

LEMMA QueuesDuNoyau ==
    {"activables", "endormis", "mourants", "bloque_es"} \cap Sids = {} /\ Fids \cap Sids = {}
BY NoyauAssumption

LEMMA EnfileIntactes ==
    ASSUME NEW k \in Noyaux, NEW p, NEW f, f \notin Sids
    PROVE  Intactes(Enfile(k, p, f), k)
<1> DEFINE r == QueueAdd(k.queue[f], p, Cle(k, f))
<1>1. \/ Enfile(k, p, f) = [k EXCEPT !.panique = "queue_add"]
      \/ Enfile(k, p, f) = [k EXCEPT !.queue[f] = r]
  BY DEF Enfile
<1> HIDE DEF r
<1>2. Intactes([k EXCEPT !.queue[f] = r], k)
  BY ConstantesQueues DEF Noyaux, Intactes
<1>3. Intactes([k EXCEPT !.panique = "queue_add"], k)
  BY DEF Noyaux, Intactes
<1> QED
  BY <1>1, <1>2, <1>3

LEMMA ActiveIntactes ==
    ASSUME NEW k \in Noyaux, NEW p \in Procs
    PROVE  Intactes(Active(k, p), k)
<1> DEFINE k1 == [k EXCEPT !.etat[p] = "ACTIVABLE"]
<1>1. k1 \in Noyaux /\ k1.queue = k.queue
  BY EtatType DEF Etats, Noyaux
<1>2. Active(k, p) = Enfile(k1, p, "activables")
  BY DEF Active
<1> HIDE DEF k1
<1>3. Intactes(Enfile(k1, p, "activables"), k1)
  BY <1>1, QueuesDuNoyau, EnfileIntactes
<1> QED
  BY <1>1, <1>2, <1>3 DEF Intactes

LEMMA ActiveTousIntactes ==
    ASSUME NEW k \in Noyaux, NEW w
    PROVE  Intactes(ActiveTous(k, w), k)
<1> DEFINE e == [p \in Procs |-> IF p \in Range(w) THEN "ACTIVABLE" ELSE k.etat[p]]
           r == QueueAddTous(k.queue["activables"], w, k.prio)
<1>1. \/ ActiveTous(k, w) = [k EXCEPT !.panique = "queue_add"]
      \/ ActiveTous(k, w) = [k EXCEPT !.etat = e, !.queue["activables"] = r]
  BY DEF ActiveTous
<1> HIDE DEF e, r
<1>2. Intactes([k EXCEPT !.etat = e, !.queue["activables"] = r], k)
  BY QueuesDuNoyau, ConstantesQueues DEF Noyaux, Intactes
<1>3. Intactes([k EXCEPT !.panique = "queue_add"], k)
  BY DEF Noyaux, Intactes
<1> QED
  BY <1>1, <1>2, <1>3

LEMMA FreeMourantQueueIntactes ==
    ASSUME NEW k \in Noyaux
    PROVE  Intactes(FreeMourantQueue(k), k)
<1> DEFINE m == Morts(k)
           e == [p \in Procs |-> IF p \in m THEN "LIBRE" ELSE k.etat[p]]
           pr == [p \in Procs |-> IF p \in m THEN 0 ELSE k.prio[p]]
           re == [p \in Procs |-> IF p \in m THEN 0 ELSE k.reveil[p]]
           su == [p \in Procs |-> IF p \in m THEN User ELSE k.suite[p]]
           fi == [p \in Procs |-> IF p \in m THEN <<>> ELSE k.fils[p]]
           pe == PeresApres(k, m)
           r == [k EXCEPT !.queue["mourants"] = <<>>, !.etat = e, !.prio = pr,
                          !.reveil = re, !.suite = su, !.fils = fi, !.pere = pe]
<1>1. \/ FreeMourantQueue(k) = k
      \/ FreeMourantQueue(k) = [k EXCEPT !.panique = "elu_libere"]
      \/ FreeMourantQueue(k) = r
  BY DEF FreeMourantQueue
<1> HIDE DEF e, pr, re, su, fi, pe
<1>2. Intactes(r, k)
  BY QueuesDuNoyau, ConstantesQueues DEF Noyaux, Intactes
<1>3. Intactes([k EXCEPT !.panique = "elu_libere"], k) /\ Intactes(k, k)
  BY DEF Noyaux, Intactes
<1> HIDE DEF r
<1> QED
  BY <1>1, <1>2, <1>3

LEMMA OrdonnanceurIntactes ==
    ASSUME NEW k \in Noyaux
    PROVE  Intactes(Ordonnanceur(k), k)
<1> DEFINE k1 == FreeMourantQueue(k)
           k2 == RangeElu(k1)
           p == QueueTop(k2.queue["activables"])
           k3 == Elit(k2, p)
<1>1. k1 \in Noyaux /\ Intactes(k1, k)
  BY FreeMourantQueueType, FreeMourantQueueIntactes
<1>2. Ordonnanceur(k) \in {k1, k2, k3}
  BY DEF Ordonnanceur
<1> HIDE DEF k1
<1>3. k2 \in Noyaux /\ Intactes(k2, k1)
  <2>1. k1.elu \in Procs
    BY <1>1 DEF Noyaux
  <2>2. k2 \in {k1, Enfile(k1, k1.elu, "mourants"), Active(k1, k1.elu)}
    BY DEF RangeElu
  <2>3. Intactes(k1, k1)
    BY DEF Intactes
  <2> HIDE DEF k2
  <2>4. Intactes(k2, k1)
    BY <1>1, <2>1, <2>2, <2>3, QueuesDuNoyau, EnfileIntactes, ActiveIntactes
  <2> QED
    BY <1>1, <2>4, RangeEluType DEF k2
<1> HIDE DEF k2, p
<1>4. Intactes(k3, k2)
  <2> DEFINE q == QueueOut(k2.queue["activables"])
  <2>1. k3 = [k2 EXCEPT !.queue["activables"] = q, !.etat[p] = "ELU", !.elu = p]
    BY DEF Elit
  <2> HIDE DEF q, k3
  <2> QED
    BY <1>3, <2>1, QueuesDuNoyau, ConstantesQueues DEF Noyaux, Intactes
<1> HIDE DEF k3
<1> QED
  BY <1>1, <1>2, <1>3, <1>4 DEF Intactes

\* The end of a process, and of the wait of its father.
LEMMA FinIntactes ==
    ASSUME NEW k \in Noyaux, NEW p \in Procs
    PROVE  /\ Intactes(Fini(k, p), k)
           /\ Intactes(ReveillePere(Fini(k, p), p), k)
<1> DEFINE k1 == Fini(k, p)
           c == k1.pere[p]
<1>1. k1 \in Noyaux /\ k1.queue = k.queue
  BY FiniType DEF Fini, Noyaux
<1>2. Intactes(k1, k)
  BY <1>1 DEF Intactes
<1> HIDE DEF k1
<1>3. c \in Procs \/ c = Nul
  BY <1>1 DEF Noyaux
<1>4. ReveillePere(k1, p) = k1 \/ (c \in Procs /\ ReveillePere(k1, p) = Active(k1, c))
  BY <1>3 DEF ReveillePere
<1> HIDE DEF c
<1>5. Intactes(ReveillePere(k1, p), k)
  BY <1>1, <1>2, <1>4, ActiveIntactes DEF Intactes
<1> QED
  BY <1>2, <1>5 DEF k1

LEMMA TourWaitpidIntactes ==
    ASSUME NEW k \in Noyaux, NEW cible \in Pids \cup {Nul}
    PROVE  Intactes(TourWaitpid(k, cible), k)
<1>1. CASE Finis(k, cible) # {}
  <2> DEFINE i == Min(Finis(k, cible))
             c == k.fils[k.elu][i]
             l == RemoveAt(k.fils[k.elu], i)
             k1 == [k EXCEPT !.fils[k.elu] = l, !.etat[c] = "MOURANT",
                             !.pere[c] = Nul, !.suite[k.elu] = User]
             k2 == Enfile(k1, c, "mourants")
  <2>1. /\ i \in 1 .. Len(k.fils[k.elu]) /\ c \in Procs
        /\ k.fils[k.elu] \in Seq(Pids) /\ k.elu \in Procs
    BY <1>1, FinisBornes, ConstantesProcs DEF Noyaux
  <2>2. TourWaitpid(k, cible) = FreeMourantQueue(k2)
    BY <1>1 DEF TourWaitpid, Recolte
  <2> HIDE DEF i
  <2>3. l \in Seq(Pids)
    BY <2>1, RemoveAtListe
  <2> HIDE DEF c, l
  <2>4. k1 \in Noyaux /\ k1.queue = k.queue
    BY <2>1, <2>3, UserType DEF Noyaux, Etats
  <2> HIDE DEF k1
  <2>5. k2 \in Noyaux /\ Intactes(k2, k1)
    BY <2>1, <2>4, EnfileType, EnfileIntactes, QueuesDuNoyau
  <2> HIDE DEF k2
  <2>6. Intactes(FreeMourantQueue(k2), k2)
    BY <2>5, FreeMourantQueueIntactes
  <2> QED
    BY <2>2, <2>4, <2>5, <2>6 DEF Intactes
<1>2. CASE Finis(k, cible) = {}
  <2> DEFINE s == [appel |-> "waitpid", arg |-> cible]
             k1 == [k EXCEPT !.etat[k.elu] = "ATTEND_FILS", !.suite[k.elu] = s]
  <2>1. s \in Suites
    BY DEF Suites
  <2>2. TourWaitpid(k, cible) = Ordonnanceur(k1)
    BY <1>2 DEF TourWaitpid
  <2> HIDE DEF s
  <2>3. k1 \in Noyaux /\ k1.queue = k.queue
    BY <2>1 DEF Noyaux, Etats
  <2> HIDE DEF k1
  <2>4. Intactes(Ordonnanceur(k1), k1)
    BY <2>3, OrdonnanceurIntactes
  <2> QED
    BY <2>2, <2>3, <2>4 DEF Intactes
<1> QED
  BY <1>1, <1>2

LEMMA VerifieReveilleIntactes ==
    ASSUME NEW k \in Noyaux, NEW t
    PROVE  Intactes(VerifieReveille(k, t), k)
<1> DEFINE q == k.queue["endormis"]
           w == Reveilles(k, t)
           r == SubSeq(q, Len(w) + 1, Len(q))
           k1 == [k EXCEPT !.queue["endormis"] = r]
<1>1. r \in Seq(Procs)
  <2>1. q \in Seq(Procs)
    BY ConstantesQueues DEF Noyaux
  <2>2. PICK m \in 0 .. Len(q) : w = SubSeq(q, 1, m) /\ Len(w) = m
    BY ReveillesCoupe
  <2> HIDE DEF w, q
  <2> QED
    BY <2>1, <2>2, ListeCoupee
<1>2. VerifieReveille(k, t) = ActiveTous(k1, w)
  BY DEF VerifieReveille
<1> HIDE DEF w, r
<1>3. k1 \in Noyaux /\ Intactes(k1, k)
  BY <1>1, QueuesDuNoyau, ConstantesQueues DEF Noyaux, Intactes
<1> HIDE DEF k1
<1>4. Intactes(ActiveTous(k1, w), k1)
  BY <1>3, ActiveTousIntactes
<1> QED
  BY <1>2, <1>3, <1>4 DEF Intactes

LEMMA FinTicIntactes ==
    ASSUME NEW k \in Noyaux, NEW cpt
    PROVE  Intactes(FinTic(k, cpt), k)
<1> DEFINE k1 == [k EXCEPT !.suite[k.elu] = User]
<1>1. k1 \in Noyaux /\ k1.queue = k.queue
  BY SuiteType, UserType DEF Noyaux
<1>2. FinTic(k, cpt) \in {k1, Ordonnanceur(k1)}
  BY DEF FinTic
<1> HIDE DEF k1
<1>3. Intactes(Ordonnanceur(k1), k1)
  BY <1>1, OrdonnanceurIntactes
<1> QED
  BY <1>1, <1>2, <1>3 DEF Intactes

\* The queues of the semaphores may have become shorter.
Raccourcies(r, k) == \A s \in Sids : Len(r.queue[s]) <= Len(k.queue[s])

LEMMA IntactesRaccourcies ==
    ASSUME NEW k \in Noyaux, NEW r, NEW d, Raccourcies(r, k), Intactes(d, r)
    PROVE  Raccourcies(d, k)
BY DEF Intactes, Raccourcies

LEMMA MemeTaille ==
    ASSUME NEW k \in Noyaux, NEW r, Intactes(r, k)
    PROVE  Raccourcies(r, k)
<1>1. \A s \in Sids : Len(k.queue[s]) \in Nat
  BY LenProperties, ConstantesQueues DEF Noyaux
<1> QED
  BY <1>1 DEF Intactes, Raccourcies

LEMMA HorsSemaphores ==
    ASSUME NEW k \in Noyaux, Regle(k), NEW p \in Procs, k.etat[p] # "ATTEND_SEMAPHORE"
    PROVE  \A s \in Sids : p \notin Range(k.queue[s])
<1> SUFFICES ASSUME NEW s \in Sids, p \in Range(k.queue[s]) PROVE FALSE
  OBVIOUS
<1>1. s \in QueuesDe(k.etat[p]) /\ k.etat[p] \in Etats
  BY ConstantesQueues DEF Regle, Chainage, Noyaux
<1> QED
  BY <1>1, NoyauAssumption DEF QueuesDe, Etats

\* A process that waits for no semaphore leaves none of their queues.
LEMMA DefileIntactes ==
    ASSUME NEW k \in Noyaux, NEW p \in Procs, \A s \in Sids : p \notin Range(k.queue[s])
    PROVE  Intactes(Defile(k, p), k)
<1> DEFINE f == CHOOSE g \in Queues : DansQueue(k, p, g)
           r == QueueDel(k.queue[f], p)
<1>1. CASE Chaine(k, p)
  <2>1. f \in Queues /\ p \in Range(k.queue[f])
    BY <1>1 DEF Chaine, DansQueue, Membres
  <2>2. Defile(k, p) = [k EXCEPT !.queue[f] = r]
    BY <1>1 DEF Defile
  <2>3. f \notin Sids
    BY <2>1
  <2> HIDE DEF f, r
  <2> QED
    BY <2>1, <2>2, <2>3, ConstantesQueues DEF Noyaux, Intactes
<1>2. CASE ~ Chaine(k, p)
  <2>1. Defile(k, p) = [k EXCEPT !.panique = "queue_del"]
    BY <1>2 DEF Defile
  <2> QED
    BY <2>1 DEF Noyaux, Intactes
<1> QED
  BY <1>1, <1>2

LEMMA ReplaceIntactes ==
    ASSUME NEW k \in Noyaux, NEW p \in Procs, NEW f, f \notin Sids,
           \A s \in Sids : p \notin Range(k.queue[s])
    PROVE  Intactes(Replace(k, p, f), k)
<1>1. Defile(k, p) \in Noyaux /\ Intactes(Defile(k, p), k)
  BY DefileType, DefileIntactes
<1>2. Intactes(Enfile(Defile(k, p), p, f), Defile(k, p))
  BY <1>1, EnfileIntactes
<1> QED
  BY <1>1, <1>2 DEF Intactes, Replace

LEMMA DefileRaccourcies ==
    ASSUME NEW k \in Noyaux, NEW p \in Procs
    PROVE  Raccourcies(Defile(k, p), k)
<1> DEFINE f == CHOOSE g \in Queues : DansQueue(k, p, g)
           i == CHOOSE j \in 1 .. Len(k.queue[f]) : k.queue[f][j] = p
           r == QueueDel(k.queue[f], p)
           k1 == [k EXCEPT !.queue[f] = r]
<1>1. CASE Chaine(k, p)
  <2>1. f \in Queues /\ p \in Range(k.queue[f])
    BY <1>1 DEF Chaine, DansQueue, Membres
  <2>2. Defile(k, p) = k1
    BY <1>1 DEF Defile
  <2>3. r = RemoveAt(k.queue[f], i)
    BY DEF QueueDel
  <2> HIDE DEF f
  <2>4. k.queue[f] \in Seq(Procs) /\ k.queue \in [Queues -> Seq(Procs)]
    BY <2>1 DEF Noyaux
  <2>5. \E j \in 1 .. Len(k.queue[f]) : k.queue[f][j] = p
    BY <2>1, <2>4, RangeEquality
  <2>6. i \in 1 .. Len(k.queue[f])
    BY <2>5
  <2> HIDE DEF i, r
  <2>7. Len(r) = Len(k.queue[f]) - 1
    BY <2>3, <2>4, <2>6, RemoveAtElements
  <2>8. \A s \in Sids : s \in Queues /\ Len(k.queue[s]) \in Nat
    BY <2>4, LenProperties, ConstantesQueues
  <2>9. \A s \in Sids : k1.queue[s] = IF s = f THEN r ELSE k.queue[s]
    BY <2>1, <2>4, <2>8 DEF Noyaux
  <2> HIDE DEF k1
  <2> QED
    BY <2>2, <2>7, <2>8, <2>9 DEF Raccourcies
<1>2. CASE ~ Chaine(k, p)
  <2>1. Defile(k, p) = [k EXCEPT !.panique = "queue_del"]
    BY <1>2 DEF Defile
  <2>2. Intactes([k EXCEPT !.panique = "queue_del"], k)
    BY DEF Noyaux, Intactes
  <2> QED
    BY <2>1, <2>2, MemeTaille
<1> QED
  BY <1>1, <1>2

LEMMA KillRaccourcies ==
    ASSUME NEW k \in Noyaux, NEW p \in Procs
    PROVE  LET d == Defile(k, p)
           IN  /\ Raccourcies(d, k)
               /\ Raccourcies(FreeMourantQueue(Enfile(Fini(d, p), p, "mourants")), k)
               /\ Raccourcies(FreeMourantQueue(ReveillePere(Fini(d, p), p)), k)
<1> DEFINE d == Defile(k, p)
           e == Fini(d, p)
           m == Enfile(e, p, "mourants")
           a == ReveillePere(e, p)
<1>1. d \in Noyaux /\ Raccourcies(d, k)
  BY DefileType, DefileRaccourcies
<1> HIDE DEF d
<1>2. e \in Noyaux /\ Intactes(e, d) /\ Intactes(a, d)
  BY <1>1, FiniType, FinIntactes
<1> HIDE DEF e
<1>3. m \in Noyaux /\ a \in Noyaux /\ Intactes(m, e)
  BY <1>2, EnfileType, ReveillePereType, EnfileIntactes, QueuesDuNoyau, ConstantesQueues
<1> HIDE DEF m, a
<1>4. Intactes(FreeMourantQueue(m), m) /\ Intactes(FreeMourantQueue(a), a)
  BY <1>3, FreeMourantQueueIntactes
<1>5. Intactes(FreeMourantQueue(m), d) /\ Intactes(FreeMourantQueue(a), d)
  BY <1>2, <1>3, <1>4 DEF Intactes
<1> QED
  BY <1>1, <1>5, IntactesRaccourcies DEF d, e, m, a

LEMMA DevientRaccourcies ==
    ASSUME TypeNoyau, NEW k, Raccourcies(k, Courant), Devient(k)
    PROVE  \A s \in Sids : Len(queue'[s]) <= Len(queue[s])
<1>1. Courant.queue = queue
  BY CourantChamps
<1>2. queue' = k.queue \/ queue' = queue
  BY DEF Devient
<1>3. \A s \in Sids : Len(queue[s]) \in Nat
  BY LenProperties, ConstantesQueues DEF TypeNoyau
<1> QED
  BY <1>1, <1>2, <1>3 DEF Raccourcies

\* Only the kill of a process that waits takes one out of their queues.
TueUnAttendant == \E p \in Pids : KillAutre(p) /\ etat[p] = "ATTEND_SEMAPHORE"

LEMMA DevientIntactes ==
    ASSUME NEW k, Intactes(k, Courant), Devient(k)
    PROVE  \A s \in Sids : queue'[s] = queue[s]
BY CourantChamps DEF Devient, Intactes

LEMMA ProcessusIntactes ==
    ASSUME TypeNoyau, Regle(Courant), ProcessusNext
    PROVE  (\A s \in Sids : queue'[s] = queue[s]) \/ TueUnAttendant
<1> DEFINE K == Courant
           But == (\A s \in Sids : queue'[s] = queue[s]) \/ TueUnAttendant
<1>1. /\ K \in Noyaux /\ Regle(K) /\ K.elu = elu /\ K.etat = etat /\ K.queue = queue
      /\ elu \in Procs
  BY CourantType, CourantChamps DEF TypeNoyau
<1>2. ASSUME NEW k, Intactes(k, K), Devient(k) PROVE But
  BY <1>2, DevientIntactes
<1>4. ASSUME NEW k \in Noyaux, Intactes(k, K),
             Devient(Ordonnanceur(k)) \/ Devient(k)
      PROVE  But
  <2>1. Intactes(Ordonnanceur(k), k)
    BY OrdonnanceurIntactes
  <2>2. Intactes(Ordonnanceur(k), K)
    BY <1>4, <2>1 DEF Intactes
  <2> QED
    BY <1>2, <1>4, <2>2
<1> HIDE DEF K, But
<1>5. ASSUME NEW pr \in 1 .. PrioMax, Start(pr) PROVE But
  <2>1. PICK p \in Pids :
           LET k == Enfile([K EXCEPT !.etat[p] = "ACTIVABLE",
                                     !.prio[p] = pr,
                                     !.pere[p] = elu,
                                     !.fils[elu] = <<p>> \o @],
                           p, "activables")
           IN  Devient(IF pr > prio[elu] THEN Ordonnanceur(k) ELSE k)
    BY <1>5 DEF Start, K
  <2> DEFINE l == <<p>> \o K.fils[elu]
             k0 == [K EXCEPT !.etat[p] = "ACTIVABLE", !.prio[p] = pr,
                             !.pere[p] = elu, !.fils[elu] = l]
             k == Enfile(k0, p, "activables")
  <2>2. p \in Procs /\ elu \in Procs \cup {Nul} /\ pr \in 0 .. PrioMax
        /\ "ACTIVABLE" \in Etats
    BY <1>1, ConstantesProcs, NoyauAssumption DEF Etats
  <2>3. l \in Seq(Pids)
    BY <1>1 DEF Noyaux
  <2>4. Devient(IF pr > prio[elu] THEN Ordonnanceur(k) ELSE k)
    BY <2>1 DEF l
  <2> HIDE DEF l
  <2>5. k0 \in Noyaux /\ k0.queue = K.queue
    BY <1>1, <2>2, <2>3 DEF Noyaux
  <2> HIDE DEF k0
  <2>6. k \in Noyaux /\ Intactes(k, k0)
    BY <2>2, <2>5, EnfileType, EnfileIntactes, QueuesDuNoyau
  <2>7. Intactes(k, K)
    BY <2>5, <2>6 DEF Intactes
  <2> HIDE DEF k
  <2> QED
    BY <1>4, <2>4, <2>6, <2>7
<1>6. ASSUME Exit \/ KillElu PROVE But
  <2> DEFINE k == Fini(K, elu)
             a == ReveillePere(k, elu)
  <2>1. Devient(Ordonnanceur(a)) \/ Devient(Ordonnanceur(k))
    BY <1>6 DEF Exit, KillElu, K
  <2>2. k \in Noyaux /\ a \in Noyaux /\ Intactes(k, K) /\ Intactes(a, K)
    BY <1>1, FiniType, ReveillePereType, FinIntactes
  <2> HIDE DEF k, a
  <2> QED
    BY <1>4, <2>1, <2>2
<1>7. ASSUME NEW p \in Pids, KillAutre(p) PROVE But
  <2> DEFINE d == Defile(K, p)
             e == Fini(d, p)
             m == Enfile(e, p, "mourants")
             a == ReveillePere(e, p)
  <2>1. CASE etat[p] = "ATTEND_SEMAPHORE"
    BY <1>7, <2>1 DEF But, TueUnAttendant
  <2>2. CASE etat[p] # "ATTEND_SEMAPHORE"
    <3>1. Devient(d) \/ Devient(FreeMourantQueue(m)) \/ Devient(FreeMourantQueue(a))
      BY <1>7 DEF KillAutre, K
    <3>2. p \in Procs /\ \A s \in Sids : p \notin Range(K.queue[s])
      BY <1>1, <2>2, ConstantesProcs, HorsSemaphores
    <3>3. d \in Noyaux /\ Intactes(d, K)
      BY <1>1, <3>2, DefileType, DefileIntactes
    <3> HIDE DEF d
    <3>4. e \in Noyaux /\ Intactes(e, d) /\ Intactes(a, d)
      BY <3>2, <3>3, FiniType, FinIntactes
    <3> HIDE DEF e
    <3>5. m \in Noyaux /\ a \in Noyaux /\ Intactes(m, e)
      BY <3>2, <3>4, EnfileType, ReveillePereType, EnfileIntactes, QueuesDuNoyau,
         ConstantesQueues
    <3> HIDE DEF m, a
    <3>6. Intactes(FreeMourantQueue(m), m) /\ Intactes(FreeMourantQueue(a), a)
      BY <3>5, FreeMourantQueueIntactes
    <3>7. Intactes(FreeMourantQueue(m), K) /\ Intactes(FreeMourantQueue(a), K)
      BY <3>3, <3>4, <3>5, <3>6 DEF Intactes
    <3> QED
      BY <1>2, <3>1, <3>3, <3>7
  <2> QED
    BY <2>1, <2>2
<1>8. ASSUME NEW cible \in Pids \cup {Nul}, Devient(TourWaitpid(K, cible)) PROVE But
  BY <1>1, <1>2, <1>8, TourWaitpidIntactes
<1>9. ASSUME NEW cible \in Pids \cup {Nul}, Waitpid(cible) PROVE But
  BY <1>8, <1>9 DEF Waitpid, K
<1>10. ASSUME RepriseWaitpid PROVE But
  <2>1. suite[elu].arg \in Pids \cup {Nul}
    BY <1>1 DEF TypeNoyau, Suites
  <2> QED
    BY <1>8, <1>10, <2>1 DEF RepriseWaitpid, K
<1>11. ASSUME NEW p \in Pids, NEW pr \in 1 .. PrioMax, Chprio(p, pr) PROVE But
  <2> DEFINE k == [K EXCEPT !.prio[p] = pr]
             f == CHOOSE g \in Fids : DansQueue(k, p, g)
             k1 == Replace(k, p, "activables")
             k2 == Replace(k, p, f)
  <2>1. \/ Devient(Ordonnanceur(k)) \/ Devient(k)
        \/ etat[p] = "ACTIVABLE" /\ (Devient(Ordonnanceur(k1)) \/ Devient(k1))
        \/ etat[p] = "ATTEND_FILE" /\ Devient(k2)
    BY <1>11 DEF Chprio, K
  <2>2. p \in Procs /\ pr \in 0 .. PrioMax
    BY ConstantesProcs, NoyauAssumption
  <2>3. k \in Noyaux /\ k.queue = K.queue /\ k.etat = K.etat /\ Intactes(k, K)
    BY <1>1, <2>2 DEF Noyaux, Intactes
  <2> HIDE DEF k
  <2>4. etat[p] # "ATTEND_SEMAPHORE" => \A s \in Sids : p \notin Range(k.queue[s])
    BY <1>1, <2>2, <2>3, HorsSemaphores
  <2>5. ASSUME etat[p] = "ACTIVABLE" PROVE k1 \in Noyaux /\ Intactes(k1, K)
    <3>1. k1 \in Noyaux /\ Intactes(k1, k)
      BY <2>2, <2>3, <2>4, <2>5, ReplaceType, ReplaceIntactes, QueuesDuNoyau
    <3> QED
      BY <2>3, <3>1 DEF Intactes
  <2>6. ASSUME etat[p] = "ATTEND_FILE" PROVE Intactes(k2, K) \/ k2.panique # "non"
    <3>1. CASE Chaine(k, p)
      <4>1. PICK g \in Queues : DansQueue(k, p, g)
        BY <3>1 DEF Chaine
      <4>2. g \in Fids
        BY <1>1, <2>2, <2>3, <2>6, <4>1, QueuesDeValeurs DEF Regle, Chainage, DansQueue, Membres
      <4>3. f \in Fids
        BY <4>1, <4>2
      <4> HIDE DEF f
      <4>4. Intactes(k2, k)
        BY <2>2, <2>3, <2>4, <2>6, <4>3, ReplaceIntactes, QueuesDuNoyau
      <4> QED
        BY <2>3, <4>4 DEF Intactes
    <3>2. CASE ~ Chaine(k, p)
      <4> DEFINE d == [k EXCEPT !.panique = "queue_del"]
      <4>1. k2 = Enfile(d, p, f) /\ d \in Noyaux /\ d.panique = "queue_del"
        BY <2>3, <3>2 DEF Replace, Defile, Noyaux, Paniques
      <4> HIDE DEF d, f
      <4> QED
        BY <4>1 DEF Enfile, Noyaux
    <3> QED
      BY <3>1, <3>2
  <2>7. ASSUME k2.panique # "non", Devient(k2) PROVE \A s \in Sids : queue'[s] = queue[s]
    BY <2>7 DEF Devient
  <2> HIDE DEF k1, k2
  <2> QED
    BY <1>2, <1>4, <2>1, <2>3, <2>5, <2>6, <2>7 DEF But
<1>12. ASSUME NEW t \in Dates, WaitClock(t) PROVE But
  <2> DEFINE r == [K EXCEPT !.etat[elu] = "ENDORMI", !.reveil[elu] = t]
             s == Enfile(r, elu, "endormis")
  <2>1. Devient(Ordonnanceur(s))
    BY <1>12 DEF WaitClock, K
  <2>2. r \in Noyaux /\ r.queue = K.queue
    BY <1>1 DEF Noyaux, Etats
  <2> HIDE DEF r
  <2>3. s \in Noyaux /\ Intactes(s, r)
    BY <1>1, <2>2, EnfileType, EnfileIntactes, QueuesDuNoyau
  <2>4. Intactes(s, K)
    BY <2>2, <2>3 DEF Intactes
  <2> HIDE DEF s
  <2> QED
    BY <1>4, <2>1, <2>3, <2>4
<1> QED
  BY <1>5, <1>6, <1>7, <1>9, <1>10, <1>11, <1>12 DEF ProcessusNext, But

LEMMA HorlogeIntactes ==
    ASSUME InvDiscipline, Next
    PROVE  (\A s \in Sids : queue'[s] = queue[s]) \/ TueUnAttendant
<1> DEFINE K == Courant
           But == \A s \in Sids : queue'[s] = queue[s]
<1>1. TypeNoyau /\ Regle(K) /\ K \in Noyaux /\ elu \in Procs
  BY CourantType DEF InvDiscipline, TypeOK, TypeNoyau
<1>2. ASSUME NEW k, Intactes(k, K), Devient(k) PROVE But
  BY <1>2, DevientIntactes
<1>3. CASE ProcessusNext
  BY <1>1, <1>3, ProcessusIntactes
<1>4. CASE Tic
  <2> DEFINE k == VerifieReveille(K, TicSuivant)
             s == [appel |-> "tic", arg |-> Nul]
             k1 == [k EXCEPT !.suite[elu] = s]
  <2>1. Devient(Ordonnanceur(k1)) \/ Devient(FinTic(k, CptSuivant))
    BY <1>4 DEF Tic
  <2> HIDE DEF K
  <2>2. k \in Noyaux /\ Intactes(k, K)
    BY <1>1, VerifieReveilleType, VerifieReveilleIntactes
  <2> HIDE DEF k
  <2>3. s \in Suites
    BY DEF Suites
  <2> HIDE DEF s
  <2>4. k1 \in Noyaux /\ k1.queue = k.queue
    BY <1>1, <2>2, <2>3, SuiteType DEF Noyaux
  <2> HIDE DEF k1
  <2>5. Intactes(Ordonnanceur(k1), k1) /\ Intactes(FinTic(k, CptSuivant), k)
    BY <2>2, <2>4, OrdonnanceurIntactes, FinTicIntactes
  <2>6. Intactes(Ordonnanceur(k1), K) /\ Intactes(FinTic(k, CptSuivant), K)
    BY <2>2, <2>4, <2>5 DEF Intactes
  <2> QED
    BY <1>2, <2>1, <2>6
<1>5. CASE RepriseTic
  BY <1>1, <1>2, <1>5, FinTicIntactes DEF RepriseTic
<1> QED
  BY <1>3, <1>4, <1>5 DEF Next

LEMMA HorlogeRaccourcit ==
    ASSUME InvDiscipline, Next
    PROVE  \A s \in Sids : Len(queue'[s]) <= Len(queue[s])
<1>1. TypeNoyau /\ Courant \in Noyaux /\ queue \in [Queues -> Seq(Procs)]
  BY CourantType DEF InvDiscipline, TypeOK, TypeNoyau
<1>2. CASE \A s \in Sids : queue'[s] = queue[s]
  <2>1. \A s \in Sids : Len(queue[s]) \in Nat
    BY <1>1, LenProperties, ConstantesQueues
  <2> QED
    BY <1>2, <2>1
<1>3. ASSUME NEW p \in Pids, KillAutre(p)
      PROVE  \A s \in Sids : Len(queue'[s]) <= Len(queue[s])
  <2> DEFINE d == Defile(Courant, p)
             m == FreeMourantQueue(Enfile(Fini(d, p), p, "mourants"))
             a == FreeMourantQueue(ReveillePere(Fini(d, p), p))
  <2>1. Devient(d) \/ Devient(m) \/ Devient(a)
    BY <1>3 DEF KillAutre
  <2>2. Raccourcies(d, Courant) /\ Raccourcies(m, Courant) /\ Raccourcies(a, Courant)
    BY <1>1, ConstantesProcs, KillRaccourcies
  <2> HIDE DEF d, m, a
  <2> QED
    BY <1>1, <2>1, <2>2, DevientRaccourcies
<1> QED
  BY <1>2, <1>3, HorlogeIntactes DEF TueUnAttendant
-----------------------------------------------------------------------------
\* The counter bounds the queue, also when processes that wait are killed.

LEMMA MaxZero ==
    ASSUME NEW c \in Int
    PROVE  Max({0, c}) = IF c > 0 THEN c ELSE 0
<1> DEFINE A == {0, c}
           m == Max(A)
<1>1. \E x \in A : \A y \in A : x >= y
  OBVIOUS
<1>2. m \in A /\ \A y \in A : m >= y
  BY <1>1 DEF Max
<1> HIDE DEF m
<1>3. m = IF c > 0 THEN c ELSE 0
  BY <1>2
<1> QED
  BY <1>3 DEF m

LEMMA MinDeux ==
    ASSUME NEW a \in Nat, NEW b \in Nat
    PROVE  Min({a, b}) = IF a <= b THEN a ELSE b
<1> DEFINE A == {a, b}
           m == Min(A)
<1>1. m \in A /\ \A y \in A : m <= y
  BY MinEstPlusPetit
<1> HIDE DEF m
<1>2. m = IF a <= b THEN a ELSE b
  BY <1>1
<1> QED
  BY <1>2 DEF m

\* The invariant for one semaphore, with q the length of its queue, c its
\* counter and e whether it exists.
Borne(q, c, e) == q <= (IF c < 0 THEN -c ELSE 0) /\ (~e => q = 0)

LEMMA CompteBorneFileParTaille ==
    TypeSemaphore =>
        (CompteBorneFile <=>
            \A s \in Sids : Borne(Len(queue[s]), count[s], s \in tableauSem))
<1> SUFFICES ASSUME TypeSemaphore
             PROVE  CompteBorneFile <=>
                      \A s \in Sids : Borne(Len(queue[s]), count[s], s \in tableauSem)
  OBVIOUS
<1>1. ASSUME NEW s \in Sids
      PROVE  (/\ Len(queue[s]) <= Max({0, -count[s]})
              /\ s \notin tableauSem => queue[s] = <<>>)
             <=> Borne(Len(queue[s]), count[s], s \in tableauSem)
  <2>1. queue[s] \in Seq(Procs) /\ count[s] \in Int
    BY ConstantesQueues, SemaphoreAssumption
       DEF TypeSemaphore, TypeOK, TypeNoyau, Shorts, ShortMin
  <2>2. Max({0, -count[s]}) = IF count[s] < 0 THEN -count[s] ELSE 0
    BY <2>1, MaxZero
  <2>3. Len(queue[s]) = 0 <=> queue[s] = <<>>
    BY <2>1
  <2> QED
    BY <2>2, <2>3 DEF Borne
<1> QED
  BY <1>1 DEF CompteBorneFile

\* The same after a step.
LEMMA CompteBorneFileApres ==
    ASSUME TypeSemaphore'
    PROVE  CompteBorneFile' <=>
             \A s \in Sids : Borne(Len(queue'[s]), count'[s], s \in tableauSem')
<1>1. (TypeSemaphore =>
          (CompteBorneFile <=>
             \A s \in Sids : Borne(Len(queue[s]), count[s], s \in tableauSem)))'
  BY CompteBorneFileParTaille, PTL
<1> QED
  BY <1>1

\* The queues after some of the processes of one have been woken.
LEMMA LibereTaille ==
    ASSUME TypeSemaphore, Regle(Courant), panique = "non", NEW s \in Sids,
           NEW n \in 0 .. Len(queue[s]), NEW st,
           Libere(s, SubSeq(Attendants(s), 1, n), st)
    PROVE  LET w == SubSeq(Attendants(s), 1, n)
           IN  /\ queue'[s] = SubSeq(queue[s], 1, Len(queue[s]) - n)
               /\ Len(queue'[s]) = Len(queue[s]) - n
               /\ \A t \in Sids \ {s} : queue'[t] = queue[t]
               /\ suite' = suite
               /\ \A p \in Procs :
                     etat'[p] = IF p \in Range(w) THEN "ACTIVABLE" ELSE etat[p]
<1> DEFINE w == SubSeq(Attendants(s), 1, n)
           K == Courant
           l == SubSeq(K.queue[s], 1, Len(K.queue[s]) - Len(w))
           k1 == [K EXCEPT !.queue[s] = l]
           r == ActiveTous(k1, w)
<1>1. /\ K \in Noyaux /\ K.queue = queue /\ K.panique = "non" /\ Regle(K)
      /\ K.etat = etat /\ K.suite = suite
  BY CourantType, CourantChamps DEF TypeSemaphore, TypeOK
<1>2. w = SubSeq(Reverse(K.queue[s]), 1, n)
  BY <1>1 DEF Attendants
<1>3. Devient(r)
  BY DEF Libere
<1>4. queue[s] \in Seq(Procs) /\ queue \in [Queues -> Seq(Procs)] /\ s \in Queues
  BY <1>1, ConstantesQueues DEF Noyaux
<1>5. Len(w) = n
  BY <1>1, <1>2, <1>4, ListeRetournee
<1> HIDE DEF w, K
<1>6. r.panique = "non"
  <2> DEFINE v == SubSeq(Reverse(K.queue[s]), 1, n)
             d == ActiveTous([K EXCEPT !.queue[s] = SubSeq(@, 1, Len(@) - Len(v))], v)
  <2>1. r = d
    BY <1>2
  <2> HIDE DEF r
  <2>2. n \in 0 .. Len(K.queue[s])
    BY <1>1
  <2>3. d.panique = K.panique
    BY <1>1, <2>2, ReveilAttendants
  <2> HIDE DEF d
  <2> QED
    BY <1>1, <2>1, <2>3
<1>7. l = SubSeq(queue[s], 1, Len(queue[s]) - n)
  BY <1>1, <1>5
<1> HIDE DEF l
<1>8. Len(l) = Len(queue[s]) - n /\ l \in Seq(Procs)
  <2>1. Len(queue[s]) \in Nat
    BY <1>4, LenProperties
  <2> QED
    BY <1>4, <1>7, <2>1, SubSeqProperties
<1>9. /\ k1 \in Noyaux /\ k1.etat = etat /\ k1.suite = suite /\ k1.panique = "non"
      /\ \A t \in Sids : k1.queue[t] = IF t = s THEN l ELSE queue[t]
  BY <1>1, <1>4, <1>8, ConstantesQueues DEF Noyaux
<1> HIDE DEF k1
<1>10. Intactes(r, k1)
  BY <1>9, ActiveTousIntactes
<1>11. /\ r.suite = k1.suite
       /\ \A p \in Procs : r.etat[p] = IF p \in Range(w) THEN "ACTIVABLE" ELSE k1.etat[p]
  <2>1. ~ \E p \in Range(w) : Chaine(k1, p)
    BY <1>6, <1>9 DEF ActiveTous, Noyaux
  <2> QED
    BY <1>9, <2>1 DEF ActiveTous, Noyaux
<1>12. queue' = r.queue /\ suite' = r.suite /\ etat' = r.etat
  BY <1>3, <1>6 DEF Devient
<1> HIDE DEF r
<1>13. queue'[s] = l /\ \A t \in Sids \ {s} : queue'[t] = queue[t]
  BY <1>9, <1>10, <1>12 DEF Intactes
<1>14. suite' = suite
       /\ \A p \in Procs : etat'[p] = IF p \in Range(w) THEN "ACTIVABLE" ELSE etat[p]
  BY <1>9, <1>11, <1>12
<1> QED
  BY <1>7, <1>8, <1>13, <1>14 DEF w

\* The queues after wait(), which may have panicked.
LEMMA WaitTaille ==
    ASSUME TypeSemaphore, NEW s \in Sids, Wait(s)
    PROVE  /\ \/ Len(queue'[s]) <= Len(queue[s])
              \/ count'[s] < 0 /\ Len(queue'[s]) = Len(queue[s]) + 1
           /\ \A t \in Sids \ {s} : queue'[t] = queue[t]
<1> DEFINE K == Courant
           x == [appel |-> "wait", arg |-> Nul]
           k == [K EXCEPT !.etat[elu] = "ATTEND_SEMAPHORE", !.suite[elu] = x]
           l == QueueAdd(K.queue[s], elu, Cle(k, s))
           r == Enfile(k, elu, s)
<1>1. K \in Noyaux /\ K.queue = queue /\ elu \in Procs
  BY CourantType, CourantChamps DEF TypeSemaphore, TypeOK, TypeNoyau
<1>2. /\ queue[s] \in Seq(Procs) /\ Len(queue[s]) \in Nat
      /\ queue \in [Queues -> Seq(Procs)] /\ Sids \subseteq Queues
  <2>1. queue \in [Queues -> Seq(Procs)] /\ Sids \subseteq Queues
    BY <1>1, ConstantesQueues DEF Noyaux
  <2> QED
    BY <2>1, LenProperties
<1>3. CASE count'[s] < 0
  <2>1. Devient(Ordonnanceur(r))
    BY <1>3 DEF Wait
  <2>2. x \in Suites /\ "ATTEND_SEMAPHORE" \in Etats
    BY DEF Suites, Etats
  <2> HIDE DEF x, K
  <2>3. k \in Noyaux /\ k.queue = queue
    BY <1>1, <2>2 DEF Noyaux
  <2>4. \/ r = [k EXCEPT !.panique = "queue_add"] \/ r = [k EXCEPT !.queue[s] = l]
    BY <1>1, <2>3 DEF Enfile
  <2> HIDE DEF k, r
  <2>5. Len(l) = Len(queue[s]) + 1
    <3>1. Cle(k, s) \in [Procs -> Nat]
      BY <2>3, CleType
    <3>2. Place(queue[s], elu, Cle(k, s)) \in 1 .. Len(queue[s]) + 1
      BY <1>1, <1>2, <3>1, PlaceBornes
    <3>3. Inseree(l, queue[s], Place(queue[s], elu, Cle(k, s)), elu)
      BY <1>1, <1>2, <3>2, InsertAtElements DEF QueueAdd
    <3> QED
      BY <3>3 DEF Inseree
  <2> HIDE DEF l
  <2>6. /\ Len(r.queue[s]) <= Len(queue[s]) \/ Len(r.queue[s]) = Len(queue[s]) + 1
        /\ \A t \in Sids \ {s} : r.queue[t] = queue[t]
    <3>1. r.queue = queue \/ r.queue = [queue EXCEPT ![s] = l]
      BY <2>3, <2>4 DEF Noyaux
    <3>2. \A t \in Sids : [queue EXCEPT ![s] = l][t] = IF t = s THEN l ELSE queue[t]
      BY <1>2
    <3>3. Len(queue[s]) <= Len(queue[s])
      BY <1>2
    <3> QED
      BY <2>5, <3>1, <3>2, <3>3
  <2>7. r \in Noyaux
    <3>1. Enfile(k, elu, s) \in Noyaux
      BY <1>1, <2>3, EnfileType
    <3> QED
      BY <3>1 DEF r
  <2>8. Intactes(Ordonnanceur(r), r)
    BY <2>7, OrdonnanceurIntactes
  <2>9. queue' = queue \/ queue' = Ordonnanceur(r).queue
    BY <2>1 DEF Devient
  <2> QED
    BY <1>2, <1>3, <2>6, <2>8, <2>9 DEF Intactes
<1>4. CASE ~ (count'[s] < 0)
  <2>1. queue' = queue
    BY <1>4 DEF Wait, noyauVars
  <2> QED
    BY <1>2, <2>1
<1> QED
  BY <1>3, <1>4

\* The inductive invariant of the counters, with any programs.
InvCompte == InvSemaphore /\ CompteBorneFile

LEMMA CompteSemaphoreStep ==
    ASSUME InvCompte, InvSemaphore', SemaphoreNext
    PROVE  CompteBorneFile'
<1> DEFINE B(s) == Borne(Len(queue[s]), count[s], s \in tableauSem)
           B1(s) == Borne(Len(queue'[s]), count'[s], s \in tableauSem')
<1>1. /\ TypeSemaphore /\ TypeOK /\ Regle(Courant) /\ count \in [Sids -> Shorts]
      /\ \A s \in Sids : B(s)
  BY CompteBorneFileParTaille DEF InvCompte, InvSemaphore, TypeSemaphore
<1>2. /\ ShortMax \in Nat \ {0} /\ Shorts = -ShortMax - 1 .. ShortMax
  BY SemaphoreAssumption DEF Shorts, ShortMin
<1>3. \A s \in Sids : count[s] \in Int /\ Len(queue[s]) \in Nat
  <2>1. \A s \in Sids : queue[s] \in Seq(Procs) /\ count[s] \in Int
    BY <1>1, <1>2, ConstantesQueues DEF TypeOK, TypeNoyau
  <2> QED
    BY <2>1, LenProperties
<1>4. SUFFICES \A s \in Sids : B1(s)
  <2>1. TypeSemaphore'
    BY DEF InvSemaphore
  <2>2. CompteBorneFile' <=> \A s \in Sids : B1(s)
    BY <2>1, CompteBorneFileApres
  <2> QED
    BY <2>2
<1>5. ASSUME NEW s \in Sids, B1(s),
             \A t \in Sids \ {s} : /\ queue'[t] = queue[t] /\ count'[t] = count[t]
                                   /\ t \in tableauSem' <=> t \in tableauSem
      PROVE  \A t \in Sids : B1(t)
  BY <1>1, <1>5
<1>6. ASSUME NEW s \in Sids
      PROVE  /\ Len(queue[s]) \in 0 .. Len(queue[s])
             /\ SubSeq(Attendants(s), 1, Len(queue[s])) = Attendants(s)
  <2>1. queue[s] \in Seq(Procs)
    BY <1>1, ConstantesQueues DEF TypeOK, TypeNoyau
  <2> QED
    BY <1>3, <2>1, TousAttendants DEF Attendants
<1>7. ASSUME NEW s \in Sids, NEW n \in 0 .. ShortMax, Screate(s, n)
      PROVE  \A t \in Sids : B1(t)
  <2>1. /\ queue' = queue /\ s \notin tableauSem
        /\ tableauSem' = tableauSem \cup {s} /\ count' = [count EXCEPT ![s] = n]
    BY <1>7 DEF Screate, vars, noyauVars
  <2>2. B1(s)
    BY <1>1, <1>2, <1>3, <2>1 DEF Borne
  <2> HIDE DEF B1
  <2> QED
    BY <1>1, <1>5, <2>1, <2>2
<1>8. ASSUME NEW s \in Sids, NEW n \in 0 .. ShortMax, NEW st,
             Libere(s, Attendants(s), st), panique = "non",
             count' = [count EXCEPT ![s] = n], tableauSem' \in {tableauSem, tableauSem \ {s}}
      PROVE  \A t \in Sids : B1(t)
  <2>1. Libere(s, SubSeq(Attendants(s), 1, Len(queue[s])), st)
    BY <1>6, <1>8
  <2>2. /\ Len(queue'[s]) = Len(queue[s]) - Len(queue[s])
        /\ \A t \in Sids \ {s} : queue'[t] = queue[t]
    BY <1>1, <1>6, <1>8, <2>1, LibereTaille
  <2>3. B1(s)
    BY <1>1, <1>2, <1>3, <1>8, <2>2 DEF Borne
  <2> HIDE DEF B1
  <2> QED
    BY <1>1, <1>5, <1>8, <2>2, <2>3
<1>9. ASSUME NEW s \in Sids, Sdelete(s) PROVE \A t \in Sids : B1(t)
  <2>1. 0 \in 0 .. ShortMax
    BY <1>2
  <2> QED
    BY <1>8, <1>9, <2>1 DEF Sdelete, EnModeUser
<1>10. ASSUME NEW s \in Sids, NEW n \in 0 .. ShortMax, Sreset(s, n)
       PROVE  \A t \in Sids : B1(t)
  BY <1>8, <1>10 DEF Sreset, EnModeUser
<1>11. ASSUME NEW s \in Sids, NEW n \in 1 .. ShortMax, Signaln(s, n)
       PROVE  \A t \in Sids : B1(t)
  <2>1. CASE Len(queue[s]) < Reveils(s, n)
    <3>1. queue' = queue /\ count' = count /\ tableauSem' = tableauSem
      <4> DEFINE k == [Courant EXCEPT !.panique = "null"]
      <4>1. Devient(k) /\ count' = count /\ tableauSem' = tableauSem
        BY <1>11, <2>1 DEF Signaln
      <4>2. k.panique = "null"
        BY DEF Courant
      <4> HIDE DEF k
      <4> QED
        BY <4>1, <4>2 DEF Devient
    <3> QED
      BY <1>1, <3>1
  <2>2. CASE ~ (Len(queue[s]) < Reveils(s, n))
    <3> DEFINE m == Reveils(s, n)
               c == count[s]
    <3>1. /\ Libere(s, SubSeq(Attendants(s), 1, m), 1) /\ panique = "non"
          /\ s \in tableauSem /\ tableauSem' = tableauSem
          /\ count' = [count EXCEPT ![s] = c + n]
      BY <1>11, <2>2 DEF Signaln, EnModeUser
    <3>2. m = IF c >= 0 THEN 0 ELSE IF n <= -c THEN n ELSE -c
      <4>1. c \in Int /\ n \in Nat /\ -c \in Int
        BY <1>2, <1>3
      <4>2. Max({0, -c}) = IF -c > 0 THEN -c ELSE 0
        BY <4>1, MaxZero
      <4>3. Max({0, -c}) \in Nat
        BY <4>1, <4>2
      <4>4. m = IF n <= Max({0, -c}) THEN n ELSE Max({0, -c})
        BY <4>1, <4>3, MinDeux DEF Reveils
      <4> HIDE DEF m, c
      <4> QED
        BY <4>1, <4>2, <4>4
    <3>3. m \in 0 .. Len(queue[s])
      BY <1>2, <1>3, <2>2, <3>2
    <3> HIDE DEF m
    <3>4. /\ Len(queue'[s]) = Len(queue[s]) - m
          /\ \A t \in Sids \ {s} : queue'[t] = queue[t]
      BY <1>1, <3>1, <3>3, LibereTaille
    <3>5. count'[s] = c + n /\ \A t \in Sids \ {s} : count'[t] = count[t]
      BY <1>1, <3>1
    <3>6. B1(s)
      BY <1>1, <1>2, <1>3, <3>1, <3>2, <3>3, <3>4, <3>5 DEF Borne
    <3> HIDE DEF B1
    <3> QED
      BY <1>5, <3>1, <3>4, <3>5, <3>6
  <2> QED
    BY <2>1, <2>2
<1>12. ASSUME NEW s \in Sids, TryWait(s) PROVE \A t \in Sids : B1(t)
  <2>1. /\ queue' = queue /\ tableauSem' = tableauSem /\ count[s] > 0
        /\ count' = [count EXCEPT ![s] = @ - 1]
    BY <1>12 DEF TryWait, vars, noyauVars
  <2>2. B1(s)
    BY <1>1, <1>3, <2>1 DEF Borne
  <2> HIDE DEF B1
  <2> QED
    BY <1>1, <1>5, <2>1, <2>2
<1>13. ASSUME NEW s \in Sids, Wait(s) PROVE \A t \in Sids : B1(t)
  <2>1. /\ \/ Len(queue'[s]) <= Len(queue[s])
           \/ count'[s] < 0 /\ Len(queue'[s]) = Len(queue[s]) + 1
        /\ \A t \in Sids \ {s} : queue'[t] = queue[t]
    BY <1>1, <1>13, WaitTaille
  <2>2. s \in tableauSem /\ tableauSem' = tableauSem /\ count' = [count EXCEPT ![s] = @ - 1]
    BY <1>13 DEF Wait
  <2>3. Len(queue'[s]) \in Nat
    <3>1. queue'[s] \in Seq(Procs)
      BY ConstantesQueues DEF InvSemaphore, TypeSemaphore, TypeOK, TypeNoyau
    <3> QED
      BY <3>1, LenProperties
  <2>4. B1(s)
    BY <1>1, <1>3, <2>1, <2>2, <2>3 DEF Borne
  <2> HIDE DEF B1
  <2> QED
    BY <1>1, <1>5, <2>1, <2>2, <2>4
<1>14. ASSUME RepriseWait PROVE \A t \in Sids : B1(t)
  <2>1. queue' = queue /\ UNCHANGED semaphoreVars
    <3> DEFINE k == [Courant EXCEPT !.suite[elu] = User]
    <3>1. Devient(k) /\ UNCHANGED semaphoreVars
      BY <1>14 DEF RepriseWait
    <3>2. k.queue = queue
      BY DEF Courant
    <3> HIDE DEF k
    <3> QED
      BY <3>1, <3>2 DEF Devient
  <2> QED
    BY <1>1, <2>1 DEF semaphoreVars
<1> HIDE DEF B1
<1> QED
  BY <1>7, <1>9, <1>10, <1>11, <1>12, <1>13, <1>14 DEF SemaphoreNext

LEMMA ComptePas ==
    InvCompte /\ [SemaphoreNext \/ AutresNext]_varsSemaphore => InvCompte'
<1> SUFFICES ASSUME InvCompte, [SemaphoreNext \/ AutresNext]_varsSemaphore
             PROVE  InvCompte'
  OBVIOUS
<1>1. InvSemaphore'
  BY SemaphorePas DEF InvCompte
<1>2. CASE SemaphoreNext
  BY <1>1, <1>2, CompteSemaphoreStep DEF InvCompte
<1>3. CASE AutresNext \/ UNCHANGED varsSemaphore
  <2>1. \A s \in Sids : queue[s] \in Seq(Procs) /\ queue'[s] \in Seq(Procs)
    BY <1>1, ConstantesQueues
       DEF InvCompte, InvSemaphore, TypeSemaphore, TypeOK, TypeNoyau
  <2>2. \A s \in Sids : Len(queue'[s]) <= Len(queue[s])
    <3>1. CASE AutresNext
      BY <3>1, HorlogeRaccourcit
         DEF AutresNext, InvCompte, InvSemaphore, InvDiscipline, TypeSemaphore
    <3>2. CASE UNCHANGED varsSemaphore
      BY <2>1, <3>2, LenProperties DEF varsSemaphore, vars, noyauVars
    <3> QED
      BY <1>3, <3>1, <3>2
  <2>3. tableauSem' = tableauSem /\ count' = count
    BY <1>3 DEF AutresNext, varsSemaphore, semaphoreVars
  <2>4. \A s \in Sids : count[s] \in Int
    BY SemaphoreAssumption DEF InvCompte, InvSemaphore, TypeSemaphore, Shorts, ShortMin
  <2>5. \A s \in Sids : Borne(Len(queue[s]), count[s], s \in tableauSem)
    BY CompteBorneFileParTaille DEF InvCompte, InvSemaphore
  <2>6. \A s \in Sids : Borne(Len(queue'[s]), count'[s], s \in tableauSem')
    <3> SUFFICES ASSUME NEW s \in Sids
                 PROVE  Borne(Len(queue'[s]), count[s], s \in tableauSem)
      BY <2>3
    <3>1. Len(queue[s]) \in Nat /\ Len(queue'[s]) \in Nat
      BY <2>1, LenProperties
    <3> QED
      BY <2>2, <2>4, <2>5, <3>1 DEF Borne
  <2>7. CompteBorneFile' <=>
          \A s \in Sids : Borne(Len(queue'[s]), count'[s], s \in tableauSem')
    <3>1. TypeSemaphore'
      BY <1>1 DEF InvSemaphore
    <3> QED
      BY <3>1, CompteBorneFileApres
  <2> QED
    BY <1>1, <2>6, <2>7 DEF InvCompte
<1> QED
  BY <1>2, <1>3

\* The kill of a process that waits leaves it in the counter, so signal may
\* look for a process that is gone (the run SignalVide), but never the
\* reverse: no process waits while there are tokens, and sdelete leaves
\* nobody behind.
THEOREM CompteBorneFileCorrecte == SpecSemaphore => []CompteBorneFile
<1>1. SemaphoreInit => CompteBorneFile
  <2> SUFFICES ASSUME SemaphoreInit PROVE CompteBorneFile
    OBVIOUS
  <2>1. \A s \in Sids : queue[s] = <<>> /\ count[s] = 0
    BY QueuesDuNoyau, ConstantesQueues DEF SemaphoreInit, Init, NoyauInit
  <2>2. TypeSemaphore
    BY InitSemaphore DEF InvSemaphore
  <2>3. \A s \in Sids : Borne(Len(queue[s]), count[s], s \in tableauSem)
    BY <2>1 DEF Borne
  <2> QED
    BY <2>2, <2>3, CompteBorneFileParTaille
<1>2. SemaphoreInit => InvCompte
  BY <1>1, InitSemaphore DEF InvCompte
<1>3. InvCompte => CompteBorneFile
  BY DEF InvCompte
<1> QED
  BY <1>2, <1>3, ComptePas, PTL DEF SpecSemaphore
-----------------------------------------------------------------------------
\* Programs that kill no process that waits for a semaphore.

LEMMA KillFinit ==
    ASSUME TypeNoyau, NEW p \in Pids, KillAutre(p), panique' = "non"
    PROVE  etat'[p] \in Finies
<1> DEFINE d == Defile(Courant, p)
           e == Fini(d, p)
           m == Enfile(e, p, "mourants")
           a == ReveillePere(e, p)
           r == IF pere[p] = Nul THEN m ELSE a
<1>1. Devient(IF d.panique # "non" THEN d ELSE FreeMourantQueue(r)) /\ p \in Procs
  BY ConstantesProcs DEF KillAutre
<1>2. d \in Noyaux
  BY <1>1, CourantType, DefileType
<1> HIDE DEF d
<1>3. e \in Noyaux /\ e.etat[p] \in {"MOURANT", "ZOMBIE"}
  BY <1>1, <1>2, FiniType, FiniChamps
<1> HIDE DEF e
<1>4. m \in Noyaux /\ a \in Noyaux /\ m.etat[p] = e.etat[p] /\ a.etat[p] = e.etat[p]
  BY <1>1, <1>3, ConstantesQueues, EnfileType, EnfileChamps, ReveillePereType, ReveillePereChamps
<1> HIDE DEF m, a
<1>5. r \in Noyaux /\ r.etat[p] \in {"MOURANT", "ZOMBIE"}
  BY <1>3, <1>4
<1> HIDE DEF r
<1>6. FreeMourantQueue(r).panique = "non" /\ etat' = FreeMourantQueue(r).etat
  BY <1>1 DEF Devient
<1>7. FreeMourantQueue(r).etat[p] \in {"LIBRE", r.etat[p]}
  BY <1>1, <1>5, <1>6, FreeMourantQueuePanique, FreeMourantQueueChamps
<1> QED
  BY <1>5, <1>6, <1>7 DEF Finies

LEMMA SansPerteIntactes ==
    ASSUME InvDiscipline, Next, SansPerte
    PROVE  \A s \in Sids : queue'[s] = queue[s]
<1>1. ASSUME NEW p \in Pids, KillAutre(p), etat[p] = "ATTEND_SEMAPHORE"
      PROVE  \A s \in Sids : queue'[s] = queue[s]
  <2>1. panique' # "non"
    BY <1>1, KillFinit DEF SansPerte, Finies, InvDiscipline, TypeOK
  <2>2. queue' = queue
    BY <1>1, <2>1 DEF KillAutre, Devient
  <2> QED
    BY <2>2
<1> QED
  BY <1>1, HorlogeIntactes DEF TueUnAttendant

\* ordonnanceur() does not panic when the elected process has not ended.
LEMMA OrdonnanceurAboutit ==
    ASSUME NEW k \in Noyaux, Pret(k), k.panique = "non",
           k.etat[k.elu] \notin {"MOURANT", "ZOMBIE"}
    PROVE  LET x == Ordonnanceur(k)
           IN  x \in Noyaux /\ x.panique = "non" /\ Regle(x)
<1> DEFINE k1 == FreeMourantQueue(k)
           x == Ordonnanceur(k)
<1>1. k.elu \notin Morts(k)
  BY MortsFinis DEF Pret
<1>2. k1.panique = "non"
  BY <1>1 DEF FreeMourantQueue, Noyaux
<1>3. x.panique \in {"non", "elu_libere"} /\ (x.panique = "non" => Regle(x))
  BY OrdonnanceurDiscipline
<1>4. x.panique # "elu_libere"
  <2> DEFINE k2 == RangeElu(k1)
             p == QueueTop(k2.queue["activables"])
  <2>1. x \in {k1, k2, Elit(k2, p)}
    BY DEF Ordonnanceur
  <2>2. k1 \in Noyaux
    BY FreeMourantQueueType
  <2> HIDE DEF k1
  <2>3. k2 \in Noyaux
    BY <2>2, RangeEluType
  <2>4. k2.panique # "elu_libere"
    BY <1>2, <2>2 DEF RangeElu, Active, Enfile, Noyaux
  <2> HIDE DEF k2, p
  <2>5. Elit(k2, p).panique = k2.panique
    BY <2>3 DEF Elit, Noyaux
  <2> HIDE DEF x
  <2> QED
    BY <1>2, <2>1, <2>4, <2>5
<1> QED
  BY <1>3, <1>4, OrdonnanceurType

\* The elected process joins the queue of s and gives the processor up.
LEMMA AttendSemaphore ==
    ASSUME NEW K \in Noyaux, Regle(K), K.panique = "non", K.elu # Idle, NEW s \in Sids
    PROVE  LET k == [K EXCEPT !.etat[K.elu] = "ATTEND_SEMAPHORE",
                              !.suite[K.elu] = [appel |-> "wait", arg |-> Nul]]
               l == QueueAdd(K.queue[s], K.elu, [p \in Procs |-> 0])
               r == Enfile(k, K.elu, s)
               x == Ordonnanceur(r)
           IN  /\ k \in Noyaux /\ r = [k EXCEPT !.queue[s] = l] /\ r \in Noyaux /\ Pret(r)
               /\ r.queue = [K.queue EXCEPT ![s] = l]
               /\ x \in Noyaux /\ x.panique = "non" /\ Regle(x) /\ Intactes(x, r)
<1> DEFINE w == [appel |-> "wait", arg |-> Nul]
           k == [K EXCEPT !.etat[K.elu] = "ATTEND_SEMAPHORE", !.suite[K.elu] = w]
           l == QueueAdd(K.queue[s], K.elu, [p \in Procs |-> 0])
           r == Enfile(k, K.elu, s)
           x == Ordonnanceur(r)
<1>1. w \in Suites /\ "ATTEND_SEMAPHORE" \in Etats /\ K.elu \in Procs /\ s \in Queues
      /\ s \in QueuesDe("ATTEND_SEMAPHORE")
  BY ConstantesQueues, QueuesDeValeurs DEF Suites, Etats, Noyaux
<1> HIDE DEF w
<1>2. /\ k \in Noyaux /\ k.queue = K.queue /\ k.elu = K.elu /\ k.panique = "non"
      /\ k.etat = [K.etat EXCEPT ![K.elu] = "ATTEND_SEMAPHORE"]
      /\ k.suite[Idle] = K.suite[Idle]
  BY <1>1, ConstantesProcs DEF Noyaux
<1> HIDE DEF k
<1>3. r \in Noyaux /\ Pret(r) /\ r.panique = "non"
  BY <1>1, <1>2, EnfileEluPret
<1>4. r = [k EXCEPT !.queue[s] = l]
  <2>1. Cle(k, s) = [p \in Procs |-> 0]
    BY NoyauAssumption DEF Cle
  <2>2. \/ r = [k EXCEPT !.panique = "queue_add"] \/ r = [k EXCEPT !.queue[s] = l]
    BY <1>2, <2>1 DEF Enfile
  <2> HIDE DEF r, l
  <2>3. [k EXCEPT !.panique = "queue_add"].panique = "queue_add"
    BY <1>2 DEF Noyaux
  <2> QED
    BY <1>3, <2>2, <2>3
<1>5. r.queue = [K.queue EXCEPT ![s] = l] /\ r.etat = k.etat /\ r.elu = K.elu
  <2> HIDE DEF l, r
  <2> QED
    BY <1>2, <1>4 DEF Noyaux
<1>6. r.etat[r.elu] = "ATTEND_SEMAPHORE"
  BY <1>1, <1>2, <1>5 DEF Noyaux
<1> HIDE DEF r
<1>7. x \in Noyaux /\ x.panique = "non" /\ Regle(x) /\ Intactes(x, r)
  BY <1>3, <1>6, OrdonnanceurAboutit, OrdonnanceurIntactes
<1> QED
  BY <1>2, <1>3, <1>4, <1>5, <1>7 DEF k, r, w

\* `place` is 0 for all: who joins the queue of a semaphore is the last to be
\* served.
LEMMA QueueAddEgaux ==
    ASSUME NEW S, NEW q \in Seq(S), NEW e \in S
    PROVE  /\ Len(QueueAdd(q, e, [p \in S |-> 0])) = Len(q) + 1
           /\ Reverse(QueueAdd(q, e, [p \in S |-> 0])) = Append(Reverse(q), e)
<1> DEFINE z == [p \in S |-> 0]
           l == QueueAdd(q, e, z)
           i == Place(q, e, z)
<1>1. z \in [S -> Nat] /\ z[e] = 0 /\ Len(q) \in Nat
  BY LenProperties
<1>2. /\ i \in 1 .. Len(q) + 1 /\ \A j \in 1 .. Len(q) : j < i => z[q[j]] < z[e]
  BY <1>1, PlaceBornes
<1>3. i = 1
  <2> SUFFICES ASSUME i > 1 PROVE FALSE
    BY <1>1, <1>2
  <2>1. 1 \in 1 .. Len(q) /\ 1 < i
    BY <1>1, <1>2
  <2>2. q[1] \in S /\ z[q[1]] = 0
    BY <2>1, ElementOfSeq
  <2> QED
    BY <1>1, <1>2, <2>1, <2>2
<1>4. l \in Seq(S) /\ Inseree(l, q, 1, e)
  BY <1>1, <1>2, <1>3, InsertAtElements DEF QueueAdd
<1> HIDE DEF l
<1>5. Len(l) = Len(q) + 1 /\ l[1] = e /\ \A j \in 2 .. Len(q) + 1 : l[j] = q[j - 1]
  BY <1>4 DEF Inseree
<1> DEFINE a == Reverse(l)
           b == Append(Reverse(q), e)
<1>6. a = [j \in 1 .. Len(q) + 1 |-> l[Len(q) + 1 - j + 1]]
  BY <1>5 DEF Reverse
<1>7. /\ Reverse(q) = [j \in 1 .. Len(q) |-> q[Len(q) - j + 1]]
      /\ Reverse(q) \in Seq(S) /\ Len(Reverse(q)) = Len(q)
  BY <1>1 DEF Reverse
<1> DEFINE v == Reverse(q)
<1>8. b \in Seq(S) /\ Len(b) = Len(q) + 1 /\ b[Len(q) + 1] = e
      /\ \A j \in 1 .. Len(q) : b[j] = v[j]
  <2> HIDE DEF v
  <2> QED
    BY <1>1, <1>7, AppendProperties DEF v
<1>9. b = [j \in 1 .. Len(q) + 1 |-> b[j]]
  <2> HIDE DEF b
  <2>1. b \in [1 .. Len(q) + 1 -> S]
    BY <1>8, LenProperties
  <2> QED
    BY <2>1
<1>10. \A j \in 1 .. Len(q) + 1 : a[j] = b[j]
  <2> SUFFICES ASSUME NEW j \in 1 .. Len(q) + 1 PROVE l[Len(q) + 1 - j + 1] = b[j]
    BY <1>6
  <2>1. CASE j = Len(q) + 1
    <3>1. Len(q) + 1 - j + 1 = 1
      BY <1>1, <2>1
    <3> HIDE DEF b
    <3> QED
      BY <1>5, <1>8, <2>1, <3>1
  <2>2. CASE j \in 1 .. Len(q)
    <3>1. b[j] = q[Len(q) - j + 1]
      BY <1>7, <1>8, <2>2
    <3>2. Len(q) + 1 - j + 1 \in 2 .. Len(q) + 1 /\ Len(q) + 1 - j + 1 - 1 = Len(q) - j + 1
      BY <1>1, <2>2
    <3> QED
      BY <1>5, <3>1, <3>2
  <2>3. j = Len(q) + 1 \/ j \in 1 .. Len(q)
    BY <1>1
  <2> HIDE DEF a, b
  <2> QED
    BY <2>1, <2>2, <2>3
<1> HIDE DEF a, b, v
<1>11. a = b
  BY <1>6, <1>9, <1>10
<1> QED
  BY <1>5, <1>11 DEF a, b, l

\* The other half of CompteEgaleFile: no process that is counted is missing.
Couverte == \A s \in Sids : -count[s] <= Len(queue[s])

LEMMA EgaleParMoities ==
    TypeSemaphore => (CompteEgaleFile <=> CompteBorneFile /\ Couverte)
<1> SUFFICES ASSUME TypeSemaphore
             PROVE  CompteEgaleFile <=> CompteBorneFile /\ Couverte
  OBVIOUS
<1>1. ASSUME NEW s \in Sids
      PROVE  Len(queue[s]) = Max({0, -count[s]}) <=>
               Len(queue[s]) <= Max({0, -count[s]}) /\ -count[s] <= Len(queue[s])
  <2>1. queue[s] \in Seq(Procs) /\ count[s] \in Int
    BY ConstantesQueues, SemaphoreAssumption
       DEF TypeSemaphore, TypeOK, TypeNoyau, Shorts, ShortMin
  <2>2. Max({0, -count[s]}) = IF -count[s] > 0 THEN -count[s] ELSE 0
    BY <2>1, MaxZero
  <2>3. Len(queue[s]) \in Nat
    BY <2>1, LenProperties
  <2> QED
    BY <2>1, <2>2, <2>3
<1> QED
  BY <1>1 DEF CompteEgaleFile, CompteBorneFile, Couverte, Scount

LEMMA CouverteSemaphoreStep ==
    ASSUME InvSemaphore, Couverte, InvSemaphore', SemaphoreNext
    PROVE  Couverte'
<1>1. /\ TypeSemaphore /\ TypeOK /\ Regle(Courant) /\ count \in [Sids -> Shorts]
      /\ \A s \in Sids : -count[s] <= Len(queue[s])
      /\ ShortMax \in Nat \ {0} /\ Shorts = -ShortMax - 1 .. ShortMax
  BY SemaphoreAssumption DEF InvSemaphore, TypeSemaphore, Couverte, Shorts, ShortMin
<1>2. \A s \in Sids : /\ count[s] \in Int /\ queue[s] \in Seq(Procs)
                      /\ Len(queue[s]) \in Nat /\ Len(queue'[s]) \in Nat
  <2>1. \A s \in Sids : /\ count[s] \in Int
                        /\ queue[s] \in Seq(Procs) /\ queue'[s] \in Seq(Procs)
    BY <1>1, ConstantesQueues DEF InvSemaphore, TypeSemaphore, TypeOK, TypeNoyau
  <2> QED
    BY <2>1, LenProperties
<1>3. SUFFICES \A s \in Sids : -count'[s] <= Len(queue'[s])
  BY DEF Couverte
<1>4. ASSUME NEW s \in Sids, count'[s] \in Nat \/ -count'[s] <= Len(queue'[s]),
             \A t \in Sids \ {s} : queue'[t] = queue[t] /\ count'[t] = count[t]
      PROVE  \A t \in Sids : -count'[t] <= Len(queue'[t])
  BY <1>1, <1>2, <1>4
<1>5. ASSUME NEW s \in Sids
      PROVE  /\ Len(queue[s]) \in 0 .. Len(queue[s])
             /\ SubSeq(Attendants(s), 1, Len(queue[s])) = Attendants(s)
  BY <1>2, TousAttendants DEF Attendants
<1>6. ASSUME NEW s \in Sids, NEW n \in Nat, count' = [count EXCEPT ![s] = n],
             \/ queue' = queue
             \/ panique = "non" /\ \E st : Libere(s, Attendants(s), st)
      PROVE  \A t \in Sids : -count'[t] <= Len(queue'[t])
  <2>1. ASSUME panique = "non", NEW st, Libere(s, Attendants(s), st)
        PROVE  \A t \in Sids \ {s} : queue'[t] = queue[t]
    <3>1. Libere(s, SubSeq(Attendants(s), 1, Len(queue[s])), st)
      BY <1>5, <2>1
    <3> QED
      BY <1>1, <1>5, <2>1, <3>1, LibereTaille
  <2>2. count'[s] = n /\ \A t \in Sids \ {s} : count'[t] = count[t]
    BY <1>1, <1>6
  <2> QED
    BY <1>4, <1>6, <2>1, <2>2
<1>7. ASSUME NEW s \in Sids, NEW n \in 0 .. ShortMax, Screate(s, n) \/ Sreset(s, n)
      PROVE  \A t \in Sids : -count'[t] <= Len(queue'[t])
  BY <1>6, <1>7 DEF Screate, Sreset, EnModeUser, vars, noyauVars
<1>8. ASSUME NEW s \in Sids, Sdelete(s)
      PROVE  \A t \in Sids : -count'[t] <= Len(queue'[t])
  BY <1>6, <1>8 DEF Sdelete, EnModeUser
<1>9. ASSUME NEW s \in Sids, NEW n \in 1 .. ShortMax, Signaln(s, n)
      PROVE  \A t \in Sids : -count'[t] <= Len(queue'[t])
  <2> DEFINE m == Reveils(s, n)
  <2>1. CASE Len(queue[s]) < m
    <3> DEFINE k == [Courant EXCEPT !.panique = "null"]
    <3>1. Devient(k) /\ count' = count
      BY <1>9, <2>1 DEF Signaln
    <3>2. k.panique = "null"
      BY DEF Courant
    <3> HIDE DEF k
    <3> QED
      BY <1>1, <3>1, <3>2 DEF Devient
  <2>2. CASE ~ (Len(queue[s]) < m)
    <3>1. /\ Libere(s, SubSeq(Attendants(s), 1, m), 1) /\ panique = "non"
          /\ count' = [count EXCEPT ![s] = @ + n]
      BY <1>9, <2>2 DEF Signaln, EnModeUser
    <3>2. m \in Nat /\ m <= n
      <4>1. m \in Nat
        BY <1>1, ReveilsBornes
      <4>2. Max({0, -count[s]}) \in Nat /\ n \in Nat
        BY <1>2, MaxZero
      <4>3. m = IF n <= Max({0, -count[s]}) THEN n ELSE Max({0, -count[s]})
        BY <4>2, MinDeux DEF Reveils
      <4> HIDE DEF m
      <4> QED
        BY <4>1, <4>2, <4>3
    <3> HIDE DEF m
    <3>3. m \in 0 .. Len(queue[s])
      BY <1>2, <2>2, <3>2
    <3>4. /\ Len(queue'[s]) = Len(queue[s]) - m
          /\ \A t \in Sids \ {s} : queue'[t] = queue[t]
      BY <1>1, <3>1, <3>3, LibereTaille
    <3>5. count'[s] = count[s] + n /\ \A t \in Sids \ {s} : count'[t] = count[t]
      BY <1>1, <3>1
    <3>6. -count'[s] <= Len(queue'[s])
      BY <1>1, <1>2, <3>2, <3>4, <3>5
    <3> QED
      BY <1>4, <3>4, <3>5, <3>6
  <2> QED
    BY <2>1, <2>2
<1>10. ASSUME NEW s \in Sids, TryWait(s)
       PROVE  \A t \in Sids : -count'[t] <= Len(queue'[t])
  <2>1. queue' = queue /\ count[s] - 1 \in Nat /\ count' = [count EXCEPT ![s] = count[s] - 1]
    BY <1>2, <1>10 DEF TryWait, vars, noyauVars
  <2> QED
    BY <1>6, <2>1
<1>11. ASSUME NEW s \in Sids, Wait(s)
       PROVE  \A t \in Sids : -count'[t] <= Len(queue'[t])
  <2>1. /\ count'[s] = count[s] - 1 /\ \A t \in Sids \ {s} : count'[t] = count[t]
        /\ count' = [count EXCEPT ![s] = count[s] - 1]
    BY <1>1, <1>11 DEF Wait
  <2>2. CASE count'[s] < 0
    <3> DEFINE K == Courant
               k == [K EXCEPT !.etat[K.elu] = "ATTEND_SEMAPHORE",
                              !.suite[K.elu] = [appel |-> "wait", arg |-> Nul]]
               l == QueueAdd(K.queue[s], K.elu, [p \in Procs |-> 0])
               r == Enfile(k, K.elu, s)
               x == Ordonnanceur(r)
    <3>1. /\ K \in Noyaux /\ Regle(K) /\ K.panique = "non" /\ K.elu # Idle
          /\ K.elu = elu /\ K.queue = queue
      BY <1>1, <1>11, CourantType, CourantChamps, NoyauAssumption
         DEF TypeOK, Wait, EnModeUser
    <3>2. Devient(x)
      BY <1>11, <2>2, <3>1 DEF Wait
    <3> HIDE DEF K
    <3>3. /\ r.queue = [K.queue EXCEPT ![s] = l] /\ x.panique = "non" /\ Intactes(x, r)
      BY <3>1, AttendSemaphore
    <3> HIDE DEF x, r, l
    <3>4. queue' = x.queue
      BY <3>2, <3>3 DEF Devient
    <3>5. queue'[s] = l /\ \A t \in Sids \ {s} : queue'[t] = queue[t]
      BY <3>1, <3>3, <3>4, ConstantesQueues DEF Noyaux, Intactes
    <3>6. Len(l) = Len(queue[s]) + 1
      <4>1. queue[s] \in Seq(Procs) /\ K.elu \in Procs
        BY <1>2, <3>1 DEF Noyaux
      <4> QED
        BY <3>1, <4>1, QueueAddEgaux DEF l
    <3>7. -count'[s] <= Len(queue'[s])
      BY <1>1, <1>2, <2>1, <3>5, <3>6
    <3> QED
      BY <1>4, <2>1, <3>5, <3>7
  <2>3. CASE ~ (count'[s] < 0)
    <3>1. queue' = queue /\ count[s] - 1 \in Nat
      BY <1>2, <1>11, <2>1, <2>3 DEF Wait, noyauVars
    <3> QED
      BY <1>6, <2>1, <3>1
  <2> QED
    BY <2>2, <2>3
<1>12. ASSUME RepriseWait PROVE \A t \in Sids : -count'[t] <= Len(queue'[t])
  <2> DEFINE k == [Courant EXCEPT !.suite[elu] = User]
  <2>1. Devient(k) /\ count' = count
    BY <1>12 DEF RepriseWait, semaphoreVars
  <2>2. k.queue = queue
    BY DEF Courant
  <2> HIDE DEF k
  <2> QED
    BY <1>1, <2>1, <2>2 DEF Devient
<1> QED
  BY <1>7, <1>8, <1>9, <1>10, <1>11, <1>12 DEF SemaphoreNext

InvEgale == InvCompte /\ Couverte

LEMMA EgalePas ==
    InvEgale /\ [(SemaphoreNext \/ AutresNext) /\ SansPerte]_varsSemaphore => InvEgale'
<1> SUFFICES ASSUME InvEgale, [(SemaphoreNext \/ AutresNext) /\ SansPerte]_varsSemaphore
             PROVE  InvEgale'
  OBVIOUS
<1>1. InvCompte'
  BY ComptePas DEF InvEgale
<1>2. CASE SemaphoreNext
  BY <1>1, <1>2, CouverteSemaphoreStep DEF InvEgale, InvCompte
<1>3. CASE AutresNext /\ SansPerte
  <2>1. \A s \in Sids : queue'[s] = queue[s]
    BY <1>3, SansPerteIntactes
       DEF AutresNext, InvEgale, InvCompte, InvSemaphore, InvDiscipline, TypeSemaphore
  <2> QED
    BY <1>1, <1>3, <2>1 DEF AutresNext, InvEgale, Couverte
<1>4. CASE UNCHANGED varsSemaphore
  BY <1>1, <1>4 DEF InvEgale, Couverte, varsSemaphore, vars, noyauVars, semaphoreVars
<1> QED
  BY <1>2, <1>3, <1>4

LEMMA EgaleInit == SemaphoreInit => InvEgale
<1> SUFFICES ASSUME SemaphoreInit PROVE InvEgale
  OBVIOUS
<1>1. \A s \in Sids : queue[s] = <<>> /\ count[s] = 0
  BY QueuesDuNoyau, ConstantesQueues DEF SemaphoreInit, Init, NoyauInit
<1>2. InvSemaphore /\ TypeSemaphore
  BY InitSemaphore DEF InvSemaphore
<1>3. \A s \in Sids : Borne(Len(queue[s]), count[s], s \in tableauSem)
  BY <1>1 DEF Borne
<1>4. Couverte
  BY <1>1 DEF Couverte
<1> QED
  BY <1>2, <1>3, <1>4, CompteBorneFileParTaille DEF InvEgale, InvCompte

\* Without such kills the counter is exact: signal decides by it alone whether
\* to take a process out of the queue, and finds the process it looks for.
THEOREM CompteEgaleFileCorrecte == SpecSansPerte => []CompteEgaleFile
<1>1. InvEgale => CompteEgaleFile
  BY EgaleParMoities DEF InvEgale, InvCompte, InvSemaphore
<1> QED
  BY <1>1, EgaleInit, EgalePas, PTL DEF SpecSansPerte

-----------------------------------------------------------------------------
\* How far each process is in a call that blocks.

Appels == {"wait", "psend", "preceive"}
EtatsAppel == {"ATTEND_SEMAPHORE", "ATTEND_FILE"}
Morte(e) == e \in {"ZOMBIE", "MOURANT"}

\* The states of a process while the call a is on its kernel stack.
Posee(e, a) ==
    IF a = "wait" THEN e \in Prets \/ Morte(e) \/ e = "ATTEND_SEMAPHORE"
    ELSE IF a \in Appels THEN e \in Prets \/ Morte(e) \/ e = "ATTEND_FILE"
    ELSE e \notin EtatsAppel
Posture(k) == \A p \in Procs : Posee(k.etat[p], k.suite[p].appel)

\* From k to r the process p goes no further in such a call, except that it is
\* freed when it has ended.
Fige(r, k, p) ==
    \/ /\ r.suite[p] = k.suite[p]
       /\ \/ r.etat[p] = k.etat[p]
          \/ r.etat[p] \in Prets /\ k.etat[p] \in Prets
          \/ Morte(r.etat[p]) /\ Morte(k.etat[p])
    \/ /\ r.suite[p].appel \notin Appels /\ r.etat[p] \notin EtatsAppel
       /\ k.suite[p].appel \notin Appels \/ Morte(k.etat[p])
Figes(r, k) == \A p \in Procs : Fige(r, k, p)
FigesSauf(r, k, q) == \A p \in Procs \ {q} : Fige(r, k, p)

LEMMA FigesPosture ==
    ASSUME NEW k, NEW r, Figes(r, k), Posture(k)
    PROVE  Posture(r)
BY DEF Figes, Fige, Posture, Posee, Morte, Prets, Appels, EtatsAppel

LEMMA FigesTransitif ==
    ASSUME NEW k, NEW r, NEW s, Figes(r, k), Figes(s, r)
    PROVE  Figes(s, k)
BY DEF Figes, Fige, Morte, Prets, Appels, EtatsAppel

LEMMA MemesFiges ==
    ASSUME NEW k, NEW r, r.etat = k.etat, r.suite = k.suite
    PROVE  Figes(r, k)
BY DEF Figes, Fige

LEMMA SuiviSuite ==
    ASSUME NEW k, NEW r, Suivi(r, k)
    PROVE  r.suite = k.suite
BY DEF Suivi, MemeParente

LEMMA EnfileFiges ==
    ASSUME NEW k \in Noyaux, NEW p \in Procs, NEW f
    PROVE  /\ Figes(Enfile(k, p, f), k)
           /\ Figes(Defile(k, p), k)
           /\ Figes(Replace(k, p, f), k)
<1>1. /\ Enfile(k, p, f).etat = k.etat /\ Enfile(k, p, f).suite = k.suite
      /\ Defile(k, p).etat = k.etat /\ Defile(k, p).suite = k.suite
      /\ Replace(k, p, f).etat = k.etat /\ Replace(k, p, f).suite = k.suite
  BY EnfileChamps, EnfileSuivi, DefileSuivi, ReplaceChamps, ReplaceSuivi, SuiviSuite
<1> QED
  BY <1>1, MemesFiges

\* A state that changes for one process only.
LEMMA UnSeulFiges ==
    ASSUME NEW k \in Noyaux, NEW p \in Procs, NEW r,
           \A x \in Procs \ {p} : r.etat[x] = k.etat[x] /\ r.suite[x] = k.suite[x],
           Fige(r, k, p)
    PROVE  Figes(r, k)
BY DEF Figes, Fige

LEMMA ActiveFiges ==
    ASSUME NEW k \in Noyaux, NEW p \in Procs,
           k.suite[p].appel \notin Appels \/ k.etat[p] \in Prets
    PROVE  Figes(Active(k, p), k)
<1> DEFINE r == [k EXCEPT !.etat[p] = "ACTIVABLE"]
<1>1. r \in Noyaux /\ r.suite = k.suite /\ r.etat = [k.etat EXCEPT ![p] = "ACTIVABLE"]
  BY EtatType DEF Etats, Noyaux
<1>2. Active(k, p) = Enfile(r, p, "activables")
  BY DEF Active
<1> HIDE DEF r
<1>3. r.etat[p] = "ACTIVABLE" /\ \A x \in Procs \ {p} : r.etat[x] = k.etat[x]
  BY <1>1 DEF Noyaux
<1>4. Fige(r, k, p)
  BY <1>1, <1>3 DEF Fige, Prets, EtatsAppel
<1>5. Figes(r, k)
  BY <1>1, <1>3, <1>4, UnSeulFiges
<1> QED
  BY <1>1, <1>2, <1>5, EnfileFiges, FigesTransitif

LEMMA LibereFiges ==
    ASSUME NEW k \in Noyaux, NEW L, Chainage(k.queue, k.etat, L), IdlePret(k),
           FreeMourantQueue(k).panique = "non"
    PROVE  Figes(FreeMourantQueue(k), k)
<1> DEFINE r == FreeMourantQueue(k)
<1>1. \A p \in Procs : /\ r.etat[p] = IF p \in Morts(k) THEN "LIBRE" ELSE k.etat[p]
                       /\ r.suite[p] = IF p \in Morts(k) THEN User ELSE k.suite[p]
  BY FreeMourantQueuePanique, FreeMourantQueueChamps
<1>2. \A p \in Morts(k) : Morte(k.etat[p])
  BY MortsFinis DEF Morte
<1> HIDE DEF r
<1>3. Figes(r, k)
  BY <1>1, <1>2 DEF Figes, Fige, User, Appels, EtatsAppel
<1> QED
  BY <1>3 DEF r

LEMMA OrdonnanceurFiges ==
    ASSUME NEW k \in Noyaux, Pret(k), Ordonnanceur(k).panique = "non"
    PROVE  Figes(Ordonnanceur(k), k)
<1> DEFINE k1 == FreeMourantQueue(k)
           k2 == RangeElu(k1)
           p == QueueTop(k2.queue["activables"])
           r == Ordonnanceur(k)
<1>1. /\ k1 \in Noyaux /\ k1.panique = "non"
      /\ \/ r = k1
         \/ /\ r = Elit(k2, p) /\ k2 \in Noyaux /\ p \in Procs
            /\ k2.etat[p] = "ACTIVABLE"
  BY OrdonnanceurForme
<1>2. Figes(k1, k)
  BY <1>1, LibereFiges DEF Pret
<1> HIDE DEF k1
<1>3. Figes(k2, k1)
  <2>1. k1.elu \in Procs
    BY <1>1 DEF Noyaux
  <2>2. CASE k1.etat[k1.elu] = "MOURANT"
    BY <1>1, <2>1, <2>2, EnfileFiges DEF RangeElu
  <2>3. CASE k1.etat[k1.elu] \in {"ELU", "ACTIVABLE"}
    <3>1. k2 = Active(k1, k1.elu)
      BY <2>3 DEF RangeElu
    <3> HIDE DEF k2
    <3> QED
      BY <1>1, <2>1, <2>3, <3>1, ActiveFiges DEF Prets
  <2>4. CASE k1.etat[k1.elu] \notin {"MOURANT", "ELU", "ACTIVABLE"}
    <3>1. k2 = k1
      BY <2>4 DEF RangeElu
    <3> QED
      BY <3>1, MemesFiges
  <2> QED
    BY <2>2, <2>3, <2>4
<1> HIDE DEF k2, p
<1>4. ASSUME r = Elit(k2, p), k2 \in Noyaux, p \in Procs, k2.etat[p] = "ACTIVABLE"
      PROVE  Figes(r, k2)
  <2>1. r.etat = [k2.etat EXCEPT ![p] = "ELU"] /\ r.suite = k2.suite
    BY <1>4 DEF Elit, Noyaux
  <2> HIDE DEF r
  <2>2. \A x \in Procs : r.etat[x] = IF x = p THEN "ELU" ELSE k2.etat[x]
    BY <1>4, <2>1 DEF Noyaux
  <2> QED
    BY <1>4, <2>1, <2>2 DEF Figes, Fige, Prets
<1> HIDE DEF r
<1>5. CASE r = k1
  BY <1>2, <1>5 DEF r
<1>6. CASE r # k1
  <2>1. Figes(r, k2)
    BY <1>1, <1>4, <1>6
  <2>2. Figes(r, k1)
    BY <1>3, <2>1, FigesTransitif
  <2> QED
    BY <1>2, <2>2, FigesTransitif DEF r
<1> QED
  BY <1>5, <1>6

LEMMA FiniFiges ==
    ASSUME NEW k \in Noyaux, NEW p \in Procs, k.suite[p].appel \notin Appels
    PROVE  Figes(Fini(k, p), k)
<1> DEFINE r == Fini(k, p)
<1>1. r.suite = k.suite
  BY DEF Fini, Noyaux
<1>2. /\ r.etat[p] \in {"MOURANT", "ZOMBIE"} /\ \A x \in Procs \ {p} : r.etat[x] = k.etat[x]
  BY FiniChamps
<1> HIDE DEF r
<1>3. Fige(r, k, p)
  BY <1>1, <1>2 DEF Fige, EtatsAppel
<1> QED
  BY <1>1, <1>2, <1>3, UnSeulFiges DEF r

LEMMA ReveillePereFiges ==
    ASSUME NEW k \in Noyaux, NEW p \in Procs,
           \A c \in Procs : k.etat[c] = "ATTEND_FILS" => k.suite[c].appel \notin Appels
    PROVE  Figes(ReveillePere(k, p), k)
<1>1. k.pere[p] \in Procs \/ k.pere[p] = Nul
  BY DEF Noyaux
<1>2. CASE k.pere[p] # Nul /\ k.etat[k.pere[p]] = "ATTEND_FILS"
  <2>1. ReveillePere(k, p) = Active(k, k.pere[p])
    BY <1>2 DEF ReveillePere
  <2> QED
    BY <1>1, <1>2, <2>1, ActiveFiges
<1>3. CASE ~ (k.pere[p] # Nul /\ k.etat[k.pere[p]] = "ATTEND_FILS")
  <2>1. ReveillePere(k, p) = k
    BY <1>3 DEF ReveillePere
  <2> QED
    BY <2>1, MemesFiges
<1> QED
  BY <1>2, <1>3

\* The calls of processus.c and the clock.
LEMMA TourWaitpidFiges ==
    ASSUME NEW k \in Noyaux, Regle(k), k.panique = "non", k.elu # Idle,
           k.suite[k.elu].appel \notin Appels,
           NEW cible \in Pids \cup {Nul}, TourWaitpid(k, cible).panique = "non"
    PROVE  Figes(TourWaitpid(k, cible), k)
<1>1. CASE Finis(k, cible) # {}
  <2> DEFINE i == Min(Finis(k, cible))
             c == k.fils[k.elu][i]
             l == RemoveAt(k.fils[k.elu], i)
             k1 == [k EXCEPT !.fils[k.elu] = l, !.etat[c] = "MOURANT",
                             !.pere[c] = Nul, !.suite[k.elu] = User]
             k2 == Enfile(k1, c, "mourants")
  <2>1. /\ i \in 1 .. Len(k.fils[k.elu]) /\ c \in Procs /\ k.etat[c] = "ZOMBIE"
        /\ k.elu \in Procs
    <3>1. i \in 1 .. Len(k.fils[k.elu]) /\ c \in Pids /\ i \in Finis(k, cible)
      BY <1>1, FinisBornes
    <3> HIDE DEF i
    <3> QED
      BY <3>1, ConstantesProcs DEF Noyaux, Finis
  <2>2. TourWaitpid(k, cible) = FreeMourantQueue(k2)
    BY <1>1 DEF TourWaitpid, Recolte
  <2>3. k2 \in Noyaux /\ Regle(k2)
    BY <2>1, RecolteRegle
  <2> HIDE DEF i
  <2>4. k1.etat = [k.etat EXCEPT ![c] = "MOURANT"] /\ k1.suite = [k.suite EXCEPT ![k.elu] = User]
    BY DEF Noyaux
  <2>5. k2.etat = k1.etat /\ k2.suite = k1.suite
    BY DEF Enfile, Noyaux
  <2> HIDE DEF c, k1, k2
  <2>6. \A x \in Procs : /\ k2.etat[x] = IF x = c THEN "MOURANT" ELSE k.etat[x]
                         /\ k2.suite[x] = IF x = k.elu THEN User ELSE k.suite[x]
    BY <2>1, <2>4, <2>5 DEF Noyaux
  <2>7. k.etat[k.elu] = "ELU"
    BY <2>1 DEF Regle
  <2>8. Figes(k2, k)
    BY <2>1, <2>6, <2>7 DEF Figes, Fige, User, Appels, EtatsAppel, Morte
  <2>9. Figes(FreeMourantQueue(k2), k2)
    BY <2>2, <2>3, LibereFiges DEF Regle
  <2> QED
    BY <2>2, <2>8, <2>9, FigesTransitif
<1>2. CASE Finis(k, cible) = {}
  <2> DEFINE s == [appel |-> "waitpid", arg |-> cible]
             k1 == [k EXCEPT !.etat[k.elu] = "ATTEND_FILS", !.suite[k.elu] = s]
  <2>1. s \in Suites /\ s.appel \notin Appels
    BY DEF Suites, Appels
  <2>2. TourWaitpid(k, cible) = Ordonnanceur(k1)
    BY <1>2 DEF TourWaitpid
  <2> HIDE DEF s
  <2>3. /\ k1 \in Noyaux /\ k1.queue = k.queue /\ k1.elu = k.elu
        /\ k1.etat = [k.etat EXCEPT ![k.elu] = "ATTEND_FILS"]
        /\ k1.suite = [k.suite EXCEPT ![k.elu] = s]
    BY <2>1 DEF Noyaux, Etats
  <2> HIDE DEF k1
  <2>4. Pret(k1)
    BY <2>3, BloqueEluPret, ConstantesProcs DEF Noyaux
  <2>5. Figes(k1, k)
    BY <2>1, <2>3 DEF Figes, Fige, EtatsAppel, Noyaux
  <2>6. Figes(Ordonnanceur(k1), k1)
    BY <2>2, <2>3, <2>4, OrdonnanceurFiges
  <2> QED
    BY <2>2, <2>5, <2>6, FigesTransitif
<1> QED
  BY <1>1, <1>2

LEMMA VerifieReveilleFiges ==
    ASSUME NEW k \in Noyaux, Regle(k), Posture(k), NEW t \in Nat
    PROVE  Figes(VerifieReveille(k, t), k)
<1> DEFINE r == VerifieReveille(k, t)
<1>1. r.suite = k.suite
  BY VerifieReveilleSuivi, SuiviSuite
<1>2. \A p \in Procs : r.etat[p] = IF p \in Range(Reveilles(k, t)) THEN "ACTIVABLE" ELSE k.etat[p]
  BY VerifieReveilleRegle
<1>3. \A p \in Procs : p \in Range(Reveilles(k, t)) => k.etat[p] = "ENDORMI"
  <2> SUFFICES ASSUME NEW p \in Procs, p \in Range(Reveilles(k, t))
               PROVE  k.etat[p] = "ENDORMI"
    OBVIOUS
  <2>1. p \in Range(k.queue["endormis"])
    BY ReveillesDus
  <2>2. "endormis" \in QueuesDe(k.etat[p])
    BY <2>1, ConstantesQueues DEF Regle, Chainage
  <2> QED
    BY <2>2, QueuesDeInverse DEF Noyaux
<1> HIDE DEF r
<1>4. \A p \in Procs : k.etat[p] = "ENDORMI" => k.suite[p].appel \notin Appels
  BY DEF Posture, Posee, Prets, Morte, Appels
<1>5. Figes(r, k)
  BY <1>1, <1>2, <1>3, <1>4 DEF Figes, Fige, EtatsAppel
<1> QED
  BY <1>5 DEF r

LEMMA SuiteFiges ==
    ASSUME NEW k \in Noyaux, Regle(k), k.suite[k.elu].appel \notin Appels,
           NEW s \in Suites, s.appel \in {"user", "tic"}
    PROVE  LET r == [k EXCEPT !.suite[k.elu] = s]
           IN  /\ Figes(r, k)
               /\ Ordonnanceur(r).panique = "non" => Figes(Ordonnanceur(r), k)
<1> DEFINE r == [k EXCEPT !.suite[k.elu] = s]
<1>1. r \in Noyaux /\ Regle(r) /\ r.elu = k.elu
  BY SuiteRegle DEF Noyaux
<1>2. r.etat = k.etat /\ r.suite = [k.suite EXCEPT ![k.elu] = s] /\ k.elu \in Procs
  BY DEF Noyaux
<1> HIDE DEF r
<1>3. k.etat[k.elu] = "ELU"
  BY <1>2 DEF Regle
<1>4. Figes(r, k)
  BY <1>2, <1>3 DEF Figes, Fige, Appels, EtatsAppel, Noyaux
<1>5. Pret(r)
  BY <1>1, ReglePret
<1>6. Ordonnanceur(r).panique = "non" => Figes(Ordonnanceur(r), k)
  BY <1>1, <1>4, <1>5, OrdonnanceurFiges, FigesTransitif
<1> QED
  BY <1>4, <1>6 DEF r

LEMMA FinTicFiges ==
    ASSUME NEW k \in Noyaux, Regle(k), k.suite[k.elu].appel \notin Appels,
           NEW cpt, FinTic(k, cpt).panique = "non"
    PROVE  Figes(FinTic(k, cpt), k)
<1> DEFINE r == [k EXCEPT !.suite[k.elu] = User]
<1>1. Figes(r, k) /\ (Ordonnanceur(r).panique = "non" => Figes(Ordonnanceur(r), k))
  BY SuiteFiges, UserType DEF User
<1>2. FinTic(k, cpt) \in {r, Ordonnanceur(r)}
  BY DEF FinTic
<1> HIDE DEF r
<1> QED
  BY <1>1, <1>2

LEMMA KillFiges ==
    ASSUME NEW k \in Noyaux, Regle(k), k.panique = "non", Posture(k),
           NEW p \in Pids, p # k.elu, Chaine(k, p)
    PROVE  LET d == Defile(k, p)
               fini == Fini(d, p)
               m == FreeMourantQueue(Enfile(fini, p, "mourants"))
               a == FreeMourantQueue(ReveillePere(fini, p))
           IN  /\ k.pere[p] = Nul /\ m.panique = "non" => Posture(m) /\ FigesSauf(m, k, p)
               /\ k.pere[p] # Nul /\ a.panique = "non" => Posture(a) /\ FigesSauf(a, k, p)
<1> DEFINE d == Defile(k, p)
           fini == Fini(d, p)
           m == Enfile(fini, p, "mourants")
           a == ReveillePere(fini, p)
<1>1. p \in Procs
  BY ConstantesProcs
<1>2. d \in Noyaux /\ d.etat = k.etat /\ d.suite = k.suite
  BY <1>1, DefileType, DefileSuivi, SuiviSuite
<1>3. /\ k.pere[p] = Nul => m \in Noyaux /\ Regle(m)
      /\ k.pere[p] # Nul => a \in Noyaux /\ Regle(a)
  BY KillRegle
<1> HIDE DEF d
<1>4. fini \in Noyaux /\ fini.suite = d.suite
  BY <1>1, <1>2, FiniType DEF Fini, Noyaux
<1>5. fini.etat[p] \in {"MOURANT", "ZOMBIE"} /\ \A x \in Procs \ {p} : fini.etat[x] = d.etat[x]
  BY <1>1, <1>2, FiniChamps
<1> HIDE DEF fini
<1>6. Posture(fini)
  BY <1>2, <1>4, <1>5 DEF Posture, Posee, Morte, EtatsAppel
<1>7. ASSUME NEW x, Figes(x, fini) PROVE Posture(x) /\ FigesSauf(x, k, p)
  <2>1. Posture(x)
    BY <1>6, <1>7, FigesPosture
  <2>2. FigesSauf(x, k, p)
    BY <1>2, <1>4, <1>5, <1>7 DEF Figes, Fige, FigesSauf
  <2> QED
    BY <2>1, <2>2
<1>8. Figes(m, fini)
  BY <1>1, <1>4, EnfileFiges
<1>9. Figes(a, fini)
  <2>1. \A c \in Procs : fini.etat[c] = "ATTEND_FILS" => fini.suite[c].appel \notin Appels
    BY <1>6 DEF Posture, Posee, Prets, Morte, Appels
  <2> QED
    BY <1>1, <1>4, <2>1, ReveillePereFiges
<1> HIDE DEF m, a
<1>10. /\ k.pere[p] = Nul /\ FreeMourantQueue(m).panique = "non"
             => Posture(FreeMourantQueue(m)) /\ FigesSauf(FreeMourantQueue(m), k, p)
       /\ k.pere[p] # Nul /\ FreeMourantQueue(a).panique = "non"
             => Posture(FreeMourantQueue(a)) /\ FigesSauf(FreeMourantQueue(a), k, p)
  BY <1>3, <1>7, <1>8, <1>9, LibereFiges, FigesTransitif DEF Regle
<1> QED
  BY <1>10 DEF m, a, fini, d

LEMMA OrdonnanceurAvance ==
    ASSUME NEW k, NEW r \in Noyaux, Pret(r), Figes(r, k), Ordonnanceur(r).panique = "non"
    PROVE  Figes(Ordonnanceur(r), k)
BY OrdonnanceurFiges, FigesTransitif

LEMMA ChprioFiges ==
    ASSUME NEW K \in Noyaux, Regle(K), K.panique = "non",
           NEW p \in Pids, NEW pr \in 1 .. PrioMax
    PROVE  LET k == [K EXCEPT !.prio[p] = pr]
               k1 == Replace(k, p, "activables")
           IN  /\ Figes(k, K)
               /\ Ordonnanceur(k).panique = "non" => Figes(Ordonnanceur(k), K)
               /\ \A f : Figes(Replace(k, p, f), K)
               /\ K.etat[p] = "ACTIVABLE" /\ Ordonnanceur(k1).panique = "non"
                     => Figes(Ordonnanceur(k1), K)
<1> DEFINE k == [K EXCEPT !.prio[p] = pr]
           k1 == Replace(k, p, "activables")
<1>1. p \in Procs /\ pr \in 0 .. PrioMax
  BY ConstantesProcs, NoyauAssumption
<1>2. /\ k \in Noyaux /\ k.panique = "non"
      /\ k.queue = K.queue /\ k.etat = K.etat /\ k.elu = K.elu /\ k.suite = K.suite
  BY <1>1 DEF Noyaux
<1> HIDE DEF k
<1>3. Regle(k) /\ Chainage(K.queue, K.etat, {})
  BY <1>2 DEF Regle, IdlePret
<1>4. Figes(k, K)
  BY <1>2, MemesFiges
<1>5. \A f : Figes(Replace(k, p, f), K)
  BY <1>1, <1>2, <1>4, EnfileFiges, FigesTransitif
<1>6. Ordonnanceur(k).panique = "non" => Figes(Ordonnanceur(k), K)
  BY <1>2, <1>3, <1>4, ReglePret, OrdonnanceurAvance
<1>7. ASSUME K.etat[p] = "ACTIVABLE", Ordonnanceur(k1).panique = "non"
      PROVE  Figes(Ordonnanceur(k1), K)
  <2>1. /\ "activables" \in Queues /\ "activables" \in QueuesDe(k.etat[p])
        /\ QueuesDe(k.etat[p]) # {}
    BY <1>2, <1>7, QueuesDeValeurs, ConstantesQueues
  <2>2. Chaine(k, p)
    BY <1>1, <1>2, <1>3, <2>1 DEF Chainage, Chaine, DansQueue, Membres
  <2>3. k1 \in Noyaux /\ Regle(k1)
    BY <1>1, <1>2, <1>3, <2>1, <2>2, ReplaceFiable
  <2>4. Figes(k1, K)
    BY <1>5
  <2> HIDE DEF k1
  <2> QED
    BY <1>7, <2>3, <2>4, ReglePret, OrdonnanceurAvance
<1> QED
  BY <1>4, <1>5, <1>6, <1>7 DEF k, k1

\* A step in which no process goes further, but for the one that a kill ends.
TueFige(q) ==
    /\ KillAutre(q) /\ panique' = "non"
    /\ Posture(Courant') /\ FigesSauf(Courant', Courant, q)
Repos == Figes(Courant', Courant) \/ \E q \in Pids : TueFige(q)

LEMMA DevientFiges ==
    ASSUME NEW x, Devient(x), x.panique = "non" => Figes(x, Courant)
    PROVE  Repos
<1>1. CASE x.panique = "non"
  <2>1. Courant'.etat = x.etat /\ Courant'.suite = x.suite
    BY <1>1 DEF Devient, Courant
  <2>2. Figes(Courant', Courant)
    BY <1>1, <2>1 DEF Figes, Fige
  <2> QED
    BY <2>2 DEF Repos
<1>2. CASE x.panique # "non"
  <2>1. Courant'.etat = Courant.etat /\ Courant'.suite = Courant.suite
    BY <1>2 DEF Devient, Courant
  <2>2. Figes(Courant', Courant)
    BY <2>1 DEF Figes, Fige
  <2> QED
    BY <2>2 DEF Repos
<1> QED
  BY <1>1, <1>2

LEMMA ProcessusFiges ==
    ASSUME TypeNoyau, Regle(Courant), Posture(Courant), ProcessusNext
    PROVE  Repos
<1> DEFINE K == Courant
<1>1. /\ K \in Noyaux /\ Regle(K) /\ Posture(K)
      /\ K.elu = elu /\ K.etat = etat /\ K.prio = prio /\ K.pere = pere
      /\ K.fils = fils /\ K.queue = queue /\ K.suite = suite /\ K.panique = panique
  BY CourantType, CourantChamps
<1>2. elu \in Procs /\ prio \in [Procs -> 0 .. PrioMax] /\ Idle \notin Pids
  BY NoyauAssumption DEF TypeNoyau
<1>3. ASSUME NEW x, Devient(x), x.panique = "non" => Figes(x, K) PROVE Repos
  BY <1>3, DevientFiges
<1>4. ASSUME EnModeUser
      PROVE  /\ K.elu # Idle /\ K.panique = "non" /\ K.etat[elu] = "ELU"
             /\ K.suite[elu].appel \notin Appels
  BY <1>1, <1>2, <1>4 DEF EnModeUser, Regle, User, Appels
<1>5. \A p \in Procs : K.etat[p] \in {"LIBRE", "ATTEND_FILS"} => K.suite[p].appel \notin Appels
  BY <1>1 DEF Posture, Posee, Prets, Morte, Appels
<1>6. ASSUME NEW pr \in 1 .. PrioMax, Start(pr) PROVE Repos
  <2>1. PICK p \in Pids :
           /\ PidLibre(p)
           /\ LET k == Enfile([K EXCEPT !.etat[p] = "ACTIVABLE",
                                        !.prio[p] = pr,
                                        !.pere[p] = elu,
                                        !.fils[elu] = <<p>> \o @],
                              p, "activables")
              IN  Devient(IF pr > prio[elu] THEN Ordonnanceur(k) ELSE k)
    BY <1>6 DEF Start
  <2> DEFINE l == <<p>> \o K.fils[elu]
             k0 == [K EXCEPT !.etat[p] = "ACTIVABLE", !.prio[p] = pr,
                             !.pere[p] = elu, !.fils[elu] = l]
             k == Enfile(k0, p, "activables")
  <2> HIDE DEF K
  <2>2. p \in Procs /\ elu \in Procs \cup {Nul} /\ pr \in 0 .. PrioMax
        /\ "ACTIVABLE" \in Etats
    BY <1>2, ConstantesProcs, NoyauAssumption DEF Etats
  <2>3. l \in Seq(Pids)
    BY <1>1, <1>2 DEF Noyaux
  <2>4. Devient(IF pr > prio[elu] THEN Ordonnanceur(k) ELSE k)
    BY <2>1 DEF l
  <2> HIDE DEF l
  <2>5. k0 \in Noyaux
    BY <1>1, <1>2, <2>2, <2>3 DEF Noyaux
  <2>6. /\ k0.queue = K.queue /\ k0.elu = K.elu /\ k0.suite = K.suite
        /\ k0.etat = [K.etat EXCEPT ![p] = "ACTIVABLE"] /\ k0.panique = "non"
    BY <1>1, <1>6 DEF Noyaux, Start, EnModeUser
  <2> HIDE DEF k0
  <2>7. K.etat[p] = "LIBRE"
    BY <1>1, <2>1 DEF PidLibre
  <2>8. k \in Noyaux /\ Regle(k)
    BY <1>1, <2>5, <2>6, <2>7, NouveauRegle
  <2>9. Figes(k0, K)
    <3>1. \A x \in Procs : k0.etat[x] = IF x = p THEN "ACTIVABLE" ELSE K.etat[x]
      BY <1>1, <2>6 DEF Noyaux
    <3> QED
      BY <1>5, <2>6, <2>7, <3>1 DEF Figes, Fige, EtatsAppel
  <2>10. Figes(k, K)
    BY <2>2, <2>5, <2>9, EnfileFiges, FigesTransitif
  <2> HIDE DEF k
  <2>11. Ordonnanceur(k).panique = "non" => Figes(Ordonnanceur(k), K)
    BY <2>8, <2>10, ReglePret, OrdonnanceurAvance
  <2> QED
    BY <1>3, <2>4, <2>10, <2>11 DEF K
<1> HIDE DEF K
<1>7. ASSUME Exit \/ KillElu PROVE Repos
  <2> DEFINE f == Fini(K, elu)
             r == ReveillePere(f, elu)
  <2>1. (Devient(Ordonnanceur(r)) \/ Devient(Ordonnanceur(f))) /\ EnModeUser
    BY <1>7 DEF Exit, KillElu, K
  <2>2. f \in Noyaux /\ r \in Noyaux /\ Pret(f) /\ Pret(r)
    BY <1>1, <1>2, <1>4, <2>1, FiniType, ReveillePereType, FinEluDiscipline
  <2>3. Figes(f, K)
    BY <1>1, <1>2, <1>4, <2>1, FiniFiges
  <2> HIDE DEF f
  <2>4. Posture(f)
    BY <1>1, <2>3, FigesPosture
  <2>5. \A c \in Procs : f.etat[c] = "ATTEND_FILS" => f.suite[c].appel \notin Appels
    BY <2>4 DEF Posture, Posee, Prets, Morte, Appels
  <2>6. Figes(r, K)
    BY <1>2, <2>2, <2>3, <2>5, ReveillePereFiges, FigesTransitif
  <2> HIDE DEF r
  <2>7. /\ Ordonnanceur(f).panique = "non" => Figes(Ordonnanceur(f), K)
        /\ Ordonnanceur(r).panique = "non" => Figes(Ordonnanceur(r), K)
    BY <2>2, <2>3, <2>6, OrdonnanceurAvance
  <2> QED
    BY <1>3, <2>1, <2>7
<1>8. ASSUME NEW p \in Pids, KillAutre(p) PROVE Repos
  <2> DEFINE d == Defile(K, p)
             fini == Fini(d, p)
             m == FreeMourantQueue(Enfile(fini, p, "mourants"))
             a == FreeMourantQueue(ReveillePere(fini, p))
             x == IF d.panique # "non" THEN d ELSE IF pere[p] = Nul THEN m ELSE a
  <2>1. /\ Devient(IF d.panique # "non" THEN d
                   ELSE FreeMourantQueue(IF pere[p] = Nul THEN Enfile(fini, p, "mourants")
                                         ELSE ReveillePere(fini, p)))
        /\ EnModeUser /\ p # elu
    BY <1>8 DEF KillAutre, K
  <2>2. Devient(x)
    BY <2>1
  <2>3. CASE ~ Chaine(K, p)
    <3>1. d = [K EXCEPT !.panique = "queue_del"]
      BY <2>3 DEF Defile
    <3>2. d.panique = "queue_del"
      BY <1>1, <3>1 DEF Noyaux
    <3>3. x = d
      BY <3>2
    <3> HIDE DEF x, d
    <3> QED
      BY <1>3, <2>2, <3>2, <3>3
  <2>4. CASE Chaine(K, p)
    <3>1. d.panique = "non"
      BY <1>1, <1>4, <2>1, <2>4, KillRegle
    <3>2. /\ K.pere[p] = Nul /\ m.panique = "non" => Posture(m) /\ FigesSauf(m, K, p)
          /\ K.pere[p] # Nul /\ a.panique = "non" => Posture(a) /\ FigesSauf(a, K, p)
      BY <1>1, <1>4, <2>1, <2>4, KillFiges
    <3> HIDE DEF d, m, a
    <3>3. x.panique = "non" => Posture(x) /\ FigesSauf(x, K, p)
      BY <1>1, <3>1, <3>2
    <3> HIDE DEF x
    <3>4. CASE x.panique = "non"
      <4>1. /\ Courant'.etat = x.etat /\ Courant'.suite = x.suite /\ panique' = "non"
        BY <2>2, <3>4 DEF Devient, Courant
      <4>2. Posture(Courant') /\ FigesSauf(Courant', K, p)
        BY <3>3, <3>4, <4>1 DEF Posture, FigesSauf, Fige
      <4> QED
        BY <1>8, <4>1, <4>2 DEF Repos, TueFige, K
    <3>5. CASE x.panique # "non"
      BY <1>3, <2>2, <3>5
    <3> QED
      BY <3>4, <3>5
  <2> QED
    BY <2>3, <2>4
<1>9. ASSUME NEW cible \in Pids \cup {Nul}, Waitpid(cible) PROVE Repos
  <2>1. Devient(TourWaitpid(K, cible)) /\ EnModeUser
    BY <1>9 DEF Waitpid, K
  <2> QED
    BY <1>1, <1>3, <1>4, <2>1, TourWaitpidFiges
<1>10. ASSUME RepriseWaitpid PROVE Repos
  <2>1. /\ Devient(TourWaitpid(K, suite[elu].arg)) /\ K.panique = "non"
        /\ suite[elu].appel = "waitpid"
    BY <1>1, <1>10 DEF RepriseWaitpid, K
  <2>2. K.elu # Idle /\ K.suite[elu].appel \notin Appels
    BY <1>1, <2>1 DEF Regle, IdlePret, Appels
  <2>3. suite[elu].arg \in Pids \cup {Nul}
    BY <1>2 DEF TypeNoyau, Suites
  <2> QED
    BY <1>1, <1>3, <2>1, <2>2, <2>3, TourWaitpidFiges
<1>11. ASSUME NEW p \in Pids, NEW pr \in 1 .. PrioMax, Chprio(p, pr) PROVE Repos
  <2> DEFINE k == [K EXCEPT !.prio[p] = pr]
             f == CHOOSE g \in Fids : DansQueue(k, p, g)
             k1 == Replace(k, p, "activables")
             k2 == Replace(k, p, f)
             x == CASE p = elu -> Ordonnanceur(k)
                    [] p # elu /\ etat[p] = "ACTIVABLE" ->
                          IF prio[elu] < pr THEN Ordonnanceur(k1) ELSE k1
                    [] p # elu /\ etat[p] = "ATTEND_FILE" -> k2
                    [] OTHER -> k
  <2>1. Devient(x) /\ EnModeUser
    BY <1>11 DEF Chprio, K
  <2>2. /\ Figes(k, K) /\ Figes(k1, K) /\ Figes(k2, K)
        /\ Ordonnanceur(k).panique = "non" => Figes(Ordonnanceur(k), K)
        /\ K.etat[p] = "ACTIVABLE" /\ Ordonnanceur(k1).panique = "non"
              => Figes(Ordonnanceur(k1), K)
    BY <1>1, <1>4, <2>1, ChprioFiges
  <2> HIDE DEF k, k1, k2
  <2>3. x.panique = "non" => Figes(x, K)
    <3>1. CASE p = elu
      BY <2>2, <3>1
    <3>2. CASE p # elu /\ etat[p] = "ACTIVABLE"
      BY <1>1, <2>2, <3>2
    <3>3. CASE p # elu /\ etat[p] = "ATTEND_FILE"
      BY <2>2, <3>3
    <3>4. CASE p # elu /\ etat[p] \notin {"ACTIVABLE", "ATTEND_FILE"}
      BY <2>2, <3>4
    <3> QED
      BY <3>1, <3>2, <3>3, <3>4
  <2> HIDE DEF x
  <2> QED
    BY <1>3, <2>1, <2>3
<1>12. ASSUME NEW t \in Dates, WaitClock(t) PROVE Repos
  <2> DEFINE r == [K EXCEPT !.etat[K.elu] = "ENDORMI", !.reveil[K.elu] = t]
             s == Enfile(r, K.elu, "endormis")
  <2>1. Devient(Ordonnanceur(s)) /\ EnModeUser
    BY <1>1, <1>12 DEF WaitClock, K
  <2>2. /\ r \in Noyaux /\ r.queue = K.queue /\ r.elu = K.elu /\ r.suite = K.suite
        /\ r.etat = [K.etat EXCEPT ![K.elu] = "ENDORMI"]
    BY <1>1 DEF Noyaux, Etats
  <2> HIDE DEF r
  <2>3. "endormis" \in Queues /\ "endormis" \in QueuesDe("ENDORMI")
    BY QueuesDeValeurs, ConstantesQueues
  <2>4. s \in Noyaux /\ Pret(s)
    BY <1>1, <1>4, <2>1, <2>2, <2>3, EnfileEluPret
  <2>5. Figes(r, K)
    <3>1. \A x \in Procs : r.etat[x] = IF x = K.elu THEN "ENDORMI" ELSE K.etat[x]
      BY <1>1, <2>2 DEF Noyaux
    <3> QED
      BY <1>1, <1>4, <2>1, <2>2, <3>1 DEF Figes, Fige, EtatsAppel
  <2>6. Figes(s, K)
    BY <1>1, <1>2, <2>2, <2>5, EnfileFiges, FigesTransitif
  <2> HIDE DEF s
  <2>7. Ordonnanceur(s).panique = "non" => Figes(Ordonnanceur(s), K)
    BY <2>4, <2>6, OrdonnanceurAvance
  <2> QED
    BY <1>3, <2>1, <2>7
<1> QED
  BY <1>6, <1>7, <1>8, <1>9, <1>10, <1>11, <1>12 DEF ProcessusNext

LEMMA TicFiges ==
    ASSUME TypeOK, Regle(Courant), Posture(Courant), Tic \/ RepriseTic
    PROVE  Repos
<1> DEFINE K == Courant
<1>1. /\ K \in Noyaux /\ Regle(K) /\ Posture(K)
      /\ K.elu = elu /\ K.panique = "non" /\ K.suite = suite
  BY CourantType, CourantChamps DEF TypeOK, Tic, RepriseTic
<1>2. ASSUME NEW x, Devient(x), x.panique = "non" => Figes(x, K) PROVE Repos
  BY <1>2, DevientFiges
<1>3. K.suite[elu].appel \notin Appels
  BY <1>1 DEF Tic, RepriseTic, User, Appels
<1>4. CASE Tic
  <2> DEFINE v == VerifieReveille(K, TicSuivant)
             s == [appel |-> "tic", arg |-> Nul]
             r == [v EXCEPT !.suite[elu] = s]
  <2>1. Devient(Ordonnanceur(r)) \/ Devient(FinTic(v, CptSuivant))
    BY <1>4 DEF Tic
  <2>2. TicSuivant \in Nat
    BY NoyauAssumption DEF TicSuivant, TypeOK, Dates
  <2> HIDE DEF K
  <2>3. /\ v \in Noyaux /\ Regle(v) /\ v.elu = elu /\ v.suite = K.suite /\ Figes(v, K)
    BY <1>1, <2>2, VerifieReveilleType, VerifieReveilleRegle, VerifieReveilleFiges,
       VerifieReveilleSuivi, SuiviSuite
  <2> HIDE DEF v
  <2>4. FinTic(v, CptSuivant).panique = "non" => Figes(FinTic(v, CptSuivant), K)
    BY <1>3, <2>3, FinTicFiges, FigesTransitif
  <2>5. s \in Suites /\ s.appel = "tic"
    BY DEF Suites
  <2> HIDE DEF s
  <2>6. Ordonnanceur(r).panique = "non" => Figes(Ordonnanceur(r), K)
    BY <1>3, <2>3, <2>5, SuiteFiges, FigesTransitif
  <2> QED
    BY <1>2, <2>1, <2>4, <2>6
<1>5. CASE RepriseTic
  <2>1. Devient(FinTic(K, cptTicks))
    BY <1>5 DEF RepriseTic
  <2> HIDE DEF K
  <2> QED
    BY <1>1, <1>2, <1>3, <2>1, FinTicFiges
<1> QED
  BY <1>4, <1>5

-----------------------------------------------------------------------------
\* What semaphore.c promises: each step is one of SemaphoreAbstrait or none.

\* Who is not served keeps its place.
LEMMA ResteRetourne ==
    ASSUME NEW S, NEW q \in Seq(S), NEW n \in 0 .. Len(q)
    PROVE  Reverse(SubSeq(q, 1, Len(q) - n)) = SubSeq(Reverse(q), n + 1, Len(q))
<1> DEFINE l == Len(q)
           m == l - n
           r == SubSeq(q, 1, m)
           v == Reverse(q)
           a == Reverse(r)
           b == SubSeq(v, n + 1, l)
<1>1. l \in Nat /\ m \in 0 .. l /\ n \in 0 .. l /\ n + m = l
  BY LenProperties
<1>2. v \in Seq(S) /\ Len(v) = l /\ \A j \in 1 .. l : v[j] = q[l - j + 1]
  BY <1>1 DEF Reverse
<1>3. r \in Seq(S) /\ Len(r) = m /\ \A j \in 1 .. m : r[j] = q[j]
  <2>1. \A j \in 1 .. l : q[j] \in S
    BY ElementOfSeq
  <2> HIDE DEF l
  <2>2. \A j \in 1 .. m : q[j] \in S
    BY <1>1, <2>1
  <2>3. m \in Int /\ 1 \in Int /\ m - 1 + 1 = m
    BY <1>1
  <2> HIDE DEF m
  <2>4. /\ r \in Seq(S) /\ Len(r) = IF 1 <= m THEN m - 1 + 1 ELSE 0
        /\ \A j \in 1 .. m - 1 + 1 : r[j] = q[1 + j - 1]
    BY <2>2, <2>3, SubSeqProperties
  <2>5. m \in Nat /\ \A j \in 1 .. m : 1 + j - 1 = j
    BY <1>1, <2>3
  <2> HIDE DEF r
  <2>6. Len(r) = m
    BY <2>3, <2>4, <2>5
  <2> QED
    BY <2>3, <2>4, <2>5, <2>6
<1> HIDE DEF v, r
<1>4. b \in Seq(S) /\ Len(b) = m /\ \A j \in 1 .. m : b[j] = v[n + j]
  <2> DEFINE d == n + 1
  <2>1. d \in Int /\ l \in Int /\ d >= 1 /\ l - d + 1 = m
    BY <1>1
  <2>2. \A j \in 1 .. m : d + j - 1 = n + j
    BY <1>1
  <2>3. \A i \in d .. l : v[i] \in S
    BY <1>2, <2>1, ElementOfSeq
  <2> HIDE DEF d, l
  <2>4. /\ b \in Seq(S) /\ Len(b) = IF d <= l THEN l - d + 1 ELSE 0
        /\ \A j \in 1 .. l - d + 1 : b[j] = v[d + j - 1]
    BY <2>1, <2>3, SubSeqProperties DEF d
  <2> HIDE DEF b
  <2>5. Len(b) = m
    BY <1>1, <2>1, <2>4
  <2>6. \A j \in 1 .. m : b[j] = v[d + j - 1]
    BY <2>1, <2>4
  <2> QED
    BY <2>2, <2>4, <2>5, <2>6
<1> HIDE DEF b
<1>5. a = [j \in 1 .. m |-> r[m - j + 1]]
  BY <1>3 DEF Reverse
<1>6. b = [j \in 1 .. m |-> b[j]]
  <2>1. b \in [1 .. m -> S]
    BY <1>4, LenProperties
  <2> QED
    BY <2>1
<1>7. ASSUME NEW j \in 1 .. m PROVE r[m - j + 1] = b[j]
  <2>1. /\ m - j + 1 \in 1 .. m /\ n + j \in 1 .. l /\ l - (n + j) + 1 = m - j + 1
    BY <1>1
  <2> HIDE DEF l, m
  <2>2. r[m - j + 1] = q[m - j + 1]
    BY <1>3, <2>1
  <2>3. b[j] = q[l - (n + j) + 1]
    BY <1>2, <1>4, <2>1
  <2> QED
    BY <2>1, <2>2, <2>3
<1> HIDE DEF a, m
<1>8. a = b
  BY <1>5, <1>6, <1>7
<1> QED
  BY <1>8 DEF a, b, v, r, m

\* The answer that goes with a value of operationStatus.
Reponse(st) == IF st = -3 THEN "detruit" ELSE IF st = -4 THEN "reinitialise" ELSE "jeton"
Repondu(e, a, st) == IF a = "wait" /\ e \in Prets THEN Reponse(st) ELSE "rien"

LEMMA ReponseParValeur ==
    ASSUME NEW p \in Procs
    PROVE  /\ operationStatus[p] \in Statuts =>
                 ReponseDeWait(p) = Repondu(etat[p], suite[p].appel, operationStatus[p])
           /\ operationStatus'[p] \in Statuts =>
                 ReponseDeWait(p)' = Repondu(etat'[p], suite'[p].appel, operationStatus'[p])
<1>1. ASSUME operationStatus[p] \in Statuts
      PROVE  ReponseDeWait(p) = Repondu(etat[p], suite[p].appel, operationStatus[p])
  BY <1>1 DEF ReponseDeWait, ValeurDeWait, Repondu, Reponse, Statuts, Prets
<1>2. ASSUME operationStatus'[p] \in Statuts
      PROVE  ReponseDeWait(p)' = Repondu(etat'[p], suite'[p].appel, operationStatus'[p])
  BY <1>2 DEF ReponseDeWait, ValeurDeWait, Repondu, Reponse, Statuts, Prets
<1> QED
  BY <1>1, <1>2

LEMMA ReponseFigee ==
    ASSUME TypeSemaphore, NEW p \in Procs, Fige(Courant', Courant, p),
           NEW st \in [Procs -> Statuts], st[p] = operationStatus[p],
           operationStatus' = Restants(st)
    PROVE  ReponseDeWait(p)' = ReponseDeWait(p)
<1>1. operationStatus[p] \in Statuts
  BY DEF TypeSemaphore
<1>2. operationStatus'[p] = IF etat'[p] = "LIBRE" THEN 0 ELSE operationStatus[p]
  BY DEF Restants
<1>3. operationStatus'[p] \in Statuts
  BY <1>1, <1>2 DEF Statuts
<1>4. Repondu(etat'[p], suite'[p].appel, operationStatus'[p])
          = Repondu(etat[p], suite[p].appel, operationStatus[p])
  BY <1>2 DEF Repondu, Fige, Courant, Prets, Morte, Appels
<1> QED
  BY <1>1, <1>3, <1>4, ReponseParValeur

\* A wake-up by sdelete, sreset or signal.
LEMMA LibereRaffine ==
    ASSUME TypeSemaphore, Regle(Courant), Posture(Courant), panique = "non",
           NEW s \in Sids, NEW n \in 0 .. Len(queue[s]), NEW st \in {-3, -4, 1},
           Libere(s, SubSeq(Attendants(s), 1, n), st)
    PROVE  LET w == SubSeq(Attendants(s), 1, n)
           IN  /\ Posture(Courant')
               /\ \A t \in Sids : Reverse(queue'[t]) =
                     IF t = s THEN SubSeq(Reverse(queue[s]), n + 1, Len(queue[s]))
                     ELSE Reverse(queue[t])
               /\ \A p \in Procs : ReponseDeWait(p)' =
                     IF p \in Range(w) THEN Reponse(st) ELSE ReponseDeWait(p)
<1> DEFINE w == SubSeq(Attendants(s), 1, n)
           os == [p \in Procs |-> IF p \in Range(w) THEN st ELSE operationStatus[p]]
<1>1. /\ queue'[s] = SubSeq(queue[s], 1, Len(queue[s]) - n)
      /\ \A t \in Sids \ {s} : queue'[t] = queue[t]
      /\ suite' = suite
      /\ \A p \in Procs : etat'[p] = IF p \in Range(w) THEN "ACTIVABLE" ELSE etat[p]
  BY LibereTaille
<1>2. operationStatus' = Restants(os)
  BY DEF Libere
<1>3. queue[s] \in Seq(Procs) /\ etat \in [Procs -> Etats] /\ s \in Queues
      /\ operationStatus \in [Procs -> Statuts]
  BY ConstantesQueues DEF TypeSemaphore, TypeOK, TypeNoyau
<1>4. Range(w) \subseteq Range(queue[s])
  BY <1>3, ListeRetournee DEF Attendants
<1>5. \A p \in Procs : p \in Range(w) =>
          etat[p] = "ATTEND_SEMAPHORE" /\ suite[p].appel = "wait"
  <2> SUFFICES ASSUME NEW p \in Procs, p \in Range(w)
               PROVE  etat[p] = "ATTEND_SEMAPHORE" /\ suite[p].appel = "wait"
    OBVIOUS
  <2>1. s \in QueuesDe(etat[p])
    BY <1>3, <1>4, CourantChamps DEF Regle, Chainage
  <2>2. etat[p] = "ATTEND_SEMAPHORE"
    BY <1>3, <2>1, QueuesDeValeurs, QueuesDuNoyau DEF Etats
  <2>3. Posee(etat[p], suite[p].appel)
    BY CourantChamps DEF Posture
  <2> QED
    BY <2>2, <2>3 DEF Posee, Prets, Morte, Appels, EtatsAppel
<1> HIDE DEF w
<1>6. os \in [Procs -> Statuts]
  BY <1>3 DEF Statuts
<1>7. \A p \in Procs : os[p] = IF p \in Range(w) THEN st ELSE operationStatus[p]
  OBVIOUS
<1> HIDE DEF os
<1>8. Courant'.etat = etat' /\ Courant'.suite = suite'
  BY DEF Courant
<1>9. Posture(Courant')
  BY <1>1, <1>5, <1>8, CourantChamps DEF Posture, Posee, Prets
<1>10. \A t \in Sids : Reverse(queue'[t]) =
          IF t = s THEN SubSeq(Reverse(queue[s]), n + 1, Len(queue[s]))
          ELSE Reverse(queue[t])
  BY <1>1, <1>3, ResteRetourne
<1>11. ASSUME NEW p \in Procs, p \in Range(w) PROVE ReponseDeWait(p)' = Reponse(st)
  <2>1. etat'[p] = "ACTIVABLE" /\ suite'[p].appel = "wait"
    BY <1>1, <1>5, <1>11
  <2>2. operationStatus'[p] = st
    BY <1>2, <1>7, <1>11, <2>1 DEF Restants
  <2>3. operationStatus'[p] \in Statuts
    BY <2>2 DEF Statuts
  <2> QED
    BY <2>1, <2>2, <2>3, ReponseParValeur DEF Repondu, Prets
<1>12. ASSUME NEW p \in Procs, p \notin Range(w) PROVE ReponseDeWait(p)' = ReponseDeWait(p)
  <2>1. Fige(Courant', Courant, p)
    BY <1>1, <1>8, <1>12, CourantChamps DEF Fige
  <2> QED
    BY <1>2, <1>6, <1>7, <1>12, <2>1, ReponseFigee
<1> QED
  BY <1>9, <1>10, <1>11, <1>12 DEF w

\* What is true between two steps: the counters are exact, and a process that
\* waits for a semaphore is in wait().
InvRaffine == InvEgale /\ Posture(Courant)

LEMMA RaffineFaits ==
    ASSUME InvRaffine
    PROVE  /\ TypeSemaphore /\ TypeOK /\ TypeNoyau /\ InvDiscipline
           /\ Regle(Courant) /\ Posture(Courant) /\ CompteEgaleFile
           /\ count \in [Sids -> Int] /\ operationStatus \in [Procs -> Statuts]
           /\ \A s \in Sids : /\ queue[s] \in Seq(Procs)
                              /\ Len(queue[s]) = IF count[s] < 0 THEN -count[s] ELSE 0
<1>1. /\ TypeSemaphore /\ TypeOK /\ TypeNoyau /\ InvDiscipline
      /\ Regle(Courant) /\ Posture(Courant) /\ CompteEgaleFile
  BY EgaleParMoities
     DEF InvRaffine, InvEgale, InvCompte, InvSemaphore, InvDiscipline, TypeSemaphore, TypeOK
<1>2. count \in [Sids -> Int] /\ operationStatus \in [Procs -> Statuts]
  BY <1>1, SemaphoreAssumption DEF TypeSemaphore, Shorts, ShortMin
<1>3. ASSUME NEW s \in Sids
      PROVE  /\ queue[s] \in Seq(Procs)
             /\ Len(queue[s]) = IF count[s] < 0 THEN -count[s] ELSE 0
  <2>1. queue[s] \in Seq(Procs)
    BY <1>1, ConstantesQueues DEF TypeNoyau
  <2>2. Len(queue[s]) = Max({0, -count[s]}) /\ -count[s] \in Int
    BY <1>1, <1>2 DEF CompteEgaleFile, Scount
  <2>3. Max({0, -count[s]}) = IF -count[s] > 0 THEN -count[s] ELSE 0
    BY <2>2, MaxZero
  <2> QED
    BY <1>2, <2>1, <2>2, <2>3
<1> QED
  BY <1>1, <1>2, <1>3

\* Nothing that SemaphoreAbstrait speaks of has changed in the kernel.
LEMMA NoyauImmobile ==
    ASSUME InvRaffine, UNCHANGED noyauVars,
           operationStatus' = operationStatus \/ operationStatus' = Restants(operationStatus)
    PROVE  /\ Posture(Courant')
           /\ \A s \in Sids : queue'[s] = queue[s]
           /\ \A p \in Procs : ReponseDeWait(p)' = ReponseDeWait(p)
<1>1. TypeSemaphore /\ Posture(Courant) /\ operationStatus \in [Procs -> Statuts]
  BY RaffineFaits
<1>2. queue' = queue /\ suite' = suite /\ etat' = etat
  BY DEF noyauVars
<1>3. Courant'.etat = Courant.etat /\ Courant'.suite = Courant.suite
  BY <1>2 DEF Courant
<1>4. Posture(Courant')
  BY <1>1, <1>3 DEF Posture
<1>5. ASSUME NEW p \in Procs PROVE ReponseDeWait(p)' = ReponseDeWait(p)
  <2>1. CASE operationStatus' = operationStatus
    BY <1>2, <2>1 DEF ReponseDeWait, ValeurDeWait
  <2>2. CASE operationStatus' = Restants(operationStatus)
    <3>1. Fige(Courant', Courant, p)
      BY <1>3 DEF Fige
    <3> QED
      BY <1>1, <2>2, <3>1, ReponseFigee
  <2> QED
    BY <2>1, <2>2
<1> QED
  BY <1>2, <1>4, <1>5

LEMMA ScreateRaffine ==
    ASSUME InvRaffine, NEW s \in Sids, NEW n \in 0 .. ShortMax, Screate(s, n)
    PROVE  Abstrait!Cree(s, n) /\ Posture(Courant')
<1>1. /\ count \in [Sids -> Int] /\ tableauSem' = tableauSem \cup {s} /\ s \notin tableauSem
      /\ count' = [count EXCEPT ![s] = n] /\ n \in Int /\ n >= 0
  BY RaffineFaits, SemaphoreAssumption DEF Screate
<1>2. /\ Posture(Courant')
      /\ \A t \in Sids : queue'[t] = queue[t]
      /\ \A p \in Procs : ReponseDeWait(p)' = ReponseDeWait(p)
  BY NoyauImmobile DEF Screate, vars
<1>3. \A t \in Sids : Max({0, count'[t]}) = IF t = s THEN n ELSE Max({0, count[t]})
  BY <1>1, MaxZero
<1> QED
  BY <1>1, <1>2, <1>3 DEF Abstrait!Cree

LEMMA TryWaitRaffine ==
    ASSUME InvRaffine, NEW s \in Sids, TryWait(s)
    PROVE  Abstrait!Prend(s) /\ Posture(Courant')
<1>1. /\ count \in [Sids -> Int] /\ tableauSem' = tableauSem /\ s \in tableauSem
      /\ count' = [count EXCEPT ![s] = @ - 1] /\ count[s] > 0
  BY RaffineFaits DEF TryWait
<1>2. /\ Posture(Courant')
      /\ \A t \in Sids : queue'[t] = queue[t]
      /\ \A p \in Procs : ReponseDeWait(p)' = ReponseDeWait(p)
  BY NoyauImmobile DEF TryWait, vars
<1>3. /\ Max({0, count[s]}) > 0
      /\ \A t \in Sids : Max({0, count'[t]}) =
            IF t = s THEN Max({0, count[s]}) - 1 ELSE Max({0, count[t]})
  BY <1>1, MaxZero
<1> QED
  BY <1>1, <1>2, <1>3 DEF Abstrait!Prend

\* sdelete and sreset: all those who wait are answered.
LEMMA ToutLibereRaffine ==
    ASSUME InvRaffine, panique = "non", NEW s \in Sids, NEW st \in {-3, -4},
           Libere(s, Attendants(s), st)
    PROVE  /\ Posture(Courant')
           /\ \A t \in Sids : Reverse(queue'[t]) = IF t = s THEN <<>> ELSE Reverse(queue[t])
           /\ \A p \in Procs : ReponseDeWait(p)' =
                 IF p \in Range(Reverse(queue[s])) THEN Reponse(st) ELSE ReponseDeWait(p)
<1> DEFINE n == Len(queue[s])
<1>1. TypeSemaphore /\ Regle(Courant) /\ Posture(Courant) /\ queue[s] \in Seq(Procs)
  BY RaffineFaits
<1>2. n \in 0 .. n /\ SubSeq(Attendants(s), 1, n) = Attendants(s)
  BY <1>1, LenProperties, TousAttendants DEF Attendants
<1>3. SubSeq(Reverse(queue[s]), n + 1, n) = <<>>
  BY <1>2, SubSeqEmpty
<1>4. Libere(s, SubSeq(Attendants(s), 1, n), st)
  BY <1>2
<1> HIDE DEF n
<1>5. /\ Posture(Courant')
      /\ \A t \in Sids : Reverse(queue'[t]) =
            IF t = s THEN SubSeq(Reverse(queue[s]), n + 1, n) ELSE Reverse(queue[t])
      /\ \A p \in Procs : ReponseDeWait(p)' =
            IF p \in Range(SubSeq(Attendants(s), 1, n)) THEN Reponse(st)
            ELSE ReponseDeWait(p)
  BY <1>1, <1>2, <1>4, LibereRaffine DEF n
<1> QED
  BY <1>2, <1>3, <1>5 DEF Attendants

LEMMA SdeleteRaffine ==
    ASSUME InvRaffine, NEW s \in Sids, Sdelete(s)
    PROVE  Abstrait!Detruit(s) /\ Posture(Courant')
<1>1. /\ count \in [Sids -> Int] /\ tableauSem' = tableauSem \ {s} /\ s \in tableauSem
      /\ count' = [count EXCEPT ![s] = 0]
      /\ panique = "non" /\ Libere(s, Attendants(s), -3)
  BY RaffineFaits DEF Sdelete, EnModeUser
<1>2. /\ Posture(Courant')
      /\ \A t \in Sids : Reverse(queue'[t]) = IF t = s THEN <<>> ELSE Reverse(queue[t])
      /\ \A p \in Procs : ReponseDeWait(p)' =
            IF p \in Range(Reverse(queue[s])) THEN "detruit" ELSE ReponseDeWait(p)
  BY <1>1, ToutLibereRaffine DEF Reponse
<1>3. \A t \in Sids : Max({0, count'[t]}) = IF t = s THEN 0 ELSE Max({0, count[t]})
  BY <1>1, MaxZero
<1> QED
  BY <1>1, <1>2, <1>3 DEF Abstrait!Detruit, Abstrait!Repond, Abstrait!Range, Range

LEMMA SresetRaffine ==
    ASSUME InvRaffine, NEW s \in Sids, NEW n \in 0 .. ShortMax, Sreset(s, n)
    PROVE  Abstrait!Reinitialise(s, n) /\ Posture(Courant')
<1>1. /\ count \in [Sids -> Int] /\ tableauSem' = tableauSem /\ s \in tableauSem
      /\ count' = [count EXCEPT ![s] = n] /\ n \in Int /\ n >= 0
      /\ panique = "non" /\ Libere(s, Attendants(s), -4)
  BY RaffineFaits, SemaphoreAssumption DEF Sreset, EnModeUser
<1>2. /\ Posture(Courant')
      /\ \A t \in Sids : Reverse(queue'[t]) = IF t = s THEN <<>> ELSE Reverse(queue[t])
      /\ \A p \in Procs : ReponseDeWait(p)' =
            IF p \in Range(Reverse(queue[s])) THEN "reinitialise" ELSE ReponseDeWait(p)
  BY <1>1, ToutLibereRaffine DEF Reponse
<1>3. \A t \in Sids : Max({0, count'[t]}) = IF t = s THEN n ELSE Max({0, count[t]})
  BY <1>1, MaxZero
<1> QED
  BY <1>1, <1>2, <1>3 DEF Abstrait!Reinitialise, Abstrait!Repond, Abstrait!Range, Range

\* The counter is exact: signal finds the processes it looks for, as many as
\* it has tokens to give or as there are.
LEMMA SignalnRaffine ==
    ASSUME InvRaffine, NEW s \in Sids, NEW n \in 1 .. ShortMax, Signaln(s, n)
    PROVE  Abstrait!Donne(s, n) /\ Posture(Courant')
<1> DEFINE q == Len(queue[s])
           m == Min({n, q})
           w == SubSeq(Reverse(queue[s]), 1, m)
<1>1. /\ TypeSemaphore /\ Regle(Courant) /\ Posture(Courant) /\ count \in [Sids -> Int]
      /\ queue[s] \in Seq(Procs) /\ n \in Nat
      /\ q = IF count[s] < 0 THEN -count[s] ELSE 0
  BY RaffineFaits, SemaphoreAssumption
<1>2. q = Max({0, -count[s]}) /\ q \in Nat
  BY <1>1, RaffineFaits, LenProperties DEF CompteEgaleFile, Scount
<1>3. m = (IF n <= q THEN n ELSE q) /\ Reveils(s, n) = m
  BY <1>1, <1>2, MinDeux DEF Reveils
<1> HIDE DEF m
<1>4. m \in 0 .. q /\ ~ (q < Reveils(s, n))
  BY <1>1, <1>2, <1>3
<1>5. /\ s \in tableauSem /\ tableauSem' = tableauSem /\ panique = "non"
      /\ count' = [count EXCEPT ![s] = @ + n]
      /\ Libere(s, SubSeq(Attendants(s), 1, m), 1)
  BY <1>3, <1>4 DEF Signaln, EnModeUser
<1>6. /\ Posture(Courant')
      /\ \A t \in Sids : Reverse(queue'[t]) =
            IF t = s THEN SubSeq(Reverse(queue[s]), m + 1, q) ELSE Reverse(queue[t])
      /\ \A p \in Procs : ReponseDeWait(p)' =
            IF p \in Range(w) THEN "jeton" ELSE ReponseDeWait(p)
  <2>1. Reponse(1) = "jeton" /\ 1 \in {-3, -4, 1}
    BY DEF Reponse
  <2> QED
    BY <1>1, <1>4, <1>5, <2>1, LibereRaffine DEF Attendants
<1>7. Len(w) = m /\ Len(Reverse(queue[s])) = q
  BY <1>1, <1>4, ListeRetournee DEF Reverse
<1>8. \A t \in Sids : Max({0, count'[t]}) =
          IF t = s THEN Max({0, count[s]}) + n - m ELSE Max({0, count[t]})
  <2>1. count[s] \in Int /\ count[s] + n \in Int /\ count'[s] = count[s] + n
        /\ \A t \in Sids \ {s} : count'[t] = count[t]
    BY <1>1, <1>5
  <2>2. /\ Max({0, count[s]}) = (IF count[s] > 0 THEN count[s] ELSE 0)
        /\ Max({0, count'[s]}) = (IF count[s] + n > 0 THEN count[s] + n ELSE 0)
    BY <2>1, MaxZero
  <2>3. Max({0, count'[s]}) = Max({0, count[s]}) + n - m
    BY <1>1, <1>3, <2>1, <2>2
  <2> QED
    BY <2>1, <2>3
<1>9. Abstrait!Min({n, q}) = m
  BY DEF Abstrait!Min, Min, m
<1> DEFINE attente == [t \in Sids |-> Reverse(queue[t])]
<1>10. attente[s] = Reverse(queue[s]) /\ Abstrait!Min({n, Len(attente[s])}) = m
  BY <1>7, <1>9
<1> DEFINE servis == SubSeq(attente[s], 1, Abstrait!Min({n, Len(attente[s])}))
           jetons == [t \in Sids |-> Max({0, count[t]})]
           reponse == [p \in Procs |-> ReponseDeWait(p)]
<1>11. servis = w /\ Len(attente[s]) = q /\ attente[s] = Reverse(queue[s])
  BY <1>7, <1>10
<1> HIDE DEF q, w, servis
<1>12. [t \in Sids |-> Reverse(queue'[t])]
          = [attente EXCEPT ![s] = SubSeq(attente[s], Len(servis) + 1, Len(attente[s]))]
  BY <1>6, <1>7, <1>11
<1>13. [p \in Procs |-> ReponseDeWait(p)']
          = [p \in Procs |-> IF p \in Abstrait!Range(servis) THEN "jeton" ELSE reponse[p]]
  BY <1>6, <1>11 DEF Abstrait!Range, Range
<1>14. [t \in Sids |-> Max({0, count'[t]})]
          = [jetons EXCEPT ![s] = jetons[s] + n - Len(servis)]
  BY <1>7, <1>8, <1>11
<1>15. /\ attente' = [attente EXCEPT ![s] = SubSeq(attente[s], Len(servis) + 1, Len(attente[s]))]
       /\ reponse' = [p \in Procs |-> IF p \in Abstrait!Range(servis) THEN "jeton"
                                      ELSE reponse[p]]
       /\ jetons' = [jetons EXCEPT ![s] = jetons[s] + n - Len(servis)]
  BY <1>12, <1>13, <1>14
<1>16. Abstrait!Donne(s, n)
  <2>1. s \in tableauSem /\ tableauSem' = tableauSem
    BY <1>5
  <2> HIDE DEF attente, jetons, reponse
  <2> QED
    BY <1>15, <2>1 DEF Abstrait!Donne, Abstrait!Repond, servis, attente, jetons, reponse
<1> QED
  BY <1>6, <1>16

LEMMA WaitRaffine ==
    ASSUME InvRaffine, NEW s \in Sids, Wait(s)
    PROVE  (Abstrait!Prend(s) \/ \E p \in Procs : Abstrait!Attend(p, s)) /\ Posture(Courant')
<1>1. /\ TypeSemaphore /\ TypeOK /\ TypeNoyau /\ Regle(Courant) /\ Posture(Courant)
      /\ count \in [Sids -> Int] /\ operationStatus \in [Procs -> Statuts]
      /\ queue[s] \in Seq(Procs) /\ elu \in Procs
  BY RaffineFaits DEF TypeNoyau
<1>2. /\ s \in tableauSem /\ tableauSem' = tableauSem
      /\ count' = [count EXCEPT ![s] = @ - 1]
      /\ operationStatus' = Restants(operationStatus)
      /\ panique = "non" /\ elu \in Pids /\ suite[elu] = User
  BY DEF Wait, EnModeUser
<1>3. count'[s] = count[s] - 1 /\ \A t \in Sids \ {s} : count'[t] = count[t]
  BY <1>1, <1>2
<1>4. CASE count'[s] < 0
  <2> DEFINE K == Courant
             w == [appel |-> "wait", arg |-> Nul]
             k == [K EXCEPT !.etat[K.elu] = "ATTEND_SEMAPHORE", !.suite[K.elu] = w]
             l == QueueAdd(K.queue[s], K.elu, [p \in Procs |-> 0])
             r == Enfile(k, K.elu, s)
             x == Ordonnanceur(r)
  <2>1. /\ K \in Noyaux /\ Regle(K) /\ K.panique = "non" /\ K.elu # Idle
        /\ K.elu = elu /\ K.queue = queue /\ K.etat = etat /\ K.suite = suite
    BY <1>1, <1>2, CourantType, CourantChamps, NoyauAssumption
  <2>2. Devient(x)
    BY <1>4, <2>1 DEF Wait
  <2>3. w.appel = "wait"
    OBVIOUS
  <2> HIDE DEF K
  <2>4. /\ k \in Noyaux /\ r = [k EXCEPT !.queue[s] = l] /\ r \in Noyaux /\ Pret(r)
        /\ r.queue = [K.queue EXCEPT ![s] = l]
        /\ x.panique = "non" /\ Intactes(x, r)
    BY <2>1, AttendSemaphore
  <2> HIDE DEF w
  <2>5. /\ k.etat = [K.etat EXCEPT ![K.elu] = "ATTEND_SEMAPHORE"]
        /\ k.suite = [K.suite EXCEPT ![K.elu] = w]
    BY <2>1 DEF Noyaux
  <2> HIDE DEF k, l
  <2>6. r.etat = k.etat /\ r.suite = k.suite
    BY <2>4 DEF Noyaux
  <2> HIDE DEF r
  <2>7. Figes(x, r)
    BY <2>4, OrdonnanceurFiges
  <2> HIDE DEF x
  <2>8. \A p \in Procs :
           /\ r.etat[p] = IF p = elu THEN "ATTEND_SEMAPHORE" ELSE etat[p]
           /\ r.suite[p] = IF p = elu THEN w ELSE suite[p]
    BY <2>1, <2>5, <2>6 DEF Noyaux
  <2>9. Posture(r)
    BY <1>1, <2>1, <2>3, <2>8 DEF Posture, Posee, K
  <2>10. Posture(x)
    BY <2>7, <2>9, FigesPosture
  <2>11. /\ queue' = x.queue /\ etat' = x.etat /\ suite' = x.suite
         /\ Courant'.etat = x.etat /\ Courant'.suite = x.suite
    BY <2>2, <2>4 DEF Devient, Courant
  <2>12. Posture(Courant')
    BY <2>10, <2>11 DEF Posture
  <2>13. queue'[s] = l /\ \A t \in Sids \ {s} : queue'[t] = queue[t]
    BY <2>1, <2>4, <2>11, ConstantesQueues DEF Noyaux, Intactes
  <2>14. Reverse(queue'[s]) = Append(Reverse(queue[s]), elu)
    BY <1>1, <2>1, <2>13, QueueAddEgaux DEF l
  <2>15. PICK e \in Procs : e = elu
    BY <1>1
  <2>16. ASSUME NEW p \in Procs \ {e} PROVE ReponseDeWait(p)' = ReponseDeWait(p)
    <3>1. Fige(x, r, p)
      BY <2>7 DEF Figes
    <3>2. Fige(Courant', Courant, p)
      BY <2>1, <2>8, <2>11, <2>15, <3>1 DEF Fige, K
    <3> QED
      BY <1>1, <1>2, <3>2, ReponseFigee
  <2>17. ReponseDeWait(e)' = "rien" /\ ReponseDeWait(e) = "rien"
    <3>1. Fige(x, r, e)
      BY <2>7 DEF Figes
    <3>2. etat'[e] \notin Prets \/ suite'[e].appel # "wait"
      BY <2>3, <2>8, <2>11, <2>15, <3>1 DEF Fige, Prets, Morte, Appels
    <3>3. suite[e].appel = "user"
      BY <1>2, <2>15 DEF User
    <3> QED
      BY <3>2, <3>3 DEF ReponseDeWait, Prets
  <2>18. \A t \in Sids : Reverse(queue'[t]) =
            IF t = s THEN Append(Reverse(queue[s]), elu) ELSE Reverse(queue[t])
    BY <2>13, <2>14
  <2>19. \A p \in Procs : ReponseDeWait(p)' = ReponseDeWait(p)
    BY <2>16, <2>17
  <2>20. Max({0, count[s]}) = 0 /\ \A t \in Sids : Max({0, count'[t]}) = Max({0, count[t]})
    BY <1>1, <1>3, <1>4, MaxZero
  <2>21. Abstrait!Attend(e, s)
    BY <1>2, <2>15, <2>18, <2>19, <2>20 DEF Abstrait!Attend
  <2> QED
    BY <2>12, <2>21
<1>5. CASE ~ (count'[s] < 0)
  <2>1. UNCHANGED noyauVars
    BY <1>5 DEF Wait
  <2>2. /\ Posture(Courant')
        /\ \A t \in Sids : queue'[t] = queue[t]
        /\ \A p \in Procs : ReponseDeWait(p)' = ReponseDeWait(p)
    BY <1>2, <2>1, NoyauImmobile
  <2>3. /\ Max({0, count[s]}) > 0
        /\ \A t \in Sids : Max({0, count'[t]}) =
              IF t = s THEN Max({0, count[s]}) - 1 ELSE Max({0, count[t]})
    BY <1>1, <1>3, <1>5, MaxZero
  <2>4. Abstrait!Prend(s)
    BY <1>2, <2>2, <2>3 DEF Abstrait!Prend
  <2> QED
    BY <2>2, <2>4
<1> QED
  BY <1>4, <1>5

LEMMA RepriseWaitRaffine ==
    ASSUME InvRaffine, RepriseWait
    PROVE  (\E p \in Procs : Abstrait!Termine(p)) /\ Posture(Courant')
<1>1. /\ TypeSemaphore /\ TypeNoyau /\ Regle(Courant) /\ Posture(Courant)
      /\ operationStatus \in [Procs -> Statuts]
      /\ elu \in Procs /\ suite \in [Procs -> Suites]
  BY RaffineFaits DEF TypeNoyau
<1>2. /\ suite[elu].appel = "wait" /\ panique = "non"
      /\ Devient([Courant EXCEPT !.suite[elu] = User])
      /\ tableauSem' = tableauSem /\ count' = count /\ operationStatus' = operationStatus
  BY DEF RepriseWait, semaphoreVars
<1>3. etat' = etat /\ queue' = queue /\ suite' = [suite EXCEPT ![elu] = User]
  BY <1>2 DEF Devient, Courant
<1>4. etat[elu] = "ELU"
  BY <1>1, CourantChamps DEF Regle
<1>5. \A p \in Procs : suite'[p] = IF p = elu THEN User ELSE suite[p]
  BY <1>1, <1>3
<1>6. Courant'.etat = etat' /\ Courant'.suite = suite'
  BY DEF Courant
<1>7. Posture(Courant')
  <2>1. User.appel \notin Appels
    BY DEF User, Appels
  <2>2. ASSUME NEW p \in Procs PROVE Posee(etat[p], suite'[p].appel)
    <3>1. CASE p = elu
      <4>1. Posee("ELU", User.appel)
        BY <2>1 DEF Posee, Prets, Morte, EtatsAppel
      <4> QED
        BY <1>4, <1>5, <3>1, <4>1
    <3>2. CASE p # elu
      BY <1>1, <1>5, <3>2, CourantChamps DEF Posture
    <3> QED
      BY <3>1, <3>2
  <2> QED
    BY <1>3, <1>6, <2>2 DEF Posture
<1>8. PICK e \in Procs : e = elu
  BY <1>1
<1>9. ReponseDeWait(e)' = "rien"
  <2>1. suite'[e].appel = "user"
    BY <1>5, <1>8 DEF User
  <2> QED
    BY <2>1 DEF ReponseDeWait
<1>10. ReponseDeWait(e) # "rien"
  BY <1>1, <1>2, <1>4, <1>8, ReponseParValeur DEF Repondu, Reponse, Prets
<1>11. ASSUME NEW p \in Procs \ {e} PROVE ReponseDeWait(p)' = ReponseDeWait(p)
  <2>1. suite'[p] = suite[p] /\ etat'[p] = etat[p] /\ operationStatus'[p] = operationStatus[p]
    BY <1>2, <1>3, <1>5, <1>8, <1>11
  <2> QED
    BY <1>1, <2>1, ReponseParValeur
<1>12. Abstrait!Termine(e)
  BY <1>2, <1>3, <1>9, <1>10, <1>11 DEF Abstrait!Termine
<1> QED
  BY <1>7, <1>12

\* The other calls and the clock do not touch the semaphores; a process that
\* is killed does not take the answer it was given.
LEMMA AutresRaffinent ==
    ASSUME InvRaffine, AutresNext, SansPerte
    PROVE  /\ \/ \E p \in Procs : Abstrait!Termine(p)
              \/ UNCHANGED (Abstrait!vars)
           /\ Posture(Courant')
<1>1. /\ TypeSemaphore /\ TypeOK /\ TypeNoyau /\ InvDiscipline
      /\ Regle(Courant) /\ Posture(Courant) /\ operationStatus \in [Procs -> Statuts]
  BY RaffineFaits
<1>2. /\ Next /\ tableauSem' = tableauSem /\ count' = count
      /\ operationStatus' = Restants(operationStatus)
  BY DEF AutresNext
<1>3. \A s \in Sids : queue'[s] = queue[s]
  BY <1>1, <1>2, SansPerteIntactes
<1>4. Repos
  BY <1>1, <1>2, ProcessusFiges, TicFiges DEF Next
<1>5. ASSUME NEW p \in Procs, Fige(Courant', Courant, p)
      PROVE  ReponseDeWait(p)' = ReponseDeWait(p)
  BY <1>1, <1>2, <1>5, ReponseFigee
<1>6. ASSUME \A p \in Procs : ReponseDeWait(p)' = ReponseDeWait(p)
      PROVE  UNCHANGED (Abstrait!vars)
  BY <1>2, <1>3, <1>6 DEF Abstrait!vars
<1>7. CASE Figes(Courant', Courant)
  <2>1. Posture(Courant')
    BY <1>1, <1>7, FigesPosture
  <2> QED
    BY <1>5, <1>6, <1>7, <2>1 DEF Figes
<1>8. ASSUME NEW q \in Pids, TueFige(q)
      PROVE  \/ \E p \in Procs : Abstrait!Termine(p)
             \/ UNCHANGED (Abstrait!vars)
  <2>1. q \in Procs /\ etat'[q] \in Finies
    BY <1>1, <1>8, KillFinit, ConstantesProcs DEF TueFige
  <2>2. ReponseDeWait(q)' = "rien"
    BY <2>1 DEF ReponseDeWait, Finies
  <2>3. \A p \in Procs \ {q} : ReponseDeWait(p)' = ReponseDeWait(p)
    BY <1>5, <1>8 DEF TueFige, FigesSauf
  <2>4. CASE ReponseDeWait(q) = "rien"
    BY <1>6, <2>2, <2>3, <2>4
  <2>5. CASE ReponseDeWait(q) # "rien"
    <3>1. Abstrait!Termine(q)
      BY <1>2, <1>3, <2>1, <2>2, <2>3, <2>5 DEF Abstrait!Termine
    <3> QED
      BY <2>1, <3>1
  <2> QED
    BY <2>4, <2>5
<1> QED
  BY <1>4, <1>7, <1>8 DEF Repos, TueFige

LEMMA RaffinePas ==
    ASSUME InvRaffine, [(SemaphoreNext \/ AutresNext) /\ SansPerte]_varsSemaphore
    PROVE  InvRaffine' /\ [Abstrait!Next]_(Abstrait!vars)
<1>1. InvEgale'
  BY EgalePas DEF InvRaffine
<1>2. ASSUME Posture(Courant') PROVE InvRaffine'
  BY <1>1, <1>2 DEF InvRaffine
<1>3. CASE SemaphoreNext
  <2>1. ASSUME NEW s \in Sids, NEW n \in 0 .. ShortMax, Screate(s, n) \/ Sreset(s, n)
        PROVE  Abstrait!Next /\ Posture(Courant')
    BY <2>1, ScreateRaffine, SresetRaffine DEF Abstrait!Next
  <2>2. ASSUME NEW s \in Sids, Sdelete(s) \/ TryWait(s)
        PROVE  Abstrait!Next /\ Posture(Courant')
    BY <2>2, SdeleteRaffine, TryWaitRaffine DEF Abstrait!Next
  <2>3. ASSUME NEW s \in Sids, NEW n \in 1 .. ShortMax, Signaln(s, n)
        PROVE  Abstrait!Next /\ Posture(Courant')
    BY <2>3, SignalnRaffine DEF Abstrait!Next
  <2>4. ASSUME NEW s \in Sids, Wait(s) PROVE Abstrait!Next /\ Posture(Courant')
    BY <2>4, WaitRaffine DEF Abstrait!Next
  <2>5. ASSUME RepriseWait PROVE Abstrait!Next /\ Posture(Courant')
    BY <2>5, RepriseWaitRaffine DEF Abstrait!Next
  <2>6. Abstrait!Next /\ Posture(Courant')
    BY <1>3, <2>1, <2>2, <2>3, <2>4, <2>5 DEF SemaphoreNext
  <2> QED
    BY <1>2, <2>6
<1>4. CASE AutresNext /\ SansPerte
  <2>1. (\E p \in Procs : Abstrait!Termine(p)) => Abstrait!Next
    BY DEF Abstrait!Next
  <2> QED
    BY <1>2, <1>4, <2>1, AutresRaffinent
<1>5. CASE UNCHANGED varsSemaphore
  <2>1. UNCHANGED noyauVars /\ UNCHANGED semaphoreVars
    BY <1>5 DEF varsSemaphore, vars
  <2>2. operationStatus' = operationStatus /\ count' = count /\ tableauSem' = tableauSem
    BY <2>1 DEF semaphoreVars
  <2>3. /\ Posture(Courant')
        /\ \A s \in Sids : queue'[s] = queue[s]
        /\ \A p \in Procs : ReponseDeWait(p)' = ReponseDeWait(p)
    BY <2>1, <2>2, NoyauImmobile
  <2>4. UNCHANGED (Abstrait!vars)
    BY <2>2, <2>3 DEF Abstrait!vars
  <2> QED
    BY <1>2, <2>3, <2>4
<1> QED
  BY <1>3, <1>4, <1>5

LEMMA RaffineInit == SemaphoreInit => InvRaffine /\ Abstrait!Init
<1> SUFFICES ASSUME SemaphoreInit PROVE InvRaffine /\ Abstrait!Init
  OBVIOUS
<1>1. InvEgale
  BY EgaleInit
<1>2. \A p \in Procs : suite[p].appel = "user" /\ etat[p] \in {"ELU", "ACTIVABLE", "LIBRE"}
  BY DEF SemaphoreInit, Init, NoyauInit, User
<1>3. Posture(Courant)
  BY <1>2, CourantChamps DEF Posture, Posee, Appels, EtatsAppel
<1>4. /\ tableauSem = {} /\ \A s \in Sids : queue[s] = <<>> /\ count[s] = 0
  BY QueuesDuNoyau, ConstantesQueues DEF SemaphoreInit, Init, NoyauInit
<1>5. \A p \in Procs : ReponseDeWait(p) = "rien"
  BY <1>2 DEF ReponseDeWait
<1>6. Max({0, 0}) = 0 /\ Reverse(<<>>) = <<>>
  <2>1. Max({0, 0}) = 0
    BY MaxZero
  <2>2. Reverse(<<>>) = <<>>
    BY DEF Reverse
  <2> QED
    BY <2>1, <2>2
<1>7. \A s \in Sids : Max({0, count[s]}) = 0 /\ Reverse(queue[s]) = <<>>
  BY <1>4, <1>6
<1>8. Abstrait!Init
  BY <1>4, <1>5, <1>7 DEF Abstrait!Init
<1> QED
  BY <1>1, <1>3, <1>8 DEF InvRaffine

\* The calls of semaphore.c implement semaphores: tokens are neither lost nor
\* invented, they go to the processes in the order they came, and wait()
\* returns the answer of the call that woke it, whatever happened in between.
THEOREM ImplementeSemaphoreCorrecte == SpecSansPerte => ImplementeSemaphore
<1>1. SemaphoreInit => InvRaffine /\ Abstrait!Init
  BY RaffineInit
<1>2. InvRaffine /\ [(SemaphoreNext \/ AutresNext) /\ SansPerte]_varsSemaphore
          => InvRaffine' /\ [Abstrait!Next]_(Abstrait!vars)
  BY RaffinePas
<1> QED
  BY <1>1, <1>2, PTL DEF SpecSansPerte, ImplementeSemaphore, Abstrait!Spec

=============================================================================
