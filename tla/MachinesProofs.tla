--------------------------- MODULE MachinesProofs ---------------------------
(***************************************************************************)
(* Proofs about the parts that share no variable with the scheduler, each  *)
(* on its bench of MCMachines, for all values of their constants.  A part  *)
(* has its inductive invariant, true whenever its bench is the one that    *)
(* runs, and a lemma that says that no other bench touches it.             *)
(***************************************************************************)
EXTENDS MCMachines, SequenceTheorems, FiniteSetTheorems, TLAPS

-----------------------------------------------------------------------------
\* The speaker.

LEMMA BancSon ==
    ASSUME [MachinesNext]_machinesVars
    PROVE  UNCHANGED banc /\ (banc = "son" => [SonNext]_sonVars)
BY DEF MachinesNext, Banc, machinesVars

\* A player between two system calls of play_melody.
JoueurPresent(j) ==
    /\ j \in [pc : {"joue", "heure", "attend", "dort"}, melodie : Melodies, k : Nat,
              date : Nat, boucle : BOOLEAN]
    /\ j.k \in 1 .. Len(j.melodie)

\* The sound that the last player asked for ends before its note.
NoteCouverte(j) ==
    /\ j.pc = "joue" => tics >= duration
    /\ j.pc = "heure" => duration <= tics + j.melodie[j.k].t
    /\ j.pc \in {"attend", "dort"} => duration <= j.date

InvSon ==
    /\ hautParleur \in BOOLEAN /\ duration \in Nat /\ tics \in Nat
    /\ joueurs = [p \in Joueurs |-> joueurs[p]]
    /\ \A p \in Joueurs : joueurs[p] = Absent \/ JoueurPresent(joueurs[p])
    /\ \A p \in Joueurs : auteur = p => NoteCouverte(joueurs[p])
    /\ SonBorne

LEMMA MelodieNotes ==
    ASSUME NEW m \in Melodies
    PROVE  /\ Len(m) \in Nat /\ Len(m) > 0
           /\ \A k \in 1 .. Len(m) : /\ m[k].t \in Nat /\ m[k].t > 0
                                     /\ m[k].rest \in BOOLEAN
<1>1. m \in Seq([rest : BOOLEAN, t : Nat \ {0}]) /\ m # <<>>
  BY SonAssumption
<1>2. Len(m) \in Nat /\ Len(m) > 0
  BY <1>1, EmptySeq, LenProperties
<1>3. \A k \in 1 .. Len(m) : m[k] \in [rest : BOOLEAN, t : Nat \ {0}]
  BY <1>1, ElementOfSeq
<1> QED
  BY <1>2, <1>3

LEMMA SonInitial == SonInit => InvSon
<1> SUFFICES ASSUME SonInit PROVE InvSon
  OBVIOUS
<1>1. auteur \notin Joueurs
  BY SonAssumption DEF SonInit
<1> QED
  BY <1>1 DEF SonInit, InvSon, SonBorne

\* A step of one player that asks for no sound.
LEMMA JoueurSeul ==
    ASSUME InvSon, NEW p \in Joueurs, NEW j,
           joueurs' = [joueurs EXCEPT ![p] = j], j = Absent \/ JoueurPresent(j),
           UNCHANGED <<hautParleur, duration, tics>>,
           auteur' = auteur \/ auteur' \notin Joueurs,
           auteur' = p => NoteCouverte(j)
    PROVE  InvSon'
<1>1. \A q \in Joueurs : joueurs'[q] = IF q = p THEN j ELSE joueurs[q]
  BY DEF InvSon
<1>2. joueurs' = [q \in Joueurs |-> joueurs'[q]]
  BY DEF InvSon
<1>3. \A q \in Joueurs : auteur' = q => NoteCouverte(joueurs[q])' 
  BY <1>1 DEF InvSon, NoteCouverte
<1> QED
  BY <1>1, <1>2, <1>3 DEF InvSon, SonBorne, JoueurPresent

LEMMA SonPas == InvSon /\ [SonNext]_sonVars => InvSon'
<1> SUFFICES ASSUME InvSon, [SonNext]_sonVars PROVE InvSon'
  OBVIOUS
<1>1. ASSUME NEW p \in Joueurs, NEW m \in Melodies, NEW b \in BOOLEAN, LanceJoueur(p, m, b)
      PROVE  InvSon'
  <2> DEFINE j == [pc |-> "joue", melodie |-> m, k |-> 1, date |-> 0, boucle |-> b]
  <2>1. JoueurPresent(j)
    BY MelodieNotes DEF JoueurPresent
  <2>2. /\ joueurs' = [joueurs EXCEPT ![p] = j] /\ UNCHANGED <<hautParleur, duration, tics>>
        /\ auteur' = IF auteur = p THEN "personne" ELSE auteur
    BY <1>1 DEF LanceJoueur
  <2>3. auteur' = auteur \/ auteur' \notin Joueurs
    BY <2>2, SonAssumption
  <2>4. auteur' # p
    BY <2>2, SonAssumption
  <2> HIDE DEF j
  <2> QED
    BY <2>1, <2>2, <2>3, <2>4, JoueurSeul
<1>2. ASSUME NEW p \in Joueurs, JoueNote(p) PROVE InvSon'
  <2> DEFINE n == joueurs[p].melodie[joueurs[p].k]
             j == [joueurs[p] EXCEPT !.pc = "heure"]
  <2>1. /\ joueurs[p].pc = "joue" /\ UNCHANGED tics
        /\ duration' = tics + n.t /\ hautParleur' = ~n.rest /\ auteur' = p
        /\ joueurs' = [joueurs EXCEPT ![p].pc = "heure"]
    BY <1>2 DEF JoueNote, play_sound
  <2>2. JoueurPresent(joueurs[p])
    BY <2>1 DEF InvSon, Absent
  <2>3. /\ JoueurPresent(j) /\ j.pc = "heure" /\ j.melodie[j.k] = n
        /\ n.t \in Nat /\ n.t > 0 /\ n.rest \in BOOLEAN
    BY <2>2, MelodieNotes DEF JoueurPresent
  <2>4. joueurs' = [joueurs EXCEPT ![p] = j]
    BY <2>1
  <2> HIDE DEF j, n
  <2>5. \A q \in Joueurs : joueurs'[q] = IF q = p THEN j ELSE joueurs[q]
    BY <2>4 DEF InvSon
  <2>6. joueurs' = [q \in Joueurs |-> joueurs'[q]]
    BY <2>4 DEF InvSon
  <2>7. NoteCouverte(joueurs[p])'
    BY <2>1, <2>3, <2>5 DEF NoteCouverte, InvSon
  <2>8. \A q \in Joueurs : auteur' = q => NoteCouverte(joueurs[q])'
    BY <2>1, <2>7
  <2>9. \A q \in Joueurs : joueurs'[q] = Absent \/ JoueurPresent(joueurs'[q])
    BY <2>3, <2>5 DEF InvSon
  <2>10. SonBorne'
    BY <2>1, <2>3 DEF SonBorne, InvSon
  <2> QED
    BY <2>1, <2>3, <2>6, <2>8, <2>9, <2>10 DEF InvSon
<1>3. ASSUME NEW p \in Joueurs, LitHeure(p) \/ DortNote(p) \/ TueJoueur(p) PROVE InvSon'
  <2>1. UNCHANGED <<hautParleur, duration, tics, auteur>>
    BY <1>3 DEF LitHeure, DortNote, TueJoueur
  <2>2. JoueurPresent(joueurs[p])
    BY <1>3 DEF InvSon, Absent, LitHeure, DortNote, TueJoueur
  <2>3. /\ joueurs[p].melodie[joueurs[p].k].t \in Nat
        /\ auteur = p => NoteCouverte(joueurs[p])
    BY <2>2, MelodieNotes DEF JoueurPresent, InvSon
  <2>4. CASE LitHeure(p)
    <3> DEFINE j == [joueurs[p] EXCEPT !.pc = "attend",
                                       !.date = tics + joueurs[p].melodie[joueurs[p].k].t]
    <3>1. joueurs' = [joueurs EXCEPT ![p] = j] /\ joueurs[p].pc = "heure"
      BY <2>4 DEF LitHeure
    <3>2. tics + joueurs[p].melodie[joueurs[p].k].t \in Nat
      BY <2>3 DEF InvSon
    <3>3. JoueurPresent(j)
      BY <2>2, <3>2 DEF JoueurPresent
    <3>4. /\ j.pc = "attend"
          /\ j.date = tics + joueurs[p].melodie[joueurs[p].k].t
      BY <2>2 DEF JoueurPresent
    <3>5. auteur = p => NoteCouverte(j)
      BY <2>3, <3>1, <3>4 DEF NoteCouverte
    <3> HIDE DEF j
    <3> QED
      BY <2>1, <3>1, <3>3, <3>5, JoueurSeul
  <2>5. CASE DortNote(p)
    <3> DEFINE j == [joueurs[p] EXCEPT !.pc = "dort"]
    <3>1. joueurs' = [joueurs EXCEPT ![p] = j] /\ joueurs[p].pc = "attend"
      BY <2>5 DEF DortNote
    <3>2. JoueurPresent(j) /\ (auteur = p => NoteCouverte(j))
      BY <2>2, <2>3, <3>1 DEF JoueurPresent, NoteCouverte
    <3> HIDE DEF j
    <3> QED
      BY <2>1, <3>1, <3>2, JoueurSeul
  <2>6. CASE TueJoueur(p)
    <3>1. joueurs' = [joueurs EXCEPT ![p] = Absent] /\ NoteCouverte(Absent)
      BY <2>6 DEF TueJoueur, Absent, NoteCouverte
    <3> QED
      BY <2>1, <3>1, JoueurSeul
  <2> QED
    BY <1>3, <2>4, <2>5, <2>6
<1>4. CASE Piano \/ beep
  <2>1. /\ UNCHANGED <<tics, joueurs>> /\ auteur' \notin Joueurs
        /\ hautParleur' = TRUE /\ duration' \in {tics + 1, tics + 2}
    BY <1>4, SonAssumption DEF Piano, beep, play_sound
  <2> QED
    BY <2>1 DEF InvSon, SonBorne
<1>5. CASE TicSon
  <2> DEFINE r(p) == joueurs[p].pc = "dort" /\ joueurs[p].date <= tics + 1
  <2>1. /\ tics' = tics + 1 /\ UNCHANGED <<duration, auteur>>
        /\ hautParleur' = (hautParleur /\ ~Silence)
        /\ joueurs' = [p \in Joueurs |-> IF r(p) THEN ApresNote(joueurs[p]) ELSE joueurs[p]]
    BY <1>5 DEF TicSon
  <2>2. SonBorne'
    <3> SUFFICES ASSUME hautParleur' PROVE tics' < duration'
      BY DEF SonBorne
    <3>1. hautParleur /\ ~Silence
      BY <2>1
    <3>2. tics < duration /\ tics \in Nat /\ duration \in Nat
      BY <3>1 DEF InvSon, SonBorne
    <3>3. tics + 1 # duration
      BY <3>1, <3>2 DEF Silence
    <3> QED
      BY <2>1, <3>2, <3>3
  <2>3. ASSUME NEW p \in Joueurs
        PROVE  /\ joueurs'[p] = Absent \/ JoueurPresent(joueurs'[p])
               /\ auteur' = p => NoteCouverte(joueurs[p])'
    <3>1. CASE r(p)
      <4>1. JoueurPresent(joueurs[p]) /\ (auteur = p => duration <= joueurs[p].date)
        BY <3>1 DEF InvSon, Absent, NoteCouverte
      <4>2. /\ joueurs'[p] = ApresNote(joueurs[p])
            /\ joueurs[p].date <= tics + 1
        BY <2>1, <3>1
      <4>3. /\ ApresNote(joueurs[p]) = Absent \/ JoueurPresent(ApresNote(joueurs[p]))
            /\ ApresNote(joueurs[p]).pc \in {"absent", "joue"}
        <5> DEFINE q == joueurs[p]
        <5>1. /\ q \in [pc : {"joue", "heure", "attend", "dort"}, melodie : Melodies, k : Nat,
                         date : Nat, boucle : BOOLEAN]
              /\ q.k \in 1 .. Len(q.melodie) /\ Len(q.melodie) \in Nat /\ Len(q.melodie) > 0
          BY <4>1, MelodieNotes DEF JoueurPresent
        <5> HIDE DEF q
        <5>2. CASE q.k < Len(q.melodie)
          <6> DEFINE k == q.k + 1
          <6>1. ApresNote(q) = [q EXCEPT !.pc = "joue", !.k = k]
            BY <5>2 DEF ApresNote
          <6>2. k \in Nat /\ k \in 1 .. Len(q.melodie)
            BY <5>1, <5>2
          <6> HIDE DEF k
          <6>3. JoueurPresent(ApresNote(q)) /\ ApresNote(q).pc = "joue"
            BY <5>1, <6>1, <6>2 DEF JoueurPresent
          <6> QED
            BY <6>3 DEF q
        <5>3. CASE ~ (q.k < Len(q.melodie)) /\ q.boucle
          <6> DEFINE k == 1
          <6>1. ApresNote(q) = [q EXCEPT !.pc = "joue", !.k = k]
            BY <5>3 DEF ApresNote
          <6>2. k \in Nat /\ k \in 1 .. Len(q.melodie)
            BY <5>1
          <6> HIDE DEF k
          <6>3. JoueurPresent(ApresNote(q)) /\ ApresNote(q).pc = "joue"
            BY <5>1, <6>1, <6>2 DEF JoueurPresent
          <6> QED
            BY <6>3 DEF q
        <5>4. CASE ~ (q.k < Len(q.melodie)) /\ ~ q.boucle
          <6>1. ApresNote(q) = Absent
            BY <5>4 DEF ApresNote
          <6> QED
            BY <6>1 DEF q, Absent
        <5> QED
          BY <5>2, <5>3, <5>4
      <4>4. joueurs[p].date \in Nat /\ tics \in Nat /\ duration \in Nat
        BY <4>1 DEF JoueurPresent, InvSon
      <4>5. auteur' = p => NoteCouverte(joueurs[p])'
        BY <2>1, <4>1, <4>2, <4>3, <4>4 DEF NoteCouverte
      <4> QED
        BY <4>2, <4>3, <4>5
    <3>2. CASE ~ r(p)
      <4>1. joueurs'[p] = joueurs[p]
        BY <2>1, <3>2
      <4>2. joueurs[p] = Absent \/ JoueurPresent(joueurs[p])
        BY DEF InvSon
      <4>3. CASE joueurs[p] = Absent
        BY <4>1, <4>3 DEF NoteCouverte, Absent
      <4>4. CASE JoueurPresent(joueurs[p])
        <5>1. joueurs[p].melodie[joueurs[p].k].t \in Nat
          BY <4>4, MelodieNotes DEF JoueurPresent
        <5>2. auteur' = p => NoteCouverte(joueurs[p])'
          BY <2>1, <4>1, <5>1 DEF InvSon, NoteCouverte
        <5> QED
          BY <4>1, <4>4, <5>2
      <4> QED
        BY <4>2, <4>3, <4>4
    <3> QED
      BY <3>1, <3>2
  <2>4. joueurs' = [p \in Joueurs |-> joueurs'[p]]
    BY <2>1
  <2> HIDE DEF r
  <2>5. hautParleur' \in BOOLEAN /\ duration' \in Nat /\ tics' \in Nat
    BY <2>1 DEF InvSon, Silence
  <2> QED
    BY <2>2, <2>3, <2>4, <2>5 DEF InvSon
<1>6. CASE UNCHANGED sonVars
  BY <1>6 DEF sonVars, InvSon, SonBorne, NoteCouverte
<1> QED
  BY <1>1, <1>2, <1>3, <1>4, <1>5, <1>6 DEF SonNext

\* The speaker never sounds for ever: when it is on, the tick that stops it is
\* still to come; and a melody does not begin a note while its last one sounds.
THEOREM SonJusteCorrect == SpecMachines => SonJuste
<1> DEFINE I == banc = "son" => InvSon
<1>1. MachinesInit => I
  BY SonInitial DEF MachinesInit
<1>2. I /\ [MachinesNext]_machinesVars => I'
  BY BancSon, SonPas
<1>3. I => (banc = "son" => SonBorne)
  BY DEF InvSon
<1>4. I /\ [MachinesNext]_machinesVars => [banc = "son" => NoteEntiere]_sonVars
  BY DEF NoteEntiere, InvSon, NoteCouverte
<1> HIDE DEF I
<1> QED
  BY <1>1, <1>2, <1>3, <1>4, PTL DEF SpecMachines, SonJuste
-----------------------------------------------------------------------------
\* The shell and its melodies.

LEMMA BancShell ==
    ASSUME [MachinesNext]_machinesVars
    PROVE  UNCHANGED banc /\ (banc = "shell" => [ShellNext]_shellVars)
BY DEF MachinesNext, Banc, machinesVars

EstShell(s) ==
    s = [pc |-> s.pc, jeu |-> s.jeu, pid_player |-> s.pid_player, try_left |-> s.try_left,
         reste |-> s.reste, numero |-> s.numero]

Noms == {"boucle", "une fois", "test", "Dummy", "NoName"}

EstEnfants(e) ==
    /\ DOMAIN e \subseteq PidsFils
    /\ e \in [DOMAIN e -> [nom : Noms, vivant : BOOLEAN]]

\* JoueurTenu is inductive once it is known that a pid is never negative.
InvShell == EstShell(shell) /\ EstEnfants(enfants) /\ JoueurTenu

\* Where a player may be.
Musique == {"joue", "finJeu", "recueille", "attendFinale"}

LEMMA ShellInitial == ShellInit => InvShell
BY DEF ShellInit, InvShell, EstShell, EstEnfants, JoueurTenu, Enfants, Aucun

\* Outside of a melody nobody plays.
LEMMA SansMusique ==
    ASSUME InvShell, shell.pc \notin Musique \/ shell.pid_player = Aucun
    PROVE  \A p \in Enfants : ~EstJoueur(p)
BY ShellAssumption DEF InvShell, JoueurTenu, Musique, EstEnfants, Enfants, Aucun

\* kill() changes neither the children nor what they run.
LEMMA TueGarde ==
    ASSUME InvShell, NEW p, Tue(p)
    PROVE  /\ EstEnfants(enfants') /\ Enfants' = Enfants
           /\ \A q \in Enfants : EstJoueur(q)' <=> EstJoueur(q)
<1>1. CASE p \in Enfants
  <2>1. enfants' = [enfants EXCEPT ![p].vivant = FALSE]
    BY <1>1 DEF Tue
  <2>2. \A q \in Enfants : enfants'[q].nom = enfants[q].nom
    BY <2>1 DEF Enfants, InvShell, EstEnfants
  <2> QED
    BY <2>1, <2>2 DEF Enfants, InvShell, EstEnfants, EstJoueur
<1>2. CASE p \notin Enfants
  BY <1>2 DEF Tue, InvShell, EstJoueur, Enfants
<1> QED
  BY <1>1, <1>2

\* waitpid() forgets one child.
LEMMA RecueilleGarde ==
    ASSUME InvShell, NEW p, Recueille(p)
    PROVE  /\ EstEnfants(enfants') /\ Enfants' = Enfants \ {p}
           /\ \A q \in Enfants' : EstJoueur(q)' <=> EstJoueur(q)
BY DEF Recueille, Enfants, InvShell, EstEnfants, EstJoueur

\* start() adds a child, or none.
LEMMA StartGarde ==
    ASSUME InvShell, NEW nom \in Noms, NEW p \in PidsFils \ Enfants,
           enfants' = [q \in Enfants \cup {p} |->
               IF q = p THEN [nom |-> nom, vivant |-> TRUE] ELSE enfants[q]]
    PROVE  /\ EstEnfants(enfants') /\ Enfants' = Enfants \cup {p}
           /\ p \in Int /\ p # Aucun
           /\ EstJoueur(p)' <=> nom \in {"boucle", "une fois"}
           /\ \A q \in Enfants : EstJoueur(q)' <=> EstJoueur(q)
<1>1. /\ Enfants' = Enfants \cup {p} /\ enfants'[p] = [nom |-> nom, vivant |-> TRUE]
      /\ \A q \in Enfants : enfants'[q] = enfants[q]
  BY DEF Enfants
<1>2. p \in Int /\ p # Aucun
  BY ShellAssumption DEF Aucun
<1> QED
  BY <1>1, <1>2 DEF EstEnfants, EstJoueur, InvShell, Enfants

LEMMA ShellPas == InvShell /\ [ShellNext]_shellVars => InvShell'
<1> SUFFICES ASSUME InvShell, [ShellNext]_shellVars PROVE InvShell'
  OBVIOUS
<1> USE DEF EstShell
\* No child comes or goes, and the melody goes on or there was none.
<1>1. ASSUME UNCHANGED enfants, EstShell(shell'),
             \/ shell.pc \notin Musique
             \/ shell.pid_player = Aucun
             \/ shell'.pc \in Musique /\ shell'.pid_player = shell.pid_player
      PROVE  InvShell'
  BY <1>1, SansMusique DEF InvShell, JoueurTenu, EstJoueur, Enfants, Musique
\* A child that is no player is started outside of a melody.
<1>2. ASSUME EstShell(shell'), shell.pc \notin Musique, NEW nom \in {"test", "Dummy", "NoName"},
             NEW p \in PidsFils \ Enfants,
             enfants' = [q \in Enfants \cup {p} |->
                 IF q = p THEN [nom |-> nom, vivant |-> TRUE] ELSE enfants[q]]
      PROVE  InvShell'
  <2>1. /\ EstEnfants(enfants') /\ Enfants' = Enfants \cup {p}
        /\ ~EstJoueur(p)' /\ \A q \in Enfants : EstJoueur(q)' <=> EstJoueur(q)
    BY <1>2, StartGarde DEF Noms
  <2>2. \A q \in Enfants : ~EstJoueur(q)
    BY <1>2, SansMusique
  <2> QED
    BY <1>2, <2>1, <2>2 DEF InvShell, JoueurTenu
\* A player is started outside of a melody.
<1>3. ASSUME EstShell(shell'), shell.pc \notin Musique, NEW nom \in {"boucle", "une fois"},
             NEW p \in PidsFils \ Enfants,
             enfants' = [q \in Enfants \cup {p} |->
                 IF q = p THEN [nom |-> nom, vivant |-> TRUE] ELSE enfants[q]],
             shell'.pid_player = p, shell'.pc \in Musique
      PROVE  InvShell'
  <2>1. /\ EstEnfants(enfants') /\ Enfants' = Enfants \cup {p}
        /\ \A q \in Enfants : EstJoueur(q)' <=> EstJoueur(q)
    BY <1>3, StartGarde DEF Noms
  <2>2. \A q \in Enfants : ~EstJoueur(q)
    BY <1>3, SansMusique
  <2> QED
    BY <1>3, <2>1, <2>2 DEF InvShell, JoueurTenu, Musique
<1>4. CASE superShell \/ Confirme \/ cmd_wait \/ cmd_ps \/ cmd_exit
  <2>1. UNCHANGED enfants /\ shell.pc \notin Musique
    BY <1>4 DEF superShell, Confirme, cmd_wait, cmd_ps, cmd_exit, Musique, Dangereuses
  <2>2. CASE superShell
    <3>1. PICK c \in Commandes, n \in PidsFils \cup {Aucun, PidShell} :
            shell' = [shell EXCEPT !.pc = IF c \in Dangereuses THEN "confirme" ELSE c,
                                   !.jeu = c, !.numero = n]
      BY <2>2 DEF superShell
    <3>2. EstShell(shell')
      BY <3>1 DEF InvShell
    <3> QED
      BY <1>1, <2>1, <3>2
  <2>3. CASE ~superShell
    <3>1. EstShell(shell')
      BY <1>4, <2>3 DEF Confirme, cmd_wait, cmd_ps, cmd_exit, Va, InvShell
    <3> QED
      BY <1>1, <2>1, <3>1
  <2> QED
    BY <2>2, <2>3
<1>5. CASE cmd_test
  <2>1. shell.pc \notin Musique
    BY <1>5 DEF cmd_test, Musique, Dangereuses
  <2>2. CASE UNCHANGED enfants /\ shell' = [shell EXCEPT !.pc = "waitpid", !.numero = Aucun]
    BY <1>1, <2>1, <2>2 DEF InvShell, Aucun
  <2>3. ASSUME NEW p \in PidsFils \ Enfants,
               enfants' = [q \in Enfants \cup {p} |->
                   IF q = p THEN [nom |-> "test", vivant |-> TRUE] ELSE enfants[q]],
               shell' = [shell EXCEPT !.pc = "waitpid", !.numero = p]
        PROVE  InvShell'
    <3>1. EstShell(shell')
      BY <2>3 DEF InvShell
    <3> QED
      BY <1>2, <2>1, <2>3, <3>1
  <2> QED
    BY <1>5, <2>2, <2>3 DEF cmd_test, start
<1>6. CASE cmd_create_proc
  <2>1. shell.pc \notin Musique /\ shell' = [shell EXCEPT !.pc = "invite"]
    BY <1>6 DEF cmd_create_proc, Musique, start, Va
  <2>2. EstShell(shell')
    BY <2>1 DEF InvShell
  <2>3. CASE UNCHANGED enfants
    BY <1>1, <2>1, <2>2, <2>3
  <2>4. ASSUME NEW p \in PidsFils \ Enfants, NEW nom \in {"Dummy", "NoName"},
               enfants' = [q \in Enfants \cup {p} |->
                   IF q = p THEN [nom |-> nom, vivant |-> TRUE] ELSE enfants[q]]
        PROVE  InvShell'
    BY <1>2, <2>1, <2>2, <2>4
  <2> QED
    BY <1>6, <2>3, <2>4 DEF cmd_create_proc, start
<1>7. CASE cmd_kill
  <2>1. /\ shell.pc \notin Musique /\ Tue(shell.numero) /\ EstShell(shell')
    BY <1>7 DEF cmd_kill, Musique, Va, InvShell
  <2> QED
    BY <2>1, TueGarde, SansMusique DEF InvShell, JoueurTenu
<1>8. CASE Attend
  <2>1. shell.pc \notin Musique /\ EstShell(shell')
    BY <1>8 DEF Attend, Musique, Va, InvShell
  <2>2. CASE UNCHANGED enfants
    BY <1>1, <2>1, <2>2
  <2>3. ASSUME NEW p, Recueille(p) PROVE InvShell'
    BY <2>1, <2>3, RecueilleGarde, SansMusique DEF InvShell, JoueurTenu
  <2> QED
    BY <1>8, <2>2, <2>3 DEF Attend
<1>9. CASE CommenceJeu
  <2>1. shell.pc \notin Musique
    BY <1>9 DEF CommenceJeu, Musique, Jeux
  <2> DEFINE s(p) == [shell EXCEPT !.pc = "joue", !.pid_player = p,
                                   !.try_left = Essais, !.reste = Lettres]
  <2>2. ASSUME NEW p, shell' = s(p)
        PROVE  EstShell(shell') /\ shell'.pc = "joue" /\ shell'.pid_player = p
    BY <2>2 DEF InvShell
  <2>3. CASE UNCHANGED enfants /\ shell' = s(Aucun)
    <3>1. EstShell(shell')
      BY <2>3 DEF InvShell
    <3> QED
      BY <1>1, <2>1, <2>3, <3>1
  <2>4. ASSUME NEW p \in PidsFils \ Enfants, shell' = s(p),
               enfants' = [q \in Enfants \cup {p} |->
                   IF q = p THEN [nom |-> "boucle", vivant |-> TRUE] ELSE enfants[q]]
        PROVE  InvShell'
    <3> HIDE DEF s
    <3>1. EstShell(shell') /\ shell'.pc \in Musique /\ shell'.pid_player = p
      BY <2>2, <2>4 DEF Musique
    <3> QED
      BY <1>3, <2>1, <2>4, <3>1
  <2> QED
    BY <1>9, <2>3, <2>4 DEF CommenceJeu, start
<1>10. CASE Propose
  <2>1. /\ UNCHANGED enfants /\ EstShell(shell')
        /\ shell'.pc \in Musique /\ shell'.pid_player = shell.pid_player
    BY <1>10 DEF Propose, Musique, Va, InvShell
  <2> QED
    BY <1>1, <2>1
<1>11. CASE cmd_theme
  <2>1. shell.pc \notin Musique
    BY <1>11 DEF cmd_theme, Musique
  <2>2. CASE UNCHANGED enfants /\ Va("invite")
    BY <1>1, <2>1, <2>2 DEF InvShell, Va
  <2>3. ASSUME NEW p \in PidsFils \ Enfants,
               enfants' = [q \in Enfants \cup {p} |->
                   IF q = p THEN [nom |-> "une fois", vivant |-> TRUE] ELSE enfants[q]],
               shell' = [shell EXCEPT !.pc = "finJeu", !.pid_player = p]
        PROVE  InvShell'
    <3>1. EstShell(shell') /\ shell'.pc \in Musique /\ shell'.pid_player = p
      BY <2>3 DEF InvShell, Musique
    <3> QED
      BY <1>3, <2>1, <2>3, <3>1
  <2>4. \A p \in PidsFils : p # Aucun
    BY ShellAssumption DEF Aucun
  <2> QED
    BY <1>11, <2>2, <2>3, <2>4 DEF cmd_theme, start
<1>12. CASE ArreteMusique
  <2>1. CASE shell.pid_player = Aucun
    <3>1. UNCHANGED enfants /\ EstShell(shell')
      BY <1>12, <2>1 DEF ArreteMusique, Va, InvShell
    <3> QED
      BY <1>1, <2>1, <3>1
  <2>2. CASE shell.pid_player # Aucun
    <3>1. /\ Tue(shell.pid_player) /\ EstShell(shell')
          /\ shell'.pc = "recueille" /\ shell'.pid_player = shell.pid_player
      BY <1>12, <2>2 DEF ArreteMusique, Va, ApresKill, InvShell
    <3> QED
      BY <3>1, TueGarde DEF InvShell, JoueurTenu
  <2> QED
    BY <2>1, <2>2
<1>13. CASE RecueilleJoueur \/ AttendFinale
  <2>1. Recueille(shell.pid_player) /\ EstShell(shell')
    BY <1>13 DEF RecueilleJoueur, AttendFinale, InvShell, Aucun
  <2> QED
    BY <2>1, RecueilleGarde DEF InvShell, JoueurTenu
<1>14. CASE Finale
  <2>1. shell.pc \notin Musique
    BY <1>14 DEF Finale, Musique
  <2>2. CASE UNCHANGED enfants /\ shell' = [shell EXCEPT !.pc = "invite", !.pid_player = Aucun]
    BY <1>1, <2>1, <2>2 DEF InvShell, Aucun
  <2>3. ASSUME NEW p \in PidsFils \ Enfants,
               enfants' = [q \in Enfants \cup {p} |->
                   IF q = p THEN [nom |-> "une fois", vivant |-> TRUE] ELSE enfants[q]],
               shell' = [shell EXCEPT !.pc = "attendFinale", !.pid_player = p]
        PROVE  InvShell'
    <3>1. EstShell(shell') /\ shell'.pc \in Musique /\ shell'.pid_player = p
      BY <2>3 DEF InvShell, Musique
    <3> QED
      BY <1>3, <2>1, <2>3, <3>1
  <2>4. \A p \in PidsFils : p # Aucun
    BY ShellAssumption DEF Aucun
  <2> QED
    BY <1>14, <2>2, <2>3, <2>4 DEF Finale, start
<1>15. ASSUME NEW p \in PidsFils, Finit(p) PROVE InvShell'
  <2>1. Tue(p) /\ UNCHANGED shell
    BY <1>15 DEF Finit
  <2> QED
    BY <2>1, TueGarde DEF InvShell, JoueurTenu
<1>16. CASE UNCHANGED shellVars
  BY <1>16 DEF shellVars, InvShell, JoueurTenu, Enfants, EstJoueur
<1> QED
  BY <1>4, <1>5, <1>6, <1>7, <1>8, <1>9, <1>10, <1>11, <1>12, <1>13, <1>14, <1>15, <1>16
     DEF ShellNext

\* No player outlives the command whose Theme it reads, the pid that a game or
\* a theme kills is that of its player, and one melody at most is played.
THEOREM MusiqueTenueCorrecte == SpecMachines => []MusiqueTenue
<1> DEFINE I == banc = "shell" => InvShell
<1>1. MachinesInit => I
  BY ShellInitial DEF MachinesInit
<1>2. I /\ [MachinesNext]_machinesVars => I'
  BY BancShell, ShellPas
<1>3. I => MusiqueTenue
  BY DEF InvShell, MusiqueTenue
<1> QED
  BY <1>1, <1>2, <1>3, PTL DEF SpecMachines

-----------------------------------------------------------------------------
\* The philosophers.

LEMMA BancPhilosophes ==
    ASSUME [MachinesNext]_machinesVars
    PROVE  UNCHANGED banc /\ (banc = "philosophes" => [PhilosophesNext]_philosophesVars)
BY DEF MachinesNext, Banc, machinesVars

\* The lines of a philosopher's program: those where it waits for the mutex,
\* those between wait and signal.
LignesAttente == {1, 5, 8, 11, 14, 17, 20}
LignesSignal == {3, 7, 10, 13, 16, 19, 22}
LignesSection == LignesSignal \cup {2, 6, 9, 12, 15, 18, 21}

LEMMA ProgrammeLignes ==
    /\ Len(UnTour) = 19
    /\ \A l \in LignesAttente : Programme[l] = "wait"
    /\ \A l \in LignesSignal : Programme[l] = "signal"
    /\ \A l \in {9, 18, 21} : Programme[l] = "-"
    /\ Programme[2] = "prend" /\ Programme[4] = "attend" /\ Programme[6] = "m"
    /\ Programme[12] = "pose" /\ Programme[15] = "p" /\ Programme[23] = "fini"
BY DEF Programme, UnTour, Section, prendre_fourchettes, manger, poser_fourchettes, penser,
       LignesAttente, LignesSignal

\* The line an instruction is found at.
LEMMA InstructionLigne ==
    ASSUME NEW i, philosophe[i].ligne \in 1 .. 23
    PROVE  /\ Instruction(i) = "wait" <=> philosophe[i].ligne \in LignesAttente
           /\ Instruction(i) = "signal" <=> philosophe[i].ligne \in LignesSignal
           /\ Instruction(i) = "-" <=> philosophe[i].ligne \in {9, 18, 21}
           /\ Instruction(i) = "prend" <=> philosophe[i].ligne = 2
           /\ Instruction(i) = "attend" <=> philosophe[i].ligne = 4
           /\ Instruction(i) = "m" <=> philosophe[i].ligne = 6
           /\ Instruction(i) = "pose" <=> philosophe[i].ligne = 12
           /\ Instruction(i) = "p" <=> philosophe[i].ligne = 15
           /\ Instruction(i) = "fini" <=> philosophe[i].ligne = 23
<1> DEFINE l == philosophe[i].ligne
           x == Programme[l]
<1>1. Instruction(i) = x
  BY DEF Instruction
<1>2. CASE l \in LignesAttente
  BY <1>1, <1>2, ProgrammeLignes DEF LignesAttente, LignesSignal
<1>3. CASE l \in LignesSignal
  BY <1>1, <1>3, ProgrammeLignes DEF LignesAttente, LignesSignal
<1>4. CASE l \in {2, 4, 6, 9, 12, 15, 18, 21, 23}
  BY <1>1, <1>4, ProgrammeLignes DEF LignesAttente, LignesSignal
<1>5. \A k \in 1 .. 23 : k \in LignesAttente \cup LignesSignal \cup {2, 4, 6, 9, 12, 15, 18, 21, 23}
  BY DEF LignesAttente, LignesSignal
<1> QED
  BY <1>2, <1>3, <1>4, <1>5

\* The table.
LEMMA Reste ==
    ASSUME NEW n \in Nat \ {0}, NEW a \in 0 .. n - 1
    PROVE  a % n = a /\ (n + a) % n = a
OBVIOUS

LEMMA Table ==
    ASSUME NEW i \in Convives
    PROVE  /\ Droite(i) = IF i = NR_PHILO - 1 THEN 0 ELSE i + 1
           /\ Gauche(i) = IF i = 0 THEN NR_PHILO - 1 ELSE i - 1
<1>1. i \in 0 .. NR_PHILO - 1 /\ NR_PHILO \in Nat \ {0}
  BY PhilosophesAssumption DEF Convives
<1>2. ASSUME i = NR_PHILO - 1 PROVE Droite(i) = 0
  <2>1. i + 1 = NR_PHILO + 0 /\ 0 \in 0 .. NR_PHILO - 1
    BY <1>1, <1>2
  <2>2. (NR_PHILO + 0) % NR_PHILO = 0
    BY <1>1, <2>1, Reste
  <2> QED
    BY <2>1, <2>2 DEF Droite
<1>3. ASSUME i # NR_PHILO - 1 PROVE Droite(i) = i + 1
  <2>1. i + 1 \in 0 .. NR_PHILO - 1
    BY <1>1, <1>3
  <2> QED
    BY <1>1, <2>1, Reste DEF Droite
<1>4. ASSUME i = 0 PROVE Gauche(i) = NR_PHILO - 1
  <2>1. i + NR_PHILO - 1 = NR_PHILO - 1 /\ NR_PHILO - 1 \in 0 .. NR_PHILO - 1
    BY <1>1, <1>4
  <2>2. (NR_PHILO - 1) % NR_PHILO = NR_PHILO - 1
    BY <1>1, <2>1, Reste
  <2> QED
    BY <2>1, <2>2 DEF Gauche
<1>5. ASSUME i # 0 PROVE Gauche(i) = i - 1
  <2>1. i + NR_PHILO - 1 = NR_PHILO + (i - 1) /\ i - 1 \in 0 .. NR_PHILO - 1
    BY <1>1, <1>5
  <2>2. (NR_PHILO + (i - 1)) % NR_PHILO = i - 1
    BY <1>1, <2>1, Reste
  <2> QED
    BY <2>1, <2>2 DEF Gauche
<1> QED
  BY <1>2, <1>3, <1>4, <1>5

LEMMA Ronde ==
    ASSUME NEW i \in Convives
    PROVE  /\ Droite(i) \in Convives /\ Gauche(i) \in Convives
           /\ Droite(Gauche(i)) = i /\ Gauche(Droite(i)) = i
           /\ Droite(i) # i /\ Gauche(i) # i /\ Gauche(i) # Droite(i)
           /\ Droite(Droite(i)) # i
<1>1. NR_PHILO \in Nat /\ NR_PHILO >= 3 /\ i \in 0 .. NR_PHILO - 1
  BY PhilosophesAssumption DEF Convives
<1>2. Droite(i) \in Convives /\ Gauche(i) \in Convives
  BY <1>1, Table DEF Convives
<1>3. /\ Droite(i) = IF i = NR_PHILO - 1 THEN 0 ELSE i + 1
      /\ Gauche(i) = IF i = 0 THEN NR_PHILO - 1 ELSE i - 1
  BY Table
<1>4. /\ Droite(Gauche(i)) = IF Gauche(i) = NR_PHILO - 1 THEN 0 ELSE Gauche(i) + 1
      /\ Gauche(Droite(i)) = IF Droite(i) = 0 THEN NR_PHILO - 1 ELSE Droite(i) - 1
      /\ Droite(Droite(i)) = IF Droite(i) = NR_PHILO - 1 THEN 0 ELSE Droite(i) + 1
  BY <1>2, Table
<1> QED
  BY <1>1, <1>2, <1>3, <1>4

LEMMA MutexHorsTable == mutex_philo \notin Convives
BY PhilosophesAssumption DEF mutex_philo, Convives

-----------------------------------------------------------------------------
Philosophe == [ligne : 1 .. 23, tour : Nat, dort : BOOLEAN]
SemPhilo == [compte : Int, file : Seq(Convives), detruit : BOOLEAN]

TypeRepas ==
    /\ fourchette \in [Convives -> BOOLEAN]
    /\ bloque \in [Convives -> BOOLEAN]
    /\ humeur \in [Convives -> {"m", "p", "-"}]
    /\ philosophe \in [Convives -> Philosophe]
    /\ semaphores \in [Convives \cup {mutex_philo} -> SemPhilo]
    /\ lances \in -1 .. NR_PHILO /\ test200 \in {"debut", "waitpid", "sdelete"}
    /\ \A i \in Convives : philosophe[i].dort => philosophe[i].ligne \in LignesAttente \cup {4}

\* In a section, asleep before one, asleep before the table.
Dedans(i) == philosophe[i].ligne \in LignesSection
AttendMutex(i) == philosophe[i].dort /\ philosophe[i].ligne \in LignesAttente
AttendTable(i) == philosophe[i].dort /\ philosophe[i].ligne = 4

\* Philosopher i has its forks.
Tient(i) ==
    philosophe[i].ligne \in 5 .. 12 \/ (philosophe[i].ligne \in {3, 4} /\ ~bloque[i])

\* One philosopher at most is in a section; the others that asked are in the
\* queue of the mutex, and the queue is empty when nobody is inside.
MutexJuste ==
    LET m == semaphores[mutex_philo]
    IN  /\ \A i, j \in Convives : Dedans(i) /\ Dedans(j) => i = j
        /\ (\E i \in Convives : Dedans(i)) => m.compte = - Len(m.file)
        /\ (\A i \in Convives : ~Dedans(i)) => m.compte = 1 /\ m.file = <<>>
        /\ \A k \in 1 .. Len(m.file) : AttendMutex(m.file[k])
        /\ \A k, l \in 1 .. Len(m.file) : m.file[k] = m.file[l] => k = l
        /\ \A i \in Convives : AttendMutex(i) => \E k \in 1 .. Len(m.file) : m.file[k] = i

\* The semaphore of a philosopher says whether it was given its forks.
PriveJuste(i) ==
    IF AttendTable(i)
    THEN semaphores[i].compte = -1 /\ semaphores[i].file = <<i>> /\ bloque[i]
    ELSE /\ semaphores[i].file = <<>>
         /\ semaphores[i].compte = IF philosophe[i].ligne \in {3, 4} /\ ~bloque[i] THEN 1 ELSE 0

\* A fork is in use when one of the two that share it eats, never both; a
\* philosopher is blocked only as long as one of its forks is in use.
TableJuste ==
    /\ \A i \in Convives : fourchette[i] <=> Tient(i) \/ Tient(Gauche(i))
    /\ \A i \in Convives : Tient(i) => ~Tient(Droite(i))
    /\ \A i \in Convives :
         bloque[i] => /\ philosophe[i].ligne \in {3, 4}
                      /\ fourchette[i] \/ fourchette[Droite(i)]
    /\ \A i \in Convives : humeur[i] = "m" => philosophe[i].ligne \in 7 .. 9

InvRepas ==
    /\ TypeRepas /\ TableJuste
    /\ test200 = "debut" => lances = -1
    /\ IF test200 = "sdelete"
       THEN lances = NR_PHILO /\ \A i \in Convives : philosophe[i].ligne = 23
       ELSE /\ \A s \in Convives \cup {mutex_philo} : ~semaphores[s].detruit
            /\ MutexJuste
            /\ \A i \in Convives : PriveJuste(i)

LEMMA RepasInitial == PhilosophesInit => InvRepas
<1> SUFFICES ASSUME PhilosophesInit PROVE InvRepas
  OBVIOUS
<1>1. /\ semaphores = [s \in Convives \cup {mutex_philo} |-> screate(IF s = mutex_philo THEN 1 ELSE 0)]
      /\ semaphores[mutex_philo] = screate(1)
      /\ \A s \in Convives : semaphores[s] = screate(0)
  BY MutexHorsTable DEF PhilosophesInit
<1>2. \A i \in Convives : philosophe[i].ligne = 1 /\ ~philosophe[i].dort
  BY DEF PhilosophesInit
<1>3. TypeRepas
  <2>1. semaphores \in [Convives \cup {mutex_philo} -> SemPhilo]
    BY <1>1, EmptySeq DEF screate, SemPhilo
  <2> QED
    BY <2>1, PhilosophesAssumption DEF PhilosophesInit, TypeRepas, Philosophe
<1>4. \A i \in Convives : ~Dedans(i) /\ ~AttendMutex(i) /\ ~AttendTable(i) /\ ~Tient(i)
  BY <1>2 DEF Dedans, AttendMutex, AttendTable, Tient, LignesSection, LignesSignal
<1>5. TableJuste
  BY <1>4, Ronde DEF TableJuste, PhilosophesInit
<1>6. MutexJuste
  <2>1. semaphores[mutex_philo].compte = 1 /\ semaphores[mutex_philo].file = <<>>
    BY <1>1 DEF screate
  <2> QED
    BY <1>4, <2>1, LenProperties, EmptySeq DEF MutexJuste
<1>7. \A i \in Convives : PriveJuste(i)
  <2> TAKE i \in Convives
  <2>1. semaphores[i].compte = 0 /\ semaphores[i].file = <<>>
    BY <1>1 DEF screate
  <2> QED
    BY <1>2, <1>4, <2>1 DEF PriveJuste
<1>8. \A s \in Convives \cup {mutex_philo} : ~semaphores[s].detruit
  BY <1>1 DEF screate
<1> QED
  BY <1>3, <1>5, <1>6, <1>7, <1>8 DEF InvRepas, PhilosophesInit

-----------------------------------------------------------------------------
\* The line after.
LEMMA ApresLigne ==
    ASSUME NEW p \in Philosophe, p.ligne # 23
    PROVE  /\ Apres(p) \in Philosophe /\ Apres(p).dort = FALSE
           /\ Apres(p).ligne = p.ligne + 1 \/ (p.ligne = 19 /\ Apres(p).ligne = 1)
<1> DEFINE l == p.ligne + 1
           t == p.tour + 1
<1>1. l \in 1 .. 23 /\ t \in Nat /\ 1 \in 1 .. 23
  BY DEF Philosophe
<1>2. CASE p.ligne = 19 /\ p.tour < Tours
  <2>1. Apres(p) = [ligne |-> 1, tour |-> t, dort |-> FALSE]
    BY <1>2, ProgrammeLignes DEF Apres
  <2> HIDE DEF t
  <2> QED
    BY <1>1, <1>2, <2>1 DEF Philosophe
<1>3. CASE ~(p.ligne = 19 /\ p.tour < Tours)
  <2>1. Apres(p) = [p EXCEPT !.ligne = l, !.dort = FALSE]
    BY <1>3, ProgrammeLignes DEF Apres
  <2>2. Apres(p).ligne = l /\ Apres(p).dort = FALSE
    BY <2>1 DEF Philosophe
  <2> HIDE DEF l
  <2>3. Apres(p) \in Philosophe
    BY <1>1, <2>1 DEF Philosophe
  <2> QED
    BY <2>2, <2>3 DEF l
<1> QED
  BY <1>2, <1>3

\* A philosopher stays at its line, or leaves it without taking or giving back
\* forks.
Progresse(j) ==
    \/ philosophe'[j].ligne = philosophe[j].ligne
    \/ /\ philosophe[j].ligne \in 1 .. 22 \ {2, 12}
       /\ philosophe[j].ligne = 4 => ~bloque[j]
       /\ \/ philosophe'[j].ligne = philosophe[j].ligne + 1
          \/ philosophe[j].ligne = 19 /\ philosophe'[j].ligne = 1

LEMMA TableStable ==
    ASSUME TableJuste, UNCHANGED <<fourchette, bloque>>,
           \A j \in Convives : Progresse(j),
           \A j \in Convives : humeur'[j] = "m" => philosophe'[j].ligne \in 7 .. 9
    PROVE  TableJuste'
<1>1. \A j \in Convives : Tient(j)' <=> Tient(j)
  BY DEF Progresse, Tient, TableJuste
<1>2. \A j \in Convives : Gauche(j) \in Convives /\ Droite(j) \in Convives
  BY Ronde
<1>3. \A j \in Convives : bloque[j] => philosophe'[j].ligne \in {3, 4}
  BY DEF Progresse, TableJuste
<1> QED
  BY <1>1, <1>2, <1>3 DEF TableJuste

LEMMA MutexStable ==
    ASSUME MutexJuste, semaphores'[mutex_philo] = semaphores[mutex_philo],
           semaphores[mutex_philo].file \in Seq(Convives),
           \A j \in Convives : (Dedans(j)' <=> Dedans(j)) /\ (AttendMutex(j)' <=> AttendMutex(j))
    PROVE  MutexJuste'
<1> DEFINE m == semaphores[mutex_philo]
<1>1. \A k \in 1 .. Len(m.file) : m.file[k] \in Convives
  BY ElementOfSeq
<1> QED
  BY <1>1 DEF MutexJuste

LEMMA PriveStable ==
    ASSUME NEW j \in Convives, PriveJuste(j), semaphores'[j] = semaphores[j],
           bloque'[j] = bloque[j], AttendTable(j)' <=> AttendTable(j),
           philosophe'[j].ligne \in {3, 4} <=> philosophe[j].ligne \in {3, 4}
    PROVE  PriveJuste(j)'
BY DEF PriveJuste

\* A philosopher that runs.
LEMMA EluFacts ==
    ASSUME InvRepas, NEW i \in Convives, Elu(i)
    PROVE  /\ test200 # "sdelete" /\ philosophe[i] \in Philosophe
           /\ philosophe[i].ligne \in 1 .. 22 /\ ~philosophe[i].dort
           /\ TypeRepas /\ TableJuste /\ MutexJuste
           /\ \A s \in Convives \cup {mutex_philo} : ~semaphores[s].detruit
           /\ \A j \in Convives : PriveJuste(j)
<1>1. philosophe[i] \in Philosophe /\ ~philosophe[i].dort /\ Instruction(i) # "fini"
  BY DEF Elu, Pret, InvRepas, TypeRepas
<1>2. philosophe[i].ligne \in 1 .. 23
  BY <1>1 DEF Philosophe
<1>3. philosophe[i].ligne # 23
  BY <1>1, <1>2, InstructionLigne
<1>4. philosophe[i].ligne \in 1 .. 22
  BY <1>2, <1>3
<1>5. test200 # "sdelete"
  BY <1>3 DEF InvRepas
<1> QED
  BY <1>1, <1>4, <1>5 DEF InvRepas

LEMMA MutexTypes ==
    ASSUME TypeRepas, NEW s \in Convives \cup {mutex_philo}
    PROVE  /\ semaphores[s].compte \in Int /\ semaphores[s].file \in Seq(Convives)
           /\ Len(semaphores[s].file) \in Nat
           /\ \A k \in 1 .. Len(semaphores[s].file) : semaphores[s].file[k] \in Convives
           /\ semaphores[s] \in SemPhilo
<1>1. semaphores[s] \in SemPhilo
  BY DEF TypeRepas
<1>2. semaphores[s].file \in Seq(Convives)
  BY <1>1 DEF SemPhilo
<1> QED
  BY <1>1, <1>2, ElementOfSeq, LenProperties DEF SemPhilo

\* wait() on the mutex: it is free.
LEMMA AttenteLibre ==
    ASSUME InvRepas, NEW i \in Convives, Elu(i), Instruction(i) = "wait",
           attendre(i, mutex_philo), semaphores[mutex_philo].compte > 0
    PROVE  InvRepas'
<1> DEFINE m == semaphores[mutex_philo]
           x == [m EXCEPT !.compte = @ - 1]
           q == Apres(philosophe[i])
<1>0. /\ philosophe[i] \in Philosophe /\ philosophe[i].ligne \in LignesAttente
      /\ ~philosophe[i].dort /\ TypeRepas /\ TableJuste /\ MutexJuste /\ test200 # "sdelete"
      /\ ~m.detruit /\ m \in SemPhilo /\ m.file \in Seq(Convives) /\ Len(m.file) \in Nat
      /\ m.compte \in Int /\ \A j \in Convives : PriveJuste(j)
  BY EluFacts, InstructionLigne, MutexTypes DEF Philosophe
<1>1. /\ semaphores' = [semaphores EXCEPT ![mutex_philo] = x]
      /\ philosophe' = [philosophe EXCEPT ![i] = q]
      /\ UNCHANGED <<fourchette, bloque, humeur, lances, test200>>
  <2>1. ~(~m.detruit /\ m.compte <= 0)
    BY <1>0
  <2> QED
    BY <1>0, <2>1 DEF attendre
<1>2. (\A j \in Convives : ~Dedans(j)) /\ m.file = <<>> /\ m.compte = 1
  BY <1>0 DEF MutexJuste
<1>3. x \in SemPhilo /\ x.compte = 0 /\ x.file = <<>> /\ x.detruit = FALSE
  BY <1>0, <1>2 DEF SemPhilo
<1>4. q \in Philosophe /\ ~q.dort /\ q.ligne = philosophe[i].ligne + 1
  <2>1. philosophe[i].ligne # 23 /\ philosophe[i].ligne # 19
    BY <1>0 DEF LignesAttente
  <2> QED
    BY <1>0, <2>1, ApresLigne
<1> HIDE DEF x, q
<1>5. /\ semaphores'[mutex_philo] = x
      /\ \A s \in Convives : semaphores'[s] = semaphores[s]
      /\ semaphores' \in [Convives \cup {mutex_philo} -> SemPhilo]
  BY <1>0, <1>1, <1>3, MutexHorsTable DEF TypeRepas
<1>6. /\ philosophe'[i] = q /\ \A j \in Convives \ {i} : philosophe'[j] = philosophe[j]
      /\ philosophe' \in [Convives -> Philosophe]
  BY <1>0, <1>1, <1>4 DEF TypeRepas
<1>7. TypeRepas'
  BY <1>0, <1>1, <1>4, <1>5, <1>6 DEF TypeRepas
<1>8. TableJuste'
  <2>1. \A j \in Convives : Progresse(j)
    BY <1>0, <1>4, <1>6 DEF Progresse, LignesAttente
  <2>2. \A j \in Convives : humeur'[j] = "m" => philosophe'[j].ligne \in 7 .. 9
    BY <1>0, <1>1, <1>4, <1>6 DEF TableJuste, LignesAttente
  <2> QED
    BY <1>0, <1>1, <2>1, <2>2, TableStable
<1>9. MutexJuste'
  <2>1. \A j \in Convives : Dedans(j)' <=> j = i
    BY <1>0, <1>2, <1>4, <1>6 DEF Dedans, LignesSection, LignesSignal, LignesAttente
  <2>2. \A j \in Convives : ~AttendMutex(j)
    BY <1>2, LenProperties, EmptySeq, <1>0 DEF MutexJuste
  <2>3. \A j \in Convives : ~AttendMutex(j)'
    BY <2>2, <1>4, <1>6 DEF AttendMutex
  <2> QED
    BY <1>3, <1>5, <2>1, <2>3, EmptySeq DEF MutexJuste
<1>10. \A j \in Convives : PriveJuste(j)'
  <2> TAKE j \in Convives
  <2>1. /\ AttendTable(j)' <=> AttendTable(j)
        /\ philosophe'[j].ligne \in {3, 4} <=> philosophe[j].ligne \in {3, 4}
    BY <1>0, <1>4, <1>6 DEF AttendTable, LignesAttente
  <2> QED
    BY <1>0, <1>1, <1>5, <2>1, PriveStable
<1>11. \A s \in Convives \cup {mutex_philo} : ~semaphores'[s].detruit
  BY <1>3, <1>5, EluFacts
<1>12. test200 = "debut" => lances = -1
  BY DEF InvRepas
<1> QED
  BY <1>0, <1>1, <1>7, <1>8, <1>9, <1>10, <1>11, <1>12 DEF InvRepas

\* wait() on the mutex: a philosopher is inside.
LEMMA AttentePleine ==
    ASSUME InvRepas, NEW i \in Convives, Elu(i), Instruction(i) = "wait",
           attendre(i, mutex_philo), ~(semaphores[mutex_philo].compte > 0)
    PROVE  InvRepas'
<1> DEFINE m == semaphores[mutex_philo]
           f == Append(m.file, i)
           c == m.compte - 1
           x == [m EXCEPT !.compte = c, !.file = f]
           q == [philosophe[i] EXCEPT !.dort = TRUE]
<1>0. /\ philosophe[i] \in Philosophe /\ philosophe[i].ligne \in LignesAttente
      /\ ~philosophe[i].dort /\ TypeRepas /\ TableJuste /\ MutexJuste /\ test200 # "sdelete"
      /\ ~m.detruit /\ m \in SemPhilo /\ m.file \in Seq(Convives) /\ Len(m.file) \in Nat
      /\ m.compte \in Int /\ \A j \in Convives : PriveJuste(j)
  BY EluFacts, InstructionLigne, MutexTypes DEF Philosophe
<1>1. /\ semaphores' = [semaphores EXCEPT ![mutex_philo] = x]
      /\ philosophe' = [philosophe EXCEPT ![i] = q]
      /\ UNCHANGED <<fourchette, bloque, humeur, lances, test200>>
  <2>1. ~m.detruit /\ m.compte <= 0
    BY <1>0
  <2> QED
    BY <1>0, <2>1 DEF attendre
<1>2. (\E j \in Convives : Dedans(j)) /\ m.compte = - Len(m.file)
  BY <1>0 DEF MutexJuste
<1>3. /\ f \in Seq(Convives) /\ Len(f) = Len(m.file) + 1 /\ f[Len(m.file) + 1] = i
      /\ \A k \in 1 .. Len(m.file) : f[k] = m.file[k]
  BY <1>0, AppendProperties
<1>4. c \in Int /\ c = - Len(f)
  BY <1>0, <1>2, <1>3
<1> HIDE DEF c, f
<1>5. x \in SemPhilo /\ x.compte = - Len(f) /\ x.file = f /\ x.detruit = FALSE
  BY <1>0, <1>3, <1>4 DEF SemPhilo
<1>6. q \in Philosophe /\ q.dort /\ q.ligne = philosophe[i].ligne
  BY <1>0 DEF Philosophe
<1> HIDE DEF x, q
<1>7. /\ semaphores'[mutex_philo] = x
      /\ \A s \in Convives : semaphores'[s] = semaphores[s]
      /\ semaphores' \in [Convives \cup {mutex_philo} -> SemPhilo]
  BY <1>0, <1>1, <1>5, MutexHorsTable DEF TypeRepas
<1>8. /\ philosophe'[i] = q /\ \A j \in Convives \ {i} : philosophe'[j] = philosophe[j]
      /\ philosophe' \in [Convives -> Philosophe]
      /\ \A j \in Convives : philosophe'[j].ligne = philosophe[j].ligne
  BY <1>0, <1>1, <1>6 DEF TypeRepas
<1>9. TypeRepas'
  BY <1>0, <1>1, <1>6, <1>7, <1>8 DEF TypeRepas
<1>10. TableJuste'
  <2>1. \A j \in Convives : Progresse(j)
    BY <1>8 DEF Progresse
  <2>2. \A j \in Convives : humeur'[j] = "m" => philosophe'[j].ligne \in 7 .. 9
    BY <1>0, <1>1, <1>8 DEF TableJuste
  <2> QED
    BY <1>0, <1>1, <2>1, <2>2, TableStable
<1>11. MutexJuste'
  <2>1. \A j \in Convives : Dedans(j)' <=> Dedans(j)
    BY <1>8 DEF Dedans
  <2>2. \A j \in Convives : AttendMutex(j)' <=> AttendMutex(j) \/ j = i
    BY <1>0, <1>6, <1>8 DEF AttendMutex
  <2>3. ~AttendMutex(i)
    BY <1>0 DEF AttendMutex
  <2>4. \A k \in 1 .. Len(f) : k \in 1 .. Len(m.file) \/ k = Len(m.file) + 1
    BY <1>0, <1>3
  <2>5. \A k \in 1 .. Len(m.file) : m.file[k] \in Convives /\ AttendMutex(m.file[k]) /\ m.file[k] # i
    BY <1>0, <2>3, ElementOfSeq DEF MutexJuste
  <2>6. \A k \in 1 .. Len(f) : \E j \in Convives : j = f[k] /\ AttendMutex(j)'
    <3> TAKE k \in 1 .. Len(f)
    <3>1. CASE k \in 1 .. Len(m.file)
      <4>1. PICK j \in Convives : j = m.file[k] /\ AttendMutex(j)
        BY <2>5, <3>1
      <4>2. AttendMutex(j)'
        BY <2>2, <4>1
      <4> QED
        BY <1>3, <3>1, <4>1, <4>2
    <3>2. CASE k = Len(m.file) + 1
      <4>1. AttendMutex(i)'
        BY <2>2
      <4> QED
        BY <1>3, <3>2, <4>1
    <3> QED
      BY <2>4, <3>1, <3>2
  <2>7. \A k, l \in 1 .. Len(f) : f[k] = f[l] => k = l
    <3> TAKE k, l \in 1 .. Len(f)
    <3>1. k \in 1 .. Len(m.file) /\ l \in 1 .. Len(m.file) => (f[k] = f[l] => k = l)
      BY <1>0, <1>3 DEF MutexJuste
    <3>2. k \in 1 .. Len(m.file) /\ l = Len(m.file) + 1 => f[k] # f[l]
      BY <1>3, <2>5
    <3>3. l \in 1 .. Len(m.file) /\ k = Len(m.file) + 1 => f[k] # f[l]
      BY <1>3, <2>5
    <3> QED
      BY <2>4, <3>1, <3>2, <3>3
  <2>8. \A j \in Convives : AttendMutex(j)' => \E k \in 1 .. Len(f) : f[k] = j
    <3> TAKE j \in Convives
    <3>1. CASE j = i
      <4>1. Len(m.file) + 1 \in 1 .. Len(f)
        BY <1>0, <1>3
      <4> QED
        BY <1>3, <3>1, <4>1
    <3>2. CASE AttendMutex(j)
      <4>1. PICK k \in 1 .. Len(m.file) : m.file[k] = j
        BY <1>0, <3>2 DEF MutexJuste
      <4>2. k \in 1 .. Len(f) /\ f[k] = j
        BY <1>0, <1>3, <4>1
      <4> QED
        BY <4>2
    <3> QED
      BY <2>2, <3>1, <3>2
  <2>9. \A j, l \in Convives : Dedans(j)' /\ Dedans(l)' => j = l
    BY <1>0, <2>1 DEF MutexJuste
  <2> QED
    BY <1>2, <1>5, <1>7, <2>1, <2>6, <2>7, <2>8, <2>9 DEF MutexJuste
<1>12. \A j \in Convives : PriveJuste(j)'
  <2> TAKE j \in Convives
  <2>1. AttendTable(j)' <=> AttendTable(j)
    BY <1>0, <1>8 DEF AttendTable, LignesAttente
  <2> QED
    BY <1>0, <1>1, <1>7, <1>8, <2>1, PriveStable
<1>13. \A s \in Convives \cup {mutex_philo} : ~semaphores'[s].detruit
  BY <1>5, <1>7, EluFacts
<1>14. test200 = "debut" => lances = -1
  BY DEF InvRepas
<1> QED
  BY <1>0, <1>1, <1>9, <1>10, <1>11, <1>12, <1>13, <1>14 DEF InvRepas

\* wait() on the philosopher's own semaphore.
LEMMA AttenteTable ==
    ASSUME InvRepas, NEW i \in Convives, Elu(i), Instruction(i) = "attend", attendre(i, i)
    PROVE  InvRepas'
<1> DEFINE s == semaphores[i]
           b == s.compte <= 0
           f == IF b THEN Append(s.file, i) ELSE s.file
           c == s.compte - 1
           x == [s EXCEPT !.compte = c, !.file = f]
           q == IF b THEN [philosophe[i] EXCEPT !.dort = TRUE] ELSE Apres(philosophe[i])
<1>0. /\ philosophe[i] \in Philosophe /\ philosophe[i].ligne = 4
      /\ ~philosophe[i].dort /\ TypeRepas /\ TableJuste /\ MutexJuste /\ test200 # "sdelete"
      /\ ~s.detruit /\ s \in SemPhilo /\ s.file \in Seq(Convives)
      /\ s.compte \in Int /\ \A j \in Convives : PriveJuste(j)
  BY EluFacts, InstructionLigne, MutexTypes DEF Philosophe
<1>1. /\ semaphores' = [semaphores EXCEPT ![i] = x]
      /\ philosophe' = [philosophe EXCEPT ![i] = q]
      /\ UNCHANGED <<fourchette, bloque, humeur, lances, test200>>
  BY <1>0 DEF attendre
<1>2. s.file = <<>> /\ s.compte = IF bloque[i] THEN 0 ELSE 1
  BY <1>0 DEF PriveJuste, AttendTable
<1>3. /\ b <=> bloque[i]
      /\ f \in Seq(Convives) /\ f = IF bloque[i] THEN <<i>> ELSE <<>>
      /\ c \in Int /\ c = IF bloque[i] THEN -1 ELSE 0
  <2>1. (b <=> bloque[i]) /\ c \in Int /\ c = IF bloque[i] THEN -1 ELSE 0
    BY <1>2
  <2>2. Append(s.file, i) = <<i>> /\ <<i>> \in Seq(Convives)
    BY <1>2
  <2> QED
    BY <1>0, <1>2, <2>1, <2>2
<1>4. /\ q \in Philosophe /\ (q.dort <=> bloque[i])
      /\ q.ligne = IF bloque[i] THEN 4 ELSE 5
  <2>1. CASE b
    BY <1>0, <1>3, <2>1 DEF Philosophe
  <2>2. CASE ~b
    <3>1. q = Apres(philosophe[i]) /\ philosophe[i].ligne # 23 /\ philosophe[i].ligne # 19
      BY <1>0, <2>2
    <3>2. /\ Apres(philosophe[i]) \in Philosophe /\ Apres(philosophe[i]).dort = FALSE
          /\ Apres(philosophe[i]).ligne = philosophe[i].ligne + 1
      BY <1>0, <3>1, ApresLigne
    <3>3. ~bloque[i] /\ philosophe[i].ligne + 1 = 5
      BY <1>0, <1>3, <2>2
    <3> HIDE DEF q
    <3> QED
      BY <3>1, <3>2, <3>3
  <2> QED
    BY <2>1, <2>2
<1> HIDE DEF b, c, f
<1>5. x \in SemPhilo /\ x.compte = c /\ x.file = f /\ x.detruit = FALSE
  BY <1>0, <1>3 DEF SemPhilo
<1> HIDE DEF x, q
<1>6. /\ semaphores'[i] = x
      /\ \A j \in (Convives \ {i}) \cup {mutex_philo} : semaphores'[j] = semaphores[j]
      /\ semaphores' \in [Convives \cup {mutex_philo} -> SemPhilo]
  BY <1>0, <1>1, <1>5, MutexHorsTable DEF TypeRepas
<1>7. /\ philosophe'[i] = q /\ \A j \in Convives \ {i} : philosophe'[j] = philosophe[j]
      /\ philosophe' \in [Convives -> Philosophe]
  BY <1>0, <1>1, <1>4 DEF TypeRepas
<1>8. TypeRepas'
  BY <1>0, <1>1, <1>4, <1>6, <1>7 DEF TypeRepas
<1>9. TableJuste'
  <2>1. \A j \in Convives : Progresse(j)
    BY <1>0, <1>4, <1>7 DEF Progresse
  <2>2. \A j \in Convives : humeur'[j] = "m" => philosophe'[j].ligne \in 7 .. 9
    BY <1>0, <1>1, <1>7 DEF TableJuste
  <2> QED
    BY <1>0, <1>1, <2>1, <2>2, TableStable
<1>10. MutexJuste'
  <2>1. \A j \in Convives : (Dedans(j)' <=> Dedans(j)) /\ (AttendMutex(j)' <=> AttendMutex(j))
    <3> TAKE j \in Convives
    <3>1. CASE j = i
      <4>1. ~Dedans(j) /\ ~AttendMutex(j)
        BY <1>0, <3>1 DEF Dedans, AttendMutex, LignesSection, LignesSignal
      <4>2. CASE bloque[i]
        BY <1>4, <1>7, <3>1, <4>1, <4>2
           DEF Dedans, AttendMutex, LignesAttente, LignesSection, LignesSignal
      <4>3. CASE ~bloque[i]
        BY <1>4, <1>7, <3>1, <4>1, <4>3 DEF Dedans, AttendMutex, LignesSection, LignesSignal
      <4> QED
        BY <4>2, <4>3
    <3>2. CASE j # i
      BY <1>7, <3>2 DEF Dedans, AttendMutex
    <3> QED
      BY <3>1, <3>2
  <2>2. semaphores[mutex_philo].file \in Seq(Convives)
    BY <1>0, MutexTypes
  <2> QED
    BY <1>0, <1>6, <2>1, <2>2, MutexStable
<1>11. \A j \in Convives : PriveJuste(j)'
  <2> TAKE j \in Convives
  <2>1. CASE j = i
    BY <1>1, <1>3, <1>4, <1>5, <1>6, <1>7, <2>1 DEF PriveJuste, AttendTable
  <2>2. CASE j # i
    BY <1>0, <1>1, <1>6, <1>7, <2>2, PriveStable DEF AttendTable
  <2> QED
    BY <2>1, <2>2
<1>12. \A j \in Convives \cup {mutex_philo} : ~semaphores'[j].detruit
  BY <1>5, <1>6, EluFacts
<1>13. test200 = "debut" => lances = -1
  BY DEF InvRepas
<1> QED
  BY <1>0, <1>1, <1>8, <1>9, <1>10, <1>11, <1>12, <1>13 DEF InvRepas

\* penser() and manger(): inside the section.
LEMMA PasMontre ==
    ASSUME InvRepas, NEW i \in Convives, Montre(i)
    PROVE  InvRepas'
<1> DEFINE q == Apres(philosophe[i])
<1>0. /\ philosophe[i] \in Philosophe /\ philosophe[i].ligne \in {6, 9, 15, 18, 21}
      /\ (Instruction(i) = "m" => philosophe[i].ligne = 6) /\ Instruction(i) \in {"m", "p", "-"}
      /\ ~philosophe[i].dort /\ TypeRepas /\ TableJuste /\ MutexJuste /\ test200 # "sdelete"
      /\ \A j \in Convives : PriveJuste(j)
      /\ \A s \in Convives \cup {mutex_philo} : ~semaphores[s].detruit
  BY EluFacts, InstructionLigne DEF Montre, Philosophe
<1>1. /\ semaphores' = semaphores
      /\ philosophe' = [philosophe EXCEPT ![i] = q]
      /\ humeur' = [humeur EXCEPT ![i] = Instruction(i)]
      /\ UNCHANGED <<fourchette, bloque, lances, test200>>
  <2>1. signaler(i, {}) /\ UNCHANGED <<fourchette, bloque, lances, test200>>
        /\ humeur' = [humeur EXCEPT ![i] = Instruction(i)]
    BY DEF Montre
  <2>2. semaphores' = [s \in DOMAIN semaphores |-> semaphores[s]]
    BY <2>1 DEF signaler
  <2>3. philosophe' = [j \in Convives |-> IF j = i THEN Apres(philosophe[j]) ELSE philosophe[j]]
    BY <2>1 DEF signaler
  <2> QED
    BY <1>0, <2>1, <2>2, <2>3 DEF TypeRepas
<1>2. q \in Philosophe /\ q.dort = FALSE /\ q.ligne = philosophe[i].ligne + 1
  <2>1. philosophe[i].ligne # 23 /\ philosophe[i].ligne # 19
    BY <1>0
  <2> QED
    BY <1>0, <2>1, ApresLigne
<1> HIDE DEF q
<1>3. /\ philosophe'[i] = q /\ \A j \in Convives \ {i} : philosophe'[j] = philosophe[j]
      /\ philosophe' \in [Convives -> Philosophe]
  BY <1>0, <1>1, <1>2 DEF TypeRepas
<1>4. TypeRepas'
  BY <1>0, <1>1, <1>2, <1>3 DEF TypeRepas
<1>5. TableJuste'
  <2>1. \A j \in Convives : Progresse(j)
    BY <1>0, <1>2, <1>3 DEF Progresse
  <2>2. \A j \in Convives : humeur'[j] = "m" => philosophe'[j].ligne \in 7 .. 9
    <3> TAKE j \in Convives
    <3>1. CASE j = i
      BY <1>0, <1>1, <1>2, <1>3, <3>1 DEF TypeRepas
    <3>2. CASE j # i
      BY <1>0, <1>1, <1>3, <3>2 DEF TypeRepas, TableJuste
    <3> QED
      BY <3>1, <3>2
  <2> QED
    BY <1>0, <1>1, <2>1, <2>2, TableStable
<1>6. MutexJuste'
  <2>1. \A j \in Convives : (Dedans(j)' <=> Dedans(j)) /\ (AttendMutex(j)' <=> AttendMutex(j))
    <3> TAKE j \in Convives
    <3>1. CASE j = i
      BY <1>0, <1>2, <1>3, <3>1 DEF Dedans, AttendMutex, LignesSection, LignesSignal
    <3>2. CASE j # i
      BY <1>3, <3>2 DEF Dedans, AttendMutex
    <3> QED
      BY <3>1, <3>2
  <2>2. semaphores[mutex_philo].file \in Seq(Convives)
    BY <1>0, MutexTypes
  <2> QED
    BY <1>0, <1>1, <2>1, <2>2, MutexStable
<1>7. \A j \in Convives : PriveJuste(j)'
  <2> TAKE j \in Convives
  <2>1. /\ AttendTable(j)' <=> AttendTable(j)
        /\ philosophe'[j].ligne \in {3, 4} <=> philosophe[j].ligne \in {3, 4}
    BY <1>0, <1>2, <1>3 DEF AttendTable
  <2> QED
    BY <1>0, <1>1, <2>1, PriveStable
<1>8. test200 = "debut" => lances = -1
  BY DEF InvRepas
<1> QED
  BY <1>0, <1>1, <1>4, <1>5, <1>6, <1>7, <1>8 DEF InvRepas

\* The line after a signal is outside.
LEMMA ApresSection ==
    ASSUME NEW l \in LignesSignal, NEW k, k = l + 1 \/ (l = 19 /\ k = 1)
    PROVE  k \notin LignesSection
<1>1. k \in {4, 8, 11, 14, 17, 20, 23, 1}
  BY DEF LignesSignal
<1>2. {4, 8, 11, 14, 17, 20, 23, 1} \cap LignesSection = {}
  BY DEF LignesSection, LignesSignal
<1> QED
  BY <1>1, <1>2

\* signal() on the mutex: nobody waits.
LEMMA SignalLibre ==
    ASSUME InvRepas, NEW i \in Convives, Signale(i), semaphores[mutex_philo].file = <<>>
    PROVE  InvRepas'
<1> DEFINE m == semaphores[mutex_philo]
           c == m.compte + 1
           x == [m EXCEPT !.compte = c]
           q == Apres(philosophe[i])
<1>0. /\ philosophe[i] \in Philosophe /\ philosophe[i].ligne \in LignesSignal
      /\ ~philosophe[i].dort /\ TypeRepas /\ TableJuste /\ MutexJuste /\ test200 # "sdelete"
      /\ ~m.detruit /\ m \in SemPhilo /\ m.compte \in Int
      /\ \A j \in Convives : PriveJuste(j)
      /\ \A s \in Convives \cup {mutex_philo} : ~semaphores[s].detruit
  BY EluFacts, InstructionLigne, MutexTypes DEF Signale, Philosophe
<1>1. /\ semaphores' = [semaphores EXCEPT ![mutex_philo] = x]
      /\ philosophe' = [philosophe EXCEPT ![i] = q]
      /\ UNCHANGED <<fourchette, bloque, humeur, lances, test200>>
  <2>1. signaler(i, {mutex_philo}) /\ UNCHANGED <<fourchette, bloque, humeur, lances, test200>>
    BY DEF Signale
  <2>2. semaphores' = [s \in DOMAIN semaphores |-> IF s = mutex_philo THEN x ELSE semaphores[s]]
    <3>1. x = [m EXCEPT !.compte = @ + 1, !.file = IF @ = <<>> THEN @ ELSE Tail(@)]
      BY <1>0 DEF SemPhilo
    <3> HIDE DEF x
    <3> QED
      BY <1>0, <2>1, <3>1 DEF signaler
  <2>3. philosophe' = [j \in Convives |-> IF j = i THEN Apres(philosophe[j]) ELSE philosophe[j]]
    BY <2>1 DEF signaler
  <2> HIDE DEF x
  <2> QED
    BY <1>0, <2>1, <2>2, <2>3 DEF TypeRepas
<1>2. Dedans(i) /\ m.compte = 0
  <2>1. Dedans(i)
    BY <1>0 DEF Dedans, LignesSection
  <2>2. m.compte = - Len(m.file)
    BY <1>0, <2>1 DEF MutexJuste
  <2>3. Len(m.file) \in Nat /\ Len(m.file) = 0
    BY EmptySeq
  <2>4. m.compte + Len(m.file) = 0
    BY <1>0, <2>2, <2>3
  <2>5. m.compte = 0
    BY <1>0, <2>3, <2>4
  <2> QED
    BY <2>1, <2>5
<1>3. x \in SemPhilo /\ x.compte = 1 /\ x.file = <<>> /\ x.detruit = FALSE
  <2>1. c \in Int /\ c = 1
    BY <1>2
  <2> HIDE DEF c
  <2> QED
    BY <1>0, <2>1 DEF SemPhilo
<1>4. /\ q \in Philosophe /\ q.dort = FALSE
      /\ q.ligne = philosophe[i].ligne + 1 \/ (philosophe[i].ligne = 19 /\ q.ligne = 1)
  <2>1. philosophe[i].ligne # 23
    BY <1>0 DEF LignesSignal
  <2> QED
    BY <1>0, <2>1, ApresLigne
<1> HIDE DEF x, q
<1>5. /\ semaphores'[mutex_philo] = x
      /\ \A s \in Convives : semaphores'[s] = semaphores[s]
      /\ semaphores' \in [Convives \cup {mutex_philo} -> SemPhilo]
  BY <1>0, <1>1, <1>3, MutexHorsTable DEF TypeRepas
<1>6. /\ philosophe'[i] = q /\ \A j \in Convives \ {i} : philosophe'[j] = philosophe[j]
      /\ philosophe' \in [Convives -> Philosophe]
  BY <1>0, <1>1, <1>4 DEF TypeRepas
<1>7. TypeRepas'
  BY <1>0, <1>1, <1>4, <1>5, <1>6 DEF TypeRepas
<1>8. TableJuste'
  <2>1. \A j \in Convives : Progresse(j)
    BY <1>0, <1>4, <1>6 DEF Progresse, LignesSignal
  <2>2. \A j \in Convives : humeur'[j] = "m" => philosophe'[j].ligne \in 7 .. 9
    BY <1>0, <1>1, <1>4, <1>6 DEF TableJuste, LignesSignal
  <2> QED
    BY <1>0, <1>1, <2>1, <2>2, TableStable
<1>9. MutexJuste'
  <2>1. \A j \in Convives : ~Dedans(j)'
    <3> TAKE j \in Convives
    <3>1. CASE j = i
      BY <1>0, <1>4, <1>6, <3>1, ApresSection DEF Dedans
    <3>2. CASE j # i
      BY <1>0, <1>2, <1>6, <3>2 DEF Dedans, MutexJuste
    <3> QED
      BY <3>1, <3>2
  <2>2. \A j \in Convives : ~AttendMutex(j)
    BY <1>0, EmptySeq, LenProperties DEF MutexJuste
  <2>3. \A j \in Convives : ~AttendMutex(j)'
    BY <2>2, <1>4, <1>6 DEF AttendMutex
  <2> QED
    BY <1>3, <1>5, <2>1, <2>3, EmptySeq DEF MutexJuste
<1>10. \A j \in Convives : PriveJuste(j)'
  <2> TAKE j \in Convives
  <2>1. /\ AttendTable(j)' <=> AttendTable(j)
        /\ philosophe'[j].ligne \in {3, 4} <=> philosophe[j].ligne \in {3, 4}
    BY <1>0, <1>4, <1>6 DEF AttendTable, LignesSignal
  <2> QED
    BY <1>0, <1>1, <1>5, <2>1, PriveStable
<1>11. \A s \in Convives \cup {mutex_philo} : ~semaphores'[s].detruit
  BY <1>0, <1>3, <1>5
<1>12. test200 = "debut" => lances = -1
  BY DEF InvRepas
<1> QED
  BY <1>0, <1>1, <1>7, <1>8, <1>9, <1>10, <1>11, <1>12 DEF InvRepas

\* signal() on the mutex: the first that waits is inside.
LEMMA SignalPasse ==
    ASSUME InvRepas, NEW i \in Convives, Signale(i), semaphores[mutex_philo].file # <<>>
    PROVE  InvRepas'
<1> DEFINE m == semaphores[mutex_philo]
           c == m.compte + 1
           f == Tail(m.file)
           n == Len(m.file)
           x == [m EXCEPT !.compte = c, !.file = f]
           h == Head(m.file)
           q == Apres(philosophe[i])
           r == Apres(philosophe[h])
<1>0. /\ philosophe[i] \in Philosophe /\ philosophe[i].ligne \in LignesSignal
      /\ ~philosophe[i].dort /\ TypeRepas /\ TableJuste /\ MutexJuste /\ test200 # "sdelete"
      /\ ~m.detruit /\ m \in SemPhilo /\ m.compte \in Int /\ m.file \in Seq(Convives)
      /\ \A j \in Convives : PriveJuste(j)
      /\ \A s \in Convives \cup {mutex_philo} : ~semaphores[s].detruit
  BY EluFacts, InstructionLigne, MutexTypes DEF Signale, Philosophe
<1>1. /\ n \in Nat /\ n > 0 /\ f \in Seq(Convives) /\ Len(f) = n - 1
      /\ h = m.file[1] /\ h \in Convives
      /\ \A k \in 1 .. n - 1 : f[k] = m.file[k + 1]
  <2>1. PICK s \in Seq(Convives) : s = m.file
    BY <1>0
  <2>2. s # <<>> /\ Len(s) \in Nat /\ Len(s) > 0
    BY <2>1, EmptySeq, LenProperties
  <2>3. /\ Head(s) \in Convives /\ Tail(s) \in Seq(Convives) /\ Len(Tail(s)) = Len(s) - 1
        /\ \A k \in 1 .. Len(s) - 1 : Tail(s)[k] = s[k + 1]
    BY <2>2, HeadTailProperties
  <2>4. Head(s) = s[1]
    BY DEF Head
  <2> QED
    BY <2>1, <2>2, <2>3, <2>4
<1>2. /\ semaphores' = [semaphores EXCEPT ![mutex_philo] = x]
      /\ philosophe' = [j \in Convives |->
             IF j = i THEN q ELSE IF j = h THEN r ELSE philosophe[j]]
      /\ UNCHANGED <<fourchette, bloque, humeur, lances, test200>>
  <2>1. signaler(i, {mutex_philo}) /\ UNCHANGED <<fourchette, bloque, humeur, lances, test200>>
    BY DEF Signale
  <2>2. semaphores' = [s \in DOMAIN semaphores |-> IF s = mutex_philo THEN x ELSE semaphores[s]]
    <3>1. x = [m EXCEPT !.compte = @ + 1, !.file = IF @ = <<>> THEN @ ELSE Tail(@)]
      BY <1>0 DEF SemPhilo
    <3> HIDE DEF x
    <3> QED
      BY <1>0, <2>1, <3>1 DEF signaler
  <2>3. {Head(semaphores[s].file) : s \in {y \in {mutex_philo} : semaphores[y].file # <<>>}} = {h}
    OBVIOUS
  <2>4. philosophe' = [j \in Convives |->
             IF j = i \/ j \in {h} THEN Apres(philosophe[j]) ELSE philosophe[j]]
    BY <2>1, <2>3 DEF signaler
  <2>5. philosophe' = [j \in Convives |->
             IF j = i THEN q ELSE IF j = h THEN r ELSE philosophe[j]]
    BY <2>4
  <2> HIDE DEF x
  <2> QED
    BY <1>0, <2>1, <2>2, <2>5 DEF TypeRepas
<1>3. Dedans(i) /\ m.compte = - n
  <2>1. Dedans(i)
    BY <1>0 DEF Dedans, LignesSection
  <2> QED
    BY <1>0, <2>1 DEF MutexJuste
<1>4. c \in Int /\ c = - Len(f)
  BY <1>0, <1>1, <1>3
<1>5. AttendMutex(h) /\ h # i /\ philosophe[h] \in Philosophe
  <2>1. AttendMutex(h)
    BY <1>0, <1>1 DEF MutexJuste
  <2> QED
    BY <1>0, <1>1, <2>1 DEF AttendMutex, TypeRepas
<1> HIDE DEF c, f, h, n
<1>6. x \in SemPhilo /\ x.compte = - Len(f) /\ x.file = f /\ x.detruit = FALSE
  BY <1>0, <1>1, <1>4 DEF SemPhilo
<1>7. /\ q \in Philosophe /\ q.dort = FALSE
      /\ q.ligne = philosophe[i].ligne + 1 \/ (philosophe[i].ligne = 19 /\ q.ligne = 1)
  <2>1. philosophe[i].ligne # 23
    BY <1>0 DEF LignesSignal
  <2> QED
    BY <1>0, <2>1, ApresLigne
<1>8. /\ r \in Philosophe /\ r.dort = FALSE /\ r.ligne = philosophe[h].ligne + 1
      /\ philosophe[h].ligne \in LignesAttente
  <2>1. philosophe[h].ligne \in LignesAttente
    BY <1>5 DEF AttendMutex
  <2>2. philosophe[h].ligne # 23 /\ philosophe[h].ligne # 19
    BY <2>1 DEF LignesAttente
  <2> QED
    BY <1>5, <2>1, <2>2, ApresLigne
<1> HIDE DEF x, q, r
<1>9. /\ semaphores'[mutex_philo] = x
      /\ \A s \in Convives : semaphores'[s] = semaphores[s]
      /\ semaphores' \in [Convives \cup {mutex_philo} -> SemPhilo]
  BY <1>0, <1>2, <1>6, MutexHorsTable DEF TypeRepas
<1>10. /\ philosophe'[i] = q /\ philosophe'[h] = r
       /\ \A j \in Convives \ {i, h} : philosophe'[j] = philosophe[j]
       /\ philosophe' \in [Convives -> Philosophe]
  BY <1>0, <1>1, <1>2, <1>5, <1>7, <1>8 DEF TypeRepas
<1>11. TypeRepas'
  BY <1>0, <1>2, <1>7, <1>8, <1>9, <1>10 DEF TypeRepas
<1>12. TableJuste'
  <2>1. \A j \in Convives : Progresse(j)
    <3> TAKE j \in Convives
    <3>1. CASE j = i
      BY <1>0, <1>7, <1>10, <3>1 DEF Progresse, LignesSignal
    <3>2. CASE j = h
      BY <1>8, <1>10, <3>2 DEF Progresse, LignesAttente
    <3>3. CASE j \notin {i, h}
      BY <1>10, <3>3 DEF Progresse
    <3> QED
      BY <3>1, <3>2, <3>3
  <2>2. \A j \in Convives : humeur'[j] = "m" => philosophe'[j].ligne \in 7 .. 9
    <3> TAKE j \in Convives
    <3>0. humeur[j] = "m" => philosophe[j].ligne \in 7 .. 9
      BY <1>0 DEF TableJuste
    <3>1. CASE j = i
      BY <1>0, <1>2, <1>7, <1>10, <3>0, <3>1 DEF LignesSignal
    <3>2. CASE j = h
      BY <1>2, <1>8, <1>10, <3>0, <3>2 DEF LignesAttente
    <3>3. CASE j \notin {i, h}
      BY <1>2, <1>10, <3>0, <3>3
    <3> QED
      BY <3>1, <3>2, <3>3
  <2> QED
    BY <1>0, <1>2, <2>1, <2>2, TableStable
<1>13. MutexJuste'
  <2>1. \A j \in Convives : Dedans(j)' <=> j = h
    <3> TAKE j \in Convives
    <3>1. CASE j = i
      BY <1>0, <1>5, <1>7, <1>10, <3>1, ApresSection DEF Dedans
    <3>2. CASE j = h
      BY <1>8, <1>10, <3>2 DEF Dedans, LignesSection, LignesAttente
    <3>3. CASE j \notin {i, h}
      <4>1. ~Dedans(j)
        BY <1>0, <1>3, <3>3 DEF MutexJuste
      <4> QED
        BY <1>10, <3>3, <4>1 DEF Dedans
    <3> QED
      BY <3>1, <3>2, <3>3
  <2>2. \A j \in Convives : AttendMutex(j)' <=> AttendMutex(j) /\ j # h
    <3> TAKE j \in Convives
    <3>1. CASE j = i
      BY <1>0, <1>7, <1>10, <3>1 DEF AttendMutex
    <3>2. CASE j = h
      BY <1>8, <1>10, <3>2 DEF AttendMutex
    <3>3. CASE j \notin {i, h}
      BY <1>10, <3>3 DEF AttendMutex
    <3> QED
      BY <3>1, <3>2, <3>3
  <2>3. \A k \in 1 .. n : m.file[k] \in Convives /\ AttendMutex(m.file[k])
    BY <1>0, ElementOfSeq DEF MutexJuste, n
  <2>4. \A k, l \in 1 .. n : m.file[k] = m.file[l] => k = l
    BY <1>0 DEF MutexJuste, n
  <2>5. \A k \in 1 .. Len(f) : k + 1 \in 1 .. n /\ f[k] = m.file[k + 1] /\ k + 1 # 1 /\ 1 \in 1 .. n
    BY <1>1
  <2>6. \A k \in 1 .. Len(f) : \E j \in Convives : j = f[k] /\ AttendMutex(j)'
    <3> TAKE k \in 1 .. Len(f)
    <3>1. PICK j \in Convives : j = m.file[k + 1] /\ AttendMutex(j) /\ j # h
      BY <1>1, <2>3, <2>4, <2>5
    <3>2. AttendMutex(j)'
      BY <2>2, <3>1
    <3> QED
      BY <2>5, <3>1, <3>2
  <2>7. \A k, l \in 1 .. Len(f) : f[k] = f[l] => k = l
    <3> TAKE k, l \in 1 .. Len(f)
    <3>1. f[k] = f[l] => k + 1 = l + 1
      BY <2>4, <2>5
    <3> QED
      BY <3>1
  <2>8. \A j \in Convives : AttendMutex(j)' => \E k \in 1 .. Len(f) : f[k] = j
    <3> SUFFICES ASSUME NEW j \in Convives, AttendMutex(j), j # h
                 PROVE  \E k \in 1 .. Len(f) : f[k] = j
      BY <2>2
    <3>1. PICK k \in 1 .. n : m.file[k] = j
      BY <1>0 DEF MutexJuste, n
    <3>2. k # 1
      BY <1>1, <3>1
    <3>3. k - 1 \in 1 .. n - 1 /\ (k - 1) + 1 = k
      BY <1>1, <3>2
    <3> QED
      BY <1>1, <3>1, <3>3
  <2>9. (\E j \in Convives : Dedans(j)') /\ \A j, l \in Convives : Dedans(j)' /\ Dedans(l)' => j = l
    BY <1>1, <2>1
  <2> QED
    BY <1>6, <1>9, <2>6, <2>7, <2>8, <2>9 DEF MutexJuste
<1>14. \A j \in Convives : PriveJuste(j)'
  <2> TAKE j \in Convives
  <2>1. /\ AttendTable(j)' <=> AttendTable(j)
        /\ philosophe'[j].ligne \in {3, 4} <=> philosophe[j].ligne \in {3, 4}
    <3>1. CASE j = i
      BY <1>0, <1>7, <1>10, <3>1 DEF AttendTable, LignesSignal
    <3>2. CASE j = h
      BY <1>8, <1>10, <3>2 DEF AttendTable, LignesAttente
    <3>3. CASE j \notin {i, h}
      BY <1>10, <3>3 DEF AttendTable
    <3> QED
      BY <3>1, <3>2, <3>3
  <2> QED
    BY <1>0, <1>2, <1>9, <2>1, PriveStable
<1>15. \A s \in Convives \cup {mutex_philo} : ~semaphores'[s].detruit
  BY <1>0, <1>6, <1>9
<1>16. test200 = "debut" => lances = -1
  BY DEF InvRepas
<1> QED
  BY <1>0, <1>2, <1>11, <1>12, <1>13, <1>14, <1>15, <1>16 DEF InvRepas

\* prendre_fourchettes(): the forks are free, or the philosopher is blocked.
LEMMA PasPrend ==
    ASSUME InvRepas, NEW i \in Convives, PrendFourchettes(i)
    PROVE  InvRepas'
<1> DEFINE s == semaphores[i]
           d == Droite(i)
           c == s.compte + 1
           x == [s EXCEPT !.compte = c]
           q == Apres(philosophe[i])
<1>0. /\ philosophe[i] \in Philosophe /\ philosophe[i].ligne = 2
      /\ ~philosophe[i].dort /\ TypeRepas /\ TableJuste /\ MutexJuste /\ test200 # "sdelete"
      /\ \A j \in Convives : PriveJuste(j)
      /\ \A j \in Convives \cup {mutex_philo} : ~semaphores[j].detruit
      /\ s \in SemPhilo
  BY EluFacts, InstructionLigne, MutexTypes DEF PrendFourchettes, Philosophe
<1>1. s.file = <<>> /\ s.compte = 0 /\ ~bloque[i] /\ ~Tient(i)
  BY <1>0 DEF PriveJuste, AttendTable, TableJuste, Tient
<1>2. q \in Philosophe /\ q.dort = FALSE /\ q.ligne = 3
  <2>1. philosophe[i].ligne # 23 /\ philosophe[i].ligne # 19
    BY <1>0
  <2>2. q \in Philosophe /\ q.dort = FALSE /\ q.ligne = philosophe[i].ligne + 1
    BY <1>0, <2>1, ApresLigne
  <2>3. philosophe[i].ligne + 1 = 3
    BY <1>0
  <2> QED
    BY <2>2, <2>3
<1>3. x \in SemPhilo /\ x.compte = 1 /\ x.file = <<>> /\ x.detruit = FALSE
  <2>1. c \in Int /\ c = 1
    BY <1>1
  <2> HIDE DEF c
  <2> QED
    BY <1>0, <1>1, <2>1 DEF SemPhilo
<1>4. /\ philosophe' = [philosophe EXCEPT ![i] = q]
      /\ UNCHANGED <<humeur, lances, test200>>
      /\ \/ /\ test(i) /\ UNCHANGED bloque
            /\ fourchette' = [fourchette EXCEPT ![i] = TRUE, ![d] = TRUE]
            /\ semaphores' = [semaphores EXCEPT ![i] = x]
         \/ /\ ~test(i) /\ UNCHANGED fourchette
            /\ bloque' = [bloque EXCEPT ![i] = TRUE]
            /\ semaphores' = semaphores
  <2>1. ASSUME signaler(i, {}) PROVE philosophe' = [philosophe EXCEPT ![i] = q] /\ semaphores' = semaphores
    <3>1. semaphores' = [y \in DOMAIN semaphores |-> semaphores[y]]
      BY <2>1 DEF signaler
    <3>2. philosophe' = [j \in Convives |-> IF j = i THEN Apres(philosophe[j]) ELSE philosophe[j]]
      BY <2>1 DEF signaler
    <3> QED
      BY <1>0, <3>1, <3>2 DEF TypeRepas
  <2>2. ASSUME signaler(i, {i})
        PROVE  philosophe' = [philosophe EXCEPT ![i] = q] /\ semaphores' = [semaphores EXCEPT ![i] = x]
    <3>1. semaphores' = [y \in DOMAIN semaphores |-> IF y = i THEN x ELSE semaphores[y]]
      <4>1. x = [s EXCEPT !.compte = @ + 1, !.file = IF @ = <<>> THEN @ ELSE Tail(@)]
        BY <1>0, <1>1 DEF SemPhilo
      <4> HIDE DEF x
      <4> QED
        BY <1>0, <2>2, <4>1 DEF signaler
    <3>2. philosophe' = [j \in Convives |-> IF j = i THEN Apres(philosophe[j]) ELSE philosophe[j]]
      BY <1>1, <2>2 DEF signaler
    <3> HIDE DEF x
    <3> QED
      BY <1>0, <3>1, <3>2 DEF TypeRepas
  <2> HIDE DEF x, q
  <2> QED
    BY <2>1, <2>2 DEF PrendFourchettes
<1> HIDE DEF x, q
<1>5. /\ philosophe'[i] = q /\ \A j \in Convives \ {i} : philosophe'[j] = philosophe[j]
      /\ philosophe' \in [Convives -> Philosophe]
  BY <1>0, <1>2, <1>4 DEF TypeRepas
<1>6. /\ bloque'[i] <=> ~test(i)
      /\ \A j \in Convives \ {i} : bloque'[j] = bloque[j]
      /\ bloque' \in [Convives -> BOOLEAN]
  <2>1. CASE test(i)
    BY <1>0, <1>1, <1>4, <2>1 DEF TypeRepas
  <2>2. CASE ~test(i)
    BY <1>0, <1>4, <2>2 DEF TypeRepas
  <2> QED
    BY <2>1, <2>2
<1>7. /\ \A j \in Convives : fourchette'[j] = IF test(i) /\ j \in {i, d} THEN TRUE ELSE fourchette[j]
      /\ fourchette' \in [Convives -> BOOLEAN]
  BY <1>0, <1>4, Ronde DEF TypeRepas
<1>8. /\ semaphores'[i] = IF test(i) THEN x ELSE s
      /\ \A j \in (Convives \cup {mutex_philo}) \ {i} : semaphores'[j] = semaphores[j]
      /\ semaphores' \in [Convives \cup {mutex_philo} -> SemPhilo]
  BY <1>0, <1>3, <1>4 DEF TypeRepas
<1>9. TypeRepas'
  <2>1. \A j \in Convives : philosophe'[j].dort => philosophe'[j].ligne \in LignesAttente \cup {4}
    BY <1>0, <1>2, <1>5 DEF TypeRepas
  <2> QED
    BY <1>0, <1>4, <1>5, <1>6, <1>7, <1>8, <2>1 DEF TypeRepas
<1>10. TableJuste'
  <2>0. /\ d \in Convives /\ Gauche(i) \in Convives /\ d # i /\ Gauche(d) = i /\ Droite(Gauche(i)) = i
        /\ \A j \in Convives : Droite(j) \in Convives /\ Gauche(j) \in Convives
        /\ \A j \in Convives : Gauche(j) = i <=> j = d
        /\ \A j \in Convives : Droite(j) = i <=> j = Gauche(i)
    BY Ronde
  <2>1. \A j \in Convives : Tient(j)' <=> Tient(j) \/ (test(i) /\ j = i)
    <3> TAKE j \in Convives
    <3>1. CASE j = i
      BY <1>1, <1>2, <1>5, <1>6, <3>1 DEF Tient
    <3>2. CASE j # i
      BY <1>5, <1>6, <3>2 DEF Tient
    <3> QED
      BY <3>1, <3>2
  <2>2. test(i) => ~Tient(Gauche(i)) /\ ~Tient(d)
    BY <1>0, <2>0 DEF test, TableJuste
  <2>3. \A j \in Convives : fourchette'[j] <=> Tient(j)' \/ Tient(Gauche(j))'
    <3> TAKE j \in Convives
    <3>1. fourchette[j] <=> Tient(j) \/ Tient(Gauche(j))
      BY <1>0 DEF TableJuste
    <3>2. Tient(j)' <=> Tient(j) \/ (test(i) /\ j = i)
      BY <2>1
    <3>3. Tient(Gauche(j))' <=> Tient(Gauche(j)) \/ (test(i) /\ j = d)
      BY <2>0, <2>1
    <3> QED
      BY <1>7, <3>1, <3>2, <3>3
  <2>4. \A j \in Convives : Tient(j)' => ~Tient(Droite(j))'
    <3> SUFFICES ASSUME NEW j \in Convives, Tient(j)', Tient(Droite(j))'
                 PROVE  FALSE
      OBVIOUS
    <3>1. Tient(j) \/ (test(i) /\ j = i)
      BY <2>1
    <3>2. Tient(Droite(j)) \/ (test(i) /\ j = Gauche(i))
      BY <2>0, <2>1
    <3>3. Tient(j) => ~Tient(Droite(j))
      BY <1>0 DEF TableJuste
    <3> QED
      BY <2>0, <2>2, <3>1, <3>2, <3>3
  <2>5. \A j \in Convives :
           bloque'[j] => philosophe'[j].ligne \in {3, 4} /\ (fourchette'[j] \/ fourchette'[Droite(j)])
    <3> TAKE j \in Convives
    <3>1. CASE j = i
      BY <1>2, <1>5, <1>6, <1>7, <2>0, <3>1 DEF test
    <3>2. CASE j # i
      BY <1>0, <1>5, <1>6, <1>7, <2>0, <3>2 DEF TableJuste
    <3> QED
      BY <3>1, <3>2
  <2>6. \A j \in Convives : humeur'[j] = "m" => philosophe'[j].ligne \in 7 .. 9
    BY <1>0, <1>4, <1>5 DEF TableJuste
  <2> QED
    BY <2>3, <2>4, <2>5, <2>6 DEF TableJuste
<1>11. MutexJuste'
  <2>1. \A j \in Convives : (Dedans(j)' <=> Dedans(j)) /\ (AttendMutex(j)' <=> AttendMutex(j))
    <3> TAKE j \in Convives
    <3>1. CASE j = i
      BY <1>0, <1>2, <1>5, <3>1 DEF Dedans, AttendMutex, LignesSection, LignesSignal
    <3>2. CASE j # i
      BY <1>5, <3>2 DEF Dedans, AttendMutex
    <3> QED
      BY <3>1, <3>2
  <2>2. semaphores[mutex_philo].file \in Seq(Convives)
    BY <1>0, MutexTypes
  <2>3. semaphores'[mutex_philo] = semaphores[mutex_philo]
    BY <1>8, MutexHorsTable
  <2> QED
    BY <1>0, <2>1, <2>2, <2>3, MutexStable
<1>12. \A j \in Convives : PriveJuste(j)'
  <2> TAKE j \in Convives
  <2>1. CASE j = i
    <3>1. ~AttendTable(i)'
      BY <1>2, <1>5 DEF AttendTable
    <3>2. /\ philosophe'[i].ligne = 3 /\ (bloque'[i] <=> ~test(i))
          /\ semaphores'[i] = IF test(i) THEN x ELSE s
      BY <1>2, <1>5, <1>6, <1>8
    <3>3. CASE test(i)
      BY <1>3, <2>1, <3>1, <3>2, <3>3 DEF PriveJuste
    <3>4. CASE ~test(i)
      BY <1>1, <2>1, <3>1, <3>2, <3>4 DEF PriveJuste
    <3> QED
      BY <3>3, <3>4
  <2>2. CASE j # i
    BY <1>0, <1>5, <1>6, <1>8, <2>2, PriveStable DEF AttendTable
  <2> QED
    BY <2>1, <2>2
<1>13. \A j \in Convives \cup {mutex_philo} : ~semaphores'[j].detruit
  BY <1>0, <1>3, <1>8
<1>14. test200 = "debut" => lances = -1
  BY DEF InvRepas
<1> QED
  BY <1>0, <1>4, <1>9, <1>10, <1>11, <1>12, <1>13, <1>14 DEF InvRepas

\* poser_fourchettes(): a neighbour is given forks.
CedeGauche(i) == Cede(fourchette, Gauche(i), Gauche(i))
UneFourchette(i) ==
    [fourchette EXCEPT ![i] = CedeGauche(i), ![Gauche(i)] = @ \/ CedeGauche(i)]
CedeDroite(i) == Cede(UneFourchette(i), Droite(i), Droite(Droite(i)))
Servis(i) ==
    (IF CedeGauche(i) THEN {Gauche(i)} ELSE {}) \cup (IF CedeDroite(i) THEN {Droite(i)} ELSE {})

\* The table after it, philosopher by philosopher.
LEMMA FourchettesPosees ==
    ASSUME fourchette \in [Convives -> BOOLEAN], bloque \in [Convives -> BOOLEAN],
           NEW i \in Convives, Pose(i)
    PROVE  LET g == Gauche(i)
               d == Droite(i)
               dd == Droite(d)
           IN  /\ g \in Servis(i) <=> bloque[g] /\ ~fourchette[g]
               /\ d \in Servis(i) <=>
                      bloque[d] /\ ~fourchette[dd] /\ ~(dd = g /\ g \in Servis(i))
               /\ Servis(i) \subseteq {g, d}
               /\ fourchette' \in [Convives -> BOOLEAN] /\ bloque' \in [Convives -> BOOLEAN]
               /\ fourchette'[i] <=> g \in Servis(i)
               /\ fourchette'[d] <=> d \in Servis(i)
               /\ \A j \in Convives \ {i, d} :
                      fourchette'[j] <=> \/ fourchette[j]
                                         \/ j = g /\ g \in Servis(i)
                                         \/ j = dd /\ d \in Servis(i)
               /\ \A j \in Convives : bloque'[j] <=> bloque[j] /\ j \notin Servis(i)
               /\ signaler(i, Servis(i)) /\ UNCHANGED <<humeur, lances, test200>>
<1> DEFINE g == Gauche(i)
           d == Droite(i)
           dd == Droite(d)
           a == CedeGauche(i)
           f == UneFourchette(i)
           b == CedeDroite(i)
<1>1. /\ g \in Convives /\ d \in Convives /\ dd \in Convives
      /\ d # i /\ g # i /\ g # d /\ dd # d /\ dd # i
  BY Ronde
<1>2. a <=> bloque[g] /\ ~fourchette[g]
  BY DEF CedeGauche, Cede
<1>3. a \in BOOLEAN
  BY <1>1 DEF CedeGauche, Cede
<1>4. /\ f \in [Convives -> BOOLEAN]
      /\ f[i] <=> a
      /\ f[g] <=> fourchette[g] \/ a
      /\ \A j \in Convives \ {i, g} : f[j] = fourchette[j]
  BY <1>1, <1>3 DEF UneFourchette
<1>5. b <=> bloque[d] /\ ~f[dd]
  BY DEF CedeDroite, Cede
<1>6. b \in BOOLEAN
  BY <1>1 DEF CedeDroite, Cede
<1>7. (g \in Servis(i) <=> a) /\ (d \in Servis(i) <=> b) /\ Servis(i) \subseteq {g, d}
  BY <1>1 DEF Servis
<1>8. /\ fourchette' = [f EXCEPT ![d] = b, ![dd] = @ \/ b]
      /\ bloque' = [bloque EXCEPT ![g] = @ /\ ~a, ![d] = @ /\ ~b]
      /\ signaler(i, Servis(i)) /\ UNCHANGED <<humeur, lances, test200>>
  BY DEF Pose, CedeGauche, UneFourchette, CedeDroite, Servis
<1> HIDE DEF a, f, b
<1>9. f[dd] <=> fourchette[dd] \/ (dd = g /\ a)
  BY <1>1, <1>4
<1>10. /\ fourchette' \in [Convives -> BOOLEAN]
       /\ fourchette'[d] <=> b
       /\ fourchette'[dd] <=> f[dd] \/ b
       /\ \A j \in Convives \ {d, dd} : fourchette'[j] = f[j]
  BY <1>1, <1>4, <1>6, <1>8
<1>11. /\ bloque' \in [Convives -> BOOLEAN]
       /\ bloque'[g] <=> bloque[g] /\ ~a
       /\ bloque'[d] <=> bloque[d] /\ ~b
       /\ \A j \in Convives \ {g, d} : bloque'[j] = bloque[j]
  BY <1>1, <1>3, <1>6, <1>8
<1>12. \A j \in Convives \ {i, d} :
           fourchette'[j] <=> fourchette[j] \/ (j = g /\ a) \/ (j = dd /\ b)
  <2> TAKE j \in Convives \ {i, d}
  <2>1. CASE j = dd
    BY <1>9, <1>10, <2>1
  <2>2. CASE j # dd /\ j = g
    BY <1>4, <1>10, <2>2
  <2>3. CASE j # dd /\ j # g
    BY <1>4, <1>10, <2>3
  <2> QED
    BY <2>1, <2>2, <2>3
<1>13. \A j \in Convives : bloque'[j] <=> bloque[j] /\ j \notin Servis(i)
  <2> TAKE j \in Convives
  <2>1. CASE j \in {g, d}
    BY <1>1, <1>7, <1>11, <2>1
  <2>2. CASE j \notin {g, d}
    BY <1>7, <1>11, <2>2
  <2> QED
    BY <2>1, <2>2
<1>14. fourchette'[i] <=> a
  BY <1>1, <1>4, <1>10
<1> QED
  BY <1>2, <1>5, <1>7, <1>8, <1>9, <1>10, <1>11, <1>12, <1>13, <1>14

\* It hands over or puts down the two forks of i.
LEMMA TablePosee ==
    ASSUME TypeRepas, TableJuste, NEW i \in Convives, Pose(i), Tient(i),
           philosophe[i].ligne = 12,
           \A j \in Convives : Tient(j)' <=> (Tient(j) /\ j # i) \/ j \in Servis(i),
           \A j \in Convives : bloque'[j] => philosophe'[j].ligne \in {3, 4},
           \A j \in Convives : humeur'[j] = "m" => philosophe'[j].ligne \in 7 .. 9
    PROVE  TableJuste'
<1> DEFINE g == Gauche(i)
           d == Droite(i)
           dd == Droite(d)
           R == Servis(i)
<1>0. /\ g \in R <=> bloque[g] /\ ~fourchette[g]
      /\ d \in R <=> bloque[d] /\ ~fourchette[dd] /\ ~(dd = g /\ g \in R)
      /\ R \subseteq {g, d}
      /\ fourchette'[i] <=> g \in R
      /\ fourchette'[d] <=> d \in R
      /\ \A j \in Convives \ {i, d} :
             fourchette'[j] <=> fourchette[j] \/ (j = g /\ g \in R) \/ (j = dd /\ d \in R)
      /\ \A j \in Convives : bloque'[j] <=> bloque[j] /\ j \notin R
  BY FourchettesPosees DEF TypeRepas
<1> HIDE DEF R
<1>1. /\ g \in Convives /\ d \in Convives /\ dd \in Convives
      /\ d # i /\ g # i /\ g # d /\ dd # d /\ dd # i /\ Droite(g) = i /\ Gauche(d) = i
      /\ \A j \in Convives : Droite(j) \in Convives /\ Gauche(j) \in Convives
      /\ \A j \in Convives : Droite(Gauche(j)) = j /\ Gauche(Droite(j)) = j
      /\ \A j \in Convives : Droite(Droite(j)) # j
  BY Ronde
<1>2. /\ \A j \in Convives : fourchette[j] <=> Tient(j) \/ Tient(Gauche(j))
      /\ \A j \in Convives : Tient(j) => ~Tient(Droite(j))
      /\ \A j \in Convives : bloque[j] => fourchette[j] \/ fourchette[Droite(j)]
      /\ ~Tient(g) /\ ~Tient(d) /\ ~bloque[i]
  BY <1>1 DEF TableJuste
<1>3. \A j \in Convives : Tient(j)' <=> (Tient(j) /\ j # i) \/ j \in R
  BY DEF R
<1>4. i \notin R /\ ~Tient(i)'
  BY <1>0, <1>1, <1>3
<1>5. \A j \in Convives : fourchette'[j] <=> Tient(j)' \/ Tient(Gauche(j))'
  <2> TAKE j \in Convives
  <2>0. /\ fourchette[j] <=> Tient(j) \/ Tient(Gauche(j))
        /\ Tient(j)' <=> (Tient(j) /\ j # i) \/ j \in R
        /\ Tient(Gauche(j))' <=> (Tient(Gauche(j)) /\ Gauche(j) # i) \/ Gauche(j) \in R
        /\ Droite(Gauche(j)) = j
    BY <1>1, <1>2, <1>3
  <2>1. CASE j = i
    BY <1>0, <1>1, <1>2, <1>4, <2>0, <2>1
  <2>2. CASE j = d
    BY <1>0, <1>1, <1>2, <1>4, <2>0, <2>2
  <2>3. CASE j \notin {i, d}
    <3>1. fourchette'[j] <=> fourchette[j] \/ (j = g /\ g \in R) \/ (j = dd /\ d \in R)
      BY <1>0, <2>3
    <3>2. Gauche(j) # i /\ (Gauche(j) = d <=> j = dd) /\ Gauche(j) # g
      BY <1>1, <2>0, <2>3
    <3>3. (j \in R <=> j = g /\ g \in R) /\ (Gauche(j) \in R <=> Gauche(j) = d /\ d \in R)
      BY <1>0, <2>3, <3>2
    <3> QED
      BY <2>0, <2>3, <3>1, <3>2, <3>3
  <2> QED
    BY <2>1, <2>2, <2>3
<1>6. \A j \in Convives : Tient(j)' => ~Tient(Droite(j))'
  <2> SUFFICES ASSUME NEW j \in Convives, Tient(j)', Tient(Droite(j))'
               PROVE  FALSE
    OBVIOUS
  <2>0. /\ (Tient(j) /\ j # i) \/ j \in R
        /\ (Tient(Droite(j)) /\ Droite(j) # i) \/ Droite(j) \in R
        /\ Tient(j) => ~Tient(Droite(j))
        /\ j # i /\ Droite(j) # i /\ Gauche(Droite(j)) = j /\ Droite(j) \in Convives
    BY <1>1, <1>2, <1>3, <1>4
  <2>1. CASE j = g
    BY <1>1, <2>0, <2>1
  <2>2. CASE j = d
    <3>1. d \in R
      BY <1>2, <2>0, <2>2
    <3>2. ~fourchette[dd] /\ ~(dd = g /\ g \in R)
      BY <1>0, <3>1
    <3>3. ~Tient(dd)
      BY <1>1, <1>2, <3>2
    <3> QED
      BY <1>0, <1>1, <2>0, <2>2, <3>2, <3>3
  <2>3. CASE j \notin {g, d}
    <3>1. Tient(j) /\ j \notin R /\ ~Tient(Droite(j)) /\ Droite(j) \in R
      BY <1>0, <2>0, <2>3
    <3>2. CASE Droite(j) = g
      BY <1>0, <1>1, <1>2, <2>0, <3>1, <3>2
    <3>3. CASE Droite(j) = d
      BY <1>1, <2>0, <3>3
    <3> QED
      BY <1>0, <3>1, <3>2, <3>3
  <2> QED
    BY <2>1, <2>2, <2>3
<1>7. \A j \in Convives : bloque'[j] => fourchette'[j] \/ fourchette'[Droite(j)]
  <2> SUFFICES ASSUME NEW j \in Convives, bloque[j], j \notin R
               PROVE  fourchette'[j] \/ fourchette'[Droite(j)]
    BY <1>0
  <2>0. j # i /\ (fourchette[j] \/ fourchette[Droite(j)])
    BY <1>2
  <2>1. CASE j = g
    BY <1>0, <1>1, <2>0, <2>1
  <2>2. CASE j = d
    <3>1. fourchette[dd] \/ (dd = g /\ g \in R)
      BY <1>0, <2>2
    <3> QED
      BY <1>0, <1>1, <2>2, <3>1
  <2>3. CASE j \notin {g, d}
    <3>1. Droite(j) \in Convives /\ Droite(j) # i /\ Droite(j) # d
      BY <1>1, <2>0, <2>3
    <3> QED
      BY <1>0, <2>0, <2>3, <3>1
  <2> QED
    BY <2>1, <2>2, <2>3
<1> QED
  BY <1>5, <1>6, <1>7 DEF TableJuste

\* poser_fourchettes(): the neighbours that are given forks go on.
LEMMA PasPose ==
    ASSUME InvRepas, NEW i \in Convives, Pose(i)
    PROVE  InvRepas'
<1> DEFINE R == Servis(i)
           q == Apres(philosophe[i])
           rendu(s) == [s EXCEPT !.compte = @ + 1, !.file = IF @ = <<>> THEN @ ELSE Tail(@)]
<1>0. /\ philosophe[i] \in Philosophe /\ philosophe[i].ligne = 12
      /\ ~philosophe[i].dort /\ TypeRepas /\ TableJuste /\ MutexJuste /\ test200 # "sdelete"
      /\ \A j \in Convives : PriveJuste(j)
      /\ \A j \in Convives \cup {mutex_philo} : ~semaphores[j].detruit
  BY EluFacts, InstructionLigne DEF Pose, Philosophe
<1>1. /\ \A j \in R : j \in Convives /\ j # i /\ bloque[j]
      /\ fourchette' \in [Convives -> BOOLEAN] /\ bloque' \in [Convives -> BOOLEAN]
      /\ \A j \in Convives : bloque'[j] <=> bloque[j] /\ j \notin R
      /\ signaler(i, R) /\ UNCHANGED <<humeur, lances, test200>>
  <2>1. Gauche(i) \in Convives /\ Droite(i) \in Convives /\ Gauche(i) # i /\ Droite(i) # i
    BY Ronde
  <2> QED
    BY <1>0, <2>1, FourchettesPosees DEF TypeRepas
<1> HIDE DEF R
<1>2. /\ q \in Philosophe /\ q.dort = FALSE /\ q.ligne = 13
  <2>1. philosophe[i].ligne # 23 /\ philosophe[i].ligne # 19
    BY <1>0
  <2>2. q \in Philosophe /\ q.dort = FALSE /\ q.ligne = philosophe[i].ligne + 1
    BY <1>0, <2>1, ApresLigne
  <2>3. philosophe[i].ligne + 1 = 13
    BY <1>0
  <2> QED
    BY <2>2, <2>3
<1> HIDE DEF q
<1>3. Dedans(i) /\ Tient(i) /\ ~bloque[i]
  BY <1>0 DEF Dedans, LignesSection, Tient, TableJuste
<1>4. \A j \in R : /\ philosophe[j].ligne = 4 /\ philosophe[j] \in Philosophe
                   /\ semaphores[j] \in SemPhilo
                   /\ IF philosophe[j].dort
                      THEN semaphores[j].compte = -1 /\ semaphores[j].file = <<j>>
                      ELSE semaphores[j].compte = 0 /\ semaphores[j].file = <<>>
  <2> TAKE j \in R
  <2>1. j \in Convives /\ j # i /\ bloque[j] /\ PriveJuste(j)
    BY <1>0, <1>1
  <2>2. philosophe[j].ligne \in {3, 4}
    BY <1>0, <2>1 DEF TableJuste
  <2>3. ~Dedans(j)
    BY <1>0, <1>3, <2>1 DEF MutexJuste
  <2>4. philosophe[j].ligne = 4
    BY <2>2, <2>3 DEF Dedans, LignesSection, LignesSignal
  <2>5. AttendTable(j) <=> philosophe[j].dort
    BY <2>4 DEF AttendTable
  <2> QED
    BY <1>0, <2>1, <2>4, <2>5, MutexTypes DEF PriveJuste, TypeRepas
<1>5. /\ philosophe'[i] = q
      /\ \A j \in R : philosophe'[j] = IF philosophe[j].dort THEN Apres(philosophe[j]) ELSE philosophe[j]
      /\ \A j \in Convives \ ({i} \cup R) : philosophe'[j] = philosophe[j]
      /\ philosophe' = [j \in Convives |-> philosophe'[j]]
  <2> DEFINE premiers == {Head(semaphores[s].file) : s \in {y \in R : semaphores[y].file # <<>>}}
  <2>1. \A j \in R : semaphores[j].file # <<>> <=> philosophe[j].dort
    BY <1>4
  <2>2. \A j \in R : philosophe[j].dort => Head(semaphores[j].file) = j
    BY <1>4
  <2>3. premiers = {j \in R : philosophe[j].dort}
    BY <2>1, <2>2
  <2>4. philosophe' = [j \in Convives |->
               IF j = i \/ j \in premiers THEN Apres(philosophe[j]) ELSE philosophe[j]]
    BY <1>1 DEF signaler
  <2> HIDE DEF premiers
  <2> QED
    BY <1>1, <2>3, <2>4 DEF q
<1>6. \A j \in R : /\ philosophe'[j] \in Philosophe /\ philosophe'[j].dort = FALSE
                   /\ philosophe'[j].ligne = IF philosophe[j].dort THEN 5 ELSE 4
  <2> TAKE j \in R
  <2>1. CASE philosophe[j].dort
    <3>1. philosophe[j].ligne # 23 /\ philosophe[j].ligne # 19 /\ philosophe[j].ligne + 1 = 5
      BY <1>4
    <3>2. Apres(philosophe[j]) \in Philosophe /\ Apres(philosophe[j]).dort = FALSE
          /\ Apres(philosophe[j]).ligne = philosophe[j].ligne + 1
      BY <1>4, <3>1, ApresLigne
    <3> QED
      BY <1>5, <2>1, <3>1, <3>2
  <2>2. CASE ~philosophe[j].dort
    BY <1>4, <1>5, <2>2 DEF Philosophe
  <2> QED
    BY <2>1, <2>2
<1>7. /\ \A s \in R : semaphores'[s] = rendu(semaphores[s])
      /\ \A s \in (Convives \cup {mutex_philo}) \ R : semaphores'[s] = semaphores[s]
      /\ semaphores' = [s \in Convives \cup {mutex_philo} |-> semaphores'[s]]
  <2>1. DOMAIN semaphores = Convives \cup {mutex_philo}
    BY <1>0 DEF TypeRepas
  <2>2. semaphores' = [s \in Convives \cup {mutex_philo} |->
              IF s \notin R \/ semaphores[s].detruit THEN semaphores[s] ELSE rendu(semaphores[s])]
    BY <1>1, <2>1 DEF signaler
  <2> HIDE DEF rendu
  <2> QED
    BY <1>0, <1>1, <2>2
<1>8. \A s \in R : /\ semaphores'[s] \in SemPhilo /\ semaphores'[s].file = <<>>
                   /\ semaphores'[s].compte = IF philosophe[s].dort THEN 0 ELSE 1
                   /\ ~semaphores'[s].detruit
  <2> TAKE s \in R
  <2> DEFINE z == semaphores[s]
             c == z.compte + 1
             f == IF z.file = <<>> THEN z.file ELSE Tail(z.file)
  <2>0. s \in Convives \cup {mutex_philo} /\ ~z.detruit /\ z \in SemPhilo
    BY <1>0, <1>1, <1>4
  <2>1. semaphores'[s] = [z EXCEPT !.compte = c, !.file = f]
    BY <1>7
  <2>2. c \in Int /\ c = IF philosophe[s].dort THEN 0 ELSE 1
    BY <1>4
  <2>3. f = <<>> /\ f \in Seq(Convives)
    <3>1. z.file = <<s>> \/ z.file = <<>>
      BY <1>4
    <3>2. Tail(<<s>>) = <<>>
      OBVIOUS
    <3>3. f = <<>>
      BY <3>1, <3>2
    <3> QED
      BY <3>3, EmptySeq
  <2> HIDE DEF c, f, z
  <2> QED
    BY <2>0, <2>1, <2>2, <2>3 DEF SemPhilo
<1> HIDE DEF rendu
<1>9. philosophe' \in [Convives -> Philosophe]
  <2>1. \A j \in Convives : philosophe'[j] \in Philosophe
    BY <1>0, <1>2, <1>5, <1>6 DEF TypeRepas
  <2> QED
    BY <1>5, <2>1
<1>10. semaphores' \in [Convives \cup {mutex_philo} -> SemPhilo]
  <2>1. \A s \in Convives \cup {mutex_philo} : semaphores'[s] \in SemPhilo
    BY <1>0, <1>7, <1>8 DEF TypeRepas
  <2> QED
    BY <1>7, <2>1
<1>11. TypeRepas'
  <2>1. \A j \in Convives : philosophe'[j].dort => philosophe'[j].ligne \in LignesAttente \cup {4}
    BY <1>0, <1>2, <1>5, <1>6 DEF TypeRepas
  <2> QED
    BY <1>0, <1>1, <1>9, <1>10, <2>1 DEF TypeRepas
<1>12. \A j \in Convives : j # i /\ j \notin R => philosophe'[j] = philosophe[j] /\ bloque'[j] = bloque[j]
  BY <1>0, <1>1, <1>5, <1>11 DEF TypeRepas
<1>13. TableJuste'
  <2>1. \A j \in Convives : Tient(j)' <=> (Tient(j) /\ j # i) \/ j \in R
    <3> TAKE j \in Convives
    <3>1. CASE j = i
      BY <1>1, <1>2, <1>5, <3>1 DEF Tient
    <3>2. CASE j \in R
      BY <1>1, <1>6, <3>2 DEF Tient
    <3>3. CASE j # i /\ j \notin R
      BY <1>12, <3>3 DEF Tient
    <3> QED
      BY <3>1, <3>2, <3>3
  <2>2. \A j \in Convives : bloque'[j] => philosophe'[j].ligne \in {3, 4}
    BY <1>0, <1>1, <1>3, <1>12 DEF TableJuste
  <2>3. \A j \in Convives : humeur'[j] = "m" => philosophe'[j].ligne \in 7 .. 9
    <3> TAKE j \in Convives
    <3>0. (humeur[j] = "m" => philosophe[j].ligne \in 7 .. 9) /\ humeur'[j] = humeur[j]
      BY <1>0, <1>1 DEF TableJuste
    <3>1. CASE j = i
      BY <1>0, <3>0, <3>1
    <3>2. CASE j \in R
      BY <1>4, <3>0, <3>2
    <3>3. CASE j # i /\ j \notin R
      BY <1>12, <3>0, <3>3
    <3> QED
      BY <3>1, <3>2, <3>3
  <2> QED
    BY <1>0, <1>3, <2>1, <2>2, <2>3, TablePosee DEF R
<1>14. MutexJuste'
  <2>1. \A j \in Convives : (Dedans(j)' <=> Dedans(j)) /\ (AttendMutex(j)' <=> AttendMutex(j))
    <3> TAKE j \in Convives
    <3>1. CASE j = i
      BY <1>0, <1>2, <1>5, <3>1 DEF Dedans, AttendMutex, LignesSection, LignesSignal
    <3>2. CASE j \in R
      <4>1. philosophe[j].ligne = 4 /\ ~philosophe'[j].dort /\ philosophe'[j].ligne \in {4, 5}
        BY <1>4, <1>6, <3>2
      <4>2. 4 \notin LignesSection /\ 5 \notin LignesSection /\ 4 \notin LignesAttente
        BY DEF LignesSection, LignesSignal, LignesAttente
      <4> QED
        BY <4>1, <4>2 DEF Dedans, AttendMutex
    <3>3. CASE j # i /\ j \notin R
      BY <1>12, <3>3 DEF Dedans, AttendMutex
    <3> QED
      BY <3>1, <3>2, <3>3
  <2>2. semaphores[mutex_philo].file \in Seq(Convives)
    BY <1>0, MutexTypes
  <2>3. semaphores'[mutex_philo] = semaphores[mutex_philo]
    BY <1>1, <1>7, MutexHorsTable
  <2> QED
    BY <1>0, <2>1, <2>2, <2>3, MutexStable
<1>15. \A j \in Convives : PriveJuste(j)'
  <2> TAKE j \in Convives
  <2>1. CASE j = i
    <3>1. /\ semaphores'[i] = semaphores[i] /\ ~bloque'[i] /\ ~AttendTable(i) /\ ~AttendTable(i)'
          /\ philosophe'[i].ligne = 13
      BY <1>0, <1>1, <1>2, <1>3, <1>5, <1>7 DEF AttendTable
    <3>2. semaphores[i].file = <<>> /\ semaphores[i].compte = 0
      BY <1>0, <3>1 DEF PriveJuste
    <3> QED
      BY <2>1, <3>1, <3>2 DEF PriveJuste
  <2>2. CASE j \in R
    <3>1. ~bloque'[j] /\ ~AttendTable(j)'
      BY <1>1, <1>6, <2>2 DEF AttendTable
    <3> QED
      BY <1>6, <1>8, <2>2, <3>1 DEF PriveJuste
  <2>3. CASE j # i /\ j \notin R
    BY <1>0, <1>7, <1>12, <2>3, PriveStable DEF AttendTable
  <2> QED
    BY <2>1, <2>2, <2>3
<1>16. \A j \in Convives \cup {mutex_philo} : ~semaphores'[j].detruit
  BY <1>0, <1>7, <1>8
<1>17. test200 = "debut" => lances = -1
  BY DEF InvRepas
<1> QED
  BY <1>0, <1>1, <1>11, <1>13, <1>14, <1>15, <1>16, <1>17 DEF InvRepas

\* Philosophers that all stop have all ended: no deadlock.
LEMMA PasDInterblocage ==
    ASSUME InvRepas, test200 # "sdelete", lances = NR_PHILO, ~PhilosophesForts
    PROVE  \A i \in Convives : philosophe[i].ligne = 23 /\ ~philosophe[i].dort
<1>0. TypeRepas /\ TableJuste /\ MutexJuste /\ \A i \in Convives : PriveJuste(i)
  BY DEF InvRepas
<1>1. \A i \in Convives : philosophe[i].dort \/ philosophe[i].ligne = 23
  <2> TAKE i \in Convives
  <2>1. i < lances /\ ~Pret(i) /\ philosophe[i].ligne \in 1 .. 23
    BY <1>0, PhilosophesAssumption DEF Convives, PhilosophesForts, TypeRepas, Philosophe
  <2> QED
    BY <2>1, InstructionLigne DEF Pret
<1>2. \A i \in Convives : philosophe[i].dort => philosophe[i].ligne \in LignesAttente \cup {4}
  BY <1>0 DEF TypeRepas
<1>3. \A i \in Convives : ~Dedans(i)
  BY <1>1, <1>2 DEF Dedans, LignesSection, LignesSignal, LignesAttente
<1>4. \A i \in Convives : ~AttendMutex(i)
  <2>1. semaphores[mutex_philo].file = <<>>
    BY <1>0, <1>3 DEF MutexJuste
  <2>2. Len(semaphores[mutex_philo].file) = 0
    BY <2>1, EmptySeq
  <2> QED
    BY <1>0, <2>2 DEF MutexJuste
<1>5. \A i \in Convives : philosophe[i].dort => philosophe[i].ligne = 4 /\ bloque[i]
  BY <1>0, <1>2, <1>4 DEF AttendMutex, AttendTable, PriveJuste
<1>6. \A i \in Convives : ~Tient(i)
  BY <1>1, <1>5 DEF Tient
<1>7. \A i \in Convives : ~bloque[i]
  <2>1. \A i \in Convives : Droite(i) \in Convives /\ Gauche(i) \in Convives
    BY Ronde
  <2> QED
    BY <1>0, <1>6, <2>1 DEF TableJuste
<1> QED
  BY <1>1, <1>5, <1>7

LEMMA PasTermine ==
    ASSUME InvRepas, Termine
    PROVE  InvRepas'
<1>0. /\ TypeRepas /\ TableJuste /\ test200' = "sdelete" /\ lances = NR_PHILO
      /\ UNCHANGED <<fourchette, bloque, humeur, lances>>
      /\ \A i \in Convives : philosophe[i].ligne = 23 /\ ~philosophe[i].dort
  BY PasDInterblocage DEF Termine, InvRepas
<1>1. \A i \in Convives : philosophe'[i] = philosophe[i]
  BY <1>0 DEF Termine
<1>2. philosophe' \in [Convives -> Philosophe]
  BY <1>0, <1>1 DEF Termine, TypeRepas
<1>3. semaphores' \in [Convives \cup {mutex_philo} -> SemPhilo]
  <2>1. [screate(0) EXCEPT !.detruit = TRUE] \in SemPhilo
    <3> DEFINE z == screate(0)
    <3>1. z \in SemPhilo
      BY EmptySeq DEF screate, SemPhilo
    <3> HIDE DEF z
    <3>2. [z EXCEPT !.detruit = TRUE] \in SemPhilo
      BY <3>1 DEF SemPhilo
    <3> QED
      BY <3>2 DEF z
  <2>2. DOMAIN semaphores = Convives \cup {mutex_philo}
    BY <1>0 DEF TypeRepas
  <2>3. semaphores' = [s \in Convives \cup {mutex_philo} |-> [screate(0) EXCEPT !.detruit = TRUE]]
    BY <2>2 DEF Termine
  <2> QED
    BY <2>1, <2>3
<1>4. TypeRepas'
  BY <1>0, <1>1, <1>2, <1>3 DEF TypeRepas
<1>5. TableJuste'
  <2>1. \A j \in Convives : Progresse(j)
    BY <1>1 DEF Progresse
  <2>2. \A j \in Convives : humeur'[j] = "m" => philosophe'[j].ligne \in 7 .. 9
    BY <1>0, <1>1 DEF TableJuste
  <2> QED
    BY <1>0, <2>1, <2>2, TableStable
<1> QED
  BY <1>0, <1>1, <1>4, <1>5 DEF InvRepas

\* The table and the semaphores are as they were.
LEMMA RepasImmobile ==
    ASSUME InvRepas, UNCHANGED <<fourchette, bloque, humeur, semaphores, philosophe>>,
           lances' \in -1 .. NR_PHILO, test200' \in {"debut", "waitpid"},
           test200' = "debut" => lances' = -1, test200 # "sdelete"
    PROVE  InvRepas'
<1>1. TypeRepas' /\ TableJuste' /\ MutexJuste' /\ \A i \in Convives : PriveJuste(i)'
  BY DEF InvRepas, TypeRepas, TableJuste, MutexJuste, PriveJuste,
         Dedans, AttendMutex, AttendTable, Tient
<1> QED
  BY <1>1 DEF InvRepas

LEMMA RepasPas == InvRepas /\ [PhilosophesNext]_philosophesVars => InvRepas'
<1> SUFFICES ASSUME InvRepas, [PhilosophesNext]_philosophesVars
             PROVE  InvRepas'
  OBVIOUS
<1>1. ASSUME NEW i \in Convives, Attente(i) PROVE InvRepas'
  <2>1. Elu(i)
    BY <1>1 DEF Attente
  <2>2. CASE Instruction(i) = "wait" /\ attendre(i, mutex_philo)
    BY <2>1, <2>2, AttenteLibre, AttentePleine
  <2>3. CASE Instruction(i) = "attend" /\ attendre(i, i)
    BY <2>1, <2>3, AttenteTable
  <2> QED
    BY <1>1, <2>2, <2>3 DEF Attente
<1>2. ASSUME NEW i \in Convives, Signale(i) PROVE InvRepas'
  BY <1>2, SignalLibre, SignalPasse
<1>3. CASE LanceLanceur
  <2>1. lances' \in -1 .. NR_PHILO
    BY <1>3, PhilosophesAssumption DEF LanceLanceur
  <2> QED
    BY <1>3, <2>1, RepasImmobile DEF LanceLanceur
<1>4. CASE LancePhilosophe
  <2>1. /\ lances' \in -1 .. NR_PHILO /\ test200 # "sdelete" /\ test200 # "debut"
        /\ test200 \in {"debut", "waitpid", "sdelete"}
    BY <1>4, PhilosophesAssumption DEF LancePhilosophe, InvRepas, TypeRepas
  <2> QED
    BY <1>4, <2>1, RepasImmobile DEF LancePhilosophe
<1>5. CASE UNCHANGED philosophesVars
  BY <1>5 DEF philosophesVars, InvRepas, TypeRepas, TableJuste, MutexJuste, PriveJuste,
     Dedans, AttendMutex, AttendTable, Tient
<1> QED
  BY <1>1, <1>2, <1>3, <1>4, <1>5, PasMontre, PasPrend, PasPose, PasTermine DEF PhilosophesNext

LEMMA RepasSuite == InvRepas => RepasEnPaix
<1> SUFFICES ASSUME InvRepas PROVE RepasEnPaix
  OBVIOUS
<1>1. VoisinsSeparement
  <2>1. \A i \in Convives : humeur[i] = "m" => Tient(i)
    BY DEF InvRepas, TableJuste, Tient
  <2>2. \A i \in Convives : Droite(i) \in Convives
    BY Ronde
  <2> QED
    BY <2>1, <2>2 DEF VoisinsSeparement, InvRepas, TableJuste
<1>2. DestructionTardive
  <2> SUFFICES ASSUME test200 = "sdelete", NEW i \in Convives PROVE Instruction(i) = "fini"
    BY DEF DestructionTardive
  <2>1. philosophe[i].ligne = 23
    BY DEF InvRepas
  <2>2. 23 \in 1 .. 23
    OBVIOUS
  <2> QED
    BY <2>1, <2>2, InstructionLigne
<1> QED
  BY <1>1, <1>2 DEF RepasEnPaix

\* Neighbours never eat together, and test200 destroys the semaphores only
\* when every philosopher has ended its turns, though it waits for none of
\* them: they never all wait for one another.
THEOREM RepasJusteCorrect == SpecMachines => []RepasJuste
<1> DEFINE I == banc = "philosophes" => InvRepas
<1>1. MachinesInit => I
  BY RepasInitial DEF MachinesInit
<1>2. I /\ [MachinesNext]_machinesVars => I'
  BY BancPhilosophes, RepasPas
<1>3. I => RepasJuste
  BY RepasSuite DEF RepasJuste
<1> QED
  BY <1>1, <1>2, <1>3, PTL DEF SpecMachines

-----------------------------------------------------------------------------
\* The screen.

LEMMA BancEcran ==
    ASSUME [MachinesNext]_machinesVars
    PROVE  UNCHANGED banc /\ (banc = "ecran" => [EcranNext]_ecranVars)
BY DEF MachinesNext, Banc, machinesVars

Cases == {" ", "a", "t"}
Tampon == 0 .. TamponLignes - 1

EcranT == [ligne : Nat, colonne : Colonnes, id_col_start : Colonnes,
           video : [Lignes -> [Colonnes -> Cases]],
           screen_buffer : [Tampon -> [Colonnes -> Cases]],
           buff_ligne : Tampon, buff_display_ligne : Nat]

\* Nothing was printed beyond the current line of the buffer.
Entame(e) ==
    /\ e \in EcranT
    /\ \A k \in Tampon : k > e.buff_ligne => e.screen_buffer[k] = LigneBlanche

\* EcranFidele of a screen before defilement(), and after it.
Recopie(e) ==
    /\ e.ligne \in Lignes
    /\ e.buff_display_ligne + e.ligne = e.buff_ligne
    /\ \A i \in 0 .. e.ligne, j \in Colonnes :
         e.video[i][j] \in {"t", e.screen_buffer[e.buff_display_ligne + i][j]}
    /\ \A i \in e.ligne + 1 .. Hauteur - 1, j \in Colonnes : e.video[i][j] \in {"t", " "}

Fidele(e) == Recopie(e) /\ e.ligne # Hauteur - 1

\* What is left of the types when a program makes the lines start at LARGEUR:
\* a character printed beyond the last column goes on below before it is one
\* line too far.
EcranLarge(e) ==
    /\ DOMAIN e = {"ligne", "colonne", "id_col_start", "video", "screen_buffer",
                   "buff_ligne", "buff_display_ligne"}
    /\ e.colonne \in 0 .. 2 * Largeur - 1
    /\ e.id_col_start \in 0 .. Largeur

InvEcran ==
    /\ EcranLarge(ecran) /\ cadre \in BOOLEAN /\ fidele \in BOOLEAN
    /\ cadre => Entame(ecran)
    /\ fidele => cadre /\ Fidele(ecran)

LEMMA Tableau ==
    /\ Hauteur \in Nat /\ Hauteur > 1 /\ Largeur \in Nat /\ Largeur > 2
    /\ Tabulation \in Nat /\ 1 < Tabulation /\ Tabulation < Largeur
    /\ TamponLignes \in Nat /\ TamponLignes >= Hauteur
    /\ 0 \in Colonnes /\ 0 \in Lignes /\ Tabulation \in Colonnes /\ Largeur - 1 \in Colonnes
    /\ Colonnes \subseteq Nat /\ Lignes \subseteq Nat
BY EcranAssumption DEF Colonnes, Lignes

LEMMA Blanche == LigneBlanche \in [Colonnes -> Cases] /\ \A j \in Colonnes : LigneBlanche[j] = " "
BY DEF LigneBlanche, Cases

LEMMA EcranInitial == EcranInit => InvEcran
<1> SUFFICES ASSUME EcranInit PROVE InvEcran
  OBVIOUS
<1> DEFINE z == 0
           v == [i \in Lignes |-> LigneBlanche]
           sb == [i \in Tampon |-> LigneBlanche]
<1>1. /\ ecran = [ligne |-> z, colonne |-> z, id_col_start |-> z, video |-> v,
                  screen_buffer |-> sb, buff_ligne |-> z, buff_display_ligne |-> z]
      /\ cadre = TRUE /\ fidele = TRUE
  BY DEF EcranInit, Tampon
<1>2. v \in [Lignes -> [Colonnes -> Cases]] /\ sb \in [Tampon -> [Colonnes -> Cases]]
  BY Blanche
<1>3. z = 0 /\ z \in Nat /\ z \in Colonnes /\ z \in Tampon /\ z \in Lignes
  BY Tableau DEF Tampon
<1>4. (\A i \in Lignes : v[i] = LigneBlanche) /\ (\A k \in Tampon : sb[k] = LigneBlanche)
  OBVIOUS
<1> HIDE DEF z, v, sb
<1>5. ecran \in EcranT
  BY <1>1, <1>2, <1>3 DEF EcranT
<1>6. \A i \in Lignes, j \in Colonnes : ecran.video[i][j] = " "
  BY <1>1, <1>4, Blanche
<1>7. \A k \in Tampon, j \in Colonnes : ecran.screen_buffer[k][j] = " "
  BY <1>1, <1>4, Blanche
<1>8. 0 .. 0 \subseteq Lignes /\ 1 .. Hauteur - 1 \subseteq Lignes /\ 0 # Hauteur - 1
  BY Tableau DEF Lignes
<1>9. ecran.ligne = 0 /\ ecran.buff_ligne = 0 /\ ecran.buff_display_ligne = 0
  BY <1>1, <1>3
<1>10. Fidele(ecran)
  <2>1. \A i \in 0 .. 0 : i \in Lignes /\ 0 + i \in Tampon
    BY <1>3
  <2>2. \A i \in 0 + 1 .. Hauteur - 1 : i \in Lignes
    BY <1>8
  <2>3. \A i \in 0 .. 0, j \in Colonnes :
          ecran.video[i][j] \in {"t", ecran.screen_buffer[0 + i][j]}
    BY <1>6, <1>7, <2>1
  <2>4. \A i \in 0 + 1 .. Hauteur - 1, j \in Colonnes : ecran.video[i][j] \in {"t", " "}
    BY <1>6, <2>2
  <2>5. 0 \in Lignes /\ 0 + 0 = 0
    BY <1>3
  <2> QED
    BY <1>8, <1>9, <2>3, <2>4, <2>5 DEF Fidele, Recopie
<1>11. EcranLarge(ecran)
  <2>1. z \in 0 .. 2 * Largeur - 1 /\ z \in 0 .. Largeur
    BY <1>3, Tableau
  <2> QED
    BY <1>1, <2>1 DEF EcranLarge
<1> QED
  BY <1>1, <1>4, <1>5, <1>10, <1>11 DEF InvEcran, Entame

\* A column is the last one or has one on its right.
LEMMA ColonneSuivante ==
    ASSUME NEW c \in Colonnes
    PROVE  /\ (c + 1) % Largeur = 0 <=> c + 1 = Largeur
           /\ c + 1 # Largeur => c + 1 \in Colonnes
BY Tableau DEF Colonnes

LEMMA Quotient ==
    ASSUME NEW n \in Nat \ {0}, NEW a \in 0 .. n - 1
    PROVE  a \div n = 0 /\ a % n = a
OBVIOUS

\* place_curseur().
LEMMA PlaceGarde ==
    ASSUME NEW e, Entame(e), NEW l \in Nat, NEW c \in Colonnes
    PROVE  LET t == place_curseur(e, l, c)
           IN  /\ Entame(t) /\ t.ligne = l /\ t.colonne = c
               /\ t.id_col_start = e.id_col_start /\ t.buff_ligne = e.buff_ligne
               /\ l = e.ligne /\ Fidele(e) => Fidele(t)
<1> DEFINE t == place_curseur(e, l, c)
<1>1. t \in EcranT
  BY DEF place_curseur, Entame, EcranT
<1>2. /\ t.ligne = l /\ t.colonne = c /\ t.id_col_start = e.id_col_start
      /\ t.video = e.video /\ t.screen_buffer = e.screen_buffer
      /\ t.buff_ligne = e.buff_ligne /\ t.buff_display_ligne = e.buff_display_ligne
  BY DEF place_curseur, Entame, EcranT
<1> HIDE DEF t
<1> QED
  BY <1>1, <1>2 DEF Entame, Fidele, Recopie, t

\* ecrit_car().
LEMMA EcritGarde ==
    ASSUME NEW e, Entame(e), NEW c \in Colonnes, NEW x \in Cases
    PROVE  LET t == Ecrit(e, c, x)
           IN  /\ Entame(t) /\ t.ligne = e.ligne /\ t.colonne = e.colonne
               /\ t.id_col_start = e.id_col_start /\ t.buff_ligne = e.buff_ligne
               /\ Fidele(e) => Fidele(t)
<1> DEFINE t == Ecrit(e, c, x)
           sb == [e.screen_buffer EXCEPT ![e.buff_ligne] = [@ EXCEPT ![c] = x]]
           v == [e.video EXCEPT ![e.ligne] = [@ EXCEPT ![c] = x]]
           u == [e EXCEPT !.screen_buffer = sb]
<1>0. e \in EcranT
  BY DEF Entame
<1>c. c \div Largeur = 0 /\ c % Largeur = c
  BY Tableau, Quotient DEF Colonnes
<1>1. sb \in [Tampon -> [Colonnes -> Cases]] /\ v \in [Lignes -> [Colonnes -> Cases]]
  BY <1>0 DEF EcranT
<1>2. t = IF e.ligne \in Lignes THEN [u EXCEPT !.video = v] ELSE u
  <2>1. /\ e.ligne + 0 = e.ligne /\ e.buff_ligne + 0 = e.buff_ligne
        /\ e.buff_ligne < TamponLignes
    BY <1>0, Tableau DEF EcranT, Tampon
  <2> QED
    BY <1>0, <1>c, <2>1 DEF Ecrit, EcranT
<1>3. \A k \in Tampon : k > e.buff_ligne => sb[k] = e.screen_buffer[k]
  BY <1>0, Tableau DEF EcranT, Tampon
<1>4. ASSUME Fidele(e), NEW i \in Lignes, NEW j \in Colonnes
      PROVE  /\ i <= e.ligne =>
                  v[i][j] \in {"t", sb[e.buff_display_ligne + i][j]}
             /\ i > e.ligne => v[i][j] \in {"t", " "}
  <2>1. e.ligne \in Lignes /\ e.buff_ligne \in Tampon /\ e.buff_display_ligne \in Nat
        /\ e.buff_display_ligne + e.ligne = e.buff_ligne
    BY <1>0, <1>4 DEF EcranT, Fidele, Recopie
  <2>2. CASE i = e.ligne
    <3>1. v[i] = [e.video[i] EXCEPT ![c] = x]
      BY <1>0, <2>1, <2>2 DEF EcranT
    <3>2. sb[e.buff_display_ligne + i] = [e.screen_buffer[e.buff_ligne] EXCEPT ![c] = x]
      BY <1>0, <2>1, <2>2 DEF EcranT
    <3>3. /\ e.video[i] \in [Colonnes -> Cases]
          /\ e.screen_buffer[e.buff_ligne] \in [Colonnes -> Cases]
          /\ e.video[i][j] \in {"t", e.screen_buffer[e.buff_ligne][j]}
      <4>1. i \in 0 .. e.ligne /\ e.buff_display_ligne + i = e.buff_ligne
        BY <2>1, <2>2, Tableau DEF Lignes
      <4>2. e.video[i][j] \in {"t", e.screen_buffer[e.buff_display_ligne + i][j]}
        BY <1>4, <4>1 DEF Fidele, Recopie
      <4> HIDE DEF v, sb
      <4> QED
        BY <1>0, <2>1, <4>1, <4>2 DEF EcranT
    <3> HIDE DEF v, sb
    <3>4. v[i][j] = IF j = c THEN x ELSE e.video[i][j]
      BY <3>1, <3>3
    <3>5. sb[e.buff_display_ligne + i][j] = IF j = c THEN x ELSE e.screen_buffer[e.buff_ligne][j]
      BY <3>2, <3>3
    <3>6. i <= e.ligne /\ ~(i > e.ligne)
      BY <2>1, <2>2, Tableau DEF Lignes
    <3> QED
      BY <3>3, <3>4, <3>5, <3>6
  <2>3. CASE i # e.ligne
    <3>1. v[i] = e.video[i]
      BY <1>0, <2>3 DEF EcranT
    <3>2. i <= e.ligne => /\ e.buff_display_ligne + i \in Tampon
                          /\ e.buff_display_ligne + i # e.buff_ligne
      BY <2>1, <2>3, Tableau DEF Lignes, Tampon
    <3>3. i <= e.ligne => sb[e.buff_display_ligne + i] = e.screen_buffer[e.buff_display_ligne + i]
      BY <1>0, <3>2 DEF EcranT
    <3>4. i <= e.ligne => i \in 0 .. e.ligne
      BY <2>1, Tableau DEF Lignes
    <3>5. i > e.ligne => i \in e.ligne + 1 .. Hauteur - 1
      BY <2>1, Tableau DEF Lignes
    <3> HIDE DEF v, sb
    <3> QED
      BY <1>4, <3>1, <3>3, <3>4, <3>5 DEF Fidele, Recopie
  <2> QED
    BY <2>2, <2>3
<1> HIDE DEF sb, v
<1>5. u \in EcranT
  BY <1>0, <1>1 DEF EcranT
<1>6. /\ t \in EcranT /\ t.ligne = e.ligne /\ t.colonne = e.colonne
      /\ t.id_col_start = e.id_col_start /\ t.buff_ligne = e.buff_ligne
      /\ t.buff_display_ligne = e.buff_display_ligne
      /\ t.screen_buffer = sb /\ (e.ligne \in Lignes => t.video = v)
  BY <1>0, <1>1, <1>2, <1>5 DEF EcranT
<1> HIDE DEF t, u
<1>7. Entame(t)
  BY <1>3, <1>6 DEF Entame
<1>8. ASSUME Fidele(e) PROVE Fidele(t)
  <2>1. e.ligne \in Lignes /\ e.buff_display_ligne + e.ligne = e.buff_ligne /\ e.ligne # Hauteur - 1
    BY <1>8 DEF Fidele, Recopie
  <2>2. \A i \in 0 .. e.ligne : i \in Lignes /\ i <= e.ligne
    BY <2>1, Tableau DEF Lignes
  <2>3. \A i \in e.ligne + 1 .. Hauteur - 1 : i \in Lignes /\ i > e.ligne
    BY <2>1, Tableau DEF Lignes
  <2> QED
    BY <1>4, <1>6, <1>8, <2>1, <2>2, <2>3 DEF Fidele, Recopie
<1> QED
  BY <1>6, <1>7, <1>8 DEF t

LEMMA LigneFidele ==
    ASSUME NEW e, Recopie(e)
    PROVE  /\ e.ligne \in Lignes /\ e.ligne \in Nat
           /\ \A i \in 0 .. e.ligne : i \in Lignes
           /\ \A i \in e.ligne + 1 .. Hauteur - 1 : i \in Lignes
           /\ Fidele(e) => e.ligne \in 0 .. Hauteur - 2 /\ e.ligne + 1 \in 0 .. Hauteur - 1
<1>1. e.ligne \in Lignes
  BY DEF Recopie
<1>2. Fidele(e) => e.ligne # Hauteur - 1
  BY DEF Fidele
<1> QED
  BY <1>1, <1>2, Tableau DEF Lignes

\* efface_ligne().
LEMMA EffaceGarde ==
    ASSUME NEW e, Entame(e)
    PROVE  LET t == efface_ligne(e)
           IN  /\ Entame(t) /\ t.ligne = e.ligne /\ t.colonne = e.id_col_start
               /\ Fidele(e) => Fidele(t)
<1> DEFINE t == efface_ligne(e)
           vide(r) == [j \in Colonnes |-> IF j >= e.id_col_start THEN " " ELSE r[j]]
           sb == [e.screen_buffer EXCEPT ![e.buff_ligne] = vide(@)]
           v == [e.video EXCEPT ![e.ligne] = vide(@)]
           u == [e EXCEPT !.screen_buffer = sb, !.colonne = e.id_col_start]
<1>0. e \in EcranT
  BY DEF Entame
<1>a. ASSUME NEW r \in [Colonnes -> Cases] PROVE vide(r) \in [Colonnes -> Cases]
  BY DEF Cases
<1>b. \A r : \A j \in Colonnes : vide(r)[j] = IF j >= e.id_col_start THEN " " ELSE r[j]
  OBVIOUS
<1>2. t = IF e.ligne \in Lignes THEN [u EXCEPT !.video = v] ELSE u
  BY <1>0 DEF efface_ligne, EcranT
<1> HIDE DEF vide
<1>1. sb \in [Tampon -> [Colonnes -> Cases]] /\ v \in [Lignes -> [Colonnes -> Cases]]
  BY <1>0, <1>a DEF EcranT
<1>3. \A k \in Tampon : k > e.buff_ligne => sb[k] = e.screen_buffer[k]
  BY <1>0, Tableau DEF EcranT, Tampon
<1>4. ASSUME Fidele(e), NEW i \in Lignes, NEW j \in Colonnes
      PROVE  /\ i <= e.ligne =>
                  v[i][j] \in {"t", sb[e.buff_display_ligne + i][j]}
             /\ i > e.ligne => v[i][j] \in {"t", " "}
  <2>1. e.ligne \in Lignes /\ e.buff_ligne \in Tampon /\ e.buff_display_ligne \in Nat
        /\ e.buff_display_ligne + e.ligne = e.buff_ligne
    BY <1>0, <1>4 DEF EcranT, Fidele, Recopie
  <2>2. CASE i = e.ligne
    <3>1. v[i] = vide(e.video[i])
      BY <1>0, <2>1, <2>2 DEF EcranT
    <3>2. sb[e.buff_display_ligne + i] = vide(e.screen_buffer[e.buff_ligne])
      BY <1>0, <2>1, <2>2 DEF EcranT
    <3>3. e.video[i][j] \in {"t", e.screen_buffer[e.buff_ligne][j]}
      <4>1. i \in 0 .. e.ligne /\ e.buff_display_ligne + i = e.buff_ligne
        BY <2>1, <2>2, Tableau DEF Lignes
      <4>2. e.video[i][j] \in {"t", e.screen_buffer[e.buff_display_ligne + i][j]}
        BY <1>4, <4>1 DEF Fidele, Recopie
      <4> HIDE DEF v, sb
      <4> QED
        BY <4>1, <4>2
    <3> HIDE DEF v, sb
    <3>4. v[i][j] = IF j >= e.id_col_start THEN " " ELSE e.video[i][j]
      BY <3>1, <1>b
    <3>5. sb[e.buff_display_ligne + i][j] =
             IF j >= e.id_col_start THEN " " ELSE e.screen_buffer[e.buff_ligne][j]
      BY <3>2, <1>b
    <3>6. i <= e.ligne /\ ~(i > e.ligne)
      BY <2>1, <2>2, Tableau DEF Lignes
    <3> QED
      BY <3>3, <3>4, <3>5, <3>6
  <2>3. CASE i # e.ligne
    <3>1. v[i] = e.video[i]
      BY <1>0, <2>3 DEF EcranT
    <3>2. i <= e.ligne => /\ e.buff_display_ligne + i \in Tampon
                          /\ e.buff_display_ligne + i # e.buff_ligne
      BY <2>1, <2>3, Tableau DEF Lignes, Tampon
    <3>3. i <= e.ligne => sb[e.buff_display_ligne + i] = e.screen_buffer[e.buff_display_ligne + i]
      BY <1>0, <3>2 DEF EcranT
    <3>4. i <= e.ligne => i \in 0 .. e.ligne
      BY <2>1, Tableau DEF Lignes
    <3>5. i > e.ligne => i \in e.ligne + 1 .. Hauteur - 1
      BY <2>1, Tableau DEF Lignes
    <3> HIDE DEF v, sb
    <3> QED
      BY <1>4, <3>1, <3>3, <3>4, <3>5 DEF Fidele, Recopie
  <2> QED
    BY <2>2, <2>3
<1> HIDE DEF sb, v
<1>5. u \in EcranT
  BY <1>0, <1>1 DEF EcranT
<1>6. /\ t \in EcranT /\ t.ligne = e.ligne /\ t.colonne = e.id_col_start
      /\ t.buff_ligne = e.buff_ligne /\ t.buff_display_ligne = e.buff_display_ligne
      /\ t.screen_buffer = sb /\ (e.ligne \in Lignes => t.video = v)
  BY <1>0, <1>1, <1>2, <1>5 DEF EcranT
<1> HIDE DEF t, u
<1>7. Entame(t)
  BY <1>3, <1>6 DEF Entame
<1>8. ASSUME Fidele(e) PROVE Fidele(t)
  <2>1. e.ligne \in Lignes /\ e.buff_display_ligne + e.ligne = e.buff_ligne /\ e.ligne # Hauteur - 1
    BY <1>8 DEF Fidele, Recopie
  <2>2. \A i \in 0 .. e.ligne : i \in Lignes /\ i <= e.ligne
    BY <2>1, Tableau DEF Lignes
  <2>3. \A i \in e.ligne + 1 .. Hauteur - 1 : i \in Lignes /\ i > e.ligne
    BY <2>1, Tableau DEF Lignes
  <2> QED
    BY <1>4, <1>6, <1>8, <2>1, <2>2, <2>3 DEF Fidele, Recopie
<1> QED
  BY <1>6, <1>7, <1>8 DEF t

\* defilement().
LEMMA DefileGarde ==
    ASSUME NEW e, Entame(e)
    PROVE  LET t == FinTraite(e)
           IN  /\ Entame(t)
               /\ e.ligne # Hauteur - 1 => t = e
               /\ t.colonne = IF e.ligne # Hauteur - 1 THEN e.colonne ELSE 0
               /\ Recopie(e) => Fidele(t)
<1> DEFINE t == FinTraite(e)
<1>0. e \in EcranT
  BY DEF Entame
<1>1. CASE e.ligne # Hauteur - 1
  BY <1>1 DEF FinTraite, Fidele
<1>2. CASE e.ligne = Hauteur - 1
  <2> DEFINE v == [i \in Lignes |-> IF i = Hauteur - 1 THEN LigneBlanche ELSE e.video[i + 1]]
             h == Hauteur - 2
             d == e.buff_display_ligne + 1
             z == 0
  <2>1. t = [e EXCEPT !.video = v, !.buff_display_ligne = d, !.ligne = h, !.colonne = z]
    BY <1>2 DEF FinTraite
  <2>2. v \in [Lignes -> [Colonnes -> Cases]]
    <3>1. \A i \in Lignes : i # Hauteur - 1 => i + 1 \in Lignes
      BY Tableau DEF Lignes
    <3> QED
      BY <1>0, <3>1, Blanche DEF EcranT
  <2>3. h \in Nat /\ d \in Nat /\ z \in Colonnes /\ z = 0 /\ h = Hauteur - 2
        /\ d = e.buff_display_ligne + 1
    BY <1>0, Tableau DEF EcranT
  <2>4. /\ v[Hauteur - 1] = LigneBlanche
        /\ \A i \in 0 .. h : v[i] = e.video[i + 1]
    <3>1. /\ Hauteur - 1 \in Lignes
          /\ \A i \in 0 .. h : i \in Lignes /\ i # Hauteur - 1
      BY Tableau DEF Lignes
    <3> HIDE DEF h
    <3> QED
      BY <3>1
  <2> HIDE DEF v, h, d, z
  <2>5. t \in EcranT
    BY <1>0, <2>1, <2>2, <2>3 DEF EcranT
  <2>6. /\ t.ligne = h /\ t.colonne = z /\ t.video = v /\ t.screen_buffer = e.screen_buffer
        /\ t.buff_ligne = e.buff_ligne /\ t.buff_display_ligne = d
    BY <1>0, <2>1 DEF EcranT
  <2> HIDE DEF t
  <2>7. Entame(t)
    BY <2>5, <2>6 DEF Entame
  <2>8. ASSUME Recopie(e) PROVE Fidele(t)
    <3>1. h \in Lignes /\ h # Hauteur - 1
      BY <2>3, Tableau DEF Lignes
    <3>2. d + h = e.buff_ligne
      <4>1. e.buff_display_ligne + e.ligne = e.buff_ligne /\ e.buff_display_ligne \in Nat
        BY <1>0, <2>8 DEF EcranT, Recopie
      <4>2. e.buff_display_ligne + (Hauteur - 1) = e.buff_ligne
        BY <1>2, <4>1
      <4> QED
        BY <2>3, <4>1, <4>2, Tableau
    <3>3. ASSUME NEW i \in 0 .. h, NEW j \in Colonnes
          PROVE  v[i][j] \in {"t", e.screen_buffer[d + i][j]}
      <4>1. i + 1 \in 0 .. e.ligne /\ e.buff_display_ligne + (i + 1) = d + i
        BY <1>0, <1>2, <2>3, Tableau DEF EcranT
      <4>2. e.video[i + 1][j] \in {"t", e.screen_buffer[e.buff_display_ligne + (i + 1)][j]}
        BY <2>8, <4>1 DEF Recopie
      <4> QED
        BY <2>4, <4>1, <4>2
    <3>4. ASSUME NEW i \in h + 1 .. Hauteur - 1, NEW j \in Colonnes
          PROVE  v[i][j] \in {"t", " "}
      <4>1. i = Hauteur - 1
        BY <2>3, Tableau
      <4> QED
        BY <2>4, <4>1, Blanche
    <3> QED
      BY <2>6, <3>1, <3>2, <3>3, <3>4 DEF Fidele, Recopie
  <2> QED
    BY <1>2, <2>3, <2>6, <2>7, <2>8 DEF t
<1> QED
  BY <1>1, <1>2

\* A new line that the buffer counts.
LEMMA DescendGarde ==
    ASSUME NEW e, Entame(e), e.buff_ligne < TamponLignes - 1, NEW l \in Nat, NEW c \in Colonnes
    PROVE  LET t == [place_curseur(e, l, c) EXCEPT !.buff_ligne = @ + 1]
           IN  Entame(t) /\ (l = e.ligne + 1 /\ Fidele(e) => Recopie(t))
<1> DEFINE t == [place_curseur(e, l, c) EXCEPT !.buff_ligne = @ + 1]
           b == e.buff_ligne + 1
<1>0. e \in EcranT
  BY DEF Entame
<1>1. b \in Tampon /\ b = e.buff_ligne + 1
  BY <1>0, Tableau DEF EcranT, Tampon
<1>2. t = [e EXCEPT !.ligne = l, !.colonne = c, !.buff_ligne = b]
  BY <1>0 DEF place_curseur, EcranT
<1> HIDE DEF b
<1>3. t \in EcranT
  BY <1>0, <1>1, <1>2 DEF EcranT
<1>4. /\ t.ligne = l /\ t.colonne = c /\ t.video = e.video /\ t.screen_buffer = e.screen_buffer
      /\ t.buff_ligne = b /\ t.buff_display_ligne = e.buff_display_ligne
  BY <1>0, <1>2 DEF EcranT
<1> HIDE DEF t
<1>5. Entame(t)
  BY <1>0, <1>1, <1>3, <1>4 DEF Entame, Tampon, EcranT
<1>6. ASSUME l = e.ligne + 1, Fidele(e) PROVE Recopie(t)
  <2>1. e.ligne \in Lignes /\ e.ligne # Hauteur - 1 /\ e.buff_display_ligne + e.ligne = e.buff_ligne
    BY <1>6 DEF Fidele, Recopie
  <2>2. l \in Lignes /\ e.buff_display_ligne + l = b /\ e.buff_display_ligne \in Nat
    <3>1. e.ligne \in Nat /\ e.buff_display_ligne \in Nat /\ e.buff_ligne \in Int
      BY <1>0, Tableau DEF EcranT, Tampon
    <3>2. l \in Lignes
      BY <1>6, <2>1, <3>1, Tableau DEF Lignes
    <3>3. e.buff_display_ligne + (e.ligne + 1) = e.buff_ligne + 1
      BY <2>1, <3>1
    <3> QED
      BY <1>1, <1>6, <3>1, <3>2, <3>3
  <2>3. ASSUME NEW i \in 0 .. l, NEW j \in Colonnes
        PROVE  e.video[i][j] \in {"t", e.screen_buffer[e.buff_display_ligne + i][j]}
    <3>1. CASE i = l
      <4>1. i \in e.ligne + 1 .. Hauteur - 1
        BY <1>6, <2>2, <3>1, Tableau DEF Lignes
      <4>2. e.video[i][j] \in {"t", " "}
        BY <1>6, <4>1 DEF Fidele, Recopie
      <4>3. b > e.buff_ligne
        BY <1>0, <1>1 DEF EcranT, Tampon
      <4>4. e.screen_buffer[b] = LigneBlanche
        BY <1>1, <4>3 DEF Entame
      <4> QED
        BY <2>2, <3>1, <4>2, <4>4, Blanche
    <3>2. CASE i # l
      <4>1. i \in 0 .. e.ligne
        BY <1>6, <2>1, <3>2, Tableau DEF Lignes
      <4> QED
        BY <1>6, <4>1 DEF Fidele, Recopie
    <3> QED
      BY <3>1, <3>2
  <2>4. \A i \in l + 1 .. Hauteur - 1 : i \in e.ligne + 1 .. Hauteur - 1
    BY <1>6, <2>1, Tableau DEF Lignes
  <2> QED
    BY <1>4, <1>6, <2>2, <2>3, <2>4 DEF Fidele, Recopie
<1> QED
  BY <1>5, <1>6 DEF t

\* Divisions: a multiple is followed by no multiple, and a tabulation never ends
\* on the right of the column it rounds.
LEMMA Division ==
    ASSUME NEW n \in Nat, n > 1, NEW c \in Nat
    PROVE  c \div n \in Nat /\ c = n * (c \div n) + (c % n) /\ c % n \in 0 .. n - 1
OBVIOUS

LEMMA ResteBorne ==
    ASSUME NEW n \in Nat, n > 1, NEW c \in Nat
    PROVE  c % n \in 0 .. n - 1 /\ c % n <= c
OBVIOUS

LEMMA PasMultiple ==
    ASSUME NEW n \in Nat, n > 1, NEW c \in Nat, c % n = 0
    PROVE  (c + 1) % n # 0
<1>1. \A p, q \in Nat : n * p + 1 # n * q
  <2> TAKE p, q \in Nat
  <2>1. CASE p < q
    <3>1. n * q = n * p + n * (q - p) /\ n * (q - p) >= n
      BY <2>1
    <3> QED
      BY <3>1
  <2>2. CASE p >= q
    <3>1. n * p = n * q + n * (p - q) /\ n * (p - q) >= 0
      BY <2>2
    <3> QED
      BY <3>1
  <2> QED
    BY <2>1, <2>2
<1>2. c \div n \in Nat /\ c = n * (c \div n) + 0
  BY Division
<1>3. (c + 1) \div n \in Nat /\ c + 1 = n * ((c + 1) \div n) + ((c + 1) % n)
  BY Division
<1> QED
  BY <1>1, <1>2, <1>3

LEMMA TabuleColonne ==
    ASSUME NEW k \in Nat
    PROVE  LET c == IF k % Tabulation = 0 THEN k + 1 ELSE k
           IN  c - (c % Tabulation) \in 0 .. k
<1> DEFINE d == IF k % Tabulation = 0 THEN k + 1 ELSE k
           r == d % Tabulation
<1>0. k \in Nat /\ Tabulation \in Nat /\ Tabulation > 1
  BY Tableau
<1>1. d \in Nat /\ d \in {k, k + 1} /\ (d = k + 1 => k % Tabulation = 0)
  BY <1>0
<1>2. d = k + 1 => r # 0
  BY <1>0, <1>1, PasMultiple
<1> HIDE DEF d
<1>3. r \in Int /\ r >= 0 /\ r <= d
  <2>1. d % Tabulation \in 0 .. Tabulation - 1 /\ d % Tabulation <= d
    BY <1>0, <1>1, ResteBorne, Zenon
  <2>2. r = d % Tabulation
    OBVIOUS
  <2> HIDE DEF r
  <2> QED
    BY <1>0, <2>1, <2>2
<1> HIDE DEF r
<1>4. d - r \in 0 .. k
  BY <1>0, <1>1, <1>2, <1>3
<1> QED
  BY <1>4 DEF d, r

\* A character of text that does not fill the line stays on it.
LEMMA ImprimeGarde ==
    ASSUME NEW e, Entame(e)
    PROVE  LET t == FinTraite(Imprime(e, "a"))
           IN  /\ Entame(t)
               /\ Fidele(e) /\ e.colonne + 1 # Largeur =>
                    Fidele(t) /\ t.colonne = e.colonne + 1
<1> DEFINE k == Ecrit(e, e.colonne, "a")
           m == Imprime(e, "a")
           t == FinTraite(m)
<1>0. e.colonne \in Colonnes /\ e.ligne \in Nat /\ (e.ligne + 1) % Hauteur \in Nat /\ 0 \in Colonnes
  BY Tableau DEF Entame, EcranT
<1>1. Entame(k) /\ k.ligne = e.ligne /\ (Fidele(e) => Fidele(k))
  BY <1>0, EcritGarde DEF Cases
<1>2. m = IF e.colonne + 1 = Largeur THEN place_curseur(k, (e.ligne + 1) % Hauteur, 0)
          ELSE place_curseur(k, e.ligne, e.colonne + 1)
  BY <1>0, ColonneSuivante DEF Imprime
<1> HIDE DEF k, m, t
<1>3. CASE e.colonne + 1 = Largeur
  <2>1. Entame(m)
    BY <1>0, <1>1, <1>2, <1>3, PlaceGarde
  <2> QED
    BY <1>3, <2>1, DefileGarde DEF t, m
<1>4. CASE e.colonne + 1 # Largeur
  <2>1. /\ Entame(m) /\ m.ligne = e.ligne /\ m.colonne = e.colonne + 1
        /\ Fidele(e) => Fidele(m)
    <3> DEFINE c == e.colonne + 1
    <3>1. c \in Colonnes
      BY <1>0, <1>4, ColonneSuivante
    <3>2. m = place_curseur(k, e.ligne, c) /\ c = e.colonne + 1
      BY <1>2, <1>4
    <3> HIDE DEF c
    <3>3. k.ligne \in Nat /\ m = place_curseur(k, k.ligne, c)
      BY <1>0, <1>1, <3>2
    <3>4. Entame(m) /\ m.ligne = k.ligne /\ m.colonne = c /\ (Fidele(k) => Fidele(m))
      BY <1>1, <3>1, <3>3, PlaceGarde
    <3> QED
      BY <1>1, <3>2, <3>4
  <2>2. Entame(t) /\ (m.ligne # Hauteur - 1 => t = m)
    BY <2>1, DefileGarde DEF t
  <2>3. Fidele(m) => m.ligne # Hauteur - 1
    BY DEF Fidele
  <2> QED
    BY <2>1, <2>2, <2>3 DEF t, m
<1> QED
  BY <1>3, <1>4

\* What comes before defilement() keeps the two as they are, or goes one line
\* down in both.
Suit(e, t) == Entame(t) /\ (Fidele(e) => Recopie(t))

LEMMA SuitFin ==
    ASSUME NEW e, NEW t, Suit(e, t)
    PROVE  Entame(FinTraite(t)) /\ (Fidele(e) => Fidele(FinTraite(t)))
BY DefileGarde DEF Suit

LEMMA TabuleSuit ==
    ASSUME NEW e, Entame(e), e.buff_ligne < TamponLignes - 1
    PROVE  Suit(e, Tabule(e))
<1> DEFINE c == IF e.colonne % Tabulation = 0 THEN e.colonne + 1 ELSE e.colonne
           d == c - (c % Tabulation)
           l == e.ligne + 1
<1>1. e.colonne \in Colonnes /\ e.ligne \in Nat /\ l \in Nat /\ Tabulation \in Colonnes
  BY Tableau DEF Entame, EcranT
<1>2. d \in Colonnes
  <2>1. e.colonne \in Nat /\ 0 .. e.colonne \subseteq Colonnes
    BY <1>1, Tableau DEF Colonnes
  <2>2. d \in 0 .. e.colonne
    BY <2>1, TabuleColonne
  <2> HIDE DEF d
  <2> QED
    BY <2>1, <2>2
<1>3. Tabule(e) = IF c < Tabulation THEN place_curseur(e, e.ligne, Tabulation)
                  ELSE [place_curseur(e, l, d) EXCEPT !.buff_ligne = @ + 1]
  BY DEF Tabule
<1>4. l = e.ligne + 1
  OBVIOUS
<1> HIDE DEF c, d, l
<1>5. CASE c < Tabulation
  <2>1. Entame(Tabule(e)) /\ (Fidele(e) => Fidele(Tabule(e)))
    BY <1>1, <1>3, <1>5, PlaceGarde
  <2> QED
    BY <2>1 DEF Suit, Fidele
<1>6. CASE ~(c < Tabulation)
  BY <1>1, <1>2, <1>3, <1>4, <1>6, DescendGarde DEF Suit
<1> QED
  BY <1>5, <1>6

LEMMA NouvelleLigneSuit ==
    ASSUME NEW e, Entame(e), e.buff_ligne < TamponLignes - 1
    PROVE  Suit(e, NouvelleLigne(e))
<1> DEFINE l == (e.ligne + 1) % Hauteur
           c == e.id_col_start
<1>1. l \in Nat /\ c \in Colonnes /\ e.ligne \in Nat
  BY Tableau DEF Entame, EcranT
<1>2. Fidele(e) => l = e.ligne + 1
  <2> SUFFICES ASSUME Fidele(e) PROVE l = e.ligne + 1
    OBVIOUS
  <2>1. e.ligne + 1 \in 0 .. Hauteur - 1
    BY LigneFidele DEF Fidele
  <2> QED
    BY <2>1, Tableau, Reste
<1>3. NouvelleLigne(e) = [place_curseur(e, l, c) EXCEPT !.buff_ligne = @ + 1]
  BY DEF NouvelleLigne
<1> HIDE DEF l, c
<1> QED
  BY <1>1, <1>2, <1>3, DescendGarde DEF Suit

LEMMA SupprimeSuit ==
    ASSUME NEW e, Entame(e)
    PROVE  Suit(e, Supprime(e)) /\ Suit(e, Recule(e))
           /\ Suit(e, place_curseur(e, e.ligne, e.id_col_start)) /\ Suit(e, e)
<1>0. Suit(e, e)
  BY DEF Suit, Fidele
<1>1. e.colonne \in Colonnes /\ e.ligne \in Nat /\ e.id_col_start \in Colonnes
  BY DEF Entame, EcranT
<1>2. Suit(e, place_curseur(e, e.ligne, e.id_col_start))
  BY <1>1, PlaceGarde DEF Suit, Fidele
<1>3. CASE e.colonne > e.id_col_start
  <2> DEFINE c == e.colonne - 1
             k == Ecrit(e, c, " ")
  <2>1. c \in Colonnes
    BY <1>1, <1>3, Tableau DEF Colonnes
  <2> HIDE DEF c
  <2>2. Entame(k) /\ k.ligne = e.ligne /\ (Fidele(e) => Fidele(k))
    BY <2>1, EcritGarde DEF Cases
  <2>3. Supprime(e) = place_curseur(k, e.ligne, c) /\ Recule(e) = place_curseur(e, e.ligne, c)
    BY <1>3 DEF Supprime, Recule, c
  <2> HIDE DEF k
  <2>4. Suit(e, place_curseur(k, e.ligne, c)) /\ Suit(e, place_curseur(e, e.ligne, c))
    BY <1>1, <2>1, <2>2, PlaceGarde DEF Suit, Fidele
  <2> QED
    BY <1>0, <1>2, <2>3, <2>4
<1>4. CASE ~(e.colonne > e.id_col_start)
  BY <1>0, <1>2, <1>4 DEF Supprime, Recule
<1> QED
  BY <1>3, <1>4

LEMMA EffaceEcranGarde ==
    ASSUME NEW e, Entame(e)
    PROVE  LET t == FinTraite(place_curseur(efface_ecran(e), 0, 0))
           IN  Entame(t) /\ (e.screen_buffer[e.buff_ligne] = LigneBlanche => Fidele(t))
<1> DEFINE v == [i \in Lignes |-> LigneBlanche]
           z == 0
           u == place_curseur(efface_ecran(e), 0, 0)
<1>0. e \in EcranT
  BY DEF Entame
<1>1. u = [e EXCEPT !.video = v, !.buff_display_ligne = e.buff_ligne, !.ligne = z, !.colonne = z]
  BY <1>0 DEF efface_ecran, place_curseur, EcranT
<1>2. v \in [Lignes -> [Colonnes -> Cases]]
  BY Blanche
<1>3. \A i \in Lignes, j \in Colonnes : v[i][j] = " "
  BY Blanche
<1>4. z = 0 /\ z \in Nat /\ z \in Colonnes /\ z \in Lignes /\ e.buff_ligne \in Nat
      /\ z # Hauteur - 1
  BY <1>0, Tableau DEF EcranT, Tampon
<1> HIDE DEF v, z
<1>5. u \in EcranT
  BY <1>0, <1>1, <1>2, <1>4 DEF EcranT
<1>6. /\ u.ligne = z /\ u.video = v /\ u.screen_buffer = e.screen_buffer
      /\ u.buff_ligne = e.buff_ligne /\ u.buff_display_ligne = e.buff_ligne
  BY <1>0, <1>1 DEF EcranT
<1> HIDE DEF u
<1>7. Entame(u)
  BY <1>5, <1>6 DEF Entame
<1>8. FinTraite(u) = u
  BY <1>4, <1>6 DEF FinTraite
<1>9. ASSUME e.screen_buffer[e.buff_ligne] = LigneBlanche PROVE Fidele(u)
  <2>1. ASSUME NEW i \in 0 .. z, NEW j \in Colonnes
        PROVE  v[i][j] \in {"t", e.screen_buffer[e.buff_ligne + i][j]}
    <3>1. i \in Lignes /\ e.buff_ligne + i = e.buff_ligne
      BY <1>4
    <3> QED
      BY <1>3, <1>9, <3>1, Blanche
  <2>2. \A i \in z + 1 .. Hauteur - 1 : i \in Lignes
    BY <1>4, Tableau DEF Lignes
  <2>3. \A i \in z + 1 .. Hauteur - 1, j \in Colonnes : v[i][j] \in {"t", " "}
    BY <1>3, <2>2
  <2>4. e.buff_ligne + z = e.buff_ligne
    BY <1>4
  <2> QED
    BY <1>4, <1>6, <2>1, <2>3, <2>4 DEF Fidele, Recopie
<1> QED
  BY <1>7, <1>8, <1>9 DEF u

Caracteres == {"bs", "ht", "lf", "ff", "cr", "del", "rien", "ctl", "car"}

LEMMA TraiteCarGarde ==
    ASSUME NEW e, Entame(e), NEW c \in Caracteres,
           c \in {"lf", "ht"} => e.buff_ligne < TamponLignes - 1
    PROVE  LET t == traite_car(e, c)
           IN  /\ Entame(t)
               /\ c = "ff" /\ e.screen_buffer[e.buff_ligne] = LigneBlanche => Fidele(t)
               /\ c # "ff" /\ ~Deborde(e, c) /\ Fidele(e) => Fidele(t)
<1>0. e.colonne \in Colonnes /\ Colonnes \subseteq Nat /\ Largeur \in Nat
  BY Tableau DEF Entame, EcranT
<1>1. CASE c = "ff"
  BY <1>1, EffaceEcranGarde DEF traite_car
<1>2. CASE c = "ht"
  BY <1>2, TabuleSuit, SuitFin DEF traite_car
<1>3. CASE c = "lf"
  BY <1>3, NouvelleLigneSuit, SuitFin DEF traite_car
<1>4. CASE c \in {"bs", "cr", "del", "rien"}
  BY <1>4, SupprimeSuit, SuitFin DEF traite_car
<1>5. CASE c = "car"
  BY <1>5, ImprimeGarde DEF traite_car, Deborde
<1>6. CASE c = "ctl"
  <2> DEFINE u == FinTraite(Imprime(e, "a"))
  <2>1. /\ Entame(u)
        /\ Fidele(e) /\ e.colonne + 1 # Largeur => Fidele(u) /\ u.colonne = e.colonne + 1
    BY ImprimeGarde
  <2>2. traite_car(e, c) = FinTraite(Imprime(u, "a"))
    BY <1>6 DEF traite_car
  <2>3. ~Deborde(e, c) => e.colonne + 1 # Largeur /\ e.colonne + 2 # Largeur
    BY <1>6 DEF Deborde
  <2>4. u.colonne = e.colonne + 1 => u.colonne + 1 = e.colonne + 2
    <3> HIDE DEF u
    <3>1. \A x \in Nat : x + 1 + 1 = x + 2
      OBVIOUS
    <3> QED
      BY <1>0, <3>1
  <2> HIDE DEF u
  <2>5. LET t == FinTraite(Imprime(u, "a"))
        IN  Entame(t) /\ (Fidele(u) /\ u.colonne + 1 # Largeur => Fidele(t))
    BY <2>1, ImprimeGarde
  <2> QED
    BY <1>6, <2>1, <2>2, <2>3, <2>4, <2>5
<1> QED
  BY <1>1, <1>2, <1>3, <1>4, <1>5, <1>6 DEF Caracteres

LEMMA AfficheGarde ==
    ASSUME NEW e, Entame(e)
    PROVE  Entame(display_buff(e)) /\ display_buff(e).buff_ligne = e.buff_ligne
<1> DEFINE d(i) == e.buff_display_ligne + i
           v == [i \in Lignes |-> IF d(i) <= e.buff_ligne THEN e.screen_buffer[d(i)]
                                  ELSE e.video[i]]
           t == display_buff(e)
<1>0. e \in EcranT
  BY DEF Entame
<1>1. \A i \in Lignes : d(i) <= e.buff_ligne => d(i) \in Tampon
  BY <1>0, Tableau DEF EcranT, Tampon
<1> HIDE DEF d
<1>2. v \in [Lignes -> [Colonnes -> Cases]]
  BY <1>0, <1>1 DEF EcranT
<1>3. t = [e EXCEPT !.video = v]
  BY DEF display_buff, d
<1> HIDE DEF v
<1>4. t \in EcranT /\ t.screen_buffer = e.screen_buffer /\ t.buff_ligne = e.buff_ligne
  BY <1>0, <1>2, <1>3 DEF EcranT
<1> HIDE DEF t
<1> QED
  BY <1>4 DEF Entame, t

LEMMA DefilementGarde ==
    ASSUME NEW e, Entame(e), NEW d \in Nat
    PROVE  Entame([e EXCEPT !.buff_display_ligne = d])
<1> DEFINE t == [e EXCEPT !.buff_display_ligne = d]
<1>1. t \in EcranT /\ t.screen_buffer = e.screen_buffer /\ t.buff_ligne = e.buff_ligne
  BY DEF Entame, EcranT
<1> HIDE DEF t
<1> QED
  BY <1>1 DEF Entame, t

\* The types that stay beyond the last column, over each step of the code.
LEMMA EcritLarge ==
    ASSUME NEW e, EcranLarge(e), NEW c, NEW x
    PROVE  LET t == Ecrit(e, c, x)
           IN  EcranLarge(t) /\ t.colonne = e.colonne /\ t.id_col_start = e.id_col_start
BY DEF EcranLarge, Ecrit

LEMMA PlaceLarge ==
    ASSUME NEW e, EcranLarge(e), NEW l, NEW c \in 0 .. 2 * Largeur - 1
    PROVE  LET t == place_curseur(e, l, c)
           IN  EcranLarge(t) /\ t.colonne = c /\ t.id_col_start = e.id_col_start
BY DEF EcranLarge, place_curseur

LEMMA DebutLarge ==
    ASSUME NEW e, EcranLarge(e)
    PROVE  /\ e.id_col_start \in 0 .. 2 * Largeur - 1 /\ 0 \in 0 .. 2 * Largeur - 1
           /\ Tabulation \in 0 .. 2 * Largeur - 1 /\ e.colonne \in Nat
BY Tableau DEF EcranLarge

LEMMA EffaceLarge ==
    ASSUME NEW e, EcranLarge(e)
    PROVE  EcranLarge(efface_ligne(e)) /\ EcranLarge(efface_ecran(e))
<1>1. e.id_col_start \in 0 .. 2 * Largeur - 1
  BY DebutLarge
<1>2. EcranLarge(efface_ligne(e))
  BY <1>1 DEF EcranLarge, efface_ligne
<1>3. EcranLarge(efface_ecran(e))
  BY DEF EcranLarge, efface_ecran
<1> QED
  BY <1>2, <1>3

LEMMA FinLarge ==
    ASSUME NEW e, EcranLarge(e)
    PROVE  EcranLarge(FinTraite(e))
<1>1. 0 \in 0 .. 2 * Largeur - 1
  BY DebutLarge
<1> QED
  BY <1>1 DEF EcranLarge, FinTraite

LEMMA DeuxLignes ==
    ASSUME NEW n \in Nat \ {0}
    PROVE  (2 * n) % n = 0
OBVIOUS

LEMMA ImprimeLarge ==
    ASSUME NEW e, EcranLarge(e), NEW x
    PROVE  EcranLarge(Imprime(e, x))
<1> DEFINE k == Ecrit(e, e.colonne, x)
           c == e.colonne + 1
<1>1. EcranLarge(k) /\ 0 \in 0 .. 2 * Largeur - 1
  BY EcritLarge, DebutLarge
<1>2. c % Largeur # 0 => c \in 0 .. 2 * Largeur - 1
  <2>1. c # 2 * Largeur => c \in 0 .. 2 * Largeur - 1
    BY Tableau DEF EcranLarge
  <2>2. (2 * Largeur) % Largeur = 0
    BY Tableau, DeuxLignes
  <2> HIDE DEF c
  <2> QED
    BY <2>1, <2>2
<1>3. Imprime(e, x) = IF c % Largeur = 0 THEN place_curseur(k, (e.ligne + 1) % Hauteur, 0)
                      ELSE place_curseur(k, e.ligne, c)
  BY DEF Imprime
<1> HIDE DEF c, k
<1> QED
  BY <1>1, <1>2, <1>3, PlaceLarge

LEMMA DescendLarge ==
    ASSUME NEW e, EcranLarge(e), NEW l, NEW c \in 0 .. 2 * Largeur - 1
    PROVE  EcranLarge([place_curseur(e, l, c) EXCEPT !.buff_ligne = @ + 1])
<1> DEFINE t == place_curseur(e, l, c)
           b == t.buff_ligne + 1
           u == [t EXCEPT !.buff_ligne = b]
<1>1. EcranLarge(t)
  BY PlaceLarge
<1>2. [place_curseur(e, l, c) EXCEPT !.buff_ligne = @ + 1] = u
  OBVIOUS
<1> HIDE DEF t, b
<1>3. DOMAIN u = DOMAIN t /\ u.colonne = t.colonne /\ u.id_col_start = t.id_col_start
  BY <1>1 DEF EcranLarge
<1> HIDE DEF u
<1>4. EcranLarge(u)
  BY <1>1, <1>3 DEF EcranLarge
<1> QED
  BY <1>2, <1>4

LEMMA TabuleLarge ==
    ASSUME NEW e, EcranLarge(e)
    PROVE  EcranLarge(Tabule(e))
<1> DEFINE c == IF e.colonne % Tabulation = 0 THEN e.colonne + 1 ELSE e.colonne
           d == c - (c % Tabulation)
<1>1. e.colonne \in Nat /\ Tabulation \in 0 .. 2 * Largeur - 1
  BY DebutLarge
<1>2. d \in 0 .. e.colonne
  BY <1>1, TabuleColonne
<1>3. Tabule(e) = IF c < Tabulation THEN place_curseur(e, e.ligne, Tabulation)
                  ELSE [place_curseur(e, e.ligne + 1, d) EXCEPT !.buff_ligne = @ + 1]
  BY DEF Tabule
<1> HIDE DEF c, d
<1>4. d \in 0 .. 2 * Largeur - 1
  BY <1>1, <1>2, Tableau DEF EcranLarge
<1> QED
  BY <1>1, <1>3, <1>4, PlaceLarge, DescendLarge

LEMMA ReculeLarge ==
    ASSUME NEW e, EcranLarge(e)
    PROVE  EcranLarge(Recule(e)) /\ EcranLarge(Supprime(e))
<1> DEFINE k == Ecrit(e, e.colonne - 1, " ")
<1>1. EcranLarge(k) /\ e.id_col_start \in 0 .. 2 * Largeur - 1
  BY EcritLarge, DebutLarge
<1>2. e.colonne > e.id_col_start => e.colonne - 1 \in 0 .. 2 * Largeur - 1
  BY Tableau DEF EcranLarge
<1>3. Recule(e) \in {place_curseur(e, e.ligne, e.id_col_start)}
                   \cup {place_curseur(e, e.ligne, c) : c \in {e.colonne - 1} \cap (0 .. 2 * Largeur - 1)}
  BY <1>2 DEF Recule
<1>4. e.colonne > e.id_col_start => Supprime(e) = place_curseur(k, e.ligne, e.colonne - 1)
  BY DEF Supprime
<1>5. ~(e.colonne > e.id_col_start) => Supprime(e) = e
  BY DEF Supprime
<1> HIDE DEF k
<1> QED
  BY <1>1, <1>2, <1>3, <1>4, <1>5, PlaceLarge

LEMMA TraiteCarLarge ==
    ASSUME NEW e, EcranLarge(e), NEW c \in Caracteres
    PROVE  EcranLarge(traite_car(e, c))
<1>0. e.id_col_start \in 0 .. 2 * Largeur - 1 /\ 0 \in 0 .. 2 * Largeur - 1
  BY DebutLarge
<1>1. CASE c = "bs"
  BY <1>1, ReculeLarge, FinLarge DEF traite_car
<1>2. CASE c = "ht"
  BY <1>2, TabuleLarge, FinLarge DEF traite_car
<1>3. CASE c = "lf"
  <2> DEFINE l == (e.ligne + 1) % Hauteur
  <2>1. NouvelleLigne(e) = [place_curseur(e, l, e.id_col_start) EXCEPT !.buff_ligne = @ + 1]
    BY DEF NouvelleLigne
  <2> HIDE DEF l
  <2>2. EcranLarge(NouvelleLigne(e))
    BY <1>0, <2>1, DescendLarge
  <2> QED
    BY <1>3, <2>2, FinLarge DEF traite_car
<1>4. CASE c = "ff"
  <2>1. EcranLarge(place_curseur(efface_ecran(e), 0, 0))
    BY <1>0, EffaceLarge, PlaceLarge
  <2> QED
    BY <1>4, <2>1, FinLarge DEF traite_car
<1>5. CASE c = "cr"
  <2>1. EcranLarge(place_curseur(e, e.ligne, e.id_col_start))
    BY <1>0, PlaceLarge
  <2> QED
    BY <1>5, <2>1, FinLarge DEF traite_car
<1>6. CASE c = "del"
  BY <1>6, ReculeLarge, FinLarge DEF traite_car
<1>7. CASE c = "rien"
  BY <1>7, FinLarge DEF traite_car
<1>8. CASE c = "ctl"
  BY <1>8, ImprimeLarge, FinLarge DEF traite_car
<1>9. CASE c = "car"
  BY <1>9, ImprimeLarge, FinLarge DEF traite_car
<1> QED
  BY <1>1, <1>2, <1>3, <1>4, <1>5, <1>6, <1>7, <1>8, <1>9 DEF Caracteres

LEMMA AfficheLarge ==
    ASSUME NEW e, EcranLarge(e), NEW d
    PROVE  LET t == [e EXCEPT !.buff_display_ligne = d]
           IN  EcranLarge(t) /\ EcranLarge(display_buff(t))
               /\ display_buff(t).id_col_start = e.id_col_start
<1> DEFINE t == [e EXCEPT !.buff_display_ligne = d]
<1>1. EcranLarge(t) /\ t.id_col_start = e.id_col_start
  BY DEF EcranLarge
<1> HIDE DEF t
<1>2. EcranLarge(display_buff(t)) /\ display_buff(t).id_col_start = e.id_col_start
  BY <1>1 DEF EcranLarge, display_buff
<1> QED
  BY <1>1, <1>2 DEF t

\* Whatever a step does, the column is at most one line too far.
LEMMA PasLarge ==
    ASSUME EcranLarge(ecran), EcranNext
    PROVE  EcranLarge(ecran')
<1>0. ecran.id_col_start \in 0 .. 2 * Largeur - 1 /\ 0 \in 0 .. 2 * Largeur - 1
  BY DebutLarge
<1>1. ASSUME NEW c \in Caracteres, Caractere(c) PROVE EcranLarge(ecran')
  BY <1>1, TraiteCarLarge DEF Caractere
<1>2. ASSUME NEW n \in 0 .. 1, Rappelle(n) PROVE EcranLarge(ecran')
  <2> DEFINE e == efface_ligne(ecran)
  <2>1. ecran' = IF n = 0 THEN e ELSE traite_car(e, "car")
    BY <1>2 DEF Rappelle
  <2>2. EcranLarge(e)
    BY EffaceLarge
  <2> HIDE DEF e
  <2>3. EcranLarge(traite_car(e, "car"))
    BY <2>2, TraiteCarLarge DEF Caracteres
  <2> QED
    BY <2>1, <2>2, <2>3
<1>3. ASSUME NEW i \in IdStarts, set_id_start(i) PROVE EcranLarge(ecran')
  <2>1. i \in 0 .. Largeur /\ ecran' = [ecran EXCEPT !.id_col_start = i]
    BY <1>3 DEF set_id_start
  <2> QED
    BY <2>1 DEF EcranLarge
<1>4. CASE avance_curseur
  <2> DEFINE c == ecran.colonne + 1
  <2>1. c % Largeur # 0 /\ ecran' = place_curseur(ecran, ecran.ligne, c)
    BY <1>4 DEF avance_curseur
  <2>2. c # 2 * Largeur => c \in 0 .. 2 * Largeur - 1
    BY Tableau DEF EcranLarge
  <2>3. (2 * Largeur) % Largeur = 0
    BY Tableau, DeuxLignes
  <2> HIDE DEF c
  <2> QED
    BY <2>1, <2>2, <2>3, PlaceLarge
<1>5. CASE ecrit_temps
  BY <1>5 DEF ecrit_temps, EcranLarge
<1>6. CASE defillement_haut
  BY <1>6, AfficheLarge DEF defillement_haut
<1>7. CASE defillement_bas
  <2> DEFINE d == ecran.buff_display_ligne + 1
             a == display_buff([ecran EXCEPT !.buff_display_ligne = d])
             e == place_curseur(a, Hauteur - 1, ecran.id_col_start)
  <2>1. ecran' \in {efface_ligne(e), efface_ligne(ecran)}
    BY <1>7 DEF defillement_bas
  <2> HIDE DEF d
  <2>2. EcranLarge(a)
    BY AfficheLarge
  <2> HIDE DEF a
  <2>3. EcranLarge(e)
    BY <1>0, <2>2, PlaceLarge
  <2> HIDE DEF e
  <2> QED
    BY <2>1, <2>3, EffaceLarge
<1> QED
  BY <1>1, <1>2, <1>3, <1>4, <1>5, <1>6, <1>7 DEF EcranNext, Caracteres

LEMMA EcranPas == InvEcran /\ [EcranNext]_ecranVars => InvEcran'
<1> SUFFICES ASSUME InvEcran, [EcranNext]_ecranVars PROVE InvEcran'
  OBVIOUS
<1>0. /\ cadre \in BOOLEAN /\ fidele \in BOOLEAN /\ (fidele => cadre /\ Fidele(ecran))
      /\ cadre => /\ Entame(ecran) /\ ecran.colonne \in Colonnes
                  /\ ecran.id_col_start \in Colonnes /\ ecran.ligne \in Nat
                  /\ ecran.buff_display_ligne \in Nat
      /\ Colonnes \subseteq Nat
  BY Tableau DEF InvEcran, Entame, EcranT
<1>l. EcranLarge(ecran)'
  <2>1. CASE EcranNext
    <3>1. EcranLarge(ecran')
      BY <2>1, PasLarge DEF InvEcran
    <3> QED
      BY <3>1 DEF EcranLarge
  <2>2. CASE UNCHANGED ecranVars
    BY <2>2 DEF ecranVars, InvEcran, EcranLarge
  <2> QED
    BY <2>1, <2>2
<1>a. ASSUME cadre' \in BOOLEAN, fidele' \in BOOLEAN, cadre' => Entame(ecran'),
             fidele' => cadre' /\ Fidele(ecran')
      PROVE  InvEcran'
  <2>1. cadre' => Entame(ecran)'
    BY <1>a DEF Entame, EcranT, Lignes, Colonnes, Tampon, LigneBlanche, Cases
  <2>2. fidele' => Fidele(ecran)'
    BY <1>a DEF Fidele, Recopie, Lignes, Colonnes
  <2> QED
    BY <1>a, <1>l, <2>1, <2>2 DEF InvEcran
<1>1. ASSUME NEW c \in Caracteres, Caractere(c) PROVE InvEcran'
  <2>1. /\ ecran' = traite_car(ecran, c)
        /\ c \in {"lf", "ht"} => ecran.buff_ligne < TamponLignes - 1
        /\ fidele' = IF c = "ff"
                     THEN cadre /\ ecran.screen_buffer[ecran.buff_ligne] = LigneBlanche
                     ELSE fidele /\ ~Deborde(ecran, c)
        /\ UNCHANGED cadre
    BY <1>1 DEF Caractere
  <2>2. /\ fidele' \in BOOLEAN
        /\ c = "ff" => (fidele' <=> cadre /\ ecran.screen_buffer[ecran.buff_ligne] = LigneBlanche)
        /\ c # "ff" => (fidele' <=> fidele /\ ~Deborde(ecran, c))
    BY <2>1, <1>0 DEF Deborde
  <2>3. ASSUME cadre
        PROVE  /\ Entame(ecran')
               /\ c = "ff" /\ ecran.screen_buffer[ecran.buff_ligne] = LigneBlanche => Fidele(ecran')
               /\ c # "ff" /\ ~Deborde(ecran, c) /\ Fidele(ecran) => Fidele(ecran')
    BY <1>0, <2>1, <2>3, TraiteCarGarde
  <2>4. fidele' => cadre' /\ Fidele(ecran')
    BY <1>0, <2>1, <2>2, <2>3
  <2>5. cadre' \in BOOLEAN /\ (cadre' => Entame(ecran'))
    BY <1>0, <2>1, <2>3
  <2> QED
    BY <1>a, <2>2, <2>4, <2>5
<1>2. ASSUME NEW n \in 0 .. 1, Rappelle(n) PROVE InvEcran'
  <2> DEFINE e == efface_ligne(ecran)
  <2>1. /\ ecran' = IF n = 0 THEN e ELSE traite_car(e, "car")
        /\ fidele' = (fidele /\ (n # 0 => ~Deborde(e, "car")))
        /\ UNCHANGED cadre
    BY <1>2 DEF Rappelle
  <2>2. cadre => Entame(e) /\ (Fidele(ecran) => Fidele(e))
    BY <1>0, EffaceGarde
  <2> HIDE DEF e
  <2>3. ASSUME cadre
        PROVE  /\ Entame(traite_car(e, "car"))
               /\ ~Deborde(e, "car") /\ Fidele(e) => Fidele(traite_car(e, "car"))
    BY <2>2, <2>3, TraiteCarGarde DEF Caracteres
  <2>4. fidele' \in BOOLEAN
    BY <2>1
  <2> QED
    BY <1>a, <1>0, <2>1, <2>2, <2>3, <2>4
<1>3. CASE \E i \in IdStarts : set_id_start(i)
  <2> PICK i \in IdStarts : set_id_start(i)
    BY <1>3
  <2>1. /\ i \in 0 .. Largeur /\ ecran' = [ecran EXCEPT !.id_col_start = i]
        /\ cadre' = (cadre /\ i # Largeur) /\ fidele' = (fidele /\ i # Largeur)
    BY DEF set_id_start
  <2>2. cadre' \in BOOLEAN /\ fidele' \in BOOLEAN /\ (fidele' => cadre')
    BY <1>0, <2>1
  <2>3. CASE ~cadre'
    BY <1>a, <2>2, <2>3
  <2>4. CASE cadre'
    <3>1. cadre /\ i \in Colonnes /\ (fidele' => fidele)
      <4>1. cadre /\ i # Largeur /\ (fidele' => fidele)
        BY <2>1, <2>4
      <4> QED
        BY <2>1, <4>1, Tableau DEF Colonnes
    <3>2. /\ ecran' \in EcranT /\ ecran'.ligne = ecran.ligne /\ ecran'.video = ecran.video
          /\ ecran'.screen_buffer = ecran.screen_buffer /\ ecran'.buff_ligne = ecran.buff_ligne
          /\ ecran'.buff_display_ligne = ecran.buff_display_ligne
      BY <1>0, <2>1, <3>1 DEF Entame, EcranT
    <3>3. Entame(ecran')
      BY <1>0, <3>1, <3>2 DEF Entame
    <3>4. Fidele(ecran) => Fidele(ecran')
      BY <3>2 DEF Fidele, Recopie
    <3> QED
      BY <1>a, <1>0, <2>2, <3>1, <3>3, <3>4
  <2> QED
    BY <2>3, <2>4
<1>4. CASE avance_curseur
  <2> DEFINE c == ecran.colonne + 1
  <2>1. /\ cadre => c \in Colonnes
        /\ ecran' = place_curseur(ecran, ecran.ligne, c) /\ UNCHANGED <<cadre, fidele>>
    BY <1>0, <1>4, ColonneSuivante DEF avance_curseur
  <2> HIDE DEF c
  <2> QED
    BY <1>a, <1>0, <2>1, PlaceGarde
<1>5. CASE ecrit_temps
  <2> DEFINE k == Largeur - 1
             v == [ecran.video EXCEPT ![0] = [@ EXCEPT ![k] = "t"]]
  <2>c. UNCHANGED <<cadre, fidele>>
    BY <1>5 DEF ecrit_temps
  <2>d. SUFFICES ASSUME cadre PROVE InvEcran'
    BY <1>a, <1>0, <2>c
  <2>0. ecran \in EcranT /\ k \in Colonnes /\ 0 \in Lignes
    BY <1>0, <2>d, Tableau DEF Entame
  <2>1. ecran' = [ecran EXCEPT !.video = v]
    BY <1>5, <2>0 DEF ecrit_temps, EcranT
  <2> HIDE DEF k
  <2>2. v \in [Lignes -> [Colonnes -> Cases]]
    BY <2>0 DEF EcranT, Cases
  <2>3. \A i \in Lignes, j \in Colonnes : v[i][j] = "t" \/ v[i][j] = ecran.video[i][j]
    BY <2>0 DEF EcranT
  <2> HIDE DEF v
  <2>4. /\ ecran' \in EcranT /\ ecran'.ligne = ecran.ligne /\ ecran'.video = v
        /\ ecran'.screen_buffer = ecran.screen_buffer /\ ecran'.buff_ligne = ecran.buff_ligne
        /\ ecran'.buff_display_ligne = ecran.buff_display_ligne
    BY <2>0, <2>1, <2>2 DEF EcranT
  <2>5. Entame(ecran')
    BY <1>0, <2>d, <2>4 DEF Entame
  <2>6. ASSUME Fidele(ecran) PROVE Fidele(ecran')
    <3>0. Recopie(ecran) /\ ecran.ligne # Hauteur - 1
      BY <2>6 DEF Fidele
    <3>1. /\ ecran.ligne \in Lignes
          /\ \A i \in 0 .. ecran.ligne : i \in Lignes
          /\ \A i \in ecran.ligne + 1 .. Hauteur - 1 : i \in Lignes
      BY <3>0, LigneFidele
    <3>2. \A i \in 0 .. ecran.ligne, j \in Colonnes :
            v[i][j] \in {"t", ecran.screen_buffer[ecran.buff_display_ligne + i][j]}
      BY <2>3, <3>0, <3>1 DEF Recopie
    <3>3. \A i \in ecran.ligne + 1 .. Hauteur - 1, j \in Colonnes : v[i][j] \in {"t", " "}
      BY <2>3, <3>0, <3>1 DEF Recopie
    <3> QED
      BY <2>4, <3>0, <3>1, <3>2, <3>3 DEF Fidele, Recopie
  <2> QED
    BY <1>a, <1>0, <2>c, <2>5, <2>6
<1>6. CASE defillement_haut
  <2> DEFINE d == ecran.buff_display_ligne - 1
  <2>1. (cadre => d \in Nat) /\ fidele' = FALSE /\ UNCHANGED cadre
        /\ ecran' = display_buff([ecran EXCEPT !.buff_display_ligne = d])
    BY <1>0, <1>6 DEF defillement_haut
  <2> HIDE DEF d
  <2> QED
    BY <1>a, <1>0, <2>1, DefilementGarde, AfficheGarde
<1>7. CASE defillement_bas
  <2> DEFINE d == ecran.buff_display_ligne + 1
             h == Hauteur - 1
             a == display_buff([ecran EXCEPT !.buff_display_ligne = d])
             e == place_curseur(a, h, ecran.id_col_start)
  <2>1. (cadre => d \in Nat) /\ h \in Nat
    BY <1>0, Tableau
  <2>2. fidele' = FALSE /\ UNCHANGED cadre /\ ecran' \in {efface_ligne(e), efface_ligne(ecran)}
    BY <1>7 DEF defillement_bas
  <2> HIDE DEF d, h
  <2>3. cadre => Entame(a)
    BY <1>0, <2>1, DefilementGarde, AfficheGarde
  <2> HIDE DEF a
  <2>4. cadre => Entame(e)
    BY <1>0, <2>1, <2>3, PlaceGarde
  <2> HIDE DEF e
  <2> QED
    BY <1>a, <1>0, <2>2, <2>4, EffaceGarde
<1>8. CASE UNCHANGED ecranVars
  BY <1>8, <1>a, <1>0 DEF ecranVars
<1> QED
  BY <1>1, <1>2, <1>3, <1>4, <1>5, <1>6, <1>7, <1>8 DEF EcranNext, Caracteres

LEMMA EcranSuite == InvEcran => EcranFidele
<1> SUFFICES ASSUME InvEcran PROVE EcranFidele
  OBVIOUS
<1>0. ecran.colonne \in 0 .. 2 * Largeur - 1 /\ (cadre => ecran.colonne \in Colonnes)
  BY DEF InvEcran, EcranLarge, Entame, EcranT
<1>1. fidele => /\ ecran.ligne \in Nat /\ ecran.buff_display_ligne \in Nat
                /\ ecran.buff_ligne \in Int
  BY Tableau DEF InvEcran, Entame, EcranT, Tampon
<1>2. ASSUME fidele PROVE Fidele(ecran)
  BY <1>2 DEF InvEcran
<1>3. ASSUME fidele PROVE ecran.ligne \in 0 .. Hauteur - 2
  BY <1>2, <1>3, LigneFidele DEF Fidele
<1>4. ASSUME fidele, NEW i \in 0 .. ecran.ligne PROVE Miroir(i) = ecran.buff_display_ligne + i
  <2>1. ecran.buff_display_ligne + ecran.ligne = ecran.buff_ligne
    BY <1>2, <1>4 DEF Fidele, Recopie
  <2> QED
    BY <1>1, <1>4, <2>1 DEF Miroir
<1> QED
  BY <1>0, <1>1, <1>2, <1>3, <1>4 DEF EcranFidele, Fidele, Recopie

\* The screen and the buffer that the scroll keys redraw it from hold the same
\* lines at the same place until a line is wrapped, a key scrolls or a program
\* makes the lines start beyond the last column; the cursor stays in the columns
\* until that program, and goes at most one line too far after it.  For a screen
\* and a buffer of any size, and every argument that set_id_start accepts.
THEOREM EcranSurCorrect == SpecMachines => []EcranSur
<1> DEFINE I == banc = "ecran" => InvEcran
<1>1. MachinesInit => I
  BY EcranInitial DEF MachinesInit
<1>2. I /\ [MachinesNext]_machinesVars => I'
  BY BancEcran, EcranPas
<1>3. I => EcranSur
  BY EcranSuite DEF EcranSur
<1> QED
  BY <1>1, <1>2, <1>3, PTL DEF SpecMachines

-----------------------------------------------------------------------------
\* The way into the kernel.

\* The register each argument of a stub travels in.
RegArg == <<"ebx", "ecx", "edx", "esi", "edi">>

\* The dispatch and the prototype of a stub, which agree.
Fiche(f, args, verifies, rend, n, pointeurs) ==
    /\ traitant_IT_49_switch(Numero[f]) = Cas(f, args, verifies, rend)
    /\ Prototype[f] = [n |-> n, pointeurs |-> pointeurs, rend |-> rend]

CasJuste(f) ==
    LET c == traitant_IT_49_switch(Numero[f])
        P == Prototype[f]
    IN  /\ c.f = f /\ c.rend = P.rend /\ P.rend \in BOOLEAN
        /\ P.n \in 0 .. 5 /\ P.pointeurs \subseteq 1 .. P.n
        /\ Len(c.args) = P.n /\ \A k \in 1 .. P.n : c.args[k] = RegArg[k]
        /\ c.verifies = {RegArg[k] : k \in P.pointeurs}

\* The kernel checks the registers of the pointers, and no other.
Forme(args, verifies, n, pointeurs) ==
    /\ n \in 0 .. 5 /\ pointeurs \subseteq 1 .. n
    /\ Len(args) = n /\ \A k \in 1 .. n : args[k] = RegArg[k]
    /\ verifies = {RegArg[k] : k \in pointeurs}

LEMMA FicheJuste ==
    \A f, args, verifies, rend, n, pointeurs :
        rend \in BOOLEAN /\ Fiche(f, args, verifies, rend, n, pointeurs)
        /\ Forme(args, verifies, n, pointeurs) => CasJuste(f)
<1> TAKE f, args, verifies, rend, n, pointeurs
<1> HAVE rend \in BOOLEAN /\ Fiche(f, args, verifies, rend, n, pointeurs)
         /\ Forme(args, verifies, n, pointeurs)
<1> QED
  BY DEF Fiche, CasJuste, Cas, Forme

LEMMA Formes ==
    /\ Forme(<<>>, {}, 0, {}) /\ Forme(B, {}, 1, {}) /\ Forme(BC, {}, 2, {})
    /\ Forme(BC, {"ebx"}, 2, {1}) /\ Forme(BC, {"ecx"}, 2, {2})
    /\ Forme(BC, {"ebx", "ecx"}, 2, {1, 2}) /\ Forme(RegArg, {"ebx", "esi"}, 5, {1, 4})
<1>1. /\ Len(<<>>) = 0 /\ Len(B) = 1 /\ Len(BC) = 2 /\ Len(RegArg) = 5
      /\ B[1] = RegArg[1] /\ BC[1] = RegArg[1] /\ BC[2] = RegArg[2]
      /\ RegArg[1] = "ebx" /\ RegArg[2] = "ecx" /\ RegArg[4] = "esi"
  BY DEF B, BC, RegArg
<1>2. /\ {RegArg[k] : k \in {}} = {} /\ {RegArg[k] : k \in {1}} = {"ebx"}
      /\ {RegArg[k] : k \in {2}} = {"ecx"} /\ {RegArg[k] : k \in {1, 2}} = {"ebx", "ecx"}
      /\ {RegArg[k] : k \in {1, 4}} = {"ebx", "esi"}
  BY <1>1
<1>3. /\ \A k \in 1 .. 0 : <<>>[k] = RegArg[k]
      /\ \A k \in 1 .. 1 : B[k] = RegArg[k]
      /\ \A k \in 1 .. 2 : BC[k] = RegArg[k]
  BY <1>1
<1> QED
  BY <1>1, <1>2, <1>3 DEF Forme

LEMMA Fiches ==
    /\ Fiche("getpid", <<>>, {}, TRUE, 0, {})
    /\ Fiche("console_putbytes", BC, {"ebx"}, FALSE, 2, {1})
    /\ Fiche("start", RegArg, {"ebx", "esi"}, TRUE, 5, {1, 4})
    /\ Fiche("exit", B, {}, FALSE, 1, {})
    /\ Fiche("kill", B, {}, TRUE, 1, {})
    /\ Fiche("affiche_table_process", <<>>, {}, FALSE, 0, {})
    /\ Fiche("getprio", B, {}, TRUE, 1, {})
    /\ Fiche("chprio", BC, {}, TRUE, 2, {})
    /\ Fiche("pcount", BC, {"ecx"}, TRUE, 2, {2})
    /\ Fiche("pcreate", B, {}, TRUE, 1, {})
    /\ Fiche("pdelete", B, {}, TRUE, 1, {})
    /\ Fiche("preceive", BC, {"ecx"}, TRUE, 2, {2})
    /\ Fiche("preset", B, {}, TRUE, 1, {})
    /\ Fiche("psend", BC, {}, TRUE, 2, {})
    /\ Fiche("clock_settings", BC, {"ebx", "ecx"}, FALSE, 2, {1, 2})
    /\ Fiche("current_clock", <<>>, {}, TRUE, 0, {})
    /\ Fiche("wait_clock", B, {}, FALSE, 1, {})
    /\ Fiche("waitpid", BC, {"ecx"}, TRUE, 2, {2})
    /\ Fiche("cons_echo", B, {}, FALSE, 1, {})
    /\ Fiche("cons_read", BC, {"ebx"}, TRUE, 2, {1})
    /\ Fiche("cons_write", BC, {"ebx"}, FALSE, 2, {1})
    /\ Fiche("exit_kernel", <<>>, {}, FALSE, 0, {})
    /\ Fiche("set_color", B, {}, FALSE, 1, {})
    /\ Fiche("scount", B, {}, TRUE, 1, {})
    /\ Fiche("screate", B, {}, TRUE, 1, {})
    /\ Fiche("sdelete", B, {}, TRUE, 1, {})
    /\ Fiche("sreset", BC, {}, TRUE, 2, {})
    /\ Fiche("signal", B, {}, TRUE, 1, {})
    /\ Fiche("signaln", BC, {}, TRUE, 2, {})
    /\ Fiche("try_wait", B, {}, TRUE, 1, {})
    /\ Fiche("wait", B, {}, TRUE, 1, {})
    /\ Fiche("play_sound", BC, {}, FALSE, 2, {})
    /\ Fiche("cons_switch_echo", <<>>, {}, FALSE, 0, {})
    /\ Fiche("set_id_start", B, {}, FALSE, 1, {})
    /\ Fiche("afficher_historique", <<>>, {}, FALSE, 0, {})
<1>1. /\ Fiche("getpid", <<>>, {}, TRUE, 0, {})
      /\ Fiche("console_putbytes", BC, {"ebx"}, FALSE, 2, {1})
      /\ Fiche("start", RegArg, {"ebx", "esi"}, TRUE, 5, {1, 4})
      /\ Fiche("exit", B, {}, FALSE, 1, {})
      /\ Fiche("kill", B, {}, TRUE, 1, {})
  BY DEF Fiche, Numero, traitant_IT_49_switch, Prototype, RegArg
<1>2. /\ Fiche("affiche_table_process", <<>>, {}, FALSE, 0, {})
      /\ Fiche("getprio", B, {}, TRUE, 1, {})
      /\ Fiche("chprio", BC, {}, TRUE, 2, {})
      /\ Fiche("pcount", BC, {"ecx"}, TRUE, 2, {2})
      /\ Fiche("pcreate", B, {}, TRUE, 1, {})
  BY DEF Fiche, Numero, traitant_IT_49_switch, Prototype, RegArg
<1>3. /\ Fiche("pdelete", B, {}, TRUE, 1, {})
      /\ Fiche("preceive", BC, {"ecx"}, TRUE, 2, {2})
      /\ Fiche("preset", B, {}, TRUE, 1, {})
      /\ Fiche("psend", BC, {}, TRUE, 2, {})
      /\ Fiche("clock_settings", BC, {"ebx", "ecx"}, FALSE, 2, {1, 2})
  BY DEF Fiche, Numero, traitant_IT_49_switch, Prototype, RegArg
<1>4. /\ Fiche("current_clock", <<>>, {}, TRUE, 0, {})
      /\ Fiche("wait_clock", B, {}, FALSE, 1, {})
      /\ Fiche("waitpid", BC, {"ecx"}, TRUE, 2, {2})
      /\ Fiche("cons_echo", B, {}, FALSE, 1, {})
      /\ Fiche("cons_read", BC, {"ebx"}, TRUE, 2, {1})
  BY DEF Fiche, Numero, traitant_IT_49_switch, Prototype, RegArg
<1>5. /\ Fiche("cons_write", BC, {"ebx"}, FALSE, 2, {1})
      /\ Fiche("exit_kernel", <<>>, {}, FALSE, 0, {})
      /\ Fiche("set_color", B, {}, FALSE, 1, {})
      /\ Fiche("scount", B, {}, TRUE, 1, {})
      /\ Fiche("screate", B, {}, TRUE, 1, {})
  BY DEF Fiche, Numero, traitant_IT_49_switch, Prototype, RegArg
<1>6. /\ Fiche("sdelete", B, {}, TRUE, 1, {})
      /\ Fiche("sreset", BC, {}, TRUE, 2, {})
      /\ Fiche("signal", B, {}, TRUE, 1, {})
      /\ Fiche("signaln", BC, {}, TRUE, 2, {})
      /\ Fiche("try_wait", B, {}, TRUE, 1, {})
  BY DEF Fiche, Numero, traitant_IT_49_switch, Prototype, RegArg
<1>7. /\ Fiche("wait", B, {}, TRUE, 1, {})
      /\ Fiche("play_sound", BC, {}, FALSE, 2, {})
      /\ Fiche("cons_switch_echo", <<>>, {}, FALSE, 0, {})
      /\ Fiche("set_id_start", B, {}, FALSE, 1, {})
      /\ Fiche("afficher_historique", <<>>, {}, FALSE, 0, {})
  BY DEF Fiche, Numero, traitant_IT_49_switch, Prototype, RegArg
<1> QED
  BY <1>1, <1>2, <1>3, <1>4, <1>5, <1>6, <1>7

LEMMA Tables == ASSUME NEW f \in DOMAIN Prototype PROVE CasJuste(f)
<1>1. f \in {"getpid", "console_putbytes", "start", "exit", "kill", "affiche_table_process",
             "getprio", "chprio", "pcount", "pcreate", "pdelete", "preceive", "preset", "psend",
             "clock_settings", "current_clock", "wait_clock", "waitpid", "cons_echo", "cons_read",
             "cons_write", "exit_kernel", "set_color", "scount", "screate", "sdelete", "sreset",
             "signal", "signaln", "try_wait", "wait", "play_sound", "cons_switch_echo",
             "set_id_start", "afficher_historique"}
  BY DEF Prototype
<1>2. /\ CasJuste("getpid") /\ CasJuste("console_putbytes") /\ CasJuste("start")
      /\ CasJuste("exit") /\ CasJuste("kill")
  BY Fiches, Formes, FicheJuste
<1>3. /\ CasJuste("affiche_table_process") /\ CasJuste("getprio") /\ CasJuste("chprio")
      /\ CasJuste("pcount") /\ CasJuste("pcreate")
  BY Fiches, Formes, FicheJuste
<1>4. /\ CasJuste("pdelete") /\ CasJuste("preceive") /\ CasJuste("preset")
      /\ CasJuste("psend") /\ CasJuste("clock_settings")
  BY Fiches, Formes, FicheJuste
<1>5. /\ CasJuste("current_clock") /\ CasJuste("wait_clock") /\ CasJuste("waitpid")
      /\ CasJuste("cons_echo") /\ CasJuste("cons_read")
  BY Fiches, Formes, FicheJuste
<1>6. /\ CasJuste("cons_write") /\ CasJuste("exit_kernel") /\ CasJuste("set_color")
      /\ CasJuste("scount") /\ CasJuste("screate")
  BY Fiches, Formes, FicheJuste
<1>7. /\ CasJuste("sdelete") /\ CasJuste("sreset") /\ CasJuste("signal")
      /\ CasJuste("signaln") /\ CasJuste("try_wait")
  BY Fiches, Formes, FicheJuste
<1>8. /\ CasJuste("wait") /\ CasJuste("play_sound") /\ CasJuste("cons_switch_echo")
      /\ CasJuste("set_id_start") /\ CasJuste("afficher_historique")
  BY Fiches, Formes, FicheJuste
<1> QED
  BY <1>1, <1>2, <1>3, <1>4, <1>5, <1>6, <1>7, <1>8


\* A stack of n places.
EstPile(s, n) == s = [k \in 1 .. n |-> s[k]]

LEMMA PileSeq ==
    ASSUME NEW n \in Nat, NEW s, EstPile(s, n), NEW S, \A k \in 1 .. n : s[k] \in S
    PROVE  s \in Seq(S) /\ Len(s) = n
<1> DEFINE t == [k \in 1 .. n |-> s[k]]
<1>1. t \in Seq(S) /\ Len(t) = n
  BY IsASeq
<1> QED
  BY <1>1 DEF EstPile

LEMMA SeqPile ==
    ASSUME NEW S, NEW s \in Seq(S), NEW n, Len(s) = n
    PROVE  EstPile(s, n)
BY LenProperties DEF EstPile

LEMMA PileVide == EstPile(<<>>, 0)
BY EmptySeq, SeqPile

\* Its elements are those of its places.
Elements(s, n) == {s[k] : k \in 1 .. n}

LEMMA PileElements ==
    ASSUME NEW n \in Nat, NEW s, EstPile(s, n)
    PROVE  s \in Seq(Elements(s, n)) /\ Len(s) = n
<1>1. \A k \in 1 .. n : s[k] \in Elements(s, n)
  BY DEF Elements
<1> QED
  BY <1>1, PileSeq

LEMMA PilePleine == ASSUME NEW n \in Nat \ {0}, NEW s, EstPile(s, n) PROVE s # <<>>
<1>1. s = <<>> => Len(s) = 0
  BY EmptySeq
<1>2. Len(s) = n
  BY PileElements
<1> QED
  BY <1>1, <1>2

\* u is s, of m places, over t, of n places.
Dessus(u, s, m, t, n) ==
    /\ EstPile(u, m + n)
    /\ \A k \in 1 .. m : u[k] = s[k]
    /\ \A k \in 1 .. n : u[m + k] = t[k]

LEMMA Pilees ==
    ASSUME NEW m \in Nat, NEW n \in Nat, NEW s, NEW t, EstPile(s, m), EstPile(t, n)
    PROVE  Dessus(s \o t, s, m, t, n)
<1> DEFINE S == Elements(s, m) \cup Elements(t, n)
           u == s \o t
<1>0. (\A k \in 1 .. m : s[k] \in S) /\ (\A k \in 1 .. n : t[k] \in S)
  BY DEF Elements
<1> HIDE DEF S
<1>1. s \in Seq(S) /\ Len(s) = m
  BY <1>0, PileSeq
<1>2. t \in Seq(S) /\ Len(t) = n
  BY <1>0, PileSeq
<1>3. /\ u \in Seq(S) /\ Len(u) = m + n
      /\ \A i \in 1 .. m + n : u[i] = IF i <= m THEN s[i] ELSE t[i - m]
  BY <1>1, <1>2, ConcatProperties
<1> HIDE DEF u
<1>4. EstPile(u, m + n)
  BY <1>3, SeqPile
<1>5. \A k \in 1 .. m : u[k] = s[k]
  BY <1>3
<1>6. \A k \in 1 .. n : u[m + k] = t[k]
  <2> TAKE k \in 1 .. n
  <2>1. m + k \in 1 .. m + n /\ ~(m + k <= m) /\ (m + k) - m = k
    OBVIOUS
  <2> QED
    BY <1>3, <2>1
<1> QED
  BY <1>4, <1>5, <1>6 DEF u, Dessus

\* p is a stack of n places with m registers pushed on it.
Poussee(p, regs, rs, m, pile, n) ==
    /\ EstPile(p, m + n)
    /\ \A k \in 1 .. m : p[k] = regs[rs[m + 1 - k]]
    /\ \A k \in 1 .. n : p[m + k] = pile[k]

LEMMA Poussees ==
    ASSUME NEW n \in Nat, NEW pile, EstPile(pile, n), NEW regs, NEW rs, NEW m \in Nat, Len(rs) = m
    PROVE  Poussee(Pousse(regs, rs, pile), regs, rs, m, pile, n)
<1> DEFINE z == [k \in 1 .. m |-> regs[rs[m + 1 - k]]]
<1>1. EstPile(z, m) /\ \A k \in 1 .. m : z[k] = regs[rs[m + 1 - k]]
  BY DEF EstPile
<1>2. Pousse(regs, rs, pile) = z \o pile
  BY DEF Pousse
<1> HIDE DEF z
<1>3. PICK s : s = z
  OBVIOUS
<1>4. EstPile(s, m)
  BY <1>1, <1>3
<1>5. Dessus(s \o pile, s, m, pile, n)
  BY <1>4, Pilees
<1>6. PICK p : p = s \o pile
  OBVIOUS
<1>7. Poussee(p, regs, rs, m, pile, n)
  <2>1. Dessus(p, s, m, pile, n)
    BY <1>5, <1>6
  <2>2. \A k \in 1 .. m : s[k] = regs[rs[m + 1 - k]]
    BY <1>1, <1>3
  <2> QED
    BY <2>1, <2>2 DEF Dessus, Poussee
<1> QED
  BY <1>2, <1>3, <1>6, <1>7

LEMMA Otees ==
    ASSUME NEW m \in Nat, NEW n \in Nat, NEW pile, EstPile(pile, m + n)
    PROVE  /\ EstPile(Oter(m, pile), n)
           /\ \A k \in 1 .. n : Oter(m, pile)[k] = pile[m + k]
<1> DEFINE S == Elements(pile, m + n)
           u == SubSeq(pile, m + 1, m + n)
           l == m + n
<1>0. l \in Nat
  OBVIOUS
<1>1. Len(pile) = m + n
  <2> HIDE DEF l
  <2>1. EstPile(pile, l)
    BY DEF l
  <2>2. Len(pile) = l
    BY <1>0, <2>1, PileElements
  <2> QED
    BY <2>2 DEF l
<1>2. Oter(m, pile) = u
  BY <1>1 DEF Oter
<1>3. \A i \in m + 1 .. m + n : pile[i] \in S
  BY DEF Elements
<1>4. m + 1 \in Int /\ m + n \in Int /\ (m + n) - (m + 1) + 1 = n
      /\ (IF m + 1 <= m + n THEN (m + n) - (m + 1) + 1 ELSE 0) = n
  OBVIOUS
<1> HIDE DEF S
<1>5. /\ u \in Seq(S) /\ Len(u) = n
      /\ \A i \in 1 .. n : u[i] = pile[(m + 1) + i - 1]
  BY <1>3, <1>4, SubSeqProperties
<1> HIDE DEF u
<1>6. EstPile(u, n)
  BY <1>5, SeqPile
<1>7. \A i \in 1 .. n : u[i] = pile[m + i]
  <2> TAKE i \in 1 .. n
  <2>1. (m + 1) + i - 1 = m + i
    OBVIOUS
  <2> QED
    BY <1>5, <2>1
<1> QED
  BY <1>2, <1>6, <1>7

\* The registers, n of them popped.
Depilee(d, regs, rs, n, pile) ==
    /\ d = [r \in Registres |-> d[r]]
    /\ \A k \in 1 .. n : rs[k] \in Registres => d[rs[k]] = pile[k]
    /\ \A r \in Registres : (\A k \in 1 .. n : rs[k] # r) => d[r] = regs[r]

LEMMA Depilees ==
    ASSUME NEW regs, NEW rs, NEW pile, NEW n \in Nat, Len(rs) = n,
           \A k, l \in 1 .. n : rs[k] = rs[l] => k = l
    PROVE  Depilee(Depile(regs, rs, pile), regs, rs, n, pile)
<1> DEFINE d == Depile(regs, rs, pile)
<1>1. d = [r \in Registres |->
             IF \E k \in 1 .. n : rs[k] = r THEN pile[CHOOSE k \in 1 .. n : rs[k] = r] ELSE regs[r]]
  BY DEF Depile
<1>2. ASSUME NEW k \in 1 .. n, rs[k] \in Registres PROVE d[rs[k]] = pile[k]
  <2>1. (CHOOSE l \in 1 .. n : rs[l] = rs[k]) = k
    OBVIOUS
  <2> QED
    BY <1>1, <1>2, <2>1
<1> QED
  BY <1>1, <1>2 DEF Depilee

LEMMA PileDeCadre == EstPile(<<Cadre>>, 1) /\ <<Cadre>>[1] = Cadre
<1>1. <<Cadre>> \in Seq({Cadre}) /\ Len(<<Cadre>>) = 1 /\ <<Cadre>>[1] = Cadre
  OBVIOUS
<1> QED
  BY <1>1, SeqPile

LEMMA PileDuScan == EstPile(<<Ecrase>>, 1)
<1>1. <<Ecrase>> \in Seq({Ecrase}) /\ Len(<<Ecrase>>) = 1
  OBVIOUS
<1> QED
  BY <1>1, SeqPile

LEMMA PileDuStub ==
    ASSUME NEW regs, NEW pile, EstPile(pile, 6)
    PROVE  LET p == Pousse(regs, <<"ebx", "esi", "edi", "ebp">>, pile)
           IN  /\ EstPile(p, 10)
               /\ p[1] = regs["ebp"] /\ p[2] = regs["edi"]
               /\ p[3] = regs["esi"] /\ p[4] = regs["ebx"]
               /\ \A k \in 1 .. 6 : p[4 + k] = pile[k]
<1> DEFINE rs == <<"ebx", "esi", "edi", "ebp">>
           p == Pousse(regs, rs, pile)
<1>1. Len(rs) = 4 /\ rs[1] = "ebx" /\ rs[2] = "esi" /\ rs[3] = "edi" /\ rs[4] = "ebp"
  OBVIOUS
<1> HIDE DEF rs
<1>2. Poussee(p, regs, rs, 4, pile, 6)
  BY <1>1, Poussees
<1> HIDE DEF p
<1>3. p[1] = regs[rs[4]] /\ p[2] = regs[rs[3]] /\ p[3] = regs[rs[2]] /\ p[4] = regs[rs[1]]
  BY <1>2 DEF Poussee
<1>4. EstPile(p, 10)
  BY <1>2 DEF Poussee
<1>5. \A k \in 1 .. 6 : p[4 + k] = pile[k]
  BY <1>2 DEF Poussee
<1> QED
  BY <1>1, <1>3, <1>4, <1>5 DEF p, rs

LEMMA PileSauvee ==
    ASSUME NEW regs
    PROVE  LET p == Pousse(regs, SauveIT49, <<Cadre>>)
           IN  EstPile(p, 6)
<1> DEFINE p == Pousse(regs, SauveIT49, <<Cadre>>)
<1>1. Len(SauveIT49) = 5
  BY DEF SauveIT49
<1>2. Poussee(p, regs, SauveIT49, 5, <<Cadre>>, 1)
  BY <1>1, PileDeCadre, Poussees
<1> HIDE DEF p
<1>3. EstPile(p, 6)
  BY <1>2 DEF Poussee
<1> QED
  BY <1>3 DEF p

\* The parameters of the C function are the registers.
LEMMA PileDuSwitch ==
    ASSUME NEW regs
    PROVE  LET p == Pousse(regs, ArgsIT49, Pousse(regs, SauveIT49, <<Cadre>>))
           IN  /\ EstPile(p, 12) /\ p[1] = regs["eax"]
               /\ \A k \in 1 .. 5 : p[k + 1] = regs[RegArg[k]]
<1> DEFINE q == Pousse(regs, SauveIT49, <<Cadre>>)
           p == Pousse(regs, ArgsIT49, q)
<1>1. EstPile(q, 6)
  BY PileSauvee
<1>2. /\ Len(ArgsIT49) = 6 /\ ArgsIT49[1] = "edi" /\ ArgsIT49[2] = "esi" /\ ArgsIT49[3] = "edx"
      /\ ArgsIT49[4] = "ecx" /\ ArgsIT49[5] = "ebx" /\ ArgsIT49[6] = "eax"
  BY DEF ArgsIT49
<1> HIDE DEF q
<1>3. Poussee(p, regs, ArgsIT49, 6, q, 6)
  BY <1>1, <1>2, Poussees
<1> HIDE DEF p
<1>4. /\ p[1] = regs["eax"] /\ p[2] = regs["ebx"] /\ p[3] = regs["ecx"]
      /\ p[4] = regs["edx"] /\ p[5] = regs["esi"] /\ p[6] = regs["edi"]
  BY <1>2, <1>3 DEF Poussee
<1>5. /\ RegArg[1] = "ebx" /\ RegArg[2] = "ecx" /\ RegArg[3] = "edx"
      /\ RegArg[4] = "esi" /\ RegArg[5] = "edi"
  BY DEF RegArg
<1>6. \A k \in 1 .. 5 : p[k + 1] = regs[RegArg[k]]
  <2> TAKE k \in 1 .. 5
  <2>1. k = 1 \/ k = 2 \/ k = 3 \/ k = 4 \/ k = 5
    OBVIOUS
  <2> QED
    BY <1>4, <1>5, <2>1
<1>7. EstPile(p, 12)
  BY <1>3 DEF Poussee
<1> QED
  BY <1>4, <1>6, <1>7 DEF p, q

\* The places of ecx, edx and eax, saved by the handler of an interrupt.
PlaceIT(r) == IF r = "ecx" THEN 1 ELSE IF r = "edx" THEN 2 ELSE 3

LEMMA PileDeIT ==
    ASSUME NEW regs
    PROVE  LET p == Pousse(regs, <<"eax", "edx", "ecx">>, <<Cadre>>)
           IN  /\ EstPile(p, 4)
               /\ \A r \in Registres \ Preserves : p[PlaceIT(r)] = regs[r]
<1> DEFINE rs == <<"eax", "edx", "ecx">>
           p == Pousse(regs, rs, <<Cadre>>)
<1>1. Len(rs) = 3 /\ rs[1] = "eax" /\ rs[2] = "edx" /\ rs[3] = "ecx"
  OBVIOUS
<1> HIDE DEF rs
<1>2. Poussee(p, regs, rs, 3, <<Cadre>>, 1)
  BY <1>1, PileDeCadre, Poussees
<1> HIDE DEF p
<1>3. p[1] = regs["ecx"] /\ p[2] = regs["edx"] /\ p[3] = regs["eax"]
  BY <1>1, <1>2 DEF Poussee
<1>4. \A r \in Registres \ Preserves : r = "eax" \/ r = "ecx" \/ r = "edx"
  BY DEF Registres, Preserves
<1>5. EstPile(p, 4)
  BY <1>2 DEF Poussee
<1>6. \A r \in Registres \ Preserves : p[PlaceIT(r)] = regs[r]
  BY <1>3, <1>4 DEF PlaceIT
<1> QED
  BY <1>5, <1>6 DEF p, rs

\* IT_33 keeps the scan code on top of them.
LEMMA PileDeIT33 ==
    ASSUME NEW p, EstPile(p, 4)
    PROVE  /\ EstPile(<<Ecrase>> \o p, 5)
           /\ \A k \in 1 .. 4 : (<<Ecrase>> \o p)[1 + k] = p[k]
<1> DEFINE q == <<Ecrase>> \o p
<1>1. Dessus(q, <<Ecrase>>, 1, p, 4)
  BY PileDuScan, Pilees
<1> HIDE DEF q
<1>2. EstPile(q, 5) /\ \A k \in 1 .. 4 : q[1 + k] = p[k]
  BY <1>1 DEF Dessus
<1> QED
  BY <1>2 DEF q

LEMMA OteScan ==
    ASSUME NEW p, EstPile(p, 5)
    PROVE  EstPile(Oter(1, p), 4) /\ \A k \in 1 .. 4 : Oter(1, p)[k] = p[1 + k]
<1>1. EstPile(p, 1 + 4)
  OBVIOUS
<1> QED
  BY <1>1, Otees

LEMMA OteStub ==
    ASSUME NEW p, EstPile(p, 10)
    PROVE  EstPile(Oter(5, p), 5) /\ \A k \in 1 .. 5 : Oter(5, p)[k] = p[5 + k]
<1>1. EstPile(p, 5 + 5)
  OBVIOUS
<1> QED
  BY <1>1, Otees

LEMMA PileDeLAppel ==
    ASSUME NEW a
    PROVE  /\ EstPile(PileAppel(a), 6) /\ PileAppel(a)[1] = Cadre
           /\ \A k \in 1 .. 5 : PileAppel(a)[1 + k] = ArgumentDe(a, k)
<1> DEFINE z == [k \in 1 .. 5 |-> ArgumentDe(a, k)]
<1>1. EstPile(z, 5) /\ \A k \in 1 .. 5 : z[k] = ArgumentDe(a, k)
  BY DEF EstPile
<1>2. PileAppel(a) = <<Cadre>> \o z
  BY DEF PileAppel
<1> HIDE DEF z
<1>3. PICK s : s = z
  OBVIOUS
<1>4. Dessus(<<Cadre>> \o s, <<Cadre>>, 1, s, 5)
  BY <1>1, <1>3, PileDeCadre, Pilees
<1>5. PICK q : q = <<Cadre>> \o s
  OBVIOUS
<1>6. PICK c : c = <<Cadre>>
  OBVIOUS
<1>7. Dessus(q, c, 1, s, 5)
  BY <1>4, <1>5, <1>6
<1>8. EstPile(q, 6) /\ q[1] = c[1] /\ \A k \in 1 .. 5 : q[1 + k] = s[k]
  BY <1>7 DEF Dessus
<1> QED
  BY <1>1, <1>2, <1>3, <1>5, <1>6, <1>8, PileDeCadre

LEMMA DepileStub ==
    ASSUME NEW regs, NEW pile
    PROVE  LET d == Depile(regs, <<"ebp", "edi", "esi", "ebx">>, pile)
           IN  /\ d = [r \in Registres |-> d[r]]
               /\ d["ebp"] = pile[1] /\ d["edi"] = pile[2]
               /\ d["esi"] = pile[3] /\ d["ebx"] = pile[4]
               /\ \A r \in Registres \ Preserves : d[r] = regs[r]
<1> DEFINE rs == <<"ebp", "edi", "esi", "ebx">>
           d == Depile(regs, rs, pile)
<1>1. Len(rs) = 4 /\ rs[1] = "ebp" /\ rs[2] = "edi" /\ rs[3] = "esi" /\ rs[4] = "ebx"
  OBVIOUS
<1> HIDE DEF rs
<1>2. \A k, l \in 1 .. 4 : rs[k] = rs[l] => k = l
  BY <1>1
<1>0. Depilee(d, regs, rs, 4, pile)
  BY <1>1, <1>2, Depilees
<1> HIDE DEF d
<1>3. /\ d = [r \in Registres |-> d[r]]
      /\ \A k \in 1 .. 4 : rs[k] \in Registres => d[rs[k]] = pile[k]
      /\ \A r \in Registres : (\A k \in 1 .. 4 : rs[k] # r) => d[r] = regs[r]
  BY <1>0 DEF Depilee
<1>4. rs[1] \in Registres /\ rs[2] \in Registres /\ rs[3] \in Registres /\ rs[4] \in Registres
  BY <1>1 DEF Registres
<1>5. d[rs[1]] = pile[1] /\ d[rs[2]] = pile[2] /\ d[rs[3]] = pile[3] /\ d[rs[4]] = pile[4]
  BY <1>3, <1>4
<1>6. \A r \in Registres \ Preserves : \A k \in 1 .. 4 : rs[k] # r
  <2> TAKE r \in Registres \ Preserves
  <2>1. r # rs[1] /\ r # rs[2] /\ r # rs[3] /\ r # rs[4]
    BY <1>1 DEF Preserves
  <2> QED
    BY <2>1
<1> QED
  BY <1>1, <1>3, <1>5, <1>6 DEF d, rs

LEMMA DepileIT ==
    ASSUME NEW regs, NEW pile
    PROVE  LET d == Depile(regs, <<"ecx", "edx", "eax">>, pile)
           IN  /\ d = [r \in Registres |-> d[r]]
               /\ \A r \in Registres : d[r] = IF r \in Preserves THEN regs[r] ELSE pile[PlaceIT(r)]
<1> DEFINE rs == <<"ecx", "edx", "eax">>
           d == Depile(regs, rs, pile)
<1>1. Len(rs) = 3 /\ rs[1] = "ecx" /\ rs[2] = "edx" /\ rs[3] = "eax"
  OBVIOUS
<1> HIDE DEF rs
<1>2. \A k, l \in 1 .. 3 : rs[k] = rs[l] => k = l
  BY <1>1
<1>0. Depilee(d, regs, rs, 3, pile)
  BY <1>1, <1>2, Depilees
<1> HIDE DEF d
<1>3. /\ d = [r \in Registres |-> d[r]]
      /\ \A k \in 1 .. 3 : rs[k] \in Registres => d[rs[k]] = pile[k]
      /\ \A r \in Registres : (\A k \in 1 .. 3 : rs[k] # r) => d[r] = regs[r]
  BY <1>0 DEF Depilee
<1>4. rs[1] \in Registres /\ rs[2] \in Registres /\ rs[3] \in Registres
  BY <1>1 DEF Registres
<1>5. d["ecx"] = pile[1] /\ d["edx"] = pile[2] /\ d["eax"] = pile[3]
  BY <1>1, <1>3, <1>4
<1>6. \A r \in Preserves : r \in Registres /\ \A k \in 1 .. 3 : rs[k] # r
  <2> TAKE r \in Preserves
  <2>1. r \in Registres /\ r # rs[1] /\ r # rs[2] /\ r # rs[3]
    BY <1>1 DEF Preserves, Registres
  <2> QED
    BY <2>1
<1>7. \A r \in Registres \ Preserves : d[r] = pile[PlaceIT(r)]
  <2>1. \A r \in Registres \ Preserves : r = "eax" \/ r = "ecx" \/ r = "edx"
    BY DEF Registres, Preserves
  <2> QED
    BY <1>5, <2>1 DEF PlaceIT
<1>8. \A r \in Preserves : d[r] = regs[r]
  BY <1>3, <1>6
<1> QED
  BY <1>3, <1>7, <1>8 DEF d, rs

\* Where a process is, and what its registers will be in user mode.
Deux == {Appelant, Calculateur}
ChampsTache == {"pc", "it", "noyau", "pile", "retval", "contexte"}
DansLeNoyau == {"switch", "retour", "arrete"}

\* Interrupted, in user mode or in the middle of a call.
Interrompu(t) ==
    /\ t.pc \notin DansLeNoyau
    /\ (t.it = "IT_32" /\ EstPile(t.noyau, 4)) \/ (t.it = "IT_33" /\ EstPile(t.noyau, 5))
EnProgramme(p, t, a) == t.it = "non" /\ t.noyau = <<>> /\ a = p /\ t.pc \notin DansLeNoyau
EnAppel(p, t, a) ==
    /\ t.it = "non" /\ t.noyau # <<>> /\ t.pc \in DansLeNoyau
    /\ t.pc = "switch" => a = p

Posture(p, t, a) == Interrompu(t) \/ EnProgramme(p, t, a) \/ EnAppel(p, t, a)

Sauve(t, r) == IF t.it = "IT_33" THEN t.noyau[1 + PlaceIT(r)] ELSE t.noyau[PlaceIT(r)]

Util(p, t, a, regs) ==
    [r \in Registres |->
        IF t.it # "non" /\ r \notin Preserves THEN Sauve(t, r)
        ELSE IF a = p THEN regs[r] ELSE t.contexte[r]]

EstTache(t) == DOMAIN t = ChampsTache

LEMMA PlaceJuste == \A r : PlaceIT(r) \in 1 .. 4
BY DEF PlaceIT

LEMMA HorsNoyau ==
    ASSUME NEW p, NEW t, NEW a, Posture(p, t, a), t.noyau = <<>>
    PROVE  EnProgramme(p, t, a)
<1>1. EstPile(t.noyau, 4) => t.noyau # <<>>
  BY PilePleine
<1>2. EstPile(t.noyau, 5) => t.noyau # <<>>
  BY PilePleine
<1> QED
  BY <1>1, <1>2 DEF Posture, Interrompu, EnAppel

\* u is the process p at another place of the kernel or of its program: with d
\* in the processor of b it will go on as with regs in that of a.
Reprend(p, t, u, a, b, regs, d) ==
    /\ EstTache(u) /\ Posture(p, u, b)
    /\ u.pc = t.pc /\ u.pile = t.pile /\ u.retval = t.retval
    /\ t.pc \notin DansLeNoyau => Util(p, u, b, d) = Util(p, t, a, regs)

\* The process after EntreIT(), SortIT() and ctx_sw().
Entre(t, regs, clavier) ==
    LET sauve == Pousse(regs, <<"eax", "edx", "ecx">>, <<Cadre>>)
    IN  [t EXCEPT !.it = IF clavier THEN "IT_33" ELSE "IT_32",
                  !.noyau = IF clavier THEN <<Ecrase>> \o sauve ELSE sauve]
Sorti(t) == [t EXCEPT !.noyau = <<>>, !.it = "non"]
RegsSortis(t, regs) ==
    Depile(regs, <<"ecx", "edx", "eax">>, IF t.it = "IT_33" THEN Oter(1, t.noyau) ELSE t.noyau)
Quitte(t, regs) == [t EXCEPT !.contexte = [r \in Preserves |-> regs[r]]]
RegsRepris(t) == [r \in Registres |-> IF r \in Preserves THEN t.contexte[r] ELSE Ecrase]

LEMMA EntreJuste ==
    ASSUME NEW p, NEW t, NEW regs, EstTache(t), Posture(p, t, p), t.noyau = <<>>,
           NEW clavier \in BOOLEAN
    PROVE  Reprend(p, t, Entre(t, regs, clavier), p, p, regs, CodeC(regs))
<1> DEFINE s == Pousse(regs, <<"eax", "edx", "ecx">>, <<Cadre>>)
           z == <<Ecrase>> \o s
           u == Entre(t, regs, clavier)
<1>1. EstPile(s, 4) /\ \A r \in Registres \ Preserves : s[PlaceIT(r)] = regs[r]
  BY PileDeIT
<1>2. EnProgramme(p, t, p)
  BY HorsNoyau
<1> HIDE DEF s
<1>3. EstPile(z, 5) /\ \A k \in 1 .. 4 : z[1 + k] = s[k]
  BY <1>1, PileDeIT33
<1> HIDE DEF z
<1>4. /\ EstTache(u) /\ u.pc = t.pc /\ u.pile = t.pile /\ u.retval = t.retval
      /\ u.it = (IF clavier THEN "IT_33" ELSE "IT_32")
      /\ u.noyau = IF clavier THEN z ELSE s
  BY DEF EstTache, ChampsTache, s, z, Entre
<1> HIDE DEF u
<1>5. \A r \in Registres \ Preserves : Sauve(u, r) = regs[r]
  <2>1. CASE clavier
    <3>1. u.it = "IT_33" /\ u.noyau = z
      BY <1>4, <2>1
    <3> QED
      BY <1>1, <1>3, <3>1, PlaceJuste DEF Sauve
  <2>2. CASE ~clavier
    <3>1. u.it = "IT_32" /\ u.noyau = s
      BY <1>4, <2>2
    <3> QED
      BY <1>1, <3>1 DEF Sauve
  <2> QED
    BY <2>1, <2>2
<1>6. Posture(p, u, p)
  BY <1>1, <1>2, <1>3, <1>4 DEF Posture, Interrompu, EnProgramme
<1>7. u.it # "non" /\ t.it = "non"
  BY <1>2, <1>4 DEF EnProgramme
<1>8. \A r \in Preserves : CodeC(regs)[r] = regs[r]
  BY DEF CodeC, Preserves, Registres
<1>9. Util(p, u, p, CodeC(regs)) = Util(p, t, p, regs)
  BY <1>5, <1>7, <1>8 DEF Util
<1> QED
  BY <1>4, <1>6, <1>9 DEF u, Reprend

LEMMA SortJuste ==
    ASSUME NEW p, NEW t, NEW regs, EstTache(t), Posture(p, t, p), t.it # "non"
    PROVE  /\ DOMAIN RegsSortis(t, regs) = Registres
           /\ Reprend(p, t, Sorti(t), p, p, regs, RegsSortis(t, regs))
<1> DEFINE u == Sorti(t)
           d == RegsSortis(t, regs)
           z == IF t.it = "IT_33" THEN Oter(1, t.noyau) ELSE t.noyau
<1>1. Interrompu(t)
  BY DEF Posture, EnProgramme, EnAppel
<1>2. \A r \in Registres : z[PlaceIT(r)] = Sauve(t, r)
  <2>1. CASE t.it = "IT_33"
    <3>1. \A k \in 1 .. 4 : Oter(1, t.noyau)[k] = t.noyau[1 + k]
      BY <1>1, <2>1, OteScan DEF Interrompu
    <3> QED
      BY <2>1, <3>1, PlaceJuste DEF Sauve
  <2>2. CASE t.it # "IT_33"
    BY <2>2 DEF Sauve
  <2> QED
    BY <2>1, <2>2
<1> HIDE DEF z
<1>3. d = Depile(regs, <<"ecx", "edx", "eax">>, z)
  BY DEF z, RegsSortis
<1>4. /\ d = [r \in Registres |-> d[r]]
      /\ \A r \in Registres : d[r] = IF r \in Preserves THEN regs[r] ELSE z[PlaceIT(r)]
  BY <1>3, DepileIT
<1>5. /\ EstTache(u) /\ u.pc = t.pc /\ u.pile = t.pile /\ u.retval = t.retval
      /\ u.it = "non" /\ u.noyau = <<>>
  BY DEF EstTache, ChampsTache, Sorti
<1> HIDE DEF u, d
<1>6. Posture(p, u, p)
  BY <1>1, <1>5 DEF Posture, Interrompu, EnProgramme
<1>7. Util(p, u, p, d) = Util(p, t, p, regs)
  BY <1>2, <1>4, <1>5 DEF Util
<1>8. DOMAIN d = Registres
  BY <1>4
<1> QED
  BY <1>5, <1>6, <1>7, <1>8 DEF u, d, Reprend

LEMMA CtxSortant ==
    ASSUME NEW p, NEW q, p # q, NEW t, NEW regs, EstTache(t), Posture(p, t, p),
           t.noyau # <<>>, t.pc # "switch", NEW d
    PROVE  Reprend(p, t, Quitte(t, regs), p, q, regs, d)
<1> DEFINE u == Quitte(t, regs)
<1>1. /\ EstTache(u) /\ u.pc = t.pc /\ u.pile = t.pile /\ u.retval = t.retval
      /\ u.it = t.it /\ u.noyau = t.noyau /\ u.contexte = [r \in Preserves |-> regs[r]]
  BY DEF EstTache, ChampsTache, Quitte
<1> HIDE DEF u
<1>2. Posture(p, u, q)
  BY <1>1 DEF Posture, Interrompu, EnProgramme, EnAppel
<1>3. ASSUME t.pc \notin DansLeNoyau PROVE Util(p, u, q, d) = Util(p, t, p, regs)
  <2>1. t.it # "non"
    BY <1>3 DEF Posture, Interrompu, EnProgramme, EnAppel
  <2>2. \A r : Sauve(u, r) = Sauve(t, r)
    BY <1>1 DEF Sauve
  <2> QED
    BY <1>1, <2>1, <2>2 DEF Util
<1> QED
  BY <1>1, <1>2, <1>3 DEF u, Reprend

LEMMA CtxEntrant ==
    ASSUME NEW p, NEW q, p # q, NEW t, NEW regs, EstTache(t), Posture(q, t, p), t.noyau # <<>>
    PROVE  Reprend(q, t, t, p, q, regs, RegsRepris(t))
<1> DEFINE d == RegsRepris(t)
<1>1. Posture(q, t, q)
  BY DEF Posture, Interrompu, EnProgramme, EnAppel
<1>2. ASSUME t.pc \notin DansLeNoyau PROVE Util(q, t, q, d) = Util(q, t, p, regs)
  <2>1. t.it # "non"
    BY <1>2 DEF Posture, Interrompu, EnProgramme, EnAppel
  <2> QED
    BY <2>1 DEF Util, RegsRepris
<1> QED
  BY <1>1, <1>2 DEF Reprend

\* What the call asks for, and what it must do.
AppelPermis(a) == \A k \in Prototype[a.stub].pointeurs : isUserSpace(a.args[k])
Attendu(a) == <<a.stub, [k \in 1 .. Prototype[a.stub].n |-> ArgumentDe(a, k)]>>
Servie(s, a) == s = IF AppelPermis(a) THEN <<Attendu(a)>> ELSE <<>>
Rendu(v, a) ==
    /\ ~AppelPermis(a) => v = Entier(-1)
    /\ AppelPermis(a) /\ Prototype[a.stub].rend => v = Resultat

Parametres(noyau, a) ==
    /\ noyau[1] = Num(Numero[a.stub])
    /\ \A k \in 1 .. 5 : noyau[k + 1] = ArgumentDe(a, k)

\* The parameter of the C function that a register is.
Parametre(noyau, r) == noyau[CHOOSE k \in 1 .. 6 : ParametresC[k] = r]

LEMMA ParametreJuste ==
    ASSUME NEW noyau, NEW k \in 1 .. 5
    PROVE  Parametre(noyau, RegArg[k]) = noyau[k + 1]
<1>1. /\ ParametresC[1] = "eax" /\ ParametresC[2] = "ebx" /\ ParametresC[3] = "ecx"
      /\ ParametresC[4] = "edx" /\ ParametresC[5] = "esi" /\ ParametresC[6] = "edi"
  BY DEF ParametresC
<1>2. /\ RegArg[1] = "ebx" /\ RegArg[2] = "ecx" /\ RegArg[3] = "edx"
      /\ RegArg[4] = "esi" /\ RegArg[5] = "edi"
  BY DEF RegArg
<1>3. k = 1 \/ k = 2 \/ k = 3 \/ k = 4 \/ k = 5
  OBVIOUS
<1>4. ParametresC[k + 1] = RegArg[k] /\ k + 1 \in 1 .. 6
  BY <1>1, <1>2, <1>3
<1>5. \A l \in 1 .. 6 : l = 1 \/ l = 2 \/ l = 3 \/ l = 4 \/ l = 5 \/ l = 6
  OBVIOUS
<1>6. \A l \in 1 .. 6 : ParametresC[l] = RegArg[k] => l = k + 1
  BY <1>1, <1>2, <1>3, <1>5
<1>7. (CHOOSE l \in 1 .. 6 : ParametresC[l] = RegArg[k]) = k + 1
  BY <1>4, <1>6
<1> QED
  BY <1>7 DEF Parametre

\* What the dispatch runs, checks and returns is what the prototype says.
LEMMA SertJuste ==
    ASSUME NEW a, a.stub \in DOMAIN Prototype, NEW noyau, Parametres(noyau, a),
           NEW cas, cas = traitant_IT_49_switch(noyau[1][2])
    PROVE  LET permis == \A r \in cas.verifies : EstUtilisateur(Parametre(noyau, r))
           IN  /\ permis <=> AppelPermis(a)
               /\ <<cas.f, [k \in 1 .. Len(cas.args) |-> Parametre(noyau, cas.args[k])]>>
                    = Attendu(a)
               /\ Rendu(IF ~permis THEN Entier(-1) ELSE IF cas.rend THEN Resultat ELSE Entier(0), a)
<1> DEFINE f == a.stub
           P == Prototype[f]
           permis == \A r \in cas.verifies : EstUtilisateur(Parametre(noyau, r))
<1>1. noyau[1][2] = Numero[f]
  BY DEF Parametres, Num
<1>2. CasJuste(f)
  BY Tables
<1>3. /\ cas.f = f /\ cas.rend = P.rend /\ P.n \in 0 .. 5 /\ P.pointeurs \subseteq 1 .. P.n
      /\ Len(cas.args) = P.n /\ \A k \in 1 .. P.n : cas.args[k] = RegArg[k]
      /\ cas.verifies = {RegArg[k] : k \in P.pointeurs}
  BY <1>1, <1>2 DEF CasJuste
<1>4. \A k \in 1 .. 5 : Parametre(noyau, RegArg[k]) = ArgumentDe(a, k)
  BY ParametreJuste DEF Parametres
<1>5. \A k \in 1 .. P.n : k \in 1 .. 5
  BY <1>3
<1>6. \A k \in 1 .. P.n : Parametre(noyau, cas.args[k]) = ArgumentDe(a, k)
  BY <1>3, <1>4, <1>5
<1>7. <<cas.f, [k \in 1 .. Len(cas.args) |-> Parametre(noyau, cas.args[k])]>> = Attendu(a)
  BY <1>3, <1>6 DEF Attendu
<1>8. \A k \in P.pointeurs :
        EstUtilisateur(Parametre(noyau, RegArg[k])) <=> isUserSpace(a.args[k])
  <2> TAKE k \in P.pointeurs
  <2>1. Parametre(noyau, RegArg[k]) = Adr(a.args[k])
    BY <1>3, <1>4, <1>5 DEF ArgumentDe
  <2>2. Adr(a.args[k])[1] = "adresse" /\ Adr(a.args[k])[2] = a.args[k]
    BY DEF Adr
  <2> QED
    BY <2>1, <2>2 DEF EstUtilisateur
<1>9. permis <=> AppelPermis(a)
  <2>1. permis <=> \A k \in P.pointeurs : EstUtilisateur(Parametre(noyau, RegArg[k]))
    BY <1>3
  <2> QED
    BY <1>8, <2>1 DEF AppelPermis
<1> HIDE DEF permis
<1>10. Rendu(IF ~permis THEN Entier(-1) ELSE IF cas.rend THEN Resultat ELSE Entier(0), a)
  BY <1>3, <1>9 DEF Rendu
<1> QED
  BY <1>7, <1>9, <1>10 DEF permis

\* The stack during the call: the registers saved by the stub, its frame and
\* the arguments.
PileStub(pile, a) ==
    /\ EstPile(pile, 10)
    /\ pile[1] = Depart("ebp") /\ pile[2] = Depart("edi")
    /\ pile[3] = Depart("esi") /\ pile[4] = Depart("ebx")
    /\ \A k \in 1 .. 5 : pile[5 + k] = ArgumentDe(a, k)

Charges(u, a) == \A k \in 1 .. 5 : u[RegArg[k]] = ArgumentDe(a, k)
Intacts(u) == \A r \in Preserves : u[r] = Depart(r)

\* The call, from the program's instruction to the next; u is its registers.
Chemin(pc, pile, retval, u, a, s) ==
    \/ /\ pc = "appelle" /\ s = <<>> /\ Intacts(u)
       /\ EstPile(pile, 6) /\ \A k \in 1 .. 5 : pile[1 + k] = ArgumentDe(a, k)
    \/ pc = "numero" /\ s = <<>> /\ PileStub(pile, a) /\ Charges(u, a)
    \/ /\ pc = "int49" /\ s = <<>> /\ PileStub(pile, a) /\ Charges(u, a)
       /\ u["eax"] = Num(Numero[a.stub])
    \/ pc = "switch" /\ s = <<>> /\ PileStub(pile, a)
    \/ pc = "retour" /\ Servie(s, a) /\ PileStub(pile, a) /\ Rendu(retval, a)
    \/ pc = "restaure" /\ Servie(s, a) /\ PileStub(pile, a) /\ Rendu(u["eax"], a)
    \/ /\ pc = "rendu" /\ Servie(s, a) /\ Rendu(u["eax"], a) /\ Intacts(u)
       /\ EstPile(pile, 5) /\ \A k \in 1 .. 5 : pile[k] = ArgumentDe(a, k)
    \/ pc = "arrete"

CheminDe(t, u, a, s) == Chemin(t.pc, t.pile, t.retval, u, a, s)
Calcule(t, u) == t.pc = "calcule" /\ \A r \in Registres : u[r] = Autre(r)

InvAppels ==
    /\ DOMAIN processeur = Registres /\ appel.stub \in DOMAIN Prototype
    /\ actif \in Deux /\ DOMAIN taches = Deux
    /\ \A p \in Deux : EstTache(taches[p]) /\ Posture(p, taches[p], actif)
    /\ LET t == taches[Calculateur] IN Calcule(t, Util(Calculateur, t, actif, processeur))
    /\ LET t == taches[Appelant]
       IN  /\ CheminDe(t, Util(Appelant, t, actif, processeur), appel, servi)
           /\ t.pc = "switch" => Parametres(t.noyau, appel)

LEMMA Distincts == Appelant # Calculateur /\ Deux = {Appelant, Calculateur}
BY DEF Deux, Appelant, Calculateur

LEMMA UtilAilleurs ==
    ASSUME NEW p, NEW t, NEW a, a # p, NEW regs, NEW autres
    PROVE  Util(p, t, a, regs) = Util(p, t, a, autres)
BY DEF Util

LEMMA EnMain ==
    ASSUME NEW p, NEW t, NEW regs, EnProgramme(p, t, p)
    PROVE  \A r \in Registres : Util(p, t, p, regs)[r] = regs[r]
BY DEF EnProgramme, Util

\* In the kernel the registers of the program do not count.
LEMMA CheminNoyau ==
    ASSUME NEW t, t.pc \in DansLeNoyau, NEW u, NEW v, NEW a, NEW s, CheminDe(t, u, a, s)
    PROVE  CheminDe(t, v, a, s)
BY DEF DansLeNoyau, CheminDe, Chemin

\* A step of the process that calls.
LEMMA EtapeAppelant ==
    ASSUME InvAppels, actif = Appelant, UNCHANGED <<actif, appel>>,
           DOMAIN processeur' = Registres,
           NEW u, taches' = [taches EXCEPT ![Appelant] = u], EstTache(u),
           Posture(Appelant, u, Appelant),
           CheminDe(u, Util(Appelant, u, Appelant, processeur'), appel, servi'),
           u.pc = "switch" => Parametres(u.noyau, appel)
    PROVE  InvAppels'
<1>1. /\ taches'[Appelant] = u /\ taches'[Calculateur] = taches[Calculateur]
      /\ DOMAIN taches' = Deux
  BY Distincts DEF InvAppels
<1>2. Util(Calculateur, taches[Calculateur], actif, processeur)
        = Util(Calculateur, taches[Calculateur], actif, processeur')
  BY UtilAilleurs, Distincts
<1>3. LET t == taches'[Calculateur] IN Calcule(t, Util(Calculateur, t, actif', processeur'))
  BY <1>1, <1>2 DEF InvAppels
<1>4. \A p \in Deux : EstTache(taches'[p]) /\ Posture(p, taches'[p], actif')
  BY <1>1, Distincts DEF InvAppels
<1> QED
  BY <1>1, <1>3, <1>4 DEF InvAppels

\* An interrupt, or its end.
LEMMA EtapeIT ==
    ASSUME InvAppels, NEW p \in Deux, actif = p, UNCHANGED <<actif, appel, servi>>,
           DOMAIN processeur' = Registres,
           NEW u, taches' = [taches EXCEPT ![p] = u], EstTache(u), Posture(p, u, p),
           u.pc = taches[p].pc, u.pile = taches[p].pile, u.retval = taches[p].retval,
           u.pc \notin DansLeNoyau,
           Util(p, u, p, processeur') = Util(p, taches[p], p, processeur)
    PROVE  InvAppels'
<1>1. CASE p = Appelant
  <2>1. CheminDe(u, Util(Appelant, u, Appelant, processeur'), appel, servi')
    BY <1>1 DEF InvAppels, CheminDe
  <2>2. u.pc # "switch"
    BY DEF DansLeNoyau
  <2> QED
    BY <1>1, <2>1, <2>2, EtapeAppelant
<1>2. CASE p = Calculateur
  <2>1. /\ taches'[Calculateur] = u /\ taches'[Appelant] = taches[Appelant]
        /\ DOMAIN taches' = Deux
    BY <1>2, Distincts DEF InvAppels
  <2>2. Util(Appelant, taches[Appelant], actif, processeur)
          = Util(Appelant, taches[Appelant], actif, processeur')
    BY <1>2, UtilAilleurs, Distincts
  <2>3. Calcule(u, Util(Calculateur, u, actif', processeur'))
    BY <1>2 DEF InvAppels, Calcule
  <2>4. \A q \in Deux : EstTache(taches'[q]) /\ Posture(q, taches'[q], actif')
    BY <1>2, <2>1, Distincts DEF InvAppels
  <2>5. LET t == taches'[Appelant]
        IN  /\ CheminDe(t, Util(Appelant, t, actif', processeur'), appel', servi')
            /\ t.pc = "switch" => Parametres(t.noyau, appel')
    BY <2>1, <2>2 DEF InvAppels
  <2> QED
    BY <2>1, <2>3, <2>4, <2>5 DEF InvAppels
<1> QED
  BY <1>1, <1>2, Distincts

\* The caller in user mode.
LEMMA AppelantLibre ==
    ASSUME InvAppels, NEW pc, EnUser(Appelant, pc)
    PROVE  LET t == taches[Appelant]
           IN  /\ actif = Appelant /\ t.pc = pc /\ t.noyau = <<>> /\ EstTache(t)
               /\ EnProgramme(Appelant, t, Appelant)
               /\ CheminDe(t, Util(Appelant, t, Appelant, processeur), appel, servi)
               /\ \A r \in Registres : Util(Appelant, t, Appelant, processeur)[r] = processeur[r]
<1> DEFINE t == taches[Appelant]
<1>1. actif = Appelant /\ t.pc = pc /\ t.noyau = <<>>
  BY DEF EnUser, Tache
<1>2. EstTache(t) /\ Posture(Appelant, t, Appelant)
      /\ CheminDe(t, Util(Appelant, t, Appelant, processeur), appel, servi)
  BY <1>1, Distincts DEF InvAppels
<1> HIDE DEF t
<1>3. EnProgramme(Appelant, t, Appelant)
  BY <1>1, <1>2, HorsNoyau
<1>4. \A r \in Registres : Util(Appelant, t, Appelant, processeur)[r] = processeur[r]
  BY <1>3, EnMain
<1> QED
  BY <1>1, <1>2, <1>3, <1>4 DEF t

LEMMA SauveRegistres == ASSUME InvAppels, save_registers PROVE InvAppels'
<1> DEFINE t == taches[Appelant]
           pile == Pousse(processeur, <<"ebx", "esi", "edi", "ebp">>, t.pile)
           u == [t EXCEPT !.pile = pile, !.pc = "numero"]
           regs == [processeur EXCEPT
                      !["ebx"] = pile[5 + 1], !["ecx"] = pile[5 + 2], !["edx"] = pile[5 + 3],
                      !["esi"] = pile[5 + 4], !["edi"] = pile[5 + 5]]
<1>1. /\ EnUser(Appelant, "appelle") /\ processeur' = regs
      /\ taches' = [taches EXCEPT ![Appelant] = u] /\ UNCHANGED <<actif, appel, servi>>
  BY DEF save_registers, Poste, Tache
<1>2. /\ actif = Appelant /\ t.pc = "appelle" /\ EstTache(t)
      /\ EnProgramme(Appelant, t, Appelant)
      /\ CheminDe(t, Util(Appelant, t, Appelant, processeur), appel, servi)
      /\ \A r \in Registres : Util(Appelant, t, Appelant, processeur)[r] = processeur[r]
  BY <1>1, AppelantLibre
<1>3. /\ servi = <<>> /\ Intacts(Util(Appelant, t, Appelant, processeur))
      /\ EstPile(t.pile, 6) /\ \A k \in 1 .. 5 : t.pile[1 + k] = ArgumentDe(appel, k)
  BY <1>2 DEF CheminDe, Chemin
<1>4. \A r \in Preserves : processeur[r] = Depart(r)
  BY <1>2, <1>3 DEF Intacts, Preserves, Registres
<1>5. /\ EstPile(pile, 10)
      /\ pile[1] = processeur["ebp"] /\ pile[2] = processeur["edi"]
      /\ pile[3] = processeur["esi"] /\ pile[4] = processeur["ebx"]
      /\ \A k \in 1 .. 6 : pile[4 + k] = t.pile[k]
  BY <1>3, PileDuStub
<1> HIDE DEF pile
<1>6. \A k \in 1 .. 5 : pile[5 + k] = ArgumentDe(appel, k)
  <2> TAKE k \in 1 .. 5
  <2>1. 1 + k \in 1 .. 6 /\ 4 + (1 + k) = 5 + k
    OBVIOUS
  <2> QED
    BY <1>3, <1>5, <2>1
<1>7. PileStub(pile, appel)
  BY <1>4, <1>5, <1>6 DEF PileStub, Preserves
<1>8. /\ u.pile = pile /\ u.pc = "numero" /\ u.it = t.it /\ u.noyau = t.noyau /\ EstTache(u)
  BY <1>2 DEF EstTache, ChampsTache
<1> HIDE DEF u
<1>9. /\ DOMAIN regs = Registres
      /\ regs["ebx"] = pile[5 + 1] /\ regs["ecx"] = pile[5 + 2] /\ regs["edx"] = pile[5 + 3]
      /\ regs["esi"] = pile[5 + 4] /\ regs["edi"] = pile[5 + 5]
  BY DEF InvAppels, Registres
<1> HIDE DEF regs
<1>10. EnProgramme(Appelant, u, Appelant)
  BY <1>2, <1>8 DEF EnProgramme, DansLeNoyau
<1>11. Charges(Util(Appelant, u, Appelant, regs), appel)
  <2>1. \A r \in Registres : Util(Appelant, u, Appelant, regs)[r] = regs[r]
    BY <1>10, EnMain
  <2>2. /\ RegArg[1] = "ebx" /\ RegArg[2] = "ecx" /\ RegArg[3] = "edx"
        /\ RegArg[4] = "esi" /\ RegArg[5] = "edi"
    BY DEF RegArg
  <2>3. \A k \in 1 .. 5 : RegArg[k] \in Registres /\ regs[RegArg[k]] = pile[5 + k]
    <3> TAKE k \in 1 .. 5
    <3>1. k = 1 \/ k = 2 \/ k = 3 \/ k = 4 \/ k = 5
      OBVIOUS
    <3> QED
      BY <1>9, <2>2, <3>1 DEF Registres
  <2> QED
    BY <1>6, <2>1, <2>3 DEF Charges
<1>12. CheminDe(u, Util(Appelant, u, Appelant, processeur'), appel, servi')
  BY <1>1, <1>3, <1>7, <1>8, <1>11 DEF CheminDe, Chemin
<1>13. Posture(Appelant, u, Appelant)
  BY <1>10 DEF Posture
<1> QED
  BY <1>1, <1>2, <1>8, <1>9, <1>12, <1>13, EtapeAppelant

LEMMA Numerote == ASSUME InvAppels, ChargeNumero PROVE InvAppels'
<1> DEFINE t == taches[Appelant]
           u == [t EXCEPT !.pc = "int49"]
           regs == [processeur EXCEPT !["eax"] = Num(Numero[appel.stub])]
<1>1. /\ EnUser(Appelant, "numero") /\ processeur' = regs
      /\ taches' = [taches EXCEPT ![Appelant] = u] /\ UNCHANGED <<actif, appel, servi>>
  BY DEF ChargeNumero, Poste, Tache
<1>2. /\ actif = Appelant /\ t.pc = "numero" /\ EstTache(t)
      /\ EnProgramme(Appelant, t, Appelant)
      /\ CheminDe(t, Util(Appelant, t, Appelant, processeur), appel, servi)
      /\ \A r \in Registres : Util(Appelant, t, Appelant, processeur)[r] = processeur[r]
  BY <1>1, AppelantLibre
<1>3. /\ servi = <<>> /\ PileStub(t.pile, appel)
      /\ Charges(Util(Appelant, t, Appelant, processeur), appel)
  BY <1>2 DEF CheminDe, Chemin
<1>4. u.pile = t.pile /\ u.pc = "int49" /\ u.it = t.it /\ u.noyau = t.noyau /\ EstTache(u)
  BY <1>2 DEF EstTache, ChampsTache
<1> HIDE DEF u
<1>5. /\ DOMAIN regs = Registres /\ regs["eax"] = Num(Numero[appel.stub])
      /\ \A r \in Registres : r # "eax" => regs[r] = processeur[r]
  BY DEF InvAppels, Registres
<1> HIDE DEF regs
<1>6. EnProgramme(Appelant, u, Appelant)
  BY <1>2, <1>4 DEF EnProgramme, DansLeNoyau
<1>7. \A r \in Registres : Util(Appelant, u, Appelant, regs)[r] = regs[r]
  BY <1>6, EnMain
<1>8. \A k \in 1 .. 5 : RegArg[k] \in Registres /\ RegArg[k] # "eax"
  <2>1. /\ RegArg[1] = "ebx" /\ RegArg[2] = "ecx" /\ RegArg[3] = "edx"
        /\ RegArg[4] = "esi" /\ RegArg[5] = "edi"
    BY DEF RegArg
  <2> TAKE k \in 1 .. 5
  <2>2. k = 1 \/ k = 2 \/ k = 3 \/ k = 4 \/ k = 5
    OBVIOUS
  <2> QED
    BY <2>1, <2>2 DEF Registres
<1>9. Charges(Util(Appelant, u, Appelant, regs), appel)
  BY <1>2, <1>3, <1>5, <1>7, <1>8 DEF Charges
<1>10. Util(Appelant, u, Appelant, regs)["eax"] = Num(Numero[appel.stub])
  BY <1>5, <1>7 DEF Registres
<1>11. CheminDe(u, Util(Appelant, u, Appelant, processeur'), appel, servi')
  BY <1>1, <1>3, <1>4, <1>9, <1>10 DEF CheminDe, Chemin
<1>12. Posture(Appelant, u, Appelant)
  BY <1>6 DEF Posture
<1> QED
  BY <1>1, <1>2, <1>4, <1>5, <1>11, <1>12, EtapeAppelant

LEMMA RestaureRegistres == ASSUME InvAppels, restore_registers PROVE InvAppels'
<1> DEFINE t == taches[Appelant]
           pile == Oter(5, t.pile)
           u == [t EXCEPT !.pile = pile, !.pc = "rendu"]
           d == Depile(processeur, <<"ebp", "edi", "esi", "ebx">>, t.pile)
<1>1. /\ EnUser(Appelant, "restaure") /\ processeur' = d
      /\ taches' = [taches EXCEPT ![Appelant] = u] /\ UNCHANGED <<actif, appel, servi>>
  BY DEF restore_registers, Poste, Tache
<1>2. /\ actif = Appelant /\ t.pc = "restaure" /\ EstTache(t)
      /\ EnProgramme(Appelant, t, Appelant)
      /\ CheminDe(t, Util(Appelant, t, Appelant, processeur), appel, servi)
      /\ \A r \in Registres : Util(Appelant, t, Appelant, processeur)[r] = processeur[r]
  BY <1>1, AppelantLibre
<1>3. /\ Servie(servi, appel) /\ PileStub(t.pile, appel)
      /\ Rendu(Util(Appelant, t, Appelant, processeur)["eax"], appel)
  BY <1>2 DEF CheminDe, Chemin
<1>4. /\ d = [r \in Registres |-> d[r]]
      /\ d["ebp"] = t.pile[1] /\ d["edi"] = t.pile[2]
      /\ d["esi"] = t.pile[3] /\ d["ebx"] = t.pile[4]
      /\ \A r \in Registres \ Preserves : d[r] = processeur[r]
  BY DepileStub
<1> HIDE DEF d
<1>5. EstPile(pile, 5) /\ \A k \in 1 .. 5 : pile[k] = t.pile[5 + k]
  BY <1>3, OteStub DEF PileStub
<1> HIDE DEF pile
<1>6. u.pile = pile /\ u.pc = "rendu" /\ u.it = t.it /\ u.noyau = t.noyau /\ EstTache(u)
  BY <1>2 DEF EstTache, ChampsTache
<1> HIDE DEF u
<1>7. EnProgramme(Appelant, u, Appelant)
  BY <1>2, <1>6 DEF EnProgramme, DansLeNoyau
<1>8. \A r \in Registres : Util(Appelant, u, Appelant, d)[r] = d[r]
  BY <1>7, EnMain
<1>9. \A r \in Preserves : r \in Registres /\ d[r] = Depart(r)
  BY <1>3, <1>4 DEF PileStub, Preserves, Registres
<1>10. Intacts(Util(Appelant, u, Appelant, d))
  BY <1>8, <1>9 DEF Intacts
<1>11. Util(Appelant, u, Appelant, d)["eax"] = Util(Appelant, t, Appelant, processeur)["eax"]
  BY <1>2, <1>4, <1>8 DEF Registres, Preserves
<1>12. \A k \in 1 .. 5 : pile[k] = ArgumentDe(appel, k)
  BY <1>3, <1>5 DEF PileStub
<1>13. CheminDe(u, Util(Appelant, u, Appelant, processeur'), appel, servi')
  BY <1>1, <1>3, <1>5, <1>6, <1>10, <1>11, <1>12 DEF CheminDe, Chemin
<1>14. Posture(Appelant, u, Appelant) /\ DOMAIN d = Registres
  BY <1>4, <1>7 DEF Posture
<1> QED
  BY <1>1, <1>2, <1>6, <1>13, <1>14, EtapeAppelant

LEMMA EntreDansLeNoyau == ASSUME InvAppels, EntreIT49 PROVE InvAppels'
<1> DEFINE t == taches[Appelant]
           noyau == Pousse(processeur, ArgsIT49, Pousse(processeur, SauveIT49, <<Cadre>>))
           u == [t EXCEPT !.pc = "switch", !.noyau = noyau]
<1>1. /\ EnUser(Appelant, "int49")
      /\ taches' = [taches EXCEPT ![Appelant] = u] /\ UNCHANGED <<processeur, actif, appel, servi>>
  BY DEF EntreIT49, Poste, Tache
<1>2. /\ actif = Appelant /\ t.pc = "int49" /\ EstTache(t)
      /\ EnProgramme(Appelant, t, Appelant)
      /\ CheminDe(t, Util(Appelant, t, Appelant, processeur), appel, servi)
      /\ \A r \in Registres : Util(Appelant, t, Appelant, processeur)[r] = processeur[r]
  BY <1>1, AppelantLibre
<1>3. /\ servi = <<>> /\ PileStub(t.pile, appel)
      /\ Charges(Util(Appelant, t, Appelant, processeur), appel)
      /\ Util(Appelant, t, Appelant, processeur)["eax"] = Num(Numero[appel.stub])
  BY <1>2 DEF CheminDe, Chemin
<1>4. /\ EstPile(noyau, 12) /\ noyau[1] = processeur["eax"]
      /\ \A k \in 1 .. 5 : noyau[k + 1] = processeur[RegArg[k]]
  BY PileDuSwitch
<1> HIDE DEF noyau
<1>5. /\ u.pile = t.pile /\ u.pc = "switch" /\ u.it = t.it /\ u.noyau = noyau
      /\ u.retval = t.retval /\ EstTache(u)
  BY <1>2 DEF EstTache, ChampsTache
<1> HIDE DEF u
<1>6. \A k \in 1 .. 5 : RegArg[k] \in Registres
  <2>1. /\ RegArg[1] = "ebx" /\ RegArg[2] = "ecx" /\ RegArg[3] = "edx"
        /\ RegArg[4] = "esi" /\ RegArg[5] = "edi"
    BY DEF RegArg
  <2> TAKE k \in 1 .. 5
  <2>2. k = 1 \/ k = 2 \/ k = 3 \/ k = 4 \/ k = 5
    OBVIOUS
  <2> QED
    BY <2>1, <2>2 DEF Registres
<1>7. noyau[1] = Num(Numero[appel.stub])
  BY <1>2, <1>3, <1>4 DEF Registres
<1>8. \A k \in 1 .. 5 : noyau[k + 1] = ArgumentDe(appel, k)
  BY <1>2, <1>3, <1>4, <1>6 DEF Charges
<1>9. Parametres(u.noyau, appel)
  BY <1>5, <1>7, <1>8 DEF Parametres
<1>10. noyau # <<>>
  BY <1>4, PilePleine
<1>11. Posture(Appelant, u, Appelant)
  BY <1>2, <1>5, <1>10 DEF Posture, EnAppel, EnProgramme, DansLeNoyau
<1>12. CheminDe(u, Util(Appelant, u, Appelant, processeur'), appel, servi')
  BY <1>1, <1>3, <1>5 DEF CheminDe, Chemin
<1>13. DOMAIN processeur' = Registres
  BY <1>1 DEF InvAppels
<1> QED
  BY <1>1, <1>2, <1>5, <1>9, <1>11, <1>12, <1>13, EtapeAppelant

LEMMA SertAppel == ASSUME InvAppels, Sert PROVE InvAppels'
<1> DEFINE t == taches[Appelant]
           cas == traitant_IT_49_switch(t.noyau[1][2])
           permis == \A r \in cas.verifies : EstUtilisateur(Parametre(t.noyau, r))
           retour == IF ~permis THEN Entier(-1) ELSE IF cas.rend THEN Resultat ELSE Entier(0)
           fait == <<cas.f, [k \in 1 .. Len(cas.args) |-> Parametre(t.noyau, cas.args[k])]>>
           pc == IF permis /\ cas.f \in {"exit", "exit_kernel"} THEN "arrete" ELSE "retour"
           u == [t EXCEPT !.pc = pc, !.retval = retour]
<1>1. /\ actif = Appelant /\ t.pc = "switch" /\ UNCHANGED <<actif, appel>>
      /\ servi' = (IF permis THEN Append(servi, fait) ELSE servi)
      /\ processeur' = CodeC(processeur) /\ taches' = [taches EXCEPT ![Appelant] = u]
  BY DEF Sert, Poste, Tache, Parametre
<1>2. /\ EstTache(t) /\ Posture(Appelant, t, Appelant) /\ appel.stub \in DOMAIN Prototype
      /\ CheminDe(t, Util(Appelant, t, Appelant, processeur), appel, servi)
      /\ Parametres(t.noyau, appel)
  BY <1>1, Distincts DEF InvAppels
<1>3. servi = <<>> /\ PileStub(t.pile, appel)
  BY <1>1, <1>2 DEF CheminDe, Chemin
<1>4. (permis <=> AppelPermis(appel)) /\ fait = Attendu(appel) /\ Rendu(retour, appel)
  BY <1>2, SertJuste
<1> HIDE DEF permis, retour, fait
<1>5. Servie(servi', appel)
  <2>1. Append(<<>>, fait) = <<fait>>
    OBVIOUS
  <2> QED
    BY <1>1, <1>3, <1>4, <2>1 DEF Servie
<1>6. pc \in {"arrete", "retour"}
  OBVIOUS
<1> HIDE DEF pc
<1>7. /\ u.pile = t.pile /\ u.pc = pc /\ u.it = t.it /\ u.noyau = t.noyau
      /\ u.retval = retour /\ EstTache(u)
  BY <1>2 DEF EstTache, ChampsTache
<1> HIDE DEF u
<1>8. t.noyau # <<>> /\ t.it = "non"
  BY <1>1, <1>2 DEF Posture, EnAppel, EnProgramme, Interrompu, DansLeNoyau
<1>9. Posture(Appelant, u, Appelant)
  BY <1>6, <1>7, <1>8 DEF Posture, EnAppel, DansLeNoyau
<1>10. CheminDe(u, Util(Appelant, u, Appelant, processeur'), appel, servi')
  BY <1>3, <1>4, <1>5, <1>6, <1>7 DEF CheminDe, Chemin
<1>11. DOMAIN processeur' = Registres
  BY <1>1 DEF CodeC
<1>12. u.pc # "switch"
  BY <1>6, <1>7
<1> QED
  BY <1>1, <1>7, <1>9, <1>10, <1>11, <1>12, EtapeAppelant

LEMMA SortDuNoyau == ASSUME InvAppels, SortIT49 PROVE InvAppels'
<1> DEFINE t == taches[Appelant]
           d == Depile(processeur, RestaureIT49, Oter(6, t.noyau))
           regs == [d EXCEPT !["eax"] = t.retval]
           u == [t EXCEPT !.noyau = <<>>, !.pc = "restaure"]
<1>1. /\ actif = Appelant /\ t.pc = "retour" /\ UNCHANGED <<actif, appel, servi>>
      /\ processeur' = regs /\ taches' = [taches EXCEPT ![Appelant] = u]
  BY DEF SortIT49, Poste, Tache
<1>2. /\ EstTache(t) /\ Posture(Appelant, t, Appelant)
      /\ CheminDe(t, Util(Appelant, t, Appelant, processeur), appel, servi)
  BY <1>1, Distincts DEF InvAppels
<1>3. Servie(servi, appel) /\ PileStub(t.pile, appel) /\ Rendu(t.retval, appel)
  BY <1>1, <1>2 DEF CheminDe, Chemin
<1>4. DOMAIN d = Registres
  BY DEF Depile
<1> HIDE DEF d
<1>5. DOMAIN regs = Registres /\ regs["eax"] = t.retval
  BY <1>4 DEF Registres
<1> HIDE DEF regs
<1>6. /\ u.pile = t.pile /\ u.pc = "restaure" /\ u.it = t.it /\ u.noyau = <<>>
      /\ EstTache(u)
  BY <1>2 DEF EstTache, ChampsTache
<1> HIDE DEF u
<1>7. t.it = "non"
  BY <1>1, <1>2 DEF Posture, EnAppel, EnProgramme, Interrompu, DansLeNoyau
<1>8. EnProgramme(Appelant, u, Appelant)
  BY <1>6, <1>7 DEF EnProgramme, DansLeNoyau
<1>9. Util(Appelant, u, Appelant, regs)["eax"] = t.retval
  BY <1>5, <1>8, EnMain DEF Registres
<1>10. CheminDe(u, Util(Appelant, u, Appelant, processeur'), appel, servi')
  BY <1>1, <1>3, <1>6, <1>9 DEF CheminDe, Chemin
<1>11. Posture(Appelant, u, Appelant)
  BY <1>8 DEF Posture
<1> QED
  BY <1>1, <1>5, <1>6, <1>10, <1>11, EtapeAppelant

LEMMA Interruption ==
    ASSUME InvAppels, NEW p \in Deux, NEW clavier \in BOOLEAN, EntreIT(p, clavier)
    PROVE  InvAppels'
<1> DEFINE t == taches[p]
           u == Entre(t, processeur, clavier)
<1>1. /\ actif = p /\ t.noyau = <<>> /\ UNCHANGED <<actif, appel, servi>>
      /\ processeur' = CodeC(processeur) /\ taches' = [taches EXCEPT ![p] = u]
  BY DEF EntreIT, Poste, Tache, Entre
<1>2. EstTache(t) /\ Posture(p, t, p)
  BY <1>1 DEF InvAppels
<1> HIDE DEF t
<1>3. Reprend(p, t, u, p, p, processeur, CodeC(processeur))
  BY <1>1, <1>2, EntreJuste
<1>4. t.pc \notin DansLeNoyau
  BY <1>1, <1>2, HorsNoyau DEF EnProgramme
<1>5. DOMAIN processeur' = Registres
  BY <1>1 DEF CodeC
<1> HIDE DEF u
<1> QED
  BY <1>1, <1>3, <1>4, <1>5, EtapeIT DEF Reprend, t

LEMMA FinInterruption ==
    ASSUME InvAppels, NEW p \in Deux, SortIT(p) PROVE InvAppels'
<1> DEFINE t == taches[p]
           u == Sorti(t)
           d == RegsSortis(t, processeur)
<1>1. /\ actif = p /\ t.it # "non" /\ UNCHANGED <<actif, appel, servi>>
      /\ processeur' = d /\ taches' = [taches EXCEPT ![p] = u]
  BY DEF SortIT, Poste, Tache, Sorti, RegsSortis
<1>2. EstTache(t) /\ Posture(p, t, p)
  BY <1>1 DEF InvAppels
<1> HIDE DEF t
<1>3. DOMAIN d = Registres /\ Reprend(p, t, u, p, p, processeur, d)
  BY <1>1, <1>2, SortJuste
<1>4. t.pc \notin DansLeNoyau
  BY <1>1, <1>2 DEF Posture, Interrompu, EnProgramme, EnAppel
<1> HIDE DEF u, d
<1> QED
  BY <1>1, <1>3, <1>4, EtapeIT DEF Reprend, t

LEMMA ChangeContexte ==
    ASSUME InvAppels, NEW p \in Deux, NEW q \in Deux, ctx_sw(p, q) PROVE InvAppels'
<1> DEFINE t == taches[p]
           v == taches[q]
           u == Quitte(t, processeur)
           d == RegsRepris(v)
<1>1. /\ actif = p /\ p # q /\ t.noyau # <<>> /\ v.noyau # <<>>
      /\ t.pc # "switch" /\ actif' = q /\ UNCHANGED <<appel, servi>>
      /\ processeur' = d /\ taches' = [taches EXCEPT ![p] = u]
  BY DEF ctx_sw, Tache, Quitte, RegsRepris
<1>2. /\ EstTache(t) /\ EstTache(v) /\ Posture(p, t, p) /\ Posture(q, v, p)
      /\ DOMAIN taches = Deux
  BY <1>1 DEF InvAppels
<1>5. DOMAIN d = Registres
  BY DEF RegsRepris
<1>6. taches'[p] = u /\ taches'[q] = v /\ DOMAIN taches' = Deux
  BY <1>1, <1>2
<1> HIDE DEF t, v
<1>3. Reprend(p, t, u, p, q, processeur, d)
  BY <1>1, <1>2, CtxSortant
<1>4. Reprend(q, v, v, p, q, processeur, d)
  BY <1>1, <1>2, CtxEntrant
<1>7. \A x \in Deux : x = p \/ x = q
  BY <1>1 DEF Deux
<1> HIDE DEF u, d
<1>8. \A x \in Deux : Reprend(x, taches[x], taches'[x], actif, actif', processeur, processeur')
  BY <1>1, <1>3, <1>4, <1>6, <1>7 DEF t, v
<1>9. \A x \in Deux : taches[x].pc # "switch"
  BY <1>1, <1>2, <1>7 DEF Posture, Interrompu, EnProgramme, EnAppel, DansLeNoyau, t, v
<1>11. LET x == taches'[Calculateur] IN Calcule(x, Util(Calculateur, x, actif', processeur'))
  BY <1>8, Distincts DEF InvAppels, Calcule, DansLeNoyau, Reprend
<1>12. LET x == taches'[Appelant]
       IN  CheminDe(x, Util(Appelant, x, actif', processeur'), appel', servi')
  <2> DEFINE x == taches'[Appelant]
             w == Util(Appelant, taches[Appelant], actif, processeur)
             z == Util(Appelant, x, actif', processeur')
  <2>1. CheminDe(x, w, appel', servi')
    BY <1>1, <1>8, Distincts DEF InvAppels, CheminDe, Reprend
  <2>2. CASE x.pc \in DansLeNoyau
    BY <2>1, <2>2, CheminNoyau
  <2>3. CASE x.pc \notin DansLeNoyau
    <3>1. z = w
      BY <1>8, <2>3, Distincts DEF Reprend
    <3> QED
      BY <2>1, <3>1
  <2> QED
    BY <2>2, <2>3
<1>13. actif' \in Deux /\ DOMAIN processeur' = Registres /\ appel'.stub \in DOMAIN Prototype
  BY <1>1, <1>5 DEF InvAppels
<1> QED
  BY <1>6, <1>8, <1>9, <1>11, <1>12, <1>13, Distincts DEF InvAppels, Reprend

LEMMA AppelsInitial == AppelsInit => InvAppels
<1> SUFFICES ASSUME AppelsInit PROVE InvAppels
  OBVIOUS
<1> DEFINE t == [pc |-> "appelle", it |-> "non", noyau |-> <<>>, pile |-> PileAppel(appel),
                 retval |-> Ecrase, contexte |-> [r \in Preserves |-> Ecrase]]
           pile == <<Autre("ecx"), Autre("edx"), Autre("eax"), Cadre>>
           v == [pc |-> "calcule", it |-> "IT_32", noyau |-> pile, pile |-> <<>>,
                 retval |-> Ecrase, contexte |-> [r \in Preserves |-> Autre(r)]]
<1>1. /\ taches = [p \in {Appelant, Calculateur} |-> IF p = Appelant THEN t ELSE v]
      /\ actif = Appelant /\ servi = <<>> /\ processeur = [r \in Registres |-> Depart(r)]
  BY DEF AppelsInit
<1>2. appel.stub \in DOMAIN Prototype
  BY DEF AppelsInit, Appels
<1>3. /\ EstPile(pile, 4) /\ pile[1] = Autre("ecx") /\ pile[2] = Autre("edx")
      /\ pile[3] = Autre("eax")
  <2> DEFINE S == {Autre("ecx"), Autre("edx"), Autre("eax"), Cadre}
  <2>1. pile \in Seq(S) /\ Len(pile) = 4
    OBVIOUS
  <2>2. EstPile(pile, 4)
    BY <2>1, SeqPile
  <2> QED
    BY <2>2
<1> HIDE DEF pile
<1>4. /\ EstTache(t) /\ t.pc = "appelle" /\ t.it = "non" /\ t.noyau = <<>>
      /\ t.pile = PileAppel(appel) /\ t.retval = Ecrase
  BY DEF EstTache, ChampsTache
<1>5. /\ EstTache(v) /\ v.pc = "calcule" /\ v.it = "IT_32" /\ v.noyau = pile
      /\ v.contexte = [r \in Preserves |-> Autre(r)]
  BY DEF EstTache, ChampsTache
<1> HIDE DEF t, v
<1>6. /\ taches[Appelant] = t /\ taches[Calculateur] = v /\ DOMAIN taches = Deux
  BY <1>1, Distincts
<1>7. EnProgramme(Appelant, t, Appelant)
  BY <1>4 DEF EnProgramme, DansLeNoyau
<1>8. Posture(Appelant, t, Appelant) /\ Posture(Calculateur, v, Appelant)
  BY <1>3, <1>5, <1>7 DEF Posture, Interrompu, DansLeNoyau
<1>9. Calcule(v, Util(Calculateur, v, Appelant, processeur))
  <2>1. \A r \in Registres \ Preserves : Sauve(v, r) = Autre(r)
    <3>1. \A r \in Registres \ Preserves : r = "eax" \/ r = "ecx" \/ r = "edx"
      BY DEF Registres, Preserves
    <3> QED
      BY <1>3, <1>5, <3>1 DEF Sauve, PlaceIT
  <2> QED
    BY <1>5, <2>1, Distincts DEF Calcule, Util
<1>10. CheminDe(t, Util(Appelant, t, Appelant, processeur), appel, servi)
  <2>1. \A r \in Registres : Util(Appelant, t, Appelant, processeur)[r] = Depart(r)
    BY <1>1, <1>7, EnMain
  <2>2. Intacts(Util(Appelant, t, Appelant, processeur))
    BY <2>1 DEF Intacts, Preserves, Registres
  <2>3. /\ EstPile(t.pile, 6) /\ \A k \in 1 .. 5 : t.pile[1 + k] = ArgumentDe(appel, k)
    BY <1>4, PileDeLAppel
  <2> QED
    BY <1>1, <1>4, <2>2, <2>3 DEF CheminDe, Chemin
<1>11. DOMAIN processeur = Registres /\ actif = Appelant
  BY <1>1
<1> QED
  BY <1>2, <1>4, <1>5, <1>6, <1>8, <1>9, <1>10, <1>11, Distincts DEF InvAppels

LEMMA AppelsPas == InvAppels /\ [AppelsNext]_appelsVars => InvAppels'
<1> SUFFICES ASSUME InvAppels, [AppelsNext]_appelsVars PROVE InvAppels'
  OBVIOUS
<1>1. CASE AppelsNext
  <2>1. ASSUME NEW p \in Deux, NEW q \in Deux, ctx_sw(p, q) PROVE InvAppels'
    BY <2>1, ChangeContexte
  <2>2. ASSUME NEW p \in Deux, NEW clavier \in BOOLEAN, EntreIT(p, clavier) PROVE InvAppels'
    BY <2>2, Interruption
  <2>3. ASSUME NEW p \in Deux, SortIT(p) PROVE InvAppels'
    BY <2>3, FinInterruption
  <2> QED
    BY <1>1, <2>1, <2>2, <2>3, SauveRegistres, Numerote, RestaureRegistres,
       EntreDansLeNoyau, SertAppel, SortDuNoyau DEF AppelsNext, Deux
<1>2. CASE UNCHANGED appelsVars
  BY <1>2 DEF appelsVars, InvAppels
<1> QED
  BY <1>1, <1>2

LEMMA AppelsSuite == InvAppels => AppelServi
<1> SUFFICES ASSUME InvAppels PROVE AppelServi
  OBVIOUS
<1>1. ASSUME EnUser(Calculateur, "calcule"), NEW r \in Registres
      PROVE  processeur[r] = Autre(r)
  <2> DEFINE t == taches[Calculateur]
  <2>1. actif = Calculateur /\ t.noyau = <<>> /\ Posture(Calculateur, t, Calculateur)
        /\ Util(Calculateur, t, Calculateur, processeur)[r] = Autre(r)
    BY <1>1, Distincts DEF EnUser, Tache, InvAppels, Calcule
  <2> HIDE DEF t
  <2>2. EnProgramme(Calculateur, t, Calculateur)
    BY <2>1, HorsNoyau
  <2> QED
    BY <2>1, <2>2, EnMain
<1>2. ASSUME EnUser(Appelant, "rendu")
      PROVE  /\ Servie(servi, appel) /\ Rendu(processeur["eax"], appel)
             /\ \A r \in Preserves : processeur[r] = Depart(r)
             /\ <<Cadre>> \o Tache(Appelant).pile = PileAppel(appel)
  <2> DEFINE t == taches[Appelant]
  <2>1. /\ t.pc = "rendu" /\ CheminDe(t, Util(Appelant, t, Appelant, processeur), appel, servi)
        /\ \A r \in Registres : Util(Appelant, t, Appelant, processeur)[r] = processeur[r]
    BY <1>2, AppelantLibre
  <2>2. /\ Servie(servi, appel)
        /\ Rendu(Util(Appelant, t, Appelant, processeur)["eax"], appel)
        /\ Intacts(Util(Appelant, t, Appelant, processeur))
        /\ EstPile(t.pile, 5) /\ \A k \in 1 .. 5 : t.pile[k] = ArgumentDe(appel, k)
    BY <2>1 DEF CheminDe, Chemin
  <2>3. Rendu(processeur["eax"], appel)
    BY <2>1, <2>2 DEF Registres
  <2>4. \A r \in Preserves : processeur[r] = Depart(r)
    BY <2>1, <2>2 DEF Intacts, Preserves, Registres
  <2>5. t.pile = [k \in 1 .. 5 |-> ArgumentDe(appel, k)]
    BY <2>2 DEF EstPile
  <2> QED
    BY <2>2, <2>3, <2>4, <2>5 DEF PileAppel, Tache
<1>3. CalculIntact
  BY <1>1 DEF CalculIntact
<1>4. AppelRendu
  BY <1>2 DEF AppelRendu, Servie, Attendu, Rendu, AppelPermis
<1> QED
  BY <1>3, <1>4 DEF AppelServi

LEMMA BancAppels ==
    ASSUME [MachinesNext]_machinesVars
    PROVE  UNCHANGED banc /\ (banc = "appels" => [AppelsNext]_appelsVars)
BY DEF MachinesNext, Banc, machinesVars

\* A system call is served once, with the arguments of the stub in order and
\* after the check of each pointer, and comes back with its result and the
\* registers and the stack of the C convention; interrupts and changes of
\* context are invisible to programs.  For any address and any user space.
THEOREM AppelSurCorrect == SpecMachines => []AppelSur
<1> DEFINE I == banc = "appels" => InvAppels
<1>1. MachinesInit => I
  BY AppelsInitial DEF MachinesInit
<1>2. I /\ [MachinesNext]_machinesVars => I'
  BY BancAppels, AppelsPas
<1>3. I => AppelSur
  BY AppelsSuite DEF AppelSur
<1> QED
  BY <1>1, <1>2, <1>3, PTL DEF SpecMachines

\* The keyboard driver.

\* The key maps agree on the keys of the modifiers.
Modificatrices == {42, 54, 29, 97, 56, 100}
EstModif(k, m) == key_map({}, k) = <<"shift", m>>

LEMMA CarteModif ==
    /\ \A mods : \A k \in Modificatrices : key_map(mods, k) = Commun(k)
    /\ \A k \in Modificatrices : Commun(k)[1] = "shift" /\ Commun(k)[2] \in Mods
         /\ Commun(k) = <<"shift", Commun(k)[2]>>
BY DEF key_map, Commun, Modificatrices, Mods

LEMMA CarteAutres ==
    ASSUME NEW k \in Int, k \notin Modificatrices, NEW mods
    PROVE  key_map(mods, k)[1] # "shift"
BY DEF key_map, Commun, Modificatrices

LEMMA CarteChiffres ==
    ASSUME NEW k \in Int, NEW mods, key_map(mods, k)[1] = "ascii"
    PROVE  /\ k \in {69, 79} /\ mods # {} /\ key_map(mods, k)[2] \in {1, 11, 20}
BY DEF key_map, Commun

\* The bytes.

LEMMA OctetsNegatifs == ASSUME NEW c \in 0 .. 127 PROVE (c + 128) % 128 = c /\ c % 128 = c
OBVIOUS

LEMMA TraduitPrefixe ==
    ASSUME NEW p
    PROVE  /\ Traduit(p, 224).code = 0 /\ Traduit(p, 224).prev = 224
           /\ Traduit(p, 225).code = 0 /\ Traduit(p, 225).prev = 225
BY DEF Traduit

DonneCode(p, sc, code) == Traduit(p, sc).code = code /\ Traduit(p, sc).prev = 0

LEMMA TraduitBas ==
    ASSUME NEW k \in 1 .. 88, NEW sc \in {k, k + 128}
    PROVE  DonneCode(0, sc, k)
<1>1. sc % 128 = k /\ sc \notin {224, 225} /\ ~(k >= 89)
  BY OctetsNegatifs
<1> QED
  BY <1>1 DEF Traduit, DonneCode

LEMMA TraduitHaut ==
    ASSUME NEW c \in 0 .. 127, c \notin {42, 54, 96, 97}, NEW sc, sc = c \/ sc = c + 128,
           NEW k, e0_keys[c] = k
    PROVE  DonneCode(224, sc, k)
<1>1. sc % 128 = c /\ sc \notin {224, 225}
  BY OctetsNegatifs
<1> QED
  BY <1>1 DEF Traduit, DonneCode

LEMMA TraduitPause ==
    /\ \A sc \in {29, 157} : Traduit(225, sc).code = 0 /\ Traduit(225, sc).prev = 256
    /\ \A sc \in {69, 197} : Traduit(256, sc).code = 119 /\ Traduit(256, sc).prev = 0
<1>1. /\ \A sc \in {29, 157} : sc % 128 = 29 /\ sc \notin {224, 225}
      /\ \A sc \in {69, 197} : sc % 128 = 69 /\ sc \notin {224, 225}
  BY OctetsNegatifs
<1> QED
  BY <1>1 DEF Traduit

LEMMA Accole == \A a, b : <<a>> \o <<b>> = <<a, b>>
<1> TAKE a, b
<1> DEFINE S == {a, b}
           s == <<a>>
           t == <<b>>
           u == s \o t
           v == <<a, b>>
<1>1. /\ s \in Seq(S) /\ Len(s) = 1 /\ s[1] = a /\ t \in Seq(S) /\ Len(t) = 1 /\ t[1] = b
      /\ v \in Seq(S) /\ Len(v) = 2 /\ v[1] = a /\ v[2] = b
  OBVIOUS
<1> HIDE DEF s, t, v, S
<1>2. /\ u \in Seq(S) /\ Len(u) = 2
      /\ \A i \in 1 .. 2 : u[i] = IF i <= 1 THEN s[i] ELSE t[i - 1]
  BY <1>1, ConcatProperties
<1> HIDE DEF u
<1>3. u[1] = a /\ u[2] = b
  BY <1>1, <1>2
<1>4. \A i \in 1 .. 2 : u[i] = v[i]
  BY <1>1, <1>3
<1>5. u = v
  BY <1>1, <1>2, <1>4, SeqEqual
<1> QED
  BY <1>5 DEF u, v, s, t

\* The last byte of a key.
Dernier(k, haut) == CodeDe(k) + (IF haut THEN 128 ELSE 0)

LEMMA Touches ==
    ASSUME NEW k \in TouchesClavier
    PROVE  /\ k \in Int /\ k > 0 /\ k < 128
           /\ k # 119 /\ k >= 89 => /\ CodeDe(k) \in 0 .. 127 /\ e0_keys[CodeDe(k)] = k
                                    /\ CodeDe(k) \notin {42, 54, 96, 97}
<1>1. /\ e0_keys[42] = 0 /\ e0_keys[54] = 0 /\ e0_keys[96] = 0 /\ e0_keys[97] = 0
      /\ \A c \in 0 .. 127 : e0_keys[c] \in 0 .. 127
  BY DEF e0_keys
<1>2. k \in 1 .. 88 \/ k = 119 \/ \E c \in 0 .. 127 : k = e0_keys[c] /\ k # 0
  BY PiloteAssumption
<1>3. k \in Int /\ k > 0 /\ k < 128
  <2>1. CASE k \in 1 .. 88 \/ k = 119
    BY <2>1
  <2>2. ASSUME NEW c \in 0 .. 127, k = e0_keys[c], k # 0 PROVE k \in Int /\ k > 0 /\ k < 128
    <3>1. k \in 0 .. 127
      BY <1>1, <2>2
    <3> QED
      BY <2>2, <3>1
  <2> QED
    BY <1>2, <2>1, <2>2
<1>4. ASSUME k # 119, k >= 89
      PROVE  /\ CodeDe(k) \in 0 .. 127 /\ e0_keys[CodeDe(k)] = k
             /\ CodeDe(k) \notin {42, 54, 96, 97}
  <2>1. \E c \in 0 .. 127 : e0_keys[c] = k
    BY <1>2, <1>4
  <2>2. CodeDe(k) = CHOOSE c \in 0 .. 127 : e0_keys[c] = k
    <3>1. ~(k < 89)
      BY <1>3, <1>4
    <3> QED
      BY <3>1 DEF CodeDe
  <2>3. CodeDe(k) \in 0 .. 127 /\ e0_keys[CodeDe(k)] = k
    BY <2>1, <2>2
  <2> DEFINE c == CodeDe(k)
  <2>4. c \in 0 .. 127 /\ e0_keys[c] # 0
    BY <1>3, <2>3
  <2> HIDE DEF c
  <2>5. c \notin {42, 54, 96, 97}
    BY <1>1, <2>4
  <2> QED
    BY <2>3, <2>5 DEF c
<1> QED
  BY <1>3, <1>4

LEMMA DernierOctet ==
    ASSUME NEW k \in TouchesClavier \ {119}, NEW haut \in BOOLEAN
    PROVE  LET b == Dernier(k, haut)
               p == IF k < 89 THEN 0 ELSE 224
           IN  /\ Traduit(p, b).code = k /\ Traduit(p, b).prev = 0
               /\ b < 128 <=> ~haut
               /\ OctetsTouche(k, haut) = IF k < 89 THEN <<b>> ELSE <<224, b>>
               /\ ~haut /\ k < 89 => b = k
<1> DEFINE b == Dernier(k, haut)
           c == CodeDe(k)
<1>1. k \in Int /\ k > 0 /\ k < 128
  BY Touches
<1>2. CASE k < 89
  <2>1. c = k
    BY <1>2 DEF CodeDe
  <2>2. b \in {k, k + 128} /\ (b < 128 <=> ~haut) /\ (~haut => b = k)
    BY <1>1, <1>2, <2>1 DEF Dernier
  <2>3. Traduit(0, b).code = k /\ Traduit(0, b).prev = 0
    <3>1. k \in 1 .. 88
      BY <1>1, <1>2
    <3> HIDE DEF b
    <3>2. DonneCode(0, b, k)
      BY <2>2, <3>1, TraduitBas
    <3> QED
      BY <3>2 DEF DonneCode
  <2>4. OctetsTouche(k, haut) = <<b>>
    BY <1>2 DEF OctetsTouche, Dernier
  <2> QED
    BY <1>2, <2>2, <2>3, <2>4
<1>3. CASE ~(k < 89)
  <2>1. c \in 0 .. 127 /\ e0_keys[c] = k /\ c \notin {42, 54, 96, 97}
    BY <1>1, <1>3, Touches
  <2> HIDE DEF c
  <2>2. b \in {c, c + 128} /\ (b < 128 <=> ~haut)
    BY <2>1 DEF Dernier, c
  <2>3. Traduit(224, b).code = k /\ Traduit(224, b).prev = 0
    <3>1. b = c \/ b = c + 128
      BY <2>2
    <3> HIDE DEF b
    <3>2. DonneCode(224, b, k)
      BY <2>1, <3>1, TraduitHaut
    <3> QED
      BY <3>2 DEF DonneCode
  <2>4. OctetsTouche(k, haut) = <<224, b>>
    <3>1. OctetsTouche(k, haut) = <<224>> \o <<b>>
      BY <1>3 DEF OctetsTouche, Dernier
    <3> HIDE DEF b
    <3>2. <<224>> \o <<b>> = <<224, b>>
      BY Accole
    <3> QED
      BY <3>1, <3>2
  <2> QED
    BY <1>3, <2>2, <2>3, <2>4
<1> QED
  BY <1>2, <1>3

\* What a keycode does to the driver.

ChampsPilote == {"init", "prev", "key_down", "k_down", "shift_state", "npadch", "flags",
                 "stopped", "emis"}

Garde(s, t) ==
    /\ DOMAIN t = ChampsPilote /\ t.prev = s.prev /\ t.key_down = s.key_down
    /\ s.flags \subseteq Voyants => t.flags \subseteq Voyants

Neutre(s, t) ==
    Garde(s, t) /\ t.k_down = s.k_down /\ t.shift_state = s.shift_state /\ t.npadch = s.npadch

Recompte(s, t) ==
    /\ Garde(s, t) /\ t.npadch = s.npadch
    /\ t.k_down = [m \in Mods |-> Cardinality(DuModificateur(s.key_down, m))]
    /\ t.shift_state = {m \in Mods : DuModificateur(s.key_down, m) # {}}

ChiffrePilote(s, t) ==
    /\ Garde(s, t) /\ t.k_down = s.k_down /\ t.shift_state = s.shift_state
    /\ \E base \in {10, 16}, x \in 0 .. 10 :
         t.npadch = IF s.npadch = -1 THEN x ELSE s.npadch * base + x

Enfonce(s, t, m) ==
    /\ Garde(s, t) /\ t.npadch = s.npadch
    /\ t.k_down = [s.k_down EXCEPT ![m] = s.k_down[m] + 1]
    /\ t.shift_state = IF s.k_down[m] + 1 > 0 THEN s.shift_state \cup {m}
                                              ELSE s.shift_state \ {m}

\* A release that ends a modifier sends the number typed on the keypad.
Leve(s, t, m) ==
    /\ Garde(s, t)
    /\ LET n == IF s.k_down[m] > 0 THEN s.k_down[m] - 1 ELSE 0
       IN  /\ t.k_down = [s.k_down EXCEPT ![m] = n]
           /\ t.shift_state = IF n > 0 THEN s.shift_state \cup {m} ELSE s.shift_state \ {m}
    /\ t.npadch = IF t.shift_state # s.shift_state THEN -1 ELSE s.npadch

LEMMA PutNeutre ==
    ASSUME NEW s, DOMAIN s = ChampsPilote, NEW a, NEW c
    PROVE  Neutre(s, put_queue(s, a, c))
BY DEF put_queue, Neutre, Garde, ChampsPilote

LEMMA NeutreNeutre ==
    ASSUME NEW s, NEW t, NEW u, Neutre(s, t), Neutre(t, u) PROVE Neutre(s, u)
BY DEF Neutre, Garde

LEMMA RienNeutre == ASSUME NEW s, DOMAIN s = ChampsPilote PROVE Neutre(s, s)
BY DEF Neutre, Garde

LEMMA FnNeutre ==
    ASSUME NEW s, DOMAIN s = ChampsPilote, NEW v PROVE Neutre(s, do_fn(s, v))
BY PutNeutre, RienNeutre DEF do_fn

LEMMA SpecEffet ==
    ASSUME NEW s, DOMAIN s = ChampsPilote, NEW f, NEW rep \in BOOLEAN
    PROVE  IF f = "do_null" THEN Recompte(s, do_spec(s, f, rep))
           ELSE Neutre(s, do_spec(s, f, rep))
<1>1. CASE f = "do_null"
  BY <1>1 DEF do_spec, compute_shiftstate, Recompte, Garde, ChampsPilote
<1>2. CASE f = "enter"
  BY <1>2, PutNeutre DEF do_spec
<1>3. CASE f = "caps_toggle" /\ ~rep
  BY <1>3 DEF do_spec, Neutre, Garde, ChampsPilote, Bascule, Voyants
<1>4. CASE f = "num" /\ ~rep
  BY <1>4 DEF do_spec, Neutre, Garde, ChampsPilote, Bascule, Voyants
<1>5. CASE f = "hold" /\ ~rep
  BY <1>5 DEF do_spec, Neutre, Garde, ChampsPilote
<1>6. CASE /\ f # "do_null" /\ f # "enter" /\ ~(f = "caps_toggle" /\ ~rep)
           /\ ~(f = "num" /\ ~rep) /\ ~(f = "hold" /\ ~rep)
  <2>1. do_spec(s, f, rep) = s
    BY <1>6 DEF do_spec
  <2> QED
    BY <1>6, <2>1, RienNeutre
<1> QED
  BY <1>1, <1>2, <1>3, <1>4, <1>5, <1>6

LEMMA ShiftEffet ==
    ASSUME NEW s, DOMAIN s = ChampsPilote, DOMAIN s.k_down = Mods, NEW m \in Mods,
           NEW up \in BOOLEAN, NEW rep \in BOOLEAN
    PROVE  LET t == do_shift(s, m, up, rep)
           IN  IF rep THEN t = s
               ELSE IF up THEN Leve(s, t, m) ELSE Enfonce(s, t, m)
<1> DEFINE t == Compte(s, m, up)
<1>1. CASE rep
  BY <1>1 DEF do_shift
<1>2. CASE ~rep /\ ~up
  BY <1>2 DEF do_shift, EnvoieCode, Compte, Enfonce, Garde, ChampsPilote
<1>3. CASE ~rep /\ up
  <2> DEFINE n == IF s.k_down[m] > 0 THEN s.k_down[m] - 1 ELSE 0
  <2>1. /\ DOMAIN t = ChampsPilote /\ t.prev = s.prev /\ t.key_down = s.key_down
        /\ t.flags = s.flags /\ t.npadch = s.npadch
        /\ t.k_down = [s.k_down EXCEPT ![m] = n]
        /\ t.shift_state = IF n > 0 THEN s.shift_state \cup {m} ELSE s.shift_state \ {m}
    BY <1>3 DEF Compte, ChampsPilote
  <2> HIDE DEF t
  <2>2. CASE t.shift_state # s.shift_state /\ s.npadch # -1
    <3> DEFINE w == put_queue(t, "code", s.npadch % 256)
               u == [w EXCEPT !.npadch = -1]
    <3>1. do_shift(s, m, up, rep) = u
      BY <1>3, <2>2 DEF do_shift, EnvoieCode, t
    <3>2. Neutre(t, w)
      BY <2>1, PutNeutre
    <3> HIDE DEF w
    <3>3. /\ DOMAIN u = ChampsPilote /\ u.prev = w.prev /\ u.key_down = w.key_down
          /\ u.flags = w.flags /\ u.npadch = -1 /\ u.k_down = w.k_down
          /\ u.shift_state = w.shift_state
      BY <3>2 DEF Neutre, Garde, ChampsPilote
    <3> HIDE DEF u
    <3>4. Leve(s, u, m)
      BY <2>1, <2>2, <3>2, <3>3 DEF Leve, Neutre, Garde
    <3> QED
      BY <1>3, <3>1, <3>4
  <2>3. CASE ~(t.shift_state # s.shift_state /\ s.npadch # -1)
    <3>1. do_shift(s, m, up, rep) = t
      BY <1>3, <2>3 DEF do_shift, EnvoieCode, t
    <3>2. Leve(s, t, m)
      BY <2>1, <2>3 DEF Leve, Garde
    <3> QED
      BY <1>3, <3>1, <3>2
  <2> QED
    BY <2>2, <2>3
<1> QED
  BY <1>1, <1>2, <1>3

LEMMA ChiffreEffet ==
    ASSUME NEW s, DOMAIN s = ChampsPilote, NEW v \in {1, 11, 20}
    PROVE  ChiffrePilote(s, do_ascii(s, v))
<1> DEFINE base == IF v < 10 THEN 10 ELSE 16
           x == IF v < 10 THEN v ELSE v - 10
           t == do_ascii(s, v)
<1>1. /\ Garde(s, t) /\ t.k_down = s.k_down /\ t.shift_state = s.shift_state
      /\ t.npadch = IF s.npadch = -1 THEN x ELSE s.npadch * base + x
  BY DEF do_ascii, Garde, ChampsPilote
<1>2. base \in {10, 16} /\ x \in 0 .. 10
  OBVIOUS
<1> HIDE DEF t, base, x
<1> QED
  BY <1>1, <1>2 DEF ChiffrePilote, t

Sortes == {"shift", "latin", "letter", "meta", "ascii", "fn", "pad", "cur", "spec", "cons"}

LEMMA SorteDeTouche == \A mods : \A k \in Int : key_map(mods, k)[1] \in Sortes
BY DEF key_map, Commun, Sortes

LEMMA HandlerEffet ==
    ASSUME NEW s, DOMAIN s = ChampsPilote, NEW sym, sym[1] \in Sortes \ {"shift"},
           sym[1] = "ascii" => sym[2] \in {1, 11, 20}, NEW up \in BOOLEAN, NEW rep \in BOOLEAN
    PROVE  LET t == key_handler(s, sym, up, rep)
           IN  IF ~up /\ sym[1] = "spec" /\ sym[2] = "do_null" THEN Recompte(s, t)
               ELSE IF ~up /\ sym[1] = "ascii" THEN ChiffrePilote(s, t) ELSE Neutre(s, t)
<1> DEFINE t == key_handler(s, sym, up, rep)
<1>1. CASE up
  <2>1. t = s
    BY <1>1 DEF key_handler, Sortes
  <2> QED
    BY <1>1, <2>1, RienNeutre
<1>2. CASE ~up /\ sym[1] \in {"latin", "letter"}
  <2>1. t = put_queue(s, "car", sym[2])
    BY <1>2 DEF key_handler
  <2> QED
    BY <1>2, <2>1, PutNeutre
<1>3. CASE ~up /\ sym[1] = "meta"
  <2> DEFINE u == put_queue(s, "car", "ESC")
  <2>1. t = put_queue(u, "car", sym[2])
    BY <1>3 DEF key_handler
  <2>2. Neutre(s, u)
    BY PutNeutre
  <2> HIDE DEF u
  <2>3. Neutre(u, put_queue(u, "car", sym[2]))
    BY <2>2, PutNeutre DEF Neutre, Garde
  <2> QED
    BY <1>3, <2>1, <2>2, <2>3, NeutreNeutre
<1>4. CASE ~up /\ sym[1] = "ascii"
  <2>1. t = do_ascii(s, sym[2])
    BY <1>4 DEF key_handler
  <2> QED
    BY <1>4, <2>1, ChiffreEffet
<1>5. CASE ~up /\ sym[1] = "fn"
  <2>1. t = do_fn(s, sym[2])
    BY <1>5 DEF key_handler
  <2> QED
    BY <1>5, <2>1, FnNeutre
<1>6. CASE ~up /\ sym[1] = "pad"
  <2>1. t = do_pad(s, sym[2])
    BY <1>6 DEF key_handler
  <2> QED
    BY <1>6, <2>1, FnNeutre, PutNeutre DEF do_pad
<1>7. CASE ~up /\ sym[1] = "cur"
  <2>1. t = put_queue(s, "ESC[", sym[2])
    BY <1>7 DEF key_handler, applkey
  <2> QED
    BY <1>7, <2>1, PutNeutre
<1>8. CASE ~up /\ sym[1] = "spec"
  <2>1. t = do_spec(s, sym[2], rep)
    BY <1>8 DEF key_handler
  <2> QED
    BY <1>8, <2>1, SpecEffet
<1>9. CASE ~up /\ sym[1] = "cons"
  <2>1. t = s
    BY <1>9 DEF key_handler
  <2> QED
    BY <1>9, <2>1, RienNeutre
<1> QED
  BY <1>1, <1>2, <1>3, <1>4, <1>5, <1>6, <1>7, <1>8, <1>9 DEF Sortes

\* The modifier of a key, and the effect of any keycode.
ModifDe(k) == Commun(k)[2]

LEMMA ToucheModif ==
    ASSUME NEW s, s.shift_state \in CartesDefinies, NEW k \in Modificatrices,
           NEW up \in BOOLEAN, NEW rep \in BOOLEAN
    PROVE  Touche(s, k, up, rep) = do_shift(s, ModifDe(k), up, rep)
<1> DEFINE sym == key_map(s.shift_state, k)
<1>1. sym[1] = "shift" /\ sym[2] = ModifDe(k)
  BY CarteModif DEF ModifDe
<1> HIDE DEF sym
<1>2. key_handler(s, sym, up, rep) = do_shift(s, ModifDe(k), up, rep)
  BY <1>1 DEF key_handler
<1> QED
  BY <1>1, <1>2 DEF Touche, sym

LEMMA ToucheAutre ==
    ASSUME NEW s, DOMAIN s = ChampsPilote, s.shift_state \in CartesDefinies,
           NEW k \in Int, k \notin Modificatrices, NEW up \in BOOLEAN, NEW rep \in BOOLEAN
    PROVE  LET t == Touche(s, k, up, rep)
           IN  \/ ~up /\ Recompte(s, t)
               \/ /\ ~up /\ k \in {69, 79} /\ s.shift_state # {} /\ ChiffrePilote(s, t)
                  /\ key_map(s.shift_state, k) # <<"spec", "do_null">>
               \/ /\ Neutre(s, t)
                  /\ ~(~up /\ key_map(s.shift_state, k) = <<"spec", "do_null">>)
<1> DEFINE mods == s.shift_state
           sym == key_map(mods, k)
           t == Touche(s, k, up, rep)
<1>1. sym[1] \in Sortes \ {"shift"}
  BY SorteDeTouche, CarteAutres
<1>2. sym[1] = "ascii" => k \in {69, 79} /\ mods # {} /\ sym[2] \in {1, 11, 20}
  BY CarteChiffres
<1>3. CASE sym[1] = "letter"
  <2>1. PICK c : t = key_handler(s, <<"latin", c>>, up, rep)
    BY <1>3 DEF Touche
  <2> DEFINE y == <<"latin", c>>
  <2>2. y[1] = "latin" /\ "latin" \in Sortes \ {"shift"}
    BY DEF Sortes
  <2> HIDE DEF y
  <2>3. Neutre(s, key_handler(s, y, up, rep))
    BY <2>2, HandlerEffet
  <2>4. sym # <<"spec", "do_null">>
    BY <1>3
  <2> QED
    BY <2>1, <2>3, <2>4 DEF y
<1>4. CASE sym[1] # "letter"
  <2>1. t = key_handler(s, sym, up, rep)
    BY <1>4 DEF Touche
  <2> HIDE DEF sym, t
  <2>2. IF ~up /\ sym[1] = "spec" /\ sym[2] = "do_null" THEN Recompte(s, t)
        ELSE IF ~up /\ sym[1] = "ascii" THEN ChiffrePilote(s, t) ELSE Neutre(s, t)
    BY <1>1, <1>2, <2>1, HandlerEffet
  <2>3. sym = <<"spec", "do_null">> => sym[1] = "spec" /\ sym[2] = "do_null"
    OBVIOUS
  <2>4. \/ ~up /\ Recompte(s, t)
        \/ /\ ~up /\ k \in {69, 79} /\ mods # {} /\ ChiffrePilote(s, t)
           /\ sym # <<"spec", "do_null">>
        \/ Neutre(s, t) /\ ~(~up /\ sym = <<"spec", "do_null">>)
    BY <1>2, <2>2, <2>3
  <2> QED
    BY <2>4 DEF sym, t
<1> QED
  BY <1>3, <1>4

LEMMA ToucheSansCarte ==
    ASSUME NEW s, DOMAIN s = ChampsPilote, s.shift_state \notin CartesDefinies,
           NEW k, NEW up, NEW rep
    PROVE  Recompte(s, Touche(s, k, up, rep))
BY DEF Touche, compute_shiftstate, Recompte, Garde, ChampsPilote

\* How many keys of a modifier are in a set of keys.

Nb(D, m) == Cardinality(DuModificateur(D, m))

CompteJuste(D, k, m) ==
    /\ Nb(D, m) \in Nat /\ Nb(TouchesClavier, m) \in Nat /\ Nb(D, m) <= Nb(TouchesClavier, m)
    /\ Nb(D, m) > 0 <=> DuModificateur(D, m) # {}
    /\ Nb(D \cup {k}, m) = IF EstModif(k, m) /\ k \notin D THEN Nb(D, m) + 1 ELSE Nb(D, m)
    /\ Nb(D \ {k}, m) = IF EstModif(k, m) /\ k \in D THEN Nb(D, m) - 1 ELSE Nb(D, m)

LEMMA Comptes ==
    ASSUME NEW D \in SUBSET TouchesClavier, NEW k, NEW m
    PROVE  CompteJuste(D, k, m)
<1> DEFINE E == DuModificateur(D, m)
           T == DuModificateur(TouchesClavier, m)
<1>1. IsFiniteSet(T) /\ E \in SUBSET T
  <2>1. TouchesClavier \subseteq 1 .. 127
    BY Touches
  <2>2. IsFiniteSet(1 .. 127)
    <3> DEFINE un == 1
               n == 127
    <3>1. un \in Int /\ n \in Int
      OBVIOUS
    <3> HIDE DEF un, n
    <3>2. IsFiniteSet(un .. n)
      BY <3>1, FS_Interval
    <3> QED
      BY <3>2 DEF un, n
  <2>3. IsFiniteSet(TouchesClavier)
    BY <2>1, <2>2, FS_Subset
  <2>4. T \in SUBSET TouchesClavier /\ E \in SUBSET T
    BY DEF DuModificateur
  <2> QED
    BY <2>3, <2>4, FS_Subset
<1>2. IsFiniteSet(E) /\ Cardinality(E) <= Cardinality(T)
  BY <1>1, FS_Subset
<1>3. Cardinality(E) \in Nat /\ Cardinality(T) \in Nat
  BY <1>1, <1>2, FS_CardinalityType
<1>4. Cardinality(E) > 0 <=> E # {}
  BY <1>2, <1>3, FS_EmptySet
<1>5. ASSUME ~EstModif(k, m)
      PROVE  DuModificateur(D \cup {k}, m) = E /\ DuModificateur(D \ {k}, m) = E
  BY <1>5 DEF DuModificateur, EstModif
<1>6. ASSUME EstModif(k, m)
      PROVE  /\ DuModificateur(D \cup {k}, m) = E \cup {k}
             /\ DuModificateur(D \ {k}, m) = E \ {k}
             /\ k \in D <=> k \in E
  BY <1>6 DEF DuModificateur, EstModif
<1> HIDE DEF E, T
<1>7. /\ Cardinality(E \cup {k}) = IF k \in E THEN Cardinality(E) ELSE Cardinality(E) + 1
      /\ Cardinality(E \ {k}) = IF k \in E THEN Cardinality(E) - 1 ELSE Cardinality(E)
      /\ Cardinality(E \cup {k}) \in Nat /\ Cardinality(E \ {k}) \in Nat
  BY <1>2, FS_AddElement, FS_RemoveElement, FS_CardinalityType
<1> QED
  BY <1>2, <1>3, <1>4, <1>5, <1>6, <1>7 DEF E, T, Nb, CompteJuste

\* The driver between two keycodes.

FormePilote(s) ==
    /\ DOMAIN s = ChampsPilote /\ DOMAIN s.k_down = Mods
    /\ \A m \in Mods : s.k_down[m] \in Nat
    /\ s.shift_state = {m \in Mods : s.k_down[m] > 0}
    /\ s.flags \subseteq Voyants /\ s.npadch \in Int /\ s.npadch >= -1

\* The counts are those of the keys of D.
Exact(s, D) == \A m \in Mods : s.k_down[m] = Nb(D, m)

Pendant(s) == s.npadch # -1 => s.shift_state # {}

\* What the counts can still be, when the keys of J are those held since before
\* the boot that have not been released.
Borne(s, D, J) == \A m \in Mods : s.k_down[m] + Nb(J, m) <= Nb(D, m) + Nb(TouchesClavier, m)

\* s1 is s with the keycode k in key_down, or out of it.
Note(s, s1, k, bas) ==
    /\ DOMAIN s1 = ChampsPilote /\ s1.k_down = s.k_down /\ s1.shift_state = s.shift_state
    /\ s1.flags = s.flags /\ s1.npadch = s.npadch
    /\ s1.key_down = IF bas THEN s.key_down \cup {k} ELSE s.key_down \ {k}

Leves(s, k, bas) == ~bas /\ (k \in s.key_down \/ RelacheAdmis(k))
RepetePilote(s, k, bas) == bas /\ k \in s.key_down

\* The cases of a keycode.
Cas1(s1, t) == s1.shift_state \notin CartesDefinies /\ Recompte(s1, t)
Cas2(s, s1, t, k, bas) ==
    /\ k \in Modificatrices
    /\ IF RepetePilote(s, k, bas) THEN t = s1
       ELSE IF Leves(s, k, bas) THEN Leve(s1, t, ModifDe(k)) ELSE Enfonce(s1, t, ModifDe(k))
Cas3(s, s1, t, k, bas) ==
    /\ k \notin Modificatrices
    /\ \/ Recompte(s1, t)
       \/ /\ ~Leves(s, k, bas) /\ k \in {69, 79} /\ s1.shift_state # {} /\ ChiffrePilote(s1, t)
          /\ key_map(s1.shift_state, k) # <<"spec", "do_null">>
       \/ /\ Neutre(s1, t)
          /\ ~(~Leves(s, k, bas) /\ key_map(s1.shift_state, k) = <<"spec", "do_null">>)

LEMMA TroisCas ==
    ASSUME NEW s, FormePilote(s), NEW k \in TouchesClavier, NEW bas \in BOOLEAN,
           NEW s1, Note(s, s1, k, bas),
           NEW t, t = Touche(s1, k, Leves(s, k, bas), RepetePilote(s, k, bas))
    PROVE  \/ Cas1(s1, t)
           \/ s1.shift_state \in CartesDefinies /\ Cas2(s, s1, t, k, bas)
           \/ s1.shift_state \in CartesDefinies /\ Cas3(s, s1, t, k, bas)
<1> DEFINE up == Leves(s, k, bas)
           rep == RepetePilote(s, k, bas)
<1>1. up \in BOOLEAN /\ rep \in BOOLEAN /\ k \in Int
  BY Touches DEF Leves, RepetePilote
<1>2. DOMAIN s1 = ChampsPilote /\ DOMAIN s1.k_down = Mods
  BY DEF Note, FormePilote
<1>3. CASE s1.shift_state \notin CartesDefinies
  BY <1>2, <1>3, ToucheSansCarte DEF Cas1
<1>4. CASE s1.shift_state \in CartesDefinies /\ k \in Modificatrices
  <2>1. ModifDe(k) \in Mods
    BY <1>4, CarteModif DEF ModifDe
  <2> HIDE DEF up, rep
  <2>2. t = do_shift(s1, ModifDe(k), up, rep)
    BY <1>1, <1>4, ToucheModif DEF up, rep
  <2>3. IF rep THEN t = s1
        ELSE IF up THEN Leve(s1, t, ModifDe(k)) ELSE Enfonce(s1, t, ModifDe(k))
    BY <1>1, <1>2, <2>1, <2>2, ShiftEffet
  <2> QED
    BY <1>4, <2>3 DEF up, rep, Cas2
<1>5. CASE s1.shift_state \in CartesDefinies /\ k \notin Modificatrices
  <2> HIDE DEF up, rep
  <2>1. t = Touche(s1, k, up, rep)
    BY DEF up, rep
  <2>2. \/ ~up /\ Recompte(s1, t)
        \/ /\ ~up /\ k \in {69, 79} /\ s1.shift_state # {} /\ ChiffrePilote(s1, t)
           /\ key_map(s1.shift_state, k) # <<"spec", "do_null">>
        \/ /\ Neutre(s1, t)
           /\ ~(~up /\ key_map(s1.shift_state, k) = <<"spec", "do_null">>)
    BY <1>1, <1>2, <1>5, <2>1, ToucheAutre
  <2> QED
    BY <1>5, <2>2 DEF up, Cas3
<1> QED
  BY <1>3, <1>4, <1>5

LEMMA ModifDeTouche ==
    ASSUME NEW k \in Int
    PROVE  /\ k \in Modificatrices => /\ ModifDe(k) \in Mods
                                      /\ \A m : EstModif(k, m) <=> m = ModifDe(k)
           /\ k \notin Modificatrices => \A m : ~EstModif(k, m)
<1>1. ASSUME k \in Modificatrices
      PROVE  ModifDe(k) \in Mods /\ \A m : EstModif(k, m) <=> m = ModifDe(k)
  BY <1>1, CarteModif DEF ModifDe, EstModif
<1>2. ASSUME k \notin Modificatrices, NEW m PROVE ~EstModif(k, m)
  <2>1. key_map({}, k)[1] # "shift"
    BY <1>2, CarteAutres
  <2> QED
    BY <2>1 DEF EstModif
<1> QED
  BY <1>1, <1>2

\* A count goes up and down with the keys of its modifier.
LEMMA EtapeForme ==
    ASSUME NEW s, FormePilote(s), s.key_down \subseteq TouchesClavier, NEW k \in TouchesClavier,
           NEW bas \in BOOLEAN, NEW s1, Note(s, s1, k, bas),
           NEW t, t = Touche(s1, k, Leves(s, k, bas), RepetePilote(s, k, bas))
    PROVE  FormePilote(t) /\ t.prev = s1.prev /\ t.key_down = s1.key_down
<1> DEFINE m == ModifDe(k)
<1>0. k \in Int /\ s1.key_down \subseteq TouchesClavier
  BY Touches DEF Note
<1>1. ASSUME Recompte(s1, t)
      PROVE  FormePilote(t) /\ t.prev = s1.prev /\ t.key_down = s1.key_down
  <2>1. \A x \in Mods : t.k_down[x] \in Nat
                        /\ (t.k_down[x] > 0 <=> DuModificateur(s1.key_down, x) # {})
    <3> DEFINE D == s1.key_down
    <3>1. t.k_down = [x \in Mods |-> Nb(D, x)]
      BY <1>1 DEF Recompte, Nb
    <3>2. D \in SUBSET TouchesClavier
      BY <1>0
    <3> HIDE DEF D
    <3>3. \A x \in Mods : CompteJuste(D, k, x)
      BY <3>2, Comptes
    <3>4. \A x \in Mods : t.k_down[x] = Nb(D, x)
      BY <3>1
    <3>5. \A x \in Mods : t.k_down[x] \in Nat
                          /\ (t.k_down[x] > 0 <=> DuModificateur(D, x) # {})
      BY <3>3, <3>4 DEF CompteJuste
    <3> QED
      BY <3>5 DEF D
  <2> QED
    BY <1>1, <2>1 DEF Recompte, Garde, FormePilote, Note
<1>2. CASE Cas2(s, s1, t, k, bas)
  <2>1. m \in Mods
    BY <1>0, <1>2, ModifDeTouche DEF Cas2
  <2> HIDE DEF m
  <2>2. CASE t = s1
    BY <2>2 DEF FormePilote, Note
  <2>3. CASE Leve(s1, t, m)
    BY <2>1, <2>3 DEF Leve, Garde, FormePilote, Note
  <2>4. CASE Enfonce(s1, t, m)
    BY <2>1, <2>4 DEF Enfonce, Garde, FormePilote, Note
  <2> QED
    BY <1>2, <2>2, <2>3, <2>4 DEF Cas2, m
<1>3. CASE ChiffrePilote(s1, t)
  <2>1. PICK base \in {10, 16}, x \in 0 .. 10 :
          t.npadch = IF s1.npadch = -1 THEN x ELSE s1.npadch * base + x
    BY <1>3 DEF ChiffrePilote
  <2>2. t.npadch \in Int /\ t.npadch >= -1
    BY <2>1 DEF FormePilote, Note
  <2> QED
    BY <1>3, <2>2 DEF ChiffrePilote, Garde, FormePilote, Note
<1>4. CASE Neutre(s1, t)
  BY <1>4 DEF Neutre, Garde, FormePilote, Note
<1> QED
  BY <1>1, <1>2, <1>3, <1>4, TroisCas DEF Cas1, Cas3

\* A keycode is pressed or released once the driver has it in key_down.
Etape(s, s1, t, k, bas) ==
    /\ FormePilote(s) /\ s.key_down \subseteq TouchesClavier /\ k \in TouchesClavier
    /\ bas \in BOOLEAN /\ Note(s, s1, k, bas)
    /\ t = Touche(s1, k, Leves(s, k, bas), RepetePilote(s, k, bas))

AvanceCompte(s, s1, k, bas, m) ==
    /\ Nb(s.key_down, m) \in Nat /\ Nb(s1.key_down, m) \in Nat /\ Nb(TouchesClavier, m) \in Nat
    /\ Nb(s.key_down, m) <= Nb(TouchesClavier, m) /\ Nb(s1.key_down, m) <= Nb(TouchesClavier, m)
    /\ Nb(s1.key_down, m) > 0 <=> DuModificateur(s1.key_down, m) # {}
    /\ ~EstModif(k, m) => Nb(s1.key_down, m) = Nb(s.key_down, m)
    /\ bas /\ k \in s.key_down => Nb(s1.key_down, m) = Nb(s.key_down, m)
    /\ ~bas /\ k \notin s.key_down => Nb(s1.key_down, m) = Nb(s.key_down, m)
    /\ EstModif(k, m) /\ bas /\ k \notin s.key_down =>
         Nb(s1.key_down, m) = Nb(s.key_down, m) + 1
    /\ EstModif(k, m) /\ ~bas /\ k \in s.key_down =>
         Nb(s1.key_down, m) = Nb(s.key_down, m) - 1

LEMMA EtapeComptes ==
    ASSUME NEW s, NEW s1, NEW t, NEW k, NEW bas, Etape(s, s1, t, k, bas), NEW m
    PROVE  AvanceCompte(s, s1, k, bas, m)
<1> DEFINE D == s.key_down
           D1 == s1.key_down
<1>1. D \in SUBSET TouchesClavier /\ k \in TouchesClavier /\ bas \in BOOLEAN
  BY DEF Etape
<1>2. D1 = IF bas THEN D \cup {k} ELSE D \ {k}
  BY DEF Etape, Note
<1>3. D1 \in SUBSET TouchesClavier
  BY <1>1, <1>2
<1> HIDE DEF D, D1
<1>4. CompteJuste(D, k, m) /\ CompteJuste(D1, k, m)
  BY <1>1, <1>3, Comptes
<1> DEFINE c == Nb(D, m)
           c1 == Nb(D1, m)
           n == Nb(TouchesClavier, m)
<1>5. /\ c \in Nat /\ c1 \in Nat /\ n \in Nat /\ c <= n /\ c1 <= n
      /\ c1 > 0 <=> DuModificateur(D1, m) # {}
  BY <1>4 DEF CompteJuste
<1>6. CASE bas
  <2>1. c1 = IF EstModif(k, m) /\ k \notin D THEN c + 1 ELSE c
    BY <1>2, <1>4, <1>6 DEF CompteJuste
  <2> QED
    BY <1>5, <1>6, <2>1 DEF AvanceCompte, D, D1
<1>7. CASE ~bas
  <2>1. c1 = IF EstModif(k, m) /\ k \in D THEN c - 1 ELSE c
    BY <1>2, <1>4, <1>7 DEF CompteJuste
  <2> QED
    BY <1>5, <1>7, <2>1 DEF AvanceCompte, D, D1
<1> QED
  BY <1>6, <1>7

\* The recomputed counts are exact.
LEMMA RecompteExact ==
    ASSUME NEW s1, NEW t, Recompte(s1, t) PROVE Exact(t, t.key_down)
BY DEF Recompte, Garde, Exact, Nb

\* A key that was seen pressed, or that is pressed, leaves exact counts exact.
LEMMA ExactReste ==
    ASSUME NEW s, NEW s1, NEW t, NEW k, NEW bas, Etape(s, s1, t, k, bas),
           Exact(s, s.key_down), bas \/ k \in s.key_down
    PROVE  Exact(t, t.key_down)
<1>0. t.key_down = s1.key_down /\ FormePilote(s) /\ k \in Int /\ Note(s, s1, k, bas)
  BY EtapeForme, Touches DEF Etape
<1>1. ASSUME Recompte(s1, t) PROVE Exact(t, t.key_down)
  BY <1>1, RecompteExact
<1>2. ASSUME k \notin Modificatrices, t.k_down = s1.k_down, NEW m \in Mods
      PROVE  t.k_down[m] = Nb(s1.key_down, m)
  <2>1. ~EstModif(k, m)
    BY <1>0, <1>2, ModifDeTouche
  <2>2. AvanceCompte(s, s1, k, bas, m)
    BY EtapeComptes
  <2>3. Nb(s1.key_down, m) = Nb(s.key_down, m)
    BY <2>1, <2>2 DEF AvanceCompte
  <2> QED
    BY <1>0, <1>2, <2>3 DEF Note, Exact
<1>3. ASSUME Cas2(s, s1, t, k, bas), NEW m \in Mods PROVE t.k_down[m] = Nb(s1.key_down, m)
  <2> DEFINE x == ModifDe(k)
             c == Nb(s.key_down, m)
             c1 == Nb(s1.key_down, m)
  <2>1. k \in Modificatrices /\ x \in Mods /\ (EstModif(k, m) <=> m = x)
    BY <1>0, <1>3, ModifDeTouche DEF Cas2
  <2>0. AvanceCompte(s, s1, k, bas, m)
    BY EtapeComptes
  <2>2. /\ c \in Nat /\ c1 \in Nat /\ s.k_down[m] = c /\ s1.k_down[m] = c
        /\ ~EstModif(k, m) => c1 = c
        /\ bas /\ k \in s.key_down => c1 = c
        /\ EstModif(k, m) /\ bas /\ k \notin s.key_down => c1 = c + 1
        /\ EstModif(k, m) /\ ~bas /\ k \in s.key_down => c1 = c - 1
    BY <1>0, <2>0 DEF AvanceCompte, Exact, Note
  <2>3. DOMAIN s1.k_down = Mods /\ s1.k_down = s.k_down
    BY <1>0 DEF Note, FormePilote
  <2> HIDE DEF x, c, c1
  <2>4. CASE bas /\ k \in s.key_down
    <3>1. t = s1
      BY <1>3, <2>4 DEF Cas2, RepetePilote
    <3> QED
      BY <2>2, <2>4, <3>1 DEF c1
  <2>5. CASE bas /\ k \notin s.key_down
    <3>1. Enfonce(s1, t, x)
      BY <1>3, <2>5 DEF Cas2, RepetePilote, Leves, x
    <3>2. t.k_down[m] = IF m = x THEN c + 1 ELSE c
      BY <2>1, <2>2, <2>3, <3>1 DEF Enfonce
    <3> QED
      BY <2>1, <2>2, <2>5, <3>2 DEF c1
  <2>6. CASE ~bas /\ k \in s.key_down
    <3>1. Leve(s1, t, x)
      BY <1>3, <2>6 DEF Cas2, RepetePilote, Leves, x
    <3>2. t.k_down[m] = IF m = x THEN IF c > 0 THEN c - 1 ELSE 0 ELSE c
      BY <2>1, <2>2, <2>3, <3>1 DEF Leve
    <3>3. m = x => c - 1 \in Nat
      BY <2>1, <2>2, <2>6
    <3> QED
      BY <2>1, <2>2, <2>6, <3>2, <3>3 DEF c1
  <2> QED
    BY <2>4, <2>5, <2>6
<1>4. ASSUME Cas3(s, s1, t, k, bas) PROVE Recompte(s1, t) \/ t.k_down = s1.k_down
  BY <1>4 DEF Cas3, Neutre, ChiffrePilote
<1>5. Cas1(s1, t) \/ Cas2(s, s1, t, k, bas) \/ Cas3(s, s1, t, k, bas)
  BY TroisCas DEF Etape
<1> QED
  BY <1>0, <1>1, <1>2, <1>3, <1>4, <1>5 DEF Exact, Cas1, Cas3

\* When the driver recomputes, the counts become exact.
LEMMA ExactRecompte ==
    ASSUME NEW s, NEW s1, NEW t, NEW k, NEW bas, Etape(s, s1, t, k, bas),
           \/ s.shift_state \notin CartesDefinies
           \/ /\ key_map(s.shift_state, k) = <<"spec", "do_null">>
              /\ bas \/ (k \notin s.key_down /\ ~RelacheAdmis(k))
    PROVE  Exact(t, t.key_down)
<1>0. s1.shift_state = s.shift_state /\ k \in Int
  BY Touches DEF Etape, Note
<1>1. Cas1(s1, t) \/ (s1.shift_state \in CartesDefinies /\ Cas2(s, s1, t, k, bas))
      \/ (s1.shift_state \in CartesDefinies /\ Cas3(s, s1, t, k, bas))
  BY TroisCas DEF Etape
<1>2. CASE Cas1(s1, t)
  BY <1>2, RecompteExact DEF Cas1
<1>3. ASSUME s1.shift_state \in CartesDefinies, k \in Modificatrices PROVE FALSE
  <2>1. key_map(s.shift_state, k) = <<"shift", Commun(k)[2]>>
    BY <1>3, CarteModif
  <2> QED
    BY <1>0, <1>3, <2>1
<1>4. CASE s1.shift_state \in CartesDefinies /\ Cas3(s, s1, t, k, bas)
  <2>1. ~Leves(s, k, bas) /\ key_map(s1.shift_state, k) = <<"spec", "do_null">>
    BY <1>0, <1>4 DEF Leves
  <2> QED
    BY <1>4, <2>1, RecompteExact DEF Cas3
<1> QED
  BY <1>1, <1>2, <1>3, <1>4 DEF Cas2

LEMMA SansCarte ==
    ASSUME NEW M \in SUBSET Mods, M \notin CartesDefinies, NEW x
    PROVE  \E m \in M : m # x
<1>1. SUFFICES ASSUME \A m \in M : m = x PROVE FALSE
  OBVIOUS
<1>2. M = {} \/ \E y \in Mods : M = {y}
  BY <1>1
<1> QED
  BY <1>2 DEF CartesDefinies, Mods

\* While a number is pending some modifier stays.
LEMMA PendantReste ==
    ASSUME NEW s, NEW s1, NEW t, NEW k, NEW bas, Etape(s, s1, t, k, bas),
           Exact(s, s.key_down), bas \/ k \in s.key_down, Pendant(s)
    PROVE  Pendant(t)
<1>0. /\ FormePilote(s) /\ FormePilote(t) /\ k \in Int /\ Note(s, s1, k, bas)
      /\ t.key_down = s1.key_down
  BY EtapeForme, Touches DEF Etape
<1>1. ASSUME Cas1(s1, t), t.npadch # -1 PROVE t.shift_state # {}
  <2>1. s.shift_state \in SUBSET Mods /\ s.shift_state \notin CartesDefinies
    BY <1>0, <1>1 DEF FormePilote, Cas1, Note
  <2>2. PICK m \in s.shift_state : m # ModifDe(k)
    <3> DEFINE M == s.shift_state
               x == ModifDe(k)
    <3>1. M \in SUBSET Mods /\ M \notin CartesDefinies
      BY <2>1
    <3> HIDE DEF M, x
    <3>2. \E m \in M : m # x
      BY <3>1, SansCarte
    <3> QED
      BY <3>2 DEF M, x
  <2>3. m \in Mods /\ ~EstModif(k, m)
    BY <1>0, <2>1, <2>2, ModifDeTouche
  <2>4. AvanceCompte(s, s1, k, bas, m)
    BY EtapeComptes
  <2>5. DuModificateur(s1.key_down, m) # {}
    BY <1>0, <2>2, <2>3, <2>4 DEF AvanceCompte, Exact, FormePilote
  <2> QED
    BY <1>1, <2>3, <2>5 DEF Cas1, Recompte
<1>2. ASSUME Cas2(s, s1, t, k, bas) PROVE Pendant(t)
  <2>1. CASE t = s1
    BY <1>0, <2>1 DEF Pendant, Note
  <2>2. CASE Leve(s1, t, ModifDe(k))
    BY <1>0, <2>2 DEF Leve, Pendant, Note
  <2>3. CASE Enfonce(s1, t, ModifDe(k))
    <3>1. ModifDe(k) \in Mods /\ s1.k_down = s.k_down
      BY <1>0, <1>2, ModifDeTouche DEF Cas2, Note
    <3>2. s1.k_down[ModifDe(k)] + 1 > 0
      BY <1>0, <3>1 DEF FormePilote
    <3> QED
      BY <2>3, <3>2 DEF Enfonce, Pendant
  <2> QED
    BY <1>2, <2>1, <2>2, <2>3 DEF Cas2
<1>3. ASSUME Cas3(s, s1, t, k, bas) PROVE Pendant(t)
  <2>1. CASE Recompte(s1, t)
    <3>1. \A m \in Mods : DuModificateur(s1.key_down, m) # {} <=> s.k_down[m] > 0
      <4> TAKE m \in Mods
      <4>1. ~EstModif(k, m)
        BY <1>0, <1>3, ModifDeTouche DEF Cas3
      <4>2. AvanceCompte(s, s1, k, bas, m)
        BY EtapeComptes
      <4> QED
        BY <4>1, <4>2 DEF AvanceCompte, Exact
    <3>2. t.shift_state = s.shift_state /\ t.npadch = s.npadch
      BY <1>0, <2>1, <3>1 DEF Recompte, FormePilote, Note
    <3> QED
      BY <3>2 DEF Pendant
  <2>2. CASE s1.shift_state # {} /\ ChiffrePilote(s1, t)
    BY <2>2 DEF ChiffrePilote, Pendant
  <2>3. CASE Neutre(s1, t)
    BY <1>0, <2>3 DEF Neutre, Pendant, Note
  <2> QED
    BY <1>3, <2>1, <2>2, <2>3 DEF Cas3
<1>5. Cas1(s1, t) \/ Cas2(s, s1, t, k, bas) \/ Cas3(s, s1, t, k, bas)
  BY TroisCas DEF Etape
<1> QED
  BY <1>1, <1>2, <1>3, <1>5 DEF Pendant

\* The number stays below the bound.
LEMMA NombreBorne ==
    ASSUME NEW s, NEW s1, NEW t, NEW k, NEW bas, Etape(s, s1, t, k, bas),
           s.npadch \in -1 .. 16 * NpadMax + 20,
           bas /\ k \in {69, 79} => s.npadch <= NpadMax
    PROVE  t.npadch \in -1 .. 16 * NpadMax + 20
<1>0. Note(s, s1, k, bas) /\ s1.npadch = s.npadch /\ NpadMax \in Nat
  BY PiloteAssumption DEF Etape, Note
<1>1. ASSUME ~Leves(s, k, bas), k \in {69, 79}, ChiffrePilote(s1, t)
      PROVE  t.npadch \in -1 .. 16 * NpadMax + 20
  <2>1. bas \in BOOLEAN /\ bas
    BY <1>1 DEF Leves, RelacheAdmis, Etape
  <2>2. PICK base \in {10, 16}, x \in 0 .. 10 :
          t.npadch = IF s1.npadch = -1 THEN x ELSE s1.npadch * base + x
    BY <1>1 DEF ChiffrePilote
  <2> DEFINE n == s.npadch
  <2>3. n \in Int /\ n >= -1 /\ n <= NpadMax
    BY <1>1, <2>1
  <2> HIDE DEF n
  <2>4. CASE n = -1
    <3>1. t.npadch = x
      BY <1>0, <2>2, <2>4 DEF n
    <3> QED
      BY <1>0, <3>1
  <2>5. CASE n # -1 /\ base = 10
    <3>1. t.npadch = n * 10 + x
      BY <1>0, <2>2, <2>5 DEF n
    <3> QED
      BY <1>0, <2>3, <2>5, <3>1
  <2>6. CASE n # -1 /\ base = 16
    <3>1. t.npadch = n * 16 + x
      BY <1>0, <2>2, <2>6 DEF n
    <3> QED
      BY <1>0, <2>3, <2>6, <3>1
  <2> QED
    BY <2>2, <2>4, <2>5, <2>6
<1>2. ASSUME t.npadch = s1.npadch \/ t.npadch = -1
      PROVE  t.npadch \in -1 .. 16 * NpadMax + 20
  BY <1>0, <1>2
<1>3. Cas1(s1, t) \/ Cas2(s, s1, t, k, bas) \/ Cas3(s, s1, t, k, bas)
  BY TroisCas DEF Etape
<1>4. Recompte(s1, t) \/ Neutre(s1, t) \/ t = s1 => t.npadch = s1.npadch
  BY DEF Recompte, Neutre
<1>5. \A m : (Enfonce(s1, t, m) => t.npadch = s1.npadch)
             /\ (Leve(s1, t, m) => t.npadch = s1.npadch \/ t.npadch = -1)
  BY DEF Leve, Enfonce
<1> QED
  BY <1>1, <1>2, <1>3, <1>4, <1>5 DEF Cas1, Cas2, Cas3

LEMMA BorneReste ==
    ASSUME NEW s, NEW s1, NEW t, NEW k, NEW bas, Etape(s, s1, t, k, bas),
           NEW J \in SUBSET TouchesClavier, Borne(s, s.key_down, J),
           bas \/ k \in s.key_down \/ k \in J
    PROVE  Borne(t, t.key_down, J \ {k})
<1>0. /\ FormePilote(s) /\ k \in Int /\ k \in TouchesClavier /\ Note(s, s1, k, bas)
      /\ t.key_down = s1.key_down
  BY EtapeForme, Touches DEF Etape
<1> SUFFICES ASSUME NEW m \in Mods
             PROVE  t.k_down[m] + Nb(J \ {k}, m) <= Nb(s1.key_down, m) + Nb(TouchesClavier, m)
  BY <1>0 DEF Borne
<1> DEFINE x == ModifDe(k)
           n == s.k_down[m]
           c == Nb(s.key_down, m)
           c1 == Nb(s1.key_down, m)
           T == Nb(TouchesClavier, m)
           j == Nb(J, m)
           j1 == Nb(J \ {k}, m)
<1>1. /\ n \in Nat /\ n + j <= c + T /\ s1.k_down[m] = n /\ DOMAIN s1.k_down = Mods
  BY <1>0 DEF FormePilote, Borne, Note
<1>2. AvanceCompte(s, s1, k, bas, m) /\ CompteJuste(J, k, m)
  BY <1>0, EtapeComptes, Comptes
<1>3. /\ c \in Nat /\ c1 \in Nat /\ T \in Nat /\ c <= T /\ c1 <= T
      /\ ~EstModif(k, m) => c1 = c
      /\ bas /\ k \in s.key_down => c1 = c
      /\ ~bas /\ k \notin s.key_down => c1 = c
      /\ EstModif(k, m) /\ bas /\ k \notin s.key_down => c1 = c + 1
      /\ EstModif(k, m) /\ ~bas /\ k \in s.key_down => c1 = c - 1
  BY <1>2 DEF AvanceCompte
<1>4. /\ j \in Nat /\ j <= T /\ j1 = IF EstModif(k, m) /\ k \in J THEN j - 1 ELSE j
  BY <1>2 DEF CompteJuste
<1>5. j1 \in Int /\ j1 <= j /\ (EstModif(k, m) /\ k \in J => j1 = j - 1)
  BY <1>4
<1> HIDE DEF x, n, c, c1, T, j, j1
<1>6. ASSUME t.k_down[m] = c1 PROVE t.k_down[m] + j1 <= c1 + T
  BY <1>3, <1>4, <1>5, <1>6
<1>7. ASSUME t.k_down[m] = n, c1 = c PROVE t.k_down[m] + j1 <= c1 + T
  BY <1>1, <1>3, <1>4, <1>5, <1>7
<1>8. ASSUME Recompte(s1, t) PROVE t.k_down[m] = c1
  BY <1>8 DEF Recompte, Nb, c1
<1>9. ASSUME Cas2(s, s1, t, k, bas) PROVE t.k_down[m] + j1 <= c1 + T
  <2>1. k \in Modificatrices /\ x \in Mods /\ (EstModif(k, m) <=> m = x)
    BY <1>0, <1>9, ModifDeTouche DEF Cas2, x
  <2>2. CASE t = s1 /\ RepetePilote(s, k, bas)
    BY <1>1, <1>3, <1>7, <2>2 DEF RepetePilote
  <2>3. CASE Leve(s1, t, x) /\ Leves(s, k, bas)
    <3>1. t.k_down[m] = IF m = x THEN IF n > 0 THEN n - 1 ELSE 0 ELSE n
      BY <1>1, <2>1, <2>3 DEF Leve
    <3>2. CASE m # x
      BY <1>3, <1>7, <2>1, <3>1, <3>2
    <3>3. CASE m = x /\ n = 0
      BY <1>3, <1>4, <1>5, <3>1, <3>3
    <3>4. CASE m = x /\ n > 0
      <4>1. c1 >= c - 1
        BY <1>3, <2>1, <2>3, <3>4 DEF Leves
      <4>2. t.k_down[m] = n - 1
        BY <3>1, <3>4
      <4> QED
        BY <1>1, <1>3, <1>4, <1>5, <4>1, <4>2
    <3> QED
      BY <1>1, <3>2, <3>3, <3>4
  <2>4. CASE Enfonce(s1, t, x) /\ ~Leves(s, k, bas) /\ ~RepetePilote(s, k, bas)
    <3>1. t.k_down[m] = IF m = x THEN n + 1 ELSE n
      BY <1>1, <2>1, <2>4 DEF Enfonce
    <3>2. CASE m # x
      BY <1>3, <1>7, <2>1, <3>1, <3>2
    <3>3. CASE m = x /\ bas
      <4>1. c1 = c + 1
        BY <1>3, <2>1, <2>4, <3>3 DEF RepetePilote
      <4>2. t.k_down[m] = n + 1
        BY <3>1, <3>3
      <4> QED
        BY <1>1, <1>3, <1>4, <1>5, <4>1, <4>2
    <3>4. CASE m = x /\ ~bas
      <4>1. k \notin s.key_down
        BY <2>4, <3>4 DEF Leves
      <4>2. c1 = c /\ j1 = j - 1
        BY <1>3, <1>5, <2>1, <3>4, <4>1
      <4>3. t.k_down[m] = n + 1
        BY <3>1, <3>4
      <4> QED
        BY <1>1, <1>3, <1>4, <1>5, <4>2, <4>3
    <3> QED
      BY <3>2, <3>3, <3>4
  <2> QED
    BY <1>9, <2>2, <2>3, <2>4 DEF Cas2, x
<1>10. ASSUME Cas3(s, s1, t, k, bas) PROVE t.k_down[m] + j1 <= c1 + T
  <2>1. c1 = c
    BY <1>0, <1>3, <1>10, ModifDeTouche DEF Cas3
  <2>2. Recompte(s1, t) \/ t.k_down = s1.k_down
    BY <1>10 DEF Cas3, Neutre, ChiffrePilote
  <2> QED
    BY <1>1, <1>6, <1>7, <1>8, <2>1, <2>2
<1>11. Cas1(s1, t) \/ Cas2(s, s1, t, k, bas) \/ Cas3(s, s1, t, k, bas)
  BY TroisCas DEF Etape
<1> QED
  BY <1>6, <1>8, <1>9, <1>10, <1>11 DEF Cas1, c1, T, j1

\* The driver after a byte.

OctetPilote(s, sc) == [handle_scancode(s, sc) EXCEPT !.init = TRUE]

Pareil(s, t) ==
    /\ DOMAIN t = ChampsPilote /\ t.key_down = s.key_down /\ t.k_down = s.k_down
    /\ t.shift_state = s.shift_state /\ t.npadch = s.npadch /\ t.flags = s.flags

NouveauRecompte(s, k, bas) ==
    \/ s.shift_state \notin CartesDefinies
    \/ /\ key_map(s.shift_state, k) = <<"spec", "do_null">>
       /\ bas \/ (k \notin s.key_down /\ ~RelacheAdmis(k))

EffetTouche(s, t, k, bas) ==
    /\ FormePilote(t)
    /\ t.key_down = IF bas THEN s.key_down \cup {k} ELSE s.key_down \ {k}
    /\ Exact(s, s.key_down) /\ (bas \/ k \in s.key_down) => Exact(t, t.key_down)
    /\ NouveauRecompte(s, k, bas) => Exact(t, t.key_down)
    /\ Exact(s, s.key_down) /\ (bas \/ k \in s.key_down) /\ Pendant(s) => Pendant(t)
    /\ /\ s.npadch \in -1 .. 16 * NpadMax + 20
       /\ bas /\ k \in {69, 79} => s.npadch <= NpadMax
       => t.npadch \in -1 .. 16 * NpadMax + 20
    /\ \A J \in SUBSET TouchesClavier :
         Borne(s, s.key_down, J) /\ (bas \/ k \in s.key_down \/ k \in J)
         => Borne(t, t.key_down, J \ {k})

LEMMA EffetPareil ==
    ASSUME NEW s, NEW t, NEW u, NEW k, NEW bas, EffetTouche(s, t, k, bas), Pareil(t, u)
    PROVE  EffetTouche(s, u, k, bas)
BY DEF EffetTouche, Pareil, FormePilote, Exact, Pendant, Borne

LEMMA EffetEtape ==
    ASSUME NEW s, NEW s1, NEW t, NEW k, NEW bas, Etape(s, s1, t, k, bas)
    PROVE  EffetTouche(s, t, k, bas)
<1>0. FormePilote(t) /\ t.key_down = s1.key_down /\ Note(s, s1, k, bas)
  BY EtapeForme DEF Etape
<1>1. FormePilote(t) /\ t.key_down = IF bas THEN s.key_down \cup {k} ELSE s.key_down \ {k}
  BY <1>0 DEF Note
<1>2. Exact(s, s.key_down) /\ (bas \/ k \in s.key_down) => Exact(t, t.key_down)
  BY ExactReste
<1>3. NouveauRecompte(s, k, bas) => Exact(t, t.key_down)
  BY ExactRecompte DEF NouveauRecompte
<1>4. Exact(s, s.key_down) /\ (bas \/ k \in s.key_down) /\ Pendant(s) => Pendant(t)
  BY PendantReste
<1>5. /\ s.npadch \in -1 .. 16 * NpadMax + 20
      /\ bas /\ k \in {69, 79} => s.npadch <= NpadMax
      => t.npadch \in -1 .. 16 * NpadMax + 20
  BY NombreBorne
<1>6. \A J \in SUBSET TouchesClavier :
        Borne(s, s.key_down, J) /\ (bas \/ k \in s.key_down \/ k \in J)
        => Borne(t, t.key_down, J \ {k})
  BY BorneReste
<1> QED
  BY <1>1, <1>2, <1>3, <1>4, <1>5, <1>6 DEF EffetTouche

LEMMA OctetSansCode ==
    ASSUME NEW s, DOMAIN s = ChampsPilote, NEW sc, Traduit(s.prev, sc).code = 0
    PROVE  Pareil(s, OctetPilote(s, sc)) /\ OctetPilote(s, sc).prev = Traduit(s.prev, sc).prev
BY DEF OctetPilote, handle_scancode, Pareil, ChampsPilote

LEMMA OctetAvecCode ==
    ASSUME NEW s, FormePilote(s), s.key_down \subseteq TouchesClavier, NEW sc \in Int,
           NEW k \in TouchesClavier, Traduit(s.prev, sc).code = k
    PROVE  /\ EffetTouche(s, OctetPilote(s, sc), k, sc < 128)
           /\ OctetPilote(s, sc).prev = Traduit(s.prev, sc).prev
<1> DEFINE bas == sc < 128
           p == Traduit(s.prev, sc).prev
           s1 == [s EXCEPT !.prev = p, !.emis = <<>>,
                    !.key_down = IF bas THEN s.key_down \cup {k} ELSE s.key_down \ {k}]
           t == Touche(s1, k, Leves(s, k, bas), RepetePilote(s, k, bas))
           u == [t EXCEPT !.init = TRUE]
<1>1. k # 0
  BY Touches
<1>2. OctetPilote(s, sc) = u
  BY <1>1 DEF OctetPilote, handle_scancode, Leves, RepetePilote
<1>3. Note(s, s1, k, bas) /\ s1.prev = p
  BY DEF Note, FormePilote, ChampsPilote
<1>4. bas \in BOOLEAN
  OBVIOUS
<1> HIDE DEF s1, bas, p, t
<1>5. Etape(s, s1, t, k, bas)
  BY <1>3, <1>4 DEF Etape, t
<1>6. EffetTouche(s, t, k, bas)
  BY <1>5, EffetEtape
<1>7. t.prev = p
  BY <1>3, <1>5, EtapeForme DEF Etape
<1>8. DOMAIN t = ChampsPilote
  BY <1>6 DEF EffetTouche, FormePilote
<1>9. Pareil(t, u) /\ u.prev = t.prev
  BY <1>8 DEF Pareil, ChampsPilote
<1> HIDE DEF u
<1>10. EffetTouche(s, u, k, bas)
  BY <1>6, <1>9, EffetPareil
<1> QED
  BY <1>2, <1>7, <1>9, <1>10 DEF bas, p

\* The line between two bytes.

EnLigne(k, haut) ==
    \/ pilote.prev = 0 /\ ligne = OctetsTouche(k, haut)
    \/ pilote.prev = 224 /\ k >= 89 /\ ligne = <<Dernier(k, haut)>>

ResteDu(J) == Borne(pilote, pilote.key_down, J)

Calme ==
    /\ ligne = <<>> /\ pilote.prev = 0 /\ pilote.key_down \subseteq touches
    /\ ResteDu(touches \ pilote.key_down)

Frappe(k) ==
    /\ k \in TouchesClavier \ {119} /\ EnLigne(k, FALSE)
    /\ k \in touches /\ pilote.key_down \subseteq touches
    /\ ResteDu((touches \ pilote.key_down) \ {k})
    /\ k \in {69, 79} => pilote.npadch <= NpadMax

Lacher(k) ==
    /\ k \in TouchesClavier \ {119} /\ EnLigne(k, TRUE)
    /\ k \notin touches /\ pilote.key_down \subseteq touches \cup {k}
    /\ ResteDu((touches \cup {k}) \ pilote.key_down)

PhasePause ==
    \/ pilote.prev = 0 /\ ligne = Pause
    \/ pilote.prev = 225 /\ ligne = <<29, 69, 225, 157, 197>>
    \/ pilote.prev = 256 /\ ligne = <<69, 225, 157, 197>>
    \/ pilote.prev = 0 /\ ligne = <<225, 157, 197>> /\ 119 \in pilote.key_down
    \/ pilote.prev = 225 /\ ligne = <<157, 197>> /\ 119 \in pilote.key_down
    \/ pilote.prev = 256 /\ ligne = <<197>> /\ 119 \in pilote.key_down

EnPause ==
    /\ 119 \in TouchesClavier /\ PhasePause
    /\ pilote.key_down \ {119} \subseteq touches
    /\ ResteDu(touches \ pilote.key_down)

FormeBanc ==
    /\ FormePilote(pilote) /\ pilote.npadch \in -1 .. 16 * NpadMax + 20
    /\ pilote.key_down \subseteq TouchesClavier
    /\ touches \in SUBSET (TouchesClavier \ {119})
    /\ ledstate \in (SUBSET Voyants) \cup {{"indefini"}}
    /\ suivi \in {"fidele", "douteux", "refait"}
    /\ suivi # "douteux" => Exact(pilote, pilote.key_down)
    /\ suivi = "fidele" => Pendant(pilote)

Phase == Calme \/ (\E k \in TouchesClavier : Frappe(k) \/ Lacher(k)) \/ EnPause

InvPilote == FormeBanc /\ Phase

LuTouche(k, bas) ==
    /\ Traduit(pilote.prev, Head(ligne)).code = k
    /\ Head(ligne) \in Int /\ (Head(ligne) < 128 <=> bas)

Lecture(k, haut) ==
    \/ /\ LuTouche(k, ~haut) /\ Traduit(pilote.prev, Head(ligne)).prev = 0
       /\ ligne # <<>> /\ Tail(ligne) = <<>>
    \/ /\ k >= 89 /\ ligne # <<>> /\ Head(ligne) = 224
       /\ Tail(ligne) = <<Dernier(k, haut)>>

LEMMA LigneTouche ==
    ASSUME NEW k \in TouchesClavier \ {119}, NEW haut \in BOOLEAN, EnLigne(k, haut)
    PROVE  Lecture(k, haut)
<1> DEFINE b == Dernier(k, haut)
<1>1. k \in Int /\ b \in Int
  <2>1. k \in Int /\ CodeDe(k) \in Int
    <3>1. CASE k < 89
      BY <3>1, Touches DEF CodeDe
    <3>2. CASE ~(k < 89)
      BY <3>2, Touches
    <3> QED
      BY <3>1, <3>2, Touches
  <2> QED
    BY <2>1 DEF Dernier
<1>2. /\ k < 89 => Traduit(0, b).code = k /\ Traduit(0, b).prev = 0
      /\ ~(k < 89) => Traduit(224, b).code = k /\ Traduit(224, b).prev = 0
      /\ b < 128 <=> ~haut
      /\ k < 89 => OctetsTouche(k, haut) = <<b>>
      /\ ~(k < 89) => OctetsTouche(k, haut) = <<224, b>>
  BY DernierOctet
<1> HIDE DEF b
<1>3. CASE pilote.prev = 0 /\ ligne = OctetsTouche(k, haut) /\ k < 89
  <2>1. ligne = <<b>>
    BY <1>2, <1>3
  <2>2. Head(ligne) = b /\ Tail(ligne) = <<>> /\ ligne # <<>>
    BY <2>1
  <2> QED
    BY <1>1, <1>2, <1>3, <2>2 DEF Lecture, LuTouche
<1>4. CASE pilote.prev = 224 /\ k >= 89 /\ ligne = <<b>>
  BY <1>1, <1>2, <1>4 DEF Lecture, LuTouche
<1>5. CASE pilote.prev = 0 /\ ligne = OctetsTouche(k, haut) /\ ~(k < 89)
  <2>1. ligne = <<224, b>> /\ k >= 89
    BY <1>1, <1>2, <1>5
  <2>2. Head(ligne) = 224 /\ Tail(ligne) = <<b>> /\ ligne # <<>>
    BY <2>1
  <2> QED
    BY <2>1, <2>2 DEF b, Lecture
<1> QED
  BY <1>3, <1>4, <1>5 DEF EnLigne, b

LEMMA LigneVide ==
    ASSUME InvPilote, ligne = <<>> PROVE Calme
<1>1. ASSUME NEW k \in TouchesClavier, Frappe(k) \/ Lacher(k) PROVE FALSE
  <2>1. PICK haut \in BOOLEAN : k \in TouchesClavier \ {119} /\ EnLigne(k, haut)
    BY <1>1 DEF Frappe, Lacher
  <2> QED
    BY <2>1, LigneTouche DEF Lecture
<1>2. ~EnPause
  BY DEF EnPause, PhasePause, Pause
<1> QED
  BY <1>1, <1>2 DEF InvPilote, Phase

LEMMA BorneMoins ==
    ASSUME NEW s, FormePilote(s), NEW D \in SUBSET TouchesClavier,
           NEW J \in SUBSET TouchesClavier, NEW k, Borne(s, D, J)
    PROVE  Borne(s, D, J \ {k})
<1> SUFFICES ASSUME NEW m \in Mods
             PROVE  s.k_down[m] + Nb(J \ {k}, m) <= Nb(D, m) + Nb(TouchesClavier, m)
  BY DEF Borne
<1>1. CompteJuste(J, k, m) /\ CompteJuste(D, k, m)
  BY Comptes
<1> DEFINE n == s.k_down[m]
           j == Nb(J, m)
           j1 == Nb(J \ {k}, m)
           c == Nb(D, m)
           T == Nb(TouchesClavier, m)
<1>2. /\ n \in Nat /\ j \in Nat /\ c \in Nat /\ T \in Nat /\ n + j <= c + T
      /\ j1 \in Int /\ j1 <= j
  BY <1>1 DEF FormePilote, Borne, CompteJuste
<1> HIDE DEF n, j, j1, c, T
<1>3. n + j1 <= c + T
  BY <1>2
<1> QED
  BY <1>3 DEF n, j1, c, T

LEMMA PilotePlein ==
    ASSUME PiloteInit PROVE InvPilote
<1>1. /\ pilote.prev = 0 /\ pilote.key_down = {} /\ pilote.k_down = [m \in Mods |-> 0]
      /\ pilote.shift_state = {} /\ pilote.npadch = -1 /\ pilote.flags = {}
      /\ DOMAIN pilote = ChampsPilote
  BY DEF PiloteInit, ChampsPilote
<1>2. FormePilote(pilote)
  BY <1>1 DEF FormePilote
<1>3. \A m \in Mods : Nb({}, m) = 0
  BY FS_EmptySet DEF Nb, DuModificateur
<1>4. Exact(pilote, pilote.key_down) /\ Pendant(pilote)
  BY <1>1, <1>3 DEF Exact, Pendant
<1>5. touches \in SUBSET (TouchesClavier \ {119})
  BY DEF PiloteInit
<1>6. ResteDu(touches \ pilote.key_down)
  <2>1. ASSUME NEW m \in Mods
        PROVE  pilote.k_down[m] + Nb(touches, m) <= Nb({}, m) + Nb(TouchesClavier, m)
    <3>1. touches \in SUBSET TouchesClavier
      BY <1>5
    <3>2. CompteJuste(touches, 0, m)
      BY <3>1, Comptes
    <3> DEFINE j == Nb(touches, m)
               T == Nb(TouchesClavier, m)
    <3>3. j \in Nat /\ T \in Nat /\ j <= T
      BY <3>2 DEF CompteJuste
    <3> QED
      BY <1>1, <1>3, <3>3
  <2>2. touches \ pilote.key_down = touches
    BY <1>1
  <2> QED
    BY <1>1, <2>1, <2>2 DEF ResteDu, Borne
<1>7. Calme
  BY <1>1, <1>6 DEF Calme, PiloteInit
<1>8. pilote.npadch \in -1 .. 16 * NpadMax + 20
  BY <1>1, PiloteAssumption
<1> QED
  BY <1>1, <1>2, <1>4, <1>5, <1>7, <1>8 DEF InvPilote, FormeBanc, Phase, PiloteInit

\* A key is pressed, or released.

LEMMA PasAppuie ==
    ASSUME InvPilote, NEW k \in TouchesClavier, Appuie(k) PROVE InvPilote'
<1>1. Calme /\ FormeBanc
  BY LigneVide DEF InvPilote, Appuie
<1>2. UNCHANGED <<pilote, ledstate, suivi>>
  BY DEF Appuie
<1>3. touches' \in SUBSET (TouchesClavier \ {119})
  BY <1>1 DEF FormeBanc, Appuie
<1>4. FormeBanc'
  BY <1>1, <1>2, <1>3 DEF FormeBanc
<1>5. CASE k = 119
  <2>1. touches' = touches /\ ligne' = Pause
    BY <1>5 DEF Appuie
  <2>2. EnPause'
    BY <1>1, <1>2, <1>5, <2>1 DEF EnPause, PhasePause, Calme, ResteDu
  <2> QED
    BY <1>4, <2>2 DEF InvPilote, Phase
<1>6. CASE k # 119
  <2>1. touches' = touches \cup {k} /\ ligne' = OctetsTouche(k, FALSE)
        /\ (k \in {69, 79} => pilote.npadch <= NpadMax)
    BY <1>6 DEF Appuie
  <2> DEFINE J == touches \ pilote.key_down
             J1 == (touches' \ pilote.key_down) \ {k}
             D == pilote.key_down
  <2>2. /\ J1 = J \ {k} /\ J \in SUBSET TouchesClavier /\ D \in SUBSET TouchesClavier
        /\ Borne(pilote, D, J) /\ FormePilote(pilote)
    BY <1>1, <2>1 DEF Calme, FormeBanc, ResteDu
  <2> HIDE DEF J, J1, D
  <2>3. Borne(pilote, D, J \ {k})
    BY <2>2, BorneMoins
  <2>4. Frappe(k)'
    BY <1>1, <1>2, <1>6, <2>1, <2>2, <2>3 DEF Frappe, EnLigne, ResteDu, Calme, J1, D
  <2> QED
    BY <1>4, <2>4 DEF InvPilote, Phase
<1> QED
  BY <1>5, <1>6

LEMMA PasRelache ==
    ASSUME InvPilote, NEW k \in TouchesClavier, Relache(k) PROVE InvPilote'
<1>1. Calme /\ FormeBanc
  BY LigneVide DEF InvPilote, Relache
<1>2. /\ UNCHANGED <<pilote, ledstate, suivi>> /\ touches' = touches \ {k} /\ k \in touches
      /\ ligne' = OctetsTouche(k, TRUE) /\ k # 119
  BY <1>1 DEF Relache, FormeBanc
<1>3. FormeBanc'
  BY <1>1, <1>2 DEF FormeBanc
<1>4. (touches' \cup {k}) \ pilote.key_down = touches \ pilote.key_down
  BY <1>2
<1>5. Lacher(k)'
  BY <1>1, <1>2, <1>4 DEF Lacher, EnLigne, ResteDu, Calme
<1> QED
  BY <1>3, <1>5 DEF InvPilote, Phase

\* A byte.

\* What a byte does to the driver, as do_scancode does it.
LEMMA OctetDuPilote ==
    ASSUME do_scancode
    PROVE  /\ pilote' = OctetPilote(pilote, Head(ligne)) /\ ligne' = Tail(ligne) /\ ligne # <<>>
           /\ ledstate' = pilote'.flags /\ touches' = touches
BY DEF do_scancode, OctetPilote

LEMMA PasPrefixe ==
    ASSUME FormeBanc, do_scancode, Traduit(pilote.prev, Head(ligne)).code = 0
    PROVE  /\ FormeBanc' /\ Pareil(pilote, pilote')
           /\ pilote'.prev = Traduit(pilote.prev, Head(ligne)).prev
           /\ touches' = touches /\ ligne' = Tail(ligne)
<1>1. Pareil(pilote, pilote') /\ pilote'.prev = Traduit(pilote.prev, Head(ligne)).prev
  <2> DEFINE sc == Head(ligne)
  <2>1. DOMAIN pilote = ChampsPilote
    BY DEF FormeBanc, FormePilote
  <2> HIDE DEF sc
  <2>2. Traduit(pilote.prev, sc).code = 0
    BY DEF sc
  <2>3. /\ Pareil(pilote, OctetPilote(pilote, sc))
        /\ OctetPilote(pilote, sc).prev = Traduit(pilote.prev, sc).prev
    BY <2>1, <2>2, OctetSansCode
  <2> QED
    BY <2>3, OctetDuPilote DEF sc
<1>2. suivi' = suivi
  BY DEF do_scancode, Recalcule, Inattendu
<1>3. FormePilote(pilote')
  BY <1>1 DEF FormeBanc, FormePilote, Pareil
<1>4. ledstate' \in (SUBSET Voyants) \cup {{"indefini"}}
  BY <1>3, OctetDuPilote DEF FormePilote
<1>5. /\ Exact(pilote, pilote.key_down) => Exact(pilote', pilote'.key_down)
      /\ Pendant(pilote) => Pendant(pilote')
  BY <1>1 DEF Pareil, Exact, Pendant
<1>6. FormeBanc'
  BY <1>1, <1>2, <1>3, <1>4, <1>5, OctetDuPilote DEF FormeBanc, Pareil
<1> QED
  BY <1>1, <1>6, OctetDuPilote

ApresTouche(k, bas) ==
    /\ FormeBanc' /\ EffetTouche(pilote, pilote', k, bas)
    /\ pilote'.prev = Traduit(pilote.prev, Head(ligne)).prev
    /\ touches' = touches /\ ligne' = Tail(ligne)

LEMMA PasTouche ==
    ASSUME FormeBanc, do_scancode, NEW k \in TouchesClavier, NEW bas \in BOOLEAN,
           LuTouche(k, bas),
           bas /\ k \in {69, 79} => pilote.npadch <= NpadMax
    PROVE  ApresTouche(k, bas)
<1> DEFINE sc == Head(ligne)
           D == pilote.key_down
<1>0. Traduit(pilote.prev, sc).code = k /\ sc \in Int /\ (sc < 128 <=> bas)
  BY DEF LuTouche
<1>1. EffetTouche(pilote, pilote', k, bas) /\ pilote'.prev = Traduit(pilote.prev, sc).prev
  <2>1. FormePilote(pilote) /\ pilote.key_down \subseteq TouchesClavier
    BY DEF FormeBanc
  <2> HIDE DEF sc
  <2>3. EffetTouche(pilote, OctetPilote(pilote, sc), k, bas)
        /\ OctetPilote(pilote, sc).prev = Traduit(pilote.prev, sc).prev
    BY <1>0, <2>1, OctetAvecCode
  <2> QED
    BY <2>3, OctetDuPilote DEF sc
<1>2. FormePilote(pilote') /\ pilote'.key_down \subseteq TouchesClavier
  BY <1>1 DEF EffetTouche, FormeBanc
<1>3. ledstate' \in (SUBSET Voyants) \cup {{"indefini"}}
  BY <1>2, OctetDuPilote DEF FormePilote
<1>4. pilote'.npadch \in -1 .. 16 * NpadMax + 20
  BY <1>1 DEF EffetTouche, FormeBanc
<1>5. k # 0 /\ k \in Int
  BY Touches
<1>6. Recalcule(pilote, sc) => NouveauRecompte(pilote, k, bas)
  BY <1>0 DEF Recalcule, NouveauRecompte
<1>7. Inattendu(pilote, sc) \/ bas \/ k \in D
  BY <1>0, <1>5 DEF Inattendu
<1>8. \/ suivi = "douteux" /\ Recalcule(pilote, sc) /\ suivi' = "refait"
      \/ suivi' = "douteux"
      \/ ~Inattendu(pilote, sc) /\ suivi' = suivi
  BY DEF do_scancode
<1> HIDE DEF D
<1>9. suivi' # "douteux" => Exact(pilote', pilote'.key_down)
  BY <1>1, <1>6, <1>7, <1>8 DEF EffetTouche, FormeBanc, D
<1>10. suivi' = "fidele" => Pendant(pilote')
  BY <1>1, <1>7, <1>8 DEF EffetTouche, FormeBanc, D
<1>11. suivi' \in {"fidele", "douteux", "refait"}
  BY <1>8 DEF FormeBanc
<1>12. FormeBanc'
  BY <1>2, <1>3, <1>4, <1>9, <1>10, <1>11, OctetDuPilote DEF FormeBanc
<1> QED
  BY <1>1, <1>12, OctetDuPilote DEF ApresTouche

\* The keys the counts may still forget, once the keycode is handled.
LEMMA ResteApres ==
    ASSUME NEW k, NEW bas, EffetTouche(pilote, pilote', k, bas),
           NEW J \in SUBSET TouchesClavier, ResteDu(J), bas \/ k \in pilote.key_down \/ k \in J
    PROVE  Borne(pilote', pilote'.key_down, J \ {k})
BY DEF EffetTouche, ResteDu

LEMMA PasFrappe ==
    ASSUME FormeBanc, NEW k \in TouchesClavier, Frappe(k), do_scancode PROVE InvPilote'
<1> DEFINE haut == FALSE
<1>0. haut \in BOOLEAN /\ haut = FALSE
  OBVIOUS
<1> HIDE DEF haut
<1>1. /\ k \in TouchesClavier \ {119} /\ EnLigne(k, haut)
      /\ touches \in SUBSET TouchesClavier
      /\ k \in touches /\ pilote.key_down \subseteq touches
      /\ ResteDu((touches \ pilote.key_down) \ {k})
      /\ k \in {69, 79} => pilote.npadch <= NpadMax
  BY <1>0 DEF Frappe, FormeBanc
<1>2. CASE /\ LuTouche(k, ~haut) /\ Traduit(pilote.prev, Head(ligne)).prev = 0
           /\ Tail(ligne) = <<>>
  <2> DEFINE J == (touches \ pilote.key_down) \ {k}
             bas == ~haut
  <2>1. LuTouche(k, bas) /\ bas \in BOOLEAN
    BY <1>0, <1>2
  <2>2. J \in SUBSET TouchesClavier /\ ResteDu(J) /\ (bas \/ k \in pilote.key_down \/ k \in J)
    BY <1>0, <1>1
  <2>3. bas /\ k \in {69, 79} => pilote.npadch <= NpadMax
    BY <1>0, <1>1
  <2> HIDE DEF J, bas
  <2>4. ApresTouche(k, bas)
    BY <2>1, <2>3, PasTouche
  <2>5. /\ FormeBanc' /\ EffetTouche(pilote, pilote', k, bas) /\ pilote'.prev = 0
        /\ touches' = touches /\ ligne' = <<>>
    BY <1>2, <2>4 DEF ApresTouche
  <2>6. pilote'.key_down = pilote.key_down \cup {k}
    BY <1>0, <2>5 DEF EffetTouche, bas
  <2>7. J \ {k} = touches' \ pilote'.key_down
    BY <1>1, <2>5, <2>6 DEF J
  <2>8. Borne(pilote', pilote'.key_down, J \ {k})
    <3> SUFFICES ASSUME NEW M, M = J PROVE Borne(pilote', pilote'.key_down, M \ {k})
      OBVIOUS
    <3>1. M \in SUBSET TouchesClavier /\ ResteDu(M) /\ (bas \/ k \in pilote.key_down \/ k \in M)
      BY <2>2
    <3> QED
      BY <2>5, <3>1, ResteApres
  <2>9. Calme'
    BY <1>1, <2>5, <2>6, <2>7, <2>8 DEF Calme, ResteDu
  <2> QED
    BY <2>5, <2>9 DEF InvPilote, Phase
<1>3. CASE k >= 89 /\ Head(ligne) = 224 /\ Tail(ligne) = <<Dernier(k, haut)>>
  <2>1. /\ Traduit(pilote.prev, Head(ligne)).code = 0
        /\ Traduit(pilote.prev, Head(ligne)).prev = 224
    BY <1>3, TraduitPrefixe
  <2>2. /\ FormeBanc' /\ Pareil(pilote, pilote') /\ pilote'.prev = 224
        /\ touches' = touches /\ ligne' = <<Dernier(k, haut)>>
    BY <1>3, <2>1, PasPrefixe
  <2>3. ResteDu((touches \ pilote.key_down) \ {k})'
    BY <1>1, <2>2 DEF Pareil, ResteDu, Borne
  <2>4. EnLigne(k, FALSE)'
    BY <1>0, <1>3, <2>2 DEF EnLigne
  <2>5. Frappe(k)'
    BY <1>1, <2>2, <2>3, <2>4 DEF Frappe, Pareil
  <2> QED
    BY <2>2, <2>5 DEF InvPilote, Phase
<1>4. Lecture(k, haut)
  BY <1>0, <1>1, LigneTouche
<1> QED
  BY <1>2, <1>3, <1>4 DEF Lecture

LEMMA PasLacher ==
    ASSUME FormeBanc, NEW k \in TouchesClavier, Lacher(k), do_scancode PROVE InvPilote'
<1> DEFINE haut == TRUE
<1>0. haut \in BOOLEAN /\ haut = TRUE
  OBVIOUS
<1> HIDE DEF haut
<1>1. /\ k \in TouchesClavier \ {119} /\ EnLigne(k, haut)
      /\ touches \in SUBSET TouchesClavier
      /\ k \notin touches /\ pilote.key_down \subseteq touches \cup {k}
      /\ ResteDu((touches \cup {k}) \ pilote.key_down)
  BY <1>0 DEF Lacher, FormeBanc
<1>2. CASE /\ LuTouche(k, ~haut) /\ Traduit(pilote.prev, Head(ligne)).prev = 0
           /\ Tail(ligne) = <<>>
  <2> DEFINE J == (touches \cup {k}) \ pilote.key_down
             bas == ~haut
  <2>1. LuTouche(k, bas) /\ bas \in BOOLEAN
    BY <1>0, <1>2
  <2>2. J \in SUBSET TouchesClavier /\ ResteDu(J) /\ (bas \/ k \in pilote.key_down \/ k \in J)
    BY <1>0, <1>1
  <2>3. bas /\ k \in {69, 79} => pilote.npadch <= NpadMax
    BY <1>0, <1>1
  <2> HIDE DEF J, bas
  <2>4. ApresTouche(k, bas)
    BY <2>1, <2>3, PasTouche
  <2>5. /\ FormeBanc' /\ EffetTouche(pilote, pilote', k, bas) /\ pilote'.prev = 0
        /\ touches' = touches /\ ligne' = <<>>
    BY <1>2, <2>4 DEF ApresTouche
  <2>6. pilote'.key_down = pilote.key_down \ {k}
    BY <1>0, <2>5 DEF EffetTouche, bas
  <2>7. J \ {k} = touches' \ pilote'.key_down
    BY <1>1, <2>5, <2>6 DEF J
  <2>8. Borne(pilote', pilote'.key_down, J \ {k})
    <3> SUFFICES ASSUME NEW M, M = J PROVE Borne(pilote', pilote'.key_down, M \ {k})
      OBVIOUS
    <3>1. M \in SUBSET TouchesClavier /\ ResteDu(M) /\ (bas \/ k \in pilote.key_down \/ k \in M)
      BY <2>2
    <3> QED
      BY <2>5, <3>1, ResteApres
  <2>9. Calme'
    BY <1>1, <2>5, <2>6, <2>7, <2>8 DEF Calme, ResteDu
  <2> QED
    BY <2>5, <2>9 DEF InvPilote, Phase
<1>3. CASE k >= 89 /\ Head(ligne) = 224 /\ Tail(ligne) = <<Dernier(k, haut)>>
  <2>1. /\ Traduit(pilote.prev, Head(ligne)).code = 0
        /\ Traduit(pilote.prev, Head(ligne)).prev = 224
    BY <1>3, TraduitPrefixe
  <2>2. /\ FormeBanc' /\ Pareil(pilote, pilote') /\ pilote'.prev = 224
        /\ touches' = touches /\ ligne' = <<Dernier(k, haut)>>
    BY <1>3, <2>1, PasPrefixe
  <2>3. ResteDu((touches \cup {k}) \ pilote.key_down)'
    BY <1>1, <2>2 DEF Pareil, ResteDu, Borne
  <2>4. EnLigne(k, TRUE)'
    BY <1>0, <1>3, <2>2 DEF EnLigne
  <2>5. Lacher(k)'
    BY <1>1, <2>2, <2>3, <2>4 DEF Lacher, Pareil
  <2> QED
    BY <2>2, <2>5 DEF InvPilote, Phase
<1>4. Lecture(k, haut)
  BY <1>0, <1>1, LigneTouche
<1> QED
  BY <1>2, <1>3, <1>4 DEF Lecture

\* The six bytes of Pause: two prefixes, two bytes after each.

PrefixePause(prev, reste) ==
    /\ Traduit(pilote.prev, Head(ligne)).code = 0
    /\ Traduit(pilote.prev, Head(ligne)).prev = prev /\ Tail(ligne) = reste

LecturePause ==
    \/ PrefixePause(225, <<29, 69, 225, 157, 197>>)
    \/ PrefixePause(256, <<69, 225, 157, 197>>)
    \/ /\ LuTouche(119, TRUE) /\ Traduit(pilote.prev, Head(ligne)).prev = 0
       /\ Tail(ligne) = <<225, 157, 197>>
    \/ /\ 119 \in pilote.key_down
       /\ \/ PrefixePause(225, <<157, 197>>)
          \/ PrefixePause(256, <<197>>)
          \/ /\ LuTouche(119, FALSE) /\ Traduit(pilote.prev, Head(ligne)).prev = 0
             /\ Tail(ligne) = <<>>

LEMMA LignePause == ASSUME PhasePause PROVE LecturePause
<1>1. CASE pilote.prev = 0 /\ ligne = Pause
  <2>1. Head(ligne) = 225 /\ Tail(ligne) = <<29, 69, 225, 157, 197>>
    BY <1>1 DEF Pause
  <2>2. PrefixePause(225, <<29, 69, 225, 157, 197>>)
    BY <1>1, <2>1, TraduitPrefixe DEF PrefixePause, LuTouche
  <2> QED
    BY <1>1, <2>1, <2>2 DEF LecturePause
<1>2. CASE pilote.prev = 225 /\ ligne = <<29, 69, 225, 157, 197>>
  <2>1. Head(ligne) = 29 /\ Tail(ligne) = <<69, 225, 157, 197>>
    BY <1>2
  <2>2. PrefixePause(256, <<69, 225, 157, 197>>)
    BY <1>2, <2>1, TraduitPause DEF PrefixePause, LuTouche
  <2> QED
    BY <1>2, <2>1, <2>2 DEF LecturePause
<1>3. CASE pilote.prev = 256 /\ ligne = <<69, 225, 157, 197>>
  <2>1. Head(ligne) = 69 /\ Tail(ligne) = <<225, 157, 197>>
    BY <1>3
  <2>2. LuTouche(119, TRUE) /\ Traduit(pilote.prev, Head(ligne)).prev = 0
    BY <1>3, <2>1, TraduitPause DEF PrefixePause, LuTouche
  <2> QED
    BY <1>3, <2>1, <2>2 DEF LecturePause
<1>4. CASE pilote.prev = 0 /\ ligne = <<225, 157, 197>> /\ 119 \in pilote.key_down
  <2>1. Head(ligne) = 225 /\ Tail(ligne) = <<157, 197>>
    BY <1>4
  <2>2. PrefixePause(225, <<157, 197>>)
    BY <1>4, <2>1, TraduitPrefixe DEF PrefixePause, LuTouche
  <2> QED
    BY <1>4, <2>1, <2>2 DEF LecturePause
<1>5. CASE pilote.prev = 225 /\ ligne = <<157, 197>> /\ 119 \in pilote.key_down
  <2>1. Head(ligne) = 157 /\ Tail(ligne) = <<197>>
    BY <1>5
  <2>2. PrefixePause(256, <<197>>)
    BY <1>5, <2>1, TraduitPause DEF PrefixePause, LuTouche
  <2> QED
    BY <1>5, <2>1, <2>2 DEF LecturePause
<1>6. CASE pilote.prev = 256 /\ ligne = <<197>> /\ 119 \in pilote.key_down
  <2>1. Head(ligne) = 197 /\ Tail(ligne) = <<>>
    BY <1>6
  <2>2. LuTouche(119, FALSE) /\ Traduit(pilote.prev, Head(ligne)).prev = 0
    BY <1>6, <2>1, TraduitPause DEF PrefixePause, LuTouche
  <2> QED
    BY <1>6, <2>1, <2>2 DEF LecturePause
<1> QED
  BY <1>1, <1>2, <1>3, <1>4, <1>5, <1>6 DEF PhasePause

LEMMA PasPause ==
    ASSUME FormeBanc, EnPause, do_scancode PROVE InvPilote'
<1>1. /\ 119 \in TouchesClavier /\ 119 \notin touches /\ touches \in SUBSET TouchesClavier
      /\ pilote.key_down \ {119} \subseteq touches
      /\ ResteDu(touches \ pilote.key_down)
  BY DEF EnPause, FormeBanc
<1>2. ASSUME NEW prev, NEW reste, PrefixePause(prev, reste)
      PROVE  /\ FormeBanc' /\ pilote'.prev = prev /\ pilote'.key_down = pilote.key_down
             /\ ligne' = reste
             /\ (pilote.key_down \ {119} \subseteq touches)'
             /\ ResteDu(touches \ pilote.key_down)'
  <2>1. /\ FormeBanc' /\ Pareil(pilote, pilote') /\ touches' = touches
        /\ pilote'.prev = prev /\ ligne' = reste
    BY <1>2, PasPrefixe DEF PrefixePause
  <2> QED
    BY <1>1, <2>1 DEF Pareil, ResteDu, Borne
<1>3. ASSUME NEW bas \in BOOLEAN, LuTouche(119, bas),
             Traduit(pilote.prev, Head(ligne)).prev = 0,
             bas \/ 119 \in pilote.key_down
      PROVE  /\ FormeBanc' /\ pilote'.prev = 0 /\ ligne' = Tail(ligne)
             /\ pilote'.key_down = IF bas THEN pilote.key_down \cup {119}
                                          ELSE pilote.key_down \ {119}
             /\ (pilote.key_down \ {119} \subseteq touches)'
             /\ ResteDu(touches \ pilote.key_down)'
  <2> DEFINE k == 119
  <2>1. k \in TouchesClavier /\ k \notin {69, 79} /\ LuTouche(k, bas)
    BY <1>1, <1>3
  <2> SUFFICES ASSUME NEW J, J = touches \ pilote.key_down
               PROVE  /\ FormeBanc' /\ pilote'.prev = 0 /\ ligne' = Tail(ligne)
                      /\ pilote'.key_down = IF bas THEN pilote.key_down \cup {119}
                                                   ELSE pilote.key_down \ {119}
                      /\ (pilote.key_down \ {119} \subseteq touches)'
                      /\ ResteDu(touches \ pilote.key_down)'
    OBVIOUS
  <2> HIDE DEF k
  <2>2. ApresTouche(k, bas)
    BY <2>1, PasTouche
  <2>3. /\ FormeBanc' /\ EffetTouche(pilote, pilote', k, bas) /\ pilote'.prev = 0
        /\ touches' = touches /\ ligne' = Tail(ligne)
    BY <1>3, <2>2 DEF ApresTouche
  <2>4. J \in SUBSET TouchesClavier /\ ResteDu(J) /\ (bas \/ k \in pilote.key_down \/ k \in J)
    BY <1>1, <1>3 DEF k
  <2>5. Borne(pilote', pilote'.key_down, J \ {k})
    BY <2>3, <2>4, ResteApres
  <2>6. pilote'.key_down = IF bas THEN pilote.key_down \cup {k} ELSE pilote.key_down \ {k}
    BY <2>3 DEF EffetTouche
  <2>7. J \ {k} = touches' \ pilote'.key_down
    BY <1>1, <2>3, <2>6 DEF k
  <2>8. ResteDu(touches \ pilote.key_down)'
    BY <2>5, <2>7 DEF ResteDu
  <2>9. (pilote.key_down \ {119} \subseteq touches)'
    BY <1>1, <2>3, <2>6 DEF k
  <2> QED
    BY <2>3, <2>6, <2>8, <2>9 DEF k
<1>4. CASE \/ PrefixePause(225, <<29, 69, 225, 157, 197>>)
           \/ PrefixePause(256, <<69, 225, 157, 197>>)
           \/ /\ 119 \in pilote.key_down
              /\ PrefixePause(225, <<157, 197>>) \/ PrefixePause(256, <<197>>)
  <2>1. FormeBanc' /\ (pilote.key_down \ {119} \subseteq touches)'
        /\ ResteDu(touches \ pilote.key_down)' /\ PhasePause'
    BY <1>2, <1>4 DEF PhasePause
  <2> QED
    BY <1>1, <2>1 DEF InvPilote, Phase, EnPause
<1>5. ASSUME LuTouche(119, TRUE), Traduit(pilote.prev, Head(ligne)).prev = 0,
             Tail(ligne) = <<225, 157, 197>>
      PROVE  InvPilote'
  <2> DEFINE bas == TRUE
  <2>0. bas \in BOOLEAN /\ bas /\ LuTouche(119, bas)
    BY <1>5
  <2> HIDE DEF bas
  <2>1. /\ FormeBanc' /\ (pilote.key_down \ {119} \subseteq touches)'
        /\ ResteDu(touches \ pilote.key_down)' /\ pilote'.prev = 0
        /\ ligne' = <<225, 157, 197>> /\ 119 \in pilote'.key_down
    <3>1. /\ FormeBanc' /\ pilote'.prev = 0 /\ ligne' = Tail(ligne)
          /\ pilote'.key_down = IF bas THEN pilote.key_down \cup {119}
                                       ELSE pilote.key_down \ {119}
          /\ (pilote.key_down \ {119} \subseteq touches)'
          /\ ResteDu(touches \ pilote.key_down)'
      BY <1>3, <1>5, <2>0
    <3> QED
      BY <1>5, <2>0, <3>1
  <2> QED
    BY <1>1, <2>1 DEF InvPilote, Phase, EnPause, PhasePause
<1>6. ASSUME 119 \in pilote.key_down, LuTouche(119, FALSE),
             Traduit(pilote.prev, Head(ligne)).prev = 0, Tail(ligne) = <<>>
      PROVE  InvPilote'
  <2>1. /\ FormeBanc' /\ (pilote.key_down \ {119} \subseteq touches)'
        /\ ResteDu(touches \ pilote.key_down)' /\ pilote'.prev = 0
        /\ ligne' = <<>> /\ 119 \notin pilote'.key_down
    BY <1>3, <1>6
  <2> QED
    BY <2>1 DEF InvPilote, Phase, Calme
<1>7. PhasePause
  BY DEF EnPause
<1> QED
  BY <1>4, <1>5, <1>6, <1>7, LignePause DEF LecturePause

LEMMA PilotePas ==
    ASSUME InvPilote, [PiloteNext]_piloteVars PROVE InvPilote'
<1>1. CASE do_scancode
  <2>1. ~Calme
    BY <1>1 DEF do_scancode, Calme
  <2> QED
    BY <1>1, <2>1, PasFrappe, PasLacher, PasPause DEF InvPilote, Phase
<1>2. CASE UNCHANGED piloteVars
  <2>1. /\ pilote' = pilote /\ ledstate' = ledstate /\ touches' = touches
        /\ ligne' = ligne /\ suivi' = suivi
    BY <1>2 DEF piloteVars
  <2>2. FormeBanc'
    BY <2>1 DEF FormeBanc, InvPilote
  <2>3. Phase'
    <3>1. Calme => Calme'
      BY <2>1 DEF Calme, ResteDu
    <3>2. \A k \in TouchesClavier : (Frappe(k) => Frappe(k)') /\ (Lacher(k) => Lacher(k)')
      BY <2>1 DEF Frappe, Lacher, EnLigne, ResteDu
    <3>3. EnPause => EnPause'
      BY <2>1 DEF EnPause, PhasePause, ResteDu
    <3> QED
      BY <3>1, <3>2, <3>3 DEF InvPilote, Phase
  <2> QED
    BY <2>2, <2>3 DEF InvPilote
<1> QED
  BY <1>1, <1>2, PasAppuie, PasRelache DEF PiloteNext

\* What the invariant gives.
LEMMA PiloteSuite ==
    ASSUME InvPilote PROVE TypePilote /\ ModificateursJustes /\ CodeEnAttente
<1>1. FormePilote(pilote) /\ FormeBanc
  BY DEF InvPilote, FormeBanc
<1>2. PICK J \in SUBSET TouchesClavier : ResteDu(J)
  <2>1. touches \in SUBSET TouchesClavier
    BY <1>1 DEF FormeBanc
  <2>2. CASE Calme \/ EnPause
    BY <2>1, <2>2 DEF Calme, EnPause
  <2>3. ASSUME NEW k \in TouchesClavier, Frappe(k) \/ Lacher(k)
        PROVE  \E J \in SUBSET TouchesClavier : ResteDu(J)
    BY <2>1, <2>3 DEF Frappe, Lacher
  <2> QED
    BY <2>2, <2>3 DEF InvPilote, Phase
<1>3. ASSUME NEW m \in Mods
      PROVE  pilote.k_down[m] \in 0 .. 2 * Cardinality(DuModificateur(TouchesClavier, m))
  <2> DEFINE D == pilote.key_down
             n == pilote.k_down[m]
             c == Nb(D, m)
             j == Nb(J, m)
             T == Nb(TouchesClavier, m)
  <2>1. D \in SUBSET TouchesClavier
    BY <1>1 DEF FormeBanc
  <2>2. CompteJuste(D, 0, m) /\ CompteJuste(J, 0, m)
    <3> HIDE DEF D
    <3> QED
      BY <2>1, Comptes
  <2>3. /\ n \in Nat /\ c \in Nat /\ j \in Nat /\ T \in Nat /\ c <= T /\ n + j <= c + T
    BY <1>1, <1>2, <2>2 DEF FormePilote, CompteJuste, ResteDu, Borne
  <2> HIDE DEF n, c, j, T
  <2>4. n \in 0 .. 2 * T
    BY <2>3
  <2> QED
    BY <2>4 DEF n, T, Nb
<1>4. pilote.prev \in {0, 224, 225, 256}
  BY DEF InvPilote, Phase, Calme, Frappe, Lacher, EnPause, PhasePause, EnLigne
<1>5. ligne = <<>> => pilote.prev = 0 /\ pilote.key_down \ {119} \subseteq touches
  BY LigneVide DEF Calme
<1>6. TypePilote
  BY <1>1, <1>3, <1>4, <1>5 DEF TypePilote, FormePilote, FormeBanc
<1>7. ModificateursJustes /\ CodeEnAttente
  BY <1>1 DEF ModificateursJustes, CodeEnAttente, FormeBanc, FormePilote, Exact, Pendant, Nb
<1> QED
  BY <1>6, <1>7

\* Only the driver's bench moves the driver.
LEMMA BancPilote ==
    ASSUME [MachinesNext]_machinesVars
    PROVE  UNCHANGED banc /\ (banc = "pilote" => [PiloteNext]_piloteVars)
BY DEF MachinesNext, Banc, machinesVars

\* The driver's modifiers are those of the keys held, through repeats, two keys
\* of one modifier and sets of modifiers without a map, and a number typed on
\* the keypad is not forgotten (keyboard.c do_shift, do_ascii, compute_shiftstate).
\* For any set of keys of the keyboard, whichever are held at the boot.
THEOREM PiloteJusteCorrect == SpecMachines => []PiloteJuste
<1> DEFINE I == banc = "pilote" => InvPilote
<1>1. MachinesInit => I
  BY PilotePlein DEF MachinesInit
<1>2. I /\ [MachinesNext]_machinesVars => I'
  BY BancPilote, PilotePas
<1>3. I => PiloteJuste
  BY PiloteSuite DEF PiloteJuste
<1> QED
  BY <1>1, <1>2, <1>3, PTL DEF SpecMachines

=============================================================================
