------------------------------ MODULE Clavier ------------------------------
(***************************************************************************)
(* The line buffer of the keyboard: keyboard_data (kernel/kbd.c), which the *)
(* keyboard interrupt calls with what the driver translated, cons_read and *)
(* its history (kernel/console.c), verifie_es (kernel/processus.c).        *)
(*                                                                         *)
(* Nothing depends on the characters in the buffer but their number,       *)
(* ptampon, and on those of a line of the history but its length.          *)
(***************************************************************************)
EXTENDS Horloge

CONSTANTS
    BufferSize,     \* BUFFER_SIZE
    HistorySize,    \* HISTORY_SIZE
    LongueursLues,  \* the lengths programs give to cons_read
    DebordMax       \* bound: bytes found after an unterminated line before a zero

ASSUME ClavierAssumption ==
    /\ BufferSize \in Nat \ {0} /\ HistorySize \in Nat \ {0}
    /\ LongueursLues \subseteq Nat \ {0}
    /\ DebordMax \in Nat

VARIABLES
    ptampon,                \* the characters in tampon
    read,                   \* read: an end of line was typed
    longueur,               \* the argument of cons_read, for its caller
    history,                \* the lengths of history[0 .. index_history - 1]
    current_idex_history

clavierVars == <<ptampon, read, longueur, history, current_idex_history>>
varsClavier == <<vars, clavierVars>>

-----------------------------------------------------------------------------
\* The reader the longest blocked instead of the strongest.
LecteurFaible(k) == Head(k.queue["bloque_es"])

\* verifie_es() takes the strongest reader.
Lecteur(k) == QueueTop(k.queue["bloque_es"])

ReveilleLecteur(k) ==
    LET p == Lecteur(k)
    IN  Active([k EXCEPT !.queue["bloque_es"] = QueueDel(@, p)], p)

\* verifie_es() calls ordonnanceur() for a reader weaker than the elected
\* process: the comparison is the other way round than in verifie_reveille.
CedeAuLecteur(k) ==
    k.queue["bloque_es"] # <<>> /\ k.prio[k.elu] > k.prio[Lecteur(k)]

\* verifie_es(), s what its caller still has to do.
VerifieEs(k, s) ==
    IF k.queue["bloque_es"] = <<>> THEN k
    ELSE IF CedeAuLecteur(k)
         THEN Ordonnanceur([ReveilleLecteur(k) EXCEPT !.suite[k.elu] = s])
         ELSE ReveilleLecteur(k)

-----------------------------------------------------------------------------
\* keyboard_data(): its end, which rings when the buffer is full.
FinClavier(k, n) ==
    LET k1 == [k EXCEPT !.suite[k.elu] = User]
    IN  IF n = BufferSize THEN VerifieEs(k1, User) ELSE k1

\* A character that wakes a reader, then the end unless verifie_es() gives the
\* processor away.
ReveilleEtFinit(n) ==
    Devient(IF CedeAuLecteur(Courant)
            THEN VerifieEs(Courant, [appel |-> "clavier", arg |-> Nul])
            ELSE FinClavier(VerifieEs(Courant, User), n))

\* The keyboard interrupt, in user mode or in the idle loop.
Interruptible == panique = "non" /\ suite[elu] = User

\* A printable character or '\n', or '\t', which ends a line.
TapeCaractere(c) ==
    /\ Interruptible /\ ptampon < BufferSize
    /\ ptampon' = ptampon + 1
    /\ read' = (read \/ c = "\t")
    /\ ReveilleEtFinit(ptampon + 1)
    /\ UNCHANGED <<longueur, history, current_idex_history>>

\* The end of line that wakes nobody.
TapeFinDeLigneMuette ==
    /\ Interruptible /\ ptampon < BufferSize
    /\ read' = TRUE
    /\ UNCHANGED <<noyauVars, ptampon, longueur, history, current_idex_history>>

\* '\r': it is not put in the buffer.
TapeFinDeLigne ==
    /\ Interruptible /\ ptampon < BufferSize
    /\ read' = TRUE
    /\ ReveilleEtFinit(ptampon)
    /\ UNCHANGED <<ptampon, longueur, history, current_idex_history>>

\* 127.
Efface ==
    /\ Interruptible /\ ptampon > 0
    /\ ptampon' = ptampon - 1
    /\ UNCHANGED <<noyauVars, read, longueur, history, current_idex_history>>

\* strcpy() of a line of l characters and its NUL into tampon.
Tient(l) == l < BufferSize

\* A line of the history of l characters, then the index i, in place of the line
\* typed.  No reader is woken, unless it fills the buffer.  A line that does not
\* fit is copied over what follows tampon: the model stops there.
Recopie(l, i) ==
    IF Tient(l)
    THEN ptampon' = l /\ current_idex_history' = i /\ Devient(FinClavier(Courant, l))
    ELSE /\ Devient([Courant EXCEPT !.panique = "tampon"])
         /\ UNCHANGED <<ptampon, current_idex_history>>

\* The arrows up and down: an older line, a newer one or none.
FlecheHaut ==
    /\ Interruptible /\ ptampon < BufferSize
    /\ current_idex_history > 0
    /\ Recopie(history[current_idex_history], current_idex_history - 1)
    /\ UNCHANGED <<read, longueur, history>>

FlecheBas ==
    /\ Interruptible /\ ptampon < BufferSize
    /\ IF current_idex_history < Len(history)
       THEN Recopie(history[current_idex_history + 1], current_idex_history + 1)
       ELSE /\ ptampon' = 0 /\ UNCHANGED current_idex_history
            /\ Devient(FinClavier(Courant, 0))
    /\ UNCHANGED <<read, longueur, history>>

\* Anything but 127 when the buffer is full.
TapePlein ==
    /\ Interruptible /\ ptampon = BufferSize
    /\ Devient(FinClavier(Courant, ptampon))
    /\ UNCHANGED clavierVars

\* The process that verifie_es() preempted in keyboard_data goes on: the
\* buffer may have been read since.
RepriseClavier ==
    /\ panique = "non" /\ suite[elu].appel = "clavier"
    /\ Devient(FinClavier(Courant, ptampon))
    /\ UNCHANGED clavierVars

-----------------------------------------------------------------------------
\* The history after a line: the oldest makes room.
Retient(h, l) ==
    Append(IF Len(h) = HistorySize THEN Tail(h) ELSE h, l)

\* cons_read(): wait, or take the first n characters.  A line of n characters
\* has no zero after it when strlen() measures it for the history.
Attend(n) ==
    /\ ~read /\ ptampon < n
    /\ Devient(Ordonnanceur(
         Enfile([Courant EXCEPT !.etat[elu] = "ATTEND_ES",
                                !.suite[elu] = [appel |-> "cons_read", arg |-> Nul]],
                elu, "bloque_es")))
    /\ longueur' = [longueur EXCEPT ![elu] = n]
    /\ UNCHANGED <<ptampon, read, history, current_idex_history>>

Preleve(n) ==
    LET l == Min({n, ptampon})
    IN  /\ read \/ ptampon >= n
        /\ read' = FALSE
        /\ ptampon' = ptampon - l
        /\ IF n = 1 THEN UNCHANGED <<history, current_idex_history>>
           ELSE /\ \E d \in 0 .. (IF l = n THEN DebordMax ELSE 0) :
                      history' = Retient(history, l + d)
                /\ current_idex_history' = Len(history')
        /\ Devient([Courant EXCEPT !.suite[elu] = User])
        /\ longueur' = [longueur EXCEPT ![elu] = 0]

ConsRead(n) == EnModeUser /\ (Attend(n) \/ Preleve(n))

RepriseConsRead ==
    /\ panique = "non" /\ suite[elu].appel = "cons_read"
    /\ Attend(longueur[elu]) \/ Preleve(longueur[elu])

-----------------------------------------------------------------------------
ClavierInit ==
    /\ Init
    /\ ptampon = 0 /\ read = FALSE
    /\ longueur = [p \in Procs |-> 0]
    /\ history = <<>> /\ current_idex_history = 0

\* The keyboard interrupt.
Frappe ==
    \/ \E c \in {"c", "\t"} : TapeCaractere(c)
    \/ TapeFinDeLigne
    \/ Efface
    \/ FlecheHaut
    \/ FlecheBas
    \/ TapePlein

ClavierNext ==
    /\ \/ Frappe
       \/ RepriseClavier
       \/ \E n \in LongueursLues : ConsRead(n)
       \/ RepriseConsRead
    /\ UNCHANGED <<ticks, cptTicks>>

\* The steps of the other components; a process that dies was in no call.
AutresClavier ==
    /\ Next
    /\ longueur' = [p \in Procs |-> IF etat'[p] \in {"ZOMBIE", "MOURANT", "LIBRE"}
                                    THEN 0 ELSE longueur[p]]
    /\ UNCHANGED <<ptampon, read, history, current_idex_history>>

SpecClavier == ClavierInit /\ [][ClavierNext \/ AutresClavier]_varsClavier

\* Programs that start processes, read and kill readers.
SpecLecteurs ==
    /\ ClavierInit
    /\ [][\/ ClavierNext
          \/ /\ AutresClavier
             /\ \/ \E pr \in 1 .. PrioMax : Start(pr)
                \/ \E p \in Pids : suite[p].appel = "cons_read" /\ KillAutre(p)
                \/ Tic]_varsClavier

-----------------------------------------------------------------------------
\* A line is available to a reader that is awake, or no reader is blocked.
LigneOfferte ==
    read /\ queue["bloque_es"] # <<>> =>
        \E p \in Procs : suite[p].appel = "cons_read"
                         /\ etat[p] \in {"ELU", "ACTIVABLE"}

\* A typed line finds its reader (kbd.c, '\r' and '\t'): the only step that
\* leaves readers blocked in front of a complete line is the kill of the one
\* that was woken for it.
LigneServie ==
    [][LigneOfferte /\ ~LigneOfferte' =>
          \E p \in Pids : /\ suite[p].appel = "cons_read"
                          /\ etat[p] = "ACTIVABLE"
                          /\ etat'[p] \notin {"ELU", "ACTIVABLE"}]_varsClavier

\* What is typed wakes the strongest reader, and of the strongest the one that
\* waits for longest, although they come, die and wait again in any order.
LecteurLePlusFort ==
    [][\A p, q \in Pids :
          /\ p # q
          /\ {p, q} \subseteq Membres(queue["bloque_es"])
          /\ q \in Membres(queue'["bloque_es"])
          /\ etat'[p] \in {"ACTIVABLE", "ELU"}
          => prio[p] >= prio[q]]_varsClavier

=============================================================================
