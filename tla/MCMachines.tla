----------------------------- MODULE MCMachines -----------------------------
(***************************************************************************)
(* The parts that share no variable with the scheduler, side by side: a    *)
(* behaviour runs one of them, the bench, chosen at the start.  The others *)
(* are at rest, each of their variables zero.                              *)
(***************************************************************************)
EXTENDS Malloc, PiloteClavier, Gdb, Chaines, Formats, Ecran, Son, Philosophes, Appels, Shell

VARIABLE banc   \* the part that runs

machinesVars == <<banc, mallocVars, piloteVars, gdbVars, chainesVars, formatsVars, ecranVars,
                  sonVars, philosophesVars, appelsVars, shellVars>>

-----------------------------------------------------------------------------
MallocRepos == tas = 0 /\ blocs = 0 /\ contrat = 0
PiloteRepos == pilote = 0 /\ ledstate = 0 /\ touches = 0 /\ ligne = 0 /\ suivi = 0
GdbRepos == cible = 0 /\ hote = 0 /\ versCible = 0 /\ versHote = 0 /\ pannes = 0
ChainesRepos == memoire = 0 /\ df = 0 /\ holder = 0
FormatsRepos == impression = 0 /\ sortie = 0
EcranRepos == ecran = 0 /\ cadre = 0 /\ fidele = 0
SonRepos == hautParleur = 0 /\ duration = 0 /\ tics = 0 /\ joueurs = 0 /\ auteur = 0
PhilosophesRepos ==
    /\ fourchette = 0 /\ bloque = 0 /\ humeur = 0 /\ semaphores = 0
    /\ philosophe = 0 /\ lances = 0 /\ test200 = 0
AppelsRepos == processeur = 0 /\ actif = 0 /\ taches = 0 /\ appel = 0 /\ servi = 0
ShellRepos == shell = 0 /\ enfants = 0

MachinesInit ==
    /\ banc \in {"malloc", "pilote", "gdb", "chaines", "formats", "ecran",
                "son", "philosophes", "appels", "shell"}
    /\ IF banc = "malloc" THEN MallocInit ELSE MallocRepos
    /\ IF banc = "pilote" THEN PiloteInit ELSE PiloteRepos
    /\ IF banc = "gdb" THEN GdbInit ELSE GdbRepos
    /\ IF banc = "chaines" THEN ChainesInit ELSE ChainesRepos
    /\ IF banc = "formats" THEN FormatsInit ELSE FormatsRepos
    /\ IF banc = "ecran" THEN EcranInit ELSE EcranRepos
    /\ IF banc = "son" THEN SonInit ELSE SonRepos
    /\ IF banc = "philosophes" THEN PhilosophesInit ELSE PhilosophesRepos
    /\ IF banc = "appels" THEN AppelsInit ELSE AppelsRepos
    /\ IF banc = "shell" THEN ShellInit ELSE ShellRepos

\* The bench b runs, the others rest.
Banc(b) ==
    /\ banc = b /\ UNCHANGED banc
    /\ IF b = "malloc" THEN TRUE ELSE UNCHANGED mallocVars
    /\ IF b = "pilote" THEN TRUE ELSE UNCHANGED piloteVars
    /\ IF b = "gdb" THEN TRUE ELSE UNCHANGED gdbVars
    /\ IF b = "chaines" THEN TRUE ELSE UNCHANGED chainesVars
    /\ IF b = "formats" THEN TRUE ELSE UNCHANGED formatsVars
    /\ IF b = "ecran" THEN TRUE ELSE UNCHANGED ecranVars
    /\ IF b = "son" THEN TRUE ELSE UNCHANGED sonVars
    /\ IF b = "philosophes" THEN TRUE ELSE UNCHANGED philosophesVars
    /\ IF b = "appels" THEN TRUE ELSE UNCHANGED appelsVars
    /\ IF b = "shell" THEN TRUE ELSE UNCHANGED shellVars

MachinesNext ==
    \/ Banc("malloc") /\ MallocNext
    \/ Banc("pilote") /\ PiloteNext
    \/ Banc("gdb") /\ GdbNext
    \/ Banc("chaines") /\ ChainesNext
    \/ Banc("formats") /\ FormatsNext
    \/ Banc("ecran") /\ EcranNext
    \/ Banc("son") /\ SonNext
    \/ Banc("philosophes") /\ PhilosophesNext
    \/ Banc("appels") /\ AppelsNext
    \/ Banc("shell") /\ ShellNext

\* The fairness of Gdb: the other parts have safety properties only.
SpecMachines ==
    /\ MachinesInit /\ [][MachinesNext]_machinesVars
    /\ WF_gdbVars(Banc("gdb") /\ CibleNext)
    /\ WF_gdbVars(Banc("gdb") /\ HoteNext)

-----------------------------------------------------------------------------
\* The state that decides what comes: of the screen memory, only the lines that
\* can be shown again; of a screen that no longer mirrors its buffer, where the
\* next character goes, and whether clearing it can make it a mirror again.
VueEcran ==
    IF fidele
    THEN <<[ecran EXCEPT !.screen_buffer =
              [i \in DOMAIN @ |-> IF Miroir(0) <= i THEN @[i] ELSE LigneBlanche]]>>
    ELSE <<ecran.ligne, ecran.colonne, ecran.id_col_start, ecran.buff_ligne,
           ecran.buff_display_ligne,
           IF cadre THEN <<ecran.screen_buffer[ecran.buff_ligne]>> ELSE <<>>>>

Vue ==
    CASE banc = "malloc" -> <<banc, mallocVars>>
      [] banc = "pilote" -> <<banc, piloteVars>>
      [] banc = "gdb" -> <<banc, gdbVars>>
      [] banc = "chaines" -> <<banc, chainesVars>>
      [] banc = "formats" -> <<banc, formatsVars>>
      [] banc = "ecran" -> <<banc, VueEcran>>
      [] banc = "son" -> <<banc, sonVars>>
      [] banc = "philosophes" -> <<banc, philosophesVars>>
      [] banc = "appels" -> <<banc, appelsVars>>
      [] banc = "shell" -> <<banc, shellVars>>

-----------------------------------------------------------------------------
(* The values of the parameters.                                           *)

\* What gdb does: registers or memory written or read, then it continues and
\* detaches, or kills.
Progs == { << <<71, 53>>, <<103>> >>, << <<77, 53>>, <<109>> >>,
           << <<99>>, <<68>> >>, << <<107>> >> }

\* Melodies with two lengths, with and without a rest.
Mel == { << [rest |-> FALSE, t |-> 2], [rest |-> FALSE, t |-> 1] >>,
         << [rest |-> FALSE, t |-> 1], [rest |-> TRUE, t |-> 2] >> }

\* Calls of printf: every flag, width, precision and conversion on the extreme
\* numbers, every number, strings shorter and longer than the precision, and
\* the rest; then two processes that print together.
Drapeaux == { <<>>, <<"-">>, <<"+">>, <<" ", "#">>, <<"#", "-">> }
Largeurs == { <<>>, <<"0", "4">>, <<"5">>, <<"*">> }
Precisions == { <<>>, <<".", "2">>, <<".", "*">> }
Appelle(fmt, args) == [fmt |-> fmt, args |-> args]
Arguments(l, p, a) ==
    (IF l = <<"*">> THEN <<Mot2 - 4>> ELSE <<>>) \o (IF p = <<".", "*">> THEN <<3>> ELSE <<>>) \o <<a>>

Nombres ==
    { Appelle(<<"%">> \o d \o l \o p \o <<c>>, Arguments(l, p, a)) :
        d \in Drapeaux, l \in Largeurs, p \in Precisions, c \in {"d", "u", "x", "o", "z"},
        a \in {0, 9, 2 ^ (Bits - 1) - 1, 2 ^ (Bits - 1), Mot2 - 1} }
    \cup { Appelle(<<"%", c>>, <<a>>) : c \in {"d", "u"}, a \in 0 .. Mot2 - 1 }
Textes ==
    { Appelle(<<"%">> \o d \o l \o p \o <<"s">>, Arguments(l, p, a)) :
        d \in {<<>>, <<"-">>}, l \in Largeurs, p \in Precisions,
        a \in { <<>>, <<"a", "b">>, <<"a", "b", "c", "d">> } }
Champs ==
    << [i |-> 4, j |-> 3, nom |-> <<"F", "=">>], [i |-> 2, j |-> 0, nom |-> <<"B">>],
       [i |-> 3, j |-> 0, nom |-> <<"C">>] >>
Divers ==
    { Appelle(<<"r", "=", "%", "b">>, <<11, [base |-> 8, champs |-> Champs]>>),
      Appelle(<<"%", "c", "%", "%", "%", "p", "%">>, <<"k", 11>>),
      Appelle(<<"%", "l", "i", "%", "q", "\n">>, <<9>>) }
AvecLigne ==
    { Appelle(<<"a", "b", "\n", "c">>, <<>>),
      Appelle(<<"%", "d", "%", "s", "\n">>, <<5, <<"x", "y", "z">> >>),
      Appelle(<<"%", "c", "d">>, <<"nul">>) }

\* A string cut by its precision and padded on the right.
CoupeAGauche(i) ==
    LET d == AvecEtoiles(Directive(i.fmt, 2), i.args)
    IN  /\ d.conv = "s" /\ d.gauche
        /\ d.prec \in 0 .. Len(i.args[Etoiles(d) + 1]) - 1 /\ d.length > d.prec

Seule(i) == <<i, Appelle(<<>>, <<>>)>>

\* One call, or two at once.  The cut strings padded on the right are left out:
\* the code pads them one blank short of what doprnt.c says of the field width.
Imps ==
    { Seule(i) : i \in {t \in Textes : ~CoupeAGauche(t)} \cup Nombres \cup Divers }
    \cup (AvecLigne \X AvecLigne)

-----------------------------------------------------------------------------
(* The properties of the parts, each on its bench.                         *)

\* The heap's map of itself is true: chunks tile it, bits, boundary tags, bins,
\* the map of bins and the counts agree, as long as no size wraps and no
\* independent_*() recycles a fast chunk above a free one (malloc.c.h mALLOc,
\* fREe, malloc_consolidate).
AllocateurSain == banc = "malloc" /\ contrat => TypeMalloc /\ TasSain

\* Zones in use never overlap, and a request fails only when nothing can hold
\* it, under the same condition (malloc.c.h mem_alloc, mem_free).
AllocationJuste == banc = "malloc" /\ contrat => ZonesIntactes /\ EchecJustifie

\* The driver's modifiers are the keys held, and a number typed on the keypad
\* is not forgotten (keyboard.c do_shift, do_ascii).
PiloteJuste == banc = "pilote" => TypePilote /\ ModificateursJustes /\ CodeEnAttente

\* Commands and answers are never mispaired on a line that loses and damages
\* bytes (gdb_serial.c getpacket, putfrags, converse).
ReponseJuste ==
    /\ [](banc = "gdb" => TypeGdb)
    /\ [][banc = "gdb" => ReponseAppariee]_gdbVars

\* Every command is answered in the end, whatever byte was lost or damaged
\* (gdb_serial.c: getpacket answers '-' or waits for the next '$', putfrags
\* sends again until '+').
ConversationFinit == <>(banc = "gdb" => ConversationFinie)

\* The functions of string.c compute what their contracts say, from every
\* memory and state they leave behind.
ChainesSures == banc = "chaines" => ChainesJustes

\* What printf and its kin write is what the format asks for, also when two
\* processes print together (doprnt.c, printf.c, sprintf.c).
ImpressionSure == banc = "formats" => ImpressionJuste

\* The screen shows the lines of the scroll-back buffer and the cursor stays
\* in it (console.c).
EcranSur == banc = "ecran" => EcranFidele

\* The speaker is always stopped in time, and notes last (sound.c, theme.c).
SonJuste ==
    /\ [](banc = "son" => SonBorne)
    /\ [][banc = "son" => NoteEntiere]_sonVars

\* Neighbours never eat together, and the semaphores outlive their use
\* (test_semaphore.c).
RepasJuste == banc = "philosophes" => RepasEnPaix

\* A call is served once with its arguments, and interrupts are invisible to
\* programs (builtin.S, traitant_IT.S, traitant_IT_49.c, ctx_sw.S).
AppelSur == banc = "appels" => AppelServi

\* No player of melodies outlives the command whose Theme it reads (theme.c,
\* pendu.c, more_less_game.c).
MusiqueTenue == banc = "shell" => JoueurTenu

=============================================================================
