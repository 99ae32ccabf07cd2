-------------------------------- MODULE Son --------------------------------
(***************************************************************************)
(* The speaker: kernel/sound.c, the part of the clock handler that stops   *)
(* it, and the programs that use it, user/theme.c and user/piano.c.        *)
(*                                                                         *)
(* A player is a process: between two system calls of play_melody the      *)
(* clock ticks and others play.  A note is its length in ticks and whether *)
(* it is a rest.                                                           *)
(***************************************************************************)
EXTENDS Integers, Sequences

CONSTANTS
    Joueurs,    \* the processes that play a melody
    Melodies,   \* the melodies, sequences of [rest, t]
    TicksMax    \* bound on the clock

ASSUME SonAssumption ==
    /\ TicksMax \in Nat
    /\ Melodies \subseteq Seq([rest : BOOLEAN, t : Nat \ {0}]) \ {<<>>}
    /\ Joueurs \cap {"piano", "noyau", "personne"} = {}

VARIABLES
    hautParleur,    \* the speaker is on
    duration,       \* the tick at which it stops
    tics,           \* ticks
    joueurs,        \* where each player is in play_melody
    auteur          \* the last to have called play_sound (history)

sonVars == <<hautParleur, duration, tics, joueurs, auteur>>

play_sound(rest, t, qui) ==
    /\ duration' = tics + t
    /\ hautParleur' = ~rest
    /\ auteur' = qui

Absent == [pc |-> "absent", melodie |-> <<>>, k |-> 0, date |-> 0, boucle |-> FALSE]

\* start() of play_melody_proc_once or play_melody_proc_loop.
LanceJoueur(p, m, boucle) ==
    /\ joueurs[p].pc = "absent"
    /\ joueurs' = [joueurs EXCEPT ![p] =
           [pc |-> "joue", melodie |-> m, k |-> 1, date |-> 0, boucle |-> boucle]]
    /\ auteur' = IF auteur = p THEN "personne" ELSE auteur
    /\ UNCHANGED <<hautParleur, duration, tics>>

\* play_melody(): three system calls per note.
JoueNote(p) ==
    LET j == joueurs[p]
    IN  /\ j.pc = "joue"
        /\ play_sound(j.melodie[j.k].rest, j.melodie[j.k].t, p)
        /\ joueurs' = [joueurs EXCEPT ![p].pc = "heure"]
        /\ UNCHANGED tics

LitHeure(p) ==
    LET j == joueurs[p]
    IN  /\ j.pc = "heure"
        /\ joueurs' = [joueurs EXCEPT ![p].pc = "attend", ![p].date = tics + j.melodie[j.k].t]
        /\ UNCHANGED <<hautParleur, duration, tics, auteur>>

DortNote(p) ==
    /\ joueurs[p].pc = "attend"
    /\ joueurs' = [joueurs EXCEPT ![p].pc = "dort"]
    /\ UNCHANGED <<hautParleur, duration, tics, auteur>>

\* After a note: the next, the first again, or the end.
ApresNote(j) ==
    IF j.k < Len(j.melodie) THEN [j EXCEPT !.pc = "joue", !.k = @ + 1]
    ELSE IF j.boucle THEN [j EXCEPT !.pc = "joue", !.k = 1]
    ELSE Absent

\* kill() of the player by the game or by a key: the sound goes on.
TueJoueur(p) ==
    /\ joueurs[p].pc # "absent"
    /\ joueurs' = [joueurs EXCEPT ![p] = Absent]
    /\ UNCHANGED <<hautParleur, duration, tics, auteur>>

\* The piano, and beep().
Piano == play_sound(FALSE, 2, "piano") /\ UNCHANGED <<tics, joueurs>>
beep == play_sound(FALSE, 1, "noyau") /\ UNCHANGED <<tics, joueurs>>

\* The sound compared with the clock before it advances.
SilenceEnRetard == duration # 0 /\ tics = duration

Silence == duration # 0 /\ tics + 1 = duration

\* tic_PIT(): the sound first, then the sleepers.
TicSon ==
    /\ tics < TicksMax
    /\ tics' = tics + 1
    /\ hautParleur' = (hautParleur /\ ~Silence)
    /\ joueurs' = [p \in Joueurs |->
           IF joueurs[p].pc = "dort" /\ joueurs[p].date <= tics + 1
           THEN ApresNote(joueurs[p]) ELSE joueurs[p]]
    /\ UNCHANGED <<duration, auteur>>

SonInit ==
    /\ hautParleur = FALSE /\ duration = 0 /\ tics = 0
    /\ joueurs = [p \in Joueurs |-> Absent]
    /\ auteur = "personne"

SonNext ==
    \/ \E p \in Joueurs :
         \/ \E m \in Melodies, b \in BOOLEAN : LanceJoueur(p, m, b)
         \/ JoueNote(p) \/ LitHeure(p) \/ DortNote(p) \/ TueJoueur(p)
    \/ Piano \/ beep \/ TicSon

SpecSon == SonInit /\ [][SonNext]_sonVars

-----------------------------------------------------------------------------
\* The speaker never sounds for ever, whoever plays or is killed in the middle
\* of a note: when it is on, the clock has not passed the tick it waits for,
\* which it compares for equality (sound.c play_sound, horloge.c tic_PIT).
SonBorne == hautParleur => tics < duration

\* A note lasts its time: a melody does not begin the next while the last one
\* sounds, unless another sound came between (theme.c play_melody).
NoteEntiere ==
    \A p \in Joueurs :
        joueurs[p].pc = "joue" /\ joueurs'[p].pc = "heure" /\ auteur = p => tics >= duration

=============================================================================
