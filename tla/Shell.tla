------------------------------- MODULE Shell -------------------------------
(***************************************************************************)
(* The shell of user/start.c and its commands that keep state: the games   *)
(* of pendu.c and more_less_game.c, cmd_theme of theme.c, and the commands *)
(* that start, kill and wait for processes.  The melodies are played by a  *)
(* child process that reads a Theme on the stack of the command.           *)
(*                                                                         *)
(* Calls of the kernel are one step; what a command prints, the word and   *)
(* the number to find are left out.  The answer to a guess is any.         *)
(***************************************************************************)
EXTENDS Integers

CONSTANTS
    PidsFils,   \* pids free for the children of the shell
    Essais,     \* tries of a game (10 and MAX_TRIES in the code)
    Lettres     \* letters of the word to find

ASSUME ShellAssumption == Essais \in Nat \ {0} /\ Lettres \in Nat \ {0} /\ PidsFils \subseteq Nat

VARIABLES
    shell,      \* [pc, jeu, pid_player, try_left, reste, numero]
    enfants     \* children of the shell: pid to [nom, vivant]

shellVars == <<shell, enfants>>

Aucun == -1
PidShell == 0
Enfants == DOMAIN enfants

Dangereuses == {"test_run", "test_until", "test_semaphore", "crash_pile_test"}
Jeux == {"pendu", "MoreLess"}
\* Those of commands[] that keep state; the other ones only print.
Commandes == Dangereuses \cup Jeux \cup {"theme", "create_proc", "kill", "wait", "exit", "ps"}

Va(pc) == shell' = [shell EXCEPT !.pc = pc]

\* start(): any free pid, or an error when there is none.
start(nom, Suite(_)) ==
    IF PidsFils = Enfants THEN Suite(Aucun) /\ UNCHANGED enfants
    ELSE \E p \in PidsFils \ Enfants :
           /\ enfants' = [q \in Enfants \cup {p} |->
                  IF q = p THEN [nom |-> nom, vivant |-> TRUE] ELSE enfants[q]]
           /\ Suite(p)

\* kill() of a child: an error, or a zombie.
Tue(p) == enfants' =
    IF p \in Enfants THEN [enfants EXCEPT ![p].vivant = FALSE] ELSE enfants

\* waitpid() of a child that has ended: its pid is free again.
Recueille(p) == enfants' = [q \in Enfants \ {p} |-> enfants[q]]

-----------------------------------------------------------------------------
\* The prompt: no command, an unknown one or a completion, all back to it;
\* a command, with the number that kill and wait take.
superShell ==
    /\ shell.pc = "invite"
    /\ \E c \in Commandes, n \in PidsFils \cup {Aucun, PidShell} :
         /\ c \notin {"kill", "wait"} => n = PidShell
         /\ shell' = [shell EXCEPT !.pc = IF c \in Dangereuses THEN "confirme" ELSE c,
                                   !.jeu = c, !.numero = n]
    /\ UNCHANGED enfants

Confirme ==
    /\ shell.pc = "confirme"
    /\ Va("invite") \/ Va(shell.jeu)
    /\ UNCHANGED enfants

\* cmd_test_run(), cmd_test_until(), cmd_test_semaphore(): a process that the
\* shell waits for, even when it could not be started.
cmd_test ==
    /\ shell.pc \in Dangereuses \ {"crash_pile_test"}
    /\ LET Suite(p) == shell' = [shell EXCEPT !.pc = "waitpid", !.numero = p]
       IN  start("test", Suite)

cmd_create_proc ==
    /\ shell.pc \in {"create_proc", "crash_pile_test"}
    /\ LET Suite(p) == Va("invite")
       IN  start(IF shell.pc = "create_proc" THEN "Dummy" ELSE "NoName", Suite)

\* kill of itself included.
cmd_kill ==
    /\ shell.pc = "kill"
    /\ Tue(shell.numero)
    /\ Va(IF shell.numero = PidShell THEN "mort" ELSE "invite")

cmd_wait == shell.pc = "wait" /\ Va("waitpid") /\ UNCHANGED enfants

\* waitpid() of the commands above: an error when there is no such child, any
\* child when the number is negative.
Attend ==
    LET choix == IF shell.numero = Aucun THEN Enfants ELSE {shell.numero} \cap Enfants
    IN  /\ shell.pc = "waitpid"
        /\ \/ choix = {} /\ UNCHANGED enfants
           \/ \E p \in choix : ~enfants[p].vivant /\ Recueille(p)
        /\ Va("invite")

cmd_ps == shell.pc = "ps" /\ Va("invite") /\ UNCHANGED enfants
cmd_exit == shell.pc = "exit" /\ Va("arret") /\ UNCHANGED enfants

-----------------------------------------------------------------------------
(* The melodies.                                                           *)

\* A game starts the player in a loop, and goes on without it.
CommenceJeu ==
    /\ shell.pc \in Jeux
    /\ LET Suite(p) == shell' = [shell EXCEPT !.pc = "joue", !.pid_player = p,
                                 !.try_left = Essais, !.reste = Lettres]
       IN  start("boucle", Suite)

\* A guess: right, wrong, or, for pendu, a letter found or given before.
Propose ==
    /\ shell.pc = "joue"
    /\ \/ shell.jeu = "MoreLess" /\ Va("finJeu")
       \/ shell' = [shell EXCEPT !.try_left = @ - 1, !.pc = IF shell.try_left = 1 THEN "finJeu" ELSE @]
       \/ /\ shell.jeu = "pendu"
          /\ shell' = [shell EXCEPT !.reste = @ - 1, !.pc = IF shell.reste = 1 THEN "finJeu" ELSE @]
       \/ shell.jeu = "pendu" /\ UNCHANGED shell
    /\ UNCHANGED enfants

\* cmd_theme(): no melody, or one played once.
cmd_theme ==
    /\ shell.pc = "theme"
    /\ \/ Va("invite") /\ UNCHANGED enfants
       \/ LET Suite(p) == IF p = Aucun THEN Va("invite")
                          ELSE shell' = [shell EXCEPT !.pc = "finJeu", !.pid_player = p]
          IN  start("une fois", Suite)

\* The player stopped, but not waited for.
ApresKillSansWait(jeu) == IF jeu = "theme" THEN "invite" ELSE "finale"

\* Where a command goes after it has killed the player.
ApresKill(jeu) == "recueille"

\* The end of a game, or a key: kill() of the player, which may have ended.
ArreteMusique ==
    /\ shell.pc = "finJeu"
    /\ IF shell.pid_player = Aucun THEN Va("finale") /\ UNCHANGED enfants
       ELSE Tue(shell.pid_player) /\ Va(ApresKill(shell.jeu))

RecueilleJoueur ==
    /\ shell.pc = "recueille" /\ ~enfants[shell.pid_player].vivant
    /\ Recueille(shell.pid_player)
    /\ shell' = [shell EXCEPT !.pc = IF shell.jeu = "theme" THEN "invite" ELSE "finale",
                              !.pid_player = Aucun]

\* The last melody of a game, which it waits for.
Finale ==
    /\ shell.pc = "finale"
    /\ LET Suite(p) == shell' = [shell EXCEPT !.pc = IF p = Aucun THEN "invite" ELSE "attendFinale",
                                              !.pid_player = p]
       IN  start("une fois", Suite)

AttendFinale ==
    /\ shell.pc = "attendFinale" /\ ~enfants[shell.pid_player].vivant
    /\ Recueille(shell.pid_player)
    /\ shell' = [shell EXCEPT !.pc = "invite", !.pid_player = Aucun]

\* A melody, or a test, comes to its end; play_melody_proc_loop() and
\* idle_proc() have none.
Finit(p) ==
    /\ p \in Enfants /\ enfants[p].nom \in {"une fois", "test"} /\ enfants[p].vivant
    /\ Tue(p)
    /\ UNCHANGED shell

ShellInit ==
    /\ shell = [pc |-> "invite", jeu |-> "", pid_player |-> Aucun,
                try_left |-> 0, reste |-> 0, numero |-> Aucun]
    /\ enfants = [p \in {} |-> [nom |-> "", vivant |-> FALSE]]

ShellNext ==
    \/ superShell \/ Confirme \/ cmd_test \/ cmd_create_proc \/ cmd_kill \/ cmd_wait \/ Attend
    \/ cmd_ps \/ cmd_exit \/ CommenceJeu \/ Propose \/ cmd_theme
    \/ ArreteMusique \/ RecueilleJoueur \/ Finale \/ AttendFinale
    \/ \E p \in PidsFils : Finit(p)

-----------------------------------------------------------------------------
EstJoueur(p) == enfants[p].nom \in {"boucle", "une fois"}

\* A child that plays reads a Theme on the stack of the command that started
\* it: the command is still there, and knows it.  So no player, even ended,
\* is left at the prompt, the pid that a command kills is never that of another
\* process, and at most one melody is played (theme.c cmd_theme, pendu.c
\* cmd_pendu, more_less_game.c).
JoueurTenu ==
    \A p \in Enfants : EstJoueur(p) =>
        /\ shell.pid_player = p
        /\ shell.pc \in {"joue", "finJeu", "recueille", "attendFinale"}

=============================================================================
