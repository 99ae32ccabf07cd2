------------------------------- MODULE Ecran -------------------------------
(***************************************************************************)
(* The screen, kernel/console.c: the cursor, the video memory, and the     *)
(* buffer of the lines printed, from which the scroll keys redraw it.      *)
(*                                                                         *)
(* A cell is blank, a character of text or a character of the clock.  What *)
(* the code writes below the last line is not displayed and not modelled.  *)
(***************************************************************************)
EXTENDS Integers, Sequences

CONSTANTS
    Hauteur, Largeur,   \* HAUTEUR, LARGEUR
    Tabulation,         \* 8
    TamponLignes,       \* the lines of screen_buffer
    IdStarts            \* the arguments of set_id_start

ASSUME EcranAssumption ==
    /\ Hauteur \in Nat \ {0, 1} /\ Largeur \in Nat
    /\ Tabulation \in Nat \ {0, 1} /\ Tabulation < Largeur
    /\ TamponLignes \in Nat /\ TamponLignes >= Hauteur
    /\ IdStarts \subseteq Int

VARIABLES
    ecran,      \* cursor, video memory, screen_buffer and its two indices
    cadre,      \* no program has put the start of the lines beyond the last
                \* column (history)
    fidele      \* and no line was wrapped or scrolled by a key since the screen
                \* was cleared (history)

ecranVars == <<ecran, cadre, fidele>>

Lignes == 0 .. Hauteur - 1
Colonnes == 0 .. Largeur - 1
LigneBlanche == [j \in Colonnes |-> " "]

place_curseur(e, lig, col) == [e EXCEPT !.ligne = lig, !.colonne = col]

\* ecrit_car() at the cursor and the same in screen_buffer.  A column beyond
\* the last one is on the line below.
Ecrit(e, col, c) ==
    LET k == col \div Largeur
        j == col % Largeur
        t == IF e.buff_ligne + k < TamponLignes
             THEN [e EXCEPT !.screen_buffer[e.buff_ligne + k][j] = c] ELSE e
    IN  IF e.ligne + k \in Lignes THEN [t EXCEPT !.video[e.ligne + k][j] = c] ELSE t

efface_ligne(e) ==
    LET vide(r) == [j \in Colonnes |-> IF j >= e.id_col_start THEN " " ELSE r[j]]
        t == [e EXCEPT !.screen_buffer[e.buff_ligne] = vide(@), !.colonne = e.id_col_start]
    IN  IF e.ligne \in Lignes THEN [t EXCEPT !.video[e.ligne] = vide(@)] ELSE t

efface_ecran(e) ==
    [e EXCEPT !.video = [i \in Lignes |-> LigneBlanche], !.buff_display_ligne = e.buff_ligne]

\* defilement(), at the end of traite_car(): the cursor never rests on the
\* last line.
FinTraite(e) ==
    IF e.ligne # Hauteur - 1 THEN e
    ELSE [e EXCEPT !.video = [i \in Lignes |-> IF i = Hauteur - 1 THEN LigneBlanche
                                               ELSE e.video[i + 1]],
                   !.buff_display_ligne = @ + 1, !.ligne = Hauteur - 2, !.colonne = 0]

\* A full line goes on below, at the first column.
Imprime(e, c) ==
    LET t == Ecrit(e, e.colonne, c)
    IN  IF (e.colonne + 1) % Largeur = 0 THEN place_curseur(t, (e.ligne + 1) % Hauteur, 0)
        ELSE place_curseur(t, e.ligne, e.colonne + 1)

\* The rest of a division in C has the sign of the dividend: beyond the first
\* tabulation stop the column goes back, and the text goes to the next line.
Tabule(e) ==
    LET c == IF e.colonne % Tabulation = 0 THEN e.colonne + 1 ELSE e.colonne
    IN  IF c < Tabulation THEN place_curseur(e, e.ligne, Tabulation)
        ELSE [place_curseur(e, e.ligne + 1, c - (c % Tabulation)) EXCEPT !.buff_ligne = @ + 1]

\* A new line that the buffer does not hear of.
NouvelleLigneSeule(e) == place_curseur(e, (e.ligne + 1) % Hauteur, e.id_col_start)

NouvelleLigne(e) ==
    [place_curseur(e, (e.ligne + 1) % Hauteur, e.id_col_start) EXCEPT !.buff_ligne = @ + 1]

Supprime(e) ==
    IF e.colonne > e.id_col_start
    THEN place_curseur(Ecrit(e, e.colonne - 1, " "), e.ligne, e.colonne - 1) ELSE e

Recule(e) ==
    place_curseur(e, e.ligne,
        IF e.colonne > e.id_col_start THEN e.colonne - 1 ELSE e.id_col_start)

\* traite_car(); a control character is '^' and a letter.
traite_car(e, c) ==
    CASE c = "bs" -> FinTraite(Recule(e))
      [] c = "ht" -> FinTraite(Tabule(e))
      [] c = "lf" -> FinTraite(NouvelleLigne(e))
      [] c = "ff" -> FinTraite(place_curseur(efface_ecran(e), 0, 0))
      [] c = "cr" -> FinTraite(place_curseur(e, e.ligne, e.id_col_start))
      [] c = "del" -> FinTraite(Supprime(e))
      [] c = "rien" -> FinTraite(e)
      [] c = "ctl" -> FinTraite(Imprime(FinTraite(Imprime(e, "a")), "a"))
      [] c = "car" -> FinTraite(Imprime(e, "a"))

\* A printed character that fills a line.
Deborde(e, c) ==
    \/ c \in {"car", "ctl"} /\ e.colonne + 1 = Largeur
    \/ c = "ctl" /\ e.colonne + 2 = Largeur

\* printf(), cons_write() and the echo of the keyboard.  ESC and BEL leave
\* the cursor alone.  TamponLignes bounds the lines printed: the code goes on
\* beyond the end of screen_buffer.
Caractere(c) ==
    /\ c \in {"lf", "ht"} => ecran.buff_ligne < TamponLignes - 1
    /\ ecran' = traite_car(ecran, c)
    /\ ecran'.buff_display_ligne <= TamponLignes
    /\ fidele' = IF c = "ff"
                 THEN cadre /\ ecran.screen_buffer[ecran.buff_ligne] = LigneBlanche
                 ELSE fidele /\ ~Deborde(ecran, c)
    /\ UNCHANGED cadre

\* A line of the history recalled: the line is cleared and printed again.
Rappelle(n) ==
    /\ LET e == efface_ligne(ecran)
       IN  /\ ecran' = IF n = 0 THEN e ELSE traite_car(e, "car")
           /\ fidele' = (fidele /\ (n # 0 => ~Deborde(e, "car")))
    /\ ecran'.buff_display_ligne <= TamponLignes
    /\ UNCHANGED cadre

avance_curseur ==
    /\ (ecran.colonne + 1) % Largeur # 0
    /\ ecran' = place_curseur(ecran, ecran.ligne, ecran.colonne + 1)
    /\ UNCHANGED <<cadre, fidele>>

\* The limit itself is accepted: the lines then start beyond the last column.
set_id_start(i) ==
    /\ i \in 0 .. Largeur
    /\ ecran' = [ecran EXCEPT !.id_col_start = i]
    /\ cadre' = (cadre /\ i # Largeur)
    /\ fidele' = (fidele /\ i # Largeur)

\* The clock in the upper right corner, ecrit_temps().
ecrit_temps ==
    ecran' = [ecran EXCEPT !.video[0][Largeur - 1] = "t"] /\ UNCHANGED <<cadre, fidele>>

\* The lines from buff_display_ligne on, as many as there are.
display_buff(e) ==
    [e EXCEPT !.video = [i \in Lignes |->
        IF e.buff_display_ligne + i <= e.buff_ligne
        THEN e.screen_buffer[e.buff_display_ligne + i] ELSE e.video[i]]]

defillement_haut ==
    /\ ecran.buff_display_ligne > 0
    /\ ecran' = display_buff([ecran EXCEPT !.buff_display_ligne = @ - 1])
    /\ fidele' = FALSE /\ UNCHANGED cadre

defillement_bas ==
    /\ ecran' = efface_ligne(
           IF ecran.buff_display_ligne + Hauteur <= ecran.buff_ligne + 1
           THEN place_curseur(display_buff([ecran EXCEPT !.buff_display_ligne = @ + 1]),
                              Hauteur - 1, ecran.id_col_start)
           ELSE ecran)
    /\ fidele' = FALSE /\ UNCHANGED cadre

\* The screen is cleared by the banner.
EcranInit ==
    /\ ecran = [ligne |-> 0, colonne |-> 0, id_col_start |-> 0,
                video |-> [i \in Lignes |-> LigneBlanche],
                screen_buffer |-> [i \in 0 .. TamponLignes - 1 |-> LigneBlanche],
                buff_ligne |-> 0, buff_display_ligne |-> 0]
    /\ cadre = TRUE /\ fidele = TRUE

EcranNext ==
    \/ \E c \in {"bs", "ht", "lf", "ff", "cr", "del", "rien", "ctl", "car"} : Caractere(c)
    \/ \E n \in 0 .. 1 : Rappelle(n)
    \/ \E i \in IdStarts : set_id_start(i)
    \/ avance_curseur \/ ecrit_temps \/ defillement_haut \/ defillement_bas

SpecEcran == EcranInit /\ [][EcranNext]_ecranVars

-----------------------------------------------------------------------------
\* The line of screen_buffer that line i of the screen shows.
Miroir(i) == ecran.buff_ligne - ecran.ligne + i

\* The screen and the buffer the scroll keys redraw it from hold the same
\* lines at the same place, until a line is wrapped (which the buffer does not
\* count) or a key has scrolled, and the cursor stays above the last line.  It
\* stays in the columns until a program makes the lines start beyond them, and
\* then goes at most one line too far (console.c: traite_car writes both, '\n',
\* tabulations and defilement move both; set_id_start accepts LARGEUR).
EcranFidele ==
    /\ ecran.colonne \in 0 .. 2 * Largeur - 1
    /\ cadre => ecran.colonne \in Colonnes
    /\ fidele =>
         /\ ecran.ligne \in 0 .. Hauteur - 2
         /\ ecran.buff_display_ligne + ecran.ligne = ecran.buff_ligne
         /\ \A i \in 0 .. ecran.ligne, j \in Colonnes :
              ecran.video[i][j] \in {"t", ecran.screen_buffer[Miroir(i)][j]}
         /\ \A i \in ecran.ligne + 1 .. Hauteur - 1, j \in Colonnes :
              ecran.video[i][j] \in {"t", " "}

=============================================================================
