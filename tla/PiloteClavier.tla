---------------------------- MODULE PiloteClavier ----------------------------
(***************************************************************************)
(* The keyboard driver (kernel/kbd-linux and its glue, keyboard-glue.c):   *)
(* scancodes come byte by byte from the controller, do_scancode turns them *)
(* into keycodes, modifier counts, lights and strings for keyboard_data.   *)
(*                                                                         *)
(* The environment is a keyboard with the keys Touches: a key is pressed,  *)
(* repeated while it is held, released, each time as the bytes its make or *)
(* break code has; some keys may be held when the system boots, so that    *)
(* the driver sees their release without having seen them pressed.         *)
(*                                                                         *)
(* key_down and shift_state are sets of keycodes and of modifiers; a       *)
(* keysym of the key maps is a pair <<type, value>>.  The default map has  *)
(* no dead key, no compose key and no lock or sticky modifier, and nobody  *)
(* changes the mode of the console: lockstate, slockstate, diacr and       *)
(* dead_key_next stay 0, kbdmode stays VC_XLATE.                           *)
(***************************************************************************)
EXTENDS Integers, Sequences, FiniteSets, SequencesExt

CONSTANTS
    TouchesClavier, \* the keys of the keyboard, by keycode
    NpadMax         \* bound on the number typed on the keypad (see Appuie)

VARIABLES
    pilote,     \* the static variables of keyboard.c and scancode.c
    ledstate,   \* the lights last sent to the keyboard
    touches,    \* the keys that are held
    ligne,      \* the bytes the keyboard still has to send
    suivi       \* history: "fidele" until the release of a key that was not
                \* seen pressed ("douteux"), until the modifiers are computed
                \* again ("refait")

piloteVars == <<pilote, ledstate, touches, ligne, suivi>>

Mods == {"shift", "altgr", "ctrl", "alt"}
Voyants == {"scroll", "num", "caps"}

\* scancode.c: the keycodes of the keys whose codes start with e0.
e0_keys ==
    [c \in 0 .. 127 |->
        CASE c = 28 -> 96  [] c = 29 -> 97  [] c = 53 -> 98  [] c = 55 -> 99
          [] c = 56 -> 100 [] c = 70 -> 101 [] c = 71 -> 102 [] c = 72 -> 103
          [] c = 73 -> 104 [] c = 75 -> 105 [] c = 76 -> 124 [] c = 77 -> 106
          [] c = 78 -> 118 [] c = 79 -> 107 [] c = 80 -> 108 [] c = 81 -> 109
          [] c = 82 -> 110 [] c = 83 -> 111 [] c = 111 -> 112
          [] c \in 61 .. 65 -> c + 52
          [] c \in 91 .. 93 -> c + 34
          [] OTHER -> 0]

\* scancode.c: the keycodes of the codes from SC_LIM (89) up.
high_keys ==
    [c \in 89 .. 127 |->
        CASE c \in 89 .. 92 -> c + 35 [] c = 109 -> 122 [] c = 111 -> 123
          [] c = 115 -> 89 [] c = 116 -> 120 [] c \in 119 .. 124 -> c - 29
          [] c = 125 -> 124 [] c = 126 -> 121 [] OTHER -> 0]

\* A key has a code below SC_LIM, or one after e0; 119 is Pause.
ASSUME PiloteAssumption ==
    /\ TouchesClavier \subseteq (1 .. 88) \cup ({e0_keys[c] : c \in 0 .. 127} \ {0}) \cup {119}
    /\ NpadMax \in Nat

\* keyboard_pckbd_translate: the keycode (0: none) and the new prev_scancode.
Traduit(prev, sc) ==
    LET c == sc % 128
    IN  CASE sc \in {224, 225} -> [code |-> 0, prev |-> sc]
          [] sc \notin {224, 225} /\ prev = 0 ->
                [code |-> IF c >= 89 THEN high_keys[c] ELSE c, prev |-> 0]
          [] sc \notin {224, 225} /\ prev = 224 ->
                [code |-> IF c \in {42, 54} THEN 0 ELSE e0_keys[c], prev |-> 0]
          [] sc \notin {224, 225} /\ prev = 225 ->
                [code |-> 0, prev |-> IF c = 29 THEN 256 ELSE 0]
          [] sc \notin {224, 225} /\ prev = 256 ->
                [code |-> IF c = 69 THEN 119 ELSE 0, prev |-> 0]

\* keyboard_pckbd_unexpected_up: is this release still taken as a release ?
RelacheAdmis(code) == code < 89 /\ code # 85

(***************************************************************************)
(* The default key maps.                                                   *)
(***************************************************************************)

\* The keysym of the keys that have the same one in every map.
Commun(k) ==
    CASE k \in {42, 54} -> <<"shift", "shift">>
      [] k \in {29, 97} -> <<"shift", "ctrl">>
      [] k = 56 -> <<"shift", "alt">>
      [] k = 100 -> <<"shift", "altgr">>
      [] k = 58 -> <<"spec", "caps_toggle">>
      [] k = 101 -> <<"spec", "send_intr">>
      [] k = 119 -> <<"fn", 29>>
      [] OTHER -> <<"spec", "do_null">>

Ctrl == {{"ctrl"}, {"altgr", "ctrl"}}

\* key_maps: the map of a set of modifiers, for the keys of the model.
key_map(mods, k) ==
    CASE k = 16 /\ mods \in Ctrl -> <<"latin", "^A">>
      [] k = 16 /\ mods = {"shift"} -> <<"letter", "A">>
      [] k = 16 /\ mods \in {{}, {"altgr"}} -> <<"letter", "a">>
      [] k = 16 /\ "alt" \in mods ->
            <<"meta", IF "ctrl" \in mods THEN "^A" ELSE "a">>
      [] k = 28 -> IF mods = {"alt"} THEN <<"meta", "\r">>
                                      ELSE <<"spec", "enter">>
      [] k = 59 /\ mods \in {{}, {"shift"}, {"ctrl"}} ->
            <<"fn", IF mods = {} THEN 0 ELSE IF "ctrl" \in mods THEN 34 ELSE 12>>
      [] k = 59 /\ "alt" \in mods -> <<"cons", 0>>
      [] k = 69 -> IF mods = {"altgr"} THEN <<"ascii", 20>>
                                        ELSE <<"spec", "num">>
      [] k = 70 /\ mods # {"ctrl", "alt"} /\ mods # {"altgr", "ctrl"} ->
            <<"spec", CASE mods = {"shift"} -> "show_mem" [] mods = {"altgr"} -> "show_ptregs"
                        [] mods = {"ctrl"} -> "show_state" [] OTHER -> "hold">>
      [] k = 79 -> IF mods = {"altgr"} THEN <<"ascii", 11>>
                   ELSE IF mods = {"alt"} THEN <<"ascii", 1>> ELSE <<"pad", 1>>
      [] k = 103 -> IF mods = {"alt"} THEN <<"spec", "spawn_console">>
                                       ELSE <<"cur", "A">>
      [] OTHER -> Commun(k)

CartesDefinies == {{}, {"shift"}, {"altgr"}, {"ctrl"}, {"altgr", "ctrl"},
                   {"alt"}, {"ctrl", "alt"}}

Bascule(S, x) == (S \ {x}) \cup ({x} \ S)

(***************************************************************************)
(* The functions of keyboard.c, on the record of its static variables.     *)
(* emis is what keyboard_data has received during the current scancode.    *)
(***************************************************************************)

\* sorte: a character, a code or the number of a function key.
put_queue(s, sorte, c) == [s EXCEPT !.emis = Append(@, <<sorte, c>>)]

\* compute_shiftstate: the counts again from key_down, by the plain map.
DuModificateur(downs, m) ==
    {k \in downs : key_map({}, k) = <<"shift", m>>}

compute_shiftstate(s) ==
    [s EXCEPT !.k_down = [m \in Mods |-> Cardinality(DuModificateur(s.key_down, m))],
              !.shift_state = {m \in Mods : DuModificateur(s.key_down, m) # {}}]

\* do_shift: counts the keys that give one modifier; a release that ends a
\* modifier sends the number typed on the keypad.
Compte(s, m, up) ==
    LET n == IF ~up THEN s.k_down[m] + 1
             ELSE IF s.k_down[m] > 0 THEN s.k_down[m] - 1 ELSE 0
    IN  [s EXCEPT !.k_down[m] = n,
                  !.shift_state = IF n > 0 THEN @ \cup {m} ELSE @ \ {m}]

EnvoieCode(s, t, up) ==
    IF up /\ t.shift_state # s.shift_state /\ s.npadch # -1
    THEN [put_queue(t, "code", s.npadch % 256) EXCEPT !.npadch = -1] ELSE t

\* Repeats are counted.
do_shift_repete(s, m, up, rep) == EnvoieCode(s, Compte(s, m, up), up)

do_shift(s, m, up, rep) ==
    IF rep THEN s ELSE EnvoieCode(s, Compte(s, m, up), up)

\* do_ascii: one more digit of the number, decimal or hexadecimal.
do_ascii(s, v) ==
    LET base == IF v < 10 THEN 10 ELSE 16
        x == IF v < 10 THEN v ELSE v - 10
    IN  [s EXCEPT !.npadch = IF @ = -1 THEN x ELSE @ * base + x]

\* func_table: the key sequence of a function key; the table ends at 25.
do_fn(s, v) == IF v <= 25 THEN put_queue(s, "fn", v) ELSE s

applkey(s, c) == put_queue(s, "ESC[", c)

\* do_pad, for the key 1: a digit, or the key Select when NumLock is off.
do_pad(s, v) == IF "num" \in s.flags THEN put_queue(s, "code", v) ELSE do_fn(s, 23)

\* spec_fn_table; the entries left out act on nothing the kernel has.
do_spec(s, f, rep) ==
    CASE f = "do_null" -> compute_shiftstate(s)
      [] f = "enter" -> put_queue(s, "car", "\r")
      [] f = "caps_toggle" /\ ~rep -> [s EXCEPT !.flags = Bascule(@, "caps")]
      [] f = "num" /\ ~rep -> [s EXCEPT !.flags = Bascule(@, "num")]
      [] f = "hold" /\ ~rep -> [s EXCEPT !.stopped = ~@]
      [] OTHER -> s

\* key_handler: a release only matters to do_shift.
key_handler(s, sym, up, rep) ==
    LET type == sym[1]
        v == sym[2]
    IN  CASE type = "shift" -> do_shift(s, v, up, rep)
          [] type # "shift" /\ up -> s
          [] type \in {"latin", "letter"} /\ ~up -> put_queue(s, "car", v)
          [] type = "meta" /\ ~up -> put_queue(put_queue(s, "car", "ESC"), "car", v)
          [] type = "ascii" /\ ~up -> do_ascii(s, v)
          [] type = "fn" /\ ~up -> do_fn(s, v)
          [] type = "pad" /\ ~up -> do_pad(s, v)
          [] type = "cur" /\ ~up -> applkey(s, v)
          [] type = "spec" /\ ~up -> do_spec(s, v, rep)
          [] type = "cons" /\ ~up -> s

\* handle_scancode, once the keycode is known; up as the code makes it.
Touche(s, code, up, rep) ==
    LET mods == s.shift_state
        sym == key_map(mods, code)
        bascule == Bascule(mods, "shift")
        lettre == IF sym[1] = "letter" /\ "caps" \in s.flags /\ bascule \in CartesDefinies
                  THEN key_map(bascule, code) ELSE sym
    IN  IF mods \in CartesDefinies
        THEN key_handler(s, IF sym[1] = "letter" THEN <<"latin", lettre[2]>> ELSE sym, up, rep)
        ELSE compute_shiftstate(s)

handle_scancode(s, sc) ==
    LET t == Traduit(s.prev, sc)
        bas == sc < 128
        vu == t.code \in s.key_down
        s1 == [s EXCEPT !.prev = t.prev, !.emis = <<>>,
                        !.key_down = IF t.code = 0 THEN @
                                     ELSE IF bas THEN @ \cup {t.code} ELSE @ \ {t.code}]
    IN  IF t.code = 0 THEN s1
        ELSE Touche(s1, t.code, ~bas /\ (vu \/ RelacheAdmis(t.code)), bas /\ vu)

(***************************************************************************)
(* The keyboard and do_scancode.                                           *)
(***************************************************************************)

\* The bytes of a make code; 128 more on the last one makes a break code.
CodeDe(k) == IF k < 89 THEN k ELSE CHOOSE c \in 0 .. 127 : e0_keys[c] = k
OctetsTouche(k, haut) ==
    (IF k < 89 THEN <<>> ELSE <<224>>) \o <<CodeDe(k) + (IF haut THEN 128 ELSE 0)>>
Pause == <<225, 29, 69, 225, 157, 197>>

PiloteInit ==
    /\ pilote = [init |-> FALSE, prev |-> 0, key_down |-> {},
                 k_down |-> [m \in Mods |-> 0], shift_state |-> {}, npadch |-> -1,
                 flags |-> {}, stopped |-> FALSE, emis |-> <<>>]
    /\ ledstate = {"indefini"}
    /\ touches \in SUBSET (TouchesClavier \ {119})
    /\ ligne = <<>>
    /\ suivi = "fidele"

\* A key is pressed, or repeated while it is held.  NpadMax bounds the number
\* typed on the keypad, which the code lets grow.
Appuie(k) ==
    /\ ligne = <<>>
    /\ k \in {69, 79} => pilote.npadch <= NpadMax
    /\ ligne' = IF k = 119 THEN Pause ELSE OctetsTouche(k, FALSE)
    /\ touches' = IF k = 119 THEN touches ELSE touches \cup {k}
    /\ UNCHANGED <<pilote, ledstate, suivi>>

Relache(k) ==
    /\ ligne = <<>> /\ k \in touches
    /\ ligne' = OctetsTouche(k, TRUE)
    /\ touches' = touches \ {k}
    /\ UNCHANGED <<pilote, ledstate, suivi>>

\* Does this byte end a release of a key that was never seen pressed, or does
\* it make the driver recompute the modifiers ?
Inattendu(s, sc) ==
    LET c == Traduit(s.prev, sc).code IN sc >= 128 /\ c # 0 /\ c \notin s.key_down
Recalcule(s, sc) ==
    LET c == Traduit(s.prev, sc).code
    IN  /\ c # 0
        /\ \/ s.shift_state \notin CartesDefinies
           \/ /\ key_map(s.shift_state, c) = <<"spec", "do_null">>
              /\ sc < 128 \/ (c \notin s.key_down /\ ~RelacheAdmis(c))

\* do_scancode: the first one initialises the driver (keyboard_init), and
\* each runs the tasklet, kbd_bh, which shows the flags on the lights.
do_scancode ==
    /\ ligne # <<>>
    /\ ligne' = Tail(ligne)
    /\ pilote' = [handle_scancode(pilote, Head(ligne)) EXCEPT !.init = TRUE]
    /\ ledstate' = pilote'.flags
    /\ suivi' = IF Recalcule(pilote, Head(ligne)) /\ suivi = "douteux" THEN "refait"
                ELSE IF Inattendu(pilote, Head(ligne)) THEN "douteux" ELSE suivi
    /\ UNCHANGED touches

PiloteNext ==
    \/ \E k \in TouchesClavier : Appuie(k) \/ Relache(k)
    \/ do_scancode

SpecPilote == PiloteInit /\ [][PiloteNext]_piloteVars

-----------------------------------------------------------------------------
(***************************************************************************)
(* Properties.                                                             *)
(***************************************************************************)

\* The driver's state has the shape of its variables; what it takes for held is
\* held, up to the byte on its way; a count, which has 8 bits, is at most twice
\* the number of the keys of its modifier, for the release of a key after e0
\* that was held before the boot counts as if it were pressed.
TypePilote ==
    /\ pilote.prev \in {0, 224, 225, 256}
    /\ DOMAIN pilote.k_down = Mods
    /\ \A m \in Mods :
         pilote.k_down[m] \in 0 .. 2 * Cardinality(DuModificateur(TouchesClavier, m))
    /\ pilote.shift_state \subseteq Mods /\ pilote.flags \subseteq Voyants
    /\ pilote.npadch \in -1 .. 16 * NpadMax + 20
    /\ ledstate \in (SUBSET Voyants) \cup {{"indefini"}}
    /\ ligne = <<>> => pilote.prev = 0 /\ pilote.key_down \ {119} \subseteq touches

\* The modifiers are those of the keys held (keyboard.c, do_shift): through
\* repeats, two keys of one modifier and sets of modifiers that have no map,
\* the count of each modifier is the number of its keys seen pressed and not
\* released, unless a key held since before the boot was released since the
\* counts were last recomputed.
ModificateursJustes ==
    suivi # "douteux" =>
        /\ \A m \in Mods : pilote.k_down[m] = Cardinality(DuModificateur(pilote.key_down, m))
        /\ pilote.shift_state = {m \in Mods : pilote.k_down[m] > 0}

\* A number typed on the keypad is not forgotten: while one is pending, some
\* modifier is still held, so that a release to come will send it.
CodeEnAttente == suivi = "fidele" /\ pilote.npadch # -1 => pilote.shift_state # {}

=============================================================================
