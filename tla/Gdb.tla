--------------------------------- MODULE Gdb ---------------------------------
(***************************************************************************)
(* The debugger stub: kernel/debugger.c, gdb_serial.c and                  *)
(* gdb_serial_support.c, in conversation with gdb over a serial line that  *)
(* loses and damages bytes.                                                *)
(*                                                                         *)
(* The line carries bytes.  A command of the model is its letter and at    *)
(* most one hexadecimal digit; the registers are one byte and the memory   *)
(* two, on two pages that may be mapped or not.  gdb is external: it waits *)
(* for the acknowledgement of a command, then for its answer, and starts   *)
(* again on '-' or when nothing moves any more.                            *)
(***************************************************************************)
EXTENDS Integers, Sequences, SequencesExt, FiniteSetsExt

CONSTANTS
    Programmes,     \* the sequences of commands gdb may send
    Traps,          \* the exceptions that stop the kernel
    BufMax,         \* BUFMAX
    Parasites,      \* what a damaged byte becomes
    PannesMax       \* bound on the bytes lost or damaged

VARIABLES
    cible,      \* the stub: buffers, registers, memory, where it is
    hote,       \* gdb
    versCible,  \* the bytes on their way to the stub
    versHote,   \* the bytes on their way to gdb
    pannes      \* bytes lost or damaged so far

gdbVars == <<cible, hote, versCible, versHote, pannes>>

\* '$', '#', '+', '-', '*', ':', '}'.
Dollar == 36    Diese == 35    Plus == 43    Moins == 45
Etoile == 42    DeuxPoints == 58    Acc == 125

hexchars(n) == IF n < 10 THEN 48 + n ELSE 87 + n
hex(c) == CASE c \in 48 .. 57 -> c - 48 [] c \in 97 .. 102 -> c - 87
            [] c \in 65 .. 70 -> c - 55 [] OTHER -> -1

Somme(s) == FoldLeft(LAMBDA a, b : (a + b) % 256, 0, s)

\* putfrags: a byte in hexadecimal; a run of equal bytes with equal nibbles
\* as the digit, '*' and its length.
Hexifie(s) ==
    LET n == Len(s)
        fin(i) == Min({j \in i + 1 .. n : s[j] # s[i]} \cup {n + 1, i + 49})
        e[i \in 1 .. n + 1] ==
            IF i > n THEN <<>>
            ELSE IF i < n /\ s[i + 1] = s[i] /\ s[i] \div 16 = s[i] % 16
            THEN <<hexchars(s[i] % 16), Etoile, 28 + 2 * (fin(i) - i)>> \o e[fin(i)]
            ELSE <<hexchars(s[i] \div 16), hexchars(s[i] % 16)>> \o e[i + 1]
    IN  e[1]

Paquet(d) == <<Dollar>> \o d \o
             <<Diese, hexchars(Somme(d) \div 16), hexchars(Somme(d) % 16)>>

-----------------------------------------------------------------------------
\* gdb_copyout, page by page: the pages before the first that is not mapped
\* are written.
Mappees(c, p) == \A q \in 1 .. p : q \in c.pages
gdb_copyout(c, v) == [p \in 1 .. 2 |-> IF Mappees(c, p) THEN v ELSE c.mem[p]]

\* The signal a trap is reported as: debugger().
Signal(trap) ==
    CASE trap \in {0, 4, 5, 7, 8, 9, 15} -> 8
      [] trap \in {1, 3} -> 5
      [] trap \in 10 .. 14 -> 11
      [] OTHER -> 4

OK == <<79, 75>>
Erreur(n) == <<69>> \o Hexifie(<<n>>)
Rapport(c) == <<83>> \o Hexifie(<<c.signo>>)

\* The argument of a command: 17 times its digit, or -1.
Arg(d) == IF Len(d) < 2 \/ hex(d[2]) = -1 THEN -1 ELSE 17 * hex(d[2])

\* The switch of gdb_serial_converse: what a command answers ...
Reponse(c, d) ==
    LET l == IF d = <<>> THEN 0 ELSE d[1]
    IN  CASE l = 103 -> Hexifie(<<c.regs>>)
          [] l = 71 -> IF Arg(d) = -1 THEN Erreur(4) ELSE OK
          [] l = 109 -> IF Mappees(c, 2) THEN Hexifie(c.mem) ELSE Erreur(3)
          [] l = 77 -> IF Arg(d) = -1 THEN Erreur(2)
                       ELSE IF Mappees(c, 2) THEN OK ELSE Erreur(3)
          [] l = 63 -> Rapport(c)
          [] l = 68 -> OK
          [] OTHER -> <<>>

\* ... and what it does.
Effet(c, d) ==
    LET l == IF d = <<>> THEN 0 ELSE d[1]
        c1 == [c EXCEPT !.connected = l \notin {68, 107}]
    IN  CASE l = 71 /\ Arg(d) # -1 -> [c1 EXCEPT !.regs = Arg(d)]
          [] l = 77 /\ Arg(d) # -1 -> [c1 EXCEPT !.mem = gdb_copyout(c, Arg(d))]
          [] l = 99 -> [c1 EXCEPT !.signo = 0, !.pc = "court"]
          [] l = 107 -> [c1 EXCEPT !.pc = "reboot"]
          [] l = 68 -> [c1 EXCEPT !.fin = TRUE]
          [] OTHER -> c1

\* putfrags: send, and wait for '+'.
Envoie(c, d) == [c EXCEPT !.pc = "acquit", !.reponse = d]

\* The stub's output during a step is sent after the previous one.
Emet(s) == versHote' = versHote \o s

Execute(c, d, prefixe) ==
    LET c1 == Effet(c, d)
    IN  IF c1.pc \in {"court", "reboot"} THEN cible' = c1 /\ Emet(prefixe)
        ELSE /\ cible' = Envoie(c1, Reponse(c, d))
             /\ Emet(prefixe \o Paquet(Reponse(c, d)))

-----------------------------------------------------------------------------
\* getpacket(), a byte at a time.

AttendDollar(c, b) ==
    /\ c.pc = "attend"
    /\ cible' = IF b % 128 = Dollar
                THEN [c EXCEPT !.pc = "donnees", !.buffer = <<>>] ELSE c
    /\ UNCHANGED versHote

\* A packet that fills the buffer has no checksum: xmitcsum keeps its initial
\* value, 255, with which the sum is compared all the same.
LitDonnees(c, b) ==
    /\ c.pc = "donnees"
    /\ LET ferme == b = Diese /\ (c.buffer = <<>> \/ Last(c.buffer) # Acc)
           buf == IF ferme THEN c.buffer ELSE Append(c.buffer, b)
           c1 == [c EXCEPT !.buffer = buf]
           plein == [c1 EXCEPT !.reste = Len(buf) > 2 /\ buf[3] = DeuxPoints]
       IN  IF b = Diese /\ (ferme \/ Len(buf) = BufMax)
           THEN cible' = [c1 EXCEPT !.pc = "somme1"] /\ UNCHANGED versHote
           ELSE IF Len(buf) < BufMax
           THEN cible' = c1 /\ UNCHANGED versHote
           ELSE IF Somme(buf) = 255 THEN Execute(plein, buf, <<>>)
           ELSE cible' = [plein EXCEPT !.pc = "attend"] /\ UNCHANGED versHote

LitSomme1(c, b) ==
    /\ c.pc = "somme1"
    /\ cible' = [c EXCEPT !.pc = "somme2", !.xmitcsum = (16 * hex(b)) % 256]
    /\ UNCHANGED versHote

\* The checksum ignored.
SommeIgnoree(c, b) == TRUE

SommeJuste(c, b) == (c.xmitcsum + hex(b)) % 256 = Somme(c.buffer)

\* inbuf[2], which a packet of less than two characters leaves as it was, is
\* looked at in any case.
TroisiemeDeuxPoints(c) ==
    CASE Len(c.buffer) < 2 -> c.reste
      [] Len(c.buffer) = 2 -> FALSE
      [] Len(c.buffer) > 2 -> c.buffer[3] = DeuxPoints

LitSomme2(c, b) ==
    /\ c.pc = "somme2"
    /\ LET sequence == TroisiemeDeuxPoints(c)
           c1 == [c EXCEPT !.reste = sequence]
           id == SubSeq(c.buffer \o <<0, 0>>, 1, 2)
           d == IF sequence /\ Len(c.buffer) > 2 THEN SubSeq(c.buffer, 4, Len(c.buffer))
                ELSE c.buffer
           n == Len(c.buffer)
       IN  IF ~SommeJuste(c, b)
           THEN cible' = [c1 EXCEPT !.pc = "attend"] /\ Emet(<<Moins>>)
           ELSE IF sequence
           THEN Execute([c1 EXCEPT !.reste = IF n > 5 THEN c.buffer[6] = DeuxPoints
                                             ELSE n < 5], d, <<Plus>> \o id)
           ELSE Execute(c1, d, <<Plus>>)

\* What is not '+' ignored.
LitAcquitSourd(c, b) ==
    /\ c.pc = "acquit"
    /\ IF b % 128 = Plus
       THEN cible' = [c EXCEPT !.pc = IF c.fin THEN "court" ELSE "attend",
                               !.do_debug = ~c.fin, !.fin = FALSE]
       ELSE UNCHANGED cible
    /\ UNCHANGED versHote

\* putfrags: anything but '+' sends the whole packet again.
LitAcquit(c, b) ==
    /\ c.pc = "acquit"
    /\ IF b % 128 = Plus
       THEN /\ cible' = [c EXCEPT !.pc = IF c.fin THEN "court" ELSE "attend",
                                  !.do_debug = ~c.fin, !.fin = FALSE]
            /\ UNCHANGED versHote
       ELSE Emet(Paquet(c.reponse)) /\ UNCHANGED cible

\* gdb_serial_recv().
CibleLit ==
    /\ versCible # <<>>
    /\ LET b == Head(versCible)
       IN  \/ AttendDollar(cible, b)
           \/ LitDonnees(cible, b)
           \/ LitSomme1(cible, b)
           \/ LitSomme2(cible, b)
           \/ LitAcquit(cible, b)
    /\ versCible' = Tail(versCible)
    /\ UNCHANGED <<hote, pannes>>

\* trap_handler(): with the debugger enabled, a spontaneous report; without,
\* the registers on the screen, until a key is pressed.
Piege(trap) ==
    /\ cible.pc = "court"
    /\ LET c == [cible EXCEPT !.signo = Signal(trap)]
       IN  IF cible.do_debug
           THEN cible' = Envoie(c, Rapport(c)) /\ Emet(Paquet(Rapport(c)))
           ELSE cible' = [c EXCEPT !.pc = "ecran"] /\ UNCHANGED versHote
    /\ UNCHANGED <<hote, versCible, pannes>>

\* 'd' enables the debugger, 'i' returns, ESC reboots.
ToucheEcran(t) ==
    /\ cible.pc = "ecran"
    /\ CASE t = "d" ->
              LET c == [cible EXCEPT !.do_debug = TRUE]
              IN  cible' = Envoie(c, Rapport(c)) /\ Emet(Paquet(Rapport(c)))
         [] t = "i" -> cible' = [cible EXCEPT !.pc = "court"] /\ UNCHANGED versHote
         [] t = "esc" -> cible' = [cible EXCEPT !.pc = "reboot"] /\ UNCHANGED versHote
    /\ UNCHANGED <<hote, versCible, pannes>>

-----------------------------------------------------------------------------
\* gdb.

Commande(h) == h.programme[h.k]

HoteEnvoie ==
    /\ hote.pc = "envoie"
    /\ versCible' = versCible \o Paquet(Commande(hote))
    /\ hote' = [hote EXCEPT !.pc = "acquit"]
    /\ UNCHANGED <<cible, versHote, pannes>>

\* The position of the '#' that ends the frame at the head of q, or 0: the
\* byte after '*' is a length.
FinTrame(q) ==
    LET f == {j \in 2 .. Len(q) - 2 : q[j] = Diese /\ q[j - 1] # Etoile}
    IN  IF q # <<>> /\ q[1] = Dollar /\ f # {} THEN Min(f) ELSE 0

TrameJuste(q, j) ==
    (16 * hex(q[j + 1]) + hex(q[j + 2])) % 256 = Somme(SubSeq(q, 2, j - 1))

\* The next command, or the end.
Suivante(h) == [h EXCEPT !.k = @ + 1,
                         !.pc = IF h.k = Len(h.programme) THEN "fini" ELSE "envoie"]

HoteLitAcquit ==
    /\ hote.pc = "acquit" /\ versHote # <<>>
    /\ LET b == Head(versHote)
           j == FinTrame(versHote)
       IN  \/ /\ b # Dollar
              /\ versHote' = Tail(versHote)
              /\ hote' = IF b # Plus THEN hote
                         ELSE IF Commande(hote)[1] = 107 THEN Suivante(hote)
                         ELSE [hote EXCEPT !.pc = "reponse"]
              /\ versCible' = IF b = Moins THEN versCible \o Paquet(Commande(hote))
                              ELSE versCible
           \/ /\ j # 0
              /\ versHote' = SubSeq(versHote, j + 3, Len(versHote))
              /\ versCible' = Append(versCible, Plus)
              /\ UNCHANGED hote
    /\ UNCHANGED <<cible, pannes>>

HoteLitReponse ==
    /\ hote.pc = "reponse" /\ versHote # <<>>
    /\ LET b == Head(versHote)
           j == FinTrame(versHote)
       IN  \/ b # Dollar /\ versHote' = Tail(versHote) /\ UNCHANGED <<hote, versCible>>
           \/ /\ j # 0
              /\ versHote' = SubSeq(versHote, j + 3, Len(versHote))
              /\ IF TrameJuste(versHote, j)
                 THEN /\ hote' = Suivante([hote EXCEPT !.recu = SubSeq(versHote, 2, j - 1)])
                      /\ versCible' = Append(versCible, Plus)
                 ELSE versCible' = Append(versCible, Moins) /\ UNCHANGED hote
    /\ UNCHANGED <<cible, pannes>>

\* Nothing moves any more: gdb sends its command, or '-', again.
Delai ==
    /\ versCible = <<>> /\ cible.pc \notin {"court", "ecran", "reboot"}
    /\ versHote # <<>> => Head(versHote) = Dollar /\ FinTrame(versHote) = 0
    /\ hote.pc \in {"acquit", "reponse"}
    /\ versHote' = <<>>
    /\ versCible' = IF hote.pc = "acquit" THEN Paquet(Commande(hote)) ELSE <<Moins>>
    /\ UNCHANGED <<cible, hote, pannes>>

\* The line.
Perd ==
    /\ pannes < PannesMax /\ pannes' = pannes + 1
    /\ \/ versCible # <<>> /\ versCible' = Tail(versCible) /\ UNCHANGED versHote
       \/ versHote # <<>> /\ versHote' = Tail(versHote) /\ UNCHANGED versCible
    /\ UNCHANGED <<cible, hote>>

\* Any byte on its way may be damaged.
Abime(x) ==
    /\ pannes < PannesMax /\ pannes' = pannes + 1
    /\ \/ /\ \E i \in 1 .. Len(versCible) : versCible' = [versCible EXCEPT ![i] = x]
          /\ UNCHANGED versHote
       \/ /\ \E i \in 1 .. Len(versHote) : versHote' = [versHote EXCEPT ![i] = x]
          /\ UNCHANGED versCible
    /\ UNCHANGED <<cible, hote>>

\* The kernel runs with the debugger enabled and gdb waits for it to stop;
\* what inbuf holds on the stack is not known.
GdbInit ==
    /\ cible \in [pc : {"court"}, buffer : {<<>>}, xmitcsum : {0}, reste : BOOLEAN,
                  reponse : {<<>>}, fin : {FALSE}, regs : {0}, mem : {<<0, 0>>},
                  pages : SUBSET {1, 2}, signo : {0}, connected : {FALSE},
                  do_debug : {TRUE}]
    /\ hote \in [pc : {"reponse"}, k : {0}, programme : Programmes, recu : {<<>>}]
    /\ versCible = <<>> /\ versHote = <<>> /\ pannes = 0

CibleNext ==
    \/ CibleLit
    \/ \E trap \in Traps : Piege(trap)

HoteNext == HoteEnvoie \/ HoteLitAcquit \/ HoteLitReponse \/ Delai

GdbNext ==
    \/ CibleNext
    \/ \E t \in {"d", "i", "esc"} : ToucheEcran(t)
    \/ HoteNext
    \/ Perd
    \/ \E x \in Parasites : Abime(x)

\* The processor and gdb go on, and a program that is continued stops again;
\* the line is not damaged for ever.
SpecGdb == GdbInit /\ [][GdbNext]_gdbVars
           /\ WF_gdbVars(CibleNext) /\ WF_gdbVars(HoteNext)

-----------------------------------------------------------------------------
\* The bounds of the stub's variables.
TypeGdb ==
    /\ cible.pc \in {"court", "ecran", "reboot", "attend", "donnees", "somme1",
                     "somme2", "acquit"}
    /\ Len(cible.buffer) <= BufMax
    /\ cible.regs \in 0 .. 255 /\ \A p \in 1 .. 2 : cible.mem[p] \in 0 .. 255
    /\ cible.connected => cible.do_debug

\* The answer gdb takes is the answer to the command it sent, in the state of
\* the machine it describes: a lost or damaged byte, a packet sent again, an
\* acknowledgement of an older answer never pair a command with another's
\* answer (gdb_serial.c, getpacket and putfrags).
ReponseAppariee ==
    hote'.recu # hote.recu \/ (hote.pc = "reponse" /\ hote'.k # hote.k) =>
        LET d == IF hote.k = 0 THEN <<63>> ELSE Commande(hote)
        IN  hote'.recu = IF d[1] = 99 THEN Rapport(cible) ELSE Reponse(cible, d)

\* Every command has been answered, or the machine has restarted or detached,
\* which gdb may not hear of.
ConversationFinie == hote.pc = "fini" \/ cible.pc = "reboot" \/ ~cible.do_debug

=============================================================================
