------------------------------ MODULE Formats ------------------------------
(***************************************************************************)
(* Formatted printing and the reading of numbers: shared/doprnt.c,         *)
(* printf.c, sprintf.c, strtol.c, strtoul.c, div64.c and user/utils.c.     *)
(*                                                                         *)
(* A text is a sequence of characters, each a string of length one.  An    *)
(* integer argument is a word of Bits bits, a string argument a text.      *)
(* Processes of user space print at the same time: the clock may preempt   *)
(* one between two characters, but console_putbytes is a system call.      *)
(***************************************************************************)
EXTENDS Integers, Sequences, SequencesExt, FiniteSetsExt

CONSTANTS
    Bits,           \* the width of a long
    PrintfBufMax,   \* PRINTF_BUFMAX
    Imprimeurs,     \* the processes that print
    Impressions     \* what they may print at the same time: [Imprimeurs -> calls]

VARIABLES
    impression,     \* per process: its call, what is left of it, printf_state
    sortie          \* the characters on the console, with who wrote them

formatsVars == <<impression, sortie>>

Mot2 == 2 ^ Bits
Signe(u) == IF u < Mot2 \div 2 THEN u ELSE u - Mot2
Chiffre == <<"0", "1", "2", "3", "4", "5", "6", "7", "8", "9", "a", "b", "c", "d", "e", "f">>
Decimaux == {Chiffre[i] : i \in 1 .. 10}
Valeur(c) == CHOOSE v \in 0 .. 15 : Chiffre[v + 1] = c

Repete(c, n) == [i \in 1 .. (IF n > 0 THEN n ELSE 0) |-> c]
Si(b, s) == IF b THEN s ELSE <<>>

\* printnum(), and the digits of print_num.
printnum(u, base) ==
    LET f[v \in 0 .. u] == IF v < base THEN <<Chiffre[v + 1]>>
                           ELSE Append(f[v \div base], Chiffre[(v % base) + 1])
    IN  f[u]

\* The characters of s from i on that are in C end before this one.
Fin(s, i, C) == Min({j \in i .. Len(s) : s[j] \notin C} \cup {Max({i, Len(s) + 1})})
Lit(s, i) == IF i <= Len(s) THEN s[i] ELSE "nul"
Lu(s, i, j, base) == FoldLeft(LAMBDA v, c : v * base + Valeur(c), 0, SubSeq(s, i, j - 1))

-----------------------------------------------------------------------------
\* What follows one part of a directive: '0', a width, a precision, 'l'.
ApresZero(s, i) == IF Lit(s, i) = "0" THEN i + 1 ELSE i
ApresNombre(s, i) == IF Lit(s, i) = "*" THEN i + 1 ELSE Fin(s, i, Decimaux)
ApresPrecision(s, i) == IF Lit(s, i) = "." THEN ApresNombre(s, i + 1) ELSE i
ApresLong(s, i) == IF Lit(s, i) = "l" THEN i + 1 ELSE i
Nombre(s, i) == Lu(s, i, Fin(s, i, Decimaux), 10)

\* What stands between '%' and the conversion, from position i on; a width or
\* a precision of "*" takes an argument.
Directive(s, i) ==
    LET i0 == Fin(s, i, {"#", "-", "+", " "})
        drapeaux == {s[j] : j \in i .. i0 - 1}
        i1 == ApresZero(s, i0)
        i2 == ApresNombre(s, i1)
        i4 == ApresLong(s, ApresPrecision(s, i2))
        point == Lit(s, i2) = "."
    IN  [gauche |-> "-" \in drapeaux, diese |-> "#" \in drapeaux,
         plus |-> CASE "+" \in drapeaux -> "+" [] " " \in drapeaux -> " " [] OTHER -> "",
         padc |-> IF Lit(s, i0) = "0" THEN "0" ELSE " ",
         lEtoile |-> Lit(s, i1) = "*", length |-> Nombre(s, i1),
         pEtoile |-> point /\ Lit(s, i2 + 1) = "*",
         prec |-> IF point /\ Lit(s, i2 + 1) \in Decimaux THEN Nombre(s, i2 + 1) ELSE -1,
         conv |-> Lit(s, i4), suite |-> i4 + 1]

\* The padding forgets the sign.
PlaceSansSigne(d, chiffres, signe, prefixe) ==
    d.length - Len(chiffres) - Len(prefixe)
    - (IF d.prec > Len(chiffres) THEN d.prec - Len(chiffres) ELSE 0)

\* What the digits, the sign, the prefix and the precision leave of the width.
PlaceLibre(d, chiffres, signe, prefixe) ==
    d.length - Len(chiffres) - Len(signe) - Len(prefixe)
    - (IF d.prec > Len(chiffres) THEN d.prec - Len(chiffres) ELSE 0)

print_num(d, u, signe, base) ==
    LET chiffres == printnum(u, base)
        prefixe == CASE u # 0 /\ d.diese /\ base = 8 -> <<"0">>
                     [] u # 0 /\ d.diese /\ base = 16 -> <<"0", "x">>
                     [] OTHER -> <<>>
        place == PlaceLibre(d, chiffres, signe, prefixe)
    IN  Si(d.padc = " " /\ ~d.gauche, Repete(" ", place)) \o signe \o prefixe
        \o Repete("0", d.prec - Len(chiffres)) \o Si(d.padc = "0", Repete("0", place))
        \o chiffres \o Si(d.gauche /\ d.padc # "0", Repete(" ", place))

print_signed(d, u, base) ==
    IF Signe(u) < 0 THEN print_num(d, (-Signe(u)) % Mot2, <<"-">>, base)
    ELSE print_num(d, u, Si(d.plus # "", <<d.plus>>), base)

\* The count of a string cut by the precision is one too many, and so is its
\* padding on the right one too few.
print_string(d, p) ==
    LET prec == IF d.prec = -1 THEN Len(p) ELSE d.prec
        n == Max({0, Min({prec, Len(p)})})
        compte == IF Len(p) > prec THEN n + 1 ELSE n
    IN  Si(~d.gauche, Repete(" ", d.length - n)) \o SubSeq(p, 1, n)
        \o Si(d.gauche, Repete(" ", d.length - compte))

\* %b: a number, and the names of its bits; a field [i, j, nom] is the bits i
\* to j, a bit has j = 0.
print_bits(u, base, champs) ==
    LET bit(v, i) == (v \div 2 ^ (i - 1)) % 2 = 1
        texte(c) == IF c.j = 0 THEN Si(bit(u, c.i), c.nom)
                    ELSE c.nom \o printnum((u \div 2 ^ (c.j - 1)) % 2 ^ (c.i - c.j + 1), base)
        vus == SelectSeq(champs, LAMBDA c : c.j # 0 \/ bit(u, c.i))
        liste == FoldLeft(LAMBDA t, c : t \o Si(t # <<>>, <<",">>) \o texte(c), <<>>, vus)
    IN  printnum(u, base) \o Si(u # 0 /\ vus # <<>>, <<"<">> \o liste \o <<">">>)

\* One conversion: its text and the arguments it takes after the widths.
Converti(d, args, radix) ==
    LET a == args[1]
        un(t) == [texte |-> t, pris |-> 1]
    IN  CASE d.conv \in {"d", "i", "D"} -> un(print_signed(d, a, 10))
          [] d.conv \in {"u", "U"} -> un(print_num(d, a, <<>>, 10))
          [] d.conv \in {"o", "O"} -> un(print_num(d, a, <<>>, 8))
          [] d.conv \in {"x", "X"} -> un(print_num(d, a, <<>>, 16))
          [] d.conv \in {"z", "Z"} -> un(print_signed(d, a, 16))
          [] d.conv \in {"r", "R"} -> un(print_signed(d, a, radix))
          [] d.conv \in {"n", "N"} -> un(print_num(d, a, <<>>, radix))
          [] d.conv = "p" -> un(<<"0", "x">> \o
                 print_num([d EXCEPT !.padc = "0", !.length = 8], a, <<>>, 16))
          [] d.conv = "c" -> un(<<a>>)
          [] d.conv = "s" -> un(print_string(d, a))
          [] d.conv \in {"b", "B"} -> [texte |-> print_bits(a, args[2].base, args[2].champs), pris |-> 2]
          [] d.conv = "nul" -> [texte |-> <<>>, pris |-> 0]
          [] OTHER -> [texte |-> <<d.conv>>, pris |-> 0]

\* A "*" width takes a word; a negative one toggles the adjustment.
AvecEtoiles(d, args) ==
    LET l == IF d.lEtoile THEN Signe(args[1]) ELSE d.length
        reste == IF d.lEtoile THEN Tail(args) ELSE args
    IN  [d EXCEPT !.gauche = IF l < 0 THEN ~@ ELSE @, !.length = IF l < 0 THEN -l ELSE l,
                  !.prec = IF d.pEtoile THEN Signe(reste[1]) ELSE @]

Etoiles(d) == (IF d.lEtoile THEN 1 ELSE 0) + (IF d.pEtoile THEN 1 ELSE 0)

\* A directive: its text, the arguments taken with the widths, what follows.
Avance(r, d) == [texte |-> r.texte, pris |-> r.pris + Etoiles(d), suite |-> d.suite]
ExecuteDirective(d, args, radix) ==
    Avance(Converti(AvecEtoiles(d, args), SubSeq(args, Etoiles(d) + 1, Len(args)), radix), d)

\* _doprnt(): position i of the format, k arguments taken.
doprnt(fmt, args, radix) ==
    LET f[i \in 1 .. Len(fmt) + 2, k \in 0 .. Len(args)] ==
            IF i > Len(fmt) THEN <<>>
            ELSE IF fmt[i] # "%" THEN <<fmt[i]>> \o f[i + 1, k]
            ELSE LET r == ExecuteDirective(Directive(fmt, i + 1), SubSeq(args, k + 1, Len(args)), radix)
                 IN  r.texte \o f[r.suite, k + r.pris]
    IN  f[1, 0]

\* vsprintf and vsnprintf: the characters kept, and the NUL after them, which
\* a full buffer has no room for.
Tronque(max, t) ==
    SubSeq(t, 1, IF max = -1 THEN Len(t) ELSE Min({max, Len(t)})) \o <<"nul">>
vsnprintf(max, fmt, args) == Tronque(max, doprnt(fmt, args, 0))

-----------------------------------------------------------------------------
\* strtol and strtoul: blanks, a sign that strtoul has not, a prefix, digits;
\* '+' is looked at but not skipped.  The value, on a word, and where it ends.
PosChiffres(s, i, base) ==
    IF base \in {0, 16} /\ Lit(s, i) = "0" /\ Lit(s, i + 1) \in {"x", "X"}
    THEN <<i + 2, 16>>
    ELSE <<i, IF base # 0 THEN base ELSE IF Lit(s, i) = "0" THEN 8 ELSE 10>>

LuEntier(s, i, base) ==
    LET p == PosChiffres(s, i, base)
        j == Fin(s, p[1], {Chiffre[v] : v \in 1 .. p[2]})
    IN  [val |-> Lu(s, p[1], j, p[2]) % Mot2, fin |-> j]

strtoul(s, base) == LuEntier(s, Fin(s, 1, {" "}), base)
strtol(s, base) ==
    LET i == Fin(s, 1, {" "})
        neg == Lit(s, i) = "-"
        r == LuEntier(s, IF neg THEN i + 1 ELSE i, base)
    IN  [r EXCEPT !.val = Signe((IF neg THEN -@ ELSE @) % Mot2)]

\* The shell's atoi: 0 when a character is no digit.
atoi(s) ==
    LET neg == Lit(s, 1) = "-"
        d == IF neg THEN Tail(s) ELSE s
    IN  IF \E i \in 1 .. Len(d) : d[i] \notin Decimaux THEN 0
        ELSE Signe((IF neg THEN -Lu(d, 1, Len(d) + 1, 10) ELSE Lu(d, 1, Len(d) + 1, 10)) % Mot2)

\* do_div64, a double word divided with divisions of a double word by a word.
log2(n) == Max({i \in 0 .. Bits : 2 ^ i <= n})
Decale(y) == y \div 2 ^ (log2(y \div Mot2) + 1)

\* The estimate is corrected until the remainder is smaller than the divisor.
Corrige(x, y, q) == Min({k \in q .. q + Mot2 : x - y * k < y})

do_div64(x, y) ==
    LET y1 == y \div Mot2
        x1 == x \div Mot2
    IN  CASE y1 # 0 ->
               LET l == log2(y1) + 1
                   q == Corrige(x, y, (x \div 2 ^ l) \div (Decale(y) + 1))
               IN  [quotient |-> q, reste |-> x - y * q]
          [] y1 = 0 /\ y # 0 ->
               [quotient |-> (x1 \div y) * Mot2 + ((x1 % y) * Mot2 + (x % Mot2)) \div y,
                reste |-> ((x1 % y) * Mot2 + (x % Mot2)) % y]
          [] y = 0 -> [quotient |-> 0, reste |-> x]

\* The divl of the estimate has a divisor: y0 + 1 has not wrapped.
DivisionPossible(y) == y >= Mot2 => Decale(y) + 1 < Mot2

-----------------------------------------------------------------------------
\* printf_char: NUL, '\n' and a full buffer flush; the character that finds
\* the buffer full goes alone.
printf_char(p, c) ==
    LET i == impression[p]
        vide == c \in {"nul", "\n"} \/ Len(i.buf) >= PrintfBufMax
    IN  /\ impression' = [impression EXCEPT ![p].reste = Tail(@),
                             ![p].buf = IF vide THEN <<>> ELSE Append(@, c),
                             ![p].seul = IF vide THEN <<c>> ELSE <<>>]
        /\ sortie' = sortie \o [k \in 1 .. (IF vide THEN Len(i.buf) ELSE 0) |-> <<p, i.buf[k]>>]

\* The flush and the character alone are two system calls.
Seul(p) ==
    /\ impression[p].seul # <<>>
    /\ sortie' = Append(sortie, <<p, impression[p].seul[1]>>)
    /\ impression' = [impression EXCEPT ![p].seul = <<>>]

PrintfPas(p) ==
    /\ impression[p].seul = <<>> /\ impression[p].reste # <<>>
    /\ printf_char(p, impression[p].reste[1])

\* vprintf: what is left in the buffer at the end.
PrintfFin(p) ==
    /\ impression[p].seul = <<>> /\ impression[p].reste = <<>> /\ impression[p].buf # <<>>
    /\ sortie' = sortie \o [k \in 1 .. Len(impression[p].buf) |-> <<p, impression[p].buf[k]>>]
    /\ impression' = [impression EXCEPT ![p].buf = <<>>]

FormatsInit ==
    /\ sortie = <<>>
    /\ \E a \in Impressions :
         impression = [p \in Imprimeurs |->
             [fmt |-> a[p].fmt, args |-> a[p].args, reste |-> doprnt(a[p].fmt, a[p].args, 0),
              buf |-> <<>>, seul |-> <<>>]]

FormatsNext == \E p \in Imprimeurs : PrintfPas(p) \/ Seul(p) \/ PrintfFin(p)

SpecFormats == FormatsInit /\ [][FormatsNext]_formatsVars

-----------------------------------------------------------------------------
\* vsnprintf keeps n characters at most.  The NUL is not one of them, and has
\* no room of its own in a buffer of n.
CopieJuste(n, t, copie) ==
    Len(copie) <= n + 1 /\ SubSeq(t, 1, Len(copie) - 1) \o <<"nul">> = copie

\* A format of one conversion: what it prints has the width asked for, on the
\* side asked for, and the library's own functions read the number back.
TexteJuste(d, a, t, t0) ==
    LET blancs == Repete(" ", d.length - Len(t0))
    IN  /\ d.padc = " " \/ d.conv = "s" => t = IF d.gauche THEN t0 \o blancs ELSE blancs \o t0
        /\ d.padc = "0" /\ d.conv # "s" => Len(t) = Max({d.length, Len(t0)})
        /\ d.plus # "+" =>
             /\ d.conv \in {"d", "z"} =>
                  strtol(t, IF d.conv = "d" THEN 10 ELSE 16).val = Signe(a)
             /\ d.conv \in {"u", "x", "o"} =>
                  strtoul(t, CASE d.conv = "u" -> 10 [] d.conv = "x" -> 16 [] OTHER -> 8).val = a
        /\ d.conv = "d" /\ d.length = 0 /\ d.prec = -1 /\ d.plus = "" => atoi(t) = Signe(a)

FormatJuste(d, fmt, args, t) ==
    LET a == args[Etoiles(d) + 1]
    IN  /\ TexteJuste(d, a, t, Converti([d EXCEPT !.length = 0], <<a>>, 0).texte)
        /\ \A n \in 0 .. Len(t) + 1 : CopieJuste(n, t, vsnprintf(n, fmt, args))

\* The division of the double words whose upper half is x1.
DivisionJuste(x1) ==
    \A x0 \in {0, 1, Mot2 - 1}, y \in 1 .. Mot2 * Mot2 - 1 : DivisionPossible(y) =>
        LET x == x1 * Mot2 + x0
        IN  do_div64(x, y) = [quotient |-> x \div y, reste |-> x % y]

\* Every character p prints reaches the console once and in order.
Conserve(p, t) ==
    LET i == impression[p]
        ecrits == SelectSeq(sortie, LAMBDA e : e[1] = p)
    IN  [k \in 1 .. Len(ecrits) |-> ecrits[k][2]] \o i.seul \o i.buf \o i.reste = t

\* A line shorter than the buffer is written at once: another process comes in
\* before its '\n' or NUL, or after, never inside.
LigneEntiere(p, t) ==
    LET n == Len(SelectSeq(sortie, LAMBDA e : e[1] = p))
        fins == {j \in 1 .. Len(t) : t[j] \in {"\n", "nul"}}
    IN  \/ n \in {0, Len(t)} \/ n \in fins \/ n + 1 \in fins
        \/ n - Max({0} \cup {j \in fins : j <= n}) >= PrintfBufMax

SortieJuste(p, fmt, args, t) ==
    /\ Conserve(p, t) /\ LigneEntiere(p, t)
    /\ sortie = <<>> /\ impression[p].buf = <<>> /\ impression[p].seul = <<>> =>
         /\ fmt # <<>> /\ fmt[1] = "%" /\ Directive(fmt, 2).suite = Len(fmt) + 1
              /\ Directive(fmt, 2).conv \in {"d", "z", "u", "x", "o", "s"} =>
                FormatJuste(AvecEtoiles(Directive(fmt, 2), args), fmt, args, t)
         /\ fmt = <<"%", "u">> => DivisionJuste(args[1])

\* What printf writes is what the format says of the arguments, read back by
\* strtol to the same number; the processes' outputs mix between lines or
\* after PRINTF_BUFMAX characters only, and lose nothing (doprnt.c, printf.c,
\* sprintf.c, strtol.c, div64.c).
ImpressionJuste ==
    \A p \in Imprimeurs :
        LET i == impression[p] IN SortieJuste(p, i.fmt, i.args, doprnt(i.fmt, i.args, 0))

=============================================================================
