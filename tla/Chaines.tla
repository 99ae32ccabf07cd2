------------------------------ MODULE Chaines ------------------------------
(***************************************************************************)
(* The string library, shared/string.c, on a memory of a few bytes.        *)
(*                                                                         *)
(* The i386 versions of memcpy, memmove and memset use the string          *)
(* instructions, whose direction is a flag of the processor; memmove       *)
(* leaves it set.  strtok remembers where it stopped in a static variable. *)
(* A pointer is an address, 0 is NULL.  memcpy moves words of four bytes:  *)
(* its areas do not overlap, and bytes are the same.                       *)
(***************************************************************************)
EXTENDS Integers, Sequences, SequencesExt, FiniteSetsExt

CONSTANTS
    TailleMemoire,  \* the bytes of the memory
    OctetMax        \* UCHAR_MAX

VARIABLES
    memoire,    \* address -> byte
    df,         \* the direction flag
    holder      \* strtok's static pointer

chainesVars == <<memoire, df, holder>>

Adresses == 1 .. TailleMemoire
Octets == 0 .. OctetMax
Octet(m, a) == IF a \in Adresses THEN m[a] ELSE 0

\* rep movsb and rep stosb: up or down, as the direction flag says.
Pas(d) == IF d THEN -1 ELSE 1
Movs(m, bas, d, s, n) ==
    FoldLeft(LAMBDA a, i : [a EXCEPT ![d + Pas(bas) * (i - 1)] = Octet(a, s + Pas(bas) * (i - 1))],
             m, [i \in 1 .. n |-> i])
Stos(m, bas, d, c, n) ==
    [a \in Adresses |-> IF \E i \in 0 .. n - 1 : a = d + Pas(bas) * i THEN c ELSE m[a]]

\* memcpy trusting the direction flag it is called with.
memcpySansCld(m, bas, d, s, n) == Movs(m, bas, d, s, n)

memcpy(m, bas, d, s, n) == Movs(m, FALSE, d, s, n)
memset(m, bas, d, c, n) == Stos(m, FALSE, d, c, n)
memmove(m, d, s, n) ==
    IF d < s THEN Movs(m, FALSE, d, s, n) ELSE Movs(m, TRUE, d + n - 1, s + n - 1, n)
memmoveDf(d, s) == ~(d < s)

memswap(m, p, q, n) ==
    [a \in Adresses |-> CASE a - p \in 0 .. n - 1 -> m[q + a - p]
                          [] a - q \in 0 .. n - 1 -> m[p + a - q]
                          [] OTHER -> m[a]]

\* The first i >= 0 with P(i): where a loop stops; n when none does before n.
Arret(P(_), n) == Min({i \in 0 .. n - 1 : P(i)} \cup {n})

memchr(m, s, c, n) ==
    LET i == Arret(LAMBDA j : m[s + j] = c, n) IN IF i = n THEN 0 ELSE s + i
memrchr(m, s, c, n) ==
    LET i == Arret(LAMBDA j : m[s + n - 1 - j] = c, n) IN IF i = n THEN 0 ELSE s + n - 1 - i
memcmp(m, p, q, n) ==
    LET i == Arret(LAMBDA j : m[p + j] # m[q + j], n) IN IF i = n THEN 0 ELSE m[p + i] - m[q + i]
memccpy(m, d, s, c, n) ==
    LET i == Arret(LAMBDA j : m[s + j] = c, n)
    IN  [mem |-> Movs(m, FALSE, d, s, IF i = n THEN n ELSE i + 1),
         ret |-> IF i = n THEN 0 ELSE d + i + 1]

\* "Not so naive": how far to go when the second byte differs, and when it
\* is the right one.
Saut(double) == IF double THEN <<2, 1>> ELSE <<1, 2>>

memmem(m, y, n, x, l) ==
    IF l > n \/ l = 0 \/ n = 0 THEN 0
    ELSE IF l = 1 THEN memchr(m, y, m[x], n)
    ELSE LET k == Saut(m[x] = m[x + 1])
             f[j \in 0 .. n + 2] ==
                 IF j > n - l THEN 0
                 ELSE IF m[x + 1] # m[y + j + 1] THEN f[j + k[1]]
                 ELSE IF memcmp(m, x + 2, y + j + 2, l - 2) = 0 /\ m[x] = m[y + j]
                 THEN y + j ELSE f[j + k[2]]
         IN  f[0]

strnlen(m, s, n) == Arret(LAMBDA j : Octet(m, s + j) = 0, n)
strlen(m, s) == strnlen(m, s, TailleMemoire)

strchr(m, s, c) ==
    LET i == Arret(LAMBDA j : m[s + j] \in {c, 0}, strlen(m, s) + 1)
    IN  IF m[s + i] = c THEN s + i ELSE 0
strrchr(m, s, c) ==
    Max({0} \cup {s + j : j \in {j \in 0 .. strlen(m, s) - 1 : m[s + j] = c}})
strncmp(m, p, q, n) ==
    LET i == Arret(LAMBDA j : Octet(m, p + j) # Octet(m, q + j) \/ Octet(m, p + j) = 0, n)
    IN  IF i = n THEN 0 ELSE m[p + i] - m[q + i]
strcmp(m, p, q) == strncmp(m, p, q, TailleMemoire)

strcpy(m, d, s) == Movs(m, FALSE, d, s, strlen(m, s) + 1)
strcat(m, d, s) == strcpy(m, strchr(m, d, 0), s)
strncat(m, d, s, n) ==
    LET q == strchr(m, d, 0)
        l == strnlen(m, s, n)
        m1 == Movs(m, FALSE, q, s, IF l = n THEN n ELSE l + 1)
    IN  IF l = n THEN [m1 EXCEPT ![q + n] = 0] ELSE m1
strncpy(m, d, s, n) ==
    LET l == strnlen(m, s, n)
        c == IF l = n THEN n ELSE l + 1
    IN  memset(Movs(m, FALSE, d, s, c), FALSE, d + c, 0, n - c)
strlcat(m, d, s, n) ==
    LET b == strnlen(m, d, n)
        l == strlen(m, s)
        c == Min({l, n - b - 1})
    IN  IF b = n THEN [mem |-> m, ret |-> n + l]
        ELSE [mem |-> [Movs(m, FALSE, d + b, s, c) EXCEPT ![d + b + c] = 0], ret |-> b + l]

\* The null character never matches: its entry of the map is the parity.
strxspn(m, s, map, parite) ==
    LET match(c) == IF c = 0 THEN parite
                    ELSE \E j \in 0 .. strlen(m, map) - 1 : m[map + j] = c
    IN  Arret(LAMBDA j : match(Octet(m, s + j)) = parite, TailleMemoire)
strspn(m, s, map) == strxspn(m, s, map, FALSE)
strcspn(m, s, map) == strxspn(m, s, map, TRUE)
strpbrk(m, s, map) ==
    LET p == s + strcspn(m, s, map) IN IF m[p] = 0 THEN 0 ELSE p
strstr(m, y, x) == memmem(m, y, strlen(m, y), x, strlen(m, x))

\* The token, the next value of *stringp, and the end of the token cleared.
strsep(m, s, map) ==
    IF s = 0 THEN [mem |-> m, ret |-> 0, suite |-> 0]
    ELSE LET e == strpbrk(m, s, map)
         IN  IF e = 0 THEN [mem |-> m, ret |-> s, suite |-> 0]
             ELSE [mem |-> [m EXCEPT ![e] = 0], ret |-> s, suite |-> e + 1]
strtok(m, s, map) == strsep(m, IF s # 0 THEN s ELSE holder, map)

-----------------------------------------------------------------------------
\* The callers: the areas are in memory, those of a copy apart, a string ends.
Zone(a, n) == a + n - 1 <= TailleMemoire
Separees(p, q, n) == p + n <= q \/ q + n <= p
Chaine(m, s) == s # 0 /\ strlen(m, s) + s <= TailleMemoire

Memcpy == \E d, s \in Adresses, n \in 0 .. TailleMemoire :
    /\ Zone(d, n) /\ Zone(s, n) /\ Separees(d, s, n)
    /\ memoire' = memcpy(memoire, df, d, s, n) /\ df' = FALSE
    /\ UNCHANGED holder

Memset == \E d \in Adresses, n \in 0 .. TailleMemoire, c \in Octets :
    /\ Zone(d, n)
    /\ memoire' = memset(memoire, df, d, c, n) /\ df' = FALSE
    /\ UNCHANGED holder

Memmove == \E d, s \in Adresses, n \in 0 .. TailleMemoire :
    /\ Zone(d, n) /\ Zone(s, n)
    /\ memoire' = memmove(memoire, d, s, n) /\ df' = memmoveDf(d, s)
    /\ UNCHANGED holder

\* strncpy clears the rest with memset, which lowers the flag.
Strncpy == \E d, s \in Adresses, n \in 0 .. TailleMemoire :
    /\ Zone(d, n) /\ Separees(d, s, n) /\ Chaine(memoire, s) /\ Zone(s, n)
    /\ memoire' = strncpy(memoire, d, s, n) /\ df' = FALSE
    /\ UNCHANGED holder

Strtok == \E s \in Adresses \cup {0}, map \in Adresses :
    /\ s # 0 => Chaine(memoire, s)
    /\ s = 0 /\ holder # 0 => Chaine(memoire, holder)
    /\ Chaine(memoire, map)
    /\ LET r == strtok(memoire, s, map) IN memoire' = r.mem /\ holder' = r.suite
    /\ UNCHANGED df

ChainesInit == memoire \in [Adresses -> Octets] /\ df = FALSE /\ holder = 0

ChainesNext == Memcpy \/ Memset \/ Memmove \/ Strncpy \/ Strtok

SpecChaines == ChainesInit /\ [][ChainesNext]_chainesVars

-----------------------------------------------------------------------------
\* The bytes from a, n of them; the string at a.
Contenu(m, a, n) == SubSeq(m, a, a + n - 1)
Texte(m, a) == Contenu(m, a, strlen(m, a))

\* Only the area [d, d + Len(v)) changed, and it holds v.
Remplace(m1, m, d, v) ==
    m1 = [a \in Adresses |-> IF a - d + 1 \in 1 .. Len(v) THEN v[a - d + 1] ELSE m[a]]

CopieExacte(m, d, s, n) ==
    /\ Remplace(memmove(m, d, s, n), m, d, Contenu(m, s, n))
    /\ Separees(d, s, n) =>
         /\ Remplace(memcpy(m, df, d, s, n), m, d, Contenu(m, s, n))
         /\ Remplace(memswap(memswap(m, d, s, n), d, s, n), m, d, Contenu(m, d, n))
    /\ Separees(d, s, n) /\ Chaine(m, s) =>
         LET c == Min({n, strlen(m, s)})
         IN  Remplace(strncpy(m, d, s, n), m, d,
                      [i \in 1 .. n |-> IF i <= c THEN m[s + i - 1] ELSE 0])
    /\ \A c \in Octets :
         /\ Remplace(memset(m, df, d, c, n), m, d, [i \in 1 .. n |-> c])
         /\ LET r == memchr(m, s, c, n)
                l == memrchr(m, s, c, n)
                ou == {a \in s .. s + n - 1 : m[a] = c}
            IN  IF ou = {} THEN r = 0 /\ l = 0 ELSE r = Min(ou) /\ l = Max(ou)
         /\ Separees(d, s, n) =>
              LET r == memccpy(m, d, s, c, n)
              IN  IF r.ret = 0 THEN Remplace(r.mem, m, d, Contenu(m, s, n))
                  ELSE r.ret \in d + 1 .. d + n /\ r.mem[r.ret - 1] = c

Prefixe(u, v) == Len(u) <= Len(v) /\ SubSeq(v, 1, Len(u)) = u
Occurrences(v, u) == {i \in 1 .. Len(v) : Prefixe(u, SubSeq(v, i, Len(v)))}

\* The order of two strings, as a sign.
Avant(u, v) ==
    \/ Prefixe(u, v) /\ u # v
    \/ \E i \in 1 .. Min({Len(u), Len(v)}) :
         u[i] < v[i] /\ SubSeq(u, 1, i - 1) = SubSeq(v, 1, i - 1)

RechercheExacte(m, y, x) ==
    LET ty == Texte(m, y)
        tx == Texte(m, x)
        dans == {i \in 1 .. Len(ty) : ty[i] \in Range(tx)}
        hors == {i \in 1 .. Len(ty) : ty[i] \notin Range(tx)}
    IN  /\ strstr(m, y, x) =
             (IF tx = <<>> \/ Occurrences(ty, tx) = {} THEN 0
              ELSE y - 1 + Min(Occurrences(ty, tx)))
        /\ \A c \in Octets \ {0} :
             LET ou == {i \in 1 .. Len(ty) : ty[i] = c}
             IN  /\ strchr(m, y, c) = (IF ou = {} THEN 0 ELSE y - 1 + Min(ou))
                 /\ strrchr(m, y, c) = (IF ou = {} THEN 0 ELSE y - 1 + Max(ou))
        /\ strcmp(m, y, x) < 0 <=> Avant(ty, tx)
        /\ strcmp(m, y, x) = 0 <=> ty = tx
        /\ \A n \in 0 .. TailleMemoire :
             strncmp(m, y, x, n) = 0 <=>
                 SubSeq(ty, 1, Min({n, Len(ty)})) = SubSeq(tx, 1, Min({n, Len(tx)}))
        /\ strspn(m, y, x) = Min(hors \cup {Len(ty) + 1}) - 1
        /\ strcspn(m, y, x) = Min(dans \cup {Len(ty) + 1}) - 1
        /\ strsep(m, y, x).suite = (IF dans = {} THEN 0 ELSE y + Min(dans))
        /\ Texte(strsep(m, y, x).mem, y) = SubSeq(ty, 1, Min(dans \cup {Len(ty) + 1}) - 1)

ConcatenationExacte(m, d, s) ==
    LET td == Texte(m, d)
        ts == Texte(m, s)
        apart == s + Len(ts) < d \/ d + Len(td) + Len(ts) < s
    IN  /\ apart /\ Zone(d, Len(td) + Len(ts) + 1) =>
             /\ Remplace(strcat(m, d, s), m, d, td \o ts \o <<0>>)
             /\ \A n \in 0 .. TailleMemoire :
                  Remplace(strncat(m, d, s, n), m, d,
                           td \o SubSeq(ts, 1, Min({n, Len(ts)})) \o <<0>>)
        /\ apart => \A n \in 0 .. TailleMemoire : Zone(d, n) =>
             LET r == strlcat(m, d, s, n)
             IN  /\ r.ret = Min({n, Len(td)}) + Len(ts)
                 /\ IF n <= Len(td) THEN r.mem = m
                    ELSE Remplace(r.mem, m, d,
                           SubSeq(td \o ts, 1, Min({n - 1, Len(td) + Len(ts)})) \o <<0>>)

\* Every function of the library does what its name says, whatever the calls
\* before it left in memory and in the direction flag: the copies move the
\* area and nothing else, the searches find the first occurrence and the
\* comparisons order (string.c: memcpy lowers the flag memmove left set,
\* memmem skips positions).
ChainesJustes ==
    /\ \A d, s \in Adresses, n \in 0 .. TailleMemoire :
         Zone(d, n) /\ Zone(s, n) => CopieExacte(memoire, d, s, n)
    /\ \A y, x \in Adresses : Chaine(memoire, y) /\ Chaine(memoire, x) =>
         RechercheExacte(memoire, y, x) /\ ConcatenationExacte(memoire, y, x)

=============================================================================
