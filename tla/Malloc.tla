------------------------------- MODULE Malloc -------------------------------
(***************************************************************************)
(* shared/malloc.c.h: Doug Lea's allocator over a private sbrk(), and the  *)
(* guarded zones mem_alloc() cuts in it.  The kernel holds three instances *)
(* of this file: its own heap, the heap of the user stacks and the heap of *)
(* the user program.                                                       *)
(*                                                                         *)
(* Addresses and sizes are bytes, as in the code; only the limits of the   *)
(* classes of chunks are constants.  A chunk is named by its address, a    *)
(* bin is the sequence of its chunks from `fd` to `bk`.  The operators are *)
(* the functions of the code, from a heap (a record with one field per     *)
(* field of malloc_state) to the heap they leave and the chunk they give.  *)
(***************************************************************************)
EXTENDS Integers, FiniteSets, FiniteSetsExt, SequencesExt, Functions, TLC

CONSTANTS
    Mot,            \* 2^32: the values of an unsigned long
    TasDebut,       \* mem_heap
    TasFin,         \* mem_heap_end
    Page,           \* malloc_getpagesize
    Mxfast,         \* DEFAULT_MXFAST
    LogGrand,       \* MIN_LARGE_SIZE = 2^LogGrand
    NBins,          \* NBINS
    SeuilConsolide, \* FASTBIN_CONSOLIDATION_THRESHOLD
    SeuilTrim,      \* DEFAULT_TRIM_THRESHOLD
    Longueurs,      \* the lengths given to mem_alloc()
    Demandes,       \* the sizes given to the other functions
    BlocsMax,       \* bound: zones in use at the same time
    BrutsMax        \* bound: those of the functions without guards

ASSUME MallocAssumption ==
    /\ {Mot, TasDebut, TasFin, Page, Mxfast, LogGrand, NBins} \subseteq Nat \ {0}
    /\ TasDebut < TasFin /\ TasFin < Mot
    /\ LogGrand >= 5 /\ NBins > 2 ^ (LogGrand - 3)
    /\ Longueurs \cup Demandes \subseteq 1 .. Mot - 1

VARIABLES
    tas,     \* the heap
    blocs,   \* the zones in use: chunk -> [octets, garde]
    contrat  \* no call so far had a size that wraps or an independent_*() that
             \* spoils a tag: the model stops after one that had

mallocVars == <<tas, blocs, contrat>>

-----------------------------------------------------------------------------
\* Sizes.

SizeSz == 4       \* SIZE_SZ
MinSize == 16     \* MINSIZE
MinLarge == 2 ^ LogGrand
NSmallBins == MinLarge \div 8

Arrondi(n, a) == ((n + a - 1) \div a) * a

\* request2size without the room for the size field.
RequestCourt(n) == IF n + 7 < MinSize THEN MinSize ELSE Arrondi(n, 8)

\* request2size(req): the size field, rounded to the alignment.
Request2size(n) ==
    IF n + SizeSz + 7 < MinSize THEN MinSize ELSE Arrondi(n + SizeSz, 8)

RequestOutOfRange(n) == n >= Mot - 2 * MinSize

InSmallbinRange(sz) == sz < MinLarge

Log2(x) == CHOOSE m \in 0 .. x : 2 ^ m <= x /\ x < 2 ^ (m + 1)

\* largebin_index(sz): four bins for each power of two.
LargebinIndex(sz) ==
    LET x == sz \div MinLarge
        m == Log2(x)
    IN  IF m >= 16 THEN NBins - 1
        ELSE NSmallBins + 4 * m + ((sz \div 2 ^ (m + LogGrand - 2)) % 4)

BinIndex(sz) == IF InSmallbinRange(sz) THEN sz \div 8 ELSE LargebinIndex(sz)

\* fastbin_index(sz), from 1.
FastbinIndex(sz) == sz \div 8 - 1
NFastbins == FastbinIndex(Request2size(Mxfast))

-----------------------------------------------------------------------------
\* The heap.  tete[c] is the header of chunk c: its size, its PREV_INUSE bit,
\* and prev_size, 0 as long as that word belongs to the owner of the chunk
\* before.  sommet is `top`, 0 while it is initial_top.

TasVide ==
    [curptr |-> TasDebut, maxFast |-> 0, tete |-> <<>>,
     fast |-> <<>>, bacs |-> <<>>, carte |-> {},
     sommet |-> 0, reste |-> 0, anychunks |-> FALSE, fastchunks |-> FALSE,
     corrompu |-> FALSE]

\* malloc_init_state().
InitState(t) ==
    [t EXCEPT !.maxFast = Request2size(Mxfast),
              !.fast = [i \in 1 .. NFastbins |-> <<>>],
              !.bacs = [i \in 1 .. NBins - 1 |-> <<>>]]

Taille(t, c) == t.tete[c].taille
Suivant(t, c) == c + Taille(t, c)
Inuse(t, c) == t.tete[Suivant(t, c)].prevInuse
TailleSommet(t) == IF t.sommet = 0 THEN 0 ELSE Taille(t, t.sommet)

\* set_head(c, s | PREV_INUSE) and the like.
Entete(t, c, s, bit) ==
    [t EXCEPT !.tete =
        (c :> [taille |-> s, prevInuse |-> bit,
               prev |-> IF c \in DOMAIN t.tete THEN t.tete[c].prev ELSE 0]) @@ @]

\* The headers of cs are inside another chunk now.
Oublie(t, cs) == [t EXCEPT !.tete = Restrict(@, DOMAIN @ \ cs)]

\* set_foot(c, s) for a chunk whose neighbour above is marked.
Pied(t, c) ==
    [t EXCEPT !.tete[Suivant(t, c)].prevInuse = FALSE,
              !.tete[Suivant(t, c)].prev = Taille(t, c)]

\* set_inuse_bit_at_offset(c, size): the foot belongs to the owner again.
Occupe(t, c) ==
    [t EXCEPT !.tete[Suivant(t, c)].prevInuse = TRUE,
              !.tete[Suivant(t, c)].prev = 0]

\* unlink(c, bck, fwd): c leaves the bin it is in.  In none: its links are the
\* data of an owner.
Delie(t, c) ==
    LET lieu == {i \in DOMAIN t.bacs : c \in Range(t.bacs[i])}
    IN  IF lieu = {} THEN [t EXCEPT !.corrompu = TRUE]
        ELSE [t EXCEPT !.bacs[CHOOSE i \in lieu : TRUE] = Remove(@, c)]

\* sbrk(diff): the limits of the heap, and no way back.
Sbrk(t, diff) ==
    IF diff < 0 \/ t.curptr + diff > TasFin
    THEN [ok |-> FALSE, t |-> t]
    ELSE [ok |-> TRUE, t |-> [t EXCEPT !.curptr = @ + diff]]

Rien(t) == [t |-> t, c |-> 0]

-----------------------------------------------------------------------------
\* malloc_consolidate() and free().

\* The part free() and malloc_consolidate() share: merge c with its free
\* neighbours, put the whole in front of the unsorted bin or in top.
Fusionne(t, c) ==
    LET n == Suivant(t, c)
        bas == IF t.tete[c].prevInuse THEN c ELSE c - t.tete[c].prev
        t1 == IF bas = c THEN t ELSE Delie(t, bas)
    IN  IF n = t.sommet
        THEN [Entete(Oublie(t1, {c, n}), bas, n + Taille(t, n) - bas, TRUE)
                EXCEPT !.sommet = bas]
        ELSE LET libre == ~Inuse(t, n)
                 t2 == IF libre THEN Delie(t1, n) ELSE t1
                 haut == IF libre THEN Suivant(t, n) ELSE n
                 t3 == Oublie(t2, {c} \cup (IF libre THEN {n} ELSE {}))
             IN  [Pied(Entete(t3, bas, haut - bas, TRUE), bas)
                    EXCEPT !.bacs[1] = <<bas>> \o @]

\* malloc_consolidate(): every chunk of the fast bins, in their order.
Consolide(t) ==
    IF t.maxFast = 0 THEN InitState(t)
    ELSE FoldLeft(Fusionne,
                  [t EXCEPT !.fastchunks = FALSE,
                            !.fast = [i \in DOMAIN @ |-> <<>>]],
                  FlattenSeq(t.fast))

\* sYSTRIm(pad): sbrk() refuses to shrink, so nothing is ever released.
Systrim(t, pad) ==
    LET extra == ((TailleSommet(t) - pad - MinSize + Page - 1) \div Page - 1) * Page
        r == Sbrk(t, -extra)
    IN  IF extra > 0 /\ t.curptr = t.sommet + TailleSommet(t) /\ r.t.curptr # t.curptr
        THEN Entete(r.t, t.sommet, TailleSommet(t) - (t.curptr - r.t.curptr), TRUE)
        ELSE t

\* The end of free(), after the merge that begins at bas: a large chunk makes
\* the fast bins be consolidated, and top trimmed.
Trimme(t) == IF TailleSommet(t) >= SeuilTrim THEN Systrim(t, 0) ELSE t
Condense(t, bas) ==
    IF Taille(t, bas) < SeuilConsolide THEN t
    ELSE Trimme(IF t.fastchunks THEN Consolide(t) ELSE t)

\* free(c).
Free(t, c) ==
    IF Taille(t, c) <= t.maxFast
    THEN [t EXCEPT !.fast[FastbinIndex(Taille(t, c))] = <<c>> \o @,
                   !.fastchunks = TRUE, !.anychunks = TRUE]
    ELSE Condense(Fusionne([t EXCEPT !.anychunks = TRUE], c),
                  IF t.tete[c].prevInuse THEN c ELSE c - t.tete[c].prev)

-----------------------------------------------------------------------------
\* malloc().  Each step gives the chunk found, or 0; the next is tried on the
\* heap it leaves.
Sinon(r, Etape(_, _), nb) == IF r.c # 0 THEN r ELSE Etape(r.t, nb)

\* Cut nb bytes at the bottom of c, a chunk in no bin; the rest is the only
\* chunk of the unsorted bin.
Decoupe(t, c, nb) ==
    LET r == c + nb
        t1 == Entete(Entete(t, r, Taille(t, c) - nb, TRUE), c, nb, TRUE)
    IN  [Pied(t1, r) EXCEPT !.bacs[1] = <<r>>]

\* Exhaust the chunk or split it.
Prend(t, c, nb) ==
    LET t1 == Delie(t, c)
    IN  [c |-> c, t |-> IF Taille(t, c) - nb < MinSize THEN Occupe(t1, c)
                        ELSE Decoupe(t1, c, nb)]

\* use_top without the room for the top that must remain.
UseTopEntier(t, nb) ==
    IF TailleSommet(t) < nb THEN Rien(t)
    ELSE [c |-> t.sommet,
          t |-> [Entete(Entete(t, t.sommet + nb, TailleSommet(t) - nb, TRUE),
                        t.sommet, nb, TRUE) EXCEPT !.sommet = @ + nb]]

\* use_top: top keeps at least MINSIZE.
UseTop(t, nb) ==
    IF TailleSommet(t) < nb + MinSize THEN Rien(t)
    ELSE [c |-> t.sommet,
          t |-> [Entete(Entete(t, t.sommet + nb, TailleSommet(t) - nb, TRUE),
                        t.sommet, nb, TRUE) EXCEPT !.sommet = @ + nb]]

\* Put c in its bin: in front of a small bin, in the decreasing order of a
\* large one.  The sizes in the bin carry PREV_INUSE: a chunk as small as the
\* last goes behind it, one as small as another in front of it.
Place(t, c) ==
    LET s == Taille(t, c)
        i == BinIndex(s)
        b == t.bacs[i]
        place == IF InSmallbinRange(s) \/ b = <<>> THEN 1
                 ELSE IF s < Taille(t, Last(b)) + 1 THEN Len(b) + 1
                 ELSE CHOOSE k \in 1 .. Len(b) :
                        /\ s + 1 >= Taille(t, b[k]) + 1
                        /\ \A j \in 1 .. k - 1 : s < Taille(t, b[j])
    IN  [t EXCEPT !.carte = @ \cup {i}, !.bacs[i] = InsertAt(@, place, c)]

\* The loop over the unsorted bin, from its end: it stops at a chunk of the
\* exact size, or splits the remainder of the last split when it is the only
\* chunk left; it puts the others in their bins.
TrieUnsorted(t, nb) ==
    LET u == t.bacs[1]
        exacts == {i \in DOMAIN u : Taille(t, u[i]) = nb}
        parReste == /\ u # <<>> /\ InSmallbinRange(nb) /\ u[1] = t.reste
                    /\ Taille(t, u[1]) > nb + MinSize
        arret == IF exacts # {} THEN CHOOSE i \in exacts : \A j \in exacts : j <= i
                 ELSE IF parReste THEN 1 ELSE 0
        t1 == FoldRight(LAMBDA c, acc : Place(acc, c),
                        SubSeq(u, arret + 1, Len(u)),
                        [t EXCEPT !.bacs[1] = SubSeq(@, 1, arret)])
    IN  IF arret = 0 THEN Rien(t1)
        ELSE IF exacts # {}
             THEN [c |-> u[arret], t |-> Occupe(Delie(t1, u[arret]), u[arret])]
             ELSE [c |-> u[1],
                   t |-> [Decoupe(Delie(t1, u[1]), u[1], nb) EXCEPT !.reste = u[1] + nb]]

\* A large request scans its own bin from the smallest chunk.
CherchePropreBac(t, nb) ==
    LET b == t.bacs[LargebinIndex(nb)]
        assez == {k \in DOMAIN b : Taille(t, b[k]) >= nb}
    IN  IF InSmallbinRange(nb) \/ assez = {} THEN Rien(t)
        ELSE Prend(t, b[CHOOSE k \in assez : \A j \in assez : j <= k], nb)

\* The bins above, along the map: a bit found set on an empty bin is cleared,
\* the smallest chunk of the first other bin is taken.
ChercheBacs(t, nb) ==
    LET dessus == {i \in t.carte : i > BinIndex(nb)}
        pleins == {i \in dessus : t.bacs[i] # <<>>}
        i == CHOOSE k \in pleins : \A j \in pleins : k <= j
    IN  IF pleins = {} THEN Rien([t EXCEPT !.carte = @ \ dessus])
        ELSE LET t1 == [t EXCEPT !.carte = @ \ {j \in dessus : j < i}]
                 c == Last(t.bacs[i])
                 r == Prend(t1, c, nb)
             IN  IF InSmallbinRange(nb) /\ Taille(t, c) - nb >= MinSize
                 THEN [r EXCEPT !.t.reste = c + nb] ELSE r

\* The steps after the fast and small bins.
ChercheGrands(t, nb) ==
    Sinon(Sinon(Sinon(TrieUnsorted(t, nb), CherchePropreBac, nb), ChercheBacs, nb), UseTop, nb)

\* mALLOc() up to sYSMALLOc(), for a normalised request.
Cherche(t, nb) ==
    IF ~t.anychunks THEN UseTop(IF t.maxFast = 0 THEN Consolide(t) ELSE t, nb)
    ELSE IF nb <= t.maxFast /\ t.fast[FastbinIndex(nb)] # <<>>
    THEN [c |-> Head(t.fast[FastbinIndex(nb)]),
          t |-> [t EXCEPT !.fast[FastbinIndex(nb)] = Tail(@)]]
    ELSE IF InSmallbinRange(nb) /\ t.bacs[BinIndex(nb)] # <<>>
    THEN LET c == Last(t.bacs[BinIndex(nb)])
         IN  [c |-> c, t |-> Occupe(Delie(t, c), c)]
    ELSE ChercheGrands(IF ~InSmallbinRange(nb) /\ t.fastchunks
                       THEN Consolide(t) ELSE t, nb)

-----------------------------------------------------------------------------
\* sYSMALLOc(): more memory from sbrk().

\* The first extension: skip what is not aligned, and reach a page boundary
\* with a second sbrk(), if there is room for it.
PremierSommet(t, brk, size) ==
    LET saut == (-brk) % 8
        fin == brk + size + saut
        correction == saut + Arrondi(fin, Page) - fin
        r == Sbrk(t, correction)
    IN  [Entete(r.t, brk + saut, r.t.curptr - (brk + saut), TRUE)
            EXCEPT !.sommet = brk + saut]

\* The extension of top, and the allocation from it.  An argument that wraps
\* to a negative long is not given to sbrk().
Etend(t, nb) ==
    LET size == Arrondi(nb + MinSize - TailleSommet(t), Page)
        r == Sbrk(t, size)
    IN  IF size >= Mot \div 2 \/ size <= 0 \/ ~r.ok THEN Rien(t)
        ELSE UseTop(IF t.sommet = 0 THEN PremierSommet(r.t, t.curptr, size)
                    ELSE Entete(r.t, t.sommet, TailleSommet(t) + size, TRUE), nb)

\* The fast bins are consolidated, and malloc tried again, first.
Sysmalloc(t, nb) ==
    IF ~t.fastchunks THEN Etend(t, nb)
    ELSE Sinon(Cherche(Consolide(t), nb), Etend, nb)

\* mALLOc(bytes).
MAlloc(t, bytes) ==
    IF RequestOutOfRange(bytes) THEN Rien(t)
    ELSE Sinon(Cherche(t, Request2size(bytes)), Sysmalloc, Request2size(bytes))

-----------------------------------------------------------------------------
\* The other functions of the library.

\* Give back what is above nb bytes of c, a chunk in use, if it can be one.
Rogne(t, c, nb, reste) ==
    IF Taille(t, c) - nb < reste THEN Occupe(t, c)
    ELSE LET t1 == Entete(t, c + nb, Taille(t, c) - nb, TRUE)
         IN  Free(Entete(Occupe(t1, c + nb), c, nb, t.tete[c].prevInuse), c + nb)

\* The chunk n, free, above c becomes part of it.
Avale(t, c, n) ==
    Entete(Oublie(t, {n}), c, Taille(t, c) + Taille(t, n), t.tete[c].prevInuse)

\* The zone of c moves to the chunk malloc() gave, unless that is the one above
\* c, which is merged with c.
Deplace(r, c, n, nb) ==
    CASE r.c = 0 -> r
      [] r.c # 0 /\ r.c = n -> [c |-> c, t |-> Rogne(Avale(r.t, c, n), c, nb, MinSize)]
      [] r.c \notin {0, n} -> [r EXCEPT !.t = Free(@, c)]

\* rEALLOc(c, bytes): in place, into top, into the free chunk above, or
\* elsewhere.
Realloc(t, c, bytes) ==
    LET nb == Request2size(bytes)
        s == Taille(t, c)
        n == Suivant(t, c)
    IN  IF RequestOutOfRange(bytes) THEN Rien(t)
        ELSE
        CASE s >= nb -> [c |-> c, t |-> Rogne(t, c, nb, MinSize)]
          [] s < nb /\ n = t.sommet /\ s + Taille(t, n) >= nb + MinSize ->
                [c |-> c,
                 t |-> [Entete(Entete(Oublie(t, {n}), c, nb, t.tete[c].prevInuse),
                               c + nb, s + Taille(t, n) - nb, TRUE)
                          EXCEPT !.sommet = c + nb]]
          [] s < nb /\ n # t.sommet /\ ~Inuse(t, n) /\ s + Taille(t, n) >= nb ->
                [c |-> c, t |-> Rogne(Avale(Delie(t, n), c, n), c, nb, MinSize)]
          [] OTHER -> Deplace(MAlloc(t, nb - 7), c, n, nb)

\* The spare room of r below the aligned spot and above the zone is given back.
\* A chunk too short to reach the spot has the header written outside it.
Aligne(r, al, nb) ==
    LET spot == Arrondi(r.c + 8, al) - 8
        c == IF spot - r.c < MinSize /\ spot # r.c THEN spot + al ELSE spot
        haut == Entete(r.t, c, Taille(r.t, r.c) - (c - r.c), TRUE)
        t1 == IF c = r.c THEN r.t
              ELSE Free(Entete(Occupe(haut, c), r.c, c - r.c, r.t.tete[r.c].prevInuse),
                        r.c)
    IN  IF r.c = 0 THEN r
        ELSE IF c >= Suivant(r.t, r.c) THEN [r EXCEPT !.t.corrompu = TRUE]
        ELSE [c |-> c, t |-> IF Taille(t1, c) > nb + MinSize
                             THEN Rogne(t1, c, nb, MinSize) ELSE t1]

\* mEMALIGn(al, bytes), al a power of 2: the sum is that of machine words.
Memalign(t, al, bytes) ==
    LET nb == Request2size(bytes)
    IN  CASE al <= 8 -> MAlloc(t, bytes)
          [] al > 8 /\ RequestOutOfRange(bytes) -> Rien(t)
          [] al > 8 /\ ~RequestOutOfRange(bytes) -> Aligne(MAlloc(t, (nb + al + MinSize) % Mot), al, nb)

\* cALLOc(n, size): the product is that of the machine words.
Calloc(t, n, size) == MAlloc(t, (n * size) % Mot)

\* One chunk cut in n of e bytes, the last with what remains.  Each header says
\* that the chunk before is in use, the first one too.
Partage(r, n, e) ==
    IF r.c = 0 THEN [t |-> r.t, cs |-> <<>>]
    ELSE IF (n - 1) * e >= Taille(r.t, r.c)
    THEN [t |-> [r.t EXCEPT !.corrompu = TRUE], cs |-> <<>>]
    ELSE [cs |-> [i \in 1 .. n |-> r.c + (i - 1) * e],
          t |-> FoldLeft(LAMBDA acc, i :
                    Entete(acc, r.c + (i - 1) * e,
                           IF i = n THEN Taille(r.t, r.c) - (n - 1) * e ELSE e, TRUE),
                    r.t, [i \in 1 .. n |-> i])]

\* iALLOc() for n elements of the same size and an array of pointers from the
\* caller: product and difference are those of machine words.
Independent(t, n, size) ==
    LET e == Request2size(size) IN Partage(MAlloc(t, (n * e - 7) % Mot), n, e)

-----------------------------------------------------------------------------
\* What the kernel and the programs call.

\* The size of the zone mem_alloc(length) asks for, guard words included, as a
\* machine word.
TailleZone(length) == (Arrondi(length, 4) + 16) % Mot

\* mUSABLe(mem): the bytes of the chunk its owner may write.
MUsable(t, c) == IF Inuse(t, c) THEN Taille(t, c) - SizeSz ELSE 0

\* mALLINFo().uordblks: what is neither in top nor in a bin.
Uordblks(t) ==
    (t.curptr - TasDebut)
    - (TailleSommet(t)
       + MapThenSumSet(LAMBDA c : Taille(t, c),
                       Range(FlattenSeq(t.fast)) \cup Range(FlattenSeq(t.bacs))))

\* The guard words of zone c are as mem_alloc() wrote them: the allocator has
\* put neither a header nor a foot in it.
GardesIntactes(c) ==
    /\ c \in DOMAIN tas.tete
    /\ MUsable(tas, c) >= blocs[c].octets
    /\ tas.tete[Suivant(tas, c)].prev = 0

\* The caller has a zone of n bytes from chunk c, guarded or not.
Obtient(r, n, garde) ==
    /\ tas' = r.t
    /\ blocs' = IF r.c = 0 THEN blocs
                ELSE (r.c :> [octets |-> n, garde |-> garde]) @@ blocs

\* The bounds let in n more zones.
Permis(n, garde) ==
    /\ Cardinality(DOMAIN blocs) + n <= BlocsMax
    /\ ~garde => Cardinality({c \in DOMAIN blocs : ~blocs[c].garde}) + n <= BrutsMax

\* mem_alloc(length).
MemAlloc(length) ==
    /\ Permis(1, TRUE)
    /\ TailleZone(length) > length
    /\ Obtient(MAlloc(tas, TailleZone(length)), TailleZone(length), TRUE)

Rend(c) == blocs' = Restrict(blocs, DOMAIN blocs \ {c})

\* mem_free(zone, length), and mem_free_nolength(zone), which reads the length
\* in the zone.  mem_bug() stops the machine.
MemFree(c) ==
    /\ blocs[c].garde
    /\ tas' = IF GardesIntactes(c) THEN Free(tas, c)
              ELSE [tas EXCEPT !.corrompu = TRUE]
    /\ Rend(c)

\* fREe(mem), for the zones of the functions without guards.
LibereBrut(c) ==
    /\ ~blocs[c].garde
    /\ tas' = Free(tas, c)
    /\ Rend(c)

Change(r, c, n) ==
    /\ tas' = r.t
    /\ blocs' = IF r.c = 0 THEN blocs
                ELSE (r.c :> [octets |-> n, garde |-> FALSE])
                     @@ Restrict(blocs, DOMAIN blocs \ {c})

ReallocBrut(c, bytes) == ~blocs[c].garde /\ Change(Realloc(tas, c, bytes), c, bytes)

MemalignBrut(al, bytes) ==
    /\ Permis(1, FALSE)
    /\ Obtient(Memalign(tas, al, bytes), bytes, FALSE)
    /\ contrat' = (Request2size(bytes) + al + MinSize < Mot)

CallocBrut(n, size) ==
    /\ Permis(1, FALSE)
    /\ Obtient(Calloc(tas, n, size), n * size, FALSE)
    /\ contrat' = (n * size < Mot)

\* A chunk in a bin ends where one of cs starts.
SuitUnLibre(t, cs) ==
    \E c \in Range(FlattenSeq(t.bacs)) : Suivant(t, c) \in Range(cs)

IndependentBrut(n, size) ==
    /\ Permis(n, FALSE)
    /\ LET r == Independent(IF tas.maxFast = 0 THEN Consolide(tas) ELSE tas, n, size)
       IN  /\ tas' = r.t
           /\ blocs' = [c \in Range(r.cs) |-> [octets |-> size, garde |-> FALSE]] @@ blocs
           /\ contrat' = (n * Request2size(size) < Mot /\ ~SuitUnLibre(r.t, r.cs))

\* mTRIm(0).
MTrim == tas' = Systrim(Consolide(tas), 0) /\ UNCHANGED blocs

MallocInit == tas = TasVide /\ blocs = <<>> /\ contrat = TRUE

Ordinaire ==
    \/ \E length \in Longueurs : MemAlloc(length)
    \/ \E c \in DOMAIN blocs : MemFree(c)
    \/ \E c \in DOMAIN blocs : LibereBrut(c)
    \/ \E c \in DOMAIN blocs, n \in Demandes : ReallocBrut(c, n)
    \/ MTrim

MallocNext ==
    /\ contrat
    /\ \/ Ordinaire /\ UNCHANGED contrat
       \/ \E n \in Demandes : MemalignBrut(32, n)
       \/ \E n \in Demandes : CallocBrut(2, n)
       \/ \E k \in 1 .. 2, n \in Demandes : IndependentBrut(k, n)

SpecMalloc == MallocInit /\ [][MallocNext]_mallocVars

-----------------------------------------------------------------------------
\* The value each variable may have.
TypeMalloc ==
    /\ DOMAIN tas.tete \subseteq TasDebut .. TasFin - 1
    /\ \A c \in DOMAIN tas.tete : tas.tete[c].taille \in 1 .. TasFin - TasDebut
    /\ tas.curptr \in TasDebut .. TasFin
    /\ tas.sommet \in {0} \cup DOMAIN tas.tete
    /\ DOMAIN blocs \subseteq TasDebut .. TasFin - 1

Rapides == Range(FlattenSeq(tas.fast))
Libres == Range(FlattenSeq(tas.bacs))

\* do_check_malloc_state(), and more: the chunks tile the memory obtained from
\* sbrk(); each is top, in a fast bin, in one other bin, or in use, and in one
\* place only, and mallinfo() counts the last; a chunk in a bin agrees with its
\* foot and its neighbours' bits, touches no other free chunk, and is in the bin
\* of its size, at its rank, the map showing the bin.
TasSain ==
    LET chunks == DOMAIN tas.tete
        enBacs == FlattenSeq(tas.fast) \o FlattenSeq(tas.bacs)
    IN  /\ ~tas.corrompu
        /\ IsInjective(enBacs)
        /\ chunks = Range(enBacs) \cup DOMAIN blocs
                    \cup (IF tas.sommet = 0 THEN {} ELSE {tas.sommet})
        /\ \A c \in chunks :
              IF c = tas.sommet
              THEN /\ Suivant(tas, c) = tas.curptr /\ Taille(tas, c) >= MinSize
                   /\ tas.tete[c].prevInuse
              ELSE /\ Suivant(tas, c) \in chunks
                   /\ Taille(tas, c) % 8 = 0 /\ Taille(tas, c) >= MinSize
                   /\ c \notin Range(enBacs) => c \in DOMAIN blocs
                   /\ Inuse(tas, c) <=> c \notin Libres
        /\ tas.sommet # 0 =>
              Uordblks(tas) = MapThenSumSet(LAMBDA c : Taille(tas, c), DOMAIN blocs)
                              + Min(chunks) - TasDebut
        /\ \A i \in DOMAIN tas.fast : \A c \in Range(tas.fast[i]) :
              FastbinIndex(Taille(tas, c)) = i /\ tas.fastchunks
        /\ \A i \in DOMAIN tas.bacs : \A k \in DOMAIN tas.bacs[i] :
              LET c == tas.bacs[i][k]
              IN  /\ tas.tete[c].prevInuse
                  /\ tas.tete[Suivant(tas, c)].prev = Taille(tas, c)
                  /\ i > 1 => /\ BinIndex(Taille(tas, c)) = i /\ i \in tas.carte
                              /\ k > 1 => Taille(tas, c) <= Taille(tas, tas.bacs[i][k - 1])

\* No two zones in use overlap, and none is written by the allocator: the next
\* mem_free() finds its guard words.
ZonesIntactes ==
    \A c \in DOMAIN blocs :
        /\ GardesIntactes(c)
        /\ c \notin Rapides \cup Libres \cup {tas.sommet}
        /\ \A d \in DOMAIN blocs \ {c} :
              d >= Suivant(tas, c) \/ c >= Suivant(tas, d)

\* A request fails only if no run of bytes between two zones can hold it, once
\* everything free is merged, and sbrk() has no page left for it: neither the
\* map, nor the order of the bins, nor the fast bins hide a chunk.
EchecJustifie ==
    tas.sommet # 0 =>
        LET bas == {Min(DOMAIN tas.tete)} \cup {Suivant(tas, b) : b \in DOMAIN blocs}
        IN  \A n \in Longueurs :
              LET nb == Request2size(TailleZone(n))
              IN  /\ TailleZone(n) > n
                  /\ MAlloc(tas, TailleZone(n)).c = 0
                  => /\ \A c \in DOMAIN blocs, b \in bas :
                            b <= c /\ (\A d \in DOMAIN blocs : d \notin b .. c - 1)
                            => c - b < nb
                     /\ Arrondi(nb + MinSize - (tas.curptr - Max(bas)), Page)
                            > TasFin - tas.curptr
=============================================================================
