------------------------------- MODULE Appels -------------------------------
(***************************************************************************)
(* The way into the kernel and back: the stubs of user/builtin.S, the      *)
(* handlers of kernel/traitant_IT.S, the dispatch of traitant_IT_49.c and  *)
(* the change of context of ctx_sw.S, at the level of the registers and of *)
(* the stacks.                                                             *)
(*                                                                         *)
(* A process calls one stub; another one computes.  Interrupts happen in   *)
(* user mode only: the three gates mask them in the kernel.  The C code of *)
(* the kernel may leave anything in eax, ecx and edx and preserves the     *)
(* other registers.  The return address and the frame that the processor   *)
(* pushes take one place of the stack.                                     *)
(***************************************************************************)
EXTENDS Integers, Sequences

CONSTANTS
    USER_START, USER_END,   \* addresses of user space
    Pointeurs                \* pointers that a program gives

ASSUME AppelsAssumption == USER_START \in Nat /\ USER_END \in Nat /\ Pointeurs \subseteq Nat

VARIABLES
    processeur,     \* the registers
    actif,          \* the process that has the processor
    taches,         \* per process: its stacks, its contexte[], where it is
    appel,          \* the call made: stub and arguments
    servi           \* the functions of the kernel run with their arguments (history)

appelsVars == <<processeur, actif, taches, appel, servi>>

Appelant == "appelant"
Calculateur == "calculateur"

Registres == {"eax", "ebx", "ecx", "edx", "esi", "edi", "ebp"}
Preserves == {"ebx", "esi", "edi", "ebp"}

\* shared/builtin_enum.h, and the number each stub puts in eax.
Numero ==
    [getpid |-> 0, console_putbytes |-> 1, start |-> 2, exit |-> 3, kill |-> 4,
     affiche_table_process |-> 5, getprio |-> 6, chprio |-> 7, pcount |-> 8, pcreate |-> 9,
     pdelete |-> 10, preceive |-> 11, preset |-> 12, psend |-> 13, clock_settings |-> 14,
     current_clock |-> 15, wait_clock |-> 16, waitpid |-> 17, cons_echo |-> 18,
     cons_read |-> 19, cons_write |-> 20, exit_kernel |-> 21, set_color |-> 22,
     scount |-> 23, screate |-> 24, sdelete |-> 25, sreset |-> 26, signal |-> 27,
     signaln |-> 28, try_wait |-> 29, wait |-> 30, play_sound |-> 31,
     cons_switch_echo |-> 32, set_id_start |-> 33, afficher_historique |-> 34]

isUserSpace(adr) == adr = 0 \/ adr \in USER_START .. USER_END - 1

\* A case of the switch: the function, the registers it takes, those checked
\* to be in user space, and whether its result is given back.
Cas(f, args, verifies, rend) == [f |-> f, args |-> args, verifies |-> verifies, rend |-> rend]
B == <<"ebx">>
BC == <<"ebx", "ecx">>

traitant_IT_49_switch(n) ==
    CASE n = 0 -> Cas("getpid", <<>>, {}, TRUE)
      [] n = 1 -> Cas("console_putbytes", BC, {"ebx"}, FALSE)
      [] n = 2 -> Cas("start", <<"ebx", "ecx", "edx", "esi", "edi">>, {"ebx", "esi"}, TRUE)
      [] n = 3 -> Cas("exit", B, {}, FALSE)
      [] n = 4 -> Cas("kill", B, {}, TRUE)
      [] n = 5 -> Cas("affiche_table_process", <<>>, {}, FALSE)
      [] n = 6 -> Cas("getprio", B, {}, TRUE)
      [] n = 7 -> Cas("chprio", BC, {}, TRUE)
      [] n = 8 -> Cas("pcount", BC, {"ecx"}, TRUE)
      [] n = 9 -> Cas("pcreate", B, {}, TRUE)
      [] n = 10 -> Cas("pdelete", B, {}, TRUE)
      [] n = 11 -> Cas("preceive", BC, {"ecx"}, TRUE)
      [] n = 12 -> Cas("preset", B, {}, TRUE)
      [] n = 13 -> Cas("psend", BC, {}, TRUE)
      [] n = 14 -> Cas("clock_settings", BC, {"ebx", "ecx"}, FALSE)
      [] n = 15 -> Cas("current_clock", <<>>, {}, TRUE)
      [] n = 16 -> Cas("wait_clock", B, {}, FALSE)
      [] n = 17 -> Cas("waitpid", BC, {"ecx"}, TRUE)
      [] n = 18 -> Cas("cons_echo", B, {}, FALSE)
      [] n = 19 -> Cas("cons_read", BC, {"ebx"}, TRUE)
      [] n = 20 -> Cas("cons_write", BC, {"ebx"}, FALSE)
      [] n = 21 -> Cas("exit_kernel", <<>>, {}, FALSE)
      [] n = 22 -> Cas("set_color", B, {}, FALSE)
      [] n = 23 -> Cas("scount", B, {}, TRUE)
      [] n = 24 -> Cas("screate", B, {}, TRUE)
      [] n = 25 -> Cas("sdelete", B, {}, TRUE)
      [] n = 26 -> Cas("sreset", BC, {}, TRUE)
      [] n = 27 -> Cas("signal", B, {}, TRUE)
      [] n = 28 -> Cas("signaln", BC, {}, TRUE)
      [] n = 29 -> Cas("try_wait", B, {}, TRUE)
      [] n = 30 -> Cas("wait", B, {}, TRUE)
      [] n = 31 -> Cas("play_sound", BC, {}, FALSE)
      [] n = 32 -> Cas("cons_switch_echo", <<>>, {}, FALSE)
      [] n = 33 -> Cas("set_id_start", B, {}, FALSE)
      [] n = 34 -> Cas("afficher_historique", <<>>, {}, FALSE)

\* user/builtin.h: arguments and which are pointers the kernel reads, writes
\* or runs; whether the stub has a result.
Prototype ==
    LET P(n, pointeurs, rend) == [n |-> n, pointeurs |-> pointeurs, rend |-> rend]
    IN  [getpid |-> P(0, {}, TRUE), console_putbytes |-> P(2, {1}, FALSE),
         start |-> P(5, {1, 4}, TRUE), exit |-> P(1, {}, FALSE), kill |-> P(1, {}, TRUE),
         affiche_table_process |-> P(0, {}, FALSE), getprio |-> P(1, {}, TRUE),
         chprio |-> P(2, {}, TRUE), pcount |-> P(2, {2}, TRUE), pcreate |-> P(1, {}, TRUE),
         pdelete |-> P(1, {}, TRUE), preceive |-> P(2, {2}, TRUE), preset |-> P(1, {}, TRUE),
         psend |-> P(2, {}, TRUE), clock_settings |-> P(2, {1, 2}, FALSE),
         current_clock |-> P(0, {}, TRUE), wait_clock |-> P(1, {}, FALSE),
         waitpid |-> P(2, {2}, TRUE), cons_echo |-> P(1, {}, FALSE),
         cons_read |-> P(2, {1}, TRUE), cons_write |-> P(2, {1}, FALSE),
         exit_kernel |-> P(0, {}, FALSE), set_color |-> P(1, {}, FALSE),
         scount |-> P(1, {}, TRUE), screate |-> P(1, {}, TRUE), sdelete |-> P(1, {}, TRUE),
         sreset |-> P(2, {}, TRUE), signal |-> P(1, {}, TRUE), signaln |-> P(2, {}, TRUE),
         try_wait |-> P(1, {}, TRUE), wait |-> P(1, {}, TRUE), play_sound |-> P(2, {}, FALSE),
         cons_switch_echo |-> P(0, {}, FALSE), set_id_start |-> P(1, {}, FALSE),
         afficher_historique |-> P(0, {}, FALSE)]

-----------------------------------------------------------------------------
\* Values told apart: the registers at the call, those of the other process,
\* what C code leaves, a result, a frame.
Depart(r) == <<"depart", r>>
Autre(r) == <<"autre", r>>
Ecrase == <<"ecrase">>
Resultat == <<"resultat">>
Cadre == <<"cadre">>
Entier(k) == <<"entier", k>>
Adr(a) == <<"adresse", a>>
Num(n) == <<"numero", n>>
EstUtilisateur(v) == v[1] = "adresse" /\ isUserSpace(v[2])

\* The values of some registers, pushed in order: the last is on top.
Pousse(regs, rs, pile) ==
    [k \in 1 .. Len(rs) |-> regs[rs[Len(rs) + 1 - k]]] \o pile

\* The registers popped in order.
Depile(regs, rs, pile) ==
    [r \in Registres |->
        IF \E k \in 1 .. Len(rs) : rs[k] = r
        THEN pile[CHOOSE k \in 1 .. Len(rs) : rs[k] = r] ELSE regs[r]]
Oter(n, pile) == SubSeq(pile, n + 1, Len(pile))

CodeC(regs) == [r \in Registres |-> IF r \in Preserves THEN regs[r] ELSE Ecrase]

Tache(p) == taches[p]
Poste(p, t) == taches' = [taches EXCEPT ![p] = t]

-----------------------------------------------------------------------------
(* The stub, in user mode.                                                 *)

EnUser(p, pc) == actif = p /\ Tache(p).noyau = <<>> /\ Tache(p).pc = pc

\* save_registers: four pushes, then five loads at 20(%esp), 24(%esp) ...
save_registers ==
    LET t == Tache(Appelant)
        pile == Pousse(processeur, <<"ebx", "esi", "edi", "ebp">>, t.pile)
        Arg(k) == pile[5 + k]
    IN  /\ EnUser(Appelant, "appelle")
        /\ processeur' = [processeur EXCEPT
               !["ebx"] = Arg(1), !["ecx"] = Arg(2), !["edx"] = Arg(3),
               !["esi"] = Arg(4), !["edi"] = Arg(5)]
        /\ Poste(Appelant, [t EXCEPT !.pile = pile, !.pc = "numero"])
        /\ UNCHANGED <<actif, appel, servi>>

ChargeNumero ==
    /\ EnUser(Appelant, "numero")
    /\ processeur' = [processeur EXCEPT !["eax"] = Num(Numero[appel.stub])]
    /\ Poste(Appelant, [Tache(Appelant) EXCEPT !.pc = "int49"])
    /\ UNCHANGED <<actif, appel, servi>>

\* restore_registers and ret, which takes the return address.
restore_registers ==
    LET t == Tache(Appelant)
    IN  /\ EnUser(Appelant, "restaure")
        /\ processeur' = Depile(processeur, <<"ebp", "edi", "esi", "ebx">>, t.pile)
        /\ Poste(Appelant, [t EXCEPT !.pile = Oter(5, @), !.pc = "rendu"])
        /\ UNCHANGED <<actif, appel, servi>>

-----------------------------------------------------------------------------
(* The handlers.                                                           *)

SauveIT49 == <<"ebx", "ecx", "edx", "esi", "edi">>
\* The arguments pushed with two registers swapped.
ArgsIT49Croises == <<"edi", "esi", "ecx", "edx", "ebx", "eax">>

ArgsIT49 == <<"edi", "esi", "edx", "ecx", "ebx", "eax">>

\* The parameters of traitant_IT_49_switch(), from the top of the stack.
ParametresC == <<"eax", "ebx", "ecx", "edx", "esi", "edi">>

\* traitant_IT_49: the registers are saved, then pushed as arguments.
EntreIT49 ==
    LET t == Tache(Appelant)
    IN  /\ EnUser(Appelant, "int49")
        /\ Poste(Appelant, [t EXCEPT !.pc = "switch",
               !.noyau = Pousse(processeur, ArgsIT49, Pousse(processeur, SauveIT49, <<Cadre>>))])
        /\ UNCHANGED <<processeur, actif, appel, servi>>

\* The dispatch, on the arguments of the C function: eax, ebx ... on top of the
\* stack.  exit() and exit_kernel() do not return.
Sert ==
    LET t == Tache(Appelant)
        cas == traitant_IT_49_switch(t.noyau[1][2])
        Val(r) == t.noyau[CHOOSE k \in 1 .. 6 : ParametresC[k] = r]
        permis == \A r \in cas.verifies : EstUtilisateur(Val(r))
        retour == IF ~permis THEN Entier(-1) ELSE IF cas.rend THEN Resultat ELSE Entier(0)
    IN  /\ actif = Appelant /\ t.pc = "switch"
        /\ servi' = IF permis
               THEN Append(servi, <<cas.f, [k \in 1 .. Len(cas.args) |-> Val(cas.args[k])]>>)
               ELSE servi
        /\ processeur' = CodeC(processeur)
        /\ Poste(Appelant, [t EXCEPT
               !.pc = IF permis /\ cas.f \in {"exit", "exit_kernel"} THEN "arrete" ELSE "retour",
               !.retval = retour])
        /\ UNCHANGED <<actif, appel>>

RestaureIT49 == <<"edi", "esi", "edx", "ecx", "ebx">>

\* The end of traitant_IT_49: the result is in eax, which is not restored.
SortIT49 ==
    LET t == Tache(Appelant)
    IN  /\ actif = Appelant /\ t.pc = "retour"
        /\ processeur' = [Depile(processeur, RestaureIT49, Oter(6, t.noyau))
                             EXCEPT !["eax"] = t.retval]
        /\ Poste(Appelant, [t EXCEPT !.noyau = <<>>, !.pc = "restaure"])
        /\ UNCHANGED <<actif, appel, servi>>

\* traitant_IT_32 and traitant_IT_33, which keeps the scan code, read into
\* eax, on the stack during the call.  `it' is where the process was.
EntreIT(p, clavier) ==
    LET t == Tache(p)
        sauve == Pousse(processeur, <<"eax", "edx", "ecx">>, <<Cadre>>)
    IN  /\ actif = p /\ t.noyau = <<>> /\ t.it = "non"
        /\ Poste(p, [t EXCEPT !.it = IF clavier THEN "IT_33" ELSE "IT_32",
                              !.noyau = IF clavier THEN <<Ecrase>> \o sauve ELSE sauve])
        /\ processeur' = CodeC(processeur)
        /\ UNCHANGED <<actif, appel, servi>>

SortIT(p) ==
    LET t == Tache(p)
        pile == IF t.it = "IT_33" THEN Oter(1, t.noyau) ELSE t.noyau
    IN  /\ actif = p /\ t.it # "non"
        /\ processeur' = Depile(processeur, <<"ecx", "edx", "eax">>, pile)
        /\ Poste(p, [t EXCEPT !.noyau = <<>>, !.it = "non"])
        /\ UNCHANGED <<actif, appel, servi>>

\* ctx_sw: from the kernel code of one process to that of another.
ctx_sw(p, q) ==
    /\ actif = p /\ p # q
    /\ Tache(p).noyau # <<>> /\ Tache(q).noyau # <<>>
    /\ Tache(p).pc # "switch" /\ Tache(q).pc # "arrete"
    /\ actif' = q
    /\ taches' = [taches EXCEPT ![p].contexte = [r \in Preserves |-> processeur[r]]]
    /\ processeur' = [r \in Registres |->
           IF r \in Preserves THEN Tache(q).contexte[r] ELSE Ecrase]
    /\ UNCHANGED <<appel, servi>>

-----------------------------------------------------------------------------
\* Only pointers have several values.  The compiler reads five words above the
\* return address whatever the number of arguments.
Appels ==
    UNION {[stub : {f}, args : [Prototype[f].pointeurs -> Pointeurs]] : f \in DOMAIN Prototype}

ArgumentDe(a, k) == IF k \in Prototype[a.stub].pointeurs THEN Adr(a.args[k]) ELSE Entier(k)

\* The stack above the return address, at the call.
PileAppel(a) == <<Cadre>> \o [k \in 1 .. 5 |-> ArgumentDe(a, k)]

\* The other process was interrupted by the clock in the middle of its work.
AppelsInit ==
    /\ appel \in Appels
    /\ actif = Appelant
    /\ processeur = [r \in Registres |-> Depart(r)]
    /\ servi = <<>>
    /\ taches = [p \in {Appelant, Calculateur} |->
           IF p = Appelant
           THEN [pc |-> "appelle", it |-> "non", noyau |-> <<>>, pile |-> PileAppel(appel),
                 retval |-> Ecrase, contexte |-> [r \in Preserves |-> Ecrase]]
           ELSE [pc |-> "calcule", it |-> "IT_32",
                 noyau |-> <<Autre("ecx"), Autre("edx"), Autre("eax"), Cadre>>, pile |-> <<>>,
                 retval |-> Ecrase, contexte |-> [r \in Preserves |-> Autre(r)]]]

AppelsNext ==
    \/ save_registers \/ ChargeNumero \/ restore_registers
    \/ EntreIT49 \/ Sert \/ SortIT49
    \/ \E p \in {Appelant, Calculateur} :
         \/ \E clavier \in BOOLEAN : EntreIT(p, clavier)
         \/ SortIT(p)
         \/ \E q \in {Appelant, Calculateur} : ctx_sw(p, q)

-----------------------------------------------------------------------------
\* The function of the prototype has run once with its arguments in order, if
\* the pointers given are in user space, and its result is in eax; otherwise
\* nothing has run and the result is -1.  The other registers of the C
\* convention and the stack are as they were.
AppelRendu ==
    EnUser(Appelant, "rendu") =>
        LET P == Prototype[appel.stub]
            permis == \A k \in P.pointeurs : isUserSpace(appel.args[k])
        IN  /\ servi = IF permis
                THEN << <<appel.stub, [k \in 1 .. P.n |-> ArgumentDe(appel, k)]>> >> ELSE <<>>
            /\ ~permis => processeur["eax"] = Entier(-1)
            /\ permis /\ P.rend => processeur["eax"] = Resultat
            /\ \A r \in Preserves : processeur[r] = Depart(r)
            /\ <<Cadre>> \o Tache(Appelant).pile = PileAppel(appel)

\* A process that makes no call finds all its registers after an interrupt,
\* whatever ran in between.
CalculIntact ==
    EnUser(Calculateur, "calcule") => \A r \in Registres : processeur[r] = Autre(r)

\* A system call is served once, with its arguments, and interrupts and changes
\* of context are invisible to programs (builtin.S, traitant_IT.S,
\* traitant_IT_49_switch, ctx_sw.S).
AppelServi == AppelRendu /\ CalculIntact

=============================================================================
