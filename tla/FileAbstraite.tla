--------------------------- MODULE FileAbstraite ---------------------------
(***************************************************************************)
(* What the calls of kernel/files.c promise together: a file is a bounded  *)
(* FIFO of the messages it has accepted.  A send waits while it is full, a *)
(* reception while it is empty, and each call that waits is answered once: *)
(* accepted, delivered with its message, or failed.  Which of the processes*)
(* that wait is answered first is left open here.                          *)
(***************************************************************************)
EXTENDS Naturals, SequencesExt

CONSTANTS Fids, Procs, Messages, CapaciteMax

VARIABLES
    capacite,   \* 0 for a file that does not exist
    contenu,    \* the messages accepted, the oldest first
    appel       \* how far the call is that a process waits in

vars == <<capacite, contenu, appel>>

Aucun == [etape |-> "aucun"]
Emission(f, m) == [etape |-> "emission", file |-> f, message |-> m]
Reception(f) == [etape |-> "reception", file |-> f]
Accepte == [etape |-> "accepte"]
Livre(m) == [etape |-> "livre", message |-> m]
Echoue == [etape |-> "echoue"]

Attend(p, f) == appel[p].etape \in {"emission", "reception"} /\ appel[p].file = f
Emetteurs(f) == {p \in Procs : Attend(p, f) /\ appel[p].etape = "emission"}
Recepteurs(f) == {p \in Procs : Attend(p, f) /\ appel[p].etape = "reception"}

Cree(f, n) ==
    /\ capacite[f] = 0
    /\ capacite' = [capacite EXCEPT ![f] = n]
    /\ UNCHANGED <<contenu, appel>>

\* The file is emptied, and deleted when n = 0: the calls that wait fail.
Vide(f, n) ==
    /\ capacite[f] > 0 /\ n \in {0, capacite[f]}
    /\ capacite' = [capacite EXCEPT ![f] = n]
    /\ contenu' = [contenu EXCEPT ![f] = <<>>]
    /\ appel' = [p \in Procs |-> IF Attend(p, f) THEN Echoue ELSE appel[p]]

Depose(f, m) ==
    /\ Len(contenu[f]) < capacite[f]
    /\ contenu' = [contenu EXCEPT ![f] = Append(@, m)]
    /\ Recepteurs(f) = {}
    /\ UNCHANGED <<capacite, appel>>

Remet(f, m) ==
    /\ contenu[f] = <<>>
    /\ UNCHANGED <<capacite, contenu>>
    /\ \E p \in Recepteurs(f) : appel' = [appel EXCEPT ![p] = Livre(m)]

AttendPlace(p, f, m) ==
    /\ capacite[f] > 0 /\ Len(contenu[f]) = capacite[f]
    /\ UNCHANGED <<capacite, contenu>>
    /\ appel[p] = Aucun
    /\ appel' = [appel EXCEPT ![p] = Emission(f, m)]

Prend(f) ==
    /\ contenu[f] # <<>>
    /\ contenu' = [contenu EXCEPT ![f] = Tail(@)]
    /\ Emetteurs(f) = {}
    /\ UNCHANGED <<capacite, appel>>

\* The place that becomes free goes to a process that waits for it.
PrendEtComplete(f) ==
    /\ contenu[f] # <<>>
    /\ \E p \in Emetteurs(f) :
        /\ contenu' = [contenu EXCEPT ![f] = Append(Tail(@), appel[p].message)]
        /\ appel' = [appel EXCEPT ![p] = Accepte]
    /\ UNCHANGED capacite

AttendMessage(p, f) ==
    /\ capacite[f] > 0 /\ contenu[f] = <<>>
    /\ UNCHANGED <<capacite, contenu>>
    /\ appel[p] = Aucun
    /\ appel' = [appel EXCEPT ![p] = Reception(f)]

\* The call returns its answer, or the process is killed.
Termine(p) ==
    /\ UNCHANGED <<capacite, contenu>>
    /\ appel[p] # Aucun
    /\ appel' = [appel EXCEPT ![p] = Aucun]

Init ==
    /\ capacite = [f \in Fids |-> 0]
    /\ contenu = [f \in Fids |-> <<>>]
    /\ appel = [p \in Procs |-> Aucun]

Next ==
    \/ \E f \in Fids, n \in 1 .. CapaciteMax : Cree(f, n)
    \/ \E f \in Fids, n \in 0 .. CapaciteMax : Vide(f, n)
    \/ \E f \in Fids, m \in Messages : Depose(f, m) \/ Remet(f, m)
    \/ \E f \in Fids : Prend(f) \/ PrendEtComplete(f)
    \/ \E p \in Procs, f \in Fids : AttendMessage(p, f)
    \/ \E p \in Procs, f \in Fids, m \in Messages : AttendPlace(p, f, m)
    \/ \E p \in Procs : Termine(p)

Spec == Init /\ [][Next]_vars
=============================================================================
