------------------------------- MODULE Files -------------------------------
(***************************************************************************)
(* kernel/files.c: files of messages, added to the kernel of Semaphore.    *)
(* Each file has one queue of processes, of those that wait for a message  *)
(* when it is empty and of those that wait for a place when it is full.    *)
(* A call that wakes a process stronger than its caller gives it the       *)
(* processor.                                                              *)
(***************************************************************************)
EXTENDS Semaphore

CONSTANTS
    Messages,   \* the values a message may have
    MsgMax,     \* MAXMSG
    Rien        \* fileValue when it holds no message (-1, or 0 at the start)

ASSUME FilesAssumption ==
    /\ Messages # {}
    /\ Rien \notin Messages
    /\ MsgMax \in Nat \ {0}

VARIABLES
    maxMsg,      \* File.maxMsg, 0 when the entry of tableauFile is NULL
    queueMsg,    \* File.queueMsg
    fileValue    \* Processus.fileValue

filesVars == <<maxMsg, queueMsg, fileValue>>
varsFiles == <<varsSemaphore, filesVars>>

FidValide(f) == maxMsg[f] > 0

\* operationStatus as a boolean.
Faux == 0
Vrai == 1

\* A descriptor that is freed in the step takes its fields with it.
ValeursRestantes(v) == [p \in Procs |-> IF etat'[p] = "LIBRE" THEN Rien ELSE v[p]]

\* The fields of the processes after a call that writes st and v.
Ecrit(st, v) ==
    /\ operationStatus' = Restants(st)
    /\ fileValue' = ValeursRestantes(v)

HorsFiles == UNCHANGED <<ticks, cptTicks, tableauSem, count>>

-----------------------------------------------------------------------------
\* add_msg() and retire_msg(): all messages have the same `place`.
AddMsg(q, m) == QueueAdd(q, m, [x \in Messages |-> 0])
RetireMsg(q) == QueueOut(q)

\* The process retire_proc() takes: the oldest of the strongest.
Retire(f) == QueueTop(queue[f])

\* The processor is kept by the caller.
PreempteJamais(k, w) == k

\* The end of a call that has woken the processes of w.
Preempte(k, w) ==
    IF \E p \in Range(w) : k.prio[p] > k.prio[k.elu] THEN Ordonnanceur(k) ELSE k

\* The process is queued as ready with the state it had.
DebloqueSansEtat(f) ==
    Preempte(Enfile([Courant EXCEPT !.queue[f] = QueueOut(@)], Retire(f), "activables"),
             <<Retire(f)>>)

\* retire_proc() and what its callers do with the process.
Debloque(f) ==
    Preempte(Active([Courant EXCEPT !.queue[f] = QueueOut(@)], Retire(f)), <<Retire(f)>>)

\* The caller put in front of the processes that already wait.
BloqueDevant(f, appel) ==
    Ordonnanceur([Courant EXCEPT !.etat[elu] = "ATTEND_FILE",
                                 !.suite[elu] = [appel |-> appel, arg |-> Nul],
                                 !.queue[f] = Append(@, elu)])

\* add_proc(f, ProcElu); ordonnanceur().
Bloque(f, appel) ==
    Ordonnanceur(Enfile([Courant EXCEPT !.etat[elu] = "ATTEND_FILE",
                                        !.suite[elu] = [appel |-> appel, arg |-> Nul]],
                        elu, f))

-----------------------------------------------------------------------------
\* pcreate(n): any free fid, of which the code takes the largest.
Pcreate(f, n) ==
    /\ EnModeUser
    /\ ~FidValide(f)
    /\ maxMsg' = [maxMsg EXCEPT ![f] = n]
    /\ UNCHANGED <<varsSemaphore, queueMsg, fileValue>>

\* The processes that were woken are not told.
StatutsOublies(f) == operationStatus

\* The status of the processes that wait for f when it is emptied.
StatutsEchec(f) ==
    [p \in Procs |-> IF p \in Membres(queue[f]) THEN Faux ELSE operationStatus[p]]

\* The messages are lost and nobody is told.
VidangeSansReveil(f) ==
    /\ UNCHANGED noyauVars
    /\ Ecrit(operationStatus, fileValue)
    /\ queueMsg' = [queueMsg EXCEPT ![f] = <<>>]
    /\ HorsFiles

\* The processes that wait are woken and fail, the messages are lost.
Vidange(f) ==
    LET w == Reverse(queue[f])
    IN  /\ Devient(Preempte(ActiveTous([Courant EXCEPT !.queue[f] = <<>>], w), w))
        /\ Ecrit(StatutsEchec(f), fileValue)
        /\ queueMsg' = [queueMsg EXCEPT ![f] = <<>>]
        /\ HorsFiles

Pdelete(f) ==
    /\ EnModeUser /\ FidValide(f)
    /\ Vidange(f)
    /\ maxMsg' = [maxMsg EXCEPT ![f] = 0]

Preset(f) ==
    /\ EnModeUser /\ FidValide(f)
    /\ Vidange(f)
    /\ UNCHANGED maxMsg

-----------------------------------------------------------------------------
\* psend(f, m).  The three cases of the code, in its order.

EntrePsend(f) == EnModeUser /\ FidValide(f) /\ HorsFiles /\ UNCHANGED maxMsg

\* A process waits for a message: it gets this one.
PsendRemet(f, m) ==
    /\ EntrePsend(f)
    /\ queueMsg[f] = <<>> /\ queue[f] # <<>>
    /\ Devient(Debloque(f))
    /\ Ecrit([operationStatus EXCEPT ![elu] = Vrai, ![Retire(f)] = Vrai],
             [fileValue EXCEPT ![elu] = m, ![Retire(f)] = m])
    /\ UNCHANGED queueMsg

\* The message is not kept.
PsendBloqueSansValeur(f, m) ==
    /\ EntrePsend(f)
    /\ ~(queueMsg[f] = <<>> /\ queue[f] # <<>>)
    /\ Len(queueMsg[f]) = maxMsg[f]
    /\ Devient(Bloque(f, "psend"))
    /\ Ecrit([operationStatus EXCEPT ![elu] = Vrai], fileValue)
    /\ UNCHANGED queueMsg

\* The file is full: the caller waits, its message in fileValue.
PsendBloque(f, m) ==
    /\ EntrePsend(f)
    /\ ~(queueMsg[f] = <<>> /\ queue[f] # <<>>)
    /\ Len(queueMsg[f]) = maxMsg[f]
    /\ Devient(Bloque(f, "psend"))
    /\ Ecrit([operationStatus EXCEPT ![elu] = Vrai], [fileValue EXCEPT ![elu] = m])
    /\ UNCHANGED queueMsg

\* add_msg() asserts that there is room.
PsendDepose(f, m) ==
    /\ EntrePsend(f)
    /\ ~(queueMsg[f] = <<>> /\ queue[f] # <<>>)
    /\ Len(queueMsg[f]) # maxMsg[f]
    /\ Devient([Courant EXCEPT !.panique =
                   IF Len(queueMsg[f]) < maxMsg[f] THEN @ ELSE "add_msg"])
    /\ Ecrit([operationStatus EXCEPT ![elu] = Vrai], [fileValue EXCEPT ![elu] = m])
    /\ queueMsg' = [queueMsg EXCEPT ![f] = AddMsg(@, m)]

Psend(f, m) == PsendRemet(f, m) \/ PsendBloque(f, m) \/ PsendDepose(f, m)

-----------------------------------------------------------------------------
\* preceive(f).

EntrePreceive(f) == EnModeUser /\ FidValide(f) /\ HorsFiles /\ UNCHANGED maxMsg

PreceiveBloque(f) ==
    /\ EntrePreceive(f)
    /\ queueMsg[f] = <<>>
    /\ Devient(Bloque(f, "preceive"))
    /\ Ecrit([operationStatus EXCEPT ![elu] = Vrai], [fileValue EXCEPT ![elu] = Rien])
    /\ UNCHANGED queueMsg

\* The oldest message, and nobody waits.
PreceivePrend(f) ==
    /\ EntrePreceive(f)
    /\ queueMsg[f] # <<>> /\ queue[f] = <<>>
    /\ UNCHANGED noyauVars
    /\ Ecrit([operationStatus EXCEPT ![elu] = Vrai], [fileValue EXCEPT ![elu] = Rien])
    /\ queueMsg' = [queueMsg EXCEPT ![f] = RetireMsg(@)]

\* The place it leaves is filled with the message of a process that waits.
PreceiveComplete(f) ==
    /\ EntrePreceive(f)
    /\ queueMsg[f] # <<>> /\ queue[f] # <<>>
    /\ Devient(IF Len(RetireMsg(queueMsg[f])) < maxMsg[f]
               THEN Debloque(f)
               ELSE [Courant EXCEPT !.panique = "add_msg"])
    /\ Ecrit([operationStatus EXCEPT ![elu] = Vrai, ![Retire(f)] = Vrai],
             [fileValue EXCEPT ![elu] = Rien])
    /\ queueMsg' = [queueMsg EXCEPT ![f] = AddMsg(RetireMsg(@), fileValue[Retire(f)])]

Preceive(f) == PreceiveBloque(f) \/ PreceivePrend(f) \/ PreceiveComplete(f)

\* psend() and preceive() after ordonnanceur(): they fail, or return what is
\* in fileValue.
RepriseFile ==
    /\ panique = "non" /\ suite[elu].appel \in {"psend", "preceive"}
    /\ Devient([Courant EXCEPT !.suite[elu] = User])
    /\ UNCHANGED <<ticks, cptTicks, semaphoreVars, filesVars>>

\* The sign forgotten.
PcountSansSigne(f) == Len(queueMsg[f]) + Len(queue[f])

\* pcount(f): minus the number of processes when there is no message.
Pcount(f) ==
    IF queueMsg[f] = <<>> THEN -Len(queue[f]) ELSE Len(queueMsg[f]) + Len(queue[f])

FilesNext ==
    \/ \E f \in Fids, n \in 1 .. MsgMax : Pcreate(f, n)
    \/ \E f \in Fids : Pdelete(f)
    \/ \E f \in Fids : Preset(f)
    \/ \E f \in Fids, m \in Messages : Psend(f, m)
    \/ \E f \in Fids : Preceive(f)
    \/ RepriseFile

FilesInit ==
    /\ SemaphoreInit
    /\ maxMsg = [f \in Fids |-> 0]
    /\ queueMsg = [f \in Fids |-> <<>>]
    /\ fileValue = [p \in Procs |-> Rien]

\* The steps of the other components.
HorsFilesNext ==
    /\ SemaphoreNext \/ AutresNext
    /\ fileValue' = ValeursRestantes(fileValue)
    /\ UNCHANGED <<maxMsg, queueMsg>>

SpecFiles == FilesInit /\ [][FilesNext \/ HorsFilesNext]_varsFiles

\* Programs that wait for messages only.
NextMessages ==
    \/ FilesNext
    \/ /\ \/ \E pr \in 1 .. PrioMax : Start(pr)
          \/ Exit
          \/ \E p \in Pids : KillAutre(p)
          \/ \E p \in Pids, pr \in 1 .. PrioMax : Chprio(p, pr)
       /\ Ecrit(operationStatus, fileValue)
       /\ HorsFiles
       /\ UNCHANGED <<maxMsg, queueMsg>>
    \/ /\ Tic
       /\ Ecrit(operationStatus, fileValue)
       /\ UNCHANGED <<tableauSem, count, maxMsg, queueMsg>>

SpecMessages == FilesInit /\ [][NextMessages]_varsFiles

\* Programs that serve one another for ever.
NextServices ==
    \/ FilesNext
    \/ /\ SemaphoreNext
       /\ fileValue' = ValeursRestantes(fileValue)
       /\ UNCHANGED <<maxMsg, queueMsg>>
    \/ /\ \/ \E pr \in 1 .. PrioMax : Start(pr) /\ UNCHANGED <<ticks, cptTicks>>
          \/ Tic
       /\ Ecrit(operationStatus, fileValue)
       /\ UNCHANGED <<tableauSem, count, maxMsg, queueMsg>>

SpecServices == FilesInit /\ [][NextServices]_varsFiles

-----------------------------------------------------------------------------
\* The value each variable may have.
TypeFiles ==
    /\ TypeSemaphore
    /\ maxMsg \in [Fids -> 0 .. MsgMax]
    /\ queueMsg \in [Fids -> Seq(Messages)]
    /\ fileValue \in [Procs -> Messages \cup {Rien}]

\* The processes of f that are blocked in the call c.
Bloques(f, c) == {p \in Membres(queue[f]) : suite[p].appel = c}

\* The single queue of a file never mixes the two waits: processes wait for a
\* message only while there is none, for a place only while there is none.
\* psend and preceive rely on it when they take the first of the queue for a
\* receiver or for a sender by looking at the messages alone, and the assert
\* of add_msg holds.  And of the processes blocked on a file the next to be
\* served is of the strongest priority, also after chprio has changed one.
AttentesSeparees ==
    /\ panique # "add_msg"
    /\ \A f \in Fids :
          /\ Len(queueMsg[f]) <= maxMsg[f]
          /\ Bloques(f, "preceive") # {} => maxMsg[f] > 0 /\ queueMsg[f] = <<>>
          /\ Bloques(f, "psend") # {} => maxMsg[f] > 0 /\ Len(queueMsg[f]) = maxMsg[f]
          /\ Membres(queue[f]) = Bloques(f, "preceive") \cup Bloques(f, "psend")
          /\ Triee(queue[f], prio)

\* pcount() returns minus the number of processes blocked on an empty file,
\* or the number of messages and of processes blocked on a full one.
PcountJuste ==
    \A f \in Fids : FidValide(f) =>
        Pcount(f) = Len(queueMsg[f]) + Cardinality(Bloques(f, "psend"))
                                     - Cardinality(Bloques(f, "preceive"))

\* How far the call is that the process p waits in, for the abstract file.
AppelDe(p) ==
    LET c == suite[p].appel
        f == CHOOSE g \in Fids : p \in Membres(queue[g])
        bloque == etat[p] = "ATTEND_FILE"
        fini == etat[p] \in {"ACTIVABLE", "ELU"} /\ c \in {"psend", "preceive"}
        reussi == operationStatus[p] # Faux
    IN  CASE bloque /\ c = "psend" ->
                [etape |-> "emission", file |-> f, message |-> fileValue[p]]
          [] bloque /\ c = "preceive" -> [etape |-> "reception", file |-> f]
          [] fini /\ ~reussi -> [etape |-> "echoue"]
          [] fini /\ reussi /\ c = "psend" -> [etape |-> "accepte"]
          [] fini /\ reussi /\ c = "preceive" ->
                [etape |-> "livre", message |-> fileValue[p]]
          [] OTHER -> [etape |-> "aucun"]

FileIdeale == INSTANCE FileAbstraite WITH
    Procs <- Pids,
    CapaciteMax <- MsgMax,
    capacite <- maxMsg,
    contenu <- [f \in Fids |-> Reverse(queueMsg[f])],
    appel <- [p \in Pids |-> AppelDe(p)]

\* The calls implement a bounded FIFO: messages leave in the order they were
\* accepted, none is lost or delivered twice while the file exists, and a
\* call that waited returns what it was answered, although the file may have
\* been emptied, deleted or created again before it is elected.
ImplementeFile == FileIdeale!Spec

\* Of equals none waits for ever for a place in a file that is received from
\* again and again.
PsendSert ==
    \A f \in Fids, p \in Pids :
        []<><<Preceive(f)>>_varsFiles =>
            (p \in Bloques(f, "psend") ~> p \notin Bloques(f, "psend"))

\* Nor for a message of a file that is sent to again and again.
PreceiveSert ==
    \A f \in Fids, p \in Pids :
        []<><<\E m \in Messages : Psend(f, m)>>_varsFiles =>
            (p \in Bloques(f, "preceive") ~> p \notin Bloques(f, "preceive"))
=============================================================================
