# A TLA+ model of the Genesis OS kernel

Genesis OS is a small x86 teaching kernel: processes with priorities, a clock,
semaphores, message files, a keyboard, a console, and a shell that runs on them.
This directory models its kernel, its libraries and the programs that keep state
in TLA+, checks the models with TLC on small instances and proves theorems about
the process table, the semaphores, the message files, the way into the kernel, the
screen, the keyboard driver, the speaker, the shell's children and the dining
philosophers with TLAPS for all instances. Names of definitions follow the source (`src/kernel`, `src/shared`, `src/user`), which is
in French.

## 1. Inventory

| component | state | operations | used by |
|---|---|---|---|
| sorted lists, `shared/queue.h` | circular doubly linked list, link fields inside the elements | `queue_add` (sorted insert, asserts that the element is in no list), `queue_out`, `queue_top`, `queue_del` (asserts that it is in one), `queue_for_each` | everything |
| process table and scheduler, `kernel/processus.c` | `tableDesProcs`, `ProcElu`, per process `etat`, `prio`, `secReveille`, `pere`, `FilsTete`; the lists `proc_activables`, `proc_endormis`, `proc_mourants`, `proc_bloque_es` | `ordonnanceur`, `free_mourant_queue`, `free_childs`, `init_ordonnanceur` | every call that blocks or wakes |
| process calls, `kernel/processus.c` | the same | `start`, `exit`, `kill`, `waitpid`, `chprio`, `wait_clock`, `verifie_reveille`, `verifie_es` | interrupt 49, clock, keyboard |
| free pids, `kernel/processus.c` | LIFO list `PidLibreTete` | `new_pid`, `add_pid` | `start`, `free_mourant_queue` |
| clock, `kernel/horloge.c` | `ticks`, `cpt_ticks`, wall clock | `tic_PIT`, `current_clock` | interrupt 32 |
| semaphores, `kernel/semaphore.c` | `tableauSem`, 16-bit `count`, a wait queue each, free sids | `screate`, `sdelete`, `sreset`, `signal`, `signaln`, `try_wait`, `wait`, `scount` | interrupt 49 |
| message files, `kernel/files.c` | `tableauFile`, messages and a wait queue each, free fids | `pcreate`, `pdelete`, `preset`, `psend`, `preceive`, `pcount` | interrupt 49, `chprio` |
| keyboard, `kernel/kbd.c` | line buffer `tampon`, `ptampon`, flag `read` | `keyboard_data` | interrupt 33 |
| console, `kernel/console.c` | cursor, screen and scroll buffer, history | `cons_read`, `cons_write`, `traite_car`, scrolling | interrupt 49, keyboard |
| sound, `kernel/sound.c` | `duration` | `play_sound`, `nosound` | clock, console |
| keyboard driver, `kernel/kbd-linux`, `keyboard-glue.c` | keys held, modifier counts, lights, number typed on the keypad, prefix of a scancode | `do_scancode`, `handle_scancode`, `compute_shiftstate`, `keyboard_init` | interrupt 33; calls `keyboard_data` |
| debugger stub, `kernel/debugger.c`, `gdb_serial*.c` | packet buffer, saved registers, `do_debug`, `connected` | `getpacket`, `putfrags`, `converse`, `gdb_copyin`, `gdb_copyout` | exceptions, a serial line |
| allocator, `shared/malloc.c.h`, `kernel/mem.h` | chunks with boundary tags, fast bins, bins and their map, top, `sbrk` pointer | `mem_alloc`, `mem_free`, `malloc`, `free`, `realloc`, `memalign`, `calloc`, `independent_calloc`, `malloc_trim` | everything that keeps dynamic data |
| C library, `shared/string.c`, `doprnt.c`, `printf.c`, `sprintf.c`, `strto*.c`, `div64.c` | `strtok`'s pointer, the buffer of `printf`, the direction flag | the functions of those names | kernel and programs |
| way into the kernel, `user/builtin.S`, `traitant_IT*`, `ctx_sw.S` | registers, user and kernel stacks, `contexte[]` | 35 stubs, three interrupt handlers, `traitant_IT_49_switch`, `ctx_sw` | everything |
| shell and programs, `user/` | prompt, games, player of melodies, dining philosophers | `superShell` and its commands, `play_melody`, `test_semaphore` | the user |
| boot, `kernel/boot`, `kernel/crt0.S` | processor tables | `kernel_start` | |

How they interact: the kernel is entered by interrupts only (32 clock, 33
keyboard, 49 system call) and runs with interrupts masked, so an entry is atomic
up to the point where it calls `ordonnanceur()`. That call may elect another
process, and the caller goes on, on its own kernel stack, when it is elected
again. This is where all the concurrency of the kernel is: what was read before
the call is stale after it, and any number of other entries has happened in
between. A process is in at most one list, threaded through the single field
`chainage`; its `etat` says which one, and each entry relies on that.

What is hard here: endings (three code paths hand a process over to its father,
and the memory is freed later, at the next scheduling); pointers kept across
`ordonnanceur()`; sort keys that change inside sorted lists; a loop over the
sleepers that rests on the list's order; preemption decisions made in each
handler with its own comparison; counters that wrap.

Correct means, for each component: *lists*: sorted, nothing twice, nothing in two
lists. *Scheduler*: states and lists agree; a stronger ready process never waits
beyond the call that made it ready; equals take turns; nothing that runs is
freed. *Process calls*: father pointers and lists of children agree, a ZOMBIE is
collected once, by its father or with it; no wake-up of a father is lost.
*Clock*: nobody wakes early, everybody wakes. *Semaphores*: count and queue agree;
no wake-up is lost or invented. *Message files*: messages leave in the order they
were accepted, none lost or duplicated; blocked senders and receivers are never
mixed. *Keyboard*: a typed line finds a reader, the strongest; the modifiers are the
keys held. *Screen*: it and the buffer the
scroll keys redraw it from hold the same lines. *Sound*: it is stopped in time,
whoever plays or dies. *Debugger*: a line that loses bytes never pairs a command
with another's answer, and every command is answered in the end. *Allocator*:
zones never overlap, the tags and bins describe the heap, a request fails only
when nothing can hold it. *C library*: each function computes what its contract
says, from every state the others leave. *Way into the kernel*: a call is served
once with its arguments, and interrupts are invisible to programs. *Programs*:
neighbours never eat together, nothing is destroyed while it is waited for, no
child outlives the stack it reads.

## 2. Modules

| module | models | extends |
|---|---|---|
| `Queue` | the list macros, as operators on sequences | |
| `Noyau` | the variables of the process table, `ordonnanceur()` and what it calls; the invariants every component must keep | `Queue` |
| `Processus` | the process calls, one action each | `Noyau` |
| `Horloge` | the clock interrupt; the smallest complete kernel (`Spec`) | `Processus` |
| `Semaphore` | the calls of `semaphore.c`, 16-bit counters | `Horloge` |
| `SemaphoreAbstrait` | what a semaphore promises: tokens and a queue of waiters | |
| `Files` | the calls of `files.c` | `Semaphore` |
| `FileAbstraite` | what a message file promises: a bounded FIFO | |
| `Clavier` | the line buffer of `kbd.c`, `cons_read` with its history, `verifie_es` | `Horloge` |
| `Malloc` | Doug Lea's allocator over a private `sbrk()`, the guarded zones of `mem_alloc` | |
| `PiloteClavier` | scancodes to keycodes, modifiers, lights and characters | |
| `Gdb` | the debugger stub, gdb, and the line between them | |
| `Chaines` | `string.c` over a memory of bytes | |
| `Formats` | `printf` and its kin, `strtol`, `strtoul`, `atoi`, the 64-bit division | |
| `Ecran` | the cursor, the screen, the scroll-back buffer | |
| `Son` | the speaker, its end in `tic_PIT`, the programs that play | |
| `Philosophes` | `test_semaphore.c` on its own semaphores | |
| `Appels` | stubs, handlers, dispatch and `ctx_sw`, on registers and stacks | |
| `Shell` | the prompt, the commands and the games that start children | |
| `MCHorloge`, `MCSemaphore`, `MCFiles`, `MCClavier` | symmetry and views for TLC | one each |
| `MCMachines` | the ten modules from `Malloc` to `Shell`, side by side, with their values for TLC | those ten |
| `QueueLemmes` | proved facts about `Queue` | `Queue` |
| `NoyauProofs` | proved facts about `Noyau`: types, then lists and states | `Noyau`, `QueueLemmes` |
| `HorlogeProofs` | theorems about `Spec`: types, discipline | `Horloge`, `NoyauProofs` |
| `ParenteProofs` | theorems about `Spec` and `SpecCalme`: fathers, children, ZOMBIEs | `HorlogeProofs` |
| `OrdreProofs` | theorems about `Spec`: sorted lists, preemption, turns, dates | `ParenteProofs` |
| `SemaphoreProofs` | theorems about `SpecSemaphore` and `SpecSansPerte` | `Semaphore`, `OrdreProofs` |
| `FilesProofs` | theorems about `SpecFiles` and `SpecMessages` | `Files`, `SemaphoreProofs` |
| `MachinesProofs` | theorems about `SpecMachines`, each for one bench | `MCMachines` |

**State.** A list is the sequence of its elements from `head->next` to
`head->prev`, so `queue_out` takes the last one. All lists of processes are one
function `queue`; the wait queue of a message file or of a semaphore is named by
an element of `Fids` or `Sids`. An entry of `tableDesProcs` that is NULL is the
state `"LIBRE"`. A process that gave the processor up inside the kernel has a
`suite`: the call it must finish when elected (its kernel stack). `panique` says
that an assert failed, that a NULL pointer was used, that the elected process was
freed or that a recalled line was copied beyond the end of `tampon`; the model stops there and keeps the state before the handler for
reference.

**Actions.** The functions of the code are operators from a kernel state (a
record with one field per variable) to the state they leave; a handler is their
composition, in the order of the code, and `Devient` makes it an action. One
action is one entry up to its end or to `ordonnanceur()`; `RepriseWaitpid`,
`RepriseTic`, `RepriseWait` and `RepriseFile` are what follows it. `Start`,
`Exit`, `KillElu`, `KillAutre`, `Waitpid`, `Chprio`, `WaitClock` and the calls of
the services may be taken in any order by the elected process: programs are
arbitrary. Calls that fail or only read change nothing and are left out. The pid
`start` gets is any free one (the code: the one freed last), and so are the sid
of `screate` and the fid of `pcreate` (the code: the largest); both include what
the code does.

**Composition.** `Semaphore` and `Files` add variables and actions to the kernel
below them; the steps of the others leave the new variables alone
(`AutresNext`, `HorsFilesNext`), but for the fields of a process descriptor,
which go when it is freed (`Restants`, `ValeursRestantes`). `Clavier` is built the
same way on `Horloge`. An instance with
`Sids = {}` or `Fids = {}` is a kernel without that component. `SpecSemaphore`
and `SpecFiles` are the kernels with every action; the other specifications
restrict the programs and say how.

The ten other modules share no variable with the scheduler or with each other:
what they model runs with interrupts masked, or in one process whose calls of the
kernel are single steps. `MCMachines` puts each on a bench of its own: `banc`
chooses one at the start, the others rest with all their variables at 0. Where
they do concern several processes (`Formats`, `Son`, `Philosophes`, `Appels`) the
module has the processes it needs and lets the clock come between their steps.

*`Clavier`.* `tampon` is its number of characters, a line of `history` its length.
`TapeCaractere`, `TapeFinDeLigne`, `Efface`, `FlecheHaut`, `FlecheBas` and
`TapePlein` are the branches of `keyboard_data` that change the line, with
`verifie_es` (`ReveilleLecteur`) in the middle of those that end one; `RepriseClavier` is the rest of
an interrupt that `verifie_es` preempted. `ConsRead` is `cons_read` up to its end or
its first wait, `RepriseConsRead` one turn of its loop. A history line is not
terminated when it has the length asked for: it goes on for at most `DebordMax` bytes
before a zero. Recalled, it is copied over `tampon` whatever its length (`Recopie`): one
that does not fit (`Tient`) is the panic `"tampon"`. Lengths of 2^31 and more, which
`cons_read` compares as negative numbers, are left out.

*`Malloc`.* `tas` has the fields of `malloc_state`; a chunk is its address, a bin
the sequence of its chunks from `fd` to `bk`. `MAlloc`, `Free`, `Consolide`, `Systrim`,
`Realloc`, `Memalign`, `Calloc`, `Independent` are the functions of the code, from a
heap to the heap they leave; `MemAlloc` and `MemFree` add the lengths and guard
words of `mem_alloc`, and test them as the code does. Sums and products of sizes wrap at
`Mot`, as those of the code do at 2^32; where the code
would then read or write outside the chunk it was given, the heap is `corrompu`. `contrat`
is a history variable, and the model stops when it becomes FALSE: after a call whose
sizes wrap, which gets less than it asked for, and after an `independent_calloc` that
marks a free chunk as in use, because the chunk it cuts came from a fast bin and the one
below was freed meanwhile. Both are taken as the code takes them; what a heap promises
after them, nothing in the code says.

*`PiloteClavier`.* `do_scancode` handles one byte; `Appuie` and `Relache` are the
keyboard, which sends the bytes of each key, repeats included. `key_down` and
`shift_state` are sets, `key_map` the default map.

*`Gdb`.* `CibleLit` is the stub reading one byte in the place its `pc` names (the
start of a packet, its data, its two digits, an acknowledgement) and all it does
until the next read; `Piege` is an exception. `Hote...` is gdb, external; `Perd` and
`Abime` are the line, `Delai` gdb's timeout. A continued program runs (`pc` is `"court"`).

*`Chaines`, `Formats`.* One operator per function, from the memory it reads to the
memory and pointer it gives. `doprnt` is the text a format and its arguments give;
`PrintfPas` is a `printf` up to its next `console_putbytes`, so that other processes
print between two of them; `sprintf` and `vsnprintf` are checked against `doprnt`.

*`Ecran`.* `traite_car` has one operator for each control character. `cadre` and
`fidele` are history variables. `fidele` becomes FALSE where the code lets the buffer and
the screen drift (a line that wraps by itself, a scroll key), and `cadre` when a program
gives LARGEUR to `set_id_start`, which accepts it: the next new line puts the cursor in
column LARGEUR, which is the line below (`Ecrit`).

*`Son`, `Philosophes`, `Appels`, `Shell`.* One action per call of the kernel. In
`Appels` a register holds a symbolic value, which names what was put in it, so
that a swapped order is seen; `Prototype` is the table of arguments of the
dispatch. In `Shell` a command is the calls it makes and the waits in it.

## 3. Runs

| run | instance | what it shows |
|---|---|---|
| `Horloge.cfg` | 3 pids, 2 priorities, dates 0..3, a turn every second interrupt: about 440 000 states | the invariants and action properties of the process table, for arbitrary programs |
| `Vivacite.cfg` | 3 pids, 1 priority, dates 0..1: about 62 000 states | liveness for programs without `kill(getpid())` and `chprio` |
| `Semaphore.cfg` | 3 pids, 1 priority, one semaphore, counters -3..2: about 245 000 states | the calls implement `SemaphoreAbstrait`, as long as no waiter is killed |
| `Files.cfg` | 3 pids, 2 priorities, one file of 1 or 2 places, 2 messages: about 326 000 states | the calls implement `FileAbstraite`; the invariants of the files |
| `Services.cfg` | 3 pids, one semaphore and one file of 1 place: about 25 000 states | nobody waits for ever for what is given again and again |
| `KillBloque.cfg` | dates 0..1 | violation: `kill` of a process in `waitpid` fails the assert of `queue_del` |
| `FilsOrphelin.cfg` | dates 0..1 | violation: the elected process is freed under itself |
| `AutoKill.cfg` | dates 0..1 | violation: `kill(getpid())` loses the wake-up of the father |
| `ChprioElu.cfg` | 2 priorities | violation: `chprio(getpid(), ...)` also yields to an equal |
| `SignalVide.cfg` | counters -2..1 | violation: `signal` after the `kill` of a waiter uses a NULL pointer |
| `Clavier.cfg` | 3 pids, 2 priorities, a buffer of 3, a history of 1, reads of 2 and 4: about 381 000 states | a typed line finds the strongest reader, whatever comes in the middle, with a read longer than the buffer and a line that recalled does not fit |
| `Machines.cfg` | the ten benches, see Bounds: about 660 000 states | each part computes what it should, from every state its own operations lead to |

**Processes.** Invariants: `TypeOK`; `Discipline` (state and list agree, one list
per process); `Filiation` (fathers and lists of children agree); `FilesTriees`
(the ready list and the sleepers stay sorted although keys change);
`JamaisEnfileDeuxFois` (the assert of `queue_add` never fails); `WaitpidValide`
(what `waitpid` kept across the scheduler is still valid); `PasDeReveilPerdu`.
Action properties: `DisparitionDesZombies`, `Preemption` (only a kill that wakes
the victim's father leaves a stronger process waiting), `ReveilALHeure`,
`TourDOrdonnancement`. Liveness: `FinDuSommeil`, `Equite`, `AttenteServie`.

**Semaphores.** `CompteEgaleFile`: a negative counter is the number of processes
that wait; `signal` looks at the counter only. `ImplementeSemaphore`: tokens are
neither lost nor invented and go to the waiters in their order; the answer of a
`wait` that was woken by `signal`, `sdelete` or `sreset` is the one it was given,
although it is read after the scheduler, when the semaphore may be gone or its
sid reused. In the refinement the tokens are the positive counters, and an answer
is the status of a process that is ready with `wait` unfinished. Both fail once a
waiter is killed (`kill` takes it out of the queue and leaves it counted), which
`SignalVide` shows; `SpecSansPerte` is the kernel without such kills, all others
included. `signal` never gives the processor up, so `Preemption` is not a property
of this component.

**Files.** `AttentesSeparees`: the single queue of a file holds only receivers
when it is empty, only senders when it is full, nobody otherwise; `PcountJuste`:
what `pcount` derives from the lengths is the right number; the queue is sorted,
so that the strongest waiter is served first, also after `chprio`; `Discipline` and
`Preemption` hold with files too. `ImplementeFile`: messages leave in the order
they were accepted, and a call that waited returns its own message or failure
whatever happened to the file before it is elected. Killing a waiter is harmless
here, and `SpecMessages` includes it.

**Both.** `SignalSert`, `PsendSert`, `PreceiveSert`: if the semaphore is signalled
(a message sent, received) again and again, a process that waits for it stops
waiting. They need no fairness: the hypothesis is what moves the system. They
hold for programs of one priority that are not killed; with two priorities a
weaker waiter of a file may starve, as intended.

**Keyboard line** (`Clavier.cfg`). Readers of two priorities are started, read, and
are killed while they read; the keyboard interrupt may preempt itself.
`LigneServie`: the one step that leaves readers blocked in front of a complete
line is the kill of the reader woken for it. `LecteurLePlusFort`: of the readers that
wait, the strongest is woken. No property says that a line stays in its buffer:
nothing in the code keeps a recalled one there, and the states in which it has been copied
too far end the behaviours that reach them.

**Benches** (`Machines.cfg`). `AllocateurSain`: the chunks tile the heap, each is in
one place only, tags, bins, map and counts agree. `AllocationJuste`: zones in use
never overlap and keep their guards; a request fails only if no run of free bytes
could hold it once all is merged and `sbrk` is exhausted. Both speak of the heap up to
the first call that makes `contrat` FALSE, and say nothing of the heap after it.
`PiloteJuste`: each
modifier counts its keys seen pressed and not released, through repeats, two keys
of one modifier and a key held since before the boot; a number typed on the keypad
is not forgotten. `ReponseJuste`: the answer gdb takes is the answer to its
command, in the state of the machine it describes, whatever byte is lost or
damaged; `ConversationFinit`: gdb's program of commands comes to its end.
`ChainesSures`: each function of `string.c` is compared with a definition over
sequences, for every memory, every argument, overlapping areas, and both
directions that the direction flag has been left in. `ImpressionSure`: padding,
width and precision, but for strings that are both left-adjusted and cut by a precision,
which the code pads one blank short (section 5) and the instance leaves out; `strtol` and `strtoul` read back the number printed;
`do_div64` is `\div` and `%`; what two processes print mixes only between lines or
after `PRINTF_BUFMAX` characters, and loses nothing. `EcranSur`: screen and buffer
hold the same lines at the same place; the cursor stays in the columns until a program
makes the lines start at LARGEUR, and is then at most one line too far. `SonJuste`:
the speaker is on only before the tick that stops it; a note is not cut by the next
of its melody. `RepasJuste`: neighbours do not eat together, and `test200` destroys
no semaphore that is still used, although it does not wait for the philosophers:
the priorities make it last. `AppelSur`: the function of the prototype runs once
with its arguments, pointers outside user space are refused with -1, and the
registers of both processes survive any interleaving of the three interrupts.
`MusiqueTenue`: no player is left when the command whose stack it reads returns.

**Bounds.** Three pids and IDLE give a father with two children or three
generations, two equals and a third, and a pid that is reused: every relation
the properties speak of involves at most three processes. Two priorities beside
IDLE's 0 make stronger, equal and weaker possible. The date counter wraps after
`DateMax`, so every run has dates in the past, present and future, and the wrap.
`ClockFreq = 2` and `SchedFreq = 1` give interrupts with and without a turn of
the scheduler. `ShortMax` 2 has both ends of the counter within reach of three
processes: `signaln(s, 2)` wakes two, or one and leaves a token, or overflows;
`wait` with `ShortMax` 1 reaches the lower end. A file of one place is full and
empty in turn, one of two is neither. `Vivacite` and `Services` have a single
priority: the questions there are between equals. Deadlock is not checked because
a panic ends a behaviour; on the benches, because a program may end and a bound
may stop one.

A line buffer of 3 is empty, partly full and full, a history of one line has an
oldest and a newest to step beyond; a read of 2 characters takes a whole
line, or cuts it, one of 4 is longer than the buffer; two characters and the byte found
after them just fill it, and a recalled line of 3 does not fit with its NUL. The heap has 128
bytes in pages of 16 that begin off a page boundary (the smallest chunk is 16
bytes), so fast bins, small and large bins, several unsorted chunks, top, consolidation and
exhaustion, also by fragmentation, are all reached with three zones, two of them without
guards (trimming is tried and `sbrk` refuses it, as it refuses everything negative). A
guarded zone has a length that takes half the heap, or one that overflows. The functions
without guards are asked for 20 bytes, whose chunks go through the fast bins, so that
`independent_calloc` cuts recycled ones, for 60, so that `realloc` grows into top, into the
chunk above and elsewhere, and for 980, with which every product and sum wraps;
`independent_calloc` makes one element or two. `Mot` and the thresholds are scaled down
with it. Scancodes are real; the seven keys are two shifts, Ctrl, Alt, AltGr,
a keypad digit and Pause. Packets of 9 bytes are filled and overrun; one
byte is lost, or damaged into each delimiter, a letter or noise. A memory of 5 bytes
holds two overlapping strings. Words have 5 bits, so signs and the widest number are
printed for every value. The screen has 3 lines of 5, tabulations of 2, and a
buffer of 5 lines; `set_id_start` is called with 0, a column, LARGEUR and one more. Two players and the kernel's own sounds are three users of
the speaker. Three philosophers are all neighbours; with two turns each meets
the others before and after. Two children are the most the shell has at a time, and two
tries have a last one. One fault on gdb's line is what the protocol
claims to survive between two acknowledgements; each may come at any byte.

The views leave out what nothing reads: the date of a process that does not
sleep, the status and the value of a process that is not in a call that waits
(each such call writes them before it reads them), and, where no action reads
them, the clock and the fathers. Two states with the same view therefore allow
the same steps to states with the same view, and no property looks further: this
holds for behaviours, so it is sound for the temporal properties too. `MCMachines`
leaves out the zeros of the benches at rest, and of the screen the lines that can
no longer be shown; `MCClavier` the clock, and the priority of a process that has
ended. Permuting
pids or messages is a symmetry because no code compares them; it is not used in
the runs with liveness.

**Fairness** (`Vivacite`, and the bench of `Gdb`). An interrupt stays pending until interrupts are
unmasked, which every return to user mode and the idle loop do: `Tic` happens if
it is possible infinitely often. The kernel code of an elected process goes on:
the same for the two resumptions. Nothing is assumed of the programs: the
elected process may compute for ever. The condition is written with the guard
of the action in place of ENABLED, which it equals.

On gdb's bench the stub goes on and a continued program stops again
(`WF` on `CibleNext`), gdb sends, reads and times out (`WF` on `HoteNext`), and the
line damages at most `PannesMax` bytes; without that bound no protocol ends.

**Findings.** The five violations above are disagreements between the code and
what its comments and asserts say; `PROJECT.json` quotes the lines. Section 5 lists other
ones, which have no run.

## 4. Proofs

For any number of processes, priorities, semaphores, files and messages, and any
width of the counters, from the named assumptions of the modules concerned only. All of them are inductive invariants, or properties
of one step from such an invariant.

`QueueLemmes`: `queue_add`, `queue_del`, `queue_out`, cutting a list in two and a
loop of `queue_add` keep the type, the set of elements, the absence of
duplicates and the order of a list. The loop is a recursive function; its lemma
is an induction by the smallest counterexample. `NoyauProofs`: each operator of
`Noyau` keeps the set `Noyaux` of well-typed kernel states, and what each does to
the agreement of states and lists.

The proofs follow the model: a lemma for each operator on kernel states, one for
each handler, which is a composition of operators, and one for each action. What
differs from one property to the next is the relation between two kernel states
that is carried through a handler. It is named in each module.

**`HorlogeProofs`.** `TypeCorrecte`: `[]TypeOK`, inductive as it stands.
`DisciplineCorrecte` and `JamaisEnfileDeuxFoisCorrect`: `[]Discipline`,
`[]JamaisEnfileDeuxFois`. `Discipline` is not inductive: that the elected process
resumes a call without being in a list, and that IDLE is never in one of them, is
needed too. `InvDiscipline` adds it (`Regle`), and proves the two together,
because a panic of `queue_add` is excluded by the discipline of the state before.
Inside a handler the discipline is broken: the argument follows the set of
processes the handler *holds* (out of every list, whatever their state).
`Chainage(q, e, L)` says that all but those of `L` are where their state says;
taking out of a list adds to `L`, queueing removes from it, changing the state of
a process is harmless while it is in `L`, and `ordonnanceur()` may be called
when `L` is at most the elected process (`Pret`); it then restores `Regle`.

**`ParenteProofs`.** `FiliationCorrecte` and `WaitpidValideCorrect` are one
invariant (`InvParente`): `free_childs` cuts the links of a process that ends, so
what `waitpid` kept is valid because a child leaves its father's list only
with one of the two ended. `ordonnanceur()` frees descriptors in the middle of every
handler; that it takes no family apart rests on the discipline, by which
what it frees is MOURANT, and a MOURANT has no father. `DisparitionDesZombiesCorrecte`
is the relation `Recoltes` of the state after a handler to the one before.
`PasDeReveilPerduCorrect` is about `SpecCalme`, where no process kills itself, as
`AutoKill` shows it must be: `Silence` says that an operator adds no process that
waits, no child and no ZOMBIE, and the two places that do, the end of a process and
`waitpid`, wake the father or have searched his list.

**`OrdreProofs`.** `FilesTrieesCorrecte`: a key is changed only while its
process is out of the list that is sorted by it. `PreemptionCorrecte`: that the
elected process is the strongest (`EluFort`) is true after every
`ordonnanceur()`, and every handler that does not call it keeps it
(`Tient`) but for the father that a kill wakes. `TourDOrdonnancementCorrect`:
`tic_PIT` looks at the first of the ready list only; `FilesTriees` makes it the
strongest. `ReveilALHeureCorrect`: the loop over the sleepers stops at the first
date to come; the order makes this right. It assumes `ClockFreq > 1`: with one interrupt a second
`cpt_ticks` stays at 0, and the property recognises an interrupt by that counter.

**`SemaphoreProofs`**, with every action and kills of waiters included:
`TypeSemaphoreCorrecte` (the tests before `++` and `--` keep the counters in
`Shorts`); `DisciplineSemaphore` (`ReveilAttendants` treats the wake-up of any number
of processes at once); `CompteBorneFileCorrecte`, the half of
`CompteEgaleFile` that survives kills: a queue is at most as long as the negative
counter says, and is empty when the semaphore is gone. Every operator of the kernel but
`wait`'s leaves the queues of the semaphores as they are (`Intactes`) or
shorter (`Raccourcies`); the invariant follows semaphore by semaphore (`Borne`).
About `SpecSansPerte`, where no process that waits is killed:

* `CompteEgaleFileCorrecte`: the other half (`Couverte`) too. The queues do not get
  shorter but in the calls of `semaphore.c`, which count what they take out.
* `ImplementeSemaphoreCorrecte`: every step is a step of `SemaphoreAbstrait` or
  leaves its variables alone. The inductive invariant is the exact counters with
  `Posture`: the state of a process agrees with the call on its kernel stack, so
  one that is woken in `wait` has an answer and no other has. Each call of
  `semaphore.c` has its own step lemma. For all the rest it is shown that no process gets further
  in a blocking call (`Fige`), be it elected, suspended, freed or
  started again under the same pid; the one killed does, and takes its answer
  along (`TueFige`).

**`FilesProofs`**, about `SpecFiles`, with any programs: `TypeFilesCorrecte`,
`DisciplineFiles`, and `AttentesSepareesCorrecte`, which is inductive with the discipline and with
the value of each blocked sender being a message (`Separes`). The rest of the kernel takes
processes out of the queues of the files at most, and keeps their order, also when
`chprio` moves one (`Epargne`, `Menage`); so only the calls of `files.c` matter, and those
change one file (`AppelFile`). `PcountJusteCorrect` follows from it by the
cardinality of a list without duplicates. `PreemptionMessages`: `Preemption` and `FilesTriees`
for `SpecMessages`, whose behaviours are behaviours of `SpecFiles` (`InvariantMessages`).
`ImplementeFileCorrecte`: every step is a step of `FileAbstraite` or leaves its
variables alone, with kills of those that wait too. The inductive invariant
(`InvImplante`) is `InvFiles` with `Posture`. How far a call is depends on the state of the
process, its call, its file and two fields (`Etape`); each call of `files.c` moves the caller
(`BlocageAppels`), the processes it wakes (`ReveilAppels`) or nobody
(`ImmediatAppels`), and the steps of the semaphores and of the other components
move nobody (`Muette`) but the process that is killed. That the messages are a FIFO is `queue_add` with equal keys,
seen from the end that `queue_out` takes (`ContenuFIFO`).

**`MachinesProofs`**, about `SpecMachines`. A bench at rest stays at rest (`Banc`),
so each invariant is proved for the steps of one bench. `SonJusteCorrect`: that a
tick to come stops the sound is inductive; that a note is whole is not, and needs to know
how far the program that asked for the last sound is (`NoteCouverte`): it sleeps at
least as long as the sound lasts, so it asks again only after the tick
that ends it. `MusiqueTenueCorrecte`: a player is known to the command that started it.
This is inductive once a pid is known to be never negative: the -1 that a `start` that
fails leaves is then the pid of no other child. `RepasJusteCorrect`: the invariant
(`InvRepas`) is that of the algorithm. The counter and queue of the mutex
say who is inside (`MutexJuste`); the private semaphore of a philosopher says whether
the forks have been given to it (`PriveJuste`); a fork is in use exactly when one of
its two neighbours holds it (`TableJuste`). That `test200` is not too early rests on
the priorities: it runs only when every philosopher is blocked or has ended, and
`PasDInterblocage` shows that all of those that remain cannot be blocked at once.
`EcranSurCorrect`: a new line of the screen has to find a blank row in the buffer, so
the invariant adds that nothing was printed beyond `buff_ligne` (`Entame`). A control
character keeps the copy as it is or goes one line down in both (`Suit`), and
`defilement()` brings the cursor back above the last line (`DefileGarde`). The
tabulation needs its width to be at least 2: of what precedes a stop, the column that
the remainder goes back to is not beyond it (`TabuleColonne`). Nothing is assumed of the
arguments of `set_id_start`: once one was LARGEUR (`cadre` is FALSE) only `EcranLarge`
is left of the types, and it is inductive by itself (`PasLarge`), because a character
that ends any line, the one too far included, puts the column back at 0.
`AppelSurCorrect`: that a process finds its registers is not inductive, since most of the
time they are not in the processor. The invariant speaks of those it will have in user mode
(`Util`), which are in the processor, in `contexte[]` or on its kernel stack depending
on where it is (`Posture`): no interrupt and no `ctx_sw` changes them (`Reprend`).
`Chemin` says, for each point of a call, what they and the user stack hold. `Tables`
compares the dispatch with the prototypes for the 35 stubs: the order of the arguments, the
pointers checked and the result.
`PiloteJusteCorrect`: the invariant (`InvPilote`) follows the bytes on the line (`Phase`) and
what a keycode may do (`TroisCas`: count, recompute, or neither). Counts that are exact stay
so unless a key is released that was never seen pressed (`ExactReste`), and are exact
again once they are recomputed (`ExactRecompte`). A pending number keeps a modifier since
a set of modifiers without a map has two of them and one key takes away at most
one (`PendantReste`). How far a count can be wrong is what was hard to see: the driver takes
the release of a key after `e0` that was held at the boot for a press, so a count can
exceed the keys there are, but by at most one for each key held at the boot and not
yet released (`Borne`), hence twice the keys of the modifier. The first statement of
`TypePilote` bounded a count by the number of keys; the proof failed there, and TLC
shows it false for a keyboard with the single key 97.
The only assumption, `PiloteAssumption`, is that every key has a code of its own below
`SC_LIM` or after `e0`, or is Pause.

**Only model-checked:** the line buffer and the readers
(`LigneServie`, `LecteurLePlusFort`, and the invariants of the kernel in `SpecClavier`);
the other benches (`Malloc`, `Gdb`, `Chaines`, `Formats`).
Out of the prover's reach: the liveness properties, and what the folds and recursive functions of `Malloc`, `Gdb` and
`Formats` compute for every input.

## 5. What the code does that a user of it should know

Met while modelling. The models include these, or leave out the input that leads
there and say so at the action. First what contradicts a line of the repository's own text,
beside the five findings of section 3; no property claims any of it, nor its contrary:

* *Waiting for a line.* `console.h:66` and `console.c:221` say that `cons_read` waits for an
  end of line. It also returns once `length` characters are there (`console.c:225`).
  `Clavier` has both ends of the loop.
* *Sizes that wrap.* `malloc.c.h:937` promises `n_elements * element_size` bytes. `calloc`
  (`malloc.c.h:4346`) and `independent_calloc` (`:4497`, `:4507`) multiply without a test, and
  `memalign` (`:4271`) adds: a product that wraps gives a smaller chunk. `Malloc` wraps as they
  do, and `contrat` is then FALSE.
* *A free chunk marked in use.* `malloc.c.h:2630` says that a free chunk must claim to be
  free. `independent_calloc` sets `PREV_INUSE` on the first chunk it cuts whatever it was
  (`:4547`, `:4551`); when that chunk came from a fast bin above a chunk freed meanwhile
  (`:2737`), the latter claims to be in use and is never merged. `Partage` does the same, and
  `contrat` is then FALSE.
* *Left-adjusted cut strings.* `doprnt.c:81` says that `%-m.n` is a field width, a
  precision and left adjustment. The loop of `doprnt.c:365` counts the character it stops
  on, so `%-4.3s` of `abcd` prints three characters and no blank. `Converti` does so;
  `ImpressionSure` is not checked for these strings (`CoupeAGauche`).
* *`%X`.* `doprnt.c:77` and `:125` say capital letters; digits and prefix are those of `%x`. `Formats` prints
  the code's, and no property distinguishes the two.
* *The example of `%b`.* For 0xb and `"\10\4\3FIELD1=\2BITTWO\1BITONE"` the comment
  (`doprnt.c:113`-`120`) gives `b<FIELD1=2,BITONE>`. The base it starts with is 8 and bit 2 is
  set: the code prints `13<FIELD1=2,BITTWO,BITONE>`.
* *`scount`.* `semaphore.c:50` says that the upper 16 bits are 0. A negative count is
  sign-extended, so -1 is also its error; the model's result is a number without a width.

Then what no text denies:

* *Keyboard.* A number typed on the keypad (`npadch`) is an `int` that is never
  bounded. A reader that is killed after it was woken takes its wake-up with it: the
  next waits for the next key. Lines typed before anyone reads merge into one.
  `cons_read` leaves no NUL when the line fills the buffer, and then measures and copies
  it with `strlen` and `strcpy`; a line of the history is copied over `tampon` without
  regard to its size. `verifie_es` compares the
  other way round than `verifie_reveille`: a stronger reader waits for the next turn.
* *Clock.* `tic_PIT` may give the processor away between its two tests of the time; when it
  goes on it tests a later date than its own for the turn of the scheduler.
* *Keyboard driver.* The release of a modifier after `e0` that was held at the boot counts
  as a press (`keyboard_pckbd_unexpected_up` refuses it), until the counts are recomputed.
* *Screen.* A line that wraps by itself is not counted by `buff_ligne`, so the scroll
  keys then redraw other lines; `screen_buffer` is indexed without a bound. With the start
  of the lines at LARGEUR each new line begins one line too low.
* *Sound.* A sound of 0 ticks is never stopped; no program asks for one.
* *Debugger.* A continue whose acknowledgement is lost is run twice. The stub waits
  for ever when the acknowledgement of its answer to `D` is lost. A write to memory
  that meets an unmapped page leaves the pages before it written.
* *C library.* `memmove` leaves the direction flag set, against the calling
  convention; its own functions lower it first. `strrchr(s, 0)` and `strstr(s, "")`
  give NULL. `vsnprintf` writes its NUL at `s[size]`. `strtol` does not
  test for overflow nor skip `+`. `do_div64` traps when the divisor's upper half
  plus one wraps.
* *Shell.* `superShell` fills `argv` without a bound on the number of words. A dangerous
  command that is not confirmed is also called unknown. `cmd_test` waits for any child when
  its `start` fails. Waiting for a process that never ends blocks the shell for good.

## 6. Not modelled, and the plan

Not modelled: memory exhaustion in the kernel (its `mem_alloc` always succeeds) and
the order in which pids are reused; stack overflow (the canaries); the wall clock and
CMOS date, which nothing reads; `mmap` and `mallopt` in the allocator, and a bin of large
chunks with two sizes, which the heap of the bench is too small for; dead keys, raw modes
and the other functions of the Linux driver that the default map never calls; the
commands H, T, P, X, C, S, R and d of gdb; colours; the data of the
melodies and commands that only print; the boot, which runs once without a choice. The other
tests of the repository are scripts of calls, and every sequence of calls is a
behaviour of the kernel model.

In this order:

1. `ListeLibres`: the LIFO list of pids with the error returns of `start`, and a
   `mem_alloc` that may fail.
2. `CycleDeVie`: an abstract life cycle of processes that `Horloge` implements.
3. Proofs: the discipline and the readers for `SpecClavier`.
