----------------------------- MODULE PythonKernel ----------------------------
(***************************************************************************)
(* The Python session of one conversation (tool/python-repl/src/kernel.ts, *)
(* index.ts, python/runner.py).                                            *)
(*                                                                         *)
(* Cells run one at a time on a process that outlives them.  A cell over   *)
(* its time is interrupted, and only one that ignores the interrupt costs  *)
(* the process; a watchdog does the same to a session over its memory.     *)
(* Whatever the processes this kernel ever started say goes to the one     *)
(* reply slot, whoever waits there by then.                                *)
(*                                                                         *)
(* A variable stands for each cell: the one its code assigns.              *)
(***************************************************************************)
EXTENDS Naturals, Sequences

CONSTANTS
  MaxCells,      \* calls of the python tool, named by their order (bound)
  MaxProcesses   \* the interpreters that may be started, the same (bound)

ASSUME PythonKernelAssumption == MaxCells \in Nat \ {0} /\ MaxProcesses \in Nat \ {0}

Cells == 1 .. MaxCells
Processes == 1 .. MaxProcesses

VARIABLES
  cell,        \* each cell: where it is, what it was told, whether it met an older cell's remains
  queue,       \* the cells that wait for their turn (tail)
  process,     \* kernel.process, or None
  child,       \* each interpreter: state, cells in its stdin, lines on the way, memory, SIGINT on the way
  variables,   \* what the note to the model lists
  memoryStep,  \* how far the watchdog has gone with the running cell
  disposed,    \* the plugin was unloaded
  down         \* the runtime process is gone, and every session with it

vars == <<cell, queue, process, child, variables, memoryStep, disposed, down>>

None == 0
NotRun == [at |-> "idle", told |-> "nothing", of |-> None, strayed |-> FALSE]
NotStarted == [state |-> "none", in |-> <<>>, out |-> <<>>, memory |-> {}, sigint |-> FALSE, took |-> {}]

Init ==
  /\ cell = [c \in Cells |-> NotRun] /\ queue = <<>>
  /\ process = None /\ child = [p \in Processes |-> NotStarted]
  /\ variables = {} /\ memoryStep = 0 /\ disposed = FALSE /\ down = FALSE

\* The cell in the reply slot: running, or interrupted and given a last chance.
Waiting == {c \in Cells : cell[c].at \in {"running", "interrupting"}}
busy == Waiting # {} \/ queue # <<>>

\* Mutant: one cell that failed keeps the others from running.
MayStartAfterSuccess ==
  Waiting = {} /\ queue # <<>> /\ \A c \in Cells : cell[c].at = "done" => cell[c].told = "output"

\* Mutant: the next cell starts while the one before is being interrupted.
MayStartBeside == (\A c \in Cells : cell[c].at # "running") /\ queue # <<>>

\* The tail of the queue is settled whatever became of the cell before: the next one starts
\* before any other event is handled.
MayStart == Waiting = {} /\ queue # <<>>

\* Mutant: stop() forgets the process and lets it run.
KilledNever(ch) == ch

Killed(ch) ==
  IF process = None THEN ch
  ELSE [ch EXCEPT ![process].state = IF @ = "alive" THEN "killed" ELSE @,
                  ![process].in = <<>>, ![process].sigint = FALSE, ![process].memory = {}]

\* kernel.stop()
Stopped(ch) == child' = Killed(ch) /\ process' = None /\ variables' = {}

Told(c, told, of) == [cell EXCEPT ![c].at = "done", ![c].told = told, ![c].of = of]

-----------------------------------------------------------------------------
(* A cell.                                                                  *)

Run(c) ==
  /\ cell[c].at = "idle" /\ ~disposed /\ ~MayStart
  /\ \A d \in 1 .. c - 1 : cell[d].at # "idle"
  /\ cell' = [cell EXCEPT ![c].at = "queued"] /\ queue' = Append(queue, c)
  /\ UNCHANGED <<process, child, variables, memoryStep, disposed, down>>

\* What an earlier cell left behind: an event of a process that was stopped, an answer or an
\* interrupt still on its way, or work the process is not done with.
Remains(p) ==
  \/ child[p].out # <<>> \/ (process = p /\ (child[p].in # <<>> \/ child[p].sigint))
  \/ process # p /\ child[p].state \in {"killed", "crashed"}

\* runCell(): an interpreter is started when there is none, and is written the code.  Nobody
\* listens for the 'error' of one that cannot be started or of the stdin of one that is dead by
\* then: it is thrown, and the runtime process ends.
StartCell ==
  /\ MayStart
  /\ \E p \in Processes : LET c == Head(queue) IN
       /\ IF process # None THEN p = process
          ELSE child[p].state = "none" /\ \A q \in 1 .. p - 1 : child[q].state # "none"
       /\ process' = p
       /\ child' = [child EXCEPT ![p].state = IF @ = "none" THEN "alive" ELSE @,
                                 ![p].in = Append(@, c), ![p].took = @ \union {c}]
       /\ cell' = [cell EXCEPT ![c].at = "running",
                               ![c].strayed = \E q \in Processes : Remains(q)]
  /\ queue' = Tail(queue)
  /\ variables' = IF process = None THEN {} ELSE variables
  /\ down' \in IF process # None /\ child[process].state = "alive" THEN {FALSE} ELSE BOOLEAN
  /\ UNCHANGED <<memoryStep, disposed>>

\* The marker cannot be written: the cell fails, and the next has its turn.
StartFails ==
  /\ MayStart /\ process = None
  /\ cell' = Told(Head(queue), "failed", None) /\ queue' = Tail(queue) /\ memoryStep' = 0
  /\ UNCHANGED <<process, child, variables, disposed, down>>

\* Its time is over, or the user stops it: interrupt(), unless the watchdog has stopped the session.
Interrupt(c) ==
  /\ cell[c].at = "running"
  /\ IF process = None
     THEN cell' = Told(c, "stopped", None) /\ memoryStep' = 0 /\ UNCHANGED child
     ELSE /\ cell' = [cell EXCEPT ![c].at = "interrupting"]
          /\ child' = [child EXCEPT ![process].sigint = child[process].state = "alive"]
          /\ UNCHANGED memoryStep
  /\ UNCHANGED <<queue, process, variables, disposed, down>>

\* INTERRUPT_GRACE_MS without an answer.
GraceEnds(c) ==
  /\ cell[c].at = "interrupting"
  /\ Stopped(child) /\ cell' = Told(c, "stopped", None) /\ memoryStep' = 0
  /\ UNCHANGED <<queue, disposed, down>>

-----------------------------------------------------------------------------
(* The interpreters, and what arrives from them.                            *)

\* The cell it works on is over, with its variable or, when cut short, perhaps without.
Prints(p, cut) ==
  /\ ~MayStart /\ child[p].state = "alive" /\ child[p].in # <<>>
  /\ cut => child[p].sigint
  /\ \E memory \in {child[p].memory \union {Head(child[p].in)}} \union (IF cut THEN {child[p].memory} ELSE {}) :
       child' = [child EXCEPT ![p].in = Tail(@), ![p].memory = memory,
                              ![p].sigint = @ /\ ~cut,
                              ![p].out = Append(@, [of |-> Head(child[p].in), cut |-> cut, variables |-> memory])]
  /\ UNCHANGED <<cell, queue, process, variables, memoryStep, disposed, down>>

\* Code that catches the interrupt goes on; a session with no code to interrupt ends by it.
SigintArrives(p) ==
  /\ ~MayStart /\ child[p].state = "alive" /\ child[p].sigint
  /\ child' = IF child[p].in # <<>> THEN [child EXCEPT ![p].sigint = FALSE]
              ELSE [child EXCEPT ![p].sigint = FALSE, ![p].state = "crashed", ![p].memory = {}]
  /\ UNCHANGED <<cell, queue, process, variables, memoryStep, disposed, down>>

Crashes(p) ==
  /\ ~MayStart /\ child[p].state = "alive"
  /\ child' = [child EXCEPT ![p].state = "crashed", ![p].in = <<>>, ![p].sigint = FALSE, ![p].memory = {}]
  /\ UNCHANGED <<cell, queue, process, variables, memoryStep, disposed, down>>

\* Mutant: the note is not brought up to date by what a cell answers.
NotesNever(line) == variables

\* noteVariables(): those the interpreter lists.
Notes(line) == line.variables

\* on('line')
LineArrives(p) ==
  LET line == Head(child[p].out) IN
  /\ ~MayStart /\ child[p].out # <<>>
  /\ child' = [child EXCEPT ![p].out = Tail(@)]
  /\ \/ Waiting = {} /\ UNCHANGED <<cell, variables, memoryStep>>
     \/ \E c \in Waiting :
          /\ cell' = Told(c, IF cell[c].at = "interrupting" THEN "kept"
                             ELSE IF line.cut THEN "interrupted" ELSE "output", line.of)
          /\ variables' = Notes(line) /\ memoryStep' = 0
  /\ UNCHANGED <<queue, process, disposed, down>>

\* on('exit'), of any interpreter this kernel started; lines it printed may still follow.
ExitArrives(p) ==
  LET ch == [child EXCEPT ![p].state = "gone"]
      own == process = p
  IN
  /\ ~MayStart /\ child[p].state \in {"killed", "crashed"}
  /\ \/ /\ Waiting = {} /\ child' = ch /\ process' = (IF own THEN None ELSE process)
        /\ variables' = (IF own THEN {} ELSE variables) /\ UNCHANGED <<cell, memoryStep>>
     \/ \E c \in Waiting :
          /\ memoryStep' = 0
          /\ IF cell[c].at = "running"
             THEN /\ cell' = Told(c, "lost", None) /\ child' = ch
                  /\ process' = (IF own THEN None ELSE process)
                  /\ variables' = (IF own THEN {} ELSE variables)
             ELSE cell' = Told(c, "stopped", None) /\ Stopped(ch)
  /\ UNCHANGED <<queue, disposed, down>>

\* The code asked its host for something and the interpreter died before the answer: the write
\* to its stdin is such an error as well.
AnswersTheDead(p) ==
  /\ ~MayStart /\ child[p].state \in {"killed", "crashed"} /\ child[p].took # {}
  /\ down' = TRUE
  /\ UNCHANGED <<cell, queue, process, child, variables, memoryStep, disposed>>

-----------------------------------------------------------------------------
(* The watchdog and the sweep.                                              *)

\* enforceMemory() finds the session over a limit: its workers, then the cell, then the session.
OverMemory ==
  /\ ~MayStart /\ process # None
  /\ \/ /\ ~busy \/ memoryStep = 2 \/ child[process].state # "alive"
        /\ Stopped(child) /\ UNCHANGED memoryStep
     \/ /\ busy /\ memoryStep = 0
        /\ memoryStep' = 1 /\ UNCHANGED <<child, process, variables>>
     \/ /\ busy /\ memoryStep < 2 /\ child[process].state = "alive"
        /\ memoryStep' = 2 /\ child' = [child EXCEPT ![process].sigint = TRUE]
        /\ UNCHANGED <<process, variables>>
  /\ UNCHANGED <<cell, queue, disposed, down>>

WithinMemory ==
  /\ ~MayStart /\ memoryStep > 0 /\ memoryStep' = 0
  /\ UNCHANGED <<cell, queue, process, child, variables, disposed, down>>

\* Idle for long, or the least recently used of too many.
Evict ==
  /\ process # None /\ ~busy /\ Stopped(child)
  /\ UNCHANGED <<cell, queue, memoryStep, disposed, down>>

\* Quiet for much longer: the kernel object goes, and nothing hears its processes any more.
Forget ==
  /\ ~busy /\ \E p \in Processes : child[p].state # "gone" /\ child[p].state # "none"
  /\ process' = None /\ variables' = {} /\ memoryStep' = 0
  /\ child' = [p \in Processes |-> IF child[p].state = "none" THEN child[p]
                                   ELSE [Killed(child)[p] EXCEPT !.state = "gone", !.out = <<>>]]
  /\ UNCHANGED <<cell, queue, disposed, down>>

\* The plugin is unloaded while a cell runs (when none does, this is Forget).
Dispose ==
  /\ ~MayStart /\ busy /\ ~disposed /\ disposed' = TRUE
  /\ Stopped(child) /\ UNCHANGED <<cell, queue, memoryStep, down>>

Next ==
  /\ ~down
  /\ \/ \E c \in Cells : Run(c) \/ Interrupt(c) \/ GraceEnds(c)
     \/ StartCell \/ StartFails
     \/ \E p \in Processes : \/ \E cut \in BOOLEAN : Prints(p, cut)
                             \/ SigintArrives(p) \/ Crashes(p)
                             \/ LineArrives(p) \/ ExitArrives(p) \/ AnswersTheDead(p)
     \/ OverMemory \/ WithinMemory \/ Evict \/ Forget \/ Dispose

Spec == Init /\ [][Next]_vars
\* The two timers of a cell run out, and a cell whose turn it is starts.
FairSpec ==
  /\ Spec
  /\ WF_vars(~down /\ StartCell)
  /\ \A c \in Cells : WF_vars(~down /\ Interrupt(c)) /\ WF_vars(~down /\ GraceEnds(c))

-----------------------------------------------------------------------------
(* Properties.                                                              *)

\* A cell is told what came of its own code: the output is its own, it is told of a lost process
\* only when the interpreter that had its code is dead, and of a cut only after the watchdog
\* stepped in.  The exception is a cell that started while something of an earlier one remained
\* (kernel.ts:364-385: no event is checked against the process that is meant).
OutputIsOwn ==
  [][\A c \in Cells :
       (cell[c].at # "done" /\ cell'[c].at = "done" /\ ~cell[c].strayed) =>
         CASE cell'[c].told = "output" -> cell'[c].of = c
           [] cell'[c].told = "kept" -> cell'[c].of = c
           [] cell'[c].told = "interrupted" -> cell'[c].of = c
           [] cell'[c].told = "lost" -> \E p \in Processes : c \in child[p].took /\ child'[p].state = "gone"
           [] OTHER -> cell'[c].told \in {"stopped", "failed"}]_vars

\* Between cells, the note to the model lists the variables that are in the interpreter's memory,
\* those of cells that failed or were cut short among them (kernel.ts:243-247).  The exception
\* is as above; and an interpreter that has died unnoticed is found out by the next cell.
NoteIsTrue ==
  \A p \in Processes :
    (/\ process = p /\ Waiting = {} /\ child[p].state = "alive" /\ ~\E q \in Processes : Remains(q)
     /\ \A c \in child[p].took : ~cell[c].strayed) => variables = child[p].memory

\* Every call returns, or the whole runtime goes down: however cells fail, time out or lose their
\* process, the ones behind them get their turn (kernel.ts:152-163).
EveryCellEnds == \A c \in Cells : cell[c].at # "idle" ~> (cell[c].at = "done" \/ down)

\* One cell at a time, in the order of the calls, also when an interrupted cell, a lost process or
\* a failed start comes before (kernel.ts:148-163).
Queue == INSTANCE ServiceQueue WITH
  Clients <- Cells, Slots <- {"reply"},
  served <- {<<c, "reply">> : c \in Waiting}, waiting <- queue,
  left <- {c \in Cells : cell[c].at = "done"}

ImplementsQueue == Queue!Spec
=============================================================================
