----------------------------- MODULE StudioPool ------------------------------
(***************************************************************************)
(* The pool of Python pipelines that answer analyze_data                   *)
(* (tool/data-studio-agent/src/pool.ts, kernel.ts, bridge/runner.py).      *)
(*                                                                         *)
(* A worker runs one question at a time on a process it starts when it     *)
(* has none.  Its kernel keeps one reply callback, and the events of every *)
(* process it ever started end there: a line of output or the exit of a    *)
(* process that was stopped is delivered to whoever asks by then.          *)
(***************************************************************************)
EXTENDS Naturals, Sequences, SequencesExt

CONSTANTS
  Questions,   \* calls of ask()
  Workers,     \* as many as FOX_DS_WORKERS
  Processes    \* the Python processes that may be started (bound)

ASSUME StudioPoolAssumption == "none" \notin Workers \union Processes

VARIABLES
  asked,     \* each question: where it is, its worker, and what it got
  made,      \* the pool's workers
  waiting,   \* the questions that wait for one, the longest first
  process,   \* kernel.process of each worker, or None
  child,     \* each process: its worker, its state, the questions in its stdin, its lines on the way
  stopped,   \* pool.stop() was called
  down,      \* the runtime process is gone, and the pool with it
  strayed    \* history: questions given to a worker that still had something else to tell

vars == <<asked, made, waiting, process, child, stopped, down, strayed>>

None == "none"
NotAsked == [at |-> "idle", worker |-> None, got |-> None]
NotStarted == [worker |-> None, state |-> "none", in |-> <<>>, out |-> <<>>]
Lost == "lost"      \* "The data-studio-agent process exited unexpectedly"
Refused == "refused"  \* timed out, cancelled or shut down

Init ==
  /\ asked = [q \in Questions |-> NotAsked]
  /\ made = {} /\ waiting = <<>>
  /\ process = [w \in Workers |-> None]
  /\ child = [c \in Processes |-> NotStarted]
  /\ stopped = FALSE /\ down = FALSE /\ strayed = {}

Asking(w) == {q \in Questions : asked[q].at = "asking" /\ asked[q].worker = w}

\* Mutant: a worker is taken for idle as soon as its process has printed, before the line arrives.
BusyUntilPrinted(w) == Asking(w) # {} /\ process[w] # None /\ child[process[w]].in # <<>>

Busy(w) == Asking(w) # {}

\* Events of this process are still to come: an answer to an older question, or its exit.
Tells(d) == d.out # <<>> \/ d.state \in {"killed", "crashed"} \/ (d.state = "alive" /\ d.in # <<>>)

\* Mutant: stop() forgets the process and lets it run.
KilledNever(ch, c) == ch

\* kernel.stop(): SIGKILL.
Killed(ch, c) ==
  IF c = None THEN ch
  ELSE [ch EXCEPT ![c].state = IF @ = "alive" THEN "killed" ELSE @, ![c].in = <<>>]

\* kernel.ask(): a process is started if the worker has none, and is written the question.
\* Nobody listens for the 'error' of a process that cannot be started or of the stdin of one
\* that is dead by then: it is thrown, and the runtime process ends.
Asks(as, pr, ch, q, w) ==
  \E c \in Processes :
    /\ IF pr[w] # None THEN c = pr[w] ELSE ch[c].state = "none"
    /\ asked' = [as EXCEPT ![q] = [at |-> "asking", worker |-> w, got |-> None]]
    /\ process' = [pr EXCEPT ![w] = c]
    /\ child' = [ch EXCEPT ![c].worker = w,
                           ![c].state = IF @ = "none" THEN "alive" ELSE @,
                           ![c].in = IF ch[c].state \in {"none", "alive"} THEN Append(@, q) ELSE @]
    /\ down' \in IF ch[c].state = "alive" THEN {FALSE} ELSE BOOLEAN
    /\ strayed' = IF \E d \in Processes : /\ ch[d].worker = w /\ Tells(ch[d])
                                          /\ ch[d].state = "alive" => pr[w] = d
                  THEN strayed \union {q} ELSE strayed

\* Mutant: a worker with questions waiting is set free.
ToWaiterNever == FALSE

\* A worker that is released goes straight to the longest waiter.
ToWaiter == waiting # <<>>

\* The question has got its answer: release() of its worker.
Ends(q, got, pr, ch) ==
  LET as == [asked EXCEPT ![q] = [at |-> "done", worker |-> None, got |-> got]]
      w == asked[q].worker
  IN IF ToWaiter
     THEN Asks(as, pr, ch, Head(waiting), w) /\ waiting' = Tail(waiting)
     ELSE asked' = as /\ process' = pr /\ child' = ch /\ UNCHANGED <<waiting, down, strayed>>

-----------------------------------------------------------------------------
(* The callers.                                                             *)

\* acquire(): an idle worker, a new one, or a place in the queue.
Ask(q) ==
  /\ asked[q].at = "idle" /\ ~stopped
  /\ \/ \E w \in made : ~Busy(w) /\ Asks(asked, process, child, q, w) /\ UNCHANGED <<made, waiting>>
     \/ /\ \A w \in made : Busy(w)
        /\ \E w \in Workers \ made : /\ Asks(asked, process, child, q, w)
                                     /\ made' = made \union {w} /\ UNCHANGED waiting
     \/ /\ \A w \in Workers : w \in made /\ Busy(w)
        /\ asked' = [asked EXCEPT ![q].at = "waiting"]
        /\ waiting' = Append(waiting, q)
        /\ UNCHANGED <<made, process, child, down, strayed>>
  /\ UNCHANGED stopped

\* Its time in the queue is over, or the chat's user stops it there.
LeavesQueue(q) ==
  /\ asked[q].at = "waiting"
  /\ \E i \in DOMAIN waiting : waiting[i] = q /\ waiting' = RemoveAt(waiting, i)
  /\ asked' = [asked EXCEPT ![q] = [at |-> "done", worker |-> None, got |-> Refused]]
  /\ UNCHANGED <<made, process, child, stopped, down, strayed>>

\* The time of the question is over, or it is cancelled: stop(), and the next question starts
\* another process.
TimesOut(q) ==
  LET w == asked[q].worker IN
  /\ asked[q].at = "asking"
  /\ Ends(q, Refused, [process EXCEPT ![w] = None], Killed(child, process[w]))
  /\ UNCHANGED <<made, stopped>>

-----------------------------------------------------------------------------
(* The processes and their events.                                          *)

\* runner.py prints the one line that answers its question.
Prints(c) ==
  /\ child[c].state = "alive" /\ child[c].in # <<>>
  /\ child' = [child EXCEPT ![c].out = Append(@, Head(child[c].in)), ![c].in = Tail(@)]
  /\ UNCHANGED <<asked, made, waiting, process, stopped, down, strayed>>

Crashes(c) ==
  /\ child[c].state = "alive"
  /\ child' = [child EXCEPT ![c].state = "crashed", ![c].in = <<>>]
  /\ UNCHANGED <<asked, made, waiting, process, stopped, down, strayed>>

\* on('line'): this.reply?.(reply), whoever waits for one.
LineArrives(c) ==
  LET w == child[c].worker
      ch == [child EXCEPT ![c].out = Tail(@)]
  IN
  /\ child[c].out # <<>>
  /\ IF Busy(w)
     THEN \E q \in Asking(w) : Ends(q, Head(child[c].out), process, ch)
     ELSE child' = ch /\ UNCHANGED <<asked, waiting, process, down, strayed>>
  /\ UNCHANGED <<made, stopped>>

\* on('exit'): of any process this kernel started; lines it printed may still follow.
ExitArrives(c) ==
  LET w == child[c].worker
      ch == [child EXCEPT ![c].state = "gone"]
      pr == IF process[w] = c THEN [process EXCEPT ![w] = None] ELSE process
  IN
  /\ child[c].state \in {"killed", "crashed"}
  /\ IF Busy(w)
     THEN \E q \in Asking(w) : Ends(q, Lost, pr, ch)
     ELSE child' = ch /\ process' = pr /\ UNCHANGED <<asked, waiting, down, strayed>>
  /\ UNCHANGED <<made, stopped>>

-----------------------------------------------------------------------------
(* The pool itself.                                                         *)

\* The sweep stops the process of a worker that has been idle for long.
Sweep(w) ==
  /\ w \in made /\ ~Busy(w) /\ process[w] # None
  /\ child' = Killed(child, process[w])
  /\ process' = [process EXCEPT ![w] = None]
  /\ UNCHANGED <<asked, made, waiting, stopped, down, strayed>>

\* stop(): the questions that wait are refused, those that run lose their process.
Stop ==
  /\ ~stopped
  /\ stopped' = TRUE
  /\ asked' = [q \in Questions |-> IF asked[q].at = "waiting" THEN [at |-> "done", worker |-> None, got |-> Refused]
                                   ELSE asked[q]]
  /\ waiting' = <<>> /\ made' = {}
  /\ process' = [w \in Workers |-> None]
  /\ child' = [c \in Processes |-> IF \E w \in Workers : process[w] = c THEN Killed(child, c)[c] ELSE child[c]]
  /\ UNCHANGED <<down, strayed>>

Next ==
  /\ ~down
  /\ \/ \E q \in Questions : Ask(q) \/ LeavesQueue(q) \/ TimesOut(q)
     \/ \E c \in Processes : Prints(c) \/ Crashes(c) \/ LineArrives(c) \/ ExitArrives(c)
     \/ \E w \in Workers : Sweep(w)
     \/ Stop

Spec == Init /\ [][Next]_vars
\* A running question has a timer.  The one in the queue is not needed for it to end.
FairSpec == Spec /\ \A q \in Questions : WF_vars(~down /\ TimesOut(q))

-----------------------------------------------------------------------------
(* Properties.                                                              *)

\* A question gets the answer to itself, and is told that its process died only when it did.
\* The exception is one given to a worker that still had something else to tell: an event of a
\* process it stopped earlier was on its way (kernel.ts:181-184), or such an event ended the
\* question before and its process is still working on it.  Such a question may take those for
\* its own.
AnswerIsOwn ==
  [][\A q \in Questions \ strayed :
       (asked[q].at = "asking" /\ asked'[q].at = "done") =>
         \/ asked'[q].got \in {q, Refused}
         \/ asked'[q].got = Lost /\ \E c \in Processes : /\ child[c].worker = asked[q].worker
                                                         /\ child[c].state \in {"killed", "crashed"}
                                                         /\ process[asked[q].worker] \in {c, None}]_vars

\* Every question is answered or refused, or the whole runtime goes down: a worker that is
\* released is handed to the longest waiter (pool.ts:104-108), so a question ends even if nothing
\* but the time limit of the ones before it does.
EveryQuestionEnds == \A q \in Questions : asked[q].at # "idle" ~> (asked[q].at = "done" \/ down)

\* The workers serve the questions in their order, one question each: nobody is served before one
\* that waits longer, whichever way the questions before end (pool.ts:69-108).
Queue == INSTANCE ServiceQueue WITH
  Clients <- Questions, Slots <- Workers,
  served <- {x \in Questions \X Workers : asked[x[1]].at = "asking" /\ asked[x[1]].worker = x[2]},
  left <- {q \in Questions : asked[q].at = "done"}

ImplementsQueue == Queue!Spec
=============================================================================
