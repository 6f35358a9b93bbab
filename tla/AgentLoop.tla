------------------------------ MODULE AgentLoop ------------------------------
(***************************************************************************)
(* One agent of a runtime: FoxHarnessAgent                                 *)
(* (api/packages/agent-core/src/loop/agent.ts).                            *)
(*                                                                         *)
(* An agent owns an inbox of two queues, a session log it appends to, and  *)
(* at most one driver, a promise chain that opens turns while the inbox    *)
(* has work.  JavaScript runs the code between two awaits without a break, *)
(* so a step of this module is the code from one await to the next; what   *)
(* arrives on a socket can only run at an await, that is, between steps.   *)
(* pc names the await the driver is suspended at.                          *)
(***************************************************************************)
EXTENDS Naturals, Sequences, FiniteSetsExt

CONSTANTS
  MaxMsgs,      \* how many messages the environment sends (bound)
  MaxSteps,     \* steps of a turn in which the model may still ask for tools (bound)
  MaxCalls,     \* tool calls in one assistant message (bound)
  MaxCrashes    \* how often the process is killed (bound)

ASSUME BoundsAssumption ==
  /\ MaxMsgs \in Nat
  /\ MaxSteps \in Nat
  /\ MaxCalls \in Nat
  /\ MaxCrashes \in Nat

VARIABLES
  nextTurn,     \* inbox queue: each message opens a turn
  nextStep,     \* inbox queue: joins the running turn at its next step
  events,       \* the session log, in memory; viewers see every append
  disk,         \* what a restart would load: the log and the inbox
  pc,           \* the await the driver is at, "idle" when there is no driver
  turn,         \* the locals of turn() and runStep()
  flushes,      \* flushes started when a driver ended and not settled yet
  disposal,     \* how far disposeGracefully() is
  flushFailed,  \* whether a flush was reported as failed (agent/error)
  sent,         \* how many messages were sent
  crashes       \* how many times the process was killed

inbox == <<nextTurn, nextStep>>
vars == <<nextTurn, nextStep, events, disk, pc, turn, flushes, disposal,
          flushFailed, sent, crashes>>

-----------------------------------------------------------------------------
(* Data.                                                                    *)

Via == {"followup", "steer", "inject"}
Msg == [id : 1 .. MaxMsgs, via : Via]

EventType == {"turn/start", "turn/end", "step/start", "step/end",
              "user/message", "assistant/message", "assistant/interrupted",
              "tool/call", "tool/result"}
Reason == {"completed", "blocked", "aborted", "error"}

NoMsg == [id |-> 0, via |-> "none"]
Event == [type : EventType, turn : Nat, step : Nat,
          msg : Msg \cup {NoMsg}, reason : Reason \cup {"none"}]

PC == {"idle", "assemble", "prestep", "request", "tools", "stopping"}
Disposal == {"none", "waiting", "teardown", "done"}

\* abort: the cause given to the turn's AbortController, "none" before that.
Turn == [seq : Nat, step : Nat, claimed : Seq(Msg), closed : BOOLEAN,
         concludes : BOOLEAN, calls : Nat, reason : Reason,
         abort : {"none", "user", "disposed"}]

Saved == [events : Seq(Event), nextTurn : Seq(Msg), nextStep : Seq(Msg)]

FreshTurn(n) ==
  [seq |-> n, step |-> 0, claimed |-> <<>>, closed |-> FALSE,
   concludes |-> FALSE, calls |-> 0, reason |-> "completed", abort |-> "none"]

Driving == pc # "idle"
Aborted(t) == t.abort # "none"

Ev(type, t) == [type |-> type, turn |-> t.seq, step |-> t.step,
                msg |-> NoMsg, reason |-> "none"]
UserMessage(t, m) == [Ev("user/message", t) EXCEPT !.msg = m]
TurnEnd(t, reason) == [Ev("turn/end", t) EXCEPT !.reason = reason]

\* Mutant: a rehydrated agent counts from one again.
LastTurnForgotten(log) == 0

\* The turn number a rehydrated agent continues from.
LastTurn(log) ==
  LET starts == {i \in DOMAIN log : log[i].type = "turn/start"}
  IN  IF starts = {} THEN 0 ELSE log[Max(starts)].turn

TypeOK ==
  /\ nextTurn \in Seq(Msg)
  /\ nextStep \in Seq(Msg)
  /\ events \in Seq(Event)
  /\ disk \in Saved
  /\ pc \in PC
  /\ turn \in Turn
  /\ flushes \subseteq Saved
  /\ disposal \in Disposal
  /\ flushFailed \in BOOLEAN
  /\ sent \in 0 .. MaxMsgs
  /\ crashes \in 0 .. MaxCrashes

Init ==
  /\ nextTurn = <<>>
  /\ nextStep = <<>>
  /\ events = <<>>
  /\ disk = [events |-> <<>>, nextTurn |-> <<>>, nextStep |-> <<>>]
  /\ pc = "idle"
  /\ turn = FreshTurn(0)
  /\ flushes = {}
  /\ disposal = "none"
  /\ flushFailed = FALSE
  /\ sent = 0
  /\ crashes = 0

-----------------------------------------------------------------------------
(* The pieces of turn() that run without an await.  Each says what the      *)
(* driver leaves behind, from the queues nt and ns, the log and the locals  *)
(* t it starts from.                                                        *)

\* Head of the step loop: claim the input and start assembling the prompt.
\* A turn claims one queued message and every next-step message at step 1,
\* and only next-step messages later.
TakesQueued(t, nt) == t.step = 0 /\ nt # <<>>
\* Mutants: the first step leaves the next-step messages out; a claim only
\* peeks at the queue.
ClaimedHeadOnly(t, nt, ns) == IF TakesQueued(t, nt) THEN <<Head(nt)>> ELSE ns
LeftQueuedPeek(t, nt) == nt

Claimed(t, nt, ns) == IF TakesQueued(t, nt) THEN <<Head(nt)>> \o ns ELSE ns
LeftQueued(t, nt) == IF TakesQueued(t, nt) THEN Tail(nt) ELSE nt

BeginStep(nt, ns, log, t) ==
  /\ nextTurn' = LeftQueued(t, nt)
  /\ nextStep' = <<>>
  /\ events' = log
  /\ turn' = [t EXCEPT !.step = @ + 1, !.claimed = Claimed(t, nt, ns)]
  /\ pc' = "assemble"
  /\ UNCHANGED flushes

\* A new turn: the next number, a new AbortController.
OpenTurn(nt, ns, log, seq) ==
  LET t == FreshTurn(seq + 1)
  IN  BeginStep(nt, ns, Append(log, Ev("turn/start", t)), t)

\* Mutant: only the queue that opens turns is looked at.
HasPendingNextTurn(nt, ns) == nt # <<>>

\* inbox.hasPending
HasPending(nt, ns) == nt # <<>> \/ ns # <<>>

\* Mutant: the checkpoint policy is trusted to have written the log.
FlushAtEndSkipped(log, nt, ns) == {}

\* What the finally block of a driver flushes.
FlushAtEnd(log, nt, ns) == {[events |-> log, nextTurn |-> nt, nextStep |-> ns]}

\* turn/end, then another turn while the inbox has work; otherwise the driver
\* ends and its finally block starts a flush of the log.
EndTurn(nt, ns, log, t, reason) ==
  LET log2 == Append(log, TurnEnd(t, reason))
  IN  IF HasPending(nt, ns)
      THEN OpenTurn(nt, ns, log2, t.seq)
      ELSE /\ nextTurn' = nt
           /\ nextStep' = ns
           /\ events' = log2
           /\ turn' = FreshTurn(t.seq)
           /\ pc' = "idle"
           /\ flushes' = flushes \cup FlushAtEnd(log2, nt, ns)

\* A throw inside the turn: aborted when its controller fired, else an error.
FailTurn(nt, ns, log, t) ==
  EndTurn(nt, ns, log, t, IF Aborted(t) THEN "aborted" ELSE "error")

\* Mutant: the loop's head does not look at the abort signal.
NextRoundDeaf(nt, ns, log, t) ==
  IF ~t.closed \/ ns # <<>>
  THEN BeginStep(nt, ns, log, t)
  ELSE /\ nextTurn' = nt
       /\ nextStep' = ns
       /\ events' = log
       /\ turn' = t
       /\ pc' = "stopping"
       /\ UNCHANGED flushes

\* The step loop's head after a step or a reopening.
NextRound(nt, ns, log, t) ==
  IF ~t.closed \/ ns # <<>>
  THEN IF Aborted(t)
       THEN EndTurn(nt, ns, log, t, "aborted")
       ELSE BeginStep(nt, ns, log, t)
  ELSE /\ nextTurn' = nt
       /\ nextStep' = ns
       /\ events' = log
       /\ turn' = t
       /\ pc' = "stopping"
       /\ UNCHANGED flushes

EndStep(ns, log, t, closed) ==
  NextRound(nextTurn, ns, Append(log, Ev("step/end", t)),
            [t EXCEPT !.closed = closed])

\* n calls of the assistant message are left.  The first bad of them carry
\* malformed JSON, each answered at once by an error result; the next is
\* logged and executed.  With none left the step ends.
RunCalls(ns, log, t, n, bad) ==
  LET failed == [i \in 1 .. 2 * bad |->
                   Ev(IF i % 2 = 1 THEN "tool/call" ELSE "tool/result", t)]
  IN  IF bad < n
      THEN /\ events' = log \o failed \o <<Ev("tool/call", t)>>
           /\ turn' = [t EXCEPT !.calls = n - bad]
           /\ nextStep' = ns
           /\ pc' = "tools"
           /\ UNCHANGED <<nextTurn, flushes>>
      ELSE EndStep(ns, log \o failed, [t EXCEPT !.calls = 0], t.concludes)

-----------------------------------------------------------------------------
(* What reaches the agent between two awaits of the driver.                 *)

\* The agent is registered (ctx.agents.get finds it) until its teardown ends.
Registered == disposal # "done"

Enqueue(queue, m) == Append(queue, m)

\* send(): append to the queue the message is for; followup and steer also
\* wake the driver, which runs up to its first await.
Send(via) ==
  /\ Registered
  /\ sent < MaxMsgs
  /\ sent' = sent + 1
  /\ LET m  == [id |-> sent + 1, via |-> via]
         nt == IF via = "followup" THEN Enqueue(nextTurn, m) ELSE nextTurn
         ns == IF via = "followup" THEN nextStep ELSE Enqueue(nextStep, m)
     IN  IF via # "inject" /\ ~Driving
         THEN OpenTurn(nt, ns, events, turn.seq)
         ELSE /\ nextTurn' = nt
              /\ nextStep' = ns
              /\ UNCHANGED <<events, pc, turn, flushes>>
  /\ UNCHANGED <<disk, disposal, flushFailed, crashes>>

\* A controller keeps the first cause it was aborted with.
Abort(cause) ==
  IF Driving /\ ~Aborted(turn)
  THEN turn' = [turn EXCEPT !.abort = cause]
  ELSE UNCHANGED turn

\* The Stop button: abort the running turn and clear the inbox.
Cancel ==
  /\ Registered
  /\ Driving \/ inbox # <<<<>>, <<>>>>
  /\ Abort("user")
  /\ nextTurn' = <<>>
  /\ nextStep' = <<>>
  /\ UNCHANGED <<events, disk, pc, flushes, disposal, flushFailed, sent, crashes>>

\* whenIdle(): returns at once without a driver.
WhenIdle == IF Driving THEN "waiting" ELSE "teardown"

\* disposeGracefully(): cancel keeping the inbox, then whenIdle(), then the
\* teardown of the scope.
Dispose ==
  /\ disposal = "none"
  /\ Abort("disposed")
  /\ disposal' = WhenIdle
  /\ UNCHANGED <<nextTurn, nextStep, events, disk, pc, flushes, flushFailed, sent, crashes>>

\* scope.dispose() has resolved: the agent and its session are detached.
TornDown ==
  /\ disposal = "teardown"
  /\ disposal' = "done"
  /\ UNCHANGED <<nextTurn, nextStep, events, disk, pc, turn, flushes, flushFailed, sent, crashes>>

-----------------------------------------------------------------------------
(* The driver, from one await to the next.                                  *)

DriverUnchanged == UNCHANGED <<disk, disposal, flushFailed, sent, crashes>>

\* The prompt is assembled; the abort signal is read again before pre-step.
Assembled ==
  /\ pc = "assemble"
  /\ IF Aborted(turn)
     THEN EndTurn(nextTurn, nextStep, events, turn, "aborted")
     ELSE /\ pc' = "prestep"
          /\ UNCHANGED <<nextTurn, nextStep, events, turn, flushes>>
  /\ DriverUnchanged

\* agent/pre-step let the step in: the claimed messages enter the log.
Enter ==
  /\ pc = "prestep"
  /\ events' = Append(events, Ev("step/start", turn)) \o
               [i \in 1 .. Len(turn.claimed) |->
                  UserMessage(turn, turn.claimed[i])]
  /\ turn' = [turn EXCEPT !.claimed = <<>>]
  /\ pc' = "request"
  /\ UNCHANGED <<nextTurn, nextStep, flushes>>
  /\ DriverUnchanged

\* agent/pre-step refused (the token budget is used up): the claimed messages
\* are dropped and the turn closes as blocked, even if steering reopens it.
Reject ==
  /\ pc = "prestep"
  /\ turn' = [turn EXCEPT !.claimed = <<>>, !.closed = TRUE, !.reason = "blocked"]
  /\ pc' = "stopping"
  /\ UNCHANGED <<nextTurn, nextStep, events, flushes>>
  /\ DriverUnchanged

\* The prompt assembly or the pre-step hook threw, before step/start.
PrepareThrows ==
  /\ pc \in {"assemble", "prestep"}
  /\ FailTurn(nextTurn, nextStep, events, turn)
  /\ DriverUnchanged

\* The model answered, with n tool calls of which the first bad are malformed.
\* The stream reads the abort signal at every chunk and after the last one.
ModelAnswers(n, bad) ==
  /\ pc = "request"
  /\ ~Aborted(turn)
  /\ turn.step > MaxSteps => n = 0
  /\ LET log == Append(events, Ev("assistant/message", turn))
     IN  IF n = 0
         THEN EndStep(nextStep, log, turn, TRUE)
         ELSE RunCalls(nextStep, log, [turn EXCEPT !.concludes = FALSE], n, bad)
  /\ DriverUnchanged

\* The request threw, or failed and no listener asked for a retry.  A cancel
\* keeps the text streamed so far as an interrupted message.
ModelThrows(text) ==
  /\ pc = "request"
  /\ text => Aborted(turn)
  /\ LET log == IF text THEN Append(events, Ev("assistant/interrupted", turn))
                ELSE events
     IN  FailTurn(nextTurn, nextStep, Append(log, Ev("step/end", turn)), turn)
  /\ DriverUnchanged

\* A tool returned.  No abort check: the remaining calls run, with an aborted
\* signal.  A result may conclude the turn, and may carry a context message.
ToolReturns(concludes, context, bad) ==
  /\ pc = "tools"
  /\ context => sent < MaxMsgs
  /\ sent' = IF context THEN sent + 1 ELSE sent
  /\ LET t  == [turn EXCEPT !.concludes = @ \/ concludes]
         m  == [id |-> sent + 1, via |-> "inject"]
         ns == IF context THEN Append(nextStep, m) ELSE nextStep
     IN  /\ bad < t.calls
         /\ RunCalls(ns, Append(events, Ev("tool/result", t)), t,
                     t.calls - 1, bad)
  /\ UNCHANGED <<disk, disposal, flushFailed, crashes>>

\* Mutant: step/end is not in a finally block.
ToolThrowsUnclosed ==
  /\ pc = "tools"
  /\ FailTurn(nextTurn, nextStep, events, turn)
  /\ DriverUnchanged

\* tools.execute threw (its signal was aborted, or the tool layer failed).
ToolThrows ==
  /\ pc = "tools"
  /\ FailTurn(nextTurn, nextStep, Append(events, Ev("step/end", turn)), turn)
  /\ DriverUnchanged

\* Mutant: the inbox is not read again after the hooks.
StoppedForGood ==
  /\ pc = "stopping"
  /\ EndTurn(nextTurn, nextStep, events, turn, turn.reason)
  /\ DriverUnchanged

\* The agent/turn-stopping listeners have run; what they steered reopens the
\* turn.
Stopped ==
  /\ pc = "stopping"
  /\ IF nextStep = <<>>
     THEN EndTurn(nextTurn, nextStep, events, turn, turn.reason)
     ELSE NextRound(nextTurn, nextStep, events, [turn EXCEPT !.closed = FALSE])
  /\ DriverUnchanged

\* A listener threw.
StoppingThrows ==
  /\ pc = "stopping"
  /\ FailTurn(nextTurn, nextStep, events, turn)
  /\ DriverUnchanged

-----------------------------------------------------------------------------
(* Durability, disposal and restarts.                                       *)

\* Mutant: a failed flush throws past the waiters.
ResolveWaitersIfFlushed(ok) ==
  IF disposal = "waiting" /\ ok THEN "teardown" ELSE disposal

\* Resolving the idle waiters lets a waiting disposal go on.
ResolveWaiters(ok) == IF disposal = "waiting" THEN "teardown" ELSE disposal

\* A flush settles.  It makes the log it was given durable, or failed, which
\* is only reported; every waiter of whenIdle() is resolved either way, and
\* a waiting disposal goes on to tear the scope down.
FlushSettles(f, ok) ==
  /\ f \in flushes
  /\ flushes' = flushes \ {f}
  /\ disk' = IF ok /\ Len(f.events) >= Len(disk.events) THEN f ELSE disk
  /\ disposal' = ResolveWaiters(ok)
  /\ flushFailed' = (flushFailed \/ ~ok)
  /\ UNCHANGED <<nextTurn, nextStep, events, pc, turn, sent, crashes>>

\* The checkpoint policy writes the log at a request boundary (external).
Checkpoint ==
  /\ pc = "request"
  /\ disk' = [events |-> events, nextTurn |-> nextTurn, nextStep |-> nextStep]
  /\ UNCHANGED <<nextTurn, nextStep, events, pc, turn, flushes, disposal, flushFailed, sent, crashes>>

\* The process is killed and the session is resumed from disk by the next one.
\* The inbox is rebuilt from its splices in the log, nobody wakes the driver.
CrashAndResume ==
  /\ crashes < MaxCrashes
  /\ crashes' = crashes + 1
  /\ events' = disk.events
  /\ nextTurn' = disk.nextTurn
  /\ nextStep' = disk.nextStep
  /\ pc' = "idle"
  /\ turn' = FreshTurn(LastTurn(disk.events))
  /\ flushes' = {}
  /\ disposal' = "none"
  /\ UNCHANGED <<disk, flushFailed, sent>>

-----------------------------------------------------------------------------

Driver ==
  \/ Assembled
  \/ Enter
  \/ Reject
  \/ PrepareThrows
  \/ \E n \in 0 .. MaxCalls : \E bad \in 0 .. n : ModelAnswers(n, bad)
  \/ \E text \in BOOLEAN : ModelThrows(text)
  \/ \E concludes, context \in BOOLEAN, bad \in 0 .. MaxCalls :
       ToolReturns(concludes, context, bad)
  \/ ToolThrows
  \/ Stopped
  \/ StoppingThrows

Settle == \E f \in flushes, ok \in BOOLEAN : FlushSettles(f, ok)

Next ==
  \/ Driver
  \/ \E via \in Via : Send(via)
  \/ Cancel
  \/ Dispose
  \/ TornDown
  \/ Settle
  \/ Checkpoint
  \/ CrashAndResume

Spec == Init /\ [][Next]_vars

\* Every await of the driver, a flush and a teardown settle in the end: model
\* and tool calls carry deadlines, disk writes return.
Fairness ==
  /\ WF_vars(Driver)
  /\ WF_vars(Settle)
  /\ WF_vars(TornDown)

FairSpec == Spec /\ Fairness

-----------------------------------------------------------------------------
(* Properties.                                                              *)

Ids(queue) == {queue[i].id : i \in DOMAIN queue}
Entries == {i \in DOMAIN events : events[i].type = "user/message"}
Logged == {events[i].msg.id : i \in Entries}
Kept == Ids(nextTurn) \cup Ids(nextStep) \cup Ids(turn.claimed) \cup Logged

NewEvents == {events'[i] : i \in DOMAIN events' \ DOMAIN events}
TurnEnds(reasons) == \E e \in NewEvents : e.type = "turn/end" /\ e.reason \in reasons

OncePlaced ==
  LET places == nextTurn \o nextStep \o turn.claimed \o
                [i \in 1 .. Len(events) |->
                   IF i \in Entries THEN events[i].msg ELSE NoMsg]
  IN  \A i, j \in DOMAIN places :
         places[i].id = places[j].id /\ places[i].id # 0 => i = j

\* A message is in one place only: it waits in one queue, or is claimed by the
\* step being prepared, or is in the log, and there once.  A message claimed
\* and left in its queue would be answered twice.  Messages of one queue enter
\* the log in the order they were sent, across turns, cancels, errors and
\* restarts.
MessageOnce ==
  /\ OncePlaced
  /\ \A i, j \in Entries :
       i < j /\ (events[i].msg.via = "followup" <=> events[j].msg.via = "followup")
         => events[i].msg.id < events[j].msg.id

\* A message is never dropped in silence: a queued one goes only when the user
\* stops the agent, a claimed one only when its turn is reported as blocked,
\* aborted or failed, and a logged one never, except by a kill of the process.
NothingSilentlyLost ==
  [][\A id \in Kept : id \notin Kept' =>
       \/ crashes' # crashes
       \/ id \in Ids(nextTurn) \cup Ids(nextStep) /\ Cancel
       \/ id \in Ids(turn.claimed) /\ (Reject \/ TurnEnds({"aborted", "error"}))]_vars

\* Turn numbers in the log only grow, by one, also over a resume: the turn of
\* an event tells which question it belongs to (usage records and the edit
\* guard rely on that).
TurnsNumberedOnce ==
  \A i, j \in DOMAIN events :
     /\ i < j => events[i].turn <= events[j].turn
     /\ i < j /\ events[j].type = "turn/start" => events[i].turn < events[j].turn

\* A step is closed whatever ends it, and nothing is logged between the steps
\* of a turn but the turn's own start and end: the durable contract the UI and
\* the persistence read.  Only a kill of the process leaves a step open, and
\* then a new turn follows.
StepsBracketed ==
  \A i \in DOMAIN events \ {1} :
     LET before == events[i - 1].type
         type   == events[i].type
     IN  CASE type = "turn/start" -> before = "turn/end" \/ crashes > 0
           [] type \in {"turn/end", "step/start"} -> before \in {"turn/start", "step/end"}
           [] OTHER -> before \notin {"turn/start", "turn/end", "step/end"}

\* After a cancel the turn asks the model for nothing more and takes no more
\* input: no assistant message, no further step, so what the user sends after
\* pressing Stop belongs to the next turn.
CancelledTurnIsQuiet ==
  [][Driving /\ Aborted(turn) /\ turn'.seq = turn.seq =>
       /\ turn'.step \in {turn.step, 0}
       /\ \A e \in NewEvents : e.type # "assistant/message"]_vars

\* A turn reported as completed has logged everything it claimed and leaves no
\* steering behind, even what arrived while the turn-stopping hooks ran.
CompletedTurnTookItsInput ==
  [][TurnEnds({"completed"}) => turn.claimed = <<>> /\ nextStep = <<>>]_vars

\* Whoever waits for the agent to be idle is woken: a driver still runs, whose
\* end flushes, or a flush is under way, whose end resolves every waiter.
NoLostWaiter == disposal = "waiting" => Driving \/ flushes # {}

Elements(queue) == {queue[i] : i \in DOMAIN queue}
Queued == Elements(nextTurn) \cup Elements(nextStep)
OnDisk == Elements(disk.nextTurn) \cup Elements(disk.nextStep)

\* Once the agent has settled and no flush failed, a kill of the process loses
\* nothing of the log, and of the inbox only messages that were injected:
\* inject() wakes no driver, and nothing flushes the log before the next one
\* ends.
SettledIsDurable ==
  ~Driving /\ flushes = {} /\ ~flushFailed =>
    /\ disk.events = events
    /\ \A m \in Queued : m.via = "inject" \/ m \in OnDisk

\* While a driver runs, the inbox comes to be empty, unless the process is
\* killed: send() has found a driver and wakes no other, so this one must not
\* go, however its turn ends, before it has come to the last message.
WaitingIsTaken ==
  \A n \in 0 .. MaxCrashes :
    Driving /\ Queued # {} /\ crashes = n ~> Queued = {} \/ crashes # n

\* A disposal that waits comes to its end, even if every flush fails and
\* messages keep opening turns meanwhile.
DisposalCompletes == disposal = "waiting" ~> disposal # "waiting"
=============================================================================
