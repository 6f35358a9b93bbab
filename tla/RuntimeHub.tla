----------------------------- MODULE RuntimeHub ------------------------------
(***************************************************************************)
(* The transport of a runtime, for one session: the Hub, the WebSocket     *)
(* connections and the gateway's purge                                     *)
(* (api/packages/agent-core/src/transport/server.ts, loop/factory.ts).     *)
(*                                                                         *)
(* Everything the Hub keeps is keyed by the session's id, so one session   *)
(* is enough.  Of its agent only this is known: it is idle or runs, what is *)
(* sent to it wakes it, and its driver ends with a flush (AgentLoop).  The *)
(* code between two awaits runs without a break: a connection whose await  *)
(* of ensure() has resolved ("ready") goes on before anything else, see    *)
(* Quiet.  The session is on disk from the start; its first opening is     *)
(* like a resume, because no second connect can know a new session's id.   *)
(***************************************************************************)
EXTENDS Naturals, Sequences

CONSTANTS
  Conns,        \* the connections that will be made
  Roles,        \* roles the owner may have while they are made
  MaxFrames,    \* frames a client sends on one connection (bound)
  MaxLives      \* agents opened for the session (bound)

ASSUME HubBounds == MaxFrames \in Nat /\ MaxLives \in Nat

VARIABLES
  conns,        \* the connections, and the locals of their handleConnection()
  opening,      \* the open() in flight: "no", "reading" the log, "mounting" the flow
  role,         \* agent.options.role, of the agent or of the open in flight
  log,          \* the session's events in memory
  disk,         \* the log on disk: a set of one log, or empty
  handle,       \* Hub.handles has the session
  running,      \* the registered agent has a driver
  flushes,      \* logs its ended drivers are flushing
  life,         \* how far its disposal is, "done" without an agent
  lives,        \* agents opened so far
  old,          \* what agents that were torn down still do, see TornDown
  purge         \* DELETE of the session: "none", "dropping", "dropped", "deleted"

agentVars == <<running, flushes, life, lives, old>>
vars == <<conns, opening, role, log, disk, handle, running, flushes, life,
          lives, old, purge>>

\* A user's message, or (number 0) what the agent answered.
Entry == [conn : Conns, n : 1 .. MaxFrames] \cup {[n |-> 0]}
Answer == [n |-> 0]

ConnState == {"out", "waiting", "ready", "live", "closing", "closed"}
Conn == [state : ConnState, role : Roles, queued : Seq(Entry), view : Seq(Entry),
         sent : 0 .. MaxFrames, errors : Nat, attachedTo : Nat]

\* A driver that still runs on the log of an agent that is gone, or its flush.
Old == [log : Seq(Entry), state : {"running", "flushing"}]

TypeOK ==
  /\ conns \in [Conns -> Conn]
  /\ opening \in {"no", "reading", "mounting"}
  /\ role \in Roles
  /\ log \in Seq(Entry)
  /\ disk \subseteq Seq(Entry)
  /\ handle \in BOOLEAN
  /\ running \in BOOLEAN
  /\ flushes \subseteq Seq(Entry)
  /\ life \in {"none", "waiting", "teardown", "done"}
  /\ lives \in 0 .. MaxLives
  /\ old \subseteq Old
  /\ purge \in {"none", "dropping", "dropped", "deleted"}

Init ==
  /\ \E r \in Roles :
       /\ role = r
       /\ conns = [c \in Conns |->
                     [state |-> "out", role |-> r, queued |-> <<>>, view |-> <<>>,
                      sent |-> 0, errors |-> 0, attachedTo |-> 0]]
  /\ opening = "no"
  /\ log = <<>>
  /\ disk = {<<>>}
  /\ handle = FALSE
  /\ running = FALSE
  /\ flushes = {}
  /\ life = "done"
  /\ lives = 0
  /\ old = {}
  /\ purge = "none"

-----------------------------------------------------------------------------
(* Helpers.                                                                 *)

\* ctx.agents.get finds the agent, ctx.sessions.get its session.
Registered == life # "done"

\* No continuation is due: the event loop takes the next event.
Quiet == \A c \in Conns : conns[c].state # "ready"

Subscribers == {c \in Conns : conns[c].state = "live"}

\* A connection that is over; what it held is forgotten.
Over(c) == [conns[c] EXCEPT !.state = "closed", !.queued = <<>>, !.view = <<>>,
                            !.sent = 0, !.errors = 0, !.attachedTo = 0]

\* Mutant: a failed open tells nobody.
ResolveFound(found) ==
  [c \in Conns |-> IF conns[c].state = "waiting" /\ found
                   THEN [conns[c] EXCEPT !.state = "ready"] ELSE conns[c]]

\* Who waited for an open goes on with the session, or is refused.
Resolve(found) ==
  [c \in Conns |-> CASE conns[c].state # "waiting" -> conns[c]
                     [] conns[c].state = "waiting" /\ found -> [conns[c] EXCEPT !.state = "ready"]
                     [] OTHER -> Over(c)]

\* Hub.fanOut: every subscriber gets every event.
FanOut(cs, entries) ==
  [c \in Conns |-> IF cs[c].state = "live" THEN [cs[c] EXCEPT !.view = @ \o entries]
                   ELSE cs[c]]

\* onMessage for some frames of c: the agent logs them and wakes up, or the
\* client is told that there is none.
OnMessage(cs, c, frames) ==
  /\ IF Registered
     THEN /\ log' = log \o frames
          /\ conns' = FanOut(cs, frames)
          /\ running' = (running \/ frames # <<>>)
     ELSE /\ conns' = [cs EXCEPT ![c].errors = @ + Len(frames)]
          /\ UNCHANGED <<log, running>>
  /\ UNCHANGED <<flushes, life, lives, old>>

\* agent.disposeGracefully() behind handle.dispose().
Dispose == IF running THEN "waiting" ELSE "teardown"

-----------------------------------------------------------------------------
(* Connections.                                                             *)

\* handleConnection up to its await of hub.ensure(): a live session is joined
\* (its role must match), an open in flight is shared, else one is started.
Connect(c, r) ==
  /\ Quiet
  /\ conns[c].state = "out"
  /\ purge # "deleted"
  /\ IF Registered
     THEN /\ conns' = [conns EXCEPT ![c].role = r,
                                    ![c].state = IF r = role THEN "ready" ELSE "closed"]
          /\ UNCHANGED <<opening, role>>
     ELSE /\ conns' = [conns EXCEPT ![c].role = r, ![c].state = "waiting"]
          /\ opening' = IF opening = "no" THEN "reading" ELSE opening
          /\ role' = IF opening = "no" THEN r ELSE role
  /\ UNCHANGED <<log, disk, handle, agentVars, purge>>

\* Mutant: the connection subscribes after it has handed its frames over.
AttachLate(c) ==
  /\ conns[c].state = "ready"
  /\ Registered
  /\ log' = log \o conns[c].queued
  /\ conns' = [FanOut(conns, conns[c].queued) EXCEPT
                 ![c].state = "live", ![c].view = log,
                 ![c].queued = <<>>, ![c].attachedTo = lives]
  /\ running' = (running \/ conns[c].queued # <<>>)
  /\ UNCHANGED <<flushes, life, lives, old, opening, role, disk, handle, purge>>

\* ensure() answered with the session: snapshot, subscribe, and the frames
\* queued so far, all without an await.
Attach(c) ==
  /\ conns[c].state = "ready"
  /\ LET joined == [conns EXCEPT ![c].state = "live", ![c].view = log,
                                 ![c].queued = <<>>, ![c].attachedTo = lives]
     IN  OnMessage(joined, c, conns[c].queued)
  /\ UNCHANGED <<opening, role, disk, handle, purge>>

\* Mutant: the message handler is attached after the await of ensure().
QueueDropped(queued, frame) == queued
Queue(queued, frame) == Append(queued, frame)

\* A frame arrives: it waits for the session, or goes to the agent, also on a
\* connection that drop() is closing.
Frame(c) ==
  /\ Quiet
  /\ conns[c].state \in {"waiting", "live", "closing"}
  /\ conns[c].sent < MaxFrames
  /\ LET frame   == [conn |-> c, n |-> conns[c].sent + 1]
         counted == [conns EXCEPT ![c].sent = @ + 1]
     IN  IF conns[c].state = "waiting"
         THEN /\ conns' = [counted EXCEPT ![c].queued = Queue(@, frame)]
              /\ UNCHANGED <<log, agentVars>>
         ELSE OnMessage(counted, c, <<frame>>)
  /\ UNCHANGED <<opening, role, disk, handle, purge>>

\* The socket closed: unsubscribe, or forget the wait for the session.
Close(c) ==
  /\ Quiet
  /\ conns[c].state \in {"waiting", "live", "closing"}
  /\ conns' = [conns EXCEPT ![c] = Over(c)]
  /\ UNCHANGED <<opening, role, log, disk, handle, agentVars, purge>>

-----------------------------------------------------------------------------
(* Opening the session's agent.                                             *)

\* sessionPersistence.prepare: the log is read from disk.
OpenRead ==
  /\ Quiet
  /\ opening = "reading"
  /\ disk # {}
  /\ lives < MaxLives
  /\ log' \in disk
  /\ opening' = "mounting"
  /\ UNCHANGED <<conns, role, disk, handle, agentVars, purge>>

\* Mutant: the handle of a resumed agent is not kept.
OpenedUnowned ==
  /\ Quiet
  /\ opening = "mounting"
  /\ opening' = "no"
  /\ life' = "none"
  /\ lives' = lives + 1
  /\ running' = FALSE
  /\ conns' = Resolve(TRUE)
  /\ UNCHANGED <<role, log, disk, handle, flushes, old, purge>>

\* The flow is mounted: the agent is published, its handle kept, and all who
\* waited go on.  It is a new agent without a driver; an old one may still run
\* beside it.
Opened ==
  /\ Quiet
  /\ opening = "mounting"
  /\ opening' = "no"
  /\ handle' = TRUE
  /\ life' = "none"
  /\ lives' = lives + 1
  /\ running' = FALSE
  /\ conns' = Resolve(TRUE)
  /\ UNCHANGED <<role, log, disk, flushes, old, purge>>

\* The log is not there or the setup failed: who waited is refused.
OpenFails ==
  /\ Quiet
  /\ opening # "no"
  /\ opening' = "no"
  /\ conns' = Resolve(FALSE)
  /\ log' = <<>>
  /\ UNCHANGED <<role, disk, handle, agentVars, purge>>

-----------------------------------------------------------------------------
(* The agent.                                                               *)

\* The last turn ends: its events are fanned out, a flush starts.
GoIdle ==
  /\ Quiet
  /\ running
  /\ running' = FALSE
  /\ log' = Append(log, Answer)
  /\ conns' = FanOut(conns, <<Answer>>)
  /\ flushes' = flushes \cup {Append(log, Answer)}
  /\ UNCHANGED <<opening, role, disk, handle, life, lives, old, purge>>

\* A flush of f comes to the disk, or fails; a longer log stays (external).
Saves(f, ok) ==
  disk' = IF ok /\ \A d \in disk : Len(f) >= Len(d) THEN {f} ELSE disk

\* The flush of an ended driver; either way a waiting disposal goes on, even if
\* another driver runs by now.
FlushSettles(f, ok) ==
  /\ Quiet
  /\ f \in flushes
  /\ flushes' = flushes \ {f}
  /\ Saves(f, ok)
  /\ life' = IF life = "waiting" THEN "teardown" ELSE life
  /\ UNCHANGED <<conns, opening, role, log, handle, running, lives, old, purge>>

\* The scope is disposed and the agent detached; a drop that waits returns.
\* Nothing stops a driver that was woken meanwhile: it goes on with the session
\* it has, which the next opening knows nothing of.
TornDown ==
  /\ Quiet
  /\ life = "teardown"
  /\ life' = "done"
  /\ log' = <<>>
  /\ running' = FALSE
  /\ flushes' = {}
  /\ old' = old \cup {[log |-> f, state |-> "flushing"] : f \in flushes}
               \cup (IF running THEN {[log |-> log, state |-> "running"]} ELSE {})
  /\ purge' = IF purge = "dropping" THEN "dropped" ELSE purge
  /\ UNCHANGED <<conns, opening, role, disk, handle, lives>>

\* The driver of an agent that is gone ends, with a flush.  Whether its events
\* still reach the viewers is the session library's matter (external); a view
\* here is of the registered agent.
OldEnds(o) ==
  /\ Quiet
  /\ o \in old
  /\ o.state = "running"
  /\ old' = (old \ {o}) \cup {[log |-> Append(o.log, Answer), state |-> "flushing"]}
  /\ UNCHANGED <<conns, opening, role, log, disk, handle, running, flushes, life, lives, purge>>

\* That flush settles, perhaps beside another agent of the same session.
OldFlushSettles(o, ok) ==
  /\ Quiet
  /\ o \in old
  /\ o.state = "flushing"
  /\ old' = old \ {o}
  /\ Saves(o.log, ok)
  /\ UNCHANGED <<conns, opening, role, log, handle, running, flushes, life, lives, purge>>

-----------------------------------------------------------------------------
(* Disposal and purge.                                                      *)

\* Hub.disposeIdle at its timer: nobody watches, nothing runs or opens.  The
\* session was idle for ten minutes, which outlasts any flush.
DisposeIdle ==
  /\ Quiet
  /\ handle
  /\ Subscribers = {}
  /\ opening = "no"
  /\ ~running
  /\ flushes = {}
  /\ handle' = FALSE
  /\ life' = Dispose
  /\ UNCHANGED <<conns, opening, role, log, disk, running, flushes, lives, old, purge>>

\* DELETE /sessions/<id>, Hub.drop: close the viewers, dispose of the agent if
\* there is a handle, and return at once if there is none.
Drop ==
  /\ Quiet
  /\ purge = "none"
  /\ conns' = [c \in Conns |-> IF c \in Subscribers
                               THEN [conns[c] EXCEPT !.state = "closing"]
                               ELSE conns[c]]
  /\ handle' = FALSE
  /\ life' = IF handle THEN Dispose ELSE life
  /\ purge' = IF handle THEN "dropping" ELSE "dropped"
  /\ UNCHANGED <<opening, role, log, disk, running, flushes, lives, old>>

\* The gateway waits ten seconds for the drop, then goes on without it.
DropTimesOut ==
  /\ Quiet
  /\ purge = "dropping"
  /\ purge' = "dropped"
  /\ UNCHANGED <<conns, opening, role, log, disk, handle, agentVars>>

\* purgeSessionData after the drop: the gateway removes the session's files.
DeleteFiles ==
  /\ Quiet
  /\ purge = "dropped"
  /\ purge' = "deleted"
  /\ disk' = {}
  /\ UNCHANGED <<conns, opening, role, log, handle, agentVars>>

-----------------------------------------------------------------------------

Client == \E c \in Conns : (\E r \in Roles : Connect(c, r)) \/ Frame(c) \/ Close(c)
Open == OpenRead \/ Opened \/ OpenFails
Settle == \E f \in flushes, ok \in BOOLEAN : FlushSettles(f, ok)

Next ==
  \/ Client
  \/ \E c \in Conns : Attach(c)
  \/ Open
  \/ GoIdle
  \/ Settle
  \/ TornDown
  \/ \E o \in old : OldEnds(o) \/ \E ok \in BOOLEAN : OldFlushSettles(o, ok)
  \/ DisposeIdle
  \/ Drop
  \/ DropTimesOut
  \/ DeleteFiles

Spec == Init /\ [][Next]_vars

\* Continuations run, and every await of the runtime settles in the end.
Fairness ==
  /\ \A c \in Conns : WF_vars(Attach(c))
  /\ WF_vars(Open)

FairSpec == Spec /\ Fairness

-----------------------------------------------------------------------------
(* Properties.                                                              *)

\* A viewer attached to the agent has seen the whole log, each event once:
\* nothing falls between the snapshot and the subscription.
ViewIsLog ==
  \A c \in Conns :
     conns[c].state = "live" /\ Registered /\ conns[c].attachedTo = lives
       => conns[c].view = log

\* The frames of a connection are taken in the order they were sent, each
\* once, and none is skipped without an error, even those sent while the
\* session was being opened.
FramesTaken ==
  /\ \A i, j \in DOMAIN log :
       i < j /\ log[i] # Answer /\ log[j] # Answer /\ log[i].conn = log[j].conn
         => log[i].n < log[j].n
  /\ \A c \in Subscribers : conns[c].errors = 0 =>
       \A n \in 1 .. conns[c].sent : \E i \in DOMAIN conns[c].view :
          conns[c].view[i] = [conn |-> c, n |-> n]

\* One agent of a session is registered at most, the one that clients reach:
\* none is being opened beside it, however connects, disposals, a drop and the
\* flushes of its drivers interleave; and while nobody disposes of it there is
\* the handle by which it can be.  (A driver that outlives its agent is not
\* excluded, see TornDown.)
OneOwnedAgent ==
  /\ opening # "no" => ~Registered
  /\ life = "none" <=> handle

\* Who connects is answered: with the session, or with an error.
Answered ==
  \A c \in Conns : conns[c].state = "waiting" ~> conns[c].state # "waiting"
=============================================================================
