----------------------------- MODULE Supervisor ------------------------------
(***************************************************************************)
(* The gateway's supervisor of the runtime processes, one per shard        *)
(* (api/services/gateway/src/runtime/supervisor.ts, shutdown() in          *)
(* index.ts).                                                              *)
(*                                                                         *)
(* A shard's runtime is launched, probed until it accepts a connection,    *)
(* and launched again after a back-off when it exits.  shard.ready is a    *)
(* promise that every launch replaces: the launch number restarts[s] names *)
(* it, and probe[s][n] is the loop of waitUntilReachable() that settles    *)
(* it.  A probe loop reads the shard's current child, so it can outlive    *)
(* the child it was started for.                                           *)
(*                                                                         *)
(* SupervisorInit, SupervisorNext and the like carry the module's name, so *)
(* that the proofs can extend this module beside another.                  *)
(***************************************************************************)
EXTENDS Naturals

CONSTANTS
  Shards,       \* the runtimes
  First,        \* the one started alone
  Callers,      \* calls of target(), each for the session of some shard
  MaxRestarts   \* exits of one shard's runtime (bound)

ASSUME SupervisorAssumption == First \in Shards /\ MaxRestarts \in Nat

VARIABLES
  boot,         \* start(): "first" or "rest" awaited, "up", or "failed"
  child,        \* shard.child: "none", alive ("starting", "listening"), or gone
                \* ("exited" with an exit code, "killed" by a signal)
  hung,         \* an alive child has stopped answering, for good
  restarts,     \* shard.restarts
  backoff,      \* the timer of a relaunch is armed
  probe,        \* the probe loop of each launch
  failed,       \* shard.failed
  stopping,     \* shard.stopping, the same for all shards
  stop,         \* stop()'s wait for each shard
  calls         \* the calls of target()

supervisorVars == <<boot, child, hung, restarts, backoff, probe, failed, stopping, stop, calls>>

Launches == 0 .. MaxRestarts
ChildState == {"none", "starting", "listening", "exited", "killed"}
ProbeState == {"none", "polling", "ok", "failed"}

NoCall == [state |-> "idle", shard |-> First, launch |-> 0]

TypeOK ==
  /\ boot \in {"first", "rest", "up", "failed"}
  /\ child \in [Shards -> ChildState]
  /\ hung \in [Shards -> BOOLEAN]
  /\ restarts \in [Shards -> Launches]
  /\ backoff \in [Shards -> BOOLEAN]
  /\ probe \in [Shards -> [Launches -> ProbeState]]
  /\ failed \in [Shards -> BOOLEAN]
  /\ stopping \in BOOLEAN
  /\ stop \in [Shards -> {"no", "waiting", "absent", "over"}]
  /\ calls \in [Callers -> [state : {"idle", "waiting", "answered", "refused"},
                            shard : Shards, launch : Launches]]

-----------------------------------------------------------------------------
(* Helpers.                                                                 *)

Alive(s) == child[s] \in {"starting", "listening"}

\* child.exitCode === null: also of a child that a signal has killed.
NoExitCode(s) == child[s] \notin {"none", "exited"}

\* launch(): spawn, and a probe loop whose promise is the new shard.ready.
Launched(ch, s) == [ch EXCEPT ![s] = "starting"]
Probing(pr, s) == [pr EXCEPT ![s][restarts[s]] = "polling"]

\* Mutant: shard.ready is left as it is when the runtime exits.
NextReadyKept(s) == restarts[s]

\* shard.ready after an exit: the promise of the launch that will follow.
NextReady(s) == restarts[s] + 1

\* What stop() does first with each shard: SIGTERM and wait, or return.
Stopping == [s \in Shards |-> CASE child[s] = "none" -> "absent"
                                [] NoExitCode(s) -> "waiting"
                                [] OTHER -> "over"]

\* stop()'s listener of the 'exit' event.
StopSees(s) == IF stop[s] = "waiting" THEN [stop EXCEPT ![s] = "over"] ELSE stop

SupervisorInit ==
  /\ boot = "first"
  /\ child = [s \in Shards |-> IF s = First THEN "starting" ELSE "none"]
  /\ hung = [s \in Shards |-> FALSE]
  /\ restarts = [s \in Shards |-> 0]
  /\ backoff = [s \in Shards |-> FALSE]
  /\ probe = [s \in Shards |->
                [n \in Launches |-> IF s = First /\ n = 0 THEN "polling" ELSE "none"]]
  /\ failed = [s \in Shards |-> FALSE]
  /\ stopping = FALSE
  /\ stop = [s \in Shards |-> "no"]
  /\ calls = [c \in Callers |-> NoCall]

-----------------------------------------------------------------------------
(* start().                                                                 *)

\* The first runtime answered: launch the rest.
BootRest ==
  /\ boot = "first"
  /\ probe[First][0] = "ok"
  /\ boot' = "rest"
  /\ child' = [s \in Shards |-> IF s = First THEN child[s] ELSE "starting"]
  /\ probe' = [s \in Shards |->
                 IF s = First THEN probe[s] ELSE [probe[s] EXCEPT ![0] = "polling"]]
  /\ UNCHANGED <<hung, restarts, backoff, failed, stopping, stop, calls>>

\* All answered: the gateway listens.
BootUp ==
  /\ boot = "rest"
  /\ \A s \in Shards : probe[s][0] = "ok"
  /\ boot' = "up"
  /\ UNCHANGED <<child, hung, restarts, backoff, probe, failed, stopping, stop, calls>>

\* One of the awaited promises was rejected: the gateway gives up and stops
\* its runtimes (a stop() that is already under way goes on).
BootFails ==
  /\ boot \in {"first", "rest"}
  /\ \E s \in Shards : probe[s][0] = "failed"
  /\ boot' = "failed"
  /\ stopping' = TRUE
  /\ stop' = IF stopping THEN stop ELSE Stopping
  /\ UNCHANGED <<child, hung, restarts, backoff, probe, failed, calls>>

-----------------------------------------------------------------------------
(* A runtime process.                                                       *)

Listens(s) ==
  /\ child[s] = "starting"
  /\ ~hung[s]
  /\ child' = [child EXCEPT ![s] = "listening"]
  /\ UNCHANGED <<boot, hung, restarts, backoff, probe, failed, stopping, stop, calls>>

\* The process still takes TCP connections and answers nothing any more.
Hangs(s) ==
  /\ Alive(s)
  /\ ~hung[s]
  /\ hung' = [hung EXCEPT ![s] = TRUE]
  /\ UNCHANGED <<boot, child, restarts, backoff, probe, failed, stopping, stop, calls>>

\* The process ends, with an exit code or by a signal (out of memory, SIGKILL).
\* Unless it is being stopped, a relaunch is armed and shard.ready replaced.
Exits(s, how) ==
  /\ Alive(s)
  /\ restarts[s] < MaxRestarts \/ stopping
  /\ child' = [child EXCEPT ![s] = how]
  /\ hung' = [hung EXCEPT ![s] = FALSE]
  /\ stop' = StopSees(s)
  /\ IF stopping
     THEN UNCHANGED <<restarts, backoff>>
     ELSE /\ restarts' = [restarts EXCEPT ![s] = NextReady(s)]
          /\ backoff' = [backoff EXCEPT ![s] = TRUE]
  /\ UNCHANGED <<boot, probe, failed, stopping, calls>>

\* Mutant: the back-off does not look at shard.stopping.
RelaunchAnyway(s) ==
  /\ backoff[s]
  /\ backoff' = [backoff EXCEPT ![s] = FALSE]
  /\ probe' = Probing(probe, s)
  /\ child' = Launched(child, s)
  /\ UNCHANGED <<boot, hung, restarts, failed, stopping, stop, calls>>

\* The back-off is over.
Relaunch(s) ==
  /\ backoff[s]
  /\ backoff' = [backoff EXCEPT ![s] = FALSE]
  /\ IF stopping
     THEN /\ probe' = [probe EXCEPT ![s][restarts[s]] = "failed"]
          /\ UNCHANGED child
     ELSE /\ probe' = Probing(probe, s)
          /\ child' = Launched(child, s)
  /\ UNCHANGED <<boot, hung, restarts, failed, stopping, stop, calls>>

-----------------------------------------------------------------------------
(* waitUntilReachable() of launch n.  The loop looks at the exit code and   *)
(* the deadline only between two handshakes, and a handshake has no timeout *)
(* of its own: a process that hangs holds the loop until it exits.          *)

ProbeSucceeds(s, n) ==
  /\ probe[s][n] = "polling"
  /\ child[s] = "listening"
  /\ ~hung[s]
  /\ probe' = [probe EXCEPT ![s][n] = "ok"]
  /\ UNCHANGED <<boot, child, hung, restarts, backoff, failed, stopping, stop, calls>>

\* The child has an exit code.
ProbeSeesExit(s, n) ==
  /\ probe[s][n] = "polling"
  /\ ~NoExitCode(s)
  /\ probe' = [probe EXCEPT ![s][n] = "failed"]
  /\ UNCHANGED <<boot, child, hung, restarts, backoff, failed, stopping, stop, calls>>

\* Mutant: the deadline marks the shard and the loop goes on.
ProbeTimesOutGoesOn(s, n) ==
  /\ probe[s][n] = "polling"
  /\ child[s] # "listening"
  /\ ~hung[s]
  /\ failed' = [failed EXCEPT ![s] = TRUE]
  /\ UNCHANGED <<boot, child, hung, restarts, backoff, probe, stopping, stop, calls>>

\* Sixty seconds have passed since launch n and a handshake has just failed.
ProbeTimesOut(s, n) ==
  /\ probe[s][n] = "polling"
  /\ child[s] # "listening"
  /\ ~hung[s]
  /\ probe' = [probe EXCEPT ![s][n] = "failed"]
  /\ failed' = [failed EXCEPT ![s] = TRUE]
  /\ UNCHANGED <<boot, child, hung, restarts, backoff, stopping, stop, calls>>

-----------------------------------------------------------------------------
(* target(): refuse for a failed shard, else wait for its shard.ready.      *)

Target(c, s) ==
  /\ boot = "up"
  /\ calls[c].state = "idle"
  /\ calls' = [calls EXCEPT ![c] =
                 [state |-> IF failed[s] THEN "refused" ELSE "waiting",
                  shard |-> s, launch |-> restarts[s]]]
  /\ UNCHANGED <<boot, child, hung, restarts, backoff, probe, failed, stopping, stop>>

\* shard.ready as the call read it.  Its continuation runs before any other
\* event, see Due.
Promise(c) == probe[calls[c].shard][calls[c].launch]

TargetSettles(c) ==
  /\ calls[c].state = "waiting"
  /\ Promise(c) \in {"ok", "failed"}
  /\ calls' = [calls EXCEPT ![c].state = IF Promise(c) = "ok" THEN "answered" ELSE "refused"]
  /\ UNCHANGED <<boot, child, hung, restarts, backoff, probe, failed, stopping, stop>>

-----------------------------------------------------------------------------
(* stop(): SIGTERM to every child that has no exit code, SIGKILL after the  *)
(* grace period, and wait for the exit of each.                             *)

Stop ==
  /\ ~stopping
  /\ stopping' = TRUE
  /\ stop' = Stopping
  /\ UNCHANGED <<boot, child, hung, restarts, backoff, probe, failed, calls>>

-----------------------------------------------------------------------------

\* A continuation of target() is due.
Due == \E c \in Callers : calls[c].state = "waiting" /\ Promise(c) \in {"ok", "failed"}

Probe == \E s \in Shards, n \in Launches :
           ProbeSucceeds(s, n) \/ ProbeSeesExit(s, n) \/ ProbeTimesOut(s, n)

SupervisorNext ==
  \/ /\ ~Due
     /\ \/ BootRest \/ BootUp \/ BootFails
        \/ \E s \in Shards : Listens(s) \/ Hangs(s) \/ Relaunch(s)
        \/ \E s \in Shards, how \in {"exited", "killed"} : Exits(s, how)
        \/ Probe
        \/ \E c \in Callers, s \in Shards : Target(c, s)
        \/ Stop
  \/ \E c \in Callers : TargetSettles(c)

SupervisorSpec == SupervisorInit /\ [][SupervisorNext]_supervisorVars

\* Timers fire, a probe loop whose handshakes are answered or refused comes to
\* an end (by a handshake, the exit code or the deadline), and a runtime that
\* gets SIGTERM, then SIGKILL, exits.
SupervisorFairness ==
  /\ WF_supervisorVars(BootRest) /\ WF_supervisorVars(BootUp) /\ WF_supervisorVars(BootFails)
  /\ \A s \in Shards :
       /\ WF_supervisorVars(~Due /\ Relaunch(s))
       /\ WF_supervisorVars(~Due /\ stopping /\ \E how \in {"exited", "killed"} : Exits(s, how))
       /\ \A n \in Launches :
            WF_supervisorVars(~Due /\ (\/ ProbeSucceeds(s, n)
                                       \/ ProbeSeesExit(s, n)
                                       \/ ProbeTimesOut(s, n)))
  /\ \A c \in Callers : WF_supervisorVars(TargetSettles(c))

FairSpec == SupervisorSpec /\ SupervisorFairness

-----------------------------------------------------------------------------
(* Properties.                                                              *)

\* target() sends a caller to a process that accepts connections, not to one
\* that has exited or is being launched again, however many times the shard
\* was restarted while the caller waited.
TargetIsUp ==
  [][\A c \in Callers :
       calls[c].state # "answered" /\ calls'[c].state = "answered" /\ ~stopping
         => child'[calls'[c].shard] = "listening"]_supervisorVars

\* The runtime that stop() has waited for is down and is not launched again,
\* whatever timer was armed when the stop began.
StoppedMeansDown == \A s \in Shards : stop[s] = "over" => ~Alive(s)

\* A caller of target() is not left waiting, across exits, relaunches, late
\* probes and the stop, unless the shard's process hangs: a loop inside a
\* handshake that is never answered does not come to its deadline, and the
\* caller waits as long as that process lives.
CallAnswered ==
  \A c \in Callers :
    calls[c].state = "waiting" ~> calls[c].state # "waiting" \/ hung[calls[c].shard]
=============================================================================
