# Formal models of Fox Harness Core

TLA+ specifications of the parts of this repository in which the order of
events decides what is true: the agent loop, the transport of a session's
runtime, the gateway's supervisor of the runtime processes, the archive of the
working directories in S3, accounts and admission, the counting of usage, canvas
versions, the Python processes behind two tools, and the browser tab that keeps a
chat connected. TLC checks them on small instances; TLAPS proves their
invariants, action properties and two refinements for every value of the constants.

## The system

A browser (`app/`) talks to one **gateway** (`api/services/gateway`), which
authenticates it, keeps accounts and session rows in MariaDB, tokens in Redis,
archives in S3, and proxies a WebSocket per open chat to one of N **runtime**
processes. A session belongs to the runtime its id hashes to. A runtime
(`api/packages/agent-core` on the `dsh` harness) holds one **agent** per live
session: an inbox, an append-only log of events, and a driver that opens turns,
asks the model and runs tools. The log is fanned out to every viewer and flushed
to disk; a session that is in no runtime is resumed from that log.

### Inventory

| Component (source) | State | Operations | What is hard | What makes it correct |
|---|---|---|---|---|
| Agent loop (`agent-core/src/loop/agent.ts`) | two inbox queues, log, turn counter, abort controller, `driving`, `idleWaiters` | send (follow-up, steer, inject), cancel, whenIdle, disposeGracefully, drive/turn/runStep/callModel | messages, Stop and disposal arrive at any await; a driver's final flush overlaps the next driver; hooks, tools and requests throw | no message lost or doubled, order kept, steps and turns bracketed, a stopped turn quiet, waiters woken, a settled agent durable |
| Agent factory (`loop/factory.ts`, `runtime-context.ts`) | registered agents and sessions | create, resume, dispose | setup fails or is aborted half-way | published or rolled back as a whole |
| Transport (`transport/server.ts`) | subscribers, handles, opens in flight, last activity | ensure/open, subscribe, fan-out, idle disposal, drop | connects, frames, drops and disposals during an open or a disposal | one agent per session, every viewer sees the log, no frame skipped |
| Supervisor (`gateway/src/runtime/supervisor.ts`, `main`/`shutdown` in `index.ts`) | child, `ready`, `restarts`, `failed`, `stopping` per shard | start, target, drop, health, stop, launch, probe | exits by code or signal, back-off timers, stale probe loops, stop at any moment | a caller gets a process that listens; a stop ends and is final |
| Session purge (`runtime/sessions.ts`) | files, rows, archive objects | drop, remove, delete | a runtime that still holds the session | nothing comes back |
| Token-budget policy, edit guard, workspace guard (`policy/`, `transport/workspace-guard.ts`) | read from the log | refuse a step, remind once per turn | recomputed after a resume | the same answer after a resume |
| Usage recorder, ingest (`transport/usage-recorder.ts`, `runtime/usage.ts`) | turn state, queue, a file per day, read offsets, rows | write, read on, delete | crash between insert and offset, half-written lines, a file removed beside an append | what is read is counted once, everything is read in the end |
| Workspace archive (`runtime/workspace-archive.ts`) | disk, S3 objects, stamps and evicted marks in Redis | sweep, evict, restore, delete, clear, purge | sweeps beside deletions and connects, crash between any two calls, Redis lost | a file is on disk or in S3 until it is deleted, never after |
| Session-log archive (`runtime/session-archive.ts`) | log files, S3 objects, stamps | sweep, restore, delete | as above, with an agent that appends | the log is on disk or in S3 until it is deleted |
| Accounts, tokens, tickets (`auth.ts`, `redis.ts`, routes) | account rows, tokens, a set of them per user, attempt counters, tickets | login, resolve, change and revoke, ticket | login beside revocation or a role change; two administrators at once | nobody is let in with a changed role or password; an administrator remains |
| Connections and proxy (`index.ts` upgrade, `proxy.ts`, `runtime/live.ts`) | live sessions, admission chain, pending frames | upgrade, track, forward | check-then-act over awaits | order kept, quota passed by the overtakers at most |
| Storage, cleanup (`runtime/storage.ts`, `bucket-usage.ts`) | usage counters | measure, refuse, delete old | files change while measured | no recent file removed |
| Canvas versions (`runtime/canvas-history.ts`) | version index, files, partial files | snapshot, edit, delete, prune, clear | concurrent snapshots, a clearing without the lock | index and files agree, no update lost |
| Python tool (`tool/python-repl`) | queue of cells, reply slot, interpreters, note of variables | run, interrupt, evict, watchdog | interrupts against late replies and exits | a reply belongs to its cell, the note is true, every call returns |
| Data Studio pool (`tool/data-studio-agent`) | workers, waiters, reply slots | acquire, ask, release, sweep, stop | late lines and exits, a full pool | an answer belongs to its question, waiters are served |
| Web client (`app/src/App.tsx`, `routing.ts`) | address, login, socket, attempts, first message | connect, navigate, log in and out, probe a refusal | answers of attempts that were left | what is shown is what is connected |
| LLM adapter, data-analysis flow, Python pipelines | | | translation, prompts | not modelled |

How they meet: the gateway calls the supervisor's `target()` for every chat and
proxies the socket to the runtime's Hub; the Hub owns the handle of each agent
and reaches it with `followup`/`steer`/`cancel` and `handle.dispose()`; the agent
appends to the session, whose listener is the Hub's fan-out; the purge calls the
Hub's drop through the supervisor and then removes the files the agent's flush
writes. The runtime's recorder writes a line per model call and turn to files
that the gateway reads; its tools run Python in processes of their own, one per
conversation (`python`) or one per worker of a pool (`analyze_data`). The browser
trades its login token for a ticket and opens the chat's socket with it.

`PROJECT.json` lists the hazards, each at its line, with the properties that
cover it or the reason why none does yet.

## Modules

| Module | Models | Used by |
|---|---|---|
| `AgentLoop` | `FoxHarnessAgent`, the durability of its log, a kill and a resume | |
| `RuntimeHub` | the Hub, connections and drop for one session, with the gateway's purge | |
| `Supervisor` | the runtime processes, their probes and callers, boot and shutdown | |
| `WorkspaceArchive` | one working directory: disk, S3 and Redis under sweep, eviction, restore and deletion | |
| `Access` | logins, tokens, changes of accounts, tickets and the session quota | tokens as `ChatClient` meets them |
| `Usage` | the usage records of one session, from the runtime to the tables | |
| `CanvasHistory` | the version index of one folder and the files it names | |
| `ServiceQueue` | what callers may rely on: a slot serves one client at a time, clients are served in the order of their coming | implemented by `StudioPool` and `PythonKernel` |
| `StudioPool` | the pool of pipelines behind `analyze_data` | |
| `PythonKernel` | the Python session of one conversation | |
| `ChatClient` | one browser tab | |
| `AgentLoop_proofs`, `RuntimeHub_proofs`, `GatewayRuntime_proofs` (of `WorkspaceArchive`, `Supervisor` and `Usage`), `Access_proofs`, `CanvasHistory_proofs`, `StudioPool_proofs`, `PythonKernel_proofs`, `ChatClient_proofs` | theorems | |

JavaScript runs from one await to the next without a break, so everywhere **an
action is the code between two awaits**, with all it calls. Two rules keep
microtasks honest: where the continuation of a settled promise runs before any
other event, the model either merges it with the step that settled the promise
(a turn's end and the next turn's start in `AgentLoop`) or forbids every other
action until it has run (`Quiet` in `RuntimeHub`, `Due` in `Supervisor`).

### AgentLoop

`pc` is the await the driver is suspended at: `assemble` (agent.ts:241),
`prestep` (245), `request` (`callModel`), `tools` (`tools.execute`), `stopping`
(272), or `idle`. The turn's locals are the record `turn`; `turn.abort` is the
cause its controller was aborted with. What follows an await is one action per
outcome: `Assembled`, `Enter`, `Reject`, `PrepareThrows`, `ModelAnswers`,
`ModelThrows`, `ToolReturns`, `ToolThrows`, `Stopped`, `StoppingThrows`. They share
the straight-line pieces of `turn()`: `BeginStep` (claim and assemble), `EndTurn`
(turn/end, then another turn or the driver's end and its flush), `NextRound` (the
loop head), `RunCalls` (malformed calls are answered without an await). `Send`,
`Cancel` and `Dispose` come between any two steps. `FlushSettles` is the finally
block of `wake()`: a flush that settles, successfully or not, resolves **all**
waiters. `CrashAndResume` kills the process and resumes from `disk`. A message is
its number and the way it was sent; an event keeps its type, turn, step, message
and reason. The inbox is durable as the log is (a splice of a queue is an entry of it),
so a flush saves both (`Saved`). A message that is injected wakes no driver and starts
no flush: it is saved by the flush of whichever driver ends next.

Between the last look at the inbox (agent.ts:292) and `driving = false` (182) only
microtasks run, so no message can come there and `EndTurn` has them in one step. That
this loses nobody's message is not read off the guard but checked over the whole life of
a driver: `WaitingIsTaken`.

External: the harness' inbox claims and its session store (a flush writes the
log as it was when the flush began; a later, longer one is not overwritten), and
the checkpoint policy that may write at a request boundary.

### RuntimeHub

One session, since everything the Hub keeps is keyed by its id. Each connection
carries the locals of its `handleConnection`: waiting for `ensure()`, ready to go
on, live, being closed by `drop`, closed. `view` is what its client has been sent.
`OpenRead`, `Opened` and `OpenFails` are the awaits of `open()`; `opening` is
`inflight`; `handle` is whether `handles` has the session. Of the agent the Hub sees
whether a driver runs (`running`), the flushes of drivers that ended (`flushes`) and how
far its disposal is (`life`). A disposal waits for a flush, not for the driver that may
have been woken meanwhile, so `TornDown` may find one running: it goes into `old`, where
it ends (`OldEnds`) and flushes (`OldFlushSettles`) beside whatever agent is opened next.
Whether its events still reach the viewers is the session library's matter (external).
A new session's creation is treated as its
first opening: no second client can know the id yet. `DisposeIdle` needs
`flushes = {}`: the session was idle for ten minutes, which outlasts a flush.

### Supervisor

`shard.ready` is replaced by every exit, so the launch number `restarts[s]` names
the promise and `probe[s][n]` is the loop that settles it. The loop reads the
shard's *current* child, so a probe of launch n goes on over a child that a signal
killed (it has no exit code) and may be settled by launch n+1. `Exits` chooses
between an exit code and a signal. `hung` is a child that lives and
has stopped answering for good (`Hangs`): the loop looks at the exit code and the deadline only between two handshakes
(supervisor.ts:306-319) and a handshake has no timeout, so such a child holds the loop
until it exits. `calls` are calls of `target()` holding the
promise they read. `Stop` may come at any moment, also during boot, where
`BootRest` still launches the other runtimes afterwards.

### WorkspaceArchive

One directory, since stamps, mark, objects and the restore under way are keyed by
it. `disk`, `s3`, `stamps`, `evicted` are the four stores; `sweep`, `restore`
and `op[u]` carry the locals of the pass, of `restore()` and of each request,
with the await it is suspended at in `pc`. A content is the number of the write that
made it. An mtime is a number that neither disk, Redis nor the pass remembers when a
file is put in its place: the code only compares stamps, and a number is free again
when nobody can compare it.

The sweep reads mark, stamps and listing in three awaits, then uploads file by file
(read, put, stamp), deletes what left the disk, and evicts (mark, then remove the
tree file by file). `SweepBegins` chooses whether the directory is `old` and which
files are still `fresh`, because all ages are compared with one `Date.now()` taken
there. `Lists` is `filesOf()`, whose `readdir` and `lstat` swallow their failures: any
listing may miss files that are there.

`spoilt` remembers that one of three things has happened after which nothing is promised:
a request came while a directory that is old enough to be evicted was swept, a file was
written or removed by its user while it was swept so or restored, or a listing of a pass
missed a file. Nothing in the code prevents any of them; each loses files (see Finding
and Observations), and the properties say that nothing else does. The models go on after
them.

The users are the upgrade of a socket (`open`: `ensureWorkspaceLocal` with
`checkEmpty`, whose failure the upgrade only logs), the file routes (`rest`,
`delete`), `deleteFiles` (`clear`: pause, `await sweeping`, list, delete) and
the purge (drop, folder, prefix, stamps, row); its drop is best effort and may leave the
chat open (supervisor.ts:119-131). `wanted` is history: what the user has
written and not removed; what is written while the chat is being deleted (`Purging`) is
to go with it and is not added. `SweepUploadFails`, `SweepDeleteFails`, `SweepThrows`,
`RestoreFails` and `OpFails` are the catch blocks; `Crash` kills the gateway between
any two steps; `RedisIsLost` forgets every stamp and the mark.

Merged awaits: `dirUsage` and the stamps in `ClearPicks`, the second look at the mark
with the choice of the copy in `PicksCopy`, the two calls of `forgetWorkspace`, the
pages of `deleteArchivePrefix`. Left out: skipped paths and links, byte counts, the
order of the directories of a pass.

### Access

A login, a `PATCH /users/:id` and an upgrade are handlers with an await at every
call of Redis and MariaDB: `login[l].at`, `change[c].at` and `socket[s].at` say which
call is next. `storeToken()` is two calls (`LoginStores`, `LoginIndexes`),
`revokeUserTokens()` three (`Lists`, `Deletes`, `DropsIndex`), `checkRateLimit()` two
on the first hit. An account is its role and the number of its updates; a token is
what its login read of the account. `Validated` is the route's second look at the
token, which decides whether an administrator demotes himself. All accounts start
as administrators and changes only take the role away: giving it back cannot
violate anything that is stated. A ticket is
used at once or not at all here, so its single use (`GETDEL`) needs no state. `room`
is history: how many sessions there may be when an upgrade that passed the quota
check is counted.

### Usage

One session of one shard; the day's files, offsets and rows are the four stores.
Sizes are counted in half lines, so a file can end inside a line (`Torn`) because an
append is under way or because a kill cut it. `Write` queues a record,
`AppendBegins`/`AppendEnds` are the two halves of `appendFile()`. The ingest goes from
await to await: `stat`, `open` (its own `stat`), `read` (a chunk, its insert), `save`,
`age` (remove), `forget`; `Insert` says which lines get a row by their places in the
file. `Kill` takes the queue, the turn's state and whatever of the
log was not flushed; `reused` is history: turn numbers that are given out twice.

### CanvasHistory

One folder. `req` carries the locals of each request with the await it is suspended
at; what comes before the lock is `snapshotFile()`'s copy or `saveUpload()`, what comes
after is `withIndex()`: read and change, delete (for the two deleting operations), prune
and look for orphans, write, drop. `disk` and `partial` say whose bytes stand under a
name, so a rename of somebody else's partial file can be told from one's own. A snapshot's
name is given by the file and its state; an edit's is the one `freeName()` finds free, and
two edits may find the same (`Saves`). `deleteFiles()` lists the folder (`Lists`, which
may fail and then finds nothing) and deletes file by file (`Removes`), each of which may
be the last before it throws (`UpdateFails`); partial files are not listed. A clearing is
the same without the lock and comes to the index somewhere in between (`RemovesIndex`).
`gone` is what a deletion has removed whose entries are still to go, `cut` marks an update
whose read failed or whose index was cleared meanwhile, and `exposed` is history: the
files whose entries one of the known races may have left wrong; each is named at
`NamedIsThere`.

### StudioPool and PythonKernel

Both are question-and-answer protocols over a child process whose lines and exit
arrive at one reply slot, whoever waits there. The process has its stdin (`in`), its
lines on the way (`out`) and a state; `killed` and `crashed` have an exit event
still to come, and lines may follow it. `process` is `this.process`: an event of a
process that was stopped is told from one of the current process only where the code
compares them. `strayed` marks a question, or a cell, that was handed to a kernel
while something of an earlier one was still to come. `down` is the end of the whole
runtime: nobody listens for the `error` of a process that could not be started, or of the
stdin of one that has died unnoticed (data-studio-agent kernel.ts:103, 134; python-repl
kernel.ts:192, 335, 375), and a runtime has no handler for what is thrown then. Both
modules implement `ServiceQueue`, the order of service: the workers are its slots, and the
one interpreter is the one slot of `PythonKernel`.

`StudioPool` has the pool (`made`, `waiting`), the time limits and `stop()`; a
released worker goes to the longest waiter within the same step, as the resolved
promise runs before any other event. `PythonKernel` has the tail of queued cells, the
interrupt with its grace, the watchdog's three steps and the eviction; `MayStart`
forbids other events while a cell whose turn has come has not started, for the same
reason. `variables` is the note to the model, `memory` what the interpreter has.

### ChatClient

One tab. `conn[a]` is a connection attempt: waiting for its ticket, opening, open,
refused, probing, over. `current` is `wsRef`, `newest` is `connectAttemptRef`. The
answers of an attempt come at any time, also when the user is elsewhere; the handlers
check what the code checks, and no more. The stored token is shared by all tabs
(App.tsx:223-237): `OtherTab` removes or replaces it at any time. `TokenDies` is the
gateway (`Access`). A login is a request (`SignsIn`) and its answer (`Login`); any other
request of the app (`Asks`) may be answered with a 401 (`Answered`), which ends the login
whichever token is stored by then. Back and Forward (`PopState`) work at the login form
too, and connect if a token is stored. One login and one other request are under way at a
time, and another tab does not put an *older* token back.
`MayConnect` bounds what the user starts so that a refused attempt always has room for
the one that takes over.

## Runs

| Run | Instance | States | Shows |
|---|---|---|---|
| `agent_loop` | 2 messages, 1 tool step, 1 call, 1 kill | 599 k | nine properties of messages, turns, Stop, durability, waiting input and disposal |
| `runtime_hub` | 2 connections, 2 roles, 2 frames each, 2 agents | 1.7 M | views, frames, ownership, answers, beside drivers of agents torn down |
| `supervisor` | 2 shards, 1 caller, 2 exits each | 156 k | target, stop, callers that wait |
| `archive` | 2 files, 2 writes, 2 operations, 1 failure of any kind | 5.9 M | nothing lost, the next opening restores, a clear erases |
| `archive_liveness` | 1 file, 3 writes, 1 operation, 1 failure | 447 k | what settles reaches S3, what is removed leaves it |
| `access` | 2 users, 2 logins, 2 changes, 2 sockets, 2 sessions, 1 failure | 2.2 M | revocation, the last administrator, the quota |
| `usage` | 2 days, 2 turns, 3 records, 1 kill, 1 failure | 1.1 M | what is read is counted, everything is read |
| `canvas` | 2 canvases, 1 file to snapshot, 2 names for edits, 3 requests, 1 failure | 379 k | the index against the files, no update lost |
| `studio` | 3 questions, 2 workers, 3 processes | 982 k | own answers, every question ends, order of service |
| `python` | 3 cells, 3 interpreters | 1.2 M | own output, a true note, every call returns, order of service |
| `chat_client` | 3 attempts, 2 tokens | 3.0 M | what is shown, the first message, connecting ends |
| `archive_overlap` | 1 file, 1 write, 1 opening | | violated: see Finding |

**Bounds.** Two messages make a queue that is longer than what a turn claims, or
one steering and one queued message, or one before and one after a kill or a
Stop. One tool step is a turn with two requests and one round of tools, and
`MaxSteps` bounds only the steps in which tools may be asked for, so turns can
always end. One call is either well formed or malformed; two calls in one message
(850 k states, safety) were run once by hand without a new finding. One kill gives
a log cut anywhere. Two connections share an open, watch together, or come during
the other's disposal; two agents give a reopening. Two exits of a shard give a probe
loop that outlives two children. `MaxFrames`, `MaxLives`, `MaxRestarts`, `MaxMsgs`,
`MaxCrashes` are guards on the environment's actions and on `Exits`, `OpenRead`.
In the archive two files are what an eviction or a restore can leave half done; two
writes are a file of each kind or a file and its change; two operations of one user are
an opening and a deletion, a clear beside a pass, or a purge and what comes after a purge
that was cut short. In `archive_liveness` the second of three writes is too large for S3, so
the file can be archived, be archivable no more, and be archivable again; with two
operations and the third write too large (2.0 M states, run by hand) nothing new comes.
`MaxOps`, `MaxWrites` and
`MaxFaults` are guards in `Spend`.

In `access` two changes of two accounts overlap in every way, and a login overlaps
each; the constraint `Focus` looks at the quota before the first change only and at
one socket during changes, since neither touches what the other reads. One attempt
per window is the limit at its boundary. In `usage` a kill makes a torn line that a
second process appends to, two days give a file that ages while another grows, two
lines are one chunk of three. In `canvas` three requests are two snapshots of one
file and a deletion or a clearing, two edits that find the same name, or three edits of
one canvas when two entries are kept; requests, canvases and the names of edits are
interchangeable. In
`studio` and `python` three of each is a question before, the one that is stopped and
the one after it, each on a process of its own. In `chat_client` three attempts are
one to leave, one to be refused and the one that takes over; two tokens are one that is
stored or dead when the tab is loaded and one of a later login, here or in another tab.

No run checks for deadlock: an agent, a session, a gateway, a directory, a pool and a
tab may rest for ever.

**Fairness.** `AgentLoop`: the driver, flushes and teardown take their steps —
every await of the driver carries a deadline or a signal, and disk writes return.
Nothing forces a message, Stop or disposal. `RuntimeHub`: continuations run and an
open settles. `Supervisor`: timers fire; a probe loop whose handshakes are answered or
refused ends, by a handshake, an exit code or its deadline, and one that is held by a
hanging process does not; a runtime that gets SIGTERM and then SIGKILL exits.
In these three weak fairness is enough: an action that is due stays due until it runs
or the state it waited for is gone. `WorkspaceArchive`: a pass, a restore and a request
that are begun go on, and a restore fails by itself only when it cannot. The beginning
of a pass needs strong fairness: the interval timer starts passes again and again, a
clear only postpones them, and a file that nobody writes to has settled by the time
of one of them (`fresh' = {}`). `Usage`: the interval starts an ingest and its awaits
settle (weak); nothing is assumed of the runtime. `StudioPool`: only the timer of a
running question, as long as the runtime is up; not the answers, and not the timer in the queue, which shows that
the hand-over alone keeps the queue moving. `PythonKernel`: the two timers of a cell
and the start of a cell whose turn it is; not the interpreter. `ChatClient`: a
request is answered or fails, a socket opens or is refused, a grace timer runs out.
`Access` and `CanvasHistory` have safety properties only.

### Properties worth a second look

* `NothingSilentlyLost` allows a message to disappear only with a Stop, a kill, or a
  turn that is *reported* as blocked, aborted or failed. This is what the code
  does with messages it claimed before a throw: they are gone, but not silently.
* `StepsBracketed` holds across aborts and tool errors; only a kill leaves a step
  open (the repair of such a log by the harness at resume is external).
* `CancelledTurnIsQuiet`: after Stop the remaining tool calls of the message still
  run, with an aborted signal, as the code says; what it must not do is ask the
  model again or take input.
* `TargetIsUp` is about the instant of the answer. A runtime may of course exit
  right after it.
* `SettledIsDurable` says of the inbox what is true: what was sent is on the disk when the
  agent has settled, what was *injected* since need not be.
* `WaitingIsTaken`: a message that is queued while a driver runs is taken up by it, however
  its turn ends; `send()` has found a driver and wakes no other.
* `CallAnswered` excuses a caller only while the process it waits for hangs.
* `OneOwnedAgent` is about the agent that is registered. A driver that outlived its agent
  may run beside it, see the first observation.
* `ClearErases` is why `deleteFiles` pauses the sweep *and* awaits the pass under way.
* `NothingLost`, `NextOpenRestores`, `ChangeRevokes`, `AdminRemains`, `NamedIsThere`, `AnswerIsOwn`, `OutputIsOwn`,
  `NoteIsTrue`, `ShownIsConnected`, `FirstMessageInItsChat` are stated with their
  exceptions, each a history variable that only a named race sets. Without the
  exception each of them is violated; the observations below say by what. With it the
  property says that there is no other way, and does not speak for the race itself.
* `QuotaOvershoot`: what the check admits at the limit is not exact, and the property
  says by how much: by the upgrades that were counted between one's own check and count.
* `ReadIsCounted` holds although offset and rows are not written in one transaction,
  and although a file is removed while a record may be appended to it: the first
  because a line read twice adds no row, the second because no turn lasts a week.

### Finding

**Opening a chat while its directory is evicted can lose its files**
(`archive_overlap`, `FilesKept`; workspace-archive.ts, `evict` beside `ensureWorkspaceLocal`). The
opening sees the mark, keeps the files that are still on the disk, and clears the
mark; the eviction then removes those files, and the next pass takes them for
deleted and deletes their copies.

### Observations

Behaviours of the code that the models have and no property forbids. Those of the
first group contradict a comment:

* A disposal can tear an agent down while it runs (agent.ts:203, against 171-172): a
  flush of the previous driver resolves the waiters of the next. The driver goes on, and
  when the session is opened again two of them run side by side on one log, each with
  turn numbers of its own (server.ts:234).
* A role change slips through a shared open (server.ts:137-138, against 130-132).
* A purged session's log can be written back (server.ts:215-218 and supervisor.ts:126,
  against server.ts:209-210): `drop()` has no handle while the session is being opened
  or disposed of, and the gateway stops waiting after ten seconds.
* A deleted chat's files can come back in S3 (sessions.ts:27 says that a sweep can no longer
  upload by then, workspace-archive.ts:6 that every copy goes): the purge does not wait for
  the pass under way, which puts the file it has read after the prefix was emptied; nor is
  it certain that the agent is gone, since the drop is best effort (supervisor.ts:119-131).
* The gateway's shutdown can hang on a runtime that a signal had already killed
  (supervisor.ts:152-158, against 146).
* A shard that missed one deadline is refused for good although its runtime is up
  again (supervisor.ts:113 and 320, against 110 and `docs/core-architecture.md`:159-160).
* Two snapshots of one file in one state at once copy it twice and may push two
  entries (canvas-history.ts:121-123 says it is never copied twice); the rename of one
  can take the unfinished partial file of the other.
* Two uploads at once can find the same name free, and the second replaces the first
  (workspace-files.ts:155-163, against 166-169: "never replace an existing file").
* A first message is not dropped when the user goes elsewhere by the sidebar or the
  back button, or logs out, before the chat has its name (App.tsx:208-209).

The others:

* A viewer that connects while the idle disposal runs is attached to a session that is
  going away (server.ts:136 with 231-234).
* A runtime that start() launches after SIGTERM has come is stopped by nobody
  (supervisor.ts:105).
* `checkEmpty` restores a directory whose last file was removed since the last pass; so
  does an eviction after a failed deletion of a copy.
* A restore that downloads a file while the pass deletes its copy leaves a stamped file
  without an object, until its next change.
* An object that was put but not stamped stays in S3 if its file is removed next:
  deletions go by the stamps.
* If the disk is wiped and the directory made anew without a restore, the pass takes
  the files for deleted and deletes their copies.
* A file written during a restore of the same file is overwritten by the rename, also by
  an upload that passed its look at the mark before the restore began
  (workspace-archive.ts:226-233).
* A directory or file that cannot be listed for a moment is taken for removed
  (workspace-archive.ts:61, 67): the pass deletes its copies, or evicts a directory with
  files that were never archived.
* An injected message is lost by a kill of an agent that was idle when it came: nothing
  flushes the log until a driver ends.
* A deletion or clearing of versions that fails midway leaves an index that names files
  which are gone (workspace-archive.ts:301-328).
* A pipeline or an interpreter that cannot be started, or that is written to as it dies,
  ends the runtime process with all its chats.
* A runtime that hangs in a handshake is neither refused nor restarted; its callers wait.
* A file uploaded to a chat that is being deleted goes with it, or stays on the disk or in
  S3 if it comes after the folder was removed; with several requests at a time a deleted
  chat can so leave more than one file behind.
* A login that overlaps a change of its account keeps what it read; a token stored
  between `SMEMBERS` and `DEL` of the index survives and is in no index (redis.ts:36-39).
* The check that an administrator does not demote himself is skipped when his token
  ends between the gate and the route's second look (index.ts:624, 636); two
  administrators can demote each other at once.
* A login that fails between `INCR` and `PEXPIRE` leaves a counter that never expires
  (redis.ts:156-157).
* A kill that takes a recorded turn from the log makes its number be given out again,
  and `insert ignore` drops the records of the second turn of that number; a torn line
  spoils the next record (usage.ts:57-116, 129).
* `deleteCanvas()` removes a snapshot that another canvas names; an index that cannot be
  read is taken for an empty one, and the next update writes that (canvas-history.ts:43).
* The exit or a late line of a stopped pipeline or interpreter is taken for the answer
  to the next question or cell (data-studio-agent kernel.ts:155-184, python-repl
  kernel.ts:364-385), whose own answer then goes to the one after.
* A SIGINT that lands as its cell finishes ends the idle interpreter, although the
  answer says that variables are kept; cells of a stopped turn that were queued still
  run; after the plugin is unloaded queued cells start an interpreter that nobody stops.
* The answer to the probe of an attempt that was left can take over the chat, or put a
  token back after a logout; a ticket that arrives after the logout opens its socket; a
  message sent before a new chat has told its name puts the chat before into the
  address bar; a login leaves a socket behind that is still opening, and which then shows
  as the connection; without a stored token Back and Forward name a chat that nothing
  connects; a 401 to a request made with an earlier token ends the login of today (App.tsx).

## Proofs

All are checked by TLAPS for every value of the constants, from the assumptions
named in the modules: bounds are naturals, a chunk has a line at least, `First` is a shard, there is a user, the
sockets are finite in number, the session quota is positive, no worker or process is
called "none", no request "nobody" and no version file "index", and the Python tool may be called and start an
interpreter at least once. No theorem has a hypothesis of its own; what is excused is
a history variable of the property. Where the invariant of a module contains its types, they are a
theorem too (`TypeCorrect`, `ArchiveTypeCorrect`, `UsageTypeCorrect`).

* `AgentLoop_proofs`. `TypeCorrect` (types), `WaiterCovered` (`NoLostWaiter`: whoever
  waits for the agent has a driver or a flush that will wake it, on which
  `DisposalCompletes` rests), `TurnsOnce` (`TurnsNumberedOnce`). `NoLostWaiter` is inductive with
  types: a disposal waits only if a driver runs, a driver that ends adds a flush,
  and a flush that settles resolves the waiter. `TurnsNumberedOnce` is not: a resume
  takes its counter from the log on disk, so the invariant says of *every* saved log
  (the one in memory, on disk, and in every flush under way) that its turns are
  ordered and that the counter is at least the last of them; `LastTurn` then needs
  the least and greatest elements of finite sets of numbers, which are shown first.
  The properties of the log rest on `DriverSteps`, which says once, for all steps of a
  driver, what each appends, claims and flushes:
  `SettledDurably` (`SettledIsDurable`) on `DurableInv` and `InboxInv`: whatever is on the
  disk or on its way there is a prefix of the log, and when no driver runs the whole log is
  on the disk, in a flush under way, or a flush has failed; an inbox that no driver empties
  holds what a resume found on the disk or what was injected;
  `StepsAlwaysBracketed` (`StepsBracketed`) on `BracketInv`: every saved log is bracketed
  too (a resume takes it up), and the last event of the log in memory fits what the
  driver is about to do;
  `CancelQuiets` (`CancelledTurnIsQuiet`) and `CompletedTookItsInput`
  (`CompletedTurnTookItsInput`) from the steps of the driver and `ClaimInv`: only a step
  that is being prepared holds claimed messages, so none is held when a turn ends;
  `NoMessageSilentlyLost` (`NothingSilentlyLost`), step by step;
  `MessagesOnce` (`MessageOnce`) on `OrderInv`: the log, what is claimed and the queues,
  one after the other, are in the order in which the messages were sent, and so is every
  saved log with what is newer than it.
* `RuntimeHub_proofs`. `OwnedAgent` (`OneOwnedAgent`), `TypeCorrect`, `ViewsAreWhole`
  (`ViewIsLog`) and `FramesInOrder` (`FramesTaken`). `ViewIsLog` is inductive once it is said connection by
  connection (`SeesLog`) with the types; the work is in the steps that hand one event
  to several viewers, where what one connection has been sent must be shown not to
  depend on the order in which the others were served.
  `FramesInOrder` rests on `FrameInv`: every log, in memory, on the disk, in each
  flush and with each driver that outlived its agent, has the frames of a connection in order and none that the connection still holds
  back; a connection that waits for its session holds all that it sent, and a live one
  without an error has been told of all of it.
* `GatewayRuntime_proofs`, the archive. `NothingIsLost` (`NothingLost`),
  `OpeningRestores` (`NextOpenRestores`) and `StampsMeanCopies`, each until `spoilt` (see
  Finding), and `ArchiveTypeCorrect` without an exception. Neither of the first two is
  inductive: what is safe depends on what the
  sweep, the restore and every request are about to do. `Inv` says that a file which the
  disk has not as the user left it is whole in S3 and has the mark, or at least no stamp
  that a pass could take for a deletion (`KeptSomewhere`); that the pass, the restore and
  the deletions under way do not have it in their hands, or are bringing it back
  (`SweepSpares`, `RestoreSpares`, `ClearSpares`); that a stamp which agrees with the disk
  means that the copy is this very content and that nobody is about to delete it
  (`StampsTrue`); that a pass over an old directory is alone and is right about what is
  archived (`OldSweep`); and that while a tree is removed all of it is in S3
  (`Evicting`). `StampsTrue` rests on `NewMtimeIsNew`: a file that is put in its place
  differs from every mtime remembered; `StampsMeanCopies` states the part of it that lets a
  pass skip a file. `ClearLeavesNoCopy` (`ClearErases`) has no
  exception: no pass is under way past `await sweeping`, and what the deletion is through
  with has left S3 (`ClearInv`).
* `GatewayRuntime_proofs`, the supervisor. `TypeCorrect`, `StoppedStaysDown`
  (`StoppedMeansDown`) and `AnswerIsUp` (`TargetIsUp`). The strengthening: before the
  first runtime has answered, no other exists (so none is launched after it was stopped);
  the promise the next caller will read is settled by no earlier probe loop; and
  while the gateway is not stopping, a fulfilled promise that someone still has
  to act on means that the child listens.
* `GatewayRuntime_proofs`, the usage records. `ReadRecordsAreCounted` (`ReadIsCounted`),
  `RecordsDiffer` and `UsageTypeCorrect`, on `UsageInv`. What an ingest finds in a file
  must still be there when its offset is saved: only the last line can lack its newline
  (`OnlyLastTorn`, `HalfIsTorn`), a line that has one never changes, and a file that is
  old when the ingest begins is written to no more (`OldQuiet`), so the size it took is
  the size when it removes the file. The offset an ingest has come to is then never
  beyond an uncounted line (`IngestTrue`), nor is the saved one (`OffsetTrue`), and of a
  removed file everything is counted (`RemovedCounted`). A line is not inserted when
  another has its turn and step; that it is counted nevertheless is `KeysUnique`: two
  different records with one turn and step have a turn that a kill took from the log,
  because every other record is of a turn and step that the runtime has come to
  (`NumbersKnown`). Which line of a chunk is inserted for a key is the least one with
  that key, so no induction over the lines is needed. A failure leaves the saved offset
  where it was, and a line read a second time finds its row by the key.
* `Access_proofs`. `RevocationWorks` (`ChangeRevokes`), `AdministratorRemains`
  (`AdminRemains`) and `QuotaKept` (`QuotaOvershoot`). For the first, `Revocation`
  follows the logins that did not overlap a change through the two calls of
  `storeToken()` and the three of `revokeUserTokens()`: the token of a login that is
  done is in the index, it is the account as it is now unless a change is still to
  delete it or failed to, the change's list holds every such token, and after
  its deletions none is left. Without the part on the list, a token could be missed
  by a change that has read the index already. For the second, `Orderly` says, as
  long as nothing is `disturbed`, that there is one change at a time, that whoever
  asked for it is still an administrator with a token that says so, and that when a
  role is about to be taken somebody else has it. For the third, `Roomy` bounds the
  live sessions at a socket's count by its room, which grows with every upgrade
  that is counted after its check; this takes cardinalities of sets of sockets.
* `CanvasHistory_proofs`. `UpdatesAreKept` (`NoUpdateLost`). The invariant `IndexInv`:
  at most one request is between its read and its write, and what it holds is its own
  change of the index *as it is now*, pruned once it is past `Bounds`, unless its read
  failed or a clearing came in between (`cut`).
  `NamedFilesAreThere` (`NamedIsThere`) rests on it (one request between its read and its
  write) and on `ThereInv`: what is `There` is whole on the disk or `exposed`; what the
  index names is there or being deleted by a request that has yet to come to the index
  (`BeingDeleted`); so is what the index that a request is about to write names, unless a
  clearing has it in hand (`Known`, `Cleared`); a request that waits for its turn has
  its own file in place; and no file that is about to be pruned is named.
* `StudioPool_proofs`. `AnswersAreOwn` (`AnswerIsOwn`). The property is not inductive:
  an answer is one's own because of what lies in pipes. The invariant says that a worker
  is asked one question at a time (`One`), that a live process is its worker's (`Kept`),
  and that a question that met nothing older has a process whose pipes hold that question
  or its answer or nothing, while no other process of its worker has anything to tell
  (`Apart`); one that is being asked has a worker of the pool until the pool stops
  (`Pooled`). One step may stop a process or take its line or exit, end the question and
  hand the worker to the next one, so the invariant is shown to be kept by each of these
  parts (`StoppedKeeps`, `LineKeeps`, `ExitKeeps`, `EndedKeeps`, `AsksKeeps`), and by an
  action as their composition. `WorkersTakeOne` is what it says of a worker at any moment.
  `ServedInOrder` is the refinement of `ServiceQueue`: nobody waits beside a worker that is
  idle or could still be made, and the queue has exactly those that wait, each once
  (`Queued`), so every step is one of the queue's, or none (`QueueStep`).
* `PythonKernel_proofs`. `OutputsAreOwn` (`OutputIsOwn`) and `NoteStaysTrue`
  (`NoteIsTrue`). `Inv` says that a cell has its turn once (`Ordered`), that an interpreter
  that lives is the kernel's (`Kept`, `Held`), and that a cell that waits and met nothing
  older has an interpreter with its code, its line or nothing more, while no other has
  anything to say (`Apart`). `Noted` adds where the variables are: in the note, or in the
  line on its way to the cell that waits. It needs `Apart`: a foreign line or exit would
  end that cell and leave the note behind what the interpreter then does.
  `OneInterpreterLives` is a part of `Inv`; `CodeRunsOnce` follows from `Ordered`: only a
  cell whose turn has come is written to an interpreter, and it has not been before.
  `CellsInOrder` is the refinement of `ServiceQueue`, from the same part.
* `ChatClient_proofs`. `FirstMessageArrives` (`FirstMessageInItsChat`, with its exception
  `adrift`) and `ConnectedToWhatIsShown` (`ShownIsConnected`, with `misled`). The invariant
  `FirstInv`: a first message that waits is for the newest attempt unless a connection was
  made past its chat, and none that was sent still
  waits. The second rests on `TabInv`: the socket in use is the newest attempt's
  (`Numbered`), and that attempt, until its socket is open, is for the chat that the
  address bar names, if it names one (`NewestForAddress`).

Only model-checked: the ten liveness properties (`WaitingIsTaken`, `DisposalCompletes`,
`Answered`, `CallAnswered`, `SettledIsArchived`, `RemovedLeavesS3`, `EventuallyCounted`,
`EveryQuestionEnds`, `EveryCellEnds`, `ConnectingEnds`), which are out of the prover's
reach. Every invariant and every action property that a passing run checks is a theorem.

## Not modelled

The models stand for the code in which the order of events decides. That is a small
part of the repository by lines: most of the rest is presentation (`app/`),
request-response routes and queries over one database, prompts, translation between wire
formats, SQL generation in Python, and scripts. No interleaving of these is their own,
and a model of them would repeat the code. What is left that has state of its own:

* `session-archive.ts`: the sweep of `WorkspaceArchive` over append-only logs, without a
  mark and without deletion of single files; its one race of its own is listed in the
  hazards.
* `proxy.ts`: the frames that are held until the runtime's socket opens, and its limit.
* `storage.ts`, `bucket-usage.ts`: counters that are measured again at intervals.
* Registration, renewal of a token's time, the per-address limit of the login and the
  per-user quota (`Access`); the retention of usage rows and the extra records of other
  models (`Usage`); the requests of a cell to its host and the choice of the conversation
  to evict (`PythonKernel`).
* `runMaintenance()` and the retry of a failed request by a listener (`AgentLoop`); the
  token budget and the edit guard, which compute from the log what `Reject` and the
  steering at the end of a turn stand for.

The harness (`dsh`), Redis, MariaDB, S3 and the child processes are not part of the
repository and are modelled from their use.
