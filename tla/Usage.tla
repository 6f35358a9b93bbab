------------------------------- MODULE Usage --------------------------------
(***************************************************************************)
(* What a chat used, from the runtime that writes it down                  *)
(* (agent-core/src/transport/usage-recorder.ts) to the gateway that loads  *)
(* it into the database (gateway/src/runtime/usage.ts).                    *)
(*                                                                         *)
(* One session of one shard.  A record is one line of the day's file; the  *)
(* gateway reads the lines beyond an offset it keeps in the database.  A   *)
(* row is unique by turn and step, so that a line read twice adds nothing. *)
(* Sizes are counted in half lines: a line whose newline is not written    *)
(* yet is one.                                                             *)
(***************************************************************************)
EXTENDS Naturals, Sequences, FiniteSetsExt, SequencesExt

CONSTANTS
  LastDay,    \* the days are 0 .. LastDay (bound)
  MaxTurns,   \* turn numbers (bound)
  MaxSteps,   \* model calls of one turn (bound)
  MaxRecords, \* records that get to the queue (bound)
  MaxKills,   \* kills of the runtime (bound)
  MaxFailures, \* ingests that throw or die with the gateway (bound)
  ChunkLines  \* lines in one READ_CHUNK

ASSUME UsageAssumption == /\ LastDay \in Nat /\ MaxTurns \in Nat /\ MaxSteps \in Nat /\ MaxRecords \in Nat
                          /\ MaxKills \in Nat /\ MaxFailures \in Nat
                          /\ ChunkLines \in Nat \ {0}

VARIABLES
  today,
  logged,     \* the last turn the session's log has on the disk
  turn,       \* the last turn: its number, whether its TurnState exists, and so on
  life,       \* which process the runtime is
  queue,      \* records on their way to the disk, and whether the first is half written
  file,       \* the lines of each day's file: the records in one, and whether it has its newline
  removed,    \* the days whose file was deleted
  offset,     \* discovery_usage_ingest
  rows,       \* the records in the tables
  ingest,     \* the gateway's ingest under way
  faults,
  reused      \* history: turns a kill took from the log after they were recorded

usageVars == <<today, logged, turn, life, queue, file, removed, offset, rows, ingest, faults, reused>>

Days == 0 .. LastDay
\* A model call, or a turn (step 0), as one process recorded it.
Records == [turn : 1 .. MaxTurns, step : 0 .. MaxSteps, life : 0 .. MaxKills]

NoTurn(n) == [n |-> n, open |-> FALSE, start |-> 0, steps |-> 0]
\* The ingest at a file of which it knows nothing yet but whether it is old.
AtFile(at, day, old) == [at |-> at, day |-> day, size |-> 0, end |-> 0, off |-> 0, old |-> old]
NoIngest == AtFile("idle", 0, {})

UsageInit ==
  /\ today = 0 /\ logged = 0 /\ turn = NoTurn(0) /\ life = 0
  /\ queue = [todo |-> <<>>, half |-> FALSE]
  /\ file = [d \in Days |-> <<>>]
  /\ removed = {} /\ offset = [d \in Days |-> 0] /\ rows = {}
  /\ ingest = NoIngest /\ faults = 0 /\ reused = {}

gateway == <<removed, offset, rows, ingest, faults>>

Torn(d) == file[d] # <<>> /\ ~Last(file[d]).whole
Size(d) == 2 * Len(file[d]) - (IF Torn(d) THEN 1 ELSE 0)
\* JSON.parse accepts the line: it is one record, to its newline, and not what is left of two.
Readable(line) == line.whole /\ \E r \in Records : line.has = {r}

-----------------------------------------------------------------------------
(* The runtime: UsageRecorder.observe(), one action per event.               *)

\* write(): the queue is a chain of promises, one record long here at most (bound).
Write(step, day) ==
  /\ queue.todo = <<>>
  /\ MapThenSumSet(LAMBDA d : Len(file[d]), Days) < MaxRecords
  /\ queue' = [queue EXCEPT !.todo = Append(@, [day |-> day,
                                             rec |-> [turn |-> turn.n, step |-> step, life |-> life]])]

TurnStarts ==
  /\ ~turn.open /\ turn.n < MaxTurns
  /\ turn' = [n |-> turn.n + 1, open |-> TRUE, start |-> today, steps |-> 0]
  /\ UNCHANGED <<today, logged, life, queue, file, reused, gateway>>

\* assistant/message: filed under the day on which its step began.
StepAnswered ==
  /\ turn.open /\ turn.steps < MaxSteps
  /\ \E day \in turn.start .. today : Write(turn.steps + 1, day)
  /\ turn' = [turn EXCEPT !.steps = @ + 1]
  /\ UNCHANGED <<today, logged, life, file, reused, gateway>>

TurnEnds ==
  /\ turn.open
  /\ Write(0, turn.start)
  /\ turn' = NoTurn(turn.n)
  /\ UNCHANGED <<today, logged, life, file, reused, gateway>>

\* The session's own log is written later than the records, by a checkpoint or at the end of a driver.
LogFlushed ==
  /\ logged # turn.n
  /\ logged' = turn.n
  /\ UNCHANGED <<today, turn, life, queue, file, reused, gateway>>

\* appendFile() of the first record in the queue: it comes to stand after whatever the file ends with.
AppendBegins ==
  LET d == Head(queue.todo).day
      r == Head(queue.todo).rec
  IN
  /\ queue.todo # <<>> /\ ~queue.half
  /\ queue' = [queue EXCEPT !.half = TRUE]
  /\ file' = IF Torn(d) THEN [file EXCEPT ![d][Len(file[d])].has = @ \union {r}]
             ELSE [file EXCEPT ![d] = Append(@, [has |-> {r}, whole |-> FALSE])]
  /\ UNCHANGED <<today, logged, turn, life, reused, gateway>>

AppendEnds ==
  LET d == Head(queue.todo).day IN
  /\ queue.half
  /\ queue' = [todo |-> Tail(queue.todo), half |-> FALSE]
  /\ file' = [file EXCEPT ![d][Len(file[d])].whole = TRUE]
  /\ UNCHANGED <<today, logged, turn, life, reused, gateway>>

\* The runtime is killed: the queue and the turn are gone, and the next process numbers its
\* turns after the log it finds.
Kill ==
  /\ life < MaxKills
  /\ life' = life + 1
  /\ queue' = [todo |-> <<>>, half |-> FALSE]
  /\ turn' = NoTurn(logged)
  /\ reused' = reused \union (logged + 1) .. turn.n
  /\ UNCHANGED <<today, logged, file, gateway>>

Midnight ==
  /\ today < LastDay
  /\ today' = today + 1
  /\ UNCHANGED <<logged, turn, life, queue, file, reused, gateway>>

-----------------------------------------------------------------------------
(* The gateway: ingestUsage(), file by file.                                 *)

runtime == <<today, logged, turn, life, queue, file, reused>>

\* Nothing is written to the file of a day that is a week ago: no turn lasts that long.
WeekOld(d) ==
  /\ d < today
  /\ ~(turn.open /\ turn.start <= d)
  /\ \A i \in DOMAIN queue.todo : queue.todo[i].day # d

NextFile(sw) == IF sw.day = LastDay THEN NoIngest ELSE AtFile("stat", sw.day + 1, sw.old)
\* The last step for a file: is it to be removed?
Aged(sw) == IF sw.day \in sw.old THEN AtFile("age", sw.day, sw.old) ELSE NextFile(sw)

\* The clock is read once for all files; so are the saved offsets, which only the ingest writes.
IngestBegins ==
  /\ ingest.at = "idle"
  /\ \E d \in Days : file[d] # <<>> /\ d \notin removed
  /\ ingest' = AtFile("stat", 0, {d \in Days : WeekOld(d)})
  /\ UNCHANGED <<runtime, removed, offset, rows, faults>>

IngestStats ==
  LET d == ingest.day IN
  /\ ingest.at = "stat"
  /\ ingest' = IF d \in removed \/ file[d] = <<>> THEN NextFile(ingest)
              ELSE IF Size(d) > offset[d]
                   THEN [ingest EXCEPT !.at = "open", !.size = Size(d), !.off = offset[d]]
                   ELSE Aged(ingest)
  /\ UNCHANGED <<runtime, removed, offset, rows, faults>>

\* ingestFile() takes the size again and reads up to that.
IngestOpens ==
  /\ ingest.at = "open"
  /\ ingest' = [ingest EXCEPT !.at = "read", !.end = Size(ingest.day)]
  /\ UNCHANGED <<runtime, removed, offset, rows, faults>>

\* Mutant: the whole of what was read counts as done, a line without its newline included.
ChunkEndAll(d, from, end) == IF from + 2 * ChunkLines < end THEN from + 2 * ChunkLines ELSE end

\* Mutant: a chunk that ends inside a line is left for the next ingest.
ChunkEndNone(d, from, end) ==
  LET to == ChunkEndAll(d, from, end) IN IF to % 2 = 1 THEN from ELSE to

\* Up to the last newline of the chunk (offsets are even, a torn line is the odd end).
ChunkEnd(d, from, end) ==
  LET to == IF from + 2 * ChunkLines < end THEN from + 2 * ChunkLines ELSE end
  IN to - (to % 2)

\* The lines between two offsets that hold a record: what does not parse is logged and skipped.
ReadLines(d, from, to) == {i \in (from + 1) \div 2 + 1 .. to \div 2 : Readable(file[d][i])}
RecordOf(d, i) == CHOOSE r \in Records : file[d][i].has = {r}
SameKey(q, r) == q.turn = r.turn /\ q.step = r.step

\* `insert ignore`: none is added for a record whose turn and step have a row, or an earlier line.
Insert(d, lines) ==
  LET Ignored(i) == \/ \E q \in rows : SameKey(q, RecordOf(d, i))
                    \/ \E j \in lines : j < i /\ SameKey(RecordOf(d, j), RecordOf(d, i))
  IN rows \union {RecordOf(d, i) : i \in {j \in lines : ~Ignored(j)}}

\* One chunk, or the end of the loop when there is no complete line left.
IngestInserts ==
  LET to == ChunkEnd(ingest.day, ingest.off, ingest.end) IN
  /\ ingest.at = "read"
  /\ IF ingest.off < ingest.end /\ to > ingest.off
     THEN /\ rows' = Insert(ingest.day, ReadLines(ingest.day, ingest.off, to))
          /\ ingest' = [ingest EXCEPT !.off = to]
     ELSE /\ ingest' = [ingest EXCEPT !.at = "save"]
          /\ UNCHANGED rows
  /\ UNCHANGED <<runtime, removed, offset, faults>>

\* if (offset < size) continue
FullyRead(sw) == sw.off >= sw.size

IngestSaves ==
  /\ ingest.at = "save"
  /\ offset' = [offset EXCEPT ![ingest.day] = ingest.off]
  /\ ingest' = IF FullyRead(ingest) THEN Aged(ingest) ELSE NextFile(ingest)
  /\ UNCHANGED <<runtime, removed, rows, faults>>

IngestRemoves ==
  LET d == ingest.day IN
  /\ ingest.at = "age"
  /\ removed' = removed \union {d}
  /\ ingest' = [ingest EXCEPT !.at = "forget"]
  /\ UNCHANGED <<runtime, offset, rows, faults>>

IngestForgets ==
  /\ ingest.at = "forget"
  /\ offset' = [offset EXCEPT ![ingest.day] = 0]
  /\ ingest' = NextFile(ingest)
  /\ UNCHANGED <<runtime, removed, rows, faults>>

\* A query throws, or the gateway dies; of a chunk the model calls may already be in (their
\* table comes first).
IngestFails ==
  /\ ingest.at # "idle" /\ faults < MaxFailures
  /\ faults' = faults + 1
  /\ ingest' = NoIngest
  /\ \/ UNCHANGED rows
     \/ LET to == ChunkEnd(ingest.day, ingest.off, ingest.end) IN
        /\ ingest.at = "read" /\ to > ingest.off
        /\ rows' = Insert(ingest.day, {i \in ReadLines(ingest.day, ingest.off, to) :
                                        RecordOf(ingest.day, i).step > 0})
  /\ UNCHANGED <<runtime, removed, offset>>

IngestSteps == IngestStats \/ IngestOpens \/ IngestInserts \/ IngestSaves \/ IngestRemoves \/ IngestForgets

UsageNext ==
  \/ TurnStarts \/ StepAnswered \/ TurnEnds \/ LogFlushed
  \/ AppendBegins \/ AppendEnds \/ Kill \/ Midnight
  \/ IngestBegins \/ IngestSteps \/ IngestFails

UsageSpec == UsageInit /\ [][UsageNext]_usageVars
\* The interval starts an ingest again and again, and its awaits settle.
UsageFairSpec == UsageSpec /\ WF_usageVars(IngestBegins) /\ WF_usageVars(IngestSteps)

-----------------------------------------------------------------------------
(* Properties.                                                              *)

Lines(d) == {i \in DOMAIN file[d] : Readable(file[d][i])}
\* The record's turn was taken from the log by a kill and its number given to another turn.
Shadowed(r) == r.turn \in reused
Counted(r) == r \in rows \/ Shadowed(r)

\* What the gateway will not read again is counted: the offset never passes, and a file is never
\* removed with, a readable record that has no row (usage.ts:7-8), whatever is killed, torn or
\* thrown in between.  The one exception is a turn whose number is used again.
ReadIsCounted ==
  \A d \in Days : \A i \in Lines(d) :
    (d \in removed \/ 2 * i <= offset[d]) => \A r \in file[d][i].has : Counted(r)

\* Again and again everything on the disk is counted: an ingest comes after one that failed, and a
\* line that is torn or spoilt does not keep the lines around it from being read.
EventuallyCounted ==
  []<>(\A d \in Days \ removed : \A i \in Lines(d) : \A r \in file[d][i].has : Counted(r))
=============================================================================
