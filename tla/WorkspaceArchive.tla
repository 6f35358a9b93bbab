--------------------------- MODULE WorkspaceArchive ---------------------------
(***************************************************************************)
(* The files of one working directory on the disk and their copies in S3   *)
(* (api/services/gateway/src/runtime/workspace-archive.ts, the purge in    *)
(* sessions.ts, the routes of index.ts that open the directory).           *)
(*                                                                         *)
(* The sweep uploads what changed, deletes in S3 what left the disk, and   *)
(* evicts a directory that is old and wholly archived; a restore brings    *)
(* it back.  Redis says of each file which state of it S3 has (its stamp)  *)
(* and of the directory whether it was evicted.  Every await on the disk,  *)
(* on S3 or on Redis is a boundary between actions, and each can be the    *)
(* last one before the gateway dies.                                       *)
(*                                                                         *)
(* Contents are the numbers of the writes that made them, 0 for no file.   *)
(* The mtime of a file, which is its stamp (floor(mtimeMs):size in the     *)
(* code), is a number that nobody remembers when the file is put in place: *)
(* stamps are only compared.                                               *)
(***************************************************************************)
EXTENDS Naturals, TLC

CONSTANTS
  FILES,        \* the paths of the directory
  Users,        \* connections and requests at work on it at a time
  TooLarge,     \* contents above WORKSPACE_ARCHIVE_MAX_FILE_BYTES
  MaxOps, MaxWrites, MaxFaults   \* bounds: operations, writes, failures of any kind

ASSUME ArchiveAssumption ==
  /\ TooLarge \subseteq Nat
  /\ {MaxOps, MaxWrites, MaxFaults} \subseteq Nat

VARIABLES
  disk,         \* per file, the content and the mtime
  exists,       \* the directory is on the disk
  s3,           \* per file, the content of its object
  stamps,       \* Redis: per file, the mtime of the copy
  evicted,      \* Redis: the mark of the directory
  row,          \* the chat's row in the database
  sweep,        \* the pass under way (sweeping)
  restore,      \* the restore under way (restoring)
  op,           \* what each user is doing
  live,         \* a chat of the directory is open: its agent can write
  fresh,        \* files modified less than SETTLE_MS before the pass, or since
  wanted,       \* per file, the content the user has and has not removed
  spoilt,       \* what no property promises anything after has happened, see Meets
  spent         \* operations, writes, failures and losses of Redis so far

vars == <<disk, exists, s3, stamps, evicted, row, sweep, restore, op, live,
          fresh, wanted, spoilt, spent>>
local == <<disk, exists, fresh, wanted, spoilt>>
remote == <<s3, stamps, evicted>>
users == <<op, live, row>>

Bound == [ops |-> MaxOps, writes |-> MaxWrites, faults |-> MaxFaults, losses |-> MaxFaults]

None == [f \in FILES |-> 0]
NoFile == [content |-> 0, mtime |-> 0]

\* known: the stamps it read; seen: the mtimes it listed; todo and gone: what is
\* left to upload and to delete; at: the file under way; ok: allArchived.
NoSweep == [pc |-> "idle", old |-> FALSE, known |-> None, seen |-> None, todo |-> {},
            gone |-> {}, at |-> {}, body |-> 0, ok |-> TRUE]
NoRestore == [pc |-> "idle", marked |-> FALSE, keys |-> {}, at |-> {}, body |-> 0]
NoOp == [kind |-> "open", pc |-> "idle", marked |-> FALSE, files |-> {}, known |-> {},
         at |-> {}]

Kinds == {"open", "rest", "delete", "clear", "purge"}

-----------------------------------------------------------------------------
(* Helpers.                                                                 *)

OnDisk == {f \in FILES : disk[f].content # 0}
Copied == {f \in FILES : s3[f] # 0}                 \* listArchiveKeys()
Stamped == {f \in FILES : stamps[f] # 0}            \* workspaceStamps()

Spend(what) ==
  /\ spent[what] < Bound[what]
  /\ what \in {"faults", "losses"} => spent.faults + spent.losses < MaxFaults
  /\ spent' = [spent EXCEPT ![what] = @ + 1]

\* filesOf(): a readdir or an lstat that fails hides files that are there.
Lists(files) == IF files = OnDisk THEN UNCHANGED spent ELSE Spend("faults")

\* paused > 0: a deleteFiles() is under way.
Paused == \E u \in Users : op[u].kind = "clear" /\ op[u].pc # "idle"

\* A purge has begun, and is not over.
Purging == \E u \in Users : op[u].kind = "purge" /\ op[u].pc # "idle"

\* The directory is old and being swept, or being restored.
Moving == sweep.old \/ restore.pc # "idle"

\* Remembers that one of these has happened: a request came while the directory, being old,
\* was swept; a file was written or removed by its user while it was swept so, or restored;
\* a listing missed a file.
Meets(what) == spoilt' = (spoilt \/ what)

\* A file comes to its place, written or restored: its mtime is new.
NewMtime(f) ==
  CHOOSE n \in 1 .. 5 :
    n \notin {disk[f].mtime, stamps[f], sweep.known[f], sweep.seen[f]}

Place(f, content) ==
  /\ disk' = [disk EXCEPT ![f] = [content |-> content, mtime |-> NewMtime(f)]]
  /\ fresh' = fresh \union {f}

\* What is written to a chat that is being deleted is to go with it.
WriteTo(f) ==
  /\ Spend("writes")
  /\ Place(f, spent.writes + 1)
  /\ exists' = TRUE
  /\ wanted' = IF Purging THEN wanted ELSE [wanted EXCEPT ![f] = spent.writes + 1]

Unlink(f) == /\ disk' = [disk EXCEPT ![f] = NoFile]
             /\ fresh' = fresh \ {f}

RemoveFrom(f) ==
  /\ f \in OnDisk
  /\ Unlink(f)
  /\ wanted' = [wanted EXCEPT ![f] = 0]

Init ==
  /\ disk = [f \in FILES |-> NoFile]
  /\ exists = TRUE /\ row = TRUE
  /\ s3 = None /\ stamps = None /\ evicted = FALSE
  /\ sweep = NoSweep /\ restore = NoRestore
  /\ op = [u \in Users |-> NoOp]
  /\ live = TRUE
  /\ fresh = {} /\ wanted = None /\ spoilt = FALSE
  /\ spent = [k \in DOMAIN Bound |-> 0]

-----------------------------------------------------------------------------
(* The sweep.  Ages are compared with the time at which the pass began, so  *)
(* only the beginning of a pass lets files settle or the directory be old.  *)

\* No operation lasts for the retention time, but a chat may be open all the while.
SweepBegins ==
  /\ sweep.pc = "idle" /\ ~Paused
  /\ row /\ exists
  /\ \E old \in BOOLEAN :
       /\ old => \A u \in Users : op[u].pc = "idle"
       /\ sweep' = [NoSweep EXCEPT !.pc = "mark", !.old = old]
  /\ fresh' \in SUBSET fresh
  /\ UNCHANGED <<remote, users, disk, exists, restore, wanted, spoilt, spent>>

SweepReadsMark ==
  /\ sweep.pc = "mark"
  /\ sweep' = IF evicted THEN NoSweep ELSE [sweep EXCEPT !.pc = "known"]
  /\ UNCHANGED <<local, remote, users, restore, spent>>

SweepReadsStamps ==
  /\ sweep.pc = "known"
  /\ sweep' = [sweep EXCEPT !.pc = "list", !.known = stamps]
  /\ UNCHANGED <<local, remote, users, restore, spent>>

\* Mutant: a file that has a stamp is taken for archived, whatever its mtime.
ChangedIfUnknown(files) == {f \in files : sweep.known[f] = 0}

\* Mutant: a directory with no file left in it is passed over.
GoneUnlessEmpty(files) == IF files = {} THEN {} ELSE {f \in FILES \ files : sweep.known[f] # 0}

\* What the listing has that S3 does not, and what S3 has that the listing has not.
Changed(files) == {f \in files : sweep.known[f] # disk[f].mtime}
Gone(files) == {f \in FILES \ files : sweep.known[f] # 0}

SweepListed(files) ==
  LET todo == {f \in Changed(files) \ fresh : disk[f].content \notin TooLarge}
  IN  [sweep EXCEPT !.pc = "file", !.known = None,
         !.seen = [f \in FILES |-> IF f \in todo THEN disk[f].mtime ELSE 0],
         !.old = @ /\ files # {} /\ files \intersect fresh = {},
         !.todo = todo, !.gone = Gone(files), !.ok = (Changed(files) = todo)]

SweepLists ==
  /\ sweep.pc = "list"
  /\ \E files \in SUBSET OnDisk :
       /\ Lists(files)
       /\ Meets(files # OnDisk)
       /\ sweep' = SweepListed(files)
  /\ UNCHANGED <<disk, exists, fresh, wanted, remote, users, restore>>

\* A file that has left the disk since the listing is passed over.
SweepReads(f) ==
  /\ sweep.pc = "file" /\ f \in sweep.todo
  /\ sweep' = IF f \in OnDisk
              THEN [sweep EXCEPT !.pc = "put", !.todo = @ \ {f}, !.at = {f},
                                 !.body = disk[f].content]
              ELSE [sweep EXCEPT !.todo = @ \ {f}]
  /\ UNCHANGED <<local, remote, users, restore, spent>>

SweepPuts(f) ==
  /\ sweep.pc = "put" /\ f \in sweep.at
  /\ s3' = [s3 EXCEPT ![f] = sweep.body]
  /\ sweep' = [sweep EXCEPT !.pc = "stamp", !.body = 0]
  /\ UNCHANGED <<local, users, stamps, evicted, restore, spent>>

\* The stamp of an upload: the mtime in the listing.
Stamp(f) == sweep.seen[f]

SweepStamps(f) ==
  /\ sweep.pc = "stamp" /\ f \in sweep.at
  /\ stamps' = [stamps EXCEPT ![f] = Stamp(f)]
  /\ sweep' = [sweep EXCEPT !.pc = "file", !.at = {}, !.seen[f] = 0]
  /\ UNCHANGED <<local, users, s3, evicted, restore, spent>>

\* Mutant: a failed upload does not hold the eviction back.
FailedUploadIgnored == [sweep EXCEPT !.pc = "file", !.at = {}, !.body = 0]

FailedUpload == [sweep EXCEPT !.pc = "file", !.at = {}, !.body = 0, !.ok = FALSE]

SweepUploadFails ==
  /\ sweep.pc \in {"put", "stamp"}
  /\ sweep' = FailedUpload
  /\ Spend("faults")
  /\ UNCHANGED <<local, remote, users, restore>>

SweepDeletes(f) ==
  /\ sweep.pc = "file" /\ sweep.todo = {} /\ f \in sweep.gone
  /\ s3' = [s3 EXCEPT ![f] = 0]
  /\ sweep' = [sweep EXCEPT !.pc = "forget", !.gone = @ \ {f}, !.at = {f}]
  /\ UNCHANGED <<local, users, stamps, evicted, restore, spent>>

SweepForgets(f) ==
  /\ sweep.pc = "forget" /\ f \in sweep.at
  /\ stamps' = [stamps EXCEPT ![f] = 0]
  /\ sweep' = [sweep EXCEPT !.pc = "file", !.at = {}]
  /\ UNCHANGED <<local, users, s3, evicted, restore, spent>>

\* The object or its stamp cannot be deleted: the eviction is not held back.
SweepDeleteFails(f) ==
  /\ \/ sweep.pc = "file" /\ sweep.todo = {} /\ f \in sweep.gone
     \/ sweep.pc = "forget" /\ f \in sweep.at
  /\ sweep' = [sweep EXCEPT !.pc = "file", !.gone = @ \ {f}, !.at = {}]
  /\ Spend("faults")
  /\ UNCHANGED <<local, remote, users, restore>>

SweepDone == sweep.pc = "file" /\ sweep.todo = {} /\ sweep.gone = {}

SweepEnds ==
  /\ SweepDone /\ ~(sweep.old /\ sweep.ok)
  /\ sweep' = NoSweep
  /\ UNCHANGED <<local, remote, users, restore, spent>>

\* Mutant: the mark is forgotten.
MarkForgotten == evicted

\* Marked before it is removed.
Mark == TRUE

SweepEvicts ==
  /\ SweepDone /\ sweep.old /\ sweep.ok
  /\ evicted' = Mark
  /\ sweep' = [sweep EXCEPT !.pc = "tree"]
  /\ UNCHANGED <<local, users, s3, stamps, restore, spent>>

SweepUnlinks(f) ==
  /\ sweep.pc = "tree" /\ f \in OnDisk
  /\ Unlink(f)
  /\ UNCHANGED <<remote, users, exists, sweep, restore, wanted, spoilt, spent>>

SweepRemovesDir ==
  /\ sweep.pc = "tree" /\ OnDisk = {}
  /\ exists' = FALSE
  /\ sweep' = NoSweep
  /\ UNCHANGED <<remote, users, disk, restore, fresh, wanted, spoilt, spent>>

\* A call outside the try blocks throws: the pass is over.
SweepThrows ==
  /\ sweep.pc \in {"mark", "known", "tree"} \/ SweepDone
  /\ sweep' = NoSweep
  /\ Spend("faults")
  /\ UNCHANGED <<local, remote, users, restore>>

-----------------------------------------------------------------------------
(* The restore: one at a time for a directory, joined by whoever needs it.  *)

Joined(marked) == IF restore.pc = "idle"
                  THEN [NoRestore EXCEPT !.pc = "list", !.marked = marked]
                  ELSE restore

RestoreLists ==
  /\ restore.pc = "list"
  /\ restore' = [restore EXCEPT !.pc = "file", !.keys = Copied]
  /\ exists' = TRUE
  /\ UNCHANGED <<remote, users, disk, sweep, fresh, wanted, spoilt, spent>>

\* A file that is on the disk is kept; one that is not, or whose lstat fails, is downloaded
\* beside its place.
RestoreGets(f) ==
  /\ restore.pc = "file" /\ f \in restore.keys
  /\ \/ /\ f \in OnDisk
        /\ restore' = [restore EXCEPT !.keys = @ \ {f}]
        /\ UNCHANGED <<spoilt, spent>>
     \/ /\ f \in Copied /\ exists
        /\ restore' = [restore EXCEPT !.pc = "rename", !.keys = @ \ {f}, !.at = {f},
                                      !.body = s3[f]]
        /\ Lists(OnDisk \ {f})
        /\ Meets(f \in OnDisk)
  /\ UNCHANGED <<disk, exists, fresh, wanted, remote, users, sweep>>

RestoreRenames(f) ==
  /\ restore.pc = "rename" /\ f \in restore.at /\ exists
  /\ Place(f, restore.body)
  /\ restore' = [restore EXCEPT !.pc = "stamp", !.body = 0]
  /\ UNCHANGED <<remote, users, exists, sweep, wanted, spoilt, spent>>

RestoreStamps(f) ==
  /\ restore.pc = "stamp" /\ f \in restore.at \intersect OnDisk
  /\ stamps' = [stamps EXCEPT ![f] = disk[f].mtime]
  /\ restore' = [restore EXCEPT !.pc = "file", !.at = {}]
  /\ UNCHANGED <<local, users, s3, evicted, sweep, spent>>

RestoreEnds ==
  /\ restore.pc = "file" /\ restore.keys = {}
  /\ evicted' = (evicted /\ ~restore.marked)
  /\ restore' = NoRestore
  /\ op' = [u \in Users |-> IF op[u].pc = "join" THEN [op[u] EXCEPT !.pc = "use"]
                                                  ELSE op[u]]
  /\ UNCHANGED <<local, s3, stamps, row, sweep, live, spent>>

\* The object, the directory or the renamed file has gone meanwhile.
RestoreCannot ==
  \/ restore.pc = "file" /\ \E f \in restore.keys \ OnDisk : f \notin Copied \/ ~exists
  \/ restore.pc = "rename" /\ ~exists
  \/ restore.pc = "stamp" /\ restore.at \intersect OnDisk = {}

\* The upgrade goes on without the files (index.ts catches), a request does not.
RestoreFails ==
  /\ restore.pc # "idle"
  /\ \/ RestoreCannot /\ UNCHANGED spent
     \/ Spend("faults")
  /\ restore' = NoRestore
  /\ op' = [u \in Users |->
              CASE op[u].pc # "join" -> op[u]
                [] op[u].pc = "join" /\ op[u].kind = "open" -> [op[u] EXCEPT !.pc = "use"]
                [] OTHER -> NoOp]
  /\ UNCHANGED <<local, remote, row, sweep, live>>

-----------------------------------------------------------------------------
(* Users: the upgrade of a chat's socket ("open"), the routes of its files  *)
(* ("rest", "delete"), deleteFiles() ("clear") and the purge.               *)

\* The order of a purge.
Then == [drop |-> "tree", tree |-> "prefix", prefix |-> "stamps", stamps |-> "row"]

FirstStep(kind) == CASE kind = "clear" -> "pause"
                     [] kind = "purge" -> Then.drop
                     [] OTHER -> "mark"

\* A purge first asks the runtime to let go of the chat, which it may fail to do.
Begins(u, kind) ==
  /\ op[u].pc = "idle" /\ row
  /\ op' = [op EXCEPT ![u] = [NoOp EXCEPT !.kind = kind, !.pc = FirstStep(kind)]]
  /\ IF kind = "purge" THEN live' \in {live, FALSE} /\ wanted' = None
                       ELSE UNCHANGED <<live, wanted>>
  /\ Meets(sweep.old)
  /\ Spend("ops")
  /\ UNCHANGED <<remote, disk, exists, row, sweep, restore, fresh>>

\* ensureWorkspaceLocal(); a DELETE asks for the mark first.
ReadsMark(u) ==
  /\ op[u].pc = "mark"
  /\ \/ /\ evicted /\ op[u].kind = "delete"
        /\ op' = [op EXCEPT ![u].pc = "known"]
        /\ UNCHANGED restore
     \/ /\ evicted /\ op[u].kind # "delete"
        /\ op' = [op EXCEPT ![u].pc = "join"]
        /\ restore' = Joined(TRUE)
     \/ /\ ~evicted
        /\ op' = [op EXCEPT ![u] = CASE @.kind = "open" -> [@ EXCEPT !.pc = "empty"]
                                     [] @.kind = "rest" -> [@ EXCEPT !.pc = "use"]
                                     [] OTHER -> [@ EXCEPT !.kind = "rest"]]
        /\ UNCHANGED restore
  /\ UNCHANGED <<local, remote, row, sweep, live, spent>>

\* checkEmpty
ListsEmpty(u) ==
  /\ op[u].pc = "empty"
  /\ \E files \in SUBSET OnDisk :
       /\ Lists(files)
       /\ op' = [op EXCEPT ![u].pc = IF files = {} THEN "join" ELSE "use"]
       /\ restore' = IF files = {} THEN Joined(FALSE) ELSE restore
  /\ UNCHANGED <<local, remote, row, sweep, live>>

Opens(u) ==
  /\ op[u].pc = "use" /\ op[u].kind = "open"
  /\ exists' = TRUE /\ live' = TRUE
  /\ op' = [op EXCEPT ![u] = NoOp]
  /\ UNCHANGED <<remote, disk, row, sweep, restore, fresh, wanted, spoilt, spent>>

\* A route lists or serves, uploads, or deletes on the disk.
Serves(u) ==
  /\ op[u].pc = "use" /\ op[u].kind = "rest"
  /\ \/ UNCHANGED <<local, spent>>
     \/ \E f \in FILES : WriteTo(f) /\ Meets(Moving)
     \/ \E f \in FILES : RemoveFrom(f) /\ Meets(Moving) /\ UNCHANGED <<exists, spent>>
  /\ op' = [op EXCEPT ![u] = NoOp]
  /\ UNCHANGED <<remote, row, sweep, restore, live>>

\* deleteEvictedFile()
PicksCopy(u) ==
  /\ op[u].pc = "known"
  /\ \/ op' = [op EXCEPT ![u] = NoOp]
     \/ \E f \in Stamped :
          /\ evicted
          /\ op' = [op EXCEPT ![u] = [@ EXCEPT !.pc = "object", !.at = {f}, !.marked = TRUE]]
  /\ UNCHANGED <<local, remote, row, sweep, restore, live, spent>>

DeletesObject(u, f) ==
  /\ op[u].pc = "object" /\ f \in op[u].at
  /\ s3' = [s3 EXCEPT ![f] = 0]
  /\ wanted' = IF op[u].marked THEN [wanted EXCEPT ![f] = 0] ELSE wanted
  /\ op' = [op EXCEPT ![u].pc = "forget"]
  /\ UNCHANGED <<disk, exists, stamps, evicted, row, sweep, restore, live, fresh, spoilt, spent>>

ForgetsStamp(u, f) ==
  /\ op[u].pc = "forget" /\ f \in op[u].at
  /\ stamps' = [stamps EXCEPT ![f] = 0]
  /\ op' = [op EXCEPT ![u] = IF @.kind = "clear" THEN [@ EXCEPT !.pc = "next", !.at = {}]
                                                 ELSE NoOp]
  /\ UNCHANGED <<local, s3, evicted, row, sweep, restore, live, spent>>

\* Mutant: deleteFiles() does not wait for the pass under way.
SweepingIgnored == TRUE

\* await sweeping
SweepSettled == sweep.pc = "idle"

ClearWaits(u) ==
  /\ op[u].pc = "pause" /\ SweepSettled
  /\ op' = [op EXCEPT ![u].pc = "usage"]
  /\ UNCHANGED <<local, remote, row, sweep, restore, live, spent>>

\* dirUsage() and the stamps, for the files that select picks; one that the listing misses
\* is as good as not picked.
ClearPicks(u) ==
  /\ op[u].pc = "usage"
  /\ \E select \in SUBSET FILES :
       LET files == select \intersect (IF evicted THEN Stamped ELSE OnDisk)
       IN  op' = [op EXCEPT ![u] = [@ EXCEPT !.pc = "next", !.marked = evicted,
                                      !.files = files, !.known = files \intersect Stamped]]
  /\ UNCHANGED <<local, remote, row, sweep, restore, live, spent>>

\* On the disk, unless the directory left it; then the copy, if Redis knew of one.
ClearDeletes(u, f) ==
  /\ op[u].pc = "next" /\ f \in op[u].files
  /\ \/ /\ ~op[u].marked /\ f \notin OnDisk
        /\ op' = [op EXCEPT ![u].files = @ \ {f}, ![u].known = @ \ {f}]
        /\ UNCHANGED <<disk, fresh, wanted>>
     \/ /\ IF op[u].marked THEN UNCHANGED <<disk, fresh, wanted>> ELSE RemoveFrom(f)
        /\ op' = IF f \in op[u].known
                 THEN [op EXCEPT ![u].files = @ \ {f}, ![u].pc = "object", ![u].at = {f}]
                 ELSE [op EXCEPT ![u].files = @ \ {f}]
  /\ UNCHANGED <<remote, exists, row, sweep, restore, live, spoilt, spent>>

ClearEnds(u) ==
  /\ op[u].pc = "next" /\ op[u].files = {}
  /\ op' = [op EXCEPT ![u] = NoOp]
  /\ UNCHANGED <<local, remote, row, sweep, restore, live, spent>>

PurgeUnlinks(u, f) ==
  /\ op[u].pc = "tree" /\ f \in OnDisk
  /\ Unlink(f)
  /\ UNCHANGED <<remote, users, exists, sweep, restore, wanted, spoilt, spent>>

PurgeRemovesDir(u) ==
  /\ op[u].pc = "tree" /\ OnDisk = {}
  /\ exists' = FALSE
  /\ op' = [op EXCEPT ![u].pc = Then.tree]
  /\ UNCHANGED <<remote, disk, row, sweep, restore, live, fresh, wanted, spoilt, spent>>

PurgeEmptiesPrefix(u) ==
  /\ op[u].pc = "prefix"
  /\ s3' = None
  /\ op' = [op EXCEPT ![u].pc = Then.prefix]
  /\ UNCHANGED <<local, stamps, evicted, row, sweep, restore, live, spent>>

\* forgetWorkspace()
PurgeForgets(u) ==
  /\ op[u].pc = "stamps"
  /\ stamps' = None /\ evicted' = FALSE
  /\ op' = [op EXCEPT ![u].pc = Then.stamps]
  /\ UNCHANGED <<local, s3, row, sweep, restore, live, spent>>

PurgeDeletesRow(u) ==
  /\ op[u].pc = "row"
  /\ row' = FALSE
  /\ op' = [op EXCEPT ![u] = NoOp]
  /\ UNCHANGED <<local, remote, sweep, restore, live, spent>>

\* A call of a deletion throws: it ends where it is.
OpFails(u) ==
  /\ op[u].pc \in {"object", "forget", "tree", "prefix", "stamps", "row"}
  /\ op' = [op EXCEPT ![u] = NoOp]
  /\ Spend("faults")
  /\ UNCHANGED <<local, remote, row, sweep, restore, live>>

-----------------------------------------------------------------------------
(* The agent of an open chat, and what goes wrong around the gateway.       *)

AgentWrites(f) ==
  /\ live
  /\ WriteTo(f)
  /\ Meets(Moving)
  /\ UNCHANGED <<remote, users, sweep, restore>>

AgentRemoves(f) ==
  /\ live
  /\ RemoveFrom(f)
  /\ Meets(Moving)
  /\ UNCHANGED <<remote, users, exists, sweep, restore, spent>>

ChatCloses ==
  /\ live
  /\ live' = FALSE
  /\ UNCHANGED <<local, remote, row, sweep, restore, op, spent>>

\* The gateway is killed: what is in memory is gone, the chats with it.
Crash ==
  /\ Spend("faults")
  /\ sweep' = NoSweep /\ restore' = NoRestore
  /\ op' = [u \in Users |-> NoOp]
  /\ live' = FALSE
  /\ UNCHANGED <<local, remote, row>>

\* Redis is not backed up.
RedisIsLost ==
  /\ Spend("losses")
  /\ stamps' = None /\ evicted' = FALSE
  /\ UNCHANGED <<local, users, s3, sweep, restore>>

SweepStep ==
  \/ SweepReadsMark \/ SweepReadsStamps \/ SweepLists
  \/ SweepEnds \/ SweepEvicts \/ SweepRemovesDir
  \/ \E f \in FILES : \/ SweepReads(f) \/ SweepPuts(f) \/ SweepStamps(f)
                      \/ SweepDeletes(f) \/ SweepForgets(f) \/ SweepUnlinks(f)

RestoreStep ==
  \/ RestoreLists \/ RestoreEnds
  \/ \E f \in FILES : RestoreGets(f) \/ RestoreRenames(f) \/ RestoreStamps(f)

OpStep(u) ==
  \/ ReadsMark(u) \/ ListsEmpty(u) \/ Opens(u) \/ Serves(u) \/ PicksCopy(u)
  \/ ClearWaits(u) \/ ClearPicks(u) \/ ClearEnds(u)
  \/ PurgeRemovesDir(u) \/ PurgeEmptiesPrefix(u) \/ PurgeForgets(u) \/ PurgeDeletesRow(u)
  \/ \E f \in FILES : \/ DeletesObject(u, f) \/ ForgetsStamp(u, f)
                      \/ ClearDeletes(u, f) \/ PurgeUnlinks(u, f)

Next ==
  \/ SweepBegins \/ SweepStep \/ SweepUploadFails \/ SweepThrows
  \/ RestoreStep \/ RestoreFails
  \/ \E u \in Users : OpStep(u) \/ OpFails(u) \/ \E kind \in Kinds : Begins(u, kind)
  \/ \E f \in FILES : SweepDeleteFails(f) \/ AgentWrites(f) \/ AgentRemoves(f)
  \/ ChatCloses \/ Crash \/ RedisIsLost

\* The interval timer starts passes for ever, and a file that nobody writes to settles:
\* again and again a pass begins when all of them have.  What is begun goes on.
Fairness ==
  /\ SF_vars(SweepBegins /\ fresh' = {})
  /\ WF_vars(SweepStep)
  /\ WF_vars(RestoreStep)
  /\ WF_vars(RestoreFails /\ RestoreCannot)
  /\ \A u \in Users : WF_vars(OpStep(u))

Spec == Init /\ [][Next]_vars /\ Fairness

Symmetry == Permutations(FILES)

-----------------------------------------------------------------------------
(* Properties.                                                              *)

\* A file that the user has not removed is on the disk or in S3, in its last state.
FilesKept == \A f \in FILES : wanted[f] # 0 => wanted[f] \in {disk[f].content, s3[f]}

\* That is so wherever the gateway dies, whichever call on S3 or on Redis fails and even if
\* Redis forgets everything, unless an old directory was used while it was swept, a
\* directory was changed while it was restored, or a listing missed a file.
NothingLost == spoilt \/ FilesKept

\* With the same exceptions, and as long as Redis keeps what it was told, a file that is not
\* on the disk as the user left it belongs to a directory with the mark of an evicted one:
\* the next opening brings it back, also after a kill in the middle of an eviction or of a
\* restore.
NextOpenRestores ==
  ~spoilt /\ spent.losses = 0 =>
    \A f \in FILES : wanted[f] \notin {0, disk[f].content} => evicted

\* deleteFiles() returns with the copies of the files that it deleted gone: no pass puts one
\* back, the one under way when it was called included.
ClearErases ==
  [][\A u \in Users : ClearEnds(u) => \A f \in op[u].known : s3'[f] = 0]_vars

\* What a chat or its user wrote gets to S3, unless it is removed first, is too large, the
\* directory has still the mark of an eviction, the chat is deleted, or one of the exceptions
\* of NothingLost has happened.
SettledIsArchived ==
  \A f \in FILES :
    wanted[f] \notin TooLarge \union {0, s3[f]}
      ~> (wanted[f] \in TooLarge \union {0, s3[f]} \/ evicted \/ ~row \/ spoilt)

\* A file that left the disk leaves S3, if Redis knows of its copy, unless it is put back on
\* the disk, the directory is evicted, or the chat is or was being deleted (a deletion that
\* was cut short must be asked for again).
RemovedLeavesS3 ==
  \A f \in FILES :
    (f \notin OnDisk /\ wanted[f] = 0 /\ f \in Stamped /\ exists)
      ~> (f \notin Copied \/ f \in OnDisk \/ evicted \/ spent.losses > 0
            \/ ~exists \/ ~row \/ Purging)

==============================================================================
