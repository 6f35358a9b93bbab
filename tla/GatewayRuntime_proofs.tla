------------------------- MODULE GatewayRuntime_proofs -------------------------
(***************************************************************************)
(* Theorems about three parts of the gateway's runtime/ directory: the     *)
(* archive of the working directories (WorkspaceArchive), for any number   *)
(* of files, requests, writes and failures, the supervisor of the runtime  *)
(* processes (Supervisor), for any number of shards, callers and exits,    *)
(* and the ingest of the usage records (Usage), for any number of days,    *)
(* turns, records, kills and failures.                                     *)
(*                                                                         *)
(* Unless one of the exceptions has happened that `spoilt' remembers,      *)
(* nothing is lost because a file that the disk has not as the user left   *)
(* it is whole in S3 and carries the mark or has no stamp                  *)
(* (KeptSomewhere), and no step under way is about to touch that copy      *)
(* (SweepSpares, RestoreSpares, ClearSpares).  An eviction needs that what *)
(* the sweep takes for archived is: a stamp that agrees with the disk is   *)
(* the stamp of this very content (StampsTrue).  ClearInv is the invariant *)
(* behind what deleteFiles() leaves in S3.                                 *)
(*                                                                         *)
(* The two safety properties of the supervisor are inductive together with *)
(* four facts: StopKnown, no shard has been stopped before stop() has run; *)
(* RestIdle, before the first runtime has answered the others do not       *)
(* exist, so no stop() waits for them; ReadyFresh, the promise that the    *)
(* next caller will read is settled by no earlier launch; and ReadyUp,     *)
(* when it has been fulfilled the process accepts connections.             *)
(*                                                                         *)
(* An offset is never saved beyond a record that has no row, because the   *)
(* ingest itself never comes to one (IngestTrue): the lines of a chunk are *)
(* whole, whole lines do not change, and the one record `insert ignore`    *)
(* drops for another of the same turn and step is of a turn whose number   *)
(* was used again (KeysUnique).  A file is removed when all of it has been *)
(* read, and nobody writes to it afterwards (OldQuiet).                    *)
(***************************************************************************)
EXTENDS WorkspaceArchive, Supervisor, Usage,
        FiniteSetTheorems, SequenceTheorems, WellFoundedInduction, TLAPS

-----------------------------------------------------------------------------
(* The archive: types.                                                      *)

SweepPcs == {"idle", "mark", "known", "list", "file", "put", "stamp", "forget", "tree"}
RestorePcs == {"idle", "list", "file", "rename", "stamp"}
PurgePcs == {"tree", "prefix", "stamps", "row"}
OpPcs == {"idle", "mark", "empty", "join", "use", "known", "object", "forget", "pause", "usage",
          "next"} \union PurgePcs

Numbers == [FILES -> Nat]
File == {x \in [content : Nat, mtime : Nat] : x.content # 0 => x.mtime # 0}
Sweep == [pc : SweepPcs, old : BOOLEAN, known : Numbers, seen : Numbers, todo : SUBSET FILES,
          gone : SUBSET FILES, at : SUBSET FILES, body : Nat, ok : BOOLEAN]
Restore == [pc : RestorePcs, marked : BOOLEAN, keys : SUBSET FILES, at : SUBSET FILES, body : Nat]
Operation == [kind : Kinds, pc : OpPcs, marked : BOOLEAN, files : SUBSET FILES,
              known : SUBSET FILES, at : SUBSET FILES]

Types ==
  /\ disk \in [FILES -> File]
  /\ s3 \in Numbers /\ stamps \in Numbers /\ wanted \in Numbers
  /\ {evicted, row, live} \subseteq BOOLEAN
  /\ sweep \in Sweep
  /\ restore \in Restore
  /\ op \in [Users -> Operation]
  /\ spent \in [{"ops", "writes", "faults", "losses"} -> Nat]

\* A new mtime differs from every number that anybody remembers.
LEMMA NewMtimeIsNew ==
  ASSUME Types, NEW f \in FILES
  PROVE  /\ NewMtime(f) \in Nat \ {0}
         /\ NewMtime(f) \notin {disk[f].mtime, stamps[f], sweep.known[f], sweep.seen[f]}
<1>1. ASSUME NEW a \in Nat, NEW b \in Nat, NEW c \in Nat, NEW d \in Nat
      PROVE  \E n \in 1 .. 5 : n \notin {a, b, c, d}
  <2>. SUFFICES ASSUME \A n \in 1 .. 5 : n \in {a, b, c, d}
                PROVE  FALSE
    OBVIOUS
  <2>1. /\ 1 \in {a, b, c, d} /\ 2 \in {a, b, c, d} /\ 3 \in {a, b, c, d}
        /\ 4 \in {a, b, c, d} /\ 5 \in {a, b, c, d}
    OBVIOUS
  <2>. QED
    BY <2>1
<1>2. /\ disk[f].mtime \in Nat /\ stamps[f] \in Nat
      /\ sweep.known[f] \in Nat /\ sweep.seen[f] \in Nat
  BY DEF Types, File, Numbers, Sweep
<1>3. \E n \in 1 .. 5 : n \notin {disk[f].mtime, stamps[f], sweep.known[f], sweep.seen[f]}
  BY <1>1, <1>2
<1>. DEFINE P(n) == n \notin {disk[f].mtime, stamps[f], sweep.known[f], sweep.seen[f]}
<1>4. \E n \in 1 .. 5 : P(n)
  BY <1>3
<1>5. NewMtime(f) = CHOOSE n \in 1 .. 5 : P(n)
  BY DEF NewMtime
<1>. HIDE DEF P
<1>6. NewMtime(f) \in 1 .. 5 /\ P(NewMtime(f))
  BY <1>4, <1>5
<1>7. NewMtime(f) \in Nat \ {0}
  BY <1>6
<1>. QED
  BY <1>6, <1>7 DEF P

\* None is a number for every file, and it is 0.
LEMMA ZeroNumbers == None \in Numbers /\ \A f \in FILES : None[f] = 0
BY DEF None, Numbers

\* What the sweep, the restore and an operation are when nothing is under way.
LEMMA IdleTypes == NoSweep \in Sweep /\ NoRestore \in Restore /\ NoOp \in Operation
<1>1. NoSweep \in Sweep
  BY ZeroNumbers DEF NoSweep, Sweep, SweepPcs
<1>2. NoRestore \in Restore
  BY DEF NoRestore, Restore, RestorePcs
<1>3. NoOp \in Operation
  BY DEF NoOp, Operation, OpPcs, Kinds
<1>. QED
  BY <1>1, <1>2, <1>3

\* Everything has its type at the start.
LEMMA InitTypes == Init => Types
<1>. SUFFICES ASSUME Init
              PROVE  Types
  OBVIOUS
<1>1. op \in [Users -> Operation] /\ sweep \in Sweep /\ restore \in Restore
  BY IdleTypes DEF Init
<1>2. disk \in [FILES -> File]
  BY DEF Init, NoFile, File
<1>3. spent \in [{"ops", "writes", "faults", "losses"} -> Nat]
  BY DEF Init, Bound
<1>4. s3 \in Numbers /\ stamps \in Numbers /\ wanted \in Numbers
  BY ZeroNumbers DEF Init
<1>. QED
  BY <1>1, <1>2, <1>3, <1>4 DEF Init, Types

\* What has been spent stays a number; losses are counted as such only.
LEMMA SpendTypes ==
  ASSUME Types, NEW what \in {"ops", "writes", "faults", "losses"}, Spend(what)
  PROVE  /\ spent' \in [{"ops", "writes", "faults", "losses"} -> Nat]
         /\ spent'.losses = (IF what = "losses" THEN spent.losses + 1 ELSE spent.losses)
BY DEF Types, Spend

\* A listing spends a failure at most.
LEMMA ListsTypes ==
  ASSUME Types, NEW files, Lists(files)
  PROVE  /\ spent' \in [{"ops", "writes", "faults", "losses"} -> Nat]
         /\ spent'.losses = spent.losses
<1>1. CASE files = OnDisk
  BY <1>1 DEF Lists, Types
<1>2. CASE files # OnDisk
  BY <1>2, SpendTypes DEF Lists
<1>. QED
  BY <1>1, <1>2

\* The sweep keeps the types.
LEMMA SweepTypes ==
  ASSUME Types,
         \/ SweepBegins \/ SweepStep \/ SweepUploadFails \/ SweepThrows
         \/ \E f \in FILES : SweepDeleteFails(f)
  PROVE  Types'
<1>. USE DEF local, remote, users
<1>0. NoSweep \in Sweep
  BY IdleTypes
<1>1. CASE SweepBegins
  <2>. PICK old \in BOOLEAN : sweep' = [NoSweep EXCEPT !.pc = "mark", !.old = old]
    BY <1>1 DEF SweepBegins
  <2>. QED
    BY <1>0, <1>1 DEF SweepBegins, Types, Sweep, SweepPcs
<1>2. CASE SweepReadsMark
  BY <1>0, <1>2 DEF SweepReadsMark, Types, Sweep, SweepPcs
<1>3. CASE SweepReadsStamps
  BY <1>3 DEF SweepReadsStamps, Types, Sweep, SweepPcs
<1>4. CASE SweepLists
  <2>. PICK files \in SUBSET OnDisk : Lists(files) /\ sweep' = SweepListed(files)
    BY <1>4 DEF SweepLists
  <2>1. sweep' \in Sweep
    BY DEF SweepListed, Types, Sweep, SweepPcs, Changed, Gone, OnDisk, Numbers, None, File
  <2>. QED
    BY <1>4, <2>1, ListsTypes DEF SweepLists, Types
<1>5. CASE SweepEnds
  BY <1>0, <1>5 DEF SweepEnds, Types
<1>6. CASE SweepEvicts
  BY <1>6 DEF SweepEvicts, Mark, Types, Sweep, SweepPcs
<1>7. CASE SweepRemovesDir
  BY <1>0, <1>7 DEF SweepRemovesDir, Types
<1>8. CASE SweepUploadFails
  BY <1>8, SpendTypes DEF SweepUploadFails, FailedUpload, Types, Sweep, SweepPcs
<1>9. CASE SweepThrows
  BY <1>0, <1>9, SpendTypes DEF SweepThrows, Types
<1>10. ASSUME NEW f \in FILES, \/ SweepReads(f) \/ SweepPuts(f) \/ SweepStamps(f)
                               \/ SweepDeletes(f) \/ SweepForgets(f) \/ SweepUnlinks(f)
                               \/ SweepDeleteFails(f)
       PROVE  Types'
  <2>1. CASE SweepReads(f)
    BY <1>10, <2>1 DEF SweepReads, Types, Sweep, SweepPcs, File
  <2>2. CASE SweepPuts(f)
    BY <1>10, <2>2 DEF SweepPuts, Types, Sweep, SweepPcs, Numbers
  <2>3. CASE SweepStamps(f)
    BY <1>10, <2>3 DEF SweepStamps, Stamp, Types, Sweep, SweepPcs, Numbers
  <2>4. CASE SweepDeletes(f)
    BY <1>10, <2>4 DEF SweepDeletes, Types, Sweep, SweepPcs, Numbers
  <2>5. CASE SweepForgets(f)
    BY <1>10, <2>5 DEF SweepForgets, Types, Sweep, SweepPcs, Numbers
  <2>6. CASE SweepUnlinks(f)
    BY <1>10, <2>6 DEF SweepUnlinks, Unlink, NoFile, Types, File
  <2>7. CASE SweepDeleteFails(f)
    BY <1>10, <2>7, SpendTypes DEF SweepDeleteFails, Types, Sweep, SweepPcs
  <2>. QED
    BY <1>10, <2>1, <2>2, <2>3, <2>4, <2>5, <2>6, <2>7
<1>. QED
  BY <1>1, <1>2, <1>3, <1>4, <1>5, <1>6, <1>7, <1>8, <1>9, <1>10 DEF SweepStep

\* The restore keeps the types.
LEMMA RestoreTypes ==
  ASSUME Types, RestoreStep \/ RestoreFails
  PROVE  Types'
<1>. USE DEF local, remote, users
<1>1. CASE RestoreLists
  BY <1>1 DEF RestoreLists, Copied, Types, Restore, RestorePcs
<1>2. CASE RestoreEnds
  <2>1. op' \in [Users -> Operation]
    BY <1>2 DEF RestoreEnds, Types, Operation, OpPcs
  <2>. QED
    BY <1>2, <2>1, IdleTypes DEF RestoreEnds, Types
<1>3. CASE RestoreFails
  <2>1. op' \in [Users -> Operation]
    <3>1. ASSUME NEW u \in Users
          PROVE  (CASE op[u].pc # "join" -> op[u]
                    [] op[u].pc = "join" /\ op[u].kind = "open" -> [op[u] EXCEPT !.pc = "use"]
                    [] OTHER -> NoOp) \in Operation
      <4>1. op[u] \in Operation /\ [op[u] EXCEPT !.pc = "use"] \in Operation
        BY DEF Types, Operation, OpPcs
      <4>. QED
        BY <4>1, IdleTypes
    <3>. QED
      BY <1>3, <3>1 DEF RestoreFails
  <2>2. spent' \in [{"ops", "writes", "faults", "losses"} -> Nat]
    BY <1>3, SpendTypes DEF RestoreFails, Types
  <2>. QED
    BY <1>3, <2>1, <2>2, IdleTypes DEF RestoreFails, Types
<1>4. ASSUME NEW f \in FILES, RestoreGets(f)
      PROVE  Types'
  <2>1. s3[f] \in Nat
    BY DEF Types, Numbers
  <2>2. /\ [restore EXCEPT !.keys = @ \ {f}] \in Restore
        /\ [restore EXCEPT !.pc = "rename", !.keys = @ \ {f}, !.at = {f}, !.body = s3[f]]
             \in Restore
    BY <2>1 DEF Types, Restore, RestorePcs
  <2>. QED
    BY <1>4, <2>2, ListsTypes DEF RestoreGets, Types
<1>5. ASSUME NEW f \in FILES, RestoreRenames(f)
      PROVE  Types'
  BY <1>5, NewMtimeIsNew DEF RestoreRenames, Place, Types, Restore, RestorePcs, File
<1>6. ASSUME NEW f \in FILES, RestoreStamps(f)
      PROVE  Types'
  BY <1>6 DEF RestoreStamps, Types, Restore, RestorePcs, Numbers, File
<1>. QED
  BY <1>1, <1>2, <1>3, <1>4, <1>5, <1>6 DEF RestoreStep

\* A file that is written or removed leaves the types as they are.
LEMMA WriteTypes ==
  ASSUME Types, NEW f \in FILES, WriteTo(f) \/ (RemoveFrom(f) /\ UNCHANGED spent)
  PROVE  /\ disk' \in [FILES -> File] /\ wanted' \in Numbers
         /\ spent' \in [{"ops", "writes", "faults", "losses"} -> Nat]
<1>1. CASE WriteTo(f)
  <2>1. spent.writes \in Nat
    BY DEF Types
  <2>. QED
    BY <1>1, <2>1, NewMtimeIsNew, SpendTypes DEF WriteTo, Place, Types, File, Numbers
<1>2. CASE RemoveFrom(f) /\ UNCHANGED spent
  BY <1>2 DEF RemoveFrom, Unlink, NoFile, Types, File, Numbers
<1>. QED
  BY <1>1, <1>2

\* A step of an operation keeps the types.
LEMMA OpTypes ==
  ASSUME Types, NEW u \in Users, OpStep(u) \/ OpFails(u) \/ \E kind \in Kinds : Begins(u, kind)
  PROVE  Types'
<1>. USE DEF local, remote, users
<1>0. op[u] \in Operation /\ NoOp \in Operation
  BY IdleTypes DEF Types
<1>01. ASSUME NEW o \in Operation, op' = [op EXCEPT ![u] = o]
       PROVE  op' \in [Users -> Operation]
  BY <1>01 DEF Types
<1>02. ASSUME NEW pc \in OpPcs, op' = [op EXCEPT ![u].pc = pc]
       PROVE  op' \in [Users -> Operation]
  BY <1>02 DEF Types, Operation
<1>03. ASSUME NEW marked \in BOOLEAN
       PROVE  Joined(marked) \in Restore
  BY IdleTypes DEF Joined, Types, Restore, RestorePcs
<1>1. ASSUME NEW kind \in Kinds, Begins(u, kind)
      PROVE  Types'
  <2>1. FirstStep(kind) \in OpPcs
    BY DEF FirstStep, Then, Kinds, OpPcs, PurgePcs
  <2>2. [NoOp EXCEPT !.kind = kind, !.pc = FirstStep(kind)] \in Operation
    BY <1>0, <2>1 DEF Operation
  <2>3. wanted' \in Numbers /\ live' \in BOOLEAN
    BY <1>1, ZeroNumbers DEF Begins, Types
  <2>. QED
    BY <1>01, <1>1, <2>2, <2>3, SpendTypes DEF Begins, Types
<1>2. CASE ReadsMark(u)
  <2>1. op' \in [Users -> Operation]
    <3>1. CASE evicted
      <4>1. op' = [op EXCEPT ![u].pc = "known"] \/ op' = [op EXCEPT ![u].pc = "join"]
        BY <1>2, <3>1 DEF ReadsMark
      <4>. QED
        BY <1>02, <4>1 DEF OpPcs
    <3>2. CASE ~evicted
      <4>. DEFINE o == CASE op[u].kind = "open" -> [op[u] EXCEPT !.pc = "empty"]
                         [] op[u].kind = "rest" -> [op[u] EXCEPT !.pc = "use"]
                         [] OTHER -> [op[u] EXCEPT !.kind = "rest"]
      <4>1. o \in Operation
        BY <1>0 DEF Operation, OpPcs, Kinds
      <4>2. op' = [op EXCEPT ![u] = o]
        BY <1>2, <3>2 DEF ReadsMark
      <4>. QED
        BY <1>01, <4>1, <4>2
    <3>. QED
      BY <3>1, <3>2
  <2>. QED
    BY <1>03, <1>2, <2>1 DEF ReadsMark, Types
<1>3. CASE ListsEmpty(u)
  BY <1>02, <1>03, <1>3, ListsTypes DEF ListsEmpty, Types, OpPcs
<1>4. CASE Opens(u)
  BY <1>0, <1>01, <1>4 DEF Opens, Types
<1>5. CASE Serves(u)
  <2>1. /\ disk' \in [FILES -> File] /\ wanted' \in Numbers
        /\ spent' \in [{"ops", "writes", "faults", "losses"} -> Nat]
    BY <1>5, WriteTypes DEF Serves, Types
  <2>. QED
    BY <1>0, <1>01, <1>5, <2>1 DEF Serves, Types
<1>6. CASE PicksCopy(u)
  <2>1. CASE op' = [op EXCEPT ![u] = NoOp]
    BY <1>0, <1>01, <1>6, <2>1 DEF PicksCopy, Types
  <2>2. ASSUME NEW f \in Stamped,
               op' = [op EXCEPT ![u] = [@ EXCEPT !.pc = "object", !.at = {f}, !.marked = TRUE]]
        PROVE  Types'
    <3>1. [op[u] EXCEPT !.pc = "object", !.at = {f}, !.marked = TRUE] \in Operation
      BY <1>0, <2>2 DEF Operation, OpPcs, Stamped
    <3>. QED
      BY <1>01, <1>6, <2>2, <3>1 DEF PicksCopy, Types
  <2>. QED
    BY <1>6, <2>1, <2>2 DEF PicksCopy
<1>7. CASE ClearWaits(u)
  BY <1>02, <1>7 DEF ClearWaits, Types, OpPcs
<1>8. CASE ClearPicks(u)
  <2>. PICK select \in SUBSET FILES :
         LET files == select \intersect (IF evicted THEN Stamped ELSE OnDisk)
         IN  op' = [op EXCEPT ![u] = [@ EXCEPT !.pc = "next", !.marked = evicted,
                                        !.files = files, !.known = files \intersect Stamped]]
    BY <1>8 DEF ClearPicks
  <2>. DEFINE files == select \intersect (IF evicted THEN Stamped ELSE OnDisk)
  <2>1. [op[u] EXCEPT !.pc = "next", !.marked = evicted,
                      !.files = files, !.known = files \intersect Stamped] \in Operation
    BY <1>0 DEF Operation, OpPcs, Types
  <2>. QED
    BY <1>01, <1>8, <2>1 DEF ClearPicks, Types
<1>9. CASE ClearEnds(u)
  BY <1>0, <1>01, <1>9 DEF ClearEnds, Types
<1>10. CASE PurgeRemovesDir(u)
  BY <1>02, <1>10 DEF PurgeRemovesDir, Then, Types, OpPcs, PurgePcs
<1>11. CASE PurgeEmptiesPrefix(u)
  BY <1>02, <1>11, ZeroNumbers DEF PurgeEmptiesPrefix, Then, Types, OpPcs, PurgePcs
<1>12. CASE PurgeForgets(u)
  BY <1>02, <1>12, ZeroNumbers DEF PurgeForgets, Then, Types, OpPcs, PurgePcs
<1>13. CASE PurgeDeletesRow(u)
  BY <1>0, <1>01, <1>13 DEF PurgeDeletesRow, Types
<1>14. CASE OpFails(u)
  BY <1>0, <1>01, <1>14, SpendTypes DEF OpFails, Types
<1>15. ASSUME NEW f \in FILES, DeletesObject(u, f)
       PROVE  Types'
  BY <1>02, <1>15 DEF DeletesObject, Types, OpPcs, Numbers
<1>16. ASSUME NEW f \in FILES, ForgetsStamp(u, f)
       PROVE  Types'
  <2>1. [op[u] EXCEPT !.pc = "next", !.at = {}] \in Operation
    BY <1>0 DEF Operation, OpPcs
  <2>2. op' \in [Users -> Operation]
    BY <1>0, <1>01, <1>16, <2>1 DEF ForgetsStamp
  <2>. QED
    BY <1>16, <2>2 DEF ForgetsStamp, Types, Numbers
<1>17. ASSUME NEW f \in FILES, ClearDeletes(u, f)
       PROVE  Types'
  <2>1. op' \in [Users -> Operation]
    <3>1. CASE f \in op[u].known
      BY <1>17, <3>1 DEF ClearDeletes, Types, Operation, OpPcs
    <3>2. CASE f \notin op[u].known
      BY <1>17, <3>2 DEF ClearDeletes, Types, Operation, OpPcs
    <3>. QED
      BY <3>1, <3>2
  <2>2. disk' \in [FILES -> File] /\ wanted' \in Numbers
    <3>1. RemoveFrom(f) => disk' \in [FILES -> File] /\ wanted' \in Numbers
      BY DEF RemoveFrom, Unlink, NoFile, Types, File, Numbers
    <3>2. RemoveFrom(f) \/ UNCHANGED <<disk, wanted>>
      BY <1>17 DEF ClearDeletes
    <3>. QED
      BY <3>1, <3>2 DEF Types
  <2>. QED
    BY <1>17, <2>1, <2>2 DEF ClearDeletes, Types
<1>18. ASSUME NEW f \in FILES, PurgeUnlinks(u, f)
       PROVE  Types'
  BY <1>18 DEF PurgeUnlinks, Unlink, NoFile, Types, File
<1>. QED
  BY <1>1, <1>2, <1>3, <1>4, <1>5, <1>6, <1>7, <1>8, <1>9, <1>10, <1>11, <1>12, <1>13, <1>14,
     <1>15, <1>16, <1>17, <1>18 DEF OpStep

\* Every step keeps the types.
LEMMA NextTypes ==
  ASSUME Types, [Next]_vars
  PROVE  Types'
<1>. USE DEF local, remote, users
<1>1. CASE \E f \in FILES : AgentWrites(f) \/ AgentRemoves(f)
  BY <1>1, WriteTypes DEF AgentWrites, AgentRemoves, Types
<1>2. CASE ChatCloses
  BY <1>2 DEF ChatCloses, Types
<1>3. CASE Crash
  BY <1>3, SpendTypes, IdleTypes DEF Crash, Types
<1>4. CASE RedisIsLost
  BY <1>4, SpendTypes, ZeroNumbers DEF RedisIsLost, Types
<1>5. CASE UNCHANGED vars
  BY <1>5 DEF vars, Types
<1>. QED
  BY <1>1, <1>2, <1>3, <1>4, <1>5, SweepTypes, RestoreTypes, OpTypes DEF Next

-----------------------------------------------------------------------------
(* The invariant, as long as nothing is spoilt.                             *)

\* A file that is not on the disk as the user left it.
Off(f) == wanted[f] \notin {0, disk[f].content}

SweepShape ==
  /\ sweep.pc # "list" => sweep.known = None
  /\ sweep.pc \notin {"put", "stamp", "forget"} => sweep.at = {}
  /\ sweep.pc \in {"idle", "mark", "known", "list", "tree"} => sweep.todo = {} /\ sweep.gone = {}
  /\ sweep.pc = "idle" => ~sweep.old
  /\ sweep.pc \in {"put", "stamp"} => sweep.at \intersect sweep.gone = {}
  /\ sweep.todo \intersect sweep.gone = {}
  /\ \A f, g \in sweep.at : f = g

RestoreShape ==
  /\ restore.pc # "idle" => \E u \in Users : op[u].pc = "join"
  /\ restore.pc \notin {"rename", "stamp"} => restore.at = {}
  /\ \A f, g \in restore.at : f = g

OpShape(o) ==
  /\ o.pc = "idle" => o = NoOp
  /\ o.at # {} => o.pc \in {"object", "forget"} /\ (o.marked \/ o.kind = "clear")
  /\ o.files # {} => o.pc \in {"next", "object", "forget"} /\ o.kind = "clear"
  /\ o.pc \in PurgePcs => o.kind = "purge"
  /\ o.pc \in {"pause", "usage", "next"} => o.kind = "clear"
  /\ o.kind = "purge" /\ o.pc # "idle" => wanted = None
  /\ o.kind = "clear" /\ o.pc \notin {"idle", "pause"} => sweep.pc = "idle"

Shapes == SweepShape /\ RestoreShape /\ \A u \in Users : OpShape(op[u])

KeptSomewhere ==
  \A f \in FILES : Off(f) =>
    /\ f \notin OnDisk /\ s3[f] = wanted[f]
    /\ evicted \/ stamps[f] = 0
    /\ spent.losses = 0 => evicted

SweepSpares ==
  /\ sweep.pc \in {"known", "list", "file", "put", "stamp", "forget"} => ~evicted
  /\ \A f \in FILES : Off(f) =>
       sweep.known[f] = 0 /\ f \notin sweep.todo \union sweep.gone \union sweep.at

RestoreSpares ==
  /\ restore.pc \in {"file", "rename", "stamp"} =>
       \A f \in FILES : Off(f) => f \in restore.keys \/ (restore.pc = "rename" /\ f \in restore.at)
  /\ restore.pc = "rename" =>
       \A f \in restore.at : wanted[f] # 0 => Off(f) /\ restore.body = wanted[f]

ClearSpares ==
  \A u \in Users : ~op[u].marked => \A f \in op[u].files \union op[u].at : ~Off(f)

InS3(f) ==
  /\ s3[f] = disk[f].content
  /\ f \notin sweep.gone
  /\ f \in sweep.at => sweep.pc # "forget" /\ (sweep.pc = "put" => sweep.body = disk[f].content)
  /\ \A u \in Users : ~op[u].marked => f \notin op[u].at

StampsTrue ==
  \A f \in OnDisk : wanted[f] # 0 =>
    /\ stamps[f] = disk[f].mtime => InS3(f)
    /\ restore.pc = "stamp" /\ f \in restore.at => InS3(f)
    /\ sweep.pc \in {"put", "stamp"} /\ f \in sweep.at /\ sweep.seen[f] = disk[f].mtime
         => IF sweep.pc = "put" THEN sweep.body = disk[f].content ELSE s3[f] = disk[f].content

OldSweep ==
  sweep.old =>
    /\ restore.pc = "idle" /\ \A u \in Users : op[u].pc = "idle"
    /\ sweep.pc = "list" =>
         \A f \in OnDisk : wanted[f] # 0 /\ sweep.known[f] = disk[f].mtime
                             => s3[f] = disk[f].content
    /\ sweep.gone \intersect OnDisk = {}
    /\ sweep.pc = "forget" => sweep.at \intersect OnDisk = {}
    /\ sweep.pc = "put" => \A f \in sweep.at \intersect OnDisk : sweep.body = disk[f].content
    /\ sweep.pc \in {"file", "put", "stamp", "forget"} /\ sweep.ok =>
         \A f \in OnDisk : wanted[f] # 0 =>
            f \in sweep.todo \/ (sweep.pc = "put" /\ f \in sweep.at) \/ s3[f] = disk[f].content

Evicting ==
  sweep.pc = "tree" =>
    /\ sweep.old
    /\ evicted \/ stamps = None
    /\ spent.losses = 0 => evicted
    /\ \A f \in OnDisk : wanted[f] # 0 => s3[f] = disk[f].content

Inv ==
  /\ Shapes /\ KeptSomewhere /\ SweepSpares /\ RestoreSpares
  /\ ClearSpares /\ StampsTrue /\ OldSweep /\ Evicting

-----------------------------------------------------------------------------
(* The sweep.                                                               *)

\* The listing takes for changed and for gone only what is as the user left it.
LEMMA SweepListsKeeps ==
  ASSUME Types, Types', Inv, SweepLists, ~spoilt'
  PROVE  Inv'
<1>. DEFINE todo == {f \in Changed(OnDisk) \ fresh : disk[f].content \notin TooLarge}
<1>. USE DEF remote, users
<1>0. Lists(OnDisk) /\ sweep' = SweepListed(OnDisk)
  BY DEF SweepLists, Meets
<1>1. /\ sweep.pc = "list" /\ sweep'.pc = "file" /\ sweep'.known = None
      /\ sweep'.seen = [f \in FILES |-> IF f \in todo THEN disk[f].mtime ELSE 0]
      /\ sweep'.old => sweep.old
      /\ sweep'.todo = todo /\ sweep'.gone = Gone(OnDisk) /\ sweep'.at = {}
      /\ sweep'.ok => Changed(OnDisk) = todo
  BY <1>0 DEF SweepLists, SweepListed, Types, Sweep, Inv, Shapes, SweepShape
<1>2. UNCHANGED <<disk, wanted, s3, stamps, evicted, restore, op, spent>>
  BY <1>0 DEF SweepLists, Lists
<1>3. todo \subseteq OnDisk /\ Gone(OnDisk) \intersect OnDisk = {}
  BY DEF Changed, Gone
<1>. HIDE DEF todo
<1>4. \A f \in FILES : Off(f)' = Off(f)
  BY <1>2 DEF Off
<1>5. OnDisk' = OnDisk
  BY <1>2 DEF OnDisk
<1>6. Shapes'
  BY <1>1, <1>2, <1>3 DEF Inv, Shapes, SweepShape, RestoreShape, OpShape
<1>7. KeptSomewhere'
  BY <1>2, <1>4, <1>5 DEF Inv, KeptSomewhere
<1>8. SweepSpares'
  BY <1>1, <1>2, <1>3, <1>4, ZeroNumbers DEF Inv, SweepSpares, KeptSomewhere, Gone
<1>9. RestoreSpares' /\ ClearSpares'
  BY <1>2, <1>4 DEF Inv, RestoreSpares, ClearSpares, Types, Restore, Operation
<1>10. StampsTrue'
  BY <1>1, <1>2, <1>3, <1>5 DEF Inv, StampsTrue, InS3
<1>11. OldSweep'
  BY <1>1, <1>2, <1>3, <1>5 DEF Inv, OldSweep, Changed
<1>. QED
  BY <1>1, <1>6, <1>7, <1>8, <1>9, <1>10, <1>11 DEF Inv, Evicting

\* An upload replaces no copy that alone is left.
LEMMA SweepPutsKeeps ==
  ASSUME Types, Types', Inv, NEW g \in FILES, SweepPuts(g)
  PROVE  Inv'
<1>. USE DEF local, remote, users
<1>1. /\ sweep.pc = "put" /\ g \in sweep.at /\ sweep'.pc = "stamp" /\ sweep'.at = sweep.at
      /\ sweep'.known = sweep.known /\ sweep'.seen = sweep.seen /\ sweep'.old = sweep.old
      /\ sweep'.todo = sweep.todo /\ sweep'.gone = sweep.gone /\ sweep'.ok = sweep.ok
  BY DEF SweepPuts, Types, Sweep
<1>2. UNCHANGED <<disk, wanted, stamps, evicted, restore, op, spent>>
  BY DEF SweepPuts
<1>3. s3'[g] = sweep.body /\ \A f \in FILES \ {g} : s3'[f] = s3[f]
  BY DEF SweepPuts, Types, Numbers
<1>4. \A f \in FILES : Off(f)' = Off(f)
  BY <1>2 DEF Off
<1>5. OnDisk' = OnDisk
  BY <1>2 DEF OnDisk
<1>6. Shapes'
  BY <1>1, <1>2 DEF Inv, Shapes, SweepShape, RestoreShape, OpShape
<1>7. KeptSomewhere' /\ SweepSpares'
  BY <1>1, <1>2, <1>3, <1>4, <1>5 DEF Inv, KeptSomewhere, SweepSpares
<1>9. RestoreSpares' /\ ClearSpares'
  BY <1>2, <1>4 DEF Inv, RestoreSpares, ClearSpares, Types, Restore, Operation
<1>10. StampsTrue'
  <2>. SUFFICES ASSUME NEW f \in OnDisk, wanted[f] # 0
                PROVE  /\ stamps[f] = disk[f].mtime => InS3(f)'
                       /\ restore.pc = "stamp" /\ f \in restore.at => InS3(f)'
                       /\ f \in sweep.at /\ sweep.seen[f] = disk[f].mtime
                            => s3'[f] = disk[f].content
    BY <1>1, <1>2, <1>5 DEF StampsTrue
  <2>1. InS3(f) => InS3(f)'
    BY <1>1, <1>2, <1>3 DEF InS3, OnDisk
  <2>. QED
    BY <1>1, <1>2, <1>3, <2>1 DEF Inv, StampsTrue, Shapes, SweepShape
<1>11. OldSweep'
  <2>. SUFFICES ASSUME sweep.old
                PROVE  sweep.ok => \A f \in OnDisk : wanted[f] # 0 =>
                                     f \in sweep.todo \/ s3'[f] = disk[f].content
    BY <1>1, <1>2, <1>5 DEF Inv, OldSweep
  <2>. QED
    BY <1>1, <1>3 DEF Inv, OldSweep, OnDisk, Shapes, SweepShape
<1>. QED
  BY <1>1, <1>6, <1>7, <1>9, <1>10, <1>11 DEF Inv, Evicting

\* A deletion that fails changes nothing but the pass.
LEMMA SweepDeleteFailsOnly ==
  ASSUME Types, NEW f \in FILES, SweepDeleteFails(f)
  PROVE  /\ sweep.pc \in {"file", "forget"} /\ sweep'.pc = "file" /\ sweep'.at = {}
         /\ sweep'.gone \subseteq sweep.gone /\ sweep'.todo = sweep.todo
         /\ sweep'.known = sweep.known /\ sweep'.old = sweep.old /\ sweep'.ok = sweep.ok
         /\ UNCHANGED <<disk, wanted, s3, stamps, evicted, restore, op>>
         /\ spent'.losses = spent.losses
<1>1. spent'.losses = spent.losses
  BY SpendTypes DEF SweepDeleteFails
<1>. QED
  BY <1>1 DEF SweepDeleteFails, Types, Sweep, local, remote, users

\* Every step of a pass.
LEMMA SweepKeeps ==
  ASSUME Types, Types', Inv, ~spoilt',
         \/ SweepBegins \/ SweepStep \/ SweepUploadFails \/ SweepThrows
         \/ \E f \in FILES : SweepDeleteFails(f)
  PROVE  Inv'
<1>. USE SpendTypes, ZeroNumbers
     DEF Inv, Shapes, SweepShape, RestoreShape, OpShape, KeptSomewhere, SweepSpares, RestoreSpares,
         ClearSpares, StampsTrue, OldSweep, Evicting, InS3, Off, OnDisk, Types, Sweep, SweepPcs,
         Restore, RestorePcs, Operation, File, Numbers, NoSweep, NoOp, local, remote, users
<1>1. CASE SweepBegins
  <2>. PICK old \in BOOLEAN :
         /\ old => \A u \in Users : op[u].pc = "idle"
         /\ sweep' = [NoSweep EXCEPT !.pc = "mark", !.old = old]
    BY <1>1 DEF SweepBegins
  <2>1. /\ sweep.pc = "idle" /\ sweep' = [NoSweep EXCEPT !.pc = "mark", !.old = old]
        /\ \A u \in Users : op[u].kind = "clear" => op[u].pc = "idle"
        /\ UNCHANGED <<disk, wanted, s3, stamps, evicted, restore, op, spent>>
    BY ZenonT(30), <1>1 DEF SweepBegins, Paused
  <2>2. old => restore.pc = "idle" /\ \A u \in Users : op[u].pc = "idle"
    OBVIOUS
  <2>3. Shapes'
    BY <2>1
  <2>4. OldSweep'
    BY <2>1, <2>2
  <2>. QED
    BY <2>1, <2>3, <2>4
<1>2. CASE SweepReadsMark
  BY <1>2 DEF SweepReadsMark
<1>3. CASE SweepReadsStamps
  BY <1>3 DEF SweepReadsStamps
<1>4. CASE SweepEnds
  BY <1>4 DEF SweepEnds, SweepDone
<1>5. CASE SweepEvicts
  BY <1>5 DEF SweepEvicts, SweepDone, Mark
<1>6. CASE SweepRemovesDir
  BY <1>6 DEF SweepRemovesDir
<1>7. CASE SweepUploadFails
  BY <1>7 DEF SweepUploadFails, FailedUpload
<1>8. CASE SweepThrows
  BY <1>8 DEF SweepThrows, SweepDone
<1>9. ASSUME NEW f \in FILES, SweepReads(f)
      PROVE  Inv'
  BY <1>9 DEF SweepReads
<1>10. ASSUME NEW f \in FILES, SweepDeletes(f)
      PROVE  Inv'
  BY <1>10 DEF SweepDeletes
<1>11. ASSUME NEW f \in FILES, SweepForgets(f)
      PROVE  Inv'
  <2>1. Shapes' /\ KeptSomewhere' /\ SweepSpares' /\ RestoreSpares' /\ ClearSpares'
    BY <1>11 DEF SweepForgets
  <2>2. StampsTrue'
    BY <1>11 DEF SweepForgets
  <2>3. OldSweep' /\ Evicting'
    BY <1>11 DEF SweepForgets
  <2>. QED
    BY <2>1, <2>2, <2>3
<1>12. ASSUME NEW f \in FILES, SweepStamps(f)
      PROVE  Inv'
  <2>1. Shapes' /\ KeptSomewhere' /\ SweepSpares' /\ RestoreSpares' /\ ClearSpares'
    BY <1>12 DEF SweepStamps, Stamp
  <2>2. StampsTrue'
    <3>1. /\ sweep.pc = "stamp" /\ f \in sweep.at /\ sweep'.at = {} /\ sweep'.pc = "file"
          /\ sweep'.gone = sweep.gone /\ stamps' = [stamps EXCEPT ![f] = sweep.seen[f]]
          /\ UNCHANGED <<disk, wanted, s3, restore, op>>
      BY <1>12 DEF SweepStamps, Stamp
    <3>2. \A u \in Users : op[u].at # {} /\ ~op[u].marked => FALSE
      BY <3>1
    <3>3. \A g \in OnDisk : InS3(g) => InS3(g)'
      BY <3>1
    <3>4. f \in OnDisk /\ wanted[f] # 0 /\ sweep.seen[f] = disk[f].mtime => InS3(f)'
      BY <3>1, <3>2
    <3>5. \A g \in FILES \ {f} : stamps'[g] = stamps[g]
      BY <3>1
    <3>6. stamps'[f] = sweep.seen[f]
      BY <3>1
    <3>. QED
      BY <3>1, <3>3, <3>4, <3>5, <3>6
  <2>3. OldSweep' /\ Evicting'
    BY <1>12 DEF SweepStamps, Stamp
  <2>. QED
    BY <2>1, <2>2, <2>3
<1>13. ASSUME NEW f \in FILES, SweepUnlinks(f)
      PROVE  Inv'
  BY <1>13 DEF SweepUnlinks, Unlink, NoFile
<1>14. ASSUME NEW f \in FILES, SweepDeleteFails(f)
      PROVE  Inv'
  <2>1. /\ sweep.pc \in {"file", "forget"} /\ sweep'.pc = "file" /\ sweep'.at = {}
        /\ sweep'.gone \subseteq sweep.gone /\ sweep'.todo = sweep.todo
        /\ sweep'.known = sweep.known /\ sweep'.old = sweep.old /\ sweep'.ok = sweep.ok
        /\ UNCHANGED <<disk, wanted, s3, stamps, evicted, restore, op>>
        /\ spent'.losses = spent.losses
    BY <1>14, SweepDeleteFailsOnly
  <2>2. Shapes' /\ KeptSomewhere' /\ SweepSpares' /\ RestoreSpares' /\ ClearSpares'
    BY <2>1
  <2>3. StampsTrue'
    BY <2>1
  <2>4. OldSweep' /\ Evicting'
    BY <2>1
  <2>. QED
    BY <2>2, <2>3, <2>4
<1>. QED
  BY SweepListsKeeps, SweepPutsKeeps, <1>1, <1>2, <1>3, <1>4, <1>5, <1>6, <1>7, <1>8, <1>9,
       <1>10, <1>11, <1>12, <1>13, <1>14 DEF SweepStep

-----------------------------------------------------------------------------
(* The restore.                                                             *)

\* A restore that ends, well or not, lets go of those who wait for it.
LEMMA RestoreLetsGo ==
  ASSUME Types, Inv,
         NEW o \in [Users -> Operation],
         \A u \in Users : \/ op[u].pc # "join" /\ o[u] = op[u]
                          \/ op[u].pc = "join" /\ o[u] \in {[op[u] EXCEPT !.pc = "use"], NoOp}
  PROVE  /\ \A u \in Users : OpShape(op[u]) => OpShape(o[u])
         /\ \A u \in Users : o[u].files \subseteq op[u].files /\ o[u].at \subseteq op[u].at
         /\ \A u \in Users : ~o[u].marked => ~op[u].marked \/ o[u].files \union o[u].at = {}
         /\ sweep.old => \A u \in Users : o[u].pc = "idle"
<1>. SUFFICES ASSUME NEW u \in Users
              PROVE  /\ OpShape(op[u]) => OpShape(o[u])
                     /\ o[u].files \subseteq op[u].files /\ o[u].at \subseteq op[u].at
                     /\ ~o[u].marked => ~op[u].marked \/ o[u].files \union o[u].at = {}
                     /\ sweep.old => o[u].pc = "idle"
  OBVIOUS
<1>. USE DEF Types, Operation, OpPcs, PurgePcs, OpShape, Inv, OldSweep
<1>1. CASE op[u].pc # "join"
  BY <1>1
<1>2. CASE op[u].pc = "join" /\ o[u] = [op[u] EXCEPT !.pc = "use"]
  BY <1>2
<1>3. CASE op[u].pc = "join" /\ o[u] = NoOp
  BY <1>3 DEF NoOp
<1>. QED
  BY <1>1, <1>2, <1>3

\* So a restore that ends keeps the invariant, if it leaves the mark of a directory with
\* files in S3 only.
LEMMA RestoreEndKeeps ==
  ASSUME Types, Types', Inv,
         restore' = NoRestore,
         \A u \in Users : \/ op[u].pc # "join" /\ op'[u] = op[u]
                          \/ op[u].pc = "join" /\ op'[u] \in {[op[u] EXCEPT !.pc = "use"], NoOp},
         evicted' = evicted \/ (restore.pc # "idle" /\ ~evicted' /\ \A f \in FILES : ~Off(f)),
         UNCHANGED <<disk, wanted, s3, stamps, sweep>>, spent'.losses = spent.losses
  PROVE  Inv'
<1>1. /\ \A u \in Users : OpShape(op[u]) => OpShape(op'[u])
      /\ \A u \in Users : op'[u].files \subseteq op[u].files /\ op'[u].at \subseteq op[u].at
      /\ \A u \in Users : ~op'[u].marked => ~op[u].marked \/ op'[u].files \union op'[u].at = {}
      /\ sweep.old => \A u \in Users : op'[u].pc = "idle"
  BY RestoreLetsGo DEF Types
<1>2. \A f \in FILES : Off(f)' = Off(f)
  BY DEF Off
<1>3. OnDisk' = OnDisk
  BY DEF OnDisk
<1>4. restore'.pc = "idle" /\ restore'.at = {}
  BY DEF NoRestore
<1>5. \A u \in Users : OpShape(op[u])' = OpShape(op'[u])
  BY DEF OpShape
<1>6. Shapes'
  BY <1>1, <1>4, <1>5 DEF Inv, Shapes, SweepShape, RestoreShape
<1>7. KeptSomewhere'
  BY <1>2, <1>3 DEF Inv, KeptSomewhere
<1>8. SweepSpares'
  BY <1>2 DEF Inv, SweepSpares
<1>9. RestoreSpares'
  BY <1>4 DEF RestoreSpares
<1>10. ClearSpares'
  BY <1>1, <1>2 DEF Inv, ClearSpares, Types, Operation
<1>11. \A f \in OnDisk : InS3(f) => InS3(f)'
  BY <1>1 DEF InS3
<1>12. StampsTrue'
  BY <1>3, <1>4, <1>11 DEF Inv, StampsTrue
<1>13. OldSweep' /\ Evicting'
  BY <1>1, <1>3, <1>4 DEF Inv, OldSweep, Evicting, Shapes, RestoreShape
<1>. QED
  BY <1>6, <1>7, <1>8, <1>9, <1>10, <1>12, <1>13 DEF Inv

\* Every step of a restore.
LEMMA RestoreKeeps ==
  ASSUME Types, Types', Inv, ~spoilt', RestoreStep \/ RestoreFails
  PROVE  Inv'
<1>. USE DEF local, remote, users
<1>1. CASE RestoreLists
  <2>1. /\ restore.pc = "list" /\ restore'.pc = "file" /\ restore'.keys = Copied
        /\ restore'.at = restore.at
        /\ UNCHANGED <<disk, wanted, s3, stamps, evicted, sweep, op, spent>>
    BY <1>1 DEF RestoreLists, Types, Restore
  <2>2. \A f \in FILES : Off(f)' = Off(f) /\ (Off(f) => f \in Copied)
    BY <2>1 DEF Off, Copied, Inv, KeptSomewhere, Types, Numbers
  <2>3. RestoreSpares'
    BY <2>1, <2>2 DEF RestoreSpares
  <2>4. Shapes' /\ StampsTrue' /\ OldSweep'
    BY <2>1 DEF Inv, Shapes, SweepShape, RestoreShape, OpShape, StampsTrue, InS3, OldSweep, OnDisk
  <2>. QED
    BY <2>1, <2>2, <2>3, <2>4
       DEF Inv, KeptSomewhere, SweepSpares, ClearSpares, Evicting, OnDisk, Types, Operation
<1>2. CASE RestoreEnds
  <2>1. \A u \in Users : \/ op[u].pc # "join" /\ op'[u] = op[u]
                         \/ op[u].pc = "join" /\ op'[u] = [op[u] EXCEPT !.pc = "use"]
    BY <1>2 DEF RestoreEnds
  <2>2. \A f \in FILES : ~Off(f)
    BY <1>2 DEF RestoreEnds, Inv, RestoreSpares
  <2>. QED
    BY <1>2, <2>1, <2>2, RestoreEndKeeps DEF RestoreEnds, Types
<1>3. CASE RestoreFails
  <2>1. \A u \in Users : \/ op[u].pc # "join" /\ op'[u] = op[u]
                         \/ op[u].pc = "join" /\ op'[u] \in {[op[u] EXCEPT !.pc = "use"], NoOp}
    BY <1>3 DEF RestoreFails
  <2>2. spent'.losses = spent.losses
    BY <1>3, SpendTypes DEF RestoreFails
  <2>. QED
    BY <1>3, <2>1, <2>2, RestoreEndKeeps DEF RestoreFails
<1>4. ASSUME NEW f \in FILES, RestoreGets(f)
      PROVE  Inv'
  <2>0. /\ \/ f \in OnDisk /\ UNCHANGED spent
           \/ f \in Copied \ OnDisk /\ Lists(OnDisk \ {f})
        /\ f \notin OnDisk => OnDisk \ {f} = OnDisk
    BY <1>4 DEF RestoreGets, Meets
  <2>1. UNCHANGED <<disk, wanted, s3, stamps, evicted, sweep, op, spent>>
    BY <1>4, <2>0 DEF RestoreGets, Lists
  <2>2. restore.pc = "file" /\ restore'.keys = restore.keys \ {f}
    BY <1>4 DEF RestoreGets, Types, Restore
  <2>3. \/ f \in OnDisk /\ restore'.pc = "file" /\ restore'.at = restore.at
        \/ /\ f \in Copied \ OnDisk /\ restore'.pc = "rename" /\ restore'.at = {f}
           /\ restore'.body = s3[f]
    BY <1>4 DEF RestoreGets, Meets, Types, Restore
  <2>4. \A g \in FILES : Off(g)' = Off(g)
    BY <2>1 DEF Off
  <2>5. f \notin OnDisk /\ wanted[f] # 0 => Off(f) /\ s3[f] = wanted[f]
    BY DEF OnDisk, Off, Inv, KeptSomewhere
  <2>6. f \in OnDisk => ~Off(f)
    BY DEF Inv, KeptSomewhere
  <2>7. restore.at = {}
    BY <2>2 DEF Inv, Shapes, RestoreShape
  <2>8. RestoreSpares'
    BY <2>1, <2>2, <2>3, <2>4, <2>5, <2>6, <2>7 DEF Inv, RestoreSpares
  <2>9. Shapes' /\ OldSweep'
    BY <2>1, <2>2, <2>3, <2>7
       DEF Inv, Shapes, SweepShape, RestoreShape, OpShape, OldSweep, OnDisk
  <2>10. StampsTrue'
    <3>1. \A g \in FILES : InS3(g)' = InS3(g)
      BY <2>1 DEF InS3
    <3>. QED
      BY <2>1, <2>3, <2>7, <3>1 DEF Inv, StampsTrue, OnDisk
  <2>. QED
    BY <2>1, <2>4, <2>8, <2>9, <2>10
       DEF Inv, KeptSomewhere, SweepSpares, ClearSpares, Evicting, OnDisk, Types, Operation
<1>5. ASSUME NEW f \in FILES, RestoreRenames(f)
      PROVE  Inv'
  <2>1. UNCHANGED <<wanted, s3, stamps, evicted, sweep, op, spent>>
    BY <1>5 DEF RestoreRenames
  <2>2. /\ restore.pc = "rename" /\ f \in restore.at /\ restore'.pc = "stamp"
        /\ restore'.at = restore.at /\ restore'.keys = restore.keys
    BY <1>5 DEF RestoreRenames, Types, Restore
  <2>3. /\ disk'[f] = [content |-> restore.body, mtime |-> NewMtime(f)]
        /\ \A g \in FILES \ {f} : disk'[g] = disk[g]
    BY <1>5 DEF RestoreRenames, Place, Types
  <2>4. NewMtime(f) \notin {stamps[f], sweep.known[f], sweep.seen[f]}
    BY NewMtimeIsNew
  <2>5. wanted[f] # 0 => Off(f) /\ restore.body = wanted[f] /\ s3[f] = wanted[f]
    BY <2>2 DEF Inv, RestoreSpares, KeptSomewhere
  <2>6. ~Off(f)' /\ \A g \in FILES \ {f} : Off(g)' = Off(g)
    BY <2>1, <2>3, <2>5 DEF Off
  <2>7. restore.at = {f}
    BY <2>2 DEF Inv, Shapes, RestoreShape
  <2>8. ~sweep.old
    BY <2>2 DEF Inv, OldSweep
  <2>9. Shapes' /\ OldSweep' /\ Evicting'
    BY <2>1, <2>2, <2>8
       DEF Inv, Shapes, SweepShape, RestoreShape, OpShape, OldSweep, Evicting
  <2>10. KeptSomewhere' /\ SweepSpares' /\ ClearSpares'
    BY <2>1, <2>3, <2>6
       DEF Inv, KeptSomewhere, SweepSpares, ClearSpares, OnDisk, Types, Operation
  <2>11. RestoreSpares'
    BY <2>1, <2>2, <2>6, <2>7 DEF Inv, RestoreSpares
  <2>12. StampsTrue'
    <3>1. wanted[f] # 0 => InS3(f)'
      BY <2>1, <2>3, <2>5 DEF Inv, InS3, SweepSpares, ClearSpares
    <3>2. \A g \in FILES \ {f} : InS3(g)' = InS3(g)
      BY <2>1, <2>3 DEF InS3
    <3>. QED
      BY <2>1, <2>2, <2>3, <2>4, <2>7, <3>1, <3>2 DEF Inv, StampsTrue, OnDisk
  <2>. QED
    BY <2>9, <2>10, <2>11, <2>12 DEF Inv
<1>6. ASSUME NEW f \in FILES, RestoreStamps(f)
      PROVE  Inv'
  <2>1. UNCHANGED <<disk, wanted, s3, evicted, sweep, op, spent>>
    BY <1>6 DEF RestoreStamps
  <2>2. /\ restore.pc = "stamp" /\ f \in restore.at /\ f \in OnDisk /\ restore'.pc = "file"
        /\ restore'.at = {} /\ restore'.keys = restore.keys
        /\ \A g \in FILES \ {f} : stamps'[g] = stamps[g]
    BY <1>6 DEF RestoreStamps, Types, Restore, Numbers
  <2>3. \A g \in FILES : InS3(g)' = InS3(g) /\ Off(g)' = Off(g)
    BY <2>1 DEF InS3, Off
  <2>4. ~sweep.old
    BY <2>2 DEF Inv, OldSweep
  <2>5. Shapes' /\ OldSweep' /\ Evicting'
    BY <2>1, <2>2, <2>4
       DEF Inv, Shapes, SweepShape, RestoreShape, OpShape, OldSweep, Evicting
  <2>6. KeptSomewhere' /\ SweepSpares' /\ ClearSpares'
    BY <2>1, <2>2, <2>3
       DEF Inv, KeptSomewhere, SweepSpares, ClearSpares, OnDisk, Types, Operation
  <2>7. RestoreSpares'
    BY <2>1, <2>2, <2>3 DEF Inv, RestoreSpares
  <2>8. StampsTrue'
    BY <2>1, <2>2, <2>3 DEF Inv, StampsTrue, OnDisk
  <2>. QED
    BY <2>5, <2>6, <2>7, <2>8 DEF Inv
<1>. QED
  BY <1>1, <1>2, <1>3, <1>4, <1>5, <1>6 DEF RestoreStep

-----------------------------------------------------------------------------
(* The users, the agent and what goes wrong.                                *)

\* An operation that goes on without touching a file.
LEMMA OpMoves ==
  ASSUME Types, Types', Inv, NEW u \in Users, NEW o \in Operation,
         op' = [op EXCEPT ![u] = o],
         OpShape(o), op[u].pc # "join",
         o.pc # "idle" => ~sweep.old,
         ~o.marked => o.at = {} /\ \A f \in o.files : ~Off(f),
         \/ UNCHANGED restore
         \/ o.pc = "join" /\ \E marked \in BOOLEAN : restore' = Joined(marked),
         UNCHANGED <<disk, wanted, s3, stamps, evicted, sweep>>, spent'.losses = spent.losses
  PROVE  Inv'
<1>1. op'[u] = o /\ \A v \in Users \ {u} : op'[v] = op[v]
  BY DEF Types
<1>2. \A f \in FILES : Off(f)' = Off(f)
  BY DEF Off
<1>3. OnDisk' = OnDisk
  BY DEF OnDisk
<1>4. \/ UNCHANGED restore
      \/ /\ restore.pc = "idle" /\ restore.at = {} /\ o.pc = "join"
         /\ restore'.pc = "list" /\ restore'.at = {}
  BY DEF Joined, NoRestore, Inv, Shapes, RestoreShape
<1>5. \A v \in Users : OpShape(op[v])' = OpShape(op'[v])
  BY DEF OpShape
<1>6. Shapes'
  <2>1. SweepShape' /\ \A v \in Users : OpShape(op[v])'
    BY <1>1, <1>5 DEF Inv, Shapes, SweepShape
  <2>2. RestoreShape'
    BY <1>1, <1>4 DEF Inv, Shapes, RestoreShape
  <2>. QED
    BY <2>1, <2>2 DEF Shapes
<1>7. KeptSomewhere' /\ SweepSpares'
  BY <1>2, <1>3 DEF Inv, KeptSomewhere, SweepSpares
<1>8. RestoreSpares'
  BY <1>2, <1>4 DEF Inv, RestoreSpares, Types, Restore
<1>9. ClearSpares'
  BY <1>1, <1>2 DEF Inv, ClearSpares, Types, Operation
<1>10. \A f \in OnDisk : InS3(f) => InS3(f)'
  BY <1>1 DEF InS3
<1>11. StampsTrue'
  BY <1>3, <1>4, <1>10 DEF Inv, StampsTrue
<1>12. OldSweep'
  BY <1>1, <1>3, <1>4 DEF Inv, OldSweep
<1>. QED
  BY <1>6, <1>7, <1>8, <1>9, <1>11, <1>12 DEF Inv, Evicting, OnDisk

\* The steps of that kind.
LEMMA OpMovesKeeps ==
  ASSUME Types, Types', Inv, ~spoilt', NEW u \in Users,
         \/ ReadsMark(u) \/ ListsEmpty(u) \/ Opens(u) \/ PicksCopy(u)
         \/ ClearWaits(u) \/ ClearPicks(u) \/ ClearEnds(u)
         \/ PurgeRemovesDir(u) \/ PurgeDeletesRow(u) \/ OpFails(u)
         \/ \E kind \in Kinds \ {"purge"} : Begins(u, kind)
  PROVE  Inv'
<1>. USE OpMoves DEF local, remote, users
<1>1. /\ op[u] \in Operation /\ OpShape(op[u]) /\ NoOp \in Operation /\ OpShape(NoOp)
      /\ NoOp.pc = "idle" /\ NoOp.files = {} /\ NoOp.at = {} /\ ~NoOp.marked
  BY IdleTypes DEF Types, Inv, Shapes, OpShape, NoOp, PurgePcs
<1>2. sweep.old => op[u].pc = "idle"
  BY DEF Inv, OldSweep
<1>3. ASSUME NEW pc \in OpPcs, op' = [op EXCEPT ![u].pc = pc], op[u].at = {}, op[u].files = {}
      PROVE  \E o \in Operation :
               /\ op' = [op EXCEPT ![u] = o] /\ o.pc = pc /\ o.kind = op[u].kind
               /\ o.at = {} /\ o.files = {}
  <2>. DEFINE o == [op[u] EXCEPT !.pc = pc]
  <2>1. o \in Operation /\ op' = [op EXCEPT ![u] = o]
    BY <1>1, <1>3 DEF Types, Operation
  <2>2. o.pc = pc /\ o.kind = op[u].kind /\ o.at = {} /\ o.files = {}
    BY <1>1, <1>3 DEF Operation
  <2>. HIDE DEF o
  <2>. QED
    BY <2>1, <2>2
<1>4. op' = [op EXCEPT ![u] = NoOp] /\ op[u].pc # "join"
        /\ UNCHANGED <<disk, wanted, s3, stamps, evicted, sweep, restore>>
        /\ spent'.losses = spent.losses
      => Inv'
  BY <1>1
<1>5. CASE ReadsMark(u)
  <2>1. op[u].at = {} /\ op[u].files = {} /\ op[u].pc = "mark" /\ ~sweep.old
    BY <1>1, <1>2, <1>5 DEF ReadsMark, OpShape
  <2>2. CASE evicted
    <3>. PICK pc \in {"known", "join"} :
           /\ op' = [op EXCEPT ![u].pc = pc]
           /\ \/ pc = "known" /\ UNCHANGED restore
              \/ pc = "join" /\ restore' = Joined(TRUE)
      BY <1>5, <2>2 DEF ReadsMark
    <3>1. PICK o \in Operation :
               /\ op' = [op EXCEPT ![u] = o] /\ o.pc = pc /\ o.kind = op[u].kind
               /\ o.at = {} /\ o.files = {}
      BY <1>3, <2>1 DEF OpPcs
    <3>2. OpShape(o)
      BY <1>1, <2>1, <3>1 DEF OpShape, PurgePcs
    <3>. QED
      BY <1>5, <2>1, <3>1, <3>2 DEF ReadsMark
  <2>3. CASE ~evicted
    <3>. DEFINE o == CASE op[u].kind = "open" -> [op[u] EXCEPT !.pc = "empty"]
                       [] op[u].kind = "rest" -> [op[u] EXCEPT !.pc = "use"]
                       [] OTHER -> [op[u] EXCEPT !.kind = "rest"]
    <3>1. o \in Operation /\ o.at = {} /\ o.files = {} /\ o.pc \in {"empty", "use", "mark"}
          /\ o.kind \in {"open", "rest"}
      BY <1>1, <2>1 DEF Operation, OpPcs, Kinds
    <3>2. op' = [op EXCEPT ![u] = o] /\ UNCHANGED restore
      BY <1>5, <2>3 DEF ReadsMark
    <3>. HIDE DEF o
    <3>3. OpShape(o)
      BY <3>1 DEF OpShape, PurgePcs
    <3>. QED
      BY <1>5, <2>1, <3>1, <3>2, <3>3 DEF ReadsMark
  <2>. QED
    BY <2>2, <2>3
<1>6. CASE ListsEmpty(u)
  <2>1. op[u].at = {} /\ op[u].files = {} /\ op[u].pc = "empty" /\ ~sweep.old
    BY <1>1, <1>2, <1>6 DEF ListsEmpty, OpShape
  <2>. PICK pc \in {"use", "join"} :
         /\ spent'.losses = spent.losses
         /\ op' = [op EXCEPT ![u].pc = pc]
         /\ \/ pc = "use" /\ UNCHANGED restore
            \/ pc = "join" /\ restore' = Joined(FALSE)
    BY <1>6, ListsTypes DEF ListsEmpty
  <2>2. PICK o \in Operation :
             /\ op' = [op EXCEPT ![u] = o] /\ o.pc = pc /\ o.kind = op[u].kind
             /\ o.at = {} /\ o.files = {}
    BY <1>3, <2>1 DEF OpPcs
  <2>3. OpShape(o)
    BY <1>1, <2>1, <2>2 DEF OpShape, PurgePcs
  <2>. QED
    BY <1>6, <2>1, <2>2, <2>3 DEF ListsEmpty
<1>7. CASE Opens(u)
  BY <1>4, <1>7 DEF Opens
<1>8. CASE PicksCopy(u)
  <2>1. CASE op' = [op EXCEPT ![u] = NoOp]
    BY <1>4, <1>8, <2>1 DEF PicksCopy
  <2>2. ASSUME NEW f \in Stamped,
               op' = [op EXCEPT ![u] = [@ EXCEPT !.pc = "object", !.at = {f}, !.marked = TRUE]]
        PROVE  Inv'
    <3>. DEFINE o == [op[u] EXCEPT !.pc = "object", !.at = {f}, !.marked = TRUE]
    <3>1. op[u].files = {} /\ ~sweep.old /\ op[u].pc = "known"
      BY <1>1, <1>2, <1>8 DEF PicksCopy, OpShape
    <3>2. o \in Operation /\ o.pc = "object" /\ o.marked /\ o.files = {} /\ o.kind = op[u].kind
      BY <1>1, <3>1 DEF Operation, OpPcs, Stamped
    <3>3. op' = [op EXCEPT ![u] = o]
      BY <2>2
    <3>. HIDE DEF o
    <3>4. OpShape(o)
      BY <1>1, <3>1, <3>2 DEF OpShape, PurgePcs
    <3>. QED
      BY <1>8, <3>1, <3>2, <3>3, <3>4 DEF PicksCopy
  <2>. QED
    BY <1>8, <2>1, <2>2 DEF PicksCopy
<1>9. CASE ClearWaits(u)
  <2>1. op[u].at = {} /\ op[u].files = {} /\ op[u].pc = "pause" /\ ~sweep.old /\ sweep.pc = "idle"
    BY <1>1, <1>2, <1>9 DEF ClearWaits, SweepSettled, OpShape
  <2>2. PICK o \in Operation :
             /\ op' = [op EXCEPT ![u] = o] /\ o.pc = "usage" /\ o.kind = op[u].kind
             /\ o.at = {} /\ o.files = {}
    BY <1>3, <1>9, <2>1 DEF ClearWaits, OpPcs
  <2>3. OpShape(o)
    BY <1>1, <2>1, <2>2 DEF OpShape, PurgePcs
  <2>. QED
    BY <1>9, <2>1, <2>2, <2>3 DEF ClearWaits
<1>10. CASE ClearPicks(u)
  <2>. PICK select \in SUBSET FILES :
         LET files == select \intersect (IF evicted THEN Stamped ELSE OnDisk)
         IN  op' = [op EXCEPT ![u] = [@ EXCEPT !.pc = "next", !.marked = evicted,
                                        !.files = files, !.known = files \intersect Stamped]]
    BY <1>10 DEF ClearPicks
  <2>. DEFINE files == select \intersect (IF evicted THEN Stamped ELSE OnDisk)
              o == [op[u] EXCEPT !.pc = "next", !.marked = evicted,
                                 !.files = files, !.known = files \intersect Stamped]
  <2>1. op[u].at = {} /\ op[u].pc = "usage" /\ ~sweep.old
    BY <1>1, <1>2, <1>10 DEF ClearPicks, OpShape
  <2>2. /\ o \in Operation /\ o.pc = "next" /\ o.marked = evicted /\ o.files = files
        /\ o.at = {} /\ o.kind = op[u].kind
    BY <1>1, <2>1 DEF Operation, OpPcs, Types
  <2>3. op' = [op EXCEPT ![u] = o]
    OBVIOUS
  <2>4. ~evicted => \A f \in files : ~Off(f)
    BY DEF Inv, KeptSomewhere
  <2>. HIDE DEF o, files
  <2>5. op[u].kind = "clear"
    BY <1>1, <2>1 DEF OpShape
  <2>6. OpShape(o)
    BY <1>1, <2>1, <2>2, <2>5 DEF OpShape, PurgePcs
  <2>. QED
    BY <1>10, <2>1, <2>2, <2>3, <2>4, <2>6 DEF ClearPicks
<1>11. CASE ClearEnds(u)
  BY <1>4, <1>11 DEF ClearEnds
<1>12. CASE PurgeRemovesDir(u)
  <2>1. op[u].at = {} /\ op[u].files = {} /\ op[u].pc = "tree" /\ ~sweep.old
    BY <1>1, <1>2, <1>12 DEF PurgeRemovesDir, OpShape, PurgePcs
  <2>2. PICK o \in Operation :
             /\ op' = [op EXCEPT ![u] = o] /\ o.pc = "prefix" /\ o.kind = op[u].kind
             /\ o.at = {} /\ o.files = {}
    BY <1>3, <1>12, <2>1 DEF PurgeRemovesDir, Then, OpPcs, PurgePcs
  <2>3. OpShape(o)
    BY <1>1, <2>1, <2>2 DEF OpShape, PurgePcs
  <2>. QED
    BY <1>12, <2>1, <2>2, <2>3 DEF PurgeRemovesDir
<1>13. CASE PurgeDeletesRow(u)
  BY <1>4, <1>13 DEF PurgeDeletesRow
<1>14. CASE OpFails(u)
  BY <1>4, <1>14, SpendTypes DEF OpFails
<1>15. ASSUME NEW kind \in Kinds \ {"purge"}, Begins(u, kind)
       PROVE  Inv'
  <2>. DEFINE o == [NoOp EXCEPT !.kind = kind, !.pc = FirstStep(kind)]
  <2>1. FirstStep(kind) \in {"mark", "pause"} /\ (FirstStep(kind) = "pause" <=> kind = "clear")
    BY DEF FirstStep, Kinds
  <2>2. /\ o \in Operation /\ o.pc = FirstStep(kind) /\ o.kind = kind
        /\ o.files = {} /\ o.at = {}
    BY <1>1, <2>1 DEF Operation, OpPcs
  <2>3. op' = [op EXCEPT ![u] = o] /\ ~sweep.old /\ op[u].pc = "idle"
    BY <1>15 DEF Begins, Meets
  <2>. HIDE DEF o
  <2>4. OpShape(o)
    BY <2>1, <2>2 DEF OpShape, PurgePcs
  <2>. QED
    BY <1>15, <2>1, <2>2, <2>3, <2>4, SpendTypes DEF Begins
<1>. QED
  BY <1>5, <1>6, <1>7, <1>8, <1>9, <1>10, <1>11, <1>12, <1>13, <1>14, <1>15

\* Of a chat that is being deleted nothing is to be kept.
LEMMA NothingWantedKeeps ==
  ASSUME Types', wanted' = None, Shapes', ~sweep.old, Inv,
         UNCHANGED <<sweep, restore>>, evicted' => evicted
  PROVE  Inv'
<1>1. \A f \in FILES : wanted'[f] = 0 /\ ~Off(f)'
  BY ZeroNumbers DEF Off
<1>2. KeptSomewhere' /\ SweepSpares' /\ RestoreSpares' /\ ClearSpares' /\ StampsTrue'
  BY <1>1 DEF KeptSomewhere, SweepSpares, RestoreSpares, ClearSpares, StampsTrue, OnDisk, Inv,
              Types, Restore, Operation
<1>. QED
  BY <1>2 DEF Inv, OldSweep, Evicting

\* The steps of a purge.
LEMMA PurgeKeeps ==
  ASSUME Types, Types', Inv, ~spoilt', NEW u \in Users,
         \/ Begins(u, "purge") \/ PurgeEmptiesPrefix(u) \/ PurgeForgets(u)
         \/ \E f \in FILES : PurgeUnlinks(u, f)
  PROVE  Inv'
<1>. USE NothingWantedKeeps DEF local, remote, users
<1>1. op[u] \in Operation /\ OpShape(op[u]) /\ (sweep.old => op[u].pc = "idle")
  BY DEF Types, Inv, Shapes, OldSweep
<1>2. ASSUME NEW pc \in PurgePcs, op' = [op EXCEPT ![u].pc = pc], op[u].pc \in PurgePcs,
             wanted' = None, UNCHANGED <<sweep, restore>>
      PROVE  Shapes'
  <2>1. /\ op'[u].pc = pc /\ op'[u].kind = op[u].kind /\ op'[u].at = op[u].at
        /\ op'[u].files = op[u].files /\ \A v \in Users \ {u} : op'[v] = op[v]
    BY <1>1, <1>2 DEF Types, Operation
  <2>2. OpShape(op[u])'
    BY <1>1, <1>2, <2>1 DEF OpShape, PurgePcs
  <2>3. \A v \in Users \ {u} : OpShape(op[v])'
    BY <1>2, <2>1 DEF Inv, Shapes, OpShape
  <2>4. RestoreShape'
    BY <1>2, <2>1 DEF Inv, Shapes, RestoreShape, PurgePcs
  <2>. QED
    BY <1>2, <2>2, <2>3, <2>4 DEF Inv, Shapes, SweepShape
<1>3. op[u].pc \in PurgePcs => wanted = None /\ ~sweep.old
  BY <1>1 DEF OpShape, PurgePcs
<1>4. CASE Begins(u, "purge")
  <2>1. /\ op[u].pc = "idle" /\ ~sweep.old /\ wanted' = None
        /\ UNCHANGED <<sweep, restore, evicted>>
    BY <1>4 DEF Begins, Meets
  <2>2. /\ op'[u].kind = "purge" /\ op'[u].pc = "tree" /\ op'[u].at = {} /\ op'[u].files = {}
        /\ \A v \in Users \ {u} : op'[v] = op[v]
    BY <1>4 DEF Begins, FirstStep, Then, NoOp, Types
  <2>3. \A v \in Users : OpShape(op[v])'
    BY <2>1, <2>2 DEF Inv, Shapes, OpShape, PurgePcs
  <2>4. SweepShape' /\ RestoreShape'
    BY <2>1, <2>2 DEF Inv, Shapes, SweepShape, RestoreShape
  <2>. QED
    BY <2>1, <2>3, <2>4 DEF Shapes
<1>5. CASE PurgeEmptiesPrefix(u)
  <2>1. wanted' = None /\ Shapes'
    BY <1>2, <1>3, <1>5 DEF PurgeEmptiesPrefix, Then, PurgePcs
  <2>. QED
    BY <1>3, <1>5, <2>1 DEF PurgeEmptiesPrefix, PurgePcs
<1>6. CASE PurgeForgets(u)
  <2>1. wanted' = None /\ Shapes'
    BY <1>2, <1>3, <1>6 DEF PurgeForgets, Then, PurgePcs
  <2>. QED
    BY <1>3, <1>6, <2>1 DEF PurgeForgets, PurgePcs
<1>7. ASSUME NEW f \in FILES, PurgeUnlinks(u, f)
      PROVE  Inv'
  <2>1. wanted' = None
    BY <1>3, <1>7 DEF PurgeUnlinks, PurgePcs
  <2>2. Shapes'
    BY <1>7 DEF PurgeUnlinks, Inv, Shapes, SweepShape, RestoreShape, OpShape
  <2>. QED
    BY <1>3, <1>7, <2>1, <2>2 DEF PurgeUnlinks, PurgePcs
<1>. QED
  BY <1>4, <1>5, <1>6, <1>7

\* Writing and removing a file, by a request that is then over or by the agent.
LEMMA TouchKeeps ==
  ASSUME Types, Types', Inv, NEW f \in FILES,
         WriteTo(f) \/ (RemoveFrom(f) /\ UNCHANGED spent),
         ~Moving,
         UNCHANGED <<s3, stamps, evicted, sweep, restore>>,
         \A u \in Users : op'[u] = op[u] \/ (op'[u] = NoOp /\ op[u].pc # "join")
  PROVE  Inv'
<1>1. \A g \in FILES \ {f} : disk'[g] = disk[g] /\ wanted'[g] = wanted[g]
  BY DEF WriteTo, Place, RemoveFrom, Unlink, Types, Numbers
<1>2. ~Off(f)' /\ spent'.losses = spent.losses
  <2>1. CASE WriteTo(f)
    <3>1. disk'[f].content = spent.writes + 1
      BY <2>1 DEF WriteTo, Place, Types
    <3>2. CASE Purging
      <4>1. wanted = None
        BY <3>2 DEF Purging, Inv, Shapes, OpShape
      <4>. QED
        BY <2>1, <3>2, <4>1, ZeroNumbers, SpendTypes DEF WriteTo, Off
    <3>3. CASE ~Purging
      BY <2>1, <3>1, <3>3, SpendTypes DEF WriteTo, Off, Types, Numbers
    <3>. QED
      BY <3>2, <3>3
  <2>2. CASE RemoveFrom(f) /\ UNCHANGED spent
    BY <2>2 DEF RemoveFrom, Off, Types, Numbers
  <2>. QED
    BY <2>1, <2>2
<1>3. Purging => wanted' = None
  <2>. SUFFICES ASSUME Purging
                PROVE  wanted' = None
    OBVIOUS
  <2>1. wanted = None
    BY DEF Purging, Inv, Shapes, OpShape
  <2>2. RemoveFrom(f) => wanted' = None
    BY <2>1 DEF RemoveFrom, None
  <2>. QED
    BY <2>1, <2>2 DEF WriteTo
<1>4. restore.pc = "idle" /\ ~sweep.old
  BY DEF Moving
<1>5. f \notin OnDisk' \/ disk'[f].mtime \notin {stamps[f], sweep.known[f], sweep.seen[f]}
  <2>1. CASE WriteTo(f)
    <3>1. disk'[f].mtime = NewMtime(f)
      BY <2>1 DEF WriteTo, Place, Types
    <3>. QED
      BY <3>1, NewMtimeIsNew
  <2>2. CASE RemoveFrom(f)
    BY <2>2 DEF RemoveFrom, Unlink, NoFile, OnDisk, Types
  <2>. QED
    BY <2>1, <2>2
<1>6. \A g \in FILES \ {f} : Off(g)' = Off(g) /\ (g \in OnDisk' <=> g \in OnDisk)
  BY <1>1 DEF Off, OnDisk
<1>7. Shapes'
  <2>1. \A u \in Users : OpShape(op[u])'
    <3>. SUFFICES ASSUME NEW u \in Users
                  PROVE  OpShape(op[u])'
      OBVIOUS
    <3>1. CASE op'[u] = op[u]
      <4>1. op[u].kind = "purge" /\ op[u].pc # "idle" => wanted' = None
        BY <1>3 DEF Purging
      <4>. QED
        BY <3>1, <4>1 DEF Inv, Shapes, OpShape
    <3>2. CASE op'[u] = NoOp
      BY <3>2 DEF OpShape, NoOp, PurgePcs
    <3>. QED
      BY <3>1, <3>2
  <2>. QED
    BY <2>1 DEF Inv, Shapes, SweepShape, RestoreShape
<1>8. KeptSomewhere' /\ SweepSpares'
  BY <1>1, <1>2, <1>6 DEF Inv, KeptSomewhere, SweepSpares
<1>9. RestoreSpares' /\ OldSweep'
  BY <1>4 DEF RestoreSpares, OldSweep
<1>10. ClearSpares'
  BY <1>2, <1>6 DEF Inv, ClearSpares, NoOp, Types, Operation
<1>11. \A g \in FILES \ {f} : InS3(g) => InS3(g)'
  BY <1>1 DEF InS3, NoOp
<1>12. StampsTrue'
  BY <1>1, <1>4, <1>5, <1>6, <1>11 DEF Inv, StampsTrue, OnDisk
<1>. QED
  BY <1>4, <1>7, <1>8, <1>9, <1>10, <1>12 DEF Inv, Evicting

\* The actions that write or remove a file.
LEMMA WritesKeep ==
  ASSUME Types, Types', Inv, ~spoilt',
         \/ \E u \in Users : Serves(u)
         \/ \E f \in FILES : AgentWrites(f) \/ AgentRemoves(f)
  PROVE  Inv'
<1>. USE DEF local, remote, users
<1>1. ASSUME NEW u \in Users, Serves(u)
      PROVE  Inv'
  <2>1. UNCHANGED <<s3, stamps, evicted, sweep, restore>>
    BY <1>1 DEF Serves
  <2>2. \A v \in Users : op'[v] = op[v] \/ (op'[v] = NoOp /\ op[v].pc # "join")
    BY <1>1 DEF Serves, Types
  <2>3. CASE UNCHANGED <<local, spent>>
    <3>1. op' = [op EXCEPT ![u] = NoOp] /\ NoOp \in Operation /\ OpShape(NoOp)
          /\ op[u].pc # "join" /\ NoOp.pc = "idle" /\ NoOp.files = {} /\ NoOp.at = {}
      BY <1>1, IdleTypes DEF Serves, OpShape, NoOp, PurgePcs
    <3>. QED
      BY <2>1, <2>3, <3>1, OpMoves
  <2>4. ASSUME NEW f \in FILES, ~Moving, WriteTo(f) \/ (RemoveFrom(f) /\ UNCHANGED spent)
        PROVE  Inv'
    BY <2>1, <2>2, <2>4, TouchKeeps
  <2>. QED
    BY <1>1, <2>3, <2>4 DEF Serves, Meets
<1>2. ASSUME NEW f \in FILES, AgentWrites(f) \/ AgentRemoves(f)
      PROVE  Inv'
  <2>1. /\ ~Moving /\ UNCHANGED <<s3, stamps, evicted, sweep, restore, op>>
        /\ WriteTo(f) \/ (RemoveFrom(f) /\ UNCHANGED spent)
    BY <1>2 DEF AgentWrites, AgentRemoves, Meets
  <2>. QED
    BY <2>1, TouchKeeps
<1>. QED
  BY <1>1, <1>2

\* The copy goes; the file was removed by the user, or its removal has been forgotten.
LEMMA DeletesObjectKeeps ==
  ASSUME Types, Types', Inv, NEW u \in Users, NEW f \in FILES, DeletesObject(u, f)
  PROVE  Inv'
<1>. USE DEF local, remote, users
<1>1. /\ op[u].pc = "object" /\ f \in op[u].at
      /\ op[u] \in Operation /\ OpShape(op[u]) /\ ~sweep.old
  BY DEF DeletesObject, Types, Inv, Shapes, OldSweep
<1>2. /\ op'[u] = [op[u] EXCEPT !.pc = "forget"]
      /\ \A v \in Users \ {u} : op'[v] = op[v]
  BY DEF DeletesObject, Types
<1>3. /\ op'[u].pc = "forget" /\ op'[u].kind = op[u].kind /\ op'[u].marked = op[u].marked
      /\ op'[u].at = op[u].at /\ op'[u].files = op[u].files
  BY <1>1, <1>2 DEF Operation
<1>4. /\ UNCHANGED <<disk, stamps, evicted, sweep, restore, spent>>
      /\ \A g \in FILES \ {f} : s3'[g] = s3[g] /\ wanted'[g] = wanted[g]
  BY DEF DeletesObject, Types, Numbers
<1>5. \/ op[u].marked /\ wanted'[f] = 0
      \/ ~op[u].marked /\ wanted' = wanted /\ ~Off(f) /\ sweep.pc = "idle"
  <2>1. ~op[u].marked => ~Off(f)
    BY <1>1 DEF Inv, ClearSpares
  <2>2. ~op[u].marked => sweep.pc = "idle"
    BY <1>1 DEF OpShape
  <2>. QED
    BY <2>1, <2>2 DEF DeletesObject, Types, Numbers
<1>6. ~Off(f)' /\ \A g \in FILES \ {f} : Off(g)' = Off(g)
  BY <1>4, <1>5 DEF Off
<1>7. OnDisk' = OnDisk
  BY <1>4 DEF OnDisk
<1>8. Shapes'
  <2>1. wanted = None => wanted' = None
    BY DEF DeletesObject, None
  <2>2. \A v \in Users \ {u} : OpShape(op[v])'
    BY <1>2, <1>4, <2>1 DEF Inv, Shapes, OpShape
  <2>3. OpShape(op[u])'
    BY <1>1, <1>3, <1>4, <2>1 DEF OpShape, PurgePcs
  <2>4. SweepShape' /\ RestoreShape'
    BY <1>1, <1>2, <1>4 DEF Inv, Shapes, SweepShape, RestoreShape
  <2>. QED
    BY <2>2, <2>3, <2>4 DEF Shapes
<1>9. KeptSomewhere' /\ SweepSpares'
  BY <1>4, <1>6, <1>7 DEF Inv, KeptSomewhere, SweepSpares
<1>10. RestoreSpares'
  BY <1>4, <1>5, <1>6 DEF Inv, RestoreSpares, Types, Restore
<1>11. ClearSpares'
  BY <1>2, <1>3, <1>6 DEF Inv, ClearSpares, Types, Operation
<1>12. StampsTrue'
  <2>1. \A g \in FILES \ {f} : InS3(g) => InS3(g)'
    BY <1>2, <1>3, <1>4 DEF InS3
  <2>2. ~op[u].marked => ~InS3(f)
    BY <1>1 DEF InS3
  <2>. QED
    BY <1>4, <1>5, <1>7, <2>1, <2>2 DEF Inv, StampsTrue, OnDisk
<1>. QED
  BY <1>1, <1>4, <1>8, <1>9, <1>10, <1>11, <1>12, <1>5 DEF Inv, OldSweep, Evicting

\* A stamp goes only after its copy.
LEMMA ForgetsStampKeeps ==
  ASSUME Types, Types', Inv, NEW u \in Users, NEW f \in FILES, ForgetsStamp(u, f)
  PROVE  Inv'
<1>. USE DEF local, remote, users
<1>1. /\ op[u].pc = "forget" /\ op[u] \in Operation /\ OpShape(op[u]) /\ ~sweep.old
      /\ op[u].at # {}
  BY DEF ForgetsStamp, Types, Inv, Shapes, OldSweep
<1>2. /\ UNCHANGED <<disk, wanted, s3, evicted, sweep, restore, spent>>
      /\ stamps'[f] = 0 /\ \A g \in FILES \ {f} : stamps'[g] = stamps[g]
      /\ \A v \in Users \ {u} : op'[v] = op[v]
  BY DEF ForgetsStamp, Types, Numbers
<1>3. \/ /\ op[u].kind = "clear" /\ op'[u].kind = "clear" /\ op'[u].pc = "next"
         /\ op'[u].at = {} /\ op'[u].files = op[u].files /\ op'[u].marked = op[u].marked
      \/ op'[u] = NoOp
  BY <1>1 DEF ForgetsStamp, Types, Operation
<1>4. \A g \in FILES : Off(g)' = Off(g)
  BY <1>2 DEF Off
<1>5. OnDisk' = OnDisk
  BY <1>2 DEF OnDisk
<1>6. Shapes'
  <2>1. OpShape(op[u])'
    BY <1>1, <1>2, <1>3 DEF OpShape, NoOp, PurgePcs
  <2>2. \A v \in Users \ {u} : OpShape(op[v])'
    BY <1>2 DEF Inv, Shapes, OpShape
  <2>3. SweepShape' /\ RestoreShape'
    BY <1>1, <1>2 DEF Inv, Shapes, SweepShape, RestoreShape
  <2>. QED
    BY <2>1, <2>2, <2>3 DEF Shapes
<1>7. KeptSomewhere' /\ SweepSpares' /\ RestoreSpares'
  BY <1>2, <1>4, <1>5 DEF Inv, KeptSomewhere, SweepSpares, RestoreSpares, Types, Restore
<1>8. ClearSpares'
  BY <1>2, <1>3, <1>4 DEF Inv, ClearSpares, NoOp, Types, Operation
<1>9. StampsTrue'
  <2>1. \A g \in FILES : InS3(g) => InS3(g)'
    BY <1>2, <1>3 DEF InS3, NoOp
  <2>2. \A g \in OnDisk : disk[g].mtime # 0
    BY DEF OnDisk, Types, File
  <2>. QED
    BY <1>2, <1>5, <2>1, <2>2 DEF Inv, StampsTrue, OnDisk
<1>. QED
  BY <1>1, <1>2, <1>5, <1>6, <1>7, <1>8, <1>9, ZeroNumbers DEF Inv, OldSweep, Evicting

\* deleteFiles() removes a file from the disk before its copy, which is then wanted no more.
LEMMA ClearDeletesKeeps ==
  ASSUME Types, Types', Inv, NEW u \in Users, NEW f \in FILES, ClearDeletes(u, f)
  PROVE  Inv'
<1>. USE DEF local, remote, users
<1>1. /\ op[u].pc = "next" /\ f \in op[u].files /\ op[u].kind = "clear" /\ op[u].at = {}
      /\ op[u] \in Operation /\ OpShape(op[u]) /\ ~sweep.old /\ sweep.pc = "idle"
  BY DEF ClearDeletes, Types, Inv, Shapes, OldSweep, OpShape
<1>2. /\ UNCHANGED <<s3, stamps, evicted, sweep, restore, spent>>
      /\ \A v \in Users \ {u} : op'[v] = op[v]
  BY DEF ClearDeletes, Types
<1>3. /\ op'[u].kind = "clear" /\ op'[u].files = op[u].files \ {f}
      /\ op'[u].marked = op[u].marked
      /\ \/ op'[u].pc = "next" /\ op'[u].at = {}
         \/ op'[u].pc = "object" /\ op'[u].at = {f} /\ (RemoveFrom(f) \/ op[u].marked)
  <2>1. CASE f \in op[u].known
    BY <1>1, <2>1 DEF ClearDeletes, Types, Operation
  <2>2. CASE f \notin op[u].known
    BY <1>1, <2>2 DEF ClearDeletes, Types, Operation
  <2>. QED
    BY <2>1, <2>2
<1>4. \/ UNCHANGED <<disk, wanted>> /\ (op[u].marked \/ op'[u].at = {})
      \/ RemoveFrom(f) /\ ~op[u].marked
  BY <1>3 DEF ClearDeletes
<1>5. CASE UNCHANGED <<disk, wanted>> /\ (op[u].marked \/ op'[u].at = {})
  <2>1. op' = [op EXCEPT ![u] = op'[u]] /\ op'[u] \in Operation
    BY <1>2 DEF Types
  <2>2. OpShape(op'[u])
    BY <1>1, <1>3 DEF OpShape, PurgePcs
  <2>3. ~op[u].marked => \A g \in op'[u].files : ~Off(g)
    BY <1>3 DEF Inv, ClearSpares
  <2>. DEFINE o == op'[u]
  <2>. HIDE DEF o
  <2>. QED
    BY <1>1, <1>2, <1>3, <1>5, <2>1, <2>2, <2>3, OpMoves DEF o
<1>6. CASE RemoveFrom(f) /\ ~op[u].marked
  <2>1. /\ f \in OnDisk /\ f \notin OnDisk' /\ wanted'[f] = 0
        /\ \A g \in FILES \ {f} : disk'[g] = disk[g] /\ wanted'[g] = wanted[g]
    BY <1>6 DEF RemoveFrom, Unlink, OnDisk, NoFile, Types, Numbers
  <2>2. ~Off(f)' /\ \A g \in FILES \ {f} : Off(g)' = Off(g)
    BY <2>1 DEF Off
  <2>3. \A g \in FILES \ {f} : g \in OnDisk' <=> g \in OnDisk
    BY <2>1 DEF OnDisk
  <2>4. Shapes'
    <3>1. wanted = None => wanted' = None
      BY <1>6 DEF RemoveFrom, None
    <3>2. OpShape(op[u])'
      BY <1>1, <1>2, <1>3, <3>1 DEF OpShape, PurgePcs
    <3>3. \A v \in Users \ {u} : OpShape(op[v])'
      BY <1>2, <3>1 DEF Inv, Shapes, OpShape
    <3>4. SweepShape' /\ RestoreShape'
      BY <1>1, <1>2 DEF Inv, Shapes, SweepShape, RestoreShape
    <3>. QED
      BY <3>2, <3>3, <3>4 DEF Shapes
  <2>5. KeptSomewhere' /\ SweepSpares'
    BY <1>2, <2>1, <2>2, <2>3 DEF Inv, KeptSomewhere, SweepSpares, OnDisk
  <2>6. RestoreSpares'
    BY <1>2, <2>1, <2>2 DEF Inv, RestoreSpares, Types, Restore
  <2>7. ClearSpares'
    BY <1>2, <1>3, <2>2 DEF Inv, ClearSpares, Types, Operation
  <2>8. StampsTrue'
    <3>1. \A g \in FILES \ {f} : InS3(g) => InS3(g)'
      BY <1>2, <1>3, <2>1 DEF InS3
    <3>. QED
      BY <1>2, <2>1, <2>3, <3>1 DEF Inv, StampsTrue, OnDisk
  <2>. QED
    BY <1>1, <1>2, <2>4, <2>5, <2>6, <2>7, <2>8 DEF Inv, OldSweep, Evicting
<1>. QED
  BY <1>4, <1>5, <1>6

\* A chat that closes, a crash, and the loss of what Redis knew.
LEMMA OthersKeep ==
  ASSUME Types, Types', Inv, ChatCloses \/ Crash \/ RedisIsLost \/ UNCHANGED vars
  PROVE  Inv'
<1>. USE DEF local, remote, users
<1>1. CASE ChatCloses \/ UNCHANGED vars
  <2>1. UNCHANGED <<disk, wanted, s3, stamps, evicted, sweep, restore, op, spent>>
    BY <1>1 DEF ChatCloses, vars
  <2>. QED
    BY <2>1 DEF Inv, Shapes, SweepShape, RestoreShape, OpShape, KeptSomewhere, SweepSpares,
       RestoreSpares, ClearSpares, StampsTrue, InS3, OldSweep, Evicting, Off, OnDisk
<1>2. CASE Crash
  <2>1. /\ sweep' = NoSweep /\ restore' = NoRestore /\ \A u \in Users : op'[u] = NoOp
        /\ UNCHANGED <<disk, wanted, s3, stamps, evicted>> /\ spent'.losses = spent.losses
    BY <1>2, SpendTypes DEF Crash
  <2>2. Shapes'
    BY <2>1 DEF Shapes, SweepShape, RestoreShape, OpShape, NoSweep, NoRestore, NoOp, PurgePcs
  <2>3. KeptSomewhere' /\ SweepSpares' /\ RestoreSpares' /\ ClearSpares'
    BY <2>1, ZeroNumbers DEF Inv, KeptSomewhere, SweepSpares, RestoreSpares, ClearSpares,
       Off, OnDisk, NoSweep, NoRestore, NoOp
  <2>4. StampsTrue'
    BY <2>1 DEF Inv, StampsTrue, InS3, OnDisk, NoSweep, NoRestore, NoOp
  <2>. QED
    BY <2>1, <2>2, <2>3, <2>4 DEF Inv, OldSweep, Evicting, NoSweep
<1>3. CASE RedisIsLost
  <2>1. /\ stamps' = None /\ ~evicted' /\ spent'.losses # 0
        /\ UNCHANGED <<disk, wanted, s3, sweep, restore, op>>
    BY <1>3, SpendTypes DEF RedisIsLost, Types
  <2>2. Shapes'
    BY <2>1 DEF Inv, Shapes, SweepShape, RestoreShape, OpShape
  <2>3. KeptSomewhere' /\ SweepSpares' /\ RestoreSpares' /\ ClearSpares'
    BY <2>1, ZeroNumbers DEF Inv, KeptSomewhere, SweepSpares, RestoreSpares, ClearSpares,
       Off, OnDisk, Types, Operation
  <2>4. StampsTrue'
    <3>1. \A f \in OnDisk : disk[f].mtime # 0
      BY DEF OnDisk, Types, File
    <3>2. \A f \in FILES : InS3(f)' = InS3(f)
      BY <2>1 DEF InS3
    <3>. QED
      BY <2>1, <3>1, <3>2, ZeroNumbers DEF Inv, StampsTrue, OnDisk
  <2>. QED
    BY <2>1, <2>2, <2>3, <2>4 DEF Inv, OldSweep, Evicting, OnDisk
<1>. QED
  BY <1>1, <1>2, <1>3

\* The invariant holds at the start.
LEMMA InvInit == Init => Inv
<1>. SUFFICES ASSUME Init
              PROVE  Inv
  OBVIOUS
<1>1. Shapes
  BY DEF Init, Shapes, SweepShape, RestoreShape, OpShape, NoSweep, NoRestore, NoOp, PurgePcs
<1>2. \A f \in FILES : ~Off(f) /\ wanted[f] = 0
  BY ZeroNumbers DEF Init, Off
<1>3. KeptSomewhere /\ SweepSpares /\ RestoreSpares /\ ClearSpares /\ StampsTrue
  BY <1>2 DEF Init, KeptSomewhere, SweepSpares, RestoreSpares, ClearSpares, StampsTrue, OnDisk,
              NoSweep, NoRestore, NoOp
<1>. QED
  BY <1>1, <1>3 DEF Init, Inv, OldSweep, Evicting, NoSweep

\* What has been spoilt stays so.
LEMMA SpoiltStays ==
  ASSUME [Next]_vars, ~spoilt'
  PROVE  ~spoilt
<1>. USE DEF local, Meets
<1>1. CASE SweepBegins \/ SweepStep \/ SweepUploadFails \/ SweepThrows
  BY <1>1 DEF SweepBegins, SweepStep, SweepUploadFails, SweepThrows, SweepReadsMark,
     SweepReadsStamps, SweepLists, SweepEnds, SweepEvicts, SweepRemovesDir, SweepReads, SweepPuts,
     SweepStamps, SweepDeletes, SweepForgets, SweepUnlinks
<1>2. CASE RestoreStep \/ RestoreFails
  BY <1>2 DEF RestoreStep, RestoreFails, RestoreLists, RestoreEnds, RestoreGets, RestoreRenames,
     RestoreStamps
<1>3. ASSUME NEW u \in Users, OpStep(u)
      PROVE  ~spoilt
  BY <1>3 DEF OpStep, ReadsMark, ListsEmpty, Opens, Serves, PicksCopy, ClearWaits, ClearPicks,
     ClearEnds, PurgeRemovesDir, PurgeEmptiesPrefix, PurgeForgets, PurgeDeletesRow, DeletesObject,
     ForgetsStamp, ClearDeletes, PurgeUnlinks
<1>4. ASSUME NEW u \in Users, OpFails(u) \/ \E kind \in Kinds : Begins(u, kind)
      PROVE  ~spoilt
  BY <1>4 DEF OpFails, Begins
<1>5. CASE \E f \in FILES : SweepDeleteFails(f) \/ AgentWrites(f) \/ AgentRemoves(f)
  BY <1>5 DEF SweepDeleteFails, AgentWrites, AgentRemoves
<1>6. CASE ChatCloses \/ Crash \/ RedisIsLost \/ UNCHANGED vars
  BY <1>6 DEF ChatCloses, Crash, RedisIsLost, vars
<1>. QED
  BY <1>1, <1>2, <1>3, <1>4, <1>5, <1>6 DEF Next

\* Every step that spoils nothing keeps the invariant.
LEMMA InvNext ==
  ASSUME Types, spoilt \/ Inv, [Next]_vars
  PROVE  Types' /\ (spoilt' \/ Inv')
<1>1. Types'
  BY NextTypes
<1>. SUFFICES ASSUME ~spoilt'
              PROVE  Inv'
  BY <1>1
<1>2. Inv
  BY SpoiltStays
<1>3. ASSUME NEW u \in Users, OpStep(u) \/ OpFails(u) \/ \E kind \in Kinds : Begins(u, kind)
      PROVE  Inv'
  BY <1>1, <1>2, <1>3, OpMovesKeeps, PurgeKeeps, WritesKeep, DeletesObjectKeeps,
     ForgetsStampKeeps, ClearDeletesKeeps DEF OpStep
<1>. QED
  BY <1>1, <1>2, <1>3, SweepKeeps, RestoreKeeps, WritesKeep, OthersKeep DEF Next

\* So it holds until something is spoilt.
LEMMA ArchiveInvariant == Spec => [](spoilt \/ Inv)
<1>1. Init => Types /\ (spoilt \/ Inv)
  BY InitTypes, InvInit
<1>2. Types /\ (spoilt \/ Inv) /\ [Next]_vars => Types' /\ (spoilt \/ Inv)'
  BY InvNext
<1>. QED
  BY <1>1, <1>2, PTL DEF Spec

-----------------------------------------------------------------------------
(* Nothing is lost.                                                         *)

\* A file is in its last state on the disk or in S3, wherever the gateway dies and whichever call
\* on S3 or on Redis fails, unless an old directory was used while it was swept, a directory was
\* changed while it was restored, or a listing missed a file.
THEOREM NothingIsLost == Spec => []NothingLost
<1>1. spoilt \/ Inv => NothingLost
  BY DEF Inv, KeptSomewhere, Off, NothingLost, FilesKept
<1>. QED
  BY <1>1, ArchiveInvariant, PTL

\* With the same exceptions, and as long as Redis keeps what it was told, a file that the disk
\* has not as the user left it belongs to a directory that is marked.
THEOREM OpeningRestores == Spec => []NextOpenRestores
<1>1. spoilt \/ Inv => NextOpenRestores
  BY DEF Inv, KeptSomewhere, Off, NextOpenRestores
<1>. QED
  BY <1>1, ArchiveInvariant, PTL

\* Types of the archive, for any number of files, requests, writes and failures.
THEOREM ArchiveTypeCorrect == Spec => []Types
BY InitTypes, NextTypes, PTL DEF Spec

\* A file that the user has and whose stamp is the mtime it has on the disk is in S3 as it is,
\* unless something is spoilt.
StampMeansCopy ==
  spoilt \/ \A f \in OnDisk :
              wanted[f] # 0 /\ stamps[f] = disk[f].mtime => s3[f] = disk[f].content

\* The sweep may leave out what its stamp says is archived (workspace-archive.ts compares mtime and
\* size, never the contents), with the exceptions of NothingIsLost.
THEOREM StampsMeanCopies == Spec => []StampMeansCopy
<1>1. spoilt \/ Inv => StampMeansCopy
  BY DEF Inv, StampsTrue, InS3, StampMeansCopy
<1>. QED
  BY <1>1, ArchiveInvariant, PTL

-----------------------------------------------------------------------------
(* The deletion of files by their user.                                     *)

\* No pass is under way while files are deleted, and what the deletion is through with has left S3.
ClearInv ==
  \A u \in Users :
    /\ op[u].kind = "clear" => op[u].pc \in {"idle", "pause", "usage", "next", "object", "forget"}
    /\ op[u].pc \in {"pause", "usage", "next"} => op[u].kind = "clear"
    /\ \A f, g \in op[u].at : f = g
    /\ op[u].kind = "clear" /\ op[u].pc \notin {"idle", "pause"} => sweep.pc = "idle"
    /\ op[u].kind = "clear" /\ op[u].pc \in {"next", "object", "forget"} =>
         \A f \in op[u].known : \/ f \in op[u].files
                                \/ op[u].pc = "object" /\ f \in op[u].at
                                \/ s3[f] = 0

\* Nothing is deleted at the start.
LEMMA ClearInit == Init => ClearInv
BY DEF Init, ClearInv, NoOp

\* The sweep puts no copy while files are deleted.
LEMMA SweepClears ==
  ASSUME Types, ClearInv,
         \/ SweepBegins \/ SweepStep \/ SweepUploadFails \/ SweepThrows
         \/ \E f \in FILES : SweepDeleteFails(f)
  PROVE  ClearInv'
<1>. USE DEF local, remote, users
<1>1. UNCHANGED op
  BY DEF SweepStep, SweepBegins, SweepReadsMark, SweepReadsStamps, SweepLists, SweepEnds,
     SweepEvicts, SweepRemovesDir, SweepUploadFails, SweepThrows, SweepReads, SweepPuts,
     SweepStamps, SweepDeletes, SweepForgets, SweepUnlinks, SweepDeleteFails
<1>2. CASE SweepBegins
  BY ZenonT(30), <1>1, <1>2 DEF SweepBegins, Paused, ClearInv
<1>3. CASE ~SweepBegins
  <2>1. sweep.pc = "idle" => FALSE
    BY <1>3 DEF SweepStep, SweepReadsMark, SweepReadsStamps, SweepLists, SweepEnds, SweepDone,
       SweepEvicts, SweepRemovesDir, SweepUploadFails, SweepThrows, SweepReads, SweepPuts,
       SweepStamps, SweepDeletes, SweepForgets, SweepUnlinks, SweepDeleteFails
  <2>. QED
    BY <1>1, <2>1 DEF ClearInv
<1>. QED
  BY <1>2, <1>3

\* A step of one operation: what it is then, and that it puts nothing into S3.
LEMMA OneOpClears ==
  ASSUME Types, ClearInv, NEW u \in Users, NEW o, op' = [op EXCEPT ![u] = o],
         UNCHANGED sweep, \A f \in FILES : s3'[f] \in {0, s3[f]},
         o.kind = "clear" => o.pc \in {"idle", "pause", "usage", "next", "object", "forget"},
         o.pc \in {"pause", "usage", "next"} => o.kind = "clear",
         o.at \in {{}, op[u].at} \/ \E f \in FILES : o.at = {f},
         o.kind = "clear" /\ o.pc \notin {"idle", "pause"} => sweep.pc = "idle",
         o.kind = "clear" /\ o.pc \in {"next", "object", "forget"} =>
           \A f \in o.known : f \in o.files \/ (o.pc = "object" /\ f \in o.at) \/ s3'[f] = 0
  PROVE  ClearInv'
<1>1. op'[u] = o /\ \A v \in Users \ {u} : op'[v] = op[v]
  BY DEF Types
<1>2. \A v \in Users : op[v].known \subseteq FILES
  BY DEF Types, Operation
<1>. QED
  BY <1>1, <1>2 DEF ClearInv

\* Every step of an operation.
LEMMA OpClears ==
  ASSUME Types, ClearInv, NEW u \in Users,
         OpStep(u) \/ OpFails(u) \/ \E kind \in Kinds : Begins(u, kind)
  PROVE  ClearInv'
<1>. USE DEF local, remote, users
<1>0. op[u] \in Operation
  BY DEF Types
<1>1. ASSUME NEW kind \in Kinds, Begins(u, kind)
      PROVE  ClearInv'
  <2>. DEFINE o == [NoOp EXCEPT !.kind = kind, !.pc = FirstStep(kind)]
  <2>1. /\ o.kind = kind /\ o.pc = FirstStep(kind) /\ o.at = {}
        /\ op' = [op EXCEPT ![u] = o] /\ UNCHANGED <<sweep, s3>>
    BY <1>1 DEF Begins, NoOp
  <2>2. /\ kind = "clear" => FirstStep(kind) = "pause"
        /\ kind # "clear" => FirstStep(kind) \in {"mark", "tree"}
    BY DEF FirstStep, Then, Kinds
  <2>. HIDE DEF o
  <2>. QED
    BY <2>1, <2>2, OneOpClears
<1>2. ASSUME NEW pc, pc \in {"known", "join", "empty", "use", "prefix", "stamps", "row"},
             op[u].pc \in {"mark", "empty", "tree", "prefix", "stamps"},
             op' = [op EXCEPT ![u].pc = pc], UNCHANGED sweep, \A f \in FILES : s3'[f] \in {0, s3[f]}
      PROVE  ClearInv'
  <2>. DEFINE o == [op[u] EXCEPT !.pc = pc]
  <2>1. op' = [op EXCEPT ![u] = o] /\ o.kind = op[u].kind /\ o.pc = pc /\ o.at = op[u].at
    BY <1>0, <1>2 DEF Operation
  <2>2. op[u].kind # "clear"
    BY <1>2 DEF ClearInv
  <2>. HIDE DEF o
  <2>. QED
    BY <1>2, <2>1, <2>2, OneOpClears
<1>3. CASE ReadsMark(u)
  <2>1. CASE evicted
    BY <1>2, <1>3, <2>1 DEF ReadsMark
  <2>2. CASE ~evicted
    <3>. DEFINE o == CASE op[u].kind = "open" -> [op[u] EXCEPT !.pc = "empty"]
                       [] op[u].kind = "rest" -> [op[u] EXCEPT !.pc = "use"]
                       [] OTHER -> [op[u] EXCEPT !.kind = "rest"]
    <3>1. /\ o.kind # "clear" /\ o.pc \in {"empty", "use", "mark"} /\ o.at = op[u].at
          /\ op' = [op EXCEPT ![u] = o] /\ UNCHANGED <<sweep, s3>>
      BY <1>0, <1>3, <2>2 DEF ReadsMark, Operation
    <3>. HIDE DEF o
    <3>. QED
      BY <3>1, OneOpClears
  <2>. QED
    BY <2>1, <2>2
<1>4. CASE ListsEmpty(u)
  BY <1>2, <1>4 DEF ListsEmpty
<1>5. ASSUME op' = [op EXCEPT ![u] = NoOp], UNCHANGED sweep, \A f \in FILES : s3'[f] \in {0, s3[f]}
      PROVE  ClearInv'
  BY <1>5, OneOpClears DEF NoOp
<1>6. CASE Opens(u) \/ Serves(u) \/ ClearEnds(u) \/ PurgeDeletesRow(u) \/ OpFails(u)
  BY <1>5, <1>6 DEF Opens, Serves, ClearEnds, PurgeDeletesRow, OpFails
<1>7. CASE PicksCopy(u)
  <2>1. ASSUME NEW f \in Stamped,
               op' = [op EXCEPT ![u] = [@ EXCEPT !.pc = "object", !.at = {f}, !.marked = TRUE]]
        PROVE  ClearInv'
    <3>. DEFINE o == [op[u] EXCEPT !.pc = "object", !.at = {f}, !.marked = TRUE]
    <3>1. /\ o.kind # "clear" /\ o.pc = "object" /\ o.at = {f}
          /\ op' = [op EXCEPT ![u] = o] /\ UNCHANGED <<sweep, s3>>
      BY <1>0, <1>7, <2>1 DEF PicksCopy, Operation, ClearInv
    <3>. HIDE DEF o
    <3>. QED
      BY <3>1, OneOpClears DEF Stamped
  <2>. QED
    BY <1>5, <1>7, <2>1 DEF PicksCopy
<1>8. CASE ClearWaits(u)
  <2>. DEFINE o == [op[u] EXCEPT !.pc = "usage"]
  <2>1. /\ o.kind = "clear" /\ o.pc = "usage" /\ o.at = op[u].at /\ sweep.pc = "idle"
        /\ op' = [op EXCEPT ![u] = o] /\ UNCHANGED <<sweep, s3>>
    BY <1>0, <1>8 DEF ClearWaits, SweepSettled, Operation, ClearInv
  <2>. HIDE DEF o
  <2>. QED
    BY <2>1, OneOpClears
<1>9. CASE ClearPicks(u)
  <2>. PICK select \in SUBSET FILES :
         LET files == select \intersect (IF evicted THEN Stamped ELSE OnDisk)
         IN  op' = [op EXCEPT ![u] = [@ EXCEPT !.pc = "next", !.marked = evicted,
                                        !.files = files, !.known = files \intersect Stamped]]
    BY <1>9 DEF ClearPicks
  <2>. DEFINE files == select \intersect (IF evicted THEN Stamped ELSE OnDisk)
              o == [op[u] EXCEPT !.pc = "next", !.marked = evicted,
                                 !.files = files, !.known = files \intersect Stamped]
  <2>1. /\ o.kind = "clear" /\ o.pc = "next" /\ o.at = op[u].at /\ sweep.pc = "idle"
        /\ o.known \subseteq o.files
        /\ op' = [op EXCEPT ![u] = o] /\ UNCHANGED <<sweep, s3>>
    BY <1>0, <1>9 DEF ClearPicks, Operation, ClearInv
  <2>. HIDE DEF o
  <2>. QED
    BY <2>1, OneOpClears
<1>10. CASE PurgeRemovesDir(u)
  BY <1>2, <1>10 DEF PurgeRemovesDir, Then
<1>11. CASE PurgeEmptiesPrefix(u)
  BY <1>2, <1>11, ZeroNumbers DEF PurgeEmptiesPrefix, Then
<1>12. CASE PurgeForgets(u)
  BY <1>2, <1>12 DEF PurgeForgets, Then
<1>13. ASSUME NEW f \in FILES, DeletesObject(u, f)
       PROVE  ClearInv'
  <2>. DEFINE o == [op[u] EXCEPT !.pc = "forget"]
  <2>1. /\ o.kind = op[u].kind /\ o.pc = "forget" /\ o.at = op[u].at /\ o.known = op[u].known
        /\ o.files = op[u].files
        /\ op' = [op EXCEPT ![u] = o] /\ UNCHANGED sweep
    BY <1>0, <1>13 DEF DeletesObject, Operation
  <2>2. s3'[f] = 0 /\ \A g \in FILES : s3'[g] \in {0, s3[g]}
    BY <1>13 DEF DeletesObject, Types, Numbers
  <2>3. /\ op[u].pc = "object" /\ f \in op[u].at /\ op[u].known \subseteq FILES
        /\ \A g, h \in op[u].at : g = h
    BY <1>0, <1>13 DEF DeletesObject, ClearInv, Operation
  <2>4. op[u].kind = "clear" =>
          sweep.pc = "idle" /\ \A g \in op[u].known : g \in op[u].files \/ s3'[g] = 0
    BY <2>2, <2>3 DEF ClearInv
  <2>. HIDE DEF o
  <2>. QED
    BY <2>1, <2>2, <2>3, <2>4, OneOpClears
<1>14. ASSUME NEW f \in FILES, ForgetsStamp(u, f)
       PROVE  ClearInv'
  <2>1. CASE op[u].kind = "clear"
    <3>. DEFINE o == [op[u] EXCEPT !.pc = "next", !.at = {}]
    <3>1. /\ o.kind = "clear" /\ o.pc = "next" /\ o.at = {} /\ o.known = op[u].known
          /\ o.files = op[u].files
          /\ op' = [op EXCEPT ![u] = o] /\ UNCHANGED <<sweep, s3>>
      BY <1>0, <1>14, <2>1 DEF ForgetsStamp, Operation
    <3>2. sweep.pc = "idle" /\ \A g \in op[u].known : g \in op[u].files \/ s3[g] = 0
      BY <1>14, <2>1 DEF ForgetsStamp, ClearInv
    <3>. HIDE DEF o
    <3>. QED
      BY <3>1, <3>2, OneOpClears
  <2>2. CASE op[u].kind # "clear"
    BY <1>5, <1>14, <2>2 DEF ForgetsStamp
  <2>. QED
    BY <2>1, <2>2
<1>15. ASSUME NEW f \in FILES, ClearDeletes(u, f)
       PROVE  ClearInv'
  <2>1. /\ op[u].pc = "next" /\ op[u].kind = "clear" /\ sweep.pc = "idle" /\ UNCHANGED <<sweep, s3>>
        /\ \A g \in op[u].known : g \in op[u].files \/ s3[g] = 0
    BY <1>15 DEF ClearDeletes, ClearInv
  <2>2. /\ op' = [op EXCEPT ![u] = op'[u]]
        /\ op'[u].kind = "clear" /\ op'[u].pc \in {"next", "object"}
        /\ \/ op'[u].pc = "next" /\ op'[u].at = op[u].at
           \/ op'[u].pc = "object" /\ op'[u].at = {f}
        /\ op'[u].files = op[u].files \ {f}
        /\ op'[u].known \subseteq op[u].known
        /\ f \in op'[u].known => op'[u].pc = "object" /\ op'[u].at = {f}
    <3>1. CASE op' = [op EXCEPT ![u].files = @ \ {f}, ![u].known = @ \ {f}]
      BY <2>1, <3>1 DEF Types, Operation
    <3>2. CASE f \in op[u].known
               /\ op' = [op EXCEPT ![u].files = @ \ {f}, ![u].pc = "object", ![u].at = {f}]
      BY <2>1, <3>2 DEF Types, Operation
    <3>3. CASE f \notin op[u].known /\ op' = [op EXCEPT ![u].files = @ \ {f}]
      BY <2>1, <3>3 DEF Types, Operation
    <3>. QED
      BY <1>15, <3>1, <3>2, <3>3 DEF ClearDeletes
  <2>. DEFINE o == op'[u]
  <2>3. /\ op' = [op EXCEPT ![u] = o]
        /\ o.kind = "clear" /\ o.pc \in {"next", "object"}
        /\ o.at = op[u].at \/ o.at = {f}
        /\ \A g \in o.known : g \in o.files \/ (o.pc = "object" /\ g \in o.at) \/ s3'[g] = 0
    BY <2>1, <2>2
  <2>. HIDE DEF o
  <2>. QED
    BY <2>1, <2>3, OneOpClears
<1>16. ASSUME NEW f \in FILES, PurgeUnlinks(u, f)
       PROVE  ClearInv'
  BY <1>16 DEF PurgeUnlinks, ClearInv
<1>. QED
  BY <1>1, <1>3, <1>4, <1>6, <1>7, <1>8, <1>9, <1>10, <1>11, <1>12, <1>13, <1>14, <1>15, <1>16
  DEF OpStep

\* Every step.
LEMMA ClearNext ==
  ASSUME Types, ClearInv, [Next]_vars
  PROVE  ClearInv'
<1>. USE DEF local, remote, users
<1>1. CASE RestoreStep \/ RestoreFails
  <2>1. CASE UNCHANGED op
    BY ZenonT(30), <1>1, <2>1 DEF ClearInv, RestoreStep, RestoreFails, RestoreLists, RestoreEnds, RestoreGets,
       RestoreRenames, RestoreStamps
  <2>2. ASSUME \A u \in Users : op[u].pc # "join" => op'[u] = op[u],
               \A u \in Users : op[u].pc = "join" =>
                  op'[u] = [op[u] EXCEPT !.pc = "use"] \/ op'[u] = NoOp
        PROVE  ClearInv'
    <3>1. UNCHANGED <<s3, sweep>>
      BY <1>1 DEF RestoreStep, RestoreFails, RestoreLists, RestoreEnds, RestoreGets,
         RestoreRenames, RestoreStamps
    <3>2. ASSUME NEW u \in Users, op[u].pc = "join"
          PROVE  /\ op'[u].kind # "clear" /\ op'[u].pc \in {"use", "idle"}
                 /\ op'[u].at = op[u].at \/ op'[u].at = {}
      <4>1. op[u].kind # "clear" /\ op[u] \in Operation
        BY <3>2 DEF ClearInv, Types
      <4>2. CASE op'[u] = [op[u] EXCEPT !.pc = "use"]
        BY <4>1, <4>2 DEF Operation
      <4>3. CASE op'[u] = NoOp
        BY <4>3 DEF NoOp
      <4>. QED
        BY <2>2, <3>2, <4>2, <4>3
    <3>. QED
      BY <2>2, <3>1, <3>2 DEF ClearInv
  <2>3. CASE RestoreEnds \/ RestoreFails
    <3>1. \A u \in Users : op[u].pc # "join" => op'[u] = op[u]
      BY <2>3 DEF RestoreEnds, RestoreFails
    <3>2. \A u \in Users : op[u].pc = "join" =>
             op'[u] = [op[u] EXCEPT !.pc = "use"] \/ op'[u] = NoOp
      BY <2>3 DEF RestoreEnds, RestoreFails
    <3>. QED
      BY <2>2, <3>1, <3>2
  <2>. QED
    BY <1>1, <2>1, <2>3 DEF RestoreStep, RestoreLists, RestoreGets, RestoreRenames, RestoreStamps
<1>2. CASE \/ \E f \in FILES : AgentWrites(f) \/ AgentRemoves(f)
           \/ ChatCloses \/ RedisIsLost \/ UNCHANGED vars
  BY <1>2 DEF ClearInv, AgentWrites, AgentRemoves, ChatCloses, RedisIsLost, vars
<1>3. CASE Crash
  BY <1>3 DEF Crash, ClearInv, NoOp
<1>. QED
  BY <1>1, <1>2, <1>3, SweepClears, OpClears DEF Next

\* deleteFiles() returns with the copies of what it deleted gone, whatever the sweep, the restore
\* and the other requests do, for any number of them.
THEOREM ClearLeavesNoCopy == Spec => ClearErases
<1>. DEFINE Erased == \A u \in Users : ClearEnds(u) => \A f \in op[u].known : s3'[f] = 0
<1>1. Init => Types /\ ClearInv
  BY InitTypes, ClearInit
<1>2. Types /\ ClearInv /\ [Next]_vars => Types' /\ ClearInv'
  BY NextTypes, ClearNext
<1>3. Types /\ ClearInv /\ [Next]_vars => [Erased]_vars
  BY DEF ClearEnds, ClearInv, remote
<1>. QED
  BY <1>1, <1>2, <1>3, PTL DEF Spec, ClearErases

-----------------------------------------------------------------------------
(* The supervisor.                                                          *)

StopKnown == (\E s \in Shards : stop[s] # "no") => stopping

RestIdle ==
  boot = "first" =>
    \A s \in Shards \ {First} :
      child[s] = "none" /\ ~backoff[s] /\ stop[s] \in {"no", "absent"}

ReadyFresh ==
  \A s \in Shards :
    /\ \A n \in Launches : n > restarts[s] => probe[s][n] = "none"
    /\ backoff[s] => probe[s][restarts[s]] = "none"

ReadyUp ==
  ~stopping =>
    /\ \A s \in Shards : probe[s][restarts[s]] = "ok" => child[s] = "listening"
    /\ \A c \in Callers :
         calls[c].state = "waiting" /\ Promise(c) = "ok"
           => child[calls[c].shard] = "listening"

SupervisorInv == TypeOK /\ StopKnown /\ RestIdle /\ ReadyFresh /\ ReadyUp /\ StoppedMeansDown

-----------------------------------------------------------------------------
(* The types of the supervisor.                                             *)

\* Everything has its type at the start.
LEMMA SupervisorInitTypes == SupervisorInit => TypeOK
<1>. SUFFICES ASSUME SupervisorInit
              PROVE  TypeOK
  OBVIOUS
<1>. USE SupervisorAssumption DEF SupervisorInit
<1>1. probe \in [Shards -> [Launches -> ProbeState]]
  <2>1. ASSUME NEW s \in Shards
        PROVE  [n \in Launches |-> IF s = First /\ n = 0 THEN "polling" ELSE "none"]
                 \in [Launches -> ProbeState]
    BY DEF ProbeState
  <2>. QED
    BY <2>1
<1>2. /\ child \in [Shards -> ChildState]
      /\ restarts \in [Shards -> Launches]
      /\ backoff \in [Shards -> BOOLEAN]
      /\ failed \in [Shards -> BOOLEAN]
      /\ hung \in [Shards -> BOOLEAN]
      /\ stop \in [Shards -> {"no", "waiting", "absent", "over"}]
  BY DEF ChildState, Launches
<1>3. calls \in [Callers -> [state : {"idle", "waiting", "answered", "refused"},
                             shard : Shards, launch : Launches]]
  BY DEF NoCall, Launches
<1>. QED
  BY <1>1, <1>2, <1>3 DEF TypeOK

\* Every action keeps the types; the exits of a shard stay within the bound.
LEMMA SupervisorNextTypes ==
  ASSUME TypeOK, [SupervisorNext]_supervisorVars
  PROVE  TypeOK'
<1>. USE SupervisorAssumption
<1>1. CASE BootRest
  BY <1>1 DEF BootRest, TypeOK, ChildState, ProbeState, Launches, NoCall
<1>2. CASE BootUp
  BY <1>2 DEF BootUp, TypeOK, ChildState, ProbeState, Launches, NoCall
<1>3. CASE BootFails
  BY <1>3 DEF BootFails, Stopping, NoExitCode, TypeOK, ChildState, ProbeState, Launches, NoCall
<1>4. ASSUME NEW s \in Shards, Listens(s)
      PROVE  TypeOK'
  BY <1>4 DEF Listens, TypeOK, ChildState, ProbeState, Launches, NoCall
<1>5. ASSUME NEW s \in Shards, Relaunch(s)
      PROVE  TypeOK'
  <2>. USE <1>5 DEF Relaunch, TypeOK
  <2>1. restarts[s] \in Launches /\ probe[s] \in [Launches -> ProbeState]
    OBVIOUS
  <2>2. child' \in [Shards -> ChildState]
    BY DEF Launched, ChildState
  <2>3. ASSUME NEW x \in {"failed", "polling"}
        PROVE  [probe EXCEPT ![s][restarts[s]] = x] \in [Shards -> [Launches -> ProbeState]]
    <3>1. [probe[s] EXCEPT ![restarts[s]] = x] \in [Launches -> ProbeState]
      BY <2>1 DEF ProbeState
    <3>. QED
      BY <3>1
  <2>4. probe' \in [Shards -> [Launches -> ProbeState]]
    BY <2>3 DEF Probing
  <2>5. backoff' \in [Shards -> BOOLEAN]
    OBVIOUS
  <2>. QED
    BY <2>2, <2>4, <2>5
<1>6. ASSUME NEW s \in Shards, NEW how \in {"exited", "killed"}, Exits(s, how)
      PROVE  TypeOK'
  <2>. USE <1>6 DEF Exits, TypeOK
  <2>1. child' \in [Shards -> ChildState]
    BY DEF ChildState
  <2>2. restarts' \in [Shards -> Launches]
    <3>1. restarts[s] \in Launches
      OBVIOUS
    <3>2. CASE stopping
      BY <3>2
    <3>3. CASE ~stopping
      <4>1. restarts[s] + 1 \in Launches
        BY <3>1, <3>3 DEF Launches
      <4>2. restarts' = [restarts EXCEPT ![s] = restarts[s] + 1]
        BY <3>3 DEF NextReady
      <4>. QED
        BY <4>1, <4>2
    <3>. QED
      BY <3>2, <3>3
  <2>3. backoff' \in [Shards -> BOOLEAN] /\ hung' \in [Shards -> BOOLEAN]
    OBVIOUS
  <2>4. stop' \in [Shards -> {"no", "waiting", "absent", "over"}]
    BY DEF StopSees
  <2>. QED
    BY <2>1, <2>2, <2>3, <2>4
<1>7. ASSUME NEW s \in Shards, NEW n \in Launches, ProbeSucceeds(s, n)
      PROVE  TypeOK'
  BY <1>7 DEF ProbeSucceeds, TypeOK, ChildState, ProbeState, Launches, NoCall
<1>8. ASSUME NEW s \in Shards, NEW n \in Launches, ProbeSeesExit(s, n)
      PROVE  TypeOK'
  BY <1>8 DEF ProbeSeesExit, TypeOK, ChildState, ProbeState, Launches, NoCall
<1>9. ASSUME NEW s \in Shards, NEW n \in Launches, ProbeTimesOut(s, n)
      PROVE  TypeOK'
  BY <1>9 DEF ProbeTimesOut, TypeOK, ChildState, ProbeState, Launches, NoCall
<1>10. ASSUME NEW c \in Callers, NEW s \in Shards, Target(c, s)
      PROVE  TypeOK'
  BY <1>10 DEF Target, TypeOK, ChildState, ProbeState, Launches, NoCall
<1>11. CASE Stop
  BY <1>11 DEF Stop, Stopping, NoExitCode, TypeOK, ChildState, ProbeState, Launches, NoCall
<1>12. ASSUME NEW c \in Callers, TargetSettles(c)
      PROVE  TypeOK'
  BY ZenonT(30), <1>12 DEF TargetSettles, TypeOK, ChildState, ProbeState, Launches, NoCall
<1>13. CASE UNCHANGED supervisorVars
  BY <1>13 DEF supervisorVars, TypeOK, ChildState, ProbeState, Launches, NoCall
<1>14. ASSUME NEW s \in Shards, Hangs(s)
      PROVE  TypeOK'
  BY <1>14 DEF Hangs, TypeOK, ChildState, ProbeState, Launches, NoCall
<1>. QED
  BY <1>1, <1>2, <1>3, <1>4, <1>5, <1>6, <1>7, <1>8, <1>9, <1>10, <1>11, <1>12,
       <1>13, <1>14 DEF SupervisorNext, Probe

-----------------------------------------------------------------------------
(* The stop.                                                                *)

\* A relaunch needs ~stopping, and start() launches only what never existed.
LEMMA NextStop ==
  ASSUME TypeOK, StopKnown, RestIdle, StoppedMeansDown, [SupervisorNext]_supervisorVars
  PROVE  (StopKnown /\ RestIdle /\ StoppedMeansDown)'
<1>. USE SupervisorAssumption
<1>1. CASE BootRest
  BY <1>1 DEF BootRest, StopKnown, RestIdle, StoppedMeansDown, Alive, TypeOK
<1>2. CASE BootUp
  BY <1>2 DEF BootUp, StopKnown, RestIdle, StoppedMeansDown, Alive, TypeOK
<1>3. CASE BootFails
  BY <1>3 DEF BootFails, Stopping, NoExitCode, StopKnown, RestIdle, StoppedMeansDown, Alive, TypeOK
<1>4. ASSUME NEW s \in Shards, Listens(s)
      PROVE  (StopKnown /\ RestIdle /\ StoppedMeansDown)'
  BY <1>4 DEF Listens, StopKnown, RestIdle, StoppedMeansDown, Alive, TypeOK
<1>5. ASSUME NEW s \in Shards, Relaunch(s)
      PROVE  (StopKnown /\ RestIdle /\ StoppedMeansDown)'
  BY <1>5 DEF Relaunch, Launched, Probing, StopKnown, RestIdle, StoppedMeansDown, Alive, TypeOK
<1>6. ASSUME NEW s \in Shards, NEW how \in {"exited", "killed"}, Exits(s, how)
      PROVE  (StopKnown /\ RestIdle /\ StoppedMeansDown)'
  BY <1>6 DEF Exits, StopSees, NextReady, StopKnown, RestIdle, StoppedMeansDown, Alive, TypeOK
<1>7. ASSUME NEW s \in Shards, NEW n \in Launches, ProbeSucceeds(s, n)
      PROVE  (StopKnown /\ RestIdle /\ StoppedMeansDown)'
  BY <1>7 DEF ProbeSucceeds, StopKnown, RestIdle, StoppedMeansDown, Alive, TypeOK
<1>8. ASSUME NEW s \in Shards, NEW n \in Launches, ProbeSeesExit(s, n)
      PROVE  (StopKnown /\ RestIdle /\ StoppedMeansDown)'
  BY <1>8 DEF ProbeSeesExit, StopKnown, RestIdle, StoppedMeansDown, Alive, TypeOK
<1>9. ASSUME NEW s \in Shards, NEW n \in Launches, ProbeTimesOut(s, n)
      PROVE  (StopKnown /\ RestIdle /\ StoppedMeansDown)'
  BY <1>9 DEF ProbeTimesOut, StopKnown, RestIdle, StoppedMeansDown, Alive, TypeOK
<1>10. ASSUME NEW c \in Callers, NEW s \in Shards, Target(c, s)
      PROVE  (StopKnown /\ RestIdle /\ StoppedMeansDown)'
  BY <1>10 DEF Target, StopKnown, RestIdle, StoppedMeansDown, Alive, TypeOK
<1>11. CASE Stop
  BY <1>11 DEF Stop, Stopping, NoExitCode, StopKnown, RestIdle, StoppedMeansDown, Alive, TypeOK
<1>12. ASSUME NEW c \in Callers, TargetSettles(c)
      PROVE  (StopKnown /\ RestIdle /\ StoppedMeansDown)'
  BY <1>12 DEF TargetSettles, StopKnown, RestIdle, StoppedMeansDown, Alive, TypeOK
<1>13. CASE UNCHANGED supervisorVars
  BY <1>13 DEF supervisorVars, StopKnown, RestIdle, StoppedMeansDown, Alive, TypeOK
<1>14. ASSUME NEW s \in Shards, Hangs(s)
      PROVE  (StopKnown /\ RestIdle /\ StoppedMeansDown)'
  BY <1>14 DEF Hangs, StopKnown, RestIdle, StoppedMeansDown, Alive, TypeOK
<1>. QED
  BY <1>1, <1>2, <1>3, <1>4, <1>5, <1>6, <1>7, <1>8, <1>9, <1>10, <1>11, <1>12,
       <1>13, <1>14 DEF SupervisorNext, Probe

-----------------------------------------------------------------------------
(* The promises.                                                            *)

\* An exit names a promise that no probe loop settles yet.
LEMMA NextFresh ==
  ASSUME TypeOK, RestIdle, ReadyFresh, [SupervisorNext]_supervisorVars
  PROVE  ReadyFresh'
<1>. USE SupervisorAssumption
<1>1. CASE BootRest
  BY <1>1 DEF BootRest, ReadyFresh, RestIdle, TypeOK, Launches
<1>2. CASE BootUp
  BY <1>2 DEF BootUp, ReadyFresh, RestIdle, TypeOK, Launches
<1>3. CASE BootFails
  BY <1>3 DEF BootFails, Stopping, NoExitCode, ReadyFresh, RestIdle, TypeOK, Launches
<1>4. ASSUME NEW s \in Shards, Listens(s)
      PROVE  ReadyFresh'
  BY <1>4 DEF Listens, ReadyFresh, RestIdle, TypeOK, Launches
<1>5. ASSUME NEW s \in Shards, Relaunch(s)
      PROVE  ReadyFresh'
  BY <1>5 DEF Relaunch, Launched, Probing, ReadyFresh, RestIdle, TypeOK, Launches
<1>6. ASSUME NEW s \in Shards, NEW how \in {"exited", "killed"}, Exits(s, how)
      PROVE  ReadyFresh'
  BY <1>6 DEF Exits, StopSees, NextReady, ReadyFresh, RestIdle, TypeOK, Launches
<1>7. ASSUME NEW s \in Shards, NEW n \in Launches, ProbeSucceeds(s, n)
      PROVE  ReadyFresh'
  BY <1>7 DEF ProbeSucceeds, ReadyFresh, RestIdle, TypeOK, Launches
<1>8. ASSUME NEW s \in Shards, NEW n \in Launches, ProbeSeesExit(s, n)
      PROVE  ReadyFresh'
  BY <1>8 DEF ProbeSeesExit, ReadyFresh, RestIdle, TypeOK, Launches
<1>9. ASSUME NEW s \in Shards, NEW n \in Launches, ProbeTimesOut(s, n)
      PROVE  ReadyFresh'
  BY <1>9 DEF ProbeTimesOut, ReadyFresh, RestIdle, TypeOK, Launches
<1>10. ASSUME NEW c \in Callers, NEW s \in Shards, Target(c, s)
      PROVE  ReadyFresh'
  BY <1>10 DEF Target, ReadyFresh, RestIdle, TypeOK, Launches
<1>11. CASE Stop
  BY <1>11 DEF Stop, Stopping, NoExitCode, ReadyFresh, RestIdle, TypeOK, Launches
<1>12. ASSUME NEW c \in Callers, TargetSettles(c)
      PROVE  ReadyFresh'
  BY <1>12 DEF TargetSettles, ReadyFresh, RestIdle, TypeOK, Launches
<1>13. CASE UNCHANGED supervisorVars
  BY <1>13 DEF supervisorVars, ReadyFresh, RestIdle, TypeOK, Launches
<1>14. ASSUME NEW s \in Shards, Hangs(s)
      PROVE  ReadyFresh'
  BY <1>14 DEF Hangs, ReadyFresh, RestIdle, TypeOK, Launches
<1>. QED
  BY <1>1, <1>2, <1>3, <1>4, <1>5, <1>6, <1>7, <1>8, <1>9, <1>10, <1>11, <1>12,
       <1>13, <1>14 DEF SupervisorNext, Probe

\* A child whose caller is due does not change before the caller has gone on.
LEMMA NextUp ==
  ASSUME TypeOK, RestIdle, ReadyFresh, ReadyUp, [SupervisorNext]_supervisorVars
  PROVE  ReadyUp'
<1>. USE SupervisorAssumption
<1>1. CASE BootRest
  BY <1>1 DEF BootRest, ReadyUp, ReadyFresh, RestIdle, TypeOK, Promise, Due, Alive, Launches
<1>2. CASE BootUp
  BY <1>2 DEF BootUp, ReadyUp, ReadyFresh, RestIdle, TypeOK, Promise, Due, Alive, Launches
<1>3. CASE BootFails
  BY <1>3 DEF BootFails, Stopping, NoExitCode, ReadyUp, ReadyFresh, RestIdle, TypeOK, Promise,
       Due, Alive, Launches
<1>4. ASSUME NEW s \in Shards, Listens(s)
      PROVE  ReadyUp'
  BY <1>4 DEF Listens, ReadyUp, ReadyFresh, RestIdle, TypeOK, Promise, Due, Alive, Launches
<1>5. ASSUME NEW s \in Shards, Relaunch(s), ~Due
      PROVE  ReadyUp'
  <2>. SUFFICES ASSUME ~stopping
                PROVE  ReadyUp'
    BY <1>5 DEF Relaunch, ReadyUp
  <2>. USE <1>5 DEF Relaunch, Launched, Probing, TypeOK
  <2>1. ASSUME NEW t \in Shards, probe'[t][restarts'[t]] = "ok"
        PROVE  child'[t] = "listening"
    <3>1. CASE t = s
      BY <2>1, <3>1
    <3>2. CASE t # s
      BY <2>1, <3>2 DEF ReadyUp
    <3>. QED
      BY <3>1, <3>2
  <2>2. ASSUME NEW c \in Callers, calls[c].state = "waiting"
        PROVE  Promise(c)' # "ok"
    <3>1. calls[c].shard \in Shards /\ calls[c].launch \in Launches
      OBVIOUS
    <3>2. Promise(c) # "ok"
      BY <2>2 DEF Due
    <3>. QED
      BY <3>1, <3>2 DEF Promise
  <2>. QED
    BY <2>1, <2>2 DEF ReadyUp
<1>6. ASSUME NEW s \in Shards, NEW how \in {"exited", "killed"}, Exits(s, how), ~Due
      PROVE  ReadyUp'
  BY <1>6 DEF Exits, StopSees, NextReady, ReadyUp, ReadyFresh, RestIdle, TypeOK, Promise, Due,
       Alive, Launches
<1>7. ASSUME NEW s \in Shards, NEW n \in Launches, ProbeSucceeds(s, n)
      PROVE  ReadyUp'
  BY <1>7 DEF ProbeSucceeds, ReadyUp, ReadyFresh, RestIdle, TypeOK, Promise, Due, Alive, Launches
<1>8. ASSUME NEW s \in Shards, NEW n \in Launches, ProbeSeesExit(s, n)
      PROVE  ReadyUp'
  BY <1>8 DEF ProbeSeesExit, ReadyUp, ReadyFresh, RestIdle, TypeOK, Promise, Due, Alive, Launches
<1>9. ASSUME NEW s \in Shards, NEW n \in Launches, ProbeTimesOut(s, n)
      PROVE  ReadyUp'
  BY <1>9 DEF ProbeTimesOut, ReadyUp, ReadyFresh, RestIdle, TypeOK, Promise, Due, Alive, Launches
<1>10. ASSUME NEW c \in Callers, NEW s \in Shards, Target(c, s)
      PROVE  ReadyUp'
  BY <1>10 DEF Target, ReadyUp, ReadyFresh, RestIdle, TypeOK, Promise, Due, Alive, Launches
<1>11. CASE Stop
  BY <1>11 DEF Stop, Stopping, NoExitCode, ReadyUp, ReadyFresh, RestIdle, TypeOK, Promise, Due,
       Alive, Launches
<1>12. ASSUME NEW c \in Callers, TargetSettles(c)
      PROVE  ReadyUp'
  BY <1>12 DEF TargetSettles, ReadyUp, ReadyFresh, RestIdle, TypeOK, Promise, Due, Alive, Launches
<1>13. CASE UNCHANGED supervisorVars
  BY <1>13 DEF supervisorVars, ReadyUp, ReadyFresh, RestIdle, TypeOK, Promise, Due, Alive, Launches
<1>14. ASSUME NEW s \in Shards, Hangs(s)
      PROVE  ReadyUp'
  BY <1>14 DEF Hangs, ReadyUp, ReadyFresh, RestIdle, TypeOK, Promise, Due, Alive, Launches
<1>. QED
  BY <1>1, <1>2, <1>3, <1>4, <1>5, <1>6, <1>7, <1>8, <1>9, <1>10, <1>11, <1>12,
       <1>13, <1>14 DEF SupervisorNext, Probe

-----------------------------------------------------------------------------
(* Both are kept for ever.                                                  *)

\* The five facts hold for ever.
LEMMA SupervisorInvariant == SupervisorSpec => []SupervisorInv
<1>1. SupervisorInit => SupervisorInv
  <2>. SUFFICES ASSUME SupervisorInit
                PROVE  SupervisorInv
    OBVIOUS
  <2>1. TypeOK
    BY SupervisorInitTypes
  <2>. USE SupervisorAssumption DEF SupervisorInit
  <2>2. StopKnown /\ RestIdle /\ StoppedMeansDown
    BY DEF StopKnown, RestIdle, StoppedMeansDown
  <2>3. \A s \in Shards, n \in Launches :
          probe[s][n] = IF s = First /\ n = 0 THEN "polling" ELSE "none"
    OBVIOUS
  <2>4. 0 \in Launches
    BY DEF Launches
  <2>5. ReadyFresh
    <3>1. \A s \in Shards : restarts[s] = 0 /\ ~backoff[s]
      OBVIOUS
    <3>2. ASSUME NEW s \in Shards, NEW n \in Launches, n > restarts[s]
          PROVE  probe[s][n] = "none"
      <4>1. n # 0
        BY <3>1, <3>2
      <4>. QED
        BY <2>3, <4>1
    <3>. QED
      BY <3>1, <3>2 DEF ReadyFresh
  <2>6. ReadyUp
    <3>1. \A s \in Shards : probe[s][restarts[s]] # "ok"
      BY <2>3, <2>4
    <3>2. \A c \in Callers : calls[c].state = "idle"
      BY DEF NoCall
    <3>. QED
      BY <3>1, <3>2 DEF ReadyUp
  <2>. QED
    BY <2>1, <2>2, <2>5, <2>6 DEF SupervisorInv
<1>2. SupervisorInv /\ [SupervisorNext]_supervisorVars => SupervisorInv'
  BY SupervisorNextTypes, NextStop, NextFresh, NextUp DEF SupervisorInv
<1>. QED
  BY <1>1, <1>2, PTL DEF SupervisorSpec

\* Types, for any number of shards, callers and exits.
THEOREM TypeCorrect == SupervisorSpec => []TypeOK
BY SupervisorInvariant, PTL DEF SupervisorInv

\* A runtime that stop() has waited for stays down.
THEOREM StoppedStaysDown == SupervisorSpec => []StoppedMeansDown
BY SupervisorInvariant, PTL DEF SupervisorInv

\* target() answers with a process that accepts connections.
THEOREM AnswerIsUp == SupervisorSpec => TargetIsUp
<1>. DEFINE Settles ==
       \A c \in Callers :
         calls[c].state # "answered" /\ calls'[c].state = "answered" /\ ~stopping
           => child'[calls'[c].shard] = "listening"
<1>1. SupervisorInv /\ [SupervisorNext]_supervisorVars => [Settles]_supervisorVars
  <2>. SUFFICES ASSUME SupervisorInv, SupervisorNext
                PROVE  Settles
    OBVIOUS
  <2>1. CASE UNCHANGED calls
    BY <2>1
  <2>2. ASSUME NEW c \in Callers, TargetSettles(c)
        PROVE  Settles
    BY <2>2 DEF TargetSettles, SupervisorInv, TypeOK, ReadyUp
  <2>3. ASSUME NEW c \in Callers, NEW s \in Shards, Target(c, s)
        PROVE  Settles
    BY <2>3 DEF Target, SupervisorInv, TypeOK
  <2>. QED
    BY <2>1, <2>2, <2>3
    DEF SupervisorNext, Probe, BootRest, BootUp, BootFails, Listens, Hangs, Relaunch, Exits,
        ProbeSucceeds, ProbeSeesExit, ProbeTimesOut, Stop
<1>. QED
  BY <1>1, SupervisorInvariant, PTL DEF SupervisorSpec, TargetIsUp

-----------------------------------------------------------------------------
(* The usage records: types.                                                *)

Line == [has : SUBSET Records, whole : BOOLEAN]
Request == [day : Days, rec : Records]
IngestPcs == {"idle", "stat", "open", "read", "save", "age", "forget"}
IngestRecord == [at : IngestPcs, day : Days, size : Nat, end : Nat, off : Nat, old : SUBSET Days]

UsageTypes ==
  /\ today \in Days /\ logged \in Nat /\ life \in 0 .. MaxKills
  /\ turn \in [n : 0 .. MaxTurns, open : BOOLEAN, start : Days, steps : 0 .. MaxSteps]
  /\ queue \in [todo : Seq(Request), half : BOOLEAN] /\ Len(queue.todo) <= 1
  /\ file \in [Days -> Seq(Line)]
  /\ removed \subseteq Days /\ offset \in [Days -> Nat] /\ rows \subseteq Records
  /\ ingest \in IngestRecord

(* The files.  Only the last line of one can be without its newline, and     *)
(* while a record is half written its file ends so.                          *)

OnlyLastTorn == \A d \in Days : \A i \in DOMAIN file[d] : i < Len(file[d]) => file[d][i].whole
HalfIsTorn == queue.half => queue.todo # <<>> /\ Torn(Head(queue.todo).day)

(* The numbers of the turns.  What has been recorded, in the table, in a     *)
(* file or in the queue, is of a turn and a step that were, unless a kill    *)
(* took the turn from the log; and two records have one turn and step only   *)
(* when the number was used again.                                           *)

TurnsGoOn ==
  /\ logged <= turn.n
  /\ turn.open => turn.n > 0 /\ turn.start <= today

Queued == {queue.todo[i].rec : i \in DOMAIN queue.todo}
InFiles == UNION {UNION {file[d][i].has : i \in DOMAIN file[d]} : d \in Days}
Recorded == rows \union InFiles \union Queued

NumbersKnown ==
  \A r \in Recorded : ~Shadowed(r) =>
    /\ r.turn <= turn.n
    /\ turn.open /\ r.turn = turn.n => r.step \in 1 .. turn.steps
KeysUnique == \A q, r \in Recorded : SameKey(q, r) /\ q # r => Shadowed(r)

(* The offsets.  What lies before the saved one of a file, before the one an *)
(* ingest has come to, and all of a file that was removed or is about to be, *)
(* is counted.  The ingest has seen no more of a file than there is; of an   *)
(* old one it has seen all, for nobody writes to it any more.                *)

AllCounted(d) == \A i \in Lines(d) : \A r \in file[d][i].has : Counted(r)
CountedTo(d, off) ==
  /\ off % 2 = 0 /\ off <= Size(d)
  /\ \A i \in Lines(d) : 2 * i <= off => \A r \in file[d][i].has : Counted(r)

OffsetTrue == \A d \in Days : CountedTo(d, offset[d])
RemovedCounted == \A d \in removed : AllCounted(d)
IngestTrue ==
  /\ ingest.at \in {"open", "read", "save"} =>
       /\ CountedTo(ingest.day, ingest.off) /\ ingest.size <= Size(ingest.day)
       /\ ingest.day \in ingest.old => ingest.size = Size(ingest.day)
  /\ ingest.at = "read" => ingest.end <= Size(ingest.day)
  /\ ingest.at \in {"age", "forget"} => ingest.day \in ingest.old /\ AllCounted(ingest.day)
OldQuiet == \A d \in ingest.old \union removed : WeekOld(d)

UsageInv ==
  /\ UsageTypes /\ TurnsGoOn
  /\ OnlyLastTorn /\ HalfIsTorn
  /\ NumbersKnown /\ KeysUnique
  /\ OffsetTrue /\ RemovedCounted /\ IngestTrue /\ OldQuiet

\* Every nonempty set of naturals has a least element.
LEMMA LeastNatural ==
  ASSUME NEW S \in SUBSET Nat, S # {}
  PROVE  \E least \in S : \A n \in S : least <= n
<1> DEFINE R == {ss \in Nat \X Nat : ss[1] < ss[2]}
<1>1. IsWellFoundedOn(R, Nat)
  BY NatLessThanWellFounded DEF OpToRel
<1> HIDE DEF R
<1>2. PICK least \in S : \A n \in S : ~(<<n, least>> \in R)
  BY <1>1, WFMin
<1>3. ASSUME NEW n \in S
      PROVE  least <= n
  <2>1. ~(n < least)
    BY <1>2 DEF R
  <2> QED
    BY <2>1
<1> QED
  BY <1>3

\* insertRecords(): of the records that are read each has a row, or its turn's number was used twice.

LEMMA SizeBounds ==
  ASSUME UsageTypes, NEW d \in Days
  PROVE  /\ Len(file[d]) \in Nat /\ Size(d) \in Nat
         /\ Torn(d) => Len(file[d]) > 0 /\ Size(d) = 2 * Len(file[d]) - 1
         /\ ~Torn(d) => Size(d) = 2 * Len(file[d])
<1>1. file[d] \in Seq(Line)
  BY DEF UsageTypes
<1>2. Len(file[d]) \in Nat /\ (file[d] # <<>> => Len(file[d]) > 0)
  BY <1>1
<1>3. Torn(d) => Len(file[d]) > 0
  BY <1>2 DEF Torn
<1>4. CASE Torn(d)
  BY <1>2, <1>3, <1>4 DEF Size
<1>5. CASE ~Torn(d)
  BY <1>2, <1>5 DEF Size
<1> QED
  BY <1>4, <1>5

LEMMA NotEmpty ==
  ASSUME NEW S, NEW s \in Seq(S), s # <<>>
  PROVE  Len(s) \in Nat /\ Len(s) > 0
BY EmptySeq

LEMMA FirstRequest ==
  ASSUME UsageTypes, queue.todo # <<>>
  PROVE  /\ Len(queue.todo) = 1 /\ Head(queue.todo) = queue.todo[1] /\ Head(queue.todo) \in Request
         /\ Tail(queue.todo) = <<>>
         /\ Head(queue.todo).day \in Days /\ Head(queue.todo).rec \in Records
<1>1. queue.todo \in Seq(Request) /\ Len(queue.todo) <= 1
  BY DEF UsageTypes
<1>2. Len(queue.todo) = 1
  <2> DEFINE todo == queue.todo
  <2>1. todo \in Seq(Request) /\ todo # <<>> /\ Len(todo) <= 1
    BY <1>1
  <2> HIDE DEF todo
  <2>2. Len(todo) \in Nat /\ Len(todo) > 0
    BY <2>1, NotEmpty
  <2>3. Len(todo) = 1
    <3>1. Len(todo) <= 1
      BY <2>1
    <3>2. \A n \in Nat : n > 0 /\ n <= 1 => n = 1
      OBVIOUS
    <3> QED
      BY <2>2, <3>1, <3>2
  <2> QED
    BY <2>3 DEF todo
<1>3. Head(queue.todo) = queue.todo[1] /\ queue.todo[1] \in Request
  BY <1>1, <1>2
<1>4. Tail(queue.todo) \in Seq(Request) /\ Len(Tail(queue.todo)) = 0
  BY <1>1, <1>2, HeadTailProperties
<1>5. Tail(queue.todo) = <<>>
  BY <1>4, EmptySeq
<1> QED
  BY <1>2, <1>3, <1>5 DEF Request

SizesBounded ==
  \A d \in Days : /\ Len(file[d]) \in Nat /\ Size(d) \in Nat /\ DOMAIN file[d] = 1 .. Len(file[d])
                  /\ Torn(d) => Len(file[d]) > 0 /\ Size(d) = 2 * Len(file[d]) - 1
                  /\ ~Torn(d) => Size(d) = 2 * Len(file[d])

LEMMA Sizes == UsageTypes => SizesBounded
<1> SUFFICES ASSUME UsageTypes, NEW d \in Days
             PROVE  /\ Len(file[d]) \in Nat /\ Size(d) \in Nat /\ DOMAIN file[d] = 1 .. Len(file[d])
                    /\ Torn(d) => Len(file[d]) > 0 /\ Size(d) = 2 * Len(file[d]) - 1
                    /\ ~Torn(d) => Size(d) = 2 * Len(file[d])
  BY DEF SizesBounded
<1>1. DOMAIN file[d] = 1 .. Len(file[d])
  BY LenProperties DEF UsageTypes
<1> QED
  BY <1>1, SizeBounds

LEMMA UsageInitTypes == UsageInit => UsageTypes
BY UsageAssumption DEF UsageInit, UsageTypes, NoTurn, NoIngest, AtFile, Days, Line, Request, IngestRecord, IngestPcs

LEMMA LineUpdates ==
  ASSUME NEW line \in Line, NEW r
  PROVE  /\ [line EXCEPT !.has = @ \union {r}] = [has |-> line.has \union {r}, whole |-> line.whole]
         /\ [line EXCEPT !.whole = TRUE] = [has |-> line.has, whole |-> TRUE]
<1>1. line = [has |-> line.has, whole |-> line.whole]
  BY DEF Line
<1> DEFINE a == [line EXCEPT !.has = line.has \union {r}]
           b == [line EXCEPT !.whole = TRUE]
<1>2. a = [has |-> line.has \union {r}, whole |-> line.whole]
  BY DEF Line
<1>3. ASSUME NEW y \in BOOLEAN
      PROVE  [line EXCEPT !.whole = y] = [has |-> line.has, whole |-> y]
  BY DEF Line
<1> QED
  BY <1>2, <1>3

\* The step writes x as line n, the last one, of the file of day d, and nothing else.
LastLine(d, n, x) ==
  /\ file' \in [Days -> Seq(Line)] /\ \A e \in Days : e # d => file'[e] = file[e]
  /\ n \in Nat \ {0} /\ n \in {Len(file[d]), Len(file[d]) + 1} /\ Len(file'[d]) = n
  /\ file'[d][n] = x /\ \A i \in 1 .. n - 1 : file'[d][i] = file[d][i]

LEMMA LastLineRewritten ==
  ASSUME UsageTypes, NEW d \in Days, Len(file[d]) > 0, NEW x \in Line,
         file' = [file EXCEPT ![d] = [file[d] EXCEPT ![Len(file[d])] = x]]
  PROVE  LastLine(d, Len(file[d]), x)
<1> DEFINE n == Len(file[d])
           s == [file[d] EXCEPT ![n] = x]
<1>1. file \in [Days -> Seq(Line)] /\ file[d] \in Seq(Line) /\ n \in Nat \ {0}
  BY LenProperties DEF UsageTypes
<1>2. s \in Seq(Line) /\ Len(s) = n /\ \A i \in 1 .. n : s[i] = IF i = n THEN x ELSE file[d][i]
  BY <1>1, ExceptSeq
<1>3. file' = [file EXCEPT ![d] = s]
  OBVIOUS
<1> HIDE DEF s
<1>4. file' \in [Days -> Seq(Line)] /\ file'[d] = s /\ \A e \in Days : e # d => file'[e] = file[e]
  BY <1>1, <1>2, <1>3
<1>5. n \in 1 .. n /\ \A i \in 1 .. n - 1 : i \in 1 .. n /\ i # n
  BY <1>1
<1> QED
  BY <1>1, <1>2, <1>4, <1>5 DEF LastLine

LEMMA LastLineAdded ==
  ASSUME UsageTypes, NEW d \in Days, NEW x \in Line, file' = [file EXCEPT ![d] = Append(file[d], x)]
  PROVE  LastLine(d, Len(file[d]) + 1, x)
<1> DEFINE n == Len(file[d])
           s == Append(file[d], x)
<1>1. file \in [Days -> Seq(Line)] /\ file[d] \in Seq(Line) /\ n \in Nat
  BY LenProperties DEF UsageTypes
<1>2. s \in Seq(Line) /\ Len(s) = n + 1 /\ s[n + 1] = x /\ \A i \in 1 .. n : s[i] = file[d][i]
  BY <1>1
<1>3. file' = [file EXCEPT ![d] = s]
  OBVIOUS
<1> HIDE DEF s
<1>4. file' \in [Days -> Seq(Line)] /\ file'[d] = s /\ \A e \in Days : e # d => file'[e] = file[e]
  BY <1>1, <1>2, <1>3
<1> QED
  BY <1>1, <1>2, <1>4 DEF LastLine

LEMMA LastOfTorn ==
  ASSUME UsageTypes, NEW d \in Days, Torn(d)
  PROVE  /\ Len(file[d]) \in Nat \ {0} /\ Len(file[d]) \in DOMAIN file[d]
         /\ file[d][Len(file[d])] \in Line /\ file[d][Len(file[d])].whole = FALSE
<1> DEFINE n == Len(file[d])
<1>1. n \in Nat \ {0} /\ file[d] \in Seq(Line)
  BY NotEmpty DEF UsageTypes, Torn
<1>2. file[d][n] \in Line
  BY <1>1
<1>3. file[d][n].whole \in BOOLEAN
  BY <1>2 DEF Line
<1>4. ~file[d][n].whole
  BY DEF Torn, Last
<1>5. DOMAIN file[d] = 1 .. n
  BY <1>1, LenProperties
<1> QED
  BY <1>1, <1>2, <1>3, <1>4, <1>5

LEMMA AppendBeginsFile ==
  ASSUME UsageTypes, AppendBegins, NEW d, d = Head(queue.todo).day, NEW r, r = Head(queue.todo).rec
  PROVE  LET n == Len(file[d])
         IN  /\ Torn(d) => LastLine(d, n, [has |-> file[d][n].has \union {r}, whole |-> FALSE])
             /\ ~Torn(d) => LastLine(d, n + 1, [has |-> {r}, whole |-> FALSE])
<1> DEFINE n == Len(file[d])
<1>1. d \in Days /\ r \in Records
  BY FirstRequest DEF AppendBegins
<1>2. CASE Torn(d)
  <2>1. n \in Nat \ {0} /\ file[d][n] \in Line /\ file[d][n].whole = FALSE
    BY <1>1, <1>2, LastOfTorn
  <2> DEFINE x == [has |-> file[d][n].has \union {r}, whole |-> FALSE]
  <2>2. [file[d][n] EXCEPT !.has = @ \union {r}] = x
    <3>1. [file[d][n] EXCEPT !.has = @ \union {r}] = [has |-> file[d][n].has \union {r}, whole |-> file[d][n].whole]
      BY <2>1, LineUpdates
    <3> QED
      BY <3>1, <2>1
  <2>3. file' = [file EXCEPT ![d][n].has = @ \union {r}]
    BY <1>2 DEF AppendBegins
  <2>4. file' = [file EXCEPT ![d] = [file[d] EXCEPT ![n] = x]]
    BY <2>2, <2>3, <1>1 DEF UsageTypes
  <2>5. x \in Line
    BY <1>1, <2>1 DEF Line
  <2> HIDE DEF x
  <2>6. LastLine(d, n, x)
    <3>1. Len(file[d]) > 0
      BY <2>1
    <3> QED
      BY <3>1, <1>1, <2>4, <2>5, LastLineRewritten, Zenon
  <2> QED
    BY <1>2, <2>6 DEF x
<1>3. CASE ~Torn(d)
  <2>1. file' = [file EXCEPT ![d] = Append(file[d], [has |-> {r}, whole |-> FALSE])]
    BY <1>1, <1>3 DEF AppendBegins, UsageTypes
  <2>2. [has |-> {r}, whole |-> FALSE] \in Line
    BY <1>1 DEF Line
  <2> QED
    BY <1>1, <1>3, <2>1, <2>2, LastLineAdded
<1> QED
  BY <1>2, <1>3

LEMMA AppendEndsFile ==
  ASSUME UsageTypes, HalfIsTorn, AppendEnds, NEW d, d = Head(queue.todo).day
  PROVE  LET n == Len(file[d])
         IN  Torn(d) /\ LastLine(d, n, [has |-> file[d][n].has, whole |-> TRUE])
<1> DEFINE n == Len(file[d])
<1>1. d \in Days /\ Torn(d)
  BY FirstRequest DEF AppendEnds, HalfIsTorn
<1>2. n \in Nat \ {0} /\ file[d][n] \in Line
  BY <1>1, LastOfTorn
<1> DEFINE x == [has |-> file[d][n].has, whole |-> TRUE]
<1>3. [file[d][n] EXCEPT !.whole = TRUE] = x
  BY <1>2, LineUpdates
<1>4. file' = [file EXCEPT ![d][n].whole = TRUE]
  BY DEF AppendEnds
<1>5. file' = [file EXCEPT ![d] = [file[d] EXCEPT ![n] = x]]
  BY <1>3, <1>4, <1>1 DEF UsageTypes
<1>6. x \in Line
  BY <1>2 DEF Line
<1> HIDE DEF x
<1>7. LastLine(d, n, x)
  <2>1. Len(file[d]) > 0
    BY <1>2
  <2> QED
    BY <2>1, <1>1, <1>5, <1>6, LastLineRewritten, Zenon
<1> QED
  BY <1>1, <1>7 DEF x

LEMMA Halves ==
  ASSUME NEW n \in Nat
  PROVE  /\ n % 2 \in {0, 1} /\ n - (n % 2) \in Nat /\ (n - (n % 2)) % 2 = 0
         /\ n \div 2 \in Nat /\ 2 * (n \div 2) <= n
         /\ n % 2 = 0 => 2 * (n \div 2) = n /\ (n + 1) \div 2 = n \div 2
OBVIOUS

LEMMA ChunkEnds ==
  ASSUME NEW d, NEW from \in Nat, NEW end \in Nat
  PROVE  ChunkEnd(d, from, end) \in Nat /\ ChunkEnd(d, from, end) % 2 = 0 /\ ChunkEnd(d, from, end) <= end
<1> DEFINE to == IF from + 2 * ChunkLines < end THEN from + 2 * ChunkLines ELSE end
<1>1. to \in Nat /\ to <= end
  BY UsageAssumption
<1>2. ChunkEnd(d, from, end) = to - (to % 2)
  BY DEF ChunkEnd
<1> HIDE DEF to
<1> QED
  BY <1>1, <1>2, Halves

LEMMA ReadRecord ==
  ASSUME NEW d, NEW i, Readable(file[d][i])
  PROVE  RecordOf(d, i) \in Records /\ file[d][i].has = {RecordOf(d, i)}
BY DEF Readable, RecordOf

LEMMA InsertKeeps ==
  ASSUME NEW d, NEW lines, \A i \in lines : Readable(file[d][i])
  PROVE  /\ rows \subseteq Insert(d, lines)
         /\ \A r \in Insert(d, lines) : r \in rows \/ \E i \in lines : r = RecordOf(d, i) /\ r \in Records
BY ReadRecord DEF Insert

LEMMA AtFileTyped ==
  ASSUME NEW at \in IngestPcs, NEW day \in Days, NEW old \in SUBSET Days
  PROVE  AtFile(at, day, old) \in IngestRecord
BY DEF AtFile, IngestRecord

LEMMA NextFileIs ==
  ASSUME NEW sw, sw.day \in Days, sw.old \in SUBSET Days
  PROVE  \/ NextFile(sw) = AtFile("idle", 0, {})
         \/ NextFile(sw) = AtFile("stat", sw.day + 1, sw.old) /\ sw.day + 1 \in Days
BY UsageAssumption DEF NextFile, NoIngest, Days

LEMMA AgedIs ==
  ASSUME NEW sw, sw.day \in Days, sw.old \in SUBSET Days
  PROVE  \/ Aged(sw) = AtFile("age", sw.day, sw.old) /\ sw.day \in sw.old
         \/ Aged(sw) = NextFile(sw)
BY DEF Aged

\* What the ingest knows of a file is of the types, and a step to the next file leaves `old` alone.
NewFile(sw) ==
  /\ sw \in IngestRecord /\ sw.old \subseteq ingest.old
  /\ \/ sw.at \in {"idle", "stat"}
     \/ sw.at = "age" /\ sw.day = ingest.day /\ sw.day \in sw.old

LEMMA NewFiles ==
  ASSUME UsageTypes
  PROVE  NewFile(NoIngest) /\ NewFile(NextFile(ingest)) /\ NewFile(Aged(ingest))
         /\ NextFile(ingest).at # "age"
<1>1. ingest.day \in Days /\ ingest.old \in SUBSET Days /\ 0 \in Days
  BY UsageAssumption DEF UsageTypes, IngestRecord, Days
<1>2. NewFile(NoIngest)
  BY <1>1, AtFileTyped DEF NewFile, NoIngest, AtFile, IngestPcs
<1>3. NewFile(NextFile(ingest)) /\ NextFile(ingest).at # "age"
  <2>1. CASE NextFile(ingest) = AtFile("idle", 0, {})
    BY <2>1, <1>2 DEF NoIngest, AtFile
  <2>2. CASE NextFile(ingest) = AtFile("stat", ingest.day + 1, ingest.old) /\ ingest.day + 1 \in Days
    BY <2>2, <1>1, AtFileTyped DEF NewFile, AtFile, IngestPcs
  <2> QED
    BY <1>1, <2>1, <2>2, NextFileIs
<1>4. NewFile(Aged(ingest))
  <2>1. CASE Aged(ingest) = AtFile("age", ingest.day, ingest.old) /\ ingest.day \in ingest.old
    BY <2>1, <1>1, AtFileTyped DEF NewFile, AtFile, IngestPcs
  <2>2. CASE Aged(ingest) = NextFile(ingest)
    BY <2>2, <1>3
  <2> QED
    BY <1>1, <2>1, <2>2, AgedIs
<1> QED
  BY <1>2, <1>3, <1>4

LEMMA Writes ==
  ASSUME UsageTypes, TurnsGoOn, turn.open,
         NEW step \in 0 .. MaxSteps, NEW day \in Days, Write(step, day)
  PROVE  LET rec == [turn |-> turn.n, step |-> step, life |-> life]
         IN  /\ rec \in Records
             /\ queue.todo = <<>> /\ queue'.todo = <<[day |-> day, rec |-> rec]>>
             /\ queue'.half = queue.half
             /\ queue' \in [todo : Seq(Request), half : BOOLEAN] /\ Len(queue'.todo) <= 1
<1> DEFINE rec == [turn |-> turn.n, step |-> step, life |-> life]
           x == [day |-> day, rec |-> rec]
<1>1. rec \in Records
  BY DEF UsageTypes, TurnsGoOn, Records
<1>2. x \in Request
  BY <1>1 DEF Request
<1>3. queue.todo = <<>> /\ queue' = [queue EXCEPT !.todo = Append(<<>>, x)]
  BY DEF Write
<1> HIDE DEF x
<1>4. Append(<<>>, x) = <<x>> /\ <<x>> \in Seq(Request) /\ Len(<<x>>) = 1
  BY <1>2
<1>5. queue'.todo = <<x>> /\ queue'.half = queue.half /\ queue' \in [todo : Seq(Request), half : BOOLEAN]
  BY <1>3, <1>4 DEF UsageTypes
<1>6. Len(queue'.todo) <= 1
  BY <1>4, <1>5
<1> QED
  BY <1>1, <1>3, <1>5, <1>6 DEF x

LEMMA TypesKept ==
  ASSUME UsageTypes, TurnsGoOn, HalfIsTorn, [UsageNext]_usageVars
  PROVE  UsageTypes'
<1> USE UsageAssumption
<1>1. CASE TurnStarts
  <2>1. turn' \in [n : 0 .. MaxTurns, open : BOOLEAN, start : Days, steps : 0 .. MaxSteps]
    BY <1>1 DEF TurnStarts, UsageTypes
  <2> QED
    BY <1>1, <2>1 DEF TurnStarts, UsageTypes, gateway
<1>2. CASE StepAnswered
  <2>1. PICK day \in turn.start .. today : Write(turn.steps + 1, day)
    BY <1>2 DEF StepAnswered
  <2>5. turn.open
    BY <1>2 DEF StepAnswered
  <2>6. turn.steps + 1 \in 0 .. MaxSteps
    BY SMTT(20), <1>2 DEF StepAnswered, UsageTypes
  <2>7. turn.start \in Days /\ today \in Days
    BY DEF UsageTypes
  <2>8. day \in Days
    BY <2>1, <2>7 DEF Days
  <2>2. turn.steps + 1 \in 0 .. MaxSteps /\ day \in Days
    BY <2>6, <2>8
  <2>3. queue' \in [todo : Seq(Request), half : BOOLEAN] /\ Len(queue'.todo) <= 1
    BY <2>1, <2>2, <2>5, Writes
  <2>4. turn' \in [n : 0 .. MaxTurns, open : BOOLEAN, start : Days, steps : 0 .. MaxSteps]
    BY <1>2, <2>2 DEF StepAnswered, UsageTypes
  <2> QED
    BY <1>2, <2>3, <2>4 DEF StepAnswered, UsageTypes, gateway
<1>3. CASE TurnEnds
  <2>1. turn.open /\ Write(0, turn.start) /\ 0 \in 0 .. MaxSteps /\ turn.start \in Days
    BY <1>3 DEF TurnEnds, UsageTypes
  <2>2. queue' \in [todo : Seq(Request), half : BOOLEAN] /\ Len(queue'.todo) <= 1
    BY <2>1, Writes
  <2>3. turn' \in [n : 0 .. MaxTurns, open : BOOLEAN, start : Days, steps : 0 .. MaxSteps]
    BY <1>3 DEF TurnEnds, UsageTypes, NoTurn, Days
  <2> QED
    BY <1>3, <2>2, <2>3 DEF TurnEnds, UsageTypes, gateway
<1>4. CASE LogFlushed
  BY <1>4 DEF UsageTypes, LogFlushed, gateway
<1>5. CASE AppendBegins
  <2>1. file' \in [Days -> Seq(Line)]
    BY <1>5, AppendBeginsFile DEF LastLine
  <2>2. queue' \in [todo : Seq(Request), half : BOOLEAN] /\ queue'.todo = queue.todo
    BY <1>5 DEF AppendBegins, UsageTypes
  <2> QED
    BY <1>5, <2>1, <2>2 DEF AppendBegins, UsageTypes, gateway
<1>6. CASE AppendEnds
  <2>1. file' \in [Days -> Seq(Line)]
    BY <1>6, AppendEndsFile DEF LastLine
  <2>4. Tail(queue.todo) = <<>>
    BY <1>6, FirstRequest DEF AppendEnds, HalfIsTorn
  <2>2. queue' = [todo |-> <<>>, half |-> FALSE]
    BY <1>6, <2>4 DEF AppendEnds
  <2>3. queue' \in [todo : Seq(Request), half : BOOLEAN] /\ Len(queue'.todo) <= 1
    BY <2>2, EmptySeq
  <2> QED
    BY <1>6, <2>1, <2>3 DEF AppendEnds, UsageTypes, gateway
<1>7. CASE Kill
  <2>1. logged \in 0 .. MaxTurns
    BY DEF UsageTypes, TurnsGoOn
  <2>2. turn' \in [n : 0 .. MaxTurns, open : BOOLEAN, start : Days, steps : 0 .. MaxSteps]
    BY <1>7, <2>1 DEF Kill, UsageTypes, NoTurn, Days
  <2>3. queue' \in [todo : Seq(Request), half : BOOLEAN] /\ Len(queue'.todo) <= 1
    BY <1>7 DEF Kill
  <2>4. life' \in 0 .. MaxKills
    BY <1>7 DEF Kill, UsageTypes
  <2> QED
    BY <1>7, <2>2, <2>3, <2>4 DEF Kill, UsageTypes, gateway
<1>8. CASE Midnight
  BY SMTT(20), <1>8 DEF UsageTypes, Midnight, gateway, Days
<1>9. ASSUME UNCHANGED runtime, removed' \in SUBSET Days, offset' \in [Days -> Nat], rows' \in SUBSET Records,
             ingest' \in IngestRecord
      PROVE  UsageTypes'
  BY <1>9 DEF UsageTypes, runtime
<1>10. /\ NewFile(NoIngest) /\ NewFile(NextFile(ingest)) /\ NewFile(Aged(ingest))
       /\ ingest \in IngestRecord /\ ingest.day \in Days /\ ingest.old \in SUBSET Days
  BY NewFiles DEF UsageTypes, IngestRecord
<1>11. CASE IngestBegins
  <2>1. ingest' \in IngestRecord
    BY <1>11, AtFileTyped DEF IngestBegins, Days, IngestPcs
  <2> QED
    BY <1>11, <2>1, <1>9 DEF IngestBegins, UsageTypes
<1>12. CASE IngestStats
  <2>1. Size(ingest.day) \in Nat /\ offset[ingest.day] \in Nat
    BY <1>10, SizeBounds DEF UsageTypes
  <2>2. [ingest EXCEPT !.at = "open", !.size = Size(ingest.day), !.off = offset[ingest.day]] \in IngestRecord
    BY <2>1, <1>10 DEF IngestRecord, IngestPcs
  <2>3. ingest' \in IngestRecord
    BY <1>12, <2>2, <1>10 DEF IngestStats, NewFile
  <2> QED
    BY <1>12, <2>3, <1>9 DEF IngestStats, UsageTypes
<1>13. CASE IngestOpens
  <2>1. Size(ingest.day) \in Nat
    BY <1>10, SizeBounds
  <2>2. ingest' \in IngestRecord
    BY <1>13, <2>1, <1>10 DEF IngestOpens, IngestRecord, IngestPcs
  <2> QED
    BY <1>13, <2>2, <1>9 DEF IngestOpens, UsageTypes
<1> DEFINE to == ChunkEnd(ingest.day, ingest.off, ingest.end)
<1>14. to \in Nat
  BY <1>10, ChunkEnds DEF IngestRecord
<1>15. ASSUME NEW lines \in SUBSET ReadLines(ingest.day, ingest.off, to)
       PROVE  Insert(ingest.day, lines) \in SUBSET Records
  BY <1>15, InsertKeeps DEF ReadLines, UsageTypes
<1>16. CASE IngestInserts
  <2>1. rows' \in SUBSET Records
    BY <1>16, <1>15 DEF IngestInserts, UsageTypes
  <2>2. ingest' \in IngestRecord
    BY <1>16, <1>14, <1>10 DEF IngestInserts, IngestRecord, IngestPcs
  <2> QED
    BY <1>16, <2>1, <2>2, <1>9 DEF IngestInserts, UsageTypes
<1>17. CASE IngestSaves
  <2>1. offset' \in [Days -> Nat]
    BY <1>17, <1>10 DEF IngestSaves, UsageTypes, IngestRecord
  <2>2. ingest' \in IngestRecord
    BY <1>17, <1>10 DEF IngestSaves, NewFile
  <2> QED
    BY <1>17, <2>1, <2>2, <1>9 DEF IngestSaves, UsageTypes
<1>18. CASE IngestRemoves
  <2>1. ingest' \in IngestRecord
    BY <1>18, <1>10 DEF IngestRemoves, IngestRecord, IngestPcs
  <2> QED
    BY <1>18, <1>10, <2>1, <1>9 DEF IngestRemoves, UsageTypes
<1>19. CASE IngestForgets
  <2>1. offset' \in [Days -> Nat]
    BY <1>19, <1>10 DEF IngestForgets, UsageTypes
  <2> QED
    BY <1>19, <1>10, <2>1, <1>9 DEF IngestForgets, UsageTypes, NewFile
<1>20. CASE IngestFails
  <2>1. rows' \in SUBSET Records
    BY SMTT(20), <1>20, <1>15 DEF IngestFails, UsageTypes
  <2>2. ingest' = NoIngest /\ UNCHANGED <<removed, offset>> /\ UNCHANGED runtime
    BY <1>20 DEF IngestFails
  <2>3. ingest' \in IngestRecord
    BY <2>2, <1>10 DEF NewFile
  <2> QED
    BY <2>1, <2>2, <2>3, <1>9 DEF UsageTypes
<1>21. CASE UNCHANGED usageVars
  BY <1>21 DEF UsageTypes, usageVars
<1> QED
  BY <1>1, <1>2, <1>3, <1>4, <1>5, <1>6, <1>7, <1>8, <1>11, <1>12, <1>13, <1>16, <1>17, <1>18, <1>19, <1>20, <1>21
  DEF UsageNext, IngestSteps

-----------------------------------------------------------------------------
(* The usage records: what a step does to the files.                         *)

FilesGrow ==
  \A d \in Days :
    /\ Len(file[d]) <= Len(file'[d]) /\ Size(d) <= Size(d)'
    /\ \A i \in 1 .. Len(file[d]) : file[d][i].whole => file'[d][i] = file[d][i]

LEMMA ReadIsWhole ==
  ASSUME UsageTypes, OnlyLastTorn, NEW d \in Days, NEW i \in Nat \ {0}, 2 * i <= Size(d)
  PROVE  i \in 1 .. Len(file[d]) /\ file[d][i].whole
<1> DEFINE n == Len(file[d])
<1>1. n \in Nat /\ DOMAIN file[d] = 1 .. n
      /\ (Torn(d) => Size(d) = 2 * n - 1) /\ (~Torn(d) => Size(d) = 2 * n)
  BY Sizes DEF SizesBounded
<1> HIDE DEF n
<1>2. i \in 1 .. n /\ (i = n => ~Torn(d))
  <2>1. CASE Torn(d)
    BY <1>1, <2>1
  <2>2. CASE ~Torn(d)
    BY <1>1, <2>2
  <2> QED
    BY <2>1, <2>2
<1>3. CASE i < n
  BY <1>1, <1>2, <1>3 DEF OnlyLastTorn, n
<1>4. CASE i = n
  <2>1. file[d] # <<>>
    BY <1>1, <1>2, EmptySeq DEF n
  <2>2. Last(file[d]).whole
    BY <1>2, <1>4, <2>1 DEF Torn
  <2> QED
    BY <1>2, <1>4, <2>2 DEF Last, n
<1> QED
  BY <1>1, <1>2, <1>3, <1>4 DEF n

LEMMA LastLineGrows ==
  ASSUME UsageTypes, UsageTypes', OnlyLastTorn, NEW d \in Days, NEW n, NEW x, LastLine(d, n, x),
         n = IF Torn(d) THEN Len(file[d]) ELSE Len(file[d]) + 1
  PROVE  OnlyLastTorn' /\ FilesGrow
<1>1. SizesBounded /\ SizesBounded'
  <2>1. UsageTypes' => SizesBounded'
    BY Sizes, PTL
  <2> QED
    BY <2>1, Sizes
<1>2. \A e \in Days : e # d => file'[e] = file[e] /\ Size(e)' = Size(e)
  BY DEF LastLine, Size, Torn
<1>3. /\ n \in Nat \ {0} /\ Len(file'[d]) = n /\ \A i \in 1 .. n - 1 : file'[d][i] = file[d][i]
      /\ Len(file[d]) \in Nat /\ Len(file[d]) <= n
  BY <1>1 DEF LastLine, SizesBounded
<1>4. Size(d) <= Size(d)'
  <2>1. CASE Torn(d)
    BY <2>1, <1>1, <1>3 DEF SizesBounded
  <2>2. CASE ~Torn(d)
    BY <2>2, <1>1, <1>3 DEF SizesBounded
  <2> QED
    BY <2>1, <2>2
<1>5. \A i \in 1 .. Len(file[d]) : file[d][i].whole => file'[d][i] = file[d][i]
  <2> SUFFICES ASSUME NEW i \in 1 .. Len(file[d]), file[d][i].whole
               PROVE  file'[d][i] = file[d][i]
    OBVIOUS
  <2>1. i # n
    <3>1. CASE Torn(d)
      BY <3>1, LastOfTorn
    <3>2. CASE ~Torn(d)
      BY <3>2, <1>3
    <3> QED
      BY <3>1, <3>2
  <2> QED
    BY <1>3, <2>1
<1>6. FilesGrow
  <2> SUFFICES ASSUME NEW e \in Days
               PROVE  /\ Len(file[e]) <= Len(file'[e]) /\ Size(e) <= Size(e)'
                      /\ \A i \in 1 .. Len(file[e]) : file[e][i].whole => file'[e][i] = file[e][i]
    BY DEF FilesGrow
  <2>1. CASE e = d
    BY <2>1, <1>3, <1>4, <1>5
  <2>2. CASE e # d
    BY <2>2, <1>1, <1>2 DEF SizesBounded
  <2> QED
    BY <2>1, <2>2
<1>7. OnlyLastTorn'
  <2> SUFFICES ASSUME NEW e \in Days, NEW i \in DOMAIN file'[e], i < Len(file'[e])
               PROVE  file'[e][i].whole
    BY DEF OnlyLastTorn
  <2>1. CASE e # d
    BY <2>1, <1>2 DEF OnlyLastTorn
  <2>2. CASE e = d
    <3>1. i \in 1 .. n - 1 /\ i \in DOMAIN file[d] /\ file'[d][i] = file[d][i]
      BY <2>2, <1>1, <1>3 DEF SizesBounded, LastLine
    <3>2. file[d][i].whole
      <4>1. CASE i < Len(file[d])
        BY <4>1, <3>1 DEF OnlyLastTorn
      <4>2. CASE i = Len(file[d])
        <5>1. ~Torn(d) /\ Size(d) = 2 * i /\ i \in Nat \ {0}
          BY <4>2, <1>1, <1>3, <3>1 DEF SizesBounded
        <5> QED
          BY <5>1, ReadIsWhole
      <4> QED
        BY <4>1, <4>2, <1>3, <3>1
    <3> QED
      BY <2>2, <3>1, <3>2
  <2> QED
    BY <2>1, <2>2
<1> QED
  BY <1>6, <1>7

QuietStays == \A d \in Days : WeekOld(d) => WeekOld(d)' /\ file'[d] = file[d]

LEMMA SameFiles ==
  ASSUME UsageTypes, file' = file, OnlyLastTorn
  PROVE  FilesGrow /\ OnlyLastTorn'
<1>1. \A d \in Days : Len(file[d]) \in Nat /\ Size(d) \in Nat /\ Size(d)' = Size(d)
  BY Sizes DEF SizesBounded, Size, Torn
<1>2. FilesGrow
  BY <1>1 DEF FilesGrow
<1>3. OnlyLastTorn'
  BY DEF OnlyLastTorn
<1> QED
  BY <1>2, <1>3

LEMMA FilesStep ==
  ASSUME UsageTypes, UsageTypes', OnlyLastTorn, HalfIsTorn, [UsageNext]_usageVars
  PROVE  OnlyLastTorn' /\ FilesGrow
<1>1. CASE AppendBegins
  <2> DEFINE d == Head(queue.todo).day
             r == Head(queue.todo).rec
  <2>1. d \in Days
    BY <1>1, FirstRequest DEF AppendBegins
  <2>2. CASE Torn(d)
    <3>1. LastLine(d, Len(file[d]), [has |-> file[d][Len(file[d])].has \union {r}, whole |-> FALSE])
      BY <1>1, <2>2, AppendBeginsFile
    <3> QED
      BY <2>1, <2>2, <3>1, LastLineGrows
  <2>3. CASE ~Torn(d)
    <3>1. LastLine(d, Len(file[d]) + 1, [has |-> {r}, whole |-> FALSE])
      BY <1>1, <2>3, AppendBeginsFile
    <3> QED
      BY <2>1, <2>3, <3>1, LastLineGrows
  <2> QED
    BY <2>2, <2>3
<1>2. CASE AppendEnds
  <2> DEFINE d == Head(queue.todo).day
  <2>1. d \in Days
    BY <1>2, FirstRequest DEF AppendEnds, HalfIsTorn
  <2>2. Torn(d) /\ LastLine(d, Len(file[d]), [has |-> file[d][Len(file[d])].has, whole |-> TRUE])
    BY <1>2, AppendEndsFile
  <2> QED
    BY <2>1, <2>2, LastLineGrows
<1>3. CASE file' = file
  BY <1>3, SameFiles
<1>4. AppendBegins \/ AppendEnds \/ file' = file
  BY DEF UsageNext, usageVars, TurnStarts, StepAnswered, TurnEnds, LogFlushed, Kill, Midnight, IngestBegins, IngestSteps,
    IngestStats, IngestOpens, IngestInserts, IngestSaves, IngestRemoves, IngestForgets, IngestFails, runtime
<1> QED
  BY <1>1, <1>2, <1>3, <1>4

LEMMA HalfStep ==
  ASSUME UsageTypes, UsageTypes', HalfIsTorn, TurnsGoOn, [UsageNext]_usageVars
  PROVE  HalfIsTorn'
<1>1. CASE AppendBegins
  <2> DEFINE d == Head(queue.todo).day
             r == Head(queue.todo).rec
             n == IF Torn(d) THEN Len(file[d]) ELSE Len(file[d]) + 1
  <2>1. d \in Days /\ queue'.todo = queue.todo /\ queue.todo # <<>>
    BY <1>1, FirstRequest DEF AppendBegins, UsageTypes
  <2>2. PICK y : LastLine(d, n, [has |-> y, whole |-> FALSE])
    <3>1. CASE Torn(d)
      BY <1>1, <3>1, AppendBeginsFile
    <3>2. CASE ~Torn(d)
      BY <1>1, <3>2, AppendBeginsFile
    <3> QED
      BY <3>1, <3>2
  <2>3. n \in Nat \ {0} /\ Len(file'[d]) = n /\ file'[d][n] = [has |-> y, whole |-> FALSE]
    BY <2>2 DEF LastLine
  <2> HIDE DEF n
  <2>4. file'[d] # <<>>
    BY <2>3, EmptySeq
  <2>5. ~file'[d][Len(file'[d])].whole
    BY <2>3
  <2>6. Torn(d)'
    BY <2>1, <2>4, <2>5 DEF Torn, Last
  <2> QED
    BY <2>1, <2>6 DEF HalfIsTorn
<1>2. CASE queue' = queue /\ file' = file
  BY <1>2 DEF HalfIsTorn, Torn
<1>3. CASE ~queue'.half
  BY <1>3 DEF HalfIsTorn
<1>4. CASE StepAnswered \/ TurnEnds
  <2>1. queue.todo = <<>> /\ queue'.half = queue.half
    BY <1>4 DEF StepAnswered, TurnEnds, Write, UsageTypes
  <2> QED
    BY <2>1, <1>3 DEF HalfIsTorn
<1>5. \/ AppendBegins \/ StepAnswered \/ TurnEnds
      \/ queue' = queue /\ file' = file
      \/ queue' = [todo |-> Tail(queue.todo), half |-> FALSE]
      \/ queue' = [todo |-> <<>>, half |-> FALSE]
  BY DEF UsageNext, usageVars, TurnStarts, LogFlushed, Kill, Midnight, IngestBegins, IngestSteps, AppendEnds,
    IngestStats, IngestOpens, IngestInserts, IngestSaves, IngestRemoves, IngestForgets, IngestFails, runtime
<1> QED
  BY <1>1, <1>2, <1>3, <1>4, <1>5

\* The runtime's steps leave the gateway's stores alone, and the gateway's the runtime's.
LEMMA UsageSides ==
  ASSUME [UsageNext]_usageVars
  PROVE  \/ UNCHANGED gateway
         \/ UNCHANGED runtime /\ (IngestBegins \/ IngestSteps \/ IngestFails)
BY DEF UsageNext, usageVars, gateway, TurnStarts, StepAnswered, TurnEnds, LogFlushed, AppendBegins, AppendEnds, Kill, Midnight,
    IngestBegins, IngestSteps,
    IngestStats, IngestOpens, IngestInserts, IngestSaves, IngestRemoves, IngestForgets, IngestFails, runtime

LEMMA TurnsStep ==
  ASSUME UsageTypes, UsageTypes', TurnsGoOn, [UsageNext]_usageVars
  PROVE  TurnsGoOn'
<1>1. CASE UNCHANGED <<turn, logged, today>>
  BY <1>1 DEF TurnsGoOn
<1>2. CASE TurnStarts
  BY <1>2 DEF TurnStarts, TurnsGoOn, UsageTypes, Days
<1>3. CASE StepAnswered
  <2>1. turn'.open = turn.open /\ turn'.n = turn.n /\ turn'.start = turn.start
    BY <1>3 DEF StepAnswered, UsageTypes
  <2> QED
    BY <1>3, <2>1 DEF StepAnswered, TurnsGoOn
<1>4. CASE TurnEnds
  BY <1>4 DEF TurnEnds, TurnsGoOn, UsageTypes, NoTurn
<1>5. CASE LogFlushed
  BY <1>5 DEF LogFlushed, TurnsGoOn, UsageTypes
<1>6. CASE Kill
  BY <1>6 DEF Kill, TurnsGoOn, UsageTypes, NoTurn
<1>7. CASE Midnight
  BY <1>7 DEF Midnight, TurnsGoOn, UsageTypes, Days
<1>8. \/ UNCHANGED <<turn, logged, today>>
      \/ TurnStarts \/ StepAnswered \/ TurnEnds \/ LogFlushed \/ Kill \/ Midnight
  BY DEF UsageNext, usageVars, AppendBegins, AppendEnds, IngestBegins, IngestSteps,
    IngestStats, IngestOpens, IngestInserts, IngestSaves, IngestRemoves, IngestForgets, IngestFails, runtime
<1> QED
  BY <1>1, <1>2, <1>3, <1>4, <1>5, <1>6, <1>7, <1>8

LEMMA QuietStep ==
  ASSUME UsageTypes, HalfIsTorn, TurnsGoOn, [UsageNext]_usageVars
  PROVE  QuietStays
<1> SUFFICES ASSUME NEW d \in Days, WeekOld(d)
             PROVE  WeekOld(d)' /\ file'[d] = file[d]
  BY DEF QuietStays
<1>0. /\ d < today /\ ~(turn.open /\ turn.start <= d) /\ \A i \in DOMAIN queue.todo : queue.todo[i].day # d
      /\ d \in Nat /\ today \in Nat /\ turn.start \in Nat
  BY UsageAssumption DEF WeekOld, UsageTypes, Days
<1>1. CASE UNCHANGED <<today, turn, queue, file>>
  BY <1>1 DEF WeekOld
<1>2. CASE TurnStarts
  BY <1>0, <1>2 DEF TurnStarts, WeekOld, UsageTypes, Days
<1>3. ASSUME NEW step, NEW day \in Days, day # d, Write(step, day)
      PROVE  \A i \in DOMAIN queue'.todo : queue'.todo[i].day # d
  <2> DEFINE x == [day |-> day, rec |-> [turn |-> turn.n, step |-> step, life |-> life]]
  <2>1. queue'.todo = Append(<<>>, x)
    BY <1>3 DEF Write, UsageTypes
  <2>2. x.day = day
    OBVIOUS
  <2> HIDE DEF x
  <2>3. queue'.todo = <<x>>
    BY <2>1
  <2> QED
    BY <2>2, <2>3, <1>3
<1>4. CASE StepAnswered
  <2>1. PICK day \in turn.start .. today : Write(turn.steps + 1, day)
    BY <1>4 DEF StepAnswered
  <2>2. day # d /\ day \in Days
    <3>1. turn.start \in Days /\ today \in Days /\ turn.start > d
      BY <1>0, <1>4 DEF StepAnswered, UsageTypes
    <3>2. turn.start \in Nat /\ today \in Nat /\ today <= LastDay
      BY <3>1, UsageAssumption DEF Days
    <3>3. day \in Nat /\ turn.start <= day /\ day <= today
      BY <2>1, <3>2
    <3> QED
      BY <3>1, <3>2, <3>3, <1>0, UsageAssumption DEF Days
  <2>3. \A i \in DOMAIN queue'.todo : queue'.todo[i].day # d
    BY <1>3, <2>1, <2>2
  <2>4. turn'.open = turn.open /\ turn'.start = turn.start
    BY <1>4 DEF StepAnswered, UsageTypes
  <2> QED
    BY <1>0, <1>4, <2>3, <2>4 DEF StepAnswered, WeekOld
<1>5. CASE TurnEnds
  <2>1. turn.start # d /\ turn.start \in Days /\ Write(0, turn.start)
    BY <1>0, <1>5 DEF TurnEnds, UsageTypes
  <2>2. \A i \in DOMAIN queue'.todo : queue'.todo[i].day # d
    BY <1>3, <2>1
  <2>3. turn'.open = FALSE
    BY <1>5 DEF TurnEnds, NoTurn
  <2> QED
    BY <1>0, <1>5, <2>2, <2>3 DEF TurnEnds, WeekOld
<1>6. CASE AppendBegins
  <2> DEFINE e == Head(queue.todo).day
  <2>1. queue.todo # <<>> /\ queue'.todo = queue.todo
    BY <1>6 DEF AppendBegins, UsageTypes
  <2>2. e # d /\ e \in Days
    BY <2>1, <1>0, FirstRequest
  <2>3. \E n, x : LastLine(e, n, x)
    BY <1>6, AppendBeginsFile
  <2>4. file'[d] = file[d]
    BY <2>2, <2>3 DEF LastLine
  <2> QED
    BY <1>0, <1>6, <2>1, <2>4 DEF AppendBegins, WeekOld
<1>7. CASE AppendEnds
  <2> DEFINE e == Head(queue.todo).day
  <2>1. queue.todo # <<>>
    BY <1>7 DEF AppendEnds, HalfIsTorn
  <2>2. e # d /\ e \in Days /\ Tail(queue.todo) = <<>>
    BY <2>1, <1>0, FirstRequest
  <2>3. \E n, x : LastLine(e, n, x)
    BY <1>7, AppendEndsFile
  <2>4. file'[d] = file[d]
    BY <2>2, <2>3 DEF LastLine
  <2>5. queue'.todo = <<>>
    BY <1>7, <2>2 DEF AppendEnds
  <2> QED
    BY <1>0, <1>7, <2>5, <2>4 DEF AppendEnds, WeekOld
<1>8. CASE Kill
  <2>1. queue'.todo = <<>> /\ turn'.open = FALSE
    BY <1>8 DEF Kill, NoTurn
  <2> QED
    BY <1>0, <1>8, <2>1 DEF Kill, WeekOld
<1>9. CASE Midnight
  BY <1>0, <1>9 DEF Midnight, WeekOld
<1>10. \/ UNCHANGED <<today, turn, queue, file>>
       \/ TurnStarts \/ StepAnswered \/ TurnEnds \/ AppendBegins \/ AppendEnds \/ Kill \/ Midnight
  BY DEF UsageNext, usageVars, LogFlushed, IngestBegins, IngestSteps,
    IngestStats, IngestOpens, IngestInserts, IngestSaves, IngestRemoves, IngestForgets, IngestFails, runtime
<1> QED
  BY <1>1, <1>2, <1>4, <1>5, <1>6, <1>7, <1>8, <1>9, <1>10

-----------------------------------------------------------------------------
(* The records.                                                             *)

LEMMA RecordedTyped ==
  ASSUME UsageTypes, NEW r \in Recorded
  PROVE  r \in Records /\ r.turn \in Nat
<1>1. r \in Records
  <2>1. CASE r \in rows
    BY <2>1 DEF UsageTypes
  <2>2. CASE r \in InFiles
    <3>1. PICK d \in Days : r \in UNION {file[d][i].has : i \in DOMAIN file[d]}
      BY <2>2 DEF InFiles
    <3>2. PICK i \in DOMAIN file[d] : r \in file[d][i].has
      BY <3>1
    <3>3. file[d] \in Seq(Line)
      BY DEF UsageTypes
    <3>4. file[d][i] \in Line
      BY <3>3, LenProperties
    <3> QED
      BY <3>2, <3>4 DEF Line
  <2>3. CASE r \in Queued
    <3>1. PICK i \in DOMAIN queue.todo : r = queue.todo[i].rec
      BY <2>3 DEF Queued
    <3>2. queue.todo \in Seq(Request)
      BY DEF UsageTypes
    <3>3. queue.todo[i] \in Request
      BY <3>2, LenProperties
    <3> QED
      BY <3>1, <3>3 DEF Request
  <2> QED
    BY <2>1, <2>2, <2>3 DEF Recorded
<1> QED
  BY <1>1 DEF Records

LEMMA LastLineInFiles ==
  ASSUME UsageTypes, UsageTypes', NEW d \in Days, NEW n, NEW x, LastLine(d, n, x)
  PROVE  InFiles' \subseteq InFiles \union x.has
<1>1. SizesBounded /\ SizesBounded'
  <2>1. UsageTypes' => SizesBounded'
    BY Sizes, PTL
  <2> QED
    BY <2>1, Sizes
<1> SUFFICES ASSUME NEW r \in InFiles'
             PROVE  r \in InFiles \union x.has
  OBVIOUS
<1>2. PICK e \in Days : r \in UNION {file'[e][i].has : i \in DOMAIN file'[e]}
  BY DEF InFiles
<1>3. PICK i \in DOMAIN file'[e] : r \in file'[e][i].has
  BY <1>2
<1>4. CASE e # d
  BY <1>3, <1>4 DEF LastLine, InFiles
<1>5. CASE e = d /\ i = n
  BY <1>3, <1>5 DEF LastLine
<1>6. CASE e = d /\ i # n
  <2>1. Len(file'[d]) = n /\ Len(file[d]) \in Nat /\ n <= Len(file[d]) + 1 /\ n \in Nat
    BY <1>1 DEF LastLine, SizesBounded
  <2>2. i \in 1 .. n - 1 /\ i \in DOMAIN file[d]
    BY <1>6, <1>3, <2>1, <1>1 DEF SizesBounded
  <2>3. file'[d][i] = file[d][i]
    BY <2>2 DEF LastLine
  <2> QED
    BY <1>3, <1>6, <2>2, <2>3 DEF InFiles
<1> QED
  BY <1>4, <1>5, <1>6

\* The lines that are read are in the file.
LEMMA ReadLinesThere ==
  ASSUME UsageTypes, NEW d \in Days, NEW from \in Nat, NEW to \in Nat, to <= Size(d), NEW i \in ReadLines(d, from, to)
  PROVE  i \in Lines(d) /\ Readable(file[d][i])
<1>1. to \div 2 \in Nat /\ 2 * (to \div 2) <= to /\ (from + 1) \div 2 \in Nat
  BY Halves
<1>2. i \in Nat \ {0} /\ i <= to \div 2
  BY <1>1 DEF ReadLines
<1>3. Len(file[d]) \in Nat /\ DOMAIN file[d] = 1 .. Len(file[d])
      /\ Size(d) \in Nat /\ Size(d) <= 2 * Len(file[d])
  BY Sizes DEF SizesBounded
<1>4. i \in DOMAIN file[d]
  BY <1>1, <1>2, <1>3
<1> QED
  BY <1>4 DEF ReadLines, Lines

LEMMA InsertIsRecorded ==
  ASSUME UsageTypes, NEW d \in Days, NEW lines \in SUBSET Lines(d)
  PROVE  Insert(d, lines) \subseteq Recorded
<1> SUFFICES ASSUME NEW r \in Insert(d, lines), r \notin rows
             PROVE  r \in InFiles
  BY DEF Recorded
<1>1. PICK i \in lines : r = RecordOf(d, i)
  BY InsertKeeps DEF Lines
<1>2. i \in DOMAIN file[d] /\ file[d][i].has = {r}
  BY <1>1, ReadRecord DEF Lines
<1> QED
  BY <1>2 DEF InFiles

\* The lines of one chunk are in the file.
LEMMA ChunkLinesThere ==
  ASSUME UsageTypes, IngestTrue, ingest.at = "read"
  PROVE  /\ ReadLines(ingest.day, ingest.off, ChunkEnd(ingest.day, ingest.off, ingest.end)) \subseteq Lines(ingest.day)
         /\ ChunkEnd(ingest.day, ingest.off, ingest.end) \in Nat
         /\ ChunkEnd(ingest.day, ingest.off, ingest.end) % 2 = 0
         /\ ChunkEnd(ingest.day, ingest.off, ingest.end) <= Size(ingest.day)
<1> DEFINE d == ingest.day
           to == ChunkEnd(d, ingest.off, ingest.end)
<1>1. d \in Days /\ ingest.off \in Nat /\ ingest.end \in Nat /\ ingest.end <= Size(d)
  BY DEF UsageTypes, IngestRecord, IngestTrue
<1>2. to \in Nat /\ to % 2 = 0 /\ to <= ingest.end
  BY <1>1, ChunkEnds
<1>3. Size(d) \in Nat
  BY <1>1, SizeBounds
<1>4. to <= Size(d)
  BY <1>1, <1>2, <1>3
<1>5. ReadLines(d, ingest.off, to) \subseteq Lines(d)
  BY <1>1, <1>2, <1>4, ReadLinesThere
<1> QED
  BY <1>2, <1>4, <1>5

\* Only write() makes a record.
LEMMA NothingNew ==
  ASSUME UsageTypes, UsageTypes', HalfIsTorn, IngestTrue, [UsageNext]_usageVars, ~StepAnswered, ~TurnEnds
  PROVE  Recorded' \subseteq Recorded
<1>1. CASE UNCHANGED runtime
  <2>1. rows' \subseteq Recorded
    <3>1. CASE rows' = rows
      BY <3>1 DEF Recorded
    <3>2. ASSUME NEW lines, lines \subseteq ReadLines(ingest.day, ingest.off, ChunkEnd(ingest.day, ingest.off, ingest.end)),
                 rows' = Insert(ingest.day, lines), ingest.at = "read"
          PROVE  rows' \subseteq Recorded
      <4>1. lines \in SUBSET Lines(ingest.day) /\ ingest.day \in Days
        BY <3>2, ChunkLinesThere DEF UsageTypes, IngestRecord
      <4> QED
        BY <3>2, <4>1, InsertIsRecorded
    <3>3. CASE IngestInserts
      BY <3>3, <3>1, <3>2 DEF IngestInserts
    <3>4. CASE IngestFails
      BY <3>4, <3>1, <3>2 DEF IngestFails
    <3>5. rows' = rows \/ IngestInserts \/ IngestFails
      BY DEF UsageNext, usageVars, gateway, TurnStarts, StepAnswered, TurnEnds, LogFlushed, AppendBegins, AppendEnds, Kill,
        Midnight, IngestBegins, IngestSteps, IngestStats, IngestOpens, IngestSaves, IngestRemoves, IngestForgets
    <3> QED
      BY <3>1, <3>3, <3>4, <3>5
  <2>2. InFiles' = InFiles /\ Queued' = Queued
    BY <1>1 DEF runtime, InFiles, Queued
  <2> QED
    BY <2>1, <2>2 DEF Recorded
<1>2. CASE AppendBegins
  <2> DEFINE d == Head(queue.todo).day
             r == Head(queue.todo).rec
             n == Len(file[d])
  <2>1. d \in Days /\ queue'.todo = queue.todo /\ rows' = rows
    BY <1>2, FirstRequest DEF AppendBegins, UsageTypes, gateway
  <2>2. r \in Queued
    <3>1. r = queue.todo[1].rec /\ Len(queue.todo) = 1 /\ queue.todo \in Seq(Request)
      BY <1>2, FirstRequest DEF AppendBegins, UsageTypes
    <3>2. 1 \in DOMAIN queue.todo
      BY <3>1
    <3> QED
      BY <3>1, <3>2 DEF Queued
  <2>3. InFiles' \subseteq InFiles \union {r}
    <3>1. CASE Torn(d)
      <4>1. LastLine(d, n, [has |-> file[d][n].has \union {r}, whole |-> FALSE])
        BY <1>2, <3>1, AppendBeginsFile
      <4>2. InFiles' \subseteq InFiles \union (file[d][n].has \union {r})
        BY <2>1, <4>1, LastLineInFiles
      <4>3. n \in DOMAIN file[d]
        BY <2>1, <3>1, LastOfTorn
      <4> QED
        BY <2>1, <4>2, <4>3 DEF InFiles
    <3>2. CASE ~Torn(d)
      <4>1. LastLine(d, n + 1, [has |-> {r}, whole |-> FALSE])
        BY <1>2, <3>2, AppendBeginsFile
      <4> QED
        BY <2>1, <4>1, LastLineInFiles
    <3> QED
      BY <3>1, <3>2
  <2>4. Queued' = Queued
    BY <2>1 DEF Queued
  <2> QED
    BY <2>1, <2>2, <2>3, <2>4 DEF Recorded
<1>3. CASE AppendEnds
  <2> DEFINE d == Head(queue.todo).day
             n == Len(file[d])
  <2>1. d \in Days /\ queue'.todo = <<>> /\ rows' = rows
    BY <1>3, FirstRequest DEF AppendEnds, HalfIsTorn, gateway
  <2>2. Torn(d) /\ LastLine(d, n, [has |-> file[d][n].has, whole |-> TRUE])
    BY <1>3, AppendEndsFile
  <2>3. InFiles' \subseteq InFiles \union file[d][n].has
    BY <2>1, <2>2, LastLineInFiles
  <2>4. n \in DOMAIN file[d]
    BY <2>1, <2>2, LastOfTorn
  <2>5. Queued' = {}
    BY <2>1 DEF Queued
  <2> QED
    BY <2>1, <2>3, <2>4, <2>5 DEF Recorded, InFiles
<1>4. CASE Kill
  <2>1. InFiles' = InFiles /\ rows' = rows /\ Queued' = {}
    BY <1>4 DEF Kill, InFiles, Queued, gateway
  <2> QED
    BY <2>1 DEF Recorded
<1>5. CASE TurnStarts \/ LogFlushed \/ Midnight
  <2>1. file' = file /\ rows' = rows /\ queue' = queue
    BY <1>5 DEF TurnStarts, LogFlushed, Midnight, gateway
  <2> QED
    BY <2>1 DEF Recorded, InFiles, Queued
<1> QED
  BY <1>1, <1>2, <1>3, <1>4, <1>5
  DEF UsageNext, usageVars, IngestBegins, IngestSteps,
    IngestStats, IngestOpens, IngestInserts, IngestSaves, IngestRemoves, IngestForgets, IngestFails, runtime

LEMMA RowsGrow ==
  ASSUME UsageTypes, [UsageNext]_usageVars
  PROVE  rows \subseteq rows' /\ reused \subseteq reused'
<1>1. CASE IngestInserts
  BY <1>1, InsertKeeps DEF IngestInserts, ReadLines, runtime
<1>2. CASE IngestFails
  BY <1>2, InsertKeeps DEF IngestFails, ReadLines, runtime
<1>3. CASE rows' = rows /\ (reused' = reused \/ Kill)
  BY <1>3 DEF Kill
<1> QED
  BY <1>1, <1>2, <1>3
  DEF UsageNext, usageVars, gateway, TurnStarts, StepAnswered, TurnEnds, LogFlushed, AppendBegins, AppendEnds, Kill,
      Midnight, IngestBegins, IngestSteps, IngestStats, IngestOpens, IngestSaves, IngestRemoves, IngestForgets, runtime

\* A record that is made has a turn and a step which no other has, but a turn whose number is used again.
LEMMA NewRecord ==
  ASSUME UsageTypes, UsageTypes', TurnsGoOn, NumbersKnown, StepAnswered \/ TurnEnds
  PROVE  \E rec \in Records :
           /\ Recorded' \subseteq Recorded \union {rec}
           /\ \A q \in Recorded : SameKey(q, rec) => Shadowed(q)
           /\ rec.turn = turn.n /\ rec.step \in {0, turn.steps + 1}
           /\ StepAnswered => rec.step = turn.steps + 1
<1> DEFINE Made(step) == [turn |-> turn.n, step |-> step, life |-> life]
<1>1. turn.open /\ turn.steps \in Nat /\ file' = file /\ rows' = rows
  BY DEF StepAnswered, TurnEnds, UsageTypes, gateway
<1>2. ASSUME NEW step \in 0 .. MaxSteps, step \in {0, turn.steps + 1}, NEW day \in Days, Write(step, day)
      PROVE  /\ Made(step) \in Records
             /\ Recorded' \subseteq Recorded \union {Made(step)}
             /\ \A q \in Recorded : SameKey(q, Made(step)) => Shadowed(q)
  <2>1. Made(step) \in Records /\ queue'.todo = <<[day |-> day, rec |-> Made(step)]>>
    BY <1>1, <1>2, Writes
  <2>2. Queued' = {Made(step)}
    <3> DEFINE x == [day |-> day, rec |-> Made(step)]
    <3>1. queue'.todo = <<x>> /\ x.rec = Made(step)
      BY <2>1
    <3> HIDE DEF x
    <3> QED
      BY <3>1 DEF Queued
  <2>3. ASSUME NEW q \in Recorded, SameKey(q, Made(step)), ~Shadowed(q)
        PROVE  FALSE
    <3>1. q.turn = turn.n /\ q.step = step
      BY <2>3 DEF SameKey
    <3>2. q.step \in 1 .. turn.steps
      BY <1>1, <2>3, <3>1 DEF NumbersKnown
    <3> QED
      BY <1>1, <1>2, <3>1, <3>2
  <2> QED
    BY <1>1, <2>1, <2>2, <2>3 DEF Recorded, InFiles
<1>3. CASE StepAnswered
  <2>1. PICK day \in turn.start .. today : Write(turn.steps + 1, day)
    BY <1>3 DEF StepAnswered
  <2>2. turn.start \in Days /\ today \in Days
    BY DEF UsageTypes
  <2>3. day \in Days
    BY <2>1, <2>2, UsageAssumption DEF Days
  <2>4. turn.steps + 1 \in 0 .. MaxSteps
    BY <1>3 DEF StepAnswered, UsageTypes
  <2> DEFINE rec == Made(turn.steps + 1)
  <2>5. rec \in Records /\ Recorded' \subseteq Recorded \union {rec} /\ \A q \in Recorded : SameKey(q, rec) => Shadowed(q)
    BY <1>2, <2>1, <2>3, <2>4
  <2>6. rec.turn = turn.n /\ rec.step = turn.steps + 1
    OBVIOUS
  <2> HIDE DEF rec
  <2> QED
    BY <2>5, <2>6
<1>4. CASE TurnEnds /\ ~StepAnswered
  <2>1. Write(0, turn.start) /\ turn.start \in Days /\ 0 \in 0 .. MaxSteps
    BY <1>4, UsageAssumption DEF TurnEnds, UsageTypes
  <2> DEFINE rec == Made(0)
  <2>2. rec \in Records /\ Recorded' \subseteq Recorded \union {rec} /\ \A q \in Recorded : SameKey(q, rec) => Shadowed(q)
    BY <1>2, <2>1
  <2>3. rec.turn = turn.n /\ rec.step = 0
    OBVIOUS
  <2> HIDE DEF rec
  <2> QED
    BY <1>4, <2>2, <2>3
<1> QED
  BY <1>3, <1>4

LEMMA RecordsStep ==
  ASSUME UsageTypes, UsageTypes', HalfIsTorn, TurnsGoOn, IngestTrue, NumbersKnown, KeysUnique, [UsageNext]_usageVars
  PROVE  NumbersKnown' /\ KeysUnique'
<1>1. reused \subseteq reused'
  BY RowsGrow
<1>2. \A r \in Recorded : r.turn \in Nat
  BY RecordedTyped
<1>3. turn.n \in Nat /\ turn.steps \in Nat /\ logged \in Nat
  BY DEF UsageTypes
<1>4. CASE StepAnswered \/ TurnEnds
  <2>1. PICK rec \in Records :
           /\ Recorded' \subseteq Recorded \union {rec}
           /\ \A q \in Recorded : SameKey(q, rec) => Shadowed(q)
           /\ rec.turn = turn.n /\ rec.step \in {0, turn.steps + 1}
           /\ StepAnswered => rec.step = turn.steps + 1
    BY <1>4, NewRecord
  <2>2. reused' = reused
    BY <1>4 DEF StepAnswered, TurnEnds
  <2>3. KeysUnique'
    <3> SUFFICES ASSUME NEW q \in Recorded', NEW r \in Recorded', SameKey(q, r), q # r
                 PROVE  r.turn \in reused
      BY <2>2 DEF KeysUnique, SameKey, Shadowed
    <3>1. q.turn = r.turn /\ q.step = r.step
      BY DEF SameKey
    <3>2. CASE q \in Recorded /\ r \in Recorded
      BY <3>2 DEF KeysUnique, Shadowed
    <3>3. CASE q \in Recorded /\ r = rec
      BY <2>1, <3>1, <3>3 DEF Shadowed
    <3>4. CASE r \in Recorded /\ q = rec
      BY <2>1, <3>1, <3>4 DEF Shadowed, SameKey
    <3> QED
      BY <2>1, <3>2, <3>3, <3>4
  <2>4. CASE StepAnswered
    <3>1. turn'.n = turn.n /\ turn'.open = turn.open /\ turn'.steps = turn.steps + 1
      BY <2>4 DEF StepAnswered, UsageTypes
    <3> SUFFICES ASSUME NEW r \in Recorded', r.turn \notin reused
                 PROVE  r.turn <= turn.n /\ (turn.open /\ r.turn = turn.n => r.step \in 1 .. turn.steps + 1)
      BY <2>2, <2>3, <3>1 DEF NumbersKnown, Shadowed
    <3>2. CASE r \in Recorded
      BY <1>3, <3>2 DEF NumbersKnown, Shadowed
    <3>3. CASE r = rec
      BY <1>3, <2>1, <2>4, <3>3
    <3> QED
      BY <2>1, <2>3, <3>2, <3>3
  <2>5. CASE TurnEnds
    <3>1. turn'.n = turn.n /\ turn'.open = FALSE
      BY <2>5 DEF TurnEnds, NoTurn
    <3> SUFFICES ASSUME NEW r \in Recorded', r.turn \notin reused
                 PROVE  r.turn <= turn.n
      BY <2>2, <2>3, <3>1 DEF NumbersKnown, Shadowed
    <3> QED
      BY <1>3, <2>1 DEF NumbersKnown, Shadowed
  <2> QED
    BY <1>4, <2>3, <2>4, <2>5
<1>5. CASE ~StepAnswered /\ ~TurnEnds
  <2>1. Recorded' \subseteq Recorded
    BY <1>5, NothingNew
  <2>2. KeysUnique'
    BY <1>1, <2>1 DEF KeysUnique, SameKey, Shadowed
  <2> SUFFICES ASSUME NEW r \in Recorded, r.turn \notin reused'
               PROVE  r.turn <= turn'.n /\ (turn'.open /\ r.turn = turn'.n => r.step \in 1 .. turn'.steps)
    BY <2>1, <2>2 DEF NumbersKnown, Shadowed
  <2>3. r.turn <= turn.n /\ (turn.open /\ r.turn = turn.n => r.step \in 1 .. turn.steps) /\ r.turn \in Nat
    BY <1>1, <1>2 DEF NumbersKnown, Shadowed
  <2>4. CASE turn' = turn
    BY <2>3, <2>4
  <2>5. CASE TurnStarts
    <3>1. turn'.n = turn.n + 1
      BY <2>5 DEF TurnStarts
    <3> QED
      BY <1>3, <2>3, <3>1
  <2>6. CASE Kill
    <3>1. turn'.n = logged /\ turn'.open = FALSE /\ r.turn \notin (logged + 1) .. turn.n
      BY <2>6 DEF Kill, NoTurn
    <3> QED
      BY <1>3, <2>3, <3>1
  <2>7. turn' = turn \/ TurnStarts \/ Kill
    BY <1>5
    DEF UsageNext, usageVars, LogFlushed, AppendBegins, AppendEnds, Midnight,
        IngestBegins, IngestSteps, IngestStats, IngestOpens, IngestInserts, IngestSaves, IngestRemoves, IngestForgets,
        IngestFails, runtime
  <2> QED
    BY <2>4, <2>5, <2>6, <2>7
<1> QED
  BY <1>4, <1>5

-----------------------------------------------------------------------------
(* The lines that are counted.                                              *)

LEMMA InsertCounts ==
  ASSUME UsageTypes, KeysUnique, NEW d \in Days, NEW lines \in SUBSET Lines(d), NEW i \in lines
  PROVE  RecordOf(d, i) \in Insert(d, lines) \/ Shadowed(RecordOf(d, i))
<1> DEFINE Rec(j) == RecordOf(d, j)
           Same == {j \in lines : SameKey(Rec(j), Rec(i))}
<1>1. lines \subseteq Nat
  <2>1. Len(file[d]) \in Nat /\ DOMAIN file[d] = 1 .. Len(file[d])
    BY Sizes DEF SizesBounded
  <2> QED
    BY <2>1 DEF Lines
<1>2. \A j \in lines : Rec(j) \in Recorded /\ Rec(j) \in Records
  <2> SUFFICES ASSUME NEW j \in lines
               PROVE  Rec(j) \in InFiles /\ Rec(j) \in Records
    BY DEF Recorded
  <2>1. j \in DOMAIN file[d] /\ file[d][j].has = {Rec(j)} /\ Rec(j) \in Records
    BY ReadRecord DEF Lines
  <2> QED
    BY <2>1 DEF InFiles
<1>3. PICK j \in Same : \A k \in Same : j <= k
  <2>1. i \in Same /\ Same \in SUBSET Nat
    BY <1>1 DEF SameKey
  <2> QED
    BY <2>1, LeastNatural
<1>4. \A k \in lines : k < j => ~SameKey(Rec(k), Rec(j))
  <2> SUFFICES ASSUME NEW k \in lines, k < j, SameKey(Rec(k), Rec(j))
               PROVE  FALSE
    OBVIOUS
  <2>1. k \in Same
    BY <1>3 DEF SameKey
  <2> QED
    BY <1>1, <1>3, <2>1
<1>5. CASE \E q \in rows : SameKey(q, Rec(j))
  <2>1. PICK q \in rows : SameKey(q, Rec(i))
    BY <1>5, <1>3 DEF SameKey
  <2>2. q = Rec(i) \/ Shadowed(Rec(i))
    BY <1>2, <2>1 DEF KeysUnique, Recorded, Shadowed, SameKey
  <2> QED
    BY <2>2 DEF Insert
<1>6. CASE ~\E q \in rows : SameKey(q, Rec(j))
  <2>1. Rec(j) \in Insert(d, lines)
    BY <1>3, <1>4, <1>6 DEF Insert
  <2>2. Rec(j) = Rec(i) \/ Shadowed(Rec(i))
    <3>1. SameKey(Rec(j), Rec(i)) /\ j \in lines
      BY <1>3
    <3> QED
      BY <1>2, <3>1 DEF KeysUnique, Shadowed, SameKey
  <2> QED
    BY <2>1, <2>2
<1> QED
  BY <1>5, <1>6

LEMMA CountedStays ==
  ASSUME UsageTypes, UsageTypes', OnlyLastTorn, FilesGrow, rows \subseteq rows', reused \subseteq reused',
         NEW d \in Days, NEW off \in Nat, CountedTo(d, off)
  PROVE  CountedTo(d, off)'
<1>1. SizesBounded /\ SizesBounded'
  <2>1. UsageTypes' => SizesBounded'
    BY Sizes, PTL
  <2> QED
    BY <2>1, Sizes
<1>2. Size(d) \in Nat /\ Size(d)' \in Nat /\ Size(d) <= Size(d)' /\ off <= Size(d) /\ off % 2 = 0
  BY <1>1 DEF SizesBounded, FilesGrow, CountedTo
<1>3. ASSUME NEW i \in Lines(d)', 2 * i <= off
      PROVE  \A r \in file'[d][i].has : Counted(r)'
  <2>1. i \in Nat \ {0} /\ i \in DOMAIN file'[d] /\ Readable(file'[d][i])
    BY <1>1, <1>3 DEF Lines, SizesBounded
  <2>2. 2 * i <= Size(d)
    BY <1>2, <1>3, <2>1
  <2>3. i \in 1 .. Len(file[d]) /\ file[d][i].whole
    BY <2>1, <2>2, ReadIsWhole
  <2>4. file'[d][i] = file[d][i] /\ i \in DOMAIN file[d]
    BY <1>1, <2>3 DEF FilesGrow, SizesBounded
  <2>5. i \in Lines(d)
    BY <2>1, <2>4 DEF Lines
  <2> QED
    BY <1>3, <2>4, <2>5 DEF CountedTo, Counted, Shadowed
<1>4. off <= Size(d)'
  BY <1>2
<1> QED
  BY <1>2, <1>3, <1>4 DEF CountedTo

LEMMA AllCountedStays ==
  ASSUME rows \subseteq rows', reused \subseteq reused', NEW d \in Days, file'[d] = file[d], AllCounted(d)
  PROVE  AllCounted(d)'
BY DEF AllCounted, Lines, Counted, Shadowed

\* All of a file is counted when the offset has come to its size.
LEMMA FullyCounted ==
  ASSUME UsageTypes, NEW d \in Days, NEW off \in Nat, CountedTo(d, off), off >= Size(d)
  PROVE  AllCounted(d)
<1> SUFFICES ASSUME NEW i \in Lines(d)
             PROVE  \A r \in file[d][i].has : Counted(r)
  BY DEF AllCounted
<1>1. /\ Len(file[d]) \in Nat /\ DOMAIN file[d] = 1 .. Len(file[d]) /\ Size(d) \in Nat
      /\ (Torn(d) => Size(d) = 2 * Len(file[d]) - 1) /\ (~Torn(d) => Size(d) = 2 * Len(file[d]))
  BY Sizes DEF SizesBounded
<1>2. i \in 1 .. Len(file[d]) /\ file[d][i].whole
  BY <1>1 DEF Lines, Readable
<1>3. 2 * i <= Size(d)
  <2>1. CASE Torn(d)
    <3>1. i # Len(file[d])
      BY <1>2, <2>1, LastOfTorn
    <3> QED
      BY <1>1, <1>2, <2>1, <3>1
  <2>2. CASE ~Torn(d)
    BY <1>1, <1>2, <2>2
  <2> QED
    BY <2>1, <2>2
<1>4. 2 * i <= off
  BY <1>1, <1>2, <1>3
<1> QED
  BY <1>4 DEF CountedTo

\* A chunk: its lines are counted when its records are inserted.
LEMMA ChunkCounted ==
  ASSUME UsageTypes, KeysUnique, UNCHANGED <<file, reused>>,
         NEW d \in Days, NEW off \in Nat, CountedTo(d, off), NEW to \in Nat, to % 2 = 0, to <= Size(d),
         ReadLines(d, off, to) \subseteq Lines(d), rows' = Insert(d, ReadLines(d, off, to))
  PROVE  CountedTo(d, to)'
<1>1. Size(d)' = Size(d) /\ Lines(d)' = Lines(d)
  BY DEF Size, Torn, Lines
<1> SUFFICES ASSUME NEW i \in Lines(d), 2 * i <= to, NEW r \in file[d][i].has
             PROVE  r \in rows' \/ r.turn \in reused
  BY <1>1 DEF CountedTo, Counted, Shadowed
<1>2. i \in Nat \ {0} /\ Readable(file[d][i])
  BY Sizes DEF SizesBounded, Lines
<1>3. CASE 2 * i <= off
  <2>1. rows \subseteq rows'
    BY InsertKeeps DEF ReadLines
  <2> QED
    BY <1>3, <2>1 DEF CountedTo, Counted, Shadowed
<1>4. CASE ~(2 * i <= off)
  <2>1. 2 * (off \div 2) = off /\ off \div 2 \in Nat /\ (off + 1) \div 2 = off \div 2
    BY Halves DEF CountedTo
  <2>2. 2 * (to \div 2) = to /\ to \div 2 \in Nat
    BY Halves
  <2>3. i \in (off + 1) \div 2 + 1 .. to \div 2
    BY <1>2, <1>4, <2>1, <2>2
  <2>4. i \in ReadLines(d, off, to)
    BY <1>2, <2>3 DEF ReadLines
  <2>5. RecordOf(d, i) \in rows' \/ Shadowed(RecordOf(d, i))
    BY <2>4, InsertCounts
  <2>6. r = RecordOf(d, i)
    BY <1>2, ReadRecord
  <2> QED
    BY <2>5, <2>6 DEF Shadowed
<1> QED
  BY <1>3, <1>4

\* IngestTrue after a step, of the file that the ingest is at then.
LEMMA IngestAfter ==
  ASSUME NEW d, NEW off, NEW old, ingest'.day = d, ingest'.off = off, ingest'.old = old,
         ingest'.at \in {"open", "read", "save"} =>
           /\ CountedTo(d, off)' /\ ingest'.size <= Size(d)'
           /\ d \in old => ingest'.size = Size(d)',
         ingest'.at = "read" => ingest'.end <= Size(d)',
         ingest'.at \in {"age", "forget"} => d \in old /\ AllCounted(d)'
  PROVE  IngestTrue'
BY DEF IngestTrue, CountedTo, AllCounted, Size, Torn, Lines, Counted, Shadowed

LEMMA CountingStep ==
  ASSUME UsageInv, UsageTypes', [UsageNext]_usageVars
  PROVE  OffsetTrue' /\ RemovedCounted' /\ IngestTrue' /\ OldQuiet'
<1>1. /\ UsageTypes /\ TurnsGoOn /\ OnlyLastTorn /\ HalfIsTorn /\ NumbersKnown /\ KeysUnique
      /\ OffsetTrue /\ RemovedCounted /\ IngestTrue /\ OldQuiet
  BY DEF UsageInv
<1>2. FilesGrow /\ QuietStays /\ rows \subseteq rows' /\ reused \subseteq reused'
  BY <1>1, FilesStep, QuietStep, RowsGrow
<1>3. ASSUME NEW d \in Days, NEW off \in Nat, CountedTo(d, off)
      PROVE  CountedTo(d, off)'
  BY <1>1, <1>2, <1>3, CountedStays
<1>4. ASSUME NEW d \in Days, WeekOld(d)
      PROVE  file'[d] = file[d] /\ WeekOld(d)' /\ Size(d)' = Size(d)
  BY <1>2, <1>4 DEF QuietStays, Size, Torn
<1>5. ASSUME NEW d \in Days, WeekOld(d), AllCounted(d)
      PROVE  AllCounted(d)'
  BY <1>2, <1>4, <1>5, AllCountedStays
<1>6. /\ \A d \in Days : CountedTo(d, offset[d]) /\ offset[d] \in Nat /\ Size(d) \in Nat
      /\ \A d \in removed : d \in Days /\ AllCounted(d) /\ WeekOld(d)
      /\ \A d \in ingest.old : d \in Days /\ WeekOld(d)
  BY <1>1, SizeBounds DEF OffsetTrue, RemovedCounted, OldQuiet, UsageTypes, IngestRecord
<1>7. PICK d : d = ingest.day
  OBVIOUS
<1>8. PICK off : off = ingest.off
  OBVIOUS
<1>9. d \in Days /\ off \in Nat /\ ingest.size \in Nat /\ ingest.end \in Nat /\ ingest \in IngestRecord
  BY <1>1, <1>7, <1>8 DEF UsageTypes, IngestRecord
<1>10. \A e \in removed : AllCounted(e)'
  BY <1>5, <1>6
<1>11. ASSUME NEW e \in Days, NEW o, offset'[e] = o, CountedTo(e, o)'
       PROVE  CountedTo(e, offset[e])'
  BY <1>11 DEF CountedTo
<1>12. CountedTo(d, off) => CountedTo(d, off)' /\ off <= Size(d)
  BY <1>3, <1>9 DEF CountedTo
<1>13. offset' = offset => OffsetTrue'
  <2> SUFFICES ASSUME offset' = offset, NEW e \in Days
               PROVE  CountedTo(e, offset[e])'
    BY DEF OffsetTrue
  <2>1. PICK o : o = offset[e]
    OBVIOUS
  <2>2. CountedTo(e, o)'
    BY <1>3, <1>6, <2>1
  <2> QED
    BY <1>11, <2>1, <2>2
<1>14. removed' = removed => RemovedCounted'
  BY <1>10 DEF RemovedCounted
<1>15. ASSUME removed' \subseteq removed \union ingest.old, ingest'.old \subseteq ingest.old
       PROVE  OldQuiet'
  BY <1>4, <1>6, <1>15 DEF OldQuiet
<1>16. /\ ingest.at \in {"open", "read", "save"} =>
           /\ CountedTo(d, off) /\ ingest.size <= Size(d) /\ (d \in ingest.old => ingest.size = Size(d))
       /\ ingest.at = "read" => ingest.end <= Size(d)
       /\ ingest.at \in {"age", "forget"} => d \in ingest.old /\ AllCounted(d)
  BY <1>1, <1>7, <1>8 DEF IngestTrue
<1>17. Size(d) \in Nat /\ Size(d)' \in Nat /\ Size(d) <= Size(d)' /\ (d \in ingest.old => Size(d)' = Size(d))
  <2>1. UsageTypes' => SizesBounded'
    BY Sizes, PTL
  <2> QED
    BY <1>2, <1>4, <1>6, <1>9, <2>1 DEF FilesGrow, SizesBounded
<1>18. ASSUME NewFile(ingest'), ingest'.at = "age" => d \in ingest.old /\ AllCounted(d)
       PROVE  IngestTrue'
  <2>1. ingest'.at \in {"idle", "stat"} \/ (ingest'.at = "age" /\ ingest'.day = d /\ d \in ingest'.old)
    BY <1>7, <1>18 DEF NewFile
  <2>2. CASE ingest'.at \in {"idle", "stat"}
    BY <2>2, IngestAfter
  <2>3. CASE ingest'.at = "age" /\ ingest'.day = d /\ d \in ingest'.old
    <3>1. AllCounted(d)'
      BY <1>5, <1>6, <1>18, <2>3
    <3> QED
      BY <2>3, <3>1, IngestAfter
  <2> QED
    BY <2>1, <2>2, <2>3
<1>19. NewFile(NoIngest) /\ NewFile(NextFile(ingest)) /\ NewFile(Aged(ingest)) /\ NextFile(ingest).at # "age"
       /\ NoIngest.at = "idle"
  BY <1>1, NewFiles DEF NoIngest, AtFile
<1>20. CASE ingest' = ingest /\ UNCHANGED <<removed, offset>>
  <2>1. OffsetTrue' /\ RemovedCounted' /\ OldQuiet'
    BY <1>13, <1>14, <1>15, <1>20
  <2>2. ingest.at \in {"open", "read", "save"} => 
          /\ CountedTo(d, off)' /\ ingest.size <= Size(d)' /\ (d \in ingest.old => ingest.size = Size(d)')
    BY <1>9, <1>12, <1>16, <1>17
  <2>3. ingest.at = "read" => ingest.end <= Size(d)'
    BY <1>9, <1>16, <1>17
  <2>4. ingest.at \in {"age", "forget"} => d \in ingest.old /\ AllCounted(d)'
    BY <1>5, <1>6, <1>16
  <2>5. IngestTrue'
    BY <1>7, <1>8, <1>20, <2>2, <2>3, <2>4, IngestAfter
  <2> QED
    BY <2>1, <2>5
<1>21. CASE IngestBegins
  <2>1. OffsetTrue' /\ RemovedCounted'
    BY <1>13, <1>14, <1>21 DEF IngestBegins
  <2>2. ingest'.at = "stat" /\ ingest'.old = {e \in Days : WeekOld(e)} /\ removed' = removed
    BY <1>21 DEF IngestBegins, AtFile
  <2>3. OldQuiet'
    BY <1>4, <1>6, <2>2 DEF OldQuiet
  <2>4. IngestTrue'
    BY <2>2, IngestAfter
  <2> QED
    BY <2>1, <2>3, <2>4
<1>22. CASE IngestStats
  <2>1. OffsetTrue' /\ RemovedCounted' /\ removed' = removed
    BY <1>13, <1>14, <1>22 DEF IngestStats
  <2>2. CASE d \in removed \/ file[d] = <<>>
    <3>1. ingest' = NextFile(ingest)
      BY <1>7, <1>22, <2>2 DEF IngestStats
    <3> QED
      BY <1>15, <1>18, <1>19, <2>1, <3>1 DEF NewFile
  <2>3. CASE ~(d \in removed \/ file[d] = <<>>) /\ ~(Size(d) > offset[d])
    <3>1. ingest' = Aged(ingest)
      BY <1>7, <1>22, <2>3 DEF IngestStats
    <3>2. AllCounted(d)
      BY <1>1, <1>6, <1>9, <2>3, FullyCounted
    <3>3. ingest'.at = "age" => d \in ingest.old
      BY <1>7, <1>19, <3>1 DEF NewFile
    <3> QED
      BY <1>15, <1>18, <1>19, <2>1, <3>1, <3>2, <3>3 DEF NewFile
  <2>4. CASE ~(d \in removed \/ file[d] = <<>>) /\ Size(d) > offset[d]
    <3>1. ingest' = [ingest EXCEPT !.at = "open", !.size = Size(d), !.off = offset[d]]
      BY <1>7, <1>22, <2>4 DEF IngestStats
    <3>2. PICK o, s : o = offset[d] /\ s = Size(d)
      OBVIOUS
    <3>3. /\ ingest'.at = "open" /\ ingest'.size = s /\ ingest'.off = o /\ ingest'.day = d /\ ingest'.old = ingest.old
      BY <1>7, <1>9, <3>1, <3>2 DEF IngestRecord
    <3>4. CountedTo(d, o)'
      BY <1>3, <1>6, <1>9, <3>2
    <3>5. s <= Size(d)' /\ (d \in ingest.old => s = Size(d)')
      BY <1>17, <3>2
    <3>6. IngestTrue'
      BY <3>3, <3>4, <3>5, IngestAfter
    <3> QED
      BY <1>15, <2>1, <3>3, <3>6
  <2> QED
    BY <2>2, <2>3, <2>4
<1>23. CASE IngestOpens
  <2>1. OffsetTrue' /\ RemovedCounted' /\ removed' = removed /\ ingest.at = "open"
    BY <1>13, <1>14, <1>23 DEF IngestOpens
  <2>2. PICK s : s = Size(d)
    OBVIOUS
  <2>3. /\ ingest'.at = "read" /\ ingest'.size = ingest.size /\ ingest'.off = off /\ ingest'.day = d
        /\ ingest'.old = ingest.old /\ ingest'.end = s
    BY <1>7, <1>8, <1>9, <1>23, <2>2 DEF IngestOpens, IngestRecord
  <2>4. CountedTo(d, off)' /\ ingest.size <= Size(d)' /\ (d \in ingest.old => ingest.size = Size(d)') /\ s <= Size(d)'
    BY <1>9, <1>12, <1>16, <1>17, <2>1, <2>2
  <2>5. IngestTrue'
    BY <2>3, <2>4, IngestAfter
  <2> QED
    BY <1>15, <2>1, <2>3, <2>5
<1>24. CASE IngestInserts
  <2> DEFINE to == ChunkEnd(d, off, ingest.end)
  <2>1. OffsetTrue' /\ RemovedCounted' /\ removed' = removed /\ ingest.at = "read"
    BY <1>13, <1>14, <1>24 DEF IngestInserts
  <2>2. CASE off < ingest.end /\ to > off
    <3>1. ReadLines(d, off, to) \subseteq Lines(d) /\ to \in Nat /\ to % 2 = 0 /\ to <= Size(d)
      BY <1>1, <1>7, <1>8, <2>1, ChunkLinesThere
    <3>2. rows' = Insert(d, ReadLines(d, off, to)) /\ ingest' = [ingest EXCEPT !.off = to] /\ UNCHANGED <<file, reused>>
      BY <1>7, <1>8, <1>24, <2>2 DEF IngestInserts, runtime
    <3>3. PICK o : o = to
      OBVIOUS
    <3>4. CountedTo(d, o)'
      BY <1>1, <1>9, <1>16, <2>1, <3>1, <3>2, <3>3, ChunkCounted
    <3>5. /\ ingest'.at = "read" /\ ingest'.size = ingest.size /\ ingest'.off = o /\ ingest'.day = d
          /\ ingest'.old = ingest.old /\ ingest'.end = ingest.end
      BY <1>7, <1>9, <2>1, <3>2, <3>3 DEF IngestRecord
    <3>6. ingest.size <= Size(d)' /\ (d \in ingest.old => ingest.size = Size(d)') /\ ingest.end <= Size(d)'
      BY <1>9, <1>16, <1>17, <2>1
    <3>7. IngestTrue'
      BY <3>4, <3>5, <3>6, IngestAfter
    <3> QED
      BY <1>15, <2>1, <3>5, <3>7
  <2>3. CASE ~(off < ingest.end /\ to > off)
    <3>1. ingest' = [ingest EXCEPT !.at = "save"]
      BY <1>7, <1>8, <1>24, <2>3 DEF IngestInserts
    <3>2. /\ ingest'.at = "save" /\ ingest'.size = ingest.size /\ ingest'.off = off /\ ingest'.day = d
          /\ ingest'.old = ingest.old
      BY <1>7, <1>8, <1>9, <3>1 DEF IngestRecord
    <3>3. CountedTo(d, off)' /\ ingest.size <= Size(d)' /\ (d \in ingest.old => ingest.size = Size(d)')
      BY <1>9, <1>12, <1>16, <1>17, <2>1
    <3>4. IngestTrue'
      BY <3>2, <3>3, IngestAfter
    <3> QED
      BY <1>15, <2>1, <3>2, <3>4
  <2> QED
    BY <2>2, <2>3
<1>25. CASE IngestSaves
  <2>1. RemovedCounted' /\ removed' = removed /\ ingest.at = "save" /\ offset' = [offset EXCEPT ![d] = off]
    BY <1>7, <1>8, <1>14, <1>25 DEF IngestSaves
  <2>2. OffsetTrue'
    <3> SUFFICES ASSUME NEW e \in Days
                 PROVE  CountedTo(e, offset[e])'
      BY DEF OffsetTrue
    <3>1. PICK o : o = IF e = d THEN off ELSE offset[e]
      OBVIOUS
    <3>2. offset'[e] = o
      BY <1>1, <2>1, <3>1 DEF UsageTypes
    <3>3. CountedTo(e, o)'
      <4>1. CASE e = d
        BY <4>1, <1>12, <1>16, <2>1, <3>1
      <4>2. CASE e # d
        BY <4>2, <1>3, <1>6, <3>1
      <4> QED
        BY <4>1, <4>2
    <3> QED
      BY <1>11, <3>2, <3>3
  <2>3. NewFile(ingest') /\ (ingest'.at = "age" => d \in ingest.old /\ FullyRead(ingest))
    <3>1. CASE FullyRead(ingest)
      BY <1>7, <1>19, <1>25, <3>1 DEF IngestSaves, NewFile
    <3>2. CASE ~FullyRead(ingest)
      BY <1>19, <1>25, <3>2 DEF IngestSaves
    <3> QED
      BY <3>1, <3>2
  <2>4. ingest'.at = "age" => AllCounted(d)
    BY <1>1, <1>8, <1>9, <1>16, <2>1, <2>3, FullyCounted DEF FullyRead
  <2>5. IngestTrue'
    BY <1>18, <2>3, <2>4
  <2>6. OldQuiet'
    BY <1>15, <2>1, <2>3 DEF NewFile
  <2> QED
    BY <2>1, <2>2, <2>5, <2>6
<1>26. CASE IngestRemoves
  <2>1. OffsetTrue' /\ removed' = removed \union {d} /\ ingest.at = "age"
    BY <1>7, <1>13, <1>26 DEF IngestRemoves
  <2>2. /\ ingest'.at = "forget" /\ ingest'.day = d /\ ingest'.old = ingest.old
    BY <1>7, <1>9, <1>26 DEF IngestRemoves, IngestRecord
  <2>3. d \in ingest.old /\ AllCounted(d)'
    BY <1>5, <1>6, <1>16, <2>1
  <2>4. RemovedCounted'
    BY <1>10, <2>1, <2>3 DEF RemovedCounted
  <2>5. IngestTrue'
    BY <2>2, <2>3, IngestAfter
  <2>6. OldQuiet'
    BY <1>15, <2>1, <2>2, <2>3
  <2> QED
    BY <2>1, <2>4, <2>5, <2>6
<1>27. CASE IngestForgets
  <2>1. RemovedCounted' /\ removed' = removed /\ offset' = [offset EXCEPT ![d] = 0] /\ ingest' = NextFile(ingest)
    BY <1>7, <1>14, <1>27 DEF IngestForgets
  <2>2. OffsetTrue'
    <3> SUFFICES ASSUME NEW e \in Days
                 PROVE  CountedTo(e, offset[e])'
      BY DEF OffsetTrue
    <3>1. CASE e = d
      <4>1. CountedTo(d, 0)
        <5>1. \A i \in Lines(d) : ~(2 * i <= 0)
          BY <1>1, <1>9, Sizes DEF SizesBounded, Lines
        <5> QED
          BY <1>6, <1>9, <5>1 DEF CountedTo
      <4>2. CountedTo(d, 0)'
        BY <1>3, <1>9, <4>1
      <4>3. offset'[e] = 0
        BY <1>1, <2>1, <3>1 DEF UsageTypes
      <4> QED
        BY <1>11, <3>1, <4>2, <4>3
    <3>2. CASE e # d
      <4>1. PICK o : o = offset[e]
        OBVIOUS
      <4>2. offset'[e] = o
        BY <1>1, <2>1, <3>2, <4>1 DEF UsageTypes
      <4>3. CountedTo(e, o)'
        BY <1>3, <1>6, <4>1
      <4> QED
        BY <1>11, <4>2, <4>3
    <3> QED
      BY <3>1, <3>2
  <2>3. IngestTrue' /\ OldQuiet'
    BY <1>15, <1>18, <1>19, <2>1 DEF NewFile
  <2> QED
    BY <2>1, <2>2, <2>3
<1>28. CASE IngestFails
  <2>1. OffsetTrue' /\ RemovedCounted' /\ removed' = removed /\ ingest' = NoIngest
    BY <1>13, <1>14, <1>28 DEF IngestFails
  <2>2. IngestTrue' /\ OldQuiet'
    BY <1>15, <1>18, <1>19, <2>1 DEF NewFile
  <2> QED
    BY <2>1, <2>2
<1> QED
  BY <1>20, <1>21, <1>22, <1>23, <1>24, <1>25, <1>26, <1>27, <1>28, UsageSides DEF gateway, IngestSteps

LEMMA UsageInductive == UsageInv /\ [UsageNext]_usageVars => UsageInv'
<1> SUFFICES ASSUME UsageInv, [UsageNext]_usageVars
             PROVE  UsageInv'
  OBVIOUS
<1>1. /\ UsageTypes /\ TurnsGoOn /\ OnlyLastTorn /\ HalfIsTorn /\ NumbersKnown /\ KeysUnique /\ IngestTrue
  BY DEF UsageInv
<1>2. UsageTypes'
  BY <1>1, TypesKept
<1>3. TurnsGoOn' /\ OnlyLastTorn' /\ HalfIsTorn'
  BY <1>1, <1>2, TurnsStep, FilesStep, HalfStep
<1>4. NumbersKnown' /\ KeysUnique'
  BY <1>1, <1>2, RecordsStep
<1>5. OffsetTrue' /\ RemovedCounted' /\ IngestTrue' /\ OldQuiet'
  BY <1>2, CountingStep
<1> QED
  BY <1>2, <1>3, <1>4, <1>5 DEF UsageInv

\* The invariant holds of every state, for all values of the bounds.
LEMMA UsageInvHolds == UsageSpec => []UsageInv
<1>1. UsageInit => UsageInv
  <2> SUFFICES ASSUME UsageInit
               PROVE  UsageInv
    OBVIOUS
  <2>1. UsageTypes
    BY UsageInitTypes
  <2>2. /\ turn = NoTurn(0) /\ logged = 0 /\ queue.todo = <<>> /\ ~queue.half /\ rows = {} /\ removed = {}
        /\ \A d \in Days : file[d] = <<>> /\ offset[d] = 0
        /\ ingest = NoIngest
    BY DEF UsageInit
  <2>3. TurnsGoOn /\ HalfIsTorn
    BY <2>2 DEF TurnsGoOn, HalfIsTorn, NoTurn
  <2>4. \A d \in Days : DOMAIN file[d] = {} /\ Size(d) \in Nat
    BY <2>1, <2>2, Sizes DEF SizesBounded
  <2>5. Recorded = {}
    BY <2>2, <2>4 DEF Recorded, InFiles, Queued
  <2>6. OnlyLastTorn /\ NumbersKnown /\ KeysUnique
    BY <2>4, <2>5 DEF OnlyLastTorn, NumbersKnown, KeysUnique
  <2>7. RemovedCounted /\ IngestTrue /\ OldQuiet
    BY <2>2 DEF RemovedCounted, IngestTrue, OldQuiet, NoIngest, AtFile
  <2>8. OffsetTrue
    BY <2>2, <2>4 DEF OffsetTrue, CountedTo, Lines
  <2> QED
    BY <2>1, <2>3, <2>6, <2>7, <2>8 DEF UsageInv
<1> QED
  BY <1>1, UsageInductive, PTL DEF UsageSpec

\* Types, for any number of days, turns, records, kills and failures.
THEOREM UsageTypeCorrect == UsageSpec => []UsageTypes
BY UsageInvHolds, PTL DEF UsageInv

\* `insert ignore` drops no record of its own: two that were recorded differ in their turn or step,
\* unless the number of the turn was given again after a kill.
THEOREM RecordsDiffer == UsageSpec => []KeysUnique
BY UsageInvHolds, PTL DEF UsageInv

\* What the gateway will not read again is counted: usage.ts never saves an offset beyond a readable
\* record without a row and never removes a file with one, whoever dies in between.
THEOREM ReadRecordsAreCounted == UsageSpec => []ReadIsCounted
<1>1. UsageInv => ReadIsCounted
  <2> SUFFICES ASSUME UsageInv, NEW d \in Days, NEW i \in Lines(d), d \in removed \/ 2 * i <= offset[d],
                      NEW r \in file[d][i].has
               PROVE  Counted(r)
    BY DEF ReadIsCounted
  <2> QED
    BY DEF UsageInv, OffsetTrue, RemovedCounted, CountedTo, AllCounted
<1> QED
  BY <1>1, UsageInvHolds, PTL
================================================================================
