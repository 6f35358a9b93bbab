--------------------------- MODULE CanvasHistory ----------------------------
(***************************************************************************)
(* The versions a canvas panel keeps in a folder's `.canvas/`              *)
(* (gateway/src/runtime/canvas-history.ts and its routes in index.ts):     *)
(* snapshots of workspace files, the user's edits, and the index that      *)
(* names them.                                                             *)
(*                                                                         *)
(* A snapshot or an edit is written outside the lock of the index, through *)
(* a partial file whose name all who write that file share; clearing the   *)
(* history takes no lock either, and goes file by file.  The copies in S3  *)
(* are WorkspaceArchive's.  A file is known by the request that wrote it.  *)
(***************************************************************************)
EXTENDS Naturals, FiniteSets, FiniteSetsExt, TLC

CONSTANTS
  Ids,         \* the canvases
  Snaps,       \* names of snapshots: a workspace file in one state
  Edits,       \* names of the files of edits
  Requests,
  MaxVersion,  \* the versions a user saves are 1 .. MaxVersion (bound)
  MaxEntries,  \* config.storage.canvasHistoryMax
  MaxFaults    \* calls that throw, or the gateway's death in them (bound)

ASSUME CanvasAssumption == MaxVersion \in Nat /\ MaxEntries \in Nat \ {0} /\ MaxFaults \in Nat

VARIABLES
  disk,      \* whose bytes stand under each name, or Nobody
  partial,   \* the same of its partial file
  written,   \* the requests that have written all their bytes
  old,       \* files older than ORPHAN_AGE_MS
  index,     \* index.json: the entries of each canvas
  req,       \* the requests
  faults,
  exposed    \* history: files whose entries a known race may have left wrong

vars == <<disk, partial, written, old, index, req, faults, exposed>>

Nobody == "nobody"
IndexFile == "index"
ASSUME NamesAssumption == Nobody \notin Requests /\ IndexFile \notin Snaps \union Edits
Files == Snaps \union Edits
Empty == [i \in Ids |-> {}]
Idle == [at |-> "idle", kind |-> "none", id |-> "none", path |-> "none", version |-> 0,
         idx |-> Empty, drop |-> {}, gone |-> {}, cut |-> FALSE]
Over == [Idle EXCEPT !.at = "done"]

Init ==
  /\ disk = [f \in Files |-> Nobody] /\ partial = [f \in Files |-> Nobody]
  /\ written = {} /\ old = {} /\ index = Empty
  /\ req = [r \in Requests |-> Idle] /\ faults = 0 /\ exposed = {}

OnDisk == {f \in Files : disk[f] # Nobody}
Whole == {f \in OnDisk : disk[f] \in written}
Named(idx) == {e.path : e \in UNION {idx[i] : i \in Ids}}
Locked == {r \in Requests : req[r].at \in {"deleting", "removing", "changed", "bounded", "written", "dropping"}}
\* A request that has seen its file and not yet written the entry for it.
AskedFor(f) == \E r \in Requests : /\ req[r].path = f /\ req[r].kind \in {"existing", "new", "edit"}
                                   /\ req[r].at \in {"queued", "changed", "bounded"}

To(r, at) == req' = [req EXCEPT ![r].at = at]

-----------------------------------------------------------------------------
(* snapshotFile() and saveUpload(): writing a file.                         *)

\* The quota may refuse what has to be copied.
Asks(r, i, f) ==
  /\ req[r].at = "idle"
  /\ \/ req' = [req EXCEPT ![r] = [Idle EXCEPT !.at = IF disk[f] # Nobody THEN "queued" ELSE "fresh",
                                               !.kind = IF disk[f] # Nobody THEN "existing" ELSE "new",
                                               !.id = i, !.path = f]]
     \/ disk[f] = Nobody /\ req' = [req EXCEPT ![r] = Over]
  /\ UNCHANGED <<disk, partial, written, old, index, faults, exposed>>

\* A user's edit: freeName() takes a name that is free now.  Nothing keeps it free.
Saves(r, i, v) ==
  /\ req[r].at = "idle"
  /\ \E f \in Edits : /\ disk[f] = Nobody
                     /\ req' = [req EXCEPT ![r] = [Idle EXCEPT !.at = "fresh", !.kind = "edit", !.id = i,
                                                               !.path = f, !.version = v]]
  /\ UNCHANGED <<disk, partial, written, old, index, faults, exposed>>

\* What an earlier request left under the partial name is removed, never written through.
ClearsPartial(r) ==
  /\ req[r].at = "fresh"
  /\ partial' = [partial EXCEPT ![req[r].path] = Nobody]
  /\ To(r, "clean")
  /\ UNCHANGED <<disk, written, old, index, faults, exposed>>

\* O_EXCL: of two that come here together one is refused; an edit that is removes the partial file.
Creates(r) ==
  LET f == req[r].path IN
  /\ req[r].at = "clean"
  /\ IF partial[f] = Nobody
     THEN partial' = [partial EXCEPT ![f] = r] /\ To(r, "writing")
     ELSE /\ IF req[r].kind = "edit" THEN To(r, "cleanup") ELSE req' = [req EXCEPT ![r] = Over]
          /\ UNCHANGED partial
  /\ UNCHANGED <<disk, written, old, index, faults, exposed>>

\* The bytes go to the file that was opened, whatever its name is by now.
Streams(r) ==
  /\ req[r].at = "writing"
  /\ written' = written \union {r}
  /\ To(r, "copied")
  /\ UNCHANGED <<disk, partial, old, index, faults, exposed>>

\* The rename takes what stands under the partial name: perhaps another request's unfinished copy.
Renames(r) ==
  LET f == req[r].path IN
  /\ req[r].at = "copied"
  /\ IF partial[f] # Nobody
     THEN /\ disk' = [disk EXCEPT ![f] = partial[f]]
          /\ old' = old \ {f}
          /\ partial' = [partial EXCEPT ![f] = Nobody]
          /\ exposed' = IF partial[f] \in written THEN exposed \ {f} ELSE exposed \union {f}
          /\ To(r, "queued")
     ELSE To(r, "cleanup") /\ UNCHANGED <<disk, old, partial, exposed>>
  /\ UNCHANGED <<written, index, faults>>

CopyFails(r) ==
  /\ req[r].at \in {"writing", "copied"} /\ faults < MaxFaults
  /\ faults' = faults + 1
  /\ To(r, "cleanup")
  /\ UNCHANGED <<disk, partial, written, old, index, exposed>>

CleansUp(r) ==
  /\ req[r].at = "cleanup"
  /\ partial' = [partial EXCEPT ![req[r].path] = Nobody]
  /\ req' = [req EXCEPT ![r] = Over]
  /\ UNCHANGED <<disk, written, old, index, faults, exposed>>

-----------------------------------------------------------------------------
(* The other routes, up to the lock.                                        *)

\* deleteHistoryFile() and deleteCanvas().
AsksToDelete(r) ==
  /\ req[r].at = "idle"
  /\ \/ \E f \in Files : req' = [req EXCEPT ![r] = [Idle EXCEPT !.at = "queued", !.kind = "delete", !.path = f]]
     \/ \E i \in Ids : req' = [req EXCEPT ![r] = [Idle EXCEPT !.at = "queued", !.kind = "canvas", !.id = i]]
  /\ UNCHANGED <<disk, partial, written, old, index, faults, exposed>>

\* clearHistory(), without the lock: every file of `.canvas/` there is now, the index too unless it
\* was never written.  filesOf() leaves the partial files out.
Clears(r) ==
  /\ req[r].at = "idle"
  /\ \E idx \in IF index = Empty THEN {{}, {IndexFile}} ELSE {{IndexFile}} :
       req' = [req EXCEPT ![r] = IF OnDisk \union idx = {} THEN Over
                                 ELSE [Idle EXCEPT !.at = "clearing", !.drop = OnDisk \union idx]]
  /\ UNCHANGED <<disk, partial, written, old, index, faults, exposed>>

-----------------------------------------------------------------------------
(* withIndex(): one read-change-write of a folder's index at a time.         *)

\* Mutant: updates do not wait for each other.
MayEnterAlways == TRUE

\* The chain of promises of the folder (here in any order).
MayEnter == Locked = {}

NextVersion(entries) == Max({0} \union {e.version : e \in entries}) + 1

\* What the request changes in the index it has read.
Change(q, idx) ==
  LET own == IF q.id \in Ids THEN idx[q.id] ELSE {}
      added == [idx EXCEPT ![q.id] = @ \union {[version |-> NextVersion(own), path |-> q.path]}]
  IN CASE q.kind = "new" -> added
       [] q.kind = "existing" -> IF \E e \in own : e.path = q.path THEN idx ELSE added
       [] q.kind = "edit" -> [idx EXCEPT ![q.id] = {e \in @ : e.version # q.version}
                                                     \union {[version |-> q.version, path |-> q.path]}]
       [] q.kind = "delete" -> [i \in Ids |-> {e \in idx[i] : e.path # q.path}]
       [] q.kind = "canvas" -> [idx EXCEPT ![q.id] = {}]

\* A read that fails is taken for a folder without an index (readIndex, line 43).
Reads(r) ==
  LET q == req[r]
      ToDelete(idx) == IF q.kind = "delete" THEN {q.path}
                       ELSE IF q.kind = "canvas" THEN {e.path : e \in idx[q.id]} ELSE {}
      Read(idx, fails) ==
        req' = [req EXCEPT ![r] = [q EXCEPT !.at = IF q.kind \in {"delete", "canvas"} THEN "deleting" ELSE "changed",
                                            !.idx = Change(q, idx), !.drop = ToDelete(idx), !.cut = fails]]
  IN
  /\ q.at = "queued" /\ MayEnter
  /\ \/ Read(index, FALSE) /\ UNCHANGED faults
     \/ Read(Empty, TRUE) /\ faults < MaxFaults /\ faults' = faults + 1
  /\ UNCHANGED <<disk, partial, written, old, index, exposed>>

\* deleteFiles() of a request that holds the lock: it lists the folder, and goes on at once if none
\* of its files is there, or the listing fails (filesOf).  deleteHistoryFile() and deleteCanvas()
\* do so before the index is written; the latter does not ask whether another canvas names the
\* same snapshot.
Lists(r, fails) ==
  LET q == req[r]
      found == IF fails THEN {} ELSE q.drop \intersect OnDisk
      on == IF found # {} THEN [q EXCEPT !.at = IF q.at = "deleting" THEN "removing" ELSE "dropping", !.drop = found]
            ELSE IF q.at = "deleting" THEN [q EXCEPT !.at = "changed", !.drop = {}]
            ELSE Over
  IN
  /\ q.at \in {"deleting", "written"}
  /\ fails => faults < MaxFaults
  /\ faults' = IF fails THEN faults + 1 ELSE faults
  /\ req' = [req EXCEPT ![r] = on]
  /\ UNCHANGED <<disk, partial, written, old, index, exposed>>

\* Entries for f may be written, or stay, although it goes: it was asked for, another canvas names
\* it, or the history is cleared beside an update or after its index.
LeavesEntry(q, f) ==
  \/ AskedFor(f)
  \/ q.at = "removing" /\ f \in Named(q.idx)
  \/ q.at = "clearing" /\ f \in UNION {Named(req[p].idx) : p \in Locked}
  \/ q.at = "clearing" /\ f \in Named(index) /\ IndexFile \notin q.drop

\* One file after the other, in the order of the directory.
Removes(r, f) ==
  LET q == req[r]
      left == q.drop \ {f}
      gone == IF q.at = "removing" \/ (q.at = "clearing" /\ IndexFile \in q.drop) THEN q.gone \union {f} ELSE q.gone
      on == IF left # {} THEN [q EXCEPT !.drop = left, !.gone = gone]
            ELSE IF q.at = "removing" THEN [q EXCEPT !.at = "changed", !.drop = {}, !.gone = gone]
            ELSE Over
  IN
  /\ q.at \in {"clearing", "removing", "dropping"} /\ f \in q.drop /\ f # IndexFile
  /\ disk' = [disk EXCEPT ![f] = Nobody]
  /\ old' = old \ {f}
  /\ exposed' = IF LeavesEntry(q, f) THEN exposed \union {f} ELSE exposed
  /\ req' = [req EXCEPT ![r] = on]
  /\ UNCHANGED <<partial, written, index, faults>>

\* A clearing comes to the index: an update under way will write what it has read.
RemovesIndex(r) ==
  LET q == req[r]
      left == q.drop \ {IndexFile}
  IN
  /\ q.at = "clearing" /\ IndexFile \in q.drop
  /\ index' = Empty
  /\ exposed' = exposed \union (q.gone \intersect UNION {Named(req[p].idx) : p \in Locked})
  /\ req' = [p \in Requests |-> IF p = r THEN IF left = {} THEN Over ELSE [q EXCEPT !.drop = left, !.gone = {}]
                                 ELSE IF p \in Locked THEN [req[p] EXCEPT !.cut = TRUE] ELSE req[p]]
  /\ UNCHANGED <<disk, partial, written, old, faults>>

\* At most MaxEntries of a canvas stay, the newest.
Kept(entries) == {e \in entries : Cardinality({x \in entries : x.version > e.version}) < MaxEntries}

\* Mutant: what is pruned from one canvas goes although another names it.
StillNamedIgnored(idx) == {}

\* for (const path of named) drop.delete(path)
StillNamed(idx) == Named(idx)

Bounds(r) ==
  LET q == req[r]
      kept == [i \in Ids |-> Kept(q.idx[i])]
      gone == UNION {{e.path : e \in q.idx[i] \ kept[i]} : i \in Ids}
      orphans == (OnDisk \intersect old) \ Named(kept)
  IN
  /\ q.at = "changed"
  /\ req' = [req EXCEPT ![r].at = "bounded", ![r].idx = kept,
                        ![r].drop = (gone \union orphans) \ StillNamed(kept)]
  /\ UNCHANGED <<disk, partial, written, old, index, faults, exposed>>

\* writeFileInside(): the whole index at once, before the files it no longer names go.
Writes(r) ==
  /\ req[r].at = "bounded"
  /\ index' = req[r].idx
  /\ req' = [req EXCEPT ![r].at = "written", ![r].gone = {}]
  /\ UNCHANGED <<disk, partial, written, old, faults, exposed>>

\* Any await of an update, or of a clearing, throws: S3 or Redis may after every file.
UpdateFails(r) ==
  /\ r \in Locked \/ req[r].at = "clearing"
  /\ faults < MaxFaults
  /\ faults' = faults + 1
  /\ exposed' = exposed \union req[r].gone
  /\ req' = [req EXCEPT ![r] = Over]
  /\ UNCHANGED <<disk, partial, written, old, index>>

\* Ten minutes pass; no request takes that long.
Ages(f) ==
  /\ f \in OnDisk \ old
  /\ \A r \in Requests : req[r].path = f => req[r].at \in {"idle", "done"}
  /\ old' = old \union {f}
  /\ UNCHANGED <<disk, partial, written, index, req, faults, exposed>>

-----------------------------------------------------------------------------
Next ==
  \/ \E r \in Requests :
       \/ \E i \in Ids : \/ \E f \in Snaps : Asks(r, i, f)
                         \/ \E v \in 1 .. MaxVersion : Saves(r, i, v)
       \/ ClearsPartial(r) \/ Creates(r) \/ Streams(r) \/ Renames(r) \/ CopyFails(r) \/ CleansUp(r)
       \/ AsksToDelete(r) \/ Clears(r)
       \/ Reads(r) \/ Bounds(r) \/ Writes(r) \/ UpdateFails(r) \/ RemovesIndex(r)
       \/ \E fails \in BOOLEAN : Lists(r, fails)
       \/ \E f \in Files : Removes(r, f)
  \/ \E f \in Files : Ages(f)

Spec == Init /\ [][Next]_vars

Symmetry == Permutations(Requests) \union Permutations(Edits) \union Permutations(Ids)

-----------------------------------------------------------------------------
(* Properties.                                                              *)

\* What the index names is there, all of it ("the one source of truth", line 7), also while a file is
\* pruned from one canvas that another still shows.  It can be wrong only of a file that somebody
\* is removing whose entry is still to go, or stayed because that failed before it came to the
\* index; that was removed although its entry was about to be written (a snapshot that had
\* found it, an edit not recorded yet, an update beside a clearing); that deleteCanvas() took from
\* another canvas; or that was renamed into place while its writer still wrote.
NamedIsThere ==
  \A f \in Named(index) : f \in Whole \union exposed \union UNION {req[r].gone : r \in Requests}

\* No update is lost: each changes the index as it is when it is written (line 86), unless its read
\* failed or the history was cleared since.
NoUpdateLost ==
  [][\A r \in Requests :
       (req[r].at = "bounded" /\ req'[r].at = "written" /\ ~req[r].cut)
       => LET now == Change(req[r], index) IN index' = [i \in Ids |-> Kept(now[i])]]_vars
=============================================================================
