------------------------ MODULE CanvasHistory_proofs --------------------------
(***************************************************************************)
(* Theorems about a folder's index, its updates and the files it names,    *)
(* for any number of canvases, snapshots and requests.                     *)
(***************************************************************************)
EXTENDS CanvasHistory, TLAPS

\* A request's record has these fields and no other.
Names == {"at", "kind", "id", "path", "version", "idx", "drop", "gone", "cut"}
Fields(q) == DOMAIN q = Names /\ q = [x \in Names |-> q[x]]

\* The stages of an update, and those before its write.
Before == {"deleting", "removing", "changed", "bounded"}
Stages == Before \union {"written", "dropping"}

\* What a request that has read the index is going to write.
Intended(q, idx) ==
  IF q.at = "bounded" THEN LET now == Change(q, idx) IN [i \in Ids |-> Kept(now[i])]
  ELSE Change(q, idx)

UpToDate(q, idx) == q.at \in Before /\ ~q.cut => q.idx = Intended(q, idx)

\* The inductive invariant: one request at a time is between its read and its
\* write, and what it holds is its change of the index as it is.
IndexInv ==
  /\ req = [r \in Requests |-> req[r]]
  /\ \A r \in Requests : Fields(req[r]) /\ UpToDate(req[r], index)
  /\ \A r, q \in Locked : r = q

LEMMA LockedStages == Locked = {r \in Requests : req[r].at \in Stages}
BY DEF Locked, Stages, Before

\* What a request asks for depends on these fields alone.
LEMMA SameChange ==
  ASSUME NEW p, NEW q, NEW idx,
         p.kind = q.kind, p.id = q.id, p.path = q.path, p.version = q.version
  PROVE  Change(p, idx) = Change(q, idx)
BY DEF Change

LEMMA IdleFields ==
  Fields(Idle) /\ Fields(Over) /\ Idle.at \notin Stages /\ Over.at \notin Stages
<1>1. Fields(Idle) /\ Idle.at = "idle"
  BY DEF Idle, Fields, Names
<1>2. Fields(Over) /\ Over.at = "done"
  BY DEF Over, Idle, Fields, Names
<1>. QED
  BY <1>1, <1>2 DEF Stages, Before

LEMMA InitInv == Init => IndexInv
<1>. SUFFICES ASSUME Init
              PROVE  IndexInv
  OBVIOUS
<1>1. req = [r \in Requests |-> Idle]
  BY DEF Init
<1>2. \A r \in Requests : Fields(req[r]) /\ UpToDate(req[r], index)
  BY <1>1, IdleFields DEF UpToDate, Stages
<1>3. Locked = {}
  BY <1>1, IdleFields, LockedStages
<1>. QED
  BY <1>1, <1>2, <1>3 DEF IndexInv

\* One request goes on: into the section between read and write only when it
\* is free or its own.
LEMMA OneGoesOn ==
  ASSUME IndexInv, NEW r \in Requests, NEW v,
         req' = [req EXCEPT ![r] = v], Fields(v), index' = index,
         UpToDate(v, index),
         v.at \in Stages => r \in Locked \/ Locked = {}
  PROVE  IndexInv'
<1>1. /\ req'[r] = v
      /\ \A q \in Requests \ {r} : req'[q] = req[q]
      /\ req' = [q \in Requests |-> req'[q]]
  BY DEF IndexInv
<1>2. \A q \in Requests : Fields(req'[q]) /\ UpToDate(req'[q], index')
  BY <1>1 DEF IndexInv
<1>3. \A p, q \in Locked' : p = q
  <2>1. Locked' \subseteq Locked \union {r}
    BY <1>1, LockedStages DEF Locked
  <2>2. r \in Locked' => r \in Locked \/ Locked = {}
    BY <1>1 DEF Locked, Stages, Before
  <2>. QED
    BY <2>1, <2>2 DEF IndexInv
<1>. QED
  BY <1>1, <1>2, <1>3 DEF IndexInv

\* A stage outside the section, with nothing else changed.
LEMMA StaysOut ==
  ASSUME IndexInv, NEW r \in Requests, NEW at, at \notin Stages, To(r, at), index' = index
  PROVE  IndexInv'
<1> DEFINE v == [req[r] EXCEPT !.at = at]
<1>0. Fields(req[r])
  BY DEF IndexInv
<1>1. Fields(v) /\ v.at = at /\ req' = [req EXCEPT ![r] = v]
  BY <1>0 DEF Fields, Names, To
<1>2. UpToDate(v, index)
  BY <1>1 DEF UpToDate, Stages
<1>. HIDE DEF v
<1>. QED
  BY <1>1, <1>2, OneGoesOn

\* A request begins, or is over.
LEMMA Renewed ==
  ASSUME IndexInv, NEW r \in Requests, NEW v, Fields(v), v.at \notin Stages,
         req' = [req EXCEPT ![r] = v], index' = index
  PROVE  IndexInv'
BY OneGoesOn DEF UpToDate, Stages

LEMMA AsksInv ==
  ASSUME IndexInv, NEW r \in Requests, NEW i, NEW f, Asks(r, i, f)
  PROVE  IndexInv'
<1>1. CASE req' = [req EXCEPT ![r] = Over]
  BY <1>1, IdleFields, Renewed DEF Asks
<1>2. CASE req' # [req EXCEPT ![r] = Over]
  <2>1. PICK at \in {"queued", "fresh"}, kind \in {"existing", "new"} :
          req' = [req EXCEPT ![r] = [Idle EXCEPT !.at = at, !.kind = kind, !.id = i, !.path = f]]
    <3>1. CASE disk[f] # Nobody
      BY <1>2, <3>1 DEF Asks
    <3>2. CASE disk[f] = Nobody
      BY <1>2, <3>2 DEF Asks
    <3>. QED
      BY <3>1, <3>2
  <2> DEFINE v == [Idle EXCEPT !.at = at, !.kind = kind, !.id = i, !.path = f]
  <2>2. Fields(v) /\ v.at \notin Stages
    BY <2>1, IdleFields DEF Fields, Names, Stages, Before
  <2>3. req' = [req EXCEPT ![r] = v] /\ index' = index
    BY <2>1 DEF Asks
  <2>. HIDE DEF v
  <2>. QED
    BY <2>2, <2>3, Renewed
<1>. QED
  BY <1>1, <1>2

LEMMA SavesInv ==
  ASSUME IndexInv, NEW r \in Requests, NEW i, NEW n, Saves(r, i, n)
  PROVE  IndexInv'
<1>1. PICK f \in Edits : req' = [req EXCEPT ![r] = [Idle EXCEPT !.at = "fresh", !.kind = "edit", !.id = i,
                                                               !.path = f, !.version = n]]
  BY DEF Saves
<1> DEFINE v == [Idle EXCEPT !.at = "fresh", !.kind = "edit", !.id = i, !.path = f, !.version = n]
<1>2. Fields(v) /\ v.at \notin Stages
  BY IdleFields DEF Fields, Names, Stages, Before
<1>3. req' = [req EXCEPT ![r] = v] /\ index' = index
  BY <1>1 DEF Saves
<1>. HIDE DEF v
<1>. QED
  BY <1>2, <1>3, Renewed

LEMMA AsksToDeleteInv ==
  ASSUME IndexInv, NEW r \in Requests, AsksToDelete(r)
  PROVE  IndexInv'
<1>1. ASSUME NEW f \in Files,
             req' = [req EXCEPT ![r] = [Idle EXCEPT !.at = "queued", !.kind = "delete", !.path = f]]
      PROVE  IndexInv'
  <2> DEFINE v == [Idle EXCEPT !.at = "queued", !.kind = "delete", !.path = f]
  <2>2. Fields(v) /\ v.at \notin Stages
    BY IdleFields DEF Fields, Names, Stages, Before
  <2>3. req' = [req EXCEPT ![r] = v] /\ index' = index
    BY <1>1 DEF AsksToDelete
  <2>. HIDE DEF v
  <2>. QED
    BY <2>2, <2>3, Renewed
<1>2. ASSUME NEW i \in Ids,
             req' = [req EXCEPT ![r] = [Idle EXCEPT !.at = "queued", !.kind = "canvas", !.id = i]]
      PROVE  IndexInv'
  <2> DEFINE v == [Idle EXCEPT !.at = "queued", !.kind = "canvas", !.id = i]
  <2>2. Fields(v) /\ v.at \notin Stages
    BY IdleFields DEF Fields, Names, Stages, Before
  <2>3. req' = [req EXCEPT ![r] = v] /\ index' = index
    BY <1>2 DEF AsksToDelete
  <2>. HIDE DEF v
  <2>. QED
    BY <2>2, <2>3, Renewed
<1>. QED
  BY <1>1, <1>2 DEF AsksToDelete

LEMMA ClearsInv ==
  ASSUME IndexInv, NEW r \in Requests, Clears(r)
  PROVE  IndexInv'
<1>1. PICK idx : req' = [req EXCEPT ![r] = IF OnDisk \union idx = {} THEN Over
                                           ELSE [Idle EXCEPT !.at = "clearing", !.drop = OnDisk \union idx]]
  BY DEF Clears
<1> DEFINE v == [Idle EXCEPT !.at = "clearing", !.drop = OnDisk \union idx]
<1>2. Fields(v) /\ v.at \notin Stages
  BY IdleFields DEF Fields, Names, Stages, Before
<1>3. (req' = [req EXCEPT ![r] = v] \/ req' = [req EXCEPT ![r] = Over]) /\ index' = index
  BY <1>1 DEF Clears
<1>. HIDE DEF v
<1>. QED
  BY <1>2, <1>3, IdleFields, Renewed

\* A clearing that comes to the index changes it under the request in the section, which is cut.
LEMMA RemovesIndexInv ==
  ASSUME IndexInv, NEW r \in Requests, RemovesIndex(r)
  PROVE  IndexInv'
<1>. DEFINE left == req[r].drop \ {IndexFile}
            mine == IF left = {} THEN Over ELSE [req[r] EXCEPT !.drop = left, !.gone = {}]
<1>1. /\ req[r].at = "clearing"
      /\ req' = [q \in Requests |-> IF q = r THEN mine
                                    ELSE IF q \in Locked THEN [req[q] EXCEPT !.cut = TRUE] ELSE req[q]]
  BY DEF RemovesIndex
<1>2. Fields(mine) /\ mine.at \notin Stages
  <2>1. Fields(req[r])
    BY DEF IndexInv
  <2>. HIDE DEF left
  <2>2. Fields([req[r] EXCEPT !.drop = left, !.gone = {}])
        /\ [req[r] EXCEPT !.drop = left, !.gone = {}].at = req[r].at
    BY <2>1 DEF Fields, Names
  <2>. QED
    BY <1>1, <2>2, IdleFields DEF Stages, Before
<1>. HIDE DEF mine
<1>3. ASSUME NEW q \in Requests
      PROVE  Fields(req'[q]) /\ UpToDate(req'[q], index')
  <2>1. CASE q = r
    BY <1>1, <1>2, <2>1 DEF UpToDate, Stages, Before
  <2>2. CASE q # r /\ q \in Locked
    <3>1. Fields(req[q]) /\ req'[q] = [req[q] EXCEPT !.cut = TRUE]
      BY <1>1, <2>2 DEF IndexInv
    <3>2. Fields(req'[q]) /\ req'[q].cut = TRUE
      BY <3>1 DEF Fields, Names
    <3>. QED
      BY <3>2 DEF UpToDate
  <2>3. CASE q # r /\ q \notin Locked
    BY <1>1, <2>3, LockedStages DEF IndexInv, UpToDate, Stages, Before
  <2>. QED
    BY <2>1, <2>2, <2>3
<1>4. Locked' \subseteq Locked
  <2>. SUFFICES ASSUME NEW q \in Requests, req'[q].at \in Stages
                PROVE  q \in Locked
    BY LockedStages DEF Locked, Stages, Before
  <2>1. q # r
    BY <1>1, <1>2
  <2>. QED
    BY <1>1, <2>1, LockedStages
<1>. QED
  BY <1>1, <1>3, <1>4 DEF IndexInv

\* The read: nobody else is in the section.
LEMMA ReadsInv ==
  ASSUME IndexInv, NEW r \in Requests, Reads(r)
  PROVE  IndexInv'
<1> DEFINE Read(at, idx, drop, fails) ==
      req' = [req EXCEPT ![r] = [req[r] EXCEPT !.at = at, !.idx = Change(req[r], idx),
                                               !.drop = drop, !.cut = fails]]
<1>1. PICK at, idx, drop, fails :
        /\ at \in {"deleting", "changed"} /\ fails \in BOOLEAN
        /\ Read(at, idx, drop, fails)
        /\ ~fails => idx = index
  <2> DEFINE stage == IF req[r].kind \in {"delete", "canvas"} THEN "deleting" ELSE "changed"
             drops(idx) == IF req[r].kind = "delete" THEN {req[r].path}
                           ELSE IF req[r].kind = "canvas" THEN {e.path : e \in idx[req[r].id]}
                           ELSE {}
  <2>1. Read(stage, index, drops(index), FALSE) \/ Read(stage, Empty, drops(Empty), TRUE)
    BY DEF Reads
  <2>2. stage \in {"deleting", "changed"}
    OBVIOUS
  <2>3. /\ FALSE \in BOOLEAN /\ (~FALSE => index = index)
        /\ TRUE \in BOOLEAN /\ (~TRUE => Empty = index)
    OBVIOUS
  <2>. HIDE DEF Read, stage, drops
  <2>. QED
    BY <2>1, <2>2, <2>3, Zenon
<1> DEFINE v == [req[r] EXCEPT !.at = at, !.idx = Change(req[r], idx), !.drop = drop, !.cut = fails]
<1>0. Fields(req[r])
  BY DEF IndexInv
<1>2. Fields(v)
  BY <1>0 DEF Fields, Names
<1>3. UpToDate(v, index)
  <2>1. /\ v.kind = req[r].kind /\ v.id = req[r].id /\ v.path = req[r].path
        /\ v.version = req[r].version /\ v.at = at /\ v.cut = fails /\ v.idx = Change(req[r], idx)
    BY <1>0 DEF Fields, Names
  <2>. HIDE DEF v
  <2>2. Change(v, index) = Change(req[r], index)
    BY <2>1, SameChange
  <2>. QED
    BY <1>1, <2>1, <2>2 DEF UpToDate, Intended
<1>4. req' = [req EXCEPT ![r] = v] /\ index' = index /\ Locked = {}
  BY <1>1 DEF Reads, MayEnter
<1>. HIDE DEF v
<1>. QED
  BY <1>2, <1>3, <1>4, OneGoesOn

\* The request in the section goes on, and keeps what it is going to write.
LEMMA GoesOnWithin ==
  ASSUME IndexInv, NEW r \in Locked, NEW v, req' = [req EXCEPT ![r] = v], index' = index, Fields(v),
         v.kind = req[r].kind, v.id = req[r].id, v.path = req[r].path, v.version = req[r].version,
         v.cut = req[r].cut, v.idx = req[r].idx, v.at \in Stages \ {"bounded"},
         v.at \in Before => req[r].at \in Before \ {"bounded"}
  PROVE  IndexInv'
<1>0. r \in Requests
  BY DEF Locked
<1>1. UpToDate(v, index)
  <2>. SUFFICES ASSUME v.at \in Before, ~v.cut
                PROVE  v.idx = Change(v, index)
    BY DEF UpToDate, Intended
  <2>1. Change(v, index) = Change(req[r], index)
    BY SameChange
  <2>2. req[r].idx = Change(req[r], index)
    BY <1>0 DEF IndexInv, UpToDate, Intended
  <2>. QED
    BY <2>1, <2>2
<1>. QED
  BY <1>0, <1>1, OneGoesOn

LEMMA ListsInv ==
  ASSUME IndexInv, NEW r \in Requests, NEW fails, Lists(r, fails)
  PROVE  IndexInv'
<1>. DEFINE found == IF fails THEN {} ELSE req[r].drop \intersect OnDisk
            stage == IF req[r].at = "deleting" THEN "removing" ELSE "dropping"
            u == [req[r] EXCEPT !.at = stage, !.drop = found]
            w == [req[r] EXCEPT !.at = "changed", !.drop = {}]
<1>0. /\ Fields(req[r]) /\ req[r].at \in {"deleting", "written"} /\ index' = index
      /\ \/ req' = [req EXCEPT ![r] = u]
         \/ req[r].at = "deleting" /\ req' = [req EXCEPT ![r] = w]
         \/ req' = [req EXCEPT ![r] = Over]
  BY DEF Lists, IndexInv
<1>1. r \in Locked
  BY <1>0 DEF Locked
<1>2. CASE req' = [req EXCEPT ![r] = Over]
  BY <1>0, <1>2, Renewed, IdleFields
<1>3. CASE req' = [req EXCEPT ![r] = u]
  <2>. HIDE DEF found, stage
  <2>1. /\ Fields(u) /\ u.kind = req[r].kind /\ u.id = req[r].id /\ u.path = req[r].path
        /\ u.version = req[r].version /\ u.cut = req[r].cut /\ u.idx = req[r].idx /\ u.at = stage
    BY <1>0 DEF Fields, Names
  <2>2. stage \in Stages \ {"bounded"} /\ (stage \in Before => req[r].at \in Before \ {"bounded"})
    BY <1>0 DEF stage, Stages, Before
  <2>. HIDE DEF u
  <2>. QED
    BY <1>0, <1>1, <1>3, <2>1, <2>2, GoesOnWithin
<1>4. CASE req[r].at = "deleting" /\ req' = [req EXCEPT ![r] = w]
  <2>1. /\ Fields(w) /\ w.kind = req[r].kind /\ w.id = req[r].id /\ w.path = req[r].path
        /\ w.version = req[r].version /\ w.cut = req[r].cut /\ w.idx = req[r].idx /\ w.at = "changed"
    BY <1>0 DEF Fields, Names
  <2>2. w.at \in Stages \ {"bounded"} /\ req[r].at \in Before \ {"bounded"}
    BY <1>4, <2>1 DEF Stages, Before
  <2>. HIDE DEF w
  <2>. QED
    BY <1>0, <1>1, <1>4, <2>1, <2>2, GoesOnWithin
<1>. QED
  BY <1>0, <1>2, <1>3, <1>4

\* What Removes(r, f) makes of the request.
Goes(r, f) ==
  LET q == req[r]
      left == q.drop \ {f}
      gone == IF q.at = "removing" \/ (q.at = "clearing" /\ IndexFile \in q.drop) THEN q.gone \union {f} ELSE q.gone
  IN IF left # {} THEN [q EXCEPT !.drop = left, !.gone = gone]
     ELSE IF q.at = "removing" THEN [q EXCEPT !.at = "changed", !.drop = {}, !.gone = gone]
     ELSE Over

LEMMA RemovesDoes ==
  ASSUME IndexInv, NEW r \in Requests, NEW f, Removes(r, f)
  PROVE  /\ req' = [req EXCEPT ![r] = Goes(r, f)] /\ index' = index
         /\ LET q == req[r]
                left == q.drop \ {f}
                gone == IF q.at = "removing" \/ (q.at = "clearing" /\ IndexFile \in q.drop) THEN q.gone \union {f} ELSE q.gone
                v == Goes(r, f)
            IN \/ left = {} /\ q.at # "removing" /\ v = Over
               \/ /\ Fields(v) /\ v.kind = q.kind /\ v.id = q.id /\ v.path = q.path
                  /\ v.version = q.version /\ v.cut = q.cut /\ v.idx = q.idx
                  /\ v.gone = gone /\ v.drop = left
                  /\ v.at = IF left = {} THEN "changed" ELSE q.at
                  /\ left = {} => q.at = "removing"
<1>0. Fields(req[r])
  BY DEF IndexInv
<1>1. req' = [req EXCEPT ![r] = Goes(r, f)] /\ index' = index
  BY DEF Removes, Goes
<1>. DEFINE q == req[r]
            left == q.drop \ {f}
            gone == IF q.at = "removing" \/ (q.at = "clearing" /\ IndexFile \in q.drop) THEN q.gone \union {f} ELSE q.gone
            v == Goes(r, f)
<1>2. CASE left # {}
  <2>1. v = [q EXCEPT !.drop = left, !.gone = gone]
    BY <1>2 DEF Goes
  <2>. HIDE DEF left, gone, v
  <2>2. /\ Fields(v) /\ v.kind = q.kind /\ v.id = q.id /\ v.path = q.path
        /\ v.version = q.version /\ v.cut = q.cut /\ v.idx = q.idx
        /\ v.gone = gone /\ v.drop = left /\ v.at = q.at
    BY <1>0, <2>1 DEF Fields, Names
  <2>. QED
    BY <1>1, <1>2, <2>2 DEF left, gone, v
<1>3. CASE left = {} /\ q.at = "removing"
  <2>1. v = [q EXCEPT !.at = "changed", !.drop = {}, !.gone = gone]
    BY <1>3 DEF Goes
  <2>. HIDE DEF left, gone, v
  <2>2. /\ Fields(v) /\ v.kind = q.kind /\ v.id = q.id /\ v.path = q.path
        /\ v.version = q.version /\ v.cut = q.cut /\ v.idx = q.idx
        /\ v.gone = gone /\ v.drop = {} /\ v.at = "changed"
    BY <1>0, <2>1 DEF Fields, Names
  <2>. QED
    BY <1>1, <1>3, <2>2 DEF left, gone, v
<1>4. CASE left = {} /\ q.at # "removing"
  BY <1>1, <1>4 DEF Goes
<1>. QED
  BY <1>2, <1>3, <1>4

LEMMA RemovesInv ==
  ASSUME IndexInv, NEW r \in Requests, NEW f, Removes(r, f)
  PROVE  IndexInv'
<1>. DEFINE v == Goes(r, f)
<1>1. req' = [req EXCEPT ![r] = v] /\ index' = index /\ req[r].at \in {"clearing", "removing", "dropping"}
  BY RemovesDoes DEF Removes
<1>2. CASE v = Over
  BY <1>1, <1>2, Renewed, IdleFields
<1>3. CASE v # Over
  <2>1. /\ Fields(v) /\ v.kind = req[r].kind /\ v.id = req[r].id /\ v.path = req[r].path
        /\ v.version = req[r].version /\ v.cut = req[r].cut /\ v.idx = req[r].idx
        /\ \/ v.at = req[r].at
           \/ v.at = "changed" /\ req[r].at = "removing"
    BY <1>3, RemovesDoes
  <2>. HIDE DEF v
  <2>2. CASE req[r].at = "clearing"
    BY <1>1, <2>1, <2>2, Renewed DEF Stages, Before
  <2>3. CASE req[r].at # "clearing"
    <3>1. r \in Locked
      BY <1>1, <2>3 DEF Locked
    <3>2. v.at \in Stages \ {"bounded"} /\ (v.at \in Before => req[r].at \in Before \ {"bounded"})
      BY <1>1, <2>1, <2>3 DEF Stages, Before
    <3>. QED
      BY <1>1, <2>1, <3>1, <3>2, GoesOnWithin
  <2>. QED
    BY <2>2, <2>3
<1>. QED
  BY <1>2, <1>3

LEMMA BoundsInv ==
  ASSUME IndexInv, NEW r \in Requests, Bounds(r)
  PROVE  IndexInv'
<1>1. PICK drop :
        req' = [req EXCEPT ![r] = [req[r] EXCEPT !.at = "bounded",
                                     !.idx = [i \in Ids |-> Kept(req[r].idx[i])], !.drop = drop]]
  BY DEF Bounds, IndexInv, Fields
<1> DEFINE v == [req[r] EXCEPT !.at = "bounded",
                   !.idx = [i \in Ids |-> Kept(req[r].idx[i])], !.drop = drop]
<1>2. /\ Fields(v) /\ v.kind = req[r].kind /\ v.id = req[r].id /\ v.path = req[r].path
      /\ v.version = req[r].version /\ v.at = "bounded" /\ v.cut = req[r].cut
      /\ v.idx = [i \in Ids |-> Kept(req[r].idx[i])]
  <2>1. Fields(req[r])
    BY DEF IndexInv
  <2>. QED
    BY <2>1 DEF Fields, Names
<1>3. req' = [req EXCEPT ![r] = v] /\ index' = index /\ req[r].at = "changed"
  BY <1>1 DEF Bounds
<1>. HIDE DEF v
<1>4. UpToDate(v, index)
  <2>1. Change(v, index) = Change(req[r], index)
    BY <1>2, SameChange
  <2>2. ~req[r].cut => req[r].idx = Change(req[r], index)
    BY <1>3 DEF IndexInv, UpToDate, Intended, Stages, Before
  <2>. QED
    BY <1>2, <2>1, <2>2 DEF UpToDate, Intended
<1>5. r \in Locked
  BY <1>3 DEF Locked
<1>. QED
  BY <1>2, <1>3, <1>4, <1>5, OneGoesOn

\* The write: the others are outside the section, so that nothing they hold
\* depends on the index.
LEMMA WritesInv ==
  ASSUME IndexInv, NEW r \in Requests, Writes(r)
  PROVE  IndexInv'
<1> DEFINE v == [req[r] EXCEPT !.at = "written", !.gone = {}]
<1>0. Fields(req[r])
  BY DEF IndexInv
<1>1. Fields(v) /\ v.at = "written"
  BY <1>0 DEF Fields, Names
<1>2. req' = [req EXCEPT ![r] = v] /\ r \in Locked
  BY DEF Writes, IndexInv, Fields, Locked
<1>. HIDE DEF v
<1>3. /\ req'[r] = v /\ \A q \in Requests \ {r} : req'[q] = req[q]
      /\ req' = [q \in Requests |-> req'[q]]
  BY <1>2 DEF IndexInv
<1>4. ASSUME NEW q \in Requests
      PROVE  Fields(req'[q]) /\ UpToDate(req'[q], index')
  <2>1. CASE q = r
    BY <1>1, <1>3, <2>1 DEF UpToDate, Before
  <2>2. CASE q # r
    <3>1. q \notin Locked
      BY <1>2, <2>2 DEF IndexInv
    <3>. QED
      BY <1>3, <2>2, <3>1, LockedStages DEF IndexInv, UpToDate, Stages
  <2>. QED
    BY <2>1, <2>2
<1>5. Locked' \subseteq Locked
  BY <1>2, <1>3, LockedStages DEF Locked
<1>. QED
  BY <1>3, <1>4, <1>5 DEF IndexInv

LEMMA NextInv == IndexInv /\ [Next]_vars => IndexInv'
<1>. SUFFICES ASSUME IndexInv, [Next]_vars
              PROVE  IndexInv'
  OBVIOUS
<1>1. ASSUME NEW r \in Requests, ClearsPartial(r) \/ Streams(r)
      PROVE  IndexInv'
  BY <1>1, StaysOut DEF ClearsPartial, Streams, Stages, Before
<1>2. ASSUME NEW r \in Requests, Creates(r)
      PROVE  IndexInv'
  <2>1. CASE To(r, "writing") \/ To(r, "cleanup")
    BY <1>2, <2>1, StaysOut DEF Creates, Stages, Before
  <2>2. CASE req' = [req EXCEPT ![r] = Over]
    BY <1>2, <2>2, Renewed, IdleFields DEF Creates
  <2>. QED
    BY <1>2, <2>1, <2>2 DEF Creates
<1>3. ASSUME NEW r \in Requests, Renames(r) \/ CopyFails(r)
      PROVE  IndexInv'
  <2>1. index' = index /\ (To(r, "queued") \/ To(r, "cleanup"))
    BY <1>3 DEF Renames, CopyFails
  <2>. QED
    BY <2>1, StaysOut DEF Stages, Before
<1>4. ASSUME NEW r \in Requests, CleansUp(r) \/ UpdateFails(r)
      PROVE  IndexInv'
  <2>1. req' = [req EXCEPT ![r] = Over] /\ index' = index
    BY <1>4 DEF CleansUp, UpdateFails
  <2>. QED
    BY <2>1, Renewed, IdleFields
<1>5. ASSUME NEW f \in Files, Ages(f)
      PROVE  IndexInv'
  BY <1>5 DEF Ages, IndexInv, Locked
<1>6. CASE UNCHANGED vars
  BY <1>6 DEF vars, IndexInv, Locked
<1>. QED
  BY <1>1, <1>2, <1>3, <1>4, <1>5, <1>6, AsksInv, SavesInv, AsksToDeleteInv, ClearsInv,
     ReadsInv, ListsInv, RemovesInv, RemovesIndexInv, BoundsInv, WritesInv DEF Next

LEMMA AlwaysInv == Spec => []IndexInv
BY InitInv, NextInv, PTL DEF Spec

\* A step that takes a request from "bounded" to "written" is its own write.
LEMMA OnlyWrites ==
  ASSUME IndexInv, [Next]_vars, NEW r \in Requests,
         req[r].at = "bounded", req'[r].at = "written"
  PROVE  Writes(r)
<1>1. ASSUME NEW q \in Requests, NEW v, req' = [req EXCEPT ![q] = v], v.at # "written"
      PROVE  FALSE
  BY <1>1 DEF IndexInv
<1>2. ASSUME NEW q \in Requests, NEW at, To(q, at), at # "written"
      PROVE  FALSE
  <2>1. [req[q] EXCEPT !.at = at].at = at
    BY DEF IndexInv, Fields
  <2>. QED
    BY <1>1, <1>2, <2>1 DEF To
<1>3. ASSUME NEW q \in Requests, NEW i, NEW f, Asks(q, i, f)
      PROVE  FALSE
  <2>1. CASE req' = [req EXCEPT ![q] = Over]
    BY <1>1, <2>1, IdleFields DEF Stages, Before
  <2>2. CASE req' # [req EXCEPT ![q] = Over]
    <3> DEFINE v == [Idle EXCEPT !.at = IF disk[f] # Nobody THEN "queued" ELSE "fresh",
                                 !.kind = IF disk[f] # Nobody THEN "existing" ELSE "new",
                                 !.id = i, !.path = f]
    <3>1. v.at # "written"
      BY DEF Idle
    <3>2. req' = [req EXCEPT ![q] = v]
      BY <1>3, <2>2 DEF Asks
    <3>. HIDE DEF v
    <3>. QED
      BY <1>1, <3>1, <3>2
  <2>. QED
    BY <2>1, <2>2
<1>4. ASSUME NEW q \in Requests, NEW i, NEW n, Saves(q, i, n)
      PROVE  FALSE
  <2>1. PICK f : req' = [req EXCEPT ![q] = [Idle EXCEPT !.at = "fresh", !.kind = "edit", !.id = i,
                                                        !.path = f, !.version = n]]
    BY <1>4 DEF Saves
  <2>. DEFINE v == [Idle EXCEPT !.at = "fresh", !.kind = "edit", !.id = i, !.path = f, !.version = n]
  <2>2. v.at # "written" /\ req' = [req EXCEPT ![q] = v]
    BY <2>1 DEF Idle
  <2>. HIDE DEF v
  <2>. QED
    BY <1>1, <2>2
<1>5. ASSUME NEW q \in Requests, AsksToDelete(q)
      PROVE  FALSE
  <2>1. \A f : [Idle EXCEPT !.at = "queued", !.kind = "delete", !.path = f].at # "written"
    BY DEF Idle
  <2>2. \A i : [Idle EXCEPT !.at = "queued", !.kind = "canvas", !.id = i].at # "written"
    BY DEF Idle
  <2>. QED
    BY ZenonT(30), <1>1, <1>5, <2>1, <2>2 DEF AsksToDelete
<1>6. ASSUME NEW q \in Requests, Clears(q)
      PROVE  FALSE
  <2>1. PICK idx : req' = [req EXCEPT ![q] = IF OnDisk \union idx = {} THEN Over
                                             ELSE [Idle EXCEPT !.at = "clearing", !.drop = OnDisk \union idx]]
    BY <1>6 DEF Clears
  <2>. DEFINE v == IF OnDisk \union idx = {} THEN Over
                   ELSE [Idle EXCEPT !.at = "clearing", !.drop = OnDisk \union idx]
  <2>2. v.at # "written" /\ req' = [req EXCEPT ![q] = v]
    BY <2>1 DEF Idle, Over
  <2>. HIDE DEF v
  <2>. QED
    BY <1>1, <2>2
<1>7. ASSUME NEW q \in Requests, Reads(q) \/ (\E fails : Lists(q, fails)) \/ Bounds(q)
      PROVE  FALSE
  <2>1. PICK v : req' = [req EXCEPT ![q] = v] /\ v.at # "written"
    <3>1. CASE Reads(q)
      BY <3>1 DEF Reads, IndexInv, Fields
    <3>2. ASSUME NEW fails, Lists(q, fails)
          PROVE  \E v : req' = [req EXCEPT ![q] = v] /\ v.at # "written"
      <4>. DEFINE found == IF fails THEN {} ELSE req[q].drop \intersect OnDisk
                  stage == IF req[q].at = "deleting" THEN "removing" ELSE "dropping"
                  v == IF found # {} THEN [req[q] EXCEPT !.at = stage, !.drop = found]
                       ELSE IF req[q].at = "deleting" THEN [req[q] EXCEPT !.at = "changed", !.drop = {}]
                       ELSE Over
      <4>1. req' = [req EXCEPT ![q] = v]
        BY <3>2 DEF Lists
      <4>2. v.at # "written"
        <5>1. Fields(req[q]) /\ stage # "written"
          BY DEF IndexInv
        <5>. HIDE DEF stage, found
        <5>2. /\ [req[q] EXCEPT !.at = stage, !.drop = found].at = stage
              /\ [req[q] EXCEPT !.at = "changed", !.drop = {}].at = "changed"
          BY <5>1 DEF Fields, Names
        <5>. QED
          BY <5>1, <5>2 DEF Over, Idle
      <4>. HIDE DEF v
      <4>. QED
        BY <4>1, <4>2
    <3>3. CASE Bounds(q)
      BY <3>3 DEF Bounds, IndexInv, Fields
    <3>. QED
      BY <1>7, <3>1, <3>2, <3>3
  <2>. QED
    BY <1>1, <2>1
<1>12. ASSUME NEW q \in Requests, NEW f, Removes(q, f)
       PROVE  FALSE
  <2>. DEFINE v == Goes(q, f)
  <2>1. req' = [req EXCEPT ![q] = v] /\ req[q].at # "written"
    BY <1>12, RemovesDoes DEF Removes
  <2>2. v = Over \/ v.at = req[q].at \/ v.at = "changed"
    BY <1>12, RemovesDoes
  <2>. HIDE DEF v
  <2>3. v.at # "written"
    BY <2>1, <2>2 DEF Over, Idle
  <2>. QED
    BY <1>1, <2>1, <2>3
<1>13. ASSUME NEW q \in Requests, RemovesIndex(q)
       PROVE  FALSE
  <2>1. r # q
    BY <1>13 DEF RemovesIndex
  <2>2. req'[r] = req[r] \/ req'[r] = [req[r] EXCEPT !.cut = TRUE]
    BY <1>13, <2>1 DEF RemovesIndex
  <2>3. req'[r].at = req[r].at
    BY <2>2 DEF IndexInv, Fields, Names
  <2>. QED
    BY <2>3
<1>8. ASSUME NEW q \in Requests,
             ClearsPartial(q) \/ Creates(q) \/ Streams(q) \/ Renames(q) \/ CopyFails(q)
               \/ CleansUp(q) \/ UpdateFails(q)
      PROVE  FALSE
  <2>1. (\E at : To(q, at) /\ at # "written") \/ req' = [req EXCEPT ![q] = Over]
    BY <1>8 DEF ClearsPartial, Creates, Streams, Renames, CopyFails, CleansUp, UpdateFails
  <2>. QED
    BY <1>1, <1>2, <2>1, IdleFields DEF Stages, Before
<1>9. ASSUME NEW f \in Files, Ages(f)
      PROVE  FALSE
  BY <1>9 DEF Ages
<1>10. ASSUME NEW q \in Requests, Writes(q)
       PROVE  q = r
  BY <1>10 DEF Writes, IndexInv
<1>11. ~(UNCHANGED vars)
  BY DEF vars
<1>. QED
  BY <1>3, <1>4, <1>5, <1>6, <1>7, <1>8, <1>9, <1>10, <1>11, <1>12, <1>13 DEF Next

\* No update of the index is lost, however many requests run at once: what is
\* written is the request's own change of what the index is at that moment.
THEOREM UpdatesAreKept == Spec => NoUpdateLost
<1>1. IndexInv /\ [Next]_vars =>
        [\A r \in Requests :
           (req[r].at = "bounded" /\ req'[r].at = "written" /\ ~req[r].cut)
           => LET now == Change(req[r], index) IN index' = [i \in Ids |-> Kept(now[i])]]_vars
  <2>. SUFFICES ASSUME IndexInv, [Next]_vars, NEW r \in Requests,
                       req[r].at = "bounded", req'[r].at = "written", ~req[r].cut
                PROVE  LET now == Change(req[r], index) IN index' = [i \in Ids |-> Kept(now[i])]
    OBVIOUS
  <2>1. Writes(r)
    BY OnlyWrites
  <2>2. req[r].idx = Intended(req[r], index)
    BY DEF IndexInv, UpToDate, Stages, Before
  <2>. QED
    BY <2>1, <2>2 DEF Writes, Intended
<1>. QED
  BY <1>1, AlwaysInv, PTL DEF Spec, NoUpdateLost

-----------------------------------------------------------------------------
(* What the index names is there.                                           *)

\* A file that stands whole on the disk, or that a known race has taken.
There == Whole \union exposed

Adds == {"new", "existing", "edit"}
Copying == {"fresh", "clean", "writing", "copied"}

\* What a request knows of files, when these are there, those are gone ahead of the index, which
\* is idx.
Known(q, there, cleared, idx) ==
  /\ q.at \in Copying => q.path \in Files /\ q.kind \in {"new", "edit"}
  /\ q.at = "queued" => q.kind \in Adds \union {"delete", "canvas"}
  /\ q.at = "queued" /\ q.kind \in Adds => q.path \in there
  /\ q.at \in Before => DOMAIN q.idx = Ids /\ Named(q.idx) \subseteq there \union cleared
  /\ q.at = "bounded" => q.drop \intersect Named(q.idx) = {}
  /\ q.at \in {"written", "dropping"} => q.drop \intersect Named(idx) = {}
  /\ q.at \notin {"removing", "changed", "bounded", "clearing"} => q.gone = {}
  /\ q.at = "clearing" /\ IndexFile \notin q.drop => q.gone = {}

\* What is being deleted from under the index, and what of that by a clearing.
BeingDeleted == UNION {req[r].gone : r \in Requests}
Cleared == UNION {req[r].gone : r \in {q \in Requests : req[q].at = "clearing"}}

\* The inductive invariant: the index names only what is there, apart from what is
\* being deleted, and so do the versions of it that requests are about to write.
ThereInv ==
  /\ DOMAIN index = Ids /\ DOMAIN disk = Files
  /\ OnDisk \subseteq There
  /\ \A r \in Requests : Known(req[r], There, Cleared, index)
  /\ Named(index) \subseteq There \union BeingDeleted

LEMMA ThereFacts ==
  /\ \A f : f \in Whole <=> f \in Files /\ disk[f] # Nobody /\ disk[f] \in written
  /\ \A f : f \in OnDisk <=> f \in Files /\ disk[f] # Nobody
  /\ \A f : f \in There <=> f \in Whole \/ f \in exposed
BY DEF There, Whole, OnDisk

LEMMA NamedFacts ==
  ASSUME NEW idx, NEW f
  PROVE  f \in Named(idx) <=> \E i \in Ids : \E e \in idx[i] : f = e.path
BY DEF Named

\* A request's change names what the index named, and the request's own file.
LEMMA ChangeNames ==
  ASSUME NEW q, NEW idx, DOMAIN idx = Ids, q.kind \in Adds \union {"delete", "canvas"}
  PROVE  /\ DOMAIN Change(q, idx) = Ids
         /\ \A f \in Named(Change(q, idx)) :
               f \in Named(idx) \/ (q.kind \in Adds /\ f = q.path)
<1>. DEFINE own == IF q.id \in Ids THEN idx[q.id] ELSE {}
            entry == [version |-> NextVersion(own), path |-> q.path]
            edited == [version |-> q.version, path |-> q.path]
            added == [idx EXCEPT ![q.id] = @ \union {entry}]
            c == Change(q, idx)
<1>1. entry.path = q.path /\ edited.path = q.path
  OBVIOUS
<1>2. /\ q.kind = "new" => c = added
      /\ q.kind = "existing" => c = idx \/ c = added
      /\ q.kind = "edit" => c = [idx EXCEPT ![q.id] = {e \in @ : e.version # q.version} \union {edited}]
      /\ q.kind = "delete" => c = [i \in Ids |-> {e \in idx[i] : e.path # q.path}]
      /\ q.kind = "canvas" => c = [idx EXCEPT ![q.id] = {}]
  BY DEF Change
<1>. HIDE DEF c, entry, edited
<1>3. ASSUME q.kind \in Adds
      PROVE  /\ DOMAIN c = Ids
             /\ \A i \in Ids : \A e \in c[i] : e \in idx[i] \/ e.path = q.path
  <2>1. CASE c = idx
    BY <2>1
  <2>2. CASE c = added
    BY <1>1, <2>2
  <2>3. CASE c = [idx EXCEPT ![q.id] = {e \in @ : e.version # q.version} \union {edited}]
    BY <1>1, <2>3
  <2>. QED
    BY <1>2, <1>3, <2>1, <2>2, <2>3 DEF Adds
<1>4. ASSUME q.kind \notin Adds
      PROVE  /\ DOMAIN c = Ids
             /\ \A i \in Ids : \A e \in c[i] : e \in idx[i]
  <2>1. CASE c = [i \in Ids |-> {e \in idx[i] : e.path # q.path}]
    BY <2>1
  <2>2. CASE c = [idx EXCEPT ![q.id] = {}]
    BY <2>2
  <2>. QED
    BY <1>2, <1>4, <2>1, <2>2
<1>5. ASSUME NEW f \in Named(c)
      PROVE  f \in Named(idx) \/ (q.kind \in Adds /\ f = q.path)
  <2>0. PICK i \in Ids : \E e \in c[i] : f = e.path
    BY NamedFacts
  <2>1. PICK e \in c[i] : f = e.path
    BY <2>0
  <2>2. e \in idx[i] \/ (q.kind \in Adds /\ e.path = q.path)
    BY <1>3, <1>4
  <2>. QED
    BY <2>1, <2>2, NamedFacts
<1>6. DOMAIN c = Ids
  BY <1>3, <1>4
<1>. QED
  BY <1>5, <1>6 DEF c

LEMMA KnownGrows ==
  ASSUME NEW q, NEW t, NEW c, NEW u, NEW d, NEW idx, Known(q, t, c, idx), t \subseteq u, c \subseteq u \union d
  PROVE  Known(q, u, d, idx)
BY DEF Known

\* What is gone under a clearing stays so, or is there.
LEMMA ClearedGrows ==
  ASSUME NEW r \in Requests, \A q \in Requests \ {r} : req'[q] = req[q],
         \A f \in req[r].gone : f \in There' \/ (f \in req'[r].gone /\ (req[r].at = "clearing" => req'[r].at = "clearing"))
  PROVE  Cleared \subseteq There' \union Cleared'
<1>. SUFFICES ASSUME NEW q \in Requests, req[q].at = "clearing", NEW f \in req[q].gone, f \notin There'
              PROVE  f \in Cleared'
  BY DEF Cleared
<1>1. req'[q].at = "clearing" /\ f \in req'[q].gone
  OBVIOUS
<1>. QED
  BY <1>1 DEF Cleared

\* Request r goes on, nothing that was there goes, and the index stays.
LEMMA OneKnows ==
  ASSUME IndexInv, ThereInv, NEW r \in Requests, NEW v, req' = [req EXCEPT ![r] = v],
         index' = index, DOMAIN disk' = Files, OnDisk' \subseteq There', There \subseteq There',
         Known(v, There', Cleared, index),
         \A f \in req[r].gone : f \in There' \/ (f \in v.gone /\ (req[r].at = "clearing" => v.at = "clearing"))
  PROVE  ThereInv'
<1>1. req'[r] = v /\ \A q \in Requests \ {r} : req'[q] = req[q]
  BY DEF IndexInv
<1>2. Cleared \subseteq There' \union Cleared'
  BY <1>1, ClearedGrows
<1>3. \A q \in Requests : Known(req'[q], There', Cleared', index')
  BY <1>1, <1>2, KnownGrows DEF ThereInv
<1>4. ASSUME NEW f \in Named(index')
      PROVE  f \in There' \union BeingDeleted'
  <2>1. CASE f \in There
    BY <2>1
  <2>2. CASE f \notin There
    <3>1. PICK q \in Requests : f \in req[q].gone
      BY <1>4, <2>2 DEF ThereInv, BeingDeleted
    <3>2. f \in There' \/ f \in req'[q].gone
      BY <1>1, <3>1
    <3>. QED
      BY <3>2 DEF BeingDeleted
  <2>. QED
    BY <2>1, <2>2
<1>. QED
  BY <1>3, <1>4 DEF ThereInv

\* A request that changes no file.
LEMMA FilesStay ==
  ASSUME ThereInv, UNCHANGED <<disk, exposed>>, written \subseteq written'
  PROVE  There \subseteq There' /\ OnDisk' \subseteq There' /\ DOMAIN disk' = Files
<1>1. There \subseteq There'
  BY DEF There, Whole, OnDisk
<1>2. OnDisk' = OnDisk
  BY DEF OnDisk
<1>. QED
  BY <1>1, <1>2 DEF ThereInv

\* To() sets the stage alone.
LEMMA ToFields ==
  ASSUME IndexInv, NEW r \in Requests, NEW at, To(r, at)
  PROVE  LET v == [req[r] EXCEPT !.at = at] IN
         /\ req' = [req EXCEPT ![r] = v]
         /\ v.at = at /\ v.kind = req[r].kind /\ v.path = req[r].path /\ v.idx = req[r].idx
         /\ v.drop = req[r].drop /\ v.gone = req[r].gone
<1>1. Fields(req[r])
  BY DEF IndexInv
<1>. QED
  BY <1>1 DEF Fields, Names, To

LEMMA IdleKnows ==
  ASSUME NEW t, NEW c, NEW idx
  PROVE  Known(Over, t, c, idx) /\ Known(Idle, t, c, idx) /\ Over.at \notin Stages
<1>1. Over.at = "done" /\ Over.gone = {}
  BY DEF Over, Idle
<1>2. Idle.at = "idle" /\ Idle.gone = {}
  BY DEF Idle
<1>. QED
  BY <1>1, <1>2 DEF Known, Copying, Stages, Before

\* A request comes with what it asks for.
LEMMA NewKnows ==
  ASSUME IndexInv, ThereInv, NEW r \in Requests, NEW v, req' = [req EXCEPT ![r] = v],
         req[r].at = "idle", index' = index, DOMAIN disk' = Files, OnDisk' \subseteq There',
         There \subseteq There', Known(v, There', Cleared, index)
  PROVE  ThereInv'
<1>1. req[r].gone = {}
  BY DEF ThereInv, Known
<1>. QED
  BY <1>1, OneKnows

LEMMA AsksThere ==
  ASSUME IndexInv, ThereInv, NEW r \in Requests, NEW i, NEW f \in Snaps, Asks(r, i, f)
  PROVE  ThereInv'
<1>1. /\ index' = index /\ req[r].at = "idle"
      /\ There \subseteq There' /\ OnDisk' \subseteq There' /\ DOMAIN disk' = Files
  BY FilesStay DEF Asks
<1>2. CASE req' = [req EXCEPT ![r] = Over]
  BY <1>1, <1>2, IdleKnows, NewKnows
<1>3. CASE /\ disk[f] # Nobody
           /\ req' = [req EXCEPT ![r] = [Idle EXCEPT !.at = "queued", !.kind = "existing",
                                                     !.id = i, !.path = f]]
  <2>. DEFINE v == [Idle EXCEPT !.at = "queued", !.kind = "existing", !.id = i, !.path = f]
  <2>1. v.at = "queued" /\ v.kind = "existing" /\ v.path = f /\ v.gone = {}
    BY DEF Idle
  <2>2. f \in There'
    BY <1>1, <1>3, ThereFacts DEF Files, ThereInv
  <2>3. req' = [req EXCEPT ![r] = v]
    BY <1>3
  <2>. HIDE DEF v
  <2>4. Known(v, There', Cleared, index)
    BY <2>1, <2>2 DEF Known, Copying, Stages, Before, Adds
  <2>. QED
    BY <1>1, <2>3, <2>4, NewKnows
<1>4. CASE req' = [req EXCEPT ![r] = [Idle EXCEPT !.at = "fresh", !.kind = "new",
                                                  !.id = i, !.path = f]]
  <2>. DEFINE v == [Idle EXCEPT !.at = "fresh", !.kind = "new", !.id = i, !.path = f]
  <2>1. v.at = "fresh" /\ v.kind = "new" /\ v.path = f /\ v.gone = {}
    BY DEF Idle
  <2>3. req' = [req EXCEPT ![r] = v]
    BY <1>4
  <2>. HIDE DEF v
  <2>4. Known(v, There', Cleared, index)
    BY <2>1 DEF Known, Copying, Stages, Before, Files
  <2>. QED
    BY <1>1, <2>3, <2>4, NewKnows
<1>5. CASE disk[f] # Nobody
  BY <1>2, <1>3, <1>5 DEF Asks
<1>6. CASE disk[f] = Nobody
  BY <1>2, <1>4, <1>6 DEF Asks
<1>. QED
  BY <1>5, <1>6

LEMMA SavesThere ==
  ASSUME IndexInv, ThereInv, NEW r \in Requests, NEW i, NEW n, Saves(r, i, n)
  PROVE  ThereInv'
<1>1. /\ index' = index /\ req[r].at = "idle"
      /\ There \subseteq There' /\ OnDisk' \subseteq There' /\ DOMAIN disk' = Files
  BY FilesStay DEF Saves
<1>2. PICK f \in Edits : req' = [req EXCEPT ![r] = [Idle EXCEPT !.at = "fresh", !.kind = "edit", !.id = i,
                                                               !.path = f, !.version = n]]
  BY DEF Saves
<1>. DEFINE v == [Idle EXCEPT !.at = "fresh", !.kind = "edit", !.id = i, !.path = f, !.version = n]
<1>3. v.at = "fresh" /\ v.kind = "edit" /\ v.path = f /\ v.gone = {} /\ req' = [req EXCEPT ![r] = v]
  BY <1>2 DEF Idle
<1>. HIDE DEF v
<1>4. Known(v, There', Cleared, index)
  BY <1>3 DEF Known, Copying, Stages, Before, Files
<1>. QED
  BY <1>1, <1>3, <1>4, NewKnows

\* A clearing has removed nothing yet when it comes.
LEMMA ClearsThere ==
  ASSUME IndexInv, ThereInv, NEW r \in Requests, Clears(r)
  PROVE  ThereInv'
<1>1. /\ index' = index /\ req[r].at = "idle"
      /\ There \subseteq There' /\ OnDisk' \subseteq There' /\ DOMAIN disk' = Files
  BY FilesStay DEF Clears
<1>2. PICK drop : req' = [req EXCEPT ![r] = IF drop = {} THEN Over
                                            ELSE [Idle EXCEPT !.at = "clearing", !.drop = drop]]
  BY DEF Clears
<1>. DEFINE v == [Idle EXCEPT !.at = "clearing", !.drop = drop]
<1>3. v.at = "clearing" /\ v.gone = {}
  BY DEF Idle
<1>4. req' = [req EXCEPT ![r] = v] \/ req' = [req EXCEPT ![r] = Over]
  BY <1>2
<1>. HIDE DEF v
<1>5. Known(v, There', Cleared, index)
  BY <1>3 DEF Known, Copying, Stages, Before
<1>. QED
  BY <1>1, <1>4, <1>5, IdleKnows, NewKnows

LEMMA AsksToDeleteThere ==
  ASSUME IndexInv, ThereInv, NEW r \in Requests, AsksToDelete(r)
  PROVE  ThereInv'
<1>1. /\ index' = index /\ req[r].at = "idle"
      /\ There \subseteq There' /\ OnDisk' \subseteq There' /\ DOMAIN disk' = Files
  BY FilesStay DEF AsksToDelete
<1>2. PICK v : /\ req' = [req EXCEPT ![r] = v] /\ v.at = "queued" /\ v.gone = {}
               /\ v.kind \in {"delete", "canvas"}
  <2>1. ASSUME NEW f,
               req' = [req EXCEPT ![r] = [Idle EXCEPT !.at = "queued", !.kind = "delete", !.path = f]]
        PROVE  \E v : /\ req' = [req EXCEPT ![r] = v] /\ v.at = "queued" /\ v.gone = {}
                      /\ v.kind \in {"delete", "canvas"}
    <3>. DEFINE w == [Idle EXCEPT !.at = "queued", !.kind = "delete", !.path = f]
    <3>1. w.at = "queued" /\ w.gone = {} /\ w.kind = "delete"
      BY DEF Idle
    <3>. HIDE DEF w
    <3>2. req' = [req EXCEPT ![r] = w]
      BY <2>1 DEF w
    <3>. QED
      BY <3>1, <3>2
  <2>2. ASSUME NEW i,
               req' = [req EXCEPT ![r] = [Idle EXCEPT !.at = "queued", !.kind = "canvas", !.id = i]]
        PROVE  \E v : /\ req' = [req EXCEPT ![r] = v] /\ v.at = "queued" /\ v.gone = {}
                      /\ v.kind \in {"delete", "canvas"}
    <3>. DEFINE w == [Idle EXCEPT !.at = "queued", !.kind = "canvas", !.id = i]
    <3>1. w.at = "queued" /\ w.gone = {} /\ w.kind = "canvas"
      BY DEF Idle
    <3>. HIDE DEF w
    <3>2. req' = [req EXCEPT ![r] = w]
      BY <2>2 DEF w
    <3>. QED
      BY <3>1, <3>2
  <2>. QED
    BY <2>1, <2>2 DEF AsksToDelete
<1>3. Known(v, There', Cleared, index)
  BY <1>2 DEF Known, Copying, Stages, Before, Adds
<1>. QED
  BY <1>1, <1>2, <1>3, NewKnows

\* The copying of a snapshot, up to its rename, and what is left when it fails.
LEMMA CopyThere ==
  ASSUME IndexInv, ThereInv, NEW r \in Requests,
         ClearsPartial(r) \/ Creates(r) \/ Streams(r) \/ CopyFails(r) \/ CleansUp(r)
  PROVE  ThereInv'
<1>1. /\ index' = index
      /\ There \subseteq There' /\ OnDisk' \subseteq There' /\ DOMAIN disk' = Files
  <2>1. UNCHANGED <<disk, exposed, index>> /\ written \subseteq written'
    BY DEF ClearsPartial, Creates, Streams, CopyFails, CleansUp
  <2>. QED
    BY <2>1, FilesStay
<1>2. req[r].at \in Copying \union {"cleanup"} /\ req[r].gone = {}
  <2>1. req[r].at \in Copying \union {"cleanup"}
    BY DEF ClearsPartial, Creates, Streams, CopyFails, CleansUp, Copying
  <2>. QED
    BY <2>1 DEF ThereInv, Known, Copying
<1>3. CASE req' = [req EXCEPT ![r] = Over]
  BY <1>1, <1>2, <1>3, IdleKnows, OneKnows
<1>4. ASSUME NEW at, To(r, at), at \in Copying \union {"cleanup"},
             req[r].at \in Copying
      PROVE  ThereInv'
  <2>. DEFINE v == [req[r] EXCEPT !.at = at]
  <2>1. /\ req' = [req EXCEPT ![r] = v]
        /\ v.at = at /\ v.kind = req[r].kind /\ v.path = req[r].path /\ v.gone = req[r].gone
    BY <1>4, ToFields
  <2>. HIDE DEF v
  <2>2. req[r].path \in Files /\ req[r].kind \in {"new", "edit"}
    BY <1>4 DEF ThereInv, Known
  <2>3. Known(v, There', Cleared, index)
    BY <1>2, <1>4, <2>1, <2>2 DEF Known, Copying, Stages, Before, Adds
  <2>. QED
    BY <1>1, <1>2, <2>1, <2>3, OneKnows
<1>5. \/ req' = [req EXCEPT ![r] = Over]
      \/ /\ req[r].at \in Copying
         /\ \E at \in {"clean", "writing", "copied", "cleanup"} : To(r, at)
  BY DEF ClearsPartial, Creates, Streams, CopyFails, CleansUp, Copying
<1>. QED
  BY <1>3, <1>4, <1>5 DEF Copying

LEMMA RenamesThere ==
  ASSUME IndexInv, ThereInv, NEW r \in Requests, Renames(r)
  PROVE  ThereInv'
<1>. DEFINE f == req[r].path
<1>1. /\ index' = index /\ written' = written /\ req[r].at = "copied" /\ req[r].kind \in {"new", "edit"}
      /\ f \in Files /\ req[r].gone = {}
  BY DEF Renames, ThereInv, Known, Copying
<1>2. CASE partial[f] # Nobody
  <2>. DEFINE v == [req[r] EXCEPT !.at = "queued"]
  <2>1. /\ disk' = [disk EXCEPT ![f] = partial[f]]
        /\ exposed' = IF partial[f] \in written THEN exposed \ {f} ELSE exposed \union {f}
        /\ To(r, "queued")
    BY <1>2 DEF Renames
  <2>2. /\ req' = [req EXCEPT ![r] = v]
        /\ v.at = "queued" /\ v.path = f /\ v.gone = {} /\ v.kind = req[r].kind
    BY <1>1, <2>1, ToFields
  <2>. HIDE DEF v
  <2>3. DOMAIN disk' = Files /\ disk'[f] = partial[f] /\ \A g \in Files \ {f} : disk'[g] = disk[g]
    BY <1>1, <2>1 DEF ThereInv
  <2>. HIDE DEF f
  <2>4. f \in There'
    <3>1. CASE partial[f] \in written
      <4>1. disk'[f] # Nobody /\ disk'[f] \in written'
        BY <1>1, <1>2, <2>3, <3>1
      <4>. QED
        BY <1>1, <4>1 DEF There, Whole, OnDisk
    <3>2. CASE partial[f] \notin written
      BY <2>1, <3>2 DEF There
    <3>. QED
      BY <3>1, <3>2
  <2>5. There \subseteq There'
    <3>. SUFFICES ASSUME NEW g \in There, g # f
                  PROVE  g \in There'
      BY <2>4
    <3>1. CASE g \in exposed
      BY <2>1, <3>1 DEF There
    <3>2. CASE g \in Whole
      BY <1>1, <2>3, <3>2 DEF There, Whole, OnDisk
    <3>. QED
      BY <3>1, <3>2 DEF There
  <2>6. OnDisk' \subseteq There'
    <3>1. OnDisk' \subseteq OnDisk \union {f}
      BY <2>3 DEF OnDisk
    <3>. QED
      BY <2>4, <2>5, <3>1 DEF ThereInv
  <2>7. Known(v, There', Cleared, index)
    BY <1>1, <2>2, <2>4 DEF Known, Copying, Stages, Before, Adds
  <2>. QED
    BY <1>1, <2>2, <2>3, <2>5, <2>6, <2>7, OneKnows
<1>3. CASE partial[f] = Nobody
  <2>. DEFINE v == [req[r] EXCEPT !.at = "cleanup"]
  <2>1. To(r, "cleanup") /\ UNCHANGED <<disk, exposed>>
    BY <1>3 DEF Renames
  <2>2. req' = [req EXCEPT ![r] = v] /\ v.at = "cleanup" /\ v.gone = {}
    BY <1>1, <2>1, ToFields
  <2>. HIDE DEF v
  <2>3. Known(v, There', Cleared, index)
    BY <2>2 DEF Known, Copying, Stages, Before
  <2>4. There \subseteq There' /\ OnDisk' \subseteq There' /\ DOMAIN disk' = Files
    BY <1>1, <2>1, FilesStay
  <2>. QED
    BY <1>1, <2>2, <2>3, <2>4, OneKnows
<1>. QED
  BY <1>2, <1>3

\* Only one request is between its read and its write.
LEMMA OthersOut ==
  ASSUME IndexInv, NEW r \in Locked
  PROVE  \A q \in Requests \ {r} : req[q].at \notin Stages
<1>1. \A q \in Locked : q = r
  BY DEF IndexInv
<1>. QED
  BY <1>1, LockedStages

\* The read: what the request is going to write names what the index names, and
\* its own file.
LEMMA ReadsThere ==
  ASSUME IndexInv, ThereInv, NEW r \in Requests, Reads(r)
  PROVE  ThereInv'
<1>0. /\ Locked = {} /\ req[r].at = "queued" /\ Known(req[r], There, Cleared, index) /\ Fields(req[r])
      /\ UNCHANGED <<disk, written, exposed, index>>
  BY DEF Reads, MayEnter, ThereInv, IndexInv
<1>1. PICK v : /\ req' = [req EXCEPT ![r] = v]
               /\ v.at \in {"deleting", "changed"} /\ v.gone = req[r].gone
               /\ v.idx \in {Change(req[r], index), Change(req[r], Empty)}
  <2>. DEFINE stage == IF req[r].kind \in {"delete", "canvas"} THEN "deleting" ELSE "changed"
              drops(idx) == IF req[r].kind = "delete" THEN {req[r].path}
                            ELSE IF req[r].kind = "canvas" THEN {e.path : e \in idx[req[r].id]}
                            ELSE {}
              w(idx, fails) == [req[r] EXCEPT !.at = stage, !.idx = Change(req[r], idx),
                                              !.drop = drops(idx), !.cut = fails]
  <2>1. req' = [req EXCEPT ![r] = w(index, FALSE)] \/ req' = [req EXCEPT ![r] = w(Empty, TRUE)]
    BY DEF Reads
  <2>2. stage \in {"deleting", "changed"}
    OBVIOUS
  <2>. HIDE DEF stage, drops
  <2>3. \A idx, fails : /\ w(idx, fails).at = stage /\ w(idx, fails).gone = req[r].gone
                        /\ w(idx, fails).idx = Change(req[r], idx)
    BY <1>0 DEF Fields, Names
  <2>4. ASSUME NEW idx, NEW fails, req' = [req EXCEPT ![r] = w(idx, fails)], idx \in {index, Empty}
        PROVE  \E v : /\ req' = [req EXCEPT ![r] = v]
                      /\ v.at \in {"deleting", "changed"} /\ v.gone = req[r].gone
                      /\ v.idx \in {Change(req[r], index), Change(req[r], Empty)}
    <3>. DEFINE u == w(idx, fails)
    <3>1. /\ u.at \in {"deleting", "changed"} /\ u.gone = req[r].gone
          /\ u.idx \in {Change(req[r], index), Change(req[r], Empty)}
          /\ req' = [req EXCEPT ![r] = u]
      BY <2>2, <2>3, <2>4
    <3>. HIDE DEF u
    <3>. QED
      BY <3>1
  <2>. QED
    BY <2>1, <2>4
<1>2. There \subseteq There' /\ OnDisk' \subseteq There' /\ DOMAIN disk' = Files
  BY <1>0, FilesStay
<1>3. Named(index) \subseteq There \union Cleared /\ DOMAIN index = Ids
  <2>1. ASSUME NEW q \in Requests, NEW f \in req[q].gone
        PROVE  req[q].at = "clearing"
    <3>1. req[q].at \notin Stages /\ Known(req[q], There, Cleared, index)
      BY <1>0, LockedStages DEF ThereInv
    <3>. QED
      BY <2>1, <3>1 DEF Known, Stages, Before
  <2>2. BeingDeleted \subseteq Cleared
    BY <2>1 DEF BeingDeleted, Cleared
  <2>. QED
    BY <2>2 DEF ThereInv
<1>4. Named(Empty) = {} /\ DOMAIN Empty = Ids
  BY DEF Empty, Named
<1>5. req[r].kind \in Adds \union {"delete", "canvas"} /\ req[r].gone = {}
      /\ (req[r].kind \in Adds => req[r].path \in There)
  BY <1>0 DEF Known
<1>6. DOMAIN v.idx = Ids /\ Named(v.idx) \subseteq There \union Cleared
  <2>1. CASE v.idx = Change(req[r], index)
    BY <1>3, <1>5, <2>1, ChangeNames
  <2>2. CASE v.idx = Change(req[r], Empty)
    BY <1>4, <1>5, <2>2, ChangeNames
  <2>. QED
    BY <1>1, <2>1, <2>2
<1>7. Known(v, There', Cleared, index)
  BY <1>1, <1>2, <1>5, <1>6 DEF Known, Stages, Before, Copying
<1>. QED
  BY <1>0, <1>1, <1>2, <1>5, <1>7, OneKnows

LEMMA ListsThere ==
  ASSUME IndexInv, ThereInv, NEW r \in Requests, NEW fails, Lists(r, fails)
  PROVE  ThereInv'
<1>. DEFINE found == IF fails THEN {} ELSE req[r].drop \intersect OnDisk
            stage == IF req[r].at = "deleting" THEN "removing" ELSE "dropping"
            u == [req[r] EXCEPT !.at = stage, !.drop = found]
            w == [req[r] EXCEPT !.at = "changed", !.drop = {}]
<1>0. /\ Fields(req[r]) /\ Known(req[r], There, Cleared, index)
      /\ req[r].at \in {"deleting", "written"} /\ index' = index /\ UNCHANGED <<disk, written, exposed>>
      /\ \/ req' = [req EXCEPT ![r] = u]
         \/ req[r].at = "deleting" /\ req' = [req EXCEPT ![r] = w]
         \/ req' = [req EXCEPT ![r] = Over]
  BY DEF Lists, IndexInv, ThereInv
<1>1. There \subseteq There' /\ OnDisk' \subseteq There' /\ DOMAIN disk' = Files
  BY <1>0, FilesStay
<1>2. /\ req[r].gone = {}
      /\ req[r].at = "deleting" => DOMAIN req[r].idx = Ids /\ Named(req[r].idx) \subseteq There \union Cleared
      /\ req[r].at = "written" => req[r].drop \intersect Named(index) = {}
  BY <1>0 DEF Known, Before
<1>3. found \subseteq req[r].drop
  OBVIOUS
<1>4. stage = IF req[r].at = "deleting" THEN "removing" ELSE "dropping"
  OBVIOUS
<1>. HIDE DEF found, stage
<1>5. u.at = stage /\ u.drop = found /\ u.gone = {} /\ u.idx = req[r].idx
  BY <1>0, <1>2 DEF Fields, Names
<1>6. w.at = "changed" /\ w.gone = {} /\ w.idx = req[r].idx
  BY <1>0, <1>2 DEF Fields, Names
<1>. HIDE DEF u, w
<1>7. Known(u, There', Cleared, index)
  BY <1>0, <1>1, <1>2, <1>3, <1>4, <1>5 DEF Known, Copying, Before
<1>8. req[r].at = "deleting" => Known(w, There', Cleared, index)
  BY <1>1, <1>2, <1>6 DEF Known, Copying, Before
<1>. QED
  BY <1>0, <1>1, <1>2, <1>7, <1>8, IdleKnows, OneKnows

\* One file goes.  What is going to be named nevertheless is exposed.
LEMMA RemovesThere ==
  ASSUME IndexInv, ThereInv, NEW r \in Requests, NEW f \in Files, Removes(r, f)
  PROVE  ThereInv'
<1>. DEFINE q == req[r]
            v == Goes(r, f)
<1>0. /\ q.at \in {"clearing", "removing", "dropping"} /\ f \in q.drop /\ f # IndexFile
      /\ disk' = [disk EXCEPT ![f] = Nobody] /\ written' = written /\ index' = index
      /\ exposed' = IF LeavesEntry(q, f) THEN exposed \union {f} ELSE exposed
      /\ req' = [req EXCEPT ![r] = v] /\ Known(q, There, Cleared, index)
  BY RemovesDoes DEF Removes, ThereInv
<1>1. req'[r] = v /\ \A p \in Requests \ {r} : req'[p] = req[p]
  BY <1>0 DEF IndexInv
<1>2. \/ /\ v = Over /\ q.gone = {} /\ q.at # "removing"
         /\ q.at = "clearing" => IndexFile \notin q.drop
      \/ /\ v.idx = q.idx /\ v.drop = q.drop \ {f}
         /\ v.gone = IF q.at = "removing" \/ (q.at = "clearing" /\ IndexFile \in q.drop) THEN q.gone \union {f} ELSE q.gone
         /\ v.at = q.at \/ (v.at = "changed" /\ q.at = "removing")
  <2>1. CASE v = Over /\ q.drop \ {f} = {} /\ q.at # "removing"
    <3>1. q.at = "clearing" => IndexFile \notin q.drop
      BY <1>0, <2>1
    <3>2. q.gone = {}
      BY <1>0, <2>1, <3>1 DEF Known
    <3>. QED
      BY <2>1, <3>1, <3>2
  <2>. QED
    BY <2>1, RemovesDoes
<1>. HIDE DEF v
<1>3. /\ DOMAIN disk' = Files /\ OnDisk' \subseteq There'
      /\ \A g \in There : g # f => g \in There'
      /\ LeavesEntry(q, f) => f \in There'
  <2>1. DOMAIN disk' = Files /\ disk'[f] = Nobody /\ \A g \in Files \ {f} : disk'[g] = disk[g]
    BY <1>0 DEF ThereInv
  <2>2. \A g \in There : g # f => g \in There'
    BY <1>0, <2>1 DEF There, Whole, OnDisk
  <2>3. LeavesEntry(q, f) => f \in There'
    BY <1>0 DEF There
  <2>4. OnDisk' \subseteq OnDisk \ {f}
    BY <2>1 DEF OnDisk
  <2>. QED
    BY <2>1, <2>2, <2>3, <2>4 DEF ThereInv
<1>4. Cleared \subseteq Cleared'
  <2>. SUFFICES ASSUME NEW p \in Requests, req[p].at = "clearing", NEW g \in req[p].gone
                PROVE  g \in Cleared'
    BY DEF Cleared
  <2>1. req'[p].at = "clearing" /\ g \in req'[p].gone
    BY <1>1, <1>2
  <2>. QED
    BY <2>1 DEF Cleared
<1>5. ASSUME NEW p \in Requests \ {r}
      PROVE  Known(req[p], There', Cleared', index)
  <2>0. Known(req[p], There, Cleared, index)
    BY DEF ThereInv
  <2>1. ASSUME req[p].at = "queued", req[p].kind \in Adds
        PROVE  req[p].path \in There'
    <3>1. req[p].path = f => AskedFor(f)
      BY <2>1 DEF AskedFor, Adds
    <3>. QED
      BY <1>3, <2>0, <2>1, <3>1 DEF Known, LeavesEntry
  <2>2. ASSUME req[p].at \in Before
        PROVE  Named(req[p].idx) \subseteq There' \union Cleared'
    <3>1. p \in Locked
      BY <2>2, LockedStages DEF Stages, Before
    <3>2. q.at = "clearing"
      BY <1>0, <3>1, OthersOut DEF Locked, Stages, Before
    <3>3. f \in Named(req[p].idx) => LeavesEntry(q, f)
      BY <3>1, <3>2 DEF LeavesEntry
    <3>. QED
      BY <1>3, <1>4, <2>0, <2>2, <3>3 DEF Known
  <2>. QED
    BY <2>0, <2>1, <2>2 DEF Known
<1>6. Known(v, There', Cleared', index)
  <2>1. CASE v = Over
    BY <2>1, IdleKnows
  <2>2. CASE v # Over /\ v.at \in Before
    <3>1. q.at = "removing" /\ v.at \in {"removing", "changed"}
      BY <1>0, <1>2, <2>2 DEF Before
    <3>2. f \in Named(q.idx) => LeavesEntry(q, f)
      BY <3>1 DEF LeavesEntry
    <3>3. DOMAIN v.idx = Ids /\ Named(v.idx) \subseteq There' \union Cleared'
      BY <1>0, <1>2, <1>3, <1>4, <2>2, <3>1, <3>2 DEF Known, Before
    <3>. QED
      BY <3>1, <3>3 DEF Known, Copying, Before
  <2>3. CASE v # Over /\ v.at = "dropping"
    <3>1. q.at = "dropping" /\ v.gone = {} /\ v.drop \intersect Named(index) = {}
      BY <1>0, <1>2, <2>3 DEF Known
    <3>. QED
      BY <2>3, <3>1 DEF Known, Copying, Before
  <2>4. CASE v # Over /\ v.at = "clearing"
    <3>1. q.at = "clearing" /\ (IndexFile \notin v.drop => v.gone = {})
      BY <1>0, <1>2, <2>4 DEF Known
    <3>. QED
      BY <2>4, <3>1 DEF Known, Copying, Before
  <2>. QED
    BY <1>0, <1>2, <2>1, <2>2, <2>3, <2>4 DEF Before
<1>7. ASSUME NEW g \in Named(index)
      PROVE  g \in There' \union BeingDeleted'
  <2>1. CASE \E p \in Requests : g \in req[p].gone
    <3>1. PICK p \in Requests : g \in req[p].gone
      BY <2>1
    <3>2. g \in req'[p].gone
      BY <1>1, <1>2, <3>1
    <3>. QED
      BY <3>2 DEF BeingDeleted
  <2>2. CASE g \in There /\ g # f
    BY <1>3, <2>2
  <2>3. CASE g = f
    <3>1. q.at # "dropping"
      BY <1>0, <1>7, <2>3 DEF Known
    <3>2. CASE q.at = "removing" \/ IndexFile \in q.drop
      <4>1. f \in req'[r].gone
        BY <1>0, <1>1, <1>2, <3>1, <3>2
      <4>. QED
        BY <2>3, <4>1 DEF BeingDeleted
    <3>3. CASE q.at = "clearing" /\ IndexFile \notin q.drop
      BY <1>3, <1>7, <2>3, <3>3 DEF LeavesEntry
    <3>. QED
      BY <1>0, <3>1, <3>2, <3>3
  <2>. QED
    BY <2>1, <2>2, <2>3 DEF ThereInv, BeingDeleted
<1>8. \A p \in Requests : Known(req'[p], There', Cleared', index')
  BY <1>0, <1>1, <1>5, <1>6
<1>9. Named(index') \subseteq There' \union BeingDeleted' /\ DOMAIN index' = Ids
  BY <1>0, <1>7 DEF ThereInv
<1>. QED
  BY <1>3, <1>8, <1>9 DEF ThereInv

\* The index goes: what it named is forgotten, but for what an update has read.
LEMMA RemovesIndexThere ==
  ASSUME IndexInv, ThereInv, NEW r \in Requests, RemovesIndex(r)
  PROVE  ThereInv'
<1>. DEFINE left == req[r].drop \ {IndexFile}
            mine == IF left = {} THEN Over ELSE [req[r] EXCEPT !.drop = left, !.gone = {}]
<1>1. /\ req[r].at = "clearing" /\ index' = Empty /\ UNCHANGED <<disk, written>>
      /\ exposed' = exposed \union (req[r].gone \intersect UNION {Named(req[p].idx) : p \in Locked})
      /\ req' = [q \in Requests |-> IF q = r THEN mine
                                    ELSE IF q \in Locked THEN [req[q] EXCEPT !.cut = TRUE] ELSE req[q]]
  BY DEF RemovesIndex
<1>2. Known(mine, There', Cleared', index')
  <2>1. Fields(req[r])
    BY DEF IndexInv
  <2>. HIDE DEF left
  <2>. DEFINE w == [req[r] EXCEPT !.drop = left, !.gone = {}]
  <2>2. w.at = "clearing" /\ w.gone = {}
    BY <1>1, <2>1 DEF Fields, Names
  <2>. HIDE DEF w
  <2>3. Known(w, There', Cleared', index')
    BY <2>2 DEF Known, Copying, Before
  <2>. QED
    BY <2>3, IdleKnows DEF w
<1>. HIDE DEF mine
<1>3. There \subseteq There' /\ OnDisk' \subseteq There' /\ DOMAIN disk' = Files
  <2>1. There \subseteq There' /\ OnDisk' = OnDisk /\ DOMAIN disk' = Files
    BY <1>1 DEF There, Whole, OnDisk, ThereInv
  <2>. QED
    BY <2>1 DEF ThereInv
<1>4. DOMAIN index' = Ids /\ Named(index') = {}
  BY <1>1 DEF Empty, Named
<1>5. ASSUME NEW q \in Requests \ {r}
      PROVE  /\ req'[q].at = req[q].at /\ req'[q].kind = req[q].kind /\ req'[q].path = req[q].path
             /\ req'[q].idx = req[q].idx /\ req'[q].drop = req[q].drop /\ req'[q].gone = req[q].gone
  <2>1. Fields(req[q]) /\ req'[q] \in {req[q], [req[q] EXCEPT !.cut = TRUE]}
    BY <1>1 DEF IndexInv
  <2>. QED
    BY <2>1 DEF Fields, Names
<1>6. ASSUME NEW q \in Requests \ {r}
      PROVE  Known(req'[q], There', Cleared', index')
  <2>0. Known(req[q], There, Cleared, index)
    BY DEF ThereInv
  <2>1. ASSUME req[q].at \in Before
        PROVE  Named(req[q].idx) \subseteq There' \union Cleared'
    <3>. SUFFICES ASSUME NEW f \in Named(req[q].idx), f \notin There
                  PROVE  f \in There' \union Cleared'
      BY <1>3
    <3>1. PICK p \in Requests : req[p].at = "clearing" /\ f \in req[p].gone
      BY <2>0, <2>1 DEF Known, Cleared
    <3>2. q \in Locked
      BY <2>1, LockedStages DEF Stages, Before
    <3>3. CASE p = r
      BY <1>1, <3>1, <3>2, <3>3 DEF There
    <3>4. CASE p # r
      <4>1. req'[p].at = "clearing" /\ f \in req'[p].gone
        BY <1>5, <3>1, <3>4
      <4>. QED
        BY <4>1 DEF Cleared
    <3>. QED
      BY <3>3, <3>4
  <2>. DEFINE u == req'[q]
  <2>2. /\ u.at = req[q].at /\ u.kind = req[q].kind /\ u.path = req[q].path
        /\ u.idx = req[q].idx /\ u.drop = req[q].drop /\ u.gone = req[q].gone
    BY <1>5
  <2>. HIDE DEF u
  <2>3. Known(u, There', Cleared', index')
    BY <1>3, <1>4, <2>0, <2>1, <2>2 DEF Known
  <2>. QED
    BY <2>3 DEF u
<1>7. \A q \in Requests : Known(req'[q], There', Cleared', index')
  BY <1>1, <1>2, <1>6
<1>. QED
  BY <1>3, <1>4, <1>7 DEF ThereInv

LEMMA BoundsThere ==
  ASSUME IndexInv, ThereInv, NEW r \in Requests, Bounds(r)
  PROVE  ThereInv'
<1>. DEFINE kept == [i \in Ids |-> Kept(req[r].idx[i])]
<1>0. Fields(req[r]) /\ Known(req[r], There, Cleared, index)
  BY DEF IndexInv, ThereInv
<1>1. PICK drop : /\ req' = [req EXCEPT ![r] = [req[r] EXCEPT !.at = "bounded", !.idx = kept, !.drop = drop]]
                  /\ drop \intersect Named(kept) = {}
  <2>. DEFINE gone == UNION {{e.path : e \in req[r].idx[i] \ kept[i]} : i \in Ids}
              orphans == (OnDisk \intersect old) \ Named(kept)
              d == (gone \union orphans) \ StillNamed(kept)
  <2>1. req' = [req EXCEPT ![r] = [req[r] EXCEPT !.at = "bounded", !.idx = kept, !.drop = d]]
    BY <1>0 DEF Bounds, IndexInv, Fields
  <2>. HIDE DEF kept, gone, orphans
  <2>2. d \intersect Named(kept) = {}
    BY DEF StillNamed
  <2>. HIDE DEF d
  <2>. QED
    BY <2>1, <2>2
<1>. DEFINE v == [req[r] EXCEPT !.at = "bounded", !.idx = kept, !.drop = drop]
<1>2. v.at = "bounded" /\ v.idx = kept /\ v.drop = drop /\ v.gone = req[r].gone
  <2>. HIDE DEF kept
  <2>. QED
    BY <1>0 DEF Fields, Names
<1>. HIDE DEF v
<1>3. /\ req[r].at = "changed" /\ req' = [req EXCEPT ![r] = v]
      /\ UNCHANGED <<disk, written, exposed, index>>
  BY <1>1 DEF Bounds, v
<1>4. There \subseteq There' /\ OnDisk' \subseteq There' /\ DOMAIN disk' = Files
  BY <1>3, FilesStay
<1>5. DOMAIN kept = Ids /\ Named(kept) \subseteq There \union Cleared
  <2>1. Named(req[r].idx) \subseteq There \union Cleared
    BY <1>0, <1>3 DEF Known, Stages, Before
  <2>2. \A i \in Ids : kept[i] \subseteq req[r].idx[i]
    BY DEF Kept
  <2>3. DOMAIN kept = Ids
    OBVIOUS
  <2>. HIDE DEF kept
  <2>4. Named(kept) \subseteq Named(req[r].idx)
    BY <2>2, NamedFacts
  <2>. QED
    BY <2>1, <2>3, <2>4
<1>. HIDE DEF kept
<1>6. Known(v, There', Cleared, index)
  BY <1>1, <1>2, <1>4, <1>5 DEF Known, Stages, Before, Copying
<1>7. \A f \in req[r].gone : f \in v.gone /\ req[r].at # "clearing"
  BY <1>2, <1>3
<1>. QED
  BY <1>3, <1>4, <1>6, <1>7, OneKnows

LEMMA WritesThere ==
  ASSUME IndexInv, ThereInv, NEW r \in Requests, Writes(r)
  PROVE  ThereInv'
<1>. DEFINE v == [req[r] EXCEPT !.at = "written", !.gone = {}]
<1>0. Fields(req[r]) /\ Known(req[r], There, Cleared, index)
  BY DEF IndexInv, ThereInv
<1>1. v.at = "written" /\ v.drop = req[r].drop /\ v.gone = {}
  BY <1>0 DEF Fields, Names
<1>2. /\ req' = [req EXCEPT ![r] = v] /\ req[r].at = "bounded" /\ index' = req[r].idx
      /\ UNCHANGED <<disk, written, exposed>>
  BY DEF Writes, IndexInv, Fields
<1>. HIDE DEF v
<1>3. /\ req'[r] = v /\ \A q \in Requests \ {r} : req'[q] = req[q]
      /\ r \in Locked
  BY <1>2 DEF IndexInv, Locked
<1>4. There \subseteq There' /\ OnDisk' \subseteq There' /\ DOMAIN disk' = Files
  BY <1>2, FilesStay
<1>5. /\ DOMAIN index' = Ids /\ Named(index') \subseteq There' \union Cleared
      /\ req[r].drop \intersect Named(index') = {}
  BY <1>0, <1>2, <1>4 DEF Known, Before
<1>6. Cleared \subseteq Cleared' /\ Cleared' \subseteq BeingDeleted'
  <2>1. \A q \in Requests : req[q].at = "clearing" => q # r
    BY <1>2
  <2>2. Cleared \subseteq Cleared'
    BY <1>3, <2>1 DEF Cleared
  <2>. QED
    BY <2>2 DEF Cleared, BeingDeleted
<1>7. Known(v, There', Cleared', index')
  BY <1>1, <1>5 DEF Known, Before, Copying
<1>8. ASSUME NEW q \in Requests \ {r}
      PROVE  Known(req'[q], There', Cleared', index')
  <2>1. req'[q] = req[q] /\ req[q].at \notin Stages /\ Known(req[q], There, Cleared, index)
    BY <1>3, OthersOut DEF ThereInv
  <2>. QED
    BY <1>4, <1>6, <2>1 DEF Known, Stages, Before
<1>9. \A q \in Requests : Known(req'[q], There', Cleared', index')
  BY <1>3, <1>7, <1>8
<1>. QED
  BY <1>4, <1>5, <1>6, <1>9 DEF ThereInv

LEMMA UpdateFailsThere ==
  ASSUME IndexInv, ThereInv, NEW r \in Requests, UpdateFails(r)
  PROVE  ThereInv'
<1>1. /\ req' = [req EXCEPT ![r] = Over] /\ exposed' = exposed \union req[r].gone
      /\ UNCHANGED <<disk, written, index>>
  BY DEF UpdateFails
<1>2. There \subseteq There' /\ req[r].gone \subseteq There'
  BY <1>1 DEF There, Whole, OnDisk
<1>3. OnDisk' \subseteq There' /\ DOMAIN disk' = Files
  BY <1>1, <1>2 DEF OnDisk, ThereInv
<1>. QED
  BY <1>1, <1>2, <1>3, IdleKnows, OneKnows

LEMMA NextThere == IndexInv /\ ThereInv /\ [Next]_vars => ThereInv'
<1>. SUFFICES ASSUME IndexInv, ThereInv, [Next]_vars
              PROVE  ThereInv'
  OBVIOUS
<1>1. CASE (\E f \in Files : Ages(f)) \/ UNCHANGED vars
  <2>1. UNCHANGED <<disk, written, exposed, index, req>>
    BY <1>1 DEF Ages, vars
  <2>2. There' = There /\ OnDisk' = OnDisk /\ BeingDeleted' = BeingDeleted /\ Cleared' = Cleared
    BY <2>1 DEF There, Whole, OnDisk, BeingDeleted, Cleared
  <2>. QED
    BY <2>1, <2>2 DEF ThereInv
<1>2. ASSUME NEW r \in Requests,
             ClearsPartial(r) \/ Creates(r) \/ Streams(r) \/ Renames(r) \/ CopyFails(r) \/ CleansUp(r)
      PROVE  ThereInv'
  BY <1>2, CopyThere, RenamesThere
<1>3. ASSUME NEW r \in Requests, AsksToDelete(r) \/ Clears(r)
      PROVE  ThereInv'
  BY <1>3, AsksToDeleteThere, ClearsThere
<1>4. ASSUME NEW r \in Requests, Reads(r) \/ Bounds(r) \/ Writes(r) \/ UpdateFails(r) \/ RemovesIndex(r)
      PROVE  ThereInv'
  BY <1>4, ReadsThere, BoundsThere, WritesThere, UpdateFailsThere, RemovesIndexThere
<1>. QED
  BY <1>1, <1>2, <1>3, <1>4, AsksThere, SavesThere, ListsThere, RemovesThere DEF Next

LEMMA InitThere == Init => ThereInv
<1>. SUFFICES ASSUME Init
              PROVE  ThereInv
  OBVIOUS
<1>1. DOMAIN index = Ids /\ Named(index) = {}
  BY DEF Init, Empty, Named
<1>2. DOMAIN disk = Files /\ OnDisk = {}
  BY DEF Init, OnDisk
<1>3. \A r \in Requests : Known(req[r], There, Cleared, index)
  BY IdleKnows DEF Init
<1>. QED
  BY <1>1, <1>2, <1>3 DEF ThereInv

\* What the index names is there, all of it, however many requests copy, save, delete, bound and
\* clear at once, file by file, and fail half way; but for files somebody is removing ahead of the
\* index, or failed to, files removed beside a request that has found them or beside an update,
\* files deleteCanvas() took from another canvas, and files renamed while still being written.
THEOREM NamedFilesAreThere == Spec => []NamedIsThere
<1>1. ThereInv => NamedIsThere
  BY DEF ThereInv, There, BeingDeleted, NamedIsThere
<1>. QED
  BY <1>1, InitThere, NextThere, AlwaysInv, PTL DEF Spec
=============================================================================
