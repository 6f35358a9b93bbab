------------------------- MODULE PythonKernel_proofs -------------------------
(***************************************************************************)
(* Theorems about the Python session of a conversation, for any number of  *)
(* cells and interpreters.                                                 *)
(***************************************************************************)
EXTENDS PythonKernel, TLAPS

Line == [of : Cells, cut : BOOLEAN, variables : SUBSET Cells]
Child == [state : {"none", "alive", "killed", "crashed", "gone"}, in : Seq(Cells), out : Seq(Line),
          memory : SUBSET Cells, sigint : BOOLEAN, took : SUBSET Cells]
ChildType == [Processes -> Child]
CellType == [Cells -> [at : {"idle", "queued", "running", "interrupting", "done"},
                       told : {"nothing", "output", "kept", "interrupted", "lost", "stopped", "failed"},
                       of : Cells \union {None}, strayed : BOOLEAN]]

TypeOK ==
  /\ cell \in CellType
  /\ queue \in Seq(Cells)
  /\ process \in Processes \union {None}
  /\ child \in ChildType
  /\ variables \subseteq Cells

\* A cell has its turn once, and an interpreter has the code only of cells that had theirs.
Ordered ==
  /\ \A i \in 1 .. Len(queue) : cell[queue[i]].at = "queued"
  /\ \A i, j \in 1 .. Len(queue) : queue[i] = queue[j] => i = j
  /\ \A p \in Processes : \A c \in child[p].took : cell[c].at \notin {"idle", "queued"}

\* An interpreter that lives is the kernel's; one that was not started has nothing yet.
Kept(pr, ch) ==
  /\ \A p \in Processes : ch[p].state = "none" => ch[p] = NotStarted
  /\ \A p \in Processes : ch[p].state = "alive" => pr = p

Held(pr, ch) == pr # None => ch[pr].state \in {"alive", "crashed"}

\* The interpreter has the cell's code, or its line, or nothing any more.
HasOnly(d, c) ==
  \/ d.in = <<>> /\ d.out = <<>>
  \/ d.in = <<c>> /\ d.out = <<>>
  \/ d.in = <<>> /\ \E line \in Line : d.out = <<line>> /\ line.of = c

\* Nothing but its own interpreter has anything to say to this cell.
Own(c, p, pr, ch) ==
  /\ ch[p].state # "none" /\ c \in ch[p].took /\ pr \in {p, None} /\ HasOnly(ch[p], c)
  /\ \A q \in Processes \ {p} : ch[q].out = <<>> /\ ch[q].state \notin {"killed", "crashed"}

Apart == \A c \in Waiting : ~cell[c].strayed => \E p \in Processes : Own(c, p, process, child)

Inv == TypeOK /\ Ordered /\ Kept(process, child) /\ Held(process, child) /\ Apart

LEMMA NoneIsNoProcess == None \notin Processes
BY DEF None, Processes

LEMMA InvInit == Init => Inv
<1>. SUFFICES ASSUME Init PROVE Inv
  OBVIOUS
<1>1. cell \in CellType
  BY DEF Init, CellType, NotRun, None
<1>2. NotStarted \in Child
  BY DEF NotStarted, Child
<1>3. child \in ChildType
  BY <1>2 DEF Init, ChildType
<1>4. TypeOK
  BY <1>1, <1>3 DEF Init, TypeOK
<1>5. \A p \in Processes : child[p] = NotStarted
  BY DEF Init
<1>6. Ordered
  BY <1>5 DEF Init, Ordered, NotStarted
<1>7. Kept(process, child) /\ Held(process, child)
  BY <1>5 DEF Init, Kept, Held, NotStarted
<1>8. Apart
  BY DEF Init, Apart, Waiting, NotRun
<1>. QED
  BY <1>4, <1>6, <1>7, <1>8 DEF Inv

-----------------------------------------------------------------------------
(* What an action does to the cells and to the interpreters.                *)

\* The rows of the interpreters, field by field.
LEMMA ChildFields ==
  ASSUME NEW ch \in ChildType, NEW p \in Processes
  PROVE  /\ ch[p].state \in {"none", "alive", "killed", "crashed", "gone"}
         /\ ch[p].in \in Seq(Cells) /\ ch[p].out \in Seq(Line) /\ ch[p].memory \subseteq Cells
         /\ ch[p].sigint \in BOOLEAN /\ ch[p].took \subseteq Cells
BY DEF ChildType, Child

\* A cell is told what became of it: it waits no more, and nothing else changes.
LEMMA ToldDoes ==
  ASSUME TypeOK, NEW c \in Cells, NEW of \in Cells \union {None},
         NEW told \in {"output", "kept", "interrupted", "lost", "stopped", "failed"},
         cell' = Told(c, told, of)
  PROVE  /\ cell' \in CellType
         /\ cell'[c].at = "done" /\ cell'[c].told = told /\ cell'[c].of = of
         /\ \A d \in Cells : cell'[d].strayed = cell[d].strayed
         /\ \A d \in Cells \ {c} : cell'[d] = cell[d]
<1>. DEFINE k1 == [cell EXCEPT ![c].at = "done"]
            k2 == [k1 EXCEPT ![c].told = told]
            k3 == [k2 EXCEPT ![c].of = of]
<1>1. cell' = k3
  BY DEF Told
<1>2. /\ k1 \in CellType /\ k1[c].at = "done" /\ k1[c].strayed = cell[c].strayed
      /\ \A d \in Cells \ {c} : k1[d] = cell[d]
  BY DEF TypeOK, CellType
<1>. HIDE DEF k1
<1>3. /\ k2 \in CellType /\ k2[c].at = "done" /\ k2[c].told = told /\ k2[c].strayed = cell[c].strayed
      /\ \A d \in Cells \ {c} : k2[d] = cell[d]
  BY <1>2 DEF CellType
<1>. HIDE DEF k2
<1>4. /\ k3 \in CellType /\ k3[c].at = "done" /\ k3[c].told = told /\ k3[c].of = of
      /\ k3[c].strayed = cell[c].strayed /\ \A d \in Cells \ {c} : k3[d] = cell[d]
  BY <1>3 DEF CellType
<1>. QED
  BY <1>1, <1>4

\* The interpreter in use is killed: what it was to do is gone, what it said is on its way.
LEMMA KilledDoes ==
  ASSUME NEW ch \in ChildType, process \in Processes
  PROVE  /\ Killed(ch) \in ChildType
         /\ Killed(ch)[process].state = (IF ch[process].state = "alive" THEN "killed" ELSE ch[process].state)
         /\ Killed(ch)[process].in = <<>> /\ Killed(ch)[process].out = ch[process].out
         /\ Killed(ch)[process].took = ch[process].took
         /\ \A q \in Processes \ {process} : Killed(ch)[q] = ch[q]
<1>. DEFINE p == process
            nothing == <<>>
            k1 == [ch EXCEPT ![p].state = IF @ = "alive" THEN "killed" ELSE @]
            k2 == [k1 EXCEPT ![p].in = nothing]
            k3 == [k2 EXCEPT ![p].sigint = FALSE]
            k4 == [k3 EXCEPT ![p].memory = {}]
<1>1. Killed(ch) = k4
  BY NoneIsNoProcess DEF Killed
<1>2. /\ k1 \in ChildType /\ k1[p].state = (IF ch[p].state = "alive" THEN "killed" ELSE ch[p].state)
      /\ k1[p].out = ch[p].out /\ k1[p].took = ch[p].took
      /\ \A q \in Processes \ {p} : k1[q] = ch[q]
  BY DEF ChildType, Child
<1>. HIDE DEF k1
<1>0. nothing = <<>> /\ nothing \in Seq(Cells)
  OBVIOUS
<1>. HIDE DEF nothing
<1>3. /\ k2 \in ChildType /\ k2[p].state = k1[p].state /\ k2[p].in = nothing
      /\ k2[p].out = k1[p].out /\ k2[p].took = k1[p].took
      /\ \A q \in Processes \ {p} : k2[q] = k1[q]
  BY ZenonT(30), <1>0, <1>2 DEF ChildType, Child
<1>. HIDE DEF k2
<1>4. /\ k3 \in ChildType /\ k3[p].state = k2[p].state /\ k3[p].in = nothing
      /\ k3[p].out = k2[p].out /\ k3[p].took = k2[p].took
      /\ \A q \in Processes \ {p} : k3[q] = k2[q]
  BY ZenonT(30), <1>3 DEF ChildType, Child
<1>. HIDE DEF k3
<1>5. /\ k4 \in ChildType /\ k4[p].state = k3[p].state /\ k4[p].in = nothing
      /\ k4[p].out = k3[p].out /\ k4[p].took = k3[p].took
      /\ \A q \in Processes \ {p} : k4[q] = k3[q]
  BY ZenonT(30), <1>4 DEF ChildType, Child
<1>. QED
  BY <1>0, <1>1, <1>2, <1>3, <1>4, <1>5

\* kernel.stop() keeps what is known of the interpreters.
LEMMA StoppedKeeps ==
  ASSUME TypeOK, NEW ch \in ChildType, Kept(process, ch), Stopped(ch),
         process # None => ch[process].state # "none"
  PROVE  /\ process' = None /\ variables' = {} /\ child' \in ChildType
         /\ \A p \in Processes : child'[p].took = ch[p].took
         /\ \A p \in Processes : ch[p].state = "gone" => child'[p].state = "gone"
         /\ Kept(process', child') /\ Held(process', child')
         /\ \A c \in Cells : \A p \in Processes : Own(c, p, process, ch) => Own(c, p, process', child')
<1>1. process' = None /\ variables' = {} /\ child' = Killed(ch)
  BY DEF Stopped
<1>2. CASE process = None
  <2>1. child' = ch
    BY <1>1, <1>2 DEF Killed
  <2>. QED
    BY <1>1, <1>2, <2>1 DEF Held
<1>3. CASE process \in Processes
  <2>1. /\ child' \in ChildType
        /\ child'[process].state = (IF ch[process].state = "alive" THEN "killed" ELSE ch[process].state)
        /\ child'[process].in = <<>> /\ child'[process].out = ch[process].out
        /\ child'[process].took = ch[process].took
        /\ \A q \in Processes \ {process} : child'[q] = ch[q]
    BY <1>1, <1>3, KilledDoes
  <2>2. \A p \in Processes : child'[p].took = ch[p].took
    BY <2>1
  <2>3. \A p \in Processes : ch[p].state = "gone" => child'[p].state = "gone"
    BY <2>1
  <2>4. Kept(process', child')
    <3>1. child'[process].state \notin {"none", "alive"}
      BY <1>3, <2>1, NoneIsNoProcess
    <3>2. \A p \in Processes \ {process} : child'[p].state # "alive"
      BY <2>1 DEF Kept
    <3>. QED
      BY <2>1, <3>1, <3>2 DEF Kept
  <2>5. Held(process', child')
    BY <1>1 DEF Held
  <2>6. ASSUME NEW c \in Cells, NEW p \in Processes, Own(c, p, process, ch)
        PROVE  Own(c, p, process', child')
    <3>1. process = p
      BY <1>3, <2>6, NoneIsNoProcess DEF Own
    <3>2. HasOnly(child'[p], c)
      BY <2>1, <2>6, <3>1 DEF Own, HasOnly
    <3>3. child'[p].state # "none" /\ c \in child'[p].took
      BY <2>1, <2>6, <3>1 DEF Own
    <3>. QED
      BY <1>1, <2>1, <2>6, <3>1, <3>2, <3>3 DEF Own
  <2>. QED
    BY <1>1, <2>1, <2>2, <2>3, <2>4, <2>5, <2>6
<1>. QED
  BY <1>2, <1>3 DEF TypeOK

\* One interpreter in use, or one whose line is taken, changes: what is known of it remains, if it
\* holds no more than it did.
LEMMA ChildKeeps ==
  ASSUME TypeOK, Kept(process, child), Held(process, child), NEW p \in Processes,
         process = p \/ child[p].out # <<>>,
         process' = process, child' \in ChildType,
         \A q \in Processes \ {p} : child'[q] = child[q],
         child'[p].took = child[p].took, child[p].state # "none",
         \/ child'[p].state = child[p].state
         \/ child[p].state = "alive" /\ child'[p].state = "crashed",
         \A c \in Cells : HasOnly(child[p], c) => HasOnly(child'[p], c)
  PROVE  /\ Kept(process', child') /\ Held(process', child')
         /\ \A c \in Cells : \A r \in Processes : Own(c, r, process, child) => Own(c, r, process', child')
<1>1. Kept(process', child')
  BY DEF Kept
<1>2. Held(process', child')
  BY DEF Held, TypeOK
<1>3. ASSUME NEW c \in Cells, NEW r \in Processes, Own(c, r, process, child)
      PROVE  Own(c, r, process', child')
  <2>1. r = p
    BY <1>3, NoneIsNoProcess DEF Own
  <2>. QED
    BY <1>3, <2>1 DEF Own
<1>. QED
  BY <1>1, <1>2, <1>3

\* The cells that wait are among those that did, and their interpreters are as before.
LEMMA ApartKept ==
  ASSUME Apart, Waiting' \subseteq Waiting,
         \A c \in Cells : cell'[c].strayed = cell[c].strayed,
         \A c \in Cells : \A p \in Processes : Own(c, p, process, child) => Own(c, p, process', child')
  PROVE  Apart'
<1>. SUFFICES ASSUME NEW c \in Waiting', ~cell'[c].strayed
              PROVE  \E p \in Processes : Own(c, p, process', child')
  BY DEF Apart
<1>1. c \in Waiting /\ c \in Cells /\ ~cell[c].strayed
  BY DEF Waiting
<1>. QED
  BY <1>1 DEF Apart

\* Cells that had their turn end, and the queue is as before.
LEMMA OrderedKept ==
  ASSUME TypeOK, Ordered, queue' = queue, \A p \in Processes : child'[p].took = child[p].took,
         \A d \in Cells : \/ cell'[d].at = cell[d].at
                          \/ cell[d].at # "queued" /\ cell'[d].at \notin {"idle", "queued"}
  PROVE  Ordered'
<1>1. ASSUME NEW i \in 1 .. Len(queue) PROVE cell'[queue[i]].at = "queued"
  <2>1. queue[i] \in Cells /\ cell[queue[i]].at = "queued"
    BY DEF TypeOK, Ordered
  <2>. QED
    BY <2>1
<1>2. ASSUME NEW p \in Processes, NEW c \in child'[p].took PROVE cell'[c].at \notin {"idle", "queued"}
  <2>1. c \in child[p].took /\ c \in Cells
    BY <1>2, ChildFields DEF TypeOK
  <2>2. cell[c].at \notin {"idle", "queued"}
    BY <2>1 DEF Ordered
  <2>. QED
    BY <2>1, <2>2
<1>. QED
  BY <1>1, <1>2 DEF Ordered

\* Nothing changes but one cell that waited, and is told.
LEMMA ToldKeeps ==
  ASSUME TypeOK, Ordered, Apart, queue' = queue, NEW c \in Waiting, NEW of \in Cells \union {None},
         NEW told \in {"output", "kept", "interrupted", "lost", "stopped", "failed"},
         cell' = Told(c, told, of),
         \A p \in Processes : child'[p].took = child[p].took,
         \A d \in Cells : \A p \in Processes : Own(d, p, process, child) => Own(d, p, process', child')
  PROVE  Ordered' /\ Apart' /\ cell' \in CellType
<1>0. c \in Cells /\ cell[c].at \in {"running", "interrupting"}
  BY DEF Waiting
<1>1. /\ cell' \in CellType /\ cell'[c].at = "done"
      /\ \A d \in Cells : cell'[d].strayed = cell[d].strayed
      /\ \A d \in Cells \ {c} : cell'[d] = cell[d]
  BY <1>0, ToldDoes
<1>2. Ordered'
  <2>1. \A d \in Cells : \/ cell'[d].at = cell[d].at
                         \/ cell[d].at # "queued" /\ cell'[d].at \notin {"idle", "queued"}
    BY <1>0, <1>1
  <2>. QED
    BY <2>1, OrderedKept
<1>3. Waiting' \subseteq Waiting
  BY <1>1 DEF Waiting
<1>4. Apart'
  BY <1>1, <1>3, ApartKept
<1>. QED
  BY <1>1, <1>2, <1>4

-----------------------------------------------------------------------------
(* The actions.                                                             *)

LEMMA RunKeeps ==
  ASSUME Inv, NEW c \in Cells, Run(c)
  PROVE  Inv'
<1>. USE DEF Inv
<1>1. /\ cell[c].at = "idle" /\ cell' = [cell EXCEPT ![c].at = "queued"] /\ queue' = Append(queue, c)
      /\ process' = process /\ child' = child /\ variables' = variables
  BY DEF Run
<1>2. /\ cell' \in CellType /\ cell'[c].at = "queued" /\ \A d \in Cells \ {c} : cell'[d] = cell[d]
      /\ \A d \in Cells : cell'[d].strayed = cell[d].strayed
  BY <1>1 DEF TypeOK, CellType
<1>3. TypeOK'
  BY <1>1, <1>2 DEF TypeOK
<1>4. Ordered'
  <2>1. Len(queue') = Len(queue) + 1 /\ queue'[Len(queue) + 1] = c
    BY <1>1 DEF TypeOK
  <2>2. \A i \in 1 .. Len(queue) : queue'[i] = queue[i] /\ queue[i] \in Cells \ {c}
    BY <1>1 DEF TypeOK, Ordered
  <2>3. \A i \in 1 .. Len(queue') : cell'[queue'[i]].at = "queued"
    <3>. SUFFICES ASSUME NEW i \in 1 .. Len(queue') PROVE cell'[queue'[i]].at = "queued"
      OBVIOUS
    <3>1. CASE i = Len(queue) + 1
      BY <1>2, <2>1, <3>1
    <3>2. CASE i # Len(queue) + 1
      <4>1. i \in 1 .. Len(queue)
        BY <2>1, <3>2 DEF TypeOK
      <4>. QED
        BY <1>2, <2>2, <4>1 DEF Ordered
    <3>. QED
      BY <3>1, <3>2
  <2>4. ASSUME NEW i \in 1 .. Len(queue'), NEW j \in 1 .. Len(queue'), queue'[i] = queue'[j]
        PROVE  i = j
    <3>1. (i \in 1 .. Len(queue) \/ i = Len(queue) + 1) /\ (j \in 1 .. Len(queue) \/ j = Len(queue) + 1)
      BY <2>1 DEF TypeOK
    <3>. QED
      BY <2>1, <2>2, <2>4, <3>1 DEF Ordered
  <2>5. \A p \in Processes : \A d \in child'[p].took : cell'[d].at \notin {"idle", "queued"}
    <3>. SUFFICES ASSUME NEW p \in Processes, NEW d \in child[p].took PROVE cell'[d].at \notin {"idle", "queued"}
      BY <1>1
    <3>1. d \in Cells /\ cell[d].at \notin {"idle", "queued"}
      BY ChildFields DEF TypeOK, Ordered
    <3>. QED
      BY <1>1, <1>2, <3>1
  <2>. QED
    BY <2>3, <2>4, <2>5 DEF Ordered
<1>5. Waiting' \subseteq Waiting
  BY <1>1, <1>2 DEF Waiting
<1>6. Apart'
  BY <1>1, <1>2, <1>5, ApartKept
<1>. QED
  BY <1>1, <1>3, <1>4, <1>6

\* The queue without its head, whose turn has come.
LEMMA TailOrdered ==
  ASSUME TypeOK, Ordered, queue # <<>>, queue' = Tail(queue), cell' \in CellType,
         \A d \in Cells \ {Head(queue)} : cell'[d] = cell[d],
         cell'[Head(queue)].at \notin {"idle", "queued"},
         \A p \in Processes : child'[p].took \subseteq child[p].took \union {Head(queue)}
  PROVE  Ordered' /\ Head(queue) \in Cells /\ cell[Head(queue)].at = "queued" /\ queue' \in Seq(Cells)
<1>1. /\ Head(queue) = queue[1] /\ 1 \in 1 .. Len(queue) /\ Head(queue) \in Cells
      /\ Len(queue') = Len(queue) - 1 /\ queue' \in Seq(Cells)
      /\ \A i \in 1 .. Len(queue') : queue'[i] = queue[i + 1] /\ i + 1 \in 1 .. Len(queue)
  BY DEF TypeOK
<1>2. cell[Head(queue)].at = "queued"
  BY <1>1 DEF Ordered
<1>3. ASSUME NEW i \in 1 .. Len(queue') PROVE cell'[queue'[i]].at = "queued"
  <2>1. queue'[i] = queue[i + 1] /\ i + 1 \in 1 .. Len(queue) /\ i + 1 # 1
    BY <1>1
  <2>2. queue[i + 1] # Head(queue) /\ queue[i + 1] \in Cells
    BY <1>1, <2>1 DEF Ordered, TypeOK
  <2>. QED
    BY <2>1, <2>2 DEF Ordered
<1>4. \A i, j \in 1 .. Len(queue') : queue'[i] = queue'[j] => i = j
  <2>. SUFFICES ASSUME NEW i \in 1 .. Len(queue'), NEW j \in 1 .. Len(queue'), queue'[i] = queue'[j]
                PROVE  i = j
    OBVIOUS
  <2>1. i + 1 = j + 1
    BY <1>1 DEF Ordered
  <2>. QED
    BY <2>1
<1>5. ASSUME NEW p \in Processes, NEW d \in child'[p].took PROVE cell'[d].at \notin {"idle", "queued"}
  <2>1. CASE d = Head(queue)
    BY <2>1
  <2>2. CASE d # Head(queue)
    <3>1. d \in child[p].took /\ d \in Cells
      BY <1>5, <2>2, ChildFields DEF TypeOK
    <3>. QED
      BY <2>2, <3>1 DEF Ordered
  <2>. QED
    BY <2>1, <2>2
<1>. QED
  BY <1>1, <1>2, <1>3, <1>4, <1>5 DEF Ordered

LEMMA StartFailsKeeps ==
  ASSUME Inv, StartFails
  PROVE  Inv'
<1>. USE DEF Inv
<1>. DEFINE c == Head(queue)
<1>1. /\ queue # <<>> /\ cell' = Told(c, "failed", None) /\ queue' = Tail(queue)
      /\ process' = process /\ child' = child /\ variables' = variables
  BY DEF StartFails, MayStart
<1>2. c \in Cells
  BY <1>1 DEF TypeOK
<1>. HIDE DEF c
<1>3. /\ cell' \in CellType /\ cell'[c].at = "done"
      /\ \A d \in Cells : cell'[d].strayed = cell[d].strayed
      /\ \A d \in Cells \ {c} : cell'[d] = cell[d]
  BY <1>1, <1>2, ToldDoes
<1>4. Ordered' /\ queue' \in Seq(Cells)
  BY <1>1, <1>3, TailOrdered DEF c
<1>5. TypeOK'
  BY <1>1, <1>3, <1>4 DEF TypeOK
<1>6. Waiting' \subseteq Waiting
  BY <1>3 DEF Waiting
<1>7. Apart'
  BY <1>1, <1>3, <1>6, ApartKept
<1>. QED
  BY <1>1, <1>4, <1>5, <1>7

\* An interpreter is given a cell: started if it was not, and written the code.
LEMMA TakesDoes ==
  ASSUME TypeOK, NEW p \in Processes, NEW c \in Cells,
         child' = [child EXCEPT ![p].state = IF @ = "none" THEN "alive" ELSE @,
                                ![p].in = Append(@, c), ![p].took = @ \union {c}]
  PROVE  /\ child' \in ChildType
         /\ child'[p].state = (IF child[p].state = "none" THEN "alive" ELSE child[p].state)
         /\ child'[p].in = Append(child[p].in, c) /\ child'[p].out = child[p].out
         /\ child'[p].memory = child[p].memory
         /\ child'[p].took = child[p].took \union {c}
         /\ \A q \in Processes \ {p} : child'[q] = child[q]
<1>. DEFINE k1 == [child EXCEPT ![p].state = IF @ = "none" THEN "alive" ELSE @]
            x == Append(child[p].in, c)
            k2 == [k1 EXCEPT ![p].in = x]
            k3 == [k2 EXCEPT ![p].took = @ \union {c}]
<1>0. x \in Seq(Cells)
  BY ChildFields DEF TypeOK
<1>2. /\ k1 \in ChildType /\ k1[p].state = (IF child[p].state = "none" THEN "alive" ELSE child[p].state)
      /\ k1[p].in = child[p].in /\ k1[p].out = child[p].out /\ k1[p].memory = child[p].memory
      /\ k1[p].took = child[p].took
      /\ \A q \in Processes \ {p} : k1[q] = child[q]
  BY DEF TypeOK, ChildType, Child
<1>1. child' = k3
  BY <1>2 DEF TypeOK, ChildType, Child
<1>. HIDE DEF k1, x
<1>3. /\ k2 \in ChildType /\ k2[p].state = k1[p].state
      /\ k2[p].in = x /\ k2[p].out = k1[p].out /\ k2[p].memory = k1[p].memory
      /\ k2[p].took = k1[p].took
      /\ \A q \in Processes \ {p} : k2[q] = k1[q]
  BY <1>0, <1>2 DEF ChildType, Child
<1>. HIDE DEF k2
<1>4. /\ k3 \in ChildType /\ k3[p].state = k2[p].state
      /\ k3[p].in = k2[p].in /\ k3[p].out = k2[p].out /\ k3[p].memory = k2[p].memory
      /\ k3[p].took = k2[p].took \union {c}
      /\ \A q \in Processes \ {p} : k3[q] = k2[q]
  BY <1>3 DEF ChildType, Child
<1>5. /\ k3[p].state = (IF child[p].state = "none" THEN "alive" ELSE child[p].state)
      /\ k3[p].in = x /\ k3[p].out = child[p].out /\ k3[p].memory = child[p].memory
      /\ k3[p].took = child[p].took \union {c}
      /\ \A q \in Processes \ {p} : k3[q] = child[q]
  BY <1>2, <1>3, <1>4
<1>. HIDE DEF k3
<1>. QED
  BY <1>1, <1>4, <1>5 DEF x

\* The cell that starts, and its interpreter.
Starts(c, p) ==
  /\ IF process # None THEN p = process ELSE child[p].state = "none"
  /\ process' = p /\ child' \in ChildType
  /\ child'[p].state = (IF child[p].state = "none" THEN "alive" ELSE child[p].state)
  /\ child'[p].in = Append(child[p].in, c) /\ child'[p].out = child[p].out
  /\ child'[p].memory = child[p].memory
  /\ child'[p].took = child[p].took \union {c}
  /\ \A q \in Processes \ {p} : child'[q] = child[q]
  /\ cell' \in CellType /\ cell'[c].at = "running"
  /\ cell'[c].strayed = (\E q \in Processes : Remains(q))
  /\ \A d \in Cells \ {c} : cell'[d] = cell[d]

LEMMA StartsDoes ==
  ASSUME Inv, StartCell
  PROVE  /\ Waiting = {} /\ queue # <<>> /\ Head(queue) \in Cells /\ queue' = Tail(queue)
         /\ variables' = (IF process = None THEN {} ELSE variables)
         /\ \E p \in Processes : Starts(Head(queue), p)
<1>. USE DEF Inv
<1>1. /\ Waiting = {} /\ queue # <<>> /\ queue' = Tail(queue)
      /\ variables' = (IF process = None THEN {} ELSE variables)
  BY DEF StartCell, MayStart
<1>2. Head(queue) \in Cells
  BY <1>1 DEF TypeOK
<1>3. PICK p \in Processes :
        /\ IF process # None THEN p = process ELSE child[p].state = "none"
        /\ process' = p
        /\ child' = [child EXCEPT ![p].state = IF @ = "none" THEN "alive" ELSE @,
                                  ![p].in = Append(@, Head(queue)), ![p].took = @ \union {Head(queue)}]
        /\ cell' = [cell EXCEPT ![Head(queue)].at = "running",
                                ![Head(queue)].strayed = \E q \in Processes : Remains(q)]
  BY DEF StartCell
<1>. DEFINE c == Head(queue)
            s == \E q \in Processes : Remains(q)
            k1 == [cell EXCEPT ![c].at = "running"]
            k2 == [k1 EXCEPT ![c].strayed = s]
<1>4. cell' = k2
  BY <1>3
<1>5. s \in BOOLEAN
  OBVIOUS
<1>6. k1 \in CellType /\ k1[c].at = "running" /\ \A d \in Cells \ {c} : k1[d] = cell[d]
  BY <1>2 DEF TypeOK, CellType
<1>. HIDE DEF k1, s
<1>7. /\ k2 \in CellType /\ k2[c].at = k1[c].at /\ k2[c].strayed = s
      /\ \A d \in Cells \ {c} : k2[d] = k1[d]
  BY <1>2, <1>5, <1>6 DEF CellType
<1>8. /\ cell' \in CellType /\ cell'[c].at = "running" /\ cell'[c].strayed = s
      /\ \A d \in Cells \ {c} : cell'[d] = cell[d]
  BY <1>4, <1>6, <1>7
<1>9. /\ child' \in ChildType
      /\ child'[p].state = (IF child[p].state = "none" THEN "alive" ELSE child[p].state)
      /\ child'[p].in = Append(child[p].in, c) /\ child'[p].out = child[p].out
      /\ child'[p].memory = child[p].memory
      /\ child'[p].took = child[p].took \union {c}
      /\ \A q \in Processes \ {p} : child'[q] = child[q]
  BY <1>2, <1>3, TakesDoes
<1>10. Starts(c, p)
  BY <1>3, <1>8, <1>9 DEF Starts, s
<1>. QED
  BY <1>1, <1>2, <1>10

LEMMA StartCellKeeps ==
  ASSUME Inv, StartCell
  PROVE  Inv'
<1>. USE DEF Inv
<1>. DEFINE c == Head(queue)
<1>1. /\ Waiting = {} /\ queue # <<>> /\ c \in Cells /\ queue' = Tail(queue)
      /\ variables' = (IF process = None THEN {} ELSE variables)
  BY StartsDoes
<1>2. PICK p \in Processes : Starts(c, p)
  BY StartsDoes
<1>3. Ordered' /\ queue' \in Seq(Cells)
  <2>1. /\ cell' \in CellType /\ \A d \in Cells \ {Head(queue)} : cell'[d] = cell[d]
        /\ cell'[Head(queue)].at \notin {"idle", "queued"}
    BY <1>2 DEF Starts
  <2>2. \A q \in Processes : child'[q].took \subseteq child[q].took \union {Head(queue)}
    BY <1>2 DEF Starts
  <2>. QED
    BY <1>1, <2>1, <2>2, TailOrdered
<1>. HIDE DEF c
<1>4. TypeOK'
  BY <1>1, <1>2, <1>3 DEF TypeOK, Starts
<1>5. child[p].state = "none" \/ (process = p /\ child[p].state \in {"alive", "crashed"})
  <2>1. IF process # None THEN p = process ELSE child[p].state = "none"
    BY <1>2 DEF Starts
  <2>2. CASE process = None
    BY <2>1, <2>2
  <2>3. CASE process # None
    <3>1. process = p
      BY <2>1, <2>3
    <3>2. Held(process, child)
      OBVIOUS
    <3>. QED
      BY <2>3, <3>1, <3>2 DEF Held
  <2>. QED
    BY <2>2, <2>3
<1>6. Kept(process', child')
  <2>1. child'[p].state \in {"alive", "crashed"}
    BY <1>2, <1>5 DEF Starts
  <2>2. ASSUME NEW q \in Processes \ {p} PROVE child[q].state # "alive"
    BY <1>2, <1>5, NoneIsNoProcess DEF Kept, Starts
  <2>3. \A q \in Processes \ {p} : child'[q] = child[q]
    BY <1>2 DEF Starts
  <2>. QED
    BY <1>2, <2>1, <2>2, <2>3 DEF Kept, Starts
<1>7. Held(process', child')
  BY <1>2, <1>5 DEF Held, Starts
<1>8. ASSUME ~cell'[c].strayed
      PROVE  Own(c, p, process', child') /\ child[p].in = <<>> /\ child[p].out = <<>>
  <2>1. \A q \in Processes : ~Remains(q)
    BY <1>2, <1>8 DEF Starts
  <2>2. child[p].in = <<>> /\ child[p].out = <<>>
    <3>1. CASE child[p].state = "none"
      BY <3>1 DEF Kept, NotStarted
    <3>2. CASE process = p
      BY <2>1, <3>2 DEF Remains
    <3>. QED
      BY <1>5, <3>1, <3>2
  <2>3. child'[p].in = <<c>> /\ child'[p].out = <<>>
    BY <1>1, <1>2, <2>2 DEF Starts
  <2>4. child'[p].state # "none" /\ c \in child'[p].took /\ process' = p
    BY <1>2, <1>5 DEF Starts
  <2>5. ASSUME NEW q \in Processes \ {p} PROVE child'[q].out = <<>> /\ child'[q].state \notin {"killed", "crashed"}
    <3>1. child'[q] = child[q]
      BY <1>2 DEF Starts
    <3>2. child[q].out = <<>>
      BY <2>1 DEF Remains
    <3>3. process # q
      BY <1>2, NoneIsNoProcess DEF Starts
    <3>4. child[q].state \notin {"killed", "crashed"}
      BY <2>1, <3>3 DEF Remains
    <3>. QED
      BY <3>1, <3>2, <3>4
  <2>. QED
    BY <2>2, <2>3, <2>4, <2>5 DEF Own, HasOnly
<1>9. Waiting' \subseteq {c}
  BY <1>1, <1>2 DEF Waiting, Starts
<1>10. Apart'
  BY <1>8, <1>9 DEF Apart
<1>. QED
  BY <1>3, <1>4, <1>6, <1>7, <1>10

\* One field of one interpreter.
LEMMA SigintDoes ==
  ASSUME TypeOK, NEW p \in Processes, NEW b \in BOOLEAN, child' = [child EXCEPT ![p].sigint = b]
  PROVE  /\ child' \in ChildType
         /\ child'[p].state = child[p].state /\ child'[p].in = child[p].in /\ child'[p].out = child[p].out
         /\ child'[p].memory = child[p].memory /\ child'[p].took = child[p].took
         /\ \A q \in Processes \ {p} : child'[q] = child[q]
BY DEF TypeOK, ChildType, Child

\* The interpreter in use is told to interrupt its code.
LEMMA SigintKeeps ==
  ASSUME Inv, NEW p \in Processes, process = p, process' = process,
         NEW b \in BOOLEAN, child' = [child EXCEPT ![p].sigint = b]
  PROVE  /\ child' \in ChildType /\ Kept(process', child') /\ Held(process', child')
         /\ \A q \in Processes : child'[q].took = child[q].took
         /\ \A d \in Cells : \A r \in Processes : Own(d, r, process, child) => Own(d, r, process', child')
<1>. USE DEF Inv
<1>1. /\ child' \in ChildType
      /\ child'[p].state = child[p].state /\ child'[p].in = child[p].in /\ child'[p].out = child[p].out
      /\ child'[p].took = child[p].took
      /\ \A q \in Processes \ {p} : child'[q] = child[q]
  BY SigintDoes
<1>2. \A d \in Cells : HasOnly(child[p], d) => HasOnly(child'[p], d)
  BY <1>1 DEF HasOnly
<1>3. child[p].state # "none"
  BY NoneIsNoProcess DEF Held
<1>4. /\ Kept(process', child') /\ Held(process', child')
      /\ \A d \in Cells : \A r \in Processes : Own(d, r, process, child) => Own(d, r, process', child')
  BY <1>1, <1>2, <1>3, ChildKeeps
<1>. QED
  BY <1>1, <1>4

LEMMA InterruptKeeps ==
  ASSUME Inv, NEW c \in Cells, Interrupt(c)
  PROVE  Inv'
<1>. USE DEF Inv
<1>1. cell[c].at = "running" /\ queue' = queue /\ process' = process /\ variables' = variables
  BY DEF Interrupt
<1>2. CASE process = None
  <2>1. cell' = Told(c, "stopped", None) /\ child' = child
    BY <1>2 DEF Interrupt
  <2>2. c \in Waiting
    BY <1>1 DEF Waiting
  <2>3. Ordered' /\ Apart' /\ cell' \in CellType
    BY <1>1, <2>1, <2>2, ToldKeeps
  <2>4. TypeOK'
    BY <1>1, <2>1, <2>3 DEF TypeOK
  <2>. QED
    BY <1>1, <2>1, <2>3, <2>4
<1>3. CASE process \in Processes
  <2>1. /\ cell' = [cell EXCEPT ![c].at = "interrupting"]
        /\ child' = [child EXCEPT ![process].sigint = child[process].state = "alive"]
    BY <1>3, NoneIsNoProcess DEF Interrupt
  <2>. DEFINE b == child[process].state = "alive"
  <2>2. b \in BOOLEAN /\ child' = [child EXCEPT ![process].sigint = b]
    BY <2>1
  <2>. HIDE DEF b
  <2>3. /\ child' \in ChildType /\ Kept(process', child') /\ Held(process', child')
        /\ \A q \in Processes : child'[q].took = child[q].took
        /\ \A d \in Cells : \A r \in Processes : Own(d, r, process, child) => Own(d, r, process', child')
    BY <1>1, <1>3, <2>2, SigintKeeps
  <2>4. /\ cell' \in CellType /\ cell'[c].at = "interrupting" /\ \A d \in Cells \ {c} : cell'[d] = cell[d]
        /\ \A d \in Cells : cell'[d].strayed = cell[d].strayed
    BY <2>1 DEF TypeOK, CellType
  <2>5. Ordered'
    <3>1. \A d \in Cells : \/ cell'[d].at = cell[d].at
                           \/ cell[d].at # "queued" /\ cell'[d].at \notin {"idle", "queued"}
      BY <1>1, <2>4
    <3>. QED
      BY <1>1, <2>3, <3>1, OrderedKept
  <2>6. Apart'
    <3>1. Waiting' \subseteq Waiting
      BY <1>1, <2>4 DEF Waiting
    <3>. QED
      BY <2>3, <2>4, <3>1, ApartKept
  <2>7. TypeOK'
    BY <1>1, <2>3, <2>4 DEF TypeOK
  <2>. QED
    BY <2>3, <2>5, <2>6, <2>7
<1>. QED
  BY <1>2, <1>3 DEF TypeOK

\* stop() alone: nobody is told.
LEMMA StopKeeps ==
  ASSUME Inv, Stopped(child), cell' = cell, queue' = queue
  PROVE  Inv'
<1>. USE DEF Inv
<1>1. process # None => child[process].state # "none"
  BY DEF Held
<1>2. /\ process' = None /\ variables' = {} /\ child' \in ChildType
      /\ \A p \in Processes : child'[p].took = child[p].took
      /\ Kept(process', child') /\ Held(process', child')
      /\ \A c \in Cells : \A p \in Processes : Own(c, p, process, child) => Own(c, p, process', child')
  BY <1>1, StoppedKeeps DEF TypeOK
<1>3. Ordered'
  BY <1>2, OrderedKept
<1>4. Apart'
  <2>1. Waiting' \subseteq Waiting
    BY DEF Waiting
  <2>. QED
    BY <1>2, <2>1, ApartKept
<1>5. TypeOK'
  BY <1>2 DEF TypeOK
<1>. QED
  BY <1>2, <1>3, <1>4, <1>5

LEMMA GraceEndsKeeps ==
  ASSUME Inv, NEW c \in Cells, GraceEnds(c)
  PROVE  Inv'
<1>. USE DEF Inv
<1>1. c \in Waiting /\ Stopped(child) /\ cell' = Told(c, "stopped", None) /\ queue' = queue
  BY DEF GraceEnds, Waiting
<1>2. process # None => child[process].state # "none"
  BY DEF Held
<1>3. /\ process' = None /\ variables' = {} /\ child' \in ChildType
      /\ \A p \in Processes : child'[p].took = child[p].took
      /\ Kept(process', child') /\ Held(process', child')
      /\ \A d \in Cells : \A p \in Processes : Own(d, p, process, child) => Own(d, p, process', child')
  BY <1>1, <1>2, StoppedKeeps DEF TypeOK
<1>4. Ordered' /\ Apart' /\ cell' \in CellType
  BY <1>1, <1>3, ToldKeeps
<1>5. TypeOK'
  BY <1>1, <1>3, <1>4 DEF TypeOK
<1>. QED
  BY <1>3, <1>4, <1>5

\* The cell an interpreter works on is over: its line is on its way.
LEMMA PrintsDoes ==
  ASSUME Inv, NEW p \in Processes, NEW cut \in BOOLEAN, Prints(p, cut)
  PROVE  \E line \in Line :
           /\ child[p].state = "alive" /\ child[p].in # <<>>
           /\ line.of = Head(child[p].in)
           /\ child' \in ChildType
           /\ child'[p].state = child[p].state /\ child'[p].took = child[p].took
           /\ child'[p].in = Tail(child[p].in) /\ child'[p].out = Append(child[p].out, line)
           /\ child'[p].memory = line.variables
           /\ \A q \in Processes \ {p} : child'[q] = child[q]
<1>. USE DEF Inv
<1>0. child[p].state = "alive" /\ child[p].in # <<>>
  BY DEF Prints
<1>. DEFINE c == Head(child[p].in)
<1>1. c \in Cells /\ Tail(child[p].in) \in Seq(Cells)
  BY <1>0, ChildFields DEF TypeOK
<1>2. PICK memory \in {child[p].memory \union {c}} \union (IF cut THEN {child[p].memory} ELSE {}) :
        child' = [child EXCEPT ![p].in = Tail(@), ![p].memory = memory,
                               ![p].sigint = @ /\ ~cut,
                               ![p].out = Append(@, [of |-> c, cut |-> cut, variables |-> memory])]
  BY DEF Prints
<1>3. memory \subseteq Cells
  BY <1>1, <1>2, ChildFields DEF TypeOK
<1>. DEFINE line == [of |-> c, cut |-> cut, variables |-> memory]
            rest == Tail(child[p].in)
            told == Append(child[p].out, line)
            b == child[p].sigint /\ ~cut
            k1 == [child EXCEPT ![p].in = rest]
            k2 == [k1 EXCEPT ![p].memory = memory]
            k3 == [k2 EXCEPT ![p].sigint = b]
            k4 == [k3 EXCEPT ![p].out = told]
<1>4. line \in Line /\ line.of = c /\ line.variables = memory
  BY <1>1, <1>3 DEF Line
<1>. HIDE DEF line, c
<1>5. told \in Seq(Line) /\ b \in BOOLEAN
  BY <1>4, ChildFields DEF TypeOK
<1>6. child' = k4
  BY <1>2 DEF TypeOK, ChildType, Child, line
<1>. HIDE DEF told, b, rest
<1>7. /\ k1 \in ChildType /\ k1[p].state = child[p].state /\ k1[p].took = child[p].took
      /\ k1[p].in = rest
      /\ \A q \in Processes \ {p} : k1[q] = child[q]
  BY <1>1 DEF TypeOK, ChildType, Child, rest
<1>. HIDE DEF k1
<1>8. /\ k2 \in ChildType /\ k2[p].state = k1[p].state /\ k2[p].took = k1[p].took
      /\ k2[p].in = k1[p].in /\ k2[p].memory = memory
      /\ \A q \in Processes \ {p} : k2[q] = k1[q]
  BY <1>3, <1>7 DEF ChildType, Child
<1>. HIDE DEF k2
<1>9. /\ k3 \in ChildType /\ k3[p].state = k2[p].state /\ k3[p].took = k2[p].took
      /\ k3[p].in = k2[p].in /\ k3[p].memory = k2[p].memory
      /\ \A q \in Processes \ {p} : k3[q] = k2[q]
  BY <1>5, <1>8 DEF ChildType, Child
<1>. HIDE DEF k3
<1>10. /\ k4 \in ChildType /\ k4[p].state = k3[p].state /\ k4[p].took = k3[p].took
       /\ k4[p].in = k3[p].in /\ k4[p].memory = k3[p].memory /\ k4[p].out = told
       /\ \A q \in Processes \ {p} : k4[q] = k3[q]
  BY <1>5, <1>9 DEF ChildType, Child
<1>. HIDE DEF k4
<1>11. /\ child' \in ChildType /\ child'[p].state = child[p].state /\ child'[p].took = child[p].took
       /\ child'[p].in = rest /\ child'[p].memory = memory /\ child'[p].out = told
       /\ \A q \in Processes \ {p} : child'[q] = child[q]
  BY <1>6, <1>7, <1>8, <1>9, <1>10
<1>. QED
  BY <1>0, <1>4, <1>11 DEF rest, told, c

\* Nothing but an interpreter changes: what is known of it is kept.
LEMMA NobodyTold ==
  ASSUME Inv, cell' = cell, queue' = queue, variables' = variables, process' = process,
         child' \in ChildType, Kept(process', child'), Held(process', child'),
         \A p \in Processes : child'[p].took = child[p].took,
         \A d \in Cells : \A p \in Processes : Own(d, p, process, child) => Own(d, p, process', child')
  PROVE  Inv'
<1>. USE DEF Inv
<1>1. Ordered'
  BY OrderedKept
<1>2. Apart'
  <2>1. Waiting' \subseteq Waiting
    BY DEF Waiting
  <2>. QED
    BY <2>1, ApartKept
<1>3. TypeOK'
  BY DEF TypeOK
<1>. QED
  BY <1>1, <1>2, <1>3

LEMMA PrintsKeeps ==
  ASSUME Inv, NEW p \in Processes, NEW cut \in BOOLEAN, Prints(p, cut)
  PROVE  Inv'
<1>. USE DEF Inv
<1>1. PICK line \in Line :
        /\ child[p].state = "alive" /\ child[p].in # <<>>
        /\ line.of = Head(child[p].in)
        /\ child' \in ChildType
        /\ child'[p].state = child[p].state /\ child'[p].took = child[p].took
        /\ child'[p].in = Tail(child[p].in) /\ child'[p].out = Append(child[p].out, line)
        /\ child'[p].memory = line.variables
        /\ \A q \in Processes \ {p} : child'[q] = child[q]
  BY PrintsDoes
<1>2. cell' = cell /\ queue' = queue /\ variables' = variables /\ process' = process
  BY DEF Prints
<1>3. ASSUME NEW c \in Cells, HasOnly(child[p], c) PROVE HasOnly(child'[p], c)
  <2>1. child[p].in = <<c>> /\ child[p].out = <<>>
    BY <1>1, <1>3 DEF HasOnly
  <2>2. Head(<<c>>) = c /\ Tail(<<c>>) = <<>> /\ Append(<<>>, line) = <<line>>
    OBVIOUS
  <2>3. child'[p].in = <<>> /\ child'[p].out = <<line>> /\ line.of = c
    BY <1>1, <2>1, <2>2
  <2>. QED
    BY <2>3 DEF HasOnly
<1>4. process = p
  BY <1>1 DEF Kept
<1>5. /\ Kept(process', child') /\ Held(process', child')
      /\ \A d \in Cells : \A r \in Processes : Own(d, r, process, child) => Own(d, r, process', child')
  BY <1>1, <1>2, <1>3, <1>4, ChildKeeps
<1>6. \A q \in Processes : child'[q].took = child[q].took
  BY <1>1
<1>. QED
  BY <1>1, <1>2, <1>5, <1>6, NobodyTold

\* An interpreter ends: of itself, or by an interrupt that met no code.
LEMMA CrashDoes ==
  ASSUME Inv, NEW p \in Processes, SigintArrives(p) \/ Crashes(p)
  PROVE  /\ child[p].state = "alive"
         /\ child' \in ChildType /\ child'[p].took = child[p].took /\ child'[p].out = child[p].out
         /\ \/ child'[p].state = "alive" /\ child'[p].in = child[p].in /\ child'[p].memory = child[p].memory
            \/ child'[p].state = "crashed" /\ child'[p].in = <<>>
         /\ \A q \in Processes \ {p} : child'[q] = child[q]
<1>. USE DEF Inv
<1>. DEFINE nothing == <<>>
            k1 == [child EXCEPT ![p].sigint = FALSE]
            k2 == [k1 EXCEPT ![p].state = "crashed"]
            k3 == [k2 EXCEPT ![p].memory = {}]
            k4 == [child EXCEPT ![p].state = "crashed"]
            k5 == [k4 EXCEPT ![p].in = nothing]
            k6 == [k5 EXCEPT ![p].sigint = FALSE]
            k7 == [k6 EXCEPT ![p].memory = {}]
<1>0. nothing = <<>> /\ nothing \in Seq(Cells)
  OBVIOUS
<1>1. child[p].state = "alive"
  BY DEF SigintArrives, Crashes
<1>2. child' = k1 \/ (child[p].in = nothing /\ child' = k3) \/ child' = k7
  BY DEF SigintArrives, Crashes
<1>. HIDE DEF nothing
<1>3. /\ k1 \in ChildType /\ k1[p].took = child[p].took /\ k1[p].out = child[p].out
      /\ k1[p].in = child[p].in /\ k1[p].state = child[p].state /\ k1[p].memory = child[p].memory
      /\ \A q \in Processes \ {p} : k1[q] = child[q]
  BY DEF TypeOK, ChildType, Child
<1>. HIDE DEF k1
<1>4. /\ k2 \in ChildType /\ k2[p].took = k1[p].took /\ k2[p].out = k1[p].out
      /\ k2[p].in = k1[p].in /\ k2[p].state = "crashed"
      /\ \A q \in Processes \ {p} : k2[q] = k1[q]
  BY <1>3 DEF ChildType, Child
<1>. HIDE DEF k2
<1>5. /\ k3 \in ChildType /\ k3[p].took = k2[p].took /\ k3[p].out = k2[p].out
      /\ k3[p].in = k2[p].in /\ k3[p].state = k2[p].state
      /\ \A q \in Processes \ {p} : k3[q] = k2[q]
  BY <1>4 DEF ChildType, Child
<1>. HIDE DEF k3
<1>6. /\ k4 \in ChildType /\ k4[p].took = child[p].took /\ k4[p].out = child[p].out
      /\ k4[p].state = "crashed"
      /\ \A q \in Processes \ {p} : k4[q] = child[q]
  BY DEF TypeOK, ChildType, Child
<1>. HIDE DEF k4
<1>7. /\ k5 \in ChildType /\ k5[p].took = k4[p].took /\ k5[p].out = k4[p].out
      /\ k5[p].in = nothing /\ k5[p].state = k4[p].state
      /\ \A q \in Processes \ {p} : k5[q] = k4[q]
  BY <1>0, <1>6 DEF ChildType, Child
<1>. HIDE DEF k5
<1>8. /\ k6 \in ChildType /\ k6[p].took = k5[p].took /\ k6[p].out = k5[p].out
      /\ k6[p].in = k5[p].in /\ k6[p].state = k5[p].state
      /\ \A q \in Processes \ {p} : k6[q] = k5[q]
  BY <1>7 DEF ChildType, Child
<1>. HIDE DEF k6
<1>9. /\ k7 \in ChildType /\ k7[p].took = k6[p].took /\ k7[p].out = k6[p].out
      /\ k7[p].in = k6[p].in /\ k7[p].state = k6[p].state
      /\ \A q \in Processes \ {p} : k7[q] = k6[q]
  BY <1>8 DEF ChildType, Child
<1>. HIDE DEF k7
<1>10. CASE child' = k1
  BY <1>1, <1>3, <1>10
<1>11. CASE child[p].in = nothing /\ child' = k3
  BY <1>0, <1>1, <1>3, <1>4, <1>5, <1>11
<1>12. CASE child' = k7
  BY <1>0, <1>1, <1>6, <1>7, <1>8, <1>9, <1>12
<1>. QED
  BY <1>2, <1>10, <1>11, <1>12

LEMMA CrashKeeps ==
  ASSUME Inv, NEW p \in Processes, SigintArrives(p) \/ Crashes(p)
  PROVE  Inv'
<1>. USE DEF Inv
<1>1. /\ child[p].state = "alive"
      /\ child' \in ChildType /\ child'[p].took = child[p].took /\ child'[p].out = child[p].out
      /\ \/ child'[p].state = "alive" /\ child'[p].in = child[p].in
         \/ child'[p].state = "crashed" /\ child'[p].in = <<>>
      /\ \A q \in Processes \ {p} : child'[q] = child[q]
  BY CrashDoes
<1>2. cell' = cell /\ queue' = queue /\ variables' = variables /\ process' = process
  BY DEF SigintArrives, Crashes
<1>3. ASSUME NEW c \in Cells, HasOnly(child[p], c) PROVE HasOnly(child'[p], c)
  BY <1>1, <1>3 DEF HasOnly
<1>4. process = p
  BY <1>1 DEF Kept
<1>5. /\ Kept(process', child') /\ Held(process', child')
      /\ \A d \in Cells : \A r \in Processes : Own(d, r, process, child) => Own(d, r, process', child')
  BY <1>1, <1>2, <1>3, <1>4, ChildKeeps
<1>6. \A q \in Processes : child'[q].took = child[q].took
  BY <1>1
<1>. QED
  BY <1>1, <1>2, <1>5, <1>6, NobodyTold

\* A line is taken from its interpreter.
LEMMA LineTaken ==
  ASSUME Inv, NEW p \in Processes, child[p].out # <<>>, process' = process,
         child' = [child EXCEPT ![p].out = Tail(@)]
  PROVE  /\ Head(child[p].out) \in Line
         /\ child' \in ChildType
         /\ child'[p].state = child[p].state /\ child'[p].in = child[p].in
         /\ child'[p].out = Tail(child[p].out) /\ child'[p].memory = child[p].memory
         /\ \A q \in Processes \ {p} : child'[q] = child[q]
         /\ \A q \in Processes : child'[q].took = child[q].took
         /\ Kept(process', child') /\ Held(process', child')
         /\ \A d \in Cells : \A r \in Processes : Own(d, r, process, child) => Own(d, r, process', child')
<1>. USE DEF Inv
<1>1. Head(child[p].out) \in Line /\ Tail(child[p].out) \in Seq(Line)
  BY ChildFields DEF TypeOK
<1>. DEFINE rest == Tail(child[p].out)
<1>2. child' = [child EXCEPT ![p].out = rest]
  OBVIOUS
<1>3. rest \in Seq(Line) /\ rest = Tail(child[p].out)
  BY <1>1
<1>. HIDE DEF rest
<1>4. /\ child' \in ChildType
      /\ child'[p].state = child[p].state /\ child'[p].in = child[p].in
      /\ child'[p].out = rest /\ child'[p].memory = child[p].memory
      /\ child'[p].took = child[p].took
      /\ \A q \in Processes \ {p} : child'[q] = child[q]
  <2>. DEFINE k == [child EXCEPT ![p].out = rest]
  <2>1. /\ k \in ChildType
        /\ k[p].state = child[p].state /\ k[p].in = child[p].in
        /\ k[p].out = rest /\ k[p].memory = child[p].memory
        /\ k[p].took = child[p].took
        /\ \A q \in Processes \ {p} : k[q] = child[q]
    BY <1>3 DEF TypeOK, ChildType, Child
  <2>2. child' = k
    BY <1>2
  <2>. HIDE DEF k
  <2>. QED
    BY <2>1, <2>2
<1>5. ASSUME NEW c \in Cells, HasOnly(child[p], c) PROVE HasOnly(child'[p], c)
  <2>1. PICK line \in Line : child[p].in = <<>> /\ child[p].out = <<line>>
    BY <1>5 DEF HasOnly
  <2>2. Tail(<<line>>) = <<>>
    OBVIOUS
  <2>3. child'[p].in = <<>> /\ child'[p].out = <<>>
    BY <1>3, <1>4, <2>1, <2>2
  <2>. QED
    BY <2>3 DEF HasOnly
<1>6. child[p].state # "none"
  BY DEF Kept, NotStarted
<1>7. /\ Kept(process', child') /\ Held(process', child')
      /\ \A d \in Cells : \A r \in Processes : Own(d, r, process, child) => Own(d, r, process', child')
  BY <1>4, <1>5, <1>6, ChildKeeps
<1>. QED
  BY <1>1, <1>3, <1>4, <1>7

LEMMA LineArrivesKeeps ==
  ASSUME Inv, NEW p \in Processes, LineArrives(p)
  PROVE  Inv'
<1>. USE DEF Inv
<1>1. /\ child[p].out # <<>> /\ process' = process /\ queue' = queue
      /\ child' = [child EXCEPT ![p].out = Tail(@)]
  BY DEF LineArrives
<1>2. /\ Head(child[p].out) \in Line
      /\ child' \in ChildType
      /\ \A q \in Processes : child'[q].took = child[q].took
      /\ Kept(process', child') /\ Held(process', child')
      /\ \A d \in Cells : \A r \in Processes : Own(d, r, process, child) => Own(d, r, process', child')
  BY <1>1, LineTaken
<1>3. CASE cell' = cell /\ variables' = variables
  BY <1>1, <1>2, <1>3, NobodyTold
<1>4. CASE ~(cell' = cell /\ variables' = variables)
  <2>. DEFINE line == Head(child[p].out)
  <2>1. PICK c \in Waiting :
          /\ cell' = Told(c, IF cell[c].at = "interrupting" THEN "kept"
                             ELSE IF line.cut THEN "interrupted" ELSE "output", line.of)
          /\ variables' = Notes(line)
    BY <1>4 DEF LineArrives
  <2>2. line.of \in Cells /\ line.variables \subseteq Cells
    BY <1>2 DEF Line
  <2>. HIDE DEF line
  <2>3. PICK told \in {"output", "kept", "interrupted"} : cell' = Told(c, told, line.of)
    BY <2>1
  <2>4. Ordered' /\ Apart' /\ cell' \in CellType
    BY <1>1, <1>2, <2>2, <2>3, ToldKeeps
  <2>5. TypeOK'
    BY <1>1, <1>2, <2>1, <2>2, <2>4 DEF TypeOK, Notes
  <2>. QED
    BY <1>2, <2>4, <2>5
<1>. QED
  BY <1>3, <1>4

\* An interpreter whose end is known is gone: what is known of the others stays true.
Gone(p) == [child EXCEPT ![p].state = "gone"]

LEMMA GoneKeeps ==
  ASSUME Inv, NEW p \in Processes, child[p].state \in {"killed", "crashed"},
         NEW pr \in {process, None}, process = p => pr = None
  PROVE  /\ Gone(p) \in ChildType /\ Gone(p)[p].state = "gone" /\ Gone(p)[p].out = child[p].out
         /\ \A q \in Processes : Gone(p)[q].took = child[q].took
         /\ \A q \in Processes \ {p} : Gone(p)[q] = child[q]
         /\ Kept(process, Gone(p)) /\ (pr = process => Held(pr, Gone(p)))
         /\ process = p => Kept(pr, Gone(p))
         /\ \A d \in Cells : \A r \in Processes : Own(d, r, process, child) =>
              Own(d, r, process, Gone(p)) /\ Own(d, r, pr, Gone(p))
<1>. USE DEF Inv
<1>1. /\ Gone(p) \in ChildType /\ Gone(p)[p].state = "gone" /\ Gone(p)[p].in = child[p].in /\ Gone(p)[p].out = child[p].out
      /\ \A q \in Processes : Gone(p)[q].took = child[q].took
      /\ \A q \in Processes \ {p} : Gone(p)[q] = child[q]
  BY DEF Gone, TypeOK, ChildType, Child
<1>2. Kept(process, Gone(p))
  BY <1>1 DEF Kept
<1>3. ASSUME process = p PROVE Kept(pr, Gone(p))
  BY <1>1, <1>3 DEF Kept
<1>4. ASSUME pr = process PROVE Held(pr, Gone(p))
  <2>1. pr # p
    BY <1>4, NoneIsNoProcess
  <2>. QED
    BY <1>1, <1>4, <2>1 DEF Held, TypeOK
<1>5. ASSUME NEW d \in Cells, NEW r \in Processes, Own(d, r, process, child)
      PROVE  Own(d, r, process, Gone(p)) /\ Own(d, r, pr, Gone(p))
  <2>1. HasOnly(Gone(p)[r], d)
    BY <1>1, <1>5 DEF Own, HasOnly
  <2>2. Gone(p)[r].state # "none" /\ d \in Gone(p)[r].took
    BY <1>1, <1>5 DEF Own
  <2>3. \A q \in Processes \ {r} : Gone(p)[q].out = <<>> /\ Gone(p)[q].state \notin {"killed", "crashed"}
    BY <1>1, <1>5 DEF Own
  <2>4. process \in {r, None} /\ pr \in {r, None}
    BY <1>5 DEF Own
  <2>. QED
    BY <2>1, <2>2, <2>3, <2>4 DEF Own
<1>. QED
  BY <1>1, <1>2, <1>3, <1>4, <1>5

\* What an exit does: the interpreter is gone, and forgotten if it was the one in use; whoever
\* waits is told, and one that was interrupted has the kernel stopped.
LEMMA ExitDoes ==
  ASSUME Inv, NEW p \in Processes, ExitArrives(p)
  PROVE  /\ child' \in ChildType /\ child'[p].state = "gone"
         /\ \A q \in Processes : child'[q].took = child[q].took
         /\ process' \in Processes \union {None} /\ variables' \subseteq Cells
         /\ Kept(process', child') /\ Held(process', child')
         /\ \A d \in Cells : \A r \in Processes : Own(d, r, process, child) => Own(d, r, process', child')
         /\ \/ cell' = cell
            \/ \E c \in Waiting : \E told \in {"lost", "stopped"} : cell' = Told(c, told, None)
<1>. USE DEF Inv
<1>. DEFINE pr == IF process = p THEN None ELSE process
<1>1. /\ child[p].state \in {"killed", "crashed"}
      /\ \/ /\ child' = Gone(p) /\ process' = pr /\ variables' \in {{}, variables}
            /\ \/ cell' = cell
               \/ \E c \in Waiting : cell' = Told(c, "lost", None)
         \/ Stopped(Gone(p)) /\ \E c \in Waiting : cell' = Told(c, "stopped", None)
  BY DEF ExitArrives, Gone
<1>2. pr \in {process, None} /\ (process = p => pr = None)
      /\ (process # p => pr = process)
  OBVIOUS
<1>. HIDE DEF pr
<1>3. /\ Gone(p) \in ChildType /\ Gone(p)[p].state = "gone"
      /\ \A q \in Processes : Gone(p)[q].took = child[q].took
      /\ \A q \in Processes \ {p} : Gone(p)[q] = child[q]
      /\ Kept(process, Gone(p)) /\ (pr = process => Held(pr, Gone(p)))
      /\ process = p => Kept(pr, Gone(p))
      /\ \A d \in Cells : \A r \in Processes : Own(d, r, process, child) =>
           Own(d, r, process, Gone(p)) /\ Own(d, r, pr, Gone(p))
  BY <1>1, <1>2, GoneKeeps
<1>4. CASE /\ child' = Gone(p) /\ process' = pr /\ variables' \in {{}, variables}
           /\ \/ cell' = cell
              \/ \E c \in Waiting : cell' = Told(c, "lost", None)
  <2>1. Kept(process', child')
    BY <1>2, <1>3, <1>4
  <2>2. Held(process', child')
    BY <1>2, <1>3, <1>4 DEF Held
  <2>3. process' \in Processes \union {None} /\ variables' \subseteq Cells
    BY <1>2, <1>4 DEF TypeOK
  <2>. QED
    BY <1>3, <1>4, <2>1, <2>2, <2>3
<1>5. CASE Stopped(Gone(p)) /\ \E c \in Waiting : cell' = Told(c, "stopped", None)
  <2>1. process # None => Gone(p)[process].state # "none"
    <3>. SUFFICES ASSUME process # None PROVE Gone(p)[process].state # "none"
      OBVIOUS
    <3>1. CASE process = p
      BY <1>3, <3>1
    <3>2. CASE process # p
      BY <1>3, <3>2 DEF Held, TypeOK
    <3>. QED
      BY <3>1, <3>2
  <2>2. /\ process' = None /\ variables' = {} /\ child' \in ChildType
        /\ \A q \in Processes : child'[q].took = Gone(p)[q].took
        /\ \A q \in Processes : Gone(p)[q].state = "gone" => child'[q].state = "gone"
        /\ Kept(process', child') /\ Held(process', child')
        /\ \A d \in Cells : \A r \in Processes : Own(d, r, process, Gone(p)) => Own(d, r, process', child')
    BY <1>3, <1>5, <2>1, StoppedKeeps
  <2>. QED
    BY <1>3, <1>5, <2>2
<1>. QED
  BY <1>1, <1>4, <1>5

LEMMA ExitArrivesKeeps ==
  ASSUME Inv, NEW p \in Processes, ExitArrives(p)
  PROVE  Inv'
<1>. USE DEF Inv
<1>1. /\ child' \in ChildType
      /\ \A q \in Processes : child'[q].took = child[q].took
      /\ process' \in Processes \union {None} /\ variables' \subseteq Cells
      /\ Kept(process', child') /\ Held(process', child')
      /\ \A d \in Cells : \A r \in Processes : Own(d, r, process, child) => Own(d, r, process', child')
  BY ExitDoes
<1>2. queue' = queue
  BY DEF ExitArrives
<1>3. Ordered' /\ Apart' /\ cell' \in CellType
  <2>1. CASE cell' = cell
    <3>1. Waiting' \subseteq Waiting
      BY <2>1 DEF Waiting
    <3>2. Apart'
      BY <1>1, <2>1, <3>1, ApartKept
    <3>3. Ordered'
      BY <1>1, <1>2, <2>1, OrderedKept
    <3>. QED
      BY <2>1, <3>2, <3>3 DEF TypeOK
  <2>2. CASE \E c \in Waiting : \E told \in {"lost", "stopped"} : cell' = Told(c, told, None)
    BY <1>1, <1>2, <2>2, ToldKeeps
  <2>. QED
    BY <2>1, <2>2, ExitDoes
<1>4. TypeOK'
  BY <1>1, <1>2, <1>3 DEF TypeOK
<1>. QED
  BY <1>1, <1>3, <1>4

LEMMA OverMemoryKeeps ==
  ASSUME Inv, OverMemory
  PROVE  Inv'
<1>. USE DEF Inv
<1>1. process \in Processes /\ cell' = cell /\ queue' = queue
  BY DEF OverMemory, TypeOK
<1>2. CASE Stopped(child)
  BY <1>1, <1>2, StopKeeps
<1>3. CASE process' = process /\ child' = child /\ variables' = variables
  BY <1>1, <1>3, NobodyTold DEF TypeOK
<1>4. CASE /\ process' = process /\ variables' = variables
           /\ child' = [child EXCEPT ![process].sigint = TRUE]
  <2>1. /\ child' \in ChildType /\ Kept(process', child') /\ Held(process', child')
        /\ \A q \in Processes : child'[q].took = child[q].took
        /\ \A d \in Cells : \A r \in Processes : Own(d, r, process, child) => Own(d, r, process', child')
    BY <1>1, <1>4, SigintKeeps
  <2>. QED
    BY <1>1, <1>4, <2>1, NobodyTold
<1>. QED
  BY <1>2, <1>3, <1>4 DEF OverMemory

\* The kernel object goes with its interpreters.
LEMMA ForgetDoes ==
  ASSUME Inv, Forget
  PROVE  /\ process' = None /\ variables' = {} /\ cell' = cell /\ queue' = queue
         /\ Waiting = {} /\ Waiting' = {}
         /\ child' \in ChildType
         /\ \A p \in Processes : child'[p].took = child[p].took
         /\ \A p \in Processes : child'[p].state # "alive"
         /\ \A p \in Processes : child'[p].state = "none" => child'[p] = child[p]
<1>. USE DEF Inv
<1>1. /\ process' = None /\ variables' = {} /\ cell' = cell /\ queue' = queue /\ Waiting = {}
      /\ child' = [p \in Processes |-> IF child[p].state = "none" THEN child[p]
                                       ELSE [Killed(child)[p] EXCEPT !.state = "gone", !.out = <<>>]]
  BY DEF Forget, busy
<1>2. Killed(child) \in ChildType /\ \A p \in Processes : Killed(child)[p].took = child[p].took
  <2>1. CASE process = None
    BY <2>1 DEF Killed, TypeOK
  <2>2. CASE process \in Processes
    <3>1. child \in ChildType
      BY DEF TypeOK
    <3>. QED
      BY <2>2, <3>1, KilledDoes
  <2>. QED
    BY <2>1, <2>2 DEF TypeOK
<1>3. ASSUME NEW p \in Processes
      PROVE  /\ child'[p] \in Child /\ child'[p].took = child[p].took
             /\ child'[p].state # "alive" /\ (child'[p].state = "none" => child'[p] = child[p])
  <2>1. CASE child[p].state = "none"
    BY <1>1, <2>1 DEF TypeOK, ChildType
  <2>2. CASE child[p].state # "none"
    <3>. DEFINE nothing == <<>>
                k0 == Killed(child)[p]
                k1 == [k0 EXCEPT !.state = "gone"]
                k2 == [k1 EXCEPT !.out = nothing]
    <3>1. nothing \in Seq(Line)
      OBVIOUS
    <3>2. child'[p] = k2
      BY <1>1, <2>2
    <3>3. k0 \in Child /\ k0.took = child[p].took
      BY <1>2 DEF ChildType
    <3>. HIDE DEF k0, nothing
    <3>4. k1 \in Child /\ k1.took = child[p].took /\ k1.state = "gone"
      BY <3>3 DEF Child
    <3>. HIDE DEF k1
    <3>5. k2 \in Child /\ k2.took = child[p].took /\ k2.state = "gone"
      BY <3>1, <3>4 DEF Child
    <3>. HIDE DEF k2
    <3>. QED
      BY <3>2, <3>5
  <2>. QED
    BY <2>1, <2>2
<1>4. child' \in ChildType
  BY <1>1, <1>3 DEF ChildType
<1>5. Waiting' = {}
  BY <1>1 DEF Waiting
<1>. QED
  BY <1>1, <1>3, <1>4, <1>5

LEMMA ForgetKeeps ==
  ASSUME Inv, Forget
  PROVE  Inv'
<1>. USE DEF Inv
<1>1. /\ process' = None /\ variables' = {} /\ cell' = cell /\ queue' = queue
      /\ Waiting' = {}
      /\ child' \in ChildType
      /\ \A p \in Processes : child'[p].took = child[p].took
      /\ \A p \in Processes : child'[p].state # "alive"
      /\ \A p \in Processes : child'[p].state = "none" => child'[p] = child[p]
  BY ForgetDoes
<1>2. Ordered'
  BY <1>1, OrderedKept
<1>3. Kept(process', child') /\ Held(process', child')
  BY <1>1 DEF Kept, Held
<1>4. Apart' /\ TypeOK'
  BY <1>1 DEF Apart, TypeOK
<1>. QED
  BY <1>2, <1>3, <1>4

\* Every step keeps the invariant.
LEMMA InvNext == Inv /\ [Next]_vars => Inv'
<1>. SUFFICES ASSUME Inv, [Next]_vars PROVE Inv'
  OBVIOUS
<1>1. ASSUME NEW c \in Cells, Run(c) PROVE Inv'
  BY <1>1, RunKeeps
<1>2. ASSUME NEW c \in Cells, Interrupt(c) PROVE Inv'
  BY <1>2, InterruptKeeps
<1>3. ASSUME NEW c \in Cells, GraceEnds(c) PROVE Inv'
  BY <1>3, GraceEndsKeeps
<1>4. CASE StartCell
  BY <1>4, StartCellKeeps
<1>5. CASE StartFails
  BY <1>5, StartFailsKeeps
<1>6. ASSUME NEW p \in Processes, NEW cut \in BOOLEAN, Prints(p, cut) PROVE Inv'
  BY <1>6, PrintsKeeps
<1>7. ASSUME NEW p \in Processes, SigintArrives(p) \/ Crashes(p) PROVE Inv'
  BY <1>7, CrashKeeps
<1>8. ASSUME NEW p \in Processes, LineArrives(p) PROVE Inv'
  BY <1>8, LineArrivesKeeps
<1>9. ASSUME NEW p \in Processes, ExitArrives(p) PROVE Inv'
  BY <1>9, ExitArrivesKeeps
<1>10. CASE OverMemory
  BY <1>10, OverMemoryKeeps
<1>11. CASE (\E p \in Processes : AnswersTheDead(p)) \/ WithinMemory \/ UNCHANGED vars
  <2>1. UNCHANGED <<cell, queue, process, child, variables>>
    BY <1>11 DEF AnswersTheDead, WithinMemory, vars
  <2>. QED
    BY <2>1 DEF Inv, TypeOK, Ordered, Apart, Waiting
<1>12. CASE Evict \/ Dispose
  BY <1>12, StopKeeps DEF Evict, Dispose
<1>13. CASE Forget
  BY <1>13, ForgetKeeps
<1>. QED
  BY <1>1, <1>2, <1>3, <1>4, <1>5, <1>6, <1>7, <1>8, <1>9, <1>10, <1>11, <1>12, <1>13 DEF Next

LEMMA InvAlways == Spec => []Inv
BY InvInit, InvNext, PTL DEF Spec

-----------------------------------------------------------------------------
(* What a cell is told.                                                     *)

\* A step that ends a cell tells it one of these.
Fair(c) ==
  CASE cell'[c].told = "output" -> cell'[c].of = c
    [] cell'[c].told = "kept" -> cell'[c].of = c
    [] cell'[c].told = "interrupted" -> cell'[c].of = c
    [] cell'[c].told = "lost" -> \E p \in Processes : c \in child[p].took /\ child'[p].state = "gone"
    [] OTHER -> cell'[c].told \in {"stopped", "failed"}

\* A cell that ends in a step with no line and no exit.
LEMMA EndsAlone ==
  ASSUME TypeOK, NEW c \in Cells, NEW d \in Cells, NEW told \in {"stopped", "failed"},
         cell' = Told(d, told, None), cell[c].at # "done", cell'[c].at = "done"
  PROVE  Fair(c)
<1>1. cell'[d].told = told /\ \A e \in Cells \ {d} : cell'[e] = cell[e]
  BY ToldDoes
<1>2. c = d
  BY <1>1
<1>. QED
  BY <1>1, <1>2 DEF Fair

LEMMA LineIsOwn ==
  ASSUME Inv, NEW p \in Processes, LineArrives(p), NEW c \in Cells,
         cell[c].at # "done", cell'[c].at = "done", ~cell[c].strayed
  PROVE  Fair(c)
<1>. USE DEF Inv
<1>. DEFINE line == Head(child[p].out)
<1>1. PICK d \in Waiting :
        cell' = Told(d, IF cell[d].at = "interrupting" THEN "kept"
                        ELSE IF line.cut THEN "interrupted" ELSE "output", line.of)
  BY DEF LineArrives
<1>2. child[p].out # <<>> /\ line \in Line
  <2>1. child[p].out # <<>>
    BY DEF LineArrives
  <2>. QED
    BY <2>1, ChildFields DEF TypeOK
<1>3. PICK told \in {"output", "kept", "interrupted"} : cell' = Told(d, told, line.of)
  BY <1>1
<1>4. d \in Cells /\ line.of \in Cells
  BY <1>2 DEF Waiting, Line
<1>. HIDE DEF line
<1>5. cell'[d].told = told /\ cell'[d].of = line.of /\ \A e \in Cells \ {d} : cell'[e] = cell[e]
  BY <1>3, <1>4, ToldDoes
<1>6. c = d
  BY <1>5
<1>7. PICK r \in Processes : Own(c, r, process, child)
  BY <1>6 DEF Apart
<1>8. r = p
  BY <1>2, <1>7 DEF Own
<1>9. line.of = c
  <2>1. PICK own \in Line : child[p].out = <<own>> /\ own.of = c
    BY <1>2, <1>7, <1>8 DEF Own, HasOnly
  <2>2. Head(<<own>>) = own
    OBVIOUS
  <2>. QED
    BY <2>1, <2>2 DEF line
<1>. QED
  BY <1>5, <1>6, <1>9 DEF Fair

LEMMA ExitIsOwn ==
  ASSUME Inv, NEW p \in Processes, ExitArrives(p), NEW c \in Cells,
         cell[c].at # "done", cell'[c].at = "done", ~cell[c].strayed
  PROVE  Fair(c)
<1>. USE DEF Inv
<1>1. PICK d \in Waiting : \E told \in {"lost", "stopped"} : cell' = Told(d, told, None)
  BY ExitDoes
<1>2. PICK told \in {"lost", "stopped"} : cell' = Told(d, told, None)
  BY <1>1
<1>3. d \in Cells
  BY DEF Waiting
<1>4. cell'[d].told = told /\ \A e \in Cells \ {d} : cell'[e] = cell[e]
  BY <1>2, <1>3, ToldDoes
<1>5. c = d
  BY <1>4
<1>6. PICK r \in Processes : Own(c, r, process, child)
  BY <1>5 DEF Apart
<1>7. child[p].state \in {"killed", "crashed"}
  BY DEF ExitArrives
<1>8. r = p
  BY <1>6, <1>7 DEF Own
<1>9. c \in child[p].took /\ child'[p].state = "gone"
  BY <1>6, <1>8, ExitDoes DEF Own
<1>. QED
  BY <1>4, <1>5, <1>9 DEF Fair

\* A cell is told what came of its own code, unless it started while something of an earlier cell
\* remained: the one reply slot of kernel.ts:364-385, for any number of cells and interpreters.
THEOREM OutputsAreOwn == Spec => OutputIsOwn
<1>. DEFINE Step == \A c \in Cells :
              (cell[c].at # "done" /\ cell'[c].at = "done" /\ ~cell[c].strayed) => Fair(c)
<1>1. Inv /\ [Next]_vars => Step
  <2>. SUFFICES ASSUME Inv, [Next]_vars, NEW c \in Cells,
                       cell[c].at # "done", cell'[c].at = "done", ~cell[c].strayed
                PROVE  Fair(c)
    OBVIOUS
  <2>0. TypeOK
    BY DEF Inv
  <2>1. ASSUME NEW d \in Cells, Run(d) PROVE cell'[c].at = cell[c].at \/ cell'[c].at = "queued"
    BY <2>0, <2>1 DEF Run, TypeOK, CellType
  <2>2. ASSUME NEW d \in Cells, Interrupt(d) PROVE Fair(c)
    <3>1. cell' # [cell EXCEPT ![d].at = "interrupting"]
      BY <2>0 DEF TypeOK, CellType
    <3>. QED
      BY <2>0, <2>2, <3>1, EndsAlone DEF Interrupt
  <2>3. ASSUME NEW d \in Cells, GraceEnds(d) PROVE Fair(c)
    BY <2>0, <2>3, EndsAlone DEF GraceEnds
  <2>4. CASE StartCell
    <3>1. cell'[c].at = "running" \/ cell'[c] = cell[c]
      BY <2>4, StartsDoes DEF Starts
    <3>. QED
      BY <3>1
  <2>5. CASE StartFails
    <3>1. cell' = Told(Head(queue), "failed", None) /\ Head(queue) \in Cells
      BY <2>0, <2>5 DEF StartFails, MayStart, TypeOK
    <3>. QED
      BY <2>0, <3>1, EndsAlone
  <2>6. ASSUME NEW p \in Processes, LineArrives(p) PROVE Fair(c)
    BY <2>6, LineIsOwn
  <2>7. ASSUME NEW p \in Processes, ExitArrives(p) PROVE Fair(c)
    BY <2>7, ExitIsOwn
  <2>8. CASE \/ \E p \in Processes : \/ \E cut \in BOOLEAN : Prints(p, cut)
                                     \/ SigintArrives(p) \/ Crashes(p) \/ AnswersTheDead(p)
             \/ OverMemory \/ WithinMemory \/ Evict \/ Forget \/ Dispose \/ UNCHANGED vars
    <3>1. cell' = cell
      BY <2>8 DEF Prints, SigintArrives, Crashes, AnswersTheDead, OverMemory, WithinMemory, Evict,
           Forget, Dispose, vars
    <3>. QED
      BY <3>1
  <2>. QED
    BY <2>1, <2>2, <2>3, <2>4, <2>5, <2>6, <2>7, <2>8 DEF Next
<1>2. Inv /\ [Next]_vars => [Step]_vars
  BY <1>1
<1>. HIDE DEF Step
<1>3. Spec => [][Step]_vars
  BY <1>2, InvAlways, PTL DEF Spec
<1>. QED
  BY <1>3 DEF OutputIsOwn, Step, Fair

-----------------------------------------------------------------------------
(* The note to the model.                                                   *)

\* The interpreter in use, unless one of its cells met an older one's remains, is idle and as the
\* note says, or works on the cell that waits, or has its variables on the way in a line.
NotedOf(p) ==
  \/ Waiting = {} /\ child[p].in = <<>> /\ child[p].out = <<>> /\ variables = child[p].memory
  \/ \E c \in child[p].took :
       /\ Waiting = {c}
       /\ \/ child[p].in = <<c>> /\ child[p].out = <<>> /\ variables = child[p].memory
          \/ child[p].in = <<>> /\ \E line \in Line : child[p].out = <<line>> /\ line.variables = child[p].memory

InUse(p) == process = p /\ child[p].state = "alive" /\ \A c \in child[p].took : ~cell[c].strayed

Noted == \A p \in Processes : InUse(p) => NotedOf(p)

\* If the interpreter is still in use, then nothing changed that the note is about.
LEMMA NotedSame ==
  ASSUME Inv, Noted,
         \A c \in Cells : cell'[c].strayed = cell[c].strayed,
         \A p \in Processes : process' = p /\ child'[p].state = "alive" =>
           /\ process = p /\ child[p].state = "alive" /\ Waiting' = Waiting /\ variables' = variables
           /\ child'[p].in = child[p].in /\ child'[p].out = child[p].out
           /\ child'[p].memory = child[p].memory /\ child'[p].took = child[p].took
  PROVE  Noted'
<1>. SUFFICES ASSUME NEW p \in Processes, InUse(p)' PROVE NotedOf(p)'
  BY DEF Noted
<1>1. /\ process = p /\ child[p].state = "alive" /\ Waiting' = Waiting /\ variables' = variables
      /\ child'[p].in = child[p].in /\ child'[p].out = child[p].out
      /\ child'[p].memory = child[p].memory /\ child'[p].took = child[p].took
  BY DEF InUse
<1>2. InUse(p)
  <2>1. child[p].took \subseteq Cells
    BY ChildFields DEF Inv, TypeOK
  <2>. QED
    BY <1>1, <2>1 DEF InUse
<1>3. NotedOf(p)
  BY <1>2 DEF Noted
<1>. QED
  BY <1>1, <1>3 DEF NotedOf

LEMMA NotedStops ==
  ASSUME process' = None
  PROVE  Noted'
BY NoneIsNoProcess DEF Noted, InUse

\* Whatever comes from elsewhere finds nobody who waits.
LEMMA NobodyElseTells ==
  ASSUME Inv, Noted, NEW p \in Processes, InUse(p), Waiting # {}, NEW q \in Processes,
         child[q].out # <<>> \/ child[q].state \in {"killed", "crashed"}
  PROVE  q = p
<1>1. PICK c \in child[p].took : Waiting = {c}
  BY DEF Noted, NotedOf
<1>2. c \in Waiting /\ ~cell[c].strayed
  BY <1>1 DEF InUse
<1>3. PICK r \in Processes : Own(c, r, process, child)
  BY <1>2 DEF Inv, Apart
<1>4. r = p
  BY <1>3, NoneIsNoProcess DEF Own, InUse
<1>. QED
  BY <1>3, <1>4 DEF Own

LEMMA NotedStart ==
  ASSUME Inv, Noted, StartCell
  PROVE  Noted'
<1>. USE DEF Inv
<1>. DEFINE c == Head(queue)
<1>1. /\ Waiting = {} /\ queue # <<>> /\ c \in Cells
      /\ variables' = (IF process = None THEN {} ELSE variables)
  BY StartsDoes
<1>2. cell[c].at = "queued"
  <2>1. c = queue[1] /\ 1 \in 1 .. Len(queue)
    BY <1>1 DEF TypeOK
  <2>. QED
    BY <2>1 DEF Ordered
<1>3. PICK p \in Processes : Starts(c, p)
  BY StartsDoes
<1>. HIDE DEF c
<1>4. SUFFICES ASSUME InUse(p)' PROVE NotedOf(p)'
  BY <1>3 DEF Noted, InUse, Starts
<1>5. \A q \in Processes : ~Remains(q)
  BY <1>3, <1>4 DEF InUse, Starts
<1>6. child'[p].in = Append(child[p].in, c) /\ child'[p].out = child[p].out /\ child'[p].memory = child[p].memory
  BY <1>3 DEF Starts
<1>7. child[p].in = <<>> /\ child[p].out = <<>> /\ variables' = child[p].memory
  <2>0. IF process # None THEN p = process ELSE child[p].state = "none"
    BY <1>3 DEF Starts
  <2>1. CASE process = None
    <3>1. child[p] = NotStarted
      BY <2>0, <2>1 DEF Kept
    <3>. QED
      BY <1>1, <2>1, <3>1 DEF NotStarted
  <2>2. CASE process # None
    <3>1. p = process
      BY <2>0, <2>2
    <3>2. child[p].state = "alive"
      <4>1. child[p].state \in {"alive", "crashed"}
        BY <2>2, <3>1 DEF Held
      <4>2. child'[p].state = child[p].state
        BY <1>3, <4>1 DEF Starts
      <4>. QED
        BY <1>4, <4>2 DEF InUse
    <3>3. ASSUME NEW d \in child[p].took PROVE ~cell[d].strayed
      <4>1. d \in Cells /\ d # c
        BY <1>2, <3>3, ChildFields DEF TypeOK, Ordered
      <4>2. cell'[d] = cell[d] /\ d \in child'[p].took
        BY <1>3, <4>1 DEF Starts
      <4>. QED
        BY <1>4, <4>2 DEF InUse
    <3>4. NotedOf(p)
      BY <3>1, <3>2, <3>3 DEF Noted, InUse
    <3>. QED
      BY <1>1, <2>2, <3>4 DEF NotedOf
  <2>. QED
    BY <2>1, <2>2
<1>8. child'[p].in = <<c>> /\ child'[p].out = <<>> /\ variables' = child'[p].memory
  BY <1>6, <1>7
<1>9. Waiting' = {c} /\ c \in child'[p].took
  BY <1>1, <1>3 DEF Waiting, Starts
<1>. QED
  BY <1>8, <1>9 DEF NotedOf

LEMMA NotedPrints ==
  ASSUME Inv, Noted, NEW q \in Processes, NEW cut \in BOOLEAN, Prints(q, cut)
  PROVE  Noted'
<1>. SUFFICES ASSUME NEW p \in Processes, InUse(p)' PROVE NotedOf(p)'
  BY DEF Noted
<1>1. PICK line \in Line :
        /\ child[q].state = "alive" /\ child[q].in # <<>>
        /\ child'[q].state = child[q].state /\ child'[q].took = child[q].took
        /\ child'[q].in = Tail(child[q].in) /\ child'[q].out = Append(child[q].out, line)
        /\ child'[q].memory = line.variables
  BY PrintsDoes
<1>2. cell' = cell /\ process' = process /\ Waiting' = Waiting
  BY DEF Prints, Waiting
<1>3. q = p
  BY <1>1, <1>2 DEF Inv, Kept, InUse
<1>4. InUse(p)
  BY <1>1, <1>2, <1>3 DEF InUse
<1>5. PICK c \in child[p].took : Waiting = {c} /\ child[p].in = <<c>> /\ child[p].out = <<>>
  BY <1>1, <1>3, <1>4 DEF Noted, NotedOf
<1>6. Tail(<<c>>) = <<>> /\ Append(<<>>, line) = <<line>>
  OBVIOUS
<1>7. child'[p].in = <<>> /\ child'[p].out = <<line>> /\ c \in child'[p].took
  BY <1>1, <1>3, <1>5, <1>6
<1>. QED
  BY <1>1, <1>2, <1>3, <1>5, <1>7 DEF NotedOf

LEMMA NotedLine ==
  ASSUME Inv, Noted, NEW q \in Processes, LineArrives(q)
  PROVE  Noted'
<1>0. /\ child[q].out # <<>> /\ process' = process
      /\ child' = [child EXCEPT ![q].out = Tail(@)]
  BY DEF LineArrives
<1>1. /\ child'[q].state = child[q].state /\ child'[q].in = child[q].in
      /\ child'[q].out = Tail(child[q].out) /\ child'[q].memory = child[q].memory
      /\ child'[q].took = child[q].took
      /\ \A r \in Processes \ {q} : child'[r] = child[r]
      /\ Head(child[q].out) \in Line
  BY <1>0, LineTaken
<1>2. CASE Waiting = {}
  <2>1. cell' = cell /\ variables' = variables
    BY <1>2 DEF LineArrives
  <2>2. ASSUME NEW p \in Processes, InUse(p)' PROVE NotedOf(p)'
    <3>1. InUse(p)
      BY <1>0, <1>1, <2>1, <2>2 DEF InUse
    <3>2. NotedOf(p)
      BY <3>1 DEF Noted
    <3>3. p # q
      BY <1>0, <1>2, <3>2 DEF NotedOf
    <3>4. Waiting' = Waiting
      BY <2>1 DEF Waiting
    <3>. QED
      BY <1>1, <1>2, <2>1, <3>2, <3>3, <3>4 DEF NotedOf
  <2>. QED
    BY <2>2 DEF Noted
<1>3. CASE Waiting # {}
  <2>. DEFINE line == Head(child[q].out)
  <2>1. PICK d \in Waiting :
          /\ cell' = Told(d, IF cell[d].at = "interrupting" THEN "kept"
                             ELSE IF line.cut THEN "interrupted" ELSE "output", line.of)
          /\ variables' = line.variables
    BY <1>3 DEF LineArrives, Notes
  <2>2. d \in Cells /\ line.of \in Cells
    BY <1>1 DEF Waiting, Line
  <2>3. PICK told \in {"output", "kept", "interrupted"} : cell' = Told(d, told, line.of)
    BY <2>1
  <2>. HIDE DEF line
  <2>4. /\ cell'[d].at = "done" /\ \A e \in Cells : cell'[e].strayed = cell[e].strayed
        /\ \A e \in Cells \ {d} : cell'[e] = cell[e]
    BY <2>2, <2>3, ToldDoes DEF Inv
  <2>5. ASSUME NEW p \in Processes, InUse(p)' PROVE NotedOf(p)'
    <3>0. child[p].took \subseteq Cells
      BY ChildFields DEF Inv, TypeOK
    <3>1. InUse(p)
      BY <1>0, <1>1, <2>4, <2>5, <3>0 DEF InUse
    <3>2. p = q
      BY <1>0, <1>3, <3>1, NobodyElseTells
    <3>3. PICK c \in child[p].took : Waiting = {c} /\ NotedOf(p)
      BY <1>3, <3>1 DEF Noted, NotedOf
    <3>4. child[p].in = <<>> /\ \E own \in Line : child[p].out = <<own>> /\ own.variables = child[p].memory
      BY <1>0, <3>2, <3>3 DEF NotedOf
    <3>5. PICK own \in Line : child[p].out = <<own>> /\ own.variables = child[p].memory
      BY <3>4
    <3>6. Head(<<own>>) = own /\ Tail(<<own>>) = <<>>
      OBVIOUS
    <3>7. child'[p].in = <<>> /\ child'[p].out = <<>> /\ variables' = child'[p].memory
      BY <1>1, <2>1, <3>2, <3>4, <3>5, <3>6 DEF line
    <3>8. Waiting' = {}
      BY <2>4, <3>3 DEF Waiting
    <3>. QED
      BY <3>7, <3>8 DEF NotedOf
  <2>. QED
    BY <2>5 DEF Noted
<1>. QED
  BY <1>2, <1>3

LEMMA NotedExit ==
  ASSUME Inv, Noted, NEW q \in Processes, ExitArrives(q)
  PROVE  Noted'
<1>1. CASE process' = None
  BY <1>1, NotedStops
<1>2. CASE process' # None
  <2>1. /\ process' = process /\ process # q /\ variables' = variables /\ child' = Gone(q)
        /\ child[q].state \in {"killed", "crashed"}
        /\ (Waiting = {} /\ cell' = cell) \/ Waiting # {}
    BY <1>2, NoneIsNoProcess DEF ExitArrives, Stopped, Gone
  <2>2. \A r \in Processes \ {q} : child'[r] = child[r]
    BY <2>1, GoneKeeps
  <2>3. \A c \in Cells : cell'[c].strayed = cell[c].strayed
    <3>1. ASSUME NEW d \in Waiting, NEW told \in {"lost", "stopped"}, cell' = Told(d, told, None)
          PROVE  \A c \in Cells : cell'[c].strayed = cell[c].strayed
      <4>1. d \in Cells
        BY DEF Waiting
      <4>. QED
        BY <3>1, <4>1, ToldDoes DEF Inv
    <3>. QED
      BY <3>1, ExitDoes
  <2>4. ASSUME NEW p \in Processes, process' = p /\ child'[p].state = "alive", Waiting # {} PROVE ~InUse(p)
    BY <2>1, <2>4, NobodyElseTells
  <2>5. SUFFICES ASSUME NEW p \in Processes, InUse(p)' PROVE NotedOf(p)'
    BY DEF Noted
  <2>6. p # q /\ child'[p] = child[p]
    BY <2>1, <2>2, <2>5 DEF InUse
  <2>7. InUse(p)
    <3>1. child[p].took \subseteq Cells
      BY ChildFields DEF Inv, TypeOK
    <3>. QED
      BY <2>1, <2>3, <2>5, <2>6, <3>1 DEF InUse
  <2>8. Waiting = {} /\ cell' = cell
    BY <2>1, <2>4, <2>5, <2>7 DEF InUse
  <2>9. NotedOf(p)
    BY <2>7 DEF Noted
  <2>10. Waiting' = Waiting
    BY <2>8 DEF Waiting
  <2>. QED
    BY <2>1, <2>6, <2>9, <2>10 DEF NotedOf
<1>. QED
  BY <1>1, <1>2

LEMMA NotedOverMemory ==
  ASSUME Inv, Noted, OverMemory
  PROVE  Noted'
<1>1. CASE Stopped(child)
  BY <1>1, NotedStops DEF Stopped
<1>2. CASE ~Stopped(child)
  <2>1. /\ process \in Processes /\ cell' = cell /\ variables' = variables /\ process' = process
        /\ child' = child \/ child' = [child EXCEPT ![process].sigint = TRUE]
    BY <1>2 DEF OverMemory, Inv, TypeOK
  <2>2. Waiting' = Waiting
    BY <2>1 DEF Waiting
  <2>3. /\ child'[process].state = child[process].state /\ child'[process].in = child[process].in
        /\ child'[process].out = child[process].out
        /\ child'[process].memory = child[process].memory /\ child'[process].took = child[process].took
    <3>1. CASE child' = child
      BY <3>1
    <3>2. CASE child' = [child EXCEPT ![process].sigint = TRUE]
      BY <2>1, <3>2, SigintDoes DEF Inv
    <3>. QED
      BY <2>1, <3>1, <3>2
  <2>. QED
    BY <2>1, <2>2, <2>3, NotedSame
<1>. QED
  BY <1>1, <1>2

LEMMA NotedInterrupt ==
  ASSUME Inv, Noted, NEW c \in Cells, Interrupt(c)
  PROVE  Noted'
<1>1. CASE process = None
  BY <1>1, NotedStops DEF Interrupt
<1>2. CASE process # None
  <2>1. /\ cell[c].at = "running" /\ cell' = [cell EXCEPT ![c].at = "interrupting"]
        /\ child' = [child EXCEPT ![process].sigint = child[process].state = "alive"]
        /\ process' = process /\ variables' = variables /\ process \in Processes
    BY <1>2 DEF Interrupt, Inv, TypeOK
  <2>. DEFINE b == child[process].state = "alive"
  <2>2. b \in BOOLEAN /\ child' = [child EXCEPT ![process].sigint = b]
    BY <2>1
  <2>. HIDE DEF b
  <2>3. /\ child'[process].state = child[process].state /\ child'[process].in = child[process].in
        /\ child'[process].out = child[process].out
        /\ child'[process].memory = child[process].memory /\ child'[process].took = child[process].took
    BY <2>1, <2>2, SigintDoes DEF Inv
  <2>4. /\ cell'[c].at = "interrupting" /\ \A d \in Cells \ {c} : cell'[d] = cell[d]
        /\ \A d \in Cells : cell'[d].strayed = cell[d].strayed
    BY <2>1 DEF Inv, TypeOK, CellType
  <2>5. Waiting' = Waiting
    BY <2>1, <2>4 DEF Waiting
  <2>. QED
    BY <2>1, <2>3, <2>4, <2>5, NotedSame
<1>. QED
  BY <1>1, <1>2

\* A cell that queues, or fails before it starts.
LEMMA NotedQueue ==
  ASSUME Inv, Noted, StartFails \/ \E c \in Cells : Run(c)
  PROVE  Noted'
<1>1. CASE StartFails
  BY <1>1, NotedStops DEF StartFails
<1>2. ASSUME NEW c \in Cells, Run(c) PROVE Noted'
  <2>1. /\ cell[c].at = "idle" /\ cell' = [cell EXCEPT ![c].at = "queued"]
        /\ child' = child /\ process' = process /\ variables' = variables
    BY <1>2 DEF Run
  <2>2. /\ cell'[c].at = "queued" /\ \A d \in Cells \ {c} : cell'[d] = cell[d]
        /\ \A d \in Cells : cell'[d].strayed = cell[d].strayed
    BY <2>1 DEF Inv, TypeOK, CellType
  <2>3. Waiting' = Waiting
    BY <2>1, <2>2 DEF Waiting
  <2>. QED
    BY <2>1, <2>2, <2>3, NotedSame
<1>. QED
  BY <1>1, <1>2

LEMMA NotedNext == Inv /\ Noted /\ [Next]_vars => Noted'
<1>. SUFFICES ASSUME Inv, Noted, [Next]_vars PROVE Noted'
  OBVIOUS
<1>1. CASE StartFails \/ \E c \in Cells : Run(c)
  BY <1>1, NotedQueue
<1>2. ASSUME NEW c \in Cells, Interrupt(c) PROVE Noted'
  BY <1>2, NotedInterrupt
<1>3. CASE StartCell
  BY <1>3, NotedStart
<1>4. ASSUME NEW q \in Processes, NEW cut \in BOOLEAN, Prints(q, cut) PROVE Noted'
  BY <1>4, NotedPrints
<1>5. ASSUME NEW q \in Processes, SigintArrives(q) \/ Crashes(q) PROVE Noted'
  <2>1. /\ child[q].state = "alive"
        /\ child'[q].took = child[q].took /\ child'[q].out = child[q].out
        /\ \/ child'[q].in = child[q].in /\ child'[q].memory = child[q].memory
           \/ child'[q].state = "crashed"
        /\ \A r \in Processes \ {q} : child'[r] = child[r]
    BY <1>5, CrashDoes
  <2>2. cell' = cell /\ process' = process /\ variables' = variables
    BY <1>5 DEF SigintArrives, Crashes
  <2>3. Waiting' = Waiting
    BY <2>2 DEF Waiting
  <2>4. ASSUME NEW p \in Processes, process' = p /\ child'[p].state = "alive"
        PROVE  /\ process = p /\ child[p].state = "alive"
               /\ child'[p].in = child[p].in /\ child'[p].out = child[p].out
               /\ child'[p].memory = child[p].memory /\ child'[p].took = child[p].took
    <3>1. CASE p = q
      BY <2>1, <2>2, <2>4, <3>1
    <3>2. CASE p # q
      BY <2>1, <2>2, <2>4, <3>2
    <3>. QED
      BY <3>1, <3>2
  <2>. QED
    BY <2>2, <2>3, <2>4, NotedSame
<1>6. ASSUME NEW q \in Processes, LineArrives(q) PROVE Noted'
  BY <1>6, NotedLine
<1>7. ASSUME NEW q \in Processes, ExitArrives(q) PROVE Noted'
  BY <1>7, NotedExit
<1>8. CASE OverMemory
  BY <1>8, NotedOverMemory
<1>9. CASE (\E c \in Cells : GraceEnds(c)) \/ Evict \/ Forget \/ Dispose
  BY <1>9, NotedStops DEF GraceEnds, Evict, Forget, Dispose, Stopped
<1>10. CASE (\E p \in Processes : AnswersTheDead(p)) \/ WithinMemory \/ UNCHANGED vars
  <2>1. UNCHANGED <<cell, queue, process, child, variables>>
    BY <1>10 DEF AnswersTheDead, WithinMemory, vars
  <2>. QED
    BY <2>1 DEF Noted, NotedOf, InUse, Waiting
<1>. QED
  BY <1>1, <1>2, <1>3, <1>4, <1>5, <1>6, <1>7, <1>8, <1>9, <1>10 DEF Next

\* Between cells the note to the model says what the interpreter has, also after cells that failed
\* or were cut short (kernel.ts:243-247), for any number of cells and interpreters.
THEOREM NoteStaysTrue == Spec => []NoteIsTrue
<1>1. Init => Noted
  BY DEF Init, Noted, InUse, NotStarted
<1>2. Noted => NoteIsTrue
  <2>. SUFFICES ASSUME Noted, NEW p \in Processes, process = p, Waiting = {}, child[p].state = "alive",
                       \A c \in child[p].took : ~cell[c].strayed
                PROVE  variables = child[p].memory
    BY DEF NoteIsTrue
  <2>1. NotedOf(p)
    BY DEF Noted, InUse
  <2>. QED
    BY <2>1 DEF NotedOf
<1>. QED
  BY <1>1, <1>2, InvAlways, NotedNext, PTL DEF Spec

-----------------------------------------------------------------------------
(* The session at every moment.                                             *)

\* Types, for any number of cells and interpreters.
THEOREM TypeCorrect == Spec => []TypeOK
BY InvAlways, PTL DEF Inv

OneLives == \A p, q \in Processes : child[p].state = "alive" /\ child[q].state = "alive" => p = q

\* A conversation has one live interpreter at most, through interrupts, crashes, evictions and
\* the kernels that follow one another.
THEOREM OneInterpreterLives == Spec => []OneLives
<1>1. Inv => OneLives
  BY DEF Inv, Kept, OneLives
<1>. QED
  BY <1>1, InvAlways, PTL

\* No two interpreters were given the code of one cell.
TakenOnce == \A p, q \in Processes : child[p].took \intersect child[q].took # {} => p = q

\* Only the start of a cell gives an interpreter code.
LEMMA TookIsKept ==
  ASSUME Inv, [Next]_vars, NEW p \in Processes
  PROVE  child'[p].took = child[p].took \/ StartCell
<1>. USE DEF Inv
<1>1. process # None => process \in Processes /\ child[process].state # "none"
  BY DEF TypeOK, Held
<1>2. CASE Stopped(child)
  BY <1>1, <1>2, StoppedKeeps DEF TypeOK
<1>3. CASE child' = child
  BY <1>3
<1>4. ASSUME NEW b \in BOOLEAN, process # None, child' = [child EXCEPT ![process].sigint = b]
      PROVE  child'[p].took = child[p].took
  BY <1>1, <1>4, SigintDoes
<1>5. CASE \E c \in Cells : Run(c) \/ Interrupt(c) \/ GraceEnds(c)
  <2>1. PICK c \in Cells : Run(c) \/ Interrupt(c) \/ GraceEnds(c)
    BY <1>5
  <2>2. CASE Interrupt(c)
    <3>1. \/ child' = child
          \/ process # None /\ \E b \in BOOLEAN : child' = [child EXCEPT ![process].sigint = b]
      BY <2>2 DEF Interrupt
    <3>. QED
      BY <3>1, <1>3, <1>4
  <2>. QED
    BY <2>1, <2>2, <1>2, <1>3 DEF Run, GraceEnds
<1>6. CASE \E q \in Processes : \/ \E cut \in BOOLEAN : Prints(q, cut)
                                \/ SigintArrives(q) \/ Crashes(q)
  <2>1. PICK q \in Processes : \/ \E cut \in BOOLEAN : Prints(q, cut)
                               \/ SigintArrives(q) \/ Crashes(q)
    BY <1>6
  <2>2. child'[q].took = child[q].took /\ \A r \in Processes \ {q} : child'[r] = child[r]
    BY <2>1, PrintsDoes, CrashDoes
  <2>. QED
    BY <2>2
<1>7. CASE \E q \in Processes : LineArrives(q) \/ ExitArrives(q)
  <2>1. PICK q \in Processes : LineArrives(q) \/ ExitArrives(q)
    BY <1>7
  <2>2. CASE LineArrives(q)
    <3>1. child[q].out # <<>> /\ process' = process /\ child' = [child EXCEPT ![q].out = Tail(@)]
      BY <2>2 DEF LineArrives
    <3>. QED
      BY <3>1, LineTaken
  <2>. QED
    BY <2>1, <2>2, ExitDoes
<1>8. CASE OverMemory
  <2>1. \/ Stopped(child)
        \/ child' = child
        \/ process # None /\ child' = [child EXCEPT ![process].sigint = TRUE]
    BY <1>8 DEF OverMemory
  <2>. QED
    BY <2>1, <1>2, <1>3, <1>4
<1>9. CASE Forget
  BY <1>9, ForgetDoes
<1>10. CASE \/ \E q \in Processes : AnswersTheDead(q)
            \/ StartFails \/ WithinMemory \/ Evict \/ Dispose \/ UNCHANGED vars
  BY <1>10, <1>2, <1>3 DEF AnswersTheDead, StartFails, WithinMemory, Evict, Dispose, vars
<1>. QED
  BY <1>5, <1>6, <1>7, <1>8, <1>9, <1>10 DEF Next

\* A cell's code is run at most once: it is written to one interpreter, and to no other when that
\* one dies under it, is interrupted, evicted or stopped.
THEOREM CodeRunsOnce == Spec => []TakenOnce
<1>1. Init => TakenOnce
  BY DEF Init, TakenOnce, NotStarted
<1>2. Inv /\ TakenOnce /\ [Next]_vars => TakenOnce'
  <2>. SUFFICES ASSUME Inv, TakenOnce, [Next]_vars
                PROVE  TakenOnce'
    OBVIOUS
  <2>1. CASE \A p \in Processes : child'[p].took = child[p].took
    BY <2>1 DEF TakenOnce
  <2>2. CASE StartCell
    <3>. DEFINE c == Head(queue)
    <3>1. PICK p \in Processes : Starts(c, p)
      BY <2>2, StartsDoes
    <3>2. /\ child'[p].took = child[p].took \union {c}
          /\ \A q \in Processes \ {p} : child'[q] = child[q]
      BY <3>1 DEF Starts
    <3>3. \A q \in Processes : c \notin child[q].took
      <4>1. queue # <<>> /\ c \in Cells /\ cell[c].at = "queued"
        <5>1. queue # <<>> /\ queue \in Seq(Cells)
          BY <2>2, StartsDoes DEF Inv, TypeOK
        <5>2. 1 \in 1 .. Len(queue) /\ c = queue[1]
          BY <5>1
        <5>. QED
          BY <5>1, <5>2 DEF Inv, Ordered
      <4>. QED
        BY <4>1 DEF Inv, Ordered
    <3>. HIDE DEF c
    <3>. QED
      BY <3>2, <3>3 DEF TakenOnce
  <2>. QED
    BY <2>1, <2>2, TookIsKept
<1>. QED
  BY <1>1, <1>2, InvInit, InvNext, PTL DEF Spec

-----------------------------------------------------------------------------
(* One cell at a time, in the order of the calls.                           *)

\* A cell that is told something leaves the slot.
LEMMA ToldEnds ==
  ASSUME Inv, NEW c \in Waiting, NEW told, NEW of, cell' = Told(c, told, of), UNCHANGED queue
  PROVE  Queue!Ends(c)
<1>1. c \in Cells /\ cell[c].at \in {"running", "interrupting"}
  BY DEF Waiting
<1>2. cell'[c].at = "done" /\ \A d \in Cells \ {c} : cell'[d] = cell[d]
  BY <1>1 DEF Told, Inv, TypeOK, CellType
<1>3. Waiting' = Waiting \ {c}
  BY <1>1, <1>2 DEF Waiting
<1>4. {d \in Cells : cell[d].at = "done"}' = {d \in Cells : cell[d].at = "done"} \union {c}
  BY <1>1, <1>2
<1>5. {<<d, "reply">> : d \in Waiting}' = {<<d, "reply">> : d \in Waiting} \ {<<c, "reply">>}
  BY <1>3
<1>. QED
  BY <1>4, <1>5 DEF Queue!Ends

\* A step that neither queues a cell nor gives it the slot nor ends it.
LEMMA QueueStutters ==
  ASSUME Waiting' = Waiting, UNCHANGED queue,
         \A c \in Cells : cell'[c].at = "done" <=> cell[c].at = "done"
  PROVE  UNCHANGED Queue!vars
BY DEF Queue!vars

\* Every step is one of the queue's.
LEMMA QueueStep == Inv /\ [Next]_vars => [Queue!Next]_(Queue!vars)
<1>. SUFFICES ASSUME Inv, [Next]_vars PROVE Queue!Next \/ UNCHANGED Queue!vars
  OBVIOUS
<1>0. cell \in CellType /\ queue \in Seq(Cells)
  BY DEF Inv, TypeOK
<1>. DEFINE Slot == {<<d, "reply">> : d \in Waiting}
            Done == {d \in Cells : cell[d].at = "done"}
<1>1. ASSUME cell' = cell, queue' = queue PROVE UNCHANGED Queue!vars
  BY <1>1, QueueStutters DEF Waiting
<1>2. ASSUME NEW c \in Cells, Run(c) PROVE Queue!Comes(c)
  <2>1. /\ cell[c].at = "idle" /\ cell' = [cell EXCEPT ![c].at = "queued"]
        /\ queue' = Append(queue, c)
    BY <1>2 DEF Run
  <2>2. cell'[c].at = "queued" /\ \A d \in Cells \ {c} : cell'[d] = cell[d]
    BY <1>0, <2>1 DEF CellType
  <2>3. Waiting' = Waiting /\ Done' = Done /\ c \notin Waiting /\ c \notin Done
    BY <2>1, <2>2 DEF Waiting
  <2>4. \A i \in DOMAIN queue : queue[i] # c
    BY <1>0, <2>1 DEF Inv, Ordered
  <2>5. Slot' = Slot /\ \A x \in Slot : x[1] # c
    BY <2>3
  <2>. QED
    BY <2>1, <2>3, <2>4, <2>5 DEF Queue!Comes, Queue!New
<1>3. ASSUME NEW c \in Cells, Interrupt(c) PROVE Queue!Ends(c) \/ UNCHANGED Queue!vars
  <2>0. cell[c].at = "running" /\ c \in Waiting /\ UNCHANGED queue
    BY <1>3 DEF Interrupt, Waiting
  <2>1. CASE cell' = Told(c, "stopped", None)
    BY <2>0, <2>1, ToldEnds
  <2>2. CASE cell' = [cell EXCEPT ![c].at = "interrupting"]
    <3>1. cell'[c].at = "interrupting" /\ \A d \in Cells \ {c} : cell'[d] = cell[d]
      BY <1>0, <2>2 DEF CellType
    <3>2. Waiting' = Waiting /\ \A d \in Cells : cell'[d].at = "done" <=> cell[d].at = "done"
      BY <2>0, <3>1 DEF Waiting
    <3>. QED
      BY <2>0, <3>2, QueueStutters
  <2>. QED
    BY <1>3, <2>1, <2>2 DEF Interrupt
<1>4. ASSUME NEW c \in Cells, GraceEnds(c) PROVE Queue!Ends(c)
  BY <1>4, ToldEnds DEF GraceEnds, Waiting
<1>5. CASE StartCell
  <2>1. PICK p \in Processes : Starts(Head(queue), p)
    BY <1>5, StartsDoes
  <2>2. Waiting = {} /\ queue # <<>> /\ queue' = Tail(queue) /\ Head(queue) \in Cells
    BY <1>0, <1>5 DEF StartCell, MayStart
  <2>. DEFINE c == Head(queue)
  <2>3. cell'[c].at = "running" /\ \A d \in Cells \ {c} : cell'[d] = cell[d]
    BY <2>1 DEF Starts
  <2>4. cell[c].at = "queued"
    BY <1>0, <2>2 DEF Inv, Ordered
  <2>5. Waiting' = {c} /\ Done' = Done
    BY <2>2, <2>3, <2>4 DEF Waiting
  <2>6. Slot = {} /\ Slot' = Slot \union {<<c, "reply">>}
    BY <2>2, <2>5
  <2>7. Queue!Starts
    BY <2>2, <2>5, <2>6 DEF Queue!Starts, Queue!Free
  <2>. QED
    BY <2>7 DEF Queue!Next
<1>6. CASE StartFails
  <2>1. queue # <<>> /\ queue' = Tail(queue) /\ Head(queue) \in Cells
        /\ cell' = Told(Head(queue), "failed", None)
    BY <1>0, <1>6 DEF StartFails, MayStart
  <2>. DEFINE c == Head(queue)
  <2>2. cell[c].at = "queued"
    BY <1>0, <2>1 DEF Inv, Ordered
  <2>3. cell'[c].at = "done" /\ \A d \in Cells \ {c} : cell'[d] = cell[d]
    BY <2>1, ToldDoes DEF Inv, TypeOK
  <2>4. Waiting' = Waiting /\ Done' = Done \union {c}
    BY <2>1, <2>2, <2>3 DEF Waiting
  <2>5. Queue!Fails
    BY <2>1, <2>4 DEF Queue!Fails
  <2>. QED
    BY <2>5 DEF Queue!Next
<1>7. ASSUME NEW p \in Processes, LineArrives(p) \/ ExitArrives(p)
      PROVE  (\E c \in Cells : Queue!Ends(c)) \/ UNCHANGED Queue!vars
  <2>1. UNCHANGED queue /\ (cell' = cell \/ \E c \in Waiting : \E told, of : cell' = Told(c, told, of))
    BY <1>7 DEF LineArrives, ExitArrives
  <2>. QED
    BY <1>1, <2>1, ToldEnds DEF Waiting
<1>8. CASE \/ \E p \in Processes : \/ \E cut \in BOOLEAN : Prints(p, cut)
                                    \/ SigintArrives(p) \/ Crashes(p) \/ AnswersTheDead(p)
           \/ OverMemory \/ WithinMemory \/ Evict \/ Forget \/ Dispose \/ UNCHANGED vars
  <2>1. cell' = cell /\ queue' = queue
    BY <1>8 DEF Prints, SigintArrives, Crashes, AnswersTheDead, OverMemory, WithinMemory, Evict,
       Forget, Dispose, vars
  <2>. QED
    BY <1>1, <2>1
<1>. QED
  BY <1>2, <1>3, <1>4, <1>5, <1>6, <1>7, <1>8 DEF Next, Queue!Next

\* However cells fail, are interrupted or lose their interpreter, they have the reply slot one at a
\* time and in the order of the calls (kernel.ts:148-163), for any number of them.
THEOREM CellsInOrder == Spec => ImplementsQueue
<1>1. Init => Queue!Init
  BY DEF Init, NotRun, Waiting, Queue!Init
<1>2. Inv /\ [Next]_vars => [Queue!Next]_(Queue!vars)
  BY QueueStep
<1>. QED
  BY <1>1, <1>2, InvAlways, PTL DEF Spec, ImplementsQueue, Queue!Spec
=============================================================================
