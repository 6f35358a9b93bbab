---------------------------- MODULE ServiceQueue -----------------------------
(***************************************************************************)
(* What the pool of pipelines (StudioPool) and the Python session of a     *)
(* conversation (PythonKernel) promise their callers: a slot serves one    *)
(* client at a time, and the clients are served in the order in which they *)
(* came, whatever becomes of those before them.                            *)
(***************************************************************************)
EXTENDS Sequences, SequencesExt

CONSTANTS Clients, Slots

VARIABLES
  served,    \* the clients being served, each with its slot
  waiting,   \* those that wait, the longest first
  left       \* those that are through, served or not

vars == <<served, waiting, left>>

Free(slot) == \A x \in served : x[2] # slot
New(c) == c \notin left /\ (\A x \in served : x[1] # c) /\ \A i \in DOMAIN waiting : waiting[i] # c

Init == served = {} /\ waiting = <<>> /\ left = {}

\* A client is served at once only if nobody waits.
Comes(c) ==
  /\ New(c)
  /\ \/ waiting' = Append(waiting, c) /\ UNCHANGED served
     \/ /\ waiting = <<>> /\ UNCHANGED waiting
        /\ \E slot \in Slots : Free(slot) /\ served' = served \union {<<c, slot>>}
  /\ UNCHANGED left

\* The one that waits longest.
Starts ==
  /\ waiting # <<>> /\ waiting' = Tail(waiting)
  /\ \E slot \in Slots : Free(slot) /\ served' = served \union {<<Head(waiting), slot>>}
  /\ UNCHANGED left

\* It cannot be served.
Fails ==
  /\ waiting # <<>> /\ waiting' = Tail(waiting)
  /\ left' = left \union {Head(waiting)}
  /\ UNCHANGED served

\* Its slot is free, or goes to the one that waits longest.
Ends(c) ==
  /\ left' = left \union {c}
  /\ \E slot \in Slots :
       /\ <<c, slot>> \in served
       /\ \/ served' = served \ {<<c, slot>>} /\ UNCHANGED waiting
          \/ /\ waiting # <<>> /\ waiting' = Tail(waiting)
             /\ served' = (served \ {<<c, slot>>}) \union {<<Head(waiting), slot>>}

\* One of those that wait gives up.
GivesUp(i) ==
  /\ left' = left \union {waiting[i]}
  /\ waiting' = RemoveAt(waiting, i)
  /\ UNCHANGED served

\* The service closes: all that wait are sent away.
Closes ==
  /\ left' = left \union {waiting[i] : i \in DOMAIN waiting}
  /\ waiting' = <<>>
  /\ UNCHANGED served

Next ==
  \/ \E c \in Clients : Comes(c) \/ Ends(c)
  \/ \E i \in DOMAIN waiting : GivesUp(i)
  \/ Starts \/ Fails \/ Closes

Spec == Init /\ [][Next]_vars
=============================================================================
