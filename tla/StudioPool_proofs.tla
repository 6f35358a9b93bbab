-------------------------- MODULE StudioPool_proofs ---------------------------
(***************************************************************************)
(* A theorem about the pool of pipelines, for any number of questions,     *)
(* workers and processes.  An event can end one question, hand its worker  *)
(* to another and start a process at once, so what is proved of the state  *)
(* is stated of the four functions an event computes on the way.           *)
(***************************************************************************)
EXTENDS StudioPool, SequenceTheorems, TLAPS

Got == Questions \union {None, Lost, Refused}
AskedType == [Questions -> [at : {"idle", "waiting", "asking", "done"}, worker : Workers \union {None}, got : Got]]
ProcessType == [Workers -> Processes \union {None}]
State == {"none", "alive", "killed", "crashed", "gone"}
Child == [worker : Workers \union {None}, state : State, in : Seq(Questions), out : Seq(Questions)]
ChildType == [Processes -> Child]

TypeOK ==
  /\ asked \in AskedType
  /\ process \in ProcessType
  /\ child \in ChildType
  /\ waiting \in Seq(Questions)
  /\ stopped \in BOOLEAN

\* A process that was not started has no worker and nothing to tell; one that is alive is its
\* worker's, and a worker's process was started for it and not stopped.
Kept(pr, ch) ==
  /\ \A c \in Processes : ch[c].state = "none" => ch[c].worker = None /\ ch[c].in = <<>> /\ ch[c].out = <<>>
  /\ \A c \in Processes : ch[c].state = "alive" => pr[ch[c].worker] = c
  /\ \A c \in Processes : ch[c].state # "none" => ch[c].worker \in Workers
  /\ \A w \in Workers : pr[w] # None => ch[pr[w]].worker = w /\ ch[pr[w]].state \in {"alive", "crashed"}

\* A worker is asked one question at a time.
One(as) ==
  /\ \A q \in Questions : as[q].at = "asking" => as[q].worker \in Workers
  /\ \A q, r \in Questions : as[q].at = "asking" /\ as[r].at = "asking" /\ as[q].worker = as[r].worker => q = r

\* A question that met nothing of an older one has a process that works for nobody else, and no
\* other process of its worker has anything to tell.
Alone(q, c, as, pr, ch) ==
  LET w == as[q].worker IN
  /\ ch[c].worker = w /\ ch[c].state # "none"
  /\ pr[w] \in {c, None}
  /\ \/ ch[c].in = <<>> /\ ch[c].out = <<>>
     \/ ch[c].in = <<q>> /\ ch[c].out = <<>>
     \/ ch[c].in = <<>> /\ ch[c].out = <<q>>
  /\ \A d \in Processes \ {c} : ch[d].worker = w => ~Tells(ch[d])

Apart(as, pr, ch, st) ==
  \A q \in Questions \ st : as[q].at = "asking" => \E c \in Processes : Alone(q, c, as, pr, ch)

Good(as, pr, ch, st) ==
  /\ as \in AskedType /\ pr \in ProcessType /\ ch \in ChildType
  /\ Kept(pr, ch) /\ One(as) /\ Apart(as, pr, ch, st)

\* A worker that is not in the pool has no question, until the pool stops.
Pooled == ~stopped => \A q \in Questions : asked[q].at = "asking" => asked[q].worker \in made

Inv == TypeOK /\ Good(asked, process, child, strayed) /\ Pooled /\ made \subseteq Workers

LEMMA NotNone == None \notin Workers /\ None \notin Processes
BY StudioPoolAssumption DEF None

LEMMA InvInit == Init => Inv
<1>. SUFFICES ASSUME Init PROVE Inv
  OBVIOUS
<1>. USE DEF Init
<1>1. asked \in AskedType
  BY DEF AskedType, NotAsked, Got
<1>2. process \in ProcessType
  BY DEF ProcessType
<1>3. child \in ChildType
  <2>1. NotStarted \in Child
    BY DEF NotStarted, Child, State
  <2>. QED
    BY <2>1 DEF ChildType
<1>4. \A q \in Questions : asked[q].at = "idle"
  BY DEF NotAsked
<1>5. \A c \in Processes : child[c] = NotStarted
  OBVIOUS
<1>6. Kept(process, child)
  BY <1>5 DEF Kept, NotStarted
<1>7. One(asked) /\ Apart(asked, process, child, strayed) /\ Pooled
  BY <1>4 DEF One, Apart, Pooled
<1>a. stopped \in BOOLEAN
  OBVIOUS
<1>b. waiting \in Seq(Questions) /\ made \subseteq Workers
  OBVIOUS
<1>8. TypeOK /\ made \subseteq Workers
  BY <1>1, <1>2, <1>3, <1>a, <1>b DEF TypeOK
<1>9. Good(asked, process, child, strayed)
  BY <1>1, <1>2, <1>3, <1>6, <1>7 DEF Good
<1>. QED
  BY <1>7, <1>8, <1>9 DEF Inv

-----------------------------------------------------------------------------
(* Asking.                                                                  *)

\* What asking q of w does to the functions it is given, when c is the process that gets q.
AsksOf(c, as, pr, ch, q, w) ==
  /\ IF pr[w] # None THEN c = pr[w] ELSE ch[c].state = "none"
  /\ asked' \in AskedType /\ process' \in ProcessType /\ child' \in ChildType
  /\ asked'[q].at = "asking" /\ asked'[q].worker = w
  /\ \A r \in Questions : r # q => asked'[r] = as[r]
  /\ process'[w] = c
  /\ \A v \in Workers : v # w => process'[v] = pr[v]
  /\ child'[c].worker = w /\ child'[c].out = ch[c].out
  /\ child'[c].state = IF ch[c].state = "none" THEN "alive" ELSE ch[c].state
  /\ child'[c].in = IF ch[c].state \in {"none", "alive"} THEN Append(ch[c].in, q) ELSE ch[c].in
  /\ \A d \in Processes : d # c => child'[d] = ch[d]
  /\ \/ strayed' = strayed \union {q}
     \/ /\ strayed' = strayed
        /\ \A d \in Processes : ch[d].worker = w /\ Tells(ch[d]) => ch[d].state = "alive" /\ pr[w] # d

LEMMA AsksDoes ==
  ASSUME NEW as \in AskedType, NEW pr \in ProcessType, NEW ch \in ChildType,
         NEW q \in Questions, NEW w \in Workers, Asks(as, pr, ch, q, w)
  PROVE  \E c \in Processes : AsksOf(c, as, pr, ch, q, w)
<1>1. PICK c \in Processes :
        /\ IF pr[w] # None THEN c = pr[w] ELSE ch[c].state = "none"
        /\ asked' = [as EXCEPT ![q] = [at |-> "asking", worker |-> w, got |-> None]]
        /\ process' = [pr EXCEPT ![w] = c]
        /\ child' = [ch EXCEPT ![c].worker = w,
                               ![c].state = IF @ = "none" THEN "alive" ELSE @,
                               ![c].in = IF ch[c].state \in {"none", "alive"} THEN Append(@, q) ELSE @]
        /\ strayed' = IF \E d \in Processes : /\ ch[d].worker = w /\ Tells(ch[d])
                                              /\ ch[d].state = "alive" => pr[w] = d
                      THEN strayed \union {q} ELSE strayed
  BY DEF Asks
<1>2. asked' \in AskedType
  BY <1>1 DEF AskedType, Got
<1>3. /\ asked'[q].at = "asking" /\ asked'[q].worker = w
      /\ \A r \in Questions : r # q => asked'[r] = as[r]
  BY <1>1 DEF AskedType
<1>4. /\ process' \in ProcessType /\ process'[w] = c
      /\ \A v \in Workers : v # w => process'[v] = pr[v]
  BY <1>1 DEF ProcessType
<1>. DEFINE state == IF ch[c].state = "none" THEN "alive" ELSE ch[c].state
            in == IF ch[c].state \in {"none", "alive"} THEN Append(ch[c].in, q) ELSE ch[c].in
<1>5. ch[c] \in Child
  BY DEF ChildType
<1>6. state \in State /\ in \in Seq(Questions)
  BY <1>5 DEF Child, State
<1>7. child' = [ch EXCEPT ![c].worker = w, ![c].state = state, ![c].in = in]
  BY <1>1, <1>5 DEF ChildType, Child
<1>. HIDE DEF state, in
<1>. DEFINE k1 == [ch EXCEPT ![c].worker = w]
            k2 == [k1 EXCEPT ![c].state = state]
            k3 == [k2 EXCEPT ![c].in = in]
<1>8. child' = k3
  BY <1>7
<1>9. /\ k1 \in ChildType /\ k1[c].worker = w /\ k1[c].out = ch[c].out
      /\ \A d \in Processes : d # c => k1[d] = ch[d]
  BY DEF ChildType, Child
<1>. HIDE DEF k1
<1>10. /\ k2 \in ChildType /\ k2[c].worker = w /\ k2[c].out = ch[c].out /\ k2[c].state = state
       /\ \A d \in Processes : d # c => k2[d] = ch[d]
  BY <1>6, <1>9 DEF ChildType, Child
<1>. HIDE DEF k2
<1>11. /\ k3 \in ChildType /\ k3[c].worker = w /\ k3[c].out = ch[c].out /\ k3[c].state = state /\ k3[c].in = in
       /\ \A d \in Processes : d # c => k3[d] = ch[d]
  BY <1>6, <1>10 DEF ChildType, Child
<1>. HIDE DEF k3
<1>12. /\ child' \in ChildType /\ child'[c].worker = w /\ child'[c].out = ch[c].out
       /\ child'[c].state = state /\ child'[c].in = in
       /\ \A d \in Processes : d # c => child'[d] = ch[d]
  BY <1>8, <1>11
<1>13. AsksOf(c, as, pr, ch, q, w)
  BY <1>1, <1>2, <1>3, <1>4, <1>12 DEF state, in, AsksOf
<1>. QED
  BY <1>13

\* A worker without a question takes one: what is good stays so.
LEMMA AsksKeeps ==
  ASSUME NEW as, NEW pr, NEW ch, NEW q \in Questions, NEW w \in Workers,
         Good(as, pr, ch, strayed), Asks(as, pr, ch, q, w),
         \A r \in Questions : as[r].at = "asking" => as[r].worker # w
  PROVE  Good(asked', process', child', strayed')
<1>0. as \in AskedType /\ pr \in ProcessType /\ ch \in ChildType /\ Kept(pr, ch) /\ One(as) /\ Apart(as, pr, ch, strayed)
  BY DEF Good
<1>p. PICK c \in Processes : AsksOf(c, as, pr, ch, q, w)
  BY <1>0, AsksDoes
<1>1. /\ IF pr[w] # None THEN c = pr[w] ELSE ch[c].state = "none"
      /\ asked' \in AskedType /\ process' \in ProcessType /\ child' \in ChildType
      /\ asked'[q].at = "asking" /\ asked'[q].worker = w
      /\ \A r \in Questions : r # q => asked'[r] = as[r]
      /\ process'[w] = c
      /\ \A v \in Workers : v # w => process'[v] = pr[v]
      /\ child'[c].worker = w /\ child'[c].out = ch[c].out
      /\ child'[c].state = IF ch[c].state = "none" THEN "alive" ELSE ch[c].state
      /\ child'[c].in = IF ch[c].state \in {"none", "alive"} THEN Append(ch[c].in, q) ELSE ch[c].in
      /\ \A d \in Processes : d # c => child'[d] = ch[d]
  BY <1>p DEF AsksOf
<1>s. \/ strayed' = strayed \union {q}
      \/ /\ strayed' = strayed
         /\ \A d \in Processes : ch[d].worker = w /\ Tells(ch[d]) => ch[d].state = "alive" /\ pr[w] # d
  BY <1>p DEF AsksOf
<1>2. ch[c].worker \in {w, None} /\ c # None
  BY <1>0, <1>1, NotNone DEF Kept
<1>3. child'[c].state # "none"
  BY <1>1
<1>4. Kept(process', child')
  <2>1. ASSUME NEW d \in Processes, child'[d].state = "none"
        PROVE  child'[d].worker = None /\ child'[d].in = <<>> /\ child'[d].out = <<>>
    BY <1>0, <1>1, <1>3, <2>1 DEF Kept
  <2>2. ASSUME NEW d \in Processes, child'[d].state = "alive"
        PROVE  process'[child'[d].worker] = d
    <3>1. CASE d = c
      BY <1>1, <3>1
    <3>2. CASE d # c
      <4>1. ch[d].worker \in Workers /\ pr[ch[d].worker] = d /\ child'[d] = ch[d]
        BY <1>0, <1>1, <2>2, <3>2 DEF Kept
      <4>2. ch[d].worker # w
        BY <1>1, <3>2, <4>1, NotNone
      <4>. QED
        BY <1>1, <4>1, <4>2
    <3>. QED
      BY <3>1, <3>2
  <2>3. ASSUME NEW v \in Workers, process'[v] # None
        PROVE  child'[process'[v]].worker = v /\ child'[process'[v]].state \in {"alive", "crashed"}
    <3>1. CASE v = w
      BY <1>0, <1>1, <3>1 DEF Kept
    <3>2. CASE v # w
      <4>1. process'[v] = pr[v] /\ pr[v] \in Processes
        BY <1>0, <1>1, <2>3, <3>2 DEF ProcessType
      <4>2. ch[pr[v]].worker = v /\ ch[pr[v]].state \in {"alive", "crashed"}
        BY <1>0, <2>3, <4>1 DEF Kept
      <4>3. pr[v] # c
        BY <1>2, <3>2, <4>2, NotNone
      <4>. QED
        BY <1>1, <4>1, <4>2, <4>3
    <3>. QED
      BY <3>1, <3>2
  <2>4. \A d \in Processes : child'[d].state # "none" => child'[d].worker \in Workers
    BY <1>0, <1>1 DEF Kept
  <2>. QED
    BY <2>1, <2>2, <2>3, <2>4 DEF Kept
<1>5. One(asked')
  <2>1. \A r \in Questions : asked'[r].at = "asking" => asked'[r].worker \in Workers
    BY <1>0, <1>1 DEF One
  <2>2. ASSUME NEW r \in Questions, NEW s \in Questions, asked'[r].at = "asking", asked'[s].at = "asking",
               asked'[r].worker = asked'[s].worker
        PROVE  r = s
    <3>1. CASE r = q \/ s = q
      BY ZenonT(30), <1>1, <2>2, <3>1
    <3>2. CASE r # q /\ s # q
      <4>1. asked'[r] = as[r] /\ asked'[s] = as[s]
        BY <1>1, <3>2
      <4>. QED
        BY <1>0, <2>2, <4>1 DEF One
    <3>. QED
      BY <3>1, <3>2
  <2>. QED
    BY <2>1, <2>2 DEF One
<1>6. ASSUME NEW r \in Questions \ strayed', asked'[r].at = "asking"
      PROVE  \E d \in Processes : Alone(r, d, asked', process', child')
  <2>1. CASE r = q
    <3>1. \A d \in Processes : ch[d].worker = w => ~Tells(ch[d])
      BY <1>0, <1>6, <1>s, <2>1 DEF Kept
    <3>2. ch[c].state \in {"none", "alive"} /\ ch[c].in = <<>> /\ ch[c].out = <<>>
      <4>1. CASE ch[c].state = "none"
        BY <1>0, <4>1 DEF Kept
      <4>2. CASE ch[c].state # "none"
        <5>1. pr[w] = c /\ ch[c].worker = w /\ ch[c].state \in {"alive", "crashed"}
          BY <1>0, <1>1, <4>2, NotNone DEF Kept
        <5>2. ~Tells(ch[c])
          BY <3>1, <5>1
        <5>. QED
          BY <5>1, <5>2 DEF Tells
      <4>. QED
        BY <4>1, <4>2
    <3>3. child'[c].in = <<q>> /\ child'[c].out = <<>>
      BY <1>1, <3>2
    <3>4. \A d \in Processes \ {c} : child'[d].worker = w => ~Tells(child'[d])
      BY <1>1, <3>1
    <3>5. Alone(q, c, asked', process', child')
      BY <1>1, <1>3, <3>3, <3>4 DEF Alone
    <3>. QED
      BY <2>1, <3>5
  <2>2. CASE r # q
    <3>1. asked'[r] = as[r] /\ r \notin strayed /\ as[r].worker # w /\ as[r].worker \in Workers
      BY <1>0, <1>1, <1>6, <1>s, <2>2 DEF One
    <3>2. PICK d \in Processes : Alone(r, d, as, pr, ch)
      BY <1>0, <1>1, <1>6, <3>1 DEF Apart
    <3>3. d # c
      BY <1>2, <3>1, <3>2, NotNone DEF Alone
    <3>4. Alone(r, d, asked', process', child')
      <4>1. child'[d] = ch[d] /\ process'[as[r].worker] = pr[as[r].worker]
        BY <1>1, <3>1, <3>3
      <4>2. \A e \in Processes \ {d} : child'[e].worker = as[r].worker => ~Tells(child'[e])
        BY <1>1, <3>1, <3>2 DEF Alone
      <4>. QED
        BY <3>1, <3>2, <4>1, <4>2 DEF Alone
    <3>. QED
      BY <3>4
  <2>. QED
    BY <2>1, <2>2
<1>. QED
  BY <1>1, <1>4, <1>5, <1>6 DEF Good, Apart
-----------------------------------------------------------------------------
(* The pieces of an event.                                                  *)

Free(w, as) == \A r \in Questions : as[r].at = "asking" => as[r].worker # w

\* A question has its answer: its worker is free.
LEMMA EndedKeeps ==
  ASSUME NEW as, NEW pr, NEW ch, NEW st, Good(as, pr, ch, st), NEW q \in Questions,
         as[q].at = "asking", NEW got \in Got
  PROVE  LET done == [as EXCEPT ![q] = [at |-> "done", worker |-> None, got |-> got]]
         IN Good(done, pr, ch, st) /\ Free(as[q].worker, done)
<1>. DEFINE done == [as EXCEPT ![q] = [at |-> "done", worker |-> None, got |-> got]]
<1>0. as \in AskedType /\ pr \in ProcessType /\ ch \in ChildType /\ Kept(pr, ch) /\ One(as) /\ Apart(as, pr, ch, st)
  BY DEF Good
<1>1. done \in AskedType
  BY <1>0 DEF AskedType
<1>2. done[q].at = "done" /\ \A r \in Questions : r # q => done[r] = as[r]
  BY <1>0 DEF AskedType
<1>. HIDE DEF done
<1>3. One(done)
  <2>1. \A r \in Questions : done[r].at = "asking" => r # q /\ done[r] = as[r]
    BY <1>2
  <2>. QED
    BY <1>0, <2>1 DEF One
<1>4. Apart(done, pr, ch, st)
  <2>. SUFFICES ASSUME NEW r \in Questions \ st, done[r].at = "asking"
                PROVE  \E c \in Processes : Alone(r, c, done, pr, ch)
    BY DEF Apart
  <2>1. r # q /\ done[r] = as[r]
    BY <1>2
  <2>2. PICK c \in Processes : Alone(r, c, as, pr, ch)
    BY <1>0, <2>1 DEF Apart
  <2>3. Alone(r, c, done, pr, ch)
    BY <2>1, <2>2 DEF Alone
  <2>. QED
    BY <2>3
<1>5. Free(as[q].worker, done)
  <2>. SUFFICES ASSUME NEW r \in Questions, done[r].at = "asking", done[r].worker = as[q].worker
                PROVE  FALSE
    BY DEF Free
  <2>1. r # q /\ done[r] = as[r]
    BY <1>2
  <2>. QED
    BY <1>0, <2>1 DEF One
<1>6. Good(done, pr, ch, st)
  BY <1>0, <1>1, <1>3, <1>4 DEF Good
<1>. QED
  BY <1>5, <1>6 DEF done

\* Something changes of a process whose worker is free: no question hears of it.
LEMMA ApartKeeps ==
  ASSUME NEW as \in AskedType, NEW pr, NEW ch, NEW st, One(as), Apart(as, pr, ch, st),
         NEW w \in Workers, Free(w, as), NEW pr2, NEW ch2,
         \A v \in Workers : v # w => pr2[v] = pr[v],
         \A d \in Processes : ch[d].worker # w => ch2[d] = ch[d],
         \A d \in Processes : ch2[d].worker = ch[d].worker
  PROVE  Apart(as, pr2, ch2, st)
<1>. SUFFICES ASSUME NEW r \in Questions \ st, as[r].at = "asking"
              PROVE  \E c \in Processes : Alone(r, c, as, pr2, ch2)
  BY DEF Apart
<1>1. as[r].worker # w /\ as[r].worker \in Workers
  BY DEF Free, One
<1>2. PICK c \in Processes : Alone(r, c, as, pr, ch)
  BY DEF Apart
<1>3. ch[c].worker = as[r].worker
  BY <1>2 DEF Alone
<1>4. ch2[c] = ch[c] /\ pr2[as[r].worker] = pr[as[r].worker]
  BY <1>1, <1>3
<1>5. \A d \in Processes \ {c} : ch2[d].worker = as[r].worker => ~Tells(ch2[d])
  BY <1>1, <1>2 DEF Alone
<1>6. Alone(r, c, as, pr2, ch2)
  BY <1>2, <1>4, <1>5 DEF Alone
<1>. QED
  BY <1>6

\* What kernel.stop() does to a process.
LEMMA KilledDoes ==
  ASSUME NEW ch \in ChildType, NEW c \in Processes
  PROVE  /\ Killed(ch, c) \in ChildType
         /\ \A d \in Processes : d # c => Killed(ch, c)[d] = ch[d]
         /\ Killed(ch, c)[c].state = IF ch[c].state = "alive" THEN "killed" ELSE ch[c].state
         /\ Killed(ch, c)[c].worker = ch[c].worker
         /\ Killed(ch, c)[c].in = <<>> /\ Killed(ch, c)[c].out = ch[c].out
<1>. DEFINE state == IF ch[c].state = "alive" THEN "killed" ELSE ch[c].state
            k1 == [ch EXCEPT ![c].state = state]
            none == <<>>
            k2 == [k1 EXCEPT ![c].in = none]
<1>e. none \in Seq(Questions)
  OBVIOUS
<1>0. ch[c] \in Child /\ c # None
  BY NotNone DEF ChildType
<1>1. state \in State
  BY <1>0 DEF Child, State
<1>2. Killed(ch, c) = k2
  BY <1>0 DEF Killed, ChildType, Child
<1>. HIDE DEF state
<1>3. /\ k1 \in ChildType /\ k1[c].worker = ch[c].worker /\ k1[c].out = ch[c].out /\ k1[c].state = state
      /\ \A d \in Processes : d # c => k1[d] = ch[d]
  BY <1>1 DEF ChildType, Child
<1>. HIDE DEF k1, none
<1>4. /\ k2 \in ChildType /\ k2[c].worker = ch[c].worker /\ k2[c].out = ch[c].out /\ k2[c].state = state
      /\ k2[c].in = none /\ \A d \in Processes : d # c => k2[d] = ch[d]
  BY <1>3, <1>e DEF ChildType, Child
<1>. HIDE DEF k2
<1>. QED
  BY <1>2, <1>4 DEF state, none

\* A free worker's process is stopped.
LEMMA StoppedKeeps ==
  ASSUME NEW as, NEW pr, NEW ch, NEW st, Good(as, pr, ch, st), NEW w \in Workers, Free(w, as)
  PROVE  Good(as, [pr EXCEPT ![w] = None], Killed(ch, pr[w]), st)
<1>. DEFINE pr2 == [pr EXCEPT ![w] = None]
            ch2 == Killed(ch, pr[w])
<1>0. as \in AskedType /\ pr \in ProcessType /\ ch \in ChildType /\ Kept(pr, ch) /\ One(as) /\ Apart(as, pr, ch, st)
  BY DEF Good
<1>1. pr2 \in ProcessType /\ pr2[w] = None /\ \A v \in Workers : v # w => pr2[v] = pr[v]
  BY <1>0 DEF ProcessType
<1>2. /\ ch2 \in ChildType
      /\ \A d \in Processes : d # pr[w] => ch2[d] = ch[d]
      /\ \A d \in Processes : /\ ch2[d].worker = ch[d].worker /\ ch2[d].out = ch[d].out
                              /\ ch2[d].in \in {ch[d].in, <<>>}
                              /\ ch2[d].state \in {ch[d].state, "killed"}
                              /\ ch2[d].state = "none" <=> ch[d].state = "none"
                              /\ d = pr[w] => ch2[d].state # "alive"
  <2>1. CASE pr[w] = None
    <3>1. ch2 = ch
      BY <2>1 DEF Killed
    <3>. QED
      BY <1>0, <2>1, <3>1, NotNone
  <2>2. CASE pr[w] # None
    <3>1. pr[w] \in Processes
      BY <1>0, <2>2 DEF ProcessType
    <3>. HIDE DEF ch2
    <3>2. /\ ch2 \in ChildType
          /\ \A d \in Processes : d # pr[w] => ch2[d] = ch[d]
          /\ ch2[pr[w]].state = IF ch[pr[w]].state = "alive" THEN "killed" ELSE ch[pr[w]].state
          /\ ch2[pr[w]].worker = ch[pr[w]].worker
          /\ ch2[pr[w]].in = <<>> /\ ch2[pr[w]].out = ch[pr[w]].out
      BY <1>0, <3>1, KilledDoes DEF ch2
    <3>3. ch[pr[w]].state # "none"
      BY <1>0, <2>2 DEF Kept
    <3>4. ASSUME NEW d \in Processes, d # pr[w]
          PROVE  /\ ch2[d].worker = ch[d].worker /\ ch2[d].out = ch[d].out
                 /\ ch2[d].in \in {ch[d].in, <<>>}
                 /\ ch2[d].state \in {ch[d].state, "killed"}
                 /\ ch2[d].state = "none" <=> ch[d].state = "none"
      BY <3>2, <3>4
    <3>5. /\ ch2[pr[w]].worker = ch[pr[w]].worker /\ ch2[pr[w]].out = ch[pr[w]].out
          /\ ch2[pr[w]].in \in {ch[pr[w]].in, <<>>}
          /\ ch2[pr[w]].state \in {ch[pr[w]].state, "killed"}
          /\ ch2[pr[w]].state = "none" <=> ch[pr[w]].state = "none"
          /\ ch2[pr[w]].state # "alive"
      BY <3>2, <3>3
    <3>. QED
      BY <3>2, <3>4, <3>5
  <2>. QED
    BY <2>1, <2>2
<1>. HIDE DEF pr2, ch2
<1>3. Kept(pr2, ch2)
  <2>1. \A d \in Processes : ch2[d].state = "none" => ch2[d].worker = None /\ ch2[d].in = <<>> /\ ch2[d].out = <<>>
    BY <1>0, <1>2 DEF Kept
  <2>2. ASSUME NEW d \in Processes, ch2[d].state = "alive"
        PROVE  pr2[ch2[d].worker] = d
    <3>1. d # pr[w] /\ ch2[d] = ch[d]
      BY <1>2, <2>2
    <3>2. pr[ch[d].worker] = d /\ ch[d].worker \in Workers
      BY <1>0, <2>2, <3>1 DEF Kept
    <3>. QED
      BY <1>1, <3>1, <3>2
  <2>3. \A d \in Processes : ch2[d].state # "none" => ch2[d].worker \in Workers
    BY <1>0, <1>2 DEF Kept
  <2>4. ASSUME NEW v \in Workers, pr2[v] # None
        PROVE  ch2[pr2[v]].worker = v /\ ch2[pr2[v]].state \in {"alive", "crashed"}
    <3>1. v # w /\ pr2[v] = pr[v] /\ pr[v] \in Processes
      BY <1>0, <1>1, <2>4 DEF ProcessType
    <3>2. ch[pr[v]].worker = v /\ ch[pr[v]].state \in {"alive", "crashed"}
      BY <1>0, <2>4, <3>1 DEF Kept
    <3>3. pr[v] # pr[w]
      BY <1>0, <2>4, <3>1, <3>2 DEF Kept
    <3>. QED
      BY <1>2, <3>1, <3>2, <3>3
  <2>. QED
    BY <2>1, <2>2, <2>3, <2>4 DEF Kept
<1>4. \A d \in Processes : ch[d].worker # w => ch2[d] = ch[d]
  <2>. SUFFICES ASSUME NEW d \in Processes, ch[d].worker # w, d = pr[w] PROVE FALSE
    BY <1>2
  <2>. QED
    BY <1>0, NotNone DEF Kept
<1>5. Apart(as, pr2, ch2, st)
  BY ZenonT(30), <1>0, <1>1, <1>2, <1>4, ApartKeeps
<1>6. Good(as, pr2, ch2, st)
  BY <1>0, <1>1, <1>2, <1>3, <1>5 DEF Good
<1>. QED
  BY <1>6 DEF pr2, ch2

\* A line of a free worker's process is taken.
LEMMA LineKeeps ==
  ASSUME NEW as, NEW pr, NEW ch, NEW st, Good(as, pr, ch, st), NEW c \in Processes,
         ch[c].out # <<>>, Free(ch[c].worker, as)
  PROVE  Good(as, pr, [ch EXCEPT ![c].out = Tail(@)], st)
<1>. DEFINE ch2 == [ch EXCEPT ![c].out = Tail(@)]
<1>0. as \in AskedType /\ pr \in ProcessType /\ ch \in ChildType /\ Kept(pr, ch) /\ One(as) /\ Apart(as, pr, ch, st)
  BY DEF Good
<1>1. Tail(ch[c].out) \in Seq(Questions)
  BY <1>0 DEF ChildType, Child
<1>2. ch2 \in ChildType
  BY <1>0, <1>1 DEF ChildType, Child
<1>3. /\ \A d \in Processes : d # c => ch2[d] = ch[d]
      /\ \A d \in Processes : ch2[d].worker = ch[d].worker /\ ch2[d].state = ch[d].state /\ ch2[d].in = ch[d].in
  BY <1>0 DEF ChildType, Child
<1>. HIDE DEF ch2
<1>4. ch[c].state # "none" /\ ch[c].worker \in Workers
  BY <1>0 DEF Kept
<1>5. Kept(pr, ch2)
  <2>1. \A v \in Workers : pr[v] # None => pr[v] \in Processes
    BY <1>0 DEF ProcessType
  <2>. QED
    BY <1>0, <1>3, <1>4, <2>1 DEF Kept
<1>6. Apart(as, pr, ch2, st)
  <2>. DEFINE w == ch[c].worker
  <2>1. \A d \in Processes : ch[d].worker # w => ch2[d] = ch[d]
    BY <1>3
  <2>. QED
    BY <1>0, <1>3, <1>4, <2>1, ApartKeeps
<1>7. Good(as, pr, ch2, st)
  BY <1>0, <1>2, <1>5, <1>6 DEF Good
<1>. QED
  BY <1>7 DEF ch2

\* The exit of a free worker's process is handled.
LEMMA ExitKeeps ==
  ASSUME NEW as, NEW pr, NEW ch, NEW st, Good(as, pr, ch, st), NEW c \in Processes,
         ch[c].state \in {"killed", "crashed"}, Free(ch[c].worker, as)
  PROVE  LET w == ch[c].worker
         IN Good(as, IF pr[w] = c THEN [pr EXCEPT ![w] = None] ELSE pr, [ch EXCEPT ![c].state = "gone"], st)
<1>. DEFINE w == ch[c].worker
            pr2 == IF pr[w] = c THEN [pr EXCEPT ![w] = None] ELSE pr
            ch2 == [ch EXCEPT ![c].state = "gone"]
<1>0. as \in AskedType /\ pr \in ProcessType /\ ch \in ChildType /\ Kept(pr, ch) /\ One(as) /\ Apart(as, pr, ch, st)
  BY DEF Good
<1>1. w \in Workers
  BY <1>0 DEF Kept
<1>2. ch2 \in ChildType
  BY <1>0 DEF ChildType, Child, State
<1>3. /\ ch2[c].state = "gone"
      /\ \A d \in Processes : d # c => ch2[d] = ch[d]
      /\ \A d \in Processes : ch2[d].worker = ch[d].worker /\ ch2[d].in = ch[d].in /\ ch2[d].out = ch[d].out
  BY <1>0 DEF ChildType, Child
<1>. HIDE DEF ch2
<1>4. /\ pr2 \in ProcessType
      /\ \A v \in Workers : v # w => pr2[v] = pr[v]
      /\ pr2[w] # c /\ pr2[w] \in {pr[w], None}
  <2>1. CASE pr[w] = c
    BY <1>0, <1>1, <2>1, NotNone DEF ProcessType
  <2>2. CASE pr[w] # c
    BY <1>0, <2>2
  <2>. QED
    BY <2>1, <2>2
<1>. HIDE DEF pr2
<1>5. Kept(pr2, ch2)
  <2>1. \A d \in Processes : ch2[d].state = "none" => ch2[d].worker = None /\ ch2[d].in = <<>> /\ ch2[d].out = <<>>
    BY <1>0, <1>3 DEF Kept
  <2>2. ASSUME NEW d \in Processes, ch2[d].state = "alive"
        PROVE  pr2[ch2[d].worker] = d
    <3>1. d # c /\ ch2[d] = ch[d]
      BY <1>3, <2>2
    <3>2. pr[ch[d].worker] = d
      BY <1>0, <2>2, <3>1 DEF Kept
    <3>3. ch[d].worker \in Workers
      BY <1>0, <2>2, <3>1 DEF Kept
    <3>4. CASE ch[d].worker = w
      <4>1. pr[w] = d
        BY <3>2, <3>4
      <4>2. pr2[w] = pr[w]
        BY <3>1, <4>1 DEF pr2
      <4>. QED
        BY <3>1, <3>4, <4>1, <4>2
    <3>5. CASE ch[d].worker # w
      BY <1>4, <3>1, <3>2, <3>3, <3>5
    <3>. QED
      BY <3>4, <3>5
  <2>3. \A d \in Processes : ch2[d].state # "none" => ch2[d].worker \in Workers
    BY <1>0, <1>3 DEF Kept
  <2>4. ASSUME NEW v \in Workers, pr2[v] # None
        PROVE  ch2[pr2[v]].worker = v /\ ch2[pr2[v]].state \in {"alive", "crashed"}
    <3>1. pr2[v] = pr[v] /\ pr[v] \in Processes
      BY <1>0, <1>4, <2>4 DEF ProcessType
    <3>2. ch[pr[v]].worker = v /\ ch[pr[v]].state \in {"alive", "crashed"}
      BY <1>0, <2>4, <3>1 DEF Kept
    <3>3. pr[v] # c
      BY <1>4, <3>1, <3>2
    <3>. QED
      BY <1>3, <3>1, <3>2, <3>3
  <2>. QED
    BY <2>1, <2>2, <2>3, <2>4 DEF Kept
<1>6. Apart(as, pr2, ch2, st)
  <2>1. \A d \in Processes : ch[d].worker # w => ch2[d] = ch[d]
    BY <1>3
  <2>2. \A d \in Processes : ch2[d].worker = ch[d].worker
    BY <1>3
  <2>3. \A v \in Workers : v # w => pr2[v] = pr[v]
    BY <1>4
  <2>. QED
    BY <1>0, <1>1, <2>1, <2>2, <2>3, ApartKeeps
<1>7. Good(as, pr2, ch2, st)
  BY <1>0, <1>2, <1>4, <1>5, <1>6 DEF Good
<1>. QED
  BY <1>7 DEF pr2, ch2, w
-----------------------------------------------------------------------------
(* The events.                                                              *)

\* What the rest of the invariant needs to know of a step.
Usual ==
  /\ waiting' \in Seq(Questions) /\ stopped' \in BOOLEAN /\ made' \subseteq Workers
  /\ Pooled'

LEMMA InvNext == Good(asked', process', child', strayed') /\ Usual => Inv'
BY DEF Inv, TypeOK, Good, Usual

\* An event that ends q: it alone is done, with `got`, and its worker may go on with another.
LEMMA EndsDoes ==
  ASSUME Inv, NEW q \in Questions, asked[q].at = "asking", NEW got \in Got, NEW pr, NEW ch,
         Good([asked EXCEPT ![q] = [at |-> "done", worker |-> None, got |-> got]], pr, ch, strayed),
         Ends(q, got, pr, ch), UNCHANGED <<made, stopped>>
  PROVE  /\ Inv'
         /\ \A r \in Questions : asked[r].at = "asking" /\ asked'[r].at = "done" => r = q /\ asked'[r].got = got
<1>. DEFINE done == [asked EXCEPT ![q] = [at |-> "done", worker |-> None, got |-> got]]
            w == asked[q].worker
<1>0. /\ asked \in AskedType /\ waiting \in Seq(Questions) /\ stopped \in BOOLEAN /\ made \subseteq Workers /\ Pooled
      /\ Good(asked, process, child, strayed) /\ One(asked)
  BY DEF Inv, TypeOK, Good
<1>1. /\ done[q].at = "done" /\ done[q].got = got
      /\ \A r \in Questions : r # q => done[r] = asked[r]
  BY <1>0 DEF AskedType
<1>2. w \in Workers
  BY <1>0 DEF One
<1>3. Free(w, done)
  BY <1>0, EndedKeeps
<1>4. Good(done, pr, ch, strayed)
  OBVIOUS
<1>5. CASE ToWaiter
  <2>1. Asks(done, pr, ch, Head(waiting), w) /\ waiting' = Tail(waiting)
    BY <1>5 DEF Ends
  <2>2. Head(waiting) \in Questions /\ Tail(waiting) \in Seq(Questions)
    BY <1>0, <1>5 DEF ToWaiter
  <2>. DEFINE h == Head(waiting)
  <2>. HIDE DEF done, w, h
  <2>3. h \in Questions /\ Asks(done, pr, ch, h, w)
    BY <2>1, <2>2 DEF h
  <2>4. Good(asked', process', child', strayed')
    BY <1>2, <1>3, <1>4, <2>3, AsksKeeps DEF Free
  <2>5. done \in AskedType /\ pr \in ProcessType /\ ch \in ChildType
    BY <1>4 DEF Good
  <2>6. PICK c \in Processes : AsksOf(c, done, pr, ch, h, w)
    BY <1>2, <2>3, <2>5, AsksDoes
  <2>7. /\ asked'[h].at = "asking" /\ asked'[h].worker = w
        /\ \A r \in Questions : r # h => asked'[r] = done[r]
    BY <2>6 DEF AsksOf
  <2>8. Pooled'
    <3>1. ~stopped => w \in made
      BY <1>0 DEF w, Pooled
    <3>2. ASSUME NEW r \in Questions, asked'[r].at = "asking", ~stopped
          PROVE  asked'[r].worker \in made
      <4>1. CASE r = h
        BY <2>7, <3>1, <3>2, <4>1
      <4>2. CASE r # h
        <5>1. asked'[r] = done[r] /\ r # q
          BY <1>1, <2>7, <3>2, <4>2
        <5>. QED
          BY <1>0, <1>1, <3>2, <5>1 DEF Pooled
      <4>. QED
        BY <4>1, <4>2
    <3>. QED
      BY <3>2 DEF Pooled
  <2>9. Usual
    BY <1>0, <2>1, <2>2, <2>8 DEF Usual
  <2>10. ASSUME NEW r \in Questions, asked[r].at = "asking", asked'[r].at = "done"
         PROVE  r = q /\ asked'[r].got = got
    <3>1. asked'[r] = done[r]
      BY <2>7, <2>10
    <3>. QED
      BY <1>1, <2>10, <3>1
  <2>. QED
    BY <2>4, <2>9, <2>10, InvNext
<1>6. CASE ~ToWaiter
  <2>1. asked' = done /\ process' = pr /\ child' = ch /\ UNCHANGED <<waiting, strayed>>
    BY <1>6 DEF Ends
  <2>. HIDE DEF done, w
  <2>2. Good(asked', process', child', strayed')
    BY <1>4, <2>1
  <2>3. Pooled'
    BY <1>0, <1>1, <2>1 DEF Pooled
  <2>4. Usual
    BY <1>0, <2>1, <2>3 DEF Usual
  <2>5. \A r \in Questions : asked[r].at = "asking" /\ asked'[r].at = "done" => r = q /\ asked'[r].got = got
    BY <1>1, <2>1
  <2>. QED
    BY <2>2, <2>4, <2>5, InvNext
<1>. QED
  BY <1>5, <1>6

\* A step that ends no question.
Ongoing == \A r \in Questions : asked[r].at = "asking" => asked'[r].at # "done"

\* Questions change that are not being asked, and nothing else that is good.
LEMMA AskedKeeps ==
  ASSUME Inv, asked' \in AskedType, \A r \in Questions : asked'[r].at = "asking" => asked'[r] = asked[r],
         UNCHANGED <<process, child, strayed>>
  PROVE  Good(asked', process', child', strayed')
<1>1. /\ Good(asked, process, child, strayed) /\ One(asked) /\ Apart(asked, process, child, strayed)
  BY DEF Inv, Good
<1>2. One(asked')
  BY <1>1 DEF One
<1>3. Apart(asked', process', child', strayed')
  <2>. SUFFICES ASSUME NEW r \in Questions \ strayed, asked'[r].at = "asking"
                PROVE  \E c \in Processes : Alone(r, c, asked', process, child)
    BY DEF Apart
  <2>1. PICK c \in Processes : Alone(r, c, asked, process, child)
    BY <1>1 DEF Apart
  <2>2. Alone(r, c, asked', process, child)
    BY <2>1 DEF Alone
  <2>. QED
    BY <2>2
<1>. QED
  BY <1>1, <1>2, <1>3 DEF Good

LEMMA AskStep ==
  ASSUME Inv, NEW q \in Questions, Ask(q)
  PROVE  Inv' /\ Ongoing
<1>0. /\ asked \in AskedType /\ waiting \in Seq(Questions) /\ stopped \in BOOLEAN /\ made \subseteq Workers /\ Pooled
      /\ Good(asked, process, child, strayed) /\ process \in ProcessType /\ child \in ChildType
      /\ asked[q].at = "idle" /\ ~stopped /\ stopped' = stopped
  BY DEF Inv, TypeOK, Ask
<1>1. ASSUME NEW w \in Workers, ~Busy(w), Asks(asked, process, child, q, w),
             waiting' = waiting, made' = made \union {w}
      PROVE  Inv' /\ Ongoing
  <2>1. \A r \in Questions : asked[r].at = "asking" => asked[r].worker # w
    BY <1>1 DEF Busy, Asking
  <2>2. Good(asked', process', child', strayed')
    BY <1>0, <1>1, <2>1, AsksKeeps
  <2>3. PICK c \in Processes : AsksOf(c, asked, process, child, q, w)
    BY <1>0, <1>1, AsksDoes
  <2>4. /\ asked'[q].at = "asking" /\ asked'[q].worker = w
        /\ \A r \in Questions : r # q => asked'[r] = asked[r]
    BY <2>3 DEF AsksOf
  <2>5. Pooled'
    BY <1>0, <1>1, <2>4 DEF Pooled
  <2>6. Usual
    BY <1>0, <1>1, <2>5 DEF Usual
  <2>7. Ongoing
    BY <2>4 DEF Ongoing
  <2>. QED
    BY <2>2, <2>6, <2>7, InvNext
<1>2. CASE \E w \in made : ~Busy(w) /\ Asks(asked, process, child, q, w) /\ UNCHANGED <<made, waiting>>
  <2>1. PICK w \in made : ~Busy(w) /\ Asks(asked, process, child, q, w) /\ UNCHANGED <<made, waiting>>
    BY <1>2
  <2>2. w \in Workers /\ made' = made \union {w}
    BY <1>0, <2>1
  <2>. QED
    BY <1>1, <2>1, <2>2
<1>3. CASE \E w \in Workers \ made : Asks(asked, process, child, q, w) /\ made' = made \union {w} /\ UNCHANGED waiting
  <2>1. PICK w \in Workers \ made : Asks(asked, process, child, q, w) /\ made' = made \union {w} /\ UNCHANGED waiting
    BY <1>3
  <2>2. ~Busy(w)
    BY <1>0, <2>1 DEF Pooled, Busy, Asking
  <2>. QED
    BY <1>1, <2>1, <2>2
<1>4. CASE /\ asked' = [asked EXCEPT ![q].at = "waiting"]
           /\ waiting' = Append(waiting, q)
           /\ UNCHANGED <<made, process, child, strayed>>
  <2>1. asked' \in AskedType
    BY <1>0, <1>4 DEF AskedType
  <2>2. asked'[q].at = "waiting" /\ \A r \in Questions : r # q => asked'[r] = asked[r]
    BY <1>0, <1>4 DEF AskedType
  <2>3. \A r \in Questions : asked'[r].at = "asking" => asked'[r] = asked[r]
    BY <2>2
  <2>6. Good(asked', process', child', strayed')
    BY <1>4, <2>1, <2>3, AskedKeeps
  <2>7. Pooled'
    BY <1>0, <1>4, <2>3 DEF Pooled
  <2>8. Usual
    BY <1>0, <1>4, <2>7 DEF Usual
  <2>9. Ongoing
    BY <1>0, <2>2 DEF Ongoing
  <2>. QED
    BY <2>6, <2>8, <2>9, InvNext
<1>. QED
  BY <1>2, <1>3, <1>4 DEF Ask

LEMMA LeavesQueueStep ==
  ASSUME Inv, NEW q \in Questions, LeavesQueue(q)
  PROVE  Inv' /\ Ongoing
<1>0. /\ asked \in AskedType /\ waiting \in Seq(Questions) /\ stopped \in BOOLEAN /\ made \subseteq Workers /\ Pooled
      /\ asked[q].at = "waiting" /\ UNCHANGED <<made, process, child, stopped, strayed>>
  BY DEF Inv, TypeOK, LeavesQueue
<1>1. asked' = [asked EXCEPT ![q] = [at |-> "done", worker |-> None, got |-> Refused]]
  BY DEF LeavesQueue
<1>2. asked' \in AskedType
  BY <1>0, <1>1 DEF AskedType, Got
<1>3. asked'[q].at = "done" /\ \A r \in Questions : r # q => asked'[r] = asked[r]
  BY <1>0, <1>1 DEF AskedType
<1>4. Good(asked', process', child', strayed')
  BY <1>0, <1>2, <1>3, AskedKeeps
<1>5. waiting' \in Seq(Questions)
  <2>1. PICK i \in DOMAIN waiting : waiting' = RemoveAt(waiting, i)
    BY DEF LeavesQueue
  <2>2. i \in 1 .. Len(waiting)
    BY <1>0
  <2>3. SubSeq(waiting, 1, i - 1) \in Seq(Questions) /\ SubSeq(waiting, i + 1, Len(waiting)) \in Seq(Questions)
    BY <1>0, <2>2
  <2>. QED
    BY <2>1, <2>3 DEF RemoveAt
<1>6. Pooled'
  BY <1>0, <1>3 DEF Pooled
<1>7. Usual
  BY <1>0, <1>5, <1>6 DEF Usual
<1>8. Ongoing
  BY <1>0, <1>3 DEF Ongoing
<1>. QED
  BY <1>4, <1>7, <1>8, InvNext

LEMMA TimesOutStep ==
  ASSUME Inv, NEW q \in Questions, TimesOut(q)
  PROVE  /\ Inv'
         /\ \A r \in Questions : asked[r].at = "asking" /\ asked'[r].at = "done" => asked'[r].got = Refused
<1>. DEFINE w == asked[q].worker
            done == [asked EXCEPT ![q] = [at |-> "done", worker |-> None, got |-> Refused]]
<1>1. asked[q].at = "asking" /\ Refused \in Got /\ Good(asked, process, child, strayed)
  BY DEF TimesOut, Got, Inv
<1>2. Good(done, process, child, strayed) /\ Free(w, done)
  BY <1>1, EndedKeeps
<1>3. w \in Workers
  BY <1>1 DEF Good, One
<1>4. Good(done, [process EXCEPT ![w] = None], Killed(child, process[w]), strayed)
  <2>. HIDE DEF done, w
  <2>. QED
    BY <1>2, <1>3, StoppedKeeps
<1>5. Ends(q, Refused, [process EXCEPT ![w] = None], Killed(child, process[w])) /\ UNCHANGED <<made, stopped>>
  BY DEF TimesOut
<1>. QED
  BY <1>1, <1>4, <1>5, EndsDoes

\* A line or an exit that nobody waits for.
LEMMA Unheard ==
  ASSUME Inv, Good(asked, process', child', strayed), UNCHANGED <<asked, made, waiting, stopped, strayed>>
  PROVE  Inv' /\ Ongoing
<1>1. Usual
  BY DEF Inv, TypeOK, Usual, Pooled
<1>2. Ongoing
  BY DEF Ongoing
<1>. QED
  BY <1>1, <1>2, InvNext

LEMMA PrintsStep ==
  ASSUME Inv, NEW c \in Processes, Prints(c)
  PROVE  Inv' /\ Ongoing
<1>. DEFINE in == Tail(child[c].in)
            out == Append(child[c].out, Head(child[c].in))
<1>0. /\ child[c].state = "alive" /\ child[c].in # <<>>
      /\ UNCHANGED <<asked, made, waiting, process, stopped, strayed>>
      /\ child \in ChildType /\ child[c] \in Child /\ asked \in AskedType /\ process \in ProcessType
      /\ Kept(process, child) /\ One(asked) /\ Apart(asked, process, child, strayed)
  BY DEF Prints, Inv, Good, ChildType
<1>1. in \in Seq(Questions) /\ out \in Seq(Questions)
  BY <1>0 DEF Child
<1>2. child' = [child EXCEPT ![c].out = out, ![c].in = in]
  BY <1>0 DEF Prints, ChildType, Child
<1>. HIDE DEF in, out
<1>. DEFINE k1 == [child EXCEPT ![c].out = out]
            k2 == [k1 EXCEPT ![c].in = in]
<1>3. /\ k1 \in ChildType /\ k1[c].worker = child[c].worker /\ k1[c].state = child[c].state /\ k1[c].out = out
      /\ \A d \in Processes : d # c => k1[d] = child[d]
  BY <1>0, <1>1 DEF ChildType, Child
<1>4. child' = k2
  BY <1>2
<1>. HIDE DEF k1
<1>5. /\ k2 \in ChildType /\ k2[c].worker = child[c].worker /\ k2[c].state = child[c].state
      /\ k2[c].out = out /\ k2[c].in = in
      /\ \A d \in Processes : d # c => k2[d] = child[d]
  BY <1>1, <1>3 DEF ChildType, Child
<1>. HIDE DEF k2
<1>6. /\ child' \in ChildType /\ child'[c].out = out /\ child'[c].in = in
      /\ \A d \in Processes : d # c => child'[d] = child[d]
      /\ \A d \in Processes : child'[d].worker = child[d].worker /\ child'[d].state = child[d].state
  BY <1>4, <1>5
<1>7. Kept(process, child')
  <2>1. \A w \in Workers : process[w] # None => process[w] \in Processes
    BY <1>0 DEF ProcessType
  <2>. QED
    BY <1>0, <1>6, <2>1 DEF Kept
<1>8. ASSUME NEW r \in Questions \ strayed, asked[r].at = "asking"
      PROVE  \E d \in Processes : Alone(r, d, asked, process, child')
  <2>1. PICK d \in Processes : Alone(r, d, asked, process, child)
    BY <1>0, <1>8 DEF Apart
  <2>2. Tells(child[c])
    BY <1>0 DEF Tells
  <2>3. child[c].worker = asked[r].worker => c = d
    BY <2>1, <2>2 DEF Alone
  <2>4. \A e \in Processes \ {d} : child'[e].worker = asked[r].worker => ~Tells(child'[e])
    BY <1>6, <2>1, <2>3 DEF Alone
  <2>5. CASE c = d
    <3>1. child[c].in = <<r>> /\ child[c].out = <<>>
      BY <1>0, <2>1, <2>5 DEF Alone
    <3>2. in = <<>> /\ out = <<r>>
      BY <3>1 DEF in, out
    <3>3. Alone(r, d, asked, process, child')
      BY <1>6, <2>1, <2>4, <2>5, <3>2 DEF Alone
    <3>. QED
      BY <3>3
  <2>6. CASE c # d
    <3>1. Alone(r, d, asked, process, child')
      BY <1>6, <2>1, <2>4, <2>6 DEF Alone
    <3>. QED
      BY <3>1
  <2>. QED
    BY <2>5, <2>6
<1>9. Apart(asked, process, child', strayed)
  BY <1>8 DEF Apart
<1>10. Good(asked, process', child', strayed)
  BY <1>0, <1>6, <1>7, <1>9 DEF Good
<1>. QED
  BY <1>0, <1>10, Unheard

LEMMA CrashesStep ==
  ASSUME Inv, NEW c \in Processes, Crashes(c)
  PROVE  Inv' /\ Ongoing
<1>0. /\ child[c].state = "alive"
      /\ UNCHANGED <<asked, made, waiting, process, stopped, strayed>>
      /\ child \in ChildType /\ asked \in AskedType /\ process \in ProcessType
      /\ Kept(process, child) /\ One(asked) /\ Apart(asked, process, child, strayed)
  BY DEF Crashes, Inv, Good
<1>. DEFINE none == <<>>
            k1 == [child EXCEPT ![c].state = "crashed"]
            k2 == [k1 EXCEPT ![c].in = none]
<1>1. none \in Seq(Questions)
  OBVIOUS
<1>2. child' = k2
  BY <1>0 DEF Crashes, ChildType, Child
<1>3. /\ k1 \in ChildType /\ k1[c].worker = child[c].worker /\ k1[c].state = "crashed" /\ k1[c].out = child[c].out
      /\ \A d \in Processes : d # c => k1[d] = child[d]
  BY <1>0 DEF ChildType, Child, State
<1>. HIDE DEF k1, none
<1>4. /\ k2 \in ChildType /\ k2[c].worker = child[c].worker /\ k2[c].state = "crashed" /\ k2[c].out = child[c].out
      /\ k2[c].in = none
      /\ \A d \in Processes : d # c => k2[d] = child[d]
  BY <1>1, <1>3 DEF ChildType, Child
<1>. HIDE DEF k2
<1>5. /\ child' \in ChildType /\ child'[c].in = <<>> /\ child'[c].state = "crashed"
      /\ \A d \in Processes : d # c => child'[d] = child[d]
      /\ \A d \in Processes : child'[d].worker = child[d].worker /\ child'[d].out = child[d].out
  BY <1>2, <1>4 DEF none
<1>6. Kept(process, child')
  <2>1. \A w \in Workers : process[w] # None => process[w] \in Processes
    BY <1>0 DEF ProcessType
  <2>2. \A d \in Processes : child'[d].state # "none" => child'[d].worker \in Workers
    BY <1>0, <1>5 DEF Kept
  <2>3. \A w \in Workers : process[w] # None =>
          child'[process[w]].worker = w /\ child'[process[w]].state \in {"alive", "crashed"}
    BY <1>0, <1>5, <2>1 DEF Kept
  <2>4. \A d \in Processes : child'[d].state = "alive" => process[child'[d].worker] = d
    BY <1>0, <1>5 DEF Kept
  <2>5. \A d \in Processes : child'[d].state = "none" =>
          child'[d].worker = None /\ child'[d].in = <<>> /\ child'[d].out = <<>>
    BY <1>0, <1>5 DEF Kept
  <2>. QED
    BY <2>2, <2>3, <2>4, <2>5 DEF Kept
<1>7. ASSUME NEW r \in Questions \ strayed, asked[r].at = "asking"
      PROVE  \E d \in Processes : Alone(r, d, asked, process, child')
  <2>1. PICK d \in Processes : Alone(r, d, asked, process, child)
    BY <1>0, <1>7 DEF Apart
  <2>2. child[c].worker = asked[r].worker => c = d
    BY <1>0, <2>1, NotNone DEF Alone, Kept
  <2>3. \A e \in Processes \ {d} : child'[e].worker = asked[r].worker => ~Tells(child'[e])
    BY <1>5, <2>1, <2>2 DEF Alone
  <2>4. Alone(r, d, asked, process, child')
    <3>1. CASE c = d
      BY <1>5, <2>1, <2>3, <3>1 DEF Alone
    <3>2. CASE c # d
      BY <1>5, <2>1, <2>3, <3>2 DEF Alone
    <3>. QED
      BY <3>1, <3>2
  <2>. QED
    BY <2>4
<1>8. Apart(asked, process, child', strayed)
  BY <1>7 DEF Apart
<1>9. Good(asked, process', child', strayed)
  BY <1>0, <1>5, <1>6, <1>8 DEF Good
<1>. QED
  BY <1>0, <1>9, Unheard

LEMMA LineStep ==
  ASSUME Inv, NEW c \in Processes, LineArrives(c)
  PROVE  /\ Inv'
         /\ \A r \in Questions : asked[r].at = "asking" /\ asked'[r].at = "done" =>
              asked[r].worker = child[c].worker /\ asked'[r].got = Head(child[c].out)
<1>. DEFINE w == child[c].worker
            ch == [child EXCEPT ![c].out = Tail(@)]
            got == Head(child[c].out)
<1>0. /\ child[c].out # <<>> /\ UNCHANGED <<made, stopped>>
      /\ Good(asked, process, child, strayed) /\ child[c] \in Child
  BY DEF LineArrives, Inv, Good, ChildType
<1>1. got \in Got
  BY <1>0 DEF Child, Got
<1>2. CASE Busy(w)
  <2>1. PICK q \in Asking(w) : Ends(q, got, process, ch)
    BY <1>2 DEF LineArrives
  <2>2. q \in Questions /\ asked[q].at = "asking" /\ asked[q].worker = w
    BY <2>1 DEF Asking
  <2>. DEFINE done == [asked EXCEPT ![q] = [at |-> "done", worker |-> None, got |-> got]]
  <2>. HIDE DEF got
  <2>3. Good(done, process, child, strayed) /\ Free(w, done)
    BY <1>0, <1>1, <2>2, EndedKeeps
  <2>4. Good(done, process, ch, strayed)
    <3>. HIDE DEF done
    <3>. QED
      BY <1>0, <2>3, LineKeeps
  <2>5. /\ Inv'
        /\ \A r \in Questions : asked[r].at = "asking" /\ asked'[r].at = "done" => r = q /\ asked'[r].got = got
    BY <1>0, <1>1, <2>1, <2>2, <2>4, EndsDoes
  <2>. QED
    BY <2>2, <2>5 DEF got
<1>3. CASE ~Busy(w)
  <2>1. child' = ch /\ UNCHANGED <<asked, waiting, process, strayed>>
    BY <1>3 DEF LineArrives
  <2>2. Free(w, asked)
    BY <1>3 DEF Busy, Asking, Free
  <2>3. Good(asked, process, ch, strayed)
    BY <1>0, <2>2, LineKeeps
  <2>4. Good(asked, process', child', strayed)
    BY <2>1, <2>3
  <2>. QED
    BY <1>0, <2>1, <2>4, Unheard DEF Ongoing
<1>. QED
  BY <1>2, <1>3

LEMMA ExitStep ==
  ASSUME Inv, NEW c \in Processes, ExitArrives(c)
  PROVE  /\ Inv'
         /\ \A r \in Questions : asked[r].at = "asking" /\ asked'[r].at = "done" =>
              asked[r].worker = child[c].worker /\ asked'[r].got = Lost
<1>. DEFINE w == child[c].worker
            ch == [child EXCEPT ![c].state = "gone"]
            pr == IF process[w] = c THEN [process EXCEPT ![w] = None] ELSE process
<1>0. /\ child[c].state \in {"killed", "crashed"} /\ UNCHANGED <<made, stopped>>
      /\ Good(asked, process, child, strayed) /\ Lost \in Got
  BY DEF ExitArrives, Inv, Good, Got
<1>2. CASE Busy(w)
  <2>1. PICK q \in Asking(w) : Ends(q, Lost, pr, ch)
    BY <1>2 DEF ExitArrives
  <2>2. q \in Questions /\ asked[q].at = "asking" /\ asked[q].worker = w
    BY <2>1 DEF Asking
  <2>. DEFINE done == [asked EXCEPT ![q] = [at |-> "done", worker |-> None, got |-> Lost]]
  <2>3. Good(done, process, child, strayed) /\ Free(w, done)
    BY <1>0, <2>2, EndedKeeps
  <2>4. Good(done, pr, ch, strayed)
    <3>. HIDE DEF done
    <3>. QED
      BY <1>0, <2>3, ExitKeeps
  <2>5. /\ Inv'
        /\ \A r \in Questions : asked[r].at = "asking" /\ asked'[r].at = "done" => r = q /\ asked'[r].got = Lost
    <3>. HIDE DEF ch, pr
    <3>. QED
      BY <1>0, <2>1, <2>2, <2>4, EndsDoes
  <2>. QED
    BY <2>2, <2>5
<1>3. CASE ~Busy(w)
  <2>1. child' = ch /\ process' = pr /\ UNCHANGED <<asked, waiting, strayed>>
    BY <1>3 DEF ExitArrives
  <2>2. Free(w, asked)
    BY <1>3 DEF Busy, Asking, Free
  <2>3. Good(asked, pr, ch, strayed)
    BY <1>0, <2>2, ExitKeeps
  <2>4. Good(asked, process', child', strayed)
    BY <2>1, <2>3
  <2>. QED
    BY <1>0, <2>1, <2>4, Unheard DEF Ongoing
<1>. QED
  BY <1>2, <1>3

LEMMA SweepStep ==
  ASSUME Inv, NEW w \in Workers, Sweep(w)
  PROVE  Inv' /\ Ongoing
<1>1. /\ child' = Killed(child, process[w]) /\ process' = [process EXCEPT ![w] = None]
      /\ UNCHANGED <<asked, made, waiting, stopped, strayed>>
      /\ Free(w, asked) /\ Good(asked, process, child, strayed)
  BY DEF Sweep, Inv, Busy, Asking, Free
<1>2. Good(asked, process', child', strayed)
  BY <1>1, StoppedKeeps
<1>. QED
  BY <1>1, <1>2, Unheard

LEMMA StopStep ==
  ASSUME Inv, Stop
  PROVE  Inv' /\ Ongoing
<1>0. /\ child \in ChildType /\ asked \in AskedType /\ process \in ProcessType
      /\ Kept(process, child) /\ One(asked) /\ Apart(asked, process, child, strayed)
      /\ strayed' = strayed
  BY DEF Stop, Inv, Good
<1>1. /\ process' \in ProcessType /\ \A w \in Workers : process'[w] = None
  BY DEF Stop, ProcessType
<1>2. /\ asked' \in AskedType
      /\ \A r \in Questions : asked[r].at # "waiting" => asked'[r] = asked[r]
      /\ \A r \in Questions : asked[r].at = "waiting" => asked'[r].at = "done"
  <2>1. asked' = [q \in Questions |-> IF asked[q].at = "waiting"
                                      THEN [at |-> "done", worker |-> None, got |-> Refused] ELSE asked[q]]
    BY DEF Stop
  <2>2. asked' \in AskedType
    BY <1>0, <2>1 DEF AskedType, Got
  <2>3. \A r \in Questions : asked[r].at # "waiting" => asked'[r] = asked[r]
    BY <2>1
  <2>4. \A r \in Questions : asked[r].at = "waiting" => asked'[r].at = "done"
    BY <2>1
  <2>. QED
    BY <2>2, <2>3, <2>4
<1>3. ASSUME NEW c \in Processes
      PROVE  /\ child'[c] \in Child /\ child'[c].worker = child[c].worker /\ child'[c].out = child[c].out
             /\ child'[c].in \in {child[c].in, <<>>}
             /\ child'[c].state # "alive"
             /\ child'[c].state = "none" <=> child[c].state = "none"
             /\ (\A w \in Workers : process[w] # c) => child'[c] = child[c]
  <2>1. child'[c] = IF \E w \in Workers : process[w] = c THEN Killed(child, c)[c] ELSE child[c]
    BY DEF Stop
  <2>2. CASE \E w \in Workers : process[w] = c
    <3>1. child'[c] = Killed(child, c)[c]
      BY <2>1, <2>2
    <3>2. /\ Killed(child, c) \in ChildType
          /\ Killed(child, c)[c].state = IF child[c].state = "alive" THEN "killed" ELSE child[c].state
          /\ Killed(child, c)[c].worker = child[c].worker
          /\ Killed(child, c)[c].in = <<>> /\ Killed(child, c)[c].out = child[c].out
      BY <1>0, KilledDoes
    <3>3. Killed(child, c)[c] \in Child
      BY <3>2 DEF ChildType
    <3>. QED
      BY <2>2, <3>1, <3>2, <3>3
  <2>3. CASE ~ \E w \in Workers : process[w] = c
    <3>1. child'[c] = child[c]
      BY <2>1, <2>3
    <3>2. child[c].state # "alive"
      BY <1>0, <2>3 DEF Kept
    <3>. QED
      BY <1>0, <3>1, <3>2 DEF ChildType
  <2>. QED
    BY <2>2, <2>3
<1>4. child' \in ChildType
  <2>1. child' = [c \in Processes |-> child'[c]]
    BY DEF Stop
  <2>. QED
    BY <1>3, <2>1 DEF ChildType
<1>5. Kept(process', child')
  BY <1>0, <1>1, <1>3 DEF Kept
<1>6. One(asked')
  <2>1. \A r \in Questions : asked'[r].at = "asking" => asked'[r] = asked[r]
    BY <1>2
  <2>. QED
    BY <1>0, <2>1 DEF One
<1>7. ASSUME NEW r \in Questions \ strayed, asked'[r].at = "asking"
      PROVE  \E d \in Processes : Alone(r, d, asked', process', child')
  <2>1. asked'[r] = asked[r] /\ asked[r].worker \in Workers
    BY <1>0, <1>2, <1>7 DEF One
  <2>2. PICK d \in Processes : Alone(r, d, asked, process, child)
    BY <1>0, <1>7, <2>1 DEF Apart
  <2>3. ASSUME NEW e \in Processes \ {d}, child'[e].worker = asked[r].worker
        PROVE  ~Tells(child'[e])
    <3>1. child[e].worker = asked[r].worker
      BY <1>3, <2>3
    <3>2. \A w \in Workers : process[w] # e
      BY <1>0, <2>1, <2>2, <2>3, <3>1, NotNone DEF Alone, Kept
    <3>3. child'[e] = child[e]
      BY <1>3, <3>2
    <3>. QED
      BY <2>2, <3>1, <3>3 DEF Alone
  <2>4. Alone(r, d, asked', process', child')
    BY <1>1, <1>3, <2>1, <2>2, <2>3 DEF Alone
  <2>. QED
    BY <2>4
<1>8. Apart(asked', process', child', strayed')
  BY <1>0, <1>7 DEF Apart
<1>9. Good(asked', process', child', strayed')
  BY <1>1, <1>2, <1>4, <1>5, <1>6, <1>8 DEF Good
<1>10. stopped' = TRUE
  BY DEF Stop
<1>11. Pooled'
  BY <1>10 DEF Pooled
<1>12. waiting' \in Seq(Questions) /\ made' \subseteq Workers
  BY DEF Stop
<1>13. stopped' \in BOOLEAN
  BY <1>10
<1>14. Ongoing
  BY <1>2 DEF Ongoing
<1>. QED
  BY <1>9, <1>11, <1>12, <1>13, <1>14, InvNext DEF Usual

-----------------------------------------------------------------------------
(* The theorem.                                                             *)

\* Whatever ends a question that met nothing older is its own: its answer, its process's end, or
\* a refusal.
OwnEnd ==
  \A q \in Questions \ strayed :
    (asked[q].at = "asking" /\ asked'[q].at = "done") =>
      \/ asked'[q].got \in {q, Refused}
      \/ asked'[q].got = Lost /\ \E c \in Processes : /\ child[c].worker = asked[q].worker
                                                      /\ child[c].state \in {"killed", "crashed"}
                                                      /\ process[asked[q].worker] \in {c, None}

LEMMA OwnEndStep == Inv /\ [Next]_vars => Inv' /\ OwnEnd
<1>. SUFFICES ASSUME Inv, [Next]_vars
              PROVE  Inv' /\ OwnEnd
  OBVIOUS
<1>1. Ongoing => OwnEnd
  BY DEF Ongoing, OwnEnd
<1>2. CASE \E q \in Questions : Ask(q) \/ LeavesQueue(q)
  BY <1>1, <1>2, AskStep, LeavesQueueStep
<1>3. CASE \E q \in Questions : TimesOut(q)
  BY <1>3, TimesOutStep DEF OwnEnd
<1>4. CASE \E c \in Processes : Prints(c) \/ Crashes(c)
  BY <1>1, <1>4, PrintsStep, CrashesStep
<1>5. ASSUME NEW c \in Processes, LineArrives(c)
      PROVE  Inv' /\ OwnEnd
  <2>1. Inv'
    BY <1>5, LineStep
  <2>2. ASSUME NEW q \in Questions \ strayed, asked[q].at = "asking", asked'[q].at = "done"
        PROVE  asked'[q].got = q
    <3>1. asked[q].worker = child[c].worker /\ asked'[q].got = Head(child[c].out)
      BY <1>5, <2>2, LineStep
    <3>2. PICK d \in Processes : Alone(q, d, asked, process, child)
      BY <2>2 DEF Inv, Good, Apart
    <3>3. child[c].out # <<>>
      BY <1>5 DEF LineArrives
    <3>4. c = d
      BY <3>1, <3>2, <3>3 DEF Alone, Tells
    <3>5. child[c].out = <<q>>
      BY <3>2, <3>3, <3>4 DEF Alone
    <3>. QED
      BY <3>1, <3>5
  <2>. QED
    BY <2>1, <2>2 DEF OwnEnd
<1>6. ASSUME NEW c \in Processes, ExitArrives(c)
      PROVE  Inv' /\ OwnEnd
  <2>1. Inv'
    BY <1>6, ExitStep
  <2>2. ASSUME NEW q \in Questions \ strayed, asked[q].at = "asking", asked'[q].at = "done"
        PROVE  /\ asked'[q].got = Lost /\ child[c].worker = asked[q].worker
               /\ child[c].state \in {"killed", "crashed"} /\ process[asked[q].worker] \in {c, None}
    <3>1. asked[q].worker = child[c].worker /\ asked'[q].got = Lost
      BY <1>6, <2>2, ExitStep
    <3>2. PICK d \in Processes : Alone(q, d, asked, process, child)
      BY <2>2 DEF Inv, Good, Apart
    <3>3. child[c].state \in {"killed", "crashed"}
      BY <1>6 DEF ExitArrives
    <3>4. c = d
      BY <3>1, <3>2, <3>3 DEF Alone, Tells
    <3>. QED
      BY <3>1, <3>2, <3>3, <3>4 DEF Alone
  <2>. QED
    BY <2>1, <2>2 DEF OwnEnd
<1>7. CASE (\E w \in Workers : Sweep(w)) \/ Stop
  BY <1>1, <1>7, SweepStep, StopStep
<1>8. CASE UNCHANGED vars
  <2>1. Good(asked, process', child', strayed)
    BY <1>8 DEF vars, Inv
  <2>2. UNCHANGED <<asked, made, waiting, stopped, strayed>>
    BY <1>8 DEF vars
  <2>. QED
    BY <1>1, <2>1, <2>2, Unheard
<1>. QED
  BY <1>2, <1>3, <1>4, <1>5, <1>6, <1>7, <1>8 DEF Next

\* A question that was not given to a worker with something else to tell gets its own answer, and
\* hears of the end of a process only when its own died, however many questions the pool has.
THEOREM AnswersAreOwn == Spec => AnswerIsOwn
<1>1. Inv /\ [Next]_vars => Inv'
  BY OwnEndStep
<1>2. Inv /\ [Next]_vars => [OwnEnd]_vars
  BY OwnEndStep
<1>3. Spec => [][OwnEnd]_vars
  BY InvInit, <1>1, <1>2, PTL DEF Spec
<1>. QED
  BY <1>3 DEF OwnEnd, AnswerIsOwn

-----------------------------------------------------------------------------
(* The pool at every moment.                                                *)

\* A worker is asked one question at a time and has one live process at most.
OneEach ==
  /\ \A q, r \in Questions :
       asked[q].at = "asking" /\ asked[r].at = "asking" /\ asked[q].worker = asked[r].worker => q = r
  /\ \A c, d \in Processes :
       child[c].state = "alive" /\ child[d].state = "alive" /\ child[c].worker = child[d].worker => c = d

LEMMA InvAlways == Spec => []Inv
<1>1. Inv /\ [Next]_vars => Inv'
  BY OwnEndStep
<1>. QED
  BY InvInit, <1>1, PTL DEF Spec

\* Types, for any number of questions, workers and processes.
THEOREM TypeCorrect == Spec => []TypeOK
BY InvAlways, PTL DEF Inv

\* Whatever times out, dies or is handed over, no worker is given a second question beside the one
\* it is at (pool.ts marks it busy), and no pipeline is started beside one of its that still lives.
THEOREM WorkersTakeOne == Spec => []OneEach
<1>1. Inv => OneEach
  BY DEF Inv, Good, One, Kept, OneEach
<1>. QED
  BY <1>1, InvAlways, PTL

-----------------------------------------------------------------------------
(* In the order of their coming.                                            *)

\* The questions that wait are in the queue, once each, and nobody waits beside an idle worker or
\* one that could still be made.
Queued ==
  /\ \A i \in 1 .. Len(waiting) : asked[waiting[i]].at = "waiting"
  /\ \A i, j \in 1 .. Len(waiting) : waiting[i] = waiting[j] => i = j
  /\ \A q \in Questions : asked[q].at = "waiting" => \E i \in 1 .. Len(waiting) : waiting[i] = q
  /\ waiting # <<>> => \A w \in Workers : w \in made /\ \E q \in Questions : asked[q].at = "asking" /\ asked[q].worker = w

Pairs == {x \in Questions \X Workers : asked[x[1]].at = "asking" /\ asked[x[1]].worker = x[2]}
Done == {q \in Questions : asked[q].at = "done"}

\* What one question's step does to the pairs and to those that are done.
LEMMA PairsOf ==
  ASSUME NEW q \in Questions, \A r \in Questions : r # q => asked'[r] = asked[r]
  PROVE  /\ \A w \in Workers : asked[q].at # "asking" /\ asked'[q].at = "asking" /\ asked'[q].worker = w
                                 => Pairs' = Pairs \union {<<q, w>>}
         /\ \A w \in Workers : asked[q].at = "asking" /\ asked[q].worker = w /\ asked'[q].at # "asking"
                                 => Pairs' = Pairs \ {<<q, w>>}
         /\ asked[q].at # "asking" /\ asked'[q].at # "asking" => Pairs' = Pairs
         /\ asked'[q].at = "done" => Done' = Done \union {q}
         /\ asked[q].at # "done" /\ asked'[q].at # "done" => Done' = Done
<1>. DEFINE A(x) == asked[x[1]].at = "asking" /\ asked[x[1]].worker = x[2]
<1>1. \A x \in Questions \X Workers : x[1] # q => (A(x)' <=> A(x))
  OBVIOUS
<1>2. \A x \in Questions \X Workers : x[1] = q => x = <<q, x[2]>>
  OBVIOUS
<1>3. ASSUME NEW w \in Workers, asked[q].at # "asking", asked'[q].at = "asking", asked'[q].worker = w
      PROVE  Pairs' = Pairs \union {<<q, w>>}
  BY <1>1, <1>2, <1>3 DEF Pairs
<1>4. ASSUME NEW w \in Workers, asked[q].at = "asking", asked[q].worker = w, asked'[q].at # "asking"
      PROVE  Pairs' = Pairs \ {<<q, w>>}
  BY <1>1, <1>2, <1>4 DEF Pairs
<1>5. ASSUME asked[q].at # "asking", asked'[q].at # "asking"
      PROVE  Pairs' = Pairs
  BY <1>1, <1>2, <1>5 DEF Pairs
<1>6. /\ asked'[q].at = "done" => Done' = Done \union {q}
      /\ asked[q].at # "done" /\ asked'[q].at # "done" => Done' = Done
  BY DEF Done
<1>. QED
  BY <1>3, <1>4, <1>5, <1>6

\* A worker nobody's question is at has its slot free.
LEMMA SlotFree ==
  ASSUME NEW w, \A r \in Questions : asked[r].at = "asking" => asked[r].worker # w
  PROVE  \A x \in Pairs : x[2] # w
BY DEF Pairs

\* A new question that finds the queue empty and a worker.
LEMMA ComesServed ==
  ASSUME Inv, Queued, NEW q \in Questions, NEW w \in Workers, asked[q].at = "idle", waiting = <<>>,
         asked' = [asked EXCEPT ![q] = [at |-> "asking", worker |-> w, got |-> None]],
         \A r \in Questions : asked[r].at = "asking" => asked[r].worker # w, UNCHANGED waiting
  PROVE  Queued' /\ Queue!Comes(q)
<1>0. asked \in AskedType
  BY DEF Inv, TypeOK
<1>1. /\ asked'[q].at = "asking" /\ asked'[q].worker = w
      /\ \A r \in Questions : r # q => asked'[r] = asked[r]
  BY <1>0 DEF AskedType
<1>2. Pairs' = Pairs \union {<<q, w>>} /\ Done' = Done
  BY <1>1, PairsOf
<1>3. q \notin Done /\ (\A x \in Pairs : x[1] # q) /\ \A x \in Pairs : x[2] # w
  BY SlotFree DEF Done, Pairs
<1>4. Queued'
  BY <1>1 DEF Queued
<1>. QED
  BY <1>2, <1>3, <1>4 DEF Queue!Comes, Queue!New, Queue!Free, Pairs, Done

LEMMA AsksAsked ==
  \A as, pr, ch, q, w : Asks(as, pr, ch, q, w) =>
    asked' = [as EXCEPT ![q] = [at |-> "asking", worker |-> w, got |-> None]]
BY DEF Asks

LEMMA AskQueues ==
  ASSUME Inv, Queued, NEW q \in Questions, Ask(q)
  PROVE  Queued' /\ Queue!Comes(q)
<1>0. /\ asked \in AskedType /\ waiting \in Seq(Questions) /\ made \subseteq Workers
      /\ asked[q].at = "idle" /\ ~stopped
  BY DEF Inv, TypeOK, Ask
<1>1. ASSUME NEW w \in made, ~Busy(w), Asks(asked, process, child, q, w), UNCHANGED <<made, waiting>>
      PROVE  Queued' /\ Queue!Comes(q)
  <2>1. \A r \in Questions : asked[r].at = "asking" => asked[r].worker # w
    BY <1>1 DEF Busy, Asking
  <2>2. waiting = <<>> /\ w \in Workers
    BY <1>0, <1>1, <2>1 DEF Queued
  <2>. QED
    BY <1>0, <1>1, <2>1, <2>2, AsksAsked, ComesServed
<1>2. ASSUME NEW w \in Workers \ made, Asks(asked, process, child, q, w), UNCHANGED waiting
      PROVE  Queued' /\ Queue!Comes(q)
  <2>1. \A r \in Questions : asked[r].at = "asking" => asked[r].worker # w
    BY <1>0, <1>2 DEF Inv, Pooled
  <2>2. waiting = <<>>
    BY <1>0, <1>2 DEF Queued
  <2>. QED
    BY <1>0, <1>2, <2>1, <2>2, AsksAsked, ComesServed
<1>3. CASE /\ \A w \in Workers : w \in made /\ Busy(w)
           /\ asked' = [asked EXCEPT ![q].at = "waiting"]
           /\ waiting' = Append(waiting, q)
           /\ UNCHANGED made
  <2>1. asked'[q].at = "waiting" /\ \A r \in Questions : r # q => asked'[r] = asked[r]
    BY <1>0, <1>3 DEF AskedType
  <2>2. Pairs' = Pairs /\ Done' = Done /\ q \notin Done /\ \A x \in Pairs : x[1] # q
    BY <1>0, <2>1, PairsOf DEF Done, Pairs
  <2>3. \A i \in 1 .. Len(waiting) : waiting[i] # q
    BY <1>0 DEF Queued
  <2>4. Queue!Comes(q)
    <3>1. \A i \in DOMAIN waiting : waiting[i] # q
      BY <1>0, <2>3
    <3>. QED
      BY <1>3, <2>2, <3>1 DEF Queue!Comes, Queue!New, Pairs, Done
  <2>5. /\ Len(waiting') = Len(waiting) + 1 /\ waiting'[Len(waiting) + 1] = q
        /\ \A i \in 1 .. Len(waiting) : waiting'[i] = waiting[i] /\ waiting[i] \in Questions
    BY <1>0, <1>3
  <2>6. (\A i \in 1 .. Len(waiting) : asked[waiting[i]].at = "waiting")'
    BY <1>0, <2>1, <2>3, <2>5 DEF Queued
  <2>7. (\A i, j \in 1 .. Len(waiting) : waiting[i] = waiting[j] => i = j)'
    BY <1>0, <2>3, <2>5 DEF Queued
  <2>8. (\A r \in Questions : asked[r].at = "waiting" => \E i \in 1 .. Len(waiting) : waiting[i] = r)'
    <3>. SUFFICES ASSUME NEW r \in Questions, asked'[r].at = "waiting"
                  PROVE  \E i \in 1 .. Len(waiting') : waiting'[i] = r
      OBVIOUS
    <3>1. CASE r = q
      BY <1>0, <2>5, <3>1
    <3>2. CASE r # q
      <4>1. PICK i \in 1 .. Len(waiting) : waiting[i] = r
        BY <2>1, <3>2 DEF Queued
      <4>. QED
        BY <1>0, <2>5, <4>1
    <3>. QED
      BY <3>1, <3>2
  <2>9. \A w \in Workers : w \in made' /\ \E r \in Questions : asked'[r].at = "asking" /\ asked'[r].worker = w
    <3>. SUFFICES ASSUME NEW w \in Workers
                  PROVE  w \in made' /\ \E r \in Questions : asked'[r].at = "asking" /\ asked'[r].worker = w
      OBVIOUS
    <3>1. PICK r \in Questions : asked[r].at = "asking" /\ asked[r].worker = w
      BY <1>3 DEF Busy, Asking
    <3>. QED
      BY <1>0, <1>3, <2>1, <3>1
  <2>. QED
    BY <2>4, <2>6, <2>7, <2>8, <2>9 DEF Queued
<1>. QED
  BY <1>1, <1>2, <1>3 DEF Ask

LEMMA LeavesQueueQueues ==
  ASSUME Inv, Queued, NEW q \in Questions, LeavesQueue(q)
  PROVE  Queued' /\ \E i \in DOMAIN waiting : Queue!GivesUp(i)
<1>0. /\ asked \in AskedType /\ waiting \in Seq(Questions)
      /\ asked[q].at = "waiting" /\ UNCHANGED made
      /\ asked' = [asked EXCEPT ![q] = [at |-> "done", worker |-> None, got |-> Refused]]
  BY DEF Inv, TypeOK, LeavesQueue
<1>1. PICK i \in DOMAIN waiting : waiting[i] = q /\ waiting' = RemoveAt(waiting, i)
  BY DEF LeavesQueue
<1>2. i \in 1 .. Len(waiting) /\ Len(waiting) \in Nat
  BY <1>0
<1>3. asked'[q].at = "done" /\ \A r \in Questions : r # q => asked'[r] = asked[r]
  BY <1>0 DEF AskedType
<1>4. Pairs' = Pairs /\ Done' = Done \union {q}
  BY <1>0, <1>3, PairsOf
<1>5. /\ Len(waiting') = Len(waiting) - 1
      /\ \A j \in 1 .. Len(waiting) - 1 : waiting'[j] = IF j < i THEN waiting[j] ELSE waiting[j + 1]
  <2>1. waiting' = SubSeq(waiting, 1, i - 1) \o SubSeq(waiting, i + 1, Len(waiting))
    BY <1>1 DEF RemoveAt
  <2>2. /\ SubSeq(waiting, 1, i - 1) \in Seq(Questions) /\ Len(SubSeq(waiting, 1, i - 1)) = i - 1
        /\ \A j \in 1 .. i - 1 : SubSeq(waiting, 1, i - 1)[j] = waiting[j]
    BY <1>0, <1>2
  <2>3. /\ SubSeq(waiting, i + 1, Len(waiting)) \in Seq(Questions)
        /\ Len(SubSeq(waiting, i + 1, Len(waiting))) = Len(waiting) - i
        /\ \A j \in 1 .. Len(waiting) - i : SubSeq(waiting, i + 1, Len(waiting))[j] = waiting[i + j]
    BY <1>0, <1>2
  <2>. DEFINE before == SubSeq(waiting, 1, i - 1)
              after == SubSeq(waiting, i + 1, Len(waiting))
  <2>4. /\ Len(before \o after) = (i - 1) + (Len(waiting) - i)
        /\ \A j \in 1 .. (i - 1) + (Len(waiting) - i) :
             (before \o after)[j] = IF j <= i - 1 THEN before[j] ELSE after[j - (i - 1)]
    <3>1. before \in Seq(Questions) /\ after \in Seq(Questions)
      BY <2>2, <2>3
    <3>2. Len(before) = i - 1 /\ Len(after) = Len(waiting) - i
      BY <2>2, <2>3
    <3>. HIDE DEF before, after
    <3>3. /\ Len(before \o after) = Len(before) + Len(after)
          /\ \A j \in 1 .. Len(before) + Len(after) :
               (before \o after)[j] = IF j <= Len(before) THEN before[j] ELSE after[j - Len(before)]
      BY <3>1, ConcatProperties
    <3>. QED
      BY <3>2, <3>3
  <2>5. (i - 1) + (Len(waiting) - i) = Len(waiting) - 1
    BY <1>2
  <2>6. ASSUME NEW j \in 1 .. Len(waiting) - 1
        PROVE  waiting'[j] = IF j < i THEN waiting[j] ELSE waiting[j + 1]
    <3>1. CASE j < i
      BY <1>2, <2>1, <2>2, <2>4, <2>5, <3>1
    <3>2. CASE ~(j < i)
      <4>1. j - (i - 1) \in 1 .. Len(waiting) - i /\ i + (j - (i - 1)) = j + 1 /\ ~(j <= i - 1)
        BY <1>2, <3>2
      <4>2. waiting'[j] = after[j - (i - 1)]
        BY <2>1, <2>4, <2>5, <4>1
      <4>. QED
        BY <2>3, <3>2, <4>1, <4>2
    <3>. QED
      BY <3>1, <3>2
  <2>. QED
    BY <2>1, <2>4, <2>5, <2>6
<1>. DEFINE At(j) == IF j < i THEN j ELSE j + 1
<1>6. \A j \in 1 .. Len(waiting') : At(j) \in 1 .. Len(waiting) /\ At(j) # i /\ waiting'[j] = waiting[At(j)]
  BY <1>2, <1>5
<1>7. \A j, k \in 1 .. Len(waiting') : At(j) = At(k) => j = k
  BY <1>2, <1>5
<1>8. \A k \in 1 .. Len(waiting) : k # i => \E j \in 1 .. Len(waiting') : At(j) = k
  <2>. TAKE k \in 1 .. Len(waiting)
  <2>1. CASE k < i
    BY <1>2, <1>5, <2>1
  <2>2. CASE k > i
    <3>1. k - 1 \in 1 .. Len(waiting') /\ At(k - 1) = k
      BY <1>2, <1>5, <2>2
    <3>. QED
      BY <3>1
  <2>. QED
    BY <1>2, <2>1, <2>2
<1>. HIDE DEF At
<1>9. (\A j \in 1 .. Len(waiting) : asked[waiting[j]].at = "waiting")'
  <2>. SUFFICES ASSUME NEW j \in 1 .. Len(waiting') PROVE asked'[waiting'[j]].at = "waiting"
    OBVIOUS
  <2>1. waiting'[j] = waiting[At(j)] /\ waiting[At(j)] # q /\ waiting[At(j)] \in Questions
    BY <1>0, <1>1, <1>2, <1>6 DEF Queued
  <2>. QED
    BY <1>3, <1>6, <2>1 DEF Queued
<1>10. (\A j, k \in 1 .. Len(waiting) : waiting[j] = waiting[k] => j = k)'
  BY <1>6, <1>7 DEF Queued
<1>11. (\A r \in Questions : asked[r].at = "waiting" => \E j \in 1 .. Len(waiting) : waiting[j] = r)'
  <2>. SUFFICES ASSUME NEW r \in Questions, asked'[r].at = "waiting"
                PROVE  \E j \in 1 .. Len(waiting') : waiting'[j] = r
    OBVIOUS
  <2>1. r # q /\ asked[r].at = "waiting"
    BY <1>3
  <2>2. PICK k \in 1 .. Len(waiting) : waiting[k] = r
    BY <2>1 DEF Queued
  <2>3. PICK j \in 1 .. Len(waiting') : At(j) = k
    BY <1>1, <1>8, <2>1, <2>2
  <2>. QED
    BY <1>6, <2>2, <2>3
<1>12. \A w \in Workers : w \in made' /\ \E r \in Questions : asked'[r].at = "asking" /\ asked'[r].worker = w
  <2>. SUFFICES ASSUME NEW w \in Workers
                PROVE  w \in made' /\ \E r \in Questions : asked'[r].at = "asking" /\ asked'[r].worker = w
    OBVIOUS
  <2>1. waiting # <<>>
    BY <1>2
  <2>2. w \in made /\ \E r \in Questions : asked[r].at = "asking" /\ asked[r].worker = w
    BY <2>1 DEF Queued
  <2>. QED
    BY <1>0, <1>3, <2>2
<1>13. Queue!GivesUp(i)
  BY <1>1, <1>4 DEF Queue!GivesUp, Queue!RemoveAt, RemoveAt, Pairs, Done
<1>. QED
  BY <1>1, <1>9, <1>10, <1>11, <1>12, <1>13 DEF Queued

\* A question that has its answer leaves its worker to the longest waiter, or idle.
LEMMA EndsQueues ==
  ASSUME Inv, Queued, NEW q \in Questions, asked[q].at = "asking", NEW got, NEW pr, NEW ch,
         Ends(q, got, pr, ch), UNCHANGED made
  PROVE  Queued' /\ Queue!Ends(q)
<1>. DEFINE w == asked[q].worker
            as == [asked EXCEPT ![q] = [at |-> "done", worker |-> None, got |-> got]]
<1>0. /\ asked \in AskedType /\ waiting \in Seq(Questions) /\ w \in Workers
      /\ as = [r \in Questions |-> IF r = q THEN [at |-> "done", worker |-> None, got |-> got] ELSE asked[r]]
  BY DEF Inv, TypeOK, Good, One, AskedType
<1>1. <<q, w>> \in Pairs
  BY <1>0 DEF Pairs
<1>2. CASE ~ToWaiter
  <2>1. waiting = <<>> /\ asked' = as /\ UNCHANGED waiting
    BY <1>2 DEF Ends, ToWaiter
  <2>2. asked'[q].at = "done" /\ \A r \in Questions : r # q => asked'[r] = asked[r]
    BY <1>0, <2>1
  <2>3. Pairs' = Pairs \ {<<q, w>>} /\ Done' = Done \union {q}
    BY <1>0, <2>2, PairsOf
  <2>4. Queued'
    BY <2>1, <2>2 DEF Queued
  <2>. QED
    BY <1>0, <1>1, <2>1, <2>3, <2>4 DEF Queue!Ends, Pairs, Done
<1>3. CASE ToWaiter
  <2>. DEFINE h == Head(waiting)
  <2>1. waiting # <<>> /\ waiting' = Tail(waiting) /\ Asks(as, pr, ch, h, w)
    BY <1>3 DEF Ends, ToWaiter
  <2>2. h \in Questions /\ h = waiting[1] /\ 1 \in 1 .. Len(waiting) /\ asked[h].at = "waiting" /\ h # q
    <3>1. h \in Questions /\ h = waiting[1] /\ 1 \in 1 .. Len(waiting)
      BY <1>0, <2>1
    <3>. QED
      BY <3>1 DEF Queued
  <2>3. asked' = [as EXCEPT ![h] = [at |-> "asking", worker |-> w, got |-> None]]
    <3>. HIDE DEF as, h, w
    <3>. QED
      BY <2>1 DEF Asks
  <2>4. /\ asked'[q].at = "done" /\ asked'[h].at = "asking" /\ asked'[h].worker = w
        /\ \A r \in Questions \ {q, h} : asked'[r] = asked[r]
    BY <1>0, <2>2, <2>3
  <2>. HIDE DEF h, as
  <2>5. Done' = Done \union {q}
    BY <2>2, <2>4 DEF Done
  <2>6. Pairs' = (Pairs \ {<<q, w>>}) \union {<<h, w>>}
    <3>1. \A x \in Questions \X Workers : x = <<x[1], x[2]>>
      OBVIOUS
    <3>2. \A x \in Pairs' : x \in (Pairs \ {<<q, w>>}) \union {<<h, w>>}
      BY <2>2, <2>4, <3>1 DEF Pairs
    <3>3. \A x \in Pairs : x # <<q, w>> => x[1] # q /\ x[1] # h
      BY <2>2, <3>1 DEF Pairs
    <3>4. \A x \in (Pairs \ {<<q, w>>}) : x \in Pairs'
      BY <2>4, <3>3 DEF Pairs
    <3>5. <<h, w>> \in Pairs'
      BY <1>0, <2>2, <2>4 DEF Pairs
    <3>. QED
      BY <3>2, <3>4, <3>5
  <2>7. /\ Len(waiting') = Len(waiting) - 1 /\ Len(waiting) \in Nat
        /\ \A i \in 1 .. Len(waiting') : i + 1 \in 1 .. Len(waiting) /\ waiting'[i] = waiting[i + 1]
    BY <1>0, <2>1
  <2>8. (\A i \in 1 .. Len(waiting) : asked[waiting[i]].at = "waiting")'
    <3>. SUFFICES ASSUME NEW i \in 1 .. Len(waiting') PROVE asked'[waiting'[i]].at = "waiting"
      OBVIOUS
    <3>1. i + 1 \in 1 .. Len(waiting) /\ waiting'[i] = waiting[i + 1] /\ i + 1 # 1 /\ waiting[i + 1] \in Questions
      BY <1>0, <2>7
    <3>2. asked[waiting[i + 1]].at = "waiting" /\ waiting[i + 1] # h
      BY <2>2, <3>1 DEF Queued
    <3>. QED
      BY <2>4, <3>1, <3>2
  <2>9. (\A i, j \in 1 .. Len(waiting) : waiting[i] = waiting[j] => i = j)'
    <3>. SUFFICES ASSUME NEW i \in 1 .. Len(waiting'), NEW j \in 1 .. Len(waiting'), waiting'[i] = waiting'[j]
                  PROVE  i = j
      OBVIOUS
    <3>1. i + 1 = j + 1
      BY <2>7 DEF Queued
    <3>. QED
      BY <3>1
  <2>10. (\A r \in Questions : asked[r].at = "waiting" => \E i \in 1 .. Len(waiting) : waiting[i] = r)'
    <3>. SUFFICES ASSUME NEW r \in Questions, asked'[r].at = "waiting"
                  PROVE  \E i \in 1 .. Len(waiting') : waiting'[i] = r
      OBVIOUS
    <3>1. r # h /\ r # q /\ asked[r].at = "waiting"
      BY <2>4
    <3>2. PICK k \in 1 .. Len(waiting) : waiting[k] = r
      BY <3>1 DEF Queued
    <3>3. k - 1 \in 1 .. Len(waiting') /\ (k - 1) + 1 = k
      BY <2>2, <2>7, <3>1, <3>2
    <3>. QED
      BY <2>7, <3>2, <3>3
  <2>11. \A v \in Workers : v \in made' /\ \E r \in Questions : asked'[r].at = "asking" /\ asked'[r].worker = v
    <3>. SUFFICES ASSUME NEW v \in Workers
                  PROVE  v \in made' /\ \E r \in Questions : asked'[r].at = "asking" /\ asked'[r].worker = v
      OBVIOUS
    <3>1. v \in made' /\ \E r \in Questions : asked[r].at = "asking" /\ asked[r].worker = v
      BY <2>1 DEF Queued
    <3>2. CASE v = w
      BY <2>2, <2>4, <3>1, <3>2
    <3>3. CASE v # w
      BY <2>2, <2>4, <3>1, <3>3
    <3>. QED
      BY <3>2, <3>3
  <2>12. Queued'
    BY <2>8, <2>9, <2>10, <2>11 DEF Queued
  <2>. QED
    BY <1>0, <1>1, <2>1, <2>5, <2>6, <2>12 DEF Queue!Ends, Pairs, Done, h
<1>. QED
  BY <1>2, <1>3

\* Steps of the processes and the sweep leave the queue alone.
LEMMA QueueStutters ==
  ASSUME Queued, UNCHANGED <<asked, made, waiting>>
  PROVE  Queued' /\ UNCHANGED Queue!vars
BY DEF Queued, Queue!vars

LEMMA StopQueues ==
  ASSUME Inv, Queued, Stop
  PROVE  Queued' /\ Queue!Closes
<1>0. /\ asked \in AskedType /\ waiting \in Seq(Questions) /\ waiting' = <<>>
      /\ asked' = [q \in Questions |-> IF asked[q].at = "waiting" THEN [at |-> "done", worker |-> None, got |-> Refused]
                                       ELSE asked[q]]
  BY DEF Inv, TypeOK, Stop
<1>1. \A q \in Questions : IF asked[q].at = "waiting" THEN asked'[q].at = "done" ELSE asked'[q] = asked[q]
  BY <1>0
<1>2. Pairs' = Pairs
  BY <1>1 DEF Pairs
<1>3. \A q \in Questions : asked[q].at = "waiting" <=> q \in {waiting[i] : i \in DOMAIN waiting}
  BY <1>0 DEF Queued
<1>4. {waiting[i] : i \in DOMAIN waiting} \subseteq Questions
  BY <1>0
<1>5. Done' = Done \union {waiting[i] : i \in DOMAIN waiting}
  BY <1>1, <1>3, <1>4 DEF Done
<1>6. Queued'
  BY <1>0, <1>1 DEF Queued
<1>. QED
  BY <1>0, <1>2, <1>5, <1>6 DEF Queue!Closes, Pairs, Done

LEMMA QueueStep == Inv /\ Queued /\ [Next]_vars => Queued' /\ [Queue!Next]_(Queue!vars)
<1>. SUFFICES ASSUME Inv, Queued, [Next]_vars
              PROVE  Queued' /\ (Queue!Next \/ UNCHANGED Queue!vars)
  OBVIOUS
<1>1. CASE \E q \in Questions : Ask(q) \/ LeavesQueue(q)
  BY <1>1, AskQueues, LeavesQueueQueues DEF Queue!Next
<1>2. ASSUME NEW q \in Questions, TimesOut(q) PROVE Queued' /\ Queue!Ends(q)
  BY <1>2, EndsQueues DEF TimesOut
<1>3. ASSUME NEW c \in Processes, LineArrives(c) \/ ExitArrives(c)
      PROVE  Queued' /\ (Queue!Next \/ UNCHANGED Queue!vars)
  <2>1. CASE UNCHANGED <<asked, made, waiting>>
    BY <2>1, QueueStutters
  <2>2. CASE /\ UNCHANGED made
             /\ \E q \in Asking(child[c].worker) : \E got, pr, ch : Ends(q, got, pr, ch)
    <3>1. PICK q \in Asking(child[c].worker) : \E got, pr, ch : Ends(q, got, pr, ch)
      BY <2>2
    <3>2. q \in Questions /\ asked[q].at = "asking"
      BY <3>1 DEF Asking
    <3>3. Queued' /\ Queue!Ends(q)
      BY <2>2, <3>1, <3>2, EndsQueues
    <3>. QED
      BY <3>2, <3>3 DEF Queue!Next
  <2>. QED
    BY <1>3, <2>1, <2>2 DEF LineArrives, ExitArrives
<1>4. CASE \/ \E c \in Processes : Prints(c) \/ Crashes(c)
           \/ \E w \in Workers : Sweep(w)
           \/ UNCHANGED vars
  <2>1. UNCHANGED <<asked, made, waiting>>
    BY <1>4 DEF Prints, Crashes, Sweep, vars
  <2>. QED
    BY <2>1, QueueStutters
<1>5. CASE Stop
  BY <1>5, StopQueues DEF Queue!Next
<1>. QED
  BY <1>1, <1>2, <1>3, <1>4, <1>5 DEF Next, Queue!Next

\* Whatever times out, dies or leaves the queue, the workers serve the questions one each and in
\* the order of their coming (pool.ts:69-108), for any number of both.
THEOREM ServedInOrder == Spec => ImplementsQueue
<1>1. Init => Queued /\ Queue!Init
  BY DEF Init, NotAsked, Queued, Queue!Init
<1>2. Inv /\ Queued /\ [Next]_vars => Queued' /\ [Queue!Next]_(Queue!vars)
  BY QueueStep
<1>. QED
  BY <1>1, <1>2, InvAlways, PTL DEF Spec, ImplementsQueue, Queue!Spec
=============================================================================
