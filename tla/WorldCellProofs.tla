--------------------------- MODULE WorldCellProofs ---------------------------
(***************************************************************************)
(* Safety of WorldCell, for any blocks, places, sizes and calls, and any   *)
(* number of dropped, timed out and failed ones: an undisturbed answer is  *)
(* the cell.                                                               *)
(*                                                                         *)
(* WorldInv is the induction.  A call that holds the lock is the only one  *)
(* of its kind under way (LockInv), so of one that is still alone nobody   *)
(* else's task was carried out since its draw.  What it has moved stands   *)
(* where it belongs, nothing else is in the region, and the sizes are      *)
(* those of its plan (CellInv): no two props are in each other, and the    *)
(* physics pushes none that was moved.                                     *)
(***************************************************************************)
EXTENDS WorldCell, FiniteSetTheorems, SequenceTheorems, TLAPS

Outside(p) == {Spawn(p), Park(p), Off(p)}

Places    == {Spot(s) : s \in Spots} \cup UNION {Outside(p) : p \in Props}
MoveTypes == [prop : Props, place : Places, height : Nat]
TaskTypes == [call : Calls, task : [kind : {"rescale", "put", "reset", "spawn"}, move : MoveTypes]]
PlanTypes == [sized : BOOLEAN,
              edges : UNION {[S -> Nat \ {0}] : S \in SUBSET Pool},
              spots : UNION {[S -> Spots] : S \in SUBSET Pool}]

StageTypes ==
    /\ at \in [Props -> Places] /\ lift \in [Props -> Nat] /\ edge \in [Props -> Nat]
    /\ spec \in [Props -> Nat]
    /\ \A p \in Here : edge[p] = spec[p]
    /\ Pool \subseteq Here /\ edge[Extra] = SpawnSize

CallTypes ==
    /\ verb \in [Calls -> Verbs \cup {"none"}]
    /\ pc \in [Calls -> {"new", "lock", "begin", "rescale", "put", "wait", "done", "failed"}]
    /\ plan \in [Calls -> PlanTypes] /\ todo \in [Calls -> Seq(MoveTypes)]
    /\ gone \subseteq Calls /\ alone \subseteq Calls
    /\ queue \in Seq(TaskTypes)

\* A call that draws or clears, and one that has its plan and no answer yet.
Placing(c)  == verb[c] \in Scatters \cup {"clear"}
Underway(c) == Placing(c) /\ pc[c] \in {"rescale", "put", "wait"}

\* The props that a call places, where it places them, and those it has not moved.
Placed(c)   == Drawn(c) \cup (IF verb[c] = "randomize" THEN {} ELSE Pool \ Drawn(c))
Goal(c, p)  == IF p \in Drawn(c) THEN Spot(plan[c].spots[p]) ELSE Park(p)
Left(c)     == {todo[c][i].prop : i \in DOMAIN todo[c]}

\* Its sizes are still to be written.
SizesQueued(c) == \E i \in DOMAIN queue : queue[i].call = c /\ queue[i].task.kind = "rescale"
Unsized(c) == plan[c].sized /\ (pc[c] = "rescale" \/ SizesQueued(c))

\* A call that is not dropped holds the lock from its draw to its answer.
LockInv(c) == InOrder(c) /\ pc[c] \in {"begin", "rescale", "put", "wait"} => lock = c

ShapeInv(c) ==
    /\ pc[c] = "new" => verb[c] = "none"
    /\ ~Placing(c) => todo[c] = <<>>
    /\ verb[c] \notin Scatters => plan[c] = NoPlan
    /\ pc[c] = "rescale" => verb[c] \in Scatters /\ plan[c].sized
    /\ c \in alone => Placing(c) /\ pc[c] \in {"rescale", "put", "wait", "done", "failed"}

\* The plan of a call is one place for each block that it draws.
PlanInv(c) == Underway(c) =>
    /\ Drawn(c) \subseteq Pool /\ plan[c].edges \in [Drawn(c) -> Nat \ {0}]
    /\ Drawn(c) # {} => plan[c].spots \in Injection(Drawn(c), Spots)
    /\ \A i \in DOMAIN todo[c] : LET m == todo[c][i] IN
         /\ m.prop \in Placed(c) /\ m.place = Goal(c, m.prop)
         /\ m.height = IF m.prop \in Drawn(c) THEN plan[c].edges[m.prop] ELSE 0
    /\ Unsized(c) => Left(c) = Placed(c)

\* What a call has moved stands, if it was left alone.
CellInv(c) == c \in alone /\ Underway(c) /\ ~Unsized(c) =>
    /\ \A p \in Here : at[p] \in Outside(p) \/ (p \in Drawn(c) /\ at[p] = Goal(c, p))
    /\ \A p \in Placed(c) \ Left(c) : at[p] = Goal(c, p) /\ lift[p] >= edge[p]
    /\ \A p \in Drawn(c) : edge[p] = plan[c].edges[p]

CallInv(c) == LockInv(c) /\ ShapeInv(c) /\ PlanInv(c) /\ CellInv(c)

\* A call has one task at most, and waits for it.
QueueInv ==
    /\ \A i \in DOMAIN queue : pc[queue[i].call] = "wait"
    /\ \A i, j \in DOMAIN queue : queue[i].call = queue[j].call => i = j

\* A task is the next step of its call, with the height of the prop it moves.
Fits(c, t) ==
    /\ t.kind = "rescale" => verb[c] \in Scatters /\ plan[c].sized
    /\ t.kind = "put" =>
         /\ Placing(c) /\ todo[c] # <<>>
         /\ t.move.prop = Head(todo[c]).prop /\ t.move.place = Head(todo[c]).place
         /\ c \in alone => t.move.height >= edge[t.move.prop]
    /\ t.kind \in {"reset", "spawn"} => verb[c] = t.kind

TaskInv == \A i \in DOMAIN queue : Fits(queue[i].call, queue[i].task)

WorldInv ==
    /\ StageTypes /\ CallTypes /\ QueueInv /\ TaskInv
    /\ \A c \in Calls : CallInv(c)

-----------------------------------------------------------------------------
(***************************************************************************)
(* Sequences: the moves of a call, and what is done to the queue.          *)
(***************************************************************************)
\* SetToSeq leaves none of a set out.
LEMMA SequenceOfSet ==
    ASSUME NEW S, IsFiniteSet(S)
    PROVE  /\ Cardinality(S) \in Nat
           /\ SetToSeq(S) \in [1..Cardinality(S) -> S]
           /\ \A p \in S : \E i \in 1..Cardinality(S) : SetToSeq(S)[i] = p
<1>1. Cardinality(S) \in Nat /\ ExistsBijection(1..Cardinality(S), S)
  BY FS_CardinalityType
<1>2. PICK f \in Bijection(1..Cardinality(S), S) : TRUE
  BY <1>1 DEF ExistsBijection
<1>3. f \in [1..Cardinality(S) -> S] /\ IsInjective(f)
  BY <1>2 DEF Bijection, Injection, IsInjective
<1>4. SetToSeq(S) \in [1..Cardinality(S) -> S] /\ IsInjective(SetToSeq(S))
  BY <1>3 DEF SetToSeq
<1>5. SetToSeq(S) \in Injection(1..Cardinality(S), S)
  BY <1>4 DEF Injection
<1>6. IsFiniteSet(1..Cardinality(S)) /\ Cardinality(1..Cardinality(S)) = Cardinality(S)
  BY <1>1, FS_Interval
<1>7. SetToSeq(S) \in Surjection(1..Cardinality(S), S)
  BY <1>5, <1>6, FS_Injection
<1> QED
  BY <1>1, <1>4, <1>7 DEF Surjection

\* A call's task is put at the end.
LEMMA TaskAsked ==
    ASSUME CallTypes, NEW r \in TaskTypes, queue' = Append(queue, r)
    PROVE  /\ queue' \in Seq(TaskTypes)
           /\ \A i \in DOMAIN queue : i \in DOMAIN queue' /\ queue'[i] = queue[i]
           /\ \E n \in DOMAIN queue' : queue'[n] = r
           /\ \A i \in DOMAIN queue' :
                  (i \in DOMAIN queue /\ queue'[i] = queue[i]) \/ (i = Len(queue) + 1 /\ queue'[i] = r)
           /\ Len(queue) + 1 \notin DOMAIN queue
<1>1. queue \in Seq(TaskTypes)
  BY DEF CallTypes
<1> QED
  BY <1>1

\* A task leaves the queue, with the sim thread or because its caller gives up.
Leaving(k) == [i \in 1..(Len(queue) - 1) |-> queue[IF i < k THEN i ELSE i + 1]]

\* What is left of the queue are the tasks of the other calls.
LEMMA TaskLeaves ==
    ASSUME CallTypes, QueueInv, NEW k \in DOMAIN queue, queue' = Leaving(k)
    PROVE  /\ queue' \in Seq(TaskTypes)
           /\ \A i \in DOMAIN queue' : \E j \in DOMAIN queue :
                  queue'[i] = queue[j] /\ queue[j].call # queue[k].call
           /\ \A j \in DOMAIN queue : queue[j].call # queue[k].call =>
                  \E i \in DOMAIN queue' : queue'[i] = queue[j]
           /\ \A i, j \in DOMAIN queue' : queue'[i].call = queue'[j].call => i = j
<1> DEFINE from(i) == IF i < k THEN i ELSE i + 1
<1>1. queue \in Seq(TaskTypes) /\ Len(queue) \in Nat /\ DOMAIN queue = 1..Len(queue)
  BY DEF CallTypes
<1>2. DOMAIN queue' = 1..(Len(queue) - 1) /\ \A i \in DOMAIN queue' : queue'[i] = queue[from(i)]
  BY <1>1 DEF Leaving
<1>3. \A i \in DOMAIN queue' : from(i) \in DOMAIN queue /\ from(i) # k
  BY <1>1, <1>2
<1>4. \A i, j \in DOMAIN queue' : from(i) = from(j) => i = j
  BY <1>1, <1>2
<1>5. \A j \in DOMAIN queue \ {k} : \E i \in DOMAIN queue' : from(i) = j
  <2> SUFFICES ASSUME NEW j \in DOMAIN queue \ {k} PROVE \E i \in DOMAIN queue' : from(i) = j
    OBVIOUS
  <2>1. CASE j < k
    BY <2>1, <1>1, <1>2
  <2>2. CASE j > k
    <3>1. j - 1 \in DOMAIN queue' /\ ~(j - 1 < k) /\ (j - 1) + 1 = j
      BY <2>2, <1>1, <1>2
    <3> QED
      BY <3>1
  <2> QED
    BY <2>1, <2>2, <1>1
<1> HIDE DEF from
<1>6. \A i, j \in DOMAIN queue : queue[i].call = queue[j].call => i = j
  BY DEF QueueInv
<1>7. queue' \in Seq(TaskTypes)
  <2>1. \A i \in DOMAIN queue : queue[i] \in TaskTypes
    BY <1>1
  <2>2. Len(queue) - 1 \in Nat
    BY <1>1
  <2>3. queue' = [i \in 1..(Len(queue) - 1) |-> queue'[i]]
    BY DEF Leaving
  <2>4. \A i \in 1..(Len(queue) - 1) : queue'[i] \in TaskTypes
    BY <1>2, <1>3, <2>1
  <2> QED
    BY <2>2, <2>3, <2>4
<1>8. \A i \in DOMAIN queue' : \E j \in DOMAIN queue :
          queue'[i] = queue[j] /\ queue[j].call # queue[k].call
  BY <1>2, <1>3, <1>6
<1>9. \A j \in DOMAIN queue : queue[j].call # queue[k].call =>
          \E i \in DOMAIN queue' : queue'[i] = queue[j]
  BY <1>2, <1>5
<1>10. \A i, j \in DOMAIN queue' : queue'[i].call = queue'[j].call => i = j
  BY <1>2, <1>3, <1>4, <1>6
<1> QED
  BY <1>7, <1>8, <1>9, <1>10

\* The sim thread takes the first task.
LEMMA HeadLeaves ==
    ASSUME CallTypes, queue # <<>>
    PROVE  1 \in DOMAIN queue /\ Head(queue) = queue[1] /\ Tail(queue) = Leaving(1)
<1>1. queue \in Seq(TaskTypes) /\ Len(queue) \in Nat /\ DOMAIN queue = 1..Len(queue)
  BY DEF CallTypes
<1>2. /\ Tail(queue) \in Seq(TaskTypes) /\ Len(Tail(queue)) = Len(queue) - 1
      /\ \A i \in 1..Len(Tail(queue)) : Tail(queue)[i] = queue[i + 1]
  BY <1>1, HeadTailProperties
<1>3. Tail(queue) = [i \in 1..(Len(queue) - 1) |-> Tail(queue)[i]]
  <2>1. \A s \in Seq(TaskTypes) : s = [i \in 1..Len(s) |-> s[i]]
    OBVIOUS
  <2> QED
    BY <1>2, <2>1
<1>4. Tail(queue) = [i \in 1..(Len(queue) - 1) |-> queue[i + 1]]
  BY <1>2, <1>3
<1>5. \A i \in 1..(Len(queue) - 1) : ~(i < 1)
  BY <1>1
<1>6. 1 \in DOMAIN queue /\ Head(queue) = queue[1]
  BY <1>1
<1> QED
  BY <1>4, <1>5, <1>6 DEF Leaving

\* A call that times out takes its own task back.
LEMMA RemovedLeaves ==
    ASSUME CallTypes, NEW k \in DOMAIN queue
    PROVE  RemoveAt(queue, k) = Leaving(k)
<1>1. /\ queue \in Seq(TaskTypes) /\ Len(queue) \in Nat /\ k \in 1..Len(queue)
      /\ \A i \in 1..Len(queue) : queue[i] \in TaskTypes
  BY DEF CallTypes
<1> DEFINE front == SubSeq(queue, 1, k - 1)
           back  == SubSeq(queue, k + 1, Len(queue))
<1>2. /\ front \in Seq(TaskTypes) /\ Len(front) = k - 1
      /\ \A i \in 1..(k - 1) : front[i] = queue[i]
  BY <1>1
<1>3. /\ back \in Seq(TaskTypes) /\ Len(back) = Len(queue) - k
      /\ \A i \in 1..(Len(queue) - k) : back[i] = queue[k + i]
  BY <1>1
<1>4. RemoveAt(queue, k) = front \o back
  BY DEF RemoveAt
<1> HIDE DEF front, back
<1>5. /\ front \o back \in Seq(TaskTypes) /\ Len(front \o back) = Len(queue) - 1
      /\ \A i \in 1..(Len(queue) - 1) :
            (front \o back)[i] = IF i <= k - 1 THEN front[i] ELSE back[i - (k - 1)]
  BY <1>1, <1>2, <1>3, ConcatProperties
<1>6. \A i \in 1..(Len(queue) - 1) :
          (front \o back)[i] = queue[IF i < k THEN i ELSE i + 1]
  <2> SUFFICES ASSUME NEW i \in 1..(Len(queue) - 1)
               PROVE  (front \o back)[i] = queue[IF i < k THEN i ELSE i + 1]
    OBVIOUS
  <2>1. CASE i < k
    <3>1. i <= k - 1 /\ i \in 1..(k - 1)
      BY <2>1, <1>1
    <3> QED
      BY <3>1, <2>1, <1>2, <1>5
  <2>2. CASE ~(i < k)
    <3>1. ~(i <= k - 1) /\ i - (k - 1) \in 1..(Len(queue) - k) /\ k + (i - (k - 1)) = i + 1
      BY <2>2, <1>1
    <3> QED
      BY <3>1, <2>2, <1>3, <1>5
  <2> QED
    BY <2>1, <2>2
<1>7. front \o back = [i \in 1..(Len(queue) - 1) |-> (front \o back)[i]]
  <2>1. \A s \in Seq(TaskTypes) : s = [i \in 1..Len(s) |-> s[i]]
    OBVIOUS
  <2> QED
    BY <1>5, <2>1
<1> QED
  BY <1>4, <1>6, <1>7 DEF Leaving

-----------------------------------------------------------------------------
(***************************************************************************)
(* What a step of a call leaves of the others.                             *)
(***************************************************************************)
Others(c) == \A d \in Calls \ {c} :
    /\ verb'[d] = verb[d] /\ pc'[d] = pc[d] /\ plan'[d] = plan[d] /\ todo'[d] = todo[d]
    /\ d \in alone' => d \in alone
    /\ d \in gone' <=> d \in gone
    /\ SizesQueued(d)' <=> SizesQueued(d)
    /\ lock = d => lock' = d

\* No other call is alone and has its plan before it.
NoneElse(c) == \A d \in Calls \ {c} : d \in alone' => ~Underway(d)

\* A step of one call keeps what CallInv says of the others.
LEMMA OthersKeep ==
    ASSUME WorldInv, NEW c, Others(c), UNCHANGED <<stage, spec>> \/ NoneElse(c),
           NEW d \in Calls \ {c}
    PROVE  CallInv(d)'
<1>1. CallInv(d)
  BY DEF WorldInv
<1>2. /\ verb'[d] = verb[d] /\ pc'[d] = pc[d] /\ plan'[d] = plan[d] /\ todo'[d] = todo[d]
      /\ d \in alone' => d \in alone
      /\ d \in gone' <=> d \in gone
      /\ SizesQueued(d)' <=> SizesQueued(d)
      /\ lock = d => lock' = d
  BY DEF Others
<1>3. /\ Drawn(d)' = Drawn(d) /\ Placed(d)' = Placed(d) /\ Left(d)' = Left(d)
      /\ Underway(d)' = Underway(d) /\ Placing(d)' = Placing(d)
      /\ Unsized(d)' = Unsized(d) /\ InOrder(d)' = InOrder(d)
      /\ \A p : Goal(d, p)' = Goal(d, p)
  BY <1>2 DEF Drawn, Placed, Left, Underway, Placing, Unsized, InOrder, Goal
<1>4. LockInv(d)'
  BY <1>1, <1>2, <1>3 DEF CallInv, LockInv
<1>5. ShapeInv(d)'
  BY <1>1, <1>2, <1>3 DEF CallInv, ShapeInv
<1>6. PlanInv(d)'
  BY <1>1, <1>2, <1>3 DEF CallInv, PlanInv
<1>7. CellInv(d)'
  <2>1. CASE UNCHANGED <<stage, spec>>
    <3>1. Here' = Here /\ at' = at /\ lift' = lift /\ edge' = edge
      BY <2>1 DEF stage, Here
    <3> QED
      BY <3>1, <1>1, <1>2, <1>3 DEF CallInv, CellInv
  <2>2. CASE NoneElse(c)
    <3>1. d \in alone' => ~Underway(d)'
      BY <2>2, <1>3 DEF NoneElse
    <3> QED
      BY <3>1 DEF CellInv
  <2> QED
    BY <2>1, <2>2
<1> QED
  BY <1>4, <1>5, <1>6, <1>7 DEF CallInv

\* A task of another call still fits.
LEMMA OthersFit ==
    ASSUME WorldInv, NEW c, Others(c), UNCHANGED <<stage, spec>> \/ NoneElse(c),
           NEW q \in TaskTypes, \E i \in DOMAIN queue : queue[i] = q, q.call # c
    PROVE  Fits(q.call, q.task)' /\ pc'[q.call] = "wait"
<1> DEFINE d == q.call
           t == q.task
<1>1. d \in Calls \ {c}
  BY DEF TaskTypes
<1>2. Fits(d, t) /\ pc[d] = "wait"
  BY DEF WorldInv, TaskInv, QueueInv
<1>3. /\ verb'[d] = verb[d] /\ pc'[d] = pc[d] /\ plan'[d] = plan[d] /\ todo'[d] = todo[d]
      /\ d \in alone' => d \in alone
  BY <1>1 DEF Others
<1>4. d \in alone' /\ Placing(d) => edge' = edge
  BY <1>1, <1>2 DEF NoneElse, Underway, stage
<1> HIDE DEF d, t
<1>5. Fits(d, t)'
  BY <1>2, <1>3, <1>4 DEF Fits, Placing
<1> QED
  BY <1>2, <1>3, <1>5 DEF d, t

\* A call that has no task leaves the queue alone.
LEMMA QueueKept ==
    ASSUME WorldInv, NEW c, Others(c), UNCHANGED <<stage, spec>> \/ NoneElse(c),
           queue' = queue, \A i \in DOMAIN queue : queue[i].call # c
    PROVE  QueueInv' /\ TaskInv'
<1>1. \A i \in DOMAIN queue : queue[i] \in TaskTypes
  BY DEF WorldInv, CallTypes
<1>2. ASSUME NEW i \in DOMAIN queue
      PROVE  Fits(queue[i].call, queue[i].task)' /\ pc'[queue[i].call] = "wait"
  <2>1. PICK q \in TaskTypes : q = queue[i]
    BY <1>1
  <2>2. Fits(q.call, q.task)' /\ pc'[q.call] = "wait"
    BY <2>1, OthersFit
  <2> QED
    BY <2>1, <2>2
<1> QED
  BY <1>2 DEF QueueInv, TaskInv, WorldInv

\* It asks for one.
LEMMA QueueGrows ==
    ASSUME WorldInv, NEW c, Others(c), UNCHANGED <<stage, spec>>, pc[c] # "wait",
           NEW t, [call |-> c, task |-> t] \in TaskTypes,
           queue' = Append(queue, [call |-> c, task |-> t]), Fits(c, t)', pc'[c] = "wait"
    PROVE  /\ queue' \in Seq(TaskTypes) /\ QueueInv' /\ TaskInv'
           /\ SizesQueued(c)' <=> t.kind = "rescale"
<1> DEFINE r == [call |-> c, task |-> t]
<1>0. r.call = c /\ r.task = t /\ r \in TaskTypes
  OBVIOUS
<1>1. \A i \in DOMAIN queue : queue[i] \in TaskTypes /\ queue[i].call # c
  BY DEF WorldInv, CallTypes, QueueInv
<1> HIDE DEF r
<1>2. /\ queue' \in Seq(TaskTypes)
      /\ \A i \in DOMAIN queue : i \in DOMAIN queue' /\ queue'[i] = queue[i]
      /\ \E n \in DOMAIN queue' : queue'[n] = r
      /\ \A i \in DOMAIN queue' :
             (i \in DOMAIN queue /\ queue'[i] = queue[i]) \/ (i = Len(queue) + 1 /\ queue'[i] = r)
  BY <1>0, TaskAsked DEF WorldInv, r
<1>3. ASSUME NEW i \in DOMAIN queue
      PROVE  Fits(queue[i].call, queue[i].task)' /\ pc'[queue'[i].call] = "wait"
  <2>1. PICK q \in TaskTypes : q = queue[i] /\ q.call # c
    BY <1>1
  <2>2. Fits(q.call, q.task)' /\ pc'[q.call] = "wait"
    BY <2>1, OthersFit
  <2> QED
    BY <2>1, <2>2, <1>2
<1>4. QueueInv'
  BY <1>0, <1>1, <1>2, <1>3 DEF QueueInv, WorldInv
<1>5. TaskInv'
  BY <1>0, <1>2, <1>3 DEF TaskInv
<1>6. SizesQueued(c)' <=> t.kind = "rescale"
  BY <1>0, <1>1, <1>2 DEF SizesQueued
<1> QED
  BY <1>2, <1>4, <1>5, <1>6

\* Its task leaves the queue.
LEMMA QueueShrinks ==
    ASSUME WorldInv, NEW k \in DOMAIN queue, queue' = Leaving(k),
           Others(queue[k].call), UNCHANGED <<stage, spec>> \/ NoneElse(queue[k].call)
    PROVE  /\ queue' \in Seq(TaskTypes) /\ QueueInv' /\ TaskInv'
           /\ \A i \in DOMAIN queue' : queue'[i].call # queue[k].call
<1>1. \A i \in DOMAIN queue : queue[i] \in TaskTypes
  BY DEF WorldInv, CallTypes
<1>2. PICK c : c = queue[k].call
  OBVIOUS
<1>3. /\ queue' \in Seq(TaskTypes)
      /\ \A i \in DOMAIN queue' : \E j \in DOMAIN queue :
             queue'[i] = queue[j] /\ queue[j].call # c
      /\ \A i, j \in DOMAIN queue' : queue'[i].call = queue'[j].call => i = j
  BY <1>2, TaskLeaves DEF WorldInv
<1>4. ASSUME NEW i \in DOMAIN queue'
      PROVE  Fits(queue[i].call, queue[i].task)' /\ pc'[queue'[i].call] = "wait"
  <2>1. PICK q \in TaskTypes : q = queue'[i] /\ (\E j \in DOMAIN queue : queue[j] = q) /\ q.call # c
    BY <1>1, <1>3
  <2>2. Fits(q.call, q.task)' /\ pc'[q.call] = "wait"
    BY <2>1, <1>2, OthersFit
  <2> QED
    BY <2>1, <2>2
<1> QED
  BY <1>2, <1>3, <1>4 DEF QueueInv, TaskInv

\* Whatever a call does to the queue, the sizes another waits for are as they were.
LEMMA SizesStay ==
    ASSUME CallTypes, QueueInv, NEW c,
           \/ queue' = queue
           \/ \E t : [call |-> c, task |-> t] \in TaskTypes
                     /\ queue' = Append(queue, [call |-> c, task |-> t])
           \/ \E k \in DOMAIN queue : queue[k].call = c /\ queue' = Leaving(k),
           NEW d, d # c
    PROVE  SizesQueued(d)' <=> SizesQueued(d)
<1>1. CASE queue' = queue
  BY <1>1 DEF SizesQueued
<1>2. ASSUME NEW t, [call |-> c, task |-> t] \in TaskTypes,
             queue' = Append(queue, [call |-> c, task |-> t])
      PROVE  SizesQueued(d)' <=> SizesQueued(d)
  <2>1. PICK r \in TaskTypes : r = [call |-> c, task |-> t]
    BY <1>2
  <2>2. /\ \A i \in DOMAIN queue : i \in DOMAIN queue' /\ queue'[i] = queue[i]
        /\ \A i \in DOMAIN queue' :
             (i \in DOMAIN queue /\ queue'[i] = queue[i]) \/ (i = Len(queue) + 1 /\ queue'[i] = r)
    BY <1>2, <2>1, TaskAsked
  <2>3. r.call # d
    BY <2>1
  <2> QED
    BY <2>2, <2>3 DEF SizesQueued
<1>3. ASSUME NEW k \in DOMAIN queue, queue[k].call = c, queue' = Leaving(k)
      PROVE  SizesQueued(d)' <=> SizesQueued(d)
  <2>1. /\ \A i \in DOMAIN queue' : \E j \in DOMAIN queue :
             queue'[i] = queue[j] /\ queue[j].call # queue[k].call
        /\ \A j \in DOMAIN queue : queue[j].call # queue[k].call =>
             \E i \in DOMAIN queue' : queue'[i] = queue[j]
    BY <1>3, TaskLeaves
  <2> QED
    BY <2>1, <1>3 DEF SizesQueued
<1> QED
  BY <1>1, <1>2, <1>3

-----------------------------------------------------------------------------
(***************************************************************************)
(* The steps of a call.                                                    *)
(***************************************************************************)
LEMMA StepOfCall ==
    ASSUME WorldInv, NEW c, Others(c), UNCHANGED <<stage, spec>> \/ NoneElse(c),
           StageTypes', CallTypes', QueueInv', TaskInv', c \in Calls => CallInv(c)'
    PROVE  WorldInv'
<1>1. ASSUME NEW d \in Calls PROVE CallInv(d)'
  <2>1. CASE d = c
    BY <2>1
  <2>2. CASE d # c
    BY <2>2, OthersKeep
  <2> QED
    BY <2>1, <2>2
<1> QED
  BY <1>1 DEF WorldInv

\* One that has no task and asks for none.
LEMMA QuietStepOfCall ==
    ASSUME WorldInv, NEW c \in Calls, UNCHANGED <<stage, spec, queue>>, pc[c] # "wait",
           Others(c), CallTypes', CallInv(c)'
    PROVE  WorldInv'
<1>1. \A i \in DOMAIN queue : queue[i].call # c
  BY DEF WorldInv, QueueInv
<1>2. UNCHANGED <<stage, spec>> /\ queue' = queue
  OBVIOUS
<1>3. QueueInv' /\ TaskInv'
  BY <1>1, <1>2, QueueKept
<1>4. StageTypes'
  BY <1>2 DEF WorldInv, StageTypes, stage, Here
<1> QED
  BY <1>2, <1>3, <1>4, StepOfCall

\* A call that does not wait has no task that writes sizes.
LEMMA NoSizesQueued ==
    ASSUME QueueInv, NEW c, pc[c] # "wait"
    PROVE  ~SizesQueued(c)
BY DEF QueueInv, SizesQueued

\* The RPC arrives.
LEMMA CalledStep == ASSUME WorldInv, NEW c \in Calls, Called(c) PROVE WorldInv'
<1> USE DEF Called
<1>1. CallTypes
  BY DEF WorldInv
<1>2. Others(c)
  BY <1>1 DEF Others, CallTypes, SizesQueued
<1>3. CallTypes'
  BY <1>1 DEF CallTypes
<1>4. c \notin alone /\ todo[c] = <<>> /\ plan[c] = NoPlan
  BY DEF WorldInv, CallInv, ShapeInv, Placing, Scatters
<1>5. CallInv(c)'
  BY <1>1, <1>4 DEF CallTypes, CallInv, LockInv, ShapeInv, PlanInv, CellInv, InOrder, Underway,
                    Scatters, Serialized
<1> QED
  BY <1>2, <1>3, <1>5, QuietStepOfCall

\* A call gets the lock, or has no need of it.
LEMMA TakesLockStep == ASSUME WorldInv, NEW c \in Calls, TakesLock(c) PROVE WorldInv'
<1> USE DEF TakesLock
<1>1. CallTypes
  BY DEF WorldInv
<1>2. Others(c)
  BY <1>1, WorldCellAssumption DEF Others, CallTypes, SizesQueued
<1>3. CallTypes'
  BY <1>1 DEF CallTypes
<1>4. /\ c \notin alone /\ (~Placing(c) => todo[c] = <<>>)
      /\ verb[c] \notin Scatters => plan[c] = NoPlan
  BY DEF WorldInv, CallInv, ShapeInv
<1>5. CallInv(c)'
  BY <1>1, <1>4 DEF CallTypes, CallInv, LockInv, ShapeInv, PlanInv, CellInv, InOrder, Underway,
                    Placing
<1> QED
  BY <1>2, <1>3, <1>5, QuietStepOfCall

\* A call that has its answer is in nobody's way.
LEMMA EndStep ==
    ASSUME WorldInv, NEW c \in Calls, UNCHANGED <<stage, spec, verb, plan, todo, queue, alone>>,
           gone' \in {gone, gone \cup {c}}, NEW how \in {"done", "failed"}, Ends(c, how),
           pc[c] \notin {"new", "wait"}
    PROVE  WorldInv'
<1> USE DEF Ends, Leaves
<1>1. CallTypes
  BY DEF WorldInv
<1>2. Others(c)
  BY <1>1 DEF Others, CallTypes, SizesQueued
<1>3. CallTypes'
  BY <1>1 DEF CallTypes
<1>4. /\ (~Placing(c) => todo[c] = <<>>) /\ (c \in alone => Placing(c))
      /\ verb[c] \notin Scatters => plan[c] = NoPlan
  BY DEF WorldInv, CallInv, ShapeInv
<1>5. CallInv(c)'
  BY <1>1, <1>4 DEF CallTypes, CallInv, LockInv, ShapeInv, PlanInv, CellInv, Underway, Placing
<1>6. UNCHANGED <<stage, spec, queue>>
  OBVIOUS
<1> QED
  BY <1>2, <1>3, <1>5, <1>6, QuietStepOfCall

-----------------------------------------------------------------------------
(***************************************************************************)
(* The plan of a call.                                                     *)
(***************************************************************************)
\* A move for each of some props, in the order of SetToSeq.
Moved(S, f) == [i \in 1..Cardinality(S) |-> f[SetToSeq(S)[i]]]

\* There is one move for each of the props.
LEMMA MovedFacts ==
    ASSUME NEW S, IsFiniteSet(S), NEW f \in [S -> MoveTypes]
    PROVE  /\ Moved(S, f) \in Seq(MoveTypes)
           /\ \A i \in DOMAIN Moved(S, f) : \E p \in S : Moved(S, f)[i] = f[p]
           /\ \A p \in S : \E i \in DOMAIN Moved(S, f) : Moved(S, f)[i] = f[p]
<1>1. /\ Cardinality(S) \in Nat
      /\ SetToSeq(S) \in [1..Cardinality(S) -> S]
      /\ \A p \in S : \E i \in 1..Cardinality(S) : SetToSeq(S)[i] = p
  BY SequenceOfSet
<1>2. \A i \in 1..Cardinality(S) : SetToSeq(S)[i] \in S /\ Moved(S, f)[i] = f[SetToSeq(S)[i]]
  BY <1>1 DEF Moved
<1>3. Moved(S, f) \in Seq(MoveTypes)
  BY <1>1, <1>2 DEF Moved
<1> QED
  BY <1>1, <1>2, <1>3 DEF Moved

ParkMoves(S) == Moved(S, [p \in S |-> Move(p, Park(p), 0)])

\* Parking moves each prop of the set to its own place.
LEMMA ParkFacts ==
    ASSUME NEW S \in SUBSET Pool
    PROVE  /\ ParkMoves(S) \in Seq(MoveTypes)
           /\ \A i \in DOMAIN ParkMoves(S) : \E p \in S : ParkMoves(S)[i] = Move(p, Park(p), 0)
           /\ \A p \in S : \E i \in DOMAIN ParkMoves(S) : ParkMoves(S)[i] = Move(p, Park(p), 0)
<1> DEFINE f == [p \in S |-> Move(p, Park(p), 0)]
<1>1. IsFiniteSet(S)
  BY WorldCellAssumption, FS_Subset
<1>2. \A p \in S : Move(p, Park(p), 0) \in MoveTypes
  BY DEF Move, MoveTypes, Places, Outside, Props
<1>3. f \in [S -> MoveTypes] /\ \A p \in S : f[p] = Move(p, Park(p), 0)
  BY <1>2
<1>4. ParkMoves(S) = Moved(S, f)
  BY DEF ParkMoves
<1> HIDE DEF f
<1>5. /\ Moved(S, f) \in Seq(MoveTypes)
      /\ \A i \in DOMAIN Moved(S, f) : \E p \in S : Moved(S, f)[i] = f[p]
      /\ \A p \in S : \E i \in DOMAIN Moved(S, f) : Moved(S, f)[i] = f[p]
  BY <1>1, <1>3, MovedFacts
<1> QED
  BY <1>3, <1>4, <1>5

\* The order of a scatter has each prop it places, at its place, and no other.
Orders(s, drawn, rest, edges, spots) ==
    /\ s \in Seq(MoveTypes)
    /\ \A i \in DOMAIN s :
         \/ \E p \in drawn : s[i] = Move(p, Spot(spots[p]), edges[p])
         \/ \E p \in rest : s[i] = Move(p, Park(p), 0)
    /\ \A p \in drawn \cup rest : \E i \in DOMAIN s : s[i].prop = p

\* A scatter orders the moves of the drawn props and of the rest.
LEMMA ScatterFacts ==
    ASSUME NEW c, NEW drawn \in SUBSET Pool, NEW edges \in [drawn -> Nat \ {0}],
           NEW spots \in [drawn -> Spots], NEW s, s = ScatterOrder(c, drawn, edges, spots)
    PROVE  Orders(s, drawn, Parked(c, drawn), edges, spots)
<1> DEFINE f == [p \in drawn |-> Move(p, Spot(spots[p]), edges[p])]
           a == Moved(drawn, f)
           b == ParkMoves(Parked(c, drawn))
<1>1. s = a \o b
  <2>1. a = [i \in 1 .. Cardinality(drawn) |->
                LET p == SetToSeq(drawn)[i] IN Move(p, Spot(spots[p]), edges[p])]
    <3>1. IsFiniteSet(drawn)
      BY WorldCellAssumption, FS_Subset
    <3>2. SetToSeq(drawn) \in [1..Cardinality(drawn) -> drawn]
      BY <3>1, SequenceOfSet
    <3> QED
      BY <3>2 DEF Moved
  <2>2. b = [i \in 1 .. Cardinality(Parked(c, drawn)) |->
                LET p == SetToSeq(Parked(c, drawn))[i] IN Move(p, Park(p), 0)]
    <3>1. Parked(c, drawn) \subseteq Pool
      BY DEF Parked
    <3>2. IsFiniteSet(Parked(c, drawn))
      BY <3>1, WorldCellAssumption, FS_Subset
    <3>3. SetToSeq(Parked(c, drawn)) \in [1..Cardinality(Parked(c, drawn)) -> Parked(c, drawn)]
      BY <3>2, SequenceOfSet
    <3> QED
      BY <3>3 DEF ParkMoves, Moved
  <2> QED
    BY <2>1, <2>2 DEF ScatterOrder
<1>2. /\ a \in Seq(MoveTypes)
      /\ \A i \in DOMAIN a : \E p \in drawn : a[i] = f[p]
      /\ \A p \in drawn : \E i \in DOMAIN a : a[i] = f[p]
  <2>1. IsFiniteSet(drawn)
    BY WorldCellAssumption, FS_Subset
  <2>2. \A p \in drawn : Move(p, Spot(spots[p]), edges[p]) \in MoveTypes
    BY WorldCellAssumption DEF Move, MoveTypes, Places, Props
  <2>3. f \in [drawn -> MoveTypes]
    BY <2>2
  <2> HIDE DEF f
  <2> QED
    BY <2>1, <2>3, MovedFacts
<1>3. /\ b \in Seq(MoveTypes)
      /\ \A i \in DOMAIN b : \E p \in Parked(c, drawn) : b[i] = Move(p, Park(p), 0)
      /\ \A p \in Parked(c, drawn) : \E i \in DOMAIN b : b[i] = Move(p, Park(p), 0)
  <2>1. Parked(c, drawn) \in SUBSET Pool
    BY DEF Parked
  <2> QED
    BY <2>1, ParkFacts
<1>4. \A p \in drawn : f[p] = Move(p, Spot(spots[p]), edges[p])
  OBVIOUS
<1> HIDE DEF f, a, b
<1>5. /\ s \in Seq(MoveTypes) /\ Len(s) = Len(a) + Len(b)
      /\ \A i \in 1 .. Len(a) + Len(b) : s[i] = IF i <= Len(a) THEN a[i] ELSE b[i - Len(a)]
  BY <1>1, <1>2, <1>3, ConcatProperties
<1>6. /\ Len(a) \in Nat /\ DOMAIN a = 1..Len(a) /\ Len(b) \in Nat /\ DOMAIN b = 1..Len(b)
      /\ DOMAIN s = 1..(Len(a) + Len(b))
  BY <1>2, <1>3, <1>5
<1>7. ASSUME NEW i \in DOMAIN s
      PROVE  \/ \E p \in drawn : s[i] = Move(p, Spot(spots[p]), edges[p])
             \/ \E p \in Parked(c, drawn) : s[i] = Move(p, Park(p), 0)
  <2>1. CASE i <= Len(a)
    <3>1. i \in DOMAIN a /\ s[i] = a[i]
      BY <2>1, <1>5, <1>6
    <3> QED
      BY <3>1, <1>2, <1>4
  <2>2. CASE ~(i <= Len(a))
    <3>1. i - Len(a) \in DOMAIN b /\ s[i] = b[i - Len(a)]
      BY <2>2, <1>5, <1>6
    <3> QED
      BY <3>1, <1>3
  <2> QED
    BY <2>1, <2>2
<1>8. \A i \in DOMAIN a : i \in DOMAIN s /\ s[i] = a[i]
  BY <1>5, <1>6
<1>9. \A i \in DOMAIN b : Len(a) + i \in DOMAIN s /\ s[Len(a) + i] = b[i]
  <2> SUFFICES ASSUME NEW i \in DOMAIN b
               PROVE  Len(a) + i \in DOMAIN s /\ s[Len(a) + i] = b[i]
    OBVIOUS
  <2>1. ~(Len(a) + i <= Len(a)) /\ (Len(a) + i) - Len(a) = i /\ Len(a) + i \in 1..(Len(a) + Len(b))
    BY <1>6
  <2> QED
    BY <2>1, <1>5, <1>6
<1>10. \A p \in drawn : \E i \in DOMAIN s : s[i].prop = p
  <2> SUFFICES ASSUME NEW p \in drawn PROVE \E i \in DOMAIN s : s[i].prop = p
    OBVIOUS
  <2>1. PICK i \in DOMAIN a : a[i] = Move(p, Spot(spots[p]), edges[p])
    BY <1>2, <1>4
  <2> QED
    BY <2>1, <1>8 DEF Move
<1>11. \A p \in Parked(c, drawn) : \E i \in DOMAIN s : s[i].prop = p
  BY <1>3, <1>9 DEF Move
<1> QED
  BY <1>5, <1>7, <1>10, <1>11 DEF Orders

\* A draw: whether the call is alone is settled here, so all of CallInv is new.
LEMMA DrawsStep == ASSUME WorldInv, NEW c \in Calls, Draws(c) PROVE WorldInv'
<1>1. CallTypes /\ StageTypes /\ ShapeInv(c)
  BY DEF WorldInv, CallInv
<1>2. pc[c] = "begin" /\ verb[c] \in Scatters /\ UNCHANGED <<stage, spec, verb, lock, gone, queue, faults>>
  BY DEF Draws
<1>0. PICK drawn \in SUBSET Pool, sized \in BOOLEAN :
        /\ verb[c] = "randomize" => drawn # {}
        /\ \E edges \in IF sized THEN [drawn -> Sizes] ELSE {[p \in drawn |-> spec[p]]},
              spots \in Injection(drawn, Spots) :
            /\ plan' = [plan EXCEPT ![c] =
                            [sized |-> sized /\ drawn # {}, edges |-> edges, spots |-> spots]]
            /\ todo' = [todo EXCEPT ![c] = ScatterOrder(c, drawn, edges, spots)]
            /\ pc' = [pc EXCEPT ![c] = IF plan'[c].sized THEN "rescale" ELSE "put"]
            /\ alone' = IF plan'[c].sized \/ CellIsClear THEN alone \cup {c} ELSE alone
  BY DEF Draws
<1>3. PICK edges \in IF sized THEN [drawn -> Sizes] ELSE {[p \in drawn |-> spec[p]]},
           spots \in Injection(drawn, Spots) :
        /\ plan' = [plan EXCEPT ![c] =
                        [sized |-> sized /\ drawn # {}, edges |-> edges, spots |-> spots]]
        /\ todo' = [todo EXCEPT ![c] = ScatterOrder(c, drawn, edges, spots)]
        /\ pc' = [pc EXCEPT ![c] = IF plan'[c].sized THEN "rescale" ELSE "put"]
        /\ alone' = IF plan'[c].sized \/ CellIsClear THEN alone \cup {c} ELSE alone
  BY <1>0
<1>4. edges \in [drawn -> Nat \ {0}] /\ (~sized => \A p \in drawn : edges[p] = spec[p])
  <2>1. CASE sized
    BY <2>1, <1>3, WorldCellAssumption
  <2>2. CASE ~sized
    <3>1. edges = [p \in drawn |-> spec[p]]
      BY <2>2, <1>3
    <3>2. \A p \in drawn : spec[p] \in Nat \ {0}
      BY <1>1, WorldCellAssumption DEF StageTypes, Here, Props
    <3> QED
      BY <3>1, <3>2
  <2> QED
    BY <2>1, <2>2
<1>5. spots \in [drawn -> Spots] /\ IsInjective(spots)
  BY DEF Injection
<1>6. PICK s : s = ScatterOrder(c, drawn, edges, spots)
  OBVIOUS
<1>7. /\ s \in Seq(MoveTypes)
      /\ \A i \in DOMAIN s :
            \/ \E p \in drawn : s[i] = Move(p, Spot(spots[p]), edges[p])
            \/ \E p \in Parked(c, drawn) : s[i] = Move(p, Park(p), 0)
      /\ \A p \in drawn \cup Parked(c, drawn) : \E i \in DOMAIN s : s[i].prop = p
  <2>1. Orders(s, drawn, Parked(c, drawn), edges, spots)
    BY <1>4, <1>5, <1>6, ScatterFacts
  <2> QED
    BY <2>1 DEF Orders
<1>8. /\ plan'[c] = [sized |-> sized /\ drawn # {}, edges |-> edges, spots |-> spots]
      /\ todo'[c] = s /\ pc'[c] = IF plan'[c].sized THEN "rescale" ELSE "put"
      /\ verb' = verb /\ Drawn(c)' = drawn
  BY <1>1, <1>2, <1>3, <1>4, <1>6 DEF CallTypes, Drawn
<1>9. Others(c)
  BY <1>1, <1>2, <1>3 DEF Others, CallTypes, SizesQueued
<1>10. CallTypes'
  <2>1. [sized |-> sized /\ drawn # {}, edges |-> edges, spots |-> spots] \in PlanTypes
    BY <1>4, <1>5 DEF PlanTypes
  <2> QED
    BY <2>1, <1>1, <1>2, <1>3, <1>6, <1>7 DEF CallTypes
<1>11. Placed(c)' = drawn \cup Parked(c, drawn) /\ Left(c)' = Placed(c)'
  <2>1. Placed(c)' = drawn \cup Parked(c, drawn)
    BY <1>2, <1>8 DEF Placed, Parked, Scatters
  <2>2. \A i \in DOMAIN s : s[i].prop \in drawn \cup Parked(c, drawn)
    BY <1>7 DEF Move
  <2>3. Left(c)' = drawn \cup Parked(c, drawn)
    BY <2>2, <1>7, <1>8 DEF Left
  <2> QED
    BY <2>1, <2>3
<1>12. LockInv(c)'
  BY <1>1, <1>2, <1>3 DEF WorldInv, CallInv, LockInv, InOrder
<1>13. ShapeInv(c)'
  BY <1>1, <1>2, <1>8 DEF ShapeInv, Placing
<1>14. PlanInv(c)'
  <2>1. ASSUME NEW i \in DOMAIN todo'[c], NEW m, m = todo'[c][i]
        PROVE  /\ m.prop \in Placed(c)' /\ m.place = Goal(c, m.prop)'
               /\ m.height = IF m.prop \in drawn THEN edges[m.prop] ELSE 0
    <3>1. CASE \E p \in drawn : m = Move(p, Spot(spots[p]), edges[p])
      BY <3>1, <1>8, <1>11 DEF Move, Goal
    <3>2. CASE \E p \in Parked(c, drawn) : m = Move(p, Park(p), 0)
      BY <3>2, <1>8, <1>11 DEF Move, Goal, Parked
    <3> QED
      BY <2>1, <3>1, <3>2, <1>7, <1>8
  <2>2. /\ Drawn(c)' \subseteq Pool /\ plan'[c].edges \in [Drawn(c)' -> Nat \ {0}]
        /\ plan'[c].spots \in Injection(Drawn(c)', Spots)
    BY <1>4, <1>8
  <2> QED
    BY <2>1, <2>2, <1>8, <1>11 DEF PlanInv
<1>15. CellInv(c)'
  <2> SUFFICES ASSUME c \in alone', ~Unsized(c)'
               PROVE  /\ \A p \in Here : at[p] \in Outside(p)
                      /\ \A p \in drawn : edge[p] = edges[p]
    BY <1>2, <1>8, <1>11 DEF CellInv, stage, Here
  <2>1. ~plan'[c].sized
    BY <1>8 DEF Unsized
  <2>2. c \notin alone
    BY <1>1, <1>2 DEF ShapeInv
  <2>3. CellIsClear
    BY <2>1, <2>2, <1>3
  <2>4. \A p \in drawn : edges[p] = spec[p]
    BY <2>1, <1>4, <1>8
  <2> QED
    BY <2>3, <2>4, <1>1 DEF CellIsClear, Outside, StageTypes
<1> QED
  BY <1>2, <1>9, <1>10, <1>12, <1>13, <1>14, <1>15, QuietStepOfCall DEF CallInv

\* A clearing parks the whole pool.
LEMMA ClearsStep == ASSUME WorldInv, NEW c \in Calls, Clears(c) PROVE WorldInv'
<1>1. CallTypes /\ StageTypes /\ ShapeInv(c)
  BY DEF WorldInv, CallInv
<1>2. /\ pc[c] = "begin" /\ verb[c] = "clear" /\ pc' = [pc EXCEPT ![c] = "put"]
      /\ alone' = IF CellIsClear THEN alone \cup {c} ELSE alone
      /\ UNCHANGED <<stage, spec, verb, plan, lock, gone, queue, faults>>
  BY DEF Clears
<1>3. todo' = [todo EXCEPT ![c] =
                    [i \in 1 .. Cardinality(Pool) |->
                        LET p == SetToSeq(Pool)[i] IN Move(p, Park(p), 0)]]
  BY DEF Clears
<1>4. PICK s : s = ParkMoves(Pool)
  OBVIOUS
<1>5. s = [i \in 1 .. Cardinality(Pool) |->
                LET p == SetToSeq(Pool)[i] IN Move(p, Park(p), 0)]
  <2>1. SetToSeq(Pool) \in [1..Cardinality(Pool) -> Pool]
    BY WorldCellAssumption, SequenceOfSet
  <2> QED
    BY <2>1, <1>4 DEF ParkMoves, Moved
<1>6. /\ s \in Seq(MoveTypes)
      /\ \A i \in DOMAIN s : \E p \in Pool : s[i] = Move(p, Park(p), 0)
      /\ \A p \in Pool : \E i \in DOMAIN s : s[i] = Move(p, Park(p), 0)
  <2>1. Pool \in SUBSET Pool
    OBVIOUS
  <2> QED
    BY <2>1, <1>4, ParkFacts
<1>7. /\ plan'[c] = NoPlan /\ todo'[c] = s /\ pc'[c] = "put" /\ verb'[c] = "clear"
      /\ Drawn(c)' = {} /\ Placed(c)' = Pool
  <2>1. plan'[c] = NoPlan
    BY <1>1, <1>2 DEF ShapeInv, Scatters
  <2>2. Drawn(c)' = {}
    BY <2>1 DEF Drawn, NoPlan
  <2> QED
    BY <2>1, <2>2, <1>1, <1>2, <1>3, <1>5 DEF Placed, CallTypes
<1>8. Left(c)' = Pool
  <2>1. \A i \in DOMAIN s : s[i].prop \in Pool
    BY <1>6 DEF Move
  <2>2. ASSUME NEW p \in Pool PROVE \E i \in DOMAIN s : s[i].prop = p
    <3>1. PICK i \in DOMAIN s : s[i] = Move(p, Park(p), 0)
      BY <1>6
    <3> QED
      BY <3>1 DEF Move
  <2> QED
    BY <2>1, <2>2, <1>7 DEF Left
<1>9. Others(c)
  BY <1>1, <1>2, <1>3 DEF Others, CallTypes, SizesQueued
<1>10. CallTypes'
  BY <1>1, <1>2, <1>3, <1>5, <1>6 DEF CallTypes
<1>11. LockInv(c)'
  BY <1>2 DEF LockInv, InOrder, Scatters
<1>12. ShapeInv(c)'
  BY <1>1, <1>2, <1>7 DEF ShapeInv, Placing
<1>13. PlanInv(c)'
  <2>1. ASSUME NEW i \in DOMAIN todo'[c], NEW m, m = todo'[c][i]
        PROVE  m.prop \in Pool /\ m.place = Goal(c, m.prop)' /\ m.height = 0
    BY <2>1, <1>6, <1>7 DEF Move, Goal
  <2>2. plan'[c].edges \in [{} -> Nat \ {0}]
    BY <1>7 DEF NoPlan
  <2> QED
    BY <2>1, <2>2, <1>7, <1>8 DEF PlanInv
<1>14. CellInv(c)'
  <2>1. c \notin alone
    BY <1>1, <1>2 DEF ShapeInv
  <2>2. c \in alone' => \A p \in Here : at[p] \in Outside(p)
    BY <2>1, <1>2 DEF CellIsClear, Outside
  <2> QED
    BY <2>2, <1>2, <1>7, <1>8 DEF CellInv, stage, Here
<1> QED
  BY <1>2, <1>9, <1>10, <1>11, <1>12, <1>13, <1>14, QuietStepOfCall DEF CallInv

-----------------------------------------------------------------------------
(***************************************************************************)
(* The tasks of a call.                                                    *)
(***************************************************************************)
LEMMA AsksStep ==
    ASSUME WorldInv, NEW c \in Calls, NEW t, [call |-> c, task |-> t] \in TaskTypes, Runs(c, t),
           UNCHANGED <<stage, spec, verb, plan, todo, lock, gone, alone>>, Fits(c, t)',
           pc[c] \in {"rescale", "put"} \/ (pc[c] = "begin" /\ ~Placing(c)),
           t.kind = "rescale" <=> pc[c] = "rescale"
    PROVE  WorldInv'
<1>1. CallTypes /\ StageTypes /\ QueueInv /\ CallInv(c)
  BY DEF WorldInv
<1>2. queue' = Append(queue, [call |-> c, task |-> t]) /\ pc' = [pc EXCEPT ![c] = "wait"]
  BY DEF Runs
<1>3. pc[c] # "wait" /\ pc'[c] = "wait"
  BY <1>1, <1>2 DEF CallTypes
<1>4. Others(c)
  <2>1. \A d : d # c => (SizesQueued(d)' <=> SizesQueued(d))
    BY <1>1, <1>2, SizesStay
  <2> QED
    BY <2>1, <1>1, <1>2 DEF Others, CallTypes
<1>5. UNCHANGED <<stage, spec>>
  OBVIOUS
<1>6. /\ queue' \in Seq(TaskTypes) /\ QueueInv' /\ TaskInv'
      /\ SizesQueued(c)' <=> t.kind = "rescale"
  BY <1>2, <1>3, <1>4, <1>5, QueueGrows
<1>7. CallTypes'
  BY <1>1, <1>2, <1>6 DEF CallTypes
<1>8. StageTypes'
  BY <1>1 DEF StageTypes, stage, Here
<1>9. ~SizesQueued(c)
  BY <1>1, <1>3, NoSizesQueued
<1>10. Unsized(c)' <=> Unsized(c)
  BY <1>3, <1>6, <1>9 DEF Unsized
<1>11. /\ Drawn(c)' = Drawn(c) /\ Placed(c)' = Placed(c) /\ Left(c)' = Left(c)
       /\ Placing(c)' = Placing(c) /\ InOrder(c)' = InOrder(c) /\ Here' = Here
       /\ \A p : Goal(c, p)' = Goal(c, p)
  BY DEF Drawn, Placed, Left, Placing, InOrder, Goal, Here
<1>12. LockInv(c)' /\ ShapeInv(c)'
  BY <1>1, <1>3, <1>11 DEF CallInv, LockInv, ShapeInv
<1>13. PlanInv(c)'
  BY <1>1, <1>3, <1>10, <1>11 DEF CallInv, PlanInv, Underway
<1>14. CellInv(c)'
  BY <1>1, <1>3, <1>10, <1>11 DEF CallInv, CellInv, Underway, stage
<1>15. CallInv(c)'
  BY <1>12, <1>13, <1>14 DEF CallInv
<1> QED
  BY <1>4, <1>5, <1>6, <1>7, <1>8, <1>15, StepOfCall

\* The move of a task that moves nothing has the type of a move.
LEMMA NoMoveType == NoMove \in MoveTypes
BY DEF NoMove, Move, MoveTypes, Places, Outside, Props

\* The sizes of a draw go to the sim thread first.
LEMMA RescalesStep == ASSUME WorldInv, NEW c \in Calls, Rescales(c) PROVE WorldInv'
<1>1. /\ pc[c] = "rescale" /\ Runs(c, Task("rescale", NoMove))
      /\ UNCHANGED <<stage, spec, verb, plan, todo, lock, gone, alone>>
  BY DEF Rescales
<1>2. PICK t : t = Task("rescale", NoMove)
  OBVIOUS
<1>3. [call |-> c, task |-> t] \in TaskTypes /\ t.kind = "rescale"
  BY <1>2, NoMoveType DEF Task, TaskTypes
<1>4. Fits(c, t)'
  BY <1>1, <1>3 DEF Fits, WorldInv, CallInv, ShapeInv
<1> QED
  BY <1>1, <1>2, <1>3, <1>4, AsksStep

\* The next move goes to the sim thread, with the height that it needs.
LEMMA PutsNextStep == ASSUME WorldInv, NEW c \in Calls, PutsNext(c) PROVE WorldInv'
<1>1. /\ pc[c] = "put" /\ todo[c] # <<>>
      /\ UNCHANGED <<stage, spec, verb, plan, todo, lock, gone, alone>>
  BY DEF PutsNext
<1>2. PICK m : m = Head(todo[c])
  OBVIOUS
<1>3. PICK height : height = IF m.height = 0 THEN spec[m.prop] ELSE m.height
  OBVIOUS
<1>4. CallTypes /\ StageTypes /\ CallInv(c) /\ Placing(c)
  BY <1>1 DEF WorldInv, CallInv, ShapeInv
<1>5. m \in MoveTypes /\ 1 \in DOMAIN todo[c] /\ m = todo[c][1]
  BY <1>1, <1>2, <1>4 DEF CallTypes
<1>6. height \in Nat
  BY <1>3, <1>4, <1>5, WorldCellAssumption DEF StageTypes, MoveTypes
<1>7. PICK n : n = [m EXCEPT !.height = height]
  OBVIOUS
<1>8. n \in MoveTypes /\ n.prop = m.prop /\ n.place = m.place /\ n.height = height
  BY <1>5, <1>6, <1>7 DEF MoveTypes
<1>9. PICK t : t = Task("put", n)
  OBVIOUS
<1>10. Runs(c, t)
  BY <1>2, <1>3, <1>5, <1>7, <1>9 DEF PutsNext, MoveTypes
<1>11. [call |-> c, task |-> t] \in TaskTypes /\ t.kind = "put" /\ t.move = n
  BY <1>8, <1>9 DEF Task, TaskTypes
<1>12. c \in alone => height >= edge[m.prop]
  <2> SUFFICES ASSUME c \in alone PROVE height >= edge[m.prop]
    OBVIOUS
  <2>1. Underway(c) /\ ~Unsized(c)
    BY <1>1, <1>4, NoSizesQueued DEF Underway, Unsized, WorldInv
  <2>2. /\ m.prop \in Placed(c) /\ Drawn(c) \subseteq Pool
        /\ plan[c].edges \in [Drawn(c) -> Nat \ {0}]
        /\ m.height = IF m.prop \in Drawn(c) THEN plan[c].edges[m.prop] ELSE 0
    BY <2>1, <1>4, <1>5 DEF CallInv, PlanInv
  <2>3. CASE m.prop \in Drawn(c)
    <3>1. height = plan[c].edges[m.prop] /\ edge[m.prop] = plan[c].edges[m.prop]
      BY <2>1, <2>2, <2>3, <1>3, <1>4, WorldCellAssumption DEF CallInv, CellInv
    <3> QED
      BY <3>1, <1>6
  <2>4. CASE m.prop \notin Drawn(c)
    <3>1. height = spec[m.prop] /\ m.prop \in Here
      BY <2>2, <2>4, <1>3, <1>4 DEF Placed, StageTypes
    <3>2. edge[m.prop] = height
      BY <3>1, <1>4 DEF StageTypes
    <3> QED
      BY <3>2, <1>6
  <2> QED
    BY <2>3, <2>4
<1>13. Fits(c, t)'
  <2>1. edge' = edge
    BY <1>1 DEF stage
  <2> QED
    BY <2>1, <1>1, <1>2, <1>4, <1>8, <1>11, <1>12 DEF Fits, Placing
<1> QED
  BY <1>1, <1>10, <1>11, <1>13, AsksStep

\* A reset or spawn hands over its one task.
LEMMA OneTaskStep == ASSUME WorldInv, NEW c \in Calls, OneTask(c) PROVE WorldInv'
<1>1. /\ pc[c] = "begin" /\ verb[c] \in {"reset", "spawn"}
      /\ UNCHANGED <<stage, spec, verb, plan, todo, gone, faults, alone>>
  BY DEF OneTask
<1>2. CASE verb[c] = "spawn" /\ spec[Extra] # 0
  <2>1. Ends(c, "failed") /\ queue' = queue
    BY <1>2 DEF OneTask
  <2>2. UNCHANGED <<stage, spec, verb, plan, todo, queue, alone>> /\ gone' \in {gone, gone \cup {c}}
    BY <2>1, <1>1
  <2>3. pc[c] \notin {"new", "wait"} /\ "failed" \in {"done", "failed"}
    BY <1>1
  <2> QED
    BY <2>1, <2>2, <2>3, EndStep
<1>3. CASE ~(verb[c] = "spawn" /\ spec[Extra] # 0)
  <2>1. Runs(c, Task(verb[c], NoMove)) /\ lock' = lock
    BY <1>3 DEF OneTask
  <2>2. PICK t : t = Task(verb[c], NoMove)
    OBVIOUS
  <2>3. [call |-> c, task |-> t] \in TaskTypes /\ t.kind = verb[c]
    BY <2>2, <1>1, NoMoveType DEF Task, TaskTypes
  <2>4. Fits(c, t)'
    BY <2>3, <1>1 DEF Fits
  <2>5. ~Placing(c)
    BY <1>1 DEF Placing, Scatters
  <2> QED
    BY <1>1, <2>1, <2>2, <2>3, <2>4, <2>5, AsksStep
<1> QED
  BY <1>2, <1>3

\* A call that answers, or is refused, has nothing under way.
LEMMA RepliesStep == ASSUME WorldInv, NEW c \in Calls, Replies(c) \/ Refused(c) PROVE WorldInv'
<1>1. PICK how \in {"done", "failed"} :
        /\ Ends(c, how) /\ pc[c] \in {"put", "begin"}
        /\ UNCHANGED <<stage, spec, verb, plan, todo, gone, queue, alone>>
  BY DEF Replies, Refused
<1>2. UNCHANGED <<stage, spec, verb, plan, todo, queue, alone>> /\ gone' \in {gone, gone \cup {c}}
  BY <1>1
<1>3. pc[c] \notin {"new", "wait"}
  BY <1>1
<1> QED
  BY <1>1, <1>2, <1>3, EndStep

\* A call whose task was not started takes it out of the queue.
LEMMA TimesOutStep == ASSUME WorldInv, NEW c \in Calls, TimesOut(c) PROVE WorldInv'
<1>1. /\ pc[c] = "wait" /\ Ends(c, "failed")
      /\ UNCHANGED <<stage, spec, verb, plan, todo, gone, alone>>
  BY DEF TimesOut
<1>2. PICK k \in DOMAIN queue : queue[k].call = c /\ queue' = RemoveAt(queue, k)
  BY DEF TimesOut
<1>3. CallTypes /\ StageTypes /\ QueueInv /\ CallInv(c)
  BY DEF WorldInv
<1>4. queue' = Leaving(k)
  BY <1>2, <1>3, RemovedLeaves
<1>5. Others(c)
  <2>1. \A d : d # c => (SizesQueued(d)' <=> SizesQueued(d))
    BY <1>2, <1>3, <1>4, SizesStay
  <2> QED
    BY <2>1, <1>1, <1>3 DEF Others, CallTypes, Ends, Leaves
<1>6. UNCHANGED <<stage, spec>>
  BY <1>1
<1>7. queue' \in Seq(TaskTypes) /\ QueueInv' /\ TaskInv'
  BY <1>2, <1>4, <1>5, <1>6, QueueShrinks
<1>8. CallTypes' /\ pc'[c] = "failed"
  BY <1>1, <1>3, <1>7 DEF CallTypes, Ends
<1>9. StageTypes'
  BY <1>3, <1>6 DEF StageTypes, stage, Here
<1>10. CallInv(c)'
  BY <1>1, <1>3, <1>8 DEF CallInv, LockInv, ShapeInv, PlanInv, CellInv, Underway, Placing
<1> QED
  BY <1>5, <1>6, <1>7, <1>8, <1>9, <1>10, StepOfCall

\* A dropped call gives up the lock; its worker goes on.
LEMMA DroppedStep == ASSUME WorldInv, NEW c \in Calls, Dropped(c) PROVE WorldInv'
<1>1. /\ pc[c] \in {"lock", "begin", "rescale", "put", "wait"} /\ gone' = gone \cup {c}
      /\ IF pc[c] = "lock" THEN Ends(c, "failed") ELSE Leaves(c) /\ UNCHANGED pc
      /\ UNCHANGED <<stage, spec, verb, plan, todo, queue, alone>>
  BY DEF Dropped
<1>2. CASE pc[c] = "lock"
  <2>1. Ends(c, "failed") /\ gone' \in {gone, gone \cup {c}} /\ pc[c] \notin {"new", "wait"}
    BY <1>1, <1>2
  <2> QED
    BY <2>1, <1>1, EndStep
<1>3. CASE pc[c] # "lock"
  <2>1. Leaves(c) /\ UNCHANGED <<stage, spec, verb, plan, todo, queue, alone, pc>>
    BY <1>1, <1>3
  <2>2. CallTypes /\ StageTypes /\ QueueInv /\ TaskInv /\ CallInv(c)
    BY DEF WorldInv
  <2>3. CallTypes' /\ StageTypes'
    BY <2>1, <2>2, <1>1 DEF CallTypes, StageTypes, stage, Here
  <2>4. QueueInv' /\ TaskInv'
    BY <2>1, <2>2 DEF QueueInv, TaskInv, Fits, Placing, stage
  <2>5. Others(c)
    BY <2>1, <1>1 DEF Others, SizesQueued, Leaves
  <2>6. /\ Drawn(c)' = Drawn(c) /\ Placed(c)' = Placed(c) /\ Left(c)' = Left(c)
        /\ Placing(c)' = Placing(c) /\ Underway(c)' = Underway(c) /\ Unsized(c)' = Unsized(c)
        /\ Here' = Here /\ \A p : Goal(c, p)' = Goal(c, p)
    BY <2>1 DEF Drawn, Placed, Left, Placing, Goal, Here, Underway, Unsized, SizesQueued
  <2>7. CallInv(c)'
    BY <2>1, <2>2, <2>6, <1>1 DEF CallInv, LockInv, ShapeInv, PlanInv, CellInv, InOrder, stage
  <2>8. UNCHANGED <<stage, spec>>
    BY <2>1
  <2> QED
    BY <2>3, <2>4, <2>5, <2>7, <2>8, StepOfCall
<1> QED
  BY <1>2, <1>3

-----------------------------------------------------------------------------
(***************************************************************************)
(* The sim thread.                                                         *)
(***************************************************************************)
\* What a task is, and of which call.
LEMMA TaskFacts ==
    ASSUME WorldInv, queue # <<>>, NEW q, q = Head(queue)
    PROVE  /\ q \in TaskTypes /\ q.call \in Calls /\ pc[q.call] = "wait" /\ Fits(q.call, q.task)
           /\ 1 \in DOMAIN queue /\ q = queue[1] /\ Tail(queue) = Leaving(1)
           /\ SizesQueued(q.call) <=> q.task.kind = "rescale"
<1>1. 1 \in DOMAIN queue /\ q = queue[1] /\ Tail(queue) = Leaving(1)
  BY HeadLeaves DEF WorldInv
<1>2. q \in TaskTypes
  BY <1>1 DEF WorldInv, CallTypes
<1>3. pc[q.call] = "wait" /\ Fits(q.call, q.task)
  BY <1>1 DEF WorldInv, QueueInv, TaskInv
<1>4. SizesQueued(q.call) <=> q.task.kind = "rescale"
  BY <1>1 DEF WorldInv, QueueInv, SizesQueued
<1> QED
  BY <1>1, <1>2, <1>3, <1>4 DEF TaskTypes

\* The stage after a task.
LEMMA EffectTypes ==
    ASSUME WorldInv, NEW q \in TaskTypes, Effect(q), Fits(q.call, q.task), pc[q.call] = "wait"
    PROVE  StageTypes'
<1>1. StageTypes /\ Extra \in Props /\ Pool \subseteq Props /\ SpawnSize \in Nat \ {0}
  BY WorldCellAssumption DEF WorldInv, Props
<1>2. \A p \in Props : Spawn(p) \in Places
  BY DEF Places, Outside
<1>3. CASE q.task.kind = "rescale"
  <2>1. PlanInv(q.call) /\ Underway(q.call)
    BY <1>3 DEF WorldInv, CallInv, Fits, Underway, Placing, TaskTypes
  <2>2. Drawn(q.call) \subseteq Pool /\ plan[q.call].edges \in [Drawn(q.call) -> Nat \ {0}]
    BY <2>1 DEF PlanInv
  <2>3. Rescale(q.call)
    BY <1>3 DEF Effect
  <2>4. PICK e : e = plan[q.call].edges
    OBVIOUS
  <2>5. /\ spec' = [p \in Props |-> IF p \in Drawn(q.call) THEN e[p] ELSE spec[p]]
        /\ edge' = [p \in Props |-> IF p \in Drawn(q.call) THEN e[p] ELSE edge[p]]
        /\ at' = [p \in Props |-> IF p \in Here THEN Spawn(p) ELSE at[p]]
        /\ lift' = [p \in Props |-> IF p \in Here THEN SpawnSize ELSE lift[p]]
    BY <2>3, <2>4 DEF Rescale, AllAtSpawn, Rescaled
  <2>6. \A p \in Drawn(q.call) : e[p] \in Nat \ {0}
    BY <2>2, <2>4
  <2>7. at' \in [Props -> Places] /\ lift' \in [Props -> Nat]
    BY <2>5, <1>1, <1>2 DEF StageTypes
  <2>8. edge' \in [Props -> Nat] /\ spec' \in [Props -> Nat]
    BY <2>5, <2>6, <1>1 DEF StageTypes
  <2>9. Extra \notin Drawn(q.call)
    BY <2>2, WorldCellAssumption
  <2>10. Pool \subseteq Here'
    BY <2>5, <2>6, <1>1 DEF StageTypes, Here
  <2>11. \A p \in Here' : edge'[p] = spec'[p]
    BY <2>5, <1>1 DEF StageTypes, Here
  <2> QED
    BY <2>7, <2>8, <2>9, <2>10, <2>11, <2>5, <1>1 DEF StageTypes
<1>4. CASE q.task.kind = "put"
  <2>1. Teleport(q.task.move)
    BY <1>4 DEF Effect
  <2>2. q.task.move \in MoveTypes
    BY DEF TaskTypes
  <2> QED
    BY <2>1, <2>2, <1>1 DEF StageTypes, Teleport, MoveTypes, Here
<1>5. CASE q.task.kind = "reset"
  <2>1. AllAtSpawn /\ UNCHANGED <<edge, spec>>
    BY <1>5 DEF Effect, Restore
  <2> QED
    BY <2>1, <1>1, <1>2 DEF StageTypes, AllAtSpawn, Here
<1>6. CASE q.task.kind = "spawn"
  <2>1. CASE Clashes(q)
    BY <2>1, <1>1, <1>6 DEF Effect, StageTypes, stage, Here
  <2>2. CASE ~Clashes(q)
    <3>1. SpawnExtra
      BY <2>2, <1>6 DEF Effect
    <3>2. edge' = edge /\ spec' = [spec EXCEPT ![Extra] = SpawnSize]
      BY <3>1 DEF SpawnExtra
    <3>3. at' \in [Props -> Places] /\ lift' \in [Props -> Nat]
      BY <3>1, <1>1, <1>2 DEF SpawnExtra, StageTypes
    <3> QED
      BY <3>2, <3>3, <1>1 DEF StageTypes, Here
  <2> QED
    BY <2>1, <2>2
<1> QED
  BY <1>3, <1>4, <1>5, <1>6 DEF TaskTypes

\* A task of another call would disturb a call that is alone: of two that keep
\* the order only one has the lock.
LEMMA OwnTask ==
    ASSUME WorldInv, NEW c \in Calls, pc[c] = "wait", Disturbs(c)
    PROVE  NoneElse(c)
<1> SUFFICES ASSUME NEW d \in Calls \ {c}, d \in alone', Underway(d) PROVE FALSE
  BY DEF NoneElse, Disturbs
<1>1. InOrder(c) /\ InOrder(d)
  BY DEF Disturbs
<1>2. LockInv(c) /\ LockInv(d)
  BY DEF WorldInv, CallInv
<1>3. lock = c /\ lock = d
  BY <1>1, <1>2 DEF LockInv, Underway
<1> QED
  BY <1>3

\* What a call that has written its sizes finds: every prop where it was spawned.
LEMMA AfterRescale ==
    ASSUME WorldInv, NEW c \in Calls, Underway(c), Unsized(c), Rescale(c),
           verb' = verb, plan' = plan, todo' = todo
    PROVE  CellInv(c)'
<1>1. PlanInv(c) /\ StageTypes
  BY DEF WorldInv, CallInv
<1>2. /\ Drawn(c) \subseteq Pool /\ plan[c].edges \in [Drawn(c) -> Nat \ {0}]
      /\ Left(c) = Placed(c)
  BY <1>1 DEF PlanInv
<1>3. PICK e : e = plan[c].edges
  OBVIOUS
<1>4. /\ spec' = [p \in Props |-> IF p \in Drawn(c) THEN e[p] ELSE spec[p]]
      /\ edge' = [p \in Props |-> IF p \in Drawn(c) THEN e[p] ELSE edge[p]]
      /\ at' = [p \in Props |-> IF p \in Here THEN Spawn(p) ELSE at[p]]
  BY <1>3 DEF Rescale, AllAtSpawn, Rescaled
<1>5. Pool \subseteq Here /\ Pool \subseteq Props
  BY <1>1 DEF StageTypes, Props
<1>6. Here' \subseteq Here
  BY <1>2, <1>4, <1>5 DEF Here
<1>7. Drawn(c)' = Drawn(c) /\ Left(c)' = Left(c) /\ Placed(c)' = Placed(c) /\ plan'[c] = plan[c]
  BY DEF Drawn, Left, Placed
<1>8. \A p \in Here' : at'[p] \in Outside(p)
  BY <1>4, <1>6 DEF Here, Outside
<1>9. \A p \in Drawn(c) : edge'[p] = e[p]
  BY <1>2, <1>4, <1>5
<1> QED
  BY <1>2, <1>3, <1>7, <1>8, <1>9 DEF CellInv

\* What one that has moved a prop finds.
LEMMA AfterTeleport ==
    ASSUME WorldInv, NEW c \in Calls, c \in alone, Underway(c), ~Unsized(c), todo[c] # <<>>,
           NEW m \in MoveTypes, m.prop = Head(todo[c]).prop, m.place = Head(todo[c]).place,
           m.height >= edge[m.prop], Teleport(m),
           verb' = verb, plan' = plan, todo'[c] = Tail(todo[c])
    PROVE  CellInv(c)'
<1>1. PlanInv(c) /\ CellInv(c) /\ StageTypes /\ todo[c] \in Seq(MoveTypes)
  BY DEF WorldInv, CallInv, CallTypes
<1>2. /\ 1 \in DOMAIN todo[c] /\ Head(todo[c]) = todo[c][1] /\ Len(todo[c]) \in Nat
      /\ DOMAIN todo[c] = 1..Len(todo[c])
      /\ DOMAIN Tail(todo[c]) = 1..(Len(todo[c]) - 1)
      /\ \A i \in DOMAIN Tail(todo[c]) : Tail(todo[c])[i] = todo[c][i + 1]
  BY <1>1
<1>3. m.prop \in Placed(c) /\ m.place = Goal(c, m.prop) /\ Drawn(c) \subseteq Pool
  BY <1>1, <1>2 DEF PlanInv
<1>4. /\ at' = [at EXCEPT ![m.prop] = m.place] /\ lift' = [lift EXCEPT ![m.prop] = m.height]
      /\ edge' = edge /\ spec' = spec
  BY DEF Teleport
<1>5. /\ Drawn(c)' = Drawn(c) /\ Placed(c)' = Placed(c) /\ plan'[c] = plan[c] /\ Here' = Here
      /\ \A p : Goal(c, p)' = Goal(c, p)
  BY <1>4 DEF Drawn, Placed, Goal, Here
<1>6. Left(c) \subseteq Left(c)' \cup {m.prop}
  <2> SUFFICES ASSUME NEW i \in DOMAIN todo[c], i # 1 PROVE todo[c][i].prop \in Left(c)'
    BY <1>2 DEF Left
  <2>1. i - 1 \in DOMAIN Tail(todo[c]) /\ (i - 1) + 1 = i
    BY <1>2
  <2>2. Tail(todo[c])[i - 1] = todo[c][i]
    BY <2>1, <1>2
  <2> QED
    BY <2>1, <2>2 DEF Left
<1>7. m.prop \in Props
  BY DEF MoveTypes
<1>8. \A p \in Here : at'[p] \in Outside(p) \/ (p \in Drawn(c) /\ at'[p] = Goal(c, p))
  <2> SUFFICES ASSUME NEW p \in Here
               PROVE  at'[p] \in Outside(p) \/ (p \in Drawn(c) /\ at'[p] = Goal(c, p))
    OBVIOUS
  <2>1. CASE p = m.prop
    <3>1. at'[p] = Goal(c, p)
      BY <2>1, <1>1, <1>3, <1>4, <1>7 DEF StageTypes
    <3> QED
      BY <3>1 DEF Goal, Outside
  <2>2. CASE p # m.prop
    <3>1. at'[p] = at[p]
      BY <2>2, <1>1, <1>4 DEF StageTypes, Here
    <3> QED
      BY <3>1, <1>1 DEF CellInv
  <2> QED
    BY <2>1, <2>2
<1>9. \A p \in Placed(c) \ Left(c)' : at'[p] = Goal(c, p) /\ lift'[p] >= edge[p]
  <2> SUFFICES ASSUME NEW p \in Placed(c) \ Left(c)' PROVE at'[p] = Goal(c, p) /\ lift'[p] >= edge[p]
    OBVIOUS
  <2>0. p \in Props
    BY <1>3 DEF Placed, Props
  <2>1. CASE p = m.prop
    BY <2>0, <2>1, <1>1, <1>3, <1>4 DEF StageTypes
  <2>2. CASE p # m.prop
    <3>1. at'[p] = at[p] /\ lift'[p] = lift[p] /\ p \notin Left(c)
      BY <2>0, <2>2, <1>1, <1>4, <1>6 DEF StageTypes
    <3> QED
      BY <3>1, <1>1 DEF CellInv
  <2> QED
    BY <2>1, <2>2
<1>10. \A p \in Drawn(c) : edge[p] = plan[c].edges[p]
  BY <1>1 DEF CellInv
<1> QED
  BY <1>4, <1>5, <1>8, <1>9, <1>10 DEF CellInv

\* A task that is carried out, whether its call goes on or has failed.
LEMMA TaskStep ==
    ASSUME WorldInv, queue # <<>>, NEW q, q = Head(queue), Effect(q), Disturbs(q.call),
           queue' = Tail(queue), UNCHANGED <<verb, plan, gone>>,
           NEW x \in {"put", "failed"}, pc' = [pc EXCEPT ![q.call] = x],
           lock' = lock \/ (x = "failed" /\ Leaves(q.call)),
           todo' = [todo EXCEPT ![q.call] = IF x = "put" /\ q.task.kind = "put" THEN Tail(@) ELSE @]
    PROVE  WorldInv'
<1>1. /\ q \in TaskTypes /\ q.call \in Calls /\ pc[q.call] = "wait" /\ Fits(q.call, q.task)
      /\ 1 \in DOMAIN queue /\ q = queue[1] /\ queue' = Leaving(1)
      /\ SizesQueued(q.call) <=> q.task.kind = "rescale"
  BY TaskFacts
<1>2. PICK c \in Calls : c = q.call
  BY <1>1
<1>3. CallTypes /\ StageTypes /\ QueueInv /\ CallInv(c) /\ PlanInv(c) /\ ShapeInv(c) /\ LockInv(c)
  BY DEF WorldInv, CallInv
<1>4. StageTypes'
  BY <1>1, EffectTypes
<1>5. NoneElse(c)
  BY <1>1, <1>2, OwnTask
<1>6. Others(c)
  <2>1. \A d : d # c => (SizesQueued(d)' <=> SizesQueued(d))
    BY <1>1, <1>2, <1>3, SizesStay
  <2> QED
    BY <2>1, <1>2, <1>3 DEF Others, CallTypes, Leaves, Disturbs
<1>7. /\ queue' \in Seq(TaskTypes) /\ QueueInv' /\ TaskInv'
      /\ \A i \in DOMAIN queue' : queue'[i].call # c
  BY <1>1, <1>2, <1>5, <1>6, QueueShrinks
<1>8. q.task.kind = "put" => todo[c] # <<>>
  BY <1>1, <1>2 DEF Fits
<1>9. todo'[c] = (IF x = "put" /\ q.task.kind = "put" THEN Tail(todo[c]) ELSE todo[c]) /\ pc'[c] = x
  BY <1>2, <1>3 DEF CallTypes
<1>10. todo'[c] \in Seq(MoveTypes)
  BY <1>3, <1>8, <1>9 DEF CallTypes
<1>11. CallTypes'
  BY <1>2, <1>3, <1>7, <1>9, <1>10 DEF CallTypes, Disturbs
<1>12. ~Unsized(c)' /\ (Unsized(c) <=> q.task.kind = "rescale")
  BY <1>1, <1>2, <1>7, <1>9 DEF Unsized, SizesQueued, Fits
<1>13. LockInv(c)'
  BY <1>1, <1>2, <1>3, <1>9 DEF LockInv, InOrder
<1>14. ShapeInv(c)'
  BY <1>1, <1>2, <1>3, <1>8, <1>9 DEF ShapeInv, Placing, Disturbs, Fits
<1>15. /\ Drawn(c)' = Drawn(c) /\ Placed(c)' = Placed(c) /\ Placing(c)' = Placing(c)
       /\ plan'[c] = plan[c] /\ \A p : Goal(c, p)' = Goal(c, p)
  BY DEF Drawn, Placed, Placing, Goal
<1>16. PlanInv(c)'
  <2> SUFFICES ASSUME Underway(c)' PROVE PlanInv(c)'
    BY DEF PlanInv
  <2>1. Underway(c)
    BY <1>1, <1>2, <1>15 DEF Underway
  <2>2. \A i \in DOMAIN todo'[c] : \E j \in DOMAIN todo[c] : todo'[c][i] = todo[c][j]
    <3>1. CASE x = "put" /\ q.task.kind = "put"
      <4>1. todo[c] \in Seq(MoveTypes) /\ todo[c] # <<>>
        BY <3>1, <1>3, <1>8 DEF CallTypes
      <4>2. \A i \in DOMAIN Tail(todo[c]) :
                i + 1 \in DOMAIN todo[c] /\ Tail(todo[c])[i] = todo[c][i + 1]
        BY <4>1
      <4> QED
        BY <4>2, <3>1, <1>9
    <3>2. CASE ~(x = "put" /\ q.task.kind = "put")
      BY <3>2, <1>9
    <3> QED
      BY <3>1, <3>2
  <2>3. \A j \in DOMAIN todo[c] :
            /\ todo[c][j].prop \in Placed(c) /\ todo[c][j].place = Goal(c, todo[c][j].prop)
            /\ todo[c][j].height = IF todo[c][j].prop \in Drawn(c)
                                     THEN plan[c].edges[todo[c][j].prop] ELSE 0
    BY <2>1, <1>3 DEF PlanInv
  <2>4. ASSUME NEW i \in DOMAIN todo'[c], NEW m, m = todo'[c][i]
        PROVE  /\ m.prop \in Placed(c)' /\ m.place = Goal(c, m.prop)'
               /\ m.height = IF m.prop \in Drawn(c)' THEN plan'[c].edges[m.prop] ELSE 0
    BY <2>2, <2>3, <2>4, <1>15
  <2> QED
    BY <2>1, <2>4, <1>3, <1>12, <1>15 DEF PlanInv
<1>17. CellInv(c)'
  <2> SUFFICES ASSUME c \in alone', Underway(c)' PROVE CellInv(c)'
    BY DEF CellInv
  <2>1. c \in alone /\ Underway(c) /\ x = "put"
    BY <1>1, <1>2, <1>9, <1>15 DEF Disturbs, Underway
  <2>2. CASE q.task.kind = "rescale"
    <3>1. Rescale(c) /\ Unsized(c)
      BY <2>2, <1>2, <1>12 DEF Effect
    <3>2. todo' = todo
      BY <2>2, <1>2, <1>3 DEF CallTypes
    <3> QED
      BY <2>1, <3>1, <3>2, AfterRescale
  <2>3. CASE q.task.kind = "put"
    <3>1. PICK m \in MoveTypes : m = q.task.move
      BY <1>1 DEF TaskTypes
    <3>2. Teleport(m) /\ ~Unsized(c)
      BY <2>3, <3>1, <1>12 DEF Effect
    <3>3. /\ m.prop = Head(todo[c]).prop /\ m.place = Head(todo[c]).place
          /\ m.height >= edge[m.prop]
      BY <2>1, <2>3, <3>1, <1>1, <1>2 DEF Fits
    <3> QED
      BY <2>1, <2>3, <3>2, <3>3, <1>8, <1>9, AfterTeleport
  <2>4. CASE q.task.kind \in {"reset", "spawn"}
    BY <2>1, <2>4, <1>1, <1>2 DEF Fits, Underway, Placing, Scatters
  <2> QED
    BY <2>2, <2>3, <2>4, <1>1 DEF TaskTypes
<1>18. CallInv(c)'
  BY <1>13, <1>14, <1>16, <1>17 DEF CallInv
<1> QED
  BY <1>4, <1>5, <1>6, <1>7, <1>11, <1>18, StepOfCall

\* The sim thread runs a task of a call, whose caller hears of it or not.
LEMMA ExecutesStep == ASSUME WorldInv, ExecutesTask \/ ExecutesTaskUnheard PROVE WorldInv'
<1>1. PICK q : q = Head(queue)
  OBVIOUS
<1>2. /\ queue # <<>> /\ Effect(q) /\ Disturbs(q.call) /\ queue' = Tail(queue)
      /\ UNCHANGED <<verb, plan, gone>>
  BY <1>1 DEF ExecutesTask, ExecutesTaskUnheard
<1>3. todo = [todo EXCEPT ![q.call] = @]
  BY DEF WorldInv, CallTypes
<1>4. CASE ExecutesTask /\ ~Clashes(q)
  <2>1. /\ todo' = [todo EXCEPT ![q.call] = IF q.task.kind = "put" THEN Tail(@) ELSE @]
        /\ pc' = [pc EXCEPT ![q.call] = "put"] /\ lock' = lock
    BY <1>1, <1>4 DEF ExecutesTask, GoesOn
  <2>2. PICK x \in {"put", "failed"} : x = "put"
    OBVIOUS
  <2> QED
    BY <2>1, <2>2, <1>1, <1>2, TaskStep
<1>5. CASE ~(ExecutesTask /\ ~Clashes(q))
  <2>1. Ends(q.call, "failed") /\ todo' = todo
    BY <1>1, <1>5 DEF ExecutesTask, ExecutesTaskUnheard
  <2>2. PICK x \in {"put", "failed"} : x = "failed"
    OBVIOUS
  <2>3. todo' = [todo EXCEPT ![q.call] = IF x = "put" /\ q.task.kind = "put" THEN Tail(@) ELSE @]
    BY <2>1, <2>2, <1>3
  <2> QED
    BY <2>1, <2>2, <2>3, <1>1, <1>2, TaskStep DEF Ends
<1> QED
  BY <1>4, <1>5

\* No two props are in one place, if one of them was put there.
LEMMA Apart ==
    ASSUME WorldInv, NEW c \in Calls, c \in alone, Underway(c), ~Unsized(c),
           NEW p \in Placed(c) \ Left(c)
    PROVE  ~InAnother(p) /\ ~(lift[p] < edge[p])
<1>1. StageTypes /\ PlanInv(c) /\ CellInv(c)
  BY DEF WorldInv, CallInv
<1>2. /\ \A q \in Here : at[q] \in Outside(q) \/ (q \in Drawn(c) /\ at[q] = Goal(c, q))
      /\ at[p] = Goal(c, p) /\ lift[p] >= edge[p]
  BY <1>1 DEF CellInv
<1>3. Drawn(c) \subseteq Pool /\ (Drawn(c) # {} => plan[c].spots \in Injection(Drawn(c), Spots))
  BY <1>1 DEF PlanInv
<1>4. lift[p] \in Nat /\ edge[p] \in Nat
  BY <1>1, <1>3 DEF StageTypes, Placed, Props
<1>5. ASSUME NEW q \in Here \ {p}, at[q] = at[p] PROVE FALSE
  <2>1. CASE p \in Drawn(c)
    <3>1. at[q] = Spot(plan[c].spots[p])
      BY <2>1, <1>2, <1>5 DEF Goal
    <3>2. at[q] \notin Outside(q)
      BY <3>1 DEF Outside, Spot, Spawn, Park, Off
    <3>3. q \in Drawn(c) /\ at[q] = Spot(plan[c].spots[q])
      BY <3>2, <1>2 DEF Goal
    <3>4. plan[c].spots[p] = plan[c].spots[q]
      BY <3>1, <3>3 DEF Spot
    <3> QED
      BY <2>1, <3>3, <3>4, <1>3 DEF Injection, IsInjective
  <2>2. CASE p \notin Drawn(c)
    <3>1. at[q] = Park(p)
      BY <2>2, <1>2, <1>5 DEF Goal
    <3>2. at[q] \notin Outside(q)
      BY <3>1 DEF Outside, Spawn, Park, Off
    <3>3. at[q] = Spot(plan[c].spots[q])
      BY <3>2, <1>2 DEF Goal
    <3> QED
      BY <3>1, <3>3 DEF Spot, Park
  <2> QED
    BY <2>1, <2>2
<1>6. ~InAnother(p)
  BY <1>5 DEF InAnother
<1> QED
  BY <1>2, <1>4, <1>6

\* The physics moves a prop that is in another or above its place.
LEMMA PhysicsStep == ASSUME WorldInv, NEW o \in Props, Pushed(o) \/ Falls(o) PROVE WorldInv'
<1>1. /\ o \in Here /\ UNCHANGED <<edge, spec, calls, queue, alone>>
      /\ lift' = [lift EXCEPT ![o] = edge[o]]
      /\ at' = at \/ (at' = [at EXCEPT ![o] = Off(o)] /\ (InAnother(o) \/ lift[o] < edge[o]))
  BY DEF Pushed, Falls
<1>2. UNCHANGED <<verb, pc, plan, todo, lock, gone, queue, alone, edge, spec>>
  BY <1>1 DEF calls
<1>3. StageTypes /\ CallTypes /\ QueueInv /\ TaskInv
  BY DEF WorldInv
<1>4. Off(o) \in Places
  BY DEF Places, Outside
<1>5. StageTypes'
  BY <1>1, <1>2, <1>3, <1>4 DEF StageTypes, Here
<1>6. CallTypes'
  BY <1>2, <1>3 DEF CallTypes
<1>7. QueueInv' /\ TaskInv'
  BY <1>2, <1>3 DEF QueueInv, TaskInv, Fits, Placing
<1>8. ASSUME NEW c \in Calls PROVE CallInv(c)'
  <2>1. CallInv(c)
    BY DEF WorldInv
  <2>2. /\ Drawn(c)' = Drawn(c) /\ Placed(c)' = Placed(c) /\ Left(c)' = Left(c)
        /\ Underway(c)' = Underway(c) /\ Placing(c)' = Placing(c)
        /\ Unsized(c)' = Unsized(c) /\ InOrder(c)' = InOrder(c) /\ Here' = Here
        /\ \A p : Goal(c, p)' = Goal(c, p)
    BY <1>2 DEF Drawn, Placed, Left, Underway, Placing, Unsized, SizesQueued, InOrder, Goal, Here
  <2>3. LockInv(c)' /\ ShapeInv(c)' /\ PlanInv(c)'
    BY <2>1, <2>2, <1>2 DEF CallInv, LockInv, ShapeInv, PlanInv
  <2>4. CellInv(c)'
    <3> SUFFICES ASSUME c \in alone, Underway(c), ~Unsized(c) PROVE CellInv(c)'
      BY <2>2, <1>2 DEF CellInv
    <3>1. CellInv(c)
      BY <2>1 DEF CallInv
    <3>2. ASSUME NEW p \in Here
          PROVE  at'[p] \in Outside(p) \/ (p \in Drawn(c) /\ at'[p] = Goal(c, p))
      <4>1. CASE p = o /\ at' # at
        BY <4>1, <1>1, <1>3 DEF StageTypes, Here, Outside
      <4>2. CASE ~(p = o /\ at' # at)
        <5>1. at'[p] = at[p]
          BY <4>2, <1>1, <1>3 DEF StageTypes, Here
        <5> QED
          BY <5>1, <3>1 DEF CellInv
      <4> QED
        BY <4>1, <4>2
    <3>3. ASSUME NEW p \in Placed(c) \ Left(c)
          PROVE  at'[p] = Goal(c, p) /\ lift'[p] >= edge[p]
      <4>0. p \in Props /\ edge[p] \in Nat
        BY <2>1, <1>3 DEF CallInv, PlanInv, Placed, Props, StageTypes
      <4>1. ~InAnother(p) /\ ~(lift[p] < edge[p])
        BY Apart
      <4>2. at'[p] = at[p]
        BY <4>0, <4>1, <1>1, <1>3 DEF StageTypes
      <4>3. lift'[p] = lift[p] \/ lift'[p] = edge[p]
        BY <4>0, <1>1, <1>3 DEF StageTypes
      <4> QED
        BY <4>0, <4>2, <4>3, <3>1 DEF CellInv
    <3>4. \A p \in Drawn(c) : edge[p] = plan[c].edges[p]
      BY <3>1 DEF CellInv
    <3> QED
      BY <3>2, <3>3, <3>4, <2>2, <1>2 DEF CellInv
  <2> QED
    BY <2>3, <2>4 DEF CallInv
<1> QED
  BY <1>5, <1>6, <1>7, <1>8 DEF WorldInv

-----------------------------------------------------------------------------
\* WorldInv holds at first.
LEMMA InitWorldInv == Init => WorldInv
<1> SUFFICES ASSUME Init PROVE WorldInv
  OBVIOUS
<1>1. SpawnSize \in Nat \ {0} /\ Pool \subseteq Props /\ Extra \in Props
  BY WorldCellAssumption DEF Props
<1>2. \A p \in Props : Spawn(p) \in Places
  BY DEF Places, Outside
<1>3. StageTypes
  BY <1>1, <1>2 DEF Init, StageTypes, Here
<1>4. NoPlan \in PlanTypes
  <2>1. \A S : <<>> \in [{} -> S]
    OBVIOUS
  <2> QED
    BY <2>1 DEF NoPlan, PlanTypes
<1>5. CallTypes
  BY <1>4 DEF Init, CallTypes
<1>6. QueueInv /\ TaskInv
  BY DEF Init, QueueInv, TaskInv
<1>7. ASSUME NEW c \in Calls PROVE CallInv(c)
  BY DEF Init, CallInv, LockInv, ShapeInv, PlanInv, CellInv, Underway, Placing, Scatters
<1> QED
  BY <1>3, <1>5, <1>6, <1>7 DEF WorldInv

\* Every step keeps WorldInv.
LEMMA StepWorldInv == WorldInv /\ [Next]_vars => WorldInv'
<1> SUFFICES ASSUME WorldInv, [Next]_vars PROVE WorldInv'
  OBVIOUS
<1>1. ASSUME NEW c \in Calls, Worker(c) \/ Called(c) \/ Dropped(c) \/ Refused(c) \/ TimesOut(c)
      PROVE  WorldInv'
  BY <1>1, CalledStep, TakesLockStep, DrawsStep, ClearsStep, RescalesStep, PutsNextStep,
     OneTaskStep, RepliesStep, TimesOutStep, DroppedStep DEF Worker
<1>2. CASE ExecutesTask \/ ExecutesTaskUnheard
  BY <1>2, ExecutesStep
<1>3. ASSUME NEW p \in Props, Pushed(p) \/ Falls(p) PROVE WorldInv'
  BY <1>3, PhysicsStep
<1>4. CASE UNCHANGED vars
  <2>1. UNCHANGED <<at, lift, edge, spec, verb, pc, plan, todo, lock, gone, queue, alone>>
    BY <1>4 DEF vars, stage, calls
  <2>2. StageTypes' /\ CallTypes' /\ QueueInv' /\ TaskInv'
    BY <2>1 DEF WorldInv, StageTypes, CallTypes, QueueInv, TaskInv, Fits, Placing, Here
  <2>3. ASSUME NEW c \in Calls PROVE CallInv(c)'
    <3>1. CallInv(c)
      BY DEF WorldInv
    <3> QED
      BY <3>1, <2>1 DEF CallInv, LockInv, ShapeInv, PlanInv, CellInv, InOrder, Placing, Underway,
                        Unsized, SizesQueued, Drawn, Placed, Left, Goal, Here
  <2> QED
    BY <2>2, <2>3 DEF WorldInv
<1> QED
  BY <1>1, <1>2, <1>3, <1>4 DEF Next, Done

\* WorldInv is an invariant of WorldCell.
LEMMA WorldInduction == Spec => []WorldInv
  BY InitWorldInv, StepWorldInv, PTL DEF Spec

\* When scatter_cell, randomize_props or clear_cell answers, the cell is as the answer
\* says, if no task of a verb outside the lock or of a dropped call came in between;
\* of a call that was disturbed it says nothing.
THEOREM AnswersStayTheCell == Spec => AnswersAreTheCell
<1>1. ASSUME WorldInv, NEW c \in Calls, Replies(c), c \in alone PROVE Stands(c)
  <2>1. StageTypes /\ QueueInv /\ ShapeInv(c) /\ PlanInv(c) /\ CellInv(c)
    BY <1>1 DEF WorldInv, CallInv
  <2>2. pc[c] = "put" /\ todo[c] = <<>>
    BY <1>1 DEF Replies
  <2>3. Underway(c) /\ ~Unsized(c)
    BY <1>1, <2>1, <2>2, NoSizesQueued DEF ShapeInv, Underway, Unsized
  <2>4. Left(c) = {}
    BY <2>2 DEF Left
  <2>5. /\ \A p \in Placed(c) : at[p] = Goal(c, p) /\ lift[p] >= edge[p]
        /\ \A p \in Drawn(c) : edge[p] = plan[c].edges[p]
    BY <1>1, <2>1, <2>3, <2>4 DEF CellInv
  <2> QED
    BY <2>5 DEF Stands, Placed, Goal
<1>2. WorldInv /\ [Next]_vars => [\A c \in Calls : Replies(c) /\ c \in alone => Stands(c)]_vars
  BY <1>1
<1> QED
  BY <1>2, WorldInduction, PTL DEF Spec, AnswersAreTheCell
=============================================================================
