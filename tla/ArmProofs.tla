------------------------------ MODULE ArmProofs ------------------------------
(***************************************************************************)
(* Safety of Arm, for any moves, paths, tolerances, windows and bounds and *)
(* any number of drops, stops and resets: a move that has ended leaves     *)
(* nothing behind, and what it reports, the joints have earned.            *)
(*                                                                         *)
(* ArmInv is the induction: the tasks of a thread fit the place where the  *)
(* thread waits (TasksFit), and of each move, that its coroutine and its   *)
(* thread are in step (StageInv), where on its path it is (PlaceInv), what *)
(* an answer, an arrival and a count stand for (AnswerInv, ArriveInv,      *)
(* CountInv) and what a tracker has counted (JudgedInv).  Most steps are   *)
(* about one move; for the others Kept says what they keep, and KeptMove   *)
(* that this is enough.                                                    *)
(*                                                                         *)
(* Densified paths are made by a recursive function.  That they are        *)
(* sequences, and that a run of inserted points has an end, are inductions *)
(* over the natural numbers (SetInduction).                                *)
(***************************************************************************)
EXTENDS Arm, SequenceTheorems, WellFoundedInduction, TLAPS

\* Induction over the natural numbers, said of a set: the library's theorem is
\* about an operator.
LEMMA SetInduction ==
    ASSUME NEW S, S \subseteq Nat, 0 \in S, \A n \in S : n + 1 \in S
    PROVE  S = Nat
<1> SUFFICES ASSUME Nat \ S # {} PROVE FALSE
  OBVIOUS
<1>1. PICK n \in Nat \ S : \A k \in Nat \ S : <<k, n>> \notin OpToRel(<, Nat)
  <2>1. IsWellFoundedOn(OpToRel(<, Nat), Nat)
    BY NatLessThanWellFounded
  <2> QED
    BY <2>1, WFMin
<1> DEFINE k == n - 1
<1>2. n \in Nat /\ n \notin S
  OBVIOUS
<1>3. n # 0
  BY <1>2
<1>4. k \in Nat /\ k < n /\ k + 1 = n
  BY <1>2, <1>3, Z3
<1> HIDE DEF k
<1>5. <<k, n>> \in OpToRel(<, Nat)
  BY <1>2, <1>4 DEF OpToRel
<1>6. k \in S
  BY <1>1, <1>4, <1>5
<1> QED
  BY <1>2, <1>4, <1>6

\* What FlattenSeq makes of sequences over a set is a sequence over it.
LEMMA FlattenedSequence ==
    ASSUME NEW T, NEW ss, NEW N \in Nat, DOMAIN ss = 1..N, Len(ss) = N,
           ss \in Seq(Seq(T))
    PROVE  FlattenSeq(ss) \in Seq(T)
<1> DEFINE Grows(f, n) ==
      f = [i \in 1..n |-> IF i = 1 THEN ss[i] ELSE f[i - 1] \o ss[i]]
<1> DEFINE S == {n \in Nat : n <= N => \E f : Grows(f, n)}
<1>1. 0 \in S
  <2>1. Grows(<<>>, 0)
    OBVIOUS
  <2> QED
    BY <2>1
<1>2. ASSUME NEW n \in S PROVE n + 1 \in S
  <2>0. n \in Nat /\ n + 1 \in Nat
    OBVIOUS
  <2> SUFFICES ASSUME n + 1 <= N PROVE \E f : Grows(f, n + 1)
    <3> HIDE DEF Grows
    <3> QED
      BY <2>0
  <2>1. n \in Nat /\ n <= N
    BY <2>0
  <2>2. PICK f : Grows(f, n)
    BY <2>1
  <2> DEFINE v == IF n + 1 = 1 THEN ss[n + 1] ELSE f[n] \o ss[n + 1]
  <2> DEFINE g == [i \in 1..(n + 1) |-> IF i = n + 1 THEN v ELSE f[i]]
  <2>3. ASSUME NEW i \in 1..(n + 1) PROVE g[i] = IF i = 1 THEN ss[i] ELSE g[i - 1] \o ss[i]
    <3>1. CASE i = n + 1
      <4>1. g[i] = v
        BY <3>1
      <4>2. CASE n = 0
        BY <4>1, <4>2, <3>1
      <4>3. CASE n # 0
        <5>1. n \in 1..(n + 1) /\ n # n + 1 /\ i - 1 = n /\ i # 1
          BY <2>1, <4>3, <3>1
        <5>2. g[n] = f[n]
          BY <5>1
        <5> QED
          BY <4>1, <5>1, <5>2, <3>1
      <4> QED
        BY <4>2, <4>3
    <3>2. CASE i # n + 1
      <4>1. i \in 1..n
        BY <3>2, <2>1
      <4>2. g[i] = f[i]
        BY <3>2
      <4>3. f[i] = IF i = 1 THEN ss[i] ELSE f[i - 1] \o ss[i]
        BY <4>1, <2>2
      <4>4. i # 1 => g[i - 1] = f[i - 1]
        BY <4>1, <2>1
      <4> QED
        BY <4>2, <4>3, <4>4
    <3> QED
      BY <3>1, <3>2
  <2> HIDE DEF v
  <2>4. g = [i \in 1..(n + 1) |-> IF i = 1 THEN ss[i] ELSE g[i - 1] \o ss[i]]
    BY <2>3
  <2> HIDE DEF g
  <2> QED
    BY <2>4
<1>3. S = Nat
  <2> HIDE DEF S
  <2>1. S \subseteq Nat
    BY DEF S
  <2> QED
    BY <1>1, <1>2, <2>1, SetInduction
<1>4. \E f : Grows(f, N)
  <2> HIDE DEF Grows
  <2>1. N \in S
    BY <1>3
  <2> QED
    BY <2>1
<1> DEFINE flatten == CHOOSE f : Grows(f, N)
<1>5. Grows(flatten, N)
  BY <1>4
<1> DEFINE P == {n \in Nat : n \in 1..N => flatten[n] \in Seq(T)}
<1>6. 0 \in P
  OBVIOUS
<1>7. ASSUME NEW n \in P PROVE n + 1 \in P
  <2> SUFFICES ASSUME n + 1 \in 1..N PROVE flatten[n + 1] \in Seq(T)
    OBVIOUS
  <2>1. flatten[n + 1] = IF n + 1 = 1 THEN ss[n + 1] ELSE flatten[(n + 1) - 1] \o ss[n + 1]
    <3> HIDE DEF flatten
    <3> QED
      BY <1>5
  <2>2. ss[n + 1] \in Seq(T)
    OBVIOUS
  <2> HIDE DEF flatten
  <2>3. CASE n = 0
    BY <2>1, <2>2, <2>3
  <2>4. CASE n # 0
    <3>1. n \in 1..N /\ (n + 1) - 1 = n /\ n + 1 # 1
      BY <2>4
    <3>2. flatten[n] \in Seq(T)
      BY <3>1
    <3>3. flatten[n + 1] = flatten[n] \o ss[n + 1]
      BY <2>1, <3>1
    <3> QED
      BY <3>2, <3>3, <2>2
  <2> QED
    BY <2>3, <2>4
<1>8. P = Nat
  <2> HIDE DEF P
  <2>1. P \subseteq Nat
    BY DEF P
  <2> QED
    BY <1>6, <1>7, <2>1, SetInduction
<1>9. CASE N = 0
  BY <1>9 DEF FlattenSeq
<1>10. CASE N # 0
  <2>1. FlattenSeq(ss) = flatten[N]
    BY <1>10 DEF FlattenSeq
  <2> HIDE DEF flatten
  <2> QED
    BY <2>1, <1>8, <1>10
<1> QED
  BY <1>9, <1>10
-----------------------------------------------------------------------------
(***************************************************************************)
(* Paths.                                                                  *)
(***************************************************************************)
Points == [pos : Int, inserted : BOOLEAN]

\* A stretch has a number of pieces.
LEMMA PiecesType ==
    ASSUME NEW a \in Int, NEW b \in Int
    PROVE  Pieces(a, b) \in Nat
<1>0. Distance(a, b) \in Nat
  BY DEF Distance
<1>1. PICK d \in Nat : d = Distance(a, b)
  BY <1>0
<1>2. MaxStep \in Nat /\ MaxStep > 0
  BY ArmAssumption
<1>3. PICK s \in Nat : s = d + MaxStep - 1
  BY <1>2
<1>4. s \div MaxStep \in Nat
  BY <1>2
<1> QED
  BY <1>1, <1>3, <1>4 DEF Pieces

\* A stretch is made of points.
LEMMA StretchType ==
    ASSUME NEW a \in Int, NEW b \in Int
    PROVE  Stretch(a, b) \in Seq(Points)
<1>1. PICK n \in Nat : n = Pieces(a, b)
  BY PiecesType
<1>2. PICK l \in Nat : l = IF n = 0 THEN 1 ELSE n
  OBVIOUS
<1>3. ASSUME NEW k \in 1..l
      PROVE  (IF k < n THEN Waypoint(a + ((b - a) * k) \div n, TRUE) ELSE Waypoint(b, FALSE))
                \in Points
  <2>1. CASE k < n
    <3>1. k \in Int /\ n \in Int /\ n > 0
      BY <2>1
    <3>2. PICK c \in Int : c = (b - a) * k
      BY <3>1
    <3>3. c \div n \in Int
      BY <3>1
    <3>4. PICK q \in Int : q = c \div n
      BY <3>3
    <3>5. a + q \in Int
      OBVIOUS
    <3> QED
      BY <2>1, <3>2, <3>4, <3>5 DEF Waypoint, Points
  <2>2. CASE ~(k < n)
    BY <2>2 DEF Waypoint, Points
  <2> QED
    BY <2>1, <2>2
<1>4. Stretch(a, b) = [k \in 1..l |->
          IF k < n THEN Waypoint(a + ((b - a) * k) \div n, TRUE) ELSE Waypoint(b, FALSE)]
  BY <1>1, <1>2 DEF Stretch
<1>5. Stretch(a, b) \in [1..l -> Points]
  BY <1>3, <1>4, Zenon
<1>6. PICK s \in [1..l -> Points] : s = Stretch(a, b)
  BY <1>5
<1>7. s \in Seq(Points)
  BY <1>6
<1> QED
  BY <1>6, <1>7

\* A planned path has a first point, whatever it is made of.
LEMMA DensifyType ==
    ASSUME NEW p \in Seq(Nat), p # <<>>
    PROVE  Densify(p) \in Seq(Points) /\ Len(Densify(p)) >= 1
<1> DEFINE ss == [i \in 1..(Len(p) - 1) |-> Stretch(p[i], p[i + 1])]
<1>1. PICK n \in Nat : n = Len(p) - 1
  OBVIOUS
<1>2. ASSUME NEW i \in 1..n PROVE Stretch(p[i], p[i + 1]) \in Seq(Points)
  <2>1. i \in 1..Len(p) /\ i + 1 \in 1..Len(p)
    BY <1>1
  <2>2. p[i] \in Int /\ p[i + 1] \in Int
    BY <2>1
  <2> QED
    BY <2>2, StretchType
<1>3. ss = [i \in 1..n |-> Stretch(p[i], p[i + 1])]
  BY <1>1
<1>4. ss \in Seq(Seq(Points)) /\ DOMAIN ss = 1..n /\ Len(ss) = n
  <2> HIDE DEF ss
  <2>1. ss \in [1..n -> Seq(Points)]
    BY <1>2, <1>3
  <2> QED
    BY <2>1
<1>5. FlattenSeq(ss) \in Seq(Points)
  BY <1>4, FlattenedSequence
<1>6. <<Waypoint(p[1], FALSE)>> \in Seq(Points) /\ Len(<<Waypoint(p[1], FALSE)>>) = 1
  BY DEF Waypoint, Points
<1>7. Densify(p) = <<Waypoint(p[1], FALSE)>> \o FlattenSeq(ss)
  BY DEF Densify
<1> HIDE DEF ss
<1>8. PICK f \in Seq(Points) : f = FlattenSeq(ss)
  BY <1>5
<1>9. PICK w \in Seq(Points) : w = <<Waypoint(p[1], FALSE)>> /\ Len(w) = 1
  BY <1>6
<1>10. w \o f \in Seq(Points) /\ Len(w \o f) = Len(w) + Len(f)
  OBVIOUS
<1>11. PICK n1 \in Nat : n1 = Len(f)
  OBVIOUS
<1>12. Len(w \o f) >= 1
  BY <1>9, <1>10, <1>11
<1> QED
  BY <1>7, <1>8, <1>9, <1>10, <1>12

\* The run of an inserted point has an end.
LEMMA RunEndType ==
    ASSUME NEW p \in Seq(Points), NEW i \in 1..Len(p), p[i].inserted
    PROVE  /\ RunEnd(p, i) \in i..Len(p)
           /\ \A k \in i..RunEnd(p, i) : p[k].inserted
<1>0. PICK l \in Nat : l = Len(p)
  OBVIOUS
<1> DEFINE Runs(j) == \A k \in i..j : p[k].inserted
<1> DEFINE Ends(j) == Runs(j) /\ (j = l \/ ~p[j + 1].inserted)
<1> SUFFICES ASSUME \A j \in i..l : ~Ends(j) PROVE FALSE
  <2>1. RunEnd(p, i) = CHOOSE j \in i..l : Ends(j)
    BY <1>0 DEF RunEnd
  <2> HIDE DEF Ends
  <2>2. ASSUME \E j \in i..l : Ends(j) PROVE RunEnd(p, i) \in i..l /\ Ends(RunEnd(p, i))
    BY <2>1, <2>2
  <2> QED
    BY <1>0, <2>2 DEF Ends
<1> DEFINE S == {n \in Nat : i + n \in i..l => Runs(i + n)}
<1>1. 0 \in S
  BY <1>0
<1>2. ASSUME NEW n \in S PROVE n + 1 \in S
  <2>0. n \in Nat /\ n + 1 \in Nat
    OBVIOUS
  <2>1. PICK j \in Nat : j = i + n /\ j + 1 = i + (n + 1) /\ j >= i
    BY <2>0, <1>0
  <2> SUFFICES ASSUME j + 1 \in i..l PROVE Runs(j + 1)
    <3> HIDE DEF Runs
    <3> QED
      BY <2>0, <2>1
  <2>2. j \in i..l /\ j # l
    BY <2>1, <1>0
  <2>3. Runs(j)
    BY <2>1, <2>2
  <2>4. ~Ends(j)
    BY <2>2
  <2>5. p[j + 1].inserted
    BY <2>2, <2>3, <2>4
  <2> QED
    BY <2>1, <2>3, <2>5
<1>3. S = Nat
  <2> HIDE DEF S
  <2>1. S \subseteq Nat
    BY DEF S
  <2> QED
    BY <1>1, <1>2, <2>1, SetInduction
<1> DEFINE n == l - i
<1>4. n \in Nat /\ i + n = l /\ l \in i..l
  BY <1>0
<1> HIDE DEF n
<1>5. Runs(l)
  <2>1. n \in S
    BY <1>3, <1>4
  <2> QED
    BY <2>1, <1>4
<1>6. Ends(l) /\ l \in i..l
  BY <1>4, <1>5
<1> QED
  BY <1>6
-----------------------------------------------------------------------------
(***************************************************************************)
(* The inductive invariant.                                                *)
(***************************************************************************)
Outcomes == {"reached", "stalled", "timed_out"}
Steps    == {"new", "set", "wait", "follow", "fail", "drop", "dropped", "refused", "ok",
             "stalled", "timed_out"}
Stages   == {"none", "set", "enlist", "register", "watch", "remove", "done"}
OwnOps   == {"set", "register", "start", "remove"}
Ops      == OwnOps \cup {"hold", "drop", "stop", "reset", "release"}
Tasks    == [op : Ops, who : Moves \cup Stops \cup {NoMove}]
Trackers == [within : Nat, still : Nat, errors : Seq(Nat)]

SimTypes ==
    /\ pos \in Int /\ target \in Int /\ intrusions \in Nat /\ closed \in BOOLEAN
    /\ callback \in Moves \cup {NoMove} /\ settle \in Moves \cup {NoMove}
    /\ owner \in Moves \cup {NoMove}
    /\ queue \in Seq(Tasks)
    /\ stopPc \in [Stops -> {"new", "queued", "done"}]

PathTypes ==
    /\ path \in [Moves -> Seq(Points)]
    /\ at \in [Moves -> Nat] /\ begun \in [Moves -> Nat] /\ seen \in [Moves -> Nat]
    /\ stalls \in [Moves -> Nat] /\ blocked \in [Moves -> Nat] /\ judged \in [Moves -> Nat]

StepTypes ==
    /\ pc \in [Moves -> Steps] /\ worker \in [Moves -> Stages]
    /\ aim \in [Moves -> Int] /\ track \in [Moves -> Trackers]
    /\ event \in [Moves -> Outcomes \cup {"unset"}]
    /\ answer \in [Moves -> Outcomes \cup {"unset"}]
    /\ alone \in [Moves -> BOOLEAN] /\ arrived \in [Moves -> BOOLEAN]
    /\ stopped \in [Moves -> BOOLEAN]

TypeInv == SimTypes /\ PathTypes /\ StepTypes

\* Where a thread stands while a task of its own is queued.
StageOf(op) == IF op \in {"register", "start"} THEN "register" ELSE op

\* A thread has one task at most, and waits for it; the others are another's.
TasksFit(q, w) ==
    /\ \A i \in DOMAIN q :
         /\ q[i].op \in OwnOps => q[i].who \in Moves /\ w[q[i].who] = StageOf(q[i].op)
         /\ q[i].op \in {"hold", "drop"} => q[i].who \in Moves
         /\ q[i].op = "stop" => q[i].who \in Stops
         /\ q[i].op \in {"reset", "release"} => q[i].who = NoMove
    /\ \A i, j \in DOMAIN q :
         q[i].op \in OwnOps /\ q[j].op \in OwnOps /\ q[i].who = q[j].who => i = j

Waiting(m) == pc[m] \in {"wait", "follow"}

\* A coroutine and the thread it awaits are in step, and what the sim thread
\* and the handle hold of a move is held while its thread needs it.
StageInv(m) ==
    /\ pc[m] = "new" =>
         worker[m] = "none" /\ begun[m] = 0 /\ stalls[m] = 0 /\ blocked[m] = 0
    /\ pc[m] = "set" => worker[m] \in {"set", "done"}
    /\ Waiting(m) => worker[m] \notin {"none", "set"}
    /\ pc[m] \in {"fail", "ok", "stalled", "timed_out"} => worker[m] = "done"
    /\ callback = m => worker[m] \in {"watch", "remove"}
    /\ settle = m => worker[m] \in {"register", "watch"}
    /\ pc[m] \in {"stalled", "timed_out"} => owner # m

\* A thread works on a waypoint of the move, the kind its coroutine took it for.
PlaceInv(m) ==
    /\ worker[m] # "none" => at[m] \in 1..Len(path[m]) /\ begun[m] <= at[m]
    /\ pc[m] \in {"set", "wait"} => ~Follows(m)
    /\ pc[m] = "follow" => Follows(m)

\* An answer of success is the outcome of the wait.
AnswerInv(m) ==
    /\ worker[m] = "remove" \/ (worker[m] = "done" /\ Waiting(m)) =>
         answer[m] # "unset" /\ (answer[m] = "reached" => event[m] = "reached")
    /\ pc[m] = "fail" => answer[m] \in {"stalled", "timed_out"}

\* Left alone, a move waits for its own waypoint and is told of reaching it
\* when it is there; a follow, of the end of its run.
ArriveInv(m) == alone[m] =>
    /\ pc[m] = "set" /\ worker[m] = "done" => target = Here(m).pos
    /\ pc[m] = "wait" => aim[m] = Here(m).pos
    /\ Waiting(m) /\ event[m] = "reached" =>
         /\ Follows(m) => at[m] = RunEnd(path[m], at[m])
         /\ at[m] = Final(m) => arrived[m]
    /\ pc[m] = "ok" => arrived[m]

\* The count a coroutine keeps between its waits and the stalls there were.
CountInv(m) ==
    /\ pc[m] = "set" \/ (Waiting(m) /\ worker[m] # "done") =>
         /\ blocked[m] = (IF pc[m] = "follow" /\ at[m] > begun[m] THEN 0 ELSE stalls[m])
         /\ blocked[m] < MaxStalls
    /\ Waiting(m) /\ worker[m] = "done" => blocked[m] = Stalls(m)
    /\ pc[m] = "fail" =>
         (blocked[m] >= MaxStalls /\ answer[m] = "stalled") \/ at[m] = Final(m)
    /\ pc[m] = "stalled" => blocked[m] >= MaxStalls \/ at[m] = Final(m)
    /\ pc[m] = "timed_out" => at[m] = Final(m)

\* The counters of a waypoint have counted no more than its own steps.
JudgedInv(m) ==
    /\ judged[m] < StillSteps =>
         track[m].still <= judged[m] /\ Len(track[m].errors) <= judged[m]
    /\ event[m] = "stalled" => judged[m] >= StillSteps

MoveInv(m) == StageInv(m) /\ PlaceInv(m) /\ AnswerInv(m) /\ ArriveInv(m) /\ CountInv(m)
              /\ JudgedInv(m)

ArmInv == TypeInv /\ TasksFit(queue, worker) /\ \A m \in Moves : MoveInv(m)
-----------------------------------------------------------------------------
(***************************************************************************)
(* What a step leaves of a move it is not about.                           *)
(***************************************************************************)
Kept(n) ==
    /\ path'[n] = path[n] /\ at'[n] = at[n] /\ begun'[n] = begun[n]
    /\ pc'[n] = pc[n] /\ worker'[n] = worker[n] /\ stalls'[n] = stalls[n]
    /\ aim'[n] = aim[n] /\ track'[n] = track[n]
    /\ event'[n] = event[n] /\ answer'[n] = answer[n]
    /\ blocked'[n] = blocked[n] /\ judged'[n] = judged[n] /\ arrived'[n] = arrived[n]
    /\ callback' = n => callback = n
    /\ settle' = n => settle = n
    /\ owner' = n => owner = n
    /\ alone'[n] => alone[n] /\ (pc[n] = "set" => target' = target)

\* A move that is left as it was keeps its invariants.
LEMMA KeptMove ==
    ASSUME NEW n \in Moves, MoveInv(n), Kept(n)
    PROVE  MoveInv(n)'
<1> USE DEF Kept, MoveInv
<1>1. StageInv(n)'
  BY DEF StageInv, Waiting
<1>2. PlaceInv(n)'
  BY DEF PlaceInv, Follows, Here
<1>3. AnswerInv(n)'
  BY DEF AnswerInv, Waiting
<1>4. ArriveInv(n)'
  BY DEF ArriveInv, Waiting, Follows, Here, Final
<1>5. CountInv(n)'
  BY DEF CountInv, Waiting, Stalls, Follows, Here, Final
<1>6. JudgedInv(n)'
  BY DEF JudgedInv
<1> QED
  BY <1>1, <1>2, <1>3, <1>4, <1>5, <1>6
-----------------------------------------------------------------------------
(***************************************************************************)
(* The queue.                                                              *)
(***************************************************************************)
\* A thread that has no task queued may go anywhere.
LEMMA FreeThread ==
    ASSUME NEW q \in Seq(Tasks), NEW w \in [Moves -> Stages], TasksFit(q, w),
           NEW m \in Moves, w[m] \notin {"set", "register", "remove"}, NEW v \in Stages
    PROVE  /\ TasksFit(q, [w EXCEPT ![m] = v])
           /\ \A i \in DOMAIN q : ~(q[i].op \in OwnOps /\ q[i].who = m)
<1>1. ASSUME NEW i \in DOMAIN q, q[i].op \in OwnOps PROVE q[i].who # m
  BY <1>1 DEF TasksFit, StageOf, OwnOps
<1> QED
  BY <1>1 DEF TasksFit

\* The thread queues a task of its own.
LEMMA OwnTaskQueued ==
    ASSUME NEW q \in Seq(Tasks), NEW w \in [Moves -> Stages], TasksFit(q, w),
           NEW m \in Moves, w[m] \notin {"set", "register", "remove"},
           NEW op \in OwnOps
    PROVE  /\ TasksFit(Append(q, Task(op, m)), [w EXCEPT ![m] = StageOf(op)])
           /\ Append(q, Task(op, m)) \in Seq(Tasks)
<1> DEFINE t == Task(op, m)
<1>1. t \in Tasks /\ t.op = op /\ t.who = m
  BY DEF Task, Tasks, Ops
<1>2. StageOf(op) \in Stages
  BY DEF StageOf, Stages, OwnOps
<1>3. PICK w2 : w2 = [w EXCEPT ![m] = StageOf(op)]
  OBVIOUS
<1>4. TasksFit(q, w2) /\ \A i \in DOMAIN q : ~(q[i].op \in OwnOps /\ q[i].who = m)
  BY <1>2, <1>3, FreeThread
<1>5. w2[m] = StageOf(op)
  BY <1>3
<1> HIDE DEF t
<1>6. PICK l \in Nat : l = Len(q) /\ DOMAIN q = 1..l
  OBVIOUS
<1>7. PICK q2 : q2 = Append(q, t) /\ q2 \in Seq(Tasks)
  BY <1>1, AppendProperties
<1>8. DOMAIN q2 = 1..(l + 1) /\ (\A i \in 1..l : q2[i] = q[i]) /\ q2[l + 1] = t
  BY <1>6, <1>7, <1>1
<1>9. \A i \in DOMAIN q2 : i \in 1..l \/ i = l + 1
  BY <1>6, <1>8
<1>10. TasksFit(q2, w2)
  <2>1. \A i, j \in DOMAIN q2 : q2[i].op \in OwnOps /\ q2[j].op \in OwnOps
                               /\ q2[i].who = q2[j].who => i = j
    BY <1>1, <1>4, <1>6, <1>8, <1>9 DEF TasksFit
  <2>2. \A i \in 1..l : /\ q2[i].op \in OwnOps =>
                             q2[i].who \in Moves /\ w2[q2[i].who] = StageOf(q2[i].op)
                        /\ q2[i].op \in {"hold", "drop"} => q2[i].who \in Moves
                        /\ q2[i].op = "stop" => q2[i].who \in Stops
                        /\ q2[i].op \in {"reset", "release"} => q2[i].who = NoMove
    BY <1>4, <1>6, <1>8 DEF TasksFit
  <2>3. /\ q2[l + 1].op \in OwnOps /\ q2[l + 1].who = m
        /\ w2[m] = StageOf(q2[l + 1].op)
        /\ q2[l + 1].op \notin {"hold", "drop", "stop", "reset", "release"}
    BY <1>1, <1>5, <1>8 DEF OwnOps
  <2> QED
    BY <1>9, <2>1, <2>2, <2>3 DEF TasksFit
<1> QED
  BY <1>3, <1>7, <1>10 DEF t

\* Another queues one.
LEMMA OtherTaskQueued ==
    ASSUME NEW q \in Seq(Tasks), NEW w, TasksFit(q, w), NEW op, NEW who,
           \/ op \in {"hold", "drop"} /\ who \in Moves
           \/ op = "stop" /\ who \in Stops
           \/ op \in {"reset", "release"} /\ who = NoMove
    PROVE  TasksFit(Append(q, Task(op, who)), w) /\ Append(q, Task(op, who)) \in Seq(Tasks)
<1> DEFINE t == Task(op, who)
<1>1. t \in Tasks /\ t.op = op /\ t.who = who /\ op \notin OwnOps
  BY DEF Task, Tasks, Ops, OwnOps
<1> HIDE DEF t
<1>2. PICK l \in Nat : l = Len(q) /\ DOMAIN q = 1..l
  OBVIOUS
<1>3. PICK q2 : q2 = Append(q, t) /\ q2 \in Seq(Tasks)
  BY <1>1, AppendProperties
<1>4. DOMAIN q2 = 1..(l + 1) /\ (\A i \in 1..l : q2[i] = q[i]) /\ q2[l + 1] = t
  BY <1>1, <1>2, <1>3
<1>5. \A i \in DOMAIN q2 : i \in 1..l \/ i = l + 1
  BY <1>2, <1>4
<1>6. TasksFit(q2, w)
  <2>1. \A i, j \in DOMAIN q2 : q2[i].op \in OwnOps /\ q2[j].op \in OwnOps
                               /\ q2[i].who = q2[j].who => i = j
    BY <1>1, <1>2, <1>4, <1>5 DEF TasksFit
  <2>2. \A i \in 1..l : /\ q2[i].op \in OwnOps =>
                             q2[i].who \in Moves /\ w[q2[i].who] = StageOf(q2[i].op)
                        /\ q2[i].op \in {"hold", "drop"} => q2[i].who \in Moves
                        /\ q2[i].op = "stop" => q2[i].who \in Stops
                        /\ q2[i].op \in {"reset", "release"} => q2[i].who = NoMove
    BY <1>2, <1>4 DEF TasksFit
  <2>3. /\ q2[l + 1].op \notin OwnOps
        /\ q2[l + 1].op \in {"hold", "drop"} => q2[l + 1].who \in Moves
        /\ q2[l + 1].op = "stop" => q2[l + 1].who \in Stops
        /\ q2[l + 1].op \in {"reset", "release"} => q2[l + 1].who = NoMove
    BY <1>1, <1>4
  <2> QED
    BY <1>5, <2>1, <2>2, <2>3 DEF TasksFit
<1> QED
  BY <1>3, <1>6 DEF t

\* The first task is executed: its thread, if it has one, has none any more.
LEMMA TaskRun ==
    ASSUME NEW q \in Seq(Tasks), q # <<>>, NEW w \in [Moves -> Stages], TasksFit(q, w)
    PROVE  /\ Tail(q) \in Seq(Tasks) /\ TasksFit(Tail(q), w)
           /\ Head(q) \in Tasks
           /\ Head(q).op \in OwnOps =>
                /\ Head(q).who \in Moves /\ w[Head(q).who] = StageOf(Head(q).op)
                /\ \A v \in Stages : TasksFit(Tail(q), [w EXCEPT ![Head(q).who] = v])
           /\ Head(q).op \in {"hold", "drop"} => Head(q).who \in Moves
           /\ Head(q).op = "stop" => Head(q).who \in Stops
<1>1. PICK l \in Nat : l = Len(q) /\ DOMAIN q = 1..l /\ l >= 1
  OBVIOUS
<1>2. PICK q2 : q2 = Tail(q) /\ q2 \in Seq(Tasks)
  BY HeadTailProperties
<1>3. DOMAIN q2 = 1..(l - 1) /\ \A i \in 1..(l - 1) : q2[i] = q[i + 1]
  BY <1>1, <1>2
<1>4. Head(q) = q[1] /\ 1 \in DOMAIN q /\ q[1] \in Tasks
  BY <1>1
<1>5. \A i \in DOMAIN q2 : i \in Int /\ i + 1 \in DOMAIN q /\ i + 1 # 1 /\ q2[i] = q[i + 1]
  BY <1>1, <1>3
<1>6. \A i, j \in DOMAIN q2 : q2[i].op \in OwnOps /\ q2[j].op \in OwnOps
                             /\ q2[i].who = q2[j].who => i = j
  <2> SUFFICES ASSUME NEW i \in DOMAIN q2, NEW j \in DOMAIN q2, q2[i].op \in OwnOps,
                      q2[j].op \in OwnOps, q2[i].who = q2[j].who
               PROVE  i = j
    OBVIOUS
  <2>1. i + 1 = j + 1
    BY <1>5 DEF TasksFit
  <2> QED
    BY <1>5, <2>1
<1>7. TasksFit(q2, w)
  BY <1>5, <1>6 DEF TasksFit
<1>8. ASSUME Head(q).op \in OwnOps, NEW v \in Stages
      PROVE  TasksFit(q2, [w EXCEPT ![Head(q).who] = v])
  <2>1. PICK m \in Moves : m = Head(q).who
    BY <1>4, <1>8 DEF TasksFit
  <2>2. \A i \in DOMAIN q2 : q2[i].op \in OwnOps => q2[i].who # m
    BY <1>4, <1>5, <1>8, <2>1 DEF TasksFit
  <2> QED
    BY <1>7, <2>1, <2>2 DEF TasksFit
<1>9. Head(q).op \in OwnOps => Head(q).who \in Moves /\ w[Head(q).who] = StageOf(Head(q).op)
  BY <1>4 DEF TasksFit
<1>10. /\ Head(q).op \in {"hold", "drop"} => Head(q).who \in Moves
       /\ Head(q).op = "stop" => Head(q).who \in Stops
  BY <1>4 DEF TasksFit
<1> QED
  BY <1>2, <1>4, <1>7, <1>8, <1>9, <1>10
-----------------------------------------------------------------------------
(***************************************************************************)
(* The coroutine.                                                          *)
(***************************************************************************)
\* How a move goes on to waypoint i of p: it is refused, it has no more, it
\* sets the joints' targets or it begins to follow.
Stands == UNCHANGED <<at, begun, worker, queue, track, event, seen, judged>>
Sets(m, i) ==
    /\ at' = [at EXCEPT ![m] = i]
    /\ pc' = [pc EXCEPT ![m] = "set"] /\ worker' = [worker EXCEPT ![m] = "set"]
    /\ queue' = Append(queue, Task("set", m))
    /\ UNCHANGED <<begun, track, event, seen, judged>>
Advances(m, p, i) ==
    \/ pc' = [pc EXCEPT ![m] = "refused"] /\ Stands
    \/ i > Len(p) /\ pc' = [pc EXCEPT ![m] = "ok"] /\ Stands
    \/ i <= Len(p) /\ ~p[i].inserted /\ Sets(m, i)
    \/ i <= Len(p) /\ p[i].inserted /\ Follow(m, i)

\* Proceed is one of the four.
LEMMA ProceedAdvances ==
    ASSUME NEW m, NEW p, NEW i \in Nat, Len(p) \in Nat, Proceed(m, p, i)
    PROVE  Advances(m, p, i)
BY DEF Proceed, Advances, Stands, Sets, Goto, Work, Queue

\* A move that goes on keeps the invariants, if it goes on from fewer stalls
\* than are fatal and succeeds from where it has arrived.
LEMMA AdvanceStep ==
    ASSUME ArmInv, NEW m \in Moves, worker[m] \in {"none", "done"},
           NEW p \in Seq(Points), path' = [path EXCEPT ![m] = p],
           worker[m] = "done" => p = path[m],
           NEW i \in Nat, i >= 1, begun[m] <= i, Advances(m, p, i),
           i > Len(p) => worker[m] = "done" /\ (alone[m] => arrived[m]),
           stalls' = [stalls EXCEPT ![m] = blocked[m]], blocked[m] < MaxStalls,
           intrusions' \in Nat,
           UNCHANGED <<pos, target, callback, settle, aim, answer, stopPc, closed,
                       owner, alone, stopped, blocked, arrived>>
    PROVE  ArmInv'
<1>1. /\ TypeInv /\ SimTypes /\ PathTypes /\ StepTypes
      /\ TasksFit(queue, worker) /\ MoveInv(m) /\ NoMove \notin Moves
      /\ \A n \in Moves : MoveInv(n)
  BY ArmAssumption DEF ArmInv, TypeInv
<1>2. Len(p) \in Nat
  OBVIOUS
<1>3. /\ queue \in Seq(Tasks) /\ worker \in [Moves -> Stages]
      /\ "set" \in OwnOps /\ StageOf("set") = "set" /\ "enlist" \in Stages
  BY <1>1 DEF SimTypes, StepTypes, OwnOps, StageOf, Stages
<1>4. TasksFit(queue', worker') /\ queue' \in Seq(Tasks)
  <2>1. CASE UNCHANGED <<queue, worker>>
    BY <1>1, <1>3, <2>1
  <2>2. CASE Sets(m, i)
    BY <1>1, <1>3, <2>2, OwnTaskQueued DEF Sets
  <2>3. CASE Follow(m, i)
    <3>1. queue' = queue /\ worker' = [worker EXCEPT ![m] = "enlist"]
      BY <2>3 DEF Follow, Work
    <3> QED
      BY <1>1, <1>3, <3>1, FreeThread
  <2> QED
    BY <2>1, <2>2, <2>3 DEF Advances, Stands
<1>5. TypeInv'
  <2>1. SimTypes'
    BY <1>1, <1>4 DEF SimTypes
  <2>2. Fresh \in Trackers
    BY DEF Fresh, Trackers
  <2>3. /\ at' = at \/ at' = [at EXCEPT ![m] = i]
        /\ begun' = begun \/ begun' = [begun EXCEPT ![m] = i]
        /\ seen' = seen \/ seen' = [seen EXCEPT ![m] = i]
        /\ judged' = judged \/ judged' = [judged EXCEPT ![m] = 0]
        /\ track' = track \/ track' = [track EXCEPT ![m] = Fresh]
        /\ event' = event \/ event' = [event EXCEPT ![m] = "unset"]
    BY DEF Advances, Stands, Sets, Follow
  <2>4. PathTypes'
    <3>1. at' \in [Moves -> Nat]
      BY <1>1, <2>3 DEF PathTypes
    <3>2. begun' \in [Moves -> Nat]
      BY <1>1, <2>3 DEF PathTypes
    <3>3. seen' \in [Moves -> Nat]
      BY <1>1, <2>3 DEF PathTypes
    <3>4. judged' \in [Moves -> Nat]
      <4>1. judged \in [Moves -> Nat]
        BY <1>1 DEF PathTypes
      <4> QED
        BY <2>3, <4>1
    <3>5. stalls' \in [Moves -> Nat] /\ blocked' \in [Moves -> Nat]
      BY <1>1 DEF PathTypes
    <3>6. path' \in [Moves -> Seq(Points)]
      BY <1>1 DEF PathTypes
    <3> QED
      BY <3>1, <3>2, <3>3, <3>4, <3>5, <3>6 DEF PathTypes
  <2>5. pc' \in [Moves -> Steps] /\ worker' \in [Moves -> Stages]
    BY <1>1 DEF StepTypes, Advances, Stands, Sets, Follow, Goto, Work, Steps, Stages
  <2>6. StepTypes'
    <3>1. track' \in [Moves -> Trackers]
      BY <1>1, <2>2, <2>3 DEF StepTypes
    <3>2. event' \in [Moves -> Outcomes \cup {"unset"}]
      BY <1>1, <2>3 DEF StepTypes
    <3> QED
      BY <1>1, <2>5, <3>1, <3>2 DEF StepTypes
  <2> QED
    BY <2>1, <2>4, <2>6 DEF TypeInv
<1>6. ASSUME NEW n \in Moves, n # m PROVE MoveInv(n)'
  <2>1. Kept(n)
    BY <1>1, <1>6 DEF PathTypes, StepTypes, Kept, Advances, Stands, Sets, Follow, Goto, Work
  <2> QED
    BY <1>1, <2>1, KeptMove
<1>7. MoveInv(m)'
  <2>1. /\ path'[m] = p /\ stalls'[m] = blocked[m] /\ blocked'[m] = blocked[m]
        /\ blocked[m] \in Nat /\ stalls'[m] \in Nat /\ callback' # m /\ settle' # m
    BY <1>1 DEF PathTypes, MoveInv, StageInv
  <2>2. CASE pc' = [pc EXCEPT ![m] = "refused"] /\ Stands
    <3>1. /\ pc'[m] = "refused" /\ worker'[m] = worker[m] /\ at'[m] = at[m]
          /\ begun'[m] = begun[m] /\ track'[m] = track[m] /\ event'[m] = event[m]
          /\ judged'[m] = judged[m] /\ answer'[m] = answer[m]
      BY <1>1, <2>2 DEF PathTypes, StepTypes, Stands
    <3>2. StageInv(m)' /\ AnswerInv(m)' /\ ArriveInv(m)' /\ CountInv(m)'
      BY <1>1, <2>1, <3>1 DEF MoveInv, StageInv, AnswerInv, ArriveInv, CountInv, Waiting
    <3>3. PlaceInv(m)' /\ JudgedInv(m)'
      BY <1>1, <2>1, <3>1 DEF MoveInv, PlaceInv, JudgedInv
    <3> QED
      BY <3>2, <3>3 DEF MoveInv
  <2>3. CASE i > Len(p) /\ pc' = [pc EXCEPT ![m] = "ok"] /\ Stands
    <3>1. /\ pc'[m] = "ok" /\ worker'[m] = "done" /\ at'[m] = at[m] /\ worker[m] = "done"
          /\ begun'[m] = begun[m] /\ track'[m] = track[m] /\ event'[m] = event[m]
          /\ judged'[m] = judged[m] /\ answer'[m] = answer[m]
          /\ alone'[m] => arrived'[m]
      BY <1>1, <2>3 DEF PathTypes, StepTypes, Stands
    <3>2. StageInv(m)' /\ AnswerInv(m)' /\ ArriveInv(m)' /\ CountInv(m)'
      BY <1>1, <2>1, <3>1 DEF MoveInv, StageInv, AnswerInv, ArriveInv, CountInv, Waiting
    <3>3. PlaceInv(m)' /\ JudgedInv(m)'
      BY <1>1, <2>1, <3>1 DEF MoveInv, PlaceInv, JudgedInv
    <3> QED
      BY <3>2, <3>3 DEF MoveInv
  <2>4. CASE i <= Len(p) /\ ~p[i].inserted /\ Sets(m, i)
    <3>1. /\ pc'[m] = "set" /\ worker'[m] = "set" /\ at'[m] = i
          /\ begun'[m] = begun[m] /\ track'[m] = track[m] /\ event'[m] = event[m]
          /\ judged'[m] = judged[m] /\ answer'[m] = answer[m]
      BY <1>1, <2>4 DEF PathTypes, StepTypes, Sets
    <3>2. StageInv(m)' /\ AnswerInv(m)' /\ ArriveInv(m)' /\ CountInv(m)'
      BY <1>1, <2>1, <3>1 DEF MoveInv, StageInv, AnswerInv, ArriveInv, CountInv, Waiting
    <3>3. JudgedInv(m)'
      BY <1>1, <3>1 DEF MoveInv, JudgedInv
    <3>4. PlaceInv(m)'
      BY <1>1, <1>2, <2>1, <2>4, <3>1 DEF MoveInv, PlaceInv, Follows, Here
    <3> QED
      BY <3>2, <3>3, <3>4 DEF MoveInv
  <2>5. CASE i <= Len(p) /\ p[i].inserted /\ Follow(m, i)
    <3>1. /\ pc'[m] = "follow" /\ worker'[m] = "enlist" /\ at'[m] = i
          /\ begun'[m] = i /\ track'[m] = Fresh /\ event'[m] = "unset"
          /\ judged'[m] = 0 /\ answer'[m] = answer[m]
      BY <1>1, <2>5 DEF PathTypes, StepTypes, Follow, Goto, Work
    <3>2. StageInv(m)' /\ AnswerInv(m)' /\ ArriveInv(m)' /\ CountInv(m)'
      BY <1>1, <2>1, <3>1 DEF MoveInv, StageInv, AnswerInv, ArriveInv, CountInv, Waiting
    <3>3. JudgedInv(m)'
      BY <1>1, <3>1 DEF MoveInv, JudgedInv, Fresh
    <3>4. PlaceInv(m)'
      BY <1>1, <1>2, <2>1, <2>5, <3>1 DEF MoveInv, PlaceInv, Follows, Here
    <3> QED
      BY <3>2, <3>3, <3>4 DEF MoveInv
  <2> QED
    BY <2>2, <2>3, <2>4, <2>5 DEF Advances
<1> QED
  BY <1>4, <1>5, <1>6, <1>7 DEF ArmInv

\* A move begins: nothing of it is there yet.
LEMMA BeginStep ==
    ASSUME ArmInv, NEW m \in Moves, Begin(m)
    PROVE  ArmInv'
<1>1. /\ TypeInv /\ SimTypes /\ PathTypes /\ StepTypes /\ MoveInv(m)
      /\ MaxStalls \in Nat \ {0} /\ MaxIntrusions \in Nat
  BY ArmAssumption DEF ArmInv, TypeInv
<1>2. PICK q \in Paths[m] :
          LET dense == IF m \in Single THEN <<Waypoint(q[Len(q)], FALSE)>> ELSE Densify(q)
          IN  path' = [path EXCEPT ![m] = dense] /\ Proceed(m, dense, 1)
  BY DEF Begin
<1>3. q \in Seq(Nat) /\ q # <<>>
  BY <1>2, ArmAssumption
<1>4. PICK p \in Seq(Points) :
          Len(p) >= 1 /\ path' = [path EXCEPT ![m] = p] /\ Proceed(m, p, 1)
  <2>1. <<Waypoint(q[Len(q)], FALSE)>> \in Seq(Points)
    <3>1. q[Len(q)] \in Int
      BY <1>3
    <3> QED
      BY <3>1 DEF Waypoint, Points
  <2>2. Len(<<Waypoint(q[Len(q)], FALSE)>>) = 1
    OBVIOUS
  <2>3. Densify(q) \in Seq(Points) /\ Len(Densify(q)) >= 1
    BY <1>3, DensifyType
  <2> DEFINE dense == IF m \in Single THEN <<Waypoint(q[Len(q)], FALSE)>> ELSE Densify(q)
  <2>4. dense \in Seq(Points) /\ Len(dense) >= 1
    <3>1. CASE m \in Single
      <4>1. dense = <<Waypoint(q[Len(q)], FALSE)>>
        BY <3>1
      <4>2. Len(dense) = 1
        BY <2>2, <4>1
      <4>3. dense \in Seq(Points)
        BY <2>1, <4>1, Zenon
      <4> HIDE DEF dense
      <4> QED
        BY <4>2, <4>3
    <3>2. CASE m \notin Single
      <4>1. dense = Densify(q)
        BY <3>2
      <4> HIDE DEF dense
      <4> QED
        BY <2>3, <4>1
    <3> QED
      BY <3>1, <3>2
  <2>5. path' = [path EXCEPT ![m] = dense] /\ Proceed(m, dense, 1)
    BY <1>2
  <2> HIDE DEF dense
  <2> QED
    BY <2>4, <2>5
<1>5. Advances(m, p, 1)
  <2>1. Len(p) \in Nat
    OBVIOUS
  <2> QED
    BY <1>4, <2>1, ProceedAdvances
<1>6. worker[m] = "none" /\ begun[m] = 0 /\ blocked[m] = 0 /\ stalls[m] = 0
  BY <1>1 DEF Begin, MoveInv, StageInv
<1>7. stalls' = [stalls EXCEPT ![m] = blocked[m]]
  BY <1>1, <1>6 DEF Begin, PathTypes
<1>8. intrusions' \in Nat
  BY <1>1 DEF Begin, Intrude, SimTypes
<1>9. Len(p) \in Nat /\ ~(1 > Len(p))
  BY <1>4
<1>10. UNCHANGED <<pos, target, callback, settle, aim, answer, stopPc, closed,
                   owner, alone, stopped, blocked, arrived>>
  BY DEF Begin
<1>11. 1 \in Nat /\ 1 >= 1 /\ begun[m] <= 1 /\ blocked[m] < MaxStalls
  BY <1>1, <1>6
<1>12. path' = [path EXCEPT ![m] = p]
  BY <1>4
<1> QED
  BY <1>5, <1>6, <1>7, <1>8, <1>9, <1>10, <1>11, <1>12, AdvanceStep

\* A move was told that it is there: it is, and has met no stall.
LEMMA ReachedStep ==
    ASSUME ArmInv, NEW m \in Moves, Reached(m)
    PROVE  ArmInv'
<1>1. /\ TypeInv /\ SimTypes /\ PathTypes /\ StepTypes /\ MoveInv(m)
      /\ MaxStalls \in Nat \ {0}
  BY ArmAssumption DEF ArmInv, TypeInv
<1>2. PICK p \in Seq(Points) : p = path[m]
  BY <1>1 DEF PathTypes
<1>3. PICK l \in Nat : l = Len(p)
  OBVIOUS
<1>4. PICK a \in Nat : a = at[m] /\ a \in 1..l
  BY <1>1, <1>2, <1>3 DEF Reached, Told, MoveInv, PlaceInv, PathTypes
<1>5. PICK e : e = (IF Follows(m) THEN RunEnd(p, a) ELSE a) /\ e \in a..l
  <2>1. Follows(m) => RunEnd(p, a) \in a..l
    BY <1>2, <1>3, <1>4, RunEndType DEF Follows, Here
  <2> QED
    BY <1>3, <1>4, <2>1
<1>6. Proceed(m, p, e + 1)
  BY <1>2, <1>4, <1>5 DEF Reached
<1>7. e \in Nat /\ e + 1 \in Nat /\ e + 1 >= 1
  BY <1>3, <1>4, <1>5
<1>8. Advances(m, p, e + 1)
  BY <1>3, <1>6, <1>7, ProceedAdvances
<1>9. worker[m] = "done" /\ begun[m] \in Nat /\ begun[m] <= e + 1
  BY <1>1, <1>3, <1>4, <1>5 DEF Reached, Told, MoveInv, PlaceInv, PathTypes
<1>10. blocked[m] = 0 /\ stalls' = [stalls EXCEPT ![m] = blocked[m]]
  BY <1>1 DEF Reached, Told, MoveInv, CountInv, Waiting, Stalls
<1>11. ASSUME e + 1 > Len(p), alone[m] PROVE arrived[m]
  <2>1. e = l /\ Waiting(m) /\ event[m] = "reached"
    BY <1>1, <1>3, <1>5, <1>7, <1>11 DEF Reached, Told, MoveInv, AnswerInv, Waiting
  <2>2. Follows(m) => a = e
    BY <1>1, <1>2, <1>4, <1>5, <1>11, <2>1 DEF MoveInv, ArriveInv
  <2>3. a = l
    BY <1>5, <2>1, <2>2
  <2> QED
    BY <1>1, <1>2, <1>3, <1>4, <1>11, <2>1, <2>3 DEF MoveInv, ArriveInv, Final
<1>12. path' = [path EXCEPT ![m] = p] /\ intrusions' \in Nat
  BY <1>1, <1>2 DEF Reached, PathTypes, SimTypes, envVars
<1>13. UNCHANGED <<pos, target, callback, settle, aim, answer, stopPc, closed,
                   owner, alone, stopped, blocked, arrived>>
  BY DEF Reached, envVars
<1>14. blocked[m] < MaxStalls
  BY <1>1, <1>10
<1> QED
  BY <1>2, <1>7, <1>8, <1>9, <1>10, <1>11, <1>12, <1>13, <1>14, AdvanceStep

\* A move was told that it is not: it goes on from fewer stalls than are fatal,
\* or it gives up.
LEMMA MissedStep ==
    ASSUME ArmInv, NEW m \in Moves, Missed(m)
    PROVE  ArmInv'
<1>1. /\ TypeInv /\ SimTypes /\ PathTypes /\ StepTypes /\ MoveInv(m)
      /\ TasksFit(queue, worker)
  BY DEF ArmInv, TypeInv
<1>2. PICK p \in Seq(Points) : p = path[m]
  BY <1>1 DEF PathTypes
<1>3. PICK l \in Nat : l = Len(p)
  OBVIOUS
<1>4. PICK a \in Nat : a = at[m] /\ a \in 1..l
  BY <1>1, <1>2, <1>3 DEF Missed, Told, MoveInv, PlaceInv, PathTypes
<1>5. worker[m] = "done" /\ begun[m] \in Nat /\ begun[m] <= a + 1
  BY <1>1, <1>3, <1>4 DEF Missed, Told, MoveInv, PlaceInv, PathTypes
<1>6. blocked[m] = Stalls(m) /\ Waiting(m) /\ answer[m] \in {"stalled", "timed_out"}
  BY <1>1 DEF Missed, Told, MoveInv, CountInv, AnswerInv, Waiting, StepTypes, Outcomes
<1>7. stalls' = [stalls EXCEPT ![m] = blocked[m]]
  BY <1>6 DEF Missed
<1>8. UNCHANGED <<pos, target, callback, settle, path, aim, answer, envVars,
                  owner, alone, stopped, blocked, arrived>>
  BY DEF Missed
<1>9. CASE ~GoesOn(m)
  <2>1. /\ pc' = [pc EXCEPT ![m] = "fail"] /\ queue' = Append(queue, Task("hold", m))
        /\ UNCHANGED <<at, begun, worker, track, event, seen, judged>>
    BY <1>9 DEF Missed, Goto, Queue
  <2>2. queue \in Seq(Tasks)
    BY <1>1 DEF SimTypes
  <2>3. TasksFit(queue', worker') /\ queue' \in Seq(Tasks)
    BY <1>1, <2>1, <2>2, OtherTaskQueued
  <2>4. TypeInv'
    <3>1. SimTypes'
      BY <1>1, <1>8, <2>3 DEF SimTypes, envVars
    <3>2. blocked[m] \in Nat
      BY <1>1 DEF PathTypes
    <3>3. PathTypes'
      BY <1>1, <1>7, <1>8, <2>1, <3>2 DEF PathTypes
    <3>4. StepTypes'
      BY <1>1, <1>8, <2>1 DEF StepTypes, Steps
    <3> QED
      BY <3>1, <3>3, <3>4 DEF TypeInv
  <2>5. ASSUME NEW n \in Moves, n # m PROVE MoveInv(n)'
    <3>1. Kept(n)
      BY <1>1, <1>7, <1>8, <2>1, <2>5 DEF PathTypes, StepTypes, Kept
    <3> QED
      BY <3>1, KeptMove DEF ArmInv
  <2>6. MoveInv(m)'
    <3>1. /\ pc'[m] = "fail" /\ worker'[m] = "done" /\ at'[m] = at[m] /\ path'[m] = path[m]
          /\ begun'[m] = begun[m] /\ track'[m] = track[m] /\ event'[m] = event[m]
          /\ judged'[m] = judged[m] /\ answer'[m] = answer[m] /\ blocked'[m] = blocked[m]
          /\ callback' = callback /\ settle' = settle
      BY <1>1, <1>5, <1>8, <2>1 DEF PathTypes, StepTypes
    <3>2. StageInv(m)' /\ AnswerInv(m)' /\ ArriveInv(m)'
      BY <1>1, <1>5, <1>6, <3>1 DEF MoveInv, StageInv, AnswerInv, ArriveInv, Waiting
    <3>3. PlaceInv(m)' /\ JudgedInv(m)'
      BY <1>1, <1>5, <3>1 DEF MoveInv, PlaceInv, JudgedInv
    <3>4. at[m] = Final(m) \/ (blocked[m] >= MaxStalls /\ answer[m] = "stalled")
      <4>1. MaxStalls \in Nat \ {0} /\ blocked[m] \in Nat
        BY <1>1, ArmAssumption DEF PathTypes
      <4> QED
        BY <1>6, <1>9, <4>1 DEF GoesOn, Stalls
    <3>5. CountInv(m)'
      BY <3>1, <3>4 DEF CountInv, Waiting, Final
    <3> QED
      BY <3>2, <3>3, <3>5 DEF MoveInv
  <2> QED
    BY <2>3, <2>4, <2>5, <2>6 DEF ArmInv
<1>10. CASE GoesOn(m)
  <2>1. a + 1 \in Nat /\ a + 1 >= 1 /\ ~(a + 1 > Len(p))
    BY <1>2, <1>3, <1>4, <1>10 DEF GoesOn, Final
  <2>2. Advances(m, p, a + 1)
    <3>1. CASE Follows(m) /\ at[m] < RunEnd(path[m], at[m])
      <4>1. PICK e : e = RunEnd(p, a) /\ e \in a..l /\ \A k \in a..e : p[k].inserted
        BY <1>2, <1>3, <1>4, <3>1, RunEndType DEF Follows, Here
      <4>2. p[a + 1].inserted
        BY <1>2, <1>3, <1>4, <3>1, <4>1
      <4>3. Follow(m, a + 1)
        BY <1>4, <1>10, <3>1 DEF Missed
      <4>4. a + 1 <= Len(p)
        BY <1>3, <2>1
      <4> QED
        BY <4>2, <4>3, <4>4 DEF Advances
    <3>2. CASE ~(Follows(m) /\ at[m] < RunEnd(path[m], at[m]))
      <4>1. Proceed(m, p, a + 1)
        BY <1>2, <1>4, <1>10, <3>2 DEF Missed
      <4> QED
        BY <1>3, <2>1, <4>1, ProceedAdvances
    <3> QED
      BY <3>1, <3>2
  <2>3. path' = [path EXCEPT ![m] = p] /\ intrusions' \in Nat
    BY <1>1, <1>2, <1>8 DEF PathTypes, SimTypes, envVars
  <2>4. blocked[m] < MaxStalls
    BY <1>6, <1>10 DEF GoesOn
  <2>5. UNCHANGED <<pos, target, callback, settle, aim, answer, stopPc, closed,
                    owner, alone, stopped, blocked, arrived>>
    BY <1>8 DEF envVars
  <2> QED
    BY <1>2, <1>5, <1>7, <2>1, <2>2, <2>3, <2>4, <2>5, AdvanceStep
<1> QED
  BY <1>9, <1>10

\* The wait begins: nothing is known of the waypoint.
LEMMA StartWaitStep ==
    ASSUME ArmInv, NEW m \in Moves, StartWait(m)
    PROVE  ArmInv'
<1>1. /\ TypeInv /\ SimTypes /\ PathTypes /\ StepTypes /\ MoveInv(m)
      /\ TasksFit(queue, worker)
  BY DEF ArmInv, TypeInv
<1>2. /\ pc' = [pc EXCEPT ![m] = "wait"] /\ worker' = [worker EXCEPT ![m] = "enlist"]
      /\ aim' = [aim EXCEPT ![m] = target] /\ track' = [track EXCEPT ![m] = Fresh]
      /\ event' = [event EXCEPT ![m] = "unset"] /\ judged' = [judged EXCEPT ![m] = 0]
      /\ pc[m] = "set" /\ worker[m] = "done"
      /\ UNCHANGED <<pos, target, callback, queue, settle, path, at, begun, stalls, answer,
                     seen, stopPc, intrusions, closed, owner, alone, stopped, blocked, arrived>>
  BY DEF StartWait, Goto, Work, simVars, envVars
<1>3. TasksFit(queue', worker')
  <2>1. queue \in Seq(Tasks) /\ worker \in [Moves -> Stages] /\ "enlist" \in Stages
    BY <1>1 DEF SimTypes, StepTypes, Stages
  <2> QED
    BY <1>1, <1>2, <2>1, FreeThread
<1>4. TypeInv'
  <2>1. SimTypes'
    BY <1>1, <1>2 DEF SimTypes
  <2>2. PathTypes'
    <3>1. judged' \in [Moves -> Nat]
      BY <1>1, <1>2 DEF PathTypes
    <3> QED
      BY <1>1, <1>2, <3>1 DEF PathTypes
  <2>3. Fresh \in Trackers
    BY DEF Fresh, Trackers
  <2>4. pc' \in [Moves -> Steps] /\ worker' \in [Moves -> Stages]
    BY <1>1, <1>2 DEF StepTypes, Steps, Stages
  <2>5. aim' \in [Moves -> Int]
    BY <1>1, <1>2 DEF StepTypes, SimTypes
  <2>6. track' \in [Moves -> Trackers] /\ event' \in [Moves -> Outcomes \cup {"unset"}]
    BY <1>1, <1>2, <2>3 DEF StepTypes
  <2>7. StepTypes'
    BY <1>1, <1>2, <2>4, <2>5, <2>6 DEF StepTypes
  <2> QED
    BY <2>1, <2>2, <2>7 DEF TypeInv
<1>5. ASSUME NEW n \in Moves, n # m PROVE MoveInv(n)'
  <2>1. Kept(n)
    BY <1>1, <1>2, <1>5 DEF PathTypes, StepTypes, Kept
  <2> QED
    BY <2>1, KeptMove DEF ArmInv
<1>6. MoveInv(m)'
  <2>1. /\ pc'[m] = "wait" /\ worker'[m] = "enlist" /\ aim'[m] = target /\ track'[m] = Fresh
        /\ event'[m] = "unset" /\ judged'[m] = 0
    BY <1>1, <1>2 DEF PathTypes, StepTypes
  <2>2. StageInv(m)' /\ AnswerInv(m)'
    BY <1>1, <1>2, <2>1 DEF MoveInv, StageInv, AnswerInv, Waiting
  <2>3. PlaceInv(m)' /\ JudgedInv(m)'
    BY <1>1, <1>2, <2>1 DEF MoveInv, PlaceInv, JudgedInv, Follows, Here, Fresh
  <2>4. ArriveInv(m)' /\ CountInv(m)'
    BY <1>1, <1>2, <2>1 DEF MoveInv, ArriveInv, CountInv, Here, Waiting
  <2> QED
    BY <2>2, <2>3, <2>4 DEF MoveInv
<1> QED
  BY <1>3, <1>4, <1>5, <1>6 DEF ArmInv

\* The RPC is dropped; its thread goes on.
LEMMA DropStep ==
    ASSUME ArmInv, NEW m \in Moves, Drop(m)
    PROVE  ArmInv'
<1>1. /\ TypeInv /\ SimTypes /\ PathTypes /\ StepTypes /\ MoveInv(m)
      /\ TasksFit(queue, worker) /\ queue \in Seq(Tasks)
  BY DEF ArmInv, TypeInv, SimTypes
<1>2. UNCHANGED <<pos, target, callback, settle, path, at, begun, worker, stalls,
                  aim, track, event, answer, seen, stopPc, closed,
                  owner, alone, stopped, blocked, judged, arrived>>
  BY DEF Drop, waitVars, history
<1>3. PICK s \in {"drop", "dropped"} : pc' = [pc EXCEPT ![m] = s]
  BY DEF Drop, Goto
<1>4. queue' = queue \/ queue' = Append(queue, Task("drop", m))
  BY DEF Drop, Queue
<1>5. TasksFit(queue', worker') /\ queue' \in Seq(Tasks)
  <2>1. TasksFit(queue', worker) /\ queue' \in Seq(Tasks)
    BY <1>1, <1>4, OtherTaskQueued
  <2> QED
    BY <1>2, <2>1
<1>6. TypeInv'
  <2>1. intrusions' \in Nat
    BY <1>1 DEF Drop, Intrude, SimTypes
  <2>2. SimTypes'
    BY <1>1, <1>2, <1>5, <2>1 DEF SimTypes
  <2>3. PathTypes'
    BY <1>1, <1>2 DEF PathTypes
  <2>4. StepTypes'
    BY <1>1, <1>2, <1>3 DEF StepTypes, Steps
  <2> QED
    BY <2>2, <2>3, <2>4 DEF TypeInv
<1>7. ASSUME NEW n \in Moves, n # m PROVE MoveInv(n)'
  <2>1. Kept(n)
    BY <1>1, <1>2, <1>3, <1>7 DEF StepTypes, Kept
  <2> QED
    BY <2>1, KeptMove DEF ArmInv
<1>8. MoveInv(m)'
  <2>1. pc'[m] \in {"drop", "dropped"}
    BY <1>1, <1>3 DEF StepTypes
  <2>2. StageInv(m)' /\ AnswerInv(m)'
    BY <1>1, <1>2, <2>1 DEF MoveInv, StageInv, AnswerInv, Waiting
  <2>3. PlaceInv(m)' /\ JudgedInv(m)'
    BY <1>1, <1>2, <2>1 DEF MoveInv, PlaceInv, JudgedInv
  <2>4. ArriveInv(m)' /\ CountInv(m)'
    BY <1>1, <1>2, <2>1 DEF MoveInv, ArriveInv, CountInv, Waiting
  <2> QED
    BY <2>2, <2>3, <2>4 DEF MoveInv
<1> QED
  BY <1>5, <1>6, <1>7, <1>8 DEF ArmInv
-----------------------------------------------------------------------------
(***************************************************************************)
(* The thread.                                                             *)
(***************************************************************************)
\* The wait is entered into the handle and its callback queued.
LEMMA EnlistStep ==
    ASSUME ArmInv, NEW m \in Moves, Enlist(m)
    PROVE  ArmInv'
<1>1. /\ TypeInv /\ SimTypes /\ PathTypes /\ StepTypes /\ MoveInv(m)
      /\ TasksFit(queue, worker) /\ queue \in Seq(Tasks)
      /\ worker \in [Moves -> Stages] /\ NoMove \notin Moves
  BY ArmAssumption DEF ArmInv, TypeInv, SimTypes, StepTypes
<1>2. /\ settle' = m /\ worker' = [worker EXCEPT ![m] = "register"] /\ worker[m] = "enlist"
      /\ UNCHANGED <<pos, target, callback, path, at, begun, pc, stalls,
                     aim, track, event, answer, seen, stopPc, intrusions, closed,
                     owner, alone, stopped, blocked, judged, arrived>>
  BY DEF Enlist, Work, waitVars, envVars, history
<1>3. PICK op \in {"start", "register"} : queue' = Append(queue, Task(op, m))
  BY DEF Enlist, Queue
<1>4. op \in OwnOps /\ StageOf(op) = "register"
  BY DEF OwnOps, StageOf
<1>5. TasksFit(queue', worker') /\ queue' \in Seq(Tasks)
  BY <1>1, <1>2, <1>3, <1>4, OwnTaskQueued
<1>6. TypeInv'
  <2>1. SimTypes'
    BY <1>1, <1>2, <1>5 DEF SimTypes
  <2>2. PathTypes'
    BY <1>1, <1>2 DEF PathTypes
  <2>3. StepTypes'
    BY <1>1, <1>2 DEF StepTypes, Stages
  <2> QED
    BY <2>1, <2>2, <2>3 DEF TypeInv
<1>7. ASSUME NEW n \in Moves, n # m PROVE MoveInv(n)'
  <2>1. Kept(n)
    BY <1>1, <1>2, <1>7 DEF StepTypes, Kept
  <2> QED
    BY <2>1, KeptMove DEF ArmInv
<1>8. MoveInv(m)'
  <2>1. worker'[m] = "register"
    BY <1>1, <1>2
  <2>2. StageInv(m)' /\ AnswerInv(m)'
    BY <1>1, <1>2, <2>1 DEF MoveInv, StageInv, AnswerInv, Waiting
  <2>3. PlaceInv(m)' /\ JudgedInv(m)'
    BY <1>1, <1>2, <2>1 DEF MoveInv, PlaceInv, JudgedInv, Follows, Here
  <2>4. ArriveInv(m)'
    BY <1>1, <1>2, <2>1 DEF MoveInv, ArriveInv, Waiting, Follows, Here, Final
  <2>5. CountInv(m)'
    BY <1>1, <1>2, <2>1 DEF MoveInv, StageInv, CountInv, Waiting, Final
  <2> QED
    BY <2>2, <2>3, <2>4, <2>5 DEF MoveInv
<1> QED
  BY <1>5, <1>6, <1>7, <1>8 DEF ArmInv

\* The thread leaves its wait with an answer, a success if the event is.
LEMMA AnswerStep ==
    ASSUME ArmInv, NEW m \in Moves, worker[m] = "watch", NEW v \in Outcomes,
           v = "reached" => event[m] = "reached",
           answer' = [answer EXCEPT ![m] = v], Unlist(m),
           UNCHANGED <<pos, target, callback, path, at, begun, pc, stalls, aim, track, event,
                       seen, envVars, history>>
    PROVE  ArmInv'
<1>1. /\ TypeInv /\ SimTypes /\ PathTypes /\ StepTypes /\ MoveInv(m)
      /\ TasksFit(queue, worker) /\ queue \in Seq(Tasks)
      /\ worker \in [Moves -> Stages] /\ NoMove \notin Moves
  BY ArmAssumption DEF ArmInv, TypeInv, SimTypes, StepTypes
<1>2. /\ settle' \in {settle, NoMove} /\ settle' # m
      /\ worker' = [worker EXCEPT ![m] = "remove"]
      /\ queue' = Append(queue, Task("remove", m))
  BY <1>1 DEF Unlist, Work, Queue
<1>3. UNCHANGED <<pos, target, callback, path, at, begun, pc, stalls,
                  aim, track, event, seen, stopPc, intrusions, closed,
                  owner, alone, stopped, blocked, judged, arrived>>
  BY DEF envVars, history
<1>4. "remove" \in OwnOps /\ StageOf("remove") = "remove"
  BY DEF OwnOps, StageOf
<1>5. TasksFit(queue', worker') /\ queue' \in Seq(Tasks)
  BY <1>1, <1>2, <1>4, OwnTaskQueued
<1>6. TypeInv'
  <2>1. SimTypes'
    BY <1>1, <1>2, <1>3, <1>5 DEF SimTypes
  <2>2. PathTypes'
    BY <1>1, <1>3 DEF PathTypes
  <2>3. StepTypes'
    BY <1>1, <1>2, <1>3 DEF StepTypes, Stages
  <2> QED
    BY <2>1, <2>2, <2>3 DEF TypeInv
<1>7. ASSUME NEW n \in Moves, n # m PROVE MoveInv(n)'
  <2>1. Kept(n)
    BY <1>1, <1>2, <1>3, <1>7 DEF StepTypes, Kept
  <2> QED
    BY <2>1, KeptMove DEF ArmInv
<1>8. MoveInv(m)'
  <2>1. worker'[m] = "remove" /\ answer'[m] = v /\ v # "unset"
    BY <1>1, <1>2 DEF StepTypes, Outcomes
  <2>2. StageInv(m)' /\ AnswerInv(m)'
    BY <1>1, <1>2, <1>3, <2>1 DEF MoveInv, StageInv, AnswerInv, Waiting
  <2>3. PlaceInv(m)' /\ JudgedInv(m)'
    BY <1>1, <1>3, <2>1 DEF MoveInv, PlaceInv, JudgedInv, Follows, Here
  <2>4. ArriveInv(m)'
    BY <1>1, <1>3, <2>1 DEF MoveInv, ArriveInv, Waiting, Follows, Here, Final
  <2>5. CountInv(m)'
    BY <1>1, <1>3, <2>1 DEF MoveInv, StageInv, CountInv, Waiting, Final
  <2> QED
    BY <2>2, <2>3, <2>4, <2>5 DEF MoveInv
<1> QED
  BY <1>5, <1>6, <1>7, <1>8 DEF ArmInv

\* Every step of a thread.
LEMMA ThreadStep ==
    ASSUME ArmInv, NEW m \in Moves, Thread(m)
    PROVE  ArmInv'
<1>1. CASE Enlist(m)
  BY <1>1, EnlistStep
<1>2. CASE Wake(m)
  <2>1. event[m] \in Outcomes
    BY <1>2 DEF Wake, ArmInv, TypeInv, StepTypes
  <2>2. answer' = [answer EXCEPT ![m] = event[m]]
    BY <1>2 DEF Wake
  <2> QED
    BY <1>2, <2>1, <2>2, AnswerStep DEF Wake
<1>3. CASE Guard(m)
  <2>1. CASE Follows(m) /\ at[m] # seen[m]
    <3>1. /\ seen' = [seen EXCEPT ![m] = at[m]]
          /\ UNCHANGED <<pos, target, callback, queue, settle, path, at, begun, pc, worker,
                         stalls, aim, track, event, answer, stopPc, intrusions, closed,
                         owner, alone, stopped, blocked, judged, arrived>>
      BY <1>3, <2>1 DEF Guard, envVars, history
    <3>2. TypeInv'
      <4>1. SimTypes'
        BY <3>1 DEF ArmInv, TypeInv, SimTypes
      <4>2. PathTypes'
        BY <3>1 DEF ArmInv, TypeInv, PathTypes
      <4>3. StepTypes'
        BY <3>1 DEF ArmInv, TypeInv, StepTypes
      <4> QED
        BY <4>1, <4>2, <4>3 DEF TypeInv
    <3>3. ASSUME NEW n \in Moves PROVE MoveInv(n)'
      <4>1. Kept(n)
        BY <3>1 DEF Kept
      <4> QED
        BY <4>1, KeptMove DEF ArmInv
    <3> QED
      BY <3>1, <3>2, <3>3 DEF ArmInv
  <2>2. CASE ~(Follows(m) /\ at[m] # seen[m])
    <3>1. "timed_out" \in Outcomes
      BY DEF Outcomes
    <3>2. answer' = [answer EXCEPT ![m] = "timed_out"] /\ Unlist(m)
      BY <1>3, <2>2 DEF Guard
    <3>3. UNCHANGED <<pos, target, callback, path, at, begun, pc, stalls, aim, track, event,
                      seen, envVars, history>>
      BY <1>3, <2>2 DEF Guard
    <3> QED
      BY <1>3, <3>1, <3>2, <3>3, AnswerStep DEF Guard
  <2> QED
    BY <2>1, <2>2
<1> QED
  BY <1>1, <1>2, <1>3 DEF Thread
-----------------------------------------------------------------------------
(***************************************************************************)
(* The tasks.                                                              *)
(***************************************************************************)
\* Whoever writes the target leaves no other move alone that still acts.
LEMMA Written ==
    ASSUME TypeInv, NEW x, NEW w, WriteTarget(x, w)
    PROVE  /\ target' = x /\ owner' = w /\ alone' \in [Moves -> BOOLEAN]
           /\ \A n \in Moves : alone'[n] => alone[n] /\ (n = w \/ pc[n] \notin Active)
BY DEF WriteTarget, TypeInv, StepTypes

\* A thread's waypoint is one.
LEMMA HereType ==
    ASSUME TypeInv, NEW m \in Moves, MoveInv(m), worker[m] # "none"
    PROVE  Here(m) \in Points /\ Here(m).pos \in Int
<1>1. path[m] \in Seq(Points) /\ at[m] \in 1..Len(path[m])
  BY DEF TypeInv, PathTypes, MoveInv, PlaceInv
<1>2. Here(m) \in Points
  BY <1>1 DEF Here
<1> QED
  BY <1>2 DEF Points

\* What no task changes.
Spared == UNCHANGED <<settle, path, at, begun, stalls, aim, track, seen, intrusions, closed,
                      judged, arrived>>

\* set_joint_targets: the target is the waypoint's.
LEMMA SetStep ==
    ASSUME ArmInv, NEW m \in Moves, worker[m] = "set", SetTask(m), Spared,
           queue' \in Seq(Tasks), TasksFit(queue', worker')
    PROVE  ArmInv'
<1>1. /\ TypeInv /\ SimTypes /\ PathTypes /\ StepTypes /\ MoveInv(m) /\ NoMove \notin Moves
  BY ArmAssumption DEF ArmInv, TypeInv
<1>2. /\ target' = Here(m).pos /\ owner' = m /\ alone' \in [Moves -> BOOLEAN]
      /\ \A n \in Moves : alone'[n] => alone[n] /\ (n = m \/ pc[n] \notin Active)
  BY <1>1, Written DEF SetTask
<1>3. /\ worker' = [worker EXCEPT ![m] = "done"]
      /\ UNCHANGED <<pos, callback, pc, event, answer, stopPc, stopped, blocked, settle, path,
                     at, begun, stalls, aim, track, seen, intrusions, closed, judged, arrived>>
  BY DEF SetTask, Spared, Work
<1>4. TypeInv'
  <2>1. target' \in Int
    BY <1>1, <1>2, HereType
  <2>2. SimTypes'
    BY <1>1, <1>2, <1>3, <2>1 DEF SimTypes
  <2>3. PathTypes'
    BY <1>1, <1>3 DEF PathTypes
  <2>4. StepTypes'
    BY <1>1, <1>2, <1>3 DEF StepTypes, Stages
  <2> QED
    BY <2>2, <2>3, <2>4 DEF TypeInv
<1>5. ASSUME NEW n \in Moves, n # m PROVE MoveInv(n)'
  <2>1. Kept(n)
    BY <1>1, <1>2, <1>3, <1>5 DEF StepTypes, Kept, Active, Awaiting
  <2> QED
    BY <2>1, KeptMove DEF ArmInv
<1>6. MoveInv(m)'
  <2>1. worker'[m] = "done" /\ (alone'[m] => alone[m])
    BY <1>1, <1>2, <1>3 DEF StepTypes
  <2>2. StageInv(m)' /\ AnswerInv(m)'
    BY <1>1, <1>2, <1>3, <2>1 DEF MoveInv, StageInv, AnswerInv, Waiting
  <2>3. PlaceInv(m)' /\ JudgedInv(m)'
    BY <1>1, <1>3, <2>1 DEF MoveInv, PlaceInv, JudgedInv, Follows, Here
  <2>4. ArriveInv(m)'
    BY <1>1, <1>2, <1>3, <2>1 DEF MoveInv, StageInv, ArriveInv, Waiting, Here
  <2>5. CountInv(m)'
    BY <1>1, <1>3, <2>1 DEF MoveInv, StageInv, CountInv, Waiting, Final
  <2> QED
    BY <2>2, <2>3, <2>4, <2>5 DEF MoveInv
<1> QED
  BY <1>4, <1>5, <1>6 DEF ArmInv

\* The callback is registered, by a follow with its first target.
LEMMA RegisterStep ==
    ASSUME ArmInv, NEW m \in Moves, worker[m] = "register", Spared,
           RegisterTask(m) \/ StartTask(m),
           queue' \in Seq(Tasks), TasksFit(queue', worker')
    PROVE  ArmInv'
<1>1. /\ TypeInv /\ SimTypes /\ PathTypes /\ StepTypes /\ MoveInv(m) /\ NoMove \notin Moves
  BY ArmAssumption DEF ArmInv, TypeInv
<1>2. /\ target' = target \/ target' = Here(m).pos
      /\ owner' = owner \/ owner' = m
      /\ alone' \in [Moves -> BOOLEAN]
      /\ \A n \in Moves : alone'[n] => alone[n]
      /\ \A n \in Moves \ {m} : alone'[n] => target' = target \/ pc[n] \notin Active
  <2>1. CASE RegisterTask(m)
    BY <1>1, <2>1 DEF RegisterTask, StepTypes
  <2>2. CASE StartTask(m)
    BY <1>1, <2>2, Written DEF StartTask
  <2> QED
    BY <2>1, <2>2
<1>3. /\ worker' = [worker EXCEPT ![m] = "watch"] /\ callback' \in {m} \cup ({callback} \ {NoMove})
      /\ UNCHANGED <<pos, pc, event, answer, stopPc, stopped, blocked, settle, path,
                     at, begun, stalls, aim, track, seen, intrusions, closed, judged, arrived>>
  BY DEF RegisterTask, StartTask, Spared, Work, AddCallback
<1>4. TypeInv'
  <2>1. target' \in Int
    BY <1>1, <1>2, HereType DEF SimTypes
  <2>2. SimTypes'
    BY <1>1, <1>2, <1>3, <2>1 DEF SimTypes
  <2>3. PathTypes'
    BY <1>1, <1>3 DEF PathTypes
  <2>4. StepTypes'
    BY <1>1, <1>2, <1>3 DEF StepTypes, Stages
  <2> QED
    BY <2>2, <2>3, <2>4 DEF TypeInv
<1>5. ASSUME NEW n \in Moves, n # m PROVE MoveInv(n)'
  <2>1. Kept(n)
    BY <1>1, <1>2, <1>3, <1>5 DEF StepTypes, Kept, Active, Awaiting
  <2> QED
    BY <2>1, KeptMove DEF ArmInv
<1>6. MoveInv(m)'
  <2>1. worker'[m] = "watch" /\ (alone'[m] => alone[m])
    BY <1>1, <1>2, <1>3 DEF StepTypes
  <2>2. StageInv(m)' /\ AnswerInv(m)'
    BY <1>1, <1>2, <1>3, <2>1 DEF MoveInv, StageInv, AnswerInv, Waiting
  <2>3. PlaceInv(m)' /\ JudgedInv(m)'
    BY <1>1, <1>3, <2>1 DEF MoveInv, PlaceInv, JudgedInv, Follows, Here
  <2>4. ArriveInv(m)'
    BY <1>1, <1>3, <2>1 DEF MoveInv, StageInv, ArriveInv, Waiting, Here, Follows, Final
  <2>5. CountInv(m)'
    BY <1>1, <1>3, <2>1 DEF MoveInv, StageInv, CountInv, Waiting, Final
  <2> QED
    BY <2>2, <2>3, <2>4, <2>5 DEF MoveInv
<1> QED
  BY <1>4, <1>5, <1>6 DEF ArmInv

\* The answer is settled: it is counted as it was answered.
LEMMA RemoveStep ==
    ASSUME ArmInv, NEW m \in Moves, worker[m] = "remove", Spared, RemoveTask(m),
           queue' \in Seq(Tasks), TasksFit(queue', worker')
    PROVE  ArmInv'
<1>1. /\ TypeInv /\ SimTypes /\ PathTypes /\ StepTypes /\ MoveInv(m) /\ NoMove \notin Moves
  BY ArmAssumption DEF ArmInv, TypeInv
<1>2. PICK told \in Outcomes :
          /\ answer' = [answer EXCEPT ![m] = told]
          /\ blocked' = [blocked EXCEPT ![m] = IF told = "stalled" THEN @ + 1 ELSE 0]
          /\ told = "reached" => event[m] = "reached"
  <2> DEFINE t == IF ~Follows(m) THEN answer[m]
                  ELSE IF event[m] = "unset" THEN "timed_out" ELSE event[m]
  <2>1. t \in Outcomes /\ (t = "reached" => event[m] = "reached")
    BY <1>1 DEF MoveInv, AnswerInv, StepTypes, Outcomes
  <2>2. /\ answer' = [answer EXCEPT ![m] = t]
        /\ blocked' = [blocked EXCEPT ![m] = IF t = "stalled" THEN @ + 1 ELSE 0]
    BY DEF RemoveTask
  <2> HIDE DEF t
  <2> QED
    BY <2>1, <2>2
<1>3. /\ worker' = [worker EXCEPT ![m] = "done"] /\ callback' = NoMove
      /\ UNCHANGED <<pos, target, pc, event, stopPc, owner, alone, stopped, settle, path,
                     at, begun, stalls, aim, track, seen, intrusions, closed, judged, arrived>>
  BY DEF RemoveTask, Spared, Work
<1>4. blocked'[m] = (IF told = "stalled" THEN blocked[m] + 1 ELSE 0) /\ blocked'[m] \in Nat
  BY <1>1, <1>2 DEF PathTypes
<1>5. TypeInv'
  <2>1. SimTypes'
    BY <1>1, <1>3 DEF SimTypes
  <2>2. blocked' \in [Moves -> Nat]
    BY <1>1, <1>2, <1>4 DEF PathTypes
  <2>3. PathTypes'
    BY <1>1, <1>3, <2>2 DEF PathTypes
  <2>4. answer' \in [Moves -> Outcomes \cup {"unset"}]
    BY <1>1, <1>2 DEF StepTypes
  <2>5. StepTypes'
    BY <1>1, <1>3, <2>4 DEF StepTypes, Stages
  <2> QED
    BY <2>1, <2>3, <2>5 DEF TypeInv
<1>6. ASSUME NEW n \in Moves, n # m PROVE MoveInv(n)'
  <2>1. Kept(n)
    BY <1>1, <1>2, <1>3, <1>6 DEF PathTypes, StepTypes, Kept
  <2> QED
    BY <2>1, KeptMove DEF ArmInv
<1>7. MoveInv(m)'
  <2>1. worker'[m] = "done" /\ answer'[m] = told /\ told # "unset"
    BY <1>1, <1>2, <1>3 DEF StepTypes, Outcomes
  <2>2. StageInv(m)' /\ AnswerInv(m)'
    BY <1>1, <1>2, <1>3, <2>1 DEF MoveInv, StageInv, AnswerInv, Waiting
  <2>3. PlaceInv(m)' /\ JudgedInv(m)'
    BY <1>1, <1>3, <2>1 DEF MoveInv, PlaceInv, JudgedInv, Follows, Here
  <2>4. ArriveInv(m)'
    BY <1>1, <1>3, <2>1 DEF MoveInv, StageInv, ArriveInv, Waiting, Here, Follows, Final
  <2>5. blocked'[m] = Stalls(m)' \/ ~Waiting(m)
    BY <1>1, <1>3, <1>4, <2>1 DEF MoveInv, PlaceInv, CountInv, Waiting, Stalls, Follows, Here,
                                  PathTypes
  <2>6. CountInv(m)'
    BY <1>1, <1>3, <2>1, <2>5 DEF MoveInv, StageInv, CountInv, Waiting
  <2> QED
    BY <2>2, <2>3, <2>4, <2>6 DEF MoveInv
<1> QED
  BY <1>5, <1>6, <1>7 DEF ArmInv

\* The arm is held where it is, and the wait of the handle has reached that.
LEMMA HoldStep ==
    ASSUME ArmInv, Hold, Spared, queue' \in Seq(Tasks), TasksFit(queue', worker'),
           stopPc' \in [Stops -> {"new", "queued", "done"}],
           stopped' \in [Moves -> BOOLEAN], pc' \in [Moves -> Steps],
           \A n \in Moves : \/ pc'[n] = pc[n]
                            \/ pc'[n] = "dropped"
                            \/ pc[n] = "fail" /\ pc'[n] = answer[n]
    PROVE  ArmInv'
<1>1. /\ TypeInv /\ SimTypes /\ PathTypes /\ StepTypes /\ NoMove \notin Moves
  BY ArmAssumption DEF ArmInv, TypeInv
<1>2. /\ target' = pos /\ owner' = NoMove /\ alone' \in [Moves -> BOOLEAN]
      /\ \A n \in Moves : alone'[n] => alone[n] /\ pc[n] \notin Active
  BY <1>1, Written DEF Hold
<1>3. UNCHANGED <<pos, callback, worker, answer, blocked, settle, path,
                  at, begun, stalls, aim, track, seen, intrusions, closed, judged, arrived>>
  BY DEF Hold, Spared
<1>4. /\ event' \in [Moves -> Outcomes \cup {"unset"}]
      /\ \A n \in Moves : event'[n] = event[n] \/ (n = settle /\ event'[n] = "reached")
  BY <1>1 DEF Hold, SimTypes, StepTypes, Outcomes
<1>5. TypeInv'
  <2>1. SimTypes'
    BY <1>1, <1>2, <1>3 DEF SimTypes
  <2>2. PathTypes'
    BY <1>1, <1>3 DEF PathTypes
  <2>3. StepTypes'
    BY <1>1, <1>2, <1>3, <1>4 DEF StepTypes
  <2> QED
    BY <2>1, <2>2, <2>3 DEF TypeInv
<1>6. ASSUME NEW n \in Moves PROVE MoveInv(n)'
  <2>1. MoveInv(n)
    BY DEF ArmInv
  <2>2. event'[n] = event[n] \/ (worker[n] \in {"register", "watch"} /\ event'[n] = "reached")
    BY <1>4, <2>1 DEF MoveInv, StageInv
  <2>3. ~alone'[n] \/ (alone[n] /\ pc[n] \notin Active)
    BY <1>2
  <2>4. \/ pc'[n] = pc[n]
        \/ pc'[n] = "dropped"
        \/ pc[n] = "fail" /\ pc'[n] = answer[n] /\ answer[n] \in {"stalled", "timed_out"}
    BY <2>1 DEF MoveInv, AnswerInv
  <2>5. StageInv(n)'
    BY <1>1, <1>2, <1>3, <2>1, <2>4 DEF MoveInv, StageInv, Waiting
  <2>6. AnswerInv(n)'
    BY <1>3, <2>1, <2>2, <2>4 DEF MoveInv, StageInv, AnswerInv, Waiting
  <2>7. PlaceInv(n)'
    BY <1>3, <2>1, <2>4 DEF MoveInv, PlaceInv, Follows, Here
  <2>8. JudgedInv(n)'
    BY <1>3, <2>1, <2>2 DEF MoveInv, JudgedInv
  <2>9. ArriveInv(n)'
    BY <1>3, <2>1, <2>3, <2>4 DEF MoveInv, ArriveInv, Waiting, Active, Awaiting
  <2>10. CountInv(n)'
    BY <1>3, <2>1, <2>4 DEF MoveInv, CountInv, Waiting, Final, Stalls, Follows, Here
  <2> QED
    BY <2>5, <2>6, <2>7, <2>8, <2>9, <2>10 DEF MoveInv
<1> QED
  BY <1>5, <1>6 DEF ArmInv

\* The arm is put where it was sent, or a callback is taken away.
LEMMA OutsideStep ==
    ASSUME ArmInv, Spared, ResetTask \/ ReleaseTask,
           queue' \in Seq(Tasks), TasksFit(queue', worker')
    PROVE  ArmInv'
<1>1. /\ TypeInv /\ SimTypes /\ PathTypes /\ StepTypes /\ NoMove \notin Moves
  BY ArmAssumption DEF ArmInv, TypeInv
<1>2. /\ pos' \in Int /\ callback' \in {callback, NoMove}
      /\ UNCHANGED <<target, pc, worker, event, answer, stopPc, owner, alone, stopped, blocked,
                     settle, path, at, begun, stalls, aim, track, seen, intrusions, closed,
                     judged, arrived>>
  BY <1>1 DEF ResetTask, ReleaseTask, Spared, SimTypes
<1>3. TypeInv'
  <2>1. SimTypes'
    BY <1>1, <1>2 DEF SimTypes
  <2>2. PathTypes'
    BY <1>1, <1>2 DEF PathTypes
  <2>3. StepTypes'
    BY <1>1, <1>2 DEF StepTypes
  <2> QED
    BY <2>1, <2>2, <2>3 DEF TypeInv
<1>4. ASSUME NEW n \in Moves PROVE MoveInv(n)'
  <2>1. Kept(n)
    BY <1>1, <1>2 DEF Kept
  <2> QED
    BY <2>1, KeptMove DEF ArmInv
<1> QED
  BY <1>3, <1>4 DEF ArmInv

\* Every task.
LEMMA TaskStep ==
    ASSUME ArmInv, RunTask
    PROVE  ArmInv'
<1>1. /\ TypeInv /\ SimTypes /\ PathTypes /\ StepTypes
      /\ queue \in Seq(Tasks) /\ worker \in [Moves -> Stages] /\ TasksFit(queue, worker)
  BY DEF ArmInv, TypeInv, SimTypes, StepTypes
<1>2. queue # <<>> /\ queue' = Tail(queue) /\ Spared
  BY DEF RunTask, Spared
<1>3. PICK t \in Tasks : t = Head(queue)
  BY <1>1, <1>2, TaskRun
<1>4. /\ queue' \in Seq(Tasks) /\ TasksFit(queue', worker)
      /\ t.op \in OwnOps =>
           /\ t.who \in Moves /\ worker[t.who] = StageOf(t.op)
           /\ \A v \in Stages : TasksFit(queue', [worker EXCEPT ![t.who] = v])
      /\ t.op \in {"hold", "drop"} => t.who \in Moves
      /\ t.op = "stop" => t.who \in Stops
  BY <1>1, <1>2, <1>3, TaskRun
<1>5. CASE t.op = "set" /\ SetTask(t.who)
  <2>1. /\ t.who \in Moves /\ worker[t.who] = "set"
        /\ worker' = [worker EXCEPT ![t.who] = "done"] /\ TasksFit(queue', worker')
    BY <1>4, <1>5 DEF OwnOps, StageOf, Stages, SetTask, Work
  <2> QED
    BY <1>2, <1>4, <1>5, <2>1, SetStep
<1>6. CASE (t.op = "register" /\ RegisterTask(t.who)) \/ (t.op = "start" /\ StartTask(t.who))
  <2>1. /\ t.who \in Moves /\ worker[t.who] = "register"
        /\ worker' = [worker EXCEPT ![t.who] = "watch"] /\ TasksFit(queue', worker')
    BY <1>4, <1>6 DEF OwnOps, StageOf, Stages, RegisterTask, StartTask, Work
  <2> QED
    BY <1>2, <1>4, <1>6, <2>1, RegisterStep
<1>7. CASE t.op = "remove" /\ RemoveTask(t.who)
  <2>1. /\ t.who \in Moves /\ worker[t.who] = "remove"
        /\ worker' = [worker EXCEPT ![t.who] = "done"] /\ TasksFit(queue', worker')
    BY <1>4, <1>7 DEF OwnOps, StageOf, Stages, RemoveTask, Work
  <2> QED
    BY <1>2, <1>4, <1>7, <2>1, RemoveStep
<1>8. CASE (t.op = "hold" /\ HoldTask(t.who)) \/ (t.op = "drop" /\ DropTask(t.who))
           \/ (t.op = "stop" /\ StopTask(t.who))
  <2>1. Hold
    BY <1>8 DEF HoldTask, DropTask, StopTask
  <2>2. TasksFit(queue', worker')
    BY <1>4, <2>1 DEF Hold
  <2>3. stopPc' \in [Stops -> {"new", "queued", "done"}] /\ stopped' \in [Moves -> BOOLEAN]
    BY <1>1, <1>4, <1>8 DEF HoldTask, DropTask, StopTask, SimTypes, StepTypes
  <2>4. \A n \in Moves : answer[n] \in Steps \cup {"unset", "reached"}
    BY <1>1 DEF StepTypes, Steps, Outcomes
  <2>5. \A n \in Moves : pc[n] = "fail" => answer[n] \in Steps
    BY DEF ArmInv, MoveInv, AnswerInv, Steps
  <2>6. pc' \in [Moves -> Steps]
    BY <1>1, <1>4, <1>8, <2>5 DEF HoldTask, DropTask, StopTask, StepTypes, Goto, Steps
  <2>7. \A n \in Moves : \/ pc'[n] = pc[n]
                         \/ pc'[n] = "dropped"
                         \/ pc[n] = "fail" /\ pc'[n] = answer[n]
    BY <1>1, <1>4, <1>8 DEF HoldTask, DropTask, StopTask, StepTypes, Goto
  <2> QED
    BY <1>2, <1>4, <2>1, <2>2, <2>3, <2>6, <2>7, HoldStep
<1>9. CASE (t.op = "reset" /\ ResetTask) \/ (t.op = "release" /\ ReleaseTask)
  <2>1. TasksFit(queue', worker')
    BY <1>4, <1>9 DEF ResetTask, ReleaseTask
  <2> QED
    BY <1>2, <1>4, <1>9, <2>1, OutsideStep
<1> QED
  BY <1>3, <1>5, <1>6, <1>7, <1>8, <1>9 DEF RunTask
-----------------------------------------------------------------------------
(***************************************************************************)
(* The steps of the world.                                                 *)
(***************************************************************************)
\* What grows by one at most stays below what grows by one.
LEMMA OneMore ==
    ASSUME NEW a \in Nat, NEW b \in Nat, NEW c \in Nat, a <= c, b <= a + 1
    PROVE  b <= c + 1
OBVIOUS

\* A step counts once, and only a step within tolerance counts as within.
LEMMA CountedType ==
    ASSUME NEW t \in Trackers, NEW x \in Int, NEW aimed \in Int, NEW tolerance \in Nat,
           NEW still
    PROVE  LET c == Counted(t, x, aimed, tolerance, still) IN
           /\ c \in Trackers
           /\ c.still <= t.still + 1 /\ Len(c.errors) <= Len(t.errors) + 1
           /\ c.within >= 1 => Distance(x, aimed) <= tolerance
<1>1. Distance(x, aimed) \in Nat
  BY DEF Distance
<1>2. PICK e \in Nat : e = Distance(x, aimed)
  BY <1>1
<1>3. t.within \in Nat /\ t.still \in Nat /\ t.errors \in Seq(Nat)
  BY DEF Trackers
<1>4. PICK s \in Seq(Nat) : s = t.errors
  BY <1>3
<1>5. PICK l \in Nat : l = Len(s)
  OBVIOUS
<1>6. PICK es : es = Append(s, e) /\ es \in Seq(Nat) /\ Len(es) = l + 1
  BY <1>5, AppendProperties
<1>7. es # <<>> /\ Tail(es) \in Seq(Nat) /\ Len(Tail(es)) = l
  BY <1>5, <1>6
<1> DEFINE k == IF Len(es) > ProgressSteps + 1 THEN Tail(es) ELSE es
<1>8. k \in Seq(Nat) /\ Len(k) <= l + 1
  <2>1. k = Tail(es) \/ k = es
    OBVIOUS
  <2> HIDE DEF k
  <2>2. CASE k = Tail(es)
    BY <1>5, <1>7, <2>2
  <2>3. CASE k = es
    BY <1>5, <1>6, <2>3
  <2> QED
    BY <2>1, <2>2, <2>3
<1>9. PICK w \in Nat : /\ w = (IF e <= tolerance THEN t.within + 1 ELSE 0)
                       /\ w >= 1 => e <= tolerance
  BY <1>3
<1>10. PICK u \in Nat : /\ u = (IF still /\ e > tolerance THEN t.still + 1 ELSE 0)
                        /\ u <= t.still + 1
  BY <1>3
<1>11. Counted(t, x, aimed, tolerance, still) = [within |-> w, still |-> u, errors |-> k]
  BY <1>2, <1>4, <1>6, <1>9, <1>10 DEF Counted
<1> HIDE DEF k
<1> QED
  BY <1>2, <1>4, <1>5, <1>8, <1>9, <1>10, <1>11 DEF Trackers

\* A verdict is earned by the counters it is given of.
LEMMA VerdictsEarned ==
    ASSUME NEW t \in Trackers, NEW window \in Nat, NEW closing, NEW v \in Verdicts(t, window, closing)
    PROVE  /\ v \in Outcomes \cup {"unset"}
           /\ v = "reached" => t.within >= window
           /\ v = "stalled" => t.still >= StillSteps \/ Len(t.errors) > ProgressSteps
BY DEF Verdicts, NoProgress, Outcomes

\* The follow goes on to a waypoint of the same run.
LEMMA NextPointStep ==
    ASSUME ArmInv, NEW m \in Moves, callback = m, event[m] = "unset", Follows(m),
           at[m] < RunEnd(path[m], at[m]), NextPoint(m), pos' \in Int,
           UNCHANGED <<callback, queue, settle, path, begun, pc, worker, stalls, aim, answer,
                       seen, envVars, stopped>>
    PROVE  ArmInv'
<1>1. /\ TypeInv /\ SimTypes /\ PathTypes /\ StepTypes /\ MoveInv(m) /\ NoMove \notin Moves
      /\ TasksFit(queue, worker) /\ MaxStalls \in Nat \ {0}
  BY ArmAssumption DEF ArmInv, TypeInv
<1>2. PICK p \in Seq(Points) : p = path[m]
  BY <1>1 DEF PathTypes
<1>3. PICK l \in Nat : l = Len(p)
  OBVIOUS
<1>4. worker[m] \in {"watch", "remove"}
  BY <1>1 DEF MoveInv, StageInv
<1>5. PICK a \in Nat : a = at[m] /\ a \in 1..l /\ begun[m] <= a
  BY <1>1, <1>2, <1>3, <1>4 DEF MoveInv, PlaceInv, PathTypes
<1>6. PICK e : e = RunEnd(p, a) /\ e \in a..l /\ \A k \in a..e : p[k].inserted
  BY <1>2, <1>3, <1>5, RunEndType DEF Follows, Here
<1>7. a + 1 \in 1..l /\ p[a + 1].inserted
  BY <1>2, <1>3, <1>5, <1>6
<1>8. p[a + 1] \in Points /\ p[a + 1].pos \in Int
  <2>1. p[a + 1] \in Points
    BY <1>3, <1>7
  <2> QED
    BY <2>1 DEF Points
<1>9. /\ target' = p[a + 1].pos /\ owner' = m /\ alone' \in [Moves -> BOOLEAN]
      /\ \A n \in Moves : alone'[n] => alone[n] /\ (n = m \/ pc[n] \notin Active)
  BY <1>1, <1>2, <1>5, Written DEF NextPoint
<1>10. /\ at' = [at EXCEPT ![m] = a + 1] /\ track' = [track EXCEPT ![m] = Fresh]
       /\ judged' = [judged EXCEPT ![m] = 0] /\ blocked' = [blocked EXCEPT ![m] = 0]
       /\ UNCHANGED <<event, arrived, callback, queue, settle, path, begun, pc, worker, stalls,
                      aim, answer, seen, stopPc, intrusions, closed, stopped>>
  BY <1>1, <1>5 DEF NextPoint, envVars, PathTypes
<1>11. TypeInv'
  <2>1. SimTypes'
    BY <1>1, <1>8, <1>9, <1>10 DEF SimTypes
  <2>2. judged' \in [Moves -> Nat] /\ blocked' \in [Moves -> Nat] /\ at' \in [Moves -> Nat]
    BY <1>1, <1>10 DEF PathTypes
  <2>3. PathTypes'
    BY <1>1, <1>10, <2>2 DEF PathTypes
  <2>4. Fresh \in Trackers
    BY DEF Fresh, Trackers
  <2>5. StepTypes'
    BY <1>1, <1>9, <1>10, <2>4 DEF StepTypes
  <2> QED
    BY <2>1, <2>3, <2>5 DEF TypeInv
<1>12. ASSUME NEW n \in Moves, n # m PROVE MoveInv(n)'
  <2>1. Kept(n)
    BY <1>1, <1>9, <1>10, <1>12 DEF PathTypes, StepTypes, Kept, Active, Awaiting
  <2> QED
    BY <2>1, KeptMove DEF ArmInv
<1>13. MoveInv(m)'
  <2>1. /\ at'[m] = a + 1 /\ track'[m] = Fresh /\ judged'[m] = 0 /\ blocked'[m] = 0
        /\ event'[m] = "unset"
    BY <1>1, <1>10 DEF PathTypes, StepTypes
  <2>2. Follows(m)'
    BY <1>2, <1>7, <1>10, <2>1 DEF Follows, Here
  <2>3. pc[m] \notin {"set", "wait", "fail", "ok", "stalled", "timed_out"}
    BY <1>1, <1>4 DEF MoveInv, StageInv, PlaceInv
  <2>4. StageInv(m)'
    BY <1>1, <1>4, <1>10, <2>3 DEF MoveInv, StageInv, Waiting
  <2>5. AnswerInv(m)'
    BY <1>1, <1>4, <1>10, <2>3 DEF MoveInv, AnswerInv, Waiting
  <2>6. PlaceInv(m)'
    BY <1>1, <1>2, <1>3, <1>5, <1>7, <1>10, <2>1, <2>2, <2>3 DEF PlaceInv, PathTypes
  <2>7. ArriveInv(m)'
    BY <1>10, <2>1, <2>3 DEF ArriveInv
  <2>8. CountInv(m)'
    <3>1. at'[m] > begun'[m]
      BY <1>1, <1>5, <1>10, <2>1 DEF PathTypes
    <3> QED
      BY <1>1, <1>4, <1>10, <2>1, <2>3, <3>1 DEF CountInv, Waiting
  <2>9. JudgedInv(m)'
    BY <1>1, <2>1 DEF JudgedInv, Fresh
  <2> QED
    BY <2>4, <2>5, <2>6, <2>7, <2>8, <2>9 DEF MoveInv
<1> QED
  BY <1>1, <1>10, <1>11, <1>12, <1>13 DEF ArmInv

\* A step is judged, and decides the wait or not.
LEMMA JudgeStep ==
    ASSUME ArmInv, NEW x \in Int, pos' = x, callback # NoMove, event[callback] = "unset",
           Judge(callback, x),
           UNCHANGED <<callback, queue, settle, path, begun, pc, worker, stalls, aim, answer,
                       seen, envVars, stopped>>
    PROVE  ArmInv'
<1>1. PICK m \in Moves : m = callback
  BY DEF ArmInv, TypeInv, SimTypes
<1>2. /\ TypeInv /\ SimTypes /\ PathTypes /\ StepTypes /\ MoveInv(m) /\ NoMove \notin Moves
      /\ TasksFit(queue, worker) /\ {Window, StillSteps, ProgressSteps} \subseteq Nat \ {0}
      /\ StillSteps <= ProgressSteps + 1 /\ Loose \in Nat
  BY ArmAssumption DEF ArmInv, TypeInv
<1>3. worker[m] \in {"watch", "remove"} /\ Here(m).pos \in Int
  <2>1. worker[m] \in {"watch", "remove"}
    BY <1>1, <1>2 DEF MoveInv, StageInv
  <2> QED
    BY <1>2, <2>1, HereType
<1>4. PICK aimed \in Int : aimed = IF Follows(m) THEN Here(m).pos ELSE aim[m]
  BY <1>2, <1>3 DEF StepTypes
<1>5. PICK tolerance \in Nat : tolerance = Tolerance(m)
  BY <1>2 DEF Tolerance
<1>6. PICK t \in Trackers :
          /\ t = Counted(track[m], x, aimed, tolerance, x = pos)
          /\ t.still <= track[m].still + 1 /\ Len(t.errors) <= Len(track[m].errors) + 1
          /\ t.within >= 1 => Distance(x, aimed) <= tolerance
  <2>1. track[m] \in Trackers
    BY <1>2 DEF StepTypes
  <2> QED
    BY <2>1, CountedType
<1>7. PICK window \in Nat : window >= 1 /\ window = IF Follows(m) THEN 1 ELSE Window
  BY <1>2
<1>8. PICK closing : closing = (Distance(x, aimed) < Distance(pos, aimed))
  OBVIOUS
<1>9. PICK v \in Verdicts(t, window, closing) :
          IF v = "reached" /\ Follows(m) /\ at[m] < RunEnd(path[m], at[m])
            THEN NextPoint(m)
            ELSE /\ event' = [event EXCEPT ![m] = v]
                 /\ track' = [track EXCEPT ![m] = t]
                 /\ judged' = [judged EXCEPT ![m] = IF @ < StillSteps THEN @ + 1 ELSE @]
                 /\ arrived' = [arrived EXCEPT ![m] =
                       v = "reached" /\ at[m] = Final(m) /\ x = Here(m).pos]
                 /\ UNCHANGED <<at, target, owner, alone, blocked>>
  BY <1>1, <1>4, <1>5, <1>6, <1>7, <1>8 DEF Judge
<1>10. /\ v \in Outcomes \cup {"unset"}
       /\ v = "reached" => t.within >= window
       /\ v = "stalled" => t.still >= StillSteps \/ Len(t.errors) > ProgressSteps
  BY VerdictsEarned
<1>11. CASE v = "reached" /\ Follows(m) /\ at[m] < RunEnd(path[m], at[m])
  BY <1>1, <1>9, <1>11, NextPointStep
<1>12. CASE ~(v = "reached" /\ Follows(m) /\ at[m] < RunEnd(path[m], at[m]))
  <2>1. /\ event' = [event EXCEPT ![m] = v] /\ track' = [track EXCEPT ![m] = t]
        /\ judged' = [judged EXCEPT ![m] = IF @ < StillSteps THEN @ + 1 ELSE @]
        /\ arrived' = [arrived EXCEPT ![m] =
                         v = "reached" /\ at[m] = Final(m) /\ x = Here(m).pos]
        /\ UNCHANGED <<at, target, owner, alone, blocked, callback, queue, settle, path, begun,
                       pc, worker, stalls, aim, answer, seen, stopPc, intrusions, closed,
                       stopped>>
    BY <1>9, <1>12 DEF envVars
  <2>2. PICK j \in Nat : j = judged[m]
    BY <1>2 DEF PathTypes
  <2>3. /\ judged'[m] = (IF j < StillSteps THEN j + 1 ELSE j) /\ judged'[m] \in Nat
        /\ event'[m] = v /\ track'[m] = t /\ event[m] = "unset"
        /\ arrived'[m] = (v = "reached" /\ at[m] = Final(m) /\ x = Here(m).pos)
    BY <1>1, <1>2, <2>1, <2>2 DEF PathTypes, StepTypes
  <2>4. TypeInv'
    <3>1. SimTypes'
      BY <1>2, <2>1 DEF SimTypes
    <3>2. judged' \in [Moves -> Nat]
      BY <1>2, <2>1, <2>2, <2>3 DEF PathTypes
    <3>3. PathTypes'
      BY <1>2, <2>1, <3>2 DEF PathTypes
    <3>4. arrived' \in [Moves -> BOOLEAN]
      BY <1>2, <2>1 DEF StepTypes
    <3>5. event' \in [Moves -> Outcomes \cup {"unset"}] /\ track' \in [Moves -> Trackers]
      BY <1>2, <1>6, <1>10, <2>1 DEF StepTypes
    <3>6. StepTypes'
      BY <1>2, <2>1, <3>4, <3>5 DEF StepTypes
    <3> QED
      BY <3>1, <3>3, <3>6 DEF TypeInv
  <2>5. ASSUME NEW n \in Moves, n # m PROVE MoveInv(n)'
    <3>1. Kept(n)
      BY <1>2, <2>1, <2>5 DEF PathTypes, StepTypes, Kept
    <3> QED
      BY <3>1, KeptMove DEF ArmInv
  <2>6. MoveInv(m)'
    <3>1. StageInv(m)'
      BY <1>2, <2>1 DEF MoveInv, StageInv, Waiting
    <3>2. AnswerInv(m)'
      BY <1>2, <1>3, <2>1, <2>3 DEF MoveInv, StageInv, AnswerInv, Waiting
    <3>3. PlaceInv(m)'
      BY <1>2, <2>1 DEF MoveInv, PlaceInv, Follows, Here
    <3>4. CountInv(m)'
      BY <1>2, <1>3, <2>1 DEF MoveInv, StageInv, CountInv, Waiting, Final
    <3>5. ASSUME alone[m], Waiting(m), v = "reached"
          PROVE  /\ Follows(m) => at[m] = RunEnd(path[m], at[m])
                 /\ at[m] = Final(m) => x = Here(m).pos
      <4>1. ASSUME Follows(m) PROVE at[m] = RunEnd(path[m], at[m])
        <5>1. PICK p \in Seq(Points) : p = path[m]
          BY <1>2 DEF PathTypes
        <5>2. PICK l \in Nat : l = Len(p)
          OBVIOUS
        <5>3. PICK a \in Nat : a = at[m] /\ a \in 1..l
          BY <1>2, <1>3, <5>1, <5>2 DEF MoveInv, PlaceInv, PathTypes
        <5>4. PICK e : e = RunEnd(p, a) /\ e \in a..l
          BY <4>1, <5>1, <5>2, <5>3, RunEndType DEF Follows, Here
        <5> QED
          BY <1>12, <3>5, <4>1, <5>1, <5>2, <5>3, <5>4
      <4>2. ASSUME at[m] = Final(m) PROVE x = Here(m).pos
        <5>1. tolerance = 0 /\ t.within \in Nat /\ t.within >= 1
          BY <1>5, <1>6, <1>7, <1>10, <3>5, <4>2 DEF Tolerance, Trackers
        <5>2. Distance(x, aimed) <= 0
          BY <1>6, <5>1
        <5>3. x = aimed
          BY <5>2 DEF Distance
        <5>4. aimed = Here(m).pos
          BY <1>2, <1>4, <3>5 DEF MoveInv, PlaceInv, ArriveInv, Waiting
        <5> QED
          BY <5>3, <5>4
      <4> QED
        BY <4>1, <4>2
    <3>6. ArriveInv(m)'
      BY <1>2, <1>3, <2>1, <2>3, <3>5 DEF MoveInv, StageInv, ArriveInv, Waiting, Follows, Here,
                                          Final
    <3>7. JudgedInv(m)'
      <4>0. /\ t.still \in Nat /\ track[m].still \in Nat
            /\ t.errors \in Seq(Nat) /\ track[m].errors \in Seq(Nat)
        BY <1>2, <1>6 DEF StepTypes, Trackers
      <4>1. /\ t.still \in Nat /\ track[m].still \in Nat
            /\ Len(t.errors) \in Nat /\ Len(track[m].errors) \in Nat
        BY <4>0, LenProperties
      <4>2. j < StillSteps => track[m].still <= j /\ Len(track[m].errors) <= j
        BY <1>2, <2>2 DEF MoveInv, JudgedInv
      <4>3. PICK s1, s2, e1, e2 \in Nat :
                /\ s1 = track[m].still /\ s2 = t.still
                /\ e1 = Len(track[m].errors) /\ e2 = Len(t.errors)
                /\ s2 <= s1 + 1 /\ e2 <= e1 + 1
        BY <1>6, <4>1
      <4>4. PICK j2 \in Nat : j2 = IF j < StillSteps THEN j + 1 ELSE j
        OBVIOUS
      <4>5. PICK ss, ps \in Nat : ss = StillSteps /\ ps = ProgressSteps /\ ss <= ps + 1
        BY <1>2
      <4>6. j < ss => s1 <= j /\ e1 <= j
        BY <4>2, <4>3, <4>5
      <4>7. j2 < ss => s2 <= j2 /\ e2 <= j2
        <5>1. CASE j < ss
          <6>1. j2 = j + 1 /\ s1 <= j /\ e1 <= j
            BY <4>4, <4>5, <4>6, <5>1
          <6>2. s2 <= j + 1 /\ e2 <= j + 1
            BY <2>2, <4>3, <6>1, OneMore
          <6> QED
            BY <6>1, <6>2
        <5>2. CASE ~(j < ss)
          BY <4>4, <4>5, <5>2
        <5> QED
          BY <5>1, <5>2
      <4>8. v = "stalled" => s2 >= ss \/ e2 > ps
        BY <1>10, <4>3, <4>5
      <4>9. v = "stalled" => j2 >= ss
        BY <4>3, <4>4, <4>5, <4>6, <4>8
      <4> QED
        BY <2>2, <2>3, <4>3, <4>4, <4>5, <4>7, <4>9 DEF JudgedInv
    <3> QED
      BY <3>1, <3>2, <3>3, <3>4, <3>6, <3>7 DEF MoveInv
  <2> QED
    BY <1>2, <2>1, <2>4, <2>5, <2>6 DEF ArmInv
<1> QED
  BY <1>11, <1>12

\* Every step of the world.
LEMMA WorldStep ==
    ASSUME ArmInv, PhysicsStep
    PROVE  ArmInv'
<1>1. TypeInv /\ SimTypes /\ PathTypes /\ StepTypes
  BY DEF ArmInv, TypeInv
<1>2. PICK x \in Int :
          /\ pos' = x
          /\ IF callback # NoMove /\ event[callback] = "unset"
               THEN Judge(callback, x)
               ELSE UNCHANGED <<at, target, track, event, owner, alone, blocked, judged, arrived>>
  BY <1>1 DEF PhysicsStep, SimTypes
<1>3. UNCHANGED <<callback, queue, settle, path, begun, pc, worker, stalls, aim, answer, seen,
                  envVars, stopped>>
  BY DEF PhysicsStep
<1>4. CASE callback # NoMove /\ event[callback] = "unset"
  <2>1. Judge(callback, x)
    BY <1>2, <1>4
  <2> QED
    BY <1>2, <1>3, <1>4, <2>1, JudgeStep
<1>5. CASE ~(callback # NoMove /\ event[callback] = "unset")
  <2>1. UNCHANGED <<at, target, track, event, owner, alone, blocked, judged, arrived>>
    BY <1>2, <1>5
  <2>2. SimTypes'
    BY <1>1, <1>2, <1>3, <2>1 DEF SimTypes, envVars
  <2>3. PathTypes'
    BY <1>1, <1>3, <2>1 DEF PathTypes
  <2>4. StepTypes'
    BY <1>1, <1>3, <2>1 DEF StepTypes
  <2>5. ASSUME NEW n \in Moves PROVE MoveInv(n)'
    <3>1. Kept(n)
      BY <1>3, <2>1 DEF Kept
    <3> QED
      BY <3>1, KeptMove DEF ArmInv
  <2>6. TasksFit(queue', worker')
    BY <1>3 DEF ArmInv
  <2> QED
    BY <2>2, <2>3, <2>4, <2>5, <2>6 DEF ArmInv, TypeInv
<1> QED
  BY <1>4, <1>5
-----------------------------------------------------------------------------
(***************************************************************************)
(* The other RPCs, and all together.                                       *)
(***************************************************************************)
\* A stop, a reset and a close only queue their task.
LEMMA OtherCallStep ==
    ASSUME ArmInv, (\E s \in Stops : Stop(s)) \/ Reset \/ Close
    PROVE  ArmInv'
<1>1. /\ TypeInv /\ SimTypes /\ PathTypes /\ StepTypes /\ TasksFit(queue, worker)
      /\ queue \in Seq(Tasks)
  BY DEF ArmInv, TypeInv, SimTypes
<1>2. PICK op, who : /\ queue' = Append(queue, Task(op, who))
                     /\ \/ op = "stop" /\ who \in Stops
                        \/ op \in {"reset", "release"} /\ who = NoMove
  BY DEF Stop, Reset, Close, Queue
<1>3. UNCHANGED <<pos, target, callback, settle, path, at, begun, pc, worker, stalls,
                  aim, track, event, answer, seen,
                  owner, alone, stopped, blocked, judged, arrived>>
  BY DEF Stop, Reset, Close, moveVars, waitVars, history
<1>4. TasksFit(queue', worker') /\ queue' \in Seq(Tasks)
  <2>1. TasksFit(queue', worker) /\ queue' \in Seq(Tasks)
    BY <1>1, <1>2, OtherTaskQueued
  <2> QED
    BY <1>3, <2>1
<1>5. /\ intrusions' \in Nat /\ closed' \in BOOLEAN
      /\ stopPc' \in [Stops -> {"new", "queued", "done"}]
  <2>1. stopPc' = stopPc \/ \E s \in Stops : stopPc' = [stopPc EXCEPT ![s] = "queued"]
    BY DEF Stop, Reset, Close
  <2>2. closed' = closed \/ closed' = TRUE
    BY DEF Stop, Reset, Close
  <2>3. intrusions' = intrusions + 1
    BY DEF Stop, Reset, Close, Intrude
  <2>4. closed' \in BOOLEAN
    BY <1>1, <2>2 DEF SimTypes
  <2>5. intrusions' \in Nat
    BY <1>1, <2>3 DEF SimTypes
  <2>6. stopPc' \in [Stops -> {"new", "queued", "done"}]
    BY <1>1, <2>1 DEF SimTypes
  <2> QED
    BY <2>4, <2>5, <2>6
<1>6. TypeInv'
  <2>1. SimTypes'
    BY <1>1, <1>3, <1>4, <1>5 DEF SimTypes
  <2>2. PathTypes'
    BY <1>1, <1>3 DEF PathTypes
  <2>3. StepTypes'
    BY <1>1, <1>3 DEF StepTypes
  <2> QED
    BY <2>1, <2>2, <2>3 DEF TypeInv
<1>7. ASSUME NEW n \in Moves PROVE MoveInv(n)'
  <2>1. Kept(n)
    BY <1>3 DEF Kept
  <2> QED
    BY <2>1, KeptMove DEF ArmInv
<1> QED
  BY <1>4, <1>6, <1>7 DEF ArmInv

\* No move has begun.
LEMMA ArmInit == Init => ArmInv
<1> SUFFICES ASSUME Init PROVE ArmInv
  OBVIOUS
<1>0. NoMove \notin Moves /\ MaxStalls \in Nat \ {0}
  BY ArmAssumption
<1>1. SimTypes
  <2>1. queue \in Seq(Tasks)
    BY DEF Init
  <2>2. stopPc \in [Stops -> {"new", "queued", "done"}]
    BY DEF Init
  <2>3. closed \in BOOLEAN
    BY DEF Init
  <2>5. pos = 0 /\ target = -1 /\ intrusions = 0
    BY DEF Init
  <2>4. callback = NoMove /\ settle = NoMove /\ owner = NoMove
    BY DEF Init
  <2> QED
    BY <2>1, <2>2, <2>3, <2>4, <2>5 DEF SimTypes
<1>2. PathTypes
  BY DEF Init, PathTypes
<1>3. Fresh \in Trackers
  BY DEF Fresh, Trackers
<1>4. StepTypes
  BY <1>3 DEF Init, StepTypes, Steps, Stages, Outcomes
<1>5. TasksFit(queue, worker)
  BY DEF Init, TasksFit
<1>6. ASSUME NEW m \in Moves PROVE MoveInv(m)
  <2>1. /\ pc[m] = "new" /\ worker[m] = "none" /\ stalls[m] = 0 /\ blocked[m] = 0
        /\ begun[m] = 0 /\ event[m] = "unset" /\ track[m] = Fresh /\ judged[m] = 0
        /\ callback # m /\ settle # m
    BY <1>0 DEF Init
  <2>2. JudgedInv(m)
    BY <2>1 DEF JudgedInv, Fresh
  <2> QED
    BY <2>1, <2>2 DEF MoveInv, StageInv, PlaceInv, AnswerInv, ArriveInv, CountInv, Waiting
<1> QED
  BY <1>1, <1>2, <1>4, <1>5, <1>6 DEF ArmInv, TypeInv

\* The invariant is inductive.
LEMMA ArmStep == ArmInv /\ [Next]_vars => ArmInv'
<1> SUFFICES ASSUME ArmInv, [Next]_vars PROVE ArmInv'
  OBVIOUS
<1>1. ASSUME NEW m \in Moves, Coroutine(m) \/ Thread(m) \/ Drop(m) PROVE ArmInv'
  BY <1>1, BeginStep, StartWaitStep, ReachedStep, MissedStep, ThreadStep, DropStep DEF Coroutine
<1>2. CASE RunTask
  BY <1>2, TaskStep
<1>3. CASE PhysicsStep
  BY <1>3, WorldStep
<1>4. CASE (\E s \in Stops : Stop(s)) \/ Reset \/ Close
  BY <1>4, OtherCallStep
<1>5. CASE UNCHANGED vars
  <2>1. UNCHANGED <<pos, target, callback, queue, settle, path, at, begun, pc, worker, stalls,
                    aim, track, event, answer, seen, stopPc, intrusions, closed,
                    owner, alone, stopped, blocked, judged, arrived>>
    BY <1>5 DEF vars, simVars, moveVars, waitVars, envVars, history
  <2>2. SimTypes'
    BY <2>1 DEF ArmInv, TypeInv, SimTypes
  <2>3. PathTypes'
    BY <2>1 DEF ArmInv, TypeInv, PathTypes
  <2>4. StepTypes'
    BY <2>1 DEF ArmInv, TypeInv, StepTypes
  <2>5. ASSUME NEW n \in Moves PROVE MoveInv(n)'
    <3>1. Kept(n)
      BY <2>1 DEF Kept
    <3> QED
      BY <3>1, KeptMove DEF ArmInv
  <2>6. TasksFit(queue', worker')
    BY <2>1 DEF ArmInv
  <2> QED
    BY <2>2, <2>3, <2>4, <2>5, <2>6 DEF ArmInv, TypeInv
<1> QED
  BY <1>1, <1>2, <1>3, <1>4, <1>5 DEF Next

\* Coroutines, threads, tasks and callbacks of the arm stay in step.
THEOREM ArmStaysInStep == Spec => []ArmInv
<1>1. Init => ArmInv
  BY ArmInit
<1>2. ArmInv /\ [Next]_vars => ArmInv'
  BY ArmStep
<1> QED
  BY <1>1, <1>2, PTL DEF Spec

\* A move that has ended, however it ended and whatever met it, has no callback, no
\* wait and no task of its own left, and one that failed does not own the target.
THEOREM EndedMovesStayGone == Spec => []EndedMovesLeaveNothing
<1>1. ArmInv => EndedMovesLeaveNothing
  <2> SUFFICES ASSUME ArmInv, NEW m \in Moves
               PROVE  /\ callback = m => worker[m] \in {"watch", "remove"}
                      /\ settle = m => worker[m] \in {"register", "watch"}
                      /\ pc[m] \in {"ok", "stalled", "timed_out"} =>
                           /\ worker[m] = "done"
                           /\ \A i \in DOMAIN queue :
                                queue[i].who = m => queue[i].op \in {"hold", "drop"}
                      /\ pc[m] \in {"stalled", "timed_out"} => owner # m
    BY DEF EndedMovesLeaveNothing
  <2>1. StageInv(m)
    BY DEF ArmInv, MoveInv
  <2>2. ASSUME NEW i \in DOMAIN queue, queue[i].who = m, worker[m] = "done"
        PROVE  queue[i].op \in {"hold", "drop"}
    <3>1. queue \in Seq(Tasks) /\ TasksFit(queue, worker)
      BY DEF ArmInv, TypeInv, SimTypes
    <3>2. queue[i] \in Tasks
      BY <3>1
    <3>3. queue[i].op \in Ops
      BY <3>2 DEF Tasks
    <3>4. queue[i].op \notin OwnOps
      BY <2>2, <3>1 DEF TasksFit, StageOf, OwnOps
    <3>5. m \notin Stops /\ m # NoMove
      BY ArmAssumption
    <3> QED
      BY <2>2, <3>1, <3>3, <3>4, <3>5 DEF TasksFit, Ops
  <2> QED
    BY <2>1, <2>2 DEF StageInv
<1> QED
  BY <1>1, ArmStaysInStep, PTL

\* A move that reports success, and was left alone, was at its last waypoint; one
\* that reports a stall met MaxStalls of them in a row or stalled at its last
\* waypoint, each after steps of its own.
THEOREM ReportsStayEarned == Spec => []ReportsAreEarned
<1>1. ArmInv => ReportsAreEarned
  <2> SUFFICES ASSUME ArmInv, NEW m \in Moves
               PROVE  /\ pc[m] = "ok" /\ alone[m] => arrived[m]
                      /\ pc[m] \in Awaiting /\ worker[m] # "done" => blocked[m] < MaxStalls
                      /\ pc[m] = "stalled" => blocked[m] >= MaxStalls \/ at[m] = Final(m)
                      /\ pc[m] = "timed_out" => at[m] = Final(m)
                      /\ event[m] = "stalled" => judged[m] >= StillSteps
    BY DEF ReportsAreEarned, SuccessMeansArrived, StallsAreEarned, StallsAreCounted,
           StallsAreOfThisWaypoint
  <2>1. ArriveInv(m) /\ CountInv(m) /\ JudgedInv(m)
    BY DEF ArmInv, MoveInv
  <2> QED
    BY <2>1 DEF ArriveInv, CountInv, JudgedInv, Awaiting, Waiting
<1> QED
  BY <1>1, ArmStaysInStep, PTL
=============================================================================
