--------------------------- MODULE RegistryProofs ---------------------------
(***************************************************************************)
(* Safety of Registry, for any components and any number of builds, resets *)
(* and faults: the hooks are the live handles', a component can be built   *)
(* again, the scene holds the wrapper that is driven, and what a reset     *)
(* undoes comes back.                                                      *)
(*                                                                         *)
(* RegistryInv is the induction. At most one task besides resets is on its *)
(* way, the one the event loop waits for (QueueInv), and a build in hand   *)
(* has a number and a name that no live handle has (RunningInv), even if   *)
(* its caller has given up; so what it changes is nobody else's. What a    *)
(* reset undid is back or its hook is still to fire (RestoredInv), with    *)
(* the handle that is live. JawInv adds what an arm shares with its jaw,   *)
(* and holds with one jaw on an arm at most.                               *)
(***************************************************************************)
EXTENDS Registry, FiniteSetTheorems, FunctionTheorems, SequenceTheorems, TLAPS

\* The asset of a jaw is referenced under <arm prim>/Gripper, which an arm has once.
OneJawEach == \A i, j \in Jaws : ArmOf[i] = ArmOf[j] => i = j

Made   == {"spawned", "home", "homed"}
Waits  == {"spawn", "home", "release"}
Making == Made \cup {"spawn", "raised"}
KindAt(pc) == CASE pc = "spawn" -> "build" [] pc = "home" -> "home" [] OTHER -> "release"

HookRecords == [owner : Names, id : Ids]
TaskRecords == [kind : {"none", "build", "home", "release", "reset"}, name : Names \cup {NoPose},
                id : Nat, arm : Nat]

Operations  == [pc : Making \cup {"release"}, name : Names, id : Ids]

RegistryTypeInv ==
    /\ handles \in [Names -> Nat] /\ hooks \in Seq(HookRecords)
    /\ loop = Idle \/ loop \in Operations
    /\ queue \in Seq(TaskRecords)
    /\ builds \in 0..MaxBuilds /\ loose \subseteq 1..builds

WorldTypeInv ==
    /\ spawned \subseteq Names
    /\ running \in TaskRecords /\ firing \in Seq(HookRecords)
    /\ art \in [Ids -> Nat] /\ targets \in [Ids -> BOOLEAN]
    /\ gains \in [Ids -> {"none", "stiff", "free"}]
    /\ scene \in [Names -> Nat] /\ callbacks \in [Names -> Nat]
    /\ solver \in [Arms -> BOOLEAN] /\ athome \in [Arms -> BOOLEAN]
    /\ drives \in [Arms -> {"stiff", "free"}]

\* Handles are told apart by their builds, and none is given up while it is live.
HandleInv ==
    /\ \A n \in Names : handles[n] \in 0..builds /\ handles[n] \notin loose
    /\ \A m, n \in Names : handles[m] = handles[n] => m = n \/ ~Live(m)
    /\ \A a \in Arms : Live(a) => a \in spawned
    /\ \A i \in Ids : art[i] # 0 => i <= builds

\* The name and the handle at work on the event loop are nobody else's.
LoopInv ==
    loop # Idle =>
        /\ ~Live(loop.name)
        /\ loop.id \in 1..builds /\ loop.id \notin loose
        /\ \A n \in Names : handles[n] # loop.id
        /\ loop.pc # "release" => /\ loop.id = builds /\ loop.name \notin shut
                                  /\ loop.name \in Grippers => Live(ArmOf[loop.name])
        /\ loop.pc \in {"home", "homed"} => loop.name \in Homed
        /\ loop.pc \in Made /\ loop.name \in Arms => loop.name \in spawned /\ art[loop.id] = loop.id

ResetAsked == Task("reset", NoPose, 0, 0)

\* Task t is the one the event loop waits for at l, with handles h and wrappers w.
AskedBy(t, l, h, w) ==
    /\ l.pc \in Waits
    /\ t.kind = KindAt(l.pc) /\ t.name = l.name /\ t.id = l.id
    /\ t.kind = "build" => w[t.id] = 0 /\ (t.name \in Grippers => t.arm = h[ArmOf[t.name]])
Asked(t) == AskedBy(t, loop, handles, art)

QueueInv ==
    /\ \A i \in DOMAIN queue : queue[i] = ResetAsked \/ Asked(queue[i])
    /\ \A i, j \in DOMAIN queue : queue[i] # ResetAsked /\ queue[j] # ResetAsked => i = j

\* A hook of a is still to fire, and what fires is the live handle's.
ToFire(a) == \E i \in DOMAIN firing : firing[i].owner = a
FiresItself(a) == \A i \in DOMAIN firing : firing[i].owner = a => firing[i].id = handles[a]

\* The build of task t is the sim thread's, perhaps for a caller that has given up.
Begun(t) ==
    /\ t.name \in Names /\ t.id \in 1..builds /\ art[t.id] = 0
    /\ ~Live(t.name) /\ t.name \notin shut
    /\ \A n \in Names : handles[n] # t.id
    /\ loop.pc \in {"idle", "spawn", "release"}
    /\ IF loop.id = t.id THEN loop.pc = "spawn" /\ loop.name = t.name ELSE t.id \in loose
    /\ t.name \in Jaws =>
         /\ t.arm \in 1..builds /\ handles[ArmOf[t.name]] \in {0, t.arm}
         /\ \A n \in Names : handles[n] = t.arm => n = ArmOf[t.name]

\* What the arm a jaw joins gets back from its hook.
ArmReturns(a) ==
    Live(a) => /\ FiresItself(a)
               /\ a \in Homed => athome[a] \/ ToFire(a)

RunningInv ==
    /\ (running = NoTask /\ firing = <<>>) \/ running.kind \in {"build", "reset"}
    /\ running.kind = "build" =>
         /\ Begun(running)
         /\ loop.id = running.id => \A i \in DOMAIN queue : queue[i] = ResetAsked
         /\ running.name \in Jaws => ArmReturns(ArmOf[running.name])

\* What is to be put back of an arm is there, or its hook is still to fire.
LiveRestored ==
    /\ \A a \in Homed : Live(a) => targets[handles[a]]
    /\ \A a \in Arms \ lapsed : Live(a) =>
         /\ solver[a] \/ ToFire(a)
         /\ a \in Homed => athome[a] \/ ToFire(a)
         /\ FiresItself(a)

\* Nor does an arm lack it that is built and has yet to be registered.
BuiltRestored ==
    /\ loop.pc = "homed" => targets[loop.id]
    /\ loop.pc \in Made /\ loop.name \in Arms \ lapsed =>
         /\ solver[loop.name] /\ ~ToFire(loop.name)
         /\ loop.pc = "homed" => athome[loop.name]

RestoredInv == LiveRestored /\ BuiltRestored

\* A jaw whose handle there is or will be.
Fitted(j)  == Live(j) \/ (loop.pc = "spawned" /\ loop.name = j)
HandleOf(j) == IF Live(j) THEN handles[j] ELSE loop.id

\* Both use the same wrapper, if the jaw came last.
Joined(j) == LET a == ArmOf[j] IN
    a \in spawned /\ (Live(a) /\ handles[a] < HandleOf(j) => art[HandleOf(j)] = art[handles[a]])

\* The passive drives are free, or the arm's hook is still to free them.
DrivesFree(j) == LET a == ArmOf[j] IN
    a \notin lapsed =>
        /\ drives[a] = "free" \/ ToFire(a)
        /\ \A i \in DOMAIN firing : firing[i].owner = a => gains[firing[i].id] = "free"
        /\ Live(a) => gains[handles[a]] = "free"

\* So they are for the next reset if the arm is being rebuilt.
RebuiltFree(j) ==
    ArmOf[j] \notin lapsed /\ loop.name = ArmOf[j] /\ loop.pc \in Made => gains[loop.id] = "free"

JawInv == \A j \in Jaws : Fitted(j) => Joined(j) /\ DrivesFree(j) /\ RebuiltFree(j)

\* Whose wrapper the scene may hold under the name of arm a.
Known(a) ==
    {0} \cup loose \cup {art[i] : i \in loose}
        \cup (IF Live(a) THEN {art[handles[a]]} ELSE {})
        \cup (IF loop # Idle /\ loop.name = a THEN {loop.id, art[loop.id]} ELSE {})

SceneInv == \A a \in Arms : scene[a] \in Known(a)

ClashInv ==
    /\ clashed \subseteq torn
    /\ \A n \in Arms \cup Bases :
         n \notin spawned /\ scene[n] # 0 => n \in torn \/ (running.kind = "build" /\ running.name = n)

ShutInv == \A n \in shut : n \in Names /\ ~Live(n) /\ callbacks[n] = 0 /\ scene[n] = 0

RegistryInv ==
    /\ RegistryTypeInv /\ WorldTypeInv /\ HandleInv /\ LoopInv /\ QueueInv /\ RunningInv
    /\ HooksAreTheLiveHandles /\ RestoredInv /\ SceneInv /\ ClashInv /\ ShutInv

-----------------------------------------------------------------------------
(***************************************************************************)
(* What a filter leaves of a sequence.                                     *)
(***************************************************************************)
\* What is kept of s comes from the places K, each once, and nothing is left out.
LEMMA KeptFacts ==
    ASSUME NEW S, NEW s \in Seq(S), NEW K \in SUBSET (DOMAIN s)
    PROVE  /\ Kept(s, K) \in Seq(S)
           /\ \E f \in Bijection(DOMAIN Kept(s, K), K) :
                 \A k \in DOMAIN Kept(s, K) : Kept(s, K)[k] = s[f[k]]
<1> DEFINE Upto(i) == {j \in K : j <= i}
           rank    == [i \in K |-> Cardinality(Upto(i))]
           n       == Cardinality(K)
           f       == [k \in 1..n |-> CHOOSE i \in K : Cardinality(Upto(i)) = k]
<1>1. K \subseteq Nat /\ IsFiniteSet(K) /\ n \in Nat
  <2>1. DOMAIN s = 1..Len(s) /\ Len(s) \in Nat
    OBVIOUS
  <2>2. IsFiniteSet(1..Len(s))
    BY <2>1, FS_Interval
  <2>3. IsFiniteSet(K)
    BY <2>1, <2>2, FS_Subset
  <2> QED
    BY <2>1, <2>3, FS_CardinalityType
<1>2. ASSUME NEW i \in K
      PROVE  /\ IsFiniteSet(Upto(i)) /\ Cardinality(Upto(i)) \in Nat
             /\ Cardinality(Upto(i)) \in 1..n
  <2>1. IsFiniteSet(Upto(i)) /\ Cardinality(Upto(i)) <= n
    BY <1>1, FS_Subset
  <2>2. Cardinality(Upto(i)) \in Nat
    BY <2>1, FS_CardinalityType
  <2>3. i \in Upto(i)
    BY <1>1
  <2>4. Cardinality(Upto(i)) # 0
    BY <2>1, <2>3, FS_EmptySet
  <2> QED
    BY <1>1, <2>1, <2>2, <2>4
<1>3. ASSUME NEW i \in K, NEW j \in K, i < j
      PROVE  rank[i] # rank[j]
  <2>1. Upto(i) \subseteq Upto(j) /\ j \in Upto(j) /\ j \notin Upto(i)
    BY <1>1, <1>3
  <2>2. IsFiniteSet(Upto(j)) /\ (Cardinality(Upto(j)) = Cardinality(Upto(i)) => Upto(j) = Upto(i))
    BY <1>2, <2>1, FS_Subset
  <2> QED
    BY <2>1, <2>2
<1>0. \A i \in K : rank[i] = Cardinality(Upto(i))
  OBVIOUS
<1> HIDE DEF rank, Upto
<1>4. rank \in [K -> 1..n]
  BY <1>2 DEF rank
<1>5. rank \in Injection(K, 1..n)
  <2>1. ASSUME NEW i \in K, NEW j \in K, rank[i] = rank[j] PROVE i = j
    BY <1>1, <1>3, <2>1
  <2> QED
    BY <1>4, <2>1, Fun_IsInj
<1>6. \A k \in 1..n : \E i \in K : rank[i] = k
  <2>1. IsFiniteSet(1..n) /\ Cardinality(1..n) = n
    BY <1>1, FS_Interval
  <2>2. rank \in Surjection(K, 1..n)
    BY <1>5, <2>1, FS_Injection
  <2> QED
    BY <2>2 DEF Surjection
<1>7. \A k \in 1..n : f[k] \in K /\ rank[f[k]] = k
  BY <1>0, <1>6
<1>8. \A i \in K : rank[i] \in 1..n /\ f[rank[i]] = i
  BY <1>4, <1>5, <1>7 DEF Injection, IsInjective
<1> HIDE DEF n
<1>9. f \in Bijection(1..n, K)
  <2>1. f \in [1..n -> K]
    BY <1>7
  <2> HIDE DEF f
  <2>2. f \in Injection(1..n, K)
    BY <1>7, <2>1, Fun_IsInj
  <2>3. f \in Surjection(1..n, K)
    BY <1>8, <2>1, Fun_IsSurj
  <2> QED
    BY <2>2, <2>3 DEF Bijection
<1>10. Kept(s, K) = [k \in 1..n |-> s[f[k]]]
  BY DEF Kept, n, Upto
<1> HIDE DEF f
<1>11. \A k \in 1..n : s[f[k]] \in S
  BY <1>7
<1>12. Kept(s, K) \in Seq(S)
  BY <1>1, <1>10, <1>11
<1>13. DOMAIN Kept(s, K) = 1..n /\ \A k \in 1..n : Kept(s, K)[k] = s[f[k]]
  BY <1>10
<1> QED
  BY <1>9, <1>12, <1>13

\* As facts about elements: those at the places K, and no others, each as often.
LEMMA KeptElements ==
    ASSUME NEW S, NEW s \in Seq(S), NEW K \in SUBSET (DOMAIN s)
    PROVE  /\ Kept(s, K) \in Seq(S)
           /\ \A k \in DOMAIN Kept(s, K) : \E i \in K : Kept(s, K)[k] = s[i]
           /\ \A i \in K : \E k \in DOMAIN Kept(s, K) : Kept(s, K)[k] = s[i]
           /\ \A k, l \in DOMAIN Kept(s, K) : k # l =>
                 \E i, j \in K : i # j /\ Kept(s, K)[k] = s[i] /\ Kept(s, K)[l] = s[j]
<1>1. PICK f \in Bijection(DOMAIN Kept(s, K), K) :
             \A k \in DOMAIN Kept(s, K) : Kept(s, K)[k] = s[f[k]]
  BY KeptFacts
<1>2. /\ f \in [DOMAIN Kept(s, K) -> K]
      /\ \A k, l \in DOMAIN Kept(s, K) : f[k] = f[l] => k = l
      /\ \A i \in K : \E k \in DOMAIN Kept(s, K) : f[k] = i
  BY DEF Bijection, Injection, Surjection, IsInjective
<1> QED
  BY <1>1, <1>2, KeptFacts

-----------------------------------------------------------------------------
(***************************************************************************)
(* The first state, and what is common to the steps.                       *)
(***************************************************************************)
LEMMA InitRegistryInv == Init => RegistryInv
<1> SUFFICES ASSUME Init PROVE RegistryInv
  OBVIOUS
<1>1. RegistryTypeInv /\ WorldTypeInv
  BY RegistryAssumption DEF Init, RegistryTypeInv, WorldTypeInv, NoTask, Idle, TaskRecords, Ids
<1>2. HandleInv /\ HooksAreTheLiveHandles
  BY DEF Init, HandleInv, HooksAreTheLiveHandles, Live, Names, Hooked, Ids
<1>3. LoopInv /\ QueueInv /\ RunningInv
  BY DEF Init, LoopInv, QueueInv, RunningInv, Idle, NoTask
<1>5. RestoredInv
  BY RegistryAssumption DEF Init, RestoredInv, LiveRestored, BuiltRestored, Idle, Live, Made, Names
<1>4. SceneInv /\ ClashInv /\ ShutInv
  BY DEF Init, SceneInv, ClashInv, ShutInv, Known, Live, Names
<1> QED
  BY <1>1, <1>2, <1>3, <1>4, <1>5 DEF RegistryInv

\* A task taken from the queue is a reset, or the one the event loop waits for, which
\* leaves only resets.
LEMMA TakenTask ==
    ASSUME RegistryInv, NEW kind, Takes(kind)
    PROVE  /\ Next1 \in TaskRecords /\ Next1.kind = kind
           /\ queue' \in Seq(TaskRecords)
           /\ running = NoTask /\ firing = <<>>
           /\ \A i \in DOMAIN queue' : i + 1 \in DOMAIN queue /\ queue'[i] = queue[i + 1]
           /\ kind = "reset" => Next1 = ResetAsked
           /\ kind # "reset" => Asked(Next1) /\ \A i \in DOMAIN queue' : queue'[i] = ResetAsked
<1>1. queue \in Seq(TaskRecords) /\ queue # <<>> /\ queue' = Tail(queue) /\ running = NoTask
  BY DEF RegistryInv, RegistryTypeInv, Takes
<1>2. Next1 = queue[1] /\ 1 \in DOMAIN queue /\ Next1 \in TaskRecords /\ queue' \in Seq(TaskRecords)
  BY <1>1 DEF Next1
<1>3. \A i \in DOMAIN queue' : i + 1 \in DOMAIN queue /\ queue'[i] = queue[i + 1] /\ i + 1 # 1
  BY <1>1
<1>4. Next1.kind = kind
  BY DEF Takes
<1>5. firing = <<>>
  BY <1>1 DEF RegistryInv, RunningInv, NoTask
<1>6. Next1 = ResetAsked \/ Asked(Next1)
  BY <1>2 DEF RegistryInv, QueueInv
<1>7. ResetAsked.kind = "reset"
  BY DEF ResetAsked, Task
<1>8. kind # "reset" => \A i \in DOMAIN queue' : queue'[i] = ResetAsked
  BY <1>2, <1>3, <1>4, <1>7 DEF RegistryInv, QueueInv
<1>9. Asked(Next1) => kind # "reset"
  BY <1>4 DEF Asked, AskedBy, KindAt
<1> QED
  BY <1>1, <1>2, <1>3, <1>4, <1>5, <1>6, <1>7, <1>8, <1>9

\* A build that is taken from the queue.
LEMMA TakenBuild ==
    ASSUME RegistryInv, Takes("build")
    PROVE  /\ Begun(Next1) /\ loop.id = Next1.id
           /\ loop.name \in Grippers => Live(ArmOf[loop.name]) /\ Next1.arm = handles[ArmOf[loop.name]]
<1>1. Asked(Next1) /\ Next1.kind = "build"
  BY TakenTask
<1>2. loop.pc = "spawn" /\ Next1.name = loop.name /\ Next1.id = loop.id
  BY <1>1 DEF Asked, AskedBy, KindAt, Waits
<1>3. loop # Idle /\ loop.pc # "release" /\ loop.name \in Names
  BY <1>2 DEF Idle, RegistryInv, RegistryTypeInv, Operations
<1>4. /\ art[Next1.id] = 0
      /\ Next1.name \in Grippers => Next1.arm = handles[ArmOf[Next1.name]]
  BY <1>1 DEF Asked, AskedBy
<1>5. loop.name \in Grippers => Live(ArmOf[loop.name])
  BY <1>3 DEF RegistryInv, LoopInv
<1>6. Next1.name \in Jaws => Next1.arm \in 1..builds
  <2> SUFFICES ASSUME Next1.name \in Jaws PROVE Next1.arm \in 1..builds
    OBVIOUS
  <2>1. ArmOf[Next1.name] \in Names /\ Next1.name \in Grippers
    BY RegistryAssumption DEF Grippers, Names
  <2>2. Next1.arm \in 0..builds /\ Next1.arm # 0
    BY <1>2, <1>4, <1>5, <2>1 DEF RegistryInv, HandleInv, Live
  <2> QED
    BY <2>2
<1>9. Next1.name \in Jaws => \A n \in Names : handles[n] = Next1.arm => n = ArmOf[Next1.name]
  BY <1>2, <1>4, <1>5, RegistryAssumption DEF RegistryInv, HandleInv, Live, Grippers, Names
<1>7. Begun(Next1)
  BY <1>2, <1>3, <1>4, <1>6, <1>9 DEF Begun, RegistryInv, LoopInv, Grippers
<1> QED
  BY <1>2, <1>4, <1>5, <1>7

\* What the event loop hears of a build.
LEMMA AnswerToBuild ==
    ASSUME RegistryInv, NEW t, Begun(t), NEW pc \in {"raised", "spawned"}, Answer(t, pc)
    PROVE  \/ /\ loop.id = t.id /\ loop.pc = "spawn" /\ loop.name = t.name
              /\ loop' = [pc |-> pc, name |-> t.name, id |-> t.id]
           \/ /\ loop.id # t.id /\ t.id \in loose /\ loop.pc \in {"idle", "spawn", "release"}
              /\ UNCHANGED loop
<1>1. CASE loop.id = t.id
  <2>1. loop.pc = "spawn" /\ loop.name = t.name /\ loop # Idle
    BY <1>1 DEF Begun, Idle
  <2>2. loop \in Operations
    BY <2>1 DEF RegistryInv, RegistryTypeInv
  <2>3. loop' = [loop EXCEPT !.pc = pc]
    BY <1>1, <2>1 DEF Answer
  <2> QED
    BY <1>1, <2>1, <2>2, <2>3 DEF Operations
<1>2. CASE loop.id # t.id
  BY <1>2 DEF Answer, Begun
<1> QED
  BY <1>1, <1>2

\* What it hears of another task.
LEMMA AnswerToTask ==
    ASSUME RegistryInv, NEW t, Asked(t), NEW pc \in {"idle", "homed"}, Answer(t, pc)
    PROVE  /\ pc = "idle" => loop' = Idle
           /\ pc = "homed" => loop' = [pc |-> "homed", name |-> loop.name, id |-> loop.id]
<1>1. loop.pc \in Waits /\ loop.id = t.id
  BY DEF Asked, AskedBy
<1>2. loop # Idle
  BY <1>1 DEF Waits, Idle
<1>3. loop \in Operations
  BY <1>2 DEF RegistryInv, RegistryTypeInv
<1>4. loop' = IF pc = "idle" THEN Idle ELSE [loop EXCEPT !.pc = pc]
  BY <1>1 DEF Answer, Waits
<1> QED
  BY <1>3, <1>4 DEF Operations

\* The sim thread registers nothing.
LEMMA SimThreadFrame ==
    ASSUME SimThread
    PROVE  UNCHANGED <<handles, hooks, builds, loose>>
BY DEF SimThread, FireHook, SpawnFirst, Reattach, SpawnEnds, JawJoins, JawEnds, CupRig, CupEnds,
       CameraBuilds, HomeTask, ReleaseTask, ResetTask, ResetEnds, manager, bounds, history

EventLoop ==
    \/ \E n \in Names, p \in Poses : Reconfigure(n, p) \/ Build(n, p)
    \/ \E n \in Names : Close(n)
    \/ Home \/ Register \/ Fails \/ TimeOut \/ ResetVerb \/ BecomeReady

\* The event loop does nothing to the world.
LEMMA EventLoopFrame ==
    ASSUME EventLoop
    PROVE  UNCHANGED <<spawned, art, gains, targets, scene, callbacks, solver, drives, athome,
                       running, firing, lapsed, torn, clashed>>
BY DEF EventLoop, Reconfigure, Build, Close, Home, Register, Fails, TimeOut, ResetVerb, BecomeReady,
       manager, objects, isaac, threads, history

-----------------------------------------------------------------------------
(***************************************************************************)
(* The induction: one lemma per part of RegistryInv, one step per action   *)
(* that can disturb it.                                                    *)
(***************************************************************************)
\* The names of the components are told apart by what they name.
LEMMA NamesFacts ==
    /\ Arms \subseteq Names /\ Jaws \subseteq Names /\ Cups \subseteq Names /\ Bases \subseteq Names
    /\ Jaws \subseteq Grippers /\ Grippers \subseteq Names /\ Homed \subseteq Arms
    /\ \A g \in Grippers : ArmOf[g] \in Arms
    /\ Arms \cap Jaws = {} /\ Arms \cap Cups = {} /\ Arms \cap Bases = {} /\ Arms \cap Cameras = {}
    /\ Jaws \cap Cups = {} /\ Jaws \cap Bases = {} /\ Jaws \cap Cameras = {}
    /\ Arms \cap Grippers = {}
    /\ MaxBuilds \in Nat /\ Ids = 1..MaxBuilds
BY RegistryAssumption DEF Names, Grippers, Ids

\* The task of a sim thread's step comes from the queue, and the event loop hears
\* of it or not.
LEMMA SimThreadTakes ==
    ASSUME SimThread
    PROVE  /\ UNCHANGED queue \/ \E kind : Takes(kind)
           /\ \/ UNCHANGED loop
              \/ \E t, pc : pc \in {"idle", "raised", "spawned", "homed"} /\ Answer(t, pc)
BY DEF SimThread, FireHook, SpawnFirst, Reattach, SpawnEnds, JawJoins, JawEnds, CupRig, CupEnds,
   CameraBuilds, HomeTask, ReleaseTask, ResetTask, ResetEnds, Wraps, TakesBuild, threads

\* What the event loop and the registry hold keeps its types.
LEMMA TypeStep == RegistryInv /\ [Next]_vars => RegistryTypeInv'
<1> SUFFICES ASSUME RegistryInv, [Next]_vars PROVE RegistryTypeInv'
  OBVIOUS
<1> USE NamesFacts DEF RegistryTypeInv
<1>0. RegistryTypeInv
  BY DEF RegistryInv
<1>1. CASE UNCHANGED vars \/ BecomeReady \/ \E n \in Names, p \in Poses : Reconfigure(n, p)
  <2>1. UNCHANGED <<handles, hooks, loop, queue, builds, loose>>
    BY <1>1 DEF Reconfigure, BecomeReady, vars, manager, threads, bounds, history
  <2> QED
    BY <1>0, <2>1 DEF Idle
<1>2. ASSUME NEW n \in Names, NEW p \in Poses, Build(n, p) PROVE RegistryTypeInv'
  <2>1. PICK new \in Ids : builds' = new /\ new = builds + 1
    BY <1>0, <1>2 DEF Build
  <2>2. /\ loop' = [pc |-> "spawn", name |-> n, id |-> new]
        /\ UNCHANGED <<handles, hooks, loose>>
    BY <1>2, <2>1 DEF Build, manager
  <2>3. Task("build", n, new, IF n \in Grippers THEN handles[ArmOf[n]] ELSE 0) \in TaskRecords
    BY <1>0, <2>1 DEF Task, TaskRecords
  <2>4. queue' \in Seq(TaskRecords)
    BY <1>0, <1>2, <2>1, <2>3 DEF Build
  <2>5. loop' \in Operations /\ loose \subseteq 1..new
    BY <1>0, <2>1, <2>2 DEF Operations, Making
  <2> QED
    BY <1>0, <2>1, <2>2, <2>4, <2>5
<1>3. ASSUME NEW n \in Names, Close(n) PROVE RegistryTypeInv'
  <2>1. /\ handles' = [handles EXCEPT ![n] = 0] /\ hooks' = HooksWithout(n)
        /\ loose' = IF ready THEN loose ELSE loose \cup {handles[n]}
        /\ UNCHANGED builds
    BY <1>3 DEF Close, bounds
  <2>2. handles[n] \in 1..builds /\ handles[n] \in Ids
    BY <1>0, <1>3 DEF RegistryInv, HandleInv, Close
  <2>3. hooks' \in Seq(HookRecords)
    BY <1>0, <2>1, KeptElements DEF HooksWithout
  <2>4. Task("release", n, handles[n], 0) \in TaskRecords
    BY <2>2 DEF Task, TaskRecords
  <2>5. \/ UNCHANGED <<loop, queue>> /\ loop = Idle
        \/ /\ queue' = Append(queue, Task("release", n, handles[n], 0))
           /\ loop' = [pc |-> "release", name |-> n, id |-> handles[n]]
    BY <1>3 DEF Close
  <2>6. queue' \in Seq(TaskRecords)
    <3>1. CASE UNCHANGED queue
      BY <1>0, <3>1
    <3>2. CASE queue' = Append(queue, Task("release", n, handles[n], 0))
      BY <1>0, <2>4, <3>2
    <3> QED
      BY <2>5, <3>1, <3>2
  <2>7. loop' = Idle \/ loop' \in Operations
    BY <2>2, <2>5 DEF Operations
  <2> QED
    BY <1>0, <2>1, <2>2, <2>3, <2>6, <2>7
<1>4. CASE Home
  <2>1. loop \in Operations /\ loop.name \in Names /\ loop.id \in Ids
    BY <1>0, <1>4 DEF Home, Idle, Operations
  <2>2. Task("home", loop.name, loop.id, 0) \in TaskRecords
    BY <2>1 DEF Task, TaskRecords
  <2>3. queue' \in Seq(TaskRecords)
    BY <1>0, <1>4, <2>2 DEF Home
  <2>4. loop' \in Operations
    BY <1>4, <2>1 DEF Home, Operations, Making, Made
  <2> QED
    BY <1>0, <1>4, <2>3, <2>4 DEF Home, manager, bounds, history
<1>5. CASE Register
  <2>1. loop \in Operations /\ loop.name \in Names /\ loop.id \in Ids
    BY <1>0, <1>5 DEF Register, Idle, Operations
  <2>2. [owner |-> loop.name, id |-> loop.id] \in HookRecords
    BY <2>1 DEF HookRecords
  <2>3. hooks' \in Seq(HookRecords)
    BY <1>0, <1>5, <2>2 DEF Register, HooksWith
  <2> QED
    BY <1>0, <1>5, <2>1, <2>3 DEF Register, bounds, history
<1>6. CASE Fails \/ TimeOut
  <2>1. loop # Idle /\ loop.id \in 1..builds
    BY <1>6 DEF Fails, TimeOut, RegistryInv, LoopInv, Idle
  <2>2. queue' \in Seq(TaskRecords)
    BY <1>0, <1>6, KeptElements DEF TimeOut, Fails
  <2>3. loop' = Idle /\ loose' = loose \cup {loop.id} /\ UNCHANGED <<handles, hooks, builds>>
    BY <1>6 DEF TimeOut, Fails, manager, bounds
  <2> QED
    BY <1>0, <2>1, <2>2, <2>3
<1>7. CASE ResetVerb
  <2>1. ResetAsked \in TaskRecords
    BY DEF ResetAsked, Task, TaskRecords
  <2>2. queue' \in Seq(TaskRecords)
    BY <1>0, <1>7, <2>1 DEF ResetVerb, ResetAsked
  <2> QED
    BY <1>0, <1>7, <2>2 DEF ResetVerb, manager, history, Idle
<1>8. CASE SimThread
  <2>1. UNCHANGED <<handles, hooks, builds, loose>>
    BY <1>8, SimThreadFrame
  <2>2. queue' \in Seq(TaskRecords)
    BY <1>0, <1>8, SimThreadTakes, TakenTask
  <2>3. ASSUME NEW t, NEW pc \in {"idle", "raised", "spawned", "homed"}, Answer(t, pc)
        PROVE  loop' = Idle \/ loop' \in Operations
    <3>1. CASE UNCHANGED loop
      BY <1>0, <3>1
    <3>2. CASE loop' = Idle
      BY <3>2
    <3>3. CASE loop' = [loop EXCEPT !.pc = pc] /\ pc # "idle" /\ loop.pc \in Waits
      <4>1. loop \in Operations
        BY <1>0, <3>3 DEF Idle, Waits
      <4> QED
        BY <3>3, <4>1 DEF Operations, Making, Made
    <3> QED
      BY <2>3, <3>1, <3>2, <3>3 DEF Answer, Waits
  <2>4. loop' = Idle \/ loop' \in Operations
    BY <1>0, <1>8, <2>3, SimThreadTakes
  <2> QED
    BY <1>0, <2>1, <2>2, <2>4
<1> QED
  BY <1>1, <1>2, <1>3, <1>4, <1>5, <1>6, <1>7, <1>8 DEF Next

\* A build in hand has a name and a number.
LEMMA BegunTypes ==
    ASSUME RegistryInv, NEW t, Begun(t)
    PROVE  t.name \in Names /\ t.id \in Ids
BY NamesFacts DEF Begun, RegistryInv, RegistryTypeInv

\* Isaac puts back what is authored, whether the reset comes through or not.
LEMMA UndoneTypes ==
    ASSUME Undone
    PROVE  /\ solver' \in [Arms -> BOOLEAN] /\ athome' \in [Arms -> BOOLEAN]
           /\ drives' \in [Arms -> {"stiff", "free"}]
BY DEF Undone

\* So does what the sim thread and Isaac hold.
LEMMA WorldTypeStep == RegistryInv /\ [Next]_vars => WorldTypeInv'
<1> SUFFICES ASSUME RegistryInv, [Next]_vars PROVE WorldTypeInv'
  OBVIOUS
<1> USE NamesFacts DEF WorldTypeInv
<1>0. WorldTypeInv /\ RegistryTypeInv
  BY DEF RegistryInv
<1>1. CASE EventLoop \/ UNCHANGED vars
  BY <1>0, <1>1, EventLoopFrame DEF vars, manager, objects, isaac, threads, history
<1>2. CASE FireHook
  <2>1. firing' \in Seq(HookRecords) /\ Head(firing) \in HookRecords
    BY <1>0, <1>2 DEF FireHook
  <2>2. Head(firing).id \in Ids
    BY <2>1 DEF HookRecords
  <2>3. /\ solver' \in [Arms -> BOOLEAN] /\ athome' \in [Arms -> BOOLEAN]
        /\ drives' \in [Arms -> {"stiff", "free"}]
    <3>1. CASE Head(firing).owner \in Arms
      <4>1. gains[Head(firing).id] \in {"none", "stiff", "free"} /\ targets[Head(firing).id] \in BOOLEAN
        BY <1>0, <2>2
      <4>2. PICK d \in {"stiff", "free"} : drives' = [drives EXCEPT ![Head(firing).owner] = d]
        BY <1>0, <1>2, <3>1, <4>1 DEF FireHook
      <4>3. PICK h \in BOOLEAN : athome' = [athome EXCEPT ![Head(firing).owner] = h]
        BY <1>0, <1>2, <3>1, <4>1 DEF FireHook
      <4>4. solver' = [solver EXCEPT ![Head(firing).owner] = TRUE]
        BY <1>2, <3>1 DEF FireHook
      <4> QED
        BY <1>0, <3>1, <4>2, <4>3, <4>4
    <3>2. CASE Head(firing).owner \notin Arms
      BY <1>0, <1>2, <3>2 DEF FireHook
    <3> QED
      BY <3>1, <3>2
  <2> QED
    BY <1>0, <1>2, <2>1, <2>3 DEF FireHook, manager, objects
<1>3. CASE SpawnFirst
  <2>1. Begun(Next1) /\ Next1 \in TaskRecords /\ Next1.name \in Names /\ Next1.id \in Ids
    BY <1>3, TakenTask, TakenBuild, BegunTypes DEF SpawnFirst, TakesBuild
  <2>2. /\ scene' \in [Names -> Nat] /\ running' \in TaskRecords /\ firing' \in Seq(HookRecords)
        /\ UNCHANGED <<spawned, objects, callbacks>>
    <3>1. /\ UNCHANGED scene \/ scene' = [scene EXCEPT ![Next1.name] = Next1.id]
          /\ UNCHANGED running \/ running' = Next1
          /\ UNCHANGED firing \/ firing' = hooks
          /\ UNCHANGED <<spawned, objects, callbacks>>
      BY <1>3 DEF SpawnFirst, ResetWorld, manager, isaac
    <3>2. Next1.id \in Nat
      BY <2>1
    <3>3. scene' \in [Names -> Nat]
      BY <1>0, <3>1, <3>2
    <3> QED
      BY <1>0, <2>1, <3>1, <3>3 DEF RegistryTypeInv
  <2>3. /\ solver' \in [Arms -> BOOLEAN] /\ athome' \in [Arms -> BOOLEAN]
        /\ drives' \in [Arms -> {"stiff", "free"}]
    BY <1>0, <1>3, UndoneTypes DEF SpawnFirst, ResetWorld, ResetRaises, isaac
  <2> QED
    BY <1>0, <2>2, <2>3 DEF objects
<1>4. ASSUME NEW t, Begun(t), Wraps(t), UNCHANGED <<scene, athome, firing>>, running' \in {running, NoTask}
      PROVE  WorldTypeInv'
  <2>1. t.name \in Names /\ t.id \in Ids
    BY <1>4, BegunTypes
  <2>2. spawned' = spawned \cup {t.name} /\ (Handle(t) \/ UNCHANGED <<objects, solver, callbacks, drives>>)
    BY <1>4 DEF Wraps
  <2>3. /\ art' \in [Ids -> Nat] /\ gains' \in [Ids -> {"none", "stiff", "free"}]
        /\ targets' \in [Ids -> BOOLEAN]
        /\ solver' \in [Arms -> BOOLEAN] /\ drives' \in [Arms -> {"stiff", "free"}]
        /\ callbacks' \in [Names -> Nat]
    <3>1. CASE UNCHANGED <<objects, solver, callbacks, drives>>
      BY <1>0, <3>1 DEF objects
    <3>2. CASE Handle(t) /\ t.name \in Arms
      <4>1. /\ art' = [art EXCEPT ![t.id] = t.id] /\ gains' = [gains EXCEPT ![t.id] = drives[t.name]]
            /\ solver' = [solver EXCEPT ![t.name] = TRUE]
            /\ UNCHANGED <<targets, callbacks, drives>>
        BY <3>2 DEF Handle
      <4>2. drives[t.name] \in {"none", "stiff", "free"} /\ t.id \in Nat
        BY <1>0, <2>1, <3>2
      <4> QED
        BY <1>0, <2>1, <4>1, <4>2
    <3>3. CASE Handle(t) /\ t.name \notin Arms
      <4>1. PICK i \in Nat : callbacks' = [callbacks EXCEPT ![t.name] = i]
        BY <1>0, <2>1, <3>3 DEF Handle
      <4> QED
        BY <1>0, <2>1, <3>3, <4>1 DEF Handle, objects
    <3> QED
      BY <2>2, <3>1, <3>2, <3>3
  <2>4. NoTask \in TaskRecords
    BY DEF NoTask, TaskRecords
  <2> QED
    BY <1>0, <1>4, <2>1, <2>2, <2>3, <2>4
<1>5. CASE Reattach
  <2>1. Begun(Next1)
    BY <1>5, TakenBuild DEF Reattach, TakesBuild
  <2> QED
    BY <1>4, <1>5, <2>1 DEF Reattach
<1>6. CASE SpawnEnds
  <2>1. Begun(running)
    BY <1>6 DEF SpawnEnds, RegistryInv, RunningInv
  <2> QED
    BY <1>4, <1>6, <2>1 DEF SpawnEnds
<1>7. CASE JawJoins
  <2>1. /\ Begun(Next1) /\ Next1 \in TaskRecords /\ Next1.name \in Jaws
        /\ Next1.id \in Ids /\ ArmOf[Next1.name] \in Names
    BY <1>7, TakenTask, TakenBuild, BegunTypes DEF JawJoins, TakesBuild
  <2>2. /\ art' \in [Ids -> Nat] /\ gains' \in [Ids -> {"none", "stiff", "free"}]
        /\ scene' \in [Names -> Nat] /\ running' \in TaskRecords /\ firing' \in Seq(HookRecords)
        /\ UNCHANGED <<spawned, targets, callbacks>>
    <3>1. /\ UNCHANGED scene \/ scene' = [scene EXCEPT ![ArmOf[Next1.name]] = Next1.id]
          /\ UNCHANGED art \/ art' = [art EXCEPT ![Next1.arm] = Next1.id]
          /\ UNCHANGED gains \/ gains' = [gains EXCEPT ![Next1.arm] = "none"]
          /\ UNCHANGED running \/ running' = Next1
          /\ UNCHANGED firing \/ firing' = hooks
          /\ UNCHANGED <<spawned, targets, callbacks>>
      BY <1>7 DEF JawJoins, Replaced, ResetWorld, manager, objects, isaac
    <3>2. Next1.id \in Nat
      BY <2>1
    <3>3. scene' \in [Names -> Nat]
      BY <1>0, <2>1, <3>1, <3>2
    <3>4. art' \in [Ids -> Nat]
      BY <1>0, <3>1, <3>2
    <3>5. gains' \in [Ids -> {"none", "stiff", "free"}]
      BY <1>0, <3>1
    <3> QED
      BY <1>0, <2>1, <3>1, <3>3, <3>4, <3>5 DEF RegistryTypeInv
  <2>3. /\ solver' \in [Arms -> BOOLEAN] /\ athome' \in [Arms -> BOOLEAN]
        /\ drives' \in [Arms -> {"stiff", "free"}]
    BY <1>0, <1>7, UndoneTypes DEF JawJoins, ResetWorld, ResetRaises, isaac
  <2> QED
    BY <1>0, <2>2, <2>3
<1>8. CASE JawEnds
  <2>1. /\ Begun(running) /\ running.name \in Jaws
        /\ running.id \in Ids /\ running.arm \in Ids /\ ArmOf[running.name] \in Arms
    <3>1. Begun(running) /\ running.name \in Jaws
      BY <1>8 DEF JawEnds, RegistryInv, RunningInv
    <3>2. running.arm \in 1..builds
      BY <3>1 DEF Begun
    <3> QED
      BY <1>0, <3>1, <3>2, BegunTypes DEF RegistryTypeInv
  <2>2. /\ art' \in [Ids -> Nat] /\ gains' \in [Ids -> {"none", "stiff", "free"}]
        /\ solver' \in [Arms -> BOOLEAN] /\ drives' \in [Arms -> {"stiff", "free"}]
    <3>1. /\ UNCHANGED art \/ art' = [art EXCEPT ![running.id] = art[running.arm]]
          /\ UNCHANGED gains \/ gains' = [gains EXCEPT ![running.arm] = "free"]
          /\ UNCHANGED solver \/ solver' = [solver EXCEPT ![ArmOf[running.name]] = TRUE]
          /\ UNCHANGED drives \/ drives' = [drives EXCEPT ![ArmOf[running.name]] = "free"]
      BY <1>8 DEF JawEnds, GainsRetaken, DrivesReleased
    <3>2. art[running.arm] \in Nat
      BY <1>0, <2>1
    <3>3. art' \in [Ids -> Nat]
      BY <1>0, <3>1, <3>2
    <3>4. gains' \in [Ids -> {"none", "stiff", "free"}]
      BY <1>0, <3>1
    <3>5. solver' \in [Arms -> BOOLEAN] /\ drives' \in [Arms -> {"stiff", "free"}]
      BY <1>0, <3>1
    <3> QED
      BY <3>3, <3>4, <3>5
  <2>3. running' \in TaskRecords
    BY <1>8 DEF JawEnds, NoTask, TaskRecords
  <2> QED
    BY <1>0, <1>8, <2>2, <2>3 DEF JawEnds, manager
<1>9. CASE CupRig
  <2>1. running' \in TaskRecords /\ firing' \in Seq(HookRecords)
    <3>1. Next1 \in TaskRecords
      BY <1>9, TakenTask DEF CupRig, TakesBuild
    <3>2. /\ UNCHANGED running \/ running' = Next1
          /\ UNCHANGED firing \/ firing' = hooks
      BY <1>9 DEF CupRig, ResetWorld
    <3> QED
      BY <1>0, <3>1, <3>2 DEF RegistryTypeInv
  <2>2. /\ solver' \in [Arms -> BOOLEAN] /\ athome' \in [Arms -> BOOLEAN]
        /\ drives' \in [Arms -> {"stiff", "free"}]
    BY <1>0, <1>9, UndoneTypes DEF CupRig, ResetWorld, ResetRaises
  <2> QED
    BY <1>0, <1>9, <2>1, <2>2 DEF CupRig, manager, objects
<1>10. CASE CupEnds
  <2>1. PICK t : /\ Begun(t) /\ running' \in {running, NoTask}
                 /\ callbacks' = [callbacks EXCEPT ![t.name] = t.id]
    <3>1. CASE running.kind = "build" /\ running' = NoTask
                 /\ callbacks' = [callbacks EXCEPT ![running.name] = running.id]
      BY <3>1 DEF RegistryInv, RunningInv
    <3>2. CASE TakesBuild(Cups) /\ UNCHANGED running
                 /\ callbacks' = [callbacks EXCEPT ![Next1.name] = Next1.id]
      BY <3>2, TakenBuild DEF TakesBuild
    <3> QED
      BY <1>10, <3>1, <3>2 DEF CupEnds
  <2>2. callbacks' \in [Names -> Nat] /\ running' \in TaskRecords
    BY <1>0, <2>1, BegunTypes DEF NoTask, TaskRecords
  <2> QED
    BY <1>0, <1>10, <2>2 DEF CupEnds, manager, objects
<1>11. CASE CameraBuilds
  BY <1>0, <1>11 DEF CameraBuilds, manager, objects
<1>12. CASE HomeTask
  <2>1. Next1 \in TaskRecords /\ Asked(Next1) /\ Next1.kind = "home"
    BY <1>12, TakenTask DEF HomeTask
  <2>2. loop.pc = "home" /\ Next1.name = loop.name /\ Next1.id = loop.id
    BY <2>1 DEF Asked, AskedBy, KindAt, Waits
  <2>3. loop.name \in Homed /\ loop.id \in Ids
    BY <1>0, <2>2 DEF RegistryInv, LoopInv, Idle, RegistryTypeInv, Operations
  <2> QED
    BY <1>0, <1>12, <2>2, <2>3 DEF HomeTask, manager
<1>13. CASE ReleaseTask
  <2>1. Next1 \in TaskRecords /\ Asked(Next1)
    BY <1>13, TakenTask DEF ReleaseTask
  <2>2. Next1.name \in Names
    BY <1>0, <2>1 DEF Asked, AskedBy, Waits, Idle, RegistryTypeInv, Operations
  <2> QED
    BY <1>0, <1>13, <2>2 DEF ReleaseTask, Releases, manager, objects
<1>14. CASE ResetTask
  <2>1. running' \in TaskRecords /\ firing' \in Seq(HookRecords)
    BY <1>0, <1>14, TakenTask DEF ResetTask, ResetWorld, RegistryTypeInv
  <2> QED
    BY <1>0, <1>14, <2>1, UndoneTypes DEF ResetTask, ResetWorld, manager, objects
<1>15. CASE ResetEnds
  <2>1. NoTask \in TaskRecords
    BY DEF NoTask, TaskRecords
  <2> QED
    BY <1>0, <1>15, <2>1 DEF ResetEnds, manager, objects, isaac
<1> QED
  BY <1>1, <1>2, <1>3, <1>5, <1>6, <1>7, <1>8, <1>9, <1>10, <1>11, <1>12, <1>13, <1>14, <1>15
     DEF Next, EventLoop, SimThread

\* What the event loop's operation becomes in a step of the sim thread.
LEMMA SimThreadLoop ==
    ASSUME RegistryInv, SimThread
    PROVE  \/ UNCHANGED loop
           \/ \E pc \in {"raised", "spawned"} :
                 loop.pc = "spawn" /\ loop' = [pc |-> pc, name |-> loop.name, id |-> loop.id]
           \/ loop.pc = "release" /\ loop' = Idle
           \/ loop.pc = "home" /\ loop' = [pc |-> "homed", name |-> loop.name, id |-> loop.id]
<1>1. ASSUME NEW t, Begun(t), NEW pc \in {"raised", "spawned"}, Answer(t, pc)
      PROVE  \/ UNCHANGED loop
             \/ loop.pc = "spawn" /\ loop' = [pc |-> pc, name |-> loop.name, id |-> loop.id]
  BY <1>1, AnswerToBuild
<1>2. CASE FireHook \/ ResetTask \/ ResetEnds
  BY <1>2 DEF FireHook, ResetTask, ResetEnds
<1>3. CASE SpawnFirst \/ JawJoins \/ CupRig \/ CameraBuilds
  <2>1. Takes("build")
    BY <1>3 DEF SpawnFirst, JawJoins, CupRig, CameraBuilds, TakesBuild
  <2>2. Begun(Next1)
    BY <2>1, TakenBuild
  <2>3. UNCHANGED loop \/ Answer(Next1, "raised") \/ Answer(Next1, "spawned")
    BY <1>3 DEF SpawnFirst, JawJoins, CupRig, CameraBuilds
  <2> QED
    BY <1>1, <2>2, <2>3
<1>4. CASE SpawnEnds \/ JawEnds
  <2>1. Begun(running)
    BY <1>4 DEF SpawnEnds, JawEnds, RegistryInv, RunningInv
  <2>2. Answer(running, "raised") \/ Answer(running, "spawned")
    BY <1>4 DEF SpawnEnds, JawEnds, Wraps
  <2> QED
    BY <1>1, <2>1, <2>2
<1>5. CASE Reattach
  <2>1. Begun(Next1)
    BY <1>5, TakenBuild DEF Reattach, TakesBuild
  <2>2. Answer(Next1, "raised") \/ Answer(Next1, "spawned")
    BY <1>5 DEF Reattach, Wraps
  <2> QED
    BY <1>1, <2>1, <2>2
<1>6. CASE CupEnds
  <2>1. CASE running.kind = "build" /\ Answer(running, "spawned")
    BY <1>1, <2>1 DEF RegistryInv, RunningInv
  <2>2. CASE TakesBuild(Cups) /\ Answer(Next1, "spawned")
    BY <1>1, <2>2, TakenBuild DEF TakesBuild
  <2> QED
    BY <1>6, <2>1, <2>2 DEF CupEnds
<1>7. CASE HomeTask
  <2>1. Asked(Next1) /\ Next1.kind = "home" /\ Answer(Next1, "homed")
    BY <1>7, TakenTask DEF HomeTask
  <2>2. loop.pc = "home"
    BY <2>1 DEF Asked, AskedBy, KindAt, Waits
  <2> QED
    BY <2>1, <2>2, AnswerToTask
<1>8. CASE ReleaseTask
  <2>1. Asked(Next1) /\ Next1.kind = "release" /\ Answer(Next1, "idle")
    BY <1>8, TakenTask DEF ReleaseTask
  <2>2. loop.pc = "release"
    BY <2>1 DEF Asked, AskedBy, KindAt, Waits
  <2> QED
    BY <2>1, <2>2, AnswerToTask
<1> QED
  BY <1>2, <1>3, <1>4, <1>5, <1>6, <1>7, <1>8 DEF SimThread

\* Which wrapper a step of the sim thread changes: the one of the build in hand, or
\* of the arm its jaw joins.
LEMMA SimThreadArt ==
    ASSUME RegistryInv, SimThread
    PROVE  \/ UNCHANGED art
           \/ \E t, w : /\ Begun(t) /\ art' = [art EXCEPT ![t.id] = w]
                        /\ \/ running.kind = "build" /\ t = running
                           \/ Takes("build") /\ t = Next1
           \/ JawJoins /\ art' = [art EXCEPT ![Next1.arm] = Next1.id]
<1>1. ASSUME NEW t, Wraps(t)
      PROVE  UNCHANGED art \/ art' = [art EXCEPT ![t.id] = t.id]
  BY <1>1 DEF Wraps, Handle, objects
<1>2. CASE SpawnEnds
  <2>1. Begun(running) /\ running.kind = "build"
    BY <1>2 DEF SpawnEnds, RegistryInv, RunningInv
  <2> QED
    BY <1>1, <1>2, <2>1 DEF SpawnEnds
<1>3. CASE Reattach
  <2>1. Begun(Next1)
    BY <1>3, TakenBuild DEF Reattach, TakesBuild
  <2> QED
    BY <1>1, <1>3, <2>1 DEF Reattach, TakesBuild
<1>4. CASE JawEnds
  <2>1. Begun(running) /\ running.kind = "build"
    BY <1>4 DEF JawEnds, RegistryInv, RunningInv
  <2>2. UNCHANGED art \/ art' = [art EXCEPT ![running.id] = art[running.arm]]
    BY <1>4 DEF JawEnds
  <2> QED
    BY <2>1, <2>2
<1>5. CASE JawJoins
  BY <1>5 DEF JawJoins, Replaced, objects
<1>6. CASE \/ FireHook \/ SpawnFirst \/ CupRig \/ CupEnds \/ CameraBuilds \/ HomeTask
           \/ ReleaseTask \/ ResetTask \/ ResetEnds
  BY <1>6 DEF FireHook, SpawnFirst, CupRig, CupEnds, CameraBuilds, HomeTask, ReleaseTask, ResetTask,
              ResetEnds, objects
<1> QED
  BY <1>2, <1>3, <1>4, <1>5, <1>6 DEF SimThread

\* What is spawned stays spawned.
LEMMA SpawnedStays ==
    ASSUME SimThread PROVE spawned \subseteq spawned'
BY DEF SimThread, FireHook, SpawnFirst, Reattach, SpawnEnds, JawJoins, JawEnds, CupRig, CupEnds,
       CameraBuilds, HomeTask, ReleaseTask, ResetTask, ResetEnds, manager, Wraps

\* Handles stay apart: a build takes a new number, and what is given up is not live.
LEMMA HandleStep == RegistryInv /\ WorldTypeInv' /\ [Next]_vars => HandleInv'
<1> SUFFICES ASSUME RegistryInv, WorldTypeInv', [Next]_vars PROVE HandleInv'
  OBVIOUS
<1> USE NamesFacts DEF HandleInv, Live
<1>0. RegistryTypeInv /\ HandleInv
  BY DEF RegistryInv
<1>1. CASE UNCHANGED <<handles, builds, loose, spawned, art>>
  BY <1>0, <1>1
<1>2. ASSUME NEW n \in Names, NEW p \in Poses, Build(n, p) PROVE HandleInv'
  <2>1. PICK new \in Nat : builds' = new /\ new = builds + 1
    BY <1>0, <1>2 DEF Build, RegistryTypeInv
  <2>2. UNCHANGED <<handles, loose, spawned, art>>
    BY <1>2 DEF Build, manager, objects
  <2>3. builds \in Nat /\ \A n1 \in Names : handles[n1] \in Nat
    BY <1>0 DEF RegistryTypeInv
  <2>4. \A n1 \in Names : handles[n1] \in 0..new
    BY <1>0, <2>1, <2>3
  <2>5. \A i \in Ids : art[i] # 0 => i <= new
    BY <1>0, <2>1, <2>3
  <2> QED
    BY <1>0, <2>1, <2>2, <2>4, <2>5
<1>3. ASSUME NEW n \in Names, Close(n) PROVE HandleInv'
  <2>1. /\ handles' = [handles EXCEPT ![n] = 0]
        /\ loose' \subseteq loose \cup {handles[n]} /\ UNCHANGED <<builds, spawned, art>>
        /\ handles[n] # 0
    BY <1>3 DEF Close, bounds, objects
  <2>2. handles' \in [Names -> Nat] /\ handles'[n] = 0 /\ \A m \in Names : m # n => handles'[m] = handles[m]
    BY <1>0, <2>1 DEF RegistryTypeInv
  <2>3. 0 \notin loose' /\ \A m \in Names : m # n => handles[m] \notin loose'
    BY <1>0, <2>1 DEF RegistryTypeInv
  <2>4. \A m \in Names : handles'[m] \in 0..builds
    BY <1>0, <2>2 DEF RegistryTypeInv
  <2> QED
    BY <1>0, <2>1, <2>2, <2>3, <2>4
<1>4. CASE Register
  <2>1. loop \in Operations /\ loop.id \in 1..builds /\ loop.id \notin loose
        /\ \A n \in Names : handles[n] # loop.id
    BY <1>0, <1>4 DEF Register, Idle, RegistryTypeInv, RegistryInv, LoopInv
  <2>2. handles' = [handles EXCEPT ![loop.name] = loop.id] /\ UNCHANGED <<builds, loose, spawned, art>>
    BY <1>4 DEF Register, bounds, history, objects
  <2>3. loop.name \in Arms => loop.name \in spawned
    BY <1>4 DEF Register, Idle, RegistryInv, LoopInv, Made
  <2>4. loop.name \in Names
    BY <2>1 DEF Operations
  <2>5. /\ handles'[loop.name] = loop.id
        /\ \A m \in Names : m # loop.name => handles'[m] = handles[m]
    BY <1>0, <2>2, <2>4 DEF RegistryTypeInv
  <2> QED
    BY <1>0, <2>1, <2>2, <2>3, <2>4, <2>5
<1>5. CASE Fails \/ TimeOut
  <2>1. loop # Idle /\ \A n \in Names : handles[n] # loop.id
    BY <1>5 DEF Fails, TimeOut, Idle, RegistryInv, LoopInv
  <2>2. loose' = loose \cup {loop.id} /\ UNCHANGED <<handles, builds, spawned, art>>
    BY <1>5 DEF Fails, TimeOut, manager, bounds, objects
  <2> QED
    BY <1>0, <2>1, <2>2
<1>6. CASE SimThread
  <2>1. UNCHANGED <<handles, builds, loose>> /\ spawned \subseteq spawned'
    BY <1>6, SimThreadFrame, SpawnedStays
  <2>2. \A i \in Ids : art'[i] # art[i] => i \in 1..builds
    <3>1. CASE UNCHANGED art
      BY <3>1
    <3>2. ASSUME NEW t, NEW w, Begun(t), art' = [art EXCEPT ![t.id] = w]
          PROVE  \A i \in Ids : art'[i] # art[i] => i \in 1..builds
      BY <3>2, <1>0 DEF Begun, RegistryInv, WorldTypeInv
    <3>3. CASE JawJoins /\ art' = [art EXCEPT ![Next1.arm] = Next1.id]
      <4>1. Begun(Next1) /\ Next1.name \in Jaws
        BY <3>3, TakenBuild DEF JawJoins, TakesBuild
      <4>2. Next1.arm \in 1..builds
        BY <4>1 DEF Begun
      <4> QED
        BY <3>3, <4>2 DEF RegistryInv, WorldTypeInv
    <3> QED
      BY <1>6, <3>1, <3>2, <3>3, SimThreadArt
  <2>3. \A i \in Ids : art'[i] # 0 => i <= builds
    BY <1>0, <2>2 DEF RegistryTypeInv
  <2> QED
    BY <1>0, <2>1, <2>3
<1> QED
  <2>1. CASE \/ \E n \in Names, p \in Poses : Reconfigure(n, p)
             \/ Home \/ ResetVerb \/ BecomeReady \/ UNCHANGED vars
    <3>1. UNCHANGED <<handles, builds, loose, spawned, art>>
      BY <2>1 DEF Reconfigure, Home, ResetVerb, BecomeReady, vars, manager, bounds, history, objects
    <3> QED
      BY <1>1, <3>1
  <2> QED
    BY <2>1, <1>2, <1>3, <1>4, <1>5, <1>6 DEF Next

\* While the event loop is past its build's answer no wrapper changes.
LEMMA ArtIsLeft ==
    ASSUME RegistryInv, SimThread, loop.pc \notin {"idle", "spawn", "release"}
    PROVE  UNCHANGED art
<1>1. \A t : ~Begun(t)
  BY DEF Begun
<1>2. ~JawJoins
  BY <1>1, TakenBuild DEF JawJoins, TakesBuild
<1> QED
  BY <1>1, <1>2, SimThreadArt

\* The answer that an arm's prim is spawned: its handle has been built.
LEMMA ArmSpawned ==
    ASSUME RegistryInv, WorldTypeInv', SimThread,
           loop.pc = "spawn", loop'.pc = "spawned", loop.name \in Arms
    PROVE  /\ loop.name \in spawned' /\ art'[loop.id] = loop.id /\ solver'[loop.name]
           /\ gains'[loop.id] = drives[loop.name]
           /\ firing = <<>> /\ UNCHANGED <<firing, drives, lapsed>>
<1> USE NamesFacts
<1>1. ASSUME NEW t, Begun(t), Wraps(t)
      PROVE  /\ loop.name \in spawned' /\ art'[loop.id] = loop.id /\ solver'[loop.name]
             /\ gains'[loop.id] = drives[loop.name] /\ UNCHANGED drives
  <2>1. PICK pc \in {"raised", "spawned"} :
              Answer(t, pc) /\ spawned' = spawned \cup {t.name} /\ (pc = "spawned" => Handle(t))
    BY <1>1 DEF Wraps
  <2>2. pc = "spawned" /\ loop.id = t.id /\ loop.name = t.name
    BY <1>1, <2>1, AnswerToBuild
  <2>3. /\ art' = [art EXCEPT ![t.id] = t.id] /\ gains' = [gains EXCEPT ![t.id] = drives[t.name]]
        /\ solver' = [solver EXCEPT ![t.name] = TRUE] /\ UNCHANGED drives
    BY <2>1, <2>2 DEF Handle
  <2>4. t.id \in Ids /\ art \in [Ids -> Nat] /\ gains \in [Ids -> {"none", "stiff", "free"}]
        /\ solver \in [Arms -> BOOLEAN]
    BY <1>1, BegunTypes DEF RegistryInv, WorldTypeInv
  <2> QED
    BY <2>1, <2>2, <2>3, <2>4
<1>2. CASE SpawnEnds
  <2>1. Begun(running)
    BY <1>2 DEF SpawnEnds, RegistryInv, RunningInv
  <2> QED
    BY <1>1, <1>2, <2>1 DEF SpawnEnds, history
<1>3. CASE Reattach
  <2>1. Begun(Next1) /\ firing = <<>>
    BY <1>3, TakenBuild, TakenTask DEF Reattach, TakesBuild
  <2> QED
    BY <1>1, <1>3, <2>1 DEF Reattach, history
<1>4. CASE FireHook \/ ResetTask \/ ResetEnds
  BY <1>4 DEF FireHook, ResetTask, ResetEnds
<1>5. CASE SpawnFirst
  <2>1. Begun(Next1) /\ (Answer(Next1, "raised") \/ UNCHANGED loop)
    BY <1>5, TakenBuild DEF SpawnFirst, TakesBuild
  <2> QED
    BY <2>1, AnswerToBuild
<1>6. CASE JawJoins \/ CupRig \/ CameraBuilds \/ (TakesBuild(Cups) /\ CupEnds)
  <2>1. Takes("build") /\ Next1.name \notin Arms
    BY <1>6 DEF JawJoins, CupRig, CameraBuilds, TakesBuild
  <2>2. Begun(Next1) /\ loop.id = Next1.id
    BY <2>1, TakenBuild
  <2>3. Next1.name = loop.name
    BY <2>2 DEF Begun
  <2> QED
    BY <2>1, <2>3
<1>7. CASE JawEnds \/ (running.kind = "build" /\ running.name \in Cups /\ Answer(running, "spawned"))
  <2>1. Begun(running) /\ running.name \notin Arms
    BY <1>7 DEF JawEnds, RegistryInv, RunningInv
  <2>2. Answer(running, "raised") \/ Answer(running, "spawned")
    BY <1>7 DEF JawEnds
  <2>3. UNCHANGED loop \/ loop.name = running.name
    BY <2>1, <2>2, AnswerToBuild
  <2> QED
    BY <2>1, <2>3
<1>8. CASE HomeTask \/ ReleaseTask
  <2>1. Asked(Next1) /\ Next1.kind \in {"home", "release"}
    BY <1>8, TakenTask DEF HomeTask, ReleaseTask
  <2> QED
    BY <2>1 DEF Asked, AskedBy, KindAt, Waits
<1>9. CASE CupEnds
  BY <1>6, <1>7, <1>9 DEF CupEnds
<1> QED
  BY <1>2, <1>3, <1>4, <1>5, <1>6, <1>7, <1>8, <1>9 DEF SimThread

\* Releasing is the only step that shuts a component.
LEMMA ShutGrows ==
    ASSUME RegistryInv, SimThread
    PROVE  UNCHANGED shut \/ (ReleaseTask /\ loop' = Idle)
<1>1. CASE ReleaseTask
  <2>1. Asked(Next1) /\ Answer(Next1, "idle")
    BY <1>1, TakenTask DEF ReleaseTask
  <2> QED
    BY <1>1, <2>1, AnswerToTask
<1>2. CASE ~ReleaseTask
  BY <1>2 DEF SimThread, FireHook, SpawnFirst, Reattach, SpawnEnds, JawJoins, JawEnds, CupRig,
              CupEnds, CameraBuilds, HomeTask, ResetTask, ResetEnds, history
<1> QED
  BY <1>1, <1>2

\* The event loop works on a name and a number that no live handle has.
LEMMA LoopStep == RegistryInv /\ WorldTypeInv' /\ [Next]_vars => LoopInv'
<1> SUFFICES ASSUME RegistryInv, WorldTypeInv', [Next]_vars PROVE LoopInv'
  OBVIOUS
<1> USE NamesFacts
<1>0. RegistryTypeInv /\ HandleInv /\ LoopInv
  BY DEF RegistryInv
<1>1. CASE UNCHANGED vars \/ ResetVerb \/ BecomeReady \/ \E n \in Names, p \in Poses : Reconfigure(n, p)
  <2>1. UNCHANGED <<handles, loop, builds, loose, shut, spawned, art>>
    BY <1>1 DEF Reconfigure, ResetVerb, BecomeReady, vars, manager, objects, threads, bounds, history
  <2> QED
    BY <1>0, <2>1 DEF LoopInv, Live
<1>2. ASSUME NEW n \in Names, NEW p \in Poses, Build(n, p) PROVE LoopInv'
  <2>1. PICK new \in Nat : builds' = new /\ new = builds + 1
    BY <1>0, <1>2 DEF Build, RegistryTypeInv
  <2>2. /\ loop' = [pc |-> "spawn", name |-> n, id |-> new] /\ shut' = shut \ {n}
        /\ handles[n] = 0 /\ (n \in Grippers => handles[ArmOf[n]] # 0)
        /\ UNCHANGED <<handles, loose>>
    BY <1>2, <2>1 DEF Build, manager
  <2>3. new \in 1..new /\ new \notin loose /\ \A m \in Names : handles[m] # new
    BY <1>0, <2>1 DEF RegistryTypeInv, HandleInv
  <2> QED
    BY <2>1, <2>2, <2>3 DEF LoopInv, Live, Made
<1>3. ASSUME NEW n \in Names, Close(n) PROVE LoopInv'
  <2>1. /\ handles' = [handles EXCEPT ![n] = 0] /\ handles[n] # 0 /\ UNCHANGED builds
    BY <1>3 DEF Close, bounds
  <2>2. CASE loop' = [pc |-> "release", name |-> n, id |-> handles[n]] /\ UNCHANGED loose
    <3>1. handles[n] \in 1..builds /\ handles[n] \notin loose
      BY <1>0, <2>1 DEF HandleInv, RegistryTypeInv
    <3>2. \A m \in Names : handles'[m] # handles[n] /\ handles'[n] = 0
      BY <1>0, <2>1 DEF HandleInv, RegistryTypeInv, Live
    <3> QED
      BY <2>1, <2>2, <3>1, <3>2 DEF LoopInv, Live, Made
  <2>3. CASE loop' = Idle
    BY <2>3 DEF LoopInv
  <2> QED
    BY <1>3, <2>2, <2>3 DEF Close
<1>4. CASE Home
  <2>1. loop \in Operations /\ loop.pc = "spawned" /\ loop.name \in Homed
        /\ loop' = [pc |-> "home", name |-> loop.name, id |-> loop.id]
        /\ UNCHANGED <<handles, builds, loose, shut, spawned, art>>
    BY <1>0, <1>4 DEF Home, Idle, RegistryTypeInv, Operations, manager, bounds, history, objects
  <2> QED
    BY <1>0, <2>1 DEF LoopInv, Live, Made, Idle
<1>5. CASE Register \/ Fails \/ TimeOut
  BY <1>5 DEF Register, Fails, TimeOut, LoopInv
<1>6. CASE SimThread
  <2>1. UNCHANGED <<handles, builds, loose>> /\ spawned \subseteq spawned'
    BY <1>6, SimThreadFrame, SpawnedStays
  <2>2. SUFFICES ASSUME loop' # Idle PROVE LoopInv'
    BY DEF LoopInv
  <2>3. UNCHANGED shut /\ loop # Idle
    BY <1>6, <2>2, ShutGrows, SimThreadLoop DEF Idle
  <2>4. CASE UNCHANGED loop
    <3>1. loop.pc \in Made => UNCHANGED art
      BY <1>6, ArtIsLeft DEF Made
    <3> QED
      BY <1>0, <2>1, <2>3, <2>4, <3>1 DEF LoopInv, Live
  <2>5. ASSUME NEW pc \in {"raised", "spawned"}, loop.pc = "spawn",
               loop' = [pc |-> pc, name |-> loop.name, id |-> loop.id]
        PROVE  LoopInv'
    <3>1. pc = "spawned" /\ loop.name \in Arms => loop.name \in spawned' /\ art'[loop.id] = loop.id
      BY <1>6, <2>5, ArmSpawned
    <3>2. loop'.pc = pc /\ loop'.name = loop.name /\ loop'.id = loop.id /\ pc \notin {"home", "homed"}
          /\ pc # "release" /\ (pc \in Made => pc = "spawned")
      BY <2>5 DEF Made
    <3> QED
      BY <1>0, <2>1, <2>3, <2>5, <3>1, <3>2 DEF LoopInv, Live
  <2>6. CASE loop.pc = "home" /\ loop' = [pc |-> "homed", name |-> loop.name, id |-> loop.id]
    <3>1. UNCHANGED art
      BY <1>6, <2>6, ArtIsLeft
    <3>2. loop'.pc = "homed" /\ loop'.name = loop.name /\ loop'.id = loop.id
      BY <2>6
    <3> QED
      BY <1>0, <2>1, <2>3, <2>6, <3>1, <3>2 DEF LoopInv, Live, Made
  <2> QED
    BY <1>6, <2>2, <2>4, <2>5, <2>6, SimThreadLoop
<1> QED
  BY <1>1, <1>2, <1>3, <1>4, <1>5, <1>6 DEF Next

\* While the event loop does not wait, only resets are queued.
LEMMA OnlyResetsQueued ==
    ASSUME RegistryInv, loop.pc \notin Waits
    PROVE  \A i \in DOMAIN queue : queue[i] = ResetAsked
BY DEF RegistryInv, QueueInv, Asked, AskedBy

\* A task appended to resets is the only one of its kind.
LEMMA AppendedTask ==
    ASSUME queue \in Seq(TaskRecords), \A i \in DOMAIN queue : queue[i] = ResetAsked,
           NEW t, queue' = Append(queue, t), t = ResetAsked \/ AskedBy(t, loop', handles', art')
    PROVE  QueueInv'
<1>1. PICK len \in Nat : len = Len(queue)
  OBVIOUS
<1>2. DOMAIN queue = 1..len /\ DOMAIN queue' = 1..(len + 1)
  BY <1>1
<1>3. queue'[len + 1] = t /\ \A i \in DOMAIN queue' : i # len + 1 => queue'[i] = ResetAsked
  BY <1>1, <1>2
<1>4. \A i \in DOMAIN queue' : queue'[i] = ResetAsked \/ AskedBy(queue'[i], loop', handles', art')
  BY <1>3
<1> QED
  BY <1>3, <1>4 DEF QueueInv, Asked

\* Nothing but resets is queued besides the task the event loop waits for.
LEMMA QueueStep == RegistryInv /\ RegistryTypeInv' /\ WorldTypeInv' /\ [Next]_vars => QueueInv'
<1> SUFFICES ASSUME RegistryInv, RegistryTypeInv', WorldTypeInv', [Next]_vars PROVE QueueInv'
  OBVIOUS
<1> USE NamesFacts
<1>0. RegistryTypeInv /\ HandleInv /\ QueueInv
  BY DEF RegistryInv
<1>1. CASE UNCHANGED vars \/ BecomeReady \/ \E n \in Names, p \in Poses : Reconfigure(n, p)
  <2>1. UNCHANGED <<handles, loop, queue, art>>
    BY <1>1 DEF Reconfigure, BecomeReady, vars, manager, objects, threads
  <2> QED
    BY <1>0, <2>1 DEF QueueInv, Asked, AskedBy
<1>2. ASSUME NEW n \in Names, NEW p \in Poses, Build(n, p) PROVE QueueInv'
  <2>1. PICK new \in Ids : builds' = new /\ new = builds + 1
    BY <1>0, <1>2 DEF Build, RegistryTypeInv
  <2> DEFINE t == Task("build", n, new, IF n \in Grippers THEN handles[ArmOf[n]] ELSE 0)
  <2>2. /\ loop' = [pc |-> "spawn", name |-> n, id |-> new] /\ queue' = Append(queue, t)
        /\ loop = Idle /\ UNCHANGED <<handles, art>>
    BY <1>2, <2>1 DEF Build, manager, objects
  <2>3. art[new] = 0
    BY <1>0, <2>1 DEF HandleInv, RegistryTypeInv
  <2>4. AskedBy(t, loop', handles', art')
    BY <2>2, <2>3 DEF Asked, AskedBy, Waits, KindAt, Task
  <2>5. \A i \in DOMAIN queue : queue[i] = ResetAsked
    BY <2>2, OnlyResetsQueued DEF Idle, Waits
  <2> HIDE DEF t
  <2> QED
    BY <1>0, <2>2, <2>4, <2>5, AppendedTask DEF RegistryTypeInv
<1>3. ASSUME NEW n \in Names, Close(n) PROVE QueueInv'
  <2> DEFINE t == Task("release", n, handles[n], 0)
  <2>1. \A i \in DOMAIN queue : queue[i] = ResetAsked
    BY <1>3, OnlyResetsQueued DEF Close, Idle, Waits
  <2>2. CASE loop' = [pc |-> "release", name |-> n, id |-> handles[n]] /\ queue' = Append(queue, t)
    <3>1. AskedBy(t, loop', handles', art')
      BY <2>2 DEF Asked, AskedBy, Waits, KindAt, Task
    <3> HIDE DEF t
    <3> QED
      BY <1>0, <2>1, <2>2, <3>1, AppendedTask DEF RegistryTypeInv
  <2>3. CASE UNCHANGED queue
    BY <2>1, <2>3 DEF QueueInv
  <2> QED
    BY <1>3, <2>2, <2>3 DEF Close
<1>4. CASE Home
  <2> DEFINE t == Task("home", loop.name, loop.id, 0)
  <2>1. /\ loop' = [pc |-> "home", name |-> loop.name, id |-> loop.id] /\ queue' = Append(queue, t)
        /\ loop.pc = "spawned"
    BY <1>0, <1>4 DEF Home, RegistryTypeInv, Idle, Operations
  <2>2. AskedBy(t, loop', handles', art')
    BY <2>1 DEF Asked, AskedBy, Waits, KindAt, Task
  <2>3. \A i \in DOMAIN queue : queue[i] = ResetAsked
    BY <2>1, OnlyResetsQueued DEF Waits
  <2> HIDE DEF t
  <2> QED
    BY <1>0, <2>1, <2>2, <2>3, AppendedTask DEF RegistryTypeInv
<1>5. CASE Register \/ Fails
  <2>1. \A i \in DOMAIN queue : queue[i] = ResetAsked
    BY <1>5, OnlyResetsQueued DEF Register, Fails, Waits
  <2>2. UNCHANGED queue
    BY <1>5 DEF Register, Fails
  <2> QED
    BY <2>1, <2>2 DEF QueueInv
<1>6. CASE TimeOut
  <2>1. \A i \in DOMAIN queue : queue[i].id # loop.id => queue[i] = ResetAsked
    BY <1>0 DEF QueueInv, Asked, AskedBy
  <2>2. \A k \in DOMAIN queue' : queue'[k] = ResetAsked
    BY <1>0, <1>6, <2>1, KeptElements DEF TimeOut, RegistryTypeInv
  <2> QED
    BY <2>2 DEF QueueInv
<1>7. CASE ResetVerb
  <2>1. queue' = Append(queue, ResetAsked) /\ UNCHANGED <<handles, loop, art>>
    BY <1>7 DEF ResetVerb, ResetAsked, manager, objects
  <2>2. PICK len \in Nat : len = Len(queue)
    BY <1>0 DEF RegistryTypeInv
  <2>3. /\ DOMAIN queue = 1..len /\ DOMAIN queue' = 1..(len + 1) /\ queue'[len + 1] = ResetAsked
        /\ \A i \in 1..len : queue'[i] = queue[i]
    BY <1>0, <2>1, <2>2 DEF RegistryTypeInv
  <2>4. \A i \in DOMAIN queue' : queue'[i] # ResetAsked => i \in DOMAIN queue /\ queue'[i] = queue[i]
    BY <2>3
  <2>5. \A i \in DOMAIN queue : Asked(queue[i]) => AskedBy(queue[i], loop', handles', art')
    BY <2>1, <2>4 DEF Asked, AskedBy
  <2> QED
    BY <1>0, <2>4, <2>5 DEF QueueInv, Asked
<1>8. CASE SimThread
  <2>1. UNCHANGED handles
    BY <1>8, SimThreadFrame
  <2>2. ASSUME NEW kind, Takes(kind), kind # "reset" PROVE QueueInv'
    BY <2>2, TakenTask DEF QueueInv
  <2>3. ASSUME UNCHANGED loop,
               \A i \in DOMAIN queue : queue[i] # ResetAsked => art'[queue[i].id] = art[queue[i].id],
               \/ UNCHANGED queue
               \/ \A i \in DOMAIN queue' : i + 1 \in DOMAIN queue /\ queue'[i] = queue[i + 1]
        PROVE  QueueInv'
    <3>1. \A i \in DOMAIN queue : queue[i] = ResetAsked \/ AskedBy(queue[i], loop', handles', art')
      BY <1>0, <2>1, <2>3 DEF QueueInv, Asked, AskedBy
    <3>2. CASE UNCHANGED queue
      <4>1. \A i \in DOMAIN queue' : queue'[i] = ResetAsked \/ AskedBy(queue'[i], loop', handles', art')
        BY <3>1, <3>2
      <4> QED
        BY <1>0, <3>2, <4>1 DEF QueueInv, Asked
    <3>3. CASE \A i \in DOMAIN queue' : i + 1 \in DOMAIN queue /\ queue'[i] = queue[i + 1]
      <4>1. \A i \in DOMAIN queue' : queue'[i] = ResetAsked \/ AskedBy(queue'[i], loop', handles', art')
        BY <3>1, <3>3
      <4>2. DOMAIN queue' \subseteq Nat
        BY DEF RegistryTypeInv
      <4>3. \A i, j \in DOMAIN queue' : queue'[i] # ResetAsked /\ queue'[j] # ResetAsked => i + 1 = j + 1
        BY <1>0, <3>3 DEF QueueInv
      <4> QED
        BY <4>1, <4>2, <4>3 DEF QueueInv, Asked
    <3> QED
      BY <2>3, <3>2, <3>3
  <2>4. CASE ResetTask
    <3>1. Takes("reset") /\ UNCHANGED <<loop, art>>
      BY <2>4 DEF ResetTask, objects
    <3> QED
      BY <2>3, <3>1, TakenTask
  <2>5. CASE FireHook \/ ResetEnds
    BY <2>3, <2>5 DEF FireHook, ResetEnds, objects
  <2>6. CASE UNCHANGED queue /\ running.kind = "build" /\ ~FireHook
    <3>1. Begun(running)
      BY <2>6 DEF RegistryInv, RunningInv
    <3>2. CASE loop.id = running.id
      BY <2>6, <3>2 DEF RegistryInv, RunningInv, QueueInv
    <3>3. CASE loop.id # running.id
      <4>1. UNCHANGED loop
        <5>1. Answer(running, "spawned") \/ Answer(running, "raised") \/ ResetEnds
          BY <1>8, <2>6 DEF SimThread, SpawnFirst, Reattach, SpawnEnds, JawJoins, JawEnds, CupRig,
              CupEnds, CameraBuilds, HomeTask, ReleaseTask, ResetTask, Takes, TakesBuild, Wraps, NoTask
        <5> QED
          BY <3>3, <5>1 DEF Answer, ResetEnds
      <4>2. UNCHANGED art \/ \E w : art' = [art EXCEPT ![running.id] = w]
        <5>1. ~JawJoins /\ ~Takes("build")
          BY <2>6 DEF JawJoins, Takes, TakesBuild, NoTask
        <5> QED
          BY <1>8, <5>1, SimThreadArt
      <4>3. \A i \in DOMAIN queue : queue[i] # ResetAsked => queue[i].id = loop.id /\ loop.id \in Ids
        <5>1. loop.pc \in Waits => loop.id \in Ids
          BY <1>0 DEF RegistryTypeInv, Idle, Operations, Waits
        <5> QED
          BY <1>0, <5>1 DEF QueueInv, Asked, AskedBy
      <4> QED
        BY <2>3, <2>6, <3>3, <4>1, <4>2, <4>3 DEF RegistryInv, WorldTypeInv
    <3> QED
      BY <3>2, <3>3
  <2>7. \/ UNCHANGED queue /\ running.kind = "build" /\ ~FireHook
        \/ FireHook \/ ResetEnds \/ ResetTask
        \/ Takes("build") \/ Takes("home") \/ Takes("release")
    BY <1>8 DEF SimThread, SpawnFirst, Reattach, SpawnEnds, JawJoins, JawEnds, CupRig, CupEnds,
              CameraBuilds, HomeTask, ReleaseTask, TakesBuild, FireHook
  <2> QED
    BY <2>2, <2>4, <2>5, <2>6, <2>7
<1> QED
  BY <1>1, <1>2, <1>3, <1>4, <1>5, <1>6, <1>7, <1>8 DEF Next

\* A hook has the name of a component and the number of a build.
LEMMA HookTypes ==
    ASSUME RegistryTypeInv, NEW i \in DOMAIN hooks
    PROVE  hooks[i].owner \in Names /\ hooks[i].id \in Ids
<1>1. hooks[i] \in HookRecords
  BY DEF RegistryTypeInv
<1> QED
  BY <1>1 DEF HookRecords

\* Registering appends the hook of a name that has none, closing removes it.
LEMMA HookStep == RegistryInv /\ RegistryTypeInv' /\ [Next]_vars => HooksAreTheLiveHandles'
<1> SUFFICES ASSUME RegistryInv, RegistryTypeInv', [Next]_vars PROVE HooksAreTheLiveHandles'
  OBVIOUS
<1> USE NamesFacts DEF HooksAreTheLiveHandles, Live, Hooked
<1>0. RegistryTypeInv /\ HooksAreTheLiveHandles
  BY DEF RegistryInv
<1>1. CASE UNCHANGED <<handles, hooks>>
  BY <1>0, <1>1
<1>2. ASSUME NEW n \in Names, Close(n) PROVE HooksAreTheLiveHandles'
  <2> DEFINE K == {i \in DOMAIN hooks : hooks[i].owner # n}
  <2>1. hooks' = Kept(hooks, K) /\ handles' = [handles EXCEPT ![n] = 0]
    BY <1>2 DEF Close, HooksWithout
  <2>6. hooks \in Seq(HookRecords) /\ K \in SUBSET (DOMAIN hooks)
    BY <1>0 DEF RegistryTypeInv
  <2>7. \A i \in K : i \in DOMAIN hooks /\ hooks[i].owner # n
    OBVIOUS
  <2>8. \A i \in DOMAIN hooks : hooks[i].owner # n => i \in K
    OBVIOUS
  <2> HIDE DEF K
  <2>2. /\ \A k \in DOMAIN hooks' : \E i \in K : hooks'[k] = hooks[i]
        /\ \A i \in K : \E k \in DOMAIN hooks' : hooks'[k] = hooks[i]
        /\ \A k, l \in DOMAIN hooks' : k # l =>
              \E i, j \in K : i # j /\ hooks'[k] = hooks[i] /\ hooks'[l] = hooks[j]
    BY <2>1, <2>6, KeptElements
  <2>3. \A m \in Hooked : handles'[m] # 0 => \E k \in DOMAIN hooks' : hooks'[k].owner = m
    <3> SUFFICES ASSUME NEW m \in Hooked, handles'[m] # 0
                 PROVE  \E k \in DOMAIN hooks' : hooks'[k].owner = m
      OBVIOUS
    <3>1. m # n /\ handles[m] # 0
      BY <1>0, <2>1 DEF RegistryTypeInv
    <3>2. PICK i \in DOMAIN hooks : hooks[i].owner = m
      BY <1>0, <3>1
    <3> QED
      BY <2>2, <2>8, <3>1, <3>2
  <2>4. \A k, l \in DOMAIN hooks' : hooks'[k].owner = hooks'[l].owner => k = l
    BY <1>0, <2>2, <2>7
  <2>5. \A k \in DOMAIN hooks' : hooks'[k].id = handles'[hooks'[k].owner]
    <3> SUFFICES ASSUME NEW k \in DOMAIN hooks' PROVE hooks'[k].id = handles'[hooks'[k].owner]
      OBVIOUS
    <3>1. PICK i \in K : hooks'[k] = hooks[i]
      BY <2>2
    <3>2. hooks[i].owner \in Names
      BY <1>0, <2>7, HookTypes
    <3> QED
      BY <1>0, <2>1, <2>7, <3>1, <3>2 DEF RegistryTypeInv
  <2> QED
    BY <2>3, <2>4, <2>5
<1>3. CASE Register
  <2>1. /\ loop \in Operations /\ handles[loop.name] = 0 /\ loop.name \in Names /\ loop.id \in Ids
        /\ handles' = [handles EXCEPT ![loop.name] = loop.id] /\ hooks' = HooksWith(loop.name, loop.id)
    BY <1>0, <1>3 DEF Register, Idle, RegistryTypeInv, RegistryInv, LoopInv, Operations
  <2>2. /\ handles'[loop.name] = loop.id
        /\ \A m \in Names : m # loop.name => handles'[m] = handles[m]
    BY <1>0, <2>1 DEF RegistryTypeInv
  <2>3. \A i \in DOMAIN hooks : hooks[i].owner \in Names /\ hooks[i].owner # loop.name
    <3> SUFFICES ASSUME NEW i \in DOMAIN hooks PROVE hooks[i].owner \in Names /\ hooks[i].owner # loop.name
      OBVIOUS
    <3>1. hooks[i].owner \in Names /\ hooks[i].id \in Ids
      BY <1>0, HookTypes
    <3>2. hooks[i].id # 0 /\ hooks[i].id = handles[hooks[i].owner]
      BY <1>0, <3>1
    <3> QED
      BY <2>1, <3>1, <3>2
  <2>4. CASE loop.name \in Bases
    BY <1>0, <2>1, <2>2, <2>3, <2>4 DEF HooksWith
  <2>5. CASE loop.name \notin Bases
    <3> DEFINE h == [owner |-> loop.name, id |-> loop.id]
    <3>1. PICK len \in Nat : len = Len(hooks)
      BY <1>0 DEF RegistryTypeInv
    <3>2. /\ DOMAIN hooks = 1..len /\ DOMAIN hooks' = 1..(len + 1) /\ hooks'[len + 1] = h
          /\ \A i \in 1..len : hooks'[i] = hooks[i]
      BY <1>0, <2>1, <2>5, <3>1 DEF RegistryTypeInv, HooksWith
    <3>3. /\ \A i \in DOMAIN hooks' : i # len + 1 => i \in DOMAIN hooks
          /\ len + 1 \in DOMAIN hooks' /\ DOMAIN hooks \subseteq DOMAIN hooks'
      BY <3>2
    <3>4. \A m \in Hooked : handles'[m] # 0 => \E k \in DOMAIN hooks' : hooks'[k].owner = m
      <4> SUFFICES ASSUME NEW m \in Hooked, handles'[m] # 0
                   PROVE  \E k \in DOMAIN hooks' : hooks'[k].owner = m
        OBVIOUS
      <4>1. CASE m = loop.name
        BY <3>2, <3>3, <4>1
      <4>2. CASE m # loop.name
        <5>1. PICK i \in DOMAIN hooks : hooks[i].owner = m
          BY <1>0, <2>2, <4>2
        <5> QED
          BY <3>2, <3>3, <5>1
      <4> QED
        BY <4>1, <4>2
    <3>5. \A i \in DOMAIN hooks' : hooks'[i].id = handles'[hooks'[i].owner]
      <4> SUFFICES ASSUME NEW i \in DOMAIN hooks' PROVE hooks'[i].id = handles'[hooks'[i].owner]
        OBVIOUS
      <4>1. CASE i = len + 1
        BY <2>2, <3>2, <4>1
      <4>2. CASE i # len + 1
        BY <1>0, <2>2, <2>3, <3>2, <3>3, <4>2
      <4> QED
        BY <4>1, <4>2
    <3>6. \A i, j \in DOMAIN hooks' : hooks'[i].owner = hooks'[j].owner => i = j
      <4>1. \A i, j \in DOMAIN hooks : hooks'[i].owner = hooks'[j].owner => i = j
        BY <1>0, <3>2
      <4>2. \A i \in DOMAIN hooks : hooks'[i].owner # hooks'[len + 1].owner
        BY <2>3, <3>2
      <4> QED
        BY <3>3, <4>1, <4>2
    <3> QED
      BY <3>4, <3>5, <3>6
  <2> QED
    BY <2>4, <2>5
<1> QED
  <2>1. CASE SimThread
    BY <1>1, <2>1, SimThreadFrame
  <2>2. CASE \/ UNCHANGED vars \/ Home \/ Fails \/ TimeOut \/ ResetVerb \/ BecomeReady
             \/ \E n \in Names, p \in Poses : Reconfigure(n, p) \/ Build(n, p)
    <3>1. UNCHANGED <<handles, hooks>>
      BY <2>2 DEF Reconfigure, Build, Home, Fails, TimeOut, ResetVerb, BecomeReady, vars, manager
    <3> QED
      BY <1>1, <3>1
  <2> QED
    BY <1>2, <1>3, <2>1, <2>2 DEF Next

\* A hook that has fired: what was still to fire still is, but for this one.
LEMMA FiredHook ==
    ASSUME RegistryInv, FireHook, NEW a \in Arms
    PROVE  /\ ToFire(a) => ToFire(a)' \/ Head(firing).owner = a
           /\ ToFire(a)' => ToFire(a)
           /\ FiresItself(a) => FiresItself(a)'
           /\ FiresItself(a) /\ Head(firing).owner = a => Head(firing).id = handles[a]
           /\ Head(firing).owner # a => /\ solver'[a] = solver[a] /\ athome'[a] = athome[a]
                                        /\ drives'[a] = drives[a]
           /\ Head(firing).owner = a =>
                 /\ solver'[a] /\ athome'[a] = (athome[a] \/ targets[Head(firing).id])
                 /\ drives'[a] = IF gains[Head(firing).id] = "none" THEN drives[a]
                                 ELSE gains[Head(firing).id]
<1>1. firing \in Seq(HookRecords) /\ firing # <<>> /\ firing' = Tail(firing) /\ UNCHANGED handles
  BY DEF RegistryInv, WorldTypeInv, FireHook, manager
<1>2. PICK len \in Nat : len = Len(firing) /\ len # 0
  BY <1>1
<1>3. /\ DOMAIN firing = 1..len /\ DOMAIN firing' = 1..(len - 1) /\ Head(firing) = firing[1]
      /\ \A i \in 1..(len - 1) : firing'[i] = firing[i + 1]
  BY <1>1, <1>2
<1>4. /\ \A i \in DOMAIN firing' : i + 1 \in DOMAIN firing /\ firing'[i] = firing[i + 1]
      /\ \A i \in DOMAIN firing : i # 1 => i - 1 \in DOMAIN firing' /\ firing'[i - 1] = firing[i]
      /\ 1 \in DOMAIN firing
  BY <1>2, <1>3
<1>5. /\ ToFire(a) => ToFire(a)' \/ Head(firing).owner = a
      /\ ToFire(a)' => ToFire(a)
  BY <1>3, <1>4 DEF ToFire
<1>6. /\ FiresItself(a) => FiresItself(a)'
      /\ FiresItself(a) /\ Head(firing).owner = a => Head(firing).id = handles[a]
  BY <1>1, <1>3, <1>4 DEF FiresItself
<1>7. solver \in [Arms -> BOOLEAN] /\ athome \in [Arms -> BOOLEAN] /\ drives \in [Arms -> {"stiff", "free"}]
  BY DEF RegistryInv, WorldTypeInv
<1>8. CASE Head(firing).owner # a
  <2>1. \/ UNCHANGED <<solver, athome, drives>>
        \/ LET o == Head(firing).owner  i == Head(firing).id IN
           /\ solver' = [solver EXCEPT ![o] = TRUE]
           /\ athome' = [athome EXCEPT ![o] = athome[o] \/ targets[i]]
           /\ drives' = [drives EXCEPT ![o] = IF gains[i] = "none" THEN drives[o] ELSE gains[i]]
    BY DEF FireHook
  <2> QED
    BY <1>5, <1>6, <1>7, <1>8, <2>1
<1>9. CASE Head(firing).owner = a
  BY <1>5, <1>6, <1>7, <1>9 DEF FireHook
<1> QED
  BY <1>8, <1>9

\* The hooks a reset fires are those of the live arms, each its own.
LEMMA HooksFire ==
    ASSUME RegistryInv, firing' = hooks, UNCHANGED handles, NEW a \in Arms
    PROVE  FiresItself(a)' /\ (ToFire(a)' <=> Live(a))
<1> USE NamesFacts
<1>1. HooksAreTheLiveHandles
  BY DEF RegistryInv
<1>2. FiresItself(a)'
  BY <1>1 DEF HooksAreTheLiveHandles, FiresItself
<1>3. Live(a) => ToFire(a)'
  BY <1>1 DEF HooksAreTheLiveHandles, ToFire, Hooked
<1>4. ToFire(a)' => Live(a)
  <2> SUFFICES ASSUME NEW i \in DOMAIN hooks, hooks[i].owner = a PROVE Live(a)
    BY DEF ToFire
  <2>1. hooks[i].id \in Ids
    BY HookTypes DEF RegistryInv
  <2> QED
    BY <1>1, <2>1 DEF HooksAreTheLiveHandles, Live
<1> QED
  BY <1>2, <1>3, <1>4

\* A build in hand stays one that no live handle's name or number is part of.
LEMMA RunningStep == RegistryInv /\ RegistryTypeInv' /\ WorldTypeInv' /\ [Next]_vars => RunningInv'
<1> SUFFICES ASSUME RegistryInv, RegistryTypeInv', WorldTypeInv', [Next]_vars PROVE RunningInv'
  OBVIOUS
<1> USE NamesFacts
<1>0. RegistryTypeInv /\ HandleInv /\ RunningInv
  BY DEF RegistryInv
<1>1. ASSUME running' = NoTask, firing' = <<>> PROVE RunningInv'
  BY <1>1 DEF RunningInv, NoTask
<1>2. ASSUME UNCHANGED <<running, firing>>, running.kind # "build" PROVE RunningInv'
  BY <1>0, <1>2 DEF RunningInv
<1>3. ASSUME running.kind = "build", EventLoop PROVE RunningInv'
  <2>0. UNCHANGED <<running, firing, art, athome>>
    BY <1>3, EventLoopFrame
  <2>1. Begun(running) /\ (running.name \in Jaws => ArmReturns(ArmOf[running.name]))
    BY <1>0, <1>3 DEF RunningInv
  <2>2. loop.pc \notin {"spawned", "homed", "raised"}
    BY <2>1 DEF Begun
  <2>3. CASE ResetVerb \/ BecomeReady \/ \E n \in Names, p \in Poses : Reconfigure(n, p)
    <3>1. UNCHANGED <<handles, loop, builds, loose, shut>>
      BY <2>3 DEF Reconfigure, ResetVerb, BecomeReady, manager, bounds, history, threads
    <3>2. queue' = Append(queue, ResetAsked) \/ UNCHANGED queue
      BY <2>3 DEF Reconfigure, ResetVerb, BecomeReady, threads, ResetAsked
    <3>3. loop'.id = running.id => \A i \in DOMAIN queue' : queue'[i] = ResetAsked
      <4> SUFFICES ASSUME loop.id = running.id PROVE \A i \in DOMAIN queue' : queue'[i] = ResetAsked
        BY <3>1
      <4>1. \A i \in DOMAIN queue : queue[i] = ResetAsked
        BY <1>0, <1>3 DEF RunningInv
      <4>2. CASE queue' = Append(queue, ResetAsked)
        <5>1. PICK len \in Nat : len = Len(queue)
          BY <1>0 DEF RegistryTypeInv
        <5>2. /\ DOMAIN queue = 1..len /\ DOMAIN queue' = 1..(len + 1)
              /\ queue'[len + 1] = ResetAsked /\ \A i \in 1..len : queue'[i] = queue[i]
          BY <1>0, <4>2, <5>1 DEF RegistryTypeInv
        <5> QED
          BY <4>1, <5>1, <5>2
      <4> QED
        BY <3>2, <4>1, <4>2
    <3> QED
      BY <1>0, <1>3, <2>0, <3>1, <3>3
         DEF RunningInv, Begun, ArmReturns, Live, FiresItself, ToFire
  <2>4. ASSUME NEW n \in Names, NEW p \in Poses, Build(n, p) PROVE RunningInv'
    <3>1. PICK new \in Nat : builds' = new /\ new = builds + 1
      BY <1>0, <2>4 DEF Build, RegistryTypeInv
    <3>2. /\ loop = Idle /\ loop' = [pc |-> "spawn", name |-> n, id |-> new] /\ shut' = shut \ {n}
          /\ UNCHANGED <<handles, loose>>
      BY <2>4, <3>1 DEF Build, manager
    <3>3. builds \in Nat /\ \A i \in 1..builds : i \in 1..new /\ i # new
      BY <1>0, <3>1 DEF RegistryTypeInv
    <3>4. running.id \in loose /\ running.id # new
      BY <2>1, <3>2, <3>3 DEF Begun, Idle
    <3>5. Begun(running)'
      BY <2>0, <2>1, <3>1, <3>2, <3>3, <3>4 DEF Begun, Live
    <3> QED
      BY <1>3, <2>0, <2>1, <3>2, <3>4, <3>5 DEF RunningInv, ArmReturns, Live, FiresItself, ToFire
  <2>5. ASSUME NEW n \in Names, Close(n) PROVE RunningInv'
    <3>1. /\ loop = Idle /\ handles' = [handles EXCEPT ![n] = 0] /\ handles[n] # 0
          /\ loop' \in {Idle, [pc |-> "release", name |-> n, id |-> handles[n]]}
          /\ loose \subseteq loose' /\ UNCHANGED <<builds, shut>>
      BY <2>5 DEF Close, bounds
    <3>2. running.id \in loose /\ running.id # 0 /\ n # running.name /\ handles[n] # running.id
      BY <2>1, <3>1 DEF Begun, Idle, Live
    <3>3. handles'[n] = 0 /\ \A m \in Names : m # n => handles'[m] = handles[m]
      BY <1>0, <3>1 DEF RegistryTypeInv
    <3>4. loop'.pc \in {"idle", "release"} /\ loop'.id # running.id
      BY <3>1, <3>2 DEF Idle
    <3>5. Begun(running)'
      <4>1. \A m \in Names : handles'[m] # running.id
        BY <2>1, <3>2, <3>3 DEF Begun
      <4>2. running.name \in Jaws =>
              /\ handles'[ArmOf[running.name]] \in {0, running.arm}
              /\ \A m \in Names : handles'[m] = running.arm => m = ArmOf[running.name]
        <5>1. running.name \in Jaws => running.arm # 0
          BY <2>1, <1>0 DEF Begun, RegistryTypeInv
        <5> QED
          BY <2>1, <3>3, <5>1 DEF Begun
      <4> QED
        BY <2>0, <2>1, <3>1, <3>2, <3>3, <3>4, <4>1, <4>2 DEF Begun, Live
    <3>6. running.name \in Jaws => ArmReturns(ArmOf[running.name])'
      BY <2>0, <2>1, <3>3 DEF ArmReturns, Live, FiresItself, ToFire
    <3> QED
      BY <1>3, <2>0, <3>4, <3>5, <3>6 DEF RunningInv
  <2>6. CASE TimeOut
    <3>1. loop' = Idle /\ loose' = loose \cup {loop.id} /\ UNCHANGED <<handles, builds, shut>>
      BY <2>6 DEF TimeOut, manager
    <3>2. running.id # 0 /\ running.id \in loose'
      BY <2>1, <3>1, <1>0 DEF Begun, RegistryTypeInv
    <3>3. Begun(running)' /\ loop'.id # running.id
      BY <2>0, <2>1, <3>1, <3>2 DEF Begun, Live, Idle
    <3> QED
      BY <1>3, <2>0, <2>1, <3>1, <3>3 DEF RunningInv, ArmReturns, Live, FiresItself, ToFire
  <2> QED
    BY <1>3, <2>2, <2>3, <2>4, <2>5, <2>6 DEF EventLoop, Home, Register, Fails
<1>4. CASE FireHook
  <2>1. UNCHANGED <<handles, loop, queue, running, art, builds, loose, shut>> /\ running # NoTask
    <3>1. firing # <<>>
      BY <1>4 DEF FireHook
    <3> QED
      BY <1>0, <1>4, <3>1 DEF FireHook, RunningInv, manager, bounds, history, objects, NoTask
  <2>2. running.kind \in {"build", "reset"}
    BY <1>0, <2>1 DEF RunningInv
  <2>3. ASSUME NEW a \in Arms, ArmReturns(a) PROVE ArmReturns(a)'
    <3> SUFFICES ASSUME Live(a) PROVE FiresItself(a)' /\ (a \in Homed => athome'[a] \/ ToFire(a)')
      BY <2>1 DEF ArmReturns, Live
    <3>1. FiresItself(a) /\ (a \in Homed => athome[a] \/ ToFire(a))
      BY <2>3 DEF ArmReturns
    <3>2. a \in Homed => targets[handles[a]]
      BY DEF RegistryInv, RestoredInv, LiveRestored
    <3> QED
      BY <1>4, <3>1, <3>2, FiredHook
  <2>4. running.kind = "build" => Begun(running)'
    BY <1>0, <2>1 DEF RunningInv, Begun, Live
  <2> QED
    BY <1>0, <2>1, <2>2, <2>3, <2>4 DEF RunningInv
<1>5. ASSUME Takes("build"), running' = Next1, firing' = hooks, UNCHANGED <<loop, shut>>,
             UNCHANGED <<handles, builds, loose>>, Next1.name \in Jaws \/ Next1.name \notin Jaws,
             UNCHANGED art \/ (Next1.name \in Jaws /\ art' = [art EXCEPT ![Next1.arm] = Next1.id])
      PROVE  RunningInv'
  <2>1. Begun(Next1) /\ loop.id = Next1.id /\ Next1.kind = "build"
        /\ \A i \in DOMAIN queue' : queue'[i] = ResetAsked
    BY <1>5, TakenTask, TakenBuild
  <2>2. loop.name = Next1.name
    BY <2>1 DEF Begun
  <2>3. art'[Next1.id] = art[Next1.id]
    <3>1. CASE Next1.name \in Jaws /\ art' = [art EXCEPT ![Next1.arm] = Next1.id]
      <4>1. Live(ArmOf[Next1.name]) /\ Next1.arm = handles[ArmOf[Next1.name]]
        BY <1>5, <2>2, <3>1, TakenBuild
      <4>2. Next1.arm # Next1.id
        BY <2>1, <3>1, <4>1 DEF Begun
      <4> QED
        BY <3>1, <4>2 DEF RegistryInv, WorldTypeInv
    <3> QED
      BY <1>5, <3>1
  <2>4. Begun(running)'
    BY <1>5, <2>1, <2>3 DEF Begun, Live
  <2>5. ASSUME NEW a \in Arms PROVE ArmReturns(a)'
    BY <1>5, HooksFire DEF ArmReturns, Live
  <2> QED
    BY <1>5, <2>1, <2>4, <2>5 DEF RunningInv
<1>6. CASE SimThread /\ ~FireHook
  <2>1. UNCHANGED <<handles, hooks, builds, loose>>
    BY <1>6, SimThreadFrame
  <2>2. CASE SpawnFirst \/ JawJoins \/ CupRig
    <3>1. Takes("build") /\ UNCHANGED shut
      BY <2>2 DEF SpawnFirst, JawJoins, CupRig, TakesBuild, history
    <3>2. \/ UNCHANGED <<running, firing>>
          \/ /\ running' = Next1 /\ firing' = hooks /\ UNCHANGED loop
             /\ UNCHANGED art \/ (Next1.name \in Jaws /\ art' = [art EXCEPT ![Next1.arm] = Next1.id])
      BY <2>2 DEF SpawnFirst, JawJoins, CupRig, ResetWorld, TakesBuild, objects, Replaced
    <3>3. running = NoTask /\ firing = <<>>
      BY <3>1, TakenTask
    <3> QED
      BY <1>1, <1>5, <2>1, <3>1, <3>2, <3>3
  <2>3. CASE SpawnEnds \/ JawEnds \/ ResetEnds
    BY <1>1, <2>3 DEF SpawnEnds, JawEnds, ResetEnds
  <2>4. CASE Reattach \/ CameraBuilds \/ HomeTask \/ ReleaseTask
    <3>1. \E kind : Takes(kind)
      BY <2>4 DEF Reattach, CameraBuilds, HomeTask, ReleaseTask, TakesBuild
    <3>2. running = NoTask /\ firing = <<>>
      BY <3>1, TakenTask
    <3> QED
      BY <1>1, <2>4, <3>2 DEF Reattach, CameraBuilds, HomeTask, ReleaseTask
  <2>5. CASE CupEnds
    <3>1. CASE running' = NoTask /\ firing = <<>>
      BY <1>1, <2>5, <3>1 DEF CupEnds
    <3>2. CASE TakesBuild(Cups) /\ UNCHANGED running
      <4>1. running = NoTask /\ firing = <<>>
        BY <3>2, TakenTask DEF TakesBuild
      <4> QED
        BY <1>1, <2>5, <3>2, <4>1 DEF CupEnds
    <3> QED
      BY <2>5, <3>1, <3>2 DEF CupEnds
  <2>6. CASE ResetTask
    <3>1. running' = Next1 /\ Next1.kind = "reset"
      BY <2>6, TakenTask DEF ResetTask
    <3> QED
      BY <3>1 DEF RunningInv
  <2> QED
    BY <1>6, <2>2, <2>3, <2>4, <2>5, <2>6 DEF SimThread
<1>7. CASE UNCHANGED vars
  <2>1. UNCHANGED <<running, firing, art, athome, handles, loop, builds, loose, shut, queue>>
    BY <1>7 DEF vars, manager, objects, isaac, threads, bounds, history
  <2> QED
    BY <1>0, <2>1 DEF RunningInv, Begun, ArmReturns, Live, FiresItself, ToFire
<1>8. CASE EventLoop
  <2>1. UNCHANGED <<running, firing>>
    BY <1>8, EventLoopFrame
  <2> QED
    BY <1>2, <1>3, <1>8, <2>1
<1> QED
  BY <1>4, <1>6, <1>7, <1>8 DEF Next, EventLoop

\* Once an arm is built the sim thread does nothing but its home pose and resets,
\* until it is registered.
LEMMA WhileMade ==
    ASSUME RegistryInv, SimThread, loop.pc \in Made
    PROVE  \/ FireHook \/ ResetTask \/ ResetEnds
           \/ HomeTask /\ loop.pc = "home" /\ Next1.name = loop.name /\ Next1.id = loop.id
                       /\ firing = <<>>
<1>1. \A t : ~Begun(t)
  BY DEF Begun, Made
<1>2. ~Takes("build") /\ running.kind # "build"
  BY <1>1, TakenBuild DEF RegistryInv, RunningInv
<1>3. ~Takes("release")
  BY TakenTask DEF Asked, AskedBy, KindAt, Made, Waits
<1>4. HomeTask => /\ loop.pc = "home" /\ Next1.name = loop.name /\ Next1.id = loop.id
                  /\ firing = <<>>
  BY TakenTask DEF HomeTask, Asked, AskedBy, KindAt, Made, Waits
<1> QED
  BY <1>2, <1>3, <1>4 DEF SimThread, SpawnFirst, Reattach, SpawnEnds, JawJoins, JawEnds, CupRig, CupEnds,
     CameraBuilds, ReleaseTask, TakesBuild

\* A reset that comes through marks the arms that are spawned and have no hook.
LEMMA ResetLapses ==
    ASSUME RegistryInv, ResetWorld, UNCHANGED handles, NEW a \in Arms, a \notin lapsed'
    PROVE  /\ a \notin lapsed /\ FiresItself(a)' /\ (ToFire(a)' <=> Live(a))
           /\ a \in spawned => Live(a)
<1>1. firing' = hooks /\ lapsed' = lapsed \cup Unhooked
  BY DEF ResetWorld
<1>2. FiresItself(a)' /\ (ToFire(a)' <=> Live(a))
  BY <1>1, HooksFire
<1>3. a \in spawned => \E i \in DOMAIN hooks : hooks[i].owner = a
  BY <1>1 DEF Unhooked
<1> QED
  BY <1>1, <1>2, <1>3 DEF ToFire

\* What the sim thread does to the settings without a reset.
LEMMA SettingsOnlyGrow ==
    ASSUME RegistryInv, WorldTypeInv', SimThread
    PROVE  \/ FireHook \/ JawEnds
           \/ ResetWorld /\ UNCHANGED targets
           \/ UNCHANGED <<targets, firing>> /\ lapsed' = lapsed \cup (Arms \cap spawned)
           \/ /\ UNCHANGED <<firing, lapsed>>
              /\ \A i \in Ids : targets[i] => targets'[i]
              /\ \A a \in Arms : (solver[a] => solver'[a]) /\ (athome[a] => athome'[a])
<1> USE NamesFacts
<1>0. /\ solver \in [Arms -> BOOLEAN] /\ athome \in [Arms -> BOOLEAN]
      /\ targets \in [Ids -> BOOLEAN]
  BY DEF RegistryInv, WorldTypeInv
<1>1. ASSUME NEW t, Wraps(t), UNCHANGED athome
      PROVE  /\ \A i \in Ids : targets[i] => targets'[i]
             /\ \A a \in Arms : (solver[a] => solver'[a]) /\ (athome[a] => athome'[a])
  <2>1. UNCHANGED targets /\ (UNCHANGED solver \/ solver' = [solver EXCEPT ![t.name] = TRUE])
    BY <1>1 DEF Wraps, Handle, objects
  <2> QED
    BY <1>0, <1>1, <2>1
<1>2. CASE Reattach \/ SpawnEnds
  <2>1. \E t : Wraps(t) /\ UNCHANGED <<athome, firing, lapsed>>
    BY <1>2 DEF Reattach, SpawnEnds, history
  <2> QED
    BY <1>1, <2>1
<1>3. CASE HomeTask
  <2>1. /\ athome' = [athome EXCEPT ![Next1.name] = TRUE]
        /\ targets' = [targets EXCEPT ![Next1.id] = TRUE]
        /\ UNCHANGED <<solver, firing, lapsed>>
    BY <1>3 DEF HomeTask, history
  <2> QED
    BY <1>0, <2>1
<1>4. CASE CupEnds \/ CameraBuilds \/ ReleaseTask \/ ResetEnds
  BY <1>4 DEF CupEnds, CameraBuilds, ReleaseTask, ResetEnds, objects, isaac, history
<1>5. CASE ResetTask
  BY <1>5 DEF ResetTask, objects
<1>6. CASE SpawnFirst \/ JawJoins \/ CupRig
  BY <1>6 DEF SpawnFirst, JawJoins, CupRig, ResetRaises, objects, isaac
<1> QED
  BY <1>2, <1>3, <1>4, <1>5, <1>6 DEF SimThread

\* What a reset undoes of a live arm is left to its hook, which puts it back.
LEMMA LiveRestoredStep == RegistryInv /\ WorldTypeInv' /\ [Next]_vars => LiveRestored'
<1> SUFFICES ASSUME RegistryInv, WorldTypeInv', [Next]_vars PROVE LiveRestored'
  OBVIOUS
<1> USE NamesFacts
<1>0. RegistryTypeInv /\ HandleInv /\ LiveRestored /\ BuiltRestored
  BY DEF RegistryInv, RestoredInv
<1>1. CASE (EventLoop /\ ~Register) \/ UNCHANGED vars
  <2>1. UNCHANGED <<targets, solver, athome, firing, lapsed>>
    BY <1>1, EventLoopFrame DEF vars, objects, isaac, threads, history
  <2>2. \A m \in Names : handles'[m] = handles[m] \/ handles'[m] = 0
    <3>1. CASE UNCHANGED handles
      BY <3>1
    <3>2. ASSUME NEW n \in Names, Close(n) PROVE \A m \in Names : handles'[m] \in {handles[m], 0}
      BY <1>0, <3>2 DEF Close, RegistryTypeInv
    <3> QED
      BY <1>1, <3>1, <3>2 DEF EventLoop, Reconfigure, Build, Home, Fails, TimeOut, ResetVerb,
         BecomeReady, vars, manager
  <2> QED
    BY <1>0, <2>1, <2>2 DEF LiveRestored, Live, FiresItself, ToFire
<1>2. CASE Register
  <2>1. UNCHANGED <<targets, solver, athome, firing, lapsed>>
    BY <1>2, EventLoopFrame DEF EventLoop
  <2>2. /\ loop \in Operations /\ loop.pc \in Made /\ (loop.name \in Homed => loop.pc = "homed")
        /\ handles' = [handles EXCEPT ![loop.name] = loop.id]
    BY <1>0, <1>2 DEF Register, Idle, RegistryTypeInv, Made
  <2>3. /\ loop.name \in Names /\ handles'[loop.name] = loop.id
        /\ \A m \in Names : m # loop.name => handles'[m] = handles[m]
    BY <1>0, <2>2 DEF RegistryTypeInv, Operations
  <2>4. \A a \in Homed : Live(a)' => targets'[handles'[a]]
    BY <1>0, <2>1, <2>2, <2>3 DEF LiveRestored, BuiltRestored, Live
  <2>5. ASSUME NEW a \in Arms \ lapsed, Live(a)'
        PROVE  /\ solver'[a] \/ ToFire(a)'
               /\ a \in Homed => athome'[a] \/ ToFire(a)'
               /\ FiresItself(a)'
    <3>1. CASE a # loop.name
      BY <1>0, <2>1, <2>3, <2>5, <3>1 DEF LiveRestored, Live, FiresItself, ToFire
    <3>2. CASE a = loop.name
      BY <1>0, <2>1, <2>2, <2>3, <3>2 DEF BuiltRestored, FiresItself, ToFire
    <3> QED
      BY <3>1, <3>2
  <2> QED
    BY <2>1, <2>4, <2>5 DEF LiveRestored
<1>3. CASE SimThread
  <2>1. UNCHANGED handles
    BY <1>3, SimThreadFrame
  <2>0. \A a \in Homed : Live(a) => targets[handles[a]] /\ handles[a] \in Ids
    BY <1>0 DEF LiveRestored, RegistryTypeInv, HandleInv, Live
  <2>2. CASE FireHook
    <3>1. UNCHANGED <<targets, lapsed>>
      BY <2>2 DEF FireHook, objects, history
    <3> QED
      BY <1>0, <2>1, <2>2, <3>1, FiredHook DEF LiveRestored, Live
  <2>3. CASE JawEnds
    <3>1. Begun(running) /\ ArmReturns(ArmOf[running.name]) /\ ArmOf[running.name] \in Arms
      BY <2>3 DEF JawEnds, RegistryInv, RunningInv
    <3> DEFINE arm == ArmOf[running.name]
    <3>2. /\ UNCHANGED <<targets, athome, firing>>
          /\ \/ UNCHANGED <<solver, lapsed>>
             \/ solver' = [solver EXCEPT ![arm] = TRUE] /\ lapsed' = lapsed \ {arm}
      BY <2>3 DEF JawEnds
    <3>3. solver \in [Arms -> BOOLEAN]
      BY DEF RegistryInv, WorldTypeInv
    <3>4. \A a \in Arms : (solver[a] => solver'[a]) /\ (a \notin lapsed' => a = arm \/ a \notin lapsed)
      BY <3>2, <3>3
    <3>5. arm \notin lapsed' => solver'[arm] \/ arm \notin lapsed
      BY <3>1, <3>2, <3>3
    <3> HIDE DEF arm
    <3>6. arm \in Arms /\ ArmReturns(arm)
      BY <3>1 DEF arm
    <3> QED
      BY <1>0, <2>1, <3>2, <3>4, <3>5, <3>6 DEF LiveRestored, Live, FiresItself, ToFire, ArmReturns
  <2>4. CASE ResetWorld /\ UNCHANGED targets
    BY <2>0, <2>1, <2>4, ResetLapses DEF LiveRestored, Live
  <2>5. CASE UNCHANGED <<targets, firing>> /\ lapsed' = lapsed \cup (Arms \cap spawned)
    BY <1>0, <2>0, <2>1, <2>5 DEF LiveRestored, Live, HandleInv
  <2>6. CASE /\ UNCHANGED <<firing, lapsed>>
             /\ \A i \in Ids : targets[i] => targets'[i]
             /\ \A a \in Arms : (solver[a] => solver'[a]) /\ (athome[a] => athome'[a])
    BY <1>0, <2>0, <2>1, <2>6 DEF LiveRestored, Live, FiresItself, ToFire
  <2> QED
    BY <1>3, <2>2, <2>3, <2>4, <2>5, <2>6, SettingsOnlyGrow
<1> QED
  BY <1>1, <1>2, <1>3 DEF Next, EventLoop

\* An arm that has yet to be registered has what it needs, or the reset marked it.
LEMMA BuiltRestoredStep == RegistryInv /\ WorldTypeInv' /\ [Next]_vars => BuiltRestored'
<1> SUFFICES ASSUME RegistryInv, WorldTypeInv', [Next]_vars PROVE BuiltRestored'
  OBVIOUS
<1> USE NamesFacts
<1>0. RegistryTypeInv /\ HandleInv /\ BuiltRestored
  BY DEF RegistryInv, RestoredInv
<1>1. ASSUME loop'.pc \notin Made PROVE BuiltRestored'
  BY <1>1 DEF BuiltRestored, Made
<1>2. CASE EventLoop
  <2>1. UNCHANGED <<targets, solver, athome, firing, lapsed>>
    BY <1>2, EventLoopFrame
  <2>2. CASE UNCHANGED loop
    BY <1>0, <2>1, <2>2 DEF BuiltRestored, ToFire
  <2>3. CASE Home
    <3>1. /\ loop.pc = "spawned" /\ loop' = [pc |-> "home", name |-> loop.name, id |-> loop.id]
      BY <1>0, <2>3 DEF Home, Idle, RegistryTypeInv, Operations
    <3>2. loop'.pc = "home" /\ loop'.name = loop.name /\ loop.pc \in Made
      BY <3>1 DEF Made
    <3> QED
      BY <1>0, <2>1, <3>2 DEF BuiltRestored, ToFire
  <2>4. CASE UNCHANGED loop \/ Home \/ loop'.pc \in {"idle", "spawn", "release"}
    BY <1>1, <2>2, <2>3, <2>4 DEF Made
  <2> QED
    BY <1>2, <2>4 DEF EventLoop, Reconfigure, Build, Close, Register, Fails, TimeOut, ResetVerb, BecomeReady,
       Idle, threads
<1>3. CASE SimThread /\ loop.pc = "spawn" /\ loop' # loop
  <2>1. PICK pc \in {"raised", "spawned"} : loop' = [pc |-> pc, name |-> loop.name, id |-> loop.id]
    BY <1>3, SimThreadLoop
  <2>2. loop'.pc = pc /\ loop'.name = loop.name
    BY <2>1
  <2>3. loop.name \in Arms /\ pc = "spawned" => solver'[loop.name] /\ firing' = <<>>
    BY <1>3, <2>2, ArmSpawned
  <2> QED
    BY <2>2, <2>3 DEF BuiltRestored, Made, ToFire
<1>4. CASE SimThread /\ loop.pc \in Made
  <2>1. CASE HomeTask /\ loop.pc = "home" /\ Next1.name = loop.name /\ Next1.id = loop.id /\ firing = <<>>
    <3>1. loop \in Operations /\ loop.name \in Homed
      BY <1>0, <2>1 DEF RegistryInv, LoopInv, RegistryTypeInv, Idle
    <3>2. /\ athome' = [athome EXCEPT ![loop.name] = TRUE] /\ targets' = [targets EXCEPT ![loop.id] = TRUE]
          /\ UNCHANGED <<solver, firing, lapsed>>
      BY <2>1 DEF HomeTask, history
    <3>3. loop' = [pc |-> "homed", name |-> loop.name, id |-> loop.id]
      BY <2>1, AnswerToTask, TakenTask DEF HomeTask
    <3>4. athome'[loop.name] /\ targets'[loop.id]
      BY <3>1, <3>2 DEF Operations, RegistryInv, WorldTypeInv
    <3>5. loop'.pc = "homed" /\ loop'.name = loop.name /\ loop'.id = loop.id
      BY <3>3
    <3> QED
      BY <1>0, <1>4, <2>1, <3>2, <3>4, <3>5 DEF BuiltRestored, ToFire
  <2>2. CASE FireHook
    <3>1. UNCHANGED <<loop, targets, lapsed>>
      BY <2>2 DEF FireHook, objects, history
    <3>2. loop.name \in Arms \ lapsed => Head(firing).owner # loop.name
      <4>1. firing # <<>> /\ firing \in Seq(HookRecords)
        BY <2>2 DEF FireHook, RegistryInv, WorldTypeInv
      <4>2. 1 \in DOMAIN firing /\ Head(firing) = firing[1]
        BY <4>1
      <4> QED
        BY <1>0, <1>4, <4>2 DEF BuiltRestored, ToFire
    <3> QED
      BY <1>0, <2>2, <3>1, <3>2, FiredHook DEF BuiltRestored
  <2>3. CASE ResetEnds
    BY <1>0, <2>3 DEF ResetEnds, BuiltRestored, objects, isaac, history, ToFire
  <2>4. CASE ResetTask
    <3>1. ResetWorld /\ UNCHANGED <<handles, targets, loop>>
      BY <2>4 DEF ResetTask, manager, objects
    <3>2. loop.name \in Arms => loop.name \in spawned /\ ~Live(loop.name)
      BY <1>4 DEF RegistryInv, LoopInv, Idle, Made
    <3> QED
      BY <1>0, <3>1, <3>2, ResetLapses DEF BuiltRestored
  <2> QED
    BY <1>4, <2>1, <2>2, <2>3, <2>4, WhileMade
<1>5. CASE SimThread /\ loop.pc \notin Made /\ (loop.pc # "spawn" \/ loop' = loop)
  BY <1>1, <1>5, SimThreadLoop DEF Made, Idle
<1>6. CASE UNCHANGED vars
  BY <1>0, <1>6 DEF vars, BuiltRestored, objects, isaac, threads, history, ToFire
<1> QED
  BY <1>2, <1>3, <1>4, <1>5, <1>6 DEF Next, EventLoop

\* The wrappers the scene may hold under an arm's name stay known in every step but
\* the arm's release and the join of its jaw, which set the entry themselves.
LEMMA KnownStays ==
    ASSUME RegistryInv, WorldTypeInv', [Next]_vars, NEW a \in Arms,
           ~(JawJoins /\ ~UNCHANGED art /\ ArmOf[Next1.name] = a),
           ~(ReleaseTask /\ Next1.name = a)
    PROVE  Known(a) \subseteq Known(a)'
<1> USE NamesFacts
<1>0. RegistryTypeInv /\ HandleInv /\ LoopInv /\ art \in [Ids -> Nat]
  BY DEF RegistryInv, WorldTypeInv
<1>1. CASE UNCHANGED vars \/ ResetVerb \/ BecomeReady \/ \E n \in Names, p \in Poses : Reconfigure(n, p)
  <2>1. UNCHANGED <<handles, loose, loop, art>>
    BY <1>1 DEF Reconfigure, ResetVerb, BecomeReady, vars, manager, objects, threads, history
  <2> QED
    BY <2>1 DEF Known, Live
<1>2. ASSUME NEW n \in Names, NEW p \in Poses, Build(n, p) PROVE Known(a) \subseteq Known(a)'
  <2>1. loop = Idle /\ UNCHANGED <<handles, loose, art>>
    BY <1>2 DEF Build, manager, objects
  <2> QED
    BY <2>1 DEF Known, Live
<1>3. ASSUME NEW n \in Names, Close(n) PROVE Known(a) \subseteq Known(a)'
  <2>1. loop = Idle /\ loose \subseteq loose' /\ UNCHANGED art /\ handles' = [handles EXCEPT ![n] = 0]
    BY <1>3 DEF Close, objects
  <2>2. CASE n # a
    <3>1. handles'[a] = handles[a]
      BY <1>0, <2>1, <2>2 DEF RegistryTypeInv
    <3> QED
      BY <2>1, <3>1 DEF Known, Live
  <2>3. CASE n = a
    <3>1. \/ handles[a] \in loose'
          \/ loop' = [pc |-> "release", name |-> a, id |-> handles[a]]
      BY <1>3, <2>3 DEF Close
    <3>2. \/ handles[a] \in loose'
          \/ loop' # Idle /\ loop'.name = a /\ loop'.id = handles[a]
      BY <3>1 DEF Idle
    <3> QED
      BY <2>1, <3>2 DEF Known, Live
  <2> QED
    BY <2>2, <2>3
<1>4. CASE Home
  <2>1. loop # Idle /\ loop' = [pc |-> "home", name |-> loop.name, id |-> loop.id]
        /\ UNCHANGED <<handles, loose, art>>
    BY <1>0, <1>4 DEF Home, Idle, RegistryTypeInv, Operations, manager, objects, history
  <2>2. loop' # Idle /\ loop'.name = loop.name /\ loop'.id = loop.id
    BY <2>1 DEF Idle
  <2> QED
    BY <2>1, <2>2 DEF Known, Live
<1>5. CASE Register
  <2>1. /\ loop # Idle /\ loop \in Operations /\ loop.pc \in Made /\ ~Live(loop.name)
        /\ handles' = [handles EXCEPT ![loop.name] = loop.id] /\ UNCHANGED <<loose, art>>
    BY <1>0, <1>5 DEF Register, Idle, RegistryTypeInv, LoopInv, Made, objects, history
  <2>2. /\ handles'[loop.name] = loop.id /\ loop.id # 0
        /\ \A m \in Names : m # loop.name => handles'[m] = handles[m]
    BY <1>0, <2>1 DEF RegistryTypeInv, Operations
  <2>3. CASE loop.name = a
    <3>1. art[loop.id] = loop.id /\ handles'[a] = loop.id /\ loop.id # 0 /\ handles[a] = 0
      BY <1>0, <2>1, <2>2, <2>3 DEF LoopInv, Live
    <3> QED
      BY <2>1, <3>1 DEF Known, Live
  <2>4. CASE loop.name # a
    <3>1. handles'[a] = handles[a]
      BY <2>2, <2>4
    <3> QED
      BY <2>1, <2>4, <3>1 DEF Known, Live
  <2> QED
    BY <2>3, <2>4
<1>6. CASE Fails \/ TimeOut
  <2>1. loose' = loose \cup {loop.id} /\ UNCHANGED <<handles, art>>
    BY <1>6 DEF Fails, TimeOut, manager, objects
  <2> QED
    BY <2>1 DEF Known, Live
<1>7. CASE SimThread
  <2>1. UNCHANGED <<handles, loose>>
    BY <1>7, SimThreadFrame
  <2>2. loop # Idle /\ loop.name = a => loop' # Idle /\ loop'.name = a /\ loop'.id = loop.id
    <3> SUFFICES ASSUME loop # Idle, loop.name = a
                 PROVE  loop' # Idle /\ loop'.name = a /\ loop'.id = loop.id
      OBVIOUS
    <3>1. CASE loop' = Idle /\ loop.pc = "release"
      <4>1. ReleaseTask
        <5>1. ASSUME NEW t, NEW pc \in {"raised", "spawned", "homed"}, Answer(t, pc) PROVE FALSE
          BY <3>1, <5>1 DEF Answer, Idle
        <5> QED
          BY <1>7, <3>1, <5>1 DEF SimThread, FireHook, SpawnFirst, Reattach, SpawnEnds, JawJoins, JawEnds,
             CupRig, CupEnds, CameraBuilds, HomeTask, ResetTask, ResetEnds, Wraps
      <4>2. Asked(Next1)
        BY <4>1, TakenTask DEF ReleaseTask
      <4> QED
        BY <4>1, <4>2 DEF Asked, AskedBy
    <3>2. CASE UNCHANGED loop
      BY <3>2
    <3>3. ASSUME NEW pc \in {"raised", "spawned", "homed"},
                 loop' = [pc |-> pc, name |-> loop.name, id |-> loop.id]
          PROVE  loop' # Idle /\ loop'.name = a /\ loop'.id = loop.id
      <4>1. loop'.pc = pc /\ loop'.name = a /\ loop'.id = loop.id
        BY <3>3
      <4> QED
        BY <4>1 DEF Idle
    <3> QED
      BY <1>7, <3>1, <3>2, <3>3, SimThreadLoop
  <2>3. ASSUME \A i \in Ids : art'[i] = art[i] \/ art[i] = 0 \/ (Live(ArmOf[Next1.name]) /\
                    ArmOf[Next1.name] \in Arms \ {a} /\ i = handles[ArmOf[Next1.name]])
        PROVE  Known(a) \subseteq Known(a)'
    <3>1. \A i \in loose : i \in Ids /\ (art'[i] = art[i] \/ art[i] = 0)
      BY <1>0, <2>3 DEF RegistryTypeInv, HandleInv
    <3>2. Live(a) => handles[a] \in Ids /\ (art'[handles[a]] = art[handles[a]] \/ art[handles[a]] = 0)
      <4>1. Live(a) => handles[a] \in Ids
        BY <1>0 DEF RegistryTypeInv, HandleInv, Live
      <4> QED
        BY <1>0, <2>3, <4>1 DEF HandleInv
    <3>3. loop # Idle => loop.id \in Ids /\ (art'[loop.id] = art[loop.id] \/ art[loop.id] = 0)
      <4>1. loop # Idle => loop.id \in Ids /\ \A n \in Names : handles[n] # loop.id
        BY <1>0 DEF RegistryTypeInv, LoopInv, Operations
      <4> QED
        BY <2>3, <4>1
    <3> QED
      BY <2>1, <2>2, <3>1, <3>2, <3>3 DEF Known, Live
  <2>4. \A i \in Ids : art'[i] = art[i] \/ art[i] = 0 \/ (Live(ArmOf[Next1.name]) /\
                    ArmOf[Next1.name] \in Arms \ {a} /\ i = handles[ArmOf[Next1.name]])
    <3>1. CASE UNCHANGED art
      BY <3>1
    <3>2. ASSUME NEW t, NEW w, Begun(t), art' = [art EXCEPT ![t.id] = w]
          PROVE  \A i \in Ids : art'[i] = art[i] \/ art[i] = 0
      BY <1>0, <3>2 DEF Begun
    <3>3. CASE JawJoins /\ art' = [art EXCEPT ![Next1.arm] = Next1.id]
      <4>1. /\ Begun(Next1) /\ Next1.name \in Jaws
            /\ loop.name \in Grippers => Live(ArmOf[loop.name]) /\ Next1.arm = handles[ArmOf[loop.name]]
            /\ loop.id = Next1.id
        BY <3>3, TakenBuild DEF JawJoins, TakesBuild
      <4>2. Live(ArmOf[Next1.name]) /\ Next1.arm = handles[ArmOf[Next1.name]]
        BY <4>1 DEF Begun
      <4>3. CASE UNCHANGED art
        BY <3>1, <4>3
      <4>4. CASE ArmOf[Next1.name] # a
        BY <1>0, <3>3, <4>1, <4>2, <4>4
      <4> QED
        BY <3>3, <4>3, <4>4
    <3> QED
      BY <1>7, <3>1, <3>2, <3>3, SimThreadArt
  <2> QED
    BY <2>3, <2>4
<1> QED
  BY <1>1, <1>2, <1>3, <1>4, <1>5, <1>6, <1>7 DEF Next

\* The scene holds a wrapper that is known, under the name of every arm.
LEMMA SceneStep == RegistryInv /\ WorldTypeInv' /\ [Next]_vars => SceneInv'
<1> SUFFICES ASSUME RegistryInv, WorldTypeInv', [Next]_vars PROVE SceneInv'
  OBVIOUS
<1> USE NamesFacts
<1>0. RegistryTypeInv /\ HandleInv /\ SceneInv /\ scene \in [Names -> Nat] /\ art \in [Ids -> Nat]
  BY DEF RegistryInv, WorldTypeInv
<1>1. CASE UNCHANGED scene /\ ~ReleaseTask /\ (~JawJoins \/ UNCHANGED art)
  BY <1>0, <1>1, KnownStays DEF SceneInv
<1>2. CASE SpawnFirst
  <2>1. Takes("build") /\ ~JawJoins /\ ~ReleaseTask
    BY <1>2 DEF SpawnFirst, TakesBuild, JawJoins, ReleaseTask, Takes
  <2>2. ASSUME NEW a \in Arms PROVE scene'[a] \in Known(a)'
    <3>1. Known(a) \subseteq Known(a)'
      BY <2>1, KnownStays DEF Next, SimThread
    <3>2. CASE scene'[a] = scene[a]
      BY <1>0, <3>1, <3>2 DEF SceneInv
    <3>3. CASE scene'[a] # scene[a]
      <4>1. scene' = [scene EXCEPT ![Next1.name] = Next1.id]
        BY <1>2, <3>3 DEF SpawnFirst, isaac
      <4>2. Next1.name = a /\ scene'[a] = Next1.id
        BY <1>0, <3>3, <4>1
      <4>3. loop.id = Next1.id /\ loop.name = a /\ loop.pc = "spawn"
        BY <2>1, <4>2, TakenBuild DEF Begun
      <4> QED
        BY <3>1, <4>2, <4>3 DEF Known, Idle
    <3> QED
      BY <3>2, <3>3
  <2> QED
    BY <2>2 DEF SceneInv
<1>3. CASE JawJoins
  <2>1. /\ Takes("build") /\ Begun(Next1) /\ Next1.name \in Jaws /\ loop.id = Next1.id /\ ~ReleaseTask
        /\ loop.name \in Grippers => Live(ArmOf[loop.name]) /\ Next1.arm = handles[ArmOf[loop.name]]
    BY <1>3, TakenBuild DEF JawJoins, TakesBuild, ReleaseTask, Takes
  <2>2. /\ Live(ArmOf[Next1.name]) /\ Next1.arm = handles[ArmOf[Next1.name]] /\ Next1.arm \in Ids
        /\ ArmOf[Next1.name] \in Arms
    BY <1>0, <2>1 DEF Begun, RegistryTypeInv
  <2>3. UNCHANGED handles
    BY <1>3 DEF JawJoins, manager
  <2>4. CASE UNCHANGED <<scene, art>>
    BY <1>1, <2>1, <2>4
  <2>5. CASE /\ scene' = [scene EXCEPT ![ArmOf[Next1.name]] = Next1.id]
             /\ art' = [art EXCEPT ![Next1.arm] = Next1.id]
    <3>0. PICK b \in Arms : b = ArmOf[Next1.name]
      BY <2>2
    <3>1. ASSUME NEW a \in Arms, a # b PROVE scene'[a] \in Known(a)'
      <4>1. Known(a) \subseteq Known(a)'
        BY <2>1, <3>0, <3>1, KnownStays
      <4> QED
        BY <1>0, <2>5, <3>0, <3>1, <4>1 DEF SceneInv
    <3>2. scene'[b] = Next1.id /\ art'[handles'[b]] = Next1.id /\ handles'[b] # 0
      BY <1>0, <2>2, <2>3, <2>5, <3>0 DEF Live
    <3>3. scene'[b] \in Known(b)'
      BY <3>2 DEF Known, Live
    <3> QED
      BY <3>1, <3>3 DEF SceneInv
  <2> QED
    BY <1>3, <2>4, <2>5 DEF JawJoins, Replaced, objects, isaac
<1>4. CASE ReleaseTask
  <2>1. scene' = [scene EXCEPT ![Next1.name] = 0] /\ ~JawJoins
    BY <1>4 DEF ReleaseTask, Releases, JawJoins, TakesBuild, Takes
  <2>2. ASSUME NEW a \in Arms PROVE scene'[a] \in Known(a)'
    <3>1. CASE a = Next1.name
      BY <1>0, <2>1, <3>1 DEF Known
    <3>2. CASE a # Next1.name
      BY <1>0, <2>1, <3>2, KnownStays DEF SceneInv
    <3> QED
      BY <3>1, <3>2
  <2> QED
    BY <2>2 DEF SceneInv
<1>5. CASE SimThread /\ ~SpawnFirst /\ ~JawJoins /\ ~ReleaseTask
  BY <1>1, <1>5 DEF SimThread, FireHook, Reattach, SpawnEnds, JawEnds, CupRig, CupEnds, CameraBuilds,
     HomeTask, ResetTask, ResetEnds, isaac
<1>6. CASE EventLoop \/ UNCHANGED vars
  <2>1. UNCHANGED <<scene, running>> /\ (UNCHANGED art)
    BY <1>6, EventLoopFrame DEF vars, objects, isaac, threads
  <2>2. CASE ReleaseTask
    BY <1>4, <2>2
  <2> QED
    BY <1>1, <2>1, <2>2
<1> QED
  BY <1>2, <1>3, <1>4, <1>5, <1>6 DEF Next, EventLoop

\* What the scene gains is marked by the build that does it.
LEMMA ClashStep == RegistryInv /\ WorldTypeInv' /\ [Next]_vars => ClashInv'
<1> SUFFICES ASSUME RegistryInv, WorldTypeInv', [Next]_vars PROVE ClashInv'
  OBVIOUS
<1> USE NamesFacts DEF ClashInv
<1>0. ClashInv /\ scene \in [Names -> Nat]
  BY DEF RegistryInv, WorldTypeInv
<1>1. CASE EventLoop \/ UNCHANGED vars
  <2>1. UNCHANGED <<clashed, torn, spawned, scene, running>>
    BY <1>1, EventLoopFrame DEF vars, manager, isaac, threads, history
  <2> QED
    BY <1>0, <2>1
<1>2. CASE SpawnFirst
  <2>1. running = NoTask /\ Next1.kind = "build" /\ UNCHANGED spawned
    BY <1>2, TakenTask DEF SpawnFirst, TakesBuild, manager
  <2>2. CASE scene[Next1.name] # 0
    <3>1. clashed' = clashed \cup {Next1.name} /\ UNCHANGED <<scene, running, torn>>
      BY <1>2, <2>2 DEF SpawnFirst, isaac
    <3>2. Next1.name \in torn
      BY <1>0, <1>2, <2>1, <2>2 DEF SpawnFirst, TakesBuild, Reattaching, NoTask
    <3> QED
      BY <1>0, <2>1, <3>1, <3>2
  <2>3. CASE scene[Next1.name] = 0
    <3>1. /\ scene' = [scene EXCEPT ![Next1.name] = Next1.id] /\ UNCHANGED clashed
          /\ \/ running' = Next1 /\ UNCHANGED torn
             \/ torn' = torn \cup {Next1.name} /\ UNCHANGED running
      BY <1>2, <2>3 DEF SpawnFirst
    <3>2. \A n \in Names : n # Next1.name => scene'[n] = scene[n]
      BY <1>0, <3>1
    <3> QED
      BY <1>0, <2>1, <3>1, <3>2 DEF NoTask
  <2> QED
    BY <2>2, <2>3
<1>3. CASE JawJoins
  <2>1. /\ Takes("build") /\ Begun(Next1) /\ Next1.name \in Jaws /\ loop.id = Next1.id
        /\ loop.name \in Grippers => Live(ArmOf[loop.name])
    BY <1>3, TakenBuild DEF JawJoins, TakesBuild
  <2>2. ArmOf[Next1.name] \in spawned
    BY <2>1 DEF Begun, RegistryInv, HandleInv
  <2>3. running = NoTask /\ UNCHANGED <<spawned, clashed, torn>>
        /\ (UNCHANGED scene \/ scene' = [scene EXCEPT ![ArmOf[Next1.name]] = Next1.id])
    BY <1>3, <2>1 DEF JawJoins, Takes, manager, isaac
  <2>4. \A n \in Names : n # ArmOf[Next1.name] => scene'[n] = scene[n]
    BY <1>0, <2>3
  <2> QED
    BY <1>0, <2>2, <2>3, <2>4 DEF NoTask
<1>4. CASE SpawnEnds
  <2>1. spawned' = spawned \cup {running.name} /\ running' = NoTask /\ UNCHANGED <<scene, clashed, torn>>
    BY <1>4 DEF SpawnEnds, Wraps, history
  <2> QED
    BY <1>0, <2>1
<1>5. CASE ReleaseTask
  <2>1. UNCHANGED <<spawned, running, clashed, torn>> /\ \A n \in Names : scene'[n] \in {scene[n], 0}
    BY <1>0, <1>5 DEF ReleaseTask, Releases, manager
  <2> QED
    BY <1>0, <2>1
<1>6. CASE JawEnds \/ CupEnds
  <2>1. CASE UNCHANGED running
    BY <1>0, <1>6, <2>1, SpawnedStays DEF JawEnds, CupEnds, manager, history, SimThread
  <2>2. CASE running.name \in Jaws \cup Cups
    <3>1. UNCHANGED <<spawned, scene, clashed, torn>> /\ running.name \notin Arms \cup Bases
      <4>1. Cups \cap Bases = {}
        BY RegistryAssumption
      <4> QED
        BY <1>6, <2>2, <4>1 DEF JawEnds, CupEnds, manager, history
    <3> QED
      BY <1>0, <3>1
  <2> QED
    BY <1>6, <2>1, <2>2 DEF JawEnds, CupEnds
<1>7. CASE CupRig \/ ResetTask
  <2>1. running = NoTask
    BY <1>7 DEF CupRig, ResetTask, TakesBuild, Takes
  <2>2. UNCHANGED <<spawned, scene, clashed, torn>>
    BY <1>7 DEF CupRig, ResetTask, manager
  <2> QED
    BY <1>0, <2>1, <2>2 DEF NoTask
<1>8. CASE ResetEnds
  BY <1>0, <1>8 DEF ResetEnds, manager, isaac, history
<1>9. CASE Reattach \/ FireHook \/ CameraBuilds \/ HomeTask
  <2>1. UNCHANGED <<scene, running, clashed, torn>> /\ spawned \subseteq spawned'
    BY <1>9, SpawnedStays DEF Reattach, FireHook, CameraBuilds, HomeTask, history, SimThread
  <2> QED
    BY <1>0, <2>1
<1> QED
  BY <1>1, <1>2, <1>3, <1>4, <1>5, <1>6, <1>7, <1>8, <1>9 DEF Next, EventLoop, SimThread

\* Nothing but a build puts an entry under a name, and it is not shut.
LEMMA ShutStep == RegistryInv /\ WorldTypeInv' /\ [Next]_vars => ShutInv'
<1> SUFFICES ASSUME RegistryInv, WorldTypeInv', [Next]_vars PROVE ShutInv'
  OBVIOUS
<1> USE NamesFacts DEF ShutInv
<1>0. ShutInv /\ RegistryTypeInv /\ scene \in [Names -> Nat] /\ callbacks \in [Names -> Nat]
  BY DEF RegistryInv, WorldTypeInv
<1>1. CASE EventLoop \/ UNCHANGED vars
  <2>1. UNCHANGED <<scene, callbacks>>
    BY <1>1, EventLoopFrame DEF vars, isaac
  <2>2. CASE Register
    <3>1. /\ loop \in Operations /\ loop.name \notin shut /\ UNCHANGED shut
          /\ handles' = [handles EXCEPT ![loop.name] = loop.id]
      BY <1>0, <2>2 DEF Register, RegistryInv, LoopInv, Idle, RegistryTypeInv, history
    <3>2. \A n \in shut : handles'[n] = handles[n]
      BY <1>0, <3>1 DEF RegistryTypeInv
    <3> QED
      BY <1>0, <2>1, <3>1, <3>2 DEF Live
  <2>3. CASE ~Register
    <3>1. shut' \subseteq shut
      BY <1>1, <2>3 DEF EventLoop, Reconfigure, Build, Close, Home, Fails, TimeOut, ResetVerb, BecomeReady,
         vars, history
    <3>2. UNCHANGED handles \/ \E n \in Names : handles' = [handles EXCEPT ![n] = 0]
      BY <1>1, <2>3 DEF EventLoop, Reconfigure, Build, Close, Home, Fails, TimeOut, ResetVerb, BecomeReady,
         vars, manager
    <3>3. \A n \in shut : handles'[n] \in {handles[n], 0}
      BY <1>0, <3>2 DEF RegistryTypeInv
    <3> QED
      BY <1>0, <2>1, <3>1, <3>3 DEF Live
  <2> QED
    BY <2>2, <2>3
<1>2. CASE ReleaseTask
  <2>1. Asked(Next1) /\ Next1.kind = "release"
    BY <1>2, TakenTask DEF ReleaseTask
  <2>2. loop # Idle /\ Next1.name = loop.name
    BY <2>1 DEF Asked, AskedBy, Waits, Idle
  <2>3. ~Live(Next1.name) /\ Next1.name \in Names
    BY <1>0, <2>2 DEF RegistryInv, LoopInv, RegistryTypeInv, Operations
  <2>4. /\ callbacks' = [callbacks EXCEPT ![Next1.name] = 0] /\ scene' = [scene EXCEPT ![Next1.name] = 0]
        /\ shut' = shut \cup {Next1.name} /\ UNCHANGED handles
    BY <1>2 DEF ReleaseTask, Releases, manager
  <2> QED
    BY <1>0, <2>3, <2>4 DEF Live
<1>3. CASE SimThread /\ ~ReleaseTask
  <2>1. UNCHANGED <<handles, shut>>
    BY <1>3, SimThreadFrame, ShutGrows
  <2>2. ASSUME NEW n, n \notin shut, NEW v, NEW w,
               UNCHANGED scene \/ scene' = [scene EXCEPT ![n] = v],
               UNCHANGED callbacks \/ callbacks' = [callbacks EXCEPT ![n] = w]
        PROVE  ShutInv'
    <3>1. \A m \in shut : scene'[m] = scene[m] /\ callbacks'[m] = callbacks[m]
      BY <1>0, <2>2
    <3> QED
      BY <1>0, <2>1, <3>1 DEF Live
  <2>3. ASSUME NEW t, Begun(t), Wraps(t), UNCHANGED scene PROVE ShutInv'
    <3>1. PICK w : UNCHANGED callbacks \/ callbacks' = [callbacks EXCEPT ![t.name] = w]
      BY <2>3 DEF Wraps, Handle
    <3> QED
      BY <2>2, <2>3, <3>1 DEF Begun
  <2>4. CASE Reattach
    <3>1. Begun(Next1)
      BY <2>4, TakenBuild DEF Reattach, TakesBuild
    <3> QED
      BY <2>3, <2>4, <3>1 DEF Reattach
  <2>5. CASE SpawnEnds
    <3>1. Begun(running)
      BY <2>5 DEF SpawnEnds, RegistryInv, RunningInv
    <3> QED
      BY <2>3, <2>5, <3>1 DEF SpawnEnds
  <2>6. CASE SpawnFirst
    <3>1. Next1.name \notin shut
      BY <2>6, TakenBuild DEF SpawnFirst, TakesBuild, Begun
    <3>2. UNCHANGED callbacks /\ (UNCHANGED scene \/ scene' = [scene EXCEPT ![Next1.name] = Next1.id])
      BY <2>6 DEF SpawnFirst, isaac
    <3> QED
      BY <2>2, <3>1, <3>2
  <2>7. CASE JawJoins
    <3>1. /\ Begun(Next1) /\ Next1.name \in Jaws /\ loop.id = Next1.id
          /\ loop.name \in Grippers => Live(ArmOf[loop.name])
      BY <2>7, TakenBuild DEF JawJoins, TakesBuild
    <3>2. ArmOf[Next1.name] \notin shut
      BY <1>0, <3>1 DEF Begun
    <3>3. UNCHANGED callbacks
          /\ (UNCHANGED scene \/ scene' = [scene EXCEPT ![ArmOf[Next1.name]] = Next1.id])
      BY <2>7 DEF JawJoins, isaac
    <3> QED
      BY <2>2, <3>2, <3>3
  <2>8. CASE CupEnds
    <3>1. PICK t : Begun(t) /\ callbacks' = [callbacks EXCEPT ![t.name] = t.id]
      <4>1. CASE running.kind = "build" /\ callbacks' = [callbacks EXCEPT ![running.name] = running.id]
        BY <4>1 DEF RegistryInv, RunningInv
      <4>2. CASE TakesBuild(Cups) /\ callbacks' = [callbacks EXCEPT ![Next1.name] = Next1.id]
        BY <4>2, TakenBuild DEF TakesBuild
      <4> QED
        BY <2>8, <4>1, <4>2 DEF CupEnds
    <3> QED
      BY <2>2, <2>8, <3>1 DEF CupEnds, Begun
  <2>9. CASE FireHook \/ JawEnds \/ CupRig \/ CameraBuilds \/ HomeTask \/ ResetTask \/ ResetEnds
    <3>1. UNCHANGED <<scene, callbacks>>
      BY <2>9 DEF FireHook, JawEnds, CupRig, CameraBuilds, HomeTask, ResetTask, ResetEnds, isaac
    <3> QED
      BY <1>0, <2>1, <3>1 DEF Live
  <2> QED
    BY <1>3, <2>4, <2>5, <2>6, <2>7, <2>8, <2>9 DEF SimThread
<1> QED
  BY <1>1, <1>2, <1>3 DEF Next, EventLoop

\* The answer that a jaw is spawned: it has joined its arm.
LEMMA JawSpawned ==
    ASSUME RegistryInv, SimThread, loop.pc = "spawn", loop'.pc = "spawned", loop.name \in Jaws
    PROVE  /\ JawEnds /\ lapsed' = lapsed \ {ArmOf[loop.name]}
           /\ running.name = loop.name /\ running.id = loop.id
           /\ art' = [art EXCEPT ![loop.id] = art[running.arm]]
           /\ gains' = [gains EXCEPT ![running.arm] = "free"]
           /\ drives' = [drives EXCEPT ![ArmOf[loop.name]] = "free"]
           /\ loop'.name = loop.name /\ loop'.id = loop.id
<1> USE NamesFacts
<1>1. CASE JawEnds
  <2>1. Begun(running)
    BY <1>1 DEF JawEnds, RegistryInv, RunningInv
  <2>2. ~Answer(running, "raised")
    BY <2>1, AnswerToBuild
  <2>3. Answer(running, "spawned")
    BY <1>1, <2>2 DEF JawEnds
  <2>4. running.name = loop.name /\ running.id = loop.id /\ loop'.name = loop.name /\ loop'.id = loop.id
    BY <2>1, <2>3, AnswerToBuild
  <2> QED
    BY <1>1, <2>2, <2>4 DEF JawEnds, GainsRetaken, DrivesReleased
<1>2. CASE FireHook \/ ResetTask \/ ResetEnds
  BY <1>2 DEF FireHook, ResetTask, ResetEnds
<1>3. CASE SpawnFirst \/ JawJoins \/ CupRig
  <2>1. Begun(Next1) /\ (Answer(Next1, "raised") \/ UNCHANGED loop)
    BY <1>3, TakenBuild DEF SpawnFirst, JawJoins, CupRig, TakesBuild
  <2> QED
    BY <2>1, AnswerToBuild
<1>4. CASE Reattach \/ CameraBuilds \/ (TakesBuild(Cups) /\ CupEnds)
  <2>1. Takes("build") /\ Next1.name \notin Jaws
    BY <1>4 DEF Reattach, CameraBuilds, TakesBuild
  <2>2. Begun(Next1) /\ loop.id = Next1.id
    BY <2>1, TakenBuild
  <2> QED
    BY <2>1, <2>2 DEF Begun
<1>5. CASE SpawnEnds \/ (running.kind = "build" /\ running.name \in Cups /\ Answer(running, "spawned"))
  <2>1. Begun(running) /\ running.name \notin Jaws
    BY <1>5 DEF SpawnEnds, RegistryInv, RunningInv
  <2>2. Answer(running, "raised") \/ Answer(running, "spawned")
    BY <1>5 DEF SpawnEnds, Wraps
  <2>3. UNCHANGED loop \/ loop.name = running.name
    BY <2>1, <2>2, AnswerToBuild
  <2> QED
    BY <2>1, <2>3
<1>6. CASE HomeTask \/ ReleaseTask
  <2>1. Asked(Next1) /\ Next1.kind \in {"home", "release"}
    BY <1>6, TakenTask DEF HomeTask, ReleaseTask
  <2> QED
    BY <2>1 DEF Asked, AskedBy, KindAt, Waits
<1>7. CASE CupEnds
  BY <1>4, <1>5, <1>7 DEF CupEnds
<1> QED
  BY <1>1, <1>2, <1>3, <1>4, <1>5, <1>6, <1>7 DEF SimThread

\* A jaw that is fitted after a step of the sim thread was fitted before, its handle
\* the same, or joins in it.
LEMMA FittedStays ==
    ASSUME RegistryInv, SimThread, NEW j \in Jaws, Fitted(j)'
    PROVE  \/ Fitted(j) /\ HandleOf(j)' = HandleOf(j) /\ (Live(j) \/ (loop.pc = "spawned" /\ loop.name = j))
           \/ ~Live(j) /\ loop.pc = "spawn" /\ loop'.pc = "spawned" /\ loop.name = j
<1>1. UNCHANGED handles
  BY SimThreadFrame
<1>2. CASE Live(j)
  BY <1>1, <1>2 DEF Fitted, HandleOf, Live
<1>3. CASE ~Live(j) /\ loop'.pc = "spawned" /\ loop'.name = j
  <2>1. CASE UNCHANGED loop
    BY <1>1, <1>3, <2>1 DEF Fitted, HandleOf, Live
  <2>2. CASE \E pc \in {"raised", "spawned"} :
                loop.pc = "spawn" /\ loop' = [pc |-> pc, name |-> loop.name, id |-> loop.id]
    BY <1>3, <2>2
  <2> QED
    BY <1>3, <2>1, <2>2, SimThreadLoop DEF Idle
<1> QED
  BY <1>1, <1>2, <1>3 DEF Fitted, Live

\* What of the jaws' settings the steps of the sim thread leave.
LEMMA JoinedStep ==
    ASSUME OneJawEach, RegistryInv, WorldTypeInv', SimThread, NEW j \in Jaws, Fitted(j), Joined(j),
           HandleOf(j)' = HandleOf(j)
    PROVE  Joined(j)'
<1> USE NamesFacts
<1>0. RegistryTypeInv /\ HandleInv /\ LoopInv /\ art \in [Ids -> Nat]
  BY DEF RegistryInv, WorldTypeInv
<1>1. UNCHANGED handles /\ spawned \subseteq spawned'
  BY SimThreadFrame, SpawnedStays
<1> DEFINE a == ArmOf[j]
<1>2. a \in Arms /\ j \notin Arms /\ a \in Names /\ j \in Names
  OBVIOUS
<1> HIDE DEF a
<1>3. ASSUME UNCHANGED art \/ (Live(a) => art'[handles[a]] = art[handles[a]]
                                          /\ art'[HandleOf(j)] = art[HandleOf(j)])
      PROVE  Joined(j)'
  BY <1>1, <1>3 DEF Joined, Live, a
<1>4. CASE loop.pc = "spawned"
  <2>1. UNCHANGED art
    BY <1>4, ArtIsLeft
  <2> QED
    BY <1>3, <2>1
<1>5. CASE loop.pc # "spawned"
  <2>1. Live(j) /\ HandleOf(j) = handles[j] /\ handles[j] \in Nat /\ handles[a] \in Nat
    BY <1>0, <1>2, <1>5 DEF Fitted, HandleOf, RegistryTypeInv
  <2>2. ASSUME NEW t, NEW w, Begun(t), art' = [art EXCEPT ![t.id] = w] PROVE Joined(j)'
    <3>1. handles[a] # t.id /\ handles[j] # t.id
      BY <1>2, <2>2 DEF Begun
    <3>2. Live(a) => handles[a] \in Ids /\ handles[j] \in Ids
      BY <1>0, <1>2, <2>1 DEF Live, HandleInv, RegistryTypeInv
    <3> QED
      BY <1>0, <1>3, <2>1, <2>2, <3>1, <3>2
  <2>3. CASE JawJoins /\ art' = [art EXCEPT ![Next1.arm] = Next1.id]
    <3>1. /\ Begun(Next1) /\ Next1.name \in Jaws
          /\ loop.name \in Grippers => Live(ArmOf[loop.name]) /\ Next1.arm = handles[ArmOf[loop.name]]
          /\ loop.id = Next1.id
      BY <2>3, TakenBuild DEF JawJoins, TakesBuild
    <3>2. /\ Live(ArmOf[Next1.name]) /\ Next1.arm = handles[ArmOf[Next1.name]]
          /\ ArmOf[Next1.name] \in Arms /\ Next1.name # j
      BY <2>1, <3>1 DEF Begun
    <3>3. ArmOf[Next1.name] # a
      BY <3>1, <3>2 DEF OneJawEach, a
    <3>4. handles[a] # Next1.arm /\ handles[j] # Next1.arm
      BY <1>0, <1>2, <3>2, <3>3 DEF HandleInv
    <3>5. Live(a) => handles[a] \in Ids /\ handles[j] \in Ids
      BY <1>0, <1>2, <2>1 DEF Live, HandleInv, RegistryTypeInv
    <3> QED
      BY <1>0, <1>3, <2>1, <2>3, <3>4, <3>5
  <2> QED
    BY <1>3, <2>2, <2>3, SimThreadArt
<1> QED
  BY <1>4, <1>5

\* Where the gains snapshots and the drives change but by a reset and its hooks.
LEMMA DrivesFreeStep ==
    ASSUME OneJawEach, RegistryInv, WorldTypeInv', SimThread, NEW j \in Jaws, Fitted(j),
           Joined(j), DrivesFree(j)
    PROVE  DrivesFree(j)'
<1> USE NamesFacts
<1>0. RegistryTypeInv /\ HandleInv /\ gains \in [Ids -> {"none", "stiff", "free"}]
      /\ drives \in [Arms -> {"stiff", "free"}]
  BY DEF RegistryInv, WorldTypeInv
<1>1. UNCHANGED handles
  BY SimThreadFrame
<1> DEFINE a == ArmOf[j]
<1>2. a \in Arms /\ a \in Names /\ (Live(a) => handles[a] \in Ids)
  BY <1>0 DEF Live, HandleInv, RegistryTypeInv
<1>3. a \in spawned
  BY DEF Joined
<1>4. DrivesFree(j)' = (a \notin lapsed' =>
                          /\ drives'[a] = "free" \/ ToFire(a)'
                          /\ \A i \in DOMAIN firing' : firing'[i].owner = a => gains'[firing'[i].id] = "free"
                          /\ Live(a) => gains'[handles[a]] = "free")
  BY <1>1 DEF DrivesFree, Live, ToFire
<1>5. a \notin lapsed => /\ drives[a] = "free" \/ ToFire(a)
                         /\ \A i \in DOMAIN firing : firing[i].owner = a => gains[firing[i].id] = "free"
                         /\ Live(a) => gains[handles[a]] = "free"
  BY DEF DrivesFree
<1> HIDE DEF a
<1>6. ASSUME firing = <<>>, UNCHANGED <<firing, lapsed, drives>>,
             Live(a) => gains'[handles[a]] = gains[handles[a]]
      PROVE  DrivesFree(j)'
  <2>1. DOMAIN firing = {} /\ DOMAIN firing' = {}
    BY <1>6
  <2>2. ~ToFire(a)
    BY <2>1 DEF ToFire
  <2> QED
    BY <1>4, <1>5, <1>6, <2>1, <2>2
<1>7. ASSUME ResetWorld, Live(a) => gains'[handles[a]] = gains[handles[a]]
      PROVE  DrivesFree(j)'
  <2>1. SUFFICES ASSUME a \notin lapsed' PROVE DrivesFree(j)'
    BY <1>4
  <2>2. a \notin lapsed /\ FiresItself(a)' /\ ToFire(a)' /\ Live(a)
    BY <1>1, <1>2, <1>3, <1>7, <2>1, ResetLapses
  <2>3. \A i \in DOMAIN firing' : firing'[i].owner = a => firing'[i].id = handles[a]
    BY <1>1, <2>2 DEF FiresItself
  <2> QED
    BY <1>4, <1>5, <1>7, <2>2, <2>3
<1>8. ASSUME lapsed' = lapsed \cup (Arms \cap spawned) PROVE DrivesFree(j)'
  BY <1>2, <1>3, <1>4, <1>8
<1>9. CASE FireHook
  <2>1. UNCHANGED <<gains, lapsed>> /\ firing # <<>> /\ firing \in Seq(HookRecords) /\ firing' = Tail(firing)
    BY <1>9 DEF FireHook, objects, history, RegistryInv, WorldTypeInv
  <2>2. /\ 1 \in DOMAIN firing /\ Head(firing) = firing[1]
        /\ \A i \in DOMAIN firing' : i + 1 \in DOMAIN firing /\ firing'[i] = firing[i + 1]
    BY <2>1
  <2>3. /\ ToFire(a) => ToFire(a)' \/ Head(firing).owner = a
        /\ Head(firing).owner # a => drives'[a] = drives[a]
        /\ Head(firing).owner = a =>
              drives'[a] = IF gains[Head(firing).id] = "none" THEN drives[a] ELSE gains[Head(firing).id]
    BY <1>2, <1>9, FiredHook
  <2>4. a \notin lapsed /\ Head(firing).owner = a => gains[Head(firing).id] = "free"
    BY <1>5, <2>2
  <2>5. a \notin lapsed => drives'[a] = "free" \/ ToFire(a)'
    BY <1>5, <2>3, <2>4
  <2>6. a \notin lapsed => \A i \in DOMAIN firing' : firing'[i].owner = a => gains'[firing'[i].id] = "free"
    BY <1>5, <2>1, <2>2
  <2> QED
    BY <1>4, <1>5, <2>1, <2>5, <2>6
<1>10. ASSUME NEW t, Begun(t), Wraps(t), firing = <<>>, UNCHANGED <<firing, lapsed>> PROVE DrivesFree(j)'
  <2>1. UNCHANGED drives /\ (UNCHANGED gains \/ gains' = [gains EXCEPT ![t.id] = drives[t.name]])
    BY <1>10 DEF Wraps, Handle, objects
  <2>2. Live(a) => handles[a] # t.id /\ handles[a] \in Ids
    BY <1>2, <1>10 DEF Begun
  <2> QED
    BY <1>0, <1>6, <1>10, <2>1, <2>2
<1>11. CASE SpawnEnds
  <2>1. Begun(running)
    BY <1>11 DEF SpawnEnds, RegistryInv, RunningInv
  <2> QED
    BY <1>10, <1>11, <2>1 DEF SpawnEnds, history
<1>12. CASE Reattach
  <2>1. Begun(Next1) /\ firing = <<>>
    BY <1>12, TakenBuild, TakenTask DEF Reattach, TakesBuild
  <2> QED
    BY <1>10, <1>12, <2>1 DEF Reattach, history
<1>13. CASE JawJoins
  <2>1. /\ Begun(Next1) /\ Next1.name \in Jaws /\ firing = <<>>
        /\ loop.name \in Grippers => Live(ArmOf[loop.name]) /\ Next1.arm = handles[ArmOf[loop.name]]
        /\ loop.id = Next1.id
    BY <1>13, TakenBuild, TakenTask DEF JawJoins, TakesBuild
  <2>2. /\ Live(ArmOf[Next1.name]) /\ Next1.arm = handles[ArmOf[Next1.name]]
        /\ ArmOf[Next1.name] \in Arms /\ Next1.name # j
    BY <2>1 DEF Begun, Fitted
  <2>3. ArmOf[Next1.name] # a
    BY <2>1, <2>2 DEF OneJawEach, a
  <2>4. Live(a) => handles[a] # Next1.arm /\ handles[a] \in Ids
    BY <1>0, <1>2, <2>2, <2>3 DEF HandleInv
  <2>5. UNCHANGED gains \/ gains' = [gains EXCEPT ![Next1.arm] = "none"]
    BY <1>13 DEF JawJoins, objects
  <2>6. Live(a) => gains'[handles[a]] = gains[handles[a]]
    BY <1>0, <2>4, <2>5
  <2>7. \/ ResetWorld \/ lapsed' = lapsed \cup (Arms \cap spawned)
        \/ UNCHANGED <<firing, lapsed, drives>>
    BY <1>13 DEF JawJoins, ResetRaises, isaac
  <2> QED
    BY <1>6, <1>7, <1>8, <2>1, <2>6, <2>7
<1>14. CASE JawEnds
  <2>1. Begun(running) /\ running.name \in Jaws
    BY <1>14 DEF JawEnds, RegistryInv, RunningInv
  <2>2. running.name # j
    BY <2>1 DEF Begun, Fitted
  <2>3. ArmOf[running.name] # a
    BY <2>1, <2>2 DEF OneJawEach, a
  <2>4. handles[a] # running.arm
    BY <1>2, <2>1, <2>3 DEF Begun
  <2>5. /\ UNCHANGED gains \/ gains' = [gains EXCEPT ![running.arm] = "free"]
        /\ UNCHANGED drives \/ drives' = [drives EXCEPT ![ArmOf[running.name]] = "free"]
        /\ UNCHANGED lapsed \/ lapsed' = lapsed \ {ArmOf[running.name]}
        /\ firing = <<>> /\ UNCHANGED firing
    BY <1>14 DEF JawEnds, GainsRetaken, DrivesReleased
  <2>6. /\ Live(a) => gains'[handles[a]] = gains[handles[a]]
        /\ drives'[a] = drives[a] /\ (a \notin lapsed' => a \notin lapsed)
    BY <1>0, <1>2, <2>3, <2>4, <2>5
  <2> QED
    <3>1. DOMAIN firing = {} /\ DOMAIN firing' = {}
      BY <2>5
    <3>2. ~ToFire(a)
      BY <3>1 DEF ToFire
    <3> QED
      BY <1>4, <1>5, <2>6, <3>1, <3>2
<1>15. CASE SpawnFirst \/ CupRig
  <2>1. firing = <<>> /\ UNCHANGED gains
    BY <1>15, TakenTask DEF SpawnFirst, CupRig, TakesBuild, objects
  <2>2. \/ ResetWorld \/ lapsed' = lapsed \cup (Arms \cap spawned)
        \/ UNCHANGED <<firing, lapsed, drives>>
    BY <1>15 DEF SpawnFirst, CupRig, ResetRaises, isaac
  <2> QED
    BY <1>6, <1>7, <1>8, <2>1, <2>2
<1>16. CASE ResetTask
  <2>1. ResetWorld /\ UNCHANGED gains
    BY <1>16 DEF ResetTask, objects
  <2> QED
    BY <1>7, <2>1
<1>17. CASE CupEnds \/ CameraBuilds \/ HomeTask \/ ReleaseTask \/ ResetEnds
  <2>1. UNCHANGED <<gains, drives, firing, lapsed>>
    BY <1>17 DEF CupEnds, CameraBuilds, HomeTask, ReleaseTask, ResetEnds, objects, isaac, history
  <2> QED
    BY <1>4, <1>5, <2>1 DEF ToFire
<1> QED
  BY <1>9, <1>11, <1>12, <1>13, <1>14, <1>15, <1>16, <1>17 DEF SimThread

\* An arm rebuilt under its jaw snapshots drives that are free.
LEMMA RebuiltFreeStep ==
    ASSUME RegistryInv, WorldTypeInv', SimThread, NEW j \in Jaws, Joined(j), DrivesFree(j), RebuiltFree(j)
    PROVE  RebuiltFree(j)'
<1> USE NamesFacts
<1> DEFINE a == ArmOf[j]
<1>1. a \in Arms /\ a \in spawned
  BY DEF Joined
<1>2. /\ RebuiltFree(j)' <=> (a \notin lapsed' /\ loop'.name = a /\ loop'.pc \in Made => gains'[loop'.id] = "free")
      /\ a \notin lapsed /\ loop.name = a /\ loop.pc \in Made => gains[loop.id] = "free"
      /\ a \notin lapsed => drives[a] = "free" \/ ToFire(a)
  BY DEF RebuiltFree, DrivesFree
<1> HIDE DEF a
<1>3. SUFFICES ASSUME a \notin lapsed', loop'.name = a, loop'.pc \in Made
               PROVE  gains'[loop'.id] = "free"
  BY <1>2
<1>4. CASE loop.pc \in Made
  <2>1. loop'.name = loop.name /\ loop'.id = loop.id
    BY <1>3, <1>4, SimThreadLoop DEF Made, Idle
  <2>2. CASE ResetTask
    <3>1. ResetWorld /\ UNCHANGED handles
      BY <2>2 DEF ResetTask, manager
    <3>2. Live(a)
      BY <1>1, <1>3, <3>1, ResetLapses
    <3>3. ~Live(loop.name)
      BY <1>4 DEF RegistryInv, LoopInv, Idle, Made
    <3> QED
      BY <1>3, <2>1, <3>2, <3>3
  <2>3. CASE FireHook \/ ResetEnds \/ HomeTask
    <3>1. UNCHANGED <<gains, lapsed>>
      BY <2>3 DEF FireHook, ResetEnds, HomeTask, objects, history
    <3> QED
      BY <1>2, <1>3, <1>4, <2>1, <3>1
  <2> QED
    BY <1>4, <2>2, <2>3, WhileMade
<1>5. CASE loop.pc \notin Made
  <2>1. loop.pc = "spawn" /\ loop'.pc = "spawned" /\ loop.name = a /\ loop'.id = loop.id
    <3>1. PICK pc \in {"raised", "spawned"} :
                loop.pc = "spawn" /\ loop' = [pc |-> pc, name |-> loop.name, id |-> loop.id]
      BY <1>3, <1>5, SimThreadLoop DEF Made, Idle
    <3> QED
      BY <1>3, <3>1 DEF Made
  <2>2. gains'[loop.id] = drives[a] /\ firing = <<>> /\ UNCHANGED lapsed
    BY <1>1, <2>1, ArmSpawned
  <2>3. ~ToFire(a)
    BY <2>2 DEF ToFire
  <2> QED
    BY <1>2, <1>3, <2>1, <2>2, <2>3
<1> QED
  BY <1>4, <1>5

\* A jaw that has just joined.
LEMMA JoinFits ==
    ASSUME RegistryInv, WorldTypeInv', SimThread, NEW j \in Jaws,
           ~Live(j), loop.pc = "spawn", loop'.pc = "spawned", loop.name = j
    PROVE  Joined(j)' /\ DrivesFree(j)' /\ RebuiltFree(j)'
<1> USE NamesFacts
<1>0. /\ HandleInv /\ RegistryTypeInv /\ art \in [Ids -> Nat] /\ drives \in [Arms -> {"stiff", "free"}]
      /\ gains \in [Ids -> {"none", "stiff", "free"}]
  BY DEF RegistryInv, WorldTypeInv
<1>1. UNCHANGED handles /\ spawned \subseteq spawned'
  BY SimThreadFrame, SpawnedStays
<1> DEFINE a == ArmOf[j]
<1>2. a \in Arms /\ a \in Names /\ j \notin Arms
  OBVIOUS
<1>3. /\ JawEnds /\ running.name = j /\ running.id = loop.id
      /\ art' = [art EXCEPT ![loop.id] = art[running.arm]]
      /\ gains' = [gains EXCEPT ![running.arm] = "free"]
      /\ drives' = [drives EXCEPT ![a] = "free"]
      /\ loop'.name = j /\ loop'.id = loop.id
  BY JawSpawned
<1>4. Begun(running) /\ firing = <<>> /\ UNCHANGED firing
  BY <1>3 DEF JawEnds, RegistryInv, RunningInv
<1>5. loop # Idle /\ Live(a) /\ loop.id \in 1..builds /\ handles[a] # loop.id
  BY <1>2 DEF Idle, RegistryInv, LoopInv
<1>6. handles[a] = running.arm /\ handles[a] \in Ids /\ loop.id \in Ids /\ a \in spawned
  <2>1. handles[a] \in {0, running.arm}
    BY <1>3, <1>4 DEF Begun
  <2> QED
    BY <1>0, <1>2, <1>3, <1>4, <1>5, <2>1 DEF Begun, Live, RegistryTypeInv, HandleInv
<1>7. /\ art'[loop.id] = art[handles[a]] /\ art'[handles[a]] = art[handles[a]]
      /\ gains'[handles[a]] = "free" /\ drives'[a] = "free"
  BY <1>0, <1>2, <1>3, <1>5, <1>6
<1>8. DOMAIN firing' = {} /\ HandleOf(j)' = loop.id
  BY <1>1, <1>3, <1>4 DEF HandleOf, Live
<1> HIDE DEF a
<1>9. Joined(j)'
  BY <1>1, <1>5, <1>6, <1>7, <1>8 DEF Joined, Live, a
<1>10. DrivesFree(j)'
  BY <1>1, <1>7, <1>8 DEF DrivesFree, Live, ToFire, a
<1>11. RebuiltFree(j)'
  BY <1>2, <1>3 DEF RebuiltFree, a
<1> QED
  BY <1>9, <1>10, <1>11

\* A step keeps what is known of the jaws.
LEMMA JawStep ==
    ASSUME OneJawEach, RegistryInv, JawInv, RegistryTypeInv', WorldTypeInv', [Next]_vars
    PROVE  JawInv'
<1> USE NamesFacts
<1>0. RegistryTypeInv /\ HandleInv
  BY DEF RegistryInv
<1>1. SUFFICES ASSUME NEW j \in Jaws, Fitted(j)' PROVE Joined(j)' /\ DrivesFree(j)' /\ RebuiltFree(j)'
  BY DEF JawInv
<1> DEFINE a == ArmOf[j]
<1>2. a \in Arms /\ a \in Names /\ j \in Names /\ j \notin Homed /\ j # a
  OBVIOUS
<1> HIDE DEF a
<1>3. ASSUME UNCHANGED <<spawned, art, gains, drives, firing, lapsed>>, Fitted(j),
             HandleOf(j)' = HandleOf(j), handles'[a] \in {0, handles[a]},
             loop'.name = a /\ loop'.pc \in Made =>
                loop.name = a /\ loop.pc \in Made /\ loop'.id = loop.id
      PROVE  Joined(j)' /\ DrivesFree(j)' /\ RebuiltFree(j)'
  <2>1. Joined(j) /\ DrivesFree(j) /\ RebuiltFree(j)
    BY <1>3 DEF JawInv
  <2>2. Joined(j)'
    BY <1>3, <2>1 DEF Joined, Live, a
  <2>3. DrivesFree(j)'
    BY <1>3, <2>1 DEF DrivesFree, Live, ToFire, a
  <2>4. RebuiltFree(j)'
    BY <1>3, <2>1 DEF RebuiltFree, a
  <2> QED
    BY <2>2, <2>3, <2>4
<1>4. CASE UNCHANGED <<handles, loop>> /\ (EventLoop \/ UNCHANGED vars)
  <2>1. UNCHANGED <<spawned, art, gains, drives, firing, lapsed>>
    BY <1>4, EventLoopFrame DEF vars, manager, objects, isaac, threads, history
  <2>2. Fitted(j) /\ HandleOf(j)' = HandleOf(j)
    BY <1>1, <1>4 DEF Fitted, HandleOf, Live
  <2> QED
    BY <1>3, <1>4, <2>1, <2>2
<1>5. CASE UNCHANGED handles /\ EventLoop /\ loop'.pc \in {"idle", "spawn"}
  <2>1. UNCHANGED <<spawned, art, gains, drives, firing, lapsed>>
    BY <1>5, EventLoopFrame
  <2>2. Fitted(j) /\ HandleOf(j)' = HandleOf(j)
    BY <1>1, <1>5 DEF Fitted, HandleOf, Live
  <2> QED
    BY <1>3, <1>5, <2>1, <2>2 DEF Made
<1>6. ASSUME NEW n \in Names, Close(n) PROVE Joined(j)' /\ DrivesFree(j)' /\ RebuiltFree(j)'
  <2>1. UNCHANGED <<spawned, art, gains, drives, firing, lapsed>>
    BY <1>6, EventLoopFrame DEF EventLoop
  <2>2. loop = Idle /\ loop'.pc \in {"idle", "release"} /\ handles' = [handles EXCEPT ![n] = 0]
    BY <1>6 DEF Close, Idle
  <2>3. handles'[a] \in {0, handles[a]} /\ handles'[j] \in {0, handles[j]}
    BY <1>0, <1>2, <2>2 DEF RegistryTypeInv
  <2>4. Fitted(j) /\ HandleOf(j)' = HandleOf(j)
    BY <1>1, <2>2, <2>3 DEF Fitted, HandleOf, Live
  <2> QED
    BY <1>3, <2>1, <2>2, <2>3, <2>4 DEF Made
<1>7. CASE Home
  <2>1. UNCHANGED <<spawned, art, gains, drives, firing, lapsed>>
    BY <1>7, EventLoopFrame DEF EventLoop
  <2>2. /\ UNCHANGED handles /\ loop.pc = "spawned"
        /\ loop' = [pc |-> "home", name |-> loop.name, id |-> loop.id]
    BY <1>0, <1>7 DEF Home, Idle, RegistryTypeInv, Operations, manager
  <2>3. loop'.pc = "home" /\ loop'.name = loop.name /\ loop'.id = loop.id
    BY <2>2
  <2>4. Fitted(j) /\ HandleOf(j)' = HandleOf(j)
    BY <1>1, <2>2, <2>3 DEF Fitted, HandleOf, Live
  <2> QED
    BY <1>3, <2>1, <2>2, <2>3, <2>4 DEF Made
<1>8. CASE Register
  <2>1. UNCHANGED <<spawned, art, gains, drives, firing, lapsed>>
    BY <1>8, EventLoopFrame DEF EventLoop
  <2>2. /\ loop \in Operations /\ ~Live(loop.name) /\ loop' = Idle /\ loop.id = builds /\ loop.pc \in Made
        /\ handles' = [handles EXCEPT ![loop.name] = loop.id]
        /\ loop.name = j => loop.pc = "spawned"
    BY <1>0, <1>2, <1>8 DEF Register, RegistryInv, LoopInv, Idle, RegistryTypeInv, Made
  <2>3. loop.name \in Names /\ loop.id \in Ids
    BY <2>2 DEF Operations
  <2>4. /\ handles'[loop.name] = loop.id /\ \A m \in Names : m # loop.name => handles'[m] = handles[m]
    BY <1>0, <2>2, <2>3 DEF RegistryTypeInv
  <2>5. Fitted(j) /\ HandleOf(j)' = HandleOf(j)
    <3>1. CASE loop.name = j
      BY <1>1, <2>2, <2>3, <2>4, <3>1 DEF Fitted, HandleOf, Live
    <3>2. CASE loop.name # j
      BY <1>1, <1>2, <2>2, <2>4, <3>2 DEF Fitted, HandleOf, Live, Idle
    <3> QED
      BY <3>1, <3>2
  <2>6. CASE loop.name # a
    BY <1>2, <1>3, <2>1, <2>2, <2>4, <2>5, <2>6 DEF Idle, Made
  <2>7. CASE loop.name = a
    <3>1. Joined(j) /\ DrivesFree(j) /\ RebuiltFree(j)
      BY <2>5 DEF JawInv
    <3>2. Live(j) /\ HandleOf(j)' = handles[j] /\ handles'[a] = loop.id /\ loop.id # 0
      BY <1>2, <2>2, <2>3, <2>4, <2>5, <2>7 DEF Fitted, HandleOf
    <3>3. ~(handles'[a] < HandleOf(j)')
      <4>1. PICK h \in Nat, b \in Nat : h = handles[j] /\ b = builds /\ h <= b
        BY <1>0, <1>2 DEF RegistryTypeInv, HandleInv
      <4> QED
        BY <2>2, <3>2, <4>1
    <3>4. Joined(j)'
      BY <2>1, <3>1, <3>3 DEF Joined, a
    <3>5. DrivesFree(j)'
      BY <2>1, <2>2, <2>7, <3>1, <3>2 DEF DrivesFree, RebuiltFree, Live, ToFire, a
    <3>6. RebuiltFree(j)'
      BY <2>2 DEF RebuiltFree, Idle, Made
    <3> QED
      BY <3>4, <3>5, <3>6
  <2> QED
    BY <2>6, <2>7
<1>9. CASE SimThread
  <2>1. CASE ~Live(j) /\ loop.pc = "spawn" /\ loop'.pc = "spawned" /\ loop.name = j
    BY <1>9, <2>1, JoinFits
  <2>2. CASE Fitted(j) /\ HandleOf(j)' = HandleOf(j)
    <3>1. Joined(j) /\ DrivesFree(j) /\ RebuiltFree(j)
      BY <2>2 DEF JawInv
    <3> QED
      BY <1>9, <2>2, <3>1, JoinedStep, DrivesFreeStep, RebuiltFreeStep
  <2> QED
    BY <1>1, <1>9, <2>1, <2>2, FittedStays
<1> QED
  <2>1. ASSUME EventLoop \/ UNCHANGED vars, ~Home, ~Register, \A n \in Names : ~Close(n)
        PROVE  UNCHANGED handles /\ (UNCHANGED loop \/ (EventLoop /\ loop'.pc \in {"idle", "spawn"}))
    BY <2>1 DEF EventLoop, Reconfigure, Build, Fails, TimeOut, ResetVerb, BecomeReady, vars, manager,
       threads, Idle
  <2> QED
    BY <1>4, <1>5, <1>6, <1>7, <1>8, <1>9, <2>1 DEF Next, EventLoop

-----------------------------------------------------------------------------
(***************************************************************************)
(* The theorems.                                                           *)
(***************************************************************************)
\* RegistryInv holds from the start and in every step.
LEMMA RegistryInduction == Spec => []RegistryInv
<1>1. RegistryInv /\ [Next]_vars => RegistryInv'
  <2> SUFFICES ASSUME RegistryInv, [Next]_vars PROVE RegistryInv'
    OBVIOUS
  <2>1. RegistryTypeInv' /\ WorldTypeInv'
    BY TypeStep, WorldTypeStep
  <2>2. HandleInv' /\ LoopInv' /\ QueueInv' /\ RunningInv'
    BY <2>1, HandleStep, LoopStep, QueueStep, RunningStep
  <2>3. HooksAreTheLiveHandles' /\ RestoredInv'
    BY <2>1, HookStep, LiveRestoredStep, BuiltRestoredStep DEF RestoredInv
  <2>4. SceneInv' /\ ClashInv' /\ ShutInv'
    BY <2>1, SceneStep, ClashStep, ShutStep
  <2> QED
    BY <2>1, <2>2, <2>3, <2>4 DEF RegistryInv
<1> QED
  BY <1>1, InitRegistryInv, PTL DEF Spec

\* With one jaw on an arm at most, so does JawInv.
LEMMA JawInduction == ASSUME OneJawEach PROVE Spec => []JawInv
<1>1. Init => JawInv
  BY NamesFacts DEF Init, JawInv, Fitted, Live, Idle
<1>2. JawInv /\ RegistryInv /\ RegistryInv' /\ [Next]_vars => JawInv'
  BY JawStep DEF RegistryInv
<1> QED
  BY <1>1, <1>2, RegistryInduction, PTL DEF Spec

\* A component that was closed, failed or timed out can be built again: its names are
\* free in the scene and among the callbacks once it is shut, unless its first build
\* died in the world's reset.
THEOREM RebuildsStayPossible == Spec => []RebuildsFindTheirNames
<1>1. RegistryInv => RebuildsFindTheirNames
  BY DEF RegistryInv, ClashInv, ShutInv, RebuildsFindTheirNames, OnlyTornBuildsClash, ClosedLeavesNothing
<1> QED
  BY <1>1, RegistryInduction, PTL

\* The hooks that fire after a reset are those of the live handles, one each.
THEOREM HooksStayTheLiveHandles == Spec => []HooksAreTheLiveHandles
<1>1. RegistryInv => HooksAreTheLiveHandles
  BY DEF RegistryInv
<1> QED
  BY <1>1, RegistryInduction, PTL

\* The registry, the hooks and the scene mean the same handle by a name.
THEOREM HandlesStayAgreed == ASSUME OneJawEach PROVE Spec => []HandlesAgree
<1>1. RegistryInv /\ JawInv => HandlesAgree
  <2> SUFFICES ASSUME RegistryInv, JawInv PROVE HandlesAgree
    OBVIOUS
  <2>1. HooksAreTheLiveHandles
    BY DEF RegistryInv
  <2>2. ASSUME NEW a \in Arms, Live(a)
        PROVE  scene[a] \in {0, art[handles[a]]} \cup loose \cup {art[i] : i \in loose}
    <3>1. loop # Idle => loop.name # a
      BY <2>2 DEF RegistryInv, LoopInv
    <3> QED
      BY <2>2, <3>1 DEF RegistryInv, SceneInv, Known
  <2>3. ASSUME NEW j \in Jaws, Live(j), Live(ArmOf[j]), handles[ArmOf[j]] < handles[j]
        PROVE  art[handles[j]] = art[handles[ArmOf[j]]]
    BY <2>3 DEF JawInv, Fitted, HandleOf, Joined
  <2> QED
    BY <2>1, <2>2, <2>3 DEF HandlesAgree, SceneHoldsTheDrivenWrapper
<1> QED
  BY <1>1, RegistryInduction, JawInduction, PTL

\* What a reset of the world undoes of a live arm is back once the sim thread is done
\* with it, unless the reset fell while the arm had no hook.
THEOREM SettingsStay == ASSUME OneJawEach PROVE Spec => []SettingsSurviveResets
<1>1. RegistryInv /\ JawInv => SettingsSurviveResets
  <2> SUFFICES ASSUME RegistryInv, JawInv, NEW a \in Arms, Live(a), Calm, a \notin lapsed
               PROVE  /\ solver[a]
                      /\ a \in Homed => athome[a]
                      /\ \A j \in Jaws : Live(j) /\ ArmOf[j] = a => drives[a] = "free"
    BY DEF SettingsSurviveResets
  <2>1. firing = <<>>
    BY DEF RegistryInv, RunningInv, Calm, NoTask
  <2>2. ~ToFire(a)
    BY <2>1 DEF ToFire
  <2>3. solver[a] /\ (a \in Homed => athome[a])
    BY <2>2 DEF RegistryInv, RestoredInv, LiveRestored
  <2>4. ASSUME NEW j \in Jaws, Live(j), ArmOf[j] = a PROVE drives[a] = "free"
    BY <2>2, <2>4 DEF JawInv, Fitted, DrivesFree
  <2> QED
    BY <2>3, <2>4
<1> QED
  BY <1>1, RegistryInduction, JawInduction, PTL
=============================================================================
