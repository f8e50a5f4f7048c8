------------------------------ MODULE WorldCell ------------------------------
(***************************************************************************)
(* The verbs of the world component that move and size the props of the    *)
(* cell (models/world.py, models/world_commands.py, handles/world.py,      *)
(* prop_scatter.py).                                                       *)
(*                                                                         *)
(* Every verb runs on a worker thread of its own and changes the stage     *)
(* through tasks of the sim thread, one for each prop that it moves.       *)
(* scatter_cell and randomize_props wait for an asyncio lock first; the    *)
(* other verbs do not, and the lock is gone when the caller drops its call *)
(* although the worker goes on. Between two tasks the world steps: props   *)
(* that were put into each other, or into the table, are pushed away.      *)
(*                                                                         *)
(* A pose is a place and a height: the edge of the prop it was made for.   *)
(* Places are apart by their shape (Spot, Spawn, Park, Off), which assumes *)
(* a cell that is laid out as cell_layout.py lays it out: where a prop is  *)
(* spawned or parked is outside the region and under no other prop. The    *)
(* code does not check that, and would put a block onto another's spawn    *)
(* pose inside the region.                                                 *)
(***************************************************************************)
EXTENDS Naturals, Sequences, SequencesExt, FiniteSets, Functions

CONSTANTS
    Pool,           \* the blocks of names_by_color, one colour each
    Extra,          \* the name that spawn_prop asks for
    Spots,          \* places in the region, far enough from each other
    Sizes,          \* edges that can be drawn
    SpawnSize,      \* the edge of every prop as it is spawned
    Calls,
    NoCall,
    MaxFaults       \* how many calls are dropped, time out or raise

ASSUME WorldCellAssumption ==
    /\ Extra \notin Pool /\ NoCall \notin Calls
    /\ IsFiniteSet(Pool) /\ IsFiniteSet(Spots)
    /\ Sizes \subseteq Nat \ {0} /\ SpawnSize \in Nat \ {0} /\ MaxFaults \in Nat

Props == Pool \cup {Extra}

VARIABLES
    \* the stage
    at, lift, edge,
    spec,           \* _prop_specs: the edge, 0 for a prop that does not exist
    \* the calls
    verb, pc, plan, todo, lock, gone,
    queue,          \* tasks of the sim thread
    faults,
    \* history
    alone           \* the calls that no unserialized one has disturbed so far

stage == <<at, lift, edge>>
calls == <<verb, pc, plan, todo, lock, gone>>
vars  == <<stage, spec, calls, queue, faults, alone>>

Fault == faults < MaxFaults /\ faults' = faults + 1

Scatters    == {"scatter", "randomize"}
Verbs       == Scatters \cup {"clear", "reset", "spawn"}
\* Seeded fault: only one of the verbs takes the lock.
SerializedRandomize == {"randomize"}

\* _SERIALIZED_COMMANDS
Serialized  == {"scatter", "randomize"}

Spot(s)  == <<"spot", s>>
Spawn(p) == <<"spawn", p>>
Park(p)  == <<"park", p>>
Off(p)   == <<"off", p>>        \* pushed away, clear of everything
Here     == {p \in Props : spec[p] # 0}

\* A move of set_prop_pose: clear_cell and scatter_cell ask for the height of
\* a parked block when its turn comes, a drawn pose has it already.
Move(p, place, height) == [prop |-> p, place |-> place, height |-> height]
NoPlan == [sized |-> FALSE, edges |-> <<>>, spots |-> <<>>]

Init ==
    /\ at = [p \in Props |-> Spawn(p)] /\ lift = [p \in Props |-> SpawnSize]
    /\ edge = [p \in Props |-> SpawnSize]
    /\ spec = [p \in Props |-> IF p \in Pool THEN SpawnSize ELSE 0]
    /\ verb = [c \in Calls |-> "none"] /\ pc = [c \in Calls |-> "new"]
    /\ plan = [c \in Calls |-> NoPlan] /\ todo = [c \in Calls |-> <<>>]
    /\ lock = NoCall /\ gone = {}
    /\ queue = <<>> /\ faults = 0 /\ alone = {}

-----------------------------------------------------------------------------
(***************************************************************************)
(* do_command.                                                             *)
(***************************************************************************)
Called(c) ==
    /\ pc[c] = "new"
    /\ \E v \in Verbs :
        /\ verb' = [verb EXCEPT ![c] = v]
        /\ pc' = [pc EXCEPT ![c] = IF v \in Serialized THEN "lock" ELSE "begin"]
    /\ UNCHANGED <<stage, spec, plan, todo, lock, gone, queue, faults, alone>>

TakesLock(c) ==
    /\ pc[c] = "lock" /\ lock = NoCall
    /\ lock' = c
    /\ pc' = [pc EXCEPT ![c] = "begin"]
    /\ UNCHANGED <<stage, spec, verb, plan, todo, gone, queue, faults, alone>>

\* The coroutine that awaits the worker leaves the lock however it ends.
Leaves(c) == lock' = IF lock = c THEN NoCall ELSE lock

Ends(c, how) ==
    /\ pc' = [pc EXCEPT ![c] = how]
    /\ Leaves(c)

\* The caller drops its call: the coroutine is cancelled, its worker is not.
Dropped(c) ==
    /\ pc[c] \in {"lock", "begin", "rescale", "put", "wait"} /\ c \notin gone /\ Fault
    /\ gone' = gone \cup {c}
    /\ IF pc[c] = "lock" THEN Ends(c, "failed") ELSE Leaves(c) /\ UNCHANGED pc
    /\ UNCHANGED <<stage, spec, verb, plan, todo, queue, alone>>

-----------------------------------------------------------------------------
(***************************************************************************)
(* The verbs, on the worker thread.                                        *)
(***************************************************************************)
\* Nothing is in the region and nothing in a parking place but its own block.
CellIsClear == \A p \in Here : at[p] \in {Spawn(p), Park(p), Off(p)}

\* scatter_cell, randomize_props: which blocks, which edges and which places
\* come from one seeded stream, before anything is moved. The rest of the
\* pool is parked by scatter_cell only.
Parked(c, drawn) == IF verb[c] = "scatter" THEN Pool \ drawn ELSE {}

ScatterOrder(c, drawn, edges, spots) ==
    [i \in 1 .. Cardinality(drawn) |->
        LET p == SetToSeq(drawn)[i] IN Move(p, Spot(spots[p]), edges[p])]
    \o [i \in 1 .. Cardinality(Parked(c, drawn)) |->
        LET p == SetToSeq(Parked(c, drawn))[i] IN Move(p, Park(p), 0)]

Draws(c) ==
    /\ pc[c] = "begin" /\ verb[c] \in Scatters
    /\ \E drawn \in SUBSET Pool, sized \in BOOLEAN :
        /\ verb[c] = "randomize" => drawn # {}
        /\ \E edges \in IF sized THEN [drawn -> Sizes] ELSE {[p \in drawn |-> spec[p]]},
              spots \in Injection(drawn, Spots) :
            /\ plan' = [plan EXCEPT ![c] =
                            [sized |-> sized /\ drawn # {}, edges |-> edges, spots |-> spots]]
            /\ todo' = [todo EXCEPT ![c] = ScatterOrder(c, drawn, edges, spots)]
            /\ pc' = [pc EXCEPT ![c] = IF plan'[c].sized THEN "rescale" ELSE "put"]
            /\ alone' = IF plan'[c].sized \/ CellIsClear THEN alone \cup {c} ELSE alone
    /\ UNCHANGED <<stage, spec, verb, lock, gone, queue, faults>>

\* A name is unknown, the region is too small, or no layout was found.
Refused(c) ==
    /\ pc[c] = "begin" /\ verb[c] \in Scatters \cup {"clear"} /\ Fault
    /\ Ends(c, "failed")
    /\ UNCHANGED <<stage, spec, verb, plan, todo, gone, queue, alone>>

Clears(c) ==
    /\ pc[c] = "begin" /\ verb[c] = "clear"
    /\ todo' = [todo EXCEPT ![c] =
                    [i \in 1 .. Cardinality(Pool) |->
                        LET p == SetToSeq(Pool)[i] IN Move(p, Park(p), 0)]]
    /\ pc' = [pc EXCEPT ![c] = "put"]
    /\ alone' = IF CellIsClear THEN alone \cup {c} ELSE alone
    /\ UNCHANGED <<stage, spec, verb, plan, lock, gone, queue, faults>>

\* Hands a task to the sim thread and waits for it.
Runs(c, task) ==
    /\ queue' = Append(queue, [call |-> c, task |-> task])
    /\ pc' = [pc EXCEPT ![c] = "wait"]

NoMove == Move(Extra, Off(Extra), 0)
Task(kind, move) == [kind |-> kind, move |-> move]

\* _rescale_and_reset comes before the first teleport.
Rescales(c) ==
    /\ pc[c] = "rescale"
    /\ Runs(c, Task("rescale", NoMove))
    /\ UNCHANGED <<stage, spec, verb, plan, todo, lock, gone, faults, alone>>

\* set_prop_pose of the next block.
PutsNext(c) ==
    /\ pc[c] = "put" /\ todo[c] # <<>>
    /\ LET m == Head(todo[c])
       IN  Runs(c, Task("put", [m EXCEPT !.height = IF @ = 0 THEN spec[m.prop] ELSE @]))
    /\ UNCHANGED <<stage, spec, verb, plan, todo, lock, gone, faults, alone>>

\* reset and spawn_prop have one task; spawn_prop looks for the name first, on
\* its own thread.
OneTask(c) ==
    /\ pc[c] = "begin" /\ verb[c] \in {"reset", "spawn"}
    /\ IF verb[c] = "spawn" /\ spec[Extra] # 0
       THEN Ends(c, "failed") /\ UNCHANGED queue
       ELSE Runs(c, Task(verb[c], NoMove)) /\ UNCHANGED lock
    /\ UNCHANGED <<stage, spec, verb, plan, todo, gone, faults, alone>>

Replies(c) ==
    /\ pc[c] = "put" /\ todo[c] = <<>>
    /\ Ends(c, "done")
    /\ UNCHANGED <<stage, spec, verb, plan, todo, gone, queue, faults, alone>>

\* The task was not started in time and is cancelled: SimManager.run raises.
TimesOut(c) ==
    /\ pc[c] = "wait" /\ Fault
    /\ \E i \in DOMAIN queue : queue[i].call = c /\ queue' = RemoveAt(queue, i)
    /\ Ends(c, "failed")
    /\ UNCHANGED <<stage, spec, verb, plan, todo, gone, alone>>

-----------------------------------------------------------------------------
(***************************************************************************)
(* The sim thread.                                                         *)
(***************************************************************************)
\* world.reset: every prop at its spawn pose, at the height it was spawned for.
AllAtSpawn ==
    /\ at' = [p \in Props |-> IF p \in Here THEN Spawn(p) ELSE at[p]]
    /\ lift' = [p \in Props |-> IF p \in Here THEN SpawnSize ELSE lift[p]]

Drawn(c) == DOMAIN plan[c].edges
Rescaled(c, of) == [p \in Props |-> IF p \in Drawn(c) THEN plan[c].edges[p] ELSE of[p]]

\* The task of _rescale_and_reset: stop, scale, reset. The stop restores what
\* the stage was before it played, so a scale written earlier would be gone.
Rescale(c) ==
    /\ AllAtSpawn
    /\ spec' = Rescaled(c, spec) /\ edge' = Rescaled(c, edge)

\* _teleport: the specs are left alone.
Teleport(m) ==
    /\ at' = [at EXCEPT ![m.prop] = m.place]
    /\ lift' = [lift EXCEPT ![m.prop] = m.height]
    /\ UNCHANGED <<edge, spec>>

\* reset; with soft, which teleports every prop in one task, as without.
Restore == AllAtSpawn /\ UNCHANGED <<edge, spec>>

SpawnExtra ==
    /\ spec' = [spec EXCEPT ![Extra] = SpawnSize]
    /\ at' = [p \in Props |-> IF p \in Here' THEN Spawn(p) ELSE at[p]]
    /\ lift' = [p \in Props |-> IF p \in Here' THEN SpawnSize ELSE lift[p]]
    /\ UNCHANGED edge

\* Another spawn_prop was first: the scene refuses a second prop of the name.
Clashes(t) == t.task.kind = "spawn" /\ spec[Extra] # 0

Effect(t) ==
    CASE t.task.kind = "rescale"         -> Rescale(t.call)
      [] t.task.kind = "put"             -> Teleport(t.task.move)
      [] t.task.kind = "reset"           -> Restore
      [] t.task.kind = "spawn"           -> IF Clashes(t) THEN UNCHANGED <<stage, spec>>
                                                          ELSE SpawnExtra

\* What a call goes on with when its task is done.
GoesOn(t) ==
    /\ todo' = [todo EXCEPT ![t.call] = IF t.task.kind = "put" THEN Tail(@) ELSE @]
    /\ pc' = [pc EXCEPT ![t.call] = "put"]
    /\ UNCHANGED lock

\* The lock keeps one scatter out of the way of another, unless its call is
\* dropped; nothing keeps the other verbs.
InOrder(c) == verb[c] \in Scatters /\ c \notin gone
Disturbs(c) == alone' = alone \cap ({c} \cup {d \in Calls : InOrder(c) /\ InOrder(d)})

ExecutesTask ==
    /\ queue # <<>>
    /\ LET t == Head(queue)
       IN  /\ Effect(t)
           /\ IF Clashes(t) THEN Ends(t.call, "failed") /\ UNCHANGED todo ELSE GoesOn(t)
           /\ Disturbs(t.call)
    /\ queue' = Tail(queue)
    /\ UNCHANGED <<verb, plan, gone, faults>>

\* A task that has started is carried out although its caller is told of a
\* timeout, and a reset raises what a hook raised when all is done.
ExecutesTaskUnheard ==
    /\ queue # <<>> /\ Fault
    /\ LET t == Head(queue)
       IN  Effect(t) /\ Ends(t.call, "failed") /\ Disturbs(t.call)
    /\ queue' = Tail(queue)
    /\ UNCHANGED <<verb, plan, todo, gone>>

\* The physics between two tasks: what is in the table or in another prop is
\* pushed away, what is above its place comes down on it.
InAnother(p) == \E q \in Here \ {p} : at[q] = at[p]

Pushed(p) ==
    /\ p \in Here /\ (InAnother(p) \/ lift[p] < edge[p])
    /\ at' = [at EXCEPT ![p] = Off(p)] /\ lift' = [lift EXCEPT ![p] = edge[p]]
    /\ UNCHANGED <<edge, spec, calls, queue, faults, alone>>

Falls(p) ==
    /\ p \in Here /\ lift[p] > edge[p]
    /\ lift' = [lift EXCEPT ![p] = edge[p]]
    /\ UNCHANGED <<at, edge, spec, calls, queue, faults, alone>>

Done == queue = <<>> /\ (\A c \in Calls : pc[c] \in {"done", "failed"}) /\ UNCHANGED vars

Worker(c) ==
    \/ TakesLock(c) \/ Draws(c) \/ Clears(c) \/ Rescales(c)
    \/ PutsNext(c) \/ OneTask(c) \/ Replies(c)

Next ==
    \/ \E c \in Calls :
        Worker(c) \/ Called(c) \/ Dropped(c) \/ Refused(c) \/ TimesOut(c)
    \/ ExecutesTask \/ ExecutesTaskUnheard
    \/ \E p \in Props : Pushed(p) \/ Falls(p)
    \/ Done

Spec == Init /\ [][Next]_vars

-----------------------------------------------------------------------------
(***************************************************************************)
(* Properties.                                                             *)
(***************************************************************************)
\* When scatter_cell, randomize_props or clear_cell answers, and no task of a verb
\* that the lock leaves out, nor of a dropped call, came in between, late or in
\* time, the cell is as the
\* answer says: each drawn block at its place with its edge, the rest parked,
\* none of them in the table or in another (handles/world.py, scatter_cell).
\* An unsized draw moves the blocks one by one from where they are: for it, as
\* for clear_cell, the region had to be clear before.
Stands(c) ==
    /\ \A p \in Drawn(c) : at[p] = Spot(plan[c].spots[p]) /\ edge[p] = plan[c].edges[p]
    /\ \A p \in IF verb[c] = "randomize" THEN {} ELSE Pool \ Drawn(c) : at[p] = Park(p)
    /\ \A p \in Drawn(c) : lift[p] >= edge[p]

AnswersAreTheCell == [][\A c \in Calls : Replies(c) /\ c \in alone => Stands(c)]_vars

\* What models/world.py:57-60 says of the serialized verbs: no two of them are
\* carried out at once. A dropped call leaves the lock while its worker goes on.
ScattersAreSerialized ==
    \A c, d \in Calls :
        (c # d /\ {verb[c], verb[d]} \subseteq Serialized)
            => ~({pc[c], pc[d]} \subseteq {"begin", "rescale", "put", "wait"})
=============================================================================
