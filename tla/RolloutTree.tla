----------------------------- MODULE RolloutTree -----------------------------
(***************************************************************************)
(* The recursive rollout tree of RLMGymGenerator / DrRlmGenerator          *)
(* (examples/train/rlm/rlm_generator.py and                                *)
(* examples/train/dr_rlm/dr_rlm_generator.py).                             *)
(*                                                                         *)
(* Three kinds of actor share the registry `active_rollouts`:              *)
(*   - one asyncio task per node, running agent_loop on the event loop;    *)
(*   - the REPL cell threads of every node, which block in subcall_fn and  *)
(*     lm_callback and may outlive the env.step that started them;         *)
(*   - generate(), which gathers the roots and then ends the step.         *)
(* Code between two awaits of a task is one action: the loop is single     *)
(* threaded, so nothing else touches the registry in between.              *)
(***************************************************************************)
EXTENDS SequencesExt

CONSTANTS Roots,           \* one root rollout per prompt and repetition
          Subs,            \* rids a subcall can mint (bounds the tree)
          NoParent,        \* parent_rid of a root
          MaxDepth,        \* dr_rlm.max_recursion_depth
          MaxTurns,        \* generator.max_turns
          LmRids,          \* nodes whose code calls llm_query (bounds the run)
          IncludeChildren  \* per_node_credit or train_child_trajectories

ASSUME TreeAssumption ==
    /\ Roots \cap Subs = {}
    /\ NoParent \notin Roots \cup Subs
    /\ MaxDepth \in Nat
    /\ MaxTurns \in Nat \ {0}
    /\ LmRids \subseteq Roots \cup Subs
    /\ IncludeChildren \in BOOLEAN

Rid == Roots \cup Subs
Turns == 1..MaxTurns

VARIABLES
    phase,       \* "rollout" while generate() runs, "train" after it returned
    active,      \* keys of active_rollouts
    log,         \* every registration, oldest first: the dict's insertion order
    parent,      \* ctx.parent_rid (the closure's parent_rid until registration)
    depth,       \* ctx.depth
    childIndex,  \* ctx.child_index
    tree,        \* ctx.trajectory_id: the root the node belongs to
    stored,      \* nodes whose ctx.output is set
    inlined,     \* per root: the nodes its output's rows come from, in order
    task,        \* phase of the node's agent_loop task
    turn,        \* completed engine calls of the node's agent_loop
    cell,        \* per node and turn: the REPL thread running that turn's code
    callTurn,    \* the turn of the parent's cell that made this subcall
    fut          \* what that cell has seen of the subcall's future

registry == <<active, log, parent, depth, childIndex, tree, stored, inlined>>
vars == <<phase, registry, task, turn, cell, callTurn, fut>>

Live == {"sched", "init", "generate", "step", "close"}
Terminal == {"finished", "refused", "cancelled", "failed"}
Blocked == {"lmQueued", "lmWait", "wait"}
CellState == {"idle", "run"} \cup Blocked

-----------------------------------------------------------------------------
(* The registry as a tree.                                                   *)

\* The elements of s that are in S, in the order of s: sel[n] is the selection
\* from the first n.
SelectIn(s, S) ==
    LET sel[n \in 0..Len(s)] ==
            IF n = 0 THEN <<>>
            ELSE IF s[n] \in S THEN Append(sel[n - 1], s[n]) ELSE sel[n - 1]
    IN  sel[Len(s)]

\* children_by_parent[r]: registered children of r, in registration order.
Children(r) == SelectIn(log, {c \in active : parent[c] = r})

\* Faulty variants, for the mutation runs: only direct children are visited ...
ChildrenOnly(r) == Children(r)

\* ... or the oldest pending node comes out first, a breadth-first walk.
BfsDescendants(r) ==
    LET walk[n \in 0..Len(log)] ==
            IF n = 0 THEN [out |-> <<>>, queue |-> Children(r)]
            ELSE LET w == walk[n - 1]
                 IN  IF w.queue = <<>> THEN w
                     ELSE [out   |-> Append(w.out, Head(w.queue)),
                           queue |-> Tail(w.queue) \o Children(Head(w.queue))]
    IN  walk[Len(log)].out

\* _dfs_descendants(r): an explicit stack; the children of the node just
\* emitted are pushed in reverse, so the oldest is emitted next.  walk[n] is
\* the state of the while loop after n iterations.
DfsDescendants(r) ==
    LET walk[n \in 0..Len(log)] ==
            IF n = 0 THEN [out |-> <<>>, stack |-> Reverse(Children(r))]
            ELSE LET w == walk[n - 1]
                 IN  IF w.stack = <<>> THEN w
                     ELSE [out   |-> Append(w.out, Last(w.stack)),
                           stack |-> Front(w.stack)
                                       \o Reverse(Children(Last(w.stack)))]
    IN  walk[Len(log)].out

\* S contains r's registered children and the registered children of its members.
ClosedBelow(r, S) ==
    \A c \in active : parent[c] \in S \cup {r} => c \in S

\* Faulty variant: teardown forgets everything below the direct children.
DirectDescendants(r) == {d \in active : parent[d] = r}

\* The nodes reachable from r through registered children: what
\* _dfs_descendants visits (DfsVisitsDescendants checks that it does).
Descendants(r) ==
    {d \in active : \A S \in SUBSET Rid : ClosedBelow(r, S) => d \in S}

-----------------------------------------------------------------------------
Init ==
    /\ phase = "rollout"
    /\ active = {} /\ log = <<>> /\ stored = {}
    /\ parent = [r \in Rid |-> NoParent]
    /\ depth = [r \in Rid |-> 0]
    /\ childIndex = [r \in Rid |-> 0]
    /\ tree = [r \in Rid |-> NoParent]
    /\ inlined = [r \in Roots |-> <<>>]
    /\ task = [r \in Rid |-> "unborn"]
    /\ turn = [r \in Rid |-> 0]
    /\ cell = [r \in Rid |-> [k \in Turns |-> "idle"]]
    /\ callTurn = [r \in Rid |-> 0]
    /\ fut = [r \in Rid |-> "none"]

(* Registration: _setup_env_extras / _register_rollout.                      *)

\* gather() starts the root's task: agent_loop registers a fresh root context.
StartRoot(r) ==
    /\ task[r] = "unborn"
    /\ active' = active \cup {r}
    /\ log' = Append(log, r)
    /\ tree' = [tree EXCEPT ![r] = r]
    /\ task' = [task EXCEPT ![r] = "init"]
    /\ UNCHANGED <<phase, parent, depth, childIndex, stored, inlined, turn, cell,
                   callTurn, fut>>

\* Faulty variant: siblings that already finished are not counted.
UnfinishedSiblingCount(p) == Cardinality({s \in active \ stored : parent[s] = p})

SiblingCount(p) == Cardinality({s \in active : parent[s] = p})

RegisterChild(c) ==
    LET p == parent[c]
    IN  /\ active' = active \cup {c}
        /\ log' = Append(log, c)
        /\ depth' = [depth EXCEPT ![c] = depth[p] + 1]
        /\ childIndex' = [childIndex EXCEPT ![c] = SiblingCount(p)]
        /\ tree' = [tree EXCEPT ![c] = tree[p]]
        /\ task' = [task EXCEPT ![c] = "init"]

\* Faulty variant: a child is run without looking for its parent.
AlwaysRunChild(c) == TRUE

CanRunChild(c) == parent[c] \in active

\* _run_child's first step on the loop: refuse if the parent is gone, else
\* enter agent_loop, which registers before its first await.
RunChild(c) ==
    /\ task[c] = "sched"
    /\ \/ CanRunChild(c) /\ RegisterChild(c)
       \/ /\ ~CanRunChild(c)
          /\ task' = [task EXCEPT ![c] = "refused"]
          /\ UNCHANGED <<active, log, depth, childIndex, tree>>
    /\ UNCHANGED <<phase, parent, stored, inlined, turn, cell, callTurn, fut>>

-----------------------------------------------------------------------------
(* agent_loop of one node.  Reaching the loop head with a prompt longer than *)
(* max_input_length leaves the loop for "close" without an engine call.      *)

InitDone(r) ==
    /\ task[r] = "init"
    /\ \E t \in {"generate", "close", "failed"} : task' = [task EXCEPT ![r] = t]
    /\ UNCHANGED <<phase, registry, turn, cell, callTurn, fut>>

\* The engine answers; env.step starts, with a cell if the reply holds code.
EngineReply(r) ==
    /\ task[r] = "generate"
    /\ task' = [task EXCEPT ![r] = "step"]
    /\ turn' = [turn EXCEPT ![r] = @ + 1]
    /\ \E s \in {"run", "idle"} : cell' = [cell EXCEPT ![r][turn[r] + 1] = s]
    /\ UNCHANGED <<phase, registry, callTurn, fut>>

EngineFail(r) ==
    /\ task[r] = "generate"
    /\ task' = [task EXCEPT ![r] = "failed"]
    /\ UNCHANGED <<phase, registry, turn, cell, callTurn, fut>>

\* The join gives the cell up: its clock runs while it executes user code, and
\* also while it waits if an older abandoned cell has reset the shared clock.
Overdue(r, k) ==
    \/ cell[r][k] = "run"
    \/ cell[r][k] \in Blocked /\ \E j \in 1..(k - 1) : cell[r][j] # "idle"

\* Faulty variant: one turn too many.
AfterStepLate(r) ==
    {"close", "failed"} \cup (IF turn[r] > MaxTurns THEN {} ELSE {"generate"})

AfterStep(r) ==
    {"close", "failed"} \cup (IF turn[r] >= MaxTurns THEN {} ELSE {"generate"})

\* env.step returns: the cell ended, there was none, or it is abandoned and
\* keeps running.  done is forced at max_turns; env.step may also raise.
StepReturn(r) ==
    /\ task[r] = "step"
    /\ cell[r][turn[r]] = "idle" \/ Overdue(r, turn[r])
    /\ \E t \in AfterStep(r) : task' = [task EXCEPT ![r] = t]
    /\ UNCHANGED <<phase, registry, turn, cell, callTurn, fut>>

\* _post_process_agent_loop_output of a child: park the output on the context,
\* if there still is one, for the root to collect.
CloseChild(c) ==
    /\ task[c] = "close"
    /\ c \in Subs
    /\ task' = [task EXCEPT ![c] = "finished"]
    /\ stored' = IF c \in active THEN stored \cup {c} ELSE stored
    /\ UNCHANGED <<phase, active, log, parent, depth, childIndex, tree, inlined,
                   turn, cell, callTurn, fut>>

\* Faulty variant: the subtree of a node without output is pruned.
InlinePruned(r) ==
    Append(SelectIn(DfsDescendants(r),
                    {d \in stored : parent[d] \in stored \cup {r}}), r)

\* What the root's output is made of: descendants that have an output, then
\* the root's own rows.
Inline(r) ==
    IF IncludeChildren
    THEN Append(SelectIn(DfsDescendants(r), stored), r)
    ELSE <<r>>

\* _post_process_agent_loop_output of a root: inline, then pop the whole tree.
CloseRoot(r) ==
    /\ task[r] = "close"
    /\ r \in Roots
    /\ task' = [task EXCEPT ![r] = "finished"]
    /\ IF r \in active
       THEN /\ stored' = stored \cup {r}
            /\ inlined' = [inlined EXCEPT ![r] = Inline(r)]
            /\ active' = active \ ({r} \cup Descendants(r))
       ELSE UNCHANGED <<stored, inlined, active>>
    /\ UNCHANGED <<phase, log, parent, depth, childIndex, tree, turn, cell,
                   callTurn, fut>>

-----------------------------------------------------------------------------
(* Cell threads: user code, rlm_query and llm_query.                         *)

SetCell(r, k, s) == cell' = [cell EXCEPT ![r][k] = s]

CellEnd(r, k) ==
    /\ cell[r][k] = "run"
    /\ SetCell(r, k, "idle")
    /\ UNCHANGED <<phase, registry, task, turn, callTurn, fut>>

Outstanding(r, k) ==
    {c \in Subs : parent[c] = r /\ callTurn[c] = k /\ fut[c] = "pending"}

\* rlm_query, or one more prompt of an rlm_query_batched whose pool of two
\* workers has a free one.  subcall_fn is withheld at the depth ceiling.
RlmQuery(r, k, c) ==
    /\ cell[r][k] = "run" \/ (cell[r][k] = "wait" /\ Cardinality(Outstanding(r, k)) < 2)
    /\ depth[r] < MaxDepth
    /\ task[c] = "unborn"
    /\ task' = [task EXCEPT ![c] = "sched"]
    /\ parent' = [parent EXCEPT ![c] = r]
    /\ callTurn' = [callTurn EXCEPT ![c] = k]
    /\ fut' = [fut EXCEPT ![c] = "pending"]
    /\ SetCell(r, k, "wait")
    /\ UNCHANGED <<phase, active, log, depth, childIndex, tree, stored, inlined, turn>>

\* The child's task ended first: its value or its exception reaches the cell.
SubcallReturn(c) ==
    /\ fut[c] = "pending"
    /\ task[c] \in Terminal
    /\ fut' = [fut EXCEPT ![c] = CASE task[c] = "finished" -> "answered"
                                   [] task[c] = "refused"  -> "empty"
                                   [] OTHER                -> "error"]
    /\ UNCHANGED <<phase, registry, task, turn, cell, callTurn>>

\* future.result(timeout=600) gives up on a task that is still live and asks
\* for its cancellation, which the loop delivers later.
SubcallTimeout(c) ==
    /\ fut[c] = "pending"
    /\ task[c] \in Live
    /\ fut' = [fut EXCEPT ![c] = "timedout"]
    /\ UNCHANGED <<phase, registry, task, turn, cell, callTurn>>

\* CancelledError is raised at the task's await.  The env.step thread it was
\* waiting for goes on, and so do the subcalls of that thread's cell.
Cancel(c) ==
    /\ fut[c] = "timedout"
    /\ task[c] \in Live
    /\ task' = [task EXCEPT ![c] = "cancelled"]
    /\ UNCHANGED <<phase, registry, turn, cell, callTurn, fut>>

Resume(r, k) ==
    /\ cell[r][k] = "wait"
    /\ Outstanding(r, k) = {}
    /\ SetCell(r, k, "run")
    /\ UNCHANGED <<phase, registry, task, turn, callTurn, fut>>

\* llm_query: lm_callback submits _generate to the loop and blocks.
LmQuery(r, k) ==
    /\ r \in LmRids
    /\ cell[r][k] = "run"
    /\ SetCell(r, k, "lmQueued")
    /\ UNCHANGED <<phase, registry, task, turn, callTurn, fut>>

\* Faulty variant: lm_callback does not look for its owner.
AlwaysGenerate(r) == TRUE

MayGenerate(r) == r \in active

\* _generate starts: it bails out if the owner was torn down, else it calls
\* the engine.
LmStart(r, k) ==
    /\ cell[r][k] = "lmQueued"
    /\ SetCell(r, k, IF MayGenerate(r) THEN "lmWait" ELSE "run")
    /\ UNCHANGED <<phase, registry, task, turn, callTurn, fut>>

\* The engine's answer, its error, or the 300 s timeout.
LmReturn(r, k) ==
    /\ cell[r][k] \in {"lmQueued", "lmWait"}
    /\ SetCell(r, k, "run")
    /\ UNCHANGED <<phase, registry, task, turn, callTurn, fut>>

-----------------------------------------------------------------------------
\* generate() returns once gather has every root's output (a failed root makes
\* it raise instead) and clears the registry; the trainer then sleeps the
\* engine and syncs weights.
EndOfStep ==
    /\ phase = "rollout"
    /\ \A r \in Roots : task[r] = "finished"
    /\ phase' = "train"
    /\ active' = {}
    /\ UNCHANGED <<log, parent, depth, childIndex, tree, stored, inlined, task,
                   turn, cell, callTurn, fut>>

TaskStep(r) ==
    \/ InitDone(r) \/ EngineReply(r) \/ EngineFail(r) \/ StepReturn(r)
    \/ CloseChild(r) \/ CloseRoot(r)

CellStep(r, k) ==
    \/ CellEnd(r, k) \/ Resume(r, k)
    \/ LmQuery(r, k) \/ LmStart(r, k) \/ LmReturn(r, k)
    \/ \E c \in Subs : RlmQuery(r, k, c)

SubcallStep(c) ==
    RunChild(c) \/ SubcallReturn(c) \/ SubcallTimeout(c) \/ Cancel(c)

Next ==
    \/ \E r \in Roots : StartRoot(r)
    \/ \E r \in Rid : TaskStep(r)
    \/ \E r \in Rid, k \in Turns : CellStep(r, k)
    \/ \E c \in Subs : SubcallStep(c)
    \/ EndOfStep

Spec == Init /\ [][Next]_vars

-----------------------------------------------------------------------------
\* Every variable of the registry, the tasks and the cells keeps its type.
TypeOK ==
    /\ phase \in {"rollout", "train"}
    /\ active \subseteq Rid /\ IsFiniteSet(active) /\ stored \subseteq Rid
    /\ log \in Seq(Rid)
    /\ parent \in [Rid -> Rid \cup {NoParent}]
    /\ depth \in [Rid -> Nat]
    /\ childIndex \in [Rid -> Nat]
    /\ tree \in [Rid -> Roots \cup {NoParent}]
    /\ DOMAIN inlined = Roots
    /\ task \in [Rid -> {"unborn"} \cup Live \cup Terminal]
    /\ turn \in [Rid -> 0..MaxTurns]
    /\ cell \in [Rid -> [Turns -> CellState]]
    /\ callTurn \in [Rid -> 0..MaxTurns]
    /\ fut \in [Rid -> {"none", "pending", "answered", "empty", "error", "timedout"}]

\* A registered child's parent is registered too, in the same tree and one
\* level up, however late the child registers and whoever was cancelled in
\* between: _register_rollout can index active_rollouts[parent_rid].
ParentsRegistered ==
    \A c \in active \cap Subs :
        /\ parent[c] \in active
        /\ tree[c] = tree[parent[c]]
        /\ depth[c] = depth[parent[c]] + 1

\* No context outlives its tree's root.  Abandoned cells and orphaned subcalls
\* go on after the root's teardown, but they can neither be missed by it nor
\* register afterwards, so the end-of-step sweep of active_rollouts finds
\* nothing to free.
NoContextOutlivesRoot ==
    \A r \in active : tree[r] \in Roots /\ task[tree[r]] # "finished"

\* s was registered before c.
Older(s, c) == \E i, j \in DOMAIN log : i < j /\ log[i] = s /\ log[j] = c

\* Counting registered siblings gives each child its rank in registration
\* order: indices of a parent's registered children are 0, 1, 2, ... with no
\* duplicate or gap, though children finish, fail and are cancelled meanwhile.
SiblingsIndexed ==
    \A c \in active \cap Subs :
        childIndex[c] =
            Cardinality({s \in active : parent[s] = parent[c] /\ Older(s, c)})

\* When a root collects its tree the stack walk visits every descendant of it,
\* once each.
DfsVisitsDescendants ==
    \A r \in active \cap Roots : task[r] = "close" =>
        LET s == DfsDescendants(r) IN
            /\ ToSet(s) = Descendants(r)
            /\ Cardinality(ToSet(s)) = Len(s)

\* Nodes below x in the whole history, registered or not.
Below(x) ==
    {d \in Rid : \A S \in SUBSET Rid :
        (\A c \in Rid : parent[c] \in S \cup {x} => c \in S) => d \in S}

Preorder(s, r) ==
    LET at(x) == {i \in DOMAIN s : s[i] \in {x} \cup Below(x)}
    IN  /\ Last(s) = r
        /\ \A x \in Subs : \A i, j \in at(x) : \A k \in i..j : k \in at(x)
        /\ \A i, j \in 1..(Len(s) - 1) :
              /\ s[j] \in Below(s[i]) => i < j
              /\ (parent[s[i]] = parent[s[j]] /\ i < j)
                    => childIndex[s[i]] < childIndex[s[j]]

\* The rows a root hands to generate() are in preorder: the root last, every
\* subtree contiguous and headed by its node, siblings by child_index.
InlinedInPreorder ==
    [][\A r \in Roots : inlined'[r] # inlined[r] => Preorder(inlined'[r], r)]_vars

\* An answer the tree already used is credited: every subcall whose value a
\* cell of the tree received before the root finished has its rows inlined,
\* even if an ancestor of it timed out, was cancelled or failed.
AnsweredIsInlined ==
    [][\A r \in Roots : (task[r] = "close" /\ task'[r] = "finished") =>
         \A c \in Subs : (fut[c] = "answered" /\ tree[c] = r)
                            => c \in ToSet(inlined'[r])]_vars

\* After generate() returned no llm_query starts an engine call: the engine may
\* be asleep while weights are synchronised (the guard of _generate).
NoLmCallWhileTraining ==
    [][phase = "train" =>
         \A r \in Rid, k \in Turns :
            cell'[r][k] = "lmWait" => cell[r][k] = "lmWait"]_vars

\* The same for the engine calls agent_loop makes: no node calls the engine
\* after generate() returned.
NoEngineCallWhileTraining ==
    [][phase = "train" =>
         \A r \in Rid : task'[r] = "generate" => task[r] = "generate"]_vars
=============================================================================
