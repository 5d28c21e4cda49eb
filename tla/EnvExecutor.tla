---------------------------- MODULE EnvExecutor ----------------------------
(***************************************************************************)
(* The thread pool in which SkyRLGymGenerator runs env.init, env.step and  *)
(* env.close (max_env_workers), shared by all nodes of all rollout trees.  *)
(*                                                                         *)
(* A node's env.step keeps its worker while its code waits in rlm_query    *)
(* for a child, and the child needs workers itself.  With max_env_workers  *)
(* = 0 the calls run on the event loop's own thread, which then does       *)
(* nothing else until they return.                                         *)
(*                                                                         *)
(* A cell that its env.step has abandoned holds no worker; such cells are  *)
(* left out here (RolloutTree has them).                                   *)
(***************************************************************************)
EXTENDS Naturals, Sequences, FiniteSets

CONSTANTS Roots,      \* one root rollout per prompt and repetition
          Subs,       \* rids a subcall can mint (bounds the tree)
          NoParent,   \* parent of a root
          PoolSizes,  \* values of max_env_workers
          Ceilings,   \* values of dr_rlm.max_recursion_depth
          MaxTurns    \* generator.max_turns

ASSUME PoolAssumption ==
    /\ Roots \cap Subs = {} /\ IsFiniteSet(Roots) /\ IsFiniteSet(Subs)
    /\ NoParent \notin Roots \cup Subs
    /\ PoolSizes \subseteq Nat /\ Ceilings \subseteq Nat
    /\ MaxTurns \in Nat \ {0}

Node == Roots \cup Subs

VARIABLES
    workers,   \* max_env_workers
    ceiling,   \* max_recursion_depth
    task,      \* what the node's agent_loop task awaits, or how it ended
    turn,      \* completed engine calls of the node
    parent,    \* the node whose code called rlm_query
    root,      \* the root of the node's tree
    depth,
    queue,     \* the executor's work queue: nodes whose call waits for a worker
    call,      \* where the node's call is: queued, on a worker, or nowhere
    fut        \* what the caller has seen of a subcall's future

tree == <<parent, root, depth>>
config == <<workers, ceiling>>
vars == <<config, task, turn, tree, queue, call, fut>>

Ops == {"init", "step", "close"}
Live == {"sched", "engine"} \cup Ops
Ended == {"finished", "refused", "cancelled", "failed"}

Init ==
    /\ workers \in PoolSizes /\ ceiling \in Ceilings
    /\ task = [n \in Node |-> "unborn"]
    /\ turn = [n \in Node |-> 0]
    /\ parent = [n \in Node |-> NoParent]
    /\ root = [n \in Node |-> n]
    /\ depth = [n \in Node |-> 0]
    /\ queue = <<>>
    /\ call = [n \in Node |-> "none"]
    /\ fut = [n \in Node |-> "none"]

-----------------------------------------------------------------------------
(* The executor.                                                             *)

Running == {n \in Node : call[n] \in Ops}

Capacity == IF workers = 0 THEN 1 ELSE workers

\* Without an executor a call keeps the event loop until it returns.
LoopFree == workers = 0 => queue = <<>> /\ Running = {}

\* Subcalls the code of n waits for, and the nodes that wait.
Outstanding(n) == {c \in Subs : parent[c] = n /\ fut[c] = "pending"}
Blocked == {n \in Running : Outstanding(n) # {}}

\* _run_in_executor_if_available: n's task awaits its call.
Submit(n, op) ==
    /\ task' = [task EXCEPT ![n] = op]
    /\ queue' = Append(queue, n)
    /\ call' = [call EXCEPT ![n] = "queued"]

\* n's task goes on to t, which may be another call.
Proceed(n, t) ==
    IF t \in Ops
    THEN Submit(n, t)
    ELSE /\ task' = [task EXCEPT ![n] = t]
         /\ call' = [call EXCEPT ![n] = "none"]
         /\ UNCHANGED queue

\* A free worker takes the oldest call; one whose task was cancelled while it
\* was queued has been cancelled with it, and is skipped.
Begin(n) ==
    /\ queue # <<>> /\ n = Head(queue)
    /\ Cardinality(Running) < Capacity
    /\ queue' = Tail(queue)
    /\ call' = [call EXCEPT ![n] = IF task[n] \in Ops THEN task[n] ELSE "none"]
    /\ UNCHANGED <<config, task, turn, tree, fut>>

\* The call of n ends and frees its worker; its task goes on, unless it was
\* cancelled meanwhile.
Return(n, op, next) ==
    /\ call[n] = op
    /\ IF task[n] = op
       THEN \E t \in next : Proceed(n, t)
       ELSE /\ call' = [call EXCEPT ![n] = "none"]
            /\ UNCHANGED <<task, queue>>
    /\ UNCHANGED <<config, turn, tree, fut>>

-----------------------------------------------------------------------------
(* agent_loop of one node.                                                   *)

StartRoot(r) ==
    /\ LoopFree
    /\ task[r] = "unborn"
    /\ Submit(r, "init")
    /\ UNCHANGED <<config, turn, tree, fut>>

\* The prompt may be too long for the first turn already.
InitReturn(n) == Return(n, "init", {"engine", "close", "failed"})

EngineReply(n) ==
    /\ LoopFree
    /\ task[n] = "engine"
    /\ turn' = [turn EXCEPT ![n] = @ + 1]
    /\ Submit(n, "step")
    /\ UNCHANGED <<config, tree, fut>>

EngineFail(n) ==
    /\ LoopFree
    /\ task[n] = "engine"
    /\ task' = [task EXCEPT ![n] = "failed"]
    /\ UNCHANGED <<config, turn, tree, queue, call, fut>>

\* Faulty variant: one turn too many.
AfterStepLate(n) ==
    {"close", "failed"} \cup (IF turn[n] > MaxTurns THEN {} ELSE {"engine"})

AfterStep(n) ==
    {"close", "failed"} \cup (IF turn[n] = MaxTurns THEN {} ELSE {"engine"})

\* The code waits for nobody any more: the step returns.
StepReturn(n) ==
    /\ Outstanding(n) = {}
    /\ Return(n, "step", AfterStep(n))

CloseReturn(n) == Return(n, "close", {"finished"})

-----------------------------------------------------------------------------
(* rlm_query.                                                                *)

\* Faulty variant: subcall_fn is not withheld at the ceiling.
AlwaysDelegate(n) == TRUE

MayDelegate(n) == depth[n] < ceiling

\* A query, or one more prompt of a batch: two are asked at a time.
Query(n, c) ==
    /\ call[n] = "step" /\ MayDelegate(n)
    /\ Cardinality(Outstanding(n)) < 2
    /\ task[c] = "unborn"
    /\ task' = [task EXCEPT ![c] = "sched"]
    /\ parent' = [parent EXCEPT ![c] = n]
    /\ root' = [root EXCEPT ![c] = root[n]]
    /\ depth' = [depth EXCEPT ![c] = depth[n] + 1]
    /\ fut' = [fut EXCEPT ![c] = "pending"]
    /\ UNCHANGED <<config, turn, queue, call>>

\* _run_child on the loop: refused when the tree was torn down, which a root
\* does when it finishes.
RunChild(c) ==
    /\ LoopFree
    /\ task[c] = "sched"
    /\ IF task[root[c]] = "finished"
       THEN task' = [task EXCEPT ![c] = "refused"] /\ UNCHANGED <<queue, call>>
       ELSE Submit(c, "init")
    /\ UNCHANGED <<config, turn, tree, fut>>

\* Faulty variant: an exception of the child is not handed to its caller.
HasValue(c) == task[c] \in {"finished", "refused"}

HasResult(c) == task[c] \in Ended

\* The child's value or exception reaches the code.
SubcallReturn(c) ==
    /\ fut[c] = "pending" /\ HasResult(c)
    /\ fut' = [fut EXCEPT ![c] = "over"]
    /\ UNCHANGED <<config, task, turn, tree, queue, call>>

\* Faulty variant: the time a child spends in the queue is not counted.
TimeoutOnceRun(c) == call[c] # "queued"

\* future.result(timeout=600) counts from the call, whatever the child does.
ClockRuns(c) == TRUE

SubcallTimeout(c) ==
    /\ fut[c] = "pending" /\ task[c] \in Live /\ ClockRuns(c)
    /\ fut' = [fut EXCEPT ![c] = "timedout"]
    /\ UNCHANGED <<config, task, turn, tree, queue, call>>

\* The loop delivers the cancellation.  A call that is queued will be skipped;
\* one that runs keeps its worker until it returns by itself.
Cancel(c) ==
    /\ LoopFree
    /\ fut[c] = "timedout" /\ task[c] \in Live
    /\ task' = [task EXCEPT ![c] = "cancelled"]
    /\ UNCHANGED <<config, turn, tree, queue, call, fut>>

-----------------------------------------------------------------------------
Advance(n) ==
    \/ Begin(n) \/ InitReturn(n) \/ StepReturn(n) \/ CloseReturn(n)
    \/ EngineReply(n) \/ EngineFail(n)

Answer(c) == RunChild(c) \/ SubcallReturn(c) \/ Cancel(c)

Next ==
    \/ \E r \in Roots : StartRoot(r)
    \/ \E n \in Node : Advance(n) \/ \E c \in Subs : Query(n, c)
    \/ \E c \in Subs : Answer(c) \/ SubcallTimeout(c)

\* The loop, the engine and the workers go on, and a step's own code ends (the
\* join gives it up).  Nothing is assumed of the timeouts here, nor that the
\* code makes any query.
Spec ==
    /\ Init /\ [][Next]_vars
    /\ \A r \in Roots : WF_vars(StartRoot(r))
    /\ \A n \in Node : WF_vars(Advance(n))
    /\ \A c \in Subs : WF_vars(Answer(c))

-----------------------------------------------------------------------------
\* Every variable keeps its type, and no more calls run than there are workers.
TypeOK ==
    /\ workers \in PoolSizes /\ ceiling \in Ceilings
    /\ task \in [Node -> {"unborn"} \cup Live \cup Ended]
    /\ turn \in [Node -> 0..MaxTurns]
    /\ parent \in [Node -> Node \cup {NoParent}]
    /\ root \in [Node -> Node]
    /\ depth \in [Node -> 0..ceiling]
    /\ queue \in Seq(Node)
    /\ call \in [Node -> {"none", "queued"} \cup Ops]
    /\ fut \in [Node -> {"none", "pending", "over", "timedout"}]
    /\ Cardinality(Running) <= Capacity

\* Every worker is held by a step that waits for a child.
Exhausted == Cardinality(Running) = Capacity /\ Running = Blocked

Drained ==
    /\ \A n \in Node : task[n] \in Ended \cup {"unborn"}
    /\ \A r \in Roots : task[r] # "unborn"
    /\ queue = <<>> /\ Running = {}

\* A pool with more workers than there are nodes below the recursion ceiling
\* is never exhausted, though cancelled nodes may hold workers too: only nodes
\* to which rlm_query is given can wait.
Callers == {n \in Node : task[n] # "unborn" /\ depth[n] < ceiling}
SizedPoolServes == Cardinality(Callers) < workers => ~Exhausted

\* Exhaustion of the pool is the only way in which rollouts can get stuck
\* without a timeout of rlm_query: calls and waits make no other cycle.
OnlyExhaustionBlocks == <>Drained \/ <>[]Exhausted

\* With the timeouts every rollout ends whatever the pool's size, one worker
\* or none included, and in the end no worker is held, by a cancelled node's
\* call neither.
TimeoutsFire == \A c \in Subs : WF_vars(SubcallTimeout(c))
TimeoutsFreeThePool == TimeoutsFire => <>Drained
=============================================================================
