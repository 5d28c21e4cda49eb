------------------------- MODULE EnvExecutorProofs -------------------------
(***************************************************************************)
(* The environment pool, for any rollouts, any pool size and any recursion *)
(* ceiling: no more calls run than there are workers, and when the pool    *)
(* cannot run dry.                                                         *)
(***************************************************************************)
EXTENDS EnvExecutor, FiniteSetTheorems, TLAPS

\* A call of a node is somewhere only after the node's task was started.
Born == \A n \in Node : call[n] # "none" => task[n] # "unborn"

\* A task that may still call the engine has a turn left.
TurnsLeft ==
    \A n \in Node :
        task[n] \in {"unborn", "sched", "init", "engine"} => turn[n] < MaxTurns

\* Whoever waits for a child was given rlm_query.
WaitersDelegate ==
    \A c \in Subs : fut[c] = "pending" =>
        /\ parent[c] \in Node
        /\ task[parent[c]] # "unborn"
        /\ depth[parent[c]] < ceiling

Inv == TypeOK /\ Born /\ TurnsLeft /\ WaitersDelegate

LEMMA NodeIsFinite == IsFiniteSet(Node)
  BY PoolAssumption, FS_Union DEF Node

LEMMA RunningIsFinite == IsFiniteSet(Running) /\ Cardinality(Running) \in Nat
  BY NodeIsFinite, FS_Subset, FS_CardinalityType DEF Running

\* Calls that only end, or only move to the queue, leave the pool within bounds.
LEMMA FewerRun ==
    ASSUME Running' \subseteq Running, UNCHANGED config,
           Cardinality(Running) <= Capacity, workers \in Nat
    PROVE  Cardinality(Running)' <= Capacity'
  <1>1. Cardinality(Running') <= Cardinality(Running) /\ Cardinality(Running') \in Nat
    BY RunningIsFinite, FS_Subset, FS_CardinalityType
  <1>2. Capacity' = Capacity /\ Capacity \in Nat
    BY DEF Capacity, config
  <1> QED BY <1>1, <1>2, RunningIsFinite

LEMMA InitInv == Init => Inv
  <1> SUFFICES ASSUME Init PROVE Inv
    OBVIOUS
  <1>1. Running = {} /\ Cardinality(Running) = 0
    BY FS_EmptySet DEF Running, Init, Ops
  <1>2. Capacity \in Nat /\ workers \in Nat
    BY PoolAssumption DEF Init, Capacity
  <1>3. TypeOK
    BY PoolAssumption, <1>1, <1>2 DEF Init, TypeOK, Node, Ops
  <1> QED BY <1>3, PoolAssumption
      DEF Init, Inv, Born, TurnsLeft, WaitersDelegate, Node

\* What a step that changes neither waits nor depths has to show.
LEMMA WaitersKept ==
    ASSUME Inv, UNCHANGED <<config, tree>>,
           \A c \in Subs : fut'[c] = "pending" => fut[c] = "pending",
           \A n \in Node : task[n] # "unborn" => task'[n] # "unborn"
    PROVE  WaitersDelegate'
  BY DEF Inv, WaitersDelegate, tree, config

LEMMA SubmitInv ==
    ASSUME Inv, NEW n \in Node, NEW op \in Ops, Submit(n, op),
           UNCHANGED <<config, tree, fut>>,
           turn' \in [Node -> 0..MaxTurns],
           \A m \in Node \ {n} : turn'[m] = turn[m],
           op = "init" => turn'[n] < MaxTurns
    PROVE  Inv'
  <1> USE DEF Inv, TypeOK
  <1>1. Running' \subseteq Running /\ workers \in Nat
    BY PoolAssumption DEF Running, Submit, Ops
  <1>2. Cardinality(Running)' <= Capacity'
    BY <1>1, FewerRun
  <1>3. TypeOK'
    <2>1. task' \in [Node -> {"unborn"} \cup Live \cup Ended] /\ queue' \in Seq(Node)
      BY DEF Submit, Live
    <2>2. call' \in [Node -> {"none", "queued"} \cup Ops]
      BY DEF Submit
    <2> QED BY <1>2, <2>1, <2>2 DEF config, tree
  <1>4. Born'
    BY DEF Born, Submit, Ops
  <1>5. TurnsLeft'
    BY DEF TurnsLeft, Submit, Ops
  <1>6. WaitersDelegate'
    BY WaitersKept DEF Submit, Ops
  <1> QED BY <1>3, <1>4, <1>5, <1>6

\* The same for a step that only moves n's task on, or ends it, without a call.
LEMMA TaskInv ==
    ASSUME Inv, NEW n \in Node, NEW t \in Live \cup Ended,
           t = "engine" => turn[n] < MaxTurns,
           t \notin {"sched", "init"},
           task' = [task EXCEPT ![n] = t],
           UNCHANGED <<config, tree, fut, turn, queue>>,
           call' \in [Node -> {"none", "queued"} \cup Ops],
           \A m \in Node : call'[m] \in {call[m], "none"}
    PROVE  Inv'
  <1> USE DEF Inv, TypeOK
  <1>1. Running' \subseteq Running /\ workers \in Nat
    BY PoolAssumption DEF Running, Ops
  <1>2. Cardinality(Running)' <= Capacity'
    BY <1>1, FewerRun
  <1>3. TypeOK'
    BY <1>2 DEF config, tree
  <1>4. Born'
    BY DEF Born, Live, Ended, Ops
  <1>5. TurnsLeft'
    BY DEF TurnsLeft, Live, Ended, Ops
  <1>6. WaitersDelegate'
    BY WaitersKept DEF Live, Ended, Ops
  <1> QED BY <1>3, <1>4, <1>5, <1>6

LEMMA BeginInv ==
    ASSUME Inv, NEW n \in Node, Begin(n)
    PROVE  Inv'
  <1> USE DEF Inv, TypeOK
  <1>1. PICK s \in {"none"} \cup Ops : call' = [call EXCEPT ![n] = s]
    BY DEF Begin
  <1>2. s # "none" => task[n] # "unborn"
    BY <1>1 DEF Begin, Ops
  <1>3. Cardinality(Running)' <= Capacity'
    <2>1. Running' \subseteq Running \cup {n}
      BY <1>1 DEF Running
    <2>2. /\ IsFiniteSet(Running \cup {n})
          /\ Cardinality(Running \cup {n}) <= Cardinality(Running) + 1
      <3> HIDE DEF Inv, TypeOK
      <3>1. /\ IsFiniteSet(Running \cup {n})
            /\ \/ Cardinality(Running \cup {n}) = Cardinality(Running)
               \/ Cardinality(Running \cup {n}) = Cardinality(Running) + 1
        BY RunningIsFinite, FS_AddElement, Zenon
      <3> QED BY <3>1, RunningIsFinite
    <2>3. Cardinality(Running') <= Cardinality(Running) + 1
      <3> HIDE DEF Inv, TypeOK
      <3>1. Cardinality(Running') <= Cardinality(Running \cup {n}) /\ IsFiniteSet(Running')
        BY <2>1, <2>2, FS_Subset
      <3> QED BY <2>2, <3>1, RunningIsFinite, FS_CardinalityType
    <2>4. Cardinality(Running) < Capacity /\ Capacity \in Nat
      BY PoolAssumption DEF Begin, Capacity
    <2>5. Capacity' = Capacity
      BY DEF Begin, config, Capacity
    <2>6. Cardinality(Running') \in Nat
      BY <2>1, <2>2, FS_Subset, FS_CardinalityType
    <2> QED BY <2>3, <2>4, <2>5, <2>6, RunningIsFinite
  <1>4. TypeOK'
    <2>1. call' \in [Node -> {"none", "queued"} \cup Ops]
      BY <1>1
    <2>2. queue' \in Seq(Node)
      BY DEF Begin
    <2> QED BY <1>3, <2>1, <2>2 DEF Begin, config, tree
  <1>5. Born'
    <2>1. task' = task
      BY DEF Begin
    <2> QED BY <1>1, <1>2, <2>1 DEF Born
  <1>6. TurnsLeft' /\ WaitersDelegate'
    BY DEF TurnsLeft, WaitersDelegate, Begin, config, tree
  <1> QED BY <1>4, <1>5, <1>6

LEMMA ReturnInv ==
    ASSUME Inv, NEW n \in Node, NEW op \in Ops, NEW next, Return(n, op, next),
           next \subseteq {"engine", "close", "failed", "finished"},
           (op = "init" /\ task[n] = "init") \/ ("engine" \in next => turn[n] < MaxTurns)
    PROVE  Inv'
  <1>1. CASE task[n] = op
    <2>1. PICK t \in next : Proceed(n, t)
      BY <1>1 DEF Return
    <2>2. UNCHANGED <<config, tree, fut, turn>>
      BY DEF Return
    <2>3. t = "engine" => turn[n] < MaxTurns
      BY DEF Inv, TurnsLeft
    <2>4. CASE t = "close"
      <3>1. Submit(n, "close")
        BY <2>1, <2>4 DEF Proceed, Ops
      <3> QED BY <3>1, <2>2, SubmitInv DEF Ops, Inv, TypeOK
    <2>5. CASE t # "close"
      <3>1. /\ t \in {"engine", "failed", "finished"}
            /\ task' = [task EXCEPT ![n] = t] /\ UNCHANGED queue
            /\ call' = [call EXCEPT ![n] = "none"]
        BY <2>1, <2>5 DEF Proceed, Ops
      <3>2. /\ call' \in [Node -> {"none", "queued"} \cup Ops]
            /\ \A m \in Node : call'[m] \in {call[m], "none"}
        BY <3>1 DEF Inv, TypeOK
      <3> QED BY <3>1, <3>2, <2>2, <2>3, TaskInv DEF Live, Ended
    <2> QED BY <2>4, <2>5
  <1>2. CASE task[n] # op
    <2> USE DEF Inv, TypeOK
    <2>1. call' = [call EXCEPT ![n] = "none"] /\ UNCHANGED <<config, tree, fut, turn, task, queue>>
      BY <1>2 DEF Return
    <2>2. Running' \subseteq Running /\ workers \in Nat
      BY <2>1, PoolAssumption DEF Running, Ops
    <2>3. Cardinality(Running)' <= Capacity'
      BY <2>1, <2>2, FewerRun
    <2>4. TypeOK'
      BY <2>1, <2>3 DEF config, tree
    <2> QED BY <2>1, <2>4 DEF Born, TurnsLeft, WaitersDelegate, config, tree
  <1> QED BY <1>1, <1>2

LEMMA AdvanceInv ==
    ASSUME Inv, NEW n \in Node, Advance(n)
    PROVE  Inv'
  <1>1. CASE Begin(n)
    BY <1>1, BeginInv
  <1>2. CASE InitReturn(n)
    <2>1. task[n] = "init" \/ task[n] # "init"
      OBVIOUS
    <2>2. CASE task[n] = "init"
      BY <1>2, <2>2, ReturnInv DEF InitReturn, Ops
    <2>3. CASE task[n] # "init"
      <3>1. Return(n, "init", {})
        BY <1>2, <2>3 DEF InitReturn, Return
      <3> QED BY <3>1, ReturnInv DEF Ops
    <2> QED BY <2>2, <2>3
  <1>3. CASE StepReturn(n)
    <2>1. Return(n, "step", AfterStep(n)) /\ turn[n] \in 0..MaxTurns
      BY <1>3 DEF StepReturn, Inv, TypeOK
    <2>2. "engine" \in AfterStep(n) => turn[n] < MaxTurns
      BY <2>1, PoolAssumption DEF AfterStep
    <2>3. AfterStep(n) \subseteq {"engine", "close", "failed", "finished"}
      BY DEF AfterStep
    <2> QED BY <2>1, <2>2, <2>3, ReturnInv DEF Ops
  <1>4. CASE CloseReturn(n)
    BY <1>4, ReturnInv DEF CloseReturn, Ops
  <1>5. CASE EngineReply(n)
    <2>1. turn[n] \in 0..MaxTurns /\ turn[n] < MaxTurns
      BY <1>5 DEF EngineReply, Inv, TypeOK, TurnsLeft
    <2>2. turn' \in [Node -> 0..MaxTurns] /\ \A m \in Node \ {n} : turn'[m] = turn[m]
      BY <1>5, <2>1, PoolAssumption DEF EngineReply, Inv, TypeOK
    <2> QED BY <1>5, <2>2, SubmitInv DEF EngineReply, Ops
  <1>6. CASE EngineFail(n)
    BY <1>6, TaskInv DEF EngineFail, Live, Ended, Inv, TypeOK
  <1> QED BY <1>1, <1>2, <1>3, <1>4, <1>5, <1>6 DEF Advance

LEMMA QueryInv ==
    ASSUME Inv, NEW n \in Node, NEW c \in Subs, Query(n, c)
    PROVE  Inv'
  <1> USE DEF Inv, TypeOK
  <1>1. c \in Node /\ n # c /\ task[n] # "unborn" /\ call[c] = "none"
    BY DEF Query, Born, Node
  <1>2. depth[n] \in 0..ceiling /\ depth[n] < ceiling /\ ceiling \in Nat
    BY PoolAssumption DEF Query, MayDelegate
  <1>3. Running' = Running /\ Capacity' = Capacity
    BY DEF Query, Running, config, Capacity
  <1>4. TypeOK'
    <2>1. depth' \in [Node -> 0..ceiling] /\ parent' \in [Node -> Node \cup {NoParent}]
      BY <1>1, <1>2 DEF Query
    <2>2. root' \in [Node -> Node] /\ fut' \in [Node -> {"none", "pending", "over", "timedout"}]
      BY <1>1 DEF Query
    <2> QED BY <1>3, <2>1, <2>2 DEF Query, config, Live
  <1>5. Born' /\ TurnsLeft'
    BY <1>1 DEF Born, TurnsLeft, Query
  <1>6. WaitersDelegate'
    <2> SUFFICES ASSUME NEW d \in Subs, fut'[d] = "pending"
                 PROVE  /\ parent'[d] \in Node
                        /\ task'[parent'[d]] # "unborn"
                        /\ depth'[parent'[d]] < ceiling'
      BY DEF WaitersDelegate
    <2>1. CASE d = c
      BY <1>1, <1>2, <2>1 DEF Query, config
    <2>2. CASE d # c
      <3>1. d \in Node /\ fut[d] = "pending" /\ parent'[d] = parent[d]
        BY <2>2 DEF Query, Node
      <3>2. parent[d] \in Node /\ task[parent[d]] # "unborn" /\ depth[parent[d]] < ceiling
        BY <3>1 DEF WaitersDelegate
      <3>3. parent[d] # c
        BY <3>2 DEF Query
      <3> QED BY <3>1, <3>2, <3>3 DEF Query, config
    <2> QED BY <2>1, <2>2
  <1> QED BY <1>4, <1>5, <1>6

LEMMA SubcallInv ==
    ASSUME Inv, NEW c \in Subs, Answer(c) \/ SubcallTimeout(c)
    PROVE  Inv'
  <1>1. c \in Node
    BY DEF Node
  <1>2. CASE RunChild(c)
    <2>1. CASE task' = [task EXCEPT ![c] = "refused"] /\ UNCHANGED <<queue, call>>
      BY <1>1, <1>2, <2>1, TaskInv DEF RunChild, Live, Ended, Inv, TypeOK
    <2>2. CASE Submit(c, "init")
      BY <1>1, <1>2, <2>2, SubmitInv DEF RunChild, Ops, Inv, TypeOK, TurnsLeft
    <2> QED BY <1>2, <2>1, <2>2 DEF RunChild
  <1>3. CASE SubcallReturn(c) \/ SubcallTimeout(c)
    <2> USE DEF Inv, TypeOK
    <2>1. PICK f \in {"over", "timedout"} : fut' = [fut EXCEPT ![c] = f]
      BY <1>3 DEF SubcallReturn, SubcallTimeout
    <2>2. UNCHANGED <<config, task, turn, tree, queue, call>>
      BY <1>3 DEF SubcallReturn, SubcallTimeout
    <2>3. Running' = Running /\ Capacity' = Capacity
      BY <2>2 DEF Running, config, Capacity
    <2>4. TypeOK'
      BY <2>1, <2>2, <2>3 DEF config, tree
    <2>5. WaitersDelegate'
      BY <1>1, <2>1, <2>2, WaitersKept DEF Node
    <2> QED BY <2>2, <2>4, <2>5 DEF Born, TurnsLeft
  <1>4. CASE Cancel(c)
    BY <1>1, <1>4, TaskInv DEF Cancel, Live, Ended, Inv, TypeOK
  <1> QED BY <1>2, <1>3, <1>4 DEF Answer

LEMMA NextInv == Inv /\ [Next]_vars => Inv'
  <1> SUFFICES ASSUME Inv, [Next]_vars PROVE Inv'
    OBVIOUS
  <1>1. ASSUME NEW r \in Roots, StartRoot(r) PROVE Inv'
    BY <1>1, SubmitInv DEF StartRoot, Ops, Node, Inv, TypeOK, TurnsLeft
  <1>2. ASSUME NEW n \in Node, Advance(n) PROVE Inv'
    BY <1>2, AdvanceInv
  <1>3. ASSUME NEW n \in Node, NEW c \in Subs, Query(n, c) PROVE Inv'
    BY <1>3, QueryInv
  <1>4. ASSUME NEW c \in Subs, Answer(c) \/ SubcallTimeout(c) PROVE Inv'
    BY <1>4, SubcallInv
  <1>5. CASE UNCHANGED vars
    <2>1. Running' = Running /\ Capacity' = Capacity
      BY <1>5 DEF vars, config, Running, Capacity
    <2> QED BY <1>5, <2>1 DEF vars, config, tree, Inv, TypeOK, Born, TurnsLeft, WaitersDelegate
  <1> QED BY <1>1, <1>2, <1>3, <1>4, <1>5 DEF Next

LEMMA InvHolds == Spec => []Inv
  BY InitInv, NextInv, PTL DEF Spec

-----------------------------------------------------------------------------
(* The theorems.                                                             *)

\* The pool's state keeps its type and never has more calls than workers.
THEOREM PoolTypeCorrect == Spec => []TypeOK
  <1>1. Inv => TypeOK
    BY DEF Inv
  <1> QED BY <1>1, InvHolds, PTL

\* With more workers than nodes that may delegate, some worker is always free
\* or runs a call that waits for nobody.
THEOREM SizedPoolIsNeverExhausted == Spec => []SizedPoolServes
  <1>1. Inv => SizedPoolServes
    <2> SUFFICES ASSUME Inv, Cardinality(Callers) < workers, Exhausted PROVE FALSE
      BY DEF SizedPoolServes
    <2>1. Blocked \subseteq Callers
      BY DEF Blocked, Callers, Outstanding, Running, Inv, WaitersDelegate
    <2>2. IsFiniteSet(Callers) /\ Cardinality(Callers) \in Nat
      BY NodeIsFinite, FS_Subset, FS_CardinalityType DEF Callers
    <2>3. Cardinality(Blocked) <= Cardinality(Callers)
      BY <2>1, <2>2, FS_Subset
    <2>4. workers \in Nat
      BY PoolAssumption DEF Inv, TypeOK
    <2>5. Capacity = workers
      BY <2>2, <2>4 DEF Capacity
    <2>6. Cardinality(Blocked) = workers
      BY <2>5 DEF Exhausted
    <2> QED BY <2>2, <2>3, <2>4, <2>6
  <1> QED BY <1>1, InvHolds, PTL
=============================================================================
