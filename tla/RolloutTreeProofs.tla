------------------------- MODULE RolloutTreeProofs -------------------------
(***************************************************************************)
(* The registry of rollouts, for any set of roots and of subcalls, any     *)
(* depth and turn limit: a context never outlives its tree's root, so no   *)
(* llm_query reaches the engine once generate() has returned; the stack    *)
(* walk visits a tree's nodes once each, in preorder, and every answer the *)
(* tree used is among the rows its root hands over.                        *)
(***************************************************************************)
EXTENDS RolloutTree, DataLemmas

-----------------------------------------------------------------------------
(* Type correctness.                                                         *)

\* A task that may still call the engine has a turn left: done is forced at
\* max_turns, so agent_loop never starts turn max_turns + 1.
TurnsLeft ==
    \A r \in Rid :
        task[r] \in {"unborn", "sched", "init", "generate"} => turn[r] < MaxTurns

TypeInv == TypeOK /\ TurnsLeft

LEMMA InitType == Init => TypeInv
  BY TreeAssumption, FS_EmptySet
  DEF Init, TypeInv, TypeOK, TurnsLeft, Rid, Turns, Live, Terminal, CellState, Blocked

LEMMA SiblingCountType ==
    ASSUME TypeOK, NEW p PROVE SiblingCount(p) \in Nat
  <1>1. IsFiniteSet({s \in active : parent[s] = p})
    BY FS_Subset DEF TypeOK
  <1> QED BY <1>1, FS_CardinalityType DEF SiblingCount

LEMMA StartRootType ==
    ASSUME TypeInv, NEW r \in Roots, StartRoot(r) PROVE TypeInv'
  <1>1. IsFiniteSet(active \cup {r})
    BY FS_AddElement DEF TypeInv, TypeOK
  <1> QED BY <1>1 DEF TypeInv, TypeOK, TurnsLeft, StartRoot, Rid, Live

LEMMA TaskStepType ==
    ASSUME TypeInv, NEW r \in Rid, TaskStep(r) PROVE TypeInv'
  <1> USE TreeAssumption DEF TypeInv, TypeOK, TurnsLeft, Live, Terminal
  <1>1. CASE InitDone(r)
    BY <1>1 DEF InitDone, registry
  <1>2. CASE EngineReply(r)
    <2>1. turn[r] + 1 \in Turns
      BY <1>2 DEF EngineReply, Turns
    <2>2. cell' \in [Rid -> [Turns -> CellState]]
      BY <1>2, <2>1 DEF EngineReply, CellState
    <2>3. turn' \in [Rid -> 0..MaxTurns]
      BY <1>2, <2>1 DEF EngineReply, Turns
    <2> QED BY <1>2, <2>2, <2>3 DEF EngineReply, registry
  <1>3. CASE EngineFail(r)
    BY <1>3 DEF EngineFail, registry
  <1>4. CASE StepReturn(r)
    BY <1>4 DEF StepReturn, AfterStep, registry
  <1>5. CASE CloseChild(r)
    BY <1>5 DEF CloseChild
  <1>6. CASE CloseRoot(r)
    <2>1. IsFiniteSet(active \ ({r} \cup Descendants(r)))
      BY FS_Subset
    <2> QED BY <1>6, <2>1 DEF CloseRoot
  <1> QED BY <1>1, <1>2, <1>3, <1>4, <1>5, <1>6 DEF TaskStep

LEMMA CellStepType ==
    ASSUME TypeInv, NEW r \in Rid, NEW k \in Turns, CellStep(r, k) PROVE TypeInv'
  <1> USE DEF TypeInv, TypeOK, TurnsLeft
  <1>1. ASSUME NEW s \in CellState, SetCell(r, k, s)
        PROVE  cell' \in [Rid -> [Turns -> CellState]]
    BY <1>1 DEF SetCell
  <1>2. {"idle", "run", "wait", "lmQueued", "lmWait"} \subseteq CellState
    BY DEF CellState, Blocked
  <1>3. CASE CellEnd(r, k)
    BY <1>1, <1>2, <1>3 DEF CellEnd, registry
  <1>4. CASE Resume(r, k)
    BY <1>1, <1>2, <1>4 DEF Resume, registry
  <1>5. CASE LmQuery(r, k)
    BY <1>1, <1>2, <1>5 DEF LmQuery, registry
  <1>6. CASE LmStart(r, k)
    BY <1>1, <1>2, <1>6 DEF LmStart, registry
  <1>7. CASE LmReturn(r, k)
    BY <1>1, <1>2, <1>7 DEF LmReturn, registry
  <1>8. ASSUME NEW c \in Subs, RlmQuery(r, k, c) PROVE TypeInv'
    <2>1. cell' \in [Rid -> [Turns -> CellState]]
      BY <1>1, <1>2, <1>8 DEF RlmQuery
    <2>2. c \in Rid /\ k \in 0..MaxTurns
      BY TreeAssumption DEF Rid, Turns
    <2> QED BY <1>8, <2>1, <2>2 DEF RlmQuery, Live
  <1> QED BY <1>3, <1>4, <1>5, <1>6, <1>7, <1>8 DEF CellStep

LEMMA SubcallStepType ==
    ASSUME TypeInv, NEW c \in Subs, SubcallStep(c) PROVE TypeInv'
  <1> USE DEF TypeInv, TypeOK, TurnsLeft, Live, Terminal
  <1>1. c \in Rid
    BY DEF Rid
  <1>2. CASE task[c] = "sched" /\ RegisterChild(c) /\ CanRunChild(c)
             /\ UNCHANGED <<phase, parent, stored, inlined, turn, cell, callTurn, fut>>
    <2>1. IsFiniteSet(active \cup {c})
      BY FS_AddElement
    <2>2. SiblingCount(parent[c]) \in Nat
      BY SiblingCountType
    <2>3. parent[c] \in Rid
      BY <1>2 DEF CanRunChild
    <2>4. depth' \in [Rid -> Nat] /\ childIndex' \in [Rid -> Nat]
      <3>1. /\ depth' = [depth EXCEPT ![c] = depth[parent[c]] + 1]
            /\ childIndex' = [childIndex EXCEPT ![c] = SiblingCount(parent[c])]
        BY <1>2 DEF RegisterChild
      <3>2. depth[parent[c]] + 1 \in Nat
        BY <2>3
      <3> QED BY <1>1, <2>2, <3>1, <3>2
    <2>5. tree' \in [Rid -> Roots \cup {NoParent}] /\ log' \in Seq(Rid)
      BY <1>1, <1>2, <2>3 DEF RegisterChild
    <2>6. active' \subseteq Rid /\ IsFiniteSet(active')
      BY <1>1, <1>2, <2>1 DEF RegisterChild
    <2>7. /\ task' \in [Rid -> {"unborn"} \cup Live \cup Terminal]
          /\ TurnsLeft'
      BY <1>1, <1>2 DEF RegisterChild
    <2> QED BY <1>2, <2>4, <2>5, <2>6, <2>7
  <1>3. CASE task[c] = "sched" /\ task' = [task EXCEPT ![c] = "refused"]
             /\ UNCHANGED <<active, log, depth, childIndex, tree>>
             /\ UNCHANGED <<phase, parent, stored, inlined, turn, cell, callTurn, fut>>
    BY <1>1, <1>3
  <1>4. CASE SubcallReturn(c)
    <2>1. (CASE task[c] = "finished" -> "answered"
             [] task[c] = "refused"  -> "empty"
             [] OTHER                -> "error") \in {"answered", "empty", "error"}
      OBVIOUS
    <2> QED BY <1>1, <1>4, <2>1 DEF SubcallReturn, registry
  <1>5. CASE SubcallTimeout(c)
    BY <1>1, <1>5 DEF SubcallTimeout, registry
  <1>6. CASE Cancel(c)
    BY <1>1, <1>6 DEF Cancel, registry
  <1> QED BY <1>2, <1>3, <1>4, <1>5, <1>6 DEF SubcallStep, RunChild

LEMMA NextType == TypeInv /\ [Next]_vars => TypeInv'
  <1> SUFFICES ASSUME TypeInv, [Next]_vars PROVE TypeInv'
    OBVIOUS
  <1>1. CASE EndOfStep
    BY <1>1, FS_EmptySet DEF EndOfStep, TypeInv, TypeOK, TurnsLeft
  <1>2. CASE UNCHANGED vars
    BY <1>2 DEF vars, registry, TypeInv, TypeOK, TurnsLeft
  <1> QED BY <1>1, <1>2, StartRootType, TaskStepType, CellStepType, SubcallStepType
          DEF Next

\* Every reachable state is well typed, whatever the sizes of the instance.
THEOREM TypeCorrect == Spec => []TypeOK
  <1>1. TypeInv => TypeOK
    BY DEF TypeInv
  <1> QED BY <1>1, InitType, NextType, PTL DEF Spec

-----------------------------------------------------------------------------
(* The inductive invariant of the registry.                                  *)

\* Only a task that ran agent_loop's first step is registered, and roots have
\* no parent and are their own tree.
Registered ==
    \A r \in active :
        /\ task[r] \notin {"unborn", "sched", "refused"}
        /\ r \in Roots => parent[r] = NoParent /\ tree[r] = r

\* The root of every registered node is itself registered and not finished.
RootOpen ==
    \A r \in active :
        tree[r] \in Roots /\ tree[r] \in active /\ task[tree[r]] # "finished"

\* The descendants of a root are all of its tree: no node can be cut off from
\* the root by an unregistered ancestor.
TreeReachable ==
    \A x \in Roots : \A S \in SUBSET Rid : ClosedBelow(x, S) =>
        \A d \in active : (tree[d] = x /\ d # x) => d \in S

\* generate() returns only after every root finished, and roots stay finished.
TrainQuiet == phase = "train" => \A r \in Roots : task[r] = "finished"

RootsParentless == \A r \in Roots : parent[r] = NoParent

IInv ==
    /\ TypeInv
    /\ Registered
    /\ ParentsRegistered
    /\ RootOpen
    /\ TreeReachable
    /\ TrainQuiet
    /\ RootsParentless

LEMMA InitIInv == Init => IInv
  BY InitType
  DEF Init, IInv, Registered, ParentsRegistered, RootOpen, TreeReachable,
      TrainQuiet, RootsParentless, Rid

\* Whatever leaves the tree's shape alone and finishes no root preserves it.
LEMMA ShapeKept ==
    ASSUME IInv, TypeInv',
           UNCHANGED <<phase, active, depth, tree>>,
           \A c \in active : parent'[c] = parent[c],
           \A r \in Roots : parent'[r] = parent[r],
           \A r \in Roots : task'[r] = "finished" <=> task[r] = "finished",
           \A r \in active : task'[r] \notin {"unborn", "sched", "refused"}
    PROVE  IInv'
  <1> USE DEF IInv
  <1>1. Registered'
    BY DEF Registered
  <1>2. ParentsRegistered'
    BY DEF ParentsRegistered
  <1>3. RootOpen'
    BY DEF RootOpen
  <1>4. TreeReachable'
    <2>1. ASSUME NEW x \in Roots, NEW S \in SUBSET Rid
          PROVE  ClosedBelow(x, S)' = ClosedBelow(x, S)
      BY DEF ClosedBelow
    <2> QED BY <2>1 DEF TreeReachable
  <1>5. TrainQuiet' /\ RootsParentless'
    BY DEF TrainQuiet, RootsParentless
  <1> QED BY <1>1, <1>2, <1>3, <1>4, <1>5

LEMMA StartRootIInv ==
    ASSUME IInv, NEW r \in Roots, StartRoot(r) PROVE IInv'
  <1> USE DEF IInv, TypeInv, TypeOK
  <1>1. TypeInv'
    BY StartRootType
  <1>2. r \notin active
    BY DEF Registered, StartRoot
  <1>3. /\ active' = active \cup {r} /\ tree'[r] = r /\ task'[r] = "init"
        /\ UNCHANGED <<phase, parent, depth>>
        /\ \A x \in Rid \ {r} : tree'[x] = tree[x] /\ task'[x] = task[x]
        /\ r \in Rid
    BY DEF StartRoot, Rid
  <1>4. Registered'
    BY <1>3 DEF Registered, RootsParentless
  <1>5. ParentsRegistered'
    BY <1>2, <1>3, TreeAssumption DEF ParentsRegistered
  <1>6. RootOpen'
    BY <1>2, <1>3 DEF RootOpen
  <1>7. TreeReachable'
    <2> SUFFICES ASSUME NEW x \in Roots, NEW S \in SUBSET Rid, ClosedBelow(x, S)',
                        NEW d \in active', tree'[d] = x, d # x
                 PROVE  d \in S
      BY DEF TreeReachable
    <2>1. ClosedBelow(x, S)
      BY <1>3 DEF ClosedBelow
    <2>2. d \in active /\ tree[d] = x
      BY <1>3
    <2> QED BY <2>1, <2>2 DEF TreeReachable
  <1>8. TrainQuiet' /\ RootsParentless'
    BY <1>3 DEF TrainQuiet, RootsParentless, StartRoot, Rid
  <1> QED BY <1>1, <1>4, <1>5, <1>6, <1>7, <1>8

LEMMA RegisterChildIInv ==
    ASSUME IInv, TypeInv', NEW c \in Subs, task[c] = "sched", CanRunChild(c),
           RegisterChild(c), UNCHANGED <<phase, parent>>
    PROVE  IInv'
  <1> USE DEF IInv
  <1> DEFINE p == parent[c]
  <1>1. c \in Rid /\ c \notin Roots /\ c \notin active /\ p \in active /\ p \in Rid
    BY TreeAssumption DEF CanRunChild, Registered, Rid, TypeInv, TypeOK
  <1>2. /\ active' = active \cup {c}
        /\ tree' = [tree EXCEPT ![c] = tree[p]]
        /\ depth' = [depth EXCEPT ![c] = depth[p] + 1]
        /\ task' = [task EXCEPT ![c] = "init"]
    BY DEF RegisterChild
  <1>3. /\ tree'[c] = tree[p] /\ depth'[c] = depth[p] + 1 /\ task'[c] = "init"
        /\ \A x \in Rid \ {c} : /\ tree'[x] = tree[x] /\ depth'[x] = depth[x]
                                /\ task'[x] = task[x]
    BY <1>1, <1>2 DEF TypeInv, TypeOK
  <1>4. Registered'
    BY <1>1, <1>2, <1>3 DEF Registered, TypeInv, TypeOK
  <1>5. ParentsRegistered'
    <2> SUFFICES ASSUME NEW x \in active' \cap Subs
                 PROVE  /\ parent[x] \in active'
                        /\ tree'[x] = tree'[parent[x]]
                        /\ depth'[x] = depth'[parent[x]] + 1
      BY DEF ParentsRegistered
    <2>1. CASE x = c
      BY <1>1, <1>2, <1>3, <2>1
    <2>2. CASE x # c
      <3>1. /\ x \in active \cap Subs /\ x \in Rid
            /\ parent[x] \in active /\ parent[x] \in Rid \ {c}
        BY <1>1, <1>2, <2>2 DEF ParentsRegistered, TypeInv, TypeOK
      <3> QED BY <1>2, <1>3, <2>2, <3>1 DEF ParentsRegistered
    <2> QED BY <2>1, <2>2
  <1>6. RootOpen'
    BY <1>1, <1>2, <1>3 DEF RootOpen, TypeInv, TypeOK
  <1>7. TreeReachable'
    <2> SUFFICES ASSUME NEW x \in Roots, NEW S \in SUBSET Rid, ClosedBelow(x, S)',
                        NEW d \in active', tree'[d] = x, d # x
                 PROVE  d \in S
      BY DEF TreeReachable
    <2>1. ClosedBelow(x, S)
      BY <1>2 DEF ClosedBelow
    <2>2. CASE d = c
      <3>1. tree[p] = x
        BY <1>3, <2>2
      <3>2. p \in S \cup {x}
        BY <1>1, <2>1, <3>1 DEF TreeReachable
      <3> QED BY <1>2, <2>2, <3>2 DEF ClosedBelow
    <2>3. CASE d # c
      <3>1. d \in active /\ tree[d] = x
        BY <1>2, <1>3, <2>3 DEF TypeInv, TypeOK
      <3> QED BY <2>1, <3>1 DEF TreeReachable
    <2> QED BY <2>2, <2>3
  <1>8. TrainQuiet' /\ RootsParentless'
    BY <1>1, <1>3 DEF TrainQuiet, RootsParentless, Rid
  <1> QED BY <1>4, <1>5, <1>6, <1>7, <1>8

\* Descendants(x) is exactly the rest of x's tree, so teardown removes the
\* whole tree and nothing else.
LEMMA TreeIsDescendants ==
    ASSUME IInv, NEW x \in Roots \cap active
    PROVE  {x} \cup Descendants(x) = {d \in active : tree[d] = x}
  <1> USE DEF IInv
  <1> DEFINE T == {d \in active : tree[d] = x}
  <1>1. T \in SUBSET Rid /\ x \in T
    BY DEF TypeInv, TypeOK, Registered
  <1>2. ClosedBelow(x, T)
    <2> SUFFICES ASSUME NEW c \in active, parent[c] \in T \cup {x} PROVE c \in T
      BY DEF ClosedBelow
    <2>1. c \in Subs
      BY <1>1, TreeAssumption DEF RootsParentless, TypeInv, TypeOK, Rid
    <2> QED BY <1>1, <2>1 DEF ParentsRegistered
  <1>3. Descendants(x) \subseteq T
    BY <1>1, <1>2 DEF Descendants
  <1>4. T \subseteq {x} \cup Descendants(x)
    BY DEF TreeReachable, Descendants
  <1> QED BY <1>1, <1>3, <1>4

LEMMA CloseRootIInv ==
    ASSUME IInv, NEW x \in Roots, CloseRoot(x) PROVE IInv'
  <1> USE DEF IInv
  <1>1. x \in Rid
    BY DEF Rid
  <1>2. TypeInv'
    BY <1>1, TaskStepType DEF TaskStep
  <1>3. /\ UNCHANGED <<phase, parent, depth, tree>>
        /\ task'[x] = "finished"
        /\ \A r \in Rid \ {x} : task'[r] = task[r]
        /\ task[x] = "close"
    BY <1>1 DEF CloseRoot, TypeInv, TypeOK
  <1>4. active' = {d \in active : tree[d] # x}
    <2>1. CASE x \in active
      BY <2>1, TreeIsDescendants DEF CloseRoot
    <2>2. CASE x \notin active
      BY <2>2 DEF CloseRoot, RootOpen
    <2> QED BY <2>1, <2>2
  <1>5. active \subseteq Rid
    BY DEF TypeInv, TypeOK
  <1>6. Registered'
    BY <1>3, <1>4, <1>5 DEF Registered
  <1>7. ParentsRegistered'
    BY <1>3, <1>4 DEF ParentsRegistered
  <1>8. RootOpen'
    <2> SUFFICES ASSUME NEW r \in active'
                 PROVE  /\ tree[r] \in Roots /\ tree[r] \in active'
                        /\ task'[tree[r]] # "finished"
      BY <1>3 DEF RootOpen
    <2>1. r \in active /\ tree[r] # x /\ tree[r] \in Roots /\ tree[r] \in active
      BY <1>4 DEF RootOpen
    <2>2. tree[tree[r]] = tree[r]
      BY <2>1 DEF Registered
    <2> QED BY <1>3, <1>4, <1>5, <2>1, <2>2 DEF RootOpen
  <1>9. TreeReachable'
    <2> SUFFICES ASSUME NEW y \in Roots, NEW S \in SUBSET Rid, ClosedBelow(y, S)',
                        NEW d \in active', tree'[d] = y, d # y
                 PROVE  d \in S
      BY DEF TreeReachable
    <2> DEFINE S2 == S \cup {c \in active : tree[c] = x}
    <2>1. y # x /\ d \in active /\ tree[d] = y
      BY <1>3, <1>4
    <2>2. S2 \in SUBSET Rid
      BY <1>5
    <2>3. ClosedBelow(y, S2)
      <3> SUFFICES ASSUME NEW c \in active, parent[c] \in S2 \cup {y}, tree[c] # x
                   PROVE  c \in S
        BY DEF ClosedBelow
      <3>1. c \in Subs
        BY <1>5, <2>2, TreeAssumption DEF RootsParentless, Rid
      <3>2. tree[parent[c]] # x
        BY <3>1 DEF ParentsRegistered
      <3>3. parent[c] \in active
        BY <3>1 DEF ParentsRegistered
      <3>4. parent'[c] \in S \cup {y} /\ c \in active'
        BY <1>3, <1>4, <3>2
      <3> QED BY <3>4 DEF ClosedBelow
    <2>4. d \in S2
      BY <2>1, <2>2, <2>3 DEF TreeReachable
    <2> QED BY <2>1, <2>4
  <1>10. TrainQuiet' /\ RootsParentless'
    BY <1>3 DEF TrainQuiet, RootsParentless, Rid
  <1> QED BY <1>2, <1>6, <1>7, <1>8, <1>9, <1>10

LEMMA TaskStepIInv ==
    ASSUME IInv, NEW r \in Rid, TaskStep(r) PROVE IInv'
  <1>1. TypeInv'
    BY TaskStepType DEF IInv
  <1>2. CASE CloseRoot(r)
    BY <1>2, CloseRootIInv DEF CloseRoot
  <1>3. CASE InitDone(r) \/ EngineReply(r) \/ EngineFail(r) \/ StepReturn(r)
             \/ CloseChild(r)
    <2>1. UNCHANGED <<phase, active, parent, depth, tree>>
      BY <1>3
      DEF InitDone, EngineReply, EngineFail, StepReturn, CloseChild, registry
    <2>2. \A x \in Rid \ {r} : task'[x] = task[x]
      BY <1>3
      DEF InitDone, EngineReply, EngineFail, StepReturn, CloseChild, IInv, TypeInv, TypeOK
    <2>3. /\ task[r] # "finished"
          /\ task'[r] \notin {"unborn", "sched", "refused"}
          /\ r \in Roots => task'[r] # "finished"
      BY <1>3, TreeAssumption
      DEF InitDone, EngineReply, EngineFail, StepReturn, AfterStep, CloseChild,
          IInv, TypeInv, TypeOK
    <2>4. \A x \in active : task'[x] \notin {"unborn", "sched", "refused"}
      BY <2>2, <2>3 DEF IInv, Registered, TypeInv, TypeOK
    <2>5. \A x \in Roots : task'[x] = "finished" <=> task[x] = "finished"
      BY <2>2, <2>3 DEF Rid
    <2> QED BY <1>1, <2>1, <2>4, <2>5, ShapeKept
  <1> QED BY <1>2, <1>3 DEF TaskStep

LEMMA CellStepIInv ==
    ASSUME IInv, NEW r \in Rid, NEW k \in Turns, CellStep(r, k) PROVE IInv'
  <1>1. TypeInv'
    BY CellStepType DEF IInv
  <1>2. CASE \E c \in Subs : RlmQuery(r, k, c)
    <2>1. PICK c \in Subs : RlmQuery(r, k, c)
      BY <1>2
    <2>2. c \in Rid /\ c \notin Roots /\ c \notin active
      BY <2>1, TreeAssumption DEF RlmQuery, IInv, Registered, Rid
    <2>3. /\ UNCHANGED <<phase, active, depth, tree>>
          /\ \A x \in Rid \ {c} : parent'[x] = parent[x] /\ task'[x] = task[x]
      BY <2>1 DEF RlmQuery, IInv, TypeInv, TypeOK
    <2>4. active \subseteq Rid \ {c} /\ Roots \subseteq Rid \ {c}
      BY <2>2 DEF IInv, TypeInv, TypeOK, Rid
    <2>5. \A x \in active : task'[x] \notin {"unborn", "sched", "refused"}
      BY <2>3, <2>4 DEF IInv, Registered
    <2> QED BY <1>1, <2>3, <2>4, <2>5, ShapeKept
  <1>3. CASE CellEnd(r, k) \/ Resume(r, k) \/ LmQuery(r, k) \/ LmStart(r, k)
             \/ LmReturn(r, k)
    <2>1. UNCHANGED <<phase, active, parent, depth, tree, task>>
      BY <1>3 DEF CellEnd, Resume, LmQuery, LmStart, LmReturn, registry
    <2> QED BY <1>1, <2>1, ShapeKept DEF IInv, Registered
  <1> QED BY <1>2, <1>3 DEF CellStep

LEMMA SubcallStepIInv ==
    ASSUME IInv, NEW c \in Subs, SubcallStep(c) PROVE IInv'
  <1>1. TypeInv'
    BY SubcallStepType DEF IInv
  <1>2. c \in Rid /\ c \notin Roots /\ Roots \subseteq Rid
    BY TreeAssumption DEF Rid
  <1>3. CASE RunChild(c)
    <2>1. CASE CanRunChild(c) /\ RegisterChild(c)
      BY <1>1, <1>3, <2>1, RegisterChildIInv DEF RunChild
    <2>2. CASE /\ task' = [task EXCEPT ![c] = "refused"]
               /\ UNCHANGED <<active, log, depth, childIndex, tree>>
      <3>1. c \notin active /\ task[c] = "sched" /\ UNCHANGED <<phase, parent>>
        BY <1>3 DEF RunChild, IInv, Registered
      <3>2. \A x \in Rid \ {c} : task'[x] = task[x]
        BY <2>2 DEF IInv, TypeInv, TypeOK
      <3>3. \A x \in active : task'[x] \notin {"unborn", "sched", "refused"}
        BY <3>1, <3>2 DEF IInv, Registered, TypeInv, TypeOK
      <3> QED BY <1>1, <1>2, <2>2, <3>1, <3>2, <3>3, ShapeKept
    <2> QED BY <1>3, <2>1, <2>2 DEF RunChild
  <1>4. CASE SubcallReturn(c) \/ SubcallTimeout(c)
    <2>1. UNCHANGED <<phase, active, parent, depth, tree, task>>
      BY <1>4 DEF SubcallReturn, SubcallTimeout, registry
    <2> QED BY <1>1, <2>1, ShapeKept DEF IInv, Registered
  <1>5. CASE Cancel(c)
    <2>1. UNCHANGED <<phase, active, parent, depth, tree>>
      BY <1>5 DEF Cancel, registry
    <2>2. /\ \A x \in Rid \ {c} : task'[x] = task[x]
          /\ task'[c] = "cancelled"
      BY <1>2, <1>5 DEF Cancel, IInv, TypeInv, TypeOK
    <2>3. \A x \in active : task'[x] \notin {"unborn", "sched", "refused"}
      BY <2>2 DEF IInv, Registered, TypeInv, TypeOK
    <2> QED BY <1>1, <1>2, <2>1, <2>2, <2>3, ShapeKept
  <1> QED BY <1>3, <1>4, <1>5 DEF SubcallStep

LEMMA EndOfStepIInv == ASSUME IInv, EndOfStep PROVE IInv'
  <1>1. TypeInv'
    BY NextType DEF IInv, Next
  <1>2. active' = {} /\ UNCHANGED <<parent, task, tree>>
    BY DEF EndOfStep
  <1>3. Registered' /\ ParentsRegistered' /\ RootOpen' /\ TreeReachable'
    BY <1>2 DEF Registered, ParentsRegistered, RootOpen, TreeReachable
  <1>4. TrainQuiet' /\ RootsParentless'
    BY <1>2 DEF EndOfStep, TrainQuiet, IInv, RootsParentless
  <1> QED BY <1>1, <1>3, <1>4 DEF IInv

LEMMA NextIInv == IInv /\ [Next]_vars => IInv'
  <1> SUFFICES ASSUME IInv, [Next]_vars PROVE IInv'
    OBVIOUS
  <1>1. CASE UNCHANGED vars
    <2>1. TypeInv' /\ UNCHANGED <<phase, active, parent, depth, tree, task>>
      BY <1>1, NextType DEF IInv, vars, registry
    <2> QED BY <2>1, ShapeKept DEF IInv, Registered
  <1> QED BY <1>1, StartRootIInv, TaskStepIInv, CellStepIInv, SubcallStepIInv,
             EndOfStepIInv DEF Next

-----------------------------------------------------------------------------
\* Registration never meets a missing parent: the tree is closed upwards.
THEOREM ParentsAlwaysRegistered == Spec => []ParentsRegistered
  <1>1. IInv => ParentsRegistered
    BY DEF IInv
  <1> QED BY <1>1, InitIInv, NextIInv, PTL DEF Spec

\* Teardown is complete and final: no context outlives the root of its tree.
THEOREM NoLeakedContext == Spec => []NoContextOutlivesRoot
  <1>1. IInv => NoContextOutlivesRoot
    BY DEF IInv, RootOpen, NoContextOutlivesRoot
  <1> QED BY <1>1, InitIInv, NextIInv, PTL DEF Spec

\* Between generate()'s return and the next step the registry is empty, so the
\* guard of _generate refuses every llm_query of an orphaned cell.
THEOREM NoLateLmCall == Spec => NoLmCallWhileTraining
  <1> DEFINE Quiet == phase = "train" => \A r \in Rid, k \in Turns :
                          cell'[r][k] = "lmWait" => cell[r][k] = "lmWait"
  <1>1. IInv /\ [Next]_vars => [Quiet]_vars
    <2> SUFFICES ASSUME IInv, Next, phase = "train",
                        NEW r \in Rid, NEW k \in Turns, cell'[r][k] = "lmWait"
                 PROVE  cell[r][k] = "lmWait"
      OBVIOUS
    <2>1. active = {}
      BY DEF IInv, RootOpen, TrainQuiet
    <2>2. \A x \in Roots : task[x] = "finished"
      BY DEF IInv, TrainQuiet
    <2>3. cell \in [Rid -> [Turns -> CellState]]
      BY DEF IInv, TypeInv, TypeOK
    <2>4. CASE \E x \in Rid : TaskStep(x)
      BY <2>3, <2>4
      DEF TaskStep, InitDone, EngineReply, EngineFail, StepReturn, CloseChild, CloseRoot
    <2>5. CASE \E x \in Rid, j \in Turns : CellStep(x, j)
      <3>1. PICK x \in Rid, j \in Turns : CellStep(x, j)
        BY <2>5
      <3>2. \E s \in {"idle", "run", "wait", "lmQueued"} : SetCell(x, j, s)
        BY <2>1, <3>1
        DEF CellStep, CellEnd, Resume, LmQuery, LmStart, LmReturn, RlmQuery, MayGenerate
      <3> QED BY <2>3, <3>2 DEF SetCell
    <2>6. CASE \E c \in Subs : SubcallStep(c)
      BY <2>6 DEF SubcallStep, RunChild, SubcallReturn, SubcallTimeout, Cancel
    <2>7. CASE EndOfStep \/ \E x \in Roots : StartRoot(x)
      BY <2>7 DEF EndOfStep, StartRoot
    <2> QED BY <2>4, <2>5, <2>6, <2>7 DEF Next
  <1> QED BY <1>1, InitIInv, NextIInv, PTL DEF Spec, NoLmCallWhileTraining

-----------------------------------------------------------------------------
(* Sibling indices.                                                          *)

Begun(r) == task[r] \notin {"unborn", "sched", "refused"}

\* The log holds every registered node, and only nodes that were registered,
\* once each.
Logged ==
    /\ \A r \in active : \E i \in DOMAIN log : log[i] = r
    /\ \A i \in DOMAIN log : Begun(log[i])
    /\ \A i, j \in DOMAIN log : log[i] = log[j] => i = j

IndexInv == IInv /\ Logged /\ SiblingsIndexed

\* Siblings are torn down together, because a whole tree is.
LEMMA SiblingsTornDownTogether ==
    ASSUME IInv, NEW x \in Roots, CloseRoot(x), NEW c \in active' \cap Subs,
           NEW s \in active, parent[s] = parent[c]
    PROVE  c \in active /\ s \in active'
  <1>1. active' = {d \in active : tree[d] # x}
    <2>1. CASE x \in active
      BY <2>1, TreeIsDescendants DEF CloseRoot
    <2>2. CASE x \notin active
      BY <2>2 DEF CloseRoot, RootOpen, IInv
    <2> QED BY <2>1, <2>2
  <1>2. c \in active \cap Subs /\ parent[c] \in active /\ tree[c] = tree[parent[c]]
    BY <1>1 DEF IInv, ParentsRegistered
  <1>3. s \in Subs
    BY <1>2, TreeAssumption DEF IInv, RootsParentless, TypeInv, TypeOK, Rid
  <1>4. tree[s] = tree[parent[s]]
    BY <1>3 DEF IInv, ParentsRegistered
  <1> QED BY <1>1, <1>2, <1>4

\* Whatever registers nothing keeps the indices, if it tears siblings down
\* together.
LEMMA IndicesKept ==
    ASSUME IndexInv, IInv', UNCHANGED <<log, childIndex>>, active' \subseteq active,
           \A c \in active : parent'[c] = parent[c],
           \A c \in active' \cap Subs, s \in active : parent[s] = parent[c] => s \in active',
           \A r \in Rid : Begun(r) => Begun(r)'
    PROVE  IndexInv'
  <1>1. log \in Seq(Rid) /\ \A i \in DOMAIN log : log[i] \in Rid
    BY DEF IndexInv, IInv, TypeInv, TypeOK
  <1>2. Logged'
    <2>1. \A i \in DOMAIN log : Begun(log[i])'
      BY <1>1 DEF IndexInv, Logged
    <2>2. \A i \in DOMAIN log' : Begun(log[i])'
      BY <2>1
    <2> QED BY <2>2 DEF IndexInv, Logged
  <1>3. SiblingsIndexed'
    <2> SUFFICES ASSUME NEW c \in active' \cap Subs
                 PROVE  childIndex'[c] =
                          Cardinality({s \in active' : parent'[s] = parent'[c] /\ Older(s, c)'})
      BY DEF SiblingsIndexed
    <2>1. \A s : Older(s, c)' <=> Older(s, c)
      BY DEF Older
    <2>2. {s \in active' : parent'[s] = parent'[c] /\ Older(s, c)'}
            = {s \in active : parent[s] = parent[c] /\ Older(s, c)}
      BY <2>1
    <2>3. c \in active \cap Subs
      OBVIOUS
    <2> QED BY <2>2, <2>3 DEF IndexInv, SiblingsIndexed
  <1> QED BY <1>2, <1>3 DEF IndexInv

\* A node that registers goes to the end of the log: it is older than nobody,
\* and everybody registered is older than it.
LEMMA NewestInLog ==
    ASSUME Logged, log \in Seq(Rid), active \subseteq Rid, NEW c \in Rid, ~Begun(c),
           log' = Append(log, c)
    PROVE  /\ \A d \in active : d # c
           /\ \A s \in active : Older(s, c)'
           /\ \A d : ~Older(c, d)'
           /\ \A s, d : s # c /\ d # c => (Older(s, d)' <=> Older(s, d))
           /\ \A r \in active \cup {c} : \E i \in DOMAIN log' : log'[i] = r
  <1>1. \A i \in DOMAIN log : log[i] # c
    BY DEF Logged
  <1>2. /\ DOMAIN log = 1..Len(log) /\ Len(log) \in Nat
        /\ DOMAIN log' = 1..(Len(log) + 1)
        /\ log'[Len(log) + 1] = c
        /\ \A i \in DOMAIN log : log'[i] = log[i]
    OBVIOUS
  <1>3. \A i \in DOMAIN log' : i = Len(log) + 1 \/ i \in DOMAIN log
    BY <1>2
  <1>4. \A s \in active : \E i \in DOMAIN log : log'[i] = s /\ i < Len(log) + 1
    BY <1>2 DEF Logged
  <1>5. \A i, j \in DOMAIN log' : i < j => i \in DOMAIN log
    BY <1>2
  <1>6. \A i \in DOMAIN log' : i \in DOMAIN log => log'[i] # c
    BY <1>1, <1>2
  <1>7. \A d \in active : d # c
    BY <1>1 DEF Logged
  <1>8. \A s \in active : Older(s, c)'
    BY <1>2, <1>4 DEF Older
  <1>9. \A d : ~Older(c, d)'
    BY <1>5, <1>6 DEF Older
  <1>10. \A s, d : s # c /\ d # c => (Older(s, d)' <=> Older(s, d))
    BY <1>2, <1>3 DEF Older
  <1>11. \A r \in active \cup {c} : \E i \in DOMAIN log' : log'[i] = r
    BY <1>2, <1>4
  <1> QED BY <1>7, <1>8, <1>9, <1>10, <1>11

\* Registering keeps the log complete.
LEMMA RegisteringLogs ==
    ASSUME Logged, log \in Seq(Rid), active \subseteq Rid, NEW c \in Rid, ~Begun(c),
           log' = Append(log, c), active' = active \cup {c},
           Begun(c)', \A x \in Rid : Begun(x) => Begun(x)'
    PROVE  Logged'
<1>1. \A x \in active' : \E i \in DOMAIN log' : log'[i] = x
  BY NewestInLog
<1>2. ASSUME NEW i \in DOMAIN log' PROVE task'[log'[i]] \notin {"unborn", "sched", "refused"}
  <2>1. CASE i \in DOMAIN log
    <3>1. log'[i] = log[i] /\ log[i] \in Rid
      BY <2>1
    <3>2. task[log[i]] \notin {"unborn", "sched", "refused"}
      BY <2>1 DEF Logged, Begun
    <3> QED BY <3>1, <3>2 DEF Begun
  <2>2. CASE i \notin DOMAIN log
    <3>1. log'[i] = c
      BY <2>2
    <3> QED BY <3>1 DEF Begun
  <2> QED BY <2>1, <2>2
<1>3. ASSUME NEW i \in DOMAIN log', NEW j \in DOMAIN log', log'[i] = log'[j] PROVE i = j
  <2>1. \A k \in DOMAIN log : log[k] # c /\ log'[k] = log[k]
    BY DEF Logged
  <2>2. \A k \in DOMAIN log' : k \in DOMAIN log \/ (k = Len(log) + 1 /\ log'[k] = c)
    OBVIOUS
  <2> QED BY <1>3, <2>1, <2>2 DEF Logged
<1> QED BY <1>1, <1>2, <1>3 DEF Logged, Begun

LEMMA StartRootIndices ==
    ASSUME IndexInv, NEW r \in Roots, StartRoot(r) PROVE IndexInv'
  <1>1. IInv'
    BY StartRootIInv DEF IndexInv
  <1>2. /\ r \in Rid /\ r \notin Subs /\ ~Begun(r) /\ log' = Append(log, r) /\ log \in Seq(Rid)
        /\ active \subseteq Rid /\ active' = active \cup {r} /\ Logged
        /\ UNCHANGED <<parent, childIndex>>
    BY TreeAssumption DEF StartRoot, Begun, Rid, IndexInv, IInv, TypeInv, TypeOK
  <1>3. Begun(r)' /\ \A x \in Rid : Begun(x) => Begun(x)'
    BY <1>2 DEF StartRoot, Begun, IndexInv, IInv, TypeInv, TypeOK
  <1>4. Logged'
  BY <1>2, <1>3, RegisteringLogs
<1>5. SiblingsIndexed'
    <2> SUFFICES ASSUME NEW c \in active' \cap Subs
                 PROVE  childIndex'[c] =
                          Cardinality({s \in active' : parent'[s] = parent'[c] /\ Older(s, c)'})
      BY DEF SiblingsIndexed
    <2>1. c # r /\ c \in active \cap Subs
      BY <1>2
    <2>2. \A s : s # r => (Older(s, c)' <=> Older(s, c))
      BY <1>2, <2>1, NewestInLog
    <2>3. ~Older(r, c)' /\ r \notin active
      BY <1>2, NewestInLog
    <2>4. {s \in active' : parent'[s] = parent'[c] /\ Older(s, c)'}
            = {s \in active : parent[s] = parent[c] /\ Older(s, c)}
      BY <1>2, <2>2, <2>3
    <2> QED BY <1>2, <2>1, <2>4 DEF IndexInv, SiblingsIndexed
  <1> QED BY <1>1, <1>4, <1>5 DEF IndexInv

LEMMA RegisterChildIndices ==
    ASSUME IndexInv, IInv', NEW c \in Subs, task[c] = "sched", RegisterChild(c),
           UNCHANGED parent
    PROVE  IndexInv'
  <1>2. /\ c \in Rid /\ ~Begun(c) /\ log' = Append(log, c) /\ log \in Seq(Rid)
        /\ active \subseteq Rid /\ active' = active \cup {c} /\ Logged
        /\ childIndex' = [childIndex EXCEPT ![c] = SiblingCount(parent[c])]
        /\ childIndex \in [Rid -> Nat]
    BY DEF RegisterChild, Begun, Rid, IndexInv, IInv, TypeInv, TypeOK
  <1>3. Begun(c)' /\ \A x \in Rid : Begun(x) => Begun(x)'
    BY <1>2 DEF RegisterChild, Begun, IndexInv, IInv, TypeInv, TypeOK
  <1>4. Logged'
    BY <1>2, <1>3, RegisteringLogs
  <1>5. SiblingsIndexed'
    <2> SUFFICES ASSUME NEW d \in active' \cap Subs
                 PROVE  childIndex'[d] =
                          Cardinality({s \in active' : parent'[s] = parent'[d] /\ Older(s, d)'})
      BY DEF SiblingsIndexed
    <2>1. ~Older(c, d)' /\ c \notin active
      BY <1>2, NewestInLog
    <2>2. CASE d = c
      <3>1. \A s \in active : Older(s, c)'
        BY <1>2, NewestInLog
      <3>2. {s \in active' : parent'[s] = parent'[d] /\ Older(s, d)'}
              = {s \in active : parent[s] = parent[c]}
        BY <1>2, <2>1, <2>2, <3>1
      <3>3. childIndex'[d] = SiblingCount(parent[c])
        BY <1>2, <2>2
      <3> QED BY <3>2, <3>3 DEF SiblingCount
    <2>3. CASE d # c
      <3>1. d \in active \cap Subs /\ childIndex'[d] = childIndex[d]
        BY <1>2, <2>3
      <3>2. \A s : s # c => (Older(s, d)' <=> Older(s, d))
        BY <1>2, <2>3, NewestInLog
      <3>3. {s \in active' : parent'[s] = parent'[d] /\ Older(s, d)'}
              = {s \in active : parent[s] = parent[d] /\ Older(s, d)}
        BY <1>2, <2>1, <3>2
      <3> QED BY <3>1, <3>3 DEF IndexInv, SiblingsIndexed
    <2> QED BY <2>2, <2>3
  <1> QED BY <1>4, <1>5 DEF IndexInv

LEMMA NextIndices == IndexInv /\ [Next]_vars => IndexInv'
  <1> SUFFICES ASSUME IndexInv, [Next]_vars PROVE IndexInv'
    OBVIOUS
  <1>1. IInv /\ IInv' /\ TypeOK
    BY NextIInv DEF IndexInv, IInv, TypeInv
  <1>2. CASE \E r \in Roots : StartRoot(r)
    BY <1>2, StartRootIndices
  <1>3. CASE \E r \in Rid : TaskStep(r) /\ ~CloseRoot(r)
    <2>1. PICK r \in Rid : TaskStep(r) /\ ~CloseRoot(r)
      BY <1>3
    <2>2. UNCHANGED <<log, childIndex, active, parent>>
      BY <2>1
      DEF TaskStep, InitDone, EngineReply, EngineFail, StepReturn, CloseChild, registry
    <2>3. \A x \in Rid : Begun(x) => Begun(x)'
      BY <1>1, <2>1
      DEF TaskStep, InitDone, EngineReply, EngineFail, StepReturn, AfterStep, CloseChild,
          Begun, TypeOK
    <2> QED BY <1>1, <2>2, <2>3, IndicesKept
  <1>4. CASE \E r \in Rid : CloseRoot(r)
    <2>1. PICK r \in Rid : CloseRoot(r)
      BY <1>4
    <2>2. r \in Roots /\ UNCHANGED <<log, childIndex, parent>> /\ active' \subseteq active
      BY <2>1 DEF CloseRoot
    <2>3. \A x \in Rid : Begun(x) => Begun(x)'
      BY <1>1, <2>1 DEF CloseRoot, Begun, TypeOK
    <2>4. \A c \in active' \cap Subs, s \in active : parent[s] = parent[c] => s \in active'
      BY <1>1, <2>1, <2>2, SiblingsTornDownTogether
    <2> QED BY <1>1, <2>2, <2>3, <2>4, IndicesKept
  <1>5. CASE \E r \in Rid, k \in Turns : CellStep(r, k)
    <2>1. PICK r \in Rid, k \in Turns : CellStep(r, k)
      BY <1>5
    <2>2. UNCHANGED <<log, childIndex, active>>
      BY <2>1 DEF CellStep, CellEnd, Resume, LmQuery, LmStart, LmReturn, RlmQuery, registry
    <2>3. /\ \A x \in Rid : Begun(x) => Begun(x)'
          /\ \A c \in Rid : Begun(c) => parent'[c] = parent[c]
      BY <1>1, <2>1
      DEF CellStep, CellEnd, Resume, LmQuery, LmStart, LmReturn, RlmQuery, registry, Begun, TypeOK
    <2>4. \A c \in active : c \in Rid /\ Begun(c)
      BY <1>1 DEF IInv, Registered, Begun, TypeOK
    <2> QED BY <1>1, <2>2, <2>3, <2>4, IndicesKept
  <1>6. CASE \E c \in Subs : SubcallStep(c)
    <2>1. PICK c \in Subs : SubcallStep(c)
      BY <1>6
    <2>2. CASE task[c] = "sched" /\ RegisterChild(c) /\ UNCHANGED parent
      BY <1>1, <2>2, RegisterChildIndices
    <2>3. CASE ~(task[c] = "sched" /\ RegisterChild(c) /\ UNCHANGED parent)
      <3>1. UNCHANGED <<log, childIndex, active, parent>>
        BY <2>1, <2>3
        DEF SubcallStep, RunChild, SubcallReturn, SubcallTimeout, Cancel, registry
      <3>2. \A x \in Rid : Begun(x) => Begun(x)'
        BY <1>1, <2>1, <2>3
        DEF SubcallStep, RunChild, SubcallReturn, SubcallTimeout, Cancel, registry, Begun, TypeOK
      <3> QED BY <1>1, <3>1, <3>2, IndicesKept
    <2> QED BY <2>2, <2>3
  <1>7. CASE EndOfStep
    <2>1. active' = {} /\ UNCHANGED <<log, childIndex, parent, task>>
      BY <1>7 DEF EndOfStep
    <2> QED BY <1>1, <2>1, IndicesKept DEF Begun
  <1>8. CASE UNCHANGED vars
    <2>1. UNCHANGED <<log, childIndex, active, parent, task>>
      BY <1>8 DEF vars, registry
    <2> QED BY <1>1, <2>1, IndicesKept DEF Begun
  <1> QED BY <1>2, <1>3, <1>4, <1>5, <1>6, <1>7, <1>8 DEF Next

LEMMA InitIndices == Init => IndexInv
  BY InitIInv DEF Init, IndexInv, Logged, SiblingsIndexed

LEMMA IndexInvHolds == Spec => []IndexInv
  BY InitIndices, NextIndices, PTL DEF Spec

\* Every registered child's index is its rank among its registered siblings.
THEOREM SiblingsAreIndexed == Spec => []SiblingsIndexed
  <1>1. IndexInv => SiblingsIndexed
    BY DEF IndexInv
  <1> QED BY <1>1, IndexInvHolds, PTL
-----------------------------------------------------------------------------
(* SelectIn.                                                                 *)

\* at says where in s the elements of t come from: t is s without what is
\* not in S.
SelectedAt(t, s, m, S, at) ==
    /\ at \in [1..Len(t) -> 1..m]
    /\ \A i, j \in 1..Len(t) : i < j => at[i] < at[j]
    /\ \A i \in 1..Len(t) : t[i] = s[at[i]] /\ t[i] \in S
    /\ \A k \in 1..m : s[k] \in S => \E i \in 1..Len(t) : at[i] = k

\* What was selected from the first m elements, and then the next one.
LEMMA SelectNext ==
    ASSUME NEW T, NEW s \in Seq(T), NEW S, NEW m \in 1..Len(s), NEW t \in Seq(T),
           NEW at, SelectedAt(t, s, m - 1, S, at)
    PROVE  /\ s[m] \notin S => SelectedAt(t, s, m, S, at)
           /\ s[m] \in S => \E bt : SelectedAt(Append(t, s[m]), s, m, S, bt)
<1>0. Len(t) \in Nat /\ s[m] \in T
  OBVIOUS
<1>1. ASSUME s[m] \notin S PROVE SelectedAt(t, s, m, S, at)
  <2>1. at \in [1..Len(t) -> 1..m]
    <3>1. at \in [1..Len(t) -> 1..(m - 1)] /\ 1..(m - 1) \subseteq 1..m
      BY DEF SelectedAt
    <3> QED BY <3>1
  <2>2. \A k \in 1..m : k = m \/ k \in 1..(m - 1)
    OBVIOUS
  <2> QED BY <1>1, <2>1, <2>2 DEF SelectedAt
<1>2. ASSUME s[m] \in S PROVE \E bt : SelectedAt(Append(t, s[m]), s, m, S, bt)
  <2> DEFINE u == Append(t, s[m])
             bt == [i \in 1..(Len(t) + 1) |-> IF i = Len(t) + 1 THEN m ELSE at[i]]
  <2>1. /\ Len(u) = Len(t) + 1 /\ u[Len(t) + 1] = s[m]
        /\ \A i \in 1..Len(t) : u[i] = t[i]
    BY <1>0
  <2>2. \A i \in 1..(Len(t) + 1) : i = Len(t) + 1 \/ i \in 1..Len(t)
    BY <1>0
  <2>3. \A i \in 1..Len(t) : at[i] \in 1..(m - 1)
    BY DEF SelectedAt
  <2>4. /\ bt \in [1..(Len(t) + 1) -> 1..m] /\ bt[Len(t) + 1] = m
        /\ \A i \in 1..Len(t) : bt[i] = at[i]
    <3>1. bt[Len(t) + 1] = m /\ \A i \in 1..Len(t) : bt[i] = at[i]
      BY <1>0
    <3>2. \A i \in 1..(Len(t) + 1) : bt[i] \in 1..m
      BY <2>2, <2>3, <3>1
    <3> QED BY <3>1, <3>2
  <2> HIDE DEF u, bt
  <2>5. \A i, j \in 1..(Len(t) + 1) : i < j => bt[i] < bt[j]
    <3>1. \A i, j \in 1..(Len(t) + 1) : i < j => i \in 1..Len(t)
      BY <1>0
    <3>2. \A i, j \in 1..Len(t) : i < j => at[i] < at[j]
      BY DEF SelectedAt
    <3> QED BY <2>2, <2>3, <2>4, <3>1, <3>2
  <2>6. \A i \in 1..(Len(t) + 1) : u[i] = s[bt[i]] /\ u[i] \in S
    BY <1>2, <2>1, <2>2, <2>4 DEF SelectedAt
  <2>7. ASSUME NEW k \in 1..m, s[k] \in S PROVE \E i \in 1..(Len(t) + 1) : bt[i] = k
    <3>1. CASE k = m
      BY <1>0, <2>4, <3>1
    <3>2. CASE k # m
      <4>1. k \in 1..(m - 1)
        BY <3>2
      <4>2. PICK i \in 1..Len(t) : at[i] = k
        BY <2>7, <4>1 DEF SelectedAt
      <4> QED BY <1>0, <2>4, <4>2
    <3> QED BY <3>1, <3>2
  <2>8. SelectedAt(u, s, m, S, bt)
    BY <2>1, <2>4, <2>5, <2>6, <2>7 DEF SelectedAt
  <2> QED BY <2>8 DEF u
<1> QED BY <1>1, <1>2

LEMMA SelectInSelects ==
    ASSUME NEW T, NEW s \in Seq(T), NEW S
    PROVE  /\ SelectIn(s, S) \in Seq(T)
           /\ \E at : SelectedAt(SelectIn(s, S), s, Len(s), S, at)
<1> DEFINE Next1(n, t) == IF s[n] \in S THEN Append(t, s[n]) ELSE t
           IsSel(f) == f = [n \in 0..Len(s) |-> IF n = 0 THEN <<>>
                              ELSE IF s[n] \in S THEN Append(f[n - 1], s[n]) ELSE f[n - 1]]
           step == [x \in (1..Len(s)) \X Seq(T) |-> Next1(x[1], x[2])]
<1>1. step \in [(1..Len(s)) \X Seq(T) -> Seq(T)] /\ Len(s) \in Nat
  OBVIOUS
<1>2. \E f : IsSel(f)
  <2>1. PICK f : Follows(f, Len(s), Seq(T), <<>>, step)
    <3>1. <<>> \in Seq(T)
      OBVIOUS
    <3> HIDE DEF step
    <3> QED BY <1>1, <3>1, RecursionExists
  <2>2. ASSUME NEW n \in 1..Len(s) PROVE f[n] = Next1(n, f[n - 1])
    <3>1. n - 1 \in 0..Len(s) /\ f[n - 1] \in Seq(T)
      BY <1>1, <2>1 DEF Follows
    <3>2. step[<<n, f[n - 1]>>] = Next1(n, f[n - 1])
      BY <3>1
    <3> QED BY <2>1, <3>2 DEF Follows
  <2>3. \A n \in 0..Len(s) : n = 0 \/ n \in 1..Len(s)
    BY <1>1
  <2>4. IsSel(f)
    BY <2>1, <2>2, <2>3 DEF Follows
  <2> QED BY <2>4
<1>3. PICK f : IsSel(f) /\ SelectIn(s, S) = f[Len(s)]
  BY <1>2 DEF SelectIn
<1>4. /\ f[0] = <<>>
      /\ \A n \in 1..Len(s) : f[n] = IF s[n] \in S THEN Append(f[n - 1], s[n]) ELSE f[n - 1]
  <2>1. 0 \in 0..Len(s) /\ \A n \in 1..Len(s) : n # 0 /\ n \in 0..Len(s)
    BY <1>1
  <2> QED BY <1>3, <2>1
<1> DEFINE Good == {n \in 0..Len(s) : f[n] \in Seq(T) /\ \E at : SelectedAt(f[n], s, n, S, at)}
<1>5. 0 \in Good
  <2>1. SelectedAt(<<>>, s, 0, S, [i \in {} |-> 0])
    BY DEF SelectedAt
  <2>2. 0 \in 0..Len(s) /\ f[0] \in Seq(T)
    BY <1>1, <1>4
  <2>3. \E at : SelectedAt(f[0], s, 0, S, at)
    BY <1>4, <2>1
  <2> QED BY <2>2, <2>3
<1>6. ASSUME NEW n \in 1..Len(s), n - 1 \in Good PROVE n \in Good
  <2>1. f[n - 1] \in Seq(T) /\ \E at : SelectedAt(f[n - 1], s, n - 1, S, at)
    BY <1>6, Zenon
  <2>2. PICK at : SelectedAt(f[n - 1], s, n - 1, S, at)
    BY <2>1
  <2>3. f[n] \in Seq(T)
    <3>1. s[n] \in T
      OBVIOUS
    <3>2. Append(f[n - 1], s[n]) \in Seq(T)
      BY <2>1, <3>1
    <3>3. f[n] = IF s[n] \in S THEN Append(f[n - 1], s[n]) ELSE f[n - 1]
      BY <1>4
    <3> QED BY <2>1, <3>2, <3>3
  <2>4. \E bt : SelectedAt(f[n], s, n, S, bt)
    <3>1. /\ s[n] \notin S => SelectedAt(f[n - 1], s, n, S, at)
          /\ s[n] \in S => \E bt : SelectedAt(Append(f[n - 1], s[n]), s, n, S, bt)
      BY <2>1, <2>2, SelectNext
    <3> QED BY <1>4, <3>1
  <2> QED BY <1>1, <2>3, <2>4
<1>7. \A n \in 0..Len(s) : n \in Good
  <2> HIDE DEF Good
  <2> QED BY <1>1, <1>5, <1>6, UpTo
<1>8. Len(s) \in 0..Len(s)
  BY <1>1
<1> QED BY <1>3, <1>7, <1>8
-----------------------------------------------------------------------------
(* The stack walk.                                                           *)

Under(x) == {x} \cup Below(x)

\* A node is below x if and only if its parent is x or below x.
LEMMA BelowByParent ==
    ASSUME TypeOK, NEW x \in Rid, NEW d \in Rid
    PROVE  d \in Below(x) <=> parent[d] \in Under(x)
<1>1. \A e \in Rid : parent[e] \in Under(x) => e \in Below(x)
  BY DEF Under, Below
<1>2. ASSUME d \in Below(x) PROVE parent[d] \in Under(x)
  <2> DEFINE S == {e \in Rid : parent[e] \in Under(x)}
  <2>1. \A c \in Rid : parent[c] \in S \cup {x} => c \in S
    <3> SUFFICES ASSUME NEW c \in Rid, parent[c] \in S \cup {x} PROVE parent[c] \in Under(x)
      OBVIOUS
    <3>1. CASE parent[c] = x
      BY <3>1 DEF Under
    <3>2. CASE parent[c] \in S
      BY <1>1, <3>2 DEF Under
    <3> QED BY <3>1, <3>2
  <2>2. S \in SUBSET Rid
    OBVIOUS
  <2>3. d \in S
    <3> HIDE DEF S
    <3> QED BY <1>2, <2>1, <2>2 DEF Below
  <2> QED BY <2>3
<1> QED BY <1>1, <1>2

\* The children of a node, listed from the oldest.
LEMMA ChildrenAre ==
    ASSUME IndexInv, NEW x \in Rid
    PROVE  /\ Children(x) \in Seq(Rid)
           /\ \A i \in DOMAIN Children(x) :
                Children(x)[i] \in active /\ parent[Children(x)[i]] = x
           /\ \A c \in active : parent[c] = x => \E i \in DOMAIN Children(x) : Children(x)[i] = c
           /\ \A i, j \in DOMAIN Children(x) : i < j => Older(Children(x)[i], Children(x)[j])
           /\ \A i, j \in DOMAIN Children(x) : Children(x)[i] = Children(x)[j] => i = j
<1> DEFINE ch == Children(x)
           S == {c \in active : parent[c] = x}
<1>1. log \in Seq(Rid) /\ active \subseteq Rid
  BY DEF IndexInv, IInv, TypeInv, TypeOK
<1>2. ch \in Seq(Rid) /\ \E at : SelectedAt(ch, log, Len(log), S, at)
  BY <1>1, SelectInSelects DEF Children
<1>3. PICK at : SelectedAt(ch, log, Len(log), S, at)
  BY <1>2
<1> HIDE DEF ch
<1>4. DOMAIN ch = 1..Len(ch) /\ Len(ch) \in Nat /\ DOMAIN log = 1..Len(log)
  BY <1>1, <1>2
<1>5. \A i \in DOMAIN ch : ch[i] \in active /\ parent[ch[i]] = x
  BY <1>3, <1>4 DEF SelectedAt
<1>6. ASSUME NEW c \in active, parent[c] = x PROVE \E i \in DOMAIN ch : ch[i] = c
  <2>1. PICK k \in DOMAIN log : log[k] = c
    BY DEF IndexInv, Logged
  <2>2. PICK i \in 1..Len(ch) : at[i] = k
    BY <1>3, <1>4, <1>6, <2>1 DEF SelectedAt
  <2> QED BY <1>3, <1>4, <2>1, <2>2 DEF SelectedAt
<1>7. ASSUME NEW i \in DOMAIN ch, NEW j \in DOMAIN ch, i < j PROVE Older(ch[i], ch[j])
  <2>1. at[i] \in DOMAIN log /\ at[j] \in DOMAIN log /\ at[i] < at[j]
    BY <1>3, <1>4, <1>7 DEF SelectedAt
  <2>2. ch[i] = log[at[i]] /\ ch[j] = log[at[j]]
    BY <1>3, <1>4 DEF SelectedAt
  <2> QED BY <2>1, <2>2 DEF Older
<1>8. ASSUME NEW i \in DOMAIN ch, NEW j \in DOMAIN ch, ch[i] = ch[j] PROVE i = j
  <2>1. at[i] \in DOMAIN log /\ at[j] \in DOMAIN log /\ log[at[i]] = log[at[j]]
    BY <1>3, <1>4, <1>8 DEF SelectedAt
  <2>2. at[i] = at[j] /\ at[i] \in Nat
    BY <1>4, <2>1 DEF IndexInv, Logged
  <2>3. ~(i < j) /\ ~(j < i)
    BY <1>3, <1>4, <2>2 DEF SelectedAt
  <2> QED BY <1>4, <2>3
<1> QED BY <1>2, <1>5, <1>6, <1>7, <1>8 DEF ch

\* Of two siblings the older has the smaller index.
LEMMA OlderIsSmaller ==
    ASSUME IndexInv, NEW c \in active \cap Subs, NEW s \in active \cap Subs,
           parent[s] = parent[c], Older(s, c)
    PROVE  childIndex[s] < childIndex[c]
<1> DEFINE Before(d) == {e \in active : parent[e] = parent[d] /\ Older(e, d)}
<1>1. IsFiniteSet(Before(s)) /\ IsFiniteSet(Before(c))
  BY FS_Subset DEF IndexInv, IInv, TypeInv, TypeOK
<1>2. \A i, j \in DOMAIN log : log[i] = log[j] => i = j
  BY DEF IndexInv, Logged
<1>3. DOMAIN log = 1..Len(log) /\ Len(log) \in Nat
  BY DEF IndexInv, IInv, TypeInv, TypeOK
<1>4. Before(s) \subseteq Before(c)
  <2> SUFFICES ASSUME NEW e \in active, parent[e] = parent[s], Older(e, s)
               PROVE  Older(e, c)
    OBVIOUS
  <2>1. PICK i, j \in DOMAIN log : i < j /\ log[i] = e /\ log[j] = s
    BY DEF Older
  <2>2. PICK k, m \in DOMAIN log : k < m /\ log[k] = s /\ log[m] = c
    BY DEF Older
  <2>3. j = k
    BY <1>2, <2>1, <2>2
  <2>4. i < m
    BY <1>3, <2>1, <2>2, <2>3
  <2> QED BY <2>1, <2>2, <2>4 DEF Older
<1>5. s \in Before(c) /\ s \notin Before(s)
  <2>1. ~Older(s, s)
    BY <1>2, <1>3 DEF Older
  <2> QED BY <2>1
<1>6. Before(s) # Before(c)
  BY <1>5
<1>7. /\ Cardinality(Before(s)) \in Nat /\ Cardinality(Before(c)) \in Nat
      /\ Cardinality(Before(s)) <= Cardinality(Before(c))
      /\ Cardinality(Before(s)) # Cardinality(Before(c))
  <2> HIDE DEF Before
  <2> QED BY <1>1, <1>4, <1>6, FS_CardinalityType, FS_Subset
<1>8. childIndex[s] = Cardinality(Before(s)) /\ childIndex[c] = Cardinality(Before(c))
  BY DEF IndexInv, SiblingsIndexed
<1> HIDE DEF Before
<1> QED BY <1>7, <1>8
-----------------------------------------------------------------------------
(* Of a walk from r, V is what was visited, and then what is on the stack    *)
(* from the top; q nodes of it were visited.                                 *)

OnceEach(V) == \A i, j \in 1..Len(V) : V[i] = V[j] => i = j

\* Every node has been reached from r or from a visited node, which stands
\* before it.
Reached(r, V, q) ==
    \A i \in 1..Len(V) :
        V[i] \in active /\ (parent[V[i]] = r \/ \E j \in 1..q : j < i /\ parent[V[i]] = V[j])

\* No child of a visited node is missing.
Complete(r, V, q) ==
    \A c \in active :
        (parent[c] = r \/ \E j \in 1..q : parent[c] = V[j]) => \E i \in 1..Len(V) : V[i] = c

\* What a node of V is below was visited before it.
AncestorsFirst(r, V, q) ==
    \A i \in 1..Len(V) : \A x \in Rid :
        V[i] \in Below(x) => x = r \/ \E j \in 1..q : j < i /\ V[j] = x

\* Subtrees are contiguous.
Contiguous(V) ==
    \A x \in Rid : \A i, j, k \in 1..Len(V) :
        (i <= k /\ k <= j /\ V[i] \in Under(x) /\ V[j] \in Under(x)) => V[k] \in Under(x)

SiblingsInOrder(V) ==
    \A i, j \in 1..Len(V) :
        (i < j /\ parent[V[i]] = parent[V[j]]) => childIndex[V[i]] < childIndex[V[j]]

Walk(r, V, q) ==
    /\ V \in Seq(Rid) /\ q \in 0..Len(V)
    /\ OnceEach(V) /\ Reached(r, V, q) /\ Complete(r, V, q)
    /\ AncestorsFirst(r, V, q) /\ Contiguous(V) /\ SiblingsInOrder(V)

\* U is V with ch put behind position p.
Inserted(U, V, p, ch) ==
    /\ U \in Seq(Rid) /\ Len(U) = Len(V) + Len(ch)
    /\ \A i \in 1..p : U[i] = V[i]
    /\ \A i \in 1..Len(ch) : U[p + i] = ch[i]
    /\ \A i \in (p + 1)..Len(V) : U[i + Len(ch)] = V[i]

\* The place in V of what stands at i in U, p for what is new.
Home(i, p, ch) == IF i <= p THEN i ELSE IF i <= p + Len(ch) THEN p ELSE i - Len(ch)
IsNew(i, p, ch) == p < i /\ i <= p + Len(ch)

\* What Home says about U and V.
HomesFit(U, V, p, ch) ==
    /\ \A i \in 1..Len(U) : Home(i, p, ch) \in 1..Len(V)
    /\ \A i \in 1..Len(U) : ~IsNew(i, p, ch) => U[i] = V[Home(i, p, ch)]
    /\ \A i \in 1..Len(U) : IsNew(i, p, ch) =>
         Home(i, p, ch) = p /\ i - p \in 1..Len(ch) /\ U[i] = ch[i - p]
    /\ \A i, j \in 1..Len(U) : i <= j => Home(i, p, ch) <= Home(j, p, ch)
    /\ \A i, j \in 1..Len(U) : ~IsNew(i, p, ch) /\ ~IsNew(j, p, ch) =>
         /\ i < j => Home(i, p, ch) < Home(j, p, ch)
         /\ Home(i, p, ch) = Home(j, p, ch) => i = j
    /\ \A i \in 1..p : i \in 1..Len(U) /\ ~IsNew(i, p, ch) /\ Home(i, p, ch) = i
    /\ \A i \in 1..Len(ch) : p + i \in 1..Len(U) /\ IsNew(p + i, p, ch) /\ U[p + i] = ch[i]
    /\ \A m \in 1..Len(V) : \E i \in 1..Len(U) : U[i] = V[m]
    /\ \A i \in 1..Len(U) : Home(i, p, ch) <= i

LEMMA Homes ==
    ASSUME NEW V \in Seq(Rid), NEW ch \in Seq(Rid), NEW p \in 1..Len(V), NEW U,
           Inserted(U, V, p, ch)
    PROVE  HomesFit(U, V, p, ch)
<1> DEFINE k == Len(ch)
           n == Len(V)
<1>1. k \in Nat /\ n \in Nat /\ p \in 1..n /\ Len(U) = n + k
  BY DEF Inserted
<1>2. /\ \A i \in 1..p : U[i] = V[i]
      /\ \A i \in 1..k : U[p + i] = ch[i]
      /\ \A i \in (p + 1)..n : U[i + k] = V[i]
  BY DEF Inserted
<1>3. \A i \in 1..(n + k) : Home(i, p, ch) \in 1..n
  BY <1>1 DEF Home
<1>4. ASSUME NEW i \in 1..(n + k), ~IsNew(i, p, ch) PROVE U[i] = V[Home(i, p, ch)]
  <2>1. CASE i <= p
    BY <1>1, <1>2, <2>1 DEF Home
  <2>2. CASE p + k < i
    <3>1. Home(i, p, ch) = i - k /\ i - k \in (p + 1)..n /\ (i - k) + k = i
      BY <1>1, <2>2 DEF Home
    <3>2. U[(i - k) + k] = V[i - k]
      BY <1>2, <3>1
    <3> QED BY <3>1, <3>2
  <2> QED BY <1>1, <1>4, <2>1, <2>2 DEF IsNew
<1>5. ASSUME NEW i \in 1..(n + k), IsNew(i, p, ch)
      PROVE  Home(i, p, ch) = p /\ i - p \in 1..k /\ U[i] = ch[i - p]
  <2>1. Home(i, p, ch) = p /\ i - p \in 1..k /\ p + (i - p) = i
    BY <1>1, <1>5 DEF IsNew, Home
  <2>2. U[p + (i - p)] = ch[i - p]
    BY <1>2, <2>1
  <2> QED BY <2>1, <2>2
<1>6. /\ \A i, j \in 1..(n + k) : i <= j => Home(i, p, ch) <= Home(j, p, ch)
      /\ \A i, j \in 1..(n + k) : ~IsNew(i, p, ch) /\ ~IsNew(j, p, ch) =>
                /\ i < j => Home(i, p, ch) < Home(j, p, ch)
                /\ Home(i, p, ch) = Home(j, p, ch) => i = j
      /\ \A i \in 1..p : i \in 1..(n + k) /\ ~IsNew(i, p, ch) /\ Home(i, p, ch) = i
      /\ \A i \in 1..k : p + i \in 1..(n + k) /\ IsNew(p + i, p, ch)
      /\ \A i \in 1..(n + k) : Home(i, p, ch) <= i
  BY <1>1 DEF Home, IsNew
<1>7. ASSUME NEW m \in 1..n PROVE \E i \in 1..(n + k) : U[i] = V[m]
  <2>1. CASE m <= p
    <3>1. m \in 1..p /\ m \in 1..(n + k)
      BY <1>1, <2>1
    <3> QED BY <1>2, <3>1
  <2>2. CASE p < m
    <3>1. m \in (p + 1)..n /\ m + k \in 1..(n + k)
      BY <1>1, <2>2
    <3> QED BY <1>2, <3>1
  <2> QED BY <1>1, <2>1, <2>2
<1> QED BY <1>1, <1>2, <1>3, <1>4, <1>5, <1>6, <1>7 DEF HomesFit

\* The next node is visited and its children go on the stack, below it in V.
LEMMA VisitKeepsWalk ==
    ASSUME IndexInv, NEW r \in Roots, NEW V, NEW q, Walk(r, V, q), q < Len(V),
           NEW U, Inserted(U, V, q + 1, Children(V[q + 1]))
    PROVE  Walk(r, U, q + 1)
<1> DEFINE p == q + 1
           x == V[p]
           ch == Children(x)
           H(i) == Home(i, p, ch)
           New(i) == IsNew(i, p, ch)
<1>1. /\ V \in Seq(Rid) /\ q \in Nat /\ Len(V) \in Nat /\ p \in 1..Len(V) /\ x \in Rid
      /\ \A j \in 1..q : j \in 1..p /\ j < p
  BY DEF Walk
<1>2. /\ OnceEach(V) /\ Reached(r, V, q) /\ Complete(r, V, q)
      /\ AncestorsFirst(r, V, q) /\ Contiguous(V) /\ SiblingsInOrder(V)
  BY DEF Walk
<1>3. /\ ch \in Seq(Rid)
      /\ \A i \in 1..Len(ch) : ch[i] \in active /\ parent[ch[i]] = x
      /\ \A c \in active : parent[c] = x => \E i \in 1..Len(ch) : ch[i] = c
      /\ \A i, j \in 1..Len(ch) : i < j => Older(ch[i], ch[j])
      /\ \A i, j \in 1..Len(ch) : ch[i] = ch[j] => i = j
  <2>1. x \in Rid
    BY <1>1
  <2> HIDE DEF x
  <2>2. ch \in Seq(Rid)
    BY <2>1, ChildrenAre
  <2>3. /\ \A i \in DOMAIN ch : ch[i] \in active /\ parent[ch[i]] = x
        /\ \A c \in active : parent[c] = x => \E i \in DOMAIN ch : ch[i] = c
        /\ \A i, j \in DOMAIN ch : i < j => Older(ch[i], ch[j])
        /\ \A i, j \in DOMAIN ch : ch[i] = ch[j] => i = j
    BY <2>1, ChildrenAre
  <2>4. DOMAIN ch = 1..Len(ch)
    BY <2>2
  <2> HIDE DEF ch
  <2> QED BY <2>2, <2>3, <2>4
<1>4. U \in Seq(Rid) /\ Len(U) \in Nat /\ p \in 1..Len(U) /\ p \in 0..Len(U)
  BY <1>1, <1>3 DEF Inserted
<1>5. /\ TypeOK /\ active \subseteq Rid /\ parent[r] = NoParent /\ r \in Rid
      /\ NoParent \notin Rid /\ NoParent # x
  BY <1>1, TreeAssumption DEF IndexInv, IInv, TypeInv, TypeOK, RootsParentless, Rid
<1> USE DEF p
<1> HIDE DEF x, ch
<1>6. HomesFit(U, V, p, ch)
  <2>1. Inserted(U, V, p, ch)
    BY DEF x, ch
  <2>2. V \in Seq(Rid) /\ ch \in Seq(Rid) /\ p \in 1..Len(V)
    BY <1>1, <1>3
  <2> HIDE DEF p
  <2> QED BY <2>1, <2>2, Homes
<1>7. /\ \A i \in 1..Len(U) : H(i) \in 1..Len(V)
      /\ \A i \in 1..Len(U) : ~New(i) => U[i] = V[H(i)]
      /\ \A i \in 1..Len(U) : New(i) => H(i) = p /\ i - p \in 1..Len(ch) /\ U[i] = ch[i - p]
  BY <1>6 DEF HomesFit
<1>8. /\ \A i, j \in 1..Len(U) : i <= j => H(i) <= H(j)
      /\ \A i, j \in 1..Len(U) : ~New(i) /\ ~New(j) =>
                (i < j => H(i) < H(j)) /\ (H(i) = H(j) => i = j)
      /\ \A i \in 1..p : i \in 1..Len(U) /\ ~New(i) /\ H(i) = i /\ U[i] = V[i]
      /\ \A i \in 1..Len(ch) : p + i \in 1..Len(U) /\ New(p + i) /\ U[p + i] = ch[i]
      /\ \A m \in 1..Len(V) : \E i \in 1..Len(U) : U[i] = V[m]
      /\ \A i \in 1..Len(U) : H(i) <= i
  <2>1. \A i \in 1..p : i \in 1..Len(U) /\ ~New(i) /\ H(i) = i
    BY <1>6 DEF HomesFit
  <2>2. \A i \in 1..p : U[i] = V[i]
    BY <1>7, <2>1
  <2> QED BY <1>6, <2>1, <2>2 DEF HomesFit
<1>9. \A i \in 1..Len(U) : New(i) => p < i
  BY DEF IsNew
<1> HIDE DEF H, New, p
\* What is new is a child of x, and no node of V is.
<1>a. /\ \A i \in 1..Len(U) : i \in Nat /\ H(i) \in Nat
      /\ \A j \in 1..q : j \in Nat /\ j \in 1..p /\ j < p
      /\ p \in Nat
  BY <1>1, <1>4, <1>7
<1>10. \A i \in 1..Len(U) : New(i) => U[i] \in active /\ parent[U[i]] = x
  BY <1>3, <1>7
<1>11. x = V[p] /\ U[p] = x
  BY <1>1, <1>8 DEF x
<1>12. x # r /\ \A j \in 1..q : V[j] # x
  <2>1. x # r
    <3>1. parent[x] \in Rid
      <4>1. parent[x] = r \/ \E j \in 1..q : parent[x] = V[j]
        BY <1>1, <1>2, <1>11 DEF Reached
      <4> QED BY <1>1, <1>5, <4>1
    <3> QED BY <1>5, <3>1
  <2>2. \A j \in 1..q : V[j] # x
    BY <1>1, <1>2, <1>11 DEF OnceEach
  <2> QED BY <2>1, <2>2
<1>13. \A m \in 1..Len(V) : parent[V[m]] # x
  BY <1>2, <1>12 DEF Reached
<1>14. \A i \in 1..Len(U), m \in 1..Len(V) : New(i) => U[i] # V[m]
  BY <1>10, <1>13
\* Nothing is below what is new.
<1>15. ASSUME NEW i \in 1..Len(U), New(i), NEW j \in 1..Len(U), U[j] \in Below(U[i])
       PROVE  FALSE
  <2>1. U[i] \in Rid /\ U[i] # r
    BY <1>5, <1>10, <1>15, <1>1
  <2>2. \A m \in 1..Len(V) : V[m] \notin Below(U[i])
    <3>1. \A m \in 1..q : U[i] # V[m]
      BY <1>1, <1>14, <1>15
    <3> QED BY <1>2, <2>1, <3>1 DEF AncestorsFirst
  <2>3. CASE New(j)
    <3>1. U[j] \in Rid /\ parent[U[j]] = x
      BY <1>5, <1>10, <2>3
    <3>2. x \in Under(U[i])
      BY <1>5, <1>15, <2>1, <3>1, BelowByParent
    <3> QED BY <1>1, <1>11, <1>14, <1>15, <2>2, <3>2 DEF Under
  <2>4. CASE ~New(j)
    BY <1>7, <1>15, <2>2, <2>4
  <2> QED BY <2>3, <2>4
\* For the others, what is new is where x is.
<1>16. ASSUME NEW y \in Rid, \A i \in 1..Len(U) : New(i) => U[i] # y, NEW i \in 1..Len(U)
       PROVE  U[i] \in Under(y) <=> V[H(i)] \in Under(y)
  <2>1. CASE New(i)
    <3>1. U[i] \in Rid /\ parent[U[i]] = x /\ V[H(i)] = x
      BY <1>5, <1>7, <1>10, <1>11, <2>1
    <3>2. U[i] \in Below(y) <=> x \in Under(y)
      BY <1>5, <3>1, BelowByParent
    <3>3. U[i] # y
      BY <1>16, <2>1
    <3> QED BY <3>1, <3>2, <3>3 DEF Under
  <2>2. CASE ~New(i)
    BY <1>7, <2>2
  <2> QED BY <2>1, <2>2
<1>17. OnceEach(U)
  <2> SUFFICES ASSUME NEW i \in 1..Len(U), NEW j \in 1..Len(U), U[i] = U[j] PROVE i = j
    BY DEF OnceEach
  <2>1. CASE New(i) /\ New(j)
    <3>1. i - p = j - p
      <4>1. i - p \in 1..Len(ch) /\ j - p \in 1..Len(ch) /\ ch[i - p] = ch[j - p]
        BY <1>7, <2>1
      <4> QED BY <1>3, <4>1
    <3> QED BY <1>a, <3>1
  <2>2. CASE New(i) /\ ~New(j)
    BY <1>7, <1>14, <2>2
  <2>3. CASE ~New(i) /\ New(j)
    BY <1>7, <1>14, <2>3
  <2>4. CASE ~New(i) /\ ~New(j)
    <3>1. V[H(i)] = V[H(j)] /\ H(i) \in 1..Len(V) /\ H(j) \in 1..Len(V)
      BY <1>7, <2>4
    <3>2. H(i) = H(j)
      BY <1>2, <3>1 DEF OnceEach
    <3> QED BY <1>8, <2>4, <3>2
  <2> QED BY <2>1, <2>2, <2>3, <2>4
<1>18. Reached(r, U, p)
  <2> SUFFICES ASSUME NEW i \in 1..Len(U)
               PROVE  /\ U[i] \in active
                      /\ parent[U[i]] = r \/ \E j \in 1..p : j < i /\ parent[U[i]] = U[j]
    BY DEF Reached
  <2>1. CASE New(i)
    <3>1. p \in 1..p /\ p < i
      BY <1>1, <1>9, <2>1
    <3> QED BY <1>10, <1>11, <2>1, <3>1
  <2>2. CASE ~New(i)
    <3>1. /\ V[H(i)] \in active
          /\ parent[V[H(i)]] = r \/ \E j \in 1..q : j < H(i) /\ parent[V[H(i)]] = V[j]
      BY <1>2, <1>7 DEF Reached
    <3>2. \A j \in 1..q : j < H(i) => j < i
      <4>1. H(i) <= i
        BY <1>8
      <4> QED BY <1>a, <4>1
    <3>3. \A j \in 1..q : j \in 1..p /\ U[j] = V[j]
      BY <1>8, <1>a
    <3> QED BY <1>7, <2>2, <3>1, <3>2, <3>3
  <2> QED BY <2>1, <2>2
<1>19. Complete(r, U, p)
  <2> SUFFICES ASSUME NEW c \in active, parent[c] = r \/ \E j \in 1..p : parent[c] = U[j]
               PROVE  \E i \in 1..Len(U) : U[i] = c
    BY DEF Complete
  <2>1. CASE parent[c] = x
    BY <1>3, <1>8, <2>1
  <2>2. CASE parent[c] # x
    <3>1. \A j \in 1..p : j = p \/ j \in 1..q
      BY <1>1 DEF p
    <3>2. parent[c] = r \/ \E j \in 1..q : parent[c] = V[j]
      BY <1>8, <1>11, <2>2, <3>1
    <3>3. PICK m \in 1..Len(V) : V[m] = c
      BY <1>2, <3>2 DEF Complete
    <3> QED BY <1>8, <3>3
  <2> QED BY <2>1, <2>2
<1>20. AncestorsFirst(r, U, p)
  <2> SUFFICES ASSUME NEW i \in 1..Len(U), NEW y \in Rid, U[i] \in Below(y), y # r
               PROVE  \E j \in 1..p : j < i /\ U[j] = y
    BY DEF AncestorsFirst
  <2>1. CASE New(i)
    <3>1. x \in Under(y)
      BY <1>5, <1>10, <2>1, BelowByParent
    <3>2. CASE x = y
      <4>1. p \in 1..p /\ p < i
        BY <1>1, <1>9, <2>1
      <4> QED BY <1>11, <3>2, <4>1
    <3>3. CASE x \in Below(y)
      <4>1. PICK j \in 1..q : j < p /\ V[j] = y
        BY <1>1, <1>2, <1>11, <3>3 DEF AncestorsFirst
      <4>2. j \in 1..p /\ j < i
        BY <1>1, <1>9, <2>1, <4>1
      <4> QED BY <1>8, <4>1, <4>2
    <3> QED BY <3>1, <3>2, <3>3 DEF Under
  <2>2. CASE ~New(i)
    <3>1. V[H(i)] \in Below(y)
      BY <1>7, <2>2
    <3>2. PICK j \in 1..q : j < H(i) /\ V[j] = y
      BY <1>2, <1>7, <3>1 DEF AncestorsFirst
    <3>3. j \in 1..p /\ j < i
      <4>1. H(i) <= i
        BY <1>8
      <4> QED BY <1>a, <3>2, <4>1
    <3> QED BY <1>8, <3>2, <3>3
  <2> QED BY <2>1, <2>2
<1>21. Contiguous(U)
  <2> SUFFICES ASSUME NEW y \in Rid, NEW i \in 1..Len(U), NEW j \in 1..Len(U),
                      NEW k \in 1..Len(U), i <= k, k <= j,
                      U[i] \in Under(y), U[j] \in Under(y)
               PROVE  U[k] \in Under(y)
    BY DEF Contiguous
  <2>1. CASE \A m \in 1..Len(U) : New(m) => U[m] # y
    <3>1. \A m \in 1..Len(U) : U[m] \in Under(y) <=> V[H(m)] \in Under(y)
      BY <1>16, <2>1
    <3>2. H(i) <= H(k) /\ H(k) <= H(j)
      BY <1>8
    <3>3. V[H(k)] \in Under(y)
      BY <1>2, <1>7, <3>1, <3>2 DEF Contiguous
    <3> QED BY <3>1, <3>3
  <2>2. CASE \E m \in 1..Len(U) : New(m) /\ U[m] = y
    <3>1. PICK m \in 1..Len(U) : New(m) /\ U[m] = y
      BY <2>2
    <3>2. U[i] = y /\ U[j] = y
      BY <1>15, <3>1 DEF Under
    <3>3. i = j
      BY <1>17, <3>2 DEF OnceEach
    <3>4. k = i
      BY <3>3, <1>4
    <3> QED BY <3>4
  <2> QED BY <2>1, <2>2
<1>22. SiblingsInOrder(U)
  <2> SUFFICES ASSUME NEW i \in 1..Len(U), NEW j \in 1..Len(U), i < j, parent[U[i]] = parent[U[j]]
               PROVE  childIndex[U[i]] < childIndex[U[j]]
    BY DEF SiblingsInOrder
  <2>1. CASE New(i) /\ New(j)
    <3>1. i - p < j - p
      BY <1>a
    <3>2. Older(U[i], U[j])
      <4>1. /\ i - p \in 1..Len(ch) /\ U[i] = ch[i - p]
            /\ j - p \in 1..Len(ch) /\ U[j] = ch[j - p]
        BY <1>7, <2>1
      <4> QED BY <1>3, <3>1, <4>1
    <3>3. U[i] \in active \cap Subs /\ U[j] \in active \cap Subs
      <4>1. \A c \in active : parent[c] = x => c \in Subs
        BY <1>1, <1>5 DEF IndexInv, IInv, RootsParentless, Rid
      <4> QED BY <1>10, <2>1, <4>1
    <3> QED BY <3>2, <3>3, OlderIsSmaller
  <2>2. CASE New(i) /\ ~New(j)
    BY <1>7, <1>10, <1>13, <2>2
  <2>3. CASE ~New(i) /\ New(j)
    BY <1>7, <1>10, <1>13, <2>3
  <2>4. CASE ~New(i) /\ ~New(j)
    <3>1. H(i) < H(j)
      BY <1>8, <2>4
    <3> QED BY <1>2, <1>7, <2>4, <3>1 DEF SiblingsInOrder
  <2> QED BY <2>1, <2>2, <2>3, <2>4
<1> QED BY <1>4, <1>17, <1>18, <1>19, <1>20, <1>21, <1>22 DEF Walk, p

\* The walk starts with the children of a root on the stack.
LEMMA WalkStarts ==
    ASSUME IndexInv, NEW r \in Roots PROVE Walk(r, Children(r), 0)
<1> DEFINE V == Children(r)
<1>1. /\ TypeOK /\ active \subseteq Rid /\ parent[r] = NoParent /\ r \in Rid
      /\ NoParent \notin Rid
  BY TreeAssumption DEF IndexInv, IInv, TypeInv, TypeOK, RootsParentless, Rid
<1>2. /\ V \in Seq(Rid)
      /\ \A i \in 1..Len(V) : V[i] \in active /\ parent[V[i]] = r
      /\ \A c \in active : parent[c] = r => \E i \in 1..Len(V) : V[i] = c
      /\ \A i, j \in 1..Len(V) : i < j => Older(V[i], V[j])
      /\ \A i, j \in 1..Len(V) : V[i] = V[j] => i = j
  <2>1. V \in Seq(Rid)
    BY <1>1, ChildrenAre
  <2>2. /\ \A i \in DOMAIN V : V[i] \in active /\ parent[V[i]] = r
        /\ \A c \in active : parent[c] = r => \E i \in DOMAIN V : V[i] = c
        /\ \A i, j \in DOMAIN V : i < j => Older(V[i], V[j])
        /\ \A i, j \in DOMAIN V : V[i] = V[j] => i = j
    BY <1>1, ChildrenAre
  <2>3. DOMAIN V = 1..Len(V)
    BY <2>1
  <2> HIDE DEF V
  <2> QED BY <2>1, <2>2, <2>3
<1> HIDE DEF V
<1>3. Len(V) \in Nat
  BY <1>2
<1>4. OnceEach(V) /\ Reached(r, V, 0) /\ Complete(r, V, 0)
  BY <1>2 DEF OnceEach, Reached, Complete
<1>5. \A x \in Rid, i \in 1..Len(V) : V[i] \in Below(x) <=> x = r
  <2> SUFFICES ASSUME NEW x \in Rid, NEW i \in 1..Len(V) PROVE V[i] \in Below(x) <=> x = r
    OBVIOUS
  <2>1. V[i] \in Below(x) <=> r \in Under(x)
    BY <1>1, <1>2, BelowByParent
  <2>2. r \in Below(x) => parent[r] \in Under(x)
    BY <1>1, BelowByParent
  <2>3. Under(x) \subseteq Rid
    BY DEF Under, Below
  <2> QED BY <1>1, <2>1, <2>2, <2>3 DEF Under
<1>6. AncestorsFirst(r, V, 0)
  BY <1>5 DEF AncestorsFirst
<1>7. Contiguous(V)
  <2> SUFFICES ASSUME NEW x \in Rid, NEW i \in 1..Len(V), NEW j \in 1..Len(V),
                      NEW k \in 1..Len(V), i <= k, k <= j,
                      V[i] \in Under(x), V[j] \in Under(x)
               PROVE  V[k] \in Under(x)
    BY DEF Contiguous
  <2>1. CASE x = r
    BY <1>5, <2>1 DEF Under
  <2>2. CASE x # r
    <3>1. V[i] = x /\ V[j] = x
      BY <1>5, <2>2 DEF Under
    <3>2. i = j
      BY <1>2, <3>1
    <3>3. k = i
      BY <1>3, <3>2
    <3> QED BY <3>3
  <2> QED BY <2>1, <2>2
<1>8. SiblingsInOrder(V)
  <2> SUFFICES ASSUME NEW i \in 1..Len(V), NEW j \in 1..Len(V), i < j
               PROVE  childIndex[V[i]] < childIndex[V[j]]
    BY DEF SiblingsInOrder
  <2>1. \A c \in active : parent[c] = r => c \in Subs
    BY <1>1 DEF IndexInv, IInv, RootsParentless, Rid
  <2>2. /\ V[i] \in active \cap Subs /\ V[j] \in active \cap Subs
        /\ parent[V[i]] = parent[V[j]] /\ Older(V[i], V[j])
    BY <1>2, <2>1
  <2> QED BY <2>2, OlderIsSmaller
<1>9. 0 \in 0..Len(V)
  BY <1>3
<1> QED BY <1>2, <1>4, <1>6, <1>7, <1>8, <1>9 DEF Walk, V

\* What was emitted, then the stack from its top.
Seen(o, st) == o \o Reverse(st)

LEMMA SeenIs ==
    ASSUME NEW T, NEW o \in Seq(T), NEW st \in Seq(T)
    PROVE  /\ Reverse(st) \in Seq(T) /\ Len(Reverse(st)) = Len(st)
           /\ Seen(o, st) \in Seq(T) /\ Len(Seen(o, st)) = Len(o) + Len(st)
           /\ \A i \in 1..Len(o) : Seen(o, st)[i] = o[i]
           /\ \A i \in 1..Len(st) : Seen(o, st)[Len(o) + i] = st[Len(st) + 1 - i]
<1> DEFINE rv == Reverse(st)
<1>1. rv \in Seq(T) /\ Len(rv) = Len(st) /\ \A i \in 1..Len(st) : rv[i] = st[Len(st) + 1 - i]
  BY Reversed
<1> DEFINE V == Seen(o, st)
<1>2. V = o \o rv
  BY DEF Seen
<1> HIDE DEF rv, V
<1>3. /\ V \in Seq(T) /\ Len(V) = Len(o) + Len(rv)
      /\ \A i \in 1..Len(o) : V[i] = o[i]
      /\ \A i \in 1..Len(rv) : V[Len(o) + i] = rv[i]
  <2>1. rv \in Seq(T)
    BY <1>1
  <2>2. /\ o \o rv \in Seq(T) /\ Len(o \o rv) = Len(o) + Len(rv)
        /\ \A i \in 1..Len(o) : (o \o rv)[i] = o[i]
        /\ \A i \in 1..Len(rv) : (o \o rv)[Len(o) + i] = rv[i]
    BY <2>1, Joined
  <2> QED BY <1>2, <2>2, Zenon
<1>4. /\ V \in Seq(T) /\ Len(V) = Len(o) + Len(st)
      /\ \A i \in 1..Len(o) : V[i] = o[i]
      /\ \A i \in 1..Len(st) : V[Len(o) + i] = st[Len(st) + 1 - i]
  <2>1. ASSUME NEW i \in 1..Len(st) PROVE V[Len(o) + i] = st[Len(st) + 1 - i]
    <3>1. i \in 1..Len(rv)
      BY <1>1
    <3>2. V[Len(o) + i] = rv[i]
      BY <1>3, <3>1
    <3>3. rv[i] = st[Len(st) + 1 - i]
      BY <1>1
    <3> QED BY <3>2, <3>3
  <2>2. V \in Seq(T) /\ Len(V) = Len(o) + Len(st) /\ \A i \in 1..Len(o) : V[i] = o[i]
    BY <1>1, <1>3
  <2> QED BY <2>1, <2>2
<1> QED BY <1>1, <1>4 DEF V, rv

\* One iteration: the top of the stack is emitted and its children pushed.
LEMMA StackStep ==
    ASSUME NEW o \in Seq(Rid), NEW st \in Seq(Rid), st # <<>>, NEW ch \in Seq(Rid)
    PROVE  LET o2  == Append(o, Last(st))
               st2 == Front(st) \o Reverse(ch)
           IN  /\ o2 \in Seq(Rid) /\ st2 \in Seq(Rid) /\ Len(o2) = Len(o) + 1
               /\ Len(o) < Len(Seen(o, st)) /\ Seen(o, st)[Len(o) + 1] = Last(st)
               /\ Inserted(Seen(o2, st2), Seen(o, st), Len(o) + 1, ch)
<1> DEFINE o2  == Append(o, Last(st))
           rc  == Reverse(ch)
           fr  == Front(st)
           st2 == fr \o rc
           m   == Len(st)
<1>1. m \in Nat \ {0} /\ Last(st) = st[m] /\ st[m] \in Rid
  BY DEF Last
<1>2. /\ o2 \in Seq(Rid) /\ Len(o2) = Len(o) + 1 /\ o2[Len(o) + 1] = st[m]
      /\ \A i \in 1..Len(o) : o2[i] = o[i]
  BY <1>1
<1>3. fr \in Seq(Rid) /\ Len(fr) = m - 1 /\ \A i \in 1..(m - 1) : fr[i] = st[i]
  BY Fronted
<1>4. rc \in Seq(Rid) /\ Len(rc) = Len(ch) /\ \A i \in 1..Len(ch) : rc[Len(ch) + 1 - i] = ch[i]
  BY Reversed
<1> HIDE DEF fr, rc
<1>5. /\ st2 \in Seq(Rid) /\ Len(st2) = m - 1 + Len(ch)
      /\ \A i \in 1..(m - 1) : st2[i] = st[i]
      /\ \A i \in 1..Len(ch) : st2[m - 1 + i] = rc[i]
  <2>1. /\ st2 \in Seq(Rid) /\ Len(st2) = Len(fr) + Len(rc)
        /\ \A i \in 1..Len(fr) : st2[i] = fr[i]
        /\ \A i \in 1..Len(rc) : st2[Len(fr) + i] = rc[i]
    <3>1. fr \in Seq(Rid) /\ rc \in Seq(Rid)
      BY <1>3, <1>4
    <3> QED BY <3>1, Joined
  <2> HIDE DEF st2, m
  <2>2. Len(fr) = m - 1 /\ Len(rc) = Len(ch) /\ m - 1 \in Nat
    BY <1>1, <1>3, <1>4
  <2>3. \A i \in 1..(m - 1) : st2[i] = st[i]
    BY <1>3, <2>1, <2>2
  <2>4. ASSUME NEW i \in 1..Len(ch) PROVE st2[m - 1 + i] = rc[i]
    <3>1. i \in 1..Len(rc) /\ Len(fr) + i = m - 1 + i
      BY <2>2
    <3>2. st2[Len(fr) + i] = rc[i]
      BY <2>1, <3>1
    <3> QED BY <3>1, <3>2
  <2> QED BY <2>1, <2>2, <2>3, <2>4
<1> DEFINE V == Seen(o, st)
           U == Seen(o2, st2)
<1> HIDE DEF o2, st2
<1>6. /\ V \in Seq(Rid) /\ Len(V) = Len(o) + m
      /\ \A i \in 1..Len(o) : V[i] = o[i]
      /\ \A i \in 1..m : V[Len(o) + i] = st[m + 1 - i]
  BY SeenIs
<1>7. /\ U \in Seq(Rid) /\ Len(U) = Len(o2) + Len(st2)
      /\ \A i \in 1..Len(o2) : U[i] = o2[i]
      /\ \A i \in 1..Len(st2) : U[Len(o2) + i] = st2[Len(st2) + 1 - i]
  <2>1. o2 \in Seq(Rid) /\ st2 \in Seq(Rid)
    BY <1>2, <1>5
  <2> QED BY <2>1, SeenIs
<1> HIDE DEF U, V, m
<1>8. Len(o) < Len(V) /\ V[Len(o) + 1] = st[m]
  <2>1. 1 \in 1..m /\ m + 1 - 1 = m /\ Len(o) \in Nat
    BY <1>1
  <2>2. V[Len(o) + 1] = st[m + 1 - 1]
    BY <1>6, <2>1
  <2> QED BY <1>1, <1>6, <2>1, <2>2
<1> DEFINE k == Len(ch)
           p == Len(o) + 1
<1>9. k \in Nat /\ Len(o) \in Nat /\ p \in Nat
  OBVIOUS
<1>10. Len(U) = Len(V) + k
  BY <1>1, <1>2, <1>5, <1>6, <1>7, <1>9
<1>11. \A i \in 1..p : U[i] = V[i]
  <2>1. \A i \in 1..p : i = p \/ i \in 1..Len(o)
    BY <1>9
  <2>2. \A i \in 1..p : i \in 1..Len(o2)
    BY <1>2
  <2> QED BY <1>2, <1>6, <1>7, <1>8, <2>1, <2>2
<1>12. ASSUME NEW i \in 1..k PROVE U[p + i] = ch[i]
  <2>1. i \in 1..Len(st2) /\ Len(st2) + 1 - i = m - 1 + (k + 1 - i) /\ k + 1 - i \in 1..k
    BY <1>1, <1>5, <1>9
  <2>2. U[p + i] = st2[m - 1 + (k + 1 - i)]
    BY <1>2, <1>7, <2>1
  <2>3. st2[m - 1 + (k + 1 - i)] = rc[k + 1 - i]
    BY <1>5, <2>1
  <2> QED BY <1>4, <2>2, <2>3
<1>13. ASSUME NEW i \in (p + 1)..Len(V) PROVE U[i + k] = V[i]
  <2> DEFINE a == i - Len(o)
  <2>1. a \in 2..m /\ a \in 1..m /\ Len(o) + a = i /\ m + 1 - a \in 1..(m - 1)
    BY <1>1, <1>6, <1>9
  <2>2. V[i] = st[m + 1 - a]
    BY <1>6, <2>1
  <2>3. /\ (a - 1) + k \in 1..Len(st2) /\ Len(o2) + ((a - 1) + k) = i + k
        /\ Len(st2) + 1 - ((a - 1) + k) = m + 1 - a
    BY <1>1, <1>2, <1>5, <1>9, <2>1
  <2>4. U[i + k] = st2[m + 1 - a]
    BY <1>7, <2>3
  <2> QED BY <1>5, <2>1, <2>2, <2>4
<1>14. Inserted(U, V, p, ch)
  BY <1>7, <1>10, <1>11, <1>12, <1>13 DEF Inserted
<1> QED BY <1>1, <1>2, <1>5, <1>8, <1>14 DEF U, V, o2, st2, fr, rc

\* A walk is never longer than the log.
LEMMA WalkFits ==
    ASSUME IndexInv, NEW r, NEW V, NEW q, Walk(r, V, q)
    PROVE  Len(V) <= Len(log)
<1>1. V \in Seq(Rid) /\ log \in Seq(Rid) /\ Len(V) \in Nat /\ Len(log) \in Nat
  BY DEF Walk, IndexInv, IInv, TypeInv, TypeOK
<1>2. \A i \in 1..Len(V) : \E k \in 1..Len(log) : log[k] = V[i]
  <2>1. \A i \in 1..Len(V) : V[i] \in active
    BY DEF Walk, Reached
  <2>2. \A c \in active : \E k \in DOMAIN log : log[k] = c
    BY DEF IndexInv, Logged
  <2>3. DOMAIN log = 1..Len(log)
    BY <1>1
  <2> QED BY <2>1, <2>2, <2>3
<1> DEFINE f == [i \in 1..Len(V) |-> CHOOSE k \in 1..Len(log) : log[k] = V[i]]
<1>3. \A i \in 1..Len(V) : f[i] \in 1..Len(log) /\ log[f[i]] = V[i]
  BY <1>2
<1>4. f \in [1..Len(V) -> 1..Len(log)]
  BY <1>3
<1> HIDE DEF f
<1>5. \A i, j \in 1..Len(V) : f[i] = f[j] => i = j
  BY <1>3 DEF Walk, OnceEach
<1>6. f \in Injection(1..Len(V), 1..Len(log))
  BY <1>4, <1>5 DEF Injection, IsInjective
<1>7. \A n \in Nat : IsFiniteSet(1..n) /\ Cardinality(1..n) = n
  <2> SUFFICES ASSUME NEW n \in Nat PROVE IsFiniteSet(1..n) /\ Cardinality(1..n) = n
    OBVIOUS
  <2>1. IsFiniteSet(1..n) /\ Cardinality(1..n) = IF 1 > n THEN 0 ELSE n - 1 + 1
    BY FS_Interval
  <2> QED BY <2>1
<1>8. Cardinality(1..Len(V)) <= Cardinality(1..Len(log))
  BY <1>1, <1>6, <1>7, FS_Injection
<1> QED BY <1>1, <1>7, <1>8

\* The stack walk of a root's tree is a complete walk.
LEMMA DfsWalks ==
    ASSUME IndexInv, NEW r \in Roots
    PROVE  Walk(r, DfsDescendants(r), Len(DfsDescendants(r)))
<1> DEFINE m == Len(log)
           T == [out : Seq(Rid), stack : Seq(Rid)]
           base == [out |-> <<>>, stack |-> Reverse(Children(r))]
           Then(w) == IF w.stack = <<>> THEN w
                      ELSE [out   |-> Append(w.out, Last(w.stack)),
                            stack |-> Front(w.stack) \o Reverse(Children(Last(w.stack)))]
           IsWalk(f) == f = [n \in 0..m |->
                               IF n = 0 THEN base ELSE LET w == f[n - 1] IN Then(w)]
           step == [x \in (1..m) \X T |-> Then(x[2])]
<1>1. m \in Nat /\ r \in Rid
  BY DEF IndexInv, IInv, TypeInv, TypeOK, Rid
<1>2. base \in T
  <2>1. Children(r) \in Seq(Rid)
    BY <1>1, ChildrenAre
  <2>2. Reverse(Children(r)) \in Seq(Rid)
    BY <2>1, Reversed
  <2> QED BY <2>2
<1>3. ASSUME NEW w \in T
      PROVE  /\ Then(w) \in T
             /\ w.stack = <<>> => Then(w) = w
             /\ w.stack # <<>> =>
                  /\ Len(Then(w).out) = Len(w.out) + 1
                  /\ Len(w.out) < Len(Seen(w.out, w.stack))
                  /\ Inserted(Seen(Then(w).out, Then(w).stack), Seen(w.out, w.stack),
                              Len(w.out) + 1,
                              Children(Seen(w.out, w.stack)[Len(w.out) + 1]))
  <2>1. CASE w.stack = <<>>
    BY <2>1
  <2>2. CASE w.stack # <<>>
    <3>1. w.out \in Seq(Rid) /\ w.stack \in Seq(Rid)
      OBVIOUS
    <3>2. Last(w.stack) \in Rid
      BY <2>2, <3>1, Fronted
    <3>3. Children(Last(w.stack)) \in Seq(Rid)
      BY <3>2, ChildrenAre
    <3>4. /\ Append(w.out, Last(w.stack)) \in Seq(Rid)
          /\ Front(w.stack) \o Reverse(Children(Last(w.stack))) \in Seq(Rid)
          /\ Len(Append(w.out, Last(w.stack))) = Len(w.out) + 1
          /\ Len(w.out) < Len(Seen(w.out, w.stack))
          /\ Seen(w.out, w.stack)[Len(w.out) + 1] = Last(w.stack)
          /\ Inserted(Seen(Append(w.out, Last(w.stack)),
                           Front(w.stack) \o Reverse(Children(Last(w.stack)))),
                      Seen(w.out, w.stack), Len(w.out) + 1, Children(Last(w.stack)))
      BY <2>2, <3>1, <3>3, StackStep
    <3>5. /\ Then(w).out = Append(w.out, Last(w.stack))
          /\ Then(w).stack = Front(w.stack) \o Reverse(Children(Last(w.stack)))
          /\ Then(w) = [out   |-> Append(w.out, Last(w.stack)),
                        stack |-> Front(w.stack) \o Reverse(Children(Last(w.stack)))]
      BY <2>2
    <3>6. Then(w) \in T
      BY <3>4, <3>5
    <3> HIDE DEF Then
    <3> QED BY <2>2, <3>4, <3>5, <3>6
  <2> QED BY <2>1, <2>2
<1> HIDE DEF Then
<1>4. \E f : IsWalk(f)
  <2>1. step \in [(1..m) \X T -> T]
    BY <1>3
  <2>2. PICK f : Follows(f, m, T, base, step)
    <3> HIDE DEF m, T, base, step
    <3> QED BY <1>1, <1>2, <2>1, RecursionExists
  <2>3. ASSUME NEW n \in 1..m PROVE f[n] = Then(f[n - 1])
    <3>1. n - 1 \in 0..m /\ f[n - 1] \in T
      BY <1>1, <2>2 DEF Follows
    <3>2. step[<<n, f[n - 1]>>] = Then(f[n - 1])
      BY <3>1
    <3> QED BY <2>2, <3>2 DEF Follows
  <2>4. \A n \in 0..m : n = 0 \/ n \in 1..m
    BY <1>1
  <2>5. IsWalk(f)
    BY <2>2, <2>3, <2>4 DEF Follows
  <2> QED BY <2>5
<1>5. PICK f : IsWalk(f) /\ DfsDescendants(r) = f[m].out
  BY <1>4 DEF DfsDescendants, Then
<1>6. f[0] = base /\ \A n \in 1..m : f[n] = Then(f[n - 1])
  <2>1. 0 \in 0..m /\ \A n \in 1..m : n # 0 /\ n \in 0..m
    BY <1>1
  <2> QED BY <1>5, <2>1
<1> DEFINE V(n) == Seen(f[n].out, f[n].stack)
           Good == {n \in 0..m : /\ f[n] \in T
                                 /\ Walk(r, V(n), Len(f[n].out))
                                 /\ f[n].stack = <<>> \/ Len(f[n].out) = n}
<1>7. 0 \in Good
  <2> DEFINE ch == Children(r)
  <2>1. ch \in Seq(Rid)
    BY <1>1, ChildrenAre
  <2>2. f[0].out = <<>> /\ f[0].stack = Reverse(ch) /\ <<>> \in Seq(Rid) /\ Len(<<>>) = 0
    BY <1>6
  <2> HIDE DEF ch
  <2>3. /\ Reverse(ch) \in Seq(Rid) /\ Len(Reverse(ch)) = Len(ch)
        /\ \A i \in 1..Len(ch) : Reverse(ch)[Len(ch) + 1 - i] = ch[i]
    BY <2>1, Reversed
  <2>4. /\ Seen(<<>>, Reverse(ch)) \in Seq(Rid)
        /\ Len(Seen(<<>>, Reverse(ch))) = 0 + Len(ch)
        /\ \A i \in 1..Len(ch) :
              Seen(<<>>, Reverse(ch))[0 + i] = Reverse(ch)[Len(ch) + 1 - i]
    <3> DEFINE e == <<>>
               rc == Reverse(ch)
    <3>1. e \in Seq(Rid) /\ Len(e) = 0 /\ rc \in Seq(Rid) /\ Len(rc) = Len(ch)
      BY <2>2, <2>3
    <3> HIDE DEF e, rc
    <3>2. /\ Seen(e, rc) \in Seq(Rid) /\ Len(Seen(e, rc)) = Len(e) + Len(rc)
          /\ \A i \in 1..Len(rc) : Seen(e, rc)[Len(e) + i] = rc[Len(rc) + 1 - i]
      <4>1. e \in Seq(Rid) /\ rc \in Seq(Rid)
        BY <3>1
      <4> QED BY <4>1, SeenIs
    <3>3. /\ Seen(e, rc) \in Seq(Rid) /\ Len(Seen(e, rc)) = 0 + Len(ch)
          /\ \A i \in 1..Len(ch) : Seen(e, rc)[0 + i] = rc[Len(ch) + 1 - i]
      BY <3>1, <3>2
    <3> QED BY <3>3 DEF e, rc
  <2>5. Seen(<<>>, Reverse(ch)) = ch
    <3>1. Len(ch) \in Nat
      BY <2>1
    <3>2. \A i \in 1..Len(ch) : Seen(<<>>, Reverse(ch))[i] = ch[i]
      BY <2>3, <2>4, <3>1
    <3> QED BY <2>1, <2>4, <3>1, <3>2, SeqEqual
  <2>6. Walk(r, V(0), 0)
    BY <2>2, <2>5, WalkStarts DEF ch
  <2>7. f[0] \in T /\ 0 \in 0..m
    BY <1>1, <1>2, <1>6
  <2> QED BY <2>2, <2>6, <2>7
<1>8. ASSUME NEW n \in 1..m, n - 1 \in Good PROVE n \in Good
  <2> DEFINE w == f[n - 1]
  <2>1. /\ w \in T /\ Walk(r, Seen(w.out, w.stack), Len(w.out))
        /\ w.stack = <<>> \/ Len(w.out) = n - 1
    BY <1>8
  <2>2. f[n] = Then(w) /\ n \in 0..m
    BY <1>1, <1>6
  <2> HIDE DEF w
  <2>3. f[n] \in T
    BY <1>3, <2>1, <2>2
  <2>4. CASE w.stack = <<>>
    <3>1. f[n] = w
      BY <1>3, <2>1, <2>2, <2>4
    <3> QED BY <2>1, <2>2, <2>4, <3>1
  <2>5. CASE w.stack # <<>>
    <3>1. /\ Len(f[n].out) = Len(w.out) + 1
          /\ Len(w.out) < Len(Seen(w.out, w.stack))
          /\ Inserted(V(n), Seen(w.out, w.stack), Len(w.out) + 1,
                      Children(Seen(w.out, w.stack)[Len(w.out) + 1]))
      BY <1>3, <2>1, <2>2, <2>5
    <3>2. Walk(r, V(n), Len(w.out) + 1)
      BY <2>1, <3>1, VisitKeepsWalk
    <3>3. Len(f[n].out) = n
      BY <2>1, <2>5, <3>1
    <3> QED BY <2>2, <2>3, <3>1, <3>2, <3>3
  <2> QED BY <2>4, <2>5
<1>9. m \in Good
  <2>1. \A n \in 0..m : n \in Good
    <3> HIDE DEF Good, m
    <3> QED BY <1>1, <1>7, <1>8, UpTo
  <2> QED BY <1>1, <2>1
<1>10. /\ f[m].out \in Seq(Rid) /\ f[m].stack \in Seq(Rid)
       /\ Walk(r, V(m), Len(f[m].out))
       /\ f[m].stack = <<>> \/ Len(f[m].out) = m
  BY <1>9
<1> DEFINE o == f[m].out
           st == f[m].stack
           W == Seen(o, st)
<1>11. /\ W \in Seq(Rid) /\ Len(W) = Len(o) + Len(st)
       /\ \A i \in 1..Len(o) : W[i] = o[i]
  <2>1. o \in Seq(Rid) /\ st \in Seq(Rid)
    BY <1>10
  <2> HIDE DEF o, st
  <2> QED BY <2>1, SeenIs
<1>12. Len(W) <= m
  BY <1>10, WalkFits
<1>13. Walk(r, W, Len(o)) /\ o \in Seq(Rid) /\ st \in Seq(Rid) /\ (st = <<>> \/ Len(o) = m)
  BY <1>10
<1> HIDE DEF o, st, W
<1>14. Len(st) = 0
  <2>1. st = <<>> => Len(st) = 0
    OBVIOUS
  <2>2. Len(st) \in Nat /\ Len(o) \in Nat
    BY <1>13
  <2> QED BY <1>1, <1>11, <1>12, <1>13, <2>1, <2>2
<1>15. W = o
  <2>1. Len(W) = Len(o)
    BY <1>11, <1>13, <1>14
  <2> QED BY <1>11, <1>13, <2>1, SeqEqual
<1> QED BY <1>5, <1>13, <1>15 DEF o

LEMMA WalkVisitsDescendants ==
    ASSUME IndexInv, NEW r \in Roots, NEW V, Walk(r, V, Len(V))
    PROVE  ToSet(V) = Descendants(r) /\ Cardinality(ToSet(V)) = Len(V)
<1>1. V \in Seq(Rid) /\ Len(V) \in Nat /\ DOMAIN V = 1..Len(V)
  BY DEF Walk
<1>2. OnceEach(V) /\ Reached(r, V, Len(V)) /\ Complete(r, V, Len(V))
  BY DEF Walk
<1>3. ASSUME NEW i \in 1..Len(V) PROVE V[i] \in Descendants(r)
  <2>1. V[i] \in active
    BY <1>2 DEF Reached
  <2> SUFFICES ASSUME NEW S \in SUBSET Rid, ClosedBelow(r, S), V[i] \notin S PROVE FALSE
    BY <2>1 DEF Descendants
  <2> DEFINE Bad == {k \in 1..Len(V) : V[k] \notin S}
  <2>2. PICK k \in Bad : \A j \in Bad : k <= j
    <3>1. Bad \in SUBSET Nat /\ Bad # {}
      OBVIOUS
    <3> HIDE DEF Bad
    <3> QED BY <3>1, LeastNumber
  <2>3. /\ V[k] \in active /\ k \in 1..Len(V) /\ V[k] \notin S
        /\ parent[V[k]] = r \/ \E j \in 1..Len(V) : j < k /\ parent[V[k]] = V[j]
    BY <1>2 DEF Reached
  <2>4. \A j \in 1..Len(V) : j < k => V[j] \in S
    BY <1>1, <2>2, <2>3
  <2>5. parent[V[k]] \in S \cup {r}
    BY <2>3, <2>4
  <2> QED BY <2>3, <2>5 DEF ClosedBelow
<1>4. Descendants(r) \subseteq ToSet(V)
  <2>1. ToSet(V) \in SUBSET Rid /\ \A d \in ToSet(V) : \E i \in 1..Len(V) : V[i] = d
    BY <1>1 DEF ToSet
  <2>2. ClosedBelow(r, ToSet(V))
    <3> SUFFICES ASSUME NEW c \in active, parent[c] \in ToSet(V) \cup {r} PROVE c \in ToSet(V)
      BY DEF ClosedBelow
    <3>1. PICK i \in 1..Len(V) : V[i] = c
      BY <1>2, <2>1 DEF Complete
    <3> QED BY <1>1, <3>1 DEF ToSet
  <2> QED BY <2>1, <2>2 DEF Descendants
<1>5. ToSet(V) = Descendants(r)
  BY <1>1, <1>3, <1>4 DEF ToSet
<1>6. Cardinality(ToSet(V)) = Len(V)
  <2> DEFINE f == [i \in 1..Len(V) |-> V[i]]
  <2>1. f \in Bijection(1..Len(V), ToSet(V))
    <3>1. f \in [1..Len(V) -> ToSet(V)]
      BY <1>1 DEF ToSet
    <3>2. \A i, j \in 1..Len(V) : f[i] = f[j] => i = j
      BY <1>2 DEF OnceEach
    <3>3. \A d \in ToSet(V) : \E i \in 1..Len(V) : f[i] = d
      BY <1>1 DEF ToSet
    <3> HIDE DEF f
    <3> QED BY <3>1, <3>2, <3>3 DEF Bijection, Injection, Surjection, IsInjective
  <2>2. IsFiniteSet(1..Len(V)) /\ Cardinality(1..Len(V)) = Len(V)
    <3>1. Cardinality(1..Len(V)) = IF 1 > Len(V) THEN 0 ELSE Len(V) - 1 + 1
      BY <1>1, FS_Interval
    <3>2. IsFiniteSet(1..Len(V))
      BY <1>1, FS_Interval
    <3> QED BY <1>1, <3>1, <3>2
  <2>3. ExistsBijection(1..Len(V), ToSet(V))
    BY <2>1 DEF ExistsBijection
  <2> QED BY <2>2, <2>3, FS_Bijection
<1> QED BY <1>5, <1>6

\* When a root collects its tree the stack walk of _dfs_descendants visits
\* every descendant of it, once each, whatever the shape of the tree.
THEOREM WalkVisitsAll == Spec => []DfsVisitsDescendants
<1>1. IndexInv => DfsVisitsDescendants
  BY DfsWalks, WalkVisitsDescendants DEF DfsVisitsDescendants
<1> QED BY <1>1, IndexInvHolds, PTL

\* The rows of a root are in preorder.
LEMMA InlineIsPreorder ==
    ASSUME IndexInv, NEW r \in Roots PROVE Preorder(Inline(r), r)
<1> DEFINE V == DfsDescendants(r)
<1>0. Walk(r, V, Len(V))
  BY DfsWalks
<1>1. V \in Seq(Rid) /\ Len(V) \in Nat
  BY <1>0 DEF Walk
<1>2. /\ OnceEach(V) /\ Reached(r, V, Len(V)) /\ AncestorsFirst(r, V, Len(V))
      /\ Contiguous(V) /\ SiblingsInOrder(V)
  BY <1>0 DEF Walk
<1>3. /\ TypeOK /\ parent[r] = NoParent /\ r \in Rid /\ r \notin Subs /\ NoParent \notin Rid
  BY TreeAssumption DEF IndexInv, IInv, TypeInv, RootsParentless, Rid
<1>4. ASSUME NEW x \in Subs PROVE r \notin Under(x) /\ x \in Rid
  <2>1. x \in Rid /\ x # r
    BY <1>3 DEF Rid
  <2>2. r \in Below(x) => NoParent \in Under(x)
    BY <1>3, <2>1, BelowByParent
  <2>3. Under(x) \subseteq Rid
    BY <2>1 DEF Under, Below
  <2> QED BY <1>3, <2>1, <2>2, <2>3 DEF Under
<1>5. \A i \in 1..Len(V) : V[i] # r
  BY <1>1, <1>2, <1>3 DEF Reached
<1> HIDE DEF V
<1>6. ASSUME ~IncludeChildren PROVE Preorder(Inline(r), r)
  <2> DEFINE s == <<r>>
  <2>1. Inline(r) = s
    BY <1>6 DEF Inline
  <2>2. Len(s) = 1 /\ DOMAIN s = {1} /\ s[1] = r /\ Last(s) = r
    BY DEF Last
  <2> HIDE DEF s
  <2>3. \A i, j \in {1} : \A k \in i..j : k = 1
    OBVIOUS
  <2>4. 1..(Len(s) - 1) = {}
    BY <2>2
  <2> QED BY <2>1, <2>2, <2>3, <2>4 DEF Preorder
<1>7. ASSUME IncludeChildren PROVE Preorder(Inline(r), r)
  <2> DEFINE t == SelectIn(V, stored)
             s == Append(t, r)
  <2>1. Inline(r) = s
    BY <1>7 DEF Inline, V
  <2>2. t \in Seq(Rid) /\ \E at : SelectedAt(t, V, Len(V), stored, at)
    BY <1>1, SelectInSelects
  <2> HIDE DEF t
  <2>3. PICK at : SelectedAt(t, V, Len(V), stored, at)
    BY <2>2
  <2>4. /\ at \in [1..Len(t) -> 1..Len(V)] /\ Len(t) \in Nat
        /\ \A i, j \in 1..Len(t) : i < j => at[i] < at[j]
        /\ \A i \in 1..Len(t) : t[i] = V[at[i]]
    BY <2>2, <2>3 DEF SelectedAt
  <2>5. /\ Len(s) = Len(t) + 1 /\ DOMAIN s = 1..(Len(t) + 1) /\ s[Len(t) + 1] = r
        /\ \A i \in 1..Len(t) : s[i] = V[at[i]]
    BY <1>3, <2>2, <2>4
  <2>6. Last(s) = r
    BY <2>5 DEF Last
  <2> HIDE DEF s
  <2>7. \A i \in 1..Len(t) : at[i] \in 1..Len(V) /\ at[i] \in Nat
    BY <1>1, <2>4
  <2>8. \A i, j \in 1..Len(t) : i <= j => at[i] <= at[j]
    <3> SUFFICES ASSUME NEW i \in 1..Len(t), NEW j \in 1..Len(t), i <= j PROVE at[i] <= at[j]
      OBVIOUS
    <3>1. i < j \/ i = j
      BY <2>4
    <3> QED BY <2>4, <2>7, <3>1
  <2>9. ASSUME NEW x \in Subs, NEW i \in 1..(Len(t) + 1), NEW j \in 1..(Len(t) + 1),
               NEW k \in i..j, s[i] \in Under(x), s[j] \in Under(x)
        PROVE  k \in 1..(Len(t) + 1) /\ s[k] \in Under(x)
    <3>1. i \in 1..Len(t) /\ j \in 1..Len(t)
      <4>1. i # Len(t) + 1 /\ j # Len(t) + 1
        BY <1>4, <2>5, <2>9
      <4> QED BY <2>4, <4>1
    <3>2. k \in 1..Len(t) /\ i <= k /\ k <= j
      BY <2>4, <3>1
    <3>3. at[i] <= at[k] /\ at[k] <= at[j]
      BY <2>8, <3>1, <3>2
    <3>4. V[at[i]] \in Under(x) /\ V[at[j]] \in Under(x)
      BY <2>5, <2>9, <3>1
    <3>5. V[at[k]] \in Under(x)
      BY <1>2, <1>4, <2>7, <3>1, <3>2, <3>3, <3>4 DEF Contiguous
    <3> QED BY <2>4, <2>5, <3>2, <3>5
  <2>10. ASSUME NEW i \in 1..Len(t), NEW j \in 1..Len(t), s[j] \in Below(s[i]) PROVE i < j
    <3>1. V[at[j]] \in Below(V[at[i]]) /\ V[at[i]] \in Rid /\ V[at[i]] # r
      BY <1>1, <1>5, <2>5, <2>7, <2>10
    <3>2. PICK m \in 1..Len(V) : m < at[j] /\ V[m] = V[at[i]]
      BY <1>2, <2>7, <3>1 DEF AncestorsFirst
    <3>3. m = at[i]
      BY <1>2, <2>7, <3>2 DEF OnceEach
    <3>4. ~(at[j] <= at[i])
      BY <2>7, <3>2, <3>3
    <3>5. ~(j <= i)
      BY <2>8, <3>4
    <3> QED BY <2>4, <3>5
  <2>11. ASSUME NEW i \in 1..Len(t), NEW j \in 1..Len(t), parent[s[i]] = parent[s[j]], i < j
         PROVE  childIndex[s[i]] < childIndex[s[j]]
    <3>1. at[i] < at[j] /\ s[i] = V[at[i]] /\ s[j] = V[at[j]]
      BY <2>4, <2>5, <2>11
    <3> QED BY <1>2, <2>7, <2>11, <3>1 DEF SiblingsInOrder
  <2>12. 1..(Len(s) - 1) = 1..Len(t)
    BY <2>4, <2>5
  <2>13. Preorder(s, r)
    <3> DEFINE occ(x) == {i \in DOMAIN s : s[i] \in {x} \cup Below(x)}
    <3>1. \A x \in Subs : \A i, j \in occ(x) : \A k \in i..j : k \in occ(x)
      BY <2>5, <2>9 DEF Under
    <3>2. \A i, j \in 1..(Len(s) - 1) :
              /\ s[j] \in Below(s[i]) => i < j
              /\ (parent[s[i]] = parent[s[j]] /\ i < j)
                    => childIndex[s[i]] < childIndex[s[j]]
      BY <2>10, <2>11, <2>12
    <3> QED BY <2>6, <3>1, <3>2 DEF Preorder
  <2> QED BY <2>1, <2>13
<1> QED BY <1>6, <1>7

\* The rows a root hands to generate() are in preorder in every reachable step.
THEOREM RowsInPreorder == Spec => InlinedInPreorder
<1>1. ASSUME IndexInv, [Next]_vars, NEW r \in Roots, inlined'[r] # inlined[r]
      PROVE  Preorder(inlined'[r], r)
  <2>1. CASE \E x \in Rid : CloseRoot(x)
    <3>1. PICK x \in Rid : CloseRoot(x)
      BY <2>1
    <3>2. DOMAIN inlined = Roots
      BY <1>1 DEF IndexInv, IInv, TypeInv, TypeOK
    <3>3. inlined' = [inlined EXCEPT ![x] = Inline(x)] /\ x \in Roots
      BY <1>1, <3>1 DEF CloseRoot
    <3>4. x = r /\ inlined'[r] = Inline(r)
      BY <1>1, <3>2, <3>3
    <3> QED BY <1>1, <3>4, InlineIsPreorder
  <2>2. CASE ~\E x \in Rid : CloseRoot(x)
    <3>1. inlined' = inlined
      BY <1>1, <2>2
      DEF Next, StartRoot, TaskStep, InitDone, EngineReply, EngineFail, StepReturn, CloseChild,
          CellStep, CellEnd, Resume, LmQuery, LmStart, LmReturn, RlmQuery,
          SubcallStep, RunChild, RegisterChild, SubcallReturn, SubcallTimeout, Cancel,
          EndOfStep, registry, vars
    <3> QED BY <1>1, <3>1
  <2> QED BY <2>1, <2>2
<1>2. IndexInv /\ [Next]_vars =>
        [\A r \in Roots : inlined'[r] # inlined[r] => Preorder(inlined'[r], r)]_vars
  BY <1>1
<1> QED BY <1>2, IndexInvHolds, PTL DEF Spec, InlinedInPreorder
-----------------------------------------------------------------------------
(* Credit for the answers a tree used.                                       *)

\* A task that may have been cancelled before its first step is not counted.
Ran(r) == task[r] \notin {"unborn", "sched", "refused", "cancelled"}

\* A node that ran agent_loop's first step has a root, and is registered as
\* long as this root is not finished.
TreeMarked ==
    \A x \in Rid : Ran(x) =>
        /\ tree[x] \in Roots /\ (x \in Roots => tree[x] = x)
        /\ task[tree[x]] # "finished" => x \in active

\* A registered subcall that finished has parked its output.
OutputParked == \A c \in active \cap Subs : task[c] = "finished" => c \in stored

\* Only a finished subcall answers.
AnswerFromFinished == \A c \in Subs : fut[c] = "answered" => task[c] = "finished"

AnswerInv == IndexInv /\ TreeMarked /\ OutputParked /\ AnswerFromFinished

LEMMA NextAnswers == AnswerInv /\ [Next]_vars => AnswerInv'
<1> SUFFICES ASSUME AnswerInv, [Next]_vars PROVE AnswerInv'
  OBVIOUS
<1>1. IndexInv' /\ IndexInv /\ IInv /\ TypeOK
  BY NextIndices DEF AnswerInv, IndexInv, IInv, TypeInv
<1>2. TreeMarked /\ OutputParked /\ AnswerFromFinished
  BY DEF AnswerInv
<1>3. /\ Roots \subseteq Rid /\ Subs \subseteq Rid /\ Roots \cap Subs = {}
      /\ active \subseteq Rid
  BY <1>1, TreeAssumption DEF Rid, TypeOK
\* Steps that leave the registry alone.
<1>4. ASSUME UNCHANGED <<active, tree, stored>>,
             \A x \in Rid : Ran(x)' => Ran(x),
             \A x \in Rid : task[x] = "finished" <=> task'[x] = "finished",
             \A c \in Subs : fut'[c] = "answered" => fut[c] = "answered" \/ task[c] = "finished"
      PROVE  AnswerInv'
  <2>1. TreeMarked'
    <3> SUFFICES ASSUME NEW x \in Rid, Ran(x)'
                 PROVE  /\ tree'[x] \in Roots /\ (x \in Roots => tree'[x] = x)
                        /\ task'[tree'[x]] # "finished" => x \in active'
      BY DEF TreeMarked, Ran
    <3>1. /\ tree[x] \in Roots /\ (x \in Roots => tree[x] = x)
          /\ task[tree[x]] # "finished" => x \in active
      BY <1>2, <1>4 DEF TreeMarked
    <3> QED BY <1>3, <1>4, <3>1
  <2>2. OutputParked' /\ AnswerFromFinished'
    BY <1>2, <1>3, <1>4 DEF OutputParked, AnswerFromFinished
  <2> QED BY <1>1, <2>1, <2>2 DEF AnswerInv
<1>5. ASSUME NEW r \in Roots, StartRoot(r) PROVE AnswerInv'
  <2>1. /\ task[r] = "unborn" /\ task' = [task EXCEPT ![r] = "init"]
        /\ active' = active \cup {r} /\ tree' = [tree EXCEPT ![r] = r]
        /\ UNCHANGED <<stored, fut>>
    BY <1>5 DEF StartRoot
  <2>2. TreeMarked'
    <3> SUFFICES ASSUME NEW x \in Rid, Ran(x)'
                 PROVE  /\ tree'[x] \in Roots /\ (x \in Roots => tree'[x] = x)
                        /\ task'[tree'[x]] # "finished" => x \in active'
      BY DEF TreeMarked, Ran
    <3>1. CASE x = r
      BY <1>1, <1>3, <2>1, <3>1 DEF TypeOK
    <3>2. CASE x # r
      <4>1. Ran(x) /\ tree'[x] = tree[x]
        BY <1>1, <1>3, <2>1, <3>2 DEF TypeOK, Ran
      <4>2. /\ tree[x] \in Roots /\ (x \in Roots => tree[x] = x)
            /\ task[tree[x]] # "finished" => x \in active
        BY <1>2, <4>1 DEF TreeMarked
      <4>3. task'[tree[x]] # "finished" => task[tree[x]] # "finished"
        BY <1>1, <1>3, <2>1, <4>2 DEF TypeOK
      <4> QED BY <2>1, <4>1, <4>2, <4>3
    <3> QED BY <3>1, <3>2
  <2>3. OutputParked' /\ AnswerFromFinished'
    BY <1>1, <1>2, <1>3, <2>1 DEF OutputParked, AnswerFromFinished, TypeOK
  <2> QED BY <1>1, <2>2, <2>3 DEF AnswerInv
<1>6. ASSUME NEW r \in Rid, InitDone(r) \/ EngineReply(r) \/ EngineFail(r) \/ StepReturn(r)
      PROVE  AnswerInv'
  <2>1. /\ UNCHANGED <<active, tree, stored, fut>>
        /\ task[r] \in Live \ {"sched"}
        /\ \E t \in {"generate", "close", "failed", "step"} : task' = [task EXCEPT ![r] = t]
    BY <1>6 DEF InitDone, EngineReply, EngineFail, StepReturn, AfterStep, registry, Live
  <2>2. \A x \in Rid : /\ Ran(x)' => Ran(x)
                       /\ task[x] = "finished" <=> task'[x] = "finished"
    BY <1>1, <2>1 DEF Ran, TypeOK, Live
  <2> QED BY <1>4, <2>1, <2>2
<1>7. ASSUME NEW c \in Subs, CloseChild(c) PROVE AnswerInv'
  <2>1. /\ task[c] = "close" /\ task' = [task EXCEPT ![c] = "finished"]
        /\ stored' = IF c \in active THEN stored \cup {c} ELSE stored
        /\ UNCHANGED <<active, tree, fut>>
    BY <1>7 DEF CloseChild
  <2>2. \A x \in Rid : /\ Ran(x)' => Ran(x)
                       /\ x # c => task'[x] = task[x]
                       /\ task[x] = "finished" => task'[x] = "finished"
    BY <1>1, <2>1 DEF Ran, TypeOK
  <2>3. TreeMarked'
    <3> SUFFICES ASSUME NEW x \in Rid, Ran(x)'
                 PROVE  /\ tree'[x] \in Roots /\ (x \in Roots => tree'[x] = x)
                        /\ task'[tree'[x]] # "finished" => x \in active'
      BY DEF TreeMarked, Ran
    <3>1. /\ tree[x] \in Roots /\ (x \in Roots => tree[x] = x)
          /\ task[tree[x]] # "finished" => x \in active
      BY <1>2, <2>2 DEF TreeMarked
    <3> QED BY <1>3, <2>1, <2>2, <3>1
  <2>4. OutputParked' /\ AnswerFromFinished'
    BY <1>2, <1>3, <2>1, <2>2 DEF OutputParked, AnswerFromFinished
  <2> QED BY <1>1, <2>3, <2>4 DEF AnswerInv
<1>8. ASSUME NEW r \in Roots, CloseRoot(r) PROVE AnswerInv'
  <2>1. /\ task[r] = "close" /\ task' = [task EXCEPT ![r] = "finished"]
        /\ UNCHANGED <<tree, fut>> /\ stored \subseteq stored' /\ active' \subseteq active
    BY <1>8 DEF CloseRoot
  <2>2. \A x \in Rid : /\ Ran(x)' => Ran(x)
                       /\ x # r => task'[x] = task[x]
                       /\ task[x] = "finished" => task'[x] = "finished"
    BY <1>1, <1>3, <2>1 DEF Ran, TypeOK
  <2>3. task'[r] = "finished"
    BY <1>1, <1>3, <2>1 DEF TypeOK
  <2>4. \A x \in active : tree[x] # r => x \in active'
    <3>1. CASE r \in active
      <4>1. {r} \cup Descendants(r) = {d \in active : tree[d] = r}
        BY <1>1, <3>1, TreeIsDescendants
      <4>2. active' = active \ ({r} \cup Descendants(r))
        BY <1>8, <3>1 DEF CloseRoot
      <4> QED BY <4>1, <4>2
    <3>2. CASE r \notin active
      BY <1>8, <3>2 DEF CloseRoot
    <3> QED BY <3>1, <3>2
  <2>5. TreeMarked'
    <3> SUFFICES ASSUME NEW x \in Rid, Ran(x)'
                 PROVE  /\ tree'[x] \in Roots /\ (x \in Roots => tree'[x] = x)
                        /\ task'[tree'[x]] # "finished" => x \in active'
      BY DEF TreeMarked, Ran
    <3>1. /\ tree[x] \in Roots /\ (x \in Roots => tree[x] = x)
          /\ task[tree[x]] # "finished" => x \in active
      BY <1>2, <2>2 DEF TreeMarked
    <3> QED BY <1>3, <2>1, <2>2, <2>3, <2>4, <3>1
  <2>6. OutputParked' /\ AnswerFromFinished'
    BY <1>2, <1>3, <2>1, <2>2 DEF OutputParked, AnswerFromFinished
  <2> QED BY <1>1, <2>5, <2>6 DEF AnswerInv
<1>9. ASSUME NEW r \in Rid, NEW k \in Turns, CellStep(r, k) PROVE AnswerInv'
  <2>1. CASE \E c \in Subs : RlmQuery(r, k, c)
    <3>1. PICK c \in Subs : RlmQuery(r, k, c)
      BY <2>1
    <3>2. /\ task[c] = "unborn" /\ task' = [task EXCEPT ![c] = "sched"]
          /\ fut' = [fut EXCEPT ![c] = "pending"] /\ UNCHANGED <<active, tree, stored>>
      BY <3>1 DEF RlmQuery
    <3>3. /\ \A x \in Rid : /\ Ran(x)' => Ran(x)
                            /\ task[x] = "finished" <=> task'[x] = "finished"
          /\ \A d \in Subs : fut'[d] = "answered" => fut[d] = "answered"
      BY <1>1, <1>3, <3>2 DEF Ran, TypeOK
    <3> QED BY <1>4, <3>2, <3>3
  <2>2. CASE ~\E c \in Subs : RlmQuery(r, k, c)
    <3>1. UNCHANGED <<active, tree, stored, task, fut>>
      BY <1>9, <2>2 DEF CellStep, CellEnd, Resume, LmQuery, LmStart, LmReturn, registry
    <3> QED BY <1>4, <3>1 DEF Ran
  <2> QED BY <2>1, <2>2
<1>10. ASSUME NEW c \in Subs, RunChild(c) PROVE AnswerInv'
  <2>1. CASE CanRunChild(c) /\ RegisterChild(c)
    <3> DEFINE p == parent[c]
    <3>1. /\ task[c] = "sched" /\ task' = [task EXCEPT ![c] = "init"] /\ p \in active
          /\ active' = active \cup {c} /\ tree' = [tree EXCEPT ![c] = tree[p]]
          /\ UNCHANGED <<stored, fut>>
      BY <1>10, <2>1 DEF RunChild, CanRunChild, RegisterChild
    <3>2. tree[p] \in Roots
      BY <1>1, <3>1 DEF IInv, RootOpen
    <3>3. TreeMarked'
      <4> SUFFICES ASSUME NEW x \in Rid, Ran(x)'
                   PROVE  /\ tree'[x] \in Roots /\ (x \in Roots => tree'[x] = x)
                          /\ task'[tree'[x]] # "finished" => x \in active'
        BY DEF TreeMarked, Ran
      <4>1. CASE x = c
        BY <1>1, <1>3, <3>1, <3>2, <4>1 DEF TypeOK
      <4>2. CASE x # c
        <5>1. Ran(x) /\ tree'[x] = tree[x]
          BY <1>1, <1>3, <3>1, <4>2 DEF TypeOK, Ran
        <5>2. /\ tree[x] \in Roots /\ (x \in Roots => tree[x] = x)
              /\ task[tree[x]] # "finished" => x \in active
          BY <1>2, <5>1 DEF TreeMarked
        <5>3. task'[tree[x]] = task[tree[x]]
          BY <1>1, <1>3, <3>1, <5>2 DEF TypeOK
        <5> QED BY <3>1, <5>1, <5>2, <5>3
      <4> QED BY <4>1, <4>2
    <3>4. OutputParked' /\ AnswerFromFinished'
      BY <1>1, <1>2, <1>3, <3>1 DEF OutputParked, AnswerFromFinished, TypeOK
    <3> QED BY <1>1, <3>3, <3>4 DEF AnswerInv
  <2>2. CASE ~(CanRunChild(c) /\ RegisterChild(c))
    <3>1. /\ task[c] = "sched" /\ task' = [task EXCEPT ![c] = "refused"]
          /\ UNCHANGED <<active, tree, stored, fut>>
      BY <1>10, <2>2 DEF RunChild
    <3>2. \A x \in Rid : /\ Ran(x)' => Ran(x)
                         /\ task[x] = "finished" <=> task'[x] = "finished"
      BY <1>1, <1>3, <3>1 DEF Ran, TypeOK
    <3> QED BY <1>4, <3>1, <3>2
  <2> QED BY <2>1, <2>2
<1>11. ASSUME NEW c \in Subs, SubcallReturn(c) \/ SubcallTimeout(c) \/ Cancel(c)
       PROVE  AnswerInv'
  <2>1. UNCHANGED <<active, tree, stored>>
    BY <1>11 DEF SubcallReturn, SubcallTimeout, Cancel, registry
  <2>2. \A x \in Rid : /\ Ran(x)' => Ran(x)
                       /\ task[x] = "finished" <=> task'[x] = "finished"
    BY <1>1, <1>3, <1>11 DEF SubcallReturn, SubcallTimeout, Cancel, Ran, TypeOK, Live
  <2>3. \A d \in Subs : fut'[d] = "answered" => fut[d] = "answered" \/ task[d] = "finished"
    BY <1>1, <1>3, <1>11 DEF SubcallReturn, SubcallTimeout, Cancel, TypeOK, Terminal
  <2> QED BY <1>4, <2>1, <2>2, <2>3
<1>12. ASSUME EndOfStep PROVE AnswerInv'
  <2>1. /\ active' = {} /\ UNCHANGED <<tree, stored, task, fut>>
        /\ \A r \in Roots : task[r] = "finished"
    BY <1>12 DEF EndOfStep
  <2> QED BY <1>1, <1>2, <2>1 DEF AnswerInv, TreeMarked, OutputParked, AnswerFromFinished, Ran
<1>13. ASSUME UNCHANGED vars PROVE AnswerInv'
  BY <1>4, <1>13 DEF vars, registry, Ran
<1>14. ASSUME NEW r \in Rid, TaskStep(r) PROVE AnswerInv'
  BY <1>6, <1>7, <1>8, <1>14 DEF TaskStep, CloseChild, CloseRoot
<1>15. ASSUME NEW c \in Subs, SubcallStep(c) PROVE AnswerInv'
  BY <1>10, <1>11, <1>15 DEF SubcallStep
<1> QED BY <1>5, <1>9, <1>12, <1>13, <1>14, <1>15 DEF Next

\* An answer the tree already used is credited: when a root finishes, the rows
\* of every subcall of its tree whose value a cell received are among its own.
THEOREM AnswersAreInlined ==
    ASSUME IncludeChildren PROVE Spec => AnsweredIsInlined
<1>1. Init => AnswerInv
  <2>1. Init => IndexInv
    BY InitIndices
  <2>2. Subs \subseteq Rid
    BY DEF Rid
  <2> QED BY <2>1, <2>2 DEF Init, AnswerInv, TreeMarked, OutputParked, AnswerFromFinished, Ran
<1>2. ASSUME AnswerInv, [Next]_vars, NEW r \in Roots, task[r] = "close", task'[r] = "finished",
             NEW c \in Subs, fut[c] = "answered", tree[c] = r
      PROVE  c \in ToSet(inlined'[r])
  <2>1. IndexInv /\ IInv /\ TypeOK /\ r \in Rid /\ c \in Rid /\ r # c
    BY <1>2, TreeAssumption DEF AnswerInv, IndexInv, IInv, TypeInv, Rid
  <2>2. CloseRoot(r)
    <3>1. ASSUME NEW x \in Rid, TaskStep(x) PROVE CloseRoot(r)
      BY <1>2, <2>1, <3>1, TreeAssumption
      DEF TaskStep, InitDone, EngineReply, EngineFail, StepReturn, AfterStep, CloseChild,
          CloseRoot, TypeOK
    <3>2. ASSUME NEW x \in Roots, StartRoot(x) PROVE FALSE
      BY <1>2, <2>1, <3>2 DEF StartRoot, TypeOK
    <3>3. ASSUME NEW x \in Rid, NEW k \in Turns, CellStep(x, k) PROVE FALSE
      BY <1>2, <2>1, <3>3
      DEF CellStep, CellEnd, Resume, LmQuery, LmStart, LmReturn, RlmQuery, TypeOK
    <3>4. ASSUME NEW x \in Subs, SubcallStep(x) PROVE FALSE
      BY <1>2, <2>1, <3>4
      DEF SubcallStep, RunChild, RegisterChild, SubcallReturn, SubcallTimeout, Cancel, TypeOK
    <3>5. ~EndOfStep /\ ~UNCHANGED vars
      BY <1>2 DEF EndOfStep, vars
    <3> QED BY <1>2, <3>1, <3>2, <3>3, <3>4, <3>5 DEF Next
  <2>3. r \in active
    <3>1. Ran(r)
      BY <1>2 DEF Ran
    <3> QED BY <1>2, <2>1, <3>1 DEF AnswerInv, TreeMarked
  <2>4. c \in active /\ c \in stored
    <3>1. task[c] = "finished"
      BY <1>2 DEF AnswerInv, AnswerFromFinished
    <3>2. Ran(c)
      BY <3>1 DEF Ran
    <3>3. c \in active
      BY <1>2, <2>1, <3>2 DEF AnswerInv, TreeMarked
    <3> QED BY <1>2, <3>1, <3>3 DEF AnswerInv, OutputParked
  <2>5. c \in Descendants(r)
    BY <1>2, <2>1, <2>3, <2>4, TreeIsDescendants
  <2> DEFINE V == DfsDescendants(r)
             t == SelectIn(V, stored)
  <2>6. Walk(r, V, Len(V))
    BY <2>1, DfsWalks
  <2>7. ToSet(V) = Descendants(r) /\ V \in Seq(Rid)
    BY <2>1, <2>6, WalkVisitsDescendants DEF Walk
  <2>8. inlined'[r] = Append(t, r)
    <3>1. inlined' = [inlined EXCEPT ![r] = Inline(r)]
      BY <2>2, <2>3 DEF CloseRoot
    <3>2. Inline(r) = Append(t, r)
      BY DEF Inline
    <3> QED BY <2>1, <3>1, <3>2 DEF TypeOK
  <2> HIDE DEF V
  <2>9. PICK m \in 1..Len(V) : V[m] = c
    <3>1. c \in ToSet(V) /\ DOMAIN V = 1..Len(V)
      BY <2>5, <2>7
    <3> QED BY <3>1 DEF ToSet
  <2>10. t \in Seq(Rid) /\ \E at : SelectedAt(t, V, Len(V), stored, at)
    BY <2>7, SelectInSelects
  <2> HIDE DEF t
  <2>11. PICK at : SelectedAt(t, V, Len(V), stored, at)
    BY <2>10
  <2>12. PICK i \in 1..Len(t) : at[i] = m
    BY <2>4, <2>9, <2>11 DEF SelectedAt
  <2>13. t[i] = c
    BY <2>9, <2>11, <2>12 DEF SelectedAt
  <2>14. i \in DOMAIN Append(t, r) /\ Append(t, r)[i] = c
    BY <2>10, <2>12, <2>13
  <2> QED BY <2>8, <2>14 DEF ToSet
<1>3. AnswerInv /\ [Next]_vars =>
        [\A r \in Roots : (task[r] = "close" /\ task'[r] = "finished") =>
           \A c \in Subs : (fut[c] = "answered" /\ tree[c] = r)
                              => c \in ToSet(inlined'[r])]_vars
  BY <1>2
<1>4. Spec => []AnswerInv
  BY <1>1, NextAnswers, PTL DEF Spec
<1> QED BY <1>3, <1>4, PTL DEF Spec, AnsweredIsInlined
=============================================================================
