------------------------ MODULE EvidenceLedgerProofs ------------------------
(***************************************************************************)
(* The evidence ledger for any trees, any number of cells per node and any *)
(* budget: ids never clash, what was found can be looked up, a tree's      *)
(* searches keep to its budget, and surfaced_ids counts the evidence once  *)
(* no cell is in the middle of a result.                                   *)
(***************************************************************************)
EXTENDS EvidenceLedger, FiniteSetTheorems, FunctionTheorems, TLAPS

\* Only the code of a node that has started searches.
Busy == \A c \in Cells : pc[c] # "idle" => node[NodeOf[c]] # "unborn"

\* A cell between minting an id and recording it.
Pending(c) == pc[c] \in {"surface", "record"}

\* A ledger holds ids of its own tree, which their nodes have minted.
Numbered ==
    \A l \in Roots : \A s \in snippets[l] :
        s.id[2] < counter[s.id[1]] /\ RootOf[s.id[1]] = l

\* A pending id is minted, and no evidence stands under it yet.
Fresh ==
    \A c \in Cells : Pending(c) =>
        /\ sid[c] < counter[NodeOf[c]]
        /\ \A s \in snippets[RootOf[NodeOf[c]]] : s.id # Id(c)

\* No two cells are about to record the same id.
Distinct ==
    \A c, d \in Cells :
        c # d /\ Pending(c) /\ Pending(d) /\ NodeOf[c] = NodeOf[d] => sid[c] # sid[d]

\* What a search has put on its list is recorded.
ListsRecorded == \A c \in Cells : results[c] \subseteq Recorded(RootOf[NodeOf[c]])

\* The counter under the ledger's lock counts the searches of the tree.
Counted ==
    MaxCalls > 0 => \A r \in Roots : asked[r] = used[r] /\ used[r] <= MaxCalls

Inv == /\ TypeOK /\ Busy /\ Numbered /\ Fresh /\ Distinct
       /\ ListsRecorded /\ FoundIsRecorded /\ Counted

\* What every step has to show of the conjuncts that only read the ledgers.
\* Evidence is never taken away, so nothing that was recorded is lost.
Kept == \A l \in Roots : snippets[l] \subseteq snippets'[l]

LEMMA NodesHaveRoots == RootOf \in [Node -> Roots] /\ NodeOf \in [Cells -> Node]
  BY LedgerAssumption

LEMMA RecordedKept ==
    ASSUME Kept, NEW l \in Roots
    PROVE  Recorded(l) \subseteq Recorded(l)'
  BY DEF Kept, Recorded

LEMMA InitInv == Init => Inv
  <1> SUFFICES ASSUME Init PROVE Inv
    OBVIOUS
  <1>1. TypeOK
    <2>1. snippets \in [Roots -> SUBSET [id : Ids, hit : Cells]]
      BY DEF Init
    <2>2. surfaced \in [Node -> Seq(Ids)]
      <3>1. <<>> \in Seq(Ids)
        OBVIOUS
      <3> QED BY <3>1 DEF Init
    <2>3. /\ results \in [Cells -> SUBSET Ids] /\ found \in [Node -> SUBSET Ids]
          /\ report \in [Node -> SUBSET Ids] /\ used \in [Roots -> Nat]
          /\ asked \in [Roots -> Nat] /\ counter \in [Node -> Nat] /\ sid \in [Cells -> Nat]
          /\ latched \in BOOLEAN
      BY DEF Init
    <2>4. /\ node \in [Node -> {"unborn", "open", "closed"}]
          /\ ledgerOf = [n \in Node |-> IF node[n] = "unborn" THEN NoLedger ELSE RootOf[n]]
      BY DEF Init
    <2>5. /\ pc \in [Cells -> {"idle", "budget", "backend", "mint", "surface", "record"}]
          /\ todo \in [Cells -> 0..MaxHits] /\ searches \in [Cells -> 0..MaxSearches]
          /\ \A c \in Cells : pc[c] \in {"mint", "surface", "record"} => todo[c] > 0
      BY LedgerAssumption DEF Init
    <2> QED BY <2>1, <2>2, <2>3, <2>4, <2>5 DEF TypeOK
  <1>2. Busy /\ Fresh /\ Distinct
    BY NodesHaveRoots DEF Init, Busy, Fresh, Distinct, Pending
  <1>3. Numbered /\ ListsRecorded /\ FoundIsRecorded
    BY NodesHaveRoots DEF Init, Numbered, ListsRecorded, FoundIsRecorded
  <1>4. Counted
    BY LedgerAssumption DEF Init, Counted
  <1> QED BY <1>1, <1>2, <1>3, <1>4 DEF Inv

LEMMA StartNodeInv ==
    ASSUME Inv, NEW n \in Node, StartNode(n)
    PROVE  Inv' /\ Kept
  <1> USE NodesHaveRoots DEF Inv, StartNode, evidence, search
  <1>1. TypeOK'
    <2>1. LedgerFor(n) = RootOf[n]
      BY LedgerAssumption DEF TypeOK, LedgerFor, Node
    <2> QED BY <2>1 DEF TypeOK
  <1>2. Busy'
    BY DEF TypeOK, Busy
  <1>3. Numbered'
    BY DEF TypeOK, Numbered, Ids
  <1>4. Fresh'
    BY DEF TypeOK, Fresh, Pending, Id, Ids
  <1>5. Distinct'
    BY DEF TypeOK, Distinct, Pending
  <1>6. Kept
    BY DEF TypeOK, Kept
  <1>7. ListsRecorded'
    BY <1>6, RecordedKept DEF TypeOK, ListsRecorded
  <1>8. FoundIsRecorded'
    BY <1>6, RecordedKept DEF TypeOK, FoundIsRecorded
  <1>9. Counted'
    BY DEF TypeOK, Counted
  <1> QED BY <1>1, <1>2, <1>3, <1>4, <1>5, <1>6, <1>7, <1>8, <1>9

LEMMA FinishInv ==
    ASSUME Inv, NEW n \in Node, NEW inline \in SUBSET Ids, NEW listed \in SUBSET Ids,
           Finish(n, inline, listed)
    PROVE  Inv' /\ Kept
  <1> USE NodesHaveRoots DEF Inv, Finish, Backed, evidence, search
  <1>1. TypeOK'
    BY DEF TypeOK
  <1>2. Busy'
    BY DEF TypeOK, Busy
  <1>3. Numbered'
    BY DEF TypeOK, Numbered, Ids
  <1>4. Fresh'
    BY DEF TypeOK, Fresh, Pending, Id, Ids
  <1>5. Distinct'
    BY DEF TypeOK, Distinct, Pending
  <1>6. Kept
    BY DEF TypeOK, Kept
  <1>7. ListsRecorded'
    BY <1>6, RecordedKept DEF TypeOK, ListsRecorded
  <1>8. FoundIsRecorded'
    BY <1>6, RecordedKept DEF TypeOK, FoundIsRecorded
  <1>9. Counted'
    BY DEF TypeOK, Counted
  <1> QED BY <1>1, <1>2, <1>3, <1>4, <1>5, <1>6, <1>7, <1>8, <1>9

LEMMA HandOverInv ==
    ASSUME Inv, NEW c \in Children, HandOver(c)
    PROVE  Inv' /\ Kept
  <1> USE NodesHaveRoots DEF Inv, HandOver, evidence, search
  <1>1. TypeOK'
    BY LedgerAssumption DEF TypeOK, Node
  <1>2. Busy'
    BY DEF TypeOK, Busy
  <1>3. Numbered'
    BY DEF TypeOK, Numbered, Ids
  <1>4. Fresh'
    BY DEF TypeOK, Fresh, Pending, Id, Ids
  <1>5. Distinct'
    BY DEF TypeOK, Distinct, Pending
  <1>6. Kept
    BY DEF TypeOK, Kept
  <1>7. ListsRecorded'
    BY <1>6, RecordedKept DEF TypeOK, ListsRecorded
  <1>8. FoundIsRecorded'
    <2>1. RootOf[c] = RootOf[ParentOf[c]] /\ ParentOf[c] \in Node /\ c \in Node
      BY LedgerAssumption DEF Node
    <2>2. found[c] \subseteq Recorded(RootOf[ParentOf[c]])
      BY <2>1 DEF FoundIsRecorded
    <2> QED BY <2>1, <2>2, <1>6, RecordedKept DEF TypeOK, FoundIsRecorded
  <1>9. Counted'
    BY DEF TypeOK, Counted
  <1> QED BY <1>1, <1>2, <1>3, <1>4, <1>5, <1>6, <1>7, <1>8, <1>9

LEMMA SearchBeginInv ==
    ASSUME Inv, NEW c \in Cells, SearchBegin(c)
    PROVE  Inv' /\ Kept
  <1> USE NodesHaveRoots DEF Inv, SearchBegin, Goto, evidence, search
  <1>1. TypeOK'
    BY LedgerAssumption DEF TypeOK
  <1>2. Busy'
    BY DEF TypeOK, Busy
  <1>3. Numbered'
    BY DEF TypeOK, Numbered, Ids
  <1>4. Fresh'
    BY DEF TypeOK, Fresh, Pending, Id, Ids
  <1>5. Distinct'
    BY DEF TypeOK, Distinct, Pending
  <1>6. Kept
    BY DEF TypeOK, Kept
  <1>7. ListsRecorded'
    BY <1>6, RecordedKept DEF TypeOK, ListsRecorded
  <1>8. FoundIsRecorded'
    BY <1>6, RecordedKept DEF TypeOK, FoundIsRecorded
  <1>9. Counted'
    BY DEF TypeOK, Counted
  <1> QED BY <1>1, <1>2, <1>3, <1>4, <1>5, <1>6, <1>7, <1>8, <1>9

LEMMA TakeBudgetInv ==
    ASSUME Inv, NEW c \in Cells, TakeBudget(c)
    PROVE  Inv' /\ Kept
  <1> USE NodesHaveRoots DEF Inv, TakeBudget, Goto, evidence, search, Spent
  <1>1. TypeOK'
    <2>1. ledgerOf[NodeOf[c]] = RootOf[NodeOf[c]] /\ RootOf[NodeOf[c]] \in Roots
      BY DEF TypeOK, Busy
    <2>2. used' \in [Roots -> Nat] /\ asked' \in [Roots -> Nat]
      <3>1. used \in [Roots -> Nat] /\ asked \in [Roots -> Nat]
        BY DEF TypeOK
      <3>2. /\ used' = used \/ used' = [used EXCEPT ![RootOf[NodeOf[c]]] = @ + 1]
            /\ asked' = asked \/ asked' = [asked EXCEPT ![RootOf[NodeOf[c]]] = @ + 1]
        BY <2>1
      <3> HIDE DEF Inv, TakeBudget
      <3> QED BY <2>1, <3>1, <3>2
    <2>3. pc' \in [Cells -> {"idle", "budget", "backend", "mint", "surface", "record"}]
      BY DEF TypeOK
    <2> QED BY <2>2, <2>3 DEF TypeOK
  <1>2. Busy'
    BY DEF TypeOK, Busy
  <1>3. Numbered'
    BY DEF TypeOK, Numbered, Ids
  <1>4. Fresh'
    BY DEF TypeOK, Fresh, Pending, Id, Ids
  <1>5. Distinct'
    BY DEF TypeOK, Distinct, Pending
  <1>6. Kept
    BY DEF TypeOK, Kept
  <1>7. ListsRecorded'
    BY <1>6, RecordedKept DEF TypeOK, ListsRecorded
  <1>8. FoundIsRecorded'
    BY <1>6, RecordedKept DEF TypeOK, FoundIsRecorded
  <1>9. Counted'
    <2>1. ledgerOf[NodeOf[c]] = RootOf[NodeOf[c]] /\ RootOf[NodeOf[c]] \in Roots
      BY DEF TypeOK, Busy
    <2>2. used \in [Roots -> Nat] /\ asked \in [Roots -> Nat] /\ MaxCalls \in Nat
      BY LedgerAssumption DEF TypeOK
    <2>3. CASE used' = used /\ asked' = asked
      BY <2>3 DEF Counted
    <2>4. ASSUME MaxCalls > 0, ~(used' = used /\ asked' = asked)
          PROVE  LET l == RootOf[NodeOf[c]] IN
                 /\ used[l] < MaxCalls
                 /\ used' = [used EXCEPT ![l] = @ + 1]
                 /\ asked' = [asked EXCEPT ![l] = @ + 1]
      BY <2>1, <2>2, <2>4
    <2>5. ASSUME MaxCalls > 0
          PROVE  \A r \in Roots : asked'[r] = used'[r] /\ used'[r] <= MaxCalls
      <3>1. \A r \in Roots : asked[r] = used[r] /\ used[r] <= MaxCalls
        BY <2>5 DEF Counted
      <3> HIDE DEF Inv, TakeBudget
      <3> QED BY <2>1, <2>2, <2>4, <2>5, <3>1
    <2> QED BY <2>5 DEF Counted
  <1> QED BY <1>1, <1>2, <1>3, <1>4, <1>5, <1>6, <1>7, <1>8, <1>9

LEMMA BackendFailsInv ==
    ASSUME Inv, NEW c \in Cells, BackendFails(c)
    PROVE  Inv' /\ Kept
  <1> USE NodesHaveRoots DEF Inv, BackendFails, Goto, evidence, search
  <1>1. TypeOK'
    BY DEF TypeOK
  <1>2. Busy'
    BY DEF TypeOK, Busy
  <1>3. Numbered'
    BY DEF TypeOK, Numbered, Ids
  <1>4. Fresh'
    BY DEF TypeOK, Fresh, Pending, Id, Ids
  <1>5. Distinct'
    BY DEF TypeOK, Distinct, Pending
  <1>6. Kept
    BY DEF TypeOK, Kept
  <1>7. ListsRecorded'
    BY <1>6, RecordedKept DEF TypeOK, ListsRecorded
  <1>8. FoundIsRecorded'
    BY <1>6, RecordedKept DEF TypeOK, FoundIsRecorded
  <1>9. Counted'
    BY DEF TypeOK, Counted
  <1> QED BY <1>1, <1>2, <1>3, <1>4, <1>5, <1>6, <1>7, <1>8, <1>9

LEMMA GetDocFailsInv ==
    ASSUME Inv, NEW c \in Cells, GetDocFails(c)
    PROVE  Inv' /\ Kept
  <1> USE NodesHaveRoots DEF Inv, GetDocFails, Goto, evidence, search
  <1>1. TypeOK'
    BY DEF TypeOK
  <1>2. Busy'
    BY DEF TypeOK, Busy
  <1>3. Numbered'
    BY DEF TypeOK, Numbered, Ids
  <1>4. Fresh'
    BY DEF TypeOK, Fresh, Pending, Id, Ids
  <1>5. Distinct'
    BY DEF TypeOK, Distinct, Pending
  <1>6. Kept
    BY DEF TypeOK, Kept
  <1>7. ListsRecorded'
    BY <1>6, RecordedKept DEF TypeOK, ListsRecorded
  <1>8. FoundIsRecorded'
    BY <1>6, RecordedKept DEF TypeOK, FoundIsRecorded
  <1>9. Counted'
    BY DEF TypeOK, Counted
  <1> QED BY <1>1, <1>2, <1>3, <1>4, <1>5, <1>6, <1>7, <1>8, <1>9

LEMMA MintInv ==
    ASSUME Inv, NEW c \in Cells, Mint(c)
    PROVE  Inv' /\ Kept
  <1> USE NodesHaveRoots DEF Inv, Mint, Goto, evidence, search, NextNumber
  <1>1. TypeOK'
    <2>1. sid' \in [Cells -> Nat] /\ counter' \in [Node -> Nat]
      <3>1. sid \in [Cells -> Nat] /\ counter \in [Node -> Nat] /\ NodeOf[c] \in Node
        BY DEF TypeOK
      <3>2. /\ sid' = [sid EXCEPT ![c] = counter[NodeOf[c]]]
            /\ counter' = [counter EXCEPT ![NodeOf[c]] = @ + 1]
        OBVIOUS
      <3> HIDE DEF Inv, Mint
      <3> QED BY <3>1, <3>2
    <2>2. /\ pc' \in [Cells -> {"idle", "budget", "backend", "mint", "surface", "record"}]
          /\ \A d \in Cells : pc'[d] \in {"mint", "surface", "record"} => todo[d] > 0
      BY DEF TypeOK
    <2> QED BY <2>1, <2>2 DEF TypeOK
  <1>2. Busy'
    BY DEF TypeOK, Busy
  <1>3. Numbered'
    <2>1. \A m \in Node : counter[m] <= counter'[m]
      BY DEF TypeOK
    <2>2. ASSUME NEW l \in Roots, NEW s \in snippets[l]
          PROVE  s.id[2] < counter'[s.id[1]] /\ RootOf[s.id[1]] = l
      <3>1. s.id[1] \in Node /\ s.id[2] \in Nat
        <4>1. snippets[l] \subseteq [id : Ids, hit : Cells]
          BY DEF TypeOK
        <4> HIDE DEF Inv, Mint
        <4> QED BY <4>1 DEF Ids
      <3>2. s.id[2] < counter[s.id[1]] /\ RootOf[s.id[1]] = l
        BY DEF Numbered
      <3>3. counter[s.id[1]] \in Nat /\ counter'[s.id[1]] \in Nat
        BY <1>1, <3>1 DEF TypeOK
      <3> HIDE DEF Inv, Mint
      <3> QED BY <3>1, <3>2, <3>3, <2>1
    <2> QED BY <2>2 DEF Numbered
  <1>4. Fresh'
    <2> SUFFICES ASSUME NEW d \in Cells, Pending(d)'
                 PROVE  /\ sid'[d] < counter'[NodeOf[d]]
                        /\ \A s \in snippets[RootOf[NodeOf[d]]] : s.id # Id(d)'
      BY DEF Fresh
    <2>1. CASE d = c
      <3>1. sid'[d] = counter[NodeOf[c]] /\ counter'[NodeOf[c]] = counter[NodeOf[c]] + 1
        BY <2>1 DEF TypeOK
      <3>2. ASSUME NEW s \in snippets[RootOf[NodeOf[d]]]
            PROVE  s.id # Id(d)'
        <4>1. s.id[1] \in Node /\ s.id[2] \in Nat
          <5>1. snippets[RootOf[NodeOf[d]]] \subseteq [id : Ids, hit : Cells]
            BY DEF TypeOK
          <5> HIDE DEF Inv, Mint
          <5> QED BY <5>1 DEF Ids
        <4>2. s.id[2] < counter[s.id[1]]
          BY DEF Numbered
        <4>3. Id(d)'[1] = NodeOf[c] /\ Id(d)'[2] = counter[NodeOf[c]]
          BY <2>1, <3>1 DEF Id
        <4>4. counter[NodeOf[c]] \in Nat
          BY DEF TypeOK
        <4> HIDE DEF Inv, Mint
        <4> QED BY <4>1, <4>2, <4>3, <4>4
      <3>3. counter[NodeOf[c]] \in Nat
        BY DEF TypeOK
      <3> HIDE DEF Inv, Mint
      <3> QED BY <2>1, <3>1, <3>2, <3>3
    <2>2. CASE d # c
      <3>1. Pending(d) /\ sid'[d] = sid[d]
        BY <2>2 DEF TypeOK, Pending
      <3> QED BY <3>1 DEF TypeOK, Fresh, Id
    <2> QED BY <2>1, <2>2
  <1>5. Distinct'
    <2>1. ASSUME NEW d \in Cells, d # c, Pending(d)', NodeOf[d] = NodeOf[c]
          PROVE  sid'[d] # sid'[c]
      <3>1. Pending(d) /\ sid'[d] = sid[d] /\ sid'[c] = counter[NodeOf[c]]
        BY <2>1 DEF TypeOK, Pending
      <3>2. sid[d] < counter[NodeOf[c]]
        BY <3>1, <2>1 DEF Fresh
      <3>3. sid[d] \in Nat /\ counter[NodeOf[c]] \in Nat
        BY DEF TypeOK
      <3> HIDE DEF Inv, Mint
      <3> QED BY <3>1, <3>2, <3>3
    <2>2. ASSUME NEW d \in Cells, d # c, Pending(d)'
          PROVE  Pending(d) /\ sid'[d] = sid[d]
      BY <2>2 DEF TypeOK, Pending
    <2> QED BY <2>1, <2>2 DEF Distinct
  <1>6. Kept
    BY DEF TypeOK, Kept
  <1>7. ListsRecorded'
    BY <1>6, RecordedKept DEF TypeOK, ListsRecorded
  <1>8. FoundIsRecorded'
    BY <1>6, RecordedKept DEF TypeOK, FoundIsRecorded
  <1>9. Counted'
    BY DEF TypeOK, Counted
  <1> QED BY <1>1, <1>2, <1>3, <1>4, <1>5, <1>6, <1>7, <1>8, <1>9

LEMMA SurfaceInv ==
    ASSUME Inv, NEW c \in Cells, Surface(c)
    PROVE  Inv' /\ Kept
  <1> USE NodesHaveRoots DEF Inv, Surface, Goto, evidence, search, Id
  <1>1. TypeOK'
    <2>1. Id(c) \in Ids /\ NodeOf[c] \in Node
      BY DEF TypeOK, Ids
    <2>2. surfaced' \in [Node -> Seq(Ids)]
      BY <2>1 DEF TypeOK
    <2>3. pc' = [pc EXCEPT ![c] = "record"] /\ todo[c] > 0
      BY DEF TypeOK
    <2> QED BY <2>2, <2>3 DEF TypeOK
  <1>2. Busy'
    BY DEF TypeOK, Busy
  <1>3. Numbered'
    BY DEF TypeOK, Numbered, Ids
  <1>4. Fresh'
    BY DEF TypeOK, Fresh, Pending, Id, Ids
  <1>5. Distinct'
    BY DEF TypeOK, Distinct, Pending
  <1>6. Kept
    BY DEF TypeOK, Kept
  <1>7. ListsRecorded'
    BY <1>6, RecordedKept DEF TypeOK, ListsRecorded
  <1>8. FoundIsRecorded'
    BY <1>6, RecordedKept DEF TypeOK, FoundIsRecorded
  <1>9. Counted'
    BY DEF TypeOK, Counted
  <1> QED BY <1>1, <1>2, <1>3, <1>4, <1>5, <1>6, <1>7, <1>8, <1>9

\* The id at hand is new to the ledger, so recording it replaces nothing.
LEMMA RecordAdds ==
    ASSUME Inv, NEW c \in Cells, Record(c)
    PROVE  snippets' = [snippets EXCEPT ![RootOf[NodeOf[c]]] =
                            @ \cup {[id |-> Id(c), hit |-> c]}]
  <1>1. ledgerOf[NodeOf[c]] = RootOf[NodeOf[c]] /\ RootOf[NodeOf[c]] \in Roots
    BY NodesHaveRoots DEF Record, Inv, TypeOK, Busy
  <1>2. {s \in snippets[RootOf[NodeOf[c]]] : s.id # Id(c)} = snippets[RootOf[NodeOf[c]]]
    BY DEF Record, Inv, Fresh, Pending
  <1> QED BY <1>1, <1>2 DEF Record, Inv, TypeOK, Entered

LEMMA RecordInv ==
    ASSUME Inv, NEW c \in Cells, Record(c)
    PROVE  Inv' /\ Kept
  <1> USE NodesHaveRoots DEF Inv, Record, Goto, evidence, search, Entered, Id
  <1>1. TypeOK'
    <2>1. snippets' = [snippets EXCEPT ![RootOf[NodeOf[c]]] =
                           @ \cup {[id |-> Id(c), hit |-> c]}]
      BY RecordAdds
    <2>2. Id(c) \in Ids /\ NodeOf[c] \in Node
      BY DEF TypeOK, Id, Ids
    <2>3. snippets' \in [Roots -> SUBSET [id : Ids, hit : Cells]]
      <3>1. snippets \in [Roots -> SUBSET [id : Ids, hit : Cells]]
        BY DEF TypeOK
      <3>2. RootOf[NodeOf[c]] \in Roots
        OBVIOUS
      <3> HIDE DEF Inv, Record, Id
      <3> QED BY <2>1, <2>2, <3>1, <3>2
    <2>4. results' \in [Cells -> SUBSET Ids] /\ found' \in [Node -> SUBSET Ids]
      <3>1. results[c] \cup {Id(c)} \in SUBSET Ids
        BY <2>2 DEF TypeOK
      <3>2. found[NodeOf[c]] \cup (results[c] \cup {Id(c)}) \in SUBSET Ids
        BY <2>2, <3>1 DEF TypeOK
      <3>3. found' = found \/ found' = [found EXCEPT ![NodeOf[c]] =
                                          @ \cup (results[c] \cup {Id(c)})]
        OBVIOUS
      <3>4. /\ results' = [results EXCEPT ![c] = @ \cup {Id(c)}]
            /\ results \in [Cells -> SUBSET Ids] /\ found \in [Node -> SUBSET Ids]
        BY DEF TypeOK
      <3> HIDE DEF Inv, Record, Id
      <3> QED BY <3>1, <3>2, <3>3, <3>4
    <2>5. pc' = [pc EXCEPT ![c] = IF todo[c] = 1 THEN "idle" ELSE "mint"]
      OBVIOUS
    <2>6. todo[c] \in 1..MaxHits /\ MaxHits \in Nat /\ todo' = [todo EXCEPT ![c] = @ - 1]
      BY LedgerAssumption DEF TypeOK
    <2>8. todo \in [Cells -> 0..MaxHits] /\ pc \in [Cells -> {"idle", "budget", "backend",
                                                            "mint", "surface", "record"}]
      BY DEF TypeOK
    <2>9. \A d \in Cells : pc[d] \in {"mint", "surface", "record"} => todo[d] > 0
      BY DEF TypeOK
    <2>7. /\ todo' \in [Cells -> 0..MaxHits]
          /\ pc' \in [Cells -> {"idle", "budget", "backend", "mint", "surface", "record"}]
          /\ \A d \in Cells : pc'[d] \in {"mint", "surface", "record"} => todo'[d] > 0
      <3> HIDE DEF Inv, Record
      <3> QED BY <2>5, <2>6, <2>8, <2>9
    <2> QED BY <2>3, <2>4, <2>7 DEF TypeOK
  <1>2. Busy'
    BY DEF TypeOK, Busy
  <1>3. Numbered'
    <2>1. snippets' = [snippets EXCEPT ![RootOf[NodeOf[c]]] =
                           @ \cup {[id |-> Id(c), hit |-> c]}]
      BY RecordAdds
    <2>2. Id(c)[2] < counter[Id(c)[1]] /\ Id(c)[1] = NodeOf[c]
      BY DEF Id, Fresh, Pending
    <2>3. ASSUME NEW l \in Roots, NEW s \in snippets'[l]
          PROVE  s.id[2] < counter[s.id[1]] /\ RootOf[s.id[1]] = l
      <3>1. s \in snippets[l] \/ (l = RootOf[NodeOf[c]] /\ s.id = Id(c))
        <4>1. snippets \in [Roots -> SUBSET [id : Ids, hit : Cells]]
          BY DEF TypeOK
        <4> HIDE DEF Inv, Record, Id
        <4> QED BY <2>1, <2>3, <4>1
      <3> QED BY <2>2, <3>1 DEF Numbered
    <2> QED BY <2>3 DEF Numbered
  <1>4. Fresh'
    <2>1. snippets' = [snippets EXCEPT ![RootOf[NodeOf[c]]] =
                           @ \cup {[id |-> Id(c), hit |-> c]}]
      BY RecordAdds
    <2>2. ASSUME NEW d \in Cells, Pending(d)'
          PROVE  d # c /\ Pending(d)
      BY <2>2 DEF TypeOK, Pending
    <2>3. ASSUME NEW d \in Cells, Pending(d)', NEW s \in snippets'[RootOf[NodeOf[d]]]
          PROVE  s.id # Id(d)
      <3>1. s \in snippets[RootOf[NodeOf[d]]] \/ s.id = Id(c)
        <4>1. snippets \in [Roots -> SUBSET [id : Ids, hit : Cells]]
          BY DEF TypeOK
        <4> HIDE DEF Inv, Record, Id
        <4> QED BY <2>1, <2>3, <4>1
      <3>2. CASE s.id = Id(c)
        <4>1. Pending(c) /\ Pending(d) /\ d # c
          BY <2>2, <2>3 DEF Pending
        <4> QED BY <3>2, <4>1 DEF Distinct, Id
      <3> QED BY <2>2, <2>3, <3>1, <3>2 DEF Fresh
    <2> QED BY <2>2, <2>3 DEF Fresh, Id
  <1>5. Distinct'
    BY DEF TypeOK, Distinct, Pending
  <1>6. Kept
    <2>1. snippets' = [snippets EXCEPT ![RootOf[NodeOf[c]]] =
                           @ \cup {[id |-> Id(c), hit |-> c]}]
      BY RecordAdds
    <2>2. snippets \in [Roots -> SUBSET [id : Ids, hit : Cells]]
      BY DEF TypeOK
    <2> HIDE DEF Inv, Record, Id
    <2> QED BY <2>1, <2>2 DEF Kept
  <1>7. ListsRecorded'
    <2>1. snippets' = [snippets EXCEPT ![RootOf[NodeOf[c]]] =
                           @ \cup {[id |-> Id(c), hit |-> c]}]
      BY RecordAdds
    <2>2. Id(c) \in Recorded(RootOf[NodeOf[c]])'
      <3>1. snippets \in [Roots -> SUBSET [id : Ids, hit : Cells]] /\ RootOf[NodeOf[c]] \in Roots
        BY DEF TypeOK
      <3> HIDE DEF Inv, Record, Id
      <3>2. [id |-> Id(c), hit |-> c] \in snippets'[RootOf[NodeOf[c]]]
        BY <2>1, <3>1
      <3> QED BY <3>2 DEF Recorded
    <2>3. results[c] \cup {Id(c)} \subseteq Recorded(RootOf[NodeOf[c]])'
      <3>1. results[c] \subseteq Recorded(RootOf[NodeOf[c]])
        BY DEF ListsRecorded
      <3> HIDE DEF Inv, Record, Id
      <3> QED BY <2>2, <3>1, <1>6, RecordedKept
    <2>4. results' = [results EXCEPT ![c] = @ \cup {Id(c)}] /\ results \in [Cells -> SUBSET Ids]
      BY DEF TypeOK
    <2>5. \A d \in Cells : results[d] \subseteq Recorded(RootOf[NodeOf[d]])'
      BY <1>6, RecordedKept DEF ListsRecorded
    <2> HIDE DEF Inv, Record, Id
    <2> QED BY <2>3, <2>4, <2>5 DEF ListsRecorded
  <1>8. FoundIsRecorded'
    <2>1. snippets' = [snippets EXCEPT ![RootOf[NodeOf[c]]] =
                           @ \cup {[id |-> Id(c), hit |-> c]}]
      BY RecordAdds
    <2>2. Id(c) \in Recorded(RootOf[NodeOf[c]])'
      <3>1. snippets \in [Roots -> SUBSET [id : Ids, hit : Cells]] /\ RootOf[NodeOf[c]] \in Roots
        BY DEF TypeOK
      <3> HIDE DEF Inv, Record, Id
      <3>2. [id |-> Id(c), hit |-> c] \in snippets'[RootOf[NodeOf[c]]]
        BY <2>1, <3>1
      <3> QED BY <3>2 DEF Recorded
    <2>3. results[c] \cup {Id(c)} \subseteq Recorded(RootOf[NodeOf[c]])'
      <3>1. results[c] \subseteq Recorded(RootOf[NodeOf[c]])
        BY DEF ListsRecorded
      <3> HIDE DEF Inv, Record, Id
      <3> QED BY <2>2, <3>1, <1>6, RecordedKept
    <2>4. \/ found' = found
          \/ found' = [found EXCEPT ![NodeOf[c]] = @ \cup (results[c] \cup {Id(c)})]
      OBVIOUS
    <2>5. \A m \in Node : found[m] \subseteq Recorded(RootOf[m])'
      BY <1>6, RecordedKept DEF FoundIsRecorded
    <2>6. found \in [Node -> SUBSET Ids]
      BY DEF TypeOK
    <2> HIDE DEF Inv, Record, Id
    <2> QED BY <2>3, <2>4, <2>5, <2>6 DEF FoundIsRecorded
  <1>9. Counted'
    BY DEF TypeOK, Counted
  <1> QED BY <1>1, <1>2, <1>3, <1>4, <1>5, <1>6, <1>7, <1>8, <1>9

LEMMA BackendAnswersInv ==
    ASSUME Inv, NEW c \in Cells, NEW hits \in 0..MaxHits, BackendAnswers(c, hits)
    PROVE  Inv' /\ Kept
  <1> USE NodesHaveRoots DEF Inv, BackendAnswers, Goto, evidence, search
  <1>1. TypeOK'
    BY DEF TypeOK
  <1>2. Busy'
    BY DEF TypeOK, Busy
  <1>3. Numbered'
    BY DEF TypeOK, Numbered, Ids
  <1>4. Fresh'
    BY DEF TypeOK, Fresh, Pending, Id, Ids
  <1>5. Distinct'
    BY DEF TypeOK, Distinct, Pending
  <1>6. Kept
    BY DEF TypeOK, Kept
  <1>7. ListsRecorded'
    BY <1>6, RecordedKept DEF TypeOK, ListsRecorded
  <1>8. FoundIsRecorded'
    BY <1>6, RecordedKept DEF TypeOK, FoundIsRecorded
  <1>9. Counted'
    BY DEF TypeOK, Counted
  <1> QED BY <1>1, <1>2, <1>3, <1>4, <1>5, <1>6, <1>7, <1>8, <1>9

LEMMA StepInv ==
    ASSUME Inv, [Next]_vars
    PROVE  Inv' /\ Kept
  <1>1. CASE UNCHANGED vars
    BY <1>1
    DEF vars, evidence, search, Inv, TypeOK, Busy, Numbered, Fresh, Distinct,
        ListsRecorded, FoundIsRecorded, Counted, Pending, Id, Recorded, Kept
  <1>2. ASSUME NEW n \in Node, StartNode(n)
        PROVE  Inv' /\ Kept
    BY <1>2, StartNodeInv
  <1>3. ASSUME NEW n \in Node, NEW invented \in SUBSET MadeUp,
               \/ Finish(n, found[n] \cup invented, {})
               \/ Finish(n, {}, found[n] \cup invented)
        PROVE  Inv' /\ Kept
    <2>1. MadeUp \subseteq Ids
      BY LedgerAssumption DEF Node, Ids
    <2>2. found[n] \cup invented \in SUBSET Ids /\ {} \in SUBSET Ids
      BY <2>1 DEF Inv, TypeOK
    <2> QED BY <1>3, <2>2, FinishInv
  <1>4. ASSUME NEW c \in Children, HandOver(c)
        PROVE  Inv' /\ Kept
    BY <1>4, HandOverInv
  <1>5. ASSUME NEW c \in Cells, SearchStep(c)
        PROVE  Inv' /\ Kept
    BY <1>5, SearchBeginInv, TakeBudgetInv, BackendFailsInv, GetDocFailsInv,
       BackendAnswersInv, MintInv, SurfaceInv, RecordInv
    DEF SearchStep
  <1> QED BY <1>1, <1>2, <1>3, <1>4, <1>5 DEF Next

LEMMA InvHolds == Spec => []Inv /\ [][Kept]_vars
  <1>1. Inv /\ [Next]_vars => Inv' /\ Kept
    BY StepInv
  <1> QED BY <1>1, InitInv, PTL DEF Spec

\* The variables keep their types and every node that has started uses the
\* ledger of its own tree, whatever calls whom.
THEOREM LedgerTypeCorrect == Spec => []TypeOK
  <1>1. Inv => TypeOK
    BY DEF Inv
  <1> QED BY <1>1, InvHolds, PTL

\* An id that a search returned can be looked up in the ledger of the tree by
\* every node it reaches in reports, whichever cells are still searching and
\* whatever ids the reports make up.
THEOREM FoundIdsAreRecorded == Spec => []FoundIsRecorded
  <1>1. Inv => FoundIsRecorded
    BY DEF Inv
  <1> QED BY <1>1, InvHolds, PTL

\* However many nodes and threads search at once, a tree sends the backend no
\* more searches than its budget; documents it fetches are not counted.
THEOREM SearchesKeepToBudget == Spec => []BudgetKept
  <1>1. Inv => BudgetKept
    BY DEF Inv, Counted, BudgetKept
  <1> QED BY <1>1, InvHolds, PTL

\* Ids are never reused: what stands under an id stays there.
THEOREM EvidenceNeverReplaced == Spec => EvidenceIsStable
  <1>1. Kept <=> \A l \in Roots : snippets[l] \subseteq snippets'[l]
    BY DEF Kept
  <1> QED BY <1>1, InvHolds, PTL DEF EvidenceIsStable

-----------------------------------------------------------------------------
\* The cell that stands between minting <<n, k>> and listing it.
Surfacing(c, n, k) == pc[c] = "surface" /\ NodeOf[c] = n /\ sid[c] = k

\* Where a minted id is: recorded or about to be, and listed or about to be.
Placed ==
    \A n \in Node : \A k \in 0..(counter[n] - 1) :
        /\ \/ <<n, k>> \in Recorded(RootOf[n])
           \/ \E c \in Cells : Pending(c) /\ NodeOf[c] = n /\ sid[c] = k
        /\ \/ \E j \in DOMAIN surfaced[n] : surfaced[n][j] = <<n, k>>
           \/ \E c \in Cells : Surfacing(c, n, k)

\* surfaced_ids holds minted ids only, once each, and not before their turn.
Listed ==
    \A n \in Node : \A j \in DOMAIN surfaced[n] :
        /\ surfaced[n][j] \in {n} \X (0..(counter[n] - 1))
        /\ \A m \in DOMAIN surfaced[n] : surfaced[n][j] = surfaced[n][m] => j = m
        /\ \A c \in Cells : pc[c] = "surface" /\ NodeOf[c] = n => surfaced[n][j] # Id(c)

\* Steps that mint, list and record nothing keep every id where it is.
LEMMA ElsewhereKept ==
    ASSUME Placed, Listed, UNCHANGED <<snippets, counter, surfaced, sid>>,
           \A c \in Cells : (pc'[c] = "surface" <=> pc[c] = "surface")
                            /\ (pc'[c] = "record" <=> pc[c] = "record")
    PROVE  Placed' /\ Listed'
  <1>1. Placed'
    <2>1. \A c \in Cells : Pending(c)' <=> Pending(c)
      BY DEF Pending
    <2>2. \A l : Recorded(l)' = Recorded(l)
      BY DEF Recorded
    <2> SUFFICES ASSUME NEW n \in Node, NEW k \in (0..(counter[n] - 1))'
                 PROVE  /\ \/ <<n, k>> \in Recorded(RootOf[n])'
                           \/ \E c \in Cells : Pending(c)' /\ NodeOf[c] = n /\ sid'[c] = k
                        /\ \/ \E j \in DOMAIN surfaced'[n] : surfaced'[n][j] = <<n, k>>
                           \/ \E c \in Cells : Surfacing(c, n, k)'
      BY Zenon DEF Placed
    <2>0. k \in 0..(counter[n] - 1)
      OBVIOUS
    <2>3. \A c \in Cells : Surfacing(c, n, k)' <=> Surfacing(c, n, k)
      BY DEF Surfacing
    <2>4. /\ \/ <<n, k>> \in Recorded(RootOf[n])
             \/ \E c \in Cells : Pending(c) /\ NodeOf[c] = n /\ sid[c] = k
          /\ \/ \E j \in DOMAIN surfaced[n] : surfaced[n][j] = <<n, k>>
             \/ \E c \in Cells : Surfacing(c, n, k)
      BY <2>0 DEF Placed
    <2> QED BY <2>1, <2>2, <2>3, <2>4
  <1>2. Listed'
    BY DEF Listed, Id
  <1> QED BY <1>1, <1>2

LEMMA MintPlaces ==
    ASSUME Inv, Placed, Listed, NEW c \in Cells, Mint(c)
    PROVE  Placed' /\ Listed'
  <1> DEFINE n == NodeOf[c]
  <1>1. /\ n \in Node /\ counter \in [Node -> Nat] /\ sid \in [Cells -> Nat]
        /\ pc \in [Cells -> {"idle", "budget", "backend", "mint", "surface", "record"}]
        /\ surfaced \in [Node -> Seq(Ids)]
    BY NodesHaveRoots DEF Inv, TypeOK
  <1>2. /\ pc[c] = "mint" /\ pc' = [pc EXCEPT ![c] = "surface"]
        /\ sid' = [sid EXCEPT ![c] = counter[n]]
        /\ counter' = [counter EXCEPT ![n] = @ + 1]
        /\ UNCHANGED <<snippets, surfaced>>
    BY DEF Mint, NextNumber, Goto
  <1>3. \A d \in Cells : d # c => pc'[d] = pc[d] /\ sid'[d] = sid[d]
    BY <1>1, <1>2
  <1>4. pc'[c] = "surface" /\ sid'[c] = counter[n]
    BY <1>1, <1>2
  <1> HIDE DEF n
  <1>5. ASSUME NEW m \in Node, NEW k \in 0..(counter'[m] - 1)
        PROVE  (m = n /\ k = counter[n]) \/ k \in 0..(counter[m] - 1)
    BY <1>1, <1>2
  <1>6. Placed'
    <2> SUFFICES ASSUME NEW m \in Node, NEW k \in 0..(counter'[m] - 1)
                 PROVE  /\ \/ <<m, k>> \in Recorded(RootOf[m])'
                           \/ \E d \in Cells : Pending(d)' /\ NodeOf[d] = m /\ sid'[d] = k
                        /\ \/ \E j \in DOMAIN surfaced'[m] : surfaced'[m][j] = <<m, k>>
                           \/ \E d \in Cells : Surfacing(d, m, k)'
      BY DEF Placed
    <2>1. CASE m = n /\ k = counter[n]
      BY <2>1, <1>4 DEF n, Pending, Surfacing
    <2>2. CASE k \in 0..(counter[m] - 1)
      <3>1. <<m, k>> \in Recorded(RootOf[m])
            \/ \E d \in Cells : Pending(d) /\ NodeOf[d] = m /\ sid[d] = k
        BY <2>2 DEF Placed
      <3>2. (\E j \in DOMAIN surfaced[m] : surfaced[m][j] = <<m, k>>)
            \/ \E d \in Cells : Surfacing(d, m, k)
        BY <2>2 DEF Placed
      <3>3. \A d \in Cells : Pending(d) \/ pc[d] = "surface" => d # c
        BY <1>2 DEF Pending
      <3>4. <<m, k>> \in Recorded(RootOf[m])'
            \/ \E d \in Cells : Pending(d)' /\ NodeOf[d] = m /\ sid'[d] = k
        BY <3>1, <3>3, <1>2, <1>3 DEF Pending, Recorded
      <3>5. (\E j \in DOMAIN surfaced'[m] : surfaced'[m][j] = <<m, k>>)
            \/ \E d \in Cells : Surfacing(d, m, k)'
        BY <3>2, <3>3, <1>2, <1>3 DEF Surfacing
      <3> QED BY <3>4, <3>5
    <2> QED BY <2>1, <2>2, <1>5
  <1>7. Listed'
    <2> SUFFICES ASSUME NEW m \in Node, NEW j \in DOMAIN surfaced[m]
                 PROVE  /\ surfaced[m][j] \in {m} \X (0..(counter'[m] - 1))
                        /\ \A l \in DOMAIN surfaced[m] : surfaced[m][j] = surfaced[m][l] => j = l
                        /\ \A d \in Cells : pc'[d] = "surface" /\ NodeOf[d] = m
                                                => surfaced[m][j] # Id(d)'
      BY <1>2 DEF Listed
    <2>1. /\ surfaced[m][j] \in {m} \X (0..(counter[m] - 1))
          /\ \A l \in DOMAIN surfaced[m] : surfaced[m][j] = surfaced[m][l] => j = l
      BY DEF Listed
    <2>2. 0..(counter[m] - 1) \subseteq 0..(counter'[m] - 1)
      BY <1>1, <1>2
    <2>3. ASSUME NEW d \in Cells, pc'[d] = "surface", NodeOf[d] = m
          PROVE  surfaced[m][j] # Id(d)'
      <3>1. CASE d = c
        <4>1. Id(d)' = <<m, counter[m]>>
          BY <3>1, <2>3, <1>4 DEF Id, n
        <4>2. counter[m] \notin 0..(counter[m] - 1)
          BY <1>1
        <4> QED BY <4>1, <4>2, <2>1
      <3>2. CASE d # c
        BY <3>2, <2>3, <1>3 DEF Id, Listed
      <3> QED BY <3>1, <3>2
    <2> QED BY <2>1, <2>2, <2>3
  <1> QED BY <1>6, <1>7

LEMMA SurfacePlaces ==
    ASSUME Inv, Placed, Listed, NEW c \in Cells, Surface(c)
    PROVE  Placed' /\ Listed'
  <1> DEFINE n == NodeOf[c]
             k0 == sid[c]
  <1>1. /\ n \in Node /\ counter \in [Node -> Nat] /\ k0 \in Nat
        /\ pc \in [Cells -> {"idle", "budget", "backend", "mint", "surface", "record"}]
        /\ surfaced \in [Node -> Seq(Ids)]
    BY NodesHaveRoots DEF Inv, TypeOK
  <1>2. /\ pc[c] = "surface" /\ pc' = [pc EXCEPT ![c] = "record"]
        /\ surfaced' = [surfaced EXCEPT ![n] = Append(@, <<n, k0>>)]
        /\ UNCHANGED <<snippets, counter, sid>>
    BY DEF Surface, Goto, Id
  <1>3. \A d \in Cells : d # c => pc'[d] = pc[d]
    BY <1>1, <1>2
  <1>4. k0 < counter[n] /\ <<n, k0>> \in Ids
    BY <1>1, <1>2 DEF Inv, Fresh, Pending, Ids
  <1>5. \A d \in Cells : d # c /\ pc[d] = "surface" /\ NodeOf[d] = n => sid[d] # k0
    BY <1>2 DEF Inv, Distinct, Pending
  <1>6. \A j \in DOMAIN surfaced[n] : surfaced[n][j] # <<n, k0>>
    BY <1>1, <1>2 DEF Listed, Id
  <1>7. pc'[c] = "record"
    BY <1>1, <1>2
  <1>10. \A d \in Cells : Id(d) = <<NodeOf[d], sid[d]>> /\ Id(d)' = Id(d)
    BY <1>2 DEF Id
  <1>11. Id(c) = <<n, k0>>
    BY DEF Id
  <1> HIDE DEF n, k0
  <1>8. /\ DOMAIN surfaced'[n] = 1..(Len(surfaced[n]) + 1)
        /\ DOMAIN surfaced[n] = 1..Len(surfaced[n]) /\ Len(surfaced[n]) \in Nat
        /\ surfaced'[n][Len(surfaced[n]) + 1] = <<n, k0>>
        /\ \A j \in DOMAIN surfaced[n] : surfaced'[n][j] = surfaced[n][j]
        /\ \A m \in Node : m # n => surfaced'[m] = surfaced[m]
    BY <1>1, <1>2, <1>4
  <1>9. Placed'
    <2> SUFFICES ASSUME NEW m \in Node, NEW k \in 0..(counter'[m] - 1)
                 PROVE  /\ \/ <<m, k>> \in Recorded(RootOf[m])'
                           \/ \E d \in Cells : Pending(d)' /\ NodeOf[d] = m /\ sid'[d] = k
                        /\ \/ \E j \in DOMAIN surfaced'[m] : surfaced'[m][j] = <<m, k>>
                           \/ \E d \in Cells : Surfacing(d, m, k)'
      BY DEF Placed
    <2>0. k \in 0..(counter[m] - 1)
      BY <1>2
    <2>1. <<m, k>> \in Recorded(RootOf[m])'
          \/ \E d \in Cells : Pending(d)' /\ NodeOf[d] = m /\ sid'[d] = k
      <3>1. \A d \in Cells : Pending(d) => Pending(d)'
        BY <1>3, <1>7 DEF Pending
      <3>2. Recorded(RootOf[m])' = Recorded(RootOf[m]) /\ sid' = sid
        BY <1>2 DEF Recorded
      <3> QED BY <2>0, <3>1, <3>2 DEF Placed
    <2>2. CASE m = n /\ k = k0
      BY <2>2, <2>1, <1>8
    <2>3. CASE ~(m = n /\ k = k0)
      <3>1. (\E j \in DOMAIN surfaced[m] : surfaced[m][j] = <<m, k>>)
            \/ \E d \in Cells : Surfacing(d, m, k)
        BY <2>0 DEF Placed
      <3>2. CASE \E j \in DOMAIN surfaced[m] : surfaced[m][j] = <<m, k>>
        BY <3>2, <2>1, <1>8
      <3>3. CASE \E d \in Cells : Surfacing(d, m, k)
        <4>1. PICK d \in Cells : Surfacing(d, m, k)
          BY <3>3
        <4>2. d # c
          BY <4>1, <2>3 DEF Surfacing, n, k0
        <4>3. Surfacing(d, m, k)'
          BY <4>1, <4>2, <1>2, <1>3 DEF Surfacing
        <4> QED BY <4>3, <2>1
      <3> QED BY <3>1, <3>2, <3>3
    <2> QED BY <2>2, <2>3
  <1>12. Listed'
    <2> SUFFICES ASSUME NEW m \in Node, NEW j \in DOMAIN surfaced'[m]
                 PROVE  /\ surfaced'[m][j] \in {m} \X (0..(counter'[m] - 1))
                        /\ \A l \in DOMAIN surfaced'[m] :
                               surfaced'[m][j] = surfaced'[m][l] => j = l
                        /\ \A d \in Cells : pc'[d] = "surface" /\ NodeOf[d] = m
                                                => surfaced'[m][j] # Id(d)'
      BY DEF Listed
    <2>3. /\ \A i \in DOMAIN surfaced[m] : surfaced[m][i] \in {m} \X (0..(counter[m] - 1))
          /\ \A i, l \in DOMAIN surfaced[m] : surfaced[m][i] = surfaced[m][l] => i = l
      BY DEF Listed
    <2>4. \A i \in DOMAIN surfaced[m] : \A d \in Cells :
              pc[d] = "surface" /\ NodeOf[d] = m => surfaced[m][i] # Id(d)
      BY DEF Listed
    <2>5. counter' = counter
      BY <1>2
    <2>1. CASE m # n
      <3>1. surfaced'[m] = surfaced[m]
        BY <2>1, <1>8
      <3>2. \A d \in Cells : pc'[d] = "surface" => pc[d] = "surface"
        BY <1>3, <1>7
      <3> QED BY <3>1, <3>2, <1>10, <2>3, <2>4, <2>5
    <2>2. CASE m = n
      <3>0. ASSUME NEW i \in DOMAIN surfaced'[n]
            PROVE  \/ i \in DOMAIN surfaced[n] /\ surfaced'[n][i] = surfaced[n][i]
                   \/ i = Len(surfaced[n]) + 1 /\ surfaced'[n][i] = <<n, k0>>
        BY <1>8
      <3>1. surfaced'[n][j] \in {n} \X (0..(counter[n] - 1))
        <4>1. k0 \in 0..(counter[n] - 1)
          BY <1>1, <1>4
        <4>2. <<n, k0>> \in {n} \X (0..(counter[n] - 1))
          BY <4>1
        <4> QED BY <4>2, <2>2, <2>3, <3>0
      <3>2. ASSUME NEW l \in DOMAIN surfaced'[n], surfaced'[n][j] = surfaced'[n][l]
            PROVE  j = l
        BY <3>0, <3>2, <2>2, <2>3, <1>6
      <3>3. ASSUME NEW d \in Cells, pc'[d] = "surface", NodeOf[d] = n
            PROVE  surfaced'[n][j] # Id(d)'
        <4>1. d # c /\ pc[d] = "surface" /\ Id(d)' = Id(d) /\ Id(d) = <<n, sid[d]>>
          BY <3>3, <1>3, <1>7, <1>10
        <4>2. sid[d] # k0
          BY <4>1, <3>3, <1>5
        <4>3. \A i \in DOMAIN surfaced[n] : surfaced[n][i] # Id(d)
          BY <4>1, <3>3, <2>2, <2>4
        <4> QED BY <4>1, <4>2, <4>3, <3>0, <2>2
      <3> QED BY <2>2, <2>5, <3>1, <3>2, <3>3
    <2> QED BY <2>1, <2>2
  <1> QED BY <1>9, <1>12

LEMMA RecordPlaces ==
    ASSUME Inv, Placed, Listed, NEW c \in Cells, Record(c)
    PROVE  Placed' /\ Listed'
  <1>1. /\ NodeOf[c] \in Node /\ RootOf[NodeOf[c]] \in Roots
        /\ pc \in [Cells -> {"idle", "budget", "backend", "mint", "surface", "record"}]
        /\ snippets \in [Roots -> SUBSET [id : Ids, hit : Cells]]
    BY NodesHaveRoots DEF Inv, TypeOK
  <1>2. /\ pc[c] = "record" /\ pc' = [pc EXCEPT ![c] = IF todo[c] = 1 THEN "idle" ELSE "mint"]
        /\ UNCHANGED <<surfaced, counter, sid>>
    BY DEF Record, Goto
  <1>3. snippets' = [snippets EXCEPT ![RootOf[NodeOf[c]]] =
                         @ \cup {[id |-> Id(c), hit |-> c]}]
    BY RecordAdds
  <1>4. /\ \A d \in Cells : d # c => pc'[d] = pc[d]
        /\ \A d \in Cells : pc'[d] = "surface" <=> pc[d] = "surface"
    BY <1>1, <1>2
  <1>5. <<NodeOf[c], sid[c]>> \in Recorded(RootOf[NodeOf[c]])'
    <2>1. [id |-> Id(c), hit |-> c] \in snippets'[RootOf[NodeOf[c]]]
      BY <1>1, <1>3
    <2> QED BY <2>1 DEF Recorded, Id
  <1>6. \A l \in Roots : Recorded(l) \subseteq Recorded(l)'
    BY <1>1, <1>3 DEF Recorded
  <1>7. Placed'
    <2> SUFFICES ASSUME NEW m \in Node, NEW k \in 0..(counter'[m] - 1)
                 PROVE  /\ \/ <<m, k>> \in Recorded(RootOf[m])'
                           \/ \E d \in Cells : Pending(d)' /\ NodeOf[d] = m /\ sid'[d] = k
                        /\ \/ \E j \in DOMAIN surfaced'[m] : surfaced'[m][j] = <<m, k>>
                           \/ \E d \in Cells : Surfacing(d, m, k)'
      BY DEF Placed
    <2>0. k \in 0..(counter[m] - 1) /\ sid' = sid /\ surfaced' = surfaced
      BY <1>2
    <2>1. (\E j \in DOMAIN surfaced'[m] : surfaced'[m][j] = <<m, k>>)
          \/ \E d \in Cells : Surfacing(d, m, k)'
      <3>1. \A d \in Cells : Surfacing(d, m, k)' <=> Surfacing(d, m, k)
        BY <1>2, <1>4 DEF Surfacing
      <3> QED BY <2>0, <3>1 DEF Placed
    <2>2. CASE <<m, k>> \in Recorded(RootOf[m])
      BY <2>1, <2>2, <1>6, NodesHaveRoots
    <2>3. CASE \E d \in Cells : Pending(d) /\ NodeOf[d] = m /\ sid[d] = k
      <3>1. PICK d \in Cells : Pending(d) /\ NodeOf[d] = m /\ sid[d] = k
        BY <2>3
      <3>2. CASE d = c
        BY <3>1, <3>2, <2>0, <2>1, <1>5
      <3>3. CASE d # c
        <4>1. Pending(d)'
          BY <3>1, <3>3, <1>4 DEF Pending
        <4> QED BY <4>1, <3>1, <2>0, <2>1
      <3> QED BY <3>2, <3>3
    <2> QED BY <2>0, <2>2, <2>3 DEF Placed
  <1>8. Listed'
    BY <1>2, <1>4 DEF Listed, Id
  <1> QED BY <1>7, <1>8

LEMMA PlacedHolds == Spec => [](Inv /\ Placed /\ Listed)
  <1>1. Init => Placed /\ Listed
    <2> SUFFICES ASSUME Init PROVE Placed /\ Listed
      OBVIOUS
    <2>1. \A n \in Node : 0..(counter[n] - 1) = {} /\ DOMAIN surfaced[n] = {}
      BY DEF Init
    <2> QED BY <2>1 DEF Placed, Listed
  <1>2. Inv /\ Placed /\ Listed /\ [Next]_vars => Placed' /\ Listed'
    <2> SUFFICES ASSUME Inv, Placed, Listed, [Next]_vars
                 PROVE  Placed' /\ Listed'
      OBVIOUS
    <2> USE DEF evidence, search
    <2>1. CASE UNCHANGED vars
      BY <2>1, ElsewhereKept DEF vars
    <2>2. ASSUME NEW n \in Node, \/ StartNode(n)
                                 \/ \E invented \in SUBSET MadeUp :
                                       \/ Finish(n, found[n] \cup invented, {})
                                       \/ Finish(n, {}, found[n] \cup invented)
          PROVE  Placed' /\ Listed'
      BY <2>2, ElsewhereKept DEF StartNode, Finish
    <2>3. ASSUME NEW c \in Children, HandOver(c)
          PROVE  Placed' /\ Listed'
      BY <2>3, ElsewhereKept DEF HandOver
    <2>4. ASSUME NEW c \in Cells,
                 \/ SearchBegin(c) \/ TakeBudget(c) \/ BackendFails(c) \/ GetDocFails(c)
                 \/ \E hits \in 0..MaxHits : BackendAnswers(c, hits)
          PROVE  Placed' /\ Listed'
      <3>1. UNCHANGED <<snippets, counter, surfaced, sid>>
        BY <2>4 DEF SearchBegin, TakeBudget, BackendFails, GetDocFails, BackendAnswers
      <3>2. \E at \in {"idle", "budget", "backend", "mint"} :
                pc[c] \in {"idle", "budget", "backend", "mint"} /\ pc' = [pc EXCEPT ![c] = at]
        <4>1. pc = [pc EXCEPT ![c] = pc[c]]
          BY DEF Inv, TypeOK
        <4> QED BY <2>4, <4>1
            DEF SearchBegin, TakeBudget, BackendFails, GetDocFails, BackendAnswers, Goto
      <3>3. \A d \in Cells : (pc'[d] = "surface" <=> pc[d] = "surface")
                             /\ (pc'[d] = "record" <=> pc[d] = "record")
        BY <3>2 DEF Inv, TypeOK
      <3> QED BY <3>1, <3>3, ElsewhereKept
    <2>5. ASSUME NEW c \in Cells, Mint(c) \/ Surface(c) \/ Record(c)
          PROVE  Placed' /\ Listed'
      BY <2>5, MintPlaces, SurfacePlaces, RecordPlaces
    <2> QED BY <2>1, <2>2, <2>3, <2>4, <2>5 DEF Next, SearchStep
  <1> QED BY <1>1, <1>2, InvHolds, PTL DEF Spec

\* A list that has <<n, 0>> .. <<n, N - 1>> once each has N entries.
LEMMA ListLength ==
    ASSUME NEW n \in Node, NEW s \in Seq(Ids), NEW N \in Nat,
           \A j \in DOMAIN s : s[j] \in {n} \X (0..(N - 1)),
           \A j, m \in DOMAIN s : s[j] = s[m] => j = m,
           \A k \in 0..(N - 1) : \E j \in DOMAIN s : s[j] = <<n, k>>
    PROVE  Len(s) = N
  <1> DEFINE f == [j \in 1..Len(s) |-> s[j][2] + 1]
  <1>1. DOMAIN s = 1..Len(s) /\ Len(s) \in Nat
    OBVIOUS
  <1>2. \A j \in 1..Len(s) : s[j][2] \in 0..(N - 1) /\ s[j] = <<n, s[j][2]>>
    BY <1>1
  <1>3. f \in [1..Len(s) -> 1..N]
    BY <1>2
  <1>4. \A j, m \in 1..Len(s) : f[j] = f[m] => j = m
    <2> SUFFICES ASSUME NEW j \in 1..Len(s), NEW m \in 1..Len(s), f[j] = f[m]
                 PROVE  j = m
      OBVIOUS
    <2>1. s[j][2] = s[m][2]
      BY <1>2
    <2>2. s[j] = s[m]
      BY <2>1, <1>2
    <2> QED BY <2>2, <1>1
  <1>5. \A k \in 1..N : \E j \in 1..Len(s) : f[j] = k
    <2> SUFFICES ASSUME NEW k \in 1..N PROVE \E j \in 1..Len(s) : f[j] = k
      OBVIOUS
    <2>1. k - 1 \in 0..(N - 1)
      OBVIOUS
    <2>2. PICK j \in DOMAIN s : s[j] = <<n, k - 1>>
      BY <2>1
    <2>3. s[j][2] = k - 1
      BY <2>2
    <2> QED BY <2>3, <1>1
  <1>6. ExistsBijection(1..Len(s), 1..N)
    <2> HIDE DEF f
    <2>1. f \in Bijection(1..Len(s), 1..N)
      BY <1>3, <1>4, <1>5, Fun_IsBij
    <2> QED BY <2>1, Fun_ExistsBij
  <1>7. Cardinality(1..N) = Len(s)
    BY <1>1, <1>6, FS_CountingElements
  <1>8. Cardinality(1..N) = N
    BY FS_Interval
  <1> QED BY <1>7, <1>8

\* When no cell of a node is between minting and recording an id, the ids that
\* the node recorded, those it listed and those it numbered are the same, so
\* the length of the list counts its evidence.
THEOREM SurfacedCountsEvidence == Spec => []ContiguousWhenQuiet
  <1>1. Inv /\ Placed /\ Listed => ContiguousWhenQuiet
    <2> SUFFICES ASSUME Inv, Placed, Listed, NEW n \in Node, Quiet(n)
                 PROVE  LET own == {i \in Recorded(RootOf[n]) : i[1] = n} IN
                        /\ own = {<<n, k>> : k \in 0..(counter[n] - 1)}
                        /\ own = {surfaced[n][k] : k \in DOMAIN surfaced[n]}
                        /\ Len(surfaced[n]) = counter[n]
      BY DEF ContiguousWhenQuiet
    <2> DEFINE own == {i \in Recorded(RootOf[n]) : i[1] = n}
               minted == {<<n, k>> : k \in 0..(counter[n] - 1)}
               listed == {surfaced[n][k] : k \in DOMAIN surfaced[n]}
    <2>1. counter[n] \in Nat /\ surfaced[n] \in Seq(Ids) /\ RootOf[n] \in Roots
      BY NodesHaveRoots DEF Inv, TypeOK
    <2>2. \A k \in 0..(counter[n] - 1) :
            /\ <<n, k>> \in Recorded(RootOf[n])
            /\ \E j \in DOMAIN surfaced[n] : surfaced[n][j] = <<n, k>>
      BY DEF Placed, Quiet, Pending, Surfacing
    <2>3. own = minted
      <3>1. ASSUME NEW i \in own PROVE i \in minted
        <4>1. PICK e \in snippets[RootOf[n]] : e.id = i
          BY DEF Recorded
        <4>2. e.id \in Ids
          BY <2>1 DEF Inv, TypeOK
        <4>3. i = <<n, i[2]>> /\ i[2] \in Nat
          BY <4>1, <4>2 DEF Ids
        <4>4. i[2] < counter[n]
          BY <4>1, <2>1 DEF Inv, Numbered
        <4>5. i[2] \in 0..(counter[n] - 1)
          BY <4>3, <4>4, <2>1
        <4> QED BY <4>3, <4>5
      <3>2. minted \subseteq own
        BY <2>2
      <3> QED BY <3>1, <3>2
    <2>4. listed = minted
      <3>1. \A j \in DOMAIN surfaced[n] : surfaced[n][j] \in {n} \X (0..(counter[n] - 1))
        BY DEF Listed
      <3> QED BY <3>1, <2>2
    <2>5. Len(surfaced[n]) = counter[n]
      <3>1. /\ \A j \in DOMAIN surfaced[n] : surfaced[n][j] \in {n} \X (0..(counter[n] - 1))
            /\ \A j, m \in DOMAIN surfaced[n] : surfaced[n][j] = surfaced[n][m] => j = m
        BY DEF Listed
      <3> QED BY <2>1, <2>2, <3>1, ListLength
    <2> QED BY <2>3, <2>4, <2>5
  <1> QED BY <1>1, PlacedHolds, PTL
=============================================================================
