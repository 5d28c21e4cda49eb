--------------------------- MODULE EvidenceLedger ---------------------------
(***************************************************************************)
(* The evidence ledger of a rollout tree and the search tool that fills it *)
(* (examples/train/dr_rlm/tools/provider.py, _run_guard.py), used by the   *)
(* cell threads of all nodes at once, cells given up by their step         *)
(* included; and the ids a node's report carries (normalize_answer and     *)
(* render_report), which is what its caller's code gets of it.             *)
(*                                                                         *)
(* A snippet id is the pair of the node that surfaced it and that node's   *)
(* counter.  A search() is a thread's run through `pc`: between two steps  *)
(* other threads may do anything, since the ledger's lock and the node's   *)
(* lock are each held for one step only.                                   *)
(***************************************************************************)
EXTENDS Naturals, Sequences, FiniteSets

CONSTANTS Roots,        \* root nodes, one per tree
          Children,     \* the other nodes
          ParentOf,     \* the node that calls each child
          RootOf,       \* the root of each node's tree
          Cells,        \* threads that run a node's code
          NodeOf,       \* the node of each cell
          NoLedger,     \* env_extras of a node that has not started
          MaxCalls,     \* max_search_calls_per_tree, 0 for no limit
          MaxHits,      \* search_top_k
          MaxSearches,  \* searches of one cell (bounds the run)
          MadeUp        \* ids a report may cite without its code having got them

Node == Roots \cup Children

ASSUME LedgerAssumption ==
    /\ Roots \cap Children = {} /\ NoLedger \notin Roots
    /\ ParentOf \in [Children -> Node] /\ RootOf \in [Node -> Roots]
    /\ \A r \in Roots : RootOf[r] = r
    /\ \A c \in Children : RootOf[c] = RootOf[ParentOf[c]]
    /\ NodeOf \in [Cells -> Node]
    /\ MaxCalls \in Nat /\ MaxHits \in Nat \ {0} /\ MaxSearches \in Nat
    /\ MadeUp \subseteq Node \X Nat

VARIABLES
    node,      \* "unborn", "open" or, once it has its final answer, "closed"
    ledgerOf,  \* env_extras["dr_rlm_ledger"], named by the root that made it
    snippets,  \* per ledger: the evidence under each id, as the cell whose hit it is
    used,      \* per ledger: _search_calls
    counter,   \* per node: ids minted
    surfaced,  \* per node: surfaced_ids
    latched,   \* the process-wide hard-error latch
    pc,        \* per cell: where its search() is
    todo,      \* per cell: hits to go
    sid,       \* per cell: the number of the id at hand
    results,   \* per cell: ids in the list search() is building
    searches,  \* per cell: searches begun
    report,    \* per node: ids cited in its rendered final answer
    found,     \* per node, history: ids that a search returned to its code, or to
               \* the code of the node below whose report brought them
    asked      \* per tree: searches sent to the backend

evidence == <<snippets, used, counter, surfaced, asked>>
search == <<pc, todo, sid, results, searches>>
vars == <<node, ledgerOf, evidence, latched, search, found, report>>

Ids == Node \X Nat
Id(c) == <<NodeOf[c], sid[c]>>
Recorded(l) == {s.id : s \in snippets[l]}

Init ==
    /\ node = [n \in Node |-> "unborn"]
    /\ ledgerOf = [n \in Node |-> NoLedger]
    /\ snippets = [l \in Roots |-> {}]
    /\ used = [l \in Roots |-> 0]
    /\ counter = [n \in Node |-> 0]
    /\ surfaced = [n \in Node |-> <<>>]
    /\ latched = FALSE
    /\ pc = [c \in Cells |-> "idle"]
    /\ todo = [c \in Cells |-> 0]
    /\ sid = [c \in Cells |-> 0]
    /\ results = [c \in Cells |-> {}]
    /\ searches = [c \in Cells |-> 0]
    /\ report = [n \in Node |-> {}]
    /\ found = [n \in Node |-> {}]
    /\ asked = [r \in Roots |-> 0]

-----------------------------------------------------------------------------
(* Nodes.                                                                    *)

\* Faulty variant: one ledger serves every tree of the process.
SharedLedger(n) == CHOOSE r \in Roots : TRUE

\* _setup_env_extras: a root makes a ledger, a child finds its caller's.
LedgerFor(n) == IF n \in Roots THEN n ELSE ledgerOf[ParentOf[n]]

StartNode(n) ==
    /\ node[n] = "unborn"
    /\ n \in Children => node[ParentOf[n]] # "unborn"
    /\ node' = [node EXCEPT ![n] = "open"]
    /\ ledgerOf' = [ledgerOf EXCEPT ![n] = LedgerFor(n)]
    /\ UNCHANGED <<evidence, latched, search, found, report>>

\* The backstop of normalize_answer, which applies to the citations list only.
Backed(n, claimed) == claimed \cap Recorded(ledgerOf[n])

\* The node's final answer, with ids cited in its text and ids in a list.  The
\* text stays as it is; render_report adds to it what is left of the list.
Finish(n, inline, listed) ==
    /\ node[n] = "open"
    /\ node' = [node EXCEPT ![n] = "closed"]
    /\ report' = [report EXCEPT ![n] = inline \cup Backed(n, listed)]
    /\ UNCHANGED <<ledgerOf, evidence, latched, search, found>>

\* rlm_query hands the child's report to its caller's code, made-up ids included.
HandOver(c) ==
    /\ node[c] = "closed"
    /\ found' = [found EXCEPT ![ParentOf[c]] = @ \cup (report[c] \cap found[c])]
    /\ UNCHANGED <<node, ledgerOf, evidence, latched, search, report>>

-----------------------------------------------------------------------------
(* search(), as run by one cell.                                             *)

Goto(c, at) == pc' = [pc EXCEPT ![c] = at]

\* A latched hard error ends the call here.
SearchBegin(c) ==
    /\ pc[c] = "idle" /\ node[NodeOf[c]] # "unborn"
    /\ searches[c] < MaxSearches
    /\ ~latched
    /\ searches' = [searches EXCEPT ![c] = @ + 1]
    /\ results' = [results EXCEPT ![c] = {}]
    /\ Goto(c, "budget")
    /\ UNCHANGED <<node, ledgerOf, evidence, latched, todo, sid, found, report>>

\* Faulty variant: one call too many.
SpentLate(l) == MaxCalls > 0 /\ used[l] > MaxCalls

Spent(l) == MaxCalls > 0 /\ used[l] >= MaxCalls

\* _budget_exhausted, under the ledger's lock.
TakeBudget(c) ==
    LET l == ledgerOf[NodeOf[c]] IN
    /\ pc[c] = "budget"
    /\ IF Spent(l)
       THEN Goto(c, "idle") /\ UNCHANGED <<used, asked>>
       ELSE /\ Goto(c, "backend")
            /\ used' = IF MaxCalls > 0 THEN [used EXCEPT ![l] = @ + 1] ELSE used
            /\ asked' = [asked EXCEPT ![RootOf[NodeOf[c]]] = @ + 1]
    /\ UNCHANGED <<node, ledgerOf, snippets, counter, surfaced, latched, todo, sid,
                   results, searches, found, report>>

BackendAnswers(c, hits) ==
    /\ pc[c] = "backend"
    /\ todo' = [todo EXCEPT ![c] = hits]
    /\ Goto(c, IF hits = 0 THEN "idle" ELSE "mint")
    /\ UNCHANGED <<node, ledgerOf, evidence, latched, sid, results, searches, found,
                   report>>

\* note_exception: the search yields nothing, and a hard error is latched.
BackendFails(c) ==
    /\ pc[c] = "backend"
    /\ latched' \in {latched, TRUE}
    /\ Goto(c, "idle")
    /\ UNCHANGED <<node, ledgerOf, evidence, todo, sid, results, searches, found, report>>

\* get_doc calls the backend too, at nobody's charge, and may latch a hard error.
GetDocFails(c) ==
    /\ pc[c] = "idle" /\ node[NodeOf[c]] # "unborn"
    /\ ~latched /\ latched' = TRUE
    /\ UNCHANGED <<node, ledgerOf, evidence, search, found, report>>

\* Faulty variant: numbers follow what was recorded, not what was minted.
RecordedSoFar(n) == Cardinality({i \in Recorded(ledgerOf[n]) : i[1] = n})

NextNumber(n) == counter[n]

\* The id of the next hit, under the node's lock.
Mint(c) ==
    LET n == NodeOf[c] IN
    /\ pc[c] = "mint"
    /\ sid' = [sid EXCEPT ![c] = NextNumber(n)]
    /\ counter' = [counter EXCEPT ![n] = @ + 1]
    /\ Goto(c, "surface")
    /\ UNCHANGED <<node, ledgerOf, snippets, used, surfaced, asked, latched, todo,
                   results, searches, found, report>>

\* surfaced_ids.append, under no lock.
Surface(c) ==
    /\ pc[c] = "surface"
    /\ surfaced' = [surfaced EXCEPT ![NodeOf[c]] = Append(@, Id(c))]
    /\ Goto(c, "record")
    /\ UNCHANGED <<node, ledgerOf, snippets, used, counter, asked, latched, todo, sid,
                   results, searches, found, report>>

\* Faulty variant: evidence found after the node's answer is not recorded.
RecordOpen(c, l) ==
    IF node[NodeOf[c]] = "open"
    THEN {s \in snippets[l] : s.id # Id(c)} \cup {[id |-> Id(c), hit |-> c]}
    ELSE snippets[l]

\* ledger["snippets"][sid] = ..., which replaces what was there under the id.
Entered(c, l) ==
    {s \in snippets[l] : s.id # Id(c)} \cup {[id |-> Id(c), hit |-> c]}

\* The hit is recorded and put on the list, which is returned with the last one.
Record(c) ==
    LET n == NodeOf[c]
        l == ledgerOf[n]
        list == results[c] \cup {Id(c)}
    IN  /\ pc[c] = "record"
        /\ snippets' = [snippets EXCEPT ![l] = Entered(c, l)]
        /\ results' = [results EXCEPT ![c] = list]
        /\ todo' = [todo EXCEPT ![c] = @ - 1]
        /\ IF todo[c] = 1
           THEN Goto(c, "idle") /\ found' = [found EXCEPT ![n] = @ \cup list]
           ELSE Goto(c, "mint") /\ UNCHANGED found
        /\ UNCHANGED <<node, ledgerOf, used, counter, surfaced, asked, latched, sid,
                       searches, report>>

-----------------------------------------------------------------------------
SearchStep(c) ==
    \/ SearchBegin(c) \/ TakeBudget(c) \/ BackendFails(c) \/ GetDocFails(c)
    \/ \E hits \in 0..MaxHits : BackendAnswers(c, hits)
    \/ Mint(c) \/ Surface(c) \/ Record(c)

Next ==
    \/ \E n \in Node : \/ StartNode(n)
                       \/ \E invented \in SUBSET MadeUp :
                             \/ Finish(n, found[n] \cup invented, {})
                             \/ Finish(n, {}, found[n] \cup invented)
    \/ \E c \in Children : HandOver(c)
    \/ \E c \in Cells : SearchStep(c)

Spec == Init /\ [][Next]_vars

-----------------------------------------------------------------------------
\* Types; and every node that has started uses the ledger of its own tree.
TypeOK ==
    /\ node \in [Node -> {"unborn", "open", "closed"}]
    /\ ledgerOf = [n \in Node |-> IF node[n] = "unborn" THEN NoLedger ELSE RootOf[n]]
    /\ snippets \in [Roots -> SUBSET [id : Ids, hit : Cells]]
    /\ used \in [Roots -> Nat] /\ asked \in [Roots -> Nat]
    /\ counter \in [Node -> Nat]
    /\ surfaced \in [Node -> Seq(Ids)]
    /\ latched \in BOOLEAN
    /\ pc \in [Cells -> {"idle", "budget", "backend", "mint", "surface", "record"}]
    /\ todo \in [Cells -> 0..MaxHits]
    /\ \A c \in Cells : pc[c] \in {"mint", "surface", "record"} => todo[c] > 0
    /\ sid \in [Cells -> Nat]
    /\ results \in [Cells -> SUBSET Ids]
    /\ searches \in [Cells -> 0..MaxSearches]
    /\ report \in [Node -> SUBSET Ids]
    /\ found \in [Node -> SUBSET Ids]

\* An id never comes to stand for other evidence, though two cells of a node
\* may search at the same time and after the node's answer.
EvidenceIsStable == [][\A l \in Roots : snippets[l] \subseteq snippets'[l]]_vars

\* An id that some search returned and that reached a node's code, through any
\* number of reports, is in the ledger of the node's tree: normalize_answer never
\* takes it for invented, though the search may run on after its node's answer.
FoundIsRecorded == \A n \in Node : found[n] \subseteq Recorded(RootOf[n])

\* The nodes of a tree together never send more searches to the backend than
\* the budget.  (It bounds searches only: get_doc's calls are not charged.)
BudgetKept == MaxCalls > 0 => \A r \in Roots : asked[r] <= MaxCalls

\* When no cell of a node is in the middle of a search result, its recorded ids
\* are numbered from 0 without a gap and are those in surfaced_ids, once each,
\* so that n_surfaced_snippets is the number of its pieces of evidence.
Quiet(n) ==
    \A c \in Cells : NodeOf[c] = n => pc[c] \notin {"mint", "surface", "record"}
ContiguousWhenQuiet ==
    \A n \in Node : Quiet(n) =>
        LET own == {i \in Recorded(RootOf[n]) : i[1] = n} IN
        /\ own = {<<n, k>> : k \in 0..(counter[n] - 1)}
        /\ own = {surfaced[n][k] : k \in DOMAIN surfaced[n]}
        /\ Len(surfaced[n]) = counter[n]
=============================================================================
