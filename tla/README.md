# Dr-RLM in TLA+

Formal models of the recursive deep-research agent in `dr-rlm/`: TLA+ modules, the
TLC instances that check them, and theorems checked by TLAPS. Paths below are
relative to the repository; `rl/skyrl/` stands for `dr-rlm/rl/skyrl/`.

The repository is mostly vendored (SkyRL, RLM, DR Tulu, LLaMA-Factory). The program's
own logic is a few files: a generator that turns one rollout into a tree of rollouts, a
persistent REPL in which the model's code runs, the environment that reads the
model's submission out of it, the evidence ledger, the credit assignment, and the
offline drivers.

## Inventory

| Component | State it keeps | Operations | Hard part |
|---|---|---|---|
| **Rollout tree**: `examples/train/rlm/rlm_generator.py`, `examples/train/dr_rlm/dr_rlm_generator.py`, over SkyRL's `agent_loop` | `active_rollouts` (rid → context with parent, depth, child index, output) | register, `rlm_query` → child `agent_loop`, `llm_query`, post-process, teardown, end-of-step sweep | asyncio tasks, REPL threads and `generate()` share the registry; 600 s / 300 s timeouts; cancellation delivered late; threads that cannot be killed |
| **REPL cell**: `skyrl-gym/.../rlm/repl.py` | cell clock (`_exec_start`, `_wait_secs`, `_wait_active_since`, alarm), `_children_spawned`, `locals`, captured submission | `execute`, the query functions, `_pause_timeout`, the sliced join, `_restore_scaffold` | an abandoned cell shares every attribute with the next one |
| **Episode**: `rlm/env.py`, `dr_rlm_env.py` | `turns`, `chat_history` (shared with the generator), submission gate, final answer | `init`, `step`, `_submission_bounce`, `_try_salvage`, `close` | the model's code can do anything to `answer`, at any time, also after its turn |
| **Evidence ledger**: `tools/provider.py`, `_run_guard.py`, `corpus_search.py`, `tools/web_provider.py` | per-tree snippets and call budget, per-node counter, process-wide error latch | `search`, `get_doc`, `check_citations`, `note_exception` | concurrent nodes and strays; two lifetimes for the ledger |
| **Un-flattening and credit**: `dr_rlm_generator.generate`, `rer_reward.py`, `rer_advantage.py` | flat rows, trees, node rewards | segmentation, share modes, outage guard, cohort baselines | positional matching; conservation of credit |
| **Executor**: `max_env_workers` threads of SkyRL's generator | busy workers | `env.init/step/close` in a worker | parents hold workers while children need them |
| **Inference driver**: `dr-rlm/agent/infer_driver.py` | output file, dead streak, latch | run, retry, abort, resume | crash between rows and inside one |
| **Corpus builder**: `dr-rlm/corpus_build/` | shard records, done marks, page cache | discover, fetch, freeze | crash and resume, parallel workers |
| Judge, answer format, configuration, prompts, baseline environment, SFT, analysis | none that outlives a call | pure functions, LLM calls, start-up | not concurrent |

How they interact. `generate()` gathers one `agent_loop` task per prompt. Each task
alternates an engine call with `env.step`, which runs in a worker thread; `step` runs the
reply's code with `PersistentREPL.execute`, which runs it in a thread of its own and
joins it in slices. The code calls back: `llm_query` submits a coroutine to the event loop
and blocks on its future (300 s); `rlm_query` submits a child's `agent_loop` and blocks
(600 s), recursively. The code submits by assigning `answer["ready"] = True`. When a
root's loop ends it collects its descendants' rows in DFS order and removes the whole
tree from the registry; when all roots have ended `generate()` clears what is left and
the trainer puts the engine to sleep to synchronise weights.

What makes each correct:

- tree: no registration under a missing parent, no context left behind, rows in
  preorder, no answered child left out, no engine call after the step ended;
- cell: a wait on another agent never costs the waiting cell its time, no second is
  counted twice, no answer is lost to the clock's own bookkeeping, the fan-out budget
  holds over all turns;
- episode: what is graded is what was submitted; a submission is not lost, not altered,
  not made twice; at most one is held back and never on the last turn; the
  conversation keeps exactly one turn prompt; every episode ends;
- ledger: ids unique per node, budget per tree, lifetime of one tree; credit: rows reach
  the right rubric, shares add up to what the mode promises; drivers: resuming
  neither loses nor repeats a row.

## Modules

### RolloutTree

One asyncio task per node (`task`), one thread per node and turn (`cell`), and
`generate()` (`phase`). Code between two awaits of a task is one action, because the
loop has one thread; everything a cell does to the loop goes through a future, so
scheduling (`RlmQuery`) and the child's first step (`RunChild`) are separate.

| Model | Code |
|---|---|
| `StartRoot`, `RegisterChild` | `_setup_env_extras`, `_register_rollout` |
| `RlmQuery`, `RunChild`, `SubcallReturn`, `SubcallTimeout`, `Cancel`, `Resume` | `_make_subcall_fn`: `run_coroutine_threadsafe`, `_run_child`, `future.result(timeout=600)`, `future.cancel()`; two prompts of a batch at a time |
| `LmQuery`, `LmStart`, `LmReturn` | `_make_lm_callback` and its guard |
| `InitDone`, `EngineReply`, `EngineFail`, `StepReturn` | `agent_loop` |
| `CloseChild`, `CloseRoot` | `_post_process_agent_loop_output` |
| `DfsDescendants` | `_dfs_descendants`, as a recursive function over the loop's iterations |
| `EndOfStep` | the end of `DrRlmGenerator.generate` |

`Descendants` is the set the walk should visit; teardown uses it, and
`DfsVisitsDescendants` checks that the walk's output is that set. The model's code is
free: a cell runs, queries or ends in any order, and an `env.step` may return while its
cell is still running. A cell blocked in a query is abandoned only if an older
abandoned cell exists that may have reset the shared clock (see ReplCell).

### ReplCell

The clock and the budget of one REPL. Time is counted in ticks, `Second` of them to a second,
because the code measures fractions of a second and arms its alarm in whole ones
(`Whole`, `AlarmIn`: `signal.alarm(int(...))`, which for 0 arms nothing). `path` chooses the
timeout mechanism: `alarm` (SIGALRM, main thread) or `thread` (the sliced join). Python switches
threads at calls and at loop edges, so `rlm_query`'s test and increment of the budget are
one step and `rlm_query_batched`'s are two (`BatchRead`, `BatchSpawn`); likewise the end of
`_pause_timeout` reads `_wait_secs` (`WaitDone`) and then adds to it (`Fold`).
An alarm ends the cell or is caught in it (by the model's code, or by the `except Exception` of
`check_citations_verdicts`), and then the cell goes on without one. `check_citations` itself is
time the cell spends in its own code: it waits for the language model outside `_pause_timeout`.
`Lingering` says whether a cell that was given up goes on to use the REPL. `ran` is not in the
code: it measures what a cell really spent.

### Submission and Episode

`Episode` is one rollout's answer channel: `RLMEnv.step` with DR-RLM's gate, the
`_AnswerDict` buffer, `_restore_scaffold`, and `chat_history`. Reports are members of
`Drafts`; `Uncited` are those the gate holds back. The model's code is the actions
`Write`, `Flag`, `FlagByUpdate`, `Rebind`, `EndCell`, `RaiseCell` of any turn's cell, in
any order, also after the turn if the cell was given up (`stray`). `flipped` and `offered`
record what the code submitted.

`Submission` is the abstract specification of the same rollout as its generator sees it:
turns left, which turn's submission was held back, the verdict. `KeepsPromises` is the
refinement: `Episode` implements `Submission` with
`left = MaxTurns - completed turns` and `held = bounceTurn`.

### EnvExecutor

The thread pool in which every `env.init`, `env.step` and `env.close` of every node runs
(`max_env_workers`), as a FIFO `queue` of calls and the place of each node's call
(`call`). A step keeps its worker while its code waits in `rlm_query`; the child needs
workers for its own three kinds of call. `workers = 0` is the build without a pool: a call
then runs on the event loop's thread, and `LoopFree` blocks every other action of the
loop until it returns. Trees are those of RolloutTree without abandoned cells, which
hold no worker.

| Model | Code |
|---|---|
| `Submit`, `Begin`, `Return` | `_run_in_executor_if_available` and the executor behind it, which skips a call cancelled in the queue |
| `InitReturn`, `EngineReply`, `EngineFail`, `StepReturn`, `CloseReturn` | `agent_loop` |
| `MayDelegate`, `Query`, `RunChild`, `SubcallReturn`, `SubcallTimeout`, `Cancel` | the recursion ceiling, `rlm_query`, `_run_child`, `subcall_fn` |

### EvidenceLedger

`search()` of `tools/provider.py`, one action per stretch between two of its locks, run by
any cell of any node at once (`pc`), also after the node's answer. Evidence under an id is
the cell whose hit it is, so that two hits under one id would be seen. Nodes of one tree
share the ledger of their root (`LedgerFor`), the latch is one for the process.

A final answer cites ids in its text and in a list of citations, and the model's code may use
any id it got and some it makes up (`MadeUp`). `Backed`, the backstop of `normalize_answer`,
filters the list only; the text stays as it is, so `report`, the ids of the rendered report,
keeps invented ones. The report is what `rlm_query` returns to the caller's code in the default
`child_return_mode = "prose"` (`HandOver`; `content` in structured mode is the same text).
`found` is a history variable: of the ids that reached a node's code, those that some search
returned.

### CreditPass

`DrRlmGenerator.generate` with `per_node_credit`, from the flat rows SkyRL returns to what
each row learns. A batch is a sequence of outputs, an output the numbers of steps of its
nodes. `Score` (the judge answers anything, or the pass raises) and `Assign` run block by
block, then `Guard`, `Sweep` and the trainer's broadcast `Train`. The judge scores each
criterion, and the support each node gives it, from 0 to `Scale` (`judge_score_scale`, 2 in the
code), so partial scores and unequal shares `sup / tot` occur; without rubrics the one criterion
is the report's quality (`QualityOnly`), which adds to R and which no node is asked to support.
The code divides floats; the model counts in units of 1/`Unit`, and the assumption `ExactUnits`
says that `Unit` (720 in the instance) and the cost `Gamma` can be cut into as many equal parts
as the batches at hand may ask for: one for each citation or node of a tree or point of
support, each row. Sums are then compared without
rounding. It is a choice of unit and restricts no batch or rubric: for finitely many of them
a common multiple will do. The other assumptions are the code's own: every node has a step,
the weights are numbers (whole ones, for the same reason), `_REP_STRIDE` "must exceed" the
nodes of any tree, the guard's threshold is a share of the trees, and generation returned at
least one row. The code that the rows' positions go through is kept:
`LastOfOutput` flags the last row of an output, `BlockOf` cuts there, the input is found by
the block's number, the ledger by the id of its first row.

### InferDriver

`_amain` of `infer_driver.py`. The output file is a sequence of lines and a line the
sequence of what was written to it: a crash can leave a row torn, whole without its
newline, or whole; the next process appends where the file ends. A process's memory is
gone when it ends (`Exit`), by itself, by `sys.exit(3)` or by `Crash`. `hopeless` are the
items for which no search surfaces anything.

## Runs

| Run | Bounds | Shows |
|---|---|---|
| RolloutTreeDeep | 1 root, 3 subcalls, depth 2, 1 turn | tree shape: `SiblingsIndexed`, `DfsVisitsDescendants`, `InlinedInPreorder`, `AnsweredIsInlined` |
| RolloutTreeTurns | 1 root that also uses `llm_query`, 2 subcalls, depth 2, 2 turns | abandoned cells that go on: `ParentsRegistered`, `NoContextOutlivesRoot`, `NoLmCallWhileTraining` |
| RolloutTreeOrphan | as Deep with 2 subcalls | violates `NoEngineCallWhileTraining` |
| ReplCell | 2 cells, 5 s in half seconds, timeout 2 s, least alarm 1 s, 2 children, no lingering cell | `WaitsNotCharged`, `SecondsAccounted`, `AnswersDelivered`, `FanOutCapped` |
| ReplCellStray | 2 cells, 7 s, lingering | violates `WaitsNotCharged` |
| Episode | 3 turns, 1 uncited draft and the empty one, 1 stray at a time | `SubmittedAsOffered`, `FreshSubmission`, `NoLostSubmission`, `OnePromptAtTail`, `EpisodeCloses`, `KeepsPromises` |
| EpisodeUpdate | 1 turn | violates `FlipIsCaptured` |
| EnvExecutor | 2 roots, 2 subcalls, 0, 1 or 2 workers, ceiling 1 or 2, 1 turn | `SizedPoolServes`, `OnlyExhaustionBlocks`, `TimeoutsFreeThePool` |
| EvidenceLedger | 2 trees, 1 child, 3 cells (two of them the child's), 1 search per cell of up to 2 hits, budget 2, 1 invented id | `FoundIsRecorded`, `BudgetKept`, `ContiguousWhenQuiet`, `EvidenceIsStable` |
| CreditPass | 6 batches of up to 3 outputs and 3 nodes, 3 rubrics and none, judged on 0 to 2, 2 citations per node, 4 modes, 2 root modes, guard off or at 100%, 2 data-parallel ranks | `JudgedAsItself`, `OutageIsSilent`, `LearnsFromItsNode`, `CreditAddsUp` |
| CreditPassNegative | 1 tree of 2 nodes, a positive and a negative criterion, credit by support | violates `SupportedCreditIsR` |
| InferDriver | 3 items, abort after 2 dead items (the default), 2 crashes, 1 hard error | `OneRowPerItem`, `CrashCostsOneLine`, `OthersAnswered` |

Bounds. Three subcalls give every tree shape in which order matters: two siblings of
which one has a child, a chain, three siblings of which one must queue for the
batch's two workers. Two turns are the fewest in which a cell outlives its turn; one root
is enough for the safety of a tree because contexts of different roots share no parent.
Two cells are the fewest that can share a clock, and with a timeout of two seconds a
wait can be shorter than, equal to and longer than it. Two ticks to a second are the fewest
with which `int()` cuts something off: a half second, which is what the run lets the alarm
come early, after however many waits. Three turns are the fewest with a
bounce, a repair and a turn between; one uncited draft suffices because the gate only
asks whether citations are empty. Subcall rids are interchangeable (symmetry).
Two roots and two workers are the fewest in which each of two trees blocks the other;
one subcall each, or a chain of two. Two cells of one node, two hits each, are the fewest in
which ids interleave; a budget of two is crossed by three cells. The batches have every
way in which a row's place and its tree can disagree: a tree of three nodes, a node of two
steps, an output without rows first, in the middle, and none. Three items let a hopeless
one stand before, between or after others; the second crash hits a file that the first
one tore.
Deadlock is not checked: all of these systems stop.

Fairness. `Episode`: weak fairness of the loop (`LoopStep`): the engine answers or fails, and
the join's deadline passes, because `execute` polls a monotonic clock. Nothing is assumed
of the model's code, which may run forever. `EnvExecutor`: weak fairness of each node's
progress on the loop, in the engine and in its worker, and that a step whose code waits
for nobody returns (the same deadline); not of queries, and of the 600 s timeouts only in
the hypothesis of `TimeoutsFreeThePool`, so `OnlyExhaustionBlocks` says what holds without
them. `InferDriver`: a running process goes on; that somebody starts the driver again, and
that an item which can surface evidence does so if it is tried again and again, are the
hypothesis `Retried` of `OthersAnswered`.

What is assumed of strays. `FreshSubmission` and `NoLostSubmission` are stated for
episodes without a cell that runs on after it was given up: a stray may set or bounce
flags in a later turn, and which turn it then belongs to the code does not say.
`SubmittedAsOffered`, `OnePromptAtTail`, `EpisodeCloses` and the refinement hold with strays.

## What the code does differently from its comments

- A cell that its root's last step gave up can call `rlm_query` while the root is in
  `env.close`. The child still finds its parent, is torn down with the tree before it has
  initialised, and makes its first engine call after `generate()` returned, when the trainer
  may put the engine to sleep. `vllm_engine.py:518` says "all generation should be done before
  sleep() is called"; only `llm_query` looks whether its owner is gone (RolloutTreeOrphan).
- The clock belongs to the REPL and not to the cell, so a stray's wait and the current
  cell's end each other, and a blocked cell is charged for its wait (ReplCellStray).
- `answer.update(ready=True)` is not captured, and not noticed at the end of the cell
  (EpisodeUpdate).
- `rer_reward.py:19-21` and `:193-195` say that credit is conserved: it adds up to R "when every
  satisfied criterion has a contributor". By judged support, a criterion of negative weight
  lowers R and nobody's credit (CreditPassNegative); `CreditAddsUp` states the sum that each
  mode does pay out.

Met while modelling the other components; the properties are stated so that they hold of
the code as it is:

- `max_env_workers`. The launch script runs 32 roots on 32 workers with
  `max_recursion_depth=2`, so all workers can be held by parents that wait for children,
  and only the 600 s timeouts end that. `SizedPoolServes` says which size rules it out: more
  workers than nodes that may delegate. With `max_env_workers=0` every subcall costs its
  parent, and the whole loop, the 600 s.
- An output without rows (its prompt alone exceeds `max_input_length`) shifts every later
  tree of the batch onto another input's question and rubrics; `JudgedAsItself` excepts it.
- `dr_rlm_trainer.py:39` compares the depths with an `is_last_step` that
  `pad_training_input_batch` has lengthened. Unless the number of rows is a multiple of the
  data-parallel size, depths are dropped and the `rer_pernode` baseline mixes roots and
  children; `LearnsFromItsNode` promises depth cohorts only without padding.
- The search budget is not charged for `get_doc`'s calls of the backend
  (`provider.py:142-159`), against `provider.py:83`, "Bounds total Serper/web calls per item
  across the whole recursion tree"; `BudgetKept` is about searches. The latch said to be per
  tree (`provider.py:108`) is per process and never reset.
- The ledger backstops the list of citations, not the report's text. An id invented in the
  text, `<cite id="...">`, reaches the caller's code in a child's report and the grader in the
  root's, and `rer_reward.py:199-209` counts it for the node whose rid is its prefix without
  looking it up. No property says that what is cited is evidence.
- `check_citations` waits for the language model on the cell's own clock, up to 300 s a call
  (`dr_rlm_env.py:89` calls the callback directly), although `repl.py:523` says that time
  blocked on sub-LLM calls must not count. If the alarm comes in such a wait,
  `check_citations_verdicts` swallows it and the cell goes on without a limit.
- `repl.py:646` cuts what is left of a cell's time to whole seconds, so the alarm of a cell
  that has waited may come up to a second early; `WaitsNotCharged` allows for that, and only
  for that.
- `judge.ledger_citations` iterates the ledger without its lock; an abandoned cell that
  inserts meanwhile makes it raise, and the tree's rewards are zeroed like in an outage.
- A crash that leaves a whole row without its newline glues the next run's first row to it:
  both are then unreadable though one was skipped as done and the other counted as written;
  a later run redoes them. `CrashCostsOneLine` bounds that by one line per crash.
- With at least `--abort-after-dead-items` hopeless items ahead, every run of the driver
  ends before the items behind them; `OthersAnswered` needs fewer. Items that raise
  neither count nor reset the streak, and after one the driver does not look at the latch
  before it starts the next item; no row comes of that.

## Proofs

`RolloutTreeProofs`: for any sets of roots and subcalls and any limits.

- `TypeCorrect`. `TypeOK` is not inductive: `turn` stays in range only because a task that
  may still call the engine has a turn left (`TurnsLeft`).
- `ParentsAlwaysRegistered`, `NoLeakedContext`, `NoLateLmCall`, from one inductive
  invariant. A child registers only under a registered parent, so it inherits the tree
  of an unfinished root (`RootOpen`); no unregistered node lies between a root and
  a node of its tree (`TreeReachable`), so the set reached from the root is the whole tree
  (`TreeIsDescendants`) and the root's teardown removes all of it at the moment the root
  finishes. `generate()` returns after all roots finished (`TrainQuiet`), hence nothing
  is registered then, and the guard of `_generate` stops every queued `llm_query`.

- `SiblingsAreIndexed`. The registration log has every registered node once (a rid is
  minted once), a registering node is its newest entry, and a tree is torn down as a whole,
  so the siblings counted at registration are the older ones for good.
- `WalkVisitsAll`, `RowsInPreorder`. `Walk(r, V, q)` is the invariant of the stack walk: `V`,
  which is the output followed by what is on the stack from its top, holds descendants of
  `r`, once each (`OnceEach`, `Reached`), all that are not below a pending one (`Complete`),
  no node before its ancestor (`AncestorsFirst`), every subtree in one piece (`Contiguous`) and
  siblings in the order of registration (`SiblingsInOrder`). Popping a node puts its children
  in behind it; where each entry of the new list comes from is a function (`Home`), and the
  conjuncts follow by cases on it. After as many iterations as there are registered nodes
  nothing is pending. Leaving out nodes without an output keeps the order.
- `AnswersAreInlined` (`AnswerInv`): a node that ever ran stays in the tree's registry until
  its root closes (`TreeMarked`), a finished one has its output parked there
  (`OutputParked`), and only a finished one can answer (`AnswerFromFinished`).

`ReplCellProofs`: for any number of cells, any timeout and any budget.

- `ClockTypeCorrect` holds also with lingering cells.
- `CellsPayForTheirOwnTime`, `ClockIsExact`, `ClockLosesNoAnswer`, `BudgetIsKept` assume
  `~Lingering`. The invariant says that the shared wait attributes describe the joined
  cell's wait and nothing else (`OneWait`), that the value `Fold` adds to is still the one
  `WaitDone` read, and that a pending alarm leaves the cell at least what it has not yet
  used, up to the part of a second that `int()` cut off (`AlarmSet`). The assumption is needed: ReplCellStray.

`EpisodeProofs`: for any number of turns, any reports, bounces and salvage on or off.

- `ChannelTypeCorrect`. `TypeOK` becomes inductive with `Progress`: the engine is called
  only with a turn left, and an episode has a verdict exactly when it is closed.
- `EpisodeImplementsSubmission`: what the model's code does is a stutter of `Submission`,
  and each step of the loop is one of its steps.
- `ReportIsUnaltered`, with any number of abandoned cells: whatever is captured is the last
  offer of some cell (`CapturedIsOffered`): a capture takes the report in the step that
  makes it ready, and no step changes one of the two without the other.
- `ConversationIsKept`: between calls of the engine the list holds no prompt at all
  (`Conversation`), so the pop in `step()` can only have taken the prompt.
- `NoStaleResubmission`, `NoSubmissionIsLost`, from one invariant (`Fate`), as long as no
  abandoned cell runs on: only the cell of the current turn runs (`Ahead`), it writes to
  the buffer that `locals["answer"]` names unless it has rebound the name (`OneBuffer`), no
  flag is up until it raises one (`FlagDown`), and what it submits stays captured until
  `step()` has looked (`Pending`).

`EnvExecutorProofs`: for any trees, any pool sizes, ceilings and turns.

- `PoolTypeCorrect`: with `Born` (a call exists only of a started node) and `TurnsLeft`.
- `SizedPoolIsNeverExhausted`: nodes that wait are below the ceiling (`WaitersDelegate`), so
  were all workers held by them there would be at least as many callers as workers.

`EvidenceLedgerProofs`: for any trees, cells, budget and number of hits.

- `EvidenceNeverReplaced` and `FoundIdsAreRecorded` from one
  invariant: recorded ids are below their node's counter and in their own tree's ledger
  (`Numbered`), an id between minting and recording has no evidence yet (`Fresh`), and no two
  cells hold the same one (`Distinct`). The lock around the counter is what `Distinct`
  rests on.
- `SearchesKeepToBudget`: the counter equals the searches sent (`Counted`), since both change in
  the one step the ledger's lock covers.
- `SurfacedCountsEvidence`: a minted id is recorded and listed, or held by a cell that is about
  to do so (`Placed`), and the list has minted ids only, once each (`Listed`). With no cell
  in between, the list is a bijection with the numbers handed out, so its length is theirs.

`InferDriverProofs`: for any number of items, crashes, errors and any threshold.

- `NoItemTwice`: every row in the file is of an item that this process found or has written,
  and the item in hand is neither (`Progress`).
- `CrashLosesOneLine`: the spoiled lines and the open line together are at most the crashes
  (`Marks`): only a crash opens a line, and a write to an open line spoils no other; a row
  leaves `Rows` only by being written over in that way (`RowsKept`).

`CreditPassProofs`: for any batch, rubric, mode, threshold and data-parallel size.

- What the rows look like. `FlatRows` gives every step of every output one row, in
  lexicographic order (`RowsAreFlat`, `RowOrder`). Rows of different outputs have an output's
  last row between them (`EndsBetween`), so counting those cuts the batch back into its
  outputs (`BlocksAreOutputs`); the rows of a node are adjacent (`NodeRowsTogether`).
- `TreesJudgedAsThemselves`, from `Phases` (blocks are taken one after the other) and
  `Judging`. The ids of different outputs differ (`RootTids`), so a block's ledger is still there
  when its turn comes; a block stands at its output's place as long as every output before
  it has rows (`BlockNumbers`).
- `RowsLearnFromTheirNode`, from `Marks`: a block that is done has its nodes' last rows flagged
  and its rows carry the node's id. Ids are the prompt and a two-digit number in base
  `_REP_STRIDE` whose second digit is the node's rank in its tree (`Ranks`, `NodeTids`), hence
  one per node. The number of flagged rows before a row is that before its node's last row,
  so the broadcast by position picks that row (`OwnAdvantage`).
- `OutageLearnsNothing` and `CreditTypesHold`, from `Rewarding`: rows of blocks to come and of
  trees whose pass raised have no reward, and no share is above 1 (`Shares`). If all the trees
  that were scored got 0 the guard sees it at any threshold up to 100 % (`OutageSeen`).
- `TreesArePaidInFull`, the sum of each mode, for any scale of the judge. The parts a reward is
  cut into divide it (`PartsEnough`, `ReportParts`); equal parts and parts by citation add up to
  the report (`EqualShares`, `CountedShares`); by support, however unequal, the shares of a
  criterion add up to what it is worth, so summing by criterion instead of by node
  gives the worth of the supported criteria, and the report is the worth of all of them
  (`SupportShares`); each row is one node's, so the cost is borne once (`CostsShared`);
  and only the last rows of the block's nodes, one for each node, carry a reward
  (`BlockPaid`). The theorem is about `root_reward_mode = "credit_share"`, as the property is.

`DataLemmas` has what these proofs need about numbers, sequences, recursive functions and
sums. The library's induction theorems take a predicate as a parameter, which the
provers cannot instantiate; induction here is over sets instead (`UpTo`, `OneByOne`: a set of
numbers, or of subsets, that contains the first and with one the next contains all). From it
follow that recursive functions exist (`RecursionExists`), what `FlattenSeq` computes
(`Flattened`), and the laws of `SumFunctionOnSet` (`SumPick` to `SumSwap`).

With this every invariant and every action property of the passing runs is a theorem.
Model-checked only are the violations, and what rests on fairness: `EpisodeCloses`,
`OnlyExhaustionBlocks`, `TimeoutsFreeThePool`, `OthersAnswered`.

## Not modelled

- The corpus builder (`dr-rlm/corpus_build/`): one sequential process per shard, and fetch
  workers that write whole files and rename them. A crash between a record and its done
  mark repeats the record, which the next stage collects once; a torn record makes that stage
  raise at once.
- The judge, the citation parser and the answer's text: calls of a language model and
  regular expressions. Their results are nondeterministic in EvidenceLedger and CreditPass.
- Of the credit pass: `reward_mode = "rao"`, `share_mode = "ledger_support"` (the same sum
  over another set of contributors), the citing bonus and structural penalties, the blended
  R, telemetry, and the values of advantages (means and deviations of reals).
- Of the rollouts: tokens, prompts, logprobs; the flat path of `generate()`, which keeps the
  trees' ledgers until the process ends.
- Configuration, prompts, plotting, SFT conversion, launch scripts, the DR Tulu baseline
  environment (a single-agent loop), and the vendored trees, except for the parts of SkyRL's
  generator and trainer that the models above include. They are most of the repository's
  lines and none of its own logic.
