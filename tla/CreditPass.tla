----------------------------- MODULE CreditPass -----------------------------
(***************************************************************************)
(* From the flat rows of a batch of rollout trees to what each row learns: *)
(* DrRlmGenerator.generate with per_node_credit (dr_rlm_generator.py),     *)
(* the reward pass over one tree (rer_reward.py), and the trainer's        *)
(* broadcast of advantages with the rer_pernode estimator                  *)
(* (dr_rlm_trainer.py, rer_advantage.py).                                  *)
(*                                                                         *)
(* A batch is a sequence of outputs, one per sample; an output lists the   *)
(* steps of its nodes in the order their rows come, the root last.  It is  *)
(* empty when the prompt alone exceeds max_input_length.  Rewards are in   *)
(* units of 1/Unit, so that every division below is exact.                 *)
(***************************************************************************)
EXTENDS Integers, Sequences, FiniteSets, SequencesExt, FiniteSetsExt, Functions

CONSTANTS Batches,     \* the batches to look at
          Samples,     \* n_samples_per_prompt
          Rubrics,     \* the rubrics to look at: sequences of weights
          Modes,       \* reward_mode "inherited", or a share_mode of mode "rer"
          RootModes,   \* root_reward_mode
          Thresholds,  \* DR_RLM_JUDGE_OUTAGE_GUARD in percent, 0 for off
          MaxCites,    \* citations of one node in a report (bounds the inputs)
          Scale,       \* judge_score_scale, the judge's best answer
          Unit,        \* a reward of 1
          Gamma,       \* gamma_cost, in units
          Stride,      \* _REP_STRIDE
          DpSize,      \* the trainer pads batches to a multiple of it
          Raised       \* the outcome of a reward pass that raised

ASSUME CreditAssumption ==
    /\ Samples \in Nat \ {0} /\ Stride \in Nat \ {0} /\ DpSize \in Nat \ {0}
    /\ Unit \in Nat \ {0} /\ Gamma \in Nat /\ MaxCites \in Nat \ {0}
    /\ Scale \in Nat \ {0} /\ Raised \notin Int
    /\ Modes \subseteq {"inherited", "equal", "citation_count", "support"}
    /\ RootModes \subseteq {"credit_share", "full_R"}
    \* Every node has a step, some output has rows, _REP_STRIDE numbers the
    \* nodes of any tree, and the guard's threshold is a fraction.
    /\ Batches \subseteq Seq(Seq(Nat \ {0}))
    /\ \A b \in Batches :
          (\E i \in DOMAIN b : b[i] # <<>>) /\ \A i \in DOMAIN b : Len(b[i]) <= Stride
    /\ Rubrics \subseteq Seq(Int)
    /\ Thresholds \subseteq 0..100

\* The denominator of a report's score (weighted_report_reward).
Best(w) == Max({SumFunctionOnSet(w, {c \in DOMAIN w : w[c] > 0}), 1})

\* The weights without rubrics: the report's quality is all there is.
QualityOnly == <<1>>

StepsOf(output) == UNION {{j} \X (1..output[j]) : j \in DOMAIN output}

\* Every answer of the judge is worth a number of units that can be cut into
\* equal parts, one for each citation or node of a tree or for each point of the
\* support its nodes may get, and the cost into one for each row.
ASSUME ExactUnits ==
    \A b \in Batches : \A i \in DOMAIN b :
        /\ \A d \in 1..(Max({MaxCites, Scale}) * Len(b[i])) :
              \A w \in Rubrics \cup {QualityOnly} : Unit % (Scale * Best(w) * d) = 0
        /\ \A d \in 1..Cardinality(StepsOf(b[i])) : Gamma % d = 0

VARIABLES
    batch, weights, mode, rootMode, threshold,  \* the configuration
    rows,      \* the flat rows of the batch
    phase,     \* "score", "assign", "guard", "sweep", "train" or "done"
    bi,        \* the block at hand
    judged,    \* per block so far: the input whose rubrics were used, the ledger found
    verdict,   \* the judge's answers on the block at hand, or Raised
    reports,   \* per block so far: its R, or Raised
    ledgers,   \* _tree_ledgers: ids of the trees that have one
    tids, last, rewards,  \* per row: new_tids, new_is_last, new_rewards (at its end)
    learns     \* per row: the row its advantage is from, and its baseline's cohort

config == <<batch, weights, mode, rootMode, threshold, rows>>
layout == <<tids, last, rewards>>
vars == <<config, phase, bi, judged, verdict, reports, ledgers, layout, learns>>

-----------------------------------------------------------------------------
(* The flat rows, and how they are cut.                                      *)

FlatRows(b) ==
    FlattenSeq([i \in DOMAIN b |->
        FlattenSeq([j \in DOMAIN b[i] |->
            [k \in 1..b[i][j] |-> [out |-> i, node |-> j, step |-> k]]])])
N == Len(rows)

\* The id an output comes with: its prompt and its number among the samples.
InTid(i) == <<(i - 1) \div Samples, (i - 1) % Samples>>

Rid(r) == <<rows[r].out, rows[r].node>>
Depth(n) == IF n[2] = Len(batch[n[1]]) THEN 0 ELSE 1

\* Faulty variant: the last row of every node is flagged.
LastOfNode(r) == r = N \/ Rid(r + 1) # Rid(r)

LastOfOutput(r) == r = N \/ rows[r + 1].out # rows[r].out

BlockOf(r) == 1 + Cardinality({q \in 1..(r - 1) : LastOfOutput(q)})
Block(k) == {r \in 1..N : BlockOf(r) = k}
Blocks == BlockOf(N)

Nodes(k) == {Rid(r) : r \in Block(k)}
RowsOf(n) == {r \in 1..N : Rid(r) = n}
Root(k) ==
    IF \E n \in Nodes(k) : Depth(n) = 0
    THEN CHOOSE n \in Nodes(k) : Depth(n) = 0
    ELSE Rid(Min(Block(k)))
RootTid(k) == InTid(rows[Min(Block(k))].out)

\* Faulty variant: the first step's row is taken for the last's.
FirstRow(n) == CHOOSE r \in RowsOf(n) : rows[r].step = 1

LastRow(n) == CHOOSE r \in RowsOf(n) : \A q \in RowsOf(n) : rows[q].step <= rows[r].step

Init ==
    /\ batch \in Batches /\ rows = FlatRows(batch) /\ weights \in Rubrics /\ mode \in Modes
    /\ rootMode \in RootModes /\ threshold \in Thresholds
    /\ phase = "score" /\ bi = 1
    /\ judged = <<>> /\ verdict = Raised /\ reports = <<>>
    /\ ledgers = {InTid(i) : i \in DOMAIN batch}
    /\ tids = [r \in 1..N |-> InTid(rows[r].out)]
    /\ last = [r \in 1..N |-> FALSE]
    /\ rewards = [r \in 1..N |-> 0]
    /\ learns = <<>>

-----------------------------------------------------------------------------
(* compute_rer_rewards.                                                      *)

\* The weights of what the judge scores.
Asked == IF weights = <<>> THEN QualityOnly ELSE weights

Criteria == DOMAIN Asked
Positive == {c \in DOMAIN weights : weights[c] > 0}

ReportDen == Best(Asked)

\* Faulty variant: the credit of a criterion is not normalized.
RawWeight == 1

WDen == ReportDen

\* Scores per criterion, citations per node, and how far the claims a node is
\* cited for support a criterion: asked of cited nodes and satisfied criteria
\* only.  By support, how often a node is cited does not count.
Verdicts(k) ==
    {v \in [score : [Criteria -> 0..Scale],
            cites : [Nodes(k) -> 0..(IF mode = "support" THEN 1 ELSE MaxCites)],
            support : [Positive \X Nodes(k) -> IF mode = "support" THEN 0..Scale ELSE {0}]] :
        \A x \in Positive \X Nodes(k) :
            v.support[x] > 0 => v.score[x[1]] > 0 /\ v.cites[x[2]] > 0}

\* What the judge's answer on a criterion adds to the score, or takes off it.
Points(v, c) == v.score[c] * Asked[c] * Unit

Report(v) == SumFunction([c \in Criteria |-> Points(v, c)]) \div (Scale * ReportDen)

Contributors(v) == {n \in DOMAIN v.cites : v.cites[n] > 0}
Cites(v) == SumFunction(v.cites)
Support(v, c) == SumFunction([n \in DOMAIN v.cites |-> v.support[<<c, n>>]])

\* The part of a criterion's worth that goes to node n.
Share(v, c, n) ==
    ((Points(v, c) \div (Scale * WDen)) * v.support[<<c, n>>]) \div Max({Support(v, c), 1})

Evidence(v, n) ==
    CASE mode = "equal" ->
            IF n \in Contributors(v) THEN Report(v) \div Cardinality(Contributors(v)) ELSE 0
      [] mode = "citation_count" ->
            (Report(v) * v.cites[n]) \div Max({Cites(v), 1})
      [] mode = "support" ->
            SumFunction([c \in Positive |-> Share(v, c, n)])

Cost(k, n) == (Gamma * Cardinality(RowsOf(n))) \div Cardinality(Block(k))

Reward(k, n) ==
    CASE verdict = Raised -> 0
      [] verdict # Raised /\ mode = "inherited" ->
            IF n = Root(k) THEN Report(verdict) ELSE 0
      [] OTHER ->
            (IF rootMode = "full_R" /\ n = Root(k) THEN Report(verdict)
             ELSE Evidence(verdict, n)) - Cost(k, n)

-----------------------------------------------------------------------------
(* generate(): one block after the other.                                    *)

\* The prompt and the rubrics are those at the block's place in the input, the
\* ledger is found by the id of the block's first row.  The pass may raise.
Score ==
    /\ phase = "score"
    /\ judged' = Append(judged, [input |-> bi, ledger |-> RootTid(bi) \in ledgers])
    /\ \/ verdict' = Raised
       \/ verdict' \in Verdicts(bi)
    /\ phase' = "assign"
    /\ UNCHANGED <<config, bi, reports, ledgers, layout, learns>>

\* Faulty variant: nodes of all samples are numbered from 0.
PlainTid(k, n) ==
    <<RootTid(k)[1], RootTid(k)[2] + Cardinality({m \in Nodes(k) : LastRow(m) < LastRow(n)})>>

NodeTid(k, n) ==
    <<RootTid(k)[1],
      RootTid(k)[2] * Stride + Cardinality({m \in Nodes(k) : LastRow(m) < LastRow(n)})>>

Assign ==
    LET ends == {LastRow(n) : n \in Nodes(bi)}
    IN  /\ phase = "assign"
        /\ tids' = [r \in 1..N |-> IF r \in Block(bi) THEN NodeTid(bi, Rid(r)) ELSE tids[r]]
        /\ last' = [r \in 1..N |-> last[r] \/ r \in ends]
        /\ rewards' = [r \in 1..N |-> IF r \in ends THEN Reward(bi, Rid(r)) ELSE rewards[r]]
        /\ reports' = Append(reports, IF verdict = Raised THEN Raised ELSE Report(verdict))
        /\ ledgers' = ledgers \ {RootTid(bi)}
        /\ bi' = bi + 1
        /\ verdict' = Raised
        /\ phase' = IF bi = Blocks THEN "guard" ELSE "score"
        /\ UNCHANGED <<config, judged, learns>>

\* Faulty variant: the share of dead trees is taken of all trees.
AllTrees == DOMAIN reports

Scored == {k \in DOMAIN reports : reports[k] # Raised}

Zeros == {k \in DOMAIN reports : reports[k] = 0}

Guard ==
    /\ phase = "guard"
    /\ rewards' = IF /\ threshold > 0 /\ Scored # {}
                     /\ Cardinality(Zeros) * 100 >= threshold * Cardinality(Scored)
                  THEN [r \in 1..N |-> 0] ELSE rewards
    /\ phase' = "sweep"
    /\ UNCHANGED <<config, bi, judged, verdict, reports, ledgers, tids, last, learns>>

\* End-of-step hygiene: ledgers of trees without rows go here.
Sweep ==
    /\ phase = "sweep"
    /\ ledgers' = {}
    /\ phase' = "train"
    /\ UNCHANGED <<config, bi, judged, verdict, reports, layout, learns>>

-----------------------------------------------------------------------------
(* DrRlmTrainer: advantages per last row, broadcast by cumsum(is_last_step). *)

PadSize == (DpSize - (N % DpSize)) % DpSize

\* node_depth is attached only if it is as long as the padded is_last_step.
Threaded == N = N + PadSize

TrajId(r) == Cardinality({q \in 1..(r - 1) : last[q]})

\* The index into the advantages of the last rows.
AdvantageOf(r) ==
    CHOOSE q \in 1..N : last[q] /\ Cardinality({p \in 1..(q - 1) : last[p]}) = TrajId(r)

Cohort(q) == IF Threaded THEN <<tids[q][1], Depth(Rid(q))>> ELSE <<tids[q][1]>>

Train ==
    /\ phase = "train"
    /\ learns' = [r \in 1..N |-> [from |-> AdvantageOf(r), cohort |-> Cohort(AdvantageOf(r))]]
    /\ phase' = "done"
    /\ UNCHANGED <<config, bi, judged, verdict, reports, ledgers, layout>>

Next == Score \/ Assign \/ Guard \/ Sweep \/ Train

Spec == Init /\ [][Next]_vars

-----------------------------------------------------------------------------
\* Types; and no node is credited with more than the best report, so credit
\* stays on the scale of R.
TypeOK ==
    /\ batch \in Batches /\ weights \in Rubrics /\ mode \in Modes
    /\ rootMode \in RootModes /\ threshold \in Thresholds
    /\ phase \in {"score", "assign", "guard", "sweep", "train", "done"}
    /\ bi \in 1..(Blocks + 1)
    /\ judged \in Seq([input : 1..Blocks, ledger : BOOLEAN])
    /\ verdict = Raised \/ verdict \in Verdicts(bi)
    /\ Len(reports) = bi - 1
    /\ \A k \in DOMAIN reports : reports[k] = Raised \/ reports[k] \in Int
    /\ ledgers \subseteq {InTid(i) : i \in DOMAIN batch}
    /\ DOMAIN tids = 1..N /\ last \in [1..N -> BOOLEAN]
    /\ rewards \in [1..N -> Int] /\ \A r \in 1..N : rewards[r] <= Unit
    /\ phase = "done" => DOMAIN learns = 1..N

\* A tree is judged with its own prompt, rubrics and ledger, unless an earlier
\* output of the batch has no rows: then it is judged with another's.
JudgedAsItself ==
    \A k \in DOMAIN judged :
        LET out == rows[Min(Block(k))].out IN
        /\ judged[k].ledger
        /\ judged[k].input = out \/ \E i \in 1..(out - 1) : batch[i] = <<>>

\* What the nodes of a tree get adds up, whatever is cited and supported: to R
\* if any evidence is cited; by judged support, to R without what the negative
\* criteria took off it and without the criteria nobody supports; always less
\* the cost.  "Credit is conserved" (rer_reward.py) holds in this sense only.
Due(v) ==
    LET worth == [c \in Criteria |-> Points(v, c) \div (Scale * ReportDen)]
    IN  CASE mode = "inherited" -> Report(v)
          [] mode \in {"equal", "citation_count"} ->
                (IF Contributors(v) = {} THEN 0 ELSE Report(v)) - Gamma
          [] mode = "support" ->
                Report(v) - Gamma - SumFunctionOnSet(worth, Criteria \ Positive)
                    - SumFunctionOnSet(worth, {c \in Positive : Support(v, c) = 0})

CreditAddsUp ==
    [][ bi' # bi /\ verdict # Raised /\ rootMode = "credit_share"
        => SumFunctionOnSet(rewards', Block(bi)) = Due(verdict)
      ]_vars

\* What rer_reward.py promises of judged support: when every satisfied criterion
\* has a contributor, the credit, before the cost, sums to R.  (Contributors are
\* the cited nodes; only positive criteria are asked whom they are supported by.)
SupportedCreditIsR ==
    [][ /\ bi' # bi /\ verdict # Raised /\ rootMode = "credit_share" /\ mode = "support"
        /\ Contributors(verdict) # {}
        /\ \A c \in Positive : verdict.score[c] > 0 => Support(verdict, c) > 0
        => SumFunctionOnSet(rewards', Block(bi)) + Gamma = Report(verdict)
      ]_vars

\* When no tree of the batch was scored above or below zero, because the judge is
\* down in one way or the other, the update learns nothing, costs included.
OutageIsSilent ==
    (/\ phase \in {"sweep", "train", "done"} /\ threshold > 0
     /\ \A k \in DOMAIN reports : reports[k] \in {Raised, 0})
    => \A r \in 1..N : rewards[r] = 0

\* Every row learns from its own node's reward: node and trajectory are the same
\* partition of the rows, and the broadcast by position does not mix them.  The
\* baseline is taken over nodes of the same prompt and, if the batch needs no
\* padding, of the same depth.
LearnsFromItsNode ==
    phase = "done" =>
        /\ \A q, r \in 1..N : tids[q] = tids[r] <=> Rid(q) = Rid(r)
        /\ \A r \in 1..N : Rid(learns[r].from) = Rid(r)
        /\ \A q, r \in 1..N : learns[q].cohort = learns[r].cohort =>
                /\ InTid(Rid(q)[1])[1] = InTid(Rid(r)[1])[1]
                /\ N % DpSize = 0 => Depth(Rid(q)) = Depth(Rid(r))
=============================================================================
