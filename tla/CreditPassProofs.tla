-------------------------- MODULE CreditPassProofs --------------------------
(***************************************************************************)
(* The credit pass, for any batch, rubric, mode and threshold: the flat    *)
(* rows are cut back into the trees they came from, every tree is judged   *)
(* as itself and paid in full, every row learns from its own node, and     *)
(* an outage of the judge teaches nothing.                                 *)
(*                                                                         *)
(* First what the rows look like and how they fall into blocks and nodes   *)
(* (RowOrder, BlocksAreOutputs, NodesOfBlock), then what the pass keeps:   *)
(* Phases, Judging, Marks, Learning, Rewarding.                            *)
(***************************************************************************)
EXTENDS CreditPass, DataLemmas

-----------------------------------------------------------------------------
(* The flat rows.                                                            *)

Row == [out : Nat, node : Nat, step : Nat]

IsRowOf(x, b) ==
    x.out \in 1..Len(b) /\ x.node \in 1..Len(b[x.out]) /\ x.step \in 1..b[x.out][x.node]

Precedes(x, y) ==
    \/ x.out < y.out
    \/ x.out = y.out /\ x.node < y.node
    \/ x.out = y.out /\ x.node = y.node /\ x.step < y.step

\* F has a row for every step of b, in the order of outputs, nodes and steps.
FlatOf(F, b) ==
    /\ F \in Seq(Row)
    /\ \A p \in 1..Len(F) : IsRowOf(F[p], b)
    /\ \A p, q \in 1..Len(F) : p < q => Precedes(F[p], F[q])
    /\ \A i \in 1..Len(b) : \A j \in 1..Len(b[i]) : \A k \in 1..b[i][j] :
          \E p \in 1..Len(F) : F[p] = [out |-> i, node |-> j, step |-> k]

RowsOfOutput(b, i) ==
    FlattenSeq([j \in DOMAIN b[i] |->
        [k \in 1..b[i][j] |-> [out |-> i, node |-> j, step |-> k]]])

\* The rows of one output are its nodes' steps, in order.
LEMMA OutputRows ==
    ASSUME NEW b \in Seq(Seq(Nat \ {0})), NEW i \in 1..Len(b)
    PROVE  LET R == RowsOfOutput(b, i) IN
           /\ R \in Seq(Row)
           /\ \A p \in 1..Len(R) : IsRowOf(R[p], b) /\ R[p].out = i
           /\ \A p, q \in 1..Len(R) : p < q => Precedes(R[p], R[q])
           /\ \A j \in 1..Len(b[i]) : \A k \in 1..b[i][j] :
                 \E p \in 1..Len(R) : R[p] = [out |-> i, node |-> j, step |-> k]
<1> DEFINE R == RowsOfOutput(b, i)
           rec(j, k) == [out |-> i, node |-> j, step |-> k]
           ss == [j \in DOMAIN b[i] |-> [k \in 1..b[i][j] |-> rec(j, k)]]
<1>1. /\ b[i] \in Seq(Nat \ {0}) /\ DOMAIN b[i] = 1..Len(b[i]) /\ Len(b[i]) \in Nat /\ i \in Nat
      /\ \A j \in 1..Len(b[i]) : b[i][j] \in Nat \ {0}
  OBVIOUS
<1>2. ASSUME NEW j \in 1..Len(b[i])
      PROVE  /\ ss[j] \in Seq(Row) /\ Len(ss[j]) = b[i][j]
             /\ \A k \in 1..b[i][j] : ss[j][k] = rec(j, k)
  <2> DEFINE t == [k \in 1..b[i][j] |-> rec(j, k)]
  <2>1. ss[j] = t
    BY <1>1
  <2>2. \A k \in 1..b[i][j] : rec(j, k) \in Row
    BY <1>1 DEF Row
  <2>3. t \in [1..b[i][j] -> Row] /\ b[i][j] \in Nat
    BY <1>1, <2>2
  <2>4. t \in Seq(Row) /\ Len(t) = b[i][j]
    <3> HIDE DEF t
    <3> QED BY <2>3, IsSequence
  <2>5. \A k \in 1..b[i][j] : t[k] = rec(j, k)
    OBVIOUS
  <2> HIDE DEF t, ss, rec
  <2> QED BY <2>1, <2>4, <2>5
<1>3. ss \in Seq(Seq(Row)) /\ Len(ss) = Len(b[i])
  <2>1. ss \in [1..Len(b[i]) -> Seq(Row)]
    BY <1>1, <1>2
  <2> HIDE DEF ss
  <2> QED BY <1>1, <2>1, IsSequence
<1>4. R = FlattenSeq(ss)
  BY DEF RowsOfOutput
<1> HIDE DEF ss, R
<1>5. R \in Seq(Row) /\ \E a, c : FlattenedFrom(R, ss, Len(ss), a, c)
  BY <1>3, <1>4, Flattened
<1>6. PICK a, c : FlattenedFrom(R, ss, Len(ss), a, c)
  BY <1>5
<1>7. /\ \A p \in 1..Len(R) : /\ a[p] \in 1..Len(b[i]) /\ c[p] \in 1..b[i][a[p]]
                              /\ R[p] = rec(a[p], c[p])
      /\ \A p, q \in 1..Len(R) : p < q => a[p] < a[q] \/ (a[p] = a[q] /\ c[p] < c[q])
  <2>1. ASSUME NEW p \in 1..Len(R)
        PROVE  a[p] \in 1..Len(b[i]) /\ c[p] \in 1..b[i][a[p]] /\ R[p] = rec(a[p], c[p])
    <3>1. a[p] \in 1..Len(b[i])
      BY <1>3, <1>6 DEF FlattenedFrom
    <3>2. c[p] \in 1..Len(ss[a[p]]) /\ R[p] = ss[a[p]][c[p]]
      BY <1>6 DEF FlattenedFrom
    <3> HIDE DEF rec
    <3> QED BY <1>2, <3>1, <3>2
  <2>2. \A p, q \in 1..Len(R) : p < q => a[p] < a[q] \/ (a[p] = a[q] /\ c[p] < c[q])
    BY <1>6 DEF FlattenedFrom
  <2> QED BY <2>1, <2>2
<1>8. ASSUME NEW j \in 1..Len(b[i]), NEW k \in 1..b[i][j]
      PROVE  \E p \in 1..Len(R) : R[p] = rec(j, k)
  <2>1. k \in 1..Len(ss[j]) /\ j \in 1..Len(ss)
    BY <1>2, <1>3
  <2>2. PICK p \in 1..Len(R) : a[p] = j /\ c[p] = k
    BY <1>6, <2>1 DEF FlattenedFrom
  <2> QED BY <1>7, <2>2
<1>9. \A p \in 1..Len(R) : IsRowOf(R[p], b) /\ R[p].out = i /\ R[p].node = a[p] /\ R[p].step = c[p]
  <2>1. ASSUME NEW p \in 1..Len(R)
        PROVE  R[p].out = i /\ R[p].node = a[p] /\ R[p].step = c[p]
    <3>1. R[p] = rec(a[p], c[p])
      BY <1>7
    <3> QED BY <3>1
  <2> HIDE DEF rec
  <2> QED BY <1>1, <1>7, <2>1 DEF IsRowOf
<1>10. \A p, q \in 1..Len(R) : p < q => Precedes(R[p], R[q])
  <2> SUFFICES ASSUME NEW p \in 1..Len(R), NEW q \in 1..Len(R), p < q
                PROVE  Precedes(R[p], R[q])
    OBVIOUS
  <2>1. a[p] < a[q] \/ (a[p] = a[q] /\ c[p] < c[q])
    BY <1>7
  <2>2. /\ R[p].out = i /\ R[p].node = a[p] /\ R[p].step = c[p]
        /\ R[q].out = i /\ R[q].node = a[q] /\ R[q].step = c[q]
    BY <1>9
  <2> QED BY <2>1, <2>2 DEF Precedes
<1> QED BY <1>5, <1>8, <1>9, <1>10 DEF R

\* FlatRows gives every step of every output one row, in order.
LEMMA RowsAreFlat ==
    ASSUME NEW b \in Seq(Seq(Nat \ {0})) PROVE FlatOf(FlatRows(b), b)
<1> DEFINE F == FlatRows(b)
           ss == [i \in DOMAIN b |-> RowsOfOutput(b, i)]
<1>1. DOMAIN b = 1..Len(b) /\ Len(b) \in Nat
  OBVIOUS
<1>2. \A i \in 1..Len(b) : ss[i] = RowsOfOutput(b, i) /\ ss[i] \in Seq(Row)
  BY <1>1, OutputRows
<1>3. ss \in Seq(Seq(Row)) /\ Len(ss) = Len(b)
  <2>1. ss \in [1..Len(b) -> Seq(Row)]
    BY <1>1, <1>2
  <2> HIDE DEF ss
  <2> QED BY <1>1, <2>1, IsSequence
<1>4. F = FlattenSeq(ss)
  BY DEF FlatRows, RowsOfOutput
<1> HIDE DEF ss, F
<1>5. F \in Seq(Row) /\ \E a, c : FlattenedFrom(F, ss, Len(ss), a, c)
  BY <1>3, <1>4, Flattened
<1>6. PICK a, c : FlattenedFrom(F, ss, Len(ss), a, c)
  BY <1>5
<1>7. ASSUME NEW i \in 1..Len(b)
      PROVE  /\ ss[i] \in Seq(Row)
             /\ \A p \in 1..Len(ss[i]) : IsRowOf(ss[i][p], b) /\ ss[i][p].out = i
             /\ \A p, q \in 1..Len(ss[i]) : p < q => Precedes(ss[i][p], ss[i][q])
             /\ \A j \in 1..Len(b[i]) : \A k \in 1..b[i][j] :
                   \E p \in 1..Len(ss[i]) : ss[i][p] = [out |-> i, node |-> j, step |-> k]
  <2>1. ss[i] = RowsOfOutput(b, i) /\ ss[i] \in Seq(Row)
    BY <1>2
  <2> QED BY <2>1, OutputRows
<1>8. ASSUME NEW p \in 1..Len(F)
      PROVE  /\ a[p] \in 1..Len(b) /\ c[p] \in 1..Len(ss[a[p]]) /\ F[p] = ss[a[p]][c[p]]
             /\ IsRowOf(F[p], b) /\ F[p].out = a[p]
  <2>1. a[p] \in 1..Len(b) /\ c[p] \in 1..Len(ss[a[p]]) /\ F[p] = ss[a[p]][c[p]]
    BY <1>3, <1>6 DEF FlattenedFrom
  <2> QED BY <1>7, <2>1
<1>9. ASSUME NEW p \in 1..Len(F), NEW q \in 1..Len(F), p < q PROVE Precedes(F[p], F[q])
  <2>1. a[p] < a[q] \/ (a[p] = a[q] /\ c[p] < c[q])
    BY <1>6, <1>9 DEF FlattenedFrom
  <2>2. CASE a[p] < a[q]
    BY <1>8, <2>2 DEF Precedes
  <2>3. CASE a[p] = a[q] /\ c[p] < c[q]
    <3>1. /\ a[p] \in 1..Len(b) /\ c[p] \in 1..Len(ss[a[p]]) /\ c[q] \in 1..Len(ss[a[p]])
          /\ F[p] = ss[a[p]][c[p]] /\ F[q] = ss[a[p]][c[q]]
      BY <1>8, <2>3
    <3>2. Precedes(ss[a[p]][c[p]], ss[a[p]][c[q]])
      BY <1>7, <2>3, <3>1
    <3> QED BY <3>1, <3>2, Zenon
  <2> QED BY <2>1, <2>2, <2>3
<1>10. ASSUME NEW i \in 1..Len(b), NEW j \in 1..Len(b[i]), NEW k \in 1..b[i][j]
       PROVE  \E p \in 1..Len(F) : F[p] = [out |-> i, node |-> j, step |-> k]
  <2>1. PICK m \in 1..Len(ss[i]) : ss[i][m] = [out |-> i, node |-> j, step |-> k]
    BY <1>7
  <2>2. PICK p \in 1..Len(F) : a[p] = i /\ c[p] = m
    BY <1>3, <1>6 DEF FlattenedFrom
  <2> QED BY <1>8, <2>1, <2>2
<1> QED BY <1>5, <1>8, <1>9, <1>10 DEF FlatOf, F

\* The configuration, which no step changes.
Cut == batch \in Batches /\ rows = FlatRows(batch)

\* The rows in order: outputs follow each other, in an output its nodes, in a
\* node its steps; an output with a node has rows.
LEMMA RowOrder ==
    ASSUME Cut
    PROVE  /\ N \in Nat \ {0}
           /\ batch \in Seq(Seq(Nat \ {0})) /\ \A i \in 1..Len(batch) : Len(batch[i]) \in 0..Stride
           /\ \A r \in 1..N : /\ rows[r].out \in 1..Len(batch) /\ rows[r].step \in Nat
                              /\ rows[r].node \in 1..Len(batch[rows[r].out])
           /\ \A q, r \in 1..N : q < r => Precedes(rows[q], rows[r])
           /\ \A i \in 1..Len(batch) : batch[i] # <<>> => \E r \in 1..N : rows[r].out = i
<1>1. batch \in Seq(Seq(Nat \ {0}))
  BY CreditAssumption DEF Cut
<1>2. FlatOf(rows, batch)
  <2>1. FlatOf(FlatRows(batch), batch)
    BY <1>1, RowsAreFlat
  <2> QED BY <2>1 DEF Cut
<1>3. /\ rows \in Seq(Row) /\ N \in Nat
      /\ \A p \in 1..N : IsRowOf(rows[p], batch) /\ rows[p] \in Row
      /\ \A p, q \in 1..N : p < q => Precedes(rows[p], rows[q])
      /\ \A i \in 1..Len(batch) : \A j \in 1..Len(batch[i]) : \A k \in 1..batch[i][j] :
          \E p \in 1..N : rows[p] = [out |-> i, node |-> j, step |-> k]
  <2>1. rows \in Seq(Row)
    BY <1>2 DEF FlatOf
  <2>2. N \in Nat /\ \A p \in 1..N : rows[p] \in Row
    BY <2>1 DEF N
  <2> QED BY <1>2, <2>1, <2>2 DEF FlatOf, N
<1>4. ASSUME NEW i \in 1..Len(batch), batch[i] # <<>> PROVE \E r \in 1..N : rows[r].out = i
  <2>1. batch[i] \in Seq(Nat \ {0})
    BY <1>1
  <2>2. 1 \in 1..Len(batch[i]) /\ batch[i][1] \in Nat \ {0}
    BY <2>1, <1>4
  <2>3. 1 \in 1..batch[i][1]
    BY <2>2
  <2>4. PICK p \in 1..N : rows[p] = [out |-> i, node |-> 1, step |-> 1]
    BY <1>3, <2>2, <2>3
  <2>5. rows[p].out = i
    BY <2>4
  <2> QED BY <2>5
<1>5. N # 0
  <2>1. PICK i \in DOMAIN batch : batch[i] # <<>>
    BY CreditAssumption DEF Cut
  <2>2. i \in 1..Len(batch)
    BY <1>1
  <2>3. PICK r \in 1..N : rows[r].out = i
    BY <1>4, <2>1, <2>2
  <2> QED BY <2>3
<1>6. \A i \in 1..Len(batch) : Len(batch[i]) \in 0..Stride
  <2>1. \A i \in 1..Len(batch) : Len(batch[i]) \in Nat /\ i \in DOMAIN batch
    BY <1>1
  <2>2. Stride \in Nat /\ \A i \in DOMAIN batch : Len(batch[i]) <= Stride
    BY CreditAssumption DEF Cut
  <2> QED BY <2>1, <2>2
<1>7. ASSUME NEW r \in 1..N
      PROVE  /\ rows[r].out \in 1..Len(batch) /\ rows[r].step \in Nat
             /\ rows[r].node \in 1..Len(batch[rows[r].out])
  <2>1. rows[r].step \in Nat
    BY <1>3 DEF Row
  <2> QED BY <1>3, <2>1 DEF IsRowOf
<1> QED BY <1>1, <1>3, <1>4, <1>5, <1>6, <1>7

-----------------------------------------------------------------------------
(* Blocks are outputs.                                                       *)

Out(r) == rows[r].out

OutputEnds == {r \in 1..N : LastOfOutput(r)}

\* The outputs of the rows do not decrease.
LEMMA OutOrder ==
    ASSUME Cut, NEW q \in 1..N, NEW r \in 1..N, q <= r
    PROVE  Out(q) \in 1..Len(batch) /\ Out(r) \in 1..Len(batch) /\ Out(q) <= Out(r)
<1>1. Out(q) \in 1..Len(batch) /\ Out(r) \in 1..Len(batch)
  BY RowOrder DEF Out
<1>2. q < r => Precedes(rows[q], rows[r])
  BY RowOrder
<1>3. batch \in Seq(Seq(Nat \ {0}))
  BY RowOrder
<1>4. Out(q) <= Out(r)
  BY <1>1, <1>2, <1>3 DEF Out, Precedes
<1> QED BY <1>1, <1>4

\* Between rows of different outputs there is an output's last row.
LEMMA EndsBetween ==
    ASSUME Cut, NEW q \in 1..N, NEW r \in 1..N, q <= r
    PROVE  Out(q) = Out(r) <=> \A e \in q..(r - 1) : e \notin OutputEnds
<1>1. N \in Nat
  BY RowOrder
<1>2. ASSUME Out(q) = Out(r), NEW e \in q..(r - 1) PROVE e \notin OutputEnds
  <2>1. e \in 1..N /\ e + 1 \in 1..N /\ q <= e /\ e <= e + 1 /\ e + 1 <= r /\ e # N
    BY <1>1
  <2>2. Out(q) <= Out(e) /\ Out(e) <= Out(e + 1) /\ Out(e + 1) <= Out(r)
    BY <2>1, OutOrder
  <2>3. Out(e) \in Int /\ Out(e + 1) \in Int /\ Out(q) \in Int
    BY <2>1, RowOrder DEF Out
  <2>4. Out(e + 1) = Out(e)
    BY <1>2, <2>2, <2>3
  <2> QED BY <2>1, <2>4 DEF OutputEnds, LastOfOutput, Out
<1>3. ASSUME \A e \in q..(r - 1) : e \notin OutputEnds PROVE Out(q) = Out(r)
  <2> DEFINE Good == {d \in 0..(r - q) : Out(q) = Out(q + d)}
  <2>1. r - q \in Nat /\ q + (r - q) = r /\ q + 0 = q /\ 0 \in 0..(r - q) /\ r - q \in 0..(r - q)
    OBVIOUS
  <2>2. 0 \in Good
    BY <2>1
  <2>3. ASSUME NEW d \in 1..(r - q), d - 1 \in Good PROVE d \in Good
    <3> DEFINE e == q + (d - 1)
    <3>1. e \in q..(r - 1) /\ e + 1 = q + d /\ d \in 0..(r - q) /\ e \in 1..N
      BY <1>1
    <3>2. Out(q) = Out(e)
      BY <2>3
    <3> HIDE DEF e
    <3>3. e \notin OutputEnds
      BY <1>3, <3>1
    <3>4. Out(e + 1) = Out(e)
      BY <3>1, <3>3 DEF OutputEnds, LastOfOutput, Out
    <3> QED BY <3>1, <3>2, <3>4
  <2>4. \A d \in 0..(r - q) : d \in Good
    <3> HIDE DEF Good
    <3> QED BY <2>1, <2>2, <2>3, UpTo
  <2> QED BY <2>1, <2>4
<1> QED BY <1>2, <1>3

\* BlockOf counts the outputs' last rows.
LEMMA BlockCount ==
    ASSUME Cut, NEW r \in 1..N
    PROVE  BlockOf(r) = 1 + MembersBefore(OutputEnds, r)
<1>1. {q \in 1..(r - 1) : LastOfOutput(q)} = {q \in 1..(r - 1) : q \in OutputEnds}
  <2>1. N \in Nat
    BY RowOrder
  <2>2. \A q \in 1..(r - 1) : q \in 1..N
    BY <2>1
  <2> QED BY <2>2 DEF OutputEnds
<1> QED BY <1>1 DEF BlockOf, MembersBefore

\* Two rows are in the same block exactly when they come from the same output,
\* and blocks follow the order of the rows.
LEMMA BlocksAreOutputs ==
    ASSUME Cut
    PROVE  /\ \A r \in 1..N : BlockOf(r) \in 1..Blocks
           /\ \A q, r \in 1..N : q <= r => BlockOf(q) <= BlockOf(r)
           /\ \A q, r \in 1..N : BlockOf(q) = BlockOf(r) <=> Out(q) = Out(r)
<1>1. N \in Nat \ {0} /\ \A r \in 1..N : r \in Nat \ {0}
  BY RowOrder
<1>2. ASSUME NEW q \in 1..N, NEW r \in 1..N, q <= r
      PROVE  BlockOf(q) <= BlockOf(r) /\ (BlockOf(q) = BlockOf(r) <=> Out(q) = Out(r))
  <2>1. q \in Nat \ {0} /\ r \in Nat \ {0}
    BY <1>1
  <2>2. /\ MembersBefore(OutputEnds, q) <= MembersBefore(OutputEnds, r)
        /\ MembersBefore(OutputEnds, q) = MembersBefore(OutputEnds, r) <=> \A e \in q..(r - 1) : e \notin OutputEnds
    BY <2>1, <1>2, CountGrows
  <2>3. MembersBefore(OutputEnds, q) \in Nat /\ MembersBefore(OutputEnds, r) \in Nat
    BY <2>1, CountBefore
  <2>4. BlockOf(q) = 1 + MembersBefore(OutputEnds, q) /\ BlockOf(r) = 1 + MembersBefore(OutputEnds, r)
    BY BlockCount
  <2>5. BlockOf(q) <= BlockOf(r)
    BY <2>2, <2>3, <2>4
  <2>6. BlockOf(q) = BlockOf(r) <=> MembersBefore(OutputEnds, q) = MembersBefore(OutputEnds, r)
    BY <2>3, <2>4
  <2>7. Out(q) = Out(r) <=> \A e \in q..(r - 1) : e \notin OutputEnds
    BY <1>2, EndsBetween
  <2> QED BY <2>2, <2>5, <2>6, <2>7
<1>3. ASSUME NEW r \in 1..N PROVE BlockOf(r) \in Nat \ {0}
  <2>1. r \in Nat \ {0}
    BY <1>1
  <2>2. MembersBefore(OutputEnds, r) \in Nat
    BY <2>1, CountBefore
  <2> QED BY <2>2, BlockCount
<1>4. ASSUME NEW r \in 1..N PROVE BlockOf(r) \in 1..Blocks
  <2>1. N \in 1..N /\ r <= N
    BY <1>1
  <2>2. BlockOf(r) <= BlockOf(N)
    BY <1>2, <2>1
  <2> QED BY <1>3, <2>1, <2>2 DEF Blocks
<1>5. ASSUME NEW q \in 1..N, NEW r \in 1..N PROVE BlockOf(q) = BlockOf(r) <=> Out(q) = Out(r)
  <2>1. q <= r \/ r <= q
    BY <1>1
  <2> QED BY <1>2, <2>1
<1> QED BY <1>2, <1>4, <1>5

\* No block is empty.
LEMMA BlocksHaveRows ==
    ASSUME Cut, NEW k \in 1..Blocks
    PROVE  \E r \in 1..N : BlockOf(r) = k
<1>1. N \in Nat \ {0} /\ N \in 1..N
  BY RowOrder
<1>2. Blocks \in Nat /\ BlockOf(N) = Blocks /\ \A r \in 1..N : BlockOf(r) \in 1..Blocks
  <2>1. BlockOf(N) \in 1..Blocks /\ \A r \in 1..N : BlockOf(r) \in 1..Blocks
    BY <1>1, BlocksAreOutputs
  <2>2. BlockOf(N) = 1 + MembersBefore(OutputEnds, N) /\ MembersBefore(OutputEnds, N) \in Nat
    BY <1>1, BlockCount, CountBefore
  <2> QED BY <2>1, <2>2 DEF Blocks
<1> DEFINE S == {r \in 1..N : k <= BlockOf(r)}
<1>3. N \in S
  BY <1>1, <1>2
<1>4. PICK r \in S : \A q \in S : r <= q
  <2>1. S \in SUBSET Nat /\ S # {}
    BY <1>1, <1>3
  <2> HIDE DEF S
  <2> QED BY <2>1, LeastNumber
<1>5. r \in 1..N /\ k <= BlockOf(r) /\ \A q \in 1..N : q < r => BlockOf(q) < k
  <2>1. \A q \in 1..N : q < r => q \notin S
    BY <1>1, <1>4
  <2>2. \A q \in 1..N : BlockOf(q) \in Int
    BY <1>2
  <2> QED BY <1>4, <2>1, <2>2
<1>6. CASE r = 1
  <2>1. BlockOf(1) = 1 + MembersBefore(OutputEnds, 1)
    BY <1>5, <1>6, BlockCount
  <2>2. MembersBefore(OutputEnds, 1) = 0
    <3>1. 1 \in Nat \ {0}
      OBVIOUS
    <3> QED BY <3>1, CountBefore
  <2> QED BY <1>5, <1>6, <2>1, <2>2
<1>7. CASE r # 1
  <2> DEFINE p == r - 1
  <2>1. p \in 1..N /\ p < r /\ p \in Nat \ {0} /\ r = p + 1
    BY <1>1, <1>5, <1>7
  <2> HIDE DEF p
  <2>2. /\ MembersBefore(OutputEnds, p) \in Nat
        /\ MembersBefore(OutputEnds, p + 1)
             = IF p \in OutputEnds THEN MembersBefore(OutputEnds, p) + 1 ELSE MembersBefore(OutputEnds, p)
    BY <2>1, CountBefore
  <2>3. BlockOf(p) = 1 + MembersBefore(OutputEnds, p) /\ BlockOf(r) = 1 + MembersBefore(OutputEnds, r)
    BY <1>5, <2>1, BlockCount
  <2>4. BlockOf(r) <= BlockOf(p) + 1 /\ BlockOf(p) \in Int /\ BlockOf(r) \in Int
    BY <2>1, <2>2, <2>3
  <2>5. BlockOf(p) < k
    BY <1>5, <2>1
  <2>6. BlockOf(r) = k
    BY <1>5, <2>4, <2>5
  <2> QED BY <1>5, <2>6
<1> QED BY <1>6, <1>7

First(k) == Min(Block(k))

\* The first row of a block tells which output the block is.
LEMMA FirstRows ==
    ASSUME Cut, NEW k \in 1..Blocks
    PROVE  /\ First(k) \in 1..N /\ BlockOf(First(k)) = k
           /\ \A r \in 1..N : BlockOf(r) = k <=> Out(r) = Out(First(k))
<1>1. N \in Nat
  BY RowOrder
<1>2. Block(k) \in SUBSET Nat /\ Block(k) # {}
  <2>1. \E r \in 1..N : BlockOf(r) = k
    BY BlocksHaveRows
  <2> QED BY <1>1, <2>1 DEF Block
<1>3. \E x \in Block(k) : \A y \in Block(k) : x <= y
  BY <1>2, LeastNumber
<1>4. First(k) \in Block(k)
  BY <1>3 DEF First, Min
<1>5. First(k) \in 1..N /\ BlockOf(First(k)) = k
  BY <1>4 DEF Block
<1>6. \A r \in 1..N : BlockOf(r) = BlockOf(First(k)) <=> Out(r) = Out(First(k))
  BY <1>5, BlocksAreOutputs
<1> QED BY <1>5, <1>6

\* Outputs have different ids (InTid pairs the prompt with the sample's number).
LEMMA IdsDiffer ==
    ASSUME NEW i \in Nat \ {0}, NEW j \in Nat \ {0}, InTid(i) = InTid(j)
    PROVE  i = j
<1>1. i - 1 \in Nat /\ j - 1 \in Nat /\ Samples \in Nat \ {0}
  BY CreditAssumption
<1>2. i - 1 = (((i - 1) \div Samples) * Samples) + ((i - 1) % Samples)
  BY <1>1, DivMod
<1>3. j - 1 = (((j - 1) \div Samples) * Samples) + ((j - 1) % Samples)
  BY <1>1, DivMod
<1>4. (i - 1) \div Samples = (j - 1) \div Samples /\ (i - 1) % Samples = (j - 1) % Samples
  <2> DEFINE a == (i - 1) \div Samples
             b == (i - 1) % Samples
             c == (j - 1) \div Samples
             d == (j - 1) % Samples
  <2>1. <<a, b>> = <<c, d>>
    BY DEF InTid
  <2> HIDE DEF a, b, c, d
  <2>2. a = c /\ b = d
    BY <2>1
  <2> QED BY <2>2 DEF a, b, c, d
<1>5. i - 1 = j - 1
  BY <1>2, <1>3, <1>4, Zenon
<1> QED BY <1>1, <1>5

\* Trees of different blocks have different ids.
LEMMA RootTids ==
    ASSUME Cut
    PROVE  /\ \A k \in 1..Blocks : /\ RootTid(k) = InTid(Out(First(k)))
                                   /\ Out(First(k)) \in 1..Len(batch)
           /\ \A j, k \in 1..Blocks : RootTid(j) = RootTid(k) => j = k
<1>1. ASSUME NEW k \in 1..Blocks
      PROVE  /\ RootTid(k) = InTid(Out(First(k))) /\ Out(First(k)) \in 1..Len(batch)
             /\ Out(First(k)) \in Nat \ {0} /\ First(k) \in 1..N /\ BlockOf(First(k)) = k
  <2>1. First(k) \in 1..N /\ BlockOf(First(k)) = k
    BY FirstRows
  <2>2. Out(First(k)) \in 1..Len(batch)
    BY <2>1, RowOrder DEF Out
  <2>3. Out(First(k)) \in Nat \ {0}
    BY <2>2
  <2> QED BY <2>1, <2>2, <2>3 DEF RootTid, First, Out
<1>2. ASSUME NEW j \in 1..Blocks, NEW k \in 1..Blocks, RootTid(j) = RootTid(k) PROVE j = k
  <2>1. Out(First(j)) = Out(First(k))
    <3>1. InTid(Out(First(j))) = InTid(Out(First(k)))
      BY <1>1, <1>2
    <3>2. Out(First(j)) \in Nat \ {0} /\ Out(First(k)) \in Nat \ {0}
      BY <1>1
    <3> HIDE DEF InTid
    <3> QED BY <3>1, <3>2, IdsDiffer
  <2>2. BlockOf(First(j)) = BlockOf(First(k))
    BY <1>1, <2>1, BlocksAreOutputs
  <2> QED BY <1>1, <2>2
<1> QED BY <1>1, <1>2

\* As long as every earlier output has rows, a block stands at its output's place.
LEMMA BlockNumbers ==
    ASSUME Cut, NEW r \in 1..N, \A i \in 1..(Out(r) - 1) : batch[i] # <<>>
    PROVE  BlockOf(r) = Out(r)
<1> DEFINE Good == {0} \cup {q \in 1..r : BlockOf(q) = Out(q)}
<1>1. N \in Nat \ {0} /\ r \in Nat
  BY RowOrder
<1>2. ASSUME NEW q \in 1..r
      PROVE  q \in 1..N /\ Out(q) \in 1..Len(batch) /\ Len(batch) \in Nat /\ Out(q) <= Out(r)
  <2>1. q \in 1..N /\ q <= r
    BY <1>1
  <2>2. batch \in Seq(Seq(Nat \ {0}))
    BY RowOrder
  <2> QED BY <2>1, <2>2, OutOrder
<1>3. ASSUME NEW q \in 1..r, NEW i \in 1..(Out(q) - 1)
      PROVE  \E p \in 1..(q - 1) : Out(p) = i
  <2>1. i \in 1..(Out(r) - 1) /\ i \in 1..Len(batch) /\ i < Out(q)
    <3>1. Out(q) \in 1..Len(batch) /\ Len(batch) \in Nat /\ Out(q) <= Out(r) /\ Out(r) \in 1..Len(batch)
      BY <1>1, <1>2
    <3> QED BY <3>1
  <2>2. batch[i] # <<>>
    BY <2>1
  <2>3. PICK p \in 1..N : Out(p) = i
    BY <2>1, <2>2, RowOrder DEF Out
  <2>4. ~(q <= p)
    <3>1. ASSUME q <= p PROVE FALSE
      <4>1. Out(q) <= Out(p) /\ Out(q) \in 1..Len(batch) /\ Len(batch) \in Nat
        BY <1>2, <3>1, OutOrder
      <4> QED BY <2>1, <2>3, <4>1
    <3> QED BY <3>1
  <2>5. p \in 1..(q - 1)
    BY <1>1, <2>4
  <2> QED BY <2>3, <2>5
<1>4. ASSUME NEW q \in 1..r, q - 1 \in Good PROVE q \in Good
  <2>1. CASE q = 1
    <3>1. Out(1) \in 1..Len(batch) /\ Len(batch) \in Nat
      BY <1>2, <2>1
    <3>2. ~(\E i \in 1..(Out(1) - 1) : TRUE)
      BY <1>3, <2>1
    <3>3. Out(1) = 1
      BY <3>1, <3>2
    <3>4. BlockOf(1) = 1 + MembersBefore(OutputEnds, 1)
      BY <1>2, <2>1, BlockCount
    <3>5. MembersBefore(OutputEnds, 1) = 0
      <4>1. 1 \in Nat \ {0}
        OBVIOUS
      <4> QED BY <4>1, CountBefore
    <3> QED BY <2>1, <3>3, <3>4, <3>5
  <2>2. CASE q # 1
    <3> DEFINE p == q - 1
    <3>1. p \in 1..r /\ q = p + 1 /\ p \in Nat \ {0} /\ p <= q /\ p < N
      BY <1>1, <2>2
    <3>2. BlockOf(p) = Out(p)
      BY <1>4, <3>1
    <3> HIDE DEF p
    <3>3. /\ p \in 1..N /\ q \in 1..N /\ Out(p) \in 1..Len(batch) /\ Out(q) \in 1..Len(batch)
          /\ Len(batch) \in Nat /\ Out(p) <= Out(q)
      BY <1>2, <3>1, OutOrder
    <3>4. /\ MembersBefore(OutputEnds, p) \in Nat
          /\ MembersBefore(OutputEnds, p + 1)
               = IF p \in OutputEnds THEN MembersBefore(OutputEnds, p) + 1 ELSE MembersBefore(OutputEnds, p)
      BY <3>1, CountBefore
    <3>5. BlockOf(p) = 1 + MembersBefore(OutputEnds, p) /\ BlockOf(q) = 1 + MembersBefore(OutputEnds, q)
      BY <3>3, BlockCount
    <3>6. p \in OutputEnds <=> Out(q) # Out(p)
      BY <1>1, <3>1, <3>3 DEF OutputEnds, LastOfOutput, Out
    <3>7. Out(q) <= Out(p) + 1
      <4>1. ASSUME Out(p) + 1 < Out(q) PROVE FALSE
        <5>1. Out(p) + 1 \in 1..(Out(q) - 1)
          BY <3>3, <4>1
        <5>2. PICK s \in 1..(q - 1) : Out(s) = Out(p) + 1
          BY <1>3, <5>1
        <5>3. s \in 1..N /\ s <= p
          BY <1>1, <3>1, <3>3
        <5>4. Out(s) <= Out(p)
          BY <3>3, <5>3, OutOrder
        <5> QED BY <3>3, <5>2, <5>4
      <4> QED BY <3>3, <4>1
    <3>8. BlockOf(q) = Out(q)
      BY <3>1, <3>2, <3>3, <3>4, <3>5, <3>6, <3>7
    <3> QED BY <3>8
  <2> QED BY <2>1, <2>2
<1>5. \A q \in 0..r : q \in Good
  <2>1. 0 \in Good
    OBVIOUS
  <2> HIDE DEF Good
  <2> QED BY <1>1, <1>4, <2>1, UpTo
<1>6. r \in 0..r /\ r # 0
  BY <1>1
<1> QED BY <1>5, <1>6

-----------------------------------------------------------------------------
(* No step changes the configuration, nor what is read off the rows.         *)

LEMMA SameRows ==
    ASSUME UNCHANGED config
    PROVE  /\ N' = N /\ Blocks' = Blocks /\ Cut' = Cut
           /\ \A r : /\ Rid(r)' = Rid(r) /\ Out(r)' = Out(r) /\ BlockOf(r)' = BlockOf(r)
                     /\ LastRow(r)' = LastRow(r) /\ RowsOf(r)' = RowsOf(r)
           /\ \A n : Depth(n)' = Depth(n)
           /\ \A k : /\ Block(k)' = Block(k) /\ First(k)' = First(k) /\ RootTid(k)' = RootTid(k)
                     /\ Nodes(k)' = Nodes(k) /\ Root(k)' = Root(k)
           /\ \A k, n : NodeTid(k, n)' = NodeTid(k, n)
<1>1. rows' = rows /\ batch' = batch
  BY DEF config
<1>2. N' = N /\ Cut' = Cut
  BY <1>1 DEF N, Cut
<1>3. \A r : Rid(r)' = Rid(r) /\ Out(r)' = Out(r) /\ LastOfOutput(r)' = LastOfOutput(r)
  BY <1>1, <1>2 DEF Rid, Out, LastOfOutput
<1>4. ASSUME NEW r PROVE BlockOf(r)' = BlockOf(r)
  <2>1. {q \in 1..(r - 1) : LastOfOutput(q)}' = {q \in 1..(r - 1) : LastOfOutput(q)}
    BY <1>3
  <2> QED BY <2>1 DEF BlockOf
<1>5. Blocks' = Blocks
  BY <1>2, <1>4 DEF Blocks
<1>6. ASSUME NEW n
      PROVE  RowsOf(n)' = RowsOf(n) /\ LastRow(n)' = LastRow(n) /\ Depth(n)' = Depth(n)
  <2>1. RowsOf(n)' = RowsOf(n)
    BY <1>2, <1>3 DEF RowsOf
  <2>2. LastRow(n)' = LastRow(n)
    BY <1>1, <2>1 DEF LastRow
  <2>3. Depth(n)' = Depth(n)
    BY <1>1 DEF Depth
  <2> QED BY <2>1, <2>2, <2>3
<1>7. ASSUME NEW k
      PROVE  /\ Block(k)' = Block(k) /\ First(k)' = First(k) /\ RootTid(k)' = RootTid(k)
             /\ Nodes(k)' = Nodes(k) /\ Root(k)' = Root(k)
  <2>1. Block(k)' = Block(k)
    BY <1>2, <1>4 DEF Block
  <2>2. First(k)' = First(k)
    BY <2>1 DEF First, Min
  <2>3. RootTid(k)' = RootTid(k)
    BY <1>1, <2>1, <2>2 DEF RootTid, First, InTid
  <2>4. Nodes(k)' = Nodes(k)
    BY <1>3, <2>1 DEF Nodes
  <2>5. \A n : (Depth(n) = 0)' <=> (Depth(n) = 0)
    BY <1>6
  <2>6. Root(k)' = Root(k)
    BY <1>3, <2>1, <2>2, <2>4, <2>5 DEF Root, First
  <2> QED BY <2>1, <2>2, <2>3, <2>4, <2>6
<1>8. ASSUME NEW k, NEW n PROVE NodeTid(k, n)' = NodeTid(k, n)
  <2>1. {m \in Nodes(k) : LastRow(m) < LastRow(n)}' = {m \in Nodes(k) : LastRow(m) < LastRow(n)}
    BY <1>6, <1>7
  <2> QED BY <1>7, <2>1 DEF NodeTid
<1> QED BY <1>2, <1>3, <1>4, <1>5, <1>6, <1>7, <1>8

-----------------------------------------------------------------------------
(* Which blocks are done, and how they were judged.                          *)

Phases ==
    /\ Cut /\ weights \in Rubrics /\ mode \in Modes /\ rootMode \in RootModes
    /\ threshold \in Thresholds
    /\ phase \in {"score", "assign", "guard", "sweep", "train", "done"}
    /\ IF phase \in {"score", "assign"} THEN bi \in 1..Blocks ELSE bi = Blocks + 1

Judging ==
    /\ judged \in Seq([input : 1..Blocks, ledger : BOOLEAN])
    /\ Len(judged) = IF phase = "assign" THEN bi ELSE bi - 1
    /\ \A k \in DOMAIN judged : judged[k] = [input |-> k, ledger |-> TRUE]
    /\ ledgers \subseteq {InTid(i) : i \in DOMAIN batch}
    /\ phase \in {"score", "assign"} => \A k \in bi..Blocks : RootTid(k) \in ledgers

\* There is at least one block.
LEMMA BlocksCounted ==
    ASSUME Cut PROVE Blocks \in Nat \ {0}
<1>1. N \in 1..N /\ N \in Nat \ {0}
  BY RowOrder
<1>2. BlockOf(N) = 1 + MembersBefore(OutputEnds, N) /\ MembersBefore(OutputEnds, N) \in Nat
  BY <1>1, BlockCount, CountBefore
<1> QED BY <1>2 DEF Blocks

LEMMA StartPhases == Init => Phases
<1> SUFFICES ASSUME Init PROVE Phases
  OBVIOUS
<1>1. Cut /\ weights \in Rubrics /\ mode \in Modes /\ rootMode \in RootModes /\ threshold \in Thresholds
  BY DEF Init, Cut
<1>2. Blocks \in Nat \ {0}
  BY <1>1, BlocksCounted
<1> QED BY <1>1, <1>2 DEF Init, Phases

LEMMA StartJudging == Init => Judging
<1> SUFFICES ASSUME Init PROVE Judging
  OBVIOUS
<1>1. Cut
  BY StartPhases DEF Phases
<1>2. batch \in Seq(Seq(Nat \ {0})) /\ DOMAIN batch = 1..Len(batch)
  BY <1>1, RowOrder
<1>3. judged = <<>> /\ phase = "score" /\ bi = 1 /\ ledgers = {InTid(i) : i \in DOMAIN batch}
  BY DEF Init
<1>4. \A k \in 1..Blocks : RootTid(k) \in ledgers
  <2>1. \A k \in 1..Blocks : RootTid(k) = InTid(Out(First(k))) /\ Out(First(k)) \in DOMAIN batch
    BY <1>1, <1>2, RootTids
  <2> QED BY <1>3, <2>1
<1> QED BY <1>3, <1>4 DEF Judging

\* Blocks are taken one after the other, and all of them before the guard.
LEMMA StepPhases ==
    ASSUME Phases, [Next]_vars PROVE Phases'
<1>1. UNCHANGED config
  BY DEF Next, Score, Assign, Guard, Sweep, Train, vars
<1>2. Blocks' = Blocks /\ Cut' = Cut /\ UNCHANGED <<weights, mode, rootMode, threshold>>
  BY <1>1, SameRows DEF config
<1>3. Blocks \in Nat \ {0}
  BY BlocksCounted DEF Phases
<1>4. CASE Score
  BY <1>2, <1>4 DEF Score, Phases
<1>5. CASE Assign
  <2>1. phase = "assign" /\ bi' = bi + 1 /\ phase' = IF bi = Blocks THEN "guard" ELSE "score"
    BY <1>5 DEF Assign
  <2> QED BY <1>2, <1>3, <2>1 DEF Phases
<1>6. CASE Guard
  BY <1>2, <1>6 DEF Guard, Phases
<1>7. CASE Sweep
  BY <1>2, <1>7 DEF Sweep, Phases
<1>8. CASE Train
  BY <1>2, <1>8 DEF Train, Phases
<1>9. CASE UNCHANGED vars
  BY <1>2, <1>9 DEF vars, Phases
<1> QED BY <1>4, <1>5, <1>6, <1>7, <1>8, <1>9 DEF Next

\* The pass finds a block's ledger, since only the blocks before it gave theirs up.
LEMMA StepJudging ==
    ASSUME Phases, Judging, [Next]_vars PROVE Judging'
<1>1. UNCHANGED config
  BY DEF Next, Score, Assign, Guard, Sweep, Train, vars
<1>2. Blocks' = Blocks /\ (\A k : RootTid(k)' = RootTid(k)) /\ batch' = batch
  BY <1>1, SameRows DEF config
<1>3. /\ Cut /\ Blocks \in Nat \ {0}
      /\ phase \in {"score", "assign"} => bi \in 1..Blocks
  BY BlocksCounted DEF Phases
<1>4. {InTid(i) : i \in DOMAIN batch}' = {InTid(i) : i \in DOMAIN batch}
  BY <1>2 DEF InTid
<1>5. CASE Score
  <2>1. /\ phase = "score" /\ phase' = "assign" /\ bi' = bi /\ ledgers' = ledgers
        /\ judged' = Append(judged, [input |-> bi, ledger |-> RootTid(bi) \in ledgers])
    BY <1>5 DEF Score
  <2>2. bi \in 1..Blocks /\ RootTid(bi) \in ledgers /\ \A k \in bi..Blocks : RootTid(k) \in ledgers
    BY <1>3, <2>1 DEF Judging
  <2> DEFINE J == [input : 1..Blocks, ledger : BOOLEAN]
             x == [input |-> bi, ledger |-> TRUE]
  <2>3. judged \in Seq(J) /\ Len(judged) = bi - 1 /\ x \in J
    BY <2>1, <2>2 DEF Judging
  <2>4. judged' = Append(judged, x)
    BY <2>1, <2>2
  <2>5. \A k \in 1..Len(judged) : judged[k] = [input |-> k, ledger |-> TRUE]
    <3>1. \A k \in DOMAIN judged : judged[k] = [input |-> k, ledger |-> TRUE]
      BY DEF Judging
    <3>2. DOMAIN judged = 1..Len(judged)
      <4> HIDE DEF J
      <4> QED BY <2>3
    <3> QED BY <3>1, <3>2, Zenon
  <2> HIDE DEF J, x
  <2>6. /\ judged' \in Seq(J) /\ Len(judged') = bi /\ DOMAIN judged' = 1..bi /\ judged'[bi] = x
        /\ \A k \in 1..(bi - 1) : judged'[k] = judged[k]
    <3>1. judged \in Seq(J) /\ x \in J
      BY <2>3
    <3>2. /\ judged' \in Seq(J) /\ Len(judged') = Len(judged) + 1
          /\ judged'[Len(judged) + 1] = x
          /\ \A k \in 1..Len(judged) : judged'[k] = judged[k]
      BY <2>4, <3>1, Appended
    <3>3. Len(judged) = bi - 1 /\ Len(judged) + 1 = bi
      BY <2>2, <2>3
    <3> QED BY <3>2, <3>3
  <2>7. ASSUME NEW k \in 1..bi PROVE judged'[k] = [input |-> k, ledger |-> TRUE]
    <3>1. CASE k = bi
      BY <2>6, <3>1 DEF x
    <3>2. CASE k # bi
      <4>1. k \in 1..(bi - 1) /\ k \in 1..Len(judged)
        BY <2>2, <2>3, <3>2
      <4> QED BY <2>5, <2>6, <4>1, Zenon
    <3> QED BY <3>1, <3>2
  <2>8. judged' \in Seq([input : 1..Blocks, ledger : BOOLEAN])
    BY <2>6 DEF J
  <2>9. ledgers \subseteq {InTid(i) : i \in DOMAIN batch}
    BY DEF Judging
  <2> QED BY <1>2, <1>4, <2>1, <2>2, <2>6, <2>7, <2>8, <2>9 DEF Judging
<1>6. CASE Assign
  <2>1. /\ phase = "assign" /\ phase' = (IF bi = Blocks THEN "guard" ELSE "score")
        /\ bi' = bi + 1 /\ ledgers' = ledgers \ {RootTid(bi)} /\ judged' = judged
    BY <1>6 DEF Assign
  <2>2. bi \in 1..Blocks /\ \A k \in bi..Blocks : RootTid(k) \in ledgers
    BY <1>3, <2>1 DEF Judging
  <2>3. ASSUME NEW k \in (bi + 1)..Blocks PROVE RootTid(k) \in ledgers'
    <3>1. k \in 1..Blocks /\ k \in bi..Blocks /\ k # bi
      BY <2>2
    <3>2. RootTid(k) # RootTid(bi)
      BY <1>3, <2>2, <3>1, RootTids
    <3> QED BY <2>1, <2>2, <3>1, <3>2
  <2>4. Len(judged) = bi /\ bi \in Nat
    BY <2>1, <2>2 DEF Judging
  <2> QED BY <1>2, <1>4, <2>1, <2>3, <2>4 DEF Judging
<1>7. CASE Guard
  BY <1>2, <1>4, <1>7 DEF Guard, Judging
<1>8. CASE Sweep
  BY <1>2, <1>4, <1>8 DEF Sweep, Judging
<1>9. CASE Train
  BY <1>2, <1>4, <1>9 DEF Train, Judging
<1>10. CASE UNCHANGED vars
  BY <1>2, <1>4, <1>10 DEF vars, Judging
<1> QED BY <1>5, <1>6, <1>7, <1>8, <1>9, <1>10 DEF Next

\* A block that stands at its output's place is judged with its own rubrics.
LEMMA JudgingIsOwn ==
    ASSUME Phases, Judging PROVE JudgedAsItself
<1> SUFFICES ASSUME NEW k \in DOMAIN judged
             PROVE  LET out == rows[Min(Block(k))].out IN
                    /\ judged[k].ledger
                    /\ judged[k].input = out \/ \E i \in 1..(out - 1) : batch[i] = <<>>
  BY DEF JudgedAsItself
<1>1. judged[k] = [input |-> k, ledger |-> TRUE]
  BY DEF Judging
<1>2. Cut /\ k \in 1..Blocks
  <2>1. Len(judged) = (IF phase = "assign" THEN bi ELSE bi - 1) /\ k \in 1..Len(judged)
    BY DEF Judging
  <2>2. Blocks \in Nat
    BY BlocksCounted DEF Phases
  <2> QED BY <2>1, <2>2 DEF Phases
<1>3. /\ First(k) \in 1..N /\ BlockOf(First(k)) = k
      /\ Out(First(k)) = rows[Min(Block(k))].out
  BY <1>2, FirstRows DEF First, Out
<1>4. (\A i \in 1..(Out(First(k)) - 1) : batch[i] # <<>>) => k = Out(First(k))
  BY <1>2, <1>3, BlockNumbers
<1> QED BY <1>1, <1>3, <1>4

\* generate() judges every tree with its own prompt, rubrics and ledger, unless an
\* earlier output of the batch has no rows.
THEOREM TreesJudgedAsThemselves == Spec => []JudgedAsItself
<1>1. Init => Phases /\ Judging
  BY StartPhases, StartJudging
<1>2. Phases /\ Judging /\ [Next]_vars => Phases' /\ Judging'
  BY StepPhases, StepJudging
<1>3. Phases /\ Judging => JudgedAsItself
  BY JudgingIsOwn
<1> QED BY <1>1, <1>2, <1>3, PTL DEF Spec

-----------------------------------------------------------------------------
(* Nodes: the rows of a node, their last one, and its rank in the block.     *)

\* A row's node tells its output.
LEMMA RidOfRow ==
    ASSUME NEW q, NEW r
    PROVE  /\ Rid(q) = Rid(r) <=> Out(q) = Out(r) /\ rows[q].node = rows[r].node
           /\ Rid(r)[1] = Out(r)
BY DEF Rid, Out

\* The rows of a node follow each other without a gap.
LEMMA NodeRowsTogether ==
    ASSUME Cut, NEW q \in 1..N, NEW e \in 1..N, NEW r \in 1..N, q <= e, e <= r, Rid(q) = Rid(r)
    PROVE  Rid(e) = Rid(q)
<1>1. Out(q) = Out(r) /\ rows[q].node = rows[r].node
  BY RidOfRow
<1>2. Out(q) <= Out(e) /\ Out(e) <= Out(r)
  BY OutOrder
<1>3. batch \in Seq(Seq(Nat \ {0})) /\ Out(q) \in 1..Len(batch) /\ Out(e) \in 1..Len(batch)
  BY OutOrder, RowOrder
<1>4. Out(e) = Out(q)
  BY <1>1, <1>2, <1>3
<1>5. (q < e => Precedes(rows[q], rows[e])) /\ (e < r => Precedes(rows[e], rows[r]))
  BY RowOrder
<1>6. rows[q].node \in Nat /\ rows[e].node \in Nat
  <2>1. /\ rows[q].node \in 1..Len(batch[rows[q].out]) /\ rows[q].out \in 1..Len(batch)
        /\ rows[e].node \in 1..Len(batch[rows[e].out]) /\ rows[e].out \in 1..Len(batch)
    BY RowOrder
  <2> QED BY <2>1
<1>7. rows[e].node = rows[q].node
  <2>1. CASE q < e /\ e < r
    <3>1. Precedes(rows[q], rows[e]) /\ Precedes(rows[e], rows[r])
      BY <1>5, <2>1
    <3>2. rows[q].node <= rows[e].node /\ rows[e].node <= rows[r].node
      BY <1>1, <1>3, <1>4, <1>6, <3>1 DEF Precedes, Out
    <3> QED BY <1>1, <1>6, <3>2
  <2>2. CASE q = e \/ e = r
    BY <1>1, <2>2
  <2>3. N \in Nat
    BY RowOrder
  <2> QED BY <2>1, <2>2, <2>3
<1> QED BY <1>4, <1>7, RidOfRow

\* LastRow is the last of its node's rows.
LEMMA LastRows ==
    ASSUME Cut, NEW r \in 1..N
    PROVE  /\ LastRow(Rid(r)) \in 1..N /\ Rid(LastRow(Rid(r))) = Rid(r)
           /\ \A q \in 1..N : Rid(q) = Rid(r) => q <= LastRow(Rid(r))
<1> DEFINE n == Rid(r)
           S == {q \in 1..N : Rid(q) = n}
           L == LastRow(n)
<1>1. N \in Nat
  BY RowOrder
<1>2. \A p, q \in 1..N : Rid(p) = n /\ Rid(q) = n /\ p < q => rows[p].step < rows[q].step
  <2> SUFFICES ASSUME NEW p \in 1..N, NEW q \in 1..N, Rid(p) = n, Rid(q) = n, p < q
               PROVE  rows[p].step < rows[q].step
    OBVIOUS
  <2>1. Precedes(rows[p], rows[q])
    BY RowOrder
  <2>2. Out(p) = Out(q) /\ rows[p].node = rows[q].node
    <3>1. Rid(p) = Rid(q)
      OBVIOUS
    <3> QED BY <3>1, RidOfRow
  <2>3. Out(p) \in 1..Len(batch) /\ rows[p].node \in 1..Len(batch[Out(p)]) /\ batch \in Seq(Seq(Nat \ {0}))
    BY RowOrder DEF Out
  <2>4. Out(p) \in Int /\ rows[p].node \in Int
    BY <2>3
  <2> QED BY <2>1, <2>2, <2>4 DEF Precedes, Out
<1>3. PICK m \in S : \A q \in S : q <= m
  <2>1. S \in SUBSET (0..N) /\ S # {}
    BY <1>1
  <2> HIDE DEF S
  <2> QED BY <1>1, <2>1, GreatestNumber
<1>4. RowsOf(n) = S
  BY DEF RowsOf
<1>5. \A q \in S : rows[q].step <= rows[m].step
  <2> SUFFICES ASSUME NEW q \in S PROVE rows[q].step <= rows[m].step
    OBVIOUS
  <2>1. q \in 1..N /\ m \in 1..N /\ Rid(q) = n /\ Rid(m) = n /\ q <= m
    BY <1>3
  <2>2. q < m \/ q = m
    BY <1>1, <2>1
  <2>3. rows[q].step \in Nat /\ rows[m].step \in Nat
    BY <2>1, RowOrder
  <2>4. q < m => rows[q].step < rows[m].step
    BY <1>2, <2>1
  <2> QED BY <2>2, <2>3, <2>4
<1>6. L \in S /\ \A q \in S : rows[q].step <= rows[L].step
  BY <1>3, <1>4, <1>5 DEF LastRow
<1>7. L = m
  <2>1. ASSUME L < m PROVE FALSE
    <3>1. rows[L].step < rows[m].step
      BY <1>2, <1>3, <1>6, <2>1
    <3>2. rows[m].step <= rows[L].step
      BY <1>3, <1>6
    <3>3. rows[m].step \in Nat /\ rows[L].step \in Nat
      <4>1. L \in 1..N /\ m \in 1..N
        BY <1>3, <1>6
      <4> QED BY <4>1, RowOrder
    <3> QED BY <3>1, <3>2, <3>3
  <2>2. L <= m /\ L \in 1..N /\ m \in 1..N
    BY <1>3, <1>6
  <2> QED BY <1>1, <2>1, <2>2
<1> QED BY <1>3, <1>7

\* A last row is the last row of its own node.
IsLast(r) == r = LastRow(Rid(r))

\* A block has finitely many nodes, no more than its output has, and they are its own.
LEMMA NodesOfBlock ==
    ASSUME Cut, NEW k \in 1..Blocks
    PROVE  /\ IsFiniteSet(Nodes(k)) /\ Cardinality(Nodes(k)) <= Stride
           /\ Cardinality(Nodes(k)) <= Len(batch[Out(First(k))])
           /\ \A n \in Nodes(k) : \E r \in 1..N : Rid(r) = n /\ BlockOf(r) = k
           /\ \A r \in 1..N : Rid(r) \in Nodes(k) <=> BlockOf(r) = k
<1>1. \A n \in Nodes(k) : \E r \in 1..N : Rid(r) = n /\ BlockOf(r) = k
  BY DEF Nodes, Block
<1>2. \A r \in 1..N : BlockOf(r) = k => Rid(r) \in Nodes(k)
  BY DEF Nodes, Block
<1>3. ASSUME NEW r \in 1..N, Rid(r) \in Nodes(k) PROVE BlockOf(r) = k
  <2>1. PICK q \in 1..N : Rid(q) = Rid(r) /\ BlockOf(q) = k
    BY <1>1, <1>3
  <2>2. Out(q) = Out(r)
    BY <2>1, RidOfRow
  <2> QED BY <2>1, <2>2, BlocksAreOutputs
<1> DEFINE o == Out(First(k))
           M == 1..Len(batch[o])
           f == [j \in M |-> <<o, j>>]
           T == {<<o, j>> : j \in M}
<1>4. o \in 1..Len(batch) /\ Len(batch[o]) \in 0..Stride
  BY FirstRows, RowOrder DEF Out
<1>5. IsFiniteSet(M) /\ Cardinality(M) = Len(batch[o])
  <2>1. 1 \in Int /\ Len(batch[o]) \in Int /\ Len(batch[o]) \in Nat
    BY <1>4
  <2>2. IsFiniteSet(M) /\ Cardinality(M) = IF 1 > Len(batch[o]) THEN 0 ELSE Len(batch[o]) - 1 + 1
    BY <2>1, FS_Interval
  <2> QED BY <2>1, <2>2
<1>6. f \in Surjection(M, T)
  BY DEF Surjection
<1>7. IsFiniteSet(T) /\ Cardinality(T) <= Cardinality(M)
  <2> HIDE DEF f, M, T
  <2> QED BY <1>5, <1>6, FS_Surjection
<1>8. Nodes(k) \in SUBSET T
  <2> SUFFICES ASSUME NEW n \in Nodes(k) PROVE n \in T
    OBVIOUS
  <2>1. PICK r \in 1..N : Rid(r) = n /\ BlockOf(r) = k
    BY <1>1
  <2>2. Out(r) = o
    BY <2>1, FirstRows
  <2>3. rows[r].node \in 1..Len(batch[rows[r].out])
    BY RowOrder
  <2>4. n = <<o, rows[r].node>> /\ rows[r].node \in M
    BY <2>1, <2>2, <2>3 DEF Rid, Out
  <2> QED BY <2>4
<1>9. IsFiniteSet(Nodes(k)) /\ Cardinality(Nodes(k)) <= Cardinality(T)
  <2> HIDE DEF T
  <2> QED BY <1>7, <1>8, FS_Subset
<1>10. Cardinality(Nodes(k)) <= Stride /\ Cardinality(Nodes(k)) <= Len(batch[o])
  <2>1. Stride \in Nat /\ Cardinality(T) \in Nat /\ Cardinality(Nodes(k)) \in Nat
    <3> HIDE DEF T
    <3> QED BY <1>7, <1>9, FS_CardinalityType, CreditAssumption
  <2> HIDE DEF T, M, o
  <2> QED BY <1>4, <1>5, <1>7, <1>9, <2>1
<1> QED BY <1>1, <1>2, <1>3, <1>9, <1>10

Rank(k, n) == Cardinality({m \in Nodes(k) : LastRow(m) < LastRow(n)})

\* The rank of a node among the last rows of its tree is below _REP_STRIDE and its own.
LEMMA Ranks ==
    ASSUME Cut, NEW k \in 1..Blocks
    PROVE  /\ \A n \in Nodes(k) : Rank(k, n) \in 0..(Stride - 1)
           /\ \A n, m \in Nodes(k) : Rank(k, n) = Rank(k, m) => n = m
<1> DEFINE A(n) == {m \in Nodes(k) : LastRow(m) < LastRow(n)}
<1>1. \A n \in Nodes(k) : LastRow(n) \in 1..N /\ Rid(LastRow(n)) = n
  BY NodesOfBlock, LastRows
<1>2. IsFiniteSet(Nodes(k)) /\ Cardinality(Nodes(k)) <= Stride /\ Cardinality(Nodes(k)) \in Nat
  BY NodesOfBlock, FS_CardinalityType
<1>3. N \in Nat /\ Stride \in Nat
  BY RowOrder, CreditAssumption
<1>4. ASSUME NEW n \in Nodes(k)
      PROVE  /\ Rank(k, n) \in Nat /\ Rank(k, n) < Cardinality(Nodes(k))
             /\ IsFiniteSet(A(n)) /\ Rank(k, n) = Cardinality(A(n))
  <2>1. A(n) \in SUBSET Nodes(k) /\ n \notin A(n)
    BY <1>1, <1>3
  <2>2. Rank(k, n) = Cardinality(A(n))
    BY DEF Rank
  <2> HIDE DEF A
  <2>3. /\ IsFiniteSet(A(n)) /\ Cardinality(A(n)) <= Cardinality(Nodes(k))
        /\ Cardinality(Nodes(k)) = Cardinality(A(n)) => Nodes(k) = A(n)
    BY <1>2, <2>1, FS_Subset
  <2>4. Cardinality(A(n)) \in Nat
    BY <2>3, FS_CardinalityType
  <2>5. Cardinality(Nodes(k)) # Cardinality(A(n))
    BY <2>1, <2>3
  <2> QED BY <1>2, <2>2, <2>3, <2>4, <2>5
<1>5. ASSUME NEW n \in Nodes(k), NEW m \in Nodes(k), LastRow(n) < LastRow(m)
      PROVE  Rank(k, n) < Rank(k, m)
  <2>1. A(n) \in SUBSET A(m) /\ n \in A(m) /\ n \notin A(n)
    <3>1. \A x \in Nodes(k) : LastRow(x) \in Int
      BY <1>1, <1>3
    <3> QED BY <1>5, <3>1
  <2> HIDE DEF A
  <2>2. /\ Cardinality(A(n)) <= Cardinality(A(m))
        /\ Cardinality(A(m)) = Cardinality(A(n)) => A(m) = A(n)
    <3>1. IsFiniteSet(A(m))
      BY <1>4
    <3> QED BY <2>1, <3>1, FS_Subset
  <2>3. /\ Rank(k, n) \in Nat /\ Rank(k, n) = Cardinality(A(n))
        /\ Rank(k, m) \in Nat /\ Rank(k, m) = Cardinality(A(m))
    BY <1>4
  <2> QED BY <2>1, <2>2, <2>3
<1>6. ASSUME NEW n \in Nodes(k), NEW m \in Nodes(k), Rank(k, n) = Rank(k, m) PROVE n = m
  <2>1. ~(LastRow(n) < LastRow(m)) /\ ~(LastRow(m) < LastRow(n))
    <3>1. Rank(k, n) \in Nat /\ Rank(k, m) \in Nat
      BY <1>4
    <3>2. LastRow(n) < LastRow(m) => Rank(k, n) < Rank(k, m)
      BY <1>5
    <3>3. LastRow(m) < LastRow(n) => Rank(k, m) < Rank(k, n)
      BY <1>5
    <3> QED BY <1>6, <3>1, <3>2, <3>3
  <2>2. LastRow(n) = LastRow(m)
    BY <1>1, <1>3, <2>1
  <2> QED BY <1>1, <2>2
<1>7. ASSUME NEW n \in Nodes(k) PROVE Rank(k, n) \in 0..(Stride - 1)
  <2>1. Rank(k, n) \in Nat /\ Rank(k, n) < Cardinality(Nodes(k))
    BY <1>4
  <2> QED BY <1>2, <1>3, <2>1
<1> QED BY <1>6, <1>7

\* The ids a tree's nodes get.
LEMMA NodeTids ==
    ASSUME Cut, NEW q \in 1..N, NEW r \in 1..N
    PROVE  /\ NodeTid(BlockOf(q), Rid(q)) = NodeTid(BlockOf(r), Rid(r)) <=> Rid(q) = Rid(r)
           /\ NodeTid(BlockOf(r), Rid(r))[1] = InTid(Rid(r)[1])[1]
<1>1. ASSUME NEW s \in 1..N
      PROVE  /\ BlockOf(s) \in 1..Blocks
             /\ RootTid(BlockOf(s)) = InTid(Out(s)) /\ Out(s) \in Nat \ {0}
             /\ InTid(Out(s))[1] \in Nat /\ InTid(Out(s))[2] \in Nat
             /\ InTid(Out(s)) = <<InTid(Out(s))[1], InTid(Out(s))[2]>>
             /\ Rid(s) \in Nodes(BlockOf(s))
             /\ Rank(BlockOf(s), Rid(s)) \in 0..(Stride - 1)
  <2>1. BlockOf(s) \in 1..Blocks
    BY BlocksAreOutputs
  <2>2. RootTid(BlockOf(s)) = InTid(Out(s))
    <3>1. Out(s) = Out(First(BlockOf(s)))
      BY <2>1, FirstRows
    <3>2. RootTid(BlockOf(s)) = InTid(Out(First(BlockOf(s))))
      BY <2>1, RootTids
    <3> HIDE DEF InTid
    <3> QED BY <3>1, <3>2
  <2>3. Out(s) \in Nat \ {0}
    <3>1. Out(s) \in 1..Len(batch) /\ batch \in Seq(Seq(Nat \ {0}))
      BY RowOrder DEF Out
    <3> QED BY <3>1
  <2>4. (Out(s) - 1) \div Samples \in Nat /\ (Out(s) - 1) % Samples \in 0..(Samples - 1)
    <3>1. Out(s) - 1 \in Nat /\ Samples \in Nat \ {0}
      BY <2>3, CreditAssumption
    <3> QED BY <3>1, DivMod
  <2>5. /\ InTid(Out(s))[1] \in Nat /\ InTid(Out(s))[2] \in Nat
        /\ InTid(Out(s)) = <<InTid(Out(s))[1], InTid(Out(s))[2]>>
    <3> DEFINE a == (Out(s) - 1) \div Samples
               b == (Out(s) - 1) % Samples
    <3>1. InTid(Out(s)) = <<a, b>>
      BY DEF InTid
    <3>2. a \in Nat /\ b \in Nat
      <4> HIDE DEF a
      <4>1. Samples \in Nat
        BY CreditAssumption
      <4> QED BY <2>4, <4>1 DEF a
    <3> HIDE DEF a, b
    <3> QED BY <3>1, <3>2
  <2>6. Rid(s) \in Nodes(BlockOf(s))
    BY <2>1, NodesOfBlock
  <2>7. Rank(BlockOf(s), Rid(s)) \in 0..(Stride - 1)
    BY <2>1, <2>6, Ranks
  <2> QED BY <2>1, <2>2, <2>3, <2>5, <2>6, <2>7
<1>2. \A k, n : NodeTid(k, n) = <<RootTid(k)[1], RootTid(k)[2] * Stride + Rank(k, n)>>
  BY DEF NodeTid, Rank
<1>3. NodeTid(BlockOf(r), Rid(r))[1] = InTid(Rid(r)[1])[1]
  <2>1. Rid(r)[1] = Out(r)
    BY RidOfRow
  <2> HIDE DEF InTid
  <2>2. NodeTid(BlockOf(r), Rid(r))[1] = RootTid(BlockOf(r))[1]
    BY <1>2
  <2> QED BY <1>1, <2>1, <2>2
<1>4. ASSUME NodeTid(BlockOf(q), Rid(q)) = NodeTid(BlockOf(r), Rid(r)) PROVE Rid(q) = Rid(r)
  <2> DEFINE I(s) == InTid(Out(s))
             R(s) == Rank(BlockOf(s), Rid(s))
  <2>1. NodeTid(BlockOf(q), Rid(q)) = <<I(q)[1], I(q)[2] * Stride + R(q)>>
    <3> HIDE DEF InTid
    <3> QED BY <1>1, <1>2
  <2>2. NodeTid(BlockOf(r), Rid(r)) = <<I(r)[1], I(r)[2] * Stride + R(r)>>
    <3> HIDE DEF InTid
    <3> QED BY <1>1, <1>2
  <2>3. /\ I(q)[2] \in Nat /\ R(q) \in 0..(Stride - 1)
        /\ I(r)[2] \in Nat /\ R(r) \in 0..(Stride - 1) /\ Stride \in Nat
        /\ I(q) = <<I(q)[1], I(q)[2]>> /\ I(r) = <<I(r)[1], I(r)[2]>>
    BY <1>1, CreditAssumption
  <2> HIDE DEF I, R
  <2>4. I(q)[1] = I(r)[1] /\ I(q)[2] * Stride + R(q) = I(r)[2] * Stride + R(r)
    <3> DEFINE u == I(q)[2] * Stride + R(q)
               v == I(r)[2] * Stride + R(r)
    <3>1. <<I(q)[1], u>> = <<I(r)[1], v>>
      BY <1>4, <2>1, <2>2
    <3> HIDE DEF u, v
    <3>2. I(q)[1] = I(r)[1] /\ u = v
      BY <3>1
    <3> QED BY <3>2 DEF u, v
  <2>5. I(q)[2] = I(r)[2] /\ R(q) = R(r)
    <3> DEFINE a == I(q)[2]
               b == I(r)[2]
               x == R(q)
               y == R(r)
    <3>1. a \in Nat /\ b \in Nat /\ x \in 0..(Stride - 1) /\ y \in 0..(Stride - 1) /\ Stride \in Nat
      BY <2>3
    <3>2. a * Stride + x = b * Stride + y
      BY <2>4
    <3> HIDE DEF a, b, x, y
    <3>3. a = b /\ x = y
      BY <3>1, <3>2, Digits
    <3> QED BY <3>3 DEF a, b, x, y
  <2>6. I(q) = I(r)
    <3>1. <<I(q)[1], I(q)[2]>> = <<I(r)[1], I(r)[2]>>
      BY <2>4, <2>5
    <3>2. I(q) = <<I(q)[1], I(q)[2]>> /\ I(r) = <<I(r)[1], I(r)[2]>>
      BY <2>3
    <3> QED BY <3>1, <3>2
  <2>7. Out(q) = Out(r)
    <3>1. Out(q) \in Nat \ {0} /\ Out(r) \in Nat \ {0}
      BY <1>1
    <3>2. InTid(Out(q)) = InTid(Out(r))
      BY <2>6 DEF I
    <3> HIDE DEF InTid
    <3> QED BY <3>1, <3>2, IdsDiffer
  <2>8. BlockOf(q) = BlockOf(r)
    BY <2>7, BlocksAreOutputs
  <2>9. Rank(BlockOf(q), Rid(q)) = Rank(BlockOf(q), Rid(r))
    BY <2>5, <2>8 DEF R
  <2>10. Rid(q) \in Nodes(BlockOf(q)) /\ Rid(r) \in Nodes(BlockOf(q)) /\ BlockOf(q) \in 1..Blocks
    BY <1>1, <2>8
  <2> QED BY <2>9, <2>10, Ranks
<1>5. ASSUME Rid(q) = Rid(r) PROVE NodeTid(BlockOf(q), Rid(q)) = NodeTid(BlockOf(r), Rid(r))
  <2>1. Out(q) = Out(r)
    BY <1>5, RidOfRow
  <2>2. BlockOf(q) = BlockOf(r)
    BY <2>1, BlocksAreOutputs
  <2> QED BY <1>5, <2>2
<1> QED BY <1>3, <1>4, <1>5

-----------------------------------------------------------------------------
(* What the pass leaves on the rows of the blocks that are done.             *)

Marks ==
    /\ last \in [1..N -> BOOLEAN] /\ DOMAIN tids = 1..N
    /\ \A r \in 1..N : last[r] <=> BlockOf(r) < bi /\ IsLast(r)
    /\ \A r \in 1..N : BlockOf(r) < bi => tids[r] = NodeTid(BlockOf(r), Rid(r))

Learning ==
    phase = "done" =>
        learns = [r \in 1..N |-> [from |-> AdvantageOf(r), cohort |-> Cohort(AdvantageOf(r))]]

\* The rows that get a reward are the last rows of the block's nodes.
LEMMA BlockEnds ==
    ASSUME Cut, NEW k \in 1..Blocks, NEW r \in 1..N
    PROVE  r \in {LastRow(n) : n \in Nodes(k)} <=> BlockOf(r) = k /\ IsLast(r)
<1>1. ASSUME NEW n \in Nodes(k), r = LastRow(n) PROVE BlockOf(r) = k /\ IsLast(r)
  <2>1. PICK q \in 1..N : Rid(q) = n /\ BlockOf(q) = k
    BY NodesOfBlock
  <2>2. Rid(r) = n
    BY <1>1, <2>1, LastRows
  <2>3. BlockOf(r) = k
    BY <2>2, NodesOfBlock
  <2> QED BY <1>1, <2>2, <2>3 DEF IsLast
<1>2. ASSUME BlockOf(r) = k, IsLast(r) PROVE r \in {LastRow(n) : n \in Nodes(k)}
  <2>1. Rid(r) \in Nodes(k)
    BY <1>2, NodesOfBlock
  <2> QED BY <1>2, <2>1 DEF IsLast
<1> QED BY <1>1, <1>2

LEMMA StartMarks == Init => Marks
<1> SUFFICES ASSUME Init PROVE Marks
  OBVIOUS
<1>1. Cut
  BY StartPhases DEF Phases
<1>2. \A r \in 1..N : ~(BlockOf(r) < bi)
  <2>1. bi = 1
    BY DEF Init
  <2>2. \A r \in 1..N : BlockOf(r) \in 1..Blocks
    BY <1>1, BlocksAreOutputs
  <2>3. Blocks \in Nat
    BY <1>1, BlocksCounted
  <2> QED BY <2>1, <2>2, <2>3
<1>3. /\ tids = [r \in 1..N |-> InTid(rows[r].out)] /\ last = [r \in 1..N |-> FALSE]
  BY DEF Init
<1>4. DOMAIN tids = 1..N /\ last \in [1..N -> BOOLEAN] /\ \A r \in 1..N : last[r] = FALSE
  BY <1>3
<1> QED BY <1>2, <1>4 DEF Marks

\* Marking one block leaves the others' ids and last rows alone.
LEMMA StepMarks ==
    ASSUME Phases, Marks, [Next]_vars PROVE Marks'
<1>1. UNCHANGED config
  BY DEF Next, Score, Assign, Guard, Sweep, Train, vars
<1>2. /\ N' = N /\ \A r : BlockOf(r)' = BlockOf(r) /\ IsLast(r)' = IsLast(r) /\ Rid(r)' = Rid(r)
      /\ \A k, n : NodeTid(k, n)' = NodeTid(k, n)
  <2>1. /\ N' = N /\ \A r : BlockOf(r)' = BlockOf(r) /\ LastRow(r)' = LastRow(r) /\ Rid(r)' = Rid(r)
        /\ \A k, n : NodeTid(k, n)' = NodeTid(k, n)
    BY <1>1, SameRows
  <2> QED BY <2>1 DEF IsLast
<1>3. CASE UNCHANGED <<tids, last, bi>>
  BY <1>2, <1>3 DEF Marks
<1>4. CASE Assign
  <2> DEFINE ends == {LastRow(n) : n \in Nodes(bi)}
  <2>1. /\ phase = "assign" /\ bi' = bi + 1
        /\ tids' = [r \in 1..N |-> IF r \in Block(bi) THEN NodeTid(bi, Rid(r)) ELSE tids[r]]
        /\ last' = [r \in 1..N |-> last[r] \/ r \in ends]
    BY <1>4 DEF Assign
  <2>2. Cut /\ bi \in 1..Blocks /\ Blocks \in Nat
    BY <2>1, BlocksCounted DEF Phases
  <2> HIDE DEF ends
  <2>3. ASSUME NEW r \in 1..N
        PROVE  /\ last'[r] <=> BlockOf(r) < bi + 1 /\ IsLast(r)
               /\ BlockOf(r) < bi + 1 => tids'[r] = NodeTid(BlockOf(r), Rid(r))
    <3>1. BlockOf(r) \in 1..Blocks
      BY <2>2, BlocksAreOutputs
    <3>2. BlockOf(r) < bi + 1 <=> BlockOf(r) < bi \/ BlockOf(r) = bi
      BY <2>2, <3>1
    <3>3. r \in ends <=> BlockOf(r) = bi /\ IsLast(r)
      BY <2>2, BlockEnds DEF ends
    <3>4. last'[r] <=> last[r] \/ r \in ends
      BY <2>1
    <3>5. last[r] <=> BlockOf(r) < bi /\ IsLast(r)
      BY DEF Marks
    <3>6. r \in Block(bi) <=> BlockOf(r) = bi
      BY DEF Block
    <3>7. BlockOf(r) < bi => tids[r] = NodeTid(BlockOf(r), Rid(r))
      BY DEF Marks
    <3>8. tids'[r] = IF r \in Block(bi) THEN NodeTid(bi, Rid(r)) ELSE tids[r]
      BY <2>1
    <3>9. BlockOf(r) < bi + 1 => tids'[r] = NodeTid(BlockOf(r), Rid(r))
      BY <3>2, <3>6, <3>7, <3>8, Zenon
    <3> QED BY <3>2, <3>3, <3>4, <3>5, <3>9
  <2>4. last' \in [1..N -> BOOLEAN] /\ DOMAIN tids' = 1..N
    <3>1. \A r \in 1..N : (last[r] \/ r \in ends) \in BOOLEAN
      OBVIOUS
    <3>2. last' \in [1..N -> BOOLEAN]
      BY <2>1, <3>1, Zenon
    <3> QED BY <2>1, <3>2
  <2> QED BY <1>2, <2>1, <2>3, <2>4 DEF Marks
<1> QED BY <1>3, <1>4 DEF Next, Score, Guard, Sweep, Train, vars, layout

LEMMA StartLearning == Init => Learning
BY DEF Init, Learning

LEMMA StepLearning ==
    ASSUME Learning, [Next]_vars PROVE Learning'
<1>1. CASE Train
  <2>1. /\ UNCHANGED <<batch, rows, tids, last>>
        /\ learns' = [r \in 1..N |-> [from |-> AdvantageOf(r), cohort |-> Cohort(AdvantageOf(r))]]
    BY <1>1 DEF Train, config, layout
  <2>2. N' = N
    BY <2>1 DEF N
  <2>3. \A r : AdvantageOf(r)' = AdvantageOf(r)
    BY <2>1, <2>2 DEF AdvantageOf, TrajId
  <2>4. \A q : Cohort(q)' = Cohort(q)
    BY <2>1, <2>2 DEF Cohort, Threaded, PadSize, Depth, Rid
  <2> QED BY <2>1, <2>2, <2>3, <2>4 DEF Learning
<1>2. CASE UNCHANGED vars /\ phase = "done"
  <2>1. UNCHANGED <<batch, rows, tids, last, learns, phase>>
    BY <1>2 DEF vars, config, layout
  <2>2. N' = N
    BY <2>1 DEF N
  <2>3. \A r : AdvantageOf(r)' = AdvantageOf(r)
    BY <2>1, <2>2 DEF AdvantageOf, TrajId
  <2>4. \A q : Cohort(q)' = Cohort(q)
    BY <2>1, <2>2 DEF Cohort, Threaded, PadSize, Depth, Rid
  <2> QED BY <2>1, <2>2, <2>3, <2>4 DEF Learning
<1>3. CASE phase' # "done"
  BY <1>3 DEF Learning
<1> QED BY <1>1, <1>2, <1>3 DEF Next, Score, Assign, Guard, Sweep, vars

\* The broadcast by position gives every row its own node's last row.
LEMMA OwnAdvantage ==
    ASSUME Phases, Marks, phase = "done", NEW r \in 1..N
    PROVE  AdvantageOf(r) = LastRow(Rid(r))
<1> DEFINE E == {p \in 1..N : last[p]}
           L == LastRow(Rid(r))
<1>1. Cut /\ bi = Blocks + 1 /\ N \in Nat \ {0}
  BY RowOrder DEF Phases
<1>2. \A p \in 1..N : p \in E <=> IsLast(p)
  <2>1. ASSUME NEW p \in 1..N PROVE BlockOf(p) < bi
    <3>1. BlockOf(p) \in 1..Blocks /\ Blocks \in Nat
      BY <1>1, BlocksAreOutputs, BlocksCounted
    <3> QED BY <1>1, <3>1
  <2> QED BY <2>1 DEF Marks
<1>3. L \in 1..N /\ Rid(L) = Rid(r) /\ r <= L /\ IsLast(L)
  BY <1>1, LastRows DEF IsLast
<1>4. \A p \in 1..N : Cardinality({e \in 1..(p - 1) : last[e]}) = MembersBefore(E, p)
  <2> SUFFICES ASSUME NEW p \in 1..N
               PROVE  Cardinality({e \in 1..(p - 1) : last[e]}) = MembersBefore(E, p)
    OBVIOUS
  <2>1. {e \in 1..(p - 1) : last[e]} = {e \in 1..(p - 1) : e \in E}
    <3>1. \A e \in 1..(p - 1) : e \in 1..N
      BY <1>1
    <3> QED BY <3>1
  <2> QED BY <2>1 DEF MembersBefore
<1> HIDE DEF E
<1>5. MembersBefore(E, r) = MembersBefore(E, L)
  <2>1. r \in Nat \ {0} /\ L \in Nat \ {0} /\ r <= L
    BY <1>1, <1>3
  <2>2. ASSUME NEW e \in r..(L - 1) PROVE e \notin E
    <3>1. e \in 1..N /\ r <= e /\ e <= L /\ e # L
      BY <1>1, <1>3
    <3>2. Rid(e) = Rid(r)
      BY <1>1, <1>3, <3>1, NodeRowsTogether
    <3>3. ~IsLast(e)
      BY <3>1, <3>2 DEF IsLast
    <3> QED BY <1>2, <3>1, <3>3
  <2> HIDE DEF L
  <2> QED BY <2>1, <2>2, CountGrows
<1>6. ASSUME NEW q \in 1..N, q \in E, MembersBefore(E, q) = MembersBefore(E, L) PROVE q = L
  <2>1. q \in Nat \ {0} /\ L \in Nat \ {0} /\ L \in E
    BY <1>1, <1>2, <1>3
  <2> HIDE DEF L
  <2>2. ASSUME q < L PROVE FALSE
    <3>1. q <= L /\ q \in q..(L - 1)
      BY <2>1, <2>2
    <3>2. \A e \in q..(L - 1) : e \notin E
      BY <1>6, <2>1, <3>1, CountGrows
    <3> QED BY <1>6, <3>1, <3>2
  <2>3. ASSUME L < q PROVE FALSE
    <3>1. L <= q /\ L \in L..(q - 1)
      BY <2>1, <2>3
    <3>2. \A e \in L..(q - 1) : e \notin E
      BY <1>6, <2>1, <3>1, CountGrows
    <3> QED BY <2>1, <3>1, <3>2
  <2> QED BY <2>1, <2>2, <2>3
<1> DEFINE P(q) == last[q] /\ Cardinality({p \in 1..(q - 1) : last[p]}) = TrajId(r)
<1>7. TrajId(r) = MembersBefore(E, r)
  BY <1>4 DEF TrajId
<1>8. \A q \in 1..N : P(q) <=> q = L
  <2> SUFFICES ASSUME NEW q \in 1..N PROVE P(q) <=> q = L
    OBVIOUS
  <2>1. last[q] <=> q \in E
    BY DEF E
  <2>2. Cardinality({p \in 1..(q - 1) : last[p]}) = MembersBefore(E, q)
    BY <1>4
  <2>3. L \in E
    BY <1>2, <1>3
  <2> HIDE DEF L
  <2> QED BY <1>5, <1>6, <1>7, <2>1, <2>2, <2>3
<1>9. AdvantageOf(r) = CHOOSE q \in 1..N : P(q)
  BY DEF AdvantageOf
<1> HIDE DEF P, L
<1> QED BY <1>3, <1>8, <1>9 DEF L

\* With its own node's last row, a row learns from its own node and cohort.
LEMMA LearningIsOwn ==
    ASSUME Phases, Marks, Learning PROVE LearnsFromItsNode
<1> SUFFICES ASSUME phase = "done"
             PROVE  /\ \A q, r \in 1..N : tids[q] = tids[r] <=> Rid(q) = Rid(r)
                    /\ \A r \in 1..N : Rid(learns[r].from) = Rid(r)
                    /\ \A q, r \in 1..N : learns[q].cohort = learns[r].cohort =>
                          /\ InTid(Rid(q)[1])[1] = InTid(Rid(r)[1])[1]
                          /\ N % DpSize = 0 => Depth(Rid(q)) = Depth(Rid(r))
  BY DEF LearnsFromItsNode
<1>1. Cut /\ bi = Blocks + 1 /\ N \in Nat \ {0} /\ Blocks \in Nat
  BY RowOrder, BlocksCounted DEF Phases
<1>2. \A r \in 1..N : tids[r] = NodeTid(BlockOf(r), Rid(r))
  <2>1. \A r \in 1..N : BlockOf(r) \in 1..Blocks
    BY <1>1, BlocksAreOutputs
  <2>2. \A r \in 1..N : BlockOf(r) < bi
    BY <1>1, <2>1
  <2> QED BY <2>2 DEF Marks
<1>3. ASSUME NEW q \in 1..N, NEW r \in 1..N PROVE tids[q] = tids[r] <=> Rid(q) = Rid(r)
  BY <1>1, <1>2, NodeTids
<1>4. ASSUME NEW r \in 1..N
      PROVE  /\ learns[r].from = LastRow(Rid(r)) /\ learns[r].cohort = Cohort(LastRow(Rid(r)))
             /\ LastRow(Rid(r)) \in 1..N /\ Rid(LastRow(Rid(r))) = Rid(r)
  <2>1. learns[r] = [from |-> AdvantageOf(r), cohort |-> Cohort(AdvantageOf(r))]
    BY DEF Learning
  <2>2. learns[r].from = AdvantageOf(r) /\ learns[r].cohort = Cohort(AdvantageOf(r))
    BY <2>1
  <2>3. AdvantageOf(r) = LastRow(Rid(r))
    BY OwnAdvantage
  <2> QED BY <1>1, <2>2, <2>3, LastRows
<1>5. ASSUME NEW r \in 1..N
      PROVE  learns[r].cohort = IF Threaded THEN <<InTid(Rid(r)[1])[1], Depth(Rid(r))>>
                                ELSE <<InTid(Rid(r)[1])[1]>>
  <2> DEFINE L == LastRow(Rid(r))
  <2>1. learns[r].cohort = Cohort(L) /\ L \in 1..N /\ Rid(L) = Rid(r)
    BY <1>4
  <2> HIDE DEF L
  <2>2. tids[L][1] = InTid(Rid(L)[1])[1]
    BY <1>1, <1>2, <2>1, NodeTids
  <2>3. tids[L][1] = InTid(Rid(r)[1])[1] /\ Depth(Rid(L)) = Depth(Rid(r))
    BY <2>1, <2>2
  <2> QED BY <2>1, <2>3 DEF Cohort
<1>6. N % DpSize = 0 => Threaded
  <2> SUFFICES ASSUME N % DpSize = 0 PROVE PadSize = 0
    BY <1>1 DEF Threaded
  <2>1. DpSize \in Nat \ {0}
    BY CreditAssumption
  <2>2. DpSize - (N % DpSize) = DpSize
    BY <2>1
  <2> QED BY <2>1, <2>2, ZeroMod DEF PadSize
<1>7. ASSUME NEW q \in 1..N, NEW r \in 1..N, learns[q].cohort = learns[r].cohort
      PROVE  /\ InTid(Rid(q)[1])[1] = InTid(Rid(r)[1])[1]
             /\ N % DpSize = 0 => Depth(Rid(q)) = Depth(Rid(r))
  <2> DEFINE a(s) == InTid(Rid(s)[1])[1]
             d(s) == Depth(Rid(s))
  <2>1. /\ learns[q].cohort = IF Threaded THEN <<a(q), d(q)>> ELSE <<a(q)>>
        /\ learns[r].cohort = IF Threaded THEN <<a(r), d(r)>> ELSE <<a(r)>>
    BY <1>5
  <2> HIDE DEF a, d
  <2>2. CASE Threaded
    <3>1. <<a(q), d(q)>> = <<a(r), d(r)>>
      BY <1>7, <2>1, <2>2
    <3>2. a(q) = a(r) /\ d(q) = d(r)
      BY <3>1
    <3> QED BY <3>2 DEF a, d
  <2>3. CASE ~Threaded
    <3>1. <<a(q)>> = <<a(r)>>
      BY <1>7, <2>1, <2>3
    <3>2. a(q) = a(r)
      BY <3>1
    <3> QED BY <1>6, <2>3, <3>2 DEF a
  <2> QED BY <2>2, <2>3
<1> QED BY <1>3, <1>4, <1>7

\* The trainer broadcasts to every row of the batch the advantage of its own node,
\* whose baseline is taken over nodes of its own prompt.
THEOREM RowsLearnFromTheirNode == Spec => []LearnsFromItsNode
<1>1. Init => Phases /\ Marks /\ Learning
  BY StartPhases, StartMarks, StartLearning
<1>2. Phases /\ Marks /\ Learning /\ [Next]_vars => Phases' /\ Marks' /\ Learning'
  BY StepPhases, StepMarks, StepLearning
<1>3. Phases /\ Marks /\ Learning => LearnsFromItsNode
  BY LearningIsOwn
<1> QED BY <1>1, <1>2, <1>3, PTL DEF Spec

-----------------------------------------------------------------------------
(* Scores and shares.                                                        *)

\* What the judge scores that can add to a report's score.
Gains == {c \in Criteria : Asked[c] > 0}

\* What the points of a report are divided by.
Full == Scale * ReportDen

\* Criteria are finite, and a report is scored out of at least what those weigh
\* that add to it.
LEMMA Rubric ==
    ASSUME weights \in Rubrics
    PROVE  /\ IsFiniteSet(Criteria) /\ \A c \in Criteria : Asked[c] \in Int
           /\ Gains \in SUBSET Criteria /\ IsFiniteSet(Gains)
           /\ \A c \in Criteria : c \in Gains <=> Asked[c] > 0
           /\ Positive \in SUBSET Gains /\ IsFiniteSet(Positive)
           /\ ReportDen \in Nat \ {0} /\ SumFunctionOnSet(Asked, Gains) <= ReportDen
           /\ Scale \in Nat \ {0} /\ Full \in Nat \ {0}
<1>1. weights \in Seq(Int) /\ Asked \in Seq(Int)
  BY CreditAssumption DEF Asked, QualityOnly
<1>2. Criteria = 1..Len(Asked) /\ Len(Asked) \in Nat /\ \A c \in Criteria : Asked[c] \in Int
  BY <1>1 DEF Criteria
<1>3. IsFiniteSet(Criteria)
  <2>1. 1 \in Int /\ Len(Asked) \in Int
    BY <1>2
  <2> QED BY <1>2, <2>1, FS_Interval
<1>4. Gains \in SUBSET Criteria /\ \A c \in Criteria : c \in Gains <=> Asked[c] > 0
  BY DEF Gains
<1>5. IsFiniteSet(Gains)
  BY <1>3, <1>4, FS_Subset
<1>6. Positive \in SUBSET Gains
  <2>1. ASSUME NEW c \in Positive PROVE Asked = weights /\ c \in DOMAIN weights /\ weights[c] > 0
    BY <1>1 DEF Positive, Asked
  <2> QED BY <2>1 DEF Gains, Criteria
<1>7. IsFiniteSet(Positive)
  BY <1>5, <1>6, FS_Subset
<1> DEFINE s == SumFunctionOnSet(Asked, Gains)
<1>8. s \in Int
  <2>1. \A c \in Gains : Asked[c] \in Int
    BY <1>2, <1>4
  <2> QED BY <1>5, <2>1, SumInt
<1>9. ReportDen = Max({s, 1})
  BY DEF ReportDen, Best, Gains, Criteria
<1> HIDE DEF s
<1>10. Max({s, 1}) = IF s >= 1 THEN s ELSE 1
  BY <1>8, MaxWithOne
<1>11. ReportDen \in Nat \ {0} /\ s <= ReportDen
  BY <1>8, <1>9, <1>10
<1>12. Scale \in Nat \ {0} /\ Full \in Nat \ {0}
  <2>1. Scale \in Nat \ {0}
    BY CreditAssumption
  <2> QED BY <1>11, <2>1 DEF Full
<1> QED BY <1>2, <1>3, <1>4, <1>5, <1>6, <1>7, <1>11, <1>12 DEF s

\* What the judge can answer: a score per criterion, citations per node, support.
LEMMA Answers ==
    ASSUME NEW k, NEW v \in Verdicts(k)
    PROVE  /\ v.score \in [Criteria -> 0..Scale] /\ v.cites \in [Nodes(k) -> 0..MaxCites]
           /\ v.support \in [Positive \X Nodes(k) -> 0..Scale]
<1>1. /\ v.score \in [Criteria -> 0..Scale]
      /\ v.cites \in [Nodes(k) -> 0..(IF mode = "support" THEN 1 ELSE MaxCites)]
      /\ v.support \in [Positive \X Nodes(k) -> IF mode = "support" THEN 0..Scale ELSE {0}]
  BY DEF Verdicts
<1>2. 0..(IF mode = "support" THEN 1 ELSE MaxCites) \in SUBSET (0..MaxCites)
  <2>1. MaxCites \in Nat \ {0}
    BY CreditAssumption
  <2> QED BY <2>1
<1>3. (IF mode = "support" THEN 0..Scale ELSE {0}) \in SUBSET (0..Scale)
  <2>1. Scale \in Nat
    BY CreditAssumption
  <2> QED BY <2>1
<1> QED BY <1>1, <1>2, <1>3

\* What an answer can add to a report's score: no more than the full score of
\* a criterion that can add something, and nothing of one that cannot.
LEMMA PointsBound ==
    ASSUME weights \in Rubrics, NEW k, NEW v \in Verdicts(k), NEW c \in Criteria
    PROVE  /\ Points(v, c) \in Int
           /\ c \in Gains => Points(v, c) \in Nat /\ Points(v, c) <= (Scale * Unit) * Asked[c]
           /\ c \notin Gains => Points(v, c) <= 0
<1> DEFINE a == v.score[c]
           w == Asked[c]
<1>1. /\ a \in Nat /\ a <= Scale /\ Scale \in Nat /\ Unit \in Nat /\ w \in Int
      /\ c \in Gains <=> w > 0
  <2>1. a \in 0..Scale
    BY Answers
  <2>2. Scale \in Nat /\ Unit \in Nat
    BY CreditAssumption
  <2>3. w \in Int /\ (c \in Gains <=> w > 0)
    BY Rubric
  <2> HIDE DEF a, w
  <2> QED BY <2>1, <2>2, <2>3
<1>2. Points(v, c) = a * w * Unit
  BY DEF Points
<1> HIDE DEF a, w
<1>3. a * w * Unit = (w * Unit) * a /\ (Scale * Unit) * w = (w * Unit) * Scale
      /\ a * w * Unit \in Int
  BY <1>1
<1>4. CASE w > 0
  <2> DEFINE y == w * Unit
  <2>1. w \in Nat
    BY <1>1, <1>4
  <2>2. y \in Nat
    BY <1>1, <2>1, Times
  <2> HIDE DEF y
  <2>3. y * a \in Nat /\ y * a <= y * Scale
    <3>1. a \in Int /\ Scale \in Int
      BY <1>1
    <3> QED BY <1>1, <2>2, <3>1, Times, TimesMonotone
  <2>4. Points(v, c) = y * a /\ (Scale * Unit) * w = y * Scale
    BY <1>2, <1>3 DEF y
  <2> QED BY <1>1, <1>4, <2>3, <2>4 DEF w
<1>5. CASE ~(w > 0)
  <2>1. 0 - w \in Nat
    BY <1>1, <1>5
  <2>2. (0 - w) * Unit \in Nat
    BY <1>1, <2>1, Times
  <2>3. ((0 - w) * Unit) * a \in Nat
    BY <1>1, <2>2, Times
  <2>4. ((0 - w) * Unit) * a = 0 - (w * Unit) * a
    BY <1>1
  <2>5. (w * Unit) * a \in Int
    BY <1>1
  <2>6. (w * Unit) * a <= 0
    BY <2>3, <2>4, <2>5
  <2> QED BY <1>1, <1>2, <1>3, <1>5, <2>6
<1> QED BY <1>4, <1>5

\* Together, answers add no more than the full score.
LEMMA PointsSum ==
    ASSUME weights \in Rubrics
    PROVE  /\ Scale * Unit \in Nat /\ Full * Unit \in Int
           /\ SumFunctionOnSet(Asked, Gains) \in Int
           /\ (Scale * Unit) * SumFunctionOnSet(Asked, Gains) <= Full * Unit
<1> DEFINE s == SumFunctionOnSet(Asked, Gains)
           y == Scale * Unit
<1>1. Scale \in Nat /\ Unit \in Nat /\ ReportDen \in Nat /\ s <= ReportDen
  BY Rubric, CreditAssumption
<1>2. s \in Int
  <2>1. IsFiniteSet(Gains) /\ \A c \in Gains : Asked[c] \in Int
    BY Rubric
  <2> QED BY <2>1, SumInt
<1> HIDE DEF s
<1>3. y \in Nat
  BY <1>1, Times
<1>4. Full * Unit = y * ReportDen /\ y * ReportDen \in Int
  <2>1. (Scale * ReportDen) * Unit = (Scale * Unit) * ReportDen
    BY <1>1
  <2>2. (Scale * Unit) * ReportDen \in Int
    BY <1>1
  <2> QED BY <2>1, <2>2 DEF Full
<1> HIDE DEF y
<1>5. y * s <= y * ReportDen
  <2>1. ReportDen \in Int
    BY <1>1
  <2> QED BY <1>1, <1>2, <1>3, <2>1, TimesMonotone
<1> QED BY <1>2, <1>3, <1>4, <1>5 DEF s, y

\* No report is above 1.
LEMMA Reported ==
    ASSUME weights \in Rubrics, NEW k, NEW v \in Verdicts(k)
    PROVE  Report(v) \in Int /\ Report(v) <= Unit
<1> DEFINE f == [c \in Criteria |-> Points(v, c)]
           y == Scale * Unit
           p == [c \in Criteria |-> IF c \in Gains THEN y * Asked[c] ELSE 0]
           s == SumFunctionOnSet(Asked, Gains)
           t == SumFunctionOnSet(f, Criteria)
<1>1. Unit \in Nat /\ y \in Nat /\ y \in Int
  <2>1. Unit \in Nat /\ y \in Nat
    BY PointsSum, CreditAssumption
  <2> HIDE DEF y
  <2> QED BY <2>1
<1>2. /\ IsFiniteSet(Criteria) /\ (\A c \in Criteria : Asked[c] \in Int)
      /\ Gains \in SUBSET Criteria /\ IsFiniteSet(Gains) /\ Full \in Nat \ {0}
  BY Rubric
<1>3. \A c \in Criteria : f[c] \in Int /\ p[c] \in Int /\ f[c] <= p[c]
  <2> SUFFICES ASSUME NEW c \in Criteria PROVE f[c] \in Int /\ p[c] \in Int /\ f[c] <= p[c]
    OBVIOUS
  <2>1. f[c] = Points(v, c) /\ p[c] = IF c \in Gains THEN y * Asked[c] ELSE 0
    OBVIOUS
  <2>2. /\ Points(v, c) \in Int
        /\ c \in Gains => Points(v, c) <= y * Asked[c]
        /\ c \notin Gains => Points(v, c) <= 0
    BY PointsBound
  <2> HIDE DEF f, p, y
  <2>3. y * Asked[c] \in Int
    BY <1>1, <1>2
  <2> QED BY <2>1, <2>2, <2>3
<1>4. SumFunctionOnSet(p, Criteria) = y * s
  <2>1. \A c \in Criteria \ Gains : p[c] = 0
    OBVIOUS
  <2>2. \A c \in Gains : Asked[c] \in Int /\ p[c] = y * Asked[c]
    BY <1>2
  <2>3. \A c \in Criteria : p[c] \in Int
    BY <1>3
  <2> HIDE DEF p, y
  <2>4. SumFunctionOnSet(p, Criteria) = SumFunctionOnSet(p, Gains)
    BY <1>2, <2>1, <2>3, SumSupport
  <2>5. SumFunctionOnSet(p, Gains) = y * s
    BY <1>1, <1>2, <2>2, SumScale
  <2> QED BY <2>4, <2>5
<1>5. t \in Int /\ t <= SumFunctionOnSet(p, Criteria) /\ SumFunctionOnSet(p, Criteria) \in Int
  <2> HIDE DEF f, p
  <2> QED BY <1>2, <1>3, SumInt, SumBound
<1>6. y * s <= Full * Unit /\ Full * Unit \in Int
  BY PointsSum
<1>7. Report(v) = t \div Full
  BY DEF Report, SumFunction, Full
<1> HIDE DEF t, s, p, y
<1>8. t <= Full * Unit
  BY <1>4, <1>5, <1>6
<1>9. t \div Full \in Int /\ t \div Full <= Unit
  <2>1. Unit \in Int
    BY <1>1
  <2> QED BY <1>2, <1>5, <1>8, <2>1, Divided, DivMonotone
<1> QED BY <1>7, <1>9

\* The parts of a verdict are finite, and n's share is a share.
LEMMA Cited ==
    ASSUME Cut, NEW k \in 1..Blocks, NEW v \in Verdicts(k)
    PROVE  /\ IsFiniteSet(Nodes(k)) /\ DOMAIN v.cites = Nodes(k)
           /\ \A n \in Nodes(k) : v.cites[n] \in 0..MaxCites /\ v.cites[n] \in Nat
           /\ Cites(v) = SumFunctionOnSet(v.cites, Nodes(k)) /\ Cites(v) \in Nat
           /\ Contributors(v) \in SUBSET Nodes(k) /\ IsFiniteSet(Contributors(v))
           /\ \A n \in Nodes(k) : n \in Contributors(v) <=> v.cites[n] > 0
<1>1. IsFiniteSet(Nodes(k)) /\ v.cites \in [Nodes(k) -> 0..MaxCites] /\ MaxCites \in Nat
  BY NodesOfBlock, Answers, CreditAssumption
<1>2. DOMAIN v.cites = Nodes(k) /\ \A n \in Nodes(k) : v.cites[n] \in 0..MaxCites /\ v.cites[n] \in Nat
  BY <1>1
<1>3. Cites(v) = SumFunctionOnSet(v.cites, Nodes(k))
  BY <1>2 DEF Cites, SumFunction
<1>4. Cites(v) \in Nat
  BY <1>1, <1>2, <1>3, SumNat
<1>5. Contributors(v) \in SUBSET Nodes(k) /\ \A n \in Nodes(k) : n \in Contributors(v) <=> v.cites[n] > 0
  BY <1>2 DEF Contributors
<1>6. IsFiniteSet(Contributors(v))
  BY <1>1, <1>5, FS_Subset
<1> QED BY <1>1, <1>2, <1>3, <1>4, <1>5, <1>6

\* The support a criterion gets is what the nodes give it.
LEMMA Supporters ==
    ASSUME Cut, weights \in Rubrics, NEW k \in 1..Blocks, NEW v \in Verdicts(k), NEW c \in Positive,
           NEW g, g = [n \in Nodes(k) |-> v.support[<<c, n>>]]
    PROVE  /\ Support(v, c) = SumFunctionOnSet(g, Nodes(k)) /\ Support(v, c) \in Nat
           /\ \A n \in Nodes(k) : /\ g[n] \in 0..Scale /\ g[n] \in Nat
                                  /\ g[n] <= Support(v, c)
<1>1. IsFiniteSet(Nodes(k)) /\ DOMAIN v.cites = Nodes(k)
  BY Cited
<1>2. v.support \in [Positive \X Nodes(k) -> 0..Scale] /\ Scale \in Nat
  BY Answers, CreditAssumption
<1>3. \A n \in Nodes(k) : g[n] \in 0..Scale /\ g[n] \in Nat
  BY <1>2
<1>4. Support(v, c) = SumFunctionOnSet(g, Nodes(k))
  BY <1>1 DEF Support, SumFunction
<1>5. /\ SumFunctionOnSet(g, Nodes(k)) \in Nat
      /\ \A n \in Nodes(k) : g[n] <= SumFunctionOnSet(g, Nodes(k))
  BY <1>1, <1>3, SumNat
<1> QED BY <1>3, <1>4, <1>5

\* What a criterion adds to the report, or takes off it.
Merits(v) == [c \in Criteria |-> Points(v, c) \div (Scale * ReportDen)]

\* What the criteria add that are shared out is not negative and at most 1.
LEMMA Worths ==
    ASSUME weights \in Rubrics, NEW k, NEW v \in Verdicts(k)
    PROVE  /\ \A c \in Positive : Merits(v)[c] \in Nat
           /\ SumFunctionOnSet(Merits(v), Positive) <= Unit
<1> DEFINE W == Merits(v)
           y == Scale * Unit
           s == SumFunctionOnSet(Asked, Gains)
           t == SumFunctionOnSet(W, Gains)
           f == [c \in Gains |-> y * Asked[c]]
           g == [c \in Gains |-> Full * W[c]]
<1>1. /\ IsFiniteSet(Gains) /\ Gains \in SUBSET Criteria /\ Positive \in SUBSET Gains
      /\ Full \in Nat \ {0} /\ Full \in Nat /\ Full \in Int
      /\ (\A c \in Gains : Asked[c] \in Int)
  BY Rubric
<1>2. y \in Int /\ s \in Int /\ Unit \in Int /\ y * s <= Full * Unit /\ Full * Unit \in Int
  <2>1. y \in Nat /\ s \in Int /\ Unit \in Nat /\ y * s <= Full * Unit /\ Full * Unit \in Int
    BY PointsSum, CreditAssumption
  <2> HIDE DEF y, s
  <2> QED BY <2>1
<1>3. ASSUME NEW c \in Gains
      PROVE  W[c] \in Nat /\ W[c] \in Int /\ f[c] \in Int /\ g[c] \in Int /\ g[c] <= f[c]
  <2> DEFINE x == Points(v, c)
  <2>1. x \in Nat /\ x <= y * Asked[c] /\ W[c] = x \div Full
    BY <1>1, PointsBound DEF Merits, Full
  <2>2. f[c] = y * Asked[c] /\ g[c] = Full * W[c]
    OBVIOUS
  <2> HIDE DEF W, x, y, f, g
  <2>3. W[c] \in Nat
    BY <1>1, <2>1, DivMod
  <2>4. Full * W[c] <= x
    <3>1. x \in Int
      BY <2>1
    <3> QED BY <1>1, <2>1, <3>1, Divided
  <2>5. Full * W[c] \in Int /\ y * Asked[c] \in Int
    BY <1>1, <1>2, <2>3
  <2> QED BY <2>1, <2>2, <2>3, <2>4, <2>5
<1>4. t \in Nat /\ SumFunctionOnSet(W, Positive) <= t
  <2>1. \A c \in Gains : W[c] \in Nat
    BY <1>3
  <2> HIDE DEF W, f, g, y, s
  <2>2. t \in Nat
    BY <1>1, <2>1, SumNat
  <2>3. \A R \in SUBSET Gains : SumFunctionOnSet(W, R) <= SumFunctionOnSet(W, Gains)
    BY <1>1, <2>1, SumNat
  <2> QED BY <1>1, <2>2, <2>3
<1>5. Full * t = SumFunctionOnSet(g, Gains) /\ y * s = SumFunctionOnSet(f, Gains)
  <2>1. \A c \in Gains : W[c] \in Int /\ g[c] = Full * W[c] /\ f[c] = y * Asked[c]
    BY <1>3
  <2> HIDE DEF W, f, g, y
  <2>2. \A c \in Gains : W[c] \in Int /\ g[c] = Full * W[c]
    BY <2>1
  <2>3. \A c \in Gains : Asked[c] \in Int /\ f[c] = y * Asked[c]
    BY <1>1, <2>1
  <2>4. SumFunctionOnSet(g, Gains) = Full * SumFunctionOnSet(W, Gains)
    BY <1>1, <2>2, SumScale
  <2>5. SumFunctionOnSet(f, Gains) = y * SumFunctionOnSet(Asked, Gains)
    BY <1>1, <1>2, <2>3, SumScale
  <2> QED BY <2>4, <2>5
<1>6. SumFunctionOnSet(g, Gains) <= SumFunctionOnSet(f, Gains)
  <2> HIDE DEF f, g
  <2> QED BY <1>1, <1>3, SumBound
<1>7. SumFunctionOnSet(W, Positive) \in Nat
  <2>1. IsFiniteSet(Positive) /\ \A c \in Positive : W[c] \in Nat
    BY <1>1, <1>3, FS_Subset
  <2> HIDE DEF W
  <2> QED BY <2>1, SumNat
<1> HIDE DEF f, g, s, t, y, W
<1>8. t <= Unit
  <2>1. Full * t \in Int /\ t \in Int /\ y * s \in Int
    BY <1>1, <1>2, <1>4
  <2>2. Full * t <= Full * Unit
    BY <1>2, <1>5, <1>6, <2>1
  <2>3. (Full * t) \div Full = t
    BY <1>1, <2>1, DivExact
  <2>4. (Full * t) \div Full <= Unit
    BY <1>1, <1>2, <2>1, <2>2, DivMonotone
  <2> QED BY <2>3, <2>4
<1>9. SumFunctionOnSet(W, Positive) <= Unit
  BY <1>2, <1>4, <1>7, <1>8
<1>10. \A c \in Positive : W[c] \in Nat
  BY <1>1, <1>3
<1> QED BY <1>9, <1>10 DEF W

\* Nobody's share is above a reward of 1.
LEMMA Shares ==
    ASSUME Cut, weights \in Rubrics, mode \in {"equal", "citation_count", "support"},
           NEW k \in 1..Blocks, NEW v \in Verdicts(k), NEW n \in Nodes(k)
    PROVE  Evidence(v, n) \in Int /\ Evidence(v, n) <= Unit
<1> DEFINE R == Report(v)
<1>1. R \in Int /\ R <= Unit /\ Unit \in Nat \ {0}
  BY Reported, CreditAssumption
<1> HIDE DEF R
<1>2. CASE mode = "equal"
  <2> DEFINE d == Cardinality(Contributors(v))
  <2>1. Evidence(v, n) = IF n \in Contributors(v) THEN R \div d ELSE 0
    BY <1>2 DEF Evidence, R
  <2>2. n \in Contributors(v) => d \in Nat \ {0}
    BY Cited, FS_CardinalityType, FS_EmptySet
  <2> HIDE DEF d
  <2>3. ASSUME n \in Contributors(v) PROVE R \div d \in Int /\ R \div d <= Unit
    <3>1. d \in Nat \ {0} /\ d \in Nat /\ Unit \in Nat /\ Unit \in Int
      BY <1>1, <2>2, <2>3
    <3>2. Unit <= d * Unit /\ d * Unit \in Nat
      BY <3>1, Times
    <3>3. R <= d * Unit
      BY <1>1, <3>2
    <3> QED BY <1>1, <3>1, <3>3, Divided, DivMonotone
  <2> QED BY <1>1, <2>1, <2>3
<1>3. CASE mode = "citation_count"
  <2> DEFINE c == v.cites[n]
             m == Max({Cites(v), 1})
             x == R * c
  <2>1. Evidence(v, n) = x \div m
    BY <1>3 DEF Evidence, R
  <2>2. c \in Nat /\ Cites(v) \in Nat /\ c <= Cites(v)
    <3>1. /\ IsFiniteSet(Nodes(k)) /\ \A p \in Nodes(k) : v.cites[p] \in Nat
          /\ Cites(v) = SumFunctionOnSet(v.cites, Nodes(k)) /\ Cites(v) \in Nat
      BY Cited
    <3>2. v.cites[n] <= SumFunctionOnSet(v.cites, Nodes(k))
      BY <3>1, SumNat
    <3> QED BY <3>1, <3>2
  <2>3. m \in Nat \ {0} /\ c <= m
    <3>1. m = IF Cites(v) >= 1 THEN Cites(v) ELSE 1
      BY <2>2, MaxWithOne
    <3> HIDE DEF m
    <3> QED BY <2>2, <3>1
  <2> HIDE DEF c, m
  <2>4. x <= m * Unit
    <3>1. c * R <= c * Unit
      BY <1>1, <2>2, TimesMonotone
    <3>2. Unit * c <= Unit * m
      BY <1>1, <2>2, <2>3, TimesMonotone
    <3>3. /\ c * R = R * c /\ c * Unit = Unit * c /\ Unit * m = m * Unit
          /\ R * c \in Int /\ Unit * c \in Int /\ m * Unit \in Int
      BY <1>1, <2>2, <2>3
    <3> QED BY <3>1, <3>2, <3>3
  <2>5. x \in Int /\ Unit \in Int
    BY <1>1, <2>2
  <2> HIDE DEF x
  <2> QED BY <2>1, <2>3, <2>4, <2>5, Divided, DivMonotone
<1>4. CASE mode = "support"
  <2> DEFINE W == Merits(v)
             f == [c \in Positive |-> Share(v, c, n)]
  <2>1. Evidence(v, n) = SumFunctionOnSet(f, Positive)
    BY <1>4 DEF Evidence, SumFunction
  <2>2. /\ IsFiniteSet(Positive) /\ (\A c \in Positive : c \in Criteria)
        /\ (\A c \in Positive : W[c] \in Nat) /\ SumFunctionOnSet(W, Positive) <= Unit
    BY Rubric, Worths
  <2>3. \A c \in Positive : f[c] \in Int /\ W[c] \in Int /\ f[c] <= W[c]
    <3> SUFFICES ASSUME NEW c \in Positive PROVE f[c] \in Int /\ W[c] \in Int /\ f[c] <= W[c]
      OBVIOUS
    <3> DEFINE g == [m \in Nodes(k) |-> v.support[<<c, m>>]]
               a == g[n]
               d == Max({Support(v, c), 1})
               w == W[c]
    <3>1. f[c] = (w * a) \div d
      BY <2>2 DEF Share, Merits, WDen
    <3>2. a \in Nat /\ Support(v, c) \in Nat /\ a <= Support(v, c)
      <4> HIDE DEF a
      <4>1. \A m \in Nodes(k) : g[m] \in Nat /\ g[m] <= Support(v, c)
        BY Supporters
      <4>2. Support(v, c) \in Nat
        BY Supporters
      <4> QED BY <4>1, <4>2 DEF a
    <3>3. d = IF Support(v, c) >= 1 THEN Support(v, c) ELSE 1
      BY <3>2, MaxWithOne
    <3>4. w \in Nat
      BY <2>2
    <3> HIDE DEF f, g, a, d, w, W
    <3>5. d \in Nat \ {0} /\ a <= d
      BY <3>2, <3>3
    <3>6. w * a <= w * d /\ w * d = d * w /\ w * a \in Int /\ w \in Int
      <4>1. a \in Int /\ d \in Int
        BY <3>2, <3>5
      <4>2. w * a <= w * d
        BY <3>4, <3>5, <4>1, TimesMonotone
      <4> QED BY <3>4, <4>1, <4>2
    <3>7. (w * a) \div d \in Int /\ (w * a) \div d <= w
      BY <3>5, <3>6, Divided, DivMonotone
    <3> QED BY <3>1, <3>6, <3>7 DEF w
  <2> HIDE DEF f, W
  <2>4. SumFunctionOnSet(f, Positive) \in Int /\ SumFunctionOnSet(W, Positive) \in Int
        /\ SumFunctionOnSet(f, Positive) <= SumFunctionOnSet(W, Positive)
    BY <2>2, <2>3, SumInt, SumBound
  <2> QED BY <1>1, <2>1, <2>2, <2>4
<1> QED BY <1>2, <1>3, <1>4

\* A block has rows, and the rows of its nodes are its own.
LEMMA BlockRows ==
    ASSUME Cut, NEW k \in 1..Blocks
    PROVE  /\ Block(k) \in SUBSET (1..N) /\ IsFiniteSet(Block(k))
           /\ Cardinality(Block(k)) \in Nat \ {0}
           /\ \A n \in Nodes(k) : /\ RowsOf(n) \in SUBSET Block(k) /\ IsFiniteSet(RowsOf(n))
                                  /\ Cardinality(RowsOf(n)) \in Nat
<1>1. N \in Nat /\ IsFiniteSet(1..N)
  <2>1. N \in Nat /\ 1 \in Int /\ N \in Int
    BY RowOrder
  <2> QED BY <2>1, FS_Interval
<1>2. Block(k) \in SUBSET (1..N) /\ Block(k) # {}
  <2>1. \E r \in 1..N : BlockOf(r) = k
    BY BlocksHaveRows
  <2> QED BY <2>1 DEF Block
<1>3. IsFiniteSet(Block(k))
  BY <1>1, <1>2, FS_Subset
<1>4. Cardinality(Block(k)) \in Nat \ {0}
  BY <1>2, <1>3, FS_CardinalityType, FS_EmptySet
<1>5. ASSUME NEW n \in Nodes(k)
      PROVE  /\ RowsOf(n) \in SUBSET Block(k) /\ IsFiniteSet(RowsOf(n))
             /\ Cardinality(RowsOf(n)) \in Nat
  <2>1. RowsOf(n) \in SUBSET Block(k)
    BY NodesOfBlock DEF RowsOf, Block
  <2>2. IsFiniteSet(RowsOf(n))
    BY <1>3, <2>1, FS_Subset
  <2> QED BY <2>1, <2>2, FS_CardinalityType
<1> QED BY <1>2, <1>3, <1>4, <1>5

\* What a node is paid.
LEMMA Paid ==
    ASSUME Phases, phase = "assign", NEW n \in Nodes(bi),
           verdict = Raised \/ verdict \in Verdicts(bi)
    PROVE  /\ Reward(bi, n) \in Int /\ Reward(bi, n) <= Unit
           /\ verdict = Raised => Reward(bi, n) = 0
<1>1. Cut /\ bi \in 1..Blocks /\ weights \in Rubrics /\ Unit \in Nat \ {0} /\ Gamma \in Nat
  BY CreditAssumption DEF Phases
<1>2. CASE verdict = Raised
  <2>1. Reward(bi, n) = 0
    BY <1>2 DEF Reward
  <2> QED BY <1>1, <2>1
<1>3. CASE verdict # Raised /\ mode = "inherited"
  <2>1. verdict \in Verdicts(bi)
    BY <1>3
  <2>2. Report(verdict) \in Int /\ Report(verdict) <= Unit
    BY <1>1, <2>1, Reported
  <2>3. Reward(bi, n) = IF n = Root(bi) THEN Report(verdict) ELSE 0
    BY <1>3 DEF Reward
  <2> QED BY <1>1, <1>3, <2>2, <2>3
<1>4. CASE verdict # Raised /\ mode # "inherited"
  <2>1. verdict \in Verdicts(bi) /\ mode \in {"equal", "citation_count", "support"}
    BY <1>4, CreditAssumption DEF Phases
  <2>2. Report(verdict) \in Int /\ Report(verdict) <= Unit
    BY <1>1, <2>1, Reported
  <2>3. Evidence(verdict, n) \in Int /\ Evidence(verdict, n) <= Unit
    BY <1>1, <2>1, Shares
  <2>4. Cost(bi, n) \in Nat
    <3> DEFINE x == Gamma * Cardinality(RowsOf(n))
               d == Cardinality(Block(bi))
    <3>1. d \in Nat \ {0} /\ Cardinality(RowsOf(n)) \in Nat
      BY <1>1, BlockRows
    <3>2. x \in Nat
      BY <1>1, <3>1, Times
    <3> HIDE DEF x, d
    <3>3. x \div d \in Nat
      BY <3>1, <3>2, DivMod
    <3> QED BY <3>3 DEF Cost, x, d
  <2>5. Reward(bi, n) = (IF rootMode = "full_R" /\ n = Root(bi) THEN Report(verdict)
                         ELSE Evidence(verdict, n)) - Cost(bi, n)
    BY <1>4 DEF Reward
  <2> QED BY <1>1, <1>4, <2>2, <2>3, <2>4, <2>5
<1> QED BY <1>2, <1>3, <1>4

-----------------------------------------------------------------------------
(* What is paid.                                                             *)

Rewarding ==
    /\ reports \in Seq(Int \cup {Raised}) /\ Len(reports) = bi - 1
    /\ verdict = Raised \/ verdict \in Verdicts(bi)
    /\ rewards \in [1..N -> Int] /\ \A r \in 1..N : rewards[r] <= Unit
    \* Rows of blocks to come, and of trees whose pass raised, have no reward.
    /\ \A r \in 1..N : bi <= BlockOf(r) => rewards[r] = 0
    /\ phase \in {"score", "assign", "guard"} =>
          \A r \in 1..N : BlockOf(r) < bi /\ reports[BlockOf(r)] = Raised => rewards[r] = 0
    /\ OutageIsSilent

\* The configuration determines what the judge can answer.
LEMMA SameVerdicts ==
    ASSUME UNCHANGED config PROVE \A k : Verdicts(k)' = Verdicts(k)
<1> SUFFICES ASSUME NEW k PROVE Verdicts(k)' = Verdicts(k)
  OBVIOUS
<1>1. weights' = weights /\ mode' = mode /\ Nodes(k)' = Nodes(k)
  BY SameRows DEF config
<1>2. Criteria' = Criteria /\ Positive' = Positive
  BY <1>1 DEF Criteria, Asked, Positive
<1> QED BY <1>1, <1>2 DEF Verdicts

LEMMA StartRewarding == Init => Rewarding
<1> SUFFICES ASSUME Init PROVE Rewarding
  OBVIOUS
<1>1. /\ reports = <<>> /\ verdict = Raised /\ bi = 1 /\ phase = "score"
      /\ rewards = [r \in 1..N |-> 0]
  BY DEF Init
<1>2. Cut /\ Unit \in Nat
  BY StartPhases, CreditAssumption DEF Phases
<1>3. rewards \in [1..N -> Int] /\ \A r \in 1..N : rewards[r] = 0 /\ rewards[r] <= Unit
  <2>1. 0 \in Int /\ 0 <= Unit
    BY <1>2
  <2> QED BY <1>1, <2>1
<1>4. ASSUME NEW r \in 1..N PROVE ~(BlockOf(r) < bi)
  <2>1. BlockOf(r) \in 1..Blocks /\ Blocks \in Nat
    BY <1>2, BlocksAreOutputs, BlocksCounted
  <2> QED BY <1>1, <2>1
<1>5. reports \in Seq(Int \cup {Raised}) /\ Len(reports) = bi - 1
  BY <1>1
<1>6. OutageIsSilent
  BY <1>1 DEF OutageIsSilent
<1> QED BY <1>1, <1>3, <1>4, <1>5, <1>6 DEF Rewarding

\* A guard that is on sees an outage.
LEMMA OutageSeen ==
    ASSUME Phases, Rewarding, threshold > 0, \A k \in DOMAIN reports : reports[k] \in {Raised, 0}
    PROVE  Cardinality(Zeros) * 100 >= threshold * Cardinality(Scored)
<1>1. DOMAIN reports = 1..Len(reports) /\ Len(reports) \in Nat
  <2>1. reports \in Seq(Int \cup {Raised})
    BY DEF Rewarding
  <2> QED BY <2>1
<1>2. Scored \in SUBSET Zeros /\ Zeros \in SUBSET DOMAIN reports
  BY DEF Scored, Zeros
<1>3. IsFiniteSet(DOMAIN reports)
  <2>1. 1 \in Int /\ Len(reports) \in Int
    BY <1>1
  <2> QED BY <1>1, <2>1, FS_Interval
<1>4. IsFiniteSet(Zeros) /\ IsFiniteSet(Scored) /\ Cardinality(Scored) <= Cardinality(Zeros)
  BY <1>2, <1>3, FS_Subset
<1>5. Cardinality(Zeros) \in Nat /\ Cardinality(Scored) \in Nat
  BY <1>4, FS_CardinalityType
<1>6. threshold \in 0..100
  BY CreditAssumption DEF Phases
<1> DEFINE z == Cardinality(Zeros)
           s == Cardinality(Scored)
<1>7. threshold * s <= 100 * z
  <2>1. s \in Nat /\ z \in Nat /\ s <= z /\ threshold \in Int /\ threshold <= 100 /\ 100 \in Int
    BY <1>4, <1>5, <1>6
  <2> HIDE DEF s, z
  <2>2. s * threshold <= s * 100
    BY <2>1, TimesMonotone
  <2>3. s * threshold = threshold * s /\ s * 100 <= 100 * z
    BY <2>1
  <2> QED BY <2>1, <2>2, <2>3
<1>8. z * 100 = 100 * z
  BY <1>5
<1> QED BY <1>7, <1>8

\* A block's rewards are on its own rows, and 0 if its pass raised.
LEMMA AssignRewarding ==
    ASSUME Phases, Rewarding, Assign PROVE Rewarding'
<1> DEFINE ends == {LastRow(n) : n \in Nodes(bi)}
           x == IF verdict = Raised THEN Raised ELSE Report(verdict)
<1>1. /\ phase = "assign" /\ phase' = (IF bi = Blocks THEN "guard" ELSE "score")
      /\ rewards' = [r \in 1..N |-> IF r \in ends THEN Reward(bi, Rid(r)) ELSE rewards[r]]
      /\ reports' = Append(reports, x)
      /\ bi' = bi + 1 /\ verdict' = Raised /\ UNCHANGED config
  BY DEF Assign
<1>2. Cut /\ bi \in 1..Blocks /\ Blocks \in Nat /\ weights \in Rubrics
  BY <1>1, BlocksCounted DEF Phases
<1>3. N' = N /\ \A r : BlockOf(r)' = BlockOf(r)
  BY <1>1, SameRows
<1>4. x \in Int \cup {Raised} /\ (x = Raised <=> verdict = Raised)
  <2>1. verdict # Raised => Report(verdict) \in Int
    BY <1>2, Reported DEF Rewarding
  <2> QED BY <2>1, CreditAssumption
<1>5. ASSUME NEW r \in 1..N
      PROVE  /\ BlockOf(r) \in 1..Blocks
             /\ r \in ends => BlockOf(r) = bi /\ Rid(r) \in Nodes(bi)
             /\ rewards'[r] = IF r \in ends THEN Reward(bi, Rid(r)) ELSE rewards[r]
             /\ rewards[r] \in Int /\ rewards[r] <= Unit
             /\ bi <= BlockOf(r) => rewards[r] = 0
  <2>1. BlockOf(r) \in 1..Blocks
    BY <1>2, BlocksAreOutputs
  <2>2. r \in ends => BlockOf(r) = bi
    BY <1>2, BlockEnds
  <2>3. r \in ends => Rid(r) \in Nodes(bi)
    BY <1>2, <2>2, NodesOfBlock
  <2>4. rewards'[r] = IF r \in ends THEN Reward(bi, Rid(r)) ELSE rewards[r]
    BY <1>1
  <2>5. rewards[r] \in Int /\ rewards[r] <= Unit /\ (bi <= BlockOf(r) => rewards[r] = 0)
    BY DEF Rewarding
  <2> QED BY <2>1, <2>2, <2>3, <2>4, <2>5
<1>6. ASSUME NEW r \in 1..N, r \in ends
      PROVE  /\ rewards'[r] \in Int /\ rewards'[r] <= Unit
             /\ verdict = Raised => rewards'[r] = 0
  <2>1. Rid(r) \in Nodes(bi) /\ rewards'[r] = Reward(bi, Rid(r))
    BY <1>5, <1>6
  <2>2. verdict = Raised \/ verdict \in Verdicts(bi)
    BY DEF Rewarding
  <2> QED BY <1>1, <2>1, <2>2, Paid
<1>7. /\ reports' \in Seq(Int \cup {Raised}) /\ Len(reports') = bi /\ reports'[bi] = x
      /\ \A k \in 1..(bi - 1) : reports'[k] = reports[k]
  <2> DEFINE T == Int \cup {Raised}
  <2>1. reports \in Seq(T) /\ x \in T /\ Len(reports) = bi - 1
    BY <1>4 DEF Rewarding
  <2>2. reports' = Append(reports, x)
    BY <1>1
  <2> HIDE DEF T, x
  <2>3. /\ reports' \in Seq(T) /\ Len(reports') = Len(reports) + 1
        /\ reports'[Len(reports) + 1] = x
        /\ \A k \in 1..Len(reports) : reports'[k] = reports[k]
    BY <2>1, <2>2, Appended
  <2>4. Len(reports) + 1 = bi
    BY <1>2, <2>1
  <2> QED BY <2>1, <2>3, <2>4 DEF T
<1> HIDE DEF ends, x
<1>8. rewards' \in [1..N -> Int] /\ \A r \in 1..N : rewards'[r] \in Int /\ rewards'[r] <= Unit
  <2>1. \A r \in 1..N : rewards'[r] \in Int /\ rewards'[r] <= Unit
    BY <1>5, <1>6
  <2>2. rewards' = [r \in 1..N |-> rewards'[r]]
    BY <1>1
  <2> QED BY <2>1, <2>2
<1>9. ASSUME NEW r \in 1..N, bi + 1 <= BlockOf(r) PROVE rewards'[r] = 0
  <2>1. r \notin ends /\ bi <= BlockOf(r)
    BY <1>2, <1>5, <1>9
  <2> QED BY <1>5, <2>1
<1>10. ASSUME NEW r \in 1..N, BlockOf(r) < bi + 1, reports'[BlockOf(r)] = Raised PROVE rewards'[r] = 0
  <2>1. CASE BlockOf(r) = bi
    <3>1. verdict = Raised
      BY <1>4, <1>7, <1>10, <2>1
    <3>2. r \notin ends => rewards'[r] = 0
      BY <1>2, <1>5, <2>1
    <3> QED BY <1>6, <3>1, <3>2
  <2>2. CASE BlockOf(r) # bi
    <3>1. BlockOf(r) \in 1..(bi - 1) /\ BlockOf(r) < bi /\ r \notin ends
      BY <1>2, <1>5, <1>10, <2>2
    <3>2. reports[BlockOf(r)] = Raised
      BY <1>7, <1>10, <3>1
    <3>3. rewards[r] = 0
      BY <1>1, <3>1, <3>2 DEF Rewarding
    <3> QED BY <1>5, <3>1, <3>3
  <2> QED BY <2>1, <2>2
<1>11. OutageIsSilent'
  BY <1>1 DEF OutageIsSilent
<1>12. Len(reports') = bi' - 1
  BY <1>1, <1>2, <1>7
<1> QED BY <1>1, <1>3, <1>7, <1>8, <1>9, <1>10, <1>11, <1>12 DEF Rewarding

\* The guard leaves the rewards alone or sets all of them to 0.
LEMMA GuardRewarding ==
    ASSUME Phases, Rewarding, Guard PROVE Rewarding'
<1> DEFINE Fires == /\ threshold > 0 /\ Scored # {}
                    /\ Cardinality(Zeros) * 100 >= threshold * Cardinality(Scored)
<1>1. /\ phase = "guard" /\ phase' = "sweep"
      /\ rewards' = IF Fires THEN [r \in 1..N |-> 0] ELSE rewards
      /\ UNCHANGED <<config, bi, verdict, reports>>
  BY DEF Guard
<1>2. Cut /\ bi = Blocks + 1 /\ Blocks \in Nat /\ Unit \in Nat
  BY <1>1, BlocksCounted, CreditAssumption DEF Phases
<1>3. N' = N /\ (\A r : BlockOf(r)' = BlockOf(r)) /\ (\A k : Verdicts(k)' = Verdicts(k))
  BY <1>1, SameRows, SameVerdicts
<1>4. ASSUME NEW r \in 1..N PROVE BlockOf(r) \in 1..Blocks /\ BlockOf(r) < bi
  <2>1. BlockOf(r) \in 1..Blocks
    BY <1>2, BlocksAreOutputs
  <2> QED BY <1>2, <2>1
<1>5. /\ rewards' \in [1..N -> Int]
      /\ \A r \in 1..N : rewards'[r] <= Unit /\ (rewards[r] = 0 => rewards'[r] = 0)
  <2>1. CASE Fires
    <3>1. rewards' = [r \in 1..N |-> 0] /\ 0 \in Int /\ 0 <= Unit
      BY <1>1, <1>2, <2>1
    <3> QED BY <3>1
  <2>2. CASE ~Fires
    <3>1. rewards' = rewards
      BY <1>1, <2>2
    <3> QED BY <3>1 DEF Rewarding
  <2> QED BY <2>1, <2>2
<1>6. ASSUME threshold > 0, \A k \in DOMAIN reports : reports[k] \in {Raised, 0}, NEW r \in 1..N
      PROVE  rewards'[r] = 0
  <2>1. CASE Scored # {}
    <3>1. Cardinality(Zeros) * 100 >= threshold * Cardinality(Scored)
      BY <1>6, OutageSeen
    <3>2. rewards' = [q \in 1..N |-> 0]
      BY <1>1, <1>6, <2>1, <3>1
    <3> QED BY <3>2
  <2>2. CASE Scored = {}
    <3>1. BlockOf(r) \in DOMAIN reports
      <4>1. reports \in Seq(Int \cup {Raised}) /\ Len(reports) = bi - 1
        BY DEF Rewarding
      <4>2. DOMAIN reports = 1..Blocks
        BY <1>2, <4>1
      <4> QED BY <1>4, <4>2
    <3>2. reports[BlockOf(r)] = Raised
      BY <2>2, <3>1 DEF Scored
    <3>3. rewards[r] = 0
      BY <1>1, <1>4, <3>2 DEF Rewarding
    <3> QED BY <1>5, <3>3
  <2> QED BY <2>1, <2>2
<1>7. OutageIsSilent'
  <2>1. threshold' = threshold /\ reports' = reports
    BY <1>1 DEF config
  <2> QED BY <1>3, <1>6, <2>1 DEF OutageIsSilent
<1> HIDE DEF Fires
<1>8. /\ reports' \in Seq(Int \cup {Raised}) /\ Len(reports') = bi' - 1
      /\ verdict' = Raised \/ verdict' \in Verdicts(bi)'
  BY <1>1, <1>3 DEF Rewarding
<1> QED BY <1>1, <1>3, <1>4, <1>5, <1>7, <1>8 DEF Rewarding

LEMMA StepRewarding ==
    ASSUME Phases, Rewarding, [Next]_vars PROVE Rewarding'
<1>1. CASE Assign
  BY <1>1, AssignRewarding
<1>2. CASE Guard
  BY <1>2, GuardRewarding
<1>3. CASE Score \/ Sweep \/ Train \/ UNCHANGED vars
  <2>1. /\ UNCHANGED <<config, bi, reports, rewards>>
        /\ phase' = phase \/ (phase = "score" /\ phase' = "assign") \/ (phase \in {"sweep", "train"})
        /\ phase' \in {"sweep", "train", "done"} => phase \in {"sweep", "train", "done"}
        /\ phase' \in {"score", "assign", "guard"} => phase \in {"score", "assign", "guard"}
        /\ verdict' = verdict \/ verdict' = Raised \/ verdict' \in Verdicts(bi)
    BY <1>3 DEF Score, Sweep, Train, vars, layout
  <2>2. threshold' = threshold /\ N' = N /\ \A r : BlockOf(r)' = BlockOf(r)
    BY <2>1, SameRows DEF config
  <2>5. \A k : Verdicts(k)' = Verdicts(k)
    BY <2>1, SameVerdicts
  <2>3. verdict' = Raised \/ verdict' \in Verdicts(bi)'
    BY <2>1, <2>5 DEF Rewarding
  <2>4. OutageIsSilent'
    BY <2>1, <2>2 DEF Rewarding, OutageIsSilent
  <2> QED BY <2>1, <2>2, <2>3, <2>4, <2>5 DEF Rewarding
<1> QED BY <1>1, <1>2, <1>3 DEF Next

\* If the judge scored no tree above or below zero, the guard or the failed passes
\* leave no reward in the batch, costs included.
THEOREM OutageLearnsNothing == Spec => []OutageIsSilent
<1>1. Init => Phases /\ Rewarding
  BY StartPhases, StartRewarding
<1>2. Phases /\ Rewarding /\ [Next]_vars => Phases' /\ Rewarding'
  BY StepPhases, StepRewarding
<1>3. Rewarding => OutageIsSilent
  BY DEF Rewarding
<1> QED BY <1>1, <1>2, <1>3, PTL DEF Spec

LEMMA TypesHold ==
    ASSUME Phases, Judging, Marks, Learning, Rewarding PROVE TypeOK
<1>1. Blocks \in Nat \ {0}
  BY BlocksCounted DEF Phases
<1>2. bi \in 1..(Blocks + 1)
  BY <1>1 DEF Phases
<1>3. \A k \in DOMAIN reports : reports[k] = Raised \/ reports[k] \in Int
  <2>1. reports \in Seq(Int \cup {Raised})
    BY DEF Rewarding
  <2> QED BY <2>1
<1>4. phase = "done" => DOMAIN learns = 1..N
  BY DEF Learning
<1>5. /\ batch \in Batches /\ weights \in Rubrics /\ mode \in Modes
      /\ rootMode \in RootModes /\ threshold \in Thresholds
      /\ phase \in {"score", "assign", "guard", "sweep", "train", "done"}
  BY DEF Phases, Cut
<1>6. /\ judged \in Seq([input : 1..Blocks, ledger : BOOLEAN])
      /\ ledgers \subseteq {InTid(i) : i \in DOMAIN batch}
  BY DEF Judging
<1>7. DOMAIN tids = 1..N /\ last \in [1..N -> BOOLEAN]
  BY DEF Marks
<1>8. /\ verdict = Raised \/ verdict \in Verdicts(bi)
      /\ Len(reports) = bi - 1
      /\ rewards \in [1..N -> Int] /\ \A r \in 1..N : rewards[r] <= Unit
  BY DEF Rewarding
<1> QED BY <1>2, <1>3, <1>4, <1>5, <1>6, <1>7, <1>8 DEF TypeOK

\* Every reward generate() hands to the trainer is a number that is at most 1, one
\* for every row, and every report is a number or that of a pass that raised.
THEOREM CreditTypesHold == Spec => []TypeOK
<1>1. Init => Phases /\ Judging /\ Marks /\ Learning /\ Rewarding
  BY StartPhases, StartJudging, StartMarks, StartLearning, StartRewarding
<1>2. Phases /\ Judging /\ Marks /\ Learning /\ Rewarding /\ [Next]_vars
        => Phases' /\ Judging' /\ Marks' /\ Learning' /\ Rewarding'
  BY StepPhases, StepJudging, StepMarks, StepLearning, StepRewarding
<1>3. Phases /\ Judging /\ Marks /\ Learning /\ Rewarding => TypeOK
  BY TypesHold
<1> QED BY <1>1, <1>2, <1>3, PTL DEF Spec

-----------------------------------------------------------------------------
(* What adds up.                                                             *)

\* What one node can have most of, of citations or of support.
Most == Max({MaxCites, Scale})

\* How many parts a reward is cut into in block k.
Parts(k) == 1..(Most * Len(batch[Out(First(k))]))

\* No node has more than that.
LEMMA MostIsMost == Most \in Nat \ {0} /\ MaxCites <= Most /\ Scale <= Most
<1>1. MaxCites \in Nat \ {0} /\ Scale \in Nat \ {0}
  BY CreditAssumption
<1> DEFINE m == IF MaxCites >= Scale THEN MaxCites ELSE Scale
<1>2. m \in {MaxCites, Scale} /\ \A y \in {MaxCites, Scale} : m >= y
  BY <1>1
<1>3. ASSUME NEW z \in {MaxCites, Scale}, \A y \in {MaxCites, Scale} : z >= y PROVE z = m
  BY <1>1, <1>2, <1>3
<1>4. Most = m
  BY <1>2, <1>3 DEF Most, Max
<1> QED BY <1>1, <1>4

\* A reward of 1 can be cut into any such number of parts of any criterion.
LEMMA UnitParts ==
    ASSUME Cut, weights \in Rubrics, NEW k \in 1..Blocks, NEW d \in Parts(k)
    PROVE  /\ d \in Nat \ {0}
           /\ \E u \in Int : Unit = Full * (d * u)
<1> DEFINE o == Out(First(k))
<1>1. batch \in Batches /\ o \in DOMAIN batch /\ Len(batch[o]) \in Nat
  BY FirstRows, RowOrder DEF Cut, Out
<1>2. d \in Nat \ {0}
  <2>1. Most * Len(batch[o]) \in Nat
    BY <1>1, MostIsMost
  <2> QED BY <2>1 DEF Parts
<1>3. Unit % (Full * d) = 0
  <2>1. Asked \in Rubrics \cup {QualityOnly}
    BY DEF Asked
  <2>2. d \in 1..(Max({MaxCites, Scale}) * Len(batch[o]))
    BY DEF Parts, Most
  <2>3. Unit % (Scale * Best(Asked) * d) = 0
    BY <1>1, <2>1, <2>2, ExactUnits
  <2> QED BY <2>3 DEF Full, ReportDen
<1>4. Full \in Nat \ {0}
  BY Rubric
<1> HIDE DEF o
<1>5. Full * d \in Nat \ {0}
  BY <1>2, <1>4
<1> DEFINE m == Full * d
           u == Unit \div m
<1>6. Unit = m * u /\ u \in Int
  <2>1. Unit \in Int /\ m \in Nat \ {0} /\ Unit % m = 0
    BY <1>3, <1>5, CreditAssumption
  <2> HIDE DEF m
  <2> QED BY <2>1, Divides
<1> HIDE DEF u
<1>7. m * u = Full * (d * u)
  BY <1>2, <1>4, <1>6
<1> QED BY <1>2, <1>6, <1>7

\* The cited nodes, the citations and the supporters of a criterion are such numbers.
LEMMA PartsEnough ==
    ASSUME Cut, weights \in Rubrics, NEW k \in 1..Blocks, NEW v \in Verdicts(k)
    PROVE  /\ Contributors(v) # {} => Cardinality(Contributors(v)) \in Parts(k)
           /\ Contributors(v) # {} => Cites(v) \in Parts(k)
           /\ Contributors(v) = {} => Cites(v) = 0
           /\ \A c \in Positive : Support(v, c) # 0 => Support(v, c) \in Parts(k)
           /\ 1 \in Parts(k)
<1> DEFINE l == Len(batch[Out(First(k))])
           s == Cardinality(Nodes(k))
           g == [n \in Nodes(k) |-> Most]
<1>1. /\ IsFiniteSet(Nodes(k)) /\ s <= l /\ s \in Nat /\ l \in Nat /\ Most \in Nat \ {0}
      /\ s # 0
  <2>1. IsFiniteSet(Nodes(k)) /\ s <= l
    BY NodesOfBlock
  <2>2. l \in Nat
    BY FirstRows, RowOrder DEF Out
  <2>3. Nodes(k) # {}
    <3>1. First(k) \in 1..N /\ BlockOf(First(k)) = k
      BY FirstRows
    <3> QED BY <3>1, NodesOfBlock
  <2> QED BY <2>1, <2>2, <2>3, MostIsMost, FS_CardinalityType, FS_EmptySet
<1>2. /\ IsFiniteSet(Nodes(k)) /\ DOMAIN v.cites = Nodes(k)
      /\ (\A n \in Nodes(k) : v.cites[n] \in 0..MaxCites /\ v.cites[n] \in Nat)
      /\ Cites(v) = SumFunctionOnSet(v.cites, Nodes(k)) /\ Cites(v) \in Nat
      /\ Contributors(v) \in SUBSET Nodes(k) /\ IsFiniteSet(Contributors(v))
      /\ \A n \in Nodes(k) : n \in Contributors(v) <=> v.cites[n] > 0
  BY Cited
<1>3. /\ Parts(k) = 1..(Most * l) /\ Most * s \in Nat /\ Most * l \in Nat
      /\ s <= Most * s /\ Most * s <= Most * l
  <2>1. Parts(k) = 1..(Most * l)
    BY DEF Parts
  <2> HIDE DEF l, s
  <2>2. Most \in Nat /\ s \in Int /\ l \in Int
    BY <1>1
  <2>3. Most * s \in Nat /\ Most * l \in Nat /\ s <= Most * s
    BY <1>1, Times
  <2>4. Most * s <= Most * l
    BY <1>1, <2>2, TimesMonotone
  <2> QED BY <2>1, <2>3, <2>4
<1>4. ASSUME NEW x \in Nat \ {0}, x <= Most * s PROVE x \in Parts(k)
  <2> HIDE DEF l, s
  <2> QED BY <1>3, <1>4
<1>5. ASSUME NEW M \in SUBSET Nodes(k), M # {} PROVE Cardinality(M) \in Parts(k)
  <2>1. Cardinality(M) <= s /\ Cardinality(M) \in Nat \ {0}
    BY <1>1, <1>5, FS_Subset, FS_CardinalityType, FS_EmptySet
  <2> HIDE DEF s
  <2>2. Cardinality(M) <= Most * s
    BY <1>1, <1>3, <2>1
  <2> QED BY <1>4, <2>1, <2>2
<1>6. ASSUME NEW f, \A n \in Nodes(k) : f[n] \in Nat /\ f[n] <= Most
      PROVE  SumFunctionOnSet(f, Nodes(k)) <= Most * s
  <2>1. \A n \in Nodes(k) : f[n] \in Int /\ g[n] \in Int /\ f[n] <= g[n]
    BY <1>1, <1>6
  <2>2. \A n \in Nodes(k) : g[n] = Most
    OBVIOUS
  <2> HIDE DEF g
  <2>3. SumFunctionOnSet(f, Nodes(k)) <= SumFunctionOnSet(g, Nodes(k))
    BY <1>1, <2>1, SumBound
  <2>4. Most \in Int
    BY <1>1
  <2>5. SumFunctionOnSet(g, Nodes(k)) = Most * s
    BY <1>1, <2>2, <2>4, SumConst
  <2> HIDE DEF s
  <2> QED BY <2>3, <2>5
<1>7. Contributors(v) # {} => Cites(v) \in Parts(k)
  <2>1. ASSUME Contributors(v) # {} PROVE Cites(v) # 0
    <3>1. PICK n \in Nodes(k) : v.cites[n] > 0
      BY <1>2, <2>1
    <3>2. v.cites[n] <= SumFunctionOnSet(v.cites, Nodes(k))
      BY <1>2, SumNat
    <3>3. v.cites[n] \in Nat
      BY <1>2
    <3> QED BY <1>2, <3>1, <3>2, <3>3
  <2>2. \A n \in Nodes(k) : v.cites[n] \in Nat /\ v.cites[n] <= Most
    <3>1. \A n \in Nodes(k) : v.cites[n] \in Nat /\ v.cites[n] <= MaxCites
      BY <1>2
    <3> QED BY <3>1, MostIsMost, CreditAssumption
  <2> HIDE DEF s
  <2>3. Cites(v) <= Most * s
    BY <1>2, <1>6, <2>2
  <2> QED BY <1>2, <1>4, <2>1, <2>3
<1>8. Contributors(v) = {} => Cites(v) = 0
  <2>1. ASSUME Contributors(v) = {} PROVE \A n \in Nodes(k) : v.cites[n] = 0
    <3> SUFFICES ASSUME NEW n \in Nodes(k) PROVE v.cites[n] = 0
      OBVIOUS
    <3>1. ~(v.cites[n] > 0) /\ v.cites[n] \in Nat
      BY <1>2, <2>1
    <3> QED BY <3>1
  <2> QED BY <1>2, <2>1, SumZero
<1>9. ASSUME NEW c \in Positive, Support(v, c) # 0 PROVE Support(v, c) \in Parts(k)
  <2> DEFINE f == [n \in Nodes(k) |-> v.support[<<c, n>>]]
  <2>1. f = [n \in Nodes(k) |-> v.support[<<c, n>>]]
    OBVIOUS
  <2> HIDE DEF f
  <2>2. /\ Support(v, c) = SumFunctionOnSet(f, Nodes(k)) /\ Support(v, c) \in Nat
        /\ \A n \in Nodes(k) : f[n] \in 0..Scale /\ f[n] \in Nat
    BY <2>1, Supporters
  <2>3. \A n \in Nodes(k) : f[n] \in Nat /\ f[n] <= Most
    <3>1. \A n \in Nodes(k) : f[n] \in Nat /\ f[n] <= Scale
      BY <2>2, CreditAssumption
    <3> QED BY <3>1, MostIsMost, CreditAssumption
  <2> HIDE DEF s
  <2>4. Support(v, c) <= Most * s
    BY <1>6, <2>2, <2>3
  <2> QED BY <1>4, <1>9, <2>2, <2>4
<1>10. 1 \in Parts(k)
  <2> HIDE DEF s
  <2>1. 1 \in Nat \ {0} /\ 1 <= Most * s
    BY <1>1, <1>3
  <2> QED BY <1>4, <2>1
<1> QED BY <1>2, <1>5, <1>7, <1>8, <1>9, <1>10

\* The report can be cut into d parts.
LEMMA ReportParts ==
    ASSUME Cut, weights \in Rubrics, NEW k \in 1..Blocks, NEW v \in Verdicts(k), NEW d \in Parts(k)
    PROVE  \E q \in Int : Report(v) = d * q
<1> DEFINE f == [c \in Criteria |-> Points(v, c)]
           p == [c \in Criteria |-> v.score[c] * Asked[c]]
           s == SumFunctionOnSet(p, Criteria)
<1>1. PICK u \in Int : Unit = Full * (d * u)
  BY UnitParts
<1>2. d \in Nat \ {0} /\ Unit \in Nat /\ Full \in Nat \ {0} /\ IsFiniteSet(Criteria)
  BY UnitParts, Rubric, CreditAssumption
<1>3. ASSUME NEW c \in Criteria PROVE p[c] \in Int /\ f[c] = Unit * p[c]
  <2> DEFINE a == v.score[c]
             w == Asked[c]
  <2>1. a \in Int /\ w \in Int
    <3>1. a \in 0..Scale /\ Scale \in Nat
      BY Answers, CreditAssumption
    <3>2. a \in Int
      BY <3>1
    <3> QED BY <3>2, Rubric
  <2>2. p[c] = a * w /\ f[c] = a * w * Unit
    BY DEF Points
  <2> HIDE DEF p, f, a, w
  <2>3. a * w \in Int /\ a * w * Unit = Unit * (a * w)
    BY <1>2, <2>1
  <2> QED BY <2>2, <2>3
<1>4. SumFunctionOnSet(f, Criteria) = Unit * s /\ s \in Int
  <2> HIDE DEF f, p
  <2>1. Unit \in Int
    BY <1>2
  <2>2. SumFunctionOnSet(f, Criteria) = Unit * SumFunctionOnSet(p, Criteria)
    BY <1>2, <1>3, <2>1, SumScale
  <2>3. SumFunctionOnSet(p, Criteria) \in Int
    BY <1>2, <1>3, SumInt
  <2> QED BY <2>2, <2>3 DEF s
<1>5. Report(v) = (Unit * s) \div Full
  BY <1>4 DEF Report, SumFunction, Full
<1> HIDE DEF s
<1>6. Unit * s = Full * (d * (u * s))
  <2>1. (Full * (d * u)) * s = Full * (d * (u * s))
    BY <1>2, <1>4
  <2> QED BY <1>1, <2>1
<1>7. d * (u * s) \in Int /\ u * s \in Int
  BY <1>2, <1>4
<1>8. Report(v) = d * (u * s)
  <2> DEFINE q == d * (u * s)
  <2> HIDE DEF q
  <2>1. q \in Int /\ Unit * s = Full * q
    BY <1>6, <1>7 DEF q
  <2>2. (Full * q) \div Full = q
    BY <1>2, <2>1, DivExact
  <2> QED BY <1>5, <2>1, <2>2 DEF q
<1> QED BY <1>7, <1>8

\* Evidence is shared out in full: by equal parts.
LEMMA EqualShares ==
    ASSUME Cut, weights \in Rubrics, mode = "equal", NEW k \in 1..Blocks, NEW v \in Verdicts(k),
           NEW E, \A n \in Nodes(k) : E[n] = Evidence(v, n)
    PROVE  SumFunctionOnSet(E, Nodes(k)) = IF Contributors(v) = {} THEN 0 ELSE Report(v)
<1> DEFINE d == Cardinality(Contributors(v))
<1>1. /\ IsFiniteSet(Nodes(k)) /\ Contributors(v) \in SUBSET Nodes(k) /\ IsFiniteSet(Contributors(v))
      /\ Report(v) \in Int
  BY Cited, Reported
<1>2. \A n \in Nodes(k) : E[n] = IF n \in Contributors(v) THEN Report(v) \div d ELSE 0
  BY DEF Evidence
<1>3. CASE Contributors(v) = {}
  <2>1. \A n \in Nodes(k) : E[n] = 0
    BY <1>2, <1>3
  <2> QED BY <1>1, <1>3, <2>1, SumZero
<1>4. CASE Contributors(v) # {}
  <2>1. d \in Parts(k) /\ d \in Nat \ {0}
    BY <1>4, PartsEnough, UnitParts
  <2>2. PICK q \in Int : Report(v) = d * q
    BY <2>1, ReportParts
  <2> HIDE DEF d
  <2>3. (d * q) \div d = q
    BY <2>1, <2>2, DivExact
  <2>4. \A n \in Contributors(v) : E[n] = q
    BY <1>1, <1>2, <2>2, <2>3
  <2>5. \A n \in Nodes(k) : E[n] \in Int /\ (n \notin Contributors(v) => E[n] = 0)
    BY <1>2, <2>2, <2>3
  <2>6. SumFunctionOnSet(E, Nodes(k)) = SumFunctionOnSet(E, Contributors(v))
    BY <1>1, <2>5, SumSupport
  <2>7. SumFunctionOnSet(E, Contributors(v)) = q * d
    BY <1>1, <2>2, <2>4, SumConst DEF d
  <2>8. q * d = d * q
    BY <2>1, <2>2
  <2> QED BY <1>4, <2>2, <2>6, <2>7, <2>8
<1> QED BY <1>3, <1>4

\* Evidence is shared out in full: by citations.
LEMMA CountedShares ==
    ASSUME Cut, weights \in Rubrics, mode = "citation_count", NEW k \in 1..Blocks,
           NEW v \in Verdicts(k), NEW E, \A n \in Nodes(k) : E[n] = Evidence(v, n)
    PROVE  SumFunctionOnSet(E, Nodes(k)) = IF Contributors(v) = {} THEN 0 ELSE Report(v)
<1> DEFINE d == Cites(v)
           m == Max({d, 1})
<1>1. /\ IsFiniteSet(Nodes(k)) /\ Contributors(v) \in SUBSET Nodes(k)
      /\ (\A n \in Nodes(k) : v.cites[n] \in Nat /\ (n \in Contributors(v) <=> v.cites[n] > 0))
      /\ d = SumFunctionOnSet(v.cites, Nodes(k)) /\ d \in Nat /\ Report(v) \in Int
  BY Cited, Reported
<1>2. \A n \in Nodes(k) : E[n] = (Report(v) * v.cites[n]) \div m
  BY DEF Evidence
<1>3. m = IF d >= 1 THEN d ELSE 1
  BY <1>1, MaxWithOne
<1> HIDE DEF m
<1>4. CASE Contributors(v) = {}
  <2>1. ASSUME NEW n \in Nodes(k) PROVE E[n] = 0
    <3>1. v.cites[n] = 0
      <4>1. v.cites[n] \in Nat /\ ~(v.cites[n] > 0)
        BY <1>1, <1>4
      <4> QED BY <4>1
    <3>2. m = 1
      <4>1. d = 0
        BY <1>4, PartsEnough
      <4> QED BY <1>3, <4>1
    <3>3. (Report(v) * 0) \div 1 = 0
      BY <1>1
    <3> QED BY <1>2, <3>1, <3>2, <3>3
  <2> QED BY <1>1, <1>4, <2>1, SumZero
<1>5. CASE Contributors(v) # {}
  <2>1. d \in Parts(k) /\ d \in Nat \ {0}
    BY <1>5, PartsEnough, UnitParts
  <2>2. PICK q \in Int : Report(v) = d * q
    BY <2>1, ReportParts
  <2> HIDE DEF d
  <2>3. m = d
    BY <1>3, <2>1
  <2>4. ASSUME NEW n \in Nodes(k) PROVE v.cites[n] \in Int /\ E[n] = q * v.cites[n]
    <3> DEFINE c == v.cites[n]
    <3>1. c \in Int
      BY <1>1
    <3>2. E[n] = ((d * q) * c) \div d
      BY <1>2, <2>2, <2>3
    <3> HIDE DEF c
    <3>3. (d * q) * c = d * (q * c) /\ q * c \in Int
      BY <2>1, <2>2, <3>1
    <3>4. (d * (q * c)) \div d = q * c
      BY <2>1, <3>3, DivExact
    <3> QED BY <3>1, <3>2, <3>3, <3>4 DEF c
  <2>5. SumFunctionOnSet(E, Nodes(k)) = q * d
    BY <1>1, <2>2, <2>4, SumScale
  <2>6. q * d = d * q
    BY <2>1, <2>2
  <2> QED BY <1>5, <2>2, <2>5, <2>6
<1> QED BY <1>4, <1>5

\* What a criterion adds to the report can be cut into d parts, and the report is
\* what the criteria add.
LEMMA CriterionWorth ==
    ASSUME Cut, weights \in Rubrics, NEW k \in 1..Blocks, NEW v \in Verdicts(k), NEW d \in Parts(k)
    PROVE  /\ \A c \in Criteria : Merits(v)[c] \in Int
           /\ Report(v) = SumFunctionOnSet(Merits(v), Criteria)
           /\ \A c \in Criteria : \E q \in Int : Merits(v)[c] = d * q
<1> DEFINE f == [c \in Criteria |-> Points(v, c)]
           g == Merits(v)
<1>1. PICK u \in Int : Unit = Full * (d * u)
  BY UnitParts
<1>2. d \in Nat \ {0} /\ Unit \in Nat /\ Full \in Nat \ {0} /\ IsFiniteSet(Criteria)
  BY UnitParts, Rubric, CreditAssumption
<1>3. ASSUME NEW c \in Criteria
      PROVE  g[c] \in Int /\ f[c] = Full * g[c] /\ \E q \in Int : g[c] = d * q
  <2> DEFINE a == v.score[c]
             w == Asked[c]
             b == (a * w) * u
             x == a * w * Unit
  <2>1. a \in Int /\ w \in Int /\ g[c] = x \div Full /\ f[c] = x
    <3>1. a \in 0..Scale /\ Scale \in Nat
      BY Answers, CreditAssumption
    <3>2. a \in Int
      BY <3>1
    <3> QED BY <3>2, Rubric DEF Merits, Points, Full
  <2> HIDE DEF a, w, f, g
  <2>2. b \in Int /\ d * b \in Int
    BY <1>2, <2>1
  <2>3. x = Full * (d * b)
    <3>1. (a * w) * (Full * (d * u)) = Full * (d * ((a * w) * u))
      <4>1. a * w \in Int
        BY <2>1
      <4> QED BY <1>2, <4>1
    <3> QED BY <1>1, <3>1
  <2> HIDE DEF b, x
  <2> DEFINE q == d * b
  <2>4. q \in Int /\ x = Full * q
    BY <2>2, <2>3
  <2> HIDE DEF q
  <2>5. x \div Full = q
    BY <1>2, <2>4, DivExact
  <2>6. g[c] = q
    BY <2>1, <2>5
  <2> QED BY <2>1, <2>2, <2>4, <2>6 DEF q
<1>4. Report(v) = SumFunctionOnSet(g, Criteria)
  <2>1. Report(v) = SumFunctionOnSet(f, Criteria) \div Full
    BY DEF Report, SumFunction, Full
  <2> HIDE DEF f, g
  <2>2. Full \in Int
    BY <1>2
  <2>3. SumFunctionOnSet(f, Criteria) = Full * SumFunctionOnSet(g, Criteria)
    BY <1>2, <1>3, <2>2, SumScale
  <2>4. SumFunctionOnSet(g, Criteria) \in Int
    BY <1>2, <1>3, SumInt
  <2> QED BY <1>2, <2>1, <2>3, <2>4, DivExact
<1> QED BY <1>3, <1>4

\* By judged support, every supported criterion's worth is shared out in full,
\* however unequal the shares.
LEMMA SupportShares ==
    ASSUME Cut, weights \in Rubrics, mode = "support", NEW k \in 1..Blocks, NEW v \in Verdicts(k),
           NEW E, \A n \in Nodes(k) : E[n] = Evidence(v, n)
    PROVE  SumFunctionOnSet(E, Nodes(k)) =
             Report(v) - SumFunctionOnSet(Merits(v), Criteria \ Positive)
                       - SumFunctionOnSet(Merits(v), {c \in Positive : Support(v, c) = 0})
<1> DEFINE W == Merits(v)
           Z == {c \in Positive : Support(v, c) = 0}
           A == {c \in Positive : Support(v, c) # 0}
           h == [x \in Positive \X Nodes(k) |-> Share(v, x[1], x[2])]
           row == [c \in Positive |-> SumFunctionOnSet([n \in Nodes(k) |-> h[<<c, n>>]], Nodes(k))]
           col == [n \in Nodes(k) |-> SumFunctionOnSet([c \in Positive |-> h[<<c, n>>]], Positive)]
<1>1. /\ IsFiniteSet(Nodes(k)) /\ IsFiniteSet(Positive) /\ IsFiniteSet(Criteria)
      /\ Positive \in SUBSET Criteria
  BY Cited, Rubric
<1>2. /\ \A c \in Criteria : W[c] \in Int
      /\ Report(v) = SumFunctionOnSet(W, Criteria)
  BY PartsEnough, CriterionWorth
<1>3. ASSUME NEW c \in Positive
      PROVE  /\ SumFunctionOnSet([n \in Nodes(k) |-> h[<<c, n>>]], Nodes(k))
                  = IF Support(v, c) = 0 THEN 0 ELSE W[c]
             /\ \A n \in Nodes(k) : h[<<c, n>>] \in Int
  <2> DEFINE d == Support(v, c)
             m == Max({d, 1})
             w == W[c]
             g == [n \in Nodes(k) |-> v.support[<<c, n>>]]
             e == [n \in Nodes(k) |-> h[<<c, n>>]]
  <2>1. g = [n \in Nodes(k) |-> v.support[<<c, n>>]]
    OBVIOUS
  <2>2. \A n \in Nodes(k) : h[<<c, n>>] = e[n] /\ e[n] = (w * g[n]) \div m
    BY <1>1 DEF Share, Merits, WDen
  <2>3. w \in Int
    BY <1>1, <1>2
  <2>4. SumFunctionOnSet([n \in Nodes(k) |-> h[<<c, n>>]], Nodes(k)) = SumFunctionOnSet(e, Nodes(k))
    OBVIOUS
  <2> HIDE DEF g, W, h, e
  <2>5. /\ d = SumFunctionOnSet(g, Nodes(k)) /\ d \in Nat
        /\ \A n \in Nodes(k) : g[n] \in Nat /\ g[n] <= d
    BY <2>1, Supporters
  <2>6. m = IF d >= 1 THEN d ELSE 1
    BY <2>5, MaxWithOne
  <2> HIDE DEF m, w
  <2>7. CASE d = 0
    <3>1. ASSUME NEW n \in Nodes(k) PROVE e[n] = 0
      <4>1. g[n] = 0 /\ m = 1
        BY <2>5, <2>6, <2>7
      <4>2. (w * 0) \div 1 = 0
        BY <2>3
      <4> QED BY <2>2, <4>1, <4>2
    <3>2. SumFunctionOnSet(e, Nodes(k)) = 0
      BY <1>1, <3>1, SumZero
    <3>3. \A n \in Nodes(k) : h[<<c, n>>] \in Int
      BY <2>2, <3>1
    <3> QED BY <2>4, <2>7, <3>2, <3>3
  <2>8. CASE d # 0
    <3>1. d \in Parts(k) /\ d \in Nat \ {0}
      BY <2>8, PartsEnough, UnitParts
    <3>2. PICK q \in Int : w = d * q
      <4>1. c \in Criteria
        BY <1>1
      <4> QED BY <3>1, <4>1, CriterionWorth DEF w, W
    <3>3. m = d
      BY <2>6, <3>1
    <3> HIDE DEF d
    <3>4. ASSUME NEW n \in Nodes(k) PROVE g[n] \in Int /\ e[n] = q * g[n] /\ e[n] \in Int
      <4> DEFINE b == g[n]
      <4>1. b \in Int
        BY <2>5
      <4>2. e[n] = ((d * q) * b) \div d
        BY <2>2, <3>2, <3>3
      <4> HIDE DEF b
      <4>3. (d * q) * b = d * (q * b) /\ q * b \in Int
        BY <3>1, <3>2, <4>1
      <4> DEFINE y == q * b
      <4>4. y \in Int /\ e[n] = (d * y) \div d
        BY <4>2, <4>3
      <4> HIDE DEF y
      <4>5. (d * y) \div d = y
        BY <3>1, <4>4, DivExact
      <4>6. e[n] = y
        BY <4>4, <4>5
      <4> QED BY <4>1, <4>4, <4>6 DEF y, b
    <3>5. SumFunctionOnSet(e, Nodes(k)) = q * d
      BY <1>1, <2>5, <3>2, <3>4, SumScale
    <3>6. q * d = w
      BY <3>1, <3>2
    <3>7. \A n \in Nodes(k) : h[<<c, n>>] \in Int
      BY <2>2, <3>4
    <3>8. SumFunctionOnSet([n \in Nodes(k) |-> h[<<c, n>>]], Nodes(k)) = W[c]
      BY <2>4, <3>5, <3>6 DEF w
    <3> QED BY <2>8, <3>7, <3>8 DEF d
  <2> QED BY <2>7, <2>8
<1>4. ASSUME NEW c \in Positive, NEW n \in Nodes(k) PROVE h[<<c, n>>] \in Int
  BY <1>3
<1>5. ASSUME NEW c \in Positive
      PROVE  row[c] = IF Support(v, c) = 0 THEN 0 ELSE W[c]
  <2>1. row[c] = SumFunctionOnSet([n \in Nodes(k) |-> h[<<c, n>>]], Nodes(k))
    BY Zenon
  <2> HIDE DEF row, h, W
  <2> QED BY <1>3, <2>1
<1>6. ASSUME NEW n \in Nodes(k) PROVE E[n] = col[n]
  <2> DEFINE f == [c \in Positive |-> Share(v, c, n)]
             g == [c \in Positive |-> h[<<c, n>>]]
  <2>1. E[n] = SumFunctionOnSet(f, Positive)
    BY DEF Evidence, SumFunction
  <2>2. f = g
    OBVIOUS
  <2>3. col[n] = SumFunctionOnSet(g, Positive)
    BY Zenon
  <2> HIDE DEF f, g, col
  <2> QED BY <2>1, <2>2, <2>3
<1>7. SumFunctionOnSet(row, Positive) = SumFunctionOnSet(col, Nodes(k))
  <2> HIDE DEF h
  <2> QED BY <1>1, <1>4, SumSwap
<1>8. \A n \in Nodes(k) : col[n] \in Int
  <2> SUFFICES ASSUME NEW n \in Nodes(k) PROVE col[n] \in Int
    OBVIOUS
  <2> DEFINE g == [c \in Positive |-> h[<<c, n>>]]
  <2>1. \A c \in Positive : g[c] \in Int
    BY <1>4
  <2>2. col[n] = SumFunctionOnSet(g, Positive)
    BY Zenon
  <2> HIDE DEF g, h, col
  <2> QED BY <1>1, <2>1, <2>2, SumInt
<1> HIDE DEF h, row, col
<1>9. SumFunctionOnSet(E, Nodes(k)) = SumFunctionOnSet(row, Positive)
  <2>1. \A n \in Nodes(k) : col[n] \in Int /\ E[n] = col[n]
    BY <1>6, <1>8
  <2>2. SumFunctionOnSet(E, Nodes(k)) = SumFunctionOnSet(col, Nodes(k))
    BY <1>1, <2>1, SumSame
  <2> QED BY <1>7, <2>2
<1>10. A \in SUBSET Positive /\ Z \in SUBSET Positive /\ Positive = A \cup Z /\ A \cap Z = {}
       /\ IsFiniteSet(A) /\ IsFiniteSet(Z)
  <2>1. A \in SUBSET Positive /\ Z \in SUBSET Positive /\ Positive = A \cup Z /\ A \cap Z = {}
    OBVIOUS
  <2> HIDE DEF A, Z
  <2> QED BY <1>1, <2>1, FS_Subset
<1>11. SumFunctionOnSet(row, Positive) = SumFunctionOnSet(W, A)
  <2>1. \A c \in A : row[c] = W[c] /\ W[c] \in Int
    BY <1>1, <1>2, <1>5
  <2>2. \A c \in Positive \ A : row[c] = 0
    BY <1>5
  <2>3. \A c \in Positive : row[c] \in Int
    BY <1>1, <1>2, <1>5
  <2> HIDE DEF A, W, Z
  <2>4. SumFunctionOnSet(row, Positive) = SumFunctionOnSet(row, A)
    BY <1>1, <1>10, <2>2, <2>3, SumSupport
  <2>5. SumFunctionOnSet(row, A) = SumFunctionOnSet(W, A)
    BY <1>10, <2>1, SumSame
  <2> QED BY <2>4, <2>5
<1> HIDE DEF W, A, Z
<1>12. SumFunctionOnSet(W, Positive) = SumFunctionOnSet(W, A) + SumFunctionOnSet(W, Z)
  <2>1. \A c \in A \cup Z : W[c] \in Int
    BY <1>1, <1>2, <1>10
  <2> QED BY <1>10, <2>1, SumJoin
<1>13. SumFunctionOnSet(W, Criteria)
         = SumFunctionOnSet(W, Positive) + SumFunctionOnSet(W, Criteria \ Positive)
  <2> DEFINE Q == Criteria \ Positive
  <2>1. Q \in SUBSET Criteria /\ Positive \cup Q = Criteria /\ Positive \cap Q = {}
    BY <1>1
  <2> HIDE DEF Q
  <2>2. IsFiniteSet(Q)
    BY <1>1, <2>1, FS_Subset
  <2>3. \A c \in Positive \cup Q : W[c] \in Int
    BY <1>2, <2>1
  <2>4. SumFunctionOnSet(W, Positive \cup Q) = SumFunctionOnSet(W, Positive) + SumFunctionOnSet(W, Q)
    BY <1>1, <2>1, <2>2, <2>3, SumJoin
  <2> QED BY <2>1, <2>4 DEF Q
<1>14. /\ SumFunctionOnSet(W, A) \in Int /\ SumFunctionOnSet(W, Z) \in Int
       /\ SumFunctionOnSet(W, Criteria \ Positive) \in Int
  <2>1. \A c \in A \cup Z : W[c] \in Int
    BY <1>1, <1>2, <1>10
  <2>2. IsFiniteSet(Criteria \ Positive)
    <3>1. Criteria \ Positive \in SUBSET Criteria
      OBVIOUS
    <3> QED BY <1>1, <3>1, FS_Subset
  <2>3. \A c \in Criteria \ Positive : W[c] \in Int
    BY <1>2
  <2>4. SumFunctionOnSet(W, A) \in Int /\ SumFunctionOnSet(W, Z) \in Int
    BY <1>10, <2>1, SumInt
  <2> QED BY <2>2, <2>3, <2>4, SumInt
<1>15. SumFunctionOnSet(E, Nodes(k)) =
         Report(v) - SumFunctionOnSet(W, Criteria \ Positive) - SumFunctionOnSet(W, Z)
  BY <1>2, <1>9, <1>11, <1>12, <1>13, <1>14
<1> QED BY <1>15 DEF W, Z

\* The rows of a block are steps of its output.
LEMMA RowsAreSteps ==
    ASSUME Cut, NEW k \in 1..Blocks
    PROVE  /\ IsFiniteSet(StepsOf(batch[Out(First(k))]))
           /\ Cardinality(Block(k)) <= Cardinality(StepsOf(batch[Out(First(k))]))
<1> DEFINE o == Out(First(k))
           M == DOMAIN batch[o]
           piece(j) == {j} \X (1..batch[o][j])
           S == StepsOf(batch[o])
           e == [r \in Block(k) |-> <<rows[r].node, rows[r].step>>]
<1>1. /\ batch \in Seq(Seq(Nat \ {0})) /\ FlatOf(rows, batch) /\ o \in 1..Len(batch)
      /\ batch[o] \in Seq(Nat \ {0}) /\ M = 1..Len(batch[o]) /\ Len(batch[o]) \in Nat
  <2>1. batch \in Seq(Seq(Nat \ {0})) /\ o \in 1..Len(batch)
    BY RowOrder, FirstRows DEF Out
  <2>2. FlatOf(rows, batch)
    BY <2>1, RowsAreFlat DEF Cut
  <2> HIDE DEF o
  <2>3. batch[o] \in Seq(Nat \ {0})
    BY <2>1
  <2> QED BY <2>1, <2>2, <2>3
<1>2. S = UNION {piece(j) : j \in M}
  BY DEF StepsOf
<1> HIDE DEF o, S
<1>3. IsFiniteSet({piece(j) : j \in M})
  <2> DEFINE f == [j \in M |-> piece(j)]
             T == {piece(j) : j \in M}
  <2>1. IsFiniteSet(M)
    <3>1. 1 \in Int /\ Len(batch[o]) \in Int /\ M = 1..Len(batch[o])
      BY <1>1
    <3> HIDE DEF M
    <3> QED BY <3>1, FS_Interval
  <2>2. f \in Surjection(M, T)
    BY DEF Surjection
  <2> HIDE DEF f, M, T
  <2>3. IsFiniteSet(T)
    BY <2>1, <2>2, FS_Surjection
  <2> QED BY <2>3 DEF T
<1>4. ASSUME NEW j \in M PROVE IsFiniteSet(piece(j))
  <2> DEFINE n == batch[o][j]
  <2>1. n \in Int /\ 1 \in Int
    BY <1>1
  <2> HIDE DEF n
  <2>2. IsFiniteSet(1..n) /\ IsFiniteSet({j})
    BY <2>1, FS_Interval, FS_Singleton
  <2>3. IsFiniteSet({j} \X (1..n))
    BY <2>2, FS_Product
  <2> QED BY <2>3 DEF n
<1>5. IsFiniteSet(S)
  <2> DEFINE T == {piece(j) : j \in M}
  <2>1. \A t \in T : IsFiniteSet(t)
    BY <1>4
  <2>2. IsFiniteSet(T) /\ S = UNION T
    BY <1>2, <1>3
  <2> HIDE DEF T
  <2> QED BY <2>1, <2>2, FS_UNION
<1>6. ASSUME NEW r \in Block(k)
      PROVE  /\ r \in 1..N /\ Out(r) = o
             /\ rows[r].node \in M /\ rows[r].step \in 1..batch[o][rows[r].node]
  <2>1. r \in 1..N /\ BlockOf(r) = k
    BY DEF Block
  <2>2. Out(r) = o
    BY <2>1, FirstRows DEF o
  <2>3. IsRowOf(rows[r], batch)
    BY <1>1, <2>1 DEF FlatOf, N
  <2> QED BY <1>1, <2>1, <2>2, <2>3 DEF IsRowOf, Out
<1>7. e \in [Block(k) -> S]
  <2> SUFFICES ASSUME NEW r \in Block(k) PROVE <<rows[r].node, rows[r].step>> \in S
    OBVIOUS
  <2>1. <<rows[r].node, rows[r].step>> \in piece(rows[r].node) /\ rows[r].node \in M
    BY <1>6
  <2> HIDE DEF piece, M
  <2> QED BY <1>2, <2>1
<1>8. ASSUME NEW q \in Block(k), NEW r \in Block(k), e[q] = e[r] PROVE q = r
  <2>1. rows[q].node = rows[r].node /\ rows[q].step = rows[r].step
    BY <1>8
  <2>2. rows[q].out = rows[r].out /\ q \in 1..N /\ r \in 1..N
    BY <1>6 DEF Out
  <2>3. /\ q < r => Precedes(rows[q], rows[r])
        /\ r < q => Precedes(rows[r], rows[q])
    BY <2>2, RowOrder
  <2>4. rows[q].out \in Int /\ rows[q].node \in Int /\ rows[q].step \in Int
    <3>1. /\ rows[q].out \in 1..Len(batch) /\ rows[q].step \in Nat
          /\ rows[q].node \in 1..Len(batch[rows[q].out])
      BY <2>2, RowOrder
    <3> QED BY <3>1
  <2>5. ~Precedes(rows[q], rows[r]) /\ ~Precedes(rows[r], rows[q])
    BY <2>1, <2>2, <2>4 DEF Precedes
  <2>6. q \in Nat /\ r \in Nat
    BY <2>2, RowOrder
  <2> QED BY <2>3, <2>5, <2>6
<1>9. e \in Injection(Block(k), S)
  <2> HIDE DEF e
  <2> QED BY <1>7, <1>8 DEF Injection, IsInjective
<1>10. Cardinality(Block(k)) <= Cardinality(S)
  <2> HIDE DEF e
  <2> QED BY <1>5, <1>9, FS_Injection
<1> QED BY <1>5, <1>10 DEF S, o

\* Every row of a block is a row of exactly one of its nodes.
LEMMA RowsShared ==
    ASSUME Cut, NEW k \in 1..Blocks, NEW f, \A n \in Nodes(k) : f[n] = Cardinality(RowsOf(n))
    PROVE  SumFunctionOnSet(f, Nodes(k)) = Cardinality(Block(k))
<1> DEFINE B == Block(k)
           h == [x \in Nodes(k) \X B |-> IF Rid(x[2]) = x[1] THEN 1 ELSE 0]
           row == [n \in Nodes(k) |-> SumFunctionOnSet([r \in B |-> h[<<n, r>>]], B)]
           col == [r \in B |-> SumFunctionOnSet([n \in Nodes(k) |-> h[<<n, r>>]], Nodes(k))]
<1>1. /\ IsFiniteSet(Nodes(k)) /\ IsFiniteSet(B) /\ B \in SUBSET (1..N)
      /\ \A n \in Nodes(k) : /\ RowsOf(n) \in SUBSET B /\ IsFiniteSet(RowsOf(n))
                             /\ Cardinality(RowsOf(n)) \in Nat
  BY BlockRows, NodesOfBlock
<1>2. \A n \in Nodes(k) : \A r \in B : h[<<n, r>>] = IF Rid(r) = n THEN 1 ELSE 0
  OBVIOUS
<1>3. \A n \in Nodes(k) : \A r \in B : h[<<n, r>>] \in Int
  <2> HIDE DEF h, B
  <2>1. 0 \in Int /\ 1 \in Int
    OBVIOUS
  <2> QED BY <1>2, <2>1, Zenon
<1>4. \A r \in B : Rid(r) \in Nodes(k)
  BY NodesOfBlock DEF Block
<1>5. \A n \in Nodes(k) : \A r \in B : r \in RowsOf(n) <=> Rid(r) = n
  <2>1. \A r \in B : r \in 1..N
    BY <1>1
  <2> HIDE DEF B, h
  <2> QED BY <2>1 DEF RowsOf
<1> HIDE DEF h, B
<1>6. ASSUME NEW n \in Nodes(k) PROVE row[n] = Cardinality(RowsOf(n))
  <2> DEFINE g == [r \in B |-> h[<<n, r>>]]
  <2>1. row[n] = SumFunctionOnSet(g, B)
    BY Zenon
  <2>2. \A r \in B : g[r] = IF r \in RowsOf(n) THEN 1 ELSE 0
    BY <1>2, <1>5
  <2> HIDE DEF g, row
  <2>3. SumFunctionOnSet(g, B) = SumFunctionOnSet(g, RowsOf(n))
    <3>1. \A r \in B : g[r] \in Int
      BY <2>2
    <3>2. \A r \in B \ RowsOf(n) : g[r] = 0
      BY <2>2
    <3> QED BY <1>1, <3>1, <3>2, SumSupport
  <2>4. SumFunctionOnSet(g, RowsOf(n)) = 1 * Cardinality(RowsOf(n))
    <3>1. \A r \in RowsOf(n) : g[r] = 1
      BY <1>1, <2>2
    <3>2. 1 \in Int /\ IsFiniteSet(RowsOf(n))
      BY <1>1
    <3> QED BY <3>1, <3>2, SumConst
  <2>5. 1 * Cardinality(RowsOf(n)) = Cardinality(RowsOf(n))
    BY <1>1
  <2> QED BY <2>1, <2>3, <2>4, <2>5
<1>7. ASSUME NEW r \in B PROVE col[r] = 1
  <2> DEFINE g == [n \in Nodes(k) |-> h[<<n, r>>]]
  <2>1. col[r] = SumFunctionOnSet(g, Nodes(k))
    BY Zenon
  <2>2. \A n \in Nodes(k) : g[n] = IF Rid(r) = n THEN 1 ELSE 0
    BY <1>2
  <2>3. Rid(r) \in Nodes(k)
    BY <1>4
  <2> DEFINE m == Rid(r)
  <2> HIDE DEF g, col, m
  <2>4. SumFunctionOnSet(g, Nodes(k)) = SumFunctionOnSet(g, {m})
    <3>1. {m} \in SUBSET Nodes(k) /\ \A n \in Nodes(k) : g[n] \in Int
      BY <2>2, <2>3 DEF m
    <3>2. \A n \in Nodes(k) \ {m} : g[n] = 0
      BY <2>2 DEF m
    <3> QED BY <1>1, <3>1, <3>2, SumSupport
  <2>5. SumFunctionOnSet(g, {m}) = 1 * Cardinality({m})
    <3>1. 1 \in Int /\ \A n \in {m} : g[n] = 1
      BY <2>2, <2>3 DEF m
    <3>2. IsFiniteSet({m})
      BY FS_Singleton
    <3> QED BY <3>1, <3>2, SumConst
  <2>6. Cardinality({m}) = 1
    BY FS_Singleton
  <2> QED BY <2>1, <2>4, <2>5, <2>6
<1>8. SumFunctionOnSet(row, Nodes(k)) = SumFunctionOnSet(col, B)
  BY <1>1, <1>3, SumSwap
<1> HIDE DEF row, col
<1>9. SumFunctionOnSet(col, B) = 1 * Cardinality(B)
  <2>1. 1 \in Int
    OBVIOUS
  <2> QED BY <1>1, <1>7, <2>1, SumConst
<1>10. SumFunctionOnSet(f, Nodes(k)) = SumFunctionOnSet(row, Nodes(k))
  <2>1. \A n \in Nodes(k) : row[n] \in Int /\ f[n] = row[n]
    BY <1>1, <1>6
  <2> QED BY <1>1, <2>1, SumSame
<1>11. Cardinality(B) \in Nat
  BY <1>1, FS_CardinalityType
<1> QED BY <1>8, <1>9, <1>10, <1>11 DEF B

\* The nodes of a tree bear the cost between them.
LEMMA CostsShared ==
    ASSUME Cut, NEW k \in 1..Blocks, NEW C, \A n \in Nodes(k) : C[n] = Cost(k, n)
    PROVE  /\ \A n \in Nodes(k) : C[n] \in Int
           /\ SumFunctionOnSet(C, Nodes(k)) = Gamma
<1> DEFINE d == Cardinality(Block(k))
           f == [n \in Nodes(k) |-> Cardinality(RowsOf(n))]
           o == Out(First(k))
<1>1. IsFiniteSet(Nodes(k)) /\ d \in Nat \ {0} /\ \A n \in Nodes(k) : f[n] \in Nat
  BY BlockRows, NodesOfBlock
<1>2. d \in 1..Cardinality(StepsOf(batch[o]))
  <2>1. d <= Cardinality(StepsOf(batch[o])) /\ Cardinality(StepsOf(batch[o])) \in Nat
    BY RowsAreSteps, FS_CardinalityType
  <2> HIDE DEF d
  <2> QED BY <1>1, <2>1
<1>3. batch \in Batches /\ o \in DOMAIN batch
  BY FirstRows, RowOrder DEF Cut, Out
<1>4. Gamma % d = 0 /\ Gamma \in Int
  <2> HIDE DEF d, o
  <2>1. \A x \in 1..Cardinality(StepsOf(batch[o])) : Gamma % x = 0
    BY <1>3, ExactUnits, Zenon
  <2> QED BY <1>2, <2>1, CreditAssumption
<1> DEFINE g == Gamma \div d
<1>5. Gamma = d * g /\ g \in Int
  <2> HIDE DEF d
  <2> QED BY <1>1, <1>4, Divides
<1>6. ASSUME NEW n \in Nodes(k) PROVE f[n] \in Int /\ C[n] = g * f[n]
  <2>1. C[n] = (Gamma * f[n]) \div d
    BY DEF Cost
  <2>2. f[n] \in Int
    BY <1>1
  <2> HIDE DEF f, d, g
  <2>3. Gamma * f[n] = d * (g * f[n]) /\ g * f[n] \in Int
    BY <1>1, <1>5, <2>2
  <2>4. (d * (g * f[n])) \div d = g * f[n]
    BY <1>1, <2>3, DivExact
  <2> QED BY <2>1, <2>2, <2>3, <2>4
<1>7. SumFunctionOnSet(f, Nodes(k)) = d
  <2>1. \A n \in Nodes(k) : f[n] = Cardinality(RowsOf(n))
    OBVIOUS
  <2> HIDE DEF f
  <2> QED BY <2>1, RowsShared
<1> HIDE DEF f, d, g
<1>8. SumFunctionOnSet(C, Nodes(k)) = g * d
  BY <1>1, <1>5, <1>6, <1>7, SumScale
<1>9. g * d = d * g
  BY <1>1, <1>5
<1>10. \A n \in Nodes(k) : C[n] \in Int
  BY <1>5, <1>6
<1> QED BY <1>5, <1>8, <1>9, <1>10

\* What the nodes of a tree are paid, together.
LEMMA NodesPaid ==
    ASSUME Phases, phase = "assign", verdict # Raised, verdict \in Verdicts(bi),
           rootMode = "credit_share", NEW P, \A n \in Nodes(bi) : P[n] = Reward(bi, n)
    PROVE  SumFunctionOnSet(P, Nodes(bi)) = Due(verdict)
<1>1. /\ Cut /\ bi \in 1..Blocks /\ weights \in Rubrics
      /\ IsFiniteSet(Nodes(bi)) /\ Report(verdict) \in Int /\ Gamma \in Int
  <2>1. Cut /\ bi \in 1..Blocks /\ weights \in Rubrics
    BY DEF Phases
  <2> QED BY <2>1, NodesOfBlock, Reported, CreditAssumption
<1>2. \A n \in Nodes(bi) : P[n] \in Int
  BY Paid
<1>3. CASE mode = "inherited"
  <2> DEFINE m == Root(bi)
  <2>1. m \in Nodes(bi)
    <3>1. Rid(First(bi)) \in Nodes(bi)
      BY <1>1, FirstRows, NodesOfBlock
    <3> QED BY <3>1 DEF Root, First
  <2>2. \A n \in Nodes(bi) : P[n] = IF n = m THEN Report(verdict) ELSE 0
    BY <1>3 DEF Reward
  <2> HIDE DEF m
  <2>3. SumFunctionOnSet(P, Nodes(bi)) = SumFunctionOnSet(P, {m})
    <3>1. {m} \in SUBSET Nodes(bi) /\ \A n \in Nodes(bi) \ {m} : P[n] = 0
      BY <2>1, <2>2
    <3> QED BY <1>1, <1>2, <3>1, SumSupport
  <2>4. SumFunctionOnSet(P, {m}) = Report(verdict) * Cardinality({m})
    <3>1. IsFiniteSet({m}) /\ \A n \in {m} : P[n] = Report(verdict)
      BY <2>1, <2>2, FS_Singleton
    <3> QED BY <1>1, <3>1, SumConst
  <2>5. Cardinality({m}) = 1
    BY FS_Singleton
  <2>6. Due(verdict) = Report(verdict)
    BY <1>3 DEF Due
  <2> QED BY <1>1, <2>3, <2>4, <2>5, <2>6
<1>4. CASE mode \in {"equal", "citation_count", "support"}
  <2> DEFINE E == [n \in Nodes(bi) |-> Evidence(verdict, n)]
             C == [n \in Nodes(bi) |-> Cost(bi, n)]
             e == SumFunctionOnSet(E, Nodes(bi))
  <2>1. \A n \in Nodes(bi) : E[n] = Evidence(verdict, n) /\ C[n] = Cost(bi, n)
    OBVIOUS
  <2> HIDE DEF E, C
  <2>2. \A n \in Nodes(bi) : E[n] \in Int
    BY <1>1, <1>4, <2>1, Shares
  <2>3. SumFunctionOnSet(C, Nodes(bi)) = Gamma /\ \A n \in Nodes(bi) : C[n] \in Int
    BY <1>1, <2>1, CostsShared
  <2>4. ASSUME NEW n \in Nodes(bi) PROVE P[n] = 1 * E[n] + (0 - 1) * C[n]
    <3>1. P[n] = E[n] - C[n]
      BY <1>4, <2>1 DEF Reward
    <3> QED BY <2>2, <2>3, <3>1
  <2>5. SumFunctionOnSet(P, Nodes(bi)) = 1 * e + (0 - 1) * SumFunctionOnSet(C, Nodes(bi))
    <3> DEFINE d == 0 - 1
    <3>1. 1 \in Int /\ d \in Int
      OBVIOUS
    <3>2. \A n \in Nodes(bi) : E[n] \in Int /\ C[n] \in Int /\ P[n] = 1 * E[n] + d * C[n]
      BY <2>2, <2>3, <2>4
    <3> HIDE DEF d
    <3>3. SumFunctionOnSet(P, Nodes(bi))
            = 1 * SumFunctionOnSet(E, Nodes(bi)) + d * SumFunctionOnSet(C, Nodes(bi))
      BY <1>1, <3>1, <3>2, SumLinear
    <3> QED BY <3>3 DEF d
  <2>6. e \in Int
    BY <1>1, <2>2, SumInt
  <2>7. SumFunctionOnSet(P, Nodes(bi)) = e - Gamma
    <3> DEFINE s == SumFunctionOnSet(P, Nodes(bi))
               c == SumFunctionOnSet(C, Nodes(bi))
    <3>1. s = 1 * e + (0 - 1) * c /\ c = Gamma
      BY <2>3, <2>5
    <3> HIDE DEF e, s, c
    <3>2. s = e - Gamma
      BY <1>1, <2>6, <3>1
    <3> QED BY <3>2 DEF s
  <2>8. CASE mode = "equal" \/ mode = "citation_count"
    <3>1. e = IF Contributors(verdict) = {} THEN 0 ELSE Report(verdict)
      BY <1>1, <2>1, <2>8, EqualShares, CountedShares
    <3>2. Due(verdict) = (IF Contributors(verdict) = {} THEN 0 ELSE Report(verdict)) - Gamma
      BY <2>8 DEF Due
    <3> QED BY <2>7, <3>1, <3>2
  <2>9. CASE mode = "support"
    <3> DEFINE W == Merits(verdict)
               a == SumFunctionOnSet(W, Criteria \ Positive)
               b == SumFunctionOnSet(W, {c \in Positive : Support(verdict, c) = 0})
    <3>1. e = Report(verdict) - a - b
      BY <1>1, <2>1, <2>9, SupportShares
    <3>2. Due(verdict) = Report(verdict) - Gamma - a - b
      BY <2>9 DEF Due, Merits
    <3>3. a \in Int /\ b \in Int
      <4>1. /\ IsFiniteSet(Criteria) /\ Positive \in SUBSET Criteria
            /\ \A c \in Criteria : W[c] \in Int
        BY <1>1, Rubric, PartsEnough, CriterionWorth
      <4> HIDE DEF W
      <4>2. ASSUME NEW X \in SUBSET Criteria PROVE SumFunctionOnSet(W, X) \in Int
        <5>1. IsFiniteSet(X) /\ \A c \in X : W[c] \in Int
          BY <4>1, FS_Subset
        <5> QED BY <5>1, SumInt
      <4>3. /\ Criteria \ Positive \in SUBSET Criteria
            /\ {c \in Positive : Support(verdict, c) = 0} \in SUBSET Criteria
        BY <4>1
      <4> QED BY <4>2, <4>3
    <3> HIDE DEF a, b, e
    <3> QED BY <1>1, <2>7, <3>1, <3>2, <3>3
  <2> QED BY <1>4, <2>8, <2>9
<1> QED BY <1>3, <1>4, CreditAssumption DEF Phases

\* The rows of a block get what its nodes are paid.
LEMMA BlockPaid ==
    ASSUME Phases, Rewarding, Assign, verdict # Raised, rootMode = "credit_share"
    PROVE  SumFunctionOnSet(rewards', Block(bi)) = Due(verdict)
<1> DEFINE ends == {LastRow(n) : n \in Nodes(bi)}
           e == [n \in Nodes(bi) |-> LastRow(n)]
           P == [n \in Nodes(bi) |-> Reward(bi, n)]
<1>1. Cut /\ bi \in 1..Blocks /\ phase = "assign" /\ verdict \in Verdicts(bi)
  BY DEF Phases, Rewarding, Assign
<1>2. rewards' = [r \in 1..N |-> IF r \in ends THEN Reward(bi, Rid(r)) ELSE rewards[r]]
  BY DEF Assign
<1>3. IsFiniteSet(Nodes(bi)) /\ IsFiniteSet(Block(bi)) /\ Block(bi) \in SUBSET (1..N)
  BY <1>1, BlockRows, NodesOfBlock
<1>4. ASSUME NEW n \in Nodes(bi)
      PROVE  LastRow(n) \in Block(bi) /\ Rid(LastRow(n)) = n
  <2>1. PICK r \in 1..N : Rid(r) = n /\ BlockOf(r) = bi
    BY <1>1, NodesOfBlock
  <2>2. LastRow(n) \in 1..N /\ Rid(LastRow(n)) = n
    BY <1>1, <2>1, LastRows
  <2>3. BlockOf(LastRow(n)) = bi
    BY <1>1, <2>2, NodesOfBlock
  <2> QED BY <2>2, <2>3 DEF Block
<1>5. ends \in SUBSET Block(bi)
  BY <1>4
<1>6. e \in Bijection(Nodes(bi), ends)
  <2>1. e \in [Nodes(bi) -> ends] /\ \A x \in ends : \E n \in Nodes(bi) : e[n] = x
    OBVIOUS
  <2>2. ASSUME NEW n \in Nodes(bi), NEW m \in Nodes(bi), e[n] = e[m] PROVE n = m
    <3>1. LastRow(n) = LastRow(m)
      BY <2>2
    <3> HIDE DEF e, ends
    <3> QED BY <1>4, <3>1
  <2> HIDE DEF e, ends
  <2> QED BY <2>1, <2>2 DEF Bijection, Injection, Surjection, IsInjective
<1>7. ASSUME NEW n \in Nodes(bi) PROVE P[n] \in Int /\ P[n] = Reward(bi, n) /\ rewards'[e[n]] = P[n]
  <2>1. P[n] \in Int /\ P[n] = Reward(bi, n)
    BY <1>1, Paid
  <2>2. LastRow(n) \in ends /\ LastRow(n) \in 1..N /\ Rid(LastRow(n)) = n /\ e[n] = LastRow(n)
    BY <1>3, <1>4
  <2> HIDE DEF e, ends
  <2>3. rewards'[LastRow(n)] = Reward(bi, Rid(LastRow(n)))
    BY <1>2, <2>2
  <2> QED BY <2>1, <2>2, <2>3
<1>8. ASSUME NEW r \in Block(bi), r \notin ends PROVE rewards'[r] = 0
  <2>1. r \in 1..N /\ BlockOf(r) = bi /\ Blocks \in Nat
    BY <1>1, BlocksCounted DEF Block
  <2>2. rewards[r] = 0
    BY <1>1, <2>1 DEF Rewarding
  <2> HIDE DEF ends
  <2> QED BY <1>2, <1>8, <2>1, <2>2
<1>9. ASSUME NEW r \in Block(bi) PROVE rewards'[r] \in Int
  <2>1. CASE r \in ends
    <3>1. PICK n \in Nodes(bi) : r = e[n]
      BY <2>1
    <3> HIDE DEF e, P, ends
    <3> QED BY <1>7, <3>1
  <2>2. CASE r \notin ends
    <3> HIDE DEF ends
    <3> QED BY <1>8, <2>2
  <2> QED BY <2>1, <2>2
<1> HIDE DEF ends, e
<1>10. SumFunctionOnSet(rewards', Block(bi)) = SumFunctionOnSet(rewards', ends)
  BY <1>3, <1>5, <1>8, <1>9, SumSupport
<1>11. SumFunctionOnSet(rewards', ends) = SumFunctionOnSet(P, Nodes(bi))
  <2> HIDE DEF P
  <2> QED BY <1>3, <1>6, <1>7, SumRenamed
<1>12. SumFunctionOnSet(P, Nodes(bi)) = Due(verdict)
  <2> HIDE DEF P
  <2> QED BY <1>1, <1>7, NodesPaid
<1> QED BY <1>10, <1>11, <1>12

\* What assigning a tree's credit puts on its rows adds up to what is due: nothing
\* is lost in the shares, paid twice, or put on another tree's rows.
THEOREM TreesArePaidInFull == Spec => CreditAddsUp
<1> DEFINE Pays == bi' # bi /\ verdict # Raised /\ rootMode = "credit_share"
                   => SumFunctionOnSet(rewards', Block(bi)) = Due(verdict)
<1>1. Init => Phases /\ Rewarding
  BY StartPhases, StartRewarding
<1>2. Phases /\ Rewarding /\ [Next]_vars => Phases' /\ Rewarding'
  BY StepPhases, StepRewarding
<1>3. Phases /\ Rewarding /\ [Next]_vars => [Pays]_vars
  <2> SUFFICES ASSUME Phases, Rewarding, [Next]_vars, bi' # bi, verdict # Raised,
                      rootMode = "credit_share"
               PROVE  SumFunctionOnSet(rewards', Block(bi)) = Due(verdict)
    OBVIOUS
  <2>1. Assign
    BY DEF Next, Score, Guard, Sweep, Train, vars, config, layout
  <2> QED BY <2>1, BlockPaid
<1> QED BY <1>1, <1>2, <1>3, PTL DEF Spec, CreditAddsUp
=============================================================================
