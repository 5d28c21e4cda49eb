------------------------- MODULE InferDriverProofs -------------------------
(***************************************************************************)
(* Proofs about InferDriver: types, one row per item, and what a crash may *)
(* cost, for any number of items, crashes and hard errors and any          *)
(* threshold.                                                              *)
(***************************************************************************)
EXTENDS InferDriver, FiniteSetTheorems, TLAPS

Row(i) == [item |-> i, whole |-> TRUE]

\* A line has some text.
FullLines == \A k \in DOMAIN file : file[k] # <<>>

\* The line that is written next if a crash left it open, else a new one.
Target == IF open THEN Len(file) ELSE Len(file) + 1

\* Lines that a crash has spoiled, or may still spoil.
Marked == Spoiled(file) \cup (IF open THEN {Len(file)} ELSE {})

Marks == Cardinality(Marked) <= crashes

InHand == proc \notin {"down", "loop"}

\* The rows in the file are those found and those written; the item in hand is
\* neither.
Progress ==
    proc # "down" =>
        /\ Rows(file) \subseteq done \cup ok
        /\ \A i \in ok : i < pos
        /\ InHand => pos \in Items \ done

\* No process, no memory.
Forgotten == proc = "down" => ok = {}

Kept(i) ==
    \/ i \in Rows(file)
    \/ \E k \in Spoiled(file) : \E p \in DOMAIN file[k] :
           file[k][p] = Row(i) /\ Len(file[k]) > 1

RowsKept == proc # "down" => \A i \in done \cup ok : Kept(i)

Inv == TypeOK /\ FullLines /\ Marks /\ OneRowPerItem /\ Progress /\ Forgotten /\ RowsKept

-----------------------------------------------------------------------------
\* A line that holds exactly one row of an item.
LEMMA RowLine ==
    ASSUME NEW l \in Seq(Piece), NEW i \in Items
    PROVE  (l = <<Row(i)>>) <=> (Parseable(l) /\ l[1].item = i)
<1>1. ASSUME l = <<Row(i)>> PROVE Parseable(l) /\ l[1].item = i
  BY <1>1 DEF Parseable, Row
<1>2. ASSUME Parseable(l), l[1].item = i PROVE l = <<Row(i)>>
  <2>1. Len(l) = 1 /\ l[1] \in Piece /\ l[1].whole
    BY <1>2 DEF Parseable
  <2>2. l[1] = Row(i)
    BY <2>1, <1>2 DEF Piece, Row
  <2> QED BY <2>1, <2>2
<1> QED BY <1>1, <1>2

\* The rows of a file are the items of its parseable lines.
LEMMA RowsOfLines ==
    ASSUME NEW f \in Seq(Seq(Piece)), NEW i \in Items
    PROVE  i \in Rows(f) <=> \E k \in DOMAIN f : Parseable(f[k]) /\ f[k][1].item = i
<1>1. \A k \in DOMAIN f : f[k] \in Seq(Piece)
  OBVIOUS
<1>2. \A k \in DOMAIN f : (f[k] = <<Row(i)>>) <=> (Parseable(f[k]) /\ f[k][1].item = i)
  BY <1>1, RowLine
<1> QED BY <1>2 DEF Rows, Row

\* What writing does to the file.
LEMMA Writing ==
    ASSUME TypeOK, FullLines, NEW piece \in Piece, Write(piece)
    PROVE  /\ file' \in Seq(Seq(Piece))
           /\ Target \in Nat \ {0} /\ Len(file') = Target
           /\ \A k \in 1..(Target - 1) : file'[k] = file[k] /\ k \in DOMAIN file
           /\ ~open => file'[Target] = <<piece>> /\ DOMAIN file = 1..(Target - 1)
           /\ open => /\ Target \in DOMAIN file
                      /\ file'[Target] = Append(file[Target], piece)
                      /\ Len(file[Target]) >= 1
<1>1. file \in Seq(Seq(Piece)) /\ (open => file # <<>>) /\ Len(file) \in Nat
  BY DEF TypeOK
<1>2. CASE ~open
  <2>1. file' = Append(file, <<piece>>)
    BY <1>2 DEF Write
  <2>2. <<piece>> \in Seq(Piece)
    OBVIOUS
  <2> QED BY <1>1, <1>2, <2>1, <2>2 DEF Target
<1>3. CASE open
  <2>1. Len(file) \in DOMAIN file /\ Len(file) >= 1
    BY <1>1, <1>3
  <2>2. file[Len(file)] \in Seq(Piece) /\ file[Len(file)] # <<>>
    BY <1>1, <2>1 DEF FullLines
  <2>3. file' = [file EXCEPT ![Len(file)] = Append(file[Len(file)], piece)]
    BY <1>3 DEF Write
  <2>4. Append(file[Len(file)], piece) \in Seq(Piece)
    BY <2>2
  <2>5. file' \in Seq(Seq(Piece)) /\ Len(file') = Len(file)
    BY <1>1, <2>1, <2>3, <2>4
  <2>6. Len(file[Len(file)]) >= 1
    BY <2>2
  <2>7. Target = Len(file)
    BY <1>3 DEF Target
  <2>8. \A k \in 1..(Len(file) - 1) : file'[k] = file[k] /\ k \in DOMAIN file
    BY <1>1, <2>1, <2>3
  <2>9. file'[Len(file)] = Append(file[Len(file)], piece)
    BY <1>1, <2>1, <2>3
  <2> QED BY <1>1, <1>3, <2>1, <2>5, <2>6, <2>7, <2>8, <2>9
<1> QED BY <1>2, <1>3

\* Every line that is written has some text.
LEMMA WritingKeepsLinesFull ==
    ASSUME TypeOK, FullLines, NEW piece \in Piece, Write(piece)
    PROVE  FullLines'
<1> SUFFICES ASSUME NEW k \in DOMAIN file' PROVE file'[k] # <<>>
  BY DEF FullLines
<1>0. file' \in Seq(Seq(Piece)) /\ Len(file') = Target /\ Target \in Nat \ {0}
  BY Writing
<1>1. k \in 1..Target /\ Target \in Nat
  BY <1>0
<1>2. CASE k < Target
  <2>1. k \in 1..(Target - 1)
    BY <1>1, <1>2
  <2> QED BY <2>1, Writing DEF FullLines
<1>3. CASE k = Target
  <2>1. CASE ~open
    <3>1. file'[k] = <<piece>>
      BY <1>3, <2>1, Writing
    <3> QED BY <3>1
  <2>2. CASE open
    <3>1. file[Target] \in Seq(Piece)
      BY <2>2, Writing DEF TypeOK
    <3>2. Len(file'[Target]) = Len(file[Target]) + 1
      BY <2>2, <3>1, Writing
    <3> QED BY <1>3, <2>2, <3>1, <3>2, Writing
  <2> QED BY <2>1, <2>2
<1> QED BY <1>1, <1>2, <1>3

\* A written line that was open holds no row any more; one that was not holds the
\* row, if it is whole.  The other lines are as they were.
LEMMA WritingSpoils ==
    ASSUME TypeOK, FullLines, NEW piece \in Piece, Write(piece)
    PROVE  /\ \A k \in 1..(Target - 1) : Parseable(file'[k]) <=> Parseable(file[k])
           /\ open => ~Parseable(file'[Target]) /\ Len(file'[Target]) > 1
           /\ ~open => (Parseable(file'[Target]) <=> piece.whole)
           /\ Spoiled(file) \subseteq Spoiled(file')
           /\ Spoiled(file') \subseteq Spoiled(file) \cup {Target}
           /\ ~open /\ piece.whole => Spoiled(file') = Spoiled(file)
<1> USE Writing
<1>1. \A k \in 1..(Target - 1) : Parseable(file'[k]) <=> Parseable(file[k])
  BY DEF Parseable
<1>2. ASSUME open PROVE ~Parseable(file'[Target]) /\ Len(file'[Target]) > 1
  <2>1. file[Target] \in Seq(Piece)
    BY <1>2 DEF TypeOK
  <2>2. Len(file'[Target]) = Len(file[Target]) + 1
    BY <1>2, <2>1
  <2> QED BY <1>2, <2>1, <2>2 DEF Parseable
<1>3. ASSUME ~open PROVE Parseable(file'[Target]) <=> piece.whole
  <2>1. file'[Target] = <<piece>>
    BY <1>3
  <2> HIDE Writing
  <2> QED BY <2>1 DEF Parseable
<1>4. DOMAIN file' = 1..Target /\ Target \in Nat \ {0}
  OBVIOUS
<1>5. DOMAIN file = IF open THEN 1..Target ELSE 1..(Target - 1)
  BY DEF TypeOK, Target
<1> HIDE Writing
<1>6. Spoiled(file) \subseteq Spoiled(file')
  <2>1. CASE open
    <3>1. \A k \in 1..Target : k = Target \/ k \in 1..(Target - 1)
      BY <1>4
    <3> QED BY <2>1, <3>1, <1>1, <1>2, <1>4, <1>5 DEF Spoiled
  <2>2. CASE ~open
    BY <2>2, <1>1, <1>4, <1>5 DEF Spoiled
  <2> QED BY <2>1, <2>2
<1>7. Spoiled(file') \subseteq Spoiled(file) \cup {Target}
  <2>1. \A k \in 1..Target : k = Target \/ k \in 1..(Target - 1)
    BY <1>4
  <2>2. 1..(Target - 1) \subseteq DOMAIN file
    BY <1>4, <1>5
  <2> QED BY <2>1, <2>2, <1>1, <1>4 DEF Spoiled
<1>8. ~open /\ piece.whole => Spoiled(file') = Spoiled(file)
  <2>1. ~open /\ piece.whole => Target \notin Spoiled(file')
    BY <1>3 DEF Spoiled
  <2> QED BY <2>1, <1>6, <1>7
<1> QED BY <1>1, <1>2, <1>3, <1>6, <1>7, <1>8

LEMMA MarkedFinite ==
    ASSUME TypeOK PROVE IsFiniteSet(Marked) /\ Cardinality(Marked) \in Nat
<1>1. Len(file) \in Nat /\ (open => Len(file) \in 1..Len(file))
  BY DEF TypeOK
<1>2. DOMAIN file = 1..Len(file)
  BY DEF TypeOK
<1>3. Marked \subseteq 1..Len(file)
  BY <1>1, <1>2 DEF Marked, Spoiled
<1>4. IsFiniteSet(1..Len(file))
  BY <1>1, FS_Interval
<1> QED BY <1>3, <1>4, FS_Subset, FS_CardinalityType

\* A row that is kept stays so, and a whole row is kept once it is written.
LEMMA WritingKeepsRows ==
    ASSUME TypeOK, FullLines, NEW piece \in Piece, Write(piece)
    PROVE  /\ \A i \in Items : Kept(i) => Kept(i)'
           /\ piece.whole => Kept(piece.item)'
           /\ Rows(file') \subseteq Rows(file) \cup {piece.item}
<1>0. file \in Seq(Seq(Piece)) /\ file' \in Seq(Seq(Piece)) /\ Target \in Nat \ {0}
      /\ DOMAIN file' = 1..Target /\ DOMAIN file = IF open THEN 1..Target ELSE 1..(Target - 1)
  BY Writing DEF TypeOK, Target
<1>a. \A k \in 1..Target : k = Target \/ k \in 1..(Target - 1)
  BY <1>0
<1>b. piece \in [item : Items, whole : BOOLEAN]
  BY DEF Piece
<1>1. ASSUME NEW i \in Items, i \in Rows(file) PROVE Kept(i)'
  <2>1. PICK k \in DOMAIN file : Parseable(file[k]) /\ file[k][1].item = i
    BY <1>0, <1>1, RowsOfLines
  <2>2. file[k] = <<Row(i)>>
    BY <1>0, <2>1, RowLine
  <2>3. CASE k \in 1..(Target - 1)
    <3>1. file'[k] = file[k] /\ k \in DOMAIN file'
      BY <2>3, <1>0, Writing
    <3>2. i \in Rows(file')
      BY <1>0, <2>1, <3>1, RowsOfLines
    <3> QED BY <3>2 DEF Kept
  <2>4. CASE k = Target
    <3>0. open
      BY <2>1, <2>4, <1>0
    <3>a. file'[Target] = Append(file[Target], piece)
      BY <3>0, Writing
    <3>1. open /\ file'[k] = Append(<<Row(i)>>, piece)
      BY <2>2, <2>4, <3>0, <3>a
    <3>2. 1 \in DOMAIN file'[k] /\ file'[k][1] = Row(i) /\ Len(file'[k]) > 1
      BY <3>1
    <3>3. k \in Spoiled(file')
      BY <2>4, <3>1, <1>0, WritingSpoils DEF Spoiled
    <3> QED BY <3>2, <3>3 DEF Kept
  <2> QED BY <2>1, <2>3, <2>4, <1>0, <1>a
<1>2. ASSUME NEW i \in Items, NEW k \in Spoiled(file), NEW p \in DOMAIN file[k],
             file[k][p] = Row(i), Len(file[k]) > 1
      PROVE  Kept(i)'
  <2>1. k \in Spoiled(file') /\ k \in DOMAIN file
    BY WritingSpoils DEF Spoiled
  <2>2. CASE k \in 1..(Target - 1)
    <3>1. file'[k] = file[k]
      BY <2>2, Writing
    <3> QED BY <1>2, <2>1, <3>1 DEF Kept
  <2>3. CASE k = Target
    <3>1. open
      BY <2>1, <2>3, <1>0
    <3>2. file[k] \in Seq(Piece) /\ file'[k] = Append(file[k], piece)
      BY <1>0, <2>1, <2>3, <3>1, Writing
    <3>3. p \in DOMAIN file'[k] /\ file'[k][p] = Row(i) /\ Len(file'[k]) > 1
      BY <1>2, <3>2
    <3> QED BY <2>1, <3>3 DEF Kept
  <2> QED BY <2>1, <2>2, <2>3, <1>0, <1>a
<1>3. \A i \in Items : Kept(i) => Kept(i)'
  BY <1>1, <1>2 DEF Kept
<1>4. ASSUME piece.whole PROVE Kept(piece.item)'
  <2>1. piece = Row(piece.item) /\ piece.item \in Items
    BY <1>4, <1>b DEF Row
  <2>2. CASE ~open
    <3>1. file'[Target] = <<Row(piece.item)>> /\ Target \in DOMAIN file'
      BY <2>1, <2>2, <1>0, Writing
    <3>2. piece.item \in Rows(file')
      BY <2>1, <3>1 DEF Rows, Row
    <3> QED BY <3>2 DEF Kept
  <2>3. CASE open
    <3>1. file[Target] \in Seq(Piece) /\ file'[Target] = Append(file[Target], piece)
      BY <2>3, <1>0, Writing
    <3>2. Len(file'[Target]) \in DOMAIN file'[Target]
          /\ file'[Target][Len(file'[Target])] = piece
      BY <3>1
    <3>3. Target \in Spoiled(file') /\ Len(file'[Target]) > 1
      BY <2>3, <1>0, WritingSpoils DEF Spoiled
    <3> QED BY <2>1, <3>2, <3>3 DEF Kept
  <2> QED BY <2>2, <2>3
<1>5. ASSUME NEW i \in Rows(file'), i # piece.item PROVE i \in Rows(file)
  <2>0. i \in Items
    BY DEF Rows
  <2>1. PICK k \in DOMAIN file' : Parseable(file'[k]) /\ file'[k][1].item = i
    BY <1>0, <2>0, <1>5, RowsOfLines
  <2>2. CASE k \in 1..(Target - 1)
    <3>1. k \in DOMAIN file /\ file[k] = file'[k]
      BY <2>2, Writing
    <3> QED BY <1>0, <2>0, <2>1, <3>1, RowsOfLines
  <2>3. CASE k = Target
    <3>1. ~open
      BY <2>1, <2>3, WritingSpoils
    <3>2. file'[k] = <<piece>>
      BY <2>3, <3>1, Writing
    <3>3. file'[k][1] = piece
      BY <3>2
    <3> QED BY <2>1, <3>3, <1>5
  <2> QED BY <2>1, <2>2, <2>3, <1>0, <1>a
<1> QED BY <1>3, <1>4, <1>5

\* An item that has no row yet gets at most one.
LEMMA WritingIsUnique ==
    ASSUME TypeOK, FullLines, OneRowPerItem,
           NEW piece \in Piece, Write(piece), piece.item \notin Rows(file)
    PROVE  OneRowPerItem'
<1> SUFFICES ASSUME NEW k \in DOMAIN file', NEW m \in DOMAIN file',
                    Parseable(file'[k]), Parseable(file'[m]),
                    file'[k][1].item = file'[m][1].item
             PROVE  k = m
  BY DEF OneRowPerItem
<1>0. file \in Seq(Seq(Piece)) /\ Target \in Nat \ {0} /\ DOMAIN file' = 1..Target
  BY Writing DEF TypeOK
<1>a. \A j \in 1..Target : j = Target \/ j \in 1..(Target - 1)
  BY <1>0
<1>b. piece.item \in Items
  BY DEF Piece
<1>1. \A j \in 1..(Target - 1) : file'[j] = file[j] /\ j \in DOMAIN file
  BY Writing
<1>2. Parseable(file'[Target]) => ~open /\ file'[Target][1] = piece
  <2>1. Parseable(file'[Target]) => ~open
    BY WritingSpoils
  <2>2. ~open => file'[Target] = <<piece>>
    BY Writing
  <2> QED BY <2>1, <2>2
<1>3. \A j \in DOMAIN file : Parseable(file[j]) => file[j][1].item # piece.item
  BY <1>0, <1>b, RowsOfLines
<1>4. CASE k \in 1..(Target - 1) /\ m \in 1..(Target - 1)
  BY <1>1, <1>4 DEF OneRowPerItem
<1>5. CASE k = Target /\ m \in 1..(Target - 1)
  BY <1>1, <1>2, <1>3, <1>5
<1>6. CASE m = Target /\ k \in 1..(Target - 1)
  BY <1>1, <1>2, <1>3, <1>6
<1> QED BY <1>0, <1>a, <1>4, <1>5, <1>6

\* Writing a row marks no line; leaving the line open marks at most one more.
LEMMA WritingMarks ==
    ASSUME TypeOK, TypeOK', FullLines, NEW piece \in Piece, Write(piece)
    PROVE  /\ ~open' /\ piece.whole => Cardinality(Marked') <= Cardinality(Marked)
           /\ open' => Cardinality(Marked') <= Cardinality(Marked) + 1
           /\ (~open' /\ piece.whole) \/ open' => Cardinality(Marked') \in Nat
<1>0. Len(file') = Target /\ Spoiled(file') \subseteq Spoiled(file) \cup {Target}
      /\ (~open /\ piece.whole => Spoiled(file') = Spoiled(file))
  BY Writing, WritingSpoils
<1>1. IsFiniteSet(Marked) /\ Cardinality(Marked) \in Nat
  BY MarkedFinite
<1>2. ASSUME ~open', piece.whole
      PROVE  Cardinality(Marked') <= Cardinality(Marked) /\ Cardinality(Marked') \in Nat
  <2>1. Marked' \subseteq Marked
    BY <1>0, <1>2 DEF Marked, Target
  <2> QED BY <1>1, <2>1, FS_Subset, FS_CardinalityType
<1>3. ASSUME open'
      PROVE  Cardinality(Marked') <= Cardinality(Marked) + 1 /\ Cardinality(Marked') \in Nat
  <2>1. Marked' \subseteq Marked \cup {Target}
    BY <1>0, <1>3 DEF Marked
  <2>a. /\ IsFiniteSet(Marked \cup {Target})
        /\ Cardinality(Marked \cup {Target})
             = IF Target \in Marked THEN Cardinality(Marked) ELSE Cardinality(Marked) + 1
    BY <1>1, FS_AddElement, Zenon
  <2>2. IsFiniteSet(Marked \cup {Target})
        /\ Cardinality(Marked \cup {Target}) <= Cardinality(Marked) + 1
    <3> HIDE DEF Marked, Target
    <3> QED BY <1>1, <2>a
  <2>3. Cardinality(Marked') <= Cardinality(Marked \cup {Target})
    BY <2>1, <2>2, FS_Subset
  <2>4. Cardinality(Marked') \in Nat /\ Cardinality(Marked \cup {Target}) \in Nat
    BY <2>1, <2>2, FS_Subset, FS_CardinalityType
  <2> QED BY <1>1, <2>2, <2>3, <2>4
<1> QED BY <1>2, <1>3

-----------------------------------------------------------------------------
\* The invariant holds initially.
LEMMA InitInv == Init => Inv
<1> SUFFICES ASSUME Init PROVE Inv
  OBVIOUS
<1>1. TypeOK
  <2>1. file = <<>> /\ <<>> \in Seq(Seq(Piece))
    BY DEF Init
  <2>2. hopeless \in SUBSET Items
    BY DEF Init
  <2>3. abortAfter \in Nat \ {0} /\ 0 \in 0..(abortAfter - 1)
    BY DriverAssumption DEF Init
  <2>4. 1 \in 1..(NItems + 1) /\ 0 \in 0..MaxCrashes /\ 0 \in 0..MaxErrors
    BY DriverAssumption
  <2>5. Unanswered \in Results
    BY DEF Unanswered, Results
  <2> QED BY <2>1, <2>2, <2>3, <2>4, <2>5 DEF Init, TypeOK
<1>2. FullLines /\ OneRowPerItem
  BY DEF Init, FullLines, OneRowPerItem
<1>3. Marks
  <2>1. Marked = {}
    BY DEF Init, Marked, Spoiled
  <2> QED BY <2>1, FS_EmptySet DEF Init, Marks
<1>4. Progress /\ Forgotten /\ RowsKept
  BY DEF Init, Progress, Forgotten, RowsKept
<1> QED BY <1>1, <1>2, <1>3, <1>4 DEF Inv

\* Types are kept by every step: the loop's index stays in range because an item
\* in hand is an item.
LEMMA TypeStep == Inv /\ [Next]_vars => TypeOK'
<1> SUFFICES ASSUME Inv, [Next]_vars PROVE TypeOK'
  OBVIOUS
<1> USE DriverAssumption
<1>0. TypeOK /\ (InHand => pos \in Items)
  BY DEF Inv, Progress, InHand
<1>d. file \in Seq(Seq(Piece)) /\ \A i \in Items : i + 1 \in 1..(NItems + 1)
  BY <1>0 DEF TypeOK, Items
<1>a. Exit => /\ proc' = "down" /\ done' \in SUBSET Items /\ pos' \in 1..(NItems + 1)
              /\ dead_streak' \in Nat /\ dead_streak' = 0 /\ hit' \in BOOLEAN
              /\ result' \in Results /\ ok' \in SUBSET Items
  <2>1. Unanswered \in Results
    BY DEF Unanswered, Results
  <2>2. 1 \in 1..(NItems + 1)
    OBVIOUS
  <2>3. 0 \in Nat
    OBVIOUS
  <2> QED BY <2>1, <2>2, <2>3, Zenon DEF Exit
<1>b. NextItem /\ InHand => pos' \in 1..(NItems + 1) /\ proc' = "loop" /\ result' \in Results
  BY <1>0 DEF NextItem, Unanswered, Results, Items
<1>c. abortAfter \in Nat \ {0}
  BY <1>0 DEF TypeOK
<1> USE <1>0, <1>a, <1>b, <1>c DEF TypeOK, setting, output, faults
<1>1. CASE Start
  BY <1>1 DEF Start, Opened, Rows
<1>2. CASE Step
  <2>1. CASE Exit
    BY <1>2, <2>1 DEF Step
  <2>2. CASE ~Exit
    <3>1. pos' \in Items /\ proc' = "first" /\ UNCHANGED <<done, dead_streak, hit, result, ok>>
      BY <1>2, <2>2 DEF Step, Items
    <3> QED BY <1>2, <3>1 DEF Step, Items
  <2> QED BY <2>1, <2>2
<1>3. CASE \E r \in Results : RunOne(r)
  BY <1>3 DEF RunOne
<1>4. CASE Raises
  BY <1>4 DEF Raises, InHand
<1>5. CASE HardError
  BY <1>5 DEF HardError
<1>6. CASE Retry
  BY <1>6 DEF Retry, memory
<1>7. CASE Abort
  BY <1>7 DEF Abort
<1>8. CASE ZeroEvidence
  BY <1>8 DEF ZeroEvidence, Judging, InHand, Many
<1>9. CASE Accept
  BY <1>9 DEF Accept
<1>10. CASE WriteRow
  <2>1. Row(pos) \in Piece /\ Write(Row(pos)) /\ FullLines
    BY <1>10 DEF WriteRow, Row, Piece, InHand, Inv
  <2>2. file' \in Seq(Seq(Piece))
    BY <2>1, Writing
  <2> QED BY <1>10, <2>2 DEF WriteRow, InHand
<1>11. CASE Crash
  <2>1. CASE UNCHANGED output
    BY <1>11, <2>1 DEF Crash
  <2>2. CASE proc = "write" /\ \E whole \in BOOLEAN : Write([item |-> pos, whole |-> whole])
    <3>1. PICK whole \in BOOLEAN : Write([item |-> pos, whole |-> whole])
      BY <2>2
    <3>2. [item |-> pos, whole |-> whole] \in Piece /\ FullLines
      BY <2>2 DEF Piece, InHand, Inv
    <3>3. file' \in Seq(Seq(Piece)) /\ Len(file') = Target /\ Target \in Nat \ {0}
      BY <3>1, <3>2, Writing
    <3>4. file' # <<>>
      BY <3>3
    <3>5. open' \in BOOLEAN
      BY <1>11 DEF Crash
    <3>6. UNCHANGED setting /\ errors' = errors /\ Exit
      BY <1>11, Zenon DEF Crash
    <3>7. crashes' \in 0..MaxCrashes
      BY <1>11 DEF Crash
    <3> QED BY <3>3, <3>4, <3>5, <3>6, <3>7
  <2> QED BY <1>11, <2>1, <2>2 DEF Crash
<1>12. CASE UNCHANGED vars
  BY <1>12 DEF vars, memory
<1> QED BY <1>1, <1>2, <1>3, <1>4, <1>5, <1>6, <1>7, <1>8, <1>9, <1>10, <1>11, <1>12
        DEF Next, Judge

\* Every step leaves the file alone or writes the item in hand.
LEMMA FileStep ==
    ASSUME Inv, [Next]_vars
    PROVE  \/ UNCHANGED output /\ crashes <= crashes'
           \/ \E whole \in BOOLEAN :
                /\ proc = "write" /\ Write([item |-> pos, whole |-> whole])
                /\ \/ WriteRow /\ whole /\ ~open' /\ crashes' = crashes
                   \/ Crash /\ proc' = "down" /\ crashes' = crashes + 1
                      /\ (open' \/ (~open' /\ whole))
<1>0. crashes \in Nat
  BY DEF Inv, TypeOK
<1>1. CASE WriteRow
  BY <1>1 DEF WriteRow, faults, output
<1>2. CASE Crash
  <2>1. CASE UNCHANGED output
    BY <1>0, <1>2, <2>1 DEF Crash
  <2>2. CASE ~ UNCHANGED output
    BY <1>2, <2>2 DEF Crash, Exit
  <2> QED BY <2>1, <2>2
<1>3. CASE ~WriteRow /\ ~Crash
  BY <1>0, <1>3 DEF Next, Judge, Start, Opened, Step, RunOne, Raises, HardError, Retry, Abort,
     ZeroEvidence, Accept, vars, faults, output
<1> QED BY <1>1, <1>2, <1>3

\* The part of the invariant that is about the file: one row per item, and
\* spoiled lines.
LEMMA FileInvStep == Inv /\ [Next]_vars => FullLines' /\ OneRowPerItem' /\ Marks'
<1> SUFFICES ASSUME Inv, [Next]_vars PROVE FullLines' /\ OneRowPerItem' /\ Marks'
  OBVIOUS
<1>1. TypeOK /\ TypeOK' /\ FullLines /\ OneRowPerItem /\ Marks /\ Progress
  BY TypeStep DEF Inv
<1>2. CASE UNCHANGED output /\ crashes <= crashes'
  <2>1. file' = file /\ open' = open
    BY <1>2 DEF output
  <2>2. Marked' = Marked
    BY <2>1 DEF Marked, Spoiled
  <2>3. Cardinality(Marked) \in Nat /\ crashes \in Nat /\ crashes' \in Nat
    BY <1>1, MarkedFinite DEF TypeOK
  <2>4. Marks'
    BY <1>1, <1>2, <2>2, <2>3 DEF Marks
  <2> QED BY <1>1, <2>1, <2>4 DEF FullLines, OneRowPerItem
<1>3. ASSUME NEW whole \in BOOLEAN,
             proc = "write", Write([item |-> pos, whole |-> whole]),
             \/ WriteRow /\ whole /\ ~open' /\ crashes' = crashes
             \/ Crash /\ proc' = "down" /\ crashes' = crashes + 1 /\ (open' \/ (~open' /\ whole))
      PROVE  FullLines' /\ OneRowPerItem' /\ Marks'
  <2> DEFINE piece == [item |-> pos, whole |-> whole]
  <2>1. pos \in Items /\ pos \notin Rows(file)
    <3>1. pos \in Items \ done /\ Rows(file) \subseteq done \cup ok /\ pos \notin ok
      BY <1>1, <1>3 DEF Progress, InHand, TypeOK
    <3> QED BY <3>1
  <2>2. piece \in Piece /\ Write(piece) /\ piece.item \notin Rows(file)
        /\ piece.whole = whole
    BY <1>3, <2>1 DEF Piece
  <2> HIDE DEF piece
  <2>3. Cardinality(Marked) \in Nat /\ Cardinality(Marked') \in Nat /\ crashes \in Nat
    <3>1. (~open' /\ whole) \/ open'
      BY <1>3
    <3>2. Cardinality(Marked') \in Nat
      BY <1>1, <2>2, <3>1, WritingMarks
    <3> QED BY <1>1, <3>2, MarkedFinite DEF TypeOK
  <2>4. FullLines'
    BY <1>1, <2>2, WritingKeepsLinesFull
  <2>5. OneRowPerItem'
    BY <1>1, <2>2, WritingIsUnique
  <2>6. Marks'
    <3>1. /\ ~open' /\ whole => Cardinality(Marked') <= Cardinality(Marked)
          /\ open' => Cardinality(Marked') <= Cardinality(Marked) + 1
      BY <1>1, <2>2, WritingMarks
    <3>2. Cardinality(Marked) <= crashes
      BY <1>1 DEF Marks
    <3>3. Cardinality(Marked') <= crashes'
      BY <1>3, <2>3, <3>1, <3>2
    <3> QED BY <3>3 DEF Marks
  <2> QED BY <2>4, <2>5, <2>6
<1> QED BY <1>2, <1>3, FileStep

\* Rows are known to the process, and the item in hand has none.
LEMMA ForgottenStep == Inv /\ [Next]_vars => Forgotten'
BY DEF Inv, Forgotten, Next, Judge, Start, Step, RunOne, Raises, NextItem, HardError, Retry,
   Abort, ZeroEvidence, Accept, WriteRow, Crash, Exit, vars, memory

LEMMA ProgressStep == Inv /\ [Next]_vars => Progress'
<1> SUFFICES ASSUME Inv, [Next]_vars, proc' # "down" PROVE Progress'
  BY DEF Progress
<1>1. TypeOK /\ Progress
  BY DEF Inv
<1>2. pos \in Nat /\ ok \subseteq Items
  BY <1>1 DEF TypeOK, Items
<1>3. CASE WriteRow
  <2>1. Row(pos) \in Piece /\ Write(Row(pos)) /\ FullLines
    BY <1>1, <1>3 DEF WriteRow, Row, Piece, InHand, Progress, Inv
  <2>2. Rows(file') \subseteq Rows(file) \cup {pos}
    BY <1>1, <2>1, WritingKeepsRows DEF Row
  <2>3. /\ Rows(file) \subseteq done \cup ok
        /\ \A i \in ok : i < pos
    BY <1>1, <1>3 DEF WriteRow, Progress
  <2>4. ok' = ok \cup {pos} /\ done' = done /\ pos' = pos + 1 /\ proc' = "loop"
    BY <1>3 DEF WriteRow, NextItem
  <2>5. \A i \in ok' : i < pos'
    BY <1>2, <2>3, <2>4 DEF Items
  <2> QED BY <2>2, <2>3, <2>4, <2>5 DEF Progress, InHand
<1>4. CASE ~WriteRow
  <2>1. file' = file
    BY <1>4, FileStep DEF output
  <2>2. Rows(file)' = Rows(file)
    BY <2>1 DEF Rows
  <2>3. CASE Start
    <3>1. proc' = "loop" /\ done' = Rows(file) /\ ok' = {}
      BY <2>3 DEF Start, Inv, Forgotten
    <3> QED BY <2>2, <3>1 DEF Progress, InHand
  <2>4. CASE Step
    <3>1. /\ pos' \in {i \in pos..NItems : i \notin done}
          /\ proc = "loop" /\ proc' = "first" /\ ok' = ok /\ done' = done
      BY <2>4 DEF Step, Exit
    <3>2. pos' \in Items \ done /\ pos <= pos'
      BY <1>1, <3>1, DriverAssumption DEF TypeOK, Items
    <3>3. \A i \in ok : i < pos'
      BY <1>1, <1>2, <3>1, <3>2 DEF Progress, Items
    <3> QED BY <1>1, <2>2, <3>1, <3>2, <3>3 DEF Progress
  <2>5. CASE Raises \/ (ZeroEvidence /\ NextItem)
    <3>1. /\ proc # "down" /\ proc' = "loop" /\ pos' = pos + 1
          /\ ok' = ok /\ done' = done
      BY <2>5 DEF Raises, ZeroEvidence, NextItem, Judging, Exit
    <3>2. \A i \in ok : i < pos'
      BY <1>1, <1>2, <3>1 DEF Progress, Items
    <3> QED BY <1>1, <2>2, <3>1, <3>2 DEF Progress, InHand
  <2>6. CASE (\E r \in Results : RunOne(r)) \/ HardError \/ Retry \/ Accept \/ UNCHANGED vars
    <3>1. /\ proc # "down" /\ pos' = pos /\ ok' = ok /\ done' = done
          /\ InHand' => InHand
      BY <2>6 DEF RunOne, HardError, Retry, MayRetry, Accept, Judging, vars, memory, InHand
    <3> QED BY <1>1, <2>2, <3>1 DEF Progress
  <2>7. ~Crash /\ ~Abort /\ (ZeroEvidence => NextItem)
    BY DEF Crash, Abort, ZeroEvidence, Exit
  <2> QED BY <1>4, <2>3, <2>4, <2>5, <2>6, <2>7 DEF Next, Judge
<1> QED BY <1>3, <1>4

\* What the process found or wrote is kept.
LEMMA RowsKeptStep == Inv /\ [Next]_vars => RowsKept'
<1> SUFFICES ASSUME Inv, [Next]_vars, proc' # "down", NEW i \in done' \cup ok'
             PROVE  Kept(i)'
  BY DEF RowsKept
<1>1. TypeOK /\ RowsKept /\ TypeOK'
  BY TypeStep DEF Inv
<1>2. i \in Items
  BY <1>1 DEF TypeOK
<1>3. CASE WriteRow
  <2>1. PICK j : j = pos
    OBVIOUS
  <2>2. j \in Items /\ Row(j) \in Piece /\ Write(Row(j)) /\ FullLines
    BY <1>1, <1>3, <2>1 DEF WriteRow, Row, Piece, InHand, Progress, Inv
  <2>3. Row(j).whole /\ Row(j).item = j
    BY DEF Row
  <2>4. Kept(Row(j).item)' /\ (Kept(i) => Kept(i)')
    BY <1>1, <1>2, <2>2, <2>3, WritingKeepsRows
  <2>5. Kept(j)'
    BY <2>3, <2>4
  <2>6. proc # "down" /\ done' = done /\ ok' = ok \cup {j}
    BY <1>3, <2>1 DEF WriteRow
  <2>7. i = j \/ Kept(i)
    BY <1>1, <2>6 DEF RowsKept
  <2> QED BY <2>4, <2>5, <2>7
<1>4. CASE ~WriteRow
  <2>1. file' = file
    BY <1>4, FileStep DEF output
  <2>2. Kept(i) => Kept(i)'
    BY <2>1 DEF Kept, Rows, Spoiled
  <2>3. CASE Start
    <3>1. done' = Rows(file)
      BY <2>3 DEF Start
    <3>2. ok' = {}
      BY <2>3 DEF Start, Inv, Forgotten
    <3> QED BY <2>2, <3>1, <3>2 DEF Kept
  <2>4. CASE ~Start
    <3>1. done' = done /\ ok' = ok /\ proc # "down"
      BY <1>4, <2>4 DEF Next, Judge, Step, RunOne, Raises, NextItem, HardError, Retry, MayRetry,
         Abort, ZeroEvidence, Accept, Judging, Crash, Exit, vars, memory
    <3> QED BY <1>1, <2>2, <3>1 DEF RowsKept
  <2> QED BY <2>3, <2>4
<1> QED BY <1>3, <1>4

LEMMA InvHolds == Spec => []Inv
<1>1. Inv /\ [Next]_vars => Inv'
  BY TypeStep, FileInvStep, ProgressStep, ForgottenStep, RowsKeptStep DEF Inv
<1> QED BY <1>1, InitInv, PTL DEF Spec

-----------------------------------------------------------------------------
\* Every variable keeps its type; a process whose streak of items without
\* evidence reaches the threshold is no more.
THEOREM DriverTypeCorrect == Spec => []TypeOK
BY InvHolds, PTL DEF Inv

\* However often the driver crashes, whatever a crash leaves of a row, and however
\* often it is started again, no item has two rows that parse.
THEOREM NoItemTwice == Spec => []OneRowPerItem
BY InvHolds, PTL DEF Inv

\* There are at most as many spoiled lines as crashes, and what a process found
\* or counted is a row of the file or on a spoiled line.
THEOREM CrashLosesOneLine == Spec => []CrashCostsOneLine
<1>1. Inv => CrashCostsOneLine
  <2> SUFFICES ASSUME Inv PROVE CrashCostsOneLine
    OBVIOUS
  <2>1. IsFiniteSet(Marked) /\ Cardinality(Marked) \in Nat /\ Spoiled(file) \subseteq Marked
    BY MarkedFinite DEF Inv, Marked
  <2>2. /\ Cardinality(Spoiled(file)) <= Cardinality(Marked)
        /\ Cardinality(Spoiled(file)) \in Nat
    BY <2>1, FS_Subset, FS_CardinalityType
  <2>3. Cardinality(Spoiled(file)) <= crashes
    BY <2>1, <2>2 DEF Inv, Marks, TypeOK
  <2> QED BY <2>3 DEF Inv, RowsKept, Kept, Row, CrashCostsOneLine
<1> QED BY <1>1, InvHolds, PTL
=============================================================================
