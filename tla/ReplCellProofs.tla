--------------------------- MODULE ReplCellProofs ---------------------------
(***************************************************************************)
(* Theorems about the cell clock and the fan-out budget of ReplCell, for   *)
(* any number of cells, any timeout and any budget.                        *)
(*                                                                         *)
(* Typing holds whatever abandoned cells do.  The rest needs that they no  *)
(* longer use the REPL (~Lingering): the run ReplCellStray shows that the  *)
(* clock fails without it.                                                 *)
(***************************************************************************)
EXTENDS ReplCell, TLAPS

\* The joined cell is alive and has no verdict yet.
Joined ==
    cur # 0 => pc[cur] \in Charged \cup {"wait", "fold"} /\ verdict[cur] = "none"

\* A cell that has not started has not run and has no verdict.
Unborn ==
    \A k \in Cells : pc[k] = "unborn" => ran[k] = 0 /\ verdict[k] = "none"

\* The shared wait attributes describe the joined cell's wait and no other.
OneWait ==
    cur # 0 =>
        /\ execStart <= now
        /\ pc[cur] \in Charged <=> since = None
        /\ pc[cur] \in {"wait", "fold"} => outer[cur] /\ since <= now
        /\ pc[cur] = "fold" => saved[cur] = waitSecs

\* The alarm is pending only while the cell executes, and leaves it its time up
\* to what int() cuts off.
AlarmSet ==
    alarmAt # None =>
        /\ path = "alarm" /\ cur # 0 /\ pc[cur] \in Charged
        /\ alarmAt - now + ran[cur] > Timeout - Second

\* What rlm_query_batched is about to spawn still fits.
BatchFits ==
    cur # 0 /\ pc[cur] = "budget" => spawned + want[cur] <= MaxChildren

-----------------------------------------------------------------------------
\* Cutting off the fraction of a second takes less than a second.
LEMMA WholeBounds ==
    ASSUME NEW t \in Int
    PROVE  Whole(t) \in Int /\ t - Second < Whole(t) /\ Whole(t) <= t
                /\ (t >= 0 => Whole(t) \in Nat)
<1>1. Second \in Nat /\ Second > 0
    BY CellAssumption
<1> DEFINE q == t \div Second
           r == t % Second
<1>2. q \in Int /\ r \in 0..(Second - 1) /\ t = Second * q + r
    BY <1>1
<1>3. Second * q \in Int /\ Whole(t) = Second * q
    BY <1>1, <1>2 DEF Whole
<1> HIDE DEF q, r
<1>4. t - Second < Second * q /\ Second * q <= t
    BY <1>1, <1>2, <1>3
<1>5. t >= 0 => Second * q >= 0
    <2> SUFFICES ASSUME t >= 0, q < 0 PROVE FALSE
        BY <1>1, <1>2, <1>3
    <2>1. Second * q <= -Second
        BY <1>1, <1>2
    <2> QED BY <2>1, <1>1, <1>2, <1>3
<1> QED BY <1>3, <1>4, <1>5

LEMMA AlarmInType ==
    ASSUME now \in Nat, NEW t \in Nat
    PROVE  AlarmIn(t) \in Nat \cup {None}
BY DEF AlarmIn

\* A wait starts in the past: what makes its length a natural number.
Past == since # None => since <= now

TypeInv == TypeOK /\ Past

LEMMA InitTypeInv == Init => TypeInv
BY CellAssumption DEF Init, TypeInv, TypeOK, Past, Cells, Place

\* Entering _pause_timeout keeps the types of what it touches.
LEMMA PauseClockType ==
    ASSUME TypeInv, NEW k \in Cells, PauseClock(k), UNCHANGED now
    PROVE  /\ execStart' \in Nat /\ waitSecs' \in Nat
           /\ since' \in Nat \cup {None} /\ alarmAt' \in Nat \cup {None}
           /\ pc' \in [Cells -> Place] /\ outer' \in [Cells -> BOOLEAN]
           /\ Past'
<1>1. outer' \in [Cells -> BOOLEAN]
    BY DEF TypeInv, TypeOK, PauseClock
<1>2. pc' \in [Cells -> Place]
    BY DEF TypeInv, TypeOK, PauseClock, GoTo, Place
<1> QED
    BY <1>1, <1>2 DEF TypeInv, TypeOK, Past, PauseClock, WaitStart

LEMMA TypeStep == TypeInv /\ [Next]_vars => TypeInv'
<1> SUFFICES ASSUME TypeInv, [Next]_vars PROVE TypeInv'
    OBVIOUS
<1> USE CellAssumption DEF TypeInv, TypeOK, Past
<1>1. CASE Tick
    <2>1. ran' \in [Cells -> Nat]
        BY <1>1 DEF Tick
    <2>2. UNCHANGED <<path, execStart, waitSecs, since, alarmAt, cur, pc, outer,
                      saved, want, spawned, verdict, lost>> /\ now' = now + 1
        BY <1>1 DEF Tick, clock, thread
    <2> QED BY <2>1, <2>2
<1>2. ASSUME NEW k \in Cells, Execute(k) PROVE TypeInv'
    BY <1>2, AlarmInType, WholeBounds DEF Execute, FreshWait, GoTo, Place
<1>3. ASSUME NEW k \in Cells, CellStep(k) PROVE TypeInv'
    <2>1. CASE LlmQuery(k)
        BY <2>1, PauseClockType DEF LlmQuery
    <2>2. CASE RlmQuery(k)
        BY <2>2, PauseClockType DEF RlmQuery
    <2>3. CASE BatchRead(k)
        BY <2>3 DEF BatchRead, Allowance, Larger, Smaller, GoTo, Place, clock
    <2>4. CASE BatchSpawn(k)
        <3>1. spawned' \in Nat
            BY <2>4 DEF BatchSpawn
        <3>2. CASE want[k] = 0
            BY <2>4, <3>1, <3>2 DEF BatchSpawn, GoTo, Place, clock
        <3>3. CASE want[k] # 0
            BY <2>4, <3>1, <3>3, PauseClockType DEF BatchSpawn
        <3> QED BY <3>2, <3>3
    <2>5. CASE WaitDone(k)
        BY <2>5 DEF WaitDone, GoTo, Place, clock
    <2>6. CASE Fold(k)
        <3>1. pc' \in [Cells -> Place] /\ lost' \subseteq Cells
            BY <2>6 DEF Fold, GoTo, Place
        <3>2. CASE since = None
            BY <2>6, <3>1, <3>2 DEF Fold, clock
        <3>3. CASE since # None
            <4>1. waitSecs' \in Nat /\ since' = None
                BY <2>6, <3>3 DEF Fold
            <4>2. alarmAt' \in Nat \cup {None}
                <5> DEFINE left == Timeout - (now - execStart - waitSecs')
                <5>1. left \in Int
                    BY <4>1
                <5>2. Larger(MinRearm, Whole(left)) \in Nat
                    BY <5>1, WholeBounds DEF Larger
                <5>3. alarmAt' = IF path = "alarm"
                                 THEN AlarmIn(Larger(MinRearm, Whole(left))) ELSE None
                    BY <2>6, <3>3 DEF Fold, Rearm
                <5> QED BY <5>2, <5>3, AlarmInType
            <4> QED BY <2>6, <3>1, <3>3, <4>1, <4>2 DEF Fold
        <3> QED BY <3>2, <3>3
    <2>7. CASE CellEnd(k)
        BY <2>7 DEF CellEnd, GoTo, Place
    <2> QED BY <1>3, <2>1, <2>2, <2>3, <2>4, <2>5, <2>6, <2>7 DEF CellStep
<1>4. ASSUME NEW k \in Cells, Abandon(k) PROVE TypeInv'
    BY <1>4 DEF Abandon, clock, thread
<1>5. ASSUME NEW k \in Cells, AlarmFires(k) PROVE TypeInv'
    BY <1>5 DEF AlarmFires, GoTo, Place
<1>6. CASE UNCHANGED vars
    BY <1>6 DEF vars, clock, thread
<1> QED BY <1>1, <1>2, <1>3, <1>4, <1>5, <1>6 DEF Next

\* Every attribute of the REPL and every thread local keeps its type, whatever
\* abandoned cells do.
THEOREM ClockTypeCorrect == Spec => []TypeOK
<1>1. TypeInv => TypeOK
    BY DEF TypeInv
<1> QED BY InitTypeInv, TypeStep, <1>1, PTL DEF Spec

-----------------------------------------------------------------------------
(* The inductive invariant, when abandoned cells leave the REPL alone.       *)

Clock == Joined /\ Unborn /\ OneWait /\ AlarmSet /\ SecondsAccounted
Budget == BatchFits /\ FanOutCapped
Outcome == WaitsNotCharged /\ AnswersDelivered

\* A wait that the joined cell begins is the only one.
LEMMA PauseClockStep ==
    ASSUME TypeInv, Clock, NEW k \in Cells, k = cur, pc[k] \in Charged,
           PauseClock(k), UNCHANGED <<path, now, cur, saved, ran, verdict>>
    PROVE  Clock'
<1>1. since = None
    BY DEF Clock, OneWait, TypeInv, TypeOK, Cells
<1>2. /\ pc' = [pc EXCEPT ![k] = "wait"] /\ outer'[k] = TRUE
      /\ since' = now /\ alarmAt' = None /\ now \in Nat /\ now # None
      /\ UNCHANGED <<execStart, waitSecs>>
    BY <1>1, CellAssumption DEF PauseClock, WaitStart, GoTo, TypeInv, TypeOK
<1>3. Joined' /\ Unborn'
    BY <1>2 DEF Clock, Joined, Unborn, Charged, TypeInv, TypeOK
<1>4. OneWait'
    BY <1>2 DEF Clock, OneWait, Charged, TypeInv, TypeOK
<1>5. AlarmSet'
    BY <1>2 DEF AlarmSet
<1>6. SecondsAccounted'
    BY <1>1, <1>2 DEF Clock, SecondsAccounted, InProgress, TypeInv, TypeOK
<1> QED BY <1>3, <1>4, <1>5, <1>6 DEF Clock

LEMMA ClockStep ==
    ASSUME ~Lingering, TypeInv, Clock, [Next]_vars
    PROVE  Clock'
<1>0. 0 \notin Cells
    BY DEF Cells
<1> USE CellAssumption, <1>0 DEF TypeInv, TypeOK
<1>1. CASE Tick
    <2>0. /\ now' = now + 1
          /\ UNCHANGED <<path, execStart, waitSecs, since, alarmAt, cur, pc,
                         outer, saved, verdict>>
        BY <1>1 DEF Tick, clock, thread
    <2>1. \A k \in Cells : k # cur \/ pc[k] \notin Charged => ran'[k] = ran[k]
        BY <1>1 DEF Tick
    <2>2. cur # 0 /\ pc[cur] \in Charged => ran'[cur] = ran[cur] + 1
        BY <1>1 DEF Tick
    <2>3. Joined'
        BY <2>0 DEF Clock, Joined
    <2>4. Unborn'
        BY <2>0, <2>1 DEF Clock, Unborn, Charged
    <2>5. OneWait'
        BY <2>0 DEF Clock, OneWait, Charged, Past
    <2>6. AlarmSet'
        <3> SUFFICES ASSUME alarmAt' # None PROVE AlarmSet'
            BY DEF AlarmSet
        <3>1. /\ path = "alarm" /\ cur # 0 /\ pc[cur] \in Charged
              /\ alarmAt - now + ran[cur] > Timeout - Second
            BY <2>0 DEF Clock, AlarmSet
        <3>2. cur \in Cells /\ ran[cur] \in Nat /\ alarmAt \in Nat
            BY <2>0, <3>1
        <3>3. alarmAt' - now' + ran'[cur'] > Timeout - Second
            BY <2>0, <2>2, <3>1, <3>2
        <3> QED BY <2>0, <3>1, <3>3 DEF AlarmSet
    <2>7. SecondsAccounted'
        <3>1. CASE cur = 0
            BY <2>0, <3>1 DEF SecondsAccounted
        <3>2. CASE cur # 0 /\ pc[cur] \in Charged
            BY <2>0, <2>2, <3>2 DEF Clock, OneWait, SecondsAccounted, InProgress
        <3>3. CASE cur # 0 /\ pc[cur] \notin Charged
            <4>1. ran'[cur] = ran[cur] /\ since # None
                BY <2>1, <3>3 DEF Clock, Joined, OneWait, Charged
            <4> QED
                <5>1. since \in Nat /\ cur \in Cells /\ ran[cur] \in Nat
                    BY <3>3, <4>1
                <5>2. now = execStart + waitSecs + (now - since) + ran[cur]
                    BY <3>3, <4>1 DEF Clock, SecondsAccounted, InProgress
                <5>3. now' = execStart' + waitSecs' + (now' - since') + ran'[cur']
                    BY <2>0, <4>1, <5>1, <5>2
                <5> QED BY <2>0, <4>1, <5>3 DEF SecondsAccounted, InProgress
        <3> QED BY <3>1, <3>2, <3>3
    <2> QED BY <2>3, <2>4, <2>5, <2>6, <2>7 DEF Clock
<1>2. ASSUME NEW k \in Cells, Execute(k) PROVE Clock'
    <2>1. Joined' /\ Unborn' /\ OneWait'
        BY <1>2 DEF Execute, GoTo, Clock, Joined, Unborn, OneWait, Charged
    <2>2. ran[k] = 0 /\ ran' = ran /\ now' = now /\ cur' = k /\ pc'[k] = "run"
        BY <1>2 DEF Execute, GoTo, Clock, Unborn
    <2>3. AlarmSet'
        <3> SUFFICES ASSUME alarmAt' # None PROVE AlarmSet'
            BY DEF AlarmSet
        <3>1. path' = "alarm" /\ alarmAt' = now + Whole(Timeout)
            BY <1>2 DEF Execute, AlarmIn
        <3> QED BY <2>2, <3>1, WholeBounds DEF AlarmSet, Charged
    <2>4. SecondsAccounted'
        BY <1>2, <2>2 DEF Execute, FreshWait, SecondsAccounted, InProgress
    <2> QED BY <2>1, <2>3, <2>4 DEF Clock
<1>3. ASSUME NEW k \in Cells, CellStep(k) PROVE Clock'
    <2>0. k = cur /\ k # 0
        BY <1>3 DEF CellStep, LlmQuery, RlmQuery, BatchRead, BatchSpawn, WaitDone,
            Fold, CellEnd, At, Uses
    <2>1. CASE LlmQuery(k)
        BY <2>0, <2>1, PauseClockStep DEF LlmQuery, At, Charged
    <2>2. CASE RlmQuery(k)
        BY <2>0, <2>2, PauseClockStep DEF RlmQuery, At, Charged
    <2>3. CASE BatchRead(k)
        BY <2>0, <2>3 DEF BatchRead, At, GoTo, clock, Clock, Joined, Unborn,
            OneWait, AlarmSet, SecondsAccounted, InProgress, Charged
    <2>4. CASE BatchSpawn(k) /\ want[k] = 0
        BY <2>0, <2>4 DEF BatchSpawn, At, GoTo, clock, Clock, Joined, Unborn,
            OneWait, AlarmSet, SecondsAccounted, InProgress, Charged
    <2>5. CASE BatchSpawn(k) /\ want[k] # 0
        BY <2>0, <2>5, PauseClockStep DEF BatchSpawn, At, Charged
    <2>6. CASE WaitDone(k)
        <3>1. outer[k] /\ pc' = [pc EXCEPT ![k] = "fold"] /\ saved'[k] = waitSecs
            BY <2>0, <2>6 DEF WaitDone, At, GoTo, Clock, OneWait
        <3> QED
            <4>1. UNCHANGED <<path, now, execStart, waitSecs, since, alarmAt, cur,
                              outer, ran, verdict>> /\ pc[k] = "wait"
                BY <2>6 DEF WaitDone, At, clock
            <4>2. Joined' /\ Unborn' /\ SecondsAccounted'
                BY <2>0, <3>1, <4>1 DEF Clock, Joined, Unborn, SecondsAccounted,
                    InProgress
            <4>3. OneWait' /\ AlarmSet'
                BY <2>0, <3>1, <4>1 DEF Clock, OneWait, AlarmSet, Charged
            <4> QED BY <4>2, <4>3 DEF Clock
    <2>7. CASE Fold(k)
        <3>1. since # None /\ since <= now /\ saved[k] = waitSecs
            BY <2>0, <2>7 DEF Fold, At, Clock, OneWait, Charged
        <3>2. /\ waitSecs' = waitSecs + (now - since) /\ since' = None
              /\ pc' = [pc EXCEPT ![k] = "run"] /\ alarmAt' = Rearm(waitSecs')
              /\ UNCHANGED <<path, now, execStart, cur, outer, saved, ran, verdict>>
            BY <2>7, <3>1 DEF Fold, GoTo
        <3>3. now = execStart + waitSecs' + ran[cur]
            BY <2>0, <3>1, <3>2 DEF Clock, SecondsAccounted, InProgress
        <3>4. Joined' /\ Unborn' /\ OneWait'
            BY <2>0, <2>7, <3>1, <3>2 DEF Clock, Joined, Unborn, OneWait, Charged,
                Fold, At
        <3>5. AlarmSet'
            <4>1. CASE alarmAt' = None
                BY <4>1 DEF AlarmSet
            <4>2. CASE alarmAt' # None
                <5>1. path = "alarm" /\ pc'[cur] \in Charged
                    BY <2>0, <3>2, <4>2 DEF Rearm, Charged
                <5>2. now - execStart - waitSecs' = ran[cur]
                    BY <3>1, <3>2, <3>3, <2>0
                <5>3. alarmAt' = now + Larger(MinRearm, Whole(Timeout - ran[cur]))
                    BY <3>2, <4>2, <5>1, <5>2 DEF Rearm, AlarmIn
                <5>4. alarmAt' - now + ran[cur] > Timeout - Second
                    <6>1. ran[cur] \in Nat
                        BY <2>0
                    <6> QED BY <5>3, <6>1, WholeBounds DEF Larger
                <5> QED BY <2>0, <3>2, <5>1, <5>4 DEF AlarmSet
            <4> QED BY <4>1, <4>2
        <3>6. SecondsAccounted'
            BY <3>2, <3>3 DEF SecondsAccounted, InProgress
        <3> QED BY <3>4, <3>5, <3>6 DEF Clock
    <2>8. CASE CellEnd(k)
        BY <2>0, <2>8 DEF CellEnd, At, GoTo, Clock, Joined, Unborn, OneWait,
            AlarmSet, SecondsAccounted
    <2> QED BY <1>3, <2>1, <2>2, <2>3, <2>4, <2>5, <2>6, <2>7, <2>8
        DEF CellStep
<1>4. ASSUME NEW k \in Cells, Abandon(k) PROVE Clock'
    BY <1>4 DEF Abandon, clock, thread, Clock, Joined, Unborn, OneWait, AlarmSet,
        SecondsAccounted
<1>5. ASSUME NEW k \in Cells, AlarmFires(k) PROVE Clock'
    BY <1>5 DEF AlarmFires, GoTo, Clock, Joined, Unborn, OneWait, AlarmSet,
        SecondsAccounted, InProgress, Charged
<1>6. CASE UNCHANGED vars
    BY <1>6 DEF vars, clock, thread, Clock, Joined, Unborn, OneWait, AlarmSet,
        SecondsAccounted, InProgress, Charged
<1> QED BY <1>1, <1>2, <1>3, <1>4, <1>5, <1>6 DEF Next

\* The fan-out budget: only the joined cell spawns.
LEMMA BudgetStep ==
    ASSUME ~Lingering, TypeInv, Joined, Budget, [Next]_vars
    PROVE  Budget'
<1>0. 0 \notin Cells
    BY DEF Cells
<1> USE CellAssumption, <1>0 DEF TypeInv, TypeOK
<1>1. CASE Tick
    BY <1>1 DEF Tick, thread, Budget, BatchFits, FanOutCapped
<1>2. ASSUME NEW k \in Cells, Execute(k) PROVE Budget'
    BY <1>2 DEF Execute, GoTo, Budget, BatchFits, FanOutCapped
<1>3. ASSUME NEW k \in Cells, CellStep(k) PROVE Budget'
    <2>0. k = cur
        BY <1>3 DEF CellStep, LlmQuery, RlmQuery, BatchRead, BatchSpawn, WaitDone,
            Fold, CellEnd, At, Uses
    <2>1. CASE LlmQuery(k)
        BY <2>0, <2>1 DEF LlmQuery, PauseClock, GoTo, Budget, BatchFits, FanOutCapped
    <2>2. CASE RlmQuery(k)
        BY <2>0, <2>2 DEF RlmQuery, PauseClock, GoTo, Budget, BatchFits, FanOutCapped
    <2>3. CASE BatchRead(k)
        <3>1. PICK b \in 1..MaxBatch : want' = [want EXCEPT ![k] = Allowance(b)]
            BY <2>3 DEF BatchRead
        <3>2. spawned + Allowance(b) <= MaxChildren
            BY DEF Allowance, Larger, Smaller, Budget, FanOutCapped
        <3> QED
            BY <2>0, <2>3, <3>1, <3>2 DEF BatchRead, Budget, BatchFits, FanOutCapped
    <2>4. CASE BatchSpawn(k)
        <3>1. spawned' <= MaxChildren /\ pc' \in {[pc EXCEPT ![k] = "run"],
                                                [pc EXCEPT ![k] = "wait"]}
            BY <2>0, <2>4 DEF BatchSpawn, At, PauseClock, GoTo, Budget, BatchFits
        <3> QED BY <2>0, <2>4, <3>1 DEF BatchSpawn, Budget, BatchFits, FanOutCapped
    <2>5. CASE WaitDone(k)
        BY <2>0, <2>5 DEF WaitDone, GoTo, Budget, BatchFits, FanOutCapped
    <2>6. CASE Fold(k)
        BY <2>0, <2>6 DEF Fold, GoTo, Budget, BatchFits, FanOutCapped
    <2>7. CASE CellEnd(k)
        BY <2>0, <2>7 DEF CellEnd, GoTo, Budget, BatchFits, FanOutCapped
    <2> QED BY <1>3, <2>1, <2>2, <2>3, <2>4, <2>5, <2>6, <2>7 DEF CellStep
<1>4. ASSUME NEW k \in Cells, Abandon(k) PROVE Budget'
    BY <1>4 DEF Abandon, Budget, BatchFits, FanOutCapped
<1>5. ASSUME NEW k \in Cells, AlarmFires(k) PROVE Budget'
    BY <1>5 DEF AlarmFires, GoTo, Budget, BatchFits, FanOutCapped
<1>6. CASE UNCHANGED vars
    BY <1>6 DEF vars, thread, Budget, BatchFits, FanOutCapped
<1> QED BY <1>1, <1>2, <1>3, <1>4, <1>5, <1>6 DEF Next

\* Verdicts and losses: a verdict is given to the joined cell, on its own time.
LEMMA OutcomeStep ==
    ASSUME ~Lingering, TypeInv, Clock, Outcome, [Next]_vars
    PROVE  Outcome'
<1>0. 0 \notin Cells
    BY DEF Cells
<1> USE CellAssumption, <1>0 DEF TypeInv, TypeOK, Outcome
<1>1. CASE Tick
    <2>1. \A k \in Cells : k # cur => ran'[k] = ran[k]
        BY <1>1 DEF Tick
    <2>2. cur # 0 => verdict[cur] = "none"
        BY DEF Clock, Joined
    <2>3. lost' = lost /\ verdict' = verdict /\ path' = path
        BY <1>1 DEF Tick
    <2> QED BY <2>1, <2>2, <2>3 DEF WaitsNotCharged, AnswersDelivered
<1>2. ASSUME NEW k \in Cells, Execute(k) PROVE Outcome'
    BY <1>2 DEF Execute, WaitsNotCharged, AnswersDelivered
<1>3. ASSUME NEW k \in Cells, CellStep(k) PROVE Outcome'
    <2>0. k = cur /\ ran' = ran /\ path' = path
        BY <1>3 DEF CellStep, LlmQuery, RlmQuery, BatchRead, BatchSpawn, WaitDone,
            Fold, CellEnd, At, Uses
    <2>1. lost' = {}
        <3>1. CASE Fold(k)
            BY <2>0, <3>1 DEF Fold, At, Clock, OneWait, Charged, AnswersDelivered
        <3>2. CASE ~Fold(k)
            BY <1>3, <3>2 DEF CellStep, LlmQuery, RlmQuery, BatchRead, BatchSpawn,
                WaitDone, CellEnd, AnswersDelivered
        <3> QED BY <3>1, <3>2
    <2>2. verdict' = verdict \/ verdict' = [verdict EXCEPT ![k] = "ended"]
        BY <1>3 DEF CellStep, LlmQuery, RlmQuery, BatchRead, BatchSpawn, WaitDone,
            Fold, CellEnd
    <2> QED BY <2>0, <2>1, <2>2 DEF WaitsNotCharged, AnswersDelivered
<1>4. ASSUME NEW k \in Cells, Abandon(k) PROVE Outcome'
    <2>1. k = cur /\ now - execStart - waitSecs - InProgress > Timeout
        BY <1>4 DEF Abandon
    <2>2. now = execStart + waitSecs + InProgress + ran[k] /\ InProgress \in Int
        BY <2>1 DEF Clock, SecondsAccounted, InProgress
    <2>3. ran[k] > Timeout /\ path = "thread"
        BY <1>4, <2>1, <2>2 DEF Abandon
    <2>4. ran' = ran /\ path' = path /\ lost' = lost
          /\ verdict' = [verdict EXCEPT ![k] = "timeout"]
        BY <1>4 DEF Abandon, thread
    <2> QED BY <2>3, <2>4 DEF WaitsNotCharged, AnswersDelivered
<1>5. ASSUME NEW k \in Cells, AlarmFires(k) PROVE Outcome'
    <2>1. k = cur /\ alarmAt \in Nat /\ now >= alarmAt
          /\ alarmAt - now + ran[k] > Timeout - Second /\ path = "alarm"
        BY <1>5 DEF AlarmFires, Clock, AlarmSet
    <2>2. ran[k] > Timeout - Second
        BY <2>1
    <2>3. ran' = ran /\ path' = path /\ lost' = lost
          /\ (verdict' = verdict \/ verdict' = [verdict EXCEPT ![k] = "timeout"])
        BY <1>5 DEF AlarmFires
    <2> QED BY <2>1, <2>2, <2>3 DEF WaitsNotCharged, AnswersDelivered
<1>6. CASE UNCHANGED vars
    BY <1>6 DEF vars, WaitsNotCharged, AnswersDelivered
<1> QED BY <1>1, <1>2, <1>3, <1>4, <1>5, <1>6 DEF Next

IInv == TypeInv /\ Clock /\ Budget /\ Outcome

LEMMA InitIInv == Init => IInv
BY InitTypeInv, CellAssumption
DEF Init, IInv, TypeInv, TypeOK, Clock, Joined, Unborn, OneWait, AlarmSet, Budget,
    BatchFits, Outcome, SecondsAccounted, WaitsNotCharged, AnswersDelivered,
    FanOutCapped

\* The inductive invariant holds in every reachable state.
LEMMA Invariance == ASSUME ~Lingering PROVE Spec => []IInv
<1>1. IInv /\ [Next]_vars => IInv'
    BY TypeStep, ClockStep, BudgetStep, OutcomeStep DEF IInv, Clock
<1> QED BY InitIInv, <1>1, PTL DEF Spec

\* No cell is timed out for the time its query functions blocked it.
THEOREM CellsPayForTheirOwnTime ==
    ASSUME ~Lingering PROVE Spec => []WaitsNotCharged
<1>1. IInv => WaitsNotCharged
    BY DEF IInv, Outcome
<1> QED BY Invariance, <1>1, PTL

\* Every second of the running cell is accounted for exactly once.
THEOREM ClockIsExact ==
    ASSUME ~Lingering PROVE Spec => []SecondsAccounted
<1>1. IInv => SecondsAccounted
    BY DEF IInv, Clock
<1> QED BY Invariance, <1>1, PTL

\* The clock's bookkeeping never loses an answer.
THEOREM ClockLosesNoAnswer ==
    ASSUME ~Lingering PROVE Spec => []AnswersDelivered
<1>1. IInv => AnswersDelivered
    BY DEF IInv, Outcome
<1> QED BY Invariance, <1>1, PTL

\* A node never spawns more than max_children sub-agents.
THEOREM BudgetIsKept ==
    ASSUME ~Lingering PROVE Spec => []FanOutCapped
<1>1. IInv => FanOutCapped
    BY DEF IInv, Budget
<1> QED BY Invariance, <1>1, PTL
=============================================================================
