------------------------------ MODULE ReplCell ------------------------------
(***************************************************************************)
(* The clock and the fan-out budget of PersistentREPL                      *)
(* (skyrl_gym/envs/rlm/repl.py): execute() runs one cell after another,    *)
(* each in a thread of its own; a cell that calls llm_query, rlm_query or  *)
(* rlm_query_batched blocks, and _pause_timeout takes the wait off the     *)
(* cell's clock.  The clock is one set of attributes of the REPL, shared   *)
(* by the cell execute() is joining and by the threads of cells it has     *)
(* given up, which Python cannot kill.                                     *)
(*                                                                         *)
(* Time passes in ticks, of which a second has several: signal.alarm takes *)
(* whole seconds, and int() cuts off the rest.                             *)
(*                                                                         *)
(* Two threads can be switched at a call or at a loop's back edge only, so *)
(* code between two calls is one step: rlm_query reads and raises the      *)
(* budget in one step, rlm_query_batched calls min, max and len in between.*)
(***************************************************************************)
EXTENDS Integers, FiniteSets

CONSTANTS MaxCells,     \* cells the model runs (bounds the run)
          MaxTime,      \* last tick (bounds the run)
          Second,       \* ticks of a second
          Timeout,      \* REPL timeout, in ticks
          MinRearm,     \* least alarm after a wait, in ticks
          MaxChildren,  \* max_children, not 0
          MaxBatch,     \* longest prompt list (bounds the run)
          None,         \* the value of an attribute that is not set
          Lingering     \* an abandoned cell goes on to use the REPL

ASSUME CellAssumption ==
    /\ MaxCells \in Nat /\ MaxTime \in Nat
    /\ Second \in Nat \ {0}
    /\ Timeout \in Nat /\ MinRearm \in Nat
    /\ MaxChildren \in Nat \ {0} /\ MaxBatch \in Nat
    /\ None \notin Int
    /\ Lingering \in BOOLEAN

Cells == 1..MaxCells

VARIABLES
    path,       \* "alarm" in the main thread, "thread" in an executor's
    now,        \* time.monotonic()
    execStart,  \* _exec_start
    waitSecs,   \* _wait_secs
    since,      \* _wait_active_since
    alarmAt,    \* when the pending SIGALRM fires
    cur,        \* the cell execute() is joining, 0 between cells
    pc,         \* where each cell's thread is
    outer,      \* _pause_timeout's local `outer`, per thread
    saved,      \* the _wait_secs the thread read at the start of its fold
    want,       \* n_spawn of the thread's rlm_query_batched
    spawned,    \* _children_spawned
    ran,        \* ticks the cell spent outside _pause_timeout, up to its verdict
    verdict,    \* how execute() ended the cell
    lost        \* cells that lost a query's answer to an exception of the clock

clock == <<execStart, waitSecs, since, alarmAt>>
thread == <<pc, outer, saved, want>>
vars == <<path, now, clock, cur, thread, spawned, ran, verdict, lost>>

Init ==
    /\ path \in {"alarm", "thread"}
    /\ now = 0 /\ execStart = 0 /\ waitSecs = 0
    /\ since = None /\ alarmAt = None
    /\ cur = 0 /\ spawned = 0 /\ lost = {}
    /\ pc = [k \in Cells |-> "unborn"]
    /\ outer = [k \in Cells |-> FALSE]
    /\ saved = [k \in Cells |-> 0]
    /\ want = [k \in Cells |-> 0]
    /\ ran = [k \in Cells |-> 0]
    /\ verdict = [k \in Cells |-> "none"]

\* The thread of cell k may take a step that uses the REPL.
Uses(k) == k = cur \/ Lingering

At(k, place) == Uses(k) /\ pc[k] = place

GoTo(k, place) == pc' = [pc EXCEPT ![k] = place]

Larger(a, b) == IF a > b THEN a ELSE b
Smaller(a, b) == IF a < b THEN a ELSE b

-----------------------------------------------------------------------------
\* Where a cell's thread is while its clock should run, as far as the three
\* query functions go.  check_citations is part of running: it calls lm_callback
\* itself, so the cell pays for that wait.
Charged == {"run", "budget"}

\* A tick passes.  A due alarm interrupts the cell before the next one.
Tick ==
    /\ now < MaxTime
    /\ alarmAt # None => now < alarmAt
    /\ now' = now + 1
    /\ ran' = IF cur # 0 /\ pc[cur] \in Charged
              THEN [ran EXCEPT ![cur] = @ + 1] ELSE ran
    /\ UNCHANGED <<path, clock, cur, thread, spawned, verdict, lost>>

\* Faulty variants: the wait of the cell before is carried over, or all of the
\* clock's attributes are reset to None.
KeepWait == waitSecs
UnsetWait == None

\* _wait_secs of a new cell.
FreshWait == 0

\* signal.alarm(int(t)): whole seconds, and none cancel the alarm.  Below zero
\* int() would round up, which the least alarm after a wait hides.
Whole(t) == Second * (t \div Second)
AlarmIn(t) == IF t = 0 THEN None ELSE now + t

\* execute() resets the clock and starts the next cell.
Execute(k) ==
    /\ cur = 0
    /\ pc[k] = "unborn" /\ \A j \in 1..(k - 1) : pc[j] # "unborn"
    /\ execStart' = now
    /\ waitSecs' = FreshWait
    /\ since' = None
    /\ alarmAt' = IF path = "alarm" THEN AlarmIn(Whole(Timeout)) ELSE None
    /\ cur' = k
    /\ GoTo(k, "run")
    /\ UNCHANGED <<path, now, outer, saved, want, spawned, ran,
                   verdict, lost>>

\* Faulty variant: t0 is taken and never stored.
NoWaitStart == since

\* _wait_active_since once a wait begins: the outermost wait sets it.
WaitStart == IF since = None THEN now ELSE since

\* Entry of _pause_timeout: the cell blocks until its query returns.
PauseClock(k) ==
    /\ outer' = [outer EXCEPT ![k] = since = None]
    /\ since' = WaitStart
    /\ alarmAt' = None
    /\ GoTo(k, "wait")
    /\ UNCHANGED <<execStart, waitSecs>>

LlmQuery(k) ==
    /\ At(k, "run")
    /\ PauseClock(k)
    /\ UNCHANGED <<path, now, cur, saved, want, spawned, ran,
                   verdict, lost>>

\* Beyond the budget rlm_query returns a message and changes nothing.
RlmQuery(k) ==
    /\ At(k, "run")
    /\ spawned < MaxChildren
    /\ spawned' = spawned + 1
    /\ PauseClock(k)
    /\ UNCHANGED <<path, now, cur, saved, want, ran, verdict, lost>>

\* Faulty variant: the whole list is spawned.
WholeBatch(b) == b

\* How many of b prompts may still be spawned.
Allowance(b) == Larger(0, Smaller(b, MaxChildren - spawned))

BatchRead(k) ==
    /\ At(k, "run")
    /\ \E b \in 1..MaxBatch : want' = [want EXCEPT ![k] = Allowance(b)]
    /\ GoTo(k, "budget")
    /\ UNCHANGED <<path, now, clock, cur, outer, saved, spawned, ran,
                   verdict, lost>>

BatchSpawn(k) ==
    /\ At(k, "budget")
    /\ spawned' = spawned + want[k]
    /\ IF want[k] = 0 THEN GoTo(k, "run") /\ UNCHANGED <<clock, outer>>
                      ELSE PauseClock(k)
    /\ UNCHANGED <<path, now, cur, saved, want, ran, verdict, lost>>

\* The query returned, timed out or raised: the exit of _pause_timeout.  Only
\* the outermost wait folds its length into _wait_secs, which it reads first.
WaitDone(k) ==
    /\ At(k, "wait")
    /\ GoTo(k, IF outer[k] THEN "fold" ELSE "run")
    /\ saved' = [saved EXCEPT ![k] = waitSecs]
    /\ UNCHANGED <<path, now, clock, cur, outer, want, spawned, ran,
                   verdict, lost>>

\* The alarm for what is left of the cell's own time, in whole seconds.
Rearm(waited) ==
    IF path = "alarm"
    THEN AlarmIn(Larger(MinRearm, Whole(Timeout - (now - execStart - waited))))
    ELSE None

\* A reset in the meantime leaves None to subtract: the query raises TypeError.
Fold(k) ==
    /\ At(k, "fold")
    /\ GoTo(k, "run")
    /\ IF since = None
       THEN lost' = lost \cup {k} /\ UNCHANGED clock
       ELSE /\ waitSecs' = saved[k] + (now - since)
            /\ since' = None
            /\ alarmAt' = Rearm(waitSecs')
            /\ UNCHANGED <<execStart, lost>>
    /\ UNCHANGED <<path, now, cur, outer, saved, want, spawned, ran, verdict>>

-----------------------------------------------------------------------------
\* The code ended, or raised, and the join sees its thread gone.
CellEnd(k) ==
    /\ At(k, "run")
    /\ GoTo(k, "done")
    /\ alarmAt' = None
    /\ IF k = cur THEN cur' = 0 /\ verdict' = [verdict EXCEPT ![k] = "ended"]
                  ELSE UNCHANGED <<cur, verdict>>
    /\ UNCHANGED <<path, now, execStart, waitSecs, since, outer, saved, want,
                   spawned, ran, lost>>

\* Faulty variant: only completed waits are discounted.
NoInProgress == 0

\* The part of a wait that is not yet in _wait_secs.
InProgress == IF since = None THEN 0 ELSE now - since

\* One slice of the join: over time, the thread is abandoned where it is.
Abandon(k) ==
    /\ path = "thread"
    /\ k = cur /\ pc[k] # "done"
    /\ now - execStart - waitSecs - InProgress > Timeout
    /\ cur' = 0
    /\ verdict' = [verdict EXCEPT ![k] = "timeout"]
    /\ UNCHANGED <<path, now, clock, thread, spawned, ran, lost>>

\* SIGALRM raises TimeoutError in the cell, which ends it unless the exception
\* is caught, by its own code or in check_citations_verdicts: then the cell goes
\* on without an alarm.
AlarmFires(k) ==
    /\ k = cur /\ pc[k] \in Charged
    /\ alarmAt # None /\ now >= alarmAt
    /\ alarmAt' = None
    /\ \/ /\ GoTo(k, "done")
          /\ cur' = 0
          /\ verdict' = [verdict EXCEPT ![k] = "timeout"]
       \/ GoTo(k, "run") /\ UNCHANGED <<cur, verdict>>
    /\ UNCHANGED <<path, now, execStart, waitSecs, since, outer, saved, want,
                   spawned, ran, lost>>

CellStep(k) ==
    \/ LlmQuery(k) \/ RlmQuery(k) \/ BatchRead(k) \/ BatchSpawn(k)
    \/ WaitDone(k) \/ Fold(k) \/ CellEnd(k)

Next ==
    \/ Tick
    \/ \E k \in Cells : Execute(k) \/ CellStep(k) \/ Abandon(k) \/ AlarmFires(k)

Spec == Init /\ [][Next]_vars

-----------------------------------------------------------------------------
Place == {"unborn", "run", "budget", "wait", "fold", "done"}

\* Every attribute of the REPL and every thread's locals keep their type.
TypeOK ==
    /\ path \in {"alarm", "thread"}
    /\ now \in Nat /\ execStart \in Nat /\ waitSecs \in Nat
    /\ since \in Nat \cup {None} /\ alarmAt \in Nat \cup {None}
    /\ cur \in Cells \cup {0}
    /\ pc \in [Cells -> Place]
    /\ outer \in [Cells -> BOOLEAN]
    /\ saved \in [Cells -> Nat]
    /\ want \in [Cells -> Nat]
    /\ spawned \in Nat
    /\ ran \in [Cells -> Nat]
    /\ verdict \in [Cells -> {"none", "ended", "timeout"}]
    /\ lost \subseteq Cells

\* Time blocked in llm_query, rlm_query or rlm_query_batched does not count
\* against the cell clock (execute): a cell is timed out only if it spent the
\* timeout outside them, however waits and the join's slices interleave.  The
\* alarm may come early, by less than a second however often it was re-armed;
\* the join never does.
WaitsNotCharged ==
    \A k \in Cells : verdict[k] = "timeout" =>
        ran[k] > (IF path = "alarm" THEN Timeout - Second ELSE Timeout)

\* While a cell runs, every tick since it started is accounted for exactly
\* once: executed, in a finished wait, or in the wait in progress.  The join
\* neither charges a wait nor discounts it twice.
SecondsAccounted ==
    cur # 0 => now = execStart + waitSecs + InProgress + ran[cur]

\* No answer a sub-agent or sub-LLM produced is thrown away by the clock's own
\* bookkeeping raising in _pause_timeout's finally.
AnswersDelivered == lost = {}

\* A node spawns at most max_children sub-agents across all its rlm_query and
\* rlm_query_batched calls, counted across turns.
FanOutCapped == spawned <= MaxChildren
=============================================================================
