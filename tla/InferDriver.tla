---------------------------- MODULE InferDriver ----------------------------
(***************************************************************************)
(* The offline inference driver (dr-rlm/agent/infer_driver.py, _amain): it *)
(* answers a list of items one by one, appends one row per answer to the   *)
(* output file, gives up on dead searches, and is started again by hand    *)
(* until the file is complete.                                             *)
(*                                                                         *)
(* A line of the file is the sequence of what was written to it: a crash   *)
(* may leave a row torn, or whole but without its newline, and the next    *)
(* process then goes on writing on the same line.                          *)
(***************************************************************************)
EXTENDS Naturals, Sequences, FiniteSets

CONSTANTS NItems,      \* items of the benchmark (of one shard), in order
          AbortAfter,  \* values of --abort-after-dead-items
          MaxCrashes, MaxErrors  \* bound crashes and hard search errors

ASSUME DriverAssumption ==
    /\ NItems \in Nat \ {0} /\ AbortAfter \subseteq Nat \ {0}
    /\ MaxCrashes \in Nat /\ MaxErrors \in Nat

Items == 1..NItems

VARIABLES
    abortAfter,  \* abort_after_dead_items
    searching,   \* search_backend is not "none"
    hopeless,    \* items for which no search ever surfaces anything
    file,        \* the lines of the output file
    open,        \* the last line has no newline yet
    crashes, errors,  \* faults so far
    proc,        \* where the process is
    done,        \* example_ids found at the start
    pos,         \* the loop's item
    dead_streak,
    hit,         \* _run_guard's latch
    result,      \* what _run_one returned: a report? any evidence?
    ok           \* items counted in n_ok

setting == <<abortAfter, searching, hopeless>>
output == <<file, open>>
faults == <<crashes, errors>>
memory == <<done, pos, dead_streak, hit, result, ok>>
vars == <<setting, output, faults, proc, memory>>

Piece == [item : Items, whole : BOOLEAN]
Results == [report : BOOLEAN, evidence : BOOLEAN]

\* What json.loads accepts.
Parseable(l) == Len(l) = 1 /\ l[1].whole

\* Faulty variant: reading stops at the first line that does not parse.
RowsUpToTear(f) ==
    {i \in Items : \E k \in DOMAIN f :
        f[k] = <<[item |-> i, whole |-> TRUE]>> /\ \A m \in 1..k : Parseable(f[m])}

Rows(f) == {i \in Items : \E k \in DOMAIN f : f[k] = <<[item |-> i, whole |-> TRUE]>>}

\* Lines that hold no row: torn, or with more than one row's text on them.
Spoiled(f) == {k \in DOMAIN f : ~Parseable(f[k])}

Write(piece) ==
    file' = IF open THEN [file EXCEPT ![Len(file)] = Append(@, piece)]
            ELSE Append(file, <<piece>>)

Unanswered == [report |-> FALSE, evidence |-> FALSE]

Init ==
    /\ abortAfter \in AbortAfter /\ searching \in BOOLEAN
    /\ hopeless \in IF searching THEN SUBSET Items ELSE {Items}
    /\ file = <<>> /\ open = FALSE
    /\ crashes = 0 /\ errors = 0
    /\ proc = "down"
    /\ done = {} /\ pos = 1 /\ dead_streak = 0 /\ hit = FALSE
    /\ result = Unanswered /\ ok = {}

-----------------------------------------------------------------------------
\* Faulty variant: the output file is opened with mode "w".
Truncated == file' = <<>> /\ open' = FALSE

\* It is opened with mode "a".
Opened == UNCHANGED output

\* A new process, with fresh memory; nobody starts one on a complete file.
Start ==
    /\ proc = "down" /\ Rows(file) # Items
    /\ done' = Rows(file)
    /\ Opened
    /\ proc' = "loop"
    /\ UNCHANGED <<setting, faults, pos, dead_streak, hit, result, ok>>

\* The process ends, whatever the reason; its memory is gone.
Exit ==
    /\ proc' = "down"
    /\ done' = {} /\ pos' = 1 /\ dead_streak' = 0 /\ hit' = FALSE
    /\ result' = Unanswered /\ ok' = {}

\* The loop's next item that is not done, or the end of the run.
Step ==
    /\ proc = "loop"
    /\ LET todo == {i \in pos..NItems : i \notin done} IN
       \/ \E i \in todo :
            /\ \A j \in todo : i <= j
            /\ pos' = i /\ proc' = "first"
            /\ UNCHANGED <<done, dead_streak, hit, result, ok>>
       \/ todo = {} /\ Exit
    /\ UNCHANGED <<setting, output, faults>>

\* _run_one, for the first time or as a retry.
RunOne(r) ==
    /\ proc \in {"first", "retry"}
    /\ r.evidence => pos \notin hopeless
    /\ result' = r
    /\ proc' = IF proc = "first" THEN "answered" ELSE "retried"
    /\ UNCHANGED <<setting, output, faults, done, pos, dead_streak, hit, ok>>

NextItem == pos' = pos + 1 /\ proc' = "loop" /\ result' = Unanswered

\* It raises: the item is counted as an error, and neither ends nor adds to a
\* dead streak.
Raises ==
    /\ proc \in {"first", "retry"}
    /\ NextItem
    /\ UNCHANGED <<setting, output, faults, done, dead_streak, hit, ok>>

\* A search of the running item, or of a cell that an earlier one left behind,
\* meets a hard error.
HardError ==
    /\ proc # "down" /\ searching /\ ~hit
    /\ errors < MaxErrors
    /\ errors' = errors + 1
    /\ hit' = TRUE
    /\ UNCHANGED <<setting, output, crashes, proc, done, pos, dead_streak, result, ok>>

Judging == proc \in {"answered", "retried"}
MayRetry == proc = "answered" /\ ~result.report /\ ~hit

\* The report is empty: one more try.
Retry ==
    /\ MayRetry
    /\ proc' = "retry"
    /\ UNCHANGED <<setting, output, faults, memory>>

\* sys.exit(3)
Abort ==
    /\ Judging /\ hit
    /\ Exit
    /\ UNCHANGED <<setting, output, faults>>

\* Faulty variant: one dead item less is enough.
ManyEarly(n) == n + 1 >= abortAfter

\* Faulty variant: one more is allowed.
ManyLate(n) == n > abortAfter

Many(n) == n >= abortAfter

\* No evidence: no row, and after too many in a row sys.exit(3).
ZeroEvidence ==
    /\ Judging /\ ~MayRetry /\ ~hit
    /\ ~result.evidence /\ searching
    /\ \/ Many(dead_streak + 1) /\ Exit
       \/ /\ ~Many(dead_streak + 1)
          /\ NextItem
          /\ dead_streak' = dead_streak + 1
          /\ UNCHANGED <<done, hit, ok>>
    /\ UNCHANGED <<setting, output, faults>>

Accept ==
    /\ Judging /\ ~MayRetry /\ ~hit
    /\ result.evidence \/ ~searching
    /\ dead_streak' = 0
    /\ proc' = "write"
    /\ UNCHANGED <<setting, output, faults, done, pos, hit, result, ok>>

\* fout.write and flush.
WriteRow ==
    /\ proc = "write"
    /\ Write([item |-> pos, whole |-> TRUE])
    /\ open' = FALSE
    /\ ok' = ok \cup {pos}
    /\ NextItem
    /\ UNCHANGED <<setting, faults, done, dead_streak, hit>>

\* The process dies; while it writes, any part of the row may get to the file.
Crash ==
    /\ proc # "down" /\ crashes < MaxCrashes
    /\ crashes' = crashes + 1
    /\ Exit
    /\ \/ UNCHANGED output
       \/ /\ proc = "write"
          /\ \E whole \in BOOLEAN : Write([item |-> pos, whole |-> whole])
          /\ open' = TRUE
       \/ /\ proc = "write"
          /\ Write([item |-> pos, whole |-> TRUE])
          /\ open' = FALSE
    /\ UNCHANGED <<setting, errors>>

Judge == Retry \/ Abort \/ ZeroEvidence \/ Accept

Next ==
    \/ Start \/ Step \/ Raises \/ HardError \/ Judge \/ WriteRow \/ Crash
    \/ \E r \in Results : RunOne(r)

\* The process goes on: every rollout ends, one way or another.
Spec ==
    /\ Init /\ [][Next]_vars
    /\ WF_vars(Step \/ Raises \/ Judge \/ WriteRow \/ \E r \in Results : RunOne(r))

-----------------------------------------------------------------------------
\* Every variable keeps its type; a process whose streak reaches the threshold
\* is no more.
TypeOK ==
    /\ abortAfter \in AbortAfter /\ searching \in BOOLEAN /\ hopeless \in SUBSET Items
    /\ file \in Seq(Seq(Piece))
    /\ open \in BOOLEAN /\ (open => file # <<>>)
    /\ crashes \in 0..MaxCrashes /\ errors \in 0..MaxErrors
    /\ proc \in {"down", "loop", "first", "retry", "answered", "retried", "write"}
    /\ done \in SUBSET Items /\ pos \in 1..(NItems + 1)
    /\ dead_streak \in 0..(abortAfter - 1)
    /\ hit \in BOOLEAN /\ result \in Results /\ ok \in SUBSET Items

\* However often the driver crashes and is started again, no item gets two
\* rows that a reader of the file sees.
OneRowPerItem ==
    \A k, m \in DOMAIN file :
        Parseable(file[k]) /\ Parseable(file[m]) /\ file[k][1].item = file[m][1].item
            => k = m

\* A crash costs at most one line of the file.  A row that the process counted,
\* or found and skipped, is there for its readers, or it shares a line with what
\* a crash had left open, and nothing else is lost.
CrashCostsOneLine ==
    /\ Cardinality(Spoiled(file)) <= crashes
    /\ proc # "down" => \A i \in done \cup ok :
         \/ i \in Rows(file)
         \/ \E k \in Spoiled(file) : \E p \in DOMAIN file[k] :
                file[k][p] = [item |-> i, whole |-> TRUE] /\ Len(file[k]) > 1

\* If the driver is started again each time, every item that can surface
\* evidence gets its row, crashes, hard errors, exceptions and items without
\* evidence before it notwithstanding, as long as the hopeless items are fewer
\* than --abort-after-dead-items: with more, they end every run before it gets
\* to the items behind them.
Grounded(i) == pos = i /\ RunOne([report |-> TRUE, evidence |-> TRUE])
Retried ==
    /\ WF_vars(Start)
    /\ \A i \in Items : SF_vars(Grounded(i))
OthersAnswered ==
    (Cardinality(hopeless) < abortAfter /\ Retried)
        => <>(Items \ hopeless \subseteq Rows(file))
=============================================================================
