------------------------------ MODULE Episode ------------------------------
(***************************************************************************)
(* One rollout's answer channel: RLMEnv.step (skyrl_gym/envs/rlm/env.py)   *)
(* with the submission gate of DrRlmEnv, on top of PersistentREPL's        *)
(* `answer` buffer (repl.py), driven by agent_loop.                        *)
(*                                                                         *)
(* The model's code works on the name `answer` of its cell.  That is the   *)
(* REPL's _AnswerDict, which captures a submission when ready is assigned, *)
(* until the code binds the name to a dict of its own; _restore_scaffold   *)
(* looks at that one when the cell ends without an exception.  A cell that *)
(* is given up may still be running: its thread shares the buffer and the  *)
(* captured submission with every later turn.                              *)
(***************************************************************************)
EXTENDS Naturals, Sequences, FiniteSets

CONSTANTS MaxTurns,    \* generator.max_turns
          Drafts,      \* reports the model may write, each with its citations
          Uncited,     \* those with an empty citations list
          Empty,       \* an answer whose content is empty
          None,        \* no submission captured; not a dict; not an _AnswerDict
          MaxStrays,   \* abandoned cells that run on at a time (bounds the run)
          BounceOn,    \* dr_rlm.citations_bounce
          SalvageOn    \* DR_RLM_SALVAGE_ON_MAX_TURNS

ASSUME EpisodeAssumption ==
    /\ MaxTurns \in Nat \ {0} /\ MaxStrays \in Nat
    /\ Uncited \subseteq Drafts /\ Empty \notin Drafts
    /\ None \notin Drafts \cup {Empty} \cup Nat
    /\ BounceOn \in BOOLEAN /\ SalvageOn \in BOOLEAN

Turns == 1..MaxTurns
Ids == 0..MaxTurns   \* the first _AnswerDict, and one a cell's end may make

Report == Drafts \cup {Empty}
Answer == [report : Report, ready : BOOLEAN]
Blank == [report |-> Empty, ready |-> FALSE]

VARIABLES
    phase,      \* agent_loop: "generate", "step" or "closed"
    turn,       \* env.turns
    history,    \* kinds of the messages in chat_history
    cell,       \* the thread of each turn's cell
    dict,       \* the _AnswerDict objects
    bound,      \* the one locals["answer"] names
    name,       \* the one `answer` names in each cell, None if it is plain[k]
    plain,      \* the value the cell bound `answer` to itself
    last,       \* _last_final_obj
    bounceTurn, \* turn whose submission was held back, 0 if none was
    verdict,    \* how the episode ended
    final,      \* the report in _final_answer
    flipped,    \* ready was set since the last bounce
    offered     \* per turn, the last submission its cell made

buffer == <<dict, bound, name, plain, last>>
ghosts == <<flipped, offered>>
vars == <<phase, turn, history, cell, buffer, bounceTurn, verdict, final, ghosts>>

Init ==
    /\ phase = "generate" /\ turn = 0
    /\ history = <<"system", "metadata", "prompt">>
    /\ cell = [k \in Turns |-> "idle"]
    /\ dict = [i \in Ids |-> Blank] /\ bound = 0
    /\ name = [k \in Turns |-> None]
    /\ plain = [k \in Turns |-> None]
    /\ last = None
    /\ bounceTurn = 0
    /\ verdict = "open" /\ final = None
    /\ flipped = FALSE /\ offered = [k \in Turns |-> None]

-----------------------------------------------------------------------------
(* The code of a cell, which runs until it ends, raises or is stuck.         *)

\* After close() nothing reads what a thread still does.
Running(k) == cell[k] \in {"run", "stray"} /\ phase # "closed"
Wrapped(k) == name[k] # None
IsDict(k) == Wrapped(k) \/ plain[k] # None
Buffer(k) == IF Wrapped(k) THEN dict[name[k]] ELSE plain[k]

\* The cell's thread leaves its code, and the cell's names are gone.
Leave(k, inTime) ==
    /\ Running(k)
    /\ cell' = [cell EXCEPT ![k] = IF @ = "run" THEN inTime ELSE "late"]
    /\ name' = [name EXCEPT ![k] = None]
    /\ plain' = [plain EXCEPT ![k] = None]

Store(k, a) ==
    IF Wrapped(k) THEN dict' = [dict EXCEPT ![name[k]] = a] /\ UNCHANGED plain
                  ELSE plain' = [plain EXCEPT ![k] = a] /\ UNCHANGED dict

\* answer["content"] = ..., answer["citations"] = ..., answer["ready"] = False.
Write(k) ==
    /\ Running(k) /\ IsDict(k)
    /\ \E a \in Answer :
          /\ a.ready => Buffer(k).ready
          /\ a # Buffer(k)
          /\ Store(k, a)
    /\ UNCHANGED <<phase, turn, history, cell, bound, name, last,
                   bounceTurn, verdict, final, ghosts>>

\* answer["ready"] = True: an _AnswerDict captures, every time.
Flag(k) ==
    LET a == [Buffer(k) EXCEPT !.ready = TRUE] IN
    /\ Running(k) /\ IsDict(k)
    /\ Store(k, a)
    /\ flipped' = TRUE
    /\ IF Wrapped(k)
       THEN last' = a.report /\ offered' = [offered EXCEPT ![k] = a.report]
       ELSE UNCHANGED <<last, offered>>
    /\ UNCHANGED <<phase, turn, history, cell, bound, name, bounceTurn,
                   verdict, final>>

\* answer.update(ready=True) does not go through __setitem__.
FlagByUpdate(k) ==
    /\ Running(k) /\ Wrapped(k)
    /\ ~Buffer(k).ready
    /\ Store(k, [Buffer(k) EXCEPT !.ready = TRUE])
    /\ flipped' = TRUE
    /\ UNCHANGED <<phase, turn, history, cell, bound, name, last,
                   bounceTurn, verdict, final, offered>>

\* answer = dict(answer), a literal dict, or something that is no dict.
Rebind(k) ==
    /\ Running(k)
    /\ name' = [name EXCEPT ![k] = None]
    /\ \/ IsDict(k) /\ plain' = [plain EXCEPT ![k] = Buffer(k)] /\ UNCHANGED flipped
       \/ \E a \in Answer :
             /\ plain' = [plain EXCEPT ![k] = a]
             /\ flipped' = (flipped \/ a.ready)
       \/ plain' = [plain EXCEPT ![k] = None] /\ UNCHANGED flipped
    /\ UNCHANGED <<phase, turn, history, cell, dict, bound, last,
                   bounceTurn, verdict, final, offered>>

\* Faulty variant: a rebound answer is wrapped again and not looked at.
NoRestoreCapture(k) == last

\* _restore_scaffold captures a ready plain dict unless something was captured.
RestoreCapture(k) ==
    IF ~Wrapped(k) /\ IsDict(k) /\ plain[k].ready /\ last = None
    THEN plain[k].report ELSE last

Rewrapped(k) == IF IsDict(k) THEN plain[k] ELSE Blank

\* The _AnswerDict i is still reachable once cell k has ended.
InUse(i, k) == \E j \in Turns \ {k} : Running(j) /\ name[j] = i

\* The code ends: its names are copied to the REPL's locals, and `answer` is
\* an _AnswerDict again.
EndCell(k) ==
    /\ Leave(k, "ended")
    /\ last' = RestoreCapture(k)
    /\ offered' = IF IsDict(k) /\ ~Wrapped(k) /\ plain[k].ready /\ last = None
                  THEN [offered EXCEPT ![k] = plain[k].report] ELSE offered
    /\ IF Wrapped(k) THEN bound' = name[k] /\ UNCHANGED dict
       ELSE /\ dict' = [i \in Ids |-> IF i = k THEN Rewrapped(k)
                                    ELSE IF InUse(i, k) THEN dict[i] ELSE Blank]
            /\ bound' = k
    /\ UNCHANGED <<phase, turn, history, bounceTurn, verdict, final, flipped>>

\* The code raises: nothing is copied back.
RaiseCell(k) ==
    /\ Leave(k, "raised")
    /\ UNCHANGED <<phase, turn, history, dict, bound, last, bounceTurn, verdict,
                   final, ghosts>>

-----------------------------------------------------------------------------
(* agent_loop and env.step.                                                  *)

\* Faulty variant: one turn too many.
OneMoreTurn == turn > MaxTurns

LastTurn == turn >= MaxTurns

\* Faulty variant: the turn's prompt stays in the conversation.
KeepPrompt(h) == h

\* step() removes the prompt of the turn from the shared chat_history.
DropPrompt(h) == SubSeq(h, 1, Len(h) - 1)

\* agent_loop appends the reply, the observation and the next prompt.
Continue ==
    /\ phase' = "generate"
    /\ history' = history \o <<"assistant", "observation", "prompt">>
    /\ UNCHANGED <<verdict, final>>

Close(v, answer) ==
    /\ phase' = "closed" /\ verdict' = v /\ final' = answer
    /\ history' = Append(history, "assistant")

\* The engine replied with code: step() starts a cell.
StartCell ==
    /\ phase = "generate"
    /\ phase' = "step" /\ turn' = turn + 1
    /\ history' = DropPrompt(history)
    /\ cell' = [cell EXCEPT ![turn + 1] = "run"]
    /\ name' = [name EXCEPT ![turn + 1] = bound]
    /\ UNCHANGED <<dict, bound, plain, last, bounceTurn, verdict, final,
                   ghosts>>

\* The engine replied without code.
StartIdle ==
    /\ phase = "generate"
    /\ phase' = "step" /\ turn' = turn + 1
    /\ history' = DropPrompt(history)
    /\ UNCHANGED <<cell, buffer, bounceTurn, verdict, final, ghosts>>

\* The conversation exceeds max_input_length, or the engine fails.
StopGenerating ==
    /\ phase = "generate"
    /\ phase' = "closed" /\ verdict' \in {"unsubmitted", "failed"}
    /\ UNCHANGED <<turn, history, cell, buffer, bounceTurn, final, ghosts>>

\* Faulty variant: the join waits for the thread however long it takes.
NeverOverdue(k) == FALSE

MayBeOverdue(k) == cell[k] = "run"

\* The join gives the cell up: its thread is stuck for good, or goes on.
GiveUp ==
    /\ phase = "step" /\ MayBeOverdue(turn)
    /\ \/ cell' = [cell EXCEPT ![turn] = "stuck"]
       \/ /\ Cardinality({k \in Turns : cell[k] = "stray"}) < MaxStrays
          /\ cell' = [cell EXCEPT ![turn] = "stray"]
    /\ UNCHANGED <<phase, turn, history, buffer, bounceTurn, verdict,
                   final, ghosts>>

\* Faulty variant: the buffer is read when execute() returns.
LateSurfaced == IF last = None THEN None ELSE dict[bound].report

\* REPLResult.final_obj.
Surfaced == last

\* execute() hands out the captured submission and forgets it.  A turn without
\* code does not call it.
Executed == phase = "step" /\ cell[turn] \notin {"idle", "run"}
TakeCaptured == last' = None

NothingSubmitted ==
    \/ Executed /\ Surfaced = None
    \/ phase = "step" /\ cell[turn] = "idle"

\* Faulty variant: the gate does not remember that it fired.
BounceAgain(r) == BounceOn /\ ~LastTurn /\ r \in Uncited

\* _submission_bounce holds back the first uncited report of a node.
MayBounce(r) == BounceOn /\ ~LastTurn /\ r \in Uncited /\ bounceTurn = 0

\* Faulty variant: the flag of the held back submission stays up.
StillReady == dict

\* The ready flag of locals["answer"] is put down.
ReadyReset == [dict EXCEPT ![bound].ready = FALSE]

Bounce ==
    /\ Executed /\ Surfaced # None /\ MayBounce(Surfaced)
    /\ dict' = ReadyReset
    /\ bounceTurn' = turn
    /\ TakeCaptured
    /\ Continue
    /\ flipped' = FALSE
    /\ UNCHANGED <<turn, cell, bound, name, plain, offered>>

\* The submission is rendered and scored, which may raise.  An uncited report
\* also passes the gate while the tree's ledger is empty.
Accept ==
    /\ Executed /\ Surfaced # None
    /\ \E v \in {"submitted", "failed"} : Close(v, Surfaced)
    /\ TakeCaptured
    /\ UNCHANGED <<turn, cell, dict, bound, name, plain, bounceTurn, ghosts>>

NoSubmission ==
    /\ NothingSubmitted /\ ~LastTurn
    /\ Continue
    /\ UNCHANGED <<turn, cell, buffer, bounceTurn, ghosts>>

\* _try_salvage: the content of locals["answer"], if it has any and rendering
\* it does not raise.
Salvage ==
    /\ NothingSubmitted /\ LastTurn
    /\ \/ /\ SalvageOn /\ dict[bound].report # Empty
          /\ Close("salvaged", dict[bound].report)
       \/ Close("unsubmitted", None)
    /\ UNCHANGED <<turn, cell, buffer, bounceTurn, ghosts>>

CodeStep(k) ==
    \/ Write(k) \/ Flag(k) \/ FlagByUpdate(k) \/ Rebind(k) \/ EndCell(k) \/ RaiseCell(k)

LoopStep ==
    \/ StartCell \/ StartIdle \/ StopGenerating \/ GiveUp
    \/ Bounce \/ Accept \/ NoSubmission \/ Salvage

Next == LoopStep \/ \E k \in Turns : CodeStep(k)

\* The engine answers or fails and the join has a deadline; nothing is assumed
\* of the model's code.
Spec == Init /\ [][Next]_vars /\ WF_vars(LoopStep)

-----------------------------------------------------------------------------
\* Every part of the channel keeps its type.
TypeOK ==
    /\ phase \in {"generate", "step", "closed"}
    /\ turn \in 0..MaxTurns
    /\ cell \in [Turns -> {"idle", "run", "ended", "raised", "stuck", "stray", "late"}]
    /\ dict \in [Ids -> Answer] /\ bound \in Ids
    /\ name \in [Turns -> Ids \cup {None}]
    /\ plain \in [Turns -> Answer \cup {None}]
    /\ last \in Report \cup {None} /\ final \in Report \cup {None}
    /\ bounceTurn \in 0..MaxTurns
    /\ verdict \in {"open", "submitted", "salvaged", "unsubmitted", "failed"}
    /\ flipped \in BOOLEAN /\ offered \in [Turns -> Report \cup {None}]

\* No abandoned cell has run on.
NoStray == \A k \in Turns : cell[k] \notin {"stray", "late"}

\* A submitted report is exactly what some cell's answer held at the instant it
\* was made ready: later writes to the buffer, by the same cell or by one that
\* was given up, do not get into it.
SubmittedAsOffered ==
    verdict = "submitted" => \E k \in Turns : final = offered[k]

\* The model made its answer ready since the last bounce: the flag of the
\* submission that was held back does not submit again.
FreshSubmission ==
    NoStray /\ verdict = "submitted" => flipped

\* No turn that made a submission goes by as if it had not, whether its cell
\* ended, raised afterwards or was given up: the submission ends the episode or
\* is the one that is held back.
NoLostSubmission ==
    NoStray => \A k \in Turns :
        offered[k] # None /\ (k < turn \/ phase # "step") =>
            \/ k = bounceTurn
            \/ k = turn /\ verdict \in {"submitted", "failed"}

\* env.step edits the generator's chat_history: whenever the engine is called
\* there is one turn prompt in it, the current one at the tail, and the pop in
\* step() has not eaten a message of the conversation.
OnePromptAtTail ==
    phase = "generate" =>
        /\ \A i \in DOMAIN history : history[i] = "prompt" <=> i = Len(history)
        /\ Len(history) = 3 + 2 * turn

\* Every episode ends, even if the model's code never does.
EpisodeCloses == <>(phase = "closed")

\* setup() calls the buffer the single detection point: it captures the
\* submission the instant ready flips.
FlipIsCaptured ==
    [][\A k \in Turns :
         (Wrapped(k) /\ Wrapped(k)' /\ ~Buffer(k).ready /\ Buffer(k)'.ready)
            => last' # None]_vars

Abs == INSTANCE Submission WITH
    left <- MaxTurns - (IF phase = "step" THEN turn - 1 ELSE turn),
    held <- bounceTurn

\* The episode keeps the promises of Submission: the gate holds back one
\* submission at most and never on the last turn, and one verdict is reached.
KeepsPromises == Abs!Spec
=============================================================================
