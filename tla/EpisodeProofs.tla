--------------------------- MODULE EpisodeProofs ---------------------------
(***************************************************************************)
(* Theorems about the answer channel of Episode, for any turn limit, any   *)
(* set of reports and any number of abandoned cells that run on.           *)
(***************************************************************************)
EXTENDS Episode, TLAPS

-----------------------------------------------------------------------------
(* Type correctness.                                                         *)

\* Where the loop is: agent_loop calls the engine only with a turn left, and a
\* verdict is reached exactly when it is left.
Progress ==
    /\ phase = "generate" => turn < MaxTurns
    /\ phase = "step" => turn >= 1
    /\ verdict = "open" <=> phase # "closed"

TypeInv == TypeOK /\ Progress

LEMMA BlankIsAnswer == Blank \in Answer
BY DEF Blank, Answer, Report

LEMMA InitType == Init => TypeInv
<1> SUFFICES ASSUME Init PROVE TypeInv
    OBVIOUS
<1>1. dict \in [Ids -> Answer] /\ bound \in Ids
    BY BlankIsAnswer, EpisodeAssumption DEF Init, Ids
<1>2. turn \in 0..MaxTurns /\ bounceTurn \in 0..MaxTurns /\ turn < MaxTurns
    BY EpisodeAssumption DEF Init
<1> QED BY <1>1, <1>2 DEF Init, TypeInv, TypeOK, Progress

\* What a cell's code stores is an answer, in the buffer or in its own dict.
LEMMA StoreType ==
    ASSUME TypeInv, NEW k \in Turns, NEW a \in Answer, Store(k, a)
    PROVE  dict' \in [Ids -> Answer] /\ plain' \in [Turns -> Answer \cup {None}]
BY DEF TypeInv, TypeOK, Store, Wrapped

LEMMA BufferType ==
    ASSUME TypeInv, NEW k \in Turns, IsDict(k)
    PROVE  Buffer(k) \in Answer
BY DEF TypeInv, TypeOK, IsDict, Wrapped, Buffer

LEMMA LeaveType ==
    ASSUME TypeInv, NEW k \in Turns, NEW s \in {"ended", "raised"}, Leave(k, s)
    PROVE  /\ cell' \in [Turns -> {"idle", "run", "ended", "raised", "stuck", "stray", "late"}]
           /\ name' \in [Turns -> Ids \cup {None}]
           /\ plain' \in [Turns -> Answer \cup {None}]
BY DEF TypeInv, TypeOK, Leave

LEMMA CodeStepType ==
    ASSUME TypeInv, NEW k \in Turns, CodeStep(k) PROVE TypeInv'
<1> USE DEF TypeInv, Progress
<1>1. CASE Write(k)
    BY <1>1, StoreType DEF Write, TypeOK, ghosts
<1>2. CASE Flag(k)
    <2> DEFINE a == [Buffer(k) EXCEPT !.ready = TRUE]
    <2>1. a \in Answer /\ a.report \in Report
        BY <1>2, BufferType DEF Flag, Answer
    <2>2. Store(k, a)
        BY <1>2 DEF Flag
    <2>3. dict' \in [Ids -> Answer] /\ plain' \in [Turns -> Answer \cup {None}]
        BY <2>1, <2>2, StoreType
    <2>4. last' \in Report \cup {None} /\ offered' \in [Turns -> Report \cup {None}]
        BY <1>2, <2>1 DEF Flag, TypeOK
    <2> QED BY <1>2, <2>3, <2>4 DEF Flag, TypeOK
<1>3. CASE FlagByUpdate(k)
    <2> DEFINE a == [Buffer(k) EXCEPT !.ready = TRUE]
    <2>1. a \in Answer
        BY <1>3, BufferType DEF FlagByUpdate, Answer, IsDict
    <2>2. Store(k, a)
        BY <1>3 DEF FlagByUpdate
    <2>3. dict' \in [Ids -> Answer] /\ plain' \in [Turns -> Answer \cup {None}]
        BY <2>1, <2>2, StoreType
    <2> QED BY <1>3, <2>3 DEF FlagByUpdate, TypeOK
<1>4. CASE Rebind(k)
    <2>1. plain' \in [Turns -> Answer \cup {None}] /\ flipped' \in BOOLEAN
        BY <1>4, BufferType DEF Rebind, TypeOK, Answer
    <2>2. name' \in [Turns -> Ids \cup {None}]
        BY <1>4 DEF Rebind, TypeOK
    <2> QED BY <1>4, <2>1, <2>2 DEF Rebind, TypeOK
<1>5. CASE EndCell(k)
    <2>1. Leave(k, "ended")
        BY <1>5 DEF EndCell
    <2>2. k \in Ids
        BY EpisodeAssumption DEF Ids, Turns
    <2>3. plain[k] # None => plain[k] \in Answer /\ plain[k].report \in Report
        BY DEF TypeOK, Answer
    <2>4. Rewrapped(k) \in Answer \/ Wrapped(k)
        BY <2>3, BlankIsAnswer DEF Rewrapped, IsDict
    <2>5. dict' \in [Ids -> Answer] /\ bound' \in Ids
        BY <1>5, <2>2, <2>4, BlankIsAnswer DEF EndCell, TypeOK, Wrapped
    <2>6. last' \in Report \cup {None}
        BY <1>5, <2>3 DEF EndCell, RestoreCapture, TypeOK, IsDict
    <2>7. offered' \in [Turns -> Report \cup {None}]
        BY <1>5, <2>3 DEF EndCell, TypeOK, IsDict
    <2> QED BY <1>5, <2>1, <2>5, <2>6, <2>7, LeaveType DEF EndCell, TypeOK
<1>6. CASE RaiseCell(k)
    BY <1>6, LeaveType DEF RaiseCell, TypeOK, ghosts
<1> QED BY <1>1, <1>2, <1>3, <1>4, <1>5, <1>6 DEF CodeStep

LEMMA LoopStepType == ASSUME TypeInv, LoopStep PROVE TypeInv'
<1> USE EpisodeAssumption DEF TypeInv, TypeOK, Progress, Turns, buffer, ghosts
<1>1. CASE StartCell
    BY <1>1 DEF StartCell
<1>2. CASE StartIdle
    BY <1>2 DEF StartIdle
<1>3. CASE StopGenerating
    BY <1>3 DEF StopGenerating
<1>4. CASE GiveUp
    BY <1>4 DEF GiveUp
<1>5. CASE Bounce
    <2>1. turn < MaxTurns
        BY <1>5 DEF Bounce, MayBounce, LastTurn
    <2>2. dict' \in [Ids -> Answer]
        BY <1>5 DEF Bounce, ReadyReset, Answer
    <2> QED BY <1>5, <2>1, <2>2 DEF Bounce, TakeCaptured, Continue, Executed
<1>6. CASE Accept
    BY <1>6 DEF Accept, TakeCaptured, Close, Surfaced
<1>7. CASE NoSubmission
    BY <1>7 DEF NoSubmission, LastTurn, Continue, NothingSubmitted, Executed
<1>8. CASE Salvage
    BY <1>8 DEF Salvage, Close, Answer
<1> QED BY <1>1, <1>2, <1>3, <1>4, <1>5, <1>6, <1>7, <1>8 DEF LoopStep

LEMMA TypeStep == TypeInv /\ [Next]_vars => TypeInv'
<1> SUFFICES ASSUME TypeInv, [Next]_vars PROVE TypeInv'
    OBVIOUS
<1>1. CASE UNCHANGED vars
    BY <1>1 DEF vars, buffer, ghosts, TypeInv, TypeOK, Progress
<1> QED BY <1>1, CodeStepType, LoopStepType DEF Next

\* Every part of the answer channel keeps its type, for any limits.
THEOREM ChannelTypeCorrect == Spec => []TypeOK
<1>1. TypeInv => TypeOK
    BY DEF TypeInv
<1> QED BY <1>1, InitType, TypeStep, PTL DEF Spec

-----------------------------------------------------------------------------
(* Episode implements Submission.                                            *)

LEMMA InitRefines == Init => Abs!Init
BY EpisodeAssumption DEF Init, Abs!Init

\* What the model's code does is invisible to the generator ...
LEMMA CodeStepStutters ==
    ASSUME NEW k \in Turns, CodeStep(k) PROVE UNCHANGED Abs!vars
BY DEF CodeStep, Write, Flag, FlagByUpdate, Rebind, EndCell, RaiseCell, Abs!vars

\* ... and what the loop does is a step of Submission or a stutter.
LEMMA LoopStepRefines ==
    ASSUME TypeInv, TypeInv', LoopStep PROVE [Abs!Next]_Abs!vars
<1> USE EpisodeAssumption DEF TypeInv, TypeOK, Progress, Abs!Next, Abs!vars
<1>1. CASE StartCell \/ StartIdle
    BY <1>1 DEF StartCell, StartIdle, buffer
<1>2. CASE StopGenerating
    <2>1. Abs!Break
        BY <1>2 DEF StopGenerating, Abs!Break
    <2> QED BY <2>1
<1>3. CASE GiveUp
    BY <1>3 DEF GiveUp
<1>4. CASE Bounce
    <2>1. Abs!HoldBack
        BY <1>4 DEF Bounce, Executed, MayBounce, LastTurn, Continue, Abs!HoldBack
    <2> QED BY <2>1
<1>5. CASE Accept
    <2>1. Abs!Settle
        BY <1>5 DEF Accept, Executed, Close, Abs!Settle
    <2> QED BY <2>1
<1>6. CASE NoSubmission
    <2>1. Abs!Continue
        BY <1>6 DEF NoSubmission, NothingSubmitted, Executed, LastTurn, Continue, Abs!Continue
    <2> QED BY <2>1
<1>7. CASE Salvage
    <2>1. phase = "step" /\ turn = MaxTurns
        BY <1>7 DEF Salvage, NothingSubmitted, Executed, LastTurn
    <2>2. Abs!Expire
        BY <1>7, <2>1 DEF Salvage, Close, Abs!Expire
    <2> QED BY <2>2
<1> QED BY <1>1, <1>2, <1>3, <1>4, <1>5, <1>6, <1>7 DEF LoopStep

LEMMA StepRefines ==
    TypeInv /\ TypeInv' /\ [Next]_vars => [Abs!Next]_Abs!vars
<1> SUFFICES ASSUME TypeInv, TypeInv', [Next]_vars PROVE [Abs!Next]_Abs!vars
    OBVIOUS
<1>1. CASE UNCHANGED vars
    BY <1>1 DEF vars, Abs!vars
<1> QED BY <1>1, CodeStepStutters, LoopStepRefines DEF Next

\* Whatever the code in the REPL does, the rollout keeps the promises of
\* Submission: max_turns turns at most, one submission held back at most and
\* never on the last turn, one verdict that does not change.
THEOREM EpisodeImplementsSubmission == Spec => KeepsPromises
BY InitType, TypeStep, InitRefines, StepRefines, PTL DEF Spec, KeepsPromises, Abs!Spec

-----------------------------------------------------------------------------
(* The submission and the conversation.                                      *)

\* What the next execute() hands out is the last submission of some cell.
CapturedIsOffered == last # None => \E k \in Turns : offered[k] = last

Kind == {"system", "metadata", "prompt", "assistant", "observation"}

\* chat_history, before and after step() removed the prompt of the turn.
Conversation ==
    /\ history \in Seq(Kind)
    /\ OnePromptAtTail
    /\ phase = "step" =>
          /\ \A i \in DOMAIN history : history[i] # "prompt"
          /\ Len(history) = 2 * turn

Channel == CapturedIsOffered /\ SubmittedAsOffered /\ Conversation

LEMMA InitChannel == Init => Channel
BY DEF Init, Channel, CapturedIsOffered, SubmittedAsOffered, Conversation,
       OnePromptAtTail, Kind

\* While code runs, a submission is offered and captured in one step.
LEMMA CodeStepChannel ==
    ASSUME TypeInv, Channel, NEW k \in Turns, CodeStep(k) PROVE Channel'
<1> USE DEF TypeInv, TypeOK, Progress
<1>1. UNCHANGED <<phase, turn, history, verdict, final>> /\ phase # "closed"
    BY DEF CodeStep, Write, Flag, FlagByUpdate, Rebind, EndCell, RaiseCell, Running, Leave
<1>2. Conversation'
    BY <1>1 DEF Channel, Conversation, OnePromptAtTail
<1>3. SubmittedAsOffered'
    BY <1>1 DEF SubmittedAsOffered
<1>4. CapturedIsOffered'
    <2>1. CASE UNCHANGED <<last, offered>>
        BY <2>1 DEF Channel, CapturedIsOffered
    <2>2. CASE Flag(k)
        BY <2>2 DEF Flag, Channel, CapturedIsOffered
    <2>3. CASE EndCell(k)
        BY <2>3 DEF EndCell, RestoreCapture, Channel, CapturedIsOffered
    <2> QED BY <2>1, <2>2, <2>3 DEF CodeStep, Write, FlagByUpdate, Rebind, RaiseCell, ghosts
<1> QED BY <1>2, <1>3, <1>4 DEF Channel

\* step() leaves a conversation without a prompt ...
LEMMA PromptDropped ==
    ASSUME TypeInv, Conversation, phase = "generate",
           history' = DropPrompt(history), turn' = turn + 1
    PROVE  /\ history' \in Seq(Kind) /\ Len(history') = 2 * turn'
           /\ \A i \in DOMAIN history' : history'[i] # "prompt"
<1> USE DEF TypeInv, TypeOK
<1>1. turn \in Nat /\ history \in Seq(Kind) /\ Len(history) = 3 + 2 * turn
    BY DEF Conversation, OnePromptAtTail
<1>2. history' = SubSeq(history, 1, Len(history) - 1)
    BY DEF DropPrompt
<1>3. history' \in Seq(Kind) /\ Len(history') = Len(history) - 1
    BY <1>1, <1>2
<1>4. \A i \in 1..(Len(history) - 1) : history'[i] = history[i]
    BY <1>1, <1>2
<1>5. \A i \in 1..(Len(history) - 1) : history[i] # "prompt"
    BY <1>1 DEF Conversation, OnePromptAtTail
<1> QED BY <1>1, <1>3, <1>4, <1>5

\* ... and agent_loop appends the one of the next turn.
LEMMA PromptAppended ==
    ASSUME TypeInv, Conversation, phase = "step", UNCHANGED turn, Continue
    PROVE  Conversation'
<1> USE DEF TypeInv, TypeOK
<1> DEFINE more == <<"assistant", "observation", "prompt">>
<1>1. /\ turn \in Nat /\ history \in Seq(Kind) /\ Len(history) = 2 * turn
      /\ \A i \in 1..Len(history) : history[i] # "prompt"
    BY DEF Conversation
<1>2. history' = history \o more /\ more \in Seq(Kind) /\ Len(more) = 3
    BY DEF Continue, Kind
<1>3. history' \in Seq(Kind) /\ Len(history') = 3 + 2 * turn'
    BY <1>1, <1>2
<1>4. \A i \in 1..Len(history') :
          history'[i] = IF i <= Len(history) THEN history[i] ELSE more[i - Len(history)]
    BY <1>1, <1>2
<1>5. more[1] # "prompt" /\ more[2] # "prompt" /\ more[3] = "prompt"
    OBVIOUS
<1>6. \A i \in DOMAIN history' : history'[i] = "prompt" <=> i = Len(history')
    <2> TAKE i \in DOMAIN history'
    <2>1. i \in 1..Len(history') /\ Len(history') = Len(history) + 3 /\ Len(history) \in Nat
        BY <1>1, <1>3
    <2>2. CASE i <= Len(history)
        BY <1>1, <1>4, <2>1, <2>2
    <2>3. CASE i = Len(history) + 1 \/ i = Len(history) + 2 \/ i = Len(history) + 3
        BY <1>4, <1>5, <2>1, <2>3
    <2> QED BY <2>1, <2>2, <2>3
<1> QED BY <1>3, <1>6 DEF Conversation, OnePromptAtTail, Continue

LEMMA LoopStepChannel ==
    ASSUME TypeInv, Channel, LoopStep PROVE Channel'
<1> USE DEF TypeInv, TypeOK, Progress, Channel
<1>1. CASE StartCell \/ StartIdle
    <2>1. Conversation'
        BY <1>1, PromptDropped DEF StartCell, StartIdle, Conversation, OnePromptAtTail
    <2> QED BY <1>1, <2>1 DEF StartCell, StartIdle, buffer, ghosts,
               CapturedIsOffered, SubmittedAsOffered
<1>2. CASE StopGenerating
    BY <1>2 DEF StopGenerating, buffer, ghosts, CapturedIsOffered, SubmittedAsOffered,
        Conversation, OnePromptAtTail
<1>3. CASE GiveUp
    BY <1>3 DEF GiveUp, buffer, ghosts, CapturedIsOffered, SubmittedAsOffered,
        Conversation, OnePromptAtTail
<1>4. CASE Bounce \/ NoSubmission
    <2>1. Conversation'
        BY <1>4, PromptAppended DEF Bounce, NoSubmission, Executed, NothingSubmitted
    <2>2. last' = None \/ UNCHANGED last
        BY <1>4 DEF Bounce, NoSubmission, TakeCaptured, buffer
    <2> QED BY <1>4, <2>1, <2>2 DEF Bounce, NoSubmission, Continue, ghosts,
               CapturedIsOffered, SubmittedAsOffered
<1>5. CASE Accept \/ Salvage
    <2>1. phase' = "closed" /\ history' = Append(history, "assistant")
        BY <1>5 DEF Accept, Salvage, Close
    <2>2. Conversation'
        BY <2>1 DEF Conversation, OnePromptAtTail, Kind
    <2>3. CapturedIsOffered'
        BY <1>5 DEF Accept, Salvage, TakeCaptured, buffer, ghosts, CapturedIsOffered
    <2>4. SubmittedAsOffered'
        BY <1>5 DEF Accept, Salvage, Close, Surfaced, ghosts, CapturedIsOffered,
            SubmittedAsOffered
    <2> QED BY <2>2, <2>3, <2>4
<1> QED BY <1>1, <1>2, <1>3, <1>4, <1>5 DEF LoopStep

LEMMA ChannelStep == TypeInv /\ Channel /\ [Next]_vars => Channel'
<1> SUFFICES ASSUME TypeInv, Channel, [Next]_vars PROVE Channel'
    OBVIOUS
<1>1. CASE UNCHANGED vars
    BY <1>1 DEF vars, buffer, ghosts, Channel, CapturedIsOffered, SubmittedAsOffered,
        Conversation, OnePromptAtTail
<1> QED BY <1>1, CodeStepChannel, LoopStepChannel DEF Next

LEMMA ChannelInvariance == Spec => [](TypeInv /\ Channel)
BY InitType, TypeStep, InitChannel, ChannelStep, PTL DEF Spec

\* A graded report is what some cell's answer held when it was made ready,
\* also with cells that go on writing to the buffer.
THEOREM ReportIsUnaltered == Spec => []SubmittedAsOffered
<1>1. Channel => SubmittedAsOffered
    BY DEF Channel
<1> QED BY <1>1, ChannelInvariance, PTL

\* Whenever the engine is called, the turn's prompt is the conversation's tail
\* and the only prompt in it.
THEOREM ConversationIsKept == Spec => []OnePromptAtTail
<1>1. Channel => OnePromptAtTail
    BY DEF Channel, Conversation
<1> QED BY <1>1, ChannelInvariance, PTL

-----------------------------------------------------------------------------
(* What becomes of submissions while no abandoned cell runs on.              *)

\* Turns ahead are untouched, and the cell that runs is the turn's.
Ahead ==
    \A k \in Turns :
        /\ k > turn => cell[k] = "idle" /\ offered[k] = None /\ plain[k] = None
        /\ cell[k] = "run" => k = turn /\ phase = "step"
        /\ cell[k] = "idle" => offered[k] = None

\* The running cell's `answer`, unless it rebound it, is locals["answer"].
OneBuffer ==
    NoStray => \A k \in Turns : cell[k] = "run" /\ Wrapped(k) => name[k] = bound

\* Until the model makes its answer ready again, no flag is up.
FlagDown ==
    NoStray /\ ~flipped /\ phase # "closed" =>
        /\ last = None
        /\ ~dict[bound].ready
        /\ \A k \in Turns : cell[k] = "run" /\ IsDict(k) => ~Buffer(k).ready

\* What the turn's cell submitted is captured until step() has looked at it.
Pending ==
    NoStray =>
        /\ \A k \in Turns : offered[k] # None /\ k < turn => k = bounceTurn
        /\ phase = "generate" =>
              /\ last = None
              /\ \A k \in Turns : offered[k] # None => k = bounceTurn
        /\ phase = "step" => (offered[turn] # None => last # None)
        /\ phase = "step" /\ cell[turn] = "idle" => last = None

Fate == Ahead /\ OneBuffer /\ FlagDown /\ FreshSubmission /\ Pending /\ NoLostSubmission

LEMMA InitFate == Init => Fate
BY EpisodeAssumption
   DEF Init, Fate, Ahead, OneBuffer, FlagDown, FreshSubmission, Pending,
       NoLostSubmission, Blank, IsDict, Wrapped, Turns, Ids

LEMMA CodeStepAhead ==
    ASSUME TypeInv, Ahead, NEW k \in Turns, CodeStep(k)
    PROVE  /\ UNCHANGED <<phase, turn, bounceTurn, verdict>> /\ phase # "closed"
           /\ NoStray' => NoStray
           /\ NoStray => k = turn /\ cell[k] = "run" /\ phase = "step"
           /\ Ahead'
<1> USE DEF TypeInv, TypeOK, Progress
<1>1. UNCHANGED <<phase, turn, bounceTurn, verdict>> /\ Running(k)
    BY DEF CodeStep, Write, Flag, FlagByUpdate, Rebind, EndCell, RaiseCell, Leave
<1>2. UNCHANGED cell \/ Leave(k, "ended") \/ Leave(k, "raised")
    BY DEF CodeStep, Write, Flag, FlagByUpdate, Rebind, EndCell, RaiseCell
<1>3. phase # "closed" /\ cell[k] \in {"run", "stray"} /\ ~(k > turn)
    BY <1>1 DEF Running, Ahead
<1>4. NoStray' => NoStray
    BY <1>2, <1>3 DEF NoStray, Leave
<1>5. NoStray => k = turn /\ cell[k] = "run" /\ phase = "step"
    BY <1>3 DEF NoStray, Ahead
<1>6. \A j \in Turns \ {k} : UNCHANGED <<cell[j], offered[j], plain[j]>>
    BY DEF CodeStep, Write, Flag, FlagByUpdate, Rebind, EndCell, RaiseCell, Leave,
           Store, ghosts
<1>7. cell'[k] # "idle" /\ (cell'[k] = "run" => cell[k] = "run")
    BY <1>2, <1>3 DEF Leave
<1>8. Ahead'
    BY <1>1, <1>3, <1>6, <1>7 DEF Ahead
<1> QED BY <1>1, <1>3, <1>4, <1>5, <1>8

\* Only the turn's cell runs, and it has not ended or it ends now.
LEMMA CodeStepFate ==
    ASSUME TypeInv, Fate, NEW k \in Turns, CodeStep(k) PROVE Fate'
<1> USE DEF TypeInv, TypeOK, Progress
<1> DEFINE Code == \/ Write(k) \/ Flag(k) \/ FlagByUpdate(k) \/ Rebind(k)
                   \/ EndCell(k) \/ RaiseCell(k)
<1>1. /\ UNCHANGED <<phase, turn, bounceTurn, verdict>> /\ phase # "closed"
      /\ NoStray' => NoStray
      /\ NoStray => k = turn /\ cell[k] = "run" /\ phase = "step"
      /\ Ahead'
    BY CodeStepAhead DEF Fate
<1>2. verdict' = "open"
    BY <1>1
<1>3. FreshSubmission'
    BY <1>2 DEF FreshSubmission
<1> SUFFICES ASSUME NoStray', NoStray
             PROVE  OneBuffer' /\ FlagDown' /\ Pending' /\ NoLostSubmission'
    BY <1>1, <1>3 DEF Fate, OneBuffer, FlagDown, Pending, NoLostSubmission
<1>4. k = turn /\ cell[k] = "run" /\ phase = "step"
    BY <1>1
<1>5. \A j \in Turns : cell'[j] = "run" => j = k
    BY <1>1, <1>4 DEF Ahead
<1>6. OneBuffer'
    <2>1. CASE Write(k) \/ Flag(k) \/ FlagByUpdate(k)
        BY <1>4, <1>5, <2>1 DEF Fate, OneBuffer, Wrapped, Write, Flag, FlagByUpdate
    <2>3. CASE Rebind(k)
        <3>1. ~Wrapped(k)' /\ UNCHANGED cell
            BY <2>3 DEF Rebind, Wrapped
        <3> QED BY <1>4, <1>5, <3>1 DEF OneBuffer
    <2>2. CASE EndCell(k) \/ RaiseCell(k)
        BY <1>4, <1>5, <2>2 DEF OneBuffer, EndCell, RaiseCell, Leave
    <2> QED BY <2>1, <2>2, <2>3 DEF CodeStep
<1>7. Pending' /\ NoLostSubmission'
    <2>1. \A j \in Turns : j # k => offered'[j] = offered[j]
        BY DEF CodeStep, Write, Flag, FlagByUpdate, Rebind, EndCell, RaiseCell, ghosts
    <2>2. offered'[k] # None => last' # None
        <3>1. CASE UNCHANGED <<last, offered>>
            BY <1>4, <3>1 DEF Fate, Pending
        <3>2. CASE Flag(k) /\ Wrapped(k)
            <4>1. dict[name[k]].report \in Report
                BY <3>2 DEF Wrapped, Answer
            <4>2. last' = dict[name[k]].report
                BY <3>2, <4>1 DEF Flag, Buffer, Wrapped, Answer
            <4> QED BY <4>1, <4>2, EpisodeAssumption DEF Report
        <3>3. CASE EndCell(k)
            BY <1>4, <3>3, EpisodeAssumption
               DEF EndCell, RestoreCapture, Fate, Pending, IsDict, Wrapped, Answer, Report
        <3>4. CASE Flag(k) /\ ~Wrapped(k)
            BY <1>4, <3>4 DEF Flag, Fate, Pending
        <3> QED BY <3>1, <3>2, <3>3, <3>4
                DEF CodeStep, Write, FlagByUpdate, Rebind, RaiseCell, ghosts
    <2>3. cell'[turn'] # "idle"
        BY <1>1, <1>4 DEF CodeStep, Write, Flag, FlagByUpdate, Rebind, EndCell, RaiseCell, Leave
    <2>4. Pending'
        BY <1>1, <1>4, <2>1, <2>2, <2>3 DEF Fate, Pending
    <2> QED BY <1>1, <1>4, <2>1, <2>4 DEF Fate, Pending, NoLostSubmission
<1>8. FlagDown'
    <2> SUFFICES ASSUME ~flipped'
                 PROVE  /\ last' = None /\ ~dict'[bound'].ready
                        /\ cell'[k] = "run" /\ IsDict(k)' => ~Buffer(k)'.ready
        BY <1>5 DEF FlagDown
    <2>1. ~flipped
        BY DEF CodeStep, Write, Flag, FlagByUpdate, Rebind, EndCell, RaiseCell, ghosts
    <2>2. last = None /\ ~dict[bound].ready /\ (IsDict(k) => ~Buffer(k).ready)
        BY <1>4, <2>1 DEF Fate, FlagDown
    <2>3. Wrapped(k) => name[k] = bound
        BY <1>4 DEF Fate, OneBuffer
    <2>4. CASE Write(k)
        <3>1. PICK a \in Answer : (a.ready => Buffer(k).ready) /\ Store(k, a)
            BY <2>4 DEF Write
        <3>2. ~a.ready
            BY <2>2, <2>4, <3>1 DEF Write
        <3> QED BY <2>2, <2>3, <2>4, <3>1, <3>2
                DEF Write, Store, Buffer, Wrapped, IsDict
    <2>5. CASE Rebind(k)
        BY <2>2, <2>5 DEF Rebind, Buffer, Wrapped, IsDict
    <2>6. CASE EndCell(k)
        <3>1. ~Wrapped(k) /\ IsDict(k) => ~plain[k].ready
            BY <2>2 DEF Buffer
        <3>2. last' = None
            BY <2>2, <2>6, <3>1 DEF EndCell, RestoreCapture
        <3>3. ~dict'[bound'].ready
            <4>1. CASE Wrapped(k)
                BY <2>2, <2>3, <2>6, <4>1 DEF EndCell
            <4>2. CASE ~Wrapped(k)
                <5>1. bound' = k /\ k \in Ids /\ dict'[k] = Rewrapped(k)
                    BY <2>6, <4>2, EpisodeAssumption DEF EndCell, Ids, Turns
                <5>2. ~Rewrapped(k).ready
                    BY <3>1, <4>2 DEF Rewrapped, Blank
                <5> QED BY <5>1, <5>2
            <4> QED BY <4>1, <4>2
        <3>4. cell'[k] # "run"
            BY <1>4, <2>6 DEF EndCell, Leave
        <3> QED BY <3>2, <3>3, <3>4
    <2>7. CASE RaiseCell(k)
        BY <1>4, <2>2, <2>7 DEF RaiseCell, Leave
    <2> QED BY <2>4, <2>5, <2>6, <2>7 DEF CodeStep, Flag, FlagByUpdate
<1> QED BY <1>6, <1>7, <1>8

LEMMA StartFate ==
    ASSUME TypeInv, Fate, StartCell \/ StartIdle PROVE Fate'
<1> USE DEF TypeInv, TypeOK, Progress
<1>1. /\ phase = "generate" /\ phase' = "step" /\ turn' = turn + 1
      /\ turn' \in Turns
      /\ UNCHANGED <<dict, bound, plain, last, bounceTurn, verdict, flipped, offered>>
    BY EpisodeAssumption DEF StartCell, StartIdle, buffer, ghosts, Turns
<1>2. /\ cell[turn'] = "idle" /\ offered[turn'] = None /\ plain[turn'] = None
      /\ \A j \in Turns : cell[j] # "run"
    BY <1>1 DEF Fate, Ahead, Turns
<1>3. \A j \in Turns : j # turn' => UNCHANGED <<cell[j], name[j]>>
    BY <1>1 DEF StartCell, StartIdle, buffer
<1>4. cell'[turn'] \in {"idle", "run"} /\ (cell'[turn'] = "run" => name'[turn'] = bound)
    BY <1>1, <1>2 DEF StartCell, StartIdle
<1>5. Ahead'
    BY <1>1, <1>2, <1>3, <1>4 DEF Fate, Ahead, Turns
<1>6. NoStray' => NoStray
    BY <1>2, <1>3 DEF NoStray
<1>7. OneBuffer'
    BY <1>1, <1>2, <1>3, <1>4 DEF OneBuffer
<1>8. FlagDown'
    BY <1>1, <1>2, <1>3, <1>4, <1>6
       DEF Fate, FlagDown, Buffer, Wrapped, IsDict, Ids
<1>9. Pending' /\ NoLostSubmission'
    BY <1>1, <1>2, <1>6 DEF Fate, Pending, NoLostSubmission, Turns
<1>10. FreshSubmission'
    BY <1>1 DEF FreshSubmission
<1> QED BY <1>5, <1>7, <1>8, <1>9, <1>10 DEF Fate

LEMMA GiveUpFate == ASSUME TypeInv, Fate, GiveUp PROVE Fate'
<1> USE DEF TypeInv, TypeOK, Progress
<1>1. /\ phase = "step" /\ cell[turn] = "run" /\ turn \in Turns
      /\ cell' \in {[cell EXCEPT ![turn] = "stuck"], [cell EXCEPT ![turn] = "stray"]}
      /\ UNCHANGED <<phase, turn, dict, bound, name, plain, last, bounceTurn, verdict,
                     flipped, offered>>
    BY DEF GiveUp, MayBeOverdue, buffer, ghosts, Turns
<1>2. /\ NoStray' => NoStray
      /\ \A j \in Turns : (cell'[j] = "run" => cell[j] = "run")
                          /\ (cell'[j] = "idle" => cell[j] = "idle")
                          /\ (cell[j] = "idle" => cell'[j] = "idle")
    BY <1>1 DEF NoStray
<1>3. Ahead'
    BY <1>1, <1>2 DEF Fate, Ahead
<1> QED
    BY <1>1, <1>2, <1>3
       DEF Fate, OneBuffer, FlagDown, FreshSubmission, Pending, NoLostSubmission,
           Buffer, Wrapped, IsDict

LEMMA BounceFate == ASSUME TypeInv, Fate, Bounce PROVE Fate'
<1> USE DEF TypeInv, TypeOK, Progress
<1>1. /\ phase = "step" /\ phase' = "generate" /\ turn \in Turns
      /\ bounceTurn = 0 /\ bounceTurn' = turn
      /\ last' = None /\ ~flipped'
      /\ verdict = "open"
      /\ dict' = [dict EXCEPT ![bound].ready = FALSE]
      /\ UNCHANGED <<turn, cell, bound, name, plain, verdict, offered>>
    BY DEF Bounce, Executed, MayBounce, ReadyReset, Continue, TakeCaptured, Turns
<1>2. cell[turn] # "run"
    BY DEF Bounce, Executed
<1>3. \A j \in Turns : cell[j] # "run"
    BY <1>1, <1>2 DEF Fate, Ahead
<1>4. Ahead' /\ OneBuffer'
    BY <1>1, <1>3 DEF Fate, Ahead, OneBuffer
<1>5. FlagDown' /\ FreshSubmission'
    <2>1. ~dict'[bound'].ready
        BY <1>1 DEF Answer
    <2> QED BY <1>1, <1>3, <2>1 DEF FlagDown, FreshSubmission
<1>6. NoStray => \A k \in Turns : offered[k] # None => k = turn
    BY <1>1 DEF Fate, Ahead, Pending, Turns
<1>7. Pending' /\ NoLostSubmission'
    BY <1>1, <1>6 DEF NoStray, Pending, NoLostSubmission
<1> QED BY <1>4, <1>5, <1>7 DEF Fate

LEMMA SettledFate ==
    ASSUME TypeInv, Fate, Accept \/ NoSubmission \/ Salvage \/ StopGenerating
    PROVE  Fate'
<1> USE DEF TypeInv, TypeOK, Progress
<1>1. UNCHANGED <<turn, cell, dict, bound, name, plain, bounceTurn, flipped, offered>>
    BY DEF Accept, NoSubmission, Salvage, StopGenerating, buffer, ghosts
<1>2. \A j \in Turns : cell[j] # "run"
    BY DEF Accept, NoSubmission, Salvage, StopGenerating, NothingSubmitted, Executed,
           Fate, Ahead
<1>3. Ahead' /\ OneBuffer'
    BY <1>1, <1>2 DEF Fate, Ahead, OneBuffer
<1>4. (NoStray' <=> NoStray) /\ (last' = last \/ last' = None)
    BY <1>1 DEF NoStray, Accept, NoSubmission, Salvage, StopGenerating, TakeCaptured, buffer
<1>5. FlagDown'
    BY <1>1, <1>2, <1>4
       DEF Fate, FlagDown, Accept, NoSubmission, Salvage, StopGenerating, Close, Continue,
           NothingSubmitted, Executed
<1>6. FreshSubmission'
    BY <1>1, <1>4
       DEF Fate, FreshSubmission, FlagDown, Accept, NoSubmission, Salvage, StopGenerating,
           Close, Continue, Executed, NothingSubmitted, Surfaced
<1>7. CASE StopGenerating
    BY <1>1, <1>3, <1>4, <1>5, <1>6, <1>7
       DEF StopGenerating, Fate, Pending, NoLostSubmission
<1>8. CASE Accept
    BY <1>1, <1>3, <1>4, <1>5, <1>6, <1>8
       DEF Accept, Close, Executed, Fate, Ahead, Pending, NoLostSubmission, Turns
<1>9. CASE NoSubmission \/ Salvage
    <2>1. phase = "step" /\ turn \in Turns /\ UNCHANGED last
        BY <1>9 DEF NoSubmission, Salvage, NothingSubmitted, Executed, Turns, buffer
    <2>2. NoStray => offered[turn] = None
        BY <1>9, <2>1 DEF NoSubmission, Salvage, NothingSubmitted, Executed, Surfaced,
            Fate, Ahead, Pending
    <2>3. NoStray => \A k \in Turns : offered[k] # None => k = bounceTurn
        BY <2>1, <2>2 DEF Fate, Ahead, Pending, Turns
    <2>4. NoSubmission /\ NoStray => last = None
        BY DEF NoSubmission, NothingSubmitted, Executed, Surfaced, Fate, Ahead, Pending
    <2> QED BY <1>1, <1>3, <1>4, <1>5, <1>6, <1>9, <2>1, <2>3, <2>4
            DEF NoSubmission, Salvage, Close, Continue, Fate, Pending, NoLostSubmission
<1> QED BY <1>7, <1>8, <1>9

LEMMA FateStep == TypeInv /\ Fate /\ [Next]_vars => Fate'
<1> SUFFICES ASSUME TypeInv, Fate, [Next]_vars PROVE Fate'
    OBVIOUS
<1>1. CASE UNCHANGED vars
    BY <1>1 DEF vars, buffer, ghosts, Fate, Ahead, OneBuffer, FlagDown, FreshSubmission,
        Pending, NoLostSubmission, NoStray, Buffer, Wrapped, IsDict
<1> QED BY <1>1, CodeStepFate, StartFate, GiveUpFate, BounceFate, SettledFate
        DEF Next, LoopStep

LEMMA FateInvariance == Spec => [](TypeInv /\ Fate)
BY InitType, TypeStep, InitFate, FateStep, PTL DEF Spec

\* A submission that was held back does not submit again by itself: a graded
\* report was made ready after the last bounce.
THEOREM NoStaleResubmission == Spec => []FreshSubmission
<1>1. Fate => FreshSubmission
    BY DEF Fate
<1> QED BY <1>1, FateInvariance, PTL

\* A submission ends the episode or is the one held back, also if its cell
\* raised or was given up after it.
THEOREM NoSubmissionIsLost == Spec => []NoLostSubmission
<1>1. Fate => NoLostSubmission
    BY DEF Fate
<1> QED BY <1>1, FateInvariance, PTL
=============================================================================
