----------------------------- MODULE Submission -----------------------------
(***************************************************************************)
(* What one rollout of RLMEnv promises its generator, whatever the model's *)
(* code does inside the REPL: at most MaxTurns turns, at most one          *)
(* submission held back for repair and then always a turn left to repair   *)
(* it, and one verdict, which never changes.                               *)
(***************************************************************************)
EXTENDS Naturals

CONSTANT MaxTurns

VARIABLES left,     \* turns the model still has
          held,     \* the turn whose submission was held back, 0 if none was
          verdict   \* "open" until the episode ends

vars == <<left, held, verdict>>

Init == left = MaxTurns /\ held = 0 /\ verdict = "open"

\* A turn without a submission, and not the last one.
Continue ==
    /\ verdict = "open" /\ left > 1
    /\ left' = left - 1
    /\ UNCHANGED <<held, verdict>>

\* A submission is sent back to the model, with a turn left to repair it.
HoldBack ==
    /\ verdict = "open" /\ left > 1
    /\ held = 0 /\ held' = MaxTurns - left + 1
    /\ left' = left - 1
    /\ UNCHANGED verdict

\* A submission is taken, or scoring it raises.
Settle ==
    /\ verdict = "open" /\ left > 0
    /\ left' = left - 1
    /\ verdict' \in {"submitted", "failed"}
    /\ UNCHANGED held

\* The last turn ends without a submission.
Expire ==
    /\ verdict = "open" /\ left = 1
    /\ left' = 0
    /\ verdict' \in {"salvaged", "unsubmitted"}
    /\ UNCHANGED held

\* The conversation no longer fits the model, or the engine fails.
Break ==
    /\ verdict = "open" /\ left > 0
    /\ verdict' \in {"unsubmitted", "failed"}
    /\ UNCHANGED <<left, held>>

Next == Continue \/ HoldBack \/ Settle \/ Expire \/ Break

Spec == Init /\ [][Next]_vars
=============================================================================
