---------------------------- MODULE PlanPromise ----------------------------
(***************************************************************************)
(* What PipelinePlanner.plan() promises its caller: the model designs at   *)
(* most MaxAttempts drafts; the call settles once, with a draft that is    *)
(* clean, or - only when every attempt is spent - with an unresolved draft *)
(* or PlannerExhaustedError, or with the caller's abort or somebody's      *)
(* error; and the MCP catalog it loaded is closed by then.                 *)
(***************************************************************************)
EXTENDS Naturals

CONSTANT MaxAttempts

VARIABLES designs, open, verdict

promise == <<designs, open, verdict>>

GivenUp  == {"unresolved", "exhausted"}
Verdicts == {"clean", "aborted", "failed"} \cup GivenUp

Init ==
    /\ designs = 0
    /\ open = 0
    /\ verdict = "none"

Design ==
    /\ verdict = "none"
    /\ designs < MaxAttempts
    /\ designs' = designs + 1
    /\ UNCHANGED <<open, verdict>>

Open ==
    /\ verdict = "none"
    /\ open = 0
    /\ open' = 1
    /\ UNCHANGED <<designs, verdict>>

Settle(v) ==
    /\ verdict = "none"
    /\ v = "clean" => designs > 0
    /\ v \in GivenUp => designs = MaxAttempts
    /\ verdict' = v
    /\ open' = 0
    /\ UNCHANGED designs

Next == Design \/ Open \/ \E v \in Verdicts : Settle(v)

Spec == Init /\ [][Next]_promise
=============================================================================
