--------------------------- MODULE RunLifecycle ---------------------------
(***************************************************************************)
(* What the engine promises about ONE pipeline run to whoever started it   *)
(* and to whoever reads the run table: the row is created RUNNING, reaches *)
(* one terminal status and keeps it, and the single answer given to the    *)
(* caller (RunResult.status, also carried by RUN_COMPLETE) is the          *)
(* persisted status unless the terminal write was contested: another       *)
(* writer got there first, or a store call failed.                         *)
(* `row` is "none" before createRun; `answer` is "none" before the run     *)
(* settles.                                                                *)
(***************************************************************************)

VARIABLES row, answer, contested

lifecycle == <<row, answer, contested>>

Terminal == {"SUCCESS", "FAILED", "ABORTED"}

Init ==
    /\ row = "none"
    /\ answer = "none"
    /\ contested = FALSE

Create ==
    /\ row = "none"
    /\ row' = "RUNNING"
    /\ UNCHANGED <<answer, contested>>

\* completeRun moves the row RUNNING -> terminal; the write is contested when
\* it is somebody else's, or when the engine cannot tell that it happened.
Decide(status) ==
    /\ row = "RUNNING"
    /\ row' = status
    /\ contested' \in {contested, TRUE}
    /\ UNCHANGED answer

\* The terminal write fails outright: the row stays as it is.
Contest ==
    /\ contested' = TRUE
    /\ UNCHANGED <<row, answer>>

Answer(status) ==
    /\ answer = "none"
    /\ row # "none"
    /\ contested \/ row = status
    /\ answer' = status
    /\ UNCHANGED <<row, contested>>

Next ==
    \/ Create
    \/ Contest
    \/ \E status \in Terminal : Decide(status) \/ Answer(status)

Spec == Init /\ [][Next]_lifecycle
=============================================================================
