---------------------------- MODULE RunnerTable ----------------------------
(***************************************************************************)
(* What the compliance_runners table promises to the code that reads it.   *)
(*                                                                         *)
(* A row is created by the enqueue cycle and then written, by id and with  *)
(* no condition on its current status, by the publisher, the result        *)
(* consumer, the two timeout sweeps, the cancel handlers and the deletion  *)
(* of old runners.  Statuses therefore do not move along a tidy path; what *)
(* the pipeline does promise is recorded here through "phase":             *)
(*   unsent  no job message for this row was handed to NATS                *)
(*   out     its message, its run or one of its reports is outstanding     *)
(*   over    nothing is outstanding: no worker report will follow          *)
(* RunnerPipeline implements this module; ComplianceJob uses it as the     *)
(* environment of the job-level code.                                      *)
(***************************************************************************)

CONSTANT Runners        \* identities of compliance_runners rows

VARIABLES status,       \* the status column; "NONE" when there is no such row
          counted,      \* total_finding_count is not NULL
          phase         \* see above

tableVars == <<status, counted, phase>>

RunnerStatus == {"NONE", "CREATED", "QUEUED", "IN_PROGRESS",
                 "SUCCEEDED", "FAILED", "TIMEOUT", "CANCELED"}

\* What a worker says last about a runner.
Verdicts == {"SUCCEEDED", "FAILED", "CANCELED"}

TableTypeOK ==
    /\ status \in [Runners -> RunnerStatus]
    /\ counted \in [Runners -> BOOLEAN]
    /\ phase \in [Runners -> {"unsent", "out", "over"}]

TableInit ==
    /\ status = [r \in Runners |-> "NONE"]
    /\ counted = [r \in Runners |-> FALSE]
    /\ phase = [r \in Runners |-> "unsent"]

Exists(r) == status[r] # "NONE"

---------------------------------------------------------------------------
\* CreateRunnerJobs inserts rows with status CREATED.
RowsCreated(R) ==
    /\ \A r \in R : ~Exists(r)
    /\ status' = [r \in Runners |-> IF r \in R THEN "CREATED" ELSE status[r]]
    /\ UNCHANGED <<counted, phase>>

\* The message leaves for NATS; the row is written only afterwards.
RowSent(r) ==
    /\ Exists(r)
    /\ phase[r] = "unsent"
    /\ phase' = [phase EXCEPT ![r] = "out"]
    /\ UNCHANGED <<status, counted>>

\* The publisher writes QUEUED after Produce returned, whatever the row says by then.
RowQueued(r) ==
    /\ Exists(r)
    /\ phase[r] # "unsent"
    /\ status' = [status EXCEPT ![r] = "QUEUED"]
    /\ UNCHANGED <<counted, phase>>

\* The publisher gives up on a row: no query, no integration, or an error from NATS,
\* which may have stored the message (RowSent) all the same.
RowAborted(r) ==
    /\ Exists(r)
    /\ status' = [status EXCEPT ![r] = "FAILED"]
    /\ UNCHANGED <<counted, phase>>

\* The first report; when the worker died meanwhile it is also the last.
RowStarted(r) ==
    /\ Exists(r)
    /\ phase[r] = "out"
    /\ status' = [status EXCEPT ![r] = "IN_PROGRESS"]
    /\ phase' \in {phase, [phase EXCEPT ![r] = "over"]}
    /\ UNCHANGED counted

\* The worker's verdict.  A failed run carries no count, and a NULL is not written.
RowReported(r, verdict, withCount) ==
    /\ Exists(r)
    /\ phase[r] = "out"
    /\ verdict = "SUCCEEDED" => withCount
    /\ verdict = "FAILED" => ~withCount
    /\ status' = [status EXCEPT ![r] = verdict]
    /\ counted' = [counted EXCEPT ![r] = @ \/ withCount]
    /\ phase' = [phase EXCEPT ![r] = "over"]

\* Message, run or report are lost: all are acknowledged before they are acted on.
RowForsaken(r) ==
    /\ phase[r] = "out"
    /\ phase' = [phase EXCEPT ![r] = "over"]
    /\ UNCHANGED <<status, counted>>

\* The sweeps of runPublisher.
RowsTimedOut(R) ==
    /\ \A r \in R : status[r] \in {"CREATED", "QUEUED", "IN_PROGRESS"}
    /\ status' = [r \in Runners |-> IF r \in R THEN "TIMEOUT" ELSE status[r]]
    /\ UNCHANGED <<counted, phase>>

\* A cancel handler, which may also withdraw the message from the stream.
RowCanceled(r) ==
    /\ Exists(r)
    /\ status' = [status EXCEPT ![r] = "CANCELED"]
    /\ \/ UNCHANGED phase
       \/ phase[r] = "out" /\ phase' = [phase EXCEPT ![r] = "over"]
    /\ UNCHANGED counted

\* DeleteOldRunnerJob; a row built later for the same control is a new row.
RowsDeleted(R) ==
    /\ status' = [r \in Runners |-> IF r \in R THEN "NONE" ELSE status[r]]
    /\ counted' = [r \in Runners |-> IF r \in R THEN FALSE ELSE counted[r]]
    /\ phase' = [r \in Runners |-> IF r \in R THEN "unsent" ELSE phase[r]]

\* What the publisher, the workers and the sweeps do to one row on their own.
PipelineStep(r) ==
    \/ RowSent(r)
    \/ RowQueued(r)
    \/ RowAborted(r)
    \/ RowStarted(r)
    \/ \E v \in Verdicts, c \in BOOLEAN : RowReported(r, v, c)
    \/ RowForsaken(r)
    \/ RowsTimedOut({r})

TableNext ==
    \/ \E R \in SUBSET Runners : RowsCreated(R) \/ RowsTimedOut(R) \/ RowsDeleted(R)
    \/ \E r \in Runners : PipelineStep(r) \/ RowCanceled(r)

TableSpec == TableInit /\ [][TableNext]_tableVars
=============================================================================
