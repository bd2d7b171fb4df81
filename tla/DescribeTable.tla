--------------------------- MODULE DescribeTable ---------------------------
(***************************************************************************)
(* What the rows of describe_integration_jobs promise to the code that     *)
(* waits for them.                                                         *)
(*                                                                         *)
(* A row is inserted once and then written by id: by the goroutines that   *)
(* send it to a describer, by the describer's calls, by the consumer of    *)
(* results, the deleter, the retry and the cancel handlers, most of which  *)
(* do not look at its status.  So an end is not the end: a canceled job    *)
(* may succeed, and one that failed is put to work again.  What is         *)
(* promised is recorded in "closed": the jobs that nothing can put to work *)
(* again, whatever is still written to their rows.                         *)
(* DescribeJob implements this module; the describe jobs of JobSequences   *)
(* are its rows too.                                                       *)
(***************************************************************************)

CONSTANT Jobs           \* identities of describe_integration_jobs rows

VARIABLES row,          \* the status; "NONE" when there is no such row
          closed        \* see above

tableVars == <<row, closed>>

\* CREATED, QUEUED and IN_PROGRESS are one: LIVE.
RowStatus == {"NONE", "LIVE", "OLD_RESOURCE_DELETION",
              "SUCCEEDED", "FAILED", "TIMEOUT", "CANCELED"}

TableTypeOK ==
    /\ row \in [Jobs -> RowStatus]
    /\ closed \in SUBSET Jobs

TableInit ==
    /\ row = [j \in Jobs |-> "NONE"]
    /\ closed = {}

WriteRow(j, s) == row' = [row EXCEPT ![j] = s]

---------------------------------------------------------------------------
\* describe, once or for each dependency of a sequence.
RowsInserted(D) ==
    /\ \A j \in D : row[j] = "NONE"
    /\ row' = [j \in Jobs |-> IF j \in D THEN "LIVE" ELSE row[j]]

\* CREATED by the retry, QUEUED by the goroutine that picked the job, IN_PROGRESS by its
\* describer: all of jobs that are not closed.
RowAtWork(j) ==
    /\ row[j] # "NONE" /\ j \notin closed
    /\ WriteRow(j, "LIVE")

\* The verdict of the describer, of the deleter or of an error on the way to a describer, or a
\* cancel request, over any status and at any time.
RowWritten(j) ==
    /\ row[j] # "NONE"
    /\ \E s \in {"SUCCEEDED", "FAILED", "CANCELED", "OLD_RESOURCE_DELETION"} : WriteRow(j, s)

\* The sweep, of the statuses it asks for.
RowTimedOut(j) ==
    /\ row[j] \in {"LIVE", "OLD_RESOURCE_DELETION"}
    /\ WriteRow(j, "TIMEOUT")

\* Nobody is left who would put the job to work.
Closing ==
    /\ closed \subseteq closed'
    /\ \A j \in closed' : row'[j] \notin {"NONE", "LIVE"}

TableNext ==
    /\ \/ \E D \in SUBSET Jobs : RowsInserted(D)
       \/ \E j \in Jobs : RowAtWork(j) \/ RowWritten(j) \/ RowTimedOut(j)
       \/ UNCHANGED row
    /\ Closing

TableSpec == TableInit /\ [][TableNext]_tableVars
=============================================================================
