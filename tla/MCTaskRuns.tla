----------------------------- MODULE MCTaskRuns -----------------------------
(* TaskRuns with two schedules, a run of the first and a requested run. *)
EXTENDS TaskRuns

CONSTANTS r1, r2, s1, s2, q1

TwoRuns == {r1, r2}
TwoSchedules == {s1, s2}
OneRequest == {q1}
FirstThenSecond == <<s1, s2>>
Origins == [r \in TwoRuns |-> IF r = r1 THEN s1 ELSE None]
Frequencies == [s \in TwoSchedules |-> 2]

Quiet ==
    /\ job = "none" /\ loading[q1] = None
    /\ taskRow /\ schedules = Schedules /\ ~crossed

\* No load and no migration is under way once a run was sent or the second one created; one
\* result at a time is on its way, and the second run is an ordinary one: delivered once, not
\* canceled, not revived.
Sequential ==
    /\ status[r2] # "NONE" \/ stored # {} => Quiet
    /\ Cardinality(working) <= 1
    /\ Cardinality({r \in Runs : reports[r] # <<>>}) <= 1
    /\ \A r \in Runs : Len(reports[r]) <= 1
    /\ r2 \notin again \cup offBooks \cup cancels

\* Steps that leave these behaviours are not taken.
StaysSequential == Sequential'
=============================================================================
