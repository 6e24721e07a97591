-------------------------- MODULE FileJobLifecycle --------------------------
(***************************************************************************)
(* What FR-FOP-001 promises of a file job: the states it goes through (the *)
(* table ALLOWED of server/src/services/fileJobs/fileJobState.ts).  A job  *)
(* asks only while it runs, goes on after an answer, and its last state is *)
(* its last.                                                               *)
(***************************************************************************)
CONSTANTS Jobs

VARIABLES state

States == {"queued", "running", "awaiting-decision", "completed", "cancelled", "failed"}

ALLOWED ==
    [queued              |-> {"running"},
     running             |-> {"awaiting-decision", "completed", "failed", "cancelled"},
     awaiting_decision   |-> {"running", "cancelled"},
     ended               |-> {}]

Row(s) ==
    CASE s = "queued"            -> ALLOWED.queued
      [] s = "running"           -> ALLOWED.running
      [] s = "awaiting-decision" -> ALLOWED.awaiting_decision
      [] OTHER                   -> ALLOWED.ended

Init == state = [j \in Jobs |-> "queued"]

\* One turn of the program may take a job further than one row: an answer to its last
\* question lets it run and complete.
Reached(s) == Row(s) \cup UNION {Row(t) : t \in Row(s)}

\* Several jobs may move in one step: a session closes, the server stops.
Next ==
    /\ state' \in [Jobs -> States]
    /\ \A j \in Jobs : state'[j] # state[j] => state'[j] \in Reached(state[j])

Spec == Init /\ [][Next]_state
=============================================================================
