---- MODULE JobTicket ----
(***************************************************************************)
(* What a client that polls GET /jobs/{id} may rely on, whatever the       *)
(* worker, the broker and the stale-job sweeper do behind the row.         *)
(*                                                                         *)
(* A ticket is the status of an ExtractionJob row together with one bit:   *)
(* live, whether anything in the system still holds the job (a message of  *)
(* the queue, a task execution, the sweeper between its select and its     *)
(* commit).  The status moves only while the ticket is live.               *)
(***************************************************************************)
CONSTANT Jobs

VARIABLES status, live

vars == <<status, live>>

Statuses == {"none", "queued", "running", "complete", "failed"}
Terminal == {"complete", "failed"}

TicketTypeOK ==
    /\ status \in [Jobs -> Statuses]
    /\ live \in [Jobs -> BOOLEAN]

Init ==
    /\ status = [j \in Jobs |-> "none"]
    /\ live = [j \in Jobs |-> FALSE]

\* The row is inserted queued, with or without its message, or (when the
\* dispatch of a PDF upload fails) is already failed when the client sees it.
Create(j) ==
    /\ status[j] = "none"
    /\ \/ status'[j] = "queued" /\ live'[j] \in BOOLEAN
       \/ status'[j] = "failed" /\ ~live'[j]

\* The sweeper selects only jobs that are not finished.
Claim(j) ==
    /\ status[j] \in {"queued", "running"}
    /\ status'[j] = status[j]
    /\ live'[j]

\* Whoever holds the job may move it on, and may let go of it.
Work(j) ==
    /\ live[j]
    /\ status'[j] \in {status[j], "running", "complete", "failed"}
    /\ live'[j] \in BOOLEAN

Keep(j) == status'[j] = status[j] /\ live'[j] = live[j]

\* One step of the system may move several tickets: the sweeper commits all
\* the jobs it selected at once.
Next ==
    /\ \E j \in Jobs : Create(j) \/ Claim(j) \/ Work(j)
    /\ \A j \in Jobs : Create(j) \/ Claim(j) \/ Work(j) \/ Keep(j)
    /\ status' \in [Jobs -> Statuses]
    /\ live' \in [Jobs -> BOOLEAN]

Spec == Init /\ [][Next]_vars

----------------------------------------------------------------------------

\* A job that is finished and that nothing holds any more keeps its status for
\* ever, and nothing takes hold of it again.
SettledForever ==
    [][\A j \in Jobs :
          status[j] \in Terminal /\ ~live[j]
              => status'[j] = status[j] /\ ~live'[j]]_vars

\* No job goes back to the queue, and none is ever forgotten.
NeverRequeued ==
    [][\A j \in Jobs :
          /\ status'[j] = "queued" => status[j] \in {"none", "queued"}
          /\ status'[j] = "none" => status[j] = "none"]_vars
====
