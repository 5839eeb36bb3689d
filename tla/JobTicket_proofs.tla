---- MODULE JobTicket_proofs ----
(* What every implementation of the ticket gives a polling client. *)
EXTENDS JobTicket, TLAPS

\* There are no jobs.
LEMMA TicketTypeInit == Init => TicketTypeOK
BY DEF Init, TicketTypeOK, Statuses

\* A step keeps the ticket's types: Next says so of the new values.
THEOREM TicketTypeCorrect == Spec => []TicketTypeOK
<1>1. TicketTypeOK /\ [Next]_vars => TicketTypeOK'
  BY DEF Next, vars, TicketTypeOK
<1> QED BY TicketTypeInit, <1>1, PTL DEF Spec

\* A finished job that no message, execution or sweep refers to is settled: none
\* of the ways a ticket moves applies to it (GET /jobs/{id}, extraction.py:42-81).
THEOREM FinishedAndReleasedIsFinal == Spec => SettledForever
<1>1. ASSUME [Next]_vars, NEW j \in Jobs, status[j] \in Terminal, ~live[j]
      PROVE  status'[j] = status[j] /\ ~live'[j]
  BY <1>1 DEF Next, vars, Create, Claim, Work, Keep, Terminal
<1>2. [Next]_vars => [\A j \in Jobs : status[j] \in Terminal /\ ~live[j]
                          => status'[j] = status[j] /\ ~live'[j]]_vars
  BY <1>1
<1> QED BY <1>2, PTL DEF Spec, SettledForever

\* No job goes back to the queue once it was taken from it.
THEOREM NoJobRequeued == Spec => NeverRequeued
<1>1. ASSUME [Next]_vars, NEW j \in Jobs
      PROVE  /\ status'[j] = "queued" => status[j] \in {"none", "queued"}
             /\ status'[j] = "none" => status[j] = "none"
  BY <1>1 DEF Next, vars, Create, Claim, Work, Keep
<1>2. [Next]_vars => [\A j \in Jobs :
                         /\ status'[j] = "queued" => status[j] \in {"none", "queued"}
                         /\ status'[j] = "none" => status[j] = "none"]_vars
  BY <1>1
<1> QED BY <1>2, PTL DEF Spec, NeverRequeued
====
