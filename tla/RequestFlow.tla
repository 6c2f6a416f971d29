----------------------------- MODULE RequestFlow -----------------------------
(***************************************************************************)
(* What the lifecycle promises to the client of one request: the state     *)
(* machine in the header of app/domain/lifecycle.py, with the action that  *)
(* the adapter carries out.  phase[r] is the state a client reads, and     *)
(* submitted[r] how often the financial action was submitted.              *)
(***************************************************************************)
EXTENDS Naturals

CONSTANTS Requests, None

VARIABLES phase, submitted

flow == <<phase, submitted>>

Init == /\ phase = [r \in Requests |-> None]
        /\ submitted = [r \in Requests |-> 0]

move(r, from, to) ==
    /\ phase[r] \in from
    /\ phase' = [phase EXCEPT ![r] = to]
    /\ UNCHANGED submitted

Open(r) == move(r, {None}, "DRAFT")

MakePlan(r) == move(r, {"DRAFT", "PLAN_CREATED"}, "PLAN_CREATED")

Judge(r) ==
    \/ \E s \in {"DENIED", "QUARANTINED", "APPROVAL_REQUIRED", "ALLOWED"} :
          move(r, {"PLAN_CREATED"}, s)
    \/ \E s \in {"DENIED", "QUARANTINED"} : move(r, {"APPROVAL_REQUIRED"}, s)

Review(r) ==
    \E s \in {"APPROVED", "REJECTED"} : move(r, {"APPROVAL_REQUIRED"}, s)

BeginExecution(r) ==
    \E s \in {"EXECUTING", "DENIED", "QUARANTINED"} : move(r, {"ALLOWED", "APPROVED"}, s)

Submit(r) ==
    /\ phase[r] = "EXECUTING" /\ submitted[r] = 0
    /\ submitted' = [submitted EXCEPT ![r] = 1]
    /\ UNCHANGED phase

EndExecution(r) ==
    move(r, {"EXECUTING"}, IF submitted[r] = 1 THEN "EXECUTED" ELSE "FAILED_SAFE")

IssueReceipt(r) ==
    move(r, {"DENIED", "QUARANTINED", "EXECUTED", "FAILED_SAFE"}, "RECEIPT_ISSUED")

Next ==
    \E r \in Requests :
        \/ Open(r) \/ MakePlan(r) \/ Judge(r) \/ Review(r)
        \/ BeginExecution(r) \/ Submit(r) \/ EndExecution(r) \/ IssueReceipt(r)

Spec == Init /\ [][Next]_flow

=============================================================================
