------------------------------ MODULE Scenarios ------------------------------
(***************************************************************************)
(* The security lab's scenario runner (app/domain/scenarios.py) beside     *)
(* operators that work on its request: they find the id in the operator's  *)
(* queue.  A scenario runs several operations of the lifecycle in one      *)
(* session.  What it still refers to is not read again: the request row,   *)
(* so that its state is the scenario's own, and in approval-replay the     *)
(* plan row that was tampered with.  Policies, approvals and other plans   *)
(* are released by the operation that loaded them and read again.          *)
(*                                                                         *)
(* session is the one scenario of the model: next is its next operation by *)
(* number, state and plan what it holds, decision what it will report, and *)
(* repeated whether its execution found its key taken by another one and   *)
(* was answered with that one's receipt.                                   *)
(***************************************************************************)
EXTENDS Lifecycle

CONSTANTS
    Runner,         \* the worker that runs the scenario
    ScenarioKey,    \* its idempotency key, named after the request
    ScenarioPolicy, \* [Scripts -> policy id]
    InjectedDocument

VARIABLE session

Scripts == {"rate-reduction-success", "indirect-prompt-injection", "scope-exceeded-transfer",
            "approval-replay"}

ASSUME RunnerAssumption == Runner \in Workers /\ ScenarioKey \in Keys
(* scope-exceeded-transfer runs under the row of _ensure_transfer_policy.  *)
ASSUME ScenarioPolicyAssumption ==
    /\ ScenarioPolicy \in [Scripts -> Policies]
    /\ ScenarioPolicy["scope-exceeded-transfer"] \in ScopePolicies
(* INJECTION_DOC                                                           *)
ASSUME InjectionAssumption ==
    InjectedDocument \in Documents \ {None} /\ InjectedDocument.injection

operations(s) ==
    CASE s = "rate-reduction-success" -> <<"plan", "evaluate", "approve", "execute">>
      [] s = "indirect-prompt-injection" -> <<"plan", "evaluate">>
      [] s = "scope-exceeded-transfer" -> <<"custom_plan", "evaluate">>
      [] s = "approval-replay" -> <<"plan", "evaluate", "approve", "swap", "execute">>

attacks == {"indirect-prompt-injection", "approval-replay"}

NoSession == [script |-> None, request |-> None, at |-> "none", next |-> 1,
              state |-> None, plan |-> None, decision |-> None, repeated |-> FALSE,
              no_execution |-> None]

ScenarioInit == Init /\ session = NoSession

next_operation == operations(session.script)[session.next]

-----------------------------------------------------------------------------
(* The scenario creates its request and reads the row back.                *)
start_scenario(s, r) ==
    /\ session.at = "none"
    /\ create_request(Runner, r, ScenarioPolicy[s],
                      IF s = "indirect-prompt-injection" THEN InjectedDocument ELSE None)
    /\ session' = [session EXCEPT !.script = s, !.request = r, !.at = "refresh"]

refresh_request ==
    /\ session.at = "refresh"
    /\ session' = [session EXCEPT !.state = db[session.request].state, !.at = "created"]
    /\ UNCHANGED vars

finish_create ==
    /\ session.at = "created"
    /\ received_event(Runner)
    /\ session' = [session EXCEPT !.at = "ready"]

-----------------------------------------------------------------------------
(* An operation of the lifecycle, called on the row the session holds: its *)
(* guard sees that row's state, not the table's.                           *)
begin_operation ==
    LET op == next_operation
        key == IF op = "execute" THEN ScenarioKey ELSE None
    IN  /\ session.at = "ready"
        /\ op # "swap"
        /\ IF op = "execute" \/ session.state \in legal_states(op)
           THEN /\ session' = [session EXCEPT !.at = "running"]
                /\ loc' = [loc EXCEPT ![Runner] =
                     [Idle EXCEPT !.op = op, !.request = session.request, !.key = key,
                        !.state = session.state,
                        !.active_at_start =
                            policy_status[db[session.request].policy] = "ACTIVE"]]
                /\ goto(Runner, IF op = "execute" THEN "read_key" ELSE "read_policy")
           ELSE /\ session' = [session EXCEPT !.at = "raised"]
                /\ UNCHANGED <<pc, loc>>
        /\ UNCHANGED <<db, world>>

(* The state the row object has after the next statement.                  *)
state_after ==
    LET d == loc[Runner].decision IN
    CASE pc[Runner] = "persist_plan" -> "PLAN_CREATED"
      [] pc[Runner] = "set_decided" -> decided_state(d)
      [] pc[Runner] = "grant" -> "APPROVED"
      [] pc[Runner] = "set_executing" -> "EXECUTING"
      [] pc[Runner] = "store_execution" -> executed_state(loc[Runner].outcome)
      [] pc[Runner] = "set_blocked" -> IF d = "QUARANTINE" THEN "QUARANTINED" ELSE "DENIED"
      [] pc[Runner] = "set_issued" -> "RECEIPT_ISSUED"
      [] OTHER -> session.state

(* The receipt stored under the scenario's key, which an operator may have *)
(* sent as well.                                                           *)
stored_response == db[session.request].idempotency[ScenarioKey]

key_found == pc[Runner] = "read_key" /\ stored_response # None

(* A handler raises at the plan query, at an illegal state and where it    *)
(* inserts a key that is taken.                                            *)
raises ==
    \/ pc[Runner] = "read_plan"
    \/ pc[Runner] = "read_key" /\ stored_response = None
    \/ pc[Runner] = "store_key" /\ stored_response # None

after_statement ==
    IF pc'[Runner] # "idle" THEN "running"
    ELSE IF raises THEN "raised"
    ELSE IF session.next = Len(operations(session.script)) THEN "report" ELSE "ready"

(* safety_decision of a receipt, that was built with its status.           *)
receipt_decision(status) ==
    CASE status = "QUARANTINED" -> "QUARANTINE"
      [] status = "BLOCKED" -> "DENY"
      [] status = "APPROVAL_REQUIRED" -> "REQUIRE_APPROVAL"
      [] status \in {"COMPLETED", "FAILED_SAFE"} -> "ALLOW"

(* What is reported: the evaluation's decision, but in approval-replay the *)
(* decision of the receipt that execute has returned.                      *)
decision_after ==
    IF pc[Runner] = "decide"
         /\ (loc[Runner].op = "evaluate" \/ session.script = "approval-replay")
    THEN loc'[Runner].decision
    ELSE IF key_found /\ session.script = "approval-replay"
    THEN receipt_decision(stored_response.status)
    ELSE session.decision

continue_operation ==
    /\ session.at = "running"
    /\ session.plan = None \/ pc[Runner] # "read_plan"
    /\ step(Runner)
    /\ session' = [session EXCEPT
                     !.at = after_statement,
                     !.next = IF after_statement = "ready" THEN @ + 1 ELSE @,
                     !.state = state_after,
                     !.decision = decision_after,
                     !.repeated = key_found]

(* _load_plan returns the row object the session holds, as it is there.    *)
read_held_plan ==
    /\ session.at = "running"
    /\ pc[Runner] = "read_plan"
    /\ session.plan # None
    /\ IF Len(db[session.request].plans) = 1
       THEN /\ loc' = [loc EXCEPT ![Runner].plan = session.plan]
            /\ goto(Runner, after_plan(loc[Runner].op))
            /\ UNCHANGED session
       ELSE finish(Runner) /\ session' = [session EXCEPT !.at = "raised"]
    /\ UNCHANGED <<db, world>>

-----------------------------------------------------------------------------
(* The swap of approval-replay: query, then commit.                        *)

select_plan ==
    LET rows == db[session.request].plans IN
    /\ session.at = "ready"
    /\ next_operation = "swap"
    /\ session' = IF Len(rows) = 1
                  THEN [session EXCEPT !.at = "tamper", !.plan = rows[1]]
                  ELSE [session EXCEPT !.at = "raised"]
    /\ UNCHANGED vars

commit_swap ==
    /\ session.at = "tamper"
    /\ db' = [db EXCEPT ![session.request].plans[1] = Changed(session.plan)]
    /\ session' = [session EXCEPT !.at = "ready", !.next = @ + 1,
                                  !.plan = Changed(session.plan)]
    /\ UNCHANGED <<world, pc, loc>>

(* _result                                                                 *)
report ==
    /\ session.at = "report"
    /\ session' = [session EXCEPT
                     !.at = "reported",
                     !.no_execution = db[session.request].executions["SUBMITTED"] = 0]
    /\ UNCHANGED vars

crash_scenario ==
    /\ crash(Runner)
    /\ session' = [session EXCEPT !.at = "raised"]

-----------------------------------------------------------------------------
(* The operators, with sessions of their own; they execute without a key   *)
(* or under any, the scenario's among them.  Their crashes are those of    *)
(* Lifecycle's runs.                                                       *)
operator(w) ==
    \/ \E r \in Requests, op \in Operations \ {"custom_plan"}, key \in Keys \cup {None} :
          read_request(w, r, op, key)
    \/ step(w)

ScenarioNext ==
    \/ \E s \in Scripts, r \in Requests : start_scenario(s, r)
    \/ refresh_request \/ finish_create \/ begin_operation \/ continue_operation
    \/ read_held_plan \/ select_plan \/ commit_swap \/ report \/ crash_scenario
    \/ \E w \in Workers \ {Runner} : operator(w) /\ UNCHANGED session
    \/ (tick \/ \E p \in Policies : revoke(p)) /\ UNCHANGED session

ScenarioSpec == ScenarioInit /\ [][ScenarioNext]_<<vars, session>>

-----------------------------------------------------------------------------
(* The session keeps its types, beside those of the tables and handlers.   *)
ScenarioTypeOK ==
    /\ TypeOK
    /\ session \in [script : Scripts \cup {None}, request : Requests \cup {None},
                    at : {"none", "refresh", "created", "ready", "running", "tamper",
                          "report", "reported", "raised"},
                    next : 1 .. 5, state : States \cup {None}, plan : ActionPlans \cup {None},
                    decision : Decisions \cup {None}, repeated : BOOLEAN,
                    no_execution : BOOLEAN \cup {None}]

tampered(plan) == plan.goal = "changed"

(* An injected document never leads to an execution, and an attack that is *)
(* reported was quarantined, unless someone approved the tampered plan     *)
(* itself, or an execution by someone else, under the scenario's key, was  *)
(* stored before: then a replay reports what that one's receipt says.      *)
AttacksEndInQuarantine ==
    session.at = "reported" /\ session.script \in attacks =>
        \/ /\ session.decision = "QUARANTINE"
           /\ session.script = "indirect-prompt-injection" => session.no_execution
        \/ /\ session.script = "approval-replay"
           /\ \E j \in DOMAIN db[session.request].approved :
                 tampered(db[session.request].approved[j].approved_plan_hash)
        \/ /\ session.script = "approval-replay"
           /\ session.repeated /\ stored_response # None
           /\ session.decision = receipt_decision(stored_response.status)

(* People approve only what the gate has sent to them: an APPROVED row is  *)
(* for a plan of which an evaluation asked for approval, or for that plan  *)
(* tampered with, which may slip under an approval that is being granted.  *)
ApprovedPlanWasReviewed ==
    \A r \in Requests : \A j \in DOMAIN db[r].approved :
        \E e \in db[r].evaluations :
            /\ e.decision = "REQUIRE_APPROVAL"
            /\ db[r].approved[j].approved_plan_hash \in {e.plan_hash, Changed(e.plan_hash)}

=============================================================================
