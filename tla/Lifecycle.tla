------------------------------ MODULE Lifecycle ------------------------------
(***************************************************************************)
(* The action-request lifecycle (app/domain/lifecycle.py) as it runs: each *)
(* endpoint is a synchronous handler with a database session of its own,   *)
(* executed by a worker thread, and a handler commits several times.  An   *)
(* action below is one database statement or one commit of one handler, so *)
(* that other handlers, a revocation, the clock or a crash may come        *)
(* between any two of them.                                                *)
(*                                                                         *)
(* db[r] is everything the tables hold about request r; loc[w] is what     *)
(* the handler of worker w has loaded, and pc[w] the statement it is at.   *)
(* submissions[r] and answered[r] are outside the database: the            *)
(* submissions the adapter has answered, and the receipts that execute     *)
(* returned to its callers under each key.                                 *)
(***************************************************************************)
EXTENDS PolicyGate

P == INSTANCE Planner

CONSTANTS
    Requests, Workers, Keys,
    Policies,      \* ids of delegation policy versions
    Delegations,   \* [Policies -> row], each row as it was created
    Documents,     \* untrusted documents a request may carry, None among them
    CustomPlan,    \* the plan the scope-exceeded scenario proposes
    ScopePolicies, \* the delegations that scenario runs under
    ApprovalTTL,   \* APPROVAL_TTL, in ticks of the clock
    MaxNow,        \* bound: the clock stops here
    Budget,        \* bound: how many calls of each operation arrive
    MayCrash       \* whether handlers may die between two commits

Operations == {"plan", "custom_plan", "evaluate", "approve", "reject", "execute"}

DelegationStatuses == {"ACTIVE", "EXPIRED", "REVOKED"}

(* A row of delegation_policies, with what the planner and the rules read. *)
DelegationPolicy ==
    [status : DelegationStatuses, version : Nat, purpose : BOOLEAN,
     allowed_action_types : Seq(STRING), allowed_institutions : Seq(STRING),
     allowed_products : Seq(STRING), allowed_data_classes : SUBSET STRING,
     allowed_tools : SUBSET STRING, amount_limit : Nat \cup {None},
     counterparty_mode : STRING \cup {None}, submit_requires_human : BOOLEAN,
     valid_from : Nat, valid_until : Nat]

ASSUME WorkersAssumption == IsFiniteSet(Workers)
ASSUME TTLAssumption == ApprovalTTL \in Nat /\ MaxNow \in Nat
ASSUME BudgetAssumption == Budget \in [Operations -> Nat]
ASSUME DelegationAssumption == Delegations \in [Policies -> DelegationPolicy]
ASSUME DocumentAssumption == None \in Documents /\ Documents \subseteq Document \cup {None}
ASSUME PlanAssumption == /\ {"goal", "proposed_tool_calls"} \subseteq DOMAIN CustomPlan
                         /\ IsFiniteSet(DOMAIN CustomPlan.proposed_tool_calls)
(* The row of _ensure_transfer_policy has no approval rules.               *)
ASSUME ScopeAssumption ==
    \A p \in ScopePolicies \cap Policies : ~Delegations[p].submit_requires_human

VARIABLES db, policy_status, now, submissions, answered, budget, pc, loc

vars == <<db, policy_status, now, submissions, answered, budget, pc, loc>>

world == <<policy_status, now, submissions, answered, budget>>

-----------------------------------------------------------------------------
(* The rows.                                                               *)

States == {"DRAFT", "PLAN_CREATED", "APPROVAL_REQUIRED", "APPROVED", "REJECTED", "ALLOWED",
           "DENIED", "QUARANTINED", "EXECUTING", "EXECUTED", "FAILED_SAFE", "RECEIPT_ISSUED"}

ASSUME NoneAssumption ==
    None \notin Keys \cup Requests \cup Policies \cup Nat \cup States \cup DelegationStatuses
                  \cup BOOLEAN

EventTypes == {"REQUEST_RECEIVED", "PLAN_CREATED", "POLICY_EVALUATED", "APPROVAL_REQUESTED",
               "APPROVAL_GRANTED", "APPROVAL_REJECTED", "TOOL_CALL_STARTED",
               "TOOL_CALL_COMPLETED", "TOOL_CALL_BLOCKED", "INCIDENT_QUARANTINED",
               "RECEIPT_ISSUED"}

ReceiptStatuses == {"QUARANTINED", "BLOCKED", "FAILED_SAFE", "COMPLETED", "APPROVAL_REQUIRED"}

(* No row yet: state None.  Rows that nothing reads back are counted.      *)
NoRows ==
    [state |-> None, policy |-> None, document |-> None,
     plans |-> <<>>, evaluations |-> {}, approved |-> <<>>, rejected |-> 0,
     tool_calls |-> [s \in {"COMPLETED", "BLOCKED"} |-> 0],
     executions |-> [s \in {"SUBMITTED", "FAILED_SAFE", "NO_EXECUTION"} |-> 0],
     incidents |-> 0, events |-> [e \in EventTypes |-> 0],
     receipts |-> [s \in ReceiptStatuses |-> 0],
     idempotency |-> [k \in Keys |-> None]]

Idle == [op |-> None, request |-> None, key |-> None, state |-> None,
         policy_status |-> None, plan |-> None, approval |-> None, decision |-> None,
         decided_at |-> None, active_at_start |-> None, outcome |-> None,
         final_event |-> None]

Init ==
    /\ db = [r \in Requests |-> NoRows]
    /\ policy_status = [p \in Policies |-> Delegations[p].status]
    /\ now = 0
    /\ submissions = [r \in Requests |-> <<>>]
    /\ answered = [r \in Requests |-> [k \in Keys |-> {}]]
    /\ budget = Budget
    /\ pc = [w \in Workers |-> "idle"]
    /\ loc = [w \in Workers |-> Idle]

-----------------------------------------------------------------------------
(* What a handler sees.                                                    *)

req(w) == loc[w].request
policy_id(w) == db[req(w)].policy
document(w) == db[req(w)].document
(* Mutant: the delegation is taken as it was created.                      *)
created_policy(w) == Delegations[policy_id(w)]

loaded_policy(w) == [Delegations[policy_id(w)] EXCEPT !.status = loc[w].policy_status]
signals(w) == scan(document(w), Delegations[policy_id(w)].allowed_tools)

(* evaluate() leaves approval and key at their defaults.                   *)
context(w) ==
    [principal |-> TRUE, agent |-> "ACTIVE", policy |-> loaded_policy(w),
     plan |-> loc[w].plan, plan_hash |-> loc[w].plan, document |-> document(w),
     security |-> signals(w), now |-> now, approval |-> loc[w].approval,
     idempotency_key |-> loc[w].key, is_execution |-> loc[w].op = "execute"]

blocks(decision_) == decision_ \in {"QUARANTINE", "DENY"}

-----------------------------------------------------------------------------
(* How a handler moves on.                                                 *)

goto(w, label) == pc' = [pc EXCEPT ![w] = label]

(* The handler returns or raises; its session is closed.                   *)
finish(w) == pc' = [pc EXCEPT ![w] = "idle"] /\ loc' = [loc EXCEPT ![w] = Idle]

(* request.state = s; db.commit(): SQLAlchemy sends the column only when   *)
(* it differs from the value this session last loaded or wrote, and then   *)
(* without looking at what the row holds by now.                           *)
state_written(w, s) == IF loc[w].state = s THEN db[req(w)].state ELSE s

write_state(w, s) ==
    /\ db' = [db EXCEPT ![req(w)].state = state_written(w, s)]
    /\ loc' = [loc EXCEPT ![w].state = s]

append_event(w, type) == db' = [db EXCEPT ![req(w)].events[type] = @ + 1]

-----------------------------------------------------------------------------
(* create_request                                                          *)

create_request(w, r, p, d) ==
    /\ pc[w] = "idle"
    /\ db[r].state = None
    /\ db' = [db EXCEPT ![r] = [NoRows EXCEPT !.state = "DRAFT", !.policy = p, !.document = d]]
    /\ loc' = [loc EXCEPT ![w] = [Idle EXCEPT !.op = "create", !.request = r,
                                              !.state = "DRAFT"]]
    /\ goto(w, "received_event")
    /\ UNCHANGED world

(* append_event(REQUEST_RECEIVED); the handler returns.                    *)
received_event(w) ==
    /\ pc[w] = "received_event"
    /\ append_event(w, "REQUEST_RECEIVED")
    /\ finish(w)
    /\ UNCHANGED world

-----------------------------------------------------------------------------
(* A call arrives and its handler reads the request row (_get_request),    *)
(* then checks the state it read.  A refused call changes nothing.         *)

(* Mutants: execute is legal again once the receipt is out; approve as     *)
(* soon as there is a plan; plan while a human is looking at one.          *)
legal_states_reexecution(op) ==
    CASE op = "plan" -> {"DRAFT", "PLAN_CREATED"}
      [] op = "custom_plan" -> States
      [] op = "evaluate" -> {"PLAN_CREATED", "POLICY_EVALUATED", "APPROVAL_REQUIRED"}
      [] op \in {"approve", "reject"} -> {"APPROVAL_REQUIRED"}
      [] op = "execute" -> {"ALLOWED", "APPROVED", "RECEIPT_ISSUED"}

legal_states_early_approval(op) ==
    CASE op = "plan" -> {"DRAFT", "PLAN_CREATED"}
      [] op = "custom_plan" -> States
      [] op = "evaluate" -> {"PLAN_CREATED", "POLICY_EVALUATED", "APPROVAL_REQUIRED"}
      [] op \in {"approve", "reject"} -> {"PLAN_CREATED", "APPROVAL_REQUIRED"}
      [] op = "execute" -> {"ALLOWED", "APPROVED"}

legal_states_late_plan(op) ==
    CASE op = "plan" -> {"DRAFT", "PLAN_CREATED", "APPROVAL_REQUIRED"}
      [] op = "custom_plan" -> States
      [] op = "evaluate" -> {"PLAN_CREATED", "POLICY_EVALUATED", "APPROVAL_REQUIRED"}
      [] op \in {"approve", "reject"} -> {"APPROVAL_REQUIRED"}
      [] op = "execute" -> {"ALLOWED", "APPROVED"}

legal_states(op) ==
    CASE op = "plan" -> {"DRAFT", "PLAN_CREATED"}
      [] op = "custom_plan" -> States
      [] op = "evaluate" -> {"PLAN_CREATED", "POLICY_EVALUATED", "APPROVAL_REQUIRED"}
      [] op \in {"approve", "reject"} -> {"APPROVAL_REQUIRED"}
      [] op = "execute" -> {"ALLOWED", "APPROVED"}

no_handler_on(r) == \A w \in Workers : req(w) # r

(* store_custom_plan looks at no state; its one caller, the scope-exceeded *)
(* scenario, has created the request just before in the same thread.       *)
called_by_scenario(r) ==
    /\ db[r].policy \in ScopePolicies
    /\ db[r].state = "DRAFT"
    /\ no_handler_on(r)

read_request(w, r, op, key) ==
    /\ pc[w] = "idle"
    /\ budget[op] > 0
    /\ db[r].state # None
    /\ op = "custom_plan" => called_by_scenario(r)
    /\ key # None => op = "execute"
    /\ key # None \/ db[r].state \in legal_states(op)
    /\ loc' = [loc EXCEPT ![w] =
                 [Idle EXCEPT !.op = op, !.request = r, !.key = key, !.state = db[r].state,
                              !.active_at_start = policy_status[db[r].policy] = "ACTIVE"]]
    /\ goto(w, IF key # None THEN "read_key" ELSE "read_policy")
    /\ budget' = [budget EXCEPT ![op] = @ - 1]
    /\ UNCHANGED <<db, policy_status, now, submissions, answered>>

(* execute: a key seen before returns the stored receipt; otherwise the    *)
(* state read before decides.                                              *)
read_key(w) ==
    LET stored == db[req(w)].idempotency[loc[w].key] IN
    /\ pc[w] = "read_key"
    /\ IF stored # None
       THEN /\ answered' = [answered EXCEPT ![req(w)][loc[w].key] = @ \cup {stored}]
            /\ finish(w)
       ELSE /\ IF loc[w].state \in legal_states("execute")
               THEN goto(w, "read_policy") /\ UNCHANGED loc
               ELSE finish(w)
            /\ UNCHANGED answered
    /\ UNCHANGED <<db, policy_status, now, submissions, budget>>

(* _load_actors                                                            *)
read_policy(w) ==
    /\ pc[w] = "read_policy"
    /\ loc' = [loc EXCEPT ![w].policy_status = policy_status[policy_id(w)]]
    /\ goto(w, "read_plan")
    /\ UNCHANGED <<db, world>>

(* The plan query (scalar_one_or_none) raises on two rows; _load_plan      *)
(* refuses when there is none, _persist_plan goes on with existing = None. *)
(* The planner, before _persist_plan's query, may raise as well.           *)
after_plan(op) ==
    CASE op \in {"plan", "custom_plan"} -> "persist_plan"
      [] op = "evaluate" -> "decide"
      [] op = "approve" -> "grant"
      [] op = "reject" -> "refuse"
      [] op = "execute" -> "read_approval"

read_plan(w) ==
    LET rows == db[req(w)].plans
        refused == \/ Len(rows) > 1
                   \/ Len(rows) = 0 /\ loc[w].op \notin {"plan", "custom_plan"}
                   \/ loc[w].op = "plan" /\ P!build_plan_raises(loaded_policy(w))
    IN  /\ pc[w] = "read_plan"
        /\ IF refused
           THEN finish(w)
           ELSE /\ loc' = [loc EXCEPT ![w].plan = IF rows = <<>> THEN None ELSE rows[1]]
                /\ goto(w, after_plan(loc[w].op))
        /\ UNCHANGED <<db, world>>

-----------------------------------------------------------------------------
(* _persist_plan: insert when the query saw no row, else update that row   *)
(* where it differs; the state goes with the same commit.                  *)

proposed_plan(w) ==
    IF loc[w].op = "custom_plan" THEN CustomPlan ELSE P!build_plan(loaded_policy(w))

(* Mutant: a new row is inserted whether or not the query saw one.         *)
persist_plan_inserting(w) ==
    /\ pc[w] = "persist_plan"
    /\ db' = [db EXCEPT ![req(w)].plans = Append(@, proposed_plan(w)),
                        ![req(w)].state = state_written(w, "PLAN_CREATED")]
    /\ goto(w, "plan_event")
    /\ UNCHANGED <<world, loc>>

persist_plan(w) ==
    LET rows == db[req(w)].plans
        plan == proposed_plan(w)
        stored == IF loc[w].plan = None THEN Append(rows, plan)
                  ELSE IF loc[w].plan = plan THEN rows
                  ELSE [rows EXCEPT ![1] = plan]
    IN  /\ pc[w] = "persist_plan"
        /\ db' = [db EXCEPT ![req(w)].plans = stored,
                            ![req(w)].state = state_written(w, "PLAN_CREATED")]
        /\ goto(w, "plan_event")
        /\ UNCHANGED <<world, loc>>

plan_event(w) ==
    /\ pc[w] = "plan_event"
    /\ append_event(w, "PLAN_CREATED")
    /\ finish(w)
    /\ UNCHANGED world

-----------------------------------------------------------------------------
(* The evaluation, of evaluate() and again of execute().                   *)

(* The latest APPROVED row; rejections are another status of that table.   *)
read_approval(w) ==
    LET rows == db[req(w)].approved IN
    /\ pc[w] = "read_approval"
    /\ loc' = [loc EXCEPT ![w].approval = IF rows = <<>> THEN None ELSE rows[Len(rows)]]
    /\ goto(w, "decide")
    /\ UNCHANGED <<db, world>>

(* run_policy and _store_evaluation: nothing is read between them.         *)
decide_and_store(w) ==
    LET d == decision(context(w)) IN
    /\ pc[w] = "decide"
    /\ db' = [db EXCEPT ![req(w)].evaluations =
                 @ \cup {[decision |-> d, plan_hash |-> loc[w].plan]}]
    /\ loc' = [loc EXCEPT ![w].decision = d, ![w].decided_at = now]
    /\ goto(w, IF loc[w].op = "evaluate" THEN "evaluated_event"
               ELSE IF d = "ALLOW" THEN "set_executing" ELSE "set_blocked")
    /\ UNCHANGED world

evaluated_event(w) ==
    /\ pc[w] = "evaluated_event"
    /\ append_event(w, "POLICY_EVALUATED")
    /\ goto(w, "set_decided")
    /\ UNCHANGED <<world, loc>>

(* Mutant: the decision itself is written as the state.                    *)
decided_state_verbatim(d) == d

decided_state(d) ==
    CASE d = "QUARANTINE" -> "QUARANTINED"
      [] d = "DENY" -> "DENIED"
      [] d = "REQUIRE_APPROVAL" -> "APPROVAL_REQUIRED"
      [] d = "ALLOW" -> "ALLOWED"

(* The commit of evaluate()'s outcome; after ALLOW the handler returns.    *)
set_decided(w) ==
    LET d == loc[w].decision IN
    /\ pc[w] = "set_decided"
    /\ IF d = "ALLOW"
       THEN /\ db' = [db EXCEPT ![req(w)].state = state_written(w, "ALLOWED")]
            /\ finish(w)
       ELSE /\ write_state(w, decided_state(d))
            /\ goto(w, IF blocks(d) THEN "blocked_calls" ELSE "approval_event")
    /\ UNCHANGED world

approval_event(w) ==
    /\ pc[w] = "approval_event"
    /\ append_event(w, "APPROVAL_REQUESTED")
    /\ finish(w)
    /\ UNCHANGED world

-----------------------------------------------------------------------------
(* approve and reject: the row and the state in one commit, then the event.*)
(* An agent's own approval is refused before anything is written.          *)

grant(w) ==
    /\ pc[w] = "grant"
    /\ db' = [db EXCEPT
                 ![req(w)].approved =
                    Append(@, [status |-> "APPROVED", approved_plan_hash |-> loc[w].plan,
                               policy_version |-> Delegations[policy_id(w)].version,
                               expires_at |-> now + ApprovalTTL]),
                 ![req(w)].state = state_written(w, "APPROVED")]
    /\ goto(w, "granted_event")
    /\ UNCHANGED <<world, loc>>

granted_event(w) ==
    /\ pc[w] = "granted_event"
    /\ append_event(w, "APPROVAL_GRANTED")
    /\ finish(w)
    /\ UNCHANGED world

(* Mutants: the refusal's row is lost; its state is not written.           *)
refuse_without_row(w) ==
    /\ pc[w] = "refuse"
    /\ db' = [db EXCEPT ![req(w)].state = state_written(w, "REJECTED")]
    /\ goto(w, "refused_event")
    /\ UNCHANGED <<world, loc>>

refuse_without_state(w) ==
    /\ pc[w] = "refuse"
    /\ db' = [db EXCEPT ![req(w)].rejected = @ + 1]
    /\ goto(w, "refused_event")
    /\ UNCHANGED <<world, loc>>

refuse(w) ==
    /\ pc[w] = "refuse"
    /\ db' = [db EXCEPT ![req(w)].rejected = @ + 1,
                        ![req(w)].state = state_written(w, "REJECTED")]
    /\ goto(w, "refused_event")
    /\ UNCHANGED <<world, loc>>

refused_event(w) ==
    /\ pc[w] = "refused_event"
    /\ append_event(w, "APPROVAL_REJECTED")
    /\ finish(w)
    /\ UNCHANGED world

-----------------------------------------------------------------------------
(* execute, after an ALLOW.                                                *)

set_executing(w) ==
    /\ pc[w] = "set_executing"
    /\ write_state(w, "EXECUTING")
    /\ goto(w, "started_event")
    /\ UNCHANGED world

started_event(w) ==
    /\ pc[w] = "started_event"
    /\ append_event(w, "TOOL_CALL_STARTED")
    /\ goto(w, "run_tools")
    /\ UNCHANGED <<world, loc>>

gateway_run(w) ==
    execute_plan_tools(loc[w].plan.proposed_tool_calls, loaded_policy(w).allowed_tools)

(* Mutant: the gateway reads the plan's row again.                         *)
submitted_plan_reread(w) == db[req(w)].plans[1]

submitted_plan(w) == loc[w].plan

(* The adapters answer before any row is written.                          *)
run_tools(w) ==
    /\ pc[w] = "run_tools"
    /\ loc' = [loc EXCEPT ![w].outcome = gateway_run(w).outcome]
    /\ submissions' =
         IF gateway_run(w).outcome
         THEN [submissions EXCEPT ![req(w)] =
                 Append(@, [plan_hash |-> submitted_plan(w), decided_at |-> loc[w].decided_at,
                            active_at_start |-> loc[w].active_at_start])]
         ELSE submissions
    /\ goto(w, "store_calls")
    /\ UNCHANGED <<db, policy_status, now, answered, budget>>

count_calls(w, status) ==
    Cardinality({i \in DOMAIN gateway_run(w).tool_calls : gateway_run(w).tool_calls[i] = status})

(* The gateway's commit of its ToolCall rows.                              *)
store_calls(w) ==
    /\ pc[w] = "store_calls"
    /\ db' = [db EXCEPT ![req(w)].tool_calls = [s \in DOMAIN @ |-> @[s] + count_calls(w, s)]]
    /\ goto(w, "store_execution")
    /\ UNCHANGED <<world, loc>>

execution_status(outcome) == IF outcome THEN "SUBMITTED" ELSE "FAILED_SAFE"
executed_state(outcome) == IF outcome THEN "EXECUTED" ELSE "FAILED_SAFE"

(* The Execution row and the state in one commit.                          *)
store_execution(w) ==
    LET outcome == loc[w].outcome IN
    /\ pc[w] = "store_execution"
    /\ db' = [db EXCEPT ![req(w)].executions[execution_status(outcome)] = @ + 1,
                        ![req(w)].state = state_written(w, executed_state(outcome))]
    /\ loc' = [loc EXCEPT ![w].state = executed_state(outcome)]
    /\ goto(w, "completed_event")
    /\ UNCHANGED world

completed_event(w) ==
    /\ pc[w] = "completed_event"
    /\ append_event(w, "TOOL_CALL_COMPLETED")
    /\ goto(w, "receipt_event")
    /\ UNCHANGED <<world, loc>>

-----------------------------------------------------------------------------
(* execute and evaluate, when the decision does not allow: _handle_blocked.*)

(* Mutant: the handler raises on a refusal once its state is stored.       *)
set_blocked_raising(w) ==
    /\ pc[w] = "set_blocked"
    /\ db' = [db EXCEPT ![req(w)].state =
                 state_written(w, IF loc[w].decision = "QUARANTINE" THEN "QUARANTINED"
                                  ELSE "DENIED")]
    /\ finish(w)
    /\ UNCHANGED world

set_blocked(w) ==
    /\ pc[w] = "set_blocked"
    /\ write_state(w, IF loc[w].decision = "QUARANTINE" THEN "QUARANTINED" ELSE "DENIED")
    /\ goto(w, "blocked_calls")
    /\ UNCHANGED world

quarantined(w) == loc[w].decision = "QUARANTINE"

(* Mutant: without an attempted tool there is no incident either.          *)
blocked_calls_or_receipt(w) ==
    LET attempted == signals(w).attempted_unauthorized_tools IN
    /\ pc[w] = "blocked_calls"
    /\ db' = [db EXCEPT ![req(w)].tool_calls["BLOCKED"] = @ + Cardinality(attempted)]
    /\ goto(w, IF attempted # {} THEN "blocked_event" ELSE "receipt_event")
    /\ UNCHANGED <<world, loc>>

blocked_calls(w) ==
    LET attempted == signals(w).attempted_unauthorized_tools IN
    /\ pc[w] = "blocked_calls"
    /\ db' = [db EXCEPT ![req(w)].tool_calls["BLOCKED"] = @ + Cardinality(attempted)]
    /\ goto(w, IF attempted # {} THEN "blocked_event"
               ELSE IF quarantined(w) THEN "incident" ELSE "receipt_event")
    /\ UNCHANGED <<world, loc>>

blocked_event(w) ==
    /\ pc[w] = "blocked_event"
    /\ append_event(w, "TOOL_CALL_BLOCKED")
    /\ goto(w, IF quarantined(w) THEN "incident" ELSE "receipt_event")
    /\ UNCHANGED <<world, loc>>

(* Mutant: the incident is filed without its event.                        *)
incident_unannounced(w) ==
    /\ pc[w] = "incident"
    /\ db' = [db EXCEPT ![req(w)].incidents = @ + 1]
    /\ goto(w, "receipt_event")
    /\ UNCHANGED <<world, loc>>

incident(w) ==
    /\ pc[w] = "incident"
    /\ db' = [db EXCEPT ![req(w)].incidents = @ + 1]
    /\ goto(w, "incident_event")
    /\ UNCHANGED <<world, loc>>

incident_event(w) ==
    /\ pc[w] = "incident_event"
    /\ append_event(w, "INCIDENT_QUARANTINED")
    /\ goto(w, "receipt_event")
    /\ UNCHANGED <<world, loc>>

no_execution(w) ==
    /\ pc[w] = "no_execution"
    /\ db' = [db EXCEPT ![req(w)].executions["NO_EXECUTION"] = @ + 1]
    /\ goto(w, "store_receipt")
    /\ UNCHANGED <<world, loc>>

-----------------------------------------------------------------------------
(* The receipt, on both paths: its event, its row, the final state.        *)

executes(w) == loc[w].op = "execute" /\ loc[w].decision = "ALLOW"

(* The receipt will carry this event's hash, for which its number stands.  *)
receipt_event(w) ==
    /\ pc[w] = "receipt_event"
    /\ append_event(w, "RECEIPT_ISSUED")
    /\ loc' = [loc EXCEPT ![w].final_event = db[req(w)].events["RECEIPT_ISSUED"] + 1]
    /\ goto(w, IF executes(w) THEN "store_receipt" ELSE "no_execution")
    /\ UNCHANGED world

(* _status_and_headline; outcome is None where no execution is passed.     *)
receipt_status(d, outcome) ==
    IF d = "QUARANTINE" THEN "QUARANTINED"
    ELSE IF d = "DENY" THEN "BLOCKED"
    ELSE IF outcome = None THEN "APPROVAL_REQUIRED"
    ELSE IF outcome THEN "COMPLETED" ELSE "FAILED_SAFE"

receipt(w) == [status |-> receipt_status(loc[w].decision, loc[w].outcome),
               final_event |-> loc[w].final_event]

store_receipt(w) ==
    /\ pc[w] = "store_receipt"
    /\ db' = [db EXCEPT ![req(w)].receipts[receipt(w).status] = @ + 1]
    /\ goto(w, "set_issued")
    /\ UNCHANGED <<world, loc>>

answer(w) ==
    answered' = IF loc[w].key = None THEN answered
                ELSE [answered EXCEPT ![req(w)][loc[w].key] = @ \cup {receipt(w)}]

(* The last commit; the handler returns unless a key is to be stored.      *)
set_issued(w) ==
    /\ pc[w] = "set_issued"
    /\ IF executes(w) /\ loc[w].key # None
       THEN /\ write_state(w, "RECEIPT_ISSUED")
            /\ goto(w, "store_key")
            /\ UNCHANGED answered
       ELSE /\ db' = [db EXCEPT ![req(w)].state = state_written(w, "RECEIPT_ISSUED")]
            /\ answer(w)
            /\ finish(w)
    /\ UNCHANGED <<policy_status, now, submissions, budget>>

(* Mutant: the response is upserted.                                       *)
store_key_upserting(w) ==
    /\ pc[w] = "store_key"
    /\ db' = [db EXCEPT ![req(w)].idempotency[loc[w].key] = receipt(w)]
    /\ answer(w)
    /\ finish(w)
    /\ UNCHANGED <<policy_status, now, submissions, budget>>

(* (key, endpoint) is the table's primary key: a second insert raises.     *)
store_key(w) ==
    /\ pc[w] = "store_key"
    /\ IF db[req(w)].idempotency[loc[w].key] = None
       THEN /\ db' = [db EXCEPT ![req(w)].idempotency[loc[w].key] = receipt(w)]
            /\ answer(w)
       ELSE UNCHANGED <<db, answered>>
    /\ finish(w)
    /\ UNCHANGED <<policy_status, now, submissions, budget>>

-----------------------------------------------------------------------------
(* The rest of the world.                                                  *)

(* revoke_delegation, for the latest version of a delegation.              *)
revoke(p) ==
    /\ policy_status[p] = "ACTIVE"
    /\ policy_status' = [policy_status EXCEPT ![p] = "REVOKED"]
    /\ UNCHANGED <<db, now, submissions, answered, budget, pc, loc>>

tick ==
    /\ now < MaxNow
    /\ now' = now + 1
    /\ UNCHANGED <<db, policy_status, submissions, answered, budget, pc, loc>>

(* The approval-replay scenario rewrites goal and hash of the plan it had  *)
(* approved, whatever others do to that request meanwhile.                 *)
swap_plan(r) ==
    /\ db[r].state # None
    /\ db[r].approved # <<>>
    /\ db[r].plans # <<>>
    /\ db[r].plans[1].goal # "changed"
    /\ db' = [db EXCEPT ![r].plans[1].goal = "changed"]
    /\ UNCHANGED <<world, pc, loc>>

(* The thread or the process dies; what was committed stays.               *)
crash(w) ==
    /\ MayCrash
    /\ pc[w] # "idle"
    /\ finish(w)
    /\ UNCHANGED <<db, world>>

-----------------------------------------------------------------------------
arrive(w) ==
    \/ \E r \in Requests, p \in Policies, d \in Documents : create_request(w, r, p, d)
    \/ \E r \in Requests, op \in Operations, key \in Keys \cup {None} :
          read_request(w, r, op, key)

(* One step of the handler that worker w is running.                       *)
step(w) ==
    \/ received_event(w) \/ read_key(w) \/ read_policy(w) \/ read_plan(w)
    \/ persist_plan(w) \/ plan_event(w)
    \/ read_approval(w) \/ decide_and_store(w) \/ evaluated_event(w)
    \/ set_decided(w) \/ approval_event(w)
    \/ grant(w) \/ granted_event(w) \/ refuse(w) \/ refused_event(w)
    \/ set_executing(w) \/ started_event(w) \/ run_tools(w) \/ store_calls(w)
    \/ store_execution(w) \/ completed_event(w)
    \/ set_blocked(w) \/ blocked_calls(w) \/ blocked_event(w) \/ incident(w)
    \/ incident_event(w) \/ no_execution(w)
    \/ receipt_event(w) \/ store_receipt(w) \/ set_issued(w) \/ store_key(w)

Next ==
    \/ \E w \in Workers : arrive(w) \/ step(w) \/ crash(w)
    \/ \E p \in Policies : revoke(p)
    \/ tick
    \/ \E r \in Requests : swap_plan(r)

Spec == Init /\ [][Next]_vars

(* The server's threads run every handler they have started.               *)
FairSpec == Spec /\ \A w \in Workers : WF_vars(step(w))

-----------------------------------------------------------------------------
(* Types.                                                                  *)

Changed(plan) == [plan EXCEPT !.goal = "changed"]

Proposals == {CustomPlan} \cup {P!build_plan(Delegations[p]) : p \in Policies}

ActionPlans == Proposals \cup {Changed(plan) : plan \in Proposals}

Approvals == [status : {"APPROVED"}, approved_plan_hash : ActionPlans,
              policy_version : Nat, expires_at : Nat]

ASSUME NoRowAssumption == None \notin Approvals \cup ActionPlans

Submissions == [plan_hash : ActionPlans, decided_at : Nat, active_at_start : BOOLEAN]

Receipts == [status : ReceiptStatuses, final_event : Nat \cup {None}]

RequestRows ==
    [state : States \cup {None}, policy : Policies \cup {None}, document : Documents \cup {None},
     plans : Seq(ActionPlans),
     evaluations : SUBSET [decision : Decisions, plan_hash : ActionPlans],
     approved : Seq(Approvals), rejected : Nat,
     tool_calls : [{"COMPLETED", "BLOCKED"} -> Nat],
     executions : [{"SUBMITTED", "FAILED_SAFE", "NO_EXECUTION"} -> Nat],
     incidents : Nat, events : [EventTypes -> Nat], receipts : [ReceiptStatuses -> Nat],
     idempotency : [Keys -> Receipts \cup {None}]]

Locals ==
    [op : Operations \cup {"create", None}, request : Requests \cup {None},
     key : Keys \cup {None}, state : States \cup {None},
     policy_status : DelegationStatuses \cup {None}, plan : ActionPlans \cup {None},
     approval : Approvals \cup {None}, decision : Decisions \cup {None},
     decided_at : Nat \cup {None}, active_at_start : BOOLEAN \cup {None},
     outcome : BOOLEAN \cup {None}, final_event : Nat \cup {None}]

Labels == {"idle", "received_event", "read_key", "read_policy", "read_plan", "persist_plan",
           "plan_event", "read_approval", "decide", "evaluated_event", "set_decided",
           "approval_event", "grant", "granted_event", "refuse", "refused_event",
           "set_executing", "started_event", "run_tools", "store_calls", "store_execution",
           "completed_event", "set_blocked", "blocked_calls", "blocked_event", "incident",
           "incident_event", "no_execution", "receipt_event", "store_receipt", "set_issued",
           "store_key"}

(* The tables, the handlers and what the outside saw keep their types.     *)
TypeOK ==
    /\ db \in [Requests -> RequestRows]
    /\ policy_status \in [Policies -> DelegationStatuses]
    /\ now \in Nat
    /\ submissions \in [Requests -> Seq(Submissions)]
    /\ answered \in [Requests -> [Keys -> SUBSET Receipts]]
    /\ budget \in [Operations -> Nat]
    /\ pc \in [Workers -> Labels]
    /\ loc \in [Workers -> Locals]

-----------------------------------------------------------------------------
(* What holds however the handlers interleave and wherever they crash.     *)

delegation(r) == Delegations[db[r].policy]

BindsTo(approval, s, r) ==
    /\ approval.approved_plan_hash = s.plan_hash
    /\ approval.policy_version = delegation(r).version
    /\ s.decided_at <= approval.expires_at

(* Every submission the adapter answered was decided under a stored ALLOW  *)
(* for that very plan and, where the delegation wants a human, under an    *)
(* APPROVED row for that plan and version, not expired at the decision.    *)
SubmittedUnderApproval ==
    \A r \in Requests : \A i \in DOMAIN submissions[r] :
        LET s == submissions[r][i] IN
        /\ [decision |-> "ALLOW", plan_hash |-> s.plan_hash] \in db[r].evaluations
        /\ needs_approval(delegation(r), s.plan_hash) =>
              \E j \in DOMAIN db[r].approved : BindsTo(db[r].approved[j], s, r)

(* A revocation binds every execution that starts after it: no submission  *)
(* comes from a call that arrived when the delegation was not ACTIVE.      *)
RevokedDelegationStartsNoSubmission ==
    \A r \in Requests : \A i \in DOMAIN submissions[r] : submissions[r][i].active_at_start

(* Evidence is never ahead of what happened, whatever is lost in between:  *)
(* a COMPLETED receipt has its SUBMITTED execution, that its tool calls    *)
(* and its submission; a blocking receipt its NO_EXECUTION row, and a      *)
(* QUARANTINED one its incident; every receipt its RECEIPT_ISSUED event.   *)
EvidenceNeverExceedsEffect ==
    \A r \in Requests :
        LET d == db[r] IN
        /\ d.receipts["COMPLETED"] <= d.executions["SUBMITTED"]
        /\ d.executions["SUBMITTED"] <= d.tool_calls["COMPLETED"]
        /\ d.executions["SUBMITTED"] <= Len(submissions[r])
        /\ d.receipts["FAILED_SAFE"] <= d.executions["FAILED_SAFE"]
        /\ d.receipts["BLOCKED"] + d.receipts["QUARANTINED"] <= d.executions["NO_EXECUTION"]
        /\ d.receipts["QUARANTINED"] <= d.incidents
        /\ d.receipts["COMPLETED"] + d.receipts["FAILED_SAFE"] + d.receipts["BLOCKED"]
             + d.receipts["QUARANTINED"] <= d.events["RECEIPT_ISSUED"]

(* The re-evaluation in execute never ends in REQUIRE_APPROVAL, for which  *)
(* _handle_blocked would deny the request and yet issue a receipt that     *)
(* asks for an approval.                                                   *)
ExecutionNeverAsksForApproval ==
    \A r \in Requests : db[r].receipts["APPROVAL_REQUIRED"] = 0

(* The state a request shows has its evidence in the tables already, even  *)
(* when another handler's stale write put it there.                        *)
StateBackedByEvidence ==
    \A r \in Requests :
        LET d == db[r] IN
        /\ d.state = "APPROVAL_REQUIRED" => \E e \in d.evaluations : e.decision = "REQUIRE_APPROVAL"
        /\ d.state = "APPROVED" => d.approved # <<>>
        /\ d.state = "REJECTED" => d.rejected > 0
        /\ d.state = "EXECUTING" => \E e \in d.evaluations : e.decision = "ALLOW"
        /\ d.state = "EXECUTED" => d.executions["SUBMITTED"] > 0
        /\ d.state = "FAILED_SAFE" => d.executions["FAILED_SAFE"] > 0
        /\ d.state = "RECEIPT_ISSUED" => \E s \in ReceiptStatuses : d.receipts[s] > 0

(* A handler executes on a principal's behalf as AuthorisedExecution says: *)
(* its call lasts from the read of the request until the adapter has       *)
(* answered, and it is authorised from the stored ALLOW on.                *)
needs_human(p, plan) == needs_approval(Delegations[p], plan)

authorised(w) == pc[w] \in {"set_executing", "started_event", "run_tools"}

calling(w) ==
    \/ authorised(w)
    \/ pc[w] \in {"read_key", "read_approval"}
    \/ pc[w] \in {"read_policy", "read_plan"} /\ loc[w].op = "execute"
    \/ pc[w] = "decide" /\ loc[w].op # "evaluate"

running_call(w) ==
    IF calling(w)
    THEN [request |-> req(w), admitted |-> loc[w].active_at_start,
          authorised |-> authorised(w), plan |-> IF authorised(w) THEN loc[w].plan ELSE None]
    ELSE [request |-> None, admitted |-> FALSE, authorised |-> FALSE, plan |-> None]

in_force == [p \in Policies |-> policy_status[p] = "ACTIVE"]

policy_of == [r \in Requests |-> db[r].policy]

grants_of(row) ==
    {[plan |-> row.approved[j].approved_plan_hash, until |-> row.approved[j].expires_at] :
        j \in DOMAIN row.approved}

granted == [r \in Requests |-> grants_of(db[r])]

running_calls == [w \in Workers |-> running_call(w)]

submitted == [r \in Requests |->
                [i \in DOMAIN submissions[r] |-> submissions[r][i].plan_hash]]

Execution == INSTANCE AuthorisedExecution WITH
    Callers <- Workers, Plans <- ActionPlans, NeedsHuman <- needs_human, TTL <- ApprovalTTL,
    in_force <- in_force, policy <- policy_of, grants <- granted,
    running <- running_calls, submitted <- submitted

(* However handlers interleave, re-plan, revoke and crash, the lifecycle   *)
(* implements AuthorisedExecution.                                         *)
ExecutesAsAuthorised == Execution!Spec

(* A stored response is never replaced: of two executions that race under  *)
(* one key, each with a receipt of its own, the key keeps the first's.     *)
StoredResponseIsFinal ==
    [][\A r \in Requests, k \in Keys :
         db[r].idempotency[k] # None => db'[r].idempotency[k] = db[r].idempotency[k]]_vars

-----------------------------------------------------------------------------
(* What holds when the calls on a request come one after the other; with   *)
(* two handlers at once each of the first three is lost.                   *)

(* The financial action happens once.                                      *)
AtMostOneSubmission == \A r \in Requests : Len(submissions[r]) <= 1

(* A rejected request is never executed.                                   *)
RejectedNeverSubmitted ==
    \A r \in Requests : db[r].rejected > 0 => submissions[r] = <<>>

(* A request has one plan; with two rows every later load of it raises.    *)
AtMostOnePlanRow == \A r \in Requests : Len(db[r].plans) <= 1

(* The documented state machine: handled one call at a time, the lifecycle *)
(* implements RequestFlow, crashes included.                               *)
Flow == INSTANCE RequestFlow WITH
          phase <- [r \in Requests |-> db[r].state],
          submitted <- [r \in Requests |-> Len(submissions[r])]

FollowsDocumentedFlow == Flow!Spec

(* A key's answers agree with each other and with the stored response.     *)
OneAnswerPerKey ==
    \A r \in Requests, k \in Keys :
        /\ Cardinality(answered[r][k]) <= 1
        /\ db[r].idempotency[k] # None => answered[r][k] \subseteq {db[r].idempotency[k]}

-----------------------------------------------------------------------------
(* What needs handlers that run to their end.                              *)

(* With no handler running, the trace has an event for every approval,     *)
(* rejection, incident and receipt.                                        *)
TrailCompleteAtRest ==
    \A r \in Requests :
        no_handler_on(r) =>
            LET d == db[r] IN
            /\ d.events["APPROVAL_GRANTED"] = Len(d.approved)
            /\ d.events["APPROVAL_REJECTED"] = d.rejected
            /\ d.events["INCIDENT_QUARANTINED"] = d.incidents
            /\ d.events["TOOL_CALL_COMPLETED"]
                 = d.executions["SUBMITTED"] + d.executions["FAILED_SAFE"]
            /\ d.events["RECEIPT_ISSUED"]
                 = d.receipts["COMPLETED"] + d.receipts["FAILED_SAFE"] + d.receipts["BLOCKED"]
                     + d.receipts["QUARANTINED"] + d.receipts["APPROVAL_REQUIRED"]

(* A request that was blocked, or whose execution was started, gets its    *)
(* receipt and rests in no state between.                                  *)
OutcomeGetsReceipt ==
    \A r \in Requests :
        db[r].state \in {"DENIED", "QUARANTINED", "EXECUTING", "EXECUTED", "FAILED_SAFE"}
          ~> db[r].state = "RECEIPT_ISSUED"

=============================================================================
