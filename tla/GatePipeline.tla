---------------------------- MODULE GatePipeline -----------------------------
(***************************************************************************)
(* One request through the pure part of the control chain: the gate's      *)
(* evaluation of the plan, its re-evaluation when the plan is executed,    *)
(* and the gateway's run of the plan's calls.  Nothing is concurrent here; *)
(* the module relates what the gate decides to what the other boundaries   *)
(* do with it, for every case the constants give.                          *)
(***************************************************************************)
EXTENDS PolicyGate, TLC

P == INSTANCE Planner

CONSTANTS
    Standings,        \* records: principal (known), agent (status), status (delegation's), now
    Terms,            \* the delegations' terms: every policy column but the status
    Plans(_),         \* the plans proposed under a policy
    Documents,        \* the untrusted documents, None among them
    Credentials(_, _) \* records: approval and key, for a plan under a policy

(* The policies of the cases: terms under a standing.                      *)
CasePolicies == {[status |-> s.status] @@ t : s \in Standings, t \in Terms}

(* (tlapm does not know a literal to be a STRING, hence {"NEW"}.)          *)
ASSUME NoneAssumption == None \notin STRING \cup {"NEW"} \cup Nat
ASSUME StandingsAssumption == \A s \in Standings : s.now \in Nat
ASSUME PoliciesAssumption ==
    \A p \in CasePolicies :
        /\ {p.allowed_action_types, p.allowed_institutions, p.allowed_products} \subseteq Seq(STRING)
        /\ {p.valid_from, p.valid_until} \subseteq Nat
ASSUME DocumentsAssumption == Documents \subseteq Document \cup {None}

(* Beside the planner's plan, if it makes one, there are those of custom   *)
(* scenarios.                                                              *)
ASSUME PlansAssumption ==
    \A p \in CasePolicies :
        /\ P!build_plan_raises(p) => P!build_plan(p) \notin Plans(p)
        /\ \A plan \in Plans(p) : /\ plan.amount \in Nat \cup {None}
                                  /\ IsFiniteSet(plan.required_data)

(* approve writes an expiry with every APPROVED row.                       *)
ASSUME CredentialsAssumption ==
    \A p \in CasePolicies : \A plan \in Plans(p) : \A cred \in Credentials(plan, p) :
        cred.approval # None => /\ cred.approval.status = "APPROVED"
                                /\ cred.approval.expires_at \in Nat

VARIABLES case, phase, first, second, run

vars == <<case, phase, first, second, run>>

(* evaluate() builds its context without approval and key, execute() with. *)
context(c, is_execution) ==
    [principal |-> c.principal, agent |-> c.agent, policy |-> c.policy,
     plan |-> c.plan, plan_hash |-> c.plan, document |-> c.document,
     security |-> scan(c.document, c.policy.allowed_tools), now |-> c.now,
     approval |-> IF is_execution THEN c.approval ELSE None,
     idempotency_key |-> IF is_execution THEN c.key ELSE None,
     is_execution |-> is_execution]

evaluation(c, is_execution) ==
    LET ctx == context(c, is_execution)
    IN  [decision |-> decision(ctx), score |-> risk_score(ctx),
         level |-> risk_level(risk_score(ctx)), failed |-> failed(rule_results(ctx))]

Init == /\ \E s \in Standings, t \in Terms, d \in Documents :
              LET policy == [status |-> s.status] @@ t
              IN  \E plan \in Plans(policy) : \E cred \in Credentials(plan, policy) :
                    case = [principal |-> s.principal, agent |-> s.agent, now |-> s.now,
                            policy |-> policy, plan |-> plan, document |-> d,
                            approval |-> cred.approval, key |-> cred.key]
        /\ phase = "planned"
        /\ first = None /\ second = None /\ run = None

Evaluate == /\ phase = "planned"
            /\ first' = evaluation(case, FALSE)
            /\ phase' = "evaluated"
            /\ UNCHANGED <<case, second, run>>

(* Mutant: the decision itself is stored as the phase.                     *)
ReEvaluateStoringDecision ==
    /\ phase = "evaluated"
    /\ second' = evaluation(case, TRUE)
    /\ phase' = second'.decision
    /\ UNCHANGED <<case, first, run>>

ReEvaluate == /\ phase = "evaluated"
              /\ second' = evaluation(case, TRUE)
              /\ phase' = IF second'.decision = "ALLOW" THEN "executing" ELSE "blocked"
              /\ UNCHANGED <<case, first, run>>

RunTools == /\ phase = "executing"
            /\ run' = execute_plan_tools(case.plan.proposed_tool_calls,
                                         case.policy.allowed_tools)
            /\ phase' = "executed"
            /\ UNCHANGED <<case, first, second>>

Next == Evaluate \/ ReEvaluate \/ RunTools

Spec == Init /\ [][Next]_vars

-----------------------------------------------------------------------------
evaluations == {first, second} \ {None}

(* The type invariant: decisions and risk levels are from their enums, and *)
(* the score is an integer between 0 and 100.                              *)
TypeOK ==
    /\ phase \in {"planned", "evaluated", "executing", "blocked", "executed"}
    /\ \A e \in evaluations : /\ e.decision \in Decisions
                              /\ e.score \in 0..100
                              /\ e.level \in {"LOW", "MEDIUM", "HIGH", "CRITICAL"}

(* The mandate in the words of the documentation, written without the      *)
(* rules: who acts, when, on what, with which tools and data.              *)
WithinMandate(c) ==
    LET p == c.policy
        tools == {c.plan.proposed_tool_calls[i].tool : i \in DOMAIN c.plan.proposed_tool_calls}
    IN  /\ c.principal /\ c.agent = "ACTIVE" /\ p.status = "ACTIVE"
        /\ c.now \in p.valid_from..p.valid_until
        /\ \E i \in DOMAIN p.allowed_action_types : p.allowed_action_types[i] = c.plan.action_type
        /\ \E i \in DOMAIN p.allowed_institutions : p.allowed_institutions[i] = c.plan.institution
        /\ c.plan.amount # None /\ p.amount_limit # None => c.plan.amount <= p.amount_limit
        /\ c.plan.required_data \subseteq p.allowed_data_classes
        /\ tools \subseteq p.allowed_tools

BindingApproval(c) ==
    /\ c.approval # None
    /\ c.approval.approved_plan_hash = c.plan
    /\ c.approval.policy_version = c.policy.version
    /\ c.now <= c.approval.expires_at

(* ALLOW at execution means a plan inside the mandate, an untouched        *)
(* document, a key, and a binding approval where the policy wants one:     *)
(* no category of failing rule slips through _decide.                      *)
AllowMeansWithinMandate ==
    second # None /\ second.decision = "ALLOW" =>
        /\ WithinMandate(case)
        /\ ~any_critical(scan(case.document, case.policy.allowed_tools))
        /\ case.key # None
        /\ case.approval # None => BindingApproval(case)
        /\ needs_approval(case.policy, case.plan) => BindingApproval(case)

(* The gate and the gateway check tools separately, from two allowlists    *)
(* and two schema lookups; a plan the gate allows never has a call blocked *)
(* by the gateway, so an allowed submission is never half done.            *)
GateAgreesWithGateway ==
    run # None =>
        /\ \A i \in DOMAIN run.tool_calls : run.tool_calls[i] = "COMPLETED"
        /\ run.outcome <=> "submit_rate_reduction_request" \in plan_tools(case.plan)

(* An approval lifts REQUIRE_APPROVAL and nothing else: the execution is   *)
(* allowed only if the first evaluation was ALLOW or REQUIRE_APPROVAL, and *)
(* a binding approval with a key turns REQUIRE_APPROVAL into ALLOW.        *)
ApprovalLiftsOnlyTheApprovalRule ==
    second # None =>
        /\ second.decision = "ALLOW" => first.decision \in {"ALLOW", "REQUIRE_APPROVAL"}
        /\ first.decision = "REQUIRE_APPROVAL" /\ BindingApproval(case) /\ case.key # None
              => second.decision = "ALLOW"

(* An approval of another plan or version quarantines the execution        *)
(* whatever else fails (the replay the security lab demonstrates), and a   *)
(* stale approval is never downgraded to a DENY or a new request.          *)
ReplayedApprovalIsQuarantined ==
    second # None /\ case.approval # None /\ ~BindingApproval(case)
        => second.decision = "QUARANTINE"

(* _decide ignores the RISK category; that is safe only because every      *)
(* signal that fails risk_threshold also fails a SECURITY rule.            *)
RiskThresholdIsCovered ==
    \A e \in evaluations : "risk_threshold" \in e.failed => e.decision = "QUARANTINE"

(* The explanatory score stays consistent with the decision: an attempted  *)
(* unauthorized tool or exfiltration never reads LOW, even for the least   *)
(* critical plan and after the human-review discount.                      *)
DangerSignalsNeverLowRisk ==
    LET signals == scan(case.document, case.policy.allowed_tools)
    IN  \A e \in evaluations :
           signals.exfiltration_detected \/ signals.attempted_unauthorized_tools # {}
              => e.level # "LOW"

(* Where a live delegation lists the rate-reduction tools, its own policy  *)
(* never denies the plan that build_plan makes for it, provided that it    *)
(* lists a product; without one the planner fills in null, which the       *)
(* argument schemas refuse, so no such plan ever passes.                   *)
PlannedPlanFitsItsPolicy ==
    /\ first # None
    /\ case.principal /\ case.agent = "ACTIVE"
    /\ case.plan = P!build_plan(case.policy)
    /\ case.plan.action_type = "RATE_REDUCTION_REQUEST"
    /\ DOMAIN TOOL_ARG_SCHEMAS \subseteq case.policy.allowed_tools
    /\ case.policy.purpose
    /\ case.policy.status = "ACTIVE" /\ case.now \in case.policy.valid_from..case.policy.valid_until
    => /\ case.policy.allowed_products # <<>> => first.decision # "DENY"
       /\ case.policy.allowed_products = <<>> => first.decision \in {"DENY", "QUARANTINE"}

=============================================================================
