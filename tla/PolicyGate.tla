----------------------------- MODULE PolicyGate ------------------------------
(***************************************************************************)
(* The deterministic policy gate: the 20 rules (app/domain/policy/rules.py)*)
(* the decision by category precedence (engine.py) and the risk score      *)
(* (risk.py).                                                              *)
(*                                                                         *)
(* A context holds what a rule may read: principal (known or not), agent   *)
(* (its status, or None), policy, plan, plan_hash, document (the request's *)
(* untrusted_document), security (scan's signals), now, approval (or       *)
(* None), idempotency_key (or None) and is_execution.  The policy is never *)
(* None here: every caller in src/ has loaded the row it names.            *)
(***************************************************************************)
EXTENDS Integers, Sequences, FiniteSets, Functions, Detectors, ToolGateway

pass_if(ok) == IF ok THEN "PASS" ELSE "FAIL"
fail_if(bad) == IF bad THEN "FAIL" ELSE "PASS"

plan_tools(plan) ==
    {plan.proposed_tool_calls[i].tool : i \in DOMAIN plan.proposed_tool_calls}

-----------------------------------------------------------------------------
(* The rules, under the names and in the order of rules.py.                *)

principal_identity_valid(ctx) == pass_if(ctx.principal)

agent_active_and_registered(ctx) == pass_if(ctx.agent = "ACTIVE")

delegation_active(ctx) ==
    pass_if(/\ ctx.policy.status = "ACTIVE"
            /\ ctx.policy.valid_from <= ctx.now
            /\ ctx.now <= ctx.policy.valid_until)

purpose_match(ctx) ==
    pass_if(/\ ctx.policy.purpose
            /\ ctx.plan.action_type \in Range(ctx.policy.allowed_action_types))

action_type_allowed(ctx) ==
    pass_if(ctx.plan.action_type \in Range(ctx.policy.allowed_action_types))

institution_allowed(ctx) ==
    pass_if(ctx.plan.institution \in Range(ctx.policy.allowed_institutions))

product_allowed(ctx) ==
    IF ctx.policy.allowed_products = <<>> \/ ctx.plan.product = None
    THEN "NOT_APPLICABLE"
    ELSE pass_if(ctx.plan.product \in Range(ctx.policy.allowed_products))

amount_within_limit(ctx) ==
    IF ctx.plan.amount = None \/ ctx.policy.amount_limit = None
    THEN "NOT_APPLICABLE"
    ELSE pass_if(ctx.plan.amount <= ctx.policy.amount_limit)

counterparty_allowed(ctx) ==
    IF ctx.policy.counterparty_mode \in {None, "NOT_APPLICABLE"}
    THEN "NOT_APPLICABLE"
    ELSE fail_if(/\ ctx.plan.counterparty = "NEW"
                 /\ ctx.policy.counterparty_mode = "EXISTING_ONLY")

data_access_allowed(ctx) ==
    pass_if(ctx.plan.required_data \subseteq ctx.policy.allowed_data_classes)

tool_allowed(ctx) == pass_if(plan_tools(ctx.plan) \subseteq ctx.policy.allowed_tools)

(* Mutant: that a schema exists is taken for arguments that satisfy it.    *)
tool_arguments_have_a_schema(ctx) ==
    pass_if(plan_tools(ctx.plan) \subseteq DOMAIN TOOL_ARG_SCHEMAS)

tool_arguments_schema_valid(ctx) ==
    pass_if(\A i \in DOMAIN ctx.plan.proposed_tool_calls :
               arguments_valid(ctx.plan.proposed_tool_calls[i]))

untrusted_instruction_boundary_intact(ctx) ==
    fail_if(ctx.security.attempted_unauthorized_tools # {})

prompt_injection_not_detected(ctx) == fail_if(ctx.security.injection_detected)

sensitive_data_exfiltration_not_detected(ctx) ==
    fail_if(ctx.security.exfiltration_detected)

plan_matches_user_intent(ctx) ==
    pass_if(plan_tools(ctx.plan) \subseteq ctx.policy.allowed_tools)

risk_threshold(ctx) == fail_if(any_critical(ctx.security))

needs_approval(policy, plan) ==
    /\ policy.submit_requires_human
    /\ "submit_rate_reduction_request" \in plan_tools(plan)

(* Mutant: the approval is compared by version alone.                      *)
binds_any_plan(approval, plan_hash, policy) == approval.policy_version = policy.version

binds(approval, plan_hash, policy) ==
    /\ approval.approved_plan_hash = plan_hash
    /\ approval.policy_version = policy.version

human_approval_requirement(ctx) ==
    fail_if(/\ needs_approval(ctx.policy, ctx.plan)
            /\ ~(/\ ctx.approval # None
                 /\ ctx.approval.status = "APPROVED"
                 /\ binds(ctx.approval, ctx.plan_hash, ctx.policy)))

(* Mutant: the expiry is not looked at.                                    *)
approval_binds_for_ever(ctx) ==
    IF ctx.approval = None
    THEN "NOT_APPLICABLE"
    ELSE pass_if(binds(ctx.approval, ctx.plan_hash, ctx.policy))

approval_binds_current_plan(ctx) ==
    IF ctx.approval = None
    THEN "NOT_APPLICABLE"
    ELSE pass_if(/\ binds(ctx.approval, ctx.plan_hash, ctx.policy)
                 /\ \/ ctx.approval.expires_at = None
                    \/ ctx.now <= ctx.approval.expires_at)

execution_idempotency_key_valid(ctx) ==
    IF ~ctx.is_execution
    THEN "NOT_APPLICABLE"
    ELSE fail_if(ctx.idempotency_key = None)

-----------------------------------------------------------------------------
(* RULES: the outcome of every rule, and the category each is listed with. *)

Identity == {"principal_identity_valid", "agent_active_and_registered", "delegation_active"}
Scope == {"purpose_match", "action_type_allowed", "institution_allowed", "product_allowed",
          "amount_within_limit", "counterparty_allowed", "data_access_allowed",
          "tool_allowed", "tool_arguments_schema_valid", "plan_matches_user_intent"}
(* Mutants: the exfiltration rule filed with the risk rule; an integrity   *)
(* and an idempotency rule in a category that _decide does not look at.    *)
Security_without_exfiltration ==
    {"untrusted_instruction_boundary_intact", "prompt_injection_not_detected"}
Integrity_unfiled == {}
Idempotency_unfiled == {}

Security == {"untrusted_instruction_boundary_intact", "prompt_injection_not_detected",
             "sensitive_data_exfiltration_not_detected"}
Risk == {"risk_threshold"}
Approval == {"human_approval_requirement"}
Integrity == {"approval_binds_current_plan"}
Idempotency == {"execution_idempotency_key_valid"}

rule_results(ctx) ==
    [principal_identity_valid |-> principal_identity_valid(ctx),
     agent_active_and_registered |-> agent_active_and_registered(ctx),
     delegation_active |-> delegation_active(ctx),
     purpose_match |-> purpose_match(ctx),
     action_type_allowed |-> action_type_allowed(ctx),
     institution_allowed |-> institution_allowed(ctx),
     product_allowed |-> product_allowed(ctx),
     amount_within_limit |-> amount_within_limit(ctx),
     counterparty_allowed |-> counterparty_allowed(ctx),
     data_access_allowed |-> data_access_allowed(ctx),
     tool_allowed |-> tool_allowed(ctx),
     tool_arguments_schema_valid |-> tool_arguments_schema_valid(ctx),
     untrusted_instruction_boundary_intact |-> untrusted_instruction_boundary_intact(ctx),
     prompt_injection_not_detected |-> prompt_injection_not_detected(ctx),
     sensitive_data_exfiltration_not_detected |->
        sensitive_data_exfiltration_not_detected(ctx),
     plan_matches_user_intent |-> plan_matches_user_intent(ctx),
     risk_threshold |-> risk_threshold(ctx),
     human_approval_requirement |-> human_approval_requirement(ctx),
     approval_binds_current_plan |-> approval_binds_current_plan(ctx),
     execution_idempotency_key_valid |-> execution_idempotency_key_valid(ctx)]

failed(results) == {r \in DOMAIN results : results[r] = "FAIL"}

Decisions == {"QUARANTINE", "DENY", "REQUIRE_APPROVAL", "ALLOW"}

(* Mutant: a missing approval is asked for before the mandate is checked.  *)
decide_approval_first(bad) ==
    IF bad \cap (Security \cup Integrity) # {} THEN "QUARANTINE"
    ELSE IF bad \cap Approval # {} THEN "REQUIRE_APPROVAL"
    ELSE IF bad \cap (Identity \cup Scope \cup Idempotency) # {} THEN "DENY"
    ELSE "ALLOW"

(* _decide: QUARANTINE > DENY > REQUIRE_APPROVAL > ALLOW; Risk is ignored. *)
decide(bad) ==
    IF bad \cap (Security \cup Integrity) # {} THEN "QUARANTINE"
    ELSE IF bad \cap (Identity \cup Scope \cup Idempotency) # {} THEN "DENY"
    ELSE IF bad \cap Approval # {} THEN "REQUIRE_APPROVAL"
    ELSE "ALLOW"

decision(ctx) == decide(failed(rule_results(ctx)))

-----------------------------------------------------------------------------
(* The explanatory risk score.                                             *)

at_most(bound, n) == IF n < bound THEN n ELSE bound
clamp(n) == IF n < 0 THEN 0 ELSE at_most(100, n)

CRITICALITY_BASE == [LOW |-> 10, MEDIUM |-> 15, HIGH |-> 22, CRITICAL |-> 30]

points(condition, n) == IF condition THEN n ELSE 0

raw_score(ctx, approval_required) ==
      (IF ctx.plan.estimated_risk \in DOMAIN CRITICALITY_BASE
       THEN CRITICALITY_BASE[ctx.plan.estimated_risk] ELSE 15)
    + (IF ctx.plan.amount = None THEN 0 ELSE at_most(20, ctx.plan.amount \div 100000))
    + points(ctx.plan.reversibility = "IRREVERSIBLE", 15)
    + points(ctx.plan.reversibility = "PARTIALLY_REVERSIBLE", 7)
    + points(ctx.plan.counterparty = "NEW", 10)
    + at_most(10, 2 * Cardinality(ctx.plan.required_data))
    + points(ctx.document # None, 5)
    + points(ctx.security.injection_detected, 5)
    + points(\/ ctx.security.exfiltration_detected
             \/ ctx.security.attempted_unauthorized_tools # {}, 20)
    - points(approval_required, 10)

(* The approval rule fails whenever the decision is REQUIRE_APPROVAL, so   *)
(* the engine's disjunction is the rule's failure.                         *)
approval_required(ctx) == human_approval_requirement(ctx) = "FAIL"

risk_score(ctx) == clamp(raw_score(ctx, approval_required(ctx)))

(* Mutant: the thresholds are shifted by one level.                        *)
risk_level_shifted(score) ==
    IF score <= 49 THEN "LOW" ELSE IF score <= 74 THEN "MEDIUM" ELSE "HIGH"

risk_level(score) ==
    IF score <= 24 THEN "LOW"
    ELSE IF score <= 49 THEN "MEDIUM"
    ELSE IF score <= 74 THEN "HIGH"
    ELSE "CRITICAL"

=============================================================================
