-------------------------- MODULE PolicyGateProofs ---------------------------
(***************************************************************************)
(* What an ALLOW of the policy gate implies, for every context: the facts  *)
(* the lifecycle's safety rests on.                                        *)
(***************************************************************************)
EXTENDS PolicyGate, TLAPS

(* The gate's outcome is always one of the four decisions.                 *)
LEMMA DecisionType == ASSUME NEW ctx PROVE decision(ctx) \in Decisions
  BY DEF decision, decide, Decisions

(* The rules by what their failure leads to.                               *)
Quarantining(ctx) ==
    \/ untrusted_instruction_boundary_intact(ctx) = "FAIL"
    \/ prompt_injection_not_detected(ctx) = "FAIL"
    \/ sensitive_data_exfiltration_not_detected(ctx) = "FAIL"
    \/ approval_binds_current_plan(ctx) = "FAIL"

Denying(ctx) ==
    \/ principal_identity_valid(ctx) = "FAIL"
    \/ agent_active_and_registered(ctx) = "FAIL"
    \/ delegation_active(ctx) = "FAIL"
    \/ purpose_match(ctx) = "FAIL"
    \/ action_type_allowed(ctx) = "FAIL"
    \/ institution_allowed(ctx) = "FAIL"
    \/ product_allowed(ctx) = "FAIL"
    \/ amount_within_limit(ctx) = "FAIL"
    \/ counterparty_allowed(ctx) = "FAIL"
    \/ data_access_allowed(ctx) = "FAIL"
    \/ tool_allowed(ctx) = "FAIL"
    \/ tool_arguments_schema_valid(ctx) = "FAIL"
    \/ plan_matches_user_intent(ctx) = "FAIL"
    \/ execution_idempotency_key_valid(ctx) = "FAIL"

(* _decide in terms of the rules: every rule but risk_threshold has a part *)
(* in the decision, each with the effect of its category.                  *)
LEMMA DecisionByRules ==
    ASSUME NEW ctx
    PROVE  decision(ctx) =
             IF Quarantining(ctx) THEN "QUARANTINE"
             ELSE IF Denying(ctx) THEN "DENY"
             ELSE IF human_approval_requirement(ctx) = "FAIL" THEN "REQUIRE_APPROVAL"
             ELSE "ALLOW"
<1> DEFINE results == rule_results(ctx)
           Hits(S) == failed(results) \cap S # {}
<1>1. Identity \cup Scope \cup Security \cup Approval \cup Integrity \cup Idempotency
        \subseteq DOMAIN results
  BY DEF rule_results, Identity, Scope, Security, Approval, Integrity, Idempotency
<1>2. ASSUME NEW S \in SUBSET DOMAIN results
      PROVE  Hits(S) <=> \E r \in S : results[r] = "FAIL"
  BY DEF failed
<1>3. Hits(Security \cup Integrity) <=> Quarantining(ctx)
  <2>1. Hits(Security \cup Integrity) <=> \E r \in Security \cup Integrity : results[r] = "FAIL"
    BY <1>1, <1>2
  <2>2. QED
    BY <2>1 DEF Security, Integrity, rule_results, Quarantining
<1>4. Hits(Identity \cup Scope \cup Idempotency) <=> Denying(ctx)
  <2>1. Hits(Identity \cup Scope \cup Idempotency)
          <=> \E r \in Identity \cup Scope \cup Idempotency : results[r] = "FAIL"
    BY <1>1, <1>2
  <2>2. QED
    BY <2>1 DEF Identity, Scope, Idempotency, rule_results, Denying
<1>5. Hits(Approval) <=> human_approval_requirement(ctx) = "FAIL"
  <2>1. Hits(Approval) <=> \E r \in Approval : results[r] = "FAIL"
    BY <1>1, <1>2
  <2>2. QED
    BY <2>1 DEF Approval, rule_results
<1>6. decision(ctx) = IF Hits(Security \cup Integrity) THEN "QUARANTINE"
                      ELSE IF Hits(Identity \cup Scope \cup Idempotency) THEN "DENY"
                      ELSE IF Hits(Approval) THEN "REQUIRE_APPROVAL" ELSE "ALLOW"
  BY DEF decision, decide
<1> HIDE DEF Hits
<1>7. QED
  BY <1>3, <1>4, <1>5, <1>6

(* ALLOW means that the delegation is active and in its validity at the    *)
(* time of the decision.                                                   *)
LEMMA AllowMeansActive ==
    ASSUME NEW ctx, decision(ctx) = "ALLOW"
    PROVE  /\ ctx.policy.status = "ACTIVE"
           /\ ctx.policy.valid_from <= ctx.now /\ ctx.now <= ctx.policy.valid_until
  BY DecisionByRules DEF Denying, delegation_active, pass_if

(* ALLOW means that the delegation is active and in its validity, and, for *)
(* a plan that needs a human, that the latest approval is an APPROVED row  *)
(* that names this plan and version and has not expired.                   *)
THEOREM AllowMeansBindingApproval ==
    ASSUME NEW ctx, decision(ctx) = "ALLOW"
    PROVE  /\ ctx.policy.status = "ACTIVE"
           /\ ctx.policy.valid_from <= ctx.now /\ ctx.now <= ctx.policy.valid_until
           /\ needs_approval(ctx.policy, ctx.plan) =>
                 /\ ctx.approval # None
                 /\ ctx.approval.status = "APPROVED"
                 /\ binds(ctx.approval, ctx.plan_hash, ctx.policy)
                 /\ ctx.approval.expires_at = None \/ ctx.now <= ctx.approval.expires_at
<1>1. ASSUME needs_approval(ctx.policy, ctx.plan)
      PROVE  /\ ctx.approval # None
             /\ ctx.approval.status = "APPROVED"
             /\ binds(ctx.approval, ctx.plan_hash, ctx.policy)
             /\ ctx.approval.expires_at = None \/ ctx.now <= ctx.approval.expires_at
  <2>1. human_approval_requirement(ctx) # "FAIL" /\ approval_binds_current_plan(ctx) # "FAIL"
    BY DecisionByRules DEF Quarantining
  <2>2. /\ ctx.approval # None
        /\ ctx.approval.status = "APPROVED"
        /\ binds(ctx.approval, ctx.plan_hash, ctx.policy)
    BY <1>1, <2>1 DEF human_approval_requirement, fail_if
  <2>3. ctx.approval.expires_at = None \/ ctx.now <= ctx.approval.expires_at
    BY <2>1, <2>2 DEF approval_binds_current_plan, pass_if
  <2>4. QED
    BY <2>2, <2>3
<1>2. QED
  BY <1>1, AllowMeansActive

=============================================================================
