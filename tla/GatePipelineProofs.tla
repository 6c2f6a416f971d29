------------------------- MODULE GatePipelineProofs --------------------------
(***************************************************************************)
(* What the gate's two evaluations and the gateway's run have to do with   *)
(* each other, for every delegation, plan, document and credential.        *)
(*                                                                         *)
(* An evaluation is a function of the case, and the phase says which have  *)
(* been made (PInv); each property is then a lemma about the rules.        *)
(***************************************************************************)
EXTENDS GatePipeline, PolicyGateProofs, FiniteSetTheorems, SequenceTheorems

Case(s, t, d, plan, cred) ==
    [principal |-> s.principal, agent |-> s.agent, now |-> s.now,
     policy |-> [status |-> s.status] @@ t, plan |-> plan, document |-> d,
     approval |-> cred.approval, key |-> cred.key]

(* The case is one of those the constants give.                            *)
CaseOK ==
    \E s \in Standings, t \in Terms, d \in Documents :
       \E plan \in Plans([status |-> s.status] @@ t) :
          \E cred \in Credentials(plan, [status |-> s.status] @@ t) :
             case = Case(s, t, d, plan, cred)

gateway_run == execute_plan_tools(case.plan.proposed_tool_calls, case.policy.allowed_tools)

(* What has been made of the case at each phase.                           *)
PInv ==
    /\ CaseOK
    /\ phase \in {"planned", "evaluated", "executing", "blocked", "executed"}
    /\ first = IF phase = "planned" THEN None ELSE evaluation(case, FALSE)
    /\ second = IF phase \in {"planned", "evaluated"} THEN None ELSE evaluation(case, TRUE)
    /\ phase \in {"executing", "executed"} => evaluation(case, TRUE).decision = "ALLOW"
    /\ run = IF phase = "executed" THEN gateway_run ELSE None

LEMMA InitEstablishes == Init => PInv
  BY DEF Init, PInv, CaseOK, Case

LEMMA StepKeeps == PInv /\ [Next]_vars => PInv'
<1> SUFFICES ASSUME PInv, [Next]_vars PROVE PInv'
  OBVIOUS
<1>1. CASE Evaluate
  BY <1>1 DEF PInv, Evaluate, CaseOK, gateway_run
<1>2. CASE ReEvaluate
  BY <1>2 DEF PInv, ReEvaluate, CaseOK, gateway_run
<1>3. CASE RunTools
  BY <1>3 DEF PInv, RunTools, CaseOK, gateway_run
<1>4. CASE UNCHANGED vars
  BY <1>4 DEF PInv, vars, CaseOK, gateway_run
<1>5. QED
  BY <1>1, <1>2, <1>3, <1>4 DEF Next

LEMMA Invariance == Spec => []PInv
  BY InitEstablishes, StepKeeps, PTL DEF Spec

(* The types of a case, as far as the rules compare and count.             *)
LEMMA CaseFacts ==
    ASSUME CaseOK
    PROVE  /\ case.now \in Nat
           /\ case.document \in Document \cup {None}
           /\ case.policy \in CasePolicies
           /\ case.plan \in Plans(case.policy)
           /\ case.approval # None => /\ case.approval.status = "APPROVED"
                                      /\ case.approval.expires_at \in Nat
<1>1. PICK s \in Standings, t \in Terms, d \in Documents :
         \E plan \in Plans([status |-> s.status] @@ t) :
            \E cred \in Credentials(plan, [status |-> s.status] @@ t) :
               case = Case(s, t, d, plan, cred)
  BY DEF CaseOK
<1> DEFINE p == [status |-> s.status] @@ t
<1>2. p \in CasePolicies
  BY DEF CasePolicies
<1>3. PICK plan \in Plans(p) : \E cred \in Credentials(plan, p) : case = Case(s, t, d, plan, cred)
  BY <1>1
<1>4. PICK cred \in Credentials(plan, p) : case = Case(s, t, d, plan, cred)
  BY <1>3
<1>5. /\ case.now = s.now /\ case.document = d /\ case.policy = p /\ case.plan = plan
      /\ case.approval = cred.approval
  BY <1>4 DEF Case
<1> HIDE DEF p
<1>6. QED
  BY <1>2, <1>5, StandingsAssumption, DocumentsAssumption, CredentialsAssumption

(* The context of either evaluation, field by field.                       *)
LEMMA ContextFields ==
    ASSUME NEW b \in BOOLEAN
    PROVE  LET c == context(case, b) IN
           /\ c.principal = case.principal /\ c.agent = case.agent /\ c.policy = case.policy
           /\ c.plan = case.plan /\ c.plan_hash = case.plan /\ c.document = case.document
           /\ c.security = scan(case.document, case.policy.allowed_tools) /\ c.now = case.now
           /\ c.approval = (IF b THEN case.approval ELSE None)
           /\ c.idempotency_key = (IF b THEN case.key ELSE None)
           /\ c.is_execution = b
  BY DEF context

(* The evaluations that a state holds.                                     *)
LEMMA EvaluationsMade ==
    ASSUME PInv, NEW e \in evaluations
    PROVE  \E b \in BOOLEAN : e = evaluation(case, b)
  BY DEF PInv, evaluations

LEMMA EvaluationFields ==
    ASSUME NEW b \in BOOLEAN
    PROVE  /\ evaluation(case, b).decision = decision(context(case, b))
           /\ evaluation(case, b).score = risk_score(context(case, b))
           /\ evaluation(case, b).level = risk_level(risk_score(context(case, b)))
           /\ evaluation(case, b).failed = failed(rule_results(context(case, b)))
  BY DEF evaluation

LEMMA SecondMade ==
    ASSUME PInv, second # None
    PROVE  /\ second = evaluation(case, TRUE)
           /\ first = evaluation(case, FALSE)
           /\ second.decision = decision(context(case, TRUE))
           /\ first.decision = decision(context(case, FALSE))
  BY EvaluationFields DEF PInv

-----------------------------------------------------------------------------
(* RISK is the one category that _decide ignores.                          *)

LEMMA CriticalSignalsQuarantine ==
    ASSUME NEW ctx, any_critical(ctx.security)
    PROVE  decision(ctx) = "QUARANTINE"
<1>1. Quarantining(ctx)
  BY DEF any_critical, Quarantining, untrusted_instruction_boundary_intact,
         prompt_injection_not_detected, sensitive_data_exfiltration_not_detected, fail_if
<1>2. QED
  BY <1>1, DecisionByRules

(* Whatever document and plan, a failed risk_threshold means quarantine.   *)
THEOREM RiskIsCovered == Spec => []RiskThresholdIsCovered
<1>1. ASSUME PInv PROVE RiskThresholdIsCovered
  <2>1. SUFFICES ASSUME NEW e \in evaluations, "risk_threshold" \in e.failed
                 PROVE  e.decision = "QUARANTINE"
    BY DEF RiskThresholdIsCovered
  <2>2. PICK b \in BOOLEAN : e = evaluation(case, b)
    BY <1>1, EvaluationsMade
  <2>3. /\ e.decision = decision(context(case, b))
        /\ "risk_threshold" \in failed(rule_results(context(case, b)))
    BY <2>1, <2>2, EvaluationFields
  <2>4. risk_threshold(context(case, b)) = "FAIL"
    BY <2>3 DEF failed, rule_results
  <2>5. QED
    BY <2>3, <2>4, CriticalSignalsQuarantine DEF risk_threshold, fail_if
<1>2. QED
  BY <1>1, Invariance, PTL

-----------------------------------------------------------------------------
(* ALLOW at execution.                                                     *)

LEMMA AllowedPlanIsWithinMandate ==
    ASSUME CaseOK, decision(context(case, TRUE)) = "ALLOW"
    PROVE  WithinMandate(case)
<1> DEFINE c == context(case, TRUE)
<1>1. ~Denying(c)
  BY DecisionByRules
<1>2. c.principal /\ c.agent = "ACTIVE"
  BY <1>1 DEF Denying, principal_identity_valid, agent_active_and_registered, pass_if
<1>3. c.policy.status = "ACTIVE" /\ c.policy.valid_from <= c.now /\ c.now <= c.policy.valid_until
  BY <1>1 DEF Denying, delegation_active, pass_if
<1>4. /\ c.plan.action_type \in Range(c.policy.allowed_action_types)
      /\ c.plan.institution \in Range(c.policy.allowed_institutions)
  BY <1>1 DEF Denying, action_type_allowed, institution_allowed, pass_if
<1>5. c.plan.amount # None /\ c.policy.amount_limit # None => c.plan.amount <= c.policy.amount_limit
  BY <1>1 DEF Denying, amount_within_limit, pass_if
<1>6. /\ c.plan.required_data \subseteq c.policy.allowed_data_classes
      /\ plan_tools(c.plan) \subseteq c.policy.allowed_tools
  BY <1>1 DEF Denying, data_access_allowed, tool_allowed, pass_if
<1>7. /\ c.principal = case.principal /\ c.agent = case.agent /\ c.policy = case.policy
      /\ c.plan = case.plan /\ c.now = case.now
  BY ContextFields
<1> HIDE DEF c
<1>8. case.now \in case.policy.valid_from..case.policy.valid_until
  BY <1>3, <1>7, CaseFacts, PoliciesAssumption
<1>9. QED
  BY <1>2, <1>3, <1>4, <1>5, <1>6, <1>7, <1>8 DEF WithinMandate, Range, plan_tools

LEMMA AllowedUnderApproval ==
    ASSUME CaseOK, decision(context(case, TRUE)) = "ALLOW"
    PROVE  /\ case.key # None
           /\ case.approval # None => BindingApproval(case)
           /\ needs_approval(case.policy, case.plan) => BindingApproval(case)
<1> DEFINE c == context(case, TRUE)
<1>1. ~Denying(c) /\ ~Quarantining(c) /\ human_approval_requirement(c) # "FAIL"
  BY DecisionByRules
<1>2. /\ c.policy = case.policy /\ c.plan = case.plan /\ c.plan_hash = case.plan
      /\ c.now = case.now /\ c.approval = case.approval /\ c.idempotency_key = case.key
      /\ c.is_execution
  BY ContextFields
<1> HIDE DEF c
<1>3. case.key # None
  BY <1>1, <1>2 DEF Denying, execution_idempotency_key_valid, fail_if
<1>4. case.approval # None => BindingApproval(case)
  <2>1. SUFFICES ASSUME case.approval # None PROVE BindingApproval(case)
    OBVIOUS
  <2>2. case.approval.expires_at \in Nat /\ None \notin Nat
    BY <2>1, CaseFacts, NoneAssumption
  <2>3. QED
    BY <1>1, <1>2, <2>1, <2>2
       DEF Quarantining, approval_binds_current_plan, binds, pass_if, BindingApproval
<1>5. needs_approval(case.policy, case.plan) => case.approval # None
  BY <1>1, <1>2 DEF human_approval_requirement, fail_if
<1>6. QED
  BY <1>3, <1>4, <1>5

(* ALLOW at execution means what the documentation promises, whatever the  *)
(* delegation, the plan, the document and the approval.                    *)
THEOREM Mandate == Spec => []AllowMeansWithinMandate
<1>1. ASSUME PInv PROVE AllowMeansWithinMandate
  <2>1. SUFFICES ASSUME second # None, second.decision = "ALLOW"
                 PROVE  /\ WithinMandate(case)
                        /\ ~any_critical(scan(case.document, case.policy.allowed_tools))
                        /\ case.key # None
                        /\ case.approval # None => BindingApproval(case)
                        /\ needs_approval(case.policy, case.plan) => BindingApproval(case)
    BY DEF AllowMeansWithinMandate
  <2>2. CaseOK /\ decision(context(case, TRUE)) = "ALLOW"
    BY <1>1, <2>1, SecondMade DEF PInv
  <2>3. ~any_critical(scan(case.document, case.policy.allowed_tools))
    BY <2>2, CriticalSignalsQuarantine, ContextFields
  <2>4. QED
    BY <2>2, <2>3, AllowedPlanIsWithinMandate, AllowedUnderApproval
<1>2. QED
  BY <1>1, Invariance, PTL

-----------------------------------------------------------------------------
(* What an approval does between the two evaluations.                      *)

(* The rules other than those of approval and key see the same case.       *)
LEMMA SameMandate ==
    ASSUME ~Denying(context(case, TRUE)) \/ case.key # None
    PROVE  Denying(context(case, FALSE)) <=> Denying(context(case, TRUE))
<1> DEFINE f == context(case, FALSE)
           s == context(case, TRUE)
<1>1. /\ f.principal = s.principal /\ f.agent = s.agent /\ f.policy = s.policy
      /\ f.plan = s.plan /\ f.now = s.now
      /\ ~f.is_execution /\ s.is_execution /\ s.idempotency_key = case.key
  BY ContextFields
<1> HIDE DEF f, s
<1>2. /\ principal_identity_valid(f) = principal_identity_valid(s)
      /\ agent_active_and_registered(f) = agent_active_and_registered(s)
      /\ delegation_active(f) = delegation_active(s)
      /\ purpose_match(f) = purpose_match(s)
      /\ action_type_allowed(f) = action_type_allowed(s)
      /\ institution_allowed(f) = institution_allowed(s)
      /\ product_allowed(f) = product_allowed(s)
  BY <1>1 DEF principal_identity_valid, agent_active_and_registered, delegation_active,
              purpose_match, action_type_allowed, institution_allowed, product_allowed
<1>3. /\ amount_within_limit(f) = amount_within_limit(s)
      /\ counterparty_allowed(f) = counterparty_allowed(s)
      /\ data_access_allowed(f) = data_access_allowed(s)
      /\ tool_allowed(f) = tool_allowed(s)
      /\ tool_arguments_schema_valid(f) = tool_arguments_schema_valid(s)
      /\ plan_matches_user_intent(f) = plan_matches_user_intent(s)
  BY <1>1 DEF amount_within_limit, counterparty_allowed, data_access_allowed, tool_allowed,
              tool_arguments_schema_valid, plan_matches_user_intent
<1>4. execution_idempotency_key_valid(f) # "FAIL"
  BY <1>1 DEF execution_idempotency_key_valid
<1>5. ~Denying(s) \/ case.key # None
  BY DEF s
<1>6. execution_idempotency_key_valid(s) # "FAIL"
  BY <1>1, <1>5 DEF execution_idempotency_key_valid, fail_if, Denying
<1>7. Denying(f) <=> Denying(s)
  BY <1>2, <1>3, <1>4, <1>6 DEF Denying
<1>8. QED
  BY <1>7 DEF f, s

(* The first evaluation has no approval to judge; the second quarantines   *)
(* for the same signals or for the approval it was given.                  *)
LEMMA QuarantineOfTwo ==
    /\ Quarantining(context(case, FALSE))
          <=> any_critical(scan(case.document, case.policy.allowed_tools))
    /\ Quarantining(context(case, TRUE))
          <=> \/ any_critical(scan(case.document, case.policy.allowed_tools))
              \/ approval_binds_current_plan(context(case, TRUE)) = "FAIL"
<1> DEFINE signals == scan(case.document, case.policy.allowed_tools)
<1>1. ASSUME NEW ctx, ctx.security = signals
      PROVE  Quarantining(ctx)
               <=> any_critical(signals) \/ approval_binds_current_plan(ctx) = "FAIL"
  <2> HIDE DEF signals
  <2>1. QED
    BY <1>1 DEF Quarantining, any_critical, untrusted_instruction_boundary_intact,
                prompt_injection_not_detected, sensitive_data_exfiltration_not_detected, fail_if
<1>2. \A b \in BOOLEAN : context(case, b).security = signals
  BY ContextFields
<1>3. approval_binds_current_plan(context(case, FALSE)) # "FAIL"
  BY ContextFields DEF approval_binds_current_plan
<1>4. QED
  BY <1>1, <1>2, <1>3

LEMMA BindingMeansPassed ==
    ASSUME CaseOK, case.approval # None
    PROVE  approval_binds_current_plan(context(case, TRUE)) = "FAIL" <=> ~BindingApproval(case)
<1> DEFINE c == context(case, TRUE)
<1>1. /\ c.policy = case.policy /\ c.plan_hash = case.plan /\ c.now = case.now
      /\ c.approval = case.approval
  BY ContextFields
<1>2. case.approval.expires_at \in Nat /\ None \notin Nat
  BY CaseFacts, NoneAssumption
<1> HIDE DEF c
<1>3. approval_binds_current_plan(c) = "FAIL" <=> ~BindingApproval(case)
  BY <1>1, <1>2 DEF approval_binds_current_plan, binds, pass_if, BindingApproval
<1>4. QED
  BY <1>3 DEF c

(* An approval lifts REQUIRE_APPROVAL and nothing else, whatever the case. *)
THEOREM ApprovalLiftsOneRule == Spec => []ApprovalLiftsOnlyTheApprovalRule
<1>1. ASSUME PInv PROVE ApprovalLiftsOnlyTheApprovalRule
  <2> SUFFICES ASSUME second # None
               PROVE  /\ second.decision = "ALLOW" => first.decision \in {"ALLOW", "REQUIRE_APPROVAL"}
                      /\ first.decision = "REQUIRE_APPROVAL" /\ BindingApproval(case)
                           /\ case.key # None => second.decision = "ALLOW"
    BY DEF ApprovalLiftsOnlyTheApprovalRule
  <2> DEFINE f == context(case, FALSE)
             s == context(case, TRUE)
  <2>1. first.decision = decision(f) /\ second.decision = decision(s) /\ CaseOK
    BY <1>1, SecondMade DEF PInv
  <2>2. decision(s) = "ALLOW" => decision(f) \in {"ALLOW", "REQUIRE_APPROVAL"}
    <3>1. SUFFICES ASSUME decision(s) = "ALLOW" PROVE ~Quarantining(f) /\ ~Denying(f)
      BY DecisionByRules
    <3>2. ~Quarantining(s) /\ ~Denying(s)
      BY <3>1, DecisionByRules
    <3>3. QED
      BY <3>2, QuarantineOfTwo, SameMandate
  <2>3. ASSUME decision(f) = "REQUIRE_APPROVAL", BindingApproval(case), case.key # None
        PROVE  decision(s) = "ALLOW"
    <3>1. ~Quarantining(f) /\ ~Denying(f)
      BY <2>3, DecisionByRules
    <3>2. ~Denying(s)
      BY <2>3, <3>1, SameMandate
    <3>3. ~Quarantining(s)
      BY <2>1, <2>3, <3>1, QuarantineOfTwo, BindingMeansPassed DEF BindingApproval
    <3>4. human_approval_requirement(s) # "FAIL"
      <4>1. /\ s.approval = case.approval /\ s.plan_hash = case.plan /\ s.policy = case.policy
            /\ case.approval.status = "APPROVED"
        BY <2>1, <2>3, ContextFields, CaseFacts DEF BindingApproval
      <4> HIDE DEF s
      <4>2. QED
        BY <2>3, <4>1 DEF human_approval_requirement, fail_if, binds, BindingApproval
    <3>5. QED
      BY <3>2, <3>3, <3>4, DecisionByRules
  <2> HIDE DEF f, s
  <2>4. QED
    BY <2>1, <2>2, <2>3
<1>2. QED
  BY <1>1, Invariance, PTL

(* Whatever else is wrong with it, an execution under an approval of       *)
(* another plan or version, or an expired one, is quarantined.             *)
THEOREM ReplayQuarantined == Spec => []ReplayedApprovalIsQuarantined
<1>1. ASSUME PInv PROVE ReplayedApprovalIsQuarantined
  <2>1. SUFFICES ASSUME second # None, case.approval # None, ~BindingApproval(case)
                 PROVE  second.decision = "QUARANTINE"
    BY DEF ReplayedApprovalIsQuarantined
  <2>2. CaseOK /\ second.decision = decision(context(case, TRUE))
    BY <1>1, <2>1, SecondMade DEF PInv
  <2>3. Quarantining(context(case, TRUE))
    BY <2>1, <2>2, BindingMeansPassed, QuarantineOfTwo
  <2>4. QED
    BY <2>2, <2>3, DecisionByRules
<1>2. QED
  BY <1>1, Invariance, PTL

-----------------------------------------------------------------------------
(* The gate and the gateway.                                               *)

(* A call of a tool on the allowlist with valid arguments is not blocked:  *)
(* the registry has every tool that has a schema.                          *)
LEMMA ValidCallsComplete ==
    ASSUME NEW call, NEW tools, call.tool \in tools, arguments_valid(call)
    PROVE  ~blocked(call, tools)
  BY DEF blocked, arguments_valid, ADAPTERS, TOOL_ARG_SCHEMAS

LEMMA OneToolSubmits ==
    ASSUME NEW tool PROVE adapter_status(tool) = "SUBMITTED" <=> tool = "submit_rate_reduction_request"
  BY DEF adapter_status

(* A plan that the gate allows is never executed in part.                  *)
THEOREM GatewayAgrees == Spec => []GateAgreesWithGateway
<1>1. ASSUME PInv PROVE GateAgreesWithGateway
  <2> DEFINE calls == case.plan.proposed_tool_calls
             tools == case.policy.allowed_tools
             status == [i \in DOMAIN calls |->
                          IF blocked(calls[i], tools) THEN "BLOCKED" ELSE "COMPLETED"]
  <2>1. SUFFICES ASSUME run # None
                 PROVE  /\ \A i \in DOMAIN run.tool_calls : run.tool_calls[i] = "COMPLETED"
                        /\ run.outcome <=> "submit_rate_reduction_request" \in plan_tools(case.plan)
    BY DEF GateAgreesWithGateway
  <2>2. /\ run = execute_plan_tools(calls, tools)
        /\ decision(context(case, TRUE)) = "ALLOW"
    BY <1>1, <2>1, EvaluationFields DEF PInv, gateway_run
  <2>3. /\ tool_allowed(context(case, TRUE)) # "FAIL"
        /\ tool_arguments_schema_valid(context(case, TRUE)) # "FAIL"
    BY <2>2, DecisionByRules DEF Denying
  <2>4. \A i \in DOMAIN calls : calls[i].tool \in tools /\ arguments_valid(calls[i])
    <3>1. plan_tools(case.plan) \subseteq tools
      BY <2>3, ContextFields DEF tool_allowed, pass_if
    <3>2. \A i \in DOMAIN calls : arguments_valid(calls[i])
      BY <2>3, ContextFields DEF tool_arguments_schema_valid, pass_if
    <3>3. QED
      BY <3>1, <3>2 DEF plan_tools
  <2>5. \A i \in DOMAIN calls : status[i] = "COMPLETED"
    BY <2>4, ValidCallsComplete
  <2>6. /\ run.tool_calls = status
        /\ run.outcome = \E i \in DOMAIN calls : /\ status[i] = "COMPLETED"
                                                /\ adapter_status(calls[i].tool) = "SUBMITTED"
    BY <2>2 DEF execute_plan_tools
  <2>7. DOMAIN status = DOMAIN calls
    OBVIOUS
  <2> HIDE DEF status
  <2>8. run.outcome <=> \E i \in DOMAIN calls : calls[i].tool = "submit_rate_reduction_request"
    BY <2>5, <2>6, OneToolSubmits
  <2>9. QED
    BY <2>5, <2>6, <2>7, <2>8 DEF plan_tools
<1>2. QED
  BY <1>1, Invariance, PTL

-----------------------------------------------------------------------------
(* The score.                                                              *)

(* The parts of raw_score that depend on the plan alone.                   *)
LEMMA PlanPoints ==
    ASSUME NEW plan, plan.amount \in Nat \cup {None}, IsFiniteSet(plan.required_data)
    PROVE  /\ (IF plan.estimated_risk \in DOMAIN CRITICALITY_BASE
                THEN CRITICALITY_BASE[plan.estimated_risk] ELSE 15) \in 10..30
           /\ (IF plan.amount = None THEN 0 ELSE at_most(20, plan.amount \div 100000)) \in 0..20
           /\ at_most(10, 2 * Cardinality(plan.required_data)) \in 0..10
<1>1. (IF plan.estimated_risk \in DOMAIN CRITICALITY_BASE
       THEN CRITICALITY_BASE[plan.estimated_risk] ELSE 15) \in 10..30
  BY DEF CRITICALITY_BASE
<1>2. (IF plan.amount = None THEN 0 ELSE at_most(20, plan.amount \div 100000)) \in 0..20
  <2>1. CASE plan.amount = None
    BY <2>1
  <2>2. CASE plan.amount # None
    <3>1. plan.amount \div 100000 \in Nat
      BY <2>2
    <3>2. QED
      BY <2>2, <3>1 DEF at_most
  <2>3. QED
    BY <2>1, <2>2
<1>3. at_most(10, 2 * Cardinality(plan.required_data)) \in 0..10
  <2>1. Cardinality(plan.required_data) \in Nat
    BY FS_CardinalityType
  <2>2. QED
    BY <2>1 DEF at_most
<1>4. QED
  BY <1>1, <1>2, <1>3

Dangerous(ctx) ==
    \/ ctx.security.exfiltration_detected
    \/ ctx.security.attempted_unauthorized_tools # {}

(* The raw score is at least 25 when a document attempts a tool or an      *)
(* exfiltration: 10 of the least critical plan, 5 and 20 of the document,  *)
(* 10 off for a review.                                                    *)
LEMMA RawScore ==
    ASSUME NEW ctx, ctx.plan.amount \in Nat \cup {None}, IsFiniteSet(ctx.plan.required_data),
           NEW approved
    PROVE  /\ raw_score(ctx, approved) \in Int
           /\ ctx.document # None /\ Dangerous(ctx) => raw_score(ctx, approved) >= 25
<1> DEFINE base == IF ctx.plan.estimated_risk \in DOMAIN CRITICALITY_BASE
                   THEN CRITICALITY_BASE[ctx.plan.estimated_risk] ELSE 15
           amount == IF ctx.plan.amount = None THEN 0 ELSE at_most(20, ctx.plan.amount \div 100000)
           irreversible == points(ctx.plan.reversibility = "IRREVERSIBLE", 15)
           partial == points(ctx.plan.reversibility = "PARTIALLY_REVERSIBLE", 7)
           new == points(ctx.plan.counterparty = "NEW", 10)
           data == at_most(10, 2 * Cardinality(ctx.plan.required_data))
           document == points(ctx.document # None, 5)
           injection == points(ctx.security.injection_detected, 5)
           danger == points(Dangerous(ctx), 20)
           discount == points(approved, 10)
<1>1. base \in 10..30 /\ amount \in 0..20 /\ data \in 0..10
  BY PlanPoints
<1>2. /\ irreversible \in {0, 15} /\ partial \in {0, 7} /\ new \in {0, 10}
      /\ document \in {0, 5} /\ injection \in {0, 5} /\ danger \in {0, 20} /\ discount \in {0, 10}
  BY DEF points
<1>3. /\ ctx.document # None => document = 5
      /\ Dangerous(ctx) => danger = 20
  BY DEF points
<1>4. raw_score(ctx, approved) =
        base + amount + irreversible + partial + new + data + document + injection + danger - discount
  BY DEF raw_score, Dangerous
<1> HIDE DEF base, amount, irreversible, partial, new, data, document, injection, danger, discount
<1>5. QED
  BY <1>1, <1>2, <1>3, <1>4

LEMMA PlanTypes ==
    ASSUME PInv, NEW b \in BOOLEAN
    PROVE  /\ context(case, b).plan.amount \in Nat \cup {None}
           /\ IsFiniteSet(context(case, b).plan.required_data)
  BY CaseFacts, PlansAssumption, ContextFields DEF PInv

LEMMA ScoreOf ==
    ASSUME NEW ctx, raw_score(ctx, approval_required(ctx)) \in Int
    PROVE  /\ risk_score(ctx) \in 0..100
           /\ raw_score(ctx, approval_required(ctx)) >= 25 => risk_score(ctx) >= 25
<1> DEFINE n == raw_score(ctx, approval_required(ctx))
<1>1. risk_score(ctx) = clamp(n) /\ n \in Int
  BY DEF risk_score
<1> HIDE DEF n
<1>2. clamp(n) \in 0..100 /\ (n >= 25 => clamp(n) >= 25)
  BY <1>1 DEF clamp, at_most
<1>3. QED
  BY <1>1, <1>2 DEF n

(* The discount of a pending review never brings a document that attempts  *)
(* a tool or an exfiltration down to LOW, whatever the plan.               *)
THEOREM DangerIsNeverLow == Spec => []DangerSignalsNeverLowRisk
<1>1. ASSUME PInv PROVE DangerSignalsNeverLowRisk
  <2> DEFINE signals == scan(case.document, case.policy.allowed_tools)
  <2>1. SUFFICES ASSUME NEW e \in evaluations,
                        signals.exfiltration_detected \/ signals.attempted_unauthorized_tools # {}
                 PROVE  e.level # "LOW"
    BY DEF DangerSignalsNeverLowRisk
  <2>2. PICK b \in BOOLEAN : e = evaluation(case, b)
    BY <1>1, EvaluationsMade
  <2> DEFINE ctx == context(case, b)
  <2>3. case.document # None
    BY <2>1 DEF scan, NoSignals
  <2>4. ctx.document = case.document /\ ctx.security = signals
    BY ContextFields
  <2>5. e.level = risk_level(risk_score(ctx))
    BY <2>2, EvaluationFields
  <2>6. /\ raw_score(ctx, approval_required(ctx)) \in Int
        /\ raw_score(ctx, approval_required(ctx)) >= 25
    BY <1>1, <2>1, <2>3, <2>4, PlanTypes, RawScore DEF Dangerous
  <2> HIDE DEF ctx
  <2>7. risk_score(ctx) \in 0..100 /\ risk_score(ctx) >= 25
    BY <2>6, ScoreOf
  <2>8. QED
    BY <2>5, <2>7 DEF risk_level
<1>2. QED
  BY <1>1, Invariance, PTL

(* Decisions, scores and levels keep their ranges for every case.          *)
THEOREM TypeCorrectness == Spec => []TypeOK
<1>1. ASSUME PInv PROVE TypeOK
  <2>1. ASSUME NEW e \in evaluations
        PROVE  /\ e.decision \in Decisions
               /\ e.score \in 0..100
               /\ e.level \in {"LOW", "MEDIUM", "HIGH", "CRITICAL"}
    <3>1. PICK b \in BOOLEAN : e = evaluation(case, b)
      BY <1>1, EvaluationsMade
    <3>2. risk_score(context(case, b)) \in 0..100
      BY <1>1, PlanTypes, RawScore, ScoreOf
    <3>3. QED
      BY <3>1, <3>2, EvaluationFields, DecisionType DEF risk_level
  <2>2. QED
    BY <1>1, <2>1 DEF TypeOK, PInv
<1>2. QED
  BY <1>1, Invariance, PTL

-----------------------------------------------------------------------------
(* The planner and the gate.                                               *)

LEMMA HeadInRange ==
    ASSUME NEW s \in Seq(STRING), s # <<>>
    PROVE  Head(s) \in Range(s) /\ Head(s) \in STRING
<1>1. Len(s) > 0 /\ 1 \in DOMAIN s /\ Head(s) = s[1] /\ s[1] \in STRING
  BY DEF Head
<1>2. QED
  BY <1>1 DEF Range

(* The three calls of the rate-reduction plan have schemas and satisfy     *)
(* them, once there is a product.                                          *)
LEMMA RateReductionCalls ==
    ASSUME NEW product, product # None
    PROVE  LET calls == P!rate_reduction_calls(product) IN
           \A i \in DOMAIN calls : calls[i].tool \in DOMAIN TOOL_ARG_SCHEMAS /\ arguments_valid(calls[i])
<1> DEFINE calls == P!rate_reduction_calls(product)
<1>1. P!json_type(product) = "string"
  BY DEF P!json_type
<1>2. DOMAIN calls = {1, 2, 3}
  BY DEF P!rate_reduction_calls
<1>3. calls[1].tool = "read_loan_profile" /\ arguments_valid(calls[1])
  BY <1>1 DEF P!rate_reduction_calls, arguments_valid, TOOL_ARG_SCHEMAS
<1>4. calls[2].tool = "prepare_rate_reduction_request" /\ arguments_valid(calls[2])
  BY <1>1 DEF P!rate_reduction_calls, arguments_valid, TOOL_ARG_SCHEMAS
<1>5. calls[3].tool = "submit_rate_reduction_request" /\ arguments_valid(calls[3])
  BY <1>1 DEF P!rate_reduction_calls, arguments_valid, TOOL_ARG_SCHEMAS
<1> HIDE DEF calls
<1>6. \A i \in DOMAIN calls : calls[i].tool \in DOMAIN TOOL_ARG_SCHEMAS /\ arguments_valid(calls[i])
  BY <1>2, <1>3, <1>4, <1>5 DEF TOOL_ARG_SCHEMAS
<1>7. QED
  BY <1>6 DEF calls

(* A live delegation with the rate-reduction tools, and its own plan.      *)
PlannedForRate ==
    /\ first # None
    /\ case.principal /\ case.agent = "ACTIVE"
    /\ case.plan = P!build_plan(case.policy)
    /\ case.plan.action_type = "RATE_REDUCTION_REQUEST"
    /\ DOMAIN TOOL_ARG_SCHEMAS \subseteq case.policy.allowed_tools
    /\ case.policy.purpose
    /\ case.policy.status = "ACTIVE"
    /\ case.now \in case.policy.valid_from..case.policy.valid_until

LEMMA ListedProductFits ==
    ASSUME PInv, PlannedForRate, case.policy.allowed_products # <<>>
    PROVE  first.decision # "DENY"
<1> DEFINE p == case.policy
           plan == case.plan
           c == context(case, FALSE)
<1>1. /\ plan = P!build_plan(p) /\ plan.action_type = "RATE_REDUCTION_REQUEST"
      /\ DOMAIN TOOL_ARG_SCHEMAS \subseteq p.allowed_tools
      /\ p.allowed_products # <<>> /\ case.now \in p.valid_from..p.valid_until
      /\ p.purpose /\ p.status = "ACTIVE" /\ case.principal /\ case.agent = "ACTIVE"
  BY DEF PlannedForRate
<1>2. first.decision = decision(c) /\ CaseOK
  BY EvaluationFields DEF PInv, PlannedForRate
<1>3. /\ p.allowed_action_types \in Seq(STRING) /\ p.allowed_institutions \in Seq(STRING)
      /\ p.allowed_products \in Seq(STRING) /\ case.now \in Nat
      /\ p.valid_from \in Nat /\ p.valid_until \in Nat
      /\ plan \in Plans(p) /\ ~P!build_plan_raises(p)
  <2>1. p \in CasePolicies /\ plan \in Plans(p) /\ case.now \in Nat
    BY <1>2, CaseFacts
  <2>2. ~P!build_plan_raises(p)
    BY <1>1, <2>1, PlansAssumption
  <2> HIDE DEF p, plan
  <2>3. QED
    BY <2>1, <2>2, PoliciesAssumption
<1>4. /\ c.principal = case.principal /\ c.agent = case.agent /\ c.policy = p /\ c.plan = plan
      /\ c.now = case.now /\ ~c.is_execution
  BY ContextFields
<1> HIDE DEF p, plan, c
<1>5. /\ plan = P!rate_reduction_plan(p) /\ p.allowed_action_types # <<>>
      /\ plan.action_type = Head(p.allowed_action_types)
  <2>1. P!first_action_type(p) = "RATE_REDUCTION_REQUEST"
    BY <1>1 DEF P!build_plan, P!analysis_plan
  <2>2. QED
    BY <1>1, <2>1 DEF P!build_plan, P!first_action_type
<1>6. p.allowed_institutions # <<>>
  BY <1>1, <1>3, <1>5 DEF P!build_plan_raises, P!first_action_type
<1> DEFINE product == Head(p.allowed_products)
<1>7. product \in Range(p.allowed_products) /\ product # None
  BY <1>1, <1>3, HeadInRange, NoneAssumption
<1>8. /\ plan.institution = Head(p.allowed_institutions) /\ plan.product = product
      /\ plan.required_data \subseteq p.allowed_data_classes
      /\ plan.proposed_tool_calls = P!rate_reduction_calls(product)
      /\ plan.amount = None /\ plan.counterparty = None
  BY <1>1, <1>5 DEF P!rate_reduction_plan
<1> HIDE DEF product
<1>9. \A i \in DOMAIN plan.proposed_tool_calls :
         /\ plan.proposed_tool_calls[i].tool \in DOMAIN TOOL_ARG_SCHEMAS
         /\ arguments_valid(plan.proposed_tool_calls[i])
  BY <1>7, <1>8, RateReductionCalls
<1>10. plan_tools(plan) \subseteq p.allowed_tools
  BY <1>1, <1>9 DEF plan_tools
<1>11. /\ plan.action_type \in Range(p.allowed_action_types)
       /\ plan.institution \in Range(p.allowed_institutions)
  BY <1>3, <1>5, <1>6, <1>8, HeadInRange
<1>12. /\ principal_identity_valid(c) # "FAIL" /\ agent_active_and_registered(c) # "FAIL"
       /\ delegation_active(c) # "FAIL"
  BY <1>1, <1>3, <1>4 DEF principal_identity_valid, agent_active_and_registered,
                          delegation_active, pass_if
<1>13. /\ purpose_match(c) # "FAIL" /\ action_type_allowed(c) # "FAIL"
       /\ institution_allowed(c) # "FAIL" /\ product_allowed(c) # "FAIL"
  BY <1>1, <1>4, <1>7, <1>8, <1>11 DEF purpose_match, action_type_allowed,
                          institution_allowed, product_allowed, pass_if
<1>14. /\ amount_within_limit(c) # "FAIL" /\ counterparty_allowed(c) # "FAIL"
       /\ data_access_allowed(c) # "FAIL"
  <2>1. amount_within_limit(c) # "FAIL"
    BY <1>4, <1>8 DEF amount_within_limit
  <2>2. counterparty_allowed(c) # "FAIL"
    <3>1. None # "NEW"
      BY NoneAssumption
    <3>2. c.plan.counterparty # "NEW"
      BY <1>4, <1>8, <3>1
    <3>3. QED
      BY <3>2 DEF counterparty_allowed, fail_if
  <2>3. data_access_allowed(c) # "FAIL"
    BY <1>4, <1>8 DEF data_access_allowed, pass_if
  <2>4. QED
    BY <2>1, <2>2, <2>3
<1>15. /\ tool_allowed(c) # "FAIL" /\ tool_arguments_schema_valid(c) # "FAIL"
       /\ plan_matches_user_intent(c) # "FAIL" /\ execution_idempotency_key_valid(c) # "FAIL"
  BY <1>4, <1>9, <1>10 DEF tool_allowed, tool_arguments_schema_valid,
                          plan_matches_user_intent, execution_idempotency_key_valid, pass_if
<1>16. ~Denying(c)
  BY <1>12, <1>13, <1>14, <1>15 DEF Denying
<1>17. QED
  BY <1>2, <1>16, DecisionByRules

(* Without a product the first call of the plan has a null argument.       *)
LEMMA UnlistedProductFails ==
    ASSUME PInv, PlannedForRate, case.policy.allowed_products = <<>>
    PROVE  first.decision \in {"DENY", "QUARANTINE"}
<1> DEFINE p == case.policy
           c == context(case, FALSE)
           calls == P!rate_reduction_calls(None)
<1>1. first.decision = decision(c) /\ c.plan = case.plan
  BY EvaluationFields, ContextFields DEF PInv, PlannedForRate
<1>2. case.plan.proposed_tool_calls = calls
  <2>1. P!first_action_type(p) = "RATE_REDUCTION_REQUEST"
    BY DEF PlannedForRate, P!build_plan, P!analysis_plan
  <2>2. QED
    BY <2>1 DEF PlannedForRate, P!build_plan, P!rate_reduction_plan
<1>3. 1 \in DOMAIN calls /\ ~arguments_valid(calls[1])
  BY DEF P!rate_reduction_calls, P!json_type, arguments_valid, TOOL_ARG_SCHEMAS
<1> HIDE DEF calls, c
<1>4. tool_arguments_schema_valid(c) = "FAIL"
  BY <1>1, <1>2, <1>3 DEF tool_arguments_schema_valid, pass_if
<1>5. QED
  BY <1>1, <1>4, DecisionByRules DEF Denying

(* For every live delegation with the rate-reduction tools, the gate does  *)
(* not deny what the planner proposes if there is a product, and never     *)
(* lets it pass if there is none.                                          *)
THEOREM PlannedPlanFits == Spec => []PlannedPlanFitsItsPolicy
<1>1. ASSUME PInv PROVE PlannedPlanFitsItsPolicy
  BY <1>1, ListedProductFits, UnlistedProductFails DEF PlannedPlanFitsItsPolicy, PlannedForRate
<1>2. QED
  BY <1>1, Invariance, PTL

=============================================================================
