--------------------------- MODULE MCGatePipeline ----------------------------
(* The cases of the gate pipeline: the hero delegation of the fixtures and *)
(* its variations, the planner's plans and the security lab's.             *)
EXTENDS GatePipeline

RateTools == DOMAIN TOOL_ARG_SCHEMAS

(* The amount limit and the counterparty rule come together, as in the     *)
(* transfer delegation of the security lab.                                *)
MCTerms ==
    {[version |-> 2, purpose |-> TRUE,
      allowed_action_types |-> <<action_type>>,
      allowed_institutions |-> <<"HANUL_BANK">>,
      allowed_products |-> products,
      allowed_data_classes |-> {"CURRENT_RATE", "INCOME_CHANGE_FLAG", "LOAN_BALANCE"},
      allowed_tools |-> tools,
      amount_limit |-> IF limited THEN 200000 ELSE None,
      counterparty_mode |-> IF limited THEN "EXISTING_ONLY" ELSE "NOT_APPLICABLE",
      submit_requires_human |-> human,
      valid_from |-> 1, valid_until |-> 3] :
        action_type \in {"RATE_REDUCTION_REQUEST", "RECURRING_BILL_PAYMENT"},
        products \in {<<>>, <<"DEMO_LOAN_001">>},
        tools \in {RateTools, RateTools \ {"submit_rate_reduction_request"},
                   {"pay_recurring_bill", "transfer_funds"}},
        limited \in BOOLEAN, human \in BOOLEAN}

TransferPlan ==
    [action_type |-> "TRANSFER", institution |-> "HANUL_BANK", product |-> None,
     goal |-> "transfer", required_data |-> {}, proposed_tool_calls |-> <<>>,
     reversibility |-> "IRREVERSIBLE", estimated_risk |-> "HIGH",
     amount |-> 800000, counterparty |-> "NEW"]

(* A bill within or beyond the limit, through a tool nothing registers.    *)
BillPlan(amount) ==
    [TransferPlan EXCEPT !.action_type = "RECURRING_BILL_PAYMENT", !.amount = amount,
                         !.counterparty = "EXISTING", !.estimated_risk = "LOW",
                         !.reversibility = "PARTIALLY_REVERSIBLE",
                         !.proposed_tool_calls =
                            <<[tool |-> "pay_recurring_bill", arguments |-> <<>>]>>]

(* The last plan reads data that no delegation lists.                      *)
MCPlans(policy) ==
    {P!build_plan(policy), TransferPlan, BillPlan(200000),
     [BillPlan(200001) EXCEPT !.proposed_tool_calls = <<>>],
     [P!build_plan(policy) EXCEPT !.required_data = {"CREDIT_SCORE_BAND"}]}

Doc(injection, hint, sensitive, exfil) ==
    [injection |-> injection, tool_hint |-> hint, sensitive |-> sensitive, exfil |-> exfil]

MCDocuments ==
    {None, Doc(TRUE, FALSE, {}, FALSE), Doc(TRUE, TRUE, {}, FALSE),
     Doc(FALSE, TRUE, {"transfer_funds"}, FALSE), Doc(FALSE, FALSE, {}, TRUE)}

MCApproval(hash, version, expiry) ==
    [status |-> "APPROVED", approved_plan_hash |-> hash, policy_version |-> version,
     expires_at |-> expiry]

(* No approval or a binding one, with and without a key; and approvals     *)
(* that expired, of another plan, and of the version before.               *)
MCCredentials(plan, policy) ==
    LET binding == MCApproval(plan, policy.version, 3)
    IN  [approval : {None, binding}, key : {None, "key"}] \cup
        [approval : {MCApproval(plan, policy.version, 2),
                     MCApproval([plan EXCEPT !.goal = "another"], policy.version, 3),
                     MCApproval(plan, policy.version - 1, 3)}, key : {"key"}]

(* The delegations and the binding approvals run out after instant 3.      *)
MCStandings ==
    {[principal |-> p, agent |-> a, status |-> s, now |-> n] :
       p \in BOOLEAN, a \in {"ACTIVE", "PAUSED"}, s \in {"ACTIVE", "REVOKED"}, n \in {3, 4}}

(* Everything in order, or one thing wrong.                                *)
MCStandingsOneWrong ==
    {s \in MCStandings :
       Cardinality({x \in {1, 2, 3, 4} :
          CASE x = 1 -> ~s.principal [] x = 2 -> s.agent # "ACTIVE"
            [] x = 3 -> s.status # "ACTIVE" [] x = 4 -> s.now = 4}) <= 1}

=============================================================================
