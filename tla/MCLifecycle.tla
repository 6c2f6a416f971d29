----------------------------- MODULE MCLifecycle -----------------------------
(* Small instances of the lifecycle: the hero delegation, whose submission *)
(* needs a human; one that does not ask for a human; the transfer          *)
(* delegation of the security lab.                                         *)
EXTENDS Lifecycle, TLC

Hero ==
    [status |-> "ACTIVE", version |-> 1, purpose |-> TRUE,
     allowed_action_types |-> <<"RATE_REDUCTION_REQUEST">>,
     allowed_institutions |-> <<"HANUL_BANK">>,
     allowed_products |-> <<"DEMO_LOAN_001">>,
     allowed_data_classes |-> {"CURRENT_RATE", "INCOME_CHANGE_FLAG"},
     allowed_tools |-> DOMAIN TOOL_ARG_SCHEMAS,
     amount_limit |-> None, counterparty_mode |-> "NOT_APPLICABLE",
     submit_requires_human |-> TRUE, valid_from |-> 0, valid_until |-> 3]

Unattended == [Hero EXCEPT !.submit_requires_human = FALSE]

Transfer ==
    [Hero EXCEPT !.allowed_action_types = <<"RECURRING_BILL_PAYMENT">>,
                 !.allowed_products = <<>>, !.allowed_data_classes = {"LOAN_BALANCE"},
                 !.allowed_tools = {"pay_recurring_bill"}, !.amount_limit = 200000,
                 !.counterparty_mode = "EXISTING_ONLY", !.submit_requires_human = FALSE]

MCDelegations == [p \in Policies |-> CASE p = "hero" -> Hero [] p = "unattended" -> Unattended
                                       [] p = "transfer" -> Transfer]

TransferPlan ==
    [action_type |-> "TRANSFER", institution |-> "HANUL_BANK", product |-> None,
     goal |-> "transfer", required_data |-> {}, proposed_tool_calls |-> <<>>,
     reversibility |-> "IRREVERSIBLE", estimated_risk |-> "HIGH",
     amount |-> 800000, counterparty |-> "NEW"]

InjectionDoc == [injection |-> TRUE, tool_hint |-> TRUE, sensitive |-> {"transfer_funds"},
              exfil |-> TRUE]

CleanOnly == {None}
CleanOrInjected == {None, InjectionDoc}

Calls(plan, custom, evaluate, approve, reject, execute) ==
    [plan |-> plan, custom_plan |-> custom, evaluate |-> evaluate, approve |-> approve,
     reject |-> reject, execute |-> execute]

(* plan, custom_plan, evaluate, approve, reject, execute                   *)
ExecutionsRace == Calls(1, 0, 1, 1, 0, 2)
ReviewsRace == Calls(1, 0, 2, 1, 1, 1)
SerialCalls == Calls(2, 1, 2, 1, 1, 2)

(* Bound: only a delegation that some request names is revoked.            *)
RevokedInUse ==
    \A p \in Policies : policy_status[p] = "REVOKED" => \E r \in Requests : db[r].policy = p

(* Bound: of the handlers, those that evaluate or execute may die.         *)
CrashesAfterPlanning == \A w \in Workers : crash(w) => loc[w].op \in {"evaluate", "execute"}

WorkerSymmetry == Permutations(Workers)
KeySymmetry == Permutations(Keys)

=============================================================================
