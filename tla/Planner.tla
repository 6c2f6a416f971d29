------------------------------- MODULE Planner -------------------------------
(***************************************************************************)
(* The deterministic planner (app/domain/orchestrator/planner.py).  It     *)
(* reads the delegation policy only, never the untrusted document.         *)
(*                                                                         *)
(* A policy lists action types, institutions and products as sequences,    *)
(* of which the planner takes the first; the other lists are sets.  A      *)
(* plan's content hash is the plan itself: two plans have the same hash    *)
(* exactly when they are the same record.  "goal" is the one free-text     *)
(* field kept, because changing it changes the hash and nothing else.      *)
(***************************************************************************)
EXTENDS Sequences, Naturals

CONSTANT None

(* The JSON type of a product argument: a plan without a product passes    *)
(* null where the schemas want a string.                                   *)
json_type(product) == IF product = None THEN "null" ELSE "string"

(* Mutant: the preparation is proposed without its basis argument.         *)
rate_reduction_calls_without_basis(product) ==
    [i \in 1..3 |->
       [tool |-> <<"read_loan_profile", "prepare_rate_reduction_request",
                   "submit_rate_reduction_request">>[i],
        arguments |-> [institution |-> "string", product |-> json_type(product)]]]

(* The three calls of the rate-reduction plan, in order.                   *)
rate_reduction_calls(product) ==
    <<[tool |-> "read_loan_profile",
       arguments |-> [institution |-> "string", product |-> json_type(product)]],
      [tool |-> "prepare_rate_reduction_request",
       arguments |-> [institution |-> "string", product |-> json_type(product),
                      basis |-> "array"]],
      [tool |-> "submit_rate_reduction_request",
       arguments |-> [institution |-> "string", product |-> json_type(product)]]>>

rate_reduction_plan(policy) ==
    LET product == IF policy.allowed_products = <<>> THEN None
                   ELSE Head(policy.allowed_products)
    IN  [action_type |-> "RATE_REDUCTION_REQUEST",
         institution |-> Head(policy.allowed_institutions),
         product |-> product,
         goal |-> "planned",
         required_data |-> {"CURRENT_RATE", "INCOME_CHANGE_FLAG"}
                              \cap policy.allowed_data_classes,
         proposed_tool_calls |-> rate_reduction_calls(product),
         reversibility |-> "REVERSIBLE",
         estimated_risk |-> "MEDIUM",
         amount |-> None,
         counterparty |-> None]

(* The fallback: analysis only, no data and no tool call.                  *)
analysis_plan(policy, action_type) ==
    [action_type |-> action_type,
     institution |-> IF policy.allowed_institutions = <<>> THEN "UNKNOWN"
                     ELSE Head(policy.allowed_institutions),
     product |-> None,
     goal |-> "user_request",
     required_data |-> {},
     proposed_tool_calls |-> <<>>,
     reversibility |-> "REVERSIBLE",
     estimated_risk |-> "LOW",
     amount |-> None,
     counterparty |-> None]

first_action_type(policy) ==
    IF policy.allowed_action_types = <<>> THEN "UNKNOWN"
    ELSE Head(policy.allowed_action_types)

(* allowed_institutions[0] of an empty list raises IndexError, so the      *)
(* rate-reduction planner answers only when there is an institution.       *)
build_plan_raises(policy) ==
    /\ first_action_type(policy) = "RATE_REDUCTION_REQUEST"
    /\ policy.allowed_institutions = <<>>

build_plan(policy) ==
    IF first_action_type(policy) = "RATE_REDUCTION_REQUEST"
    THEN rate_reduction_plan(policy)
    ELSE analysis_plan(policy, first_action_type(policy))

=============================================================================
