----------------------------- MODULE ToolGateway -----------------------------
(***************************************************************************)
(* The tool gateway (app/domain/gateway/gateway.py) and the registry of    *)
(* simulated tools it calls (app/domain/adapters/registry.py).             *)
(*                                                                         *)
(* The arguments of a call are abstracted to the JSON type of each         *)
(* property, which is all that the argument schemas look at.               *)
(***************************************************************************)
EXTENDS Sequences, Naturals

(* Every schema lists all its properties as required and allows no other,  *)
(* so arguments are valid exactly when they are these properties with      *)
(* these types.                                                            *)
TOOL_ARG_SCHEMAS ==
    [read_loan_profile |->
        [institution |-> "string", product |-> "string"],
     prepare_rate_reduction_request |->
        [institution |-> "string", product |-> "string", basis |-> "array"],
     submit_rate_reduction_request |->
        [institution |-> "string", product |-> "string"]]

ADAPTERS == {"read_loan_profile", "prepare_rate_reduction_request",
             "submit_rate_reduction_request"}

(* The "status" entry of the adapter's answer; the loan profile has none.  *)
adapter_status(tool) ==
    CASE tool = "submit_rate_reduction_request" -> "SUBMITTED"
      [] tool = "prepare_rate_reduction_request" -> "PREPARED"
      [] OTHER -> "NONE"

arguments_valid(call) ==
    /\ call.tool \in DOMAIN TOOL_ARG_SCHEMAS
    /\ call.arguments = TOOL_ARG_SCHEMAS[call.tool]

blocked(call, allowed_tools) ==
    \/ call.tool \notin allowed_tools
    \/ call.tool \notin DOMAIN TOOL_ARG_SCHEMAS
    \/ call.tool \notin ADAPTERS
    \/ ~arguments_valid(call)

(* What execute_plan_tools records and returns for a plan's calls, in      *)
(* order: the ToolCall statuses, and whether some completed call answered  *)
(* SUBMITTED (final_outcome is not None).                                  *)
execute_plan_tools(calls, allowed_tools) ==
    LET status == [i \in DOMAIN calls |->
                     IF blocked(calls[i], allowed_tools) THEN "BLOCKED" ELSE "COMPLETED"]
    IN  [tool_calls |-> status,
         outcome |-> \E i \in DOMAIN calls :
                        /\ status[i] = "COMPLETED"
                        /\ adapter_status(calls[i].tool) = "SUBMITTED"]

=============================================================================
