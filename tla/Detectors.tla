------------------------------ MODULE Detectors ------------------------------
(***************************************************************************)
(* The scan of untrusted document text (app/security/detectors.py).        *)
(*                                                                         *)
(* A document is described by what the pattern lists find in it:           *)
(*   injection  - some _INJECTION_PATTERNS pattern matches                 *)
(*   tool_hint  - some _TOOL_CALL_HINTS pattern matches                    *)
(*   sensitive  - the _SENSITIVE_TOOL_NAMES that occur in the text         *)
(*   exfil      - some _EXFIL_PATTERNS pattern matches                     *)
(* None stands for Python's None and for the empty document.               *)
(***************************************************************************)

CONSTANT None

SensitiveToolNames == {"transfer_funds", "wire_transfer", "send_money", "disclose_account"}

Document == [injection : BOOLEAN, tool_hint : BOOLEAN,
             sensitive : SUBSET SensitiveToolNames, exfil : BOOLEAN]

SecuritySignals == [injection_detected : BOOLEAN,
                    attempted_unauthorized_tools : SUBSET (SensitiveToolNames \cup {"unknown_tool"}),
                    exfiltration_detected : BOOLEAN]

NoSignals == [injection_detected |-> FALSE,
              attempted_unauthorized_tools |-> {},
              exfiltration_detected |-> FALSE]

(* Sensitive names outside the allowlist; when the text commands a tool    *)
(* call, is an injection and names none, the placeholder "unknown_tool".   *)
attempted_tools(doc, allowed_tools) ==
    LET named == doc.sensitive \ allowed_tools
    IN  IF named = {} /\ doc.tool_hint /\ doc.injection
        THEN {"unknown_tool"}
        ELSE named

scan(doc, allowed_tools) ==
    IF doc = None
    THEN NoSignals
    ELSE [injection_detected |-> doc.injection,
          attempted_unauthorized_tools |-> attempted_tools(doc, allowed_tools),
          exfiltration_detected |-> doc.exfil]

any_critical(signals) ==
    \/ signals.injection_detected
    \/ signals.attempted_unauthorized_tools # {}
    \/ signals.exfiltration_detected

=============================================================================
