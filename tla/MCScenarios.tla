----------------------------- MODULE MCScenarios -----------------------------
(* Small instances of the scenario runner: one scenario, one operator with *)
(* a call of each operation at its request.                                *)
EXTENDS Scenarios, MCLifecycle, FiniteSetsExt

MCScenarioPolicy ==
    [s \in Scripts |-> IF s = "scope-exceeded-transfer" THEN "transfer" ELSE "hero"]

(* plan, custom_plan, evaluate, approve, reject, execute                   *)
OperatorCalls == Calls(1, 0, 1, 1, 1, 1)

(* Bound: of these five calls any three arrive.                            *)
ThreeCalls ==
    MapThenSumSet(LAMBDA op : OperatorCalls[op] - budget[op], Operations) <= 3

(* Bound: the run ends with the scenario.  A step that an operator takes   *)
(* later it may as well take before the session's last one.                *)
UntilOver == session.at \notin {"reported", "raised"}

=============================================================================
