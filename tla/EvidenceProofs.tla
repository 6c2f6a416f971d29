---------------------------- MODULE EvidenceProofs ----------------------------
(***************************************************************************)
(* What the tables show of a request, for any number of requests, workers, *)
(* keys and calls: every state has its evidence, evidence is never ahead   *)
(* of what happened, an execution never asks for an approval, and without  *)
(* crashes the trail is complete whenever no handler runs.                 *)
(*                                                                         *)
(* Two invariants are carried beside LifecycleProofs' IInv.  One says what *)
(* a handler has committed, or read, before it comes to a label (Stage,    *)
(* Reviewed).  The other keeps accounts: an account's surplus is what the  *)
(* tables and the adapter show on one side less what they show on the      *)
(* other, and it is at least the number of handlers that still owe it an   *)
(* entry.                                                                  *)
(***************************************************************************)
EXTENDS LifecycleProofs

-----------------------------------------------------------------------------
(* What a handler at label lab with locals l has behind it.                *)

(* The delegation of a request wants a human for the plan it leads to.     *)
NeedsReview(row) ==
    needs_approval(Delegations[row.policy], P!build_plan(Delegations[row.policy]))

SameReview(row, plan) == needs_approval(Delegations[row.policy], plan) <=> NeedsReview(row)

Allowed == {"set_executing", "started_event", "run_tools", "store_calls", "store_execution",
            "completed_event"}
Blocked == {"set_blocked", "blocked_calls", "blocked_event", "incident", "incident_event",
            "no_execution"}
Ran == {"store_execution", "completed_event"}

(* What an execution's gateway run comes to, under the request's policy.   *)
run_outcome(row, plan) ==
    execute_plan_tools(plan.proposed_tool_calls, Delegations[row.policy].allowed_tools).outcome

Stage(row, lab, l) ==
    /\ lab \in {"read_key", "read_approval"} => l.op = "execute"
    /\ lab = "decide" => l.op \in {"evaluate", "execute"}
    /\ lab \in {"evaluated_event", "set_decided"} =>
          \E e \in row.evaluations : e.decision = l.decision
    /\ lab \in Allowed => /\ l.op = "execute" /\ l.decision = "ALLOW"
                          /\ \E e \in row.evaluations : e.decision = "ALLOW"
    /\ lab = "store_calls" => l.outcome = run_outcome(row, l.plan)
    /\ lab \in Ran => l.outcome \in BOOLEAN
    /\ lab \in Blocked => blocks(l.decision)
    /\ lab \in {"incident", "incident_event"} => l.decision = "QUARANTINE"
    /\ lab \in {"receipt_event", "store_receipt"} =>
          \/ blocks(l.decision)
          \/ l.op = "execute" /\ l.decision = "ALLOW" /\ l.outcome \in BOOLEAN
    /\ lab = "set_issued" => \E s \in ReceiptStatuses : row.receipts[s] > 0

(* An execution is past the point where it looks at the state.             *)
admitted(lab, l) ==
    /\ l.op = "execute"
    /\ \/ lab \in {"read_policy", "read_plan", "read_approval"}
       \/ lab = "read_key" /\ l.state \in {"ALLOWED", "APPROVED"}

Reviewed(row, lab, l) ==
    /\ lab \in Called \cup {"persist_plan"} /\ l.op = "custom_plan" => row.policy \in ScopePolicies
    /\ lab \in {"read_approval", "decide"} => SameReview(row, l.plan)
    /\ lab \in Called \cup {"read_approval"} => l.approval = None
    /\ lab = "decide" /\ l.op = "evaluate" => l.approval = None
    /\ admitted(lab, l) /\ NeedsReview(row) => row.approved # <<>>
    /\ lab = "decide" /\ l.op = "execute" /\ NeedsReview(row) => l.approval # None
    /\ lab \in {"evaluated_event", "set_decided"} /\ l.decision = "ALLOW" => ~NeedsReview(row)

(* What a row must show when the request is in state s.                    *)
Backed(row, s) ==
    /\ s = "APPROVAL_REQUIRED" => \E e \in row.evaluations : e.decision = "REQUIRE_APPROVAL"
    /\ s = "ALLOWED" => ~NeedsReview(row)
    /\ s = "APPROVED" => row.approved # <<>>
    /\ s = "REJECTED" => row.rejected > 0
    /\ s = "EXECUTING" => \E e \in row.evaluations : e.decision = "ALLOW"
    /\ s = "EXECUTED" => row.executions["SUBMITTED"] > 0
    /\ s = "FAILED_SAFE" => row.executions["FAILED_SAFE"] > 0
    /\ s = "RECEIPT_ISSUED" => \E t \in ReceiptStatuses : row.receipts[t] > 0

RowShows(row) ==
    /\ Backed(row, row.state)
    /\ \A i \in DOMAIN row.plans : SameReview(row, row.plans[i])
    /\ row.receipts["APPROVAL_REQUIRED"] = 0

HandlerShows(rows, lab, l) ==
    lab # "idle" => /\ Stage(rows[l.request], lab, l)
                    /\ Reviewed(rows[l.request], lab, l)

-----------------------------------------------------------------------------
(* The accounts.                                                           *)

Effects == {"completed", "failed", "blocked", "quarantined", "submissions"}
Trail == {"granted", "rejected", "incidents", "executions", "receipts"}
Accounts == Effects \cup Trail \cup {"calls"}

receipts_of(row) ==
    row.receipts["COMPLETED"] + row.receipts["FAILED_SAFE"] + row.receipts["BLOCKED"]
      + row.receipts["QUARANTINED"] + row.receipts["APPROVAL_REQUIRED"]

Surplus(a, row, list) ==
    CASE a = "completed" -> row.executions["SUBMITTED"] - row.receipts["COMPLETED"]
      [] a = "failed" -> row.executions["FAILED_SAFE"] - row.receipts["FAILED_SAFE"]
      [] a = "blocked" -> row.executions["NO_EXECUTION"]
                            - (row.receipts["BLOCKED"] + row.receipts["QUARANTINED"])
      [] a = "quarantined" -> row.incidents - row.receipts["QUARANTINED"]
      [] a = "submissions" -> Len(list) - row.executions["SUBMITTED"]
      [] a = "calls" -> row.tool_calls["COMPLETED"] - row.executions["SUBMITTED"]
      [] a = "granted" -> Len(row.approved) - row.events["APPROVAL_GRANTED"]
      [] a = "rejected" -> row.rejected - row.events["APPROVAL_REJECTED"]
      [] a = "incidents" -> row.incidents - row.events["INCIDENT_QUARANTINED"]
      [] a = "executions" -> (row.executions["SUBMITTED"] + row.executions["FAILED_SAFE"])
                               - row.events["TOOL_CALL_COMPLETED"]
      [] a = "receipts" -> row.events["RECEIPT_ISSUED"] - receipts_of(row)

Issuing == {"completed_event", "receipt_event", "store_receipt"}

Owes(a, lab, l) ==
    \/ a = "completed" /\ lab \in Issuing /\ l.decision = "ALLOW" /\ l.outcome = TRUE
    \/ a = "failed" /\ lab \in Issuing /\ l.decision = "ALLOW" /\ l.outcome = FALSE
    \/ a = "blocked" /\ lab = "store_receipt" /\ blocks(l.decision)
    \/ /\ a = "quarantined" /\ l.decision = "QUARANTINE"
       /\ lab \in {"incident_event", "receipt_event", "no_execution", "store_receipt"}
    \/ a = "submissions" /\ lab \in {"store_calls", "store_execution"} /\ l.outcome = TRUE
    \/ a = "calls" /\ lab = "store_execution" /\ l.outcome = TRUE
    \/ a = "granted" /\ lab = "granted_event"
    \/ a = "rejected" /\ lab = "refused_event"
    \/ a = "incidents" /\ lab = "incident_event"
    \/ a = "executions" /\ lab = "completed_event"
    \/ a = "receipts" /\ lab \in {"no_execution", "store_receipt"}

Debtors(a, r) == {w \in Workers : req(w) = r /\ Owes(a, pc[w], loc[w])}

(* What every account of a request keeps to; without crashes its surplus   *)
(* is what is owed and no more, except that a run completes more calls     *)
(* than one.                                                               *)
Solvent(r) ==
    \A a \in Accounts :
        /\ Cardinality(Debtors(a, r)) <= Surplus(a, db[r], submissions[r])
        /\ ~MayCrash /\ a # "calls" =>
              Cardinality(Debtors(a, r)) = Surplus(a, db[r], submissions[r])

(* The inductive invariant.                                                *)
Shown ==
    /\ \A r \in Requests : RowShows(db[r])
    /\ \A w \in Workers : HandlerShows(db, pc[w], loc[w])

Audit == Shown /\ \A r \in Requests : Solvent(r)

-----------------------------------------------------------------------------
(* A step of a handler, and what it has to show.                           *)

(* What the rows of a request keep for the other handlers.                 *)
Preserves(old, new) ==
    /\ new.policy = old.policy
    /\ old.evaluations \subseteq new.evaluations
    /\ old.approved # <<>> => new.approved # <<>>
    /\ old.rejected > 0 => new.rejected > 0
    /\ \A s \in ReceiptStatuses : old.receipts[s] > 0 => new.receipts[s] > 0
    /\ \A s \in {"SUBMITTED", "FAILED_SAFE"} : old.executions[s] > 0 => new.executions[s] > 0

Due(a, lab, l) == IF Owes(a, lab, l) THEN 1 ELSE 0

(* What an account gains when a handler goes from label lab to lab2.       *)
Gain(a, row, list, lab, l, row2, list2, lab2, l2) ==
    (Surplus(a, row2, list2) - Due(a, lab2, l2)) - (Surplus(a, row, list) - Due(a, lab, l))

Settles(row, list, lab, l, row2, list2, lab2, l2) ==
    \A a \in Accounts : LET gain == Gain(a, row, list, lab, l, row2, list2, lab2, l2) IN
        /\ gain >= 0
        /\ ~MayCrash /\ a # "calls" => gain = 0

(* The entries of the accounts are numbers.                                *)
CountedExecutions(row) ==
    /\ row.executions["SUBMITTED"] \in Nat /\ row.executions["FAILED_SAFE"] \in Nat
    /\ row.executions["NO_EXECUTION"] \in Nat

CountedReceipts(row) ==
    /\ row.receipts["COMPLETED"] \in Nat /\ row.receipts["FAILED_SAFE"] \in Nat
    /\ row.receipts["BLOCKED"] \in Nat /\ row.receipts["QUARANTINED"] \in Nat
    /\ row.receipts["APPROVAL_REQUIRED"] \in Nat

CountedEvents(row) ==
    /\ row.events["APPROVAL_GRANTED"] \in Nat /\ row.events["APPROVAL_REJECTED"] \in Nat
    /\ row.events["INCIDENT_QUARANTINED"] \in Nat
    /\ row.events["TOOL_CALL_COMPLETED"] \in Nat /\ row.events["RECEIPT_ISSUED"] \in Nat

CountedRows(row) ==
    /\ row.tool_calls["COMPLETED"] \in Nat
    /\ row.incidents \in Nat /\ row.rejected \in Nat /\ Len(row.approved) \in Nat

LEMMA CountTypes ==
    ASSUME NEW row \in RequestRows
    PROVE  CountedExecutions(row) /\ CountedReceipts(row) /\ CountedEvents(row) /\ CountedRows(row)
<1>1. CountedExecutions(row)
  BY DEF RequestRows, CountedExecutions
<1>2. CountedReceipts(row)
  <2>1. row.receipts \in [ReceiptStatuses -> Nat]
    BY DEF RequestRows
  <2>2. QED
    BY <2>1 DEF ReceiptStatuses, CountedReceipts
<1>3. CountedEvents(row)
  <2>1. row.events \in [EventTypes -> Nat]
    BY DEF RequestRows
  <2>2. QED
    BY <2>1 DEF EventTypes, CountedEvents
<1>4. CountedRows(row)
  <2>1. row.approved \in Seq(Approvals)
    BY DEF RequestRows
  <2>2. Len(row.approved) \in Nat
    BY <2>1
  <2>3. QED
    BY <2>2 DEF RequestRows, CountedRows
<1>5. QED
  BY <1>1, <1>2, <1>3, <1>4

LEMMA AccountCases ==
    ASSUME NEW a \in Accounts
    PROVE  \/ a = "completed" \/ a = "failed" \/ a = "blocked" \/ a = "quarantined"
           \/ a = "submissions" \/ a = "calls" \/ a = "granted" \/ a = "rejected"
           \/ a = "incidents" \/ a = "executions" \/ a = "receipts"
  BY DEF Accounts, Effects, Trail

LEMMA Surpluses ==
    ASSUME NEW row, NEW list
    PROVE  /\ Surplus("completed", row, list) = row.executions["SUBMITTED"] - row.receipts["COMPLETED"]
           /\ Surplus("failed", row, list)
                = row.executions["FAILED_SAFE"] - row.receipts["FAILED_SAFE"]
           /\ Surplus("blocked", row, list)
                = row.executions["NO_EXECUTION"]
                    - (row.receipts["BLOCKED"] + row.receipts["QUARANTINED"])
           /\ Surplus("quarantined", row, list) = row.incidents - row.receipts["QUARANTINED"]
           /\ Surplus("submissions", row, list) = Len(list) - row.executions["SUBMITTED"]
           /\ Surplus("calls", row, list)
                = row.tool_calls["COMPLETED"] - row.executions["SUBMITTED"]
           /\ Surplus("granted", row, list) = Len(row.approved) - row.events["APPROVAL_GRANTED"]
           /\ Surplus("rejected", row, list) = row.rejected - row.events["APPROVAL_REJECTED"]
           /\ Surplus("incidents", row, list) = row.incidents - row.events["INCIDENT_QUARANTINED"]
           /\ Surplus("executions", row, list)
                = (row.executions["SUBMITTED"] + row.executions["FAILED_SAFE"])
                    - row.events["TOOL_CALL_COMPLETED"]
           /\ Surplus("receipts", row, list) = row.events["RECEIPT_ISSUED"] - receipts_of(row)
  BY DEF Surplus

LEMMA SurplusType ==
    ASSUME NEW row \in RequestRows, NEW list \in Seq(Submissions), NEW a \in Accounts
    PROVE  Surplus(a, row, list) \in Int
<1>1. Len(list) \in Nat
  OBVIOUS
<1>2. CountedExecutions(row) /\ CountedReceipts(row) /\ CountedEvents(row) /\ CountedRows(row)
  BY CountTypes
<1>3. receipts_of(row) \in Int
  BY <1>2 DEF receipts_of, CountedReceipts
<1>4. CASE a = "completed" \/ a = "failed"
  BY <1>2, <1>4, Surpluses DEF CountedExecutions, CountedReceipts
<1>5. CASE a = "blocked" \/ a = "quarantined"
  <2>1. /\ row.receipts["BLOCKED"] \in Nat /\ row.receipts["QUARANTINED"] \in Nat
        /\ row.executions["NO_EXECUTION"] \in Nat /\ row.incidents \in Nat
    BY <1>2 DEF CountedRows, CountedExecutions, CountedReceipts
  <2>2. QED
    BY <2>1, <1>5, Surpluses
<1>6. CASE a = "submissions" \/ a = "calls"
  BY <1>1, <1>2, <1>6, Surpluses DEF CountedRows, CountedExecutions
<1>7. CASE a = "granted"
  <2>1. Len(row.approved) \in Nat /\ row.events["APPROVAL_GRANTED"] \in Nat
    BY <1>2 DEF CountedRows, CountedEvents
  <2>2. QED
    BY <2>1, <1>7, Surpluses
<1>8. CASE a = "rejected" \/ a = "incidents"
  <2>1. /\ row.rejected \in Nat /\ row.events["APPROVAL_REJECTED"] \in Nat
        /\ row.incidents \in Nat /\ row.events["INCIDENT_QUARANTINED"] \in Nat
    BY <1>2 DEF CountedRows, CountedEvents
  <2>2. QED
    BY <2>1, <1>8, Surpluses
<1>9. CASE a = "executions" \/ a = "receipts"
  BY <1>2, <1>3, <1>9, Surpluses DEF CountedExecutions, CountedEvents
<1>10. QED
  BY <1>4, <1>5, <1>6, <1>7, <1>8, <1>9, AccountCases

(* Of two sets of workers that agree but for w.                            *)
LEMMA Recount ==
    ASSUME NEW A \in SUBSET Workers, NEW B \in SUBSET Workers, NEW w,
           A \ {w} = B \ {w}
    PROVE  /\ Cardinality(A) \in Nat /\ Cardinality(B) \in Nat
           /\ Cardinality(B) = Cardinality(A) + (IF w \in B THEN 1 ELSE 0)
                                              - (IF w \in A THEN 1 ELSE 0)
<1>1. IsFiniteSet(A) /\ IsFiniteSet(B)
  BY WorkersAssumption, FS_Subset
<1>2. Cardinality(A) \in Nat /\ Cardinality(B) \in Nat
  BY <1>1, FS_CardinalityType
<1>3. /\ Cardinality(A \ {w}) = IF w \in A THEN Cardinality(A) - 1 ELSE Cardinality(A)
      /\ Cardinality(B \ {w}) = IF w \in B THEN Cardinality(B) - 1 ELSE Cardinality(B)
  BY <1>1, FS_RemoveElement
<1>4. QED
  BY <1>2, <1>3

(* The arithmetic of one account.                                          *)
LEMMA Accounting ==
    ASSUME NEW n \in Nat, NEW m \in Nat, NEW s \in Int, NEW t \in Int,
           NEW x \in {0, 1}, NEW y \in {0, 1},
           m = n + y - x, n <= s, (t - y) - (s - x) >= 0
    PROVE  /\ m <= t
           /\ n = s /\ (t - y) - (s - x) = 0 => m = t
  OBVIOUS

LEMMA StagePreserved ==
    ASSUME NEW old, NEW new, Preserves(old, new), NEW lab, NEW l, Stage(old, lab, l)
    PROVE  Stage(new, lab, l)
  BY DEF Preserves, Stage, run_outcome

LEMMA ReviewedPreserved ==
    ASSUME NEW old, NEW new, Preserves(old, new), NEW lab, NEW l, Reviewed(old, lab, l)
    PROVE  Reviewed(new, lab, l)
  BY DEF Preserves, Reviewed, SameReview, NeedsReview

LEMMA IdleOwesNothing == \A a \in Accounts : ~Owes(a, "idle", Idle)
  BY DEF Accounts, Effects, Trail, Owes, Issuing

(* A handler that comes to label lab knows what that label stands for.     *)
Arrives(w, row, lab, l) ==
    \/ lab = "idle" /\ l = Idle
    \/ l.request = req(w) /\ Stage(row, lab, l) /\ Reviewed(row, lab, l)

LEMMA HandlerMoves ==
    ASSUME IInv, IInv', Audit, NEW w \in Workers, pc[w] # "idle",
           NEW row, NEW list, NEW lab, NEW l,
           db' = [db EXCEPT ![req(w)] = row],
           submissions' = [submissions EXCEPT ![req(w)] = list],
           pc' = [pc EXCEPT ![w] = lab],
           loc' = [loc EXCEPT ![w] = l],
           RowShows(row), Preserves(db[req(w)], row), Arrives(w, row, lab, l),
           Settles(db[req(w)], submissions[req(w)], pc[w], loc[w], row, list, lab, l)
    PROVE  Audit'
<1>1. /\ db \in [Requests -> RequestRows] /\ pc \in [Workers -> Labels]
      /\ loc \in [Workers -> Locals] /\ submissions \in [Requests -> Seq(Submissions)]
      /\ req(w) \in Requests /\ req(w) # None
      /\ db' \in [Requests -> RequestRows]
      /\ submissions' \in [Requests -> Seq(Submissions)]
  BY Running, NoneAssumption DEF IInv, TypeOK
<1>2. db'[req(w)] = row /\ submissions'[req(w)] = list
  BY <1>1
<1>3. ASSUME NEW r \in Requests PROVE RowShows(db'[r])
  BY <1>1, <1>2 DEF Audit, Shown
<1>4. ASSUME NEW v \in Workers PROVE HandlerShows(db', pc'[v], loc'[v])
  <2>1. CASE v = w
    BY <1>1, <1>2, <2>1 DEF Arrives, HandlerShows
  <2>2. CASE v # w /\ pc[v] # "idle"
    <3>1. /\ pc'[v] = pc[v] /\ loc'[v] = loc[v] /\ loc[v].request \in Requests
          /\ Stage(db[loc[v].request], pc[v], loc[v])
          /\ Reviewed(db[loc[v].request], pc[v], loc[v])
      BY <1>1, <2>2, Running DEF Audit, Shown, HandlerShows, req
    <3>2. CASE loc[v].request = req(w)
      BY <1>2, <3>1, <3>2, StagePreserved, ReviewedPreserved DEF HandlerShows
    <3>3. CASE loc[v].request # req(w)
      BY <1>1, <3>1, <3>3 DEF HandlerShows
    <3>4. QED
      BY <3>2, <3>3
  <2>3. CASE v # w /\ pc[v] = "idle"
    BY <1>1, <2>3 DEF HandlerShows
  <2>4. QED
    BY <2>1, <2>2, <2>3
<1>5. ASSUME NEW r \in Requests, NEW a \in Accounts
      PROVE  /\ Cardinality(Debtors(a, r)') <= Surplus(a, db'[r], submissions'[r])
             /\ ~MayCrash /\ a # "calls" =>
                   Cardinality(Debtors(a, r)') = Surplus(a, db'[r], submissions'[r])
  <2> DEFINE A == Debtors(a, r)
             B == {v \in Workers : loc'[v].request = r /\ Owes(a, pc'[v], loc'[v])}
  <2>1. Debtors(a, r)' = B
    BY DEF Debtors, req
  <2>2. A \in SUBSET Workers /\ B \in SUBSET Workers /\ A \ {w} = B \ {w}
    BY <1>1 DEF Debtors, req
  <2>3. /\ w \in A <=> req(w) = r /\ Owes(a, pc[w], loc[w])
        /\ w \in B <=> req(w) = r /\ Owes(a, lab, l)
    <3>1. loc'[w] = l /\ pc'[w] = lab
      BY <1>1
    <3>2. lab = "idle" /\ l = Idle => ~Owes(a, lab, l)
      BY IdleOwesNothing
    <3>3. QED
      BY <3>1, <3>2 DEF Arrives, Debtors
  <2>4. /\ Cardinality(A) <= Surplus(a, db[r], submissions[r])
        /\ ~MayCrash /\ a # "calls" => Cardinality(A) = Surplus(a, db[r], submissions[r])
    BY DEF Audit, Solvent
  <2>5. /\ Surplus(a, db[r], submissions[r]) \in Int
        /\ Surplus(a, db'[r], submissions'[r]) \in Int
    BY <1>1, SurplusType
  <2>6. /\ Cardinality(A) \in Nat /\ Cardinality(B) \in Nat
        /\ Cardinality(B) = Cardinality(A) + (IF w \in B THEN 1 ELSE 0)
                                           - (IF w \in A THEN 1 ELSE 0)
    <3> HIDE DEF A, B
    <3>1. QED
      BY <2>2, Recount
  <2> DEFINE x == IF w \in A THEN 1 ELSE 0
             y == IF w \in B THEN 1 ELSE 0
             s == Surplus(a, db[r], submissions[r])
             t == Surplus(a, db'[r], submissions'[r])
  <2>7. CASE r = req(w)
    <3>1. (t - y) - (s - x) >= 0 /\ (~MayCrash /\ a # "calls" => (t - y) - (s - x) = 0)
      <4> HIDE DEF A, B
      <4>1. QED
        BY <1>2, <2>3, <2>7 DEF Settles, Gain, Due
    <3>2. x \in {0, 1} /\ y \in {0, 1}
      OBVIOUS
    <3> HIDE DEF A, B, x, y, s, t
    <3>3. /\ Cardinality(B) <= t
          /\ Cardinality(A) = s /\ (t - y) - (s - x) = 0 => Cardinality(B) = t
      <4>1. Cardinality(B) = Cardinality(A) + y - x
        BY <2>6 DEF x, y
      <4>2. s \in Int /\ t \in Int /\ Cardinality(A) <= s
        BY <2>4, <2>5 DEF s, t
      <4>3. QED
        BY <2>6, <3>1, <3>2, <4>1, <4>2, Accounting
    <3>4. QED
      BY <2>1, <2>4, <3>1, <3>3 DEF s, t
  <2>8. CASE r # req(w)
    <3>1. db'[r] = db[r] /\ submissions'[r] = submissions[r] /\ w \notin A /\ w \notin B
      BY <1>1, <2>3, <2>8
    <3> HIDE DEF A, B
    <3>2. QED
      BY <2>1, <2>4, <2>6, <3>1
  <2>9. QED
    BY <2>7, <2>8
<1>6. QED
  BY <1>3, <1>4, <1>5 DEF Audit, Shown, Solvent

-----------------------------------------------------------------------------
(* Steps between labels at which nothing is owed.                          *)

Owing == {"granted_event", "refused_event", "store_calls", "store_execution", "completed_event",
          "incident_event", "receipt_event", "no_execution", "store_receipt"}

OwesNone(lab, l) == \A a \in Accounts : ~Owes(a, lab, l)

LEMMA CalmOwesNone == ASSUME NEW lab, lab \notin Owing, NEW l PROVE OwesNone(lab, l)
  BY DEF Accounts, Effects, Trail, Owes, Issuing, OwesNone, Owing

(* A refusal that is no quarantine owes no receipt event.                  *)
LEMMA DenialOwesNone ==
    ASSUME NEW l, blocks(l.decision), l.decision # "QUARANTINE"
    PROVE  OwesNone("receipt_event", l)
  BY DEF Accounts, Effects, Trail, Owes, Issuing, OwesNone, blocks

(* Two rows that the accounts do not tell apart.                           *)
SameLedger(row, row2) ==
    /\ row2.executions = row.executions
    /\ row2.receipts = row.receipts
    /\ row2.tool_calls["COMPLETED"] = row.tool_calls["COMPLETED"]
    /\ row2.incidents = row.incidents
    /\ row2.rejected = row.rejected
    /\ Len(row2.approved) = Len(row.approved)
    /\ \A e \in {"APPROVAL_GRANTED", "APPROVAL_REJECTED", "INCIDENT_QUARANTINED",
                  "TOOL_CALL_COMPLETED", "RECEIPT_ISSUED"} : row2.events[e] = row.events[e]

LEMMA SameSurplus ==
    ASSUME NEW row, NEW row2, SameLedger(row, row2), NEW list, NEW a \in Accounts
    PROVE  Surplus(a, row2, list) = Surplus(a, row, list)
<1>1. receipts_of(row2) = receipts_of(row)
  BY DEF SameLedger, receipts_of
<1>2. QED
  BY <1>1, AccountCases, Surpluses DEF SameLedger

LEMMA SameSettles ==
    ASSUME NEW row \in RequestRows, NEW row2, SameLedger(row, row2),
           NEW list \in Seq(Submissions), NEW lab, NEW l, NEW lab2, NEW l2,
           \A a \in Accounts : Due(a, lab2, l2) = Due(a, lab, l)
    PROVE  Settles(row, list, lab, l, row2, list, lab2, l2)
<1> SUFFICES ASSUME NEW a \in Accounts
             PROVE  Gain(a, row, list, lab, l, row2, list, lab2, l2) = 0
  BY DEF Settles
<1>1. Surplus(a, row2, list) = Surplus(a, row, list) /\ Surplus(a, row, list) \in Int
  BY SameSurplus, SurplusType
<1>2. Due(a, lab, l) \in Int /\ Due(a, lab2, l2) = Due(a, lab, l)
  BY DEF Due
<1>3. QED
  BY <1>1, <1>2 DEF Gain

LEMMA BackedPreserved ==
    ASSUME NEW old, NEW new, Preserves(old, new), NEW s, Backed(old, s)
    PROVE  Backed(new, s)
  BY DEF Preserves, Backed, NeedsReview

LEMMA RowGoesOn ==
    ASSUME NEW old, NEW new, RowShows(old), Preserves(old, new),
           new.state = old.state \/ Backed(new, new.state),
           new.plans = old.plans, new.receipts["APPROVAL_REQUIRED"] = 0
    PROVE  RowShows(new)
  BY BackedPreserved DEF RowShows, SameReview, NeedsReview, Preserves

(* The row of a running handler, and what that handler shows.              *)
LEMMA RunningShows ==
    ASSUME IInv, Audit, NEW w \in Workers, pc[w] # "idle"
    PROVE  /\ req(w) \in Requests /\ db[req(w)] \in RequestRows
           /\ submissions[req(w)] \in Seq(Submissions)
           /\ RowShows(db[req(w)])
           /\ Stage(db[req(w)], pc[w], loc[w]) /\ Reviewed(db[req(w)], pc[w], loc[w])
<1>1. /\ req(w) \in Requests /\ db[req(w)] \in RequestRows
      /\ submissions[req(w)] \in Seq(Submissions)
  BY Running DEF IInv, TypeOK
<1>2. QED
  BY <1>1 DEF Audit, Shown, HandlerShows, req

LEMMA CalmCommit ==
    ASSUME IInv, IInv', Audit, NEW w \in Workers, pc[w] # "idle", OwesNone(pc[w], loc[w]),
           NEW row, SameLedger(db[req(w)], row),
           RowShows(row), Preserves(db[req(w)], row),
           NEW lab, NEW l, OwesNone(lab, l), Arrives(w, row, lab, l),
           db' = [db EXCEPT ![req(w)] = row], submissions' = submissions,
           pc' = [pc EXCEPT ![w] = lab], loc' = [loc EXCEPT ![w] = l]
    PROVE  Audit'
<1>1. /\ db[req(w)] \in RequestRows /\ submissions[req(w)] \in Seq(Submissions)
      /\ submissions' = [submissions EXCEPT ![req(w)] = submissions[req(w)]]
  BY RunningShows DEF IInv, TypeOK
<1>2. \A a \in Accounts : Due(a, lab, l) = Due(a, pc[w], loc[w])
  BY DEF Due, OwesNone
<1>3. Settles(db[req(w)], submissions[req(w)], pc[w], loc[w], row, submissions[req(w)], lab, l)
  BY <1>1, <1>2, SameSettles
<1>4. QED
  BY <1>1, <1>3, HandlerMoves

LEMMA PreservesReflexive == ASSUME NEW row PROVE Preserves(row, row) /\ SameLedger(row, row)
  BY DEF Preserves, SameLedger

(* A step that only reads.                                                 *)
LEMMA CalmReading ==
    ASSUME IInv, IInv', Audit, NEW w \in Workers, pc[w] # "idle", OwesNone(pc[w], loc[w]),
           NEW lab, NEW l, OwesNone(lab, l), Arrives(w, db[req(w)], lab, l),
           db' = db, submissions' = submissions,
           pc' = [pc EXCEPT ![w] = lab], loc' = [loc EXCEPT ![w] = l]
    PROVE  Audit'
<1>1. RowShows(db[req(w)]) /\ db' = [db EXCEPT ![req(w)] = db[req(w)]]
  BY RunningShows DEF IInv, TypeOK
<1>2. QED
  BY <1>1, PreservesReflexive, CalmCommit

(* A commit of an event: nothing but the events changes.                   *)
LEMMA EventShows ==
    ASSUME NEW old \in RequestRows, RowShows(old), NEW type \in EventTypes
    PROVE  LET new == [old EXCEPT !.events[type] = @ + 1] IN
           /\ new.events = [old.events EXCEPT ![type] = @ + 1]
           /\ new.executions = old.executions /\ new.receipts = old.receipts
           /\ new.tool_calls = old.tool_calls /\ new.incidents = old.incidents
           /\ new.rejected = old.rejected /\ new.approved = old.approved
           /\ Preserves(old, new) /\ RowShows(new)
<1> DEFINE new == [old EXCEPT !.events[type] = @ + 1]
<1>1. /\ new.events = [old.events EXCEPT ![type] = @ + 1]
      /\ new.executions = old.executions /\ new.receipts = old.receipts
      /\ new.tool_calls = old.tool_calls /\ new.incidents = old.incidents
      /\ new.rejected = old.rejected /\ new.approved = old.approved
      /\ new.policy = old.policy /\ new.evaluations = old.evaluations
      /\ new.state = old.state /\ new.plans = old.plans
  BY DEF RequestRows
<1> HIDE DEF new
<1>2. Preserves(old, new)
  BY <1>1 DEF Preserves
<1>3. RowShows(new)
  BY <1>1, <1>2, RowGoesOn DEF RowShows
<1>4. QED
  BY <1>1, <1>2, <1>3 DEF new

(* The events that no account counts.                                      *)
LEMMA CalmEvent ==
    ASSUME IInv, IInv', Audit, NEW w \in Workers, pc[w] # "idle", OwesNone(pc[w], loc[w]),
           NEW type \in {"REQUEST_RECEIVED", "PLAN_CREATED", "POLICY_EVALUATED",
                         "APPROVAL_REQUESTED", "TOOL_CALL_STARTED", "TOOL_CALL_BLOCKED"},
           append_event(w, type), submissions' = submissions,
           NEW lab, NEW l, OwesNone(lab, l), Arrives(w, db[req(w)], lab, l),
           pc' = [pc EXCEPT ![w] = lab], loc' = [loc EXCEPT ![w] = l]
    PROVE  Audit'
<1> DEFINE old == db[req(w)]
           row == [old EXCEPT !.events[type] = @ + 1]
<1>1. old \in RequestRows /\ RowShows(old)
  BY RunningShows
<1>2. type \in EventTypes
  BY DEF EventTypes
<1>3. db' = [db EXCEPT ![req(w)] = row]
  BY DEF append_event
<1>4. /\ row.events = [old.events EXCEPT ![type] = @ + 1]
      /\ row.executions = old.executions /\ row.receipts = old.receipts
      /\ row.tool_calls = old.tool_calls /\ row.incidents = old.incidents
      /\ row.rejected = old.rejected /\ row.approved = old.approved
      /\ Preserves(old, row) /\ RowShows(row)
  BY <1>1, <1>2, EventShows
<1>5. old.events \in [EventTypes -> Nat]
  BY <1>1 DEF RequestRows
<1> HIDE DEF row
<1>6. SameLedger(old, row)
  BY <1>4, <1>5 DEF SameLedger, EventTypes
<1>7. Arrives(w, row, lab, l)
  BY <1>4, StagePreserved, ReviewedPreserved DEF Arrives
<1> HIDE DEF old
<1>8. QED
  BY <1>3, <1>4, <1>6, <1>7, CalmCommit DEF old

LEMMA IdleArrives == ASSUME NEW w, NEW row PROVE Arrives(w, row, "idle", Idle) /\ OwesNone("idle", Idle)
  BY CalmOwesNone DEF Arrives, Owing

(* A handler that goes on with its locals.                                 *)
LEMMA Continues ==
    ASSUME IInv, NEW w \in Workers, NEW row, NEW lab,
           Stage(row, lab, loc[w]), Reviewed(row, lab, loc[w])
    PROVE  Arrives(w, row, lab, loc[w])
  BY DEF Arrives, req

LEMMA CalmEventSteps ==
    ASSUME IInv, IInv', Audit, NEW w \in Workers,
           \/ received_event(w) \/ plan_event(w) \/ evaluated_event(w) \/ approval_event(w)
           \/ started_event(w) \/ blocked_event(w)
    PROVE  Audit'
<1>1. pc[w] # "idle" /\ submissions' = submissions /\ OwesNone(pc[w], loc[w])
  BY CalmOwesNone DEF received_event, plan_event, evaluated_event, approval_event, started_event,
                      blocked_event, world, Owing
<1>2. Stage(db[req(w)], pc[w], loc[w]) /\ Reviewed(db[req(w)], pc[w], loc[w])
  BY <1>1, RunningShows
<1>3. CASE received_event(w) \/ plan_event(w) \/ approval_event(w)
  <2>1. PICK type \in {"REQUEST_RECEIVED", "PLAN_CREATED", "APPROVAL_REQUESTED"} :
           append_event(w, type) /\ finish(w)
    BY <1>3 DEF received_event, plan_event, approval_event
  <2>2. pc' = [pc EXCEPT ![w] = "idle"] /\ loc' = [loc EXCEPT ![w] = Idle]
    BY <2>1 DEF finish
  <2>3. QED
    BY <1>1, <2>1, <2>2, IdleArrives, CalmEvent
<1>4. CASE evaluated_event(w)
  <2>1. Stage(db[req(w)], "set_decided", loc[w]) /\ Reviewed(db[req(w)], "set_decided", loc[w])
    BY <1>2, <1>4 DEF evaluated_event, Stage, Reviewed, Called, Allowed, Blocked, Ran, admitted
  <2>2. OwesNone("set_decided", loc[w])
    BY CalmOwesNone DEF Owing
  <2>3. /\ append_event(w, "POLICY_EVALUATED") /\ pc' = [pc EXCEPT ![w] = "set_decided"]
        /\ loc' = [loc EXCEPT ![w] = loc[w]]
    BY <1>1, <1>4, Stays DEF evaluated_event, goto
  <2>4. QED
    BY <1>1, <2>1, <2>2, <2>3, Continues, CalmEvent
<1>5. CASE started_event(w)
  <2>1. Stage(db[req(w)], "run_tools", loc[w]) /\ Reviewed(db[req(w)], "run_tools", loc[w])
    BY <1>2, <1>5 DEF started_event, Stage, Reviewed, Called, Allowed, Blocked, Ran, admitted
  <2>2. OwesNone("run_tools", loc[w])
    BY CalmOwesNone DEF Owing
  <2>3. /\ append_event(w, "TOOL_CALL_STARTED") /\ pc' = [pc EXCEPT ![w] = "run_tools"]
        /\ loc' = [loc EXCEPT ![w] = loc[w]]
    BY <1>1, <1>5, Stays DEF started_event, goto
  <2>4. QED
    BY <1>1, <2>1, <2>2, <2>3, Continues, CalmEvent
<1>6. CASE blocked_event(w)
  <2> DEFINE lab == IF quarantined(w) THEN "incident" ELSE "receipt_event"
  <2>1. blocks(loc[w].decision)
    BY <1>2, <1>6 DEF blocked_event, Stage, Blocked
  <2>2. Stage(db[req(w)], lab, loc[w]) /\ Reviewed(db[req(w)], lab, loc[w])
    BY <1>2, <2>1 DEF quarantined, Stage, Reviewed, Called, Allowed, Blocked, Ran, admitted
  <2>3. OwesNone(lab, loc[w])
    BY <2>1, CalmOwesNone, DenialOwesNone DEF Owing, quarantined
  <2>4. /\ append_event(w, "TOOL_CALL_BLOCKED") /\ pc' = [pc EXCEPT ![w] = lab]
        /\ loc' = [loc EXCEPT ![w] = loc[w]]
    BY <1>1, <1>6, Stays DEF blocked_event, goto
  <2> HIDE DEF lab
  <2>5. QED
    BY <1>1, <2>2, <2>3, <2>4, Continues, CalmEvent
<1>7. QED
  BY <1>3, <1>4, <1>5, <1>6

-----------------------------------------------------------------------------
(* Reading.                                                                *)

LEMMA ReadKeyShows == ASSUME IInv, IInv', Audit, NEW w \in Workers, read_key(w) PROVE Audit'
<1>1. /\ pc[w] = "read_key" /\ pc[w] # "idle" /\ db' = db /\ submissions' = submissions
      /\ OwesNone(pc[w], loc[w])
  BY CalmOwesNone DEF read_key, Owing
<1>2. Stage(db[req(w)], pc[w], loc[w]) /\ Reviewed(db[req(w)], pc[w], loc[w])
  BY <1>1, RunningShows
<1>3. CASE finish(w)
  BY <1>1, <1>3, IdleArrives, CalmReading DEF finish
<1>4. CASE ~finish(w)
  <2>1. /\ loc[w].state \in {"ALLOWED", "APPROVED"} /\ loc' = [loc EXCEPT ![w] = loc[w]]
        /\ pc' = [pc EXCEPT ![w] = "read_policy"]
    BY <1>1, <1>4, Stays DEF read_key, legal_states, goto
  <2>2. Stage(db[req(w)], "read_policy", loc[w]) /\ Reviewed(db[req(w)], "read_policy", loc[w])
    BY <1>1, <1>2, <2>1 DEF Stage, Reviewed, Called, Allowed, Blocked, Ran, admitted
  <2>3. OwesNone("read_policy", loc[w])
    BY CalmOwesNone DEF Owing
  <2>4. QED
    BY <1>1, <2>1, <2>2, <2>3, Continues, CalmReading
<1>5. QED
  BY <1>3, <1>4

LEMMA ReadPolicyShows == ASSUME IInv, IInv', Audit, NEW w \in Workers, read_policy(w) PROVE Audit'
<1> DEFINE l == [loc[w] EXCEPT !.policy_status = policy_status[policy_id(w)]]
<1>1. /\ pc[w] = "read_policy" /\ pc[w] # "idle" /\ db' = db /\ submissions' = submissions
      /\ pc' = [pc EXCEPT ![w] = "read_plan"] /\ loc' = [loc EXCEPT ![w] = l]
      /\ OwesNone(pc[w], loc[w]) /\ OwesNone("read_plan", l)
  BY CalmOwesNone DEF read_policy, goto, world, Owing
<1>2. /\ Stage(db[req(w)], pc[w], loc[w]) /\ Reviewed(db[req(w)], pc[w], loc[w])
      /\ loc[w] \in Locals
  BY <1>1, RunningShows, Running
<1>3. /\ l.request = req(w) /\ l.op = loc[w].op /\ l.approval = loc[w].approval
  BY <1>2 DEF Locals, req
<1> HIDE DEF l
<1>4. Stage(db[req(w)], "read_plan", l) /\ Reviewed(db[req(w)], "read_plan", l)
  BY <1>1, <1>2, <1>3 DEF Stage, Reviewed, Called, Allowed, Blocked, Ran, admitted
<1>5. QED
  BY <1>1, <1>3, <1>4, CalmReading DEF Arrives

(* The plan that was read needs the review that the request's plan needs.  *)
LEMMA ReadPlanShows == ASSUME IInv, IInv', Audit, NEW w \in Workers, read_plan(w) PROVE Audit'
<1> DEFINE rows == db[req(w)].plans
           plan == IF rows = <<>> THEN None ELSE rows[1]
           l == [loc[w] EXCEPT !.plan = plan]
           lab == after_plan(loc[w].op)
<1>1. /\ pc[w] = "read_plan" /\ pc[w] # "idle" /\ db' = db /\ submissions' = submissions
      /\ OwesNone(pc[w], loc[w])
  BY CalmOwesNone DEF read_plan, world, Owing
<1>2. /\ Stage(db[req(w)], pc[w], loc[w]) /\ Reviewed(db[req(w)], pc[w], loc[w])
      /\ loc[w] \in Locals /\ loc[w].op \in Operations /\ RowShows(db[req(w)])
      /\ rows \in Seq(ActionPlans)
  BY <1>1, RunningShows, Running DEF Knows, Called, RequestRows
<1>3. CASE finish(w)
  BY <1>1, <1>3, IdleArrives, CalmReading DEF finish
<1>4. CASE ~finish(w)
  <2>1. /\ Len(rows) = 0 => loc[w].op \in {"plan", "custom_plan"}
        /\ loc' = [loc EXCEPT ![w] = l] /\ pc' = [pc EXCEPT ![w] = lab]
    BY <1>4 DEF read_plan, goto
  <2>2. /\ l.request = req(w) /\ l.op = loc[w].op /\ l.approval = loc[w].approval /\ l.plan = plan
    BY <1>2 DEF Locals, req
  <2>3. lab \in {"read_approval", "decide"} => SameReview(db[req(w)], plan)
    <3>1. lab \in {"read_approval", "decide"} => loc[w].op \in {"evaluate", "execute"}
      BY <1>2 DEF after_plan, Operations
    <3>2. rows # <<>> => 1 \in DOMAIN rows
      BY <1>2
    <3>3. rows = <<>> => Len(rows) = 0
      OBVIOUS
    <3>4. QED
      BY <1>2, <2>1, <3>1, <3>2, <3>3 DEF RowShows
  <2>4. /\ lab \in {"persist_plan", "decide", "grant", "refuse", "read_approval"}
        /\ lab = "persist_plan" <=> loc[w].op \in {"plan", "custom_plan"}
        /\ lab = "decide" <=> loc[w].op = "evaluate"
        /\ lab = "read_approval" <=> loc[w].op = "execute"
    BY <1>2 DEF after_plan, Operations
  <2> HIDE DEF l, lab, plan, rows
  <2>5. Stage(db[req(w)], lab, l)
    BY <2>2, <2>4 DEF Stage, Allowed, Blocked, Ran
  <2>6. Reviewed(db[req(w)], lab, l)
    BY <1>1, <1>2, <2>2, <2>3, <2>4 DEF Reviewed, Called, admitted
  <2>7. OwesNone(lab, l)
    BY <2>4, CalmOwesNone DEF Owing
  <2>8. QED
    BY <1>1, <2>1, <2>2, <2>5, <2>6, <2>7, CalmReading DEF Arrives
<1>5. QED
  BY <1>3, <1>4

(* An execution that was admitted under a review reads an approval.        *)
LEMMA ReadApprovalShows ==
    ASSUME IInv, IInv', Audit, NEW w \in Workers, read_approval(w) PROVE Audit'
<1> DEFINE rows == db[req(w)].approved
           approval == IF rows = <<>> THEN None ELSE rows[Len(rows)]
           l == [loc[w] EXCEPT !.approval = approval]
<1>1. /\ pc[w] = "read_approval" /\ pc[w] # "idle" /\ db' = db /\ submissions' = submissions
      /\ pc' = [pc EXCEPT ![w] = "decide"] /\ loc' = [loc EXCEPT ![w] = l]
      /\ OwesNone(pc[w], loc[w]) /\ OwesNone("decide", l)
  BY CalmOwesNone DEF read_approval, goto, world, Owing
<1>2. /\ Stage(db[req(w)], pc[w], loc[w]) /\ Reviewed(db[req(w)], pc[w], loc[w])
      /\ loc[w] \in Locals /\ rows \in Seq(Approvals)
  BY <1>1, RunningShows, Running DEF RequestRows
<1>3. rows # <<>> => approval # None
  <2>1. rows # <<>> => rows[Len(rows)] \in Approvals
    BY <1>2
  <2>2. None \notin Approvals
    BY NoRowAssumption
  <2>3. QED
    BY <2>1, <2>2
<1>4. /\ l.request = req(w) /\ l.op = loc[w].op /\ l.approval = approval /\ l.plan = loc[w].plan
  BY <1>2 DEF Locals, req
<1> HIDE DEF l, approval
<1>5. Stage(db[req(w)], "decide", l) /\ Reviewed(db[req(w)], "decide", l)
  BY <1>1, <1>2, <1>3, <1>4 DEF Stage, Reviewed, Called, Allowed, Blocked, Ran, admitted
<1>6. QED
  BY <1>1, <1>4, <1>5, CalmReading DEF Arrives

-----------------------------------------------------------------------------
(* Commits that no account notices.                                        *)

(* A commit of a state that the tables back.                               *)
LEMMA StateCommit ==
    ASSUME IInv, IInv', Audit, NEW w \in Workers, pc[w] # "idle", OwesNone(pc[w], loc[w]),
           NEW s, Backed(db[req(w)], s),
           db' = [db EXCEPT ![req(w)].state = state_written(w, s)], submissions' = submissions,
           NEW lab, NEW l, OwesNone(lab, l), Arrives(w, db[req(w)], lab, l),
           pc' = [pc EXCEPT ![w] = lab], loc' = [loc EXCEPT ![w] = l]
    PROVE  Audit'
<1> DEFINE old == db[req(w)]
           written == state_written(w, s)
           row == [old EXCEPT !.state = written]
<1>1. old \in RequestRows /\ RowShows(old)
  BY RunningShows
<1>2. written = old.state \/ written = s
  BY DEF state_written
<1>3. db' = [db EXCEPT ![req(w)] = row]
  OBVIOUS
<1> HIDE DEF written
<1>4. /\ row.state = written /\ row.plans = old.plans /\ row.receipts = old.receipts
      /\ Preserves(old, row) /\ SameLedger(old, row)
  BY <1>1 DEF RequestRows, Preserves, SameLedger
<1> HIDE DEF row
<1>5. RowShows(row)
  <2>1. row.state = old.state \/ Backed(row, row.state)
    BY <1>2, <1>4, BackedPreserved
  <2>2. QED
    BY <1>1, <1>4, <2>1, RowGoesOn DEF RowShows
<1>6. Arrives(w, row, lab, l)
  BY <1>4, StagePreserved, ReviewedPreserved DEF Arrives
<1> HIDE DEF old
<1>7. QED
  BY <1>3, <1>4, <1>5, <1>6, CalmCommit DEF old

(* What the handler goes on with after write_state.                        *)
LEMMA StateLoaded ==
    ASSUME NEW l \in Locals, NEW s
    PROVE  LET m == [l EXCEPT !.state = s] IN
           /\ m.request = l.request /\ m.op = l.op /\ m.decision = l.decision
           /\ m.outcome = l.outcome /\ m.plan = l.plan /\ m.approval = l.approval
  BY DEF Locals

(* The planner reads no status.                                            *)
LEMMA PlanIgnoresStatus ==
    ASSUME NEW p \in Policies, NEW status
    PROVE  P!build_plan([Delegations[p] EXCEPT !.status = status]) = P!build_plan(Delegations[p])
<1> DEFINE old == Delegations[p]
           new == [old EXCEPT !.status = status]
<1>1. old \in DelegationPolicy
  BY DelegationAssumption
<1>2. /\ new.allowed_action_types = old.allowed_action_types
      /\ new.allowed_institutions = old.allowed_institutions
      /\ new.allowed_products = old.allowed_products
      /\ new.allowed_data_classes = old.allowed_data_classes
  BY <1>1 DEF DelegationPolicy
<1> HIDE DEF new, old
<1>3. P!build_plan(new) = P!build_plan(old)
  BY <1>2 DEF P!build_plan, P!first_action_type, P!rate_reduction_plan, P!analysis_plan
<1>4. QED
  BY <1>3 DEF new, old

(* A new plan needs a human exactly when the delegation's own plan does:   *)
(* it is that plan, or the scenario's, whose delegation asks for no human. *)
LEMMA ProposedReview ==
    ASSUME IInv, NEW w \in Workers, pc[w] = "persist_plan",
           Reviewed(db[req(w)], pc[w], loc[w])
    PROVE  SameReview(db[req(w)], proposed_plan(w))
<1>1. db[req(w)].policy \in Policies
  BY Running
<1>2. CASE loc[w].op = "custom_plan"
  <2>1. ~Delegations[db[req(w)].policy].submit_requires_human
    BY <1>1, <1>2, ScopeAssumption DEF Reviewed
  <2>2. QED
    BY <2>1 DEF SameReview, NeedsReview, needs_approval
<1>3. CASE loc[w].op # "custom_plan"
  <2>1. proposed_plan(w) = P!build_plan(Delegations[db[req(w)].policy])
    BY <1>1, <1>3, PlanIgnoresStatus DEF proposed_plan, loaded_policy, policy_id
  <2>2. QED
    BY <2>1 DEF SameReview, NeedsReview
<1>4. QED
  BY <1>2, <1>3

LEMMA PersistPlanShows ==
    ASSUME IInv, IInv', Audit, NEW w \in Workers, persist_plan(w) PROVE Audit'
<1> DEFINE old == db[req(w)]
           rows == old.plans
           plan == proposed_plan(w)
           stored == IF loc[w].plan = None THEN Append(rows, plan)
                     ELSE IF loc[w].plan = plan THEN rows
                     ELSE [rows EXCEPT ![1] = plan]
           state == state_written(w, "PLAN_CREATED")
           row == [old EXCEPT !.plans = stored, !.state = state]
<1>1. /\ pc[w] = "persist_plan" /\ pc[w] # "idle" /\ submissions' = submissions
      /\ OwesNone(pc[w], loc[w])
  BY CalmOwesNone DEF persist_plan, world, Owing
<1>2. /\ req(w) \in Requests /\ old \in RequestRows /\ RowShows(old)
      /\ Stage(old, pc[w], loc[w]) /\ Reviewed(old, pc[w], loc[w])
  BY <1>1, RunningShows
<1>3. rows \in Seq(ActionPlans) /\ SameReview(old, plan)
  BY <1>1, <1>2, ProposedReview DEF RequestRows
<1>4. db' = [db EXCEPT ![req(w)] = row]
  BY <1>2 DEF persist_plan, IInv, TypeOK
<1>5. state = old.state \/ state = "PLAN_CREATED"
  BY DEF state_written
<1>6. ASSUME NEW i \in DOMAIN stored PROVE SameReview(old, stored[i])
  <2> HIDE DEF plan
  <2>1. \A j \in DOMAIN rows : SameReview(old, rows[j])
    BY <1>2 DEF RowShows
  <2> HIDE DEF rows
  <2>2. CASE stored = Append(rows, plan)
    <3>1. (i \in DOMAIN rows /\ stored[i] = rows[i]) \/ stored[i] = plan
      <4>1. /\ Len(rows) \in Nat /\ DOMAIN rows = 1 .. Len(rows)
            /\ DOMAIN Append(rows, plan) = 1 .. (Len(rows) + 1)
        BY <1>3
      <4> HIDE DEF stored
      <4>2. CASE i = Len(rows) + 1
        BY <1>3, <2>2, <4>2
      <4>3. CASE i # Len(rows) + 1
        <5>1. i \in 1 .. Len(rows)
          BY <2>2, <4>1, <4>3
        <5>2. QED
          BY <1>3, <2>2, <4>1, <5>1
      <4>4. QED
        BY <4>2, <4>3
    <3> HIDE DEF stored
    <3>2. QED
      BY <1>3, <2>1, <3>1
  <2>3. CASE stored = rows
    BY <2>1, <2>3
  <2>4. CASE stored = [rows EXCEPT ![1] = plan]
    <3>1. i \in DOMAIN rows /\ (stored[i] = rows[i] \/ stored[i] = plan)
      BY <1>3, <2>4
    <3> HIDE DEF stored
    <3>2. QED
      BY <1>3, <2>1, <3>1
  <2>5. QED
    BY <2>2, <2>3, <2>4
<1> HIDE DEF plan, stored, state
<1>7. /\ row.state = state /\ row.plans = stored /\ row.receipts = old.receipts
      /\ row.policy = old.policy /\ Preserves(old, row) /\ SameLedger(old, row)
  BY <1>2 DEF RequestRows, Preserves, SameLedger
<1> HIDE DEF row
<1>8. RowShows(row)
  <2>1. Backed(row, "PLAN_CREATED") /\ Backed(row, old.state)
    BY <1>2, <1>7, BackedPreserved DEF Backed, RowShows
  <2>2. QED
    BY <1>2, <1>5, <1>6, <1>7, <2>1 DEF RowShows, SameReview, NeedsReview
<1>9. Stage(row, "plan_event", loc[w]) /\ Reviewed(row, "plan_event", loc[w])
  BY DEF Stage, Reviewed, Called, Allowed, Blocked, Ran, admitted
<1>10. /\ OwesNone("plan_event", loc[w]) /\ Arrives(w, row, "plan_event", loc[w])
       /\ loc' = [loc EXCEPT ![w] = loc[w]] /\ pc' = [pc EXCEPT ![w] = "plan_event"]
  BY <1>1, <1>9, Continues, CalmOwesNone, Stays DEF Owing, persist_plan, goto
<1> HIDE DEF old
<1>11. QED
  BY <1>1, <1>4, <1>7, <1>8, <1>10, CalmCommit DEF old

-----------------------------------------------------------------------------
(* The decision.                                                           *)

(* An execution that was let in has the approval its plan needs at hand,   *)
(* so its decision asks for none: a binding approval satisfies the rule,   *)
(* and one that does not bind quarantines.                                 *)
LEMMA ExecutionAsksForNone ==
    ASSUME IInv, NEW w \in Workers, pc[w] = "decide", loc[w].op = "execute",
           Reviewed(db[req(w)], pc[w], loc[w])
    PROVE  decision(context(w)) # "REQUIRE_APPROVAL"
<1> DEFINE ctx == context(w)
           a == loc[w].approval
<1>1. /\ pc[w] # "idle" /\ Knows(db[req(w)], policy_status, pc[w], loc[w])
      /\ db[req(w)] \in RequestRows
  BY Running
<1>2. ctx.plan = loc[w].plan /\ ctx.plan_hash = loc[w].plan /\ ctx.approval = a
      /\ ctx.policy = loaded_policy(w)
  BY DEF context
<1>3. SUFFICES ASSUME decision(ctx) = "REQUIRE_APPROVAL" PROVE FALSE
  OBVIOUS
<1> HIDE DEF ctx
<1>4. human_approval_requirement(ctx) = "FAIL" /\ approval_binds_current_plan(ctx) # "FAIL"
  BY <1>3, DecisionByRules DEF Quarantining
<1>5. /\ needs_approval(ctx.policy, ctx.plan)
      /\ ~(a # None /\ a.status = "APPROVED" /\ binds(a, ctx.plan_hash, ctx.policy))
  BY <1>2, <1>4 DEF human_approval_requirement, fail_if
<1>6. NeedsReview(db[req(w)])
  BY <1>1, <1>2, <1>5, LoadedPolicy DEF Reviewed, SameReview
<1>7. a # None /\ a \in Granted(db[req(w)])
  BY <1>1, <1>6 DEF Reviewed, Knows
<1>8. a.status = "APPROVED"
  <2>1. PICK j \in DOMAIN db[req(w)].approved : a = db[req(w)].approved[j]
    BY <1>7 DEF Granted
  <2>2. db[req(w)].approved \in Seq(Approvals)
    BY <1>1 DEF RequestRows
  <2>3. a \in Approvals
    BY <2>1, <2>2
  <2>4. QED
    BY <2>3 DEF Approvals
<1>9. binds(a, ctx.plan_hash, ctx.policy)
  BY <1>2, <1>4, <1>7 DEF approval_binds_current_plan, pass_if
<1>10. QED
  BY <1>5, <1>7, <1>8, <1>9

LEMMA DecideShows ==
    ASSUME IInv, IInv', Audit, NEW w \in Workers, decide_and_store(w) PROVE Audit'
<1> DEFINE d == decision(context(w))
           old == db[req(w)]
           all == old.evaluations \cup {[decision |-> d, plan_hash |-> loc[w].plan]}
           row == [old EXCEPT !.evaluations = all]
           judged == [loc[w] EXCEPT !.decision = d]
           l == [judged EXCEPT !.decided_at = now]
           lab == IF loc[w].op = "evaluate" THEN "evaluated_event"
                  ELSE IF d = "ALLOW" THEN "set_executing" ELSE "set_blocked"
<1>1. /\ pc[w] = "decide" /\ pc[w] # "idle" /\ submissions' = submissions
      /\ db' = [db EXCEPT ![req(w)] = row]
      /\ loc' = [loc EXCEPT ![w] = l] /\ pc' = [pc EXCEPT ![w] = lab]
      /\ OwesNone(pc[w], loc[w])
  BY CalmOwesNone DEF decide_and_store, goto, world, Owing
<1>2. /\ old \in RequestRows /\ RowShows(old) /\ loc[w] \in Locals
      /\ Stage(old, pc[w], loc[w]) /\ Reviewed(old, pc[w], loc[w])
  BY <1>1, RunningShows, Running
<1>3. d \in Decisions
  BY DecisionType
<1>4. loc[w].op = "evaluate" /\ d = "ALLOW" => ~NeedsReview(old)
  <2>1. ASSUME loc[w].op = "evaluate", d = "ALLOW", NeedsReview(old) PROVE FALSE
    <3>1. loc[w].approval = None /\ needs_approval(Delegations[old.policy], loc[w].plan)
      BY <1>1, <1>2, <2>1 DEF Reviewed, SameReview
    <3>2. context(w).policy = loaded_policy(w) /\ context(w).plan = loc[w].plan
          /\ context(w).approval = loc[w].approval
      BY DEF context
    <3>3. needs_approval(context(w).policy, context(w).plan)
      BY <1>1, <3>1, <3>2, LoadedPolicy
    <3>4. context(w).approval # None
      BY <2>1, <3>3, AllowMeansBindingApproval
    <3>5. QED
      BY <3>1, <3>2, <3>4
  <2>2. QED
    BY <2>1
<1>5. loc[w].op \in {"evaluate", "execute"} /\ (loc[w].op = "execute" => d # "REQUIRE_APPROVAL")
  BY <1>1, <1>2, ExecutionAsksForNone DEF Stage
<1>6. lab = "set_blocked" => blocks(d)
  BY <1>3, <1>5 DEF Decisions, blocks
<1>7. \E e \in all : e.decision = d
  <2>1. [decision |-> d, plan_hash |-> loc[w].plan].decision = d
    OBVIOUS
  <2> HIDE DEF d
  <2>2. QED
    BY <2>1
<1> HIDE DEF d
<1>8. /\ l.request = req(w) /\ l.op = loc[w].op /\ l.decision = d
      /\ l.approval = loc[w].approval /\ l.plan = loc[w].plan
  <2>1. /\ judged \in [DOMAIN loc[w] -> Range(judged)] /\ DOMAIN judged = DOMAIN loc[w]
        /\ judged.request = loc[w].request /\ judged.op = loc[w].op /\ judged.decision = d
        /\ judged.approval = loc[w].approval /\ judged.plan = loc[w].plan
    BY <1>2 DEF Locals, Range
  <2> HIDE DEF judged
  <2>2. QED
    BY <2>1 DEF req
<1>9. old.evaluations \subseteq all
  OBVIOUS
<1>10. lab \in {"evaluated_event", "set_executing", "set_blocked"}
       /\ (lab = "set_executing" => loc[w].op = "execute" /\ d = "ALLOW")
       /\ (lab = "evaluated_event" => loc[w].op = "evaluate")
  BY <1>5
<1> HIDE DEF all, lab, l, judged
<1>11. /\ row.evaluations = all /\ row.policy = old.policy /\ row.state = old.state
       /\ row.plans = old.plans /\ row.receipts = old.receipts
       /\ SameLedger(old, row) /\ Preserves(old, row)
  BY <1>2, <1>9 DEF RequestRows, SameLedger, Preserves
<1> HIDE DEF row
<1>12. RowShows(row)
  BY <1>2, <1>11, RowGoesOn DEF RowShows
<1>13. Stage(row, lab, l)
  BY <1>6, <1>7, <1>8, <1>10, <1>11 DEF Stage, Allowed, Blocked, Ran
<1>14. Reviewed(row, lab, l)
  BY <1>4, <1>8, <1>10, <1>11 DEF Reviewed, NeedsReview, Called, admitted
<1>15. OwesNone(lab, l)
  BY <1>10, CalmOwesNone DEF Owing
<1> HIDE DEF old
<1>16. QED
  BY <1>1, <1>8, <1>11, <1>12, <1>13, <1>14, <1>15, CalmCommit DEF Arrives, old

-----------------------------------------------------------------------------
(* The states that are written, each backed by what the handler committed. *)

LEMMA SetDecidedShows == ASSUME IInv, IInv', Audit, NEW w \in Workers, set_decided(w) PROVE Audit'
<1> DEFINE old == db[req(w)]
<1>1. /\ pc[w] = "set_decided" /\ pc[w] # "idle" /\ submissions' = submissions
      /\ OwesNone(pc[w], loc[w])
  BY CalmOwesNone DEF set_decided, world, Owing
<1>2. /\ Stage(old, pc[w], loc[w]) /\ Reviewed(old, pc[w], loc[w])
      /\ loc[w] \in Locals /\ loc[w].decision \in Decisions
  BY <1>1, RunningShows, Running DEF Knows, Decided
<1>3. CASE loc[w].decision = "ALLOW"
  <2>1. Backed(old, "ALLOWED")
    BY <1>1, <1>2, <1>3 DEF Reviewed, Backed
  <2>2. /\ db' = [db EXCEPT ![req(w)].state = state_written(w, "ALLOWED")]
        /\ pc' = [pc EXCEPT ![w] = "idle"] /\ loc' = [loc EXCEPT ![w] = Idle]
    BY <1>3 DEF set_decided, finish
  <2> HIDE DEF old
  <2>3. QED
    BY <1>1, <2>1, <2>2, IdleArrives, StateCommit DEF old
<1>4. CASE loc[w].decision # "ALLOW"
  <2> DEFINE s == decided_state(loc[w].decision)
             l == [loc[w] EXCEPT !.state = s]
             lab == IF blocks(loc[w].decision) THEN "blocked_calls" ELSE "approval_event"
  <2>1. Backed(old, s)
    BY <1>1, <1>2, <1>4 DEF Stage, Backed, decided_state, Decisions
  <2>2. /\ db' = [db EXCEPT ![req(w)].state = state_written(w, s)]
        /\ pc' = [pc EXCEPT ![w] = lab] /\ loc' = [loc EXCEPT ![w] = l]
    BY <1>4 DEF set_decided, write_state, goto
  <2>3. /\ l.request = req(w) /\ l.op = loc[w].op /\ l.decision = loc[w].decision
    BY <1>2, StateLoaded DEF req
  <2>4. /\ lab \in {"blocked_calls", "approval_event"}
        /\ lab = "blocked_calls" => blocks(loc[w].decision)
    OBVIOUS
  <2> HIDE DEF s, l, lab
  <2>5. Stage(old, lab, l) /\ Reviewed(old, lab, l)
    BY <2>3, <2>4 DEF Stage, Reviewed, Called, Allowed, Blocked, Ran, admitted
  <2>6. OwesNone(lab, l)
    BY <2>4, CalmOwesNone DEF Owing
  <2>7. Arrives(w, old, lab, l)
    BY <2>3, <2>5 DEF Arrives
  <2> HIDE DEF old
  <2>8. QED
    BY <1>1, <2>1, <2>2, <2>6, <2>7, StateCommit DEF old
<1>5. QED
  BY <1>3, <1>4

LEMMA SetExecutingShows ==
    ASSUME IInv, IInv', Audit, NEW w \in Workers, set_executing(w) PROVE Audit'
<1> DEFINE old == db[req(w)]
           l == [loc[w] EXCEPT !.state = "EXECUTING"]
<1>1. /\ pc[w] = "set_executing" /\ pc[w] # "idle" /\ submissions' = submissions
      /\ db' = [db EXCEPT ![req(w)].state = state_written(w, "EXECUTING")]
      /\ pc' = [pc EXCEPT ![w] = "started_event"] /\ loc' = [loc EXCEPT ![w] = l]
      /\ OwesNone(pc[w], loc[w]) /\ OwesNone("started_event", l)
  BY CalmOwesNone DEF set_executing, write_state, goto, world, Owing
<1>2. Stage(old, pc[w], loc[w]) /\ loc[w] \in Locals
  BY <1>1, RunningShows, Running
<1>3. l.request = req(w) /\ l.op = loc[w].op /\ l.decision = loc[w].decision
  BY <1>2, StateLoaded DEF req
<1>4. Backed(old, "EXECUTING")
  BY <1>1, <1>2 DEF Stage, Allowed, Backed
<1> HIDE DEF l
<1>5. Stage(old, "started_event", l) /\ Reviewed(old, "started_event", l)
  BY <1>1, <1>2, <1>3 DEF Stage, Reviewed, Called, Allowed, Blocked, Ran, admitted
<1>6. Arrives(w, old, "started_event", l)
  BY <1>3, <1>5 DEF Arrives
<1> HIDE DEF old
<1>7. QED
  BY <1>1, <1>4, <1>6, StateCommit DEF old

LEMMA SetBlockedShows ==
    ASSUME IInv, IInv', Audit, NEW w \in Workers, set_blocked(w) PROVE Audit'
<1> DEFINE old == db[req(w)]
           s == IF loc[w].decision = "QUARANTINE" THEN "QUARANTINED" ELSE "DENIED"
           l == [loc[w] EXCEPT !.state = s]
<1>1. /\ pc[w] = "set_blocked" /\ pc[w] # "idle" /\ submissions' = submissions
      /\ db' = [db EXCEPT ![req(w)].state = state_written(w, s)]
      /\ pc' = [pc EXCEPT ![w] = "blocked_calls"] /\ loc' = [loc EXCEPT ![w] = l]
      /\ OwesNone(pc[w], loc[w]) /\ OwesNone("blocked_calls", l)
  BY CalmOwesNone DEF set_blocked, write_state, goto, world, Owing
<1>2. Stage(old, pc[w], loc[w]) /\ loc[w] \in Locals
  BY <1>1, RunningShows, Running
<1>3. l.request = req(w) /\ l.op = loc[w].op /\ l.decision = loc[w].decision
  BY <1>2, StateLoaded DEF req
<1>4. Backed(old, s)
  BY DEF Backed
<1> HIDE DEF l, s
<1>5. Stage(old, "blocked_calls", l) /\ Reviewed(old, "blocked_calls", l)
  BY <1>1, <1>2, <1>3 DEF Stage, Reviewed, Called, Allowed, Blocked, Ran, admitted
<1>6. Arrives(w, old, "blocked_calls", l)
  BY <1>3, <1>5 DEF Arrives
<1> HIDE DEF old
<1>7. QED
  BY <1>1, <1>4, <1>6, StateCommit DEF old

LEMMA BlockedCallsShows ==
    ASSUME IInv, IInv', Audit, NEW w \in Workers, blocked_calls(w) PROVE Audit'
<1> DEFINE old == db[req(w)]
           attempted == signals(w).attempted_unauthorized_tools
           f == [old.tool_calls EXCEPT !["BLOCKED"] = @ + Cardinality(attempted)]
           row == [old EXCEPT !.tool_calls = f]
           lab == IF attempted # {} THEN "blocked_event"
                  ELSE IF quarantined(w) THEN "incident" ELSE "receipt_event"
<1>1. /\ pc[w] = "blocked_calls" /\ pc[w] # "idle" /\ submissions' = submissions
      /\ db' = [db EXCEPT ![req(w)] = row] /\ pc' = [pc EXCEPT ![w] = lab] /\ loc' = loc
      /\ OwesNone(pc[w], loc[w])
  BY CalmOwesNone DEF blocked_calls, goto, world, Owing
<1>2. /\ old \in RequestRows /\ RowShows(old)
      /\ Stage(old, pc[w], loc[w]) /\ Reviewed(old, pc[w], loc[w])
  BY <1>1, RunningShows
<1>3. blocks(loc[w].decision)
  BY <1>1, <1>2 DEF Stage, Blocked
<1>4. f["COMPLETED"] = old.tool_calls["COMPLETED"]
  BY <1>2 DEF RequestRows
<1>5. /\ lab \in {"blocked_event", "incident", "receipt_event"}
      /\ lab = "incident" => loc[w].decision = "QUARANTINE"
      /\ lab = "receipt_event" => loc[w].decision # "QUARANTINE"
  BY DEF quarantined
<1> HIDE DEF f, lab
<1>6. /\ row.state = old.state /\ row.plans = old.plans /\ row.receipts = old.receipts
      /\ SameLedger(old, row) /\ Preserves(old, row)
  BY <1>2, <1>4 DEF RequestRows, SameLedger, Preserves
<1> HIDE DEF row
<1>7. RowShows(row)
  BY <1>2, <1>6, RowGoesOn DEF RowShows
<1>8. Stage(row, lab, loc[w]) /\ Reviewed(row, lab, loc[w])
  BY <1>3, <1>5 DEF Stage, Reviewed, Called, Allowed, Blocked, Ran, admitted
<1>9. OwesNone(lab, loc[w])
  BY <1>3, <1>5, CalmOwesNone, DenialOwesNone DEF Owing
<1>10. Arrives(w, row, lab, loc[w]) /\ loc' = [loc EXCEPT ![w] = loc[w]]
  BY <1>1, <1>8, Continues, Stays
<1> HIDE DEF old
<1>11. QED
  BY <1>1, <1>6, <1>7, <1>9, <1>10, CalmCommit DEF old

(* A handler shows RECEIPT_ISSUED once its receipt is stored.              *)
LEMMA SetIssuedShows == ASSUME IInv, IInv', Audit, NEW w \in Workers, set_issued(w) PROVE Audit'
<1> DEFINE old == db[req(w)]
           l == [loc[w] EXCEPT !.state = "RECEIPT_ISSUED"]
<1>1. /\ pc[w] = "set_issued" /\ pc[w] # "idle" /\ submissions' = submissions
      /\ db' = [db EXCEPT ![req(w)].state = state_written(w, "RECEIPT_ISSUED")]
      /\ OwesNone(pc[w], loc[w])
  BY CalmOwesNone DEF set_issued, write_state, Owing
<1>2. Stage(old, pc[w], loc[w]) /\ loc[w] \in Locals
  BY <1>1, RunningShows, Running
<1>3. Backed(old, "RECEIPT_ISSUED")
  BY <1>1, <1>2 DEF Stage, Backed
<1>4. CASE finish(w)
  <2>1. pc' = [pc EXCEPT ![w] = "idle"] /\ loc' = [loc EXCEPT ![w] = Idle]
    BY <1>4 DEF finish
  <2> HIDE DEF old
  <2>2. QED
    BY <1>1, <1>3, <2>1, IdleArrives, StateCommit DEF old
<1>5. CASE ~finish(w)
  <2>1. pc' = [pc EXCEPT ![w] = "store_key"] /\ loc' = [loc EXCEPT ![w] = l]
    BY <1>5 DEF set_issued, write_state, goto
  <2>2. l.request = req(w)
    BY <1>2, StateLoaded DEF req
  <2> HIDE DEF l
  <2>3. Stage(old, "store_key", l) /\ Reviewed(old, "store_key", l)
    BY DEF Stage, Reviewed, Called, Allowed, Blocked, Ran, admitted
  <2>4. Arrives(w, old, "store_key", l) /\ OwesNone("store_key", l)
    BY <2>2, <2>3, CalmOwesNone DEF Arrives, Owing
  <2> HIDE DEF old
  <2>5. QED
    BY <1>1, <1>3, <2>1, <2>4, StateCommit DEF old
<1>6. QED
  BY <1>4, <1>5

LEMMA StoreKeyShows == ASSUME IInv, IInv', Audit, NEW w \in Workers, store_key(w) PROVE Audit'
<1> DEFINE old == db[req(w)]
           f == [old.idempotency EXCEPT ![loc[w].key] = receipt(w)]
           row == [old EXCEPT !.idempotency = f]
<1>1. /\ pc[w] = "store_key" /\ pc[w] # "idle" /\ submissions' = submissions
      /\ pc' = [pc EXCEPT ![w] = "idle"] /\ loc' = [loc EXCEPT ![w] = Idle]
      /\ db' = [db EXCEPT ![req(w)] = row] \/ db' = db
      /\ OwesNone(pc[w], loc[w])
  BY CalmOwesNone DEF store_key, finish, Owing
<1>2. old \in RequestRows /\ RowShows(old)
  BY <1>1, RunningShows
<1>3. CASE db' = db
  BY <1>1, <1>3, IdleArrives, CalmReading
<1>4. CASE db' # db
  <2> HIDE DEF f
  <2>1. /\ row.state = old.state /\ row.plans = old.plans /\ row.receipts = old.receipts
        /\ SameLedger(old, row) /\ Preserves(old, row)
    BY <1>2 DEF RequestRows, SameLedger, Preserves
  <2>2. db' = [db EXCEPT ![req(w)] = row]
    BY <1>1, <1>4
  <2> HIDE DEF row
  <2>3. RowShows(row)
    BY <1>2, <2>1, RowGoesOn DEF RowShows
  <2> HIDE DEF old
  <2>4. QED
    BY <1>1, <2>1, <2>2, <2>3, IdleArrives, CalmCommit DEF old
<1>5. QED
  BY <1>3, <1>4

-----------------------------------------------------------------------------
(* Commits that an account notices.                                        *)

(* What is owed where only one thing is.                                   *)
LEMMA OwedAt ==
    ASSUME NEW a, NEW l
    PROVE  /\ Owes(a, "granted_event", l) <=> a = "granted"
           /\ Owes(a, "refused_event", l) <=> a = "rejected"
  BY DEF Owes, Issuing

(* What a step adds to each account, and to what its handler owes there.   *)
LEMMA SettlesBy ==
    ASSUME NEW row \in RequestRows, NEW list \in Seq(Submissions),
           NEW row2, NEW list2, NEW lab, NEW l, NEW lab2, NEW l2, NEW change \in [Accounts -> Int],
           \A a \in Accounts :
              /\ Surplus(a, row2, list2) = Surplus(a, row, list) + change[a]
              /\ Due(a, lab2, l2) <= Due(a, lab, l) + change[a]
              /\ a # "calls" => Due(a, lab2, l2) = Due(a, lab, l) + change[a]
    PROVE  Settles(row, list, lab, l, row2, list2, lab2, l2)
<1> SUFFICES ASSUME NEW a \in Accounts
             PROVE  LET gain == Gain(a, row, list, lab, l, row2, list2, lab2, l2) IN
                    gain >= 0 /\ (~MayCrash /\ a # "calls" => gain = 0)
  BY DEF Settles
<1> DEFINE s == Surplus(a, row, list)
           t == Surplus(a, row2, list2)
           x == Due(a, lab, l)
           y == Due(a, lab2, l2)
           n == change[a]
<1>1. s \in Int /\ x \in Int /\ y \in Int
  BY SurplusType DEF Due
<1>2. n \in Int /\ t = s + n /\ y <= x + n /\ (a # "calls" => y = x + n)
  OBVIOUS
<1> HIDE DEF s, t, x, y, n
<1>3. (t - y) - (s - x) >= 0 /\ (a # "calls" => (t - y) - (s - x) = 0)
  BY <1>1, <1>2
<1>4. QED
  BY <1>3 DEF Gain, s, t, x, y

(* The events that the accounts count, and the account of each: the event  *)
(* settles what is owed there, but for that of the receipt, which comes    *)
(* before the receipt does.                                                *)
AccountOf ==
    [APPROVAL_GRANTED |-> "granted", APPROVAL_REJECTED |-> "rejected",
     INCIDENT_QUARANTINED |-> "incidents", TOOL_CALL_COMPLETED |-> "executions",
     RECEIPT_ISSUED |-> "receipts"]

EventChange(a, type) ==
    IF a # AccountOf[type] THEN 0 ELSE IF type = "RECEIPT_ISSUED" THEN 1 ELSE -1

LEMMA Posting ==
    ASSUME NEW n \in Int, NEW m \in Nat, NEW hit
    PROVE  LET m2 == IF hit THEN m + 1 ELSE m IN
           /\ n - m2 = (n - m) + (IF hit THEN -1 ELSE 0)
           /\ m2 - n = (m - n) + (IF hit THEN 1 ELSE 0)
  OBVIOUS

LEMMA EventSurplus ==
    ASSUME NEW old \in RequestRows, NEW type \in DOMAIN AccountOf, NEW row,
           row.events = [old.events EXCEPT ![type] = @ + 1],
           row.executions = old.executions, row.receipts = old.receipts,
           row.tool_calls = old.tool_calls, row.incidents = old.incidents,
           row.rejected = old.rejected, row.approved = old.approved,
           NEW list \in Seq(Submissions), NEW a \in Accounts
    PROVE  Surplus(a, row, list) = Surplus(a, old, list) + EventChange(a, type)
<1> DEFINE e == old.events
           f == row.events
<1>1. e \in [EventTypes -> Nat] /\ type \in EventTypes
  BY DEF RequestRows, AccountOf, EventTypes
<1>2. \A t \in EventTypes : e[t] \in Nat /\ f[t] = IF t = type THEN e[t] + 1 ELSE e[t]
  BY <1>1
<1>3. Surplus(a, old, list) \in Int
  BY SurplusType
<1>4. receipts_of(row) = receipts_of(old) /\ receipts_of(old) \in Int
  BY CountTypes DEF receipts_of, CountedReceipts
<1>5. CASE a \notin Trail
  <2>1. Surplus(a, row, list) = Surplus(a, old, list)
    BY <1>5, Surpluses DEF Accounts, Effects
  <2>2. EventChange(a, type) = 0
    BY <1>5 DEF EventChange, AccountOf, Trail
  <2>3. QED
    BY <1>3, <2>1, <2>2
<1>6. CASE a = "granted"
  <2> DEFINE n == Len(old.approved)
  <2>1. n \in Int
    BY CountTypes DEF CountedRows
  <2>2. /\ e["APPROVAL_GRANTED"] \in Nat
        /\ f["APPROVAL_GRANTED"] = IF type = "APPROVAL_GRANTED" THEN e["APPROVAL_GRANTED"] + 1 ELSE e["APPROVAL_GRANTED"]
    BY <1>2 DEF EventTypes
  <2>3. /\ Surplus(a, row, list) = n - f["APPROVAL_GRANTED"]
        /\ Surplus(a, old, list) = n - e["APPROVAL_GRANTED"]
    BY <1>6, Surpluses
  <2>4. EventChange(a, type) = IF type = "APPROVAL_GRANTED" THEN -1 ELSE 0
    BY <1>6 DEF EventChange, AccountOf
  <2> HIDE DEF n, e, f
  <2>5. QED
    BY <2>1, <2>2, <2>3, <2>4, Posting
<1>7. CASE a = "rejected"
  <2> DEFINE n == old.rejected
  <2>1. n \in Int
    BY CountTypes DEF CountedRows
  <2>2. /\ e["APPROVAL_REJECTED"] \in Nat
        /\ f["APPROVAL_REJECTED"] = IF type = "APPROVAL_REJECTED" THEN e["APPROVAL_REJECTED"] + 1 ELSE e["APPROVAL_REJECTED"]
    BY <1>2 DEF EventTypes
  <2>3. /\ Surplus(a, row, list) = n - f["APPROVAL_REJECTED"]
        /\ Surplus(a, old, list) = n - e["APPROVAL_REJECTED"]
    BY <1>7, Surpluses
  <2>4. EventChange(a, type) = IF type = "APPROVAL_REJECTED" THEN -1 ELSE 0
    BY <1>7 DEF EventChange, AccountOf
  <2> HIDE DEF n, e, f
  <2>5. QED
    BY <2>1, <2>2, <2>3, <2>4, Posting
<1>8. CASE a = "incidents"
  <2> DEFINE n == old.incidents
  <2>1. n \in Int
    BY CountTypes DEF CountedRows
  <2>2. /\ e["INCIDENT_QUARANTINED"] \in Nat
        /\ f["INCIDENT_QUARANTINED"] = IF type = "INCIDENT_QUARANTINED" THEN e["INCIDENT_QUARANTINED"] + 1 ELSE e["INCIDENT_QUARANTINED"]
    BY <1>2 DEF EventTypes
  <2>3. /\ Surplus(a, row, list) = n - f["INCIDENT_QUARANTINED"]
        /\ Surplus(a, old, list) = n - e["INCIDENT_QUARANTINED"]
    BY <1>8, Surpluses
  <2>4. EventChange(a, type) = IF type = "INCIDENT_QUARANTINED" THEN -1 ELSE 0
    BY <1>8 DEF EventChange, AccountOf
  <2> HIDE DEF n, e, f
  <2>5. QED
    BY <2>1, <2>2, <2>3, <2>4, Posting
<1>9. CASE a = "executions"
  <2> DEFINE n == old.executions["SUBMITTED"] + old.executions["FAILED_SAFE"]
  <2>1. n \in Int
    BY CountTypes DEF CountedExecutions
  <2>2. /\ e["TOOL_CALL_COMPLETED"] \in Nat
        /\ f["TOOL_CALL_COMPLETED"] = IF type = "TOOL_CALL_COMPLETED" THEN e["TOOL_CALL_COMPLETED"] + 1 ELSE e["TOOL_CALL_COMPLETED"]
    BY <1>2 DEF EventTypes
  <2>3. /\ Surplus(a, row, list) = n - f["TOOL_CALL_COMPLETED"]
        /\ Surplus(a, old, list) = n - e["TOOL_CALL_COMPLETED"]
    <3>1. n = row.executions["SUBMITTED"] + row.executions["FAILED_SAFE"]
      OBVIOUS
    <3>2. QED
      BY <1>9, <3>1, Surpluses
  <2>4. EventChange(a, type) = IF type = "TOOL_CALL_COMPLETED" THEN -1 ELSE 0
    BY <1>9 DEF EventChange, AccountOf
  <2> HIDE DEF n, e, f
  <2>5. QED
    BY <2>1, <2>2, <2>3, <2>4, Posting
<1>10. CASE a = "receipts"
  <2> DEFINE n == receipts_of(old)
  <2>1. n \in Int
    BY <1>4
  <2>2. /\ e["RECEIPT_ISSUED"] \in Nat
        /\ f["RECEIPT_ISSUED"] = IF type = "RECEIPT_ISSUED" THEN e["RECEIPT_ISSUED"] + 1 ELSE e["RECEIPT_ISSUED"]
    BY <1>2 DEF EventTypes
  <2>3. /\ Surplus(a, row, list) = f["RECEIPT_ISSUED"] - n
        /\ Surplus(a, old, list) = e["RECEIPT_ISSUED"] - n
    BY <1>4, <1>10, Surpluses
  <2>4. EventChange(a, type) = IF type = "RECEIPT_ISSUED" THEN 1 ELSE 0
    BY <1>10 DEF EventChange, AccountOf
  <2> HIDE DEF n, e, f
  <2>5. QED
    BY <2>1, <2>2, <2>3, <2>4, Posting
<1>11. QED
  BY <1>5, <1>6, <1>7, <1>8, <1>9, <1>10 DEF Trail

(* What the handler owes changes as the event has it.                      *)
Posts(type, lab, l, lab2, l2) ==
    \A a \in Accounts : Due(a, lab2, l2) = Due(a, lab, l) + EventChange(a, type)

(* A commit of such an event.                                              *)
LEMMA CountedEvent ==
    ASSUME IInv, IInv', Audit, NEW w \in Workers, pc[w] # "idle",
           NEW type \in DOMAIN AccountOf, append_event(w, type), submissions' = submissions,
           NEW lab, NEW l, Arrives(w, db[req(w)], lab, l),
           Posts(type, pc[w], loc[w], lab, l),
           pc' = [pc EXCEPT ![w] = lab], loc' = [loc EXCEPT ![w] = l]
    PROVE  Audit'
<1> DEFINE old == db[req(w)]
           list == submissions[req(w)]
           row == [old EXCEPT !.events[type] = @ + 1]
           change == [a \in Accounts |-> EventChange(a, type)]
<1>1. old \in RequestRows /\ RowShows(old) /\ list \in Seq(Submissions)
  BY RunningShows
<1>2. type \in EventTypes
  BY DEF EventTypes, AccountOf
<1>3. db' = [db EXCEPT ![req(w)] = row] /\ submissions' = [submissions EXCEPT ![req(w)] = list]
  BY DEF append_event, IInv, TypeOK
<1>4. /\ row.events = [old.events EXCEPT ![type] = @ + 1]
      /\ row.executions = old.executions /\ row.receipts = old.receipts
      /\ row.tool_calls = old.tool_calls /\ row.incidents = old.incidents
      /\ row.rejected = old.rejected /\ row.approved = old.approved
      /\ Preserves(old, row) /\ RowShows(row)
  BY <1>1, <1>2, EventShows
<1> HIDE DEF row
<1>5. Arrives(w, row, lab, l)
  BY <1>4, StagePreserved, ReviewedPreserved DEF Arrives
<1>6. Settles(old, list, pc[w], loc[w], row, list, lab, l)
  <2>1. ASSUME NEW a \in Accounts
        PROVE  Surplus(a, row, list) = Surplus(a, old, list) + EventChange(a, type)
    <3> HIDE DEF old, list
    <3>1. QED
      BY <1>1, <1>4, EventSurplus
  <2>2. change \in [Accounts -> Int]
    BY DEF EventChange
  <2>3. \A a \in Accounts : Due(a, lab, l) <= Due(a, pc[w], loc[w]) + EventChange(a, type)
    BY DEF Posts, Due, EventChange
  <2>4. \A a \in Accounts : change[a] = EventChange(a, type)
    OBVIOUS
  <2> HIDE DEF change, old, list
  <2>5. QED
    BY <1>1, <2>1, <2>2, <2>3, <2>4, SettlesBy DEF Posts
<1> HIDE DEF old, list
<1>7. QED
  BY <1>3, <1>4, <1>5, <1>6, HandlerMoves DEF old, list

LEMMA GrantedEventShows ==
    ASSUME IInv, IInv', Audit, NEW w \in Workers, granted_event(w) \/ refused_event(w)
    PROVE  Audit'
<1>1. PICK type \in {"APPROVAL_GRANTED", "APPROVAL_REJECTED"} :
         append_event(w, type) /\ pc[w] = (IF type = "APPROVAL_GRANTED" THEN "granted_event"
                                           ELSE "refused_event")
  BY DEF granted_event, refused_event
<1>2. /\ type \in DOMAIN AccountOf /\ pc[w] # "idle" /\ submissions' = submissions
      /\ pc' = [pc EXCEPT ![w] = "idle"] /\ loc' = [loc EXCEPT ![w] = Idle]
  BY <1>1 DEF AccountOf, granted_event, refused_event, finish, world
<1>3. ASSUME NEW a \in Accounts
      PROVE  Due(a, "idle", Idle) = Due(a, pc[w], loc[w]) + EventChange(a, type)
  <2>1. ~Owes(a, "idle", Idle)
    BY IdleOwesNothing
  <2>2. Owes(a, pc[w], loc[w]) <=> a = AccountOf[type]
    <3>1. CASE type = "APPROVAL_GRANTED"
      BY <1>1, <3>1, OwedAt DEF AccountOf
    <3>2. CASE type = "APPROVAL_REJECTED"
      BY <1>1, <3>2, OwedAt DEF AccountOf
    <3>3. QED
      BY <3>1, <3>2
  <2>3. type # "RECEIPT_ISSUED"
    BY <1>1
  <2>4. QED
    BY <2>1, <2>2, <2>3 DEF Due, EventChange
<1>4. Arrives(w, db[req(w)], "idle", Idle) /\ append_event(w, type)
  BY <1>1, IdleArrives
<1>5. Posts(type, pc[w], loc[w], "idle", Idle)
  BY <1>3 DEF Posts
<1>6. QED
  BY <1>2, <1>4, <1>5, CountedEvent

(* The handler goes on; what it owes changes with the event.               *)
LEMMA CountedEventContinues ==
    ASSUME IInv, IInv', Audit, NEW w \in Workers, pc[w] # "idle",
           NEW type \in DOMAIN AccountOf, append_event(w, type), submissions' = submissions,
           NEW lab, Stage(db[req(w)], lab, loc[w]), Reviewed(db[req(w)], lab, loc[w]),
           \A a \in Accounts :
              /\ a = AccountOf[type] => Owes(a, pc[w], loc[w]) /\ ~Owes(a, lab, loc[w])
              /\ a # AccountOf[type] => (Owes(a, lab, loc[w]) <=> Owes(a, pc[w], loc[w])),
           type # "RECEIPT_ISSUED",
           pc' = [pc EXCEPT ![w] = lab], loc' = loc
    PROVE  Audit'
<1>1. ASSUME NEW a \in Accounts
      PROVE  Due(a, lab, loc[w]) = Due(a, pc[w], loc[w]) + EventChange(a, type)
  BY DEF Due, EventChange
<1>2. Arrives(w, db[req(w)], lab, loc[w])
  BY Continues
<1>3. loc' = [loc EXCEPT ![w] = loc[w]]
  BY Stays
<1>4. Posts(type, pc[w], loc[w], lab, loc[w])
  BY <1>1 DEF Posts
<1>5. QED
  BY <1>2, <1>3, <1>4, CountedEvent

LEMMA CompletedEventShows ==
    ASSUME IInv, IInv', Audit, NEW w \in Workers, completed_event(w) PROVE Audit'
<1>1. /\ pc[w] = "completed_event" /\ pc[w] # "idle" /\ append_event(w, "TOOL_CALL_COMPLETED")
      /\ pc' = [pc EXCEPT ![w] = "receipt_event"] /\ loc' = loc /\ submissions' = submissions
  BY DEF completed_event, goto, world
<1>2. Stage(db[req(w)], pc[w], loc[w])
  BY <1>1, RunningShows
<1>3. /\ loc[w].op = "execute" /\ loc[w].decision = "ALLOW" /\ loc[w].outcome \in BOOLEAN
  BY <1>1, <1>2 DEF Stage, Allowed, Ran
<1>4. Stage(db[req(w)], "receipt_event", loc[w]) /\ Reviewed(db[req(w)], "receipt_event", loc[w])
  BY <1>3 DEF Stage, Reviewed, Called, Allowed, Blocked, Ran, admitted
<1>5. "TOOL_CALL_COMPLETED" \in DOMAIN AccountOf /\ AccountOf["TOOL_CALL_COMPLETED"] = "executions"
  BY DEF AccountOf
<1>6. ASSUME NEW a \in Accounts
      PROVE  /\ a = "executions" => Owes(a, pc[w], loc[w]) /\ ~Owes(a, "receipt_event", loc[w])
             /\ a # "executions" =>
                   (Owes(a, "receipt_event", loc[w]) <=> Owes(a, pc[w], loc[w]))
  BY <1>1, <1>3 DEF Owes, Issuing, blocks
<1>7. QED
  BY <1>1, <1>4, <1>5, <1>6, CountedEventContinues

LEMMA IncidentEventShows ==
    ASSUME IInv, IInv', Audit, NEW w \in Workers, incident_event(w) PROVE Audit'
<1>1. /\ pc[w] = "incident_event" /\ pc[w] # "idle" /\ append_event(w, "INCIDENT_QUARANTINED")
      /\ pc' = [pc EXCEPT ![w] = "receipt_event"] /\ loc' = loc /\ submissions' = submissions
  BY DEF incident_event, goto, world
<1>2. Stage(db[req(w)], pc[w], loc[w])
  BY <1>1, RunningShows
<1>3. blocks(loc[w].decision) /\ loc[w].decision = "QUARANTINE"
  BY <1>1, <1>2 DEF Stage, Blocked
<1>4. Stage(db[req(w)], "receipt_event", loc[w]) /\ Reviewed(db[req(w)], "receipt_event", loc[w])
  BY <1>3 DEF Stage, Reviewed, Called, Allowed, Blocked, Ran, admitted
<1>5. "INCIDENT_QUARANTINED" \in DOMAIN AccountOf /\ AccountOf["INCIDENT_QUARANTINED"] = "incidents"
  BY DEF AccountOf
<1>6. ASSUME NEW a \in Accounts
      PROVE  /\ a = "incidents" => Owes(a, pc[w], loc[w]) /\ ~Owes(a, "receipt_event", loc[w])
             /\ a # "incidents" =>
                   (Owes(a, "receipt_event", loc[w]) <=> Owes(a, pc[w], loc[w]))
  BY <1>1, <1>3 DEF Owes, Issuing, blocks
<1>7. QED
  BY <1>1, <1>4, <1>5, <1>6, CountedEventContinues

(* The receipt's event comes first, and the receipt is owed from then on.  *)
LEMMA ReceiptEventShows ==
    ASSUME IInv, IInv', Audit, NEW w \in Workers, receipt_event(w) PROVE Audit'
<1> DEFINE l == [loc[w] EXCEPT !.final_event = db[req(w)].events["RECEIPT_ISSUED"] + 1]
           lab == IF executes(w) THEN "store_receipt" ELSE "no_execution"
<1>1. /\ pc[w] = "receipt_event" /\ pc[w] # "idle" /\ append_event(w, "RECEIPT_ISSUED")
      /\ pc' = [pc EXCEPT ![w] = lab] /\ loc' = [loc EXCEPT ![w] = l]
      /\ submissions' = submissions
  BY DEF receipt_event, goto, world
<1>2. Stage(db[req(w)], pc[w], loc[w]) /\ loc[w] \in Locals
  BY <1>1, RunningShows, Running
<1>3. /\ l.request = req(w) /\ l.op = loc[w].op /\ l.decision = loc[w].decision
      /\ l.outcome = loc[w].outcome
  BY <1>2 DEF Locals, req
<1>4. \/ lab = "no_execution" /\ blocks(loc[w].decision)
      \/ /\ lab = "store_receipt" /\ loc[w].op = "execute" /\ loc[w].decision = "ALLOW"
         /\ loc[w].outcome \in BOOLEAN
  BY <1>1, <1>2 DEF Stage, executes, blocks
<1> HIDE DEF l, lab
<1>5. Stage(db[req(w)], lab, l) /\ Reviewed(db[req(w)], lab, l)
  BY <1>3, <1>4 DEF Stage, Reviewed, Called, Allowed, Blocked, Ran, admitted
<1>6. "RECEIPT_ISSUED" \in DOMAIN AccountOf /\ AccountOf["RECEIPT_ISSUED"] = "receipts"
  BY DEF AccountOf
<1>7. ASSUME NEW a \in Accounts
      PROVE  Due(a, lab, l) = Due(a, pc[w], loc[w]) + EventChange(a, "RECEIPT_ISSUED")
  <2>1. Owes(a, lab, l) <=> a = "receipts" \/ Owes(a, pc[w], loc[w])
    <3>1. CASE blocks(loc[w].decision)
      BY <1>1, <1>3, <1>4, <3>1 DEF Owes, Issuing, blocks
    <3>2. CASE loc[w].decision = "ALLOW"
      BY <1>1, <1>3, <1>4, <3>2 DEF Owes, Issuing, blocks
    <3>3. QED
      BY <1>4, <3>1, <3>2
  <2>2. ~Owes("receipts", pc[w], loc[w])
    BY <1>1 DEF Owes
  <2>3. QED
    BY <1>6, <2>1, <2>2 DEF Due, EventChange
<1>8. Posts("RECEIPT_ISSUED", pc[w], loc[w], lab, l)
  BY <1>7 DEF Posts
<1>9. QED
  BY <1>1, <1>3, <1>5, <1>6, <1>8, CountedEvent DEF Arrives

(* A row of executions.                                                    *)
ExecutionChange(a, s) ==
    IF \/ s = "SUBMITTED" /\ a \in {"completed", "executions"}
       \/ s = "FAILED_SAFE" /\ a \in {"failed", "executions"}
       \/ s = "NO_EXECUTION" /\ a = "blocked"
    THEN 1
    ELSE IF s = "SUBMITTED" /\ a \in {"submissions", "calls"} THEN -1 ELSE 0

NewExecution(old, row, s) ==
    /\ row.executions = [old.executions EXCEPT ![s] = @ + 1]
    /\ row.events = old.events /\ row.receipts = old.receipts
    /\ row.tool_calls = old.tool_calls /\ row.incidents = old.incidents
    /\ row.rejected = old.rejected /\ row.approved = old.approved

LEMMA ExecutionSurplus ==
    ASSUME NEW old \in RequestRows, NEW s \in {"SUBMITTED", "FAILED_SAFE", "NO_EXECUTION"},
           NEW row, NewExecution(old, row, s),
           NEW list \in Seq(Submissions), NEW a \in Accounts
    PROVE  Surplus(a, row, list) = Surplus(a, old, list) + ExecutionChange(a, s)
<1> USE DEF NewExecution
<1> DEFINE e == old.executions
           f == row.executions
           At(t) == IF s = t THEN e[t] + 1 ELSE e[t]
<1>1. /\ e["SUBMITTED"] \in Nat /\ e["FAILED_SAFE"] \in Nat /\ e["NO_EXECUTION"] \in Nat
  BY CountTypes DEF CountedExecutions
<1>2. /\ f["SUBMITTED"] = At("SUBMITTED") /\ f["FAILED_SAFE"] = At("FAILED_SAFE")
      /\ f["NO_EXECUTION"] = At("NO_EXECUTION")
  BY DEF RequestRows
<1>3. Surplus(a, old, list) \in Int
  BY SurplusType
<1>4. receipts_of(row) = receipts_of(old)
  BY DEF receipts_of
<1>5. CASE a \notin {"completed", "failed", "blocked", "submissions", "calls", "executions"}
  <2>1. Surplus(a, row, list) = Surplus(a, old, list)
    BY <1>4, <1>5, AccountCases, Surpluses
  <2>2. ExecutionChange(a, s) = 0
    BY <1>5 DEF ExecutionChange
  <2>3. QED
    BY <1>3, <2>1, <2>2
<1>6. CASE a = "completed"
  <2> DEFINE n == old.receipts["COMPLETED"]
  <2>1. n \in Int
    BY CountTypes DEF CountedReceipts
  <2>2. Surplus(a, row, list) = f["SUBMITTED"] - n /\ Surplus(a, old, list) = e["SUBMITTED"] - n
    <3>1. n = row.receipts["COMPLETED"] /\ n = old.receipts["COMPLETED"]
      OBVIOUS
    <3>2. /\ Surplus("completed", row, list) = row.executions["SUBMITTED"] - row.receipts["COMPLETED"]
          /\ Surplus("completed", old, list) = old.executions["SUBMITTED"] - old.receipts["COMPLETED"]
      BY Surpluses
    <3> HIDE DEF n
    <3>3. QED
      BY <1>6, <3>1, <3>2
  <2>3. ExecutionChange(a, s) = IF s = "SUBMITTED" THEN 1 ELSE 0
    BY <1>6 DEF ExecutionChange
  <2> HIDE DEF n, e, f
  <2>4. QED
    BY <1>1, <1>2, <2>1, <2>2, <2>3, Posting
<1>7. CASE a = "failed"
  <2> DEFINE n == old.receipts["FAILED_SAFE"]
  <2>1. n \in Int
    BY CountTypes DEF CountedReceipts
  <2>2. Surplus(a, row, list) = f["FAILED_SAFE"] - n /\ Surplus(a, old, list) = e["FAILED_SAFE"] - n
    <3>1. n = row.receipts["FAILED_SAFE"] /\ n = old.receipts["FAILED_SAFE"]
      OBVIOUS
    <3>2. /\ Surplus("failed", row, list) = row.executions["FAILED_SAFE"] - row.receipts["FAILED_SAFE"]
          /\ Surplus("failed", old, list) = old.executions["FAILED_SAFE"] - old.receipts["FAILED_SAFE"]
      BY Surpluses
    <3> HIDE DEF n
    <3>3. QED
      BY <1>7, <3>1, <3>2
  <2>3. ExecutionChange(a, s) = IF s = "FAILED_SAFE" THEN 1 ELSE 0
    BY <1>7 DEF ExecutionChange
  <2> HIDE DEF n, e, f
  <2>4. QED
    BY <1>1, <1>2, <2>1, <2>2, <2>3, Posting
<1>8. CASE a = "blocked"
  <2> DEFINE n == old.receipts["BLOCKED"] + old.receipts["QUARANTINED"]
  <2>1. n \in Int
    BY CountTypes DEF CountedReceipts
  <2>2. /\ Surplus(a, row, list) = f["NO_EXECUTION"] - n
        /\ Surplus(a, old, list) = e["NO_EXECUTION"] - n
    <3>1. /\ n = row.receipts["BLOCKED"] + row.receipts["QUARANTINED"]
          /\ n = old.receipts["BLOCKED"] + old.receipts["QUARANTINED"]
      OBVIOUS
    <3>2. /\ Surplus("blocked", row, list) = row.executions["NO_EXECUTION"] - (row.receipts["BLOCKED"] + row.receipts["QUARANTINED"])
          /\ Surplus("blocked", old, list) = old.executions["NO_EXECUTION"] - (old.receipts["BLOCKED"] + old.receipts["QUARANTINED"])
      BY Surpluses
    <3> HIDE DEF n
    <3>3. QED
      BY <1>8, <3>1, <3>2
  <2>3. ExecutionChange(a, s) = IF s = "NO_EXECUTION" THEN 1 ELSE 0
    BY <1>8 DEF ExecutionChange
  <2> HIDE DEF n, e, f
  <2>4. QED
    BY <1>1, <1>2, <2>1, <2>2, <2>3, Posting
<1>9. CASE a = "submissions"
  <2> DEFINE n == Len(list)
  <2>1. n \in Int
    OBVIOUS
  <2>2. Surplus(a, row, list) = n - f["SUBMITTED"] /\ Surplus(a, old, list) = n - e["SUBMITTED"]
    BY <1>9, Surpluses
  <2>3. ExecutionChange(a, s) = IF s = "SUBMITTED" THEN -1 ELSE 0
    BY <1>9 DEF ExecutionChange
  <2> HIDE DEF n, e, f
  <2>4. QED
    BY <1>1, <1>2, <2>1, <2>2, <2>3, Posting
<1>10. CASE a = "calls"
  <2> DEFINE n == old.tool_calls["COMPLETED"]
  <2>1. n \in Int
    BY CountTypes DEF CountedRows
  <2>2. Surplus(a, row, list) = n - f["SUBMITTED"] /\ Surplus(a, old, list) = n - e["SUBMITTED"]
    BY <1>10, Surpluses
  <2>3. ExecutionChange(a, s) = IF s = "SUBMITTED" THEN -1 ELSE 0
    BY <1>10 DEF ExecutionChange
  <2> HIDE DEF n, e, f
  <2>4. QED
    BY <1>1, <1>2, <2>1, <2>2, <2>3, Posting
<1>11. CASE a = "executions"
  <2> DEFINE n == old.events["TOOL_CALL_COMPLETED"]
             m == e["SUBMITTED"] + e["FAILED_SAFE"]
             hit == s \in {"SUBMITTED", "FAILED_SAFE"}
  <2>1. n \in Int
    BY CountTypes DEF CountedEvents
  <2>2. /\ Surplus(a, row, list) = (f["SUBMITTED"] + f["FAILED_SAFE"]) - n
        /\ Surplus(a, old, list) = m - n
    BY <1>11, Surpluses
  <2>3. ExecutionChange(a, s) = IF hit THEN 1 ELSE 0
    BY <1>11 DEF ExecutionChange
  <2> HIDE DEF e, f
  <2>4. m \in Nat /\ f["SUBMITTED"] + f["FAILED_SAFE"] = IF hit THEN m + 1 ELSE m
    BY <1>1, <1>2
  <2> HIDE DEF n, m, hit
  <2>5. QED
    BY <2>1, <2>2, <2>3, <2>4, Posting
<1>12. QED
  BY <1>5, <1>6, <1>7, <1>8, <1>9, <1>10, <1>11

(* A receipt, whatever its outcome.                                        *)
ReceiptChange(a, s) ==
    IF \/ a = "receipts"
       \/ s = "COMPLETED" /\ a = "completed"
       \/ s = "FAILED_SAFE" /\ a = "failed"
       \/ s \in {"BLOCKED", "QUARANTINED"} /\ a = "blocked"
       \/ s = "QUARANTINED" /\ a = "quarantined"
    THEN -1 ELSE 0

NewReceipt(old, row, s) ==
    /\ row.receipts = [old.receipts EXCEPT ![s] = @ + 1]
    /\ row.events = old.events /\ row.executions = old.executions
    /\ row.tool_calls = old.tool_calls /\ row.incidents = old.incidents
    /\ row.rejected = old.rejected /\ row.approved = old.approved

LEMMA ReceiptSurplus ==
    ASSUME NEW old \in RequestRows, NEW s \in ReceiptStatuses \ {"APPROVAL_REQUIRED"},
           NEW row, NewReceipt(old, row, s),
           NEW list \in Seq(Submissions), NEW a \in Accounts
    PROVE  Surplus(a, row, list) = Surplus(a, old, list) + ReceiptChange(a, s)
<1> USE DEF NewReceipt
<1> DEFINE e == old.receipts
           f == row.receipts
           At(t) == IF s = t THEN e[t] + 1 ELSE e[t]
<1>0. s = "COMPLETED" \/ s = "FAILED_SAFE" \/ s = "BLOCKED" \/ s = "QUARANTINED"
  BY DEF ReceiptStatuses
<1>1. /\ e["COMPLETED"] \in Nat /\ e["FAILED_SAFE"] \in Nat /\ e["BLOCKED"] \in Nat
      /\ e["QUARANTINED"] \in Nat /\ e["APPROVAL_REQUIRED"] \in Nat
  BY CountTypes DEF CountedReceipts
<1>2. /\ f["COMPLETED"] = At("COMPLETED") /\ f["FAILED_SAFE"] = At("FAILED_SAFE")
      /\ f["BLOCKED"] = At("BLOCKED") /\ f["QUARANTINED"] = At("QUARANTINED")
      /\ f["APPROVAL_REQUIRED"] = e["APPROVAL_REQUIRED"]
  <2>1. e \in [ReceiptStatuses -> Nat] /\ f = [e EXCEPT ![s] = @ + 1]
    BY DEF RequestRows
  <2> HIDE DEF e, f
  <2>2. QED
    BY <2>1 DEF ReceiptStatuses
<1>3. Surplus(a, old, list) \in Int
  BY SurplusType
<1>4. CASE a \notin {"completed", "failed", "blocked", "quarantined", "receipts"}
  <2>1. Surplus(a, row, list) = Surplus(a, old, list)
    BY <1>4, AccountCases, Surpluses
  <2>2. ReceiptChange(a, s) = 0
    BY <1>4 DEF ReceiptChange
  <2>3. QED
    BY <1>3, <2>1, <2>2
<1>5. CASE a = "completed"
  <2> DEFINE n == old.executions["SUBMITTED"]
             m == e["COMPLETED"]
             hit == s = "COMPLETED"
  <2>1. n \in Int
    BY CountTypes DEF CountedExecutions
  <2>2. /\ Surplus(a, row, list) = n - f["COMPLETED"]
        /\ Surplus(a, old, list) = n - m
    BY <1>5, Surpluses
  <2>3. ReceiptChange(a, s) = IF hit THEN -1 ELSE 0
    BY <1>5 DEF ReceiptChange
  <2> HIDE DEF e, f
  <2>4. m \in Nat /\ f["COMPLETED"] = IF hit THEN m + 1 ELSE m
    BY <1>1, <1>2
  <2> HIDE DEF n, m, hit
  <2>5. QED
    BY <2>1, <2>2, <2>3, <2>4, Posting
<1>6. CASE a = "failed"
  <2> DEFINE n == old.executions["FAILED_SAFE"]
             m == e["FAILED_SAFE"]
             hit == s = "FAILED_SAFE"
  <2>1. n \in Int
    BY CountTypes DEF CountedExecutions
  <2>2. /\ Surplus(a, row, list) = n - f["FAILED_SAFE"]
        /\ Surplus(a, old, list) = n - m
    BY <1>6, Surpluses
  <2>3. ReceiptChange(a, s) = IF hit THEN -1 ELSE 0
    BY <1>6 DEF ReceiptChange
  <2> HIDE DEF e, f
  <2>4. m \in Nat /\ f["FAILED_SAFE"] = IF hit THEN m + 1 ELSE m
    BY <1>1, <1>2
  <2> HIDE DEF n, m, hit
  <2>5. QED
    BY <2>1, <2>2, <2>3, <2>4, Posting
<1>7. CASE a = "blocked"
  <2> DEFINE n == old.executions["NO_EXECUTION"]
             m == e["BLOCKED"] + e["QUARANTINED"]
             hit == s \in {"BLOCKED", "QUARANTINED"}
  <2>1. n \in Int
    BY CountTypes DEF CountedExecutions
  <2>2. /\ Surplus(a, row, list) = n - (f["BLOCKED"] + f["QUARANTINED"])
        /\ Surplus(a, old, list) = n - m
    BY <1>7, Surpluses
  <2>3. ReceiptChange(a, s) = IF hit THEN -1 ELSE 0
    BY <1>7 DEF ReceiptChange
  <2> HIDE DEF e, f
  <2>4. /\ f["BLOCKED"] = IF s = "BLOCKED" THEN e["BLOCKED"] + 1 ELSE e["BLOCKED"]
        /\ f["QUARANTINED"] = IF s = "QUARANTINED" THEN e["QUARANTINED"] + 1 ELSE e["QUARANTINED"]
        /\ e["BLOCKED"] \in Nat /\ e["QUARANTINED"] \in Nat
    BY <1>1, <1>2
  <2> DEFINE x == e["BLOCKED"]
             y == e["QUARANTINED"]
             x2 == f["BLOCKED"]
             y2 == f["QUARANTINED"]
  <2>5. m \in Nat /\ x2 + y2 = IF hit THEN m + 1 ELSE m
    <3> HIDE DEF x, y, x2, y2
    <3>1. m = x + y /\ x \in Nat /\ y \in Nat
      BY <2>4 DEF x, y
    <3>2. CASE s = "BLOCKED"
      <4>1. x2 = x + 1 /\ y2 = y
        BY <2>4, <3>2 DEF x, y, x2, y2
      <4>2. QED
        BY <3>1, <3>2, <4>1
    <3>3. CASE s = "QUARANTINED"
      <4>1. x2 = x /\ y2 = y + 1
        BY <2>4, <3>3 DEF x, y, x2, y2
      <4>2. QED
        BY <3>1, <3>3, <4>1
    <3>4. CASE ~hit
      <4>1. x2 = x /\ y2 = y
        BY <2>4, <3>4 DEF x, y, x2, y2
      <4>2. QED
        BY <3>1, <3>4, <4>1
    <3>5. QED
      BY <3>2, <3>3, <3>4
  <2> HIDE DEF n, m, hit
  <2>6. QED
    BY <2>1, <2>2, <2>3, <2>5, Posting DEF x2, y2
<1>8. CASE a = "quarantined"
  <2> DEFINE n == old.incidents
             m == e["QUARANTINED"]
             hit == s = "QUARANTINED"
  <2>1. n \in Int
    BY CountTypes DEF CountedRows
  <2>2. /\ Surplus(a, row, list) = n - f["QUARANTINED"]
        /\ Surplus(a, old, list) = n - m
    BY <1>8, Surpluses
  <2>3. ReceiptChange(a, s) = IF hit THEN -1 ELSE 0
    BY <1>8 DEF ReceiptChange
  <2> HIDE DEF e, f
  <2>4. m \in Nat /\ f["QUARANTINED"] = IF hit THEN m + 1 ELSE m
    BY <1>1, <1>2
  <2> HIDE DEF n, m, hit
  <2>5. QED
    BY <2>1, <2>2, <2>3, <2>4, Posting
<1>9. CASE a = "receipts"
  <2> DEFINE n == old.events["RECEIPT_ISSUED"]
             m == receipts_of(old)
  <2>1. n \in Int
    BY CountTypes DEF CountedEvents
  <2>2. Surplus(a, row, list) = n - receipts_of(row) /\ Surplus(a, old, list) = n - m
    BY <1>9, Surpluses
  <2>3. ReceiptChange(a, s) = -1
    BY <1>9 DEF ReceiptChange
  <2> DEFINE x1 == e["COMPLETED"]
             x2 == e["FAILED_SAFE"]
             x3 == e["BLOCKED"]
             x4 == e["QUARANTINED"]
             x5 == e["APPROVAL_REQUIRED"]
             y1 == f["COMPLETED"]
             y2 == f["FAILED_SAFE"]
             y3 == f["BLOCKED"]
             y4 == f["QUARANTINED"]
  <2>4. m \in Nat /\ receipts_of(row) = m + 1
    <3>1. m = x1 + x2 + x3 + x4 + x5
      BY DEF receipts_of
    <3>2. receipts_of(row) = y1 + y2 + y3 + y4 + x5
      BY <1>2 DEF receipts_of
    <3>3. /\ x1 \in Nat /\ x2 \in Nat /\ x3 \in Nat /\ x4 \in Nat /\ x5 \in Nat
          /\ y1 = IF s = "COMPLETED" THEN x1 + 1 ELSE x1
          /\ y2 = IF s = "FAILED_SAFE" THEN x2 + 1 ELSE x2
          /\ y3 = IF s = "BLOCKED" THEN x3 + 1 ELSE x3
          /\ y4 = IF s = "QUARANTINED" THEN x4 + 1 ELSE x4
      BY <1>1, <1>2
    <3> HIDE DEF m, x1, x2, x3, x4, x5, y1, y2, y3, y4
    <3>4. QED
      BY <1>0, <3>1, <3>2, <3>3
  <2> HIDE DEF n, m
  <2>5. QED
    BY <2>1, <2>2, <2>3, <2>4
<1>10. QED
  BY <1>4, <1>5, <1>6, <1>7, <1>8, <1>9

(* A commit that comes with change[a] for each account a.                  *)
Balanced(row, list, lab, l, row2, list2, lab2, l2, change) ==
    \A a \in Accounts :
        /\ Surplus(a, row2, list2) = Surplus(a, row, list) + change[a]
        /\ Due(a, lab2, l2) <= Due(a, lab, l) + change[a]
        /\ a # "calls" => Due(a, lab2, l2) = Due(a, lab, l) + change[a]

LEMMA CountedCommit ==
    ASSUME IInv, IInv', Audit, NEW w \in Workers, pc[w] # "idle",
           NEW row, NEW list, NEW lab, NEW l, NEW change \in [Accounts -> Int],
           db' = [db EXCEPT ![req(w)] = row],
           submissions' = [submissions EXCEPT ![req(w)] = list],
           pc' = [pc EXCEPT ![w] = lab], loc' = [loc EXCEPT ![w] = l],
           RowShows(row), Preserves(db[req(w)], row), Arrives(w, row, lab, l),
           Balanced(db[req(w)], submissions[req(w)], pc[w], loc[w], row, list, lab, l, change)
    PROVE  Audit'
<1>1. db[req(w)] \in RequestRows /\ submissions[req(w)] \in Seq(Submissions)
  BY RunningShows
<1>2. Settles(db[req(w)], submissions[req(w)], pc[w], loc[w], row, list, lab, l)
  BY <1>1, SettlesBy DEF Balanced
<1>3. QED
  BY <1>2, HandlerMoves

(* A commit that adds one to the accounts S, which is then owed on them.   *)
Adds(row, list, row2, list2, S) ==
    \A a \in Accounts :
        Surplus(a, row2, list2) = Surplus(a, row, list) + (IF a \in S THEN 1 ELSE 0)

OwesOn(S, lab, l) == \A a \in Accounts : Owes(a, lab, l) <=> a \in S

LEMMA Opening ==
    ASSUME NEW row \in RequestRows, NEW list \in Seq(Submissions), NEW row2, NEW list2,
           NEW lab, NEW l, NEW lab2, NEW S,
           Adds(row, list, row2, list2, S), OwesNone(lab, l), OwesOn(S, lab2, l)
    PROVE  /\ [a \in Accounts |-> IF a \in S THEN 1 ELSE 0] \in [Accounts -> Int]
           /\ Balanced(row, list, lab, l, row2, list2, lab2, l,
                       [a \in Accounts |-> IF a \in S THEN 1 ELSE 0])
<1> DEFINE change == [a \in Accounts |-> IF a \in S THEN 1 ELSE 0]
<1>1. SUFFICES ASSUME NEW a \in Accounts
               PROVE  /\ Surplus(a, row2, list2) = Surplus(a, row, list) + change[a]
                      /\ Due(a, lab2, l) = Due(a, lab, l) + change[a]
                      /\ Due(a, lab2, l) <= Due(a, lab, l) + change[a]
  BY DEF Balanced
<1>2. Due(a, lab, l) = 0 /\ Due(a, lab2, l) = IF a \in S THEN 1 ELSE 0
  BY DEF Due, OwesNone, OwesOn
<1>3. change[a] = IF a \in S THEN 1 ELSE 0
  OBVIOUS
<1> HIDE DEF change
<1>4. QED
  BY <1>2, <1>3 DEF Adds

(* The two ends of approve and reject.                                     *)
LEMMA GrantShows == ASSUME IInv, IInv', Audit, NEW w \in Workers, grant(w) PROVE Audit'
<1> DEFINE old == db[req(w)]
           list == submissions[req(w)]
           a == [status |-> "APPROVED", approved_plan_hash |-> loc[w].plan,
                 policy_version |-> Delegations[policy_id(w)].version,
                 expires_at |-> now + ApprovalTTL]
           approved == Append(old.approved, a)
           written == state_written(w, "APPROVED")
           row == [old EXCEPT !.approved = approved, !.state = written]
           change == [x \in Accounts |-> IF x \in {"granted"} THEN 1 ELSE 0]
<1>1. /\ pc[w] = "grant" /\ pc[w] # "idle"
      /\ pc' = [pc EXCEPT ![w] = "granted_event"] /\ loc' = loc
      /\ submissions' = submissions /\ OwesNone(pc[w], loc[w])
  BY CalmOwesNone DEF grant, goto, world, Owing
<1>2. /\ req(w) \in Requests /\ old \in RequestRows /\ list \in Seq(Submissions)
      /\ RowShows(old) /\ old.approved \in Seq(Approvals)
  BY <1>1, RunningShows DEF RequestRows
<1>3. db' = [db EXCEPT ![req(w)] = row]
  BY <1>2 DEF grant, IInv, TypeOK
<1>4. written = old.state \/ written = "APPROVED"
  BY DEF state_written
<1>5. Len(approved) = Len(old.approved) + 1 /\ approved # <<>> /\ Len(old.approved) \in Nat
  <2> HIDE DEF a
  <2>1. Len(approved) = Len(old.approved) + 1 /\ Len(old.approved) \in Nat
    BY <1>2
  <2>2. Len(<<>>) = 0
    OBVIOUS
  <2> HIDE DEF approved
  <2>3. QED
    BY <2>1, <2>2
<1> HIDE DEF a, approved, written
<1>6. /\ row.approved = approved /\ row.state = written /\ row.plans = old.plans
      /\ row.executions = old.executions /\ row.receipts = old.receipts
      /\ row.tool_calls = old.tool_calls /\ row.incidents = old.incidents
      /\ row.rejected = old.rejected /\ row.events = old.events
      /\ row.policy = old.policy /\ row.evaluations = old.evaluations
  BY <1>2 DEF RequestRows
<1> HIDE DEF row
<1>7. Preserves(old, row)
  BY <1>5, <1>6 DEF Preserves
<1>8. RowShows(row)
  <2>1. Backed(row, "APPROVED") /\ Backed(row, old.state)
    BY <1>2, <1>5, <1>6, <1>7, BackedPreserved DEF Backed, RowShows
  <2>2. QED
    BY <1>2, <1>4, <1>6, <1>7, <2>1, RowGoesOn DEF RowShows
<1>9. ASSUME NEW x \in Accounts
      PROVE  Surplus(x, row, list) = Surplus(x, old, list) + (IF x \in {"granted"} THEN 1 ELSE 0)
  <2>1. Surplus(x, old, list) \in Int
    BY <1>2, SurplusType
  <2>2. CASE x = "granted"
    <3> DEFINE m == Len(old.approved)
               n == old.events["APPROVAL_GRANTED"]
    <3>1. m \in Nat /\ n \in Int
      BY <1>2, CountTypes DEF CountedEvents, CountedRows
    <3>2. Surplus("granted", row, list) = Len(approved) - n /\ Surplus("granted", old, list) = m - n
      BY <1>6, Surpluses
    <3>3. Len(approved) = m + 1
      BY <1>5
    <3> HIDE DEF m, n
    <3>4. QED
      BY <2>2, <3>1, <3>2, <3>3
  <2>3. CASE x # "granted"
    <3>1. receipts_of(row) = receipts_of(old)
      BY <1>6 DEF receipts_of
    <3>2. Surplus(x, row, list) = Surplus(x, old, list)
      BY <1>6, <2>3, <3>1, Surpluses, AccountCases
    <3>3. QED
      BY <2>1, <2>3, <3>2
  <2>4. QED
    BY <2>2, <2>3
<1>10. OwesOn({"granted"}, "granted_event", loc[w])
  BY OwedAt DEF OwesOn
<1>11. /\ change \in [Accounts -> Int]
       /\ Balanced(old, list, pc[w], loc[w], row, list, "granted_event", loc[w], change)
  <2>1. Adds(old, list, row, list, {"granted"})
    BY <1>9 DEF Adds
  <2> HIDE DEF old, list
  <2>2. QED
    BY <1>1, <1>2, <1>10, <2>1, Opening
<1>12. Stage(row, "granted_event", loc[w]) /\ Reviewed(row, "granted_event", loc[w])
  BY DEF Stage, Reviewed, Called, Allowed, Blocked, Ran, admitted
<1>13. /\ Arrives(w, row, "granted_event", loc[w]) /\ loc' = [loc EXCEPT ![w] = loc[w]]
       /\ submissions' = [submissions EXCEPT ![req(w)] = list]
  BY <1>1, <1>12, Continues, Stays DEF IInv, TypeOK
<1> HIDE DEF old, list, change
<1>14. QED
  BY <1>1, <1>3, <1>7, <1>8, <1>11, <1>13, CountedCommit DEF old, list

LEMMA RefuseShows == ASSUME IInv, IInv', Audit, NEW w \in Workers, refuse(w) PROVE Audit'
<1> DEFINE old == db[req(w)]
           list == submissions[req(w)]
           n == old.rejected + 1
           written == state_written(w, "REJECTED")
           row == [old EXCEPT !.rejected = n, !.state = written]
           change == [x \in Accounts |-> IF x \in {"rejected"} THEN 1 ELSE 0]
<1>1. /\ pc[w] = "refuse" /\ pc[w] # "idle"
      /\ pc' = [pc EXCEPT ![w] = "refused_event"] /\ loc' = loc
      /\ submissions' = submissions /\ OwesNone(pc[w], loc[w])
  BY CalmOwesNone DEF refuse, goto, world, Owing
<1>2. /\ req(w) \in Requests /\ old \in RequestRows /\ list \in Seq(Submissions)
      /\ RowShows(old) /\ old.rejected \in Nat
  BY <1>1, RunningShows DEF RequestRows
<1>3. db' = [db EXCEPT ![req(w)] = row]
  BY <1>2 DEF refuse, IInv, TypeOK
<1>4. written = old.state \/ written = "REJECTED"
  BY DEF state_written
<1>5. n \in Nat /\ n > 0
  BY <1>2
<1> HIDE DEF n, written
<1>6. /\ row.rejected = n /\ row.state = written /\ row.plans = old.plans
      /\ row.executions = old.executions /\ row.receipts = old.receipts
      /\ row.tool_calls = old.tool_calls /\ row.incidents = old.incidents
      /\ row.approved = old.approved /\ row.events = old.events
      /\ row.policy = old.policy /\ row.evaluations = old.evaluations
  BY <1>2 DEF RequestRows
<1> HIDE DEF row
<1>7. Preserves(old, row)
  BY <1>5, <1>6 DEF Preserves
<1>8. RowShows(row)
  <2>1. Backed(row, "REJECTED") /\ Backed(row, old.state)
    BY <1>2, <1>5, <1>6, <1>7, BackedPreserved DEF Backed, RowShows
  <2>2. QED
    BY <1>2, <1>4, <1>6, <1>7, <2>1, RowGoesOn DEF RowShows
<1>9. ASSUME NEW x \in Accounts
      PROVE  Surplus(x, row, list) = Surplus(x, old, list) + (IF x \in {"rejected"} THEN 1 ELSE 0)
  <2>1. Surplus(x, old, list) \in Int
    BY <1>2, SurplusType
  <2>2. CASE x = "rejected"
    <3>1. old.events["APPROVAL_REJECTED"] \in Nat
      BY <1>2, CountTypes DEF CountedEvents
    <3>2. /\ Surplus("rejected", row, list) = n - old.events["APPROVAL_REJECTED"]
          /\ Surplus("rejected", old, list) = old.rejected - old.events["APPROVAL_REJECTED"]
      BY <1>6, Surpluses
    <3>3. QED
      BY <1>2, <2>2, <3>1, <3>2 DEF n
  <2>3. CASE x # "rejected"
    <3>1. receipts_of(row) = receipts_of(old)
      BY <1>6 DEF receipts_of
    <3>2. Surplus(x, row, list) = Surplus(x, old, list)
      BY <1>6, <2>3, <3>1, Surpluses, AccountCases
    <3>3. QED
      BY <2>1, <2>3, <3>2
  <2>4. QED
    BY <2>2, <2>3
<1>10. OwesOn({"rejected"}, "refused_event", loc[w])
  BY OwedAt DEF OwesOn
<1>11. /\ change \in [Accounts -> Int]
       /\ Balanced(old, list, pc[w], loc[w], row, list, "refused_event", loc[w], change)
  <2>1. Adds(old, list, row, list, {"rejected"})
    BY <1>9 DEF Adds
  <2> HIDE DEF old, list
  <2>2. QED
    BY <1>1, <1>2, <1>10, <2>1, Opening
<1>12. Stage(row, "refused_event", loc[w]) /\ Reviewed(row, "refused_event", loc[w])
  BY DEF Stage, Reviewed, Called, Allowed, Blocked, Ran, admitted
<1>13. /\ Arrives(w, row, "refused_event", loc[w]) /\ loc' = [loc EXCEPT ![w] = loc[w]]
       /\ submissions' = [submissions EXCEPT ![req(w)] = list]
  BY <1>1, <1>12, Continues, Stays DEF IInv, TypeOK
<1> HIDE DEF old, list, change
<1>14. QED
  BY <1>1, <1>3, <1>7, <1>8, <1>11, <1>13, CountedCommit DEF old, list

(* An incident is filed on two accounts: its event is owed, and a receipt  *)
(* that says so.                                                           *)
LEMMA IncidentShows == ASSUME IInv, IInv', Audit, NEW w \in Workers, incident(w) PROVE Audit'
<1> DEFINE old == db[req(w)]
           list == submissions[req(w)]
           n == old.incidents + 1
           row == [old EXCEPT !.incidents = n]
           S == {"incidents", "quarantined"}
           change == [x \in Accounts |-> IF x \in S THEN 1 ELSE 0]
<1>1. /\ pc[w] = "incident" /\ pc[w] # "idle"
      /\ db' = [db EXCEPT ![req(w)] = row]
      /\ pc' = [pc EXCEPT ![w] = "incident_event"] /\ loc' = loc
      /\ submissions' = submissions /\ OwesNone(pc[w], loc[w])
  BY CalmOwesNone DEF incident, goto, world, Owing
<1>2. /\ req(w) \in Requests /\ old \in RequestRows /\ list \in Seq(Submissions)
      /\ RowShows(old) /\ old.incidents \in Nat /\ Stage(old, pc[w], loc[w])
  BY <1>1, RunningShows DEF RequestRows
<1>3. blocks(loc[w].decision) /\ loc[w].decision = "QUARANTINE"
  BY <1>1, <1>2 DEF Stage, Blocked
<1> HIDE DEF n
<1>4. /\ row.incidents = n /\ row.state = old.state /\ row.plans = old.plans
      /\ row.executions = old.executions /\ row.receipts = old.receipts
      /\ row.tool_calls = old.tool_calls /\ row.rejected = old.rejected
      /\ row.approved = old.approved /\ row.events = old.events
      /\ row.policy = old.policy /\ row.evaluations = old.evaluations
  BY <1>2 DEF RequestRows
<1> HIDE DEF row
<1>5. Preserves(old, row)
  BY <1>4 DEF Preserves
<1>6. RowShows(row)
  BY <1>2, <1>4, <1>5, RowGoesOn DEF RowShows
<1>7. ASSUME NEW x \in Accounts
      PROVE  Surplus(x, row, list) = Surplus(x, old, list) + (IF x \in S THEN 1 ELSE 0)
  <2>1. Surplus(x, old, list) \in Int
    BY <1>2, SurplusType
  <2>2. CASE x = "incidents"
    <3>1. old.events["INCIDENT_QUARANTINED"] \in Nat
      BY <1>2, CountTypes DEF CountedEvents
    <3>2. /\ Surplus("incidents", row, list) = n - old.events["INCIDENT_QUARANTINED"]
          /\ Surplus("incidents", old, list) = old.incidents - old.events["INCIDENT_QUARANTINED"]
      BY <1>4, Surpluses
    <3>3. QED
      BY <1>2, <2>2, <3>1, <3>2 DEF n
  <2>3. CASE x = "quarantined"
    <3>1. old.receipts["QUARANTINED"] \in Nat
      BY <1>2, CountTypes DEF CountedReceipts
    <3>2. /\ Surplus("quarantined", row, list) = n - old.receipts["QUARANTINED"]
          /\ Surplus("quarantined", old, list) = old.incidents - old.receipts["QUARANTINED"]
      BY <1>4, Surpluses
    <3>3. QED
      BY <1>2, <2>3, <3>1, <3>2 DEF n
  <2>4. CASE x \notin S
    <3>1. receipts_of(row) = receipts_of(old)
      BY <1>4 DEF receipts_of
    <3>2. Surplus(x, row, list) = Surplus(x, old, list)
      BY <1>4, <2>4, <3>1, Surpluses, AccountCases
    <3>3. QED
      BY <2>1, <2>4, <3>2
  <2>5. QED
    BY <2>2, <2>3, <2>4
<1>8. OwesOn(S, "incident_event", loc[w])
  BY <1>3 DEF Owes, Issuing, OwesOn
<1>9. /\ change \in [Accounts -> Int]
      /\ Balanced(old, list, pc[w], loc[w], row, list, "incident_event", loc[w], change)
  <2>1. Adds(old, list, row, list, S)
    BY <1>7 DEF Adds
  <2> HIDE DEF old, list, S
  <2>2. QED
    BY <1>1, <1>2, <1>8, <2>1, Opening
<1>10. Stage(row, "incident_event", loc[w]) /\ Reviewed(row, "incident_event", loc[w])
  BY <1>3 DEF Stage, Reviewed, Called, Allowed, Blocked, Ran, admitted
<1>11. /\ Arrives(w, row, "incident_event", loc[w]) /\ loc' = [loc EXCEPT ![w] = loc[w]]
       /\ submissions' = [submissions EXCEPT ![req(w)] = list]
  BY <1>1, <1>10, Continues, Stays DEF IInv, TypeOK
<1> HIDE DEF old, list, change
<1>12. QED
  BY <1>1, <1>5, <1>6, <1>9, <1>11, CountedCommit DEF old, list

(* The rows of executions: of a refusal, and of a run of the tools.        *)
WithExecution(old, s, state) == [old EXCEPT !.executions[s] = @ + 1, !.state = state]

LEMMA ExecutionRow ==
    ASSUME NEW old \in RequestRows, NEW s \in {"SUBMITTED", "FAILED_SAFE", "NO_EXECUTION"},
           NEW state
    PROVE  LET row == WithExecution(old, s, state) IN
           /\ NewExecution(old, row, s) /\ row.state = state /\ row.plans = old.plans
           /\ row.receipts = old.receipts /\ row.executions[s] > 0 /\ Preserves(old, row)
<1> DEFINE f == [old.executions EXCEPT ![s] = @ + 1]
           row == [old EXCEPT !.executions = f, !.state = state]
<1>1. old.executions \in [{"SUBMITTED", "FAILED_SAFE", "NO_EXECUTION"} -> Nat]
  BY DEF RequestRows
<1>2. f[s] > 0 /\ \A t \in {"SUBMITTED", "FAILED_SAFE"} : old.executions[t] > 0 => f[t] > 0
  BY <1>1
<1> HIDE DEF f
<1>3. /\ row.executions = f /\ row.state = state /\ row.plans = old.plans
      /\ row.events = old.events /\ row.receipts = old.receipts
      /\ row.tool_calls = old.tool_calls /\ row.incidents = old.incidents
      /\ row.rejected = old.rejected /\ row.approved = old.approved
      /\ row.policy = old.policy /\ row.evaluations = old.evaluations
  BY DEF RequestRows
<1> HIDE DEF row
<1>4. Preserves(old, row)
  BY <1>2, <1>3 DEF Preserves
<1>5. QED
  BY <1>2, <1>3, <1>4 DEF row, f, WithExecution, NewExecution

(* Such a row is balanced when what is owed changes with it.               *)
Dues(lab, l, lab2, l2, change) ==
    \A a \in Accounts : Due(a, lab2, l2) = Due(a, lab, l) + change[a]

LEMMA ExecutionBalances ==
    ASSUME NEW old \in RequestRows, NEW s \in {"SUBMITTED", "FAILED_SAFE", "NO_EXECUTION"},
           NEW row, NewExecution(old, row, s),
           NEW list \in Seq(Submissions), NEW lab, NEW l, NEW lab2, NEW l2,
           Dues(lab, l, lab2, l2, [a \in Accounts |-> ExecutionChange(a, s)])
    PROVE  /\ [a \in Accounts |-> ExecutionChange(a, s)] \in [Accounts -> Int]
           /\ Balanced(old, list, lab, l, row, list, lab2, l2,
                       [a \in Accounts |-> ExecutionChange(a, s)])
<1> DEFINE change == [a \in Accounts |-> ExecutionChange(a, s)]
<1>1. change \in [Accounts -> Int] /\ \A a \in Accounts : change[a] = ExecutionChange(a, s)
  BY DEF ExecutionChange
<1>2. ASSUME NEW a \in Accounts
      PROVE  Surplus(a, row, list) = Surplus(a, old, list) + ExecutionChange(a, s)
  BY ExecutionSurplus
<1> HIDE DEF change
<1>3. ASSUME NEW a \in Accounts
      PROVE  /\ Due(a, lab2, l2) <= Due(a, lab, l) + change[a]
             /\ Due(a, lab2, l2) = Due(a, lab, l) + change[a]
  <2>1. Due(a, lab2, l2) \in Int /\ Due(a, lab2, l2) = Due(a, lab, l) + change[a]
    BY DEF Due, Dues, change
  <2>2. QED
    BY <2>1
<1>4. QED
  BY <1>1, <1>2, <1>3 DEF Balanced, change

LEMMA NoExecutionShows ==
    ASSUME IInv, IInv', Audit, NEW w \in Workers, no_execution(w) PROVE Audit'
<1> DEFINE old == db[req(w)]
           list == submissions[req(w)]
           row == WithExecution(old, "NO_EXECUTION", old.state)
           change == [a \in Accounts |-> ExecutionChange(a, "NO_EXECUTION")]
<1>1. /\ pc[w] = "no_execution" /\ pc[w] # "idle"
      /\ pc' = [pc EXCEPT ![w] = "store_receipt"] /\ loc' = loc
      /\ submissions' = submissions
  BY DEF no_execution, goto, world
<1>2. /\ req(w) \in Requests /\ old \in RequestRows /\ list \in Seq(Submissions)
      /\ RowShows(old) /\ Stage(old, pc[w], loc[w])
  BY <1>1, RunningShows
<1>3. db' = [db EXCEPT ![req(w)] = row]
  <2>1. row = [old EXCEPT !.executions["NO_EXECUTION"] = @ + 1]
    BY <1>2 DEF RequestRows, WithExecution
  <2> HIDE DEF row
  <2>2. QED
    BY <2>1 DEF no_execution
<1>4. blocks(loc[w].decision)
  BY <1>1, <1>2 DEF Stage, Blocked
<1>5. /\ NewExecution(old, row, "NO_EXECUTION") /\ Preserves(old, row)
      /\ row.state = old.state /\ row.plans = old.plans /\ row.receipts = old.receipts
  BY <1>2, ExecutionRow
<1> HIDE DEF row
<1>6. RowShows(row)
  BY <1>2, <1>5, RowGoesOn DEF RowShows
<1>7. ASSUME NEW a \in Accounts
      PROVE  Due(a, "store_receipt", loc[w])
               = Due(a, pc[w], loc[w]) + ExecutionChange(a, "NO_EXECUTION")
  <2>1. Owes(a, "store_receipt", loc[w]) <=> a = "blocked" \/ Owes(a, pc[w], loc[w])
    BY <1>1, <1>4 DEF Owes, Issuing, blocks
  <2>2. ~Owes("blocked", pc[w], loc[w])
    BY <1>1 DEF Owes
  <2>3. ExecutionChange(a, "NO_EXECUTION") = IF a = "blocked" THEN 1 ELSE 0
    BY DEF ExecutionChange
  <2>4. QED
    BY <2>1, <2>2, <2>3 DEF Due
<1>8. /\ change \in [Accounts -> Int]
      /\ Balanced(old, list, pc[w], loc[w], row, list, "store_receipt", loc[w], change)
  <2>1. Dues(pc[w], loc[w], "store_receipt", loc[w], change)
    BY <1>7 DEF Dues
  <2> HIDE DEF old, list
  <2>2. QED
    BY <1>2, <1>5, <2>1, ExecutionBalances
<1>9. Stage(row, "store_receipt", loc[w]) /\ Reviewed(row, "store_receipt", loc[w])
  BY <1>4 DEF Stage, Reviewed, Called, Allowed, Blocked, Ran, admitted
<1>10. /\ Arrives(w, row, "store_receipt", loc[w]) /\ loc' = [loc EXCEPT ![w] = loc[w]]
       /\ submissions' = [submissions EXCEPT ![req(w)] = list]
  BY <1>1, <1>9, Continues, Stays DEF IInv, TypeOK
<1> HIDE DEF old, list, change
<1>11. QED
  BY <1>1, <1>3, <1>5, <1>6, <1>8, <1>10, CountedCommit DEF old, list

LEMMA StoreExecutionShows ==
    ASSUME IInv, IInv', Audit, NEW w \in Workers, store_execution(w) PROVE Audit'
<1> DEFINE old == db[req(w)]
           list == submissions[req(w)]
           s == execution_status(loc[w].outcome)
           state == executed_state(loc[w].outcome)
           written == state_written(w, state)
           row == WithExecution(old, s, written)
           l == [loc[w] EXCEPT !.state = state]
           change == [a \in Accounts |-> ExecutionChange(a, s)]
<1>1. /\ pc[w] = "store_execution" /\ pc[w] # "idle"
      /\ db' = [db EXCEPT ![req(w)] = row]
      /\ pc' = [pc EXCEPT ![w] = "completed_event"] /\ loc' = [loc EXCEPT ![w] = l]
      /\ submissions' = submissions
  BY Running DEF store_execution, goto, world, IInv, TypeOK, WithExecution
<1>2. /\ req(w) \in Requests /\ old \in RequestRows /\ list \in Seq(Submissions)
      /\ RowShows(old) /\ Stage(old, pc[w], loc[w]) /\ loc[w] \in Locals
  BY <1>1, RunningShows, Running
<1>3. /\ loc[w].op = "execute" /\ loc[w].decision = "ALLOW" /\ loc[w].outcome \in BOOLEAN
      /\ \E e \in old.evaluations : e.decision = "ALLOW"
  BY <1>1, <1>2 DEF Stage, Allowed, Ran
<1>4. /\ l.request = req(w) /\ l.op = loc[w].op /\ l.decision = loc[w].decision
      /\ l.outcome = loc[w].outcome
  BY <1>2, StateLoaded DEF req
<1>5. \/ s = "SUBMITTED" /\ state = "EXECUTED" /\ loc[w].outcome = TRUE
      \/ s = "FAILED_SAFE" /\ state = "FAILED_SAFE" /\ loc[w].outcome = FALSE
  <2>1. CASE loc[w].outcome = TRUE
    BY <2>1 DEF execution_status, executed_state
  <2>2. CASE loc[w].outcome = FALSE
    BY <2>2 DEF execution_status, executed_state
  <2>3. QED
    BY <1>3, <2>1, <2>2
<1>6. written = old.state \/ written = state
  BY DEF state_written
<1> HIDE DEF l, s, state, written
<1>7. s \in {"SUBMITTED", "FAILED_SAFE", "NO_EXECUTION"}
  BY <1>5
<1>8. /\ NewExecution(old, row, s) /\ Preserves(old, row) /\ row.executions[s] > 0
      /\ row.state = written /\ row.plans = old.plans /\ row.receipts = old.receipts
  BY <1>2, <1>7, ExecutionRow
<1> HIDE DEF row
<1>9. RowShows(row)
  <2>1. Backed(row, state)
    BY <1>5, <1>8 DEF Backed
  <2>2. row.state = old.state \/ Backed(row, row.state)
    BY <1>6, <1>8, <2>1
  <2>3. QED
    BY <1>2, <1>8, <2>2, RowGoesOn DEF RowShows
<1>10. ASSUME NEW a \in Accounts
       PROVE  Due(a, "completed_event", l) = Due(a, pc[w], loc[w]) + ExecutionChange(a, s)
  <2>1. CASE loc[w].outcome = TRUE
    <3>1. Owes(a, pc[w], loc[w]) <=> a \in {"submissions", "calls"}
      BY <1>1, <2>1 DEF Owes, Issuing
    <3>2. Owes(a, "completed_event", l) <=> a \in {"completed", "executions"}
      BY <1>3, <1>4, <2>1 DEF Owes, Issuing
    <3>3. s = "SUBMITTED"
      BY <1>5, <2>1
    <3>4. QED
      BY <3>1, <3>2, <3>3 DEF Due, ExecutionChange
  <2>2. CASE loc[w].outcome = FALSE
    <3>1. ~Owes(a, pc[w], loc[w])
      BY <1>1, <2>2 DEF Owes, Issuing
    <3>2. Owes(a, "completed_event", l) <=> a \in {"failed", "executions"}
      BY <1>3, <1>4, <2>2 DEF Owes, Issuing
    <3>3. s = "FAILED_SAFE"
      BY <1>5, <2>2
    <3>4. QED
      BY <3>1, <3>2, <3>3 DEF Due, ExecutionChange
  <2>3. QED
    BY <1>3, <2>1, <2>2
<1>11. /\ change \in [Accounts -> Int]
       /\ Balanced(old, list, pc[w], loc[w], row, list, "completed_event", l, change)
  <2>1. Dues(pc[w], loc[w], "completed_event", l, change)
    BY <1>10 DEF Dues
  <2> HIDE DEF old, list
  <2>2. QED
    BY <1>2, <1>7, <1>8, <2>1, ExecutionBalances
<1>12. Stage(row, "completed_event", l) /\ Reviewed(row, "completed_event", l)
  BY <1>3, <1>4, <1>8 DEF Stage, Reviewed, Called, Allowed, Blocked, Ran, admitted, Preserves
<1>13. /\ Arrives(w, row, "completed_event", l)
       /\ submissions' = [submissions EXCEPT ![req(w)] = list]
  BY <1>1, <1>4, <1>12 DEF Arrives, IInv, TypeOK
<1> HIDE DEF old, list, change
<1>14. QED
  BY <1>1, <1>8, <1>9, <1>11, <1>13, CountedCommit DEF old, list

LEMMA ReceiptBalances ==
    ASSUME NEW old \in RequestRows, NEW s \in ReceiptStatuses \ {"APPROVAL_REQUIRED"},
           NEW row, NewReceipt(old, row, s),
           NEW list \in Seq(Submissions), NEW lab, NEW l, NEW lab2, NEW l2,
           Dues(lab, l, lab2, l2, [a \in Accounts |-> ReceiptChange(a, s)])
    PROVE  /\ [a \in Accounts |-> ReceiptChange(a, s)] \in [Accounts -> Int]
           /\ Balanced(old, list, lab, l, row, list, lab2, l2,
                       [a \in Accounts |-> ReceiptChange(a, s)])
<1> DEFINE change == [a \in Accounts |-> ReceiptChange(a, s)]
<1>1. change \in [Accounts -> Int] /\ \A a \in Accounts : change[a] = ReceiptChange(a, s)
  BY DEF ReceiptChange
<1>2. ASSUME NEW a \in Accounts
      PROVE  Surplus(a, row, list) = Surplus(a, old, list) + ReceiptChange(a, s)
  BY ReceiptSurplus
<1> HIDE DEF change
<1>3. ASSUME NEW a \in Accounts
      PROVE  /\ Due(a, lab2, l2) <= Due(a, lab, l) + change[a]
             /\ Due(a, lab2, l2) = Due(a, lab, l) + change[a]
  <2>1. Due(a, lab2, l2) \in Int /\ Due(a, lab2, l2) = Due(a, lab, l) + change[a]
    BY DEF Due, Dues, change
  <2>2. QED
    BY <2>1
<1>4. QED
  BY <1>1, <1>2, <1>3 DEF Balanced, change

(* The receipt pays what was owed since its event; no execution's receipt  *)
(* asks for an approval.                                                   *)
LEMMA StoreReceiptShows ==
    ASSUME IInv, IInv', Audit, NEW w \in Workers, store_receipt(w) PROVE Audit'
<1> DEFINE old == db[req(w)]
           list == submissions[req(w)]
           s == receipt(w).status
           f == [old.receipts EXCEPT ![s] = @ + 1]
           row == [old EXCEPT !.receipts = f]
           change == [a \in Accounts |-> ReceiptChange(a, s)]
<1>1. /\ pc[w] = "store_receipt" /\ pc[w] # "idle"
      /\ db' = [db EXCEPT ![req(w)] = row]
      /\ pc' = [pc EXCEPT ![w] = "set_issued"] /\ loc' = loc
      /\ submissions' = submissions
  BY DEF store_receipt, goto, world
<1>2. /\ req(w) \in Requests /\ old \in RequestRows /\ list \in Seq(Submissions)
      /\ RowShows(old) /\ Stage(old, pc[w], loc[w])
  BY <1>1, RunningShows
<1>3. \/ loc[w].decision = "QUARANTINE" /\ s = "QUARANTINED"
      \/ loc[w].decision = "DENY" /\ s = "BLOCKED"
      \/ loc[w].decision = "ALLOW" /\ loc[w].outcome = TRUE /\ s = "COMPLETED"
      \/ loc[w].decision = "ALLOW" /\ loc[w].outcome = FALSE /\ s = "FAILED_SAFE"
  <2>1. s = receipt_status(loc[w].decision, loc[w].outcome)
    BY DEF receipt
  <2> HIDE DEF s
  <2>2. CASE blocks(loc[w].decision)
    BY <2>1, <2>2 DEF receipt_status, blocks
  <2>3. CASE loc[w].decision = "ALLOW" /\ loc[w].outcome = TRUE
    BY <2>1, <2>3, NoneAssumption DEF receipt_status
  <2>4. CASE loc[w].decision = "ALLOW" /\ loc[w].outcome = FALSE
    BY <2>1, <2>4, NoneAssumption DEF receipt_status
  <2>5. QED
    BY <1>1, <1>2, <2>2, <2>3, <2>4 DEF Stage
<1> HIDE DEF s
<1>4. s \in ReceiptStatuses \ {"APPROVAL_REQUIRED"}
  BY <1>3 DEF ReceiptStatuses
<1>5. old.receipts \in [ReceiptStatuses -> Nat]
  BY <1>2 DEF RequestRows
<1>6. /\ f[s] > 0 /\ f["APPROVAL_REQUIRED"] = old.receipts["APPROVAL_REQUIRED"]
      /\ \A t \in ReceiptStatuses : old.receipts[t] > 0 => f[t] > 0
  <2>1. \A t \in ReceiptStatuses : f[t] = (IF t = s THEN old.receipts[t] + 1 ELSE old.receipts[t])
                                   /\ old.receipts[t] \in Nat
    BY <1>4, <1>5
  <2>2. "APPROVAL_REQUIRED" \in ReceiptStatuses
    BY DEF ReceiptStatuses
  <2> HIDE DEF f, old
  <2>3. QED
    BY <1>4, <2>1, <2>2
<1> HIDE DEF f
<1>7. /\ row.receipts = f /\ row.state = old.state /\ row.plans = old.plans
      /\ row.events = old.events /\ row.executions = old.executions
      /\ row.tool_calls = old.tool_calls /\ row.incidents = old.incidents
      /\ row.rejected = old.rejected /\ row.approved = old.approved
      /\ row.policy = old.policy /\ row.evaluations = old.evaluations
  BY <1>2 DEF RequestRows
<1> HIDE DEF row
<1>8. NewReceipt(old, row, s)
  BY <1>7 DEF NewReceipt, f
<1>9. Preserves(old, row)
  BY <1>6, <1>7 DEF Preserves
<1>10. RowShows(row)
  BY <1>2, <1>6, <1>7, <1>9, RowGoesOn DEF RowShows
<1>11. ASSUME NEW a \in Accounts
       PROVE  Due(a, "set_issued", loc[w]) = Due(a, pc[w], loc[w]) + ReceiptChange(a, s)
  <2>1. ~Owes(a, "set_issued", loc[w])
    BY DEF Owes, Issuing
  <2>2. Owes(a, pc[w], loc[w]) <=> ReceiptChange(a, s) = -1
    <3>1. CASE loc[w].decision = "QUARANTINE"
      BY <1>1, <1>3, <3>1 DEF Owes, Issuing, blocks, ReceiptChange
    <3>2. CASE loc[w].decision = "DENY"
      BY <1>1, <1>3, <3>2 DEF Owes, Issuing, blocks, ReceiptChange
    <3>3. CASE loc[w].decision = "ALLOW"
      BY <1>1, <1>3, <3>3 DEF Owes, Issuing, blocks, ReceiptChange
    <3>4. QED
      BY <1>3, <3>1, <3>2, <3>3
  <2>3. ReceiptChange(a, s) = -1 \/ ReceiptChange(a, s) = 0
    BY DEF ReceiptChange
  <2>4. QED
    BY <2>1, <2>2, <2>3 DEF Due
<1>12. /\ change \in [Accounts -> Int]
       /\ Balanced(old, list, pc[w], loc[w], row, list, "set_issued", loc[w], change)
  <2>1. Dues(pc[w], loc[w], "set_issued", loc[w], change)
    BY <1>11 DEF Dues
  <2> HIDE DEF old, list
  <2>2. QED
    BY <1>2, <1>4, <1>8, <2>1, ReceiptBalances
<1>13. Stage(row, "set_issued", loc[w]) /\ Reviewed(row, "set_issued", loc[w])
  <2>1. s \in ReceiptStatuses /\ row.receipts[s] > 0
    BY <1>4, <1>6, <1>7
  <2>2. QED
    BY <2>1 DEF Stage, Reviewed, Called, Allowed, Blocked, Ran, admitted
<1>14. /\ Arrives(w, row, "set_issued", loc[w]) /\ loc' = [loc EXCEPT ![w] = loc[w]]
       /\ submissions' = [submissions EXCEPT ![req(w)] = list]
  BY <1>1, <1>13, Continues, Stays DEF IInv, TypeOK
<1> HIDE DEF old, list, change
<1>15. QED
  BY <1>1, <1>9, <1>10, <1>12, <1>14, CountedCommit DEF old, list

-----------------------------------------------------------------------------
(* The tools.                                                              *)

(* The gateway's run is the one that Stage speaks of.                      *)
LEMMA RunOutcome ==
    ASSUME IInv, NEW w \in Workers, pc[w] # "idle"
    PROVE  /\ gateway_run(w).outcome = run_outcome(db[req(w)], loc[w].plan)
           /\ gateway_run(w).outcome \in BOOLEAN
<1>1. Delegations[db[req(w)].policy] \in DelegationPolicy
  BY Running, DelegationAssumption
<1>2. loaded_policy(w).allowed_tools = Delegations[db[req(w)].policy].allowed_tools
  BY <1>1 DEF loaded_policy, policy_id, DelegationPolicy
<1>3. QED
  BY <1>2 DEF gateway_run, run_outcome, execute_plan_tools

(* A run that submitted has completed a call.                              *)
LEMMA SubmittingRunCompletesCalls ==
    ASSUME NEW w \in Workers, loc[w].plan \in ActionPlans, gateway_run(w).outcome = TRUE
    PROVE  count_calls(w, "COMPLETED") > 0
<1> DEFINE calls == loc[w].plan.proposed_tool_calls
           statuses == gateway_run(w).tool_calls
           completed == {i \in DOMAIN statuses : statuses[i] = "COMPLETED"}
<1>1. DOMAIN statuses = DOMAIN calls
  BY DEF gateway_run, execute_plan_tools
<1>2. PICK i \in DOMAIN calls : statuses[i] = "COMPLETED"
  BY DEF gateway_run, execute_plan_tools
<1>3. IsFiniteSet(DOMAIN calls)
  BY PlansHaveFinitelyManyCalls
<1> HIDE DEF calls, statuses
<1>4. completed \in SUBSET DOMAIN calls /\ i \in completed
  BY <1>1, <1>2
<1>5. IsFiniteSet(completed)
  BY <1>3, <1>4, FS_Subset
<1>6. Cardinality(completed) \in Nat /\ Cardinality(completed) # 0
  BY <1>4, <1>5, FS_CardinalityType, FS_EmptySet
<1>7. count_calls(w, "COMPLETED") = Cardinality(completed)
  BY DEF count_calls, statuses
<1>8. QED
  BY <1>6, <1>7

LEMMA RunToolsShows == ASSUME IInv, IInv', Audit, NEW w \in Workers, run_tools(w) PROVE Audit'
<1> DEFINE old == db[req(w)]
           list == submissions[req(w)]
           outcome == gateway_run(w).outcome
           l == [loc[w] EXCEPT !.outcome = outcome]
           s == [plan_hash |-> loc[w].plan, decided_at |-> loc[w].decided_at,
                 active_at_start |-> loc[w].active_at_start]
           S == IF outcome THEN {"submissions"} ELSE {}
           list2 == IF outcome THEN Append(list, s) ELSE list
<1>1. /\ pc[w] = "run_tools" /\ pc[w] # "idle" /\ db' = db
      /\ loc' = [loc EXCEPT ![w] = l] /\ pc' = [pc EXCEPT ![w] = "store_calls"]
      /\ submissions' = IF outcome THEN [submissions EXCEPT ![req(w)] = Append(list, s)]
                        ELSE submissions
      /\ OwesNone(pc[w], loc[w])
  BY CalmOwesNone DEF run_tools, goto, submitted_plan, Owing
<1>2. /\ req(w) \in Requests /\ old \in RequestRows /\ list \in Seq(Submissions)
      /\ RowShows(old) /\ Stage(old, pc[w], loc[w]) /\ loc[w] \in Locals
  BY <1>1, RunningShows, Running
<1>3. outcome \in BOOLEAN /\ outcome = run_outcome(old, loc[w].plan)
  BY <1>1, RunOutcome
<1> HIDE DEF outcome, s
<1>4. /\ l.request = req(w) /\ l.op = loc[w].op /\ l.decision = loc[w].decision
      /\ l.plan = loc[w].plan /\ l.outcome = outcome
  BY <1>2 DEF Locals, req
<1> HIDE DEF l
<1>5. /\ db' = [db EXCEPT ![req(w)] = old] /\ Preserves(old, old)
      /\ submissions' = [submissions EXCEPT ![req(w)] = list2]
  BY <1>1, <1>2, PreservesReflexive DEF IInv, TypeOK
<1>6. Len(list) \in Nat /\ Len(list2) = Len(list) + (IF outcome THEN 1 ELSE 0)
  <2>1. Len(list) \in Nat /\ Len(Append(list, s)) = Len(list) + 1
    <3>1. list \in Seq(Submissions)
      BY <1>2
    <3> HIDE DEF list
    <3>2. QED
      BY <3>1
  <2>2. list2 = IF outcome THEN Append(list, s) ELSE list
    OBVIOUS
  <2> HIDE DEF list, list2
  <2>3. QED
    BY <1>3, <2>1, <2>2
<1>7. /\ loc[w].op = "execute" /\ loc[w].decision = "ALLOW"
      /\ \E e \in old.evaluations : e.decision = "ALLOW"
  BY <1>1, <1>2 DEF Stage, Allowed
<1>8. Stage(old, "store_calls", l) /\ Reviewed(old, "store_calls", l)
  BY <1>3, <1>4, <1>7 DEF Stage, Reviewed, Called, Allowed, Blocked, Ran, admitted
<1> HIDE DEF list2
<1>9. Adds(old, list, old, list2, S)
  <2>1. ASSUME NEW a \in Accounts
        PROVE  Surplus(a, old, list2) = Surplus(a, old, list) + (IF a \in S THEN 1 ELSE 0)
    <3>1. Surplus(a, old, list) \in Int
      BY <1>2, SurplusType
    <3>2. CASE a = "submissions"
      <4> DEFINE n == old.executions["SUBMITTED"]
                 m == Len(list)
      <4>1. n \in Int /\ m \in Nat /\ Len(list2) = IF outcome THEN m + 1 ELSE m
        <5>1. n \in Nat
          BY <1>2, CountTypes DEF CountedExecutions
        <5> HIDE DEF n, list
        <5>2. QED
          BY <1>3, <1>6, <5>1
      <4>2. Surplus(a, old, list2) = Len(list2) - n /\ Surplus(a, old, list) = m - n
        BY <3>2, Surpluses
      <4>3. a \in S <=> outcome = TRUE
        BY <1>3, <3>2
      <4> HIDE DEF n, m, S
      <4>4. QED
        BY <1>3, <4>1, <4>2, <4>3
    <3>3. CASE a # "submissions"
      <4>1. Surplus(a, old, list2) = Surplus(a, old, list)
        BY <3>3, Surpluses, AccountCases
      <4>2. QED
        BY <3>1, <3>3, <4>1
    <3>4. QED
      BY <3>2, <3>3
  <2>2. QED
    BY <2>1 DEF Adds
<1>10. ASSUME NEW a \in Accounts
       PROVE  Owes(a, "store_calls", l) <=> a \in S
  BY <1>3, <1>4 DEF Owes, Issuing
<1> DEFINE change == [a \in Accounts |-> (IF a \in S THEN 1 ELSE 0) ]
<1>11. /\ change \in [Accounts -> Int]
       /\ Balanced(old, list, pc[w], loc[w], old, list2, "store_calls", l, change)
  <2>1. \A a \in Accounts : Due(a, "store_calls", l) = Due(a, pc[w], loc[w]) + change[a]
    BY <1>1, <1>10 DEF Due, OwesNone
  <2>2. \A a \in Accounts : Due(a, pc[w], loc[w]) + change[a] \in Int
    BY DEF Due
  <2>3. QED
    BY <1>9, <2>1, <2>2 DEF Balanced, Adds
<1>12. Arrives(w, old, "store_calls", l)
  BY <1>4, <1>8 DEF Arrives
<1> HIDE DEF old, list, change
<1>13. QED
  BY <1>1, <1>2, <1>5, <1>11, <1>12, CountedCommit DEF old, list

(* The calls' rows come in one commit, at least one for a submission.      *)
LEMMA StoreCallsShows ==
    ASSUME IInv, IInv', Audit, NEW w \in Workers, store_calls(w) PROVE Audit'
<1> DEFINE old == db[req(w)]
           list == submissions[req(w)]
           f == [s \in DOMAIN old.tool_calls |-> old.tool_calls[s] + count_calls(w, s)]
           row == [old EXCEPT !.tool_calls = f]
           n == count_calls(w, "COMPLETED")
           change == [a \in Accounts |-> IF a = "calls" THEN n ELSE 0]
<1>1. /\ pc[w] = "store_calls" /\ pc[w] # "idle" /\ db' = [db EXCEPT ![req(w)] = row]
      /\ pc' = [pc EXCEPT ![w] = "store_execution"] /\ loc' = loc
      /\ submissions' = submissions
  BY DEF store_calls, goto, world
<1>2. /\ req(w) \in Requests /\ old \in RequestRows /\ list \in Seq(Submissions)
      /\ RowShows(old) /\ Stage(old, pc[w], loc[w]) /\ loc[w].plan \in ActionPlans
  BY <1>1, RunningShows, Running DEF Knows, WithPlan
<1>3. /\ loc[w].op = "execute" /\ loc[w].decision = "ALLOW"
      /\ \E e \in old.evaluations : e.decision = "ALLOW"
      /\ loc[w].outcome \in BOOLEAN /\ loc[w].outcome = gateway_run(w).outcome
  BY <1>1, <1>2, RunOutcome DEF Stage, Allowed
<1>4. n \in Nat /\ (loc[w].outcome = TRUE => n > 0)
  BY <1>2, <1>3, CountCallsType, SubmittingRunCompletesCalls
<1>5. old.tool_calls \in [{"COMPLETED", "BLOCKED"} -> Nat]
  BY <1>2 DEF RequestRows
<1>6. f["COMPLETED"] = old.tool_calls["COMPLETED"] + n /\ old.tool_calls["COMPLETED"] \in Nat
  BY <1>5
<1> HIDE DEF n, f
<1>7. /\ row.tool_calls = f /\ row.state = old.state /\ row.plans = old.plans
      /\ row.executions = old.executions /\ row.receipts = old.receipts
      /\ row.incidents = old.incidents /\ row.rejected = old.rejected
      /\ row.approved = old.approved /\ row.events = old.events
      /\ row.policy = old.policy /\ row.evaluations = old.evaluations
  BY <1>2 DEF RequestRows
<1> HIDE DEF row
<1>8. Preserves(old, row)
  BY <1>7 DEF Preserves
<1>9. RowShows(row)
  BY <1>2, <1>7, <1>8, RowGoesOn DEF RowShows
<1>10. ASSUME NEW a \in Accounts
       PROVE  Surplus(a, row, list) = Surplus(a, old, list) + (IF a = "calls" THEN n ELSE 0)
  <2>1. Surplus(a, old, list) \in Int
    BY <1>2, SurplusType
  <2>2. CASE a = "calls"
    <3>1. old.executions["SUBMITTED"] \in Nat
      BY <1>2, CountTypes DEF CountedExecutions
    <3>2. /\ Surplus("calls", row, list) = f["COMPLETED"] - old.executions["SUBMITTED"]
          /\ Surplus("calls", old, list)
               = old.tool_calls["COMPLETED"] - old.executions["SUBMITTED"]
      BY <1>7, Surpluses
    <3>3. QED
      BY <1>4, <1>6, <2>2, <3>1, <3>2
  <2>3. CASE a # "calls"
    <3>1. receipts_of(row) = receipts_of(old)
      BY <1>7 DEF receipts_of
    <3>2. Surplus(a, row, list) = Surplus(a, old, list)
      BY <1>7, <2>3, <3>1, Surpluses, AccountCases
    <3>3. QED
      BY <2>1, <2>3, <3>2
  <2>4. QED
    BY <2>2, <2>3
<1>11. ASSUME NEW a \in Accounts
       PROVE  /\ a # "calls" => Due(a, "store_execution", loc[w]) = Due(a, pc[w], loc[w])
              /\ a = "calls" => /\ Due(a, pc[w], loc[w]) = 0
                                /\ Due(a, "store_execution", loc[w]) <= n
  <2>1. a # "calls" => (Owes(a, "store_execution", loc[w]) <=> Owes(a, pc[w], loc[w]))
    BY <1>1 DEF Owes, Issuing
  <2>2. ~Owes("calls", pc[w], loc[w])
    BY <1>1 DEF Owes
  <2>3. Owes("calls", "store_execution", loc[w]) => loc[w].outcome = TRUE
    BY DEF Owes
  <2>4. QED
    BY <1>4, <2>1, <2>2, <2>3 DEF Due
<1>12. /\ change \in [Accounts -> Int]
       /\ Balanced(old, list, pc[w], loc[w], row, list, "store_execution", loc[w], change)
  <2>1. \A a \in Accounts : change[a] = IF a = "calls" THEN n ELSE 0
    OBVIOUS
  <2>2. change \in [Accounts -> Int]
    BY <1>4
  <2> HIDE DEF change, old, list
  <2>3. ASSUME NEW a \in Accounts
        PROVE  /\ Due(a, "store_execution", loc[w]) <= Due(a, pc[w], loc[w]) + change[a]
               /\ a # "calls" => Due(a, "store_execution", loc[w])
                                   = Due(a, pc[w], loc[w]) + change[a]
    <3>1. Due(a, "store_execution", loc[w]) \in Int /\ Due(a, pc[w], loc[w]) \in Int
      BY DEF Due
    <3>2. QED
      BY <1>4, <1>11, <2>1, <3>1
  <2>4. QED
    BY <1>10, <2>1, <2>2, <2>3 DEF Balanced
<1>13. Stage(row, "store_execution", loc[w]) /\ Reviewed(row, "store_execution", loc[w])
  BY <1>3, <1>7 DEF Stage, Reviewed, Called, Allowed, Blocked, Ran, admitted
<1>14. /\ Arrives(w, row, "store_execution", loc[w]) /\ loc' = [loc EXCEPT ![w] = loc[w]]
       /\ submissions' = [submissions EXCEPT ![req(w)] = list]
  BY <1>1, <1>13, Continues, Stays DEF IInv, TypeOK
<1> HIDE DEF old, list, change
<1>15. QED
  BY <1>1, <1>8, <1>9, <1>12, <1>14, CountedCommit DEF old, list

-----------------------------------------------------------------------------
(* Arrivals, crashes and the rest of the world.                            *)

(* Nothing that an account looks at changes.                               *)
CalmAt(v) ==
    \/ pc'[v] = pc[v] /\ loc'[v] = loc[v]
    \/ OwesNone(pc[v], loc[v]) /\ OwesNone(pc'[v], loc'[v])

LEMMA CalmWorld ==
    ASSUME Audit, submissions' = submissions, \A r \in Requests : SameLedger(db[r], db'[r]),
           \A v \in Workers : CalmAt(v) /\ (loc'[v].request = req(v) \/ OwesNone(pc[v], loc[v]))
    PROVE  \A r \in Requests : Solvent(r)'
<1>1. ASSUME NEW r \in Requests, NEW a \in Accounts PROVE Debtors(a, r)' = Debtors(a, r)
  BY DEF Debtors, CalmAt, OwesNone, req
<1>2. ASSUME NEW r \in Requests, NEW a \in Accounts
      PROVE  Surplus(a, db'[r], submissions'[r]) = Surplus(a, db[r], submissions[r])
  BY SameSurplus
<1>3. QED
  BY <1>1, <1>2 DEF Audit, Solvent

(* A request that is created finds no evidence of its own, and owes none.  *)
LEMMA CreateShows ==
    ASSUME IInv, IInv', Audit, NEW w \in Workers, NEW r \in Requests, NEW p \in Policies,
           NEW d \in Documents, create_request(w, r, p, d)
    PROVE  Audit'
<1> DEFINE row == [NoRows EXCEPT !.state = "DRAFT", !.policy = p, !.document = d]
           l == [Idle EXCEPT !.op = "create", !.request = r, !.state = "DRAFT"]
<1>1. /\ pc[w] = "idle" /\ db[r].state = None
      /\ db' = [db EXCEPT ![r] = row] /\ loc' = [loc EXCEPT ![w] = l]
      /\ pc' = [pc EXCEPT ![w] = "received_event"] /\ submissions' = submissions
  BY DEF create_request, goto, world
<1>2. /\ db \in [Requests -> RequestRows] /\ loc \in [Workers -> Locals]
      /\ pc \in [Workers -> Labels] /\ loc[w] = Idle /\ db[r] = NoRows
  BY <1>1 DEF IInv, TypeOK, HandlerOK, RowOK
<1>3. /\ row.state = "DRAFT" /\ row.plans = <<>> /\ row.receipts["APPROVAL_REQUIRED"] = 0
      /\ SameLedger(NoRows, row)
  BY DEF NoRows, SameLedger, ReceiptStatuses
<1>4. l.request = r /\ l.op = "create"
  BY DEF Idle
<1> HIDE DEF row, l
<1>5. RowShows(row)
  BY <1>3 DEF RowShows, Backed
<1>6. ASSUME NEW q \in Requests PROVE RowShows(db'[q]) /\ SameLedger(db[q], db'[q])
  <2>1. CASE q = r
    BY <1>1, <1>2, <1>3, <1>5, <2>1
  <2>2. CASE q # r
    BY <1>1, <1>2, <2>2, PreservesReflexive DEF Audit, Shown
  <2>3. QED
    BY <2>1, <2>2
<1>7. ASSUME NEW v \in Workers PROVE HandlerShows(db', pc'[v], loc'[v])
  <2>1. CASE v = w
    <3>1. pc'[v] = "received_event" /\ loc'[v] = l
      BY <1>1, <1>2, <2>1
    <3>2. QED
      BY <1>4, <3>1 DEF HandlerShows, Stage, Reviewed, Called, Allowed, Blocked, Ran, admitted
  <2>2. CASE v # w
    <3>1. pc'[v] = pc[v] /\ loc'[v] = loc[v] /\ HandlerShows(db, pc[v], loc[v])
      BY <1>1, <1>2, <2>2 DEF Audit, Shown
    <3>2. CASE pc[v] # "idle"
      <4>1. req(v) \in Requests /\ db[req(v)].state # None
        BY <3>2, Running DEF Knows
      <4>2. db'[loc[v].request] = db[loc[v].request]
        BY <1>1, <1>2, <4>1 DEF req
      <4>3. QED
        BY <3>1, <4>2 DEF HandlerShows
    <3>3. CASE pc[v] = "idle"
      BY <3>1, <3>3 DEF HandlerShows
    <3>4. QED
      BY <3>2, <3>3
  <2>3. QED
    BY <2>1, <2>2
<1>8. ASSUME NEW v \in Workers
      PROVE  CalmAt(v) /\ (loc'[v].request = req(v) \/ OwesNone(pc[v], loc[v]))
  <2>1. CASE v = w
    <3>1. OwesNone(pc[v], loc[v])
      BY <1>1, <2>1, CalmOwesNone DEF Owing
    <3>2. OwesNone(pc'[v], loc'[v])
      <4>1. pc'[v] = "received_event" /\ loc'[v] = l
        BY <1>1, <1>2, <2>1
      <4>2. OwesNone("received_event", l)
        BY CalmOwesNone DEF Owing
      <4>3. QED
        BY <4>1, <4>2
    <3>3. QED
      BY <3>1, <3>2 DEF CalmAt
  <2>2. CASE v # w
    BY <1>1, <1>2, <2>2 DEF CalmAt, req
  <2>3. QED
    BY <2>1, <2>2
<1>9. \A q \in Requests : Solvent(q)'
  BY <1>1, <1>6, <1>8, CalmWorld
<1>10. QED
  BY <1>6, <1>7, <1>9 DEF Audit, Shown

(* A call is let in by a state that the tables back.                       *)
LEMMA ReadRequestShows ==
    ASSUME IInv, IInv', Audit, NEW w \in Workers, NEW r \in Requests, NEW op \in Operations,
           NEW key \in Keys \cup {None}, read_request(w, r, op, key)
    PROVE  Audit'
<1> DEFINE active == policy_status[db[r].policy] = "ACTIVE"
           l == [Idle EXCEPT !.op = op, !.request = r, !.key = key, !.state = db[r].state,
                             !.active_at_start = active]
           lab == IF key # None THEN "read_key" ELSE "read_policy"
<1>1. /\ pc[w] = "idle" /\ db[r].state # None
      /\ loc' = [loc EXCEPT ![w] = l] /\ pc' = [pc EXCEPT ![w] = lab]
      /\ db' = db /\ submissions' = submissions
      /\ key # None => op = "execute"
      /\ key # None \/ db[r].state \in legal_states(op)
      /\ op = "custom_plan" => db[r].policy \in ScopePolicies
  BY DEF read_request, goto, called_by_scenario
<1>2. /\ loc \in [Workers -> Locals] /\ pc \in [Workers -> Labels] /\ loc[w] = Idle
  BY <1>1 DEF IInv, TypeOK, HandlerOK
<1>3. l.request = r /\ l.op = op /\ l.approval = None /\ l.state = db[r].state
  BY DEF Idle
<1>4. \/ lab = "read_key" /\ op = "execute"
      \/ lab = "read_policy" /\ db[r].state \in legal_states(op)
  BY <1>1
<1> HIDE DEF l, lab
<1>5. RowShows(db[r])
  BY DEF Audit, Shown
<1>6. Stage(db[r], lab, l)
  BY <1>3, <1>4 DEF Stage, Allowed, Blocked, Ran
<1>7. Reviewed(db[r], lab, l)
  <2>1. admitted(lab, l) => db[r].state \in {"ALLOWED", "APPROVED"}
    BY <1>3, <1>4 DEF admitted, legal_states
  <2>2. admitted(lab, l) /\ NeedsReview(db[r]) => db[r].approved # <<>>
    BY <1>5, <2>1 DEF RowShows, Backed
  <2>3. QED
    BY <1>1, <1>3, <1>4, <2>2 DEF Reviewed, Called
<1>8. OwesNone(pc[w], loc[w]) /\ OwesNone(lab, l)
  BY <1>1, <1>4, CalmOwesNone DEF Owing
<1>9. ASSUME NEW v \in Workers
      PROVE  /\ HandlerShows(db', pc'[v], loc'[v])
             /\ CalmAt(v) /\ (loc'[v].request = req(v) \/ OwesNone(pc[v], loc[v]))
  <2>1. CASE v = w
    <3>1. pc'[v] = lab /\ loc'[v] = l
      BY <1>1, <1>2, <2>1
    <3>2. QED
      BY <1>1, <1>3, <1>6, <1>7, <1>8, <2>1, <3>1 DEF HandlerShows, CalmAt
  <2>2. CASE v # w
    <3>1. pc'[v] = pc[v] /\ loc'[v] = loc[v]
      BY <1>1, <1>2, <2>2
    <3>2. QED
      BY <1>1, <3>1 DEF Audit, Shown, CalmAt, req
  <2>3. QED
    BY <2>1, <2>2
<1>10. \A q \in Requests : Solvent(q)'
  BY <1>1, <1>9, PreservesReflexive, CalmWorld
<1>11. QED
  BY <1>1, <1>9, <1>10 DEF Audit, Shown

(* Revocations and the clock touch nothing that is evidence.               *)
LEMMA WorldShows ==
    ASSUME Audit, db' = db, submissions' = submissions, pc' = pc, loc' = loc
    PROVE  Audit'
<1>1. \A r \in Requests : Solvent(r)'
  BY DEF Audit, Solvent, Debtors, req
<1>2. QED
  BY <1>1 DEF Audit, Shown

(* A handler that dies leaves what it owes unpaid, and evidence short.     *)
LEMMA CrashShows == ASSUME IInv, IInv', Audit, NEW w \in Workers, crash(w) PROVE Audit'
<1> DEFINE old == db[req(w)]
           list == submissions[req(w)]
<1>1. /\ MayCrash /\ pc[w] # "idle" /\ db' = db /\ submissions' = submissions
      /\ pc' = [pc EXCEPT ![w] = "idle"] /\ loc' = [loc EXCEPT ![w] = Idle]
  BY DEF crash, finish, world
<1>2. old \in RequestRows /\ list \in Seq(Submissions) /\ RowShows(old)
  BY <1>1, RunningShows
<1>3. Settles(old, list, pc[w], loc[w], old, list, "idle", Idle)
  <2>1. SUFFICES ASSUME NEW a \in Accounts
                 PROVE  Gain(a, old, list, pc[w], loc[w], old, list, "idle", Idle) >= 0
    BY <1>1 DEF Settles
  <2>2. Surplus(a, old, list) \in Int
    BY <1>2, SurplusType
  <2>3. Due(a, "idle", Idle) = 0 /\ (Due(a, pc[w], loc[w]) = 0 \/ Due(a, pc[w], loc[w]) = 1)
    BY IdleOwesNothing DEF Due
  <2> HIDE DEF old, list
  <2>4. QED
    BY <2>2, <2>3 DEF Gain
<1>4. /\ db' = [db EXCEPT ![req(w)] = old] /\ submissions' = [submissions EXCEPT ![req(w)] = list]
      /\ Preserves(old, old) /\ Arrives(w, old, "idle", Idle)
  BY <1>1, PreservesReflexive, IdleArrives DEF IInv, TypeOK
<1> HIDE DEF old, list
<1>5. QED
  BY <1>1, <1>2, <1>3, <1>4, HandlerMoves DEF old, list

LEMMA PlansHaveCalls == ASSUME NEW plan \in ActionPlans PROVE "proposed_tool_calls" \in DOMAIN plan
<1>1. ASSUME NEW p \in Proposals PROVE "proposed_tool_calls" \in DOMAIN p
  <2>1. CASE p = CustomPlan
    BY <2>1, PlanAssumption
  <2>2. CASE p # CustomPlan
    <3>1. PICK id \in Policies : p = P!build_plan(Delegations[id])
      BY <2>2, <1>1 DEF Proposals
    <3>2. QED
      BY <3>1 DEF P!build_plan, P!rate_reduction_plan, P!analysis_plan
  <2>3. QED
    BY <2>1, <2>2
<1>2. QED
  BY <1>1 DEF ActionPlans, Changed

(* A rewritten goal changes no tool.                                       *)
LEMMA SwapShows == ASSUME IInv, IInv', Audit, NEW r \in Requests, swap_plan(r) PROVE Audit'
<1> DEFINE old == db[r]
           rows == old.plans
           plan == [rows[1] EXCEPT !.goal = "changed"]
           new == [rows EXCEPT ![1] = plan]
           row == [old EXCEPT !.plans = new]
<1>1. /\ rows # <<>> /\ db' = [db EXCEPT ![r] = row] /\ submissions' = submissions
      /\ pc' = pc /\ loc' = loc
  BY DEF swap_plan, world
<1>2. /\ db \in [Requests -> RequestRows] /\ old \in RequestRows /\ RowShows(old)
      /\ rows \in Seq(ActionPlans)
  BY DEF IInv, TypeOK, Audit, Shown, RequestRows
<1>3. 1 \in DOMAIN rows /\ rows[1] \in ActionPlans
  <2> HIDE DEF rows
  <2>1. QED
    BY <1>1, <1>2
<1>4. SameReview(old, plan)
  <2>1. plan.proposed_tool_calls = rows[1].proposed_tool_calls
    BY <1>3, PlansHaveCalls
  <2>2. plan_tools(plan) = plan_tools(rows[1])
    BY <2>1 DEF plan_tools
  <2>3. SameReview(old, rows[1])
    BY <1>2, <1>3 DEF RowShows
  <2> HIDE DEF plan
  <2>4. QED
    BY <2>2, <2>3 DEF SameReview, needs_approval
<1> HIDE DEF plan
<1>5. ASSUME NEW i \in DOMAIN new PROVE SameReview(old, new[i])
  <2>1. i \in DOMAIN rows /\ (new[i] = rows[i] \/ new[i] = plan)
    OBVIOUS
  <2> HIDE DEF new
  <2>2. QED
    BY <1>2, <1>4, <2>1 DEF RowShows
<1> HIDE DEF new
<1>6. /\ row.plans = new /\ row.state = old.state /\ row.receipts = old.receipts
      /\ row.policy = old.policy /\ Preserves(old, row) /\ SameLedger(old, row)
  BY <1>2 DEF RequestRows, Preserves, SameLedger
<1> HIDE DEF row
<1>7. RowShows(row)
  <2>1. Backed(row, old.state)
    BY <1>2, <1>6, BackedPreserved DEF RowShows
  <2>2. QED
    BY <1>2, <1>5, <1>6, <2>1 DEF RowShows, SameReview, NeedsReview
<1>8. ASSUME NEW q \in Requests
      PROVE  RowShows(db'[q]) /\ Preserves(db[q], db'[q]) /\ SameLedger(db[q], db'[q])
  BY <1>1, <1>2, <1>6, <1>7, PreservesReflexive DEF Audit, Shown
<1>9. ASSUME NEW v \in Workers PROVE HandlerShows(db', pc'[v], loc'[v])
  <2>1. CASE pc[v] # "idle"
    <3>1. /\ req(v) \in Requests
          /\ Stage(db[req(v)], pc[v], loc[v]) /\ Reviewed(db[req(v)], pc[v], loc[v])
      BY <2>1, RunningShows
    <3>2. Stage(db'[req(v)], pc[v], loc[v]) /\ Reviewed(db'[req(v)], pc[v], loc[v])
      BY <1>8, <3>1, StagePreserved, ReviewedPreserved
    <3>3. QED
      BY <1>1, <3>2 DEF HandlerShows, req
  <2>2. CASE pc[v] = "idle"
    BY <1>1, <2>2 DEF HandlerShows
  <2>3. QED
    BY <2>1, <2>2
<1>10. \A q \in Requests : Solvent(q)'
  BY <1>1, <1>8, CalmWorld DEF CalmAt, req
<1>11. QED
  BY <1>8, <1>9, <1>10 DEF Audit, Shown

-----------------------------------------------------------------------------
(* The invariant.                                                          *)

LEMMA NothingOwedAtFirst == Init => Audit
<1> SUFFICES ASSUME Init PROVE Audit
  OBVIOUS
<1>1. /\ \A r \in Requests : db[r] = NoRows /\ submissions[r] = <<>>
      /\ \A w \in Workers : pc[w] = "idle" /\ loc[w] = Idle
  BY DEF Init
<1>2. RowShows(NoRows)
  <2>1. /\ NoRows.state = None /\ NoRows.plans = <<>>
        /\ NoRows.receipts["APPROVAL_REQUIRED"] = 0
    BY DEF NoRows, ReceiptStatuses
  <2>2. None \notin States
    BY NoneAssumption
  <2>3. QED
    BY <2>1, <2>2 DEF RowShows, Backed, States
<1>3. ASSUME NEW r \in Requests, NEW a \in Accounts
      PROVE  Cardinality(Debtors(a, r)) = 0 /\ Surplus(a, db[r], submissions[r]) = 0
  <2>1. Debtors(a, r) = {}
    BY <1>1, IdleOwesNothing DEF Debtors
  <2>2. Cardinality(Debtors(a, r)) = 0
    BY <2>1, FS_EmptySet
  <2>3. Surplus(a, NoRows, <<>>) = 0
    <3>1. receipts_of(NoRows) = 0
      BY DEF receipts_of, NoRows, ReceiptStatuses
    <3>2. /\ Len(NoRows.approved) = 0 /\ NoRows.incidents = 0 /\ NoRows.rejected = 0
          /\ NoRows.executions["SUBMITTED"] = 0 /\ NoRows.executions["FAILED_SAFE"] = 0
          /\ NoRows.executions["NO_EXECUTION"] = 0 /\ NoRows.tool_calls["COMPLETED"] = 0
          /\ NoRows.receipts["COMPLETED"] = 0 /\ NoRows.receipts["FAILED_SAFE"] = 0
          /\ NoRows.receipts["BLOCKED"] = 0 /\ NoRows.receipts["QUARANTINED"] = 0
      BY DEF NoRows, ReceiptStatuses
    <3>3. /\ NoRows.events["APPROVAL_GRANTED"] = 0 /\ NoRows.events["APPROVAL_REJECTED"] = 0
          /\ NoRows.events["INCIDENT_QUARANTINED"] = 0
          /\ NoRows.events["TOOL_CALL_COMPLETED"] = 0 /\ NoRows.events["RECEIPT_ISSUED"] = 0
      BY DEF NoRows, EventTypes
    <3>4. Len(<<>>) = 0
      OBVIOUS
    <3>5. QED
      BY <3>1, <3>2, <3>3, <3>4, Surpluses, AccountCases
  <2>4. QED
    BY <1>1, <2>2, <2>3
<1>4. QED
  BY <1>1, <1>2, <1>3 DEF Audit, Shown, Solvent, HandlerShows

LEMMA NextShows == IInv /\ Audit /\ [Next]_vars => Audit'
<1> SUFFICES ASSUME IInv, Audit, [Next]_vars PROVE Audit'
  OBVIOUS
<1>1. IInv'
  BY NextIsSafe DEF Safe
<1>2. ASSUME NEW w \in Workers, arrive(w) PROVE Audit'
  BY <1>1, <1>2, CreateShows, ReadRequestShows DEF arrive
<1>3. ASSUME NEW w \in Workers, step(w) PROVE Audit'
  BY <1>1, <1>3, CalmEventSteps, GrantedEventShows, CompletedEventShows, IncidentEventShows,
     ReceiptEventShows, ReadKeyShows, ReadPolicyShows, ReadPlanShows, PersistPlanShows,
     ReadApprovalShows, DecideShows, SetDecidedShows, GrantShows, RefuseShows,
     SetExecutingShows, RunToolsShows, StoreCallsShows, StoreExecutionShows, SetBlockedShows,
     BlockedCallsShows, IncidentShows, NoExecutionShows, StoreReceiptShows, SetIssuedShows,
     StoreKeyShows DEF step
<1>4. ASSUME (\E p \in Policies : revoke(p)) \/ tick \/ UNCHANGED vars PROVE Audit'
  BY <1>4, WorldShows DEF revoke, tick, vars
<1>5. QED
  BY <1>1, <1>2, <1>3, <1>4, CrashShows, SwapShows DEF Next

(* Every state is backed, and every account solvent, in every state.       *)
THEOREM AuditInvariance == Spec => [](IInv /\ Audit)
<1>1. Init => IInv /\ Audit
  BY InitEstablishes, NothingOwedAtFirst
<1>2. IInv /\ Audit /\ [Next]_vars => IInv' /\ Audit'
  BY NextIsSafe, NextShows DEF Safe
<1>3. QED
  BY <1>1, <1>2, PTL DEF Spec

-----------------------------------------------------------------------------
(* The theorems.                                                           *)

(* What a request's rows have, whoever is at work on it.                   *)
LEMMA SolventAccounts ==
    ASSUME IInv, Audit, NEW r \in Requests, NEW a \in Accounts
    PROVE  Surplus(a, db[r], submissions[r]) >= 0
<1>1. /\ db[r] \in RequestRows /\ submissions[r] \in Seq(Submissions)
  BY DEF IInv, TypeOK
<1>2. Surplus(a, db[r], submissions[r]) \in Int
  BY <1>1, SurplusType
<1>3. Debtors(a, r) \in SUBSET Workers
  BY DEF Debtors
<1>4. Cardinality(Debtors(a, r)) \in Nat
  BY <1>3, WorkersAssumption, FS_Subset, FS_CardinalityType
<1>5. QED
  BY <1>2, <1>4 DEF Audit, Solvent

(* No receipt, execution or tool call claims what did not happen.          *)
THEOREM EvidenceSafety == Spec => []EvidenceNeverExceedsEffect
<1>1. ASSUME IInv, Audit PROVE EvidenceNeverExceedsEffect
  <2>1. SUFFICES ASSUME NEW r \in Requests
                 PROVE  LET d == db[r] IN
                        /\ d.receipts["COMPLETED"] <= d.executions["SUBMITTED"]
                        /\ d.executions["SUBMITTED"] <= d.tool_calls["COMPLETED"]
                        /\ d.executions["SUBMITTED"] <= Len(submissions[r])
                        /\ d.receipts["FAILED_SAFE"] <= d.executions["FAILED_SAFE"]
                        /\ d.receipts["BLOCKED"] + d.receipts["QUARANTINED"]
                             <= d.executions["NO_EXECUTION"]
                        /\ d.receipts["QUARANTINED"] <= d.incidents
                        /\ d.receipts["COMPLETED"] + d.receipts["FAILED_SAFE"]
                             + d.receipts["BLOCKED"] + d.receipts["QUARANTINED"]
                             <= d.events["RECEIPT_ISSUED"]
    BY DEF EvidenceNeverExceedsEffect
  <2> DEFINE d == db[r]
             n == Len(submissions[r])
  <2>2. d \in RequestRows /\ submissions[r] \in Seq(Submissions)
    BY <1>1 DEF IInv, TypeOK
  <2>3. n \in Nat
    <3>1. QED
      BY <2>2
  <2>4. CountedExecutions(d) /\ CountedReceipts(d) /\ CountedEvents(d) /\ CountedRows(d)
    BY <2>2, CountTypes
  <2>5. /\ d.executions["SUBMITTED"] - d.receipts["COMPLETED"] >= 0
        /\ d.executions["FAILED_SAFE"] - d.receipts["FAILED_SAFE"] >= 0
        /\ d.executions["NO_EXECUTION"] - (d.receipts["BLOCKED"] + d.receipts["QUARANTINED"]) >= 0
        /\ d.incidents - d.receipts["QUARANTINED"] >= 0
        /\ n - d.executions["SUBMITTED"] >= 0
        /\ d.tool_calls["COMPLETED"] - d.executions["SUBMITTED"] >= 0
        /\ d.events["RECEIPT_ISSUED"] - receipts_of(d) >= 0
    <3>1. /\ Surplus("completed", d, submissions[r]) >= 0
          /\ Surplus("failed", d, submissions[r]) >= 0
          /\ Surplus("blocked", d, submissions[r]) >= 0
          /\ Surplus("quarantined", d, submissions[r]) >= 0
          /\ Surplus("submissions", d, submissions[r]) >= 0
          /\ Surplus("calls", d, submissions[r]) >= 0
          /\ Surplus("receipts", d, submissions[r]) >= 0
      BY <1>1, SolventAccounts DEF Accounts, Effects, Trail
    <3>2. QED
      BY <3>1, Surpluses
  <2> DEFINE n_submitted == d.executions["SUBMITTED"]
             n_failed == d.executions["FAILED_SAFE"]
             n_none == d.executions["NO_EXECUTION"]
             n_completed == d.receipts["COMPLETED"]
             n_failed_safe == d.receipts["FAILED_SAFE"]
             n_blocked == d.receipts["BLOCKED"]
             n_quarantined == d.receipts["QUARANTINED"]
             n_asking == d.receipts["APPROVAL_REQUIRED"]
             n_calls == d.tool_calls["COMPLETED"]
             n_incidents == d.incidents
             n_issued == d.events["RECEIPT_ISSUED"]
  <2>6. /\ n_submitted \in Nat /\ n_failed \in Nat /\ n_none \in Nat
        /\ n_completed \in Nat /\ n_failed_safe \in Nat /\ n_blocked \in Nat
        /\ n_quarantined \in Nat /\ n_asking \in Nat
        /\ n_calls \in Nat /\ n_incidents \in Nat /\ n_issued \in Nat
    BY <2>4 DEF CountedExecutions, CountedReceipts, CountedEvents, CountedRows
  <2>7. /\ n_submitted - n_completed >= 0 /\ n_failed - n_failed_safe >= 0
        /\ n_none - (n_blocked + n_quarantined) >= 0
        /\ n_incidents - n_quarantined >= 0
        /\ n - n_submitted >= 0 /\ n_calls - n_submitted >= 0
        /\ n_issued - (n_completed + n_failed_safe + n_blocked
                       + n_quarantined + n_asking) >= 0
    BY <2>5 DEF receipts_of
  <2>8. /\ n_completed <= n_submitted /\ n_submitted <= n_calls /\ n_submitted <= n
        /\ n_failed_safe <= n_failed /\ n_blocked + n_quarantined <= n_none
        /\ n_quarantined <= n_incidents
        /\ n_completed + n_failed_safe + n_blocked + n_quarantined <= n_issued
    <3> HIDE DEF n, n_submitted, n_failed, n_none, n_completed, n_failed_safe,
                 n_blocked, n_quarantined, n_asking, n_calls, n_incidents, n_issued
    <3>1. QED
      BY <2>3, <2>6, <2>7
  <2>9. QED
    BY <2>8
<1>2. QED
  BY <1>1, AuditInvariance, PTL

(* An execution is decided with the approval its plan needs at hand: its   *)
(* re-evaluation never ends in REQUIRE_APPROVAL, and no receipt asks for   *)
(* one.                                                                    *)
THEOREM ExecutionSafety == Spec => []ExecutionNeverAsksForApproval
<1>1. Audit => ExecutionNeverAsksForApproval
  BY DEF Audit, Shown, RowShows, ExecutionNeverAsksForApproval
<1>2. QED
  BY <1>1, AuditInvariance, PTL

(* Every state a request shows has its evidence in the tables.             *)
THEOREM StateSafety == Spec => []StateBackedByEvidence
<1>1. Audit => StateBackedByEvidence
  BY DEF Audit, Shown, RowShows, Backed, StateBackedByEvidence
<1>2. QED
  BY <1>1, AuditInvariance, PTL

(* When no handler is at work on a request, nothing is owed on it: unless  *)
(* handlers may die, its trace is complete.                                *)
THEOREM TrailSafety == ASSUME ~MayCrash PROVE Spec => []TrailCompleteAtRest
<1>1. ASSUME IInv, Audit PROVE TrailCompleteAtRest
  <2>1. ASSUME NEW r \in Requests, no_handler_on(r), NEW a \in Trail
        PROVE  Surplus(a, db[r], submissions[r]) = 0
    <3>1. Debtors(a, r) = {}
      BY <2>1 DEF Debtors, no_handler_on
    <3>2. Cardinality(Debtors(a, r)) = 0
      BY <3>1, FS_EmptySet
    <3>3. a \in Accounts /\ a # "calls"
      BY DEF Accounts, Trail
    <3>4. QED
      BY <1>1, <3>2, <3>3 DEF Audit, Solvent
  <2>2. SUFFICES ASSUME NEW r \in Requests, no_handler_on(r)
                 PROVE  LET d == db[r] IN
                        /\ d.events["APPROVAL_GRANTED"] = Len(d.approved)
                        /\ d.events["APPROVAL_REJECTED"] = d.rejected
                        /\ d.events["INCIDENT_QUARANTINED"] = d.incidents
                        /\ d.events["TOOL_CALL_COMPLETED"]
                             = d.executions["SUBMITTED"] + d.executions["FAILED_SAFE"]
                        /\ d.events["RECEIPT_ISSUED"] = receipts_of(d)
    BY DEF TrailCompleteAtRest, receipts_of
  <2> DEFINE d == db[r]
             n == Len(d.approved)
             m == receipts_of(d)
  <2>3. d \in RequestRows
    BY <1>1 DEF IInv, TypeOK
  <2>4. CountedExecutions(d) /\ CountedReceipts(d) /\ CountedEvents(d) /\ CountedRows(d)
    BY <2>3, CountTypes
  <2>5. /\ n - d.events["APPROVAL_GRANTED"] = 0
        /\ d.rejected - d.events["APPROVAL_REJECTED"] = 0
        /\ d.incidents - d.events["INCIDENT_QUARANTINED"] = 0
        /\ (d.executions["SUBMITTED"] + d.executions["FAILED_SAFE"])
             - d.events["TOOL_CALL_COMPLETED"] = 0
        /\ d.events["RECEIPT_ISSUED"] - m = 0
    <3>1. /\ Surplus("granted", d, submissions[r]) = 0
          /\ Surplus("rejected", d, submissions[r]) = 0
          /\ Surplus("incidents", d, submissions[r]) = 0
          /\ Surplus("executions", d, submissions[r]) = 0
          /\ Surplus("receipts", d, submissions[r]) = 0
      BY <2>1, <2>2 DEF Trail
    <3>2. QED
      BY <3>1, Surpluses
  <2>6. n \in Nat /\ m \in Int
    <3>1. n \in Nat
      BY <2>4 DEF CountedRows
    <3> HIDE DEF d
    <3>2. m \in Int
      BY <2>4 DEF CountedReceipts, receipts_of
    <3>3. QED
      BY <3>1, <3>2
  <2> HIDE DEF d, n, m
  <2>7. /\ d.events["APPROVAL_GRANTED"] = n /\ d.events["RECEIPT_ISSUED"] = m
    BY <2>4, <2>5, <2>6 DEF CountedEvents
  <2>8. /\ d.events["APPROVAL_REJECTED"] = d.rejected
        /\ d.events["INCIDENT_QUARANTINED"] = d.incidents
        /\ d.events["TOOL_CALL_COMPLETED"]
             = d.executions["SUBMITTED"] + d.executions["FAILED_SAFE"]
    <3>1. /\ d.events["APPROVAL_REJECTED"] \in Nat /\ d.rejected \in Nat
          /\ d.events["INCIDENT_QUARANTINED"] \in Nat /\ d.incidents \in Nat
      BY <2>4 DEF CountedEvents, CountedRows
    <3>2. /\ d.events["TOOL_CALL_COMPLETED"] \in Nat /\ d.executions["SUBMITTED"] \in Nat
          /\ d.executions["FAILED_SAFE"] \in Nat
      BY <2>4 DEF CountedEvents, CountedExecutions
    <3>3. d.events["APPROVAL_REJECTED"] = d.rejected
      <4> DEFINE x == d.events["APPROVAL_REJECTED"]
                 y == d.rejected
      <4>1. x \in Nat /\ y \in Nat /\ y - x = 0
        BY <2>5, <3>1
      <4> HIDE DEF x, y
      <4>2. x = y
        BY <4>1
      <4>3. QED
        BY <4>2 DEF x, y
    <3>4. d.events["INCIDENT_QUARANTINED"] = d.incidents
      BY <2>5, <3>1
    <3> DEFINE k == d.executions["SUBMITTED"] + d.executions["FAILED_SAFE"]
    <3>5. k \in Nat /\ k - d.events["TOOL_CALL_COMPLETED"] = 0
      BY <2>5, <3>2
    <3> HIDE DEF k
    <3>6. d.events["TOOL_CALL_COMPLETED"] = k
      BY <3>2, <3>5
    <3>7. QED
      BY <3>3, <3>4, <3>6 DEF k
  <2>9. QED
    BY <2>7, <2>8 DEF d, n, m
<1>2. QED
  BY <1>1, AuditInvariance, PTL

=============================================================================
