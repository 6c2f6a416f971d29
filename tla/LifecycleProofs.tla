--------------------------- MODULE LifecycleProofs ---------------------------
(***************************************************************************)
(* Safety of the lifecycle for any number of requests, workers, keys and   *)
(* calls, with crashes: the types, and what every submission rests on.     *)
(*                                                                         *)
(* Every step of a handler replaces at most the rows of its own request,   *)
(* by rows that only grow (Grows), and its own locals.  The invariant is   *)
(* therefore stated per handler (HandlerOK), over what it has loaded and   *)
(* what the tables keep of it; FrameLemma carries it over the steps of the *)
(* other handlers once and for all.                                        *)
(***************************************************************************)
EXTENDS Lifecycle, PolicyGateProofs, FiniteSetTheorems, SequenceTheorems

(* The approvals that a request has been given.                            *)
Granted(row) == {row.approved[j] : j \in DOMAIN row.approved}

(* What no commit on an existing request undoes.                           *)
Grows(old, new) ==
    /\ new.state # None
    /\ new.policy = old.policy
    /\ new.document = old.document
    /\ old.evaluations \subseteq new.evaluations
    /\ Granted(old) \subseteq Granted(new)
    /\ \A k \in Keys : old.idempotency[k] # None => new.idempotency[k] = old.idempotency[k]

(* A request that exists names a delegation and a document; one that does  *)
(* not has no rows in any table.                                           *)
RowOK(row) ==
    IF row.state = None THEN row = NoRows
    ELSE row.policy \in Policies /\ row.document \in Documents

(* A plan decided at some time was decided under an ALLOW and an approval. *)
Authorised(row, plan, decided_at) ==
    /\ [decision |-> "ALLOW", plan_hash |-> plan] \in row.evaluations
    /\ needs_approval(Delegations[row.policy], plan) =>
          \E a \in Granted(row) : /\ a.approved_plan_hash = plan
                                  /\ a.policy_version = Delegations[row.policy].version
                                  /\ decided_at <= a.expires_at

Called == {"read_key", "read_policy", "read_plan"}
WithPlan == {"read_approval", "decide", "grant", "set_executing", "started_event", "run_tools",
             "store_calls"}
Decided == {"evaluated_event", "set_decided", "set_executing", "started_event", "run_tools", "store_calls"}
Executing == {"set_executing", "started_event", "run_tools"}

(* What a handler at label lab with locals l knows of its request, of      *)
(* which row is the row.                                                   *)
Knows(row, status, lab, l) ==
    /\ row.state # None
    /\ lab \in Called => l.op \in Operations
    /\ lab \in {"read_key", "store_key"} => l.key # None
    /\ lab \in WithPlan => l.plan \in ActionPlans
    /\ lab \in Decided => l.decision \in Decisions /\ l.decided_at \in Nat
    /\ l.approval # None => l.approval \in Granted(row)
    /\ lab \in Called /\ status[row.policy] = "ACTIVE" => l.active_at_start = TRUE
    /\ l.policy_status = "ACTIVE" => l.active_at_start = TRUE
    /\ lab \in Executing => /\ l.active_at_start = TRUE
                            /\ Authorised(row, l.plan, l.decided_at)

HandlerOK(rows, status, lab, l) ==
    IF lab = "idle" THEN l = Idle
    ELSE l.request # None /\ Knows(rows[l.request], status, lab, l)

(* What is known of the submissions of a request.                          *)
SubmissionsOK(row, list) ==
    \A i \in DOMAIN list : /\ row.state # None
                           /\ list[i].active_at_start = TRUE
                           /\ Authorised(row, list[i].plan_hash, list[i].decided_at)

(* The inductive invariant.                                                *)
IInv ==
    /\ TypeOK
    /\ \A r \in Requests : RowOK(db[r])
    /\ \A w \in Workers : HandlerOK(db, policy_status, pc[w], loc[w])
    /\ \A r \in Requests : SubmissionsOK(db[r], submissions[r])

(* What a step shows: the invariant goes on to hold, and no stored         *)
(* response is replaced.                                                   *)
ResponsesKept ==
    \A r \in Requests, k \in Keys :
        db[r].idempotency[k] # None => db'[r].idempotency[k] = db[r].idempotency[k]

Safe == IInv' /\ ResponsesKept

-----------------------------------------------------------------------------
(* Growing rows keep what handlers and submissions rest on.                *)

LEMMA AuthorisedGrows ==
    ASSUME NEW old, NEW new, Grows(old, new), NEW plan, NEW t, Authorised(old, plan, t)
    PROVE  Authorised(new, plan, t)
  BY DEF Grows, Authorised

LEMMA KnowsGrows ==
    ASSUME NEW old, NEW new, Grows(old, new), NEW status, NEW lab, NEW l,
           Knows(old, status, lab, l)
    PROVE  Knows(new, status, lab, l)
  BY AuthorisedGrows DEF Grows, Knows

LEMMA HandlerGrows ==
    ASSUME NEW rows \in [Requests -> RequestRows], NEW r \in Requests, NEW row,
           Grows(rows[r], row), NEW status, NEW lab, NEW l \in Locals,
           HandlerOK(rows, status, lab, l)
    PROVE  HandlerOK([rows EXCEPT ![r] = row], status, lab, l)
<1> DEFINE new == [rows EXCEPT ![r] = row]
<1>1. CASE lab = "idle"
  BY <1>1 DEF HandlerOK
<1>2. CASE lab # "idle"
  <2>1. l.request \in Requests /\ Knows(rows[l.request], status, lab, l)
    BY <1>2 DEF HandlerOK, Locals
  <2>2. new[l.request] = IF l.request = r THEN row ELSE rows[l.request]
    BY <2>1
  <2>3. Knows(new[l.request], status, lab, l)
    BY <2>1, <2>2, KnowsGrows
  <2>4. QED
    BY <1>2, <2>1, <2>3 DEF HandlerOK
<1>3. QED
  BY <1>1, <1>2

LEMMA SubmissionsGrow ==
    ASSUME NEW old, NEW new, Grows(old, new), NEW list, SubmissionsOK(old, list)
    PROVE  SubmissionsOK(new, list)
  BY AuthorisedGrows DEF SubmissionsOK, Grows

-----------------------------------------------------------------------------
(* The commits that only add to a row.                                     *)

LEMMA EventRow ==
    ASSUME NEW old \in RequestRows, old.state # None, NEW type \in EventTypes
    PROVE  LET new == [old EXCEPT !.events[type] = @ + 1]
           IN  new \in RequestRows /\ Grows(old, new)
<1> DEFINE e == [old.events EXCEPT ![type] = @ + 1]
           new == [old EXCEPT !.events = e]
<1>1. e \in [EventTypes -> Nat]
  BY DEF RequestRows
<1> HIDE DEF e
<1>2. new \in RequestRows
  BY <1>1 DEF RequestRows
<1>3. Grows(old, new)
  BY DEF RequestRows, Grows, Granted
<1>4. QED
  BY <1>2, <1>3 DEF e

LEMMA GrowsReflexive == ASSUME NEW row, row.state # None PROVE Grows(row, row)
  BY DEF Grows

LEMMA IdleType == Idle \in Locals
  BY DEF Idle, Locals

-----------------------------------------------------------------------------
(* A step of a handler.                                                    *)

LEMMA Running ==
    ASSUME IInv, NEW w \in Workers, pc[w] # "idle"
    PROVE  /\ req(w) \in Requests
           /\ db[req(w)] \in RequestRows
           /\ db[req(w)].policy \in Policies
           /\ db[req(w)].document \in Documents
           /\ loc[w] \in Locals
           /\ Knows(db[req(w)], policy_status, pc[w], loc[w])
<1>1. loc[w] \in Locals /\ db \in [Requests -> RequestRows]
  BY DEF IInv, TypeOK
<1>2. req(w) # None /\ Knows(db[req(w)], policy_status, pc[w], loc[w])
  BY DEF IInv, HandlerOK, req
<1>3. req(w) \in Requests
  BY <1>1, <1>2 DEF Locals, req
<1>4. db[req(w)].policy \in Policies /\ db[req(w)].document \in Documents
  BY <1>2, <1>3 DEF Knows, IInv, RowOK
<1>5. QED
  BY <1>1, <1>2, <1>3, <1>4

(* Where worker w goes: back to idle, or to a label it is prepared for.    *)
Moves(w, row, lab, l) ==
    \/ lab = "idle" /\ l = Idle
    \/ /\ lab \in Labels \ {"idle"}
       /\ l \in Locals
       /\ l.request = req(w)
       /\ Knows(row, policy_status, lab, l)

LEMMA Frame ==
    ASSUME IInv, NEW w \in Workers, pc[w] # "idle",
           NEW row \in RequestRows, Grows(db[req(w)], row),
           NEW lab, NEW l, Moves(w, row, lab, l),
           db' = [db EXCEPT ![req(w)] = row],
           pc' = [pc EXCEPT ![w] = lab],
           loc' = [loc EXCEPT ![w] = l],
           policy_status' = policy_status, now' = now, budget' = budget,
           answered' \in [Requests -> [Keys -> SUBSET Receipts]],
           submissions' \in [Requests -> Seq(Submissions)],
           \A r \in Requests : SubmissionsOK(db[r], submissions'[r])
    PROVE  Safe
<1>1. /\ req(w) \in Requests
      /\ db \in [Requests -> RequestRows]
      /\ pc \in [Workers -> Labels]
      /\ loc \in [Workers -> Locals]
      /\ db[req(w)].policy \in Policies
      /\ db[req(w)].document \in Documents
  BY Running DEF IInv, TypeOK
<1>2. lab \in Labels /\ l \in Locals
  BY IdleType DEF Moves, Labels
<1>3. TypeOK'
  BY <1>1, <1>2 DEF IInv, TypeOK
<1>4. ASSUME NEW r \in Requests PROVE RowOK(db'[r])
  BY <1>1, <1>4 DEF IInv, RowOK, Grows
<1>5. ASSUME NEW v \in Workers PROVE HandlerOK(db', policy_status', pc'[v], loc'[v])
  <2>1. CASE v = w
    <3>1. db'[req(w)] = row /\ pc'[v] = lab /\ loc'[v] = l
      BY <1>1, <2>1
    <3>2. req(w) # None
      BY <1>1, NoneAssumption
    <3>3. QED
      BY <3>1, <3>2 DEF Moves, HandlerOK
  <2>2. CASE v # w
    <3>1. pc'[v] = pc[v] /\ loc'[v] = loc[v] /\ loc[v] \in Locals
      BY <1>1, <2>2
    <3>2. HandlerOK(db, policy_status, pc[v], loc[v])
      BY DEF IInv
    <3>3. HandlerOK(db', policy_status, pc[v], loc[v])
      BY <1>1, <3>1, <3>2, HandlerGrows
    <3>4. QED
      BY <3>1, <3>3
  <2>3. QED
    BY <2>1, <2>2
<1>6. ASSUME NEW r \in Requests PROVE SubmissionsOK(db'[r], submissions'[r])
  <2>1. CASE r = req(w)
    BY <1>1, <2>1, SubmissionsGrow
  <2>2. CASE r # req(w)
    BY <1>1, <2>2
  <2>3. QED
    BY <2>1, <2>2
<1>7. ResponsesKept
  BY <1>1 DEF ResponsesKept, Grows
<1>8. QED
  BY <1>3, <1>4, <1>5, <1>6, <1>7 DEF IInv, Safe

(* The common case: the step touches the request's rows and w alone.       *)
LEMMA Commit ==
    ASSUME IInv, NEW w \in Workers, pc[w] # "idle",
           NEW row \in RequestRows, Grows(db[req(w)], row),
           NEW lab, NEW l, Moves(w, row, lab, l),
           db' = [db EXCEPT ![req(w)] = row],
           pc' = [pc EXCEPT ![w] = lab],
           loc' = [loc EXCEPT ![w] = l],
           UNCHANGED world
    PROVE  Safe
<1>1. /\ policy_status' = policy_status /\ now' = now /\ budget' = budget
      /\ answered' \in [Requests -> [Keys -> SUBSET Receipts]]
      /\ submissions' \in [Requests -> Seq(Submissions)]
      /\ \A r \in Requests : SubmissionsOK(db[r], submissions'[r])
  BY DEF world, IInv, TypeOK
<1>2. QED
  BY <1>1, Frame

(* A step that only reads.                                                 *)
LEMMA Reading ==
    ASSUME IInv, NEW w \in Workers, pc[w] # "idle",
           NEW lab, NEW l, Moves(w, db[req(w)], lab, l),
           db' = db,
           pc' = [pc EXCEPT ![w] = lab],
           loc' = [loc EXCEPT ![w] = l],
           UNCHANGED world
    PROVE  Safe
<1>1. db[req(w)] \in RequestRows /\ Grows(db[req(w)], db[req(w)])
  BY Running, GrowsReflexive DEF Knows
<1>2. db' = [db EXCEPT ![req(w)] = db[req(w)]]
  BY Running DEF IInv, TypeOK
<1>3. QED
  BY <1>1, <1>2, Commit

(* A commit after which the handler needs no more than it knew.            *)
LEMMA CommitKeeps ==
    ASSUME IInv, NEW w \in Workers, pc[w] # "idle",
           NEW row \in RequestRows, Grows(db[req(w)], row),
           NEW lab, NEW l, Moves(w, db[req(w)], lab, l),
           db' = [db EXCEPT ![req(w)] = row],
           pc' = [pc EXCEPT ![w] = lab],
           loc' = [loc EXCEPT ![w] = l],
           UNCHANGED world
    PROVE  Safe
<1>1. Moves(w, row, lab, l)
  BY KnowsGrows DEF Moves
<1>2. QED
  BY <1>1, Commit

(* A commit of one trace event.                                            *)
LEMMA EventStep ==
    ASSUME IInv, NEW w \in Workers, pc[w] # "idle",
           NEW type \in EventTypes, append_event(w, type),
           NEW lab, NEW l, Moves(w, db[req(w)], lab, l),
           pc' = [pc EXCEPT ![w] = lab],
           loc' = [loc EXCEPT ![w] = l],
           UNCHANGED world
    PROVE  Safe
<1> DEFINE row == [db[req(w)] EXCEPT !.events[type] = @ + 1]
<1>1. row \in RequestRows /\ Grows(db[req(w)], row)
  BY Running, EventRow DEF Knows
<1>2. db' = [db EXCEPT ![req(w)] = row]
  BY DEF append_event
<1>3. QED
  BY <1>1, <1>2, CommitKeeps

(* The handler goes on with the locals it has.                             *)
LEMMA Stays ==
    ASSUME IInv, NEW w \in Workers, pc[w] # "idle", loc' = loc
    PROVE  loc' = [loc EXCEPT ![w] = loc[w]]
  BY DEF IInv, TypeOK

LEMMA Ends ==
    ASSUME NEW w, finish(w), NEW row
    PROVE  /\ pc' = [pc EXCEPT ![w] = "idle"]
           /\ loc' = [loc EXCEPT ![w] = Idle]
           /\ Moves(w, row, "idle", Idle)
  BY DEF finish, Moves

(* A handler that goes on with its locals to a label that needs no more    *)
(* than the one it leaves.                                                 *)
LEMMA GoesOn ==
    ASSUME IInv, NEW w \in Workers, pc[w] # "idle",
           NEW lab \in Labels \ {"idle", "read_key", "store_key"},
           lab \in Called => pc[w] \in Called,
           lab \in WithPlan => pc[w] \in WithPlan,
           lab \in Decided => pc[w] \in Decided,
           lab \in Executing => pc[w] \in Executing
    PROVE  Moves(w, db[req(w)], lab, loc[w])
  BY Running DEF Moves, Knows, req

-----------------------------------------------------------------------------
(* The steps that only append an event.                                    *)

LEMMA EventSteps ==
    ASSUME IInv, NEW w \in Workers,
           \/ received_event(w) \/ plan_event(w) \/ evaluated_event(w) \/ approval_event(w)
           \/ granted_event(w) \/ refused_event(w) \/ started_event(w) \/ completed_event(w)
           \/ blocked_event(w) \/ incident_event(w)
    PROVE  Safe
<1>1. CASE \/ received_event(w) \/ plan_event(w) \/ approval_event(w)
           \/ granted_event(w) \/ refused_event(w)
  <2>1. PICK type \in EventTypes : pc[w] # "idle" /\ append_event(w, type) /\ finish(w)
                                   /\ UNCHANGED world
    BY <1>1 DEF received_event, plan_event, approval_event, granted_event, refused_event,
                EventTypes
  <2>2. QED
    BY <2>1, Ends, EventStep
<1>2. CASE \/ evaluated_event(w) \/ started_event(w) \/ completed_event(w)
           \/ blocked_event(w) \/ incident_event(w)
  <2> DEFINE Onward(type, lab) ==
               /\ pc[w] # "idle" /\ append_event(w, type) /\ UNCHANGED <<world, loc>>
               /\ pc' = [pc EXCEPT ![w] = lab]
               /\ lab \in {"run_tools", "set_decided", "receipt_event", "incident"}
               /\ lab = "run_tools" => pc[w] = "started_event"
               /\ lab = "set_decided" => pc[w] = "evaluated_event"
  <2>1. ASSUME NEW type \in EventTypes, NEW lab, Onward(type, lab) PROVE Safe
    <3>1. Moves(w, db[req(w)], lab, loc[w])
      BY <2>1, GoesOn DEF Labels, Called, WithPlan, Decided, Executing
    <3>2. loc' = [loc EXCEPT ![w] = loc[w]]
      BY <2>1, Stays
    <3>3. QED
      BY <2>1, <3>1, <3>2, EventStep
  <2>2. CASE evaluated_event(w)
    <3>1. Onward("POLICY_EVALUATED", "set_decided") /\ "POLICY_EVALUATED" \in EventTypes
      BY <2>2 DEF evaluated_event, goto, EventTypes
    <3>2. QED
      BY <3>1, <2>1
  <2>3. CASE started_event(w)
    <3>1. Onward("TOOL_CALL_STARTED", "run_tools") /\ "TOOL_CALL_STARTED" \in EventTypes
      BY <2>3 DEF started_event, goto, EventTypes
    <3>2. QED
      BY <3>1, <2>1
  <2>4. CASE completed_event(w)
    <3>1. Onward("TOOL_CALL_COMPLETED", "receipt_event") /\ "TOOL_CALL_COMPLETED" \in EventTypes
      BY <2>4 DEF completed_event, goto, EventTypes
    <3>2. QED
      BY <3>1, <2>1
  <2>5. CASE blocked_event(w)
    <3>1. "TOOL_CALL_BLOCKED" \in EventTypes
      BY DEF EventTypes
    <3>2. \/ Onward("TOOL_CALL_BLOCKED", "incident")
          \/ Onward("TOOL_CALL_BLOCKED", "receipt_event")
      BY <2>5 DEF blocked_event, goto
    <3>3. QED
      BY <3>1, <3>2, <2>1
  <2>6. CASE incident_event(w)
    <3>1. /\ Onward("INCIDENT_QUARANTINED", "receipt_event")
          /\ "INCIDENT_QUARANTINED" \in EventTypes
      BY <2>6 DEF incident_event, goto, EventTypes
    <3>2. QED
      BY <3>1, <2>1
  <2>7. QED
    BY <1>2, <2>2, <2>3, <2>4, <2>5, <2>6
<1>3. QED
  BY <1>1, <1>2

LEMMA ReceiptEventStep == ASSUME IInv, NEW w \in Workers, receipt_event(w) PROVE Safe
<1> DEFINE n == db[req(w)].events["RECEIPT_ISSUED"] + 1
           l == [loc[w] EXCEPT !.final_event = n]
           lab == IF executes(w) THEN "store_receipt" ELSE "no_execution"
<1>1. /\ pc[w] # "idle" /\ "RECEIPT_ISSUED" \in EventTypes
      /\ append_event(w, "RECEIPT_ISSUED") /\ UNCHANGED world
      /\ loc' = [loc EXCEPT ![w] = l] /\ pc' = [pc EXCEPT ![w] = lab]
  BY DEF receipt_event, goto, EventTypes
<1>2. /\ loc[w] \in Locals /\ db[req(w)] \in RequestRows
      /\ Knows(db[req(w)], policy_status, pc[w], loc[w])
  BY <1>1, Running
<1>3. n \in Nat
  BY <1>1, <1>2 DEF RequestRows
<1>4. lab \in {"store_receipt", "no_execution"}
  OBVIOUS
<1> HIDE DEF n, lab
<1>5. l \in Locals /\ l.request = req(w)
  BY <1>2, <1>3 DEF Locals, req
<1>6. Knows(db[req(w)], policy_status, lab, l)
  BY <1>2, <1>4 DEF Knows, Locals, Called, WithPlan, Decided, Executing
<1>7. Moves(w, db[req(w)], lab, l)
  BY <1>4, <1>5, <1>6 DEF Moves, Labels
<1> HIDE DEF l
<1>8. QED
  BY <1>1, <1>7, EventStep

-----------------------------------------------------------------------------
(* The steps that only read.                                               *)

LEMMA ReadPolicyStep == ASSUME IInv, NEW w \in Workers, read_policy(w) PROVE Safe
<1> DEFINE seen == policy_status[policy_id(w)]
           l == [loc[w] EXCEPT !.policy_status = seen]
<1>1. pc[w] = "read_policy" /\ pc[w] # "idle"
  BY DEF read_policy
<1>2. /\ loc[w] \in Locals /\ Knows(db[req(w)], policy_status, pc[w], loc[w])
      /\ policy_id(w) \in Policies
  BY <1>1, Running DEF policy_id
<1>3. seen \in DelegationStatuses
  BY <1>2 DEF IInv, TypeOK
<1>4. l \in Locals /\ l.request = req(w)
  BY <1>2, <1>3 DEF Locals, req
<1>5. Knows(db[req(w)], policy_status, "read_plan", l)
  BY <1>1, <1>2 DEF Knows, Locals, Called, WithPlan, Decided, Executing, policy_id
<1>6. Moves(w, db[req(w)], "read_plan", l)
  BY <1>4, <1>5 DEF Moves, Labels
<1>7. QED
  BY <1>1, <1>6, Reading DEF read_policy, goto

LEMMA ReadPlanStep == ASSUME IInv, NEW w \in Workers, read_plan(w) PROVE Safe
<1> DEFINE rows == db[req(w)].plans
           plan == IF rows = <<>> THEN None ELSE rows[1]
           l == [loc[w] EXCEPT !.plan = plan]
           lab == after_plan(loc[w].op)
<1>1. pc[w] = "read_plan" /\ pc[w] # "idle" /\ db' = db /\ UNCHANGED world
  BY DEF read_plan
<1>2. /\ loc[w] \in Locals /\ Knows(db[req(w)], policy_status, pc[w], loc[w])
      /\ rows \in Seq(ActionPlans) /\ loc[w].op \in Operations
  BY <1>1, Running DEF RequestRows, Knows, Called
<1>3. CASE finish(w)
  BY <1>1, <1>3, Ends, Reading
<1>4. CASE ~finish(w)
  <2>1. /\ Len(rows) = 0 => loc[w].op \in {"plan", "custom_plan"}
        /\ loc' = [loc EXCEPT ![w] = l] /\ pc' = [pc EXCEPT ![w] = lab]
    BY <1>4 DEF read_plan, goto
  <2>2. plan \in ActionPlans \cup {None}
    BY <1>2
  <2>3. lab \in {"persist_plan", "decide", "grant", "refuse", "read_approval"}
    BY <1>2 DEF after_plan, Operations
  <2>4. lab \in WithPlan => plan \in ActionPlans
    BY <1>2, <2>1 DEF after_plan, WithPlan
  <2>5. l \in Locals /\ l.request = req(w)
    BY <1>2, <2>2 DEF Locals, req
  <2>6. Knows(db[req(w)], policy_status, lab, l)
    <3> HIDE DEF plan, lab
    <3>1. QED
      BY <1>1, <1>2, <2>3, <2>4 DEF Knows, Locals, Called, Decided, Executing
  <2>7. Moves(w, db[req(w)], lab, l)
    BY <2>3, <2>5, <2>6 DEF Moves, Labels
  <2>8. QED
    BY <1>1, <2>1, <2>7, Reading
<1>5. QED
  BY <1>3, <1>4

LEMMA ReadApprovalStep == ASSUME IInv, NEW w \in Workers, read_approval(w) PROVE Safe
<1> DEFINE rows == db[req(w)].approved
           approval == IF rows = <<>> THEN None ELSE rows[Len(rows)]
           l == [loc[w] EXCEPT !.approval = approval]
<1>1. pc[w] = "read_approval" /\ pc[w] # "idle"
  BY DEF read_approval
<1>2. /\ loc[w] \in Locals /\ Knows(db[req(w)], policy_status, pc[w], loc[w])
      /\ rows \in Seq(Approvals)
  BY <1>1, Running DEF RequestRows
<1>3. /\ approval \in Approvals \cup {None}
      /\ approval # None => approval \in Granted(db[req(w)])
  BY <1>2 DEF Granted
<1>4. l \in Locals /\ l.request = req(w)
  BY <1>2, <1>3 DEF Locals, req
<1>5. Knows(db[req(w)], policy_status, "decide", l)
  <2> HIDE DEF approval
  <2>1. QED
    BY <1>1, <1>2, <1>3 DEF Knows, Locals, Called, WithPlan, Decided, Executing
<1>6. Moves(w, db[req(w)], "decide", l)
  BY <1>4, <1>5 DEF Moves, Labels
<1>7. QED
  BY <1>1, <1>6, Reading DEF read_approval, goto

LEMMA AnswerType ==
    ASSUME NEW r \in Requests, NEW k \in Keys, NEW s \in Receipts,
           NEW a \in [Requests -> [Keys -> SUBSET Receipts]]
    PROVE  [a EXCEPT ![r][k] = @ \cup {s}] \in [Requests -> [Keys -> SUBSET Receipts]]
<1> DEFINE b == [a[r] EXCEPT ![k] = @ \cup {s}]
<1>1. b \in [Keys -> SUBSET Receipts]
  OBVIOUS
<1> HIDE DEF b
<1>2. [a EXCEPT ![r] = b] \in [Requests -> [Keys -> SUBSET Receipts]]
  BY <1>1
<1>3. QED
  BY <1>2 DEF b

LEMMA ReadKeyStep == ASSUME IInv, NEW w \in Workers, read_key(w) PROVE Safe
<1> DEFINE stored == db[req(w)].idempotency[loc[w].key]
<1>1. pc[w] = "read_key" /\ pc[w] # "idle" /\ db' = db
  BY DEF read_key
<1>2. /\ req(w) \in Requests /\ db[req(w)] \in RequestRows
      /\ loc[w].key \in Keys /\ Grows(db[req(w)], db[req(w)])
  BY <1>1, Running, GrowsReflexive DEF Knows, Locals
<1>3. CASE stored # None
  <2>1. stored \in Receipts
    BY <1>2, <1>3 DEF RequestRows
  <2>2. answered' \in [Requests -> [Keys -> SUBSET Receipts]]
    <3>1. answered' = [answered EXCEPT ![req(w)][loc[w].key] = @ \cup {stored}]
      BY <1>3 DEF read_key
    <3>2. answered \in [Requests -> [Keys -> SUBSET Receipts]]
      BY DEF IInv, TypeOK
    <3> HIDE DEF stored
    <3>3. QED
      BY <1>2, <2>1, <3>1, <3>2, AnswerType
  <2>3. /\ finish(w) /\ policy_status' = policy_status /\ now' = now /\ budget' = budget
        /\ submissions' = submissions
    BY <1>3 DEF read_key
  <2>4. /\ submissions' \in [Requests -> Seq(Submissions)]
        /\ \A r \in Requests : SubmissionsOK(db[r], submissions'[r])
        /\ db' = [db EXCEPT ![req(w)] = db[req(w)]]
    BY <1>1, <1>2, <2>3 DEF IInv, TypeOK
  <2>5. /\ pc' = [pc EXCEPT ![w] = "idle"] /\ loc' = [loc EXCEPT ![w] = Idle]
        /\ Moves(w, db[req(w)], "idle", Idle)
    BY <2>3, Ends
  <2>6. QED
    BY <1>1, <1>2, <2>2, <2>3, <2>4, <2>5, Frame
<1>4. CASE stored = None
  <2>1. UNCHANGED world
    BY <1>4 DEF read_key, world
  <2>2. CASE finish(w)
    BY <1>1, <2>1, <2>2, Ends, Reading
  <2>3. CASE goto(w, "read_policy") /\ UNCHANGED loc
    <3>1. Moves(w, db[req(w)], "read_policy", loc[w])
      BY <1>1, GoesOn DEF Labels, Called, WithPlan, Decided, Executing
    <3>2. QED
      BY <1>1, <2>1, <2>3, <3>1, Stays, Reading DEF goto
  <2>4. QED
    BY <1>4, <2>2, <2>3 DEF read_key
<1>5. QED
  BY <1>3, <1>4

-----------------------------------------------------------------------------
(* The plan.                                                               *)

(* The planner reads no status, so a plan made under a revoked delegation  *)
(* is the plan it made before.                                             *)
LEMMA PlanOfDelegation ==
    ASSUME NEW p \in Policies, NEW status
    PROVE  P!build_plan([Delegations[p] EXCEPT !.status = status]) \in ActionPlans
<1> DEFINE old == Delegations[p]
           new == [old EXCEPT !.status = status]
<1>1. old \in DelegationPolicy
  BY DelegationAssumption
<1>2. /\ new.allowed_action_types = old.allowed_action_types
      /\ new.allowed_institutions = old.allowed_institutions
      /\ new.allowed_products = old.allowed_products
      /\ new.allowed_data_classes = old.allowed_data_classes
  BY <1>1 DEF DelegationPolicy
<1> HIDE DEF new, old
<1>3. P!build_plan(new) = P!build_plan(old)
  BY <1>2 DEF P!build_plan, P!first_action_type, P!rate_reduction_plan, P!analysis_plan
<1>4. QED
  BY <1>3 DEF ActionPlans, Proposals, new, old

(* A written state is one, even where the write leaves the row as it is.   *)
LEMMA StateWritten ==
    ASSUME IInv, NEW w \in Workers, pc[w] # "idle", NEW s \in States
    PROVE  state_written(w, s) \in States /\ state_written(w, s) # None
<1>1. db[req(w)].state \in States
  BY Running DEF Knows, RequestRows
<1>2. QED
  BY <1>1, NoneAssumption DEF state_written

LEMMA PersistPlanStep == ASSUME IInv, NEW w \in Workers, persist_plan(w) PROVE Safe
<1> DEFINE rows == db[req(w)].plans
           plan == proposed_plan(w)
           stored == IF loc[w].plan = None THEN Append(rows, plan)
                     ELSE IF loc[w].plan = plan THEN rows
                     ELSE [rows EXCEPT ![1] = plan]
           state == state_written(w, "PLAN_CREATED")
           row == [db[req(w)] EXCEPT !.plans = stored, !.state = state]
<1>1. pc[w] = "persist_plan" /\ pc[w] # "idle"
  BY DEF persist_plan
<1>2. /\ req(w) \in Requests /\ db[req(w)] \in RequestRows /\ db[req(w)].state # None
      /\ db[req(w)].policy \in Policies
  BY <1>1, Running DEF Knows
<1>3. plan \in ActionPlans
  BY <1>2, PlanOfDelegation
     DEF proposed_plan, loaded_policy, policy_id, ActionPlans, Proposals
<1>4. stored \in Seq(ActionPlans)
  <2> HIDE DEF plan
  <2>1. rows \in Seq(ActionPlans)
    BY <1>2 DEF RequestRows
  <2>2. Append(rows, plan) \in Seq(ActionPlans)
    BY <2>1, <1>3
  <2>3. [rows EXCEPT ![1] = plan] \in Seq(ActionPlans)
    <3>1. CASE 1 \in 1 .. Len(rows)
      BY <2>1, <1>3, <3>1, ExceptSeq
    <3>2. CASE 1 \notin DOMAIN rows
      <4>1. [rows EXCEPT ![1] = plan] = rows
        BY <2>1, <3>2
      <4>2. QED
        BY <2>1, <4>1
    <3>3. QED
      BY <2>1, <3>1, <3>2
  <2>4. QED
    BY <2>1, <2>2, <2>3
<1>5. state \in States /\ state # None
  BY <1>1, StateWritten DEF States
<1>6. row \in RequestRows /\ Grows(db[req(w)], row)
  <2> HIDE DEF stored, state
  <2>1. QED
    BY <1>2, <1>4, <1>5 DEF RequestRows, Grows, Granted
<1>7. db' = [db EXCEPT ![req(w)] = row]
  BY <1>2 DEF persist_plan, IInv, TypeOK
<1>8. Moves(w, db[req(w)], "plan_event", loc[w])
  BY <1>1, GoesOn DEF Labels, Called, WithPlan, Decided, Executing
<1>9. /\ loc' = [loc EXCEPT ![w] = loc[w]] /\ pc' = [pc EXCEPT ![w] = "plan_event"]
      /\ UNCHANGED world
  BY <1>1, Stays DEF persist_plan, goto
<1>10. QED
  BY <1>1, <1>6, <1>7, <1>8, <1>9, CommitKeeps

-----------------------------------------------------------------------------
(* The decision: where an ALLOW becomes an authorised execution.           *)

LEMMA LoadedPolicy ==
    ASSUME IInv, NEW w \in Workers, pc[w] # "idle"
    PROVE  /\ loaded_policy(w).status = loc[w].policy_status
           /\ loaded_policy(w).version = Delegations[db[req(w)].policy].version
           /\ \A plan : needs_approval(loaded_policy(w), plan)
                          <=> needs_approval(Delegations[db[req(w)].policy], plan)
<1>1. Delegations[db[req(w)].policy] \in DelegationPolicy
  BY Running, DelegationAssumption
<1>2. QED
  BY <1>1 DEF loaded_policy, policy_id, DelegationPolicy, needs_approval

LEMMA AllowAuthorises ==
    ASSUME IInv, NEW w \in Workers, pc[w] = "decide", decision(context(w)) = "ALLOW",
           NEW row, Grows(db[req(w)], row),
           [decision |-> "ALLOW", plan_hash |-> loc[w].plan] \in row.evaluations
    PROVE  /\ loc[w].active_at_start = TRUE
           /\ Authorised(row, loc[w].plan, now)
<1> DEFINE ctx == context(w)
           a == loc[w].approval
           delegation_ == Delegations[db[req(w)].policy]
<1>1. /\ pc[w] # "idle" /\ Knows(db[req(w)], policy_status, pc[w], loc[w])
      /\ db[req(w)] \in RequestRows
  BY Running
<1>2. /\ ctx.policy = loaded_policy(w) /\ ctx.plan = loc[w].plan
      /\ ctx.plan_hash = loc[w].plan /\ ctx.approval = a /\ ctx.now = now
  BY DEF context
<1>3. loc[w].active_at_start = TRUE
  <2>1. loc[w].policy_status = "ACTIVE"
    BY <1>1, <1>2, LoadedPolicy, AllowMeansActive
  <2>2. QED
    BY <1>1, <2>1 DEF Knows
<1>4. ASSUME needs_approval(delegation_, loc[w].plan)
      PROVE  \E b \in Granted(row) : /\ b.approved_plan_hash = loc[w].plan
                                     /\ b.policy_version = delegation_.version
                                     /\ now <= b.expires_at
  <2>1. needs_approval(ctx.policy, ctx.plan)
    BY <1>1, <1>2, <1>4, LoadedPolicy
  <2>2. /\ a # None /\ binds(a, loc[w].plan, loaded_policy(w))
        /\ a.expires_at = None \/ now <= a.expires_at
    <3> HIDE DEF ctx
    <3>1. QED
      BY <1>2, <2>1, AllowMeansBindingApproval DEF ctx
  <2>3. a \in Granted(db[req(w)]) /\ a \in Granted(row)
    BY <1>1, <2>2 DEF Knows, Grows
  <2>4. a.expires_at # None
    <3>1. PICK j \in DOMAIN db[req(w)].approved : a = db[req(w)].approved[j]
      BY <2>3 DEF Granted
    <3>2. db[req(w)].approved \in Seq(Approvals)
      BY <1>1 DEF RequestRows
    <3>3. a \in Approvals
      BY <3>1, <3>2
    <3>4. QED
      BY <3>3, NoneAssumption DEF Approvals
  <2>5. /\ a.approved_plan_hash = loc[w].plan
        /\ a.policy_version = delegation_.version
    BY <1>1, <2>2, LoadedPolicy DEF binds
  <2>6. QED
    BY <2>2, <2>3, <2>4, <2>5
<1>5. Grows(db[req(w)], row) => row.policy = db[req(w)].policy
  BY DEF Grows
<1>6. QED
  BY <1>3, <1>4, <1>5 DEF Authorised

LEMMA DecideStep == ASSUME IInv, NEW w \in Workers, decide_and_store(w) PROVE Safe
<1> DEFINE d == decision(context(w))
           e == [decision |-> d, plan_hash |-> loc[w].plan]
           row == [db[req(w)] EXCEPT !.evaluations = @ \cup {e}]
           l == [loc[w] EXCEPT !.decision = d, !.decided_at = now]
           lab == IF loc[w].op = "evaluate" THEN "evaluated_event"
                  ELSE IF d = "ALLOW" THEN "set_executing" ELSE "set_blocked"
<1>1. /\ pc[w] = "decide" /\ pc[w] # "idle"
      /\ db' = [db EXCEPT ![req(w)] = row]
      /\ loc' = [loc EXCEPT ![w] = l] /\ pc' = [pc EXCEPT ![w] = lab] /\ UNCHANGED world
  BY DEF decide_and_store, goto
<1>2. /\ db[req(w)] \in RequestRows /\ loc[w] \in Locals
      /\ Knows(db[req(w)], policy_status, pc[w], loc[w])
  BY <1>1, Running
<1>3. d \in Decisions /\ now \in Nat /\ loc[w].plan \in ActionPlans
  BY <1>1, <1>2, DecisionType DEF Knows, WithPlan, IInv, TypeOK
<1>4. row \in RequestRows /\ Grows(db[req(w)], row) /\ e \in row.evaluations
  <2> DEFINE all == db[req(w)].evaluations \cup {e}
  <2>1. e \in [decision : Decisions, plan_hash : ActionPlans]
    <3> HIDE DEF d
    <3>1. QED
      BY <1>3
  <2> HIDE DEF e
  <2>2. all \in SUBSET [decision : Decisions, plan_hash : ActionPlans]
    BY <1>2, <2>1 DEF RequestRows
  <2>3. db[req(w)].evaluations \subseteq all /\ e \in all
    OBVIOUS
  <2>4. row = [db[req(w)] EXCEPT !.evaluations = all]
    OBVIOUS
  <2>5. db[req(w)].state # None
    BY <1>2 DEF Knows
  <2> HIDE DEF all, row
  <2>6. row \in RequestRows
    BY <1>2, <2>2, <2>4 DEF RequestRows
  <2>7. Grows(db[req(w)], row) /\ e \in row.evaluations
    BY <1>2, <2>3, <2>4, <2>5 DEF RequestRows, Grows, Granted
  <2>8. QED
    BY <2>6, <2>7
<1>5. l \in Locals /\ l.request = req(w) /\ l.plan = loc[w].plan
      /\ l.active_at_start = loc[w].active_at_start /\ l.decided_at = now /\ l.decision = d
      /\ l.approval = loc[w].approval /\ l.policy_status = loc[w].policy_status
  <2> DEFINE judged == [loc[w] EXCEPT !.decision = d]
  <2> HIDE DEF d
  <2>1. /\ judged \in Locals /\ judged.request = loc[w].request /\ judged.plan = loc[w].plan
        /\ judged.active_at_start = loc[w].active_at_start /\ judged.decision = d
        /\ judged.approval = loc[w].approval /\ judged.policy_status = loc[w].policy_status
    BY <1>2, <1>3 DEF Locals
  <2>2. l = [judged EXCEPT !.decided_at = now]
    OBVIOUS
  <2> HIDE DEF l, judged
  <2>3. QED
    BY <1>3, <2>1, <2>2 DEF Locals, req
<1>6. lab = "set_executing" => /\ loc[w].active_at_start = TRUE
                               /\ Authorised(row, loc[w].plan, now)
  <2>1. ASSUME lab = "set_executing"
        PROVE  d = "ALLOW" /\ [decision |-> "ALLOW", plan_hash |-> loc[w].plan] \in row.evaluations
    BY <2>1, <1>4
  <2> HIDE DEF row, lab
  <2>2. QED
    BY <1>1, <1>4, <2>1, AllowAuthorises
<1>7. Knows(row, policy_status, lab, l)
  <2>1. Knows(row, policy_status, "decide", loc[w])
    BY <1>1, <1>2, <1>4, KnowsGrows
  <2>2. lab \in {"evaluated_event", "set_executing", "set_blocked"}
    OBVIOUS
  <2> HIDE DEF row, lab, l, d
  <2>3. QED
    BY <1>3, <1>5, <1>6, <2>1, <2>2 DEF Knows, Called, WithPlan, Decided, Executing
<1>8. Moves(w, row, lab, l)
  <2>1. lab \in Labels \ {"idle"}
    BY DEF Labels
  <2> HIDE DEF row, lab, l
  <2>2. QED
    BY <1>5, <1>7, <2>1 DEF Moves
<1>9. QED
  <2> HIDE DEF row, lab, l
  <2>1. QED
    BY <1>1, <1>4, <1>8, Commit

-----------------------------------------------------------------------------
(* The commits of a state.                                                 *)

LEMMA StateRow ==
    ASSUME IInv, NEW w \in Workers, pc[w] # "idle", NEW s \in States
    PROVE  LET row == [db[req(w)] EXCEPT !.state = state_written(w, s)]
           IN  row \in RequestRows /\ Grows(db[req(w)], row)
<1> DEFINE written == state_written(w, s)
<1>1. written \in States /\ written # None /\ db[req(w)] \in RequestRows
  BY StateWritten, Running
<1> HIDE DEF written
<1>2. QED
  BY <1>1 DEF RequestRows, Grows, Granted, written

LEMMA WriteStateStep ==
    ASSUME IInv, NEW w \in Workers, pc[w] # "idle", NEW s \in States, write_state(w, s),
           UNCHANGED world,
           NEW lab \in {"approval_event", "started_event", "blocked_calls", "store_key"},
           lab = "started_event" => pc[w] = "set_executing",
           lab = "store_key" => loc[w].key # None,
           pc' = [pc EXCEPT ![w] = lab]
    PROVE  Safe
<1> DEFINE row == [db[req(w)] EXCEPT !.state = state_written(w, s)]
           l == [loc[w] EXCEPT !.state = s]
<1>1. row \in RequestRows /\ Grows(db[req(w)], row)
  BY StateRow
<1>2. loc[w] \in Locals /\ Knows(db[req(w)], policy_status, pc[w], loc[w])
  BY Running
<1>3. db' = [db EXCEPT ![req(w)] = row] /\ loc' = [loc EXCEPT ![w] = l]
  BY DEF write_state
<1>4. l \in Locals /\ l.request = req(w)
  BY <1>2 DEF Locals, req
<1>5. Knows(db[req(w)], policy_status, lab, l)
  BY <1>2 DEF Knows, Locals, Called, WithPlan, Decided, Executing
<1>6. Moves(w, db[req(w)], lab, l)
  BY <1>4, <1>5 DEF Moves, Labels
<1> HIDE DEF row, l
<1>7. QED
  BY <1>1, <1>3, <1>6, CommitKeeps

LEMMA SetDecidedStep == ASSUME IInv, NEW w \in Workers, set_decided(w) PROVE Safe
<1>1. /\ pc[w] # "idle" /\ UNCHANGED world /\ loc[w].decision \in Decisions
  BY Running DEF set_decided, Knows, Decided
<1>2. CASE loc[w].decision = "ALLOW"
  <2> DEFINE row == [db[req(w)] EXCEPT !.state = state_written(w, "ALLOWED")]
  <2>1. row \in RequestRows /\ Grows(db[req(w)], row)
    BY <1>1, StateRow DEF States
  <2>2. db' = [db EXCEPT ![req(w)] = row] /\ finish(w)
    BY <1>2 DEF set_decided
  <2> HIDE DEF row
  <2>3. QED
    BY <1>1, <2>1, <2>2, Ends, CommitKeeps
<1>3. CASE loc[w].decision # "ALLOW"
  <2> DEFINE s == decided_state(loc[w].decision)
             lab == IF blocks(loc[w].decision) THEN "blocked_calls" ELSE "approval_event"
  <2>1. s \in States
    BY <1>1 DEF decided_state, Decisions, States
  <2>2. write_state(w, s) /\ pc' = [pc EXCEPT ![w] = lab]
    BY <1>3 DEF set_decided, goto
  <2>3. lab \in {"approval_event", "blocked_calls"}
    OBVIOUS
  <2> HIDE DEF s, lab
  <2>4. QED
    BY <1>1, <2>1, <2>2, <2>3, WriteStateStep
<1>4. QED
  BY <1>2, <1>3

LEMMA SetExecutingStep == ASSUME IInv, NEW w \in Workers, set_executing(w) PROVE Safe
  BY WriteStateStep DEF set_executing, goto, States

LEMMA SetBlockedStep == ASSUME IInv, NEW w \in Workers, set_blocked(w) PROVE Safe
<1> DEFINE s == IF loc[w].decision = "QUARANTINE" THEN "QUARANTINED" ELSE "DENIED"
<1>1. s \in States
  BY DEF States
<1>2. /\ pc[w] # "idle" /\ write_state(w, s) /\ UNCHANGED world
      /\ pc' = [pc EXCEPT ![w] = "blocked_calls"]
  BY DEF set_blocked, goto
<1> HIDE DEF s
<1>3. QED
  BY <1>1, <1>2, WriteStateStep

LEMMA GrantStep == ASSUME IInv, NEW w \in Workers, grant(w) PROVE Safe
<1> DEFINE old == db[req(w)].approved
           a == [status |-> "APPROVED", approved_plan_hash |-> loc[w].plan,
                 policy_version |-> Delegations[policy_id(w)].version,
                 expires_at |-> now + ApprovalTTL]
           new == Append(old, a)
           s == state_written(w, "APPROVED")
           row == [db[req(w)] EXCEPT !.approved = new, !.state = s]
<1>1. /\ pc[w] = "grant" /\ pc[w] # "idle" /\ db' = [db EXCEPT ![req(w)] = row]
      /\ pc' = [pc EXCEPT ![w] = "granted_event"] /\ loc' = loc /\ UNCHANGED world
  BY Running DEF grant, goto, IInv, TypeOK
<1>2. /\ db[req(w)] \in RequestRows /\ loc[w].plan \in ActionPlans
      /\ Delegations[policy_id(w)].version \in Nat /\ now \in Nat
  BY <1>1, Running, DelegationAssumption
     DEF Knows, WithPlan, policy_id, DelegationPolicy, IInv, TypeOK
<1>3. a \in Approvals
  BY <1>2, TTLAssumption DEF Approvals
<1>4. old \in Seq(Approvals)
  BY <1>2 DEF RequestRows
<1> HIDE DEF a
<1>5. new \in Seq(Approvals) /\ \A j \in DOMAIN old : j \in DOMAIN new /\ new[j] = old[j]
  BY <1>3, <1>4
<1>6. s \in States /\ s # None
  BY <1>1, StateWritten DEF States
<1> HIDE DEF new, s
<1>7. row.approved = new /\ Granted(db[req(w)]) \subseteq Granted(row)
  BY <1>2, <1>5 DEF Granted, RequestRows
<1>8. row \in RequestRows /\ Grows(db[req(w)], row)
  BY <1>2, <1>5, <1>6, <1>7 DEF RequestRows, Grows
<1>9. Moves(w, db[req(w)], "granted_event", loc[w]) /\ loc' = [loc EXCEPT ![w] = loc[w]]
  BY <1>1, GoesOn, Stays DEF Labels, Called, WithPlan, Decided, Executing
<1> HIDE DEF row
<1>10. QED
  BY <1>1, <1>8, <1>9, CommitKeeps

LEMMA RefuseStep == ASSUME IInv, NEW w \in Workers, refuse(w) PROVE Safe
<1> DEFINE s == state_written(w, "REJECTED")
           n == db[req(w)].rejected + 1
           row == [db[req(w)] EXCEPT !.rejected = n, !.state = s]
<1>1. /\ pc[w] = "refuse" /\ pc[w] # "idle" /\ db' = [db EXCEPT ![req(w)] = row]
      /\ pc' = [pc EXCEPT ![w] = "refused_event"] /\ loc' = loc /\ UNCHANGED world
  BY Running DEF refuse, goto, IInv, TypeOK
<1>2. s \in States /\ s # None /\ db[req(w)] \in RequestRows /\ db[req(w)].state # None
  BY <1>1, StateWritten, Running DEF States, Knows
<1>3. n \in Nat
  BY <1>2 DEF RequestRows
<1> HIDE DEF s, n
<1>4. row \in RequestRows /\ Grows(db[req(w)], row)
  <2>1. row \in RequestRows
    BY <1>2, <1>3 DEF RequestRows
  <2>2. Grows(db[req(w)], row)
    BY <1>2 DEF RequestRows, Grows, Granted
  <2>3. QED
    BY <2>1, <2>2
<1>5. Moves(w, db[req(w)], "refused_event", loc[w]) /\ loc' = [loc EXCEPT ![w] = loc[w]]
  BY <1>1, GoesOn, Stays DEF Labels, Called, WithPlan, Decided, Executing
<1> HIDE DEF row
<1>6. QED
  BY <1>1, <1>4, <1>5, CommitKeeps

-----------------------------------------------------------------------------
(* The tools.                                                              *)

LEMMA PlansHaveFinitelyManyCalls ==
    ASSUME NEW plan \in ActionPlans
    PROVE  IsFiniteSet(DOMAIN plan.proposed_tool_calls)
<1>1. ASSUME NEW p \in Proposals
      PROVE  /\ IsFiniteSet(DOMAIN p.proposed_tool_calls)
             /\ "proposed_tool_calls" \in DOMAIN p
  <2>1. CASE p = CustomPlan
    BY <2>1, PlanAssumption
  <2>2. CASE p # CustomPlan
    <3>1. PICK id \in Policies : p = P!build_plan(Delegations[id])
      BY <2>2, <1>1 DEF Proposals
    <3>2. /\ "proposed_tool_calls" \in DOMAIN p
          /\ DOMAIN p.proposed_tool_calls \in {1 .. 3, 1 .. 0}
      BY <3>1 DEF P!build_plan, P!rate_reduction_plan, P!analysis_plan, P!rate_reduction_calls
    <3>3. IsFiniteSet(1 .. 3) /\ IsFiniteSet(1 .. 0)
      <4>1. 0 \in Int /\ 1 \in Int /\ 3 \in Int
        OBVIOUS
      <4>2. QED
        BY <4>1, FS_Interval, Zenon
    <3>4. QED
      BY <3>2, <3>3
  <2>3. QED
    BY <2>1, <2>2
<1>2. CASE plan \in Proposals
  BY <1>1, <1>2
<1>3. CASE plan \notin Proposals
  <2>1. PICK p \in Proposals : plan = Changed(p)
    BY <1>3 DEF ActionPlans
  <2>2. plan.proposed_tool_calls = p.proposed_tool_calls
    BY <2>1, <1>1 DEF Changed
  <2>3. QED
    BY <2>2, <1>1
<1>4. QED
  BY <1>2, <1>3

LEMMA CountCallsType ==
    ASSUME NEW w \in Workers, loc[w].plan \in ActionPlans, NEW s
    PROVE  count_calls(w, s) \in Nat
<1> DEFINE calls == loc[w].plan.proposed_tool_calls
           counted == {i \in DOMAIN gateway_run(w).tool_calls : gateway_run(w).tool_calls[i] = s}
<1>1. IsFiniteSet(DOMAIN calls)
  BY PlansHaveFinitelyManyCalls
<1>2. DOMAIN gateway_run(w).tool_calls = DOMAIN calls
  BY DEF gateway_run, execute_plan_tools
<1>3. counted \in SUBSET DOMAIN calls
  BY <1>2
<1>4. IsFiniteSet(counted)
  BY <1>1, <1>3, FS_Subset
<1>5. QED
  BY <1>4, FS_CardinalityType DEF count_calls

LEMMA RunToolsStep == ASSUME IInv, NEW w \in Workers, run_tools(w) PROVE Safe
<1> DEFINE outcome == gateway_run(w).outcome
           l == [loc[w] EXCEPT !.outcome = outcome]
           s == [plan_hash |-> loc[w].plan, decided_at |-> loc[w].decided_at,
                 active_at_start |-> loc[w].active_at_start]
           list == submissions[req(w)]
<1>1. /\ pc[w] = "run_tools" /\ pc[w] # "idle" /\ db' = db
      /\ loc' = [loc EXCEPT ![w] = l] /\ pc' = [pc EXCEPT ![w] = "store_calls"]
      /\ policy_status' = policy_status /\ now' = now /\ budget' = budget
      /\ answered' = answered
      /\ submissions' = IF outcome THEN [submissions EXCEPT ![req(w)] = Append(list, s)]
                        ELSE submissions
  BY DEF run_tools, goto, submitted_plan
<1>2. /\ req(w) \in Requests /\ db[req(w)] \in RequestRows /\ loc[w] \in Locals
      /\ Knows(db[req(w)], policy_status, pc[w], loc[w])
      /\ Grows(db[req(w)], db[req(w)])
      /\ db' = [db EXCEPT ![req(w)] = db[req(w)]]
  BY <1>1, Running, GrowsReflexive DEF Knows, IInv, TypeOK
<1>3. /\ loc[w].plan \in ActionPlans /\ loc[w].decided_at \in Nat
      /\ loc[w].active_at_start = TRUE /\ db[req(w)].state # None
      /\ Authorised(db[req(w)], loc[w].plan, loc[w].decided_at)
  BY <1>1, <1>2 DEF Knows, WithPlan, Decided, Executing
<1>4. outcome \in BOOLEAN
  BY DEF gateway_run, execute_plan_tools
<1>5. Moves(w, db[req(w)], "store_calls", l)
  <2> HIDE DEF outcome
  <2>1. l \in Locals /\ l.request = req(w)
    BY <1>2, <1>4 DEF Locals, req
  <2>2. Knows(db[req(w)], policy_status, "store_calls", l)
    BY <1>1, <1>2 DEF Knows, Locals, Called, WithPlan, Decided, Executing
  <2>3. QED
    BY <2>1, <2>2 DEF Moves, Labels
<1>6. s \in Submissions
  BY <1>3 DEF Submissions
<1>7. /\ s.plan_hash = loc[w].plan /\ s.decided_at = loc[w].decided_at
      /\ s.active_at_start = TRUE
  BY <1>3
<1>8. list \in Seq(Submissions) /\ SubmissionsOK(db[req(w)], list)
  BY <1>2 DEF IInv, TypeOK
<1> HIDE DEF s
<1>9. Append(list, s) \in Seq(Submissions) /\ SubmissionsOK(db[req(w)], Append(list, s))
  <2>1. Append(list, s) \in Seq(Submissions)
    BY <1>6, <1>8
  <2>2. ASSUME NEW i \in DOMAIN Append(list, s)
        PROVE  \/ Append(list, s)[i] = s
               \/ i \in DOMAIN list /\ Append(list, s)[i] = list[i]
    BY <1>6, <1>8, AppendProperties
  <2>3. QED
    BY <1>3, <1>7, <1>8, <2>1, <2>2 DEF SubmissionsOK
<1>10. /\ submissions' \in [Requests -> Seq(Submissions)]
       /\ \A r \in Requests : SubmissionsOK(db[r], submissions'[r])
  BY <1>1, <1>2, <1>9 DEF IInv, TypeOK
<1>11. answered' \in [Requests -> [Keys -> SUBSET Receipts]]
  BY <1>1 DEF IInv, TypeOK
<1> HIDE DEF l
<1>12. QED
  BY <1>1, <1>2, <1>5, <1>10, <1>11, Frame

-----------------------------------------------------------------------------
(* The commits that count: tool calls, executions, incidents, receipts.    *)

ToolCalls == [{"COMPLETED", "BLOCKED"} -> Nat]
Executions == [{"SUBMITTED", "FAILED_SAFE", "NO_EXECUTION"} -> Nat]

LEMMA CounterRows ==
    ASSUME NEW old \in RequestRows, old.state # None
    PROVE  /\ \A f \in ToolCalls : LET new == [old EXCEPT !.tool_calls = f]
                                   IN  new \in RequestRows /\ Grows(old, new)
           /\ \A n \in Nat : LET new == [old EXCEPT !.incidents = n]
                             IN  new \in RequestRows /\ Grows(old, new)
           /\ \A f \in Executions : LET new == [old EXCEPT !.executions = f]
                                    IN  new \in RequestRows /\ Grows(old, new)
           /\ \A f \in [ReceiptStatuses -> Nat] : LET new == [old EXCEPT !.receipts = f]
                                                  IN  new \in RequestRows /\ Grows(old, new)
<1>1. ASSUME NEW f \in ToolCalls
      PROVE  LET new == [old EXCEPT !.tool_calls = f] IN new \in RequestRows /\ Grows(old, new)
  BY DEF RequestRows, Grows, Granted, ToolCalls
<1>2. ASSUME NEW n \in Nat
      PROVE  LET new == [old EXCEPT !.incidents = n] IN new \in RequestRows /\ Grows(old, new)
  BY DEF RequestRows, Grows, Granted
<1>3. ASSUME NEW f \in Executions
      PROVE  LET new == [old EXCEPT !.executions = f] IN new \in RequestRows /\ Grows(old, new)
  BY DEF RequestRows, Grows, Granted, Executions
<1>4. ASSUME NEW f \in [ReceiptStatuses -> Nat]
      PROVE  LET new == [old EXCEPT !.receipts = f] IN new \in RequestRows /\ Grows(old, new)
  BY DEF RequestRows, Grows, Granted
<1>5. QED
  BY <1>1, <1>2, <1>3, <1>4

LEMMA CommitGoesOn ==
    ASSUME IInv, NEW w \in Workers, pc[w] # "idle",
           NEW row, row \in RequestRows /\ Grows(db[req(w)], row),
           db' = [db EXCEPT ![req(w)] = row],
           NEW lab \in Labels \ ({"idle", "read_key", "store_key"} \cup Called \cup WithPlan
                                   \cup Decided),
           pc' = [pc EXCEPT ![w] = lab], loc' = loc, UNCHANGED world
    PROVE  Safe
<1>1. Moves(w, db[req(w)], lab, loc[w])
  BY GoesOn DEF Executing, WithPlan
<1>2. QED
  BY <1>1, Stays, CommitKeeps

LEMMA StoreCallsStep == ASSUME IInv, NEW w \in Workers, store_calls(w) PROVE Safe
<1> DEFINE old == db[req(w)].tool_calls
           f == [s \in DOMAIN old |-> old[s] + count_calls(w, s)]
           row == [db[req(w)] EXCEPT !.tool_calls = f]
<1>1. /\ pc[w] = "store_calls" /\ pc[w] # "idle" /\ db' = [db EXCEPT ![req(w)] = row]
      /\ pc' = [pc EXCEPT ![w] = "store_execution"] /\ loc' = loc /\ UNCHANGED world
  BY DEF store_calls, goto
<1>2. /\ db[req(w)] \in RequestRows /\ db[req(w)].state # None /\ loc[w].plan \in ActionPlans
  BY <1>1, Running DEF Knows, WithPlan
<1>3. old \in ToolCalls
  BY <1>2 DEF RequestRows, ToolCalls
<1>4. f \in ToolCalls
  BY <1>2, <1>3, CountCallsType DEF ToolCalls
<1> HIDE DEF f
<1>5. row \in RequestRows /\ Grows(db[req(w)], row)
  BY <1>2, <1>4, CounterRows
<1> HIDE DEF row
<1>6. QED
  BY <1>1, <1>5, CommitGoesOn DEF Labels, Called, WithPlan, Decided

LEMMA BlockedCallsStep == ASSUME IInv, NEW w \in Workers, blocked_calls(w) PROVE Safe
<1> DEFINE attempted == signals(w).attempted_unauthorized_tools
           f == [db[req(w)].tool_calls EXCEPT !["BLOCKED"] = @ + Cardinality(attempted)]
           row == [db[req(w)] EXCEPT !.tool_calls = f]
           lab == IF attempted # {} THEN "blocked_event"
                  ELSE IF quarantined(w) THEN "incident" ELSE "receipt_event"
<1>1. /\ pc[w] = "blocked_calls" /\ pc[w] # "idle" /\ db' = [db EXCEPT ![req(w)] = row]
      /\ pc' = [pc EXCEPT ![w] = lab] /\ loc' = loc /\ UNCHANGED world
  BY DEF blocked_calls, goto
<1>2. /\ db[req(w)] \in RequestRows /\ db[req(w)].state # None
      /\ document(w) \in Documents
  BY <1>1, Running DEF Knows, document
<1>3. attempted \in SUBSET (SensitiveToolNames \cup {"unknown_tool"})
  BY <1>2, DocumentAssumption DEF signals, scan, attempted_tools, NoSignals, Document
<1>4. Cardinality(attempted) \in Nat
  <2>1. IsFiniteSet({"transfer_funds"})
    BY FS_Singleton
  <2>2. IsFiniteSet({"transfer_funds"} \cup {"wire_transfer"})
    BY <2>1, FS_AddElement
  <2>3. IsFiniteSet({"transfer_funds"} \cup {"wire_transfer"} \cup {"send_money"})
    BY <2>2, FS_AddElement
  <2>4. IsFiniteSet({"transfer_funds"} \cup {"wire_transfer"} \cup {"send_money"}
                      \cup {"disclose_account"})
    BY <2>3, FS_AddElement
  <2>5. IsFiniteSet({"transfer_funds"} \cup {"wire_transfer"} \cup {"send_money"}
                      \cup {"disclose_account"} \cup {"unknown_tool"})
    BY <2>4, FS_AddElement
  <2>6. SensitiveToolNames \cup {"unknown_tool"} =
          {"transfer_funds"} \cup {"wire_transfer"} \cup {"send_money"}
             \cup {"disclose_account"} \cup {"unknown_tool"}
    BY DEF SensitiveToolNames
  <2>7. IsFiniteSet(SensitiveToolNames \cup {"unknown_tool"})
    BY <2>5, <2>6
  <2> HIDE DEF attempted
  <2>8. QED
    BY <1>3, <2>7, FS_Subset, FS_CardinalityType
<1> HIDE DEF attempted
<1>5. f \in ToolCalls
  BY <1>2, <1>4 DEF RequestRows, ToolCalls
<1>6. lab \in {"blocked_event", "incident", "receipt_event"}
  OBVIOUS
<1> HIDE DEF f, lab
<1>7. row \in RequestRows /\ Grows(db[req(w)], row)
  BY <1>2, <1>5, CounterRows
<1> HIDE DEF row
<1>8. QED
  BY <1>1, <1>6, <1>7, CommitGoesOn DEF Labels, Called, WithPlan, Decided

LEMMA IncidentStep == ASSUME IInv, NEW w \in Workers, incident(w) PROVE Safe
<1> DEFINE n == db[req(w)].incidents + 1
           row == [db[req(w)] EXCEPT !.incidents = n]
<1>1. /\ pc[w] # "idle" /\ db' = [db EXCEPT ![req(w)] = row]
      /\ pc' = [pc EXCEPT ![w] = "incident_event"] /\ loc' = loc /\ UNCHANGED world
  BY DEF incident, goto
<1>2. db[req(w)] \in RequestRows /\ db[req(w)].state # None
  BY <1>1, Running DEF Knows
<1>3. n \in Nat
  BY <1>2 DEF RequestRows
<1> HIDE DEF n
<1>4. row \in RequestRows /\ Grows(db[req(w)], row)
  BY <1>2, <1>3, CounterRows
<1> HIDE DEF row
<1>5. QED
  BY <1>1, <1>4, CommitGoesOn DEF Labels, Called, WithPlan, Decided

LEMMA NoExecutionStep == ASSUME IInv, NEW w \in Workers, no_execution(w) PROVE Safe
<1> DEFINE f == [db[req(w)].executions EXCEPT !["NO_EXECUTION"] = @ + 1]
           row == [db[req(w)] EXCEPT !.executions = f]
<1>1. /\ pc[w] # "idle" /\ db' = [db EXCEPT ![req(w)] = row]
      /\ pc' = [pc EXCEPT ![w] = "store_receipt"] /\ loc' = loc /\ UNCHANGED world
  BY DEF no_execution, goto
<1>2. db[req(w)] \in RequestRows /\ db[req(w)].state # None
  BY <1>1, Running DEF Knows
<1>3. f \in Executions
  BY <1>2 DEF RequestRows, Executions
<1> HIDE DEF f
<1>4. row \in RequestRows /\ Grows(db[req(w)], row)
  BY <1>2, <1>3, CounterRows
<1> HIDE DEF row
<1>5. QED
  BY <1>1, <1>4, CommitGoesOn DEF Labels, Called, WithPlan, Decided

LEMMA StoreExecutionStep == ASSUME IInv, NEW w \in Workers, store_execution(w) PROVE Safe
<1> DEFINE status == execution_status(loc[w].outcome)
           to == executed_state(loc[w].outcome)
           f == [db[req(w)].executions EXCEPT ![status] = @ + 1]
           s == state_written(w, to)
           row == [db[req(w)] EXCEPT !.executions = f, !.state = s]
           l == [loc[w] EXCEPT !.state = to]
<1>1. /\ pc[w] = "store_execution" /\ pc[w] # "idle" /\ db' = [db EXCEPT ![req(w)] = row]
      /\ pc' = [pc EXCEPT ![w] = "completed_event"] /\ loc' = [loc EXCEPT ![w] = l]
      /\ UNCHANGED world
  BY Running DEF store_execution, goto, IInv, TypeOK
<1>2. /\ db[req(w)] \in RequestRows /\ db[req(w)].state # None /\ loc[w] \in Locals
      /\ Knows(db[req(w)], policy_status, pc[w], loc[w])
  BY <1>1, Running DEF Knows
<1>3. /\ to \in {"EXECUTED", "FAILED_SAFE"}
      /\ status \in {"SUBMITTED", "FAILED_SAFE"}
  BY DEF execution_status, executed_state
<1> HIDE DEF status, to
<1>4. f \in Executions
  BY <1>2, <1>3 DEF RequestRows, Executions
<1>5. to \in States
  BY <1>3 DEF States
<1>6. s \in States \cup {None} /\ s # None
  BY <1>2, <1>5, NoneAssumption DEF state_written, RequestRows
<1> HIDE DEF f, s
<1>7. row \in RequestRows
  BY <1>2, <1>4, <1>6 DEF RequestRows, Executions
<1>8. Grows(db[req(w)], row)
  BY <1>2, <1>4, <1>6 DEF RequestRows, Grows, Granted
<1>9. l \in Locals /\ l.request = req(w)
  BY <1>2, <1>5 DEF Locals, req
<1>10. Knows(db[req(w)], policy_status, "completed_event", l)
  BY <1>2 DEF Knows, Locals, Called, WithPlan, Decided, Executing
<1>11. Moves(w, db[req(w)], "completed_event", l)
  BY <1>9, <1>10 DEF Moves, Labels
<1> HIDE DEF row, l
<1>12. QED
  BY <1>1, <1>7, <1>8, <1>11, CommitKeeps

-----------------------------------------------------------------------------
(* The end of a handler: its receipt, the final state, the stored key.     *)

LEMMA ReceiptType ==
    ASSUME IInv, NEW w \in Workers
    PROVE  receipt(w) \in Receipts /\ receipt(w).status \in ReceiptStatuses
<1>1. loc[w].final_event \in Nat \cup {None}
  BY DEF IInv, TypeOK, Locals
<1>2. QED
  BY <1>1 DEF receipt, receipt_status, Receipts, ReceiptStatuses

LEMMA AnswerStep ==
    ASSUME IInv, NEW w \in Workers, pc[w] # "idle", answer(w)
    PROVE  answered' \in [Requests -> [Keys -> SUBSET Receipts]]
<1>1. answered \in [Requests -> [Keys -> SUBSET Receipts]]
  BY DEF IInv, TypeOK
<1>2. CASE loc[w].key = None
  BY <1>1, <1>2 DEF answer
<1>3. CASE loc[w].key # None
  <2>1. loc[w].key \in Keys /\ req(w) \in Requests
    BY <1>3, Running DEF Locals
  <2>2. answered' = [answered EXCEPT ![req(w)][loc[w].key] = @ \cup {receipt(w)}]
    BY <1>3 DEF answer
  <2>3. QED
    BY <1>1, <2>1, <2>2, ReceiptType, AnswerType
<1>4. QED
  BY <1>2, <1>3

(* The commit of a handler that then returns, having answered or not.      *)
LEMMA LastCommit ==
    ASSUME IInv, NEW w \in Workers, pc[w] # "idle",
           NEW row, row \in RequestRows /\ Grows(db[req(w)], row),
           db' = [db EXCEPT ![req(w)] = row], finish(w),
           answer(w) \/ answered' = answered,
           UNCHANGED <<policy_status, now, submissions, budget>>
    PROVE  Safe
<1>1. /\ answered' \in [Requests -> [Keys -> SUBSET Receipts]]
      /\ submissions' \in [Requests -> Seq(Submissions)]
      /\ \A r \in Requests : SubmissionsOK(db[r], submissions'[r])
      /\ policy_status' = policy_status /\ now' = now /\ budget' = budget
  BY AnswerStep DEF IInv, TypeOK
<1>2. /\ pc' = [pc EXCEPT ![w] = "idle"] /\ loc' = [loc EXCEPT ![w] = Idle]
      /\ Moves(w, row, "idle", Idle)
  BY Ends
<1>3. QED
  BY <1>1, <1>2, Frame

LEMMA StoreReceiptStep == ASSUME IInv, NEW w \in Workers, store_receipt(w) PROVE Safe
<1> DEFINE s == receipt(w).status
           f == [db[req(w)].receipts EXCEPT ![s] = @ + 1]
           row == [db[req(w)] EXCEPT !.receipts = f]
<1>1. /\ pc[w] # "idle" /\ db' = [db EXCEPT ![req(w)] = row]
      /\ pc' = [pc EXCEPT ![w] = "set_issued"] /\ loc' = loc /\ UNCHANGED world
  BY DEF store_receipt, goto
<1>2. db[req(w)] \in RequestRows /\ db[req(w)].state # None /\ s \in ReceiptStatuses
  BY <1>1, Running, ReceiptType DEF Knows
<1> HIDE DEF s
<1>3. f \in [ReceiptStatuses -> Nat]
  BY <1>2 DEF RequestRows
<1> HIDE DEF f
<1>4. row \in RequestRows /\ Grows(db[req(w)], row)
  BY <1>2, <1>3, CounterRows
<1> HIDE DEF row
<1>5. QED
  BY <1>1, <1>4, CommitGoesOn DEF Labels, Called, WithPlan, Decided

LEMMA SetIssuedStep == ASSUME IInv, NEW w \in Workers, set_issued(w) PROVE Safe
<1>1. /\ pc[w] # "idle" /\ "RECEIPT_ISSUED" \in States
      /\ UNCHANGED <<policy_status, now, submissions, budget>>
  BY DEF set_issued, States
<1>2. CASE executes(w) /\ loc[w].key # None
  <2>1. /\ write_state(w, "RECEIPT_ISSUED") /\ UNCHANGED world
        /\ pc' = [pc EXCEPT ![w] = "store_key"]
    BY <1>2 DEF set_issued, goto, world
  <2>2. QED
    BY <1>1, <1>2, <2>1, WriteStateStep
<1>3. CASE ~(executes(w) /\ loc[w].key # None)
  <2> DEFINE row == [db[req(w)] EXCEPT !.state = state_written(w, "RECEIPT_ISSUED")]
  <2>1. row \in RequestRows /\ Grows(db[req(w)], row)
    BY <1>1, StateRow
  <2>2. db' = [db EXCEPT ![req(w)] = row] /\ finish(w) /\ answer(w)
    BY <1>3 DEF set_issued
  <2> HIDE DEF row
  <2>3. QED
    BY <1>1, <2>1, <2>2, LastCommit
<1>4. QED
  BY <1>2, <1>3

LEMMA StoreKeyStep == ASSUME IInv, NEW w \in Workers, store_key(w) PROVE Safe
<1> DEFINE old == db[req(w)].idempotency
           f == [old EXCEPT ![loc[w].key] = receipt(w)]
           row == [db[req(w)] EXCEPT !.idempotency = f]
<1>1. /\ pc[w] = "store_key" /\ pc[w] # "idle" /\ finish(w)
      /\ UNCHANGED <<policy_status, now, submissions, budget>>
  BY DEF store_key
<1>2. /\ db[req(w)] \in RequestRows /\ db[req(w)].state # None /\ loc[w].key \in Keys
      /\ req(w) \in Requests /\ receipt(w) \in Receipts
      /\ Grows(db[req(w)], db[req(w)])
  BY <1>1, Running, ReceiptType, GrowsReflexive DEF Knows, Locals
<1>3. CASE old[loc[w].key] = None
  <2>1. f \in [Keys -> Receipts \cup {None}]
    BY <1>2 DEF RequestRows
  <2>2. \A k \in Keys : old[k] # None => f[k] = old[k]
    BY <1>2, <1>3 DEF RequestRows
  <2>3. db' = [db EXCEPT ![req(w)] = row] /\ answer(w)
    BY <1>3 DEF store_key
  <2> HIDE DEF f
  <2>4. row \in RequestRows /\ Grows(db[req(w)], row)
    BY <1>2, <2>1, <2>2 DEF RequestRows, Grows, Granted
  <2> HIDE DEF row
  <2>5. QED
    BY <1>1, <2>3, <2>4, LastCommit
<1>4. CASE old[loc[w].key] # None
  <2>1. db' = db /\ answered' = answered
    BY <1>4 DEF store_key
  <2>2. db' = [db EXCEPT ![req(w)] = db[req(w)]]
    BY <1>2, <2>1 DEF IInv, TypeOK
  <2>3. QED
    BY <1>1, <1>2, <2>1, <2>2, LastCommit
<1>5. QED
  BY <1>3, <1>4

-----------------------------------------------------------------------------
(* Arrivals, and the rest of the world.                                    *)

LEMMA CreateRow ==
    ASSUME NEW p \in Policies, NEW d \in Documents
    PROVE  [NoRows EXCEPT !.state = "DRAFT", !.policy = p, !.document = d] \in RequestRows
<1>1. /\ <<>> \in Seq(ActionPlans) /\ <<>> \in Seq(Approvals) /\ "DRAFT" \in States
      /\ {} \in SUBSET [decision : Decisions, plan_hash : ActionPlans]
  BY DEF States
<1>2. QED
  BY <1>1 DEF NoRows, RequestRows

LEMMA NoActiveNone == None # "ACTIVE"
  BY NoneAssumption DEF DelegationStatuses

LEMMA CreateStep ==
    ASSUME IInv, NEW w \in Workers, NEW r \in Requests, NEW p \in Policies,
           NEW d \in Documents, create_request(w, r, p, d)
    PROVE  Safe
<1> DEFINE row == [NoRows EXCEPT !.state = "DRAFT", !.policy = p, !.document = d]
           l == [Idle EXCEPT !.op = "create", !.request = r, !.state = "DRAFT"]
<1>1. /\ pc[w] = "idle" /\ db[r].state = None
      /\ db' = [db EXCEPT ![r] = row] /\ loc' = [loc EXCEPT ![w] = l]
      /\ pc' = [pc EXCEPT ![w] = "received_event"]
      /\ policy_status' = policy_status /\ now' = now /\ budget' = budget
      /\ submissions' = submissions /\ answered' = answered
  BY DEF create_request, goto, world
<1>2. /\ db \in [Requests -> RequestRows] /\ loc \in [Workers -> Locals]
      /\ pc \in [Workers -> Labels]
  BY DEF IInv, TypeOK
<1>3. /\ row \in RequestRows /\ row.state = "DRAFT" /\ row.policy = p /\ row.document = d
  BY CreateRow DEF NoRows
<1>4. l \in Locals /\ l.request = r /\ l.approval = None /\ l.policy_status = None
      /\ "DRAFT" # None
  <2>1. "DRAFT" \in States
    BY DEF States
  <2>2. QED
    BY <2>1, NoneAssumption DEF Idle, Locals
<1> HIDE DEF row
<1>5. Knows(row, policy_status, "received_event", l)
  <2>1. None # "ACTIVE"
    BY NoActiveNone
  <2> HIDE DEF l
  <2>2. QED
    BY <1>3, <1>4, <2>1 DEF Knows, Called, WithPlan, Decided, Executing
<1> HIDE DEF l
<1>6. TypeOK'
  BY <1>1, <1>2, <1>3, <1>4 DEF IInv, TypeOK, Labels
<1>7. ASSUME NEW q \in Requests PROVE RowOK(db'[q])
  BY <1>1, <1>2, <1>3, <1>4 DEF IInv, RowOK
<1>8. ASSUME NEW v \in Workers PROVE HandlerOK(db', policy_status', pc'[v], loc'[v])
  <2>1. CASE v = w
    <3>1. db'[r] = row /\ pc'[v] = "received_event" /\ loc'[v] = l /\ r # None
      BY <1>1, <1>2, <2>1, NoneAssumption
    <3>2. QED
      BY <1>1, <1>4, <1>5, <3>1 DEF HandlerOK
  <2>2. CASE v # w
    <3>1. pc'[v] = pc[v] /\ loc'[v] = loc[v] /\ loc[v] \in Locals
      BY <1>1, <1>2, <2>2
    <3>2. HandlerOK(db, policy_status, pc[v], loc[v])
      BY DEF IInv
    <3>3. CASE pc[v] = "idle"
      BY <3>1, <3>2, <3>3 DEF HandlerOK
    <3>4. CASE pc[v] # "idle"
      <4>1. loc[v].request \in Requests /\ db[loc[v].request].state # None
        BY <3>1, <3>2, <3>4 DEF HandlerOK, Knows, Locals
      <4>2. db'[loc[v].request] = db[loc[v].request]
        BY <1>1, <1>2, <4>1
      <4>3. QED
        BY <1>1, <3>1, <3>2, <3>4, <4>2 DEF HandlerOK
    <3>5. QED
      BY <3>3, <3>4
  <2>3. QED
    BY <2>1, <2>2
<1>9. ASSUME NEW q \in Requests PROVE SubmissionsOK(db'[q], submissions'[q])
  BY <1>1, <1>2 DEF IInv, SubmissionsOK
<1>10. ResponsesKept
  BY <1>1, <1>2 DEF ResponsesKept, IInv, RowOK, NoRows
<1>11. QED
  BY <1>6, <1>7, <1>8, <1>9, <1>10 DEF IInv, Safe

LEMMA ArriveStep ==
    ASSUME IInv, NEW w \in Workers, NEW r \in Requests, NEW op \in Operations,
           NEW key \in Keys \cup {None}, read_request(w, r, op, key)
    PROVE  Safe
<1> DEFINE active == policy_status[db[r].policy] = "ACTIVE"
           l == [Idle EXCEPT !.op = op, !.request = r, !.key = key, !.state = db[r].state,
                             !.active_at_start = active]
           lab == IF key # None THEN "read_key" ELSE "read_policy"
<1>1. /\ pc[w] = "idle" /\ db[r].state # None /\ budget[op] > 0
      /\ loc' = [loc EXCEPT ![w] = l] /\ pc' = [pc EXCEPT ![w] = lab]
      /\ budget' = [budget EXCEPT ![op] = @ - 1]
      /\ db' = db /\ policy_status' = policy_status /\ now' = now
      /\ submissions' = submissions /\ answered' = answered
  BY DEF read_request, goto
<1>2. /\ db \in [Requests -> RequestRows] /\ loc \in [Workers -> Locals]
      /\ pc \in [Workers -> Labels] /\ budget \in [Operations -> Nat]
  BY DEF IInv, TypeOK
<1>3. active \in BOOLEAN /\ db[r].state \in States \cup {None}
  BY <1>2 DEF RequestRows
<1>4. /\ l.op = op /\ l.request = r /\ l.key = key /\ l.active_at_start = active
      /\ l.approval = None /\ l.policy_status = None
  BY DEF Idle
<1>5. l \in Locals
  <2> HIDE DEF active
  <2>1. QED
    BY <1>3 DEF Idle, Locals
<1>6. Knows(db[r], policy_status, lab, l)
  <2>1. None # "ACTIVE"
    BY NoActiveNone
  <2>2. lab \in {"read_key", "read_policy"} /\ (lab = "read_key" => key # None)
    OBVIOUS
  <2> HIDE DEF l, lab
  <2>3. QED
    BY <1>1, <1>4, <2>1, <2>2 DEF Knows, Called, WithPlan, Decided, Executing
<1>7. lab \in Labels /\ r # None
  BY NoneAssumption DEF Labels
<1> HIDE DEF l, lab
<1>8. TypeOK'
  <2>1. budget' \in [Operations -> Nat]
    BY <1>1, <1>2
  <2>2. QED
    BY <1>1, <1>2, <1>5, <1>7, <2>1 DEF IInv, TypeOK
<1>9. ASSUME NEW v \in Workers PROVE HandlerOK(db', policy_status', pc'[v], loc'[v])
  <2>1. CASE v = w
    <3>1. pc'[v] = lab /\ loc'[v] = l
      BY <1>1, <1>2, <2>1
    <3>2. lab # "idle"
      BY DEF lab
    <3>3. QED
      BY <1>1, <1>4, <1>6, <1>7, <3>1, <3>2 DEF HandlerOK
  <2>2. CASE v # w
    BY <1>1, <1>2, <2>2 DEF IInv
  <2>3. QED
    BY <2>1, <2>2
<1>10. QED
  BY <1>1, <1>8, <1>9 DEF IInv, Safe, ResponsesKept

(* A revocation only takes ACTIVE away.                                    *)
LEMMA RevokeStep == ASSUME IInv, NEW p \in Policies, revoke(p) PROVE Safe
<1>1. /\ policy_status' = [policy_status EXCEPT ![p] = "REVOKED"]
      /\ db' = db /\ now' = now /\ submissions' = submissions /\ answered' = answered
      /\ budget' = budget /\ pc' = pc /\ loc' = loc
  BY DEF revoke
<1>2. policy_status \in [Policies -> DelegationStatuses]
  BY DEF IInv, TypeOK
<1>3. "REVOKED" \in DelegationStatuses
  BY DEF DelegationStatuses
<1>4. TypeOK'
  BY <1>1, <1>2, <1>3 DEF IInv, TypeOK
<1>5. \A q \in Policies : policy_status'[q] = "ACTIVE" => policy_status[q] = "ACTIVE"
  BY <1>1, <1>2
<1>6. ASSUME NEW v \in Workers PROVE HandlerOK(db', policy_status', pc'[v], loc'[v])
  <2>1. HandlerOK(db, policy_status, pc[v], loc[v])
    BY DEF IInv
  <2>2. CASE pc[v] = "idle"
    BY <1>1, <2>1, <2>2 DEF HandlerOK
  <2>3. CASE pc[v] # "idle"
    <3>1. Knows(db[req(v)], policy_status, pc[v], loc[v]) /\ db[req(v)].policy \in Policies
      BY <2>3, Running
    <3>2. Knows(db[req(v)], policy_status', pc[v], loc[v])
      BY <1>5, <3>1 DEF Knows
    <3>3. QED
      BY <1>1, <2>1, <2>3, <3>2 DEF HandlerOK, req
  <2>4. QED
    BY <2>2, <2>3
<1>7. QED
  BY <1>1, <1>4, <1>6 DEF IInv, Safe, ResponsesKept

LEMMA TickStep == ASSUME IInv, tick PROVE Safe
<1>1. /\ now' = now + 1 /\ db' = db /\ policy_status' = policy_status
      /\ submissions' = submissions /\ answered' = answered /\ budget' = budget
      /\ pc' = pc /\ loc' = loc
  BY DEF tick
<1>2. TypeOK'
  BY <1>1 DEF IInv, TypeOK
<1>3. QED
  BY <1>1, <1>2 DEF IInv, Safe, ResponsesKept

LEMMA CrashStep == ASSUME IInv, NEW w \in Workers, crash(w) PROVE Safe
  BY Ends, Reading DEF crash

LEMMA ProposalsHaveGoals == ASSUME NEW plan \in Proposals PROVE "goal" \in DOMAIN plan
<1>1. CASE plan = CustomPlan
  BY <1>1, PlanAssumption
<1>2. CASE plan # CustomPlan
  <2>1. PICK p \in Policies : plan = P!build_plan(Delegations[p])
    BY <1>2 DEF Proposals
  <2>2. QED
    BY <2>1 DEF P!build_plan, P!rate_reduction_plan, P!analysis_plan
<1>3. QED
  BY <1>1, <1>2

LEMMA SwapStep == ASSUME IInv, NEW r \in Requests, swap_plan(r) PROVE Safe
<1> DEFINE rows == db[r].plans
           plan == [rows[1] EXCEPT !.goal = "changed"]
           new == [rows EXCEPT ![1] = plan]
           row == [db[r] EXCEPT !.plans = new]
<1>1. /\ db[r].state # None /\ rows # <<>> /\ rows[1].goal # "changed"
      /\ db' = [db EXCEPT ![r] = row]
      /\ policy_status' = policy_status /\ now' = now /\ submissions' = submissions
      /\ answered' = answered /\ budget' = budget /\ pc' = pc /\ loc' = loc
  BY DEF swap_plan, world
<1>2. /\ db \in [Requests -> RequestRows] /\ loc \in [Workers -> Locals]
      /\ rows \in Seq(ActionPlans) /\ rows[1] \in ActionPlans
  <2>1. db \in [Requests -> RequestRows] /\ loc \in [Workers -> Locals]
    BY DEF IInv, TypeOK
  <2>2. rows \in Seq(ActionPlans)
    BY <2>1 DEF RequestRows
  <2>3. rows # <<>>
    BY <1>1
  <2> HIDE DEF rows
  <2>4. rows[1] \in ActionPlans
    BY <2>2, <2>3
  <2>5. QED
    BY <2>1, <2>2, <2>4
<1>3. rows[1] \in Proposals
  <2>1. SUFFICES ASSUME NEW p \in Proposals, rows[1] = Changed(p) PROVE FALSE
    BY <1>2 DEF ActionPlans
  <2>2. rows[1].goal = "changed"
    BY <2>1, ProposalsHaveGoals DEF Changed
  <2>3. QED
    BY <1>1, <2>2
<1>4. plan \in ActionPlans
  BY <1>3 DEF ActionPlans, Changed
<1> HIDE DEF plan
<1>5. new \in Seq(ActionPlans)
  BY <1>1, <1>2, <1>4, ExceptSeq
<1> HIDE DEF new
<1>6. db[r].state # None
  BY <1>1
<1>7. row \in RequestRows /\ Grows(db[r], row)
  BY <1>2, <1>5, <1>6 DEF RequestRows, Grows, Granted
<1> HIDE DEF row
<1>8. TypeOK'
  BY <1>1, <1>2, <1>7 DEF IInv, TypeOK
<1>9. ASSUME NEW q \in Requests PROVE RowOK(db'[q])
  BY <1>1, <1>2, <1>6, <1>7 DEF IInv, RowOK, Grows
<1>10. ASSUME NEW v \in Workers PROVE HandlerOK(db', policy_status', pc'[v], loc'[v])
  BY <1>1, <1>2, <1>7, HandlerGrows DEF IInv
<1>11. ASSUME NEW q \in Requests PROVE SubmissionsOK(db'[q], submissions'[q])
  BY <1>1, <1>2, <1>7, SubmissionsGrow DEF IInv
<1>12. ResponsesKept
  BY <1>1, <1>2, <1>7 DEF ResponsesKept, Grows
<1>13. QED
  BY <1>8, <1>9, <1>10, <1>11, <1>12 DEF IInv, Safe

-----------------------------------------------------------------------------
(* The invariant.                                                          *)

LEMMA InitEstablishes == Init => IInv
<1> SUFFICES ASSUME Init PROVE IInv
  OBVIOUS
<1>1. NoRows \in RequestRows
  <2>1. /\ <<>> \in Seq(ActionPlans) /\ <<>> \in Seq(Approvals)
        /\ {} \in SUBSET [decision : Decisions, plan_hash : ActionPlans]
    OBVIOUS
  <2>2. QED
    BY <2>1 DEF NoRows, RequestRows
<1>2. /\ db \in [Requests -> RequestRows]
      /\ \A r \in Requests : db[r] = NoRows /\ submissions[r] = <<>>
  BY <1>1 DEF Init
<1>3. policy_status \in [Policies -> DelegationStatuses]
  BY DelegationAssumption DEF Init, DelegationPolicy
<1>4. submissions \in [Requests -> Seq(Submissions)]
  BY DEF Init
<1>5. loc \in [Workers -> Locals] /\ \A w \in Workers : loc[w] = Idle /\ pc[w] = "idle"
  BY IdleType DEF Init
<1>6. TypeOK
  BY <1>2, <1>3, <1>4, <1>5, BudgetAssumption DEF Init, TypeOK, Labels
<1>7. \A r \in Requests : RowOK(db[r]) /\ SubmissionsOK(db[r], submissions[r])
  BY <1>2 DEF RowOK, NoRows, SubmissionsOK
<1>8. \A w \in Workers : HandlerOK(db, policy_status, pc[w], loc[w])
  BY <1>5 DEF HandlerOK
<1>9. QED
  BY <1>6, <1>7, <1>8 DEF IInv

LEMMA NextIsSafe == IInv /\ [Next]_vars => Safe
<1> SUFFICES ASSUME IInv, [Next]_vars PROVE Safe
  OBVIOUS
<1>1. ASSUME NEW w \in Workers, arrive(w) PROVE Safe
  BY <1>1, CreateStep, ArriveStep DEF arrive
<1>2. ASSUME NEW w \in Workers, step(w) PROVE Safe
  BY <1>2, EventSteps, ReceiptEventStep, ReadKeyStep, ReadPolicyStep, ReadPlanStep, PersistPlanStep,
     ReadApprovalStep, DecideStep, SetDecidedStep, GrantStep, RefuseStep, SetExecutingStep,
     RunToolsStep, StoreCallsStep, StoreExecutionStep, SetBlockedStep, BlockedCallsStep,
     IncidentStep, NoExecutionStep, StoreReceiptStep, SetIssuedStep, StoreKeyStep DEF step
<1>3. ASSUME UNCHANGED vars PROVE Safe
  <2>1. IInv'
    BY <1>3 DEF IInv, TypeOK, vars
  <2>2. QED
    BY <1>3, <2>1 DEF Safe, ResponsesKept, vars
<1>4. QED
  BY <1>1, <1>2, <1>3, CrashStep, RevokeStep, TickStep, SwapStep DEF Next

(* The inductive invariant holds in every state.                           *)
THEOREM Invariance == Spec => []IInv
<1>1. Init => IInv
  BY InitEstablishes
<1>2. IInv /\ [Next]_vars => IInv'
  BY NextIsSafe DEF Safe
<1>3. QED
  BY <1>1, <1>2, PTL DEF Spec

(* Type correctness: the tables, the handlers' locals and what the outside *)
(* saw keep their types.                                                   *)
THEOREM TypeCorrectness == Spec => []TypeOK
<1>1. IInv => TypeOK
  BY DEF IInv
<1>2. QED
  BY <1>1, Invariance, PTL

(* No financial action without an ALLOW for that very plan and, where the  *)
(* delegation asks for a human, an approval that binds it: for any number  *)
(* of concurrent handlers, with crashes, revocations and a moving clock.   *)
THEOREM ApprovalSafety == Spec => []SubmittedUnderApproval
<1>1. ASSUME IInv PROVE SubmittedUnderApproval
  <2>1. SUFFICES ASSUME NEW r \in Requests, NEW i \in DOMAIN submissions[r]
                 PROVE  LET s == submissions[r][i] IN
                        /\ [decision |-> "ALLOW", plan_hash |-> s.plan_hash] \in db[r].evaluations
                        /\ needs_approval(delegation(r), s.plan_hash) =>
                              \E j \in DOMAIN db[r].approved : BindsTo(db[r].approved[j], s, r)
    BY DEF SubmittedUnderApproval
  <2>2. Authorised(db[r], submissions[r][i].plan_hash, submissions[r][i].decided_at)
    BY <1>1 DEF IInv, SubmissionsOK
  <2>3. QED
    BY <2>2 DEF Authorised, Granted, BindsTo, delegation
<1>2. QED
  BY <1>1, Invariance, PTL

(* A revoked delegation starts no submission: one that is submitted was    *)
(* called for while the delegation was ACTIVE.                             *)
THEOREM RevocationSafety == Spec => []RevokedDelegationStartsNoSubmission
<1>1. IInv => RevokedDelegationStartsNoSubmission
  BY DEF IInv, SubmissionsOK, RevokedDelegationStartsNoSubmission
<1>2. QED
  BY <1>1, Invariance, PTL

(* A stored idempotent response is never replaced, whatever handlers race  *)
(* for the key.                                                            *)
THEOREM IdempotencySafety == Spec => StoredResponseIsFinal
<1>1. IInv /\ [Next]_vars => [\A r \in Requests, k \in Keys :
         db[r].idempotency[k] # None => db'[r].idempotency[k] = db[r].idempotency[k]]_vars
  BY NextIsSafe DEF Safe, ResponsesKept
<1>2. QED
  BY <1>1, Invariance, PTL DEF Spec, StoredResponseIsFinal

=============================================================================
