-------------------------- MODULE LifecycleRefinement --------------------------
(***************************************************************************)
(* Lifecycle implements its two abstract specifications.                   *)
(*                                                                         *)
(* AuthorisedExecution, for any number of requests, workers and calls,     *)
(* with crashes, revocations and swapped plans.  Most statements of a      *)
(* handler change neither grants nor submissions, and leave its call as it *)
(* was or end it: Quiet maps them to Leave or to a stutter.  What the      *)
(* other steps need comes from the invariant after the step, which says    *)
(* what a handler at set_executing rests on.                               *)
(*                                                                         *)
(* RequestFlow, when no two handlers run at once (OneHandler).  Then a     *)
(* handler finds its request as it left it (InTurn), so that the state it  *)
(* checked when the call arrived is the state it moves on from.            *)
(***************************************************************************)
EXTENDS EvidenceProofs

NoCall == [request |-> None, admitted |-> FALSE, authorised |-> FALSE, plan |-> None]

Refined == [Execution!Next]_(Execution!vars)

KeepsRows ==
    \A r \in Requests : db'[r].policy = db[r].policy /\ db'[r].approved = db[r].approved

KeepsWorld == policy_status' = policy_status /\ now' = now /\ submissions' = submissions

Alone(w) == \A v \in Workers \ {w} : pc'[v] = pc[v] /\ loc'[v] = loc[v]

LEMMA MappedRows ==
    ASSUME KeepsRows PROVE policy_of' = policy_of /\ granted' = granted
  BY DEF KeepsRows, policy_of, granted, grants_of

LEMMA MappedWorld ==
    ASSUME KeepsWorld PROVE in_force' = in_force /\ submitted' = submitted /\ now' = now
  BY DEF KeepsWorld, in_force, submitted

LEMMA OthersCall ==
    ASSUME NEW w, Alone(w), NEW v \in Workers, v # w
    PROVE  running_call(v)' = running_call(v)
  BY DEF Alone, running_call, calling, authorised, req

LEMMA MappedCalls ==
    ASSUME NEW w \in Workers, Alone(w)
    PROVE  running_calls' = [running_calls EXCEPT ![w] = running_call(w)']
  BY OthersCall DEF running_calls

LEMMA Quiet ==
    ASSUME NEW w \in Workers, KeepsRows, KeepsWorld, Alone(w),
           running_call(w)' \in {running_call(w), NoCall}
    PROVE  Refined
<1>1. /\ policy_of' = policy_of /\ granted' = granted /\ in_force' = in_force
      /\ submitted' = submitted /\ now' = now
  BY MappedRows, MappedWorld
<1>2. running_calls' = [running_calls EXCEPT ![w] = running_call(w)']
  BY MappedCalls
<1>3. CASE running_call(w)' = running_call(w)
  <2>1. running_calls' = running_calls
    BY <1>2, <1>3 DEF running_calls
  <2>2. QED
    BY <1>1, <2>1 DEF Refined, Execution!vars
<1>4. CASE running_call(w)' = NoCall
  <2>1. Execution!Leave(w)
    BY <1>1, <1>2, <1>4 DEF Execution!Leave, Execution!NoCall, NoCall
  <2>2. QED
    BY <2>1 DEF Refined, Execution!Next
<1>5. QED
  BY <1>3, <1>4

-----------------------------------------------------------------------------
(* The steps after which a handler is not on its way to the adapter.       *)

CallLabels == {"read_key", "read_policy", "read_plan", "read_approval", "decide",
               "set_executing", "started_event", "run_tools"}

LEMMA Typed ==
    ASSUME IInv
    PROVE  /\ db \in [Requests -> RequestRows]
           /\ pc \in [Workers -> Labels]
           /\ loc \in [Workers -> Locals]
  BY DEF IInv, TypeOK

LEMMA Ended ==
    ASSUME NEW w \in Workers, KeepsRows, KeepsWorld, Alone(w), pc'[w] \notin CallLabels
    PROVE  Refined
<1>1. running_call(w)' = NoCall
  BY DEF running_call, calling, authorised, CallLabels, NoCall
<1>2. QED
  BY <1>1, Quiet

(* A step of w that keeps the rows that matter, and takes it off the way   *)
(* to the adapter.                                                         *)
Harmless(w) == KeepsRows /\ KeepsWorld /\ Alone(w) /\ pc'[w] \notin CallLabels

LEMMA StateKept ==
    ASSUME IInv, NEW w, NEW s, db' = [db EXCEPT ![req(w)].state = s]
    PROVE  KeepsRows
  BY Typed DEF KeepsRows, RequestRows

LEMMA MovesOn ==
    ASSUME IInv, NEW w \in Workers, KeepsRows, KeepsWorld,
           NEW lab, lab \notin CallLabels, pc' = [pc EXCEPT ![w] = lab],
           NEW l, loc' = [loc EXCEPT ![w] = l]
    PROVE  Harmless(w)
  BY Typed DEF Harmless, Alone

LEMMA Leaves ==
    ASSUME IInv, NEW w \in Workers, KeepsRows, KeepsWorld, finish(w)
    PROVE  Harmless(w)
  BY MovesOn DEF finish, CallLabels

LEMMA HarmlessSteps ==
    ASSUME IInv, NEW w \in Workers
    PROVE
      /\ received_event(w) => Harmless(w)
      /\ persist_plan(w) => Harmless(w)
      /\ plan_event(w) => Harmless(w)
      /\ evaluated_event(w) => Harmless(w)
      /\ set_decided(w) => Harmless(w)
      /\ approval_event(w) => Harmless(w)
      /\ granted_event(w) => Harmless(w)
      /\ refuse(w) => Harmless(w)
      /\ refused_event(w) => Harmless(w)
      /\ store_calls(w) => Harmless(w)
      /\ store_execution(w) => Harmless(w)
      /\ completed_event(w) => Harmless(w)
      /\ set_blocked(w) => Harmless(w)
      /\ blocked_calls(w) => Harmless(w)
      /\ blocked_event(w) => Harmless(w)
      /\ incident(w) => Harmless(w)
      /\ incident_event(w) => Harmless(w)
      /\ no_execution(w) => Harmless(w)
      /\ receipt_event(w) => Harmless(w)
      /\ store_receipt(w) => Harmless(w)
      /\ set_issued(w) => Harmless(w)
      /\ store_key(w) => Harmless(w)
<1>1. ASSUME received_event(w) PROVE Harmless(w)
  BY <1>1, Typed DEF Harmless, KeepsRows, KeepsWorld, Alone, CallLabels, RequestRows, Labels,
     received_event, append_event, finish, world
<1>2. ASSUME persist_plan(w) PROVE Harmless(w)
  BY <1>2, Typed DEF Harmless, KeepsRows, KeepsWorld, Alone, CallLabels, RequestRows, Labels,
     persist_plan, goto, world
<1>3. ASSUME plan_event(w) PROVE Harmless(w)
  BY <1>3, Typed DEF Harmless, KeepsRows, KeepsWorld, Alone, CallLabels, RequestRows, Labels,
     plan_event, append_event, finish, world
<1>4. ASSUME evaluated_event(w) PROVE Harmless(w)
  BY <1>4, Typed DEF Harmless, KeepsRows, KeepsWorld, Alone, CallLabels, RequestRows, Labels,
     evaluated_event, append_event, goto, world
<1>5. ASSUME set_decided(w) PROVE Harmless(w)
  <2>1. KeepsWorld
    BY <1>5 DEF set_decided, world, KeepsWorld
  <2>2. CASE loc[w].decision = "ALLOW"
    <3>1. db' = [db EXCEPT ![req(w)].state = state_written(w, "ALLOWED")] /\ finish(w)
      BY <1>5, <2>2 DEF set_decided
    <3>2. QED
      BY <2>1, <3>1, StateKept, Leaves
  <2>3. CASE loc[w].decision # "ALLOW"
    <3> DEFINE lab == IF blocks(loc[w].decision) THEN "blocked_calls" ELSE "approval_event"
    <3>1. write_state(w, decided_state(loc[w].decision)) /\ pc' = [pc EXCEPT ![w] = lab]
      BY <1>5, <2>3 DEF set_decided, goto
    <3>2. lab \notin CallLabels
      BY DEF CallLabels
    <3> HIDE DEF lab
    <3>3. QED
      BY <2>1, <3>1, <3>2, StateKept, MovesOn DEF write_state
  <2>4. QED
    BY <2>2, <2>3
<1>6. ASSUME approval_event(w) PROVE Harmless(w)
  BY <1>6, Typed DEF Harmless, KeepsRows, KeepsWorld, Alone, CallLabels, RequestRows, Labels,
     approval_event, append_event, finish, world
<1>7. ASSUME granted_event(w) PROVE Harmless(w)
  BY <1>7, Typed DEF Harmless, KeepsRows, KeepsWorld, Alone, CallLabels, RequestRows, Labels,
     granted_event, append_event, finish, world
<1>8. ASSUME refuse(w) PROVE Harmless(w)
  BY <1>8, Typed DEF Harmless, KeepsRows, KeepsWorld, Alone, CallLabels, RequestRows, Labels,
     refuse, goto, world
<1>9. ASSUME refused_event(w) PROVE Harmless(w)
  BY <1>9, Typed DEF Harmless, KeepsRows, KeepsWorld, Alone, CallLabels, RequestRows, Labels,
     refused_event, append_event, finish, world
<1>10. ASSUME store_calls(w) PROVE Harmless(w)
  BY <1>10, Typed DEF Harmless, KeepsRows, KeepsWorld, Alone, CallLabels, RequestRows, Labels,
     store_calls, goto, world
<1>11. ASSUME store_execution(w) PROVE Harmless(w)
  BY <1>11, Typed DEF Harmless, KeepsRows, KeepsWorld, Alone, CallLabels, RequestRows, Labels,
     store_execution, goto, world
<1>12. ASSUME completed_event(w) PROVE Harmless(w)
  BY <1>12, Typed DEF Harmless, KeepsRows, KeepsWorld, Alone, CallLabels, RequestRows, Labels,
     completed_event, append_event, goto, world
<1>13. ASSUME set_blocked(w) PROVE Harmless(w)
  BY <1>13, Typed DEF Harmless, KeepsRows, KeepsWorld, Alone, CallLabels, RequestRows, Labels,
     set_blocked, write_state, goto, world
<1>14. ASSUME blocked_calls(w) PROVE Harmless(w)
  BY <1>14, Typed DEF Harmless, KeepsRows, KeepsWorld, Alone, CallLabels, RequestRows, Labels,
     blocked_calls, goto, world
<1>15. ASSUME blocked_event(w) PROVE Harmless(w)
  BY <1>15, Typed DEF Harmless, KeepsRows, KeepsWorld, Alone, CallLabels, RequestRows, Labels,
     blocked_event, append_event, goto, world
<1>16. ASSUME incident(w) PROVE Harmless(w)
  BY <1>16, Typed DEF Harmless, KeepsRows, KeepsWorld, Alone, CallLabels, RequestRows, Labels,
     incident, goto, world
<1>17. ASSUME incident_event(w) PROVE Harmless(w)
  BY <1>17, Typed DEF Harmless, KeepsRows, KeepsWorld, Alone, CallLabels, RequestRows, Labels,
     incident_event, append_event, goto, world
<1>18. ASSUME no_execution(w) PROVE Harmless(w)
  BY <1>18, Typed DEF Harmless, KeepsRows, KeepsWorld, Alone, CallLabels, RequestRows, Labels,
     no_execution, goto, world
<1>19. ASSUME receipt_event(w) PROVE Harmless(w)
  BY <1>19, Typed DEF Harmless, KeepsRows, KeepsWorld, Alone, CallLabels, RequestRows, Labels,
     receipt_event, append_event, goto, world
<1>20. ASSUME store_receipt(w) PROVE Harmless(w)
  BY <1>20, Typed DEF Harmless, KeepsRows, KeepsWorld, Alone, CallLabels, RequestRows, Labels,
     store_receipt, goto, world
<1>21. ASSUME set_issued(w) PROVE Harmless(w)
  <2>1. KeepsWorld
    BY <1>21 DEF set_issued, KeepsWorld
  <2>2. CASE executes(w) /\ loc[w].key # None
    <3>1. write_state(w, "RECEIPT_ISSUED") /\ pc' = [pc EXCEPT ![w] = "store_key"]
      BY <1>21, <2>2 DEF set_issued, goto
    <3>2. QED
      BY <2>1, <3>1, StateKept, MovesOn DEF write_state, CallLabels
  <2>3. CASE ~(executes(w) /\ loc[w].key # None)
    <3>1. /\ db' = [db EXCEPT ![req(w)].state = state_written(w, "RECEIPT_ISSUED")]
          /\ finish(w)
      BY <1>21, <2>3 DEF set_issued
    <3>2. QED
      BY <2>1, <3>1, StateKept, Leaves
  <2>4. QED
    BY <2>2, <2>3
<1>22. ASSUME store_key(w) PROVE Harmless(w)
  <2>1. KeepsWorld /\ Alone(w) /\ pc'[w] \notin CallLabels
    BY <1>22, Typed DEF KeepsWorld, Alone, CallLabels, store_key, finish
  <2>2. CASE db[req(w)].idempotency[loc[w].key] = None
    <3> DEFINE kept == [db[req(w)].idempotency EXCEPT ![loc[w].key] = receipt(w)]
    <3>1. db' = [db EXCEPT ![req(w)].idempotency = kept]
      BY <1>22, <2>2 DEF store_key
    <3> HIDE DEF kept
    <3>2. KeepsRows
      BY <3>1, Typed DEF KeepsRows, RequestRows
    <3>3. QED
      BY <2>1, <3>2 DEF Harmless
  <2>3. CASE db[req(w)].idempotency[loc[w].key] # None
    BY <1>22, <2>1, <2>3 DEF Harmless, KeepsRows, store_key
  <2>4. QED
    BY <2>2, <2>3
<1>23. QED
  BY <1>1, <1>2, <1>3, <1>4, <1>5, <1>6, <1>7, <1>8, <1>9, <1>10, <1>11, <1>12, <1>13, <1>14, <1>15, <1>16, <1>17, <1>18, <1>19, <1>20, <1>21, <1>22

-----------------------------------------------------------------------------
(* The steps of a call on its way: the abstract call stays as it is, or    *)
(* turns out to be of another operation, which is no call.                 *)

LEMMA OnTheWay ==
    ASSUME IInv, NEW w \in Workers, KeepsRows, KeepsWorld,
           NEW lab, pc' = [pc EXCEPT ![w] = lab],
           NEW l, loc' = [loc EXCEPT ![w] = l],
           l.op = loc[w].op, l.request = loc[w].request, l.plan = loc[w].plan,
           l.active_at_start = loc[w].active_at_start,
           \/ pc[w] = "read_key" /\ lab = "read_policy"
           \/ pc[w] = "read_policy" /\ lab = "read_plan"
           \/ pc[w] = "read_approval" /\ lab = "decide"
           \/ pc[w] \in Executing /\ lab \in Executing
    PROVE  Refined
<1>1. Alone(w) /\ pc'[w] = lab /\ loc'[w] = l
  BY Typed DEF Alone
<1>2. running_call(w)' \in {running_call(w), NoCall}
  BY <1>1 DEF running_call, calling, authorised, req, NoCall, Executing
<1>3. QED
  BY <1>1, <1>2, Quiet

LEMMA ReadsRefine ==
    ASSUME IInv, NEW w \in Workers
    PROVE  /\ read_policy(w) => Refined
           /\ read_approval(w) => Refined
           /\ set_executing(w) => Refined
           /\ started_event(w) => Refined
<1>1. loc[w] \in Locals
  BY Typed
<1>2. ASSUME read_policy(w) PROVE Refined
  <2> DEFINE l == [loc[w] EXCEPT !.policy_status = policy_status[policy_id(w)]]
  <2>1. /\ KeepsRows /\ KeepsWorld /\ pc[w] = "read_policy"
        /\ pc' = [pc EXCEPT ![w] = "read_plan"] /\ loc' = [loc EXCEPT ![w] = l]
    BY <1>2 DEF read_policy, goto, KeepsRows, KeepsWorld, world
  <2>2. /\ l.op = loc[w].op /\ l.request = loc[w].request /\ l.plan = loc[w].plan
        /\ l.active_at_start = loc[w].active_at_start
    BY <1>1 DEF Locals
  <2> HIDE DEF l
  <2>3. QED
    BY <2>1, <2>2, OnTheWay
<1>3. ASSUME read_approval(w) PROVE Refined
  <2> DEFINE rows == db[req(w)].approved
             approval == IF rows = <<>> THEN None ELSE rows[Len(rows)]
             l == [loc[w] EXCEPT !.approval = approval]
  <2>1. /\ KeepsRows /\ KeepsWorld /\ pc[w] = "read_approval"
        /\ pc' = [pc EXCEPT ![w] = "decide"] /\ loc' = [loc EXCEPT ![w] = l]
    BY <1>3 DEF read_approval, goto, KeepsRows, KeepsWorld, world
  <2>2. /\ l.op = loc[w].op /\ l.request = loc[w].request /\ l.plan = loc[w].plan
        /\ l.active_at_start = loc[w].active_at_start
    BY <1>1 DEF Locals
  <2> HIDE DEF l
  <2>3. QED
    BY <2>1, <2>2, OnTheWay
<1>4. ASSUME set_executing(w) PROVE Refined
  <2> DEFINE l == [loc[w] EXCEPT !.state = "EXECUTING"]
  <2>1. /\ KeepsWorld /\ pc[w] = "set_executing"
        /\ db' = [db EXCEPT ![req(w)].state = state_written(w, "EXECUTING")]
        /\ pc' = [pc EXCEPT ![w] = "started_event"] /\ loc' = [loc EXCEPT ![w] = l]
    BY <1>4 DEF set_executing, write_state, goto, KeepsWorld, world
  <2>2. KeepsRows
    BY <2>1, StateKept
  <2>3. /\ l.op = loc[w].op /\ l.request = loc[w].request /\ l.plan = loc[w].plan
        /\ l.active_at_start = loc[w].active_at_start
    BY <1>1 DEF Locals
  <2> HIDE DEF l
  <2>4. QED
    BY <2>1, <2>2, <2>3, OnTheWay DEF Executing
<1>5. ASSUME started_event(w) PROVE Refined
  <2>1. /\ KeepsRows /\ KeepsWorld /\ pc[w] = "started_event"
        /\ pc' = [pc EXCEPT ![w] = "run_tools"] /\ loc' = [loc EXCEPT ![w] = loc[w]]
    BY <1>5, Typed DEF started_event, append_event, goto, KeepsRows, KeepsWorld, world, RequestRows
  <2>2. QED
    BY <2>1, OnTheWay DEF Executing
<1>6. QED
  BY <1>2, <1>3, <1>4, <1>5

LEMMA ReadKeyRefines == ASSUME IInv, NEW w \in Workers, read_key(w) PROVE Refined
<1>1. KeepsRows /\ KeepsWorld /\ pc[w] = "read_key"
  BY DEF read_key, KeepsRows, KeepsWorld
<1>2. CASE finish(w)
  <2>1. Harmless(w)
    BY <1>1, <1>2, Leaves
  <2>2. QED
    BY <2>1, Ended DEF Harmless
<1>3. CASE goto(w, "read_policy") /\ UNCHANGED loc
  <2>1. pc' = [pc EXCEPT ![w] = "read_policy"] /\ loc' = [loc EXCEPT ![w] = loc[w]]
    BY <1>3, Typed DEF goto
  <2>2. QED
    BY <1>1, <2>1, OnTheWay
<1>4. finish(w) \/ (goto(w, "read_policy") /\ UNCHANGED loc)
  BY DEF read_key
<1>5. QED
  BY <1>2, <1>3, <1>4

(* Past the plan, only an execution goes on as a call.                     *)
LEMMA ReadPlanRefines == ASSUME IInv, NEW w \in Workers, read_plan(w) PROVE Refined
<1>1. KeepsRows /\ KeepsWorld /\ pc[w] = "read_plan"
  BY DEF read_plan, KeepsRows, KeepsWorld, world
<1>2. CASE finish(w)
  <2>1. Harmless(w)
    BY <1>1, <1>2, Leaves
  <2>2. QED
    BY <2>1, Ended DEF Harmless
<1>3. CASE ~finish(w)
  <2> DEFINE rows == db[req(w)].plans
             plan == IF rows = <<>> THEN None ELSE rows[1]
             l == [loc[w] EXCEPT !.plan = plan]
  <2>1. goto(w, after_plan(loc[w].op)) /\ loc' = [loc EXCEPT ![w] = l]
    BY <1>3 DEF read_plan
  <2>2. loc[w].op \in Operations
    BY <1>1, Running DEF Knows, Called
  <2>3. /\ l.op = loc[w].op /\ l.request = loc[w].request
        /\ l.active_at_start = loc[w].active_at_start
    BY Typed DEF Locals
  <2> HIDE DEF l
  <2>4. /\ Alone(w) /\ pc'[w] = after_plan(loc[w].op) /\ loc'[w] = l
    BY <2>1, Typed DEF Alone, goto
  <2>5. running_call(w)' \in {running_call(w), NoCall}
    <3>1. CASE loc[w].op = "execute"
      BY <1>1, <2>3, <2>4, <3>1
         DEF running_call, calling, authorised, req, NoCall, after_plan
    <3>2. CASE loc[w].op # "execute"
      <4>1. pc'[w] \in {"persist_plan", "decide", "grant", "refuse"}
            /\ (pc'[w] = "decide" => loc'[w].op = "evaluate")
        BY <2>2, <2>3, <2>4, <3>2 DEF Operations, after_plan
      <4>2. QED
        BY <4>1 DEF running_call, calling, authorised, NoCall
    <3>3. QED
      BY <3>1, <3>2
  <2>6. QED
    BY <1>1, <2>4, <2>5, Quiet
<1>4. QED
  BY <1>2, <1>3

-----------------------------------------------------------------------------
(* The steps that are actions of AuthorisedExecution.                      *)

LEMMA MappedAt ==
    ASSUME IInv, NEW w \in Workers, pc[w] # "idle"
    PROVE  /\ req(w) # None /\ req(w) \in Requests
           /\ policy_of[req(w)] = db[req(w)].policy
           /\ policy_of[req(w)] # None
           /\ granted[req(w)] = grants_of(db[req(w)])
           /\ running_calls[w] = running_call(w)
           /\ db[req(w)].state # None
  BY Running, NoneAssumption DEF Knows, policy_of, granted, running_calls

LEMMA GrantRefines == ASSUME IInv, NEW w \in Workers, grant(w) PROVE Refined
<1> DEFINE r == req(w)
           plan == loc[w].plan
           a == [status |-> "APPROVED", approved_plan_hash |-> plan,
                 policy_version |-> Delegations[policy_id(w)].version,
                 expires_at |-> now + ApprovalTTL]
           g == [plan |-> plan, until |-> now + ApprovalTTL]
           old == db[r].approved
           s == state_written(w, "APPROVED")
<1>1. /\ pc[w] = "grant" /\ pc[w] # "idle"
      /\ db' = [db EXCEPT ![r].approved = Append(old, a), ![r].state = s]
      /\ pc' = [pc EXCEPT ![w] = "granted_event"] /\ loc' = loc
      /\ KeepsWorld
  BY DEF grant, goto, KeepsWorld, world
<1>2. r \in Requests /\ db[r] \in RequestRows /\ old \in Seq(Approvals) /\ plan \in ActionPlans
  BY <1>1, Running DEF Knows, WithPlan, RequestRows
<1>3. db \in [Requests -> RequestRows]
  BY Typed
<1>4. a.approved_plan_hash = plan /\ a.expires_at = now + ApprovalTTL
  OBVIOUS
<1> HIDE DEF a, s
<1>5. /\ \A q \in Requests \ {r} : db'[q] = db[q]
      /\ db'[r].policy = db[r].policy /\ db'[r].approved = Append(old, a)
  BY <1>1, <1>2, <1>3 DEF RequestRows
<1> HIDE DEF r, old, plan
<1>6. grants_of(db'[r]) = grants_of(db[r]) \cup {g}
  <2>1. /\ DOMAIN Append(old, a) = DOMAIN old \cup {Len(old) + 1}
        /\ \A j \in DOMAIN old : Append(old, a)[j] = old[j]
        /\ Append(old, a)[Len(old) + 1] = a
    BY <1>2
  <2>2. old = db[r].approved
    BY DEF old
  <2>3. QED
    BY <1>4, <1>5, <2>1, <2>2 DEF grants_of
<1>7. policy_of' = policy_of
  BY <1>5 DEF policy_of
<1>8. granted' = [granted EXCEPT ![r] = @ \cup {g}]
  BY <1>2, <1>5, <1>6 DEF granted
<1>9. running_calls' = running_calls
  <2>1. ASSUME NEW v \in Workers PROVE running_call(v)' = running_call(v)
    <3>1. CASE v = w
      <4>1. pc'[v] = "granted_event"
        BY <1>1, Typed, <3>1
      <4>2. QED
        BY <1>1, <3>1, <4>1 DEF running_call, calling, authorised
    <3>2. CASE v # w
      <4>1. Alone(w)
        BY <1>1, Typed DEF Alone
      <4>2. QED
        BY <3>2, <4>1, OthersCall
    <3>3. QED
      BY <3>1, <3>2
  <2>2. QED
    BY <2>1 DEF running_calls
<1>10. policy_of[r] # None
  BY <1>1, MappedAt DEF r
<1>11. in_force' = in_force /\ submitted' = submitted /\ now' = now
  BY <1>1, MappedWorld
<1>12. Execution!Grant(r, plan)
  BY <1>7, <1>8, <1>9, <1>10, <1>11 DEF Execution!Grant
<1>13. QED
  BY <1>2, <1>12 DEF Refined, Execution!Next

(* The invariant after the step says what the authorisation rests on.      *)
LEMMA DecideRefines == ASSUME IInv, NEW w \in Workers, decide_and_store(w) PROVE Refined
<1> DEFINE r == req(w)
           d == decision(context(w))
           l == [loc[w] EXCEPT !.decision = d, !.decided_at = now]
           lab == IF loc[w].op = "evaluate" THEN "evaluated_event"
                  ELSE IF d = "ALLOW" THEN "set_executing" ELSE "set_blocked"
           e == db[r].evaluations \cup {[decision |-> d, plan_hash |-> loc[w].plan]}
<1>1. /\ pc[w] = "decide" /\ pc[w] # "idle"
      /\ db' = [db EXCEPT ![r].evaluations = e]
      /\ pc' = [pc EXCEPT ![w] = lab] /\ loc' = [loc EXCEPT ![w] = l]
      /\ KeepsWorld
  BY DEF decide_and_store, goto, KeepsWorld, world
<1>2. lab \in {"evaluated_event", "set_executing", "set_blocked"}
      /\ (lab = "set_executing" => loc[w].op # "evaluate")
  OBVIOUS
<1>3. loc[w] \in Locals /\ r \in Requests /\ loc[w].plan \in ActionPlans
  BY <1>1, Running DEF Knows, WithPlan
<1>4. l.plan = loc[w].plan /\ l.active_at_start = loc[w].active_at_start /\ l.request = r
      /\ l.decided_at = now
  <2> HIDE DEF d
  <2>1. QED
    BY <1>3 DEF Locals, req
<1> HIDE DEF d, l, lab, e
<1>5. /\ KeepsRows /\ Alone(w) /\ pc'[w] = lab /\ loc'[w] = l
  BY <1>1, Typed DEF KeepsRows, Alone, RequestRows
<1>6. CASE lab # "set_executing"
  BY <1>1, <1>2, <1>5, <1>6, Ended DEF CallLabels
<1>7. CASE lab = "set_executing"
  <2> DEFINE plan == loc[w].plan
  <2>1. Knows(db'[r], policy_status', "set_executing", l)
    <3>1. IInv'
      BY NextIsSafe DEF Safe, Next, step
    <3>2. HandlerOK(db', policy_status', "set_executing", l)
      BY <1>5, <1>7, <3>1 DEF IInv
    <3>3. QED
      BY <1>4, <3>2 DEF HandlerOK
  <2>2. l.active_at_start = TRUE /\ Authorised(db'[r], plan, now)
    BY <1>4, <2>1 DEF Knows, Executing
  <2>3. db'[r].policy = db[r].policy /\ db'[r].approved = db[r].approved
    BY <1>3, <1>5 DEF KeepsRows
  <2>4. running_call(w) = [request |-> r, admitted |-> TRUE, authorised |-> FALSE, plan |-> None]
    <3>1. calling(w) /\ authorised(w) = FALSE
      BY <1>1, <1>2, <1>7 DEF calling, authorised
    <3>2. loc[w].active_at_start = TRUE
      BY <1>4, <2>2
    <3>3. QED
      BY <3>1, <3>2 DEF running_call
  <2>5. running_call(w)' = [request |-> r, admitted |-> TRUE, authorised |-> TRUE, plan |-> plan]
    BY <1>4, <1>5, <1>7, <2>2 DEF running_call, calling, authorised, req
  <2>6. needs_human(policy_of[r], plan) =>
          \E g \in granted[r] : g.plan = plan /\ now <= g.until
    <3>1. ASSUME needs_human(policy_of[r], plan)
          PROVE  \E a \in Granted(db[r]) : a.approved_plan_hash = plan /\ now <= a.expires_at
      BY <1>1, <2>2, <2>3, <3>1, MappedAt DEF Authorised, Granted, needs_human
    <3>2. \A a \in Granted(db[r]) :
            [plan |-> a.approved_plan_hash, until |-> a.expires_at] \in granted[r]
      BY <1>1, MappedAt DEF Granted, grants_of
    <3>3. QED
      BY <3>1, <3>2
  <2>7. /\ policy_of' = policy_of /\ granted' = granted /\ in_force' = in_force
        /\ submitted' = submitted /\ now' = now
    BY <1>1, <1>5, MappedRows, MappedWorld
  <2>8. running_calls' = [running_calls EXCEPT ![w] =
                            [request |-> r, admitted |-> TRUE, authorised |-> TRUE,
                             plan |-> plan]]
    BY <1>5, <2>5, MappedCalls
  <2>9. running_calls[w] = running_call(w)
    BY DEF running_calls
  <2>10. Execution!Authorise(w, plan)
    BY <1>1, <2>4, <2>6, <2>7, <2>8, <2>9, MappedAt DEF Execution!Authorise
  <2>11. QED
    BY <1>3, <2>10 DEF Refined, Execution!Next
<1>8. QED
  BY <1>6, <1>7

LEMMA RunToolsRefines == ASSUME IInv, NEW w \in Workers, run_tools(w) PROVE Refined
<1> DEFINE r == req(w)
           plan == loc[w].plan
           l == [loc[w] EXCEPT !.outcome = gateway_run(w).outcome]
           s == [plan_hash |-> plan, decided_at |-> loc[w].decided_at,
                 active_at_start |-> loc[w].active_at_start]
           list == submissions[r]
<1>1. /\ pc[w] = "run_tools" /\ pc[w] # "idle" /\ db' = db
      /\ policy_status' = policy_status /\ now' = now
      /\ pc' = [pc EXCEPT ![w] = "store_calls"] /\ loc' = [loc EXCEPT ![w] = l]
      /\ \/ submissions' = submissions
         \/ submissions' = [submissions EXCEPT ![r] = Append(list, s)]
  BY DEF run_tools, goto, submitted_plan
<1> HIDE DEF l
<1>2. KeepsRows /\ Alone(w) /\ pc'[w] = "store_calls"
  BY <1>1, Typed DEF KeepsRows, Alone
<1>3. CASE submissions' = submissions
  BY <1>1, <1>2, <1>3, Ended DEF KeepsWorld, CallLabels
<1>4. CASE submissions' = [submissions EXCEPT ![r] = Append(list, s)]
  <2>1. r \in Requests /\ list \in Seq(Submissions) /\ s \in Submissions
        /\ submissions \in [Requests -> Seq(Submissions)]
        /\ s.plan_hash = plan
    BY <1>1, Running DEF Knows, WithPlan, Decided, Executing, Submissions, IInv, TypeOK
  <2> HIDE DEF s
  <2>2. running_call(w) = [request |-> r, admitted |-> loc[w].active_at_start,
                           authorised |-> TRUE, plan |-> plan]
    BY <1>1 DEF running_call, calling, authorised
  <2>3. running_call(w)' = NoCall
    BY <1>2 DEF running_call, calling, authorised, NoCall
  <2>4. running_calls' = [running_calls EXCEPT ![w] = NoCall]
    BY <1>2, <2>3, MappedCalls
  <2> DEFINE mapped(q) == [i \in DOMAIN submissions[q] |-> submissions[q][i].plan_hash]
  <2>5. submitted = [q \in Requests |-> mapped(q)]
    BY DEF submitted
  <2>6. submitted' = [submitted EXCEPT ![r] = Append(@, plan)]
    <3>1. [i \in DOMAIN Append(list, s) |-> Append(list, s)[i].plan_hash]
            = Append(mapped(r), plan)
      <4> DEFINE more == Append(list, s)
                 left == [i \in DOMAIN more |-> more[i].plan_hash]
      <4>1. /\ more \in Seq(Submissions) /\ Len(more) = Len(list) + 1
            /\ DOMAIN more = 1 .. Len(list) + 1
            /\ \A i \in 1 .. Len(list) : more[i] = list[i]
            /\ more[Len(list) + 1] = s
        BY <2>1, AppendProperties
      <4>2. mapped(r) = [i \in 1 .. Len(list) |-> list[i].plan_hash]
        BY <2>1
      <4>3. mapped(r) \in Seq(ActionPlans) /\ Len(mapped(r)) = Len(list)
        <5>1. \A i \in 1 .. Len(list) : list[i].plan_hash \in ActionPlans
          <6>1. \A i \in 1 .. Len(list) : list[i] \in Submissions
            BY <2>1
          <6>2. QED
            BY <6>1 DEF Submissions
        <5>2. Len(list) \in Nat
          BY <2>1
        <5> HIDE DEF mapped, list
        <5>3. QED
          BY <4>2, <5>1, <5>2
      <4>4. plan \in ActionPlans
        BY <2>1 DEF Submissions
      <4> HIDE DEF mapped, more, plan, list
      <4>5. /\ DOMAIN Append(mapped(r), plan) = 1 .. Len(list) + 1
            /\ \A i \in 1 .. Len(list) : Append(mapped(r), plan)[i] = mapped(r)[i]
            /\ Append(mapped(r), plan)[Len(list) + 1] = plan
            /\ Append(mapped(r), plan) \in Seq(ActionPlans)
            /\ Len(list) \in Nat
        BY <2>1, <4>3, <4>4, AppendProperties
      <4>6. \A i \in 1 .. Len(list) + 1 : left[i] = Append(mapped(r), plan)[i]
        BY <2>1, <4>1, <4>2, <4>5
      <4>7. Append(mapped(r), plan) =
              [i \in 1 .. Len(list) + 1 |-> Append(mapped(r), plan)[i]]
        <5> DEFINE t == Append(mapped(r), plan)
        <5>1. t \in Seq(ActionPlans) /\ DOMAIN t = 1 .. Len(list) + 1
          BY <4>5
        <5>2. t = [i \in DOMAIN t |-> t[i]]
          <6> HIDE DEF t
          <6>1. QED
            BY <5>1
        <5>3. QED
          BY <5>1, <5>2
      <4>8. QED
        BY <4>1, <4>6, <4>7 DEF more
    <3>2. /\ submissions'[r] = Append(list, s)
          /\ \A q \in Requests \ {r} : submissions'[q] = submissions[q]
      BY <1>4, <2>1
    <3> HIDE DEF list
    <3> DEFINE after(q) == [i \in DOMAIN submissions'[q] |-> submissions'[q][i].plan_hash]
    <3>3. submitted' = [q \in Requests |-> after(q)]
      BY DEF submitted
    <3>4. after(r) = Append(mapped(r), plan)
      BY <3>1, <3>2
    <3>5. \A q \in Requests \ {r} : after(q) = mapped(q)
      BY <3>2
    <3> HIDE DEF after, mapped
    <3>6. submitted[r] = mapped(r) /\ r \in Requests
      BY <2>1, <2>5
    <3>7. QED
      BY <2>5, <3>3, <3>4, <3>5, <3>6
  <2>7. policy_of' = policy_of /\ granted' = granted /\ in_force' = in_force /\ now' = now
    BY <1>1, <1>2, MappedRows DEF in_force
  <2>8. running_calls[w] = running_call(w)
    BY DEF running_calls
  <2>9. Execution!Submit(w)
    <3> HIDE DEF r, plan
    <3>1. running_calls[w].request = r /\ running_calls[w].plan = plan
          /\ running_calls[w].authorised
      BY <2>2, <2>8
    <3>2. QED
      BY <2>4, <2>6, <2>7, <3>1 DEF Execution!Submit, Execution!NoCall, NoCall
  <2>10. QED
    BY <2>9 DEF Refined, Execution!Next
<1>5. QED
  BY <1>1, <1>3, <1>4

LEMMA CreateRefines ==
    ASSUME IInv, NEW w \in Workers, NEW r \in Requests, NEW p \in Policies, NEW d \in Documents,
           create_request(w, r, p, d)
    PROVE  Refined
<1> DEFINE row == [NoRows EXCEPT !.state = "DRAFT", !.policy = p, !.document = d]
           l == [Idle EXCEPT !.op = "create", !.request = r, !.state = "DRAFT"]
<1>1. /\ pc[w] = "idle" /\ db[r].state = None
      /\ db' = [db EXCEPT ![r] = row]
      /\ loc' = [loc EXCEPT ![w] = l] /\ pc' = [pc EXCEPT ![w] = "received_event"]
      /\ KeepsWorld
  BY DEF create_request, goto, KeepsWorld, world
<1>2. db[r] = NoRows
  BY <1>1 DEF IInv, RowOK
<1>3. row.policy = p /\ row.approved = <<>> /\ NoRows.policy = None /\ NoRows.approved = <<>>
  BY DEF NoRows
<1> HIDE DEF row, l
<1>4. db'[r] = row /\ \A q \in Requests \ {r} : db'[q] = db[q]
  BY <1>1, Typed
<1>5. policy_of' = [policy_of EXCEPT ![r] = p] /\ policy_of[r] = None
  BY <1>2, <1>3, <1>4 DEF policy_of
<1>6. granted' = granted
  <2>1. ASSUME NEW q \in Requests PROVE db'[q].approved = db[q].approved
    BY <1>2, <1>3, <1>4
  <2>2. QED
    BY <2>1 DEF granted, grants_of
<1>7. running_calls' = running_calls
  <2>1. Alone(w) /\ pc'[w] = "received_event"
    BY <1>1, Typed DEF Alone
  <2>2. running_call(w)' = NoCall /\ running_call(w) = NoCall
    BY <1>1, <2>1 DEF running_call, calling, authorised, NoCall
  <2>3. QED
    BY <2>1, <2>2, MappedCalls DEF running_calls
<1>8. in_force' = in_force /\ submitted' = submitted /\ now' = now
  BY <1>1, MappedWorld
<1>9. Execution!Open(r, p)
  BY <1>5, <1>6, <1>7, <1>8 DEF Execution!Open
<1>10. QED
  BY <1>9 DEF Refined, Execution!Next

(* A call that begins is admitted as its delegation is then.               *)
LEMMA CallRefines ==
    ASSUME IInv, NEW w \in Workers, pc[w] = "idle", NEW r \in Requests, db[r].state # None,
           NEW l, l.request = r, l.active_at_start = (policy_status[db[r].policy] = "ACTIVE"),
           NEW lab \in {"read_key", "read_policy"}, lab = "read_key" => l.op = "execute",
           loc' = [loc EXCEPT ![w] = l], pc' = [pc EXCEPT ![w] = lab], db' = db, KeepsWorld
    PROVE  Refined
<1> DEFINE active == policy_status[db[r].policy] = "ACTIVE"
<1>1. KeepsRows /\ Alone(w) /\ pc'[w] = lab /\ loc'[w] = l
  BY Typed DEF KeepsRows, Alone
<1>2. running_call(w) = NoCall
  BY DEF running_call, calling, authorised, NoCall
<1>3. CASE l.op # "execute"
  <2>1. running_call(w)' = NoCall
    <3>1. lab = "read_policy" /\ loc'[w].op # "execute"
      BY <1>1, <1>3
    <3>2. ~calling(w)'
      BY <1>1, <3>1 DEF calling, authorised
    <3>3. QED
      BY <3>2 DEF running_call, NoCall
  <2>2. QED
    BY <1>1, <2>1, Quiet
<1>4. CASE l.op = "execute"
  <2>1. running_call(w)' = [request |-> r, admitted |-> active, authorised |-> FALSE,
                            plan |-> None]
    <3>1. calling(w)' /\ authorised(w)' = FALSE
      BY <1>1, <1>4 DEF calling, authorised
    <3>2. req(w)' = r /\ loc'[w].active_at_start = active
      BY <1>1 DEF req
    <3>3. QED
      BY <3>1, <3>2 DEF running_call
  <2>2. db[r].policy \in Policies /\ policy_of[r] = db[r].policy /\ policy_of[r] # None
    BY NoneAssumption DEF IInv, RowOK, policy_of
  <2>3. in_force[policy_of[r]] = active
    BY <2>2 DEF in_force
  <2>4. running_calls[w] = NoCall
    BY <1>2 DEF running_calls
  <2> HIDE DEF active
  <2>5. running_calls' = [running_calls EXCEPT ![w] =
                            [NoCall EXCEPT !.request = r, !.admitted = in_force[policy_of[r]]]]
    <3>1. running_calls' = [running_calls EXCEPT ![w] = running_call(w)']
      BY <1>1, MappedCalls
    <3>2. QED
      BY <2>1, <2>3, <3>1 DEF NoCall
  <2>6. /\ policy_of' = policy_of /\ granted' = granted /\ in_force' = in_force
        /\ submitted' = submitted /\ now' = now
    BY <1>1, MappedRows, MappedWorld
  <2>7. Execution!Arrive(w, r)
    BY <2>2, <2>4, <2>5, <2>6 DEF Execution!Arrive, Execution!NoCall, NoCall
  <2>8. QED
    BY <2>7 DEF Refined, Execution!Next
<1>5. QED
  BY <1>3, <1>4

LEMMA ArriveRefines ==
    ASSUME IInv, NEW w \in Workers, NEW r \in Requests, NEW op \in Operations,
           NEW key \in Keys \cup {None}, read_request(w, r, op, key)
    PROVE  Refined
<1> DEFINE l == [Idle EXCEPT !.op = op, !.request = r, !.key = key, !.state = db[r].state,
                             !.active_at_start = policy_status[db[r].policy] = "ACTIVE"]
           lab == IF key # None THEN "read_key" ELSE "read_policy"
<1>1. /\ pc[w] = "idle" /\ db[r].state # None
      /\ loc' = [loc EXCEPT ![w] = l] /\ pc' = [pc EXCEPT ![w] = lab] /\ db' = db
      /\ KeepsWorld /\ (key # None => op = "execute")
  BY DEF read_request, goto, KeepsWorld
<1>2. /\ l.op = op /\ l.request = r
      /\ l.active_at_start = (policy_status[db[r].policy] = "ACTIVE")
  BY DEF Idle
<1>3. lab \in {"read_key", "read_policy"} /\ (lab = "read_key" => l.op = "execute")
  BY <1>1, <1>2
<1> HIDE DEF l, lab
<1>4. QED
  BY <1>1, <1>2, <1>3, CallRefines

LEMMA WorldRefines ==
    ASSUME IInv
    PROVE  /\ \A p \in Policies : revoke(p) => Refined
           /\ tick => Refined
           /\ \A r \in Requests : swap_plan(r) => Refined
           /\ \A w \in Workers : crash(w) => Refined
<1>1. ASSUME NEW p \in Policies, revoke(p) PROVE Refined
  <2>1. /\ policy_status' = [policy_status EXCEPT ![p] = "REVOKED"] /\ db' = db /\ now' = now
        /\ submissions' = submissions /\ pc' = pc /\ loc' = loc
    BY <1>1 DEF revoke
  <2>2. policy_status \in [Policies -> DelegationStatuses]
    BY DEF IInv, TypeOK
  <2>3. in_force' = [in_force EXCEPT ![p] = FALSE]
    BY <2>1, <2>2 DEF in_force
  <2>4. /\ policy_of' = policy_of /\ granted' = granted /\ submitted' = submitted
        /\ running_calls' = running_calls
    BY <2>1 DEF policy_of, granted, submitted, running_calls, running_call, calling,
       authorised, req
  <2>5. Execution!Revoke(p)
    BY <2>1, <2>3, <2>4 DEF Execution!Revoke
  <2>6. QED
    BY <2>5 DEF Refined, Execution!Next
<1>2. ASSUME tick PROVE Refined
  <2>1. /\ now' = now + 1 /\ policy_status' = policy_status /\ db' = db
        /\ submissions' = submissions /\ pc' = pc /\ loc' = loc
    BY <1>2 DEF tick
  <2>2. /\ policy_of' = policy_of /\ granted' = granted /\ submitted' = submitted
        /\ in_force' = in_force /\ running_calls' = running_calls
    BY <2>1 DEF policy_of, granted, submitted, in_force, running_calls, running_call, calling,
       authorised, req
  <2>3. Execution!Tick
    BY <2>1, <2>2 DEF Execution!Tick
  <2>4. QED
    BY <2>3 DEF Refined, Execution!Next
<1>3. ASSUME NEW r \in Requests, swap_plan(r) PROVE Refined
  <2> DEFINE plan == [db[r].plans[1] EXCEPT !.goal = "changed"]
             rows == [db[r].plans EXCEPT ![1] = plan]
  <2>1. /\ db' = [db EXCEPT ![r].plans = rows]
        /\ policy_status' = policy_status /\ now' = now
        /\ submissions' = submissions /\ pc' = pc /\ loc' = loc
    BY <1>3 DEF swap_plan, world
  <2> HIDE DEF rows
  <2>2. KeepsRows /\ KeepsWorld
    BY <2>1, Typed DEF KeepsRows, KeepsWorld, RequestRows
  <2>3. running_calls' = running_calls
    BY <2>1 DEF running_calls, running_call, calling, authorised, req
  <2>4. QED
    BY <2>2, <2>3, MappedRows, MappedWorld DEF Refined, Execution!vars
<1>4. ASSUME NEW w \in Workers, crash(w) PROVE Refined
  <2>1. KeepsRows /\ KeepsWorld /\ finish(w)
    BY <1>4 DEF crash, KeepsRows, KeepsWorld, world
  <2>2. Harmless(w)
    BY <2>1, Leaves
  <2>3. QED
    BY <2>2, Ended DEF Harmless
<1>5. QED
  BY <1>1, <1>2, <1>3, <1>4

-----------------------------------------------------------------------------
(* The refinement.                                                         *)

LEMMA InitRefines == Init => Execution!Init
<1> SUFFICES ASSUME Init PROVE Execution!Init
  OBVIOUS
<1>1. in_force \in [Policies -> BOOLEAN]
  BY DEF in_force
<1>2. now = 0 /\ policy_of = [r \in Requests |-> None]
  BY DEF Init, policy_of, NoRows
<1>3. granted = [r \in Requests |-> {}]
  BY DEF Init, granted, grants_of, NoRows
<1>4. running_calls = [w \in Workers |-> NoCall]
  BY DEF Init, running_calls, running_call, calling, authorised, NoCall
<1>5. submitted = [r \in Requests |-> <<>>]
  <2>1. ASSUME NEW r \in Requests
        PROVE  [i \in DOMAIN submissions[r] |-> submissions[r][i].plan_hash] = <<>>
    BY DEF Init
  <2>2. QED
    BY <2>1 DEF submitted
<1>6. QED
  BY <1>1, <1>2, <1>3, <1>4, <1>5 DEF Execution!Init, Execution!NoCall, NoCall

(* A statement of a handler, with whatever other statements it races.      *)
LEMMA StatementRefines == ASSUME IInv, NEW w \in Workers, step(w) PROVE Refined
<1>1. Harmless(w) => Refined
  BY Ended DEF Harmless
<1>2. QED
  BY <1>1, HarmlessSteps, ReadsRefine, ReadKeyRefines, ReadPlanRefines, GrantRefines,
     DecideRefines, RunToolsRefines DEF step

(* Steps that leave handlers, grants and the world alone give no authority.*)
LEMMA StillRefines ==
    ASSUME KeepsRows, KeepsWorld, pc' = pc, loc' = loc PROVE Refined
<1>1. running_calls' = running_calls
  BY DEF running_calls, running_call, calling, authorised, req
<1>2. QED
  BY <1>1, MappedRows, MappedWorld DEF Refined, Execution!vars

LEMMA StutterRefines == ASSUME UNCHANGED vars PROVE Refined
  BY StillRefines DEF vars, KeepsRows, KeepsWorld

LEMMA NextRefines == IInv /\ [Next]_vars => Refined
<1> SUFFICES ASSUME IInv, [Next]_vars PROVE Refined
  OBVIOUS
<1>1. ASSUME NEW w \in Workers, arrive(w) PROVE Refined
  BY <1>1, CreateRefines, ArriveRefines DEF arrive
<1>2. ASSUME NEW w \in Workers, step(w) PROVE Refined
  BY <1>2, StatementRefines
<1>4. QED
  BY <1>1, <1>2, WorldRefines, StutterRefines DEF Next

(* The lifecycle implements AuthorisedExecution: a submission is made by a *)
(* call that was admitted under a delegation in force and authorised under *)
(* a grant for that very plan, whatever handlers, revocations, re-plans    *)
(* and crashes come between.                                               *)
THEOREM Refinement == Spec => ExecutesAsAuthorised
<1>1. Init => Execution!Init
  BY InitRefines
<1>2. IInv /\ [Next]_vars => [Execution!Next]_(Execution!vars)
  BY NextRefines DEF Refined
<1>3. QED
  BY <1>1, <1>2, Invariance, PTL DEF Spec, Execution!Spec, ExecutesAsAuthorised

-----------------------------------------------------------------------------
(* One call at a time: what the rows of a request show between two calls.  *)

Untried == {None, "DRAFT", "PLAN_CREATED", "APPROVAL_REQUIRED", "APPROVED", "ALLOWED", "REJECTED"}
Stopped == {"DENIED", "QUARANTINED"}
Finished == {"EXECUTED", "FAILED_SAFE"}

Unanswered(row, answers) == \A k \in Keys : answers[k] = {} /\ row.idempotency[k] = None

Agree(given, stored) ==
    /\ \A x, y \in given : x = y
    /\ stored # None => given \subseteq {stored}

Orderly(row, list, answers) ==
    /\ row.state \in Untried => list = <<>>
    /\ list = <<>> \/ Len(list) = 1
    /\ row.plans = <<>> \/ Len(row.plans) = 1
    /\ row.rejected > 0 => row.state = "REJECTED"
    /\ row.state = "APPROVAL_REQUIRED" => NeedsReview(row)
    /\ row.state # "RECEIPT_ISSUED" => Unanswered(row, answers)
    /\ \A k \in Keys : Agree(answers[k], row.idempotency[k])

(* and what a handler that is alone finds at each of its labels.           *)
admits(op) == IF op = "custom_plan" THEN {"DRAFT"} ELSE legal_states(op)

Working == {"started_event", "run_tools", "store_calls", "store_execution"}

InTurn(row, list, answers, lab, l) ==
    /\ lab \notin {"plan_event", "granted_event", "refused_event"} => row.state = l.state
    /\ lab \in {"read_policy", "read_plan", "decide"} => row.state \in admits(l.op)
    /\ lab = "persist_plan" => /\ row.state \in {"DRAFT", "PLAN_CREATED"}
                               /\ l.plan = None => row.plans = <<>>
    /\ lab \in {"read_approval", "set_executing", "set_blocked"} =>
          row.state \in {"ALLOWED", "APPROVED"}
    /\ lab \in {"evaluated_event", "set_decided"} =>
          /\ row.state \in {"PLAN_CREATED", "APPROVAL_REQUIRED"}
          /\ l.decision = "REQUIRE_APPROVAL" => NeedsReview(row)
    /\ lab \in {"grant", "refuse"} => row.state = "APPROVAL_REQUIRED"
    /\ lab \in Working => row.state = "EXECUTING"
    /\ lab \in {"started_event", "run_tools"} => list = <<>>
    /\ lab \in {"store_calls", "store_execution"} =>
          IF l.outcome THEN Len(list) = 1 ELSE list = <<>>
    /\ lab = "completed_event" => row.state \in Finished
    /\ lab \in {"blocked_calls", "blocked_event", "incident", "incident_event"} => row.state \in Stopped
    /\ lab \in {"receipt_event", "no_execution", "store_receipt", "set_issued"} =>
          row.state \in Stopped \cup Finished
    /\ lab = "store_key" => row.state = "RECEIPT_ISSUED" /\ Unanswered(row, answers)

Serial ==
    /\ \A r \in Requests : Orderly(db[r], submissions[r], answered[r])
    /\ \A w \in Workers : pc[w] # "idle" =>
          InTurn(db[req(w)], submissions[req(w)], answered[req(w)], pc[w], loc[w])

-----------------------------------------------------------------------------
(* A step moves one request along the documented flow, or not at all.      *)
Leads(s, t, n) ==
    \/ s = None /\ t = "DRAFT"
    \/ s \in {"DRAFT", "PLAN_CREATED"} /\ t = "PLAN_CREATED"
    \/ s = "PLAN_CREATED" /\ t \in {"DENIED", "QUARANTINED", "APPROVAL_REQUIRED", "ALLOWED"}
    \/ s = "APPROVAL_REQUIRED" /\ t \in {"DENIED", "QUARANTINED", "APPROVED", "REJECTED"}
    \/ s \in {"ALLOWED", "APPROVED"} /\ t \in {"EXECUTING", "DENIED", "QUARANTINED"}
    \/ s = "EXECUTING" /\ t = IF n = 1 THEN "EXECUTED" ELSE "FAILED_SAFE"
    \/ s \in Stopped \cup Finished /\ t = "RECEIPT_ISSUED"

Moved(s, n, t, m) ==
    \/ t = s /\ m = n
    \/ Leads(s, t, n) /\ m = n
    \/ s = "EXECUTING" /\ t = s /\ n = 0 /\ m = 1

Follows == [Flow!Next]_(Flow!flow)

Keeps(q) == db'[q] = db[q] /\ submissions'[q] = submissions[q] /\ answered'[q] = answered[q]

LEMMA MoveFollows ==
    ASSUME IInv, IInv', NEW r \in Requests, \A q \in Requests \ {r} : Keeps(q),
           Moved(db[r].state, Len(submissions[r]), db'[r].state, Len(submissions'[r]))
    PROVE  Follows
<1> DEFINE phase == [q \in Requests |-> db[q].state]
           count == [q \in Requests |-> Len(submissions[q])]
           s == db[r].state
           t == db'[r].state
           n == Len(submissions[r])
           m == Len(submissions'[r])
<1>1. phase' = [phase EXCEPT ![r] = t] /\ phase[r] = s
  BY DEF Keeps
<1>2. count' = [count EXCEPT ![r] = m] /\ count[r] = n
  BY DEF Keeps
<1>3. Moved(s, n, t, m)
  OBVIOUS
<1>4. t = s => phase' = phase
  BY <1>1
<1>5. m = n => count' = count
  BY <1>2
<1>6. CASE t = s /\ m = n
  BY <1>4, <1>5, <1>6 DEF Follows, Flow!flow
<1>7. CASE Leads(s, t, n) /\ m = n
  <2> HIDE DEF phase, count, s, t, n, m
  <2>1. count' = count
    BY <1>5, <1>7
  <2>2. CASE s = None /\ t = "DRAFT"
    <3>1. Flow!Open(r)
      BY <1>1, <2>1, <2>2 DEF Flow!Open, Flow!move, phase, count
    <3>2. QED
      BY <3>1 DEF Follows, Flow!Next
  <2>3. CASE s \in {"DRAFT", "PLAN_CREATED"} /\ t = "PLAN_CREATED"
    <3>1. Flow!MakePlan(r)
      BY <1>1, <2>1, <2>3 DEF Flow!MakePlan, Flow!move, phase, count
    <3>2. QED
      BY <3>1 DEF Follows, Flow!Next
  <2>4. CASE s = "PLAN_CREATED" /\ t \in {"DENIED", "QUARANTINED", "APPROVAL_REQUIRED", "ALLOWED"}
    <3>1. Flow!Judge(r)
      BY <1>1, <2>1, <2>4 DEF Flow!Judge, Flow!move, phase, count
    <3>2. QED
      BY <3>1 DEF Follows, Flow!Next
  <2>5. CASE s = "APPROVAL_REQUIRED" /\ t \in {"DENIED", "QUARANTINED"}
    <3>1. Flow!Judge(r)
      BY <1>1, <2>1, <2>5 DEF Flow!Judge, Flow!move, phase, count
    <3>2. QED
      BY <3>1 DEF Follows, Flow!Next
  <2>6. CASE s = "APPROVAL_REQUIRED" /\ t \in {"APPROVED", "REJECTED"}
    <3>1. Flow!Review(r)
      BY <1>1, <2>1, <2>6 DEF Flow!Review, Flow!move, phase, count
    <3>2. QED
      BY <3>1 DEF Follows, Flow!Next
  <2>7. CASE s \in {"ALLOWED", "APPROVED"} /\ t \in {"EXECUTING", "DENIED", "QUARANTINED"}
    <3>1. Flow!BeginExecution(r)
      BY <1>1, <2>1, <2>7 DEF Flow!BeginExecution, Flow!move, phase, count
    <3>2. QED
      BY <3>1 DEF Follows, Flow!Next
  <2>8. CASE s = "EXECUTING" /\ t = IF n = 1 THEN "EXECUTED" ELSE "FAILED_SAFE"
    <3>1. Flow!EndExecution(r)
      BY <1>1, <1>2, <2>1, <2>8 DEF Flow!EndExecution, Flow!move, phase, count
    <3>2. QED
      BY <3>1 DEF Follows, Flow!Next
  <2>9. CASE s \in Stopped \cup Finished /\ t = "RECEIPT_ISSUED"
    <3>1. Flow!IssueReceipt(r)
      BY <1>1, <2>1, <2>9 DEF Flow!IssueReceipt, Flow!move, phase, count, Stopped, Finished
    <3>2. QED
      BY <3>1 DEF Follows, Flow!Next
  <2>10. QED
    BY <1>7, <2>2, <2>3, <2>4, <2>5, <2>6, <2>7, <2>8, <2>9 DEF Leads
<1>8. CASE s = "EXECUTING" /\ t = s /\ n = 0 /\ m = 1
  <2>1. Flow!Submit(r)
    BY <1>1, <1>2, <1>4, <1>8 DEF Flow!Submit
  <2>2. QED
    BY <2>1 DEF Follows, Flow!Next
<1> HIDE DEF phase, count, s, t, n, m
<1>9. QED
  BY <1>3, <1>6, <1>7, <1>8 DEF Moved

-----------------------------------------------------------------------------
(* The steps of a handler that is alone.                                   *)

OneHandler == \A v, w \in Workers : v = w

Ordered == Serial' /\ Follows

Finds(w) == InTurn(db[req(w)], submissions[req(w)], answered[req(w)], pc[w], loc[w])

LEMMA OneStep ==
    ASSUME OneHandler, IInv, IInv', Serial, NEW w \in Workers, NEW r \in Requests,
           \A q \in Requests \ {r} : Keeps(q),
           Orderly(db'[r], submissions'[r], answered'[r]),
           pc'[w] # "idle" =>
              /\ req(w)' = r
              /\ InTurn(db'[r], submissions'[r], answered'[r], pc'[w], loc'[w]),
           Moved(db[r].state, Len(submissions[r]), db'[r].state, Len(submissions'[r]))
    PROVE  Ordered
<1>1. Follows
  BY MoveFollows
<1>2. ASSUME NEW q \in Requests PROVE Orderly(db'[q], submissions'[q], answered'[q])
  BY DEF Keeps, Serial
<1>3. ASSUME NEW v \in Workers, pc'[v] # "idle" PROVE Finds(v)'
  <2>1. v = w
    BY DEF OneHandler
  <2>2. QED
    BY <1>3, <2>1 DEF Finds
<1>4. QED
  BY <1>1, <1>2, <1>3 DEF Ordered, Serial, Finds

(* Two rows that a client and its next calls do not tell apart.            *)
Alike(old, new) ==
    /\ new.state = old.state /\ new.policy = old.policy /\ new.plans = old.plans
    /\ new.rejected = old.rejected /\ new.idempotency = old.idempotency

AllAlike ==
    /\ \A q \in Requests : Alike(db[q], db'[q])
    /\ submissions' = submissions /\ answered' = answered

LEMMA AlikeOrderly ==
    ASSUME NEW old, NEW new, Alike(old, new), NEW list, NEW answers
    PROVE  /\ Orderly(old, list, answers) => Orderly(new, list, answers)
           /\ \A lab, l : InTurn(old, list, answers, lab, l) => InTurn(new, list, answers, lab, l)
  BY DEF Alike, Orderly, InTurn, Unanswered, NeedsReview

LEMMA StillFollows ==
    ASSUME \A q \in Requests : db'[q].state = db[q].state, submissions' = submissions
    PROVE  Follows
  BY DEF Follows, Flow!flow

LEMMA QuietStep ==
    ASSUME OneHandler, IInv, IInv', Serial, NEW w \in Workers, AllAlike,
           pc'[w] # "idle" =>
              /\ req(w)' \in Requests
              /\ InTurn(db[req(w)'], submissions[req(w)'], answered[req(w)'], pc'[w], loc'[w])
    PROVE  Ordered
<1>1. Follows
  BY StillFollows DEF AllAlike, Alike
<1>2. ASSUME NEW q \in Requests PROVE Orderly(db'[q], submissions'[q], answered'[q])
  BY AlikeOrderly DEF AllAlike, Serial
<1>3. ASSUME NEW v \in Workers, pc'[v] # "idle" PROVE Finds(v)'
  <2>1. v = w
    BY DEF OneHandler
  <2>2. QED
    BY <1>3, <2>1, AlikeOrderly DEF Finds, AllAlike
<1>4. QED
  BY <1>1, <1>2, <1>3 DEF Ordered, Serial, Finds

(* A handler that goes on, or leaves.                                      *)
GoesTo(w, lab) ==
    /\ pc'[w] = lab
    /\ lab # "idle" => /\ loc'[w].request = loc[w].request
                       /\ InTurn(db[req(w)], submissions[req(w)], answered[req(w)], lab, loc'[w])

LEMMA QuietlyOn ==
    ASSUME OneHandler, IInv, IInv', Serial, NEW w \in Workers, pc[w] # "idle", AllAlike,
           NEW lab, GoesTo(w, lab)
    PROVE  Ordered
<1>1. req(w) \in Requests
  BY Running
<1>2. pc'[w] # "idle" => req(w)' = req(w)
  BY DEF GoesTo, req
<1>3. QED
  BY <1>1, <1>2, QuietStep DEF GoesTo

LEMMA Meets ==
    ASSUME IInv, Serial, NEW w \in Workers, pc[w] # "idle"
    PROVE  /\ Finds(w) /\ req(w) \in Requests
           /\ Orderly(db[req(w)], submissions[req(w)], answered[req(w)])
           /\ loc[w] \in Locals
  BY Running DEF Serial, Finds

-----------------------------------------------------------------------------
(* The steps that commit nothing the next calls would see.                 *)

LEMMA EventAlike ==
    ASSUME IInv, NEW w \in Workers, NEW type, append_event(w, type), UNCHANGED world
    PROVE  AllAlike
  BY Typed DEF append_event, AllAlike, Alike, RequestRows, world

LEMMA UnchangedAlike ==
    ASSUME IInv, db' = db, UNCHANGED world
    PROVE  AllAlike
  BY DEF AllAlike, Alike, world

LEMMA Leaving ==
    ASSUME IInv, NEW w \in Workers, finish(w) PROVE GoesTo(w, "idle")
  BY Typed DEF finish, GoesTo

LEMMA Continuing ==
    ASSUME IInv, Serial, NEW w \in Workers, pc[w] # "idle", NEW lab, goto(w, lab), loc' = loc,
           Finds(w) => InTurn(db[req(w)], submissions[req(w)], answered[req(w)], lab, loc[w])
    PROVE  GoesTo(w, lab)
  BY Typed, Meets DEF goto, GoesTo

LEMMA OrderlyEvents ==
    ASSUME OneHandler, IInv, IInv', Serial, NEW w \in Workers,
           \/ received_event(w) \/ plan_event(w) \/ evaluated_event(w) \/ approval_event(w)
           \/ granted_event(w) \/ refused_event(w) \/ started_event(w) \/ blocked_event(w)
           \/ incident_event(w) \/ completed_event(w)
    PROVE  Ordered
<1>1. pc[w] # "idle" /\ AllAlike
  BY EventAlike DEF received_event, plan_event, evaluated_event, approval_event, granted_event,
     refused_event, started_event, blocked_event, incident_event, completed_event
<1>2. CASE finish(w)
  BY <1>1, <1>2, Leaving, QuietlyOn
<1>3. CASE evaluated_event(w)
  <2>1. GoesTo(w, "set_decided")
    BY <1>1, <1>3, Continuing DEF evaluated_event, Finds, InTurn, Working
  <2>2. QED
    BY <1>1, <2>1, QuietlyOn
<1>4. CASE started_event(w)
  <2>1. GoesTo(w, "run_tools")
    BY <1>1, <1>4, Continuing DEF started_event, Finds, InTurn, Working
  <2>2. QED
    BY <1>1, <2>1, QuietlyOn
<1>5. CASE blocked_event(w)
  <2>1. \E lab \in {"incident", "receipt_event"} : GoesTo(w, lab)
    BY <1>1, <1>5, Continuing DEF blocked_event, Finds, InTurn, Working
  <2>2. QED
    BY <1>1, <2>1, QuietlyOn
<1>6. CASE incident_event(w)
  <2>1. GoesTo(w, "receipt_event")
    BY <1>1, <1>6, Continuing DEF incident_event, Finds, InTurn, Working
  <2>2. QED
    BY <1>1, <2>1, QuietlyOn
<1>7. CASE completed_event(w)
  <2>1. GoesTo(w, "receipt_event")
    BY <1>1, <1>7, Continuing DEF completed_event, Finds, InTurn, Working
  <2>2. QED
    BY <1>1, <2>1, QuietlyOn
<1>8. QED
  BY <1>2, <1>3, <1>4, <1>5, <1>6, <1>7 DEF received_event, plan_event, approval_event,
     granted_event, refused_event

LEMMA CountedAlike ==
    ASSUME IInv, NEW w \in Workers, UNCHANGED world,
           \/ \E f : db' = [db EXCEPT ![req(w)].tool_calls = f]
           \/ \E n : db' = [db EXCEPT ![req(w)].incidents = n]
           \/ \E s, n : db' = [db EXCEPT ![req(w)].executions[s] = n]
           \/ \E s, n : db' = [db EXCEPT ![req(w)].receipts[s] = n]
           \/ \E s, n : db' = [db EXCEPT ![req(w)].tool_calls[s] = n]
    PROVE  AllAlike
<1>1. CASE \E f : db' = [db EXCEPT ![req(w)].tool_calls = f]
  BY <1>1, Typed DEF AllAlike, Alike, RequestRows, world
<1>2. CASE \E n : db' = [db EXCEPT ![req(w)].incidents = n]
  BY <1>2, Typed DEF AllAlike, Alike, RequestRows, world
<1>3. CASE \E s, n : db' = [db EXCEPT ![req(w)].executions[s] = n]
  BY <1>3, Typed DEF AllAlike, Alike, RequestRows, world
<1>4. CASE \E s, n : db' = [db EXCEPT ![req(w)].receipts[s] = n]
  BY <1>4, Typed DEF AllAlike, Alike, RequestRows, world
<1>5. CASE \E s, n : db' = [db EXCEPT ![req(w)].tool_calls[s] = n]
  BY <1>5, Typed DEF AllAlike, Alike, RequestRows, world
<1>6. QED
  BY <1>1, <1>2, <1>3, <1>4, <1>5

LEMMA OrderlyCounts ==
    ASSUME OneHandler, IInv, IInv', Serial, NEW w \in Workers,
           \/ store_calls(w) \/ blocked_calls(w) \/ incident(w) \/ no_execution(w)
           \/ store_receipt(w)
    PROVE  Ordered
<1>1. pc[w] # "idle" /\ AllAlike
  BY CountedAlike DEF store_calls, blocked_calls, incident, no_execution, store_receipt
<1>2. CASE store_calls(w)
  <2>1. GoesTo(w, "store_execution")
    BY <1>1, <1>2, Continuing DEF store_calls, Finds, InTurn, Working
  <2>2. QED
    BY <1>1, <2>1, QuietlyOn
<1>3. CASE blocked_calls(w)
  <2>1. \E lab \in {"blocked_event", "incident", "receipt_event"} : GoesTo(w, lab)
    BY <1>1, <1>3, Continuing DEF blocked_calls, Finds, InTurn, Working
  <2>2. QED
    BY <1>1, <2>1, QuietlyOn
<1>4. CASE incident(w)
  <2>1. GoesTo(w, "incident_event")
    BY <1>1, <1>4, Continuing DEF incident, Finds, InTurn, Working
  <2>2. QED
    BY <1>1, <2>1, QuietlyOn
<1>5. CASE no_execution(w)
  <2>1. GoesTo(w, "store_receipt")
    BY <1>1, <1>5, Continuing DEF no_execution, Finds, InTurn, Working
  <2>2. QED
    BY <1>1, <2>1, QuietlyOn
<1>6. CASE store_receipt(w)
  <2>1. GoesTo(w, "set_issued")
    BY <1>1, <1>6, Continuing DEF store_receipt, Finds, InTurn, Working
  <2>2. QED
    BY <1>1, <2>1, QuietlyOn
<1>7. QED
  BY <1>2, <1>3, <1>4, <1>5, <1>6

-----------------------------------------------------------------------------
(* The reads and the decision.                                             *)

LEMMA OrderlyReadKey ==
    ASSUME OneHandler, IInv, IInv', Serial, Audit, NEW w \in Workers, read_key(w)
    PROVE  Ordered
<1> DEFINE r == req(w)
           k == loc[w].key
           stored == db[r].idempotency[k]
<1>1. /\ pc[w] = "read_key" /\ pc[w] # "idle" /\ db' = db /\ submissions' = submissions
  BY DEF read_key
<1>2. /\ r \in Requests /\ Orderly(db[r], submissions[r], answered[r]) /\ Finds(w)
      /\ loc[w] \in Locals /\ loc[w].op = "execute" /\ k \in Keys
  BY <1>1, Meets, Running, RunningShows DEF Stage, Knows, Locals
<1>3. answered \in [Requests -> [Keys -> SUBSET Receipts]]
  BY DEF IInv, TypeOK
<1>4. CASE stored # None
  <2>1. /\ answered' = [answered EXCEPT ![r][k] = @ \cup {stored}]
        /\ finish(w)
    BY <1>4 DEF read_key
  <2>2. pc'[w] = "idle"
    BY <2>1, Leaving DEF GoesTo
  <2>3. \A q \in Requests \ {r} : Keeps(q)
    BY <1>1, <1>3, <2>1 DEF Keeps
  <2>4. db[r].state = "RECEIPT_ISSUED"
    BY <1>2, <1>4 DEF Orderly, Unanswered
  <2>5. ASSUME NEW j \in Keys PROVE Agree(answered'[r][j], db[r].idempotency[j])
    <3>1. Agree(answered[r][j], db[r].idempotency[j])
      BY <1>2 DEF Orderly
    <3>2. CASE j = k
      <4>1. answered'[r][j] = {stored}
        BY <1>2, <1>3, <1>4, <2>1, <3>1, <3>2 DEF Agree
      <4>2. QED
        BY <3>2, <4>1 DEF Agree
    <3>3. CASE j # k
      BY <1>2, <1>3, <2>1, <3>1, <3>3
    <3>4. QED
      BY <3>2, <3>3
  <2>6. Orderly(db'[r], submissions'[r], answered'[r])
    BY <1>1, <1>2, <2>4, <2>5 DEF Orderly
  <2>7. Moved(db[r].state, Len(submissions[r]), db'[r].state, Len(submissions'[r]))
    BY <1>1 DEF Moved
  <2> HIDE DEF r
  <2>8. QED
    BY <1>2, <2>2, <2>3, <2>6, <2>7, OneStep
<1>5. CASE stored = None
  <2>1. AllAlike
    BY <1>1, <1>5, UnchangedAlike DEF read_key, world
  <2>2. CASE finish(w)
    BY <1>1, <2>1, <2>2, Leaving, QuietlyOn
  <2>3. CASE ~finish(w)
    <3>1. goto(w, "read_policy") /\ loc' = loc /\ loc[w].state \in legal_states("execute")
      BY <1>5, <2>3 DEF read_key
    <3>2. InTurn(db[r], submissions[r], answered[r], "read_policy", loc[w])
      BY <1>1, <1>2, <3>1 DEF Finds, InTurn, Working, admits
    <3>3. GoesTo(w, "read_policy")
      BY <1>1, <3>1, <3>2, Continuing
    <3>4. QED
      BY <1>1, <2>1, <3>3, QuietlyOn
  <2>4. QED
    BY <2>2, <2>3
<1>6. QED
  BY <1>4, <1>5

LEMMA OrderlyReadPolicy ==
    ASSUME OneHandler, IInv, IInv', Serial, NEW w \in Workers, read_policy(w)
    PROVE  Ordered
<1>1. pc[w] = "read_policy" /\ AllAlike
  BY UnchangedAlike DEF read_policy
<1>2. Finds(w) /\ loc[w] \in Locals
  BY <1>1, Meets
<1>3. /\ pc'[w] = "read_plan" /\ loc'[w].request = loc[w].request
      /\ loc'[w].state = loc[w].state /\ loc'[w].op = loc[w].op
  BY <1>2, Typed DEF read_policy, goto, Locals
<1>4. GoesTo(w, "read_plan")
  BY <1>1, <1>2, <1>3 DEF GoesTo, Finds, InTurn, Working
<1>5. QED
  BY <1>1, <1>4, QuietlyOn

LEMMA OrderlyReadPlan ==
    ASSUME OneHandler, IInv, IInv', Serial, Audit, NEW w \in Workers, read_plan(w)
    PROVE  Ordered
<1> DEFINE rows == db[req(w)].plans
           op == loc[w].op
           lab == after_plan(op)
<1>1. pc[w] = "read_plan" /\ AllAlike
  BY UnchangedAlike DEF read_plan
<1>2. /\ Finds(w) /\ loc[w] \in Locals /\ op \in Operations /\ rows \in Seq(ActionPlans)
  BY <1>1, Meets, Running DEF Knows, Called, RequestRows
<1>3. CASE finish(w)
  BY <1>1, <1>3, Leaving, QuietlyOn
<1>4. CASE ~finish(w)
  <2>1. /\ loc' = [loc EXCEPT ![w].plan = IF rows = <<>> THEN None ELSE rows[1]]
        /\ goto(w, lab)
    BY <1>4 DEF read_plan
  <2>2. /\ pc'[w] = lab /\ loc'[w].request = loc[w].request
        /\ loc'[w].state = loc[w].state /\ loc'[w].op = op
        /\ loc'[w].plan = IF rows = <<>> THEN None ELSE rows[1]
    BY <1>2, <2>1, Typed DEF goto, Locals
  <2>3. rows # <<>> => rows[1] # None
    <3>1. rows # <<>> => rows[1] \in ActionPlans
      BY <1>2
    <3>2. QED
      BY <3>1, NoRowAssumption
  <2>4. /\ db[req(w)].state = loc[w].state
        /\ db[req(w)].state \in admits(op)
    BY <1>1, <1>2 DEF Finds, InTurn
  <2>5. GoesTo(w, lab)
    <3> HIDE DEF rows
    <3>1. CASE op \in {"plan", "custom_plan"}
      <4>1. lab = "persist_plan" /\ db[req(w)].state \in {"DRAFT", "PLAN_CREATED"}
        BY <2>4, <3>1 DEF after_plan, admits, legal_states
      <4>2. QED
        BY <2>2, <2>3, <2>4, <4>1 DEF GoesTo, InTurn, Working, rows
    <3>2. CASE op = "evaluate"
      BY <2>2, <2>4, <3>2 DEF GoesTo, InTurn, Working, after_plan
    <3>3. CASE op \in {"approve", "reject"}
      <4>1. lab \in {"grant", "refuse"} /\ db[req(w)].state = "APPROVAL_REQUIRED"
        BY <2>4, <3>3 DEF after_plan, admits, legal_states
      <4>2. QED
        BY <2>2, <2>4, <4>1 DEF GoesTo, InTurn, Working
    <3>4. CASE op = "execute"
      <4>1. lab = "read_approval" /\ db[req(w)].state \in {"ALLOWED", "APPROVED"}
        BY <2>4, <3>4 DEF after_plan, admits, legal_states
      <4>2. QED
        BY <2>2, <2>4, <4>1 DEF GoesTo, InTurn, Working
    <3>5. QED
      BY <1>2, <3>1, <3>2, <3>3, <3>4 DEF Operations
  <2>6. QED
    BY <1>1, <2>5, QuietlyOn
<1>5. QED
  BY <1>3, <1>4

LEMMA OrderlyReadApproval ==
    ASSUME OneHandler, IInv, IInv', Serial, Audit, NEW w \in Workers, read_approval(w)
    PROVE  Ordered
<1>1. pc[w] = "read_approval" /\ AllAlike
  BY UnchangedAlike DEF read_approval
<1>2. Finds(w) /\ loc[w] \in Locals /\ loc[w].op = "execute"
  BY <1>1, Meets, RunningShows DEF Stage
<1>3. /\ pc'[w] = "decide" /\ loc'[w].request = loc[w].request
      /\ loc'[w].state = loc[w].state /\ loc'[w].op = loc[w].op
  BY <1>2, Typed DEF read_approval, goto, Locals
<1>4. GoesTo(w, "decide")
  BY <1>1, <1>2, <1>3 DEF GoesTo, Finds, InTurn, Working, admits, legal_states
<1>5. QED
  BY <1>1, <1>4, QuietlyOn

(* An evaluation asks for an approval only where the plan needs one.       *)
LEMMA AskedWhereNeeded ==
    ASSUME IInv, Audit, NEW w \in Workers, pc[w] = "decide",
           decision(context(w)) = "REQUIRE_APPROVAL"
    PROVE  NeedsReview(db[req(w)])
<1>1. SameReview(db[req(w)], loc[w].plan) /\ db[req(w)].policy \in Policies
  BY RunningShows, Running DEF Reviewed
<1>2. human_approval_requirement(context(w)) = "FAIL"
  BY DecisionByRules
<1>3. context(w).policy = loaded_policy(w) /\ context(w).plan = loc[w].plan
  BY DEF context
<1>4. needs_approval(loaded_policy(w), loc[w].plan)
  BY <1>2, <1>3 DEF human_approval_requirement, fail_if
<1>5. QED
  BY <1>1, <1>4, LoadedPolicy DEF SameReview

LEMMA OrderlyDecide ==
    ASSUME OneHandler, IInv, IInv', Serial, Audit, NEW w \in Workers, decide_and_store(w)
    PROVE  Ordered
<1> DEFINE d == decision(context(w))
           op == loc[w].op
           lab == IF op = "evaluate" THEN "evaluated_event"
                  ELSE IF d = "ALLOW" THEN "set_executing" ELSE "set_blocked"
<1>1. /\ pc[w] = "decide" /\ submissions' = submissions /\ answered' = answered
      /\ db' = [db EXCEPT ![req(w)].evaluations =
                   @ \cup {[decision |-> d, plan_hash |-> loc[w].plan]}]
      /\ loc' = [loc EXCEPT ![w].decision = d, ![w].decided_at = now]
      /\ pc' = [pc EXCEPT ![w] = lab]
  BY DEF decide_and_store, goto, world
<1>2. /\ Finds(w) /\ loc[w] \in Locals /\ op \in {"evaluate", "execute"}
      /\ db[req(w)].state \in States
  BY <1>1, Meets, RunningShows, Running DEF Stage, RequestRows, Knows
<1>3. d = "REQUIRE_APPROVAL" => NeedsReview(db[req(w)])
  BY <1>1, AskedWhereNeeded
<1>4. /\ db[req(w)].state = loc[w].state /\ db[req(w)].state \in admits(op)
  BY <1>1, <1>2 DEF Finds, InTurn
<1> HIDE DEF d
<1>5. AllAlike
  BY <1>1, Typed DEF AllAlike, Alike, RequestRows
<1>6. /\ pc'[w] = lab /\ loc'[w].request = loc[w].request
      /\ loc'[w].state = loc[w].state /\ loc'[w].decision = d
  BY <1>1, <1>2, Typed DEF Locals
<1>7. GoesTo(w, lab)
  <2>1. CASE op = "evaluate"
    <3>1. db[req(w)].state \in {"PLAN_CREATED", "APPROVAL_REQUIRED"}
      BY <1>2, <1>4, <2>1 DEF admits, legal_states, States
    <3>2. QED
      BY <1>3, <1>4, <1>6, <2>1, <3>1 DEF GoesTo, InTurn, Working
  <2>2. CASE op = "execute"
    <3>1. db[req(w)].state \in {"ALLOWED", "APPROVED"} /\ lab \in {"set_executing", "set_blocked"}
      BY <1>4, <2>2 DEF admits, legal_states
    <3>2. QED
      BY <1>4, <1>6, <3>1 DEF GoesTo, InTurn, Working
  <2>3. QED
    BY <1>2, <2>1, <2>2
<1>8. QED
  BY <1>1, <1>5, <1>7, QuietlyOn

LEMMA OrderlyReceiptEvent ==
    ASSUME OneHandler, IInv, IInv', Serial, NEW w \in Workers, receipt_event(w)
    PROVE  Ordered
<1> DEFINE lab == IF executes(w) THEN "store_receipt" ELSE "no_execution"
<1>1. pc[w] = "receipt_event" /\ AllAlike
  BY EventAlike DEF receipt_event
<1>2. Finds(w) /\ loc[w] \in Locals
  BY <1>1, Meets
<1>3. /\ pc'[w] = lab /\ loc'[w].request = loc[w].request /\ loc'[w].state = loc[w].state
  BY <1>2, Typed DEF receipt_event, goto, Locals
<1>4. GoesTo(w, lab)
  BY <1>1, <1>2, <1>3 DEF GoesTo, Finds, InTurn, Working
<1>5. QED
  BY <1>1, <1>4, QuietlyOn

LEMMA OrderlyRunTools ==
    ASSUME OneHandler, IInv, IInv', Serial, NEW w \in Workers, run_tools(w)
    PROVE  Ordered
<1> DEFINE r == req(w)
           outcome == gateway_run(w).outcome
           s == [plan_hash |-> submitted_plan(w), decided_at |-> loc[w].decided_at,
                 active_at_start |-> loc[w].active_at_start]
<1>1. /\ pc[w] = "run_tools" /\ pc[w] # "idle" /\ db' = db /\ answered' = answered
      /\ pc' = [pc EXCEPT ![w] = "store_calls"]
      /\ loc' = [loc EXCEPT ![w].outcome = outcome]
      /\ submissions' = IF outcome THEN [submissions EXCEPT ![r] = Append(@, s)] ELSE submissions
  BY DEF run_tools, goto
<1>2. /\ Finds(w) /\ r \in Requests /\ Orderly(db[r], submissions[r], answered[r])
      /\ loc[w] \in Locals
  BY <1>1, Meets
<1>3. submissions \in [Requests -> Seq(Submissions)]
  BY DEF IInv, TypeOK
<1>4. submissions[r] = <<>> /\ db[r].state = "EXECUTING" /\ db[r].state = loc[w].state
  BY <1>1, <1>2 DEF Finds, InTurn, Working
<1> DEFINE given == IF outcome THEN <<s>> ELSE <<>>
<1>5. Append(<<>>, s) = <<s>> /\ Len(<<s>>) = 1 /\ Len(<<>>) = 0
  OBVIOUS
<1> HIDE DEF s, outcome
<1>6. submissions'[r] = given /\ \A q \in Requests \ {r} : Keeps(q)
  BY <1>1, <1>2, <1>3, <1>4, <1>5 DEF Keeps
<1>7. IF outcome THEN Len(given) = 1 ELSE given = <<>> /\ Len(given) = 0
  BY <1>5
<1>8. /\ pc'[w] = "store_calls" /\ loc'[w].request = r /\ loc'[w].state = loc[w].state
      /\ loc'[w].outcome = outcome
  BY <1>1, <1>2, Typed DEF Locals, req
<1> HIDE DEF given
<1>9. Orderly(db'[r], submissions'[r], answered'[r])
  BY <1>1, <1>2, <1>4, <1>6, <1>7, NoneAssumption DEF Orderly, Untried, States
<1>10. InTurn(db'[r], submissions'[r], answered'[r], pc'[w], loc'[w])
  BY <1>1, <1>4, <1>6, <1>7, <1>8 DEF InTurn, Working
<1>11. Moved(db[r].state, Len(submissions[r]), db'[r].state, Len(submissions'[r]))
  BY <1>1, <1>4, <1>5, <1>6, <1>7 DEF Moved
<1>12. req(w)' = r
  BY <1>8 DEF req
<1> HIDE DEF r
<1>13. QED
  BY <1>2, <1>6, <1>9, <1>10, <1>11, <1>12, OneStep

-----------------------------------------------------------------------------
(* The commits of a state.                                                 *)

SameButState(old, new) ==
    /\ new.policy = old.policy /\ new.plans = old.plans /\ new.rejected = old.rejected
    /\ new.idempotency = old.idempotency

LEMMA Restated ==
    ASSUME NEW old, NEW new, SameButState(old, new), NEW list, NEW answers,
           Orderly(old, list, answers),
           new.state = old.state \/ Leads(old.state, new.state, Len(list)),
           new.state = "APPROVAL_REQUIRED" => NeedsReview(old)
    PROVE  Orderly(new, list, answers)
<1>1. CASE new.state = old.state
  BY <1>1, AlikeOrderly DEF SameButState, Alike
<1>2. CASE Leads(old.state, new.state, Len(list))
  <2>1. old.state \notin {"REJECTED", "RECEIPT_ISSUED"}
    BY <1>2, NoneAssumption DEF Leads, Stopped, Finished, States
  <2>2. new.state \in Untried => old.state \in Untried
    BY <1>2, NoneAssumption DEF Leads, Stopped, Finished, Untried, States
  <2>3. QED
    BY <2>1, <2>2 DEF Orderly, SameButState, Unanswered, NeedsReview
<1>3. QED
  BY <1>1, <1>2

LEMMA StateStep ==
    ASSUME OneHandler, IInv, IInv', Serial, NEW w \in Workers, pc[w] # "idle",
           \A q \in Requests \ {req(w)} : db'[q] = db[q],
           submissions' = submissions, answered' = answered,
           SameButState(db[req(w)], db'[req(w)]),
           NEW s, db'[req(w)].state = s,
           s = db[req(w)].state \/ Leads(db[req(w)].state, s, Len(submissions[req(w)])),
           s = "APPROVAL_REQUIRED" => NeedsReview(db[req(w)]),
           NEW lab, pc'[w] = lab,
           lab # "idle" =>
              /\ loc'[w].request = loc[w].request
              /\ InTurn(db'[req(w)], submissions[req(w)], answered[req(w)], lab, loc'[w])
    PROVE  Ordered
<1> DEFINE r == req(w)
<1>1. r \in Requests /\ Orderly(db[r], submissions[r], answered[r])
  BY Meets
<1>2. Orderly(db'[r], submissions'[r], answered'[r])
  BY <1>1, Restated
<1>3. Moved(db[r].state, Len(submissions[r]), db'[r].state, Len(submissions'[r]))
  BY DEF Moved
<1>4. \A q \in Requests \ {r} : Keeps(q)
  BY DEF Keeps
<1>5. pc'[w] # "idle" => req(w)' = r
  BY DEF req
<1>6. pc'[w] # "idle" => InTurn(db'[r], submissions'[r], answered'[r], pc'[w], loc'[w])
  OBVIOUS
<1> HIDE DEF r
<1>7. QED
  BY <1>1, <1>2, <1>3, <1>4, <1>5, <1>6, OneStep

(* The state in hand is the state of the row, so that a write writes.      *)
LEMMA WritesState ==
    ASSUME IInv, NEW w \in Workers, pc[w] # "idle", NEW s,
           db[req(w)].state = loc[w].state,
           db' = [db EXCEPT ![req(w)].state = state_written(w, s)]
    PROVE  /\ db'[req(w)].state = s /\ SameButState(db[req(w)], db'[req(w)])
           /\ \A q \in Requests \ {req(w)} : db'[q] = db[q]
<1>1. state_written(w, s) = s
  BY DEF state_written
<1>2. req(w) \in Requests /\ db[req(w)] \in RequestRows
  BY Running
<1>3. QED
  BY <1>1, <1>2, Typed DEF SameButState, RequestRows

LEMMA OrderlyExecuting ==
    ASSUME OneHandler, IInv, IInv', Serial, NEW w \in Workers, set_executing(w)
    PROVE  Ordered
<1>1. /\ pc[w] = "set_executing" /\ submissions' = submissions /\ answered' = answered
      /\ db' = [db EXCEPT ![req(w)].state = state_written(w, "EXECUTING")]
      /\ loc' = [loc EXCEPT ![w].state = "EXECUTING"] /\ pc' = [pc EXCEPT ![w] = "started_event"]
  BY DEF set_executing, write_state, goto, world
<1>2. /\ Finds(w) /\ Orderly(db[req(w)], submissions[req(w)], answered[req(w)])
      /\ loc[w] \in Locals
  BY <1>1, Meets
<1>3. /\ db[req(w)].state = loc[w].state /\ db[req(w)].state \in {"ALLOWED", "APPROVED"}
      /\ submissions[req(w)] = <<>>
  BY <1>1, <1>2 DEF Finds, InTurn, Orderly, Untried
<1>4. /\ db'[req(w)].state = "EXECUTING" /\ SameButState(db[req(w)], db'[req(w)])
      /\ \A q \in Requests \ {req(w)} : db'[q] = db[q]
  BY <1>1, <1>3, WritesState
<1>5. /\ pc'[w] = "started_event" /\ loc'[w].request = loc[w].request
      /\ loc'[w].state = "EXECUTING"
  BY <1>1, <1>2, Typed DEF Locals
<1>6. InTurn(db'[req(w)], submissions[req(w)], answered[req(w)], "started_event", loc'[w])
  BY <1>3, <1>4, <1>5 DEF InTurn, Working
<1>7. Leads(db[req(w)].state, "EXECUTING", Len(submissions[req(w)]))
  BY <1>3 DEF Leads
<1>8. QED
  BY <1>1, <1>4, <1>5, <1>6, <1>7, StateStep

LEMMA OrderlyBlocked ==
    ASSUME OneHandler, IInv, IInv', Serial, NEW w \in Workers, set_blocked(w)
    PROVE  Ordered
<1> DEFINE s == IF loc[w].decision = "QUARANTINE" THEN "QUARANTINED" ELSE "DENIED"
<1>1. /\ pc[w] = "set_blocked" /\ submissions' = submissions /\ answered' = answered
      /\ db' = [db EXCEPT ![req(w)].state = state_written(w, s)]
      /\ loc' = [loc EXCEPT ![w].state = s] /\ pc' = [pc EXCEPT ![w] = "blocked_calls"]
  BY DEF set_blocked, write_state, goto, world
<1>2. Finds(w) /\ loc[w] \in Locals
  BY <1>1, Meets
<1>3. db[req(w)].state = loc[w].state /\ db[req(w)].state \in {"ALLOWED", "APPROVED"}
  BY <1>1, <1>2 DEF Finds, InTurn
<1>4. s \in {"DENIED", "QUARANTINED"}
  OBVIOUS
<1> HIDE DEF s
<1>5. /\ db'[req(w)].state = s /\ SameButState(db[req(w)], db'[req(w)])
      /\ \A q \in Requests \ {req(w)} : db'[q] = db[q]
  BY <1>1, <1>3, WritesState
<1>6. /\ pc'[w] = "blocked_calls" /\ loc'[w].request = loc[w].request /\ loc'[w].state = s
  BY <1>1, <1>2, Typed DEF Locals
<1>7. InTurn(db'[req(w)], submissions[req(w)], answered[req(w)], "blocked_calls", loc'[w])
  BY <1>4, <1>5, <1>6 DEF InTurn, Working, Stopped
<1>8. Leads(db[req(w)].state, s, Len(submissions[req(w)])) /\ s # "APPROVAL_REQUIRED"
  BY <1>3, <1>4 DEF Leads
<1>9. QED
  BY <1>1, <1>5, <1>6, <1>7, <1>8, StateStep

LEMMA OrderlyStoreExecution ==
    ASSUME OneHandler, IInv, IInv', Serial, NEW w \in Workers, store_execution(w)
    PROVE  Ordered
<1> DEFINE s == executed_state(loc[w].outcome)
           list == submissions[req(w)]
<1>1. /\ pc[w] = "store_execution" /\ submissions' = submissions /\ answered' = answered
      /\ db' = [db EXCEPT ![req(w)].executions[execution_status(loc[w].outcome)] = @ + 1,
                          ![req(w)].state = state_written(w, s)]
      /\ loc' = [loc EXCEPT ![w].state = s] /\ pc' = [pc EXCEPT ![w] = "completed_event"]
  BY DEF store_execution, goto, world
<1>2. Finds(w) /\ loc[w] \in Locals /\ req(w) \in Requests
  BY <1>1, Meets
<1>3. /\ db[req(w)].state = loc[w].state /\ db[req(w)].state = "EXECUTING"
      /\ IF loc[w].outcome THEN Len(list) = 1 ELSE list = <<>>
  BY <1>1, <1>2 DEF Finds, InTurn, Working
<1>4. Len(<<>>) = 0
  OBVIOUS
<1>5. s \in Finished /\ s = IF Len(list) = 1 THEN "EXECUTED" ELSE "FAILED_SAFE"
  BY <1>3, <1>4 DEF executed_state, Finished
<1> HIDE DEF s
<1>6. state_written(w, s) = s
  BY <1>3 DEF state_written
<1>7. /\ db'[req(w)].state = s /\ SameButState(db[req(w)], db'[req(w)])
      /\ \A q \in Requests \ {req(w)} : db'[q] = db[q]
  BY <1>1, <1>2, <1>6, Typed DEF SameButState, RequestRows
<1>8. /\ pc'[w] = "completed_event" /\ loc'[w].request = loc[w].request /\ loc'[w].state = s
  BY <1>1, <1>2, Typed DEF Locals
<1>9. InTurn(db'[req(w)], submissions[req(w)], answered[req(w)], "completed_event", loc'[w])
  BY <1>5, <1>7, <1>8 DEF InTurn, Working
<1>10. Leads(db[req(w)].state, s, Len(submissions[req(w)])) /\ s # "APPROVAL_REQUIRED"
  BY <1>3, <1>5 DEF Leads, Finished
<1>11. QED
  BY <1>1, <1>7, <1>8, <1>9, <1>10, StateStep

LEMMA OrderlyDecided ==
    ASSUME OneHandler, IInv, IInv', Serial, Audit, NEW w \in Workers, set_decided(w)
    PROVE  Ordered
<1> DEFINE d == loc[w].decision
           old == db[req(w)]
           s == decided_state(d)
           lab == IF d = "ALLOW" THEN "idle"
                  ELSE IF blocks(d) THEN "blocked_calls" ELSE "approval_event"
<1>1. pc[w] = "set_decided" /\ pc[w] # "idle" /\ submissions' = submissions /\ answered' = answered
  BY DEF set_decided, world
<1>2. /\ Finds(w) /\ loc[w] \in Locals /\ d \in Decisions /\ RowShows(old)
      /\ Reviewed(old, pc[w], loc[w])
  BY <1>1, Meets, RunningShows, Running DEF Knows, Decided
<1>3. db' = [db EXCEPT ![req(w)].state = state_written(w, s)] /\ pc'[w] = lab
  BY <1>2, Typed DEF set_decided, write_state, decided_state, finish, goto, Decisions
<1>4. d # "ALLOW" => loc' = [loc EXCEPT ![w].state = s]
  BY DEF set_decided, write_state
<1>5. /\ old.state = loc[w].state /\ old.state \in {"PLAN_CREATED", "APPROVAL_REQUIRED"}
      /\ d = "REQUIRE_APPROVAL" => NeedsReview(old)
  BY <1>1, <1>2 DEF Finds, InTurn
<1>6. d = "ALLOW" => old.state = "PLAN_CREATED"
  <2>1. d = "ALLOW" => ~NeedsReview(old)
    BY <1>1, <1>2 DEF Reviewed
  <2>2. Orderly(old, submissions[req(w)], answered[req(w)])
    BY <1>1, Meets
  <2>3. QED
    BY <1>5, <2>1, <2>2 DEF Orderly
<1>7. /\ d = "ALLOW" => s = "ALLOWED"
      /\ d = "REQUIRE_APPROVAL" => s = "APPROVAL_REQUIRED"
      /\ d \in {"DENY", "QUARANTINE"} => s \in {"DENIED", "QUARANTINED"}
  BY DEF decided_state
<1>8. /\ lab = "idle" \/ d # "ALLOW"
      /\ lab = "blocked_calls" => d \in {"DENY", "QUARANTINE"}
      /\ lab = "approval_event" => d = "REQUIRE_APPROVAL"
      /\ lab \in {"idle", "blocked_calls", "approval_event"}
  BY <1>2 DEF blocks, Decisions
<1> HIDE DEF d, s, lab
<1>9. /\ db'[req(w)].state = s /\ SameButState(old, db'[req(w)])
      /\ \A q \in Requests \ {req(w)} : db'[q] = db[q]
  BY <1>1, <1>3, <1>5, WritesState
<1>10. d # "ALLOW" => loc'[w].request = loc[w].request /\ loc'[w].state = s
  BY <1>2, <1>4, Typed DEF Locals
<1>11. lab # "idle" => InTurn(db'[req(w)], submissions[req(w)], answered[req(w)], lab, loc'[w])
  BY <1>7, <1>8, <1>9, <1>10 DEF InTurn, Working, Stopped
<1>12. s = old.state \/ Leads(old.state, s, Len(submissions[req(w)]))
  <2>1. d \in {"ALLOW", "DENY", "QUARANTINE", "REQUIRE_APPROVAL"}
    BY <1>2 DEF Decisions, d
  <2>2. QED
    BY <1>5, <1>6, <1>7, <2>1 DEF Leads
<1>13. s = "APPROVAL_REQUIRED" => NeedsReview(old)
  BY <1>2, <1>5, <1>7 DEF Decisions, d
<1>14. lab # "idle" => loc'[w].request = loc[w].request
  BY <1>8, <1>10
<1> HIDE DEF old
<1>15. QED
  BY <1>1, <1>3, <1>9, <1>11, <1>12, <1>13, <1>14, StateStep DEF old

LEMMA OrderlyGrant ==
    ASSUME OneHandler, IInv, IInv', Serial, NEW w \in Workers, grant(w)
    PROVE  Ordered
<1>1. /\ pc[w] = "grant" /\ submissions' = submissions /\ answered' = answered /\ loc' = loc
      /\ pc' = [pc EXCEPT ![w] = "granted_event"]
      /\ \E rows : db' = [db EXCEPT ![req(w)].approved = rows,
                                    ![req(w)].state = state_written(w, "APPROVED")]
  BY DEF grant, goto, world
<1>2. Finds(w) /\ loc[w] \in Locals /\ req(w) \in Requests
  BY <1>1, Meets
<1>3. db[req(w)].state = loc[w].state /\ db[req(w)].state = "APPROVAL_REQUIRED"
  BY <1>1, <1>2 DEF Finds, InTurn
<1>4. state_written(w, "APPROVED") = "APPROVED"
  BY <1>3 DEF state_written
<1>5. /\ db'[req(w)].state = "APPROVED" /\ SameButState(db[req(w)], db'[req(w)])
      /\ \A q \in Requests \ {req(w)} : db'[q] = db[q]
  BY <1>1, <1>2, <1>4, Typed DEF SameButState, RequestRows
<1>6. pc'[w] = "granted_event" /\ loc'[w].request = loc[w].request
  BY <1>1, Typed
<1>7. InTurn(db'[req(w)], submissions[req(w)], answered[req(w)], "granted_event", loc'[w])
  BY DEF InTurn, Working
<1>8. Leads(db[req(w)].state, "APPROVED", Len(submissions[req(w)]))
  BY <1>3 DEF Leads
<1>9. QED
  BY <1>1, <1>5, <1>6, <1>7, <1>8, StateStep

LEMMA OrderlyRefuse ==
    ASSUME OneHandler, IInv, IInv', Serial, NEW w \in Workers, refuse(w)
    PROVE  Ordered
<1> DEFINE r == req(w)
<1>1. /\ pc[w] = "refuse" /\ submissions' = submissions /\ answered' = answered /\ loc' = loc
      /\ pc' = [pc EXCEPT ![w] = "refused_event"]
      /\ db' = [db EXCEPT ![r].rejected = @ + 1, ![r].state = state_written(w, "REJECTED")]
  BY DEF refuse, goto, world
<1>2. Finds(w) /\ r \in Requests /\ Orderly(db[r], submissions[r], answered[r])
  BY <1>1, Meets
<1>3. db[r].state = loc[w].state /\ db[r].state = "APPROVAL_REQUIRED"
  BY <1>1, <1>2 DEF Finds, InTurn
<1>4. state_written(w, "REJECTED") = "REJECTED"
  BY <1>3 DEF state_written
<1>5. /\ db'[r].state = "REJECTED" /\ db'[r].plans = db[r].plans
      /\ db'[r].idempotency = db[r].idempotency
      /\ \A q \in Requests \ {r} : Keeps(q)
  BY <1>1, <1>2, <1>4, Typed DEF RequestRows, Keeps
<1>6. Orderly(db'[r], submissions'[r], answered'[r])
  BY <1>1, <1>2, <1>3, <1>5 DEF Orderly, Untried, Unanswered
<1>7. Moved(db[r].state, Len(submissions[r]), db'[r].state, Len(submissions'[r]))
  BY <1>1, <1>3, <1>5 DEF Moved, Leads
<1>8. pc'[w] = "refused_event" /\ req(w)' = r
  BY <1>1, Typed DEF req
<1>9. InTurn(db'[r], submissions'[r], answered'[r], pc'[w], loc'[w])
  BY <1>8 DEF InTurn, Working
<1> HIDE DEF r
<1>10. QED
  BY <1>2, <1>5, <1>6, <1>7, <1>8, <1>9, OneStep

(* A plan is inserted where there was none, and replaced where there is.   *)
LEMMA OrderlyPersist ==
    ASSUME OneHandler, IInv, IInv', Serial, NEW w \in Workers, persist_plan(w)
    PROVE  Ordered
<1> DEFINE r == req(w)
           rows == db[r].plans
           plan == proposed_plan(w)
           stored == IF loc[w].plan = None THEN Append(rows, plan)
                     ELSE IF loc[w].plan = plan THEN rows
                     ELSE [rows EXCEPT ![1] = plan]
<1>1. /\ pc[w] = "persist_plan" /\ submissions' = submissions /\ answered' = answered /\ loc' = loc
      /\ pc' = [pc EXCEPT ![w] = "plan_event"]
      /\ db' = [db EXCEPT ![r].plans = stored, ![r].state = state_written(w, "PLAN_CREATED")]
  BY DEF persist_plan, goto, world
<1>2. /\ Finds(w) /\ r \in Requests /\ Orderly(db[r], submissions[r], answered[r])
      /\ rows \in Seq(ActionPlans)
  BY <1>1, Meets, Running DEF RequestRows
<1>3. /\ db[r].state = loc[w].state /\ db[r].state \in {"DRAFT", "PLAN_CREATED"}
      /\ loc[w].plan = None => rows = <<>>
  BY <1>1, <1>2 DEF Finds, InTurn
<1>4. stored = <<>> \/ Len(stored) = 1
  <2>1. rows = <<>> \/ Len(rows) = 1
    BY <1>2 DEF Orderly
  <2> HIDE DEF plan, rows
  <2>2. Append(<<>>, plan) = <<plan>> /\ Len(<<plan>>) = 1
    OBVIOUS
  <2>3. rows = <<>> => [rows EXCEPT ![1] = plan] = <<>>
    OBVIOUS
  <2>4. Len(rows) = 1 => Len([rows EXCEPT ![1] = plan]) = 1
    BY <1>2
  <2>5. QED
    BY <1>3, <2>1, <2>2, <2>3, <2>4
<1>5. state_written(w, "PLAN_CREATED") = "PLAN_CREATED"
  BY <1>3 DEF state_written
<1> HIDE DEF stored
<1>6. /\ db'[r].state = "PLAN_CREATED" /\ db'[r].plans = stored
      /\ db'[r].rejected = db[r].rejected /\ db'[r].idempotency = db[r].idempotency
      /\ \A q \in Requests \ {r} : Keeps(q)
  BY <1>1, <1>2, <1>5, Typed DEF RequestRows, Keeps
<1>7. Orderly(db'[r], submissions'[r], answered'[r])
  BY <1>1, <1>2, <1>3, <1>4, <1>6 DEF Orderly, Untried, Unanswered
<1>8. Moved(db[r].state, Len(submissions[r]), db'[r].state, Len(submissions'[r]))
  BY <1>1, <1>3, <1>6 DEF Moved, Leads
<1>9. pc'[w] = "plan_event" /\ req(w)' = r
  BY <1>1, Typed DEF req
<1>10. InTurn(db'[r], submissions'[r], answered'[r], pc'[w], loc'[w])
  BY <1>9 DEF InTurn, Working
<1> HIDE DEF r
<1>11. QED
  BY <1>2, <1>6, <1>7, <1>8, <1>9, <1>10, OneStep

(* The answer of a call is the first under its key.                        *)
LEMMA FirstAnswer ==
    ASSUME IInv, NEW w \in Workers, answer(w), req(w) \in Requests, loc[w] \in Locals,
           \A k \in Keys : answered[req(w)][k] = {}
    PROVE  /\ \A q \in Requests \ {req(w)} : answered'[q] = answered[q]
           /\ \A k \in Keys : answered'[req(w)][k]
                                = IF k = loc[w].key THEN {receipt(w)} ELSE {}
<1>1. answered \in [Requests -> [Keys -> SUBSET Receipts]] /\ None \notin Keys
  BY NoneAssumption DEF IInv, TypeOK
<1>2. CASE loc[w].key = None
  BY <1>1, <1>2 DEF answer
<1>3. CASE loc[w].key # None
  <2>1. loc[w].key \in Keys
    BY <1>3 DEF Locals
  <2>2. answered' = [answered EXCEPT ![req(w)][loc[w].key] = @ \cup {receipt(w)}]
    BY <1>3 DEF answer
  <2>3. QED
    BY <1>1, <2>1, <2>2
<1>4. QED
  BY <1>2, <1>3

LEMMA OrderlyIssued ==
    ASSUME OneHandler, IInv, IInv', Serial, NEW w \in Workers, set_issued(w)
    PROVE  Ordered
<1> DEFINE r == req(w)
<1>1. pc[w] = "set_issued" /\ submissions' = submissions
      /\ db' = [db EXCEPT ![r].state = state_written(w, "RECEIPT_ISSUED")]
  BY DEF set_issued, write_state
<1>2. /\ Finds(w) /\ r \in Requests /\ Orderly(db[r], submissions[r], answered[r])
      /\ loc[w] \in Locals
  BY <1>1, Meets
<1>3. db[r].state = loc[w].state /\ db[r].state \in Stopped \cup Finished
  BY <1>1, <1>2 DEF Finds, InTurn
<1>4. Unanswered(db[r], answered[r]) /\ db[r].state # "REJECTED"
  BY <1>2, <1>3 DEF Orderly, Stopped, Finished
<1>5. Leads(db[r].state, "RECEIPT_ISSUED", Len(submissions[r]))
  BY <1>3 DEF Leads
<1>6. /\ db'[r].state = "RECEIPT_ISSUED" /\ SameButState(db[r], db'[r])
      /\ \A q \in Requests \ {r} : db'[q] = db[q]
  BY <1>1, <1>3, WritesState
<1>7. CASE executes(w) /\ loc[w].key # None
  <2>1. /\ loc' = [loc EXCEPT ![w].state = "RECEIPT_ISSUED"]
        /\ pc' = [pc EXCEPT ![w] = "store_key"] /\ answered' = answered
    BY <1>7 DEF set_issued, write_state, goto
  <2>2. /\ pc'[w] = "store_key" /\ loc'[w].request = loc[w].request
        /\ loc'[w].state = "RECEIPT_ISSUED"
    BY <1>2, <2>1, Typed DEF Locals
  <2>3. InTurn(db'[r], submissions[r], answered[r], "store_key", loc'[w])
    BY <1>4, <1>6, <2>2 DEF InTurn, Working, Unanswered, SameButState
  <2>4. QED
    BY <1>1, <1>5, <1>6, <2>1, <2>2, <2>3, StateStep
<1>8. CASE ~(executes(w) /\ loc[w].key # None)
  <2>1. answer(w) /\ finish(w)
    BY <1>8 DEF set_issued
  <2>2. pc'[w] = "idle"
    BY <2>1, Leaving DEF GoesTo
  <2>3. /\ \A q \in Requests \ {r} : answered'[q] = answered[q]
        /\ \A k \in Keys : answered'[r][k] = IF k = loc[w].key THEN {receipt(w)} ELSE {}
    BY <1>2, <1>4, <2>1, FirstAnswer DEF Unanswered
  <2>4. \A q \in Requests \ {r} : Keeps(q)
    BY <1>1, <1>6, <2>3 DEF Keeps
  <2>5. ASSUME NEW k \in Keys PROVE Agree(answered'[r][k], db'[r].idempotency[k])
    BY <1>4, <1>6, <2>3 DEF Agree, Unanswered, SameButState
  <2>6. Orderly(db'[r], submissions'[r], answered'[r])
    BY <1>1, <1>2, <1>4, <1>6, <2>5, NoneAssumption DEF Orderly, SameButState, Untried, States
  <2>7. Moved(db[r].state, Len(submissions[r]), db'[r].state, Len(submissions'[r]))
    BY <1>1, <1>5, <1>6 DEF Moved
  <2> HIDE DEF r
  <2>8. QED
    BY <1>2, <2>2, <2>4, <2>6, <2>7, OneStep
<1>9. QED
  BY <1>7, <1>8

LEMMA OrderlyStoreKey ==
    ASSUME OneHandler, IInv, IInv', Serial, NEW w \in Workers, store_key(w)
    PROVE  Ordered
<1> DEFINE r == req(w)
           k == loc[w].key
<1>1. pc[w] = "store_key" /\ submissions' = submissions /\ finish(w)
  BY DEF store_key
<1>2. /\ Finds(w) /\ r \in Requests /\ Orderly(db[r], submissions[r], answered[r])
      /\ loc[w] \in Locals /\ k \in Keys
  BY <1>1, Meets, Running DEF Knows, Locals
<1>3. db[r].state = "RECEIPT_ISSUED" /\ Unanswered(db[r], answered[r])
  BY <1>1, <1>2 DEF Finds, InTurn
<1>4. db' = [db EXCEPT ![r].idempotency[k] = receipt(w)] /\ answer(w)
  BY <1>2, <1>3 DEF store_key, Unanswered
<1>5. /\ \A q \in Requests \ {r} : answered'[q] = answered[q]
      /\ \A j \in Keys : answered'[r][j] = IF j = k THEN {receipt(w)} ELSE {}
  BY <1>2, <1>3, <1>4, FirstAnswer DEF Unanswered
<1>6. /\ db'[r].state = db[r].state /\ db'[r].policy = db[r].policy
      /\ db'[r].plans = db[r].plans /\ db'[r].rejected = db[r].rejected
      /\ \A j \in Keys : db'[r].idempotency[j] = IF j = k THEN receipt(w) ELSE None
      /\ \A q \in Requests \ {r} : db'[q] = db[q]
  BY <1>2, <1>3, <1>4, Typed DEF RequestRows, Unanswered
<1>7. ASSUME NEW j \in Keys PROVE Agree(answered'[r][j], db'[r].idempotency[j])
  BY <1>5, <1>6 DEF Agree
<1>8. Orderly(db'[r], submissions'[r], answered'[r])
  BY <1>1, <1>2, <1>3, <1>6, <1>7, NoneAssumption DEF Orderly, Untried, States
<1>9. Moved(db[r].state, Len(submissions[r]), db'[r].state, Len(submissions'[r]))
  BY <1>1, <1>6 DEF Moved
<1>10. \A q \in Requests \ {r} : Keeps(q)
  BY <1>1, <1>5, <1>6 DEF Keeps
<1>11. pc'[w] = "idle"
  BY <1>1, Leaving DEF GoesTo
<1> HIDE DEF r
<1>12. QED
  BY <1>2, <1>8, <1>9, <1>10, <1>11, OneStep

-----------------------------------------------------------------------------
(* Calls that arrive, and the rest of the world.                           *)

LEMMA OrderlyCreate ==
    ASSUME OneHandler, IInv, IInv', Serial, NEW w \in Workers, NEW r \in Requests,
           NEW p \in Policies, NEW d \in Documents, create_request(w, r, p, d)
    PROVE  Ordered
<1> DEFINE row == [NoRows EXCEPT !.state = "DRAFT", !.policy = p, !.document = d]
           l == [Idle EXCEPT !.op = "create", !.request = r, !.state = "DRAFT"]
<1>1. /\ db[r].state = None /\ db' = [db EXCEPT ![r] = row]
      /\ submissions' = submissions /\ answered' = answered
      /\ loc' = [loc EXCEPT ![w] = l] /\ pc' = [pc EXCEPT ![w] = "received_event"]
  BY DEF create_request, goto, world
<1>2. /\ row.state = "DRAFT" /\ row.plans = <<>> /\ row.rejected = 0
      /\ \A k \in Keys : row.idempotency[k] = None
  BY DEF NoRows
<1>3. l.request = r /\ l.state = "DRAFT"
  BY DEF Idle
<1> HIDE DEF row, l
<1>4. db'[r] = row /\ pc'[w] = "received_event" /\ loc'[w] = l /\ req(w)' = r
  BY <1>1, <1>3, Typed DEF req
<1>5. \A q \in Requests \ {r} : Keeps(q)
  BY <1>1, Typed DEF Keeps
<1>6. Orderly(db[r], submissions[r], answered[r])
  BY DEF Serial
<1>7. submissions[r] = <<>> /\ \A k \in Keys : answered[r][k] = {}
  BY <1>1, <1>6, NoneAssumption DEF Orderly, Unanswered, Untried, States
<1>8. Orderly(db'[r], submissions'[r], answered'[r])
  BY <1>1, <1>2, <1>4, <1>7 DEF Orderly, Unanswered, Agree
<1>9. InTurn(db'[r], submissions'[r], answered'[r], pc'[w], loc'[w])
  BY <1>2, <1>3, <1>4 DEF InTurn, Working
<1>10. Moved(db[r].state, Len(submissions[r]), db'[r].state, Len(submissions'[r]))
  BY <1>1, <1>2, <1>4 DEF Moved, Leads
<1>11. QED
  BY <1>4, <1>5, <1>8, <1>9, <1>10, OneStep

LEMMA OrderlyArrival ==
    ASSUME OneHandler, IInv, IInv', Serial, NEW w \in Workers, NEW r \in Requests,
           NEW op \in Operations, NEW key \in Keys \cup {None}, read_request(w, r, op, key)
    PROVE  Ordered
<1> DEFINE l == [Idle EXCEPT !.op = op, !.request = r, !.key = key, !.state = db[r].state,
                             !.active_at_start = policy_status[db[r].policy] = "ACTIVE"]
           lab == IF key # None THEN "read_key" ELSE "read_policy"
<1>1. /\ db' = db /\ submissions' = submissions /\ answered' = answered
      /\ loc' = [loc EXCEPT ![w] = l] /\ pc' = [pc EXCEPT ![w] = lab]
      /\ op = "custom_plan" => called_by_scenario(r)
      /\ key # None \/ db[r].state \in legal_states(op)
  BY DEF read_request, goto
<1>2. l.op = op /\ l.request = r /\ l.state = db[r].state
  BY DEF Idle
<1> HIDE DEF l
<1>3. pc'[w] = lab /\ loc'[w] = l /\ req(w)' = r
  BY <1>1, <1>2, Typed DEF req
<1>4. key = None => db[r].state \in admits(op)
  BY <1>1 DEF admits, called_by_scenario
<1>5. InTurn(db[r], submissions[r], answered[r], pc'[w], loc'[w])
  BY <1>2, <1>3, <1>4 DEF InTurn, Working
<1>6. AllAlike
  BY <1>1 DEF AllAlike, Alike
<1>7. QED
  BY <1>1, <1>3, <1>5, <1>6, QuietStep

LEMMA OrderlyStill ==
    ASSUME OneHandler, IInv, IInv', Serial, db' = db, submissions' = submissions,
           answered' = answered, pc' = pc, loc' = loc
    PROVE  Ordered
<1>1. Follows
  BY StillFollows
<1>2. Serial'
  BY DEF Serial, req
<1>3. QED
  BY <1>1, <1>2 DEF Ordered

LEMMA OrderlyCrash ==
    ASSUME OneHandler, IInv, IInv', Serial, NEW w \in Workers, crash(w)
    PROVE  Ordered
  BY UnchangedAlike, Leaving, QuietlyOn DEF crash

LEMMA OrderlySwap ==
    ASSUME OneHandler, IInv, IInv', Serial, NEW r \in Requests, swap_plan(r)
    PROVE  Ordered
<1> DEFINE rows == db[r].plans
           plan == [rows[1] EXCEPT !.goal = "changed"]
           changed == [rows EXCEPT ![1] = plan]
<1>1. /\ rows # <<>> /\ db' = [db EXCEPT ![r].plans = changed]
      /\ submissions' = submissions /\ answered' = answered /\ pc' = pc /\ loc' = loc
  BY DEF swap_plan, world
<1>2. rows \in Seq(ActionPlans) /\ Orderly(db[r], submissions[r], answered[r])
  BY Typed DEF RequestRows, Serial
<1>3. Len(rows) = 1
  BY <1>1, <1>2 DEF Orderly
<1>4. Len(changed) = 1
  BY <1>2, <1>3
<1> HIDE DEF plan, changed
<1>5. /\ db'[r].state = db[r].state /\ db'[r].plans = changed /\ db'[r].policy = db[r].policy
      /\ db'[r].rejected = db[r].rejected /\ db'[r].idempotency = db[r].idempotency
      /\ \A q \in Requests \ {r} : db'[q] = db[q]
  BY <1>1, Typed DEF RequestRows
<1>6. Orderly(db'[r], submissions[r], answered[r])
  BY <1>2, <1>4, <1>5 DEF Orderly, Unanswered, NeedsReview
<1>7. ASSUME NEW w \in Workers, pc[w] # "idle"
      PROVE  InTurn(db'[req(w)], submissions[req(w)], answered[req(w)], pc[w], loc[w])
  <2>1. InTurn(db[req(w)], submissions[req(w)], answered[req(w)], pc[w], loc[w])
        /\ req(w) \in Requests
    BY <1>7, Meets DEF Finds
  <2>2. CASE req(w) # r
    BY <1>5, <2>1, <2>2
  <2>3. CASE req(w) = r
    BY <1>1, <1>5, <2>1, <2>3 DEF InTurn, Unanswered, NeedsReview
  <2>4. QED
    BY <2>2, <2>3
<1>8. Serial'
  BY <1>1, <1>5, <1>6, <1>7 DEF Serial, req
<1>9. Follows
  BY <1>1, <1>5, StillFollows
<1>10. QED
  BY <1>8, <1>9 DEF Ordered

LEMMA OrderlyFirst == Init => Serial /\ Flow!Init
<1> SUFFICES ASSUME Init PROVE Serial /\ Flow!Init
  OBVIOUS
<1>1. ASSUME NEW r \in Requests PROVE Orderly(db[r], submissions[r], answered[r])
  <2>1. /\ db[r] = NoRows /\ submissions[r] = <<>> /\ \A k \in Keys : answered[r][k] = {}
    BY DEF Init
  <2>2. /\ db[r].state = None /\ db[r].plans = <<>> /\ db[r].rejected = 0
        /\ \A k \in Keys : db[r].idempotency[k] = None
    BY <2>1 DEF NoRows
  <2>3. QED
    BY <2>1, <2>2, NoneAssumption DEF Orderly, Unanswered, Agree, States
<1>2. Serial
  BY <1>1 DEF Serial, Init
<1>3. Flow!Init
  <2>1. \A r \in Requests : db[r].state = None /\ Len(submissions[r]) = 0
    BY DEF Init, NoRows
  <2>2. QED
    BY <2>1 DEF Flow!Init
<1>4. QED
  BY <1>2, <1>3

LEMMA OrderlyNext ==
    ASSUME OneHandler PROVE IInv /\ IInv' /\ Audit /\ Serial /\ [Next]_vars => Ordered
<1> SUFFICES ASSUME IInv, IInv', Audit, Serial, [Next]_vars PROVE Ordered
  OBVIOUS
<1>1. ASSUME NEW w \in Workers, arrive(w) PROVE Ordered
  BY <1>1, OrderlyCreate, OrderlyArrival DEF arrive
<1>2. ASSUME NEW w \in Workers, step(w) PROVE Ordered
  BY <1>2, OrderlyEvents, OrderlyCounts, OrderlyReadKey, OrderlyReadPolicy, OrderlyReadPlan,
     OrderlyReadApproval, OrderlyDecide, OrderlyReceiptEvent, OrderlyRunTools, OrderlyExecuting,
     OrderlyBlocked, OrderlyStoreExecution, OrderlyDecided, OrderlyGrant, OrderlyRefuse,
     OrderlyPersist, OrderlyIssued, OrderlyStoreKey DEF step
<1>3. ASSUME (\E p \in Policies : revoke(p)) \/ tick \/ UNCHANGED vars PROVE Ordered
  BY <1>3, OrderlyStill DEF revoke, tick, vars
<1>4. QED
  BY <1>1, <1>2, <1>3, OrderlyCrash, OrderlySwap DEF Next

LEMMA AtMostOne ==
    ASSUME NEW list, list = <<>> \/ Len(list) = 1 PROVE Len(list) <= 1
<1>1. CASE list = <<>>
  <2>1. Len(<<>>) = 0 /\ 0 <= 1
    OBVIOUS
  <2>2. QED
    BY <1>1, <2>1
<1>2. CASE Len(list) = 1
  <2> DEFINE n == Len(list)
  <2>1. n = 1
    BY <1>2
  <2> HIDE DEF n
  <2>2. n <= 1
    BY <2>1
  <2>3. QED
    BY <2>2 DEF n
<1>3. QED
  BY <1>1, <1>2

(* One call at a time, every request is orderly between its calls, and     *)
(* every handler finds the request as it left it.                          *)
THEOREM SerialInvariance == ASSUME OneHandler PROVE Spec => []Serial
<1>1. Init => Serial
  BY OrderlyFirst
<1>2. IInv /\ IInv' /\ Audit /\ Serial /\ [Next]_vars => Serial'
  BY OrderlyNext DEF Ordered
<1>3. QED
  BY <1>1, <1>2, AuditInvariance, PTL DEF Spec

(* The financial action happens once.                                      *)
THEOREM SubmitsOnce == ASSUME OneHandler PROVE Spec => []AtMostOneSubmission
<1>1. ASSUME Serial PROVE AtMostOneSubmission
  <2>1. ASSUME NEW r \in Requests PROVE Len(submissions[r]) <= 1
    <3>1. submissions[r] = <<>> \/ Len(submissions[r]) = 1
      BY <1>1 DEF Serial, Orderly
    <3>2. QED
      BY <3>1, AtMostOne
  <2>2. QED
    BY <2>1 DEF AtMostOneSubmission
<1>2. QED
  BY <1>1, SerialInvariance, PTL

(* A rejected request is never executed.                                   *)
THEOREM RejectionHolds == ASSUME OneHandler PROVE Spec => []RejectedNeverSubmitted
<1>1. Serial => RejectedNeverSubmitted
  BY DEF Serial, Orderly, Untried, RejectedNeverSubmitted
<1>2. QED
  BY <1>1, SerialInvariance, PTL

(* A request has one plan, so that every later load of it succeeds.        *)
THEOREM OnePlan == ASSUME OneHandler PROVE Spec => []AtMostOnePlanRow
<1>1. ASSUME Serial PROVE AtMostOnePlanRow
  <2>1. ASSUME NEW r \in Requests PROVE Len(db[r].plans) <= 1
    <3>1. db[r].plans = <<>> \/ Len(db[r].plans) = 1
      BY <1>1 DEF Serial, Orderly
    <3>2. QED
      BY <3>1, AtMostOne
  <2>2. QED
    BY <2>1 DEF AtMostOnePlanRow
<1>2. QED
  BY <1>1, SerialInvariance, PTL

(* Every retry under a key is given the answer of the call it repeats.     *)
THEOREM AnswersAgree == ASSUME OneHandler PROVE Spec => []OneAnswerPerKey
<1>1. ASSUME Serial PROVE OneAnswerPerKey
  <2>1. ASSUME NEW r \in Requests, NEW k \in Keys
        PROVE  /\ Cardinality(answered[r][k]) <= 1
               /\ db[r].idempotency[k] # None => answered[r][k] \subseteq {db[r].idempotency[k]}
    <3>1. Agree(answered[r][k], db[r].idempotency[k])
      BY <1>1 DEF Serial, Orderly
    <3>2. answered[r][k] = {} \/ \E x : answered[r][k] = {x}
      BY <3>1 DEF Agree
    <3>3. Cardinality(answered[r][k]) <= 1
      <4>1. CASE answered[r][k] = {}
        BY <4>1, FS_EmptySet
      <4>2. ASSUME NEW x, answered[r][k] = {x} PROVE Cardinality(answered[r][k]) <= 1
        BY <4>2, FS_Singleton
      <4>3. QED
        BY <3>2, <4>1, <4>2
    <3>4. QED
      BY <3>1, <3>3 DEF Agree
  <2>2. QED
    BY <2>1 DEF OneAnswerPerKey
<1>2. QED
  BY <1>1, SerialInvariance, PTL

(* Handled one call at a time, whatever crashes, revocations and swapped   *)
(* plans come between, a request moves along the documented flow alone.    *)
THEOREM FlowRefinement == ASSUME OneHandler PROVE Spec => FollowsDocumentedFlow
<1>1. Init => Flow!Init
  BY OrderlyFirst
<1>2. IInv /\ IInv' /\ Audit /\ Serial /\ [Next]_vars => [Flow!Next]_(Flow!flow)
  BY OrderlyNext DEF Ordered, Follows
<1>3. QED
  BY <1>1, <1>2, AuditInvariance, SerialInvariance, PTL DEF Spec, Flow!Spec, FollowsDocumentedFlow

=============================================================================
