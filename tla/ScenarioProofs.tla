---------------------------- MODULE ScenarioProofs ----------------------------
(***************************************************************************)
(* The security lab beside operators, for any number of requests, workers, *)
(* keys and calls: the lifecycle's safety under a session that does not    *)
(* read its rows again, that people approve only what the gate has sent to *)
(* them, and that an attack which is reported was quarantined.             *)
(*                                                                         *)
(* A scenario's statements are the lifecycle's, so the lemmas of           *)
(* LifecycleProofs and EvidenceProofs carry IInv and Audit over them; what *)
(* is new is a call that starts from the session's state (begin_operation),*)
(* a plan that is not read again (read_held_plan) and the tampering        *)
(* (commit_swap).  Two invariants are added: RInv, on the plans that a     *)
(* request under review can carry, and SInv, on what the session holds.    *)
(***************************************************************************)
EXTENDS Scenarios, LifecycleRefinement

-----------------------------------------------------------------------------
(* The plans of a request under review.                                    *)

OwnPlan(row) == P!build_plan(Delegations[row.policy])

Asked(row) == \E e \in row.evaluations : e.decision = "REQUIRE_APPROVAL"

OwnPlanAsked(row) ==
    [decision |-> "REQUIRE_APPROVAL", plan_hash |-> OwnPlan(row)] \in row.evaluations

(* Under review there is the delegation's own plan, and once the gate has  *)
(* asked for an approval also that plan with another goal.                 *)
Proper(row, plan) ==
    NeedsReview(row) => \/ plan = OwnPlan(row)
                        \/ plan = Changed(OwnPlan(row)) /\ Asked(row)

RowReview(row) ==
    /\ \A i \in DOMAIN row.plans : Proper(row, row.plans[i])
    /\ Asked(row) => NeedsReview(row) /\ OwnPlanAsked(row)
    /\ \A j \in DOMAIN row.approved :
          Asked(row) /\ Proper(row, row.approved[j].approved_plan_hash)
    /\ row.document = InjectedDocument => \A e \in row.evaluations : e.decision = "QUARANTINE"

HandlerReview(row, lab, l) ==
    /\ lab \in {"read_approval", "decide", "grant"} => Proper(row, l.plan)
    /\ lab \in {"read_policy", "read_plan"} /\ l.op = "approve" => Asked(row)
    /\ lab = "grant" => Asked(row)
    /\ lab = "granted_event" => row.approved # <<>>

RInv ==
    /\ \A r \in Requests : RowReview(db[r])
    /\ \A w \in Workers : pc[w] # "idle" => HandlerReview(db[req(w)], pc[w], loc[w])

-----------------------------------------------------------------------------
(* The session.                                                            *)

row_held == db[session.request]

(* Where the handler of the runner is, by where the session is.            *)
RunnerAt ==
    /\ session.at \in {"none", "ready", "tamper", "report", "reported", "raised"} =>
          pc[Runner] = "idle"
    /\ session.at \in {"refresh", "created"} => pc[Runner] = "received_event"
    /\ session.at = "running" => /\ pc[Runner] \notin {"idle", "received_event"}
                                 /\ req(Runner) = session.request
                                 /\ loc[Runner].op = next_operation
                                 /\ next_operation # "swap"

(* The request the session is about, and what it still holds of its rows.  *)
Held ==
    /\ session.script \in Scripts /\ session.request \in Requests
    /\ session.next \in 1 .. Len(operations(session.script))
    /\ row_held.state # None
    /\ row_held.policy = ScenarioPolicy[session.script]
    /\ session.script = "indirect-prompt-injection" => row_held.document = InjectedDocument
    /\ Backed(row_held, session.state)
    /\ session.plan # None => /\ session.script = "approval-replay"
                              /\ session.next \in {4, 5}
                              /\ SameReview(row_held, session.plan)
                              /\ Proper(row_held, session.plan)
    /\ session.at = "tamper" => session.plan # None /\ session.next = 4

(* How far a replay has come.                                              *)
Replay ==
    session.script = "approval-replay" =>
        /\ session.at = "running" /\ session.next = 3 =>
              pc[Runner] \in {"read_policy", "read_plan", "grant", "granted_event"}
        /\ session.next >= 4 => row_held.approved # <<>>
        /\ session.next = 5 => session.plan # None /\ tampered(session.plan)
        /\ session.at = "running" /\ session.next = 5
             /\ pc[Runner] \in {"read_approval", "decide"} => loc[Runner].plan = session.plan

(* The last operation of the script has judged the request.                *)
judged_last ==
    \/ session.at \in {"report", "reported"}
    \/ /\ session.at = "running" /\ session.next = Len(operations(session.script))
       /\ pc[Runner] \notin {"read_key", "read_policy", "read_plan", "read_approval", "decide"}

TamperedApproved(row) == \E a \in Granted(row) : tampered(a.approved_plan_hash)

(* A replay that was answered with the receipt of another execution.       *)
Repeated ==
    /\ session.script = "approval-replay" /\ session.at \in {"report", "reported"}
    /\ session.repeated /\ stored_response # None
    /\ session.decision = receipt_decision(stored_response.status)

Verdict ==
    /\ session.script \in attacks /\ judged_last =>
          \/ session.decision = "QUARANTINE"
          \/ session.script = "approval-replay" /\ TamperedApproved(row_held)
          \/ Repeated
    /\ session.script = "indirect-prompt-injection" /\ session.at = "reported" =>
          session.no_execution = TRUE

Sessions ==
    [script : Scripts \cup {None}, request : Requests \cup {None},
     at : {"none", "refresh", "created", "ready", "running", "tamper",
           "report", "reported", "raised"},
     next : 1 .. 5, state : States \cup {None}, plan : ActionPlans \cup {None},
     decision : Decisions \cup {None}, repeated : BOOLEAN, no_execution : BOOLEAN \cup {None}]

SInv ==
    /\ session \in Sessions
    /\ RunnerAt
    /\ IF session.at = "none" THEN session = NoSession ELSE Held /\ Replay /\ Verdict

(* The inductive invariant.                                                *)
JInv == IInv /\ Audit /\ RInv /\ SInv

-----------------------------------------------------------------------------
(* The gate.                                                               *)

(* An injected document quarantines whatever the plan.                     *)
LEMMA InjectionQuarantines ==
    ASSUME NEW w, document(w) = InjectedDocument
    PROVE  decision(context(w)) = "QUARANTINE"
<1>1. context(w).security = signals(w)
  BY DEF context
<1>2. InjectedDocument # None /\ InjectedDocument.injection
  BY InjectionAssumption
<1>3. signals(w).injection_detected
  BY <1>2 DEF signals, scan
<1>4. prompt_injection_not_detected(context(w)) = "FAIL"
  BY <1>1, <1>3 DEF prompt_injection_not_detected, fail_if
<1>5. QED
  BY <1>4, DecisionByRules DEF Quarantining

(* An approval of another plan quarantines.                                *)
LEMMA OtherPlanQuarantines ==
    ASSUME NEW w, loc[w].approval # None, loc[w].approval.approved_plan_hash # loc[w].plan
    PROVE  decision(context(w)) = "QUARANTINE"
<1>1. context(w).approval = loc[w].approval /\ context(w).plan_hash = loc[w].plan
  BY DEF context
<1>2. approval_binds_current_plan(context(w)) = "FAIL"
  BY <1>1 DEF approval_binds_current_plan, binds, pass_if
<1>3. QED
  BY <1>2, DecisionByRules DEF Quarantining

(* The gate asks for an approval only of a request under review.           *)
LEMMA AskedUnderReview ==
    ASSUME IInv, NEW w \in Workers, pc[w] = "decide",
           Reviewed(db[req(w)], pc[w], loc[w]),
           decision(context(w)) = "REQUIRE_APPROVAL"
    PROVE  NeedsReview(db[req(w)])
<1>1. context(w).plan = loc[w].plan /\ context(w).policy = loaded_policy(w)
  BY DEF context
<1>2. human_approval_requirement(context(w)) = "FAIL"
  BY DecisionByRules
<1>3. needs_approval(context(w).policy, context(w).plan)
  BY <1>2 DEF human_approval_requirement, fail_if
<1>4. needs_approval(Delegations[db[req(w)].policy], loc[w].plan)
  BY <1>1, <1>3, LoadedPolicy
<1>5. QED
  BY <1>4 DEF Reviewed, SameReview

-----------------------------------------------------------------------------
(* What commits keep.                                                      *)

KeepsReview(old, new) ==
    /\ Preserves(old, new)
    /\ new.document = old.document
    /\ Granted(old) \subseteq Granted(new)

(* A commit that no review looks at.                                       *)
QuietRow(old, new) ==
    /\ KeepsReview(old, new)
    /\ new.plans = old.plans
    /\ new.evaluations = old.evaluations
    /\ new.approved = old.approved

LEMMA KeepsReflexive == ASSUME NEW row PROVE QuietRow(row, row)
  BY PreservesReflexive DEF QuietRow, KeepsReview

LEMMA ReviewPreserved ==
    ASSUME NEW old, NEW new, Preserves(old, new)
    PROVE  /\ NeedsReview(new) <=> NeedsReview(old)
           /\ OwnPlan(new) = OwnPlan(old)
           /\ Asked(old) => Asked(new)
           /\ OwnPlanAsked(old) => OwnPlanAsked(new)
           /\ \A plan : /\ Proper(old, plan) => Proper(new, plan)
                        /\ SameReview(old, plan) <=> SameReview(new, plan)
  BY DEF Preserves, NeedsReview, OwnPlan, Asked, OwnPlanAsked, Proper, SameReview

LEMMA HandlerReviewPreserved ==
    ASSUME NEW old, NEW new, Preserves(old, new), NEW lab, NEW l, HandlerReview(old, lab, l)
    PROVE  HandlerReview(new, lab, l)
  BY ReviewPreserved DEF HandlerReview, Preserves

LEMMA QuietReview ==
    ASSUME NEW old, NEW new, QuietRow(old, new), RowReview(old)
    PROVE  RowReview(new)
<1>1. Asked(new) <=> Asked(old)
  BY DEF Asked, QuietRow
<1>2. QED
  BY <1>1, ReviewPreserved DEF QuietRow, KeepsReview, RowReview

(* A request with a delegation exists.                                     *)
LEMMA Existing ==
    ASSUME IInv, NEW r \in Requests, db[r].policy \in Policies
    PROVE  db[r].state # None
<1>1. NoRows.policy = None /\ None \notin Policies
  BY NoneAssumption DEF NoRows
<1>2. QED
  BY <1>1 DEF IInv, RowOK

(* A step of one handler on the rows of its request, for the others.       *)
LEMMA ReviewFrame ==
    ASSUME IInv, RInv, NEW w \in Workers,
           NEW r \in Requests, Preserves(db[r], db'[r]), RowReview(db'[r]),
           \A q \in Requests : q # r => db'[q] = db[q],
           \A v \in Workers : v # w => pc'[v] = pc[v] /\ loc'[v] = loc[v],
           pc'[w] # "idle" => /\ loc'[w].request = r
                              /\ HandlerReview(db'[r], pc'[w], loc'[w])
    PROVE  RInv'
<1>1. ASSUME NEW q \in Requests PROVE RowReview(db'[q]) /\ Preserves(db[q], db'[q])
  <2>1. CASE q = r
    BY <2>1
  <2>2. CASE q # r
    BY <2>2, PreservesReflexive DEF RInv
  <2>3. QED
    BY <2>1, <2>2
<1>2. ASSUME NEW v \in Workers, pc'[v] # "idle"
      PROVE  HandlerReview(db'[loc'[v].request], pc'[v], loc'[v])
  <2>1. CASE v = w
    BY <1>2, <2>1
  <2>2. CASE v # w
    <3>1. pc'[v] = pc[v] /\ loc'[v] = loc[v] /\ pc[v] # "idle"
      BY <1>2, <2>2
    <3>2. req(v) \in Requests /\ HandlerReview(db[req(v)], pc[v], loc[v])
      BY <3>1, Running DEF RInv
    <3>3. HandlerReview(db'[req(v)], pc[v], loc[v])
      BY <1>1, <3>2, HandlerReviewPreserved
    <3>4. QED
      BY <3>1, <3>3 DEF req
  <2>3. QED
    BY <2>1, <2>2
<1>3. QED
  BY <1>1, <1>2 DEF RInv, req

(* What the session holds outlives the steps of others.                    *)
LEMMA SessionKept ==
    ASSUME IInv', SInv, session' = session, pc'[Runner] = pc[Runner], loc'[Runner] = loc[Runner],
           \A r \in Requests : db[r].state # None => KeepsReview(db[r], db'[r]),
           ResponsesKept
    PROVE  SInv'
<1>1. session' \in Sessions /\ RunnerAt'
  BY DEF SInv, RunnerAt, req, next_operation
<1>2. CASE session.at = "none"
  BY <1>1, <1>2 DEF SInv, NoSession
<1>3. CASE session.at # "none"
  <2>1. Held /\ Replay /\ Verdict
    BY <1>3 DEF SInv
  <2>2. session.request \in Requests /\ KeepsReview(row_held, row_held')
    BY <2>1 DEF Held, row_held
  <2>3. /\ Preserves(row_held, row_held') /\ row_held'.document = row_held.document
        /\ row_held'.policy = row_held.policy
        /\ row_held.approved # <<>> => row_held'.approved # <<>>
        /\ TamperedApproved(row_held) => TamperedApproved(row_held')
    BY <2>2 DEF KeepsReview, Preserves, TamperedApproved
  <2>4. row_held'.state # None
    <3>1. ScenarioPolicy[session.script] \in Policies
      BY <2>1, ScenarioPolicyAssumption DEF Held
    <3>2. db'[session.request].policy \in Policies
      BY <2>1, <2>3, <3>1 DEF Held, row_held
    <3>3. \A r \in Requests : RowOK(db'[r])
      BY DEF IInv
    <3>4. NoRows.policy = None /\ None \notin Policies
      BY NoneAssumption DEF NoRows
    <3>5. QED
      BY <2>2, <3>2, <3>3, <3>4 DEF RowOK, row_held
  <2>5. Held'
    BY <2>1, <2>3, <2>4, BackedPreserved, ReviewPreserved DEF Held
  <2>6. Replay'
    BY <2>1, <2>3 DEF Replay
  <2>7. Verdict'
    <3>1. stored_response # None => stored_response' = stored_response
      BY <2>1, RunnerAssumption DEF ResponsesKept, Held, stored_response
    <3>2. Repeated => Repeated'
      BY <3>1 DEF Repeated
    <3>3. QED
      BY <2>1, <2>3, <3>2 DEF Verdict, judged_last
  <2>8. QED
    BY <1>1, <1>3, <2>5, <2>6, <2>7 DEF SInv
<1>4. QED
  BY <1>2, <1>3

-----------------------------------------------------------------------------
(* The statements of a handler that no review looks at: all but those that *)
(* read, judge, store or approve a plan.                                   *)

Reviewing == {"read_key", "read_policy", "read_plan", "persist_plan", "read_approval", "decide",
              "grant"}

Guarded == {"received_event", "granted_event"} \cup Reviewing

OnlyOwn(w) == \A q \in Requests : q # req(w) => db'[q] = db[q]

OthersStay(w) == \A v \in Workers : v # w => pc'[v] = pc[v] /\ loc'[v] = loc[v]

(* The handler returns, or goes on with its request and operation.         *)
GoesAhead(w) ==
    \/ pc'[w] = "idle"
    \/ pc'[w] \notin Guarded \cup {"idle"} /\ loc'[w].request = req(w) /\ loc'[w].op = loc[w].op

QuietCall(w) ==
    /\ QuietRow(db[req(w)], db'[req(w)]) /\ OnlyOwn(w)
    /\ OthersStay(w) /\ GoesAhead(w)

LEMMA LocalStep ==
    ASSUME IInv, NEW w \in Workers, NEW lab, NEW l,
           pc' = [pc EXCEPT ![w] = lab], loc' = [loc EXCEPT ![w] = l]
    PROVE  pc'[w] = lab /\ loc'[w] = l /\ OthersStay(w)
  BY DEF IInv, TypeOK, OthersStay

LEMMA QuietBy ==
    ASSUME IInv, NEW w \in Workers, pc[w] # "idle",
           NEW row, QuietRow(db[req(w)], row), db' = [db EXCEPT ![req(w)] = row],
           NEW lab, NEW l, pc' = [pc EXCEPT ![w] = lab], loc' = [loc EXCEPT ![w] = l],
           \/ lab = "idle"
           \/ lab \notin Guarded \cup {"idle"} /\ l.request = req(w) /\ l.op = loc[w].op
    PROVE  QuietCall(w)
<1>1. req(w) \in Requests /\ db \in [Requests -> RequestRows]
  BY Running DEF IInv, TypeOK
<1>2. db'[req(w)] = row /\ OnlyOwn(w)
  BY <1>1 DEF OnlyOwn
<1>3. pc'[w] = lab /\ loc'[w] = l /\ OthersStay(w)
  BY LocalStep
<1>4. QED
  BY <1>2, <1>3 DEF QuietCall, GoesAhead

LEMMA QuietEvent ==
    ASSUME IInv, NEW w \in Workers, pc[w] # "idle", NEW type, append_event(w, type),
           NEW lab, NEW l, pc' = [pc EXCEPT ![w] = lab], loc' = [loc EXCEPT ![w] = l],
           \/ lab = "idle"
           \/ lab \notin Guarded \cup {"idle"} /\ l.request = req(w) /\ l.op = loc[w].op
    PROVE  QuietCall(w)
<1> DEFINE old == db[req(w)]
           row == [old EXCEPT !.events[type] = @ + 1]
<1>1. old \in RequestRows
  BY Running
<1>2. QuietRow(old, row)
  BY <1>1 DEF RequestRows, QuietRow, KeepsReview, Preserves, Granted
<1>3. db' = [db EXCEPT ![req(w)] = row]
  BY DEF append_event
<1> HIDE DEF row, old
<1>4. QED
  BY <1>2, <1>3, QuietBy DEF old

LEMMA QuietEventSteps ==
    ASSUME IInv, NEW w \in Workers,
           \/ received_event(w) \/ plan_event(w) \/ evaluated_event(w) \/ approval_event(w)
           \/ granted_event(w) \/ refused_event(w) \/ started_event(w) \/ completed_event(w)
           \/ blocked_event(w) \/ incident_event(w) \/ receipt_event(w)
    PROVE  QuietCall(w)
<1>1. CASE \/ received_event(w) \/ plan_event(w) \/ approval_event(w)
           \/ granted_event(w) \/ refused_event(w)
  <2>1. PICK type : pc[w] # "idle" /\ append_event(w, type) /\ finish(w)
    BY <1>1 DEF received_event, plan_event, approval_event, granted_event, refused_event
  <2>2. QED
    BY <2>1, QuietEvent DEF finish
<1>2. CASE \/ evaluated_event(w) \/ started_event(w) \/ completed_event(w)
           \/ blocked_event(w) \/ incident_event(w)
  <2>1. PICK type : pc[w] # "idle" /\ append_event(w, type) /\ UNCHANGED loc
    BY <1>2 DEF evaluated_event, started_event, completed_event, blocked_event, incident_event
  <2>2. PICK lab \in {"set_decided", "run_tools", "receipt_event", "incident"} :
           pc' = [pc EXCEPT ![w] = lab]
    BY <1>2 DEF evaluated_event, started_event, completed_event, blocked_event, incident_event,
                goto
  <2>3. loc' = [loc EXCEPT ![w] = loc[w]] /\ lab \notin Guarded \cup {"idle"}
    BY <2>1, <2>2, Stays DEF Guarded, Reviewing
  <2>4. QED
    BY <2>1, <2>2, <2>3, QuietEvent DEF req
<1>3. CASE receipt_event(w)
  <2> DEFINE l == [loc[w] EXCEPT !.final_event = db[req(w)].events["RECEIPT_ISSUED"] + 1]
  <2>1. /\ pc[w] # "idle" /\ append_event(w, "RECEIPT_ISSUED") /\ loc' = [loc EXCEPT ![w] = l]
    BY <1>3 DEF receipt_event
  <2>2. PICK lab \in {"store_receipt", "no_execution"} : pc' = [pc EXCEPT ![w] = lab]
    BY <1>3 DEF receipt_event, goto
  <2>3. l.request = req(w) /\ l.op = loc[w].op
    BY <2>1, Running DEF Locals, req
  <2>4. lab \notin Guarded \cup {"idle"}
    BY <2>2 DEF Guarded, Reviewing
  <2> HIDE DEF l
  <2>5. QED
    BY <2>1, <2>2, <2>3, <2>4, QuietEvent
<1>4. QED
  BY <1>1, <1>2, <1>3

(* Commits of a state.                                                     *)
LEMMA QuietStateSteps ==
    ASSUME IInv, NEW w \in Workers,
           set_decided(w) \/ set_executing(w) \/ set_blocked(w) \/ set_issued(w)
    PROVE  QuietCall(w)
<1>1. pc[w] # "idle"
  BY DEF set_decided, set_executing, set_blocked, set_issued
<1>2. PICK s : db' = [db EXCEPT ![req(w)].state = s]
  BY DEF set_decided, set_executing, set_blocked, set_issued, write_state
<1> DEFINE row == [db[req(w)] EXCEPT !.state = s]
<1>3. QuietRow(db[req(w)], row)
  BY <1>1, Running DEF RequestRows, QuietRow, KeepsReview, Preserves, Granted
<1>4. db' = [db EXCEPT ![req(w)] = row]
  BY <1>2
<1> HIDE DEF row
<1>5. CASE finish(w)
  BY <1>1, <1>3, <1>4, <1>5, QuietBy DEF finish
<1>6. CASE ~finish(w)
  <2>1. PICK t : loc' = [loc EXCEPT ![w].state = t]
    BY <1>6 DEF set_decided, set_executing, set_blocked, set_issued, write_state
  <2>2. PICK lab \in {"blocked_calls", "approval_event", "started_event", "store_key"} :
           pc' = [pc EXCEPT ![w] = lab]
    BY <1>6 DEF set_decided, set_executing, set_blocked, set_issued, goto
  <2> DEFINE l == [loc[w] EXCEPT !.state = t]
  <2>3. loc' = [loc EXCEPT ![w] = l]
    BY <2>1
  <2>4. l.request = req(w) /\ l.op = loc[w].op
    BY <1>1, Running DEF Locals, req
  <2>5. lab \notin Guarded \cup {"idle"}
    BY <2>2 DEF Guarded, Reviewing
  <2> HIDE DEF l
  <2>6. QED
    BY <1>1, <1>3, <1>4, <2>2, <2>3, <2>4, <2>5, QuietBy
<1>7. QED
  BY <1>5, <1>6

(* Commits of rows that are counted, and of the response under a key.      *)
LEMMA QuietCountSteps ==
    ASSUME IInv, NEW w \in Workers,
           \/ refuse(w) \/ store_calls(w) \/ blocked_calls(w) \/ incident(w)
           \/ no_execution(w) \/ store_receipt(w)
    PROVE  QuietCall(w)
<1> DEFINE old == db[req(w)]
<1>1. pc[w] # "idle" /\ loc' = loc
  BY DEF refuse, store_calls, blocked_calls, incident, no_execution, store_receipt
<1>2. old \in RequestRows /\ loc' = [loc EXCEPT ![w] = loc[w]]
  BY <1>1, Running, Stays
<1>3. PICK lab \in {"refused_event", "store_execution", "blocked_event", "incident",
                    "receipt_event", "incident_event", "store_receipt", "set_issued"} :
         pc' = [pc EXCEPT ![w] = lab]
  BY DEF refuse, store_calls, blocked_calls, incident, no_execution, store_receipt, goto
<1>4. lab \notin Guarded \cup {"idle"}
  BY <1>3 DEF Guarded, Reviewing
<1>5. ASSUME NEW row, QuietRow(old, row), db' = [db EXCEPT ![req(w)] = row] PROVE QuietCall(w)
  <2> HIDE DEF old
  <2>1. QED
    BY <1>1, <1>2, <1>3, <1>4, <1>5, QuietBy DEF old, req
<1>6. CASE refuse(w)
  <2> DEFINE state == state_written(w, "REJECTED")
             row == [old EXCEPT !.rejected = @ + 1, !.state = state]
  <2>1. db' = [db EXCEPT ![req(w)] = row]
    BY <1>1, <1>6, Running DEF refuse, IInv, TypeOK
  <2> HIDE DEF state
  <2>2. QuietRow(old, row)
    BY <1>2 DEF RequestRows, QuietRow, KeepsReview, Preserves, Granted
  <2> HIDE DEF row, old
  <2>3. QED
    BY <1>5, <2>1, <2>2
<1>7. CASE store_calls(w)
  <2> DEFINE calls == [s \in DOMAIN old.tool_calls |-> old.tool_calls[s] + count_calls(w, s)]
             row == [old EXCEPT !.tool_calls = calls]
  <2>1. db' = [db EXCEPT ![req(w)] = row]
    BY <1>7 DEF store_calls
  <2> HIDE DEF calls
  <2>2. QuietRow(old, row)
    BY <1>2 DEF RequestRows, QuietRow, KeepsReview, Preserves, Granted
  <2> HIDE DEF row, old
  <2>3. QED
    BY <1>5, <2>1, <2>2
<1>8. CASE blocked_calls(w)
  <2> DEFINE n == old.tool_calls["BLOCKED"]
                    + Cardinality(signals(w).attempted_unauthorized_tools)
             calls == [old.tool_calls EXCEPT !["BLOCKED"] = n]
             row == [old EXCEPT !.tool_calls = calls]
  <2>1. db' = [db EXCEPT ![req(w)] = row]
    BY <1>8 DEF blocked_calls
  <2> HIDE DEF calls
  <2>2. QuietRow(old, row)
    BY <1>2 DEF RequestRows, QuietRow, KeepsReview, Preserves, Granted
  <2> HIDE DEF row, old
  <2>3. QED
    BY <1>5, <2>1, <2>2
<1>9. CASE incident(w)
  <2> DEFINE row == [old EXCEPT !.incidents = @ + 1]
  <2>1. db' = [db EXCEPT ![req(w)] = row]
    BY <1>9 DEF incident
  <2>2. QuietRow(old, row)
    BY <1>2 DEF RequestRows, QuietRow, KeepsReview, Preserves, Granted
  <2> HIDE DEF row, old
  <2>3. QED
    BY <1>5, <2>1, <2>2
<1>10. CASE no_execution(w)
  <2> DEFINE row == [old EXCEPT !.executions["NO_EXECUTION"] = @ + 1]
  <2>1. db' = [db EXCEPT ![req(w)] = row]
    BY <1>10 DEF no_execution
  <2>2. QuietRow(old, row)
    BY <1>2 DEF RequestRows, QuietRow, KeepsReview, Preserves, Granted
  <2> HIDE DEF row, old
  <2>3. QED
    BY <1>5, <2>1, <2>2
<1>11. CASE store_receipt(w)
  <2> DEFINE s == receipt(w).status
             row == [old EXCEPT !.receipts[s] = @ + 1]
  <2>1. db' = [db EXCEPT ![req(w)] = row]
    BY <1>11 DEF store_receipt
  <2> HIDE DEF s
  <2>2. QuietRow(old, row)
    BY <1>2 DEF RequestRows, QuietRow, KeepsReview, Preserves, Granted
  <2> HIDE DEF row, old
  <2>3. QED
    BY <1>5, <2>1, <2>2
<1>12. QED
  BY <1>6, <1>7, <1>8, <1>9, <1>10, <1>11

LEMMA QuietStoreExecution ==
    ASSUME IInv, NEW w \in Workers, store_execution(w)
    PROVE  QuietCall(w)
<1> DEFINE old == db[req(w)]
           s == execution_status(loc[w].outcome)
           state == state_written(w, executed_state(loc[w].outcome))
           row == [old EXCEPT !.executions[s] = @ + 1, !.state = state]
           l == [loc[w] EXCEPT !.state = executed_state(loc[w].outcome)]
<1>1. /\ pc[w] # "idle" /\ loc' = [loc EXCEPT ![w] = l]
      /\ pc' = [pc EXCEPT ![w] = "completed_event"]
  BY DEF store_execution, goto
<1>2. db' = [db EXCEPT ![req(w)] = row]
  BY <1>1, Running DEF store_execution, IInv, TypeOK
<1>3. l.request = req(w) /\ l.op = loc[w].op
  BY <1>1, Running DEF Locals, req
<1> HIDE DEF s, state, l
<1>4. QuietRow(old, row)
  BY <1>1, Running DEF RequestRows, QuietRow, KeepsReview, Preserves, Granted
<1> HIDE DEF row, old
<1>5. QED
  BY <1>1, <1>2, <1>3, <1>4, QuietBy DEF old, Guarded, Reviewing

LEMMA QuietStoreKey == ASSUME IInv, NEW w \in Workers, store_key(w) PROVE QuietCall(w)
<1>1. pc[w] # "idle" /\ finish(w)
  BY DEF store_key
<1>2. pc' = [pc EXCEPT ![w] = "idle"] /\ loc' = [loc EXCEPT ![w] = Idle]
  BY <1>1 DEF finish
<1>3. CASE db' = db
  <2>1. db' = [db EXCEPT ![req(w)] = db[req(w)]]
    BY <1>1, <1>3, Running DEF IInv, TypeOK
  <2>2. QED
    BY <1>1, <1>2, <2>1, KeepsReflexive, QuietBy
<1>4. CASE db' # db
  <2> DEFINE old == db[req(w)]
             row == [old EXCEPT !.idempotency[loc[w].key] = receipt(w)]
  <2>1. db' = [db EXCEPT ![req(w)] = row]
    BY <1>4 DEF store_key
  <2>2. QuietRow(old, row)
    BY <1>1, Running DEF RequestRows, QuietRow, KeepsReview, Preserves, Granted
  <2> HIDE DEF row, old
  <2>3. QED
    BY <1>1, <1>2, <2>1, <2>2, QuietBy DEF old
<1>5. QED
  BY <1>3, <1>4

LEMMA QuietRunTools == ASSUME IInv, NEW w \in Workers, run_tools(w) PROVE QuietCall(w)
<1> DEFINE l == [loc[w] EXCEPT !.outcome = gateway_run(w).outcome]
<1>1. /\ pc[w] # "idle" /\ db' = db /\ loc' = [loc EXCEPT ![w] = l]
      /\ pc' = [pc EXCEPT ![w] = "store_calls"]
  BY DEF run_tools, goto
<1>2. l.request = req(w) /\ l.op = loc[w].op
  BY <1>1, Running DEF Locals, req
<1>3. db' = [db EXCEPT ![req(w)] = db[req(w)]]
  BY <1>1, Running DEF IInv, TypeOK
<1> HIDE DEF l
<1>4. QED
  BY <1>1, <1>2, <1>3, KeepsReflexive, QuietBy DEF Guarded, Reviewing

LEMMA QuietSteps ==
    ASSUME IInv, NEW w \in Workers, step(w), pc[w] \notin Reviewing
    PROVE  QuietCall(w)
<1>1. ~(\/ read_key(w) \/ read_policy(w) \/ read_plan(w) \/ persist_plan(w) \/ read_approval(w)
        \/ decide_and_store(w) \/ grant(w))
  BY DEF Reviewing, read_key, read_policy, read_plan, persist_plan, read_approval,
         decide_and_store, grant
<1>2. QED
  BY <1>1, QuietEventSteps, QuietStateSteps, QuietCountSteps, QuietStoreExecution, QuietStoreKey,
     QuietRunTools DEF step

-----------------------------------------------------------------------------
(* The statements that read, judge, store or approve a plan.               *)

StepKeeps(w) ==
    /\ KeepsReview(db[req(w)], db'[req(w)])
    /\ OnlyOwn(w) /\ OthersStay(w)
    /\ pc'[w] # "idle" => loc'[w].request = req(w) /\ loc'[w].op = loc[w].op

LEMMA QuietKeeps == ASSUME NEW w, QuietCall(w) PROVE StepKeeps(w)
  BY DEF QuietCall, StepKeeps, QuietRow, GoesAhead

(* A quiet statement leaves every plan as reviewed as it was.              *)
LEMMA QuietReviewed ==
    ASSUME IInv, RInv, NEW w \in Workers, pc[w] # "idle", QuietCall(w)
    PROVE  RInv'
<1>1. /\ req(w) \in Requests /\ RowReview(db[req(w)])
      /\ Preserves(db[req(w)], db'[req(w)]) /\ QuietRow(db[req(w)], db'[req(w)])
  BY Running DEF RInv, QuietCall, QuietRow, KeepsReview
<1>2. RowReview(db'[req(w)])
  BY <1>1, QuietReview
<1>3. pc'[w] # "idle" => /\ loc'[w].request = req(w)
                         /\ HandlerReview(db'[req(w)], pc'[w], loc'[w])
  BY DEF QuietCall, GoesAhead, HandlerReview, Guarded, Reviewing
<1>4. QED
  BY <1>1, <1>2, <1>3, ReviewFrame DEF QuietCall, OnlyOwn, OthersStay

(* A statement that only reads leaves it to its handler to be careful.     *)
LEMMA ReadingReviewed ==
    ASSUME IInv, RInv, NEW w \in Workers, pc[w] # "idle", db' = db,
           NEW lab, NEW l, pc' = [pc EXCEPT ![w] = lab], loc' = [loc EXCEPT ![w] = l],
           lab # "idle" => /\ l.request = req(w) /\ l.op = loc[w].op
                           /\ HandlerReview(db[req(w)], lab, l)
    PROVE  RInv' /\ StepKeeps(w) /\ pc'[w] = lab /\ loc'[w] = l
<1>1. pc'[w] = lab /\ loc'[w] = l /\ OthersStay(w)
  BY LocalStep
<1>2. req(w) \in Requests /\ RowReview(db[req(w)]) /\ Preserves(db[req(w)], db'[req(w)])
  BY Running, PreservesReflexive DEF RInv
<1>3. RInv'
  BY <1>1, <1>2, ReviewFrame DEF OthersStay
<1>4. StepKeeps(w)
  BY <1>1, KeepsReflexive DEF StepKeeps, OnlyOwn, QuietRow
<1>5. QED
  BY <1>1, <1>3, <1>4

LEMMA ReadKeyReviewed ==
    ASSUME IInv, Audit, RInv, NEW w \in Workers, read_key(w)
    PROVE  RInv' /\ StepKeeps(w) /\ pc'[w] \in {"idle", "read_policy"}
<1>1. pc[w] # "idle" /\ pc[w] = "read_key" /\ db' = db
  BY DEF read_key
<1>2. loc[w].op = "execute"
  BY <1>1, RunningShows DEF Stage
<1>3. CASE finish(w)
  BY <1>1, <1>3, ReadingReviewed DEF finish
<1>4. CASE ~finish(w)
  <2>1. pc' = [pc EXCEPT ![w] = "read_policy"] /\ loc' = [loc EXCEPT ![w] = loc[w]]
    BY <1>1, <1>4, Stays DEF read_key, goto
  <2>2. HandlerReview(db[req(w)], "read_policy", loc[w])
    BY <1>2 DEF HandlerReview
  <2>3. QED
    BY <1>1, <2>1, <2>2, ReadingReviewed DEF req
<1>5. QED
  BY <1>3, <1>4

LEMMA ReadPolicyReviewed ==
    ASSUME IInv, RInv, NEW w \in Workers, read_policy(w)
    PROVE  RInv' /\ StepKeeps(w) /\ pc'[w] = "read_plan"
<1> DEFINE l == [loc[w] EXCEPT !.policy_status = policy_status[policy_id(w)]]
<1>1. /\ pc[w] # "idle" /\ pc[w] = "read_policy" /\ db' = db
      /\ pc' = [pc EXCEPT ![w] = "read_plan"] /\ loc' = [loc EXCEPT ![w] = l]
  BY DEF read_policy, goto
<1>2. /\ l.request = req(w) /\ l.op = loc[w].op
      /\ HandlerReview(db[req(w)], pc[w], loc[w])
  BY <1>1, Running DEF Locals, req, RInv
<1> HIDE DEF l
<1>3. HandlerReview(db[req(w)], "read_plan", l)
  BY <1>1, <1>2 DEF HandlerReview
<1>4. QED
  BY <1>1, <1>2, <1>3, ReadingReviewed

(* A plan that is read is a plan of the request.                           *)
LEMMA ReadPlanReviewed ==
    ASSUME IInv, RInv, NEW w \in Workers, read_plan(w)
    PROVE  RInv' /\ StepKeeps(w) /\ pc'[w] \in {"idle", after_plan(loc[w].op)}
<1> DEFINE rows == db[req(w)].plans
           plan == IF rows = <<>> THEN None ELSE rows[1]
           l == [loc[w] EXCEPT !.plan = plan]
           lab == after_plan(loc[w].op)
<1>1. pc[w] # "idle" /\ pc[w] = "read_plan" /\ db' = db
  BY DEF read_plan
<1>2. /\ req(w) \in Requests /\ HandlerReview(db[req(w)], pc[w], loc[w])
      /\ RowReview(db[req(w)]) /\ loc[w] \in Locals /\ loc[w].op \in Operations
      /\ rows \in Seq(ActionPlans)
  BY <1>1, Running DEF RInv, Knows, Called, RequestRows
<1>3. CASE finish(w)
  BY <1>1, <1>3, ReadingReviewed DEF finish
<1>4. CASE ~finish(w)
  <2>1. /\ Len(rows) = 0 => loc[w].op \in {"plan", "custom_plan"}
        /\ loc' = [loc EXCEPT ![w] = l] /\ pc' = [pc EXCEPT ![w] = lab]
    BY <1>4 DEF read_plan, goto
  <2>2. l.request = req(w) /\ l.op = loc[w].op /\ l.plan = plan
    BY <1>2 DEF Locals, req
  <2>3. /\ lab \in {"persist_plan", "decide", "grant", "refuse", "read_approval"}
        /\ lab = "grant" => loc[w].op = "approve"
        /\ lab \in {"read_approval", "decide", "grant"} => loc[w].op \notin {"plan", "custom_plan"}
    BY <1>2 DEF after_plan, Operations
  <2>4. loc[w].op \notin {"plan", "custom_plan"} => Proper(db[req(w)], plan)
    <3> HIDE DEF rows
    <3>1. ASSUME loc[w].op \notin {"plan", "custom_plan"} PROVE rows # <<>> /\ 1 \in DOMAIN rows
      BY <1>2, <2>1, <3>1
    <3>2. QED
      BY <1>2, <3>1 DEF RowReview, rows
  <2> HIDE DEF plan, l, lab
  <2>5. HandlerReview(db[req(w)], lab, l)
    BY <1>1, <1>2, <2>2, <2>3, <2>4 DEF HandlerReview
  <2>6. RInv' /\ StepKeeps(w) /\ pc'[w] = lab
    BY <1>1, <2>1, <2>2, <2>5, ReadingReviewed
  <2>7. QED
    BY <2>6 DEF lab
<1>5. QED
  BY <1>3, <1>4

LEMMA ReadApprovalReviewed ==
    ASSUME IInv, RInv, NEW w \in Workers, read_approval(w)
    PROVE  RInv' /\ StepKeeps(w) /\ pc'[w] = "decide" /\ loc'[w].plan = loc[w].plan
<1> DEFINE rows == db[req(w)].approved
           l == [loc[w] EXCEPT !.approval = IF rows = <<>> THEN None ELSE rows[Len(rows)]]
<1>1. /\ pc[w] # "idle" /\ pc[w] = "read_approval" /\ db' = db
      /\ pc' = [pc EXCEPT ![w] = "decide"] /\ loc' = [loc EXCEPT ![w] = l]
  BY DEF read_approval, goto
<1>2. /\ l.request = req(w) /\ l.op = loc[w].op /\ l.plan = loc[w].plan
      /\ HandlerReview(db[req(w)], pc[w], loc[w])
  BY <1>1, Running DEF Locals, req, RInv
<1> HIDE DEF l
<1>3. HandlerReview(db[req(w)], "decide", l)
  BY <1>1, <1>2 DEF HandlerReview
<1>4. QED
  BY <1>1, <1>2, <1>3, ReadingReviewed

(* The common case of a commit on the request's rows.                      *)
LEMMA CommitReviewed ==
    ASSUME IInv, RInv, NEW w \in Workers, pc[w] # "idle",
           NEW row, KeepsReview(db[req(w)], row), RowReview(row),
           db' = [db EXCEPT ![req(w)] = row],
           NEW lab, NEW l, pc' = [pc EXCEPT ![w] = lab], loc' = [loc EXCEPT ![w] = l],
           l.request = req(w), l.op = loc[w].op, HandlerReview(row, lab, l)
    PROVE  RInv' /\ StepKeeps(w) /\ pc'[w] = lab /\ loc'[w] = l /\ db'[req(w)] = row
<1>1. pc'[w] = lab /\ loc'[w] = l /\ OthersStay(w)
  BY LocalStep
<1>2. req(w) \in Requests /\ db'[req(w)] = row /\ OnlyOwn(w)
  BY Running DEF IInv, TypeOK, OnlyOwn
<1>3. RInv'
  BY <1>1, <1>2, ReviewFrame DEF OnlyOwn, OthersStay, KeepsReview
<1>4. QED
  BY <1>1, <1>2, <1>3 DEF StepKeeps

(* The planner's plan is the delegation's own; the scenario's is proposed  *)
(* only where no human is wanted.                                          *)
LEMMA ProposedProper ==
    ASSUME IInv, NEW w \in Workers, pc[w] = "persist_plan",
           Reviewed(db[req(w)], pc[w], loc[w])
    PROVE  Proper(db[req(w)], proposed_plan(w))
<1>1. db[req(w)].policy \in Policies
  BY Running
<1>2. CASE loc[w].op = "custom_plan"
  <2>1. ~Delegations[db[req(w)].policy].submit_requires_human
    BY <1>1, <1>2, ScopeAssumption DEF Reviewed
  <2>2. QED
    BY <2>1 DEF Proper, NeedsReview, needs_approval
<1>3. CASE loc[w].op # "custom_plan"
  <2>1. proposed_plan(w) = P!build_plan(Delegations[db[req(w)].policy])
    BY <1>1, <1>3, PlanIgnoresStatus DEF proposed_plan, loaded_policy, policy_id
  <2>2. QED
    BY <2>1 DEF Proper, OwnPlan
<1>4. QED
  BY <1>2, <1>3

(* A plan row holds what it held, or the plan that is stored.              *)
LEMMA StoredPlans ==
    ASSUME NEW rows \in Seq(ActionPlans), NEW plan, NEW stored,
           stored \in {Append(rows, plan), rows, [rows EXCEPT ![1] = plan]},
           NEW i \in DOMAIN stored
    PROVE  stored[i] = plan \/ (i \in DOMAIN rows /\ stored[i] = rows[i])
<1>1. CASE stored = Append(rows, plan)
  <2>1. /\ Len(rows) \in Nat /\ DOMAIN rows = 1 .. Len(rows)
        /\ DOMAIN Append(rows, plan) = 1 .. (Len(rows) + 1)
    OBVIOUS
  <2>2. CASE i = Len(rows) + 1
    BY <1>1, <2>2
  <2>3. CASE i # Len(rows) + 1
    <3>1. i \in 1 .. Len(rows)
      BY <1>1, <2>1, <2>3
    <3>2. QED
      BY <1>1, <2>1, <3>1
  <2>4. QED
    BY <2>2, <2>3
<1>2. CASE stored = rows
  BY <1>2
<1>3. CASE stored = [rows EXCEPT ![1] = plan]
  BY <1>3
<1>4. QED
  BY <1>1, <1>2, <1>3

LEMMA PersistPlanReviewed ==
    ASSUME IInv, Audit, RInv, NEW w \in Workers, persist_plan(w)
    PROVE  RInv' /\ StepKeeps(w) /\ pc'[w] = "plan_event"
<1> DEFINE old == db[req(w)]
           rows == old.plans
           plan == proposed_plan(w)
           stored == IF loc[w].plan = None THEN Append(rows, plan)
                     ELSE IF loc[w].plan = plan THEN rows
                     ELSE [rows EXCEPT ![1] = plan]
           state == state_written(w, "PLAN_CREATED")
           row == [old EXCEPT !.plans = stored, !.state = state]
<1>1. /\ pc[w] # "idle" /\ pc[w] = "persist_plan"
      /\ loc' = [loc EXCEPT ![w] = loc[w]] /\ pc' = [pc EXCEPT ![w] = "plan_event"]
  BY Stays DEF persist_plan, goto
<1>2. /\ req(w) \in Requests /\ old \in RequestRows /\ RowReview(old)
      /\ Reviewed(old, pc[w], loc[w])
  BY <1>1, RunningShows DEF RInv
<1>3. rows \in Seq(ActionPlans) /\ Proper(old, plan)
  BY <1>1, <1>2, ProposedProper DEF RequestRows
<1>4. db' = [db EXCEPT ![req(w)] = row]
  BY <1>2 DEF persist_plan, IInv, TypeOK
<1>5. ASSUME NEW i \in DOMAIN stored PROVE Proper(old, stored[i])
  <2>1. stored \in {Append(rows, plan), rows, [rows EXCEPT ![1] = plan]}
    OBVIOUS
  <2>2. \A j \in DOMAIN rows : Proper(old, rows[j])
    BY <1>2 DEF RowReview
  <2> HIDE DEF plan, rows, stored
  <2>3. stored[i] = plan \/ (i \in DOMAIN rows /\ stored[i] = rows[i])
    BY <1>3, <2>1, StoredPlans
  <2>4. QED
    BY <1>3, <2>2, <2>3
<1> HIDE DEF stored, state
<1>6. /\ row.plans = stored /\ row.evaluations = old.evaluations /\ row.approved = old.approved
      /\ row.document = old.document /\ KeepsReview(old, row)
  BY <1>2 DEF RequestRows, KeepsReview, Preserves, Granted
<1> HIDE DEF row
<1>7. RowReview(row)
  <2>1. Asked(row) <=> Asked(old)
    BY <1>6 DEF Asked
  <2>2. QED
    BY <1>2, <1>5, <1>6, <2>1, ReviewPreserved DEF RowReview, KeepsReview
<1>8. HandlerReview(row, "plan_event", loc[w])
  BY DEF HandlerReview
<1> HIDE DEF old
<1>9. QED
  BY <1>1, <1>4, <1>6, <1>7, <1>8, CommitReviewed DEF old, req

(* The gate asks for an approval of the delegation's own plan first.       *)
LEMMA DecideReviewed ==
    ASSUME IInv, Audit, RInv, NEW w \in Workers, decide_and_store(w)
    PROVE  /\ RInv' /\ StepKeeps(w) /\ pc'[w] \notin Guarded \cup {"idle"}
           /\ loc'[w].decision = decision(context(w))
<1> DEFINE d == decision(context(w))
           old == db[req(w)]
           e == [decision |-> d, plan_hash |-> loc[w].plan]
           all == old.evaluations \cup {e}
           row == [old EXCEPT !.evaluations = all]
           judged == [loc[w] EXCEPT !.decision = d]
           l == [judged EXCEPT !.decided_at = now]
           lab == IF loc[w].op = "evaluate" THEN "evaluated_event"
                  ELSE IF d = "ALLOW" THEN "set_executing" ELSE "set_blocked"
<1>1. /\ pc[w] = "decide" /\ pc[w] # "idle"
      /\ db' = [db EXCEPT ![req(w)] = row]
      /\ loc' = [loc EXCEPT ![w] = l] /\ pc' = [pc EXCEPT ![w] = lab]
  BY DEF decide_and_store, goto
<1>2. /\ req(w) \in Requests /\ old \in RequestRows /\ RowReview(old) /\ loc[w] \in Locals
      /\ HandlerReview(old, pc[w], loc[w]) /\ Reviewed(old, pc[w], loc[w])
  BY <1>1, RunningShows, Running DEF RInv
<1>3. old.document = InjectedDocument => d = "QUARANTINE"
  BY InjectionQuarantines DEF document
<1>4. d = "REQUIRE_APPROVAL" => NeedsReview(old)
  BY <1>1, <1>2, AskedUnderReview
<1> HIDE DEF d
<1>5. l.request = req(w) /\ l.op = loc[w].op /\ l.decision = d
  <2>1. /\ judged \in [DOMAIN loc[w] -> Range(judged)] /\ DOMAIN judged = DOMAIN loc[w]
        /\ judged.request = loc[w].request /\ judged.op = loc[w].op /\ judged.decision = d
    BY <1>2 DEF Locals, Range
  <2> HIDE DEF judged
  <2>2. QED
    BY <2>1 DEF req
<1>6. e.decision = d /\ e.plan_hash = loc[w].plan /\ old.evaluations \subseteq all /\ e \in all
  OBVIOUS
<1>7. \A f \in all : f \in old.evaluations \/ f = e
  OBVIOUS
<1>8. lab \notin Guarded \cup {"idle"}
  BY DEF Guarded, Reviewing
<1> HIDE DEF all, lab, l, judged
<1>9. /\ row.evaluations = all /\ row.policy = old.policy /\ row.plans = old.plans
      /\ row.approved = old.approved /\ row.document = old.document /\ KeepsReview(old, row)
  BY <1>2, <1>6 DEF RequestRows, KeepsReview, Preserves, Granted
<1> HIDE DEF row
<1>10. RowReview(row)
  <2>1. ASSUME Asked(row), ~Asked(old)
        PROVE  NeedsReview(old) /\ e = [decision |-> "REQUIRE_APPROVAL", plan_hash |-> OwnPlan(old)]
    <3>1. d = "REQUIRE_APPROVAL"
      BY <1>6, <1>7, <1>9, <2>1 DEF Asked
    <3>2. loc[w].plan = OwnPlan(old)
      BY <1>1, <1>2, <1>4, <2>1, <3>1 DEF HandlerReview, Proper
    <3>3. QED
      BY <1>4, <3>1, <3>2
  <2>2. Asked(row) => NeedsReview(row) /\ OwnPlanAsked(row)
    <3>1. CASE Asked(old)
      BY <1>2, <1>9, <3>1, ReviewPreserved DEF RowReview, KeepsReview
    <3>2. CASE ~Asked(old)
      <4> HIDE DEF e
      <4>1. QED
        BY <1>6, <1>9, <2>1, <3>2, ReviewPreserved DEF OwnPlanAsked, KeepsReview
    <3>3. QED
      BY <3>1, <3>2
  <2>3. row.document = InjectedDocument => \A f \in row.evaluations : f.decision = "QUARANTINE"
    <3> HIDE DEF e
    <3>1. QED
      BY <1>2, <1>3, <1>6, <1>7, <1>9 DEF RowReview
  <2>4. QED
    BY <1>2, <1>9, <2>2, <2>3, ReviewPreserved DEF RowReview, KeepsReview
<1>11. HandlerReview(row, lab, l)
  BY <1>8 DEF HandlerReview, Guarded, Reviewing
<1> HIDE DEF old, e
<1>12. RInv' /\ StepKeeps(w) /\ pc'[w] = lab /\ loc'[w] = l
  <2>1. KeepsReview(old, row)
    BY <1>9
  <2>2. QED
    BY <1>1, <1>5, <1>10, <1>11, <2>1, CommitReviewed DEF old
<1>13. QED
  BY <1>5, <1>8, <1>12 DEF d

(* What is approved is a plan under review, and the gate has asked.        *)
LEMMA GrantReviewed ==
    ASSUME IInv, RInv, NEW w \in Workers, grant(w)
    PROVE  /\ RInv' /\ StepKeeps(w) /\ pc'[w] = "granted_event"
           /\ db'[req(w)].approved # <<>>
<1> DEFINE old == db[req(w)]
           rows == old.approved
           a == [status |-> "APPROVED", approved_plan_hash |-> loc[w].plan,
                 policy_version |-> Delegations[policy_id(w)].version,
                 expires_at |-> now + ApprovalTTL]
           new == Append(rows, a)
           state == state_written(w, "APPROVED")
           row == [old EXCEPT !.approved = new, !.state = state]
<1>1. /\ pc[w] = "grant" /\ pc[w] # "idle"
      /\ loc' = [loc EXCEPT ![w] = loc[w]] /\ pc' = [pc EXCEPT ![w] = "granted_event"]
  BY Stays DEF grant, goto
<1>2. /\ req(w) \in Requests /\ old \in RequestRows /\ RowReview(old)
      /\ HandlerReview(old, pc[w], loc[w]) /\ rows \in Seq(Approvals)
  BY <1>1, Running DEF RInv, RequestRows
<1>3. db' = [db EXCEPT ![req(w)] = row]
  BY <1>2 DEF grant, IInv, TypeOK
<1>4. a.approved_plan_hash = loc[w].plan
  OBVIOUS
<1> HIDE DEF a, state
<1>5. /\ new # <<>>
      /\ \A i \in DOMAIN rows : i \in DOMAIN new /\ new[i] = rows[i]
      /\ \A i \in DOMAIN new : new[i] = a \/ (i \in DOMAIN rows /\ new[i] = rows[i])
  <2> HIDE DEF rows
  <2>1. /\ Len(rows) \in Nat /\ DOMAIN rows = 1 .. Len(rows)
        /\ DOMAIN new = 1 .. (Len(rows) + 1) /\ new[Len(rows) + 1] = a
        /\ \A i \in 1 .. Len(rows) : new[i] = rows[i]
    BY <1>2
  <2>2. \A i \in 1 .. (Len(rows) + 1) : i = Len(rows) + 1 \/ i \in 1 .. Len(rows)
    BY <2>1
  <2>3. 1 \in DOMAIN new
    BY <2>1
  <2> HIDE DEF new
  <2>4. new # <<>>
    BY <2>3
  <2>5. \A i \in DOMAIN rows : i \in DOMAIN new
    BY <2>1
  <2>6. QED
    BY <2>1, <2>2, <2>4, <2>5
<1> HIDE DEF new
<1>6. /\ row.approved = new /\ row.plans = old.plans /\ row.evaluations = old.evaluations
      /\ row.document = old.document /\ Preserves(old, row)
  BY <1>2, <1>5 DEF RequestRows, Preserves
<1> HIDE DEF row
<1>7. KeepsReview(old, row)
  BY <1>5, <1>6 DEF KeepsReview, Granted
<1>8. Asked(old) /\ Proper(old, loc[w].plan)
  BY <1>1, <1>2 DEF HandlerReview
<1>9. RowReview(row)
  <2>1. Asked(row)
    BY <1>6, <1>8 DEF Asked
  <2>2. ASSUME NEW j \in DOMAIN row.approved PROVE Proper(row, row.approved[j].approved_plan_hash)
    <3>1. Proper(old, row.approved[j].approved_plan_hash)
      BY <1>2, <1>4, <1>5, <1>6, <1>8 DEF RowReview
    <3>2. QED
      BY <1>6, <3>1, ReviewPreserved
  <2>3. QED
    BY <1>2, <1>6, <1>8, <2>1, <2>2, ReviewPreserved DEF RowReview
<1>10. HandlerReview(row, "granted_event", loc[w])
  BY <1>5, <1>6 DEF HandlerReview
<1>11. row.approved # <<>>
  BY <1>5, <1>6
<1> HIDE DEF old
<1>12. QED
  BY <1>1, <1>3, <1>7, <1>9, <1>10, <1>11, CommitReviewed DEF old, req

(* Every statement.                                                        *)
LEMMA StepReviewed ==
    ASSUME IInv, Audit, RInv, NEW w \in Workers, step(w)
    PROVE  RInv' /\ StepKeeps(w) /\ pc[w] # "idle"
<1>1. pc[w] # "idle"
  BY DEF step, received_event, read_key, read_policy, read_plan, persist_plan, plan_event,
         read_approval, decide_and_store, evaluated_event, set_decided, approval_event, grant,
         granted_event, refuse, refused_event, set_executing, started_event, run_tools,
         store_calls, store_execution, completed_event, set_blocked, blocked_calls,
         blocked_event, incident, incident_event, no_execution, receipt_event, store_receipt,
         set_issued, store_key
<1>2. CASE pc[w] \notin Reviewing
  BY <1>1, <1>2, QuietSteps, QuietKeeps, QuietReviewed
<1>3. CASE \/ read_key(w) \/ read_policy(w) \/ read_plan(w) \/ persist_plan(w)
           \/ read_approval(w) \/ decide_and_store(w) \/ grant(w)
  BY <1>1, <1>3, ReadKeyReviewed, ReadPolicyReviewed, ReadPlanReviewed, PersistPlanReviewed,
     ReadApprovalReviewed, DecideReviewed, GrantReviewed
<1>4. CASE pc[w] \in Reviewing
  <2>1. \/ read_key(w) \/ read_policy(w) \/ read_plan(w) \/ persist_plan(w)
        \/ read_approval(w) \/ decide_and_store(w) \/ grant(w)
    BY <1>4 DEF Reviewing, step, received_event, plan_event,
         evaluated_event, set_decided, approval_event,
         granted_event, refuse, refused_event, set_executing, started_event, run_tools,
         store_calls, store_execution, completed_event, set_blocked, blocked_calls,
         blocked_event, incident, incident_event, no_execution, receipt_event, store_receipt,
         set_issued, store_key
  <2>2. QED
    BY <1>3, <2>1
<1>5. QED
  BY <1>2, <1>4

-----------------------------------------------------------------------------
(* The scripts.                                                            *)

LEMMA ScriptShape ==
    ASSUME NEW s \in Scripts
    PROVE  /\ Len(operations(s)) \in 2 .. 5
           /\ \A n \in 1 .. Len(operations(s)) :
                 /\ operations(s)[n] \in Operations \cup {"swap"}
                 /\ operations(s)[n] = "swap" <=> s = "approval-replay" /\ n = 4
                 /\ operations(s)[n] = "custom_plan" => s = "scope-exceeded-transfer"
           /\ s = "indirect-prompt-injection" =>
                 Len(operations(s)) = 2 /\ operations(s)[2] = "evaluate"
           /\ s = "approval-replay" =>
                 /\ Len(operations(s)) = 5
                 /\ operations(s)[3] = "approve" /\ operations(s)[5] = "execute"
<1>1. CASE s = "rate-reduction-success"
  BY <1>1 DEF operations, Operations
<1>2. CASE s = "indirect-prompt-injection"
  BY <1>2 DEF operations, Operations
<1>3. CASE s = "scope-exceeded-transfer"
  BY <1>3 DEF operations, Operations
<1>4. CASE s = "approval-replay"
  BY <1>4 DEF operations, Operations
<1>5. QED
  BY <1>1, <1>2, <1>3, <1>4 DEF Scripts

(* The session while it is on.                                             *)
LEMMA SessionOn ==
    ASSUME SInv, session.at # "none"
    PROVE  /\ Held /\ Replay /\ Verdict /\ RunnerAt
           /\ session \in Sessions /\ session.script \in Scripts /\ session.request \in Requests
           /\ session.next \in Nat /\ session.next >= 1
           /\ session.next <= Len(operations(session.script))
           /\ Len(operations(session.script)) \in Nat
           /\ Len(operations(session.script)) <= 5
<1>1. Held /\ Replay /\ Verdict /\ RunnerAt /\ session \in Sessions
  BY DEF SInv
<1>2. session.script \in Scripts /\ session.request \in Requests
      /\ session.next \in 1 .. Len(operations(session.script))
  BY <1>1 DEF Held
<1> DEFINE n == Len(operations(session.script))
<1>3. n \in 2 .. 5
  BY <1>2, ScriptShape
<1>4. session.next \in 1 .. n
  BY <1>2
<1> HIDE DEF n
<1>5. session.next \in Nat /\ session.next >= 1 /\ session.next <= n /\ n \in Nat /\ n <= 5
  BY <1>3, <1>4
<1>6. QED
  BY <1>1, <1>2, <1>5 DEF n

(* A session that turns to another statement holds what it held.           *)
LEMMA HeldOn ==
    ASSUME IInv', session.at # "none", SInv,
           KeepsReview(row_held, row_held'),
           session'.script = session.script, session'.request = session.request,
           \/ session'.next = session.next
           \/ session.plan = None /\ session'.next \in 1 .. Len(operations(session.script)),
           session'.plan = session.plan,
           session'.at # "tamper", Backed(row_held', session'.state)
    PROVE  Held'
<1>1. Held /\ Preserves(row_held, row_held')
  BY SessionOn DEF KeepsReview
<1>2. ScenarioPolicy[session.script] \in Policies
  BY <1>1, ScenarioPolicyAssumption DEF Held
<1>3. row_held'.policy = ScenarioPolicy[session.script]
  BY <1>1 DEF Held, Preserves
<1>4. row_held'.state # None
  <2>1. RowOK(row_held')
    BY <1>1 DEF Held, IInv, row_held
  <2>2. NoRows.policy = None /\ None \notin Policies
    BY NoneAssumption DEF NoRows
  <2>3. QED
    BY <1>2, <1>3, <2>1, <2>2 DEF RowOK
<1>5. row_held'.document = row_held.document
  BY DEF KeepsReview
<1>6. QED
  BY <1>1, <1>3, <1>4, <1>5, ReviewPreserved DEF Held

-----------------------------------------------------------------------------
(* A call of the scenario.                                                 *)

CallOf(w, r, op, key, state) ==
    [Idle EXCEPT !.op = op, !.request = r, !.key = key, !.state = state,
                 !.active_at_start = policy_status[db[r].policy] = "ACTIVE"]

(* A call begins at its label on whatever state it was given.              *)
LEMMA CallBegins ==
    ASSUME IInv, NEW w \in Workers, pc[w] = "idle", NEW r \in Requests, db[r].state # None,
           NEW op \in Operations, NEW key \in Keys \cup {None}, NEW s \in States \cup {None},
           loc' = [loc EXCEPT ![w] = CallOf(w, r, op, key, s)],
           NEW lab \in {"read_key", "read_policy"}, lab = "read_key" => key # None,
           pc' = [pc EXCEPT ![w] = lab], db' = db, UNCHANGED world
    PROVE  IInv'
<1> DEFINE l == CallOf(w, r, op, key, s)
<1>1. /\ policy_status' = policy_status /\ now' = now /\ budget' = budget
      /\ submissions' = submissions /\ answered' = answered
  BY DEF world
<1>2. /\ loc \in [Workers -> Locals] /\ pc \in [Workers -> Labels]
  BY DEF IInv, TypeOK
<1>3. /\ l.op = op /\ l.request = r /\ l.approval = None /\ l.policy_status = None /\ l.key = key
      /\ l.active_at_start = (policy_status[db[r].policy] = "ACTIVE")
  BY DEF Idle, CallOf
<1>4. l \in Locals
  <2> DEFINE active == policy_status[db[r].policy] = "ACTIVE"
  <2>1. active \in BOOLEAN
    OBVIOUS
  <2>2. l = [Idle EXCEPT !.op = op, !.request = r, !.key = key, !.state = s,
                         !.active_at_start = active]
    BY DEF CallOf
  <2> HIDE DEF active, l
  <2>3. QED
    BY <2>1, <2>2 DEF Idle, Locals
<1> HIDE DEF l
<1>5. Knows(db[r], policy_status, lab, l)
  BY <1>3, NoActiveNone DEF Knows, Called, WithPlan, Decided, Executing
<1>6. lab \in Labels /\ r # None /\ lab # "idle"
  BY NoneAssumption DEF Labels
<1>7. TypeOK'
  BY <1>1, <1>2, <1>4, <1>6 DEF IInv, TypeOK, l
<1>8. ASSUME NEW v \in Workers PROVE HandlerOK(db', policy_status', pc'[v], loc'[v])
  <2>1. CASE v = w
    <3>1. pc'[v] = lab /\ loc'[v] = l
      BY <1>2, <2>1 DEF l
    <3>2. QED
      BY <1>1, <1>3, <1>5, <1>6, <3>1 DEF HandlerOK
  <2>2. CASE v # w
    BY <1>1, <1>2, <2>2 DEF IInv
  <2>3. QED
    BY <2>1, <2>2
<1>9. QED
  BY <1>1, <1>7, <1>8 DEF IInv

(* What lets the call in is backed by the tables.                          *)
LEMMA CallShows ==
    ASSUME IInv, IInv', Audit, NEW w \in Workers, pc[w] = "idle", NEW r \in Requests,
           NEW op \in Operations, NEW key, NEW s, Backed(db[r], s),
           loc' = [loc EXCEPT ![w] = CallOf(w, r, op, key, s)],
           NEW lab \in {"read_key", "read_policy"}, lab = "read_key" => op = "execute",
           lab = "read_policy" => s \in legal_states(op),
           op = "custom_plan" => db[r].policy \in ScopePolicies,
           pc' = [pc EXCEPT ![w] = lab], db' = db, UNCHANGED world
    PROVE  Audit'
<1> DEFINE l == CallOf(w, r, op, key, s)
<1>1. /\ loc \in [Workers -> Locals] /\ pc \in [Workers -> Labels]
      /\ submissions' = submissions
  BY DEF IInv, TypeOK, world
<1>2. l.request = r /\ l.op = op /\ l.approval = None /\ l.state = s
  BY DEF Idle, CallOf
<1> HIDE DEF l
<1>3. Stage(db[r], lab, l)
  BY <1>2 DEF Stage, Allowed, Blocked, Ran
<1>4. Reviewed(db[r], lab, l)
  <2>1. admitted(lab, l) => s \in {"ALLOWED", "APPROVED"}
    BY <1>2 DEF admitted, legal_states
  <2>2. admitted(lab, l) /\ NeedsReview(db[r]) => db[r].approved # <<>>
    BY <2>1 DEF Backed
  <2>3. QED
    BY <1>2, <2>2 DEF Reviewed, Called
<1>5. OwesNone(pc[w], loc[w]) /\ OwesNone(lab, l)
  BY CalmOwesNone DEF Owing
<1>6. ASSUME NEW v \in Workers
      PROVE  /\ HandlerShows(db', pc'[v], loc'[v])
             /\ CalmAt(v) /\ (loc'[v].request = req(v) \/ OwesNone(pc[v], loc[v]))
  <2>1. CASE v = w
    <3>1. pc'[v] = lab /\ loc'[v] = l
      BY <1>1, <2>1 DEF l
    <3>2. QED
      BY <1>2, <1>3, <1>4, <1>5, <2>1, <3>1 DEF HandlerShows, CalmAt
  <2>2. CASE v # w
    <3>1. pc'[v] = pc[v] /\ loc'[v] = loc[v]
      BY <1>1, <2>2
    <3>2. QED
      BY <3>1 DEF Audit, Shown, CalmAt, req
  <2>3. QED
    BY <2>1, <2>2
<1>7. \A q \in Requests : Solvent(q)'
  BY <1>1, <1>6, PreservesReflexive, CalmWorld
<1>8. QED
  BY <1>6, <1>7 DEF Audit, Shown

(* And so is the request it comes to review.                               *)
LEMMA CallReviewed ==
    ASSUME IInv, RInv, NEW w \in Workers, NEW r \in Requests, NEW s, Backed(db[r], s),
           NEW lab \in {"read_key", "read_policy"}, NEW l, l.request = r,
           lab = "read_policy" /\ l.op = "approve" => s = "APPROVAL_REQUIRED",
           pc' = [pc EXCEPT ![w] = lab], loc' = [loc EXCEPT ![w] = l], db' = db
    PROVE  RInv'
<1>1. pc'[w] = lab /\ loc'[w] = l /\ OthersStay(w)
  BY LocalStep
<1>2. HandlerReview(db[r], lab, l)
  BY DEF HandlerReview, Backed, Asked
<1>3. QED
  BY <1>1, <1>2, ReviewFrame, PreservesReflexive DEF RInv, OthersStay

-----------------------------------------------------------------------------
(* The steps of operators and of the world.                                *)

LEMMA Unmoved == ASSUME IInv, Audit, RInv, UNCHANGED vars PROVE IInv' /\ Audit' /\ RInv'
<1>1. IInv'
  BY NextIsSafe DEF Safe
<1>2. Audit'
  BY NextShows
<1>3. RInv'
  BY DEF RInv, vars, req
<1>4. QED
  BY <1>1, <1>2, <1>3

LEMMA StepHolds ==
    ASSUME IInv, Audit, RInv, NEW w \in Workers, step(w)
    PROVE  IInv' /\ Audit' /\ RInv' /\ StepKeeps(w) /\ pc[w] # "idle"
  BY NextIsSafe, NextShows, StepReviewed DEF Next, Safe

LEMMA OperatorHolds ==
    ASSUME JInv, NEW w \in Workers \ {Runner}, operator(w), session' = session
    PROVE  JInv'
<1>1. CASE step(w)
  <2>1. /\ IInv' /\ Audit' /\ RInv' /\ StepKeeps(w) /\ req(w) \in Requests /\ ResponsesKept
    BY <1>1, StepHolds, Running, NextIsSafe DEF JInv, Next, Safe
  <2>2. pc'[Runner] = pc[Runner] /\ loc'[Runner] = loc[Runner]
    BY <2>1, RunnerAssumption DEF StepKeeps, OthersStay
  <2>3. \A r \in Requests : KeepsReview(db[r], db'[r])
    BY <2>1, KeepsReflexive DEF StepKeeps, OnlyOwn, QuietRow
  <2>4. SInv'
    BY <2>1, <2>2, <2>3, SessionKept DEF JInv
  <2>5. QED
    BY <2>1, <2>4 DEF JInv
<1>2. CASE ~step(w)
  <2>1. PICK r \in Requests, op \in Operations \ {"custom_plan"}, key \in Keys \cup {None} :
               read_request(w, r, op, key)
    BY <1>2 DEF operator
  <2> DEFINE lab == IF key # None THEN "read_key" ELSE "read_policy"
             l == [Idle EXCEPT !.op = op, !.request = r, !.key = key, !.state = db[r].state,
                               !.active_at_start = policy_status[db[r].policy] = "ACTIVE"]
  <2>2. IInv' /\ Audit'
    <3>1. IInv'
      BY <2>1, ArriveStep DEF Safe, JInv
    <3>2. QED
      BY <2>1, <3>1, ReadRequestShows DEF JInv
  <2>3. /\ db' = db /\ pc' = [pc EXCEPT ![w] = lab] /\ loc' = [loc EXCEPT ![w] = l]
        /\ lab = "read_policy" => db[r].state \in legal_states(op)
        /\ lab \in {"read_key", "read_policy"} /\ (lab = "read_key" => op = "execute")
    BY <2>1 DEF read_request, goto
  <2>4. l.request = r /\ l.op = op
    BY DEF Idle
  <2> HIDE DEF l, lab
  <2>5. RInv'
    <3>1. Backed(db[r], db[r].state)
      BY DEF JInv, Audit, Shown, RowShows
    <3>2. l.op = "approve" => lab = "read_policy" /\ db[r].state = "APPROVAL_REQUIRED"
      BY <2>3, <2>4 DEF legal_states
    <3>3. QED
      BY <2>3, <2>4, <3>1, <3>2, CallReviewed DEF JInv
  <2>6. SInv'
    <3>1. pc'[Runner] = pc[Runner] /\ loc'[Runner] = loc[Runner]
      BY <2>3, LocalStep, RunnerAssumption DEF JInv, OthersStay
    <3>2. QED
      BY <2>2, <2>3, <3>1, SessionKept, KeepsReflexive DEF JInv, QuietRow, ResponsesKept
  <2>7. QED
    BY <2>2, <2>5, <2>6 DEF JInv
<1>3. QED
  BY <1>1, <1>2

LEMMA WorldHolds ==
    ASSUME JInv, tick \/ \E p \in Policies : revoke(p), session' = session
    PROVE  JInv'
<1>1. db' = db /\ pc' = pc /\ loc' = loc
  BY DEF tick, revoke
<1>2. IInv' /\ Audit'
  BY NextIsSafe, NextShows DEF JInv, Next, Safe
<1>3. RInv'
  BY <1>1 DEF JInv, RInv, req
<1>4. SInv'
  BY <1>1, <1>2, SessionKept, KeepsReflexive DEF JInv, QuietRow, ResponsesKept
<1>5. QED
  BY <1>2, <1>3, <1>4 DEF JInv

(* A scenario that dies.                                                   *)
LEMMA CrashHolds == ASSUME JInv, crash_scenario PROVE JInv'
<1>1. /\ crash(Runner) /\ pc[Runner] # "idle" /\ db' = db
      /\ pc' = [pc EXCEPT ![Runner] = "idle"] /\ loc' = [loc EXCEPT ![Runner] = Idle]
      /\ session' = [session EXCEPT !.at = "raised"]
  BY DEF crash_scenario, crash, finish
<1>2. IInv' /\ Audit'
  BY <1>1, RunnerAssumption, NextIsSafe, NextShows DEF JInv, Next, Safe
<1>3. RInv'
  BY <1>1, RunnerAssumption, ReadingReviewed DEF JInv
<1>4. session.at # "none" /\ session \in Sessions /\ SInv
  BY <1>1 DEF JInv, SInv, RunnerAt
<1>5. /\ session'.at = "raised" /\ session'.script = session.script
      /\ session'.request = session.request /\ session'.next = session.next
      /\ session'.plan = session.plan /\ session'.state = session.state
      /\ session' \in Sessions
  BY <1>1, <1>4 DEF Sessions
<1>6. Held /\ Replay
  BY <1>4, SessionOn
<1>7. row_held' = row_held
  BY <1>1, <1>5 DEF row_held
<1>8. Held'
  BY <1>2, <1>4, <1>5, <1>6, <1>7, KeepsReflexive, HeldOn DEF Held, QuietRow
<1>9. Replay' /\ Verdict'
  BY <1>5, <1>6, <1>7 DEF Replay, Verdict, judged_last
<1>10. RunnerAt'
  <2>1. pc'[Runner] = "idle"
    BY <1>1, <1>2, RunnerAssumption DEF JInv, IInv, TypeOK
  <2>2. QED
    BY <1>5, <2>1 DEF RunnerAt
<1>11. QED
  BY <1>2, <1>3, <1>5, <1>8, <1>9, <1>10 DEF JInv, SInv

-----------------------------------------------------------------------------
(* The steps of the scenario.                                              *)

LEMMA StartHolds ==
    ASSUME JInv, NEW s \in Scripts, NEW r \in Requests, start_scenario(s, r)
    PROVE  JInv'
<1> DEFINE p == ScenarioPolicy[s]
           d == IF s = "indirect-prompt-injection" THEN InjectedDocument ELSE None
           row == [NoRows EXCEPT !.state = "DRAFT", !.policy = p, !.document = d]
           l == [Idle EXCEPT !.op = "create", !.request = r, !.state = "DRAFT"]
<1>1. p \in Policies /\ d \in Documents /\ Runner \in Workers
  BY ScenarioPolicyAssumption, InjectionAssumption, DocumentAssumption, RunnerAssumption
<1>2. /\ create_request(Runner, r, p, d) /\ session.at = "none"
      /\ session' = [session EXCEPT !.script = s, !.request = r, !.at = "refresh"]
  BY DEF start_scenario
<1>3. IInv'
  BY <1>1, <1>2, CreateStep DEF JInv, Safe
<1>4. Audit'
  BY <1>1, <1>2, <1>3, CreateShows DEF JInv
<1>5. /\ db[r].state = None /\ db' = [db EXCEPT ![r] = row]
      /\ loc' = [loc EXCEPT ![Runner] = l] /\ pc' = [pc EXCEPT ![Runner] = "received_event"]
  BY <1>2 DEF create_request, goto
<1>6. /\ pc'[Runner] = "received_event" /\ loc'[Runner] = l /\ OthersStay(Runner)
      /\ db'[r] = row /\ \A q \in Requests : q # r => db'[q] = db[q]
  BY <1>1, <1>5, LocalStep DEF JInv, IInv, TypeOK
<1>7. /\ row.state = "DRAFT" /\ row.policy = p /\ row.document = d
      /\ row.plans = <<>> /\ row.evaluations = {} /\ row.approved = <<>>
      /\ l.request = r /\ l.op = "create"
  BY DEF NoRows, Idle
<1> HIDE DEF row, l
<1>8. RowReview(row)
  BY <1>7 DEF RowReview, Asked
<1>9. RInv'
  <2>1. ASSUME NEW q \in Requests PROVE RowReview(db'[q])
    BY <1>6, <1>8 DEF JInv, RInv
  <2>2. ASSUME NEW v \in Workers, pc'[v] # "idle"
        PROVE  HandlerReview(db'[loc'[v].request], pc'[v], loc'[v])
    <3>1. CASE v = Runner
      BY <1>6, <3>1 DEF HandlerReview
    <3>2. CASE v # Runner
      <4>1. pc'[v] = pc[v] /\ loc'[v] = loc[v] /\ pc[v] # "idle"
        BY <1>6, <2>2, <3>2 DEF OthersStay
      <4>2. /\ req(v) \in Requests /\ db[req(v)].state # None
            /\ HandlerReview(db[req(v)], pc[v], loc[v])
        BY <4>1, Running DEF JInv, RInv, Knows
      <4>3. db'[req(v)] = db[req(v)]
        BY <1>5, <1>6, <4>2
      <4>4. QED
        BY <4>1, <4>2, <4>3 DEF req
    <3>3. QED
      BY <3>1, <3>2
  <2>3. QED
    BY <2>1, <2>2 DEF RInv, req
<1>10. /\ session'.script = s /\ session'.request = r /\ session'.at = "refresh"
       /\ session'.next = 1 /\ session'.state = None /\ session'.plan = None
       /\ session' \in Sessions
  <2>1. session = NoSession /\ session \in Sessions
    BY <1>2 DEF JInv, SInv
  <2>2. QED
    BY <1>2, <2>1 DEF NoSession, Sessions
<1>11. row_held' = row
  BY <1>6, <1>10 DEF row_held
<1>12. RunnerAt'
  BY <1>6, <1>10 DEF RunnerAt
<1>13. Held'
  <2>1. session'.next \in 1 .. Len(operations(s))
    <3>1. Len(operations(s)) \in 2 .. 5
      BY ScriptShape
    <3> DEFINE n == Len(operations(s))
    <3> HIDE DEF n
    <3>2. 1 \in 1 .. n
      BY <3>1 DEF n
    <3>3. QED
      BY <1>10, <3>2 DEF n
  <2>2. row.state # None /\ Backed(row, None)
    BY <1>7, NoneAssumption DEF States, Backed
  <2>3. QED
    BY <1>7, <1>10, <1>11, <2>1, <2>2 DEF Held
<1>14. Replay' /\ Verdict'
  BY <1>10 DEF Replay, Verdict, judged_last
<1>15. SInv'
  BY <1>10, <1>12, <1>13, <1>14 DEF SInv
<1>16. QED
  BY <1>3, <1>4, <1>9, <1>15 DEF JInv

LEMMA RefreshHolds == ASSUME JInv, refresh_request PROVE JInv'
<1>1. /\ session.at = "refresh" /\ UNCHANGED vars /\ db' = db /\ pc' = pc /\ loc' = loc
      /\ session' = [session EXCEPT !.state = row_held.state, !.at = "created"]
  BY DEF refresh_request, vars, row_held
<1>2. IInv' /\ Audit' /\ RInv'
  BY <1>1, Unmoved DEF JInv
<1>3. SInv /\ session.at # "none" /\ session \in Sessions /\ session.request \in Requests
      /\ Held /\ Replay /\ RunnerAt
  BY <1>1, SessionOn DEF JInv
<1>4. row_held.state \in States \cup {None} /\ Backed(row_held, row_held.state)
  BY <1>3 DEF JInv, IInv, TypeOK, RequestRows, Audit, Shown, RowShows, row_held
<1>5. /\ session'.at = "created" /\ session'.script = session.script
      /\ session'.request = session.request /\ session'.next = session.next
      /\ session'.plan = session.plan /\ session'.state = row_held.state
      /\ session' \in Sessions
  BY <1>1, <1>3, <1>4 DEF Sessions
<1>6. row_held' = row_held
  BY <1>1, <1>5 DEF row_held
<1>7. Held'
  BY <1>2, <1>3, <1>4, <1>5, <1>6, KeepsReflexive, HeldOn DEF QuietRow
<1>8. RunnerAt' /\ Replay' /\ Verdict'
  BY <1>1, <1>3, <1>5, <1>6 DEF RunnerAt, Replay, Verdict, judged_last
<1>9. QED
  BY <1>2, <1>5, <1>7, <1>8 DEF JInv, SInv

LEMMA StepKeepsAll ==
    ASSUME NEW w, StepKeeps(w), NEW r \in Requests
    PROVE  KeepsReview(db[r], db'[r])
<1>1. CASE r = req(w)
  BY <1>1 DEF StepKeeps
<1>2. CASE r # req(w)
  BY <1>2, KeepsReflexive DEF StepKeeps, OnlyOwn, QuietRow
<1>3. QED
  BY <1>1, <1>2

LEMMA FinishCreateHolds == ASSUME JInv, finish_create PROVE JInv'
<1>1. /\ session.at = "created" /\ received_event(Runner)
      /\ session' = [session EXCEPT !.at = "ready"]
  BY DEF finish_create
<1>2. Runner \in Workers /\ step(Runner)
  BY <1>1, RunnerAssumption DEF step
<1>3. IInv' /\ Audit' /\ RInv' /\ StepKeeps(Runner)
  BY <1>2, StepHolds DEF JInv
<1>4. SInv /\ session.at # "none" /\ session \in Sessions /\ session.request \in Requests
      /\ Held /\ Replay
  BY <1>1, SessionOn DEF JInv
<1>5. /\ session'.at = "ready" /\ session'.script = session.script
      /\ session'.request = session.request /\ session'.next = session.next
      /\ session'.plan = session.plan /\ session'.state = session.state
      /\ session' \in Sessions
  BY <1>1, <1>4 DEF Sessions
<1>6. KeepsReview(row_held, row_held')
  BY <1>3, <1>4, <1>5, StepKeepsAll DEF row_held
<1>7. Backed(row_held', session'.state)
  BY <1>4, <1>5, <1>6, BackedPreserved DEF Held, KeepsReview
<1>8. Held'
  BY <1>3, <1>4, <1>5, <1>6, <1>7, HeldOn
<1>9. pc'[Runner] = "idle"
  BY <1>1, <1>2 DEF JInv, IInv, TypeOK, received_event, finish
<1>10. RunnerAt' /\ Replay' /\ Verdict'
  BY <1>4, <1>5, <1>6, <1>9 DEF RunnerAt, Replay, Verdict, judged_last, KeepsReview, Preserves
<1>11. QED
  BY <1>3, <1>5, <1>8, <1>10 DEF JInv, SInv

(* The plan the scenario selects is one of those under review.             *)
LEMMA SelectHolds == ASSUME JInv, select_plan PROVE JInv'
<1> DEFINE rows == row_held.plans
           plan == rows[1]
           on == Len(rows) = 1
<1>1. /\ session.at = "ready" /\ next_operation = "swap"
      /\ UNCHANGED vars /\ db' = db /\ pc' = pc /\ loc' = loc
      /\ session' = IF on THEN [session EXCEPT !.at = "tamper", !.plan = plan]
                    ELSE [session EXCEPT !.at = "raised"]
  BY DEF select_plan, vars, row_held
<1>2. IInv' /\ Audit' /\ RInv'
  BY <1>1, Unmoved DEF JInv
<1>3. SInv /\ session.at # "none" /\ session \in Sessions /\ session.request \in Requests
      /\ session.script \in Scripts /\ Held /\ Replay /\ RunnerAt
  BY <1>1, SessionOn DEF JInv
<1>4. session.script = "approval-replay" /\ session.next = 4
  BY <1>1, <1>3, ScriptShape DEF Held, next_operation
<1>5. /\ row_held \in RequestRows /\ rows \in Seq(ActionPlans)
      /\ RowShows(row_held) /\ RowReview(row_held)
  BY <1>3 DEF JInv, IInv, TypeOK, RequestRows, Audit, Shown, RInv, row_held
<1>6. on => plan \in ActionPlans /\ 1 \in DOMAIN rows
  <2> HIDE DEF rows
  <2>1. QED
    BY <1>5
<1>7. on => plan # None /\ SameReview(row_held, plan) /\ Proper(row_held, plan)
  BY <1>5, <1>6, NoRowAssumption DEF RowShows, RowReview
<1> HIDE DEF plan, on
<1>8. /\ session'.script = session.script
      /\ session'.request = session.request /\ session'.next = session.next
      /\ session'.state = session.state /\ session' \in Sessions
      /\ \/ on /\ session'.at = "tamper" /\ session'.plan = plan
         \/ session'.at = "raised" /\ session'.plan = session.plan
  <2>1. CASE on
    BY <1>1, <1>3, <1>6, <2>1 DEF Sessions
  <2>2. CASE ~on
    BY <1>1, <1>3, <2>2 DEF Sessions
  <2>3. QED
    BY <2>1, <2>2
<1>9. row_held' = row_held
  BY <1>1, <1>8 DEF row_held
<1>10. Held'
  BY <1>3, <1>4, <1>7, <1>8, <1>9 DEF Held
<1>11. RunnerAt' /\ Replay' /\ Verdict'
  BY <1>1, <1>3, <1>4, <1>8, <1>9 DEF RunnerAt, Replay, Verdict, judged_last
<1>12. QED
  BY <1>2, <1>8, <1>10, <1>11 DEF JInv, SInv

(* Where every evaluation has quarantined, nothing was ever submitted.     *)
LEMMA InjectionSubmitsNothing ==
    ASSUME JInv, NEW r \in Requests, db[r].document = InjectedDocument
    PROVE  db[r].executions["SUBMITTED"] = 0
<1> DEFINE list == submissions[r]
           n == Len(list)
           m == db[r].executions["SUBMITTED"]
<1>1. list \in Seq(Submissions) /\ db[r] \in RequestRows
  BY DEF JInv, IInv, TypeOK
<1>2. m \in Nat
  BY <1>1, CountTypes DEF CountedExecutions
<1>3. DOMAIN list = {}
  <2>1. SUFFICES ASSUME NEW i \in DOMAIN list PROVE FALSE
    OBVIOUS
  <2>2. [decision |-> "ALLOW", plan_hash |-> list[i].plan_hash] \in db[r].evaluations
    BY DEF JInv, IInv, SubmissionsOK, Authorised
  <2>3. \A e \in db[r].evaluations : e.decision = "QUARANTINE"
    BY DEF JInv, RInv, RowReview
  <2>4. QED
    BY <2>2, <2>3
<1>4. n = 0
  <2> HIDE DEF list
  <2>1. QED
    BY <1>1, <1>3
<1>5. n - m >= 0
  <2>1. Surplus("submissions", db[r], list) >= 0
    BY SolventAccounts DEF JInv, Accounts, Effects
  <2>2. QED
    BY <2>1, Surpluses
<1> HIDE DEF n, m
<1>6. m = 0
  BY <1>2, <1>4, <1>5
<1>7. QED
  BY <1>6 DEF m

LEMMA ReportHolds == ASSUME JInv, report PROVE JInv'
<1> DEFINE none == row_held.executions["SUBMITTED"] = 0
<1>1. /\ session.at = "report" /\ UNCHANGED vars /\ db' = db /\ pc' = pc /\ loc' = loc
      /\ session' = [session EXCEPT !.at = "reported", !.no_execution = none]
  BY DEF report, vars, row_held
<1>2. IInv' /\ Audit' /\ RInv'
  BY <1>1, Unmoved DEF JInv
<1>3. SInv /\ session.at # "none" /\ session \in Sessions /\ session.request \in Requests
      /\ Held /\ Replay /\ Verdict /\ RunnerAt
  BY <1>1, SessionOn DEF JInv
<1>4. none \in BOOLEAN
  OBVIOUS
<1>5. session.script = "indirect-prompt-injection" => none
  BY <1>3, InjectionSubmitsNothing DEF Held, row_held
<1> HIDE DEF none
<1>6. /\ session'.at = "reported" /\ session'.script = session.script
      /\ session'.request = session.request /\ session'.next = session.next
      /\ session'.plan = session.plan /\ session'.state = session.state
      /\ session'.decision = session.decision /\ session'.no_execution = none
      /\ session'.repeated = session.repeated /\ session' \in Sessions
  BY <1>1, <1>3, <1>4 DEF Sessions
<1>7. row_held' = row_held
  BY <1>1, <1>6 DEF row_held
<1>8. Held'
  BY <1>2, <1>3, <1>6, <1>7, KeepsReflexive, HeldOn DEF Held, QuietRow
<1>9. Verdict'
  BY <1>1, <1>3, <1>4, <1>5, <1>6, <1>7 DEF Verdict, judged_last, Repeated, stored_response
<1>10. RunnerAt' /\ Replay'
  BY <1>1, <1>3, <1>6, <1>7 DEF RunnerAt, Replay
<1>11. QED
  BY <1>2, <1>6, <1>8, <1>9, <1>10 DEF JInv, SInv

LEMMA BeginHolds == ASSUME JInv, begin_operation PROVE JInv'
<1> DEFINE op == next_operation
           key == IF op = "execute" THEN ScenarioKey ELSE None
           lab == IF op = "execute" THEN "read_key" ELSE "read_policy"
           l == CallOf(Runner, session.request, op, key, session.state)
<1>1. session.at = "ready" /\ op # "swap" /\ db' = db /\ UNCHANGED world
  BY DEF begin_operation
<1>2. SInv /\ session.at # "none" /\ session \in Sessions /\ session.request \in Requests
      /\ session.script \in Scripts /\ Held /\ Replay /\ RunnerAt
  BY <1>1, SessionOn DEF JInv
<1>3. pc[Runner] = "idle" /\ Runner \in Workers
  BY <1>1, <1>2, RunnerAssumption DEF RunnerAt
<1>4. /\ op \in Operations
      /\ op = "custom_plan" => session.script = "scope-exceeded-transfer"
      /\ session.script = "approval-replay" /\ session.next = 3 => op = "approve"
      /\ session.script = "approval-replay" /\ session.next = 5 => op = "execute"
  BY <1>1, <1>2, ScriptShape DEF Held, next_operation
<1>5. CASE op = "execute" \/ session.state \in legal_states(op)
  <2>1. /\ session' = [session EXCEPT !.at = "running"]
        /\ loc' = [loc EXCEPT ![Runner] = l] /\ pc' = [pc EXCEPT ![Runner] = lab]
    BY <1>5 DEF begin_operation, CallOf, goto
  <2>2. /\ lab \in {"read_key", "read_policy"}
        /\ lab = "read_key" => op = "execute" /\ key # None
        /\ lab = "read_policy" => op # "execute" /\ session.state \in legal_states(op)
        /\ key \in Keys \cup {None} /\ session.state \in States \cup {None}
    BY <1>2, <1>5, RunnerAssumption, NoneAssumption DEF Sessions
  <2>3. l.request = session.request /\ l.op = op
    BY DEF CallOf, Idle
  <2>4. row_held.state # None /\ Backed(row_held, session.state)
    BY <1>2 DEF Held
  <2>5. op = "custom_plan" => row_held.policy \in ScopePolicies
    BY <1>2, <1>4, ScenarioPolicyAssumption DEF Held
  <2>6. op = "approve" /\ lab = "read_policy" => session.state = "APPROVAL_REQUIRED"
    BY <2>2 DEF legal_states
  <2> HIDE DEF lab, key, op
  <2>7. IInv'
    BY <1>1, <1>2, <1>3, <1>4, <2>1, <2>2, <2>4, CallBegins DEF JInv, row_held, l
  <2>8. Audit'
    BY <1>1, <1>2, <1>3, <1>4, <2>1, <2>2, <2>4, <2>5, <2>7, CallShows DEF JInv, row_held, l
  <2> HIDE DEF l
  <2>9. RInv'
    BY <1>1, <1>2, <1>3, <2>1, <2>2, <2>3, <2>4, <2>6, CallReviewed DEF JInv, row_held
  <2>10. pc'[Runner] = lab /\ loc'[Runner] = l
    BY <1>3, <2>1 DEF JInv, IInv, TypeOK
  <2>11. /\ session'.at = "running" /\ session'.script = session.script
         /\ session'.request = session.request /\ session'.next = session.next
         /\ session'.plan = session.plan /\ session'.state = session.state
         /\ session' \in Sessions
    BY <1>2, <2>1 DEF Sessions
  <2>12. row_held' = row_held /\ next_operation' = op
    BY <1>1, <2>11 DEF row_held, next_operation, op
  <2>13. Held'
    BY <1>2, <2>7, <2>11, <2>12, KeepsReflexive, HeldOn DEF Held, QuietRow
  <2>14. RunnerAt'
    BY <1>1, <2>2, <2>3, <2>10, <2>11, <2>12 DEF RunnerAt, req
  <2>15. Replay'
    BY <1>2, <1>4, <2>2, <2>10, <2>11, <2>12 DEF Replay
  <2>16. Verdict'
    BY <2>2, <2>10, <2>11 DEF Verdict, judged_last
  <2>17. QED
    BY <2>7, <2>8, <2>9, <2>11, <2>13, <2>14, <2>15, <2>16 DEF JInv, SInv
<1>6. CASE ~(op = "execute" \/ session.state \in legal_states(op))
  <2>1. /\ session' = [session EXCEPT !.at = "raised"] /\ UNCHANGED vars
        /\ pc' = pc /\ loc' = loc
    BY <1>6 DEF begin_operation, world, vars
  <2>2. IInv' /\ Audit' /\ RInv'
    BY <2>1, Unmoved DEF JInv
  <2>3. /\ session'.at = "raised" /\ session'.script = session.script
        /\ session'.request = session.request /\ session'.next = session.next
        /\ session'.plan = session.plan /\ session'.state = session.state
        /\ session' \in Sessions
    BY <1>2, <2>1 DEF Sessions
  <2>4. row_held' = row_held
    BY <1>1, <2>3 DEF row_held
  <2>5. Held'
    BY <1>2, <2>2, <2>3, <2>4, KeepsReflexive, HeldOn DEF Held, QuietRow
  <2>6. RunnerAt' /\ Replay' /\ Verdict'
    BY <1>2, <1>3, <2>1, <2>3, <2>4 DEF RunnerAt, Replay, Verdict, judged_last
  <2>7. QED
    BY <2>2, <2>3, <2>5, <2>6 DEF JInv, SInv
<1>7. QED
  BY <1>5, <1>6

-----------------------------------------------------------------------------
(* A statement of the scenario's handler.                                  *)

LEMMA StepAt ==
    ASSUME NEW w, step(w)
    PROVE  /\ pc[w] = "read_key" => read_key(w)
           /\ pc[w] = "read_policy" => read_policy(w)
           /\ pc[w] = "read_plan" => read_plan(w)
           /\ pc[w] = "persist_plan" => persist_plan(w)
           /\ pc[w] = "read_approval" => read_approval(w)
           /\ pc[w] = "decide" => decide_and_store(w)
           /\ pc[w] = "grant" => grant(w)
           /\ pc[w] = "granted_event" => granted_event(w)
           /\ pc[w] = "store_execution" => store_execution(w)
  BY DEF step, received_event, read_key, read_policy, read_plan, persist_plan, plan_event,
         read_approval, decide_and_store, evaluated_event, set_decided, approval_event, grant,
         granted_event, refuse, refused_event, set_executing, started_event, run_tools,
         store_calls, store_execution, completed_event, set_blocked, blocked_calls,
         blocked_event, incident, incident_event, no_execution, receipt_event, store_receipt,
         set_issued, store_key

(* Where each statement leads.                                             *)
LEMMA StepGoes ==
    ASSUME IInv, Audit, RInv, NEW w \in Workers, step(w)
    PROVE  /\ pc[w] = "read_key" => pc'[w] \in {"idle", "read_policy"}
           /\ pc[w] = "read_policy" => pc'[w] = "read_plan"
           /\ pc[w] = "read_plan" => pc'[w] \in {"idle", after_plan(loc[w].op)}
           /\ pc[w] = "persist_plan" => pc'[w] = "plan_event"
           /\ pc[w] = "read_approval" => pc'[w] = "decide" /\ loc'[w].plan = loc[w].plan
           /\ pc[w] = "decide" => /\ pc'[w] \notin Guarded \cup {"idle"}
                                  /\ loc'[w].decision = decision(context(w))
           /\ pc[w] = "grant" => pc'[w] = "granted_event" /\ db'[req(w)].approved # <<>>
           /\ pc[w] = "granted_event" => pc'[w] = "idle"
           /\ pc[w] \notin Reviewing => pc'[w] = "idle" \/ pc'[w] \notin Guarded
<1>1. pc[w] = "granted_event" => pc'[w] = "idle"
  BY StepAt DEF granted_event, finish, IInv, TypeOK
<1>2. pc[w] \notin Reviewing => pc'[w] = "idle" \/ pc'[w] \notin Guarded
  BY QuietSteps DEF QuietCall, GoesAhead
<1>3. QED
  BY <1>1, <1>2, StepAt, ReadKeyReviewed, ReadPolicyReviewed, ReadPlanReviewed,
     PersistPlanReviewed, ReadApprovalReviewed, DecideReviewed, GrantReviewed

LEMMA PlanLeads ==
    ASSUME NEW op \in Operations
    PROVE  /\ after_plan(op) \in {"persist_plan", "decide", "grant", "refuse", "read_approval"}
           /\ op = "approve" => after_plan(op) = "grant"
           /\ op = "evaluate" => after_plan(op) = "decide"
           /\ op = "execute" => after_plan(op) = "read_approval"
  BY DEF after_plan, Operations

(* The state that the session has then is backed as well.                  *)
LEMMA StateAfterBacked ==
    ASSUME JInv, step(Runner), req(Runner) = session.request,
           session.state \in States \cup {None}, Backed(row_held, session.state)
    PROVE  /\ Backed(db'[session.request], state_after)
           /\ state_after \in States \cup {None}
<1> DEFINE w == Runner
           old == db[req(w)]
           new == db'[req(w)]
<1>1. /\ w \in Workers /\ pc[w] # "idle" /\ Preserves(old, new)
  BY RunnerAssumption, StepHolds DEF JInv, StepKeeps, KeepsReview
<1>2. /\ req(w) \in Requests /\ old \in RequestRows
      /\ Stage(old, pc[w], loc[w]) /\ Reviewed(old, pc[w], loc[w])
      /\ Knows(old, policy_status, pc[w], loc[w])
  BY <1>1, RunningShows, Running DEF JInv
<1>3. CASE pc[w] \in {"persist_plan", "set_blocked"}
  <2>1. state_after \in {"PLAN_CREATED", "QUARANTINED", "DENIED"}
    BY <1>3 DEF state_after
  <2>2. QED
    BY <2>1 DEF Backed, States
<1>4. CASE pc[w] = "set_decided"
  <2>1. state_after = decided_state(loc[w].decision) /\ loc[w].decision \in Decisions
    BY <1>2, <1>4 DEF state_after, Knows, Decided
  <2>2. /\ \E e \in old.evaluations : e.decision = loc[w].decision
        /\ loc[w].decision = "ALLOW" => ~NeedsReview(old)
    BY <1>2, <1>4 DEF Stage, Reviewed
  <2>3. Backed(old, decided_state(loc[w].decision))
        /\ decided_state(loc[w].decision) \in States
    BY <2>1, <2>2 DEF decided_state, Decisions, Backed, States
  <2>4. QED
    BY <1>1, <2>1, <2>3, BackedPreserved
<1>5. CASE pc[w] = "grant"
  <2>1. state_after = "APPROVED"
    BY <1>5 DEF state_after
  <2>2. new.approved # <<>>
    BY <1>1, <1>5, StepGoes DEF JInv
  <2>3. QED
    BY <2>1, <2>2 DEF Backed, States
<1>6. CASE pc[w] = "set_executing"
  <2>1. state_after = "EXECUTING" /\ \E e \in old.evaluations : e.decision = "ALLOW"
    BY <1>2, <1>6 DEF state_after, Stage, Allowed
  <2>2. Backed(old, "EXECUTING")
    BY <2>1 DEF Backed
  <2>3. QED
    BY <1>1, <2>1, <2>2, BackedPreserved DEF States
<1>7. CASE pc[w] = "store_execution"
  <2> DEFINE s == execution_status(loc[w].outcome)
             n == old.executions[s] + 1
             state == state_written(w, executed_state(loc[w].outcome))
             f == [old.executions EXCEPT ![s] = n]
             row == [old EXCEPT !.executions = f, !.state = state]
  <2>1. s \in {"SUBMITTED", "FAILED_SAFE"}
        /\ state_after = IF s = "SUBMITTED" THEN "EXECUTED" ELSE "FAILED_SAFE"
    BY <1>7 DEF state_after, execution_status, executed_state
  <2>2. db' = [db EXCEPT ![req(w)] = row]
    BY <1>1, <1>2, <1>7, StepAt DEF store_execution, JInv, IInv, TypeOK
  <2> HIDE DEF state
  <2>3. new = row
    BY <1>2, <2>2 DEF JInv, IInv, TypeOK
  <2>4. n > 0 /\ row.executions[s] = n
    <3>1. old.executions \in [{"SUBMITTED", "FAILED_SAFE", "NO_EXECUTION"} -> Nat]
      BY <1>2 DEF RequestRows
    <3>2. row.executions = f
      BY <1>2 DEF RequestRows
    <3> HIDE DEF row, s, old
    <3>3. old.executions[s] \in Nat /\ f[s] = n
      BY <2>1, <3>1
    <3>4. QED
      BY <3>2, <3>3
  <2> HIDE DEF row, n, s
  <2>5. QED
    BY <2>1, <2>3, <2>4 DEF Backed, States
<1>8. CASE pc[w] = "set_issued"
  <2>1. state_after = "RECEIPT_ISSUED" /\ \E s \in ReceiptStatuses : old.receipts[s] > 0
    BY <1>2, <1>8 DEF state_after, Stage
  <2>2. Backed(old, "RECEIPT_ISSUED")
    BY <2>1 DEF Backed
  <2>3. QED
    BY <1>1, <2>1, <2>2, BackedPreserved DEF States
<1>9. CASE pc[w] \notin {"persist_plan", "set_blocked", "set_decided", "grant", "set_executing",
                         "store_execution", "set_issued"}
  <2>1. state_after = session.state
    BY <1>9 DEF state_after
  <2>2. QED
    BY <1>1, <2>1, BackedPreserved DEF row_held
<1>10. QED
  BY <1>3, <1>4, <1>5, <1>6, <1>7, <1>8, <1>9

(* The judgement of an attack's last operation.                            *)
LEMMA LastJudgement ==
    ASSUME JInv, session.at = "running", step(Runner), pc[Runner] = "decide",
           session.script \in attacks, session.next = Len(operations(session.script))
    PROVE  \/ decision(context(Runner)) = "QUARANTINE"
           \/ session.script = "approval-replay" /\ TamperedApproved(row_held)
<1>1. SInv /\ session.script \in Scripts /\ Held /\ Replay /\ RunnerAt /\ Runner \in Workers
  BY SessionOn, RunnerAssumption DEF JInv
<1>2. /\ req(Runner) = session.request /\ loc[Runner].op = next_operation
      /\ session.request \in Requests
  BY <1>1 DEF RunnerAt, Held
<1>3. /\ db[req(Runner)] = row_held /\ row_held \in RequestRows
      /\ Reviewed(row_held, pc[Runner], loc[Runner])
      /\ Knows(row_held, policy_status, pc[Runner], loc[Runner])
      /\ RowReview(row_held)
  BY <1>1, <1>2, RunningShows, Running DEF JInv, RInv, row_held
<1>4. CASE session.script = "indirect-prompt-injection"
  <2>1. document(Runner) = InjectedDocument
    BY <1>1, <1>3, <1>4 DEF Held, document
  <2>2. QED
    BY <2>1, InjectionQuarantines
<1>5. CASE session.script = "approval-replay"
  <2>1. session.next = 5 /\ next_operation = "execute"
    BY <1>1, <1>5, ScriptShape DEF next_operation
  <2>2. /\ loc[Runner].plan = session.plan /\ tampered(session.plan)
        /\ row_held.approved # <<>>
    <3>1. session.next >= 4 => row_held.approved # <<>>
      BY <1>1, <1>5 DEF Replay
    <3>2. tampered(session.plan)
      BY <1>1, <1>5, <2>1 DEF Replay
    <3>3. loc[Runner].plan = session.plan
      BY <1>1, <1>5, <2>1 DEF Replay
    <3>4. QED
      BY <2>1, <3>1, <3>2, <3>3
  <2>3. NeedsReview(row_held)
    <3>1. 1 \in DOMAIN row_held.approved
      <4> DEFINE rows == row_held.approved
      <4>1. rows \in Seq(Approvals) /\ rows # <<>>
        BY <1>3, <2>2 DEF RequestRows
      <4> HIDE DEF rows
      <4>2. 1 \in DOMAIN rows
        BY <4>1
      <4>3. QED
        BY <4>2 DEF rows
    <3>2. QED
      BY <1>3, <3>1 DEF RowReview
  <2>4. loc[Runner].approval # None /\ loc[Runner].approval \in Granted(row_held)
    BY <1>2, <1>3, <2>1, <2>3 DEF Reviewed, Knows
  <2>5. CASE loc[Runner].approval.approved_plan_hash = loc[Runner].plan
    BY <1>5, <2>2, <2>4, <2>5 DEF TamperedApproved
  <2>6. CASE loc[Runner].approval.approved_plan_hash # loc[Runner].plan
    BY <2>4, <2>6, OtherPlanQuarantines
  <2>7. QED
    BY <2>5, <2>6
<1>6. QED
  BY <1>4, <1>5 DEF attacks

LEMMA ContinueHolds == ASSUME JInv, continue_operation PROVE JInv'
<1> DEFINE w == Runner
           last == session.next = Len(operations(session.script))
           judges == pc[w] = "decide"
                       /\ (loc[w].op = "evaluate" \/ session.script = "approval-replay")
           at == after_statement
           next == IF at = "ready" THEN session.next + 1 ELSE session.next
           d == decision_after
<1>1. /\ session.at = "running" /\ step(w) /\ (session.plan = None \/ pc[w] # "read_plan")
      /\ session' = [session EXCEPT !.at = at, !.next = next, !.state = state_after,
                                    !.decision = d, !.repeated = key_found]
  BY DEF continue_operation
<1>2. /\ SInv /\ session.at # "none" /\ session \in Sessions /\ session.request \in Requests
      /\ session.script \in Scripts /\ Held /\ Replay /\ Verdict /\ RunnerAt
      /\ session.next \in Nat /\ session.next >= 1
      /\ session.next <= Len(operations(session.script))
      /\ Len(operations(session.script)) \in Nat /\ Len(operations(session.script)) <= 5
  BY <1>1, SessionOn DEF JInv
<1>3. IInv' /\ Audit' /\ RInv' /\ StepKeeps(w) /\ w \in Workers
  BY <1>1, RunnerAssumption, StepHolds DEF JInv
<1>4. /\ req(w) = session.request /\ loc[w].op = next_operation /\ next_operation # "swap"
      /\ pc[w] \notin {"idle", "received_event"}
  BY <1>1, <1>2 DEF RunnerAt
<1>5. /\ db[req(w)] = row_held /\ loc[w].op \in Operations /\ HandlerReview(row_held, pc[w], loc[w])
  <2>1. /\ next_operation \in Operations \cup {"swap"}
    BY <1>2, ScriptShape DEF Held, next_operation
  <2>2. QED
    BY <1>3, <1>4, <2>1 DEF JInv, RInv, row_held
<1>6. \/ at = "running" /\ pc'[w] # "idle"
      \/ at = "raised" /\ pc'[w] = "idle"
      \/ /\ pc'[w] = "idle" /\ pc[w] # "read_plan" /\ (pc[w] = "read_key" => key_found)
         /\ \/ at = "report" /\ last
            \/ at = "ready" /\ ~last
  BY DEF after_statement, raises, key_found
<1>7. next \in 1 .. 5 /\ next \in 1 .. Len(operations(session.script))
      /\ next \in Nat /\ (at # "ready" => next = session.next)
      /\ (at = "ready" => next = session.next + 1)
  <2> DEFINE n == Len(operations(session.script))
  <2> HIDE DEF n, at
  <2>1. at = "ready" => session.next # n
    BY <1>6 DEF n
  <2>2. session.next \in Nat /\ session.next >= 1 /\ session.next <= n /\ n \in Nat /\ n <= 5
    BY <1>2 DEF n
  <2>3. next \in 1 .. 5 /\ next \in 1 .. n
    BY <2>1, <2>2
  <2>4. QED
    BY <2>2, <2>3 DEF n
<1>8. state_after \in States \cup {None} /\ Backed(db'[session.request], state_after)
  BY <1>1, <1>2, <1>4, StateAfterBacked DEF Held, Sessions
<1>9. d \in Decisions \cup {None} /\ key_found \in BOOLEAN
  <2>1. loc'[w].decision \in Decisions \cup {None}
    BY <1>3 DEF IInv, TypeOK, Locals
  <2>2. key_found => receipt_decision(stored_response.status) \in Decisions
    <3>1. stored_response \in Receipts \cup {None}
      BY <1>2, RunnerAssumption DEF JInv, IInv, TypeOK, RequestRows, stored_response
    <3>2. QED
      BY <3>1 DEF key_found, Receipts, ReceiptStatuses, receipt_decision, Decisions
  <2>3. QED
    BY <1>2, <2>1, <2>2 DEF Sessions, decision_after, key_found
<1>10. judges /\ pc[w] = "decide" => d = decision(context(w))
  BY <1>1, <1>3, StepGoes DEF JInv, decision_after
<1>11. /\ ~judges /\ ~key_found => d = session.decision
       /\ key_found /\ session.script = "approval-replay"
            => d = receipt_decision(stored_response.status)
  BY DEF decision_after, key_found
<1> HIDE DEF at, next, d
<1>12. /\ session'.script = session.script /\ session'.request = session.request
       /\ session'.at = at /\ session'.next = next /\ session'.state = state_after
       /\ session'.plan = session.plan /\ session'.decision = d
       /\ session'.repeated = key_found /\ session' \in Sessions
  <2>1. at \in {"running", "raised", "report", "ready"}
    BY <1>6
  <2>2. QED
    BY <1>1, <1>2, <1>7, <1>8, <1>9, <2>1 DEF Sessions
<1>13. /\ row_held' = db'[session.request] /\ KeepsReview(row_held, row_held')
       /\ Preserves(row_held, row_held')
       /\ TamperedApproved(row_held) => TamperedApproved(row_held')
  BY <1>2, <1>3, <1>12, StepKeepsAll DEF row_held, KeepsReview, TamperedApproved
<1>14. session.plan # None => session.script = "approval-replay" /\ session.next = 5 /\ last
  BY <1>2, <1>4, ScriptShape DEF Held, next_operation
<1>15. Held'
  <2>1. session.plan = None \/ session'.next = session.next
    BY <1>6, <1>7, <1>12, <1>14
  <2>2. session'.at # "tamper"
    BY <1>6, <1>12
  <2>3. QED
    BY <1>2, <1>3, <1>7, <1>8, <1>12, <1>13, <2>1, <2>2, HeldOn
<1>16. RunnerAt'
  <2>1. CASE pc'[w] # "idle"
    <3>1. pc'[w] # "received_event"
      BY <1>1, <1>3, <1>5, StepGoes, PlanLeads DEF JInv, Guarded, Reviewing
    <3>2. at = "running" /\ req(w)' = session.request /\ loc'[w].op = next_operation
      BY <1>3, <1>4, <1>6, <2>1 DEF StepKeeps, req
    <3>3. next_operation' = next_operation
      BY <1>7, <1>12, <3>2 DEF next_operation
    <3>4. QED
      BY <1>4, <1>12, <2>1, <3>1, <3>2, <3>3 DEF RunnerAt
  <2>2. CASE pc'[w] = "idle"
    BY <1>6, <1>12, <2>2 DEF RunnerAt
  <2>3. QED
    BY <2>1, <2>2
<1>17. Replay'
  <2> SUFFICES ASSUME session.script = "approval-replay" PROVE Replay'
    BY <1>12 DEF Replay
  <2>1. /\ Len(operations(session.script)) = 5
        /\ session.next = 3 => loc[w].op = "approve"
        /\ session.next = 5 => loc[w].op = "execute"
        /\ session.next # 4
    BY <1>2, <1>4, ScriptShape DEF Held, next_operation
  <2>2. session.next = 3 =>
           /\ pc[w] \in {"read_policy", "read_plan", "grant", "granted_event"}
           /\ pc'[w] # "idle" => pc'[w] \in {"read_policy", "read_plan", "grant", "granted_event"}
           /\ at = "ready" => row_held.approved # <<>>
    <3> SUFFICES ASSUME session.next = 3
                 PROVE  /\ pc[w] \in {"read_policy", "read_plan", "grant", "granted_event"}
                        /\ pc'[w] # "idle"
                             => pc'[w] \in {"read_policy", "read_plan", "grant", "granted_event"}
                        /\ at = "ready" => row_held.approved # <<>>
      OBVIOUS
    <3>1. pc[w] \in {"read_policy", "read_plan", "grant", "granted_event"}
      BY <1>1, <1>2 DEF Replay
    <3>2. /\ pc[w] = "read_policy" => pc'[w] = "read_plan"
          /\ pc[w] = "read_plan" => pc'[w] \in {"idle", "grant"}
          /\ pc[w] = "grant" => pc'[w] = "granted_event"
          /\ pc[w] = "granted_event" => pc'[w] = "idle"
      BY <1>1, <1>3, <1>5, <2>1, StepGoes, PlanLeads DEF JInv
    <3>3. pc[w] = "granted_event" => row_held.approved # <<>>
      BY <1>5 DEF HandlerReview
    <3>4. QED
      BY <1>6, <3>1, <3>2, <3>3
  <2>3. next = 3 /\ at = "running" => session.next = 3
    BY <1>7
  <2>4. next >= 4 => row_held.approved # <<>>
    <3>1. CASE at = "ready"
      <4>1. next = session.next + 1
        BY <1>7, <3>1
      <4>2. session.next >= 4 => row_held.approved # <<>>
        BY <1>2 DEF Replay
      <4>3. session.next \in Nat
        BY <1>2
      <4>4. QED
        BY <2>2, <3>1, <4>1, <4>2, <4>3
    <3>2. CASE at # "ready"
      BY <1>2, <1>7, <3>2 DEF Replay
    <3>3. QED
      BY <3>1, <3>2
  <2>5. next = 5 => session.next = 5
    BY <1>2, <1>7, <2>1
  <2>6. session.next = 5 => session.plan # None /\ tampered(session.plan)
    BY <1>2 DEF Replay
  <2>7. session.next = 5 /\ pc'[w] \in {"read_approval", "decide"} => loc'[w].plan = session.plan
    <3> SUFFICES ASSUME session.next = 5, pc'[w] \in {"read_approval", "decide"}
                 PROVE  loc'[w].plan = session.plan
      OBVIOUS
    <3>1. pc[w] # "read_plan"
      BY <1>1, <2>6
    <3>2. pc[w] = "read_approval" /\ pc'[w] = "decide" /\ loc'[w].plan = loc[w].plan
      BY <1>1, <1>3, <3>1, StepGoes DEF JInv, Guarded, Reviewing
    <3>3. QED
      BY <1>1, <1>2, <3>2 DEF Replay
  <2>8. next >= 4 => row_held'.approved # <<>>
    BY <1>13, <2>4 DEF Preserves
  <2>9. at = "running" => next = session.next
    BY <1>7
  <2>10. at = "running" => pc'[w] # "idle"
    BY <1>6
  <2>11. QED
    BY <1>12, <2>2, <2>3, <2>5, <2>6, <2>7, <2>8, <2>9, <2>10 DEF Replay
<1>18. Verdict'
  <2>1. at # "reported"
    BY <1>6
  <2> SUFFICES ASSUME session.script \in attacks, judged_last'
               PROVE  \/ d = "QUARANTINE"
                      \/ session.script = "approval-replay" /\ TamperedApproved(row_held')
                      \/ Repeated'
    BY <1>12, <2>1 DEF Verdict
  <2> DEFINE unjudged == {"read_key", "read_policy", "read_plan", "read_approval", "decide"}
  <2>2. last
    BY <1>6, <1>7, <1>12 DEF judged_last
  <2>3. \/ at = "report" /\ pc'[w] = "idle" /\ pc[w] # "read_plan"
             /\ (pc[w] = "read_key" => key_found)
        \/ at = "running" /\ pc'[w] # "idle" /\ pc'[w] \notin unjudged
    BY <1>6, <1>12 DEF judged_last
  <2>4. \/ session.script = "approval-replay" /\ loc[w].op = "execute" /\ session.plan # None
        \/ session.script = "indirect-prompt-injection" /\ loc[w].op = "evaluate"
    BY <1>2, <1>4, <2>2, ScriptShape DEF attacks, next_operation, Replay
  <2>5. CASE pc[w] = "read_key"
    <3>1. at = "report" /\ key_found /\ db' = db
      BY <1>1, <1>3, <2>3, <2>5, StepGoes, StepAt DEF JInv, read_key
    <3>2. loc[w].op = "execute"
      BY <1>3, <2>5, RunningShows DEF JInv, Stage
    <3>3. stored_response' = stored_response /\ stored_response # None
      BY <1>12, <3>1 DEF stored_response, key_found
    <3>4. QED
      BY <1>11, <1>12, <2>4, <3>1, <3>2, <3>3 DEF Repeated
  <2>6. CASE pc[w] # "read_key"
    <3>1. pc[w] # "read_policy" /\ pc[w] # "read_approval"
      BY <1>1, <1>3, <2>3, StepGoes DEF JInv
    <3>2. pc[w] # "read_plan"
      BY <1>1, <1>3, <1>5, <2>3, <2>4, StepGoes, PlanLeads DEF JInv
    <3>3. CASE pc[w] = "decide"
      BY <1>1, <1>10, <1>13, <2>2, <2>4, <3>3, LastJudgement DEF attacks
    <3>4. CASE pc[w] # "decide"
      <4>1. judged_last
        BY <1>1, <2>2, <2>6, <3>1, <3>2, <3>4 DEF judged_last
      <4>2. d = session.decision /\ ~Repeated
        BY <1>1, <1>11, <2>6, <3>4 DEF key_found, Repeated
      <4>3. QED
        BY <1>2, <1>13, <4>1, <4>2 DEF Verdict
    <3>5. QED
      BY <3>3, <3>4
  <2>7. QED
    BY <2>5, <2>6
<1>19. QED
  BY <1>3, <1>12, <1>15, <1>16, <1>17, <1>18, <1>6 DEF JInv, SInv

(* An execution of a replay that comes to its plan has the tampered one.   *)
LEMMA ReadHeldPlanHolds == ASSUME JInv, read_held_plan PROVE JInv'
<1> DEFINE w == Runner
           l == [loc[w] EXCEPT !.plan = session.plan]
           one == Len(row_held.plans) = 1
<1>1. /\ session.at = "running" /\ pc[w] = "read_plan" /\ pc[w] # "idle"
      /\ session.plan # None /\ db' = db /\ UNCHANGED world /\ submissions' = submissions
  BY DEF read_held_plan, world
<1>2. /\ SInv /\ session.at # "none" /\ session \in Sessions /\ session.request \in Requests
      /\ session.script \in Scripts /\ Held /\ Replay /\ RunnerAt /\ w \in Workers
  BY <1>1, SessionOn, RunnerAssumption DEF JInv
<1>3. /\ req(w) = session.request /\ loc[w].op = next_operation /\ next_operation # "swap"
  BY <1>1, <1>2 DEF RunnerAt
<1>4. /\ session.script = "approval-replay" /\ session.next = 5 /\ loc[w].op = "execute"
      /\ session.plan \in ActionPlans
      /\ SameReview(row_held, session.plan) /\ Proper(row_held, session.plan)
  BY <1>1, <1>2, <1>3, ScriptShape DEF Held, Sessions, next_operation
<1>5. /\ db[req(w)] = row_held /\ loc[w] \in Locals
      /\ Knows(row_held, policy_status, pc[w], loc[w])
      /\ Stage(row_held, pc[w], loc[w]) /\ Reviewed(row_held, pc[w], loc[w])
  BY <1>1, <1>2, <1>3, Running, RunningShows DEF JInv, row_held
<1>6. OwesNone(pc[w], loc[w])
  BY <1>1, CalmOwesNone DEF Owing
<1>7. CASE one
  <2>1. /\ loc' = [loc EXCEPT ![w] = l] /\ pc' = [pc EXCEPT ![w] = "read_approval"]
        /\ session' = session
    BY <1>4, <1>7 DEF read_held_plan, goto, after_plan, row_held
  <2>2. /\ l \in Locals /\ l.request = req(w) /\ l.plan = session.plan
        /\ l.op = loc[w].op /\ l.approval = loc[w].approval
    BY <1>4, <1>5 DEF Locals, req
  <2>3. Knows(row_held, policy_status, "read_approval", l)
    BY <1>1, <1>4, <1>5 DEF Knows, Locals, Called, Decided, Executing
  <2> HIDE DEF l
  <2>4. IInv'
    BY <1>1, <1>2, <1>5, <2>1, <2>2, <2>3, Reading DEF JInv, Safe, Moves, Labels
  <2>5. Audit'
    <3>1. Stage(row_held, "read_approval", l)
      BY <1>4, <2>2 DEF Stage, Allowed, Blocked, Ran
    <3>2. Reviewed(row_held, "read_approval", l)
      BY <1>1, <1>4, <1>5, <2>2 DEF Reviewed, Called, admitted
    <3>3. OwesNone("read_approval", l)
      BY CalmOwesNone DEF Owing
    <3>4. QED
      BY <1>1, <1>2, <1>5, <1>6, <2>1, <2>2, <2>4, <3>1, <3>2, <3>3, CalmReading
         DEF JInv, Arrives
  <2>6. HandlerReview(row_held, "read_approval", l)
    BY <1>4, <2>2 DEF HandlerReview
  <2>7. RInv' /\ pc'[w] = "read_approval" /\ loc'[w] = l
    BY <1>1, <1>2, <1>5, <2>1, <2>2, <2>6, ReadingReviewed DEF JInv
  <2>8. row_held' = row_held /\ next_operation' = next_operation
    BY <1>1, <2>1 DEF row_held, next_operation
  <2>9. Held'
    BY <1>1, <1>2, <2>1, <2>4, <2>8, KeepsReflexive, HeldOn DEF Held, QuietRow
  <2>10. RunnerAt'
    BY <1>1, <1>3, <2>1, <2>2, <2>7, <2>8 DEF RunnerAt, req
  <2>11. Replay' /\ Verdict'
    BY <1>1, <1>2, <1>4, <2>1, <2>2, <2>7, <2>8 DEF Replay, Verdict, judged_last
  <2>12. QED
    BY <1>2, <2>1, <2>4, <2>5, <2>7, <2>9, <2>10, <2>11 DEF JInv, SInv
<1>8. CASE ~one
  <2>1. /\ finish(w) /\ session' = [session EXCEPT !.at = "raised"]
        /\ pc' = [pc EXCEPT ![w] = "idle"] /\ loc' = [loc EXCEPT ![w] = Idle]
    BY <1>8 DEF read_held_plan, finish, row_held
  <2>2. IInv'
    BY <1>1, <1>2, <2>1, Ends, Reading DEF JInv, Safe
  <2>3. Audit'
    BY <1>1, <1>2, <1>6, <2>1, <2>2, IdleArrives, CalmReading DEF JInv
  <2>4. RInv' /\ pc'[w] = "idle"
    BY <1>1, <1>2, <2>1, ReadingReviewed DEF JInv
  <2>5. /\ session'.at = "raised" /\ session'.script = session.script
        /\ session'.request = session.request /\ session'.next = session.next
        /\ session'.plan = session.plan /\ session'.state = session.state
        /\ session' \in Sessions
    BY <1>2, <2>1 DEF Sessions
  <2>6. row_held' = row_held
    BY <1>1, <2>5 DEF row_held
  <2>7. Held'
    BY <1>2, <2>2, <2>5, <2>6, KeepsReflexive, HeldOn DEF Held, QuietRow
  <2>8. RunnerAt' /\ Replay' /\ Verdict'
    BY <1>2, <2>4, <2>5, <2>6 DEF RunnerAt, Replay, Verdict, judged_last
  <2>9. QED
    BY <2>2, <2>3, <2>4, <2>5, <2>7, <2>8 DEF JInv, SInv
<1>9. QED
  BY <1>7, <1>8

-----------------------------------------------------------------------------
(* The tampering.                                                          *)

LEMMA ChangedPlan ==
    ASSUME NEW plan \in ActionPlans
    PROVE  /\ Changed(plan) \in ActionPlans
           /\ Changed(plan).proposed_tool_calls = plan.proposed_tool_calls
           /\ tampered(Changed(plan))
           /\ Changed(Changed(plan)) = Changed(plan)
<1>1. \A p : Changed(Changed(p)) = Changed(p)
  BY DEF Changed
<1>2. Changed(plan) \in ActionPlans
  <2>1. CASE plan \in Proposals
    BY <2>1 DEF ActionPlans
  <2>2. CASE plan \notin Proposals
    <3>1. PICK p \in Proposals : plan = Changed(p)
      BY <2>2 DEF ActionPlans
    <3>2. QED
      BY <1>1, <3>1
  <2>3. QED
    BY <2>1, <2>2
<1>3. "proposed_tool_calls" \in DOMAIN plan /\ "goal" \in DOMAIN plan
  <2>1. CASE plan \in Proposals
    BY <2>1, PlansHaveCalls, ProposalsHaveGoals
  <2>2. CASE plan \notin Proposals
    <3>1. PICK p \in Proposals : plan = Changed(p)
      BY <2>2 DEF ActionPlans
    <3>2. QED
      BY <3>1, PlansHaveCalls, ProposalsHaveGoals DEF Changed
  <2>3. QED
    BY <2>1, <2>2
<1>4. QED
  BY <1>1, <1>2, <1>3 DEF Changed, tampered

(* A tampered plan calls for the same review, and passes as proper.        *)
LEMMA ChangedReview ==
    ASSUME NEW row, NEW plan \in ActionPlans, SameReview(row, plan), Proper(row, plan),
           NeedsReview(row) => Asked(row)
    PROVE  SameReview(row, Changed(plan)) /\ Proper(row, Changed(plan))
<1>1. plan_tools(Changed(plan)) = plan_tools(plan)
  BY ChangedPlan DEF plan_tools
<1>2. SameReview(row, Changed(plan))
  BY <1>1 DEF SameReview, needs_approval
<1>3. \A p : Changed(Changed(p)) = Changed(p)
  BY DEF Changed
<1>4. Proper(row, Changed(plan))
  BY <1>3 DEF Proper
<1>5. QED
  BY <1>2, <1>4

(* A request's rows are replaced by others that no handler is worse for.   *)
LEMMA RowReplaced ==
    ASSUME IInv, Audit, RInv, NEW r \in Requests, db[r].state # None,
           NEW row \in RequestRows, Grows(db[r], row), KeepsReview(db[r], row), SameLedger(db[r], row),
           RowShows(row), RowReview(row),
           db' = [db EXCEPT ![r] = row], pc' = pc, loc' = loc, UNCHANGED world
    PROVE  IInv' /\ Audit' /\ RInv'
<1>1. /\ policy_status' = policy_status /\ now' = now /\ submissions' = submissions
      /\ answered' = answered /\ budget' = budget
  BY DEF world
<1>2. /\ db \in [Requests -> RequestRows] /\ loc \in [Workers -> Locals]
      /\ \A q \in Requests : db'[q] = IF q = r THEN row ELSE db[q]
  BY DEF IInv, TypeOK
<1>3. IInv'
  <2>1. TypeOK'
    BY <1>1, <1>2 DEF IInv, TypeOK
  <2>2. \A q \in Requests : RowOK(db'[q])
    BY <1>2 DEF IInv, RowOK, Grows
  <2>3. \A v \in Workers : HandlerOK(db', policy_status', pc'[v], loc'[v])
    BY <1>1, <1>2, HandlerGrows DEF IInv
  <2>4. \A q \in Requests : SubmissionsOK(db'[q], submissions'[q])
    BY <1>1, <1>2, SubmissionsGrow DEF IInv
  <2>5. QED
    BY <2>1, <2>2, <2>3, <2>4 DEF IInv
<1>4. ASSUME NEW q \in Requests
      PROVE  /\ RowShows(db'[q]) /\ RowReview(db'[q])
             /\ Preserves(db[q], db'[q]) /\ SameLedger(db[q], db'[q])
  BY <1>2, PreservesReflexive DEF Audit, Shown, RInv, KeepsReview
<1>5. ASSUME NEW v \in Workers
      PROVE  /\ HandlerShows(db', pc'[v], loc'[v])
             /\ pc[v] # "idle" => HandlerReview(db'[req(v)], pc[v], loc[v])
  <2>1. CASE pc[v] # "idle"
    <3>1. /\ req(v) \in Requests
          /\ Stage(db[req(v)], pc[v], loc[v]) /\ Reviewed(db[req(v)], pc[v], loc[v])
          /\ HandlerReview(db[req(v)], pc[v], loc[v])
      BY <2>1, RunningShows DEF RInv
    <3>2. /\ Stage(db'[req(v)], pc[v], loc[v]) /\ Reviewed(db'[req(v)], pc[v], loc[v])
          /\ HandlerReview(db'[req(v)], pc[v], loc[v])
      BY <1>4, <3>1, StagePreserved, ReviewedPreserved, HandlerReviewPreserved
    <3>3. QED
      BY <3>2 DEF HandlerShows, req
  <2>2. CASE pc[v] = "idle"
    BY <2>2 DEF HandlerShows
  <2>3. QED
    BY <2>1, <2>2
<1>6. \A q \in Requests : Solvent(q)'
  BY <1>1, <1>4, CalmWorld DEF CalmAt, req
<1>7. QED
  BY <1>3, <1>4, <1>5, <1>6 DEF Audit, Shown, RInv, req

LEMMA SwapHolds == ASSUME JInv, commit_swap PROVE JInv'
<1> DEFINE r == session.request
           old == db[r]
           rows == old.plans
           plan == Changed(session.plan)
           new == [rows EXCEPT ![1] = plan]
           row == [old EXCEPT !.plans = new]
<1>1. /\ session.at = "tamper" /\ db' = [db EXCEPT ![r] = row]
      /\ UNCHANGED world /\ pc' = pc /\ loc' = loc
      /\ session' = [session EXCEPT !.at = "ready", !.next = session.next + 1, !.plan = plan]
  BY DEF commit_swap
<1>2. /\ SInv /\ session.at # "none" /\ session \in Sessions /\ r \in Requests
      /\ session.script \in Scripts /\ Held /\ Replay /\ RunnerAt
  BY <1>1, SessionOn DEF JInv
<1>3. /\ session.next = 4 /\ session.script = "approval-replay"
      /\ session.plan # None /\ session.plan \in ActionPlans
      /\ SameReview(old, session.plan) /\ Proper(old, session.plan)
  BY <1>1, <1>2 DEF Held, Sessions, row_held
<1>4. old.approved # <<>>
  BY <1>2, <1>3 DEF Replay, row_held
<1>5. /\ db \in [Requests -> RequestRows] /\ old \in RequestRows /\ old.state # None
      /\ rows \in Seq(ActionPlans) /\ old.approved \in Seq(Approvals)
      /\ RowShows(old) /\ RowReview(old)
  BY <1>2 DEF JInv, IInv, TypeOK, RequestRows, Audit, Shown, RInv, Held, row_held
<1>6. Asked(old)
  <2>1. 1 \in DOMAIN old.approved
    <3> DEFINE approved == old.approved
    <3>1. approved \in Seq(Approvals) /\ approved # <<>>
      BY <1>4, <1>5
    <3> HIDE DEF approved
    <3>2. 1 \in DOMAIN approved
      BY <3>1
    <3>3. QED
      BY <3>2 DEF approved
  <2>2. QED
    BY <1>5, <2>1 DEF RowReview
<1>7. /\ plan \in ActionPlans /\ plan # None /\ tampered(plan)
      /\ SameReview(old, plan) /\ Proper(old, plan)
  BY <1>3, <1>6, ChangedPlan, ChangedReview, NoRowAssumption
<1> HIDE DEF plan
<1>8. /\ new \in Seq(ActionPlans)
      /\ \A i \in DOMAIN new : i \in DOMAIN rows /\ (new[i] = rows[i] \/ new[i] = plan)
  <2> HIDE DEF rows
  <2>1. CASE 1 \in DOMAIN rows
    <3>1. 1 \in 1 .. Len(rows)
      BY <1>5, <2>1
    <3>2. QED
      BY <1>5, <1>7, <3>1, ExceptSeq
  <2>2. CASE 1 \notin DOMAIN rows
    <3>1. rows = <<>>
      BY <1>5, <2>2
    <3>2. new = <<>>
      BY <3>1
    <3>3. QED
      BY <1>5, <3>1, <3>2
  <2>3. QED
    BY <2>1, <2>2
<1> HIDE DEF new
<1>9. /\ row \in RequestRows /\ Grows(old, row) /\ KeepsReview(old, row) /\ SameLedger(old, row)
  BY <1>5, <1>8 DEF RequestRows, Grows, Granted, KeepsReview, Preserves, SameLedger
<1>10. /\ row.plans = new /\ row.state = old.state /\ row.receipts = old.receipts
       /\ row.evaluations = old.evaluations /\ row.approved = old.approved
       /\ row.document = old.document
  BY <1>5 DEF RequestRows
<1> HIDE DEF row
<1>11. /\ Preserves(old, row)
       /\ \A p : SameReview(old, p) => SameReview(row, p)
       /\ \A p : Proper(old, p) => Proper(row, p)
  BY <1>9, ReviewPreserved DEF KeepsReview
<1>12. RowShows(row)
  <2>1. Backed(row, old.state)
    BY <1>5, <1>11, BackedPreserved DEF RowShows
  <2>2. \A i \in DOMAIN new : SameReview(row, new[i])
    BY <1>5, <1>7, <1>8, <1>11 DEF RowShows
  <2>3. QED
    BY <1>5, <1>10, <2>1, <2>2 DEF RowShows
<1>13. RowReview(row)
  <2>1. \A i \in DOMAIN new : Proper(row, new[i])
    BY <1>5, <1>7, <1>8, <1>11 DEF RowReview
  <2>2. Asked(row) <=> Asked(old)
    BY <1>10 DEF Asked
  <2>3. QED
    BY <1>5, <1>10, <1>11, <2>1, <2>2, ReviewPreserved DEF RowReview
<1>14. IInv' /\ Audit' /\ RInv'
  BY <1>1, <1>2, <1>5, <1>9, <1>12, <1>13, RowReplaced DEF JInv
<1>15. /\ session'.at = "ready" /\ session'.script = session.script
       /\ session'.request = r /\ session'.next = 5
       /\ session'.plan = plan /\ session'.state = session.state
       /\ session' \in Sessions
  <2>1. session.next + 1 = 5 /\ 5 \in 1 .. 5
    BY <1>3
  <2>2. session' = [session EXCEPT !.at = "ready", !.next = 5, !.plan = plan]
    BY <1>1, <2>1
  <2>3. plan \in ActionPlans
    BY <1>7
  <2> HIDE DEF plan
  <2>4. session' \in Sessions
    BY <1>2, <2>1, <2>2, <2>3 DEF Sessions
  <2>5. QED
    BY <1>2, <2>2, <2>4 DEF Sessions
<1>16. row_held' = row /\ row_held = old
  BY <1>1, <1>2, <1>5, <1>15 DEF row_held
<1>17. Held'
  <2>1. 5 \in 1 .. Len(operations(session.script))
    <3>1. Len(operations(session.script)) = 5
      BY <1>2, <1>3, ScriptShape
    <3>2. QED
      BY <3>1
  <2>2. row.state # None /\ row.policy = old.policy
    BY <1>5, <1>9, <1>10 DEF Grows
  <2>3. Backed(row, session.state)
    BY <1>2, <1>11, <1>16, BackedPreserved DEF Held
  <2>4. QED
    BY <1>2, <1>3, <1>7, <1>10, <1>11, <1>15, <1>16, <2>1, <2>2, <2>3 DEF Held
<1>18. RunnerAt' /\ Replay' /\ Verdict'
  BY <1>1, <1>2, <1>4, <1>7, <1>10, <1>15, <1>16 DEF RunnerAt, Replay, Verdict, judged_last
<1>19. QED
  BY <1>14, <1>15, <1>17, <1>18 DEF JInv, SInv

-----------------------------------------------------------------------------
(* The invariant.                                                          *)

LEMMA ScenarioStarts == ScenarioInit => JInv
<1> SUFFICES ASSUME ScenarioInit PROVE JInv
  OBVIOUS
<1>1. IInv /\ Audit /\ session = NoSession
  BY InitEstablishes, NothingOwedAtFirst DEF ScenarioInit
<1>2. /\ \A r \in Requests : db[r] = NoRows
      /\ \A w \in Workers : pc[w] = "idle"
  BY DEF ScenarioInit, Init
<1>3. RowReview(NoRows)
  BY DEF RowReview, NoRows, Asked
<1>4. RInv
  BY <1>2, <1>3 DEF RInv
<1>5. SInv
  <2>1. NoSession \in Sessions
    BY DEF NoSession, Sessions
  <2>2. RunnerAt
    BY <1>1, <1>2, RunnerAssumption DEF RunnerAt, NoSession
  <2>3. QED
    BY <1>1, <2>1, <2>2 DEF SInv, NoSession
<1>6. QED
  BY <1>1, <1>4, <1>5 DEF JInv

LEMMA ScenarioHolds == JInv /\ [ScenarioNext]_<<vars, session>> => JInv'
<1> SUFFICES ASSUME JInv, [ScenarioNext]_<<vars, session>> PROVE JInv'
  OBVIOUS
<1>1. CASE UNCHANGED <<vars, session>>
  <2>1. IInv' /\ Audit' /\ RInv'
    BY <1>1, Unmoved DEF JInv
  <2>2. db' = db /\ pc' = pc /\ loc' = loc /\ session' = session
    BY <1>1 DEF vars
  <2>3. SInv'
    BY <2>1, <2>2, SessionKept, KeepsReflexive DEF JInv, QuietRow, ResponsesKept
  <2>4. QED
    BY <2>1, <2>3 DEF JInv
<1>2. CASE ScenarioNext
  BY <1>2, StartHolds, RefreshHolds, FinishCreateHolds, BeginHolds, ContinueHolds,
     ReadHeldPlanHolds, SelectHolds, SwapHolds, ReportHolds, CrashHolds, OperatorHolds,
     WorldHolds DEF ScenarioNext
<1>3. QED
  BY <1>1, <1>2

(* What a scenario relies on holds in every state, whatever operators do   *)
(* with its request.                                                       *)
THEOREM ScenarioInvariance == ScenarioSpec => []JInv
  BY ScenarioStarts, ScenarioHolds, PTL DEF ScenarioSpec

-----------------------------------------------------------------------------
(* The theorems.                                                           *)

(* The session of the scenario and the tables keep their types.            *)
THEOREM ScenarioTypeCorrectness == ScenarioSpec => []ScenarioTypeOK
<1>1. JInv => ScenarioTypeOK
  BY DEF JInv, IInv, SInv, Sessions, ScenarioTypeOK
<1>2. QED
  BY <1>1, ScenarioInvariance, PTL

(* Beside operators no scenario, not even the replay of an approval,       *)
(* brings about a submission without an ALLOW and the approval that the    *)
(* delegation asks for.                                                    *)
THEOREM ScenarioApprovalSafety == ScenarioSpec => []SubmittedUnderApproval
<1>1. ASSUME JInv PROVE SubmittedUnderApproval
  <2>1. SUFFICES ASSUME NEW r \in Requests, NEW i \in DOMAIN submissions[r]
                 PROVE  LET s == submissions[r][i] IN
                        /\ [decision |-> "ALLOW", plan_hash |-> s.plan_hash] \in db[r].evaluations
                        /\ needs_approval(delegation(r), s.plan_hash) =>
                              \E j \in DOMAIN db[r].approved : BindsTo(db[r].approved[j], s, r)
    BY DEF SubmittedUnderApproval
  <2>2. Authorised(db[r], submissions[r][i].plan_hash, submissions[r][i].decided_at)
    BY <1>1 DEF JInv, IInv, SubmissionsOK
  <2>3. QED
    BY <2>2 DEF Authorised, Granted, BindsTo, delegation
<1>2. QED
  BY <1>1, ScenarioInvariance, PTL

(* A scenario whose delegation was revoked before an operation began       *)
(* submits nothing in it, although its session remembers older states.     *)
THEOREM ScenarioRevocationSafety == ScenarioSpec => []RevokedDelegationStartsNoSubmission
<1>1. JInv => RevokedDelegationStartsNoSubmission
  BY DEF JInv, IInv, SubmissionsOK, RevokedDelegationStartsNoSubmission
<1>2. QED
  BY <1>1, ScenarioInvariance, PTL

(* A session that trusts the state it remembers writes no state that the   *)
(* tables do not back.                                                     *)
THEOREM ScenarioStateSafety == ScenarioSpec => []StateBackedByEvidence
<1>1. JInv => StateBackedByEvidence
  BY DEF JInv, Audit, Shown, RowShows, Backed, StateBackedByEvidence
<1>2. QED
  BY <1>1, ScenarioInvariance, PTL

(* What people approve the gate had sent to them, as it stood or with the  *)
(* goal that it was given since.                                           *)
THEOREM ApprovalsWereReviewed == ScenarioSpec => []ApprovedPlanWasReviewed
<1>1. ASSUME JInv PROVE ApprovedPlanWasReviewed
  <2>1. SUFFICES ASSUME NEW r \in Requests, NEW j \in DOMAIN db[r].approved
                 PROVE  \E e \in db[r].evaluations :
                           /\ e.decision = "REQUIRE_APPROVAL"
                           /\ db[r].approved[j].approved_plan_hash
                                \in {e.plan_hash, Changed(e.plan_hash)}
    BY DEF ApprovedPlanWasReviewed
  <2> DEFINE row == db[r]
             plan == row.approved[j].approved_plan_hash
  <2>2. RowReview(row)
    BY <1>1 DEF JInv, RInv
  <2>3. Asked(row) /\ Proper(row, plan) /\ NeedsReview(row) /\ OwnPlanAsked(row)
    BY <2>2 DEF RowReview
  <2>4. plan \in {OwnPlan(row), Changed(OwnPlan(row))}
    BY <2>3 DEF Proper
  <2>5. [decision |-> "REQUIRE_APPROVAL", plan_hash |-> OwnPlan(row)] \in row.evaluations
    BY <2>3 DEF OwnPlanAsked
  <2>6. QED
    BY <2>4, <2>5
<1>2. QED
  BY <1>1, ScenarioInvariance, PTL

(* An injected document leads to no execution, and an attack that is       *)
(* reported was quarantined, unless someone approved the tampered plan     *)
(* itself or had executed under the scenario's key before.                 *)
THEOREM AttacksQuarantined == ScenarioSpec => []AttacksEndInQuarantine
<1>1. ASSUME JInv PROVE AttacksEndInQuarantine
  <2>1. SUFFICES ASSUME session.at = "reported", session.script \in attacks
                 PROVE  \/ /\ session.decision = "QUARANTINE"
                           /\ session.script = "indirect-prompt-injection" => session.no_execution
                        \/ /\ session.script = "approval-replay"
                           /\ \E j \in DOMAIN row_held.approved :
                                 tampered(row_held.approved[j].approved_plan_hash)
                        \/ Repeated
    BY DEF AttacksEndInQuarantine, row_held, Repeated
  <2>2. Verdict
    BY <1>1, <2>1, SessionOn DEF JInv
  <2>3. QED
    BY <2>1, <2>2 DEF Verdict, judged_last, TamperedApproved, Granted, Repeated
<1>2. QED
  BY <1>1, ScenarioInvariance, PTL

-----------------------------------------------------------------------------
(* The refinement: neither what a session remembers nor what it tampers    *)
(* with gives authority.                                                   *)

(* A call is admitted by the delegation it finds, not by the session.      *)
LEMMA BeginRefines == ASSUME JInv, begin_operation PROVE Refined
<1> DEFINE op == next_operation
           key == IF op = "execute" THEN ScenarioKey ELSE None
           lab == IF op = "execute" THEN "read_key" ELSE "read_policy"
           l == CallOf(Runner, session.request, op, key, session.state)
<1>1. session.at = "ready" /\ db' = db /\ UNCHANGED world
  BY DEF begin_operation
<1>2. /\ IInv /\ session.request \in Requests /\ Held /\ RunnerAt
  BY <1>1, SessionOn DEF JInv
<1>3. pc[Runner] = "idle" /\ Runner \in Workers /\ db[session.request].state # None
  BY <1>1, <1>2, RunnerAssumption DEF RunnerAt, Held, row_held
<1>4. CASE loc' = [loc EXCEPT ![Runner] = l] /\ pc' = [pc EXCEPT ![Runner] = lab]
  <2>1. /\ l.request = session.request /\ l.op = op
        /\ l.active_at_start = (policy_status[db[session.request].policy] = "ACTIVE")
    BY DEF CallOf, Idle
  <2>2. lab \in {"read_key", "read_policy"} /\ (lab = "read_key" => l.op = "execute")
    BY <2>1
  <2>3. KeepsWorld
    BY <1>1 DEF KeepsWorld, world
  <2> HIDE DEF l, lab
  <2>4. QED
    BY <1>1, <1>2, <1>3, <1>4, <2>1, <2>2, <2>3, CallRefines
<1>5. CASE UNCHANGED vars
  BY <1>5, StutterRefines
<1>6. QED
  BY <1>1, <1>4, <1>5 DEF begin_operation, CallOf, goto, vars, world

(* The plan a session holds is not looked at before the gate has judged it.*)
LEMMA ReadHeldPlanRefines == ASSUME JInv, read_held_plan PROVE Refined
<1> DEFINE w == Runner
           l == [loc[w] EXCEPT !.plan = session.plan]
<1>1. /\ session.at = "running" /\ pc[w] = "read_plan" /\ session.plan # None
      /\ KeepsRows /\ KeepsWorld
  BY DEF read_held_plan, KeepsRows, KeepsWorld, world
<1>2. SInv /\ Held /\ Replay /\ RunnerAt /\ w \in Workers /\ IInv
  BY <1>1, SessionOn, RunnerAssumption DEF JInv
<1>3. loc[w].op = "execute" /\ loc[w] \in Locals
  <2>1. session.script = "approval-replay" /\ session.next \in {4, 5}
    BY <1>1, <1>2 DEF Held
  <2>2. loc[w].op = next_operation /\ next_operation # "swap"
    BY <1>1, <1>2 DEF RunnerAt
  <2>3. loc[w].op = "execute"
    BY <1>2, <2>1, <2>2, ScriptShape DEF Held, next_operation
  <2>4. QED
    BY <1>2, <2>3, Typed
<1>4. CASE finish(w)
  BY <1>1, <1>2, <1>4, Leaves, Ended DEF Harmless
<1>5. CASE loc' = [loc EXCEPT ![w] = l] /\ goto(w, after_plan(loc[w].op))
  <2>1. /\ l.op = loc[w].op /\ l.request = loc[w].request
        /\ l.active_at_start = loc[w].active_at_start
    BY <1>3 DEF Locals
  <2> HIDE DEF l
  <2>2. Alone(w) /\ pc'[w] = "read_approval" /\ loc'[w] = l
    BY <1>2, <1>3, <1>5, Typed DEF Alone, goto, after_plan
  <2>3. running_call(w)' = running_call(w)
    BY <1>1, <1>3, <2>1, <2>2 DEF running_call, calling, authorised, req
  <2>4. QED
    BY <1>1, <1>2, <2>2, <2>3, Quiet
<1>6. QED
  BY <1>4, <1>5 DEF read_held_plan

(* Tampering with a plan is no grant.                                      *)
LEMMA SwapRefines == ASSUME JInv, commit_swap PROVE Refined
<1> DEFINE r == session.request
           new == [db[r].plans EXCEPT ![1] = Changed(session.plan)]
<1>1. /\ db' = [db EXCEPT ![r].plans = new] /\ UNCHANGED world /\ pc' = pc /\ loc' = loc
  BY DEF commit_swap
<1> HIDE DEF new
<1>2. KeepsRows /\ KeepsWorld
  BY <1>1, Typed DEF KeepsRows, KeepsWorld, RequestRows, JInv, world
<1>3. QED
  BY <1>1, <1>2, StillRefines

LEMMA ScenarioStepRefines == JInv /\ [ScenarioNext]_<<vars, session>> => Refined
<1> SUFFICES ASSUME JInv, [ScenarioNext]_<<vars, session>> PROVE Refined
  OBVIOUS
<1>1. IInv /\ Runner \in Workers
  BY RunnerAssumption DEF JInv
<1>2. ASSUME NEW s \in Scripts, NEW r \in Requests, start_scenario(s, r) PROVE Refined
  BY <1>1, <1>2, CreateRefines, ScenarioPolicyAssumption, InjectionAssumption,
     DocumentAssumption DEF start_scenario
<1>3. ASSUME finish_create \/ continue_operation PROVE Refined
  BY <1>1, <1>3, StatementRefines DEF finish_create, continue_operation, step
<1>4. ASSUME NEW w \in Workers, operator(w) PROVE Refined
  BY <1>1, <1>4, ArriveRefines, StatementRefines DEF operator
<1>5. ASSUME UNCHANGED vars PROVE Refined
  BY <1>5, StutterRefines
<1>6. ASSUME crash_scenario \/ tick \/ \E p \in Policies : revoke(p) PROVE Refined
  BY <1>1, <1>6, WorldRefines DEF crash_scenario
<1>7. QED
  BY <1>2, <1>3, <1>4, <1>5, <1>6, BeginRefines, ReadHeldPlanRefines, SwapRefines
     DEF ScenarioNext, refresh_request, select_plan, report

(* A scenario and the operators beside it implement AuthorisedExecution: a *)
(* session that remembers states and rewrites plans submits only what was  *)
(* authorised under a grant that was current.                              *)
THEOREM ScenarioRefinement == ScenarioSpec => ExecutesAsAuthorised
<1>1. ScenarioInit => Execution!Init
  BY InitRefines DEF ScenarioInit
<1>2. JInv /\ [ScenarioNext]_<<vars, session>> => [Execution!Next]_(Execution!vars)
  BY ScenarioStepRefines DEF Refined
<1>3. QED
  BY <1>1, <1>2, ScenarioInvariance, PTL DEF ScenarioSpec, Execution!Spec, ExecutesAsAuthorised

=============================================================================
