# SafeDelegate Trace: a TLA+ model of its control chain

The repository is the backend of a service that lets an AI agent act for a
person within a delegation: a request is planned, judged by a deterministic
policy gate, approved by a human where the delegation wants one, executed
through a tool gateway, and documented by a hash-chained trace and a receipt.
These modules model that chain as the code in `src/app` runs it, the registry
it rests on, and the people who work on both. TLC checks small instances; TLAPS
proves their safety properties for any number of requests, handlers and calls.

Line numbers below refer to `src/app`.

## 1. Inventory

The server is FastAPI with synchronous endpoints: every call runs in a worker
thread, with a SQLAlchemy session of its own (`db/base.py:51`). A handler is a
sequence of statements and **several commits**; there is no lock, no version
column and no unique constraint beside the primary keys. Between any two
statements of one handler, those of others may run, and the process may die.
The sessions are opened with `expire_on_commit=False` (`db/base.py:44`): a
handler keeps what it loaded and writes its state without looking at the row
again. Foreign keys are enforced, by a PRAGMA in SQLite too (`db/base.py:42`).
The components interact through those rows and by direct calls; there are no
callbacks, queues or timers.

| component | state | operations | what is hard | correct when |
|---|---|---|---|---|
| Action lifecycle (`domain/lifecycle.py`, `routers/lifecycle.py`) | requests, plans, evaluations, approvals, executions, tool calls, incidents, receipts, idempotency records | create, plan, custom plan, evaluate, approve, reject, execute | check-then-write over several commits, retries, crashes, a delegation revoked and an approval expiring meanwhile | nothing is submitted without a current ALLOW and a binding approval; evidence matches effect; the documented flow is followed; blocked requests get receipts |
| Policy gate (`domain/policy`) | none | 20 rules, decision by category, risk score | precedence of categories; two allowlist checks; boundaries | ALLOW only inside the mandate; an approval lifts only the approval rule |
| Tool gateway, adapters (`domain/gateway`, `domain/adapters`) | tool-call rows | run a plan's calls | second, separate validation of what the gate has validated | an allowed plan is never half executed |
| Orchestrator (`domain/orchestrator`) | none | build a plan | may raise; its output must pass its own gate | the planned plan fits its policy |
| Detectors (`security/detectors.py`) | none | scan a document | three signals feed four rules | every dangerous signal quarantines |
| Trace engine (`domain/trace`, `domain/hashing.py`) | events of a trace | append, verify, timeline | read-then-commit of the next event | no gaps; `chain_valid` means intact |
| Receipt service (`domain/receipt`) | none (rows stored by the lifecycle) | build a receipt | status derived from decision and execution | a receipt never claims more than happened |
| Security-lab scenarios (`domain/scenarios.py`) | one session: its request row, the plan row it tampered with | four scripted runs | several operations on rows that are not read again and a key that others can know, while operators see the request in their queue | attacks end in quarantine, unless the tampered plan itself was approved or the key was taken by another execution |
| Delegations (`routers/delegations.py`) | versioned delegation policies | create a version, revoke the latest | check-then-insert; revocation of what was the latest when read; evaluations that run meanwhile | a revoked version authorises nothing that begins later, and never returns |
| Operator oversight (`routers/operator.py`) | incidents' interventions and status | add an intervention | read-modify-write of a JSON list, then a refresh, then an event | an incident closes and stays closed; the trace has what the list loses |
| Demo bootstrap (`demo/seed.py`) | everything | delete all, seed | two transactions, beside handlers that insert and beside other bootstraps | the registry is there afterwards |
| Evidence reads, schemas, wiring, benchmark | none | - | - | - |

`PROJECT.json` lists the hazards at their lines, with the property that would
catch each, and why no property covers the five that have none.

## 2. Modules

| module | models | proofs |
|---|---|---|
| `Detectors` | `scan`, over what the pattern lists find in a document | |
| `ToolGateway` | allowlist and schema check, adapters' answers, the gateway's loop | |
| `Planner` | `build_plan`, its fallback, and when it raises | |
| `PolicyGate` | the 20 rules under their names, categories, decision, risk score | `PolicyGateProofs` |
| `GatePipeline` | gate, gate again, gateway, on one case (composes the four above) | `GatePipelineProofs` |
| `Lifecycle` | the handlers at statement grain, with revocation, clock, crashes (composes `PolicyGate`, `Planner`, `ToolGateway`, `Detectors`) | `LifecycleProofs`, `EvidenceProofs` |
| `RequestFlow` | the documented state machine of one request, an abstract specification | `LifecycleRefinement` |
| `AuthorisedExecution` | what the service promises of execution, an abstract specification with concurrent calls | `LifecycleRefinement` |
| `Scenarios` | a security-lab scenario in its one session, beside operators (extends `Lifecycle`) | `ScenarioProofs` |
| `TraceEngine` | the trace of one request with several writers | `TraceEngineProofs` |
| `Delegations` | versions of policies, requests pinned to them, evaluations that read them | `AdministrationProofs` |
| `Incidents` | interventions by several operators | `AdministrationProofs` |
| `Administration` | composes `Delegations` and `Incidents` with the bootstrap | `AdministrationProofs` |
| `MCGatePipeline`, `MCLifecycle`, `MCScenarios`, `MCTraceEngine`, `MCAdministration` | instances | |

**State of `Lifecycle`.** `db[r]` is everything the tables hold of request r.
Rows that the code reads back (plans, approvals, stored responses, evaluations)
are kept; rows that nothing reads back (tool calls, executions, incidents,
events, receipts) are counted by status. `loc[w]` is what the handler of worker
w has loaded, `pc[w]` the statement it is at. `policy_status` is the one column
of a delegation that changes. `submissions[r]` (what the adapter has answered)
and `answered[r]` (the receipts callers were given, by key) are outside the
database and survive its failures. Each action is one statement or one commit
and carries the name of what it does: `read_request`, `read_key`, `read_policy`,
`read_plan`, `persist_plan`, `plan_event`, `decide_and_store`, `set_decided`,
`grant`, `refuse`, `set_executing`, `run_tools`, `store_calls`,
`store_execution`, `set_blocked`, `blocked_calls`, `incident`, `no_execution`,
`receipt_event`, `store_receipt`, `set_issued`, `store_key`, and an `..._event`
action for each call of `append_event`. A call the code refuses before any write
ends its handler; one refused on the state it reads first changes nothing and is
not a step.

**`Scenarios`** runs the same statements for one worker, the `Runner`, under a
session that outlives each operation. SQLAlchemy's identity map holds rows
weakly: what the scenario keeps a reference to (its request, and in
approval-replay the plan row it rewrites) is not read again, everything else is.
`session.state` is therefore the state that the guards of the scenario's own
calls see (`begin_operation`), `session.plan` the row that `_load_plan` gives
back (`read_held_plan`). The tampering is query and commit (`select_plan`,
`commit_swap`). Other workers are operators with sessions of their own, who
execute without an idempotency key or under any, the scenario's included: it is
the request's id behind a prefix (`scenarios.py:243`). A scenario that finds its
key stored is answered with that receipt and reports its decision (`key_found`,
`decision_after`, `session.repeated`); one that finds the key taken when it
inserts its own raises after its submission (`raises`).

**`Delegations`** keeps `rows[p][v]`, the status of a version, and `requests[r]`,
the version a request is pinned to. Creation is check and insert, revocation is
query and commit, an evaluation reads its request, then its policy, then stores.
`disabled` and `authorised` are history for the properties: what existed at a
revocation, and what each stored ALLOW had found when it began. Only the
delegation's part of an evaluation is kept: ALLOW stands for "this rule did not
forbid it". **`Incidents`** keeps the row, the count of events, and (history)
what was committed. **`Administration`** adds the bootstrap: it deletes children,
deletes parents and commits, then seeds. The foreign keys decide which
transaction fails: a request or incident inserted since keeps a parent alive
(`reset_fails`), an insert finds no parent (`insert_version`, `insert_request`),
an evaluation finds no request (`store_evaluation`). SQLite would let one
transaction write at a time; the model has the interleavings of PostgreSQL's
READ COMMITTED, of which SQLite's are a part.

**`AuthorisedExecution`** has no tables: calls arrive, are admitted if the
delegation is in force, are authorised for one plan (under a current grant of a
human where one is wanted), submit it, or leave. The refinement mapping (end of
`Lifecycle`) reads a call off the handler's label: it lasts from the read of the
request to the adapter's answer and is authorised from the stored ALLOW on.

**Abstractions.** A plan stands for its hash: two plans of one request have the
same hash exactly when their records are equal; the fields of a plan that no
rule reads are represented by `goal`. A document is described by what the
pattern lists find in it. Arguments are reduced to the JSON types the schemas
look at. Messages, evidence texts and the MSTS fields of events are left out.
The receipt is its status and the number of its RECEIPT_ISSUED event, which
stands for that event's hash. In `TraceEngine` the keyed hash is ideal, that is,
a hash is the list of bodies it covers. Statements that only read what never
changes (principal, agent: no endpoint writes them) are merged with the next.
`write_state` models what SQLAlchemy does with a column: it is sent only when it
differs from the value the session last loaded or wrote.

The states POLICY_EVALUATED and EXPIRED of the enumeration are never written by
the code and are not states of the model.

## 3. Runs

Every property of a passing run has a mutant: a definition in the module that
it comes before, changed the way a plausible bug would, under which the property
fails.

| run | instance | shows |
|---|---|---|
| `gate_cases` | 35,000 cases: two action types, allowlists, products, limits, approvals (binding, expired, of another plan or version), documents, standing with at most one thing wrong | ALLOW implies the mandate written out independently of the rules; gate and gateway agree; an approval lifts one rule only; a replayed approval quarantines; the ignored RISK category is covered; the score never calls danger LOW; the planner's plan fits where a product is listed, and never passes where none is |
| `executions_race` | 1 request, 2 handlers, 1 plan, 1 evaluation, 1 approval, 2 executions, crash, revocation, tick, swap | authorisation and evidence under every interleaving; `Lifecycle` implements `AuthorisedExecution` |
| `one_call_at_a_time` | 1 handler, 3 delegations, 2 keys, clean or injected document, every operation up to twice, crashes | the documented flow (`RequestFlow`, by refinement), single submission, answers under a key |
| `handlers_finish` | as `executions_race`, without crash or tick, weakly fair handlers | complete trail at rest; receipts are reached |
| `trace_race` | 3 writers, 4 appends, tampering | structure of a forked trace; exact meaning of `chain_valid` |
| `scenario_race` | one scenario of any script, one operator who makes any three of five calls (plan, evaluate, approve, reject, execute, the last with or without the scenario's key), revocation, tick, crash of the scenario | attacks are quarantined and reported so, but for the two exceptions below; approvals are for reviewed plans; a shown state is backed by rows even when stale writes race; the whole implements `AuthorisedExecution` |
| `administration` | 2 handlers, 2 operators, 2 policies, 2 versions, 1 request, 2 bootstraps and 1 call of every other operation | the registry is there at rest; revocations hold and last; incidents close and are accounted for in the trace |

Five further runs show what the code does not keep of what it says (the
`findings` of `PROJECT.json` quote the lines):

| run | shows |
|---|---|
| `double_submission` | two executions that read before either writes both submit |
| `rejected_submission` | an approval and a rejection that read the same state both commit; the rejected request is executed |
| `forked_trace` | two concurrent appends make an untampered trace fail its verification |
| `older_version_authorises` | revoking a policy revokes its latest version; a request under an older one is evaluated to ALLOW afterwards |
| `paused_agent` | a PAUSE_AGENT intervention is recorded as applied and changes nothing the gate reads |

The properties of the first two pass in `one_call_at_a_time`, and
`VerifiesExactlyWhenIntactAndLinear` in `trace_race` says when the third holds,
so that the reader sees the assumption each one needs.

More behaviours were met while modelling that no run of its own shows:

- A crash may lose an event (`TrailCompleteAtRest`) or a receipt
  (`OutcomeGetsReceipt`); nothing resumes a request. Both hold without crashes.
- Two planning calls may insert two plan rows, after which every load of the
  plan raises (`AtMostOnePlanRow` holds for one call at a time only).
- A handler that read an open state may write its own over RECEIPT_ISSUED or
  REJECTED (`FollowsDocumentedFlow`, likewise).
- A refused execution answers its key with a receipt it does not store, so that
  a retry is an illegal transition.
- An approval is bound to the plan as `approve` reads it: one that is being
  granted while approval-replay tampers may cover the tampered plan, which
  `ApprovedPlanWasReviewed` and `AttacksEndInQuarantine` except by name.
- approval-replay executes under a key that anyone who knows the request's id can
  send. An operator's execution under it, after the approval and before the
  swap, stores an ALLOW receipt; `execute` returns that one to the scenario
  (`lifecycle.py:394-397`), which reports ALLOW for a replay that the gate never
  saw. `AttacksEndInQuarantine` excepts exactly this: the reported decision is
  then that of the stored receipt. What the operator submitted was authorised
  (`SubmittedUnderApproval`).
- The rate-reduction scenario reports `executed` whatever `execute` returned, a
  refusal after a revocation included.
- Of two concurrent interventions the incident's list keeps one; the trace keeps
  both (`LostInterventionsStayInTheTrace`).
- Two concurrent creations of a version: the second insert fails with an
  IntegrityError that no handler turns into the 409 of the first check.
- A process that dies between the two transactions of the bootstrap leaves an
  empty registry until the next one; a bootstrap between an intervention's
  refresh and its event leaves an event of an incident that is gone.

**Bounds.** `Budget` and `Calls` cap the calls of each operation, `MaxNow` the
clock, `MaxCalls` the appends, `MaxInterventions` an operator's interventions.
Requests share no row but the delegation, so one request suffices for the
properties of requests; two handlers are the least that race, and each race
above involves two statements of two handlers. Each operation that can be
repeated is given two calls where its repetition is the question: two
executions, two bootstraps, two operators on one incident. The clock needs two
instants: before and after an approval's expiry (`ApprovalTTL = 0`). Two
versions are what a revocation of the latest one needs; two policies, that of
the fixtures and that of the scope-exceeded scenario, are all the code makes
itself. A policy is revoked only when a request uses it (`RevokedInUse`, in the
runs with several policies), since no other is read. In `executions_race` the
handlers that evaluate or execute may die (`CrashesAfterPlanning`); a crash of the
others loses one event, which doubles the states and tells the properties
nothing, and those crashes are in `one_call_at_a_time`. In `scenario_race` the
operators do not crash: their crashes are those of `executions_race`. There the
operator's calls are three at most (`ThreeCalls`): the longest race of the
properties is an evaluation, an approval and an execution beside the scenario's
own. The run ends with its scenario (`UntilOver`), which loses no state of the
tables: a step that an operator takes after the session's last one it may as
well take before it, for the last one writes nothing. `handlers_finish` has no
rejections: with them its liveness check is too long for a run, and that every
rejection has its event is part of the theorem `TrailSafety`.

**Symmetry.** Handlers are interchangeable, and so are operators and keys.
Symmetry is used where every property is an invariant or a safety formula
(`StoredResponseIsFinal`, `RevokedStaysRevoked`, `ExecutesAsAuthorised`,
`FollowsDocumentedFlow`) that treats the members of the set alike; the liveness
run has none.

**Deadlock** is not checked: requests end, calls run out.

**Fairness.** `FairSpec` is weakly fair in each handler's next statement: a
server thread runs its handler to the end, as no statement waits for another
handler. Nothing is assumed of clients, of the clock, or of a revocation, and
the liveness property needs no call to arrive.

## 4. Proofs

All are checked by TLAPS, from assumptions on constants that the modules name
and TLC evaluates in the runs: `ApprovalTTL` a natural number; finitely many
workers and operators; delegations and documents of their rows' types; the
policies and documents the code names among the policies and documents; a plan
written by a client has a goal and finitely many calls, an approval the status
and expiry that `approve` writes; `None` and `Gone` outside the other sets. One
says something of the data: `ScopeAssumption`, that the policy of
scope-exceeded-transfer wants no approval, as `_ensure_transfer_policy` creates
it (`scenarios.py:94`, `approval_rules={}`). A client that has taken that
policy's id before, with other terms, is outside the model.

**What handlers know** (`LifecycleProofs`). `Invariance`: `Spec => []IInv`.
`SubmittedUnderApproval` is not inductive: that a submission was authorised
follows from what its handler had learnt many statements before. `IInv` says,
beside the types, what each handler *knows* at each statement (`Knows`): that
the request exists, which locals are set, that its approval is a stored row,
that an ACTIVE policy was read only if the delegation was ACTIVE when the call
arrived, and, from `set_executing` to `run_tools`, that a stored ALLOW and a
binding approval cover its plan (`Authorised`). Interference is handled once:
every commit replaces the row of its own request by one that `Grows` (it loses
no evaluation, approval or stored response), and what handlers know is kept by
growth. One lemma per action then shows its own handler's part. `ApprovalSafety`,
`RevocationSafety`, `IdempotencySafety` and `TypeCorrectness` follow.

**What the tables show** (`EvidenceProofs`). `AuditInvariance`: `Spec => []Audit`,
for any number of racing handlers, crashes included. Its first half, `Shown`,
says that every request's state has its rows (`RowShows`) and that so has the
state a handler is about to write (`Stage`), with what its evaluation can have
decided (`Reviewed`: an execution of a plan that wants a human holds an
approval). Stale writes are why it speaks of *every* state a handler carries
and not of the request's. `StateSafety` and `ExecutionSafety` follow. Its second half
keeps accounts: each pair of counts that must agree (receipts and their events,
submissions and their rows, incidents and quarantines, ...) has a `Surplus`,
and the handlers that still owe it an entry are its `Debtors`. `Solvent`: the
surplus is never less than the debtors, and equals them if no handler may die. So
`EvidenceSafety` (no row claims more than happened) holds with crashes, and
`TrailSafety` (nothing is missing when no handler is at work) under
`~MayCrash`. The finiteness of the workers is needed to count them.

**One call at a time** (`LifecycleRefinement`, second half). Five properties do
not survive racing handlers (section 3) and are proved under `OneHandler`, that
is, of a system in which no call begins before the last has ended or died:
`SubmitsOnce`, `RejectionHolds`, `OnePlan`, `AnswersAgree`, and `FlowRefinement`,
that `Lifecycle` implements `RequestFlow`. Their invariant, `Serial`, says of a
row what its state excludes (`Orderly`: before EXECUTING nothing is submitted, a
request with a rejection is REJECTED, ...) and of the handler that the row is
still as it left it (`InTurn`).

**Authority** (`LifecycleRefinement`, first half). `Refinement`:
`Spec => ExecutesAsAuthorised`, for any number of workers, requests and keys,
crashes included. One lemma per kind of step: a handler's steps outside its call
stutter, and those that end the call are `Leave`; `decide_and_store` is
`Authorise`, whose guard is what `IInv` knows after the step; `run_tools` is
`Submit` or, when the adapters give nothing to submit, `Leave`; `grant` is
`Grant` (one more row is one more grant, which needs the approvals' type);
`create_request`, `revoke` and `tick` map to `Open`, `Revoke` and `Tick`;
re-planning, swaps and all writes of state and evidence are stutters, which is
the point: they give no authority.

**Scenarios** (`ScenarioProofs`). A scenario's statements are the lifecycle's,
and the lemmas above carry `IInv` and `Audit` over them. Three are its own: a call
that starts from the remembered state, a plan that is not read again, and the
tampering. `RInv` says which plans a request under review can carry (the
delegation's own, or, once the gate has asked, that plan with another goal) and
that nobody approves before the gate has asked; `SInv` what the session holds at
each step: that its state is backed, that its plan is one of those, and, from the
last operation's decision on, that an attack was quarantined or a tampered plan
approved, or (`Repeated`) that its answer is the receipt stored under its key,
which no step replaces. From them `AttacksQuarantined`, `ApprovalsWereReviewed`
and, beside operators and a session that does not read again, the lifecycle's
safety:
`ScenarioApprovalSafety`, `ScenarioRevocationSafety`, `ScenarioStateSafety`, and
`ScenarioRefinement`: a call that starts from memory is admitted by the
delegation it finds, a plan that is held is judged like one that is read, and
the tampering is a stutter.

**The gate** (`PolicyGateProofs`, `GatePipelineProofs`). An evaluation is a
function of its case, and `PInv` says which have been made at each phase; the
properties of `gate_cases` are then lemmas about the rules, for every
delegation, plan, document and approval that the assumptions admit.
`DecisionByRules` turns the decision into which rules failed; `Mandate`,
`GatewayAgrees`, `ApprovalLiftsOneRule`, `ReplayQuarantined`, `RiskIsCovered`,
`DangerIsNeverLow` and `PlannedPlanFits` rest on it. The last has two halves: a
plan for a listed product meets every rule that denies (`ListedProductFits`), and
one without a product fails the schemas (`UnlistedProductFails`).
`AllowMeansBindingApproval`, that ALLOW means a delegation that is active and
within its validity and, where a human is wanted, an unexpired approval of this
plan and version, is what `LifecycleProofs` uses at `decide_and_store`.

**The trace** (`TraceEngineProofs`). `NoGaps`: racing writers may fork a trace but
never leave an event without its predecessor. `VerificationIsExact`:
`verify_chain` accepts exactly the traces that nobody altered and no race
forked. `CInv` adds to the types that a row was hashed once, over the body its
writer gave it, and that its hash is as long as its sequence is deep; without a
fork the sequences then order the events, so that each hash covers the one
before. The keyed hash is ideal (section 2), and so is this result.

**The registry and incidents** (`AdministrationProofs`). `Progress` is the step
property behind the delegations: no step takes a revocation back but a reset,
which deletes every request, and a request that is gone never returns. `DInv`
adds what a handler that evaluates knows (`Knows`): its request has existed, and
if its version was REVOKED when it began, then it still is or the request is
gone; so an evaluation that finds the policy ACTIVE after all finds no request to
store its ALLOW for. `RegistryOK` says that without the registry there are no
delegations and some bootstrap is about to seed; `PendingOK` that a request being
inserted is nobody else's. From these, `RegistryReturns`, `RevocationHolds` and
`RevocationLasts`. `XInv` counts the operators who owe an event (`Owed`): events
and debts together are what was committed (`Accounted`). From it
`InterventionsAreTraced` and `ClosingLasts`.

**Model-checked only.** `OutcomeGetsReceipt`: liveness under fairness is out of
this prover's reach. The five `violation` runs are counterexamples, and nothing
to prove. Every other property of the runs is a theorem.

## 5. Not modelled, and the plan

Not modelled: payload validation, error mapping, configuration, reads that list
or show rows, the texts of receipts and the evidence copied into them, the
regular expressions, canonical JSON and SHA-256 themselves, and the benchmark,
whose cases are of the kinds `gate_cases` enumerates. `Lifecycle` keeps one
version per delegation and no bootstrap; versions and the bootstrap are in
`Administration`, which keeps only the delegation's part of an evaluation. Rules
assert a policy row; every caller has loaded one. Statuses of a delegation that
a client may choose freely at creation are represented by ACTIVE and REVOKED:
the gate tells ACTIVE from the rest.

Next:

1. What remains true of a request when two handlers race on it (the pairs of
   states that `RequestFlow` does not know), as a step property and a theorem.
2. Two requests of one delegation in one instance of `Lifecycle`, as far as its
   state space allows, for the keys they share.
3. A bootstrap beside the lifecycle's own statements, not only beside the
   delegation's part of an evaluation.
