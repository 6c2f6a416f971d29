------------------------- MODULE AdministrationProofs -------------------------
(***************************************************************************)
(* Safety of the administration for any number of handlers, operators,     *)
(* policies, versions, requests and calls.                                 *)
(*                                                                         *)
(* A version that is revoked stays so until a reset, which also deletes    *)
(* every request (Progress).  What a handler that evaluates knows of its   *)
(* request and its version (Knows) is therefore kept by the steps of all   *)
(* others, and so is, for a request that is being created, that it does    *)
(* not exist yet (PendingOK).                                              *)
(***************************************************************************)
EXTENDS Administration, Sequences, FiniteSetTheorems, TLAPS

(* What a handler at label lab with locals l knows of the rows rs and of   *)
(* the requests qs: one that evaluates has its request, and when it began  *)
(* under a REVOKED version the reset alone lets it pass load_policy.       *)
Knows(lab, l, rs, qs) ==
    /\ lab \in {"insert", "write_revoked", "insert_request", "load_policy", "store_evaluation"}
          => l.policy \in PolicyIds /\ l.version \in Versions
    /\ lab = "insert" => l.status \in Statuses
    /\ lab \in {"insert_request", "load_policy", "store_evaluation"} => l.request \in Requests
    /\ lab \in {"load_policy", "store_evaluation"} =>
          /\ qs[l.request] # None
          /\ l.dead \in BOOLEAN /\ l.disabled \in BOOLEAN /\ l.paused \in BOOLEAN
    /\ lab = "load_policy" /\ l.dead = TRUE =>
          qs[l.request] = Gone \/ rs[l.policy][l.version] = "REVOKED"
    /\ lab = "store_evaluation" /\ l.dead = TRUE => qs[l.request] = Gone

(* Without the registry there are no delegations, and a bootstrap is about *)
(* to bring both back.                                                     *)
RegistryOK ==
    /\ registered => rows[SeededPolicy][1] # None
    /\ ~registered => /\ \A p \in PolicyIds, v \in Versions : rows[p][v] = None
                      /\ \E w \in Handlers : pc[w] = "seed"

(* A request that is being created is not there, and nobody else creates   *)
(* it.                                                                     *)
PendingOK ==
    \A w \in Handlers : pc[w] = "insert_request" =>
        /\ requests[loc[w].request] = None
        /\ \A u \in Handlers \ {w} :
              pc[u] = "insert_request" => loc[u].request # loc[w].request

AuthorisedOK == \A a \in authorised : a.dead = FALSE

DInv ==
    /\ DelegationTypes
    /\ RegistryOK
    /\ PendingOK
    /\ \A w \in Handlers : Knows(pc[w], loc[w], rows, requests)
    /\ AuthorisedOK

(* No step takes a revocation back but a reset, which leaves no request; a *)
(* request that was created or deleted is never as if it had not been.     *)
Progress ==
    /\ \A p \in PolicyIds, v \in Versions :
          rows[p][v] = "REVOKED" =>
             \/ rows'[p][v] = "REVOKED"
             \/ registered' = FALSE /\ \A r \in Requests : requests[r] # None => requests'[r] = Gone
    /\ \A r \in Requests : requests[r] = Gone => requests'[r] = Gone
    /\ \A r \in Requests : requests[r] # None => requests'[r] # None

Safe == DInv' /\ Progress

-----------------------------------------------------------------------------
(* Steps in general.                                                       *)

LEMMA IdleType == Idle \in Locals
BY DEF Idle, Locals

LEMMA IdleKnows == ASSUME NEW rs, NEW qs PROVE Knows("idle", Idle, rs, qs)
BY DEF Knows

(* A handler that goes to a label with locals.                             *)
LEMMA Goes ==
    ASSUME DelegationTypes, NEW w \in Handlers, NEW lab \in Labels, NEW l \in Locals,
           goto(w, lab, l)
    PROVE  /\ pc' \in [Handlers -> Labels] /\ loc' \in [Handlers -> Locals]
           /\ pc'[w] = lab /\ loc'[w] = l
           /\ \A u \in Handlers \ {w} : pc'[u] = pc[u] /\ loc'[u] = loc[u]
BY DEF goto, DelegationTypes

LEMMA FinishGoes == ASSUME NEW w, finish(w) PROVE goto(w, "idle", Idle)
BY DEF finish, goto

(* What a handler knows outlives what the others do.                       *)
LEMMA KnowsLasts ==
    ASSUME Progress, NEW lab, NEW l, Knows(lab, l, rows, requests)
    PROVE  Knows(lab, l, rows', requests')
<1>1. lab \in {"load_policy", "store_evaluation"} => requests'[l.request] # None
  BY DEF Knows, Progress
<1>2. lab = "load_policy" /\ l.dead = TRUE =>
         requests'[l.request] = Gone \/ rows'[l.policy][l.version] = "REVOKED"
  BY DEF Knows, Progress
<1>3. lab = "store_evaluation" /\ l.dead = TRUE => requests'[l.request] = Gone
  BY DEF Knows, Progress
<1> QED BY <1>1, <1>2, <1>3 DEF Knows

LEMMA Frame ==
    ASSUME DInv, NEW w \in Handlers, Progress,
           pc' \in [Handlers -> Labels], loc' \in [Handlers -> Locals],
           \A u \in Handlers \ {w} : pc'[u] = pc[u] /\ loc'[u] = loc[u],
           Knows(pc'[w], loc'[w], rows', requests')
    PROVE  \A u \in Handlers : Knows(pc'[u], loc'[u], rows', requests')
<1> SUFFICES ASSUME NEW u \in Handlers PROVE Knows(pc'[u], loc'[u], rows', requests')
  OBVIOUS
<1>1. CASE u = w BY <1>1
<1>2. CASE u # w
  <2>1. Knows(pc[u], loc[u], rows, requests) BY DEF DInv
  <2>2. Knows(pc[u], loc[u], rows', requests') BY <2>1, KnowsLasts
  <2> QED BY <2>2, <1>2
<1> QED BY <1>1, <1>2

(* A step that only moves a handler.                                       *)
LEMMA Reading ==
    ASSUME DInv, NEW w \in Handlers, NEW lab \in Labels, NEW l \in Locals, goto(w, lab, l),
           UNCHANGED <<rows, registered, requests, disabled, authorised>>,
           pc[w] # "seed",
           lab = "insert_request" =>
              /\ requests[l.request] = None
              /\ \A u \in Handlers : loc[u].request # l.request,
           Knows(lab, l, rows, requests)
    PROVE  Safe
<1>1. /\ pc' \in [Handlers -> Labels] /\ loc' \in [Handlers -> Locals]
      /\ pc'[w] = lab /\ loc'[w] = l
      /\ \A u \in Handlers \ {w} : pc'[u] = pc[u] /\ loc'[u] = loc[u]
  BY Goes DEF DInv
<1>2. Progress BY DEF Progress
<1>3. Knows(pc'[w], loc'[w], rows', requests') BY <1>1
<1>4. \A u \in Handlers : Knows(pc'[u], loc'[u], rows', requests')
  BY <1>1, <1>2, <1>3, Frame
<1>5. DelegationTypes' BY <1>1 DEF DInv, DelegationTypes
<1>6. RegistryOK' BY <1>1 DEF DInv, RegistryOK
<1>7. PendingOK' BY <1>1 DEF DInv, PendingOK
<1>8. AuthorisedOK' BY DEF DInv, AuthorisedOK
<1> QED BY <1>2, <1>4, <1>5, <1>6, <1>7, <1>8 DEF Safe, DInv

(* A handler that ends without a write.                                    *)
LEMMA Ends ==
    ASSUME DInv, NEW w \in Handlers, finish(w), pc[w] # "seed",
           UNCHANGED <<rows, registered, requests, disabled, authorised>>
    PROVE  Safe
<1>1. goto(w, "idle", Idle) BY FinishGoes
<1>2. Idle \in Locals /\ "idle" \in Labels BY IdleType DEF Labels
<1>3. Knows("idle", Idle, rows, requests) BY IdleKnows
<1> QED BY <1>1, <1>2, <1>3, Reading

-----------------------------------------------------------------------------
(* create_delegation and _ensure_transfer_policy                           *)

LEMMA CheckVersionStep ==
    ASSUME DInv, NEW w \in Handlers, NEW p \in PolicyIds, NEW v \in Versions,
           NEW s \in Statuses, check_version(w, p, v, s)
    PROVE  Safe
<1> DEFINE l == [Idle EXCEPT !.policy = p, !.version = v, !.status = s]
<1>1. l \in Locals BY DEF Idle, Locals
<1>2. l.policy = p /\ l.version = v /\ l.status = s BY DEF Idle
<1>3. goto(w, "insert", l) BY DEF check_version
<1>4. UNCHANGED <<rows, registered, requests, disabled, authorised>> /\ pc[w] # "seed"
  BY DEF check_version
<1> HIDE DEF l
<1>5. Knows("insert", l, rows, requests) BY <1>2 DEF Knows
<1>6. "insert" \in Labels BY DEF Labels
<1> QED BY <1>1, <1>3, <1>4, <1>5, <1>6, Reading

LEMMA EnsureStep ==
    ASSUME DInv, NEW w \in Handlers, ensure_transfer_policy(w)
    PROVE  Safe
<1> DEFINE l == [Idle EXCEPT !.policy = TransferPolicy, !.version = 1, !.status = "ACTIVE"]
<1>1. l \in Locals BY SeedAssumption DEF Idle, Locals, Statuses
<1>2. l.policy = TransferPolicy /\ l.version = 1 /\ l.status = "ACTIVE" BY DEF Idle
<1>3. goto(w, "insert", l) BY DEF ensure_transfer_policy
<1>4. UNCHANGED <<rows, registered, requests, disabled, authorised>> /\ pc[w] # "seed"
  BY DEF ensure_transfer_policy
<1> HIDE DEF l
<1>5. Knows("insert", l, rows, requests) BY <1>2, SeedAssumption DEF Knows, Statuses
<1>6. "insert" \in Labels BY DEF Labels
<1> QED BY <1>1, <1>3, <1>4, <1>5, <1>6, Reading

LEMMA InsertVersionStep ==
    ASSUME DInv, NEW w \in Handlers, insert_version(w)
    PROVE  Safe
<1> DEFINE p == loc[w].policy
           v == loc[w].version
<1>0. p \in PolicyIds /\ v \in Versions /\ loc[w].status \in Statuses /\ pc[w] = "insert"
  BY DEF DInv, Knows, insert_version
<1>1. UNCHANGED <<registered, requests, disabled, authorised>> /\ finish(w)
  BY DEF insert_version
<1>2. CASE ~(registered /\ rows[p][v] = None)
  <2>1. UNCHANGED rows BY <1>2 DEF insert_version
  <2> QED BY <1>0, <1>1, <2>1, Ends
<1>3. CASE registered /\ rows[p][v] = None
  <2>1. rows' = [rows EXCEPT ![p][v] = loc[w].status] BY <1>3 DEF insert_version
  <2>2. rows \in [PolicyIds -> [Versions -> Statuses \cup {None}]] BY DEF DInv, DelegationTypes
  <2> HIDE DEF p, v
  <2>3. /\ rows' \in [PolicyIds -> [Versions -> Statuses \cup {None}]]
        /\ \A q \in PolicyIds, u \in Versions : rows[q][u] # None => rows'[q][u] = rows[q][u]
    BY <1>0, <1>3, <2>1, <2>2
  <2>4. Progress BY <1>1, <2>3, NullAssumption DEF Progress, Statuses
  <2>5. "idle" \in Labels BY DEF Labels
  <2>6. /\ pc' \in [Handlers -> Labels] /\ loc' \in [Handlers -> Locals]
        /\ pc'[w] = "idle" /\ loc'[w] = Idle
        /\ \A u \in Handlers \ {w} : pc'[u] = pc[u] /\ loc'[u] = loc[u]
    BY <1>1, <2>5, FinishGoes, Goes, IdleType DEF DInv
  <2>7. \A u \in Handlers : Knows(pc'[u], loc'[u], rows', requests')
    BY <2>4, <2>6, IdleKnows, Frame
  <2>8. DelegationTypes' BY <1>1, <2>3, <2>6 DEF DInv, DelegationTypes
  <2>9. RegistryOK' BY <1>1, <1>3, <2>3, SeedAssumption DEF DInv, RegistryOK
  <2>10. PendingOK' BY <1>1, <2>6 DEF DInv, PendingOK
  <2>11. AuthorisedOK' BY <1>1 DEF DInv, AuthorisedOK
  <2> QED BY <2>4, <2>7, <2>8, <2>9, <2>10, <2>11 DEF Safe, DInv
<1> QED BY <1>2, <1>3

-----------------------------------------------------------------------------
(* revoke_delegation                                                       *)

LEMMA ReadLatestStep ==
    ASSUME DInv, NEW w \in Handlers, NEW p \in PolicyIds, read_latest(w, p)
    PROVE  Safe
<1>1. PICK v \in Versions :
          /\ rows[p][v] # None
          /\ goto(w, "write_revoked",
                  [Idle EXCEPT !.policy = p, !.version = v, !.status = rows[p][v]])
  BY DEF read_latest, versions
<1> DEFINE l == [Idle EXCEPT !.policy = p, !.version = v, !.status = rows[p][v]]
<1>2. rows[p][v] \in Statuses \cup {None} BY DEF DInv, DelegationTypes
<1>3. l \in Locals BY <1>2 DEF Idle, Locals
<1>4. l.policy = p /\ l.version = v BY DEF Idle
<1>5. goto(w, "write_revoked", l) BY <1>1
<1>6. UNCHANGED <<rows, registered, requests, disabled, authorised>> /\ pc[w] # "seed"
  BY DEF read_latest
<1> HIDE DEF l
<1>7. Knows("write_revoked", l, rows, requests) BY <1>4 DEF Knows
<1>8. "write_revoked" \in Labels BY DEF Labels
<1> QED BY <1>3, <1>5, <1>6, <1>7, <1>8, Reading

LEMMA WriteRevokedStep ==
    ASSUME DInv, NEW w \in Handlers, write_revoked(w)
    PROVE  Safe
<1> DEFINE p == loc[w].policy
           v == loc[w].version
<1>0. p \in PolicyIds /\ v \in Versions /\ pc[w] = "write_revoked"
  BY DEF DInv, Knows, write_revoked
<1>1. UNCHANGED <<registered, requests, authorised>> /\ finish(w)
  BY DEF write_revoked
<1>2. CASE rows[p][v] = None
  <2>1. UNCHANGED <<rows, disabled>> BY <1>2 DEF write_revoked
  <2> QED BY <1>0, <1>1, <2>1, Ends
<1>3. CASE rows[p][v] # None
  <2>1. rows' = rows \/ rows' = [rows EXCEPT ![p][v] = "REVOKED"]
    BY <1>3 DEF write_revoked, revoked_rows
  <2>2. disabled' = disabled \cup {<<p, u>> : u \in versions(p)} BY <1>3 DEF write_revoked
  <2>3. rows \in [PolicyIds -> [Versions -> Statuses \cup {None}]] /\ disabled \subseteq Pins
    BY DEF DInv, DelegationTypes
  <2>4. disabled' \subseteq Pins BY <1>0, <2>2, <2>3 DEF versions, Pins
  <2> HIDE DEF p, v
  <2>5. rows' \in [PolicyIds -> [Versions -> Statuses \cup {None}]]
    BY <1>0, <2>1, <2>3 DEF Statuses
  <2>6. \A q \in PolicyIds, u \in Versions :
            /\ rows'[q][u] = rows[q][u] \/ rows'[q][u] = "REVOKED"
            /\ rows[q][u] = None => rows'[q][u] = None
    BY <1>0, <1>3, <2>1, <2>3
  <2>7. Progress BY <1>1, <2>6 DEF Progress
  <2>8. "idle" \in Labels BY DEF Labels
  <2>9. /\ pc' \in [Handlers -> Labels] /\ loc' \in [Handlers -> Locals]
        /\ pc'[w] = "idle" /\ loc'[w] = Idle
        /\ \A u \in Handlers \ {w} : pc'[u] = pc[u] /\ loc'[u] = loc[u]
    BY <1>1, <2>8, FinishGoes, Goes, IdleType DEF DInv
  <2>10. \A u \in Handlers : Knows(pc'[u], loc'[u], rows', requests')
    BY <2>7, <2>9, IdleKnows, Frame
  <2>11. DelegationTypes' BY <1>1, <2>4, <2>5, <2>9 DEF DInv, DelegationTypes
  <2>12. RegistryOK'
    BY <1>0, <1>1, <2>6, <2>9, SeedAssumption, NullAssumption DEF DInv, RegistryOK, Statuses
  <2>13. PendingOK' BY <1>1, <2>9 DEF DInv, PendingOK
  <2>14. AuthorisedOK' BY <1>1 DEF DInv, AuthorisedOK
  <2> QED BY <2>7, <2>10, <2>11, <2>12, <2>13, <2>14 DEF Safe, DInv
<1> QED BY <1>2, <1>3

-----------------------------------------------------------------------------
(* create_request                                                          *)

LEMMA ReadRequestedPolicyStep ==
    ASSUME DInv, NEW w \in Handlers, NEW r \in Requests, NEW p \in PolicyIds,
           NEW v \in Versions, read_requested_policy(w, r, p, v)
    PROVE  Safe
<1> DEFINE l == [Idle EXCEPT !.policy = p, !.version = v, !.request = r]
<1>1. l \in Locals BY DEF Idle, Locals
<1>2. l.policy = p /\ l.version = v /\ l.request = r BY DEF Idle
<1>3. goto(w, "insert_request", l) BY DEF read_requested_policy
<1>4. UNCHANGED <<rows, registered, requests, disabled, authorised>> /\ pc[w] # "seed"
  BY DEF read_requested_policy
<1>5. requests[r] = None /\ \A u \in Handlers : loc[u].request # r
  BY DEF read_requested_policy
<1> HIDE DEF l
<1>6. Knows("insert_request", l, rows, requests) BY <1>2 DEF Knows
<1>7. "insert_request" \in Labels BY DEF Labels
<1> QED BY <1>1, <1>2, <1>3, <1>4, <1>5, <1>6, <1>7, Reading

LEMMA InsertRequestStep ==
    ASSUME DInv, NEW w \in Handlers, insert_request(w)
    PROVE  Safe
<1> DEFINE r == loc[w].request
<1>0. /\ loc[w].policy \in PolicyIds /\ loc[w].version \in Versions /\ r \in Requests
      /\ pc[w] = "insert_request"
  BY DEF DInv, Knows, insert_request
<1>1. UNCHANGED <<rows, registered, disabled, authorised>> /\ finish(w)
  BY DEF insert_request
<1>2. CASE ~registered
  <2>1. UNCHANGED requests BY <1>2 DEF insert_request
  <2> QED BY <1>0, <1>1, <2>1, Ends
<1>3. CASE registered
  <2> DEFINE pin == <<loc[w].policy, loc[w].version>>
  <2>1. requests' = [requests EXCEPT ![r] = pin] BY <1>3 DEF insert_request
  <2>2. pin \in Pins BY <1>0 DEF Pins
  <2>3. requests \in [Requests -> Pins \cup {None, Gone}] BY DEF DInv, DelegationTypes
  <2>4. requests[r] = None BY <1>0 DEF DInv, PendingOK
  <2> HIDE DEF r, pin
  <2>5. requests' \in [Requests -> Pins \cup {None, Gone}] BY <1>0, <2>1, <2>2, <2>3
  <2>6. /\ requests'[r] = pin
        /\ \A q \in Requests \ {r} : requests'[q] = requests[q]
    BY <1>0, <2>1, <2>3
  <2>7. Progress BY <1>1, <2>2, <2>4, <2>6, NullAssumption DEF Progress
  <2>8. "idle" \in Labels BY DEF Labels
  <2>9. /\ pc' \in [Handlers -> Labels] /\ loc' \in [Handlers -> Locals]
        /\ pc'[w] = "idle" /\ loc'[w] = Idle
        /\ \A u \in Handlers \ {w} : pc'[u] = pc[u] /\ loc'[u] = loc[u]
    BY <1>1, <2>8, FinishGoes, Goes, IdleType DEF DInv
  <2>10. \A u \in Handlers : Knows(pc'[u], loc'[u], rows', requests')
    BY <2>7, <2>9, IdleKnows, Frame
  <2>11. DelegationTypes' BY <1>1, <2>5, <2>9 DEF DInv, DelegationTypes
  <2>12. RegistryOK' BY <1>1, <1>3, <2>9 DEF DInv, RegistryOK
  <2>13. PendingOK'
    <3> SUFFICES ASSUME NEW u \in Handlers, pc'[u] = "insert_request"
                 PROVE  /\ requests'[loc'[u].request] = None
                        /\ \A x \in Handlers \ {u} :
                              pc'[x] = "insert_request" => loc'[x].request # loc'[u].request
      BY DEF PendingOK
    <3>1. u # w /\ pc[u] = "insert_request" /\ loc'[u] = loc[u] BY <2>9
    <3>2. loc[u].request \in Requests /\ loc[u].request # r
      BY <1>0, <3>1 DEF DInv, Knows, PendingOK, r
    <3>3. requests[loc[u].request] = None BY <3>1 DEF DInv, PendingOK
    <3>4. \A x \in Handlers \ {u} :
              pc'[x] = "insert_request" => loc'[x].request # loc'[u].request
      BY <2>9, <3>1 DEF DInv, PendingOK
    <3> QED BY <2>6, <3>1, <3>2, <3>3, <3>4
  <2>14. AuthorisedOK' BY <1>1 DEF DInv, AuthorisedOK
  <2> QED BY <2>7, <2>10, <2>11, <2>12, <2>13, <2>14 DEF Safe, DInv
<1> QED BY <1>2, <1>3

-----------------------------------------------------------------------------
(* Evaluations.                                                            *)

LEMMA BeginEvaluationStep ==
    ASSUME DInv, NEW w \in Handlers, NEW r \in Requests, NEW x \in BOOLEAN,
           begin_evaluation(w, r, x)
    PROVE  Safe
<1> DEFINE p == requests[r][1]
           v == requests[r][2]
           dead == pinned(r) = "REVOKED"
           old == requests[r] \in disabled
           l == [Idle EXCEPT !.request = r, !.policy = p, !.version = v,
                             !.dead = dead, !.disabled = old, !.paused = x]
<1>1. requests[r] \in Pins BY DEF begin_evaluation, DInv, DelegationTypes
<1>2. p \in PolicyIds /\ v \in Versions BY <1>1 DEF Pins
<1>3. dead \in BOOLEAN /\ old \in BOOLEAN OBVIOUS
<1>4. dead = TRUE => rows[p][v] = "REVOKED" BY DEF pinned
<1>5. goto(w, "load_policy", l) BY DEF begin_evaluation
<1>6. /\ UNCHANGED <<rows, registered, requests, disabled, authorised>> /\ pc[w] # "seed"
      /\ requests[r] # None
  BY DEF begin_evaluation
<1> HIDE DEF p, v, dead, old
<1>7. l \in Locals BY <1>2, <1>3 DEF Idle, Locals
<1>8. /\ l.request = r /\ l.policy = p /\ l.version = v
      /\ l.dead = dead /\ l.disabled = old /\ l.paused = x
  BY DEF Idle
<1> HIDE DEF l
<1>9. Knows("load_policy", l, rows, requests) BY <1>2, <1>3, <1>4, <1>6, <1>8 DEF Knows
<1>10. "load_policy" \in Labels BY DEF Labels
<1> QED BY <1>5, <1>6, <1>7, <1>9, <1>10, Reading

LEMMA LoadPolicyStep ==
    ASSUME DInv, NEW w \in Handlers, load_policy(w)
    PROVE  Safe
<1> DEFINE status == rows[loc[w].policy][loc[w].version]
           l == [loc[w] EXCEPT !.status = status]
<1>0. pc[w] = "load_policy" /\ UNCHANGED <<rows, registered, requests, disabled, authorised>>
  BY DEF load_policy
<1>1. CASE status # "ACTIVE"
  <2>1. finish(w) BY <1>1 DEF load_policy
  <2> QED BY <1>0, <2>1, Ends
<1>2. CASE status = "ACTIVE"
  <2>1. goto(w, "store_evaluation", l) BY <1>2 DEF load_policy
  <2>2. loc[w] \in Locals BY DEF DInv, DelegationTypes
  <2>3. Knows("load_policy", loc[w], rows, requests) BY <1>0 DEF DInv
  <2>4. l \in Locals BY <1>2, <2>2 DEF Locals, Statuses
  <2>5. /\ l.request = loc[w].request /\ l.policy = loc[w].policy
        /\ l.version = loc[w].version /\ l.dead = loc[w].dead
        /\ l.disabled = loc[w].disabled /\ l.paused = loc[w].paused
    BY <2>2 DEF Locals
  <2>6. loc[w].dead = TRUE => requests[loc[w].request] = Gone BY <1>2, <2>3 DEF Knows
  <2> HIDE DEF l, status
  <2>7. Knows("store_evaluation", l, rows, requests) BY <2>3, <2>5, <2>6 DEF Knows
  <2>8. "store_evaluation" \in Labels BY DEF Labels
  <2> QED BY <1>0, <2>1, <2>4, <2>7, <2>8, Reading
<1> QED BY <1>1, <1>2

LEMMA StoreEvaluationStep ==
    ASSUME DInv, NEW w \in Handlers, store_evaluation(w)
    PROVE  Safe
<1>0. /\ pc[w] = "store_evaluation" /\ finish(w)
      /\ UNCHANGED <<rows, registered, requests, disabled>>
  BY DEF store_evaluation
<1>1. CASE requests[loc[w].request] = Gone
  <2>1. UNCHANGED authorised BY <1>1 DEF store_evaluation
  <2> QED BY <1>0, <2>1, Ends
<1>2. CASE requests[loc[w].request] # Gone
  <2>1. authorised' = authorised \cup {history(w)} BY <1>2 DEF store_evaluation
  <2>2. /\ loc[w].dead \in BOOLEAN /\ loc[w].disabled \in BOOLEAN /\ loc[w].paused \in BOOLEAN
        /\ loc[w].dead = FALSE
    BY <1>0, <1>2 DEF DInv, Knows
  <2>3. history(w) \in [dead : BOOLEAN, disabled : BOOLEAN, paused : BOOLEAN]
    BY <2>2 DEF history
  <2>4. history(w).dead = FALSE BY <2>2 DEF history
  <2>5. Progress BY <1>0 DEF Progress
  <2>6. "idle" \in Labels BY DEF Labels
  <2>7. /\ pc' \in [Handlers -> Labels] /\ loc' \in [Handlers -> Locals]
        /\ pc'[w] = "idle" /\ loc'[w] = Idle
        /\ \A u \in Handlers \ {w} : pc'[u] = pc[u] /\ loc'[u] = loc[u]
    BY <1>0, <2>6, FinishGoes, Goes, IdleType DEF DInv
  <2>8. \A u \in Handlers : Knows(pc'[u], loc'[u], rows', requests')
    BY <2>5, <2>7, IdleKnows, Frame
  <2>9. DelegationTypes' BY <1>0, <2>1, <2>3, <2>7 DEF DInv, DelegationTypes
  <2>10. RegistryOK' BY <1>0, <2>7 DEF DInv, RegistryOK
  <2>11. PendingOK' BY <1>0, <2>7 DEF DInv, PendingOK
  <2>12. AuthorisedOK' BY <2>1, <2>4 DEF DInv, AuthorisedOK
  <2> QED BY <2>5, <2>8, <2>9, <2>10, <2>11, <2>12 DEF Safe, DInv
<1> QED BY <1>1, <1>2

-----------------------------------------------------------------------------
(* The bootstrap.                                                          *)

LEMMA DeleteChildrenStep ==
    ASSUME DInv, NEW w \in Handlers, delete_children(w)
    PROVE  Safe
<1> DEFINE l == [Idle EXCEPT !.deleted = children]
<1>1. children \subseteq {"request", "incident"} \X Requests
  BY IncidentAssumption DEF children
<1>2. l \in Locals BY <1>1 DEF Idle, Locals
<1>3. goto(w, "delete_parents", l) BY DEF delete_children
<1>4. UNCHANGED <<rows, registered, requests, disabled, authorised>> /\ pc[w] # "seed"
  BY DEF delete_children
<1> HIDE DEF l
<1>5. Knows("delete_parents", l, rows, requests) BY DEF Knows
<1>6. "delete_parents" \in Labels BY DEF Labels
<1> QED BY <1>2, <1>3, <1>4, <1>5, <1>6, Reading

LEMMA ResetFailsStep ==
    ASSUME DInv, NEW w \in Handlers, reset_fails(w)
    PROVE  Safe
<1>1. finish(w) /\ pc[w] # "seed" /\ UNCHANGED <<rows, registered, requests, disabled, authorised>>
  BY DEF reset_fails
<1> QED BY <1>1, Ends

LEMMA CommitResetStep ==
    ASSUME DInv, NEW w \in Handlers, commit_reset(w)
    PROVE  Safe
<1>1. /\ rows' = [p \in PolicyIds |-> [v \in Versions |-> None]]
      /\ registered' = FALSE
      /\ requests' = [r \in Requests |-> IF requests[r] = None THEN None ELSE Gone]
      /\ disabled' = {}
      /\ goto(w, "seed", Idle)
      /\ UNCHANGED authorised
  BY DEF commit_reset
<1>2. /\ \A r \in Requests : requests[r] # None => requests'[r] = Gone
      /\ \A r \in Requests : requests[r] = None => requests'[r] = None
  BY <1>1
<1>3. Progress BY <1>1, <1>2, NullAssumption DEF Progress
<1>4. "seed" \in Labels BY DEF Labels
<1>5. /\ pc' \in [Handlers -> Labels] /\ loc' \in [Handlers -> Locals]
      /\ pc'[w] = "seed" /\ loc'[w] = Idle
      /\ \A u \in Handlers \ {w} : pc'[u] = pc[u] /\ loc'[u] = loc[u]
  BY <1>1, <1>4, Goes, IdleType DEF DInv
<1>6. Knows(pc'[w], loc'[w], rows', requests') BY <1>5 DEF Knows
<1>7. \A u \in Handlers : Knows(pc'[u], loc'[u], rows', requests')
  BY <1>3, <1>5, <1>6, Frame
<1>8. DelegationTypes' BY <1>1, <1>5 DEF DInv, DelegationTypes
<1>9. RegistryOK' BY <1>1, <1>5 DEF RegistryOK
<1>10. PendingOK'
  <2> SUFFICES ASSUME NEW u \in Handlers, pc'[u] = "insert_request"
               PROVE  /\ requests'[loc'[u].request] = None
                      /\ \A x \in Handlers \ {u} :
                            pc'[x] = "insert_request" => loc'[x].request # loc'[u].request
    BY DEF PendingOK
  <2>1. u # w /\ pc[u] = "insert_request" /\ loc'[u] = loc[u] BY <1>5
  <2>2. loc[u].request \in Requests /\ requests[loc[u].request] = None
    BY <2>1 DEF DInv, Knows, PendingOK
  <2>3. \A x \in Handlers \ {u} :
            pc'[x] = "insert_request" => loc'[x].request # loc'[u].request
    BY <1>5, <2>1 DEF DInv, PendingOK
  <2> QED BY <1>2, <2>1, <2>2, <2>3
<1>11. AuthorisedOK' BY <1>1 DEF DInv, AuthorisedOK
<1> QED BY <1>3, <1>7, <1>8, <1>9, <1>10, <1>11 DEF Safe, DInv

LEMMA SeededType == seeded \in [PolicyIds -> [Versions -> Statuses \cup {None}]]
BY DEF seeded, Statuses

LEMMA SeedStep ==
    ASSUME DInv, NEW w \in Handlers, seed(w)
    PROVE  Safe
<1>1. /\ pc[w] = "seed" /\ registered' = TRUE /\ finish(w)
      /\ rows' = IF registered THEN rows ELSE seeded
      /\ UNCHANGED <<requests, disabled, authorised>>
  BY DEF seed
<1>2. ~registered => \A p \in PolicyIds, v \in Versions : rows[p][v] # "REVOKED"
  BY NullAssumption DEF DInv, RegistryOK, Statuses
<1>3. Progress BY <1>1, <1>2 DEF Progress
<1>4. "idle" \in Labels BY DEF Labels
<1>5. /\ pc' \in [Handlers -> Labels] /\ loc' \in [Handlers -> Locals]
      /\ pc'[w] = "idle" /\ loc'[w] = Idle
      /\ \A u \in Handlers \ {w} : pc'[u] = pc[u] /\ loc'[u] = loc[u]
  BY <1>1, <1>4, FinishGoes, Goes, IdleType DEF DInv
<1>6. \A u \in Handlers : Knows(pc'[u], loc'[u], rows', requests')
  BY <1>3, <1>5, IdleKnows, Frame
<1>7. DelegationTypes' BY <1>1, <1>5, SeededType DEF DInv, DelegationTypes
<1>8. seeded[SeededPolicy][1] # None BY SeedAssumption, NullAssumption DEF seeded, Statuses
<1>9. RegistryOK' BY <1>1, <1>8 DEF DInv, RegistryOK
<1>10. PendingOK' BY <1>1, <1>5 DEF DInv, PendingOK
<1>11. AuthorisedOK' BY <1>1 DEF DInv, AuthorisedOK
<1> QED BY <1>3, <1>6, <1>7, <1>9, <1>10, <1>11 DEF Safe, DInv

-----------------------------------------------------------------------------
(* Any step.                                                               *)

LEMMA HandlerStep ==
    ASSUME DInv, NEW w \in Handlers, NEW Q, NEW x \in BOOLEAN, handler(w, Q, x)
    PROVE  Safe
<1>1. ASSUME NEW p \in PolicyIds, NEW v \in Versions, NEW s \in {"ACTIVE", "REVOKED"},
             check_version(w, p, v, s)
      PROVE  Safe
  BY <1>1, CheckVersionStep DEF Statuses
<1>2. ASSUME NEW p \in PolicyIds, read_latest(w, p) PROVE Safe BY <1>2, ReadLatestStep
<1>3. ASSUME NEW r \in Requests, NEW p \in PolicyIds, NEW v \in Versions,
             read_requested_policy(w, r, p, v)
      PROVE  Safe
  BY <1>3, ReadRequestedPolicyStep
<1>4. ASSUME NEW r \in Requests, begin_evaluation(w, r, x) PROVE Safe
  BY <1>4, BeginEvaluationStep
<1> QED
  BY <1>1, <1>2, <1>3, <1>4, InsertVersionStep, EnsureStep, WriteRevokedStep,
     InsertRequestStep, LoadPolicyStep, StoreEvaluationStep DEF handler

LEMMA Undisturbed == ASSUME DInv, UNCHANGED delegation_vars PROVE Safe
<1> USE DEF delegation_vars
<1>1. Progress BY DEF Progress
<1>2. DelegationTypes' BY DEF DInv, DelegationTypes
<1>3. RegistryOK' BY DEF DInv, RegistryOK
<1>4. PendingOK' BY DEF DInv, PendingOK
<1>5. AuthorisedOK' BY DEF DInv, AuthorisedOK
<1> QED BY <1>1, <1>2, <1>3, <1>4, <1>5 DEF Safe, DInv

LEMMA PausedType == paused \in BOOLEAN
BY DEF paused

LEMMA SafeStep == ASSUME DInv, [Next]_vars PROVE Safe
<1>1. ASSUME NEW w \in Handlers, handler(w, quarantined, paused) PROVE Safe
  BY <1>1, HandlerStep, PausedType
<1>2. ASSUME NEW w \in Handlers,
             delete_children(w) \/ reset_fails(w) \/ commit_reset(w) \/ seed(w)
      PROVE  Safe
  BY <1>2, DeleteChildrenStep, ResetFailsStep, CommitResetStep, SeedStep
<1>3. ASSUME NEW r \in Requests, quarantine(r) PROVE Safe
  BY <1>3, Undisturbed DEF quarantine
<1>4. CASE UNCHANGED vars BY <1>4, Undisturbed DEF vars
<1>5. CASE \E o \in Operators : I!operator(o) /\ UNCHANGED delegation_vars
  BY <1>5, Undisturbed
<1> QED BY <1>1, <1>2, <1>3, <1>4, <1>5 DEF Next

LEMMA DInitially == Init => DInv
<1> SUFFICES ASSUME Init PROVE DInv
  OBVIOUS
<1> USE DEF Init
<1>1. DelegationTypes BY SeededType, IdleType DEF DelegationTypes, Labels
<1>2. RegistryOK BY SeedAssumption, NullAssumption DEF RegistryOK, seeded, Statuses
<1>3. PendingOK BY DEF PendingOK
<1>4. \A w \in Handlers : Knows(pc[w], loc[w], rows, requests) BY IdleKnows
<1>5. AuthorisedOK BY DEF AuthorisedOK
<1> QED BY <1>1, <1>2, <1>3, <1>4, <1>5 DEF DInv

LEMMA DInductive == Spec => []DInv
<1>1. DInv /\ [Next]_vars => DInv' BY SafeStep DEF Safe
<1> QED BY <1>1, DInitially, PTL DEF Spec

-----------------------------------------------------------------------------
(* Incidents and interventions.                                            *)

(* The operators who have committed an intervention of a type on an        *)
(* incident and not yet appended its event.                                *)
Owed(i, t) ==
    {o \in Operators : /\ desk[o].at \in {"refresh", "append_event"}
                       /\ desk[o].incident = i /\ desk[o].type = t}

(* An operator at work does something on an incident that was filed.       *)
DeskOK ==
    \A o \in Operators : desk[o].at # "free" =>
        /\ desk[o].incident \in IncidentIds /\ desk[o].type \in Interventions
        /\ incidents[desk[o].incident] # None

FreshOK ==
    \A i \in IncidentIds : incidents[i] = None =>
        events[i] = I!none_yet /\ applied[i] = I!none_yet

(* Every intervention has its event, or an operator who owes it.           *)
Accounted ==
    \A i \in IncidentIds, t \in Interventions :
        I!exists(i) => events[i][t] + Cardinality(Owed(i, t)) = applied[i][t]

XInv ==
    /\ I!IncidentTypes
    /\ DeskOK
    /\ FreshOK
    /\ I!ClosedWhenSomeoneClosedIt
    /\ Accounted

(* One operator's desk changes.                                            *)
LEMMA DeskGoes ==
    ASSUME XInv, NEW o \in Operators, NEW d \in I!Desk, desk' = [desk EXCEPT ![o] = d]
    PROVE  /\ desk' \in [Operators -> I!Desk] /\ desk'[o] = d
           /\ \A u \in Operators \ {o} : desk'[u] = desk[u]
BY DEF XInv, I!IncidentTypes

LEMMA OwedFinite == ASSUME NEW i, NEW t PROVE IsFiniteSet(Owed(i, t)) /\ Cardinality(Owed(i, t)) \in Nat
<1>1. Owed(i, t) \subseteq Operators BY DEF Owed
<1> QED BY <1>1, OperatorAssumption, FS_Subset, FS_CardinalityType

LEMMA OwedStays ==
    ASSUME NEW o \in Operators, \A u \in Operators \ {o} : desk'[u] = desk[u],
           NEW i, NEW t, o \in Owed(i, t)' <=> o \in Owed(i, t)
    PROVE  Owed(i, t)' = Owed(i, t)
BY DEF Owed

(* A desk that goes to a label where nothing new is owed.                  *)
LEMMA DeskStep ==
    ASSUME XInv, NEW o \in Operators, NEW d \in I!Desk, desk' = [desk EXCEPT ![o] = d],
           UNCHANGED <<incidents, events, applied>>,
           d.at # "free" => /\ d.incident \in IncidentIds /\ d.type \in Interventions
                            /\ incidents[d.incident] # None,
           \A i \in IncidentIds, t \in Interventions :
              I!exists(i) => (o \in Owed(i, t)' <=> o \in Owed(i, t))
    PROVE  XInv'
<1>1. /\ desk' \in [Operators -> I!Desk] /\ desk'[o] = d
      /\ \A u \in Operators \ {o} : desk'[u] = desk[u]
  BY DeskGoes
<1>2. I!IncidentTypes' BY <1>1 DEF XInv, I!IncidentTypes
<1>3. DeskOK' BY <1>1 DEF XInv, DeskOK
<1>4. FreshOK' BY DEF XInv, FreshOK
<1>5. I!ClosedWhenSomeoneClosedIt' BY DEF XInv, I!ClosedWhenSomeoneClosedIt, I!exists
<1>6. \A i \in IncidentIds, t \in Interventions : I!exists(i) => Owed(i, t)' = Owed(i, t)
  BY <1>1, OwedStays
<1>7. Accounted' BY <1>6 DEF XInv, Accounted, I!exists
<1> QED BY <1>2, <1>3, <1>4, <1>5, <1>7 DEF XInv

LEMMA ReadIncidentStep ==
    ASSUME XInv, NEW o \in Operators, NEW i \in IncidentIds, NEW t \in Interventions,
           I!read_incident(o, i, t)
    PROVE  XInv'
<1> DEFINE d == [at |-> "commit", incident |-> i, type |-> t,
                 read |-> incidents[i].interventions, calls |-> desk[o].calls + 1]
<1>1. desk[o] \in I!Desk /\ desk[o].at = "free" /\ desk[o].calls < MaxInterventions
  BY DEF XInv, I!IncidentTypes, I!read_incident
<1>2. incidents[i] \in I!Incident /\ incidents[i] # None
  BY DEF XInv, I!IncidentTypes, I!read_incident, I!exists
<1>3. d \in I!Desk BY <1>1, <1>2, OperatorAssumption DEF I!Desk, I!Incident
<1>4. desk' = [desk EXCEPT ![o] = d] /\ UNCHANGED <<incidents, events, applied>>
  BY DEF I!read_incident
<1>5. d.at = "commit" /\ d.incident = i /\ d.type = t OBVIOUS
<1> HIDE DEF d
<1>6. desk'[o] = d BY <1>3, <1>4, DeskGoes
<1>7. \A j \in IncidentIds, u \in Interventions : o \notin Owed(j, u)' /\ o \notin Owed(j, u)
  BY <1>1, <1>5, <1>6 DEF Owed
<1> QED BY <1>2, <1>3, <1>4, <1>5, <1>7, DeskStep

LEMMA LeaveType ==
    ASSUME XInv, NEW o \in Operators
    PROVE  [I!Free EXCEPT !.calls = desk[o].calls] \in I!Desk
<1> DEFINE n == desk[o].calls
<1>1. n \in 0 .. MaxInterventions BY DEF XInv, I!IncidentTypes, I!Desk
<1>2. <<>> \in Seq(Interventions) OBVIOUS
<1> HIDE DEF n
<1>3. [I!Free EXCEPT !.calls = n] \in I!Desk BY <1>1, <1>2 DEF I!Free, I!Desk
<1> QED BY <1>3 DEF n

LEMMA RefreshIncidentStep ==
    ASSUME XInv, NEW o \in Operators, I!refresh_incident(o)
    PROVE  XInv'
<1> DEFINE d == [desk[o] EXCEPT !.at = "append_event"]
<1>1. desk[o] \in I!Desk /\ desk[o].at = "refresh"
  BY DEF XInv, I!IncidentTypes, I!refresh_incident
<1>2. d \in I!Desk BY <1>1 DEF I!Desk
<1>3. desk' = [desk EXCEPT ![o] = d] /\ UNCHANGED <<incidents, events, applied>>
  BY <1>1 DEF I!refresh_incident, XInv, I!IncidentTypes
<1>4. d.at = "append_event" /\ d.incident = desk[o].incident /\ d.type = desk[o].type
  BY <1>1 DEF I!Desk
<1> HIDE DEF d
<1>5. desk'[o] = d BY <1>2, <1>3, DeskGoes
<1>6. \A i \in IncidentIds, t \in Interventions : o \in Owed(i, t)' <=> o \in Owed(i, t)
  BY <1>1, <1>4, <1>5 DEF Owed
<1> QED BY <1>1, <1>2, <1>3, <1>4, <1>6, DeskStep DEF XInv, DeskOK

LEMMA RowGoneStep ==
    ASSUME XInv, NEW o \in Operators, I!row_gone(o)
    PROVE  XInv'
<1> DEFINE d == [I!Free EXCEPT !.calls = desk[o].calls]
<1>1. d \in I!Desk BY LeaveType
<1>2. d.at = "free" BY DEF I!Free
<1>3. desk' = [desk EXCEPT ![o] = d] /\ UNCHANGED <<incidents, events, applied>>
  BY DEF I!row_gone, I!leave
<1> HIDE DEF d
<1>4. desk'[o] = d BY <1>1, <1>3, DeskGoes
<1>5. \A i \in IncidentIds, t \in Interventions :
         I!exists(i) => (o \in Owed(i, t)' <=> o \in Owed(i, t))
  BY <1>2, <1>4 DEF Owed, I!row_gone
<1> QED BY <1>1, <1>2, <1>3, <1>5, DeskStep

LEMMA RowWritten ==
    ASSUME NEW x \in I!Incident, NEW s, NEW l
    PROVE  [[x EXCEPT !.interventions = l] EXCEPT !.status = s]
             = [status |-> s, interventions |-> l]
<1>1. PICK a \in {"OPEN", "CLOSED"}, b \in Seq(Interventions) :
          x = [status |-> a, interventions |-> b]
  BY DEF I!Incident
<1>2. [x EXCEPT !.interventions = l] = [status |-> a, interventions |-> l] BY <1>1
<1>3. [[status |-> a, interventions |-> l] EXCEPT !.status = s]
        = [status |-> s, interventions |-> l]
  OBVIOUS
<1> QED BY <1>2, <1>3

LEMMA CommitInterventionStep ==
    ASSUME XInv, NEW o \in Operators, I!commit_intervention(o)
    PROVE  XInv'
<1> DEFINE i == desk[o].incident
           t == desk[o].type
           d == [desk[o] EXCEPT !.at = "refresh"]
           status == IF t = "CLOSE_INCIDENT" THEN "CLOSED" ELSE incidents[i].status
           list == Append(desk[o].read, t)
           row == [status |-> status, interventions |-> list]
<1>1. /\ desk[o] \in I!Desk /\ desk[o].at = "commit" /\ I!exists(i)
      /\ desk' = [desk EXCEPT ![o] = d] /\ UNCHANGED events
      /\ applied' = [applied EXCEPT ![i][t] = @ + 1]
  BY DEF XInv, I!IncidentTypes, I!commit_intervention
<1>2. i \in IncidentIds /\ t \in Interventions BY <1>1 DEF XInv, DeskOK
<1>3. incidents[i] \in I!Incident /\ incidents[i] # None
  BY <1>1, <1>2 DEF XInv, I!IncidentTypes, I!exists
<1>4. row \in I!Incident /\ row.status = status
  <2>1. desk[o].read \in Seq(Interventions) BY <1>1 DEF I!Desk
  <2>2. list \in Seq(Interventions) BY <1>2, <2>1
  <2>3. status \in {"OPEN", "CLOSED"} BY <1>3 DEF I!Incident
  <2> QED BY <2>2, <2>3 DEF I!Incident
<1>5. incidents' = [incidents EXCEPT ![i] = row]
  <2>1. incidents' = [incidents EXCEPT ![i] =
                        [[incidents[i] EXCEPT !.interventions = list] EXCEPT !.status = status]]
    BY <1>2 DEF I!commit_intervention, XInv, I!IncidentTypes
  <2>2. [[incidents[i] EXCEPT !.interventions = list] EXCEPT !.status = status] = row
    BY <1>3, RowWritten
  <2> QED BY <2>1, <2>2
<1>6. d \in I!Desk /\ d.at = "refresh" /\ d.incident = i /\ d.type = t BY <1>1 DEF I!Desk
<1> HIDE DEF d, row, list
<1>7. /\ desk' \in [Operators -> I!Desk] /\ desk'[o] = d
      /\ \A u \in Operators \ {o} : desk'[u] = desk[u]
  BY <1>1, <1>6, DeskGoes
<1>8. /\ applied \in [IncidentIds -> [Interventions -> Nat]]
      /\ incidents \in [IncidentIds -> I!Incident \cup {None, Gone}]
  BY DEF XInv, I!IncidentTypes
<1>9. /\ incidents'[i] = row /\ \A j \in IncidentIds \ {i} : incidents'[j] = incidents[j]
      /\ incidents' \in [IncidentIds -> I!Incident \cup {None, Gone}]
  BY <1>2, <1>4, <1>5, <1>8
<1>10. row # None /\ row # Gone BY <1>4, NullAssumption
<1> HIDE DEF i, t, status
<1>11. /\ applied' \in [IncidentIds -> [Interventions -> Nat]]
       /\ applied'[i][t] = applied[i][t] + 1
       /\ \A j \in IncidentIds, u \in Interventions :
             j # i \/ u # t => applied'[j][u] = applied[j][u]
  BY <1>1, <1>2, <1>8
<1>12. I!IncidentTypes' BY <1>1, <1>7, <1>9, <1>11 DEF XInv, I!IncidentTypes
<1>13. DeskOK' BY <1>2, <1>6, <1>7, <1>9, <1>10 DEF XInv, DeskOK
<1>14. FreshOK' BY <1>1, <1>2, <1>9, <1>10, <1>11 DEF XInv, FreshOK, i, t
<1>15. I!ClosedWhenSomeoneClosedIt'
  <2> SUFFICES ASSUME NEW j \in IncidentIds, I!exists(j)'
               PROVE  incidents'[j].status = "CLOSED" <=> applied'[j]["CLOSE_INCIDENT"] > 0
    BY DEF I!ClosedWhenSomeoneClosedIt
  <2>1. CASE j # i
    <3>1. I!exists(j) BY <1>9, <2>1 DEF I!exists
    <3>2. applied'[j]["CLOSE_INCIDENT"] = applied[j]["CLOSE_INCIDENT"]
      BY <1>11, <2>1, IncidentAssumption
    <3> QED BY <1>9, <2>1, <3>1, <3>2 DEF XInv, I!ClosedWhenSomeoneClosedIt
  <2>2. CASE j = i
    <3>1. incidents[i].status = "CLOSED" <=> applied[i]["CLOSE_INCIDENT"] > 0
      BY <1>1, <1>2 DEF XInv, I!ClosedWhenSomeoneClosedIt, i
    <3>2. applied[i]["CLOSE_INCIDENT"] \in Nat BY <1>2, <1>8, IncidentAssumption
    <3>3. CASE t = "CLOSE_INCIDENT"
      BY <1>4, <1>9, <1>11, <2>2, <3>2, <3>3 DEF status
    <3>4. CASE t # "CLOSE_INCIDENT"
      BY <1>2, <1>4, <1>9, <1>11, <2>2, <3>1, <3>4, IncidentAssumption DEF status
    <3> QED BY <3>3, <3>4
  <2> QED BY <2>1, <2>2
<1>16. Accounted'
  <2> SUFFICES ASSUME NEW j \in IncidentIds, NEW u \in Interventions, I!exists(j)'
               PROVE  events'[j][u] + Cardinality(Owed(j, u)') = applied'[j][u]
    BY DEF Accounted
  <2>1. I!exists(j) BY <1>1, <1>9 DEF I!exists, i
  <2>2. events[j][u] + Cardinality(Owed(j, u)) = applied[j][u] BY <2>1 DEF XInv, Accounted
  <2>3. events[j][u] \in Nat BY DEF XInv, I!IncidentTypes
  <2>4. o \notin Owed(j, u) BY <1>1 DEF Owed
  <2>5. CASE j = i /\ u = t
    <3>1. Owed(j, u)' = Owed(j, u) \cup {o} BY <1>6, <1>7, <2>5 DEF Owed
    <3>2. Cardinality(Owed(j, u)') = Cardinality(Owed(j, u)) + 1
      BY <2>4, <3>1, OwedFinite, FS_AddElement
    <3>3. Cardinality(Owed(j, u)) \in Nat BY OwedFinite
    <3> QED BY <1>1, <1>11, <2>2, <2>3, <2>5, <3>2, <3>3
  <2>6. CASE j # i \/ u # t
    <3>1. o \notin Owed(j, u)' BY <1>6, <1>7, <2>6 DEF Owed
    <3>2. Owed(j, u)' = Owed(j, u) BY <1>7, <2>4, <3>1, OwedStays
    <3> QED BY <1>1, <1>11, <2>2, <2>6, <3>2
  <2> QED BY <2>5, <2>6
<1> QED BY <1>12, <1>13, <1>14, <1>15, <1>16 DEF XInv

LEMMA AppendEventStep ==
    ASSUME XInv, NEW o \in Operators, I!append_event(o)
    PROVE  XInv'
<1> DEFINE i == desk[o].incident
           t == desk[o].type
           d == [I!Free EXCEPT !.calls = desk[o].calls]
<1>1. /\ desk[o].at = "append_event"
      /\ desk' = [desk EXCEPT ![o] = d] /\ UNCHANGED <<incidents, applied>>
      /\ events' = [events EXCEPT ![i][t] = @ + 1]
  BY DEF I!append_event, I!leave
<1>2. i \in IncidentIds /\ t \in Interventions /\ incidents[i] # None
  BY <1>1 DEF XInv, DeskOK
<1>3. d \in I!Desk BY LeaveType
<1>4. d.at = "free" BY DEF I!Free
<1> HIDE DEF d
<1>5. /\ desk' \in [Operators -> I!Desk] /\ desk'[o] = d
      /\ \A u \in Operators \ {o} : desk'[u] = desk[u]
  BY <1>1, <1>3, DeskGoes
<1>6. events \in [IncidentIds -> [Interventions -> Nat]] BY DEF XInv, I!IncidentTypes
<1>7. o \in Owed(i, t) BY <1>1 DEF Owed
<1>8. \A j, u : j # i \/ u # t => o \notin Owed(j, u) BY DEF Owed
<1> HIDE DEF i, t
<1>9. /\ events' \in [IncidentIds -> [Interventions -> Nat]]
      /\ events'[i][t] = events[i][t] + 1
      /\ \A j \in IncidentIds, u \in Interventions :
             j # i \/ u # t => events'[j][u] = events[j][u]
      /\ \A j \in IncidentIds : j # i => events'[j] = events[j]
  BY <1>1, <1>2, <1>6
<1>10. I!IncidentTypes' BY <1>1, <1>5, <1>9 DEF XInv, I!IncidentTypes
<1>11. DeskOK' BY <1>1, <1>4, <1>5 DEF XInv, DeskOK
<1>12. FreshOK' BY <1>1, <1>2, <1>9 DEF XInv, FreshOK
<1>13. I!ClosedWhenSomeoneClosedIt'
  BY <1>1 DEF XInv, I!ClosedWhenSomeoneClosedIt, I!exists
<1>14. Accounted'
  <2> SUFFICES ASSUME NEW j \in IncidentIds, NEW u \in Interventions, I!exists(j)'
               PROVE  events'[j][u] + Cardinality(Owed(j, u)') = applied'[j][u]
    BY DEF Accounted
  <2>1. I!exists(j) BY <1>1 DEF I!exists
  <2>2. events[j][u] + Cardinality(Owed(j, u)) = applied[j][u] BY <2>1 DEF XInv, Accounted
  <2>3. events[j][u] \in Nat BY <1>6
  <2>4. o \notin Owed(j, u)' BY <1>4, <1>5 DEF Owed
  <2>5. CASE j = i /\ u = t
    <3>1. Owed(j, u)' = Owed(j, u) \ {o} BY <1>5, <2>4 DEF Owed
    <3>2. Cardinality(Owed(j, u)') = Cardinality(Owed(j, u)) - 1
      BY <1>7, <2>5, <3>1, OwedFinite, FS_RemoveElement
    <3>3. Cardinality(Owed(j, u)) \in Nat BY OwedFinite
    <3> QED BY <1>1, <1>9, <2>2, <2>3, <2>5, <3>2, <3>3
  <2>6. CASE j # i \/ u # t
    <3>1. Owed(j, u)' = Owed(j, u) BY <1>5, <1>8, <2>4, <2>6, OwedStays
    <3> QED BY <1>1, <1>9, <2>2, <2>6, <3>1
  <2> QED BY <2>5, <2>6
<1> QED BY <1>10, <1>11, <1>12, <1>13, <1>14 DEF XInv

LEMMA OpenIncidentStep ==
    ASSUME XInv, NEW i \in IncidentIds, I!open_incident(i)
    PROVE  XInv'
<1> DEFINE row == [status |-> "OPEN", interventions |-> <<>>]
<1>1. /\ incidents[i] = None /\ incidents' = [incidents EXCEPT ![i] = row]
      /\ UNCHANGED <<events, applied, desk>>
  BY DEF I!open_incident
<1>2. <<>> \in Seq(Interventions) OBVIOUS
<1>3. row \in I!Incident /\ row.status = "OPEN" BY <1>2 DEF I!Incident
<1>4. row # None BY <1>3, NullAssumption
<1>5. incidents \in [IncidentIds -> I!Incident \cup {None, Gone}] BY DEF XInv, I!IncidentTypes
<1> HIDE DEF row
<1>6. /\ incidents' \in [IncidentIds -> I!Incident \cup {None, Gone}]
      /\ incidents'[i] = row /\ \A j \in IncidentIds \ {i} : incidents'[j] = incidents[j]
  BY <1>1, <1>3, <1>5
<1>7. events[i] = I!none_yet /\ applied[i] = I!none_yet BY <1>1 DEF XInv, FreshOK
<1>8. I!IncidentTypes' BY <1>1, <1>6 DEF XInv, I!IncidentTypes
<1>9. DeskOK' BY <1>1, <1>4, <1>6 DEF XInv, DeskOK
<1>10. FreshOK' BY <1>1, <1>4, <1>6 DEF XInv, FreshOK
<1>11. I!ClosedWhenSomeoneClosedIt'
  <2>1. applied[i]["CLOSE_INCIDENT"] = 0 BY <1>7, IncidentAssumption DEF I!none_yet
  <2> QED BY <1>1, <1>3, <1>6, <2>1 DEF XInv, I!ClosedWhenSomeoneClosedIt, I!exists
<1>12. Accounted'
  <2> SUFFICES ASSUME NEW j \in IncidentIds, NEW u \in Interventions, I!exists(j)'
               PROVE  events'[j][u] + Cardinality(Owed(j, u)') = applied'[j][u]
    BY DEF Accounted
  <2>1. Owed(j, u)' = Owed(j, u) BY <1>1 DEF Owed
  <2>2. CASE j # i BY <1>1, <1>6, <2>1, <2>2 DEF XInv, Accounted, I!exists
  <2>3. CASE j = i
    <3>1. Owed(i, u) = {} BY <1>1 DEF Owed, XInv, DeskOK
    <3>2. events[i][u] = 0 /\ applied[i][u] = 0 BY <1>7 DEF I!none_yet
    <3> QED BY <1>1, <2>1, <2>3, <3>1, <3>2, FS_EmptySet
  <2> QED BY <2>2, <2>3
<1> QED BY <1>8, <1>9, <1>10, <1>11, <1>12 DEF XInv

LEMMA DeleteIncidentsStep == ASSUME XInv, I!delete_incidents PROVE XInv'
<1>1. /\ incidents' = [i \in IncidentIds |-> IF I!exists(i) THEN Gone ELSE incidents[i]]
      /\ events' = [i \in IncidentIds |-> I!none_yet]
      /\ UNCHANGED <<applied, desk>>
  BY DEF I!delete_incidents
<1>2. \A i \in IncidentIds : /\ incidents'[i] \in {None, Gone}
                             /\ incidents'[i] = None <=> incidents[i] = None
  BY <1>1, NullAssumption DEF I!exists
<1>3. I!none_yet \in [Interventions -> Nat] BY DEF I!none_yet
<1>4. I!IncidentTypes' BY <1>1, <1>2, <1>3 DEF XInv, I!IncidentTypes
<1>5. DeskOK' BY <1>1, <1>2 DEF XInv, DeskOK
<1>6. FreshOK' BY <1>1, <1>2 DEF XInv, FreshOK
<1>7. I!ClosedWhenSomeoneClosedIt' BY <1>2 DEF I!ClosedWhenSomeoneClosedIt, I!exists
<1>8. Accounted' BY <1>2 DEF Accounted, I!exists
<1> QED BY <1>4, <1>5, <1>6, <1>7, <1>8 DEF XInv

LEMMA IncidentsUndisturbed == ASSUME XInv, UNCHANGED incident_vars PROVE XInv'
<1> USE DEF incident_vars
<1>1. I!IncidentTypes' BY DEF XInv, I!IncidentTypes
<1>2. DeskOK' BY DEF XInv, DeskOK
<1>3. FreshOK' BY DEF XInv, FreshOK
<1>4. I!ClosedWhenSomeoneClosedIt' BY DEF XInv, I!ClosedWhenSomeoneClosedIt, I!exists
<1>5. Accounted' BY DEF XInv, Accounted, I!exists, Owed
<1> QED BY <1>1, <1>2, <1>3, <1>4, <1>5 DEF XInv

LEMMA IncidentsStep == ASSUME XInv, [Next]_vars PROVE XInv'
<1>1. ASSUME NEW o \in Operators, I!operator(o) PROVE XInv'
  BY <1>1, ReadIncidentStep, CommitInterventionStep, RefreshIncidentStep, RowGoneStep,
     AppendEventStep DEF I!operator
<1>2. ASSUME NEW w \in Handlers, commit_reset(w) PROVE XInv'
  BY <1>2, DeleteIncidentsStep DEF commit_reset
<1>3. ASSUME NEW w \in Handlers, delete_children(w) \/ reset_fails(w) \/ seed(w) PROVE XInv'
  BY <1>3, IncidentsUndisturbed DEF delete_children, reset_fails, seed
<1>4. ASSUME NEW r \in Requests, quarantine(r) PROVE XInv'
  BY <1>4, OpenIncidentStep DEF quarantine
<1>5. CASE UNCHANGED vars BY <1>5, IncidentsUndisturbed DEF vars
<1> QED BY <1>1, <1>2, <1>3, <1>4, <1>5, IncidentsUndisturbed DEF Next

LEMMA XInitially == Init => XInv
<1> SUFFICES ASSUME Init PROVE XInv
  OBVIOUS
<1>1. /\ incidents = [i \in IncidentIds |-> None]
      /\ events = [i \in IncidentIds |-> I!none_yet]
      /\ applied = [i \in IncidentIds |-> I!none_yet]
      /\ desk = [o \in Operators |-> I!Free]
  BY DEF Init, I!InitIncidents
<1>2. I!none_yet \in [Interventions -> Nat] BY DEF I!none_yet
<1>3. <<>> \in Seq(Interventions) OBVIOUS
<1>4. I!Free \in I!Desk /\ I!Free.at = "free" BY <1>3, OperatorAssumption DEF I!Free, I!Desk
<1>5. I!IncidentTypes BY <1>1, <1>2, <1>4 DEF I!IncidentTypes
<1>6. DeskOK BY <1>1, <1>4 DEF DeskOK
<1>7. FreshOK BY <1>1 DEF FreshOK
<1>8. I!ClosedWhenSomeoneClosedIt BY <1>1 DEF I!ClosedWhenSomeoneClosedIt, I!exists
<1>9. Accounted BY <1>1 DEF Accounted, I!exists
<1> QED BY <1>5, <1>6, <1>7, <1>8, <1>9 DEF XInv

LEMMA XInductive == Spec => []XInv
BY IncidentsStep, XInitially, PTL DEF Spec

-----------------------------------------------------------------------------
(* The theorems.                                                           *)

(* The registry, the handlers, the incidents and the operators keep their  *)
(* types (routers/delegations.py, routers/operator.py, demo/seed.py).      *)
THEOREM TypeCorrectness == Spec => []TypeOK
<1>1. DInv /\ XInv => TypeOK BY DEF DInv, XInv, TypeOK
<1> QED BY <1>1, DInductive, XInductive, PTL

(* However many bootstraps, creations and requests race, the registry and  *)
(* its delegation are there when no bootstrap is at work (seed_demo).      *)
THEOREM RegistryReturns == Spec => []RegistryPresentAtRest
<1>1. DInv => RegistryPresentAtRest
  <2> SUFFICES ASSUME DInv, \A w \in Handlers : pc[w] \notin {"delete_parents", "seed"}
               PROVE  registered /\ rows[SeededPolicy][1] # None
    BY DEF RegistryPresentAtRest
  <2>1. registered BY DEF DInv, RegistryOK
  <2> QED BY <2>1 DEF DInv, RegistryOK
<1> QED BY <1>1, DInductive, PTL

(* An evaluation that begins under a REVOKED version stores no ALLOW, even *)
(* when a bootstrap brings the version back before the policy is read      *)
(* (evaluate and execute in domain/lifecycle.py).                          *)
THEOREM RevocationHolds == Spec => []RevokedVersionAuthorisesNothing
<1>1. DInv => RevokedVersionAuthorisesNothing
  BY DEF DInv, AuthorisedOK, RevokedVersionAuthorisesNothing
<1> QED BY <1>1, DInductive, PTL

(* A revoked version is never in force again, short of a reset             *)
(* (create_delegation, revoke_delegation and seed_demo).                   *)
THEOREM RevocationLasts == Spec => RevokedStaysRevoked
<1>1. DInv /\ [Next]_vars =>
         [\A p \in PolicyIds, v \in Versions :
             rows[p][v] = "REVOKED" => rows'[p][v] = "REVOKED" \/ ~registered']_vars
  <2> SUFFICES ASSUME DInv, [Next]_vars, NEW p \in PolicyIds, NEW v \in Versions,
                      rows[p][v] = "REVOKED"
               PROVE  rows'[p][v] = "REVOKED" \/ ~registered'
    OBVIOUS
  <2>1. Progress BY SafeStep DEF Safe
  <2> QED BY <2>1 DEF Progress
<1> QED BY <1>1, DInductive, PTL DEF Spec, RevokedStaysRevoked

(* However operators overwrite each other's lists, an incident shows       *)
(* CLOSED exactly when one of them closed it (add_intervention).           *)
THEOREM ClosingLasts == Spec => []ClosedWhenSomeoneClosedIt
<1>1. XInv => ClosedWhenSomeoneClosedIt BY DEF XInv, ClosedWhenSomeoneClosedIt
<1> QED BY <1>1, XInductive, PTL

(* Every intervention on an incident that is there has its event once no   *)
(* operator is at work on it, whatever its list has lost (add_intervention *)
(* and append_event).                                                      *)
THEOREM InterventionsAreTraced == Spec => []LostInterventionsStayInTheTrace
<1>1. XInv => LostInterventionsStayInTheTrace
  <2> SUFFICES ASSUME XInv, NEW i \in IncidentIds, I!exists(i),
                      \A o \in Operators : desk[o].incident # i
               PROVE  events[i] = applied[i]
    BY DEF LostInterventionsStayInTheTrace, I!LostInterventionsStayInTheTrace
  <2>1. \A t \in Interventions : Owed(i, t) = {} BY DEF Owed
  <2>2. /\ events[i] \in [Interventions -> Nat] /\ applied[i] \in [Interventions -> Nat]
    BY DEF XInv, I!IncidentTypes
  <2>3. \A t \in Interventions : events[i][t] + Cardinality(Owed(i, t)) = applied[i][t]
    BY DEF XInv, Accounted
  <2>4. Cardinality({}) = 0 BY FS_EmptySet
  <2>5. \A t \in Interventions : events[i][t] = applied[i][t] BY <2>1, <2>2, <2>3, <2>4
  <2> QED BY <2>2, <2>5
<1> QED BY <1>1, XInductive, PTL

=============================================================================
