----------------------------- MODULE Delegations -----------------------------
(***************************************************************************)
(* The versions of delegation policies (app/routers/delegations.py), the   *)
(* requests that are pinned to one of them, and the evaluations that read  *)
(* it.  Each handler reads with one statement and writes with another.     *)
(*                                                                         *)
(* rows[p][v] is the status of version v of policy p, None when there is   *)
(* no such row.  registered says whether the principal and the agent that  *)
(* those rows refer to exist.  disabled and authorised are history: the    *)
(* versions that existed when a revocation of their policy was committed,  *)
(* and the ALLOW evaluations that were stored.                             *)
(***************************************************************************)
EXTENDS Naturals

CONSTANTS
    Handlers, PolicyIds, Versions, Requests, None,
    Gone,            \* a request that was deleted; its id is not used again
    TransferPolicy,  \* TRANSFER_POLICY_ID, of the security lab
    Calls            \* bound: how many calls of each operation arrive

VARIABLES rows, registered, requests, disabled, authorised, calls, pc, loc

Idle == [policy |-> None, version |-> None, status |-> None, request |-> None,
         dead |-> None, disabled |-> None, paused |-> None, deleted |-> {}]

finish(w) == pc' = [pc EXCEPT ![w] = "idle"] /\ loc' = [loc EXCEPT ![w] = Idle]

goto(w, label, l) == pc' = [pc EXCEPT ![w] = label] /\ loc' = [loc EXCEPT ![w] = l]

call(op) == calls[op] > 0 /\ calls' = [calls EXCEPT ![op] = @ - 1]

versions(p) == {v \in Versions : rows[p][v] # None}

-----------------------------------------------------------------------------
(* create_delegation: a version that exists is refused (409); otherwise    *)
(* the row is inserted, which fails when the version or the parents of the *)
(* row are not what they were.                                             *)
check_version(w, p, v, s) ==
    /\ pc[w] = "idle"
    /\ call("create")
    /\ rows[p][v] = None
    /\ goto(w, "insert", [Idle EXCEPT !.policy = p, !.version = v, !.status = s])
    /\ UNCHANGED <<rows, registered, requests, disabled, authorised>>

(* Mutant: the row is merged, as session.merge would.                      *)
insert_version_merging(w) ==
    /\ pc[w] = "insert"
    /\ rows' = IF registered
               THEN [rows EXCEPT ![loc[w].policy][loc[w].version] = loc[w].status]
               ELSE rows
    /\ finish(w)
    /\ UNCHANGED <<registered, requests, disabled, authorised, calls>>

insert_version(w) ==
    LET p == loc[w].policy
        v == loc[w].version
    IN  /\ pc[w] = "insert"
        /\ rows' = IF registered /\ rows[p][v] = None
                   THEN [rows EXCEPT ![p][v] = loc[w].status] ELSE rows
        /\ finish(w)
        /\ UNCHANGED <<registered, requests, disabled, authorised, calls>>

(* _ensure_transfer_policy: version 1, whatever its status, is kept; else  *)
(* an ACTIVE one is inserted.                                              *)
ensure_transfer_policy(w) ==
    /\ pc[w] = "idle"
    /\ call("ensure")
    /\ rows[TransferPolicy][1] = None
    /\ goto(w, "insert",
            [Idle EXCEPT !.policy = TransferPolicy, !.version = 1, !.status = "ACTIVE"])
    /\ UNCHANGED <<rows, registered, requests, disabled, authorised>>

-----------------------------------------------------------------------------
(* revoke_delegation: the latest version is read, then its status written. *)
latest(p, v) == v \in versions(p) /\ \A u \in versions(p) : u <= v

read_latest(w, p) ==
    /\ pc[w] = "idle"
    /\ call("revoke")
    /\ \E v \in versions(p) :
          /\ latest(p, v)
          /\ goto(w, "write_revoked",
                  [Idle EXCEPT !.policy = p, !.version = v, !.status = rows[p][v]])
    /\ UNCHANGED <<rows, registered, requests, disabled, authorised>>

(* Mutant: the status is written as free text.                             *)
revoked_rows_free_text(p, v) == [rows EXCEPT ![p][v] = "revoked"]

revoked_rows(p, v) == [rows EXCEPT ![p][v] = "REVOKED"]

(* The column is sent when it changes; a row that is gone by then makes    *)
(* the commit fail, as its refresh does when nothing was sent.             *)
write_revoked(w) ==
    LET p == loc[w].policy
        v == loc[w].version
    IN  /\ pc[w] = "write_revoked"
        /\ IF rows[p][v] # None
           THEN /\ rows' = IF loc[w].status = "REVOKED" THEN rows ELSE revoked_rows(p, v)
                /\ disabled' = disabled \cup {<<p, u>> : u \in versions(p)}
           ELSE UNCHANGED <<rows, disabled>>
        /\ finish(w)
        /\ UNCHANGED <<registered, requests, authorised, calls>>

-----------------------------------------------------------------------------
(* create_request: the version must exist, in whatever status; the insert  *)
(* fails without the principal and the agent, but nothing ties the request *)
(* to the policy row.                                                      *)
read_requested_policy(w, r, p, v) ==
    /\ pc[w] = "idle"
    /\ call("request")
    /\ rows[p][v] # None
    /\ requests[r] = None
    /\ \A u \in Handlers : loc[u].request # r
    /\ goto(w, "insert_request", [Idle EXCEPT !.policy = p, !.version = v, !.request = r])
    /\ UNCHANGED <<rows, registered, requests, disabled, authorised>>

insert_request(w) ==
    /\ pc[w] = "insert_request"
    /\ requests' = IF registered
                   THEN [requests EXCEPT ![loc[w].request] = <<loc[w].policy, loc[w].version>>]
                   ELSE requests
    /\ finish(w)
    /\ UNCHANGED <<rows, registered, disabled, authorised, calls>>

-----------------------------------------------------------------------------
(* An evaluation, of evaluate or of execute: the request is read, then its *)
(* version of the policy, then the evaluation is stored.  What held when   *)
(* it began is kept for the properties; the agent row, which it reads too, *)
(* is the same whether or not an operator has paused the agent.            *)
pinned(r) == rows[requests[r][1]][requests[r][2]]

begin_evaluation(w, r, paused) ==
    /\ pc[w] = "idle"
    /\ call("evaluate")
    /\ requests[r] \notin {None, Gone}
    /\ goto(w, "load_policy",
            [Idle EXCEPT !.request = r,
                         !.policy = requests[r][1], !.version = requests[r][2],
                         !.dead = pinned(r) = "REVOKED",
                         !.disabled = requests[r] \in disabled,
                         !.paused = paused])
    /\ UNCHANGED <<rows, registered, requests, disabled, authorised>>

(* Without a policy row the plan is refused, and with it the evaluation.   *)
load_policy(w) ==
    LET status == rows[loc[w].policy][loc[w].version] IN
    /\ pc[w] = "load_policy"
    /\ IF status # "ACTIVE"
       THEN finish(w)
       ELSE goto(w, "store_evaluation", [loc[w] EXCEPT !.status = status])
    /\ UNCHANGED <<rows, registered, requests, disabled, authorised, calls>>

history(w) == [dead |-> loc[w].dead, disabled |-> loc[w].disabled,
               paused |-> loc[w].paused]

(* Mutant: the evaluation is stored although its request is gone.          *)
store_evaluation_unchecked(w) ==
    /\ pc[w] = "store_evaluation"
    /\ authorised' = authorised \cup {history(w)}
    /\ finish(w)
    /\ UNCHANGED <<rows, registered, requests, disabled, calls>>

(* The evaluation refers to its request: the insert fails when it is gone. *)
store_evaluation(w) ==
    /\ pc[w] = "store_evaluation"
    /\ authorised' = IF requests[loc[w].request] = Gone THEN authorised
                     ELSE authorised \cup {history(w)}
    /\ finish(w)
    /\ UNCHANGED <<rows, registered, requests, disabled, calls>>

-----------------------------------------------------------------------------
(* One step of a handler that is not the bootstrap's.  No request of       *)
(* quarantined is evaluated; an evaluation that begins finds paused.       *)
handler(w, quarantined, paused) ==
    \/ \E p \in PolicyIds, v \in Versions, s \in {"ACTIVE", "REVOKED"} :
          check_version(w, p, v, s)
    \/ insert_version(w)
    \/ ensure_transfer_policy(w)
    \/ \E p \in PolicyIds : read_latest(w, p)
    \/ write_revoked(w)
    \/ \E r \in Requests, p \in PolicyIds, v \in Versions : read_requested_policy(w, r, p, v)
    \/ insert_request(w)
    \/ \E r \in Requests \ quarantined : begin_evaluation(w, r, paused)
    \/ load_policy(w)
    \/ store_evaluation(w)

-----------------------------------------------------------------------------
Statuses == {"ACTIVE", "REVOKED"}

Pins == PolicyIds \X Versions

Labels == {"idle", "insert", "write_revoked", "insert_request", "load_policy",
           "store_evaluation", "delete_parents", "seed"}

Locals ==
    [policy : PolicyIds \cup {None}, version : Versions \cup {None},
     status : Statuses \cup {None}, request : Requests \cup {None},
     dead : BOOLEAN \cup {None}, disabled : BOOLEAN \cup {None},
     paused : BOOLEAN \cup {None}, deleted : SUBSET ({"request", "incident"} \X Requests)]

(* The rows, the history and the handlers keep their types.                *)
DelegationTypes ==
    /\ rows \in [PolicyIds -> [Versions -> Statuses \cup {None}]]
    /\ registered \in BOOLEAN
    /\ requests \in [Requests -> Pins \cup {None, Gone}]
    /\ disabled \subseteq Pins
    /\ authorised \subseteq [dead : BOOLEAN, disabled : BOOLEAN, paused : BOOLEAN]
    /\ pc \in [Handlers -> Labels]
    /\ loc \in [Handlers -> Locals]

(* An evaluation that begins when its version is REVOKED is never stored   *)
(* as ALLOW, though the demo may be reset under it, the version come back  *)
(* ACTIVE and the policy be read only then.                                *)
RevokedVersionAuthorisesNothing == \A a \in authorised : ~a.dead

(* "Revoke the latest version of a delegation policy (disables new         *)
(* authorizations)", routers/delegations.py:90: an evaluation that begins  *)
(* after a revocation is not stored as ALLOW under any version of that     *)
(* policy that existed by then.                                            *)
RevocationDisablesAuthorizations == \A a \in authorised : ~a.disabled

=============================================================================
