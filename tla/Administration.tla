---------------------------- MODULE Administration ----------------------------
(***************************************************************************)
(* What people do to the registry while handlers run: they create and      *)
(* revoke delegations (Delegations), intervene on incidents (Incidents)    *)
(* and bootstrap the demo (seed_demo in app/demo/seed.py), which deletes   *)
(* every table in one transaction and seeds the registry in another.       *)
(* The foreign keys, on in SQLite as in PostgreSQL (app/db/base.py), decide*)
(* which of two transactions fails.                                        *)
(***************************************************************************)
EXTENDS Delegations, FiniteSets

CONSTANTS
    SeededPolicy,  \* the policy of fixtures/policies.json, version 1
    Operators, IncidentIds, Interventions, MaxInterventions

VARIABLES incidents, events, applied, desk

I == INSTANCE Incidents

ASSUME SeedAssumption == {SeededPolicy, TransferPolicy} \subseteq PolicyIds /\ 1 \in Versions
ASSUME IncidentAssumption ==
    /\ IncidentIds \subseteq Requests
    /\ {"PAUSE_AGENT", "CLOSE_INCIDENT"} \subseteq Interventions
ASSUME OperatorAssumption == IsFiniteSet(Operators) /\ MaxInterventions \in Nat
ASSUME NullAssumption ==
    /\ None # Gone
    /\ None \notin Statuses \cup Pins \cup I!Incident
    /\ Gone \notin Pins \cup I!Incident

delegation_vars == <<rows, registered, requests, disabled, authorised, calls, pc, loc>>

incident_vars == <<incidents, events, applied, desk>>

vars == <<delegation_vars, incident_vars>>

seeded == [p \in PolicyIds |-> [v \in Versions |->
              IF p = SeededPolicy /\ v = 1 THEN "ACTIVE" ELSE None]]

Init ==
    /\ rows = seeded
    /\ registered = TRUE
    /\ requests = [r \in Requests |-> None]
    /\ disabled = {}
    /\ authorised = {}
    /\ calls = Calls
    /\ pc = [w \in Handlers |-> "idle"]
    /\ loc = [w \in Handlers |-> Idle]
    /\ I!InitIncidents

-----------------------------------------------------------------------------
(* reset_demo_state.  Of the tables in its order, incidents and requests   *)
(* come before delegations, agents and principals.                         *)

children == {<<"request", r>> : r \in {q \in Requests : requests[q] \notin {None, Gone}}}
              \cup {<<"incident", i>> : i \in {j \in IncidentIds : I!exists(j)}}

delete_children(w) ==
    /\ pc[w] = "idle"
    /\ call("bootstrap")
    /\ goto(w, "delete_parents", [Idle EXCEPT !.deleted = children])
    /\ UNCHANGED <<rows, registered, requests, disabled, authorised, incident_vars>>

(* A request or an incident inserted since keeps a row alive that is to go.*)
reset_fails(w) ==
    /\ pc[w] = "delete_parents"
    /\ ~(children \subseteq loc[w].deleted)
    /\ finish(w)
    /\ UNCHANGED <<rows, registered, requests, disabled, authorised, calls, incident_vars>>

commit_reset(w) ==
    /\ pc[w] = "delete_parents"
    /\ children \subseteq loc[w].deleted
    /\ rows' = [p \in PolicyIds |-> [v \in Versions |-> None]]
    /\ registered' = FALSE
    /\ requests' = [r \in Requests |-> IF requests[r] = None THEN None ELSE Gone]
    /\ disabled' = {}
    /\ goto(w, "seed", Idle)
    /\ I!delete_incidents
    /\ UNCHANGED <<authorised, calls>>

(* Mutant: parents and children go to the database in one flush, in an     *)
(* order that the foreign keys may refuse.                                 *)
seed_unflushed(w) ==
    /\ pc[w] = "seed"
    /\ \/ UNCHANGED <<rows, registered>>
       \/ registered' = TRUE /\ rows' = IF registered THEN rows ELSE seeded
    /\ finish(w)
    /\ UNCHANGED <<requests, disabled, authorised, calls, incident_vars>>

(* seed_demo after the reset: the insert fails when the principals exist.  *)
seed(w) ==
    /\ pc[w] = "seed"
    /\ registered' = TRUE
    /\ rows' = IF registered THEN rows ELSE seeded
    /\ finish(w)
    /\ UNCHANGED <<requests, disabled, authorised, calls, incident_vars>>

-----------------------------------------------------------------------------
paused == \E i \in IncidentIds : I!exists(i) /\ applied[i]["PAUSE_AGENT"] > 0

quarantined == {i \in IncidentIds : I!exists(i)}

(* A request is quarantined and its incident filed (_handle_blocked).      *)
quarantine(r) ==
    /\ r \in IncidentIds
    /\ requests[r] \notin {None, Gone}
    /\ I!open_incident(r)
    /\ UNCHANGED delegation_vars

Next ==
    \/ \E w \in Handlers :
          \/ handler(w, quarantined, paused) /\ UNCHANGED incident_vars
          \/ delete_children(w)
          \/ reset_fails(w)
          \/ commit_reset(w)
          \/ seed(w)
    \/ \E o \in Operators : I!operator(o) /\ UNCHANGED delegation_vars
    \/ \E r \in Requests : quarantine(r)

Spec == Init /\ [][Next]_vars

-----------------------------------------------------------------------------
(* The registry and the incidents keep their types.                        *)
TypeOK == DelegationTypes /\ I!IncidentTypes

(* However many bootstraps race, each with requests, versions and          *)
(* incidents inserted beside it, the registry and its delegation are there *)
(* when none of them is at work.                                           *)
RegistryPresentAtRest ==
    (\A w \in Handlers : pc[w] \notin {"delete_parents", "seed"}) =>
        registered /\ rows[SeededPolicy][1] # None

(* A version that was revoked is never in force again, short of a reset:   *)
(* neither a creation that found it missing nor a second revocation that   *)
(* read it before the first brings it back.                                *)
RevokedStaysRevoked ==
    [][\A p \in PolicyIds, v \in Versions :
         rows[p][v] = "REVOKED" => rows'[p][v] = "REVOKED" \/ ~registered']_vars

(* "Apply an operator intervention (e.g. pause agent, ...)",               *)
(* routers/operator.py:74: no evaluation that begins after the agent was   *)
(* paused is stored as ALLOW.                                              *)
PausedAgentAuthorisesNothing == \A a \in authorised : ~a.paused

ClosedWhenSomeoneClosedIt == I!ClosedWhenSomeoneClosedIt

LostInterventionsStayInTheTrace == I!LostInterventionsStayInTheTrace

=============================================================================
