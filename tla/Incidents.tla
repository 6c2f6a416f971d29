------------------------------ MODULE Incidents ------------------------------
(***************************************************************************)
(* Operators' interventions on incidents (add_intervention in              *)
(* app/routers/operator.py).  The handler reads the row, commits the list  *)
(* it has read with its own intervention at the end, reads the row again   *)
(* and appends an event to the incident's trace.                           *)
(*                                                                         *)
(* incidents[i] is the row, None before the request is quarantined and     *)
(* Gone after the demo was reset.  events[i] counts the                    *)
(* INTERVENTION_APPLIED events by type.  applied[i], which is history,     *)
(* counts the interventions that were committed.                           *)
(***************************************************************************)
EXTENDS Naturals, Sequences

CONSTANTS
    Operators, IncidentIds, None, Gone,
    Interventions,    \* the types operators use, CLOSE_INCIDENT among them
    MaxInterventions  \* bound: calls of add_intervention by one operator

VARIABLES incidents, events, applied, desk

exists(i) == incidents[i] \notin {None, Gone}

Free == [at |-> "free", incident |-> None, type |-> None, read |-> <<>>, calls |-> 0]

(* The handler of o returns or raises.                                     *)
leave(o) == desk' = [desk EXCEPT ![o] = [Free EXCEPT !.calls = desk[o].calls]]

none_yet == [t \in Interventions |-> 0]

InitIncidents ==
    /\ incidents = [i \in IncidentIds |-> None]
    /\ events = [i \in IncidentIds |-> none_yet]
    /\ applied = [i \in IncidentIds |-> none_yet]
    /\ desk = [o \in Operators |-> Free]

(* _handle_blocked quarantines a request.                                  *)
open_incident(i) ==
    /\ incidents[i] = None
    /\ incidents' = [incidents EXCEPT ![i] = [status |-> "OPEN", interventions |-> <<>>]]
    /\ UNCHANGED <<events, applied, desk>>

-----------------------------------------------------------------------------
(* add_intervention                                                        *)

read_incident(o, i, type) ==
    /\ desk[o].at = "free"
    /\ desk[o].calls < MaxInterventions
    /\ exists(i)
    /\ desk' = [desk EXCEPT ![o] = [at |-> "commit", incident |-> i, type |-> type,
                                    read |-> incidents[i].interventions,
                                    calls |-> @.calls + 1]]
    /\ UNCHANGED <<incidents, events, applied>>

(* Mutant: the row is written whole, as a PUT of the record would.         *)
commit_whole_row(o) ==
    LET i == desk[o].incident
        type == desk[o].type
    IN  /\ desk[o].at = "commit"
        /\ exists(i)
        /\ incidents' = [incidents EXCEPT ![i] =
                           [status |-> IF type = "CLOSE_INCIDENT" THEN "CLOSED" ELSE "OPEN",
                            interventions |-> Append(desk[o].read, type)]]
        /\ applied' = [applied EXCEPT ![i][type] = @ + 1]
        /\ desk' = [desk EXCEPT ![o].at = "refresh"]
        /\ UNCHANGED events

(* The list is sent as it was read, longer by one; the status only by a    *)
(* handler that closes the incident.                                       *)
commit_intervention(o) ==
    LET i == desk[o].incident
        type == desk[o].type
    IN  /\ desk[o].at = "commit"
        /\ exists(i)
        /\ incidents' = [incidents EXCEPT
                           ![i].interventions = Append(desk[o].read, type),
                           ![i].status = IF type = "CLOSE_INCIDENT" THEN "CLOSED" ELSE @]
        /\ applied' = [applied EXCEPT ![i][type] = @ + 1]
        /\ desk' = [desk EXCEPT ![o].at = "refresh"]
        /\ UNCHANGED events

(* Mutant: the handler returns once the incident is closed.                *)
refresh_incident_open(o) ==
    /\ desk[o].at = "refresh"
    /\ exists(desk[o].incident)
    /\ IF incidents[desk[o].incident].status = "CLOSED"
       THEN leave(o)
       ELSE desk' = [desk EXCEPT ![o].at = "append_event"]
    /\ UNCHANGED <<incidents, events, applied>>

refresh_incident(o) ==
    /\ desk[o].at = "refresh"
    /\ exists(desk[o].incident)
    /\ desk' = [desk EXCEPT ![o].at = "append_event"]
    /\ UNCHANGED <<incidents, events, applied>>

(* Both the update and the refresh raise when the row is gone.             *)
row_gone(o) ==
    /\ desk[o].at \in {"commit", "refresh"}
    /\ ~exists(desk[o].incident)
    /\ leave(o)
    /\ UNCHANGED <<incidents, events, applied>>

(* No foreign key ties an event to its incident.                           *)
append_event(o) ==
    /\ desk[o].at = "append_event"
    /\ events' = [events EXCEPT ![desk[o].incident][desk[o].type] = @ + 1]
    /\ leave(o)
    /\ UNCHANGED <<incidents, applied>>

(* reset_demo_state, for these tables: incidents and trace events.         *)
delete_incidents ==
    /\ incidents' = [i \in IncidentIds |-> IF exists(i) THEN Gone ELSE incidents[i]]
    /\ events' = [i \in IncidentIds |-> none_yet]
    /\ UNCHANGED <<applied, desk>>

-----------------------------------------------------------------------------
operator(o) ==
    \/ \E i \in IncidentIds, type \in Interventions : read_incident(o, i, type)
    \/ commit_intervention(o)
    \/ refresh_incident(o)
    \/ row_gone(o)
    \/ append_event(o)

-----------------------------------------------------------------------------
Incident == [status : {"OPEN", "CLOSED"}, interventions : Seq(Interventions)]

Desk == [at : {"free", "commit", "refresh", "append_event"},
         incident : IncidentIds \cup {None}, type : Interventions \cup {None},
         read : Seq(Interventions), calls : 0 .. MaxInterventions]

(* The rows, the counts and the operators keep their types.                *)
IncidentTypes ==
    /\ incidents \in [IncidentIds -> Incident \cup {None, Gone}]
    /\ events \in [IncidentIds -> [Interventions -> Nat]]
    /\ applied \in [IncidentIds -> [Interventions -> Nat]]
    /\ desk \in [Operators -> Desk]

(* However the operators' handlers overwrite each other's list, an         *)
(* incident shows CLOSED exactly when someone closed it.                   *)
ClosedWhenSomeoneClosedIt ==
    \A i \in IncidentIds : exists(i) =>
        (incidents[i].status = "CLOSED" <=> applied[i]["CLOSE_INCIDENT"] > 0)

(* An intervention that the list has lost to a concurrent one is still in  *)
(* the trace: with no operator at work on it, an incident has as many      *)
(* INTERVENTION_APPLIED events of each type as interventions committed.    *)
LostInterventionsStayInTheTrace ==
    \A i \in IncidentIds :
        exists(i) /\ (\A o \in Operators : desk[o].incident # i) => events[i] = applied[i]

=============================================================================
