------------------------- MODULE AuthorisedExecution -------------------------
(***************************************************************************)
(* What the service promises of execution, without its tables: a call to   *)
(* execute a request submits one plan at most, and only after it was       *)
(* admitted while the request's delegation was in force and authorised for *)
(* that plan, under a grant of a human where the delegation wants one.     *)
(* Any number of calls may be under way, each may end at any time, and     *)
(* nothing a call does takes authority from, or gives it to, another.      *)
(***************************************************************************)
EXTENDS Naturals, Sequences

CONSTANTS
    Callers, Requests, Policies, Plans, None,
    NeedsHuman(_, _),  \* whether a delegation wants a human for a plan
    TTL                \* how long a grant is good for

VARIABLES
    in_force,   \* [Policies -> BOOLEAN]
    now,
    policy,     \* [Requests -> Policies \cup {None}], None before it is opened
    grants,     \* [Requests -> set of grants]
    running,    \* [Callers -> call]
    submitted   \* [Requests -> sequence of plans]

vars == <<in_force, now, policy, grants, running, submitted>>

NoCall == [request |-> None, admitted |-> FALSE, authorised |-> FALSE, plan |-> None]

Init ==
    /\ in_force \in [Policies -> BOOLEAN]
    /\ now = 0
    /\ policy = [r \in Requests |-> None]
    /\ grants = [r \in Requests |-> {}]
    /\ running = [c \in Callers |-> NoCall]
    /\ submitted = [r \in Requests |-> <<>>]

Open(r, p) ==
    /\ policy[r] = None
    /\ policy' = [policy EXCEPT ![r] = p]
    /\ UNCHANGED <<in_force, now, grants, running, submitted>>

Revoke(p) ==
    /\ in_force' = [in_force EXCEPT ![p] = FALSE]
    /\ UNCHANGED <<now, policy, grants, running, submitted>>

Tick ==
    /\ now' = now + 1
    /\ UNCHANGED <<in_force, policy, grants, running, submitted>>

Grant(r, plan) ==
    /\ policy[r] # None
    /\ grants' = [grants EXCEPT ![r] = @ \cup {[plan |-> plan, until |-> now + TTL]}]
    /\ UNCHANGED <<in_force, now, policy, running, submitted>>

Arrive(c, r) ==
    /\ running[c] = NoCall
    /\ policy[r] # None
    /\ running' = [running EXCEPT ![c] =
                     [NoCall EXCEPT !.request = r, !.admitted = in_force[policy[r]]]]
    /\ UNCHANGED <<in_force, now, policy, grants, submitted>>

Authorise(c, plan) ==
    LET r == running[c].request IN
    /\ r # None
    /\ running[c].admitted
    /\ ~running[c].authorised
    /\ NeedsHuman(policy[r], plan) => \E g \in grants[r] : g.plan = plan /\ now <= g.until
    /\ running' = [running EXCEPT ![c] =
                     [request |-> r, admitted |-> TRUE, authorised |-> TRUE, plan |-> plan]]
    /\ UNCHANGED <<in_force, now, policy, grants, submitted>>

(* The call is used up: to submit again takes another one.                 *)
Submit(c) ==
    /\ running[c].authorised
    /\ submitted' = [submitted EXCEPT ![running[c].request] = Append(@, running[c].plan)]
    /\ running' = [running EXCEPT ![c] = NoCall]
    /\ UNCHANGED <<in_force, now, policy, grants>>

(* Refused, failed or dead; or the adapter had nothing to submit.          *)
Leave(c) ==
    /\ running' = [running EXCEPT ![c] = NoCall]
    /\ UNCHANGED <<in_force, now, policy, grants, submitted>>

Next ==
    \/ \E r \in Requests, p \in Policies : Open(r, p)
    \/ \E p \in Policies : Revoke(p)
    \/ Tick
    \/ \E r \in Requests, plan \in Plans : Grant(r, plan)
    \/ \E c \in Callers :
          \/ \E r \in Requests : Arrive(c, r)
          \/ \E plan \in Plans : Authorise(c, plan)
          \/ Submit(c)
          \/ Leave(c)

Spec == Init /\ [][Next]_vars

=============================================================================
