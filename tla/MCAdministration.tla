--------------------------- MODULE MCAdministration ---------------------------
(* Small instances of the administration: how many calls of each kind.     *)
EXTENDS Administration, TLC

(* Two bootstraps, and what races them.                                    *)
EveryOperation ==
    [create |-> 1, revoke |-> 1, ensure |-> 1, request |-> 1, evaluate |-> 1, bootstrap |-> 2]

(* A version is added, the policy revoked, a request evaluated.            *)
TwoVersions ==
    [create |-> 1, revoke |-> 1, ensure |-> 0, request |-> 1, evaluate |-> 1, bootstrap |-> 0]

(* Two requests; one is quarantined, the other evaluated.                  *)
TwoRequests ==
    [create |-> 0, revoke |-> 0, ensure |-> 0, request |-> 2, evaluate |-> 1, bootstrap |-> 0]

PeopleSymmetry == Permutations(Handlers) \cup Permutations(Operators)

=============================================================================
