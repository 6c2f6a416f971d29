----------------------------- MODULE TraceEngine -----------------------------
(***************************************************************************)
(* The trace store of one trace (app/domain/trace/engine.py).  append_event*)
(* reads the latest event and then commits a row built on it; handlers on  *)
(* the same request append to the same trace, and nothing in the table     *)
(* keeps two rows from having the same sequence.                           *)
(*                                                                         *)
(* The keyed SHA-256 is ideal: the hash of an event is the list of the     *)
(* bodies it covers, so that equal hashes mean equal histories.  A body    *)
(* carries a fresh event_id, hence is identified by the number of its call.*)
(***************************************************************************)
EXTENDS Naturals, Sequences, FiniteSets

CONSTANTS
    Writers,   \* handlers that append to this trace
    MaxCalls,  \* bound: how many append_event calls there are
    None

ASSUME CallsAssumption == MaxCalls \in Nat

VARIABLES events, pc, body, previous, calls, tampered

vars == <<events, pc, body, previous, calls, tampered>>

GENESIS_HASH == <<>>

chain_hash(previous_hash, event_body) == Append(previous_hash, event_body)

Init ==
    /\ events = {}
    /\ pc = [w \in Writers |-> "idle"]
    /\ body = [w \in Writers |-> None]
    /\ previous = [w \in Writers |-> None]
    /\ calls = 0
    /\ tampered = FALSE

(* The rows ORDER BY sequence DESC may put first: one of them is read.     *)
latest_events == {e \in events : \A f \in events : f.sequence <= e.sequence}

read_latest(w) ==
    /\ pc[w] = "idle"
    /\ calls < MaxCalls
    /\ IF events = {}
       THEN previous' = [previous EXCEPT ![w] = None]
       ELSE \E e \in latest_events : previous' = [previous EXCEPT ![w] = e]
    /\ calls' = calls + 1
    /\ body' = [body EXCEPT ![w] = calls + 1]
    /\ pc' = [pc EXCEPT ![w] = "append"]
    /\ UNCHANGED <<events, tampered>>

(* Mutants: the first row has no sequence; rows are numbered by counting   *)
(* them.                                                                   *)
new_event_unnumbered(prev, event_body) ==
    LET hash == IF prev = None THEN GENESIS_HASH ELSE prev.event_hash
    IN  [sequence |-> IF prev = None THEN None ELSE prev.sequence + 1,
         body |-> event_body,
         previous_event_hash |-> hash,
         event_hash |-> chain_hash(hash, event_body)]

new_event_counted(prev, event_body) ==
    LET hash == IF prev = None THEN GENESIS_HASH ELSE prev.event_hash
    IN  [sequence |-> Cardinality(events),
         body |-> event_body,
         previous_event_hash |-> hash,
         event_hash |-> chain_hash(hash, event_body)]

new_event(prev, event_body) ==
    LET hash == IF prev = None THEN GENESIS_HASH ELSE prev.event_hash
    IN  [sequence |-> IF prev = None THEN 0 ELSE prev.sequence + 1,
         body |-> event_body,
         previous_event_hash |-> hash,
         event_hash |-> chain_hash(hash, event_body)]

append_event(w) ==
    /\ pc[w] = "append"
    /\ events' = events \cup {new_event(previous[w], body[w])}
    /\ pc' = [pc EXCEPT ![w] = "idle"]
    /\ body' = [body EXCEPT ![w] = None]
    /\ previous' = [previous EXCEPT ![w] = None]
    /\ UNCHANGED <<calls, tampered>>

(* Somebody rewrites the body of a stored row, as the tamper test does; 0  *)
(* is a body no call has.                                                  *)
tamper(e) ==
    /\ e.body # 0
    /\ events' = (events \ {e}) \cup {[e EXCEPT !.body = 0]}
    /\ tampered' = TRUE
    /\ UNCHANGED <<pc, body, previous, calls>>

Next ==
    \/ \E w \in Writers : read_latest(w) \/ append_event(w)
    \/ \E e \in events : tamper(e)

Spec == Init /\ [][Next]_vars

-----------------------------------------------------------------------------
(* Mutant: the links are compared, but no hash is computed again.          *)
verify_links(list) ==
    \A i \in DOMAIN list :
        list[i].previous_event_hash = IF i = 1 THEN GENESIS_HASH ELSE list[i - 1].event_hash

(* verify_chain over a list of rows.                                       *)
verify_chain(list) ==
    \A i \in DOMAIN list :
        LET hash == IF i = 1 THEN GENESIS_HASH ELSE list[i - 1].event_hash
        IN  /\ list[i].previous_event_hash = hash
            /\ chain_hash(hash, list[i].body) = list[i].event_hash

(* get_timeline lists the rows by ascending sequence; rows of the same     *)
(* sequence come in any order.                                             *)
timelines ==
    {list \in [1..Cardinality(events) -> events] :
       \A i, j \in DOMAIN list : i < j => /\ list[i] # list[j]
                                          /\ list[i].sequence <= list[j].sequence}

-----------------------------------------------------------------------------
Bodies == 0..MaxCalls

Event == [sequence : Nat, body : Bodies, previous_event_hash : Seq(Bodies),
          event_hash : Seq(Bodies)]

(* The rows and the writers' locals keep their types.                      *)
TypeOK ==
    /\ events \subseteq Event
    /\ pc \in [Writers -> {"idle", "append"}]
    /\ body \in [Writers -> Bodies \cup {None}]
    /\ previous \in [Writers -> Event \cup {None}]
    /\ calls \in 0..MaxCalls
    /\ tampered \in BOOLEAN

(* Every row continues some stored row by one, or opens the trace: a       *)
(* reader that stalls between its read and its commit may fork the chain,  *)
(* but never leaves a gap or a dangling predecessor, tampered bodies or no.*)
EveryEventHasItsPredecessor ==
    \A e \in events :
        \/ e.sequence = 0 /\ e.previous_event_hash = GENESIS_HASH
        \/ \E f \in events : /\ f.sequence + 1 = e.sequence
                             /\ f.event_hash = e.previous_event_hash

linear == \A e, f \in events : e.sequence = f.sequence => e = f

(* chain_valid means what it says, whichever order the database gives rows *)
(* of one sequence: the timeline verifies exactly when no body was         *)
(* rewritten and no two appends raced.                                     *)
VerifiesExactlyWhenIntactAndLinear ==
    \A list \in timelines : verify_chain(list) <=> ~tampered /\ linear

(* A trace nobody tampered with verifies.                                  *)
IntactTraceVerifies ==
    ~tampered => \A list \in timelines : verify_chain(list)

=============================================================================
