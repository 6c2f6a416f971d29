-------------------------- MODULE TraceEngineProofs --------------------------
(***************************************************************************)
(* The trace store for any number of writers and calls: types, that racing *)
(* appends and rewritten bodies never leave a gap in the sequence, and     *)
(* what verify_chain tells about a timeline.                               *)
(***************************************************************************)
EXTENDS TraceEngine, TLAPS, SequenceTheorems, FiniteSetTheorems

(* What a stalled writer has read is still there, in all but its body.     *)
ReadIsStored ==
    \A w \in Writers :
        /\ pc[w] = "append" => body[w] \in Bodies
        /\ previous[w] # None =>
              /\ previous[w] \in Event
              /\ \E f \in events : /\ f.sequence = previous[w].sequence
                                   /\ f.event_hash = previous[w].event_hash

IInv == TypeOK /\ ReadIsStored /\ EveryEventHasItsPredecessor

(* The row a writer builds on what it has read.                            *)
LEMMA NewEventType ==
    ASSUME NEW prev, prev # None => prev \in Event, NEW b \in Bodies
    PROVE  /\ new_event(prev, b) \in Event
           /\ prev = None => /\ new_event(prev, b).sequence = 0
                             /\ new_event(prev, b).previous_event_hash = GENESIS_HASH
           /\ prev # None => /\ new_event(prev, b).sequence = prev.sequence + 1
                             /\ new_event(prev, b).previous_event_hash = prev.event_hash
<1>1. CASE prev = None
  <2>1. <<>> \in Seq(Bodies) /\ Append(<<>>, b) \in Seq(Bodies)
    BY AppendProperties
  <2>2. QED
    BY <1>1, <2>1 DEF new_event, GENESIS_HASH, chain_hash, Event
<1>2. CASE prev # None
  <2>1. prev.event_hash \in Seq(Bodies) /\ prev.sequence \in Nat
    BY <1>2 DEF Event
  <2>2. Append(prev.event_hash, b) \in Seq(Bodies)
    BY <2>1, AppendProperties
  <2>3. QED
    BY <1>2, <2>1, <2>2 DEF new_event, chain_hash, Event
<1>3. QED
  BY <1>1, <1>2

LEMMA InitEstablishes == Init => IInv
<1> SUFFICES ASSUME Init PROVE IInv
  OBVIOUS
<1>1. 0 \in 0..MaxCalls
  BY CallsAssumption
<1>2. TypeOK
  BY <1>1 DEF Init, TypeOK
<1>3. ReadIsStored /\ EveryEventHasItsPredecessor
  BY DEF Init, ReadIsStored, EveryEventHasItsPredecessor
<1>4. QED
  BY <1>2, <1>3 DEF IInv

LEMMA ReadStep == ASSUME IInv, NEW w \in Writers, read_latest(w) PROVE IInv'
<1>1. events' = events /\ calls' = calls + 1 /\ calls < MaxCalls /\ tampered' = tampered
  BY DEF read_latest
<1>2. calls + 1 \in Bodies /\ calls + 1 \in 0..MaxCalls
  BY <1>1, CallsAssumption DEF Bodies, IInv, TypeOK
<1>3. PICK e \in events \cup {None} : previous' = [previous EXCEPT ![w] = e]
  BY DEF read_latest, latest_events
<1>4. TypeOK'
  BY <1>1, <1>2, <1>3 DEF read_latest, IInv, TypeOK
<1>5. ReadIsStored'
  <2>1. ASSUME NEW v \in Writers, v # w
        PROVE pc'[v] = pc[v] /\ body'[v] = body[v] /\ previous'[v] = previous[v]
    BY <2>1, <1>3 DEF read_latest, IInv, TypeOK
  <2>2. body'[w] \in Bodies /\ previous'[w] = e
    BY <1>2, <1>3 DEF read_latest, IInv, TypeOK
  <2>3. e # None => e \in Event
    BY DEF IInv, TypeOK
  <2>4. QED
    BY <1>1, <2>1, <2>2, <2>3 DEF ReadIsStored, IInv
<1>6. EveryEventHasItsPredecessor'
  BY <1>1 DEF EveryEventHasItsPredecessor, IInv
<1>7. QED
  BY <1>4, <1>5, <1>6 DEF IInv

LEMMA AppendStep == ASSUME IInv, NEW w \in Writers, append_event(w) PROVE IInv'
<1> DEFINE prev == previous[w]
           e == new_event(prev, body[w])
<1>1. /\ events' = events \cup {e} /\ calls' = calls /\ tampered' = tampered
      /\ pc' = [pc EXCEPT ![w] = "idle"] /\ body' = [body EXCEPT ![w] = None]
      /\ previous' = [previous EXCEPT ![w] = None]
  BY DEF append_event
<1>2. /\ body[w] \in Bodies
      /\ prev # None =>
            /\ prev \in Event
            /\ \E f \in events : f.sequence = prev.sequence /\ f.event_hash = prev.event_hash
  BY DEF append_event, IInv, ReadIsStored
<1>3. /\ e \in Event
      /\ prev = None => e.sequence = 0 /\ e.previous_event_hash = GENESIS_HASH
      /\ prev # None => /\ e.sequence = prev.sequence + 1
                        /\ e.previous_event_hash = prev.event_hash
  BY <1>2, NewEventType
<1> HIDE DEF e, prev
<1>4. TypeOK'
  BY <1>1, <1>3 DEF IInv, TypeOK
<1>5. ReadIsStored'
  BY <1>1 DEF ReadIsStored, IInv, TypeOK
<1>6. EveryEventHasItsPredecessor'
  BY <1>1, <1>2, <1>3 DEF EveryEventHasItsPredecessor, IInv
<1>7. QED
  BY <1>4, <1>5, <1>6 DEF IInv

LEMMA TamperStep == ASSUME IInv, NEW e \in events, tamper(e) PROVE IInv'
<1> DEFINE t == [e EXCEPT !.body = 0]
<1>1. /\ events' = (events \ {e}) \cup {t} /\ tampered' = TRUE
      /\ pc' = pc /\ body' = body /\ previous' = previous /\ calls' = calls
  BY DEF tamper
<1>2. /\ e \in Event /\ t \in Event /\ t.sequence = e.sequence /\ t.event_hash = e.event_hash
      /\ t.previous_event_hash = e.previous_event_hash
  <2>1. e \in Event
    BY DEF IInv, TypeOK
  <2>2. 0 \in Bodies
    BY CallsAssumption DEF Bodies
  <2>3. QED
    BY <2>1, <2>2 DEF Event
<1> HIDE DEF t
<1>3. \A f \in events : \E g \in events' : f.sequence = g.sequence /\ f.event_hash = g.event_hash
  BY <1>1, <1>2
<1>4. TypeOK'
  BY <1>1, <1>2 DEF IInv, TypeOK
<1>5. ReadIsStored'
  BY <1>1, <1>3 DEF ReadIsStored, IInv
<1>6. EveryEventHasItsPredecessor'
  <2>1. ASSUME NEW g \in events'
        PROVE \E f \in events : /\ g.sequence = f.sequence
                                /\ g.previous_event_hash = f.previous_event_hash
    BY <1>1, <1>2
  <2>2. QED
    BY <1>3, <2>1 DEF EveryEventHasItsPredecessor, IInv
<1>7. QED
  BY <1>4, <1>5, <1>6 DEF IInv

(* The invariant of the store, of which the next two theorems are parts.   *)
THEOREM Invariance == Spec => []IInv
<1>1. IInv /\ [Next]_vars => IInv'
  <2>1. ASSUME IInv, UNCHANGED vars PROVE IInv'
    BY <2>1 DEF IInv, TypeOK, ReadIsStored, EveryEventHasItsPredecessor, vars
  <2>2. QED
    BY <2>1, ReadStep, AppendStep, TamperStep DEF Next
<1>2. QED
  BY <1>1, InitEstablishes, PTL DEF Spec

(* The rows and the writers' locals keep their types.                      *)
THEOREM TypeCorrectness == Spec => []TypeOK
<1>1. IInv => TypeOK
  BY DEF IInv
<1>2. QED
  BY <1>1, Invariance, PTL

(* However many writers race, every row continues a stored row by one or   *)
(* opens the trace: forks are possible, gaps are not.                      *)
THEOREM NoGaps == Spec => []EveryEventHasItsPredecessor
<1>1. IInv => EveryEventHasItsPredecessor
  BY DEF IInv
<1>2. QED
  BY <1>1, Invariance, PTL

-----------------------------------------------------------------------------
(* What verify_chain tells.  A row's hash was computed once, over the body *)
(* of the call that appended it; only the body may have been rewritten.    *)
HashedOnce(e) ==
    /\ Len(e.previous_event_hash) = e.sequence
    /\ \E b \in 1..MaxCalls : /\ e.event_hash = Append(e.previous_event_hash, b)
                             /\ e.body \in {0, b}

CInv ==
    /\ IsFiniteSet(events)
    /\ \A e \in events : HashedOnce(e)
    /\ \A w \in Writers : /\ pc[w] = "append" => body[w] # 0
                          /\ previous[w] # None => HashedOnce(previous[w])
    /\ tampered = TRUE <=> \E e \in events : e.body = 0

(* A row built on one that was hashed once is hashed once, and is intact.  *)
LEMMA NewEventHash ==
    ASSUME NEW prev, prev # None => prev \in Event /\ HashedOnce(prev),
           NEW b \in 1..MaxCalls
    PROVE  HashedOnce(new_event(prev, b)) /\ new_event(prev, b).body = b
<1> DEFINE hash == IF prev = None THEN GENESIS_HASH ELSE prev.event_hash
           n == IF prev = None THEN 0 ELSE prev.sequence + 1
<1>1. hash \in Seq(Bodies) /\ Len(hash) = n
  <2>1. CASE prev = None
    BY <2>1 DEF GENESIS_HASH
  <2>2. CASE prev # None
    <3>1. PICK c \in 1..MaxCalls : prev.event_hash = Append(prev.previous_event_hash, c)
      BY <2>2 DEF HashedOnce
    <3>2. prev.previous_event_hash \in Seq(Bodies) /\ c \in Bodies
      BY <2>2, CallsAssumption DEF Event, Bodies
    <3>3. Len(prev.event_hash) = Len(prev.previous_event_hash) + 1
      BY <3>1, <3>2, AppendProperties
    <3>4. QED
      BY <2>2, <3>3 DEF HashedOnce, Event
  <2>3. QED
    BY <2>1, <2>2
<1>2. new_event(prev, b) = [sequence |-> n, body |-> b, previous_event_hash |-> hash,
                            event_hash |-> Append(hash, b)]
  BY DEF new_event, chain_hash
<1> HIDE DEF hash, n
<1>3. QED
  BY <1>1, <1>2 DEF HashedOnce

LEMMA InitHashed == Init => CInv
BY FS_EmptySet DEF Init, CInv

LEMMA ReadHashed == ASSUME IInv, CInv, NEW w \in Writers, read_latest(w) PROVE CInv'
<1>1. events' = events /\ calls < MaxCalls /\ tampered' = tampered
      /\ body' = [body EXCEPT ![w] = calls + 1]
  BY DEF read_latest
<1>2. calls + 1 # 0
  BY <1>1, CallsAssumption DEF IInv, TypeOK
<1>3. PICK e \in events \cup {None} : previous' = [previous EXCEPT ![w] = e]
  BY DEF read_latest, latest_events
<1>4. \A v \in Writers : v # w =>
         pc'[v] = pc[v] /\ body'[v] = body[v] /\ previous'[v] = previous[v]
  BY <1>1, <1>3 DEF read_latest, IInv, TypeOK
<1>5. body'[w] = calls + 1 /\ previous'[w] = e
  BY <1>1, <1>3 DEF IInv, TypeOK
<1>6. e # None => HashedOnce(e)
  BY DEF CInv
<1>7. \A v \in Writers : /\ pc'[v] = "append" => body'[v] # 0
                         /\ previous'[v] # None => HashedOnce(previous'[v])
  BY <1>2, <1>4, <1>5, <1>6 DEF CInv
<1>8. \A f \in events' : HashedOnce(f)
  BY <1>1 DEF CInv
<1>9. IsFiniteSet(events') /\ (tampered' = TRUE <=> \E f \in events' : f.body = 0)
  BY <1>1 DEF CInv
<1>10. QED
  BY <1>7, <1>8, <1>9 DEF CInv

LEMMA AppendHashed == ASSUME IInv, CInv, NEW w \in Writers, append_event(w) PROVE CInv'
<1> DEFINE prev == previous[w]
           e == new_event(prev, body[w])
<1>1. /\ events' = events \cup {e} /\ tampered' = tampered
      /\ pc' = [pc EXCEPT ![w] = "idle"] /\ body' = [body EXCEPT ![w] = None]
      /\ previous' = [previous EXCEPT ![w] = None]
  BY DEF append_event
<1>2. body[w] \in 1..MaxCalls
  BY CallsAssumption DEF append_event, IInv, ReadIsStored, CInv, Bodies
<1>3. prev # None => prev \in Event /\ HashedOnce(prev)
  BY DEF IInv, ReadIsStored, CInv
<1>4. HashedOnce(e) /\ e.body = body[w]
  BY <1>2, <1>3, NewEventHash
<1>5. e.body # 0
  BY <1>2, <1>4
<1> HIDE DEF e, prev
<1>6. IsFiniteSet(events')
  BY <1>1, FS_AddElement DEF CInv
<1>7. \A v \in Writers : /\ pc'[v] = "append" => body'[v] # 0
                         /\ previous'[v] # None => HashedOnce(previous'[v])
  BY <1>1 DEF CInv, IInv, TypeOK
<1>8. \A f \in events' : HashedOnce(f)
  BY <1>1, <1>4 DEF CInv
<1>9. tampered' = TRUE <=> \E f \in events' : f.body = 0
  BY <1>1, <1>5 DEF CInv
<1>10. QED
  BY <1>6, <1>7, <1>8, <1>9 DEF CInv

LEMMA TamperHashed == ASSUME IInv, CInv, NEW e \in events, tamper(e) PROVE CInv'
<1> DEFINE t == [e EXCEPT !.body = 0]
<1>1. /\ events' = (events \ {e}) \cup {t} /\ tampered' = TRUE
      /\ pc' = pc /\ body' = body /\ previous' = previous
  BY DEF tamper
<1>2. /\ t.body = 0 /\ t.sequence = e.sequence /\ t.event_hash = e.event_hash
      /\ t.previous_event_hash = e.previous_event_hash
  BY DEF IInv, TypeOK, Event
<1> HIDE DEF t
<1>3. HashedOnce(t)
  BY <1>2 DEF CInv, HashedOnce
<1>4. IsFiniteSet(events')
  BY <1>1, FS_AddElement, FS_RemoveElement DEF CInv
<1>5. \A f \in events' : HashedOnce(f)
  BY <1>1, <1>3 DEF CInv
<1>6. QED
  BY <1>1, <1>2, <1>4, <1>5 DEF CInv

THEOREM HashInvariance == Spec => [](IInv /\ CInv)
<1>1. IInv /\ CInv /\ [Next]_vars => CInv'
  <2>1. ASSUME IInv, CInv, UNCHANGED vars PROVE CInv'
    BY <2>1 DEF CInv, HashedOnce, vars
  <2>2. QED
    BY <2>1, ReadHashed, AppendHashed, TamperHashed DEF Next
<1>2. QED
  BY <1>1, InitHashed, Invariance, PTL DEF Spec

(* A timeline is every stored row once, by ascending sequence.             *)
LEMMA TimelineIsBijection ==
    ASSUME CInv, NEW list \in timelines
    PROVE  LET n == Cardinality(events) IN
           /\ n \in Nat /\ DOMAIN list = 1..n
           /\ \A i \in 1..n : list[i] \in events
           /\ \A e \in events : \E i \in 1..n : list[i] = e
           /\ \A i, j \in 1..n : i < j =>
                 list[i] # list[j] /\ list[i].sequence <= list[j].sequence
<1> DEFINE n == Cardinality(events)
<1>1. n \in Nat
  BY FS_CardinalityType DEF CInv
<1>2. /\ list \in [1..n -> events]
      /\ \A i, j \in 1..n : i < j =>
            list[i] # list[j] /\ list[i].sequence <= list[j].sequence
  BY DEF timelines
<1>3. IsFiniteSet(1..n) /\ Cardinality(1..n) = n
  BY <1>1, FS_Interval
<1> HIDE DEF n
<1>4. \A i, j \in 1..n : list[i] = list[j] => i = j
  BY <1>1, <1>2
<1>5. list \in Injection(1..n, events)
  BY <1>2, <1>4 DEF Injection, IsInjective
<1>6. list \in Surjection(1..n, events)
  BY <1>3, <1>5, FS_Injection DEF CInv, n
<1>7. \A e \in events : \E i \in 1..n : list[i] = e
  BY <1>6 DEF Surjection
<1>8. QED
  BY <1>1, <1>2, <1>7 DEF n

(* Of an intact trace without forks, row i continues row i - 1.            *)
LEMMA IntactLinearVerifies ==
    ASSUME IInv, CInv, ~tampered, linear, NEW list \in timelines
    PROVE  verify_chain(list)
<1> DEFINE n == Cardinality(events)
<1>1. /\ n \in Nat /\ DOMAIN list = 1..n
      /\ \A i \in 1..n : list[i] \in events
      /\ \A e \in events : \E i \in 1..n : list[i] = e
      /\ \A i, j \in 1..n : i < j =>
            list[i] # list[j] /\ list[i].sequence <= list[j].sequence
  BY TimelineIsBijection
<1> HIDE DEF n
<1>2. \A e \in events : e.sequence \in Nat
  BY DEF IInv, TypeOK, Event
<1>3. \A i, j \in 1..n : i < j => list[i].sequence < list[j].sequence
  BY <1>1, <1>2 DEF linear
<1>4. \A e \in events : e.event_hash = Append(e.previous_event_hash, e.body)
  BY DEF CInv, HashedOnce
<1>5. ASSUME NEW i \in 1..n
      PROVE  list[i].previous_event_hash
               = IF i = 1 THEN GENESIS_HASH ELSE list[i - 1].event_hash
  <2>1. CASE list[i].sequence = 0 /\ list[i].previous_event_hash = GENESIS_HASH
    <3>1. i # 1 => 1 \in 1..n /\ 1 < i
      BY <1>1
    <3>2. i = 1
      BY <1>1, <1>2, <1>3, <2>1, <3>1
    <3>3. QED
      BY <2>1, <3>2
  <2>2. ASSUME NEW f \in events, f.sequence + 1 = list[i].sequence,
               f.event_hash = list[i].previous_event_hash
        PROVE  i # 1 /\ f = list[i - 1]
    <3>1. PICK j \in 1..n : list[j] = f
      BY <1>1
    <3>2. j < i
      BY <1>1, <1>2, <1>3, <2>2, <3>1
    <3>3. i - 1 \in 1..n /\ i # 1
      BY <1>1, <3>2
    <3>4. ~ (j < i - 1)
      <4>1. SUFFICES ASSUME j < i - 1 PROVE FALSE
        OBVIOUS
      <4>2. list[j].sequence < list[i - 1].sequence /\ list[i - 1].sequence < list[i].sequence
        BY <1>1, <1>3, <3>3, <4>1
      <4>3. list[j].sequence \in Nat /\ list[i - 1].sequence \in Nat
        BY <1>1, <1>2, <3>3
      <4>4. QED
        BY <2>2, <3>1, <4>2, <4>3
    <3>5. j = i - 1
      BY <1>1, <3>2, <3>4
    <3>6. QED
      BY <3>1, <3>3, <3>5
  <2>3. list[i] \in events
    BY <1>1
  <2>4. QED
    BY <2>1, <2>2, <2>3 DEF IInv, EveryEventHasItsPredecessor
<1>6. QED
  BY <1>1, <1>4, <1>5 DEF verify_chain, chain_hash

(* A list that verifies recomputes every hash, and numbers no two rows     *)
(* alike, since a row is as long a history as its sequence says.           *)
LEMMA VerifiedIsIntactAndLinear ==
    ASSUME IInv, CInv, NEW list \in timelines, verify_chain(list)
    PROVE  ~tampered /\ linear
<1> DEFINE n == Cardinality(events)
<1>1. /\ n \in Nat /\ DOMAIN list = 1..n
      /\ \A i \in 1..n : list[i] \in events
      /\ \A e \in events : \E i \in 1..n : list[i] = e
      /\ \A i, j \in 1..n : i < j =>
            list[i] # list[j] /\ list[i].sequence <= list[j].sequence
  BY TimelineIsBijection
<1> HIDE DEF n
<1>2. \A e \in events : /\ e.previous_event_hash \in Seq(Bodies)
                       /\ e.body \in Bodies /\ e.sequence \in Nat
                       /\ Len(e.previous_event_hash) = e.sequence
  BY DEF IInv, TypeOK, Event, CInv, HashedOnce
<1>3. \A i \in 1..n :
         /\ list[i].previous_event_hash
               = IF i = 1 THEN GENESIS_HASH ELSE list[i - 1].event_hash
         /\ list[i].event_hash = Append(list[i].previous_event_hash, list[i].body)
  BY <1>1 DEF verify_chain, chain_hash
<1>4. ~tampered
  <2>1. SUFFICES ASSUME NEW e \in events, e.body = 0 PROVE FALSE
    BY DEF CInv
  <2>2. PICK b \in 1..MaxCalls : e.event_hash = Append(e.previous_event_hash, b)
    BY DEF CInv, HashedOnce
  <2>3. e.event_hash = Append(e.previous_event_hash, 0)
    BY <1>1, <1>3, <2>1
  <2>4. b \in Bodies /\ 0 \in Bodies /\ b # 0
    BY CallsAssumption DEF Bodies
  <2>5. e.previous_event_hash \in Seq(Bodies)
    BY <1>2
  <2>6. QED
    <3>1. Append(e.previous_event_hash, b) = Append(e.previous_event_hash, 0)
      BY <2>2, <2>3
    <3>2. Append(e.previous_event_hash, b)[Len(e.previous_event_hash) + 1] = b
      BY <2>4, <2>5, AppendProperties
    <3>3. Append(e.previous_event_hash, 0)[Len(e.previous_event_hash) + 1] = 0
      BY <2>4, <2>5, AppendProperties
    <3>4. QED
      BY <2>4, <3>1, <3>2, <3>3
<1>5. ASSUME NEW i \in 1..n, NEW j \in 1..n, i < j PROVE list[i].sequence # list[j].sequence
  <2>1. SUFFICES ASSUME list[i].sequence = list[j].sequence PROVE FALSE
    OBVIOUS
  <2>2. i + 1 \in 1..n /\ (i + 1) - 1 = i /\ i + 1 # 1
    BY <1>1, <1>5
  <2>3. list[i].sequence <= list[i + 1].sequence /\ list[i + 1].sequence <= list[j].sequence
    BY <1>1, <1>2, <1>5, <2>1, <2>2
  <2>4. list[i + 1].sequence = list[i].sequence
    BY <1>1, <1>2, <2>1, <2>2, <2>3
  <2>5. list[i + 1].previous_event_hash = Append(list[i].previous_event_hash, list[i].body)
    BY <1>3, <2>2
  <2>6. Len(list[i + 1].previous_event_hash) = Len(list[i].previous_event_hash) + 1
    BY <1>1, <1>2, <2>2, <2>5, AppendProperties
  <2>7. QED
    BY <1>1, <1>2, <2>2, <2>4, <2>6
<1>6. linear
  <2>1. SUFFICES ASSUME NEW e \in events, NEW f \in events, e.sequence = f.sequence
                 PROVE  e = f
    BY DEF linear
  <2>2. PICK i \in 1..n, j \in 1..n : list[i] = e /\ list[j] = f
    BY <1>1
  <2>3. QED
    BY <1>1, <1>5, <2>1, <2>2
<1>7. QED
  BY <1>4, <1>6

(* chain_valid means what it says, in whichever order the database lists   *)
(* rows of one sequence: a timeline verifies exactly when no body was      *)
(* rewritten and no two appends raced.                                     *)
THEOREM VerificationIsExact == Spec => []VerifiesExactlyWhenIntactAndLinear
<1>1. IInv /\ CInv => VerifiesExactlyWhenIntactAndLinear
  BY IntactLinearVerifies, VerifiedIsIntactAndLinear DEF VerifiesExactlyWhenIntactAndLinear
<1>2. QED
  BY <1>1, HashInvariance, PTL

=============================================================================
