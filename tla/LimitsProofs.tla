---------------------------- MODULE LimitsProofs ----------------------------
(***************************************************************************)
(* Proofs about the two modules that limit how often the backend does a    *)
(* thing: CircuitBreaker (calls of an external service that fails) and     *)
(* Geofence (notices to one user). They share no state and no names.       *)
(***************************************************************************)
EXTENDS CircuitBreaker, Geofence, FiniteSetTheorems, TLAPS

(* A call that finds no entry gets an object no other call holds. *)
LEMMA FreeCircuit ==
  ASSUME TypeOK, stored = NoCircuit, NEW s \in Calls, ~Active(s)
  PROVE  \E d \in Circuits : d \notin InUse
<1> DEFINE A == {t \in Calls : Active(t)}
           U == {call[t].circuit : t \in A}
           f == [t \in A |-> call[t].circuit]
<1>1. f \in Surjection(A, U)
  BY DEF Surjection
<1>2. IsFiniteSet(A) /\ Cardinality(A) <= Cardinality(Calls)
  <2>1. A \in SUBSET Calls
    OBVIOUS
  <2>2. QED
    BY <2>1, FS_Subset, CircuitAssumption
<1>3. IsFiniteSet(U) /\ Cardinality(U) <= Cardinality(A)
  BY <1>1, <1>2, FS_Surjection
<1>4. U # Circuits
  <2>1. Cardinality(U) \in Nat /\ Cardinality(A) \in Nat /\ Cardinality(Calls) \in Nat
        /\ Cardinality(Circuits) \in Nat
    BY <1>2, <1>3, FS_CardinalityType, CircuitAssumption
  <2>2. Cardinality(U) < Cardinality(Circuits)
    <3> HIDE DEF U, A
    <3> QED
      BY <2>1, <1>2, <1>3, CircuitAssumption
  <2>3. QED
    BY <2>1, <2>2
<1>5. U \subseteq Circuits
  BY DEF TypeOK
<1>6. PICK d \in Circuits : d \notin U
  BY <1>4, <1>5
<1>7. QED
  BY <1>6, CircuitAssumption DEF InUse

LEMMA TypeInit == Init => TypeOK
<1> SUFFICES ASSUME Init PROVE TypeOK
  OBVIOUS
<1>1. Circuits # {}
  BY CircuitAssumption, FS_EmptySet, FS_CardinalityType
<1>2. AnyCircuit \in Circuits
  BY <1>1 DEF AnyCircuit
<1>3. NewCircuit \in Circuit /\ NoCall \in [circuit : Circuits, attempt : 0 .. MaxRetries]
  BY <1>2, CircuitAssumption DEF NewCircuit, Circuit, NoCall
<1>4. QED
  BY <1>3 DEF Init, TypeOK

LEMMA NoCallTyped ==
  NoCall \in [circuit : Circuits, attempt : 0 .. MaxRetries]
<1>1. Circuits # {}
  BY CircuitAssumption, FS_EmptySet, FS_CardinalityType
<1>2. AnyCircuit \in Circuits
  BY <1>1 DEF AnyCircuit
<1>3. QED
  BY <1>2, CircuitAssumption DEF NoCall

LEMMA NewCircuitTyped == NewCircuit \in Circuit
BY CircuitAssumption DEF NewCircuit, Circuit

(* What one handler does to the objects keeps them circuits. *)
LEMMA CircuitsTyped ==
  ASSUME NEW c \in Circuit
  PROVE  /\ Succeeded(c) \in Circuit
         /\ Exhausted(c) \in Circuit
         /\ Age(c) \in Circuit
         /\ [c EXCEPT !.isOpen = FALSE] \in Circuit
<1>1. /\ c = [failures |-> c.failures, sinceFailure |-> c.sinceFailure, isOpen |-> c.isOpen]
      /\ c.failures \in 0 .. Threshold /\ c.sinceFailure \in 0 .. ResetTimeout
      /\ c.isOpen \in BOOLEAN
  BY DEF Circuit
<1>2. CountedUp(c.failures) \in 0 .. Threshold
  BY <1>1, CircuitAssumption DEF CountedUp
<1>3. Exhausted(c) \in Circuit
  <2>1. (IF CountedUp(c.failures) >= Threshold THEN TRUE ELSE c.isOpen) \in BOOLEAN
    BY <1>1
  <2>2. 0 \in 0 .. ResetTimeout
    BY CircuitAssumption
  <2>3. QED
    BY <1>2, <2>1, <2>2 DEF Exhausted, Circuit
<1>4. Age(c) \in Circuit
  BY <1>1, CircuitAssumption DEF Age, Circuit
<1>5. Succeeded(c) \in Circuit
  <2> DEFINE d == [c EXCEPT !.failures = 0]
  <2>1. d \in Circuit
    BY <1>1, CircuitAssumption DEF Circuit
  <2>2. Succeeded(c) = [d EXCEPT !.isOpen = FALSE]
    BY DEF Succeeded
  <2> HIDE DEF d
  <2>3. QED
    BY <2>1, <2>2 DEF Circuit
<1>6. [c EXCEPT !.isOpen = FALSE] \in Circuit
  BY <1>1 DEF Circuit
<1>7. QED
  BY <1>3, <1>4, <1>5, <1>6

LEMMA TypeNext == TypeOK /\ [Next]_vars => TypeOK'
<1> SUFFICES ASSUME TypeOK, [Next]_vars PROVE TypeOK'
  OBVIOUS
<1> USE DEF TypeOK
<1>1. CASE Tick
  BY <1>1, CircuitsTyped DEF Tick
<1>2. CASE Heal
  BY <1>2 DEF Heal
<1>3. ASSUME NEW s \in Calls, StartFresh(s) PROVE TypeOK'
  <2> DEFINE c == CHOOSE d \in Circuits \ InUse : TRUE
  <2>1. c \in Circuits
    BY <1>3, FreeCircuit DEF StartFresh
  <2>2. heap' = [heap EXCEPT ![c] = NewCircuit] /\ Begin(s, c)
    BY <1>3 DEF StartFresh
  <2> HIDE DEF c
  <2>3. heap' \in [Circuits -> Circuit]
    BY <2>1, <2>2, NewCircuitTyped
  <2>4. call' \in [Calls -> [circuit : Circuits, attempt : 0 .. MaxRetries]]
    BY <1>3, <2>1, <2>2, CircuitAssumption DEF Begin
  <2>5. QED
    BY <1>3, <2>3, <2>4 DEF StartFresh
<1>4. ASSUME NEW s \in Calls, StartClosed(s) PROVE TypeOK'
  BY <1>4, CircuitAssumption DEF StartClosed, Begin
<1>5. ASSUME NEW s \in Calls, StartHalfOpen(s) PROVE TypeOK'
  <2>1. stored \in Circuits
    BY <1>5 DEF StartHalfOpen
  <2>2. heap' \in [Circuits -> Circuit]
    BY <1>5, <2>1 DEF StartHalfOpen, Circuit
  <2>3. call' \in [Calls -> [circuit : Circuits, attempt : 0 .. MaxRetries]]
    BY <1>5, <2>1, CircuitAssumption DEF StartHalfOpen, Begin
  <2>4. QED
    BY <1>5, <2>2, <2>3 DEF StartHalfOpen
<1>6. ASSUME NEW s \in Calls, Succeed(s) PROVE TypeOK'
  <2>1. heap' \in [Circuits -> Circuit] /\ stored' \in Circuits \cup {NoCircuit}
    <3>1. call[s].circuit \in Circuits
      OBVIOUS
    <3>2. CASE heap[call[s].circuit].failures > 0
      <4>1. heap' = [heap EXCEPT ![call[s].circuit] = Succeeded(heap[call[s].circuit])]
            /\ stored' = call[s].circuit
        BY <1>6, <3>2 DEF Succeed
      <4>2. Succeeded(heap[call[s].circuit]) \in Circuit
        BY <3>1, CircuitsTyped
      <4>3. QED
        BY <3>1, <4>1, <4>2
    <3>3. CASE ~(heap[call[s].circuit].failures > 0)
      BY <1>6, <3>3 DEF Succeed
    <3>4. QED
      BY <3>2, <3>3
  <2>2. call' \in [Calls -> [circuit : Circuits, attempt : 0 .. MaxRetries]]
    BY <1>6, NoCallTyped DEF Succeed, EndCall
  <2>3. QED
    BY <1>6, <2>1, <2>2 DEF Succeed
<1>7. ASSUME NEW s \in Calls, Retry(s) PROVE TypeOK'
  BY <1>7, CircuitAssumption DEF Retry
<1>8. ASSUME NEW s \in Calls, GiveUp(s) PROVE TypeOK'
  <2>1. heap' \in [Circuits -> Circuit] /\ stored' \in Circuits \cup {NoCircuit}
    BY <1>8, CircuitsTyped DEF GiveUp
  <2>2. call' \in [Calls -> [circuit : Circuits, attempt : 0 .. MaxRetries]]
    BY <1>8, NoCallTyped DEF GiveUp, EndCall
  <2>3. QED
    BY <1>8, <2>1, <2>2 DEF GiveUp
<1>9. CASE UNCHANGED vars
  BY <1>9 DEF vars
<1>10. QED
  BY <1>1, <1>2, <1>3, <1>4, <1>5, <1>6, <1>7, <1>8, <1>9 DEF Next, Start, Finish

(* Every reachable state of the circuits and calls is well typed. *)
THEOREM BreakerTyped == Spec => []TypeOK
BY TypeInit, TypeNext, PTL DEF Spec

-----------------------------------------------------------------------------
(* Every write of a circuit object keeps isOpen and failures together. *)
LEMMA EarnedKept ==
  ASSUME NEW c \in Circuit, c.isOpen => c.failures = Threshold
  PROVE  /\ Succeeded(c).isOpen = FALSE
         /\ Exhausted(c).isOpen => Exhausted(c).failures = Threshold
         /\ Age(c).isOpen => Age(c).failures = Threshold
<1>1. Succeeded(c).isOpen = FALSE
  BY DEF Circuit, Succeeded
<1>2. Exhausted(c).isOpen => Exhausted(c).failures = Threshold
  BY CircuitAssumption DEF Circuit, Exhausted, CountedUp
<1>3. Age(c).isOpen = c.isOpen /\ Age(c).failures = c.failures
  BY DEF Circuit, Age
<1>4. QED
  BY <1>1, <1>2, <1>3

LEMMA EarnedNext == TypeOK /\ OpenIsEarned /\ [Next]_vars => OpenIsEarned'
<1> SUFFICES ASSUME TypeOK, OpenIsEarned, [Next]_vars,
                    NEW c \in Circuits, heap'[c].isOpen
             PROVE  heap'[c].failures = Threshold
  BY DEF OpenIsEarned
<1>0. /\ heap[c] \in Circuit
      /\ heap[c].isOpen => heap[c].failures = Threshold
      /\ heap \in [Circuits -> Circuit]
  BY DEF TypeOK, OpenIsEarned
<1>1. CASE Tick
  BY <1>0, <1>1, EarnedKept DEF Tick
<1>2. CASE heap' = heap
  BY <1>0, <1>2
<1>3. ASSUME NEW s \in Calls, StartFresh(s) PROVE heap'[c].failures = Threshold
  BY <1>0, <1>3 DEF StartFresh, NewCircuit
<1>4. ASSUME NEW s \in Calls, StartHalfOpen(s) PROVE heap'[c].failures = Threshold
  BY <1>0, <1>4 DEF StartHalfOpen, Circuit
<1>5. ASSUME NEW s \in Calls, Succeed(s), heap' # heap PROVE heap'[c].failures = Threshold
  <2>1. heap' = [heap EXCEPT ![call[s].circuit] = Succeeded(heap[call[s].circuit])]
    BY <1>5 DEF Succeed
  <2>2. QED
    BY <1>0, <2>1, EarnedKept
<1>6. ASSUME NEW s \in Calls, GiveUp(s) PROVE heap'[c].failures = Threshold
  <2>1. heap' = [heap EXCEPT ![call[s].circuit] = Exhausted(heap[call[s].circuit])]
    BY <1>6 DEF GiveUp
  <2>2. QED
    BY <1>0, <2>1, EarnedKept
<1>7. QED
  BY <1>1, <1>2, <1>3, <1>4, <1>5, <1>6
     DEF Next, Start, Finish, Heal, StartClosed, Retry, vars

(* However calls overlap, a circuit object refuses calls only while it       *)
(* remembers Threshold failures: late answers and late failures write        *)
(* failures and isOpen of one object together.                               *)
THEOREM RefusalIsEarned == Spec => []OpenIsEarned
<1>1. Init => OpenIsEarned
  BY DEF Init, OpenIsEarned, NewCircuit
<1>2. QED
  BY <1>1, TypeInit, TypeNext, EarnedNext, PTL DEF Spec

-----------------------------------------------------------------------------
(* One caller at a time *)

(* A call holds the object in the map, and not an open one; before there is  *)
(* an entry, it holds an object without failures.                            *)
SoloInv ==
  \A s \in Calls : Active(s) =>
    IF stored = NoCircuit
      THEN heap[call[s].circuit].failures = 0 /\ ~heap[call[s].circuit].isOpen
      ELSE call[s].circuit = stored /\ ~heap[stored].isOpen

NoOverlap == \A s, t \in Calls : s = t

LEMMA SoloNext ==
  NoOverlap /\ TypeOK /\ SoloInv /\ [Next]_vars => SoloInv'
<1> SUFFICES ASSUME NoOverlap, TypeOK, SoloInv, [Next]_vars, NEW s \in Calls, Active(s)'
             PROVE  IF stored' = NoCircuit
                      THEN heap'[call'[s].circuit].failures = 0 /\ ~heap'[call'[s].circuit].isOpen
                      ELSE call'[s].circuit = stored' /\ ~heap'[stored'].isOpen
  BY DEF SoloInv
<1> DEFINE G == IF stored' = NoCircuit
                  THEN heap'[call'[s].circuit].failures = 0 /\ ~heap'[call'[s].circuit].isOpen
                  ELSE call'[s].circuit = stored' /\ ~heap'[stored'].isOpen
<1>0. /\ \A t \in Calls : t = s
      /\ heap \in [Circuits -> Circuit]
      /\ stored \in Circuits \cup {NoCircuit}
      /\ call \in [Calls -> [circuit : Circuits, attempt : 0 .. MaxRetries]]
      /\ NoCircuit \notin Circuits
  BY CircuitAssumption DEF NoOverlap, TypeOK
<1>1. CASE Tick
  <2>1. Active(s) /\ UNCHANGED <<stored, call>>
    BY <1>1 DEF Tick, Active
  <2>2. \A c \in Circuits : heap'[c].failures = heap[c].failures /\ heap'[c].isOpen = heap[c].isOpen
    BY <1>0, <1>1 DEF Tick, Age, Circuit
  <2>3. call[s].circuit \in Circuits
    BY <1>0
  <2>4. QED
    BY <1>0, <2>1, <2>2, <2>3 DEF SoloInv
<1>2. CASE Heal \/ UNCHANGED vars
  BY <1>2 DEF Heal, vars, SoloInv, Active
<1>3. ASSUME StartFresh(s) PROVE G
  <2> DEFINE c == CHOOSE d \in Circuits \ InUse : TRUE
  <2>1. c \in Circuits
    BY <1>3, FreeCircuit DEF StartFresh
  <2>2. heap' = [heap EXCEPT ![c] = NewCircuit] /\ Begin(s, c) /\ stored' = NoCircuit
    BY <1>3 DEF StartFresh
  <2> HIDE DEF c
  <2>3. call'[s].circuit = c /\ heap'[c] = NewCircuit
    BY <1>0, <2>1, <2>2 DEF Begin
  <2>4. QED
    BY <2>2, <2>3 DEF NewCircuit
<1>4. ASSUME StartClosed(s) PROVE G
  BY <1>0, <1>4 DEF StartClosed, Begin
<1>5. ASSUME StartHalfOpen(s) PROVE G
  <2>1. stored \in Circuits /\ stored' = stored /\ call'[s].circuit = stored
    BY <1>0, <1>5 DEF StartHalfOpen, Begin
  <2>2. heap'[stored].isOpen = FALSE
    BY <1>0, <1>5, <2>1 DEF StartHalfOpen, Circuit
  <2>3. QED
    BY <1>0, <2>1, <2>2
<1>6. ASSUME Succeed(s) \/ GiveUp(s) PROVE FALSE
  BY <1>0, <1>6 DEF Succeed, GiveUp, EndCall, NoCall, Active
<1>7. ASSUME Retry(s) PROVE G
  <2>1. Active(s) /\ call'[s].circuit = call[s].circuit /\ UNCHANGED <<heap, stored>>
    BY <1>0, <1>7 DEF Retry, Active
  <2>2. QED
    BY <2>1 DEF SoloInv
<1>8. QED
  <2>1. [Next]_vars => \/ Tick \/ Heal \/ UNCHANGED vars
                       \/ \E t \in Calls : Start(t) \/ Finish(t)
    BY DEF Next
  <2>2. QED
    BY <1>0, <1>1, <1>2, <1>3, <1>4, <1>5, <1>6, <1>7, <2>1 DEF Start, Finish

(* The state of Breaker that a state of the circuits stands for *)
Row == IF stored = NoCircuit THEN 0 ELSE heap[stored].failures
Refuse == IF Open THEN ResetTimeout - heap[stored].sinceFailure ELSE 0
Busy == \E s \in Calls : Active(s)

LEMMA PromiseStep ==
  NoOverlap /\ TypeOK /\ OpenIsEarned /\ SoloInv /\ [Next]_vars => [Promise!Next]_(Promise!vars)
<1> SUFFICES ASSUME NoOverlap, TypeOK, OpenIsEarned, SoloInv, [Next]_vars
             PROVE  [Promise!Next]_(Promise!vars)
  OBVIOUS
<1>0. /\ \A s, t \in Calls : t = s
      /\ heap \in [Circuits -> Circuit]
      /\ stored \in Circuits \cup {NoCircuit}
      /\ call \in [Calls -> [circuit : Circuits, attempt : 0 .. MaxRetries]]
      /\ NoCircuit \notin Circuits
  BY CircuitAssumption DEF NoOverlap, TypeOK
<1>a. UNCHANGED <<Row, Refuse, Busy>> => UNCHANGED Promise!vars
  BY DEF Row, Refuse, Busy, Promise!vars
<1>b. (~Busy /\ Refuse = 0 /\ Busy' = TRUE /\ UNCHANGED <<Row, Refuse>>) => Promise!Next
  BY DEF Row, Refuse, Busy, Promise!LetThrough, Promise!Next
<1>c. (Busy /\ Busy' = FALSE /\ Row' = 0 /\ UNCHANGED Refuse) => Promise!Next
  BY DEF Row, Refuse, Busy, Promise!Answered, Promise!Next
<1>d. (/\ Busy /\ Busy' = FALSE
       /\ Row' = IF Row < Threshold THEN Row + 1 ELSE Row
       /\ Refuse' = IF Row' = Threshold THEN ResetTimeout ELSE 0) => Promise!Next
  BY DEF Row, Refuse, Busy, Promise!Failed, Promise!Next
<1>e. (Refuse > 0 /\ Refuse' = Refuse - 1 /\ UNCHANGED <<Row, Busy>>) => Promise!Next
  BY DEF Row, Refuse, Busy, Promise!Wait, Promise!Next
<1>1. CASE Tick
  <2>1. UNCHANGED <<stored, call>> /\ UNCHANGED Busy
    BY <1>1 DEF Tick, Busy, Active
  <2>2. CASE stored = NoCircuit
    BY <2>1, <2>2, <1>a DEF Row, Refuse, Open
  <2>3. CASE stored # NoCircuit
    <3>1. stored \in Circuits /\ heap'[stored] = Age(heap[stored]) /\ heap[stored] \in Circuit
      BY <1>0, <1>1, <2>3 DEF Tick
    <3>2. /\ heap'[stored].failures = heap[stored].failures
          /\ heap'[stored].isOpen = heap[stored].isOpen
          /\ heap'[stored].sinceFailure = IF heap[stored].sinceFailure < ResetTimeout
               THEN heap[stored].sinceFailure + 1 ELSE heap[stored].sinceFailure
          /\ heap[stored].sinceFailure \in 0 .. ResetTimeout
      BY <3>1 DEF Age, Circuit
    <3>3. UNCHANGED Row
      BY <2>1, <3>2 DEF Row
    <3>4. CASE Open /\ heap[stored].sinceFailure < ResetTimeout
      <4>1. Refuse > 0 /\ Refuse' = Refuse - 1
        BY <2>1, <2>3, <3>2, <3>4, CircuitAssumption DEF Refuse, Open
      <4>2. QED
        BY <2>1, <3>3, <4>1, <1>e
    <3>5. CASE ~(Open /\ heap[stored].sinceFailure < ResetTimeout)
      <4>1. UNCHANGED Refuse
        BY <2>1, <2>3, <3>2, <3>5 DEF Refuse, Open
      <4>2. QED
        BY <2>1, <3>3, <4>1, <1>a
    <3>6. QED
      BY <3>4, <3>5
  <2>4. QED
    BY <2>2, <2>3
<1>2. CASE Heal \/ UNCHANGED vars
  BY <1>2, <1>a DEF Heal, vars, Row, Refuse, Busy, Open, Active
<1>3. ASSUME NEW s \in Calls, Start(s) PROVE Promise!Next
  <2>1. ~Busy
    BY <1>0, <1>3 DEF Busy, Start, StartFresh, StartClosed, StartHalfOpen
  <2>2. Busy'
    <3>1. \E c : Begin(s, c)
      BY <1>3 DEF Start, StartFresh, StartClosed, StartHalfOpen
    <3>2. call'[s].attempt = 1
      BY <1>0, <3>1 DEF Begin
    <3>3. QED
      BY <3>2 DEF Busy, Active
  <2>3. UNCHANGED stored
    BY <1>3 DEF Start, StartFresh, StartClosed, StartHalfOpen
  <2>4. Refuse = 0 /\ UNCHANGED <<Row, Refuse>>
    <3>1. CASE StartFresh(s)
      BY <2>3, <3>1 DEF StartFresh, Row, Refuse, Open
    <3>2. CASE StartClosed(s)
      BY <2>3, <3>2 DEF StartClosed, Row, Refuse, Open
    <3>3. CASE StartHalfOpen(s)
      <4>1. stored \in Circuits /\ heap[stored] \in Circuit /\ heap[stored].sinceFailure >= ResetTimeout
        BY <1>0, <3>3 DEF StartHalfOpen, Elapsed
      <4>2. heap'[stored].isOpen = FALSE /\ heap'[stored].failures = heap[stored].failures
        BY <1>0, <3>3, <4>1 DEF StartHalfOpen, Circuit
      <4>3. heap[stored].sinceFailure = ResetTimeout
        BY <4>1, CircuitAssumption DEF Circuit
      <4>4. QED
        BY <1>0, <2>3, <4>1, <4>2, <4>3, CircuitAssumption DEF Row, Refuse, Open
    <3>4. QED
      BY <1>3, <3>1, <3>2, <3>3 DEF Start
  <2>5. QED
    BY <2>1, <2>2, <2>4, <1>b
<1>4. ASSUME NEW s \in Calls, EndCall(s), Active(s) PROVE Busy /\ Busy' = FALSE
  BY <1>0, <1>4 DEF Busy, EndCall, NoCall, Active
<1>5. ASSUME NEW s \in Calls, Succeed(s) PROVE Promise!Next
  <2>1. Busy /\ Busy' = FALSE
    BY <1>4, <1>5 DEF Succeed
  <2>2. Row' = 0 /\ UNCHANGED Refuse
    <3>1. Active(s) /\ call[s].circuit \in Circuits
      BY <1>0, <1>5 DEF Succeed
    <3>2. CASE stored = NoCircuit
      BY <1>0, <1>5, <3>1, <3>2 DEF Succeed, SoloInv, Row, Refuse, Open
    <3>3. CASE stored # NoCircuit
      <4>1. /\ call[s].circuit = stored /\ ~heap[stored].isOpen
            /\ stored \in Circuits /\ heap[stored] \in Circuit
        BY <1>0, <3>1, <3>3 DEF SoloInv
      <4>2. CASE heap[stored].failures > 0
        <5>1. stored' = stored /\ heap'[stored] = Succeeded(heap[stored])
          BY <1>0, <1>5, <4>1, <4>2 DEF Succeed
        <5>2. heap'[stored].failures = 0 /\ heap'[stored].isOpen = FALSE
          BY <4>1, <5>1 DEF Succeeded, Circuit
        <5>3. QED
          BY <3>3, <4>1, <5>1, <5>2 DEF Row, Refuse, Open
      <4>3. CASE ~(heap[stored].failures > 0)
        <5>1. UNCHANGED <<stored, heap>> /\ heap[stored].failures = 0
          BY <1>5, <4>1, <4>3, CircuitAssumption DEF Succeed, Circuit
        <5>2. QED
          BY <3>3, <4>1, <5>1 DEF Row, Refuse, Open
      <4>4. QED
        BY <4>2, <4>3
    <3>4. QED
      BY <3>2, <3>3
  <2>3. QED
    BY <2>1, <2>2, <1>c
<1>6. ASSUME NEW s \in Calls, Retry(s) PROVE UNCHANGED Promise!vars
  <2>1. Active(s) /\ call'[s].attempt = call[s].attempt + 1
    BY <1>0, <1>6 DEF Retry
  <2>2. Active(s)'
    BY <1>0, <2>1, CircuitAssumption DEF Active
  <2>3. Busy' = Busy
    BY <2>1, <2>2 DEF Busy
  <2>4. UNCHANGED <<heap, stored>>
    BY <1>6 DEF Retry
  <2>5. QED
    BY <2>3, <2>4, <1>a DEF Row, Refuse, Open
<1>7. ASSUME NEW s \in Calls, GiveUp(s) PROVE Promise!Next
  <2> DEFINE c == call[s].circuit
  <2>1. Busy /\ Busy' = FALSE
    BY <1>4, <1>7 DEF GiveUp
  <2>2. /\ Active(s) /\ c \in Circuits /\ heap[c] \in Circuit
        /\ stored' = c /\ heap'[c] = Exhausted(heap[c])
    BY <1>0, <1>7 DEF GiveUp
  <2>3. Row = heap[c].failures /\ ~heap[c].isOpen
    BY <1>0, <2>2 DEF SoloInv, Row
  <2>4. /\ heap'[c].failures = CountedUp(Row)
        /\ heap'[c].sinceFailure = 0
        /\ heap'[c].isOpen = IF CountedUp(Row) >= Threshold THEN TRUE ELSE heap[c].isOpen
    BY <2>2, <2>3 DEF Exhausted
  <2>5. CountedUp(Row) \in 0 .. Threshold
    BY <2>2, <2>3, CircuitAssumption DEF CountedUp, Circuit
  <2>6. Row' = CountedUp(Row)
    BY <1>0, <2>2, <2>4 DEF Row
  <2>7. Refuse' = IF Row' = Threshold THEN ResetTimeout ELSE 0
    <3> HIDE DEF c
    <3>1. CASE CountedUp(Row) = Threshold
      BY <1>0, <2>2, <2>4, <2>6, <3>1, CircuitAssumption DEF Refuse, Open
    <3>2. CASE CountedUp(Row) # Threshold
      BY <1>0, <2>2, <2>3, <2>4, <2>5, <2>6, <3>2, CircuitAssumption DEF Refuse, Open
    <3>3. QED
      BY <3>1, <3>2
  <2>8. QED
    BY <2>1, <2>6, <2>7, <1>d DEF CountedUp
<1>8. QED
  BY <1>1, <1>2, <1>3, <1>5, <1>6, <1>7 DEF Next, Finish

(* One caller at a time gets what module Breaker promises: Threshold failed  *)
(* calls in a row, however far apart, open the circuit for the whole reset   *)
(* time, and nothing else does.                                              *)
THEOREM OneCallerKeepsPromise ==
  ASSUME NoOverlap
  PROVE  Spec => KeepsPromise
<1>1. Init => Promise!Init /\ OpenIsEarned /\ SoloInv
  BY DEF Init, Promise!Init, OpenIsEarned, SoloInv, NewCircuit, NoCall, Active, Open
<1>2. QED
  BY <1>1, TypeInit, TypeNext, EarnedNext, SoloNext, PromiseStep, PTL
     DEF Spec, KeepsPromise, Promise!Spec

-----------------------------------------------------------------------------
(* Geofence: the log follows the notices.                                    *)

(* Notices are numbered in order, and a log carries the number of a notice.  *)
Numbered ==
  /\ IsFiniteSet(notices) /\ IsFiniteSet(logs)
  /\ \A n \in notices : n.id < NextId /\ n.at <= now
  /\ \A m, n \in notices : m.id = n.id => m = n
  /\ \A l \in logs : l.id < NextId
  /\ \A l \in logs, n \in notices : l.id = n.id => l.venue = n.venue /\ n.at <= l.at

(* Only a check about to write a log has a notice without one, its last; and *)
(* a check visits the venue it notifies once.                                *)
InHand ==
  \A s \in Slots :
    /\ Pending(s) # {} => req[s].pc = "log"
    /\ \A n \in Pending(s) : n.venue = req[s].venue
    /\ \A m, n \in Pending(s) : m = n
    /\ req[s].pc \in {"notify", "log"} => req[s].venue \in req[s].todo
    /\ req[s].pc = "idle" => req[s].todo = {}
    /\ Cardinality(req[s].todo) <= MaxNear

(* A check about to notify has found the cooldown over since its last notice *)
(* of the venue.                                                             *)
Cooled ==
  \A s \in Slots : req[s].pc = "notify" =>
    \A m \in notices \ lost :
      m.by = s /\ m.venue = req[s].venue => now - m.at >= Cooldown

GeofenceInv ==
  GeofenceTypeOK /\ Numbered /\ InHand /\ Cooled /\ CooldownUnlessRaced

LEMMA NextIdType == GeofenceInv => NextId \in Nat
  BY FS_CardinalityType DEF GeofenceInv, Numbered, NextId

(* What a slot does next: it goes to idle, or on with fewer venues.          *)
LEMMA VisitTyped ==
  ASSUME NEW todo \in SUBSET Venues, Cardinality(todo) <= MaxNear
  PROVE  /\ Visit(todo) \in Req
         /\ Visit(todo).pc \in {"idle", "cooldown"}
         /\ Visit(todo).todo = todo
         /\ Visit(todo).pc = "idle" => todo = {}
  BY DEF Visit, IdleReq, Req

LEMMA FewerVenues ==
  ASSUME NEW todo \in SUBSET Venues, NEW v, Cardinality(todo) <= MaxNear
  PROVE  todo \ {v} \in SUBSET Venues /\ Cardinality(todo \ {v}) <= MaxNear
<1>1. IsFiniteSet(todo)
  BY FS_Subset, GeofenceAssumption
<1>2. Cardinality(todo) \in Nat
  BY <1>1, FS_CardinalityType
<1>3. Cardinality(todo \ {v}) = IF v \in todo THEN Cardinality(todo) - 1 ELSE Cardinality(todo)
  BY <1>1, FS_RemoveElement
<1>4. QED
  BY <1>2, <1>3, GeofenceAssumption

(* A step that changes the request of one slot only, which had no notice in  *)
(* hand and gets to a place where it needs none.                             *)
LEMMA SlotMoves ==
  ASSUME GeofenceInv, NEW s \in Slots, NEW r \in Req,
         req' = [req EXCEPT ![s] = r],
         UNCHANGED <<now, notices, logs, lost>>,
         req[s].pc # "log", r.pc # "log",
         r.pc = "notify" => r.venue \in r.todo,
         r.pc = "idle" => r.todo = {},
         Cardinality(r.todo) <= MaxNear,
         r.pc = "notify" => \A m \in notices \ lost :
           m.by = s /\ m.venue = r.venue => now - m.at >= Cooldown
  PROVE  GeofenceInv'
<1>1. GeofenceTypeOK'
  BY DEF GeofenceInv, GeofenceTypeOK
<1>2. Numbered' /\ CooldownUnlessRaced'
  BY DEF GeofenceInv, Numbered, NextId, CooldownUnlessRaced
<1>3. \A x \in Slots : Pending(x)' = Pending(x)
  BY DEF Pending
<1>4. Pending(s) = {}
  BY DEF GeofenceInv, InHand
<1>5. req'[s] = r /\ \A x \in Slots : x # s => req'[x] = req[x]
  BY DEF GeofenceInv, GeofenceTypeOK
<1>6. InHand'
  BY <1>3, <1>4, <1>5 DEF GeofenceInv, InHand
<1>7. Cooled'
  BY <1>5 DEF GeofenceInv, Cooled
<1>8. QED
  BY <1>1, <1>2, <1>6, <1>7 DEF GeofenceInv

LEMMA GeofenceStart == GeofenceInit => GeofenceInv
<1> SUFFICES ASSUME GeofenceInit PROVE GeofenceInv
  OBVIOUS
<1>1. GeofenceTypeOK
  BY GeofenceAssumption DEF GeofenceInit, GeofenceTypeOK, IdleReq, Req, Instants
<1>2. Numbered
  BY FS_EmptySet DEF GeofenceInit, Numbered
<1>3. InHand
  BY FS_EmptySet, GeofenceAssumption DEF GeofenceInit, InHand, Pending, IdleReq
<1>4. Cooled /\ CooldownUnlessRaced
  BY DEF GeofenceInit, Cooled, CooldownUnlessRaced
<1>5. QED
  BY <1>1, <1>2, <1>3, <1>4 DEF GeofenceInv

LEMMA GeofenceStep == GeofenceInv /\ [GeofenceNext]_geofenceVars => GeofenceInv'
<1> SUFFICES ASSUME GeofenceInv, [GeofenceNext]_geofenceVars PROVE GeofenceInv'
  OBVIOUS
<1>1. ASSUME NEW s \in Slots, NEW near \in Near, CheckGeofence(s, near)
      PROVE  GeofenceInv'
  <2>1. near \in SUBSET Venues /\ Cardinality(near) <= MaxNear
    BY DEF Near
  <2>2. {} \in SUBSET Venues /\ Cardinality({}) <= MaxNear
    BY FS_EmptySet, GeofenceAssumption
  <2>3. IdleReq = Visit({})
    BY DEF Visit
  <2>4. /\ UNCHANGED <<now, notices, logs, lost>> /\ req[s].pc = "idle"
        /\ \/ req' = [req EXCEPT ![s] = Visit({})]
           \/ req' = [req EXCEPT ![s] = Visit(near)]
    BY <1>1, <2>3 DEF CheckGeofence
  <2>5. QED
    BY <2>1, <2>2, <2>4, VisitTyped, SlotMoves
<1>2. ASSUME NEW s \in Slots, NEW v \in Venues, CheckCooldown(s, v)
      PROVE  GeofenceInv'
  <2>1. /\ req[s] \in Req /\ req[s].pc = "cooldown" /\ v \in req[s].todo
        /\ req[s].todo \in SUBSET Venues /\ Cardinality(req[s].todo) <= MaxNear
        /\ UNCHANGED <<now, notices, logs, lost>>
    BY <1>2 DEF CheckCooldown, GeofenceInv, GeofenceTypeOK, InHand, Req
  <2>2. CASE Cooling(v)
    <3>1. req' = [req EXCEPT ![s] = Visit(req[s].todo \ {v})]
      BY <1>2, <2>2 DEF CheckCooldown
    <3>2. QED
      BY <2>1, <3>1, FewerVenues, VisitTyped, SlotMoves
  <2>3. CASE ~Cooling(v)
    <3> DEFINE r == [req[s] EXCEPT !.pc = "notify", !.venue = v]
    <3>1. req' = [req EXCEPT ![s] = r]
      BY <1>2, <2>3 DEF CheckCooldown
    <3>2. r \in Req /\ r.pc = "notify" /\ r.venue = v /\ r.todo = req[s].todo
      BY <2>1 DEF Req
    <3> HIDE DEF r
    <3>3. ASSUME NEW m \in notices \ lost, m.by = s, m.venue = v
          PROVE  now - m.at >= Cooldown
      <4>1. m \notin Pending(s)
        BY <2>1 DEF GeofenceInv, InHand
      <4>2. PICK l \in logs : l.id = m.id
        BY <3>3, <4>1 DEF Pending
      <4>3. l.venue = v /\ m.at <= l.at
        BY <3>3, <4>2 DEF GeofenceInv, Numbered
      <4>4. ~(l.at > now - Cooldown)
        BY <2>3, <4>3 DEF Cooling, Recent
      <4>5. l.at \in Nat /\ m.at \in Nat /\ now \in Nat /\ Cooldown \in Nat
        BY GeofenceAssumption DEF GeofenceInv, GeofenceTypeOK, Notice, Log, Instants
      <4>6. QED
        BY <4>3, <4>4, <4>5
    <3>4. QED
      BY <2>1, <3>1, <3>2, <3>3, SlotMoves
  <2>4. QED
    BY <2>2, <2>3
<1>3. ASSUME NEW s \in Slots, Notify(s)
      PROVE  GeofenceInv'
  <2> DEFINE v == req[s].venue
             new == [id |-> NextId, venue |-> v, at |-> now, by |-> s]
             r == [req[s] EXCEPT !.pc = "log"]
  <2>1. /\ req[s] \in Req /\ req[s].pc = "notify" /\ v \in req[s].todo
        /\ v \in Venues /\ UNCHANGED <<now, logs, lost>>
        /\ notices' = notices \cup {new} /\ req' = [req EXCEPT ![s] = r]
    BY <1>3 DEF Notify, GeofenceInv, GeofenceTypeOK, InHand, Req
  <2>2. new.id = NextId /\ new.venue = v /\ new.at = now /\ new.by = s
    OBVIOUS
  <2>3. r \in Req /\ r.pc = "log" /\ r.venue = v /\ r.todo = req[s].todo
    BY <2>1 DEF Req
  <2>4. new \in Notice
    BY <2>1, NextIdType DEF Notice, GeofenceInv, GeofenceTypeOK
  <2> HIDE DEF new, r
  <2>5. new \notin notices /\ NextId \in Nat
    BY <2>2, NextIdType DEF GeofenceInv, Numbered
  <2>6. NextId' = NextId + 1 /\ IsFiniteSet(notices')
    BY <2>1, <2>5, FS_AddElement DEF NextId, GeofenceInv, Numbered
  <2>7. GeofenceTypeOK'
    BY <2>1, <2>3, <2>4 DEF GeofenceInv, GeofenceTypeOK
  <2>t. /\ now \in Nat
        /\ \A n \in notices : n.id \in Nat /\ n.at \in Nat
        /\ \A l \in logs : l.id \in Nat /\ l.at \in Nat
    BY DEF GeofenceInv, GeofenceTypeOK, Notice, Log, Instants
  <2>8. Numbered'
    <3>1. \A n \in notices' : n.id < NextId' /\ n.at <= now'
      BY <2>1, <2>2, <2>5, <2>6, <2>t DEF GeofenceInv, Numbered
    <3>2. \A m, n \in notices' : m.id = n.id => m = n
      BY <2>1, <2>2, <2>5, <2>t DEF GeofenceInv, Numbered
    <3>3. \A l \in logs' : l.id < NextId'
      BY <2>1, <2>5, <2>6, <2>t DEF GeofenceInv, Numbered
    <3>4. \A l \in logs', n \in notices' : l.id = n.id => l.venue = n.venue /\ n.at <= l.at
      BY <2>1, <2>2, <2>5, <2>t DEF GeofenceInv, Numbered
    <3>5. QED
      BY <2>1, <2>6, <3>1, <3>2, <3>3, <3>4 DEF GeofenceInv, Numbered
  <2>9. req'[s] = r /\ \A x \in Slots : x # s => req'[x] = req[x]
    BY <2>1 DEF GeofenceInv, GeofenceTypeOK
  <2>10. Pending(s) = {}
    BY <2>1 DEF GeofenceInv, InHand
  <2>11. Pending(s)' \subseteq {new}
    BY <2>1, <2>10 DEF Pending
  <2>12. \A x \in Slots : x # s => Pending(x)' = Pending(x)
    BY <2>1, <2>2 DEF Pending
  <2>13. InHand'
    BY <2>1, <2>2, <2>3, <2>9, <2>11, <2>12 DEF GeofenceInv, InHand
  <2>14. Cooled'
    BY <2>1, <2>2, <2>3, <2>9 DEF GeofenceInv, Cooled
  <2>15. CooldownUnlessRaced'
    <3> SUFFICES ASSUME NEW m \in notices', NEW n \in notices',
                        m.id < n.id, m.venue = n.venue, m.by = n.by, m \notin lost'
                 PROVE  n.at - m.at >= Cooldown
      BY DEF CooldownUnlessRaced
    <3>1. CASE n \in notices
      <4>1. m # new
        BY <2>2, <2>5, <2>t, <3>1 DEF GeofenceInv, Numbered
      <4>2. QED
        BY <2>1, <3>1, <4>1 DEF GeofenceInv, CooldownUnlessRaced
    <3>2. CASE n = new
      <4>1. m # new
        BY <2>2, <2>5, <3>2
      <4>2. QED
        BY <2>1, <2>2, <3>2, <4>1 DEF GeofenceInv, Cooled
    <3>3. QED
      BY <2>1, <3>1, <3>2
  <2>16. QED
    BY <2>7, <2>8, <2>13, <2>14, <2>15 DEF GeofenceInv
<1>4. ASSUME NEW s \in Slots, WriteLog(s)
      PROVE  GeofenceInv'
  <2> DEFINE v == req[s].venue
             entry(n) == [id |-> n.id, venue |-> v, at |-> now]
             r == Visit(req[s].todo \ {v})
  <2>1. /\ req[s] \in Req /\ req[s].pc = "log" /\ v \in req[s].todo /\ v \in Venues
        /\ req[s].todo \in SUBSET Venues /\ Cardinality(req[s].todo) <= MaxNear
        /\ UNCHANGED <<now, notices, lost>>
        /\ req' = [req EXCEPT ![s] = r]
        /\ logs' = logs \cup {entry(n) : n \in Pending(s)}
    BY <1>4 DEF WriteLog, GeofenceInv, GeofenceTypeOK, InHand, Req
  <2>2. /\ r \in Req /\ r.pc \in {"idle", "cooldown"}
        /\ r.pc = "idle" => r.todo = {}
        /\ Cardinality(r.todo) <= MaxNear
    BY <2>1, FewerVenues, VisitTyped
  <2>3. \A n \in Pending(s) : /\ n \in notices /\ n \in Notice /\ n.venue = v
                              /\ entry(n) \in Log
                              /\ entry(n).id = n.id /\ entry(n).venue = v /\ entry(n).at = now
    BY <2>1 DEF GeofenceInv, GeofenceTypeOK, InHand, Pending, Notice, Log
  <2>4. \A l \in logs' : l \in logs \/ \E n \in Pending(s) : l = entry(n)
    BY <2>1
  <2>5. \A n \in Pending(s) : entry(n) \in logs'
    BY <2>1
  <2>f. IsFiniteSet(logs')
    <3>1. CASE Pending(s) = {}
      BY <2>1, <3>1 DEF GeofenceInv, Numbered
    <3>2. ASSUME NEW n \in Pending(s) PROVE IsFiniteSet(logs')
      <4>1. \A m \in Pending(s) : m = n
        BY DEF GeofenceInv, InHand
      <4>2. logs' = logs \cup {entry(n)}
        BY <2>1, <4>1
      <4>3. QED
        BY <4>2, FS_AddElement DEF GeofenceInv, Numbered
    <3>3. QED
      BY <3>1, <3>2
  <2> HIDE DEF r, entry
  <2>6. GeofenceTypeOK'
    BY <2>1, <2>2, <2>3, <2>4 DEF GeofenceInv, GeofenceTypeOK
  <2>t. now \in Nat /\ \A n \in notices : n.id \in Nat /\ n.at \in Nat /\ n.at <= now
    BY DEF GeofenceInv, GeofenceTypeOK, Numbered, Notice, Instants
  <2>7. Numbered'
    <3>1. NextId' = NextId
      BY <2>1 DEF NextId
    <3>2. \A l \in logs' : l.id < NextId'
      BY <2>3, <2>4, <3>1 DEF GeofenceInv, Numbered
    <3>3. ASSUME NEW l \in logs', NEW n \in notices, l.id = n.id
          PROVE  l.venue = n.venue /\ n.at <= l.at
      <4>1. CASE l \in logs
        BY <3>3, <4>1 DEF GeofenceInv, Numbered
      <4>2. ASSUME NEW m \in Pending(s), l = entry(m)
            PROVE  l.venue = n.venue /\ n.at <= l.at
        <5>1. m = n
          BY <2>3, <3>3, <4>2 DEF GeofenceInv, Numbered
        <5>2. QED
          BY <2>3, <2>t, <4>2, <5>1
      <4>3. QED
        BY <2>4, <4>1, <4>2
    <3>4. QED
      BY <2>1, <2>f, <3>1, <3>2, <3>3 DEF GeofenceInv, Numbered
  <2>8. req'[s] = r /\ \A x \in Slots : x # s => req'[x] = req[x]
    BY <2>1 DEF GeofenceInv, GeofenceTypeOK
  <2>9. Pending(s)' = {}
    <3> SUFFICES ASSUME NEW n \in Pending(s)' PROVE FALSE
      OBVIOUS
    <3>1. n \in Pending(s)
      BY <2>1 DEF Pending
    <3>2. QED
      BY <2>3, <2>5, <3>1 DEF Pending
  <2>10. \A x \in Slots : Pending(x)' \subseteq Pending(x)
    BY <2>1 DEF Pending
  <2>11. InHand'
    BY <2>2, <2>8, <2>9, <2>10 DEF GeofenceInv, InHand
  <2>12. Cooled'
    BY <2>1, <2>2, <2>8 DEF GeofenceInv, Cooled
  <2>13. CooldownUnlessRaced'
    BY <2>1 DEF GeofenceInv, CooldownUnlessRaced
  <2>14. QED
    BY <2>6, <2>7, <2>11, <2>12, <2>13 DEF GeofenceInv
<1>5. ASSUME NEW s \in Slots, Fail(s)
      PROVE  GeofenceInv'
  <2>1. /\ UNCHANGED <<now, notices, logs>> /\ lost' = lost \cup Pending(s)
        /\ req' = [req EXCEPT ![s] = IdleReq]
    BY <1>5 DEF Fail
  <2>2. Pending(s) \subseteq notices
    BY DEF Pending
  <2>3. IdleReq \in Req /\ IdleReq.pc = "idle" /\ IdleReq.todo = {}
    BY DEF IdleReq, Req
  <2>4. GeofenceTypeOK'
    BY <2>1, <2>2, <2>3 DEF GeofenceInv, GeofenceTypeOK
  <2>5. Numbered'
    BY <2>1 DEF GeofenceInv, Numbered, NextId
  <2>6. req'[s] = IdleReq /\ \A x \in Slots : x # s => req'[x] = req[x]
    BY <2>1 DEF GeofenceInv, GeofenceTypeOK
  <2>7. Pending(s)' = {} /\ \A x \in Slots : Pending(x)' \subseteq Pending(x)
    BY <2>1 DEF Pending
  <2>8. Cardinality({}) <= MaxNear
    BY FS_EmptySet, GeofenceAssumption
  <2> DEFINE q == IdleReq
  <2>h. q.pc = "idle" /\ q.todo = {} /\ Cardinality(q.todo) <= MaxNear /\ req'[s] = q
    BY <2>3, <2>6, <2>8
  <2> HIDE DEF q
  <2>9. InHand'
    <3> DEFINE Kept(x) ==
          /\ Pending(x)' # {} => req'[x].pc = "log"
          /\ \A n \in Pending(x)' : n.venue = req'[x].venue
          /\ \A m, n \in Pending(x)' : m = n
          /\ req'[x].pc \in {"notify", "log"} => req'[x].venue \in req'[x].todo
          /\ req'[x].pc = "idle" => req'[x].todo = {}
          /\ Cardinality(req'[x].todo) <= MaxNear
    <3>1. Kept(s)
      BY <2>7, <2>h
    <3>2. ASSUME NEW x \in Slots, x # s PROVE Kept(x)
      <4>1. req'[x] = req[x] /\ Pending(x)' \subseteq Pending(x)
        BY <2>6, <2>7, <3>2
      <4>2. QED
        BY <4>1 DEF GeofenceInv, InHand
    <3>3. QED
      BY <3>1, <3>2 DEF InHand
  <2>10. Cooled' /\ CooldownUnlessRaced'
    BY <2>1, <2>3, <2>6 DEF GeofenceInv, Cooled, CooldownUnlessRaced
  <2>11. QED
    BY <2>4, <2>5, <2>9, <2>10 DEF GeofenceInv
<1>6. CASE GeofenceTick
  <2>1. UNCHANGED <<notices, logs, req, lost>> /\ now' = now + 1 /\ now < MaxNow
    BY <1>6 DEF GeofenceTick
  <2>2. GeofenceTypeOK' /\ now \in Nat
    <3>1. now \in Nat /\ now' \in Instants
      BY <2>1, GeofenceAssumption DEF GeofenceInv, GeofenceTypeOK, Instants
    <3>2. QED
      BY <2>1, <3>1 DEF GeofenceInv, GeofenceTypeOK
  <2>3. \A n \in notices : n.at \in Nat
    BY DEF GeofenceInv, GeofenceTypeOK, Notice, Instants
  <2>4. Numbered'
    BY <2>1, <2>2, <2>3 DEF GeofenceInv, Numbered, NextId
  <2>5. \A x \in Slots : Pending(x)' = Pending(x)
    BY <2>1 DEF Pending
  <2>6. InHand'
    BY <2>1, <2>5 DEF GeofenceInv, InHand
  <2>7. Cooled'
    BY <2>1, <2>2, <2>3, GeofenceAssumption DEF GeofenceInv, Cooled
  <2>8. CooldownUnlessRaced'
    BY <2>1 DEF GeofenceInv, CooldownUnlessRaced
  <2>9. QED
    BY <2>2, <2>4, <2>6, <2>7, <2>8 DEF GeofenceInv
<1>7. CASE UNCHANGED geofenceVars
  <2>1. UNCHANGED <<now, notices, logs, req, lost>>
    BY <1>7 DEF geofenceVars
  <2>2. \A x \in Slots : Pending(x)' = Pending(x)
    BY <2>1 DEF Pending
  <2>3. QED
    BY <2>1, <2>2 DEF GeofenceInv, GeofenceTypeOK, Numbered, NextId, InHand, Cooled,
                      CooldownUnlessRaced
<1>8. QED
  BY <1>1, <1>2, <1>3, <1>4, <1>5, <1>6, <1>7 DEF GeofenceNext, Check

(* One check, or checks that follow one another, never announce a venue      *)
(* twice within its cooldown, for any number of overlapping checks and       *)
(* venues, unless the log of the first notice was lost.                      *)
THEOREM CooldownIsKept == GeofenceSpec => []CooldownUnlessRaced
<1>1. GeofenceInv => CooldownUnlessRaced
  BY DEF GeofenceInv
<1>2. QED
  BY <1>1, GeofenceStart, GeofenceStep, PTL DEF GeofenceSpec

-----------------------------------------------------------------------------
(* Geofence: how many notices an hour can have.                              *)

(* The pairs of a slot and a value of its set are no more than the slots     *)
(* times the most values a set has.                                          *)
LEMMA PairsBounded ==
  ASSUME NEW k \in Nat, NEW f \in [Slots -> SUBSET Venues],
         \A s \in Slots : Cardinality(f[s]) <= k
  PROVE  LET P == {p \in Slots \X Venues : p[2] \in f[p[1]]}
         IN  IsFiniteSet(P) /\ Cardinality(P) <= Cardinality(Slots) * k
<1> DEFINE P == {p \in Slots \X Venues : p[2] \in f[p[1]]}
           Rank(s) == {h \in [f[s] -> 1 .. k] : \A x, y \in f[s] : h[x] = h[y] => x = y}
           rank == [s \in Slots |-> CHOOSE h \in Rank(s) : TRUE]
           F == [p \in P |-> <<p[1], rank[p[1]][p[2]]>>]
<1>1. ASSUME NEW s \in Slots PROVE rank[s] \in Rank(s)
  <2> DEFINE S == f[s]
             n == Cardinality(S)
  <2>1. IsFiniteSet(S)
    BY FS_Subset, GeofenceAssumption
  <2>2. n \in Nat /\ n <= k /\ ExistsBijection(1 .. n, S)
    BY <2>1, FS_CardinalityType
  <2> HIDE DEF S, n
  <2>3. PICK g \in [1 .. n -> S] :
          /\ \A a, b \in 1 .. n : g[a] = g[b] => a = b
          /\ \A x \in S : \E a \in 1 .. n : g[a] = x
    BY <2>2 DEF ExistsBijection, Bijection, Injection, Surjection, IsInjective
  <2> DEFINE h == [x \in S |-> CHOOSE a \in 1 .. n : g[a] = x]
  <2>4. \A x \in S : h[x] \in 1 .. n /\ g[h[x]] = x
    BY <2>3
  <2>5. 1 .. n \subseteq 1 .. k
    BY <2>2
  <2>6. h \in [S -> 1 .. k]
    BY <2>4, <2>5
  <2>7. \A x, y \in S : h[x] = h[y] => x = y
    BY <2>4
  <2> HIDE DEF h
  <2>8. h \in Rank(s)
    BY <2>6, <2>7 DEF S
  <2>9. QED
    BY <2>8
<1> HIDE DEF rank
<1>2. \A p \in P : rank[p[1]][p[2]] \in 1 .. k
  BY <1>1
<1>3. F \in [P -> Slots \X (1 .. k)]
  BY <1>2
<1>4. ASSUME NEW p \in P, NEW q \in P, F[p] = F[q] PROVE p = q
  <2>1. p[1] = q[1] /\ rank[p[1]][p[2]] = rank[q[1]][q[2]]
    BY <1>4
  <2>2. p[2] \in f[p[1]] /\ q[2] \in f[p[1]] /\ rank[p[1]] \in Rank(p[1])
    BY <1>1, <2>1
  <2>3. p[2] = q[2]
    BY <2>1, <2>2
  <2>4. p = <<p[1], p[2]>> /\ q = <<q[1], q[2]>>
    OBVIOUS
  <2>5. QED
    BY <2>1, <2>3, <2>4
<1>5. F \in Injection(P, Slots \X (1 .. k))
  BY <1>3, <1>4 DEF Injection, IsInjective
<1>6. IsFiniteSet(1 .. k) /\ Cardinality(1 .. k) = k
  BY FS_Interval
<1>7. IsFiniteSet(Slots \X (1 .. k)) /\ Cardinality(Slots \X (1 .. k)) = Cardinality(Slots) * k
  BY <1>6, FS_Product, GeofenceAssumption
<1> HIDE DEF F, P
<1>8. IsFiniteSet(P) /\ Cardinality(P) <= Cardinality(Slots) * k
  BY <1>5, <1>7, FS_Injection
<1>9. QED
  BY <1>8 DEF P

(* A set that can be told apart by values from another is no larger.         *)
LEMMA ToldApart ==
  ASSUME NEW S, NEW T, IsFiniteSet(T), NEW f \in [S -> T],
         \A x, y \in S : f[x] = f[y] => x = y
  PROVE  /\ IsFiniteSet(S) /\ Cardinality(S) \in Nat
         /\ Cardinality(T) \in Nat /\ Cardinality(S) <= Cardinality(T)
<1>1. f \in Injection(S, T)
  BY DEF Injection, IsInjective
<1>2. QED
  BY <1>1, FS_Injection, FS_CardinalityType

LEMMA PartSize ==
  ASSUME NEW S, IsFiniteSet(S), NEW T \in SUBSET S
  PROVE  /\ IsFiniteSet(T) /\ Cardinality(T) \in Nat
         /\ Cardinality(S) \in Nat /\ Cardinality(T) <= Cardinality(S)
  BY FS_Subset, FS_CardinalityType

LEMMA UnionSize ==
  ASSUME NEW A, NEW B, IsFiniteSet(A), IsFiniteSet(B)
  PROVE  /\ IsFiniteSet(A \cup B) /\ Cardinality(A \cup B) \in Nat
         /\ Cardinality(A \cup B) <= Cardinality(A) + Cardinality(B)
         /\ A \cap B = {} => Cardinality(A \cup B) = Cardinality(A) + Cardinality(B)
<1>1. /\ IsFiniteSet(A \cup B)
      /\ Cardinality(A \cup B) = Cardinality(A) + Cardinality(B) - Cardinality(A \cap B)
  BY FS_Union
<1>2. IsFiniteSet(A \cap B)
  BY FS_Intersection
<1>3. Cardinality(A \cap B) \in Nat /\ Cardinality(A) \in Nat /\ Cardinality(B) \in Nat
        /\ Cardinality(A \cup B) \in Nat
  BY <1>1, <1>2, FS_CardinalityType
<1>4. A \cap B = {} => Cardinality(A \cap B) = 0
  BY FS_EmptySet
<1>5. QED
  BY <1>1, <1>3, <1>4

(* The notices the checks in flight can still send, one per venue left.      *)
Left ==
  {p \in Slots \X Venues :
     /\ p[2] \in req[p[1]].todo
     /\ ~(req[p[1]].pc = "log" /\ p[2] = req[p[1]].venue)}
Budget == MaxPerHour - 1 + MaxNear * Cardinality(Slots)

(* Those of the last hour and those still to come are within the budget: a   *)
(* check starts only while the log has fewer than the limit, and what the    *)
(* log does not have is in hand or lost.                                     *)
HourInv ==
  /\ Cardinality(Recent(notices, Hour)) + Cardinality(Left) <= Budget + Cardinality(lost)
  /\ HourBounded

HourOf(t) == {n \in notices : n.at > t - Hour /\ n.at <= t}

LEMMA HourSizes ==
  ASSUME GeofenceInv
  PROVE  /\ Budget \in Int
         /\ IsFiniteSet(Left) /\ Cardinality(Left) \in Nat
         /\ IsFiniteSet(lost) /\ Cardinality(lost) \in Nat
         /\ IsFiniteSet(Recent(notices, Hour)) /\ Cardinality(Recent(notices, Hour)) \in Nat
         /\ IsFiniteSet(Recent(logs, Hour)) /\ Cardinality(Recent(logs, Hour)) \in Nat
         /\ \A t : IsFiniteSet(HourOf(t)) /\ Cardinality(HourOf(t)) \in Nat
<1>1. Left \in SUBSET (Slots \X Venues)
  BY DEF Left
<1>2. lost \in SUBSET notices /\ Recent(notices, Hour) \in SUBSET notices
        /\ Recent(logs, Hour) \in SUBSET logs /\ \A t : HourOf(t) \in SUBSET notices
  BY DEF GeofenceInv, GeofenceTypeOK, Recent, HourOf
<1>3. IsFiniteSet(Slots \X Venues) /\ IsFiniteSet(notices) /\ IsFiniteSet(logs)
  BY FS_Product, GeofenceAssumption DEF GeofenceInv, Numbered
<1>4. Budget \in Int
  BY FS_CardinalityType, GeofenceAssumption DEF Budget
<1>5. QED
  BY <1>1, <1>2, <1>3, <1>4, PartSize

(* A step that sends nothing, forgets no loss, and leaves no more to send    *)
(* nor to remember keeps the bound.                                          *)
LEMMA HourFrame ==
  ASSUME GeofenceInv, GeofenceInv', HourInv, notices' = notices,
         lost \subseteq lost', Left' \subseteq Left,
         Recent(notices, Hour)' \subseteq Recent(notices, Hour)
  PROVE  HourInv'
<1>1. /\ Cardinality(Left') <= Cardinality(Left) /\ Cardinality(Left') \in Nat
      /\ Cardinality(Recent(notices, Hour)') <= Cardinality(Recent(notices, Hour))
      /\ Cardinality(Recent(notices, Hour)') \in Nat
  BY HourSizes, PartSize
<1>2. IsFiniteSet(lost') 
  <2>1. lost' \in SUBSET notices'
    BY DEF GeofenceInv, GeofenceTypeOK
  <2>2. IsFiniteSet(notices')
    BY DEF GeofenceInv, Numbered
  <2>3. QED
    BY <2>1, <2>2, PartSize
<1>3. Cardinality(lost) <= Cardinality(lost') /\ Cardinality(lost') \in Nat
  BY <1>2, PartSize
<1>4. Budget' = Budget
  BY DEF Budget
<1>5. ASSUME NEW t \in Instants
      PROVE  Cardinality({n \in notices' : n.at > t - Hour /\ n.at <= t})
               <= MaxPerHour - 1 + MaxNear * Cardinality(Slots) + Cardinality(lost')
  <2>1. {n \in notices' : n.at > t - Hour /\ n.at <= t} = HourOf(t)
    BY DEF HourOf
  <2>2. Cardinality(HourOf(t)) <= Budget + Cardinality(lost)
    BY DEF HourInv, HourBounded, HourOf, Budget
  <2>3. Cardinality(HourOf(t)) \in Nat /\ Budget \in Int /\ Cardinality(lost) \in Nat
    BY HourSizes
  <2>4. Cardinality(HourOf(t)) <= Budget + Cardinality(lost')
    BY <1>3, <2>2, <2>3
  <2>5. QED
    BY <2>1, <2>4 DEF Budget
<1>6. Cardinality(Recent(notices, Hour)') + Cardinality(Left') <= Budget + Cardinality(lost')
  BY <1>1, <1>3, HourSizes DEF HourInv
<1>7. QED
  BY <1>4, <1>5, <1>6 DEF HourInv, HourBounded

(* A check that starts finds fewer logs than the limit, so the notices of    *)
(* the hour that are logged leave room for everything left to send.          *)
LEMMA StartWithinBudget ==
  ASSUME GeofenceInv, GeofenceInv', ~RateLimited, NEW s \in Slots, req[s].pc = "idle",
         req'[s].pc # "log", \A x \in Slots : x # s => req'[x] = req[x],
         UNCHANGED <<now, notices, logs, lost>>
  PROVE  Cardinality(Recent(notices, Hour)) + Cardinality(Left') <= Budget + Cardinality(lost)
<1> DEFINE R == Recent(notices, Hour)
           W == {n \in R : \E l \in logs : l.id = n.id}
           H == {n \in R \ lost : \A l \in logs : l.id # n.id}
           L == Recent(logs, Hour)
           todo == [x \in Slots |-> req'[x].todo]
           P == {p \in Slots \X Venues : p[2] \in todo[p[1]]}
           Held == {p \in P : req'[p[1]].pc = "log" /\ p[2] = req'[p[1]].venue}
<1>t. /\ now \in Nat /\ Hour \in Nat
      /\ \A n \in notices : n \in Notice /\ n.at \in Nat /\ n.by \in Slots /\ n.venue \in Venues
      /\ \A l \in logs : l.at \in Nat
  BY GeofenceAssumption DEF GeofenceInv, GeofenceTypeOK, Notice, Log, Instants
<1>1. IsFiniteSet(L) /\ Cardinality(L) \in Nat /\ Cardinality(L) <= MaxPerHour - 1
  <2>1. ~(Cardinality(L) >= MaxPerHour)
    BY DEF RateLimited
  <2>2. QED
    BY <2>1, HourSizes, GeofenceAssumption
(* The logged ones are told apart by their logs. *)
<1>2. IsFiniteSet(W) /\ Cardinality(W) \in Nat /\ Cardinality(W) <= Cardinality(L)
  <2> DEFINE f == [n \in W |-> CHOOSE l \in logs : l.id = n.id]
  <2>1. ASSUME NEW n \in W PROVE f[n] \in L /\ f[n].id = n.id
    <3>1. f[n] \in logs /\ f[n].id = n.id
      OBVIOUS
    <3>2. n \in notices /\ n.at > now - Hour
      BY DEF Recent
    <3>3. n.at <= f[n].at
      BY <3>1, <3>2 DEF GeofenceInv, Numbered
    <3>4. f[n].at > now - Hour
      BY <1>t, <3>1, <3>2, <3>3
    <3>5. QED
      BY <3>1, <3>4 DEF Recent
  <2>2. f \in [W -> L]
    BY <2>1
  <2>3. \A x, y \in W : f[x] = f[y] => x = y
    <3> SUFFICES ASSUME NEW x \in W, NEW y \in W, f[x] = f[y] PROVE x = y
      OBVIOUS
    <3>1. x.id = y.id
      BY <2>1
    <3>2. x \in notices /\ y \in notices
      BY DEF Recent
    <3>3. QED
      BY <3>1, <3>2 DEF GeofenceInv, Numbered
  <2> HIDE DEF f, W, L
  <2>4. QED
    BY <1>1, <2>2, <2>3, ToldApart
(* Those in hand are told apart by the slot and the venue they are for. *)
<1>3. IsFiniteSet(P) /\ Cardinality(P) <= Cardinality(Slots) * MaxNear
  <2>1. todo \in [Slots -> SUBSET Venues]
    BY DEF GeofenceInv, GeofenceTypeOK, Req
  <2>2. \A x \in Slots : Cardinality(todo[x]) <= MaxNear
    BY DEF GeofenceInv, InHand
  <2>3. MaxNear \in Nat
    BY GeofenceAssumption
  <2> HIDE DEF todo
  <2>4. QED
    BY <2>1, <2>2, <2>3, PairsBounded
<1>4. Held \in SUBSET P /\ Left' = P \ Held /\ Left' \in SUBSET P
  BY DEF Left
<1>5. IsFiniteSet(H) /\ Cardinality(H) \in Nat /\ Cardinality(H) <= Cardinality(Held)
  <2> DEFINE g == [n \in H |-> <<n.by, n.venue>>]
  <2>1. ASSUME NEW n \in H
        PROVE  /\ n.by \in Slots /\ n \in Pending(n.by)
               /\ n.by # s /\ req[n.by].pc = "log" /\ n.venue = req[n.by].venue
               /\ n.venue \in req[n.by].todo /\ n.venue \in Venues
    <3>1. n \in notices \ lost /\ n.by \in Slots /\ n.venue \in Venues
      BY <1>t DEF Recent
    <3>2. n \in Pending(n.by)
      BY <3>1 DEF Pending
    <3>3. req[n.by].pc = "log" /\ n.venue = req[n.by].venue /\ n.venue \in req[n.by].todo
      BY <3>1, <3>2 DEF GeofenceInv, InHand
    <3>4. QED
      BY <3>1, <3>2, <3>3
  <2>2. \A n \in H : <<n.by, n.venue>> \in Held
    BY <2>1
  <2>3. g \in [H -> Held]
    BY <2>2
  <2>4. \A x, y \in H : g[x] = g[y] => x = y
    <3> SUFFICES ASSUME NEW x \in H, NEW y \in H, g[x] = g[y] PROVE x = y
      OBVIOUS
    <3>1. x.by = y.by
      OBVIOUS
    <3>2. x \in Pending(x.by) /\ y \in Pending(x.by) /\ x.by \in Slots
      BY <2>1, <3>1
    <3>3. QED
      BY <3>2 DEF GeofenceInv, InHand
  <2>5. IsFiniteSet(Held)
    BY <1>3, <1>4, PartSize
  <2> HIDE DEF g, H, Held
  <2>6. QED
    BY <2>3, <2>4, <2>5, ToldApart
<1>6. /\ IsFiniteSet(Held) /\ IsFiniteSet(Left') /\ Cardinality(Held) \in Nat
      /\ Cardinality(Left') \in Nat
      /\ Cardinality(Held) + Cardinality(Left') <= Cardinality(P) /\ Cardinality(P) \in Nat
  <2>1. IsFiniteSet(Held) /\ IsFiniteSet(Left') /\ Cardinality(Held) \in Nat
          /\ Cardinality(Left') \in Nat /\ Cardinality(P) \in Nat
    BY <1>3, <1>4, PartSize
  <2>2. Held \cap Left' = {} /\ Held \cup Left' = P
    BY <1>4
  <2>3. Cardinality(P) = Cardinality(Held) + Cardinality(Left')
    BY <2>1, <2>2, UnionSize
  <2>4. QED
    BY <2>1, <2>3
<1>7. R \in SUBSET (W \cup (H \cup lost))
  BY DEF Recent
<1>8. IsFiniteSet(lost) /\ Cardinality(lost) \in Nat /\ Cardinality(R) \in Nat /\ IsFiniteSet(R)
  BY HourSizes
<1> HIDE DEF W, H, R, P, Held, L
<1>9. IsFiniteSet(H \cup lost) /\ Cardinality(H \cup lost) \in Nat
        /\ Cardinality(H \cup lost) <= Cardinality(H) + Cardinality(lost)
  BY <1>5, <1>8, UnionSize
<1>10. IsFiniteSet(W \cup (H \cup lost)) /\ Cardinality(W \cup (H \cup lost)) \in Nat
         /\ Cardinality(W \cup (H \cup lost)) <= Cardinality(W) + Cardinality(H \cup lost)
  BY <1>2, <1>9, UnionSize
<1>11. Cardinality(R) <= Cardinality(W) + Cardinality(H) + Cardinality(lost)
  <2>1. Cardinality(R) <= Cardinality(W \cup (H \cup lost))
    BY <1>7, <1>10, PartSize
  <2>2. QED
    BY <1>2, <1>5, <1>8, <1>9, <1>10, <2>1
<1>12. Budget = MaxPerHour - 1 + Cardinality(Slots) * MaxNear
         /\ Cardinality(Slots) * MaxNear \in Nat /\ MaxPerHour \in Nat
  BY FS_CardinalityType, GeofenceAssumption DEF Budget
<1> DEFINE all == Cardinality(Slots) * MaxNear
<1>13. all \in Nat /\ Cardinality(P) <= all /\ Budget = MaxPerHour - 1 + all
  BY <1>3, <1>12
<1> HIDE DEF all
<1>14. Cardinality(R) + Cardinality(Left') <= Budget + Cardinality(lost)
  BY <1>1, <1>2, <1>5, <1>6, <1>8, <1>11, <1>12, <1>13
<1>15. QED
  BY <1>14 DEF R

LEMMA HourStep == GeofenceInv /\ HourInv /\ [GeofenceNext]_geofenceVars => HourInv'
<1> SUFFICES ASSUME GeofenceInv, HourInv, [GeofenceNext]_geofenceVars PROVE HourInv'
  OBVIOUS
<1>0. GeofenceInv'
  BY GeofenceStep
<1>t. /\ now \in Nat /\ Hour \in Nat
      /\ \A n \in notices : n \in Notice /\ n.at \in Nat /\ n.at <= now
  BY GeofenceAssumption DEF GeofenceInv, GeofenceTypeOK, Numbered, Notice, Instants
<1>s. ASSUME UNCHANGED <<now, notices>>
      PROVE  Recent(notices, Hour)' \subseteq Recent(notices, Hour)
  BY <1>s DEF Recent
<1>1. ASSUME NEW s \in Slots, NEW near \in Near, CheckGeofence(s, near)
      PROVE  HourInv'
  <2>1. /\ UNCHANGED <<now, notices, logs, lost>> /\ req[s].pc = "idle"
        /\ \A x \in Slots : x # s => req'[x] = req[x]
    BY <1>1 DEF CheckGeofence, GeofenceInv, GeofenceTypeOK
  <2>2. CASE RateLimited
    <3>1. req'[s] = IdleReq
      BY <1>1, <2>2 DEF CheckGeofence, GeofenceInv, GeofenceTypeOK
    <3>2. Left' \subseteq Left
      BY <2>1, <3>1 DEF Left, IdleReq
    <3>3. QED
      BY <1>0, <1>s, <2>1, <3>2, HourFrame
  <2>3. CASE ~RateLimited
    <3>1. near \in SUBSET Venues /\ Cardinality(near) <= MaxNear
      BY DEF Near
    <3>2. req'[s].pc # "log"
      BY <1>1, <2>3, <3>1, VisitTyped DEF CheckGeofence, GeofenceInv, GeofenceTypeOK
    <3>3. Cardinality(Recent(notices, Hour)) + Cardinality(Left') <= Budget + Cardinality(lost)
      BY <1>0, <2>1, <2>3, <3>2, StartWithinBudget
    <3>4. Recent(notices, Hour)' = Recent(notices, Hour) /\ Budget' = Budget
      BY <2>1 DEF Recent, Budget
    <3>5. HourBounded'
      BY <2>1 DEF HourInv, HourBounded
    <3>6. QED
      BY <2>1, <3>3, <3>4, <3>5 DEF HourInv
  <2>4. QED
    BY <2>2, <2>3
<1>2. ASSUME NEW s \in Slots, NEW v \in Venues, CheckCooldown(s, v)
      PROVE  HourInv'
  <2>1. /\ UNCHANGED <<now, notices, logs, lost>> /\ req[s].pc = "cooldown"
        /\ req[s].todo \in SUBSET Venues /\ Cardinality(req[s].todo) <= MaxNear
        /\ req[s] \in Req
    BY <1>2 DEF CheckCooldown, GeofenceInv, GeofenceTypeOK, InHand, Req
  <2>2. /\ \A x \in Slots : x # s => req'[x] = req[x]
        /\ req'[s].todo \subseteq req[s].todo
    <3>1. Visit(req[s].todo \ {v}).todo = req[s].todo \ {v}
      BY <2>1, FewerVenues, VisitTyped
    <3>2. [req[s] EXCEPT !.pc = "notify", !.venue = v].todo = req[s].todo
      BY <2>1 DEF Req
    <3>3. QED
      BY <1>2, <3>1, <3>2 DEF CheckCooldown, GeofenceInv, GeofenceTypeOK
  <2>3. Left' \subseteq Left
    BY <2>1, <2>2 DEF Left
  <2>4. QED
    BY <1>0, <1>s, <2>1, <2>3, HourFrame
<1>3. ASSUME NEW s \in Slots, Notify(s)
      PROVE  HourInv'
  <2> DEFINE v == req[s].venue
             new == [id |-> NextId, venue |-> v, at |-> now, by |-> s]
             r == [req[s] EXCEPT !.pc = "log"]
             R == Recent(notices, Hour)
  <2>1. /\ req[s] \in Req /\ req[s].pc = "notify" /\ v \in req[s].todo /\ v \in Venues
        /\ UNCHANGED <<now, logs, lost>>
        /\ notices' = notices \cup {new} /\ req' = [req EXCEPT ![s] = r]
    BY <1>3 DEF Notify, GeofenceInv, GeofenceTypeOK, InHand, Req
  <2>2. r.pc = "log" /\ r.venue = v /\ r.todo = req[s].todo /\ new.at = now
    BY <2>1 DEF Req
  <2>3. req'[s] = r /\ \A x \in Slots : x # s => req'[x] = req[x]
    BY <2>1 DEF GeofenceInv, GeofenceTypeOK
  <2> HIDE DEF new, r
  <2>4. <<s, v>> \in Left
    BY <2>1 DEF Left
  <2>5. Left' \in SUBSET (Left \ {<<s, v>>})
    <3> SUFFICES ASSUME NEW p \in Left' PROVE p \in Left /\ p # <<s, v>>
      OBVIOUS
    <3>1. p \in Slots \X Venues
      BY DEF Left
    <3>2. CASE p[1] = s
      BY <2>1, <2>2, <2>3, <3>1, <3>2 DEF Left
    <3>3. CASE p[1] # s
      BY <2>3, <3>1, <3>3 DEF Left
    <3>4. QED
      BY <3>2, <3>3
  <2>6. /\ IsFiniteSet(Left) /\ Cardinality(Left) \in Nat /\ IsFiniteSet(R) /\ Cardinality(R) \in Nat
        /\ Cardinality(lost) \in Nat /\ Budget \in Int
        /\ Cardinality(R) + Cardinality(Left) <= Budget + Cardinality(lost)
    BY HourSizes DEF HourInv
  <2>7. Cardinality(Left') <= Cardinality(Left) - 1 /\ Cardinality(Left') \in Nat
    <3>1. IsFiniteSet(Left \ {<<s, v>>})
            /\ Cardinality(Left \ {<<s, v>>}) = Cardinality(Left) - 1
      BY <2>4, <2>6, FS_RemoveElement
    <3>2. QED
      BY <2>5, <3>1, PartSize
  <2>8. R' \in SUBSET (R \cup {new})
    BY <2>1 DEF Recent
  <2> HIDE DEF R
  <2>9. IsFiniteSet(R \cup {new}) /\ Cardinality(R \cup {new}) <= Cardinality(R) + 1
          /\ Cardinality(R \cup {new}) \in Nat
    <3>1. IsFiniteSet(R \cup {new})
            /\ Cardinality(R \cup {new}) = IF new \in R THEN Cardinality(R) ELSE Cardinality(R) + 1
      BY <2>6, FS_AddElement
    <3>2. QED
      BY <2>6, <3>1
  <2>10. Cardinality(R') <= Cardinality(R) + 1 /\ Cardinality(R') \in Nat /\ IsFiniteSet(R')
    <3>1. Cardinality(R') <= Cardinality(R \cup {new}) /\ Cardinality(R') \in Nat /\ IsFiniteSet(R')
      BY <2>8, <2>9, PartSize
    <3>2. QED
      BY <2>6, <2>9, <3>1
  <2>11. Cardinality(R') + Cardinality(Left') <= Budget + Cardinality(lost)
    BY <2>6, <2>7, <2>10
  <2>12. Budget' = Budget /\ lost' = lost
    BY <2>1 DEF Budget
  <2>13. ASSUME NEW t \in Instants
         PROVE  Cardinality({n \in notices' : n.at > t - Hour /\ n.at <= t})
                  <= Budget + Cardinality(lost)
    <3> DEFINE N == {n \in notices' : n.at > t - Hour /\ n.at <= t}
    <3>0. t \in Nat
      BY DEF Instants
    <3>1. CASE t < now
      <4>1. new \notin N
        BY <1>t, <2>2, <3>0, <3>1
      <4>2. N = HourOf(t)
        BY <2>1, <4>1 DEF HourOf
      <4>3. Cardinality(HourOf(t)) <= Budget + Cardinality(lost)
        BY DEF HourInv, HourBounded, HourOf, Budget
      <4>4. QED
        BY <4>2, <4>3
    <3>2. CASE t >= now
      <4>1. \A n \in N : n.at \in Nat /\ n.at > now - Hour
        BY <1>t, <2>1, <2>2, <3>0, <3>2
      <4>2. N \in SUBSET R'
        BY <2>1, <4>1 DEF R, Recent
      <4> HIDE DEF N
      <4>3. Cardinality(N) <= Cardinality(R') /\ Cardinality(N) \in Nat
        BY <2>10, <4>2, PartSize
      <4>4. Cardinality(N) <= Budget + Cardinality(lost)
        BY <2>6, <2>7, <2>10, <2>11, <4>3
      <4>5. QED
        BY <4>4 DEF N
    <3>3. QED
      BY <1>t, <3>0, <3>1, <3>2
  <2>14. HourBounded'
    BY <2>12, <2>13 DEF HourBounded, Budget
  <2>15. QED
    BY <2>11, <2>12, <2>14 DEF HourInv, R
<1>4. ASSUME NEW s \in Slots, WriteLog(s)
      PROVE  HourInv'
  <2> DEFINE v == req[s].venue
  <2>1. /\ UNCHANGED <<now, notices, lost>> /\ req[s].pc = "log"
        /\ req[s].todo \in SUBSET Venues /\ Cardinality(req[s].todo) <= MaxNear
        /\ req'[s] = Visit(req[s].todo \ {v})
        /\ \A x \in Slots : x # s => req'[x] = req[x]
    BY <1>4 DEF WriteLog, GeofenceInv, GeofenceTypeOK, InHand, Req
  <2>2. req'[s].todo = req[s].todo \ {v}
    BY <2>1, FewerVenues, VisitTyped
  <2>3. Left' \subseteq Left
    <3> SUFFICES ASSUME NEW p \in Left' PROVE p \in Left
      OBVIOUS
    <3>1. p \in Slots \X Venues /\ p[2] \in req'[p[1]].todo
            /\ ~(req'[p[1]].pc = "log" /\ p[2] = req'[p[1]].venue)
      BY DEF Left
    <3>2. CASE p[1] = s
      BY <2>2, <3>1, <3>2 DEF Left
    <3>3. CASE p[1] # s
      BY <2>1, <3>1, <3>3 DEF Left
    <3>4. QED
      BY <3>2, <3>3
  <2>4. QED
    BY <1>0, <1>s, <2>1, <2>3, HourFrame
<1>5. ASSUME NEW s \in Slots, Fail(s)
      PROVE  HourInv'
  <2>1. /\ UNCHANGED <<now, notices>> /\ lost \subseteq lost'
        /\ req'[s] = IdleReq /\ \A x \in Slots : x # s => req'[x] = req[x]
    BY <1>5 DEF Fail, GeofenceInv, GeofenceTypeOK
  <2>2. Left' \subseteq Left
    BY <2>1 DEF Left, IdleReq
  <2>3. QED
    BY <1>0, <1>s, <2>1, <2>2, HourFrame
<1>6. CASE GeofenceTick
  <2>1. UNCHANGED <<notices, req, lost>> /\ now' = now + 1
    BY <1>6 DEF GeofenceTick
  <2>2. Recent(notices, Hour)' \subseteq Recent(notices, Hour)
    BY <1>t, <2>1 DEF Recent
  <2>3. Left' \subseteq Left
    BY <2>1 DEF Left
  <2>4. QED
    BY <1>0, <2>1, <2>2, <2>3, HourFrame
<1>7. CASE UNCHANGED geofenceVars
  <2>1. UNCHANGED <<now, notices, logs, req, lost>>
    BY <1>7 DEF geofenceVars
  <2>2. Left' \subseteq Left
    BY <2>1 DEF Left
  <2>3. QED
    BY <1>0, <1>s, <2>1, <2>2, HourFrame
<1>8. QED
  BY <1>1, <1>2, <1>3, <1>4, <1>5, <1>6, <1>7 DEF GeofenceNext, Check

(* However many checks of a user overlap, no hour has more notices than the  *)
(* limit allows to those that were in the log, plus the venues the checks in *)
(* flight can find, plus the notices whose log failed.                       *)
THEOREM HourIsLimited == GeofenceSpec => []HourBounded
<1>1. GeofenceInit => HourInv
  <2> SUFFICES ASSUME GeofenceInit PROVE HourInv
    OBVIOUS
  <2>1. Recent(notices, Hour) = {} /\ Left = {} /\ lost = {}
          /\ \A t \in Instants : {n \in notices : n.at > t - Hour /\ n.at <= t} = {}
    BY DEF GeofenceInit, Recent, Left, IdleReq
  <2>2. Cardinality(Slots) \in Nat
    BY FS_CardinalityType, GeofenceAssumption
  <2>3. MaxNear * Cardinality(Slots) \in Nat
    BY <2>2, GeofenceAssumption
  <2>4. Budget >= 0 /\ Budget \in Int
    BY <2>3, GeofenceAssumption DEF Budget
  <2>5. QED
    BY <2>1, <2>4, FS_EmptySet DEF HourInv, HourBounded, Budget
<1>2. HourInv => HourBounded
  BY DEF HourInv
<1>3. QED
  BY <1>1, <1>2, GeofenceStart, GeofenceStep, HourStep, PTL DEF GeofenceSpec
=============================================================================
