--------------------------- MODULE CircuitBreaker ---------------------------
(***************************************************************************)
(* withRetry (common/utils/retry.util.ts) for one name: overlapping calls, *)
(* each a loop of attempts that holds a reference to a circuit object. The *)
(* map entry is that object, or none before a call has first failed; until *)
(* then every call has an object of its own. An await ends an action.      *)
(***************************************************************************)
EXTENDS Integers, FiniteSets

CONSTANTS
  Calls,          \* callers, each with one call of withRetry at a time
  Circuits,       \* circuit objects (the heap)
  NoCircuit,      \* no entry in the map
  MaxRetries,     \* attempts of a call
  Threshold,      \* CIRCUIT_FAILURE_THRESHOLD
  ResetTimeout    \* CIRCUIT_RESET_TIMEOUT_MS, in ticks

ASSUME CircuitAssumption ==
  /\ MaxRetries \in Nat \ {0} /\ Threshold \in Nat \ {0} /\ ResetTimeout \in Nat \ {0}
  /\ NoCircuit \notin Circuits
  /\ IsFiniteSet(Calls) /\ IsFiniteSet(Circuits)
  /\ Cardinality(Circuits) > Cardinality(Calls)

VARIABLES
  heap,     \* the circuit objects
  stored,   \* circuitBreakers.get(name)
  call,     \* per caller: its object and its attempt (0: no call)
  healthy   \* the external service answers from now on

vars == <<heap, stored, call, healthy>>

(* failures is counted up to Threshold and the time since lastFailureTime up
   to ResetTimeout: the code compares them with nothing larger. *)
Circuit == [failures : 0 .. Threshold, sinceFailure : 0 .. ResetTimeout, isOpen : BOOLEAN]
NewCircuit == [failures |-> 0, sinceFailure |-> ResetTimeout, isOpen |-> FALSE]

AnyCircuit == CHOOSE c \in Circuits : TRUE
NoCall == [circuit |-> AnyCircuit, attempt |-> 0]
Active(s) == call[s].attempt > 0

TypeOK ==
  /\ heap \in [Circuits -> Circuit]
  /\ stored \in Circuits \cup {NoCircuit}
  /\ call \in [Calls -> [circuit : Circuits, attempt : 0 .. MaxRetries]]
  /\ healthy \in BOOLEAN

(* Variants named after a plausible slip in the definition that follows them
   serve to check that a property notices it. *)

CountedPast(n) == n + 1
CountedUp(n) == IF n < Threshold THEN n + 1 ELSE n

-----------------------------------------------------------------------------
InUse == {stored} \cup {call[s].circuit : s \in {t \in Calls : Active(t)}}

Begin(s, c) == call' = [call EXCEPT ![s] = [circuit |-> c, attempt |-> 1]]

(* No entry yet: a new object, which only a later failure puts in the map. *)
StartFresh(s) ==
  /\ ~Active(s) /\ stored = NoCircuit
  /\ LET c == CHOOSE d \in Circuits \ InUse : TRUE IN
       /\ heap' = [heap EXCEPT ![c] = NewCircuit]
       /\ Begin(s, c)
  /\ UNCHANGED <<stored, healthy>>

StartClosed(s) ==
  /\ ~Active(s) /\ stored # NoCircuit /\ ~heap[stored].isOpen
  /\ Begin(s, stored)
  /\ UNCHANGED <<heap, stored, healthy>>

ElapsedAlways(c) == TRUE
Elapsed(c) == c.sinceFailure >= ResetTimeout

(* The object is half-open from here: isOpen is off, failures stay. A call
   before that returns null and changes nothing. *)
StartHalfOpen(s) ==
  /\ ~Active(s) /\ stored # NoCircuit /\ heap[stored].isOpen
  /\ Elapsed(heap[stored])
  /\ heap' = [heap EXCEPT ![stored].isOpen = FALSE]
  /\ Begin(s, stored)
  /\ UNCHANGED <<stored, healthy>>

EndCall(s) == call' = [call EXCEPT ![s] = NoCall]

ClosedOnly(c) == [c EXCEPT !.isOpen = FALSE]
CountReset(c) == [c EXCEPT !.failures = 0]
Succeeded(c) == [c EXCEPT !.failures = 0, !.isOpen = FALSE]

(* fn answered in time. *)
Succeed(s) ==
  /\ Active(s)
  /\ LET c == call[s].circuit IN
       IF heap[c].failures > 0
         THEN heap' = [heap EXCEPT ![c] = Succeeded(@)] /\ stored' = c
         ELSE UNCHANGED <<heap, stored>>
  /\ EndCall(s)
  /\ UNCHANGED healthy

(* fn rejected or the timeout came first; the backoff goes by before the next
   attempt. What fn answers after its timeout is dropped. *)
Retry(s) ==
  /\ Active(s) /\ ~healthy
  /\ call[s].attempt < MaxRetries
  /\ call' = [call EXCEPT ![s].attempt = @ + 1]
  /\ UNCHANGED <<heap, stored, healthy>>

Exhausted(c) ==
  [failures |-> CountedUp(c.failures), sinceFailure |-> 0,
   isOpen |-> IF CountedUp(c.failures) >= Threshold THEN TRUE ELSE c.isOpen]

GiveUp(s) ==
  /\ Active(s) /\ ~healthy
  /\ call[s].attempt = MaxRetries
  /\ heap' = [heap EXCEPT ![call[s].circuit] = Exhausted(@)]
  /\ stored' = call[s].circuit
  /\ EndCall(s)
  /\ UNCHANGED healthy

(* External: time passes, and the service comes back for good. *)
Age(c) == [c EXCEPT !.sinceFailure = IF @ < ResetTimeout THEN @ + 1 ELSE @]
Tick ==
  /\ heap' = [c \in Circuits |-> Age(heap[c])]
  /\ UNCHANGED <<stored, call, healthy>>
Heal == ~healthy /\ healthy' = TRUE /\ UNCHANGED <<heap, stored, call>>

Init ==
  /\ heap = [c \in Circuits |-> NewCircuit]
  /\ stored = NoCircuit
  /\ call = [s \in Calls |-> NoCall]
  /\ healthy = FALSE

Start(s) == StartFresh(s) \/ StartClosed(s) \/ StartHalfOpen(s)
Finish(s) == Succeed(s) \/ Retry(s) \/ GiveUp(s)

Next == Tick \/ Heal \/ \E s \in Calls : Start(s) \/ Finish(s)

Spec == Init /\ [][Next]_vars

(* Time passes, a call whose promise settles goes on, and callers call again. *)
FairSpec ==
  Spec /\ WF_vars(Tick) /\ \A s \in Calls : WF_vars(Start(s)) /\ WF_vars(Finish(s))

-----------------------------------------------------------------------------
(* Properties *)

Open == stored # NoCircuit /\ heap[stored].isOpen

(* A circuit refuses calls only while it remembers Threshold failures,       *)
(* although calls that overlap write failures and isOpen of one object.      *)
OpenIsEarned == \A c \in Circuits : heap[c].isOpen => heap[c].failures = Threshold

(* Once the service is back and callers go on, the breaker closes for good   *)
(* and forgets the failures: no late answer leaves it open.                  *)
Recovers ==
  healthy ~> [](stored # NoCircuit => ~Open /\ heap[stored].failures = 0)

(* Without overlap withRetry keeps the promise of Breaker: see               *)
(* CircuitBreakerProofs.                                                     *)
Promise == INSTANCE Breaker WITH
  row <- IF stored = NoCircuit THEN 0 ELSE heap[stored].failures,
  refuse <- IF Open THEN ResetTimeout - heap[stored].sinceFailure ELSE 0,
  busy <- \E s \in Calls : Active(s)
KeepsPromise == Promise!Spec
=============================================================================
