--------------------------- MODULE DispatchProofs ---------------------------
(***************************************************************************)
(* What a fan-out guarantees for any number of items, slots, retries,      *)
(* caps, failures and resumes.  A task's step is one of many actions, so   *)
(* the proof first says what any of them can do (Shape, Raising, Trying,   *)
(* Accounting, Saving, Holding, Queueing, one lemma each), and then that   *)
(* a step of this kind keeps each part of the inductive invariant IInv.    *)
(***************************************************************************)
EXTENDS Dispatch, FiniteSetTheorems, SequenceTheorems, TLAPS

\* A task backs off only while its schedule has a call left.
Scheduled == \A i \in Items : pc[i] = "backoff" => try[i] < Tries

\* The tasks past the cap check that may still add a price.
Past == {i \in Items : pc[i] \in {"queued", "calling", "backoff"}}

\* Once the cap is reached, what those tasks may add was theirs by a slot or
\* a place in the queue when it was.
Budgeted ==
  ledger.priced >= cap =>
    ledger.priced + Cardinality(Past) < cap + Concurrency + Cardinality(late)

\* Nothing on disk is being asked for.
Unsaved == \A i \in Items : i \in Past \/ pc[i] = "writing" => i \notin saved

\* Exceptions belong to raised tasks, and the first is one of them.
Causes ==
  /\ \A i \in Items : exc[i] # "none" => pc[i] = "raised"
  /\ first # "none" => \E i \in Items : exc[i] = first
  /\ phase = "draining" => first # "none"

\* The inductive invariant.
IInv ==
  /\ TypeOK /\ Scheduled
  /\ SlotsRespected /\ WaitersQueued
  /\ Budgeted
  /\ Unsaved /\ PaidOnce
  /\ Causes /\ PausedIsQuiet /\ PauseNamesCause
  /\ AttemptsAccounted

Points == {"new", "queued", "calling", "backoff", "writing"} \cup Settled

-----------------------------------------------------------------------------
LEMMA ConstantFacts ==
  /\ IsFiniteSet(Items) /\ Cardinality(Items) \in Nat
  /\ Concurrency \in Nat /\ Concurrency > 0
  /\ MaxSchemaRetries \in Nat /\ Tries \in Nat /\ Tries > 0
  /\ Caps \subseteq Nat /\ \A c \in Caps : c > 0
BY DispatchAssumption, FS_CardinalityType DEF DispatchAssumption

\* Any set of items is finite and no larger than all of them.
LEMMA ItemSets ==
  ASSUME NEW S \in SUBSET Items
  PROVE  /\ IsFiniteSet(S)
         /\ Cardinality(S) \in Nat
         /\ Cardinality(S) <= Cardinality(Items)
BY ConstantFacts, FS_Subset, FS_CardinalityType

\* Removing a waiter from the queue keeps the others.
LEMMA WithoutFacts ==
  ASSUME NEW q \in Seq(Items), NEW n \in DOMAIN q
  PROVE  /\ Without(q, n) \in Seq(Items)
         /\ DOMAIN Without(q, n) = 1..(Len(q) - 1)
         /\ \A m \in 1..(Len(q) - 1) :
              Without(q, n)[m] = IF m < n THEN q[m] ELSE q[m + 1]
<1>1. Len(q) \in Nat /\ DOMAIN q = 1..Len(q) /\ Len(q) - 1 \in Nat
  OBVIOUS
<1>2. \A m \in 1..(Len(q) - 1) :
        (IF m < n THEN q[m] ELSE q[m + 1]) \in Items
  BY <1>1
<1> QED
  BY <1>1, <1>2 DEF Without

-----------------------------------------------------------------------------
LEMMA InitInvariant == Init => IInv
<1> SUFFICES ASSUME Init PROVE IInv
  OBVIOUS
<1> USE ConstantFacts DEF Init
<1>1. TypeOK
  BY DispatchAssumption DEF TypeOK, Live, Settled, Failures, DispatchAssumption
<1>2. Slots = {} /\ Past = {} /\ {i \in Items : pc[i] = "calling"} = {}
  BY DEF Slots, Past
<1>3. /\ Cardinality(Slots) = 0 /\ Cardinality(Past) = 0
      /\ Cardinality({i \in Items : pc[i] = "calling"}) = 0
  BY <1>2, FS_EmptySet
<1>4. SlotsRespected /\ Budgeted
  BY <1>3 DEF SlotsRespected, Budgeted
<1>5. AttemptsAccounted
  BY <1>3 DEF AttemptsAccounted
<1>6. WaitersQueued
  BY DEF WaitersQueued, Waiting
<1>7. Scheduled /\ Unsaved /\ PaidOnce
  BY <1>2 DEF Scheduled, Unsaved, PaidOnce
<1>8. Causes /\ PausedIsQuiet /\ PauseNamesCause
  BY DEF Causes, PausedIsQuiet, PauseNamesCause
<1> QED
  BY <1>1, <1>4, <1>5, <1>6, <1>7, <1>8 DEF IInv

-----------------------------------------------------------------------------
\* The counters of the ledger and of the calls.
LedgerOK(l) == l \in [priced : Nat, markers : Nat]

CallsOK(c) ==
  c \in [begun : Nat, unread : Nat, valid : [Items -> Nat], lost : [Items -> Nat]]

LEMMA CounterTypes ==
  ASSUME TypeOK
  PROVE  /\ LedgerOK(ledger) /\ CallsOK(calls)
         /\ {ledger.priced, ledger.markers, calls.begun, calls.unread} \subseteq Nat
         /\ calls.valid \in [Items -> Nat] /\ calls.lost \in [Items -> Nat]
BY DEF TypeOK, LedgerOK, CallsOK

\* A step adds so many prices, markers, calls begun and replies unread.
Adds(p, m, b, u) ==
  /\ LedgerOK(ledger') /\ CallsOK(calls')
  /\ ledger'.priced = ledger.priced + p /\ ledger'.markers = ledger.markers + m
  /\ calls'.begun = calls.begun + b /\ calls'.unread = calls.unread + u

LEMMA PriceAdds ==
  ASSUME LedgerOK(ledger), ledger' = [ledger EXCEPT !.priced = @ + 1]
  PROVE  /\ LedgerOK(ledger')
         /\ ledger'.priced = ledger.priced + 1 /\ ledger'.markers = ledger.markers
BY DEF LedgerOK

LEMMA MarkerAdds ==
  ASSUME LedgerOK(ledger), ledger' = [ledger EXCEPT !.markers = @ + 1]
  PROVE  /\ LedgerOK(ledger')
         /\ ledger'.priced = ledger.priced /\ ledger'.markers = ledger.markers + 1
BY DEF LedgerOK

LEMMA BeginAdds ==
  ASSUME CallsOK(calls), Begin
  PROVE  /\ CallsOK(calls')
         /\ calls'.begun = calls.begun + 1 /\ calls'.unread = calls.unread
         /\ calls'.valid = calls.valid /\ calls'.lost = calls.lost
BY DEF Begin, CallsOK

LEMMA UnreadAdds ==
  ASSUME CallsOK(calls), NEW n \in Nat, calls' = [calls EXCEPT !.unread = @ + n]
  PROVE  /\ CallsOK(calls')
         /\ calls'.begun = calls.begun /\ calls'.unread = calls.unread + n
         /\ calls'.valid = calls.valid /\ calls'.lost = calls.lost
BY DEF CallsOK

LEMMA ValidAdds ==
  ASSUME CallsOK(calls), NEW i \in Items, calls' = [calls EXCEPT !.valid[i] = @ + 1]
  PROVE  /\ CallsOK(calls')
         /\ calls'.begun = calls.begun /\ calls'.unread = calls.unread
         /\ calls'.valid = [calls.valid EXCEPT ![i] = @ + 1]
         /\ calls'.lost = calls.lost
<1>1. calls.valid \in [Items -> Nat] /\ calls.valid[i] + 1 \in Nat
  BY DEF CallsOK
<1>2. calls' = [calls EXCEPT !.valid = [calls.valid EXCEPT ![i] = @ + 1]]
  BY DEF CallsOK
<1>3. [calls.valid EXCEPT ![i] = @ + 1] \in [Items -> Nat]
  BY <1>1
<1> QED
  BY <1>2, <1>3 DEF CallsOK

-----------------------------------------------------------------------------
(* What a step of a task can do, whichever it is.                          *)

\* It moves this task and no other, under the same parent, and has no
\* cancellation left to deliver.
Shape(i) ==
  /\ Running /\ UNCHANGED <<phase, reason, cap, resumes>> /\ faults' \in Nat
  /\ pc' \in [Items -> Points]
  /\ \A j \in Items \ {i} : pc'[j] = pc[j]
  /\ cancelling' \subseteq cancelling /\ i \notin cancelling'
  /\ pc[i] \notin Settled

\* It may raise, and the first exception stays the first.
Raising(i) ==
  /\ first' \in Failures \cup {"none"}
  /\ exc' \in [Items -> Failures \cup {"none"}]
  /\ \A j \in Items \ {i} : exc'[j] = exc[j]
  /\ \/ exc' = exc /\ first' = first
     \/ /\ pc'[i] = "raised"
        /\ first' = IF first = "none" THEN exc'[i] ELSE first

\* It stays within the two retry budgets.
Trying(i) ==
  /\ try' \in [Items -> 1..Tries]
  /\ attempt' \in [Items -> 0..MaxSchemaRetries]
  /\ \A j \in Items \ {i} : try'[j] = try[j]
  /\ pc'[i] = "backoff" => try'[i] < Tries

\* Every action of Task has this shape.
LEMMA TaskShape ==
  ASSUME TypeOK, NEW i \in Items, Task(i)
  PROVE  Shape(i)
<1> USE ConstantFacts
    DEF TypeOK, Settled, Failures, disk, money, parent, task, bounds, Running,
        Looping, Shape, Points
<1>1. CASE Skip(i)
  BY <1>1 DEF Skip, Ready
<1>2. CASE Start(i)
  BY <1>2 DEF Start, Ready, Guarded, TakeSlot, Begin, Raise
<1>3. CASE Acquire(i)
  BY <1>3 DEF Acquire, Ready, Begin
<1>4. CASE Again(i)
  BY <1>4 DEF Again, Ready, Begin
<1>5. CASE Valid(i)
  BY <1>5 DEF Valid, Pay, Ready
<1>6. CASE Invalid(i)
  BY <1>6 DEF Invalid, Pay, Ready, Guarded, TakeSlot, Begin, Raise
<1>7. CASE Notice(i)
  BY <1>7 DEF Notice, Ready, Raise
<1>8. ASSUME NEW kind \in Kinds, Fails(i, kind) PROVE Shape(i)
  <2>1. \E p \in Points : pc' = [pc EXCEPT ![i] = p]
    BY <1>8 DEF Fails, Caught, Raise
  <2>2. faults' \in Nat
    BY <1>8 DEF Fails
  <2> QED
    BY <1>8, <2>1, <2>2 DEF Fails, Ready
<1>9. CASE Cancelled(i)
  BY <1>9 DEF Cancelled, Live
<1>10. CASE CloseFails(i)
  <2>1. \E p \in Points : pc' = [pc EXCEPT ![i] = p]
    BY <1>10 DEF CloseFails, Caught, Raise
  <2>2. faults' \in Nat
    BY <1>10 DEF CloseFails
  <2> QED
    BY <1>10, <2>1, <2>2 DEF CloseFails, Live
<1>11. CASE OutcomeWins(i)
  BY <1>11 DEF OutcomeWins, Live
<1>12. CASE Write(i)
  BY <1>12 DEF Write
<1> QED
  BY <1>1, <1>2, <1>3, <1>4, <1>5, <1>6, <1>7, <1>8,
     <1>9, <1>10, <1>11, <1>12 DEF Task

\* Exceptions are raised by Raise only.
LEMMA TaskRaising ==
  ASSUME TypeOK, NEW i \in Items, Task(i)
  PROVE  Raising(i)
<1> USE ConstantFacts
    DEF TypeOK, Settled, Failures, disk, money, parent, task, bounds, Running,
        Looping, Raising, Kinds
<1>1. CASE Skip(i)
  BY <1>1 DEF Skip, Ready
<1>2. CASE Start(i)
  BY <1>2 DEF Start, Ready, Guarded, TakeSlot, Begin, Raise
<1>3. CASE Acquire(i)
  BY <1>3 DEF Acquire, Ready, Begin
<1>4. CASE Again(i)
  BY <1>4 DEF Again, Ready, Begin
<1>5. CASE Valid(i)
  BY <1>5 DEF Valid, Pay, Ready
<1>6. CASE Invalid(i)
  BY <1>6 DEF Invalid, Pay, Ready, Guarded, TakeSlot, Begin, Raise
<1>7. CASE Notice(i)
  BY <1>7 DEF Notice, Ready, Raise
<1>8. ASSUME NEW kind \in Kinds, Fails(i, kind) PROVE Raising(i)
  BY <1>8 DEF Fails, Ready, Caught, Raise
<1>9. CASE Cancelled(i)
  BY <1>9 DEF Cancelled
<1>10. CASE CloseFails(i)
  BY <1>10 DEF CloseFails, Caught, Raise
<1>11. CASE OutcomeWins(i)
  BY <1>11 DEF OutcomeWins
<1>12. CASE Write(i)
  BY <1>12 DEF Write
<1> QED
  BY <1>1, <1>2, <1>3, <1>4, <1>5, <1>6, <1>7, <1>8,
     <1>9, <1>10, <1>11, <1>12 DEF Task

\* The schedule only advances from a backoff.
LEMMA TaskTrying ==
  ASSUME TypeOK, Scheduled, NEW i \in Items, Task(i)
  PROVE  Trying(i)
<1> USE ConstantFacts
    DEF TypeOK, Settled, Failures, disk, money, parent, task, bounds, Running,
        Looping, Trying, Scheduled
<1>1. CASE Skip(i)
  BY <1>1 DEF Skip, Ready
<1>2. CASE Start(i)
  BY <1>2 DEF Start, Ready, Guarded, TakeSlot, Begin, Raise
<1>3. CASE Acquire(i)
  BY <1>3 DEF Acquire, Ready, Begin
<1>4. CASE Again(i)
  BY <1>4 DEF Again, Ready, Begin
<1>5. CASE Valid(i)
  BY <1>5 DEF Valid, Pay, Ready
<1>6. CASE Invalid(i)
  <2>1. ASSUME attempt[i] < MaxSchemaRetries, Guarded(i, ledger.priced + 1),
               ledger' = [ledger EXCEPT !.priced = @ + 1],
               attempt' = [attempt EXCEPT ![i] = @ + 1]
        PROVE  Trying(i)
    <3>1. pc'[i] \in {"raised", "calling", "queued"}
      BY <2>1 DEF Guarded, TakeSlot, Raise
    <3>2. try' = [try EXCEPT ![i] = 1]
      BY <2>1 DEF Guarded
    <3>3. attempt' \in [Items -> 0..MaxSchemaRetries]
      BY <2>1
    <3>4. try' \in [Items -> 1..Tries] /\ \A j \in Items \ {i} : try'[j] = try[j]
      BY <3>2
    <3> QED
      BY <3>1, <3>3, <3>4
  <2>2. ASSUME Raise(i, "invalid"), UNCHANGED <<try, attempt, queue, calls>>,
               ledger' = [ledger EXCEPT !.priced = @ + 1]
        PROVE  Trying(i)
    BY <1>6, <2>2 DEF Invalid, Pay, Ready, Raise
  <2> QED
    BY <1>6, <2>1, <2>2 DEF Invalid, Pay
<1>7. CASE Notice(i)
  BY <1>7 DEF Notice, Ready, Raise
<1>8. ASSUME NEW kind \in Kinds, Fails(i, kind) PROVE Trying(i)
  BY <1>8 DEF Fails, Ready, Caught, Raise
<1>9. CASE Cancelled(i)
  BY <1>9 DEF Cancelled
<1>10. CASE CloseFails(i)
  BY <1>10 DEF CloseFails, Caught, Raise
<1>11. CASE OutcomeWins(i)
  BY <1>11 DEF OutcomeWins
<1>12. CASE Write(i)
  BY <1>12 DEF Write
<1> QED
  BY <1>1, <1>2, <1>3, <1>4, <1>5, <1>6, <1>7, <1>8,
     <1>9, <1>10, <1>11, <1>12 DEF Task

\* It pays for one reply at most; what is left of Past after it had not
\* been past the cap check before, or has spent nothing since.  The calls
\* it begins are the calls it ends, but for the one in flight.
Calling(i) == IF pc[i] = "calling" THEN 1 ELSE 0

Paying(i, p) ==
  /\ p = 0 \/ (p = 1 /\ i \in Slots)
  /\ late' = IF p = 1 /\ ledger.priced + 1 = cap THEN Waiting ELSE late
  /\ i \in Past' => \/ ledger.priced + p < cap
                    \/ i \in Past /\ p = 0

Accounting(i) ==
  \E p, m, b, u \in {0, 1} :
     Adds(p, m, b, u) /\ Paying(i, p) /\ b + Calling(i) = p + m + u + Calling(i)'

\* What it saves is what it paid for, and it asks for nothing saved.
Saving(i) ==
  /\ saved' \subseteq Items /\ calls'.lost = calls.lost
  /\ \/ /\ saved' = saved /\ calls'.valid = calls.valid
        /\ pc[i] # "writing" /\ pc'[i] # "writing"
     \/ /\ saved' = saved /\ i \in Past /\ pc'[i] = "writing"
        /\ calls'.valid = [calls.valid EXCEPT ![i] = @ + 1]
     \/ /\ saved' = saved \cup {i} /\ calls'.valid = calls.valid
        /\ pc[i] = "writing" /\ pc'[i] = "ok"
  /\ i \in Past' => i \in Past \/ i \notin saved

\* It takes a slot it had, or a free one.
Holding(i) ==
  i \in Slots' => i \in Slots \/ Cardinality(Slots \ {i}) < Concurrency

\* Every exit of a call is counted once, and only a task past the cap
\* check is charged.
LEMMA TaskAccounting ==
  ASSUME TypeOK, NEW i \in Items, Task(i)
  PROVE  Accounting(i)
<1>0. /\ LedgerOK(ledger) /\ CallsOK(calls) /\ pc \in [Items -> Points]
      /\ {ledger.priced, ledger.markers, calls.begun, calls.unread} \subseteq Nat
  BY CounterTypes DEF TypeOK, Points
<1> DEFINE Ended(p, m, b, u) ==
             Paying(i, p) /\ b + Calling(i) = p + m + u + Calling(i)'
<1>a. ASSUME NEW p \in {0, 1}, NEW m \in {0, 1}, NEW b \in {0, 1}, NEW u \in {0, 1},
             Adds(p, m, b, u), Ended(p, m, b, u)
      PROVE  Accounting(i)
  BY <1>a DEF Accounting
<1> USE DEF disk, money, bounds, Points, Settled, Slots, Pay, Looping
<1>1. ASSUME UNCHANGED <<ledger, calls>> PROVE Adds(0, 0, 0, 0)
  BY <1>0, <1>1 DEF Adds
<1>2. ASSUME UNCHANGED ledger, Begin PROVE Adds(0, 0, 1, 0)
  BY <1>0, <1>2, BeginAdds DEF Adds
<1>3. CASE Skip(i) \/ OutcomeWins(i) \/ Write(i)
  <2>1. Ended(0, 0, 0, 0)
    BY <1>0, <1>3 DEF Skip, Ready, OutcomeWins, Write, Paying, Past, Calling
  <2> QED
    BY <1>a, <1>1, <1>3, <2>1 DEF Skip, OutcomeWins, Write
<1>4. CASE Start(i)
  <2>1. CASE UNCHANGED calls /\ pc'[i] \in {"queued", "raised"}
    <3>1. Ended(0, 0, 0, 0)
      BY <1>0, <1>4, <2>1 DEF Start, Ready, Guarded, Raise, Paying, Past, Calling
    <3> QED
      BY <1>a, <1>1, <1>4, <2>1, <3>1 DEF Start
  <2>2. CASE Begin /\ pc'[i] = "calling" /\ ledger.priced < cap
    <3>1. Ended(0, 0, 1, 0)
      BY <1>0, <1>4, <2>2 DEF Start, Ready, Paying, Past, Calling
    <3> QED
      BY <1>a, <1>2, <1>4, <2>2, <3>1 DEF Start
  <2> QED
    BY <1>0, <1>4, <2>1, <2>2 DEF Start, Guarded, TakeSlot, Raise
<1>5. CASE Acquire(i) \/ Again(i)
  <2>1. Ended(0, 0, 1, 0)
    BY <1>0, <1>5 DEF Acquire, Again, Ready, Paying, Past, Calling
  <2> QED
    BY <1>a, <1>2, <1>5, <2>1 DEF Acquire, Again
<1>6. CASE Valid(i)
  <2>1. Adds(1, 0, 0, 0)
    <3>1. ledger' = [ledger EXCEPT !.priced = @ + 1]
      BY <1>6 DEF Valid
    <3>2. calls' = [calls EXCEPT !.valid[i] = @ + 1]
      BY <1>6 DEF Valid
    <3>3. CallsOK(calls') /\ calls'.begun = calls.begun /\ calls'.unread = calls.unread
      BY <1>0, <3>2, ValidAdds
    <3> QED
      BY <1>0, <3>1, <3>3, PriceAdds DEF Adds
  <2>2. Ended(1, 0, 0, 0)
    BY <1>0, <1>6 DEF Valid, Pay, Ready, Paying, Past, Calling
  <2> QED
    BY <1>a, <2>1, <2>2
<1>7. CASE Invalid(i)
  <2>0. /\ LedgerOK(ledger') /\ pc[i] = "calling"
        /\ ledger'.priced = ledger.priced + 1 /\ ledger'.markers = ledger.markers
    BY <1>0, <1>7, PriceAdds DEF Invalid, Pay, Ready
  <2>1. CASE /\ UNCHANGED calls
           /\ \/ pc'[i] = "raised"
              \/ pc'[i] = "queued" /\ ledger.priced + 1 < cap
    <3>1. Ended(1, 0, 0, 0)
      BY <1>0, <1>7, <2>0, <2>1 DEF Invalid, Paying, Past, Calling
    <3>2. Adds(1, 0, 0, 0)
      BY <1>0, <2>0, <2>1 DEF Adds
    <3> QED
      BY <1>a, <3>1, <3>2
  <2>2. CASE Begin /\ pc'[i] = "calling" /\ ledger.priced + 1 < cap
    <3>1. Ended(1, 0, 1, 0)
      BY <1>0, <1>7, <2>0, <2>2 DEF Invalid, Paying, Past, Calling
    <3>2. Adds(1, 0, 1, 0)
      BY <1>0, <2>0, <2>2, BeginAdds DEF Adds
    <3> QED
      BY <1>a, <3>1, <3>2
  <2>3. ASSUME Raise(i, "invalid"), UNCHANGED calls PROVE Accounting(i)
    <3>1. pc'[i] = "raised"
      BY <1>0, <2>3 DEF Raise
    <3> QED
      BY <2>1, <2>3, <3>1
  <2>4. ASSUME Guarded(i, ledger.priced + 1) PROVE Accounting(i)
    <3>1. \/ UNCHANGED calls /\ pc'[i] = "raised"
          \/ ledger.priced + 1 < cap /\ UNCHANGED calls /\ pc'[i] = "queued"
          \/ ledger.priced + 1 < cap /\ Begin /\ pc'[i] = "calling"
      BY <1>0, <2>4 DEF Guarded, TakeSlot, Raise
    <3> QED
      BY <2>1, <2>2, <3>1
  <2> QED
    BY <1>7, <2>3, <2>4 DEF Invalid
<1>8. CASE Notice(i)
  <2>1. Adds(0, 0, 0, 1)
    BY <1>0, <1>8, UnreadAdds DEF Notice, Adds
  <2>2. Ended(0, 0, 0, 1)
    BY <1>0, <1>8 DEF Notice, Ready, Raise, Paying, Past, Calling
  <2> QED
    BY <1>a, <2>1, <2>2
<1>9. ASSUME NEW kind \in Kinds, Caught(i, kind), UNCHANGED <<calls, late>>,
             pc[i] = "calling"
      PROVE  Accounting(i)
  <2>1. Adds(0, 1, 0, 0)
    BY <1>0, <1>9, MarkerAdds DEF Caught, Adds
  <2>2. pc'[i] \in {"backoff", "raised"}
    BY <1>0, <1>9 DEF Caught, Raise, Kinds
  <2>3. Ended(0, 1, 0, 0)
    BY <1>0, <1>9, <2>2 DEF Paying, Past, Calling
  <2> QED
    BY <1>a, <2>1, <2>3
<1>10. CASE CloseFails(i) \/ \E kind \in Kinds : Fails(i, kind)
  BY <1>9, <1>10 DEF CloseFails, Fails, Ready, Kinds
<1>11. CASE Cancelled(i)
  <2>1. CASE pc[i] = "calling"
    <3>1. Adds(0, 0, 0, 1)
      BY <1>0, <1>11, <2>1, UnreadAdds DEF Cancelled, Adds
    <3>2. Ended(0, 0, 0, 1)
      BY <1>0, <1>11, <2>1 DEF Cancelled, Paying, Past, Calling
    <3> QED
      BY <1>a, <3>1, <3>2
  <2>2. CASE pc[i] # "calling"
    <3>1. Ended(0, 0, 0, 0)
      BY <1>0, <1>11, <2>2 DEF Cancelled, Paying, Past, Calling
    <3> QED
      BY <1>a, <1>1, <1>11, <2>2, <3>1 DEF Cancelled
  <2> QED
    BY <2>1, <2>2
<1> QED
  BY <1>3, <1>4, <1>5, <1>6, <1>7, <1>8, <1>10, <1>11 DEF Task

\* An artifact is written with its reply.
LEMMA TaskSaving ==
  ASSUME TypeOK, Unsaved, NEW i \in Items, Task(i)
  PROVE  Saving(i)
<1> USE ConstantFacts
    DEF TypeOK, Settled, Failures, disk, money, parent, task, bounds, Running,
        Looping, Saving, Past
<1>1. CASE Skip(i)
  BY <1>1 DEF Skip, Ready
<1>2. CASE Start(i)
  BY <1>2 DEF Start, Ready, Guarded, TakeSlot, Begin, Raise
<1>3. CASE Acquire(i)
  BY <1>3 DEF Acquire, Ready, Begin
<1>4. CASE Again(i)
  BY <1>4 DEF Again, Ready, Begin
<1>5. CASE Valid(i)
  BY <1>5 DEF Valid, Pay, Ready
<1>6. CASE Invalid(i)
  BY <1>6 DEF Invalid, Pay, Ready, Guarded, TakeSlot, Begin, Raise
<1>7. CASE Notice(i)
  BY <1>7 DEF Notice, Ready, Raise
<1>8. ASSUME NEW kind \in Kinds, Fails(i, kind) PROVE Saving(i)
  BY <1>8 DEF Fails, Ready, Caught, Raise
<1>9. CASE Cancelled(i)
  BY <1>9 DEF Cancelled
<1>10. CASE CloseFails(i)
  BY <1>10 DEF CloseFails, Caught, Raise
<1>11. CASE OutcomeWins(i)
  BY <1>11 DEF OutcomeWins
<1>12. CASE Write(i)
  BY <1>12 DEF Write
<1> QED
  BY <1>1, <1>2, <1>3, <1>4, <1>5, <1>6, <1>7, <1>8,
     <1>9, <1>10, <1>11, <1>12 DEF Task

\* The semaphore is the only way to a slot.
LEMMA TaskHolding ==
  ASSUME TypeOK, NEW i \in Items, Task(i)
  PROVE  Holding(i)
<1> USE ConstantFacts
    DEF TypeOK, Settled, Failures, disk, money, parent, task, bounds, Running,
        Looping, Holding, Slots
<1>1. CASE Skip(i)
  BY <1>1 DEF Skip, Ready
<1>2. CASE Start(i)
  BY <1>2 DEF Start, Ready, Guarded, TakeSlot, Begin, Raise
<1>3. CASE Acquire(i)
  BY <1>3 DEF Acquire, Ready, Begin
<1>4. CASE Again(i)
  BY <1>4 DEF Again, Ready, Begin
<1>5. CASE Valid(i)
  BY <1>5 DEF Valid, Pay, Ready
<1>6. CASE Invalid(i)
  BY <1>6 DEF Invalid, Pay, Ready, Guarded, TakeSlot, Begin, Raise
<1>7. CASE Notice(i)
  BY <1>7 DEF Notice, Ready, Raise
<1>8. ASSUME NEW kind \in Kinds, Fails(i, kind) PROVE Holding(i)
  BY <1>8 DEF Fails, Ready, Caught, Raise
<1>9. CASE Cancelled(i)
  BY <1>9 DEF Cancelled
<1>10. CASE CloseFails(i)
  BY <1>10 DEF CloseFails, Caught, Raise
<1>11. CASE OutcomeWins(i)
  BY <1>11 DEF OutcomeWins
<1>12. CASE Write(i)
  BY <1>12 DEF Write
<1> QED
  BY <1>1, <1>2, <1>3, <1>4, <1>5, <1>6, <1>7, <1>8,
     <1>9, <1>10, <1>11, <1>12 DEF Task

\* It joins the queue at its end or leaves it where it stood.
Queueing(i) ==
  \/ queue' = queue /\ (pc'[i] = "queued" <=> pc[i] = "queued")
  \/ queue' = Append(queue, i) /\ pc[i] # "queued" /\ pc'[i] = "queued"
  \/ /\ pc[i] = "queued" /\ pc'[i] # "queued"
     /\ \E n \in DOMAIN queue : queue[n] = i /\ queue' = Without(queue, n)

\* The queue and the queued tasks change together.
LEMMA TaskQueueing ==
  ASSUME TypeOK, WaitersQueued, NEW i \in Items, Task(i)
  PROVE  Queueing(i)
<1>0. pc \in [Items -> Points] /\ queue \in Seq(Items)
  BY DEF TypeOK, Points
<1> USE DEF task, Settled, Points, Waiting
<1>1. CASE UNCHANGED queue /\ pc[i] # "queued" /\ pc'[i] # "queued"
  BY <1>1 DEF Queueing
<1>2. CASE queue' = Append(queue, i) /\ pc[i] # "queued" /\ pc'[i] = "queued"
  BY <1>2 DEF Queueing
<1>3. CASE Skip(i)
  BY <1>0, <1>1, <1>3 DEF Skip, Ready
<1>4. CASE Start(i)
  BY <1>0, <1>1, <1>2, <1>4 DEF Start, Ready, Guarded, TakeSlot, Raise
<1>5. CASE Acquire(i)
  <2>1. pc[i] = "queued" /\ Head(queue) = i /\ queue' = Tail(queue)
        /\ pc'[i] = "calling"
    BY <1>0, <1>5 DEF Acquire, Ready
  <2>2. PICK n \in DOMAIN queue : queue[n] = i
    BY <2>1 DEF WaitersQueued, Waiting
  <2>3. Len(queue) \in Nat /\ 1 \in DOMAIN queue /\ queue[1] = i
    BY <1>0, <2>1, <2>2
  <2>4. Tail(queue) = Without(queue, 1)
    <3>1. /\ Tail(queue) \in Seq(Items) /\ Len(Tail(queue)) = Len(queue) - 1
          /\ \A m \in 1..Len(Tail(queue)) : Tail(queue)[m] = queue[m + 1]
      BY <1>0, <2>3, HeadTailProperties
    <3>2. /\ Without(queue, 1) \in Seq(Items) /\ Len(Without(queue, 1)) = Len(queue) - 1
          /\ \A m \in 1..(Len(queue) - 1) : Without(queue, 1)[m] = queue[m + 1]
      <4>1. /\ Without(queue, 1) \in Seq(Items)
            /\ DOMAIN Without(queue, 1) = 1..(Len(queue) - 1)
            /\ \A m \in 1..(Len(queue) - 1) :
                 Without(queue, 1)[m] = IF m < 1 THEN queue[m] ELSE queue[m + 1]
        BY <1>0, <2>3, WithoutFacts
      <4>2. Len(queue) - 1 \in Nat
        BY <2>3
      <4> HIDE DEF Without
      <4> QED
        BY <4>1, <4>2
    <3> QED
      BY <3>1, <3>2, SeqEqual
  <2> QED
    BY <2>1, <2>3, <2>4 DEF Queueing
<1>6. CASE Again(i) \/ Valid(i) \/ Write(i)
  BY <1>0, <1>1, <1>6 DEF Again, Valid, Write, Ready
<1>7. CASE Invalid(i)
  <2>1. pc[i] = "calling"
    BY <1>7 DEF Invalid, Pay, Ready
  <2>2. ASSUME Raise(i, "invalid"), UNCHANGED queue PROVE Queueing(i)
    <3>1. pc'[i] = "raised"
      BY <1>0, <2>2 DEF Raise
    <3> QED
      BY <1>1, <2>1, <2>2, <3>1
  <2>3. ASSUME Guarded(i, ledger.priced + 1) PROVE Queueing(i)
    BY <1>0, <1>1, <1>2, <2>1, <2>3 DEF Guarded, TakeSlot, Raise
  <2> QED
    BY <1>7, <2>2, <2>3 DEF Invalid
<1>8. CASE Notice(i)
  BY <1>0, <1>1, <1>8 DEF Notice, Ready, Raise
<1>9. ASSUME NEW kind \in Kinds, Caught(i, kind), UNCHANGED queue, pc[i] = "calling"
      PROVE  Queueing(i)
  <2>1. pc'[i] \in {"backoff", "raised"}
    BY <1>0, <1>9 DEF Caught, Raise, Kinds
  <2> QED
    BY <1>1, <1>9, <2>1
<1>10. CASE CloseFails(i) \/ \E kind \in Kinds : Fails(i, kind)
  BY <1>9, <1>10 DEF CloseFails, Fails, Ready, Kinds
<1>11. CASE Cancelled(i)
  <2>1. CASE pc[i] = "queued"
    BY <1>0, <1>11, <2>1 DEF Cancelled, Queueing
  <2>2. CASE pc[i] # "queued"
    BY <1>0, <1>1, <1>11, <2>2 DEF Cancelled
  <2> QED
    BY <2>1, <2>2
<1>12. CASE OutcomeWins(i)
  BY <1>12 DEF OutcomeWins, Queueing
<1> QED
  BY <1>3, <1>4, <1>5, <1>6, <1>7, <1>8, <1>10, <1>11, <1>12 DEF Task

-----------------------------------------------------------------------------
(* What such a step keeps.                                                 *)

\* Only i moves, so a set of the others by program point stays.
LEMMA OthersStay ==
  ASSUME NEW i \in Items, Shape(i), NEW P \in SUBSET Points
  PROVE  {j \in Items : pc'[j] \in P} \ {i} = {j \in Items : pc[j] \in P} \ {i}
BY DEF Shape

\* Cardinality of a set in which one element may come or go.
LEMMA OneMoves ==
  ASSUME NEW S \in SUBSET Items, NEW T \in SUBSET Items, NEW i \in Items,
         S \ {i} = T \ {i}
  PROVE  /\ Cardinality(S \ {i}) \in Nat
         /\ Cardinality(S) = Cardinality(S \ {i}) + (IF i \in S THEN 1 ELSE 0)
         /\ Cardinality(T) = Cardinality(S \ {i}) + (IF i \in T THEN 1 ELSE 0)
<1>1. /\ IsFiniteSet(S) /\ Cardinality(S) \in Nat /\ Cardinality(S \ {i}) \in Nat
      /\ IsFiniteSet(T) /\ Cardinality(T) \in Nat
  <2>1. S \ {i} \in SUBSET Items
    OBVIOUS
  <2> QED
    BY <2>1, ItemSets
<1>2. Cardinality(S \ {i}) = IF i \in S THEN Cardinality(S) - 1 ELSE Cardinality(S)
  BY <1>1, FS_RemoveElement
<1>3. Cardinality(T \ {i}) = IF i \in T THEN Cardinality(T) - 1 ELSE Cardinality(T)
  BY <1>1, FS_RemoveElement
<1>4. Cardinality(T \ {i}) = Cardinality(S \ {i})
  OBVIOUS
<1>5. CASE i \in S
  BY <1>1, <1>2, <1>3, <1>4, <1>5
<1>6. CASE i \notin S
  BY <1>1, <1>2, <1>3, <1>4, <1>6
<1> QED
  BY <1>5, <1>6

LEMMA TaskSlots ==
  ASSUME TypeOK, SlotsRespected, NEW i \in Items, Task(i)
  PROVE  SlotsRespected'
<1>1. Shape(i) /\ Holding(i)
  BY TaskShape, TaskHolding
<1>2. Slots \in SUBSET Items /\ Slots' \in SUBSET Items
  BY DEF Slots
<1>3. Slots' \ {i} = Slots \ {i}
  BY <1>1, OthersStay DEF Slots, Points
<1>4. /\ Cardinality(Slots \ {i}) \in Nat
      /\ Cardinality(Slots) = Cardinality(Slots \ {i}) + (IF i \in Slots THEN 1 ELSE 0)
      /\ Cardinality(Slots') = Cardinality(Slots \ {i}) + (IF i \in Slots' THEN 1 ELSE 0)
  BY <1>2, <1>3, OneMoves
<1> QED
  BY <1>1, <1>4, ConstantFacts DEF SlotsRespected, Holding

LEMMA TaskAttempts ==
  ASSUME TypeOK, AttemptsAccounted, NEW i \in Items, Task(i)
  PROVE  AttemptsAccounted'
<1> DEFINE C == {j \in Items : pc[j] = "calling"}
<1>1. Shape(i) /\ Accounting(i)
  BY TaskShape, TaskAccounting
<1>2. PICK p, m, b, u \in {0, 1} :
        Adds(p, m, b, u) /\ b + Calling(i) = p + m + u + Calling(i)'
  BY <1>1 DEF Accounting
<1>3. C \in SUBSET Items /\ C' \in SUBSET Items /\ C' \ {i} = C \ {i}
  BY <1>1 DEF Shape
<1>4. /\ Cardinality(C \ {i}) \in Nat
      /\ Cardinality(C) = Cardinality(C \ {i}) + Calling(i)
      /\ Cardinality(C') = Cardinality(C \ {i}) + Calling(i)'
  BY <1>3, OneMoves DEF Calling
<1>5. calls.begun = ledger.priced + ledger.markers + calls.unread + Cardinality(C)
  BY DEF AttemptsAccounted
<1>6. Calling(i) \in {0, 1} /\ Calling(i)' \in {0, 1}
  BY DEF Calling
<1>7. calls'.begun = ledger'.priced + ledger'.markers + calls'.unread + Cardinality(C')
  <2> HIDE DEF C
  <2>1. /\ ledger.priced \in Nat /\ ledger.markers \in Nat
        /\ calls.begun \in Nat /\ calls.unread \in Nat
    BY CounterTypes
  <2>2. /\ ledger'.priced = ledger.priced + p /\ ledger'.markers = ledger.markers + m
        /\ calls'.begun = calls.begun + b /\ calls'.unread = calls.unread + u
    BY <1>2 DEF Adds
  <2> QED
    BY <1>2, <1>4, <1>5, <1>6, <2>1, <2>2
<1> QED
  BY <1>7 DEF AttemptsAccounted

LEMMA TaskBudget ==
  ASSUME TypeOK, SlotsRespected, Budgeted, NEW i \in Items, Task(i)
  PROVE  late' \subseteq Items /\ Budgeted'
<1>1. Shape(i) /\ Accounting(i)
  BY TaskShape, TaskAccounting
<1>2. PICK p, m, b, u \in {0, 1} : Adds(p, m, b, u) /\ Paying(i, p)
  BY <1>1 DEF Accounting
<1>3. /\ Past \in SUBSET Items /\ Past' \in SUBSET Items /\ Past' \ {i} = Past \ {i}
      /\ Slots \in SUBSET Items /\ Waiting \in SUBSET Items /\ Past = Slots \cup Waiting
  BY <1>1 DEF Shape, Past, Slots, Waiting
<1>4. /\ Cardinality(Past \ {i}) \in Nat
      /\ Cardinality(Past) = Cardinality(Past \ {i}) + (IF i \in Past THEN 1 ELSE 0)
      /\ Cardinality(Past') = Cardinality(Past \ {i}) + (IF i \in Past' THEN 1 ELSE 0)
  BY <1>3, OneMoves
<1>5. Cardinality(Past) <= Cardinality(Slots) + Cardinality(Waiting)
  <2>1. Slots \cap Waiting \in SUBSET Items
    BY <1>3
  <2>2. /\ IsFiniteSet(Slots) /\ IsFiniteSet(Waiting)
        /\ Cardinality(Slots \cap Waiting) \in Nat
        /\ Cardinality(Slots) \in Nat /\ Cardinality(Waiting) \in Nat
    BY <1>3, <2>1, ItemSets
  <2>3. Cardinality(Slots \cup Waiting) =
          Cardinality(Slots) + Cardinality(Waiting) - Cardinality(Slots \cap Waiting)
    BY <2>2, FS_Union
  <2>4. Cardinality(Past) = Cardinality(Slots \cup Waiting)
    BY <1>3
  <2> QED
    BY <2>2, <2>3, <2>4
<1>6. cap' = cap /\ cap \in Nat /\ late \in SUBSET Items
  BY <1>1, ConstantFacts DEF Shape, TypeOK
<1>7. Cardinality(late) \in Nat /\ Cardinality(Waiting) \in Nat /\ Cardinality(Slots) \in Nat
  BY <1>3, <1>6, ItemSets
<1>8. late' \subseteq Items
  BY <1>2, <1>3, <1>6 DEF Paying
<1>9. ledger'.priced = ledger.priced + p /\ ledger.priced \in Nat
  BY <1>2, CounterTypes DEF Adds
<1>10. CASE p = 1 /\ ledger.priced + 1 = cap
  <2>1. Cardinality(late') = Cardinality(Waiting)
    BY <1>2, <1>10 DEF Paying
  <2>2. i \in Past /\ i \notin Past'
    BY <1>2, <1>3, <1>9, <1>10 DEF Paying
  <2> QED
    BY <1>4, <1>5, <1>6, <1>7, <1>8, <1>9, <1>10, <2>1, <2>2, ConstantFacts
       DEF Budgeted, SlotsRespected
<1>11. CASE ~(p = 1 /\ ledger.priced + 1 = cap)
  <2>1. Cardinality(late') = Cardinality(late)
    BY <1>2, <1>11 DEF Paying
  <2>2. /\ p = 1 => i \in Past
        /\ i \in Past' => ledger.priced + p < cap \/ (i \in Past /\ p = 0)
    BY <1>2, <1>3 DEF Paying
  <2> QED
    BY <1>4, <1>6, <1>7, <1>8, <1>9, <1>11, <2>1, <2>2, ConstantFacts DEF Budgeted
<1> QED
  BY <1>10, <1>11

LEMMA TaskOnce ==
  ASSUME TypeOK, Unsaved, PaidOnce, NEW i \in Items, Task(i)
  PROVE  Unsaved' /\ PaidOnce'
<1>1. /\ Shape(i) /\ Saving(i)
      /\ calls.valid \in [Items -> Nat] /\ calls.lost \in [Items -> Nat]
  BY TaskShape, TaskSaving, CounterTypes
<1>2. \A j \in Items \ {i} : pc'[j] = pc[j] /\ (j \in Past' <=> j \in Past)
  BY <1>1 DEF Shape, Past
<1>3. \A j \in Items \ {i} : (j \in saved' <=> j \in saved) /\ calls'.valid[j] = calls.valid[j]
  BY <1>1 DEF Saving
<1>4. /\ i \in Past' \/ pc'[i] = "writing" => i \notin saved'
      /\ calls'.valid[i] = calls'.lost[i] + (IF i \in saved' THEN 1 ELSE 0)
                                         + (IF pc'[i] = "writing" THEN 1 ELSE 0)
  <2>1. i \in Past' => pc'[i] \notin {"writing", "ok"}
    BY DEF Past
  <2>2. i \in Past => pc[i] # "writing"
    BY DEF Past
  <2> QED
    BY <1>1, <2>1, <2>2 DEF Saving, Unsaved, PaidOnce
<1>5. calls'.lost = calls.lost
  BY <1>1 DEF Saving
<1> QED
  BY <1>2, <1>3, <1>4, <1>5 DEF Unsaved, PaidOnce

LEMMA TaskCauses ==
  ASSUME TypeOK, Causes, NEW i \in Items, Task(i)
  PROVE  Causes' /\ PausedIsQuiet' /\ PauseNamesCause'
<1>1. Shape(i) /\ Raising(i)
  BY TaskShape, TaskRaising
<1>2. PausedIsQuiet' /\ PauseNamesCause'
  BY <1>1 DEF PausedIsQuiet, PauseNamesCause, Shape, Running
<1>3. Causes'
  BY <1>1 DEF Causes, Shape, Raising, TypeOK, Settled, Failures
<1> QED
  BY <1>2, <1>3

\* A queue without repetition keeps its members when one is added or taken.
LEMMA TaskWaiters ==
  ASSUME TypeOK, WaitersQueued, NEW i \in Items, Task(i)
  PROVE  queue' \in Seq(Items) /\ WaitersQueued'
<1>0. queue \in Seq(Items)
  BY DEF TypeOK
<1>1. /\ Shape(i) /\ Queueing(i)
      /\ Len(queue) \in Nat /\ DOMAIN queue = 1..Len(queue)
  BY <1>0, TaskShape, TaskQueueing
<1>2. \A j \in Items \ {i} : pc'[j] = pc[j]
  BY <1>1 DEF Shape
<1>3. \A n \in DOMAIN queue : queue[n] \in Items /\ pc[queue[n]] = "queued"
  BY <1>1 DEF WaitersQueued, Waiting
<1>4. \A j \in Items : pc[j] = "queued" => \E n \in DOMAIN queue : queue[n] = j
  BY DEF WaitersQueued, Waiting
<1>5. CASE queue' = queue /\ (pc'[i] = "queued" <=> pc[i] = "queued")
  <2>1. {j \in Items : pc'[j] = "queued"} = {j \in Items : pc[j] = "queued"}
    BY <1>2, <1>5
  <2> QED
    BY <1>0, <1>5, <2>1 DEF WaitersQueued, Waiting
<1>6. CASE queue' = Append(queue, i) /\ pc[i] # "queued" /\ pc'[i] = "queued"
  <2>1. /\ queue' \in Seq(Items) /\ DOMAIN queue' = 1..(Len(queue) + 1)
        /\ \A n \in DOMAIN queue : queue'[n] = queue[n]
        /\ queue'[Len(queue) + 1] = i
    BY <1>0, <1>1, <1>6
  <2>2. \A m, n \in DOMAIN queue' : queue'[m] = queue'[n] => m = n
    <3>1. \A n \in DOMAIN queue : queue[n] # i
      BY <1>3, <1>6
    <3> QED
      BY <1>1, <2>1, <3>1 DEF WaitersQueued, Waiting
  <2>3. \A n \in DOMAIN queue' : queue'[n] \in Items /\ pc'[queue'[n]] = "queued"
    BY <1>1, <1>2, <1>3, <1>6, <2>1
  <2>4. \A j \in Items : pc'[j] = "queued" => \E n \in DOMAIN queue' : queue'[n] = j
    BY <1>1, <1>2, <1>4, <2>1
  <2> QED
    BY <2>1, <2>2, <2>3, <2>4 DEF WaitersQueued, Waiting
<1>7. ASSUME pc[i] = "queued", pc'[i] # "queued",
             NEW n \in DOMAIN queue, queue[n] = i, queue' = Without(queue, n)
      PROVE  queue' \in Seq(Items) /\ WaitersQueued'
  <2>1. /\ queue' \in Seq(Items) /\ DOMAIN queue' = 1..(Len(queue) - 1)
        /\ \A m \in 1..(Len(queue) - 1) :
             queue'[m] = IF m < n THEN queue[m] ELSE queue[m + 1]
    BY <1>0, <1>7, WithoutFacts
  <2>2. \A m \in DOMAIN queue' : \E k \in DOMAIN queue \ {n} : queue'[m] = queue[k]
    BY <1>1, <2>1
  <2>3. \A k \in DOMAIN queue \ {n} : \E m \in DOMAIN queue' : queue'[m] = queue[k]
    <3> TAKE k \in DOMAIN queue \ {n}
    <3>1. CASE k < n
      BY <1>1, <2>1, <3>1
    <3>2. CASE k > n
      <4>1. k - 1 \in DOMAIN queue' /\ queue'[k - 1] = queue[k]
        BY <1>1, <2>1, <3>2
      <4> QED
        BY <4>1
    <3> QED
      BY <1>1, <3>1, <3>2
  <2>4. \A l, m \in DOMAIN queue' : queue'[l] = queue'[m] => l = m
    <3> DEFINE at(m) == IF m < n THEN m ELSE m + 1
    <3>1. \A m \in DOMAIN queue' : at(m) \in DOMAIN queue /\ queue'[m] = queue[at(m)]
      BY <1>1, <2>1
    <3>2. \A l, m \in DOMAIN queue' : at(l) = at(m) => l = m
      BY <1>1, <2>1
    <3> HIDE DEF at
    <3> QED
      BY <3>1, <3>2 DEF WaitersQueued, Waiting
  <2>5. \A m \in DOMAIN queue' : queue'[m] \in Items /\ pc'[queue'[m]] = "queued"
    <3>1. \A k \in DOMAIN queue \ {n} : queue[k] # i
      BY <1>7 DEF WaitersQueued, Waiting
    <3> QED
      BY <1>2, <1>3, <2>2, <3>1
  <2>6. \A j \in Items : pc'[j] = "queued" => \E m \in DOMAIN queue' : queue'[m] = j
    BY <1>2, <1>4, <1>7, <2>3
  <2> QED
    BY <2>1, <2>4, <2>5, <2>6 DEF WaitersQueued, Waiting
<1> QED
  BY <1>1, <1>5, <1>6, <1>7 DEF Queueing

\* Together: a task's step keeps the invariant.
LEMMA TaskStep ==
  ASSUME IInv, NEW i \in Items, Task(i)
  PROVE  IInv'
<1> USE DEF IInv
<1>1. /\ Shape(i) /\ Raising(i) /\ Trying(i) /\ Accounting(i) /\ Saving(i)
      /\ queue' \in Seq(Items) /\ WaitersQueued'
  BY TaskShape, TaskRaising, TaskTrying, TaskAccounting, TaskSaving, TaskWaiters
<1>2. LedgerOK(ledger') /\ CallsOK(calls')
  BY <1>1 DEF Accounting, Adds
<1>3. cancelling' \subseteq {j \in Live' : pc'[j] # "writing"}
  BY <1>1 DEF Shape, Live, TypeOK
<1>4. TypeOK'
  BY <1>1, <1>2, <1>3, TaskBudget DEF TypeOK, Shape, Raising, Trying, Saving, Points,
     LedgerOK, CallsOK
<1>5. Scheduled'
  BY <1>1 DEF Scheduled, Shape, Trying
<1> QED
  BY <1>1, <1>4, <1>5, TaskSlots, TaskAttempts, TaskBudget, TaskOnce, TaskCauses

-----------------------------------------------------------------------------
(* gather_strict, kills and resumes.                                       *)

\* The exception named is one that a task raised, in the order of preference.
LEMMA NamedCause ==
  ASSUME TypeOK, Causes, phase = "draining"
  PROVE  /\ Named \in Failures
         /\ \E i \in Items : exc[i] = Named
         /\ (\E i \in Items : exc[i] = "limit") => Named = "limit"
         /\ ((\E i \in Items : exc[i] = "capped") /\ \A i \in Items : exc[i] # "limit")
               => Named = "capped"
<1>1. first \in Failures /\ \E i \in Items : exc[i] = first
  BY DEF TypeOK, Causes
<1>2. CASE \E i \in Items : exc[i] = "limit"
  <2>1. Named = "limit"
    BY <1>2 DEF Named
  <2> QED
    BY <1>2, <2>1 DEF Failures
<1>3. CASE (\A i \in Items : exc[i] # "limit") /\ \E i \in Items : exc[i] = "capped"
  <2>1. Named = "capped"
    BY <1>3 DEF Named
  <2> QED
    BY <1>3, <2>1 DEF Failures
<1>4. CASE \A i \in Items : exc[i] \notin {"limit", "capped"}
  <2>1. Named = first
    BY <1>4 DEF Named
  <2> QED
    BY <1>1, <1>4, <2>1
<1> QED
  BY <1>2, <1>3, <1>4

LEMMA ParentStep ==
  ASSUME IInv, Stop \/ Pause \/ Return
  PROVE  IInv'
<1> USE DEF IInv
<1>1. UNCHANGED <<saved, ledger, cap, late, first, pc, try, attempt, exc, queue, calls,
                  faults, resumes>>
  BY DEF Stop, Pause, Return, disk, money, bounds, task
<1>2. Live' = Live /\ Slots' = Slots /\ Past' = Past
  BY <1>1 DEF Live, Slots, Past
<1>3. /\ phase' \in {"draining", "paused", "done"}
      /\ reason' \in Failures \cup {"none", "killed"}
      /\ cancelling' \subseteq {i \in Live : pc[i] # "writing"}
  BY NamedCause DEF Stop, Pause, Return, task, TypeOK, Looping, Live
<1>4. TypeOK'
  BY <1>1, <1>2, <1>3 DEF TypeOK
<1>5. Scheduled' /\ WaitersQueued' /\ Unsaved' /\ PaidOnce' /\ AttemptsAccounted'
  BY <1>1, <1>2 DEF Scheduled, WaitersQueued, Waiting, Unsaved, PaidOnce, AttemptsAccounted
<1>6. SlotsRespected' /\ Budgeted'
  BY <1>1, <1>2 DEF SlotsRespected, Budgeted
<1>7. Causes'
  BY <1>1, <1>3 DEF Causes, Stop, Pause, Return
<1>8. PausedIsQuiet'
  BY <1>2, <1>3 DEF PausedIsQuiet, Stop, Pause, Return, Live, Settled
<1>9. PauseNamesCause'
  <2>1. CASE Pause
    BY <1>1, <2>1, NamedCause DEF Pause, PauseNamesCause
  <2>2. CASE Stop \/ Return
    BY <2>2 DEF Stop, Return, PauseNamesCause
  <2> QED
    BY <2>1, <2>2
<1> QED
  BY <1>4, <1>5, <1>6, <1>7, <1>8, <1>9

\* A kill moves every task that is not settled to "cancelled".
LEMMA KillStep ==
  ASSUME IInv, Kill
  PROVE  IInv'
<1> USE ConstantFacts DEF IInv
<1> DEFINE C == {i \in Items : pc[i] = "calling"}
           Writing(i) == IF pc[i] = "writing" THEN 1 ELSE 0
<1>1. /\ pc \in [Items -> Points] /\ pc' \in [Items -> Points]
      /\ \A i \in Items : pc'[i] = IF pc[i] \in Settled THEN pc[i] ELSE "cancelled"
  BY DEF Kill, TypeOK, Points, Settled
<1>2. Slots' = {} /\ Past' = {} /\ Live' = {} /\ C' = {}
  BY <1>1 DEF Slots, Past, Live, Settled
<1>3. /\ UNCHANGED <<saved, ledger, cap, late, first, try, attempt, exc, resumes>>
      /\ phase' = "paused" /\ reason' = "killed" /\ queue' = <<>> /\ cancelling' = {}
      /\ faults' = faults + 1
      /\ calls' = [calls EXCEPT !.unread = @ + Cardinality(C),
                               !.lost = [i \in Items |-> @[i] + Writing(i)]]
  BY DEF Kill, disk, money
<1>4. C \in SUBSET Items /\ Cardinality(C) \in Nat
  BY ItemSets
<1>5. /\ CallsOK(calls') /\ calls'.begun = calls.begun
      /\ calls'.unread = calls.unread + Cardinality(C) /\ calls'.valid = calls.valid
      /\ calls'.lost = [i \in Items |-> calls.lost[i] + Writing(i)]
  <2> HIDE DEF C
  <2>1. [i \in Items |-> calls.lost[i] + Writing(i)] \in [Items -> Nat]
    <3>1. \A i \in Items : calls.lost[i] \in Nat /\ Writing(i) \in Nat
      BY CounterTypes
    <3> HIDE DEF Writing
    <3> QED
      BY <3>1
  <2>2. CallsOK(calls)
    BY CounterTypes
  <2>3. ASSUME NEW n \in Nat, NEW ls \in [Items -> Nat],
               calls' = [calls EXCEPT !.unread = @ + n, !.lost = ls]
        PROVE  /\ CallsOK(calls') /\ calls'.begun = calls.begun
               /\ calls'.unread = calls.unread + n /\ calls'.valid = calls.valid
               /\ calls'.lost = ls
    <3>1. calls' = [calls EXCEPT !.unread = calls.unread + n, !.lost = ls]
      BY <2>3
    <3>2. /\ calls = [begun |-> calls.begun, unread |-> calls.unread,
                      valid |-> calls.valid, lost |-> calls.lost]
          /\ calls.begun \in Nat /\ calls.unread \in Nat /\ calls.valid \in [Items -> Nat]
      BY <2>2 DEF CallsOK
    <3>3. calls' = [begun |-> calls.begun, unread |-> calls.unread + n,
                    valid |-> calls.valid, lost |-> ls]
      BY <3>1, <3>2
    <3> QED
      BY <3>2, <3>3 DEF CallsOK
  <2>4. calls' = [calls EXCEPT !.unread = @ + Cardinality(C),
                             !.lost = [i \in Items |-> calls.lost[i] + Writing(i)]]
    BY <1>3, <2>2 DEF CallsOK
  <2> HIDE DEF Writing
  <2> QED
    BY <1>4, <2>1, <2>3, <2>4
<1>6. TypeOK'
  <2>1. calls' \in [begun : Nat, unread : Nat, valid : [Items -> Nat], lost : [Items -> Nat]]
    BY <1>5 DEF CallsOK
  <2>2. queue' \in Seq(Items) /\ cancelling' \subseteq Live' /\ faults' \in Nat
    BY <1>3 DEF TypeOK
  <2>3. phase' \in {"paused"} /\ reason' \in {"killed"}
    BY <1>3
  <2> QED
    BY <1>1, <1>3, <2>1, <2>2, <2>3 DEF TypeOK, Points
<1>7. Scheduled' /\ WaitersQueued' /\ Unsaved'
  BY <1>1, <1>2, <1>3, <1>5 DEF Scheduled, WaitersQueued, Waiting, Unsaved, Settled
<1>8. Cardinality(Slots') = 0 /\ Cardinality(Past') = 0 /\ Cardinality(C') = 0
  BY <1>2, FS_EmptySet
<1>9. SlotsRespected'
  BY <1>8 DEF SlotsRespected
<1>10. Budgeted'
  <2>1. Past \in SUBSET Items /\ late \in SUBSET Items
    BY DEF Past, TypeOK
  <2>2. /\ Cardinality(Past) \in Nat /\ Cardinality(late) \in Nat
        /\ cap \in Nat /\ ledger.priced \in Nat
    BY <2>1, ItemSets, CounterTypes DEF TypeOK
  <2> QED
    BY <1>3, <1>8, <2>2 DEF Budgeted
<1>11. AttemptsAccounted'
  <2>1. calls.begun = ledger.priced + ledger.markers + calls.unread + Cardinality(C)
    BY DEF AttemptsAccounted
  <2>2. calls'.begun = ledger'.priced + ledger'.markers + calls'.unread + Cardinality(C')
    <3> HIDE DEF C
    <3> QED
      BY <1>3, <1>4, <1>5, <1>8, <2>1, CounterTypes
  <2> QED
    BY <2>2 DEF AttemptsAccounted
<1>12. Causes' /\ PausedIsQuiet' /\ PauseNamesCause'
  BY <1>1, <1>2, <1>3 DEF Causes, PausedIsQuiet, PauseNamesCause, Settled
<1>13. PaidOnce'
  <2>1. \A i \in Items : pc'[i] # "writing" /\ calls'.lost[i] = calls.lost[i] + Writing(i)
    BY <1>1, <1>5 DEF Settled
  <2>2. calls.valid \in [Items -> Nat] /\ calls.lost \in [Items -> Nat]
    BY CounterTypes
  <2>3. ASSUME NEW i \in Items
        PROVE  calls'.valid[i] = calls'.lost[i] + (IF i \in saved' THEN 1 ELSE 0)
                                              + (IF pc'[i] = "writing" THEN 1 ELSE 0)
    <3>1. calls.valid[i] = calls.lost[i] + (IF i \in saved THEN 1 ELSE 0) + Writing(i)
      BY DEF PaidOnce
    <3> QED
      BY <1>3, <1>5, <2>1, <2>2, <3>1
  <2> QED
    BY <2>3 DEF PaidOnce
<1> QED
  BY <1>6, <1>7, <1>9, <1>10, <1>11, <1>12, <1>13

\* A resume finds no task left and starts them all anew.
LEMMA ResumeStep ==
  ASSUME IInv, Resume
  PROVE  IInv'
<1> USE ConstantFacts DEF IInv
<1> DEFINE C == {i \in Items : pc[i] = "calling"}
<1>1. /\ phase = "paused" /\ phase' = "gathering"
      /\ cap' \in Caps /\ cap' >= cap /\ resumes' = resumes + 1
      /\ UNCHANGED <<saved, ledger, late, calls, faults>>
  BY DEF Resume
<1>2. /\ first' = "none" /\ reason' = "none" /\ queue' = <<>> /\ cancelling' = {}
      /\ pc' = [i \in Items |-> "new"] /\ exc' = [i \in Items |-> "none"]
      /\ try' = [i \in Items |-> 1] /\ attempt' = [i \in Items |-> 0]
  BY DEF Resume, Fresh
<1>3. Slots' = {} /\ Past' = {} /\ C' = {} /\ Live = {}
  BY <1>1, <1>2 DEF Slots, Past, PausedIsQuiet
<1>4. C = {}
  BY <1>3 DEF Live, Settled
<1>5. TypeOK'
  BY <1>1, <1>2 DEF TypeOK, Live, Settled, Failures
<1>6. Scheduled' /\ WaitersQueued' /\ Unsaved' /\ PaidOnce'
  <2>1. \A i \in Items : pc[i] # "writing" /\ pc'[i] # "writing"
    BY <1>2, <1>3 DEF Live, Settled
  <2> QED
    BY <1>1, <1>2, <1>3, <2>1 DEF Scheduled, WaitersQueued, Waiting, Unsaved, PaidOnce
<1>7. Cardinality(Slots') = 0 /\ Cardinality(Past') = 0
  BY <1>3, FS_EmptySet
<1>8. SlotsRespected'
  BY <1>7 DEF SlotsRespected
<1>9. Budgeted'
  <2>1. Past \in SUBSET Items /\ late \in SUBSET Items
    BY DEF Past, TypeOK
  <2>2. /\ Cardinality(Past) \in Nat /\ Cardinality(late) \in Nat
        /\ {cap, cap'} \subseteq Nat /\ ledger.priced \in Nat
    BY <1>1, <2>1, ItemSets, CounterTypes DEF TypeOK
  <2> QED
    BY <1>1, <1>7, <2>2 DEF Budgeted
<1>10. AttemptsAccounted'
  BY <1>1, <1>3, <1>4 DEF AttemptsAccounted
<1>11. Causes' /\ PausedIsQuiet' /\ PauseNamesCause'
  BY <1>1, <1>2 DEF Causes, PausedIsQuiet, PauseNamesCause
<1> QED
  BY <1>5, <1>6, <1>8, <1>9, <1>10, <1>11

LEMMA NextInvariant == IInv /\ [Next]_vars => IInv'
<1> SUFFICES ASSUME IInv, [Next]_vars PROVE IInv'
  OBVIOUS
<1>1. CASE UNCHANGED vars
  <2> USE DEF IInv
  <2>1. /\ UNCHANGED <<saved, ledger, cap, phase, first, reason, pc, try, attempt>>
        /\ UNCHANGED <<exc, queue, cancelling, calls, late, faults, resumes>>
    BY <1>1 DEF vars, disk, money, parent, task, bounds
  <2>2. Live' = Live /\ Slots' = Slots /\ Past' = Past
    BY <2>1 DEF Live, Slots, Past
  <2>3. TypeOK'
    BY <2>1, <2>2 DEF TypeOK
  <2>4. Scheduled' /\ WaitersQueued' /\ SlotsRespected' /\ Budgeted'
    BY <2>1, <2>2 DEF Scheduled, WaitersQueued, Waiting, SlotsRespected, Budgeted
  <2>5. Unsaved' /\ PaidOnce' /\ AttemptsAccounted'
    BY <2>1, <2>2 DEF Unsaved, PaidOnce, AttemptsAccounted
  <2>6. Causes' /\ PausedIsQuiet' /\ PauseNamesCause'
    BY <2>1, <2>2 DEF Causes, PausedIsQuiet, PauseNamesCause
  <2> QED
    BY <2>3, <2>4, <2>5, <2>6
<1> QED
  BY <1>1, TaskStep, ParentStep, KillStep, ResumeStep DEF Next

\* IInv holds in every reachable state: what the fan-out of aio.py and the
\* retry loops of dispatch.py keep for all constants.
THEOREM Invariant == Spec => []IInv
BY InitInvariant, NextInvariant, PTL DEF Spec

\* Every reachable state is well typed: tries and schema attempts stay in
\* their budgets, and only live tasks have a cancellation to deliver.
THEOREM TypeCorrect == Spec => []TypeOK
<1>1. IInv => TypeOK
  BY DEF IInv
<1> QED
  BY <1>1, Invariant, PTL

\* Never more calls in flight than slots, and the semaphore's queue holds the
\* waiting tasks once each, for any number of items and any pattern of
\* failures and cancellations (_semaphore, gather_strict).
THEOREM SlotsKept == Spec => [](SlotsRespected /\ WaitersQueued)
<1>1. IInv => SlotsRespected /\ WaitersQueued
  BY DEF IInv
<1> QED
  BY <1>1, Invariant, PTL

\* What is spent past the cap is below one price per slot, as the README has
\* it, and one per task that was waiting for a slot when the cap was reached,
\* for every cap and any number of items and slots (_guarded_invoke).
THEOREM OverrunBounded == Spec => []OverrunExplained
<1>1. IInv => OverrunExplained
  <2> SUFFICES ASSUME IInv PROVE OverrunExplained
    OBVIOUS
  <2>1. Past \in SUBSET Items /\ late \in SUBSET Items
    BY DEF Past, IInv, TypeOK
  <2>2. /\ Cardinality(Past) \in Nat /\ Cardinality(late) \in Nat
        /\ cap \in Nat /\ ledger.priced \in Nat
    BY <2>1, ItemSets, ConstantFacts, CounterTypes DEF IInv, TypeOK
  <2> QED
    BY <2>2, ConstantFacts DEF IInv, Budgeted, OverrunExplained
<1> QED
  BY <1>1, Invariant, PTL

\* Every call begun is in the ledger, in flight or was abandoned, once
\* (run_agent, _record_failed_attempt, gather_strict's cancellations).
THEOREM CallsAccounted == Spec => []AttemptsAccounted
<1>1. IInv => AttemptsAccounted
  BY DEF IInv
<1> QED
  BY <1>1, Invariant, PTL

\* Over any number of pauses, kills and resumes an item's valid replies are
\* its artifact on disk or on its way there, and one for each kill that fell
\* between the entry of a reply and its artifact.
THEOREM NothingPaidTwice == Spec => []PaidOnce
<1>1. IInv => PaidOnce
  BY DEF IInv
<1> QED
  BY <1>1, Invariant, PTL

\* A fan-out that ended has no task left, and a pause names the cause a
\* human can act on (gather_strict's drain and its order of preference).
THEOREM PausesExplained == Spec => [](PausedIsQuiet /\ PauseNamesCause)
<1>1. IInv => PausedIsQuiet /\ PauseNamesCause
  BY DEF IInv
<1> QED
  BY <1>1, Invariant, PTL
=============================================================================
