------------------------------ MODULE Dispatch ------------------------------
(***************************************************************************)
(* One fan-out of a stage: gather_strict (aio.py) starts one task per item *)
(* (a cartographer, an angle, a finalist), each task calls run_agent of    *)
(* the one dispatcher (agents_runtime/dispatch.py) and writes its artifact *)
(* as soon as its reply is valid.  Every call passes _guarded_invoke: the  *)
(* spend cap, the semaphore, the retries with backoff.  A human resumes a  *)
(* run that paused, and the items already on disk are skipped.             *)
(*                                                                         *)
(* The tasks are coroutines of one event loop: a step here is what a task  *)
(* does between two awaits, but for the entry a valid reply is ledgered    *)
(* with and the artifact written from it, two files that only the death of *)
(* the process can come between.  A cancellation is delivered at the await *)
(* the task is parked in.                                                  *)
(***************************************************************************)
EXTENDS Naturals, Sequences, FiniteSets

CONSTANTS
  Items,               \* what the stage fans out over
  Concurrency,         \* config.concurrency
  MaxSchemaRetries,    \* config.caps.max_schema_retries
  Tries,               \* calls per attempt: one more than the backoffs
  Caps,                \* the spend caps a human may set, in calls' prices
  MaxFaults,           \* bound: failed calls, limit notices and kills
  MaxResumes           \* bound: times the stage is executed again

ASSUME DispatchAssumption ==
  /\ IsFiniteSet(Items)
  /\ Concurrency \in Nat \ {0}
  /\ MaxSchemaRetries \in Nat
  /\ Tries \in Nat \ {0}
  /\ Caps \subseteq Nat \ {0} /\ Caps # {}
  /\ {MaxFaults, MaxResumes} \subseteq Nat

VARIABLES
  saved,       \* items whose artifact is on disk
  ledger,      \* state.json: entries with a price (one each), failure markers
  cap,         \* config.max_spend_usd
  phase,       \* of gather_strict: gathering, draining; paused and done: none
  first,       \* the failure gather surfaced
  reason,      \* what the pause is for
  pc,          \* where each task is
  try,         \* its position in the backoff schedule
  attempt,     \* its schema attempt
  exc,         \* what it raised
  queue,       \* waiters of the semaphore, first come first served
  cancelling,  \* tasks with a cancellation to deliver
  calls,       \* history: calls begun, replies nobody read, valid replies,
               \* and those a death kept from being written
  late,        \* history: who waited for a slot when the spending reached the cap
  faults, resumes

task == <<pc, try, attempt, exc, queue, cancelling>>
parent == <<phase, first, reason>>
money == <<ledger, cap, late>>
disk == <<saved, money>>
bounds == <<faults, resumes>>
vars == <<disk, parent, task, calls, bounds>>

Failures == {"limit", "capped", "failed", "invalid"}
Settled == {"ok", "raised", "cancelled"}
Slots == {i \in Items : pc[i] \in {"calling", "backoff"}}
Waiting == {i \in Items : pc[i] = "queued"}
Live == {i \in Items : pc[i] \notin Settled}
Running == phase \in {"gathering", "draining"}

\* The event loop may run a task: none is between two awaits.
Looping == Running /\ \A i \in Items : pc[i] # "writing"

-----------------------------------------------------------------------------
\* One task.

\* A task may run: it has no cancellation to deliver.
Ready(i, p) == Looping /\ pc[i] = p /\ i \notin cancelling

\* The task ends with exception e; the first one wakes the parent.
Raise(i, e) ==
  /\ pc' = [pc EXCEPT ![i] = "raised"]
  /\ exc' = [exc EXCEPT ![i] = e]
  /\ first' = IF first = "none" THEN e ELSE first

Begin == calls' = [calls EXCEPT !.begun = @ + 1]

\* The semaphore: a free slot is taken unless somebody waits for one.
TakeSlot(i) ==
  \/ /\ queue = <<>> /\ Cardinality(Slots \ {i}) < Concurrency
     /\ pc' = [pc EXCEPT ![i] = "calling"]
     /\ Begin
     /\ UNCHANGED queue
  \/ /\ queue # <<>> \/ Cardinality(Slots \ {i}) >= Concurrency
     /\ pc' = [pc EXCEPT ![i] = "queued"]
     /\ queue' = Append(queue, i)
     /\ UNCHANGED calls

\* Slip: no spend cap.
GuardBypassed(i, spent) ==
  /\ try' = [try EXCEPT ![i] = 1]
  /\ TakeSlot(i) /\ UNCHANGED <<exc, first>>

\* _guarded_invoke up to its first await: the cap is read before the
\* semaphore is taken, and never again.
Guarded(i, spent) ==
  /\ try' = [try EXCEPT ![i] = 1]
  /\ \/ spent >= cap /\ Raise(i, "capped") /\ UNCHANGED <<queue, calls>>
     \/ spent < cap /\ TakeSlot(i) /\ UNCHANGED <<exc, first>>

\* The item is already on disk: no call.
Skip(i) ==
  /\ Ready(i, "new") /\ i \in saved
  /\ pc' = [pc EXCEPT ![i] = "ok"]
  /\ UNCHANGED <<disk, parent, try, attempt, exc, queue, cancelling, calls, bounds>>

\* Slip: what is on disk is asked for again.
StartAnyway(i) ==
  /\ Ready(i, "new")
  /\ Guarded(i, ledger.priced)
  /\ attempt' = [attempt EXCEPT ![i] = 0]
  /\ UNCHANGED <<disk, phase, reason, cancelling, bounds>>

Start(i) ==
  /\ Ready(i, "new") /\ i \notin saved
  /\ Guarded(i, ledger.priced)
  /\ attempt' = [attempt EXCEPT ![i] = 0]
  /\ UNCHANGED <<disk, phase, reason, cancelling, bounds>>

\* Slip: the first waiter is woken before a slot is free.
WokenEarly(i) ==
  /\ Ready(i, "queued") /\ Head(queue) = i
  /\ queue' = Tail(queue)
  /\ pc' = [pc EXCEPT ![i] = "calling"]
  /\ Begin
  /\ UNCHANGED <<disk, parent, try, attempt, exc, cancelling, bounds>>

\* The semaphore wakes its first waiter.
Acquire(i) ==
  /\ Ready(i, "queued") /\ Head(queue) = i /\ Cardinality(Slots) < Concurrency
  /\ queue' = Tail(queue)
  /\ pc' = [pc EXCEPT ![i] = "calling"]
  /\ Begin
  /\ UNCHANGED <<disk, parent, try, attempt, exc, cancelling, bounds>>

\* The backoff is over; the slot was held through it.
Again(i) ==
  /\ Ready(i, "backoff")
  /\ try' = [try EXCEPT ![i] = @ + 1]
  /\ pc' = [pc EXCEPT ![i] = "calling"]
  /\ Begin
  /\ UNCHANGED <<disk, parent, attempt, exc, queue, cancelling, bounds>>

\* ledger.record: one more price.
Pay ==
  /\ ledger' = [ledger EXCEPT !.priced = @ + 1]
  /\ late' = IF ledger.priced + 1 = cap THEN Waiting ELSE late

\* The reply passes parsing and the stage's own check: its entry is written,
Valid(i) ==
  /\ Ready(i, "calling")
  /\ Pay
  /\ pc' = [pc EXCEPT ![i] = "writing"]
  /\ calls' = [calls EXCEPT !.valid[i] = @ + 1]
  /\ UNCHANGED <<saved, cap, parent, try, attempt, exc, queue, cancelling, bounds>>

\* ... then, before its task awaits anything else, the stage's artifact.
Write(i) ==
  /\ Running /\ pc[i] = "writing"
  /\ saved' = saved \cup {i}
  /\ pc' = [pc EXCEPT ![i] = "ok"]
  /\ UNCHANGED <<money, parent, try, attempt, exc, queue, cancelling, calls, bounds>>

\* The reply is refused: it is paid for all the same, and asked for again
\* while the schema retries last.
Invalid(i) ==
  /\ Ready(i, "calling")
  /\ Pay
  /\ \/ /\ attempt[i] < MaxSchemaRetries
        /\ attempt' = [attempt EXCEPT ![i] = @ + 1]
        /\ Guarded(i, ledger.priced + 1)
     \/ /\ attempt[i] >= MaxSchemaRetries
        /\ Raise(i, "invalid")
        /\ UNCHANGED <<try, attempt, queue, calls>>
  /\ UNCHANGED <<saved, cap, phase, reason, cancelling, bounds>>

\* Slips: the schedule is one call too long; the marker is not written.
OneTryTooMany(i, kind) ==
  /\ ledger' = [ledger EXCEPT !.markers = @ + 1]
  /\ \/ kind = "transient" /\ try[i] <= Tries
        /\ pc' = [pc EXCEPT ![i] = "backoff"] /\ UNCHANGED <<exc, first>>
     \/ (kind = "billing" \/ try[i] > Tries) /\ Raise(i, "failed")

Unmarked(i, kind) ==
  /\ Raise(i, IF kind = "limit" THEN "limit" ELSE "failed")
  /\ UNCHANGED ledger

\* A call raised: a marker is ledgered; a usage limit and a billing mismatch
\* are final, anything else (a stream error, the timeout) backs off unless
\* the schedule is spent.
Caught(i, kind) ==
  /\ ledger' = [ledger EXCEPT !.markers = @ + 1]
  /\ \/ kind = "limit" /\ Raise(i, "limit")
     \/ /\ kind = "billing" \/ (kind = "transient" /\ try[i] = Tries)
        /\ Raise(i, "failed")
     \/ /\ kind = "transient" /\ try[i] < Tries
        /\ pc' = [pc EXCEPT ![i] = "backoff"]
        /\ UNCHANGED <<exc, first>>

Fails(i, kind) ==
  /\ Ready(i, "calling") /\ faults < MaxFaults
  /\ Caught(i, kind)
  /\ faults' = faults + 1
  /\ UNCHANGED <<saved, cap, late, phase, reason, try, attempt, queue, cancelling,
                 calls, resumes>>

\* A usage-limit notice came as a short reply: it raises, and no entry is
\* written for the call.
Notice(i) ==
  /\ Ready(i, "calling") /\ faults < MaxFaults
  /\ Raise(i, "limit")
  /\ calls' = [calls EXCEPT !.unread = @ + 1]
  /\ faults' = faults + 1
  /\ UNCHANGED <<disk, phase, reason, try, attempt, queue, cancelling, resumes>>

\* Slip: a waiter that is cancelled stays in the semaphore's queue.
LeavesWaiter(i) ==
  /\ Looping /\ i \in cancelling
  /\ cancelling' = cancelling \ {i}
  /\ pc' = [pc EXCEPT ![i] = "cancelled"]
  /\ calls' = IF pc[i] = "calling" THEN [calls EXCEPT !.unread = @ + 1] ELSE calls
  /\ UNCHANGED <<disk, parent, try, attempt, exc, queue, bounds>>

Without(q, n) == [m \in 1..(Len(q) - 1) |-> IF m < n THEN q[m] ELSE q[m + 1]]

\* CancelledError leaves the task at the await it is parked in; a call in
\* flight is abandoned without an entry, and the semaphore is released.
Cancelled(i) ==
  /\ Looping /\ i \in cancelling
  /\ cancelling' = cancelling \ {i}
  /\ pc' = [pc EXCEPT ![i] = "cancelled"]
  /\ IF pc[i] = "queued"
       THEN \E n \in DOMAIN queue : queue[n] = i /\ queue' = Without(queue, n)
       ELSE UNCHANGED queue
  /\ calls' = IF pc[i] = "calling" THEN [calls EXCEPT !.unread = @ + 1] ELSE calls
  /\ UNCHANGED <<disk, parent, try, attempt, exc, bounds>>

\* Closing the SDK's generator fails while the cancellation unwinds the
\* call: the retry loop catches that exception like any other, and the
\* cancellation is gone.
CloseFails(i) ==
  /\ Looping /\ i \in cancelling /\ pc[i] = "calling" /\ faults < MaxFaults
  /\ cancelling' = cancelling \ {i}
  /\ Caught(i, "transient")
  /\ faults' = faults + 1
  /\ UNCHANGED <<saved, cap, late, phase, reason, try, attempt, queue, calls, resumes>>

\* The call had ended when the cancellation came: before Python 3.12
\* asyncio.wait_for then returns the outcome and drops the cancellation.
OutcomeWins(i) ==
  /\ Looping /\ i \in cancelling /\ pc[i] = "calling"
  /\ cancelling' = cancelling \ {i}
  /\ UNCHANGED <<disk, parent, pc, try, attempt, exc, queue, calls, bounds>>

-----------------------------------------------------------------------------
\* gather_strict, and the run around it.

\* A child failed: the siblings still live are cancelled.
Stop ==
  /\ phase = "gathering" /\ Looping /\ first # "none"
  /\ phase' = "draining"
  /\ cancelling' = Live
  /\ UNCHANGED <<disk, first, reason, pc, try, attempt, exc, queue, calls, bounds>>

\* Slip: whatever gather surfaced.
FirstNamed == first

\* The exception re-raised: a usage limit, then the cap, then the first.
Named ==
  LET raised == {exc[i] : i \in Items}
  IN  IF "limit" \in raised THEN "limit"
      ELSE IF "capped" \in raised THEN "capped" ELSE first

\* Slip: the exception leaves while the siblings unwind.
NotAwaited ==
  /\ phase = "draining"
  /\ phase' = "paused"
  /\ reason' = Named
  /\ UNCHANGED <<disk, first, task, calls, bounds>>

\* The drain is awaited before the exception leaves; _pause_on_agent_error
\* then pauses the run.
Pause ==
  /\ phase = "draining" /\ Live = {}
  /\ phase' = "paused"
  /\ reason' = Named
  /\ UNCHANGED <<disk, first, task, calls, bounds>>

Return ==
  /\ phase = "gathering" /\ \A i \in Items : pc[i] = "ok"
  /\ phase' = "done"
  /\ UNCHANGED <<disk, first, reason, task, calls, bounds>>

\* The process dies (or Ctrl-C): memory is gone, the workspace is not.
Kill ==
  /\ Running /\ faults < MaxFaults
  /\ phase' = "paused" /\ reason' = "killed"
  /\ calls' =
       [calls EXCEPT !.unread = @ + Cardinality({i \in Items : pc[i] = "calling"}),
                     !.lost = [i \in Items |-> @[i] + (IF pc[i] = "writing" THEN 1 ELSE 0)]]
  /\ pc' = [i \in Items |-> IF pc[i] \in Settled THEN pc[i] ELSE "cancelled"]
  /\ queue' = <<>> /\ cancelling' = {}
  /\ faults' = faults + 1
  /\ UNCHANGED <<disk, first, try, attempt, exc, resumes>>

\* `deeper resume [--max-spend-usd]`: the stage is executed again.
Fresh ==
  /\ first' = "none" /\ reason' = "none"
  /\ pc' = [i \in Items |-> "new"]
  /\ try' = [i \in Items |-> 1] /\ attempt' = [i \in Items |-> 0]
  /\ exc' = [i \in Items |-> "none"]
  /\ queue' = <<>> /\ cancelling' = {}

Resume ==
  /\ phase = "paused" /\ resumes < MaxResumes
  /\ cap' \in {c \in Caps : c >= cap}
  /\ phase' = "gathering"
  /\ Fresh
  /\ resumes' = resumes + 1
  /\ UNCHANGED <<saved, ledger, late, calls, faults>>

Init ==
  /\ saved = {} /\ ledger = [priced |-> 0, markers |-> 0] /\ cap \in Caps
  /\ phase = "gathering" /\ first = "none" /\ reason = "none"
  /\ pc = [i \in Items |-> "new"]
  /\ try = [i \in Items |-> 1] /\ attempt = [i \in Items |-> 0]
  /\ exc = [i \in Items |-> "none"]
  /\ queue = <<>> /\ cancelling = {}
  /\ calls = [begun |-> 0, unread |-> 0,
              valid |-> [i \in Items |-> 0], lost |-> [i \in Items |-> 0]]
  /\ late = {}
  /\ faults = 0 /\ resumes = 0

Kinds == {"transient", "billing", "limit"}

\* What a task does by itself, once the loop runs it or its call ends.
Task(i) ==
  \/ Skip(i) \/ Start(i) \/ Acquire(i) \/ Again(i)
  \/ Valid(i) \/ Write(i) \/ Invalid(i) \/ Notice(i)
  \/ \E kind \in Kinds : Fails(i, kind)
  \/ Cancelled(i) \/ CloseFails(i) \/ OutcomeWins(i)

Next ==
  \/ \E i \in Items : Task(i)
  \/ Stop \/ Pause \/ Return \/ Kill \/ Resume

Spec == Init /\ [][Next]_vars

\* The loop runs every task that is ready, and a call ends: by its reply, by
\* its failure or by dispatch_timeout_s.  Nobody has to resume or to fail.
FairSpec ==
  /\ Spec
  /\ \A i \in Items : WF_vars(Task(i))
  /\ WF_vars(Stop \/ Pause \/ Return)

-----------------------------------------------------------------------------
\* Properties.

\* Types: a task's retries stay within its two budgets, and only tasks that
\* await something can be cancelled (dispatch.py's loops, aio.py).
TypeOK ==
  /\ saved \subseteq Items
  /\ ledger \in [priced : Nat, markers : Nat] /\ cap \in Caps
  /\ phase \in {"gathering", "draining", "paused", "done"}
  /\ first \in Failures \cup {"none"}
  /\ reason \in Failures \cup {"none", "killed"}
  /\ pc \in [Items -> {"new", "queued", "calling", "backoff", "writing"} \cup Settled]
  /\ try \in [Items -> 1..Tries]
  /\ attempt \in [Items -> 0..MaxSchemaRetries]
  /\ exc \in [Items -> Failures \cup {"none"}]
  /\ queue \in Seq(Items)
  /\ cancelling \subseteq {i \in Live : pc[i] # "writing"}
  /\ calls \in [begun : Nat, unread : Nat, valid : [Items -> Nat], lost : [Items -> Nat]]
  /\ late \subseteq Items
  /\ {faults, resumes} \subseteq Nat

\* The concurrency limit is global and survives failures, backoffs, drains
\* and a cancellation that a failing teardown swallowed: never more calls in
\* flight than slots (_semaphore, gather_strict).
SlotsRespected == Cardinality(Slots) <= Concurrency

\* The semaphore's waiters are exactly the queued tasks, once each, however
\* tasks fail, are cancelled or come back for another attempt: nobody is
\* woken who left, and no waiter is dropped from the queue.
WaitersQueued ==
  /\ {queue[n] : n \in DOMAIN queue} = Waiting
  /\ \A m, n \in DOMAIN queue : queue[m] = queue[n] => m = n

\* What can be spent past the cap.  README.md:1071-1073 promises "roughly
\* concurrency x per-call cost", the calls in flight when the cap is reached;
\* that is exceeded by one price for each task that was waiting for a slot at
\* that moment, and by nothing else over any retries, kills and resumes:
\* _guarded_invoke reads the cap before the semaphore and not again.
OverrunExplained == ledger.priced < cap + Concurrency + Cardinality(late)

\* Every call begun is an entry of the ledger, is in flight, or was
\* abandoned with its reply unread; none is counted twice over failures,
\* swallowed cancellations, kills and resumes (run_agent, ledger.record,
\* _record_failed_attempt).
AttemptsAccounted ==
  calls.begun = ledger.priced + ledger.markers + calls.unread
                + Cardinality({i \in Items : pc[i] = "calling"})

\* Completed work is never paid for again: over any pauses, kills and
\* resumes the valid replies of an item are its artifact, the one on its way
\* to the disk, and those of deaths between the entry and the artifact, the
\* only way the code has to buy an item twice (run_agent, engine.py's
\* "Completed work is saved").
PaidOnce ==
  \A i \in Items :
    calls.valid[i] = calls.lost[i] + (IF i \in saved THEN 1 ELSE 0)
                                   + (IF pc[i] = "writing" THEN 1 ELSE 0)

\* When the failure leaves the fan-out no task is left running behind the
\* engine's back: the pause is the only writer of state.json (aio.py's
\* drain, ledger.py's single-writer invariant).
PausedIsQuiet == phase \in {"paused", "done"} => Live = {} /\ cancelling = {}

\* The pause names the cause a human can act on: the usage limit whenever a
\* task hit it, else the spend cap, else some task's own failure, whichever
\* failed first (gather_strict's order of preference).
PauseNamesCause ==
  (phase = "paused" /\ reason # "killed") =>
     /\ (\E i \in Items : exc[i] = "limit") => reason = "limit"
     /\ ((\E i \in Items : exc[i] = "capped") /\ \A i \in Items : exc[i] # "limit")
           => reason = "capped"
     /\ \E i \in Items : exc[i] = reason

\* A fan-out always ends, in its results or in a pause: no task waits for a
\* slot for ever and the drain never hangs (the semaphore is released on
\* every path; retries and timeouts are bounded).
FanOutEnds == Running ~> phase \in {"paused", "done"}

\* aio.py's "Every failed attempt is still ledgered": once the fan-out has
\* ended every call begun has its entry.
EveryAttemptLedgered ==
  (phase \in {"paused", "done"} /\ reason # "killed") =>
     calls.begun = ledger.priced + ledger.markers
=============================================================================
