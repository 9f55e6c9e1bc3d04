------------------------------- MODULE Outbox -------------------------------
(***************************************************************************)
(* The transactional outbox of the worker                                  *)
(* (apps/worker/src/outbox-processor.ts, driven by index.ts): a polling    *)
(* tick claims a batch with a 5 minute lease, loads it, runs the handler   *)
(* of each event in turn, and writes the outcome with a compare-and-set on *)
(* the lease's owner.                                                      *)
(*                                                                         *)
(* A tick never overlaps another one of its worker (isPolling), so a       *)
(* worker is one sequential process.  Handlers are abstract here: one step *)
(* that completes or throws.  An event's number is its place in the order  *)
(* of created_at.                                                          *)
(***************************************************************************)
EXTENDS Integers, FiniteSets

CONSTANTS
    Events,      \* a set of numbers
    Workers,
    BatchSize,   \* 10 in the code
    MaxRetries,  \* 5 in the code
    MaxFaults    \* bound: crashes of workers and leases that run out under a live one

ASSUME OutboxAssumption ==
    /\ Events \subseteq Nat
    /\ BatchSize \in Nat \ {0} /\ MaxRetries \in Nat \ {0} /\ MaxFaults \in Nat

NoOwner == "no owner"
NoEvent == -1

ASSUME NoOwnerAssumption == NoOwner \notin Workers

VARIABLES
    row,      \* row[e]: the row of outbox_events
    wk,       \* wk[w]: what the tick of worker w holds in memory
    handled,  \* events whose handler has completed, in any worker
    throws,   \* throws[e]: how often a handler of e has thrown
    faults    \* how many faults have happened

vars == <<row, wk, handled, throws, faults>>

Fresh == [st |-> "none", owner |-> NoOwner, lease |-> "none", due |-> TRUE, retry |-> 0]
IdleWk == [pc |-> "idle", batch |-> {}, cur |-> NoEvent, seen |-> [e \in Events |-> 0]]

Init ==
    /\ row = [e \in Events |-> Fresh]
    /\ wk = [w \in Workers |-> IdleWk]
    /\ handled = {}
    /\ throws = [e \in Events |-> 0]
    /\ faults = 0

-----------------------------------------------------------------------------
\* Any transaction of the API or of a handler may insert an event.
Emit(e) ==
    /\ row[e].st = "none"
    /\ row' = [row EXCEPT ![e].st = "PENDING"]
    /\ UNCHANGED <<wk, handled, throws, faults>>

Claimable ==
    {e \in Events : \/ row[e].st = "PENDING" /\ row[e].due
                    \/ row[e].st = "PROCESSING" /\ row[e].lease = "old"}

\* The LIMIT oldest of S: those with fewer than BatchSize older ones.
Oldest(S) == {e \in S : Cardinality({f \in S : f < e}) < BatchSize}

\* One UPDATE ... FOR UPDATE SKIP LOCKED ... RETURNING statement.
Claim(w) ==
    /\ wk[w].pc = "idle"
    /\ Claimable # {}
    /\ row' = [e \in Events |-> IF e \in Oldest(Claimable)
                                THEN [row[e] EXCEPT !.st = "PROCESSING", !.owner = w, !.lease = "new"]
                                ELSE row[e]]
    /\ wk' = [wk EXCEPT ![w] = [IdleWk EXCEPT !.pc = "load", !.batch = Oldest(Claimable)]]
    /\ UNCHANGED <<handled, throws, faults>>

\* The claimed rows are read, whoever owns them by then; the retry counts of that
\* moment are what the tick will write back.
Load(w) ==
    /\ wk[w].pc = "load"
    /\ wk' = [wk EXCEPT ![w].pc = "next", ![w].seen = [e \in Events |-> row[e].retry]]
    /\ UNCHANGED <<row, handled, throws, faults>>

\* The loop takes the events in no particular order, and does not look at the lease.
Start(w, e) ==
    /\ wk[w].pc = "next"
    /\ e \in wk[w].batch
    /\ wk' = [wk EXCEPT ![w].pc = "run", ![w].cur = e]
    /\ UNCHANGED <<row, handled, throws, faults>>

EndTick(w) ==
    /\ wk[w].pc = "next"
    /\ wk[w].batch = {}
    /\ wk' = [wk EXCEPT ![w] = IdleWk]
    /\ UNCHANGED <<row, handled, throws, faults>>

HandlerCompletes(w) ==
    /\ wk[w].pc = "run"
    /\ handled' = handled \cup {wk[w].cur}
    /\ wk' = [wk EXCEPT ![w].pc = "finalize"]
    /\ UNCHANGED <<row, throws, faults>>

\* Mutant: an error of the handler is swallowed.
HandlerThrowsSwallowed(w) ==
    /\ wk[w].pc = "run"
    /\ throws' = [throws EXCEPT ![wk[w].cur] = @ + 1]
    /\ wk' = [wk EXCEPT ![w].pc = "finalize"]
    /\ UNCHANGED <<row, handled, faults>>

\* An unknown event type, a mismatched aggregate and any error of a handler.
HandlerThrows(w) ==
    /\ wk[w].pc = "run"
    /\ throws' = [throws EXCEPT ![wk[w].cur] = @ + 1]
    /\ wk' = [wk EXCEPT ![w].pc = "fail"]
    /\ UNCHANGED <<row, handled, faults>>

Owns(w, e) == row[e].st = "PROCESSING" /\ row[e].owner = w
Drop(w, e) == wk' = [wk EXCEPT ![w].pc = "next", ![w].cur = NoEvent, ![w].batch = @ \ {e}]

\* The rows after the update that marks e processed, if the lease is still w's.
Processed(w, e) ==
    IF Owns(w, e)
    THEN [row EXCEPT ![e] = [@ EXCEPT !.st = "PROCESSED", !.owner = NoOwner, !.lease = "none"]]
    ELSE row

\* The outcome of a handler that completed.
Finalize(w) ==
    /\ wk[w].pc = "finalize"
    /\ row' = Processed(w, wk[w].cur)
    /\ Drop(w, wk[w].cur)
    /\ UNCHANGED <<handled, throws, faults>>

\* A database error while the outcome is written is caught like the handler's; the
\* connection may have been lost after the update was committed.
FinalizeThrows(w) ==
    /\ wk[w].pc = "finalize"
    /\ faults < MaxFaults
    /\ faults' = faults + 1
    /\ row' \in {row, Processed(w, wk[w].cur)}
    /\ throws' = [throws EXCEPT ![wk[w].cur] = @ + 1]
    /\ wk' = [wk EXCEPT ![w].pc = "fail"]
    /\ UNCHANGED handled

\* Mutant: one retry too few.
AfterFailureEarly(r, retry) ==
    IF retry + 1 >= MaxRetries
    THEN [r EXCEPT !.st = "FAILED", !.owner = NoOwner, !.lease = "none", !.retry = retry]
    ELSE [r EXCEPT !.st = "PENDING", !.owner = NoOwner, !.lease = "none", !.retry = retry, !.due = FALSE]

\* What the row of event e becomes after its retry-th failure.
AfterFailure(r, retry) ==
    IF retry >= MaxRetries
    THEN [r EXCEPT !.st = "FAILED", !.owner = NoOwner, !.lease = "none", !.retry = retry]
    ELSE [r EXCEPT !.st = "PENDING", !.owner = NoOwner, !.lease = "none", !.retry = retry, !.due = FALSE]

\* Mutant: a failure is written without looking at the status or the owner.
FailUnconditionally(w) ==
    LET e == wk[w].cur IN
    /\ wk[w].pc = "fail"
    /\ row' = [row EXCEPT ![e] = AfterFailure(@, wk[w].seen[e] + 1)]
    /\ Drop(w, e)
    /\ UNCHANGED <<handled, throws, faults>>

\* The outcome of a failure: retry later, or give up after MaxRetries of them.
Fail(w) ==
    LET e == wk[w].cur IN
    /\ wk[w].pc = "fail"
    /\ row' = IF Owns(w, e)
              THEN [row EXCEPT ![e] = AfterFailure(@, wk[w].seen[e] + 1)] ELSE row
    /\ Drop(w, e)
    /\ UNCHANGED <<handled, throws, faults>>

\* The process dies, or an error escapes the loop: the tick and its batch are gone.
Crash(w) ==
    /\ wk[w].pc # "idle"
    /\ faults < MaxFaults
    /\ faults' = faults + 1
    /\ wk' = [wk EXCEPT ![w] = IdleWk]
    /\ UNCHANGED <<row, handled, throws>>

BackoffElapses(e) ==
    /\ row[e].st = "PENDING" /\ ~row[e].due
    /\ row' = [row EXCEPT ![e].due = TRUE]
    /\ UNCHANGED <<wk, handled, throws, faults>>

\* Mutant: rows in processing are never taken over.
LeaseNeverExpires(e) == FALSE /\ e \in Events /\ UNCHANGED vars

Working(e) == \E w \in Workers : row[e].owner = w /\ e \in wk[w].batch

\* Five minutes pass: the lease of a dead worker runs out, or that of a live one
\* whose batch takes too long (which is counted as a fault).
LeaseExpires(e) ==
    /\ row[e].st = "PROCESSING" /\ row[e].lease = "new"
    /\ Working(e) => faults < MaxFaults
    /\ faults' = IF Working(e) THEN faults + 1 ELSE faults
    /\ row' = [row EXCEPT ![e].lease = "old"]
    /\ UNCHANGED <<wk, handled, throws>>

-----------------------------------------------------------------------------
Tick(w) ==
    \/ Claim(w) \/ Load(w) \/ EndTick(w) \/ Finalize(w) \/ Fail(w)
    \/ \E e \in Events : Start(w, e)
    \/ HandlerCompletes(w) \/ HandlerThrows(w)

Time == \E e \in Events : BackoffElapses(e) \/ LeaseExpires(e)

Next ==
    \/ \E e \in Events : Emit(e)
    \/ \E w \in Workers : Tick(w) \/ FinalizeThrows(w) \/ Crash(w)
    \/ Time

Spec == Init /\ [][Next]_vars

\* The interval timer starts a tick again and again, a handler ends one way or the
\* other, and the clock advances.
Fairness ==
    /\ \A w \in Workers : WF_vars(Tick(w))
    /\ \A e \in Events : WF_vars(BackoffElapses(e)) /\ WF_vars(LeaseExpires(e))

FairSpec == Spec /\ Fairness

-----------------------------------------------------------------------------
(***************************************************************************)
(* Properties                                                              *)
(***************************************************************************)
Rows == [st : {"none", "PENDING", "PROCESSING", "PROCESSED", "FAILED"}, owner : Workers \cup {NoOwner},
         lease : {"none", "new", "old"}, due : BOOLEAN, retry : 0 .. MaxRetries]
Ticks == [pc : {"idle", "load", "next", "run", "finalize", "fail"}, batch : SUBSET Events,
          cur : Events \cup {NoEvent}, seen : [Events -> 0 .. MaxRetries]]

\* Rows and workers keep their shape; what was never inserted is blank; a worker past "next" has a current event, of
\* its batch, and every row of a batch had been inserted.
TypeOK ==
    /\ row \in [Events -> Rows]
    /\ \A e \in Events : row[e].st = "none" => row[e] = Fresh
    /\ wk \in [Workers -> Ticks]
    /\ \A w \in Workers :
         /\ wk[w].pc \in {"run", "finalize", "fail"} => wk[w].cur \in wk[w].batch
         /\ \A e \in wk[w].batch : row[e].st # "none"
    /\ handled \subseteq Events
    /\ throws \in [Events -> Nat]
    /\ faults \in 0 .. MaxFaults

\* No event counts as processed, or is about to, before its handler has completed,
\* however leases, workers and retries interleave.
ProcessedWasHandled ==
    /\ \A e \in Events : row[e].st = "PROCESSED" => e \in handled
    /\ \A w \in Workers : wk[w].pc = "finalize" => wk[w].cur \in handled

\* An event is given up only after its handler has thrown MaxRetries times, and its
\* retry count never claims more failures than there were: a worker that lost its
\* lease does not use up a retry of its successor.
RetriesAreEarned ==
    \A e \in Events : /\ row[e].retry <= throws[e]
                      /\ row[e].st = "FAILED" => row[e].retry = MaxRetries
                      /\ row[e].st \in {"PENDING", "PROCESSING"} => row[e].retry < MaxRetries

\* Rows hold what the ticks need, and count only failures that happened.
RowsHold == TypeOK /\ RetriesAreEarned

\* A final status never changes, and the retry count never goes back: a worker that
\* writes its outcome after losing the lease writes nothing.
OutcomesAreFinal ==
    [][\A e \in Events : /\ row[e].st \in {"PROCESSED", "FAILED"} => row'[e] = row[e]
                         /\ row'[e].retry >= row[e].retry]_vars

\* Every event that was inserted is eventually processed or given up, although
\* workers crash in the middle of a batch and leases run out.
EveryEventEnds ==
    \A e \in Events : row[e].st = "PENDING" ~> row[e].st \in {"PROCESSED", "FAILED"}

Promise(st) == CASE st = "none" -> "absent"
                 [] st \in {"PENDING", "PROCESSING"} -> "queued"
                 [] st = "PROCESSED" -> "done"
                 [] st = "FAILED" -> "dead"
Status == [e \in Events |-> Promise(row[e].st)]
ALO == INSTANCE AtLeastOnce WITH status <- Status, handled <- handled

\* The outbox implements at-least-once handling.
ImplementsAtLeastOnce == ALO!Spec

\* processOutboxEvents claims rows "to prevent duplicate processing across
\* concurrent workers": no two workers run the handler of one event at once.
NoDuplicateProcessing ==
    \A v, w \in Workers : v # w /\ wk[v].pc = "run" /\ wk[w].pc = "run" => wk[v].cur # wk[w].cur
=============================================================================
