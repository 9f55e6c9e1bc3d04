---------------------------- MODULE OutboxProofs ----------------------------
(***************************************************************************)
(* Proofs about Outbox, for any set of events, any set of workers and any  *)
(* bounds.                                                                 *)
(***************************************************************************)
EXTENDS Outbox, TLAPS

\* What a worker loaded about a row is current for as long as it holds the lease, and
\* a worker about to write a failure has an uncounted exception to show for it.
LeasedIsCurrent ==
    \A w \in Workers : \A e \in Events :
        Owns(w, e) /\ e \in wk[w].batch =>
            /\ wk[w].pc \in {"next", "run", "finalize", "fail"} => wk[w].seen[e] = row[e].retry
            /\ wk[w].pc = "fail" /\ wk[w].cur = e => row[e].retry < throws[e]

IInv == TypeOK /\ ProcessedWasHandled /\ RetriesAreEarned /\ LeasedIsCurrent


\* Nothing has been emitted, and every worker is idle.
LEMMA InitIInv == Init => IInv
<1> SUFFICES ASSUME Init PROVE IInv
    OBVIOUS
<1> USE OutboxAssumption, NoOwnerAssumption
<1>1. Fresh \in Rows
    BY DEF Fresh, Rows
<1>2. IdleWk \in Ticks /\ IdleWk.batch = {} /\ IdleWk.pc = "idle"
    BY DEF IdleWk, Ticks
<1>3. /\ \A e \in Events : row[e] = Fresh /\ throws[e] = 0
      /\ \A w \in Workers : wk[w] = IdleWk
    BY DEF Init
<1>4. TypeOK
    BY <1>1, <1>2, <1>3 DEF Init, TypeOK
<1>5. Fresh.st = "none" /\ Fresh.retry = 0
    BY DEF Fresh
<1> QED
    BY <1>2, <1>3, <1>4, <1>5 DEF IInv, ProcessedWasHandled, RetriesAreEarned, LeasedIsCurrent, Owns

\* What IInv says of each row and each worker.
LEMMA Parts ==
    ASSUME IInv
    PROVE  /\ row \in [Events -> Rows] /\ wk \in [Workers -> Ticks] /\ throws \in [Events -> Nat]
           /\ handled \subseteq Events /\ faults \in 0 .. MaxFaults
           /\ \A e \in Events : row[e] \in Rows /\ throws[e] \in Nat /\ row[e].retry \in 0 .. MaxRetries
           /\ \A w \in Workers : wk[w] \in Ticks
           /\ TypeOK /\ ProcessedWasHandled /\ RetriesAreEarned /\ LeasedIsCurrent
BY DEF IInv, TypeOK, Rows, Ticks

\* A step that leaves the workers alone, changes no retry count and hands no row to a
\* worker: an insertion, the end of a backoff, the end of a lease.
LEMMA RowOnly ==
    ASSUME IInv, NEW e \in Events, NEW r \in Rows,
           row' = [row EXCEPT ![e] = r],
           r.retry = row[e].retry, r.owner = row[e].owner,
           r.st = "none" => r = row[e],
           r.st = row[e].st \/ (row[e].st = "none" /\ r.st = "PENDING"),
           UNCHANGED <<wk, handled, throws>>, faults' \in 0 .. MaxFaults
    PROVE  IInv'
<1> USE OutboxAssumption, NoOwnerAssumption, Parts
<1>1. row' \in [Events -> Rows]
    OBVIOUS
<1>2. \A f \in Events : /\ row'[f].st = row[f].st \/ (row[f].st = "none" /\ row'[f].st = "PENDING")
                        /\ row'[f].owner = row[f].owner /\ row'[f].retry = row[f].retry
    OBVIOUS
<1>3. TypeOK'
  <2>1. \A f \in Events : row'[f].st = "none" => row'[f] = row[f]
    OBVIOUS
  <2> QED
    BY <1>1, <1>2, <2>1 DEF TypeOK
<1>4. ProcessedWasHandled'
    BY <1>2 DEF ProcessedWasHandled
<1>5. RetriesAreEarned'
  <2>1. \A f \in Events : row[f].st = "none" => row[f].retry = 0
    BY DEF TypeOK, Fresh
  <2> QED
    BY <1>2, <2>1 DEF RetriesAreEarned
<1>6. LeasedIsCurrent'
    BY <1>2 DEF LeasedIsCurrent, Owns
<1> QED
    BY <1>3, <1>4, <1>5, <1>6 DEF IInv

\* A step of worker w to tick t that changes no row.
TickChange(w, t) ==
    /\ wk' = [wk EXCEPT ![w] = t] /\ UNCHANGED row
    /\ handled \subseteq handled' /\ handled' \subseteq Events
    /\ throws' \in [Events -> Nat] /\ \A e \in Events : throws'[e] >= throws[e]
    /\ faults' \in 0 .. MaxFaults
    /\ t.batch \subseteq wk[w].batch
    /\ t.pc \in {"run", "finalize", "fail"} => t.cur \in t.batch
    /\ t.pc = "finalize" => t.cur \in handled'
    /\ \A e \in t.batch : Owns(w, e) =>
         /\ t.pc \in {"next", "run", "finalize", "fail"} => t.seen[e] = row[e].retry
         /\ t.pc = "fail" /\ t.cur = e => row[e].retry < throws'[e]

LEMMA TickOnly ==
    ASSUME IInv, NEW w \in Workers, NEW t \in Ticks, TickChange(w, t)
    PROVE  IInv'
<1> USE OutboxAssumption, NoOwnerAssumption, Parts DEF TickChange
<1>1. wk' \in [Workers -> Ticks] /\ wk'[w] = t /\ \A v \in Workers \ {w} : wk'[v] = wk[v]
    OBVIOUS
<1>2. TypeOK'
    BY <1>1 DEF TypeOK
<1>3. ProcessedWasHandled'
    BY <1>1 DEF ProcessedWasHandled
<1>4. RetriesAreEarned'
  <2>1. \A e \in Events : row[e].retry <= throws'[e]
    BY DEF RetriesAreEarned
  <2> QED
    BY <2>1 DEF RetriesAreEarned
<1>5. LeasedIsCurrent'
  <2> SUFFICES ASSUME NEW v \in Workers, NEW e \in Events, Owns(v, e), e \in wk'[v].batch
               PROVE  /\ wk'[v].pc \in {"next", "run", "finalize", "fail"} => wk'[v].seen[e] = row[e].retry
                      /\ wk'[v].pc = "fail" /\ wk'[v].cur = e => row[e].retry < throws'[e]
    BY DEF LeasedIsCurrent, Owns
  <2>1. CASE v = w
    BY <1>1, <2>1
  <2>2. CASE v # w
    BY <1>1, <2>2 DEF LeasedIsCurrent
  <2> QED
    BY <2>1, <2>2
<1> QED
    BY <1>2, <1>3, <1>4, <1>5 DEF IInv

\* Worker w writes outcome r on the row of e it owns, and goes on with tick t.
OutcomeChange(w, e, r, t) ==
    /\ Owns(w, e) /\ row' = [row EXCEPT ![e] = r] /\ wk' = [wk EXCEPT ![w] = t]
    /\ UNCHANGED handled /\ throws' \in [Events -> Nat] /\ \A f \in Events : throws'[f] >= throws[f]
    /\ faults' \in 0 .. MaxFaults
    /\ r.st \in {"PENDING", "PROCESSED", "FAILED"} /\ (r.st = "PROCESSED" => e \in handled)
    /\ r.retry <= throws'[e]
    /\ r.st = "FAILED" => r.retry = MaxRetries
    /\ r.st = "PENDING" => r.retry < MaxRetries
    /\ t.batch \subseteq wk[w].batch /\ t.seen = wk[w].seen /\ wk[w].pc \in {"finalize", "fail"}
    /\ t.pc = "next" \/ (t.pc = "fail" /\ t.cur = e /\ e \in t.batch)

LEMMA Outcome ==
    ASSUME IInv, NEW w \in Workers, NEW e \in Events, NEW r \in Rows, NEW t \in Ticks,
           OutcomeChange(w, e, r, t)
    PROVE  IInv'
<1> USE OutboxAssumption, NoOwnerAssumption, Parts DEF OutcomeChange
<1>1. /\ wk' \in [Workers -> Ticks] /\ wk'[w] = t /\ \A v \in Workers \ {w} : wk'[v] = wk[v]
      /\ row' \in [Events -> Rows] /\ row'[e] = r /\ \A f \in Events \ {e} : row'[f] = row[f]
    OBVIOUS
<1>2. TypeOK'
    BY <1>1 DEF TypeOK
<1>3. ProcessedWasHandled'
    BY <1>1 DEF ProcessedWasHandled
<1>4. RetriesAreEarned'
  <2> SUFFICES ASSUME NEW f \in Events
               PROVE  /\ row'[f].retry <= throws'[f]
                      /\ row'[f].st = "FAILED" => row'[f].retry = MaxRetries
                      /\ row'[f].st \in {"PENDING", "PROCESSING"} => row'[f].retry < MaxRetries
    BY DEF RetriesAreEarned
  <2>1. CASE f = e
    BY <1>1, <2>1
  <2>2. CASE f # e
    <3>1. row[f].retry <= throws[f] /\ throws[f] <= throws'[f] /\ throws'[f] \in Nat
      BY DEF RetriesAreEarned
    <3> QED
      BY <1>1, <2>2, <3>1 DEF RetriesAreEarned
  <2> QED
    BY <2>1, <2>2
<1>5. LeasedIsCurrent'
  <2> SUFFICES ASSUME NEW v \in Workers, NEW f \in Events, Owns(v, f)', f \in wk'[v].batch
               PROVE  /\ wk'[v].pc \in {"next", "run", "finalize", "fail"} => wk'[v].seen[f] = row'[f].retry
                      /\ wk'[v].pc = "fail" /\ wk'[v].cur = f => row'[f].retry < throws'[f]
    BY DEF LeasedIsCurrent
  <2>1. f # e /\ row'[f] = row[f] /\ Owns(v, f)
    BY <1>1 DEF Owns
  <2>2. throws[f] <= throws'[f] /\ throws'[f] \in Nat /\ throws[f] \in Nat /\ row[f].retry \in Nat
    OBVIOUS
  <2>3. CASE v = w
    BY <1>1, <2>1, <2>3 DEF LeasedIsCurrent
  <2>4. CASE v # w
    BY <1>1, <2>1, <2>2, <2>4 DEF LeasedIsCurrent
  <2> QED
    BY <2>3, <2>4
<1> QED
    BY <1>2, <1>3, <1>4, <1>5 DEF IInv

\* The rows an outcome leaves.
LEMMA OutcomeRows ==
    ASSUME NEW x \in Rows
    PROVE  LET r == [x EXCEPT !.st = "PROCESSED", !.owner = NoOwner, !.lease = "none"]
           IN  r \in Rows /\ r.st = "PROCESSED" /\ r.retry = x.retry
BY DEF Rows

LEMMA FailureRows ==
    ASSUME NEW x \in Rows, NEW n \in 0 .. MaxRetries
    PROVE  LET r == AfterFailure(x, n)
           IN  /\ r \in Rows /\ r.st \in {"PENDING", "FAILED"} /\ r.retry = n
               /\ r.st = "FAILED" => n = MaxRetries
               /\ r.st = "PENDING" => n < MaxRetries
<1> USE OutboxAssumption DEF Rows
<1>1. CASE n >= MaxRetries
  <2>1. AfterFailure(x, n) = [x EXCEPT !.st = "FAILED", !.owner = NoOwner, !.lease = "none", !.retry = n]
    BY <1>1 DEF AfterFailure
  <2>2. n = MaxRetries
    BY <1>1
  <2> QED
    BY <2>1, <2>2
<1>2. CASE ~(n >= MaxRetries)
  <2>1. AfterFailure(x, n) = [x EXCEPT !.st = "PENDING", !.owner = NoOwner, !.lease = "none", !.retry = n, !.due = FALSE]
    BY <1>2 DEF AfterFailure
  <2>2. n < MaxRetries
    BY <1>2
  <2> QED
    BY <2>1, <2>2
<1> QED
    BY <1>1, <1>2

LEMMA IdleTick == IdleWk \in Ticks /\ IdleWk.pc = "idle" /\ IdleWk.batch = {}
BY OutboxAssumption DEF IdleWk, Ticks, NoEvent

\* The claim: rows pass to w, which has loaded nothing yet.
LEMMA ClaimStep == ASSUME IInv, NEW w \in Workers, Claim(w) PROVE IInv'
<1> USE OutboxAssumption, NoOwnerAssumption, Parts
<1> DEFINE C == Oldest(Claimable)
           t == [IdleWk EXCEPT !.pc = "load", !.batch = C]
<1>1. C \subseteq Events /\ \A e \in C : row[e].st \in {"PENDING", "PROCESSING"}
    BY DEF Oldest, Claimable
<1> HIDE DEF C
<1>2. t \in Ticks /\ t.pc = "load" /\ t.batch = C
    BY <1>1, IdleTick DEF Ticks
<1>3. /\ wk' \in [Workers -> Ticks] /\ wk'[w] = t /\ \A v \in Workers \ {w} : wk'[v] = wk[v]
      /\ UNCHANGED <<handled, throws, faults>>
    BY <1>2 DEF Claim, C
<1>a. row' = [e \in Events |-> IF e \in C
                                 THEN [row[e] EXCEPT !.st = "PROCESSING", !.owner = w, !.lease = "new"]
                                 ELSE row[e]]
    BY DEF Claim, C
<1>b. \A e \in Events :
        /\ row[e] \in Rows /\ [row[e] EXCEPT !.st = "PROCESSING", !.owner = w, !.lease = "new"] \in Rows
        /\ [row[e] EXCEPT !.st = "PROCESSING", !.owner = w, !.lease = "new"].st = "PROCESSING"
        /\ [row[e] EXCEPT !.st = "PROCESSING", !.owner = w, !.lease = "new"].owner = w
        /\ [row[e] EXCEPT !.st = "PROCESSING", !.owner = w, !.lease = "new"].retry = row[e].retry
    BY DEF Rows
<1>4. /\ row' = [e \in Events |-> IF e \in C
                                    THEN [row[e] EXCEPT !.st = "PROCESSING", !.owner = w, !.lease = "new"]
                                    ELSE row[e]]
      /\ row' \in [Events -> Rows]
      /\ \A e \in C : row'[e].st = "PROCESSING" /\ row'[e].owner = w /\ row'[e].retry = row[e].retry
      /\ \A e \in Events \ C : row'[e] = row[e]
    BY <1>1, <1>a, <1>b
<1> HIDE DEF t
<1>5. TypeOK'
  <2>1. \A e \in Events : row'[e].st = "none" => row'[e] = Fresh
    BY <1>4 DEF TypeOK
  <2>2. \A v \in Workers : wk'[v].pc \in {"run", "finalize", "fail"} => wk'[v].cur \in wk'[v].batch
    BY <1>2, <1>3 DEF TypeOK
  <2>3. \A v \in Workers : \A e \in wk'[v].batch : row'[e].st # "none"
    <3> SUFFICES ASSUME NEW v \in Workers, NEW e \in wk'[v].batch PROVE row'[e].st # "none"
      OBVIOUS
    <3>1. CASE e \in C
      BY <1>4, <3>1
    <3>2. CASE e \notin C
      <4>1. v # w /\ e \in wk[v].batch
        BY <1>2, <1>3, <3>2
      <4>2. e \in Events /\ row[e].st # "none"
        BY <4>1 DEF TypeOK, Ticks
      <4> QED
        BY <1>4, <3>2, <4>2
    <3> QED
      BY <3>1, <3>2
  <2> QED
    BY <1>3, <1>4, <2>1, <2>2, <2>3 DEF TypeOK
<1>6. ProcessedWasHandled'
    BY <1>1, <1>2, <1>3, <1>4 DEF ProcessedWasHandled
<1>7. RetriesAreEarned'
    BY <1>1, <1>3, <1>4 DEF RetriesAreEarned
<1>8. LeasedIsCurrent'
  <2> SUFFICES ASSUME NEW v \in Workers, NEW f \in Events, Owns(v, f)', f \in wk'[v].batch
               PROVE  /\ wk'[v].pc \in {"next", "run", "finalize", "fail"} => wk'[v].seen[f] = row'[f].retry
                      /\ wk'[v].pc = "fail" /\ wk'[v].cur = f => row'[f].retry < throws'[f]
    BY DEF LeasedIsCurrent
  <2>1. CASE v = w
    BY <1>2, <1>3, <2>1
  <2>2. CASE v # w
    <3>1. row'[f] = row[f] /\ Owns(v, f)
      BY <1>4, <2>2 DEF Owns
    <3>2. /\ wk[v].pc \in {"next", "run", "finalize", "fail"} => wk[v].seen[f] = row[f].retry
          /\ wk[v].pc = "fail" /\ wk[v].cur = f => row[f].retry < throws[f]
      BY <1>3, <2>2, <3>1 DEF LeasedIsCurrent
    <3> QED
      BY <1>3, <2>2, <3>1, <3>2
  <2> QED
    BY <2>1, <2>2
<1> QED
    BY <1>5, <1>6, <1>7, <1>8 DEF IInv

\* Steps of the environment on one row.
LEMMA EmitStep == ASSUME IInv, NEW e \in Events, Emit(e) PROVE IInv'
<1>1. row[e] = Fresh
    BY Parts DEF Emit, TypeOK
<1> DEFINE r == [row[e] EXCEPT !.st = "PENDING"]
<1>2. r \in Rows /\ r.retry = row[e].retry /\ r.owner = row[e].owner /\ r.st = "PENDING"
    BY Parts DEF Rows
<1>3. row' = [row EXCEPT ![e] = r] /\ UNCHANGED <<wk, handled, throws, faults>> /\ row[e].st = "none"
    BY Parts DEF Emit
<1> HIDE DEF r
<1> QED
    BY <1>2, <1>3, Parts, RowOnly

LEMMA BackoffStep == ASSUME IInv, NEW e \in Events, BackoffElapses(e) PROVE IInv'
<1> DEFINE r == [row[e] EXCEPT !.due = TRUE]
<1>1. r \in Rows /\ r.retry = row[e].retry /\ r.owner = row[e].owner /\ r.st = row[e].st
    BY Parts DEF Rows
<1>2. row' = [row EXCEPT ![e] = r] /\ UNCHANGED <<wk, handled, throws, faults>> /\ row[e].st # "none"
    BY Parts DEF BackoffElapses
<1> HIDE DEF r
<1> QED
    BY <1>1, <1>2, Parts, RowOnly

LEMMA LeaseStep == ASSUME IInv, NEW e \in Events, LeaseExpires(e) PROVE IInv'
<1> DEFINE r == [row[e] EXCEPT !.lease = "old"]
<1>1. r \in Rows /\ r.retry = row[e].retry /\ r.owner = row[e].owner /\ r.st = row[e].st
    BY Parts DEF Rows
<1>2. row' = [row EXCEPT ![e] = r] /\ UNCHANGED <<wk, handled, throws>> /\ row[e].st # "none"
    BY Parts DEF LeaseExpires
<1>3. faults' \in 0 .. MaxFaults
    BY Parts, OutboxAssumption DEF LeaseExpires
<1> HIDE DEF r
<1> QED
    BY <1>1, <1>2, <1>3, Parts, RowOnly

\* Steps of a worker that change no row.
LEMMA LoadStep == ASSUME IInv, NEW w \in Workers, Load(w) PROVE IInv'
<1> DEFINE t == [wk[w] EXCEPT !.pc = "next", !.seen = [e \in Events |-> row[e].retry]]
<1>1. t \in Ticks /\ t.pc = "next" /\ t.batch = wk[w].batch /\ \A e \in Events : t.seen[e] = row[e].retry
    BY Parts DEF Ticks
<1>2. wk' = [wk EXCEPT ![w] = t] /\ UNCHANGED <<row, handled, throws, faults>>
    BY Parts DEF Load
<1>3. t.batch \subseteq Events
    BY <1>1, Parts DEF Ticks
<1> HIDE DEF t
<1>9. TickChange(w, t)
    BY <1>1, <1>2, <1>3, Parts DEF TickChange
<1> QED
    BY <1>1, <1>9, TickOnly

LEMMA StartStep == ASSUME IInv, NEW w \in Workers, NEW e \in Events, Start(w, e) PROVE IInv'
<1> DEFINE t == [wk[w] EXCEPT !.pc = "run", !.cur = e]
<1>1. t \in Ticks /\ t.pc = "run" /\ t.batch = wk[w].batch /\ t.cur = e /\ t.seen = wk[w].seen
    BY Parts DEF Ticks
<1>2. wk' = [wk EXCEPT ![w] = t] /\ UNCHANGED <<row, handled, throws, faults>> /\ e \in wk[w].batch
    BY Parts DEF Start
<1>3. wk[w].pc = "next" /\ wk[w].batch \subseteq Events
    BY Parts DEF Start, Ticks
<1>4. \A f \in wk[w].batch : Owns(w, f) => wk[w].seen[f] = row[f].retry
    BY <1>3, Parts DEF LeasedIsCurrent
<1> HIDE DEF t
<1>9. TickChange(w, t)
    BY <1>1, <1>2, <1>4, Parts DEF TickChange
<1> QED
    BY <1>1, <1>9, TickOnly

LEMMA IdleStep == ASSUME IInv, NEW w \in Workers, EndTick(w) \/ Crash(w) PROVE IInv'
<1>2. wk' = [wk EXCEPT ![w] = IdleWk] /\ UNCHANGED <<row, handled, throws>> /\ faults' \in 0 .. MaxFaults
    BY Parts, OutboxAssumption DEF EndTick, Crash
<1>9. TickChange(w, IdleWk)
    BY <1>2, IdleTick, Parts DEF TickChange
<1> QED
    BY IdleTick, <1>9, TickOnly

LEMMA CompletesStep == ASSUME IInv, NEW w \in Workers, HandlerCompletes(w) PROVE IInv'
<1> DEFINE t == [wk[w] EXCEPT !.pc = "finalize"]
<1>1. t \in Ticks /\ t.pc = "finalize" /\ t.batch = wk[w].batch /\ t.cur = wk[w].cur /\ t.seen = wk[w].seen
    BY Parts DEF Ticks
<1>2. /\ wk' = [wk EXCEPT ![w] = t] /\ UNCHANGED <<row, throws, faults>>
      /\ handled' = handled \cup {wk[w].cur} /\ wk[w].pc = "run"
    BY Parts DEF HandlerCompletes
<1>3. wk[w].batch \subseteq Events /\ wk[w].cur \in wk[w].batch
    BY <1>2, Parts DEF Ticks, TypeOK
<1>4. \A f \in wk[w].batch : Owns(w, f) => wk[w].seen[f] = row[f].retry
    BY <1>2, <1>3, Parts DEF LeasedIsCurrent
<1> HIDE DEF t
<1>9. TickChange(w, t)
    BY <1>1, <1>2, <1>3, <1>4, Parts DEF TickChange
<1> QED
    BY <1>1, <1>9, TickOnly

\* An exception is counted before the failure is written.
LEMMA ThrowStep ==
    ASSUME IInv, NEW w \in Workers, UNCHANGED <<row, handled>>, wk[w].pc \in {"run", "finalize"},
           throws' = [throws EXCEPT ![wk[w].cur] = @ + 1], wk' = [wk EXCEPT ![w].pc = "fail"],
           faults' \in 0 .. MaxFaults
    PROVE  IInv'
<1> DEFINE t == [wk[w] EXCEPT !.pc = "fail"]
<1>1. t \in Ticks /\ t.pc = "fail" /\ t.batch = wk[w].batch /\ t.cur = wk[w].cur /\ t.seen = wk[w].seen
    BY Parts DEF Ticks
<1>2. wk' = [wk EXCEPT ![w] = t]
    BY Parts
<1>3. wk[w].batch \subseteq Events /\ wk[w].cur \in wk[w].batch
    BY Parts DEF Ticks, TypeOK
<1>4. \A f \in wk[w].batch : Owns(w, f) => wk[w].seen[f] = row[f].retry
    BY <1>3, Parts DEF LeasedIsCurrent
<1>5. /\ throws' \in [Events -> Nat] /\ \A e \in Events : throws'[e] >= throws[e]
      /\ throws'[wk[w].cur] = throws[wk[w].cur] + 1
    BY <1>3, Parts
<1>6. row[wk[w].cur].retry < throws'[wk[w].cur]
    BY <1>3, <1>5, Parts DEF RetriesAreEarned
<1> HIDE DEF t
<1>9. TickChange(w, t)
    BY <1>1, <1>2, <1>3, <1>4, <1>5, <1>6, Parts DEF TickChange
<1> QED
    BY <1>1, <1>9, TickOnly

LEMMA ThrowsStep == ASSUME IInv, NEW w \in Workers, HandlerThrows(w) PROVE IInv'
<1>1. /\ UNCHANGED <<row, handled>> /\ wk[w].pc \in {"run", "finalize"} /\ faults' \in 0 .. MaxFaults
      /\ throws' = [throws EXCEPT ![wk[w].cur] = @ + 1] /\ wk' = [wk EXCEPT ![w].pc = "fail"]
    BY Parts DEF HandlerThrows
<1> QED
    BY <1>1, ThrowStep

\* Steps that write an outcome.
LEMMA FinalizeStep == ASSUME IInv, NEW w \in Workers, Finalize(w) PROVE IInv'
<1> DEFINE e == wk[w].cur
           t == [wk[w] EXCEPT !.pc = "next", !.cur = NoEvent, !.batch = @ \ {e}]
           r == [row[e] EXCEPT !.st = "PROCESSED", !.owner = NoOwner, !.lease = "none"]
<1>1. e \in wk[w].batch /\ e \in Events /\ e \in handled /\ wk[w].batch \subseteq Events
    BY Parts DEF Finalize, TypeOK, Ticks, ProcessedWasHandled
<1>2. /\ t \in Ticks /\ t.pc = "next" /\ t.batch = wk[w].batch \ {e} /\ t.seen = wk[w].seen
      /\ wk' = [wk EXCEPT ![w] = t] /\ wk[w].pc = "finalize" /\ UNCHANGED <<handled, throws, faults>>
    BY Parts DEF Finalize, Drop, Ticks
<1>3. r \in Rows /\ r.st = "PROCESSED" /\ r.retry = row[e].retry
  <2>1. row[e] \in Rows
    BY <1>1, Parts
  <2> QED
    BY <2>1, OutcomeRows
<1>4. row[e].retry <= throws[e]
    BY <1>1, Parts DEF RetriesAreEarned
<1>5. CASE Owns(w, e)
  <2>1. row' = [row EXCEPT ![e] = r]
    BY <1>1, <1>5, Parts DEF Finalize, Processed
  <2> HIDE DEF e, t, r
  <2>9. OutcomeChange(w, e, r, t)
    BY <1>1, <1>2, <1>3, <1>4, <1>5, <2>1, Parts DEF OutcomeChange
  <2> QED
    BY <1>1, <1>2, <1>3, <2>9, Outcome
<1>6. CASE ~Owns(w, e)
  <2>1. UNCHANGED row
    BY <1>6 DEF Finalize, Processed
  <2>2. \A f \in t.batch : Owns(w, f) => t.seen[f] = row[f].retry
    BY <1>1, <1>2, Parts DEF LeasedIsCurrent
  <2> HIDE DEF e, t, r
  <2>3. TickChange(w, t)
    BY <1>1, <1>2, <2>1, <2>2, Parts DEF TickChange
  <2> QED
    BY <1>2, <2>3, TickOnly
<1> QED
    BY <1>5, <1>6

LEMMA FinalizeThrowsStep == ASSUME IInv, NEW w \in Workers, FinalizeThrows(w) PROVE IInv'
<1> DEFINE e == wk[w].cur
           t == [wk[w] EXCEPT !.pc = "fail"]
           r == [row[e] EXCEPT !.st = "PROCESSED", !.owner = NoOwner, !.lease = "none"]
<1>1. e \in wk[w].batch /\ e \in Events /\ e \in handled /\ wk[w].batch \subseteq Events
    BY Parts DEF FinalizeThrows, TypeOK, Ticks, ProcessedWasHandled
<1>2. /\ t \in Ticks /\ t.pc = "fail" /\ t.batch = wk[w].batch /\ t.seen = wk[w].seen /\ t.cur = e
      /\ wk' = [wk EXCEPT ![w] = t] /\ wk[w].pc = "finalize" /\ UNCHANGED handled
    BY Parts DEF FinalizeThrows, Ticks
<1>3. throws' = [throws EXCEPT ![e] = @ + 1] /\ faults' \in 0 .. MaxFaults
    BY Parts, OutboxAssumption DEF FinalizeThrows
<1>4. CASE UNCHANGED row
    BY <1>2, <1>3, <1>4, ThrowStep DEF FinalizeThrows
<1>5. CASE row' # row
  <2>1. Owns(w, e) /\ row' = [row EXCEPT ![e] = r]
    BY <1>1, <1>5, Parts DEF FinalizeThrows, Processed
  <2>2. r \in Rows /\ r.st = "PROCESSED" /\ r.retry = row[e].retry
    <3>1. row[e] \in Rows
      BY <1>1, Parts
    <3> QED
      BY <3>1, OutcomeRows
  <2>3. /\ throws' \in [Events -> Nat] /\ \A f \in Events : throws'[f] >= throws[f]
        /\ row[e].retry <= throws'[e]
    BY <1>1, <1>3, Parts DEF RetriesAreEarned
  <2> HIDE DEF e, t, r
  <2>9. OutcomeChange(w, e, r, t)
    BY <1>1, <1>2, <1>3, <2>1, <2>2, <2>3, Parts DEF OutcomeChange
  <2> QED
    BY <1>1, <1>2, <2>2, <2>9, Outcome
<1> QED
    BY <1>4, <1>5

LEMMA FailStep == ASSUME IInv, NEW w \in Workers, Fail(w) PROVE IInv'
<1> DEFINE e == wk[w].cur
           t == [wk[w] EXCEPT !.pc = "next", !.cur = NoEvent, !.batch = @ \ {e}]
           r == AfterFailure(row[e], wk[w].seen[e] + 1)
<1>1. e \in wk[w].batch /\ e \in Events /\ wk[w].batch \subseteq Events /\ wk[w].pc = "fail"
    BY Parts DEF Fail, TypeOK, Ticks
<1>2. /\ t \in Ticks /\ t.pc = "next" /\ t.batch = wk[w].batch \ {e} /\ t.seen = wk[w].seen
      /\ wk' = [wk EXCEPT ![w] = t] /\ UNCHANGED <<handled, throws, faults>>
    BY Parts DEF Fail, Drop, Ticks
<1>3. CASE Owns(w, e)
  <2>1. row' = [row EXCEPT ![e] = r]
    BY <1>1, <1>3, Parts DEF Fail
  <2>2. wk[w].seen[e] = row[e].retry /\ row[e].retry < throws[e]
    BY <1>1, <1>3, Parts DEF LeasedIsCurrent
  <2>3. row[e].retry < MaxRetries
    BY <1>1, <1>3, Parts DEF RetriesAreEarned, Owns
  <2>4. row[e] \in Rows /\ row[e].retry + 1 \in 0 .. MaxRetries
    <3>1. row[e] \in Rows /\ row[e].retry \in 0 .. MaxRetries
      BY <1>1, Parts
    <3> HIDE DEF e
    <3> QED
      BY <2>3, <3>1, OutboxAssumption
  <2>5. /\ r \in Rows /\ r.st \in {"PENDING", "FAILED"} /\ r.retry = row[e].retry + 1
        /\ r.st = "FAILED" => r.retry = MaxRetries
        /\ r.st = "PENDING" => r.retry < MaxRetries
    BY <2>2, <2>4, FailureRows
  <2>6. r.retry <= throws[e]
    BY <1>1, <2>2, <2>5, Parts
  <2> HIDE DEF e, t, r
  <2>9. OutcomeChange(w, e, r, t)
    BY <1>1, <1>2, <1>3, <2>1, <2>5, <2>6, Parts DEF OutcomeChange
  <2> QED
    BY <1>1, <1>2, <2>5, <2>9, Outcome
<1>4. CASE ~Owns(w, e)
  <2>1. UNCHANGED row
    BY <1>4 DEF Fail
  <2>2. \A f \in t.batch : Owns(w, f) => t.seen[f] = row[f].retry
    BY <1>1, <1>2, Parts DEF LeasedIsCurrent
  <2> HIDE DEF e, t, r
  <2>3. TickChange(w, t)
    BY <1>1, <1>2, <2>1, <2>2, Parts DEF TickChange
  <2> QED
    BY <1>2, <2>3, TickOnly
<1> QED
    BY <1>3, <1>4

LEMMA NextIInv == ASSUME IInv, [Next]_vars PROVE IInv'
<1>1. CASE \E e \in Events : Emit(e)
    BY <1>1, EmitStep
<1>2. CASE \E w \in Workers : Tick(w) \/ FinalizeThrows(w) \/ Crash(w)
    BY <1>2, ClaimStep, LoadStep, StartStep, IdleStep, CompletesStep, ThrowsStep, FinalizeStep,
       FinalizeThrowsStep, FailStep DEF Tick
<1>3. CASE Time
    BY <1>3, BackoffStep, LeaseStep DEF Time
<1>4. CASE UNCHANGED vars
    BY <1>4 DEF vars, IInv, TypeOK, ProcessedWasHandled, RetriesAreEarned, LeasedIsCurrent, Owns
<1> QED
    BY <1>1, <1>2, <1>3, <1>4 DEF Next

LEMMA Invariance == Spec => []IInv
<1> QED
    BY InitIInv, NextIInv, PTL DEF Spec

\* Rows and ticks keep their shape.
THEOREM OutboxTypeCorrect == Spec => []TypeOK
<1>1. IInv => TypeOK
    BY DEF IInv
<1> QED
    BY <1>1, Invariance, PTL

\* No event counts as processed before its handler has completed, for any number of
\* workers, events, retries and faults.
THEOREM HandledBeforeProcessed == Spec => []ProcessedWasHandled
<1>1. IInv => ProcessedWasHandled
    BY DEF IInv
<1> QED
    BY <1>1, Invariance, PTL

\* An event is given up only after MaxRetries exceptions of its own.
THEOREM RetriesEarned == Spec => []RetriesAreEarned
<1>1. IInv => RetriesAreEarned
    BY DEF IInv
<1> QED
    BY <1>1, Invariance, PTL

\* Rows keep their shape and count only exceptions of their own.
THEOREM RowsHoldAlways == Spec => []RowsHold
<1>1. IInv => RowsHold
    BY DEF IInv, RowsHold
<1> QED
    BY <1>1, Invariance, PTL

\* A step that changes no retry count downwards and no final row.
LEMMA FinalStep ==
    ASSUME IInv, [Next]_vars, NEW f \in Events
    PROVE  /\ row[f].st \in {"PROCESSED", "FAILED"} => row'[f] = row[f]
           /\ row'[f].retry >= row[f].retry
<1> USE OutboxAssumption, Parts
<1>1. CASE UNCHANGED row
    BY <1>1
<1>2. CASE \E e \in Events : Emit(e) \/ BackoffElapses(e) \/ LeaseExpires(e)
    BY <1>2 DEF Emit, BackoffElapses, LeaseExpires, Rows
<1>3. CASE \E w \in Workers : Claim(w)
  <2>1. f \in Oldest(Claimable) => row[f].st \in {"PENDING", "PROCESSING"}
    BY DEF Oldest, Claimable
  <2>2. row[f] \in Rows /\ row[f].retry \in Nat
    OBVIOUS
  <2>3. PICK w \in Workers :
          row'[f] = IF f \in Oldest(Claimable)
                    THEN [row[f] EXCEPT !.st = "PROCESSING", !.owner = w, !.lease = "new"] ELSE row[f]
    BY <1>3 DEF Claim
  <2>4. row'[f].retry = row[f].retry
    BY <2>2, <2>3 DEF Rows
  <2> QED
    BY <2>1, <2>2, <2>3, <2>4
<1>4. CASE \E w \in Workers : Finalize(w) \/ FinalizeThrows(w)
  <2>1. PICK w \in Workers : row' = Processed(w, wk[w].cur) \/ UNCHANGED row
    BY <1>4 DEF Finalize, FinalizeThrows
  <2>2. row[f] \in Rows /\ row[f].retry \in Nat
    OBVIOUS
  <2>3. CASE Owns(w, f) /\ wk[w].cur = f /\ row' = Processed(w, f)
    <3>1. row'[f] = [row[f] EXCEPT !.st = "PROCESSED", !.owner = NoOwner, !.lease = "none"]
      BY <2>3 DEF Processed
    <3>2. row'[f].retry = row[f].retry
      BY <2>2, <3>1, OutcomeRows
    <3> QED
      BY <2>2, <2>3, <3>2 DEF Owns
  <2>4. CASE ~(Owns(w, f) /\ wk[w].cur = f /\ row' = Processed(w, f))
    <3>1. row'[f] = row[f]
      BY <2>1, <2>4 DEF Processed
    <3> QED
      BY <2>2, <3>1
  <2> QED
    BY <2>3, <2>4
<1>5. CASE \E w \in Workers : Fail(w)
  <2> PICK w \in Workers : Fail(w)
    BY <1>5
  <2> DEFINE e == wk[w].cur
  <2>1. e \in Events /\ e \in wk[w].batch /\ wk[w].pc = "fail"
    BY DEF Fail, TypeOK, Ticks
  <2>2. CASE ~Owns(w, e) \/ f # e
    BY <2>1, <2>2 DEF Fail
  <2>3. CASE Owns(w, e) /\ f = e
    <3>1. wk[w].seen[e] = row[e].retry
      BY <2>1, <2>3 DEF LeasedIsCurrent
    <3>2. row[e] \in Rows /\ row[e].retry + 1 \in 0 .. MaxRetries
      BY <2>1, <2>3 DEF RetriesAreEarned, Owns
    <3>3. row'[e] = AfterFailure(row[e], row[e].retry + 1)
      BY <2>1, <2>3, <3>1 DEF Fail
    <3> DEFINE n == row[e].retry + 1
    <3>4. row'[e] = AfterFailure(row[e], n) /\ n \in 0 .. MaxRetries /\ row[e] \in Rows
      BY <3>2, <3>3
    <3> HIDE DEF e, n
    <3>5. row'[e].retry = n
      BY ONLY <3>4, FailureRows
    <3> QED
      BY <2>3, <3>2, <3>5 DEF Owns, n
  <2> QED
    BY <2>2, <2>3
<1> QED
  <2>1. CASE \E w \in Workers : Load(w) \/ EndTick(w) \/ HandlerCompletes(w) \/ HandlerThrows(w) \/ Crash(w)
                                \/ \E e \in Events : Start(w, e)
    BY <1>1, <2>1 DEF Load, EndTick, HandlerCompletes, HandlerThrows, Crash, Start
  <2> QED
    BY <1>1, <1>2, <1>3, <1>4, <1>5, <2>1 DEF Next, Tick, Time, vars

\* A worker that writes an outcome late changes nothing that was decided.
THEOREM OutcomesFinal == Spec => OutcomesAreFinal
<1>1. IInv /\ [Next]_vars =>
        [\A e \in Events : /\ row[e].st \in {"PROCESSED", "FAILED"} => row'[e] = row[e]
                           /\ row'[e].retry >= row[e].retry]_vars
    BY FinalStep
<1> QED
    BY <1>1, Invariance, PTL DEF Spec, OutcomesAreFinal

\* The abstract status is a function of the row's status.
LEMMA Promises ==
    /\ Promise("none") = "absent" /\ Promise("PENDING") = "queued" /\ Promise("PROCESSING") = "queued"
    /\ Promise("PROCESSED") = "done" /\ Promise("FAILED") = "dead"
BY DEF Promise

LEMMA StatusOf ==
    /\ Status = [e \in Events |-> Promise(row[e].st)] /\ Status' = [e \in Events |-> Promise(row'[e].st)]
    /\ \A e \in Events : Status[e] = Promise(row[e].st)
BY DEF Status

\* A step that moves the status of no row but e's.
LEMMA StatusMoves ==
    ASSUME NEW e \in Events, \A f \in Events \ {e} : row'[f].st = row[f].st
    PROVE  Status' = [Status EXCEPT ![e] = Promise(row'[e].st)]
BY StatusOf

\* Every step of the outbox is a step of AtLeastOnce or changes nothing it sees.
LEMMA StepRefines == ASSUME IInv, [Next]_vars PROVE [ALO!Next]_<<Status, handled>>
<1> USE DEF ALO!Next, ALO!Enqueue, ALO!Handle, ALO!Complete, ALO!GiveUp
<1>1. (\A f \in Events : Promise(row'[f].st) = Promise(row[f].st)) => Status' = Status
    BY StatusOf
<1>2. CASE \E e \in Events : Emit(e)
  <2> PICK e \in Events : Emit(e)
    BY <1>2
  <2>1. row[e].st = "none" /\ row'[e].st = "PENDING" /\ (\A f \in Events \ {e} : row'[f].st = row[f].st) /\ handled' = handled
    BY Parts DEF Emit, Rows
  <2>2. Status[e] = "absent" /\ Status' = [Status EXCEPT ![e] = "queued"]
    BY <2>1, StatusMoves, StatusOf, Promises
  <2> QED
    BY <2>1, <2>2
<1>3. CASE \E e \in Events : BackoffElapses(e) \/ LeaseExpires(e)
  <2>1. \A f \in Events : row'[f].st = row[f].st
    BY <1>3, Parts DEF BackoffElapses, LeaseExpires, Rows
  <2> QED
    BY <1>1, <1>3, <2>1 DEF BackoffElapses, LeaseExpires
<1>4. CASE \E w \in Workers : Claim(w)
  <2>1. \A f \in Events : \/ row'[f] = row[f]
                          \/ row[f].st \in {"PENDING", "PROCESSING"} /\ row'[f].st = "PROCESSING"
    <3> TAKE f \in Events
    <3>1. row[f] \in Rows /\ (f \in Oldest(Claimable) => row[f].st \in {"PENDING", "PROCESSING"})
      BY Parts DEF Oldest, Claimable
    <3>2. PICK w \in Workers :
            row'[f] = IF f \in Oldest(Claimable)
                      THEN [row[f] EXCEPT !.st = "PROCESSING", !.owner = w, !.lease = "new"] ELSE row[f]
      BY <1>4 DEF Claim
    <3> QED
      BY <3>1, <3>2 DEF Rows
  <2> QED
    BY <1>1, <1>4, <2>1, Promises DEF Claim
<1>5. CASE \E w \in Workers : HandlerCompletes(w)
  <2> PICK w \in Workers : HandlerCompletes(w)
    BY <1>5
  <2> DEFINE e == wk[w].cur
  <2>1. e \in Events /\ row[e].st # "none" /\ row[e] \in Rows
    BY Parts DEF HandlerCompletes, TypeOK, Ticks
  <2>2. Status[e] # "absent"
    BY <2>1, StatusOf, Promises DEF Rows
  <2>3. Status' = Status /\ handled' = handled \cup {e}
    BY <1>1 DEF HandlerCompletes
  <2> HIDE DEF e
  <2> QED
    BY <2>1, <2>2, <2>3
<1>6. CASE UNCHANGED <<row, handled>>
    BY <1>1, <1>6
<1>7. CASE \E w \in Workers : Finalize(w) \/ FinalizeThrows(w)
  <2> PICK w \in Workers : Finalize(w) \/ FinalizeThrows(w)
    BY <1>7
  <2> DEFINE e == wk[w].cur
  <2>1. e \in Events /\ e \in handled /\ row[e] \in Rows /\ handled' = handled
    BY Parts DEF Finalize, FinalizeThrows, TypeOK, Ticks, ProcessedWasHandled
  <2>2. CASE UNCHANGED row
    BY <1>6, <2>1, <2>2
  <2>3. CASE row' # row
    <3>1. Owns(w, e) /\ row' = [row EXCEPT ![e] = [@ EXCEPT !.st = "PROCESSED", !.owner = NoOwner, !.lease = "none"]]
      BY <2>3 DEF Finalize, FinalizeThrows, Processed
    <3> HIDE DEF e
    <3>2. row'[e].st = "PROCESSED" /\ (\A f \in Events \ {e} : row'[f].st = row[f].st) /\ row[e].st = "PROCESSING"
      BY <2>1, <3>1, Parts, OutcomeRows DEF Owns
    <3>3. Status[e] = "queued" /\ Status' = [Status EXCEPT ![e] = "done"]
      BY <2>1, <3>2, StatusMoves, StatusOf, Promises
    <3> QED
      BY <2>1, <3>3
  <2> QED
    BY <2>2, <2>3
<1>8. CASE \E w \in Workers : Fail(w)
  <2> PICK w \in Workers : Fail(w)
    BY <1>8
  <2> DEFINE e == wk[w].cur
             n == wk[w].seen[e] + 1
  <2>1. e \in Events /\ row[e] \in Rows /\ handled' = handled /\ e \in wk[w].batch /\ wk[w].pc = "fail"
    BY Parts DEF Fail, TypeOK, Ticks
  <2>2. CASE UNCHANGED row
    BY <1>6, <2>1, <2>2
  <2>3. CASE row' # row
    <3>1. Owns(w, e) /\ row' = [row EXCEPT ![e] = AfterFailure(@, n)]
      BY <2>3 DEF Fail
    <3>2. wk[w].seen[e] = row[e].retry /\ row[e].retry < MaxRetries /\ row[e].retry \in Nat
      BY <2>1, <3>1, Parts DEF LeasedIsCurrent, RetriesAreEarned, Owns
    <3>3. n \in 0 .. MaxRetries
      BY <3>2, OutboxAssumption
    <3> HIDE DEF e, n
    <3>4. row'[e].st \in {"PENDING", "FAILED"} /\ (\A f \in Events \ {e} : row'[f].st = row[f].st) /\ row[e].st = "PROCESSING"
      BY <2>1, <3>1, <3>3, Parts, FailureRows DEF Owns
    <3>5. CASE row'[e].st = "PENDING"
      BY <1>1, <2>1, <3>4, <3>5, Promises
    <3>6. CASE row'[e].st = "FAILED"
      <4>1. Status[e] = "queued" /\ Status' = [Status EXCEPT ![e] = "dead"]
        BY <2>1, <3>4, <3>6, StatusMoves, StatusOf, Promises
      <4> QED
        BY <2>1, <4>1
    <3> QED
      BY <3>4, <3>5, <3>6
  <2> QED
    BY <2>2, <2>3
<1>9. CASE \E w \in Workers : Load(w) \/ EndTick(w) \/ HandlerThrows(w) \/ Crash(w) \/ \E e \in Events : Start(w, e)
    BY <1>6, <1>9 DEF Load, EndTick, HandlerThrows, Crash, Start
<1> QED
    BY <1>2, <1>3, <1>4, <1>5, <1>6, <1>7, <1>8, <1>9 DEF Next, Tick, Time, vars

\* The outbox handles what is emitted at least once before it counts it as done.
THEOREM RefinesAtLeastOnce == Spec => ImplementsAtLeastOnce
<1>1. Init => ALO!Init
    BY Promises DEF Init, ALO!Init, Status, Fresh
<1>2. IInv /\ [Next]_vars => [ALO!Next]_ALO!aloVars
    BY StepRefines DEF ALO!aloVars
<1> QED
    BY <1>1, <1>2, Invariance, PTL DEF Spec, ImplementsAtLeastOnce, ALO!Spec
=============================================================================
