------------------------------ MODULE Commentary ------------------------------
(***************************************************************************)
(* The automatic commentary of one auction (internal/ai/repository.go).    *)
(* A decision that a bidder is answered is offered for commentary by the   *)
(* gateway; workers look for committed events without a system message,    *)
(* queue a job for each, claim jobs under a lease, generate a text and     *)
(* store it as the message of the event; hosts write commentary too, and   *)
(* turn the automatic one off and on.                                      *)
(*                                                                         *)
(* An event is the sequence number of its decision.  Of a message it       *)
(* matters here only that the event has one: a text the provider got wrong *)
(* is replaced by a template, and a second message is dropped.             *)
(***************************************************************************)
EXTENDS Integers, Sequences, FiniteSets, SequencesExt, FiniteSetsExt

CONSTANTS
  Workers,         \* the worker loops, one per server process
  WorkerId,        \* the id each runs under (AI_COMMENTARY_WORKER_ID)
  None,            \* no job, no worker
  BatchSize,       \* AutoCommentaryWorkerOptions.BatchSize
  MaxAttempts,     \* the literal 3 of the claim and failure statements
  MaxEvents,       \* bound on the decisions
  MaxSpent         \* bound on crashes, failed calls, stalls, host commentary,
                   \* changes of the setting and events that grow too old,
                   \* taken together

ASSUME CommentaryAssumption ==
  /\ {BatchSize, MaxAttempts} \subseteq Nat \ {0}
  /\ {MaxEvents, MaxSpent} \subseteq Nat
  /\ DOMAIN WorkerId = Workers

VARIABLES
  events,          \* the kinds of the events in auction_events, in order
  aged,            \* how many are older than BackfillLookback
  enabled,         \* auction_ai_settings.auto_commentary_enabled
  commented,       \* the events that have a SYSTEM_AI message
  job,             \* the queue job of each event, or None
  queued,          \* the jobs in order of creation
  worker,          \* each worker: its step, found events, job, rounds left
  spent            \* what MaxSpent bounds

log == <<events, aged>>
vars == <<log, enabled, commented, job, queued, worker, spent>>

Events == 1 .. MaxEvents
NewJob == [status |-> "PENDING", attempts |-> 0, holder |-> None, expired |-> FALSE]
Idle == [pc |-> "backfill", todo |-> <<>>, event |-> 0, left |-> 0]

Init ==
  /\ events = <<>> /\ aged = 0 /\ enabled = TRUE
  /\ commented = {}
  /\ job = [n \in Events |-> None] /\ queued = <<>>
  /\ worker = [w \in Workers |-> Idle]
  /\ spent = 0

Spend == spent < MaxSpent /\ spent' = spent + 1
At(w, pc) == worker[w].pc = pc
Goto(w, pc) == worker' = [worker EXCEPT ![w].pc = pc]

-----------------------------------------------------------------------------
(* The decisions and their events                                          *)

(* The decision after the last committed one may have been answered.       *)
Decided(n) == n <= Len(events) + 1 /\ ~Contains(SubSeq(events, 1, n - 1), "auction_sold")

(* What settlement writes for an accepted bid: one that moves the end is   *)
(* an auction_extended event, one that buys the item ends the log.         *)
Kinds == {"bid_accepted", "auction_extended", "auction_sold"}

BidSettled ==
  /\ Len(events) < MaxEvents /\ Decided(Len(events) + 1)
  /\ \E kind \in Kinds : events' = Append(events, kind)
  /\ UNCHANGED <<aged, enabled, commented, job, queued, worker, spent>>

(* Time passes the lookback of the oldest event.                           *)
AgesOut ==
  /\ Spend /\ aged < Len(events) /\ aged' = aged + 1
  /\ UNCHANGED <<events, enabled, commented, job, queued, worker>>

UpdateAuctionAISettings ==
  /\ Spend /\ enabled' = ~enabled
  /\ UNCHANGED <<log, commented, job, queued, worker>>

-----------------------------------------------------------------------------
(* Messages and jobs                                                       *)

(* The message of an event is inserted once; a conflict keeps the first.   *)
InsertSystemMessage(n) == commented' = commented \cup {n}

(* A host has the provider write the commentary of a decision.             *)
CreateCommentary(n) ==
  /\ Spend /\ Decided(n)
  /\ InsertSystemMessage(n)
  /\ UNCHANGED <<log, enabled, job, queued, worker>>

(* The job of an event that has one, whatever its status, is left alone.   *)
Enqueue(n) ==
  IF job[n] = None
  THEN job' = [job EXCEPT ![n] = NewJob] /\ queued' = Append(queued, n)
  ELSE UNCHANGED <<job, queued>>

(* The gateway offers the decision it answered, settled or not, whatever   *)
(* its kind: a job is queued.  When that fails the text is generated and   *)
(* stored at once; when that fails too, or the process dies, nothing is.   *)
MaybeCreateAutoCommentary(n) ==
  /\ Decided(n)
  /\ \/ Enqueue(n) /\ UNCHANGED <<commented, spent>>
     \/ Spend /\ enabled /\ InsertSystemMessage(n) /\ UNCHANGED <<job, queued>>
  /\ UNCHANGED <<log, enabled, worker>>

-----------------------------------------------------------------------------
(* The worker loop                                                         *)

(* What the backfill query reads: committed events of two kinds, within    *)
(* the lookback, without a message.                                        *)
Backfilled(n) ==
  /\ n <= Len(events) /\ events[n] \in {"bid_accepted", "auction_sold"}
  /\ n > aged /\ n \notin commented

Missing == SetToSortSeq({n \in Events : Backfilled(n)}, <)

(* The oldest of them, as one query reads them.                            *)
EnqueueMissing(w) ==
  /\ At(w, "backfill")
  /\ worker' = [worker EXCEPT ![w] =
       [Idle EXCEPT !.pc = IF Missing = <<>> THEN "claim" ELSE "enqueue",
                    !.todo = SubSeq(Missing, 1, Min({BatchSize, Len(Missing)})),
                    !.left = BatchSize]]
  /\ UNCHANGED <<log, enabled, commented, job, queued, spent>>

(* They are queued one by one.                                             *)
EnqueueAutoCommentary(w) ==
  /\ At(w, "enqueue")
  /\ Enqueue(Head(worker[w].todo))
  /\ worker' = [worker EXCEPT ![w].todo = Tail(@),
       ![w].pc = IF Len(worker[w].todo) = 1 THEN "claim" ELSE @]
  /\ UNCHANGED <<log, enabled, commented, spent>>

(* Mutant: a job whose lease expired is not claimed again.                 *)
ClaimableUnheld(n) ==
  /\ job[n].status = "PENDING" /\ job[n].attempts < MaxAttempts
  /\ job[n].holder = None

Claimable(n) ==
  /\ job[n].status = "PENDING" /\ job[n].attempts < MaxAttempts
  /\ job[n].holder = None \/ job[n].expired

ClaimJob(w) ==
  /\ At(w, "claim")
  /\ LET ready == SelectSeq(queued, Claimable)
     IN IF ready = <<>>
        THEN worker' = [worker EXCEPT ![w] = Idle] /\ UNCHANGED job
        ELSE /\ job' = [job EXCEPT ![Head(ready)] =
                  [@ EXCEPT !.attempts = @ + 1, !.expired = FALSE,
                            !.holder = WorkerId[w]]]
             /\ worker' = [worker EXCEPT ![w].pc = "generate",
                             ![w].event = Head(ready), ![w].left = @ - 1]
  /\ UNCHANGED <<log, enabled, commented, queued, spent>>

(* CreateAutoCommentary refuses when the host turned commentary off, and   *)
(* when a query fails; otherwise it has a text, the provider's or not.     *)
Generate(w) ==
  /\ At(w, "generate")
  /\ \/ enabled /\ Goto(w, "insert") /\ UNCHANGED spent
     \/ /\ IF enabled THEN Spend ELSE UNCHANGED spent
        /\ Goto(w, "fail")
  /\ UNCHANGED <<log, enabled, commented, job, queued>>

(* The message is stored; the record of the generation, stored after it,   *)
(* may fail although the message is there.                                 *)
InsertMessage(w) ==
  /\ At(w, "insert")
  /\ InsertSystemMessage(worker[w].event)
  /\ \/ Goto(w, "complete") /\ UNCHANGED spent
     \/ Goto(w, "fail") /\ Spend
  /\ UNCHANGED <<log, enabled, job, queued>>

(* The loop over the batch goes on, or the round is over.                  *)
NextJob(w) ==
  worker' = [worker EXCEPT ![w] =
    IF @.left = 0 THEN Idle ELSE [@ EXCEPT !.pc = "claim", !.event = 0]]

(* Mutant: the outcome leaves the job to the worker that wrote it.         *)
ReportHeld(w, status) ==
  LET n == worker[w].event
  IN /\ \/ /\ job' = IF job[n].holder = WorkerId[w]
                     THEN [job EXCEPT ![n].status = status] ELSE job
           /\ UNCHANGED spent
        \/ Spend /\ UNCHANGED job
     /\ NextJob(w)
     /\ UNCHANGED <<log, enabled, commented, queued>>

(* Both outcomes are written only by the worker id the job is held under;  *)
(* two processes may run under one id.  Errors are ignored.                *)
Report(w, status) ==
  LET n == worker[w].event
  IN /\ \/ /\ job' = IF job[n].holder = WorkerId[w]
                     THEN [job EXCEPT ![n] = [@ EXCEPT !.status = status,
                                    !.holder = None, !.expired = FALSE]]
                     ELSE job
           /\ UNCHANGED spent
        \/ Spend /\ UNCHANGED job
     /\ NextJob(w)
     /\ UNCHANGED <<log, enabled, commented, queued>>

CompleteJob(w) == At(w, "complete") /\ Report(w, "SUCCEEDED")

FailJob(w) ==
  /\ At(w, "fail")
  /\ Report(w, IF job[worker[w].event].attempts < MaxAttempts
               THEN "PENDING" ELSE "FAILED")

Crash(w) ==
  /\ Spend /\ ~At(w, "backfill")
  /\ worker' = [worker EXCEPT ![w] = Idle]
  /\ UNCHANGED <<log, enabled, commented, job, queued>>

Working(w, n) == worker[w].event = n

(* The lease outlasts a task; it expires when its worker died or stalled.  *)
LeaseExpires(n) ==
  /\ job[n] # None /\ job[n].holder # None /\ ~job[n].expired
  /\ job' = [job EXCEPT ![n].expired = TRUE]
  /\ IF \E w \in Workers : Working(w, n) THEN Spend ELSE UNCHANGED spent
  /\ UNCHANGED <<log, enabled, commented, queued, worker>>

WorkerStep(w) ==
  \/ EnqueueMissing(w) \/ EnqueueAutoCommentary(w) \/ ClaimJob(w)
  \/ Generate(w) \/ InsertMessage(w) \/ CompleteJob(w) \/ FailJob(w)

Next ==
  \/ BidSettled \/ AgesOut \/ UpdateAuctionAISettings
  \/ \E n \in Events :
       CreateCommentary(n) \/ MaybeCreateAutoCommentary(n) \/ LeaseExpires(n)
  \/ \E w \in Workers : WorkerStep(w) \/ Crash(w)

(* Every worker keeps running, and a lease nobody holds runs out.  Nothing *)
(* is assumed of settlement, of the gateway's offers or of time.           *)
Fairness ==
  /\ \A w \in Workers : WF_vars(WorkerStep(w))
  /\ \A n \in Events : WF_vars(LeaseExpires(n) /\ UNCHANGED spent)

Spec == Init /\ [][Next]_vars /\ Fairness

-----------------------------------------------------------------------------
(* Properties                                                              *)

(* Nobody will claim the job of the event again: it failed, or its last    *)
(* attempt was cut short.                                                  *)
GivenUp(n) ==
  /\ job[n] # None
  /\ \/ job[n].status = "FAILED"
     \/ /\ job[n].status = "PENDING" /\ job[n].attempts = MaxAttempts
        /\ ~\E w \in Workers : Working(w, n)

(* The backfill reads only older events, all given up.                     *)
Starved(n) ==
  Cardinality({k \in 1 .. n - 1 : Backfilled(k) /\ GivenUp(k)}) >= BatchSize

(* A committed bid or sale that the backfill looks for gets a job or a     *)
(* message while it is within the lookback, unless as many older ones as a *)
(* batch holds were given up and hide it from the query; and whatever has  *)
(* a job, a bid that moved the end among them, is commented on unless all  *)
(* its attempts are used up (EnqueueMissingAutoCommentary, the gateway's   *)
(* offer, ProcessAutoCommentaryQueue and its claims).                      *)
EventuallyCommented ==
  \A n \in Events :
    /\ Backfilled(n)
         ~> (job[n] # None \/ n \in commented \/ n <= aged \/ Starved(n))
    /\ (job[n] # None) ~> (n \in commented \/ GivenUp(n))

(* A job that succeeded or failed stays as it is, and no worker is sent to *)
(* its event again: the late report of a worker that lost its lease finds  *)
(* no holder, although the worker that took over runs under the same id    *)
(* (completeAutoCommentaryQueueJob, failAutoCommentaryQueueJob).           *)
FinishedStaysFinished ==
  [][ \A n \in Events :
        (job[n] # None /\ job[n].status # "PENDING") =>
          /\ job'[n] = job[n]
          /\ \A w \in Workers : Working(w, n)' => Working(w, n) ]_vars

=============================================================================
