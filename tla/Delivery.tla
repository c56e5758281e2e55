------------------------------ MODULE Delivery ------------------------------
(***************************************************************************)
(* How committed auction events reach the viewers of one auction: the      *)
(* outbox relay (internal/outbox/relay.go), the Redis history and snapshot *)
(* it keeps, the in-process hub and the WebSocket sessions that recover    *)
(* from them (internal/realtime).                                          *)
(*                                                                         *)
(* One auction, one relay shard.  An event is its sequence number.  The    *)
(* relay of the API server publishes to the server's hub; a relay of       *)
(* another process (cmd/outboxrelay) has no hub.                           *)
(***************************************************************************)
EXTENDS Integers, Sequences, FiniteSets, SequencesExt, FiniteSetsExt

CONSTANTS
  Relays,          \* relay workers, one per process
  Server,          \* the relay that runs inside the API server, with a hub
  Sessions,        \* WebSocket connections a viewer may open
  None,            \* no lock holder, no lease, no data
  MaxEvents,       \* bound on the committed events
  HistoryLimit,    \* relay.historyLimit: entries the history list keeps
  RecoveryMax,     \* Options.RecoveryMaxEvents: entries a recovery reads
  QueueLimit,      \* HubOptions.QueueMessages: messages a session may lag
  MaxSpent         \* bound on crashes, failed calls, stalls, bad envelopes
                   \* and control signals, taken together

ASSUME DeliveryAssumption ==
  /\ Server \in Relays /\ None \notin Relays \cup Sessions
  /\ {HistoryLimit, RecoveryMax, QueueLimit} \subseteq Nat \ {0}
  /\ {MaxEvents, MaxSpent} \subseteq Nat

VARIABLES
  delivery,        \* outbox_delivery, one row per event in sequence order
  malformed,       \* events whose envelope the relay refuses
  anomalies,       \* events with an OUTBOX_DEAD_LETTER anomaly
  lease,           \* the shard's row of outbox_relay_shard_leases
  signal,          \* the control signal in system_control_signals, if any
  history,         \* Redis list auction:{id}:events
  snapshot,        \* Redis value auction:{id}:snapshot
  relay,           \* each relay: where it is in its loop, and on what event
  fanned,          \* history variable: events the hub has been given
  overtaken,       \* history variable: events published while a rebuild that
                   \* had read PostgreSQL before them was still to be stored
  session,         \* each session of the server
  rebuild,         \* snapshotGroup: the rebuild in flight, if any
  spent            \* what MaxSpent bounds

pgVars    == <<delivery, malformed, anomalies, lease>>
redisVars == <<history, snapshot>>
hubVars   == <<fanned, overtaken, session, rebuild>>
vars == <<pgVars, signal, redisVars, relay, hubVars, spent>>

Events   == 1 .. Len(delivery)
Statuses == {"PENDING", "PUBLISHING", "PUBLISHED", "FAILED", "DEAD"}
Unfinished(n) == delivery[n].status \in {"PENDING", "FAILED", "PUBLISHING"}

Paused  == "paused"
NoLease == [owner |-> None, live |-> FALSE]
NoSignal == [type |-> "none", status |-> "none", event |-> 0]
Idle == [pc |-> "renew", event |-> 0, fan |-> {}]
Closed == [phase |-> "closed", last |-> 0, source |-> "none", base |-> 0,
           got |-> {}, queue |-> <<>>]

Init ==
  /\ delivery = <<>> /\ malformed = {} /\ anomalies = {}
  /\ lease = NoLease /\ signal = NoSignal
  /\ history = <<>> /\ snapshot = None
  /\ relay = [r \in Relays |-> Idle]
  /\ fanned = {} /\ overtaken = {}
  /\ session = [s \in Sessions |-> Closed] /\ rebuild = None
  /\ spent = 0

Spend == spent < MaxSpent /\ spent' = spent + 1
At(r, pc) == relay[r].pc = pc
Goto(r, pc) == relay' = [relay EXCEPT ![r].pc = pc]

-----------------------------------------------------------------------------
(* PostgreSQL: a transaction commits an event with its outbox row.         *)

Row == [status |-> "PENDING", holder |-> None, expired |-> FALSE,
        published |-> FALSE]

(* The envelope is good unless its schema version is not the relay's (a    *)
(* process of a newer release wrote it) or its payload hash does not match *)
Commit(bad) ==
  /\ Len(delivery) < MaxEvents
  /\ delivery' = Append(delivery, Row)
  /\ IF bad THEN Spend /\ malformed' = malformed \cup {Len(delivery) + 1}
            ELSE UNCHANGED <<malformed, spent>>
  /\ UNCHANGED <<anomalies, lease, signal, redisVars, relay, hubVars>>

ValidEnvelope(n) == n \notin malformed

-----------------------------------------------------------------------------
(* The shard lease                                                         *)

(* Only a shard with unfinished rows is leased; the row is taken over when *)
(* it is the relay's own or has expired.                                   *)
Renewed(r) ==
  IF /\ \E n \in Events : Unfinished(n)
     /\ lease.owner \in {r, None} \/ ~lease.live
  THEN [owner |-> r, live |-> TRUE]
  ELSE lease

Owns(r) == lease.owner = r /\ lease.live

Ensured(r) == IF Owns(r) THEN lease ELSE Renewed(r)

Renew(r) ==
  /\ At(r, "renew")
  /\ lease' = Renewed(r)
  /\ Goto(r, "signals")
  /\ UNCHANGED <<delivery, malformed, anomalies, signal, redisVars, hubVars,
                 spent>>

-----------------------------------------------------------------------------
(* Control signals: claimed in one transaction, executed, then reported.   *)
(* A signal left PROCESSING by a crash is never claimed again.             *)

Request(type, n) ==
  /\ Spend /\ signal = NoSignal
  /\ signal' = [type |-> type, status |-> "PENDING", event |-> n]
  /\ UNCHANGED <<pgVars, redisVars, relay, hubVars>>

ClaimSignal(r) ==
  /\ At(r, "signals") /\ signal.status = "PENDING"
  /\ signal' = [signal EXCEPT !.status = "PROCESSING"]
  /\ Goto(r, "execute")
  /\ UNCHANGED <<pgVars, redisVars, hubVars, spent>>

(* The rebuild reads PostgreSQL now and writes Redis in a later step.      *)
ForceSnapshotRebuild(r) ==
  /\ signal.type = "force_snapshot_rebuild"
  /\ relay' = [relay EXCEPT ![r].pc = "store", ![r].event = Len(delivery)]
  /\ UNCHANGED pgVars

(* The operator may have repaired what made the envelope invalid.          *)
RetryDeadOutbox(r) ==
  /\ signal.type = "retry_dead_outbox"
  /\ delivery' = IF /\ signal.event \in Events
                     /\ delivery[signal.event].status = "DEAD"
                  THEN [delivery EXCEPT ![signal.event].status = "PENDING",
                                        ![signal.event].holder = None]
                  ELSE delivery
  /\ malformed' \in {malformed, malformed \ {signal.event}}
  /\ Goto(r, "report")
  /\ UNCHANGED <<anomalies, lease>>

PauseRelayShard(r) ==
  /\ signal.type = "pause_relay_shard"
  /\ lease' = [owner |-> Paused, live |-> TRUE]
  /\ Goto(r, "report")
  /\ UNCHANGED <<delivery, malformed, anomalies>>

ResumeRelayShard(r) ==
  /\ signal.type = "resume_relay_shard"
  /\ lease' = IF lease.owner = Paused THEN NoLease ELSE lease
  /\ Goto(r, "report")
  /\ UNCHANGED <<delivery, malformed, anomalies>>

ExecuteSignal(r) ==
  /\ At(r, "execute")
  /\ \/ ForceSnapshotRebuild(r) \/ RetryDeadOutbox(r)
     \/ PauseRelayShard(r) \/ ResumeRelayShard(r)
  /\ UNCHANGED <<signal, redisVars, hubVars, spent>>

StoreSnapshot(r) ==
  /\ At(r, "store")
  /\ snapshot' = [kind |-> "relay", seq |-> relay[r].event]
  /\ Goto(r, "report")
  /\ UNCHANGED <<pgVars, signal, history, hubVars, spent>>

ReportSignal(r) ==
  /\ At(r, "report")
  /\ signal' = NoSignal
  /\ relay' = [relay EXCEPT ![r] = [Idle EXCEPT !.pc = "signals"]]
  /\ UNCHANGED <<pgVars, redisVars, hubVars, spent>>

-----------------------------------------------------------------------------
(* Claiming a row                                                          *)

(* Mutant: an event somebody is publishing does not hold up later ones.    *)
HeadOfLineIgnoresPublishing(n) ==
  \A m \in 1 .. n - 1 : delivery[m].status \notin {"PENDING", "FAILED"}

(* The head of the line: nothing older is unfinished.  DEAD does not block.*)
HeadOfLine(n) == \A m \in 1 .. n - 1 : ~Unfinished(m)

(* Mutant: a row left PUBLISHING by a crash is not taken up again.         *)
ClaimableUnlocked(n) ==
  delivery[n].status \in {"PENDING", "FAILED"} /\ HeadOfLine(n)

Claimable(n) ==
  /\ \/ delivery[n].status \in {"PENDING", "FAILED"}
     \/ delivery[n].status = "PUBLISHING" /\ delivery[n].expired
  /\ HeadOfLine(n)

BeginBatch(r) ==
  /\ At(r, "signals") /\ signal.status # "PENDING"
  /\ lease' = Ensured(r)
  /\ Goto(r, "claim")
  /\ UNCHANGED <<delivery, malformed, anomalies, signal, redisVars, hubVars,
                 spent>>

ClaimOne(r) ==
  /\ At(r, "claim") /\ Owns(r)
  /\ \E n \in Events :
       /\ Claimable(n)
       /\ delivery' = [delivery EXCEPT ![n].status = "PUBLISHING",
                                       ![n].holder = r, ![n].expired = FALSE]
       /\ relay' = [relay EXCEPT ![r] = [pc |-> "publish", event |-> n,
                                         fan |-> {}]]
  /\ UNCHANGED <<malformed, anomalies, lease, signal, redisVars, hubVars,
                 spent>>

EndBatch(r) ==
  /\ At(r, "claim")
  /\ ~Owns(r) \/ \A n \in Events : ~Claimable(n)
  /\ Goto(r, "renew")
  /\ UNCHANGED <<pgVars, signal, redisVars, hubVars, spent>>

-----------------------------------------------------------------------------
(* Publishing a claimed event                                              *)

LastN(s, n) == SubSeq(s, Max({1, Len(s) - n + 1}), Len(s))

(* A snapshot that does not know of event n is about to be stored.         *)
Overtakes(n) ==
  \/ rebuild # None /\ rebuild.seq # None /\ rebuild.seq < n
  \/ \E r \in Relays : At(r, "store") /\ relay[r].event < n

(* The transaction RPUSH, LTRIM, SET of publish.                           *)
Push(n) ==
  /\ history' = LastN(Append(history, n), HistoryLimit)
  /\ snapshot' = [kind |-> "event", seq |-> n]
  /\ overtaken' = overtaken \cup {m \in {n} : Overtakes(m)}

Published(r) == Goto(r, IF r = Server THEN "fanout" ELSE "mark")

(* A call that fails may still have been carried out by Redis.             *)
Publish(r) ==
  /\ At(r, "publish")
  /\ \/ /\ ~ValidEnvelope(relay[r].event)
        /\ Goto(r, "dead")
        /\ UNCHANGED <<redisVars, overtaken, spent>>
     \/ /\ ValidEnvelope(relay[r].event)
        /\ Push(relay[r].event)
        /\ Published(r)
        /\ UNCHANGED spent
     \/ /\ ValidEnvelope(relay[r].event)
        /\ Spend
        /\ Push(relay[r].event) \/ UNCHANGED <<redisVars, overtaken>>
        /\ Goto(r, "failed")
  /\ UNCHANGED <<pgVars, signal, fanned, session, rebuild>>

(* Mutant: the session subscribes only after it has recovered.             *)
OpenWhenLive == {s \in Sessions : session[s].phase = "live"}

Open == {s \in Sessions : session[s].phase # "closed"}

(* Hub.Publish copies the subscribers under the lock and sends after it.   *)
CopySubscribers(r) ==
  /\ At(r, "fanout")
  /\ relay' = [relay EXCEPT ![r].pc = "send", ![r].fan = Open]
  /\ UNCHANGED <<pgVars, signal, redisVars, hubVars, spent>>

(* A full queue closes the session: the viewer must reconnect.             *)
TrySend(sess, message) ==
  IF Len(sess.queue) < QueueLimit
  THEN [sess EXCEPT !.queue = Append(@, message)]
  ELSE Closed

SendToSubscribers(r) ==
  /\ At(r, "send")
  /\ session' = [s \in Sessions |->
                   IF s \in relay[r].fan \cap Open
                   THEN TrySend(session[s], relay[r].event)
                   ELSE session[s]]
  /\ fanned' = fanned \cup ({relay[r].event} \ {0})
  /\ relay' = [relay EXCEPT ![r].pc = IF relay[r].event = 0
                                     THEN "renew" ELSE "mark",
                            ![r].fan = {}]
  /\ UNCHANGED <<pgVars, signal, redisVars, overtaken, rebuild, spent>>

(* Neither outcome is fenced by the lock: a relay that lost it still writes*)
MarkPublished(r) ==
  /\ At(r, "mark")
  /\ delivery' = [delivery EXCEPT ![relay[r].event] =
                    [status |-> "PUBLISHED", holder |-> None,
                     expired |-> FALSE, published |-> TRUE]]
  /\ relay' = [relay EXCEPT ![r] = [Idle EXCEPT !.pc = "claim"]]
  /\ UNCHANGED <<malformed, anomalies, lease, signal, redisVars, hubVars,
                 spent>>

Unlocked(n, status) ==
  [delivery EXCEPT ![n].status = status, ![n].holder = None,
                   ![n].expired = FALSE]

(* A publication that failed for any reason but its payload is retried for *)
(* ever.                                                                   *)
MarkRetriable(r) ==
  /\ At(r, "failed")
  /\ delivery' = Unlocked(relay[r].event, "FAILED")
  /\ relay' = [relay EXCEPT ![r] = Idle]
  /\ UNCHANGED <<malformed, anomalies, lease, signal, redisVars, hubVars,
                 spent>>

(* A gap notice is message 0 of the hub.                                   *)
GapNotice(r) ==
  relay' = [relay EXCEPT ![r] = IF r = Server
                                THEN [Idle EXCEPT !.pc = "fanout"]
                                ELSE Idle]

MarkDead(r) ==
  /\ At(r, "dead")
  /\ delivery' = Unlocked(relay[r].event, "DEAD")
  /\ anomalies' = anomalies \cup {relay[r].event}
  /\ GapNotice(r)
  /\ UNCHANGED <<malformed, lease, signal, redisVars, hubVars, spent>>

-----------------------------------------------------------------------------
(* Sessions: subscribe first, then recover, then stream.                   *)

(* The viewer presents the last sequence number it has seen.               *)
Connect(s) ==
  /\ session[s].phase = "closed" /\ relay[Server].pc # "down"
  /\ Spend
  /\ \E last \in 0 .. Len(delivery) :
       session' = [session EXCEPT ![s] =
                     [Closed EXCEPT !.phase = "subscribed", !.last = last]]
  /\ UNCHANGED <<pgVars, signal, redisVars, relay, fanned, overtaken, rebuild>>

(* What recoveryMessages sends from the history: the events after last, or *)
(* nothing when they are not exactly last+1, last+2, ... in this order.    *)
FromHistory(last) ==
  LET tail  == LastN(history, RecoveryMax)
      newer == {i \in DOMAIN tail : tail[i] > last}
  IN  IF /\ last > 0
         /\ \A i \in newer :
              tail[i] = last + Cardinality({j \in newer : j <= i})
      THEN {tail[i] : i \in newer}
      ELSE {}

Served(s, source, base, messages) ==
  session' = [session EXCEPT ![s].phase = "live", ![s].source = source,
                             ![s].base = base, ![s].got = messages]

RecoverHistory(s) ==
  /\ session[s].phase = "subscribed"
  /\ LET messages == FromHistory(session[s].last)
     IN  IF messages # {}
         THEN Served(s, "history", session[s].last, messages)
         ELSE session' = [session EXCEPT ![s].phase = "snapshot"]
  /\ UNCHANGED <<pgVars, signal, redisVars, relay, fanned, overtaken, rebuild,
                 spent>>

(* The relay leaves an event envelope under the snapshot key, which is not *)
(* taken for a snapshot.                                                   *)
IsSnapshot == snapshot # None /\ snapshot.kind # "event"

CachedSnapshot(s) ==
  /\ session[s].phase = "snapshot" /\ IsSnapshot
  /\ Served(s, "redis", snapshot.seq, {})
  /\ UNCHANGED <<pgVars, signal, redisVars, relay, fanned, overtaken, rebuild,
                 spent>>

(* snapshotGroup.Do: the first caller rebuilds, the others wait for it.    *)
JoinRebuild(s) ==
  /\ session[s].phase = "snapshot" /\ ~IsSnapshot
  /\ session' = [session EXCEPT ![s].phase = "waiting",
                   ![s].source = IF rebuild = None THEN "db" ELSE "shared"]
  /\ rebuild' = IF rebuild = None THEN [seq |-> None] ELSE rebuild
  /\ UNCHANGED <<pgVars, signal, redisVars, relay, fanned, overtaken, spent>>

RebuildRead ==
  /\ rebuild # None /\ rebuild.seq = None
  /\ rebuild' = [rebuild EXCEPT !.seq = Len(delivery)]
  /\ UNCHANGED <<pgVars, signal, redisVars, relay, fanned, overtaken, session,
                 spent>>

Answer(source, base) ==
  session' = [s \in Sessions |->
    IF session[s].phase = "waiting"
    THEN [session[s] EXCEPT !.phase = "live", !.base = base[s],
                            !.source = source[s]]
    ELSE session[s]]

(* The write to Redis is best effort.                                      *)
RebuildDone ==
  /\ rebuild # None /\ rebuild.seq # None
  /\ snapshot' = [kind |-> "server", seq |-> rebuild.seq]
  /\ Answer([s \in Sessions |-> session[s].source],
            [s \in Sessions |-> rebuild.seq])
  /\ rebuild' = None
  /\ UNCHANGED <<pgVars, signal, history, relay, fanned, overtaken, spent>>

(* Saturated, or PostgreSQL failed: what Redis has by now, marked stale, or*)
(* snapshot_unavailable, which tells the viewer nothing.                   *)
RebuildFails ==
  /\ rebuild # None /\ rebuild.seq = None /\ Spend
  /\ Answer([s \in Sessions |-> "stale"],
            [s \in Sessions |->
               IF IsSnapshot THEN snapshot.seq ELSE session[s].last])
  /\ rebuild' = None
  /\ UNCHANGED <<pgVars, signal, redisVars, relay, fanned, overtaken>>

WriteMessage(s) ==
  /\ session[s].phase = "live" /\ session[s].queue # <<>>
  /\ session' = [session EXCEPT ![s].queue = Tail(@),
                   ![s].got = @ \cup ({Head(session[s].queue)} \ {0})]
  /\ UNCHANGED <<pgVars, signal, redisVars, relay, fanned, overtaken, rebuild,
                 spent>>

(* Unsubscribe: the copies a publication still holds lead nowhere.         *)
Disconnect(s) ==
  /\ session[s].phase # "closed"
  /\ session' = [session EXCEPT ![s] = Closed]
  /\ relay' = [r \in Relays |-> [relay[r] EXCEPT !.fan = @ \ {s}]]
  /\ UNCHANGED <<pgVars, signal, redisVars, fanned, overtaken, rebuild, spent>>

-----------------------------------------------------------------------------
(* Faults and time                                                         *)

Crash(r) ==
  /\ ~At(r, "down") /\ Spend
  /\ relay' = [relay EXCEPT ![r] = [Idle EXCEPT !.pc = "down"]]
  /\ IF r = Server
     THEN /\ session' = [s \in Sessions |-> Closed]
          /\ rebuild' = None
     ELSE UNCHANGED <<session, rebuild>>
  /\ UNCHANGED <<pgVars, signal, redisVars, fanned, overtaken>>

Restart(r) ==
  /\ At(r, "down")
  /\ Goto(r, "renew")
  /\ UNCHANGED <<pgVars, signal, redisVars, hubVars, spent>>

Working(r, n) ==
  /\ relay[r].event = n
  /\ relay[r].pc \in {"publish", "fanout", "send", "mark", "failed", "dead"}

(* The row lock outlives the relay that took it, or that relay stalls.  It *)
(* is taken for 30 s under a lease of 5 s that a working relay does not    *)
(* renew: the lease goes first.                                            *)
LockExpires(n) ==
  /\ delivery[n].status = "PUBLISHING" /\ ~delivery[n].expired
  /\ Working(delivery[n].holder, n) => ~Owns(delivery[n].holder)
  /\ delivery' = [delivery EXCEPT ![n].expired = TRUE]
  /\ UNCHANGED <<malformed, anomalies, lease, signal, redisVars, relay,
                 hubVars, spent>>

(* A pause ends by itself; a relay that runs loses its lease by a stall.   *)
LeaseExpires ==
  /\ lease.live
  /\ IF lease.owner = Paused \/ At(lease.owner, "down")
     THEN UNCHANGED spent ELSE Spend
  /\ lease' = [lease EXCEPT !.live = FALSE]
  /\ UNCHANGED <<delivery, malformed, anomalies, signal, redisVars, relay,
                 hubVars>>

(* The keys live 30 minutes after the last write: no call is that slow.    *)
HistoryExpires ==
  /\ history # <<>> /\ \A r \in Relays, n \in Events : ~Working(r, n)
  /\ Spend
  /\ history' = <<>> /\ snapshot' = None
  /\ UNCHANGED <<pgVars, signal, relay, hubVars>>

-----------------------------------------------------------------------------
RelayStep(r) ==
  \/ Renew(r) \/ ClaimSignal(r) \/ ExecuteSignal(r) \/ StoreSnapshot(r)
  \/ ReportSignal(r) \/ BeginBatch(r) \/ ClaimOne(r) \/ EndBatch(r)
  \/ Publish(r) \/ CopySubscribers(r) \/ SendToSubscribers(r)
  \/ MarkPublished(r) \/ MarkRetriable(r) \/ MarkDead(r)

SessionStep(s) ==
  \/ Connect(s) \/ RecoverHistory(s) \/ CachedSnapshot(s) \/ JoinRebuild(s)
  \/ WriteMessage(s) \/ Disconnect(s)

Operator ==
  \/ \E type \in {"force_snapshot_rebuild", "pause_relay_shard",
                   "resume_relay_shard"} : Request(type, 0)
  \/ \E n \in Events : Request("retry_dead_outbox", n)

Time ==
  \/ \E n \in Events : LockExpires(n)
  \/ LeaseExpires
  \/ HistoryExpires

Next ==
  \/ \E bad \in BOOLEAN : Commit(bad)
  \/ \E r \in Relays : RelayStep(r) \/ Crash(r) \/ Restart(r)
  \/ \E s \in Sessions : SessionStep(s)
  \/ RebuildRead \/ RebuildDone \/ RebuildFails
  \/ Operator \/ Time

Spec == Init /\ [][Next]_vars

(* A relay's loop keeps running, a stopped process is started again, and   *)
(* locks and leases nobody works under run out.                            *)
Expiry == (\E n \in Events : LockExpires(n)) \/ LeaseExpires

Fairness ==
  /\ \A r \in Relays : WF_vars(RelayStep(r) \/ Restart(r))
  /\ WF_vars(Expiry /\ UNCHANGED spent)

DeliverySpec == Spec /\ Fairness

-----------------------------------------------------------------------------
(* Properties                                                              *)

DeliveryTypeOK ==
  /\ delivery \in Seq([status : Statuses, holder : Relays \cup {None},
                       expired : BOOLEAN, published : BOOLEAN])
  /\ malformed \subseteq Events /\ anomalies \subseteq Events
  /\ lease \in [owner : Relays \cup {None, Paused}, live : BOOLEAN]
  /\ ToSet(history) \subseteq Events /\ Len(history) <= HistoryLimit
  /\ \A s \in Sessions : Len(session[s].queue) <= QueueLimit

(* Event n reaches the history only after every older event was published  *)
(* or given up with an anomaly, whatever relays stall, lose their lease or *)
(* crash: the head-of-line clause of claimOne.                             *)
Pushed(n) == history' # history /\ history' # <<>> /\ Last(history') = n

PublishedInOrder ==
  [][\A n \in Events : Pushed(n) =>
       \A m \in 1 .. n - 1 : delivery[m].published \/ m \in anomalies]_vars

(* ServeWS subscribes before it recovers, so that nothing is lost between  *)
(* the two: whatever the hub was given is in what a session recovered, was *)
(* sent or has queued, though relays that lost their lock append old events*)
(* out of turn meanwhile.  What a cached snapshot or a rebuild that another*)
(* session began may lack is no more than events that overtook a rebuild on*)
(* its way.  No event may be published late after it was dead, and a       *)
(* recovery that was told it is stale is promised nothing.  It takes a     *)
(* history longer than what is appended out of turn (relay.historyLimit is *)
(* 4096, a recovery reads 300): where the old event has pushed the newer   *)
(* ones out of the list, the history ends early and nothing tells the      *)
(* viewer.  Nor may the history expire (after 30 minutes) while such an old*)
(* event waits to be retried: appended again by itself, it is all that a   *)
(* viewer recovers.                                                        *)
Reached(s) == session[s].got \cup ToSet(session[s].queue)

Excused(source) == IF source \in {"redis", "shared"} THEN overtaken ELSE {}

SessionMissesNothing ==
  anomalies = {} =>
    \A s \in Sessions :
      /\ session[s].phase = "live"
      /\ session[s].source \in {"history", "db", "redis", "shared"}
      =>
        \A n \in fanned : n > session[s].base =>
          n \in Reached(s) \cup Excused(session[s].source)

(* Once no more events are committed, all of them end up published or dead *)
(* for good: a crashed or stalled relay, a lost lease, a paused shard, a   *)
(* retry by the operator or a Redis that fails for a while stops none.     *)
EventuallyDelivered == <>[](\A n \in Events : ~Unfinished(n))

=============================================================================
