--------------------------- MODULE LedgerRelayProofs ---------------------------
(***************************************************************************)
(* What the relay guarantees for any number of relays, decisions, rebuilds *)
(* and faults: the partition follows the stream but for holes shorter than *)
(* a batch, neither an acknowledgement nor the cursor is ever ahead of it, *)
(* and what it lacks is in the pending hash.                               *)
(***************************************************************************)
EXTENDS LedgerRelay, TLAPS

----------------------------------------------------------------------------
(* The pieces a relay appends *)

\* The stream positions f+1 .. l, as a relay writes them.
Run(f, l) == [i \in 1..(l - f) |-> f + i]

\* Whoever stands at o in the log s has before it all that are a batch behind.
NearlyInOrder(s) ==
    \A o \in 1..Len(s) : \A n \in 1..(s[o] - BatchMax) : \E p \in 1..(o - 1) : s[p] = n

\* The positions 1 .. f are all in the log s.
Covers(s, f) == \A n \in 1..f : \E p \in 1..Len(s) : s[p] = n

\* The log t is the log s with the piece f+1 .. l after it.
IsExtension(t, s, f, l) ==
    /\ Len(t) = Len(s) + (l - f)
    /\ \A o \in 1..Len(s) : t[o] = s[o]
    /\ \A o \in (Len(s) + 1)..(Len(s) + (l - f)) : t[o] = f + (o - Len(s))

\* What a relay appends is an extension.
LEMMA AppendExtends ==
    ASSUME NEW m \in Nat, NEW s \in Seq(1..m),
           NEW f \in Nat, NEW l \in Nat, f <= l, l <= m
    PROVE  s \o Run(f, l) \in Seq(1..m) /\ IsExtension(s \o Run(f, l), s, f, l)
<1>1. Run(f, l) \in Seq(1..m) /\ Len(Run(f, l)) = l - f
  BY DEF Run
<1>2. \A i \in 1..(l - f) : Run(f, l)[i] = f + i
  BY DEF Run
<1> QED
  BY <1>1, <1>2 DEF IsExtension

\* An extension has all the entries of the log.
LEMMA ExtensionCovers ==
    ASSUME NEW m \in Nat, NEW s \in Seq(1..m), NEW t \in Seq(1..m),
           NEW f \in Nat, NEW l \in Nat, f <= l, IsExtension(t, s, f, l),
           NEW k \in Nat, Covers(s, k)
    PROVE  Covers(t, k)
<1>1. Len(s) \in Nat /\ Len(t) = Len(s) + (l - f)
  BY DEF IsExtension
<1>2. SUFFICES ASSUME NEW n \in 1..k
               PROVE  \E p \in 1..Len(t) : t[p] = n
  BY DEF Covers
<1>3. PICK p \in 1..Len(s) : s[p] = n
  BY DEF Covers
<1>4. p \in 1..Len(t) /\ t[p] = n
  BY <1>1, <1>3 DEF IsExtension
<1> QED
  BY <1>4

\* A piece that starts no later than the log reaches takes it to its own end.
LEMMA ExtensionReaches ==
    ASSUME NEW m \in Nat, NEW s \in Seq(1..m), NEW t \in Seq(1..m),
           NEW f \in Nat, NEW l \in Nat, f <= l, IsExtension(t, s, f, l), Covers(s, f)
    PROVE  Covers(t, l)
<1>1. Len(s) \in Nat /\ Len(t) = Len(s) + (l - f)
  BY DEF IsExtension
<1>2. SUFFICES ASSUME NEW n \in 1..l
               PROVE  \E p \in 1..Len(t) : t[p] = n
  BY DEF Covers
<1>3. CASE n <= f
  <2>1. PICK p \in 1..Len(s) : s[p] = n
    BY <1>3 DEF Covers
  <2>2. t[p] = s[p]
    BY <2>1 DEF IsExtension
  <2>3. p \in 1..Len(t)
    BY <1>1, <2>1
  <2> QED
    BY <2>1, <2>2, <2>3
<1>4. CASE n > f
  <2>1. Len(s) + (n - f) \in (Len(s) + 1)..(Len(s) + (l - f))
    BY <1>1, <1>4
  <2>2. t[Len(s) + (n - f)] = f + ((Len(s) + (n - f)) - Len(s))
    BY <2>1 DEF IsExtension
  <2> QED
    BY <1>1, <2>1, <2>2
<1> QED
  BY <1>3, <1>4

\* A piece of a batch keeps the log nearly in order, if the log reaches to where
\* the batch starts; the pieces before it may be missing.
LEMMA ExtensionInOrder ==
    ASSUME NEW m \in Nat, NEW s \in Seq(1..m), NEW t \in Seq(1..m),
           NEW f \in Nat, NEW g \in Nat, NEW l \in Nat, g <= l, l <= f + BatchMax,
           IsExtension(t, s, g, l), NearlyInOrder(s), Covers(s, f)
    PROVE  NearlyInOrder(t)
<1>1. Len(s) \in Nat /\ Len(t) = Len(s) + (l - g) /\ BatchMax \in Nat
  BY RelayAssumption DEF IsExtension
<1>2. SUFFICES ASSUME NEW o \in 1..Len(t), NEW n \in 1..(t[o] - BatchMax)
               PROVE  \E p \in 1..(o - 1) : t[p] = n
  BY DEF NearlyInOrder
<1>3. CASE o <= Len(s)
  <2>1. o \in 1..Len(s) /\ t[o] = s[o]
    BY <1>3, <1>1 DEF IsExtension
  <2>2. PICK p \in 1..(o - 1) : s[p] = n
    BY <2>1 DEF NearlyInOrder
  <2>3. p \in 1..Len(s)
    BY <1>3, <1>1
  <2> QED
    BY <2>2, <2>3 DEF IsExtension
<1>4. CASE o > Len(s)
  <2>1. o \in (Len(s) + 1)..(Len(s) + (l - g))
    BY <1>4, <1>1
  <2>2. t[o] = g + (o - Len(s))
    BY <2>1 DEF IsExtension
  <2>3. n \in 1..f
    BY <1>1, <2>1, <2>2
  <2>4. PICK p \in 1..Len(s) : s[p] = n
    BY <2>3 DEF Covers
  <2>5. t[p] = s[p]
    BY <2>4 DEF IsExtension
  <2>6. p \in 1..(o - 1)
    BY <1>1, <1>4, <2>4
  <2> QED
    BY <2>4, <2>5, <2>6
<1> QED
  BY <1>1, <1>3, <1>4

----------------------------------------------------------------------------
(* The inductive invariant *)

\* The partition has the decisions up to the stream position k.
Reached(k) == k <= Len(stream) /\ Covers(klog, k)

\* The partition reaches to where the batch of a relay starts, and to where its
\* call is while no piece has failed; what the relay acknowledges or moves the
\* cursor over is all in the partition.
RelayReached(r) ==
    /\ relay[r].from <= relay[r].sent /\ relay[r].sent <= relay[r].last
    /\ relay[r].last <= Len(stream) /\ relay[r].last <= relay[r].from + BatchMax
    /\ Reached(relay[r].from)
    /\ relay[r].lost \/ Reached(relay[r].sent)
    /\ relay[r].pc = "read" => relay[r].last = relay[r].from
    /\ relay[r].pc \in {"ack", "advance"} => Reached(relay[r].last)

\* HolesAreShort alone is not inductive: it holds because of where the
\* cursor and the relays stand.
RelayOrder ==
    /\ engine.seq <= Len(stream)
    /\ \A o \in 1..Len(klog) : klog[o] <= Len(stream)
    /\ NearlyInOrder(klog)
    /\ Reached(cursor)
    /\ \A n \in acked : Reached(n)
    /\ \A r \in Relays : RelayReached(r)

RelayInv == RelayTypeOK /\ RelayOrder

\* A partition as the relays leave it.
SoundLog(s) ==
    s \in Seq(1..MaxSeq) /\ NearlyInOrder(s) /\ \A o \in 1..Len(s) : s[o] <= Len(stream)

\* Types of what a relay holds, for the arithmetic below.
LEMMA RelayTypes ==
    ASSUME RelayTypeOK, NEW r \in Relays
    PROVE  /\ MaxSeq \in Nat /\ Len(stream) \in Nat /\ Len(stream) <= MaxSeq
           /\ relay[r] \in RelayState
           /\ relay[r].from \in 0..MaxSeq /\ relay[r].last \in 0..MaxSeq
           /\ relay[r].sent \in 0..MaxSeq /\ relay[r].lost \in BOOLEAN
BY RelayAssumption DEF RelayTypeOK, RelayState

\* Less is covered too.
LEMMA CoversLess ==
    ASSUME NEW s, NEW k \in Nat, NEW j \in Nat, j <= k, Covers(s, k)
    PROVE  Covers(s, j)
BY DEF Covers

\* What appending a piece of relay r to a sound log leaves: a sound log that
\* has all it had before, and the piece.
LEMMA PieceAppended ==
    ASSUME RelayInv, NEW r \in Relays, NEW m \in (relay[r].sent + 1)..relay[r].last,
           NEW s, SoundLog(s), Covers(s, relay[r].from)
    PROVE  /\ SoundLog(s \o Piece(r, m))
           /\ Covers(s, relay[r].sent) => Covers(s \o Piece(r, m), m)
           /\ \A k \in Nat : Covers(s, k) => Covers(s \o Piece(r, m), k)
<1> DEFINE f == relay[r].from
           g == relay[r].sent
           t == s \o Piece(r, m)
<1>1. /\ MaxSeq \in Nat /\ BatchMax \in Nat /\ Len(stream) \in Nat
      /\ f \in Nat /\ g \in Nat /\ m \in Nat /\ g <= m /\ m <= f + BatchMax
      /\ m <= Len(stream) /\ m <= MaxSeq
  BY RelayTypes, RelayAssumption DEF RelayInv, RelayOrder, RelayReached
<1>2. Piece(r, m) = Run(g, m) /\ s \in Seq(1..MaxSeq) /\ NearlyInOrder(s) /\ Covers(s, f)
  BY DEF Piece, Run, SoundLog
<1> HIDE DEF f, g
<1>3. t \in Seq(1..MaxSeq) /\ IsExtension(t, s, g, m)
  BY <1>1, <1>2, AppendExtends
<1> HIDE DEF t
<1>4. NearlyInOrder(t)
  BY <1>1, <1>2, <1>3, ExtensionInOrder
<1>5. Covers(s, g) => Covers(t, m)
  BY <1>1, <1>2, <1>3, ExtensionReaches
<1>6. \A k \in Nat : Covers(s, k) => Covers(t, k)
  BY <1>1, <1>2, <1>3, ExtensionCovers
<1>7. ASSUME NEW o \in 1..Len(t) PROVE t[o] <= Len(stream)
  <2>1. Len(s) \in Nat /\ Len(t) = Len(s) + (m - g)
    BY <1>2, <1>3 DEF IsExtension
  <2>2. CASE o <= Len(s)
    <3>1. o \in 1..Len(s)
      BY <2>1, <2>2
    <3> QED
      BY <3>1, <1>3 DEF IsExtension, SoundLog
  <2>3. CASE o > Len(s)
    <3>1. o \in (Len(s) + 1)..(Len(s) + (m - g))
      BY <2>1, <2>3
    <3>2. t[o] = g + (o - Len(s))
      BY <3>1, <1>3 DEF IsExtension
    <3> QED
      BY <3>1, <3>2, <2>1, <1>1
  <2> QED
    BY <2>1, <2>2, <2>3
<1> QED
  BY <1>3, <1>4, <1>5, <1>6, <1>7 DEF SoundLog, t, g

\* The partition stays sound and loses nothing, and neither the cursor nor
\* the acknowledgements get ahead of it.
SharedKept ==
    /\ UNCHANGED <<engine, stream>>
    /\ SoundLog(klog')
    /\ \A k \in Nat : Covers(klog, k) => Covers(klog', k)
    /\ cursor' \in 0..Len(stream) /\ Covers(klog', cursor')
    /\ acked' \subseteq 1..Len(stream) /\ \A n \in acked' : Covers(klog', n)
    /\ pending' \subseteq 1..MaxSeq
    /\ faults' \in 0..MaxFaults

\* Relay r comes to hold new, which is not ahead of the partition either.
Moves(r, new) ==
    /\ relay' = [relay EXCEPT ![r] = new]
    /\ new \in RelayState
    /\ new.from <= new.sent /\ new.sent <= new.last
    /\ new.last <= Len(stream) /\ new.last <= new.from + BatchMax
    /\ Covers(klog', new.from)
    /\ new.lost \/ Covers(klog', new.sent)
    /\ new.pc = "read" => new.last = new.from
    /\ new.pc \in {"ack", "advance"} => Covers(klog', new.last)

\* Such a step keeps the invariant.
LEMMA StepKeepsInv ==
    ASSUME RelayInv, SharedKept, NEW r \in Relays, NEW new, Moves(r, new)
    PROVE  RelayInv'
<1>1. MaxSeq \in Nat /\ Len(stream) \in Nat /\ Len(stream) <= MaxSeq
  BY RelayTypes DEF RelayInv
<1>2. RelayTypeOK'
  BY <1>1 DEF RelayInv, RelayTypeOK, SoundLog, SharedKept, Moves
<1>3. ASSUME NEW q \in Relays PROVE RelayReached(q)'
  <2>1. new.from \in Nat /\ new.sent \in Nat /\ new.last \in Nat /\ BatchMax \in Nat
    BY RelayAssumption DEF RelayState, Moves
  <2>2. CASE q = r
    <3>1. relay'[q] = new
      BY <2>2 DEF RelayInv, RelayTypeOK, Moves
    <3> QED
      BY <3>1, <2>1, <1>1 DEF RelayReached, Reached, SharedKept, Moves
  <2>3. CASE q # r
    <3>1. relay'[q] = relay[q]
      BY <2>3 DEF RelayInv, RelayTypeOK, Moves
    <3>2. /\ relay[q].from \in Nat /\ relay[q].sent \in Nat /\ relay[q].last \in Nat
          /\ RelayReached(q)
      BY RelayTypes DEF RelayInv, RelayOrder
    <3> QED
      BY <3>1, <3>2 DEF RelayReached, Reached, SharedKept
  <2> QED
    BY <2>2, <2>3
<1>4. Reached(cursor)' /\ \A n \in acked' : n <= Len(stream)' /\ Covers(klog', n)
  BY <1>1 DEF Reached, SharedKept
<1> QED
  BY <1>1, <1>2, <1>3, <1>4 DEF RelayInv, RelayOrder, SoundLog, Reached, SharedKept

\* Every step of a relay keeps the invariant.
LEMMA RelayStepInv ==
    ASSUME RelayInv, NEW r \in Relays, RelayStep(r)
    PROVE  RelayInv'
<1>1. /\ MaxSeq \in Nat /\ Len(stream) \in Nat /\ Len(stream) <= MaxSeq
      /\ relay[r] \in RelayState /\ relay \in [Relays -> RelayState]
      /\ relay[r].from \in 0..MaxSeq /\ relay[r].last \in 0..MaxSeq
      /\ relay[r].sent \in 0..MaxSeq /\ relay[r].lost \in BOOLEAN /\ BatchMax \in Nat
      /\ relay[r].from <= relay[r].sent /\ relay[r].sent <= relay[r].last
      /\ relay[r].last <= Len(stream) /\ relay[r].last <= relay[r].from + BatchMax
      /\ Covers(klog, relay[r].from)
      /\ relay[r].lost \/ Covers(klog, relay[r].sent)
      /\ relay[r].pc = "read" => relay[r].last = relay[r].from
      /\ relay[r].pc \in {"ack", "advance"} => Covers(klog, relay[r].last)
  BY RelayTypes, RelayAssumption DEF RelayInv, RelayTypeOK, RelayOrder, RelayReached, Reached
<1>2. /\ SoundLog(klog)
      /\ cursor \in 0..Len(stream) /\ Covers(klog, cursor)
      /\ acked \subseteq 1..Len(stream) /\ \A n \in acked : Covers(klog, n)
      /\ pending \subseteq 1..MaxSeq
      /\ faults \in 0..MaxFaults /\ MaxFaults \in Nat
  BY <1>1, RelayAssumption DEF RelayInv, RelayTypeOK, RelayOrder, Reached, SoundLog
<1>3. Fault => faults' \in 0..MaxFaults
  BY <1>2 DEF Fault
<1>4. /\ Idle \in RelayState /\ Idle.from = 0 /\ Idle.last = 0 /\ Idle.sent = 0
      /\ Idle.pc = "idle"
      /\ \A s : Covers(s, 0)
  BY <1>1 DEF Idle, RelayState, Covers
<1>5. ASSUME relay' = [relay EXCEPT ![r] = Idle] PROVE Moves(r, Idle)
  BY <1>1, <1>4, <1>5 DEF Moves
<1>6. CASE GetCursor(r)
  <2> DEFINE new == [pc |-> "read", from |-> cursor, last |-> cursor,
                     sent |-> cursor, lost |-> FALSE]
  <2>1. /\ new \in RelayState /\ new.from = cursor /\ new.last = cursor
        /\ new.sent = cursor /\ new.pc = "read"
    BY <1>1, <1>2 DEF RelayState
  <2>2. relay' = [relay EXCEPT ![r] = new] /\ klog' = klog
    BY <1>6 DEF GetCursor
  <2> HIDE DEF new
  <2>3. Moves(r, new)
    BY <1>1, <1>2, <2>1, <2>2 DEF Moves
  <2>4. SharedKept
    BY <1>2, <1>6 DEF GetCursor, SharedKept
  <2> QED
    BY <2>3, <2>4, StepKeepsInv
<1>7. CASE ReadNothing(r)
  BY <1>2, <1>5, <1>7, StepKeepsInv DEF ReadNothing, SharedKept
<1>8. CASE ReadStream(r)
  <2> DEFINE end == IF relay[r].from + BatchMax < Len(stream)
                    THEN relay[r].from + BatchMax
                    ELSE Len(stream)
             new == [relay[r] EXCEPT !.pc = "append", !.last = end]
  <2>1. /\ end \in 0..MaxSeq /\ relay[r].last <= end /\ end <= Len(stream)
        /\ end <= relay[r].from + BatchMax
    BY <1>1, <1>8 DEF ReadStream
  <2>2. relay' = [relay EXCEPT ![r] = new] /\ klog' = klog
    BY <1>1, <1>8 DEF ReadStream, RelayState
  <2> HIDE DEF end
  <2>3. /\ new \in RelayState /\ new.from = relay[r].from /\ new.last = end
        /\ new.sent = relay[r].sent /\ new.lost = relay[r].lost /\ new.pc = "append"
    BY <1>1, <2>1 DEF RelayState
  <2> HIDE DEF new
  <2>4. Moves(r, new)
    BY <1>1, <2>1, <2>2, <2>3 DEF Moves
  <2>5. SharedKept
    BY <1>2, <1>8 DEF ReadStream, SharedKept
  <2> QED
    BY <2>4, <2>5, StepKeepsInv
<1> DEFINE at(pc) == [relay[r] EXCEPT !.pc = pc]
<1>9. ASSUME relay[r].pc = "ack", relay' = [relay EXCEPT ![r].pc = "advance"], klog' = klog
      PROVE  Moves(r, at("advance"))
  <2>1. /\ at("advance") \in RelayState /\ at("advance").from = relay[r].from
        /\ at("advance").last = relay[r].last /\ at("advance").sent = relay[r].sent
        /\ at("advance").lost = relay[r].lost /\ at("advance").pc = "advance"
        /\ relay' = [relay EXCEPT ![r] = at("advance")]
    BY <1>1, <1>9 DEF RelayState
  <2> HIDE DEF at
  <2> QED
    BY <1>1, <1>9, <2>1 DEF Moves
<1> HIDE DEF at
<1>10. ASSUME relay[r].pc = "append", NEW m \in (relay[r].sent + 1)..relay[r].last,
              NEW lost \in BOOLEAN, Sent(r, m, lost),
              UNCHANGED <<engine, stream, pending, acked, cursor>>, faults' \in 0..MaxFaults,
              SoundLog(klog'), \A k \in Nat : Covers(klog, k) => Covers(klog', k),
              lost \/ (Covers(klog, relay[r].sent) => Covers(klog', m)),
              relay[r].lost => lost
       PROVE  RelayInv'
  <2>1. SharedKept /\ Covers(klog', relay[r].from) /\ m \in 0..MaxSeq
    BY <1>1, <1>2, <1>10 DEF SharedKept
  <2>2. lost \/ Covers(klog', m)
    BY <1>1, <1>10
  <2>3. CASE m < relay[r].last
    <3> DEFINE new == [relay[r] EXCEPT !.sent = m, !.lost = lost]
    <3>1. /\ new \in RelayState /\ new.from = relay[r].from /\ new.last = relay[r].last
          /\ new.sent = m /\ new.lost = lost /\ new.pc = "append"
      BY <1>1, <1>10, <2>1 DEF RelayState
    <3>2. relay' = [relay EXCEPT ![r] = new]
      BY <1>1, <1>10, <2>3 DEF Sent
    <3> HIDE DEF new
    <3>3. Moves(r, new)
      BY <1>1, <1>10, <2>1, <2>2, <2>3, <3>1, <3>2 DEF Moves
    <3> QED
      BY <2>1, <3>3, StepKeepsInv
  <2>4. CASE m = relay[r].last /\ lost
    <3>1. ~(m < relay[r].last)
      BY <1>1, <2>4
    <3>2. relay' = [relay EXCEPT ![r] = Idle]
      BY <1>10, <2>4, <3>1 DEF Sent
    <3> QED
      BY <1>5, <2>1, <3>2, StepKeepsInv
  <2>5. CASE m = relay[r].last /\ ~lost
    <3> DEFINE new == [relay[r] EXCEPT !.pc = "ack", !.sent = m]
    <3>1. /\ new \in RelayState /\ new.from = relay[r].from /\ new.last = relay[r].last
          /\ new.sent = m /\ new.pc = "ack"
      BY <1>1, <2>1 DEF RelayState
    <3> ~(m < relay[r].last)
      BY <1>1, <2>5
    <3>2. relay' = [relay EXCEPT ![r] = new]
      BY <1>10, <2>5 DEF Sent
    <3> HIDE DEF new
    <3>3. Moves(r, new)
      BY <1>1, <1>10, <2>1, <2>2, <2>5, <3>1, <3>2 DEF Moves
    <3> QED
      BY <2>1, <3>3, StepKeepsInv
  <2> QED
    BY <1>1, <1>10, <2>3, <2>4, <2>5
<1>11. ASSUME NEW m \in (relay[r].sent + 1)..relay[r].last
       PROVE  /\ SoundLog(klog \o Piece(r, m))
              /\ Covers(klog, relay[r].sent) => Covers(klog \o Piece(r, m), m)
              /\ \A k \in Nat : Covers(klog, k) => Covers(klog \o Piece(r, m), k)
  BY <1>1, <1>2, <1>11, PieceAppended
<1>12. ASSUME NEW m \in (relay[r].sent + 1)..relay[r].last
       PROVE  /\ SoundLog(klog \o Piece(r, m) \o Piece(r, m))
              /\ Covers(klog, relay[r].sent) => Covers(klog \o Piece(r, m) \o Piece(r, m), m)
              /\ \A k \in Nat : Covers(klog, k) => Covers(klog \o Piece(r, m) \o Piece(r, m), k)
  <2>1. Covers(klog \o Piece(r, m), relay[r].from) /\ relay[r].sent \in Nat
    BY <1>1, <1>11
  <2>2. /\ SoundLog(klog \o Piece(r, m))
        /\ \A k \in Nat : Covers(klog, k) => Covers(klog \o Piece(r, m), k)
    BY <1>11
  <2>3. /\ SoundLog(klog \o Piece(r, m) \o Piece(r, m))
        /\ Covers(klog \o Piece(r, m), relay[r].sent) =>
             Covers(klog \o Piece(r, m) \o Piece(r, m), m)
        /\ \A k \in Nat : Covers(klog \o Piece(r, m), k) =>
                          Covers(klog \o Piece(r, m) \o Piece(r, m), k)
    BY <2>1, <2>2, PieceAppended
  <2> QED
    BY <2>1, <2>2, <2>3
<1>13. CASE AppendBatch(r)
  <2>1. PICK m \in (relay[r].sent + 1)..relay[r].last :
          klog' = klog \o Piece(r, m) /\ Sent(r, m, relay[r].lost)
    BY <1>13 DEF AppendBatch
  <2> QED
    BY <1>1, <1>2, <1>10, <1>11, <1>13, <2>1 DEF AppendBatch
<1>14. CASE AppendTwice(r)
  <2>1. PICK m \in (relay[r].sent + 1)..relay[r].last :
          klog' = klog \o Piece(r, m) \o Piece(r, m) /\ Sent(r, m, relay[r].lost)
    BY <1>14 DEF AppendTwice
  <2> QED
    BY <1>1, <1>3, <1>10, <1>12, <1>14, <2>1 DEF AppendTwice
<1>15. CASE AppendError(r)
  <2>1. PICK m \in (relay[r].sent + 1)..relay[r].last :
          klog' \in {klog, klog \o Piece(r, m)} /\ Sent(r, m, TRUE)
    BY <1>15 DEF AppendError
  <2> QED
    BY <1>2, <1>3, <1>10, <1>11, <1>15, <2>1 DEF AppendError
<1>16. ASSUME relay[r].pc = "ack", NEW S, S \subseteq Entries(r),
              acked' = acked \cup S, pending' \subseteq pending,
              UNCHANGED <<engine, stream, cursor, klog>>, faults' \in 0..MaxFaults
       PROVE  SharedKept
  <2>1. \A n \in S : n \in 1..Len(stream) /\ Covers(klog, n)
    BY <1>1, <1>16, CoversLess DEF Entries
  <2> QED
    BY <1>2, <1>16, <2>1 DEF SharedKept
<1>17. CASE MarkAcked(r)
  <2>1. SharedKept
    BY <1>2, <1>16, <1>17 DEF MarkAcked
  <2>2. Moves(r, at("advance"))
    BY <1>9, <1>17 DEF MarkAcked
  <2> QED
    BY <2>1, <2>2, StepKeepsInv
<1>18. CASE MarkAckedFails(r)
  <2>1. PICK m \in relay[r].from..(relay[r].last - 1) :
          /\ acked' = acked \cup (relay[r].from + 1)..m
          /\ pending' = pending \ Seqs((relay[r].from + 1)..m)
    BY <1>18 DEF MarkAckedFails
  <2>2. (relay[r].from + 1)..m \subseteq Entries(r)
    BY <1>1 DEF Entries
  <2>3. SharedKept
    BY <1>3, <1>16, <1>18, <2>1, <2>2 DEF MarkAckedFails
  <2>4. Moves(r, at("advance"))
    BY <1>9, <1>18 DEF MarkAckedFails
  <2> QED
    BY <2>3, <2>4, StepKeepsInv
<1>19. CASE AdvanceCursor(r)
  BY <1>1, <1>2, <1>5, <1>19, StepKeepsInv DEF AdvanceCursor, SharedKept
<1>20. CASE AdvanceCursorFails(r)
  BY <1>2, <1>3, <1>5, <1>20, StepKeepsInv DEF AdvanceCursorFails, SharedKept
<1>21. CASE RelayCrash(r)
  BY <1>2, <1>3, <1>5, <1>21, StepKeepsInv DEF RelayCrash, SharedKept
<1> QED
  BY <1>6, <1>7, <1>8, <1>13, <1>14, <1>15, <1>17, <1>18, <1>19, <1>20, <1>21 DEF RelayStep

\* Nothing is relayed, acknowledged or promised at the start.
LEMMA InitInv == Init => RelayInv
<1> SUFFICES ASSUME Init PROVE RelayInv
  OBVIOUS
<1>1. RelayTypeOK
  BY RelayAssumption DEF Init, RelayTypeOK, RelayState, Idle, Decision
<1>2. \A s : Covers(s, 0)
  BY DEF Covers
<1> QED
  BY <1>1, <1>2, RelayAssumption DEF Init, RelayInv, RelayOrder, RelayReached, Reached, NearlyInOrder, Idle

\* A decision makes the stream longer and leaves the rest where it is.
LEMMA DecideInv ==
    ASSUME RelayInv, NEW k \in Kinds, Decide(k)
    PROVE  RelayInv'
<1>1. /\ MaxSeq \in Nat /\ Len(stream) \in Nat /\ Len(stream) < MaxSeq /\ stream \in Seq(Decision)
      /\ engine \in [epoch: 1..MaxEpoch, seq: 0..MaxSeq, sold: BOOLEAN, paused: BOOLEAN]
      /\ engine.seq <= Len(stream)
  BY RelayAssumption DEF RelayInv, RelayTypeOK, RelayOrder, Decide
<1>2. engine.seq + 1 \in 1..MaxSeq
  BY <1>1
<1>3. stream' \in Seq(Decision) /\ Len(stream') = Len(stream) + 1
  BY <1>1, <1>2 DEF Decide, Decision
<1>4. engine' \in [epoch: 1..MaxEpoch, seq: 0..MaxSeq, sold: BOOLEAN, paused: BOOLEAN]
  <2> DEFINE sold == engine.sold \/ k = "sold"
  <2>1. engine' = [engine EXCEPT !.seq = @ + 1, !.sold = sold]
    BY DEF Decide
  <2>2. sold \in BOOLEAN
    OBVIOUS
  <2> HIDE DEF sold
  <2>3. engine' = [epoch |-> engine.epoch, seq |-> engine.seq + 1,
                   sold |-> sold, paused |-> engine.paused]
    BY <1>1, <2>1
  <2> QED
    BY <1>1, <1>2, <2>2, <2>3
<1>5. engine'.seq = engine.seq + 1
  BY <1>1 DEF Decide
<1>6. RelayTypeOK'
  BY <1>1, <1>2, <1>3, <1>4 DEF RelayInv, RelayTypeOK, Decide
<1>7. ASSUME NEW n, n \in Nat, Reached(n) PROVE Reached(n)'
  BY <1>1, <1>3, <1>7 DEF Reached, Decide
<1>8. ASSUME NEW q \in Relays PROVE RelayReached(q)'
  <2>1. /\ relay[q].from \in Nat /\ relay[q].sent \in Nat /\ relay[q].last \in Nat
        /\ RelayReached(q)
    BY RelayTypes DEF RelayInv, RelayOrder
  <2>2. relay' = relay
    BY DEF Decide
  <2>3. relay[q].last <= Len(stream')
    BY <1>1, <1>3, <2>1 DEF RelayReached
  <2>4. /\ Reached(relay[q].from)' /\ (relay[q].lost \/ Reached(relay[q].sent)')
        /\ relay[q].pc \in {"ack", "advance"} => Reached(relay[q].last)'
    BY <1>7, <2>1, <2>2 DEF RelayReached
  <2> QED
    BY <2>1, <2>2, <2>3, <2>4 DEF RelayReached
<1>9. Reached(cursor)' /\ \A n \in acked' : Reached(n)'
  <2>1. cursor' = cursor /\ acked' = acked /\ cursor \in Nat /\ acked \subseteq Nat
    BY DEF RelayInv, RelayTypeOK, Decide
  <2>2. Reached(cursor) /\ \A n \in acked : Reached(n)
    BY DEF RelayInv, RelayOrder
  <2> QED
    BY <1>7, <2>1, <2>2
<1>10. /\ klog' = klog /\ NearlyInOrder(klog)
       /\ \A o \in 1..Len(klog) : klog[o] \in Nat /\ klog[o] <= Len(stream')
  BY <1>1, <1>3 DEF RelayInv, RelayTypeOK, RelayOrder, Decide
<1> QED
  BY <1>1, <1>3, <1>5, <1>6, <1>8, <1>9, <1>10 DEF RelayInv, RelayOrder, NearlyInOrder

\* Neither a pause nor a rebuild touches what was decided or relayed.
LEMMA EngineStepInv ==
    ASSUME RelayInv, SetPaused \/ RedisRebuild
    PROVE  RelayInv'
<1>1. /\ MaxSeq \in Nat /\ Len(stream) \in Nat /\ Len(stream) <= MaxSeq /\ MaxEpoch \in Nat
      /\ engine \in [epoch: 1..MaxEpoch, seq: 0..MaxSeq, sold: BOOLEAN, paused: BOOLEAN]
      /\ engine.seq <= Len(stream)
  BY RelayAssumption DEF RelayInv, RelayTypeOK, RelayOrder
<1>2. /\ engine' \in [epoch: 1..MaxEpoch, seq: 0..MaxSeq, sold: BOOLEAN, paused: BOOLEAN]
      /\ engine'.seq <= Len(stream)
  <2>1. CASE SetPaused
    <3>1. engine' = [engine EXCEPT !.paused = ~engine.paused]
      BY <2>1 DEF SetPaused
    <3>2. /\ engine'.epoch = engine.epoch /\ engine'.seq = engine.seq
          /\ engine'.sold = engine.sold /\ engine'.paused \in BOOLEAN
      BY <1>1, <3>1
    <3>3. engine' = [epoch |-> engine'.epoch, seq |-> engine'.seq,
                     sold |-> engine'.sold, paused |-> engine'.paused]
      BY <1>1, <3>1
    <3>4. /\ engine.epoch \in 1..MaxEpoch /\ engine.seq \in 0..MaxSeq /\ engine.sold \in BOOLEAN
      BY <1>1
    <3> QED
      BY <1>1, <3>2, <3>3, <3>4
  <2>2. CASE RedisRebuild
    <3>1. engine' \in [epoch: (engine.epoch + 1)..MaxEpoch, seq: 0..Len(stream),
                       sold: {FALSE, engine.sold}, paused: BOOLEAN]
      BY <2>2 DEF RedisRebuild
    <3>2. /\ (engine.epoch + 1)..MaxEpoch \subseteq 1..MaxEpoch
          /\ 0..Len(stream) \subseteq 0..MaxSeq /\ {FALSE, engine.sold} \subseteq BOOLEAN
      BY <1>1
    <3>3. engine' = [epoch |-> engine'.epoch, seq |-> engine'.seq,
                     sold |-> engine'.sold, paused |-> engine'.paused]
      BY <3>1
    <3>4. /\ engine'.epoch \in 1..MaxEpoch /\ engine'.seq \in 0..MaxSeq
          /\ engine'.sold \in BOOLEAN /\ engine'.paused \in BOOLEAN /\ engine'.seq \in 0..Len(stream)
      BY <3>1, <3>2
    <3> QED
      BY <1>1, <3>3, <3>4
  <2> QED
    BY <2>1, <2>2
<1>3. /\ UNCHANGED <<stream, pending, acked, relay, klog, faults>>
      /\ cursor' = cursor \/ cursor' = 0
  BY DEF SetPaused, RedisRebuild
<1>4. Reached(cursor')
  BY <1>1, <1>3 DEF RelayInv, RelayOrder, Reached, Covers
<1>5. RelayTypeOK'
  BY <1>1, <1>2, <1>3 DEF RelayInv, RelayTypeOK
<1> QED
  BY <1>2, <1>3, <1>4, <1>5 DEF RelayInv, RelayOrder, RelayReached, Reached

\* The invariant is inductive.
LEMMA NextInv == RelayInv /\ [Next]_relayVars => RelayInv'
<1> SUFFICES ASSUME RelayInv, [Next]_relayVars PROVE RelayInv'
  OBVIOUS
<1>1. ASSUME NEW k \in Kinds, Decide(k) PROVE RelayInv'
  BY <1>1, DecideInv
<1>2. CASE SetPaused \/ RedisRebuild
  BY <1>2, EngineStepInv
<1>3. ASSUME NEW r \in Relays, RelayStep(r) PROVE RelayInv'
  BY <1>3, RelayStepInv
<1>4. CASE UNCHANGED relayVars
  BY <1>4 DEF relayVars, RelayInv, RelayTypeOK, RelayOrder, RelayReached, Reached
<1> QED
  BY <1>1, <1>2, <1>3, <1>4 DEF Next

\* In every reachable state no relay is ahead of the partition.
THEOREM RelayInvariant == Spec => []RelayInv
<1> QED
  BY InitInv, NextInv, PTL DEF Spec

----------------------------------------------------------------------------
(* The theorems *)

\* The variables keep their types.
THEOREM RelayTypesCorrect == Spec => []RelayTypeOK
<1>1. RelayInv => RelayTypeOK
  BY DEF RelayInv
<1> QED
  BY <1>1, RelayInvariant, PTL

\* Whatever the relays do and whichever pieces of their batches fail, a decision
\* never enters the partition before the ones a batch behind it.
THEOREM RelayHolesAreShort == Spec => []HolesAreShort
<1>1. ASSUME RelayInv PROVE HolesAreShort
  <2>1. klog \in Seq(1..MaxSeq) /\ stream \in Seq(Decision)
    BY <1>1 DEF RelayInv, RelayTypeOK
  <2>2. /\ DOMAIN klog = 1..Len(klog) /\ DOMAIN stream = 1..Len(stream)
        /\ Len(stream) \in Nat /\ MaxSeq \in Nat
        /\ \A o \in 1..Len(klog) : klog[o] \in 1..MaxSeq
    BY <2>1, RelayAssumption
  <2>3. NearlyInOrder(klog) /\ \A o \in 1..Len(klog) : klog[o] <= Len(stream)
    BY <1>1 DEF RelayInv, RelayOrder
  <2>4. \A o \in 1..Len(klog) : klog[o] \in 1..Len(stream)
    BY <2>2, <2>3
  <2> QED
    BY <2>2, <2>3, <2>4 DEF HolesAreShort, NearlyInOrder
<1> QED
  BY <1>1, RelayInvariant, PTL

\* Neither the acknowledgement of a bid nor the relay cursor is ever ahead of
\* the partition.
THEOREM RelayNothingSkipped == Spec => []NothingSkipped
<1>1. ASSUME RelayInv PROVE NothingSkipped
  <2>1. SUFFICES ASSUME NEW n \in DOMAIN stream, n \in acked \/ n <= cursor
                 PROVE  Recorded(n)
    BY DEF NothingSkipped
  <2>2. n \in Nat \ {0} /\ cursor \in Nat /\ DOMAIN klog = 1..Len(klog)
    BY <1>1, RelayAssumption DEF RelayInv, RelayTypeOK
  <2>3. Covers(klog, n)
    <3>1. CASE n \in acked
      BY <1>1, <3>1 DEF RelayInv, RelayOrder, Reached
    <3>2. CASE n <= cursor
      <4>1. Covers(klog, cursor)
        BY <1>1 DEF RelayInv, RelayOrder, Reached
      <4> QED
        BY <2>2, <3>2, <4>1, CoversLess
    <3> QED
      BY <2>1, <3>1, <3>2
  <2>4. PICK p \in 1..Len(klog) : klog[p] = n
    BY <2>2, <2>3 DEF Covers
  <2> QED
    BY <2>2, <2>4 DEF Recorded
<1> QED
  BY <1>1, RelayInvariant, PTL

----------------------------------------------------------------------------
(* The pending hash *)

\* No number was given to two decisions: until a rebuild goes back to an
\* earlier one.
SeqsUnique == \A m, n \in DOMAIN stream : stream[m].seq = stream[n].seq => m = n

\* What an append leaves in front is the log before it.
LEMMA AppendKeeps ==
    ASSUME NEW T, NEW s \in Seq(T), NEW t \in Seq(T), NEW o \in DOMAIN s
    PROVE  s \o t \in Seq(T) /\ o \in DOMAIN (s \o t) /\ (s \o t)[o] = s[o]
OBVIOUS

\* A record stays in the partition, and the stream only grows.
LEMMA LogsGrow ==
    ASSUME RelayInv, [Next]_relayVars
    PROVE  /\ \A n : Recorded(n) => Recorded(n)'
           /\ \A n \in DOMAIN stream : n \in DOMAIN stream' /\ stream'[n] = stream[n]
           /\ \A o \in DOMAIN klog : o \in DOMAIN klog' /\ klog'[o] = klog[o]
<1>1. stream \in Seq(Decision) /\ klog \in Seq(Nat)
  BY RelayAssumption DEF RelayInv, RelayTypeOK
<1>2. klog' = klog \/ \E r \in Relays : \E m \in (relay[r].sent + 1)..relay[r].last :
                         \/ klog' = klog \o Piece(r, m)
                         \/ klog' = klog \o Piece(r, m) \o Piece(r, m)
  BY DEF Next, Decide, SetPaused, RedisRebuild, RelayStep, GetCursor, ReadNothing, ReadStream,
         AppendBatch, AppendTwice, AppendError, MarkAcked, MarkAckedFails, AdvanceCursor,
         AdvanceCursorFails, RelayCrash, relayVars
<1>3. stream' = stream \/ \E d : stream' = Append(stream, d)
  BY DEF Next, Decide, SetPaused, RedisRebuild, RelayStep, GetCursor, ReadNothing, ReadStream,
         AppendBatch, AppendTwice, AppendError, MarkAcked, MarkAckedFails, AdvanceCursor,
         AdvanceCursorFails, RelayCrash, relayVars
<1>4. ASSUME NEW r \in Relays, NEW m \in (relay[r].sent + 1)..relay[r].last
      PROVE  Piece(r, m) \in Seq(Nat)
  <2>1. relay[r].sent \in Nat /\ relay[r].last \in Nat
    BY RelayTypes DEF RelayInv
  <2> DEFINE b == Piece(r, m)
             k == m - relay[r].sent
  <2>2. k \in Nat /\ b \in [1..k -> Nat]
    BY <2>1 DEF Piece
  <2> HIDE DEF b, k
  <2>3. b \in Seq(Nat)
    BY <2>2
  <2> QED
    BY <2>3 DEF b
<1>5. ASSUME NEW o \in DOMAIN klog PROVE o \in DOMAIN klog' /\ klog'[o] = klog[o]
  <2>1. ASSUME NEW b \in Seq(Nat), klog' = klog \o b
        PROVE  o \in DOMAIN klog' /\ klog'[o] = klog[o]
    BY <1>1, <2>1, AppendKeeps
  <2>2. ASSUME NEW b \in Seq(Nat), klog' = klog \o b \o b
        PROVE  o \in DOMAIN klog' /\ klog'[o] = klog[o]
    <3>1. klog \o b \in Seq(Nat) /\ o \in DOMAIN (klog \o b) /\ (klog \o b)[o] = klog[o]
      BY <1>1, AppendKeeps
    <3> QED
      BY <2>2, <3>1, AppendKeeps
  <2> QED
    BY <1>2, <1>4, <2>1, <2>2
<1>6. ASSUME NEW n, Recorded(n) PROVE Recorded(n)'
  <2>1. PICK o \in DOMAIN klog : klog[o] = n
    BY <1>6 DEF Recorded
  <2> QED
    BY <1>5, <2>1 DEF Recorded
<1>7. ASSUME NEW n \in DOMAIN stream PROVE n \in DOMAIN stream' /\ stream'[n] = stream[n]
  <2>1. ASSUME NEW d, stream' = Append(stream, d)
        PROVE  n \in DOMAIN stream' /\ stream'[n] = stream[n]
    BY <1>1, <2>1
  <2> QED
    BY <1>3, <2>1
<1> QED
  BY <1>5, <1>6, <1>7

\* While no number is given twice, an acknowledgement drops from the hash
\* only the numbers of decisions that are in the partition.
LEMMA AckKeepsPending ==
    ASSUME RelayInv, NEW r \in Relays, relay[r].pc = "ack", SeqsUnique,
           NEW S, S \subseteq Entries(r),
           NEW n \in DOMAIN stream, stream[n].seq \in Seqs(S)
    PROVE  Recorded(n)
<1>1. /\ relay[r].from \in Nat /\ relay[r].last \in Nat /\ relay[r].last <= Len(stream)
      /\ Covers(klog, relay[r].last) /\ Len(stream) \in Nat
  BY RelayTypes DEF RelayInv, RelayOrder, RelayReached, Reached
<1>2. DOMAIN stream = 1..Len(stream) /\ DOMAIN klog = 1..Len(klog)
  BY DEF RelayInv, RelayTypeOK
<1>3. PICK m \in S : stream[m].seq = stream[n].seq
  BY DEF Seqs
<1>4. m \in 1..relay[r].last
  BY <1>1, <1>3 DEF Entries
<1>5. m = n
  BY <1>1, <1>2, <1>3, <1>4 DEF SeqsUnique
<1>6. PICK p \in 1..Len(klog) : klog[p] = n
  BY <1>1, <1>4, <1>5 DEF Covers
<1> QED
  BY <1>2, <1>6 DEF Recorded

\* A decision is in the hash from the step that takes it until a record of it
\* is in the partition.
LEMMA PendingStep == RelayInv /\ PendingCovers /\ [Next]_relayVars => PendingCovers'
<1> SUFFICES ASSUME RelayInv, PendingCovers, [Next]_relayVars, SeqsUnique',
                    NEW n \in DOMAIN stream'
             PROVE  Recorded(n)' \/ stream'[n].seq \in pending'
  BY DEF PendingCovers, SeqsUnique
<1>1. /\ \A i : Recorded(i) => Recorded(i)'
      /\ \A i \in DOMAIN stream : i \in DOMAIN stream' /\ stream'[i] = stream[i]
  BY LogsGrow
<1>2. SeqsUnique
  BY <1>1 DEF SeqsUnique
<1>3. \A i \in DOMAIN stream : Recorded(i) \/ stream[i].seq \in pending
  BY <1>2 DEF PendingCovers, SeqsUnique
<1>4. ASSUME stream' = stream, pending \subseteq pending'
      PROVE  Recorded(n)' \/ stream'[n].seq \in pending'
  BY <1>1, <1>3, <1>4
<1>5. ASSUME NEW k \in Kinds, Decide(k)
      PROVE  Recorded(n)' \/ stream'[n].seq \in pending'
  <2> DEFINE d == [epoch |-> engine.epoch, seq |-> engine.seq + 1, kind |-> k]
  <2>1. stream' = Append(stream, d) /\ pending' = pending \cup {engine.seq + 1}
    BY <1>5 DEF Decide
  <2>2. d.seq = engine.seq + 1
    OBVIOUS
  <2> HIDE DEF d
  <2>3. stream \in Seq(Decision)
    BY DEF RelayInv, RelayTypeOK
  <2>4. n \in DOMAIN stream \/ stream'[n] = d
    BY <2>1, <2>3
  <2>5. CASE n \in DOMAIN stream
    BY <1>1, <1>3, <2>1, <2>5
  <2>6. CASE stream'[n] = d
    BY <2>1, <2>2, <2>6
  <2> QED
    BY <2>4, <2>5, <2>6
<1>6. ASSUME NEW r \in Relays, relay[r].pc = "ack", NEW S, S \subseteq Entries(r),
             stream' = stream, pending' = pending \ Seqs(S)
      PROVE  Recorded(n)' \/ stream'[n].seq \in pending'
  <2>1. CASE stream[n].seq \in Seqs(S)
    BY <1>1, <1>2, <1>6, <2>1, AckKeepsPending
  <2>2. CASE stream[n].seq \notin Seqs(S)
    BY <1>1, <1>3, <1>6, <2>2
  <2> QED
    BY <2>1, <2>2
<1>7. ASSUME NEW r \in Relays, MarkAcked(r)
      PROVE  Recorded(n)' \/ stream'[n].seq \in pending'
  BY <1>6, <1>7 DEF MarkAcked
<1>8. ASSUME NEW r \in Relays, MarkAckedFails(r)
      PROVE  Recorded(n)' \/ stream'[n].seq \in pending'
  <2>1. PICK m \in relay[r].from..(relay[r].last - 1) :
          pending' = pending \ Seqs((relay[r].from + 1)..m)
    BY <1>8 DEF MarkAckedFails
  <2>2. (relay[r].from + 1)..m \subseteq Entries(r)
    BY RelayTypes DEF RelayInv, Entries
  <2> QED
    BY <1>6, <1>8, <2>1, <2>2 DEF MarkAckedFails
<1>9. CASE SetPaused \/ RedisRebuild \/ UNCHANGED relayVars
  BY <1>4, <1>9 DEF SetPaused, RedisRebuild, relayVars
<1>10. ASSUME NEW r \in Relays, RelayStep(r), ~MarkAcked(r), ~MarkAckedFails(r)
       PROVE  Recorded(n)' \/ stream'[n].seq \in pending'
  BY <1>4, <1>10 DEF RelayStep, GetCursor, ReadNothing, ReadStream, AppendBatch, AppendTwice,
                     AppendError, AdvanceCursor, AdvanceCursorFails, RelayCrash
<1> QED
  BY <1>5, <1>7, <1>8, <1>9, <1>10 DEF Next

\* A decision that is not in Kafka is in the pending hash, so that a cold
\* start that finds the hash empty has lost nothing; until a rebuild gives a
\* number out again.
THEOREM PendingStaysCovering == Spec => []PendingCovers
<1>1. Init => PendingCovers
  BY DEF Init, PendingCovers
<1> QED
  BY <1>1, PendingStep, RelayInvariant, PTL DEF Spec

============================================================================
