--------------------------- MODULE DeliveryProofs ---------------------------
(***************************************************************************)
(* Proofs about Delivery, for any viewers, capacities, clocks and          *)
(* timestamps: frame pacing keeps its schedule, and the queue of every     *)
(* viewer holds the latest frames and loses no wake-up.                    *)
(***************************************************************************)
EXTENDS Delivery, SequenceFacts, TLAPS

\* The correction by 2^32 is the difference modulo 2^32.
LEMMA OffsetIsTicks ==
    ASSUME NEW p \in Timestamps, NEW q \in Timestamps
    PROVE  Offset(p, q) = Ticks(q, p) /\ Offset(p, q) \in Timestamps
<1>1. TsSize \in Nat /\ TsSize > 0 /\ p \in 0..(TsSize - 1) /\ q \in 0..(TsSize - 1)
  BY PacingAssumption DEF Timestamps
<1>2. CASE p < q
  <2>1. p - q + TsSize \in 0..(TsSize - 1)
    BY <1>1, <1>2
  <2>2. (p - q) % TsSize = p - q + TsSize
    BY <1>1, <1>2, <2>1
  <2>3. QED
    BY <1>2, <2>1, <2>2 DEF Offset, Ticks, Timestamps
<1>3. CASE ~(p < q)
  <2>1. p - q \in 0..(TsSize - 1)
    BY <1>1, <1>3
  <2>2. (p - q) % TsSize = p - q
    BY <1>1, <1>3, <2>1
  <2>3. QED
    BY <1>3, <2>1, <2>2 DEF Offset, Ticks, Timestamps
<1>4. QED
  BY <1>2, <1>3

\* Ticks from f to p by way of q, when p is not before q as seen from f.
LEMMA TicksAdd ==
    ASSUME NEW f \in Timestamps, NEW q \in Timestamps, NEW p \in Timestamps,
           Ticks(f, p) >= Ticks(f, q)
    PROVE  Ticks(f, p) = Ticks(f, q) + Ticks(q, p)
<1>1. /\ Ticks(f, p) = IF p < f THEN p - f + TsSize ELSE p - f
      /\ Ticks(f, q) = IF q < f THEN q - f + TsSize ELSE q - f
      /\ Ticks(q, p) = IF p < q THEN p - q + TsSize ELSE p - q
  BY OffsetIsTicks DEF Offset
<1>2. TsSize \in Nat /\ f \in 0..(TsSize - 1) /\ q \in 0..(TsSize - 1)
        /\ p \in 0..(TsSize - 1)
  BY PacingAssumption DEF Timestamps
<1>3. QED
  BY <1>1, <1>2
-----------------------------------------------------------------------------
\* What one call of recv leaves behind, and what it keeps.
Schedule == PacingTypeOK /\ OnSchedule

\* The facts that every step of the proofs below uses.
LEMMA Facts ==
    /\ TsSize \in Nat /\ Early \in Nat /\ MaxWait \in Nat /\ MaxLag \in Nat
    /\ MaxTime \in Nat /\ TsSize > 0 /\ Early <= MaxWait
    /\ Timestamps \subseteq Nat /\ NoPts \notin Timestamps
BY PacingAssumption DEF Timestamps, NoPts

\* A call of recv that finds the schedule in order leaves it so.
LEMMA RecvKeepsSchedule ==
    ASSUME Schedule, NEW p \in Timestamps, NEW t \in now..MaxTime, Recv(p, t)
    PROVE  Schedule'
<1> DEFINE first == IF firstPts = NoPts THEN p ELSE firstPts
           start == IF firstPts = NoPts THEN t ELSE firstTime
           wait  == start + Offset(p, first) - t
<1>1. /\ first \in Timestamps
      /\ now \in Nat /\ t \in Nat /\ start \in Nat /\ start <= t
  BY Facts DEF Schedule, PacingTypeOK
<1>2. Offset(p, first) = Ticks(first, p) /\ Offset(p, first) \in Nat
  BY <1>1, OffsetIsTicks, Facts
<1>3. wait \in Int /\ wait = start + Offset(p, first) - t
  BY <1>1, <1>2
<1>4. pts' = p /\ held' = IF Outcome(wait) = "sleep" THEN wait ELSE 0
  BY DEF Recv
<1>5. /\ now' = t + held'
      /\ firstPts' = IF Outcome(wait) = "restart" THEN p ELSE first
      /\ firstTime' = IF Outcome(wait) = "restart" THEN t ELSE start
  BY DEF Recv
<1>6. pts' # NoPts
  BY <1>4, Facts
<1> HIDE DEF first, start, wait
<1> SUFFICES PacingTypeOK' /\ Ahead' \in -MaxLag..Early
  BY DEF Schedule, OnSchedule
<1>7. CASE Outcome(wait) = "restart"
  <2>1. /\ held' = 0 /\ now' = t
        /\ firstPts' = p /\ firstTime' = t
    BY <1>1, <1>4, <1>5, <1>7
  <2>2. Ticks(p, p) = 0
    BY OffsetIsTicks, Facts DEF Offset
  <2>3. Ahead' = 0
    BY <2>1, <2>2, <1>4, <1>1 DEF Ahead, Ticks
  <2>4. QED
    BY <2>1, <2>3, <1>1, <1>4, <1>6, Facts DEF PacingTypeOK
<1>8. CASE Outcome(wait) = "sleep"
  <2>1. held' = wait /\ now' = t + wait /\ firstPts' = first /\ firstTime' = start
    BY <1>4, <1>5, <1>8
  <2>2. wait > Early /\ wait <= MaxWait
    BY <1>3, <1>8, Facts DEF Outcome
  <2>3. Ahead' = 0
    <3>1. Ahead' = start + Ticks(first, p) - (t + wait)
      BY <2>1, <1>4 DEF Ahead, Ticks
    <3>2. QED
      BY <3>1, <1>1, <1>2, <1>3
  <2>4. now' \in Nat /\ firstTime' \in 0..now' /\ held' \in Nat
    BY <2>1, <2>2, <1>1, <1>3, Facts
  <2>5. QED
    BY <2>1, <2>2, <2>3, <2>4, <1>1, <1>3, <1>4, <1>6, Facts
    DEF PacingTypeOK
<1>9. CASE Outcome(wait) = "pass"
  <2>1. held' = 0 /\ now' = t /\ firstPts' = first /\ firstTime' = start
    BY <1>1, <1>4, <1>5, <1>9
  <2>2. wait <= Early /\ wait >= -MaxLag
    BY <1>3, <1>9, Facts DEF Outcome
  <2>3. Ahead' = wait
    BY <2>1, <1>1, <1>2, <1>3, <1>4 DEF Ahead, Ticks
  <2>4. QED
    BY <2>1, <2>2, <2>3, <1>1, <1>3, <1>4, <1>6, Facts DEF PacingTypeOK
<1>10. QED
  BY <1>7, <1>8, <1>9 DEF Outcome

\* The schedule is in order in every state.
LEMMA ScheduleInvariant == PacingSpec => []Schedule
<1>1. PacingInit => Schedule
  BY Facts DEF PacingInit, Schedule, PacingTypeOK, OnSchedule
<1>2. Schedule /\ [PacingNext]_pacingVars => Schedule'
  <2> SUFFICES ASSUME Schedule, [PacingNext]_pacingVars PROVE Schedule'
    OBVIOUS
  <2>1. CASE PacingNext
    BY <2>1, RecvKeepsSchedule DEF PacingNext
  <2>2. CASE UNCHANGED pacingVars
    BY <2>2 DEF pacingVars, Schedule, PacingTypeOK, OnSchedule, Ahead, Ticks
  <2>3. QED
    BY <2>1, <2>2
<1>3. QED
  BY <1>1, <1>2, PTL DEF PacingSpec

\* webrtc_server.py:285-307: the state of recv keeps its type.
THEOREM PacingTypeCorrect == PacingSpec => []PacingTypeOK
BY ScheduleInvariant, PTL DEF Schedule

\* webrtc_server.py:296-305: a frame leaves on the schedule it leaves behind.
THEOREM LeavesOnSchedule == PacingSpec => []OnSchedule
BY ScheduleInvariant, PTL DEF Schedule

\* webrtc_server.py:290-292: a steady stream keeps its schedule, also when the
\* timestamp wraps.
THEOREM SteadyStreamKept == PacingSpec => SteadyKept
<1>1. Schedule /\ [PacingNext]_pacingVars
        => [pts # NoPts /\ now' - now = Ticks(pts, pts') /\ held' = 0
              /\ Ticks(firstPts, pts') >= Ticks(firstPts, pts)
              => UNCHANGED <<firstPts, firstTime>>]_pacingVars
  <2> SUFFICES ASSUME Schedule, NEW p \in Timestamps, NEW t \in now..MaxTime,
                      Recv(p, t), pts # NoPts, held' = 0,
                      now' - now = Ticks(pts, pts'),
                      Ticks(firstPts, pts') >= Ticks(firstPts, pts)
               PROVE  UNCHANGED <<firstPts, firstTime>>
    BY DEF PacingNext, pacingVars
  <2> DEFINE wait == firstTime + Offset(p, firstPts) - t
  <2>1. /\ firstPts \in Timestamps /\ pts \in Timestamps
        /\ firstTime \in Nat /\ now \in Nat /\ t \in Nat
        /\ firstPts # NoPts
    BY Facts DEF Schedule, PacingTypeOK
  <2>2. pts' = p /\ now' = t
    BY <2>1 DEF Recv
  <2>3. Ticks(firstPts, p) = Ticks(firstPts, pts) + Ticks(pts, p)
    BY <2>1, <2>2, TicksAdd
  <2>4. Ticks(firstPts, pts) \in Nat /\ Ticks(pts, p) \in Nat
    BY <2>1, OffsetIsTicks, Facts
  <2>5. wait = Ahead
    BY <2>1, <2>2, <2>3, <2>4, OffsetIsTicks DEF Ahead
  <2>6. wait \in Int /\ wait <= Early /\ wait >= -MaxLag
    BY <2>5, Facts DEF Schedule, OnSchedule
  <2>7. Outcome(wait) # "restart"
    BY <2>6, Facts DEF Outcome
  <2>8. QED
    BY <2>1, <2>7 DEF Recv
<1>2. QED
  BY <1>1, ScheduleInvariant, PTL DEF PacingSpec, SteadyKept
-----------------------------------------------------------------------------
\* A deque of frames that ends with frame n and has no gap.
Latest(q, n) == \A i \in DOMAIN q : q[i] = n - Len(q) + i

\* Appending the next frame to such a deque keeps it within its bound, and
\* makes it end with that frame.
LEMMA PutNoWaitFacts ==
    ASSUME NEW q \in Seq(Nat), Len(q) <= QueueMax, NEW n \in Nat, Latest(q, n),
           Len(q) <= n
    PROVE  /\ PutNoWait(q, n + 1) \in Seq(Nat)
           /\ Len(PutNoWait(q, n + 1)) <= QueueMax
           /\ Len(PutNoWait(q, n + 1)) \in {Len(q), Len(q) + 1}
           /\ Latest(PutNoWait(q, n + 1), n + 1)
<1> DEFINE t == IF Len(q) < QueueMax THEN q ELSE Tail(q)
<1>1. Len(q) \in Nat /\ QueueMax \in Nat \ {0} /\ DOMAIN q = 1..Len(q)
  BY RelayAssumption
<1>2. /\ t \in Seq(Nat)
      /\ Len(t) \in Nat
      /\ Len(t) < QueueMax
      /\ Len(t) + 1 \in {Len(q), Len(q) + 1}
      /\ \A i \in 1..Len(t) : t[i] = n - Len(t) + i
  <2>1. CASE Len(q) < QueueMax
    BY <1>1, <2>1 DEF Latest
  <2>2. CASE ~(Len(q) < QueueMax)
    <3>1. q # <<>>
      BY <1>1, <2>2
    <3> DEFINE r == Tail(q)
    <3>2. /\ r \in Seq(Nat) /\ Len(r) = Len(q) - 1
          /\ \A i \in 1..(Len(q) - 1) : r[i] = q[i + 1]
      BY <3>1, TailFacts
    <3>3. t = r
      BY <2>2
    <3> HIDE DEF r, t
    <3>4. ASSUME NEW i \in 1..(Len(q) - 1) PROVE r[i] = n - (Len(q) - 1) + i
      <4> DEFINE j == i + 1
      <4>1. j \in 1..Len(q) /\ r[i] = q[j]
        BY <1>1, <3>2
      <4>2. q[j] = n - Len(q) + j
        BY <1>1, <4>1 DEF Latest
      <4>3. QED
        BY <1>1, <4>1, <4>2
    <3>5. /\ r \in Seq(Nat) /\ Len(r) \in Nat
          /\ Len(r) < QueueMax
          /\ Len(r) + 1 = Len(q)
      BY <1>1, <2>2, <3>2
    <3>6. \A i \in 1..Len(r) : r[i] = n - Len(r) + i
      BY <3>2, <3>4
    <3>7. QED
      BY <3>3, <3>5, <3>6
  <2>3. QED
    BY <2>1, <2>2
<1>3. PutNoWait(q, n + 1) = Append(t, n + 1)
  BY DEF PutNoWait
<1> DEFINE u == Append(t, n + 1)
<1> HIDE DEF t
<1>4. /\ u \in Seq(Nat)
      /\ Len(u) = Len(t) + 1
      /\ \A i \in 1..Len(t) : u[i] = t[i]
      /\ u[Len(t) + 1] = n + 1
  BY <1>2, AppendFacts
<1>5. PutNoWait(q, n + 1) = u
  BY <1>3
<1> HIDE DEF u
<1>6. Latest(u, n + 1)
  <2> SUFFICES ASSUME NEW i \in 1..Len(u) PROVE u[i] = n + 1 - Len(u) + i
    BY <1>4 DEF Latest
  <2>1. CASE i = Len(t) + 1
    BY <1>2, <1>4, <2>1
  <2>2. CASE i \in 1..Len(t)
    <3>1. u[i] = n - Len(t) + i
      BY <1>2, <1>4, <2>2
    <3>2. QED
      BY <1>2, <1>4, <3>1, <2>2
  <2>3. QED
    BY <1>2, <1>4, <2>1, <2>2
<1>7. Len(u) <= QueueMax /\ Len(u) \in {Len(q), Len(q) + 1}
  <2>1. Len(u) = Len(t) + 1 /\ Len(t) \in Nat /\ Len(t) < QueueMax
    BY <1>2, <1>4
  <2>2. Len(u) <= QueueMax
    BY <1>1, <2>1
  <2>3. Len(u) \in {Len(q), Len(q) + 1}
    BY <1>2, <2>1
  <2>4. QED
    BY <2>2, <2>3
<1>8. QED
  BY <1>4, <1>5, <1>6, <1>7
-----------------------------------------------------------------------------
\* HoldsLatest for one viewer, and for all of them, absent or not.
Holds(v) ==
    /\ Latest(deque[v], relayed)
    /\ got[v] + Len(deque[v]) <= relayed

QueueInv == RelayTypeOK /\ HoldsLatest

LEMMA InitQueueInv == RelayInit => QueueInv
<1> SUFFICES ASSUME RelayInit PROVE QueueInv
  OBVIOUS
<1>1. <<>> \in Seq(Nat) /\ Len(<<>>) = 0 /\ 0 <= QueueMax
  BY RelayAssumption
<1>2. RelayTypeOK
  BY <1>1 DEF RelayInit, RelayTypeOK
<1>3. Subscribed = {}
  BY DEF RelayInit, Subscribed
<1>4. QED
  BY <1>2, <1>3 DEF QueueInv, HoldsLatest

\* What the queue's owner may rely on, in every step that leaves it subscribed.
LEMMA NextQueueInv == QueueInv /\ [RelayNext]_relayVars => QueueInv'
<1> SUFFICES ASSUME QueueInv, [RelayNext]_relayVars PROVE QueueInv'
  OBVIOUS
<1>1. /\ RelayTypeOK
      /\ \A v \in Subscribed : Holds(v)
  BY DEF QueueInv, HoldsLatest, Holds, Latest
<1> SUFFICES RelayTypeOK' /\ \A v \in Subscribed' : Holds(v)'
  BY DEF QueueInv, HoldsLatest, Holds, Latest
<1>2. ASSUME NEW v \in Viewers, Offer(v)
      PROVE  RelayTypeOK' /\ \A w \in Subscribed' : Holds(w)'
  <2>1. <<>> \in Seq(Nat) /\ Len(<<>>) = 0 /\ 0 <= QueueMax
    BY RelayAssumption
  <2>2. RelayTypeOK'
    BY <1>1, <1>2, <2>1 DEF Offer, RelayTypeOK
  <2>3. ASSUME NEW w \in Subscribed' PROVE Holds(w)'
    <3>1. CASE w = v
      <4>1. deque'[v] = <<>> /\ got'[v] = 0 /\ relayed' = relayed
        BY <1>1, <1>2 DEF Offer, RelayTypeOK
      <4>2. QED
        BY <1>1, <2>1, <3>1, <4>1 DEF Holds, Latest, RelayTypeOK
    <3>2. CASE w # v
      <4>1. w \in Subscribed
        BY <1>1, <1>2, <3>2 DEF Offer, Subscribed, RelayTypeOK
      <4>2. deque'[w] = deque[w] /\ got'[w] = got[w] /\ relayed' = relayed
        BY <1>1, <1>2, <3>2 DEF Offer, Subscribed, RelayTypeOK
      <4>3. QED
        BY <1>1, <4>1, <4>2 DEF Holds, Latest
    <3>3. QED
      BY <3>1, <3>2
  <2>4. QED
    BY <2>2, <2>3
<1>3. ASSUME NEW v \in Viewers, Leave(v)
      PROVE  RelayTypeOK' /\ \A w \in Subscribed' : Holds(w)'
  <2>1. RelayTypeOK'
    BY <1>1, <1>3 DEF Leave, RelayTypeOK
  <2>2. Subscribed' \subseteq Subscribed
    BY <1>1, <1>3 DEF Leave, Subscribed, RelayTypeOK
  <2>3. QED
    BY <1>1, <1>3, <2>1, <2>2 DEF Leave, Holds, Latest
<1>4. CASE RelayFrame
  <2>1. relayed \in Nat /\ relayed' = relayed + 1 /\ Subscribed' = Subscribed
    BY <1>1, <1>4 DEF RelayFrame, Subscribed, RelayTypeOK
  <2>2. ASSUME NEW v \in Subscribed
        PROVE  /\ deque'[v] \in Seq(Nat)
               /\ Len(deque'[v]) <= QueueMax
               /\ Holds(v)'
    <3>1. /\ deque[v] \in Seq(Nat) /\ Len(deque[v]) <= QueueMax
          /\ got[v] \in Nat /\ Len(deque[v]) \in Nat
      BY <1>1 DEF RelayTypeOK, Subscribed
    <3>2. Latest(deque[v], relayed) /\ got[v] + Len(deque[v]) <= relayed
      BY <1>1 DEF Holds
    <3>3. deque'[v] = PutNoWait(deque[v], relayed + 1) /\ got'[v] = got[v]
      BY <1>4 DEF RelayFrame, Subscribed
    <3>4. Len(deque[v]) <= relayed
      BY <2>1, <3>1, <3>2
    <3>5. /\ deque'[v] \in Seq(Nat)
          /\ Len(deque'[v]) <= QueueMax
          /\ Len(deque'[v]) \in {Len(deque[v]), Len(deque[v]) + 1}
          /\ Latest(deque'[v], relayed + 1)
      BY <2>1, <3>1, <3>2, <3>3, <3>4, PutNoWaitFacts
    <3>6. got'[v] + Len(deque'[v]) <= relayed + 1
      BY <2>1, <3>1, <3>2, <3>3, <3>5
    <3>7. QED
      BY <2>1, <3>5, <3>6 DEF Holds, Latest
  <2>3. ASSUME NEW v \in Viewers, v \notin Subscribed PROVE deque'[v] = deque[v]
    BY <1>4, <2>3 DEF RelayFrame
  <2>4. ASSUME NEW v \in Viewers
        PROVE  deque'[v] \in Seq(Nat) /\ Len(deque'[v]) <= QueueMax
    BY <1>1, <2>2, <2>3 DEF RelayTypeOK
  <2>5. /\ deque' \in [Viewers -> Seq(Nat)]
        /\ \A v \in Viewers : Len(deque'[v]) <= QueueMax
    <3>1. DOMAIN deque' = Viewers /\ deque' = [v \in Viewers |-> deque'[v]]
      BY <1>4 DEF RelayFrame
    <3>2. QED
      BY <2>4, <3>1
  <2>6. event' \in [Viewers -> BOOLEAN]
    BY <1>1, <1>4 DEF RelayFrame, RelayTypeOK
  <2>7. RelayTypeOK'
    BY <1>1, <1>4, <2>1, <2>5, <2>6 DEF RelayFrame, RelayTypeOK
  <2>8. QED
    BY <2>1, <2>2, <2>7
<1>5. ASSUME NEW v \in Viewers, Get(v)
      PROVE  RelayTypeOK' /\ \A w \in Subscribed' : Holds(w)'
  <2>1. v \in Subscribed /\ Subscribed' = Subscribed /\ relayed' = relayed
    BY <1>1, <1>5 DEF Get, Subscribed, RelayTypeOK
  <2>2. /\ deque[v] \in Seq(Nat) /\ Len(deque[v]) <= QueueMax
        /\ got[v] \in Nat /\ Len(deque[v]) \in Nat /\ relayed \in Nat
    BY <1>1 DEF RelayTypeOK
  <2>3. Latest(deque[v], relayed) /\ got[v] + Len(deque[v]) <= relayed
    BY <1>1, <2>1 DEF Holds
  <2>4. CASE deque[v] = <<>>
    <3>1. /\ UNCHANGED <<deque, got>>
          /\ event' = [event EXCEPT ![v] = FALSE]
          /\ viewer' = [viewer EXCEPT ![v] = "waiting"]
      BY <1>5, <2>4 DEF Get
    <3>2. QED
      BY <1>1, <2>1, <3>1 DEF RelayTypeOK, Holds, Latest
  <2>5. CASE deque[v] # <<>>
    <3>1. /\ got' = [got EXCEPT ![v] = Head(deque[v])]
          /\ deque' = [deque EXCEPT ![v] = Tail(deque[v])]
          /\ viewer' = [viewer EXCEPT ![v] = "ready"]
          /\ UNCHANGED event
      BY <1>5, <2>5 DEF Get
    <3>2. /\ Tail(deque[v]) \in Seq(Nat)
          /\ Len(Tail(deque[v])) = Len(deque[v]) - 1
          /\ Head(deque[v]) \in Nat /\ Head(deque[v]) = deque[v][1]
          /\ Len(deque[v]) >= 1
          /\ \A i \in 1..(Len(deque[v]) - 1) :
                 Tail(deque[v])[i] = deque[v][i + 1]
      BY <2>2, <2>5, TailFacts
    <3>3. RelayTypeOK'
      <4>1. ASSUME NEW w \in Viewers PROVE Len(deque'[w]) <= QueueMax
        <5>1. CASE w = v
          BY <1>1, <2>2, <3>1, <3>2, <5>1, RelayAssumption DEF RelayTypeOK
        <5>2. CASE w # v
          BY <1>1, <3>1, <5>2 DEF RelayTypeOK
        <5>3. QED
          BY <5>1, <5>2
      <4>2. QED
        BY <1>1, <2>1, <3>1, <3>2, <4>1 DEF RelayTypeOK
    <3>4. deque[v][1] = relayed - Len(deque[v]) + 1
      <4>1. 1 \in DOMAIN deque[v]
        BY <2>2, <3>2
      <4>2. QED
        BY <2>3, <4>1 DEF Latest
    <3> DEFINE q == deque[v]
               r == Tail(q)
               h == Head(q)
    <3>5. /\ Len(q) \in Nat /\ Len(r) = Len(q) - 1 /\ relayed \in Nat
          /\ h = relayed - Len(q) + 1
          /\ \A i \in 1..(Len(q) - 1) : r[i] = q[i + 1]
          /\ \A i \in 1..Len(q) : q[i] = relayed - Len(q) + i
          /\ r \in Seq(Nat)
      <4>1. Len(q) \in Nat /\ Len(r) = Len(q) - 1 /\ relayed \in Nat
        BY <2>2, <3>2
      <4>2. h = relayed - Len(q) + 1
        BY <3>2, <3>4
      <4>3. \A i \in 1..Len(q) : q[i] = relayed - Len(q) + i
        <5>1. DOMAIN q = 1..Len(q)
          BY <2>2
        <5>2. QED
          BY <2>3, <5>1 DEF Latest
      <4>4. QED
        BY <3>2, <4>1, <4>2, <4>3
    <3>6. Latest(r, relayed) /\ h + Len(r) <= relayed
      <4> HIDE DEF q, r, h
      <4>1. ASSUME NEW i \in 1..(Len(q) - 1) PROVE r[i] = relayed - Len(r) + i
        <5> DEFINE j == i + 1
        <5>1. j \in 1..Len(q) /\ r[i] = q[j]
          BY <3>5
        <5>2. q[j] = relayed - Len(q) + j
          BY <3>5, <5>1
        <5>3. QED
          BY <3>5, <5>1, <5>2
      <4>2. DOMAIN r = 1..(Len(q) - 1)
        BY <3>5
      <4>3. Latest(r, relayed)
        BY <4>1, <4>2 DEF Latest
      <4>4. h + Len(r) <= relayed
        BY <3>5
      <4>5. QED
        BY <4>3, <4>4
    <3>7. ASSUME NEW w \in Subscribed' PROVE Holds(w)'
      <4>1. CASE w = v
        <5>1. deque'[v] = Tail(deque[v]) /\ got'[v] = Head(deque[v])
          BY <1>1, <3>1 DEF RelayTypeOK
        <5>2. QED
          BY <2>1, <3>6, <4>1, <5>1 DEF Holds, Latest
      <4>2. CASE w # v
        <5>1. w \in Viewers /\ w \in Subscribed
          BY <2>1 DEF Subscribed
        <5>2. deque'[w] = deque[w] /\ got'[w] = got[w]
          BY <1>1, <3>1, <4>2, <5>1 DEF RelayTypeOK
        <5>3. QED
          BY <1>1, <2>1, <5>1, <5>2 DEF Holds, Latest
      <4>3. QED
        BY <4>1, <4>2
    <3>8. QED
      BY <3>3, <3>7
  <2>6. QED
    BY <2>4, <2>5
<1>6. CASE UNCHANGED relayVars
  BY <1>1, <1>6 DEF relayVars, RelayTypeOK, Subscribed, Holds, Latest
<1>7. QED
  BY <1>2, <1>3, <1>4, <1>5, <1>6 DEF RelayNext

LEMMA QueueInvAlways == RelaySpec => []QueueInv
BY InitQueueInv, NextQueueInv, PTL DEF RelaySpec

\* Every behaviour is type correct; no viewer's queue outgrows the bound given
\* at webrtc_server.py:49.
THEOREM RelayTypeCorrect == RelaySpec => []RelayTypeOK
BY QueueInvAlways, PTL DEF QueueInv

\* Every viewer's queue (webrtc_server.py:58-71) always ends with the latest
\* frame and has no gap, whatever the other viewers do.
THEOREM LatestHeld == RelaySpec => []HoldsLatest
BY QueueInvAlways, PTL DEF QueueInv
-----------------------------------------------------------------------------
\* No viewer sleeps on a queue that holds a frame (webrtc_server.py:66-71).
THEOREM ViewersAwake == RelaySpec => []ViewerAwake
<1>1. RelayInit => ViewerAwake
  BY DEF RelayInit, ViewerAwake
<1>2. QueueInv /\ ViewerAwake /\ [RelayNext]_relayVars => ViewerAwake'
  <2> SUFFICES ASSUME RelayTypeOK, ViewerAwake, [RelayNext]_relayVars,
                      NEW w \in Viewers,
                      viewer'[w] = "waiting", deque'[w] # <<>>
               PROVE  event'[w]
    BY DEF QueueInv, ViewerAwake
  <2>1. ASSUME NEW v \in Viewers, Offer(v) PROVE event'[w]
    BY <2>1 DEF Offer, RelayTypeOK, ViewerAwake
  <2>2. ASSUME NEW v \in Viewers, Leave(v) PROVE event'[w]
    BY <2>2 DEF Leave, RelayTypeOK, ViewerAwake
  <2>3. CASE RelayFrame
    <3>1. w \in Subscribed
      BY <2>3 DEF RelayFrame, Subscribed
    <3>2. QED
      BY <2>3, <3>1 DEF RelayFrame
  <2>4. ASSUME NEW v \in Viewers, Get(v) PROVE event'[w]
    <3>1. CASE w # v
      BY <2>4, <3>1 DEF Get, RelayTypeOK, ViewerAwake
    <3>2. CASE w = v
      BY <2>4, <3>2 DEF Get, RelayTypeOK
    <3>3. QED
      BY <3>1, <3>2
  <2>5. CASE UNCHANGED relayVars
    BY <2>5 DEF relayVars, ViewerAwake
  <2>6. QED
    BY <2>1, <2>2, <2>3, <2>4, <2>5 DEF RelayNext
<1>3. QED
  BY <1>1, <1>2, QueueInvAlways, PTL DEF RelaySpec
-----------------------------------------------------------------------------
\* The composition keeps what its two parts promise: a turn of the relay's loop
\* is a call of recv and a copy to every queue (webrtc_server.py:285-310 and
\* 58-71), and what a viewer does leaves the schedule alone.
THEOREM DeliveryComposes == Spec => PacingSpec /\ RelaySpec
<1>1. Init => PacingInit /\ RelayInit
  BY DEF Init
<1>2. [Next]_vars => [PacingNext]_pacingVars /\ [RelayNext]_relayVars
  <2> SUFFICES ASSUME [Next]_vars
               PROVE  [PacingNext]_pacingVars /\ [RelayNext]_relayVars
    OBVIOUS
  <2>1. CASE RelayRecv
    BY <2>1 DEF RelayRecv, PacingNext, RelayNext
  <2>2. ASSUME NEW v \in Viewers, ViewerStep(v)
        PROVE  RelayNext /\ UNCHANGED pacingVars
    BY <2>2 DEF ViewerStep, RelayNext
  <2>3. CASE UNCHANGED vars
    BY <2>3 DEF vars
  <2>4. QED
    BY <2>1, <2>2, <2>3 DEF Next
<1>3. QED
  BY <1>1, <1>2, PTL DEF Spec, PacingSpec, RelaySpec

\* So in the composition, whatever the viewers do, each frame leaves on schedule,
\* and every viewer's queue holds the latest frames and wakes its owner.
THEOREM DeliverySafe ==
    Spec => [](OnSchedule /\ HoldsLatest /\ ViewerAwake)
BY DeliveryComposes, LeavesOnSchedule, LatestHeld, ViewersAwake, PTL
=============================================================================
