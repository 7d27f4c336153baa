------------------------------ MODULE RtpProofs ------------------------------
(***************************************************************************)
(* Proofs about the way of the NAL units from the encoder to feed_nal, for *)
(* frames of any sizes and counters of any width: every frame is sent      *)
(* whole; behind the connection of RtpPath NAL units arrive whole, in      *)
(* order and all of them; and behind the networks of RtpLossy whatever     *)
(* arrives is still framed, and whole if the packetizer sent it.           *)
(***************************************************************************)
EXTENDS RtpPath, RtpLossy, SequenceFacts

(***************************************************************************)
(* Sequence numbers.                                                       *)
(***************************************************************************)

LEMMA Remainder ==
    ASSUME NEW m \in Nat \ {0}, NEW q \in Int, NEW r \in 0..(m - 1)
    PROVE  (m * q + r) % m = r
OBVIOUS

LEMMA Division ==
    ASSUME NEW m \in Nat \ {0}, NEW a \in Int
    PROVE  a % m \in 0..(m - 1) /\ \E q \in Int : a = m * q + (a % m)
<1>1. a % m \in 0..(m - 1) /\ a \div m \in Int /\ a = m * (a \div m) + (a % m)
    OBVIOUS
<1> QED BY <1>1

LEMMA Successor ==
    ASSUME NEW m \in Nat \ {0}, NEW a \in Int
    PROVE  (a + 1) % m = IF a % m = m - 1 THEN 0 ELSE (a % m) + 1
<1>1. PICK q \in Int : a = m * q + (a % m)
    BY Division
<1>2. PICK r \in 0..(m - 1) : r = a % m
    BY Division
<1>3. CASE r = m - 1
  <2>1. a + 1 = m * (q + 1) + 0 /\ q + 1 \in Int /\ 0 \in 0..(m - 1)
      BY <1>1, <1>2, <1>3
  <2> QED BY <1>2, <1>3, <2>1, Remainder
<1>4. CASE r # m - 1
  <2>1. a + 1 = m * q + (r + 1) /\ r + 1 \in 0..(m - 1)
      BY <1>1, <1>2, <1>4
  <2> QED BY <1>2, <1>4, <2>1, Remainder
<1> QED BY <1>3, <1>4

\* Numbers that were counted modulo SeqSize are still one after the other.
LEMMA SeqSteps ==
    ASSUME NEW a \in Int
    PROVE  /\ a % SeqSize \in 0..(SeqSize - 1)
           /\ (a + 1) % SeqSize = ((a % SeqSize) + 1) % SeqSize
<1>0. SeqSize \in Nat \ {0}
    BY RtpAssumption
<1>1. SeqSize \in Nat \ {0} /\ a % SeqSize \in 0..(SeqSize - 1)
    BY <1>0
<1>2. PICK r \in 0..(SeqSize - 1) : r = a % SeqSize
    BY <1>1
<1>3. (a + 1) % SeqSize = IF r = SeqSize - 1 THEN 0 ELSE r + 1
    BY <1>1, <1>2, Successor
<1>4. r % SeqSize = r
    BY <1>1
<1>5. (r + 1) % SeqSize = IF r = SeqSize - 1 THEN 0 ELSE r + 1
  <2>1. r \in Int
      BY <1>1
  <2> QED BY <1>1, <1>4, <2>1, Successor
<1> QED BY <1>1, <1>2, <1>3, <1>5

\* The gap detection of feed_rtp sees no gap between them, across the wrap.
LEMMA NoGap ==
    ASSUME NEW a \in 0..(SeqSize - 1), NEW b, b = (a + 1) % SeqSize
    PROVE  (b - a) % SeqSize = 1
<1>1. SeqSize \in Nat \ {0} /\ SeqSize > 2
    BY RtpAssumption
<1>2. a % SeqSize = a
    BY <1>1
<1>3. b = IF a = SeqSize - 1 THEN 0 ELSE a + 1
  <2>1. a \in Int
      BY <1>1
  <2> QED BY <1>1, <1>2, <2>1, Successor
<1>4. CASE a = SeqSize - 1
  <2>1. b - a = SeqSize * (-1) + 1 /\ 1 \in 0..(SeqSize - 1) /\ -1 \in Int
      BY <1>1, <1>3, <1>4
  <2> QED BY <1>1, <2>1, Remainder
<1>5. CASE a # SeqSize - 1
    BY <1>1, <1>3, <1>5
<1> QED BY <1>4, <1>5

(***************************************************************************)
(* The packets of a NAL unit.                                              *)
(***************************************************************************)

LEMMA Fragments ==
    ASSUME NEW size \in Nat, size > MaxPayload
    PROVE  LET n == num_packets(size)
           IN  /\ n \in Nat /\ n >= 1
               /\ n * MaxPayload >= size - 1
               /\ (n - 1) * MaxPayload < size - 1
<1> DEFINE m == MaxPayload
           a == (size - 1) + m - 1
           n == a \div m
<1>1. m \in Nat \ {0} /\ size > m /\ size \in Nat
    BY PacketizerAssumption
<1>2. n \in Int /\ a % m \in 0..(m - 1) /\ a = m * n + (a % m)
  <2>1. a \in Int
      BY <1>1
  <2> HIDE DEF a, m
  <2> QED BY <1>1, <2>1
<1>3. PICK r \in 0..(m - 1) : a = m * n + r
    BY <1>2
<1>4. n * m >= size - 1 /\ (n - 1) * m < size - 1
  <2> HIDE DEF n, m
  <2> QED BY <1>1, <1>2, <1>3
<1>5. n >= 1
  <2> HIDE DEF n, m
  <2>1. size - 1 >= 1
      BY <1>1
  <2>2. CASE n <= 0
    <3>1. n * m <= 0
        BY <1>1, <1>2, <2>2
    <3> QED BY <1>1, <1>4, <2>1, <3>1, <1>2
  <2> QED BY <1>2, <2>2
<1> QED BY <1>2, <1>4, <1>5 DEF num_packets

\* Packets ps carry the n NAL units from the first one on, of the given sizes,
\* and are numbered from seq on.
Sent(ps, sizes, first, n, seq, ts) ==
    /\ ps \in Seq(RtpPackets)
    /\ n = 0 <=> Len(ps) = 0
    /\ n > 0 => /\ Begins(ps[1]) /\ ps[1].nal = first
                /\ Ends(ps[Len(ps)]) /\ ps[Len(ps)].nal = first + n - 1
    /\ \A i \in 1..Len(ps) :
          /\ ps[i].nal \in first..(first + n - 1)
          /\ Carries(ps[i], sizes[ps[i].nal - first + 1])
          /\ ps[i].ts = ts /\ ps[i].seq = (seq + (i - 1)) % SeqSize
    /\ \A i \in 1..(Len(ps) - 1) : Follows(ps[i], ps[i + 1])

LEMMA SingleSent ==
    ASSUME NEW nal \in Nat \ {0}, NEW size \in Nat \ {0}, NEW seq \in Nat,
           NEW ts \in 0..(TsSize - 1), size <= MaxPayload
    PROVE  Sent(PacketizeSingleNal(nal, size, seq, ts), <<size>>, nal, 1, seq, ts)
<1> DEFINE p == Packet(seq % SeqSize, ts, TRUE, "single", FALSE, FALSE, nal, 0, size)
<1>1. seq % SeqSize \in 0..(SeqSize - 1)
    BY SeqSteps
<1>2. p \in RtpPackets
    BY <1>1, RtpAssumption DEF Packet, RtpPackets
<1>3. /\ p.kind = "single" /\ p.nal = nal /\ p.from = 0 /\ p.to = size
      /\ p.ts = ts /\ p.seq = seq % SeqSize
    BY DEF Packet
<1> HIDE DEF p
<1>4. <<p>> \in Seq(RtpPackets) /\ Len(<<p>>) = 1 /\ <<p>>[1] = p
    BY <1>2
<1>5. /\ (nal - nal) + 1 = 1 /\ <<size>>[1] = size /\ nal + 1 - 1 = nal
      /\ seq + (1 - 1) = seq /\ nal \in nal..nal
    OBVIOUS
<1>6. Carries(p, size) /\ Begins(p) /\ Ends(p)
    BY <1>3 DEF Carries, Begins, Ends
<1>7. Sent(<<p>>, <<size>>, nal, 1, seq, ts)
  <2> DEFINE ps == <<p>>
  <2>1. ps \in Seq(RtpPackets) /\ Len(ps) = 1 /\ ps[1] = p
      BY <1>4
  <2> HIDE DEF ps
  <2>2. \A i \in 1..Len(ps) : i = 1
      BY <2>1
  <2>3. \A i \in 1..(Len(ps) - 1) : FALSE
      BY <2>1
  <2>4. \A i \in 1..Len(ps) :
          /\ ps[i].nal \in nal..(nal + 1 - 1)
          /\ Carries(ps[i], <<size>>[ps[i].nal - nal + 1])
          /\ ps[i].ts = ts /\ ps[i].seq = (seq + (i - 1)) % SeqSize
      BY <1>3, <1>5, <1>6, <2>1, <2>2
  <2>5. Sent(ps, <<size>>, nal, 1, seq, ts)
      BY <1>3, <1>5, <1>6, <2>1, <2>3, <2>4 DEF Sent
  <2> QED BY <2>5 DEF ps
<1> QED BY <1>7 DEF PacketizeSingleNal, p

LEMMA FuASent ==
    ASSUME NEW nal \in Nat \ {0}, NEW size \in Nat \ {0}, NEW seq \in Nat,
           NEW ts \in 0..(TsSize - 1), size > MaxPayload
    PROVE  Sent(PacketizeFuA(nal, size, seq, ts), <<size>>, nal, 1, seq, ts)
<1> DEFINE n == num_packets(size)
           offset(i) == (i - 1) * MaxPayload
           chunk(i) == IF MaxPayload < size - 1 - offset(i)
                       THEN MaxPayload ELSE size - 1 - offset(i)
           p(i) == Packet((seq + i - 1) % SeqSize, ts, i = n, "fua", i = 1,
                          i = n, nal, 1 + offset(i), 1 + offset(i) + chunk(i))
           ps == PacketizeFuA(nal, size, seq, ts)
<1>1. /\ n \in Nat /\ n >= 1 /\ n * MaxPayload >= size - 1
      /\ (n - 1) * MaxPayload < size - 1
    BY Fragments
<1>2. MaxPayload \in Nat \ {0}
    BY PacketizerAssumption
<1>3. ps = [i \in 1..n |-> p(i)]
    BY DEF PacketizeFuA
<1> HIDE DEF n, ps
<1>4. ASSUME NEW i \in 1..n
      PROVE  /\ offset(i) \in Nat /\ chunk(i) \in 1..MaxPayload
             /\ i = 1 <=> offset(i) = 0
             /\ i = n <=> 1 + offset(i) + chunk(i) = size
             /\ 1 + offset(i) + chunk(i) <= size
             /\ i < n => 1 + offset(i) + chunk(i) = 1 + offset(i + 1)
  <2> DEFINE o == (i - 1) * MaxPayload
  <2>1. o \in Nat /\ (i = 1 <=> o = 0)
      BY <1>1, <1>2
  <2>2. o <= (n - 1) * MaxPayload
    <3>1. i - 1 \in Nat /\ n - 1 \in Nat /\ i - 1 <= n - 1
        BY <1>1
    <3>2. \A a, b \in Nat : a <= b => a * MaxPayload <= b * MaxPayload
        BY <1>2
    <3> QED BY <3>1, <3>2
  <2>3. o + MaxPayload = i * MaxPayload /\ offset(i + 1) = i * MaxPayload
      BY <1>1, <1>2
  <2>4. i < n => i * MaxPayload <= (n - 1) * MaxPayload
    <3>1. i < n => i \in Nat /\ n - 1 \in Nat /\ i <= n - 1
        BY <1>1
    <3>2. \A a, b \in Nat : a <= b => a * MaxPayload <= b * MaxPayload
        BY <1>2
    <3> QED BY <3>1, <3>2
  <2>5. i = n => o + MaxPayload >= size - 1
      BY <1>1, <2>3
  <2>6. \A x \in {n * MaxPayload, (n - 1) * MaxPayload, i * MaxPayload} : x \in Int
      BY <1>1, <1>2
  <2>7. o < size - 1
      BY <1>1, <2>1, <2>2, <2>6
  <2>8. i < n => o + MaxPayload < size - 1
      BY <1>1, <2>3, <2>4, <2>6
  <2>9. offset(i) = o
      OBVIOUS
  <2>10. i < n \/ i = n
      BY <1>1
  <2>11. i < n => offset(i + 1) = o + MaxPayload
      BY <2>3
  <2> HIDE DEF o, offset
  <2> QED BY <1>1, <1>2, <2>1, <2>5, <2>7, <2>8, <2>9, <2>10, <2>11
<1>5. \A i \in 1..n :
          /\ p(i).kind = "fua" /\ p(i).nal = nal /\ p(i).ts = ts
          /\ p(i).seq = (seq + i - 1) % SeqSize
          /\ p(i).start = (i = 1) /\ p(i).end = (i = n)
          /\ p(i).from = 1 + offset(i)
          /\ p(i).to = 1 + offset(i) + chunk(i)
    BY DEF Packet
<1>6. \A i \in 1..n : p(i) \in RtpPackets
  <2> SUFFICES ASSUME NEW i \in 1..n PROVE p(i) \in RtpPackets
      OBVIOUS
  <2>1. (seq + i - 1) % SeqSize \in 0..(SeqSize - 1)
      BY <1>1, SeqSteps
  <2>2. 1 + offset(i) \in Nat /\ 1 + offset(i) + chunk(i) \in Nat
      BY <1>2, <1>4
  <2> HIDE DEF offset, chunk
  <2> QED BY <2>1, <2>2 DEF Packet, RtpPackets
<1> HIDE DEF p, offset, chunk
<1>7. ps \in Seq(RtpPackets) /\ Len(ps) = n /\ \A i \in 1..n : ps[i] = p(i)
    BY <1>1, <1>3, <1>6
<1>8. \A i \in 1..n : Carries(p(i), size)
  <2> SUFFICES ASSUME NEW i \in 1..n PROVE Carries(p(i), size)
      OBVIOUS
  <2>1. (1 + offset(i) + chunk(i)) - (1 + offset(i)) = chunk(i)
      BY <1>2, <1>4
  <2>2. 1 + offset(i) >= 1 /\ (1 + offset(i) = 1 <=> offset(i) = 0)
      BY <1>4
  <2>3. p(i).from >= 1 /\ (p(i).start <=> p(i).from = 1)
    <3>1. p(i).from = 1 + offset(i) /\ p(i).start = (i = 1)
        BY <1>5
    <3>2. i = 1 <=> offset(i) = 0
        BY <1>4
    <3> QED BY <2>2, <3>1, <3>2
  <2>4. p(i).to <= size /\ (p(i).end <=> p(i).to = size)
    <3> DEFINE to == 1 + offset(i) + chunk(i)
    <3>1. to <= size /\ (i = n <=> to = size)
        BY <1>4
    <3>2. p(i).to = to /\ p(i).end = (i = n)
        BY <1>5
    <3> HIDE DEF to
    <3> QED BY <3>1, <3>2
  <2>5. p(i).to - p(i).from \in 1..MaxPayload
      BY <1>4, <1>5, <2>1
  <2>6. p(i).kind = "fua"
      BY <1>5
  <2> QED BY <2>3, <2>4, <2>5, <2>6 DEF Carries
<1>9. \A i \in 1..n : (seq + i - 1) = seq + (i - 1)
    BY <1>1
<1>10. ASSUME NEW i \in 1..(n - 1) PROVE Follows(p(i), p(i + 1))
  <2>1. i \in 1..n /\ i + 1 \in 1..n /\ i # n /\ i < n
      BY <1>1
  <2>2. p(i + 1).seq = (p(i).seq + 1) % SeqSize
    <3>1. seq + i - 1 \in Int /\ seq + (i + 1) - 1 = (seq + i - 1) + 1
        OBVIOUS
    <3> QED BY <1>5, <2>1, <3>1, SeqSteps
  <2>3. ~Ends(p(i))
      BY <1>5, <2>1 DEF Ends
  <2> QED BY <1>4, <1>5, <2>1, <2>2, <2>3 DEF Follows
<1>11. Begins(p(1)) /\ Ends(p(n))
  <2>1. 1 \in 1..n /\ n \in 1..n
      BY <1>1
  <2>2. p(1).start /\ p(n).end
      BY <1>5, <2>1
  <2> QED BY <2>2 DEF Begins, Ends
<1>12. (nal - nal) + 1 = 1 /\ <<size>>[1] = size /\ nal + 1 - 1 = nal /\ nal \in nal..nal
    OBVIOUS
<1>13. 1 \in 1..n /\ n \in 1..n /\ n # 0
    BY <1>1
<1>14. \A i \in 1..n :
          /\ ps[i].nal \in nal..(nal + 1 - 1)
          /\ Carries(ps[i], <<size>>[ps[i].nal - nal + 1])
          /\ ps[i].ts = ts /\ ps[i].seq = (seq + (i - 1)) % SeqSize
    BY <1>5, <1>7, <1>8, <1>9, <1>12
<1>15. \A i \in 1..(n - 1) : Follows(ps[i], ps[i + 1])
  <2>1. \A i \in 1..(n - 1) : i \in 1..n /\ i + 1 \in 1..n
      BY <1>1
  <2> QED BY <1>7, <1>10, <2>1
<1>16. /\ Begins(ps[1]) /\ ps[1].nal = nal
       /\ Ends(ps[n]) /\ ps[n].nal = nal
    BY <1>5, <1>7, <1>11, <1>13
<1>17. Sent(ps, <<size>>, nal, 1, seq, ts)
    BY <1>7, <1>12, <1>13, <1>14, <1>15, <1>16 DEF Sent
<1> QED BY <1>17 DEF ps

LEMMA NalSent ==
    ASSUME NEW nal \in Nat \ {0}, NEW size \in Nat \ {0}, NEW seq \in Nat,
           NEW ts \in 0..(TsSize - 1)
    PROVE  Sent(PacketizeNal(nal, size, seq, ts), <<size>>, nal, 1, seq, ts)
<1>1. MaxPayload \in Nat
    BY PacketizerAssumption
<1>2. CASE size <= MaxPayload
    BY <1>2, SingleSent DEF PacketizeNal
<1>3. CASE size > MaxPayload
    BY <1>1, <1>3, FuASent DEF PacketizeNal
<1> QED BY <1>1, <1>2, <1>3

(***************************************************************************)
(* The packets of a frame.                                                 *)
(***************************************************************************)

\* Every packet goes on where the one before it stopped.
Chain(ps) == \A i \in 1..(Len(ps) - 1) : Follows(ps[i], ps[i + 1])

LEMMA JoinChains ==
    ASSUME NEW S, NEW s \in Seq(S), NEW t \in Seq(S), Chain(s), Chain(t),
           s # <<>> /\ t # <<>> => Follows(s[Len(s)], t[1])
    PROVE  Chain(s \o t)
<1> DEFINE m == Len(s)
           n == Len(t)
           u == s \o t
<1>1. m \in Nat /\ n \in Nat /\ (m = 0 <=> s = <<>>) /\ (n = 0 <=> t = <<>>)
    OBVIOUS
<1>2. /\ Len(u) = m + n
      /\ \A i \in 1..m : u[i] = s[i]
      /\ \A i \in (m + 1)..(m + n) : u[i] = t[i - m]
    BY JoinFacts
<1>3. ASSUME NEW i \in 1..((m + n) - 1) PROVE Follows(u[i], u[i + 1])
  <2> HIDE DEF u
  <2>1. CASE i \in 1..(m - 1)
    <3>1. i \in 1..m /\ i + 1 \in 1..m
        BY <1>1, <2>1
    <3>2. Follows(s[i], s[i + 1])
        BY <2>1 DEF Chain
    <3> HIDE DEF m
    <3> QED BY <1>2, <3>1, <3>2
  <2>2. CASE i = m
    <3>1. i \in 1..m /\ i + 1 \in (m + 1)..(m + n) /\ (i + 1) - m = 1
          /\ s # <<>> /\ t # <<>>
        BY <1>1, <2>2
    <3>2. Follows(s[m], t[1])
        BY <3>1
    <3> HIDE DEF m
    <3> QED BY <1>2, <2>2, <3>1, <3>2
  <2>3. CASE i \in (m + 1)..((m + n) - 1)
    <3>1. /\ i \in (m + 1)..(m + n) /\ i + 1 \in (m + 1)..(m + n)
          /\ i - m \in 1..(n - 1) /\ (i + 1) - m = (i - m) + 1
        BY <1>1, <2>3
    <3>2. Follows(t[i - m], t[(i - m) + 1])
        BY <3>1 DEF Chain
    <3> HIDE DEF m
    <3> QED BY <1>2, <3>1, <3>2
  <2> QED BY <1>1, <2>1, <2>2, <2>3
<1> QED BY <1>2, <1>3 DEF Chain

LEMMA JoinSent ==
    ASSUME NEW sizes \in Seq(Nat \ {0}), NEW first \in Nat \ {0},
           NEW seq \in Nat, NEW ts,
           NEW k \in Nat, k < Len(sizes), NEW s, NEW t,
           Sent(s, sizes, first, k, seq, ts),
           Sent(t, <<sizes[k + 1]>>, first + k, 1, seq + Len(s), ts)
    PROVE  Sent(s \o t, sizes, first, k + 1, seq, ts)
<1> DEFINE m == Len(s)
           n == Len(t)
           u == s \o t
<1>1. /\ s \in Seq(RtpPackets) /\ t \in Seq(RtpPackets)
      /\ m \in Nat /\ n \in Nat /\ n > 0
      /\ (m = 0 <=> s = <<>>) /\ (m = 0 <=> k = 0)
  <2>1. s \in Seq(RtpPackets) /\ t \in Seq(RtpPackets) /\ n # 0
        /\ (m = 0 <=> k = 0)
      BY DEF Sent
  <2> QED BY <2>1
<1>2. /\ u \in Seq(RtpPackets) /\ Len(u) = m + n
      /\ \A i \in 1..m : u[i] = s[i]
      /\ \A i \in (m + 1)..(m + n) : u[i] = t[i - m]
    BY <1>1, JoinFacts
<1>3. /\ Begins(t[1]) /\ t[1].nal = first + k
      /\ Ends(t[n]) /\ t[n].nal = first + k
    BY DEF Sent
<1>4. \A i \in 1..n :
          /\ t[i].nal = first + k
          /\ Carries(t[i], sizes[k + 1])
          /\ t[i].ts = ts /\ t[i].seq = ((seq + m) + (i - 1)) % SeqSize
  <2>1. \A x \in (first + k)..((first + k) + 1 - 1) :
            x = first + k /\ <<sizes[k + 1]>>[x - (first + k) + 1] = sizes[k + 1]
      OBVIOUS
  <2> QED BY <2>1 DEF Sent
<1>5. \A i \in 1..m :
          /\ s[i].nal \in first..(first + k - 1)
          /\ Carries(s[i], sizes[s[i].nal - first + 1])
          /\ s[i].ts = ts /\ s[i].seq = (seq + (i - 1)) % SeqSize
    BY DEF Sent
<1>6. \A i \in 1..(m + n) :
          /\ u[i].nal \in first..(first + (k + 1) - 1)
          /\ Carries(u[i], sizes[u[i].nal - first + 1])
          /\ u[i].ts = ts /\ u[i].seq = (seq + (i - 1)) % SeqSize
  <2> HIDE DEF u, m, n
  <2> SUFFICES ASSUME NEW i \in 1..(m + n)
               PROVE  /\ u[i].nal \in first..(first + (k + 1) - 1)
                      /\ Carries(u[i], sizes[u[i].nal - first + 1])
                      /\ u[i].ts = ts /\ u[i].seq = (seq + (i - 1)) % SeqSize
      OBVIOUS
  <2>1. CASE i \in 1..m
    <3>1. \A x \in first..(first + k - 1) : x \in first..(first + (k + 1) - 1)
        OBVIOUS
    <3> QED BY <1>2, <1>5, <2>1, <3>1
  <2>2. CASE i \in (m + 1)..(m + n)
    <3>1. /\ i - m \in 1..n /\ (seq + m) + ((i - m) - 1) = seq + (i - 1)
          /\ (first + k) - first + 1 = k + 1
          /\ first + k \in first..(first + (k + 1) - 1)
        BY <1>1, <2>2
    <3>2. u[i] = t[i - m]
        BY <1>2, <2>2
    <3> QED BY <1>4, <3>1, <3>2
  <2> QED BY <1>1, <2>1, <2>2
<1>7. Chain(u)
  <2>1. Chain(s) /\ Chain(t)
      BY DEF Sent, Chain
  <2>2. ASSUME s # <<>> PROVE Follows(s[m], t[1])
    <3>1. m \in 1..m /\ 1 \in 1..n /\ k > 0 /\ (first + k - 1) + 1 = first + k
        BY <1>1, <2>2
    <3>2. Ends(s[m]) /\ s[m].nal = first + k - 1
        BY <3>1 DEF Sent
    <3>3. t[1].seq = (s[m].seq + 1) % SeqSize
      <4>1. /\ s[m].seq = (seq + (m - 1)) % SeqSize
            /\ t[1].seq = ((seq + m) + (1 - 1)) % SeqSize
          BY <1>4, <1>5, <3>1
      <4>2. (seq + (m - 1)) + 1 = (seq + m) + (1 - 1) /\ seq + (m - 1) \in Int
          BY <1>1
      <4> QED BY <4>1, <4>2, SeqSteps
    <3> QED BY <1>3, <3>1, <3>2, <3>3 DEF Follows
  <2> QED BY <1>1, <2>1, <2>2, JoinChains
<1>8. /\ Begins(u[1]) /\ u[1].nal = first
      /\ Ends(u[m + n]) /\ u[m + n].nal = first + (k + 1) - 1
  <2>1. m + n \in (m + 1)..(m + n) /\ (m + n) - m = n
        /\ first + (k + 1) - 1 = first + k
      BY <1>1
  <2>2. u[m + n] = t[n]
      BY <1>2, <2>1
  <2>3. CASE m = 0
    <3>1. 1 \in (m + 1)..(m + n) /\ 1 - m = 1 /\ k = 0 /\ first + k = first
        BY <1>1, <2>3
    <3> HIDE DEF u, m, n
    <3> QED BY <1>2, <1>3, <2>1, <2>2, <3>1
  <2>4. CASE m # 0
    <3>1. 1 \in 1..m /\ k > 0
        BY <1>1, <2>4
    <3>2. Begins(s[1]) /\ s[1].nal = first
        BY <3>1 DEF Sent
    <3> HIDE DEF u, m, n
    <3> QED BY <1>2, <1>3, <2>1, <2>2, <3>1, <3>2
  <2> QED BY <2>3, <2>4
<1>9. k + 1 # 0 /\ m + n # 0
    BY <1>1
<1> HIDE DEF u, m, n
<1>10. Sent(u, sizes, first, k + 1, seq, ts)
    BY <1>2, <1>6, <1>7, <1>8, <1>9 DEF Sent, Chain
<1> QED BY <1>10 DEF u

LEMMA MarkedSent ==
    ASSUME NEW ps, NEW sizes, NEW first \in Nat, NEW n \in Nat, NEW seq, NEW ts,
           Sent(ps, sizes, first, n, seq, ts)
    PROVE  LET marked == MarkLast(ps)
           IN  /\ Sent(marked, sizes, first, n, seq, ts)
               /\ \A i \in 1..Len(marked) : marked[i].marker <=> i = Len(marked)
<1> DEFINE q == MarkLast(ps)
           len == Len(ps)
<1>1. ps \in Seq(RtpPackets) /\ len \in Nat /\ DOMAIN ps = 1..len
  <2>1. ps \in Seq(RtpPackets)
      BY DEF Sent
  <2> QED BY <2>1
<1>2. /\ q = [i \in 1..len |-> [ps[i] EXCEPT !.marker = (i = len)]]
      /\ \A i \in 1..len : ps[i] \in RtpPackets
    BY <1>1 DEF MarkLast
<1> HIDE DEF q, len
<1>3. ASSUME NEW i \in 1..len
      PROVE  /\ q[i] \in RtpPackets
             /\ q[i].seq = ps[i].seq /\ q[i].ts = ps[i].ts
             /\ q[i].kind = ps[i].kind /\ q[i].start = ps[i].start
             /\ q[i].end = ps[i].end /\ q[i].nal = ps[i].nal
             /\ q[i].from = ps[i].from /\ q[i].to = ps[i].to
             /\ q[i].marker <=> i = len
  <2>1. q[i] = [ps[i] EXCEPT !.marker = (i = len)] /\ ps[i] \in RtpPackets
      BY <1>2
  <2>2. (i = len) \in BOOLEAN
      OBVIOUS
  <2> QED BY <2>1, <2>2 DEF RtpPackets
<1>4. q \in Seq(RtpPackets) /\ Len(q) = len
  <2>1. q = [i \in 1..len |-> q[i]]
      BY <1>2
  <2> QED BY <1>1, <1>3, <2>1
<1>5. \A i \in 1..len : /\ Begins(q[i]) <=> Begins(ps[i])
                        /\ Ends(q[i]) <=> Ends(ps[i])
                        /\ \A size : Carries(q[i], size) <=> Carries(ps[i], size)
    BY <1>3 DEF Begins, Ends, Carries
<1>6. \A i, j \in 1..len : Follows(q[i], q[j]) <=> Follows(ps[i], ps[j])
    BY <1>3, <1>5 DEF Follows
<1>7. Sent(q, sizes, first, n, seq, ts)
  <2>1. n > 0 => 1 \in 1..len /\ len \in 1..len
      BY <1>1 DEF Sent, len
  <2>2. \A i \in 1..(len - 1) : i \in 1..len /\ i + 1 \in 1..len
      BY <1>1
  <2>3. \A i \in 1..(len - 1) : Follows(q[i], q[i + 1])
      BY <1>6, <2>2 DEF Sent, len
  <2>4. \A i \in 1..len :
            /\ q[i].nal \in first..(first + n - 1)
            /\ Carries(q[i], sizes[q[i].nal - first + 1])
            /\ q[i].ts = ts /\ q[i].seq = (seq + (i - 1)) % SeqSize
    <3>1. \A i \in 1..len :
            /\ ps[i].nal \in first..(first + n - 1)
            /\ Carries(ps[i], sizes[ps[i].nal - first + 1])
            /\ ps[i].ts = ts /\ ps[i].seq = (seq + (i - 1)) % SeqSize
        BY DEF Sent, len
    <3> QED BY <1>3, <1>5, <3>1
  <2>5. n > 0 => /\ Begins(q[1]) /\ q[1].nal = first
                 /\ Ends(q[len]) /\ q[len].nal = first + n - 1
      BY <1>3, <1>5, <2>1 DEF Sent, len
  <2>6. n = 0 <=> len = 0
      BY DEF Sent, len
  <2> QED BY <1>4, <2>3, <2>4, <2>5, <2>6 DEF Sent
<1> QED BY <1>3, <1>4, <1>7 DEF q

\* The turns of Packetize's loop are the values of a function.
LEMMA FrameSent ==
    ASSUME NEW sizes \in Seq(Nat \ {0}), NEW first \in Nat \ {0},
           NEW seq \in Nat, NEW ts \in 0..(TsSize - 1)
    PROVE  LET ps == Packetize(sizes, first, seq, ts)
           IN  /\ Sent(ps, sizes, first, Len(sizes), seq, ts)
               /\ \A i \in 1..Len(ps) : ps[i].marker <=> i = Len(ps)
<1> DEFINE len == Len(sizes)
           Wrote(ps, k) == ps \o PacketizeNal(first + k - 1, sizes[k],
                                              seq + Len(ps), ts)
           Step(g, k) == IF k = 0 THEN <<>> ELSE Wrote(g[k - 1], k)
           Good(ps, k) == Sent(ps, sizes, first, k, seq, ts)
           Made(g, k) == /\ g \in [0..k -> Seq(RtpPackets)]
                         /\ \A n \in 0..k : g[n] = Step(g, n) /\ Good(g[n], n)
           T == {k \in Nat : k <= len => \E g : Made(g, k)}
<1>1. len \in Nat /\ \A k \in 1..len : sizes[k] \in Nat \ {0}
    OBVIOUS
<1>2. Good(<<>>, 0)
  <2> DEFINE none == <<>>
  <2>1. none \in Seq(RtpPackets) /\ Len(none) = 0
      OBVIOUS
  <2> HIDE DEF none
  <2>2. Sent(none, sizes, first, 0, seq, ts)
      BY <2>1 DEF Sent
  <2> QED BY <2>2 DEF none
<1>3. ASSUME NEW k \in Nat, k < len, NEW ps, Good(ps, k)
      PROVE  Good(Wrote(ps, k + 1), k + 1) /\ Wrote(ps, k + 1) \in Seq(RtpPackets)
  <2>1. /\ k + 1 \in 1..len /\ first + (k + 1) - 1 = first + k
        /\ first + k \in Nat \ {0}
      BY <1>1, <1>3
  <2>2. sizes[k + 1] \in Nat \ {0}
      BY <1>1, <2>1
  <2>3. seq + Len(ps) \in Nat
    <3>1. ps \in Seq(RtpPackets)
        BY <1>3 DEF Sent
    <3> QED BY <3>1
  <2> DEFINE t == PacketizeNal(first + k, sizes[k + 1], seq + Len(ps), ts)
  <2>4. Sent(t, <<sizes[k + 1]>>, first + k, 1, seq + Len(ps), ts)
      BY <2>1, <2>2, <2>3, NalSent
  <2> HIDE DEF t
  <2>5. Sent(ps \o t, sizes, first, k + 1, seq, ts)
      BY <1>3, <2>4, JoinSent
  <2>6. Wrote(ps, k + 1) = ps \o t
      BY <2>1 DEF t
  <2>7. ps \o t \in Seq(RtpPackets)
      BY <2>5 DEF Sent
  <2> QED BY <2>5, <2>6, <2>7
<1> HIDE DEF Wrote, Good, len
<1>4. 0 \in T
  <2> DEFINE g == [n \in 0..0 |-> <<>>]
  <2>1. Made(g, 0)
    <3>1. \A n \in 0..0 : n = 0
        OBVIOUS
    <3>2. <<>> \in Seq(RtpPackets)
        OBVIOUS
    <3> QED BY <1>2, <3>1, <3>2
  <2> QED BY <2>1
<1>5. ASSUME NEW k \in Nat, k \in T PROVE k + 1 \in T
  <2> HIDE DEF Made
  <2> SUFFICES ASSUME k + 1 <= len PROVE \E h : Made(h, k + 1)
      OBVIOUS
  <2>1. k < len /\ k <= len
      BY <1>1
  <2>2. PICK g : Made(g, k)
      BY <1>5, <2>1
  <2> USE DEF Made
  <2> DEFINE next1 == Wrote(g[k], k + 1)
             h == [n \in 0..(k + 1) |-> IF n = k + 1 THEN next1 ELSE g[n]]
  <2>3. k \in 0..k /\ g[k] \in Seq(RtpPackets) /\ Good(g[k], k)
      BY <2>2
  <2>4. next1 \in Seq(RtpPackets) /\ Good(next1, k + 1)
      BY <1>3, <2>1, <2>3
  <2> HIDE DEF next1
  <2>5. h \in [0..(k + 1) -> Seq(RtpPackets)]
      BY <2>2, <2>4
  <2>6. ASSUME NEW n \in 0..(k + 1)
        PROVE  h[n] = Step(h, n) /\ Good(h[n], n)
    <3>1. \A m \in 0..k : h[m] = g[m] /\ g[m] = Step(g, m) /\ Good(g[m], m)
      <4>1. \A m \in 0..k : m \in 0..(k + 1) /\ m # k + 1
          OBVIOUS
      <4>2. \A m \in 0..k : g[m] = Step(g, m) /\ Good(g[m], m)
          BY <2>2
      <4> HIDE DEF Step
      <4> QED BY <4>1, <4>2
    <3>2. h[k + 1] = next1
        OBVIOUS
    <3> HIDE DEF h
    <3>3. CASE n = 0
        BY <3>1, <3>3
    <3>4. CASE n \in 1..k
      <4>1. n \in 0..k /\ n - 1 \in 0..k /\ n # 0
          BY <3>4
      <4> QED BY <3>1, <4>1
    <3>5. CASE n = k + 1
      <4>1. n # 0 /\ n - 1 = k /\ k \in 0..k
          BY <3>5
      <4> QED BY <2>4, <3>1, <3>2, <3>5, <4>1 DEF next1
    <3> QED BY <3>3, <3>4, <3>5
  <2> HIDE DEF h, Step
  <2>7. Made(h, k + 1)
      BY <2>5, <2>6
  <2> HIDE DEF Made
  <2> QED BY <2>7
<1>6. len \in T
  <2> HIDE DEF T
  <2> QED BY <1>1, <1>4, <1>5, CountingUp
<1>7. PICK g : Made(g, len)
  <2>1. len <= len
      BY <1>1
  <2> HIDE DEF Made
  <2> QED BY <1>6, <2>1
<1> DEFINE F == CHOOSE f : f = [k \in 0..len |-> Step(f, k)]
<1>8. g = [k \in 0..len |-> Step(g, k)]
    BY <1>7
<1>9. F = [k \in 0..len |-> Step(F, k)]
    BY <1>8
<1> HIDE DEF F
<1> DEFINE U == {k \in Nat : k <= len => Good(F[k], k)}
<1>10. 0 \in U
    BY <1>1, <1>2, <1>9
<1>11. ASSUME NEW k \in Nat, k \in U PROVE k + 1 \in U
  <2> SUFFICES ASSUME k + 1 <= len PROVE Good(F[k + 1], k + 1)
      OBVIOUS
  <2>1. /\ k + 1 \in 0..len /\ k + 1 # 0 /\ (k + 1) - 1 = k
        /\ k < len /\ k <= len
      BY <1>1
  <2>2. F[k + 1] = Wrote(F[k], k + 1)
      BY <1>9, <2>1
  <2>3. Good(F[k], k)
      BY <1>11, <2>1
  <2> QED BY <1>3, <2>1, <2>2, <2>3
<1>12. len \in U
  <2> HIDE DEF U
  <2> QED BY <1>1, <1>10, <1>11, CountingUp
<1>13. Sent(F[len], sizes, first, len, seq, ts)
    BY <1>1, <1>12 DEF Good
<1>14. Packetize(sizes, first, seq, ts) = MarkLast(F[len])
    BY DEF Packetize, F, Wrote, len
<1> QED BY <1>1, <1>13, <1>14, MarkedSent DEF len

(***************************************************************************)
(* The packetizer.                                                         *)
(***************************************************************************)

Sizes == Nat \ {0}

\* Packet p carries bytes of one of the NAL units packetized so far.
Genuine(p) ==
    /\ p \in RtpPackets /\ p.nal \in 1..Len(given)
    /\ Carries(p, given[p.nal])

PacketizerInv ==
    /\ given \in Seq(Sizes) /\ frames \in Seq(Seq(Sizes))
    /\ sequence \in 0..(SeqSize - 1) /\ rtpTs \in 0..(TsSize - 1)
    /\ out \in Seq(RtpPackets)
    /\ \A i \in 1..Len(out) : Genuine(out[i])
    /\ out # <<>> => sequence = (out[Len(out)].seq + 1) % SeqSize
    /\ FrameWhole

LEMMA PacketizerStarts == PacketizerInit => PacketizerInv
<1> SUFFICES ASSUME PacketizerInit PROVE PacketizerInv
    OBVIOUS
<1> DEFINE none == <<>>
<1>1. /\ \A S : none \in Seq(S)
      /\ Len(none) = 0
    OBVIOUS
<1>2. given = none /\ frames = none /\ out = none /\ sequence = 0 /\ rtpTs = 0
    BY DEF PacketizerInit
<1>3. FrameWhole
    BY <1>2 DEF FrameWhole
<1> HIDE DEF none
<1>4. 0 \in 0..(SeqSize - 1) /\ 0 \in 0..(TsSize - 1)
    BY RtpAssumption
<1>5. \A i \in 1..Len(out) : FALSE
    BY <1>1, <1>2
<1> QED BY <1>1, <1>2, <1>3, <1>4, <1>5 DEF PacketizerInv, none

LEMMA PacketizerKeeps ==
    ASSUME PacketizerInv, PacketizerNext
    PROVE  /\ PacketizerInv'
           /\ Len(given') >= Len(given)
           /\ \A n \in 1..Len(given) : given'[n] = given[n]
           /\ out' # <<>> => /\ out'[1].seq = sequence
                             /\ out'[1].nal = Len(given) + 1 /\ Begins(out'[1])
           /\ out' = <<>> => given' = given /\ sequence' = sequence
           /\ sequence' = (sequence + Len(out')) % SeqSize
           /\ \A i \in 1..Len(out') : out'[i].seq = (sequence + (i - 1)) % SeqSize
<1>1. PICK frame \in Frames : PacketizeFrame(frame)
    BY DEF PacketizerNext
<1> DEFINE first == Len(given) + 1
           n == Len(frame)
           len == Len(out')
<1>2. /\ frame \in Seq(Sizes) /\ given \in Seq(Sizes)
      /\ frames \in Seq(Seq(Sizes))
      /\ sequence \in 0..(SeqSize - 1) /\ rtpTs \in 0..(TsSize - 1)
    BY PacketizerAssumption DEF PacketizerInv, Sizes
<1>3. /\ frames' = Append(frames, frame) /\ given' = given \o frame
      /\ out' = Packetize(frame, first, sequence, rtpTs)
      /\ sequence' = (sequence + len) % SeqSize
      /\ rtpTs' = (rtpTs + TsStep) % TsSize
    BY <1>1 DEF PacketizeFrame, NextSequence
<1>4. /\ first \in Nat \ {0} /\ n \in Nat /\ Len(given) \in Nat
      /\ sequence \in Nat /\ frame \in Seq(Nat \ {0})
    BY <1>2, RtpAssumption DEF Sizes
<1>5. /\ Sent(out', frame, first, n, sequence, rtpTs)
      /\ \A i \in 1..len : out'[i].marker <=> i = len
    BY <1>2, <1>3, <1>4, FrameSent
<1>6. out' \in Seq(RtpPackets) /\ len \in Nat /\ (len = 0 <=> out' = <<>>)
      /\ (n = 0 <=> len = 0)
  <2>1. out' \in Seq(RtpPackets) /\ (n = 0 <=> len = 0)
      BY <1>5 DEF Sent
  <2> QED BY <2>1
<1>7. /\ given' \in Seq(Sizes) /\ Len(given') = Len(given) + n
      /\ \A k \in 1..Len(given) : given'[k] = given[k]
      /\ \A k \in (Len(given) + 1)..(Len(given) + n) :
            given'[k] = frame[k - Len(given)]
    BY <1>2, <1>3, JoinFacts
<1>8. \A i \in 1..len : Genuine(out[i])'
  <2> SUFFICES ASSUME NEW i \in 1..len PROVE Genuine(out[i])'
      OBVIOUS
  <2>1. PICK p : p = out'[i]
      OBVIOUS
  <2>2. p \in RtpPackets
      BY <1>6, <2>1
  <2>3. p.nal \in first..(first + n - 1) /\ Carries(p, frame[p.nal - first + 1])
      BY <1>5, <2>1 DEF Sent
  <2>4. /\ p.nal \in (Len(given) + 1)..(Len(given) + n)
        /\ p.nal - first + 1 = p.nal - Len(given)
        /\ p.nal \in 1..(Len(given) + n)
      BY <1>4, <2>3
  <2>5. given'[p.nal] = frame[p.nal - first + 1]
      BY <1>7, <2>4
  <2> HIDE DEF first
  <2> QED BY <1>7, <2>1, <2>2, <2>3, <2>4, <2>5 DEF Genuine, Carries
<1>9. sequence' \in 0..(SeqSize - 1) /\ rtpTs' \in 0..(TsSize - 1)
  <2>1. sequence + len \in Int /\ rtpTs + TsStep \in Int
        /\ TsSize \in Nat \ {0}
      BY <1>2, <1>4, <1>6, RtpAssumption, PacketizerAssumption
  <2> QED BY <1>3, <2>1, SeqSteps, Division
<1>10. out' = <<>> => given' = given /\ sequence' = sequence
  <2> SUFFICES ASSUME out' = <<>> PROVE given' = given /\ sequence' = sequence
      OBVIOUS
  <2>1. len = 0 /\ n = 0
      BY <1>6
  <2>2. frame = <<>>
      BY <1>2, <2>1
  <2>3. given' = given
      BY <1>2, <1>3, <2>2
  <2>4. sequence' = sequence % SeqSize
    <3>1. sequence + len = sequence
        BY <1>4, <2>1
    <3> QED BY <1>3, <3>1
  <2>5. sequence % SeqSize = sequence
      BY <1>2, RtpAssumption
  <2> QED BY <2>3, <2>4, <2>5
<1>11. ASSUME out' # <<>>
       PROVE  /\ out'[1].seq = sequence
              /\ out'[1].nal = first /\ Begins(out'[1])
              /\ sequence' = (out'[len].seq + 1) % SeqSize
              /\ Ends(out'[len]) /\ out'[len].nal = Len(given')
              /\ Len(given') - n + 1 = first
  <2>1. n > 0 /\ 1 \in 1..len /\ len \in 1..len
      BY <1>4, <1>6, <1>11
  <2>2. /\ Begins(out'[1]) /\ out'[1].nal = first
        /\ Ends(out'[len]) /\ out'[len].nal = first + n - 1
      BY <1>5, <2>1 DEF Sent
  <2>3. /\ out'[1].seq = (sequence + (1 - 1)) % SeqSize
        /\ out'[len].seq = (sequence + (len - 1)) % SeqSize
      BY <1>5, <2>1 DEF Sent
  <2>4. (sequence + (1 - 1)) % SeqSize = sequence
    <3>1. sequence + (1 - 1) = sequence
        BY <1>4
    <3>2. sequence % SeqSize = sequence
        BY <1>2, RtpAssumption
    <3> QED BY <3>1, <3>2
  <2>5. sequence' = (out'[len].seq + 1) % SeqSize
    <3>1. (sequence + (len - 1)) + 1 = sequence + len
          /\ sequence + (len - 1) \in Int
        BY <1>4, <1>6
    <3> QED BY <1>3, <2>3, <3>1, SeqSteps
  <2>6. first + n - 1 = Len(given') /\ Len(given') - n + 1 = first
      BY <1>4, <1>7
  <2> QED BY <2>2, <2>3, <2>4, <2>5, <2>6
<1>12. frames' \in Seq(Seq(Sizes)) /\ Last(frames)' = frame
    BY <1>2, <1>3 DEF Last
<1>13. FrameWhole'
  <2> SUFFICES ASSUME out' # <<>>
               PROVE
        /\ Begins(out'[1]) /\ out'[1].nal = Len(given') - n + 1
        /\ Ends(Last(out)') /\ Last(out)'.nal = Len(given')
        /\ \A i \in DOMAIN out' : /\ Carries(out'[i], given'[out'[i].nal])
                                  /\ out'[i].ts = out'[1].ts
                                  /\ out'[i].marker <=> i = len
        /\ \A i \in 1..(len - 1) : Follows(out'[i], out'[i + 1])
      BY <1>12 DEF FrameWhole
  <2>1. Last(out)' = out'[len] /\ DOMAIN out' = 1..len /\ 1 \in 1..len
      BY <1>6 DEF Last
  <2>2. \A i \in 1..len : Carries(out'[i], given'[out'[i].nal])
      BY <1>8 DEF Genuine, Carries
  <2>3. \A i \in 1..len : out'[i].ts = rtpTs
      BY <1>5 DEF Sent
  <2>4. \A i \in 1..(len - 1) : Follows(out'[i], out'[i + 1])
      BY <1>5 DEF Sent
  <2> HIDE DEF len, n, first
  <2> QED BY <1>5, <1>11, <2>1, <2>2, <2>3, <2>4
<1>14. PacketizerInv'
    BY <1>6, <1>7, <1>8, <1>9, <1>11, <1>12, <1>13 DEF PacketizerInv
<1>15. Len(given') >= Len(given)
    BY <1>4, <1>7
<1>16. \A i \in 1..len : out'[i].seq = (sequence + (i - 1)) % SeqSize
    BY <1>5 DEF Sent
<1> QED BY <1>3, <1>7, <1>10, <1>11, <1>14, <1>15, <1>16

LEMMA PacketizerStays ==
    ASSUME PacketizerInv, UNCHANGED packetizerVars
    PROVE  PacketizerInv'
<1>1. UNCHANGED <<frames, given>> /\ UNCHANGED <<sequence, rtpTs, out>>
    BY DEF packetizerVars
<1>2. FrameWhole'
  <2>1. FrameWhole
      BY DEF PacketizerInv
  <2>2. frames' = frames /\ given' = given /\ out' = out
      BY <1>1
  <2> QED BY <2>1, <2>2 DEF FrameWhole
<1>3. \A i \in 1..Len(out) : Genuine(out[i])'
    BY <1>1 DEF PacketizerInv, Genuine, Carries
<1> QED BY <1>1, <1>2, <1>3 DEF PacketizerInv

(***************************************************************************)
(* The parser, when the packets are the packetizer's.                      *)
(***************************************************************************)

\* Fragments ps are all of a NAL unit up to some byte of it but the last.
Partial(ps) ==
    /\ ps \in Seq(RtpPackets)
    /\ \A i \in 1..Len(ps) :
          /\ Genuine(ps[i]) /\ ps[i].kind = "fua"
          /\ ps[i].nal = ps[1].nal /\ ps[i].ts = ps[1].ts
          /\ ps[i].start <=> i = 1
          /\ ~ps[i].end
    /\ \A i \in 1..(Len(ps) - 1) : ps[i].to = ps[i + 1].from

\* Packets ps are all of a NAL unit.
Entire(ps) ==
    /\ ps \in Seq(RtpPackets) /\ ps # <<>>
    /\ ps[1].nal \in 1..Len(given)
    /\ \A i \in DOMAIN ps : ps[i].nal = ps[1].nal
    /\ CarryWhole(ps, given[ps[1].nal])

\* What was fed are whole NAL units under the timestamp of their packets.
FedWhole ==
    /\ fed \in Seq([packets : Seq(RtpPackets), ts : 0..(TsSize - 1)])
    /\ \A k \in 1..Len(fed) : /\ Entire(fed[k].packets)
                              /\ fed[k].ts = fed[k].packets[1].ts

ParserInv ==
    /\ lastSeq \in (0..(SeqSize - 1)) \cup {-1}
    /\ Partial(fuaBuf)
    /\ fuaBuf # <<>> => fuaTs = fuaBuf[1].ts /\ lastSeq # -1
    /\ FedWhole

LEMMA NothingPartial == Partial(<<>>)
<1> DEFINE none == <<>>
<1>1. none \in Seq(RtpPackets) /\ Len(none) = 0
    OBVIOUS
<1> HIDE DEF none
<1>2. Partial(none)
    BY <1>1 DEF Partial
<1> QED BY <1>2 DEF none

\* The first packet of a NAL unit on its own.
LEMMA OnePartial ==
    ASSUME NEW p, Genuine(p), Begins(p)
    PROVE  /\ ~Ends(p) => Partial(<<p>>)
           /\ Ends(p) => Entire(<<p>>)
<1> DEFINE ps == <<p>>
<1>1. ps \in Seq(RtpPackets) /\ Len(ps) = 1 /\ ps[1] = p /\ ps # <<>>
      /\ DOMAIN ps = 1..1
    BY DEF Genuine
<1>2. p.nal \in 1..Len(given) /\ Carries(p, given[p.nal])
    BY DEF Genuine
<1> HIDE DEF ps
<1>3. /\ \A i \in 1..Len(ps) : i = 1
      /\ \A i \in 1..(Len(ps) - 1) : FALSE
    BY <1>1
<1>4. ASSUME ~Ends(p) PROVE Partial(ps)
  <2>1. p.kind = "fua" /\ p.start /\ ~p.end
      BY <1>2, <1>4 DEF Ends, Begins, Carries
  <2> QED BY <1>1, <1>3, <2>1 DEF Partial
<1>5. ASSUME Ends(p) PROVE Entire(ps)
  <2>1. CarryWhole(ps, given[p.nal])
    <3>1. CASE p.kind = "single"
        BY <1>1, <1>2, <3>1 DEF CarryWhole, Carries
    <3>2. CASE p.kind = "fua"
      <4>1. /\ p.start /\ p.end /\ p.from = 1 /\ p.to = given[p.nal]
            /\ p.to - p.from \in 1..MaxPayload
          BY <1>2, <1>5, <3>2 DEF Carries, Begins, Ends
      <4> QED BY <1>1, <1>3, <3>2, <4>1 DEF CarryWhole
    <3> QED BY <1>2, <3>1, <3>2 DEF Carries
  <2> QED BY <1>1, <1>2, <1>3, <2>1 DEF Entire
<1> QED BY <1>4, <1>5 DEF ps

\* One more fragment of a NAL unit.
LEMMA MorePartial ==
    ASSUME NEW b, Partial(b), b # <<>>, NEW p, Genuine(p), given \in Seq(Sizes),
           Follows(b[Len(b)], p)
    PROVE  /\ p.kind = "fua" /\ ~p.start /\ p.ts = b[1].ts /\ p.nal = b[1].nal
           /\ ~Ends(p) => Partial(Append(b, p))
           /\ Ends(p) => Entire(Append(b, p))
<1> DEFINE n == Len(b)
           ps == Append(b, p)
<1>1. b \in Seq(RtpPackets) /\ n \in Nat /\ n >= 1 /\ 1 \in 1..n /\ n \in 1..n
  <2>1. b \in Seq(RtpPackets)
      BY DEF Partial
  <2> QED BY <2>1
<1>2. p \in RtpPackets /\ p.nal \in 1..Len(given) /\ Carries(p, given[p.nal])
    BY DEF Genuine
<1>3. \A i \in 1..n :
          /\ Genuine(b[i]) /\ b[i].kind = "fua"
          /\ b[i].nal = b[1].nal /\ b[i].ts = b[1].ts
          /\ b[i].start <=> i = 1
          /\ ~b[i].end
    BY DEF Partial
<1>4. \A i \in 1..(n - 1) : b[i].to = b[i + 1].from
    BY DEF Partial
<1>5. /\ ps \in Seq(RtpPackets) /\ Len(ps) = n + 1 /\ ps # <<>>
      /\ \A i \in 1..n : ps[i] = b[i]
      /\ ps[n + 1] = p
    BY <1>1, <1>2, AppendFacts
<1>6. DOMAIN ps = 1..(n + 1)
    BY <1>5
<1> HIDE DEF ps, n
<1>7. \A i \in 1..n : Carries(b[i], given[b[1].nal])
    BY <1>3 DEF Genuine
<1>8. /\ p.nal = b[1].nal /\ p.ts = b[1].ts /\ p.from = b[n].to
  <2>1. ~Ends(b[n]) /\ b[n].nal = b[1].nal /\ b[n].ts = b[1].ts
      BY <1>1, <1>3 DEF Ends
  <2> QED BY <2>1 DEF Follows, n
<1>9. b[n].from \in Nat /\ b[n].to \in Nat /\ b[n].from >= 1
      /\ b[n].to - b[n].from \in 1..MaxPayload
  <2>1. b[n] \in RtpPackets
      BY <1>1, <1>3 DEF Genuine
  <2>2. b[n].from \in Nat /\ b[n].to \in Nat
      BY <2>1 DEF RtpPackets
  <2> QED BY <1>1, <1>3, <1>7, <2>2 DEF Carries
<1>10. p.from > 1 /\ MaxPayload \in Nat
    BY <1>8, <1>9, PacketizerAssumption
<1>11. /\ p.kind = "fua" /\ ~p.start
       /\ p.end <=> p.to = given[p.nal]
       /\ p.to - p.from \in 1..MaxPayload
    BY <1>2, <1>10 DEF Carries
<1>12. \A i \in 1..(n + 1) : i \in 1..n \/ i = n + 1
    BY <1>1
<1>13. \A i \in 1..n : ps[i].to = ps[i + 1].from
  <2>1. \A i \in 1..n : (i \in 1..(n - 1) /\ i + 1 \in 1..n) \/ i = n
      BY <1>1
  <2> QED BY <1>4, <1>5, <1>8, <2>1
<1>14. 1 \in 1..(n + 1) /\ ps[1] = b[1] /\ (n + 1) - 1 = n /\ n + 1 # 1
    BY <1>1, <1>5
<1>15. ASSUME ~Ends(p) PROVE Partial(ps)
  <2>1. ~p.end
      BY <1>15 DEF Ends
  <2>2. \A i \in 1..(n + 1) :
          /\ Genuine(ps[i]) /\ ps[i].kind = "fua"
          /\ ps[i].nal = ps[1].nal /\ ps[i].ts = ps[1].ts
          /\ ps[i].start <=> i = 1
          /\ ~ps[i].end
    <3> SUFFICES ASSUME NEW i \in 1..(n + 1)
                 PROVE  /\ Genuine(ps[i]) /\ ps[i].kind = "fua"
                        /\ ps[i].nal = ps[1].nal /\ ps[i].ts = ps[1].ts
                        /\ ps[i].start <=> i = 1
                        /\ ~ps[i].end
        OBVIOUS
    <3>1. CASE i \in 1..n
        BY <1>3, <1>5, <1>14, <3>1
    <3>2. CASE i = n + 1
        BY <1>5, <1>8, <1>11, <1>14, <2>1, <3>2
    <3> QED BY <1>12, <3>1, <3>2
  <2> QED BY <1>5, <1>13, <1>14, <2>2 DEF Partial
<1>16. ASSUME Ends(p) PROVE Entire(ps)
  <2>1. p.end /\ p.to = given[p.nal]
      BY <1>11, <1>16 DEF Ends
  <2>2. \A i \in 1..n : /\ b[i].kind = "fua"
                        /\ b[i].to - b[i].from \in 1..MaxPayload
                        /\ b[i].start <=> i = 1
                        /\ ~b[i].end /\ i # n + 1
      BY <1>1, <1>3, <1>7 DEF Carries
  <2>3. \A i \in 1..(n + 1) : /\ ps[i].kind = "fua"
                              /\ ps[i].to - ps[i].from \in 1..MaxPayload
                              /\ ps[i].start <=> i = 1
                              /\ ps[i].end <=> i = n + 1
      BY <1>5, <1>11, <1>12, <1>14, <2>1, <2>2
  <2>4. ps[1].from = 1
    <3>1. b[1].kind = "fua" /\ b[1].start
        BY <1>1, <1>3
    <3>2. Carries(b[1], given[b[1].nal])
        BY <1>1, <1>7
    <3> QED BY <1>14, <3>1, <3>2 DEF Carries
  <2>5. CarryWhole(ps, given[p.nal])
    <3>1. ps # <<>> /\ Len(ps) = n + 1 /\ DOMAIN ps = 1..(n + 1)
        BY <1>5, <1>6
    <3>2. ps[1].from = 1 /\ ps[n + 1].to = given[p.nal]
        BY <1>5, <2>1, <2>4
    <3>3. \A i \in 1..((n + 1) - 1) : ps[i].to = ps[i + 1].from
        BY <1>13, <1>14
    <3> QED BY <2>3, <3>1, <3>2, <3>3 DEF CarryWhole
  <2>6. \A i \in 1..(n + 1) : ps[i].nal = p.nal
      BY <1>3, <1>5, <1>8, <1>12
  <2> QED BY <1>2, <1>5, <1>6, <1>14, <2>5, <2>6 DEF Entire
<1> QED BY <1>8, <1>11, <1>15, <1>16 DEF ps

\* The packetizer goes on: what was given stays.
Grows ==
    /\ Len(given) \in Nat /\ Len(given') \in Nat /\ Len(given') >= Len(given)
    /\ \A n \in 1..Len(given) : given'[n] = given[n]

LEMMA GenuineKept ==
    ASSUME Grows, NEW p, Genuine(p)
    PROVE  Genuine(p)'
<1>1. p.nal \in 1..Len(given) /\ p \in RtpPackets /\ Carries(p, given[p.nal])
    BY DEF Genuine
<1>2. p.nal \in 1..Len(given') /\ given'[p.nal] = given[p.nal]
    BY <1>1 DEF Grows
<1> QED BY <1>1, <1>2 DEF Genuine, Carries

LEMMA PartialKept ==
    ASSUME Grows, NEW ps, Partial(ps)
    PROVE  Partial(ps)'
<1>1. \A i \in 1..Len(ps) : Genuine(ps[i])
    BY DEF Partial
<1>2. ASSUME NEW i \in 1..Len(ps) PROVE Genuine(ps[i])'
  <2>1. PICK p : p = ps[i]
      OBVIOUS
  <2>2. Genuine(p)
      BY <1>1, <2>1
  <2>3. Genuine(p)'
      BY <2>2, GenuineKept
  <2> QED BY <2>1, <2>3
<1> QED BY <1>2 DEF Partial

LEMMA EntireKept ==
    ASSUME Grows, NEW ps, Entire(ps)
    PROVE  Entire(ps)'
<1>1. PICK n : n = ps[1].nal
    OBVIOUS
<1>2. /\ ps \in Seq(RtpPackets) /\ ps # <<>>
      /\ \A i \in DOMAIN ps : ps[i].nal = ps[1].nal
      /\ n \in 1..Len(given) /\ CarryWhole(ps, given[n])
    BY <1>1 DEF Entire
<1>3. n \in 1..Len(given') /\ given'[n] = given[n]
    BY <1>2 DEF Grows
<1>4. CarryWhole(ps, given'[n])
    BY <1>2, <1>3
<1> QED BY <1>1, <1>2, <1>3, <1>4 DEF Entire, CarryWhole

LEMMA FedKept ==
    ASSUME Grows, FedWhole, fed' = fed
    PROVE  FedWhole'
<1>1. ASSUME NEW k \in 1..Len(fed) PROVE Entire(fed[k].packets)'
  <2>1. PICK ps : ps = fed[k].packets
      OBVIOUS
  <2>2. Entire(ps)
      BY <2>1 DEF FedWhole
  <2>3. Entire(ps)'
      BY <2>2, EntireKept
  <2> QED BY <2>1, <2>3
<1> QED BY <1>1 DEF FedWhole

LEMMA FedMore ==
    ASSUME Grows, FedWhole, NEW ps, Entire(ps), NEW t, t = ps[1].ts,
           fed' = Append(fed, [packets |-> ps, ts |-> t])
    PROVE  FedWhole'
<1> DEFINE Unit == [packets : Seq(RtpPackets), ts : 0..(TsSize - 1)]
           unit == [packets |-> ps, ts |-> t]
           n == Len(fed)
<1>1. ps \in Seq(RtpPackets) /\ ps # <<>>
    BY DEF Entire
<1>2. ps[1] \in RtpPackets
    BY <1>1
<1>3. unit \in Unit /\ unit.packets = ps /\ unit.ts = t
    BY <1>1, <1>2 DEF RtpPackets
<1>4. fed \in Seq(Unit) /\ n \in Nat
    BY DEF FedWhole
<1> HIDE DEF unit, Unit
<1>5. /\ fed' \in Seq(Unit) /\ Len(fed') = n + 1
      /\ \A k \in 1..n : fed'[k] = fed[k]
      /\ fed'[n + 1] = unit
    BY <1>3, <1>4, AppendFacts DEF unit
<1>6. ASSUME NEW k \in 1..(n + 1)
      PROVE  Entire(fed[k].packets)' /\ fed'[k].ts = fed'[k].packets[1].ts
  <2>1. CASE k = n + 1
    <3>1. fed'[k].packets = ps /\ fed'[k].ts = t
        BY <1>3, <1>5, <2>1
    <3>2. Entire(ps)'
        BY EntireKept
    <3>3. Entire(fed[k].packets)'
        BY <3>1, <3>2
    <3> QED BY <3>1, <3>3
  <2>2. CASE k \in 1..n
    <3>1. PICK qs : qs = fed[k].packets
        OBVIOUS
    <3>2. Entire(qs) /\ fed[k].ts = qs[1].ts
        BY <2>2, <3>1 DEF FedWhole
    <3>3. Entire(qs)'
        BY <3>2, EntireKept
    <3>4. fed'[k].packets = qs /\ fed'[k].ts = qs[1].ts
        BY <1>5, <2>2, <3>1, <3>2
    <3>5. Entire(fed[k].packets)'
        BY <3>3, <3>4
    <3> QED BY <3>4, <3>5
  <2> QED BY <1>4, <2>1, <2>2
<1> QED BY <1>5, <1>6 DEF FedWhole, Unit

\* The packetizer has gone on and the parser has stood still, or started anew.
LEMMA ParserKept ==
    ASSUME ParserInv, Grows, fed' = fed,
           UNCHANGED <<lastSeq, fuaBuf, fuaTs>> \/ NewParser
    PROVE  ParserInv'
<1>1. FedWhole'
    BY FedKept DEF ParserInv
<1>2. CASE UNCHANGED <<lastSeq, fuaBuf, fuaTs>>
  <2>1. PICK ps : ps = fuaBuf
      OBVIOUS
  <2>2. Partial(ps)'
      BY <2>1, PartialKept DEF ParserInv
  <2>3. Partial(fuaBuf)'
      BY <1>2, <2>1, <2>2
  <2> QED BY <1>1, <1>2, <2>3 DEF ParserInv
<1>3. CASE NewParser
  <2>1. lastSeq' = -1 /\ fuaBuf' = <<>>
      BY <1>3 DEF NewParser, NoBuffer
  <2>2. Partial(<<>>)'
      BY NothingPartial, PTL
  <2>3. Partial(fuaBuf)'
      BY <2>1, <2>2
  <2> QED BY <1>1, <2>1, <2>3 DEF ParserInv
<1> QED BY <1>2, <1>3

\* A packet of the packetizer after the gap detection, which has left nothing
\* or packets that it follows: what is left is dropped, extended or fed.
LEMMA FeedGenuine ==
    ASSUME given \in Seq(Sizes), ParserInv, given' = given,
           NEW p, Genuine(p), FeedRtp(p), NEW b, b = AfterGapCheck(p),
           b # <<>> => Follows(b[Len(b)], p)
    PROVE  /\ ParserInv'
           /\ lastSeq' = p.seq
           /\ \/ /\ b = <<>> /\ ~Begins(p)
                 /\ fuaBuf' = <<>> /\ fed' = fed
              \/ /\ b # <<>> \/ Begins(p)
                 /\ ~Ends(p)
                 /\ fuaBuf' = Append(b, p) /\ fed' = fed
              \/ /\ b # <<>> \/ Begins(p)
                 /\ Ends(p) /\ fuaBuf' = <<>>
                 /\ fed' = Append(fed, [packets |-> Append(b, p), ts |-> p.ts])
<1> DEFINE one == <<p>>
           more == Append(b, p)
<1>1. /\ p \in RtpPackets /\ Carries(p, given[p.nal])
      /\ p.seq \in 0..(SeqSize - 1) /\ p.ts \in 0..(TsSize - 1)
    BY DEF Genuine, RtpPackets
<1>2. Grows
    BY DEF Grows
<1>3. b = <<>> \/ b = fuaBuf
    BY DEF AfterGapCheck, NoBuffer
<1>4. Partial(b) /\ (b # <<>> => fuaTs = b[1].ts)
    BY <1>3, NothingPartial DEF ParserInv
<1>5. ASSUME b # <<>>
      PROVE  /\ p.kind = "fua" /\ ~p.start /\ p.ts = b[1].ts /\ p.ts = fuaTs
             /\ ~Ends(p) => Partial(more)
             /\ Ends(p) => Entire(more)
             /\ more[1] = b[1] /\ ~Begins(p)
  <2>1. b \in Seq(RtpPackets)
      BY <1>4 DEF Partial
  <2>2. more[1] = b[1]
      BY <1>1, <1>5, <2>1
  <2> HIDE DEF more
  <2>3. /\ p.kind = "fua" /\ ~p.start /\ p.ts = b[1].ts
        /\ ~Ends(p) => Partial(more)
        /\ Ends(p) => Entire(more)
      BY <1>4, <1>5, MorePartial DEF more
  <2> QED BY <1>4, <1>5, <2>2, <2>3 DEF Begins
<1>6. ASSUME b = <<>>, Begins(p)
      PROVE  /\ more = one /\ one[1] = p
             /\ ~Ends(p) => Partial(one)
             /\ Ends(p) => Entire(one)
    BY <1>6, OnePartial
<1>7. FedWhole
    BY DEF ParserInv
<1>8. lastSeq' = p.seq
    BY DEF FeedRtp
<1>9. \/ /\ b = <<>> /\ ~Begins(p)
         /\ fuaBuf' = <<>> /\ fed' = fed
      \/ /\ b # <<>> \/ Begins(p)
         /\ ~Ends(p)
         /\ fuaBuf' = more /\ fed' = fed /\ fuaTs' = more[1].ts
      \/ /\ b # <<>> \/ Begins(p)
         /\ Ends(p) /\ fuaBuf' = <<>>
         /\ fed' = Append(fed, [packets |-> more, ts |-> p.ts])
         /\ p.ts = more[1].ts
  <2>1. CASE p.kind = "single"
    <3>1. Begins(p) /\ Ends(p)
        BY <2>1 DEF Begins, Ends
    <3>2. b = <<>>
        BY <1>5, <2>1
    <3>3. more = one /\ one[1] = p
        BY <1>6, <3>1, <3>2
    <3>4. FeedSingle(p)
        BY <2>1 DEF FeedRtp, FeedStart, FeedContinuation, FeedStapA, FeedNothing
    <3>5. fuaBuf' = <<>> /\ fed' = Append(fed, [packets |-> one, ts |-> p.ts])
        BY <3>2, <3>4 DEF FeedSingle, FeedNal
    <3> HIDE DEF more, one
    <3> QED BY <3>1, <3>3, <3>5
  <2>2. CASE p.kind = "fua" /\ p.start
    <3>1. Begins(p) /\ (Ends(p) <=> p.end)
        BY <2>2 DEF Begins, Ends
    <3>2. b = <<>>
        BY <1>5, <2>2
    <3>3. more = one /\ one[1] = p
        BY <1>6, <3>1, <3>2
    <3>4. FeedStart(p)
        BY <2>2 DEF FeedRtp, FeedSingle, FeedContinuation, FeedStapA, FeedNothing
    <3>5. /\ fuaTs' = p.ts
          /\ p.end => /\ fed' = Append(fed, [packets |-> one, ts |-> p.ts])
                      /\ fuaBuf' = <<>>
          /\ ~p.end => fuaBuf' = one /\ fed' = fed
        BY <3>2, <3>4 DEF FeedStart, FeedNal, NoBuffer
    <3> HIDE DEF more, one
    <3> QED BY <3>1, <3>3, <3>5
  <2>3. CASE p.kind = "fua" /\ ~p.start
    <3>1. ~Begins(p) /\ (Ends(p) <=> p.end)
        BY <2>3 DEF Begins, Ends
    <3>2. FeedContinuation(p)
        BY <2>3 DEF FeedRtp, FeedSingle, FeedStart, FeedStapA, FeedNothing
    <3>3. CASE b = <<>>
      <4>1. fuaBuf' = <<>> /\ fed' = fed
          BY <3>2, <3>3 DEF FeedContinuation, NoBuffer
      <4> QED BY <3>1, <3>3, <4>1
    <3>4. CASE b # <<>>
      <4>1. p.ts = fuaTs /\ more[1].ts = p.ts
          BY <1>5, <3>4
      <4>2. Age(p) = 0 /\ StaleAge \in Nat
          BY <1>1, <4>1, RtpAssumption, ParserAssumption DEF Age
      <4>3. ~(Age(p) > StaleAge)
          BY <4>2
      <4>4. /\ fuaTs' = fuaTs
            /\ p.end => /\ fed' = Append(fed, [packets |-> more, ts |-> fuaTs])
                        /\ fuaBuf' = <<>>
            /\ ~p.end => fuaBuf' = more /\ fed' = fed
          BY <3>2, <3>4, <4>3 DEF FeedContinuation, FeedNal, NoBuffer
      <4> HIDE DEF more
      <4> QED BY <3>1, <3>4, <4>1, <4>4
    <3> QED BY <3>3, <3>4
  <2> QED BY <1>1, <2>1, <2>2, <2>3 DEF Carries
<1>10. ParserInv'
  <2> HIDE DEF more, one
  <2>1. CASE b = <<>> /\ ~Begins(p) /\ fuaBuf' = <<>> /\ fed' = fed
    <3>1. Partial(<<>>)'
        BY NothingPartial, PTL
    <3>2. FedWhole'
        BY <1>2, <1>7, <2>1, FedKept
    <3>3. Partial(fuaBuf)'
        BY <2>1, <3>1
    <3> QED BY <1>1, <1>8, <2>1, <3>2, <3>3 DEF ParserInv
  <2>2. CASE /\ b # <<>> \/ Begins(p)
             /\ ~Ends(p)
             /\ fuaBuf' = more /\ fed' = fed /\ fuaTs' = more[1].ts
    <3>1. PICK ps : ps = more
        OBVIOUS
    <3>2. Partial(ps)
        BY <1>5, <1>6, <2>2, <3>1
    <3>3. Partial(ps)'
        BY <1>2, <3>2, PartialKept
    <3>4. Partial(fuaBuf)'
        BY <2>2, <3>1, <3>3
    <3>5. FedWhole'
        BY <1>2, <1>7, <2>2, FedKept
    <3>6. lastSeq' # -1 /\ lastSeq' \in 0..(SeqSize - 1)
        BY <1>1, <1>8
    <3> QED BY <2>2, <3>4, <3>5, <3>6 DEF ParserInv
  <2>3. CASE /\ b # <<>> \/ Begins(p)
             /\ Ends(p) /\ fuaBuf' = <<>>
             /\ fed' = Append(fed, [packets |-> more, ts |-> p.ts])
             /\ p.ts = more[1].ts
    <3>1. Partial(<<>>)'
        BY NothingPartial, PTL
    <3>2. Partial(fuaBuf)'
        BY <2>3, <3>1
    <3>3. Entire(more)
        BY <1>5, <1>6, <2>3
    <3>4. PICK ps, t : ps = more /\ t = p.ts
        OBVIOUS
    <3>5. Entire(ps) /\ t = ps[1].ts
        BY <2>3, <3>3, <3>4
    <3>6. fed' = Append(fed, [packets |-> ps, ts |-> t])
        BY <2>3, <3>4
    <3>7. FedWhole'
        BY <1>2, <1>7, <3>5, <3>6, FedMore
    <3> QED BY <1>1, <1>8, <2>3, <3>2, <3>7 DEF ParserInv
  <2> QED BY <1>9, <2>1, <2>2, <2>3
<1> QED BY <1>8, <1>9, <1>10

(***************************************************************************)
(* The parser, whatever packets arrive.                                    *)
(***************************************************************************)

\* One fed NAL unit, as FedFramed wants it.
Framed(ps) ==
    \/ Len(ps) = 1 /\ ps[1].kind # "fua"
    \/ \A i \in DOMAIN ps :
          /\ ps[i].kind = "fua"
          /\ ps[i].start <=> i = 1
          /\ ps[i].end <=> i = Len(ps)
          /\ i > 1 => (ps[i].ts - ps[1].ts) % TsSize <= StaleAge

\* A buffer that is on the way to it.
Framing(ps) ==
    /\ ps \in Seq(RtpPackets)
    /\ \A i \in 1..Len(ps) :
          /\ ps[i].kind = "fua"
          /\ ps[i].start <=> i = 1
          /\ ~ps[i].end
          /\ i > 1 => (ps[i].ts - ps[1].ts) % TsSize <= StaleAge

FramedInv ==
    /\ Framing(fuaBuf)
    /\ fuaBuf # <<>> => fuaTs = fuaBuf[1].ts
    /\ fed \in Seq([packets : Seq(RtpPackets), ts : 0..(TsSize - 1)])
    /\ \A k \in 1..Len(fed) :
          /\ fed[k].packets # <<>> /\ fed[k].ts = fed[k].packets[1].ts
          /\ Framed(fed[k].packets)

LEMMA FramedStarts == ParserInit => FramedInv
<1> SUFFICES ASSUME ParserInit PROVE FramedInv
    OBVIOUS
<1> DEFINE none == <<>>
<1>1. Len(none) = 0 /\ \A S : none \in Seq(S)
    OBVIOUS
<1>2. fuaBuf = none /\ fed = none
    BY DEF ParserInit, NoBuffer
<1> HIDE DEF none
<1>3. \A i \in 1..Len(none) : FALSE
    BY <1>1
<1> QED BY <1>1, <1>2, <1>3 DEF FramedInv, Framing, none

LEMMA NewParserFramed ==
    ASSUME FramedInv, fed' = fed, UNCHANGED <<fuaBuf, fuaTs>> \/ NewParser
    PROVE  FramedInv'
<1>1. CASE UNCHANGED <<fuaBuf, fuaTs>>
    BY <1>1 DEF FramedInv
<1>2. CASE NewParser
  <2> DEFINE none == <<>>
  <2>1. Len(none) = 0 /\ none \in Seq(RtpPackets)
      OBVIOUS
  <2>2. fuaBuf' = none
      BY <1>2 DEF NewParser, NoBuffer
  <2> HIDE DEF none
  <2>3. \A i \in 1..Len(none) : FALSE
      BY <2>1
  <2> QED BY <2>1, <2>2, <2>3 DEF FramedInv, Framing, none
<1> QED BY <1>1, <1>2

LEMMA FeedFramed ==
    ASSUME FramedInv, NEW p \in RtpPackets, FeedRtp(p)
    PROVE  FramedInv'
<1> DEFINE Unit == [packets : Seq(RtpPackets), ts : 0..(TsSize - 1)]
           Good(u) == /\ u.packets # <<>> /\ u.ts = u.packets[1].ts
                      /\ Framed(u.packets)
           none == <<>>
           one == <<p>>
           alone == [packets |-> one, ts |-> p.ts]
           b == AfterGapCheck(p)
           more == Append(b, p)
           n == Len(fed)
<1>1. /\ p.ts \in 0..(TsSize - 1) /\ p.from \in Nat /\ p.to \in Nat
      /\ p.kind \in {"single", "fua", "stapa", "other"}
      /\ p.start \in BOOLEAN /\ p.end \in BOOLEAN
    BY DEF RtpPackets
<1>2. /\ one \in Seq(RtpPackets) /\ Len(one) = 1 /\ one[1] = p /\ one # <<>>
      /\ DOMAIN one = 1..1
    OBVIOUS
<1>3. Framing(none)
  <2>1. Len(none) = 0 /\ none \in Seq(RtpPackets)
      OBVIOUS
  <2> HIDE DEF none
  <2>2. \A i \in 1..Len(none) : FALSE
      BY <2>1
  <2> QED BY <2>1, <2>2 DEF Framing
<1>4. Framing(b) /\ (b # <<>> => fuaTs = b[1].ts)
    BY <1>3 DEF FramedInv, AfterGapCheck, NoBuffer
<1>5. fed \in Seq(Unit) /\ n \in Nat /\ \A k \in 1..n : Good(fed[k])
    BY DEF FramedInv
<1>6. alone \in Unit /\ alone.packets = one /\ alone.ts = p.ts
    BY <1>1, <1>2
<1> HIDE DEF one, alone
<1>7. ASSUME p.kind # "fua" \/ (p.start /\ p.end) PROVE Good(alone)
  <2>1. \A i \in DOMAIN one : i = 1
      BY <1>2
  <2>2. Framed(one)
    <3>1. CASE p.kind # "fua"
        BY <1>2, <3>1 DEF Framed
    <3>2. CASE p.kind = "fua" /\ p.start /\ p.end
        BY <1>2, <2>1, <3>2 DEF Framed
    <3> QED BY <1>7, <3>1, <3>2
  <2> QED BY <1>2, <1>6, <2>2
<1>8. ASSUME NEW u \in Unit, Good(u), fed' = Append(fed, u)
      PROVE  fed' \in Seq(Unit) /\ \A k \in 1..Len(fed') : Good(fed'[k])
  <2> HIDE DEF Unit, Good
  <2>1. /\ fed' \in Seq(Unit) /\ Len(fed') = n + 1
        /\ \A k \in 1..n : fed'[k] = fed[k]
        /\ fed'[n + 1] = u
      BY <1>5, <1>8, AppendFacts
  <2>2. \A k \in 1..(n + 1) : k \in 1..n \/ k = n + 1
      BY <1>5
  <2> QED BY <1>5, <1>8, <2>1, <2>2
<1>9. ASSUME fed' \in Seq(Unit), \A k \in 1..Len(fed') : Good(fed'[k]),
             Framing(fuaBuf'), fuaBuf' # <<>> => fuaTs' = fuaBuf'[1].ts
      PROVE  FramedInv'
    BY <1>9 DEF FramedInv, Framing, Framed
<1>10. CASE FeedSingle(p)
  <2>1. fed' = Append(fed, alone) /\ fuaBuf' = b /\ fuaTs' = fuaTs
        /\ p.kind # "fua"
      BY <1>10 DEF FeedSingle, FeedNal, alone, one
  <2>2. Good(alone)
      BY <1>7, <2>1
  <2> HIDE DEF Good, Unit, b
  <2> QED BY <1>4, <1>6, <1>8, <1>9, <2>1, <2>2
<1>11. CASE FeedStart(p)
  <2>1. CASE fuaBuf' = b /\ UNCHANGED <<fuaTs, fed>>
    <3> HIDE DEF b
    <3> QED BY <1>4, <1>5, <1>9, <2>1
  <2>2. CASE ~(fuaBuf' = b /\ UNCHANGED <<fuaTs, fed>>)
    <3>1. /\ fuaTs' = p.ts /\ p.kind = "fua" /\ p.start
          /\ \/ p.end /\ fed' = Append(fed, alone) /\ fuaBuf' = none
             \/ ~p.end /\ fuaBuf' = one /\ fed' = fed
        BY <1>11, <2>2 DEF FeedStart, FeedNal, NoBuffer, alone, one
    <3>2. CASE p.end /\ fed' = Append(fed, alone) /\ fuaBuf' = none
      <4>1. Good(alone)
          BY <1>7, <3>1, <3>2
      <4> HIDE DEF Good, Unit
      <4> QED BY <1>3, <1>6, <1>8, <1>9, <3>2, <4>1
    <3>3. CASE ~p.end /\ fuaBuf' = one /\ fed' = fed
      <4>1. \A i \in 1..1 : i = 1
          OBVIOUS
      <4>2. Framing(one)
          BY <1>2, <3>1, <3>3, <4>1 DEF Framing
      <4> QED BY <1>2, <1>5, <1>9, <3>1, <3>3, <4>2
    <3> QED BY <3>1, <3>2, <3>3
  <2> QED BY <2>1, <2>2
<1>12. CASE FeedContinuation(p)
  <2>1. p.kind = "fua" /\ ~p.start /\ fuaTs' = fuaTs
      BY <1>12 DEF FeedContinuation
  <2>2. CASE fuaBuf' = none /\ fed' = fed
      BY <1>3, <1>5, <1>9, <2>2
  <2>3. CASE ~(fuaBuf' = none /\ fed' = fed)
    <3>1. /\ b # <<>> /\ Age(p) <= StaleAge
          /\ \/ /\ p.end /\ fuaBuf' = none
                /\ fed' = Append(fed, [packets |-> more, ts |-> fuaTs])
             \/ ~p.end /\ fuaBuf' = more /\ fed' = fed
        BY <1>12, <2>3 DEF FeedContinuation, FeedNal, NoBuffer
    <3> DEFINE m == Len(b)
    <3> HIDE DEF b
    <3>2. b \in Seq(RtpPackets) /\ m \in Nat /\ m >= 1 /\ 1 \in 1..m
      <4>1. b \in Seq(RtpPackets)
          BY <1>4 DEF Framing
      <4> QED BY <3>1, <4>1
    <3>3. /\ more \in Seq(RtpPackets) /\ Len(more) = m + 1 /\ more # <<>>
          /\ \A i \in 1..m : more[i] = b[i]
          /\ more[m + 1] = p
        BY <3>2, AppendFacts
    <3> HIDE DEF more, m
    <3>4. more[1] = b[1] /\ more[1].ts = fuaTs
        BY <1>4, <3>1, <3>2, <3>3
    <3>5. (p.ts - more[1].ts) % TsSize <= StaleAge
        BY <3>1, <3>4 DEF Age
    <3>6. \A i \in 1..(m + 1) : i = m + 1 \/ (i \in 1..m /\ i # m + 1)
        BY <3>2
    <3>7. \A i \in 1..m :
            /\ b[i].kind = "fua"
            /\ b[i].start <=> i = 1
            /\ ~b[i].end
            /\ i > 1 => (b[i].ts - b[1].ts) % TsSize <= StaleAge
        BY <1>4 DEF Framing, m
    <3>8. \A i \in 1..(m + 1) :
            /\ more[i].kind = "fua"
            /\ more[i].start <=> i = 1
            /\ more[i].end => i = m + 1
            /\ i = m + 1 => more[i] = p
            /\ i > 1 => (more[i].ts - more[1].ts) % TsSize <= StaleAge
      <4> SUFFICES ASSUME NEW i \in 1..(m + 1)
                   PROVE  /\ more[i].kind = "fua"
                          /\ more[i].start <=> i = 1
                          /\ more[i].end => i = m + 1
                          /\ i = m + 1 => more[i] = p
                          /\ i > 1 => (more[i].ts - more[1].ts) % TsSize <= StaleAge
          OBVIOUS
      <4>1. CASE i = m + 1
        <5>1. i # 1
            BY <3>2, <4>1
        <5> QED BY <2>1, <3>3, <3>5, <4>1, <5>1
      <4>2. CASE i \in 1..m /\ i # m + 1
          BY <3>3, <3>4, <3>7, <4>2
      <4> QED BY <3>6, <4>1, <4>2
    <3>9. CASE /\ p.end /\ fuaBuf' = none
               /\ fed' = Append(fed, [packets |-> more, ts |-> fuaTs])
      <4> DEFINE u == [packets |-> more, ts |-> fuaTs]
      <4>1. fuaTs \in 0..(TsSize - 1)
        <5>1. b[1] \in RtpPackets
            BY <3>2 DEF m
        <5> QED BY <1>4, <3>1, <5>1 DEF RtpPackets
      <4>2. u \in Unit /\ u.packets = more /\ u.ts = fuaTs
          BY <3>3, <4>1
      <4> HIDE DEF u, Unit
      <4>3. DOMAIN more = 1..(m + 1)
          BY <3>3
      <4>4. Framed(more)
          BY <3>3, <3>8, <3>9, <4>3 DEF Framed
      <4>5. Good(u)
          BY <3>3, <3>4, <4>2, <4>4
      <4>6. fed' = Append(fed, u)
          BY <3>9 DEF u
      <4> HIDE DEF Good
      <4> QED BY <1>3, <1>8, <1>9, <3>9, <4>2, <4>5, <4>6
    <3>10. CASE ~p.end /\ fuaBuf' = more /\ fed' = fed
      <4>1. Framing(more)
          BY <3>3, <3>8, <3>10 DEF Framing
      <4> QED BY <1>5, <1>9, <2>1, <3>4, <3>10, <4>1
    <3> QED BY <3>1, <3>9, <3>10
  <2> QED BY <2>2, <2>3
<1>13. CASE FeedStapA(p)
  <2> DEFINE c == p.to - p.from
             units == [i \in 1..c |-> [packets |-> <<p>>, ts |-> p.ts]]
  <2>1. fed' = fed \o units /\ fuaBuf' = b /\ fuaTs' = fuaTs /\ p.kind # "fua"
      BY <1>13 DEF FeedStapA
  <2>2. Good(alone)
      BY <1>7, <2>1
  <2>3. units = [i \in 1..c |-> alone]
      BY DEF alone, one
  <2>4. c \in Int
      BY <1>1
  <2> HIDE DEF units, c, Unit, Good
  <2>5. units \in Seq(Unit) /\ \A i \in 1..Len(units) : units[i] = alone
    <3>1. CASE c >= 0
      <4>1. units \in Seq(Unit) /\ Len(units) = c
          BY <1>6, <2>3, <2>4, <3>1
      <4> QED BY <2>3, <4>1
    <3>2. CASE c < 0
      <4>1. 1..c = 1..0
          BY <2>4, <3>2
      <4>2. units = [i \in 1..0 |-> alone]
          BY <2>3, <4>1
      <4>3. \A e \in Unit : /\ [i \in 1..0 |-> e] \in Seq(Unit)
                            /\ Len([i \in 1..0 |-> e]) = 0
          OBVIOUS
      <4>4. units \in Seq(Unit) /\ Len(units) = 0
          BY <1>6, <4>2, <4>3
      <4> QED BY <4>4
    <3> QED BY <2>4, <3>1, <3>2
  <2>6. Len(units) \in Nat
      BY <2>5
  <2> DEFINE m == Len(units)
  <2>7. /\ fed' \in Seq(Unit) /\ Len(fed') = n + m
        /\ \A k \in 1..n : fed'[k] = fed[k]
        /\ \A k \in (n + 1)..(n + m) : fed'[k] = units[k - n]
      BY <1>5, <2>1, <2>5, JoinFacts
  <2> HIDE DEF m
  <2>8. \A k \in 1..(n + m) : k \in 1..n \/ (k \in (n + 1)..(n + m) /\ k - n \in 1..m)
      BY <1>5, <2>6 DEF m
  <2>9. \A k \in 1..Len(fed') : Good(fed'[k])
    <3>1. \A i \in 1..m : Good(units[i])
        BY <2>2, <2>5 DEF m
    <3> SUFFICES ASSUME NEW k \in 1..(n + m) PROVE Good(fed'[k])
        BY <2>7
    <3>2. CASE k \in 1..n
        BY <1>5, <2>7, <3>2
    <3>3. CASE k \in (n + 1)..(n + m) /\ k - n \in 1..m
        BY <2>7, <3>1, <3>3
    <3> QED BY <2>8, <3>2, <3>3
  <2> HIDE DEF b
  <2> QED BY <1>4, <1>9, <2>1, <2>7, <2>9 DEF Unit, Good
<1>14. CASE FeedNothing(p)
  <2>1. fuaBuf' = b /\ fuaTs' = fuaTs /\ fed' = fed
      BY <1>14 DEF FeedNothing
  <2> HIDE DEF b
  <2> QED BY <1>4, <1>5, <1>9, <2>1
<1> QED BY <1>10, <1>11, <1>12, <1>13, <1>14 DEF FeedRtp

(***************************************************************************)
(* RtpLossy: packets lost, repeated and reordered, or from any sender.     *)
(***************************************************************************)

LossyBase == PacketizerInv /\ FramedInv /\ history \in Seq(RtpPackets)

LEMMA LossyBaseStarts == LossyInit => LossyBase
<1> SUFFICES ASSUME LossyInit PROVE LossyBase
    OBVIOUS
<1>1. PacketizerInit /\ ParserInit /\ history = <<>>
    BY DEF LossyInit
<1> QED BY <1>1, PacketizerStarts, FramedStarts DEF LossyBase

LEMMA LossyBaseKept ==
    ASSUME LossyBase, [LossyNext]_lossyVars
    PROVE  LossyBase'
<1>1. PacketizerInv /\ FramedInv /\ history \in Seq(RtpPackets)
    BY DEF LossyBase
<1>2. CASE Send
  <2>1. PacketizerNext /\ history' = history \o out' /\ UNCHANGED <<fuaBuf, fuaTs, fed>>
      BY <1>2 DEF Send, parserVars
  <2>2. PacketizerInv'
      BY <1>1, <2>1, PacketizerKeeps
  <2>3. out' \in Seq(RtpPackets)
      BY <2>2 DEF PacketizerInv
  <2>4. history' \in Seq(RtpPackets)
      BY <1>1, <2>1, <2>3
  <2>5. FramedInv'
      BY <1>1, <2>1, NewParserFramed
  <2> QED BY <2>2, <2>4, <2>5 DEF LossyBase
<1>3. CASE Arrive
  <2>1. PICK i \in DOMAIN history : FeedRtp(history[i])
      BY <1>3 DEF Arrive
  <2>2. PICK p : p = history[i]
      OBVIOUS
  <2>3. p \in RtpPackets
      BY <1>1, <2>2
  <2>4. FramedInv'
      BY <1>1, <2>1, <2>2, <2>3, FeedFramed
  <2>5. PacketizerInv' /\ history' = history
      BY <1>1, <1>3, PacketizerStays DEF Arrive
  <2> QED BY <1>1, <2>4, <2>5 DEF LossyBase
<1>4. CASE AnyPacket
  <2>1. PICK p \in Packets : FeedRtp(p)
      BY <1>4 DEF AnyPacket, ParserNext
  <2>2. p \in RtpPackets
      BY ParserAssumption
  <2>3. FramedInv'
      BY <1>1, <2>1, <2>2, FeedFramed
  <2>4. PacketizerInv' /\ history' = history
      BY <1>1, <1>4, PacketizerStays DEF AnyPacket
  <2> QED BY <1>1, <2>3, <2>4 DEF LossyBase
<1>5. CASE UNCHANGED lossyVars
  <2>1. UNCHANGED packetizerVars /\ UNCHANGED parserVars /\ history' = history
      BY <1>5 DEF lossyVars
  <2>2. UNCHANGED <<fuaBuf, fuaTs, fed>>
      BY <2>1 DEF parserVars
  <2>3. FramedInv'
      BY <1>1, <2>2, NewParserFramed
  <2>4. PacketizerInv'
      BY <1>1, <2>1, PacketizerStays
  <2> QED BY <1>1, <2>1, <2>3, <2>4 DEF LossyBase
<1> QED BY <1>2, <1>3, <1>4, <1>5 DEF LossyNext

\* Whatever packets arrive, in whatever order, from this packetizer or from any
\* sender, feed_rtp gives feed_nal only single packets and what runs from a
\* start to an end fragment, all timestamped within StaleAge.
THEOREM LossyFramed == LossySpec => []FedFramed
<1>1. FramedInv => FedFramed
  <2> SUFFICES ASSUME FramedInv PROVE FedFramed
      OBVIOUS
  <2>1. DOMAIN fed = 1..Len(fed)
      BY DEF FramedInv
  <2>2. \A k \in DOMAIN fed :
          /\ fed[k].packets # <<>> /\ fed[k].ts = fed[k].packets[1].ts
          /\ Framed(fed[k].packets)
      BY <2>1 DEF FramedInv
  <2> QED BY <2>2 DEF FedFramed, Framed
<1>2. LossyBase => FramedInv
    BY DEF LossyBase
<1>3. LossyInit => LossyBase
    BY LossyBaseStarts
<1>4. LossyBase /\ [LossyNext]_lossyVars => LossyBase'
    BY LossyBaseKept
<1> QED BY <1>1, <1>2, <1>3, <1>4, PTL DEF LossySpec

\* Counting on from a number that was counted modulo SeqSize.
LEMMA CountOn ==
    ASSUME NEW a \in Int, NEW i \in Int
    PROVE  ((a % SeqSize) + i) % SeqSize = (a + i) % SeqSize
<1> DEFINE m == SeqSize
<1>1. m \in Nat \ {0}
    BY RtpAssumption
<1> HIDE DEF m
<1>2. PICK r \in 0..(m - 1), q \in Int : r = a % m /\ a = m * q + r
    BY <1>1, Division
<1>3. r + i \in Int
    BY <1>1
<1>4. PICK s \in 0..(m - 1), u \in Int : s = (r + i) % m /\ r + i = m * u + s
    BY <1>1, <1>3, Division
<1>5. a + i = m * (q + u) + s /\ q + u \in Int
  <2>1. m * (q + u) = m * q + m * u /\ m * q \in Int /\ m * u \in Int
      BY <1>1
  <2> QED BY <1>2, <1>4, <2>1
<1>6. (a + i) % m = s
    BY <1>1, <1>5, Remainder
<1> QED BY <1>2, <1>4, <1>6 DEF m

\* Less than half a cycle apart, numbers without a gap are those of neighbours.
LEMMA NoGapNext ==
    ASSUME NEW a \in Nat, NEW b \in Nat, b - a \in (-Window)..Window,
           ((b % SeqSize) - (a % SeqSize)) % SeqSize = 1
    PROVE  b = a + 1
<1> DEFINE m == SeqSize
           w == Window
<1>1. m \in Nat /\ m > 2
    BY RtpAssumption
<1>2. w \in Nat /\ w < m - 1 /\ b - a >= -w /\ b - a <= w
    BY <1>1 DEF Window
<1>0. ((b % m) - (a % m)) % m = 1
    OBVIOUS
<1> HIDE DEF m, w
<1>3. m \in Nat \ {0} /\ a \in Int /\ b \in Int
    BY <1>1
<1>4. PICK r \in 0..(m - 1), q \in Int : r = a % m /\ a = m * q + r
  <2>1. a % m \in 0..(m - 1) /\ \E q \in Int : a = m * q + (a % m)
      BY ONLY <1>3, Division
  <2> QED BY ONLY <2>1
<1>5. PICK s \in 0..(m - 1), u \in Int : s = b % m /\ b = m * u + s
  <2>1. b % m \in 0..(m - 1) /\ \E t \in Int : b = m * t + (b % m)
      BY ONLY <1>3, Division
  <2> QED BY ONLY <2>1
<1>6. (s - r) % m = 1 /\ s - r \in Int
    BY <1>0, <1>1, <1>4, <1>5
<1>7. PICK v \in Int : s - r = m * v + 1
  <2>1. PICK d \in Int : d = s - r
      BY <1>6
  <2>2. \E v \in Int : d = m * v + (d % m)
      BY <1>3, Division
  <2> QED BY <1>6, <2>1, <2>2
<1>8. PICK x \in Int : x = u - q + v
    OBVIOUS
<1>9. b - a = m * x + 1
  <2>1. m * x = m * u - m * q + m * v
      BY <1>1, <1>8
  <2>2. m * u \in Int /\ m * q \in Int /\ m * v \in Int
      BY <1>1
  <2> QED BY <1>4, <1>5, <1>7, <2>1, <2>2
<1>10. CASE x = 0
    BY <1>1, <1>9, <1>10
<1>11. CASE x >= 1
  <2>1. m * x >= m
      BY <1>1, <1>11
  <2> QED BY <1>1, <1>2, <1>9, <2>1
<1>12. CASE x <= -1
  <2>1. m * x <= -m
      BY <1>1, <1>12
  <2> QED BY <1>1, <1>2, <1>9, <2>1
<1> QED BY <1>8, <1>10, <1>11, <1>12

\* What the parser holds, while the packets are the packetizer's: nothing, or
\* fragments up to the packet that arrived last.
HeardInv ==
    /\ PacketizerInv /\ ParserInv
    /\ history \in Seq(RtpPackets) /\ last \in 0..Len(history)
    /\ \A i \in 1..Len(history) : /\ Genuine(history[i])
                                  /\ history[i].seq = (i - 1) % SeqSize
    /\ Chain(history)
    /\ sequence = Len(history) % SeqSize
    /\ history # <<>> => /\ Ends(history[Len(history)])
                         /\ history[Len(history)].nal = Len(given)
    /\ history = <<>> => given = <<>>
    /\ last = 0 => lastSeq = -1
    /\ last # 0 => lastSeq = history[last].seq
    /\ fuaBuf # <<>> => last # 0 /\ fuaBuf[Len(fuaBuf)] = history[last]

LEMMA HeardStarts == LossyInit => HeardInv
<1> SUFFICES ASSUME LossyInit PROVE HeardInv
    OBVIOUS
<1> DEFINE none == <<>>
<1>1. Len(none) = 0 /\ \A S : none \in Seq(S)
    OBVIOUS
<1>2. /\ history = none /\ last = 0 /\ given = none /\ sequence = 0
      /\ lastSeq = -1 /\ fuaBuf = none /\ fed = none
    BY DEF LossyInit, PacketizerInit, ParserInit, NoBuffer
<1>3. PacketizerInv
    BY PacketizerStarts DEF LossyInit
<1>4. Partial(none)
    BY NothingPartial
<1> HIDE DEF none
<1>5. \A i \in 1..Len(none) : FALSE
    BY <1>1
<1>6. \A i \in 1..(Len(none) - 1) : FALSE
    BY <1>1
<1>7. FedWhole
    BY <1>1, <1>2, <1>5 DEF FedWhole
<1>8. ParserInv
    BY <1>2, <1>4, <1>7 DEF ParserInv, none
<1>9. Chain(history)
    BY <1>2, <1>6 DEF Chain
<1>10. 0 % SeqSize = 0
    BY RtpAssumption
<1> QED BY <1>1, <1>2, <1>3, <1>5, <1>8, <1>9, <1>10 DEF HeardInv, none

LEMMA HeardSend ==
    ASSUME HeardInv, Send
    PROVE  HeardInv'
<1> DEFINE m == Len(history)
           n == Len(out')
<1>1. /\ PacketizerInv /\ ParserInv /\ history \in Seq(RtpPackets) /\ m \in Nat
      /\ last \in 0..m
      /\ \A i \in 1..m : Genuine(history[i]) /\ history[i].seq = (i - 1) % SeqSize
      /\ Chain(history)
      /\ sequence = m % SeqSize
      /\ history # <<>> => /\ Ends(history[m]) /\ history[m].nal = Len(given)
      /\ history = <<>> => given = <<>>
    BY DEF HeardInv
<1>2. /\ PacketizerNext /\ history' = history \o out' /\ last' = last
      /\ UNCHANGED <<lastSeq, fuaBuf, fuaTs>> /\ fed' = fed
    BY DEF Send, parserVars
<1>3. /\ PacketizerInv'
      /\ Len(given') >= Len(given)
      /\ \A k \in 1..Len(given) : given'[k] = given[k]
      /\ out' # <<>> => /\ out'[1].seq = sequence
                        /\ out'[1].nal = Len(given) + 1 /\ Begins(out'[1])
      /\ out' = <<>> => given' = given /\ sequence' = sequence
      /\ sequence' = (sequence + n) % SeqSize
      /\ \A i \in 1..n : out'[i].seq = (sequence + (i - 1)) % SeqSize
    BY <1>1, <1>2, PacketizerKeeps
<1>4. Grows
  <2>1. given \in Seq(Sizes) /\ given' \in Seq(Sizes)
      BY <1>1, <1>3 DEF PacketizerInv
  <2> QED BY <1>3, <2>1 DEF Grows
<1>5. ParserInv'
    BY <1>1, <1>2, <1>4, ParserKept
<1>6. out' \in Seq(RtpPackets) /\ n \in Nat
  <2>1. out' \in Seq(RtpPackets)
      BY <1>3 DEF PacketizerInv
  <2> QED BY <2>1
<1>7. /\ history' \in Seq(RtpPackets) /\ Len(history') = m + n
      /\ \A i \in 1..m : history'[i] = history[i]
      /\ \A i \in (m + 1)..(m + n) : history'[i] = out'[i - m]
    BY <1>1, <1>2, <1>6, JoinFacts
<1>8. \A i \in 1..(m + n) : i \in 1..m \/ (i \in (m + 1)..(m + n) /\ i - m \in 1..n)
    BY <1>1, <1>6
<1>9. ASSUME NEW i \in 1..(m + n)
      PROVE  Genuine(history[i])' /\ history'[i].seq = (i - 1) % SeqSize
  <2>1. PICK p : p = history'[i]
      OBVIOUS
  <2>2. CASE i \in 1..m
    <3>1. p = history[i] /\ Genuine(p)
        BY <1>1, <1>7, <2>1, <2>2
    <3>2. Genuine(p)'
        BY <1>4, <3>1, GenuineKept
    <3>3. Genuine(history[i])'
        BY <2>1, <3>2
    <3> QED BY <1>1, <2>1, <2>2, <3>1, <3>3
  <2>3. CASE i \in (m + 1)..(m + n) /\ i - m \in 1..n
    <3>1. PICK k \in 1..n : k = i - m
        BY <2>3
    <3>2. p = out'[k] /\ Genuine(out[k])'
        BY <1>3, <1>7, <2>1, <2>3, <3>1 DEF PacketizerInv
    <3>3. Genuine(p)'
        BY <3>2
    <3>4. p.seq = (sequence + (k - 1)) % SeqSize
        BY <1>3, <3>2
    <3>5. ((m % SeqSize) + (k - 1)) % SeqSize = (m + (k - 1)) % SeqSize
      <4>1. m \in Int /\ k - 1 \in Int
          BY <1>1, <1>6
      <4> HIDE DEF m
      <4> QED BY <4>1, CountOn
    <3>6. m + (k - 1) = i - 1
        BY <1>1, <1>6, <3>1
    <3>7. Genuine(history[i])'
        BY <2>1, <3>3
    <3> QED BY <1>1, <2>1, <3>4, <3>5, <3>6, <3>7
  <2> QED BY <1>8, <2>2, <2>3
<1>10. sequence' = (m + n) % SeqSize
  <2>1. m \in Int /\ n \in Int
      BY <1>1, <1>6
  <2>2. ((m % SeqSize) + n) % SeqSize = (m + n) % SeqSize
    <3> HIDE DEF m, n
    <3> QED BY <2>1, CountOn
  <2> QED BY <1>1, <1>3, <2>2
<1>11. ASSUME out' # <<>>
       PROVE  Ends(out'[n]) /\ out'[n].nal = Len(given') /\ n \in 1..n
  <2>1. FrameWhole' /\ n # 0
      BY <1>3, <1>6, <1>11 DEF PacketizerInv
  <2>2. Last(out)' = out'[n]
      BY DEF Last
  <2>3. Ends(Last(out)') /\ Last(out)'.nal = Len(given')
      BY <1>11, <2>1 DEF FrameWhole
  <2> QED BY <1>6, <2>1, <2>2, <2>3
<1>12. Chain(out')
  <2>1. out' # <<>> => \A i \in 1..(n - 1) : Follows(out'[i], out'[i + 1])
      BY <1>3 DEF PacketizerInv, FrameWhole
  <2>2. out' = <<>> => \A i \in 1..(n - 1) : FALSE
      BY <1>6
  <2> QED BY <2>1, <2>2 DEF Chain
<1>13. Chain(history \o out')
  <2>1. ASSUME history # <<>>, out' # <<>>
        PROVE  Follows(history[m], out'[1])
    <3>1. m \in 1..m /\ history[m].seq = (m - 1) % SeqSize
      <4>1. m \in 1..m
          BY <1>1, <2>1
      <4> QED BY <1>1, <4>1
    <3>2. out'[1].seq = (history[m].seq + 1) % SeqSize
      <4>1. (((m - 1) % SeqSize) + 1) % SeqSize = ((m - 1) + 1) % SeqSize
        <5>1. m - 1 \in Int
            BY <1>1
        <5> HIDE DEF m
        <5> QED BY <5>1, CountOn
      <4>2. (m - 1) + 1 = m
          BY <1>1
      <4> QED BY <1>1, <1>3, <2>1, <3>1, <4>1, <4>2
    <3> QED BY <1>1, <1>3, <2>1, <3>2 DEF Follows
  <2> QED BY <1>1, <1>6, <1>12, <2>1, JoinChains
<1>14. /\ history' # <<>> => /\ Ends(history'[m + n])
                             /\ history'[m + n].nal = Len(given')
       /\ history' = <<>> => given' = <<>>
  <2>1. CASE out' = <<>>
    <3>1. history' = history /\ given' = given /\ n = 0 /\ m + n = m
        BY <1>1, <1>2, <1>3, <2>1
    <3> QED BY <1>1, <3>1
  <2>2. CASE out' # <<>>
    <3>1. n \in 1..n /\ m + n \in (m + 1)..(m + n) /\ (m + n) - m = n /\ m + n # 0
        BY <1>1, <1>6, <1>11, <2>2
    <3>2. history' # <<>>
        BY <1>7, <3>1
    <3>3. history'[m + n] = out'[n]
        BY <1>7, <3>1
    <3> QED BY <1>11, <2>2, <3>2, <3>3
  <2> QED BY <2>1, <2>2
<1>15. last' \in 0..(m + n)
    BY <1>1, <1>2, <1>6
<1>16. /\ last' = 0 => lastSeq' = -1
       /\ last' # 0 => lastSeq' = history'[last'].seq
       /\ fuaBuf' # <<>> => last' # 0 /\ fuaBuf'[Len(fuaBuf')] = history'[last']
  <2>1. last # 0 => history'[last] = history[last]
      BY <1>1, <1>7
  <2> QED BY <1>2, <2>1 DEF HeardInv
<1>17. Chain(history)'
    BY <1>2, <1>13 DEF Chain
<1>18. \A i \in 1..Len(history') : /\ Genuine(history[i])'
                                   /\ history'[i].seq = (i - 1) % SeqSize
    BY <1>7, <1>9
<1> HIDE DEF m, n
<1> QED BY <1>3, <1>5, <1>7, <1>10, <1>14, <1>15, <1>16, <1>17, <1>18 DEF HeardInv

LEMMA HeardArrive ==
    ASSUME HeardInv, Arrive
    PROVE  HeardInv'
<1>1. /\ PacketizerInv /\ ParserInv /\ history \in Seq(RtpPackets)
      /\ last \in 0..Len(history)
      /\ \A i \in 1..Len(history) : /\ Genuine(history[i])
                                    /\ history[i].seq = (i - 1) % SeqSize
      /\ Chain(history)
      /\ last = 0 => lastSeq = -1
      /\ last # 0 => lastSeq = history[last].seq
      /\ fuaBuf # <<>> => last # 0 /\ fuaBuf[Len(fuaBuf)] = history[last]
    BY DEF HeardInv
<1>2. PICK i \in DOMAIN history : /\ last = 0 \/ i - last \in (-Window)..Window
                                  /\ FeedRtp(history[i]) /\ last' = i
    BY DEF Arrive
<1>3. UNCHANGED packetizerVars /\ history' = history
    BY DEF Arrive
<1>4. UNCHANGED <<given, sequence>>
    BY <1>3 DEF packetizerVars
<1>5. i \in 1..Len(history) /\ Len(history) \in Nat
    BY <1>1, <1>2
<1>6. PICK p : p = history[i]
    OBVIOUS
<1>7. Genuine(p) /\ p.seq = (i - 1) % SeqSize /\ FeedRtp(p)
    BY <1>1, <1>2, <1>5, <1>6
<1>8. PICK b : b = AfterGapCheck(p)
    OBVIOUS
<1>9. ASSUME b # <<>> PROVE Follows(b[Len(b)], p)
  <2>1. /\ b = fuaBuf
        /\ lastSeq >= 0 => (p.seq - lastSeq) % SeqSize = 1
      BY <1>8, <1>9 DEF AfterGapCheck, NoBuffer
  <2>2. last # 0 /\ b[Len(b)] = history[last]
      BY <1>1, <1>9, <2>1
  <2>3. last \in 1..Len(history)
      BY <1>1, <1>5, <2>2
  <2>4. lastSeq = (last - 1) % SeqSize
      BY <1>1, <2>2, <2>3
  <2>5. SeqSize \in Nat \ {0} /\ last - 1 \in Nat /\ i - 1 \in Nat
      BY <1>5, <2>3, RtpAssumption
  <2>6. lastSeq >= 0
    <3>1. last - 1 \in Int
        BY <2>5
    <3>2. (last - 1) % SeqSize \in 0..(SeqSize - 1)
        BY <3>1, SeqSteps
    <3> QED BY <2>4, <2>5, <3>2
  <2>7. (((i - 1) % SeqSize) - ((last - 1) % SeqSize)) % SeqSize = 1
      BY <1>7, <2>1, <2>4, <2>6
  <2>8. (i - 1) - (last - 1) \in (-Window)..Window
    <3>1. (i - 1) - (last - 1) = i - last
        BY <1>5, <2>3
    <3> QED BY <1>2, <2>2, <3>1
  <2>9. i - 1 = (last - 1) + 1
      BY <2>5, <2>7, <2>8, NoGapNext
  <2>10. i = last + 1 /\ last \in 1..(Len(history) - 1)
      BY <1>5, <2>3, <2>9
  <2>11. Follows(history[last], history[last + 1])
      BY <1>1, <2>10 DEF Chain
  <2> QED BY <1>6, <2>2, <2>10, <2>11
<1>10. /\ ParserInv'
       /\ lastSeq' = p.seq
       /\ fuaBuf' = <<>> \/ fuaBuf' = Append(b, p)
  <2>1. given \in Seq(Sizes)
      BY <1>1 DEF PacketizerInv
  <2> QED BY <1>1, <1>4, <1>7, <1>8, <1>9, <2>1, FeedGenuine
<1>11. fuaBuf' # <<>> => fuaBuf'[Len(fuaBuf')] = p
  <2>1. b = <<>> \/ b = fuaBuf
      BY <1>8 DEF AfterGapCheck, NoBuffer
  <2>2. b \in Seq(RtpPackets) /\ p \in RtpPackets
    <3>1. fuaBuf \in Seq(RtpPackets) /\ p \in RtpPackets
        BY <1>1, <1>7 DEF ParserInv, Partial, Genuine
    <3>2. <<>> \in Seq(RtpPackets)
        OBVIOUS
    <3> QED BY <2>1, <3>1, <3>2
  <2>3. Append(b, p)[Len(Append(b, p))] = p
      BY <2>2
  <2> QED BY <1>10, <2>3
<1>12. PacketizerInv'
    BY <1>1, <1>3, PacketizerStays
<1>13. \A k \in 1..Len(history') : /\ Genuine(history[k])'
                                   /\ history'[k].seq = (k - 1) % SeqSize
    BY <1>1, <1>3, <1>4 DEF Genuine, Carries
<1>14. Chain(history)'
    BY <1>1, <1>3 DEF Chain, Follows, Begins, Ends
<1>15. last' \in 0..Len(history') /\ last' # 0 /\ lastSeq' = history'[last'].seq
       /\ history'[last'] = p
    BY <1>2, <1>3, <1>5, <1>6, <1>10
<1>16. /\ sequence' = Len(history') % SeqSize
       /\ history' # <<>> => /\ Ends(history'[Len(history')])
                             /\ history'[Len(history')].nal = Len(given')
       /\ history' = <<>> => given' = <<>>
    BY <1>3, <1>4 DEF HeardInv
<1> QED BY <1>1, <1>3, <1>10, <1>11, <1>12, <1>13, <1>14, <1>15, <1>16 DEF HeardInv

LEMMA HeardKept ==
    ASSUME sender = "packetizer" => HeardInv, [LossyNext]_lossyVars
    PROVE  (sender = "packetizer" => HeardInv)'
<1> SUFFICES ASSUME sender' = "packetizer" PROVE HeardInv'
    OBVIOUS
<1>1. sender' = sender
    BY DEF LossyNext, Send, Arrive, AnyPacket, lossyVars
<1>2. HeardInv /\ sender = "packetizer"
    BY <1>1
<1>3. CASE Send
    BY <1>2, <1>3, HeardSend
<1>4. CASE Arrive
    BY <1>2, <1>4, HeardArrive
<1>5. CASE AnyPacket
    BY <1>2, <1>5 DEF AnyPacket
<1>6. CASE UNCHANGED lossyVars
  <2>1. UNCHANGED packetizerVars /\ UNCHANGED parserVars /\ UNCHANGED <<history, last>>
      BY <1>6 DEF lossyVars
  <2>2. UNCHANGED <<lastSeq, fuaBuf, fuaTs>> /\ fed' = fed
      BY <2>1 DEF parserVars
  <2>3. UNCHANGED <<given, sequence>>
      BY <2>1 DEF packetizerVars
  <2>4. PacketizerInv'
      BY <1>2, <2>1, PacketizerStays DEF HeardInv
  <2>5. Grows
    <3>1. given \in Seq(Sizes)
        BY <1>2 DEF HeardInv, PacketizerInv
    <3> QED BY <2>3, <3>1 DEF Grows
  <2>6. ParserInv'
      BY <1>2, <2>2, <2>5, ParserKept DEF HeardInv
  <2>7. \A k \in 1..Len(history') : /\ Genuine(history[k])'
                                    /\ history'[k].seq = (k - 1) % SeqSize
      BY <1>2, <2>1, <2>3 DEF HeardInv, Genuine, Carries
  <2>8. Chain(history)'
      BY <1>2, <2>1 DEF HeardInv, Chain, Follows, Begins, Ends
  <2> QED BY <1>2, <2>1, <2>2, <2>3, <2>4, <2>6, <2>7, <2>8 DEF HeardInv
<1> QED BY <1>3, <1>4, <1>5, <1>6 DEF LossyNext

\* Behind a network that loses, repeats and reorders less than half a sequence
\* number cycle apart, whatever feed_rtp gives to feed_nal is a NAL unit of the
\* packetizer with all its bytes in order.
THEOREM OnlyWholeHeard == LossySpec => []OnlyWholeNals
<1>1. (sender = "packetizer" => HeardInv) => OnlyWholeNals
  <2> SUFFICES ASSUME HeardInv PROVE OnlyWholeNals
      BY DEF OnlyWholeNals
  <2>1. /\ DOMAIN fed = 1..Len(fed)
        /\ \A k \in 1..Len(fed) : Entire(fed[k].packets)
      BY DEF HeardInv, ParserInv, FedWhole
  <2>2. ASSUME NEW k \in DOMAIN fed
        PROVE  /\ \A i \in DOMAIN fed[k].packets :
                     fed[k].packets[i].nal = fed[k].packets[1].nal
               /\ CarryWhole(fed[k].packets, given[fed[k].packets[1].nal])
      BY <2>1 DEF Entire
  <2> QED BY <2>2 DEF OnlyWholeNals
<1>2. LossyInit => (sender = "packetizer" => HeardInv)
    BY HeardStarts
<1>3. (sender = "packetizer" => HeardInv) /\ [LossyNext]_lossyVars
         => (sender = "packetizer" => HeardInv)'
    BY HeardKept
<1> QED BY <1>1, <1>2, <1>3, PTL DEF LossySpec

(***************************************************************************)
(* RtpPath: what is in flight, and what the parser waits for.              *)
(***************************************************************************)

Piece == [packet : RtpPackets, part : {1, 2}]

\* Pieces f in a row are those of packets that follow each other: a piece of the
\* one, then, two pieces further on, the same piece of the next.
Linked(f) ==
    /\ f \in Seq(Piece)
    /\ \A i \in 1..Len(f) : Genuine(f[i].packet)
    /\ \A i \in 1..(Len(f) - 2) : Follows(f[i].packet, f[i + 2].packet)

\* They end with both pieces of a packet.
Complete(f) ==
    /\ Len(f) % 2 = 0
    /\ f # <<>> => f[Len(f) - 1].packet = f[Len(f)].packet

Flight == buf \o wire

\* What is to be sent after packet q: the packet that follows it, or nothing
\* for now, q being the last of the last frame.
Due(q) ==
    /\ Sending => Follows(q, out[index + 1])
    /\ ~Sending => /\ Ends(q) /\ q.nal = Len(given)
                   /\ sequence = (q.seq + 1) % SeqSize

FlightInv ==
    /\ buf \in Seq(Piece) /\ wire \in Seq(Piece) /\ Linked(Flight)
    /\ connected => /\ Complete(Flight)
                    /\ Flight # <<>> => Due(Flight[Len(Flight)].packet)

\* The NAL unit that completes next, when those fed first, as many as before,
\* are of earlier sessions.
NextNal(before) == session + (Len(fed) - before)

\* Packet q is the one that feed_rtp can use.
Expects(q, before) ==
    /\ lastSeq # -1 => q.seq = (lastSeq + 1) % SeqSize
    /\ fuaBuf = <<>> => Begins(q) /\ q.nal = NextNal(before)
    /\ fuaBuf # <<>> => Follows(fuaBuf[Len(fuaBuf)], q)

\* What was fed are units of earlier sessions, then those of this session, none
\* missing.
FedInTurn(before) ==
    /\ before \in 0..Len(fed)
    /\ \A k \in 1..Len(fed) :
          IF k <= before
          THEN fed[k].packets[1].nal < session
          ELSE fed[k].packets[1].nal = session + (k - before - 1)

\* What feed_rtp holds or waits for is what comes.
Awaited(before) ==
    /\ fuaBuf # <<>> => fuaBuf[1].nal = NextNal(before)
    /\ Flight # <<>> => Expects(Flight[1].packet, before)
    /\ connected /\ Flight = <<>> =>
          /\ Sending => Expects(out[index + 1], before)
          /\ ~Sending => /\ fuaBuf = <<>> /\ NextNal(before) = Len(given) + 1
                         /\ lastSeq # -1 => sequence = (lastSeq + 1) % SeqSize

PathInv ==
    /\ PacketizerInv /\ ParserInv /\ FlightInv
    /\ connected \in BOOLEAN /\ index \in 0..Len(out)
    /\ session \in 1..(Len(given) + 1)
    /\ \E before \in Nat : FedInTurn(before) /\ Awaited(before)

LEMMA LinkedFirst ==
    ASSUME NEW f, Linked(f), NEW n \in 0..Len(f)
    PROVE  /\ Linked(SubSeq(f, 1, n)) /\ Len(SubSeq(f, 1, n)) = n
           /\ n # 0 => SubSeq(f, 1, n)[1] = f[1]
<1> DEFINE g == SubSeq(f, 1, n)
<1>1. f \in Seq(Piece) /\ n \in Nat /\ Len(f) \in Nat /\ n <= Len(f)
  <2>1. f \in Seq(Piece)
      BY DEF Linked
  <2> QED BY <2>1
<1>2. g \in Seq(Piece) /\ Len(g) = n /\ \A i \in 1..n : g[i] = f[i]
    BY <1>1, FirstFacts
<1> HIDE DEF g
<1>3. \A i \in 1..n : Genuine(g[i].packet)
  <2>1. \A i \in 1..n : i \in 1..Len(f)
      BY <1>1
  <2> QED BY <1>2, <2>1 DEF Linked
<1>4. \A i \in 1..(n - 2) : Follows(g[i].packet, g[i + 2].packet)
  <2>1. \A i \in 1..(n - 2) : i \in 1..n /\ i + 2 \in 1..n /\ i \in 1..(Len(f) - 2)
      BY <1>1
  <2> QED BY <1>2, <2>1 DEF Linked
<1>5. n # 0 => g[1] = f[1]
    BY <1>1, <1>2
<1> QED BY <1>2, <1>3, <1>4, <1>5 DEF Linked, g

LEMMA LinkedRest ==
    ASSUME NEW f, Linked(f), Len(f) >= 2
    PROVE  LET g == SubSeq(f, 3, Len(f))
           IN  /\ Linked(g)
               /\ g # <<>> => Follows(f[1].packet, g[1].packet)
               /\ Complete(f) => /\ Complete(g)
                                 /\ g # <<>> => g[Len(g)] = f[Len(f)]
                                 /\ g = <<>> => f[Len(f)].packet = f[1].packet
<1> DEFINE g == SubSeq(f, 3, Len(f))
           n == Len(f)
<1>1. f \in Seq(Piece) /\ n \in Nat /\ 2 \in 0..n /\ 2 + 1 = 3 /\ n - 2 \in Nat
  <2>1. f \in Seq(Piece)
      BY DEF Linked
  <2> QED BY <2>1
<1>2. g \in Seq(Piece) /\ Len(g) = n - 2 /\ \A i \in 1..(n - 2) : g[i] = f[i + 2]
  <2> DEFINE h == SubSeq(f, 2 + 1, Len(f))
  <2>1. h \in Seq(Piece) /\ Len(h) = n - 2 /\ \A i \in 1..(n - 2) : h[i] = f[i + 2]
    <3>1. f \in Seq(Piece) /\ 2 \in 0..Len(f)
        BY <1>1
    <3> QED BY <3>1, RestFacts
  <2>2. h = g
      BY <1>1
  <2> HIDE DEF h, g
  <2> QED BY <2>1, <2>2
<1> HIDE DEF g
<1>3. g = <<>> <=> n - 2 = 0
  <2>1. g \in Seq(Piece) /\ Len(g) = n - 2
      BY <1>2
  <2>2. \A h \in Seq(Piece) : h = <<>> <=> Len(h) = 0
      OBVIOUS
  <2> HIDE DEF n
  <2> QED BY <2>1, <2>2
<1>4. /\ \A i \in 1..n : Genuine(f[i].packet)
      /\ \A i \in 1..(n - 2) : Follows(f[i].packet, f[i + 2].packet)
    BY DEF Linked
<1> HIDE DEF g, n
<1>5. \A i \in 1..(n - 2) : Genuine(g[i].packet)
  <2>1. \A i \in 1..(n - 2) : i + 2 \in 1..n
      BY <1>1
  <2> QED BY <1>2, <1>4, <2>1
<1>6. \A i \in 1..((n - 2) - 2) : Follows(g[i].packet, g[i + 2].packet)
  <2>1. \A i \in 1..((n - 2) - 2) : i \in 1..(n - 2) /\ i + 2 \in 1..(n - 2)
      BY <1>1
  <2> QED BY <1>2, <1>4, <2>1
<1>7. Linked(g)
    BY <1>2, <1>5, <1>6 DEF Linked
<1>8. g # <<>> => Follows(f[1].packet, g[1].packet)
  <2>1. n - 2 # 0 => 1 \in 1..(n - 2)
      BY <1>1
  <2>2. n - 2 # 0 => g[1] = f[1 + 2] /\ Follows(f[1].packet, f[1 + 2].packet)
      BY <1>2, <1>4, <2>1
  <2> QED BY <1>3, <2>2
<1>9. ASSUME Complete(f)
      PROVE  /\ Complete(g)
             /\ g # <<>> => g[Len(g)] = f[n]
             /\ g = <<>> => f[n].packet = f[1].packet
  <2>1. n % 2 = 0 /\ f[n - 1].packet = f[n].packet
    <3>1. n # 0
        BY <1>1
    <3> QED BY <1>9, <3>1 DEF Complete, n
  <2>2. (n - 2) % 2 = 0
      BY <1>1, <2>1
  <2>3. n - 2 # 0 => n - 2 \in 1..(n - 2) /\ (n - 2) - 1 \in 1..(n - 2)
      BY <1>1, <2>2
  <2>4. (n - 2) + 2 = n /\ ((n - 2) - 1) + 2 = n - 1
      BY <1>1
  <2>5. n - 2 # 0 => g[n - 2] = f[n] /\ g[(n - 2) - 1] = f[n - 1]
      BY <1>2, <2>3, <2>4
  <2>6. n - 2 = 0 => n - 1 = 1
      BY <1>1
  <2> QED BY <1>2, <1>3, <2>1, <2>2, <2>5, <2>6 DEF Complete
<1> QED BY <1>7, <1>8, <1>9 DEF g, n

LEMMA LinkedMore ==
    ASSUME NEW f, Linked(f), Complete(f), NEW p, Genuine(p),
           f # <<>> => Follows(f[Len(f)].packet, p)
    PROVE  LET g == f \o Pieces(p)
           IN  /\ Linked(g) /\ Complete(g) /\ g # <<>>
               /\ g[Len(g)].packet = p
               /\ f # <<>> => g[1] = f[1]
               /\ f = <<>> => g[1].packet = p
<1> DEFINE n == Len(f)
           t == Pieces(p)
           g == f \o t
<1>1. f \in Seq(Piece) /\ n \in Nat /\ (f = <<>> <=> n = 0)
  <2>1. f \in Seq(Piece)
      BY DEF Linked
  <2> QED BY <2>1
<1>2. t \in Seq(Piece) /\ Len(t) = 2 /\ t[1].packet = p /\ t[2].packet = p
  <2>1. p \in RtpPackets
      BY DEF Genuine
  <2>2. [packet |-> p, part |-> 1] \in Piece /\ [packet |-> p, part |-> 2] \in Piece
      BY <2>1 DEF Piece
  <2> QED BY <2>2 DEF Pieces
<1> HIDE DEF t
<1>3. /\ g \in Seq(Piece) /\ Len(g) = n + Len(t)
      /\ \A i \in 1..n : g[i] = f[i]
      /\ \A i \in (n + 1)..(n + Len(t)) : g[i] = t[i - n]
  <2>1. f \in Seq(Piece) /\ t \in Seq(Piece)
      BY <1>1, <1>2
  <2> QED BY <2>1, JoinFacts
<1>4. /\ \A i \in 1..n : Genuine(f[i].packet)
      /\ \A i \in 1..(n - 2) : Follows(f[i].packet, f[i + 2].packet)
    BY DEF Linked
<1>5. n # 0 => /\ Follows(f[n].packet, p) /\ f[n - 1].packet = f[n].packet
               /\ n % 2 = 0
    BY <1>1 DEF Complete
<1>6. n % 2 = 0
    BY DEF Complete
<1> HIDE DEF g, n
<1>7. Len(g) = n + 2 /\ g[n + 1].packet = p /\ g[n + 2].packet = p
  <2>1. /\ n + 1 \in (n + 1)..(n + 2) /\ n + 2 \in (n + 1)..(n + 2)
        /\ (n + 1) - n = 1 /\ (n + 2) - n = 2
      BY <1>1
  <2> QED BY <1>2, <1>3, <2>1
<1>8. \A i \in 1..(n + 2) : i \in 1..n \/ i = n + 1 \/ i = n + 2
    BY <1>1
<1>9. \A i \in 1..(n + 2) : Genuine(g[i].packet)
    BY <1>3, <1>4, <1>7, <1>8
<1>10. ASSUME NEW i \in 1..((n + 2) - 2)
       PROVE  Follows(g[i].packet, g[i + 2].packet)
  <2>1. i \in 1..n /\ n # 0
      BY <1>1
  <2>2. CASE i \in 1..(n - 2)
    <3>1. i + 2 \in 1..n
        BY <1>1, <2>2
    <3> QED BY <1>3, <1>4, <2>1, <2>2, <3>1
  <2>3. CASE i = n - 1
    <3>1. i + 2 = n + 1
        BY <1>1, <2>3
    <3> QED BY <1>3, <1>5, <1>7, <2>1, <2>3, <3>1
  <2>4. CASE i = n
      BY <1>3, <1>5, <1>7, <2>1, <2>4
  <2> QED BY <1>1, <2>1, <2>2, <2>3, <2>4
<1>11. Linked(g)
    BY <1>3, <1>7, <1>9, <1>10 DEF Linked
<1>12. g # <<>> /\ (n + 2) - 1 = n + 1
    BY <1>1, <1>3, <1>7
<1>13. Complete(g)
  <2>1. (n + 2) % 2 = 0
      BY <1>1, <1>6
  <2> QED BY <1>7, <1>12, <2>1 DEF Complete
<1>14. n # 0 => g[1] = f[1]
  <2>1. n # 0 => 1 \in 1..n
      BY <1>1
  <2> QED BY <1>3, <2>1
<1>15. n = 0 => g[1].packet = p
    BY <1>7
<1> QED BY <1>1, <1>7, <1>11, <1>12, <1>13, <1>14, <1>15 DEF g, t

LEMMA LinkedKept ==
    ASSUME Grows, NEW f, Linked(f)
    PROVE  Linked(f)'
<1>1. ASSUME NEW i \in 1..Len(f) PROVE Genuine(f[i].packet)'
  <2>1. PICK p : p = f[i].packet
      OBVIOUS
  <2>2. Genuine(p)
      BY <2>1 DEF Linked
  <2>3. Genuine(p)'
      BY <2>2, GenuineKept
  <2> QED BY <2>1, <2>3
<1> QED BY <1>1 DEF Linked

LEMMA PathStarts == Init => PathInv
<1> SUFFICES ASSUME Init PROVE PathInv
    OBVIOUS
<1> DEFINE none == <<>>
<1>1. /\ Len(none) = 0 /\ none \o none = none
      /\ \A S : none \in Seq(S)
    OBVIOUS
<1>2. /\ lastSeq = -1 /\ fuaBuf = none /\ fed = none
      /\ given = none /\ out = none
      /\ connected = FALSE /\ index = 0 /\ wire = none /\ buf = none /\ session = 1
    BY DEF Init, PacketizerInit, ParserInit, NoBuffer
<1>3. PacketizerInv
    BY PacketizerStarts DEF Init
<1>4. Partial(none)
    BY NothingPartial
<1> HIDE DEF none
<1>5. /\ \A i \in 1..Len(none) : FALSE
      /\ \A i \in 1..(Len(none) - 2) : FALSE
    BY <1>1
<1>6. FedWhole
    BY <1>1, <1>2, <1>5 DEF FedWhole
<1>7. ParserInv
    BY <1>2, <1>4, <1>6 DEF ParserInv, none
<1>8. Linked(none)
    BY <1>1, <1>5 DEF Linked
<1>9. FlightInv
    BY <1>1, <1>2, <1>8 DEF FlightInv, Flight
<1>10. FedInTurn(0)
    BY <1>1, <1>2, <1>5 DEF FedInTurn
<1>11. Awaited(0)
    BY <1>1, <1>2 DEF Awaited, Flight, none
<1>12. 0 \in 0..Len(out) /\ 0 \in Nat /\ 1 \in 1..(Len(given) + 1)
    BY <1>1, <1>2
<1> QED BY <1>2, <1>3, <1>7, <1>9, <1>10, <1>11, <1>12 DEF PathInv

\* The main loop packetizes a frame, whether there is a connection or not.
LEMMA PathFrame ==
    ASSUME PathInv, PacketizerNext, fed' = fed,
           UNCHANGED <<lastSeq, fuaBuf, fuaTs>>,
           UNCHANGED <<connected, wire, buf, session>>,
           connected => ~Sending /\ index' = 0,
           ~connected => index' = Len(out')
    PROVE  PathInv'
<1>1. /\ PacketizerInv /\ ParserInv /\ FlightInv
      /\ session \in 1..(Len(given) + 1)
    BY DEF PathInv
<1>2. /\ PacketizerInv'
      /\ Len(given') >= Len(given)
      /\ \A k \in 1..Len(given) : given'[k] = given[k]
      /\ out' # <<>> => /\ out'[1].seq = sequence
                        /\ out'[1].nal = Len(given) + 1 /\ Begins(out'[1])
      /\ out' = <<>> => given' = given /\ sequence' = sequence
    BY <1>1, PacketizerKeeps
<1>3. Grows
  <2>1. given \in Seq(Sizes) /\ given' \in Seq(Sizes)
      BY <1>1, <1>2 DEF PacketizerInv
  <2> QED BY <1>2, <2>1 DEF Grows
<1>4. ParserInv'
    BY <1>1, <1>3, ParserKept
<1>5. /\ Len(out') \in Nat /\ (Len(out') = 0 <=> out' = <<>>)
  <2>1. out' \in Seq(RtpPackets)
      BY <1>2 DEF PacketizerInv
  <2> QED BY <2>1
<1>6. connected => (Sending' <=> out' # <<>>)
    BY <1>5 DEF Sending
<1>7. PICK f : f = Flight
    OBVIOUS
<1>8. Flight' = f /\ Linked(f)
    BY <1>1, <1>7 DEF Flight, FlightInv
<1>9. Linked(Flight)'
  <2>1. Linked(f)'
      BY <1>3, <1>8, LinkedKept
  <2> QED BY <1>8, <2>1
<1>10. ASSUME connected PROVE Complete(Flight)'
    BY <1>1, <1>7, <1>8, <1>10 DEF FlightInv, Complete
<1>11. ASSUME connected, Flight # <<>>
       PROVE  Due(Flight[Len(Flight)].packet)'
  <2>1. PICK q : q = f[Len(f)].packet
      OBVIOUS
  <2>2. Ends(q) /\ q.nal = Len(given) /\ sequence = (q.seq + 1) % SeqSize
      BY <1>1, <1>7, <1>11, <2>1 DEF FlightInv, Due
  <2>3. out' # <<>> => Follows(q, out'[1])
      BY <1>2, <2>2 DEF Follows
  <2>4. index' + 1 = 1
      BY <1>11
  <2>5. Due(q)'
      BY <1>2, <1>6, <1>11, <2>2, <2>3, <2>4 DEF Due, Follows, Begins, Ends
  <2> QED BY <1>8, <2>1, <2>5
<1>12. FlightInv'
    BY <1>1, <1>7, <1>8, <1>9, <1>10, <1>11 DEF FlightInv
<1>13. PICK before \in Nat : FedInTurn(before) /\ Awaited(before)
    BY DEF PathInv
<1>14. FedInTurn(before)'
    BY <1>13 DEF FedInTurn
<1>15. \A q : Expects(q, before)' <=> Expects(q, before)
    BY DEF Expects, NextNal, Follows, Begins, Ends
<1>16. ASSUME connected, Flight = <<>>
       PROVE  /\ Sending' => Expects(out[index + 1], before)'
              /\ ~Sending' => /\ fuaBuf = <<>>
                              /\ NextNal(before) = Len(given') + 1
                              /\ lastSeq # -1 => sequence' = (lastSeq + 1) % SeqSize
  <2>1. /\ fuaBuf = <<>> /\ NextNal(before) = Len(given) + 1
        /\ lastSeq # -1 => sequence = (lastSeq + 1) % SeqSize
      BY <1>13, <1>16 DEF Awaited
  <2>2. ASSUME Sending' PROVE Expects(out[index + 1], before)'
    <3>1. PICK q : q = out'[index' + 1]
        OBVIOUS
    <3>2. index' + 1 = 1 /\ out' # <<>>
        BY <1>6, <1>16, <2>2
    <3>3. q.seq = sequence /\ q.nal = Len(given) + 1 /\ Begins(q)
        BY <1>2, <3>1, <3>2
    <3>4. Expects(q, before)
        BY <2>1, <3>3 DEF Expects
    <3>5. Expects(q, before)'
        BY <1>15, <3>4
    <3> QED BY <3>1, <3>5
  <2>3. ASSUME ~Sending' PROVE given' = given /\ sequence' = sequence
      BY <1>2, <1>6, <1>16, <2>3
  <2> QED BY <2>1, <2>2, <2>3
<1>17. ASSUME Flight # <<>> PROVE Expects(Flight[1].packet, before)'
  <2>1. PICK q : q = f[1].packet
      OBVIOUS
  <2>2. Expects(q, before)
      BY <1>7, <1>13, <1>17, <2>1 DEF Awaited
  <2>3. Expects(q, before)'
      BY <1>15, <2>2
  <2> QED BY <1>8, <2>1, <2>3
<1>18. NextNal(before)' = NextNal(before)
    BY DEF NextNal
<1>19. Awaited(before)'
    BY <1>7, <1>8, <1>13, <1>16, <1>17, <1>18 DEF Awaited
<1>20. index' \in 0..Len(out')
    BY <1>5 DEF PathInv
<1>21. session' \in 1..(Len(given') + 1)
    BY <1>1, <1>2, <1>3 DEF Grows
<1> QED BY <1>2, <1>4, <1>12, <1>14, <1>19, <1>20, <1>21 DEF PathInv

\* The first frame of a new connection, which the server has a new parser for.
LEMMA PathConnect ==
    ASSUME PathInv, Connect
    PROVE  PathInv'
<1>1. /\ PacketizerInv /\ ParserInv /\ FlightInv
    BY DEF PathInv
<1>2. /\ PacketizerNext /\ NewParser /\ fed' = fed /\ connected' = TRUE /\ index' = 0
      /\ wire' = <<>> /\ buf' = <<>> /\ session' = Len(given) + 1
    BY DEF Connect, NewSession
<1>3. /\ PacketizerInv'
      /\ Len(given') >= Len(given)
      /\ \A k \in 1..Len(given) : given'[k] = given[k]
      /\ out' # <<>> => /\ out'[1].seq = sequence
                        /\ out'[1].nal = Len(given) + 1 /\ Begins(out'[1])
      /\ out' = <<>> => given' = given /\ sequence' = sequence
    BY <1>1, <1>2, PacketizerKeeps
<1>4. Grows
  <2>1. given \in Seq(Sizes) /\ given' \in Seq(Sizes)
      BY <1>1, <1>3 DEF PacketizerInv
  <2> QED BY <1>3, <2>1 DEF Grows
<1>5. ParserInv'
    BY <1>1, <1>2, <1>4, ParserKept
<1>6. /\ Len(out') \in Nat /\ (Len(out') = 0 <=> out' = <<>>)
  <2>1. out' \in Seq(RtpPackets)
      BY <1>3 DEF PacketizerInv
  <2> QED BY <2>1
<1>7. Sending' <=> out' # <<>>
    BY <1>2, <1>6 DEF Sending
<1> DEFINE none == <<>>
<1>8. Len(none) = 0 /\ none \o none = none /\ none \in Seq(Piece)
    OBVIOUS
<1>9. /\ Flight' = none /\ wire' = none /\ buf' = none
      /\ fuaBuf' = none /\ lastSeq' = -1
    BY <1>2, <1>8 DEF Flight, NewParser, NoBuffer
<1> HIDE DEF none
<1>10. /\ \A i \in 1..Len(none) : FALSE
       /\ \A i \in 1..(Len(none) - 2) : FALSE
    BY <1>8
<1>11. Linked(none)'
    BY <1>8, <1>10 DEF Linked
<1>12. Linked(Flight)'
    BY <1>9, <1>11
<1>13. Complete(Flight)'
    BY <1>8, <1>9 DEF Complete, none
<1>14. FlightInv'
    BY <1>8, <1>9, <1>12, <1>13 DEF FlightInv, none
<1>15. fed \in Seq([packets : Seq(RtpPackets), ts : 0..(TsSize - 1)])
       /\ Len(fed) \in Nat
    BY <1>1 DEF ParserInv, FedWhole
<1>16. PICK before \in Nat : before = Len(fed)
    BY <1>15
<1>17. \A k \in 1..Len(fed) : fed[k].packets[1].nal < Len(given) + 1
  <2>1. Len(given) \in Nat
      BY <1>4 DEF Grows
  <2>2. \A k \in 1..Len(fed) : fed[k].packets[1].nal \in 1..Len(given)
      BY <1>1 DEF ParserInv, FedWhole, Entire
  <2> QED BY <2>1, <2>2
<1>18. FedInTurn(before)'
    BY <1>2, <1>15, <1>16, <1>17 DEF FedInTurn
<1>19. NextNal(before)' = Len(given) + 1
    BY <1>2, <1>4, <1>15, <1>16 DEF NextNal, Grows
<1>20. ASSUME Sending' PROVE Expects(out[index + 1], before)'
  <2>1. PICK q : q = out'[index' + 1]
      OBVIOUS
  <2>2. index' + 1 = 1 /\ out' # <<>>
      BY <1>2, <1>7, <1>20
  <2>3. q.nal = Len(given) + 1 /\ Begins(q)
      BY <1>3, <2>1, <2>2
  <2>4. Expects(q, before)'
      BY <1>9, <1>19, <2>3 DEF Expects, Begins, none
  <2> QED BY <2>1, <2>4
<1>21. ASSUME ~Sending' PROVE given' = given
    BY <1>3, <1>7, <1>21
<1>22. Awaited(before)'
    BY <1>9, <1>19, <1>20, <1>21 DEF Awaited, none
<1>23. index' \in 0..Len(out') /\ session' \in 1..(Len(given') + 1)
    BY <1>2, <1>4, <1>6 DEF Grows
<1> QED BY <1>2, <1>3, <1>5, <1>14, <1>16, <1>18, <1>22, <1>23 DEF PathInv

\* A packet goes on the wire.
LEMMA PathSend ==
    ASSUME PathInv, SendRtp
    PROVE  PathInv'
<1>1. /\ PacketizerInv /\ ParserInv /\ FlightInv /\ index \in 0..Len(out)
      /\ session \in 1..(Len(given) + 1)
    BY DEF PathInv
<1>2. /\ connected /\ Sending
      /\ wire' = wire \o Pieces(out[index + 1]) /\ index' = index + 1
      /\ UNCHANGED packetizerVars /\ UNCHANGED parserVars
      /\ UNCHANGED <<connected, buf, session>>
    BY DEF SendRtp
<1>3. UNCHANGED <<given, sequence, out>>
    BY <1>2 DEF packetizerVars
<1>4. UNCHANGED <<lastSeq, fuaBuf, fuaTs>> /\ fed' = fed
    BY <1>2 DEF parserVars
<1>5. PacketizerInv'
    BY <1>1, <1>2, PacketizerStays
<1>6. Grows
  <2>1. given \in Seq(Sizes)
      BY <1>1 DEF PacketizerInv
  <2> QED BY <1>3, <2>1 DEF Grows
<1>7. ParserInv'
    BY <1>1, <1>4, <1>6, ParserKept
<1>8. PICK f, p : f = Flight /\ p = out[index + 1]
    OBVIOUS
<1>9. /\ out \in Seq(RtpPackets) /\ Len(out) \in Nat /\ index \in Nat
      /\ index < Len(out) /\ index + 1 \in 1..Len(out) /\ out # <<>>
  <2>1. out \in Seq(RtpPackets)
      BY <1>1 DEF PacketizerInv
  <2>2. Len(out) \in Nat
      BY <2>1
  <2>3. index < Len(out)
      BY <1>2 DEF Sending
  <2> QED BY <1>1, <2>1, <2>2, <2>3
<1>10. Genuine(p)
    BY <1>1, <1>8, <1>9 DEF PacketizerInv
<1>11. Linked(f) /\ Complete(f) /\ (f # <<>> => Follows(f[Len(f)].packet, p))
    BY <1>1, <1>2, <1>8 DEF FlightInv, Due
<1>12. PICK g : g = f \o Pieces(p)
    OBVIOUS
<1>13. /\ Linked(g) /\ Complete(g) /\ g # <<>>
       /\ g[Len(g)].packet = p
       /\ f # <<>> => g[1] = f[1]
       /\ f = <<>> => g[1].packet = p
    BY <1>10, <1>11, <1>12, LinkedMore
<1>14. Pieces(p) \in Seq(Piece)
  <2>1. p \in RtpPackets
      BY <1>10 DEF Genuine
  <2>2. [packet |-> p, part |-> 1] \in Piece /\ [packet |-> p, part |-> 2] \in Piece
      BY <2>1 DEF Piece
  <2> QED BY <2>2 DEF Pieces
<1>15. buf \in Seq(Piece) /\ wire \in Seq(Piece) /\ wire' = wire \o Pieces(p)
    BY <1>1, <1>2, <1>8 DEF FlightInv
<1>16. wire' \in Seq(Piece) /\ buf' \in Seq(Piece)
    BY <1>2, <1>14, <1>15
<1>17. Flight' = g
  <2>1. buf \o (wire \o Pieces(p)) = (buf \o wire) \o Pieces(p)
    <3>1. PICK b, w, t : b = buf /\ w = wire /\ t = Pieces(p)
        OBVIOUS
    <3>2. b \in Seq(Piece) /\ w \in Seq(Piece) /\ t \in Seq(Piece)
        BY <1>14, <1>15, <3>1
    <3>3. b \o (w \o t) = (b \o w) \o t
        BY ONLY <3>2, JoinJoin
    <3> QED BY <3>1, <3>3
  <2> QED BY <1>2, <1>8, <1>12, <1>15, <2>1 DEF Flight
<1>18. Linked(Flight)' /\ Complete(Flight)'
  <2>1. Linked(g)' /\ Complete(g)'
      BY <1>6, <1>13, LinkedKept DEF Complete
  <2> QED BY <1>17, <2>1
<1>19. Due(p)'
  <2>1. ASSUME Sending' PROVE Follows(p, out'[index' + 1])
    <3>1. index + 1 < Len(out) /\ index + 1 \in 1..(Len(out) - 1)
        BY <1>2, <1>3, <1>9, <2>1 DEF Sending
    <3>2. Follows(out[index + 1], out[(index + 1) + 1])
        BY <1>1, <1>9, <3>1 DEF PacketizerInv, FrameWhole
    <3> QED BY <1>2, <1>3, <1>8, <3>2
  <2>2. ASSUME ~Sending'
        PROVE  Ends(p) /\ p.nal = Len(given) /\ sequence = (p.seq + 1) % SeqSize
    <3>1. index + 1 = Len(out)
        BY <1>2, <1>3, <1>9, <2>2 DEF Sending
    <3>2. p = out[Len(out)] /\ p = Last(out)
        BY <1>8, <3>1 DEF Last
    <3> QED BY <1>1, <1>9, <3>2 DEF PacketizerInv, FrameWhole
  <2> QED BY <1>3, <2>1, <2>2 DEF Due, Follows, Begins, Ends
<1>20. Due(Flight[Len(Flight)].packet)'
    BY <1>13, <1>17, <1>19
<1>21. FlightInv'
    BY <1>16, <1>18, <1>20 DEF FlightInv
<1>22. PICK before \in Nat : FedInTurn(before) /\ Awaited(before)
    BY DEF PathInv
<1>23. FedInTurn(before)'
    BY <1>2, <1>4, <1>22 DEF FedInTurn
<1>24. \A q : Expects(q, before)' <=> Expects(q, before)
    BY <1>2, <1>4 DEF Expects, NextNal, Follows, Begins, Ends
<1>25. Expects(Flight[1].packet, before)'
  <2>1. PICK q : q = g[1].packet
      OBVIOUS
  <2>2. CASE f = <<>>
    <3>1. Expects(p, before)
        BY <1>2, <1>8, <1>22, <2>2 DEF Awaited
    <3>2. q = p
        BY <1>13, <2>1, <2>2
    <3>3. Expects(q, before)'
        BY <1>24, <3>1, <3>2
    <3> QED BY <1>17, <2>1, <3>3
  <2>3. CASE f # <<>>
    <3>1. Expects(q, before)
        BY <1>8, <1>13, <1>22, <2>1, <2>3 DEF Awaited
    <3>2. Expects(q, before)'
        BY <1>24, <3>1
    <3> QED BY <1>17, <2>1, <3>2
  <2> QED BY <2>2, <2>3
<1>26. NextNal(before)' = NextNal(before)
    BY <1>2, <1>4 DEF NextNal
<1>27. Awaited(before)'
    BY <1>4, <1>13, <1>17, <1>22, <1>25, <1>26 DEF Awaited
<1>28. index' \in 0..Len(out')
    BY <1>2, <1>3, <1>9
<1> QED BY <1>1, <1>2, <1>3, <1>5, <1>7, <1>21, <1>23, <1>27, <1>28 DEF PathInv

\* The connection breaks.
LEMMA PathBreak ==
    ASSUME PathInv, Break
    PROVE  PathInv'
<1>1. /\ PacketizerInv /\ ParserInv /\ FlightInv /\ index \in 0..Len(out)
      /\ session \in 1..(Len(given) + 1)
    BY DEF PathInv
<1>2. /\ connected' = FALSE /\ index' = Len(out)
      /\ UNCHANGED packetizerVars /\ UNCHANGED parserVars
      /\ UNCHANGED <<buf, session>>
    BY DEF Break
<1>3. PICK n \in 0..Len(wire) : wire' = SubSeq(wire, 1, n)
    BY DEF Break
<1>4. UNCHANGED <<given, sequence, out>>
    BY <1>2 DEF packetizerVars
<1>5. UNCHANGED <<lastSeq, fuaBuf, fuaTs>> /\ fed' = fed
    BY <1>2 DEF parserVars
<1>6. PacketizerInv'
    BY <1>1, <1>2, PacketizerStays
<1>7. Grows
  <2>1. given \in Seq(Sizes)
      BY <1>1 DEF PacketizerInv
  <2> QED BY <1>4, <2>1 DEF Grows
<1>8. ParserInv'
    BY <1>1, <1>5, <1>7, ParserKept
<1>9. PICK f, b, w : f = Flight /\ b = buf /\ w = wire
    OBVIOUS
<1>10. /\ b \in Seq(Piece) /\ w \in Seq(Piece) /\ Linked(f) /\ f = b \o w
       /\ Len(b) \in Nat /\ Len(w) \in Nat /\ n \in 0..Len(w)
  <2>1. b \in Seq(Piece) /\ w \in Seq(Piece) /\ Linked(f) /\ f = b \o w
      BY <1>1, <1>9 DEF FlightInv, Flight
  <2> QED BY <1>3, <1>9, <2>1
<1>11. PICK k, g : k = Len(b) + n /\ g = SubSeq(f, 1, k)
    OBVIOUS
<1>12. Len(f) = Len(b) + Len(w) /\ k \in 0..Len(f)
  <2>1. Len(f) = Len(b) + Len(w)
      BY <1>10, JoinFacts
  <2> QED BY <1>10, <1>11, <2>1
<1>13. Linked(g) /\ Len(g) = k /\ (k # 0 => g[1] = f[1])
    BY <1>10, <1>11, <1>12, LinkedFirst
<1>14. Flight' = g
  <2>1. b \o SubSeq(w, 1, n) = SubSeq(b \o w, 1, Len(b) + n)
      BY <1>10, JoinFirst
  <2> QED BY <1>2, <1>3, <1>9, <1>10, <1>11, <2>1 DEF Flight
<1>15. wire' \in Seq(Piece)
  <2>1. SubSeq(w, 1, n) \in Seq(Piece)
      BY <1>10, FirstFacts
  <2> QED BY <1>3, <1>9, <2>1
<1>16. Linked(Flight)'
  <2>1. Linked(g)'
      BY <1>7, <1>13, LinkedKept
  <2> QED BY <1>14, <2>1
<1>17. FlightInv'
    BY <1>1, <1>2, <1>15, <1>16 DEF FlightInv
<1>18. PICK before \in Nat : FedInTurn(before) /\ Awaited(before)
    BY DEF PathInv
<1>19. FedInTurn(before)'
    BY <1>2, <1>5, <1>18 DEF FedInTurn
<1>20. \A q : Expects(q, before)' <=> Expects(q, before)
    BY <1>2, <1>5 DEF Expects, NextNal, Follows, Begins, Ends
<1>21. ASSUME g # <<>> PROVE Expects(Flight[1].packet, before)'
  <2>1. PICK q : q = g[1].packet
      OBVIOUS
  <2>2. k # 0 /\ f # <<>>
    <3>1. f \in Seq(Piece) /\ g \in Seq(Piece) /\ Len(g) = k
        BY <1>10, <1>13 DEF Linked
    <3>2. k # 0
        BY <1>21, <3>1
    <3> QED BY <1>12, <3>1, <3>2
  <2>3. q = f[1].packet
      BY <1>13, <2>1, <2>2
  <2>4. Expects(q, before)
      BY <1>9, <1>18, <2>2, <2>3 DEF Awaited
  <2>5. Expects(q, before)'
      BY <1>20, <2>4
  <2> QED BY <1>14, <2>1, <2>5
<1>22. NextNal(before)' = NextNal(before)
    BY <1>2, <1>5 DEF NextNal
<1>23. Awaited(before)'
    BY <1>2, <1>5, <1>14, <1>18, <1>21, <1>22 DEF Awaited
<1>24. index' \in 0..Len(out')
  <2>1. out \in Seq(RtpPackets)
      BY <1>1 DEF PacketizerInv
  <2> QED BY <1>2, <1>4, <2>1
<1> QED BY <1>1, <1>2, <1>4, <1>6, <1>8, <1>17, <1>18, <1>19, <1>23, <1>24 DEF PathInv

\* recv moves pieces from the wire to _buf.
LEMMA PathRecv ==
    ASSUME PathInv, Recv
    PROVE  PathInv'
<1>1. /\ PacketizerInv /\ ParserInv /\ FlightInv /\ index \in 0..Len(out)
      /\ session \in 1..(Len(given) + 1)
    BY DEF PathInv
<1>2. /\ UNCHANGED packetizerVars /\ UNCHANGED parserVars
      /\ UNCHANGED <<connected, index, session>>
    BY DEF Recv
<1>3. PICK n \in 1..Len(wire) : /\ buf' = buf \o SubSeq(wire, 1, n)
                                /\ wire' = SubSeq(wire, n + 1, Len(wire))
    BY DEF Recv
<1>4. UNCHANGED <<given, sequence, out>>
    BY <1>2 DEF packetizerVars
<1>5. UNCHANGED <<lastSeq, fuaBuf, fuaTs>> /\ fed' = fed
    BY <1>2 DEF parserVars
<1>6. PacketizerInv'
    BY <1>1, <1>2, PacketizerStays
<1>7. Grows
  <2>1. given \in Seq(Sizes)
      BY <1>1 DEF PacketizerInv
  <2> QED BY <1>4, <2>1 DEF Grows
<1>8. ParserInv'
    BY <1>1, <1>5, <1>7, ParserKept
<1>9. PICK b, w : b = buf /\ w = wire
    OBVIOUS
<1>10. b \in Seq(Piece) /\ w \in Seq(Piece) /\ n \in 0..Len(w)
  <2>1. b \in Seq(Piece) /\ w \in Seq(Piece)
      BY <1>1, <1>9 DEF FlightInv
  <2> QED BY <1>3, <1>9, <2>1
<1>11. PICK a, c : a = SubSeq(w, 1, n) /\ c = SubSeq(w, n + 1, Len(w))
    OBVIOUS
<1>12. a \in Seq(Piece) /\ c \in Seq(Piece) /\ a \o c = w
  <2>1. SubSeq(w, 1, n) \in Seq(Piece)
      BY <1>10, FirstFacts
  <2>2. SubSeq(w, n + 1, Len(w)) \in Seq(Piece)
      BY <1>10, RestFacts
  <2>3. SubSeq(w, 1, n) \o SubSeq(w, n + 1, Len(w)) = w
      BY <1>10, FirstRest
  <2> QED BY <1>11, <2>1, <2>2, <2>3
<1>13. (b \o a) \o c = b \o w
  <2>1. b \in Seq(Piece) /\ a \in Seq(Piece) /\ c \in Seq(Piece)
      BY <1>10, <1>12
  <2>2. b \o (a \o c) = (b \o a) \o c
      BY <2>1, JoinJoin
  <2> QED BY <1>12, <2>2
<1>14. buf' = b \o a /\ wire' = c
    BY <1>3, <1>9, <1>11
<1>15. Flight' = Flight
    BY <1>9, <1>13, <1>14 DEF Flight
<1>16. buf' \in Seq(Piece) /\ wire' \in Seq(Piece)
    BY <1>10, <1>12, <1>14
<1>17. PICK f : f = Flight
    OBVIOUS
<1>18. Linked(Flight)'
  <2>1. Linked(f)
      BY <1>1, <1>17 DEF FlightInv
  <2>2. Linked(f)'
      BY <1>7, <2>1, LinkedKept
  <2> QED BY <1>15, <1>17, <2>2
<1>19. connected => Complete(Flight)'
    BY <1>1, <1>15 DEF FlightInv, Complete
<1>20. ASSUME connected, Flight # <<>> PROVE Due(Flight[Len(Flight)].packet)'
  <2>1. PICK q : q = f[Len(f)].packet
      OBVIOUS
  <2>2. Due(q)
      BY <1>1, <1>17, <1>20, <2>1 DEF FlightInv
  <2>3. Due(q)'
      BY <1>2, <1>4, <2>2 DEF Due, Sending, Follows, Begins, Ends
  <2> QED BY <1>15, <1>17, <2>1, <2>3
<1>21. FlightInv'
    BY <1>2, <1>15, <1>16, <1>18, <1>19, <1>20 DEF FlightInv
<1>22. PICK before \in Nat : FedInTurn(before) /\ Awaited(before)
    BY DEF PathInv
<1>23. FedInTurn(before)'
    BY <1>2, <1>5, <1>22 DEF FedInTurn
<1>24. \A q : Expects(q, before)' <=> Expects(q, before)
    BY <1>2, <1>5 DEF Expects, NextNal, Follows, Begins, Ends
<1>25. NextNal(before)' = NextNal(before)
    BY <1>2, <1>5 DEF NextNal
<1>26. Expects(Flight[1].packet, before) => Expects(Flight[1].packet, before)'
  <2>1. PICK q : q = f[1].packet
      OBVIOUS
  <2>2. Expects(q, before) => Expects(q, before)'
      BY <1>24
  <2> QED BY <1>15, <1>17, <2>1, <2>2
<1>27. Expects(out[index + 1], before) => Expects(out[index + 1], before)'
  <2>1. PICK q : q = out[index + 1]
      OBVIOUS
  <2>2. Expects(q, before) => Expects(q, before)'
      BY <1>24
  <2> QED BY <1>2, <1>4, <2>1, <2>2
<1>28. Sending' = Sending
    BY <1>2, <1>4 DEF Sending
<1>29. Awaited(before)'
    BY <1>2, <1>4, <1>5, <1>15, <1>22, <1>25, <1>26, <1>27, <1>28 DEF Awaited
<1> QED BY <1>1, <1>2, <1>4, <1>6, <1>8, <1>21, <1>22, <1>23, <1>29 DEF PathInv

\* feed_rtp gets the packet it waits for: it keeps the packet, or feeds the NAL
\* unit that is next.
LEMMA PathHandle ==
    ASSUME PathInv, HandlePacket
    PROVE  /\ PathInv'
           /\ \/ fed' = fed
              \/ \E unit : /\ fed' = Append(fed, unit)
                           /\ unit.packets[1].nal \in 1..Len(given)
                           /\ fed # <<>> =>
                                unit.packets[1].nal > fed[Len(fed)].packets[1].nal
<1>1. /\ PacketizerInv /\ ParserInv /\ FlightInv /\ index \in 0..Len(out)
      /\ session \in 1..(Len(given) + 1)
    BY DEF PathInv
<1>2. /\ UNCHANGED packetizerVars
      /\ UNCHANGED <<connected, index, wire, session>>
      /\ Len(buf) >= 2 /\ FeedRtp(buf[1].packet) /\ buf' = SubSeq(buf, 3, Len(buf))
    BY DEF HandlePacket, WholePacket
<1>3. UNCHANGED <<given, sequence, out>>
    BY <1>2 DEF packetizerVars
<1>4. PacketizerInv'
    BY <1>1, <1>2, PacketizerStays
<1>5. Grows /\ given \in Seq(Sizes)
  <2>1. given \in Seq(Sizes)
      BY <1>1 DEF PacketizerInv
  <2> QED BY <1>3, <2>1 DEF Grows
<1>6. PICK f, b, w : f = Flight /\ b = buf /\ w = wire
    OBVIOUS
<1>7. /\ b \in Seq(Piece) /\ w \in Seq(Piece) /\ Linked(f) /\ f = b \o w
      /\ Len(b) \in Nat /\ Len(w) \in Nat /\ Len(b) >= 2
  <2>1. b \in Seq(Piece) /\ w \in Seq(Piece) /\ Linked(f) /\ f = b \o w
      BY <1>1, <1>6 DEF FlightInv, Flight
  <2> QED BY <1>2, <1>6, <2>1
<1>8. Len(f) = Len(b) + Len(w) /\ f[1] = b[1] /\ Len(f) >= 2 /\ f # <<>>
      /\ f \in Seq(Piece)
  <2>1. /\ f \in Seq(Piece) /\ Len(f) = Len(b) + Len(w)
        /\ \A i \in 1..Len(b) : f[i] = b[i]
      BY <1>7, JoinFacts
  <2>2. 1 \in 1..Len(b) /\ Len(b) + Len(w) >= 2
      BY <1>7
  <2>3. f # <<>>
      BY <2>1, <2>2
  <2> QED BY <2>1, <2>2, <2>3
<1>9. PICK g, p : g = SubSeq(f, 3, Len(f)) /\ p = f[1].packet
    OBVIOUS
<1>10. buf' = SubSeq(b, 3, Len(b)) /\ buf' \in Seq(Piece) /\ Flight' = g
  <2>1. 2 \in 0..Len(b) /\ 2 + 1 = 3
      BY <1>7
  <2>2. SubSeq(b, 2 + 1, Len(b)) \o w = SubSeq(b \o w, 2 + 1, Len(b \o w))
      BY <1>7, <2>1, RestJoin
  <2>3. SubSeq(b, 2 + 1, Len(b)) \in Seq(Piece)
      BY <1>7, <2>1, RestFacts
  <2>4. SubSeq(b, 2 + 1, Len(b)) = SubSeq(b, 3, Len(b)) /\ SubSeq(f, 2 + 1, Len(f)) = g
      BY <1>9, <2>1
  <2>5. buf' = SubSeq(b, 2 + 1, Len(b))
      BY <1>2, <1>6, <2>4
  <2>6. Flight' = SubSeq(b, 2 + 1, Len(b)) \o w
      BY <1>2, <1>6, <2>5 DEF Flight
  <2>7. Flight' = g
      BY <1>7, <2>2, <2>4, <2>6
  <2> QED BY <2>3, <2>4, <2>5, <2>7
<1>11. /\ Linked(g)
       /\ g # <<>> => Follows(p, g[1].packet)
       /\ Complete(f) => /\ Complete(g)
                         /\ g # <<>> => g[Len(g)] = f[Len(f)]
                         /\ g = <<>> => f[Len(f)].packet = p
    BY <1>7, <1>8, <1>9, LinkedRest
<1>12. Genuine(p) /\ FeedRtp(p)
  <2>1. 1 \in 1..Len(f)
      BY <1>7, <1>8
  <2> QED BY <1>2, <1>6, <1>7, <1>8, <1>9, <2>1 DEF Linked
<1>13. PICK before \in Nat : FedInTurn(before) /\ Awaited(before)
    BY DEF PathInv
<1>14. Expects(p, before)
    BY <1>6, <1>8, <1>9, <1>13 DEF Awaited
<1>15. PICK h : h = AfterGapCheck(p)
    OBVIOUS
<1>16. h = fuaBuf
  <2>1. CASE lastSeq = -1
      BY <1>15, <2>1 DEF AfterGapCheck
  <2>2. CASE lastSeq # -1
    <3>1. lastSeq \in 0..(SeqSize - 1) /\ p.seq = (lastSeq + 1) % SeqSize
        BY <1>1, <1>14, <2>2 DEF ParserInv, Expects
    <3>2. PICK l \in 0..(SeqSize - 1) : l = lastSeq
        BY <3>1
    <3>3. (p.seq - lastSeq) % SeqSize = 1
        BY <3>1, <3>2, NoGap
    <3> QED BY <1>15, <3>3 DEF AfterGapCheck
  <2> QED BY <2>1, <2>2
<1>17. h # <<>> => Follows(h[Len(h)], p)
    BY <1>14, <1>16 DEF Expects
<1>18. PICK n \in Int : n = NextNal(before)
  <2>1. Len(fed) \in Nat /\ session \in Int
      BY <1>1, <1>5 DEF ParserInv, FedWhole, Grows
  <2>2. NextNal(before) \in Int
      BY <2>1 DEF NextNal
  <2> QED BY <2>2
<1>19. PICK more : more = Append(h, p)
    OBVIOUS
<1>20. /\ ParserInv'
       /\ lastSeq' = p.seq
       /\ \/ /\ h = <<>> /\ ~Begins(p)
          \/ ~Ends(p) /\ fuaBuf' = more /\ fed' = fed
          \/ /\ Ends(p) /\ fuaBuf' = <<>>
             /\ fed' = Append(fed, [packets |-> more, ts |-> p.ts])
  <2>1. /\ ParserInv'
        /\ lastSeq' = p.seq
        /\ \/ /\ h = <<>> /\ ~Begins(p)
              /\ fuaBuf' = <<>> /\ fed' = fed
           \/ /\ h # <<>> \/ Begins(p)
              /\ ~Ends(p)
              /\ fuaBuf' = Append(h, p) /\ fed' = fed
           \/ /\ h # <<>> \/ Begins(p)
              /\ Ends(p) /\ fuaBuf' = <<>>
              /\ fed' = Append(fed, [packets |-> Append(h, p), ts |-> p.ts])
    <3>1. given' = given /\ ParserInv
        BY <1>1, <1>3
    <3> QED BY <1>5, <1>12, <1>15, <1>17, <3>1, FeedGenuine
  <2> QED BY <1>19, <2>1
<1>21. Partial(h)
    BY <1>1, <1>16 DEF ParserInv
<1>22. h \in Seq(RtpPackets) /\ p \in RtpPackets /\ p.nal \in 1..Len(given)
    BY <1>12, <1>21 DEF Partial, Genuine
<1>23. p.nal = n /\ (h # <<>> => h[1].nal = n)
  <2>1. h = <<>> => p.nal = n
      BY <1>14, <1>16, <1>18 DEF Expects
  <2>2. ASSUME h # <<>> PROVE p.nal = n /\ h[1].nal = n
    <3>1. p.nal = h[1].nal
        BY <1>5, <1>12, <1>17, <1>21, <2>2, MorePartial
    <3>2. h[1].nal = n
        BY <1>13, <1>16, <1>18, <2>2 DEF Awaited
    <3> QED BY <3>1, <3>2
  <2> QED BY <2>1, <2>2
<1>24. more # <<>> /\ more[Len(more)] = p /\ more[1].nal = n
  <2>1. more # <<>> /\ more[Len(more)] = p
      BY <1>19, <1>22
  <2>2. h = <<>> => more[1] = p
      BY <1>19
  <2>3. h # <<>> => more[1] = h[1]
      BY <1>19, <1>22
  <2> QED BY <1>23, <2>1, <2>2, <2>3
<1>25. \/ ~Ends(p) /\ fuaBuf' = more /\ fed' = fed
       \/ /\ Ends(p) /\ fuaBuf' = <<>>
          /\ fed' = Append(fed, [packets |-> more, ts |-> p.ts])
    BY <1>14, <1>16, <1>20 DEF Expects
<1>26. PICK unit : unit = [packets |-> more, ts |-> p.ts]
    OBVIOUS
<1>27. PICK m \in Nat : m = Len(fed)
    BY <1>1 DEF ParserInv, FedWhole
<1>28. Ends(p) => /\ Len(fed') = m + 1
                  /\ \A k \in 1..m : fed'[k] = fed[k]
                  /\ fed'[m + 1] = unit
  <2> SUFFICES ASSUME Ends(p)
               PROVE  /\ Len(fed') = m + 1
                      /\ \A k \in 1..m : fed'[k] = fed[k]
                      /\ fed'[m + 1] = unit
      OBVIOUS
  <2>1. fed' = Append(fed, unit)
      BY <1>25, <1>26
  <2>2. fed \in Seq([packets : Seq(RtpPackets), ts : 0..(TsSize - 1)])
      BY <1>1 DEF ParserInv, FedWhole
  <2>3. unit \in [packets : Seq(RtpPackets), ts : 0..(TsSize - 1)]
    <3>1. more \in Seq(RtpPackets) /\ p.ts \in 0..(TsSize - 1)
        BY <1>19, <1>22 DEF RtpPackets
    <3> QED BY <1>26, <3>1
  <2> HIDE DEF PathInv
  <2> QED BY <1>27, <2>1, <2>2, <2>3, AppendFacts
<1>29. /\ session \in Nat /\ before <= m
       /\ n = session + (m - before)
    BY <1>1, <1>5, <1>13, <1>18, <1>27 DEF NextNal, FedInTurn, Grows
<1>30. /\ Ends(p) => NextNal(before)' = n + 1
       /\ ~Ends(p) => NextNal(before)' = n
  <2>1. Ends(p) => session + ((m + 1) - before) = n + 1
      BY <1>29
  <2> QED BY <1>2, <1>18, <1>25, <1>28, <2>1 DEF NextNal
<1>31. FedInTurn(before)'
  <2>1. CASE ~Ends(p)
      BY <1>2, <1>13, <1>25, <2>1 DEF FedInTurn
  <2>2. CASE Ends(p)
    <3>1. before \in 0..(m + 1)
        BY <1>29
    <3>2. ASSUME NEW k \in 1..(m + 1)
          PROVE  IF k <= before
                 THEN fed'[k].packets[1].nal < session
                 ELSE fed'[k].packets[1].nal = session + (k - before - 1)
      <4>1. CASE k \in 1..m
          BY <1>13, <1>27, <1>28, <2>2, <4>1 DEF FedInTurn
      <4>2. CASE k = m + 1
        <5>1. fed'[k].packets[1].nal = n
            BY <1>24, <1>26, <1>28, <2>2, <4>2
        <5>2. ~(k <= before) /\ session + (k - before - 1) = n
            BY <1>29, <4>2
        <5> QED BY <5>1, <5>2
      <4> QED BY <4>1, <4>2
    <3> QED BY <1>2, <1>28, <2>2, <3>1, <3>2 DEF FedInTurn
  <2> QED BY <2>1, <2>2
<1>32. ASSUME NEW q, Follows(p, q) PROVE Expects(q, before)'
  <2>1. q.seq = (lastSeq' + 1) % SeqSize
      BY <1>20, <1>32 DEF Follows
  <2>2. CASE ~Ends(p)
    <3>1. fuaBuf' = more
        BY <1>25, <2>2
    <3> QED BY <1>24, <1>32, <2>1, <3>1 DEF Expects, Follows, Begins, Ends
  <2>3. CASE Ends(p)
    <3>1. fuaBuf' = <<>> /\ Begins(q) /\ q.nal = n + 1
        BY <1>23, <1>25, <1>32, <2>3 DEF Follows
    <3> QED BY <1>30, <2>1, <2>3, <3>1 DEF Expects, Begins
  <2> QED BY <2>2, <2>3
<1>33. g # <<>> => Expects(Flight[1].packet, before)'
  <2>1. PICK q : q = g[1].packet
      OBVIOUS
  <2>2. g # <<>> => Expects(q, before)'
      BY <1>11, <1>32, <2>1
  <2> QED BY <1>10, <2>1, <2>2
<1>34. connected /\ g = <<>> => Due(p)
    BY <1>1, <1>6, <1>8, <1>11 DEF FlightInv
<1>35. ASSUME connected, g = <<>>, Sending PROVE Expects(out[index + 1], before)'
  <2>1. PICK q : q = out[index + 1]
      OBVIOUS
  <2>2. Follows(p, q)
      BY <1>34, <1>35, <2>1 DEF Due
  <2>3. Expects(q, before)'
      BY <1>32, <2>2
  <2> QED BY <1>2, <1>3, <2>1, <2>3
<1>36. ASSUME connected, g = <<>>, ~Sending
       PROVE  /\ fuaBuf' = <<>> /\ NextNal(before)' = Len(given) + 1
              /\ sequence = (lastSeq' + 1) % SeqSize
  <2>1. Ends(p) /\ p.nal = Len(given) /\ sequence = (p.seq + 1) % SeqSize
      BY <1>34, <1>36 DEF Due
  <2> QED BY <1>20, <1>23, <1>25, <1>30, <2>1
<1>37. Sending' = Sending
    BY <1>2, <1>3 DEF Sending
<1>38. fuaBuf' # <<>> => fuaBuf'[1].nal = NextNal(before)'
    BY <1>24, <1>25, <1>30
<1>39. Awaited(before)'
    BY <1>2, <1>3, <1>10, <1>33, <1>35, <1>36, <1>37, <1>38 DEF Awaited
<1>40. Linked(Flight)'
  <2>1. Linked(g)'
      BY <1>5, <1>11, LinkedKept
  <2> QED BY <1>10, <2>1
<1>41. connected => Complete(Flight)'
  <2>1. connected => Complete(g)
      BY <1>1, <1>6, <1>11 DEF FlightInv
  <2> QED BY <1>10, <2>1 DEF Complete
<1>42. ASSUME connected, g # <<>> PROVE Due(Flight[Len(Flight)].packet)'
  <2>1. PICK q : q = g[Len(g)].packet
      OBVIOUS
  <2>2. Due(q)
      BY <1>1, <1>6, <1>8, <1>11, <1>42, <2>1 DEF FlightInv
  <2>3. Due(q)'
      BY <1>3, <1>2, <1>37, <2>2 DEF Due, Follows, Begins, Ends
  <2> QED BY <1>10, <2>1, <2>3
<1>43. FlightInv'
    BY <1>2, <1>6, <1>7, <1>10, <1>40, <1>41, <1>42 DEF FlightInv
<1>44. PathInv'
    BY <1>1, <1>2, <1>3, <1>4, <1>13, <1>20, <1>31, <1>39, <1>43 DEF PathInv
<1>45. Ends(p) /\ fed # <<>> => n > fed[m].packets[1].nal
  <2> SUFFICES ASSUME fed # <<>> PROVE n > fed[m].packets[1].nal
      OBVIOUS
  <2>1. m \in 1..m
    <3>1. fed \in Seq([packets : Seq(RtpPackets), ts : 0..(TsSize - 1)])
        BY <1>1 DEF ParserInv, FedWhole
    <3>2. m # 0
        BY <1>27, <3>1
    <3> QED BY <3>2
  <2>2. IF m <= before
        THEN fed[m].packets[1].nal < session
        ELSE fed[m].packets[1].nal = session + (m - before - 1)
      BY <1>13, <1>27, <2>1 DEF FedInTurn
  <2>3. PICK x : x = fed[m].packets[1].nal
      OBVIOUS
  <2>4. x \in Int
    <3>1. Entire(fed[m].packets)
        BY <1>1, <1>27, <2>1 DEF ParserInv, FedWhole
    <3> QED BY <1>5, <2>3, <3>1 DEF Entire, Grows
  <2> QED BY <1>29, <2>2, <2>3, <2>4
<1>46. \/ fed' = fed
       \/ /\ fed' = Append(fed, unit)
          /\ unit.packets[1].nal \in 1..Len(given)
          /\ fed # <<>> => unit.packets[1].nal > fed[Len(fed)].packets[1].nal
    BY <1>22, <1>23, <1>24, <1>25, <1>26, <1>27, <1>45
<1> QED BY <1>44, <1>46

LEMMA PathStays ==
    ASSUME PathInv, UNCHANGED vars
    PROVE  PathInv'
<1>1. UNCHANGED packetizerVars /\ UNCHANGED parserVars /\ UNCHANGED pathVars
    BY DEF vars
<1>2. UNCHANGED <<given, sequence, out>>
    BY <1>1 DEF packetizerVars
<1>3. UNCHANGED <<lastSeq, fuaBuf, fuaTs>> /\ fed' = fed
    BY <1>1 DEF parserVars
<1>4. UNCHANGED <<connected, index, session>> /\ UNCHANGED <<wire, buf>>
    BY <1>1 DEF pathVars
<1>5. PacketizerInv'
    BY <1>1, PacketizerStays DEF PathInv
<1>6. Grows
  <2>1. given \in Seq(Sizes)
      BY DEF PathInv, PacketizerInv
  <2> QED BY <1>2, <2>1 DEF Grows
<1>7. ParserInv'
    BY <1>3, <1>6, ParserKept DEF PathInv
<1>8. PICK f : f = Flight
    OBVIOUS
<1>9. Flight' = f /\ Linked(f)
    BY <1>4, <1>8 DEF PathInv, FlightInv, Flight
<1>10. Linked(Flight)'
  <2>1. Linked(f)'
      BY <1>6, <1>9, LinkedKept
  <2> QED BY <1>9, <2>1
<1>11. \A q : Due(q)' <=> Due(q)
    BY <1>2, <1>4 DEF Due, Sending, Follows, Begins, Ends
<1>12. ASSUME connected, Flight # <<>> PROVE Due(Flight[Len(Flight)].packet)'
  <2>1. PICK q : q = f[Len(f)].packet
      OBVIOUS
  <2>2. Due(q)
      BY <1>8, <1>12, <2>1 DEF PathInv, FlightInv
  <2>3. Due(q)'
      BY <1>11, <2>2
  <2> QED BY <1>9, <2>1, <2>3
<1>13. connected => Complete(Flight)'
    BY <1>8, <1>9 DEF PathInv, FlightInv, Complete
<1>14. FlightInv'
    BY <1>4, <1>8, <1>9, <1>10, <1>12, <1>13 DEF PathInv, FlightInv
<1>15. PICK before \in Nat : FedInTurn(before) /\ Awaited(before)
    BY DEF PathInv
<1>16. FedInTurn(before)'
    BY <1>3, <1>4, <1>15 DEF FedInTurn
<1>17. Awaited(before)'
    BY <1>2, <1>3, <1>4, <1>15
       DEF Awaited, Expects, NextNal, Follows, Begins, Ends, Flight, Sending
<1> QED BY <1>2, <1>4, <1>5, <1>7, <1>14, <1>15, <1>16, <1>17 DEF PathInv

LEMMA PathKept ==
    ASSUME PathInv, [Next]_vars
    PROVE  PathInv'
<1>1. CASE Frame
  <2>1. /\ connected /\ ~Sending /\ PacketizerNext /\ index' = 0
        /\ UNCHANGED parserVars /\ UNCHANGED <<connected, wire, buf, session>>
      BY <1>1 DEF Frame
  <2>2. UNCHANGED <<lastSeq, fuaBuf, fuaTs>> /\ fed' = fed
      BY <2>1 DEF parserVars
  <2> QED BY <2>1, <2>2, PathFrame
<1>2. CASE DropFrame
  <2>1. /\ ~connected /\ PacketizerNext /\ index' = Len(out')
        /\ UNCHANGED parserVars /\ UNCHANGED <<connected, wire, buf, session>>
      BY <1>2 DEF DropFrame
  <2>2. UNCHANGED <<lastSeq, fuaBuf, fuaTs>> /\ fed' = fed
      BY <2>1 DEF parserVars
  <2> QED BY <2>1, <2>2, PathFrame
<1>3. CASE Connect
    BY <1>3, PathConnect
<1>4. CASE SendRtp
    BY <1>4, PathSend
<1>5. CASE Break
    BY <1>5, PathBreak
<1>6. CASE Recv
    BY <1>6, PathRecv
<1>7. CASE HandlePacket
    BY <1>7, PathHandle
<1>8. CASE UNCHANGED vars
    BY <1>8, PathStays
<1> QED BY <1>1, <1>2, <1>3, <1>4, <1>5, <1>6, <1>7, <1>8 DEF Next

LEMMA PathHolds == Spec => []PathInv
<1>1. Init => PathInv
    BY PathStarts
<1>2. PathInv /\ [Next]_vars => PathInv'
    BY PathKept
<1> QED BY <1>1, <1>2, PTL DEF Spec

\* However the NAL units of a frame are cut into packets, and however far the
\* sequence number has got, Packetize sends the frame whole: every byte once, in
\* order, numbered one after the other and marked at its end only.
THEOREM FramesSentWhole == Spec => []FrameWhole
<1>1. PathInv => FrameWhole
    BY DEF PathInv, PacketizerInv
<1> QED BY <1>1, PathHolds, PTL

\* Across partial reads, broken connections and frames that were never sent,
\* feed_nal is only given NAL units with all their bytes, each under the
\* timestamp of its frame.
THEOREM UnitsArriveWhole == Spec => []ArriveWhole
<1>1. PathInv => ArriveWhole
  <2> SUFFICES ASSUME PathInv PROVE ArriveWhole
      OBVIOUS
  <2>1. /\ DOMAIN fed = 1..Len(fed)
        /\ \A k \in 1..Len(fed) : /\ Entire(fed[k].packets)
                                  /\ fed[k].ts = fed[k].packets[1].ts
    <3>1. fed \in Seq([packets : Seq(RtpPackets), ts : 0..(TsSize - 1)])
        BY DEF PathInv, ParserInv, FedWhole
    <3>2. DOMAIN fed = 1..Len(fed)
        BY <3>1
    <3> QED BY <3>2 DEF PathInv, ParserInv, FedWhole
  <2>2. ASSUME NEW k \in DOMAIN fed
        PROVE  /\ \A i \in DOMAIN fed[k].packets :
                     fed[k].packets[i].nal = fed[k].packets[1].nal
               /\ CarryWhole(fed[k].packets, given[fed[k].packets[1].nal])
               /\ fed[k].ts = fed[k].packets[1].ts
      BY <2>1 DEF Entire
  <2> QED BY <2>2 DEF ArriveWhole
<1> QED BY <1>1, PathHolds, PTL

\* While a connection lasts, the NAL units sent on it arrive without one missing
\* and in order; when nothing is in flight, all of them have.
THEOREM NothingLost == Spec => []NothingLostInSession
<1>1. PathInv => NothingLostInSession
  <2> SUFFICES ASSUME PathInv PROVE NothingLostInSession
      OBVIOUS
  <2>1. PICK before \in Nat : FedInTurn(before) /\ Awaited(before)
      BY DEF PathInv
  <2>2. DOMAIN fed = 1..Len(fed) /\ Len(fed) \in Nat
      BY DEF PathInv, ParserInv, FedWhole
  <2>3. Received = [k \in 1..Len(fed) |-> fed[k].packets[1].nal]
      BY <2>2 DEF Received
  <2>4. \A k \in DOMAIN fed : Received[k] = fed[k].packets[1].nal
      BY <2>2, <2>3
  <2>5. /\ before \in 0..Len(fed)
        /\ \A k \in 1..Len(fed) :
              IF k <= before
              THEN fed[k].packets[1].nal < session
              ELSE fed[k].packets[1].nal = session + (k - before - 1)
      BY <2>1 DEF FedInTurn
  <2>6. \A k \in DOMAIN fed :
           IF k <= before THEN Received[k] < session
                          ELSE Received[k] = session + (k - before - 1)
      BY <2>2, <2>4, <2>5
  <2>7. ASSUME connected, wire = <<>>, buf = <<>>, ~Sending
        PROVE  Len(fed) - before = Len(given) - session + 1
    <3>1. Flight = <<>>
        BY <2>7 DEF Flight
    <3>2. NextNal(before) = Len(given) + 1
        BY <2>1, <2>7, <3>1 DEF Awaited
    <3>3. Len(given) \in Nat /\ session \in Int
      <4>1. given \in Seq(Sizes)
          BY DEF PathInv, PacketizerInv
      <4>2. Len(given) \in Nat
          BY <4>1
      <4> QED BY <4>2 DEF PathInv
    <3> QED BY <2>2, <3>2, <3>3 DEF NextNal
  <2> QED BY <2>5, <2>6, <2>7 DEF NothingLostInSession
<1> QED BY <1>1, PathHolds, PTL

\* The path implements the abstract pipe: every step gives NAL units to the pipe,
\* lets one come out that is later than those before, or is invisible.
THEOREM PathIsPipe == Spec => ImplementsNalPipe
<1>1. Init => Pipe!Init
  <2> SUFFICES ASSUME Init PROVE Len(given) = 0 /\ Received = <<>>
      BY DEF Pipe!Init
  <2>1. given = <<>> /\ fed = <<>>
      BY DEF Init, PacketizerInit, ParserInit
  <2>2. Received = [k \in DOMAIN fed |-> fed[k].packets[1].nal]
      BY DEF Received
  <2>3. DOMAIN fed = 1..0
      BY <2>1
  <2> QED BY <2>1, <2>2, <2>3
<1>2. ASSUME PathInv, [Next]_vars
      PROVE  [Pipe!Next]_<<Len(given), Received>>
  <2>1. /\ given \in Seq(Sizes) /\ Len(given) \in Nat
        /\ fed \in Seq([packets : Seq(RtpPackets), ts : 0..(TsSize - 1)])
    <3>1. given \in Seq(Sizes)
        BY <1>2 DEF PathInv, PacketizerInv
    <3> QED BY <1>2, <3>1 DEF PathInv, ParserInv, FedWhole
  <2>2. CASE Frame \/ DropFrame \/ Connect
    <3>1. PacketizerNext /\ fed' = fed
        BY <2>2 DEF Frame, DropFrame, Connect, parserVars
    <3>2. PacketizerInv' /\ Len(given') >= Len(given)
        BY <1>2, <3>1, PacketizerKeeps DEF PathInv
    <3>3. Len(given') \in Nat
      <4>1. given' \in Seq(Sizes)
          BY <3>2 DEF PacketizerInv
      <4> QED BY <4>1
    <3>4. Received' = Received
        BY <3>1 DEF Received
    <3>5. Len(given') = Len(given) \/ Len(given') > Len(given)
        BY <2>1, <3>2, <3>3
    <3> QED BY <3>3, <3>4, <3>5 DEF Pipe!Next, Pipe!Give
  <2>3. CASE SendRtp \/ Break \/ Recv \/ UNCHANGED vars
    <3>1. UNCHANGED packetizerVars /\ UNCHANGED parserVars
        BY <2>3 DEF SendRtp, Break, Recv, vars
    <3>2. given' = given /\ fed' = fed
        BY <3>1 DEF packetizerVars, parserVars
    <3>3. Len(given') = Len(given) /\ Received' = Received
        BY <3>2 DEF Received
    <3> QED BY <3>3
  <2>4. CASE HandlePacket
    <3>1. given' = given
        BY <2>4 DEF HandlePacket, packetizerVars
    <3>2. CASE fed' = fed
      <4>1. Received' = Received
          BY <3>2 DEF Received
      <4> QED BY <3>1, <4>1
    <3>3. CASE fed' # fed
      <4>1. PICK unit : /\ fed' = Append(fed, unit)
                        /\ unit.packets[1].nal \in 1..Len(given)
                        /\ fed # <<>> =>
                             unit.packets[1].nal > fed[Len(fed)].packets[1].nal
          BY <1>2, <2>4, <3>3, PathHandle
      <4>2. PICK n \in 1..Len(given) : n = unit.packets[1].nal
          BY <4>1
      <4>3. PICK m \in Nat : m = Len(fed)
          BY <2>1
      <4>4. DOMAIN fed = 1..m /\ (m = 0 <=> fed = <<>>)
          BY <2>1, <4>3
      <4>5. /\ DOMAIN fed' = 1..(m + 1)
            /\ \A k \in 1..m : fed'[k] = fed[k]
            /\ fed'[m + 1] = unit
          BY <2>1, <4>1, <4>3
      <4>6. Received = [k \in 1..m |-> fed[k].packets[1].nal]
          BY <4>4 DEF Received
      <4>7. Received' = [k \in 1..(m + 1) |-> fed'[k].packets[1].nal]
          BY <4>5 DEF Received
      <4>8. \A k \in 1..m : fed[k].packets[1].nal \in Nat
        <5>1. ASSUME NEW k \in 1..m PROVE fed[k].packets[1].nal \in Nat
          <6>1. Entire(fed[k].packets)
              BY <1>2, <4>3 DEF PathInv, ParserInv, FedWhole
          <6>2. fed[k].packets[1].nal \in 1..Len(given)
              BY <6>1 DEF Entire
          <6>3. \A x \in 1..Len(given) : x \in Nat
              BY <2>1
          <6> QED BY <6>2, <6>3
        <5> QED BY <5>1
      <4>9. Received \in Seq(Nat) /\ Len(Received) = m
          BY <4>6, <4>8
      <4>10. Received' = Append(Received, n)
        <5>1. /\ Append(Received, n) \in Seq(Nat)
              /\ Len(Append(Received, n)) = m + 1
              /\ \A k \in 1..m : Append(Received, n)[k] = Received[k]
              /\ Append(Received, n)[m + 1] = n
          <6>1. n \in Nat
              BY <2>1
          <6> QED BY <4>9, <6>1, AppendFacts
        <5>2. \A k \in 1..(m + 1) : k \in 1..m \/ k = m + 1
            OBVIOUS
        <5>3. \A k \in 1..(m + 1) :
                 Append(Received, n)[k] = fed'[k].packets[1].nal
            BY <4>2, <4>5, <4>6, <5>1, <5>2
        <5>4. \A k \in 1..(m + 1) : fed'[k].packets[1].nal \in Nat
            BY <2>1, <4>1, <4>5, <4>8, <5>2
        <5>5. PICK r, t : r = Append(Received, n) /\ t = Received'
            OBVIOUS
        <5>6. t \in Seq(Nat) /\ Len(t) = m + 1
            BY <4>7, <5>4, <5>5
        <5>7. \A k \in 1..(m + 1) : r[k] = t[k]
            BY <4>7, <5>3, <5>5
        <5>8. r \in Seq(Nat) /\ Len(r) = m + 1
            BY <5>1, <5>5
        <5>9. r = t
            BY <5>6, <5>7, <5>8, SameSeq
        <5> QED BY <5>5, <5>9
      <4>11. Received # <<>> => n > Received[Len(Received)]
        <5>1. ASSUME Received # <<>> PROVE n > Received[m]
          <6>1. m # 0
              BY <4>9, <5>1
          <6>2. m \in 1..m
              BY <6>1
          <6> QED BY <4>1, <4>2, <4>3, <4>4, <4>6, <6>1, <6>2
        <5> QED BY <4>9, <5>1
      <4> QED BY <3>1, <4>10, <4>11 DEF Pipe!Next, Pipe!Receive
    <3> QED BY <3>2, <3>3
  <2> QED BY <1>2, <2>2, <2>3, <2>4 DEF Next
<1>3. PathInv /\ [Next]_vars => [Pipe!Next]_<<Len(given), Received>>
    BY <1>2
<1> QED BY <1>1, <1>3, PathHolds, PTL DEF Spec, ImplementsNalPipe, Pipe!Spec
=============================================================================
