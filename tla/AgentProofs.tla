---------------------------- MODULE AgentProofs ----------------------------
(***************************************************************************)
(* Proofs about IntraRefresh, for pictures of every width and periods of   *)
(* every length, and about Agent and the colours it sends: what the program *)
(* gives back when it exits, that its encoder's steps are those of         *)
(* IntraRefresh, and the range of every sample.                            *)
(***************************************************************************)
EXTENDS Agent, SequenceFacts, TLAPS

\* What a division by a positive number rounds to is at least m exactly if the
\* dividend is.
LEMMA QuotientAtLeast ==
    ASSUME NEW a \in Nat, NEW d \in Nat \ {0}, NEW m \in Nat
    PROVE  a \div d \in Nat /\ (a \div d >= m <=> a >= d * m)
PROOF
<1> DEFINE c == a \div d
<1>1. c \in Int /\ a % d \in 0..(d - 1) /\ a = d * c + (a % d)
  BY SMT
<1> HIDE DEF c
<1>2. ASSUME c >= m PROVE a >= d * m
  <2>1. d * c >= d * m
    BY <1>1, <1>2, SMT
  <2> QED BY <1>1, <2>1
<1>3. ASSUME a >= d * m PROVE c >= m
  <2>1. SUFFICES ASSUME c <= m - 1 PROVE FALSE
    BY <1>1
  <2>2. d * c <= d * (m - 1)
    BY <1>1, <2>1, SMT
  <2>3. d * (m - 1) = d * m - d
    BY SMT
  <2> QED BY <1>1, <1>3, <2>2, <2>3
<1>4. c >= 0
  <2>1. SUFFICES ASSUME c <= -1 PROVE FALSE
    BY <1>1
  <2>2. d * c <= d * (-1)
    BY <1>1, <2>1, SMT
  <2> QED BY <1>1, <2>2
<1> QED BY <1>1, <1>2, <1>3, <1>4 DEF c

\* When a position has reached a column.
LEMMA ColumnAtLeast ==
    ASSUME NEW pos \in Nat, NEW m \in Nat
    PROVE  /\ Column(pos) \in Nat
           /\ Column(pos) >= m <=> 2 * pos + Keyint >= 2 * (Keyint * m)
PROOF
<1>1. 2 * pos + Keyint \in Nat /\ 2 * Keyint \in Nat \ {0}
  BY RefreshAssumption
<1>2. (2 * Keyint) * m = 2 * (Keyint * m)
  BY RefreshAssumption, SMT
<1> QED BY <1>1, <1>2, QuotientAtLeast DEF Column

\* A bar that is done is right of the picture, and stays there.
LEMMA CompleteColumn ==
    ASSUME width \in Nat \ {0, 1}
    PROVE  /\ Complete \in Nat /\ Increment \in Nat \ {0}
           /\ Column(Complete) = width
           /\ Column(Complete + Increment) >= width
PROOF
<1>1. Complete \in Nat /\ Increment \in Nat \ {0}
  BY RefreshAssumption DEF Complete, Increment
<1>2. Column(Complete) >= width
  BY <1>1, ColumnAtLeast, RefreshAssumption DEF Complete
<1>3. ~(Column(Complete) >= width + 1)
  <2>1. 2 * (Keyint * (width + 1)) = 2 * Complete + 2 * Keyint
    BY RefreshAssumption, SMT DEF Complete
  <2> QED BY <1>1, <2>1, ColumnAtLeast, RefreshAssumption
<1>4. Column(Complete + Increment) >= width
  BY <1>1, ColumnAtLeast, RefreshAssumption DEF Complete
<1>5. Column(Complete) \in Nat /\ width \in Nat
  <2>1. 0 \in Nat
    OBVIOUS
  <2> QED BY <1>1, <2>1, ColumnAtLeast
<1> QED BY <1>1, <1>2, <1>3, <1>4, <1>5

\* The bar reaches the last column with its (TimeToRecovery + 1)-th frame.
LEMMA BarReaches ==
    ASSUME width \in Nat \ {0, 1}, NEW n \in Nat
    PROVE  /\ n * Increment \in Nat
           /\ Column(n * Increment) >= width - 1 <=> n >= TimeToRecovery + 1
PROOF
<1> DEFINE m == width - 1
<1>0. m \in Nat \ {0}
  OBVIOUS
<1>1. n * Increment \in Nat
  BY CompleteColumn
<1>2. Column(n * Increment) >= m
          <=> 2 * (n * Increment) + Keyint >= 2 * (Keyint * m)
  BY <1>0, <1>1, ColumnAtLeast
<1>3. CASE m > Keyint
  <2>1. Increment = m /\ TimeToRecovery + 1 = Keyint
    BY <1>0, <1>3, RefreshAssumption DEF Increment, TimeToRecovery, Least
  <2>2. ASSUME n >= Keyint PROVE n * m >= Keyint * m
    BY <1>0, <2>2, RefreshAssumption, SMT
  <2>3. ASSUME n <= Keyint - 1 PROVE 2 * (n * m) + Keyint < 2 * (Keyint * m)
    <3>1. n * m <= (Keyint - 1) * m
      BY <1>0, <2>3, RefreshAssumption, SMT
    <3>2. (Keyint - 1) * m = Keyint * m - m
      BY <1>0, RefreshAssumption, SMT
    <3>3. n * m \in Int /\ Keyint * m \in Int
      BY <1>0, RefreshAssumption, SMT
    <3> HIDE DEF m
    <3> QED BY <1>0, <1>3, <3>1, <3>2, <3>3, RefreshAssumption
  <2>4. n * m \in Int /\ Keyint * m \in Int
    BY <1>0, RefreshAssumption, SMT
  <2> HIDE DEF m
  <2>5. n >= Keyint \/ n <= Keyint - 1
    BY RefreshAssumption
  <2>6. Column(n * Increment) >= m <=> n >= TimeToRecovery + 1
    BY <1>2, <2>1, <2>2, <2>3, <2>4, <2>5, RefreshAssumption
  <2> QED BY <1>1, <2>6 DEF m
<1>4. CASE m <= Keyint
  <2>1. Increment = Keyint /\ TimeToRecovery + 1 = m
    BY <1>0, <1>4, RefreshAssumption DEF Increment, TimeToRecovery, Least
  <2>2. ASSUME n >= m PROVE n * Keyint >= Keyint * m
    BY <1>0, <2>2, RefreshAssumption, SMT
  <2>3. ASSUME n <= m - 1 PROVE 2 * (n * Keyint) + Keyint < 2 * (Keyint * m)
    <3>1. n * Keyint <= (m - 1) * Keyint
      BY <1>0, <2>3, RefreshAssumption, SMT
    <3>2. (m - 1) * Keyint = Keyint * m - Keyint
      BY <1>0, RefreshAssumption, SMT
    <3>3. n * Keyint \in Int /\ Keyint * m \in Int
      BY <1>0, RefreshAssumption, SMT
    <3> HIDE DEF m
    <3> QED BY <1>0, <3>1, <3>2, <3>3, RefreshAssumption
  <2>4. n * Keyint \in Int /\ Keyint * m \in Int
    BY <1>0, RefreshAssumption, SMT
  <2> HIDE DEF m
  <2>5. n >= m \/ n <= m - 1
    BY <1>0
  <2>6. Column(n * Increment) >= m <=> n >= TimeToRecovery + 1
    BY <1>2, <2>1, <2>2, <2>3, <2>4, <2>5, RefreshAssumption
  <2> QED BY <1>1, <2>6 DEF m
<1> QED BY <1>0, <1>3, <1>4, RefreshAssumption
-----------------------------------------------------------------------------
\* Where the bar is.
BarShape ==
    /\ gop = "new" => /\ clean = 0 /\ intact = 0 /\ endCol = 0 /\ age = 0
                      /\ frame = NoFrame
    /\ gop = "idr" => position = Complete
    /\ gop = "bars" => IF age >= TimeToRecovery
                       THEN position = Complete /\ endCol = width - 1
                       ELSE /\ position = (age + 1) * Increment
                            /\ endCol = Column(position) /\ endCol < width - 1

\* What the decoder has, between two frames.
CleanBetween ==
    frame = NoFrame =>
        /\ gop = "idr" /\ intact > age => clean = width
        /\ gop = "bars" /\ intact > age => clean >= endCol + 1
        /\ gop = "bars" /\ intact > age + Keyint => clean = width

\* What it needs for the frame it may get next.
CleanInFlight ==
    frame # NoFrame =>
        /\ gop = "idr" => /\ frame.to = width - 1
                          /\ frame.needs = 0 \/ (frame.needs = width /\ age >= 1)
                          /\ frame.needs # 0 /\ intact >= age => clean = width
        /\ gop = "bars" => /\ frame.to = endCol
                           /\ ~frame.strayed /\ intact >= age =>
                                  clean >= frame.needs
                           /\ intact >= age + Keyint => clean = width

RefreshInv == RefreshTypeOK /\ BarShape /\ CleanBetween /\ CleanInFlight

LEMMA RecoveryBounds ==
    ASSUME width \in Nat \ {0, 1}
    PROVE  TimeToRecovery \in 0..(Keyint - 1) /\ TimeToRecovery <= width - 2
PROOF
<1> QED BY RefreshAssumption DEF TimeToRecovery, Least

\* The first frame leaves the invariant true.
LEMMA IdrStep ==
    ASSUME RefreshInv, EncodeIdr
    PROVE  RefreshInv'
PROOF
<1>1. width \in Nat \ {0, 1} /\ width' = width
  BY RefreshAssumption DEF RefreshInv, RefreshTypeOK, EncodeIdr
<1>2. Complete \in Nat /\ Complete' = Complete
  BY <1>1, CompleteColumn DEF Complete
<1>3. frame' \in Frames /\ frame' # NoFrame
  BY <1>1 DEF EncodeIdr, Frames, NoFrame
<1>4. RefreshTypeOK'
  <2>1. width' \in Widths /\ clean' = clean /\ intact' = intact /\ asked' = asked
    BY DEF RefreshInv, RefreshTypeOK, EncodeIdr, decoderVars
  <2>2. gop' = "idr" /\ position' \in Nat /\ endCol' = endCol /\ age' = 0
        /\ queued' = FALSE
    BY <1>2 DEF EncodeIdr
  <2>3. 0 \in 0..(Keyint - 1)
    BY RefreshAssumption
  <2> QED BY <1>1, <1>3, <2>1, <2>2, <2>3 DEF RefreshInv, RefreshTypeOK
<1>5. BarShape'
  BY <1>2 DEF EncodeIdr, BarShape
<1>6. CleanBetween' /\ CleanInFlight'
  <2>1. gop' = "idr" /\ frame'.to = width - 1 /\ frame'.needs = 0
    BY DEF EncodeIdr
  <2> QED BY <1>1, <1>3, <2>1 DEF CleanBetween, CleanInFlight
<1> QED BY <1>4, <1>5, <1>6 DEF RefreshInv

\* How a bar goes on: at its n-th frame, or after its last.
LEMMA BarStep ==
    ASSUME width \in Nat \ {0, 1}, width' = width,
           NEW from \in Nat, NEW next \in Nat, NEW strayed \in BOOLEAN,
           endCol \in 0..(width - 1), Bar(from, next, strayed)
    PROVE  /\ position' \in Nat /\ endCol' \in 0..(width - 1)
           /\ frame' \in Frames /\ frame' # NoFrame
           /\ frame'.from = from /\ frame'.to = endCol'
           /\ frame'.needs = Needs(from, strayed) /\ frame'.strayed = strayed
           /\ IF Column(next) >= width - 1
              THEN position' = Complete /\ endCol' = width - 1
              ELSE position' = next /\ endCol' = Column(next)
PROOF
<1> DEFINE to == Least(Column(next), width - 1)
<1>1. Column(next) \in Nat
  BY ColumnAtLeast
<1>2. to \in 0..(width - 1) /\ (to = width - 1 <=> Column(next) >= width - 1)
      /\ (Column(next) < width - 1 => to = Column(next))
  BY <1>1 DEF Least
<1>3. Needs(from, strayed) \in Nat
  BY DEF Needs
<1>4. /\ position' = IF to = width - 1 THEN Complete ELSE next
      /\ endCol' = to
      /\ frame' = [from |-> from, to |-> to, needs |-> Needs(from, strayed),
                   strayed |-> strayed]
  BY DEF Bar
<1> HIDE DEF to
<1>5. frame' \in Frames /\ frame' # NoFrame
  BY <1>2, <1>3, <1>4 DEF Frames, NoFrame
<1> QED BY <1>1, <1>2, <1>4, <1>5, CompleteColumn

\* A frame that starts a bar leaves the invariant true: the bar before is done.
LEMMA RestartStep ==
    ASSUME RefreshInv, gop # "new", frame = NoFrame, Restarts,
           age' = 0, queued' = FALSE, gop' = "bars", Bar(0, Increment, FALSE),
           UNCHANGED <<width, decoderVars>>
    PROVE  RefreshInv' /\ (gop = "bars" => position = Complete)
PROOF
<1>1. width \in Nat \ {0, 1} /\ width' = width
  BY RefreshAssumption DEF RefreshInv, RefreshTypeOK
<1>t. /\ TimeToRecovery \in 0..(Keyint - 1) /\ TimeToRecovery' = TimeToRecovery
      /\ Complete' = Complete /\ Increment' = Increment
  BY <1>1, RecoveryBounds DEF TimeToRecovery, Complete, Increment, Least
<1>2. age \in 0..(Keyint - 1) /\ endCol \in 0..(width - 1) /\ position \in Nat
      /\ clean \in 0..width /\ intact \in 0..Cap /\ asked \in 0..Cap
      /\ gop \in {"idr", "bars"}
  BY DEF RefreshInv, RefreshTypeOK
<1>3. ASSUME gop = "bars" PROVE age >= TimeToRecovery
  <2>1. CASE age + 1 >= Keyint
    BY <1>t, <1>2, <2>1, RefreshAssumption
  <2>2. CASE BarDone
    <3>1. Column(position) >= width
      BY <1>1, <1>2, <2>2, ColumnAtLeast DEF BarDone, Complete
    <3>2. ~(age < TimeToRecovery)
      BY <1>1, <1>2, <1>3, <1>t, <3>1, ColumnAtLeast DEF RefreshInv, BarShape
    <3> QED BY <1>2, <1>t, <3>2
  <2> QED BY <2>1, <2>2 DEF Restarts
<1>4. gop = "bars" => position = Complete /\ endCol = width - 1
  BY <1>3 DEF RefreshInv, BarShape
<1>5. intact >= Keyint => clean = width
  BY <1>1, <1>2, <1>4, RefreshAssumption DEF RefreshInv, CleanBetween
<1>6. /\ position' \in Nat /\ endCol' \in 0..(width - 1)
      /\ frame' \in Frames /\ frame' # NoFrame
      /\ frame'.to = endCol' /\ frame'.needs = 0
      /\ IF Column(Increment) >= width - 1
         THEN position' = Complete /\ endCol' = width - 1
         ELSE position' = Increment /\ endCol' = Column(Increment)
  <2>1. Needs(0, FALSE) = 0
    BY DEF Needs
  <2>2. Increment \in Nat
    BY <1>1, CompleteColumn
  <2> HIDE DEF Bar
  <2> QED BY <1>1, <1>2, <2>1, <2>2, BarStep
<1>7. RefreshTypeOK'
  <2>1. width' \in Widths /\ clean' = clean /\ intact' = intact /\ asked' = asked
    BY DEF RefreshInv, RefreshTypeOK, decoderVars
  <2>2. 0 \in 0..(Keyint - 1)
    BY RefreshAssumption
  <2> QED BY <1>1, <1>2, <1>6, <2>1, <2>2 DEF RefreshTypeOK
<1>8. BarShape'
  <2>1. Column(Increment) >= width - 1 <=> 1 >= TimeToRecovery + 1
    <3>1. 1 * Increment = Increment
      BY <1>1, CompleteColumn
    <3> QED BY <1>1, <3>1, BarReaches
  <2>2. (0 + 1) * Increment = Increment
    BY <1>1, CompleteColumn
  <2>3. Column(position)' = Column(position')
    BY DEF Column
  <2>4. CASE Column(Increment) >= width - 1
    <3>1. age' >= TimeToRecovery'
      BY <1>t, <2>1, <2>4
    <3>2. position' = Complete' /\ endCol' = width' - 1
      BY <1>1, <1>t, <1>6, <2>4
    <3> QED BY <3>1, <3>2 DEF BarShape
  <2>5. CASE ~(Column(Increment) >= width - 1)
    <3>1. ~(age' >= TimeToRecovery')
      BY <1>t, <2>1, <2>5
    <3>2. position' = (age' + 1) * Increment' /\ endCol' = Column(position')
      BY <1>t, <1>6, <2>2, <2>5
    <3>3. endCol' < width' - 1
      BY <1>1, <1>6, <2>5, CompleteColumn, ColumnAtLeast
    <3> QED BY <2>3, <3>1, <3>2, <3>3 DEF BarShape
  <2> QED BY <2>4, <2>5
<1>9. CleanBetween' /\ CleanInFlight'
  <2>1. /\ width' = width /\ clean' = clean /\ intact' = intact
        /\ gop' = "bars" /\ age' = 0
    BY DEF decoderVars
  <2>2. intact' >= age' + Keyint => clean' = width'
    BY <1>2, <1>5, <2>1, RefreshAssumption
  <2>3. clean' >= frame'.needs
    BY <1>2, <1>6, <2>1
  <2> QED BY <1>6, <2>1, <2>2, <2>3 DEF CleanBetween, CleanInFlight
<1> QED BY <1>4, <1>7, <1>8, <1>9 DEF RefreshInv

\* A frame that goes on with a bar, or comes after it, leaves it true.
LEMMA GoOnStep ==
    ASSUME RefreshInv, gop # "new", frame = NoFrame, ~Restarts,
           NEW strayed \in BOOLEAN,
           age' = age + 1, UNCHANGED <<queued, gop>>,
           Bar(Column(position), position + Increment, strayed),
           UNCHANGED <<width, decoderVars>>
    PROVE  RefreshInv'
PROOF
<1>1. width \in Nat \ {0, 1} /\ width' = width
  BY RefreshAssumption DEF RefreshInv, RefreshTypeOK
<1>t. /\ TimeToRecovery \in 0..(Keyint - 1) /\ TimeToRecovery' = TimeToRecovery
      /\ Complete' = Complete /\ Increment' = Increment
      /\ Complete \in Nat /\ Increment \in Nat \ {0} /\ Column(Complete) = width
  BY <1>1, RecoveryBounds, CompleteColumn
     DEF TimeToRecovery, Complete, Increment, Least
<1>2. age \in 0..(Keyint - 1) /\ endCol \in 0..(width - 1) /\ position \in Nat
      /\ clean \in 0..width /\ intact \in 0..Cap /\ asked \in 0..Cap
      /\ gop \in {"idr", "bars"} /\ queued \in BOOLEAN /\ width \in Widths
  BY DEF RefreshInv, RefreshTypeOK
<1>3. width' \in Widths /\ clean' = clean /\ intact' = intact /\ asked' = asked
      /\ queued' = queued /\ gop' = gop
  BY <1>2 DEF decoderVars
<1>4. age' \in 1..(Keyint - 1)
  BY <1>2, RefreshAssumption DEF Restarts
<1>5. Column(position) \in Nat /\ position + Increment \in Nat
  BY <1>2, <1>t, ColumnAtLeast
<1>6. /\ position' \in Nat /\ endCol' \in 0..(width - 1)
      /\ frame' \in Frames /\ frame' # NoFrame
      /\ frame'.to = endCol' /\ frame'.strayed = strayed
      /\ frame'.needs = Needs(Column(position), strayed)
      /\ IF Column(position + Increment) >= width - 1
         THEN position' = Complete /\ endCol' = width - 1
         ELSE /\ position' = position + Increment
              /\ endCol' = Column(position + Increment)
  <2> HIDE DEF Bar
  <2> QED BY <1>1, <1>2, <1>5, BarStep
<1>7. RefreshTypeOK'
  BY <1>2, <1>3, <1>4, <1>6, <1>1 DEF RefreshTypeOK
<1>8. position = Complete => position' = Complete /\ endCol' = width - 1
  <2>1. Column(Complete + Increment) \in Nat
    BY <1>t, ColumnAtLeast
  <2> QED BY <1>1, <1>6, <2>1, CompleteColumn
<1>9. ASSUME gop = "bars", ~(age >= TimeToRecovery)
      PROVE  /\ Column(position) = endCol /\ position + Increment = (age' + 1) * Increment
             /\ Column(position + Increment) >= width - 1 <=> age' >= TimeToRecovery
  <2>1. position = (age + 1) * Increment /\ endCol = Column(position)
    BY <1>9 DEF RefreshInv, BarShape
  <2>2. (age + 1) * Increment + Increment = (age + 1 + 1) * Increment
    BY <1>2, <1>t, SMT
  <2>3. position + Increment = (age' + 1) * Increment
    BY <2>1, <2>2
  <2>4. Column((age' + 1) * Increment) >= width - 1
            <=> age' + 1 >= TimeToRecovery + 1
    BY <1>1, <1>4, BarReaches
  <2> QED BY <1>4, <1>t, <2>1, <2>3, <2>4
<1>10. BarShape'
  <2>1. CASE gop = "idr"
    BY <1>3, <1>8, <1>t, <2>1 DEF RefreshInv, BarShape
  <2>2. CASE gop = "bars" /\ age >= TimeToRecovery
    <3>1. position = Complete /\ age' >= TimeToRecovery
      BY <1>2, <1>t, <2>2 DEF RefreshInv, BarShape
    <3> QED BY <1>1, <1>3, <1>8, <1>t, <2>2, <3>1 DEF BarShape
  <2>3. CASE gop = "bars" /\ ~(age >= TimeToRecovery)
    <3>1. Column(position)' = Column(position')
      BY DEF Column
    <3>2. CASE Column(position + Increment) >= width - 1
      <4>1. age' >= TimeToRecovery'
        BY <1>9, <1>t, <2>3, <3>2
      <4>2. position' = Complete' /\ endCol' = width' - 1
        BY <1>1, <1>6, <1>t, <3>2
      <4> QED BY <1>3, <2>3, <4>1, <4>2 DEF BarShape
    <3>3. CASE ~(Column(position + Increment) >= width - 1)
      <4>1. ~(age' >= TimeToRecovery')
        BY <1>9, <1>t, <2>3, <3>3
      <4>2. position' = (age' + 1) * Increment' /\ endCol' = Column(position')
        BY <1>6, <1>9, <1>t, <2>3, <3>3
      <4>3. endCol' < width' - 1
        BY <1>1, <1>5, <1>6, <3>3, ColumnAtLeast
      <4> QED BY <1>3, <2>3, <3>1, <4>1, <4>2, <4>3 DEF BarShape
    <3> QED BY <3>2, <3>3
  <2> QED BY <1>2, <2>1, <2>2, <2>3
<1>11. CleanBetween'
  BY <1>6 DEF CleanBetween
<1>12. CleanInFlight'
  <2>1. CASE gop = "idr"
    <3>1. position = Complete
      BY <2>1 DEF RefreshInv, BarShape
    <3>2. frame'.to = width' - 1 /\ age' >= 1
      BY <1>1, <1>4, <1>6, <1>8, <3>1
    <3>3. intact' >= age' => clean' = width'
      BY <1>1, <1>2, <1>3, <2>1 DEF RefreshInv, CleanBetween, Cap
    <3>4. frame'.needs = width'
      BY <1>1, <1>2, <1>6, <1>t, <3>1 DEF Needs
    <3> QED BY <1>3, <2>1, <3>2, <3>3, <3>4 DEF CleanInFlight
  <2>2. CASE gop = "bars"
    <3>1. frame'.to = endCol'
      BY <1>6
    <3>2. ASSUME ~strayed, intact >= age + 1
          PROVE  clean >= Needs(Column(position), strayed)
      <4>1. clean >= endCol + 1
        BY <1>2, <2>2, <3>2, RefreshAssumption DEF RefreshInv, CleanBetween, Cap
      <4>2. CASE age >= TimeToRecovery
        <5>1. position = Complete /\ endCol = width - 1
          BY <2>2, <4>2 DEF RefreshInv, BarShape
        <5> QED BY <1>1, <1>2, <1>t, <4>1, <5>1 DEF Needs
      <4>3. CASE ~(age >= TimeToRecovery)
        <5>1. Column(position) = endCol
          BY <1>9, <2>2, <4>3
        <5> QED BY <1>1, <1>2, <3>2, <4>1, <5>1 DEF Needs
      <4> QED BY <4>2, <4>3
    <3>3. intact >= age + 1 + Keyint => clean = width
      BY <1>2, <2>2, RefreshAssumption DEF RefreshInv, CleanBetween, Cap
    <3>4. ~frame'.strayed /\ intact' >= age' => clean' >= frame'.needs
      BY <1>3, <1>6, <3>2
    <3>5. intact' >= age' + Keyint => clean' = width'
      BY <1>1, <1>3, <3>3
    <3> QED BY <1>3, <2>2, <3>1, <3>4, <3>5 DEF CleanInFlight
  <2> QED BY <1>2, <2>1, <2>2
<1> QED BY <1>7, <1>10, <1>11, <1>12 DEF RefreshInv

\* The decoder's steps, and a request, leave it true.
LEMMA DecoderStep ==
    ASSUME RefreshInv, Request \/ Arrive \/ Lose
    PROVE  RefreshInv'
PROOF
<1>1. width \in Nat \ {0, 1} /\ width' = width /\ width \in Widths
  BY RefreshAssumption DEF RefreshInv, RefreshTypeOK, Request, Arrive, Lose
<1>t. /\ TimeToRecovery' = TimeToRecovery /\ Complete' = Complete
      /\ Increment' = Increment /\ Keyint \in Nat \ {0}
  BY <1>1, RefreshAssumption DEF TimeToRecovery, Complete, Increment, Least
<1>2. /\ age \in 0..(Keyint - 1) /\ endCol \in 0..(width - 1)
      /\ position \in Nat /\ queued \in BOOLEAN /\ gop \in {"new", "idr", "bars"}
      /\ clean \in 0..width /\ intact \in 0..Cap /\ asked \in 0..Cap
      /\ frame \in Frames \cup {NoFrame}
  BY DEF RefreshInv, RefreshTypeOK
<1>3. gop' = gop /\ position' = position /\ endCol' = endCol /\ age' = age
  BY DEF Request, Arrive, Lose, encoderVars
<1>4. Column(position)' = Column(position)
  BY <1>3 DEF Column
<1>5. CASE Request
  <2>1. RefreshTypeOK'
    <3>1. asked' \in 0..Cap
      BY <1>2, <1>5, <1>t DEF Request, Cap
    <3> QED BY <1>1, <1>2, <1>5, <3>1 DEF RefreshTypeOK, Request
  <2>2. BarShape' /\ CleanBetween' /\ CleanInFlight'
    <3>1. UNCHANGED <<frame, clean, intact>>
      BY <1>5 DEF Request
    <3>2. BarShape'
      BY <1>1, <1>3, <1>4, <1>t, <3>1 DEF RefreshInv, BarShape
    <3>3. CleanBetween' /\ CleanInFlight'
      BY <1>1, <1>3, <3>1 DEF RefreshInv, CleanBetween, CleanInFlight
    <3> QED BY <3>2, <3>3
  <2> QED BY <2>1, <2>2 DEF RefreshInv
<1>6. CASE Lose
  <2>1. clean' = 0 /\ intact' = 0 /\ asked' = 0 /\ frame' = NoFrame
        /\ queued' = queued /\ frame # NoFrame
    BY <1>6 DEF Lose, encoderVars
  <2>2. RefreshTypeOK'
    BY <1>1, <1>2, <1>3, <1>t, <2>1 DEF RefreshTypeOK, Cap
  <2>3. BarShape'
    BY <1>1, <1>3, <1>4, <1>t, <2>1 DEF RefreshInv, BarShape
  <2>4. CleanBetween' /\ CleanInFlight'
    BY <1>2, <1>3, <1>t, <2>1 DEF CleanBetween, CleanInFlight
  <2> QED BY <2>2, <2>3, <2>4 DEF RefreshInv
<1>7. CASE Arrive
  <2>1. /\ frame # NoFrame /\ frame \in Frames
        /\ frame' = NoFrame /\ queued' = queued
        /\ clean' = IF clean >= frame.needs
                    THEN IF clean = width THEN width ELSE frame.to + 1
                    ELSE 0
        /\ intact' = IF frame.strayed THEN 0 ELSE Least(intact + 1, Cap)
        /\ asked' = IF frame.strayed \/ asked = 0 THEN 0 ELSE Least(asked + 1, Cap)
    BY <1>2, <1>7 DEF Arrive, encoderVars
  <2>2. gop # "new" /\ (gop = "idr" => frame.to = width - 1)
        /\ (gop = "bars" => frame.to = endCol)
    BY <2>1 DEF RefreshInv, BarShape, CleanInFlight
  <2>3. frame.to \in 0..(width - 1) /\ frame.needs \in Nat /\ frame.strayed \in BOOLEAN
    BY <1>1, <1>2, <2>1, <2>2 DEF Frames
  <2>4. clean' \in 0..width /\ intact' \in 0..Cap /\ asked' \in 0..Cap
    BY <1>1, <1>2, <1>t, <2>1, <2>3 DEF Least, Cap
  <2>5. RefreshTypeOK'
    BY <1>1, <1>2, <1>3, <2>1, <2>4 DEF RefreshTypeOK
  <2>6. BarShape'
    BY <1>1, <1>3, <1>4, <1>t, <2>2 DEF RefreshInv, BarShape
  <2>7. ASSUME NEW n \in Nat, intact' > n, n < Cap
        PROVE  ~frame.strayed /\ intact >= n
    BY <1>2, <1>t, <2>1, <2>3, <2>7 DEF Least, Cap
  <2>8. ASSUME gop = "idr", intact' > age PROVE clean' = width
    <3>1. intact >= age
      BY <1>2, <1>t, <2>7, <2>8 DEF Cap
    <3>2. frame.needs # 0 => clean = width
      BY <2>1, <2>8, <3>1 DEF RefreshInv, CleanInFlight
    <3>3. clean >= frame.needs \/ clean = width
      BY <1>2, <2>3, <3>2
    <3>4. frame.to + 1 = width
      BY <1>1, <2>2, <2>8
    <3>5. frame.needs = 0 \/ frame.needs = width
      BY <2>1, <2>8 DEF RefreshInv, CleanInFlight
    <3> QED BY <1>1, <1>2, <2>1, <2>3, <3>2, <3>3, <3>4, <3>5
  <2>9. ASSUME gop = "bars", intact' > age PROVE clean' >= endCol + 1
    <3>1. intact >= age /\ ~frame.strayed
      BY <1>2, <1>t, <2>7, <2>9 DEF Cap
    <3>2. clean >= frame.needs
      BY <2>1, <2>9, <3>1 DEF RefreshInv, CleanInFlight
    <3> QED BY <1>1, <1>2, <2>1, <2>2, <2>9, <3>2
  <2>10. ASSUME gop = "bars", intact' > age + Keyint PROVE clean' = width
    <3>1. intact >= age + Keyint /\ ~frame.strayed
      BY <1>2, <1>t, <2>7, <2>10 DEF Cap
    <3>2. clean = width /\ clean >= frame.needs
      BY <1>2, <1>t, <2>1, <2>10, <3>1 DEF RefreshInv, CleanInFlight
    <3> QED BY <2>1, <3>2
  <2>11. CleanBetween' /\ CleanInFlight'
    BY <1>1, <1>3, <2>1, <2>8, <2>9, <2>10 DEF CleanBetween, CleanInFlight
  <2> QED BY <2>5, <2>6, <2>11 DEF RefreshInv
<1> QED BY <1>5, <1>6, <1>7

LEMMA RefreshInvInit == RefreshInit => RefreshInv
PROOF
<1> SUFFICES ASSUME RefreshInit PROVE RefreshInv
  OBVIOUS
<1>1. width \in Nat \ {0, 1} /\ width \in Widths
  BY RefreshAssumption DEF RefreshInit
<1>2. RefreshTypeOK
  <2>1. 0 \in 0..(Keyint - 1) /\ 0 \in 0..(width - 1) /\ 0 \in 0..width
        /\ 0 \in 0..Cap
    BY <1>1, RefreshAssumption DEF Cap
  <2> QED BY <1>1, <2>1 DEF RefreshInit, RefreshTypeOK
<1>3. BarShape /\ CleanBetween /\ CleanInFlight
  BY DEF RefreshInit, BarShape, CleanBetween, CleanInFlight
<1> QED BY <1>2, <1>3 DEF RefreshInv

LEMMA RefreshInvStep ==
    ASSUME RefreshInv, [RefreshNext]_refreshVars
    PROVE  RefreshInv'
PROOF
<1>1. CASE EncodeIdr
  BY <1>1, IdrStep
<1>2. ASSUME NEW strayed \in BOOLEAN, EncodeP(strayed) PROVE RefreshInv'
  <2>1. CASE Restarts
    <3>1. /\ gop # "new" /\ frame = NoFrame /\ UNCHANGED <<width, decoderVars>>
          /\ age' = 0 /\ queued' = FALSE /\ gop' = "bars"
          /\ Bar(0, Increment, FALSE)
      BY <1>2, <2>1 DEF EncodeP
    <3> QED BY <2>1, <3>1, RestartStep
  <2>2. CASE ~Restarts
    <3>1. /\ gop # "new" /\ frame = NoFrame /\ UNCHANGED <<width, decoderVars>>
          /\ age' = age + 1 /\ UNCHANGED <<queued, gop>>
          /\ Bar(Column(position), position + Increment, strayed)
      BY <1>2, <2>2 DEF EncodeP
    <3> QED BY <2>2, <3>1, GoOnStep
  <2> QED BY <2>1, <2>2
<1>3. CASE Request \/ Arrive \/ Lose
  BY <1>3, DecoderStep
<1>4. CASE UNCHANGED refreshVars
  <2>1. UNCHANGED <<width, gop, position, endCol, age, queued, frame, clean,
                    intact, asked>>
    BY <1>4 DEF refreshVars, encoderVars, decoderVars
  <2> QED BY <2>1 DEF RefreshInv, RefreshTypeOK, BarShape, CleanBetween,
                      CleanInFlight, TimeToRecovery, Complete, Increment, Column
<1> QED BY <1>1, <1>2, <1>3, <1>4 DEF RefreshNext
-----------------------------------------------------------------------------
\* The invariant holds throughout: the bar moves as announced, and what the
\* decoder has is what the frames that reached it cleaned.
THEOREM RefreshInvariant == RefreshSpec => []RefreshInv
PROOF
<1> QED BY RefreshInvInit, RefreshInvStep, PTL DEF RefreshSpec

\* The recovery point that every bar is announced with is kept, for pictures
\* of every width and periods of every length.
THEOREM RecoveryPointKept == RefreshSpec => []RecoveryPointTrue
PROOF
<1>1. RefreshInv => RecoveryPointTrue
  <2> SUFFICES ASSUME RefreshInv, gop = "bars", frame = NoFrame, intact > age
               PROVE  clean >= (IF age >= TimeToRecovery THEN width ELSE endCol + 1)
    BY DEF RecoveryPointTrue
  <2>1. clean >= endCol + 1 /\ (age >= TimeToRecovery => endCol = width - 1)
    BY DEF RefreshInv, CleanBetween, BarShape
  <2>2. width \in Nat
    BY RefreshAssumption DEF RefreshInv, RefreshTypeOK
  <2> QED BY <2>1, <2>2
<1> QED BY <1>1, RefreshInvariant, PTL

\* The periodic bars alone repair whatever was lost.
THEOREM PeriodRepairs == RefreshSpec => []RepairedByPeriod
PROOF
<1>1. RefreshInv => RepairedByPeriod
  <2> SUFFICES ASSUME RefreshInv, frame = NoFrame,
                      intact >= Keyint + TimeToRecovery
               PROVE  clean = width
    BY DEF RepairedByPeriod
  <2>1. /\ width \in Nat \ {0, 1} /\ Keyint \in Nat \ {0} /\ age \in 0..(Keyint - 1)
        /\ clean \in 0..width /\ gop \in {"new", "idr", "bars"} /\ intact \in Nat
    BY RefreshAssumption DEF RefreshInv, RefreshTypeOK, Cap
  <2>2. TimeToRecovery \in 0..(Keyint - 1)
    BY <2>1, RecoveryBounds
  <2>3. intact > age /\ intact > 0
    BY <2>1, <2>2
  <2>4. CASE gop = "idr"
    BY <2>3, <2>4 DEF RefreshInv, CleanBetween
  <2>5. CASE gop = "bars" /\ age >= TimeToRecovery
    <3>1. endCol = width - 1 /\ clean >= endCol + 1
      BY <2>3, <2>5 DEF RefreshInv, CleanBetween, BarShape
    <3> QED BY <2>1, <3>1
  <2>6. CASE gop = "bars" /\ ~(age >= TimeToRecovery)
    <3>1. intact > age + Keyint
      BY <2>1, <2>2, <2>6
    <3> QED BY <2>6, <3>1 DEF RefreshInv, CleanBetween
  <2>7. gop # "new"
    BY <2>3 DEF RefreshInv, BarShape
  <2> QED BY <2>1, <2>4, <2>5, <2>6, <2>7
<1> QED BY <1>1, RefreshInvariant, PTL

\* However the requests fall, no bar is cut short.
THEOREM BarsRunToTheEnd == RefreshSpec => BarNeverAborted
PROOF
<1> DEFINE Whole == (gop = "bars" /\ frame # frame' /\ frame' # NoFrame
                         /\ frame'.from = 0) => position = Complete
<1>1. ASSUME RefreshInv, [RefreshNext]_refreshVars PROVE [Whole]_refreshVars
  <2>1. CASE EncodeIdr
    BY <2>1 DEF EncodeIdr
  <2>2. ASSUME NEW strayed \in BOOLEAN, EncodeP(strayed) PROVE Whole
    <3>1. CASE Restarts
      <4>1. /\ gop # "new" /\ frame = NoFrame /\ UNCHANGED <<width, decoderVars>>
            /\ age' = 0 /\ queued' = FALSE /\ gop' = "bars"
            /\ Bar(0, Increment, FALSE)
        BY <2>2, <3>1 DEF EncodeP
      <4>2. gop = "bars" => position = Complete
        BY <1>1, <3>1, <4>1, RestartStep
      <4> QED BY <4>2
    <3>2. CASE ~Restarts
      <4>1. frame'.from = Column(position)
        BY <2>2, <3>2 DEF EncodeP, Bar
      <4>2. SUFFICES ASSUME gop = "bars", frame'.from = 0 PROVE position = Complete
        OBVIOUS
      <4>3. width \in Nat \ {0, 1} /\ age \in Nat /\ endCol \in Nat
        BY <1>1, RefreshAssumption DEF RefreshInv, RefreshTypeOK
      <4>4. CASE age >= TimeToRecovery
        BY <1>1, <4>2, <4>4 DEF RefreshInv, BarShape
      <4>5. CASE ~(age >= TimeToRecovery)
        <5>1. position = (age + 1) * Increment
          BY <1>1, <4>2, <4>5 DEF RefreshInv, BarShape
        <5>2. position \in Nat /\ position >= Increment
          BY <4>3, <5>1, CompleteColumn, SMT
        <5>3. Increment >= Keyint
          BY <4>3, RefreshAssumption DEF Increment
        <5>4. 2 * position + Keyint >= 2 * (Keyint * 1)
          <6>1. Increment \in Nat /\ Keyint * 1 = Keyint
            BY <4>3, CompleteColumn, RefreshAssumption
          <6> QED BY <5>2, <5>3, <6>1, RefreshAssumption
        <5>5. Column(position) >= 1
          BY <5>2, <5>4, ColumnAtLeast
        <5> QED BY <4>1, <4>2, <5>5
      <4> QED BY <4>4, <4>5
    <3> QED BY <3>1, <3>2
  <2>3. CASE Request \/ Arrive \/ Lose
    BY <2>3 DEF Request, Arrive, Lose
  <2> QED BY <1>1, <2>1, <2>2, <2>3 DEF RefreshNext
<1> QED BY <1>1, RefreshInvariant, PTL DEF RefreshSpec, BarNeverAborted

\* A picture with more columns than a period has frames, as every monitor of
\* more than 496 pixels with a period of 30 frames: once the bars have begun a
\* bar starts when the period is over and never before, whether or not it was
\* asked for.  A "!K" of the server then changes nothing.
THEOREM RequestsFutile ==
    RefreshSpec =>
        [](gop = "bars" /\ width > Keyint => (Restarts <=> age + 1 >= Keyint))
PROOF
<1>1. RefreshInv => (gop = "bars" /\ width > Keyint
                        => (Restarts <=> age + 1 >= Keyint))
  <2> SUFFICES ASSUME RefreshInv, gop = "bars", width > Keyint, BarDone
               PROVE  age + 1 >= Keyint
    BY DEF Restarts
  <2>1. /\ width \in Nat \ {0, 1} /\ age \in Nat /\ endCol \in Nat
        /\ position \in Nat /\ Keyint \in Nat \ {0}
    BY RefreshAssumption DEF RefreshInv, RefreshTypeOK
  <2>2. TimeToRecovery = Keyint - 1
    BY <2>1 DEF TimeToRecovery, Least
  <2>3. Column(position) >= width
    BY <2>1, ColumnAtLeast DEF BarDone, Complete
  <2>4. ~(age < TimeToRecovery)
    BY <2>1, <2>2, <2>3, ColumnAtLeast DEF RefreshInv, BarShape
  <2> QED BY <2>1, <2>2, <2>4
<1> QED BY <1>1, RefreshInvariant, PTL
-----------------------------------------------------------------------------
\* How far a request has come, while it does not find the picture whole: it
\* waits for the bar under way to end, or its own bar is under way.
Waiting(a) ==
    /\ queued
    /\ gop = "new" => a <= 2
    /\ gop = "idr" => a <= 2
    /\ gop = "bars" => a <= Least(age, TimeToRecovery) + 2

OwnBar(a, i) ==
    /\ gop = "bars" /\ age <= TimeToRecovery
    /\ i > age
    /\ a <= TimeToRecovery + 3 + age

\* A frame in flight counts as if it had arrived.
AskedBetween ==
    frame = NoFrame /\ asked > 0 =>
        clean = width \/ Waiting(asked) \/ OwnBar(asked, intact)

AskedInFlight ==
    frame # NoFrame /\ asked > 0 =>
        \/ clean = width
        \/ gop = "idr" /\ frame.needs = 0
        \/ Waiting(asked + 1)
        \/ OwnBar(asked + 1, intact + 1)

NeedsBound == frame # NoFrame => frame.needs \in 0..width

AskedInv == RefreshInv /\ AskedBetween /\ AskedInFlight /\ NeedsBound

\* What a request can count on between two frames.
LEMMA OwnBarDone ==
    ASSUME RefreshInv, frame = NoFrame, gop = "bars", intact > age,
           age >= TimeToRecovery
    PROVE  clean = width
PROOF
<1>1. endCol = width - 1 /\ clean >= endCol + 1
  BY DEF RefreshInv, BarShape, CleanBetween
<1>2. width \in Nat /\ clean \in 0..width
  BY RefreshAssumption DEF RefreshInv, RefreshTypeOK
<1> QED BY <1>1, <1>2

\* The bar under way ends before the next one, the request's own, starts.
LEMMA AskedRestart ==
    ASSUME AskedInv, gop # "new", frame = NoFrame, Restarts,
           age' = 0, queued' = FALSE, gop' = "bars", Bar(0, Increment, FALSE),
           UNCHANGED <<width, decoderVars>>
    PROVE  AskedBetween' /\ AskedInFlight'
PROOF
<1>1. RefreshInv' /\ (gop = "bars" => position = Complete)
  BY RestartStep DEF AskedInv
<1>2. width \in Nat \ {0, 1} /\ width' = width
  BY RefreshAssumption DEF AskedInv, RefreshInv, RefreshTypeOK
<1>3. TimeToRecovery \in 0..(Keyint - 1) /\ TimeToRecovery' = TimeToRecovery
  BY <1>2, RecoveryBounds DEF TimeToRecovery, Least
<1>4. /\ age \in 0..(Keyint - 1) /\ asked \in Nat /\ intact \in Nat
      /\ gop \in {"idr", "bars"} /\ Keyint \in Nat
  BY RefreshAssumption DEF AskedInv, RefreshInv, RefreshTypeOK, Cap
<1>5. clean' = clean /\ intact' = intact /\ asked' = asked
  BY DEF decoderVars
<1>6. frame' # NoFrame
  <2>1. Increment \in Nat /\ endCol \in 0..(width - 1)
    BY <1>2, CompleteColumn DEF AskedInv, RefreshInv, RefreshTypeOK
  <2> HIDE DEF Bar
  <2> QED BY <1>2, <2>1, BarStep
<1>7. ASSUME gop = "bars" PROVE age >= TimeToRecovery
  <2>1. position = Complete /\ Column(Complete) = width
    BY <1>1, <1>2, <1>7, CompleteColumn
  <2>2. ASSUME ~(age >= TimeToRecovery)
        PROVE  endCol = Column(position) /\ endCol < width - 1
    BY <1>7, <2>2 DEF AskedInv, RefreshInv, BarShape
  <2> QED BY <1>2, <2>1, <2>2
<1>8. ASSUME asked > 0, clean # width PROVE asked <= TimeToRecovery + 2
  <2>1. Waiting(asked) \/ OwnBar(asked, intact)
    BY <1>8 DEF AskedInv, AskedBetween
  <2>2. CASE Waiting(asked)
    BY <1>3, <1>4, <2>2 DEF Waiting, Least
  <2>3. CASE OwnBar(asked, intact)
    BY <1>3, <1>4, <1>7, <1>8, <2>3, OwnBarDone DEF OwnBar, AskedInv
  <2> QED BY <2>1, <2>2, <2>3
<1>9. ASSUME asked > 0, clean # width PROVE OwnBar(asked + 1, intact + 1)'
  BY <1>3, <1>4, <1>5, <1>8, <1>9 DEF OwnBar
<1> QED BY <1>2, <1>5, <1>6, <1>9 DEF AskedBetween, AskedInFlight

\* A frame that goes on with a bar brings the request nearer to its own, or to
\* the end of its own.
LEMMA AskedGoOn ==
    ASSUME AskedInv, gop # "new", frame = NoFrame, ~Restarts, frame' # NoFrame,
           age' = age + 1, UNCHANGED <<queued, gop>>,
           UNCHANGED <<width, decoderVars>>
    PROVE  AskedBetween' /\ AskedInFlight'
PROOF
<1>1. width \in Nat \ {0, 1} /\ width' = width
  BY RefreshAssumption DEF AskedInv, RefreshInv, RefreshTypeOK
<1>2. TimeToRecovery \in 0..(Keyint - 1) /\ TimeToRecovery' = TimeToRecovery
  BY <1>1, RecoveryBounds DEF TimeToRecovery, Least
<1>3. /\ age \in 0..(Keyint - 1) /\ asked \in Nat /\ intact \in Nat
      /\ gop \in {"idr", "bars"} /\ Keyint \in Nat
  BY RefreshAssumption DEF AskedInv, RefreshInv, RefreshTypeOK, Cap
<1>4. /\ clean' = clean /\ intact' = intact /\ asked' = asked
      /\ gop' = gop /\ queued' = queued
  BY DEF decoderVars
<1>5. position = Complete => ~queued
  BY <1>1, RefreshAssumption, CompleteColumn DEF Restarts, BarDone
<1>6. ASSUME asked > 0, clean # width
      PROVE  Waiting(asked + 1)' \/ OwnBar(asked + 1, intact + 1)'
  <2>1. Waiting(asked) \/ OwnBar(asked, intact)
    BY <1>6 DEF AskedInv, AskedBetween
  <2>2. CASE Waiting(asked)
    <3>1. gop = "bars" /\ ~(age >= TimeToRecovery)
      BY <1>3, <1>5, <2>2 DEF Waiting, AskedInv, RefreshInv, BarShape
    <3>2. asked <= age + 2 /\ Least(age', TimeToRecovery) = age + 1
      BY <1>2, <1>3, <2>2, <3>1 DEF Waiting, Least
    <3>3. Least(age, TimeToRecovery)' = age + 1
      BY <1>2, <3>2 DEF Least
    <3> QED BY <1>3, <1>4, <2>2, <3>1, <3>2, <3>3 DEF Waiting
  <2>3. CASE OwnBar(asked, intact)
    <3>1. gop = "bars" /\ intact > age /\ age < TimeToRecovery
      BY <1>2, <1>3, <1>6, <2>3, OwnBarDone DEF OwnBar, AskedInv
    <3> QED BY <1>2, <1>3, <1>4, <2>3, <3>1 DEF OwnBar
  <2> QED BY <2>1, <2>2, <2>3
<1> QED BY <1>1, <1>4, <1>6 DEF AskedBetween, AskedInFlight

\* What reaches the decoder, and what does not.
LEMMA AskedDecoder ==
    ASSUME AskedInv, Request \/ Arrive \/ Lose
    PROVE  AskedBetween' /\ AskedInFlight'
PROOF
<1>1. width \in Nat \ {0, 1} /\ width' = width
  BY RefreshAssumption
     DEF AskedInv, RefreshInv, RefreshTypeOK, Request, Arrive, Lose
<1>2. TimeToRecovery \in 0..(Keyint - 1) /\ TimeToRecovery' = TimeToRecovery
  BY <1>1, RecoveryBounds DEF TimeToRecovery, Least
<1>3. /\ age \in 0..(Keyint - 1) /\ asked \in 0..Cap /\ intact \in 0..Cap
      /\ gop \in {"new", "idr", "bars"} /\ Keyint \in Nat \ {0}
      /\ clean \in 0..width /\ frame \in Frames \cup {NoFrame}
  BY RefreshAssumption DEF AskedInv, RefreshInv, RefreshTypeOK
<1>4. gop' = gop /\ age' = age
  BY DEF Request, Arrive, Lose, encoderVars
<1>5. Least(age, TimeToRecovery)' = Least(age, TimeToRecovery)
      /\ Least(age, TimeToRecovery) \in Nat
  BY <1>2, <1>3, <1>4 DEF Least
<1>6. CASE Request
  <2>1. queued' = TRUE /\ asked' = (IF asked = 0 THEN 1 ELSE asked)
        /\ UNCHANGED <<frame, clean, intact>>
    BY <1>6 DEF Request
  <2>2. CASE asked = 0
    <3>1. Waiting(asked)' /\ Waiting(asked + 1)'
      BY <1>3, <1>5, <2>1, <2>2 DEF Waiting
    <3> QED BY <3>1 DEF AskedBetween, AskedInFlight
  <2>3. CASE asked # 0
    <3>1. asked' = asked
      BY <2>1, <2>3
    <3>2. /\ Waiting(asked) => Waiting(asked)'
          /\ Waiting(asked + 1) => Waiting(asked + 1)'
      BY <1>4, <1>5, <2>1, <3>1 DEF Waiting
    <3>3. /\ OwnBar(asked, intact) => OwnBar(asked, intact)'
          /\ OwnBar(asked + 1, intact + 1) => OwnBar(asked + 1, intact + 1)'
      BY <1>2, <1>4, <2>1, <3>1 DEF OwnBar
    <3>4. AskedBetween'
      BY <1>1, <2>1, <3>1, <3>2, <3>3 DEF AskedInv, AskedBetween
    <3>5. AskedInFlight'
      BY <1>1, <1>4, <2>1, <3>1, <3>2, <3>3 DEF AskedInv, AskedInFlight
    <3> QED BY <3>4, <3>5
  <2> QED BY <2>2, <2>3
<1>7. CASE Lose
  BY <1>7 DEF Lose, AskedBetween, AskedInFlight
<1>8. CASE Arrive
  <2>1. /\ frame # NoFrame /\ frame \in Frames
        /\ frame' = NoFrame /\ queued' = queued
        /\ clean' = IF clean >= frame.needs
                    THEN IF clean = width THEN width ELSE frame.to + 1
                    ELSE 0
        /\ intact' = IF frame.strayed THEN 0 ELSE Least(intact + 1, Cap)
        /\ asked' = IF frame.strayed \/ asked = 0 THEN 0
                    ELSE Least(asked + 1, Cap)
    BY <1>3, <1>8 DEF Arrive, encoderVars
  <2>2. SUFFICES ASSUME asked > 0, ~frame.strayed
                 PROVE  clean' = width \/ Waiting(asked)' \/ OwnBar(asked, intact)'
    <3>1. asked' > 0 => asked > 0 /\ ~frame.strayed
      BY <1>3, <2>1 DEF Cap
    <3> QED BY <1>1, <2>1, <2>2, <3>1 DEF AskedBetween, AskedInFlight
  <2>3. intact' = Least(intact + 1, Cap) /\ asked' = Least(asked + 1, Cap)
    BY <1>3, <2>1, <2>2 DEF Cap
  <2>4. asked' <= asked + 1 /\ asked' \in Nat /\ intact' \in Nat
    BY <1>3, <2>3 DEF Least, Cap
  <2>9. intact + 1 > age => intact' > age
    BY <1>3, <2>3 DEF Least, Cap
  <2>5. CASE clean = width
    <3>1. clean >= frame.needs
      BY <1>1, <2>1, <2>5 DEF AskedInv, NeedsBound
    <3> QED BY <2>1, <2>5, <3>1
  <2>6. CASE gop = "idr" /\ frame.needs = 0
    <3>1. frame.to = width - 1
      BY <2>1, <2>6 DEF AskedInv, RefreshInv, CleanInFlight
    <3> QED BY <1>1, <1>3, <2>1, <2>6, <3>1
  <2>7. CASE Waiting(asked + 1)
    <3>1. queued' /\ (gop = "new" => asked' <= 2) /\ (gop = "idr" => asked' <= 2)
          /\ (gop = "bars" => asked' <= Least(age, TimeToRecovery) + 2)
      BY <1>3, <1>5, <2>1, <2>4, <2>7 DEF Waiting, Cap
    <3>2. Waiting(asked)'
      BY <1>4, <1>5, <2>4, <3>1 DEF Waiting
    <3> QED BY <3>2
  <2>8. CASE OwnBar(asked + 1, intact + 1)
    <3>1. /\ gop = "bars" /\ age <= TimeToRecovery /\ intact + 1 > age
          /\ asked + 1 <= TimeToRecovery + 3 + age
      BY <2>8 DEF OwnBar
    <3>2. intact' > age' /\ asked' <= TimeToRecovery + 3 + age'
      BY <1>2, <1>3, <1>4, <2>4, <2>9, <3>1 DEF Cap
    <3> QED BY <1>2, <1>4, <3>1, <3>2 DEF OwnBar
  <2> QED BY <2>1, <2>2, <2>5, <2>6, <2>7, <2>8 DEF AskedInv, AskedInFlight
<1> QED BY <1>6, <1>7, <1>8

LEMMA NeedsStep ==
    ASSUME AskedInv, [RefreshNext]_refreshVars
    PROVE  NeedsBound'
PROOF
<1>1. width \in Nat \ {0, 1} /\ endCol \in 0..(width - 1)
  BY RefreshAssumption DEF AskedInv, RefreshInv, RefreshTypeOK
<1>2. CASE EncodeIdr
  BY <1>1, <1>2 DEF EncodeIdr, NeedsBound
<1>3. ASSUME NEW strayed \in BOOLEAN, EncodeP(strayed) PROVE NeedsBound'
  <2>1. width' = width
    BY <1>3 DEF EncodeP
  <2>2. \/ frame'.needs = Needs(Column(position), strayed)
        \/ frame'.needs = Needs(0, FALSE)
    <3>1. CASE Bar(0, Increment, FALSE)
      BY <3>1, Zenon DEF Bar
    <3>2. CASE Bar(Column(position), position + Increment, strayed)
      BY <3>2, Zenon DEF Bar
    <3> QED BY <1>3, <3>1, <3>2 DEF EncodeP
  <2>3. /\ Needs(Column(position), strayed) \in 0..width
        /\ Needs(0, FALSE) \in 0..width
    BY <1>1 DEF Needs
  <2> QED BY <2>1, <2>2, <2>3 DEF NeedsBound
<1>4. CASE Request
  BY <1>4 DEF Request, AskedInv, NeedsBound
<1>5. CASE Arrive \/ Lose
  BY <1>5 DEF Arrive, Lose, NeedsBound
<1>6. CASE UNCHANGED refreshVars
  BY <1>6 DEF refreshVars, AskedInv, NeedsBound
<1> QED BY <1>2, <1>3, <1>4, <1>5, <1>6 DEF RefreshNext

LEMMA AskedStep ==
    ASSUME AskedInv, [RefreshNext]_refreshVars
    PROVE  AskedInv'
PROOF
<1>1. RefreshInv' /\ NeedsBound'
  BY RefreshInvStep, NeedsStep DEF AskedInv
<1>2. CASE EncodeIdr
  <2>1. frame' # NoFrame /\ gop' = "idr" /\ frame'.needs = 0
    <3>1. width \in Nat \ {0, 1}
      BY RefreshAssumption DEF AskedInv, RefreshInv, RefreshTypeOK
    <3>2. frame'.to = width - 1 /\ frame'.needs = 0 /\ gop' = "idr"
      BY <1>2 DEF EncodeIdr
    <3>3. NoFrame.to = -1
      BY DEF NoFrame
    <3> QED BY <3>1, <3>2, <3>3
  <2>2. AskedBetween' /\ AskedInFlight'
    BY <2>1 DEF AskedBetween, AskedInFlight
  <2> QED BY <1>1, <2>2 DEF AskedInv
<1>3. ASSUME NEW strayed \in BOOLEAN, EncodeP(strayed)
      PROVE  AskedBetween' /\ AskedInFlight'
  <2>1. CASE Restarts
    <3>1. /\ gop # "new" /\ frame = NoFrame /\ UNCHANGED <<width, decoderVars>>
          /\ age' = 0 /\ queued' = FALSE /\ gop' = "bars"
          /\ Bar(0, Increment, FALSE)
      BY <1>3, <2>1 DEF EncodeP
    <3> QED BY <2>1, <3>1, AskedRestart
  <2>2. CASE ~Restarts
    <3>1. /\ gop # "new" /\ frame = NoFrame /\ UNCHANGED <<width, decoderVars>>
          /\ age' = age + 1 /\ UNCHANGED <<queued, gop>>
          /\ Bar(Column(position), position + Increment, strayed)
      BY <1>3, <2>2 DEF EncodeP
    <3>2. frame' # NoFrame
      <4>1. /\ width \in Nat \ {0, 1} /\ width' = width /\ position \in Nat
            /\ endCol \in 0..(width - 1)
        BY <3>1, RefreshAssumption DEF AskedInv, RefreshInv, RefreshTypeOK
      <4>2. Column(position) \in Nat /\ position + Increment \in Nat
        BY <4>1, ColumnAtLeast, CompleteColumn
      <4> HIDE DEF Bar
      <4> QED BY <3>1, <4>1, <4>2, BarStep
    <3> QED BY <2>2, <3>1, <3>2, AskedGoOn
  <2> QED BY <2>1, <2>2
<1>4. CASE Request \/ Arrive \/ Lose
  BY <1>1, <1>4, AskedDecoder DEF AskedInv
<1>5. CASE UNCHANGED refreshVars
  <2>1. UNCHANGED <<width, gop, position, endCol, age, queued, frame, clean,
                    intact, asked>>
    BY <1>5 DEF refreshVars, encoderVars, decoderVars
  <2>2. AskedBetween' /\ AskedInFlight'
    BY <2>1 DEF AskedInv, AskedBetween, AskedInFlight, Waiting, OwnBar,
                TimeToRecovery, Least
  <2> QED BY <1>1, <2>2 DEF AskedInv
<1> QED BY <1>1, <1>2, <1>3, <1>4, <1>5 DEF RefreshNext, AskedInv

\* A request of a viewer is answered within the rest of the bar it finds under
\* way and a bar of its own, for pictures of every width and periods of every
\* length, unless a frame is lost or strays in the meantime.
THEOREM RequestRepairs == RefreshSpec => []RepairedOnRequest
PROOF
<1>1. RefreshInit => AskedInv
  <2>1. RefreshInit => AskedBetween /\ AskedInFlight /\ NeedsBound
    BY DEF RefreshInit, AskedBetween, AskedInFlight, NeedsBound
  <2> QED BY <2>1, RefreshInvInit DEF AskedInv
<1>2. AskedInv => RepairedOnRequest
  <2> SUFFICES ASSUME AskedInv, frame = NoFrame, asked > 2 * TimeToRecovery + 2,
                      clean # width
               PROVE  FALSE
    BY DEF RepairedOnRequest
  <2>1. /\ width \in Nat \ {0, 1} /\ age \in Nat /\ asked \in Nat
        /\ gop \in {"new", "idr", "bars"} /\ intact \in Nat
    BY RefreshAssumption DEF AskedInv, RefreshInv, RefreshTypeOK, Cap
  <2>2. TimeToRecovery \in Nat
    BY <2>1, RecoveryBounds, RefreshAssumption
  <2>3. asked > 0 /\ (Waiting(asked) \/ OwnBar(asked, intact))
    BY <2>1, <2>2 DEF AskedInv, AskedBetween
  <2>4. CASE Waiting(asked)
    BY <2>1, <2>2, <2>4 DEF Waiting, Least
  <2>5. CASE OwnBar(asked, intact)
    <3>1. age < TimeToRecovery
      BY <2>1, <2>2, <2>5, OwnBarDone DEF OwnBar, AskedInv
    <3> QED BY <2>1, <2>2, <2>5, <3>1 DEF OwnBar
  <2> QED BY <2>3, <2>4, <2>5
<1> QED BY <1>1, <1>2, AskedStep, PTL DEF RefreshSpec
-----------------------------------------------------------------------------
\* What the monitors in m_outputs hold.
Outputs == UNION {OutputOf(outputs[i]) : i \in DOMAIN outputs}

\* Only what the next Shutdown gives back is held.
HeldInv ==
    /\ monitors \in Monitors
    /\ outputs \in Seq(Nat) /\ seen \in Nat
    /\ held \subseteq {Device} \cup Encoder \cup Outputs
    /\ main \in {"start", "enumerate", "encoder", "leave"} =>
          held \subseteq {Device} \cup Outputs /\ link = "off"
    /\ main = "exited" => held = {} /\ link = "off"

LEMMA HeldInit == Init => HeldInv
PROOF
<1> SUFFICES ASSUME Init PROVE HeldInv
  OBVIOUS
<1>1. outputs = <<>> /\ seen = 0 /\ held = {} /\ main = "start" /\ link = "off"
  BY DEF Init
<1>2. monitors \in Monitors
  BY DEF Init
<1> QED BY <1>1, <1>2 DEF HeldInv

\* A monitor whose callback failed keeps nothing, at whichever call it failed.
LEMMA FailedKeepsNothing ==
    ASSUME monitors \in Monitors, NEW m \in DOMAIN monitors,
           monitors[m].fails # "no"
    PROVE  Kept(m) = {}
PROOF
<1>1. monitors[m].fails \in Failures
  <2> DEFINE R == [w : Int, h : Int, fails : Failures \cup {"no"}]
  <2>1. monitors \in Seq(R)
    BY AgentAssumption
  <2> HIDE DEF R
  <2>2. monitors[m] \in R
    BY <2>1
  <2> USE DEF R
  <2> QED BY <2>2
<1>2. Made(m) \subseteq Smart(m)
  BY <1>1, Zenon DEF Made, Smart, Failures
<1> QED BY <1>2 DEF Kept

LEMMA HeldStep == ASSUME HeldInv, [Next]_vars PROVE HeldInv'
PROOF
<1> USE DEF HeldInv, Outputs, Released
<1>1. CASE InitInterop
  BY <1>1 DEF InitInterop
<1>2. CASE EnumerateOutput
  <2>1. seen' = seen + 1 /\ held' = held \cup Kept(seen')
        /\ UNCHANGED <<main, link, monitors>> /\ main = "enumerate"
        /\ seen' \in DOMAIN monitors
    <3>1. monitors \in Seq([w : Int, h : Int, fails : Failures \cup {"no"}])
      BY AgentAssumption
    <3> QED BY <1>2, <3>1 DEF EnumerateOutput
  <2>2. CASE monitors[seen'].fails = "no"
    <3>1. outputs' = Append(outputs, seen') /\ Kept(seen') = OutputOf(seen')
      BY <1>2, <2>2 DEF EnumerateOutput, Kept, Made
    <3>2. /\ outputs' \in Seq(Nat) /\ DOMAIN outputs \subseteq DOMAIN outputs'
          /\ \A i \in DOMAIN outputs : outputs'[i] = outputs[i]
          /\ \E i \in DOMAIN outputs' : outputs'[i] = seen'
      <4>1. outputs \in Seq(Nat) /\ seen' \in Nat /\ Len(outputs) \in Nat
        BY <2>1
      <4> QED BY <3>1, <4>1, AppendFacts
    <3>3. OutputOf(seen') \subseteq Outputs' /\ Outputs \subseteq Outputs'
      BY <3>2 DEF OutputOf
    <3> QED BY <2>1, <3>1, <3>2, <3>3
  <2>3. CASE monitors[seen'].fails # "no"
    <3>1. outputs' = outputs /\ Kept(seen') = {}
      BY <1>2, <2>1, <2>3, FailedKeepsNothing DEF EnumerateOutput
    <3> QED BY <2>1, <3>1
  <2> QED BY <2>2, <2>3
<1>3. CASE EnumerationEnds
  <2>1. CASE outputs = <<>>
    BY <1>3, <2>1 DEF EnumerationEnds, CaptureShutdown
  <2>2. CASE outputs # <<>>
    BY <1>3, <2>2 DEF EnumerationEnds
  <2> QED BY <2>1, <2>2
<1>4. CASE InitEncoder
  BY <1>4 DEF InitEncoder
<1>5. CASE CaptureFrame \/ EncodeFrame \/ Poll \/ LeaveLoop
  BY <1>5 DEF CaptureFrame, EncodeFrame, Poll, LeaveLoop
<1>6. CASE Connect \/ Handshake \/ Send
  BY <1>6 DEF Connect, Handshake, Send
<1>7. CASE Cleanup
  BY <1>7 DEF Cleanup
<1>8. CASE Leave
  BY <1>8 DEF Leave, CaptureShutdown
<1>9. CASE Signal \/ FallSilent
  BY <1>9 DEF Signal, FallSilent
<1>10. CASE UNCHANGED vars
  BY <1>10 DEF vars, agentVars
<1> QED BY <1>1, <1>2, <1>3, <1>4, <1>5, <1>6, <1>7, <1>8, <1>9, <1>10
        DEF Next, Main, Unblocked, Blocking

\* For every collection of monitors, whichever call of a monitor's callback in
\* capture_wgc.cpp fails, also the two that find a session made and close only
\* the pool: nothing is held of a monitor that no Shutdown reaches, and every
\* way out of the program gives back all that is held.
THEOREM EverythingGivenBack == Spec => []NothingLeaked
PROOF
<1>1. HeldInv => NothingLeaked
  <2> SUFFICES ASSUME HeldInv, NEW m \in DOMAIN monitors,
                      OutputOf(m) \cap held # {}
               PROVE  \E i \in DOMAIN outputs : outputs[i] = m
    BY DEF HeldInv, NothingLeaked
  <2>1. PICK e : e \in OutputOf(m) /\ e \in held
    OBVIOUS
  <2>2. e \in Outputs
    BY <2>1 DEF HeldInv, OutputOf, Smart, Device, Encoder
  <2>3. PICK i \in DOMAIN outputs : e \in OutputOf(outputs[i])
    BY <2>2 DEF Outputs
  <2> QED BY <2>1, <2>3 DEF OutputOf, Smart
<1> QED BY <1>1, HeldInit, HeldStep, PTL DEF Spec

\* The frames of the program are those of IntraRefresh, so that what is proved
\* there of every decoder holds of the viewers of this program.
THEOREM AgentRefreshes == Spec => RefreshSpec
PROOF
<1>1. Init => RefreshInit
  BY DEF Init
<1>2. [Next]_vars => [RefreshNext]_refreshVars
  <2> SUFFICES ASSUME [Next]_vars PROVE [RefreshNext]_refreshVars
    OBVIOUS
  <2>1. CASE Main
    BY <2>1 DEF Main, Blocking, CaptureFrame, EncodeFrame, Connect, Handshake,
                Poll, Send, RefreshNext
  <2>3. CASE Unblocked
    BY <2>3 DEF Unblocked, Blocking, Handshake, Send, RefreshNext
  <2>2. CASE UNCHANGED vars
    BY <2>2 DEF vars
  <2> QED BY <2>1, <2>2, <2>3 DEF Next
<1> QED BY <1>1, <1>2, PTL DEF Spec, RefreshSpec

\* A bar's announced recovery point is kept by the whole program.
THEOREM ViewersRecover ==
    Spec => [](RecoveryPointTrue /\ RepairedByPeriod /\ RepairedOnRequest)
PROOF
<1> QED BY AgentRefreshes, RecoveryPointKept, PeriodRepairs, RequestRepairs, PTL
-----------------------------------------------------------------------------
\* The place row * a + col of a grid of a columns and b rows: every number
\* below a * b is one, and no other is.
LEMMA PlaceInGrid ==
    ASSUME NEW a \in Nat \ {0}, NEW b \in Nat \ {0},
           NEW row \in 0..(b - 1), NEW col \in 0..(a - 1)
    PROVE  row * a + col \in 0..(a * b - 1)
PROOF
<1>1. row * a <= (b - 1) * a
  BY SMT
<1>2. (b - 1) * a = a * b - a
  BY SMT
<1>3. row * a \in Nat /\ a * b \in Nat
  BY SMT
<1> QED BY <1>1, <1>2, <1>3

LEMMA GridOfPlace ==
    ASSUME NEW a \in Nat \ {0}, NEW b \in Nat \ {0}, NEW n \in 0..(a * b - 1)
    PROVE  \E row \in 0..(b - 1), col \in 0..(a - 1) : n = row * a + col
PROOF
<1> DEFINE row == n \div a
           col == n % a
<1>1. a * b \in Nat /\ n \in Nat /\ n < a * b
  BY SMT
<1>2. col \in 0..(a - 1) /\ row \in Int /\ n = a * row + col
  BY <1>1, SMT
<1>3. row \in Nat /\ ~(row >= b)
  BY <1>1, QuotientAtLeast
<1>4. a * row = row * a
  BY <1>2, SMT
<1> HIDE DEF row, col
<1> QED BY <1>2, <1>3, <1>4

\* The same with the places of a plane of samples, which start at base.
LEMMA PlaceInPlane ==
    ASSUME NEW a \in Nat \ {0}, NEW b \in Nat \ {0}, NEW base \in Nat,
           NEW row \in 0..(b - 1), NEW col \in 0..(a - 1)
    PROVE  base + row * a + col \in base..(base + a * b - 1)
PROOF
<1> DEFINE N == a * b
<1>1. N \in Nat /\ row * a \in Int
  BY SMT
<1>2. row * a + col \in 0..(N - 1)
  BY PlaceInGrid
<1>3. base + row * a + col \in base..(base + N - 1)
  <2> HIDE DEF N
  <2> QED BY <1>1, <1>2
<1> QED BY <1>3

LEMMA PlaneOfPlace ==
    ASSUME NEW a \in Nat \ {0}, NEW b \in Nat \ {0}, NEW base \in Nat,
           NEW n \in base..(base + a * b - 1)
    PROVE  \E row \in 0..(b - 1), col \in 0..(a - 1) : n = base + row * a + col
PROOF
<1> DEFINE N == a * b
<1>1. N \in Nat /\ n \in base..(base + N - 1)
  BY SMT
<1>2. n - base \in 0..(N - 1)
  <2> HIDE DEF N
  <2> QED BY <1>1
<1>3. PICK row \in 0..(b - 1), col \in 0..(a - 1) : n - base = row * a + col
  BY <1>2, GridOfPlace
<1>4. row * a \in Int
  BY SMT
<1> HIDE DEF N
<1>5. n = base + row * a + col
  BY <1>1, <1>3, <1>4
<1> QED BY <1>5

LEMMA Halves ==
    ASSUME NEW n \in Nat
    PROVE  /\ n \div 2 \in Nat /\ n % 2 \in {0, 1}
           /\ n = 2 * (n \div 2) + (n % 2)
PROOF
<1>1. n \div 2 \in Int /\ n % 2 \in 0..1 /\ n = 2 * (n \div 2) + (n % 2)
  BY SMT
<1>2. n \div 2 \in Nat
  BY QuotientAtLeast
<1> QED BY <1>1, <1>2

\* The squares of four pixels tile the picture.
LEMMA SquaresTile ==
    ASSUME NEW a \in Nat \ {0}, NEW b \in Nat \ {0}, NEW n
    PROVE  n \in 0..((2 * a) * (2 * b) - 1)
           <=> \E row \in 0..(b - 1), col \in 0..(a - 1) :
                   n \in Square(2 * a, row, col)
PROOF
<1> DEFINE w == 2 * a
           h == 2 * b
<1>1. w \in Nat \ {0} /\ h \in Nat \ {0}
  OBVIOUS
<1>2. ASSUME NEW row \in 0..(b - 1), NEW col \in 0..(a - 1),
             NEW dy \in {0, 1}, NEW dx \in {0, 1}
      PROVE  (2 * row + dy) * w + 2 * col + dx \in 0..(w * h - 1)
  <2> DEFINE y == 2 * row + dy
             x == 2 * col + dx
  <2>1. y \in 0..(h - 1) /\ x \in 0..(w - 1)
    OBVIOUS
  <2>2. y * w + x \in 0..(w * h - 1)
    <3> HIDE DEF w, h, y, x
    <3> QED BY <1>1, <2>1, PlaceInGrid
  <2>3. y * w \in Int
    <3> HIDE DEF w, h
    <3> QED BY <1>1, SMT
  <2>4. y * w + 2 * col + dx = y * w + x
    BY <2>3
  <2> QED BY <2>2, <2>4
<1>3. ASSUME n \in 0..(w * h - 1)
      PROVE  \E row \in 0..(b - 1), col \in 0..(a - 1) : n \in Square(w, row, col)
  <2> HIDE DEF w, h
  <2>1. PICK y \in 0..(h - 1), x \in 0..(w - 1) : n = y * w + x
    BY <1>1, <1>3, GridOfPlace
  <2>2. PICK row \in 0..(b - 1), dy \in {0, 1} : y = 2 * row + dy
    <3>1. y \in Nat /\ y <= 2 * b - 1
      BY DEF h
    <3>2. y \div 2 \in Nat /\ y % 2 \in {0, 1} /\ y = 2 * (y \div 2) + (y % 2)
      BY <3>1, Halves
    <3>3. y \div 2 \in 0..(b - 1)
      BY <3>1, <3>2
    <3> QED BY <3>2, <3>3
  <2>3. PICK col \in 0..(a - 1), dx \in {0, 1} : x = 2 * col + dx
    <3>1. x \in Nat /\ x <= 2 * a - 1
      BY DEF w
    <3>2. x \div 2 \in Nat /\ x % 2 \in {0, 1} /\ x = 2 * (x \div 2) + (x % 2)
      BY <3>1, Halves
    <3>3. x \div 2 \in 0..(a - 1)
      BY <3>1, <3>2
    <3> QED BY <3>2, <3>3
  <2>4. n = (2 * row + dy) * w + 2 * col + dx
    <3>1. y * w \in Int
      BY <1>1, SMT
    <3>2. n = y * w + 2 * col + dx
      BY <2>1, <2>3, <3>1
    <3> QED BY <2>2, <3>2
  <2>5. n \in Square(w, row, col)
    BY <2>4 DEF Square
  <2> QED BY <2>5
<1> HIDE DEF w, h
<1>4. ASSUME NEW row \in 0..(b - 1), NEW col \in 0..(a - 1),
             n \in Square(w, row, col)
      PROVE  n \in 0..(w * h - 1)
  <2>1. PICK dy \in {0, 1}, dx \in {0, 1} : n = (2 * row + dy) * w + 2 * col + dx
    BY <1>4 DEF Square
  <2> QED BY <1>2, <2>1
<1>5. n \in 0..(w * h - 1)
      <=> \E row \in 0..(b - 1), col \in 0..(a - 1) : n \in Square(w, row, col)
  BY <1>3, <1>4
<1> QED BY <1>5 DEF w, h

\* Every size that X264Encoder::Initialize accepts is one whose conversion
\* fills the encoder's buffer and takes every pixel of the picture.
THEOREM AcceptedFills ==
    ASSUME NEW w \in Int, NEW h \in Int, Accepts(w, h)
    PROVE  Fills(w, h)
PROOF
<1> DEFINE a == w \div 2
           b == h \div 2
           N == a * b
<1>1. a \in Nat \ {0} /\ b \in Nat \ {0} /\ w = 2 * a /\ h = 2 * b
  BY DEF Accepts, AcceptsAny
<1> HIDE DEF a, b
<1>2. N \in Nat /\ (2 * a) * (2 * b) = 4 * N
  BY <1>1, SMT
<1>3. N >= 1
  <2>1. a * b >= a * 1
    BY <1>1, SMT
  <2> QED BY <1>1, <2>1
<1>4. w * h = 4 * N
  BY <1>1, <1>2
<1> DEFINE places(plane) == {ChromaAt(w, h, plane, row, col) :
                                 row \in Rows(h), col \in Cols(w)}
<1>r. Rows(h) = 0..(b - 1) /\ Cols(w) = 0..(a - 1)
  BY DEF Rows, Cols, a, b
<1>5. ASSUME NEW plane \in {0, 1}, NEW n
      PROVE  n \in places(plane)
             <=> n \in (4 * N + plane * N)..(4 * N + plane * N + N - 1)
  <2>1. plane * a * b = plane * N
    BY <1>1, SMT
  <2>2. ASSUME NEW row, NEW col
        PROVE  ChromaAt(w, h, plane, row, col)
                   = 4 * N + plane * N + row * a + col
    <3>1. ChromaAt(w, h, plane, row, col)
              = w * h + plane * a * b + row * a + col
      BY DEF ChromaAt, a, b
    <3> QED BY <1>4, <2>1, <3>1
  <2> DEFINE base == 4 * N + plane * N
  <2>3. n \in places(plane)
        <=> \E row \in 0..(b - 1), col \in 0..(a - 1) : n = base + row * a + col
    <3> HIDE DEF N
    <3> QED BY <1>r, <2>2
  <2>4. base \in Nat
    BY <1>2
  <2> HIDE DEF base, places
  <2>5. n \in base..(base + N - 1)
        <=> \E row \in 0..(b - 1), col \in 0..(a - 1) : n = base + row * a + col
    <3>1. ASSUME n \in base..(base + a * b - 1)
          PROVE  \E row \in 0..(b - 1), col \in 0..(a - 1) :
                     n = base + row * a + col
      <4>1. \A m \in base..(base + a * b - 1) :
                \E row \in 0..(b - 1), col \in 0..(a - 1) :
                    m = base + row * a + col
        BY <1>1, <2>4, PlaneOfPlace
      <4> QED BY <3>1, <4>1, Zenon
    <3>2. ASSUME NEW row \in 0..(b - 1), NEW col \in 0..(a - 1),
                 n = base + row * a + col
          PROVE  n \in base..(base + a * b - 1)
      BY <1>1, <2>4, <3>2, PlaceInPlane
    <3> QED BY <3>1, <3>2
  <2> QED BY <2>3, <2>5 DEF base
<1>6. BufferSize(w, h) = 6 * N
  <2>1. BufferSize(w, h) = w * h + 2 * a * b
    BY DEF BufferSize, a, b
  <2>2. 2 * a * b = 2 * N
    BY <1>1, SMT
  <2>3. BufferSize(w, h) = 4 * N + 2 * N
    BY <1>4, <2>1, <2>2
  <2> HIDE DEF N
  <2> QED BY <1>2, <2>3
<1>7. UNION {Square(w, row, col) : row \in Rows(h), col \in Cols(w)}
          = 0..(w * h - 1)
  <2>1. ASSUME NEW n
        PROVE  n \in 0..(w * h - 1)
               <=> \E row \in 0..(b - 1), col \in 0..(a - 1) :
                       n \in Square(w, row, col)
    BY <1>1, SquaresTile
  <2> DEFINE pixels == UNION {Square(w, row, col) :
                                 row \in Rows(h), col \in Cols(w)}
  <2>2. \A n : n \in pixels <=> \E row \in Rows(h), col \in Cols(w) :
                                   n \in Square(w, row, col)
    OBVIOUS
  <2> HIDE DEF pixels
  <2>3. \A n : n \in pixels <=> n \in 0..(w * h - 1)
    BY <1>r, <2>1, <2>2, Zenon
  <2>4. pixels = 0..(w * h - 1)
    BY ONLY <2>3
  <2> QED BY <2>4 DEF pixels
<1>8. /\ places(0) = (4 * N)..(5 * N - 1)
      /\ places(1) = (5 * N)..(6 * N - 1)
  <2>1. 0 * N = 0 /\ 1 * N = N
    BY <1>2
  <2>2. places(0) = (4 * N + 0 * N)..(4 * N + 0 * N + N - 1)
        /\ places(1) = (4 * N + 1 * N)..(4 * N + 1 * N + N - 1)
    BY <1>5
  <2> HIDE DEF N, places
  <2> QED BY <1>2, <2>1, <2>2
<1> HIDE DEF N, places
<1>9. /\ 0..(w * h - 1) \cup places(0) \cup places(1)
             = 0..(BufferSize(w, h) - 1)
      /\ places(0) \cap places(1) = {}
  <2>1. 0..(4 * N - 1) \cup (4 * N)..(5 * N - 1) \cup (5 * N)..(6 * N - 1)
            = 0..(6 * N - 1)
    BY <1>2
  <2>2. (4 * N)..(5 * N - 1) \cap (5 * N)..(6 * N - 1) = {}
    BY <1>2
  <2> QED BY <1>4, <1>6, <1>8, <2>1, <2>2
<1> QED BY <1>7, <1>9 DEF Fills, places

\* Every colour becomes samples of the studio range, with nothing clamped off.
THEOREM ColoursInRange ==
    \A r, g, b \in Component : StudioRange(r, g, b)
PROOF
<1> SUFFICES \A r, g, b \in 0..255 :
                 /\ Luma(r, g, b) \in 16..235
                 /\ Blue(r, g, b) \in 16..240 /\ Red(r, g, b) \in 16..240
                 /\ r = g /\ g = b => Blue(r, g, b) = 128 /\ Red(r, g, b) = 128
                 /\ Mean(r, g, b, b) \in 0..255
  BY DEF StudioRange, Component
<1> TAKE r, g, b \in 0..255
<1>1. Luma(r, g, b) \in 16..235
  BY DEF Luma, Clamp
<1>2. Blue(r, g, b) \in 16..240
  BY DEF Blue, Clamp
<1>3. Red(r, g, b) \in 16..240
  BY DEF Red, Clamp
<1>4. r = g /\ g = b => Blue(r, g, b) = 128 /\ Red(r, g, b) = 128
  BY DEF Blue, Red, Clamp
<1>5. Mean(r, g, b, b) \in 0..255
  BY DEF Mean
<1> QED BY <1>1, <1>2, <1>3, <1>4, <1>5
-----------------------------------------------------------------------------
\* What the program knows of the monitor it captures: in its loop the encoder
\* has been opened with the size of the first output.
Looping == {"capture", "encode", "connect", "handshake", "poll", "send"}

PictureInv ==
    /\ monitors \in Monitors
    /\ seen \in Nat
    /\ outputs \in Seq(DOMAIN monitors)
    /\ main = "encoder" => outputs # <<>>
    /\ main \in Looping => /\ outputs # <<>>
                           /\ encoder = Size(Screen)
                           /\ Accepts(encoder[1], encoder[2])
    /\ main = "encode" => bgra = encoder

LEMMA PictureStep == ASSUME PictureInv, [Next]_vars PROVE PictureInv'
PROOF
<1>1. /\ monitors \in Seq([w : Int, h : Int, fails : Failures \cup {"no"}])
      /\ outputs \in Seq(DOMAIN monitors) /\ seen \in Nat
  BY AgentAssumption DEF PictureInv
<1>2. ASSUME UNCHANGED monitors, UNCHANGED <<seen, outputs, encoder>>,
             main' = main \/ main \in Looping, main' = main => bgra' = bgra,
             main' = "encode" /\ main # "encode" => bgra' = Size(Screen),
             main # main' => main' \in Looping
      PROVE  PictureInv'
  BY <1>2 DEF PictureInv, Looping, Size, Screen
<1>3. ASSUME UNCHANGED monitors, seen' \in Nat, outputs' \in {outputs, <<>>},
             main' \in {"leave", "exited", "cleanup", "enumerate"}
      PROVE  PictureInv'
  <2>1. outputs' \in Seq(DOMAIN monitors')
    <3> DEFINE S == DOMAIN monitors
    <3>1. outputs' \in Seq(S)
      <4>1. outputs \in Seq(S)
        BY <1>1
      <4> HIDE DEF S
      <4>2. <<>> \in Seq(S)
        OBVIOUS
      <4> QED BY <1>3, <4>1, <4>2
    <3> QED BY <1>3, <3>1, Zenon
  <2> QED BY <1>3, <2>1 DEF PictureInv, Looping
<1>4. CASE InitInterop
  BY <1>1, <1>3, <1>4 DEF InitInterop
<1>5. CASE EnumerateOutput
  <2>1. /\ main = "enumerate" /\ main' = main /\ seen' = seen + 1
        /\ UNCHANGED monitors /\ seen < Len(monitors)
    BY <1>5 DEF EnumerateOutput
  <2>2. seen' \in DOMAIN monitors /\ seen' \in Nat
    BY <1>1, <2>1
  <2>3. outputs' \in Seq(DOMAIN monitors)
    <3>1. outputs' = Append(outputs, seen') \/ outputs' = outputs
      BY <1>5 DEF EnumerateOutput
    <3>2. Append(outputs, seen') \in Seq(DOMAIN monitors)
      BY <1>1, <2>2, AppendFacts, Zenon
    <3> QED BY <1>1, <3>1, <3>2, Zenon
  <2> QED BY <2>1, <2>2, <2>3 DEF PictureInv, Looping
<1>6. CASE EnumerationEnds
  <2>1. /\ UNCHANGED <<monitors, seen, encoder, bgra>>
        /\ IF outputs = <<>> THEN outputs' = <<>> /\ main' = "leave"
                             ELSE main' = "encoder" /\ UNCHANGED outputs
    BY <1>6 DEF EnumerationEnds, CaptureShutdown
  <2> QED BY <1>1, <2>1 DEF PictureInv, Looping
<1>7. CASE InitEncoder
  <2>1. UNCHANGED <<monitors, seen, outputs, bgra>> /\ outputs # <<>>
    BY <1>7 DEF InitEncoder, PictureInv
  <2>2. CASE main' = "leave"
    BY <1>1, <1>3, <2>1, <2>2
  <2>3. CASE main' # "leave"
    <3>1. /\ Accepts(monitors[Screen].w, monitors[Screen].h)
          /\ encoder' = Size(Screen) /\ main' = "capture"
      BY <1>7, <2>3 DEF InitEncoder
    <3>2. encoder'[1] = monitors[Screen].w /\ encoder'[2] = monitors[Screen].h
      BY <3>1 DEF Size
    <3>3. encoder' = Size(Screen)' /\ Accepts(encoder[1], encoder[2])'
      BY <2>1, <3>1, <3>2 DEF Size, Screen, Accepts, AcceptsAny
    <3> QED BY <1>1, <2>1, <3>1, <3>3 DEF PictureInv, Looping
  <2> QED BY <2>2, <2>3
<1>8. CASE CaptureFrame
  BY <1>2, <1>8 DEF CaptureFrame, Looping, Screen
<1>9. CASE EncodeFrame
  <2>1. UNCHANGED monitors /\ UNCHANGED <<seen, outputs, encoder>>
        /\ main = "encode" /\ main' \in {"poll", "connect", "cleanup"}
    BY <1>9 DEF EncodeFrame
  <2> QED BY <1>1, <1>2, <1>3, <2>1 DEF Looping
<1>10. CASE Connect \/ Handshake \/ Poll \/ Send
  <2>1. UNCHANGED monitors /\ UNCHANGED <<seen, outputs, encoder>>
        /\ main \in Looping /\ main' \in Looping \ {"encode"}
        /\ main' # main
    BY <1>10 DEF Connect, Handshake, Poll, Send, Looping
  <2> QED BY <1>2, <2>1
<1>11. CASE LeaveLoop \/ Cleanup \/ Leave
  BY <1>1, <1>3, <1>11 DEF LeaveLoop, Cleanup, Leave, CaptureShutdown
<1>12. CASE Signal \/ FallSilent
  BY <1>12 DEF Signal, FallSilent, PictureInv, Size, Screen
<1>13. CASE UNCHANGED vars
  BY <1>13 DEF vars, agentVars, PictureInv, Size, Screen
<1> QED BY <1>4, <1>5, <1>6, <1>7, <1>8, <1>9, <1>10, <1>11, <1>12, <1>13
        DEF Next, Main, Unblocked, Blocking

\* Whatever monitors there are and whichever of them fail, the picture given to
\* the encoder has the size it was opened with (main.cpp and
\* encoder_x264.cpp), and its conversion fills the encoder's buffer from the
\* picture's pixels, whatever that size is.
THEOREM PicturesFit == Spec => []PictureFits
PROOF
<1>1. Init => PictureInv
  <2>1. ASSUME Init PROVE PictureInv
    <3>1. /\ monitors \in Monitors /\ main = "start" /\ seen = 0
          /\ outputs = <<>>
      BY <2>1 DEF Init
    <3> QED BY <3>1 DEF PictureInv, Looping
  <2> QED BY <2>1
<1>2. PictureInv => PictureFits
  <2> SUFFICES ASSUME PictureInv, main = "encode"
               PROVE  bgra = encoder /\ Fills(encoder[1], encoder[2])
    BY DEF PictureFits
  <2>1. /\ bgra = encoder /\ outputs # <<>> /\ encoder = Size(Screen)
        /\ Accepts(encoder[1], encoder[2])
        /\ outputs \in Seq(DOMAIN monitors)
        /\ monitors \in Seq([w : Int, h : Int, fails : Failures \cup {"no"}])
    BY AgentAssumption DEF PictureInv, Looping
  <2>2. Screen \in DOMAIN monitors
    BY <2>1 DEF Screen
  <2>3. monitors[Screen] \in [w : Int, h : Int, fails : Failures \cup {"no"}]
    <3> DEFINE R == [w : Int, h : Int, fails : Failures \cup {"no"}]
    <3>1. monitors \in Seq(R)
      BY <2>1
    <3> HIDE DEF R
    <3>2. monitors[Screen] \in R
      BY <2>2, <3>1
    <3> QED BY <3>2 DEF R
  <2>4. encoder[1] \in Int /\ encoder[2] \in Int
    BY <2>1, <2>3 DEF Size
  <2> QED BY <2>1, <2>4, AcceptedFills
<1> QED BY <1>1, <1>2, PictureStep, PTL DEF Spec
=============================================================================
