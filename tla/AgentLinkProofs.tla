--------------------------- MODULE AgentLinkProofs ---------------------------
(***************************************************************************)
(* Proofs about AgentLink, whatever the window, and however often and at   *)
(* whichever point connections break, programs restart and keyframes are   *)
(* asked for: the state keeps its type, replies stay paired with requests, *)
(* and an agent that streams is the one the server handles.                *)
(***************************************************************************)
EXTENDS AgentLink, SequenceFacts, FiniteSetTheorems

\* Only the agent's last connection may be open; what the server sends goes to
\* the connection it handles while that is open.
LinksInv ==
    /\ sock # None => sock = Opened
    /\ \A n \in 1..Opened : link[n] = "open" => n = sock
    /\ \A n \in 1..Opened :
          s2c[n] # <<>> => link[n] = "open" /\ n = serving /\ server = "handle"

\* Where the agent can be, by the state of its socket.
AgentInv ==
    /\ agent = "wait" <=> sock # None /\ ~handshakeDone
    /\ agent = "connect" => sock = None
    /\ agent \in {"poll", "send"} => handshakeDone
    /\ handshakeDone => sock # None

\* An open connection is accepted in its turn; the session is that of the
\* connection being handled, from its publication to its withdrawal.
ServerInv ==
    /\ server = "accept" <=> serving = None
    /\ session = IF server \in {"handle", "ended"} THEN serving ELSE None
    /\ server = "ended" => link[serving] # "open"
    /\ \A n \in 1..Opened : link[n] = "open" =>
          \/ n \in Range(backlog)
          \/ n = serving /\ server \in {"publish", "handle"}

\* The handshake on connection n, while it is open: a request is on its way, or
\* its one reply is, and PLAY was seen when that is the reply to PLAY.
Asking(n) == c2s[n] = <<Requests[step]>> /\ RepliesOn(n) = {}
Answered(n) ==
    /\ c2s[n] = <<>>
    /\ \E j \in DOMAIN s2c[n] : RepliesOn(n) = {j}
    /\ step = 4 => playSent
Streaming(n) ==
    /\ RequestsOn(n) = {} /\ RepliesOn(n) = {}
    /\ server = "handle" /\ serving = n /\ playSent

HandshakeInv ==
    sock # None /\ link[sock] = "open" =>
        IF handshakeDone THEN Streaming(sock) ELSE Asking(sock) \/ Answered(sock)

LinkInv == TypeOK /\ LinksInv /\ AgentInv /\ ServerInv /\ HandshakeInv
-----------------------------------------------------------------------------
\* The connections opened so far are counted.
LEMMA Counted == TypeOK => /\ Opened \in Nat
                           /\ sock # None => sock \in 1..Opened
                           /\ serving # None => serving \in 1..Opened
<1> SUFFICES ASSUME TypeOK
             PROVE  /\ Opened \in Nat
                    /\ sock # None => sock \in 1..Opened
                    /\ serving # None => serving \in 1..Opened
    OBVIOUS
<1>1. Opened \in Nat
  <2>1. \A S : \A s \in Seq(S) : Len(s) \in Nat
      OBVIOUS
  <2>2. link \in Seq({"open", "closed", "broken", "silent"})
      BY DEF TypeOK
  <2> QED BY <2>1, <2>2 DEF Opened
<1>2. sock \in 0..Opened /\ serving \in 0..Opened
    BY DEF TypeOK
<1> QED BY <1>1, <1>2 DEF None

LEMMA LinkInit == Init => LinkInv
<1> SUFFICES ASSUME Init PROVE LinkInv
    OBVIOUS
<1>1. TypeOK
  <2>1. Window \in Nat /\ MaxBreaks \in Nat /\ MaxAsks \in Nat /\ MaxSplits \in Nat
      BY LinkAssumption
  <2>2. \A S : <<>> \in Seq(S)
      OBVIOUS
  <2>3. Opened = 0 /\ Len(c2s) = 0 /\ Len(s2c) = 0
      BY DEF Init, Opened
  <2>4. link \in Seq({"open", "closed", "broken", "silent"})
      BY <2>2 DEF Init
  <2>5. c2s \in Seq(Seq({"rtp", "OPTIONS", "DESCRIBE", "SETUP", "PLAY"}))
      BY <2>2 DEF Init
  <2>6. s2c \in Seq(Seq({"200 OK", "rest", "!K"}))
      BY <2>2 DEF Init
  <2>7. backlog \in Seq(1..Opened)
      BY <2>2 DEF Init
  <2>8. \A n \in 1..Opened : Len(c2s[n]) <= Window
      BY <2>3
  <2>11. sock \in 0..Opened /\ serving \in 0..Opened /\ session \in 0..Opened
      BY <2>3 DEF Init, None
  <2>9. {handshakeDone, refresh, listening, playSent, fed} \subseteq BOOLEAN
      BY DEF Init
  <2>12. Len(c2s) = Opened /\ Len(s2c) = Opened /\ step \in 1..4
      BY <2>3 DEF Init
  <2>13. agent = "capture" /\ server = "accept"
      BY DEF Init
  <2>10. breaks \in 0..MaxBreaks /\ asks \in 0..MaxAsks /\ splits \in 0..MaxSplits
      BY <2>1 DEF Init
  <2> QED BY <2>4, <2>5, <2>6, <2>7, <2>8, <2>9, <2>10, <2>11, <2>12, <2>13
         DEF TypeOK
<1>2. LinksInv /\ AgentInv /\ ServerInv /\ HandshakeInv
    BY DEF Init, LinksInv, AgentInv, ServerInv, HandshakeInv, Opened, None
<1> QED BY <1>1, <1>2 DEF LinkInv

\* What is taken from a queue is its head, and the rest stays.
LEMMA TakenOrLeft ==
    ASSUME NEW S, NEW s \in Seq(S), s # <<>>
    PROVE  \A n \in Range(s) : n = Head(s) \/ n \in Range(Tail(s))
<1> SUFFICES ASSUME NEW i \in DOMAIN s
             PROVE  s[i] = Head(s) \/ s[i] \in Range(Tail(s))
    BY DEF Range
<1>1. CASE i = 1
    BY <1>1, TailFacts
<1>2. CASE i # 1
  <2>1. i - 1 \in 1..(Len(s) - 1) /\ (i - 1) + 1 = i
      BY <1>2
  <2>2. Tail(s)[i - 1] = s[i] /\ i - 1 \in DOMAIN Tail(s)
      BY <2>1, TailFacts
  <2> QED BY <2>2 DEF Range
<1> QED BY <1>1, <1>2

(***************************************************************************)
(* The steps that leave the connections as they are.                       *)
(***************************************************************************)

LEMMA EncodeFrameKeeps == LinkInv /\ EncodeFrame => LinkInv'
<1> SUFFICES ASSUME LinkInv, EncodeFrame PROVE LinkInv'
    OBVIOUS
<1> USE DEF netVars, serverVars, counters
<1>1. TypeOK'
    BY DEF LinkInv, TypeOK, EncodeFrame, Opened
<1>2. LinksInv'
    BY DEF LinkInv, LinksInv, EncodeFrame, Opened
<1>3. AgentInv'
    BY DEF LinkInv, AgentInv, EncodeFrame, TypeOK
<1>4. ServerInv'
    BY DEF LinkInv, ServerInv, EncodeFrame, Opened
<1>5. HandshakeInv'
    BY DEF LinkInv, HandshakeInv, EncodeFrame, Asking, Answered, Streaming,
           RequestsOn, RepliesOn
<1> QED BY <1>1, <1>2, <1>3, <1>4, <1>5 DEF LinkInv

LEMMA ConnectRefusedKeeps == LinkInv /\ ConnectRefused => LinkInv'
<1> SUFFICES ASSUME LinkInv, ConnectRefused PROVE LinkInv'
    OBVIOUS
<1> USE DEF netVars, serverVars, counters
<1>1. TypeOK'
    BY DEF LinkInv, TypeOK, ConnectRefused, Opened
<1>2. LinksInv'
    BY DEF LinkInv, LinksInv, ConnectRefused, Opened
<1>3. AgentInv'
    BY DEF LinkInv, AgentInv, ConnectRefused
<1>4. ServerInv'
    BY DEF LinkInv, ServerInv, ConnectRefused, Opened
<1>5. HandshakeInv'
    BY DEF LinkInv, HandshakeInv, ConnectRefused, Asking, Answered, Streaming,
           RequestsOn, RepliesOn
<1> QED BY <1>1, <1>2, <1>3, <1>4, <1>5 DEF LinkInv

LEMMA RelistenKeeps == LinkInv /\ Relisten => LinkInv'
<1> SUFFICES ASSUME LinkInv, Relisten PROVE LinkInv'
    OBVIOUS
<1> USE DEF agentVars, netVars, counters
<1>1. TypeOK'
    BY DEF LinkInv, TypeOK, Relisten, Opened
<1>2. LinksInv'
    BY DEF LinkInv, LinksInv, Relisten, Opened
<1>3. AgentInv'
    BY DEF LinkInv, AgentInv, Relisten
<1>4. ServerInv'
    BY DEF LinkInv, ServerInv, Relisten, Opened
<1>5. HandshakeInv'
    BY DEF LinkInv, HandshakeInv, Relisten, Asking, Answered, Streaming,
           RequestsOn, RepliesOn
<1> QED BY <1>1, <1>2, <1>3, <1>4, <1>5 DEF LinkInv

LEMMA AcceptKeeps == LinkInv /\ Accept => LinkInv'
<1> SUFFICES ASSUME LinkInv, Accept PROVE LinkInv'
    OBVIOUS
<1> USE DEF agentVars, netVars, counters
<1>1. /\ backlog \in Seq(1..Opened) /\ backlog # <<>>
      /\ Head(backlog) \in 1..Opened /\ Tail(backlog) \in Seq(1..Opened)
      /\ Opened \in Nat
  <2>1. backlog \in Seq(1..Opened) /\ backlog # <<>>
      BY DEF LinkInv, TypeOK, Accept
  <2> QED BY <2>1, Counted, TailFacts DEF LinkInv
<1>2. \A n \in Range(backlog) : n = Head(backlog) \/ n \in Range(Tail(backlog))
    BY <1>1, TakenOrLeft
<1>3. TypeOK'
  <2>1. serving' \in 0..Opened /\ backlog' \in Seq(1..Opened)
      BY <1>1 DEF Accept
  <2> QED BY <2>1 DEF LinkInv, TypeOK, Accept, Opened
<1>4. \A n \in 1..Opened : s2c[n] = <<>>
    BY DEF LinkInv, LinksInv, Accept
<1>5. LinksInv'
    BY <1>4 DEF LinkInv, LinksInv, Accept, Opened
<1>6. AgentInv'
    BY DEF LinkInv, AgentInv, Accept
<1>7. ServerInv'
    BY <1>1, <1>2 DEF LinkInv, ServerInv, Accept, Opened, None
<1>8. HandshakeInv'
  <2> SUFFICES ASSUME sock # None, link[sock] = "open"
               PROVE  Asking(sock)' /\ ~handshakeDone'
      BY DEF HandshakeInv, Accept
  <2>1. s2c[sock] = <<>>
      BY <1>4, Counted DEF LinkInv
  <2> QED
      BY <2>1 DEF LinkInv, HandshakeInv, Accept, Asking, Answered, Streaming,
                  RepliesOn
<1> QED BY <1>3, <1>5, <1>6, <1>7, <1>8 DEF LinkInv

LEMMA PublishSessionKeeps == LinkInv /\ PublishSession => LinkInv'
<1> SUFFICES ASSUME LinkInv, PublishSession PROVE LinkInv'
    OBVIOUS
<1> USE DEF agentVars, netVars, counters
<1>1. TypeOK'
  <2>1. session' \in 0..Opened
      BY DEF LinkInv, TypeOK, PublishSession
  <2> QED BY <2>1 DEF LinkInv, TypeOK, PublishSession, Opened
<1>2. LinksInv'
    BY DEF LinkInv, LinksInv, PublishSession, Opened
<1>3. AgentInv'
    BY DEF LinkInv, AgentInv, PublishSession
<1>4. ServerInv'
    BY DEF LinkInv, ServerInv, PublishSession, Opened
<1>5. HandshakeInv'
    BY DEF LinkInv, HandshakeInv, PublishSession, Asking, Answered, Streaming,
           RequestsOn, RepliesOn
<1> QED BY <1>1, <1>2, <1>3, <1>4, <1>5 DEF LinkInv

LEMMA HandleEndKeeps == LinkInv /\ HandleEnd => LinkInv'
<1> SUFFICES ASSUME LinkInv, HandleEnd PROVE LinkInv'
    OBVIOUS
<1> USE DEF agentVars, netVars, counters
<1>1. TypeOK'
    BY DEF LinkInv, TypeOK, HandleEnd, Opened
<1>2. \A n \in 1..Opened : s2c[n] = <<>>
    BY DEF LinkInv, LinksInv, HandleEnd
<1>3. LinksInv'
    BY <1>2 DEF LinkInv, LinksInv, HandleEnd, Opened
<1>4. AgentInv'
    BY DEF LinkInv, AgentInv, HandleEnd
<1>5. ServerInv'
    BY DEF LinkInv, ServerInv, HandleEnd, Opened
<1>6. HandshakeInv'
    BY DEF LinkInv, HandshakeInv, HandleEnd, Asking, Answered, Streaming,
           RequestsOn, RepliesOn
<1> QED BY <1>1, <1>3, <1>4, <1>5, <1>6 DEF LinkInv

LEMMA WithdrawSessionKeeps == LinkInv /\ WithdrawSession => LinkInv'
<1> SUFFICES ASSUME LinkInv, WithdrawSession PROVE LinkInv'
    OBVIOUS
<1> USE DEF agentVars, netVars, counters
<1>1. TypeOK'
  <2>1. session' \in 0..Opened /\ serving' \in 0..Opened
    <3>1. Opened \in Nat /\ session \in 0..Opened
        BY Counted DEF LinkInv, TypeOK
    <3> QED BY <3>1 DEF WithdrawSession, None
  <2> QED BY <2>1 DEF LinkInv, TypeOK, WithdrawSession, Opened
<1>2. \A n \in 1..Opened : s2c[n] = <<>>
    BY DEF LinkInv, LinksInv, WithdrawSession
<1>3. LinksInv'
    BY <1>2 DEF LinkInv, LinksInv, WithdrawSession, Opened
<1>4. AgentInv'
    BY DEF LinkInv, AgentInv, WithdrawSession
<1>5. ServerInv'
    BY DEF LinkInv, ServerInv, WithdrawSession, Opened, None
<1>6. HandshakeInv'
    BY DEF LinkInv, HandshakeInv, WithdrawSession, Asking, Answered, Streaming,
           RequestsOn, RepliesOn
<1> QED BY <1>1, <1>3, <1>4, <1>5, <1>6 DEF LinkInv
(***************************************************************************)
(* The network fails, or the agent gives its connection up.                *)
(***************************************************************************)

\* The types of the connections, apart from the other variables.
Units   == {"rtp", "OPTIONS", "DESCRIBE", "SETUP", "PLAY"}
Answers == {"200 OK", "rest", "!K"}
States  == {"open", "closed", "broken", "silent"}
NetTypes ==
    /\ link \in Seq(States) /\ c2s \in Seq(Seq(Units)) /\ s2c \in Seq(Seq(Answers))
    /\ Len(c2s) = Opened /\ Len(s2c) = Opened
    /\ \A n \in 1..Opened : Len(c2s[n]) <= Window

LEMMA NetTyped == TypeOK => NetTypes
BY DEF TypeOK, NetTypes, Units, Answers, States

\* One connection changes its state: the others keep theirs.
LEMMA LinkChanges ==
    ASSUME TypeOK, NEW n \in 1..Opened, NEW how \in States
    PROVE  /\ [link EXCEPT ![n] = how] \in Seq(States)
           /\ Len([link EXCEPT ![n] = how]) = Opened
           /\ [link EXCEPT ![n] = how][n] = how
           /\ \A m \in 1..Opened : m # n => [link EXCEPT ![n] = how][m] = link[m]
<1>1. link \in Seq(States) /\ n \in 1..Len(link) /\ Opened = Len(link)
    BY DEF TypeOK, States, Opened
<1> QED BY <1>1, ExceptFacts

\* What is in flight to the server on one connection changes.
LEMMA SentChanges ==
    ASSUME TypeOK, NEW n \in 1..Opened, NEW units \in Seq(Units),
           Len(units) <= Window
    PROVE  /\ [c2s EXCEPT ![n] = units] \in Seq(Seq(Units))
           /\ Len([c2s EXCEPT ![n] = units]) = Opened
           /\ [c2s EXCEPT ![n] = units][n] = units
           /\ \A m \in 1..Opened : m # n => [c2s EXCEPT ![n] = units][m] = c2s[m]
           /\ \A m \in 1..Opened : Len([c2s EXCEPT ![n] = units][m]) <= Window
<1>1. c2s \in Seq(Seq(Units)) /\ n \in 1..Len(c2s) /\ Opened = Len(c2s)
    BY DEF TypeOK, Units
<1>2. \A m \in 1..Opened : Len(c2s[m]) <= Window
    BY DEF TypeOK
<1>3. /\ [c2s EXCEPT ![n] = units] \in Seq(Seq(Units))
      /\ Len([c2s EXCEPT ![n] = units]) = Opened
      /\ [c2s EXCEPT ![n] = units][n] = units
      /\ \A m \in 1..Opened : m # n => [c2s EXCEPT ![n] = units][m] = c2s[m]
    BY <1>1, ExceptFacts
<1> QED BY <1>2, <1>3

\* What is in flight to the agent on one connection changes.
LEMMA RepliesChange ==
    ASSUME TypeOK, NEW n \in 1..Opened, NEW units \in Seq(Answers)
    PROVE  /\ [s2c EXCEPT ![n] = units] \in Seq(Seq(Answers))
           /\ Len([s2c EXCEPT ![n] = units]) = Opened
           /\ [s2c EXCEPT ![n] = units][n] = units
           /\ \A m \in 1..Opened : m # n => [s2c EXCEPT ![n] = units][m] = s2c[m]
<1>1. s2c \in Seq(Seq(Answers)) /\ n \in 1..Len(s2c) /\ Opened = Len(s2c)
    BY DEF TypeOK, Answers
<1> QED BY <1>1, ExceptFacts

\* What follows once the agent's connection is no longer open: nothing is in
\* flight to the agent, and the handshake is over for the server.
Lost(n) ==
    /\ link' \in Seq(States) /\ Len(link') = Opened
    /\ link'[n] \in {"closed", "broken", "silent"}
    /\ \A m \in 1..Opened : m # n => link'[m] = link[m]
    /\ s2c' \in Seq(Seq(Answers)) /\ Len(s2c') = Opened /\ s2c'[n] = <<>>
    /\ \A m \in 1..Opened : m # n => s2c'[m] = s2c[m]
    /\ c2s' \in Seq(Seq(Units)) /\ Len(c2s') = Opened
    /\ \A m \in 1..Opened : Len(c2s'[m]) <= Window

LEMMA ClosedLost ==
    ASSUME LinkInv, sock # None,
           \/ link' = [link EXCEPT ![sock] = IF @ = "open" THEN "closed" ELSE @]
           \/ \E how \in {"broken", "silent"} : link' = [link EXCEPT ![sock] = how],
           c2s' \in {c2s, [c2s EXCEPT ![sock] = <<>>]},
           s2c' = [s2c EXCEPT ![sock] = <<>>]
    PROVE  Lost(sock)
<1>1. TypeOK /\ sock \in 1..Opened
    BY Counted DEF LinkInv
<1>8. link[sock] \in States
    BY <1>1, NetTyped DEF NetTypes, Opened
<1>2. PICK how \in {"closed", "broken", "silent"} :
            link' = [link EXCEPT ![sock] = how]
  <2>1. CASE link' = [link EXCEPT ![sock] = IF @ = "open" THEN "closed" ELSE @]
    <3> DEFINE how == IF link[sock] = "open" THEN "closed" ELSE link[sock]
    <3>1. how \in {"closed", "broken", "silent"}
        BY <1>8 DEF States
    <3> QED BY <2>1, <3>1
  <2> QED BY <2>1
<1>3. how \in States
    BY DEF States
<1>4. /\ link' \in Seq(States) /\ Len(link') = Opened
      /\ link'[sock] = how
      /\ \A m \in 1..Opened : m # sock => link'[m] = link[m]
    BY <1>1, <1>2, <1>3, LinkChanges
<1>5. /\ <<>> \in Seq(Answers) /\ <<>> \in Seq(Units)
      /\ Len(<<>>) = 0 /\ 0 <= Window
    BY LinkAssumption
<1>6. /\ s2c' \in Seq(Seq(Answers)) /\ Len(s2c') = Opened /\ s2c'[sock] = <<>>
      /\ \A m \in 1..Opened : m # sock => s2c'[m] = s2c[m]
  <2> DEFINE left == [s2c EXCEPT ![sock] = <<>>]
  <2>1. /\ left \in Seq(Seq(Answers)) /\ Len(left) = Opened /\ left[sock] = <<>>
        /\ \A m \in 1..Opened : m # sock => left[m] = s2c[m]
    <3> DEFINE none == <<>>
    <3>1. none \in Seq(Answers)
        BY <1>5
    <3> HIDE DEF none
    <3>2. LET kept == [s2c EXCEPT ![sock] = none]
          IN  /\ kept \in Seq(Seq(Answers)) /\ Len(kept) = Opened
              /\ kept[sock] = none
              /\ \A m \in 1..Opened : m # sock => kept[m] = s2c[m]
        BY <1>1, <3>1, RepliesChange
    <3> QED BY <3>2 DEF none
  <2>2. s2c' = left
      OBVIOUS
  <2> HIDE DEF left
  <2> QED BY <2>1, <2>2
<1>7. /\ c2s' \in Seq(Seq(Units)) /\ Len(c2s') = Opened
      /\ \A m \in 1..Opened : Len(c2s'[m]) <= Window
  <2>1. CASE c2s' = c2s
      BY <2>1, <1>1, NetTyped DEF NetTypes
  <2>2. CASE c2s' = [c2s EXCEPT ![sock] = <<>>]
      BY <2>2, <1>1, <1>5, SentChanges
  <2> QED BY <2>1, <2>2
<1> QED BY <1>2, <1>4, <1>6, <1>7 DEF Lost

\* A connection that is lost was the only one that could be open.
LEMMA LostKeeps ==
    ASSUME LinkInv, sock # None, Lost(sock), sock' \in {None, sock},
           UNCHANGED serverVars
    PROVE  LinksInv' /\ ServerInv' /\ HandshakeInv'
<1>1. TypeOK /\ sock \in 1..Opened /\ Opened' = Opened
    BY Counted DEF LinkInv, Lost, Opened
<1>2. \A m \in 1..Opened : link'[m] # "open" /\ s2c'[m] = <<>>
    BY <1>1 DEF LinkInv, LinksInv, Lost
<1>3. LinksInv'
    BY <1>1, <1>2 DEF LinkInv, LinksInv
<1>4. HandshakeInv'
    BY <1>1, <1>2 DEF HandshakeInv
<1>5. ServerInv'
  <2>1. server = "ended" => serving \in 1..Opened
      BY <1>1, Counted DEF LinkInv, ServerInv
  <2> QED BY <1>1, <1>2, <2>1 DEF LinkInv, ServerInv, serverVars
<1> QED BY <1>3, <1>4, <1>5

\* The types of what the connections are not.
OthersTyped ==
    /\ agent \in {"capture", "connect", "wait", "poll", "send"}
    /\ sock \in 0..Opened
    /\ step \in 1..4
    /\ {handshakeDone, refresh, listening, playSent, fed} \subseteq BOOLEAN
    /\ backlog \in Seq(1..Opened)
    /\ server \in {"accept", "publish", "handle", "ended"}
    /\ serving \in 0..Opened
    /\ session \in 0..Opened
    /\ breaks \in 0..MaxBreaks /\ asks \in 0..MaxAsks /\ splits \in 0..MaxSplits

LEMMA TypedApart == TypeOK <=> NetTypes /\ OthersTyped
BY DEF TypeOK, NetTypes, OthersTyped, Units, Answers, States

LEMMA TypedTogether == NetTypes' /\ OthersTyped' => TypeOK'
BY DEF TypeOK, NetTypes, OthersTyped, Units, Answers, States

LEMMA LostTyped ==
    ASSUME TypeOK, sock # None, Lost(sock)
    PROVE  NetTypes' /\ Opened' = Opened
BY DEF NetTypes, Lost, Opened

LEMMA DisconnectKeeps ==
    ASSUME LinkInv, sock # None, Disconnect, UNCHANGED <<breaks, asks>>,
           splits' \in 0..MaxSplits
    PROVE  LinkInv'
<1>1. Lost(sock)
    BY ClosedLost DEF Disconnect
<1>2. TypeOK'
  <2>1. NetTypes' /\ Opened' = Opened
      BY <1>1, LostTyped DEF LinkInv
  <2>2. OthersTyped /\ Opened \in Nat
      BY TypedApart, Counted DEF LinkInv
  <2>3. sock' \in 0..Opened
      BY <2>2 DEF Disconnect, None
  <2>4. OthersTyped'
      BY <2>1, <2>2, <2>3 DEF OthersTyped, Disconnect, serverVars
  <2> QED BY <2>1, <2>4, TypedTogether
<1>3. LinksInv' /\ ServerInv' /\ HandshakeInv'
  <2>1. sock' \in {None, sock} /\ UNCHANGED serverVars
      BY DEF Disconnect
  <2> QED BY <2>1, <1>1, LostKeeps
<1>4. AgentInv'
    BY DEF AgentInv, Disconnect
<1> QED BY <1>2, <1>3, <1>4 DEF LinkInv

LEMMA RecvFailsKeeps == LinkInv /\ RecvFails => LinkInv'
<1> SUFFICES ASSUME LinkInv, RecvFails PROVE LinkInv'
    OBVIOUS
<1>1. sock # None /\ splits' \in 0..MaxSplits
    BY DEF LinkInv, AgentInv, TypeOK, RecvFails, counters
<1> QED BY <1>1, DisconnectKeeps DEF RecvFails, counters

LEMMA SendFailsKeeps == LinkInv /\ SendFails => LinkInv'
<1> SUFFICES ASSUME LinkInv, SendFails PROVE LinkInv'
    OBVIOUS
<1>1. sock # None /\ splits' \in 0..MaxSplits
    BY DEF LinkInv, AgentInv, TypeOK, SendFails, counters
<1> QED BY <1>1, DisconnectKeeps DEF SendFails, counters

LEMMA BreakKeeps == LinkInv /\ Break => LinkInv'
<1> SUFFICES ASSUME LinkInv, Break PROVE LinkInv'
    OBVIOUS
<1>1. sock # None /\ sock' \in {None, sock} /\ UNCHANGED serverVars
    BY DEF Break, agentVars
<1>2. Lost(sock)
  <2>1. \E how \in {"broken", "silent"} : link' = [link EXCEPT ![sock] = how]
      BY DEF Break
  <2>2. /\ c2s' \in {c2s, [c2s EXCEPT ![sock] = <<>>]}
        /\ s2c' = [s2c EXCEPT ![sock] = <<>>]
      BY DEF Break
  <2> QED BY <1>1, <2>1, <2>2, ClosedLost
<1>3. TypeOK'
  <2>1. NetTypes' /\ Opened' = Opened
      BY <1>1, <1>2, LostTyped DEF LinkInv
  <2>2. OthersTyped
      BY TypedApart DEF LinkInv
  <2>3. breaks' \in 0..MaxBreaks
      BY <2>2, LinkAssumption DEF OthersTyped, Break
  <2>4. OthersTyped'
      BY <2>1, <2>2, <2>3 DEF OthersTyped, Break, agentVars, serverVars
  <2> QED BY <2>1, <2>4, TypedTogether
<1>4. LinksInv' /\ ServerInv' /\ HandshakeInv'
    BY <1>1, <1>2, LostKeeps
<1>5. AgentInv'
    BY DEF LinkInv, AgentInv, Break, agentVars
<1> QED BY <1>3, <1>4, <1>5 DEF LinkInv

LEMMA RestartKeeps == LinkInv /\ Restart => LinkInv'
<1> SUFFICES ASSUME LinkInv, Restart PROVE LinkInv'
    OBVIOUS
<1>1. sock # None /\ sock' \in {None, sock} /\ UNCHANGED serverVars
    BY DEF Restart
<1>2. Lost(sock)
    BY <1>1, ClosedLost DEF Restart
<1>3. TypeOK'
  <2>1. NetTypes' /\ Opened' = Opened
      BY <1>1, <1>2, LostTyped DEF LinkInv
  <2>2. OthersTyped /\ Opened \in Nat
      BY TypedApart, Counted DEF LinkInv
  <2>3. breaks' \in 0..MaxBreaks
      BY <2>2, LinkAssumption DEF OthersTyped, Restart
  <2>4. sock' \in 0..Opened
      BY <2>2 DEF Restart, None
  <2>5. {handshakeDone', refresh', listening', playSent', fed'} \subseteq BOOLEAN
      BY <2>2 DEF OthersTyped, Restart, serverVars
  <2>6. agent' = "capture" /\ step' \in 1..4
      BY DEF Restart
  <2>7. OthersTyped'
      BY <2>1, <2>2, <2>3, <2>4, <2>5, <2>6
         DEF OthersTyped, Restart, serverVars
  <2> QED BY <2>1, <2>7, TypedTogether
<1>4. LinksInv' /\ ServerInv' /\ HandshakeInv'
    BY <1>1, <1>2, LostKeeps
<1>5. AgentInv'
    BY DEF AgentInv, Restart
<1> QED BY <1>3, <1>4, <1>5 DEF LinkInv

\* accept fails while nothing is being handled: the connection the server would
\* have accepted next is reset, so none is open.
LEMMA AcceptFailsKeeps == LinkInv /\ AcceptFails => LinkInv'
<1> SUFFICES ASSUME LinkInv, AcceptFails PROVE LinkInv'
    OBVIOUS
<1>1. TypeOK /\ NetTypes /\ OthersTyped /\ Opened \in Nat
    BY NetTyped, TypedApart, Counted DEF LinkInv
<1>2. /\ Opened' = Opened
      /\ link' \in Seq(States)
  <2>1. \A n \in 1..Opened : link[n] \in States /\ "broken" \in States
      BY <1>1 DEF NetTypes, Opened, States
  <2>2. link' \in [1..Opened -> States]
      BY <2>1 DEF AcceptFails
  <2> QED BY <1>1, <2>2 DEF Opened
<1>3. c2s' \in Seq(Seq(Units)) /\ Len(c2s') = Opened
  <2>1. \A n \in 1..Opened : c2s[n] \in Seq(Units)
      BY <1>1 DEF NetTypes
  <2>2. <<>> \in Seq(Units)
      OBVIOUS
  <2>3. c2s' \in [1..Opened -> Seq(Units)]
      BY <2>1, <2>2 DEF AcceptFails
  <2> QED BY <1>1, <2>3
<1>4. \A n \in 1..Opened : Len(c2s'[n]) <= Window
  <2>1. Len(<<>>) = 0 /\ 0 <= Window
      BY LinkAssumption
  <2>2. \A n \in 1..Opened : c2s'[n] = <<>> \/ c2s'[n] = c2s[n]
      BY DEF AcceptFails
  <2> QED BY <1>1, <2>1, <2>2 DEF NetTypes
<1>5. TypeOK'
  <2>1. NetTypes'
      BY <1>1, <1>2, <1>3, <1>4 DEF NetTypes, AcceptFails
  <2>2. breaks' \in 0..MaxBreaks
      BY <1>1, LinkAssumption DEF OthersTyped, AcceptFails
  <2>3. backlog' \in Seq(1..Opened)
      BY DEF AcceptFails
  <2>4. {handshakeDone', refresh', listening', playSent', fed'} \subseteq BOOLEAN
      BY <1>1 DEF OthersTyped, AcceptFails, agentVars
  <2>5. OthersTyped'
      BY <1>1, <1>2, <2>2, <2>3, <2>4 DEF OthersTyped, AcceptFails, agentVars
  <2> QED BY <2>1, <2>5, TypedTogether
<1>6. \A n \in 1..Opened : link'[n] # "open" /\ s2c'[n] = <<>>
  <2>1. \A n \in 1..Opened : s2c'[n] = <<>>
      BY DEF LinkInv, LinksInv, AcceptFails
  <2>2. \A n \in 1..Opened : link[n] = "open" => n \in Range(backlog)
      BY DEF LinkInv, ServerInv, AcceptFails
  <2>3. \A n \in 1..Opened : link'[n] # "open"
      BY <2>2 DEF AcceptFails
  <2> QED BY <2>1, <2>3
<1>7. LinksInv'
    BY <1>2, <1>6 DEF LinkInv, LinksInv, AcceptFails, agentVars
<1>8. AgentInv'
    BY DEF LinkInv, AgentInv, AcceptFails, agentVars
<1>9. ServerInv'
    BY <1>2, <1>6 DEF LinkInv, ServerInv, AcceptFails
<1>10. HandshakeInv'
  <2>1. sock' # None => sock' \in 1..Opened
      BY <1>1, Counted DEF AcceptFails, agentVars
  <2> QED BY <1>2, <1>6, <2>1 DEF HandshakeInv
<1> QED BY <1>5, <1>7, <1>8, <1>9, <1>10 DEF LinkInv

(***************************************************************************)
(* The steps of the handshake and of the stream.                           *)
(***************************************************************************)

\* A new connection waits its turn, with the first request on its way.
LEMMA ConnectKeeps == LinkInv /\ Connect => LinkInv'
<1> SUFFICES ASSUME LinkInv, Connect PROVE LinkInv'
    OBVIOUS
<1>1. TypeOK /\ NetTypes /\ OthersTyped /\ Opened \in Nat
    BY NetTyped, TypedApart, Counted DEF LinkInv
<1>2. sock = None /\ ~handshakeDone /\ \A n \in 1..Opened : link[n] # "open"
    BY <1>1 DEF LinkInv, AgentInv, LinksInv, Connect, None
<1>3. \A n \in 1..Opened : s2c[n] = <<>>
    BY <1>2 DEF LinkInv, LinksInv
<1>4. /\ link' \in Seq(States) /\ Opened' = Opened + 1
      /\ \A n \in 1..Opened : link'[n] = link[n]
      /\ link'[Opened + 1] = "open"
  <2>1. link \in Seq(States) /\ "open" \in States
      BY <1>1 DEF NetTypes, States
  <2> QED BY <2>1, AppendFacts DEF Connect, Opened
<1>14. /\ \A n \in 1..Opened' : n \in 1..Opened \/ n = Opened + 1
       /\ Opened + 1 \in 1..Opened'
    BY <1>1, <1>4
<1>5. /\ s2c' \in Seq(Seq(Answers)) /\ Len(s2c') = Opened'
      /\ \A n \in 1..Opened' : s2c'[n] = <<>>
  <2> DEFINE none == <<>>
  <2>1. none \in Seq(Answers) /\ s2c \in Seq(Seq(Answers)) /\ Len(s2c) = Opened
      BY <1>1 DEF NetTypes
  <2>2. s2c' = Append(s2c, none)
      BY DEF Connect
  <2>3. \A n \in 1..Opened : s2c[n] = none
      BY <1>3
  <2> HIDE DEF none
  <2>4. /\ s2c' \in Seq(Seq(Answers)) /\ Len(s2c') = Opened + 1
        /\ \A n \in 1..Opened : s2c'[n] = s2c[n]
        /\ s2c'[Opened + 1] = none
      BY <2>1, <2>2, AppendFacts
  <2>5. \A n \in 1..Opened' : s2c'[n] = none
      BY <1>14, <2>3, <2>4
  <2> QED BY <1>4, <2>4, <2>5 DEF none
<1>6. /\ c2s' \in Seq(Seq(Units)) /\ Len(c2s') = Opened'
      /\ \A n \in 1..Opened' : Len(c2s'[n]) <= Window
      /\ c2s'[Opened + 1] = <<Requests[1]>>
  <2> DEFINE first == <<Requests[1]>>
  <2>1. first \in Seq(Units) /\ Len(first) = 1
      BY DEF Units, Requests
  <2>2. c2s \in Seq(Seq(Units)) /\ Len(c2s) = Opened
      BY <1>1 DEF NetTypes
  <2>3. c2s' = Append(c2s, first)
      BY DEF Connect
  <2> HIDE DEF first
  <2>4. /\ c2s' \in Seq(Seq(Units)) /\ Len(c2s') = Opened + 1
        /\ \A n \in 1..Opened : c2s'[n] = c2s[n]
        /\ c2s'[Opened + 1] = first
      BY <2>1, <2>2, <2>3, AppendFacts
  <2>5. 1 <= Window
      BY LinkAssumption
  <2>6. \A n \in 1..Opened : Len(c2s[n]) <= Window
      BY <1>1 DEF NetTypes
  <2>7. \A n \in 1..Opened' : Len(c2s'[n]) <= Window
      BY <1>14, <2>1, <2>4, <2>5, <2>6
  <2> QED BY <1>4, <2>4, <2>7 DEF first
<1>7. /\ backlog' \in Seq(1..Opened')
      /\ \A n \in Range(backlog) : n \in Range(backlog')
      /\ Opened + 1 \in Range(backlog')
  <2> DEFINE all == 1..(Opened + 1)
  <2>1. backlog \in Seq(1..Opened)
      BY <1>1 DEF OthersTyped
  <2>2. backlog \in Seq(all)
      BY <1>1, <2>1
  <2>3. Opened + 1 \in all /\ backlog' = Append(backlog, Opened + 1)
      BY <1>1 DEF Connect
  <2> HIDE DEF all
  <2>4. /\ backlog' \in Seq(all) /\ Len(backlog') = Len(backlog) + 1
        /\ \A k \in 1..Len(backlog) : backlog'[k] = backlog[k]
        /\ backlog'[Len(backlog) + 1] = Opened + 1
      BY <2>2, <2>3, AppendFacts
  <2>5. Len(backlog) \in Nat /\ DOMAIN backlog = 1..Len(backlog)
        /\ DOMAIN backlog' = 1..Len(backlog')
      BY <2>2, <2>4
  <2>6. \A n \in Range(backlog) : n \in Range(backlog')
      BY <2>4, <2>5 DEF Range
  <2>7. Opened + 1 \in Range(backlog')
      BY <2>4, <2>5 DEF Range
  <2> QED BY <1>4, <2>4, <2>6, <2>7 DEF all
<1>8. sock' = Opened' /\ sock' = Opened + 1 /\ step' = 1 /\ handshakeDone' = FALSE
    BY <1>2, <1>4 DEF Connect
<1>9. TypeOK'
  <2>1. NetTypes'
      BY <1>4, <1>5, <1>6 DEF NetTypes
  <2>2. serving' \in 0..Opened' /\ session' \in 0..Opened' /\ sock' \in 0..Opened'
      BY <1>1, <1>4, <1>8 DEF OthersTyped, Connect
  <2>3. {handshakeDone', refresh', listening', playSent', fed'} \subseteq BOOLEAN
      BY <1>1 DEF OthersTyped, Connect
  <2>4. agent' = "wait" /\ step' \in 1..4
      BY <1>8 DEF Connect
  <2>5. OthersTyped'
      BY <1>1, <1>7, <2>2, <2>3, <2>4 DEF OthersTyped, Connect, counters
  <2> QED BY <2>1, <2>5, TypedTogether
<1>10. LinksInv'
  <2>1. \A n \in 1..Opened' : link'[n] = "open" => n = sock'
      BY <1>2, <1>4, <1>8, <1>14
  <2> QED BY <1>5, <1>8, <2>1 DEF LinksInv
<1>11. AgentInv'
    BY <1>1, <1>8 DEF AgentInv, Connect, None
<1>12. ServerInv'
  <2>1. server = "ended" => serving \in 1..Opened
      BY <1>1, Counted DEF LinkInv, ServerInv
  <2>2. \A n \in 1..Opened' : link'[n] = "open" => n \in Range(backlog')
      BY <1>1, <1>2, <1>4, <1>7
  <2> QED BY <1>4, <2>1, <2>2 DEF LinkInv, ServerInv, Connect
<1>13. HandshakeInv'
  <2>1. RepliesOn(sock)' = {}
    <3>1. s2c'[sock'] = <<>>
        BY <1>5, <1>8, <1>14
    <3>2. DOMAIN s2c'[sock'] = {}
        BY <3>1
    <3> QED BY <3>2 DEF RepliesOn
  <2> QED BY <2>1, <1>6, <1>8 DEF HandshakeInv, Asking
<1> QED BY <1>9, <1>10, <1>11, <1>12, <1>13 DEF LinkInv

\* The first k units from the server are read: the connection is open, and its
\* other units stay.
LEMMA Reading ==
    ASSUME LinkInv, sock # None, NEW k \in 0..Len(s2c[sock]),
           s2c' = [s2c EXCEPT ![sock] = SubSeq(@, k + 1, Len(@))]
    PROVE  /\ s2c' \in Seq(Seq(Answers)) /\ Len(s2c') = Opened
           /\ s2c'[sock] = SubSeq(s2c[sock], k + 1, Len(s2c[sock]))
           /\ s2c[sock] = <<>> => s2c'[sock] = <<>>
           /\ \A m \in 1..Opened : m # sock => s2c'[m] = s2c[m]
           /\ \A m \in 1..Opened : s2c'[m] # <<>> => s2c[m] # <<>>
<1> DEFINE rest == SubSeq(s2c[sock], k + 1, Len(s2c[sock]))
<1>1. TypeOK /\ sock \in 1..Opened
    BY Counted DEF LinkInv
<1>2. s2c[sock] \in Seq(Answers)
    BY <1>1, NetTyped DEF NetTypes
<1>3. rest \in Seq(Answers) /\ Len(rest) = Len(s2c[sock]) - k
    BY <1>2, RestFacts
<1>4. s2c[sock] = <<>> => rest = <<>>
    BY <1>2, <1>3
<1>5. s2c' = [s2c EXCEPT ![sock] = rest]
    OBVIOUS
<1> HIDE DEF rest
<1>6. /\ s2c' \in Seq(Seq(Answers)) /\ Len(s2c') = Opened /\ s2c'[sock] = rest
      /\ \A m \in 1..Opened : m # sock => s2c'[m] = s2c[m]
    BY <1>1, <1>3, <1>5, RepliesChange
<1>7. \A m \in 1..Opened : s2c'[m] # <<>> => s2c[m] # <<>>
    BY <1>4, <1>6
<1> QED BY <1>4, <1>6, <1>7 DEF rest

LEMMA CheckForIncomingKeeps == LinkInv /\ CheckForIncoming => LinkInv'
<1> SUFFICES ASSUME LinkInv, CheckForIncoming PROVE LinkInv'
    OBVIOUS
<1>1. /\ TypeOK /\ NetTypes /\ OthersTyped /\ Opened \in Nat
      /\ handshakeDone /\ sock # None /\ sock \in 1..Opened
    BY NetTyped, TypedApart, Counted DEF LinkInv, AgentInv, CheckForIncoming
<1>2. PICK k \in (IF s2c[sock] = <<>> THEN {0} ELSE 1..Len(s2c[sock])) :
          /\ s2c' = [s2c EXCEPT ![sock] = SubSeq(@, k + 1, Len(@))]
          /\ refresh' = (refresh \/ "!K" \in Range(SubSeq(s2c[sock], 1, k)))
    BY DEF CheckForIncoming
<1>3. k \in 0..Len(s2c[sock])
  <2>1. Len(s2c[sock]) \in Nat
      BY <1>1 DEF NetTypes
  <2> QED BY <1>2, <2>1
<1>4. /\ s2c' \in Seq(Seq(Answers)) /\ Len(s2c') = Opened
      /\ s2c'[sock] = SubSeq(s2c[sock], k + 1, Len(s2c[sock]))
      /\ s2c[sock] = <<>> => s2c'[sock] = <<>>
      /\ \A m \in 1..Opened : m # sock => s2c'[m] = s2c[m]
      /\ \A m \in 1..Opened : s2c'[m] # <<>> => s2c[m] # <<>>
    BY <1>1, <1>2, <1>3, Reading
<1>5. /\ UNCHANGED <<sock, step, handshakeDone, link, c2s>>
      /\ UNCHANGED serverVars /\ UNCHANGED counters /\ Opened' = Opened
      /\ agent' = "send"
    BY DEF CheckForIncoming, Opened
<1>6. TypeOK'
  <2>1. NetTypes'
      BY <1>1, <1>4, <1>5 DEF NetTypes
  <2>2. {handshakeDone', refresh', listening', playSent', fed'} \subseteq BOOLEAN
    <3>1. refresh' \in BOOLEAN
        BY <1>1, <1>2 DEF OthersTyped
    <3> QED BY <1>1, <1>5, <3>1 DEF OthersTyped, serverVars
  <2>3. OthersTyped'
      BY <1>1, <1>5, <2>2 DEF OthersTyped, serverVars, counters
  <2> QED BY <2>1, <2>3, TypedTogether
<1>7. LinksInv'
    BY <1>4, <1>5 DEF LinkInv, LinksInv, serverVars
<1>8. AgentInv'
    BY <1>1, <1>5 DEF LinkInv, AgentInv
<1>9. ServerInv'
    BY <1>5 DEF LinkInv, ServerInv, serverVars
<1>10. HandshakeInv'
  <2> SUFFICES ASSUME link[sock] = "open"
               PROVE  Streaming(sock)'
      BY <1>1, <1>5 DEF HandshakeInv
  <2>1. Streaming(sock)
      BY <1>1 DEF LinkInv, HandshakeInv
  <2>2. RepliesOn(sock)' = {}
    <3>1. s2c[sock] \in Seq(Answers)
        BY <1>1 DEF NetTypes
    <3>2. \A i \in DOMAIN s2c[sock] : s2c[sock][i] # "200 OK"
        BY <2>1 DEF Streaming, RepliesOn
    <3>3. LET rest == SubSeq(s2c[sock], k + 1, Len(s2c[sock]))
          IN  {i \in DOMAIN rest : rest[i] = "200 OK"} = {}
      <4>1. k \in Nat /\ k <= Len(s2c[sock])
          BY <1>3
      <4>2. \A i \in 1..Len(s2c[sock]) : s2c[sock][i] # "200 OK"
        <5>1. DOMAIN s2c[sock] = 1..Len(s2c[sock])
            BY <3>1
        <5> QED BY <3>2, <5>1, Zenon
      <4> QED BY <3>1, <4>1, <4>2, NoneLeft
    <3> QED BY <1>4, <1>5, <3>3 DEF RepliesOn
  <2>3. RequestsOn(sock)' = RequestsOn(sock)
      BY <1>5 DEF RequestsOn
  <2> QED BY <1>5, <2>1, <2>2, <2>3 DEF Streaming, serverVars
<1> QED BY <1>6, <1>7, <1>8, <1>9, <1>10 DEF LinkInv

\* A reply is read while the connection is open and nothing else is under way:
\* it is taken, and the request it answers was the only one.
LEMMA ReplyTaken ==
    ASSUME LinkInv, ~handshakeDone, sock # None,
           NEW k \in 1..Len(s2c[sock]), Accepted(SubSeq(s2c[sock], 1, k))
    PROVE  /\ link[sock] = "open" /\ server = "handle" /\ serving = sock
           /\ c2s[sock] = <<>> /\ (step = 4 => playSent)
           /\ LET rest == SubSeq(s2c[sock], k + 1, Len(s2c[sock]))
              IN  {i \in DOMAIN rest : rest[i] = "200 OK"} = {}
<1> DEFINE s == s2c[sock]
<1>1. TypeOK /\ sock \in 1..Opened
    BY Counted DEF LinkInv
<1>2. s \in Seq(Answers)
    BY <1>1, NetTyped DEF NetTypes
<1>3. Len(s) \in Nat /\ k \in 0..Len(s) /\ k \in Nat /\ k <= Len(s)
    BY <1>2
<1>4. DOMAIN s = 1..Len(s) /\ s # <<>>
    BY <1>2, <1>3
<1>5. link[sock] = "open" /\ server = "handle" /\ serving = sock
    BY <1>1, <1>4 DEF LinkInv, LinksInv
<1>6. PICK i \in 1..k : s[i] = "200 OK"
  <2> DEFINE first == SubSeq(s, 1, k)
  <2>1. first \in Seq(Answers) /\ Len(first) = k /\ \A i \in 1..k : first[i] = s[i]
      BY <1>2, <1>3, FirstFacts
  <2>2. \E i \in DOMAIN first : first[i] = "200 OK"
      BY DEF Accepted, Range
  <2> HIDE DEF first
  <2>3. DOMAIN first = 1..k
      BY <2>1
  <2> QED BY <2>1, <2>2, <2>3
<1>7. i \in RepliesOn(sock)
  <2>1. i \in DOMAIN s
      BY <1>3, <1>4
  <2> QED BY <1>6, <2>1 DEF RepliesOn
<1>8. Answered(sock)
    BY <1>5, <1>7 DEF LinkInv, HandshakeInv, Asking
<1>9. RepliesOn(sock) = {i}
    BY <1>7, <1>8 DEF Answered
<1>10. \A m \in 1..Len(s) : m > k => s[m] # "200 OK"
  <2>1. \A m \in 1..Len(s) : s[m] = "200 OK" => m \in RepliesOn(sock)
      BY <1>4 DEF RepliesOn
  <2>2. \A m \in 1..Len(s) : s[m] = "200 OK" => m = i
      BY <2>1, <1>9
  <2>3. i \in 1..k /\ k \in Nat
      BY <1>3, <1>6
  <2>4. \A a, b, c : a \in 1..b /\ b \in Nat /\ c = a => ~(c > b)
      OBVIOUS
  <2> QED BY <2>2, <2>3, <2>4, Zenon
<1>11. LET rest == SubSeq(s, k + 1, Len(s))
       IN  {m \in DOMAIN rest : rest[m] = "200 OK"} = {}
    BY <1>2, <1>3, <1>10, NoneLeft
<1> QED BY <1>5, <1>8, <1>11 DEF Answered

LEMMA NextRequestKeeps ==
    ASSUME LinkInv, agent = "wait", UNCHANGED <<breaks, asks>>,
           splits' \in 0..MaxSplits,
           NEW k \in 1..Len(s2c[sock]), Accepted(SubSeq(s2c[sock], 1, k)),
           NextRequest(k)
    PROVE  LinkInv'
<1>1. /\ TypeOK /\ NetTypes /\ OthersTyped /\ Opened \in Nat
      /\ ~handshakeDone /\ sock # None /\ sock \in 1..Opened
    BY NetTyped, TypedApart, Counted DEF LinkInv, AgentInv
<1>2. /\ link[sock] = "open" /\ server = "handle" /\ serving = sock
      /\ c2s[sock] = <<>> /\ (step = 4 => playSent)
      /\ LET rest == SubSeq(s2c[sock], k + 1, Len(s2c[sock]))
         IN  {i \in DOMAIN rest : rest[i] = "200 OK"} = {}
    BY <1>1, ReplyTaken
<1>3. k \in 0..Len(s2c[sock])
  <2>1. Len(s2c[sock]) \in Nat
      BY <1>1 DEF NetTypes
  <2> QED BY <2>1
<1>4. /\ s2c' \in Seq(Seq(Answers)) /\ Len(s2c') = Opened
      /\ s2c'[sock] = SubSeq(s2c[sock], k + 1, Len(s2c[sock]))
      /\ \A m \in 1..Opened : s2c'[m] # <<>> => s2c[m] # <<>>
    BY <1>1, <1>3, Reading DEF NextRequest
<1>5. /\ UNCHANGED <<sock, refresh, link>> /\ UNCHANGED serverVars
      /\ UNCHANGED <<breaks, asks>> /\ Opened' = Opened
    BY DEF NextRequest, Opened
<1>6. RepliesOn(sock)' = {}
    BY <1>2, <1>4, <1>5 DEF RepliesOn
<1>7. LinksInv'
    BY <1>4, <1>5 DEF LinkInv, LinksInv, serverVars
<1>8. ServerInv'
    BY <1>5 DEF LinkInv, ServerInv, serverVars
<1>9. CASE /\ step < 4
           /\ step' = step + 1
           /\ c2s' = Put(c2s, sock, <<Requests[step']>>)
           /\ UNCHANGED <<agent, handshakeDone>>
  <2> DEFINE next == <<Requests[step']>>
  <2>1. step' \in 1..4
      BY <1>1, <1>9 DEF OthersTyped
  <2>2. Requests[step'] \in Units
      BY <2>1 DEF Requests, Units
  <2>3. next \in Seq(Units) /\ Len(next) <= Window
    <3>1. Len(next) = 1 /\ 1 <= Window
        BY LinkAssumption
    <3> QED BY <2>2, <3>1
  <2>4. c2s[sock] \o next = next
    <3>1. \A S : \A t \in Seq(S) : <<>> \o t = t
        OBVIOUS
    <3> QED BY <1>2, <2>3, <3>1
  <2>5. c2s' = [c2s EXCEPT ![sock] = next]
      BY <1>9, <2>4 DEF Put
  <2> HIDE DEF next
  <2>6. /\ c2s' \in Seq(Seq(Units)) /\ Len(c2s') = Opened /\ c2s'[sock] = next
        /\ \A m \in 1..Opened : Len(c2s'[m]) <= Window
      BY <1>1, <2>3, <2>5, SentChanges
  <2>7. NetTypes'
      BY <1>1, <1>4, <1>5, <2>6 DEF NetTypes
  <2>8. OthersTyped'
      BY <1>1, <1>5, <1>9, <2>1 DEF OthersTyped, serverVars
  <2>9. TypeOK'
      BY <2>7, <2>8, TypedTogether
  <2>10. AgentInv'
      BY <1>5, <1>9 DEF LinkInv, AgentInv
  <2>11. HandshakeInv'
      BY <1>1, <1>5, <1>6, <1>9, <2>6 DEF HandshakeInv, Asking, next
  <2> QED BY <1>7, <1>8, <2>9, <2>10, <2>11 DEF LinkInv
<1>10. CASE /\ step = 4
            /\ handshakeDone' = TRUE
            /\ agent' = "poll"
            /\ UNCHANGED <<step, c2s>>
  <2>1. NetTypes'
      BY <1>1, <1>4, <1>5, <1>10 DEF NetTypes
  <2>2. {handshakeDone', refresh', listening', playSent', fed'} \subseteq BOOLEAN
      BY <1>1, <1>5, <1>10 DEF OthersTyped, serverVars
  <2>3. OthersTyped'
      BY <1>1, <1>5, <1>10, <2>2 DEF OthersTyped, serverVars
  <2>4. TypeOK'
      BY <2>1, <2>3, TypedTogether
  <2>5. AgentInv'
      BY <1>1, <1>5, <1>10 DEF AgentInv
  <2>6. RequestsOn(sock)' = {}
    <3>1. c2s'[sock'] = <<>>
        BY <1>2, <1>5, <1>10
    <3>2. DOMAIN c2s'[sock'] = {}
        BY <3>1
    <3> QED BY <3>2 DEF RequestsOn
  <2>7. HandshakeInv'
      BY <1>2, <1>5, <1>6, <1>10, <2>6 DEF HandshakeInv, Streaming, serverVars
  <2> QED BY <1>7, <1>8, <2>4, <2>5, <2>7 DEF LinkInv
<1> QED BY <1>9, <1>10 DEF NextRequest

LEMMA RecvRespKeeps == LinkInv /\ RecvResp => LinkInv'
<1> SUFFICES ASSUME LinkInv, RecvResp PROVE LinkInv'
    OBVIOUS
<1>1. PICK k \in 1..Len(s2c[sock]) :
          /\ \/ k = Len(s2c[sock]) /\ UNCHANGED splits
             \/ k < Len(s2c[sock]) /\ splits < MaxSplits /\ splits' = splits + 1
          /\ IF Accepted(SubSeq(s2c[sock], 1, k)) THEN NextRequest(k)
                                                  ELSE Disconnect
    BY DEF RecvResp
<1>2. agent = "wait" /\ UNCHANGED <<breaks, asks>> /\ sock # None
    BY DEF RecvResp, LinkInv, AgentInv
<1>3. splits' \in 0..MaxSplits
  <2>1. splits \in 0..MaxSplits /\ MaxSplits \in Nat
      BY LinkAssumption DEF LinkInv, TypeOK
  <2> QED BY <1>1, <2>1
<1>4. CASE Accepted(SubSeq(s2c[sock], 1, k))
    BY <1>1, <1>2, <1>3, <1>4, NextRequestKeeps
<1>5. CASE ~Accepted(SubSeq(s2c[sock], 1, k))
    BY <1>1, <1>2, <1>3, <1>5, DisconnectKeeps
<1> QED BY <1>4, <1>5

LEMMA SendRtpKeeps == LinkInv /\ SendRtp => LinkInv'
<1> SUFFICES ASSUME LinkInv, SendRtp PROVE LinkInv'
    OBVIOUS
<1>1. /\ TypeOK /\ NetTypes /\ OthersTyped /\ Opened \in Nat
      /\ handshakeDone /\ sock # None /\ sock \in 1..Opened
    BY NetTyped, TypedApart, Counted DEF LinkInv, AgentInv, SendRtp
<1>2. /\ UNCHANGED <<sock, step, handshakeDone, refresh, link, s2c>>
      /\ UNCHANGED serverVars /\ UNCHANGED counters /\ Opened' = Opened
      /\ agent' = "capture"
    BY DEF SendRtp, Opened
<1> DEFINE sent == c2s[sock] \o <<"rtp">>
<1>3. /\ sent \in Seq(Units) /\ Len(sent) = Len(c2s[sock]) + 1
      /\ \A i \in 1..Len(c2s[sock]) : sent[i] = c2s[sock][i]
      /\ sent[Len(c2s[sock]) + 1] = "rtp"
  <2>1. c2s[sock] \in Seq(Units)
      BY <1>1 DEF NetTypes
  <2>2. "rtp" \in Units
      BY DEF Units
  <2>3. \A S : \A q \in Seq(S) : \A e \in S : q \o <<e>> = Append(q, e)
      OBVIOUS
  <2>4. sent = Append(c2s[sock], "rtp")
      BY <2>1, <2>2, <2>3
  <2> HIDE DEF sent
  <2> QED BY <2>1, <2>2, <2>4, AppendFacts
<1>4. Len(sent) <= Window
  <2>1. Len(c2s[sock]) < Window /\ Len(c2s[sock]) \in Nat /\ Window \in Nat
      BY <1>1, LinkAssumption DEF NetTypes, SendRtp
  <2> HIDE DEF sent
  <2> QED BY <1>3, <2>1
<1>5. c2s' = [c2s EXCEPT ![sock] = sent]
    BY DEF SendRtp, Put
<1>6. c2s[sock] \in Seq(Units) /\ DOMAIN c2s[sock] = 1..Len(c2s[sock])
    BY <1>1 DEF NetTypes
<1> HIDE DEF sent
<1>7. /\ c2s' \in Seq(Seq(Units)) /\ Len(c2s') = Opened /\ c2s'[sock] = sent
      /\ \A m \in 1..Opened : Len(c2s'[m]) <= Window
    BY <1>1, <1>3, <1>4, <1>5, SentChanges
<1>8. TypeOK'
  <2>1. NetTypes'
      BY <1>1, <1>2, <1>7 DEF NetTypes
  <2>2. OthersTyped'
      BY <1>1, <1>2 DEF OthersTyped, serverVars, counters
  <2> QED BY <2>1, <2>2, TypedTogether
<1>9. LinksInv' /\ ServerInv'
    BY <1>2 DEF LinkInv, LinksInv, ServerInv, serverVars
<1>10. AgentInv'
    BY <1>1, <1>2 DEF AgentInv
<1>11. HandshakeInv'
  <2>1. Streaming(sock)
      BY <1>1 DEF LinkInv, HandshakeInv, SendRtp
  <2>2. RequestsOn(sock)' = {}
    <3>1. \A i \in DOMAIN c2s[sock] : c2s[sock][i] = "rtp"
        BY <2>1 DEF Streaming, RequestsOn
    <3>2. DOMAIN sent = 1..(Len(c2s[sock]) + 1) /\ Len(c2s[sock]) \in Nat
        BY <1>3, <1>6
    <3>3. \A i \in DOMAIN sent : i \in DOMAIN c2s[sock] \/ i = Len(c2s[sock]) + 1
        BY <1>6, <3>2
    <3>4. \A i \in DOMAIN sent : sent[i] = "rtp"
        BY <1>3, <1>6, <3>1, <3>3
    <3> QED BY <1>2, <1>7, <3>4 DEF RequestsOn
  <2>3. RepliesOn(sock)' = {}
      BY <1>2, <2>1 DEF Streaming, RepliesOn
  <2> QED BY <1>1, <1>2, <2>1, <2>2, <2>3
          DEF HandshakeInv, Streaming, serverVars
<1> QED BY <1>8, <1>9, <1>10, <1>11 DEF LinkInv

\* The request or the packet at hand is taken; a request is answered once.
LEMMA HandleUnitKeeps == LinkInv /\ HandleUnit => LinkInv'
<1> SUFFICES ASSUME LinkInv, HandleUnit PROVE LinkInv'
    OBVIOUS
<1>1. /\ TypeOK /\ NetTypes /\ OthersTyped /\ Opened \in Nat
      /\ server = "handle" /\ serving # None /\ serving \in 1..Opened
    BY NetTyped, TypedApart, Counted DEF LinkInv, ServerInv, HandleUnit
<1>2. /\ UNCHANGED agentVars /\ UNCHANGED <<link, listening, backlog, server>>
      /\ UNCHANGED <<serving, session>> /\ UNCHANGED counters
      /\ Opened' = Opened
    BY DEF HandleUnit, Opened
<1> DEFINE old == c2s[serving]
<1>3. old \in Seq(Units) /\ old # <<>> /\ Len(old) \in Nat /\ Len(old) <= Window
    BY <1>1 DEF NetTypes, HandleUnit
<1>4. /\ Tail(old) \in Seq(Units) /\ Len(Tail(old)) = Len(old) - 1
      /\ Head(old) \in Units /\ Head(old) = old[1]
      /\ \A i \in 1..(Len(old) - 1) : Tail(old)[i] = old[i + 1]
    BY <1>3, TailFacts
<1>5. Len(Tail(old)) <= Window
  <2>1. Window \in Nat
      BY LinkAssumption
  <2>2. \A a, b, c \in Nat : a = b - 1 /\ b <= c => a <= c
      OBVIOUS
  <2>3. Len(Tail(old)) \in Nat
      BY <1>4
  <2> QED BY <1>3, <1>4, <2>1, <2>2, <2>3
<1>6. /\ c2s' \in Seq(Seq(Units)) /\ Len(c2s') = Opened
      /\ c2s'[serving] = Tail(old)
      /\ \A m \in 1..Opened : m # serving => c2s'[m] = c2s[m]
      /\ \A m \in 1..Opened : Len(c2s'[m]) <= Window
  <2> DEFINE left == Tail(old)
  <2>1. c2s' = [c2s EXCEPT ![serving] = left]
      BY DEF HandleUnit
  <2>2. left \in Seq(Units) /\ Len(left) <= Window
      BY <1>4, <1>5
  <2> HIDE DEF left
  <2>3. /\ c2s' \in Seq(Seq(Units)) /\ Len(c2s') = Opened
        /\ c2s'[serving] = left
        /\ \A m \in 1..Opened : m # serving => c2s'[m] = c2s[m]
        /\ \A m \in 1..Opened : Len(c2s'[m]) <= Window
      BY <1>1, <2>1, <2>2, SentChanges
  <2> QED BY <2>3 DEF left
<1> DEFINE answered == Head(old) # "rtp" /\ link[serving] = "open"
           got == s2c[serving] \o Reply
<1>7. s2c[serving] \in Seq(Answers) /\ Len(s2c[serving]) \in Nat
    BY <1>1 DEF NetTypes
<1>8. /\ got \in Seq(Answers) /\ Len(got) = Len(s2c[serving]) + 2
      /\ \A i \in 1..Len(s2c[serving]) : got[i] = s2c[serving][i]
      /\ got[Len(s2c[serving]) + 1] = "200 OK"
      /\ got[Len(s2c[serving]) + 2] = "rest"
  <2> DEFINE q == s2c[serving]
  <2>1. Reply \in Seq(Answers) /\ Len(Reply) = 2
        /\ Reply[1] = "200 OK" /\ Reply[2] = "rest"
      BY DEF Reply, Answers
  <2>2. q \in Seq(Answers) /\ Len(q) \in Nat
      BY <1>7
  <2> HIDE DEF q
  <2> DEFINE r == q \o Reply
  <2>6. /\ r \in Seq(Answers) /\ Len(r) = Len(q) + Len(Reply)
        /\ \A i \in 1..Len(q) : r[i] = q[i]
        /\ \A i \in (Len(q) + 1)..(Len(q) + Len(Reply)) : r[i] = Reply[i - Len(q)]
    <3>1. q \in Seq(Answers) /\ Reply \in Seq(Answers)
        BY <2>1, <2>2
    <3> QED BY <3>1, JoinFacts
  <2> HIDE DEF r
  <2>3. /\ r \in Seq(Answers) /\ Len(r) = Len(q) + 2
        /\ \A i \in 1..Len(q) : r[i] = q[i]
        /\ \A i \in (Len(q) + 1)..(Len(q) + 2) : r[i] = Reply[i - Len(q)]
      BY <2>1, <2>6
  <2>4. /\ Len(q) + 1 \in (Len(q) + 1)..(Len(q) + 2)
        /\ Len(q) + 2 \in (Len(q) + 1)..(Len(q) + 2)
        /\ (Len(q) + 1) - Len(q) = 1 /\ (Len(q) + 2) - Len(q) = 2
      BY <2>2
  <2>5. r[Len(q) + 1] = "200 OK" /\ r[Len(q) + 2] = "rest"
      BY <2>1, <2>3, <2>4
  <2> QED BY <2>3, <2>5 DEF q, r
<1> HIDE DEF got
<1>12. DOMAIN got = 1..(Len(s2c[serving]) + 2)
  <2>1. \A S : \A q \in Seq(S) : DOMAIN q = 1..Len(q)
      OBVIOUS
  <2> QED BY <1>8, <2>1
<1>9. ASSUME answered
      PROVE  /\ s2c' \in Seq(Seq(Answers)) /\ Len(s2c') = Opened
             /\ LinksInv' /\ HandshakeInv'
  <2>1. sock = serving /\ sock # None /\ link[sock] = "open"
      BY <1>1, <1>9 DEF LinkInv, LinksInv, None
  <2>2. /\ s2c' \in Seq(Seq(Answers)) /\ Len(s2c') = Opened
        /\ s2c'[serving] = got
        /\ \A m \in 1..Opened : m # serving => s2c'[m] = s2c[m]
    <3>1. s2c' = [s2c EXCEPT ![serving] = got]
        BY <1>9 DEF HandleUnit, Put, got
    <3> DEFINE kept == [s2c EXCEPT ![serving] = got]
    <3>2. got \in Seq(Answers)
        BY <1>8
    <3>3. /\ kept \in Seq(Seq(Answers)) /\ Len(kept) = Opened
          /\ kept[serving] = got
          /\ \A m \in 1..Opened : m # serving => kept[m] = s2c[m]
        BY <1>1, <3>2, RepliesChange
    <3> HIDE DEF kept
    <3> QED BY <3>1, <3>3 DEF kept
  <2>3. LinksInv'
      BY <1>1, <1>2, <2>1, <2>2 DEF LinkInv, LinksInv, agentVars
  <2>4. Asking(sock) /\ ~handshakeDone
    <3>1. 1 \in DOMAIN old
        BY <1>3
    <3>2. 1 \in RequestsOn(sock)
        BY <1>4, <1>9, <2>1, <3>1 DEF RequestsOn
    <3> QED BY <1>3, <2>1, <3>2
            DEF LinkInv, HandshakeInv, Streaming, Answered
  <2>5. Answered(sock)'
    <3>1. c2s'[sock'] = <<>>
      <4>1. Len(old) = 1
          BY <2>1, <2>4 DEF Asking
      <4>2. Len(Tail(old)) = 0
          BY <1>4, <4>1
      <4>3. Tail(old) = <<>>
        <5>1. \A S : \A q \in Seq(S) : Len(q) = 0 => q = <<>>
            OBVIOUS
        <5> QED BY <1>4, <4>2, <5>1
      <4> QED BY <1>2, <1>6, <2>1, <4>3 DEF agentVars
    <3>2. step' = 4 => playSent'
      <4>1. step = 4 => Head(old) = "PLAY"
          BY <1>4, <2>1, <2>4 DEF Asking, Requests
      <4> QED BY <1>2, <4>1 DEF HandleUnit, agentVars
    <3>3. \A i \in DOMAIN got :
              got[i] = "200 OK" <=> i = Len(s2c[serving]) + 1
      <4>1. DOMAIN got = 1..(Len(s2c[serving]) + 2)
          BY <1>12
      <4>2. \A i \in DOMAIN got : \/ i \in 1..Len(s2c[serving])
                                  \/ i = Len(s2c[serving]) + 1
                                  \/ i = Len(s2c[serving]) + 2
          BY <1>7, <4>1
      <4>3. \A i \in 1..Len(s2c[serving]) : s2c[serving][i] # "200 OK"
        <5>1. DOMAIN s2c[serving] = 1..Len(s2c[serving])
            BY <1>7
        <5> QED BY <2>1, <2>4, <5>1, Zenon DEF Asking, RepliesOn
      <4>4. \A i \in 1..Len(s2c[serving]) : i # Len(s2c[serving]) + 1
          BY <1>7
      <4>5. Len(s2c[serving]) + 2 # Len(s2c[serving]) + 1
          BY <1>7
      <4>6. \A i \in 1..Len(s2c[serving]) : got[i] # "200 OK"
          BY <1>8, <4>3, Zenon
      <4>7. got[Len(s2c[serving]) + 2] # "200 OK"
          BY <1>8
      <4> QED BY <1>8, <4>2, <4>4, <4>5, <4>6, <4>7, Zenon
    <3>4. Len(s2c[serving]) + 1 \in DOMAIN got
        BY <1>7, <1>12
    <3>5. RepliesOn(sock)' = {Len(s2c[serving]) + 1}
        BY <1>2, <2>1, <2>2, <3>3, <3>4 DEF RepliesOn, agentVars
    <3>6. \E j \in DOMAIN s2c'[sock'] : RepliesOn(sock)' = {j}
        BY <1>2, <2>1, <2>2, <3>4, <3>5 DEF agentVars
    <3> QED BY <3>1, <3>2, <3>6 DEF Answered
  <2>6. HandshakeInv'
      BY <1>2, <2>1, <2>4, <2>5 DEF HandshakeInv, agentVars
  <2> QED BY <2>2, <2>3, <2>6
<1>10. ASSUME ~answered
       PROVE  /\ s2c' \in Seq(Seq(Answers)) /\ Len(s2c') = Opened
              /\ LinksInv' /\ HandshakeInv'
  <2>1. s2c' = s2c
      BY <1>10 DEF HandleUnit
  <2>2. s2c' \in Seq(Seq(Answers)) /\ Len(s2c') = Opened
      BY <1>1, <2>1 DEF NetTypes
  <2>3. LinksInv'
      BY <1>2, <2>1 DEF LinkInv, LinksInv, agentVars
  <2>4. HandshakeInv'
    <3> SUFFICES ASSUME sock # None, link[sock] = "open"
                 PROVE  IF handshakeDone THEN Streaming(sock)'
                                         ELSE Asking(sock)' \/ Answered(sock)'
        BY <1>2 DEF HandshakeInv, agentVars
    <3>1. sock \in 1..Opened
        BY <1>1, Counted
    <3>2. RepliesOn(sock)' = RepliesOn(sock) /\ s2c'[sock'] = s2c[sock]
        BY <1>2, <2>1 DEF RepliesOn, agentVars
    <3>3. playSent => playSent'
        BY DEF HandleUnit
    <3>4. CASE sock # serving
      <4>1. ~handshakeDone /\ (Asking(sock) \/ Answered(sock))
          BY <3>4 DEF LinkInv, HandshakeInv, Streaming
      <4>2. c2s'[sock'] = c2s[sock] /\ step' = step /\ handshakeDone' = handshakeDone
          BY <1>2, <1>6, <3>1, <3>4 DEF agentVars
      <4>3. Asking(sock) => Asking(sock)'
          BY <3>2, <4>2 DEF Asking
      <4>4. Answered(sock) => Answered(sock)'
          BY <3>2, <3>3, <4>2 DEF Answered
      <4> QED BY <4>1, <4>3, <4>4
    <3>5. CASE sock = serving
      <4>1. Head(old) = "rtp"
          BY <1>10, <3>5
      <4>2. ~Asking(sock)
        <5>1. \A i \in 1..4 : Requests[i] # "rtp"
            BY DEF Requests
        <5>2. step \in 1..4
            BY <1>1 DEF OthersTyped
        <5> QED BY <1>4, <3>5, <4>1, <5>1, <5>2 DEF Asking
      <4>3. handshakeDone /\ Streaming(sock)
          BY <1>3, <3>5, <4>2 DEF LinkInv, HandshakeInv, Answered
      <4>4. RequestsOn(sock)' = {}
        <5>1. \A i \in DOMAIN old : old[i] = "rtp"
            BY <3>5, <4>3 DEF Streaming, RequestsOn
        <5>2. DOMAIN Tail(old) = 1..(Len(old) - 1) /\ DOMAIN old = 1..Len(old)
            BY <1>3, <1>4
        <5>3. \A i \in DOMAIN Tail(old) : i + 1 \in DOMAIN old
            BY <1>3, <5>2
        <5>4. \A i \in DOMAIN Tail(old) : Tail(old)[i] = "rtp"
            BY <1>4, <5>1, <5>2, <5>3
        <5>5. c2s'[sock'] = Tail(old)
            BY <1>2, <1>6, <3>5 DEF agentVars
        <5> QED BY <5>4, <5>5 DEF RequestsOn
      <4> QED BY <1>2, <3>2, <3>3, <4>3, <4>4 DEF Streaming, agentVars
    <3> QED BY <3>4, <3>5
  <2> QED BY <2>2, <2>3, <2>4
<1>11. /\ s2c' \in Seq(Seq(Answers)) /\ Len(s2c') = Opened
       /\ LinksInv' /\ HandshakeInv'
    BY <1>9, <1>10
<1>13. TypeOK'
  <2>1. NetTypes'
      BY <1>1, <1>2, <1>6, <1>11 DEF NetTypes
  <2>2. {handshakeDone', refresh', listening', playSent', fed'} \subseteq BOOLEAN
    <3>1. playSent' \in BOOLEAN /\ fed' \in BOOLEAN
        BY <1>1 DEF OthersTyped, HandleUnit
    <3> QED BY <1>1, <1>2, <3>1 DEF OthersTyped, agentVars
  <2>3. OthersTyped'
      BY <1>1, <1>2, <2>2 DEF OthersTyped, agentVars, counters
  <2> QED BY <2>1, <2>3, TypedTogether
<1>14. AgentInv'
    BY <1>2 DEF LinkInv, AgentInv, agentVars
<1>15. ServerInv'
    BY <1>2 DEF LinkInv, ServerInv
<1> QED BY <1>11, <1>13, <1>14, <1>15 DEF LinkInv

\* "!K" is sent to the connection that is handled, while it is open.
LEMMA OnKeyframeRequestKeeps == LinkInv /\ OnKeyframeRequest => LinkInv'
<1> SUFFICES ASSUME LinkInv, OnKeyframeRequest PROVE LinkInv'
    OBVIOUS
<1>1. TypeOK /\ NetTypes /\ OthersTyped /\ Opened \in Nat
    BY NetTyped, TypedApart, Counted DEF LinkInv
<1>2. /\ UNCHANGED agentVars /\ UNCHANGED <<link, c2s>> /\ UNCHANGED serverVars
      /\ UNCHANGED <<breaks, splits>> /\ Opened' = Opened
    BY DEF OnKeyframeRequest, Opened
<1>3. asks' \in 0..MaxAsks
  <2>1. asks \in 0..MaxAsks /\ MaxAsks \in Nat
      BY <1>1, LinkAssumption DEF OthersTyped
  <2> QED BY <2>1 DEF OnKeyframeRequest
<1>4. AgentInv' /\ ServerInv'
    BY <1>2 DEF LinkInv, AgentInv, ServerInv, agentVars, serverVars
<1>5. OthersTyped'
    BY <1>1, <1>2, <1>3 DEF OthersTyped, agentVars, serverVars
<1>6. /\ s2c' \in Seq(Seq(Answers)) /\ Len(s2c') = Opened
      /\ LinksInv'
      /\ sock # None => RepliesOn(sock)' = RepliesOn(sock)
  <2>1. CASE session # None /\ link[session] = "open"
    <3>1. session = serving /\ server = "handle" /\ session \in 1..Opened
      <4>1. session = serving
          BY <2>1 DEF LinkInv, ServerInv
      <4> QED BY <1>1, <2>1, <4>1, Counted DEF LinkInv, ServerInv
    <3> DEFINE old == s2c[session]
               got == Append(old, "!K")
    <3>2. /\ old \in Seq(Answers) /\ Len(old) \in Nat
          /\ DOMAIN old = 1..Len(old)
        BY <1>1, <3>1 DEF NetTypes
    <3>3. "!K" \in Answers /\ old \o <<"!K">> = got
      <4>1. \A S : \A q \in Seq(S) : \A e \in S : q \o <<e>> = Append(q, e)
          OBVIOUS
      <4> QED BY <3>2, <4>1 DEF Answers
    <3>4. /\ got \in Seq(Answers) /\ Len(got) = Len(old) + 1
          /\ \A i \in 1..Len(old) : got[i] = old[i]
          /\ got[Len(old) + 1] = "!K"
        BY <3>2, <3>3, AppendFacts
    <3>5. s2c' = [s2c EXCEPT ![session] = got]
        BY <2>1, <3>3 DEF OnKeyframeRequest, Put
    <3> HIDE DEF got
    <3>6. /\ s2c' \in Seq(Seq(Answers)) /\ Len(s2c') = Opened
          /\ s2c'[session] = got
          /\ \A m \in 1..Opened : m # session => s2c'[m] = s2c[m]
      <4> DEFINE kept == [s2c EXCEPT ![session] = got]
      <4>1. got \in Seq(Answers)
          BY <3>4
      <4>2. /\ kept \in Seq(Seq(Answers)) /\ Len(kept) = Opened
            /\ kept[session] = got
            /\ \A m \in 1..Opened : m # session => kept[m] = s2c[m]
          BY <1>1, <3>1, <4>1, RepliesChange
      <4>3. s2c' = kept
          BY <3>5
      <4> HIDE DEF kept
      <4> QED BY <4>2, <4>3
    <3>7. LinksInv'
        BY <1>2, <2>1, <3>1, <3>6 DEF LinkInv, LinksInv, agentVars, serverVars
    <3>8. ASSUME sock # None PROVE RepliesOn(sock)' = RepliesOn(sock)
      <4>1. sock = session
          BY <2>1, <3>1 DEF LinkInv, LinksInv
      <4>2. DOMAIN got = 1..(Len(old) + 1)
        <5>1. \A S : \A q \in Seq(S) : DOMAIN q = 1..Len(q)
            OBVIOUS
        <5> QED BY <3>4, <5>1
      <4>3. \A i : i \in DOMAIN got <=> i \in DOMAIN old \/ i = Len(old) + 1
          BY <3>2, <4>2
      <4>4. \A i : i \in DOMAIN got /\ got[i] = "200 OK"
                   <=> i \in DOMAIN old /\ old[i] = "200 OK"
        <5>1. \A i \in DOMAIN old : got[i] = old[i]
            BY <3>2, <3>4
        <5>2. got[Len(old) + 1] # "200 OK"
            BY <3>4
        <5> QED BY <4>3, <5>1, <5>2, Zenon
      <4>5. s2c'[sock'] = got /\ s2c[sock] = old
          BY <1>2, <3>6, <4>1 DEF agentVars
      <4> HIDE DEF old
      <4> QED BY <4>4, <4>5 DEF RepliesOn
    <3> QED BY <3>6, <3>7, <3>8
  <2>2. CASE ~(session # None /\ link[session] = "open")
    <3>1. s2c' = s2c
        BY <2>2 DEF OnKeyframeRequest
    <3> QED BY <1>1, <1>2, <3>1
            DEF NetTypes, LinkInv, LinksInv, RepliesOn, agentVars, serverVars
  <2> QED BY <2>1, <2>2
<1>7. TypeOK'
  <2>1. NetTypes'
      BY <1>1, <1>2, <1>6 DEF NetTypes
  <2> QED BY <1>5, <2>1, TypedTogether
<1>8. HandshakeInv'
  <2> SUFFICES ASSUME sock # None, link[sock] = "open"
               PROVE  IF handshakeDone THEN Streaming(sock)'
                                       ELSE Asking(sock)' \/ Answered(sock)'
      BY <1>2 DEF HandshakeInv, agentVars
  <2>1. RepliesOn(sock)' = RepliesOn(sock)
      BY <1>6
  <2>2. RequestsOn(sock)' = RequestsOn(sock)
      BY <1>2 DEF RequestsOn, agentVars
  <2>3. Streaming(sock) => Streaming(sock)'
      BY <1>2, <2>1, <2>2 DEF Streaming, agentVars, serverVars
  <2>4. Asking(sock) => Asking(sock)'
      BY <1>2, <2>1 DEF Asking, agentVars
  <2>5. Answered(sock) => Answered(sock)'
    <3>1. \A j : RepliesOn(sock) = {j} => j \in DOMAIN s2c'[sock']
        BY <2>1 DEF RepliesOn
    <3> QED BY <1>2, <2>1, <3>1 DEF Answered, agentVars, serverVars
  <2> QED BY <2>3, <2>4, <2>5 DEF LinkInv, HandshakeInv
<1> QED BY <1>4, <1>6, <1>7, <1>8 DEF LinkInv

-----------------------------------------------------------------------------
LEMMA LinkStep == LinkInv /\ [Next]_vars => LinkInv'
<1> SUFFICES ASSUME LinkInv, [Next]_vars PROVE LinkInv'
    OBVIOUS
<1>1. CASE Handshake
    BY <1>1, ConnectKeeps, ConnectRefusedKeeps, RecvRespKeeps, RecvFailsKeeps
       DEF Handshake
<1>2. CASE Stream
    BY <1>2, EncodeFrameKeeps, CheckForIncomingKeeps, SendRtpKeeps, SendFailsKeeps
       DEF Stream
<1>3. CASE Session
    BY <1>3, AcceptKeeps, PublishSessionKeeps, HandleUnitKeeps, HandleEndKeeps,
       WithdrawSessionKeeps, RelistenKeeps DEF Session
<1>4. CASE Break \/ Restart \/ AcceptFails \/ OnKeyframeRequest
    BY <1>4, BreakKeeps, RestartKeeps, AcceptFailsKeeps, OnKeyframeRequestKeeps
<1>5. CASE UNCHANGED vars
  <2> USE <1>5 DEF vars, agentVars, netVars, serverVars, counters
  <2>1. TypeOK'
      BY DEF LinkInv, TypeOK, Opened
  <2>2. LinksInv' /\ AgentInv' /\ ServerInv'
      BY DEF LinkInv, LinksInv, AgentInv, ServerInv, Opened
  <2>3. HandshakeInv'
      BY DEF LinkInv, HandshakeInv, Asking, Answered, Streaming, RequestsOn,
             RepliesOn
  <2> QED BY <2>1, <2>2, <2>3 DEF LinkInv
<1> QED BY <1>1, <1>2, <1>3, <1>4, <1>5 DEF Next

\* main.cpp, webrtc_server.py: the state keeps its type; in particular, what is
\* in flight to the server never exceeds what a connection holds.
THEOREM LinkTyped == Spec => []TypeOK
<1>1. Spec => []LinkInv
    BY LinkInit, LinkStep, PTL DEF Spec
<1>2. LinkInv => TypeOK
    BY DEF LinkInv
<1> QED BY <1>1, <1>2, PTL

\* Where the handshake is at says what is under way on an open connection.
LEMMA PairedByHandshake == LinkInv => RepliesPaired
<1> SUFFICES ASSUME LinkInv, NEW n \in 1..Opened, link[n] = "open"
             PROVE  Underway(n) = IF n = sock /\ ~handshakeDone THEN 1 ELSE 0
    BY DEF RepliesPaired
<1>1. n = sock /\ sock # None
    BY Counted DEF LinkInv, LinksInv, None
<1>2. /\ Cardinality({}) = 0
      /\ \A i : Cardinality({i}) = 1
    BY FS_EmptySet, FS_Singleton
<1>3. CASE handshakeDone
  <2>1. RequestsOn(n) = {} /\ RepliesOn(n) = {}
      BY <1>1, <1>3 DEF LinkInv, HandshakeInv, Streaming
  <2> QED BY <1>1, <1>2, <1>3, <2>1 DEF Underway
<1>4. CASE ~handshakeDone /\ Asking(n)
  <2>1. RepliesOn(n) = {} /\ c2s[n] = <<Requests[step]>>
      BY <1>4 DEF Asking
  <2>2. Requests[step] # "rtp"
    <3>1. step \in 1..4
        BY DEF LinkInv, TypeOK
    <3>2. \A i \in 1..4 : Requests[i] # "rtp"
        BY DEF Requests
    <3> QED BY <3>1, <3>2
  <2>3. RequestsOn(n) = {1}
      BY <2>1, <2>2 DEF RequestsOn
  <2>4. Cardinality(RequestsOn(n)) = 1 /\ Cardinality(RepliesOn(n)) = 0
      BY <1>2, <2>1, <2>3
  <2> QED BY <1>1, <1>4, <2>4 DEF Underway
<1>5. CASE ~handshakeDone /\ Answered(n)
  <2>1. RequestsOn(n) = {}
    <3>1. DOMAIN c2s[n] = {}
        BY <1>5 DEF Answered
    <3> QED BY <3>1 DEF RequestsOn
  <2>2. PICK j : RepliesOn(n) = {j}
      BY <1>5 DEF Answered
  <2>3. Cardinality(RequestsOn(n)) = 0 /\ Cardinality(RepliesOn(n)) = 1
      BY <1>2, <2>1, <2>2
  <2> QED BY <1>1, <1>5, <2>3 DEF Underway
<1> QED BY <1>1, <1>3, <1>4, <1>5 DEF LinkInv, HandshakeInv

\* main.cpp:113-131, webrtc_server.py:473-523: each request is answered once, so
\* a reply, recognised only by "200 OK", is always that to the last request.
THEOREM RepliesStayPaired == Spec => []RepliesPaired
<1>1. Spec => []LinkInv
    BY LinkInit, LinkStep, PTL DEF Spec
<1> QED BY <1>1, PairedByHandshake, PTL

\* main.cpp:69, webrtc_server.py:417-520: an agent that streams on a connection
\* that stands is the one the server handles, past PLAY, with its session
\* published.
THEOREM AgreedAfterHandshake == Spec => []HandshakeAgreed
<1>1. Spec => []LinkInv
    BY LinkInit, LinkStep, PTL DEF Spec
<1>2. LinkInv => HandshakeAgreed
    BY DEF LinkInv, HandshakeAgreed, HandshakeInv, Streaming, AgentInv, ServerInv
<1> QED BY <1>1, <1>2, PTL
=============================================================================
