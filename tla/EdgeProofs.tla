----------------------------- MODULE EdgeProofs -----------------------------
(***************************************************************************)
(* Proofs about the two parts at the edge, outside the programs: the page  *)
(* never holds two open peers, however many calls of start() overlap,      *)
(* losses and outages there are; and the firewall script lets in whom it   *)
(* was told to, whatever commands of it fail and whatever runs before it   *)
(* have left behind.                                                       *)
(***************************************************************************)
EXTENDS Viewer, Firewall, SequenceFacts, TLAPS

(***************************************************************************)
(* The page.                                                               *)
(***************************************************************************)


Peers == [signaling : {"new", "have-local-offer", "stable", "closed"},
          ice       : {"new", "checking", "connected", "disconnected",
                       "failed", "closed"},
          answerTo  : Nat,
          held      : BOOLEAN]

Awaits == {"createOffer", "setLocalDescription", "fetch", "done", "failed"}

\* The current peer is the last one made; every earlier one is closed, and no
\* handler or late answer opens it again.
PageInv ==
    /\ peers \in Seq(Peers)
    /\ calls \in Seq(Awaits)
    /\ Len(calls) = Len(peers)
    /\ pc = Len(peers)
    /\ OneOpenPeer

\* A peer is changed: it stays a peer, and only the current one may be open.
LEMMA PeerChanged ==
    ASSUME PageInv, UNCHANGED pc,
           NEW p \in 1..Len(peers), NEW peer \in Peers,
           peers' = [peers EXCEPT ![p] = peer],
           p # pc => peer.ice = "closed",
           calls' \in Seq(Awaits), Len(calls') = Len(calls)
    PROVE  PageInv'
<1>1. /\ peers' \in Seq(Peers) /\ Len(peers') = Len(peers)
      /\ peers'[p] = peer
      /\ \A q \in 1..Len(peers) : q # p => peers'[q] = peers[q]
  BY DEF PageInv
<1>2. OneOpenPeer'
  BY <1>1 DEF PageInv, OneOpenPeer, Open
<1>3. QED
  BY <1>1, <1>2 DEF PageInv

\* Only calls move on.
LEMMA CallsChanged ==
    ASSUME PageInv, UNCHANGED <<pc, peers>>,
           calls' \in Seq(Awaits), Len(calls') = Len(calls)
    PROVE  PageInv'
  BY DEF PageInv, OneOpenPeer, Open

LEMMA PageInvStep ==
    ASSUME PageInv, [Next]_vars
    PROVE  PageInv'
<1>1. /\ peers \in Seq(Peers) /\ Len(peers) \in Nat
      /\ \A p \in 1..Len(peers) : peers[p] \in Peers
      /\ calls \in Seq(Awaits) /\ Len(calls) = Len(peers) /\ pc = Len(peers)
      /\ \A p \in 1..Len(peers) : p # pc => peers[p].ice = "closed"
  BY DEF PageInv, OneOpenPeer, Open
<1>2. \A n \in 1..Len(calls), a \in Awaits :
          /\ [calls EXCEPT ![n] = a] \in Seq(Awaits)
          /\ Len([calls EXCEPT ![n] = a]) = Len(calls)
  BY <1>1
\* start() closes the current peer before it makes another.
<1>3. CASE Start
  <2> DEFINE old  == [p \in 1..Len(peers) |->
                          IF p = pc THEN ClosedPeer ELSE peers[p]]
             left == [n \in 1..Len(calls) |->
                          IF n = pc /\ calls[n] # "fetch" THEN "done"
                                                          ELSE calls[n]]
  <2>1. ClosedPeer \in Peers /\ ClosedPeer.ice = "closed" /\ NewPeer \in Peers
    BY DEF ClosedPeer, NewPeer, None, Peers
  <2>2. /\ old \in Seq(Peers) /\ Len(old) = Len(peers)
        /\ \A p \in 1..Len(peers) : old[p].ice = "closed"
    BY <1>1, <2>1
  <2>3. left \in Seq(Awaits) /\ Len(left) = Len(calls)
    BY <1>1 DEF Awaits
  <2>4. /\ peers' = Append(old, NewPeer) /\ calls' = Append(left, "createOffer")
        /\ pc' = Len(peers')
    BY <1>3 DEF Start
  <2> HIDE DEF old, left
  <2>5. /\ peers' \in Seq(Peers) /\ Len(peers') = Len(peers) + 1
        /\ \A p \in 1..Len(peers) : peers'[p] = old[p]
    BY <2>1, <2>2, <2>4, AppendFacts
  <2>6. calls' \in Seq(Awaits) /\ Len(calls') = Len(calls) + 1
    BY <2>3, <2>4, AppendFacts DEF Awaits
  <2>7. OneOpenPeer'
    <3> SUFFICES ASSUME NEW p \in 1..Len(peers'), p # pc'
                 PROVE  peers'[p].ice = "closed"
      BY DEF OneOpenPeer, Open
    <3>1. p \in 1..Len(peers)
      BY <1>1, <2>4, <2>5
    <3>2. QED
      BY <2>2, <2>5, <3>1
  <2>8. QED
    BY <1>1, <2>4, <2>5, <2>6, <2>7 DEF PageInv
<1>4. ASSUME NEW n \in 1..Len(calls), OfferCreated(n) \/ FetchFails(n)
      PROVE  PageInv'
  <2>1. UNCHANGED <<pc, peers>>
    BY <1>4 DEF OfferCreated, FetchFails
  <2>2. \E a \in Awaits : calls' = [calls EXCEPT ![n] = a]
    BY <1>4 DEF OfferCreated, FetchFails, Awaits
  <2>3. QED
    BY <1>2, <2>1, <2>2, CallsChanged
\* A closed peer stays closed, though its call may go on.
<1>5. ASSUME NEW n \in 1..Len(calls), LocalDescriptionSet(n) PROVE PageInv'
  <2> DEFINE peer == [peers[n] EXCEPT !.signaling = "have-local-offer"]
  <2>1. n \in 1..Len(peers) /\ peers[n] \in Peers
    BY <1>1
  <2>2. peer \in Peers /\ peer.ice = peers[n].ice
    BY <2>1 DEF Peers
  <2>3. /\ peers' = [peers EXCEPT ![n] = peer] /\ UNCHANGED pc
        /\ calls' = [calls EXCEPT ![n] = "fetch"]
    BY <1>5 DEF LocalDescriptionSet
  <2>4. calls' \in Seq(Awaits) /\ Len(calls') = Len(calls)
    BY <1>2, <2>3 DEF Awaits
  <2> HIDE DEF peer
  <2>5. QED
    BY <1>1, <2>1, <2>2, <2>3, <2>4, PeerChanged
\* The answer goes to the current peer, whoever asked.
<1>6. ASSUME NEW n \in 1..Len(calls), Answered(n) PROVE PageInv'
  <2> DEFINE peer == [peers[pc] EXCEPT !.signaling = "stable",
                                       !.ice = "checking",
                                       !.answerTo = n, !.held = TRUE]
  <2>1. /\ calls' = [calls EXCEPT ![n] = "done"] /\ UNCHANGED pc
        /\ peers' = peers \/ peers' = [peers EXCEPT ![pc] = peer]
    BY <1>6 DEF Answered
  <2>2. calls' \in Seq(Awaits) /\ Len(calls') = Len(calls)
    BY <1>2, <2>1 DEF Awaits
  <2>3. pc \in 1..Len(peers) /\ peers[pc] \in Peers /\ n \in Nat
    BY <1>1
  <2>4. peer \in Peers
    BY <2>3 DEF Peers
  <2> HIDE DEF peer
  <2>5. CASE peers' = peers
    BY <2>1, <2>2, <2>5, CallsChanged
  <2>6. CASE peers' = [peers EXCEPT ![pc] = peer]
    BY <2>1, <2>2, <2>3, <2>4, <2>6, PeerChanged
  <2>7. QED
    BY <2>1, <2>5, <2>6
\* ICE has events only for an open peer.
<1>7. ASSUME NEW p \in 1..Len(peers),
             IceConnected(p) \/ IceDisconnected(p) \/ IceFailed(p)
      PROVE  PageInv'
  <2>1. /\ UNCHANGED <<pc, calls>> /\ peers[p].ice # "closed"
        /\ \E ice \in {"connected", "disconnected", "failed"} :
               peers' = [peers EXCEPT ![p].ice = ice]
    BY <1>7 DEF IceConnected, IceDisconnected, IceFailed
  <2>2. PICK ice \in {"connected", "disconnected", "failed"} :
            peers' = [peers EXCEPT ![p].ice = ice]
    BY <2>1
  <2> DEFINE peer == [peers[p] EXCEPT !.ice = ice]
  <2>3. peers[p] \in Peers /\ p = pc
    BY <1>1, <2>1
  <2>4. peer \in Peers
    BY <2>3 DEF Peers
  <2>5. peers' = [peers EXCEPT ![p] = peer]
    BY <2>2
  <2> HIDE DEF peer
  <2>6. QED
    BY <1>1, <2>1, <2>3, <2>4, <2>5, PeerChanged
<1>8. CASE Outage
  <2>1. /\ UNCHANGED <<pc, calls>>
        /\ peers' = [p \in 1..Len(peers) |-> [peers[p] EXCEPT !.held = FALSE]]
    BY <1>8 DEF Outage
  <2>2. \A p \in 1..Len(peers) :
            /\ [peers[p] EXCEPT !.held = FALSE] \in Peers
            /\ [peers[p] EXCEPT !.held = FALSE].ice = peers[p].ice
    BY <1>1 DEF Peers
  <2>3. /\ peers' \in Seq(Peers) /\ Len(peers') = Len(peers)
        /\ \A p \in 1..Len(peers) : peers'[p].ice = peers[p].ice
    <3> DEFINE unheld(p) == [peers[p] EXCEPT !.held = FALSE]
    <3>1. \A p \in 1..Len(peers) :
              unheld(p) \in Peers /\ unheld(p).ice = peers[p].ice
      BY <2>2
    <3>2. peers' = [p \in 1..Len(peers) |-> unheld(p)]
      BY <2>1
    <3> HIDE DEF unheld
    <3>3. QED
      BY <1>1, <3>1, <3>2
  <2>4. QED
    BY <1>1, <2>1, <2>3 DEF PageInv, OneOpenPeer, Open
<1>9. CASE Recovery \/ UNCHANGED vars
  <2>1. UNCHANGED <<pc, peers, calls>>
    BY <1>9 DEF Recovery, vars
  <2>2. QED
    BY <2>1 DEF PageInv, OneOpenPeer, Open
<1>10. QED
  BY <1>3, <1>4, <1>5, <1>6, <1>7, <1>8, <1>9 DEF Next, Page, Ice

\* In every behaviour the page holds one open peer at most, the current one.
THEOREM PeersClosed == Spec => []OneOpenPeer
<1>1. Init => PageInv
  BY DEF Init, PageInv, OneOpenPeer, None
<1>2. PageInv /\ [Next]_vars => PageInv'
  BY PageInvStep
<1>3. PageInv => OneOpenPeer
  BY DEF PageInv
<1>4. QED
  BY <1>1, <1>2, <1>3, PTL DEF Spec

(***************************************************************************)
(* The firewall script.                                                    *)
(***************************************************************************)

Places == {"idle", "reset", "policy", "allow", "enable", "status"}

\* How far a run is by what the filter holds: the addresses the loop has passed
\* are let in; iptables drops the rest from the first command on; with UFW the
\* firewall is down, and holds no other address, until it comes up whole.
ScriptInv ==
    /\ tool \in {"ufw", "iptables", "none"}
    /\ filter \in [enforcing : BOOLEAN, allowed : SUBSET Hosts]
    /\ ips \in SUBSET Hosts
    /\ script \in Places
    /\ script = "reset"  => tool = "ufw" /\ todo = ips
    /\ script = "policy" => tool = "iptables" /\ todo = ips
    /\ script \in {"allow", "enable"} => tool \in {"ufw", "iptables"}
    /\ script = "enable" => todo = {}
    /\ script \in {"allow", "enable"} =>
          /\ todo \subseteq ips /\ ips \ todo \subseteq filter.allowed
          /\ tool = "iptables" => filter.enforcing
          /\ tool = "ufw" => filter = [enforcing |-> FALSE, allowed |-> ips \ todo]
    /\ script = "status" =>
          tool = "ufw" /\ filter = [enforcing |-> TRUE, allowed |-> ips]
    /\ ProvidedReachable

LEMMA ScriptInvStarts == FirewallInit => ScriptInv
BY DEF FirewallInit, ScriptInv, Places, ProvidedReachable

\* A run that does not end with 0 promises nothing.
LEMMA NothingPromised ==
    ASSUME script' # "idle" \/ status' # 0
    PROVE  ProvidedReachable'
BY DEF ProvidedReachable

LEMMA ScriptInvStep == ScriptInv /\ [FirewallNext]_(firewallVars) => ScriptInv'
<1> SUFFICES ASSUME ScriptInv, [FirewallNext]_(firewallVars) PROVE ScriptInv'
    OBVIOUS
<1> USE DEF Places
<1>1. ASSUME NEW m \in {"apply", "revert"}, NEW hosts \in SUBSET Hosts,
             Invoke(m, hosts)
      PROVE  ScriptInv'
  <2>1. /\ UNCHANGED <<tool, filter>> /\ ips' = hosts /\ todo' = hosts
        /\ script = "idle" /\ script' \in {"idle", "reset", "policy"}
        /\ script' = "reset" => tool = "ufw"
        /\ script' = "policy" => tool # "none" /\ tool # "ufw"
        /\ script' = "idle" => status' # 0
      BY <1>1 DEF Invoke, Exit
  <2> QED BY <2>1, NothingPromised DEF ScriptInv
<1>2. CASE Fail
  <2>1. /\ script' = "idle" /\ status' = 1
        /\ UNCHANGED <<tool, filter, mode, ips, todo, runs>>
      BY <1>2 DEF Fail, Exit
  <2> QED BY <2>1, NothingPromised DEF ScriptInv
<1>3. CASE UfwReset
  <2>1. /\ script = "reset" /\ script' = "allow"
        /\ filter' = [enforcing |-> FALSE, allowed |-> {}]
        /\ UNCHANGED <<tool, mode, ips, todo, status, runs>>
      BY <1>3 DEF UfwReset
  <2>2. ips \ todo = {}
      BY <2>1 DEF ScriptInv
  <2> QED BY <2>1, <2>2, NothingPromised DEF ScriptInv
\* UFW comes up with every address.
<1>4. CASE UfwEnable
  <2>1. /\ script = "enable" /\ tool = "ufw" /\ script' = "status"
        /\ filter' = [filter EXCEPT !.enforcing = TRUE]
        /\ UNCHANGED <<tool, mode, ips, todo, status, runs>>
      BY <1>4 DEF UfwEnable
  <2>2. filter = [enforcing |-> FALSE, allowed |-> ips]
      BY <2>1 DEF ScriptInv
  <2>3. filter' = [enforcing |-> TRUE, allowed |-> ips]
      BY <2>1, <2>2
  <2> QED BY <2>1, <2>3, NothingPromised DEF ScriptInv
<1>5. CASE IptablesPolicy
  <2>1. /\ script = "policy" /\ script' = "allow"
        /\ filter' = [filter EXCEPT !.enforcing = TRUE]
        /\ UNCHANGED <<tool, mode, ips, todo, status, runs>>
      BY <1>5 DEF IptablesPolicy
  <2>2. /\ filter' \in [enforcing : BOOLEAN, allowed : SUBSET Hosts]
        /\ filter'.enforcing /\ tool = "iptables" /\ ips \ todo = {}
      BY <2>1 DEF ScriptInv
  <2> QED BY <2>1, <2>2, NothingPromised DEF ScriptInv
<1>6. CASE IptablesPersist
  <2>1. /\ script = "enable" /\ tool = "iptables" /\ script' = "idle"
        /\ UNCHANGED <<tool, filter, mode, ips, todo, runs>>
      BY <1>6 DEF IptablesPersist, Exit
  <2>2. ProvidedReachable'
      BY <2>1 DEF ScriptInv, ProvidedReachable
  <2> QED BY <2>1, <2>2 DEF ScriptInv
<1>7. CASE AllowHost
  <2>1. /\ script = "allow" /\ UNCHANGED <<tool, mode, ips, status, runs>>
        /\ todo \subseteq ips /\ ips \ todo \subseteq filter.allowed
      BY <1>7 DEF AllowHost, ScriptInv
  <2>2. CASE todo = {} /\ script' = "enable" /\ UNCHANGED <<filter, todo>>
      BY <2>1, <2>2, NothingPromised DEF ScriptInv
  <2>3. ASSUME NEW ip \in todo,
               filter' = [filter EXCEPT !.allowed = @ \cup {ip}],
               todo' = todo \ {ip}, script' = script
        PROVE  ScriptInv'
    <3>1. ip \in Hosts /\ ips \ todo' = (ips \ todo) \cup {ip}
        BY <2>1, <2>3 DEF ScriptInv
    <3>2. /\ filter' \in [enforcing : BOOLEAN, allowed : SUBSET Hosts]
          /\ filter'.allowed = filter.allowed \cup {ip}
          /\ filter'.enforcing = filter.enforcing
        BY <2>3, <3>1 DEF ScriptInv
    <3>3. tool = "ufw" =>
              filter' = [enforcing |-> FALSE, allowed |-> ips \ todo']
      <4>1. tool = "ufw" =>
                filter = [enforcing |-> FALSE, allowed |-> ips \ todo]
          BY <2>1 DEF ScriptInv
      <4> DEFINE rest == ips \ todo
      <4>2. tool = "ufw" => filter = [enforcing |-> FALSE, allowed |-> rest]
          BY <4>1
      <4>3. ips \ todo' = rest \cup {ip}
          BY <3>1
      <4> HIDE DEF rest
      <4>4. ASSUME tool = "ufw"
            PROVE  filter' = [enforcing |-> FALSE, allowed |-> rest \cup {ip}]
        <5>1. filter = [enforcing |-> FALSE, allowed |-> rest]
            BY <4>2, <4>4
        <5>2. filter' = [filter EXCEPT !.allowed = filter.allowed \cup {ip}]
            BY <2>3
        <5>3. filter.allowed \cup {ip} = rest \cup {ip}
            BY <5>1
        <5> QED BY <5>1, <5>2, <5>3
      <4> QED BY <4>3, <4>4
    <3>4. ips \ todo' \subseteq filter'.allowed
        BY <2>1, <3>1, <3>2
    <3> QED BY <2>1, <2>3, <3>2, <3>3, <3>4, NothingPromised DEF ScriptInv
  <2> QED BY <1>7, <2>2, <2>3 DEF AllowHost
<1>8. CASE UNCHANGED firewallVars
    BY <1>8 DEF firewallVars, ScriptInv, ProvidedReachable
<1>9. CASE UfwStatus
  <2>1. /\ script = "status" /\ script' = "idle"
        /\ UNCHANGED <<tool, filter, mode, ips, todo, runs>>
      BY <1>9 DEF UfwStatus, Exit
  <2>2. ProvidedReachable'
      BY <2>1 DEF ScriptInv, ProvidedReachable
  <2> QED BY <2>1, <2>2 DEF ScriptInv
<1> QED BY <1>1, <1>2, <1>3, <1>4, <1>5, <1>6, <1>7, <1>8, <1>9
        DEF FirewallNext

LEMMA ScriptInvAlways == FirewallSpec => []ScriptInv
BY ScriptInvStarts, ScriptInvStep, PTL DEF FirewallSpec

\* A run that reports success drops by default and has let in every address it
\* was given, with UFW no other: for any addresses, any number of runs, and
\* whatever a failed run left behind.
THEOREM AllowedAfterSuccess == FirewallSpec => []ProvidedReachable
<1>1. ScriptInv => ProvidedReachable
    BY DEF ScriptInv
<1> QED BY <1>1, ScriptInvAlways, PTL

\* UFW never comes up with a part of the rules, wherever a run fails.
THEOREM UfwWholeOrDown == FirewallSpec => NeverHalfApplied
<1>1. ASSUME ScriptInv, [FirewallNext]_(firewallVars),
             tool = "ufw", filter' # filter, filter'.enforcing
      PROVE  filter'.allowed = ips
  <2>1. CASE UfwEnable
    <3>1. filter = [enforcing |-> FALSE, allowed |-> ips]
      <4>1. /\ todo = {}
            /\ filter = [enforcing |-> FALSE, allowed |-> ips \ todo]
          BY <1>1, <2>1 DEF UfwEnable, ScriptInv
      <4>2. ips \ todo = ips
          BY <4>1
      <4> QED BY <4>1, <4>2
    <3>2. filter' = [filter EXCEPT !.enforcing = TRUE]
        BY <2>1 DEF UfwEnable
    <3> QED BY <3>1, <3>2
  <2>2. CASE UfwReset
      BY <1>1, <2>2 DEF UfwReset
  <2>3. CASE IptablesPolicy
      BY <1>1, <2>3 DEF IptablesPolicy, ScriptInv
  <2>4. CASE AllowHost
    <3>1. PICK ip \in todo : filter' = [filter EXCEPT !.allowed = @ \cup {ip}]
        BY <1>1, <2>4 DEF AllowHost
    <3>2. ~filter.enforcing
        BY <1>1, <2>4 DEF AllowHost, ScriptInv
    <3>3. filter'.enforcing = filter.enforcing
        BY <1>1, <3>1 DEF ScriptInv
    <3> QED BY <1>1, <3>2, <3>3
  <2> QED
      BY <1>1, <2>1, <2>2, <2>3, <2>4
      DEF FirewallNext, Invoke, Fail, UfwStatus, IptablesPersist, firewallVars
<1>2. ScriptInv /\ [FirewallNext]_(firewallVars) =>
          [tool = "ufw" /\ filter' # filter /\ filter'.enforcing
              => filter'.allowed = ips]_(firewallVars)
    BY <1>1
<1> QED BY <1>2, ScriptInvAlways, PTL DEF FirewallSpec, NeverHalfApplied
=============================================================================
