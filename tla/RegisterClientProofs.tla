------------------------ MODULE RegisterClientProofs ------------------------
(***************************************************************************)
(* Proofs about RegisterClient, for every number of peers, set of calls    *)
(* and number of crashes.                                                  *)
(***************************************************************************)
EXTENDS RegisterClient, WellFoundedInduction, TLAPS

\* The next target of a call that has not returned is one it has yet to send to.
LEMMA TargetLeft ==
    ASSUME TypeOK, NEW c \in Call, left[c] # {}
    PROVE  NextTarget(c) \in left[c] /\ NextTarget(c) \in Proc
  <1>1. left[c] \in SUBSET Proc
    BY DEF TypeOK
  <1>2. left[c] \in SUBSET Nat
    BY <1>1, ClientAssumption DEF Proc
  <1>3. \E t \in left[c] : \A u \in left[c] : t <= u
    <2> DEFINE R == OpToRel(<, Nat)
    <2>1. IsWellFoundedOn(R, Nat)
      BY NatLessThanWellFounded
    <2>2. \A a, b \in Nat : <<a, b>> \in R <=> a < b
      BY DEF OpToRel
    <2> HIDE DEF R
    <2>3. PICK t \in left[c] : \A u \in left[c] : ~(<<u, t>> \in R)
      BY <1>2, <2>1, WFMin
    <2>4. ASSUME NEW u \in left[c] PROVE t <= u
      <3>1. t \in Nat /\ u \in Nat /\ ~(u < t)
        BY <1>2, <2>2, <2>3
      <3> QED
        BY <3>1
    <2> QED
      BY <2>4
  <1> QED
    BY <1>1, <1>3 DEF NextTarget

-----------------------------------------------------------------------------
(* Type correctness *)

\* A send takes one of the four ways of SendToPeer, or goes to the process itself.
LEMMA SendCases ==
    ASSUME TypeOK, NEW c \in Call, Send(c)
    PROVE  \E t \in left[c] :
             /\ t \in Proc /\ left' = [left EXCEPT ![c] = @ \ {t}] /\ MayStart(c)
             /\ UNCHANGED <<up, crashes, completed>>
             /\ \/ t = Self /\ SendToSelf(c)
                \/ t \in Peer /\ SendToPeer(c, t)
  <1>1. NextTarget(c) \in left[c] /\ NextTarget(c) \in Proc
    BY TargetLeft DEF Send
  <1> QED
    BY <1>1 DEF Send, Peer

\* Every send, connect, crash and completion keeps the state well typed, and pending_cmds
\* a map.
LEMMA ClientTypeStep == TypeOK /\ [Next]_vars => TypeOK'
  <1> SUFFICES ASSUME TypeOK, [Next]_vars PROVE TypeOK'
    OBVIOUS
  <1> USE DEF TypeOK
  <1>1. Self \in Proc /\ MaxCrashes \in Nat
    BY ClientAssumption
  <1>2. ASSUME NEW c \in Call, Send(c) PROVE TypeOK'
    <2>1. PICK t \in left[c] :
             /\ t \in Proc /\ left' = [left EXCEPT ![c] = @ \ {t}]
             /\ UNCHANGED <<up, crashes, completed>>
             /\ \/ t = Self /\ SendToSelf(c)
                \/ t \in Peer /\ SendToPeer(c, t)
      BY <1>2, SendCases
    <2>2. left' \in [Call -> SUBSET Proc]
      BY <2>1
    <2>3. CASE t = Self /\ SendToSelf(c)
      BY <1>1, <2>1, <2>2, <2>3 DEF SendToSelf
    <2>4. CASE t \in Peer /\ SendToPeer(c, t)
      BY <2>1, <2>2, <2>4 DEF SendToPeer, AddPending
    <2> QED
      BY <2>1, <2>3, <2>4
  <1>3. ASSUME NEW t \in Peer, Connect(t) PROVE TypeOK'
    BY <1>3 DEF Connect, Replayed
  <1>4. ASSUME NEW t \in Peer, NEW c \in wire[t], Receive(t, c) PROVE TypeOK'
    BY <1>4 DEF Receive, Peer
  <1>5. ASSUME NEW t \in Peer, PeerCrash(t) PROVE TypeOK'
    <2>1. crashes' \in 0..MaxCrashes
      BY <1>1, <1>5 DEF PeerCrash
    <2> QED
      BY <1>5, <2>1 DEF PeerCrash
  <1>6. ASSUME NEW t \in Peer, PeerRestart(t) PROVE TypeOK'
    BY <1>6 DEF PeerRestart
  <1>7. ASSUME NEW i \in Own, Complete(i) PROVE TypeOK'
    BY <1>7 DEF Complete, RemovePending
  <1>8. CASE UNCHANGED vars
    BY <1>8 DEF vars
  <1> QED
    BY <1>2, <1>3, <1>4, <1>5, <1>6, <1>7, <1>8 DEF Next

\* Every reachable state of the links is well typed.
THEOREM ClientTypesHold == Spec => []TypeOK
  <1>1. Init => TypeOK
    BY ClientAssumption DEF Init, TypeOK
  <1>2. TypeOK /\ [Next]_vars => TypeOK'
    BY ClientTypeStep
  <1> QED
    BY <1>1, <1>2, PTL DEF Spec

-----------------------------------------------------------------------------
(* Nothing needed is lost *)

\* Of two calls on one msg_ident that go to peers, one comes after the other: the register
\* that makes them waits for a broadcast or a send to return before it makes the next.
CallsInOrder ==
    \A c, d \in Call :
        (c # d /\ Ident[c] = Ident[d] /\ Targets[c] \cap Peer # {} /\ Targets[d] \cap Peer # {})
            => c \in After[d] \/ d \in After[c]

Started(c) == left[c] # Targets[c]

LeftTargets == \A c \in Call : left[c] \subseteq Targets[c]

\* A call starts when the earlier ones on its msg_ident have returned.
StartedInTurn == \A c \in Call : Started(c) => \A b \in After[c] : left[b] = {}

\* What is pending was sent to some peer.
PendingStarted == \A c \in pending : Started(c) /\ Targets[c] \cap Peer # {}

\* Nothing is on the wire of a connection that is not open.
WireOpen == \A t \in Peer : stream[t] # "open" => wire[t] = {}

ClientInv == TypeOK /\ LeftTargets /\ StartedInTurn /\ PendingStarted /\ WireOpen /\ SentOrKept

\* Kept(c, t): the disjunction of SentOrKept.
Kept(c, t) == \/ c \in received[t] \cup wire[t] \cup lost[t]
              \/ stream[t] = "none" /\ c \in pending
              \/ Moot(c)

\* A call that has started has, and one that nobody needs stays unneeded.
LEMMA StartedStays ==
    ASSUME ClientInv, NEW c \in Call, NEW t \in left[c], left' = [left EXCEPT ![c] = @ \ {t}],
           UNCHANGED completed
    PROVE  /\ Started(c)' /\ LeftTargets'
           /\ \A d \in Call : Started(d) => Started(d)'
           /\ \A d \in Call : left[d] = {} => left'[d] = {}
           /\ \A d \in Call : Moot(d) => Moot(d)'
  <1>1. left \in [Call -> SUBSET Proc] /\ LeftTargets
    BY DEF ClientInv, TypeOK
  <1>2. left'[c] = left[c] \ {t} /\ \A d \in Call \ {c} : left'[d] = left[d]
    BY <1>1
  <1>3. LeftTargets'
    BY <1>1, <1>2 DEF LeftTargets
  <1>4. Started(c)'
    BY <1>1, <1>2 DEF LeftTargets, Started
  <1>5. \A d \in Call : Started(d) => Started(d)'
    BY <1>2, <1>4 DEF Started
  <1>6. \A d \in Call : left[d] = {} => left'[d] = {}
    BY <1>2
  <1>7. \A d \in Call : Moot(d) => Moot(d)'
    BY <1>5 DEF Moot, Started
  <1> QED
    BY <1>3, <1>4, <1>5, <1>6, <1>7

\* What AddPending throws away is an earlier call on the same msg_ident: nobody needs it.
LEMMA ReplacedIsMoot ==
    ASSUME CallsInOrder, ClientInv, NEW c \in Call, left[c] # {},
           Targets[c] \cap Peer # {}, Started(c)',
           NEW d \in pending, d # c, Ident[d] = Ident[c]
    PROVE  Moot(d)'
  <1>1. d \in Call /\ Started(d) /\ Targets[d] \cap Peer # {}
    BY DEF ClientInv, TypeOK, PendingStarted
  <1>2. c \notin After[d]
    BY <1>1 DEF ClientInv, StartedInTurn
  <1>3. d \in After[c]
    BY <1>1, <1>2 DEF CallsInOrder
  <1> QED
    BY <1>1, <1>3 DEF Moot, Started

\* A send leaves c with its target, and whatever it replaces is not needed.
LEMMA SendKeeps ==
    ASSUME CallsInOrder, ClientInv, TypeOK', NEW c \in Call, Send(c)
    PROVE  ClientInv'
  <1>1. PICK t \in left[c] :
           /\ t \in Proc /\ left' = [left EXCEPT ![c] = @ \ {t}] /\ MayStart(c)
           /\ UNCHANGED <<up, crashes, completed>>
           /\ \/ t = Self /\ SendToSelf(c)
              \/ t \in Peer /\ SendToPeer(c, t)
    BY SendCases DEF ClientInv
  <1>2. /\ left \in [Call -> SUBSET Proc] /\ stream \in [Peer -> {"none", "open", "stale"}]
        /\ wire \in [Peer -> SUBSET Call] /\ received \in [Proc -> SUBSET Call]
        /\ lost \in [Peer -> SUBSET Call] /\ pending \subseteq Call /\ t \in Targets[c]
    BY DEF ClientInv, TypeOK, LeftTargets
  <1>3. /\ Started(c)' /\ LeftTargets'
        /\ \A d \in Call : Started(d) => Started(d)'
        /\ \A d \in Call : left[d] = {} => left'[d] = {}
        /\ \A d \in Call : Moot(d) => Moot(d)'
    BY <1>1, StartedStays
  <1>4. \A d \in Call \ {c} : left'[d] = left[d]
    BY <1>1, <1>2
  <1>5. StartedInTurn'
    <2>1. \A b \in After[c] : left[b] = {} /\ b \in Call
      BY <1>1, ClientAssumption DEF MayStart
    <2>2. \A d \in Call \ {c} : Started(d)' => Started(d)
      BY <1>4 DEF Started
    <2>3. \A d \in Call : After[d] \subseteq Call
      BY ClientAssumption
    <2> QED
      BY <1>3, <2>1, <2>2, <2>3 DEF ClientInv, StartedInTurn
  <1>6. \A d \in Call : \A u \in Peer : Sent(d, u)' => Sent(d, u) \/ (d = c /\ u = t)
    BY <1>1, <1>2, <1>4 DEF Sent
  <1>7. SUFFICES /\ PendingStarted' /\ WireOpen'
                 /\ \A d \in Call : \A u \in Peer : Kept(d, u) => Kept(d, u)'
                 /\ t \in Peer => Kept(c, t)'
    BY <1>3, <1>5, <1>6, <1>7 DEF ClientInv, SentOrKept, Kept
  <1>8. CASE t = Self /\ SendToSelf(c)
    <2>1. /\ UNCHANGED <<stream, pending, wire, lost>> /\ t \notin Peer
          /\ \A u \in Peer : received'[u] = received[u]
      BY <1>2, <1>8 DEF SendToSelf, Peer
    <2>2. PendingStarted' /\ WireOpen'
      BY <1>2, <1>3, <2>1 DEF ClientInv, PendingStarted, WireOpen
    <2> QED
      BY <1>3, <2>1, <2>2 DEF Kept
  <1>9. CASE t \in Peer /\ stream[t] = "open" /\ SendToPeer(c, t)
    <2>1. /\ wire' = [wire EXCEPT ![t] = @ \cup {c}]
          /\ UNCHANGED <<stream, pending, lost, received>>
      BY <1>9 DEF SendToPeer
    <2>2. PendingStarted' /\ WireOpen'
      BY <1>2, <1>3, <1>9, <2>1 DEF ClientInv, PendingStarted, WireOpen
    <2>3. \A u \in Peer : wire[u] \subseteq wire'[u]
      BY <1>2, <2>1
    <2>4. c \in wire'[t]
      BY <1>2, <1>9, <2>1
    <2> QED
      BY <1>3, <2>1, <2>2, <2>3, <2>4 DEF Kept
  <1>10. CASE /\ t \in Peer /\ AddPending(c) /\ UNCHANGED <<wire, lost, received>>
              /\ stream[t] \in {"none", "stale"} /\ stream' = [stream EXCEPT ![t] = "none"]
    <2>1. pending' = {d \in pending : Ident[d] # Ident[c]} \cup {c}
      BY <1>10 DEF AddPending
    <2>2. Targets[c] \cap Peer # {}
      BY <1>2, <1>10
    <2>3. PendingStarted'
      BY <1>2, <1>3, <2>1, <2>2 DEF ClientInv, PendingStarted
    <2>4. WireOpen'
      BY <1>2, <1>10 DEF ClientInv, WireOpen
    <2>5. \A d \in pending : d \in pending' \/ Moot(d)'
      BY <1>1, <1>3, <2>1, <2>2, ReplacedIsMoot
    <2>6. \A u \in Peer : stream[u] = "none" => stream'[u] = "none"
      BY <1>2, <1>10
    <2>7. stream'[t] = "none" /\ c \in pending'
      BY <1>2, <1>10, <2>1
    <2> QED
      BY <1>3, <1>10, <2>3, <2>4, <2>5, <2>6, <2>7 DEF Kept
  <1>11. CASE /\ t \in Peer /\ UNCHANGED <<stream, pending, wire, received>>
              /\ lost' = [lost EXCEPT ![t] = @ \cup {c}]
    <2>1. (\A u \in Peer : lost[u] \subseteq lost'[u]) /\ c \in lost'[t]
      BY <1>2, <1>11
    <2>2. PendingStarted' /\ WireOpen'
      BY <1>2, <1>3, <1>11 DEF ClientInv, PendingStarted, WireOpen
    <2> QED
      BY <1>3, <1>11, <2>1, <2>2 DEF Kept
  <1>12. CASE t \in Peer /\ stream[t] # "open" /\ SendToPeer(c, t)
    <2>1. stream[t] = "none" => stream = [stream EXCEPT ![t] = "none"]
      BY <1>2, <1>12
    <2> QED
      BY <1>10, <1>11, <1>12, <2>1 DEF SendToPeer
  <1> QED
    BY <1>1, <1>8, <1>9, <1>12

\* Steps that leave the calls alone.
LEMMA LinkKeeps ==
    ASSUME ClientInv, TypeOK', UNCHANGED left, PendingStarted', WireOpen',
           \A d \in Call : \A u \in Peer : Kept(d, u) => Kept(d, u)'
    PROVE  ClientInv'
  <1>1. LeftTargets' /\ StartedInTurn'
    BY DEF ClientInv, LeftTargets, StartedInTurn, Started
  <1>2. SentOrKept'
    BY DEF ClientInv, SentOrKept, Kept, Sent
  <1> QED
    BY <1>1, <1>2 DEF ClientInv

\* Every step of the links keeps what is still needed.
LEMMA ClientStep ==
    ASSUME CallsInOrder, ClientInv, [Next]_vars
    PROVE  ClientInv'
  <1>0. TypeOK'
    BY ClientTypeStep DEF ClientInv
  <1>1. /\ stream \in [Peer -> {"none", "open", "stale"}]
        /\ wire \in [Peer -> SUBSET Call] /\ received \in [Proc -> SUBSET Call]
        /\ lost \in [Peer -> SUBSET Call] /\ pending \subseteq Call
    BY DEF ClientInv, TypeOK
  <1>2. ASSUME NEW t \in Peer, Connect(t) PROVE ClientInv'
    <2>1. /\ stream[t] = "none" /\ wire' = [wire EXCEPT ![t] = pending]
          /\ stream' = [stream EXCEPT ![t] = "open"]
          /\ UNCHANGED <<left, pending, received, completed, lost>>
      BY <1>2 DEF Connect, Replayed
    <2>2. wire[t] = {} /\ wire'[t] = pending /\ \A u \in Peer \ {t} : wire'[u] = wire[u]
      BY <1>1, <2>1 DEF ClientInv, WireOpen
    <2>3. PendingStarted' /\ WireOpen'
      BY <1>1, <2>1, <2>2 DEF ClientInv, PendingStarted, WireOpen, Started
    <2>4. \A d \in Call : Moot(d) => Moot(d)'
      BY <2>1 DEF Moot
    <2>5. \A u \in Peer \ {t} : stream'[u] = stream[u]
      BY <1>1, <2>1
    <2>6. \A d \in Call : \A u \in Peer : Kept(d, u) => Kept(d, u)'
      BY <2>1, <2>2, <2>4, <2>5 DEF Kept
    <2> QED
      BY <1>0, <2>1, <2>3, <2>6, LinkKeeps
  <1>3. ASSUME NEW t \in Peer, NEW c \in wire[t], Receive(t, c) PROVE ClientInv'
    <2>1. /\ wire' = [wire EXCEPT ![t] = @ \ {c}]
          /\ received' = [received EXCEPT ![t] = @ \cup {c}]
          /\ UNCHANGED <<left, stream, pending, completed, lost>>
      BY <1>3 DEF Receive
    <2>2. /\ wire'[t] = wire[t] \ {c} /\ received'[t] = received[t] \cup {c}
          /\ \A u \in Peer \ {t} : wire'[u] = wire[u] /\ received'[u] = received[u]
      BY <1>1, <2>1 DEF Peer
    <2>3. PendingStarted' /\ WireOpen'
      BY <2>1, <2>2 DEF ClientInv, PendingStarted, WireOpen, Started
    <2>4. \A d \in Call : \A u \in Peer : Kept(d, u) => Kept(d, u)'
      BY <2>1, <2>2 DEF Kept, Moot
    <2> QED
      BY <1>0, <2>1, <2>3, <2>4, LinkKeeps
  <1>4. ASSUME NEW t \in Peer, PeerCrash(t) PROVE ClientInv'
    <2>1. /\ wire' = [wire EXCEPT ![t] = {}]
          /\ lost' = [lost EXCEPT ![t] = @ \cup wire[t]]
          /\ stream' = [stream EXCEPT ![t] = IF @ = "open" THEN "stale" ELSE @]
          /\ UNCHANGED <<left, pending, received, completed>>
      BY <1>4 DEF PeerCrash
    <2>2. /\ wire'[t] = {} /\ lost'[t] = lost[t] \cup wire[t]
          /\ \A u \in Peer \ {t} : wire'[u] = wire[u] /\ lost'[u] = lost[u]
      BY <1>1, <2>1
    <2>3. \A u \in Peer : /\ stream[u] = "none" => stream'[u] = "none"
                          /\ stream'[u] = "open" => stream[u] = "open"
                          /\ u # t => stream'[u] = stream[u]
      BY <1>1, <2>1
    <2>4. PendingStarted' /\ WireOpen'
      BY <2>1, <2>2, <2>3 DEF ClientInv, PendingStarted, WireOpen, Started
    <2>5. \A d \in Call : \A u \in Peer : Kept(d, u) => Kept(d, u)'
      BY <2>1, <2>2, <2>3 DEF Kept, Moot
    <2> QED
      BY <1>0, <2>1, <2>4, <2>5, LinkKeeps
  <1>5. ASSUME NEW i \in Own, Complete(i) PROVE ClientInv'
    <2>1. /\ pending' = {d \in pending : Ident[d] # i} /\ completed' = completed \cup {i}
          /\ UNCHANGED <<left, stream, wire, received, lost>>
      BY <1>5 DEF Complete, RemovePending
    <2>2. PendingStarted' /\ WireOpen'
      BY <2>1 DEF ClientInv, PendingStarted, WireOpen, Started
    <2>3. \A d \in Call : \A u \in Peer : Kept(d, u) => Kept(d, u)'
      BY <2>1 DEF Kept, Moot
    <2> QED
      BY <1>0, <2>1, <2>2, <2>3, LinkKeeps
  <1>6. ASSUME UNCHANGED <<left, stream, pending, wire, received, completed, lost>> PROVE ClientInv'
    <2>1. PendingStarted' /\ WireOpen'
      BY <1>6 DEF ClientInv, PendingStarted, WireOpen, Started
    <2>2. \A d \in Call : \A u \in Peer : Kept(d, u) => Kept(d, u)'
      BY <1>6 DEF Kept, Moot
    <2> QED
      BY <1>0, <1>6, <2>1, <2>2, LinkKeeps
  <1>7. ASSUME NEW t \in Peer, PeerRestart(t) PROVE ClientInv'
    BY <1>6, <1>7 DEF PeerRestart
  <1>8. CASE UNCHANGED vars
    BY <1>6, <1>8 DEF vars
  <1> QED
    BY <1>0, <1>2, <1>3, <1>4, <1>5, <1>7, <1>8, SendKeeps DEF Next

\* A command sent to a peer is never lost while it is needed, unless the peer crashed with
\* it, whichever streams fail and in whatever order the peers come back.
THEOREM SentIsKept == ASSUME CallsInOrder PROVE Spec => []SentOrKept
  <1>1. Init => ClientInv
    <2> SUFFICES ASSUME Init PROVE ClientInv
      OBVIOUS
    <2>1. TypeOK
      BY ClientAssumption DEF Init, TypeOK
    <2> QED
      BY <2>1 DEF Init, ClientInv, LeftTargets, StartedInTurn, PendingStarted, WireOpen,
                  SentOrKept, Started, Sent
  <1>2. ClientInv /\ [Next]_vars => ClientInv'
    BY ClientStep
  <1>3. ClientInv => SentOrKept
    BY DEF ClientInv
  <1> QED
    BY <1>1, <1>2, <1>3, PTL DEF Spec
=============================================================================
