------------------------- MODULE SecureCommsProofs -------------------------
(***************************************************************************)
(* Proofs about SecureComms, for any set of tunnels and any tags: a tunnel  *)
(* is of a phase that both of its tags allow, and the Kubernetes phase      *)
(* begins with the keys.                                                    *)
(***************************************************************************)
EXTENDS SecureComms, TLAPS

(* The tuples of variables are abbreviations in every proof below. *)
USE DEF ctlVars, peerVars, inVars

\* Who may know of the keys has them: the upgrade travels from the server's request
\* over the client's loop to its flag, and phases only move on.
KeysInv ==
  /\ pc["wn"] = "idle" /\ secret => keys
  /\ pc["pp"] = "upgrade" => keys
  /\ \A e \in End : (pend[e] = "Upgrade" => keys) /\ (loop[e] = "replied" => keys)
  /\ upgrade => keys
  /\ \A e \in End : phase[e] = "K" => keys
  /\ \A e \in End : pphase[e] = "K" => phase["pp"] = "K"
  /\ \A n \in Name : chan[n] = "accepted" /\ OutPhase[n] = "K" => phase["pp"] = "K"

\* The end with the inbound of n may open channels for it.
MayOpen(n) == ready[InSide[n]] /\ InPhase[n] \in {pphase[InSide[n]], "B"}

\* An end is ready when both peers of the connection are of one phase; pumps and
\* channels belong to ends that are ready; a blocked loop has the channel it took.
PhaseInv ==
  /\ \A e \in End : pc[e] = "verify" => pphase[e] = phase[e]
  /\ \A e \in End : answer[e] \in {"A", "K"} => answer[e] = pphase[Other(e)]
  /\ \A e \in End : ready[e] => pphase["wn"] = pphase["pp"]
  /\ \A n \in Name : pump[n] \in {"select", "open"} => MayOpen(n)
  /\ \A n \in Name : chan[n] \in {"sent", "accepted"} => MayOpen(n)
  /\ \A n \in Name : chan[n] = "accepted" => Serves(n, pphase[Other(InSide[n])])
  /\ \A e \in End : loop[e] \in Name => /\ InSide[loop[e]] # e
                                        /\ conn = "up" => chan[loop[e]] = "sent"

CommsInv == TypeOK /\ KeysInv /\ PhaseInv

\* The ends, and what it means to be the other one.
LEMMA Ends ==
  /\ "wn" \in End /\ "pp" \in End /\ Other("wn") = "pp" /\ Other("pp") = "wn"
  /\ \A e \in End : Other(e) \in End /\ Other(Other(e)) = e
  /\ \A e, f \in End : e # f => f = Other(e)
  BY Zenon DEF End, Other

\* Every step keeps the types of the control of both ends.
LEMMA CtlTypeStep == ASSUME TypeOK, [Next]_vars PROVE CtlTypeOK'
<1> USE Ends DEF TypeOK, CtlTypeOK, ClientPC, ServerPC
<1>1. CASE InitPP
  BY <1>1, Zenon DEF InitPP
<1>2. CASE InitPPFails
  BY <1>2, Zenon DEF InitPPFails
<1>3. CASE Start
  BY <1>3, Zenon DEF Start
<1>4. CASE DialFails
  BY <1>4, Zenon DEF DialFails, AfterClient
<1>5. CASE DisconnectPP
  BY <1>5, Zenon DEF DisconnectPP
<1>6. CASE Handshake
  BY <1>6, Zenon DEF Handshake
<1>7. CASE GetKeys
  BY <1>7, Zenon DEF GetKeys
<1>8. CASE Upgrade
  BY <1>8, Zenon DEF Upgrade
<1>9. CASE Upgraded
  BY <1>9 DEF Upgraded
<1>10. CASE ServerWaits
  BY <1>10, Zenon DEF ServerWaits
<1>11. CASE ClientWaits
  BY <1>11 DEF ClientWaits, AfterClient
<1>12. CASE Disconnected
  BY <1>12, Zenon DEF Disconnected
<1>13. ASSUME NEW e \in End, PhaseOK(e)
       PROVE  CtlTypeOK'
  BY <1>13, Zenon DEF PhaseOK, End
<1>14. ASSUME NEW e \in End, PhaseDiffers(e)
       PROVE  CtlTypeOK'
  BY <1>14, Zenon DEF PhaseDiffers, AfterClient, End
<1>15. CASE UNCHANGED ctlVars
  BY <1>15
<1>16. QED
  BY <1>1, <1>2, <1>3, <1>4, <1>5, <1>6, <1>7, <1>8, <1>9, <1>10, <1>11, <1>12, <1>13, <1>14, <1>15, Zenon
  DEF Next, ControlStep, PeerStep, InboundStep, Lose, Reply, SetUpgrade, RequestFails, OutboundsReady,
      LoopEnds, TakeChannel, LocalConnect, ListenerCloses, PumpTakes, PumpOpened, PumpEnds, StalePump,
      TunnelEnds, vars

\* Every step keeps the types of the two peers.
LEMMA PeerTypeStep == ASSUME TypeOK, [Next]_vars PROVE PeerTypeOK'
<1> USE Ends DEF TypeOK, PeerTypeOK
<1>1. CASE Handshake
  BY <1>1, Zenon DEF Handshake, CtlTypeOK
<1>2. CASE Upgrade
  BY <1>2, Zenon DEF Upgrade
<1>3. CASE Upgraded
  BY <1>3, Zenon DEF Upgraded, Closed
<1>4. CASE Lose
  BY <1>4, Zenon DEF Lose
<1>5. ASSUME NEW e \in End, Reply(e)
      PROVE  PeerTypeOK'
  BY <1>5, Zenon DEF Reply
<1>6. ASSUME NEW e \in End, SetUpgrade(e)
      PROVE  PeerTypeOK'
  BY <1>6, Zenon DEF SetUpgrade
<1>7. ASSUME NEW e \in End, RequestFails(e)
      PROVE  PeerTypeOK'
  BY <1>7, Zenon DEF RequestFails
<1>8. ASSUME NEW e \in End, OutboundsReady(e)
      PROVE  PeerTypeOK'
  BY <1>8, Zenon DEF OutboundsReady
<1>9. ASSUME NEW e \in End, LoopEnds(e)
      PROVE  PeerTypeOK'
  BY <1>9, Zenon DEF LoopEnds, Closed
<1>10. ASSUME NEW e \in End, PhaseOK(e)
       PROVE  PeerTypeOK'
  BY <1>10, Zenon DEF PhaseOK
<1>11. ASSUME NEW e \in End, PhaseDiffers(e)
       PROVE  PeerTypeOK'
  BY <1>11, Zenon DEF PhaseDiffers, Closed
<1>12. ASSUME NEW e \in End, NEW n \in Name, TakeChannel(e, n)
       PROVE  PeerTypeOK'
  BY <1>12 DEF TakeChannel
<1>13. CASE UNCHANGED peerVars
  BY <1>13, Zenon
<1>14. QED
  BY <1>1, <1>2, <1>3, <1>4, <1>5, <1>6, <1>7, <1>8, <1>9, <1>10, <1>11, <1>12, <1>13, Zenon
  DEF Next, ControlStep, PeerStep, InboundStep, InitPP, InitPPFails, Start, DialFails, DisconnectPP, GetKeys,
      ServerWaits, ClientWaits, Disconnected, LocalConnect, ListenerCloses, PumpTakes, PumpOpened, PumpEnds,
      StalePump, TunnelEnds, vars

\* Every step keeps the types of the inbounds and their channels.
LEMMA InTypeStep == ASSUME TypeOK, [Next]_vars PROVE InTypeOK'
<1> USE TagAssumption DEF TypeOK, InTypeOK
<1>1. CASE InitPP
  BY <1>1, Zenon DEF InitPP
<1>2. CASE Handshake
  BY <1>2, Zenon DEF Handshake
<1>3. ASSUME NEW e \in End, OutboundsReady(e)
      PROVE  InTypeOK'
  BY <1>3 DEF OutboundsReady, Decide
<1>4. ASSUME NEW e \in End, PhaseOK(e)
      PROVE  InTypeOK'
  BY <1>4, Zenon DEF PhaseOK, AddInbounds
<1>5. ASSUME NEW e \in End, NEW n \in Name, TakeChannel(e, n)
      PROVE  InTypeOK'
  BY <1>5 DEF TakeChannel, Decide
<1>6. ASSUME NEW n \in Name, LocalConnect(n)
      PROVE  InTypeOK'
  BY <1>6 DEF LocalConnect
<1>7. ASSUME NEW n \in Name, InboundStep(n)
      PROVE  InTypeOK'
  <2>1. CASE ListenerCloses(n)
    BY <2>1, Zenon DEF ListenerCloses
  <2>2. CASE PumpTakes(n)
    BY <2>2, Zenon DEF PumpTakes
  <2>3. CASE PumpOpened(n)
    BY <2>3, Zenon DEF PumpOpened
  <2>4. CASE PumpEnds(n)
    BY <2>4, Zenon DEF PumpEnds
  <2>5. CASE StalePump(n)
    BY <2>5, Zenon DEF StalePump
  <2>6. QED
    BY <1>7, <2>1, <2>2, <2>3, <2>4, <2>5, Zenon DEF InboundStep
<1>8. ASSUME NEW n \in Name, TunnelEnds(n)
      PROVE  InTypeOK'
  BY <1>8, Zenon DEF TunnelEnds
<1>9. CASE UNCHANGED inVars
  BY <1>9, Zenon
<1>10. QED
  BY <1>1, <1>2, <1>3, <1>4, <1>5, <1>6, <1>7, <1>8, <1>9, Zenon
  DEF Next, ControlStep, PeerStep, InitPPFails, Start, DialFails, DisconnectPP, Lose, GetKeys, Upgrade,
      Upgraded, ServerWaits, ClientWaits, Disconnected, Reply, SetUpgrade, RequestFails, LoopEnds,
      PhaseDiffers, vars

\* Every step keeps TypeOK; connections break at most MaxLoss times.
LEMMA TypeStep == ASSUME TypeOK, [Next]_vars PROVE TypeOK'
<1>1. losses' = losses \/ Lose
  BY Zenon DEF Next, ControlStep, PeerStep, InboundStep, InitPP, InitPPFails, Start, DialFails, DisconnectPP, GetKeys,
      Handshake, Upgrade, Upgraded, ServerWaits, ClientWaits, Disconnected, Reply, SetUpgrade, RequestFails,
      OutboundsReady, LoopEnds, PhaseOK, PhaseDiffers, TakeChannel, LocalConnect, ListenerCloses, PumpTakes,
      PumpOpened, PumpEnds, StalePump, TunnelEnds, vars
<1>2. losses' \in 0..MaxLoss
  BY <1>1, TagAssumption DEF Lose, TypeOK
<1>3. QED
  BY <1>2, CtlTypeStep, PeerTypeStep, InTypeStep, Zenon DEF TypeOK

\* The keys stay once they are there.
LEMMA KeysStay == ASSUME [Next]_vars PROVE keys => keys'
  BY Zenon
  DEF Next, ControlStep, PeerStep, InboundStep, InitPP, InitPPFails, Start, DialFails, DisconnectPP, Lose, GetKeys,
      Handshake, Upgrade, Upgraded, ServerWaits, ClientWaits, Disconnected, Reply, SetUpgrade, RequestFails,
      OutboundsReady, LoopEnds, PhaseOK, PhaseDiffers, TakeChannel, LocalConnect, ListenerCloses, PumpTakes,
      PumpOpened, PumpEnds, StalePump, TunnelEnds, vars

\* Every step keeps KeysInv.
LEMMA KeysStep == ASSUME TypeOK, KeysInv, [Next]_vars PROVE KeysInv'
<1> USE Ends, KeysStay DEF TypeOK, CtlTypeOK, PeerTypeOK, InTypeOK, KeysInv
<1>1. CASE InitPP
  BY <1>1 DEF InitPP
<1>2. CASE InitPPFails \/ Start \/ DialFails \/ DisconnectPP \/ Lose
  BY <1>2 DEF InitPPFails, Start, DialFails, AfterClient, DisconnectPP, Lose
<1>3. CASE Handshake
  BY <1>3, Zenon DEF Handshake, KeysMatch, End
<1>4. CASE GetKeys \/ Upgrade
  BY <1>4, Zenon DEF GetKeys, Upgrade
<1>5. CASE Upgraded
  BY <1>5 DEF Upgraded
<1>6. CASE ServerWaits \/ Disconnected
  BY <1>6 DEF ServerWaits, Disconnected
<1>7. CASE ClientWaits
  BY <1>7 DEF ClientWaits, AfterClient
<1>8. ASSUME NEW e \in End, Reply(e)
      PROVE  KeysInv'
  BY <1>8 DEF Reply
<1>9. ASSUME NEW e \in End, SetUpgrade(e)
      PROVE  KeysInv'
  BY <1>9, Zenon DEF SetUpgrade
<1>10. ASSUME NEW e \in End, RequestFails(e) \/ LoopEnds(e)
       PROVE  KeysInv'
  BY <1>10 DEF RequestFails, LoopEnds
<1>11. ASSUME NEW e \in End, PhaseOK(e)
       PROVE  KeysInv'
  BY <1>11 DEF PhaseOK
<1>12. ASSUME NEW e \in End, PhaseDiffers(e)
       PROVE  KeysInv'
  BY <1>12 DEF PhaseDiffers, AfterClient
<1>13. ASSUME NEW e \in End, NEW n \in Name, TakeChannel(e, n)
       PROVE  KeysInv'
  BY <1>13, TagAssumption DEF TakeChannel, Decide, Serves
<1>14. ASSUME NEW e \in End, OutboundsReady(e)
       PROVE  KeysInv'
  BY <1>14, TagAssumption DEF OutboundsReady, Decide, Serves
<1>15. ASSUME NEW n \in Name, LocalConnect(n) \/ InboundStep(n) \/ TunnelEnds(n)
       PROVE  KeysInv'
  <2>1. UNCHANGED <<ctlVars, peerVars>> /\ \A m \in Name : chan'[m] = "accepted" => chan[m] = "accepted"
    BY <1>15 DEF LocalConnect, InboundStep, ListenerCloses, PumpTakes, PumpOpened, PumpEnds, StalePump, TunnelEnds
  <2>2. QED
    BY <2>1, Zenon
<1>16. CASE UNCHANGED vars
  BY <1>16, Zenon DEF vars
<1>17. QED
  BY <1>1, <1>2, <1>3, <1>4, <1>5, <1>6, <1>7, <1>8, <1>9, <1>10, <1>11, <1>12, <1>13, <1>14, <1>15, <1>16, Zenon
  DEF Next, ControlStep, PeerStep

\* A step that takes no channel, starts no pump and leaves the peers' phases alone
\* keeps PhaseInv.
LEMMA QuietStep ==
  ASSUME TypeOK, PhaseInv, UNCHANGED <<pphase, ready, loop, pump, chan>>,
         \A e \in End : pc'[e] = "verify" => pc[e] = "verify" /\ phase'[e] = phase[e],
         \A e \in End : answer'[e] \in {answer[e], "none", "no"},
         conn' = "up" => conn = "up"
  PROVE  PhaseInv'
  BY DEF PhaseInv, MayOpen, Serves

\* Every step keeps PhaseInv.
LEMMA PhaseStep == ASSUME TypeOK, PhaseInv, [Next]_vars PROVE PhaseInv'
<1> USE Ends, TagAssumption DEF TypeOK, CtlTypeOK, PeerTypeOK, InTypeOK
<1>1. CASE InitPP \/ InitPPFails \/ Start \/ DialFails \/ DisconnectPP \/ Lose
  BY <1>1, QuietStep DEF InitPP, InitPPFails, Start, DialFails, AfterClient, DisconnectPP, Lose
<1>2. CASE Handshake
  BY <1>2, Zenon DEF Handshake, PhaseInv
<1>3. CASE GetKeys \/ Upgrade \/ Upgraded
  BY <1>3, QuietStep DEF GetKeys, Upgrade, Upgraded, Closed
<1>4. CASE ServerWaits \/ ClientWaits \/ Disconnected
  BY <1>4, QuietStep DEF ServerWaits, ClientWaits, AfterClient, Disconnected
<1>5. ASSUME NEW e \in End, Reply(e)
      PROVE  PhaseInv'
  BY <1>5 DEF Reply, PhaseInv, MayOpen
<1>6. ASSUME NEW e \in End, SetUpgrade(e)
      PROVE  PhaseInv'
  BY <1>6 DEF SetUpgrade, PhaseInv, MayOpen
<1>7. ASSUME NEW e \in End, RequestFails(e)
      PROVE  PhaseInv'
  BY <1>7, QuietStep DEF RequestFails
<1>8. ASSUME NEW e \in End, LoopEnds(e)
      PROVE  PhaseInv'
  BY <1>8 DEF LoopEnds, Closed, PhaseInv, MayOpen
<1>9. ASSUME NEW e \in End, PhaseOK(e)
      PROVE  PhaseInv'
  <2>1. pphase["wn"] = pphase["pp"]
    BY <1>9 DEF PhaseOK, PhaseInv
  <2>2. \A n \in Name : pump'[n] \in {"select", "open"} => MayOpen(n)'
    BY <1>9 DEF PhaseOK, AddInbounds, PhaseInv, MayOpen
  <2>3. \A n \in Name : MayOpen(n) => MayOpen(n)'
    BY <1>9 DEF PhaseOK, MayOpen
  <2>4. QED
    BY <1>9, <2>1, <2>2, <2>3 DEF PhaseOK, PhaseInv
<1>10. ASSUME NEW e \in End, PhaseDiffers(e)
       PROVE  PhaseInv'
  BY <1>10, QuietStep DEF PhaseDiffers, Closed, AfterClient
<1>11. ASSUME NEW e \in End, NEW n \in Name, TakeChannel(e, n)
       PROVE  PhaseInv'
  <2>1. Other(InSide[n]) = e
    BY <1>11 DEF TakeChannel
  <2>2. CASE Decide(e, n) /\ loop' = loop
    BY <1>11, <2>1, <2>2 DEF TakeChannel, Decide, PhaseInv, MayOpen
  <2>3. CASE loop' = [loop EXCEPT ![e] = n] /\ chan' = chan
    BY <1>11, <2>1, <2>3 DEF TakeChannel, PhaseInv, MayOpen
  <2>4. QED
    BY <1>11, <2>2, <2>3, Zenon DEF TakeChannel
<1>12. ASSUME NEW e \in End, OutboundsReady(e)
       PROVE  PhaseInv'
  <2>1. CASE chan' = chan
    BY <1>12, <2>1 DEF OutboundsReady, PhaseInv, MayOpen
  <2>2. ASSUME NEW n \in Name, loop[e] = n, conn = "up", Decide(e, n)
        PROVE  PhaseInv'
    <3>1. Other(InSide[n]) = e /\ chan[n] = "sent"
      BY <2>2 DEF PhaseInv
    <3>2. QED
      BY <1>12, <2>2, <3>1 DEF OutboundsReady, Decide, PhaseInv, MayOpen
  <2>3. QED
    BY <1>12, <2>1, <2>2, Zenon DEF OutboundsReady
<1>13. ASSUME NEW n \in Name, LocalConnect(n) \/ ListenerCloses(n) \/ StalePump(n)
       PROVE  PhaseInv'
  BY <1>13, QuietStep, Zenon DEF LocalConnect, ListenerCloses, StalePump
<1>14. ASSUME NEW n \in Name, PumpTakes(n)
       PROVE  PhaseInv'
  BY <1>14 DEF PumpTakes, PhaseInv, MayOpen
<1>15. ASSUME NEW n \in Name, PumpOpened(n) \/ PumpEnds(n)
       PROVE  PhaseInv'
  BY <1>15 DEF PumpOpened, PumpEnds, PhaseInv, MayOpen
<1>16. ASSUME NEW n \in Name, TunnelEnds(n)
       PROVE  PhaseInv'
  BY <1>16 DEF TunnelEnds, PhaseInv, MayOpen
<1>17. CASE UNCHANGED vars
  BY <1>17, QuietStep, Zenon DEF vars
<1>18. QED
  BY <1>1, <1>2, <1>3, <1>4, <1>5, <1>6, <1>7, <1>8, <1>9, <1>10, <1>11, <1>12, <1>13, <1>14, <1>15, <1>16, <1>17, Zenon
  DEF Next, ControlStep, PeerStep, InboundStep

\* CommsInv holds in every reachable state of the two ends, their connection and the
\* tunnels, for a new sandbox and for one that was attested before.
THEOREM CommsInvariant == Spec => []CommsInv
<1>1. ASSUME Init PROVE CommsInv
  <2>1. TypeOK
    <3>1. secret \in BOOLEAN /\ posted \in BOOLEAN /\ keys \in BOOLEAN
      BY <1>1, TagAssumption, Zenon DEF Init
    <3>2. phase \in [End -> {"A", "K"}]
      BY <1>1, Zenon DEF Init
    <3>3. CtlTypeOK
      BY <1>1, <3>1, <3>2, Zenon DEF Init, CtlTypeOK, ClientPC, ServerPC, End
    <3>4. PeerTypeOK
      BY <1>1, Zenon DEF Init, PeerTypeOK
    <3>5. InTypeOK /\ losses \in 0..MaxLoss
      BY <1>1, TagAssumption DEF Init, InTypeOK
    <3>6. QED
      BY <3>3, <3>4, <3>5, Zenon DEF TypeOK
  <2>2. PhaseInv
    BY <1>1, TagAssumption, Zenon DEF Init, PhaseInv, End
  <2>3. (secret => keys) /\ ~upgrade
    <3>1. PICK resumed \in BOOLEAN : secret = resumed /\ keys = (resumed \/ ~Trustee)
      BY <1>1, Zenon DEF Init
    <3>2. secret => keys
      BY <3>1, Zenon
    <3>3. QED
      BY <1>1, <3>2, Zenon DEF Init
  <2>4. \A e \in End : phase[e] = "K" => keys
    <3>1. PICK resumed \in BOOLEAN :
            keys = (resumed \/ ~Trustee) /\ phase = [e \in End |-> IF e = "pp" /\ resumed THEN "K" ELSE "A"]
      BY <1>1, Zenon DEF Init
    <3>2. CASE resumed
      BY <3>1, <3>2, Zenon
    <3>3. CASE ~resumed
      BY <3>1, <3>3, Zenon
    <3>4. QED
      BY <3>2, <3>3, Zenon
  <2>5. /\ pc["pp"] # "upgrade"
        /\ \A e \in End : pend[e] # "Upgrade" /\ loop[e] # "replied" /\ pphase[e] # "K"
        /\ \A n \in Name : chan[n] # "accepted"
    BY <1>1, Zenon DEF Init, End
  <2>6. QED
    BY <2>1, <2>2, <2>3, <2>4, <2>5, Zenon DEF CommsInv, KeysInv
<1>2. CommsInv /\ [Next]_vars => CommsInv'
  BY TypeStep, KeysStep, PhaseStep, Zenon DEF CommsInv
<1>3. QED
  BY <1>1, <1>2, PTL DEF Spec

\* A tunnel carries data only in a phase that the inbound's tag and the outbound's tag
\* both allow, although AddInbound and NewOutbound each look at their own end.
THEOREM TunnelsMatchTags == Spec => []TunnelPhase
<1>1. ASSUME CommsInv PROVE TunnelPhase
  <2>1. ASSUME NEW n \in Name, chan[n] = "accepted"
        PROVE  \E p \in {"A", "K"} : /\ InPhase[n] \in {p, "B"} /\ OutPhase[n] \in {p, "B"}
                                     /\ pphase = [e \in End |-> p]
    <3>1. MayOpen(n) /\ Serves(n, pphase[Other(InSide[n])]) /\ InSide[n] \in End
      BY <1>1, <2>1, TagAssumption, Zenon DEF CommsInv, PhaseInv
    <3>2. pphase["wn"] = pphase["pp"]
      BY <1>1, <3>1, Zenon DEF CommsInv, PhaseInv, MayOpen
    <3>3. pphase["wn"] \in {"A", "K"} /\ pphase = [e \in End |-> pphase["wn"]]
      BY <1>1, <3>2, Zenon DEF CommsInv, TypeOK, PeerTypeOK, End
    <3>4. QED
      BY <3>1, <3>2, <3>3, Zenon DEF MayOpen, Serves, End, Other
  <2>2. QED
    BY <1>1, <2>1, Zenon DEF CommsInv, TunnelPhase
<1>2. QED
  BY <1>1, CommsInvariant, PTL

\* The worker node enters the Kubernetes phase, and a Kubernetes phase service of the
\* pod VM is reached, only when the pod VM has its keys.
THEOREM KeysComeFirst == Spec => []KubernetesAfterKeys
<1>1. CommsInv => KubernetesAfterKeys
  BY Ends, Zenon DEF CommsInv, KeysInv, KubernetesAfterKeys
<1>2. QED
  BY <1>1, CommsInvariant, PTL
=============================================================================
