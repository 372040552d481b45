----------------------------- MODULE SecureComms -----------------------------
(***************************************************************************)
(* Secure Comms of one sandbox: the SSH client of the worker node (wn), the *)
(* SSH server of the pod VM (pp), the two SshPeers of their connection and  *)
(* the tunnels between local inbounds and remote outbounds.  An Attestation *)
(* phase connection ("A") lets the pod VM fetch its keys through the KBS    *)
(* tunnel; Kubernetes phase connections ("K") carry the rest.               *)
(***************************************************************************)
EXTENDS Naturals

CONSTANTS Name,      \* names of tunnels
          InSide,    \* the end that has the inbound of a name
          InPhase,   \* phase of an inbound tag: "A", "K" or "B" (both)
          OutPhase,  \* phase of the outbound tag of the other end, or "none"
          Kbs,       \* the tunnel to the KBS
          Trustee,   \* the keys come from the KBS, not from userdata
          MaxLoss,   \* connections that break
          MaxLocal   \* local clients of an inbound, getSecret's attempts aside

End == {"wn", "pp"}
Other(e) == IF e = "wn" THEN "pp" ELSE "wn"

ASSUME TagAssumption ==
  /\ InSide \in [Name -> End] /\ InPhase \in [Name -> {"A", "K", "B"}]
  /\ OutPhase \in [Name -> {"A", "K", "B", "none"}]
  /\ Kbs \in Name /\ Trustee \in BOOLEAN /\ MaxLoss \in Nat /\ MaxLocal \in Nat
  /\ Name \cap {"select", "replied", "ended"} = {}   \* a loop is blocked on a name, or not

VARIABLES secret,    \* the Secret of the sandbox exists
          posted,    \* the KBS has its private key
          keys,      \* the pod VM has both keys
          pc,        \* what an end's control does
          phase,     \* phase of an end
          stop,      \* DisconnectPP: "no", "waiting", "done"
          conn,      \* SSH connection: "none", "up", "closed"
          pphase,    \* phase of an end's peer
          loop,      \* request loop of an end's peer, or the name it is blocked on
          ready,     \* outboundsReady of the peer is closed
          done,      \* done of the peer is closed
          ctx,       \* the peer's context is live
          pend,      \* SendRequest of the end that waits for its reply
          answer,    \* the reply: a phase, "no", or "none"
          upgrade,   \* upgrade flag of the client's peer
          listen,    \* accept goroutine of an inbound: "accept", "send", "ended"
          local,     \* local clients so far
          pump,      \* AddInbound goroutine: "off", "select", "open", "ended"
          stale,     \* such a goroutine of an earlier peer still runs
          chan,      \* SSH channel: "none", "sent", "accepted", "rejected"
          losses     \* connections broken so far

ctlVars == <<secret, posted, keys, pc, phase, stop>>
peerVars == <<conn, pphase, loop, ready, done, ctx, pend, answer, upgrade>>
inVars == <<listen, local, pump, stale, chan>>
vars == <<ctlVars, peerVars, inVars, losses>>

----------------------------------------------------------------------------
(* Start of the client with a sandbox that is new, or with one whose pod VM *)
(* was attested before the adaptor restarted.                               *)
Init ==
  /\ \E resumed \in BOOLEAN :
       /\ secret = resumed /\ posted = resumed
       /\ keys = (resumed \/ ~Trustee)
       /\ phase = [e \in End |-> IF e = "pp" /\ resumed THEN "K" ELSE "A"]
  /\ pc = [e \in End |-> IF e = "wn" THEN "idle" ELSE "accept"]
  /\ stop = "no" /\ conn = "none" /\ upgrade = FALSE /\ losses = 0
  /\ loop = [e \in End |-> "ended"] /\ pphase = [e \in End |-> "A"]
  /\ ready = [e \in End |-> FALSE] /\ done = [e \in End |-> FALSE] /\ ctx = [e \in End |-> FALSE]
  /\ pend = [e \in End |-> "none"] /\ answer = [e \in End |-> "none"]
  /\ listen = [n \in Name |-> IF InSide[n] = "wn" THEN "ended" ELSE "accept"]
  /\ pump = [n \in Name |-> "off"] /\ stale = [n \in Name |-> FALSE]
  /\ chan = [n \in Name |-> "none"]
  /\ local = [n \in Name |-> 0]

(* InitPP in CreateVM: the Secret is created, or read when it is there; its *)
(* private key is posted to the KBS; the inbounds of the worker node listen. *)
InitPP ==
  /\ pc["wn"] = "idle" /\ pc' = [pc EXCEPT !["wn"] = "inited"]
  /\ phase' = [phase EXCEPT !["wn"] = IF secret THEN "K" ELSE "A"]
  /\ secret' = TRUE /\ posted' = (posted \/ Trustee)
  /\ listen' = [n \in Name |-> "accept"]
  /\ UNCHANGED <<keys, stop, peerVars, local, pump, stale, chan, losses>>

(* The Secret was created and posting it fails: CreateVM fails. *)
InitPPFails ==
  /\ pc["wn"] = "idle" /\ Trustee /\ pc' = [pc EXCEPT !["wn"] = "refused"]
  /\ secret' = TRUE
  /\ UNCHANGED <<posted, keys, phase, stop, peerVars, inVars, losses>>

(* SshClientInstance.Start in StartVM. *)
Start ==
  /\ pc["wn"] = "inited" /\ pc' = [pc EXCEPT !["wn"] = "dial"]
  /\ UNCHANGED <<secret, posted, keys, phase, stop, peerVars, inVars, losses>>

----------------------------------------------------------------------------
(* The client checks the server's host key in the Kubernetes phase only; the *)
(* server's key of the attestation phase is generated on the fly.            *)
KeysMatch(client, server) == client = "A" \/ server = "K"

(* The client dials, the server accepts and both finish the handshake; each *)
(* NewSshPeer starts its loop and sends its phase.                          *)
Handshake ==
  /\ pc["wn"] = "dial" /\ pc["pp"] = "accept" /\ stop = "no"
  /\ KeysMatch(phase["wn"], phase["pp"])
  /\ pc' = [e \in End |-> "verify"] /\ conn' = "up" /\ pphase' = phase
  /\ loop' = [e \in End |-> "select"] /\ ctx' = [e \in End |-> TRUE]
  /\ ready' = [e \in End |-> FALSE] /\ done' = [e \in End |-> FALSE]
  /\ pend' = [e \in End |-> "Phase"] /\ answer' = [e \in End |-> "none"]
  /\ upgrade' = FALSE
  /\ pump' = [n \in Name |-> "off"] /\ chan' = [n \in Name |-> "none"]
  /\ stale' = [n \in Name |-> stale[n] \/ pump[n] \in {"select", "open"}]
  /\ UNCHANGED <<secret, posted, keys, phase, stop, listen, local, losses>>

(* StartSshClient ends without a peer: all attempts failed, or its context  *)
(* is cancelled.  Start fails in the attestation phase; the Kubernetes phase *)
(* goroutine tries again until the context is cancelled.                    *)
AfterClient == IF phase["wn"] = "A" THEN "failed" ELSE IF stop = "no" THEN "dial" ELSE "ended"

DialFails ==
  /\ pc["wn"] = "dial" /\ (phase["wn"] = "A" \/ stop # "no")
  /\ pc' = [pc EXCEPT !["wn"] = AfterClient]
  /\ UNCHANGED <<secret, posted, keys, phase, stop, peerVars, inVars, losses>>

----------------------------------------------------------------------------
(* A peer is closed: its connection and its done channel. *)
Closed(e) == conn' = "closed" /\ done' = [done EXCEPT ![e] = TRUE]

(* The request loop of e takes a request of the other end and replies. *)
Reply(e) ==
  /\ loop[e] = "select" /\ conn = "up" /\ pend[Other(e)] # "none"
  /\ pend' = [pend EXCEPT ![Other(e)] = "none"]
  /\ answer' = [answer EXCEPT ![Other(e)] =
                  IF pend[Other(e)] = "Phase" \/ pphase[e] = "A" THEN pphase[e] ELSE "no"]
  /\ loop' = [loop EXCEPT ![e] =
                IF pend[Other(e)] = "Upgrade" /\ pphase[e] = "A" THEN "replied" ELSE "select"]
  /\ UNCHANGED <<ctlVars, conn, pphase, ready, done, ctx, upgrade, inVars, losses>>

(* Faulty variant of SetUpgrade: the flag is not set. *)
SetUpgradeLost(e) ==
  /\ loop[e] = "replied" /\ loop' = [loop EXCEPT ![e] = "select"]
  /\ UNCHANGED <<ctlVars, conn, pphase, ready, done, ctx, pend, answer, upgrade, inVars, losses>>

(* After the reply to an Upgrade request the loop sets the flag. *)
SetUpgrade(e) ==
  /\ loop[e] = "replied" /\ loop' = [loop EXCEPT ![e] = "select"]
  /\ upgrade' = TRUE
  /\ UNCHANGED <<ctlVars, conn, pphase, ready, done, ctx, pend, answer, inVars, losses>>

(* A pending request of a closed connection fails. *)
RequestFails(e) ==
  /\ conn = "closed" /\ pend[e] # "none"
  /\ pend' = [pend EXCEPT ![e] = "none"] /\ answer' = [answer EXCEPT ![e] = "no"]
  /\ UNCHANGED <<ctlVars, conn, pphase, loop, ready, done, ctx, upgrade, inVars, losses>>

(* Faulty variant of Serves: any outbound that has the name. *)
ServesNamed(n, p) == OutPhase[n] # "none"

(* An outbound serves the phase of the peer. *)
Serves(n, p) == OutPhase[n] \in {p, "B"}

Decide(e, n) == chan' = [chan EXCEPT ![n] = IF Serves(n, pphase[e]) THEN "accepted" ELSE "rejected"]

(* The loop takes the channel of a tunnel; before the outbounds are ready it *)
(* waits for them, and serves no request meanwhile.                          *)
TakeChannel(e, n) ==
  /\ loop[e] = "select" /\ conn = "up" /\ chan[n] = "sent" /\ InSide[n] # e
  /\ \/ ready[e] /\ Decide(e, n) /\ loop' = loop
     \/ ~ready[e] /\ loop' = [loop EXCEPT ![e] = n] /\ chan' = chan
  /\ UNCHANGED <<ctlVars, conn, pphase, ready, done, ctx, pend, answer, upgrade, listen, local, pump, stale, losses>>

OutboundsReady(e) ==
  /\ ready[e] /\ \E n \in Name : /\ loop[e] = n
                                 /\ \/ conn = "up" /\ Decide(e, n)
                                    \/ conn # "up" /\ chan' = chan
  /\ loop' = [loop EXCEPT ![e] = "select"]
  /\ UNCHANGED <<ctlVars, conn, pphase, ready, done, ctx, pend, answer, upgrade, listen, local, pump, stale, losses>>

(* Faulty variant of CtxDone: the client's context is not the instance's. *)
CtxDoneBackground(e) == ~ctx[e]

(* The loop ends when the connection is closed or its context is done. *)
CtxDone(e) == ~ctx[e] \/ (e = "wn" /\ stop # "no")

LoopEnds(e) ==
  /\ loop[e] = "select" /\ (conn = "closed" \/ CtxDone(e))
  /\ loop' = [loop EXCEPT ![e] = "ended"] /\ Closed(e)
  /\ UNCHANGED <<ctlVars, pphase, ready, ctx, pend, answer, upgrade, inVars, losses>>

----------------------------------------------------------------------------
(* A pump runs for an inbound that listens and is not of the other phase. *)
AddInbounds(e) ==
  pump' = [n \in Name |->
             IF InSide[n] = e /\ InPhase[n] \in {pphase[e], "B"} /\ (e = "pp" \/ stop = "no")
               THEN "select" ELSE pump[n]]

(* Faulty variant of PhaseOK: the call of Ready is missing. *)
PhaseOKNotReady(e) ==
  /\ pc[e] = "verify" /\ answer[e] = phase[e]
  /\ pc' = [pc EXCEPT ![e] = IF e = "pp" /\ phase[e] = "A" THEN "keys" ELSE "wait"]
  /\ answer' = [answer EXCEPT ![e] = "none"] /\ AddInbounds(e)
  /\ UNCHANGED <<secret, posted, keys, phase, stop, conn, pphase, loop, ready, done, ctx, pend, upgrade, listen, local, stale, chan, losses>>

(* NewSshPeer has the reply.  The phases agree: AddTags and Ready. *)
PhaseOK(e) ==
  /\ pc[e] = "verify" /\ answer[e] = phase[e]
  /\ pc' = [pc EXCEPT ![e] = IF e = "pp" /\ phase[e] = "A" THEN "keys" ELSE "wait"]
  /\ answer' = [answer EXCEPT ![e] = "none"]
  /\ ready' = [ready EXCEPT ![e] = TRUE] /\ AddInbounds(e)
  /\ UNCHANGED <<secret, posted, keys, phase, stop, conn, pphase, loop, done, ctx, pend, upgrade, listen, local, stale, chan, losses>>

(* They differ, or the request failed: the peer is closed. *)
PhaseDiffers(e) ==
  /\ pc[e] = "verify" /\ answer[e] \notin {"none", phase[e]}
  /\ pc' = [pc EXCEPT ![e] = IF e = "pp" THEN "accept" ELSE AfterClient]
  /\ answer' = [answer EXCEPT ![e] = "none"] /\ Closed(e)
  /\ UNCHANGED <<secret, posted, keys, phase, stop, pphase, loop, ready, ctx, pend, upgrade, inVars, losses>>

----------------------------------------------------------------------------
(* The worker node's end of the KBS tunnel forwards a request for the keys  *)
(* to the KBS, as one for the keys of this sandbox.                         *)
KbsAnswers == chan[Kbs] = "accepted" /\ conn = "up" /\ posted

(* ppSecrets.Go: the keys come through the KBS tunnel of this connection. *)
GetKeys ==
  /\ pc["pp"] = "keys" /\ ~keys /\ KbsAnswers /\ keys' = TRUE
  /\ UNCHANGED <<secret, posted, pc, phase, stop, peerVars, inVars, losses>>

(* With the keys the server tells the client that it upgrades. *)
Upgrade ==
  /\ pc["pp"] = "keys" /\ keys
  /\ pc' = [pc EXCEPT !["pp"] = "upgrade"] /\ pend' = [pend EXCEPT !["pp"] = "Upgrade"]
  /\ UNCHANGED <<secret, posted, keys, phase, stop, conn, pphase, loop, ready, done, ctx, answer, upgrade, inVars, losses>>

(* Upgrade returns, whatever the reply: the attestation phase ends, which   *)
(* cancels its context, and the server accepts Kubernetes connections.      *)
Upgraded ==
  /\ pc["pp"] = "upgrade" /\ answer["pp"] # "none"
  /\ \/ answer["pp"] = "no" /\ Closed("pp")
     \/ answer["pp"] # "no" /\ UNCHANGED <<conn, done>>
  /\ answer' = [answer EXCEPT !["pp"] = "none"] /\ ctx' = [ctx EXCEPT !["pp"] = FALSE]
  /\ pc' = [pc EXCEPT !["pp"] = "accept"] /\ phase' = [phase EXCEPT !["pp"] = "K"]
  /\ UNCHANGED <<secret, posted, keys, stop, pphase, loop, ready, pend, upgrade, inVars, losses>>

(* peer.Wait returns once every goroutine of the peer has ended. *)
Waited(e) ==
  /\ loop[e] = "ended"
  /\ \A n \in Name : chan[n] # "accepted" /\ (InSide[n] = e => pump[n] \in {"off", "ended"})

(* The server waits for the next Kubernetes connection. *)
ServerWaits ==
  /\ pc["pp"] = "wait" /\ Waited("pp") /\ pc' = [pc EXCEPT !["pp"] = "accept"]
  /\ UNCHANGED <<secret, posted, keys, phase, stop, peerVars, inVars, losses>>

(* Faulty variant of ClientWaits: IsUpgraded is not asked. *)
ClientWaitsUnasked ==
  /\ pc["wn"] = "wait" /\ Waited("wn")
  /\ phase' = [phase EXCEPT !["wn"] = "K"]
  /\ pc' = [pc EXCEPT !["wn"] = IF stop = "no" THEN "dial" ELSE "ended"]
  /\ UNCHANGED <<secret, posted, keys, stop, peerVars, inVars, losses>>

(* The client enters the Kubernetes phase if the attestation connection was *)
(* upgraded before it closed; otherwise Start fails.                        *)
ClientWaits ==
  /\ pc["wn"] = "wait" /\ Waited("wn")
  /\ \/ /\ phase["wn"] = "A" /\ upgrade
        /\ phase' = [phase EXCEPT !["wn"] = "K"]
        /\ pc' = [pc EXCEPT !["wn"] = IF stop = "no" THEN "dial" ELSE "ended"]
     \/ /\ phase["wn"] = "K" \/ ~upgrade
        /\ phase' = phase /\ pc' = [pc EXCEPT !["wn"] = AfterClient]
  /\ UNCHANGED <<secret, posted, keys, stop, peerVars, inVars, losses>>

----------------------------------------------------------------------------
(* DisconnectPP has closed the listener of an inbound. *)
DelAll(n) == InSide[n] = "wn" /\ stop # "no"

(* A local client connects; the accept goroutine hands the connection to    *)
(* whoever receives from the inbound's channel.                             *)
LocalConnect(n) ==
  /\ listen[n] = "accept" /\ ~DelAll(n) /\ listen' = [listen EXCEPT ![n] = "send"]
  /\ \/ n = Kbs /\ pc["pp"] = "keys" /\ ~keys /\ local' = local
     \/ local[n] < MaxLocal /\ local' = [local EXCEPT ![n] = @ + 1]
  /\ UNCHANGED <<ctlVars, peerVars, pump, stale, chan, losses>>

(* The listener was closed: the goroutine ends when it is in Accept. *)
ListenerCloses(n) ==
  /\ listen[n] = "accept" /\ DelAll(n)
  /\ listen' = [listen EXCEPT ![n] = "ended"]
  /\ UNCHANGED <<ctlVars, peerVars, local, pump, stale, chan, losses>>

(* The pump takes a connection and opens a channel for it; one tunnel of a  *)
(* name at a time.                                                          *)
PumpTakes(n) ==
  /\ pump[n] = "select" /\ listen[n] = "send" /\ chan[n] = "none"
  /\ listen' = [listen EXCEPT ![n] = "accept"]
  /\ pump' = [pump EXCEPT ![n] = "open"] /\ chan' = [chan EXCEPT ![n] = "sent"]
  /\ UNCHANGED <<ctlVars, peerVars, local, stale, losses>>

(* OpenChannel returns: a tunnel, or an error that leaves the local         *)
(* connection as it is.                                                     *)
PumpOpened(n) ==
  /\ pump[n] = "open" /\ pump' = [pump EXCEPT ![n] = "select"]
  /\ \/ chan[n] = "accepted" /\ UNCHANGED chan
     \/ /\ chan[n] = "rejected" \/ (chan[n] = "sent" /\ conn = "closed")
        /\ chan' = [chan EXCEPT ![n] = "none"]
  /\ UNCHANGED <<ctlVars, peerVars, listen, local, stale, losses>>

PumpEnds(n) ==
  /\ pump[n] = "select" /\ (done[InSide[n]] \/ listen[n] = "ended")
  /\ pump' = [pump EXCEPT ![n] = "ended"]
  /\ UNCHANGED <<ctlVars, peerVars, listen, local, stale, chan, losses>>

(* A pump of an earlier peer ends, or its select takes a connection first,  *)
(* for which it cannot open a channel.                                      *)
StalePump(n) ==
  /\ stale[n]
  /\ \/ stale' = [stale EXCEPT ![n] = FALSE] /\ UNCHANGED listen
     \/ listen[n] = "send" /\ listen' = [listen EXCEPT ![n] = "accept"] /\ UNCHANGED stale
  /\ UNCHANGED <<ctlVars, peerVars, local, pump, chan, losses>>

(* A tunnel ends: a side closes its TCP connection, or the SSH connection   *)
(* is closed; the goroutines that copy close both.                          *)
TunnelEnds(n) ==
  /\ chan[n] = "accepted" /\ pump[n] # "open"
  /\ chan' = [chan EXCEPT ![n] = "none"]
  /\ UNCHANGED <<ctlVars, peerVars, listen, local, pump, stale, losses>>

----------------------------------------------------------------------------
(* DisconnectPP of StopVM: close the listeners, cancel the context, wait. *)
DisconnectPP ==
  /\ stop = "no" /\ pc["wn"] \notin {"idle", "refused"} /\ stop' = "waiting"
  /\ UNCHANGED <<secret, posted, keys, pc, phase, peerVars, inVars, losses>>

(* All goroutines of the instance have ended: the Secret is deleted. *)
Disconnected ==
  /\ stop = "waiting"
  /\ pc["wn"] \in {"inited", "failed", "ended"} \/ phase["wn"] = "A"
  /\ \A n \in Name : InSide[n] = "wn" => listen[n] = "ended"
  /\ stop' = "done" /\ secret' = FALSE
  /\ UNCHANGED <<posted, keys, pc, phase, peerVars, inVars, losses>>

(* The connection breaks. *)
Lose ==
  /\ conn = "up" /\ losses < MaxLoss /\ losses' = losses + 1 /\ conn' = "closed"
  /\ UNCHANGED <<ctlVars, pphase, loop, ready, done, ctx, pend, answer, upgrade, inVars>>

PeerStep(e) ==
  \/ Reply(e) \/ SetUpgrade(e) \/ RequestFails(e) \/ OutboundsReady(e) \/ LoopEnds(e)
  \/ PhaseOK(e) \/ PhaseDiffers(e)
  \/ \E n \in Name : TakeChannel(e, n)
InboundStep(n) == ListenerCloses(n) \/ PumpTakes(n) \/ PumpOpened(n) \/ PumpEnds(n) \/ StalePump(n)
ControlStep ==
  \/ Handshake \/ GetKeys \/ Upgrade \/ Upgraded \/ ServerWaits \/ ClientWaits \/ Disconnected
  \/ (stop # "no" /\ DialFails)

Next ==
  \/ InitPP \/ InitPPFails \/ Start \/ DialFails \/ DisconnectPP \/ Lose
  \/ ControlStep
  \/ \E e \in End : PeerStep(e)
  \/ \E n \in Name : LocalConnect(n) \/ InboundStep(n) \/ TunnelEnds(n)

Spec == Init /\ [][Next]_vars

----------------------------------------------------------------------------
(* Fairness: goroutines run, the pod VM keeps asking for its keys, the KBS  *)
(* does not refuse them for ever, and a closed SSH connection ends its       *)
(* tunnels.  Local clients, StopVM and losses are free.                      *)
FairSpec ==
  /\ Spec /\ WF_vars(ControlStep) /\ WF_vars(Start) /\ SF_vars(GetKeys)
  /\ WF_vars(pc["pp"] = "keys" /\ LocalConnect(Kbs))
  /\ \A e \in End : WF_vars(PeerStep(e))
  /\ \A n \in Name : WF_vars(InboundStep(n)) /\ WF_vars(conn = "closed" /\ TunnelEnds(n))

ClientPC == {"idle", "refused", "inited", "dial", "verify", "wait", "failed", "ended"}
ServerPC == {"accept", "verify", "keys", "upgrade", "wait"}

CtlTypeOK ==
  /\ secret \in BOOLEAN /\ posted \in BOOLEAN /\ keys \in BOOLEAN
  /\ pc \in [End -> ClientPC \cup ServerPC] /\ pc["wn"] \in ClientPC /\ pc["pp"] \in ServerPC
  /\ phase \in [End -> {"A", "K"}] /\ stop \in {"no", "waiting", "done"}

PeerTypeOK ==
  /\ conn \in {"none", "up", "closed"} /\ pphase \in [End -> {"A", "K"}]
  /\ loop \in [End -> {"select", "replied", "ended"} \cup Name]
  /\ ready \in [End -> BOOLEAN] /\ done \in [End -> BOOLEAN] /\ ctx \in [End -> BOOLEAN]
  /\ upgrade \in BOOLEAN
  /\ pend \in [End -> {"none", "Phase", "Upgrade"}] /\ answer \in [End -> {"none", "no", "A", "K"}]

InTypeOK ==
  /\ listen \in [Name -> {"accept", "send", "ended"}]
  /\ pump \in [Name -> {"off", "select", "open", "ended"}]
  /\ stale \in [Name -> BOOLEAN] /\ chan \in [Name -> {"none", "sent", "accepted", "rejected"}]
  /\ local \in [Name -> 0..MaxLocal]

TypeOK == CtlTypeOK /\ PeerTypeOK /\ InTypeOK /\ losses \in 0..MaxLoss

(* A tunnel exists only in a phase that the tags of both of its ends allow, *)
(* although each end looks only at its own tag and its own phase.  The       *)
(* state is well formed (TypeOK).                                           *)
TunnelPhase ==
  TypeOK /\ \A n \in Name : chan[n] = "accepted" /\ conn = "up" =>
     \E p \in {"A", "K"} : /\ InPhase[n] \in {p, "B"} /\ OutPhase[n] \in {p, "B"}
                           /\ pphase = [e \in End |-> p]

(* The worker node leaves the attestation phase only for a pod VM that has  *)
(* its keys: the upgrade flag is set by a server that got them.  The agent  *)
(* and the other Kubernetes phase services of the pod VM are reached only   *)
(* over a connection that both ends made with the keys.                     *)
KubernetesAfterKeys ==
  /\ phase["wn"] = "K" => keys
  /\ \A n \in Name : chan[n] = "accepted" /\ OutPhase[n] = "K" => keys /\ phase["pp"] = "K"

(* Once attested, the ends are connected in the Kubernetes phase again      *)
(* after every loss, unless StopVM disconnects the pod VM: no request loop  *)
(* waits for ever for outbounds that its peer's answer would have to open.  *)
Connected ==
  phase["wn"] = "K" ~> (stop # "no" \/ (conn = "up" /\ phase["pp"] = "K" /\ pc = [e \in End |-> "wait"]))

(* A pod VM whose client waits on an attestation connection gets its keys   *)
(* and upgrades, unless that connection is lost or StopVM closes it.        *)
AttestationEnds ==
  pc["wn"] = "wait" /\ phase["wn"] = "A" ~> (phase["wn"] = "K" \/ losses > 0 \/ stop # "no")

(* DisconnectPP returns when no accept goroutine holds a local connection   *)
(* that nothing receives.                                                   *)
DisconnectUnlessHeld ==
  stop = "waiting" ~> (stop = "done" \/ \E n \in Name : InSide[n] = "wn" /\ listen[n] = "send")
=============================================================================
