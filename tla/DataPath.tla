------------------------------ MODULE DataPath ------------------------------
(***************************************************************************)
(* The user-plane data path: src/ue_engine/ue_up.c, the data queue of      *)
(* ue_ran_transport.c, the NTB codec mbim_ntb.c and the downlink FIFO and  *)
(* data workers of core.c.  Four threads share it without a common lock:   *)
(*                                                                         *)
(*   - the main thread binds and unbinds sessions inside the tick and      *)
(*     copies connect_activated at its end;                                *)
(*   - the RLS receive thread queues downlink data and drains the queue;   *)
(*   - the downlink worker writes queued NTBs to the host;                 *)
(*   - the data worker reads NTBs of the host and injects the datagrams.   *)
(***************************************************************************)
EXTENDS UeUp, Sequences

CONSTANTS
    DataQueueSize, \* usable slots of the data queue, 31 in the code
    FifoSize,    \* usable slots of the downlink FIFO, 63 in the code
    Cap,         \* bytes of an NTB buffer, 2048 in the code
    PacketLens,  \* lengths of downlink packets for the host
    Ntbs,        \* shapes of the NTBs the host sends
    MaxTraffic,  \* bound on downlink packets and, at NtbCost each, uplink NTBs
    NtbCost,
    MaxEvents,   \* bound on session and radio events
    MaxUsb       \* bound on USB resets and failed writes

HostPsi == 1
ImsPsi == 2

\* A shape is a sequence of NDPs: entries, TRUE for a datagram inside the block
\* and FALSE for a bogus entry, and the NDP that wNextNdpIndex names, 0 for none.
ASSUME DataAssumption ==
    /\ {DataQueueSize, FifoSize, Cap} \subseteq Nat \ {0}
    /\ PacketLens \subseteq Nat /\ MaxPsi = 2
    /\ \A ntb \in Ntbs :
          /\ ntb \in Seq([entries: Seq(BOOLEAN), next: Nat]) /\ ntb # <<>>
          /\ \A i \in DOMAIN ntb : ntb[i].next <= Len(ntb)
    /\ {MaxTraffic, NtbCost, MaxEvents, MaxUsb} \subseteq Nat

VARIABLES
    up,      \* ue_up
    sm,      \* the host's PDU session is ACTIVE in the SM
    act,     \* g_core_ctx.mbim_connect_activated
    tick,    \* where the main thread is
    link,    \* the RAN transport is connected
    q,       \* the data queue
    drain,   \* the receive thread and the packet it has popped
    fifo,    \* the downlink FIFO
    dlw,     \* the downlink worker
    ulw,     \* the data worker, in an NTB
    ep,      \* the data endpoints are up
    host,    \* the packets the host has read
    gnb,     \* the datagrams the gNB has got
    traffic  \* packets and NTBs so far, and what is left of the other bounds

mainVars == <<up, sm, act, tick>>
pathVars == <<q, drain, fifo, dlw, host>>
dataVars == <<mainVars, link, pathVars, ulw, ep, gnb, traffic>>

\* n numbers the packets in the order of the network; a datagram of the host is
\* known by its place: the NTB, the NDP in that and the entry of that.
NoPacket == [n |-> 0, psi |-> 0, len |-> 0]
Place(ntb, ndp, entry) == [ntb |-> ntb, ndp |-> ndp, entry |-> entry]
Reading == [pc |-> "read", ntb |-> <<>>, ndp |-> 0, entry |-> 0, at |-> Place(0, 0, 0)]

Init ==
    /\ up = UpInitial /\ sm = FALSE /\ act = FALSE /\ tick = "engine"
    /\ link = TRUE /\ ep = TRUE
    /\ q = <<>> /\ drain = [pc |-> "idle", pkt |-> NoPacket, rest |-> <<>>, torn |-> FALSE]
    /\ fifo = <<>> /\ dlw = NoPacket /\ ulw = Reading
    /\ host = <<>> /\ gnb = <<>>
    /\ traffic = [dl |-> 0, ul |-> 0, events |-> MaxEvents, usb |-> MaxUsb]

-----------------------------------------------------------------------------
(* The main thread *)

Room(cost) == traffic.dl + NtbCost * traffic.ul + cost <= MaxTraffic

Event(u, active) ==
    /\ traffic.events > 0
    /\ traffic' = [traffic EXCEPT !.events = @ - 1]
    /\ up' = u /\ sm' = active /\ tick' = "copy"

\* ue_up_bind_session_ex for the host, up to the assignment of host_visible: a
\* reader sees a session in use that is not the host's.
HostBindBegin ==
    /\ tick = "engine" /\ link /\ ~sm /\ traffic.events > 0
    /\ traffic' = [traffic EXCEPT !.events = @ - 1]
    /\ up' = [up EXCEPT !.sessions[HostPsi] = "internal"]
    /\ sm' = TRUE /\ tick' = "bind"
    /\ UNCHANGED <<act, link, pathVars, ulw, ep, gnb>>

HostBindEnd ==
    /\ tick = "bind"
    /\ up' = UpBind(up, HostPsi, TRUE, link)
    /\ tick' = "copy"
    /\ UNCHANGED <<sm, act, link, pathVars, ulw, ep, gnb, traffic>>

\* The session events of the engine, but for the host's binding.
SessionEvent ==
    /\ tick = "engine"
    /\ \/ link /\ Event(UpBind(up, ImsPsi, FALSE, link), sm)
       \/ link /\ sm /\ Event(UpUnbind(up), FALSE)
       \/ link /\ Event(UpUnbindPsi(up, ImsPsi), sm)
    /\ UNCHANGED <<act, link, pathVars, ulw, ep, gnb>>

\* ue_engine_set_radio(off): the SM and the IMS session are cleared, the host's
\* session stays bound. ue_ran_transport_stop resets the data queue without a lock:
\* a receive thread about to move the head past the packet it has copied then sees
\* the old slots as queued again.
RadioOffEvent ==
    /\ tick = "engine" /\ link
    /\ Event(UpUnbindPsi(up, ImsPsi), FALSE)
    /\ link' = FALSE /\ q' = <<>>
    /\ drain' = IF drain.pc = "advance"
                THEN [drain EXCEPT !.torn = TRUE, !.rest = q \o <<drain.pkt>>] ELSE drain
    /\ UNCHANGED <<act, fifo, dlw, host, ulw, ep, gnb>>

\* The engine notices a lost RAN link and drops the sessions in the same way.
NoticeLoss ==
    /\ tick = "engine" /\ ~link /\ sm
    /\ up' = UpUnbindPsi(up, ImsPsi) /\ sm' = FALSE /\ tick' = "copy"
    /\ UNCHANGED <<act, link, pathVars, ulw, ep, gnb, traffic>>

\* The end of a tick that changes no session: ue_up_tick, connect_activated.
Quiet ==
    /\ tick = "engine" /\ tick' = "copy"
    /\ UNCHANGED <<up, sm, act, link, pathVars, ulw, ep, gnb, traffic>>

TickEnd ==
    /\ tick = "copy" /\ tick' = "engine"
    /\ up' = UpTick(up, link)
    /\ act' = sm
    /\ UNCHANGED <<sm, link, pathVars, ulw, ep, gnb, traffic>>

Main ==
    HostBindBegin \/ HostBindEnd \/ SessionEvent \/ RadioOffEvent \/ NoticeLoss
        \/ Quiet \/ TickEnd
-----------------------------------------------------------------------------
(* Downlink *)

Queued(queue, size, pkt) == IF Len(queue) < size THEN Append(queue, pkt) ELSE queue

\* handle_pdu_transmission of a data PDU.
RxReceive ==
    /\ drain.pc = "idle" /\ link /\ Room(1)
    /\ \E psi \in {HostPsi, ImsPsi} : \E len \in IF psi = HostPsi THEN PacketLens ELSE {1} :
          q' = Queued(q, DataQueueSize, [n |-> traffic.dl + 1, psi |-> psi, len |-> len])
    /\ traffic' = [traffic EXCEPT !.dl = @ + 1]
    /\ UNCHANGED <<mainVars, link, drain, fifo, dlw, host, ulw, ep, gnb>>

\* Mutant: the drain waits for a session of the host.
SessionOfHost == up.host_psi # 0

AnySession == up.host_psi # 0 \/ \E psi \in 1..MaxPsi : up.sessions[psi] # "unused"

\* ue_up_process_downlink: checked once, then the queue is drained.
RxDrain ==
    /\ drain.pc = "idle" /\ AnySession /\ link /\ q # <<>>
    /\ drain' = [drain EXCEPT !.pc = "peek"]
    /\ UNCHANGED <<mainVars, link, q, fifo, dlw, host, ulw, ep, gnb, traffic>>

\* ue_ran_transport_recv_data_pdu copies the packet, then moves the head.
RxPeek ==
    /\ drain.pc = "peek"
    /\ drain' = IF q = <<>> THEN [drain EXCEPT !.pc = "idle"]
                ELSE [drain EXCEPT !.pc = "advance", !.pkt = Head(q)]
    /\ UNCHANGED <<mainVars, link, q, fifo, dlw, host, ulw, ep, gnb, traffic>>

RxAdvance ==
    /\ drain.pc = "advance"
    /\ q' = IF drain.rest # <<>> THEN drain.rest ELSE Tail(q)
    /\ drain' = [drain EXCEPT !.pc = "route", !.rest = <<>>]
    /\ UNCHANGED <<mainVars, link, fifo, dlw, host, ulw, ep, gnb, traffic>>

\* The length of the NTB of one datagram, 0 when it does not fit.
mbim_ntb16_frame_single(len) ==
    LET ndp == ((12 + len + 3) \div 4) * 4
    IN  IF len = 0 \/ ndp + 16 > Cap THEN 0 ELSE ndp + 16

\* core_mbim_dl_callback; a full FIFO drops the packet.
DlCallback(pkt) ==
    fifo' = IF ep /\ act /\ mbim_ntb16_frame_single(pkt.len) # 0
            THEN Queued(fifo, FifoSize, pkt) ELSE fifo

\* The body of the drain: the host's packet to the host, a packet of an internal
\* session to the IMS service, any other one dropped.
RxRoute ==
    /\ drain.pc = "route"
    /\ drain' = [drain EXCEPT !.pc = "peek", !.pkt = NoPacket]
    /\ IF drain.pkt.psi = up.host_psi THEN DlCallback(drain.pkt) ELSE UNCHANGED fifo
    /\ UNCHANGED <<mainVars, link, q, dlw, host, ulw, ep, gnb, traffic>>

Rx == RxReceive \/ RxDrain \/ RxPeek \/ RxAdvance \/ RxRoute

\* mbim_dl_worker
DlPop ==
    /\ dlw = NoPacket /\ fifo # <<>>
    /\ dlw' = Head(fifo) /\ fifo' = Tail(fifo)
    /\ UNCHANGED <<mainVars, link, q, drain, host, ulw, ep, gnb, traffic>>

Written(pkt) == host' = Append(host, pkt) /\ UNCHANGED <<fifo, traffic>>

Failed == traffic.usb > 0 /\ traffic' = [traffic EXCEPT !.usb = @ - 1]

\* Mutant: a packet whose write failed is queued again.
DlWriteRetries ==
    /\ dlw # NoPacket /\ dlw' = NoPacket
    /\ \/ ep /\ Written(dlw)
       \/ ep /\ Failed /\ fifo' = Queued(fifo, FifoSize, dlw) /\ UNCHANGED host
       \/ ~ep /\ UNCHANGED <<host, fifo, traffic>>
    /\ UNCHANGED <<mainVars, link, q, drain, ulw, ep, gnb>>

DlWrite ==
    /\ dlw # NoPacket /\ dlw' = NoPacket
    /\ \/ ep /\ Written(dlw)
       \/ ep /\ Failed /\ UNCHANGED <<host, fifo>>
       \/ ~ep /\ UNCHANGED <<host, fifo, traffic>>
    /\ UNCHANGED <<mainVars, link, q, drain, ulw, ep, gnb>>

-----------------------------------------------------------------------------
(* Uplink *)

\* mbim_data_worker reads an NTB.
UlRead ==
    /\ ulw.pc = "read" /\ ep /\ Room(NtbCost)
    /\ \E ntb \in Ntbs :
          ulw' = [Reading EXCEPT !.pc = "entry", !.ntb = ntb, !.ndp = 1, !.entry = 1]
    /\ traffic' = [traffic EXCEPT !.ul = @ + 1]
    /\ UNCHANGED <<mainVars, link, pathVars, ep, gnb>>

\* Mutant: only a self-loop of the chain is rejected.
ChainEndsSelf(w) == LET next == w.ntb[w.ndp].next IN next = 0 \/ next = w.ndp

\* mbim_ntb16_deframe: the chain of NDPs ends, or would not move forward.
ChainEnds(w) == LET next == w.ntb[w.ndp].next IN next = 0 \/ next <= w.ndp

\* One entry of the NDP: ul_deframe_cb for a datagram inside the block.
UlEntry ==
    /\ ulw.pc = "entry"
    /\ LET entries == ulw.ntb[ulw.ndp].entries
           skip == [ulw EXCEPT !.entry = @ + 1]
       IN  ulw' = IF ulw.entry > Len(entries)
                  THEN IF ChainEnds(ulw) THEN Reading
                       ELSE [ulw EXCEPT !.ndp = ulw.ntb[ulw.ndp].next, !.entry = 1]
                  ELSE IF entries[ulw.entry] /\ act
                  THEN [skip EXCEPT !.pc = "check",
                                     !.at = Place(traffic.ul, ulw.ndp, ulw.entry)]
                  ELSE skip
    /\ UNCHANGED <<mainVars, link, pathVars, ep, gnb, traffic>>

\* ue_up_send_uplink: the state is read, then host_psi.
UlCheck ==
    /\ ulw.pc = "check"
    /\ ulw' = [ulw EXCEPT !.pc = IF up.state = "ACTIVE" /\ up.host_psi # 0
                                 THEN "send" ELSE "entry"]
    /\ UNCHANGED <<mainVars, link, pathVars, ep, gnb, traffic>>

\* ue_ran_transport_send_data_pdu
UlSend ==
    /\ ulw.pc = "send"
    /\ ulw' = [ulw EXCEPT !.pc = "entry"]
    /\ gnb' = IF up.host_psi # 0 /\ link
              THEN Append(gnb, [at |-> ulw.at, psi |-> up.host_psi]) ELSE gnb
    /\ UNCHANGED <<mainVars, link, pathVars, ep, traffic>>

Ul == UlRead \/ UlEntry \/ UlCheck \/ UlSend

-----------------------------------------------------------------------------
(* The radio and the bus *)

LinkChange ==
    /\ traffic.events > 0
    /\ traffic' = [traffic EXCEPT !.events = @ - 1]
    /\ link' = ~link
    /\ UNCHANGED <<mainVars, pathVars, ulw, ep, gnb>>

UsbChange ==
    /\ ep => Failed
    /\ ~ep => UNCHANGED traffic
    /\ ep' = ~ep
    /\ UNCHANGED <<mainVars, link, pathVars, ulw, gnb>>

Next == Main \/ Rx \/ DlPop \/ DlWrite \/ Ul \/ LinkChange \/ UsbChange

\* Each thread runs on.
Spec ==
    /\ Init /\ [][Next]_dataVars
    /\ WF_dataVars(RxDrain \/ RxPeek \/ RxAdvance \/ RxRoute)

-----------------------------------------------------------------------------
(* Properties *)

Before(a, b) ==
    \/ a.ntb < b.ntb
    \/ a.ntb = b.ntb /\ a.ndp < b.ndp
    \/ a.ntb = b.ntb /\ a.ndp = b.ndp /\ a.entry < b.entry

Increasing(seq) == \A i, j \in 1..Len(seq) : i < j => seq[i].n < seq[j].n

\* The host reads the packets of its own session only, in the order of the network
\* and each at most once, whatever is dropped on the way and whichever thread runs
\* when sessions are bound, released and bound again; but for a radio off that
\* meets the receive thread between the copy and the head of the queue
\* (ue_ran_transport_recv_data_pdu and ue_ran_transport_stop).
HostInOrder ==
    /\ \A i \in 1..Len(host) :
          host[i].psi = HostPsi /\ mbim_ntb16_frame_single(host[i].len) # 0
    /\ drain.torn \/ Increasing(host)

\* The gNB gets each datagram of the host at most once, in the order of the NTBs
\* and of their entries, under the host's session: mbim_ntb16_deframe follows a
\* chain of NDPs forward only, and host_psi is read after the state it goes with.
UplinkOnce ==
    /\ \A i, j \in 1..Len(gnb) : i < j => Before(gnb[i].at, gnb[j].at)
    /\ \A i \in 1..Len(gnb) : gnb[i].psi = HostPsi

\* A queued packet does not wait for the next one: while the link is up and any
\* session is bound, the host's or an internal one, the receive thread empties the
\* queue (ue_up_process_downlink: gating on the host session "would starve an
\* internal-only session").
DownlinkDrains ==
    q # <<>> ~> q = <<>> \/ ~link \/ (up.host_psi = 0 /\ up.sessions[ImsPsi] = "unused")
=============================================================================
