---------------------------- MODULE MbimControl ----------------------------
(***************************************************************************)
(* The MBIM control channel: the single-threaded EP0 loop of core.c, which *)
(* alternates core_ep0_tick with at most one USB control request, the      *)
(* queue of messages waiting for the host, the queue of host commands held *)
(* back, the RESPONSE_AVAILABLE doorbell on the interrupt endpoint, and    *)
(* the indications that the state bridge derives from the UE engine.       *)
(*                                                                         *)
(* The host is a cdc_wdm driver: it keeps ONE doorbell, it issues a        *)
(* GET_ENCAPSULATED_RESPONSE when it holds it, and a doorbell that rings   *)
(* while that request is in flight is folded into it.                      *)
(***************************************************************************)
EXTENDS Integers, Sequences

CONSTANTS
    RESP_QUEUE_SIZE,  \* slots of mbim_resp_queue (one stays free)
    HELD_QUEUE_SIZE,  \* slots of mbim_held_queue (one stays free)
    IND_QUEUE_SIZE,   \* slots of the bridge's ind_queue (one stays free)
    Messages,         \* what the host sends
    MaxMessages,      \* bound: messages the host sends in all
    MaxEvents         \* bound: engine state changes and incoming messages, in all

\* A "sync" command is QMI_CTL_SYNC, a "register" command SETs REGISTER_STATE;
\* "plain" stands for every other command of mbim_handlers.
Commands == {"plain", "register", "sync"}

ASSUME MbimAssumption ==
    /\ RESP_QUEUE_SIZE \in Nat /\ RESP_QUEUE_SIZE >= 2
    /\ HELD_QUEUE_SIZE \in Nat /\ HELD_QUEUE_SIZE >= 2
    /\ IND_QUEUE_SIZE \in Nat /\ IND_QUEUE_SIZE >= 2
    /\ Messages \subseteq Commands \cup {"open", "close"}
    /\ MaxMessages \in Nat /\ MaxEvents \in Nat

VARIABLES
    dev,     \* the device: queues, flags, bridge
    host,    \* the host: what it has sent, read and believes
    loop,    \* where the EP0 loop stands: "tick" or "event"
    events   \* what is left of MaxEvents

vars == <<dev, host, loop, events>>

RegIndications == {"searching", "deregistered", "home"}
PacketIndications == {"attaching", "attached", "detached"}
BridgeIndications == RegIndications \cup PacketIndications
SmStates == {"inactive", "establishing", "active"}

Indications == BridgeIndications \cup {"qmux", "lteAttach", "smsStored", "smsRead"}

\* An item of mbim_resp_queue: the answer to message tid, or an indication.
Items == [tid: 1..MaxMessages, about: {"done"}] \cup [tid: {0}, about: Indications]
Done(tid) == [tid |-> tid, about |-> "done"]
Indication(about) == [tid |-> 0, about |-> about]

DevType ==
    [resp: Seq(Items),
     held: Seq([kind: Commands, tid: 1..MaxMessages]),
     notif_pending: BOOLEAN,
     notif_armed: BOOLEAN,
     ep0_get_in_progress: BOOLEAN,
     pending_lte_attach_status_ind: BOOLEAN,
     sync_ind_sent: BOOLEAN,
     sync_ind_pending: BOOLEAN,
     eps_enabled: BOOLEAN,
     home: BOOLEAN,          \* prev.mm_state = UE_MM_REGISTERED_HOME
     sm: SmStates,           \* prev.sm_state
     ind_queue: Seq(BridgeIndications),
     sms: 0..MaxEvents,         \* fill of the bridge's sms_queue
     dropped: SUBSET (1..MaxMessages),  \* answers a full queue swallowed
     doorbell: BOOLEAN]      \* the RESPONSE_AVAILABLE the host driver holds

(***************************************************************************)
(* The queues.                                                             *)
(***************************************************************************)
RespRoomNoGap(d) == RESP_QUEUE_SIZE - Len(d.resp)   \* mutant: no free slot

RespRoom(d) == RESP_QUEUE_SIZE - 1 - Len(d.resp)

mbim_resp_enqueue(d, item) ==
    IF RespRoom(d) > 0
    THEN [d EXCEPT !.resp = Append(@, item)]
    ELSE [d EXCEPT !.dropped = @ \cup ({item.tid} \ {0})]

mbim_resp_has_command_response(d) == \E i \in DOMAIN d.resp : d.resp[i].tid # 0

mbim_hold_command(d, kind, tid) ==
    IF Len(d.held) < HELD_QUEUE_SIZE - 1
    THEN [d EXCEPT !.held = Append(@, [kind |-> kind, tid |-> tid])]
    ELSE [d EXCEPT !.dropped = @ \cup {tid}]

mbim_mark_notification_needed(d) == [d EXCEPT !.notif_pending = TRUE]

\* mbim_enqueue_indication_blob, called where the queue has room.
Emit(d, about) ==
    mbim_mark_notification_needed(mbim_resp_enqueue(d, Indication(about)))

ind_enqueue(d, ind) ==
    IF Len(d.ind_queue) < IND_QUEUE_SIZE - 1
    THEN [d EXCEPT !.ind_queue = Append(@, ind)]
    ELSE d

FirstOf(q, ind) ==
    CHOOSE i \in 1..Len(q) : q[i] = ind /\ \A j \in 1..i-1 : q[j] # ind
Without(q, at) == SubSeq(q, 1, at - 1) \o SubSeq(q, at + 1, Len(q))

\* Removes the first occurrence of ind from the bridge's ring.
ind_drop_first(d, ind) ==
    [d EXCEPT !.ind_queue =
        IF \E i \in DOMAIN @ : @[i] = ind THEN Without(@, FirstOf(@, ind)) ELSE @]

(***************************************************************************)
(* The doorbell.                                                           *)
(***************************************************************************)
TrySendInsideGet(d) ==   \* mutant: rings although a GET is in flight
    IF ~d.eps_enabled \/ ~d.notif_pending \/ d.notif_armed THEN d
    ELSE IF d.resp = <<>> THEN [d EXCEPT !.notif_pending = FALSE]
    ELSE [d EXCEPT !.notif_pending = FALSE, !.notif_armed = TRUE, !.doorbell = TRUE]

mbim_try_send_deferred_notification(d) ==
    IF ~d.eps_enabled \/ ~d.notif_pending \/ d.ep0_get_in_progress \/ d.notif_armed
    THEN d
    ELSE IF d.resp = <<>> THEN [d EXCEPT !.notif_pending = FALSE]
    ELSE [d EXCEPT !.notif_pending = FALSE, !.notif_armed = TRUE, !.doorbell = TRUE]

(***************************************************************************)
(* drain_pending_indications: QMUX, then LTE_ATTACH_STATUS, then the bridge*)
(* ring, then short messages, each as far as the response queue has room.  *)
(***************************************************************************)
DrainQmux(d) ==
    IF RespRoom(d) > 0 /\ d.sync_ind_pending
    THEN [Emit(d, "qmux") EXCEPT !.sync_ind_pending = FALSE, !.sync_ind_sent = TRUE]
    ELSE d

DrainLteAttach(d) ==
    IF RespRoom(d) > 0 /\ d.pending_lte_attach_status_ind
    THEN [Emit(d, "lteAttach") EXCEPT !.pending_lte_attach_status_ind = FALSE]
    ELSE d

\* The first n entries of the bridge ring become messages.
TakeBridge(d, n) ==
    LET taken == SubSeq(d.ind_queue, 1, n) IN
    [d EXCEPT !.resp = @ \o [i \in 1..n |-> Indication(taken[i])],
              !.ind_queue = SubSeq(@, n + 1, Len(@)),
              !.notif_pending = @ \/ n > 0,
              !.pending_lte_attach_status_ind =
                  @ \/ \E i \in 1..n : taken[i] \in {"attached", "detached"}]

DrainBridgePastFull(d) ==   \* mutant: empties the ring into a full queue
    LET n == Len(d.ind_queue)
        room == IF n <= RespRoom(d) THEN n ELSE RespRoom(d)
    IN  [TakeBridge(d, room) EXCEPT !.ind_queue = <<>>]

DrainBridge(d) ==
    TakeBridge(d, IF Len(d.ind_queue) <= RespRoom(d) THEN Len(d.ind_queue)
                                                     ELSE RespRoom(d))

\* One store-status indication per message, then one SMS_READ if there is room.
DrainSms(d) ==
    LET n == IF d.sms <= RespRoom(d) THEN d.sms ELSE RespRoom(d)
        stored == [d EXCEPT !.resp = @ \o [i \in 1..n |-> Indication("smsStored")],
                            !.sms = @ - n,
                            !.notif_pending = @ \/ n > 0]
    IN  IF n > 0 /\ RespRoom(stored) > 0 THEN Emit(stored, "smsRead") ELSE stored

drain_pending_indications(d) ==
    IF d.held # <<>> THEN d
    ELSE DrainSms(DrainBridge(DrainLteAttach(DrainQmux(d))))

(***************************************************************************)
(* prepare_mbim_response, with the enqueueing of the answer it prepares by *)
(* its two callers.                                                        *)
(***************************************************************************)
Answer(d, tid) == mbim_mark_notification_needed(mbim_resp_enqueue(d, Done(tid)))

mbim_vendor_qmux_reset(d) ==
    [d EXCEPT !.sync_ind_sent = FALSE, !.sync_ind_pending = FALSE]

reset_mbim_standard_indication_state(d) ==
    [d EXCEPT !.pending_lte_attach_status_ind = FALSE, !.notif_pending = FALSE,
              !.notif_armed = FALSE, !.ep0_get_in_progress = FALSE]

\* QMI_CTL_SYNC answers by itself; its indication follows once per OPEN.
HandleCtlSync(d, tid) ==
    IF RespRoom(d) = 0 THEN [d EXCEPT !.dropped = @ \cup {tid}]
    ELSE mbim_try_send_deferred_notification(
             [Answer(d, tid) EXCEPT !.sync_ind_pending = @ \/ ~d.sync_ind_sent])

prepare_mbim_response(d, kind, tid) ==
    CASE kind = "open"     -> Answer(mbim_vendor_qmux_reset(d), tid)
      [] kind = "close"    -> Answer(reset_mbim_standard_indication_state(
                                         mbim_vendor_qmux_reset(d)), tid)
      [] kind = "register" -> Answer(ind_enqueue(d, "searching"), tid)
      [] kind = "sync"     -> HandleCtlSync(d, tid)
      [] kind = "plain"    -> Answer(d, tid)

mbim_process_held_command(d) ==
    prepare_mbim_response([d EXCEPT !.held = Tail(@)], Head(d.held).kind,
                          Head(d.held).tid)

(***************************************************************************)
(* state_bridge_poll: the indications that tell the change from the        *)
(* previous MM and SM state to the ones the engine's tick leaves behind.   *)
(***************************************************************************)
PollRegistration(d, home) ==
    IF ~d.home /\ home THEN ind_enqueue(d, "home")
    ELSE IF d.home /\ ~home THEN ind_enqueue(d, "deregistered")
    ELSE d

PollAttaching(d, sm) ==
    IF d.sm # "establishing" /\ sm = "establishing"
    THEN ind_enqueue(d, "attaching") ELSE d

PollAttached(d, sm) ==
    IF d.sm # "active" /\ sm = "active"
    THEN ind_enqueue(ind_drop_first(d, "attaching"), "attached")
    ELSE IF d.sm = "active" /\ sm # "active"
    THEN ind_enqueue(ind_drop_first(d, "attaching"), "detached")
    ELSE d

state_bridge_poll(d, home, sm) ==
    [PollAttached(PollAttaching(PollRegistration(d, home), sm), sm)
        EXCEPT !.home = home, !.sm = sm]

(***************************************************************************)
(* The steps of the EP0 loop.                                              *)
(***************************************************************************)
core_ep0_tick(d, home, sm) ==
    LET drained == drain_pending_indications(state_bridge_poll(d, home, sm)) IN
    IF drained.resp = <<>> THEN drained
    ELSE mbim_try_send_deferred_notification(mbim_mark_notification_needed(drained))

\* A COMMAND waits while an answer is still queued; OPEN and CLOSE never wait.
core_on_send_encapsulated_command(d, kind, tid) ==
    IF kind \in Commands /\ mbim_resp_has_command_response(d)
    THEN mbim_hold_command(d, kind, tid)
    ELSE mbim_try_send_deferred_notification(prepare_mbim_response(d, kind, tid))

GetLeavesHeld(d) ==   \* mutant: the held commands are not looked at
    LET in == [d EXCEPT !.resp = IF @ = <<>> THEN @ ELSE Tail(@),
                        !.ep0_get_in_progress = TRUE, !.notif_armed = FALSE]
        out == [drain_pending_indications(in) EXCEPT !.ep0_get_in_progress = FALSE]
    IN  IF out.resp = <<>> THEN out ELSE mbim_mark_notification_needed(out)

GetKeepsArmed(d) ==   \* mutant: the consumed doorbell stays armed
    LET in == [d EXCEPT !.resp = IF @ = <<>> THEN @ ELSE Tail(@),
                        !.ep0_get_in_progress = TRUE]
        served == IF in.resp = <<>> /\ in.held # <<>>
                  THEN mbim_process_held_command(in) ELSE in
        out == [drain_pending_indications(served) EXCEPT !.ep0_get_in_progress = FALSE]
    IN  IF out.resp = <<>> THEN out ELSE mbim_mark_notification_needed(out)

core_on_get_encapsulated_response(d) ==
    LET in == [d EXCEPT !.resp = IF @ = <<>> THEN @ ELSE Tail(@),
                        !.ep0_get_in_progress = TRUE, !.notif_armed = FALSE]
        served == IF in.resp = <<>> /\ in.held # <<>>
                  THEN mbim_process_held_command(in) ELSE in
        out == [drain_pending_indications(served) EXCEPT !.ep0_get_in_progress = FALSE]
    IN  IF out.resp = <<>> THEN out ELSE mbim_mark_notification_needed(out)

\* What the host believes once it has read one more message.
HostReads(h, item) ==
    [h EXCEPT !.got = @ \cup ({item.tid} \ {0}),
              !.reg = IF item.about \in RegIndications THEN item.about ELSE @,
              !.packet = IF item.about \in PacketIndications THEN item.about ELSE @]

(***************************************************************************)
(* Behaviours.                                                             *)
(***************************************************************************)
Init ==
    /\ dev = [resp |-> <<>>, held |-> <<>>, notif_pending |-> FALSE,
              notif_armed |-> FALSE, ep0_get_in_progress |-> FALSE,
              pending_lte_attach_status_ind |-> FALSE, sync_ind_sent |-> FALSE,
              sync_ind_pending |-> FALSE, eps_enabled |-> FALSE, home |-> FALSE,
              sm |-> "inactive", ind_queue |-> <<>>, sms |-> 0, dropped |-> {},
              doorbell |-> FALSE]
    /\ host = [sent |-> 0, got |-> {}, reg |-> "deregistered", packet |-> "detached"]
    /\ loop = "tick"
    /\ events = MaxEvents

\* The tick at the head of the loop; the engine may have changed its state.
Tick ==
    /\ loop = "tick"
    /\ \E home \in BOOLEAN, sm \in SmStates :
          LET changed == home # dev.home \/ sm # dev.sm IN
          /\ changed => events > 0
          /\ dev' = core_ep0_tick(dev, home, sm)
          /\ events' = IF changed THEN events - 1 ELSE events
    /\ loop' = "event"
    /\ UNCHANGED host

\* USB_RAW_IOCTL_EVENT_FETCH finds nothing.
NoEvent ==
    /\ loop = "event"
    /\ loop' = "tick"
    /\ UNCHANGED <<dev, host, events>>

SetConfiguration ==
    /\ loop = "event" /\ ~dev.eps_enabled
    /\ dev' = [dev EXCEPT !.eps_enabled = TRUE]
    /\ loop' = "tick"
    /\ UNCHANGED <<host, events>>

HostSend ==
    /\ loop = "event" /\ dev.eps_enabled
    /\ host.sent < MaxMessages
    /\ \E kind \in Messages :
          dev' = core_on_send_encapsulated_command(dev, kind, host.sent + 1)
    /\ host' = [host EXCEPT !.sent = @ + 1]
    /\ loop' = "tick"
    /\ UNCHANGED events

\* The host takes its doorbell and reads one message, or an empty one; what
\* rings before the transfer ends is folded into it.
HostGet ==
    /\ loop = "event" /\ dev.doorbell
    /\ dev' = [core_on_get_encapsulated_response(dev) EXCEPT !.doorbell = FALSE]
    /\ host' = IF dev.resp = <<>> THEN host ELSE HostReads(host, Head(dev.resp))
    /\ loop' = "tick"
    /\ UNCHANGED events

\* bridge_sms_downlink_cb, on the IMS thread; MaxEvents stays below its ring.
SmsArrives ==
    /\ events > 0
    /\ dev' = [dev EXCEPT !.sms = @ + 1]
    /\ events' = events - 1
    /\ UNCHANGED <<host, loop>>

Next ==
    \/ Tick \/ NoEvent \/ SetConfiguration
    \/ HostSend \/ HostGet \/ SmsArrives

Spec == Init /\ [][Next]_vars

\* The loop never blocks (EVENT_FETCH is non-blocking), so it keeps turning; and
\* a host driver that holds a doorbell issues its GET, which the loop fetches
\* some time later: strong fairness of HostGet, which is enabled exactly when
\* the loop looks for an event while the host holds the doorbell.
FairSpec ==
    /\ Spec
    /\ []<>(loop = "tick") /\ []<>(loop = "event")
    /\ []<>(loop = "event" /\ dev.doorbell) => []<><<HostGet>>_vars

(***************************************************************************)
(* Properties.                                                             *)
(***************************************************************************)

\* The queues keep to their rings, and the in-GET flag is down between requests.
MbimTypeOK ==
    /\ dev \in DevType
    /\ ~dev.ep0_get_in_progress
    /\ Len(dev.resp) < RESP_QUEUE_SIZE
    /\ Len(dev.held) < HELD_QUEUE_SIZE
    /\ Len(dev.ind_queue) < IND_QUEUE_SIZE
    /\ host.sent \in 0..MaxMessages /\ host.got \subseteq 1..host.sent
    /\ host.reg \in RegIndications /\ host.packet \in PacketIndications
    /\ loop \in {"tick", "event"}
    /\ events \in 0..MaxEvents

\* No queued message is stranded: after every tick of a configured device the
\* host driver holds a doorbell whenever a message is waiting for it, whatever
\* requests, folded doorbells and CLOSEs came before (core.c:1516-1534).
NothingStranded ==
    loop = "event" /\ dev.eps_enabled /\ dev.resp # <<>> => dev.doorbell

\* A held command has a message ahead of it whose GET will bring its turn: held
\* commands are only served inside a GET, and no GET comes to an empty queue.
HeldHasItsTurn == dev.held # <<>> => dev.resp # <<>>

InTransit(inds) ==
    \/ \E i \in DOMAIN dev.ind_queue : dev.ind_queue[i] \in inds
    \/ \E i \in DOMAIN dev.resp : dev.resp[i].about \in inds

\* The host's picture is current once nothing is on its way to it: it believes
\* the packet service attached exactly when the session is active, and takes the
\* modem for registered or deregistered only if it is so. No indication may be
\* lost, reordered or withdrawn wrongly on the way through the two queues.
HostViewIsCurrent ==
    /\ ~InTransit(PacketIndications) =>
          (host.packet = "attached" <=> dev.sm = "active")
    /\ ~InTransit(RegIndications) =>
          /\ host.reg = "home" => dev.home
          /\ host.reg = "deregistered" => ~dev.home

\* The host reads the answer to every message it sends, unless a queue was full
\* when the answer or the command was to be put into it.
EveryMessageAnswered ==
    \A tid \in 1..MaxMessages :
        (host.sent >= tid) ~> (tid \in host.got \cup dev.dropped)

=============================================================================
