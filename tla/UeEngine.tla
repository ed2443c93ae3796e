------------------------------ MODULE UeEngine ------------------------------
(***************************************************************************)
(* The UE engine (src/ue_engine/ue_engine.c): how MM, SM, RRC, the NAS     *)
(* security context, the IMS session and the user plane act together.      *)
(*                                                                         *)
(* Three kinds of actors take steps:                                       *)
(*   - the main thread: engine_real_tick, cut at the places where it       *)
(*     reads what the RLS thread writes (TickStart; one step per PDU of    *)
(*     the drain loop; TickTail, which ends with the part of               *)
(*     state_bridge_poll that follows the tick), and the host's commands   *)
(*     between two ticks;                                                  *)
(*   - the RLS receive thread: it moves the link state and fills the       *)
(*     downlink NAS queue;                                                 *)
(*   - the network and the clock.                                          *)
(*                                                                         *)
(* Requests the UE sent wait in the set requests until the network answers *)
(* them, in any order: there is one of each kind in flight at most.        *)
(***************************************************************************)
EXTENDS UeMm, UeSm, UeUp, Sequences, FiniteSets

CONSTANTS
    RrcSetupTimeout,   \* the 3000 ms of step 5c, in clock units
    CoreWindow,        \* the 15000 ms of step 5e, in clock units
    NasQueueSize,      \* usable slots of the downlink NAS queue, 31 in the code
    ImsContext,        \* state_bridge_has_ims_context
    HostOps,           \* the commands the host may send
    MaxHostOps,        \* how many of them
    Answers,           \* the downlink messages the network may send
    Faults,            \* what may go wrong, see FaultKinds
    MaxLosses          \* how often the serving cell is lost

FaultKinds == {"lose", "dup", "late", "noCell", "outage", "startFails"}

HostOpKinds == {"radioOn", "radioOnAgain", "radioOff", "register", "update",
                "connect", "disconnect"}

AnswerKinds == {"rrcSetup", "authRequest", "securityModeCommand", "regAccept",
                "regReject", "pduAccept", "pduReject", "releaseCommand"}

ASSUME EngineAssumption ==
    /\ RrcSetupTimeout \in Nat \ {0}
    /\ CoreWindow \in Nat \ {0}
    /\ NasQueueSize \in Nat \ {0}
    /\ MaxPti > 1
    /\ MaxHostOps \in Nat
    /\ MaxLosses \in Nat
    /\ ImsContext \in BOOLEAN
    /\ HostOps \subseteq HostOpKinds
    /\ Answers \subseteq AnswerKinds
    /\ Faults \subseteq FaultKinds

VARIABLES
    radio_on,   \* ctx->radio_on
    ran,        \* ctx->ran.state, written by the RLS thread
    rrc,        \* rrc_state, its timers and waiting_core_response
    sec,        \* nas_sec.active, nas_sec_non_current_valid, guti_len > 0
    up,         \* ctx->up
    ims,        \* ims_pdu_requested, _establishing, _active, ims_psi, ims_pti
    dl,         \* the downlink NAS queue of the RAN transport
    phase,      \* where the main thread is in engine_real_tick
    modem,      \* what state_bridge_poll last copied into g_modem_state
    gnb,        \* what the network keeps of this UE
    budget      \* host commands and link losses still to come

engineVars == <<mm, sm, requests, radio_on, ran, rrc, sec, up, ims, dl, phase,
                modem, gnb, budget>>

Request(type) == SmRequest(type, 0, 0)

Message(type, psi, pti, temporary) ==
    [type |-> type, psi |-> psi, pti |-> pti, temporary |-> temporary]

MmRequestKinds == {"rrcSetupRequest", "regInitial", "regUpdate",
                   "authResponse", "securityModeComplete"}

RequestType == [type: MmRequestKinds \cup {"estRequest", "relRequest"},
                psi: 0..MaxPsi, pti: 0..MaxPti]

MessageType == [type: AnswerKinds, psi: 0..MaxPsi, pti: 0..MaxPti,
                temporary: BOOLEAN]

RanStates == {"IDLE", "SEARCHING", "CONNECTED", "LOST"}

RrcType == [state: {"IDLE", "SETUP_REQUESTED", "CONNECTED"},
            setup_left: 0..RrcSetupTimeout, window_left: 0..CoreWindow,
            waiting: BOOLEAN]

SecType == [active: BOOLEAN, pending: BOOLEAN, guti: BOOLEAN]

ImsType == [requested: BOOLEAN, establishing: BOOLEAN, active: BOOLEAN,
            psi: 0..MaxPsi, pti: 0..MaxPti]

ModemType == [registered_home: BOOLEAN, packet_attached: BOOLEAN]

GnbType == [rrc: BOOLEAN, amf: BOOLEAN, sessions: SUBSET (0..MaxPsi)]

BudgetType == [host: 0..MaxHostOps, losses: 0..MaxLosses]

RrcIdle == [state |-> "IDLE", setup_left |-> 0, window_left |-> 0,
            waiting |-> FALSE]

SecNone == [active |-> FALSE, pending |-> FALSE, guti |-> FALSE]

EngineInit ==
    /\ MmInit
    /\ SmInit
    /\ radio_on = TRUE
    /\ ran = "IDLE"
    /\ rrc = RrcIdle
    /\ sec = SecNone
    /\ up = UpInitial
    /\ ims = [requested |-> FALSE, establishing |-> FALSE, active |-> FALSE,
              psi |-> 0, pti |-> 0]
    /\ dl = <<>>
    /\ phase = "idle"
    /\ modem = [registered_home |-> FALSE, packet_attached |-> FALSE]
    /\ gnb = [rrc |-> FALSE, amf |-> FALSE, sessions |-> {}]
    /\ budget = [host |-> MaxHostOps, losses |-> MaxLosses]

-----------------------------------------------------------------------------
(* Helpers *)

Connected == ran = "CONNECTED"

\* What the network takes up of the messages sent in a step: nothing without a
\* link, and only a request for a radio context from a UE that has none.
Sent(msgs) ==
    requests \cup {q \in msgs : /\ Connected
                                /\ gnb.rrc \/ q.type = "rrcSetupRequest"}

\* engine_clear_sm_runtime: everything but the state and the retry counter.
SmClearRuntime(s) ==
    [s EXCEPT !.session_id = 0, !.pti = 0, !.next_pti = 0, !.est_retx_count = 0,
              !.deadline = SmUnarmed, !.connect_requested = FALSE,
              !.disconnect_requested = FALSE]

\* Mutant: the security context is kept.
ForgetButSecurity ==
    /\ rrc' = RrcIdle
    /\ UNCHANGED sec
    /\ up' = UpUnbindPsi(up, ims.psi)
    /\ ims' = [ims EXCEPT !.requested = FALSE, !.establishing = FALSE,
                          !.active = FALSE]

\* Mutant: the IMS session is still taken for requested.
ForgetButIms ==
    /\ rrc' = RrcIdle
    /\ sec' = SecNone
    /\ up' = UpUnbindPsi(up, ims.psi)
    /\ ims' = [ims EXCEPT !.establishing = FALSE, !.active = FALSE]

\* engine_forget_network_context, without its effect on SM.
ForgetNetworkContext ==
    /\ rrc' = RrcIdle
    /\ sec' = SecNone
    /\ up' = UpUnbindPsi(up, ims.psi)
    /\ ims' = [ims EXCEPT !.requested = FALSE, !.establishing = FALSE,
                          !.active = FALSE]

\* The part of state_bridge_poll that publishes the snapshot of the tick.
Publish(m, s) ==
    modem' = [registered_home |-> m.state = "REGISTERED_HOME",
              packet_attached |-> s.state = "ACTIVE"]

-----------------------------------------------------------------------------
(* engine_real_tick *)

TickRadioOff ==
    /\ phase = "idle"
    /\ ~radio_on
    /\ rrc' = RrcIdle
    /\ up' = UpTick(up, Connected)
    /\ Publish(mm, sm)
    /\ UNCHANGED <<mm, sm, requests, radio_on, ran, sec, ims, dl, phase, gnb,
                   budget>>

\* Steps 1b and 2: recovery from a lost link, then the MM and SM timers.
TickStart ==
    LET lost == /\ ran = "LOST"
                /\ mm.state = "REGISTERED_HOME" \/ sm.state = "ACTIVE"
        mm1 == IF lost
               THEN MmRequest(MmOnRadio(MmOnRadio(mm, FALSE), TRUE), "INITIAL")
               ELSE mm
        sm1 == IF lost THEN SmOnRadioOff(SmClearRuntime(sm)) ELSE sm
        mm2 == IF rrc.waiting /\ ~lost THEN mm1 ELSE MmTick(mm1)
        r == SmTick(sm1, mm2.state = "REGISTERED_HOME")
    IN  /\ phase = "idle"
        /\ radio_on
        /\ mm' = mm2
        /\ sm' = r.sm
        /\ requests' = Sent(r.tx)
        /\ IF lost THEN ForgetNetworkContext ELSE UNCHANGED <<rrc, sec, up, ims>>
        /\ phase' = "drain"
        /\ UNCHANGED <<radio_on, ran, dl, modem, gnb, budget>>

\* Step 3 takes one PDU off the queue.  All but RRCSetup, Registration Reject,
\* Authentication Request and Security Mode Command come protected: without
\* an active security context decode_and_process_nas drops them.
Receive(type) ==
    /\ phase = "drain"
    /\ dl # <<>>
    /\ Head(dl).type = type
    /\ dl' = Tail(dl)
    /\ UNCHANGED <<radio_on, ran, phase, modem, gnb, budget>>

Protected == {"regAccept", "pduAccept", "pduReject", "releaseCommand"}

DropProtected ==
    \E type \in Protected :
        /\ Receive(type)
        /\ ~sec.active
        /\ UNCHANGED <<mm, sm, requests, rrc, sec, up, ims>>

HandleRrcSetup ==
    LET request == IF mm.reg_type = "INITIAL" THEN "regInitial" ELSE "regUpdate"
        asked == mm.state = "REGISTERING" /\ mm.register_requested
    IN  /\ Receive("rrcSetup")
        /\ requests' = Sent(IF asked THEN {Request(request)} ELSE {})
        /\ rrc' = [state |-> "CONNECTED", setup_left |-> 0,
                   window_left |-> CoreWindow, waiting |-> TRUE]
        /\ UNCHANGED <<mm, sm, sec, up, ims>>

\* A challenge whose AUTN checks out; a bad one only causes a failure message.
HandleAuthenticationRequest ==
    /\ Receive("authRequest")
    /\ sec' = [sec EXCEPT !.pending = TRUE]
    /\ requests' = Sent({Request("authResponse")})
    /\ UNCHANGED <<mm, sm, rrc, up, ims>>

HandleSecurityModeCommand ==
    /\ Receive("securityModeCommand")
    /\ IF sec.active \/ sec.pending
       THEN /\ sec' = [sec EXCEPT !.active = TRUE, !.pending = FALSE]
            /\ requests' = Sent({Request("securityModeComplete")})
       ELSE UNCHANGED <<sec, requests>>
    /\ UNCHANGED <<mm, sm, rrc, up, ims>>

HandleRegistrationAccept ==
    /\ Receive("regAccept")
    /\ sec.active
    /\ mm' = MmOnRegistrationAccept(mm)
    /\ rrc' = [rrc EXCEPT !.waiting = FALSE, !.window_left = 0]
    /\ sec' = [sec EXCEPT !.guti = TRUE]
    /\ UNCHANGED <<sm, requests, up, ims>>

HandleRegistrationReject ==
    /\ Receive("regReject")
    /\ mm' = MmOnRegistrationReject(mm, Head(dl).temporary)
    /\ rrc' = [rrc EXCEPT !.waiting = FALSE, !.window_left = 0]
    /\ UNCHANGED <<sm, requests, sec, up, ims>>

ForIms(msg) ==
    ims.establishing /\ msg.psi = ims.psi /\ msg.pti = ims.pti

HandlePduAccept ==
    LET msg == Head(dl)
    IN  /\ Receive("pduAccept")
        /\ sec.active
        /\ CASE ForIms(msg) ->
                  /\ ims' = [ims EXCEPT !.establishing = FALSE, !.active = TRUE]
                  /\ up' = UpBind(up, msg.psi, FALSE, Connected)
                  /\ UNCHANGED sm
             [] ~ForIms(msg) /\ sm.state = "ESTABLISHING" ->
                  /\ sm' = SmOnEstablished([sm EXCEPT !.session_id = msg.psi])
                  /\ up' = UpBind(up, OrOne(msg.psi), TRUE, Connected)
                  /\ UNCHANGED ims
             [] OTHER -> UNCHANGED <<sm, up, ims>>
        /\ UNCHANGED <<mm, requests, rrc, sec>>

HandlePduReject ==
    LET msg == Head(dl)
        r == SmOnReject(sm, msg.temporary)
    IN  /\ Receive("pduReject")
        /\ sec.active
        /\ IF ForIms(msg)
           THEN /\ ims' = [ims EXCEPT !.establishing = FALSE,
                                      !.requested = FALSE, !.active = FALSE]
                /\ UNCHANGED <<sm, requests>>
           ELSE /\ sm' = r.sm
                /\ requests' = Sent(r.tx)
                /\ UNCHANGED ims
        /\ UNCHANGED <<mm, rrc, sec, up>>

\* Mutant: the user plane is unbound but SM is not told.
ReleaseUnbindsOnly ==
    /\ Receive("releaseCommand")
    /\ sec.active
    /\ IF ims.active /\ Head(dl).psi = ims.psi
       THEN /\ ims' = [ims EXCEPT !.active = FALSE, !.requested = FALSE,
                                  !.establishing = FALSE]
            /\ up' = UpUnbindPsi(up, ims.psi)
       ELSE up' = UpUnbind(up) /\ UNCHANGED ims
    /\ UNCHANGED <<mm, sm, requests, rrc, sec>>

HandleReleaseCommand ==
    /\ Receive("releaseCommand")
    /\ sec.active
    /\ IF ims.active /\ Head(dl).psi = ims.psi
       THEN /\ ims' = [ims EXCEPT !.active = FALSE, !.requested = FALSE,
                                  !.establishing = FALSE]
            /\ up' = UpUnbindPsi(up, ims.psi)
            /\ UNCHANGED sm
       ELSE /\ up' = UpUnbind(up)
            /\ sm' = SmOnReleased(sm)
            /\ UNCHANGED ims
    /\ UNCHANGED <<mm, requests, rrc, sec>>

Drain ==
    \/ DropProtected
    \/ HandleRrcSetup
    \/ HandleAuthenticationRequest
    \/ HandleSecurityModeCommand
    \/ HandleRegistrationAccept
    \/ HandleRegistrationReject
    \/ HandlePduAccept
    \/ HandlePduReject
    \/ HandleReleaseCommand

\* Step 4.
AutoConnect(s) ==
    IF /\ mm.state = "REGISTERED_HOME" /\ s.state = "INACTIVE"
       /\ ~s.connect_requested /\ ~s.disconnect_requested
    THEN [s EXCEPT !.connect_requested = TRUE]
    ELSE s

\* Step 5.
SearchEnds(m) ==
    IF m.state = "SEARCHING" /\ Connected /\ ~rrc.waiting
    THEN MmTransitionToRegistering(m)
    ELSE m

\* Steps 5b and 5b-bis: when each of them sends its request.
SetupDue(m) == rrc.state = "IDLE" /\ Connected /\ m.register_requested

UpdateDue(m) ==
    /\ m.state = "REGISTERING" /\ m.register_requested /\ m.reg_type # "INITIAL"
    /\ rrc.state = "CONNECTED" /\ ~rrc.waiting

\* RRC after steps 5b and 5b-bis, then 5c, 5e and 5d, in the code's order.
RrcRequested(r, m) ==
    CASE SetupDue(m) -> [r EXCEPT !.state = "SETUP_REQUESTED",
                                  !.setup_left = RrcSetupTimeout]
      [] UpdateDue(m) -> [r EXCEPT !.waiting = TRUE, !.window_left = CoreWindow]
      [] OTHER -> r

RrcSetupExpires(r) ==
    IF r.state = "SETUP_REQUESTED" /\ r.setup_left = 0
    THEN [r EXCEPT !.state = "IDLE"]
    ELSE r

RrcWindowExpires(r, m) ==
    IF /\ r.waiting /\ r.state = "CONNECTED" /\ m.state = "REGISTERING"
       /\ r.window_left = 0
    THEN [r EXCEPT !.waiting = FALSE, !.state = "IDLE"]
    ELSE r

RrcLinkLost(r) ==
    IF Connected THEN r ELSE [r EXCEPT !.state = "IDLE", !.setup_left = 0]

\* A session id that is neither the host's nor in use.
FreePsi(psi) == psi # up.host_psi /\ up.sessions[psi] = "unused"

\* Mutant: the search for a free id starts at 1.
ImsPsiFromOne == {psi \in 1..MaxPsi : FreePsi(psi) /\ \A other \in 1..psi-1 : ~FreePsi(other)}

\* ue_engine_request_ims_pdu, which state_bridge_poll calls after the tick, takes
\* the first free id from 2 on, if there is one.
ImsPsi == {psi \in 2..MaxPsi : FreePsi(psi) /\ \A other \in 2..psi-1 : ~FreePsi(other)}

ImsDue(r) ==
    /\ ImsContext /\ mm.state = "REGISTERED_HOME" /\ sec.active
    /\ r.state = "CONNECTED"
    /\ ~ims.requested /\ ~ims.active /\ ~ims.establishing
    /\ ImsPsi # {}

ImsRequested ==
    [requested |-> TRUE, establishing |-> TRUE, active |-> FALSE,
     psi |-> CHOOSE psi \in ImsPsi : TRUE,
     pti |-> IF ims.pti \in {0, MaxPti} THEN 2 ELSE ims.pti + 1]

\* Steps 4 to 6 and the rest of state_bridge_poll.
TickTail ==
    LET m == SearchEnds(mm)
        s == AutoConnect(sm)
        r == RrcLinkLost(RrcWindowExpires(RrcSetupExpires(RrcRequested(rrc, m)), m))
    IN  /\ phase = "drain"
        /\ dl = <<>>
        /\ mm' = m
        /\ sm' = s
        /\ rrc' = r
        /\ up' = UpTick(up, Connected)
        /\ ims' = IF ImsDue(r) THEN ImsRequested ELSE ims
        /\ requests' =
              Sent({q \in {Request("rrcSetupRequest")} : SetupDue(m)}
                   \cup {q \in {Request("regUpdate")} : UpdateDue(m)}
                   \cup {q \in {SmRequest("estRequest", ims'.psi, ims'.pti)} : ImsDue(r)})
        /\ Publish(m, s)
        /\ phase' = "idle"
        /\ UNCHANGED <<radio_on, ran, sec, dl, gnb, budget>>

-----------------------------------------------------------------------------
(* The host's commands, as state_bridge.c passes them on *)

HostCommand(op) ==
    /\ phase = "idle"
    /\ op \in HostOps
    /\ budget.host > 0
    /\ budget' = [budget EXCEPT !.host = @ - 1]
    /\ UNCHANGED <<phase, modem>>

\* ue_engine_set_radio(on), but for what it does to MM and SM.
SetRadioOn ==
    /\ radio_on' = TRUE
    /\ ran' \in IF ran # "IDLE" THEN {ran}
                ELSE {"SEARCHING"} \cup {f \in {"IDLE"} : "startFails" \in Faults}
    /\ IF radio_on THEN UNCHANGED <<rrc, sec, up, ims>> ELSE ForgetNetworkContext
    /\ UNCHANGED <<requests, dl, gnb>>

MmRadioOn(m) ==
    LET on == MmOnRadio(m, TRUE)
    IN  IF on.state = "DEREGISTERED" THEN MmRequest(on, "INITIAL") ELSE on

SmRadioOn(s) == IF radio_on THEN s ELSE SmClearRuntime(s)

HostRadioOn ==
    /\ HostCommand(IF radio_on /\ ran # "IDLE" THEN "radioOnAgain" ELSE "radioOn")
    /\ SetRadioOn
    /\ mm' = MmRadioOn(mm)
    /\ sm' = SmRadioOn(sm)

\* state_bridge_request_connect.
HostConnect ==
    /\ HostCommand("connect")
    /\ IF radio_on
       THEN /\ sm' = SmRequestConnect(sm)
            /\ UNCHANGED <<mm, requests, radio_on, ran, rrc, sec, up, ims, dl, gnb>>
       ELSE /\ SetRadioOn
            /\ mm' = MmRequest(MmRadioOn(mm), "INITIAL")
            /\ sm' = SmRequestConnect(SmRadioOn(sm))

\* Mutant: the downlink queue survives the radio.
SetRadioOffKeepsQueue(s) ==
    /\ radio_on' = FALSE
    /\ ran' = "IDLE"
    /\ requests' = {}
    /\ gnb' = [rrc |-> FALSE, amf |-> FALSE, sessions |-> {}]
    /\ ForgetNetworkContext
    /\ mm' = MmOnRadio(mm, FALSE)
    /\ sm' = SmOnRadioOff(SmClearRuntime(s))
    /\ UNCHANGED dl

\* ue_engine_set_radio(off): a deregistration request goes out first when the
\* UE takes itself for registered; the stopped transport hears no more answers.
SetRadioOff(s) ==
    LET detach == /\ Connected /\ sec.active /\ sec.guti
                  /\ mm.state = "REGISTERED_HOME" \/ sm.state = "ACTIVE"
    IN  /\ radio_on' = FALSE
        /\ ran' = "IDLE"
        /\ dl' = <<>>
        /\ requests' = {}
        /\ gnb' = [rrc |-> FALSE, amf |-> gnb.amf /\ ~detach, sessions |-> {}]
        /\ ForgetNetworkContext
        /\ mm' = MmOnRadio(mm, FALSE)
        /\ sm' = SmOnRadioOff(SmClearRuntime(s))

HostRadioOff == HostCommand("radioOff") /\ SetRadioOff(sm)

\* state_bridge_request_disconnect.
HostDisconnect ==
    HostCommand("disconnect") /\ SetRadioOff(SmRequestDisconnect(sm))

\* state_bridge_request_register, and the updates the engine offers.
HostRegister ==
    /\ \/ HostCommand("register") /\ mm' = MmRequest(mm, "INITIAL")
       \/ HostCommand("update") /\ mm' \in {MmRequest(mm, "MOBILITY"),
                                            MmRequest(mm, "PERIODIC")}
    /\ UNCHANGED <<sm, requests, radio_on, ran, rrc, sec, up, ims, dl, gnb>>

-----------------------------------------------------------------------------
(* The RLS receive thread, the network and the clock *)

mainVars == <<mm, sm, radio_on, rrc, sec, up, ims, phase, modem>>

RanAcquire ==
    /\ ran \in {"SEARCHING", "LOST"}
    /\ ran' = "CONNECTED"
    /\ UNCHANGED <<mainVars, requests, dl, gnb, budget>>

\* The serving cell times out; the gNB has dropped the UE's radio context.
RanLose ==
    /\ Connected
    /\ budget.losses > 0
    /\ ran' = "LOST"
    /\ requests' = {}
    /\ gnb' = [gnb EXCEPT !.rrc = FALSE, !.sessions = {}]
    /\ budget' = [budget EXCEPT !.losses = @ - 1]
    /\ UNCHANGED <<mainVars, dl>>

\* Mutant: the queue takes one message more than it holds.
DeliverOneMore(msg) ==
    /\ Connected
    /\ msg.type \in Answers
    /\ dl' = IF Len(dl) <= NasQueueSize THEN Append(dl, msg) ELSE dl
    /\ UNCHANGED <<mainVars, ran, budget>>

\* handle_pdu_transmission: a PDU that finds the queue full is dropped.
Deliver(msg) ==
    /\ Connected
    /\ msg.type \in Answers
    /\ dl' = IF Len(dl) < NasQueueSize THEN Append(dl, msg) ELSE dl
    /\ UNCHANGED <<mainVars, ran, budget>>

\* The answers a request may get, each with what the network then keeps.
Replies(q) ==
    LET reply(type, temporary, g) ==
            [msg |-> Message(type, q.psi, q.pti, temporary), gnb |-> g]
        rejects(type, g) == {reply(type, t, g) : t \in BOOLEAN}
        registered == [gnb EXCEPT !.amf = TRUE]
        bound == [gnb EXCEPT !.sessions = @ \cup {q.psi}]
    IN  CASE q.type = "rrcSetupRequest" ->
                {reply("rrcSetup", FALSE, [gnb EXCEPT !.rrc = TRUE])}
          [] q.type = "regInitial" ->
                {reply("authRequest", FALSE, gnb)}
                    \cup rejects("regReject", [gnb EXCEPT !.amf = FALSE])
          [] q.type = "regUpdate" ->
                {reply("regAccept", FALSE, registered)}
                    \cup rejects("regReject", [gnb EXCEPT !.amf = FALSE])
          [] q.type = "authResponse" ->
                {reply("securityModeCommand", FALSE, gnb)}
          [] q.type = "securityModeComplete" ->
                {reply("regAccept", FALSE, registered)}
          [] q.type = "estRequest" ->
                {reply("pduAccept", FALSE, bound)} \cup rejects("pduReject", gnb)
          [] OTHER ->
                {reply("releaseCommand", FALSE, [gnb EXCEPT !.sessions = @ \ {q.psi}])}

NetAnswer(type) ==
    \E q \in {x \in requests : x.type = type} : \E a \in Replies(q) :
        /\ Deliver(a.msg)
        /\ gnb' = a.gnb
        /\ \/ requests' = requests \ {q}
           \/ "dup" \in Faults /\ requests' = requests

\* The network releases a session on its own.
NetRelease ==
    \E psi \in gnb.sessions :
        /\ Deliver(Message("releaseCommand", psi, 0, FALSE))
        /\ gnb' = [gnb EXCEPT !.sessions = @ \ {psi}]
        /\ UNCHANGED requests

NetLose ==
    /\ "lose" \in Faults
    /\ \E q \in requests : requests' = requests \ {q}
    /\ UNCHANGED <<mainVars, ran, dl, gnb, budget>>

Less(n) == IF n > 0 THEN n - 1 ELSE n

\* Time passes between two ticks.  It does not pass over an answer that is on
\* its way, nor over a cell that is there to be found, unless Faults says so.
Elapse ==
    /\ phase = "idle"
    /\ "late" \in Faults \/ (requests = {} /\ dl = <<>>)
    /\ "noCell" \in Faults \/ ran # "SEARCHING"
    /\ "outage" \in Faults \/ ran # "LOST"
    /\ mm' = MmElapse(mm)
    /\ sm' = SmElapse(sm)
    /\ rrc' = [rrc EXCEPT !.setup_left = Less(@), !.window_left = Less(@)]
    /\ UNCHANGED <<requests, radio_on, ran, sec, up, ims, dl, phase, modem, gnb,
                   budget>>

-----------------------------------------------------------------------------

EngineTick == TickRadioOff \/ TickStart \/ Drain \/ TickTail

Host == HostRadioOn \/ HostRadioOff \/ HostConnect \/ HostDisconnect \/ HostRegister

RequestKinds == MmRequestKinds \cup {"estRequest", "relRequest"}

EngineNext ==
    \/ EngineTick
    \/ Host
    \/ RanAcquire
    \/ RanLose
    \/ \E type \in RequestKinds : NetAnswer(type)
    \/ NetRelease
    \/ NetLose
    \/ Elapse

EngineSpec == EngineInit /\ [][EngineNext]_engineVars

\* The main loop keeps ticking, a cell that is there is found and the network
\* answers what it is asked.  Time goes on however busy the main loop is: that
\* is strong fairness, as a tick in progress disables Elapse for a moment.  The
\* host owes nothing.
EngineFairSpec ==
    /\ EngineSpec
    /\ WF_engineVars(EngineTick)
    /\ SF_engineVars(Elapse)
    /\ WF_engineVars(RanAcquire)
    /\ \A type \in RequestKinds : WF_engineVars(NetAnswer(type))

-----------------------------------------------------------------------------
(* Properties *)

\* Every component of the engine's context keeps to its type.
EngineTypeOK ==
    /\ mm \in MmType
    /\ sm \in SmType
    /\ requests \subseteq RequestType
    /\ radio_on \in BOOLEAN
    /\ ran \in RanStates
    /\ rrc \in RrcType
    /\ sec \in SecType
    /\ up \in UpType
    /\ ims \in ImsType
    /\ dl \in Seq(MessageType) /\ Len(dl) <= NasQueueSize
    /\ phase \in {"idle", "drain"}
    /\ modem \in ModemType
    /\ gnb \in GnbType
    /\ budget \in BudgetType

\* The host is never told that packet service is attached while it is told that
\* the modem is not registered: whatever order accepts, rejects, releases, link
\* losses and host commands come in, state_bridge_poll copies SM ACTIVE only
\* together with MM REGISTERED_HOME.
AttachedOnlyIfRegistered == modem.packet_attached => modem.registered_home

\* An active host session has a user-plane binding to carry its packets
\* (engine_process_nas_event moves SM and binds or unbinds in separate calls).
ActiveIsBound ==
    sm.state = "ACTIVE" => up.host_psi # 0 /\ up.sessions[up.host_psi] = "host"

\* The IMS session keeps a PDU session id of its own, bound as internal: the
\* host's traffic and the SIP traffic never share one (ue_engine_request_ims_pdu
\* picks a free id, and the accept may come after the host's changed).
ImsIsPrivate ==
    ims.active => up.sessions[ims.psi] = "internal" /\ ims.psi # up.host_psi

\* Between two ticks of a UE whose radio is off nothing of the old registration
\* is left: no MM or SM procedure, RRC connection, security context, IMS session
\* or downlink message survives ue_engine_set_radio(off).
RadioOffIsQuiet ==
    ~radio_on =>
        /\ mm.state = "POWERED_OFF" /\ sm.state = "INACTIVE"
        /\ rrc = RrcIdle /\ sec = SecNone /\ ran = "IDLE" /\ dl = <<>>
        /\ ~ims.requested /\ ~ims.establishing /\ ~ims.active

\* The link the RAN transport promises, as the engine sees it: no tick of the
\* receive thread is under way when the radio goes off.
Link == INSTANCE RanLink
            WITH link <- ran, late <- FALSE, nas <- dl, QueueSize <- NasQueueSize

\* The engine meets no other link than the one RanTransport implements: ran.state
\* and the NAS queue move only as start, stop, a found or a lost cell, an arriving
\* and a dequeued message move them (ue_engine_set_radio, engine_real_tick).
EngineKeepsLink == Link!LinkSpec

\* With a prompt network that refuses nothing, a radio that is on brings
\* service: the UE registers, its session is established and bound, and with an
\* IMS context the IMS session is up too.
InService ==
    /\ mm.state = "REGISTERED_HOME" /\ sm.state = "ACTIVE"
    /\ up.state = "ACTIVE" /\ modem.packet_attached
    /\ ImsContext => ims.active

ServiceComesUp == []<>(InService \/ ~radio_on \/ ran = "IDLE")

=============================================================================
