------------------------- MODULE EngineSessionProofs -------------------------
(***************************************************************************)
(* The two sessions of the engine, the host's and the IMS one, share the   *)
(* user-plane table and the downlink.  For every value of the constants,   *)
(* as long as no answer of the network comes twice where the IMS context   *)
(* is configured: the host's session is shown active only while its entry  *)
(* in the table is, and the IMS session is never taken for it.             *)
(***************************************************************************)
EXTENDS UeEngineProofs

-----------------------------------------------------------------------------
(* The sessions: the host's has id 1, the IMS session another, and no answer *)
(* to one is taken for an answer to the other. *)

ImsRequest(q) == q.type = "estRequest" /\ q.psi > 1

ImsAnswer(msg) == msg.type \in {"pduAccept", "pduReject"} /\ msg.psi > 1

\* The request for the IMS session and its answer: there is one of them at most,
\* and the engine waits for it.  An answer the engine has stopped to wait for was
\* in the queue when the link was found lost: the drain that follows gets to it
\* while SM is inactive.
ImsPending ==
    /\ \A q \in requests :
          ImsRequest(q) => ims.establishing /\ q.psi = ims.psi /\ q.pti = ims.pti
    /\ \A q \in requests, i \in 1..Len(dl) : ~(ImsRequest(q) /\ ImsAnswer(dl[i]))
    /\ \A i, j \in 1..Len(dl) : ImsAnswer(dl[i]) /\ ImsAnswer(dl[j]) => i = j
    /\ \A i \in 1..Len(dl) :
          ImsAnswer(dl[i]) =>
             ForIms(dl[i]) \/ (phase = "drain" /\ sm.state = "INACTIVE")

SessionsInv ==
    /\ ims.psi # 1
    /\ ims.establishing \/ ims.active => ims.psi > 1 /\ ImsContext
    /\ ~(ims.establishing /\ ims.active)
    /\ up.host_psi \in {0, 1}
    /\ Connected \/ requests = {}
    /\ ImsPending
    /\ ActiveIsBound
    /\ ImsIsPrivate


\* What ue_up.c does to the host's id 1 and to any other, as long as the host has
\* no session but that.
LEMMA UpBindFacts ==
  ASSUME NEW u \in UpType, u.host_psi \in {0, 1}, NEW c \in BOOLEAN
  PROVE  /\ UpBind(u, 1, TRUE, c).host_psi = 1
         /\ UpBind(u, 1, TRUE, c).sessions = [u.sessions EXCEPT ![1] = "host"]
         /\ \A psi \in 2..MaxPsi :
               /\ UpBind(u, psi, FALSE, c).host_psi = u.host_psi
               /\ UpBind(u, psi, FALSE, c).sessions = [u.sessions EXCEPT ![psi] = "internal"]
         /\ UpTick(u, c).host_psi = u.host_psi /\ UpTick(u, c).sessions = u.sessions
  <1>1. /\ UpBind(u, 1, TRUE, c).host_psi = 1
        /\ UpBind(u, 1, TRUE, c).sessions = [u.sessions EXCEPT ![1] = "host"]
    BY DEF UpBind
  <1>2. ASSUME NEW psi \in 2..MaxPsi
        PROVE  /\ UpBind(u, psi, FALSE, c).host_psi = u.host_psi
               /\ UpBind(u, psi, FALSE, c).sessions = [u.sessions EXCEPT ![psi] = "internal"]
    BY DEF UpBind
  <1>3. UpTick(u, c).host_psi = u.host_psi /\ UpTick(u, c).sessions = u.sessions
    BY DEF UpTick, UpType
  <1> QED
    BY <1>1, <1>2, <1>3, ZenonT(30)

\* Unbinding takes the host its session, or leaves it alone.
LEMMA UpUnbindFacts ==
  ASSUME NEW u \in UpType, u.host_psi \in {0, 1}
  PROVE  /\ UpUnbind(u).host_psi = 0
         /\ \A k \in 2..MaxPsi : UpUnbind(u).sessions[k] = u.sessions[k]
         /\ \A psi \in 0..MaxPsi : psi # 1 =>
               /\ UpUnbindPsi(u, psi).host_psi = u.host_psi
               /\ UpUnbindPsi(u, psi).sessions[1] = u.sessions[1]
  <1>0. /\ u.sessions \in [1..MaxPsi -> {"unused", "host", "internal"}]
        /\ 1 \in 1..MaxPsi /\ 2..MaxPsi \subseteq 1..MaxPsi /\ MaxPsi \in Nat
    BY UpAssumption DEF UpType
  <1>1. PICK v : v = UpUnbindPsi(u, u.host_psi)
    OBVIOUS
  <1>2. /\ v \in UpType /\ v.host_psi = 0
        /\ \A k \in 2..MaxPsi : v.sessions[k] = u.sessions[k]
    <2>0. v \in UpType
      BY <1>1, UpUnbindPsiType DEF UpType
    <2>1. CASE u.host_psi = 0
      <3>1. v = u
        BY <2>1, <1>1 DEF UpUnbindPsi
      <3> QED
        BY <3>1, <2>0, <2>1
    <2>2. CASE u.host_psi = 1
      <3>1. v = [state |-> "IDLE", host_psi |-> 0,
                 sessions |-> [u.sessions EXCEPT ![1] = "unused"]]
        BY <2>2, <1>0, <1>1 DEF UpUnbindPsi
      <3> QED
        BY <3>1, <2>0, <1>0
    <2> QED
      BY <2>1, <2>2
  <1>3. UpUnbind(u) = [v EXCEPT !.state = "IDLE"]
    BY <1>1 DEF UpUnbind
  <1>4. UpUnbind(u).host_psi = v.host_psi /\ UpUnbind(u).sessions = v.sessions
    BY <1>2, <1>3 DEF UpType
  <1>5. ASSUME NEW psi \in 0..MaxPsi, psi # 1
        PROVE  /\ UpUnbindPsi(u, psi).host_psi = u.host_psi
               /\ UpUnbindPsi(u, psi).sessions[1] = u.sessions[1]
    <2>1. CASE psi = 0
      BY <2>1 DEF UpUnbindPsi
    <2>2. CASE psi # 0
      <3>1. psi \in 1..MaxPsi /\ psi # u.host_psi
        BY <2>2, <1>5, <1>0
      <3>2. UpUnbindPsi(u, psi) = [u EXCEPT !.sessions[psi] = "unused"]
        BY <3>1 DEF UpUnbindPsi
      <3> QED
        BY <3>1, <3>2, <1>0, <1>5 DEF UpType
    <2> QED
      BY <2>1, <2>2
  <1> QED
    BY <1>2, <1>4, <1>5

\* Which of SM's functions make it active, and which keep it inactive.
LEMMA SmActivity ==
  ASSUME NEW s \in SmType
  PROVE  /\ SmOnRadioOff(s).state = "INACTIVE"
         /\ SmOnReleased(s).state # "ACTIVE"
         /\ s.state = "INACTIVE" => SmOnReleased(s).state = "INACTIVE"
         /\ \A t \in BOOLEAN : /\ SmOnReject(s, t).sm.state = "ACTIVE" => s.state = "ACTIVE"
                               /\ s.state = "INACTIVE" => SmOnReject(s, t) = SmQuiet(s)
         /\ SmElapse(s).state = s.state /\ SmRequestConnect(s).state = s.state
         /\ AutoConnect(s).state = s.state
  BY DEF SmOnRadioOff, SmOnReleased, SmEnterInactive, SmOnReject, SmQuiet, SmStartEstablish,
         SmAllocPti, SmElapse, SmRequestConnect, AutoConnect, SmType

\* ue_sm_tick activates nothing, and leaves an inactive context that nobody asks
\* anything of inactive.
LEMMA SmTickActivity ==
  ASSUME NEW s, SmGood(s), NEW reg \in BOOLEAN
  PROVE  /\ SmTick(s, reg).sm.state = "ACTIVE" => s.state = "ACTIVE"
         /\ s.state = "INACTIVE" /\ ~s.connect_requested /\ ~s.disconnect_requested =>
               SmTick(s, reg).sm.state = "INACTIVE"
  <1>0. s \in SmType
    BY DEF SmGood
  <1>1. PICK d : d = SmServeDisconnect(s)
    OBVIOUS
  <1>2. PICK c : c = SmServeConnect(d.sm)
    OBVIOUS
  <1>3. PICK g : g = CASE c.sm.state = "ESTABLISHING" -> SmGuardEstablish(c.sm)
                       [] c.sm.state = "RELEASING" -> SmQuiet(SmGuardRelease(c.sm))
                       [] OTHER -> SmQuiet(c.sm)
    OBVIOUS
  <1>4. SmTick(s, reg).sm = IF reg THEN g.sm ELSE SmOnRadioOff(s)
    BY <1>1, <1>2, <1>3 DEF SmTick, SmQuiet
  <1>5. /\ SmGood(d.sm) /\ d.sm \in SmType
        /\ d.sm.state = "ACTIVE" => s.state = "ACTIVE"
        /\ ~s.disconnect_requested => d.sm = s
    <2>1. SmGood(d.sm) /\ d.sm \in SmType
      BY <1>1, SmServeDisconnectGood DEF SmResultGood, SmGood
    <2>2. CASE ~s.disconnect_requested
      BY <2>1, <2>2, <1>1, ZenonT(30) DEF SmServeDisconnect, SmQuiet
    <2>3. CASE s.disconnect_requested /\ s.state = "ACTIVE"
      BY <2>1, <2>3
    <2>4. CASE s.disconnect_requested /\ s.state # "ACTIVE"
      <3>1. d.sm = SmEnterInactive(s, FALSE, TRUE)
        BY <2>4, <1>1, ZenonT(30) DEF SmServeDisconnect, SmQuiet
      <3> QED
        BY <3>1, <2>1, <2>4, <1>0, SmEnterInactiveGood, ZenonT(30)
    <2> QED
      BY <2>2, <2>3, <2>4
  <1>6. /\ SmGood(c.sm) /\ c.sm \in SmType
        /\ c.sm.state = "ACTIVE" => d.sm.state = "ACTIVE"
        /\ ~d.sm.connect_requested => c.sm = d.sm
    <2>1. SmGood(c.sm) /\ c.sm \in SmType
      BY <1>2, <1>5, SmServeConnectGood DEF SmResultGood, SmGood
    <2>2. CASE ~(d.sm.connect_requested /\ d.sm.state = "INACTIVE")
      BY <2>1, <2>2, <1>2 DEF SmServeConnect, SmQuiet
    <2>3. CASE d.sm.connect_requested /\ d.sm.state = "INACTIVE"
      <3>1. PICK e : e = [d.sm EXCEPT !.connect_requested = FALSE]
        BY ZenonT(30)
      <3>2. c = SmStartEstablish(e) /\ e \in SmType
        BY <3>1, <2>3, <1>2, <1>5, ZenonT(30) DEF SmServeConnect, SmType
      <3>3. SmAllocPti(e) \in SmType
        BY <3>2, SmAllocPtiGood
      <3>4. SmStartEstablish(e).sm.state = "ESTABLISHING"
        BY <3>3, ZenonT(30) DEF SmStartEstablish, SmType
      <3> QED
        BY <3>2, <3>4, <2>1, <2>3
    <2> QED
      BY <2>2, <2>3
  <1>7. g.sm.state = "ACTIVE" => c.sm.state = "ACTIVE"
    <2>1. CASE c.sm.state = "ESTABLISHING"
      <3>1. g = SmGuardEstablish(c.sm)
        BY <2>1, <1>3
      <3>2. SmEnterInactive(c.sm, TRUE, TRUE) \in SmType
            /\ SmEnterInactive(c.sm, TRUE, TRUE).state = "INACTIVE"
        BY <1>6, SmEnterInactiveGood, ZenonT(30) DEF SmGood
      <3>3. SmGuardEstablish(c.sm).sm.state \in {"ESTABLISHING", "INACTIVE"}
        BY <3>2, <2>1, <1>6, ZenonT(30) DEF SmGuardEstablish, SmQuiet, SmType
      <3> QED
        BY <3>1, <3>3
    <2>2. CASE c.sm.state = "RELEASING"
      <3>1. g.sm = SmGuardRelease(c.sm)
        BY <2>2, <1>3 DEF SmQuiet
      <3>2. SmEnterInactive(c.sm, TRUE, TRUE).state = "INACTIVE"
        BY <1>6, SmEnterInactiveGood, ZenonT(30)
      <3>3. SmGuardRelease(c.sm).state \in {"RELEASING", "INACTIVE"}
        BY <3>2, <2>2, <1>6, ZenonT(30) DEF SmGuardRelease, SmType
      <3> QED
        BY <3>1, <3>3
    <2>3. CASE c.sm.state \notin {"ESTABLISHING", "RELEASING"}
      BY <2>3, <1>3 DEF SmQuiet
    <2> QED
      BY <2>1, <2>2, <2>3
  <1>8. ~reg => SmTick(s, reg).sm.state = "INACTIVE"
    BY <1>0, <1>4, SmActivity
  <1>9. ASSUME s.state = "INACTIVE", ~s.connect_requested, ~s.disconnect_requested, reg
        PROVE  SmTick(s, reg).sm.state = "INACTIVE"
    <2>1. d.sm = s
      BY <1>5, <1>9
    <2>2. c.sm = s
      BY <2>1, <1>6, <1>9
    <2>3. g.sm = s
      BY <2>2, <1>3, <1>9 DEF SmQuiet
    <2> QED
      BY <2>3, <1>4, <1>9
  <1> QED
    BY <1>4, <1>5, <1>6, <1>7, <1>8, <1>9

\* Sending anything but a request for the IMS session.
LEMMA SentOthers ==
  ASSUME NEW msgs, \A q \in msgs : ~ImsRequest(q), requests' = Sent(msgs)
  PROVE  /\ \A q \in requests' : ImsRequest(q) => q \in requests
         /\ Connected \/ requests' = requests
  BY DEF Sent

\* Requests of MM and of SM are not for the IMS session.
LEMMA NotForIms ==
  /\ \A q \in SmRequestType : ~ImsRequest(q)
  /\ \A type \in MmRequestKinds : ~ImsRequest(Request(type))
  BY DEF ImsRequest, SmRequestType, Request, SmRequest, MmRequestKinds

\* One PDU less in the queue, and nothing new asked for the IMS session.
LEMMA TailPending ==
  ASSUME EngineInv, ImsPending, NEW type, Receive(type),
         \A q \in requests' : ImsRequest(q) => q \in requests,
         ims'.establishing = ims.establishing, ims'.psi = ims.psi, ims'.pti = ims.pti,
         sm.state = "INACTIVE" => sm'.state = "INACTIVE"
  PROVE  ImsPending'
  <1>1. /\ dl \in Seq(MessageType) /\ dl # <<>> /\ dl' = Tail(dl) /\ phase' = phase
    BY DEF EngineInv, Receive
  <1>2. \A i \in 1..Len(dl') : i + 1 \in 1..Len(dl) /\ dl'[i] = dl[i + 1]
    BY <1>1
  <1>3. \A q \in requests' :
           ImsRequest(q) => ims'.establishing /\ q.psi = ims'.psi /\ q.pti = ims'.pti
    BY DEF ImsPending
  <1>4. \A q \in requests', i \in 1..Len(dl') : ~(ImsRequest(q) /\ ImsAnswer(dl'[i]))
    BY <1>2 DEF ImsPending
  <1>5. \A i, j \in 1..Len(dl') : ImsAnswer(dl'[i]) /\ ImsAnswer(dl'[j]) => i = j
    <2> SUFFICES ASSUME NEW i \in 1..Len(dl'), NEW j \in 1..Len(dl'),
                        ImsAnswer(dl'[i]), ImsAnswer(dl'[j])
                 PROVE  i = j
      OBVIOUS
    <2>1. i + 1 = j + 1
      BY <1>2 DEF ImsPending
    <2> QED
      BY <2>1
  <1>6. ASSUME NEW i \in 1..Len(dl'), ImsAnswer(dl'[i])
        PROVE  \/ ims'.establishing /\ dl'[i].psi = ims'.psi /\ dl'[i].pti = ims'.pti
               \/ phase' = "drain" /\ sm'.state = "INACTIVE"
    <2>1. ForIms(dl[i + 1]) \/ (phase = "drain" /\ sm.state = "INACTIVE")
      BY <1>2, <1>6 DEF ImsPending
    <2> QED
      BY <2>1, <1>1, <1>2 DEF ForIms
  <1> QED
    BY <1>3, <1>4, <1>5, <1>6 DEF ImsPending, ForIms

\* The answer the engine waits for: with it nothing is pending any more.
LEMMA AnswerTaken ==
  ASSUME EngineInv, ImsPending, NEW type, Receive(type), ImsAnswer(Head(dl)),
         requests' \subseteq requests
  PROVE  ImsPending'
  <1>1. /\ dl \in Seq(MessageType) /\ dl # <<>> /\ dl' = Tail(dl) /\ phase' = phase
    BY DEF EngineInv, Receive
  <1>2. \A i \in 1..Len(dl') : i + 1 \in 1..Len(dl) /\ dl'[i] = dl[i + 1] /\ i + 1 # 1
    BY <1>1
  <1>3. 1 \in 1..Len(dl) /\ Head(dl) = dl[1]
    BY <1>1
  <1>4. \A i \in 1..Len(dl') : ~ImsAnswer(dl'[i])
    BY <1>2, <1>3 DEF ImsPending
  <1>5. \A q \in requests' : ~ImsRequest(q)
    BY <1>3 DEF ImsPending
  <1> QED
    BY <1>4, <1>5 DEF ImsPending

\* A PDU that concerns neither session.
LEMMA DrainSessions ==
  ASSUME EngineInv, SessionsInv, NEW type, Receive(type),
         \A q \in requests' : ImsRequest(q) => q \in requests,
         Connected \/ requests' = requests, UNCHANGED <<sm, up, ims>>
  PROVE  SessionsInv'
  <1>1. ImsPending'
    BY TailPending DEF SessionsInv
  <1>2. ran' = ran
    BY DEF Receive
  <1> QED
    BY <1>1, <1>2 DEF SessionsInv, ActiveIsBound, ImsIsPrivate, Connected

\* MM's and RRC's part of the drain loop.
LEMMA DrainOthersSessions ==
  ASSUME EngineInv, SessionsInv,
         DropProtected \/ HandleRrcSetup \/ HandleAuthenticationRequest
         \/ HandleSecurityModeCommand \/ HandleRegistrationAccept
         \/ HandleRegistrationReject
  PROVE  SessionsInv'
  <1>0. ASSUME NEW msgs, msgs \subseteq {Request(type) : type \in MmRequestKinds},
               requests' = Sent(msgs)
        PROVE  /\ \A q \in requests' : ImsRequest(q) => q \in requests
               /\ Connected \/ requests' = requests
    <2>1. \A q \in msgs : ~ImsRequest(q)
      BY <1>0, NotForIms
    <2> QED
      BY <2>1, <1>0, SentOthers
  <1>a. {"regInitial", "regUpdate", "authResponse", "securityModeComplete"}
           \subseteq MmRequestKinds
    BY DEF MmRequestKinds
  <1>1. CASE DropProtected
    BY <1>1, DrainSessions DEF DropProtected
  <1>2. CASE HandleRrcSetup
    <2>1. PICK msgs : /\ msgs \subseteq {Request(type) : type \in MmRequestKinds}
                      /\ requests' = Sent(msgs)
      BY <1>2, <1>a DEF HandleRrcSetup
    <2>2. Receive("rrcSetup") /\ UNCHANGED <<sm, up, ims>>
      BY <1>2 DEF HandleRrcSetup
    <2> QED
      BY <2>1, <2>2, <1>0, DrainSessions
  <1>3. CASE HandleAuthenticationRequest
    <2>1. PICK msgs : /\ msgs \subseteq {Request(type) : type \in MmRequestKinds}
                      /\ requests' = Sent(msgs)
      BY <1>3, <1>a DEF HandleAuthenticationRequest
    <2>2. Receive("authRequest") /\ UNCHANGED <<sm, up, ims>>
      BY <1>3 DEF HandleAuthenticationRequest
    <2> QED
      BY <2>1, <2>2, <1>0, DrainSessions
  <1>4. CASE HandleSecurityModeCommand
    <2>1. \/ requests' = requests
          \/ \E msgs : /\ msgs \subseteq {Request(type) : type \in MmRequestKinds}
                       /\ requests' = Sent(msgs)
      BY <1>4, <1>a DEF HandleSecurityModeCommand
    <2>2. Receive("securityModeCommand") /\ UNCHANGED <<sm, up, ims>>
      BY <1>4 DEF HandleSecurityModeCommand
    <2>3. /\ \A q \in requests' : ImsRequest(q) => q \in requests
          /\ Connected \/ requests' = requests
      BY <2>1, <1>0
    <2> QED
      BY <2>2, <2>3, DrainSessions
  <1>5. CASE HandleRegistrationAccept
    BY <1>5, DrainSessions DEF HandleRegistrationAccept
  <1>6. CASE HandleRegistrationReject
    BY <1>6, DrainSessions DEF HandleRegistrationReject
  <1> QED
    BY <1>1, <1>2, <1>3, <1>4, <1>5, <1>6

\* The facts about the sessions that a step with a message needs.
LEMMA SessionFacts ==
  ASSUME EngineInv, SessionsInv
  PROVE  /\ sm \in SmType /\ up \in UpType /\ ims \in ImsType
         /\ up.host_psi \in {0, 1} /\ Connected \in BOOLEAN
         /\ ims.establishing \in BOOLEAN /\ ims.active \in BOOLEAN
         /\ ims.psi \in 0..MaxPsi /\ ims.psi # 1
         /\ ims.establishing \/ ims.active => ims.psi \in 2..MaxPsi
         /\ ~(ims.establishing /\ ims.active)
         /\ 1 \in 1..MaxPsi /\ 2..MaxPsi \subseteq 1..MaxPsi
         /\ up.sessions \in [1..MaxPsi -> {"unused", "host", "internal"}]
         /\ sm.state = "ACTIVE" => up.host_psi = 1 /\ up.sessions[1] = "host"
         /\ ims.active => up.sessions[ims.psi] = "internal"
  <1>1. sm \in SmType /\ up \in UpType /\ ims \in ImsType
    BY DEF EngineInv, SmGood
  <1>2. up.host_psi \in {0, 1} /\ Connected \in BOOLEAN
    BY DEF SessionsInv, Connected
  <1>3. /\ ims.establishing \in BOOLEAN /\ ims.active \in BOOLEAN
        /\ ims.psi \in 0..MaxPsi /\ ims.psi # 1
        /\ ims.establishing \/ ims.active => ims.psi > 1
        /\ ~(ims.establishing /\ ims.active)
    BY <1>1 DEF SessionsInv, ImsType
  <1>4. ims.establishing \/ ims.active => ims.psi \in 2..MaxPsi
    BY <1>3, UpAssumption
  <1>5. 1 \in 1..MaxPsi /\ 2..MaxPsi \subseteq 1..MaxPsi
    BY UpAssumption
  <1>6. up.sessions \in [1..MaxPsi -> {"unused", "host", "internal"}]
    BY <1>1 DEF UpType
  <1>7. sm.state = "ACTIVE" => up.host_psi = 1 /\ up.sessions[1] = "host"
    BY <1>2 DEF SessionsInv, ActiveIsBound
  <1>8. ims.active => up.sessions[ims.psi] = "internal"
    BY DEF SessionsInv, ImsIsPrivate
  <1> QED
    BY <1>1, <1>2, <1>3, <1>4, <1>5, <1>6, <1>7, <1>8, ZenonT(30)

\* An accept binds the session it is for: the IMS session if the engine waits for
\* it, the host's otherwise, and then it is one with id 1.
LEMMA PduAcceptSessions ==
  ASSUME EngineInv, SessionsInv, HandlePduAccept
  PROVE  SessionsInv'
  <1>0. PICK msg : msg = Head(dl)
    OBVIOUS
  <1>1. /\ Receive("pduAccept") /\ requests' = requests /\ ran' = ran
        /\ msg \in MessageType /\ msg.type = "pduAccept" /\ ImsPending
        /\ msg.psi \in 0..MaxPsi /\ phase = "drain"
    <2>1. Receive("pduAccept") /\ requests' = requests
      BY DEF HandlePduAccept
    <2>2. msg \in MessageType /\ msg.type = "pduAccept" /\ ran' = ran /\ phase = "drain"
      BY <2>1, <1>0, ReceiveTyped DEF Receive
    <2> QED
      BY <2>1, <2>2 DEF SessionsInv, MessageType
  <1>2. /\ 1 \in 1..Len(dl) /\ dl[1] = msg
    BY <1>0, <1>1, SMTT(30) DEF Receive, EngineInv
  <1>3. ImsAnswer(msg) => ForIms(msg) \/ sm.state = "INACTIVE"
    BY <1>1, <1>2 DEF ImsPending
  <1>4. CASE ForIms(msg)
    <2>1. /\ ims' = [ims EXCEPT !.establishing = FALSE, !.active = TRUE]
          /\ up' = UpBind(up, msg.psi, FALSE, Connected) /\ sm' = sm
      BY <1>0, <1>4, ZenonT(30) DEF HandlePduAccept
    <2>2. msg.psi = ims.psi /\ ims.establishing /\ msg.psi \in 2..MaxPsi /\ ImsContext
      BY <1>4, SessionFacts DEF ForIms, SessionsInv
    <2>3. ims'.establishing = FALSE /\ ims'.active = TRUE /\ ims'.psi = ims.psi
      BY <2>1, SessionFacts DEF ImsType
    <2>4. /\ up'.host_psi = up.host_psi
          /\ up'.sessions = [up.sessions EXCEPT ![msg.psi] = "internal"]
      <3>1. PICK c \in BOOLEAN : c = Connected
        BY SessionFacts
      <3>2. up \in UpType /\ up.host_psi \in {0, 1}
        BY SessionFacts
      <3>3. up' = UpBind(up, msg.psi, FALSE, c)
        BY <2>1, <3>1
      <3>4. /\ UpBind(up, msg.psi, FALSE, c).host_psi = up.host_psi
            /\ UpBind(up, msg.psi, FALSE, c).sessions
                  = [up.sessions EXCEPT ![msg.psi] = "internal"]
        BY DEF UpBind
      <3> QED
        BY <3>3, <3>4, ZenonT(30)
    <2>5. up'.sessions[ims.psi] = "internal" /\ up'.sessions[1] = up.sessions[1]
      <3>1. up.sessions \in [1..MaxPsi -> {"unused", "host", "internal"}]
        BY SessionFacts
      <3>2. msg.psi \in 1..MaxPsi /\ msg.psi # 1 /\ 1 \in 1..MaxPsi
        BY <2>2, UpAssumption
      <3> QED
        BY <3>1, <3>2, <2>2, <2>4, ZenonT(30)
    <2>6. ImsAnswer(msg)
      BY <1>1, <2>2 DEF ImsAnswer
    <2>7. ImsPending'
      BY <2>6, <1>0, <1>1, AnswerTaken
    <2>8. ActiveIsBound'
      <3>1. sm.state = "ACTIVE" => up.host_psi = 1 /\ up.sessions[1] = "host"
        BY SessionFacts
      <3>2. /\ sm'.state = sm.state /\ up'.host_psi = up.host_psi
            /\ up'.sessions[1] = up.sessions[1]
        BY <2>1, <2>4, <2>5, ZenonT(30)
      <3> QED
        BY <3>1, <3>2 DEF ActiveIsBound
    <2>9. ImsIsPrivate'
      BY <2>2, <2>3, <2>4, <2>5, SessionFacts, SMTT(30) DEF ImsIsPrivate
    <2>10. ims'.psi # 1 /\ ims'.psi > 1 /\ up'.host_psi \in {0, 1}
      BY <2>2, <2>3, <2>4, SessionFacts
    <2> QED
      BY <2>2, <2>3, <2>7, <2>8, <2>9, <2>10, <1>1, ZenonT(30) DEF SessionsInv, Connected
  <1>5. CASE ~ForIms(msg) /\ sm.state = "ESTABLISHING"
    <2>1. /\ sm' = SmOnEstablished([sm EXCEPT !.session_id = msg.psi])
          /\ up' = UpBind(up, OrOne(msg.psi), TRUE, Connected) /\ ims' = ims
      BY <1>0, <1>5 DEF HandlePduAccept
    <2>2. OrOne(msg.psi) = 1
      <3>1. ~ImsAnswer(msg)
        BY <1>3, <1>5
      <3>2. ~(msg.psi > 1)
        BY <3>1, <1>1 DEF ImsAnswer
      <3> QED
        BY <3>2, <1>1, UpAssumption DEF OrOne
    <2>3. up'.host_psi = 1 /\ up'.sessions = [up.sessions EXCEPT ![1] = "host"]
      <3>1. PICK c \in BOOLEAN : c = Connected
        BY SessionFacts
      <3>2. up \in UpType /\ up.host_psi \in {0, 1}
        BY SessionFacts
      <3>3. up' = UpBind(up, 1, TRUE, c)
        BY <2>1, <2>2, <3>1
      <3>4. /\ UpBind(up, 1, TRUE, c).host_psi = 1
            /\ UpBind(up, 1, TRUE, c).sessions = [up.sessions EXCEPT ![1] = "host"]
        BY <3>2, UpBindFacts, ZenonT(30)
      <3> QED
        BY <3>3, <3>4, ZenonT(30)
    <2>4. /\ up'.sessions[1] = "host"
          /\ \A k \in 2..MaxPsi : up'.sessions[k] = up.sessions[k]
      <3>1. up.sessions \in [1..MaxPsi -> {"unused", "host", "internal"}]
        BY SessionFacts
      <3>2. 1 \in 1..MaxPsi /\ \A k \in 2..MaxPsi : k \in 1..MaxPsi /\ k # 1
        BY UpAssumption
      <3> QED
        BY <3>1, <3>2, <2>3, ZenonT(30)
    <2>5. ImsPending'
      BY <2>1, <1>1, <1>5, TailPending
    <2>6. ActiveIsBound'
      BY <2>3, <2>4 DEF ActiveIsBound
    <2>7. ImsIsPrivate'
      BY <2>1, <2>3, <2>4, SessionFacts, ZenonT(30) DEF ImsIsPrivate
    <2> QED
      BY <2>1, <2>3, <2>5, <2>6, <2>7, <1>1, ZenonT(30) DEF SessionsInv, Connected
  <1>6. CASE ~ForIms(msg) /\ sm.state # "ESTABLISHING"
    <2>1. UNCHANGED <<sm, up, ims>>
      BY <1>0, <1>6 DEF HandlePduAccept
    <2> QED
      BY <2>1, <1>1, DrainSessions
  <1> QED
    BY <1>4, <1>5, <1>6

\* A reject binds and unbinds nothing.
LEMMA PduRejectSessions ==
  ASSUME EngineInv, SessionsInv, HandlePduReject
  PROVE  SessionsInv'
  <1>0. PICK msg : msg = Head(dl)
    OBVIOUS
  <1>1. /\ Receive("pduReject") /\ ran' = ran /\ up' = up
        /\ msg \in MessageType /\ msg.type = "pduReject" /\ ImsPending
        /\ msg.psi \in 0..MaxPsi /\ phase = "drain" /\ msg.temporary \in BOOLEAN
    <2>1. Receive("pduReject") /\ up' = up
      BY DEF HandlePduReject
    <2>2. msg \in MessageType /\ msg.type = "pduReject" /\ ran' = ran /\ phase = "drain"
      BY <2>1, <1>0, ReceiveTyped DEF Receive
    <2> QED
      BY <2>1, <2>2 DEF SessionsInv, MessageType
  <1>2. CASE ForIms(msg)
    <2>1. /\ ims' = [ims EXCEPT !.establishing = FALSE, !.requested = FALSE,
                                !.active = FALSE]
          /\ UNCHANGED <<sm, requests>>
      BY <1>0, <1>2, ZenonT(30) DEF HandlePduReject
    <2>2. msg.psi = ims.psi /\ ims.establishing /\ msg.psi \in 2..MaxPsi
      BY <1>2, SessionFacts DEF ForIms
    <2>3. ims'.establishing = FALSE /\ ims'.active = FALSE /\ ims'.psi = ims.psi
      BY <2>1, SessionFacts DEF ImsType
    <2>4. ImsAnswer(msg)
      BY <1>1, <2>2 DEF ImsAnswer
    <2>5. ImsPending'
      BY <2>1, <2>4, <1>0, <1>1, AnswerTaken, ZenonT(30)
    <2> QED
      BY <2>1, <2>3, <2>5, <1>1 DEF SessionsInv, ActiveIsBound, ImsIsPrivate, Connected
  <1>3. CASE ~ForIms(msg)
    <2>1. PICK r : r = SmOnReject(sm, msg.temporary)
      OBVIOUS
    <2>2. sm' = r.sm /\ requests' = Sent(r.tx) /\ ims' = ims
      BY <2>1, <1>0, <1>3, ZenonT(30) DEF HandlePduReject
    <2>3. SmResultGood(r) /\ \A q \in r.tx : ~ImsRequest(q)
      BY <2>1, <1>1, SmOnRejectGood, NotForIms DEF EngineInv, SmResultGood
    <2>4. /\ \A q \in requests' : ImsRequest(q) => q \in requests
          /\ Connected \/ requests' = requests
      BY <2>2, <2>3, SentOthers, ZenonT(30)
    <2>5. /\ sm'.state = "ACTIVE" => sm.state = "ACTIVE"
          /\ sm.state = "INACTIVE" => sm'.state = "INACTIVE"
      BY <2>1, <2>2, <1>1, SessionFacts, SmActivity, SMTT(30) DEF SmQuiet
    <2>6. ImsPending'
      BY <2>2, <2>4, <2>5, <1>1, TailPending, ZenonT(30)
    <2> QED
      BY <2>2, <2>4, <2>5, <2>6, <1>1
         DEF SessionsInv, ActiveIsBound, ImsIsPrivate, Connected
  <1> QED
    BY <1>2, <1>3

\* A step that leaves both sessions as they are.
LEMMA SessionFrame ==
  ASSUME SessionsInv, ims' = ims, up'.host_psi = up.host_psi, up'.sessions = up.sessions,
         sm'.state = "ACTIVE" => sm.state = "ACTIVE", ImsPending',
         Connected' \/ requests' = {}
  PROVE  SessionsInv'
  BY DEF SessionsInv, ActiveIsBound, ImsIsPrivate

\* A step that leaves the queue alone and asks nothing for the IMS session.
LEMMA PendingFrame ==
  ASSUME ImsPending, ims' = ims, dl' = dl,
         \A q \in requests' : ImsRequest(q) => q \in requests,
         phase = "drain" =>
            phase' = "drain" /\ (sm.state = "INACTIVE" => sm'.state = "INACTIVE")
  PROVE  ImsPending'
  BY DEF ImsPending, ForIms

\* Nothing is pending without a request and without a message.
LEMMA NothingPending ==
  ASSUME dl' = <<>>, \A q \in requests' : ~ImsRequest(q)
  PROVE  ImsPending'
  <1>1. \A i \in 1..Len(dl') : FALSE
    OBVIOUS
  <1> QED
    BY <1>1 DEF ImsPending

\* engine_forget_network_context: the IMS session goes, and the host's if there is
\* one stays in the table.
LEMMA ForgetSessions ==
  ASSUME EngineInv, SessionsInv, ForgetNetworkContext, sm'.state # "ACTIVE",
         ImsPending', Connected' \/ requests' = {}
  PROVE  SessionsInv'
  <1>1. /\ up' = UpUnbindPsi(up, ims.psi)
        /\ ims' = [ims EXCEPT !.requested = FALSE, !.establishing = FALSE, !.active = FALSE]
    BY DEF ForgetNetworkContext
  <1>2. ims'.psi = ims.psi /\ ims'.establishing = FALSE /\ ims'.active = FALSE
    BY <1>1, SessionFacts DEF ImsType
  <1>3. ims.psi \in 0..MaxPsi /\ ims.psi # 1 /\ up \in UpType /\ up.host_psi \in {0, 1}
    BY SessionFacts
  <1>4. up'.host_psi = up.host_psi
    BY <1>1, <1>3, UpUnbindFacts
  <1> QED
    BY <1>2, <1>3, <1>4 DEF SessionsInv, ActiveIsBound, ImsIsPrivate

\* A release command takes the session away that it names, or the host's.
LEMMA ReleaseSessions ==
  ASSUME EngineInv, SessionsInv, HandleReleaseCommand
  PROVE  SessionsInv'
  <1>1. /\ Receive("releaseCommand") /\ requests' = requests /\ ran' = ran /\ ImsPending
    BY ZenonT(30) DEF HandleReleaseCommand, Receive, SessionsInv
  <1>2. up \in UpType /\ up.host_psi \in {0, 1} /\ sm \in SmType
    BY SessionFacts, ZenonT(30)
  <1>3. CASE ims.active /\ Head(dl).psi = ims.psi
    <2>1. /\ ims' = [ims EXCEPT !.active = FALSE, !.requested = FALSE,
                                !.establishing = FALSE]
          /\ up' = UpUnbindPsi(up, ims.psi) /\ sm' = sm
      BY <1>3 DEF HandleReleaseCommand
    <2>2. /\ ims'.establishing = FALSE /\ ims'.active = FALSE /\ ims'.psi = ims.psi
          /\ ims'.pti = ims.pti /\ ims.establishing = FALSE
      BY <2>1, <1>3, SessionFacts, ZenonT(30) DEF ImsType
    <2>3. ims.psi \in 0..MaxPsi /\ ims.psi # 1
      BY SessionFacts
    <2>4. up'.host_psi = up.host_psi /\ up'.sessions[1] = up.sessions[1]
      BY <2>1, <2>3, <1>2, UpUnbindFacts
    <2>5. ImsPending'
      BY <2>1, <2>2, <1>1, TailPending, ZenonT(30)
    <2>6. ActiveIsBound'
      <3>1. sm.state = "ACTIVE" => up.host_psi = 1 /\ up.sessions[1] = "host"
        BY SessionFacts
      <3> QED
        BY <3>1, <2>1, <2>4, SMTT(30) DEF ActiveIsBound
    <2>7. ImsIsPrivate'
      BY <2>2, ZenonT(30) DEF ImsIsPrivate
    <2> QED
      BY <2>2, <2>3, <2>4, <2>5, <2>6, <2>7, <1>1, <1>2, ZenonT(30) DEF SessionsInv, Connected
  <1>4. CASE ~(ims.active /\ Head(dl).psi = ims.psi)
    <2>1. up' = UpUnbind(up) /\ sm' = SmOnReleased(sm) /\ ims' = ims
      BY <1>4, ZenonT(30) DEF HandleReleaseCommand
    <2>2. /\ sm'.state # "ACTIVE"
          /\ sm.state = "INACTIVE" => sm'.state = "INACTIVE"
      BY <2>1, <1>2, SmActivity, ZenonT(30)
    <2>3. up'.host_psi = 0 /\ \A k \in 2..MaxPsi : up'.sessions[k] = up.sessions[k]
      BY <2>1, <1>2, UpUnbindFacts
    <2>4. ImsPending'
      BY <2>1, <2>2, <1>1, TailPending
    <2>5. ActiveIsBound'
      BY <2>2 DEF ActiveIsBound
    <2>6. ImsIsPrivate'
      <3>1. ims.active => ims.psi \in 2..MaxPsi /\ up.sessions[ims.psi] = "internal"
        BY SessionFacts
      <3>2. ims.active => ims.psi # 0
        BY <3>1
      <3> QED
        BY <3>1, <3>2, <2>1, <2>3, ZenonT(30) DEF ImsIsPrivate
    <2> QED
      BY <2>1, <2>3, <2>4, <2>5, <2>6, <1>1, ZenonT(30) DEF SessionsInv, Connected
  <1> QED
    BY <1>3, <1>4

\* Every message of the drain loop.
LEMMA DrainKeepsSessions ==
  ASSUME EngineInv, SessionsInv, Drain
  PROVE  SessionsInv'
  BY DrainOthersSessions, PduAcceptSessions, PduRejectSessions, ReleaseSessions, ZenonT(30) DEF Drain

\* A recovery that has just cleared SM starts nothing in the same tick.
LEMMA RecoveredStaysInactive ==
  ASSUME NEW s \in SmType, NEW reg \in BOOLEAN
  PROVE  SmTick(SmOnRadioOff(SmClearRuntime(s)), reg).sm.state = "INACTIVE"
  <1>1. PICK c : c = SmClearRuntime(s)
    OBVIOUS
  <1>2. c \in SmType
    BY <1>1, SmClearRuntimeGood DEF SmGood
  <1>3. PICK d : d = SmOnRadioOff(c)
    OBVIOUS
  <1>4. SmGood(d) /\ d.state = "INACTIVE"
    BY <1>2, <1>3, SmOnRadioOffGood
  <1>5. ~d.connect_requested /\ ~d.disconnect_requested
    BY <1>2, <1>3, ZenonT(30) DEF SmOnRadioOff, SmEnterInactive, SmType
  <1>6. SmTick(d, reg).sm.state = "INACTIVE"
    BY <1>4, <1>5, SmTickActivity
  <1> QED
    BY <1>1, <1>3, <1>6

\* The start of the tick activates no session and asks none for IMS.  A link that
\* is lost takes the requests with it, and SM is inactive for the drain.
LEMMA TickStartSessions ==
  ASSUME EngineInv, SessionsInv, TickStart
  PROVE  SessionsInv'
  <1>0. SmGood(sm) /\ sm \in SmType /\ ImsPending
    BY DEF EngineInv, SmGood, SessionsInv
  <1>1. PICK lost \in BOOLEAN :
           lost <=> ran = "LOST" /\ (mm.state = "REGISTERED_HOME" \/ sm.state = "ACTIVE")
    BY ZenonT(30)
  <1>2. PICK reg \in BOOLEAN :
           LET r == SmTick(IF lost THEN SmOnRadioOff(SmClearRuntime(sm)) ELSE sm, reg)
           IN  sm' = r.sm /\ requests' = Sent(r.tx)
    BY <1>1, ZenonT(30) DEF TickStart
  <1>3. PICK s : s = IF lost THEN SmOnRadioOff(SmClearRuntime(sm)) ELSE sm
    OBVIOUS
  <1>4. SmGood(s)
    BY <1>0, <1>3, SmClearRuntimeGood, SmOnRadioOffGood DEF SmGood
  <1>5. PICK r : r = SmTick(s, reg)
    OBVIOUS
  <1>6. sm' = r.sm /\ requests' = Sent(r.tx) /\ SmResultGood(r)
    BY <1>2, <1>3, <1>4, <1>5, SmTickGood, ZenonT(30)
  <1>7. /\ \A q \in requests' : ImsRequest(q) => q \in requests
        /\ Connected \/ requests' = requests
    <2>1. \A q \in r.tx : ~ImsRequest(q)
      BY <1>6, NotForIms, ZenonT(30) DEF SmResultGood
    <2> QED
      BY <2>1, <1>6, SentOthers
  <1>8. /\ phase = "idle" /\ phase' = "drain" /\ dl' = dl /\ ran' = ran
        /\ IF lost THEN ForgetNetworkContext ELSE UNCHANGED <<up, ims>>
    BY <1>1 DEF TickStart
  <1>9. Connected' \/ requests' = {}
    BY <1>7, <1>8 DEF SessionsInv, Connected
  <1>10. CASE lost
    <2>1. requests' = {}
      BY <1>1, <1>8, <1>9, <1>10 DEF Connected
    <2>2. sm'.state = "INACTIVE"
      BY <1>0, <1>3, <1>5, <1>6, <1>10, RecoveredStaysInactive, ZenonT(30)
    <2>3. ImsPending'
      BY <2>1, <2>2, <1>0, <1>8 DEF ImsPending
    <2> QED
      BY <2>2, <2>3, <1>8, <1>9, <1>10, ForgetSessions, ZenonT(30)
  <1>11. CASE ~lost
    <2>1. sm'.state = "ACTIVE" => sm.state = "ACTIVE"
      BY <1>0, <1>3, <1>5, <1>6, <1>11, SmTickActivity
    <2>2. ImsPending'
      BY <1>0, <1>7, <1>8, <1>11, PendingFrame
    <2> QED
      BY <2>1, <2>2, <1>8, <1>9, <1>11, SessionFrame, ZenonT(30)
  <1> QED
    BY <1>1, <1>10, <1>11

\* The id picked for the IMS session is free and not the host's first.
LEMMA ImsPicksFree ==
  ASSUME ims \in ImsType, ImsPsi # {}
  PROVE  /\ ImsRequested.psi \in 2..MaxPsi /\ ImsRequested.psi > 1
         /\ ImsRequested.establishing = TRUE /\ ImsRequested.active = FALSE
  <1>1. ImsPsi \subseteq 2..MaxPsi
    BY DEF ImsPsi
  <1>4. PICK p : p = CHOOSE psi \in ImsPsi : TRUE
    OBVIOUS
  <1>5. p \in ImsPsi
    BY <1>4
  <1>6. /\ ImsRequested.psi = p
        /\ ImsRequested.establishing = TRUE /\ ImsRequested.active = FALSE
    BY <1>4 DEF ImsRequested
  <1>7. p \in 2..MaxPsi
    BY <1>1, <1>5
  <1> QED
    BY <1>6, <1>7, UpAssumption

\* The rest of the tick may ask for the IMS session, if nobody waits for one.
LEMMA TickTailSessions ==
  ASSUME EngineInv, SessionsInv, TickTail
  PROVE  SessionsInv'
  <1>0. /\ sm \in SmType /\ up \in UpType /\ up.host_psi \in {0, 1} /\ ims \in ImsType
        /\ Connected \in BOOLEAN /\ ImsPending
    BY SessionFacts DEF SessionsInv
  <1>1. PICK m : m = SearchEnds(mm)
    OBVIOUS
  <1>2. PICK r : r = RrcLinkLost(RrcWindowExpires(RrcSetupExpires(RrcRequested(rrc, m)), m))
    OBVIOUS
  <1>3. PICK others : others = {q \in {Request("rrcSetupRequest")} : SetupDue(m)}
                                  \cup {q \in {Request("regUpdate")} : UpdateDue(m)}
    BY ZenonT(30)
  <1>4. PICK due \in BOOLEAN : due <=> ImsDue(r)
    BY ZenonT(30)
  <1>5. PICK new : new = SmRequest("estRequest", ims'.psi, ims'.pti)
    OBVIOUS
  <1>6. /\ dl = <<>> /\ dl' = <<>> /\ ran' = ran
        /\ sm' = AutoConnect(sm) /\ up' = UpTick(up, Connected)
        /\ ims' = IF due THEN ImsRequested ELSE ims
        /\ requests' = Sent(others \cup {q \in {new} : due})
    BY <1>1, <1>2, <1>3, <1>4, <1>5, ZenonT(30) DEF TickTail
  <1>7. sm'.state = sm.state
    BY <1>0, <1>6, SmActivity
  <1>8. up'.host_psi = up.host_psi /\ up'.sessions = up.sessions
    <2>1. PICK c \in BOOLEAN : c = Connected
      BY <1>0
    <2>2. up' = UpTick(up, c)
      BY <2>1, <1>6
    <2> QED
      BY <2>2, <1>0 DEF UpTick, UpType
  <1>9. \A q \in others : ~ImsRequest(q)
    BY <1>3, NotForIms DEF MmRequestKinds
  <1>10. Connected' \/ requests' = {}
    BY <1>6 DEF SessionsInv, Sent, Connected
  <1>11. CASE ~due
    <2>1. \A q \in requests' : ImsRequest(q) => q \in requests
      BY <1>6, <1>9, <1>11 DEF Sent
    <2>2. ImsPending'
      <3>1. \A i \in 1..Len(dl') : FALSE
        BY <1>6, SMTT(30)
      <3> QED
        BY <3>1, <2>1, <1>0, <1>6, <1>11, ZenonT(30) DEF ImsPending
    <2> QED
      BY <2>2, <1>6, <1>7, <1>8, <1>10, <1>11, SessionFrame, ZenonT(30)
  <1>12. CASE due
    <2>1. ~ims.establishing /\ ~ims.active /\ ImsPsi # {} /\ ImsContext
      BY <1>4, <1>12, ZenonT(30) DEF ImsDue
    <2>2. /\ ims'.psi > 1 /\ ims'.establishing = TRUE /\ ims'.active = FALSE
          /\ ims'.psi \in 2..MaxPsi
      BY <2>1, <1>0, <1>6, <1>12, ImsPicksFree, ZenonT(30)
    <2>3. \A q \in requests' : ImsRequest(q) => q = new
      <3>1. \A q \in requests : ~ImsRequest(q)
        BY <2>1, <1>0 DEF ImsPending
      <3> QED
        BY <3>1, <1>6, <1>9, ZenonT(30) DEF Sent
    <2>4. new.psi = ims'.psi /\ new.pti = ims'.pti
      BY <1>5 DEF SmRequest
    <2>5. ImsPending'
      <3>1. \A i \in 1..Len(dl') : FALSE
        BY <1>6
      <3> QED
        BY <3>1, <2>2, <2>3, <2>4, ZenonT(30) DEF ImsPending
    <2>6. ActiveIsBound'
      BY <1>7, <1>8 DEF SessionsInv, ActiveIsBound
    <2>7. ImsIsPrivate'
      BY <2>2 DEF ImsIsPrivate
    <2>8. ims'.psi # 1
      BY <2>2
    <2> QED
      BY <2>1, <2>2, <2>5, <2>6, <2>7, <2>8, <1>0, <1>8, <1>10, ZenonT(30) DEF SessionsInv
  <1> QED
    BY <1>4, <1>11, <1>12, ZenonT(30)

\* A tick with the radio off.
LEMMA TickRadioOffSessions ==
  ASSUME EngineInv, SessionsInv, TickRadioOff
  PROVE  SessionsInv'
  <1>1. PICK c \in BOOLEAN : c = Connected
    BY SessionFacts
  <1>2. /\ up' = UpTick(up, c) /\ UNCHANGED <<sm, requests, ran, ims, dl, phase>>
        /\ up \in UpType /\ ImsPending
    BY <1>1, SessionFacts DEF TickRadioOff, SessionsInv
  <1>3. up'.host_psi = up.host_psi /\ up'.sessions = up.sessions
    BY <1>2 DEF UpTick, UpType
  <1>4. ImsPending'
    BY <1>2, PendingFrame
  <1>5. Connected' \/ requests' = {}
    BY <1>2 DEF SessionsInv, Connected
  <1> QED
    BY <1>2, <1>3, <1>4, <1>5, SessionFrame, ZenonT(30)

\* Turning the radio on finds no request and no message to forget, and a session
\* only if it was on already.
LEMMA RadioOnSessions ==
  ASSUME EngineInv, SessionsInv, SetRadioOn, phase = "idle",
         sm'.state = sm.state
  PROVE  SessionsInv'
  <1>1. UNCHANGED <<requests, dl>> /\ ImsPending
    BY DEF SetRadioOn, SessionsInv
  <1>2. Connected' \/ requests' = {}
    <2>1. ran' = ran \/ ran = "IDLE"
      BY DEF SetRadioOn
    <2> QED
      BY <2>1, <1>1, ZenonT(30) DEF SessionsInv, Connected
  <1>3. CASE radio_on
    <2>1. UNCHANGED <<up, ims>>
      BY <1>3 DEF SetRadioOn
    <2>2. ImsPending'
      BY <2>1, <1>1, PendingFrame
    <2> QED
      BY <2>1, <2>2, <1>2, SessionFrame, ZenonT(30)
  <1>4. CASE ~radio_on
    <2>1. ForgetNetworkContext
      BY <1>4 DEF SetRadioOn
    <2>2. sm.state = "INACTIVE" /\ ran = "IDLE" /\ dl = <<>>
      BY <1>4 DEF EngineInv, RadioOffIsQuiet
    <2>3. requests = {}
      BY <2>2 DEF SessionsInv, Connected
    <2>4. ImsPending'
      BY <2>2, <2>3, <1>1, NothingPending, ZenonT(30)
    <2> QED
      BY <2>1, <2>2, <2>4, <1>2, ForgetSessions, ZenonT(30)
  <1> QED
    BY <1>3, <1>4, ZenonT(30)

\* Turning it off leaves nothing.
LEMMA RadioOffSessions ==
  ASSUME EngineInv, SessionsInv, NEW s \in SmType, SetRadioOff(s)
  PROVE  SessionsInv'
  <1>1. /\ requests' = {} /\ dl' = <<>> /\ ForgetNetworkContext
        /\ sm' = SmOnRadioOff(SmClearRuntime(s))
    BY DEF SetRadioOff
  <1>2. sm'.state = "INACTIVE"
    <2>1. SmClearRuntime(s) \in SmType
      BY SmClearRuntimeGood DEF SmGood
    <2> QED
      BY <2>1, <1>1, SmOnRadioOffGood
  <1>3. ImsPending'
    BY <1>1, NothingPending
  <1> QED
    BY <1>1, <1>2, <1>3, ForgetSessions, ZenonT(30)

\* The host's commands.
LEMMA HostSessions ==
  ASSUME EngineInv, SessionsInv, Host
  PROVE  SessionsInv'
  <1>0. sm \in SmType /\ ImsPending
    BY SessionFacts DEF SessionsInv
  <1>1. SmRadioOn(sm) \in SmType /\ SmRadioOn(sm).state = sm.state
    BY <1>0, SmClearRuntimeGood, ZenonT(30) DEF SmRadioOn, SmGood
  <1>2. CASE HostRadioOn
    <2>1. SetRadioOn /\ phase = "idle" /\ sm'.state = sm.state
      BY <1>1, <1>2 DEF HostRadioOn, HostCommand
    <2> QED
      BY <2>1, RadioOnSessions
  <1>3. CASE HostConnect /\ ~radio_on
    <2>1. SetRadioOn /\ phase = "idle" /\ sm' = SmRequestConnect(SmRadioOn(sm))
      BY <1>3, ZenonT(30) DEF HostConnect, HostCommand
    <2>2. sm'.state = sm.state
      BY <2>1, <1>1, SmActivity
    <2> QED
      BY <2>1, <2>2, RadioOnSessions
  <1>4. CASE HostConnect /\ radio_on
    <2>1. /\ phase = "idle" /\ sm' = SmRequestConnect(sm)
          /\ UNCHANGED <<requests, ran, up, ims, dl>>
      BY <1>4, ZenonT(30) DEF HostConnect, HostCommand
    <2>2. sm'.state = sm.state
      BY <2>1, <1>0, SmActivity
    <2>3. ImsPending'
      BY <2>1, <1>0, PendingFrame
    <2>4. Connected' \/ requests' = {}
      BY <2>1 DEF SessionsInv, Connected
    <2> QED
      BY <2>1, <2>2, <2>3, <2>4, SessionFrame
  <1>5. CASE HostRadioOff
    BY <1>0, <1>5, RadioOffSessions DEF HostRadioOff
  <1>6. CASE HostDisconnect
    <2>1. SmRequestDisconnect(sm) \in SmType
      BY SmRequestGood DEF EngineInv, SmGood
    <2> QED
      BY <2>1, <1>6, RadioOffSessions DEF HostDisconnect
  <1>7. CASE HostRegister
    <2>1. phase = "idle" /\ UNCHANGED <<sm, requests, ran, up, ims, dl>>
      BY <1>7 DEF HostRegister, HostCommand
    <2>2. ImsPending'
      BY <2>1, <1>0, PendingFrame
    <2>3. Connected' \/ requests' = {}
      BY <2>1 DEF SessionsInv, Connected
    <2> QED
      BY <2>1, <2>2, <2>3, SessionFrame
  <1> QED
    BY <1>2, <1>3, <1>4, <1>5, <1>6, <1>7, ZenonT(30) DEF Host

\* The link moves, a request is lost or time passes.
LEMMA QuietSessions ==
  ASSUME EngineInv, SessionsInv, RanAcquire \/ RanLose \/ NetLose \/ Elapse
  PROVE  SessionsInv'
  <1>0. sm \in SmType /\ ImsPending
    BY SessionFacts DEF SessionsInv
  <1>1. /\ UNCHANGED <<up, ims, dl, phase>> /\ requests' \subseteq requests
        /\ sm' = sm \/ sm' = SmElapse(sm)
    BY DEF RanAcquire, RanLose, NetLose, Elapse, mainVars
  <1>2. sm'.state = sm.state
    BY <1>0, <1>1, SmActivity, ZenonT(30)
  <1>3. ImsPending'
    BY <1>0, <1>1, <1>2, PendingFrame, ZenonT(30)
  <1>4. Connected' \/ requests' = {}
    <2>1. Connected' \/ requests' = {} \/ (ran' = ran /\ requests' \subseteq requests)
      BY <1>1, ZenonT(30) DEF RanAcquire, RanLose, NetLose, Elapse, Connected
    <2> QED
      BY <2>1 DEF SessionsInv, Connected
  <1> QED
    BY <1>1, <1>2, <1>3, <1>4, SessionFrame, ZenonT(30)

\* An answer is for the session the request is for.
LEMMA ReplyFor ==
  ASSUME NEW q, NEW a \in Replies(q)
  PROVE  /\ a.msg.psi = q.psi /\ a.msg.pti = q.pti
         /\ a.msg.type \in {"pduAccept", "pduReject"} <=> q.type = "estRequest"
  <1>1. ASSUME NEW type, NEW t, NEW g, a = [msg |-> Message(type, q.psi, q.pti, t), gnb |-> g]
        PROVE  a.msg.psi = q.psi /\ a.msg.pti = q.pti /\ a.msg.type = type
    BY <1>1, ZenonT(30) DEF Message
  <1>2. CASE q.type = "estRequest"
    <2>1. \E type \in {"pduAccept", "pduReject"} : \E t, g :
             a = [msg |-> Message(type, q.psi, q.pti, t), gnb |-> g]
      BY <1>2, ZenonT(30) DEF Replies
    <2> QED
      BY <2>1, <1>1, <1>2
  <1>3. CASE q.type # "estRequest"
    <2>1. \E type \in AnswerKinds \ {"pduAccept", "pduReject"} : \E t, g :
             a = [msg |-> Message(type, q.psi, q.pti, t), gnb |-> g]
      BY <1>3, ZenonT(30) DEF Replies, AnswerKinds
    <2> QED
      BY <2>1, <1>1, <1>3
  <1> QED
    BY <1>2, <1>3, ZenonT(30)

\* A message arrives: unless it answers the request for the IMS session nothing
\* changes for that one, and if it does it is the only answer.
LEMMA DeliverPending ==
  ASSUME EngineInv, ImsPending, NEW msg \in MessageType, Deliver(msg),
         requests' \subseteq requests,
         ImsAnswer(msg) =>
            /\ ForIms(msg)
            /\ \A i \in 1..Len(dl) : ~ImsAnswer(dl[i])
            /\ \A q \in requests' : ~ImsRequest(q)
  PROVE  ImsPending'
  <1>1. UNCHANGED <<sm, ims, phase>> /\ dl \in Seq(MessageType) /\ Len(dl) \in Nat
    BY DEF Deliver, mainVars, EngineInv
  <1>2. CASE dl' = dl
    BY <1>1, <1>2, PendingFrame, ZenonT(30)
  <1>3. CASE dl' = Append(dl, msg)
    <2>1. /\ Len(dl') = Len(dl) + 1 /\ dl'[Len(dl) + 1] = msg
          /\ \A i \in 1..Len(dl) : dl'[i] = dl[i]
      BY <1>1, <1>3
    <2>2. \A i \in 1..Len(dl') : i \in 1..Len(dl) \/ i = Len(dl) + 1
      BY <2>1, <1>1, SMTT(30)
    <2>3. \A q \in requests' :
             ImsRequest(q) => ims'.establishing /\ q.psi = ims'.psi /\ q.pti = ims'.pti
      BY <1>1, ZenonT(30) DEF ImsPending
    <2>4. \A q \in requests', i \in 1..Len(dl') : ~(ImsRequest(q) /\ ImsAnswer(dl'[i]))
      BY <2>1, <2>2, ZenonT(30) DEF ImsPending
    <2>5. \A i, j \in 1..Len(dl') : ImsAnswer(dl'[i]) /\ ImsAnswer(dl'[j]) => i = j
      BY <2>1, <2>2, ZenonT(30) DEF ImsPending
    <2>6. \A i \in 1..Len(dl') :
             ImsAnswer(dl'[i]) =>
                ForIms(dl'[i]) \/ (phase = "drain" /\ sm.state = "INACTIVE")
      BY <2>1, <2>2, ZenonT(30) DEF ImsPending
    <2> QED
      BY <2>3, <2>4, <2>5, <2>6, <1>1, ZenonT(30) DEF ImsPending, ForIms
  <1> QED
    BY <1>2, <1>3, ZenonT(30) DEF Deliver

\* The rest of the sessions does not depend on what arrives.
LEMMA DeliverSessions ==
  ASSUME SessionsInv, NEW msg, Deliver(msg), ImsPending'
  PROVE  SessionsInv'
  <1>1. UNCHANGED <<sm, up, ims>> /\ Connected'
    BY DEF Deliver, mainVars, Connected
  <1> QED
    BY <1>1, SessionFrame

\* The network releases a session on its own.
LEMMA NetReleaseSessions ==
  ASSUME EngineInv, SessionsInv, NetRelease
  PROVE  SessionsInv'
  <1>1. PICK psi \in gnb.sessions :
          Deliver(Message("releaseCommand", psi, 0, FALSE)) /\ UNCHANGED requests
    BY ZenonT(30) DEF NetRelease
  <1>2. PICK msg : msg = Message("releaseCommand", psi, 0, FALSE)
    BY ZenonT(30)
  <1>3. psi \in 0..MaxPsi
    BY ZenonT(30) DEF EngineInv, GnbType
  <1>4. msg \in MessageType /\ msg.type = "releaseCommand"
    BY <1>2, <1>3, SmBounds DEF Message, MessageType, AnswerKinds
  <1>5. ~ImsAnswer(msg)
    BY <1>4 DEF ImsAnswer
  <1>6. ImsPending'
    BY <1>1, <1>2, <1>4, <1>5, DeliverPending, ZenonT(30) DEF SessionsInv
  <1> QED
    BY <1>1, <1>6, DeliverSessions, ZenonT(30)

\* A network that answers every request for the IMS session once.
AnswersOnce == ~ImsContext \/ "dup" \notin Faults

\* The network answers: the one request for the IMS session goes with its answer.
LEMMA NetAnswerSessions ==
  ASSUME EngineInv, SessionsInv, AnswersOnce, NEW type, NetAnswer(type)
  PROVE  SessionsInv'
  <1>0. requests \subseteq RequestType /\ gnb \in GnbType /\ ImsPending
    BY DEF EngineInv, SessionsInv
  <1>1. PICK q \in requests : \E a \in Replies(q) :
          /\ Deliver(a.msg) /\ requests' \subseteq requests
          /\ requests' = requests \ {q} \/ "dup" \in Faults
    BY DEF NetAnswer
  <1>2. PICK a \in Replies(q) :
          /\ Deliver(a.msg) /\ requests' \subseteq requests
          /\ requests' = requests \ {q} \/ "dup" \in Faults
    BY <1>1
  <1>3. PICK msg : msg = a.msg
    OBVIOUS
  <1>4. /\ msg \in MessageType /\ msg.psi = q.psi /\ msg.pti = q.pti
        /\ msg.type \in {"pduAccept", "pduReject"} <=> q.type = "estRequest"
    BY <1>0, <1>3, RepliesTyped, ReplyFor, ZenonT(30)
  <1>5. ASSUME ImsAnswer(msg)
        PROVE  /\ ForIms(msg)
               /\ \A i \in 1..Len(dl) : ~ImsAnswer(dl[i])
               /\ \A p \in requests' : ~ImsRequest(p)
    <2>1. ImsRequest(q)
      BY <1>4, <1>5, ZenonT(30) DEF ImsAnswer, ImsRequest
    <2>2. ims.establishing /\ q.psi = ims.psi /\ q.pti = ims.pti
      BY <2>1, <1>0, ZenonT(30) DEF ImsPending
    <2>3. requests' = requests \ {q}
      BY <2>2, <1>2 DEF SessionsInv, AnswersOnce
    <2>4. ASSUME NEW p \in requests', ImsRequest(p)
          PROVE  FALSE
      <3>1. p \in requests /\ p # q
        BY <2>3, ZenonT(30)
      <3>2. p.psi = ims.psi /\ p.pti = ims.pti
        BY <3>1, <2>4, <1>0, ZenonT(30) DEF ImsPending
      <3>3. p \in RequestType /\ q \in RequestType
        BY <3>1, <1>0
      <3>4. p.type = q.type
        BY <2>1, <2>4, ZenonT(30) DEF ImsRequest
      <3>5. p = q
        BY <3>2, <3>3, <3>4, <2>2, SMTT(30) DEF RequestType
      <3> QED
        BY <3>1, <3>5
    <2>5. ForIms(msg)
      BY <2>2, <1>4, ZenonT(30) DEF ForIms
    <2>6. \A i \in 1..Len(dl) : ~ImsAnswer(dl[i])
      BY <2>1, <1>0, ZenonT(30) DEF ImsPending
    <2> QED
      BY <2>4, <2>5, <2>6, ZenonT(30)
  <1>6. ImsPending'
    BY <1>0, <1>2, <1>3, <1>4, <1>5, DeliverPending, ZenonT(30)
  <1> QED
    BY <1>2, <1>6, DeliverSessions, ZenonT(30)

\* The engine starts without sessions.
LEMMA SessionsInit == EngineInit => SessionsInv
  <1> SUFFICES ASSUME EngineInit PROVE SessionsInv
    BY ZenonT(30)
  <1>1. /\ ims.psi = 0 /\ ims.establishing = FALSE /\ ims.active = FALSE
        /\ up.host_psi = 0 /\ requests = {} /\ sm.state = "INACTIVE"
    BY ZenonT(30) DEF EngineInit, UpInitial, SmInit, SmInitial
  <1>2. \A i \in 1..Len(dl) : FALSE
    <2>1. dl = <<>>
      BY ZenonT(30) DEF EngineInit
    <2> QED
      BY <2>1
  <1>3. ImsPending
    BY <1>1, <1>2 DEF ImsPending
  <1> QED
    BY <1>1, <1>3 DEF SessionsInv, ActiveIsBound, ImsIsPrivate

\* Every step keeps the sessions apart.
LEMMA SessionsNext ==
  ASSUME EngineInv, SessionsInv, AnswersOnce, [EngineNext]_engineVars
  PROVE  SessionsInv'
  <1>1. CASE EngineTick
    BY <1>1, TickRadioOffSessions, TickStartSessions, DrainKeepsSessions, TickTailSessions, ZenonT(30)
       DEF EngineTick
  <1>2. CASE Host
    BY <1>2, HostSessions
  <1>3. CASE RanAcquire \/ RanLose \/ NetLose \/ Elapse
    BY <1>3, QuietSessions
  <1>4. CASE \E type \in RequestKinds : NetAnswer(type)
    BY <1>4, NetAnswerSessions, ZenonT(30)
  <1>5. CASE NetRelease
    BY <1>5, NetReleaseSessions
  <1>6. CASE UNCHANGED engineVars
    BY <1>6, ZenonT(30) DEF engineVars, SessionsInv, ImsPending, ForIms, ActiveIsBound, ImsIsPrivate,
                Connected
  <1> QED
    BY <1>1, <1>2, <1>3, <1>4, <1>5, <1>6, ZenonT(30) DEF EngineNext

\* However accepts, rejects, releases, link losses, timeouts and host commands come
\* in, the session SM takes for active is bound as the host's one, whose id is 1:
\* engine_process_nas_event never leaves SM and the user plane apart.  With an IMS
\* context this needs a network that answers once: a second accept for the IMS
\* session would be taken for the host's.
THEOREM EngineActiveIsBound ==
  ASSUME AnswersOnce
  PROVE  EngineSpec => []ActiveIsBound
  <1>1. EngineInit => SessionsInv
    BY SessionsInit
  <1>2. EngineInv /\ SessionsInv /\ [EngineNext]_engineVars => SessionsInv'
    BY SessionsNext
  <1>3. SessionsInv => ActiveIsBound
    BY ZenonT(30) DEF SessionsInv
  <1> QED
    BY <1>1, <1>2, <1>3, EngineInvariant, PTL DEF EngineSpec

\* Under the same assumption the IMS session keeps its own id, bound as internal,
\* for as long as it is active: no answer, release or recovery of the host's session
\* takes it over.
THEOREM EngineImsIsPrivate ==
  ASSUME AnswersOnce
  PROVE  EngineSpec => []ImsIsPrivate
  <1>1. EngineInit => SessionsInv
    BY SessionsInit
  <1>2. EngineInv /\ SessionsInv /\ [EngineNext]_engineVars => SessionsInv'
    BY SessionsNext
  <1>3. SessionsInv => ImsIsPrivate
    BY DEF SessionsInv
  <1> QED
    BY <1>1, <1>2, <1>3, EngineInvariant, PTL DEF EngineSpec
=============================================================================
