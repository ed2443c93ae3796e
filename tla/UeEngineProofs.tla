--------------------------- MODULE UeEngineProofs ---------------------------
(***************************************************************************)
(* The two NAS machines and the engine that drives them.                   *)
(*                                                                         *)
(* For every timeout, every retry limit and with or without a SIM: MM      *)
(* keeps to its type and its four fields state, procedure, step and        *)
(* request agree.  For every T3580, every retransmission and retry limit   *)
(* and every PTI range: SM keeps to its type, and no deadline or PTI       *)
(* outlives the procedure it belongs to.  Each function of ue_mm.c and     *)
(* ue_sm.c gets a lemma, used again where the engine calls several in a    *)
(* row.                                                                    *)
(*                                                                         *)
(* For every value of the constants (any timers, limits and queue size,    *)
(* any faults and host commands): the engine's context keeps to its type,  *)
(* MM's fields agree, the host is never told "attached" without            *)
(* "registered", a radio that is off leaves nothing behind, and the engine *)
(* implements the link of RanLink.                                         *)
(***************************************************************************)
EXTENDS UeEngine, TLAPS

(* Mobility management *)

MmGood(m) == m \in MmType /\ MmAgrees(m)

USE DEF Unarmed, MmStates, RegTypes

-----------------------------------------------------------------------------

\* The retry limit alone: leaves about the counter need it without the other
\* constants.
LEMMA MmRetryBound == UE_MM_MAX_RETRIES \in Nat /\ 0 \in 0..UE_MM_MAX_RETRIES
  BY MmAssumption

\* The same for the timeout.
LEMMA MmTimeoutBound ==
  UE_MM_TIMEOUT \in Nat /\ UE_MM_TIMEOUT > 0 /\ UE_MM_TIMEOUT \in 0..UE_MM_TIMEOUT
  BY MmAssumption

\* ue_mm_init leaves a good context behind.
LEMMA MmInitialGood == MmGood(MmInitial)
  BY MmAssumption DEF MmGood, MmInitial, MmType, MmAgrees, MmInProgress

\* mm_enter_deregistered and the other returns to rest leave a good context
\* behind, whatever the context was.
LEMMA MmRestGood ==
  ASSUME NEW m \in MmType,
         NEW s \in MmStates \ {"SEARCHING", "REGISTERING"}
  PROVE  MmGood(MmRest(m, s)) /\ MmRest(m, s).state = s
  <1> DEFINE r == MmRest(m, s)
  <1>1. r \in MmType
    BY MmRetryBound, ZenonT(30) DEF MmRest, MmType
  <1>2. /\ r.state = s
        /\ r.procedure = "IDLE"
        /\ r.proc_step = "NONE"
        /\ r.register_requested = FALSE
        /\ r.retry_count = 0
        /\ r.deadline = Unarmed
    BY DEF MmRest, MmType
  <1>3. MmAgrees(r)
    BY <1>2 DEF MmAgrees, MmInProgress
  <1> QED
    BY <1>1, <1>2, <1>3 DEF MmGood

\* A host request (ue_mm_request_register and its two siblings) keeps the
\* context good in every state.
LEMMA MmRequestGood ==
  ASSUME NEW m, MmGood(m), NEW type \in RegTypes
  PROVE  MmGood(MmRequest(m, type))
  BY MmRetryBound, MmTimeoutBound, ZenonT(30)
     DEF MmGood, MmRequest, MmStartRegistration, MmType, MmAgrees, MmInProgress

\* ue_mm_on_radio keeps the context good.
LEMMA MmOnRadioGood ==
  ASSUME NEW m, MmGood(m), NEW on \in BOOLEAN
  PROVE  MmGood(MmOnRadio(m, on))
  <1>1. m \in MmType
    BY DEF MmGood
  <1>2. MmGood(MmRest(m, "POWERED_OFF")) /\ MmGood(MmEnterDeregistered(m))
    BY <1>1, MmRestGood DEF MmEnterDeregistered
  <1> QED
    BY <1>2 DEF MmOnRadio

\* The engine's call of ue_mm_transition_to_registering, made in SEARCHING,
\* keeps the context good.
LEMMA MmTransitionGood ==
  ASSUME NEW m, MmGood(m), m.state = "SEARCHING"
  PROVE  MmGood(MmTransitionToRegistering(m))
  BY MmRetryBound, MmTimeoutBound, ZenonT(30)
     DEF MmGood, MmTransitionToRegistering, MmType, MmAgrees, MmInProgress

\* A retry with attempts left keeps the context good: the counter does not pass
\* its limit.
LEMMA MmRetryGood ==
  ASSUME NEW m, MmGood(m), m.register_requested,
         m.retry_count < UE_MM_MAX_RETRIES,
         NEW d \in {Unarmed, UE_MM_TIMEOUT}
  PROVE  MmGood(MmRetryRegistration(m, d))
  <1>1. m \in MmType
    BY DEF MmGood
  <1>2. m.retry_count + 1 \in 0..UE_MM_MAX_RETRIES
    BY <1>1, MmRetryBound DEF MmType
  <1>3. d \in {Unarmed} \cup 0..UE_MM_TIMEOUT
    BY MmTimeoutBound
  <1>4. MmRetryRegistration(m, d) \in MmType
    BY <1>1, <1>2, <1>3, ZenonT(30) DEF MmRetryRegistration, MmType
  <1>5. MmAgrees(MmRetryRegistration(m, d))
    BY <1>1 DEF MmRetryRegistration, MmType, MmAgrees, MmInProgress
  <1> QED
    BY <1>4, <1>5 DEF MmGood

\* ue_mm_on_registration_accept keeps the context good.
LEMMA MmAcceptGood ==
  ASSUME NEW m, MmGood(m)
  PROVE  MmGood(MmOnRegistrationAccept(m))
  BY MmRestGood DEF MmGood, MmOnRegistrationAccept

\* ue_mm_on_registration_reject keeps the context good.
LEMMA MmRejectGood ==
  ASSUME NEW m, MmGood(m), NEW temporary \in BOOLEAN
  PROVE  MmGood(MmOnRegistrationReject(m, temporary))
  <1>1. MmGood(MmEnterDeregistered(m))
    BY MmRestGood DEF MmGood, MmEnterDeregistered
  <1>2. ASSUME m.register_requested, m.retry_count < UE_MM_MAX_RETRIES
        PROVE  MmGood(MmRetryRegistration(m, Unarmed))
    BY <1>2, MmRetryGood
  <1> QED
    BY <1>1, <1>2 DEF MmOnRegistrationReject, MmHandleReject

\* ue_mm_tick keeps the context good, with its arming, retrying and giving up.
LEMMA MmTickGood ==
  ASSUME NEW m, MmGood(m)
  PROVE  MmGood(MmTick(m))
  <1>1. CASE MmWaiting(m)
    <2>1. m.register_requested
      BY <1>1 DEF MmWaiting
    <2>2. MmGood(MmEnterDeregistered(m))
      BY MmRestGood DEF MmGood, MmEnterDeregistered
    <2>3. ASSUME m.retry_count < UE_MM_MAX_RETRIES
          PROVE  MmGood(MmRetryRegistration(m, UE_MM_TIMEOUT))
      BY <2>1, <2>3, MmRetryGood
    <2>4. ASSUME NEW left \in 0..UE_MM_TIMEOUT
          PROVE  MmGood([m EXCEPT !.deadline = left])
      BY <1>1 DEF MmGood, MmType, MmAgrees, MmInProgress, MmWaiting
    <2>5. (IF m.deadline = Unarmed THEN UE_MM_TIMEOUT ELSE m.deadline)
             \in 0..UE_MM_TIMEOUT
      BY MmRetryBound, MmTimeoutBound DEF MmGood, MmType
    <2>6. MmGood(MmHandleWait(m))
      BY <2>2, <2>3, <2>4, <2>5 DEF MmHandleWait
    <2> QED
      BY <1>1, <2>6 DEF MmTick
  <1>2. CASE ~MmWaiting(m)
    BY <1>2, ZenonT(30) DEF MmGood, MmTick, MmType, MmAgrees, MmInProgress, MmWaiting
  <1> QED
    BY <1>1, <1>2

\* Time passing keeps the context good.
LEMMA MmElapseGood ==
  ASSUME NEW m, MmGood(m)
  PROVE  MmGood(MmElapse(m))
  BY MmRetryBound, MmTimeoutBound DEF MmGood, MmElapse, MmType, MmAgrees, MmInProgress

-----------------------------------------------------------------------------

\* The inductive invariant of MM on its own, over every call of the engine.
THEOREM MmInvariant == MmSpec => [](MmTypeOK /\ MmLockstep)
  <1>1. MmInit => MmGood(mm)
    BY MmInitialGood DEF MmInit
  <1>2. ASSUME MmGood(mm), [MmNext]_mm
        PROVE  MmGood(mm)'
    <2>1. CASE MmRequestStep
      BY <1>2, <2>1, MmRequestGood DEF MmRequestStep
    <2>2. CASE MmRadioStep
      BY <1>2, <2>2, MmOnRadioGood DEF MmRadioStep
    <2>3. CASE MmCellStep
      BY <1>2, <2>3, MmTransitionGood DEF MmCellStep
    <2>4. CASE MmAcceptStep
      BY <1>2, <2>4, MmAcceptGood DEF MmAcceptStep
    <2>5. CASE MmRejectStep
      BY <1>2, <2>5, MmRejectGood DEF MmRejectStep
    <2>6. CASE MmTickStep
      BY <1>2, <2>6, MmTickGood DEF MmTickStep
    <2>7. CASE MmElapseStep
      BY <1>2, <2>7, MmElapseGood DEF MmElapseStep
    <2>8. CASE UNCHANGED mm
      BY <1>2, <2>8
    <2> QED
      BY <1>2, <2>1, <2>2, <2>3, <2>4, <2>5, <2>6, <2>7, <2>8 DEF MmNext
  <1>3. MmGood(mm) => MmTypeOK /\ MmLockstep
    BY DEF MmGood, MmTypeOK, MmLockstep
  <1> QED
    BY <1>1, <1>2, <1>3, PTL DEF MmSpec

\* MM keeps to its type.
THEOREM MmTypeCorrect == MmSpec => []MmTypeOK
  BY MmInvariant, PTL

-----------------------------------------------------------------------------
(* Session management *)

SmGood(s) == s \in SmType /\ SmTidy(s)

SmResultGood(r) == SmGood(r.sm) /\ r.tx \subseteq SmRequestType

USE DEF SmUnarmed, SmStates

-----------------------------------------------------------------------------

\* The bounds as the leaves about counters, deadlines and PTIs need them.
LEMMA SmBounds ==
  /\ 0 \in 0..UE_SM_MAX_RETRIES
  /\ 0 \in 0..UE_SM_T3580_MAX_RETX
  /\ 0 \in 0..MaxPti
  /\ 1 \in 1..MaxPti
  /\ UE_SM_T3580 \in 0..UE_SM_T3580
  BY SmAssumption

\* ue_sm_init leaves a good context behind.
LEMMA SmInitialGood == SmGood(SmInitial)
  BY SmBounds DEF SmGood, SmInitial, SmType, SmTidy

\* sm_alloc_pti hands out a PTI of 1..MaxPti, across the wrap.
LEMMA SmAllocPtiGood ==
  ASSUME NEW s \in SmType
  PROVE  /\ SmAllocPti(s) \in SmType
         /\ SmAllocPti(s).pti \in 1..MaxPti
         /\ SmAllocPti(s).session_id = s.session_id
         /\ SmAllocPti(s).state = s.state
         /\ SmAllocPti(s).deadline = s.deadline
  <1> DEFINE p == IF s.next_pti \in 1..MaxPti THEN s.next_pti ELSE 1
  <1>1. p \in 1..MaxPti
    BY SmBounds
  <1>2. p \in 0..MaxPti /\ (p % MaxPti) + 1 \in 0..MaxPti
    BY <1>1, SmAssumption
  <1>3. SmAllocPti(s) = [s EXCEPT !.pti = p, !.next_pti = (p % MaxPti) + 1]
    BY DEF SmAllocPti
  <1> HIDE DEF p
  <1>4. SmAllocPti(s) \in SmType
    BY <1>2, <1>3, ZenonT(30) DEF SmType
  <1>5. /\ SmAllocPti(s).pti = p
        /\ SmAllocPti(s).session_id = s.session_id
        /\ SmAllocPti(s).state = s.state
        /\ SmAllocPti(s).deadline = s.deadline
    BY <1>3 DEF SmType
  <1> QED
    BY <1>1, <1>4, <1>5

\* sm_enter_inactive leaves a good, inactive context behind.
LEMMA SmEnterInactiveGood ==
  ASSUME NEW s \in SmType, NEW cc \in BOOLEAN, NEW cd \in BOOLEAN
  PROVE  /\ SmGood(SmEnterInactive(s, cc, cd))
         /\ SmEnterInactive(s, cc, cd).state = "INACTIVE"
         /\ SmEnterInactive(s, cc, cd).retry_count = s.retry_count
         /\ SmEnterInactive(s, cc, cd).session_id = s.session_id
  <1> DEFINE i == SmEnterInactive(s, cc, cd)
             c == s.connect_requested /\ ~cc
             d == s.disconnect_requested /\ ~cd
  <1>1. c \in BOOLEAN /\ d \in BOOLEAN
    OBVIOUS
  <1>2. i = [s EXCEPT !.state = "INACTIVE", !.connect_requested = c,
                      !.disconnect_requested = d, !.deadline = SmUnarmed,
                      !.pti = 0]
    BY DEF SmEnterInactive
  <1> HIDE DEF c, d, i
  <1>3. i \in SmType
    BY <1>1, <1>2, SmBounds, ZenonT(30) DEF SmType
  <1>4. /\ i.state = "INACTIVE" /\ i.deadline = SmUnarmed /\ i.pti = 0
        /\ i.retry_count = s.retry_count /\ i.session_id = s.session_id
    BY <1>2 DEF SmType
  <1>5. SmTidy(i)
    BY <1>4 DEF SmTidy
  <1> QED
    BY <1>3, <1>4, <1>5 DEF SmGood, i

\* ue_sm_on_radio(false) leaves a good, inactive context behind.
LEMMA SmOnRadioOffGood ==
  ASSUME NEW s \in SmType
  PROVE  SmGood(SmOnRadioOff(s)) /\ SmOnRadioOff(s).state = "INACTIVE"
  <1> DEFINE i == SmEnterInactive(s, TRUE, TRUE)
  <1>1. SmGood(i) /\ i.state = "INACTIVE"
    BY SmEnterInactiveGood, ZenonT(30)
  <1>2. SmOnRadioOff(s) = [i EXCEPT !.retry_count = 0]
    BY DEF SmOnRadioOff
  <1> HIDE DEF i
  <1> QED
    BY <1>1, <1>2, SmBounds DEF SmGood, SmTidy, SmType

\* ue_sm_request_connect and ue_sm_request_disconnect keep the context good.
LEMMA SmRequestGood ==
  ASSUME NEW s, SmGood(s)
  PROVE  SmGood(SmRequestConnect(s)) /\ SmGood(SmRequestDisconnect(s))
  BY SmBounds, ZenonT(30) DEF SmGood, SmTidy, SmType, SmRequestConnect, SmRequestDisconnect

\* The requests SM builds are well formed: 0 never goes out as PSI or PTI.
LEMMA SmBuildGood ==
  ASSUME NEW s \in SmType
  PROVE  SmBuildEstablish(s) \in SmRequestType /\ SmBuildRelease(s) \in SmRequestType
  <1>1. OrOne(s.session_id) \in {1}
    BY DEF OrOne, SmType
  <1>2. OrOne(s.pti) \in 1..MaxPti
    BY SmAssumption DEF OrOne, SmType
  <1> QED
    BY <1>1, <1>2 DEF SmBuildEstablish, SmBuildRelease, SmRequest, SmRequestType

\* Returning without a request keeps what is good.
LEMMA SmQuietGood ==
  ASSUME NEW s, SmGood(s)
  PROVE  SmResultGood(SmQuiet(s)) /\ SmQuiet(s).sm = s
  BY DEF SmQuiet, SmResultGood

\* sm_start_establish_request: the PTI is given back at once.
LEMMA SmStartEstablishGood ==
  ASSUME NEW s \in SmType, s.deadline = SmUnarmed
  PROVE  SmResultGood(SmStartEstablish(s))
  <1> DEFINE a == SmAllocPti(s)
             started == [a EXCEPT !.state = "ESTABLISHING",
                                  !.deadline = SmUnarmed, !.est_retx_count = 0]
             req == SmBuildEstablish(started)
             done == [started EXCEPT !.session_id = req.psi, !.pti = 0]
  <1>1. a \in SmType
    BY SmAllocPtiGood
  <1>2. started \in SmType /\ started.state = "ESTABLISHING"
    <2> HIDE DEF a
    <2> QED
      BY <1>1, SmBounds, ZenonT(30) DEF SmType
  <1>3. req \in SmRequestType
    BY <1>2, SmBuildGood
  <1>4. SmStartEstablish(s) = [sm |-> done, tx |-> {req}]
    BY DEF SmStartEstablish
  <1>5. SmGood(done)
    <2> HIDE DEF started, req
    <2>1. req.psi \in {0, 1}
      BY <1>3 DEF SmRequestType
    <2> QED
      BY <1>2, <2>1, SmBounds, ZenonT(30) DEF SmGood, SmTidy, SmType
  <1> HIDE DEF done, req
  <1> QED
    BY <1>3, <1>4, <1>5 DEF SmResultGood

\* sm_start_release_request: the PTI is held while the release is awaited.
LEMMA SmStartReleaseGood ==
  ASSUME NEW s \in SmType
  PROVE  SmResultGood(SmStartRelease(s)) /\ SmStartRelease(s).sm.state = "RELEASING"
  <1> DEFINE a == SmAllocPti(s)
             started == [a EXCEPT !.state = "RELEASING", !.deadline = SmUnarmed]
             req == SmBuildRelease(started)
  <1>1. a \in SmType
    BY SmAllocPtiGood
  <1>2. SmGood(started) /\ started.state = "RELEASING"
    <2> HIDE DEF a
    <2> QED
      BY <1>1, ZenonT(30) DEF SmGood, SmTidy, SmType
  <1>3. req \in SmRequestType
    BY <1>2, SmBuildGood DEF SmGood
  <1>4. SmStartRelease(s) = [sm |-> started, tx |-> {req}]
    BY DEF SmStartRelease
  <1> HIDE DEF started, req
  <1> QED
    BY <1>2, <1>3, <1>4 DEF SmResultGood

\* ue_sm_tick's first part serves a disconnect.
LEMMA SmServeDisconnectGood ==
  ASSUME NEW s, SmGood(s)
  PROVE  SmResultGood(SmServeDisconnect(s))
  <1>1. s \in SmType
    BY DEF SmGood
  <1>2. SmResultGood(SmQuiet(SmEnterInactive(s, FALSE, TRUE)))
    BY <1>1, SmEnterInactiveGood, SmQuietGood, ZenonT(30)
  <1> QED
    BY <1>1, <1>2, SmQuietGood, SmStartReleaseGood, ZenonT(30) DEF SmServeDisconnect

\* Then it serves a connect, in INACTIVE only.
LEMMA SmServeConnectGood ==
  ASSUME NEW s, SmGood(s)
  PROVE  SmResultGood(SmServeConnect(s))
  <1> DEFINE c == [s EXCEPT !.connect_requested = FALSE]
  <1>1. ASSUME s.state = "INACTIVE"
        PROVE  c \in SmType /\ c.deadline = SmUnarmed
    BY <1>1, ZenonT(30) DEF SmGood, SmTidy, SmType
  <1>2. ASSUME s.state = "INACTIVE"
        PROVE  SmResultGood(SmStartEstablish(c))
    <2> HIDE DEF c
    <2> QED
      BY <1>1, <1>2, SmStartEstablishGood
  <1> QED
    BY <1>2, SmQuietGood DEF SmServeConnect

\* T3580 keeps the context good: the retransmission counter stops at its limit.
LEMMA SmGuardEstablishGood ==
  ASSUME NEW s, SmGood(s), s.state = "ESTABLISHING"
  PROVE  SmResultGood(SmGuardEstablish(s))
  <1> DEFINE armed == [s EXCEPT !.deadline = UE_SM_T3580]
             again == [s EXCEPT !.est_retx_count = @ + 1,
                                !.deadline = UE_SM_T3580]
             i == SmEnterInactive(s, TRUE, TRUE)
             over == [i EXCEPT !.est_retx_count = 0]
  <1>1. s \in SmType
    BY DEF SmGood
  <1>2. SmGood(armed)
    BY SmBounds DEF SmGood, SmTidy, SmType
  <1>3. ASSUME s.est_retx_count < UE_SM_T3580_MAX_RETX
        PROVE  SmGood(again)
    <2>1. s.est_retx_count + 1 \in 0..UE_SM_T3580_MAX_RETX
      BY <1>1, <1>3, SmAssumption DEF SmType
    <2> QED
      BY <2>1, SmBounds, ZenonT(30) DEF SmGood, SmTidy, SmType
  <1>4. SmGood(over)
    <2>1. SmGood(i)
      BY <1>1, SmEnterInactiveGood, ZenonT(30)
    <2> HIDE DEF i
    <2> QED
      BY <2>1, SmBounds DEF SmGood, SmTidy, SmType
  <1>5. SmBuildEstablish(s) \in SmRequestType
    BY <1>1, SmBuildGood
  <1>6. ASSUME s.est_retx_count < UE_SM_T3580_MAX_RETX
        PROVE  SmResultGood([sm |-> again, tx |-> {SmBuildEstablish(s)}])
    <2> HIDE DEF again
    <2> QED
      BY <1>3, <1>5, <1>6 DEF SmResultGood
  <1>7. SmResultGood(SmQuiet(armed)) /\ SmResultGood(SmQuiet(over)) /\ SmResultGood(SmQuiet(s))
    BY <1>2, <1>4, SmQuietGood
  <1>8. SmGuardEstablish(s) \in
           {SmQuiet(armed), SmQuiet(over), SmQuiet(s)} \cup
           (IF s.est_retx_count < UE_SM_T3580_MAX_RETX
            THEN {[sm |-> again, tx |-> {SmBuildEstablish(s)}]} ELSE {})
    BY ZenonT(30) DEF SmGuardEstablish
  <1> HIDE DEF armed, again, over
  <1> QED
    BY <1>6, <1>7, <1>8

\* The bounded wait for the release keeps the context good.
LEMMA SmGuardReleaseGood ==
  ASSUME NEW s, SmGood(s), s.state = "RELEASING"
  PROVE  SmGood(SmGuardRelease(s))
  <1>1. SmGood([s EXCEPT !.deadline = UE_SM_T3580])
    BY SmBounds DEF SmGood, SmTidy, SmType
  <1>2. SmGood(SmEnterInactive(s, TRUE, TRUE))
    BY SmEnterInactiveGood, ZenonT(30) DEF SmGood
  <1> QED
    BY <1>1, <1>2, ZenonT(30) DEF SmGuardRelease

\* ue_sm_tick keeps the context good, and leaves SM inactive when MM is not
\* registered.
LEMMA SmTickGood ==
  ASSUME NEW s, SmGood(s), NEW reg \in BOOLEAN
  PROVE  /\ SmResultGood(SmTick(s, reg))
         /\ SmTick(s, reg).sm.state # "INACTIVE" => reg
  <1> DEFINE d == SmServeDisconnect(s)
             c == SmServeConnect(d.sm)
             g == CASE c.sm.state = "ESTABLISHING" -> SmGuardEstablish(c.sm)
                    [] c.sm.state = "RELEASING" -> SmQuiet(SmGuardRelease(c.sm))
                    [] OTHER -> SmQuiet(c.sm)
  <1>1. SmResultGood(d)
    BY SmServeDisconnectGood
  <1>2. SmResultGood(c)
    BY <1>1, SmServeConnectGood DEF SmResultGood
  <1>3. SmResultGood(g)
    <2> HIDE DEF c
    <2>1. SmGood(c.sm)
      BY <1>2 DEF SmResultGood
    <2>2. CASE c.sm.state = "ESTABLISHING"
      BY <2>1, <2>2, SmGuardEstablishGood
    <2>3. CASE c.sm.state = "RELEASING"
      BY <2>1, <2>3, SmGuardReleaseGood, SmQuietGood
    <2>4. CASE c.sm.state \notin {"ESTABLISHING", "RELEASING"}
      BY <2>1, <2>4, SmQuietGood
    <2> QED
      BY <2>2, <2>3, <2>4
  <1>4. CASE reg
    <2>1. SmTick(s, reg) = [sm |-> g.sm, tx |-> d.tx \cup c.tx \cup g.tx]
      BY <1>4 DEF SmTick
    <2> HIDE DEF d, c, g
    <2>2. SmResultGood([sm |-> g.sm, tx |-> d.tx \cup c.tx \cup g.tx])
      BY <1>1, <1>2, <1>3 DEF SmResultGood
    <2> QED
      BY <1>4, <2>1, <2>2, ZenonT(30)
  <1>5. CASE ~reg
    <2>1. SmTick(s, reg) = SmQuiet(SmOnRadioOff(s))
      BY <1>5 DEF SmTick
    <2>2. SmGood(SmOnRadioOff(s)) /\ SmOnRadioOff(s).state = "INACTIVE"
      BY SmOnRadioOffGood DEF SmGood
    <2> QED
      BY <2>1, <2>2, SmQuietGood
  <1> QED
    BY <1>4, <1>5

\* ue_sm_on_pdu_session_established keeps the context good.
LEMMA SmOnEstablishedGood ==
  ASSUME NEW s, SmGood(s)
  PROVE  SmGood(SmOnEstablished(s))
  <1> DEFINE e == [s EXCEPT !.state = "ACTIVE", !.session_id = 0,
                            !.retry_count = 0, !.connect_requested = FALSE,
                            !.deadline = SmUnarmed]
  <1>1. CASE s.state = "ESTABLISHING"
    <2>1. s \in SmType /\ s.pti = 0
      BY <1>1 DEF SmGood, SmTidy
    <2>2. 0 \in {0, 1}
      OBVIOUS
    <2>3. e \in SmType
      BY <2>1, <2>2, SmBounds, ZenonT(120) DEF SmType
    <2>4. e.deadline = SmUnarmed /\ e.pti = 0
      BY <2>1 DEF SmType
    <2>5. SmTidy(e)
      BY <2>4 DEF SmTidy
    <2> QED
      BY <1>1, <2>3, <2>5 DEF SmGood, SmOnEstablished
  <1>2. CASE s.state # "ESTABLISHING"
    BY <1>2 DEF SmOnEstablished
  <1> QED
    BY <1>1, <1>2

\* ue_sm_on_pdu_session_reject keeps the context good: the retry counter stops
\* at its limit.
LEMMA SmOnRejectGood ==
  ASSUME NEW s, SmGood(s), NEW temporary \in BOOLEAN
  PROVE  /\ SmResultGood(SmOnReject(s, temporary))
         /\ s.state # "ESTABLISHING" => SmOnReject(s, temporary) = SmQuiet(s)
  <1> DEFINE off == SmEnterInactive(s, FALSE, TRUE)
             again == [off EXCEPT !.retry_count = @ + 1,
                                  !.connect_requested = TRUE]
             final == [off EXCEPT !.connect_requested = FALSE,
                                  !.retry_count = 0]
  <1>1. /\ SmGood(off) /\ off.state = "INACTIVE"
        /\ off.retry_count = s.retry_count /\ s \in SmType
    BY SmEnterInactiveGood, ZenonT(30) DEF SmGood
  <1>2. ASSUME s.retry_count < UE_SM_MAX_RETRIES
        PROVE  SmResultGood(SmStartEstablish(again))
    <2> HIDE DEF off
    <2>1. off.retry_count + 1 \in 0..UE_SM_MAX_RETRIES
      BY <1>1, <1>2, SmAssumption DEF SmType
    <2>2. again \in SmType /\ again.deadline = SmUnarmed
      BY <1>1, <2>1, ZenonT(30) DEF SmGood, SmTidy, SmType
    <2> QED
      BY <2>2, SmStartEstablishGood, ZenonT(30)
  <1>3. SmResultGood(SmQuiet(final))
    <2> HIDE DEF off
    <2>1. SmGood(final)
      BY <1>1, SmBounds, ZenonT(30) DEF SmGood, SmTidy, SmType
    <2> QED
      BY <2>1, SmQuietGood
  <1>4. CASE s.state # "ESTABLISHING"
    BY <1>4, SmQuietGood DEF SmOnReject
  <1>5. CASE /\ s.state = "ESTABLISHING" /\ temporary
             /\ s.retry_count < UE_SM_MAX_RETRIES
    <2>1. SmOnReject(s, temporary) = SmStartEstablish(again)
      BY <1>5 DEF SmOnReject
    <2> QED
      BY <1>2, <1>5, <2>1, ZenonT(30)
  <1>6. CASE /\ s.state = "ESTABLISHING"
             /\ ~(temporary /\ s.retry_count < UE_SM_MAX_RETRIES)
    <2>1. SmOnReject(s, temporary) = SmQuiet(final)
      BY <1>6 DEF SmOnReject
    <2> QED
      BY <1>3, <1>6, <2>1
  <1> QED
    BY <1>4, <1>5, <1>6

\* ue_sm_on_pdu_session_released keeps the context good.
LEMMA SmOnReleasedGood ==
  ASSUME NEW s, SmGood(s)
  PROVE  /\ SmGood(SmOnReleased(s))
         /\ SmOnReleased(s).state \in {"INACTIVE", "ESTABLISHING"}
  <1>1. s.state \in SmStates /\ s \in SmType
    BY DEF SmGood, SmType
  <1> QED
    BY <1>1, SmOnRadioOffGood DEF SmOnReleased

\* Time passing keeps the context good.
LEMMA SmElapseGood ==
  ASSUME NEW s, SmGood(s)
  PROVE  SmGood(SmElapse(s)) /\ SmElapse(s).state = s.state
  <1>1. s.deadline \in {SmUnarmed} \cup 0..UE_SM_T3580
    BY DEF SmGood, SmType
  <1>2. (IF s.deadline > 0 THEN s.deadline - 1 ELSE s.deadline)
           \in {SmUnarmed} \cup 0..UE_SM_T3580
    BY <1>1, SmAssumption
  <1>3. SmElapse(s) \in SmType
    BY <1>2 DEF SmElapse, SmType, SmGood
  <1>4. SmTidy(SmElapse(s)) /\ SmElapse(s).state = s.state
    BY <1>1 DEF SmElapse, SmType, SmGood, SmTidy
  <1> QED
    BY <1>3, <1>4 DEF SmGood

-----------------------------------------------------------------------------

\* The inductive invariant of SM on its own, with a network that answers any
\* request it holds, in any order, or loses it.
THEOREM SmInvariant == SmSpec => [](SmTypeOK /\ SmNothingLeftOver)
  <1> DEFINE Inv == SmGood(sm) /\ requests \subseteq SmRequestType
  <1>1. SmInit => Inv
    BY SmInitialGood DEF SmInit
  <1>2. ASSUME Inv, [SmNext]_smVars
        PROVE  Inv'
    <2>1. ASSUME NEW r, SmResultGood(r), SmApply(r)
          PROVE  Inv'
      BY <1>2, <2>1 DEF SmApply, SmResultGood
    <2>2. CASE SmConnectStep
      BY <1>2, <2>1, <2>2, SmRequestGood, SmQuietGood DEF SmConnectStep
    <2>3. CASE SmDisconnectStep
      BY <1>2, <2>1, <2>3, SmRequestGood, SmQuietGood DEF SmDisconnectStep
    <2>4. CASE SmRadioOffStep
      <3>1. SmGood(SmOnRadioOff(sm))
        BY <1>2, SmOnRadioOffGood DEF SmGood
      <3> QED
        BY <2>1, <2>4, <3>1, SmQuietGood DEF SmRadioOffStep
    <2>5. CASE \E mm_registered \in BOOLEAN : SmTickStep(mm_registered)
      BY <1>2, <2>1, <2>5, SmTickGood DEF SmTickStep
    <2>6. CASE SmAcceptStep
      BY <1>2, <2>6, SmOnEstablishedGood DEF SmAcceptStep
    <2>7. CASE SmRejectStep
      <3>1. PICK r \in SmAnswered("estRequest"), temporary \in BOOLEAN :
              /\ sm' = SmOnReject(sm, temporary).sm
              /\ requests' = (requests \ {r}) \cup SmOnReject(sm, temporary).tx
        BY <2>7 DEF SmRejectStep
      <3>2. SmResultGood(SmOnReject(sm, temporary))
        BY <1>2, SmOnRejectGood
      <3> QED
        BY <1>2, <3>1, <3>2 DEF SmResultGood
    <2>8. CASE SmReleaseStep
      BY <1>2, <2>8, SmOnReleasedGood DEF SmReleaseStep
    <2>9. CASE SmLoseStep
      BY <1>2, <2>9 DEF SmLoseStep
    <2>10. CASE SmElapseStep
      BY <1>2, <2>1, <2>10, SmElapseGood, SmQuietGood DEF SmElapseStep
    <2>11. CASE UNCHANGED smVars
      BY <1>2, <2>11 DEF smVars
    <2> QED
      BY <1>2, <2>2, <2>3, <2>4, <2>5, <2>6, <2>7, <2>8, <2>9, <2>10, <2>11
         DEF SmNext
  <1>3. Inv => SmTypeOK /\ SmNothingLeftOver
    BY DEF SmGood, SmTypeOK, SmNothingLeftOver
  <1> QED
    BY <1>1, <1>2, <1>3, PTL DEF SmSpec

\* SM keeps to its type, and the network holds only requests SM can have sent.
THEOREM SmTypeCorrect == SmSpec => []SmTypeOK
  BY SmInvariant, PTL

-----------------------------------------------------------------------------
(* The engine *)

\* While a tick is under way the radio is on and SM is out of INACTIVE only if
\* MM is registered.  Only a tick can show the host that SM is active, and
\* between two ticks this may fail: a host command may have moved MM.
DrainIsConsistent ==
    phase = "drain" =>
        /\ radio_on
        /\ sm.state # "INACTIVE" => mm.state = "REGISTERED_HOME"

EngineInv ==
    /\ MmGood(mm)
    /\ SmGood(sm)
    /\ requests \subseteq RequestType
    /\ radio_on \in BOOLEAN
    /\ ran \in RanStates
    /\ rrc \in RrcType
    /\ sec \in SecType
    /\ up \in UpType
    /\ ims \in ImsType
    /\ dl \in Seq(MessageType) /\ Len(dl) <= NasQueueSize
    /\ phase \in {"idle", "drain"}
    /\ modem \in ModemType
    /\ gnb \in GnbType
    /\ budget \in BudgetType
    /\ DrainIsConsistent
    /\ AttachedOnlyIfRegistered
    /\ RadioOffIsQuiet

-----------------------------------------------------------------------------
(* The user-plane table *)

\* ue_up_bind_session_ex keeps the table's type.
LEMMA UpBindType ==
  ASSUME NEW u \in UpType, NEW psi \in 0..MaxPsi,
         NEW host \in BOOLEAN, NEW c \in BOOLEAN
  PROVE  UpBind(u, psi, host, c) \in UpType
  <1>1. (IF host THEN psi ELSE u.host_psi) \in 0..MaxPsi
    BY DEF UpType
  <1>2. [u.sessions EXCEPT ![psi] = IF host THEN "host" ELSE "internal"]
           \in [1..MaxPsi -> {"unused", "host", "internal"}]
    BY ZenonT(30) DEF UpType
  <1>3. u.state \in {"IDLE", "BINDING", "ACTIVE", "SUSPENDED"}
    BY DEF UpType
  <1> QED
    BY <1>1, <1>2, <1>3 DEF UpBind, UpType

\* ue_up_unbind_session_psi keeps it, for any id.
LEMMA UpUnbindPsiType ==
  ASSUME NEW u \in UpType, NEW psi \in 0..MaxPsi
  PROVE  UpUnbindPsi(u, psi) \in UpType
  <1>1. [u.sessions EXCEPT ![psi] = "unused"]
           \in [1..MaxPsi -> {"unused", "host", "internal"}]
    BY ZenonT(30) DEF UpType
  <1>2. 0 \in 0..MaxPsi
    BY UpAssumption
  <1>3. [u EXCEPT !.sessions[psi] = "unused"] \in UpType
    BY ZenonT(30) DEF UpType
  <1> QED
    BY <1>1, <1>2, <1>3 DEF UpUnbindPsi, UpType

\* ue_up_unbind_session keeps it.
LEMMA UpUnbindType ==
  ASSUME NEW u \in UpType
  PROVE  UpUnbind(u) \in UpType
  <1> DEFINE v == UpUnbindPsi(u, u.host_psi)
  <1>1. v \in UpType
    BY UpUnbindPsiType DEF UpType
  <1>2. [v EXCEPT !.state = "IDLE"] \in UpType
    <2> HIDE DEF v
    <2> QED
      BY <1>1 DEF UpType
  <1> QED
    BY <1>2 DEF UpUnbind

\* ue_up_tick keeps it.
LEMMA UpTickType ==
  ASSUME NEW u \in UpType, NEW c \in BOOLEAN
  PROVE  UpTick(u, c) \in UpType
  BY DEF UpTick, UpType

-----------------------------------------------------------------------------
(* Helpers of the engine *)

\* engine_clear_sm_runtime leaves the state alone and, of an inactive context, a
\* good one behind.
LEMMA SmClearRuntimeGood ==
  ASSUME NEW s \in SmType
  PROVE  SmGood(SmClearRuntime(s)) /\ SmClearRuntime(s).state = s.state
  <1> DEFINE c == SmClearRuntime(s)
  <1>1. c \in SmType
    BY SmBounds, ZenonT(30) DEF SmClearRuntime, SmType
  <1>2. c.state = s.state /\ c.deadline = SmUnarmed /\ c.pti = 0
    BY DEF SmClearRuntime, SmType
  <1> QED
    BY <1>1, <1>2 DEF SmGood, SmTidy

\* What SM and MM send are requests the network understands.
LEMMA RequestsTyped ==
  /\ SmRequestType \subseteq RequestType
  /\ \A type \in MmRequestKinds : Request(type) \in RequestType
  BY UpAssumption, SmAssumption
     DEF SmRequestType, RequestType, Request, SmRequest, MmRequestKinds

\* Sending keeps the set of unanswered requests typed.
LEMMA SentTyped ==
  ASSUME requests \subseteq RequestType, NEW msgs, msgs \subseteq RequestType
  PROVE  Sent(msgs) \subseteq RequestType
  BY DEF Sent

\* The bounds of RRC's timers as the leaves need them.
LEMMA RrcBounds ==
  /\ 0 \in 0..RrcSetupTimeout /\ RrcSetupTimeout \in 0..RrcSetupTimeout
  /\ 0 \in 0..CoreWindow /\ CoreWindow \in 0..CoreWindow
  BY EngineAssumption

\* RrcIdle and SecNone are states of RRC and of the security context.
LEMMA IdleTyped == RrcIdle \in RrcType /\ SecNone \in SecType
  BY RrcBounds DEF RrcIdle, RrcType, SecNone, SecType

\* engine_forget_network_context leaves typed, empty contexts behind.
LEMMA ForgetTyped ==
  ASSUME up \in UpType, ims \in ImsType, ForgetNetworkContext
  PROVE  /\ rrc' \in RrcType /\ sec' \in SecType /\ up' \in UpType /\ ims' \in ImsType
         /\ rrc' = RrcIdle /\ sec' = SecNone
         /\ ~ims'.requested /\ ~ims'.establishing /\ ~ims'.active
  <1>1. ims.psi \in 0..MaxPsi
    BY DEF ImsType
  <1>2. up' \in UpType
    BY <1>1, UpUnbindPsiType DEF ForgetNetworkContext
  <1>3. /\ ims' \in ImsType
        /\ ims'.requested = FALSE /\ ims'.establishing = FALSE /\ ims'.active = FALSE
    BY ZenonT(30) DEF ForgetNetworkContext, ImsType
  <1> QED
    BY <1>2, <1>3, IdleTyped DEF ForgetNetworkContext

\* The drain loop takes a typed message and leaves a queue within its size.
LEMMA ReceiveTyped ==
  ASSUME EngineInv, NEW type, Receive(type)
  PROVE  /\ Head(dl) \in MessageType
         /\ dl' \in Seq(MessageType) /\ Len(dl') <= NasQueueSize
         /\ phase = "drain" /\ radio_on
         /\ UNCHANGED <<radio_on, ran, phase, modem, gnb, budget>>
  BY EngineAssumption DEF EngineInv, Receive, DrainIsConsistent

-----------------------------------------------------------------------------
(* The drain loop *)

\* A handler of the drain loop keeps the invariant if it keeps the contexts it
\* writes typed and does not part SM from MM.
LEMMA DrainStep ==
  ASSUME EngineInv, NEW type, Receive(type),
         MmGood(mm)', SmGood(sm)', (requests \subseteq RequestType)',
         (rrc \in RrcType)', (sec \in SecType)', (up \in UpType)',
         (ims \in ImsType)',
         sm'.state # "INACTIVE" => mm'.state = "REGISTERED_HOME"
  PROVE  EngineInv'
  <1>1. /\ dl' \in Seq(MessageType) /\ Len(dl') <= NasQueueSize
        /\ phase = "drain" /\ radio_on
        /\ UNCHANGED <<radio_on, ran, phase, modem, gnb, budget>>
    BY ReceiveTyped
  <1>2. DrainIsConsistent' /\ RadioOffIsQuiet'
    BY <1>1 DEF DrainIsConsistent, RadioOffIsQuiet
  <1>3. AttachedOnlyIfRegistered'
    BY <1>1 DEF EngineInv, AttachedOnlyIfRegistered
  <1> QED
    BY <1>1, <1>2, <1>3 DEF EngineInv

\* RRC may stop waiting for the core at any time.
LEMMA RrcDone ==
  ASSUME NEW r \in RrcType
  PROVE  [r EXCEPT !.waiting = FALSE, !.window_left = 0] \in RrcType
  BY RrcBounds, ZenonT(30) DEF RrcType

\* A message dropped for want of a security context changes nothing else.
LEMMA DropProtectedInv ==
  ASSUME EngineInv, DropProtected
  PROVE  EngineInv'
  <1>1. PICK type \in Protected : Receive(type)
    BY DEF DropProtected
  <1>2. UNCHANGED <<mm, sm, requests, rrc, sec, up, ims>> /\ Receive(type)
    BY <1>1 DEF DropProtected
  <1>3. phase = "drain"
    BY <1>1 DEF Receive
  <1> QED
    BY <1>2, <1>3, DrainStep DEF EngineInv, DrainIsConsistent

\* engine_handle_rrc_setup.
LEMMA HandleRrcSetupInv ==
  ASSUME EngineInv, HandleRrcSetup
  PROVE  EngineInv'
  <1>1. Receive("rrcSetup") /\ UNCHANGED <<mm, sm, sec, up, ims>>
    BY DEF HandleRrcSetup
  <1>2. requests' \subseteq RequestType
    <2>1. {Request("regInitial")} \subseteq RequestType /\ {Request("regUpdate")} \subseteq RequestType
      BY RequestsTyped DEF MmRequestKinds
    <2>2. \E msgs \in SUBSET RequestType : requests' = Sent(msgs)
      BY <2>1 DEF HandleRrcSetup
    <2> QED
      BY <2>2, SentTyped DEF EngineInv
  <1>3. rrc' \in RrcType
    BY RrcBounds DEF HandleRrcSetup, RrcType
  <1>4. phase = "drain"
    BY <1>1, ZenonT(30) DEF Receive
  <1> QED
    BY <1>1, <1>2, <1>3, <1>4, DrainStep DEF EngineInv, DrainIsConsistent

\* The Authentication Request handler.
LEMMA HandleAuthenticationRequestInv ==
  ASSUME EngineInv, HandleAuthenticationRequest
  PROVE  EngineInv'
  <1>1. Receive("authRequest") /\ UNCHANGED <<mm, sm, rrc, up, ims>>
    BY DEF HandleAuthenticationRequest
  <1>2. requests' \subseteq RequestType
    BY RequestsTyped, SentTyped
       DEF MmRequestKinds, HandleAuthenticationRequest, EngineInv
  <1>3. sec' \in SecType
    BY ZenonT(30) DEF HandleAuthenticationRequest, SecType, EngineInv
  <1>4. phase = "drain"
    BY <1>1 DEF Receive
  <1> QED
    BY <1>1, <1>2, <1>3, <1>4, DrainStep DEF EngineInv, DrainIsConsistent

\* The Security Mode Command handler.
LEMMA HandleSecurityModeCommandInv ==
  ASSUME EngineInv, HandleSecurityModeCommand
  PROVE  EngineInv'
  <1>1. Receive("securityModeCommand") /\ UNCHANGED <<mm, sm, rrc, up, ims>>
    BY DEF HandleSecurityModeCommand
  <1>2. requests' \subseteq RequestType
    BY RequestsTyped, SentTyped
       DEF MmRequestKinds, HandleSecurityModeCommand, EngineInv
  <1>3. sec' \in SecType
    BY ZenonT(30) DEF HandleSecurityModeCommand, SecType, EngineInv
  <1>4. phase = "drain"
    BY <1>1, ZenonT(30) DEF Receive
  <1> QED
    BY <1>1, <1>2, <1>3, <1>4, DrainStep DEF EngineInv, DrainIsConsistent

\* The Registration Accept handler: an MM that was registered stays so.
LEMMA HandleRegistrationAcceptInv ==
  ASSUME EngineInv, HandleRegistrationAccept
  PROVE  EngineInv'
  <1>1. Receive("regAccept") /\ UNCHANGED <<sm, requests, up, ims>>
    BY DEF HandleRegistrationAccept
  <1>2. MmGood(mm')
    BY MmAcceptGood DEF HandleRegistrationAccept, EngineInv
  <1>3. mm.state = "REGISTERED_HOME" => mm'.state = "REGISTERED_HOME"
    BY ZenonT(30) DEF HandleRegistrationAccept, MmOnRegistrationAccept
  <1>4. rrc' \in RrcType
    BY RrcDone, ZenonT(30) DEF HandleRegistrationAccept, EngineInv
  <1>5. sec' \in SecType
    BY ZenonT(30) DEF HandleRegistrationAccept, SecType, EngineInv
  <1>6. phase = "drain"
    BY <1>1 DEF Receive
  <1> QED
    BY <1>1, <1>2, <1>3, <1>4, <1>5, <1>6, DrainStep
       DEF EngineInv, DrainIsConsistent

\* The Registration Reject handler: it reaches an MM in REGISTERING only, and
\* then SM is inactive.
LEMMA HandleRegistrationRejectInv ==
  ASSUME EngineInv, HandleRegistrationReject
  PROVE  EngineInv'
  <1>1. Receive("regReject") /\ UNCHANGED <<sm, requests, sec, up, ims>>
    BY DEF HandleRegistrationReject
  <1>2. Head(dl).temporary \in BOOLEAN
    BY <1>1, ReceiveTyped DEF MessageType
  <1>3. MmGood(mm')
    BY <1>2, MmRejectGood DEF HandleRegistrationReject, EngineInv
  <1>4. mm.state = "REGISTERED_HOME" => mm'.state = "REGISTERED_HOME"
    BY DEF HandleRegistrationReject, MmOnRegistrationReject
  <1>5. rrc' \in RrcType
    BY RrcDone, ZenonT(30) DEF HandleRegistrationReject, EngineInv
  <1>6. phase = "drain"
    BY <1>1 DEF Receive
  <1> QED
    BY <1>1, <1>3, <1>4, <1>5, <1>6, DrainStep DEF EngineInv, DrainIsConsistent

\* The PDU Session Establishment Accept handler: SM moves to ACTIVE from
\* ESTABLISHING only, where MM is registered.
LEMMA HandlePduAcceptInv ==
  ASSUME EngineInv, HandlePduAccept
  PROVE  EngineInv'
  <1> DEFINE msg == Head(dl)
  <1>1. Receive("pduAccept") /\ UNCHANGED <<mm, requests, rrc, sec>>
    BY DEF HandlePduAccept
  <1>2. phase = "drain"
    BY <1>1 DEF Receive
  <1>3. msg.psi \in 0..MaxPsi /\ OrOne(msg.psi) \in 0..MaxPsi
    <2>1. msg.psi \in 0..MaxPsi
      BY <1>1, ReceiveTyped DEF MessageType
    <2> QED
      BY <2>1, UpAssumption DEF OrOne
  <1>4. Connected \in BOOLEAN /\ up \in UpType
    BY DEF Connected, EngineInv
  <1> HIDE DEF msg
  <1>5. CASE ForIms(msg)
    <2>1. /\ ims' = [ims EXCEPT !.establishing = FALSE, !.active = TRUE]
          /\ up' = UpBind(up, msg.psi, FALSE, Connected)
          /\ UNCHANGED sm
      BY <1>5, ZenonT(30) DEF HandlePduAccept, msg
    <2>2. ims' \in ImsType
      BY <2>1, ZenonT(30) DEF ImsType, EngineInv
    <2>3. up' \in UpType
      BY <2>1, <1>3, <1>4, UpBindType, ZenonT(30)
    <2> QED
      BY <1>1, <1>2, <2>1, <2>2, <2>3, DrainStep, ZenonT(30) DEF EngineInv, DrainIsConsistent
  <1>6. CASE ~ForIms(msg) /\ sm.state = "ESTABLISHING"
    <2>1. /\ sm' = SmOnEstablished([sm EXCEPT !.session_id = msg.psi])
          /\ up' = UpBind(up, OrOne(msg.psi), TRUE, Connected)
          /\ UNCHANGED ims
      BY <1>6 DEF HandlePduAccept, msg
    <2>2. SmOnEstablished([sm EXCEPT !.session_id = msg.psi]) = SmOnEstablished(sm)
      BY <1>6, ZenonT(30) DEF SmOnEstablished, EngineInv, SmGood, SmType
    <2>3. SmGood(sm')
      BY <2>1, <2>2, SmOnEstablishedGood DEF EngineInv
    <2>4. up' \in UpType
      BY <2>1, <1>3, <1>4, UpBindType, ZenonT(30)
    <2>5. mm.state = "REGISTERED_HOME"
      BY <1>2, <1>6 DEF EngineInv, DrainIsConsistent
    <2> QED
      BY <1>1, <2>1, <2>3, <2>4, <2>5, DrainStep, ZenonT(30) DEF EngineInv
  <1>7. CASE ~ForIms(msg) /\ sm.state # "ESTABLISHING"
    <2>1. UNCHANGED <<sm, up, ims>>
      BY <1>7 DEF HandlePduAccept, msg
    <2> QED
      BY <1>1, <1>2, <2>1, DrainStep DEF EngineInv, DrainIsConsistent
  <1> QED
    BY <1>5, <1>6, <1>7

\* The PDU Session Establishment Reject handler.
LEMMA HandlePduRejectInv ==
  ASSUME EngineInv, HandlePduReject
  PROVE  EngineInv'
  <1> DEFINE msg == Head(dl)
             r == SmOnReject(sm, msg.temporary)
  <1>1. Receive("pduReject") /\ UNCHANGED <<mm, rrc, sec, up>>
    BY DEF HandlePduReject
  <1>2. phase = "drain"
    BY <1>1 DEF Receive
  <1>3. msg.temporary \in BOOLEAN
    BY <1>1, ReceiveTyped, ZenonT(30) DEF MessageType
  <1>4. SmResultGood(r) /\ (sm.state # "ESTABLISHING" => r.sm = sm)
    BY <1>3, SmOnRejectGood, SmQuietGood DEF EngineInv
  <1> HIDE DEF msg, r
  <1>5. CASE ForIms(msg)
    <2>1. /\ ims' = [ims EXCEPT !.establishing = FALSE, !.requested = FALSE,
                                !.active = FALSE]
          /\ UNCHANGED <<sm, requests>>
      BY <1>5 DEF HandlePduReject, msg
    <2>2. ims' \in ImsType
      BY <2>1, ZenonT(30) DEF ImsType, EngineInv
    <2> QED
      BY <1>1, <1>2, <2>1, <2>2, DrainStep DEF EngineInv, DrainIsConsistent
  <1>6. CASE ~ForIms(msg)
    <2>1. sm' = r.sm /\ requests' = Sent(r.tx) /\ UNCHANGED ims
      BY <1>6 DEF HandlePduReject, msg, r
    <2>2. SmGood(sm') /\ requests' \subseteq RequestType
      BY <1>4, <2>1, RequestsTyped, SentTyped DEF SmResultGood, EngineInv
    <2>3. sm'.state # "INACTIVE" => mm'.state = "REGISTERED_HOME"
      BY <1>1, <1>2, <1>4, <2>1 DEF EngineInv, DrainIsConsistent
    <2> QED
      BY <1>1, <2>1, <2>2, <2>3, DrainStep DEF EngineInv
  <1> QED
    BY <1>5, <1>6

\* The PDU Session Release Command handler.
LEMMA HandleReleaseCommandInv ==
  ASSUME EngineInv, HandleReleaseCommand
  PROVE  EngineInv'
  <1>1. Receive("releaseCommand") /\ UNCHANGED <<mm, requests, rrc, sec>>
    BY DEF HandleReleaseCommand
  <1>2. phase = "drain"
    BY <1>1 DEF Receive
  <1>3. CASE ims.active /\ Head(dl).psi = ims.psi
    <2>1. /\ ims' = [ims EXCEPT !.active = FALSE, !.requested = FALSE,
                                !.establishing = FALSE]
          /\ up' = UpUnbindPsi(up, ims.psi)
          /\ UNCHANGED sm
      BY <1>3 DEF HandleReleaseCommand
    <2>2. ims' \in ImsType /\ ims.psi \in 0..MaxPsi
      BY <2>1, ZenonT(30) DEF ImsType, EngineInv
    <2>3. up' \in UpType
      BY <2>1, <2>2, UpUnbindPsiType, ZenonT(30) DEF EngineInv
    <2> QED
      BY <1>1, <1>2, <2>1, <2>2, <2>3, DrainStep DEF EngineInv, DrainIsConsistent
  <1>4. CASE ~(ims.active /\ Head(dl).psi = ims.psi)
    <2>1. up' = UpUnbind(up) /\ sm' = SmOnReleased(sm) /\ UNCHANGED ims
      BY <1>4 DEF HandleReleaseCommand
    <2>2. SmGood(sm') /\ up' \in UpType
      BY <2>1, SmOnReleasedGood, UpUnbindType DEF EngineInv
    <2>3. sm'.state # "INACTIVE" => sm' = sm
      BY <2>1, SmOnRadioOffGood DEF SmOnReleased, EngineInv, SmGood
    <2> QED
      BY <1>1, <1>2, <2>1, <2>2, <2>3, DrainStep DEF EngineInv, DrainIsConsistent
  <1> QED
    BY <1>3, <1>4

-----------------------------------------------------------------------------
(* The rest of the tick *)

\* The tick of a UE whose radio is off publishes an inactive SM.
LEMMA TickRadioOffInv ==
  ASSUME EngineInv, TickRadioOff
  PROVE  EngineInv'
  <1>1. /\ UNCHANGED <<mm, sm, requests, radio_on, ran, sec, ims, dl, phase, gnb, budget>>
        /\ ~radio_on /\ rrc' = RrcIdle
    BY DEF TickRadioOff
  <1>2. up' \in UpType
    BY UpTickType, ZenonT(30) DEF TickRadioOff, Connected, EngineInv
  <1>3. sm.state = "INACTIVE"
    BY <1>1 DEF EngineInv, RadioOffIsQuiet
  <1>4. modem' \in ModemType /\ AttachedOnlyIfRegistered'
    BY <1>3, ZenonT(30) DEF TickRadioOff, Publish, ModemType, AttachedOnlyIfRegistered
  <1>5. RadioOffIsQuiet'
    BY <1>1 DEF EngineInv, RadioOffIsQuiet
  <1>6. DrainIsConsistent'
    BY <1>1 DEF EngineInv, DrainIsConsistent
  <1> QED
    BY <1>1, <1>2, <1>4, <1>5, <1>6, IdleTyped DEF EngineInv

\* The recovery from a lost link leaves a good MM behind, searching again.
LEMMA MmRecovered ==
  ASSUME NEW m, MmGood(m)
  PROVE  MmGood(MmRequest(MmOnRadio(MmOnRadio(m, FALSE), TRUE), "INITIAL"))
  <1>1. MmGood(MmOnRadio(m, FALSE))
    BY MmOnRadioGood, ZenonT(30)
  <1>2. MmGood(MmOnRadio(MmOnRadio(m, FALSE), TRUE))
    BY <1>1, MmOnRadioGood, ZenonT(30)
  <1> QED
    BY <1>2, MmRequestGood, ZenonT(30) DEF RegTypes

\* Steps 1b and 2 of the tick: SM leaves INACTIVE, or stays out of it, only for
\* an MM that is registered at that point.
LEMMA TickStartInv ==
  ASSUME EngineInv, TickStart
  PROVE  EngineInv'
  <1> DEFINE lost == /\ ran = "LOST"
                     /\ mm.state = "REGISTERED_HOME" \/ sm.state = "ACTIVE"
             mm1 == IF lost
                    THEN MmRequest(MmOnRadio(MmOnRadio(mm, FALSE), TRUE), "INITIAL")
                    ELSE mm
             sm1 == IF lost THEN SmOnRadioOff(SmClearRuntime(sm)) ELSE sm
             mm2 == IF rrc.waiting /\ ~lost THEN mm1 ELSE MmTick(mm1)
             r == SmTick(sm1, mm2.state = "REGISTERED_HOME")
  <1>1. /\ radio_on /\ phase' = "drain"
        /\ mm' = mm2 /\ sm' = r.sm /\ requests' = Sent(r.tx)
        /\ IF lost THEN ForgetNetworkContext ELSE UNCHANGED <<rrc, sec, up, ims>>
        /\ UNCHANGED <<radio_on, ran, dl, modem, gnb, budget>>
    BY DEF TickStart
  <1>2. MmGood(mm1)
    BY MmRecovered, ZenonT(30) DEF EngineInv
  <1>3. MmGood(mm2)
    <2> HIDE DEF mm1
    <2> QED
      BY <1>2, MmTickGood, ZenonT(30)
  <1>4. SmGood(sm1)
    BY SmClearRuntimeGood, SmOnRadioOffGood DEF EngineInv, SmGood
  <1>5. /\ SmResultGood(r)
        /\ r.sm.state # "INACTIVE" => mm2.state = "REGISTERED_HOME"
    <2> HIDE DEF sm1, mm2
    <2> QED
      BY <1>4, SmTickGood, ZenonT(30)
  <1>6. rrc' \in RrcType /\ sec' \in SecType /\ up' \in UpType /\ ims' \in ImsType
    <2> HIDE DEF lost
    <2> QED
      BY <1>1, ForgetTyped, ZenonT(30) DEF EngineInv
  <1> HIDE DEF lost, mm2, r
  <1>7. SmGood(sm') /\ requests' \subseteq RequestType
    BY <1>1, <1>5, RequestsTyped, SentTyped, ZenonT(30) DEF SmResultGood, EngineInv
  <1>8. DrainIsConsistent' /\ RadioOffIsQuiet'
    BY <1>1, <1>5 DEF DrainIsConsistent, RadioOffIsQuiet
  <1>9. AttachedOnlyIfRegistered'
    BY <1>1 DEF EngineInv, AttachedOnlyIfRegistered
  <1> QED
    BY <1>1, <1>3, <1>6, <1>7, <1>8, <1>9, ZenonT(30) DEF EngineInv

\* Steps 5b to 5d keep RRC typed.
LEMMA RrcTailTyped ==
  ASSUME NEW q \in RrcType, NEW m
  PROVE  RrcLinkLost(RrcWindowExpires(RrcSetupExpires(RrcRequested(q, m)), m)) \in RrcType
  <1>1. ASSUME NEW r \in RrcType
        PROVE  /\ RrcRequested(r, m) \in RrcType
               /\ RrcSetupExpires(r) \in RrcType
               /\ RrcWindowExpires(r, m) \in RrcType
               /\ RrcLinkLost(r) \in RrcType
    BY RrcBounds, ZenonT(30)
       DEF RrcType, RrcRequested, RrcSetupExpires, RrcWindowExpires, RrcLinkLost
  <1> QED
    BY <1>1

\* ue_engine_request_ims_pdu picks an id of the table and a PTI in range.
LEMMA ImsRequestedTyped ==
  ASSUME ims \in ImsType, ImsPsi # {}
  PROVE  ImsRequested \in ImsType
  <1>4. (CHOOSE psi \in ImsPsi : TRUE) \in ImsPsi
    OBVIOUS
  <1>5. ImsPsi \subseteq 0..MaxPsi
    BY UpAssumption DEF ImsPsi
  <1>6. (IF ims.pti \in {0, MaxPti} THEN 2 ELSE ims.pti + 1) \in 0..MaxPti
    <2>1. ims.pti \in 0..MaxPti /\ MaxPti \in Nat /\ MaxPti > 1
      BY SmAssumption, EngineAssumption, ZenonT(30) DEF ImsType
    <2> QED
      BY <2>1
  <1> QED
    BY <1>4, <1>5, <1>6, ZenonT(30) DEF ImsRequested, ImsType

\* Steps 4 to 6: what is published is SM and MM as the drain loop left them, MM
\* registered if SM is active.
LEMMA TickTailInv ==
  ASSUME EngineInv, TickTail
  PROVE  EngineInv'
  <1> DEFINE m == SearchEnds(mm)
             s == AutoConnect(sm)
             r == RrcLinkLost(RrcWindowExpires(RrcSetupExpires(RrcRequested(rrc, m)), m))
  <1>1. /\ phase = "drain" /\ phase' = "idle" /\ radio_on
        /\ mm' = m /\ sm' = s /\ rrc' = r
        /\ up' = UpTick(up, Connected)
        /\ ims' = IF ImsDue(r) THEN ImsRequested ELSE ims
        /\ modem' = [registered_home |-> m.state = "REGISTERED_HOME",
                     packet_attached |-> s.state = "ACTIVE"]
        /\ UNCHANGED <<radio_on, ran, sec, dl, gnb, budget>>
    BY ZenonT(30) DEF TickTail, Publish, EngineInv, DrainIsConsistent
  <1>2. MmGood(m) /\ (mm.state = "REGISTERED_HOME" => m.state = "REGISTERED_HOME")
    BY MmTransitionGood DEF SearchEnds, EngineInv
  <1>3. SmGood(s) /\ s.state = sm.state
    BY ZenonT(30) DEF AutoConnect, EngineInv, SmGood, SmTidy, SmType
  <1>4. r \in RrcType
    BY RrcTailTyped DEF EngineInv
  <1>5. up' \in UpType
    BY <1>1, UpTickType, ZenonT(30) DEF Connected, EngineInv
  <1>6. ims' \in ImsType
    BY <1>1, ImsRequestedTyped DEF ImsDue, EngineInv
  <1>7. requests' \subseteq RequestType
    <2>1. /\ Request("rrcSetupRequest") \in RequestType
          /\ Request("regUpdate") \in RequestType
      BY RequestsTyped DEF MmRequestKinds
    <2>2. SmRequest("estRequest", ims'.psi, ims'.pti) \in RequestType
      BY <1>6 DEF SmRequest, RequestType, ImsType
    <2> DEFINE msgs == {q \in {Request("rrcSetupRequest")} : SetupDue(m)}
                   \cup {q \in {Request("regUpdate")} : UpdateDue(m)}
                   \cup {q \in {SmRequest("estRequest", ims'.psi, ims'.pti)} : ImsDue(r)}
    <2>3. msgs \subseteq RequestType
      <3> HIDE DEF m, r
      <3> QED
        BY <2>1, <2>2, ZenonT(30)
    <2>4. requests' = Sent(msgs)
      BY DEF TickTail
    <2> HIDE DEF msgs
    <2> QED
      BY <2>3, <2>4, SentTyped DEF EngineInv
  <1> HIDE DEF m, s, r
  <1>8. modem' \in ModemType /\ AttachedOnlyIfRegistered'
    <2>1. s.state = "ACTIVE" => m.state = "REGISTERED_HOME"
      BY <1>1, <1>2, <1>3, ZenonT(30) DEF EngineInv, DrainIsConsistent
    <2> QED
      BY <1>1, <2>1, ZenonT(30) DEF ModemType, AttachedOnlyIfRegistered
  <1>9. DrainIsConsistent' /\ RadioOffIsQuiet'
    BY <1>1 DEF DrainIsConsistent, RadioOffIsQuiet
  <1> QED
    BY <1>1, <1>2, <1>3, <1>4, <1>5, <1>6, <1>7, <1>8, <1>9, ZenonT(30) DEF EngineInv

-----------------------------------------------------------------------------
(* The host's commands *)

\* A command runs between two ticks and changes no published state.
LEMMA HostCommandTyped ==
  ASSUME EngineInv, NEW op, HostCommand(op)
  PROVE  /\ phase' = "idle" /\ modem' = modem /\ budget' \in BudgetType
         /\ DrainIsConsistent' /\ AttachedOnlyIfRegistered'
  <1>1. phase' = "idle" /\ modem' = modem
    BY DEF HostCommand
  <1>2. budget' \in BudgetType
    <2>1. budget \in BudgetType /\ budget.host > 0 /\ budget' = [budget EXCEPT !.host = @ - 1]
      BY DEF HostCommand, EngineInv
    <2>2. budget.host - 1 \in 0..MaxHostOps
      BY <2>1, EngineAssumption DEF BudgetType
    <2> QED
      BY <2>1, <2>2 DEF BudgetType
  <1> QED
    BY <1>1, <1>2 DEF DrainIsConsistent, AttachedOnlyIfRegistered, EngineInv

\* Turning the radio on keeps the contexts typed.
LEMMA SetRadioOnTyped ==
  ASSUME EngineInv, SetRadioOn
  PROVE  /\ radio_on' = TRUE /\ ran' \in RanStates
         /\ rrc' \in RrcType /\ sec' \in SecType /\ up' \in UpType /\ ims' \in ImsType
         /\ UNCHANGED <<requests, dl, gnb>> /\ RadioOffIsQuiet'
  <1>1. radio_on' = TRUE /\ UNCHANGED <<requests, dl, gnb>> /\ RadioOffIsQuiet'
    BY DEF SetRadioOn, RadioOffIsQuiet
  <1>2. ran' \in RanStates
    BY DEF SetRadioOn, RanStates, EngineInv
  <1>3. rrc' \in RrcType /\ sec' \in SecType /\ up' \in UpType /\ ims' \in ImsType
    BY ForgetTyped DEF SetRadioOn, EngineInv
  <1> QED
    BY <1>1, <1>2, <1>3, ZenonT(30)

\* What turning the radio on does to MM and SM keeps them good.
LEMMA RadioOnGood ==
  ASSUME EngineInv
  PROVE  MmGood(MmRadioOn(mm)) /\ SmGood(SmRadioOn(sm))
  <1>1. MmGood(MmOnRadio(mm, TRUE))
    BY MmOnRadioGood, ZenonT(30) DEF EngineInv
  <1>2. MmGood(MmRadioOn(mm))
    BY <1>1, MmRequestGood, ZenonT(30) DEF MmRadioOn, RegTypes
  <1> QED
    BY <1>2, SmClearRuntimeGood DEF SmRadioOn, EngineInv, SmGood

\* MBIM RADIO_STATE on.
LEMMA HostRadioOnInv ==
  ASSUME EngineInv, HostRadioOn
  PROVE  EngineInv'
  <1>1. SetRadioOn /\ \E op : HostCommand(op)
    BY DEF HostRadioOn
  <1>2. MmGood(mm') /\ SmGood(sm')
    BY RadioOnGood DEF HostRadioOn
  <1> QED
    BY <1>1, <1>2, HostCommandTyped, SetRadioOnTyped, ZenonT(30) DEF EngineInv

\* MBIM CONNECT activate.
LEMMA HostConnectInv ==
  ASSUME EngineInv, HostConnect
  PROVE  EngineInv'
  <1>1. HostCommand("connect")
    BY ZenonT(30) DEF HostConnect
  <1>2. CASE radio_on
    <2>1. /\ sm' = SmRequestConnect(sm)
          /\ UNCHANGED <<mm, requests, radio_on, ran, rrc, sec, up, ims, dl, gnb>>
      BY <1>2 DEF HostConnect
    <2>2. SmGood(sm')
      BY <2>1, SmRequestGood DEF EngineInv
    <2>3. RadioOffIsQuiet'
      BY <1>2, <2>1, ZenonT(30) DEF RadioOffIsQuiet
    <2> QED
      BY <1>1, <2>1, <2>2, <2>3, HostCommandTyped DEF EngineInv
  <1>3. CASE ~radio_on
    <2>1. /\ SetRadioOn
          /\ mm' = MmRequest(MmRadioOn(mm), "INITIAL")
          /\ sm' = SmRequestConnect(SmRadioOn(sm))
      BY <1>3 DEF HostConnect
    <2>2. MmGood(mm')
      BY <2>1, RadioOnGood, MmRequestGood DEF RegTypes
    <2>3. SmGood(sm')
      BY <2>1, RadioOnGood, SmRequestGood, ZenonT(30)
    <2> QED
      BY <1>1, <2>1, <2>2, <2>3, HostCommandTyped, SetRadioOnTyped, ZenonT(30) DEF EngineInv
  <1> QED
    BY <1>2, <1>3

\* Turning the radio off, whatever SM is in, leaves everything quiet.
LEMMA SetRadioOffInv ==
  ASSUME EngineInv, NEW op, HostCommand(op), NEW s, SmGood(s), SetRadioOff(s)
  PROVE  EngineInv'
  <1>1. /\ radio_on' = FALSE /\ ran' = "IDLE" /\ dl' = <<>> /\ requests' = {}
        /\ mm' = MmOnRadio(mm, FALSE) /\ sm' = SmOnRadioOff(SmClearRuntime(s))
        /\ ForgetNetworkContext
    BY DEF SetRadioOff
  <1>2. MmGood(mm') /\ mm'.state = "POWERED_OFF"
    <2>1. MmOnRadio(mm, FALSE) = MmRest(mm, "POWERED_OFF")
      BY DEF MmOnRadio
    <2> QED
      BY <1>1, <2>1, MmRestGood, ZenonT(30) DEF EngineInv, MmGood, MmStates
  <1>3. SmGood(sm') /\ sm'.state = "INACTIVE"
    BY <1>1, SmClearRuntimeGood, SmOnRadioOffGood, ZenonT(30) DEF SmGood
  <1>4. /\ rrc' \in RrcType /\ sec' \in SecType /\ up' \in UpType /\ ims' \in ImsType
        /\ rrc' = RrcIdle /\ sec' = SecNone
        /\ ~ims'.requested /\ ~ims'.establishing /\ ~ims'.active
    BY <1>1, ForgetTyped, ZenonT(30) DEF EngineInv
  <1>5. gnb' \in GnbType
    BY DEF SetRadioOff, GnbType, EngineInv
  <1>6. dl' \in Seq(MessageType) /\ Len(dl') <= NasQueueSize
    BY <1>1, EngineAssumption
  <1>7. RadioOffIsQuiet'
    BY <1>1, <1>2, <1>3, <1>4, ZenonT(30) DEF RadioOffIsQuiet, RrcIdle, SecNone
  <1>8. /\ radio_on' \in BOOLEAN /\ ran' \in RanStates
        /\ requests' \subseteq RequestType
    BY <1>1, ZenonT(30) DEF RanStates
  <1> QED
    BY <1>2, <1>3, <1>4, <1>5, <1>6, <1>7, <1>8, HostCommandTyped, ZenonT(30) DEF EngineInv

\* MBIM REGISTER_STATE and the updates the engine offers.
LEMMA HostRegisterInv ==
  ASSUME EngineInv, HostRegister
  PROVE  EngineInv'
  <1>1. /\ \E op : HostCommand(op)
        /\ \E type \in RegTypes : mm' = MmRequest(mm, type)
        /\ UNCHANGED <<sm, requests, radio_on, ran, rrc, sec, up, ims, dl, gnb>>
    BY DEF HostRegister, RegTypes
  <1>2. MmGood(mm')
    BY <1>1, MmRequestGood, ZenonT(30) DEF EngineInv
  <1>3. RadioOffIsQuiet'
    <2>1. mm.state = "POWERED_OFF" => mm'.state = "POWERED_OFF"
      BY <1>1, ZenonT(30) DEF MmRequest, EngineInv, MmGood, MmType
    <2> QED
      BY <1>1, <2>1 DEF RadioOffIsQuiet, RrcIdle, SecNone, EngineInv
  <1> QED
    BY <1>1, <1>2, <1>3, HostCommandTyped, ZenonT(30) DEF EngineInv

-----------------------------------------------------------------------------
(* The RLS thread, the network and the clock *)

\* A step that leaves the main thread's state alone keeps the invariant if it
\* keeps the rest typed and touches nothing while the radio is off.
LEMMA OtherStep ==
  ASSUME EngineInv, UNCHANGED mainVars,
         (requests \subseteq RequestType)', (ran \in RanStates)',
         (dl \in Seq(MessageType) /\ Len(dl) <= NasQueueSize)',
         (gnb \in GnbType)', (budget \in BudgetType)',
         ran # "IDLE" \/ UNCHANGED <<ran, dl>>
  PROVE  EngineInv'
  <1>1. RadioOffIsQuiet'
    BY ZenonT(30) DEF RadioOffIsQuiet, EngineInv, mainVars, RrcIdle, SecNone
  <1>2. DrainIsConsistent' /\ AttachedOnlyIfRegistered'
    BY ZenonT(30) DEF DrainIsConsistent, AttachedOnlyIfRegistered, EngineInv, mainVars
  <1> QED
    BY <1>1, <1>2, ZenonT(30) DEF EngineInv, mainVars

\* The serving cell is found or lost.
LEMMA RanInv ==
  ASSUME EngineInv, RanAcquire \/ RanLose
  PROVE  EngineInv'
  <1>1. UNCHANGED <<mainVars, dl>> /\ ran # "IDLE"
    BY DEF RanAcquire, RanLose, Connected, mainVars
  <1>2. ran' \in RanStates /\ requests' \subseteq RequestType
    BY DEF RanAcquire, RanLose, RanStates, EngineInv
  <1>3. gnb' \in GnbType
    BY ZenonT(30) DEF RanAcquire, RanLose, GnbType, EngineInv
  <1>4. budget' \in BudgetType
    <2>1. CASE RanAcquire
      BY <2>1 DEF RanAcquire, EngineInv
    <2>2. CASE RanLose
      <3>1. /\ budget \in BudgetType /\ budget.losses > 0
            /\ budget' = [budget EXCEPT !.losses = @ - 1]
        BY <2>2 DEF RanLose, EngineInv
      <3>2. budget.losses - 1 \in 0..MaxLosses
        BY <3>1, EngineAssumption, SMTT(30) DEF BudgetType
      <3> QED
        BY <3>1, <3>2 DEF BudgetType
    <2> QED
      BY <2>1, <2>2, ZenonT(30)
  <1> QED
    BY <1>1, <1>2, <1>3, <1>4, OtherStep DEF EngineInv

\* A message is delivered to a connected UE, or dropped by a full queue.
LEMMA DeliverInv ==
  ASSUME EngineInv, NEW msg \in MessageType, Deliver(msg),
         (requests \subseteq RequestType)', (gnb \in GnbType)'
  PROVE  EngineInv'
  <1>1. UNCHANGED <<mainVars, ran, budget>> /\ ran # "IDLE"
    BY DEF Deliver, Connected
  <1>2. dl' \in Seq(MessageType) /\ Len(dl') <= NasQueueSize
    <2>1. dl \in Seq(MessageType) /\ Len(dl) <= NasQueueSize /\ NasQueueSize \in Nat
      BY EngineAssumption DEF EngineInv
    <2>2. dl' = IF Len(dl) < NasQueueSize THEN Append(dl, msg) ELSE dl
      BY DEF Deliver
    <2> QED
      BY <2>1, <2>2, SMTT(30)
  <1> QED
    BY <1>1, <1>2, OtherStep DEF EngineInv

\* The network's answers are typed, as is what it keeps.
LEMMA RepliesTyped ==
  ASSUME gnb \in GnbType, NEW q \in RequestType, NEW a \in Replies(q)
  PROVE  a.msg \in MessageType /\ a.gnb \in GnbType
  <1>1. q.psi \in 0..MaxPsi /\ q.pti \in 0..MaxPti
    BY DEF RequestType
  <1>2. PICK type \in AnswerKinds, t \in BOOLEAN,
             g \in {gnb, [gnb EXCEPT !.rrc = TRUE], [gnb EXCEPT !.amf = TRUE],
                    [gnb EXCEPT !.amf = FALSE],
                    [gnb EXCEPT !.sessions = @ \cup {q.psi}],
                    [gnb EXCEPT !.sessions = @ \ {q.psi}]} :
           a = [msg |-> Message(type, q.psi, q.pti, t), gnb |-> g]
    BY ZenonT(30) DEF Replies, AnswerKinds
  <1>3. g \in GnbType
    BY <1>1, <1>2, ZenonT(120) DEF GnbType
  <1>4. Message(type, q.psi, q.pti, t) \in MessageType
    BY <1>1, <1>2 DEF Message, MessageType
  <1> QED
    BY <1>2, <1>3, <1>4

\* The network answers a request.
LEMMA NetAnswerInv ==
  ASSUME EngineInv, NEW type, NetAnswer(type)
  PROVE  EngineInv'
  <1>1. PICK q \in requests : \E a \in Replies(q) :
          Deliver(a.msg) /\ gnb' = a.gnb /\ requests' \subseteq requests
    BY DEF NetAnswer
  <1>2. PICK a \in Replies(q) :
          Deliver(a.msg) /\ gnb' = a.gnb /\ requests' \subseteq requests
    BY <1>1
  <1>3. q \in RequestType /\ gnb \in GnbType /\ requests \subseteq RequestType
    BY DEF EngineInv
  <1>4. a.msg \in MessageType /\ a.gnb \in GnbType
    BY <1>3, RepliesTyped
  <1> QED
    BY <1>2, <1>3, <1>4, DeliverInv

\* The network releases a session on its own.
LEMMA NetReleaseInv ==
  ASSUME EngineInv, NetRelease
  PROVE  EngineInv'
  <1>1. PICK psi \in gnb.sessions :
          /\ Deliver(Message("releaseCommand", psi, 0, FALSE))
          /\ gnb' = [gnb EXCEPT !.sessions = @ \ {psi}]
          /\ UNCHANGED requests
    BY ZenonT(30) DEF NetRelease
  <1>2. psi \in 0..MaxPsi /\ gnb' \in GnbType
    BY <1>1, ZenonT(30) DEF EngineInv, GnbType
  <1>3. Message("releaseCommand", psi, 0, FALSE) \in MessageType
    BY <1>2, SmBounds, ZenonT(30) DEF Message, MessageType, AnswerKinds
  <1> QED
    BY <1>1, <1>2, <1>3, DeliverInv, ZenonT(30) DEF EngineInv

\* A request is lost.
LEMMA NetLoseInv ==
  ASSUME EngineInv, NetLose
  PROVE  EngineInv'
  <1>1. UNCHANGED <<mainVars, ran, dl, gnb, budget>> /\ requests' \subseteq requests
    BY ZenonT(30) DEF NetLose
  <1> QED
    BY <1>1, OtherStep DEF EngineInv

\* Time passes.
LEMMA ElapseInv ==
  ASSUME EngineInv, Elapse
  PROVE  EngineInv'
  <1>1. /\ phase = "idle" /\ mm' = MmElapse(mm) /\ sm' = SmElapse(sm)
        /\ UNCHANGED <<requests, radio_on, ran, sec, up, ims, dl, phase, modem, gnb, budget>>
    BY ZenonT(30) DEF Elapse
  <1>2. MmGood(mm') /\ SmGood(sm') /\ sm'.state = sm.state
    BY <1>1, MmElapseGood, SmElapseGood DEF EngineInv
  <1>3. mm'.state = mm.state
    BY <1>1 DEF MmElapse, EngineInv, MmGood, MmType
  <1>4. rrc' \in RrcType /\ (rrc = RrcIdle => rrc' = RrcIdle)
    <2>1. rrc \in RrcType
      BY DEF EngineInv
    <2>2. /\ Less(rrc.setup_left) \in 0..RrcSetupTimeout
          /\ Less(rrc.window_left) \in 0..CoreWindow
      BY <2>1, EngineAssumption DEF RrcType, Less
    <2>3. rrc' = [rrc EXCEPT !.setup_left = Less(rrc.setup_left),
                             !.window_left = Less(rrc.window_left)]
      BY DEF Elapse
    <2>4. rrc' \in RrcType
      BY <2>1, <2>2, <2>3, ZenonT(30) DEF RrcType
    <2>5. ASSUME rrc = RrcIdle
          PROVE  rrc' = RrcIdle
      <3>1. rrc.setup_left = 0 /\ rrc.window_left = 0
        BY <2>5 DEF RrcIdle
      <3>2. Less(rrc.setup_left) = rrc.setup_left /\ Less(rrc.window_left) = rrc.window_left
        BY <3>1 DEF Less
      <3>3. rrc' = rrc
        BY <2>1, <2>3, <3>2, ZenonT(30) DEF RrcType
      <3> QED
        BY <2>5, <3>3, ZenonT(30)
    <2> QED
      BY <2>4, <2>5, ZenonT(30)
  <1>5. RadioOffIsQuiet'
    BY <1>1, <1>2, <1>3, <1>4, ZenonT(30) DEF RadioOffIsQuiet, EngineInv, SecNone
  <1>6. DrainIsConsistent' /\ AttachedOnlyIfRegistered'
    BY <1>1 DEF DrainIsConsistent, AttachedOnlyIfRegistered, EngineInv
  <1> QED
    BY <1>1, <1>2, <1>4, <1>5, <1>6 DEF EngineInv

-----------------------------------------------------------------------------

\* The engine starts consistent.
LEMMA EngineInitInv == EngineInit => EngineInv
  <1> SUFFICES ASSUME EngineInit PROVE EngineInv
    BY ZenonT(30)
  <1>1. MmGood(mm) /\ SmGood(sm)
    BY MmInitialGood, SmInitialGood DEF EngineInit, MmInit, SmInit
  <1>2. up \in UpType
    <2>1. up = UpInitial
      BY DEF EngineInit
    <2>2. 0 \in 0..MaxPsi
      BY UpAssumption
    <2>3. UpInitial \in UpType
      BY <2>2 DEF UpInitial, UpType
    <2> QED
      BY <2>1, <2>3, ZenonT(30)
  <1>3. ims \in ImsType
    <2>1. ims = [requested |-> FALSE, establishing |-> FALSE, active |-> FALSE,
                 psi |-> 0, pti |-> 0]
      BY DEF EngineInit
    <2>2. 0 \in 0..MaxPsi /\ 0 \in 0..MaxPti
      BY UpAssumption, SmBounds, SMTT(30)
    <2> QED
      BY <2>1, <2>2, ZenonT(30) DEF ImsType
  <1>4. /\ requests \subseteq RequestType /\ radio_on = TRUE /\ ran \in RanStates
        /\ phase = "idle"
    BY ZenonT(30) DEF EngineInit, SmInit, RanStates
  <1>5. rrc \in RrcType /\ sec \in SecType
    BY IdleTyped DEF EngineInit
  <1>6. dl \in Seq(MessageType) /\ Len(dl) <= NasQueueSize
    <2>1. dl = <<>>
      BY DEF EngineInit
    <2>2. NasQueueSize \in Nat
      BY EngineAssumption, ZenonT(30)
    <2> QED
      BY <2>1, <2>2, SMTT(30)
  <1>7. modem \in ModemType /\ AttachedOnlyIfRegistered
    BY ZenonT(30) DEF EngineInit, ModemType, AttachedOnlyIfRegistered
  <1>8. gnb \in GnbType
    BY DEF EngineInit, GnbType
  <1>9. budget \in BudgetType
    <2>1. budget = [host |-> MaxHostOps, losses |-> MaxLosses]
      BY DEF EngineInit
    <2>2. MaxHostOps \in Nat /\ MaxLosses \in Nat
      BY EngineAssumption
    <2> QED
      BY <2>1, <2>2, SMTT(30) DEF BudgetType
  <1>10. DrainIsConsistent /\ RadioOffIsQuiet
    BY <1>4 DEF DrainIsConsistent, RadioOffIsQuiet
  <1> QED
    BY <1>1, <1>2, <1>3, <1>4, <1>5, <1>6, <1>7, <1>8, <1>9, <1>10, ZenonT(30) DEF EngineInv

\* Every step keeps the engine consistent.
LEMMA EngineNextInv ==
  ASSUME EngineInv, [EngineNext]_engineVars
  PROVE  EngineInv'
  <1>1. CASE EngineTick
    <2>1. CASE Drain
      BY <2>1, DropProtectedInv, HandleRrcSetupInv,
         HandleAuthenticationRequestInv, HandleSecurityModeCommandInv,
         HandleRegistrationAcceptInv, HandleRegistrationRejectInv,
         HandlePduAcceptInv, HandlePduRejectInv, HandleReleaseCommandInv DEF Drain
    <2> QED
      BY <1>1, <2>1, TickRadioOffInv, TickStartInv, TickTailInv DEF EngineTick
  <1>2. CASE Host
    <2>1. CASE HostRadioOff
      BY <2>1, SetRadioOffInv DEF HostRadioOff, EngineInv
    <2>2. CASE HostDisconnect
      <3>1. SmGood(SmRequestDisconnect(sm))
        BY SmRequestGood DEF EngineInv
      <3> QED
        BY <2>2, <3>1, SetRadioOffInv DEF HostDisconnect
    <2> QED
      BY <1>2, <2>1, <2>2, HostRadioOnInv, HostConnectInv, HostRegisterInv, ZenonT(30) DEF Host
  <1>3. CASE \E type \in RequestKinds : NetAnswer(type)
    BY <1>3, NetAnswerInv, ZenonT(30)
  <1>4. CASE UNCHANGED engineVars
    BY <1>4 DEF engineVars, EngineInv, DrainIsConsistent,
                AttachedOnlyIfRegistered, RadioOffIsQuiet
  <1> QED
    BY <1>1, <1>2, <1>3, <1>4, RanInv, NetReleaseInv, NetLoseInv, ElapseInv
       DEF EngineNext

\* The inductive invariant holds in every reachable state.
THEOREM EngineInvariant == EngineSpec => []EngineInv
  BY EngineInitInv, EngineNextInv, PTL DEF EngineSpec

\* The engine's context keeps to its type and MM's fields agree, also where the
\* engine calls ue_mm.c several times within one tick.
THEOREM EngineTypeCorrect == EngineSpec => [](EngineTypeOK /\ MmLockstep)
  <1>1. EngineInv => EngineTypeOK /\ MmLockstep
    BY DEF EngineInv, EngineTypeOK, MmGood, SmGood, MmLockstep
  <1> QED
    BY <1>1, EngineInvariant, PTL

\* state_bridge_poll never shows the host packet service without registration,
\* for any order of messages, faults and commands.
THEOREM EngineShowsNoServiceUnregistered ==
  EngineSpec => []AttachedOnlyIfRegistered
  <1>1. EngineInv => AttachedOnlyIfRegistered
    BY DEF EngineInv
  <1> QED
    BY <1>1, EngineInvariant, PTL

\* ue_engine_set_radio(off) leaves nothing of the registration behind, and
\* nothing brings any of it back before the radio is on again.
THEOREM EngineRadioOffIsQuiet == EngineSpec => []RadioOffIsQuiet
  <1>1. EngineInv => RadioOffIsQuiet
    BY ZenonT(30) DEF EngineInv
  <1> QED
    BY <1>1, EngineInvariant, PTL

-----------------------------------------------------------------------------
(* The link: each step of the engine leaves the link state and the NAS queue *)
(* alone or is a step of RanLink. *)

\* A link that is IDLE has nothing queued.  SetRadioOn starts the link without
\* looking at the queue, RanLink's start empties it: this makes them one step.
IdleLinkIsEmpty == ran = "IDLE" => dl = <<>>

\* A tick and its drain loop: the queue is left alone or gives up its head.
LEMMA TickOnLink ==
  ASSUME EngineTick
  PROVE  /\ UNCHANGED ran
         /\ \/ UNCHANGED dl
            \/ dl # <<>> /\ dl' = Tail(dl)
  <1>1. CASE Drain
    <2>1. PICK type : Receive(type)
      BY <1>1, ZenonT(30) DEF Drain, DropProtected, HandleRrcSetup, HandleAuthenticationRequest,
                  HandleSecurityModeCommand, HandleRegistrationAccept,
                  HandleRegistrationReject, HandlePduAccept, HandlePduReject,
                  HandleReleaseCommand
    <2> QED
      BY <2>1 DEF Receive
  <1> QED
    BY <1>1, ZenonT(30) DEF EngineTick, TickRadioOff, TickStart, TickTail

\* A host command: the link is left alone, started or stopped.
LEMMA HostOnLink ==
  ASSUME Host
  PROVE  \/ UNCHANGED <<ran, dl>>
         \/ ran = "IDLE" /\ ran' = "SEARCHING" /\ UNCHANGED dl
         \/ ran' = "IDLE" /\ dl' = <<>>
  <1>1. SetRadioOn => \/ UNCHANGED <<ran, dl>>
                      \/ ran = "IDLE" /\ ran' = "SEARCHING" /\ UNCHANGED dl
    BY DEF SetRadioOn
  <1>2. ASSUME NEW s, SetRadioOff(s) PROVE ran' = "IDLE" /\ dl' = <<>>
    BY <1>2 DEF SetRadioOff
  <1> QED
    BY <1>1, <1>2 DEF Host, HostRadioOn, HostRadioOff, HostConnect, HostDisconnect,
                      HostRegister

\* A message from the network: a connected link queues it or drops it.
LEMMA DeliverOnLink ==
  ASSUME EngineInv, NEW msg, msg \in MessageType, Deliver(msg)
  PROVE  ran # "IDLE" /\ (UNCHANGED <<ran, dl>> \/ Link!LinkEnqueue)
  <1>1. dl \in Seq(MessageType) /\ ran # "IDLE" /\ ran' = ran
    BY DEF EngineInv, Deliver, Connected
  <1>2. CASE Len(dl) < NasQueueSize
    <2>1. dl' = Append(dl, msg)
      BY <1>2 DEF Deliver
    <2>2. Len(dl') = Len(dl) + 1 /\ dl'[Len(dl) + 1] = msg
      BY <1>1, <2>1
    <2> QED
      BY <1>1, <1>2, <2>1, <2>2 DEF Link!LinkEnqueue
  <1>3. CASE ~(Len(dl) < NasQueueSize)
    BY <1>1, <1>3 DEF Deliver
  <1> QED
    BY <1>2, <1>3, ZenonT(30)

\* Every delivery of the network is one of a typed message.
LEMMA NetworkDelivers ==
  ASSUME EngineInv, (\E type \in RequestKinds : NetAnswer(type)) \/ NetRelease
  PROVE  \E msg \in MessageType : Deliver(msg)
  <1>1. CASE \E type \in RequestKinds : NetAnswer(type)
    <2>1. PICK q \in requests : \E a \in Replies(q) : Deliver(a.msg)
      BY <1>1 DEF NetAnswer
    <2>2. PICK a \in Replies(q) : Deliver(a.msg)
      BY <2>1
    <2>3. a.msg \in MessageType
      BY RepliesTyped DEF EngineInv
    <2> QED
      BY <2>2, <2>3, ZenonT(30)
  <1>2. CASE NetRelease
    <2>1. PICK psi \in gnb.sessions : Deliver(Message("releaseCommand", psi, 0, FALSE))
      BY <1>2, ZenonT(30) DEF NetRelease
    <2>2. psi \in 0..MaxPsi
      BY ZenonT(30) DEF EngineInv, GnbType
    <2>3. Message("releaseCommand", psi, 0, FALSE) \in MessageType
      BY <2>2, SmBounds DEF Message, MessageType, AnswerKinds
    <2> QED
      BY <2>1, <2>3, ZenonT(30)
  <1> QED
    BY <1>1, <1>2

\* Every step of the engine is a step of the link or leaves it alone, and an IDLE
\* link stays empty.
LEMMA EngineStepOnLink ==
  ASSUME EngineInv, IdleLinkIsEmpty, [EngineNext]_engineVars
  PROVE  IdleLinkIsEmpty' /\ [Link!LinkNext]_(Link!linkVars)
  <1> USE DEF IdleLinkIsEmpty, Link!linkVars
  <1>1. CASE EngineTick
    BY <1>1, TickOnLink DEF Link!LinkNext, Link!LinkDequeue
  <1>2. CASE Host
    BY <1>2, HostOnLink DEF Link!LinkNext, Link!LinkStart, Link!LinkStop
  <1>3. CASE RanAcquire \/ RanLose
    BY <1>3 DEF RanAcquire, RanLose, Connected, Link!LinkNext, Link!LinkAcquire,
                Link!LinkLose
  <1>4. CASE (\E type \in RequestKinds : NetAnswer(type)) \/ NetRelease
    <2>1. PICK msg \in MessageType : Deliver(msg)
      BY <1>4, NetworkDelivers
    <2>2. ran # "IDLE" /\ (UNCHANGED <<ran, dl>> \/ Link!LinkEnqueue)
      BY <2>1, DeliverOnLink
    <2>3. ran' = ran
      BY <2>1 DEF Deliver
    <2> QED
      BY <2>2, <2>3 DEF Link!LinkNext
  <1>5. CASE NetLose \/ Elapse \/ UNCHANGED engineVars
    BY <1>5 DEF NetLose, Elapse, engineVars
  <1> QED
    BY <1>1, <1>2, <1>3, <1>4, <1>5 DEF EngineNext

\* The engine (ue_engine_set_radio, engine_real_tick) implements RanLink, the
\* specification RanTransport implements too: it never moves the link state or
\* the NAS queue in a way the transport does not.
THEOREM EngineImplementsLink == EngineSpec => EngineKeepsLink
  <1>1. EngineInit => Link!LinkInit /\ IdleLinkIsEmpty
    BY DEF EngineInit, Link!LinkInit, IdleLinkIsEmpty
  <1>2. EngineInv /\ IdleLinkIsEmpty /\ [EngineNext]_engineVars
          => IdleLinkIsEmpty' /\ [Link!LinkNext]_(Link!linkVars)
    BY EngineStepOnLink
  <1> QED
    BY <1>1, <1>2, EngineInvariant, PTL DEF EngineSpec, EngineKeepsLink, Link!LinkSpec

=============================================================================
