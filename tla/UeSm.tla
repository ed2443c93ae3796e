-------------------------------- MODULE UeSm --------------------------------
(***************************************************************************)
(* 5G session management of the UE (src/ue_engine/ue_sm.c): the host's PDU *)
(* session, its establishment with T3580 retransmissions and its release.  *)
(*                                                                         *)
(* The record sm stands for struct ue_sm_ctx.  An operator that may submit *)
(* a request through ue_network_adapter.c yields a record [sm, tx]: the    *)
(* context after the call and the set of requests it submitted.  procedure *)
(* and proc_step are left out: every assignment to state sets them to the  *)
(* values that go with it.                                                 *)
(***************************************************************************)
EXTENDS Integers

CONSTANTS
    UE_SM_T3580,           \* UE_SM_T3580_MS = UE_SM_RELEASE_WAIT_MS, clock units
    UE_SM_T3580_MAX_RETX,  \* 4 in the code
    UE_SM_MAX_RETRIES,     \* max_retries, 1 in the code
    MaxPti                 \* 254 in the code

ASSUME SmAssumption ==
    /\ UE_SM_T3580 \in Nat \ {0}
    /\ UE_SM_T3580_MAX_RETX \in Nat
    /\ UE_SM_MAX_RETRIES \in Nat
    /\ MaxPti \in Nat \ {0}

VARIABLES
    sm,        \* struct ue_sm_ctx
    requests   \* what the UE has sent and the network has not yet answered

SmUnarmed == -1

SmStates == {"INACTIVE", "ESTABLISHING", "ACTIVE", "RELEASING"}

SmType == [state: SmStates,
           connect_requested: BOOLEAN,
           disconnect_requested: BOOLEAN,
           retry_count: 0..UE_SM_MAX_RETRIES,
           est_retx_count: 0..UE_SM_T3580_MAX_RETX,
           deadline: {SmUnarmed} \cup 0..UE_SM_T3580,
           pti: 0..MaxPti,
           next_pti: 0..MaxPti,
           session_id: {0, 1}]   \* no host session is asked for by another id

\* A 5GSM request on the wire.
SmRequestType == [type: {"estRequest", "relRequest"}, psi: {1}, pti: 1..MaxPti]

SmRequest(type, psi, pti) == [type |-> type, psi |-> psi, pti |-> pti]

-----------------------------------------------------------------------------
(* The functions of ue_sm.c. *)

SmInitial ==
    [state |-> "INACTIVE", connect_requested |-> FALSE,
     disconnect_requested |-> FALSE, retry_count |-> 0, est_retx_count |-> 0,
     deadline |-> SmUnarmed, pti |-> 0, next_pti |-> 0, session_id |-> 0]

\* Mutant: the counter does not wrap.
SmAllocPtiNoWrap(s) ==
    LET p == IF s.next_pti \in 1..MaxPti THEN s.next_pti ELSE 1
    IN  [s EXCEPT !.pti = p, !.next_pti = p + 1]

SmAllocPti(s) ==
    LET p == IF s.next_pti \in 1..MaxPti THEN s.next_pti ELSE 1
    IN  [s EXCEPT !.pti = p, !.next_pti = (p % MaxPti) + 1]

\* Mutant: the deadline stays armed.
SmEnterInactiveArmed(s, clear_connect, clear_disconnect) ==
    [s EXCEPT !.state = "INACTIVE",
              !.connect_requested = @ /\ ~clear_connect,
              !.disconnect_requested = @ /\ ~clear_disconnect, !.pti = 0]

SmEnterInactive(s, clear_connect, clear_disconnect) ==
    [s EXCEPT !.state = "INACTIVE",
              !.connect_requested = @ /\ ~clear_connect,
              !.disconnect_requested = @ /\ ~clear_disconnect,
              !.deadline = SmUnarmed, !.pti = 0]

\* PSI and PTI as they are sent: 0 is replaced by 1, here and in the adapter.
OrOne(n) == IF n = 0 THEN 1 ELSE n

SmBuildEstablish(s) ==
    SmRequest("estRequest", OrOne(s.session_id), OrOne(s.pti))

SmBuildRelease(s) ==
    SmRequest("relRequest", OrOne(s.session_id), OrOne(s.pti))

\* The adapter reports every request as submitted, so the result handler takes
\* its first branch: the PSI is remembered and the PTI given back.
SmStartEstablish(s) ==
    LET started == [SmAllocPti(s) EXCEPT !.state = "ESTABLISHING",
                                         !.deadline = SmUnarmed,
                                         !.est_retx_count = 0]
        req == SmBuildEstablish(started)
    IN  [sm |-> [started EXCEPT !.session_id = req.psi, !.pti = 0],
         tx |-> {req}]

SmStartRelease(s) ==
    LET started == [SmAllocPti(s) EXCEPT !.state = "RELEASING",
                                         !.deadline = SmUnarmed]
    IN  [sm |-> started, tx |-> {SmBuildRelease(started)}]

SmOnRadioOff(s) == [SmEnterInactive(s, TRUE, TRUE) EXCEPT !.retry_count = 0]

SmRequestConnect(s) ==
    [s EXCEPT !.connect_requested = TRUE, !.disconnect_requested = FALSE,
              !.retry_count = 0]

SmRequestDisconnect(s) ==
    [s EXCEPT !.disconnect_requested = TRUE, !.connect_requested = FALSE]

SmQuiet(s) == [sm |-> s, tx |-> {}]

\* ue_sm_tick, first part: a host request is carried out.
SmServeDisconnect(s) ==
    CASE ~s.disconnect_requested -> SmQuiet(s)
      [] s.disconnect_requested /\ s.state = "ACTIVE" -> SmStartRelease(s)
      [] OTHER -> SmQuiet(SmEnterInactive(s, FALSE, TRUE))

SmServeConnect(s) ==
    IF s.connect_requested /\ s.state = "INACTIVE"
    THEN SmStartEstablish([s EXCEPT !.connect_requested = FALSE])
    ELSE SmQuiet(s)

\* Mutant: a retransmission is not counted.
SmGuardEstablishUncounted(s) ==
    CASE s.deadline = SmUnarmed ->
            SmQuiet([s EXCEPT !.deadline = UE_SM_T3580])
      [] s.deadline = 0 ->
            [sm |-> [s EXCEPT !.deadline = UE_SM_T3580],
             tx |-> {SmBuildEstablish(s)}]
      [] OTHER -> SmQuiet(s)

\* ue_sm_tick, second part: T3580 and the release wait.
SmGuardEstablish(s) ==
    CASE s.deadline = SmUnarmed ->
            SmQuiet([s EXCEPT !.deadline = UE_SM_T3580])
      [] s.deadline = 0 /\ s.est_retx_count < UE_SM_T3580_MAX_RETX ->
            [sm |-> [s EXCEPT !.est_retx_count = @ + 1,
                              !.deadline = UE_SM_T3580],
             tx |-> {SmBuildEstablish(s)}]
      [] s.deadline = 0 /\ s.est_retx_count = UE_SM_T3580_MAX_RETX ->
            SmQuiet([SmEnterInactive(s, TRUE, TRUE) EXCEPT !.est_retx_count = 0])
      [] OTHER -> SmQuiet(s)

SmGuardRelease(s) ==
    CASE s.deadline = SmUnarmed -> [s EXCEPT !.deadline = UE_SM_T3580]
      [] s.deadline = 0 -> SmEnterInactive(s, TRUE, TRUE)
      [] OTHER -> s

\* Mutant: the session is kept when MM is not registered.
SmTickUnguarded(s, mm_registered) ==
    LET d == SmServeDisconnect(s)
        c == SmServeConnect(d.sm)
        g == CASE c.sm.state = "ESTABLISHING" -> SmGuardEstablish(c.sm)
               [] c.sm.state = "RELEASING" -> SmQuiet(SmGuardRelease(c.sm))
               [] OTHER -> SmQuiet(c.sm)
    IN  [sm |-> g.sm, tx |-> d.tx \cup c.tx \cup g.tx]

SmTick(s, mm_registered) ==
    LET d == SmServeDisconnect(s)
        c == SmServeConnect(d.sm)
        g == CASE c.sm.state = "ESTABLISHING" -> SmGuardEstablish(c.sm)
               [] c.sm.state = "RELEASING" -> SmQuiet(SmGuardRelease(c.sm))
               [] OTHER -> SmQuiet(c.sm)
    IN  IF mm_registered
        THEN [sm |-> g.sm, tx |-> d.tx \cup c.tx \cup g.tx]
        ELSE SmQuiet(SmOnRadioOff(s))

SmOnEstablished(s) ==
    IF s.state = "ESTABLISHING"
    THEN [s EXCEPT !.state = "ACTIVE", !.session_id = 0, !.retry_count = 0,
                   !.connect_requested = FALSE, !.deadline = SmUnarmed]
    ELSE s

\* The engine never reports a semantic error, the one cause that is final
\* whatever its class.
SmOnReject(s, temporary) ==
    LET off == SmEnterInactive(s, FALSE, TRUE)
    IN  CASE s.state # "ESTABLISHING" -> SmQuiet(s)
          [] /\ s.state = "ESTABLISHING" /\ temporary
             /\ s.retry_count < UE_SM_MAX_RETRIES ->
                SmStartEstablish([off EXCEPT !.retry_count = @ + 1,
                                             !.connect_requested = TRUE])
          [] OTHER -> SmQuiet([off EXCEPT !.connect_requested = FALSE,
                                          !.retry_count = 0])

\* Mutant: only a release the UE asked for is carried out.
SmOnReleasedIfAsked(s) == IF s.state = "RELEASING" THEN SmOnRadioOff(s) ELSE s

SmOnReleased(s) ==
    IF s.state \in {"RELEASING", "ACTIVE"} THEN SmOnRadioOff(s) ELSE s

SmElapse(s) == [s EXCEPT !.deadline = IF @ > 0 THEN @ - 1 ELSE @]

-----------------------------------------------------------------------------
(* The component on its own: the calls the engine and the host make, and a  *)
(* network that may answer any request it holds, in any order, or lose it.  *)

SmApply(r) ==
    /\ sm' = r.sm
    /\ requests' = requests \cup r.tx

SmInit == sm = SmInitial /\ requests = {}

SmConnectStep == SmApply(SmQuiet(SmRequestConnect(sm)))

SmDisconnectStep == SmApply(SmQuiet(SmRequestDisconnect(sm)))

SmRadioOffStep == SmApply(SmQuiet(SmOnRadioOff(sm)))

SmTickStep(mm_registered) == SmApply(SmTick(sm, mm_registered))

SmAnswered(type) == {r \in requests : r.type = type}

SmAcceptStep ==
    \E r \in SmAnswered("estRequest") :
        /\ sm' = SmOnEstablished(sm)
        /\ requests' = requests \ {r}

SmRejectStep ==
    \E r \in SmAnswered("estRequest"), temporary \in BOOLEAN :
        LET answer == SmOnReject(sm, temporary)
        IN  /\ sm' = answer.sm
            /\ requests' = (requests \ {r}) \cup answer.tx

\* A RELEASE COMMAND, answering the UE's request or on the network's own.
SmReleaseStep ==
    /\ sm' = SmOnReleased(sm)
    /\ requests' = requests \ SmAnswered("relRequest")

SmLoseStep == \E r \in requests : requests' = requests \ {r} /\ UNCHANGED sm

SmElapseStep == SmApply(SmQuiet(SmElapse(sm)))

SmNext ==
    \/ SmConnectStep
    \/ SmDisconnectStep
    \/ SmRadioOffStep
    \/ \E mm_registered \in BOOLEAN : SmTickStep(mm_registered)
    \/ SmAcceptStep
    \/ SmRejectStep
    \/ SmReleaseStep
    \/ SmLoseStep
    \/ SmElapseStep

smVars == <<sm, requests>>

SmSpec == SmInit /\ [][SmNext]_smVars

\* The main loop keeps calling the tick and time goes on.
SmFairSpec ==
    /\ SmSpec
    /\ WF_smVars(\E mm_registered \in BOOLEAN : SmTickStep(mm_registered))
    /\ WF_smVars(SmElapseStep)

-----------------------------------------------------------------------------
(* Properties *)

\* Every field of the SM context keeps to its range: the T3580 and the retry
\* counters stop at their maxima, PTIs stay in 1..MaxPti across the wrap.
SmTypeOK ==
    /\ sm \in SmType
    /\ requests \subseteq SmRequestType

SmTidy(s) ==
    /\ s.deadline # SmUnarmed => s.state \in {"ESTABLISHING", "RELEASING"}
    /\ s.pti # 0 => s.state = "RELEASING"

\* A timer of ue_sm_tick runs only for a procedure that is in progress, and a
\* PTI is held only by a release: no deadline or PTI of an abandoned procedure
\* is left over for the next one to trip on.
SmNothingLeftOver == SmTidy(sm)

\* An establishment ends: once the host stops asking, SM does not stay in
\* ESTABLISHING for ever, although the network may never answer and each
\* temporary reject starts the procedure (and T3580) afresh.
SmEstablishmentSettles ==
    <>[][~SmConnectStep]_smVars => []<>(sm.state # "ESTABLISHING")

=============================================================================
