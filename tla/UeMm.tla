-------------------------------- MODULE UeMm --------------------------------
(***************************************************************************)
(* 5G mobility management of the UE (src/ue_engine/ue_mm.c): the           *)
(* registration procedure with its attempts, retries and timeout.          *)
(*                                                                         *)
(* The record mm stands for struct ue_mm_ctx.  Every operator takes the    *)
(* record before a C function runs and yields the record after it, so that *)
(* UeEngine can call several of them within one engine tick, as the code   *)
(* does.  The actions at the end call them one at a time: they are the     *)
(* calls the engine makes.                                                 *)
(*                                                                         *)
(* next_step_deadline_ms is kept as the time that is left until it, in     *)
(* units of the model's clock; Unarmed is the code's 0.                    *)
(***************************************************************************)
EXTENDS Integers

CONSTANTS
    UE_MM_TIMEOUT,      \* UE_MM_TIMEOUT_MS, in clock units
    UE_MM_MAX_RETRIES,  \* UE_MM_DEFAULT_MAX_RETRIES (2 in the code)
    SimPresent          \* cfg->sim.sim_present

ASSUME MmAssumption ==
    /\ UE_MM_TIMEOUT \in Nat \ {0}
    /\ UE_MM_MAX_RETRIES \in Nat
    /\ SimPresent \in BOOLEAN

VARIABLE mm

Unarmed == -1

MmStates == {"POWERED_OFF", "SIM_NOT_READY", "DEREGISTERED", "SEARCHING",
             "REGISTERING", "REGISTERED_HOME"}

\* The pending registration type and trigger, folded into one value.
RegTypes == {"INITIAL", "MOBILITY", "PERIODIC"}

MmType == [state: MmStates,
           procedure: {"IDLE", "REGISTRATION"},
           proc_step: {"NONE", "WAIT_CELL_SELECTION",
                       "WAIT_REGISTRATION_RESPONSE"},
           register_requested: BOOLEAN,
           retry_count: 0..UE_MM_MAX_RETRIES,
           reg_type: RegTypes,
           deadline: {Unarmed} \cup 0..UE_MM_TIMEOUT]

-----------------------------------------------------------------------------
(* The functions of ue_mm.c. *)

\* ue_mm_init with radio_on = true, the only value ue_context.c passes.
MmInitial ==
    [state |-> IF SimPresent THEN "DEREGISTERED" ELSE "SIM_NOT_READY",
     procedure |-> "IDLE", proc_step |-> "NONE", register_requested |-> FALSE,
     retry_count |-> 0, reg_type |-> "INITIAL", deadline |-> Unarmed]

\* The fields that every return to rest resets, whatever the new state.
MmRest(m, s) ==
    [m EXCEPT !.state = s, !.procedure = "IDLE", !.proc_step = "NONE",
              !.register_requested = FALSE, !.retry_count = 0,
              !.deadline = Unarmed]

\* mm_enter_deregistered: every caller passes clear_request = true.
MmEnterDeregistered(m) == MmRest(m, "DEREGISTERED")

MmStartRegistration(m) ==
    [m EXCEPT !.state = "SEARCHING", !.procedure = "REGISTRATION",
              !.proc_step = "WAIT_CELL_SELECTION", !.deadline = Unarmed]

\* Mutant: the attempt is not counted.
MmRetryUncounted(m, next_deadline) ==
    [m EXCEPT !.state = "SEARCHING", !.procedure = "REGISTRATION",
              !.proc_step = "WAIT_CELL_SELECTION", !.deadline = next_deadline]

MmRetryRegistration(m, next_deadline) ==
    [m EXCEPT !.state = "SEARCHING", !.procedure = "REGISTRATION",
              !.proc_step = "WAIT_CELL_SELECTION",
              !.retry_count = @ + 1, !.deadline = next_deadline]

\* ue_mm_request_register / _mobility_update / _periodic_update, followed by
\* mm_invoke_pending_registration.
MmRequest(m, type) ==
    LET asked == [m EXCEPT !.register_requested = TRUE, !.retry_count = 0,
                           !.reg_type = type]
    IN  IF m.state \in {"DEREGISTERED", "REGISTERED_HOME"}
        THEN MmStartRegistration(asked)
        ELSE asked

MmOnRadio(m, on) ==
    CASE ~on -> MmRest(m, "POWERED_OFF")
      [] on /\ m.state = "SIM_NOT_READY" -> m
      [] OTHER -> MmEnterDeregistered(m)

\* Mutant: the step is left at the cell selection.
MmTransitionStepKept(m) == [m EXCEPT !.state = "REGISTERING", !.deadline = Unarmed]

MmTransitionToRegistering(m) ==
    [m EXCEPT !.state = "REGISTERING",
              !.proc_step = "WAIT_REGISTRATION_RESPONSE", !.deadline = Unarmed]

MmOnRegistrationAccept(m) ==
    IF m.state = "REGISTERING" /\ m.register_requested
    THEN MmRest(m, "REGISTERED_HOME")
    ELSE m

\* mm_handle_reject_by_procedure; temporary is the class of the cause.
MmHandleReject(m, temporary) ==
    IF /\ m.procedure = "REGISTRATION"
       /\ m.proc_step = "WAIT_REGISTRATION_RESPONSE"
       /\ temporary
       /\ m.retry_count < UE_MM_MAX_RETRIES
    THEN MmRetryRegistration(m, Unarmed)
    ELSE MmEnterDeregistered(m)

\* Mutant: a reject is taken in any state.
MmRejectAnyState(m, temporary) == MmHandleReject(m, temporary)

MmOnRegistrationReject(m, temporary) ==
    IF m.state = "REGISTERING" /\ m.register_requested
    THEN MmHandleReject(m, temporary)
    ELSE m

\* Mutant: one retry too many.
MmHandleWaitOneMore(m) ==
    LET left == IF m.deadline = Unarmed THEN UE_MM_TIMEOUT ELSE m.deadline
    IN  CASE left > 0 -> [m EXCEPT !.deadline = left]
          [] left = 0 /\ m.retry_count <= UE_MM_MAX_RETRIES ->
                MmRetryRegistration(m, UE_MM_TIMEOUT)
          [] OTHER -> MmEnterDeregistered(m)

\* mm_handle_wait_cell_selection and mm_handle_wait_registration_response,
\* whose bodies are the same.
MmHandleWait(m) ==
    LET left == IF m.deadline = Unarmed THEN UE_MM_TIMEOUT ELSE m.deadline
    IN  CASE left > 0 -> [m EXCEPT !.deadline = left]
          [] left = 0 /\ m.retry_count < UE_MM_MAX_RETRIES ->
                MmRetryRegistration(m, UE_MM_TIMEOUT)
          [] OTHER -> MmEnterDeregistered(m)

MmInProgress(m) == m.state \in {"SEARCHING", "REGISTERING"}

MmWaiting(m) ==
    /\ m.register_requested
    /\ \/ m.state = "SEARCHING" /\ m.proc_step = "WAIT_CELL_SELECTION"
       \/ /\ m.state = "REGISTERING"
          /\ m.proc_step = "WAIT_REGISTRATION_RESPONSE"

MmTick(m) ==
    CASE MmWaiting(m) -> MmHandleWait(m)
      [] ~MmWaiting(m) /\ MmInProgress(m) -> [m EXCEPT !.deadline = Unarmed]
      [] OTHER -> [m EXCEPT !.procedure = "IDLE", !.proc_step = "NONE",
                            !.deadline = Unarmed]

\* One unit of time passes for the armed deadline.
MmElapse(m) == [m EXCEPT !.deadline = IF @ > 0 THEN @ - 1 ELSE @]

-----------------------------------------------------------------------------
(* The component on its own, driven by the calls the engine makes. *)

MmInit == mm = MmInitial

MmRequestStep == \E type \in RegTypes : mm' = MmRequest(mm, type)

MmRadioStep == \E on \in BOOLEAN : mm' = MmOnRadio(mm, on)

\* engine_real_tick, step 5: the call is made in SEARCHING only.
MmCellStep ==
    /\ mm.state = "SEARCHING"
    /\ mm' = MmTransitionToRegistering(mm)

MmAcceptStep == mm' = MmOnRegistrationAccept(mm)

MmRejectStep ==
    \E temporary \in BOOLEAN : mm' = MmOnRegistrationReject(mm, temporary)

MmTickStep == mm' = MmTick(mm)

MmElapseStep == mm' = MmElapse(mm)

MmNext ==
    \/ MmRequestStep
    \/ MmRadioStep
    \/ MmCellStep
    \/ MmAcceptStep
    \/ MmRejectStep
    \/ MmTickStep
    \/ MmElapseStep

MmSpec == MmInit /\ [][MmNext]_mm

\* The main loop keeps calling the tick and time goes on; nobody has to
\* answer and the host has to ask for nothing.
MmFairSpec == MmSpec /\ WF_mm(MmTickStep) /\ WF_mm(MmElapseStep)

-----------------------------------------------------------------------------
(* Properties *)

\* Every field of the MM context keeps to its range; in particular the retry
\* counter of mm_retry_registration_attempt never passes its maximum.
MmTypeOK == mm \in MmType

MmAgrees(m) ==
    /\ m.state = "SEARCHING" =>
           /\ m.procedure = "REGISTRATION"
           /\ m.proc_step = "WAIT_CELL_SELECTION"
           /\ m.register_requested
    /\ m.state = "REGISTERING" =>
           /\ m.procedure = "REGISTRATION"
           /\ m.proc_step = "WAIT_REGISTRATION_RESPONSE"
           /\ m.register_requested
    /\ ~MmInProgress(m) =>
           /\ m.procedure = "IDLE"
           /\ m.proc_step = "NONE"
           /\ m.deadline = Unarmed
    /\ m.state \in {"DEREGISTERED", "REGISTERED_HOME"} =>
           /\ ~m.register_requested
           /\ m.retry_count = 0

\* State, procedure, step and request always tell the same story.  The wait
\* handlers of ue_mm_tick are reached by all four fields together, so an
\* attempt for which they disagreed would have no timeout.  It also makes the
\* first branch of mm_handle_reject_by_procedure (wrong procedure or step)
\* unreachable from ue_mm_on_registration_reject.
MmLockstep == MmAgrees(mm)

\* A registration procedure ends: once the host stops asking for new ones, MM
\* cannot go round SEARCHING and REGISTERING for ever, whatever the cell, the
\* network's answers and the radio do in between (ue_mm_tick's retries are
\* bounded, and no other path back to SEARCHING is free of charge).
MmSettles ==
    <>[][~MmRequestStep]_mm => []<>~MmInProgress(mm)

=============================================================================
