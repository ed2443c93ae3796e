---------------------------- MODULE NasMachines ----------------------------
(***************************************************************************)
(* Mobility management and session management side by side, as the engine  *)
(* drives them (ue_engine_tick, ue_engine_set_radio): one tick serves MM   *)
(* and then SM, SM learns from MM whether the UE is registered, and radio  *)
(* off reaches both.  Everything else, the host's requests, the cell and   *)
(* the network's answers, comes at any time and in any order.  UeEngine    *)
(* adds what restricts it: the radio link, RRC and the NAS transport.      *)
(***************************************************************************)
EXTENDS UeMm, UeSm

nasVars == <<mm, sm, requests>>

NasInit == MmInit /\ SmInit

Tick == MmTickStep /\ SmTickStep(mm'.state = "REGISTERED_HOME")

\* While the engine waits for the core's response it leaves MM's tick out; that
\* wait is bounded (UeEngine), so the whole tick keeps coming.
TickOfSm == SmTickStep(mm.state = "REGISTERED_HOME") /\ UNCHANGED mm

Elapse == MmElapseStep /\ SmElapseStep

RadioOn == mm' = MmOnRadio(mm, TRUE) /\ UNCHANGED smVars

RadioOff == mm' = MmOnRadio(mm, FALSE) /\ SmRadioOffStep

MmOnly ==
    /\ MmRequestStep \/ MmCellStep \/ MmAcceptStep \/ MmRejectStep
    /\ UNCHANGED smVars

SmOnly ==
    /\ \/ SmConnectStep \/ SmDisconnectStep
       \/ SmAcceptStep \/ SmRejectStep \/ SmReleaseStep \/ SmLoseStep
    /\ UNCHANGED mm

NasNext ==
    \/ Tick \/ TickOfSm \/ Elapse
    \/ RadioOn \/ RadioOff
    \/ MmOnly \/ SmOnly

\* The main loop keeps calling the tick and time goes on; nobody has to answer
\* and the host has to ask for nothing.
NasSpec ==
    /\ NasInit /\ [][NasNext]_nasVars
    /\ WF_nasVars(Tick) /\ WF_nasVars(Elapse)
=============================================================================
