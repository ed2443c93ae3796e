-------------------------------- MODULE UeUp --------------------------------
(***************************************************************************)
(* The user-plane session table of the UE (src/ue_engine/ue_up.c): which   *)
(* PDU session ids are bound, which one of them the host uses, and whether *)
(* the host's traffic may flow.                                            *)
(*                                                                         *)
(* host_psi = 0 stands for has_session = false: the code changes the two   *)
(* together.  connected is the answer of ue_ran_transport_is_connected.    *)
(***************************************************************************)
EXTENDS Integers

CONSTANT MaxPsi   \* the last PDU session id, 15 in the code

ASSUME UpAssumption == MaxPsi \in 2..15

UpType == [state: {"IDLE", "BINDING", "ACTIVE", "SUSPENDED"},
           host_psi: 0..MaxPsi,
           sessions: [1..MaxPsi -> {"unused", "host", "internal"}]]

UpInitial ==
    [state |-> "IDLE", host_psi |-> 0,
     sessions |-> [psi \in 1..MaxPsi |-> "unused"]]

\* ue_up_bind_session_ex; a session that is not for the host moves the state
\* too when the host has one.
UpBind(u, psi, host_visible, connected) ==
    LET host == IF host_visible THEN psi ELSE u.host_psi
    IN  [state |-> CASE host = 0 -> u.state
                     [] host # 0 /\ connected -> "ACTIVE"
                     [] OTHER -> "BINDING",
         host_psi |-> host,
         sessions |-> [u.sessions EXCEPT ![psi] =
                          IF host_visible THEN "host" ELSE "internal"]]

\* ue_up_unbind_session_psi.
UpUnbindPsi(u, psi) ==
    CASE psi \notin 1..MaxPsi -> u
      [] psi \in 1..MaxPsi /\ psi = u.host_psi ->
            [state |-> "IDLE", host_psi |-> 0,
             sessions |-> [u.sessions EXCEPT ![psi] = "unused"]]
      [] OTHER -> [u EXCEPT !.sessions[psi] = "unused"]

\* ue_up_unbind_session: the host's session, if there is one.
UpUnbind(u) ==
    [UpUnbindPsi(u, u.host_psi) EXCEPT !.state = "IDLE"]

UpTick(u, connected) ==
    [u EXCEPT !.state =
        CASE u.host_psi = 0 -> @
          [] u.host_psi # 0 /\ connected /\ @ \in {"BINDING", "SUSPENDED"} -> "ACTIVE"
          [] u.host_psi # 0 /\ ~connected /\ @ = "ACTIVE" -> "SUSPENDED"
          [] OTHER -> @]

=============================================================================
