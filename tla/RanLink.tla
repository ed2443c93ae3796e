------------------------------ MODULE RanLink -------------------------------
(***************************************************************************)
(* What the RAN transport promises the engine: a link state and a queue of *)
(* downlink NAS messages.  RanTransport implements it with its threads,    *)
(* sockets and cells; UeEngine is written against it.                      *)
(*                                                                         *)
(* late says that a tick of the receive thread which began before a stop   *)
(* has yet to write the link state: one write of that tick may come after  *)
(* the stop.  The engine's model has no such tick, late is FALSE there.    *)
(***************************************************************************)
EXTENDS Naturals, Sequences

CONSTANT QueueSize   \* messages the queue holds

VARIABLES link, late, nas

linkVars == <<link, late, nas>>

LinkInit ==
    /\ link = "IDLE"
    /\ late = FALSE
    /\ nas = <<>>

LinkStart ==
    /\ link = "IDLE"
    /\ link' = "SEARCHING"
    /\ nas' = <<>>
    /\ late' \in BOOLEAN

LinkStop ==
    /\ link' = "IDLE"
    /\ nas' = <<>>
    /\ late' \in BOOLEAN

LinkAcquire ==
    /\ link \in {"SEARCHING", "LOST"}
    /\ link' = "CONNECTED"
    /\ UNCHANGED <<late, nas>>

LinkLose ==
    /\ link = "CONNECTED"
    /\ link' = "LOST"
    /\ UNCHANGED <<late, nas>>

\* The write of a tick that a stop has overtaken, or its end without one.
LinkLateWrite ==
    /\ late
    /\ late' = FALSE
    /\ link' \in {link, "CONNECTED", "LOST"}
    /\ UNCHANGED nas

\* A message is queued behind the others, if there is room.
LinkEnqueue ==
    /\ Len(nas) < QueueSize
    /\ Len(nas') = Len(nas) + 1
    /\ nas' = Append(nas, nas'[Len(nas) + 1])
    /\ UNCHANGED <<link, late>>

LinkDequeue ==
    /\ nas # <<>>
    /\ nas' = Tail(nas)
    /\ UNCHANGED <<link, late>>

LinkNext ==
    \/ LinkStart
    \/ LinkStop
    \/ LinkAcquire
    \/ LinkLose
    \/ LinkLateWrite
    \/ LinkEnqueue
    \/ LinkDequeue

LinkSpec == LinkInit /\ [][LinkNext]_linkVars

=============================================================================
