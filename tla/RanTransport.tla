---------------------------- MODULE RanTransport ----------------------------
(***************************************************************************)
(* The RAN transport (src/ue_engine/ue_ran_transport.c): the UDP socket to *)
(* the gNBs, the table of cells learned from heartbeat answers, the serving*)
(* cell, the link state and the downlink NAS queue.                        *)
(*                                                                         *)
(* Three threads: the main thread starts and stops the transport and takes *)
(* NAS messages out of the queue; the receive thread runs the transport    *)
(* tick, cut here wherever another thread's step could make a difference;  *)
(* the heartbeat thread asks the gNBs for signs of life.  Start and stop   *)
(* are one step each: they hold hb_lock, then rx_lock, and every step of   *)
(* the receive thread that falls between the two sections has the same     *)
(* outcome before or after both, but for the reset of the acknowledgement  *)
(* count, which takes no lock (see Stop).                                  *)
(*                                                                         *)
(* A cell is named by the gNB it belongs to.  Times count in heartbeat     *)
(* intervals of a second.                                                  *)
(***************************************************************************)
EXTENDS Naturals, Sequences, FiniteSets, FiniteSetsExt

CONSTANTS
    Gnbs,          \* the configured gNBs
    MaxDbm,        \* the strongest signal a gNB may report
    MaxCells,      \* slots of the cell table, 16 in the code
    HbTimeout,     \* a cell silent for longer is dropped, 2 in the code
    AckInterval,   \* 2250 ms in the code, 3 intervals
    MaxAcks,       \* PDU ids waiting to be acknowledged, 64 in the code
    QueueSize,     \* usable slots of the NAS queue, 31 in the code
    RxBatch,       \* datagrams taken per tick, 64 in the code
    MaxInbox,      \* bound on datagrams on their way at a time
    MaxRadio,      \* bound on the host's radio commands
    MaxMoves,      \* bound on changes of a gNB's signal
    MaxPdus        \* bound on downlink datagrams other than heartbeat answers

ASSUME RanAssumption ==
    /\ IsFiniteSet(Gnbs) /\ Gnbs # {} /\ "none" \notin Gnbs
    /\ MaxDbm \in Nat \ {0}
    /\ MaxCells \in Nat \ {0}
    /\ HbTimeout \in Nat \ {0}
    /\ AckInterval \in Nat \ {0}
    /\ {MaxAcks, QueueSize, RxBatch, MaxInbox} \subseteq Nat \ {0}
    /\ {MaxRadio, MaxMoves, MaxPdus} \subseteq Nat

VARIABLES
    state,     \* t->state
    open,      \* t->socket_fd >= 0
    cells,     \* t->cells: what each valid slot holds
    serving,   \* t->serving_cell_id
    nas,       \* t->nas_queue
    acks,      \* t->pending_ack_count
    hb_age,    \* time since last_heartbeat_ms, 1 when a heartbeat is due
    ack_age,   \* time since last_ack_send_ms, capped at AckInterval
    rx,        \* where the receive thread is in its loop
    radio,     \* ctx->radio_on
    inbox,     \* datagrams in the socket's receive buffer
    polled,    \* gNBs that were sent a heartbeat and have not answered
    signal,    \* each gNB's signal at the UE, 0 when it is out of range
    budget     \* events still to come, see the Max constants

ranVars == <<state, open, cells, serving, nas, acks, hb_age, ack_age,
             rx, radio, inbox, polled, signal, budget>>

None == "none"

Slots == 1..MaxCells

Empty == [gnb |-> None, dbm |-> 0, age |-> 0]

CellType == {Empty} \cup [gnb: Gnbs, dbm: 1..MaxDbm, age: 0..(HbTimeout + 1)]

HeartbeatAck(g, d) == [kind |-> "heartbeatAck", gnb |-> g, dbm |-> d]

Rrc == [kind |-> "rrc", gnb |-> None, dbm |-> 0]

Datagrams == {HeartbeatAck(g, d) : g \in Gnbs, d \in 1..MaxDbm} \cup {Rrc}

NoDatagram == [kind |-> None, gnb |-> None, dbm |-> 0]

LinkStates == {"IDLE", "SEARCHING", "CONNECTED", "LOST"}

\* pc: the next step; msg: the datagram in rx_buf; left: datagrams the loop may
\* still take; seen and next: the link state the tick has read and will write;
\* ticked: a tick has run since time last passed.
RxType == [pc: {"poll", "recv", "handle", "decide", "write"},
           msg: Datagrams \cup {NoDatagram}, left: 0..RxBatch,
           seen: LinkStates, next: LinkStates, ticked: BOOLEAN]

BudgetType == [radio: 0..MaxRadio, moves: 0..MaxMoves, pdus: 0..MaxPdus]

\* The gNB in range at first; which one makes no difference.
FirstGnb == CHOOSE g \in Gnbs : TRUE

\* ue_ran_transport_init and configure.
RanInit ==
    /\ state = "IDLE"
    /\ open = FALSE
    /\ cells = [i \in Slots |-> Empty]
    /\ serving = None
    /\ nas = <<>>
    /\ acks = 0
    /\ hb_age = 1
    /\ ack_age = AckInterval
    /\ rx = [pc |-> "poll", msg |-> NoDatagram, left |-> RxBatch,
             seen |-> "IDLE", next |-> "IDLE", ticked |-> FALSE]
    /\ radio = FALSE
    /\ inbox = <<>>
    /\ polled = {}
    /\ signal = [g \in Gnbs |-> IF g = FirstGnb THEN 1 ELSE 0]
    /\ budget = [radio |-> MaxRadio, moves |-> MaxMoves, pdus |-> MaxPdus]

-----------------------------------------------------------------------------
(* The cell table *)

Valid(t) == {i \in Slots : t[i] # Empty}

\* select_best_serving_cell: the first of the strongest.
SelectBest(t) ==
    LET best == {i \in Valid(t) : \A j \in Valid(t) : t[j].dbm <= t[i].dbm}
    IN  IF best = {} THEN None ELSE t[Min(best)].gnb

\* find_cell_by_sti, or else alloc_cell; no slot when the table is full.
SlotFor(t, g) ==
    LET known == {i \in Slots : t[i].gnb = g}
        free == Slots \ Valid(t)
    IN  IF known # {} THEN known ELSE IF free # {} THEN {Min(free)} ELSE {}

Expired(t) == {i \in Valid(t) : t[i].age > HbTimeout}

expire_cells ==
    LET t == [i \in Slots |-> IF i \in Expired(cells) THEN Empty ELSE cells[i]]
        lost == \E i \in Expired(cells) : cells[i].gnb = serving
    IN  /\ cells' = t
        /\ serving' = IF lost THEN SelectBest(t) ELSE serving
        /\ state' = IF lost /\ SelectBest(t) = None THEN "LOST" ELSE state

\* Mutant: the serving cell is chosen only when there was none.
AckKeepsServing(msg) ==
    LET slot == SlotFor(cells, msg.gnb)
        t == [i \in Slots |-> IF i \in slot
                              THEN [gnb |-> msg.gnb, dbm |-> msg.dbm, age |-> 0]
                              ELSE cells[i]]
    IN  /\ cells' = t
        /\ serving' = IF serving = None THEN SelectBest(t) ELSE serving

handle_heartbeat_ack(msg) ==
    LET slot == SlotFor(cells, msg.gnb)
        t == [i \in Slots |-> IF i \in slot
                              THEN [gnb |-> msg.gnb, dbm |-> msg.dbm, age |-> 0]
                              ELSE cells[i]]
    IN  /\ cells' = t
        /\ serving' = IF slot = {} THEN serving ELSE SelectBest(t)

-----------------------------------------------------------------------------
(* The receive thread *)

netVars == <<radio, inbox, signal, budget>>

\* A datagram has arrived or the poll has timed out: ue_ran_transport_tick up to
\* receive_pending.
RxTick ==
    /\ rx.pc = "poll"
    /\ open /\ state # "IDLE"
    /\ inbox # <<>> \/ ~rx.ticked
    /\ rx' = [rx EXCEPT !.pc = "recv", !.left = RxBatch, !.ticked = TRUE]
    /\ expire_cells
    /\ polled' = IF hb_age >= 1 THEN Gnbs ELSE polled
    /\ hb_age' = 0
    /\ UNCHANGED <<netVars, open, nas, acks, ack_age>>

\* Mutant: without a serving cell the acknowledgements wait for one.
AcksAwaitCell ==
    LET send == acks > 0 /\ ack_age >= AckInterval
    IN  /\ acks' = IF send /\ serving # None THEN 0 ELSE acks
        /\ ack_age' = IF send THEN 0 ELSE ack_age
        /\ rx' = [rx EXCEPT !.pc = "decide", !.seen = state]

\* send_pending_acks when they are due: they are forgotten, sent or not.  Then
\* the tick reads the link state.
EndReceive ==
    LET send == acks > 0 /\ ack_age >= AckInterval
    IN  /\ acks' = IF send THEN 0 ELSE acks
        /\ ack_age' = IF send THEN 0 ELSE ack_age
        /\ rx' = [rx EXCEPT !.pc = "decide", !.seen = state]

AbortTick ==
    /\ rx' = [rx EXCEPT !.pc = "poll"]
    /\ UNCHANGED <<acks, ack_age>>

\* One turn of receive_pending's loop.  A socket closed under the loop is an
\* error that ends the tick; one that is closed already when receive_pending is
\* called is not.
RxRecv ==
    /\ rx.pc = "recv"
    /\ \/ /\ ~open
          /\ AbortTick \/ (rx.left = RxBatch /\ EndReceive)
          /\ UNCHANGED inbox
       \/ /\ open /\ (inbox = <<>> \/ rx.left = 0)
          /\ EndReceive
          /\ UNCHANGED inbox
       \/ /\ open /\ inbox # <<>> /\ rx.left > 0
          /\ inbox' = Tail(inbox)
          /\ rx' = [rx EXCEPT !.pc = "handle", !.msg = Head(inbox), !.left = @ - 1]
          /\ UNCHANGED <<acks, ack_age>>
    /\ UNCHANGED <<state, open, cells, serving, nas, hb_age, radio, polled, signal,
                   budget>>

\* Mutant: the test for a full queue is off by one.
PduOneMore(msg) ==
    /\ acks' = IF acks < MaxAcks THEN acks + 1 ELSE acks
    /\ nas' = IF Len(nas) <= QueueSize THEN Append(nas, msg) ELSE nas

\* handle_pdu_transmission of an RRC PDU: it is acknowledged, also when the queue
\* has no room for it.
handle_pdu_transmission(msg) ==
    /\ acks' = IF acks < MaxAcks THEN acks + 1 ELSE acks
    /\ nas' = IF Len(nas) < QueueSize THEN Append(nas, msg) ELSE nas

RxHandle ==
    /\ rx.pc = "handle"
    /\ \/ /\ rx.msg.kind = "heartbeatAck"
          /\ handle_heartbeat_ack(rx.msg)
          /\ UNCHANGED <<acks, nas>>
       \/ /\ rx.msg.kind = "rrc"
          /\ handle_pdu_transmission(rx.msg)
          /\ UNCHANGED <<cells, serving>>
    /\ rx' = [rx EXCEPT !.pc = "recv", !.msg = NoDatagram]
    /\ UNCHANGED <<netVars, state, open, hb_age, ack_age, polled>>

\* Mutant: a lost link is never taken up again.
NextStateFromSearch(seen, cell) ==
    IF seen = "SEARCHING" /\ cell # None THEN "CONNECTED"
    ELSE IF seen = "CONNECTED" /\ cell = None THEN "LOST" ELSE seen

\* The transition the tick decides on, from what it read and the serving cell.
NextState(seen, cell) ==
    IF seen \in {"SEARCHING", "LOST"} /\ cell # None THEN "CONNECTED"
    ELSE IF seen = "CONNECTED" /\ cell = None THEN "LOST" ELSE seen

\* The tick reads the serving cell, later than the link state.
RxDecide ==
    LET next == NextState(rx.seen, serving)
    IN  /\ rx.pc = "decide"
        /\ rx' = IF next = rx.seen
                 THEN [rx EXCEPT !.pc = "poll", !.seen = "IDLE"]
                 ELSE [rx EXCEPT !.pc = "write", !.next = next]
        /\ UNCHANGED <<netVars, state, open, cells, serving, nas, acks, hb_age,
                       ack_age, polled>>

\* It writes the link state without the lock, whatever the state is by now.
RxWrite ==
    /\ rx.pc = "write"
    /\ state' = rx.next
    /\ rx' = [rx EXCEPT !.pc = "poll", !.seen = "IDLE", !.next = "IDLE"]
    /\ UNCHANGED <<netVars, open, cells, serving, nas, acks, hb_age, ack_age,
                   polled>>

RxStep == RxTick \/ RxRecv \/ RxHandle \/ RxDecide \/ RxWrite

-----------------------------------------------------------------------------
(* The main thread *)

\* ue_ran_transport_start.
Start ==
    /\ open' = TRUE
    /\ state' = "SEARCHING"
    /\ cells' = [i \in Slots |-> Empty]
    /\ serving' = None
    /\ nas' = <<>>
    /\ acks' = 0
    /\ hb_age' = 1
    /\ ack_age' = AckInterval
    /\ inbox' = <<>>
    /\ rx' = [rx EXCEPT !.ticked = FALSE]
    /\ UNCHANGED polled

\* Mutant: the NAS queue is left as it is.
StopKeepsNas ==
    /\ open' = FALSE
    /\ state' = "IDLE"
    /\ cells' = [i \in Slots |-> Empty]
    /\ serving' = None
    /\ acks' \in IF rx.pc = "handle" THEN {0, acks} ELSE {0}
    /\ inbox' = <<>>
    /\ polled' = {}
    /\ UNCHANGED <<nas, hb_age, ack_age, rx>>

\* ue_ran_transport_stop.  The receive thread may be adding one to the count of
\* acknowledgements, and write it back after the reset.
Stop ==
    /\ open' = FALSE
    /\ state' = "IDLE"
    /\ cells' = [i \in Slots |-> Empty]
    /\ serving' = None
    /\ nas' = <<>>
    /\ acks' \in IF rx.pc = "handle" THEN {0, acks} ELSE {0}
    /\ inbox' = <<>>
    /\ polled' = {}
    /\ UNCHANGED <<hb_age, ack_age, rx>>

RadioCommand ==
    /\ budget.radio > 0
    /\ budget' = [budget EXCEPT !.radio = @ - 1]
    /\ UNCHANGED signal

\* ue_engine_set_radio starts a transport that is IDLE and stops one that is not.
RadioOn ==
    /\ RadioCommand
    /\ ~radio
    /\ radio' = TRUE
    /\ IF state = "IDLE" THEN Start
       ELSE UNCHANGED <<state, open, cells, serving, nas, acks, hb_age, ack_age, rx,
                        inbox, polled>>

RadioOff ==
    /\ RadioCommand
    /\ radio
    /\ radio' = FALSE
    /\ IF state # "IDLE" THEN Stop
       ELSE UNCHANGED <<state, open, cells, serving, nas, acks, hb_age, ack_age, rx,
                        inbox, polled>>

\* ue_ran_transport_recv_nas_pdu.
RecvNas ==
    /\ nas # <<>>
    /\ nas' = Tail(nas)
    /\ UNCHANGED <<netVars, state, open, cells, serving, acks, hb_age, ack_age,
                   rx, polled>>

-----------------------------------------------------------------------------
(* The gNBs and the clock *)

deviceVars == <<state, open, cells, serving, nas, acks, hb_age, ack_age, rx,
                radio>>

InRange == {g \in Gnbs : signal[g] > 0}

GnbAnswer(g) ==
    /\ g \in polled \cap InRange
    /\ Len(inbox) < MaxInbox
    /\ polled' = polled \ {g}
    /\ inbox' = Append(inbox, HeartbeatAck(g, signal[g]))
    /\ UNCHANGED <<deviceVars, signal, budget>>

GnbSend ==
    /\ budget.pdus > 0
    /\ open /\ InRange # {}
    /\ Len(inbox) < MaxInbox
    /\ inbox' = Append(inbox, Rrc)
    /\ budget' = [budget EXCEPT !.pdus = @ - 1]
    /\ UNCHANGED <<deviceVars, polled, signal>>

Move(g) ==
    /\ budget.moves > 0
    /\ \E d \in 0..MaxDbm \ {signal[g]} : signal' = [signal EXCEPT ![g] = d]
    /\ budget' = [budget EXCEPT !.moves = @ - 1]
    /\ UNCHANGED <<deviceVars, inbox, polled>>

Older(n, cap) == IF n < cap THEN n + 1 ELSE n

\* ran_hb_worker asks all gNBs, whatever the receive thread does.
HbWorker == IF open /\ state # "IDLE" THEN Gnbs ELSE {}

\* A second passes and the heartbeat thread wakes up.  The receive thread has run
\* meanwhile, and the gNBs in range have answered: both take some milliseconds.
Elapse ==
    /\ rx.pc = "poll"
    /\ ~open \/ state = "IDLE" \/ (rx.ticked /\ inbox = <<>>)
    /\ polled \cap InRange = {}
    /\ cells' = [i \in Slots |-> IF cells[i] = Empty THEN Empty
                 ELSE [cells[i] EXCEPT !.age = Older(@, HbTimeout + 1)]]
    /\ hb_age' = 1
    /\ ack_age' = Older(ack_age, AckInterval)
    /\ rx' = [rx EXCEPT !.ticked = FALSE]
    /\ polled' = HbWorker
    /\ UNCHANGED <<netVars, state, open, serving, nas, acks>>

-----------------------------------------------------------------------------

RanNext ==
    \/ RxStep
    \/ RadioOn
    \/ RadioOff
    \/ RecvNas
    \/ \E g \in Gnbs : GnbAnswer(g) \/ Move(g)
    \/ GnbSend
    \/ Elapse

RanSpec == RanInit /\ [][RanNext]_ranVars

\* The threads keep running, a gNB in range answers, and time passes.
FairRanSpec ==
    /\ RanSpec
    /\ WF_ranVars(RxStep)
    /\ WF_ranVars(Elapse)
    /\ \A g \in Gnbs : WF_ranVars(GnbAnswer(g))

-----------------------------------------------------------------------------
(* Properties *)

\* Every field of the transport's context keeps to its type.
RanTypeOK ==
    /\ state \in LinkStates
    /\ open \in BOOLEAN /\ radio \in BOOLEAN
    /\ cells \in [Slots -> CellType]
    /\ serving \in Gnbs \cup {None}
    /\ nas \in Seq({Rrc}) /\ Len(nas) <= QueueSize
    /\ acks \in 0..MaxAcks
    /\ hb_age \in 0..1 /\ ack_age \in 0..AckInterval
    /\ rx \in RxType
    /\ inbox \in Seq(Datagrams)
    /\ polled \subseteq Gnbs /\ signal \in [Gnbs -> 0..MaxDbm]
    /\ budget \in BudgetType

\* The cell the senders address is always one of the strongest in the table, and
\* there is one whenever the table has a cell: however heartbeat answers, changes
\* of signal, expiries, start and stop interleave (expire_cells,
\* handle_heartbeat_ack, ue_ran_transport_start and _stop under hb_lock).
ServingIsStrongest == serving = SelectBest(cells)

\* The transport is the link the engine is written against.  A tick in progress
\* whose reading of the state is out of date is the link's late write.
Link == INSTANCE RanLink
            WITH link <- state,
                 late <- rx.pc \in {"decide", "write"} /\ rx.seen # state

\* Every step of the three threads is a step of RanLink, or none: the link state
\* only moves as ue_ran_transport_tick's transitions, start and stop say, but for
\* the one write of a tick that a stop has overtaken, and the NAS queue stays a
\* FIFO that drops what does not fit.
RefinesLink == Link!LinkSpec

\* The link state follows the cells: with the socket open and a gNB in range for
\* good the link comes up and stays up, and without one it does not stay
\* CONNECTED (the heartbeat and expiry cycle of ue_ran_transport_tick).
LinkFollowsCells ==
    /\ <>[](open /\ InRange # {}) => <>[](state = "CONNECTED")
    /\ <>[](open /\ InRange = {}) => <>[](state # "CONNECTED")

\* A recorded acknowledgement does not wait for ever while the transport is open
\* (send_pending_acks and its interval).
AcksGoOut == acks > 0 ~> acks = 0 \/ ~open

-----------------------------------------------------------------------------

\* ue_ran_transport.c:321: "once state==IDLE / socket_fd<0 the long-lived rx
\* thread idles and stops touching the shared state".  A stopped transport stays
\* IDLE until it is started.
StoppedStaysIdle == ~open => state = "IDLE"

=============================================================================
