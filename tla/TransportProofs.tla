-------------------------- MODULE TransportProofs --------------------------
(***************************************************************************)
(* The threads around the RAN socket.                                      *)
(*                                                                         *)
(* RanTransport, for any number of gNBs, cells and queued messages and any *)
(* interleaving of its three threads: the transport's context keeps to its *)
(* type, the serving cell is the strongest of the table, and the link      *)
(* state and NAS queue move only as RanLink says.                          *)
(*                                                                         *)
(* DataPath, for queues of any size, any packets and any number of events: *)
(* the host reads the packets of its own session only, in the order of the *)
(* network and each at most once, unless a radio off tore the data queue;  *)
(* and the gNB gets each datagram of the host once, in the host's order.   *)
(***************************************************************************)
EXTENDS RanTransport, DataPath, WellFoundedInduction, TLAPS

\* What the link state has to do with the cells, by where the receive thread is.
\* Only a tick in progress may have found a cell without having said so; the
\* state it has read is then the present one, as a stop or start in between would
\* have taken the cell away.
LinkAgrees ==
    /\ open => state # "IDLE"
    /\ open /\ serving # None =>
         /\ rx.pc = "poll" => state = "CONNECTED"
         /\ rx.pc \in {"decide", "write"} => rx.seen = state
         /\ rx.pc = "write" => rx.next = "CONNECTED"
    /\ rx.pc = "write" =>
         \/ rx.seen \in {"SEARCHING", "LOST"} /\ rx.next = "CONNECTED"
         \/ rx.seen = "CONNECTED" /\ rx.next = "LOST"

RanInv == RanTypeOK /\ ServingIsStrongest /\ LinkAgrees

-----------------------------------------------------------------------------
(* The cell table *)

\* Min, as handed to SelectBest and SlotFor.
LEMMA MinOfNats ==
  ASSUME NEW S, S \subseteq Nat, S # {}
  PROVE  Min(S) \in S /\ \A y \in S : Min(S) <= y
  <1>1. PICK x \in S : \A y \in S : ~(<<y, x>> \in OpToRel(<, Nat))
    BY NatLessThanWellFounded, WFMin, ZenonT(30)
  <1>2. \A y \in S : x <= y
    <2> TAKE y \in S
    <2>1. x \in Nat /\ y \in Nat
      OBVIOUS
    <2>2. ~(y < x)
      BY <1>1, <2>1, ZenonT(30) DEF OpToRel
    <2> QED
      BY <2>1, <2>2
  <1> QED
    BY <1>2, ZenonT(30) DEF Min

Best(t) == {i \in Valid(t) : \A j \in Valid(t) : t[j].dbm <= t[i].dbm}

\* What a valid slot holds.
LEMMA CellFields ==
  ASSUME NEW t \in [Slots -> CellType], NEW i \in Valid(t)
  PROVE  /\ i \in Slots /\ t[i] \in [gnb: Gnbs, dbm: 1..MaxDbm, age: 0..(HbTimeout + 1)]
         /\ t[i].gnb \in Gnbs /\ t[i].gnb # None
         /\ t[i].dbm \in 1..MaxDbm /\ t[i].age \in 0..(HbTimeout + 1)
  BY RanAssumption DEF Valid, CellType, None

\* A table with a cell has a strongest one.
LEMMA StrongestExists ==
  ASSUME NEW t \in [Slots -> CellType], Valid(t) # {}
  PROVE  Best(t) # {}
  <1> DEFINE gap(i) == MaxDbm - t[i].dbm
             gaps == {gap(i) : i \in Valid(t)}
  <1>1. MaxDbm \in Nat /\ \A i \in Valid(t) : t[i].dbm \in 1..MaxDbm
    BY RanAssumption, CellFields
  <1>2. gaps \subseteq Nat /\ gaps # {}
    BY <1>1
  <1>3. PICK least \in gaps : \A other \in gaps : least <= other
    <2> HIDE DEF gaps
    <2> QED
      BY <1>2, MinOfNats, ZenonT(30)
  <1>4. PICK i \in Valid(t) : \A j \in Valid(t) : gap(i) <= gap(j)
    BY <1>3
  <1>5. \A j \in Valid(t) : t[j].dbm <= t[i].dbm
    BY <1>1, <1>4
  <1> QED
    BY <1>5 DEF Best

\* The slot select_best_serving_cell takes.
LEMMA SelectBestIs ==
  ASSUME NEW t \in [Slots -> CellType]
  PROVE  /\ Valid(t) = {} => SelectBest(t) = None
         /\ Valid(t) # {} => /\ Min(Best(t)) \in Best(t)
                             /\ \A i \in Best(t) : Min(Best(t)) <= i
                             /\ SelectBest(t) = t[Min(Best(t))].gnb
                             /\ SelectBest(t) \in Gnbs
  <1>1. SelectBest(t) = IF Best(t) = {} THEN None ELSE t[Min(Best(t))].gnb
    BY DEF SelectBest, Best
  <1>2. CASE Valid(t) = {}
    BY <1>1, <1>2 DEF Best
  <1>3. CASE Valid(t) # {}
    <2>1. Best(t) # {} /\ Best(t) \subseteq Valid(t)
      BY <1>3, StrongestExists DEF Best
    <2>2. Best(t) \subseteq Nat
      BY <2>1, RanAssumption DEF Valid, Slots
    <2>3. Min(Best(t)) \in Best(t) /\ \A i \in Best(t) : Min(Best(t)) <= i
      BY <2>1, <2>2, MinOfNats
    <2>4. t[Min(Best(t))].gnb \in Gnbs
      BY <2>1, <2>3, CellFields
    <2> QED
      BY <1>1, <1>3, <2>1, <2>3, <2>4
  <1> QED
    BY <1>2, <1>3

\* SelectBest names a gNB or none.
LEMMA SelectBestTyped ==
  ASSUME NEW t \in [Slots -> CellType]
  PROVE  SelectBest(t) \in Gnbs \cup {None}
  BY SelectBestIs

\* An empty table serves none.
LEMMA SelectBestOfEmpty ==
  ASSUME NEW t, t = [i \in Slots |-> Empty]
  PROVE  t \in [Slots -> CellType] /\ SelectBest(t) = None
  <1>1. t \in [Slots -> CellType]
    BY DEF CellType
  <1>2. Valid(t) = {}
    BY DEF Valid
  <1> QED
    BY <1>1, <1>2, SelectBestIs

\* Dropping cells of other gNBs than the serving one leaves it the strongest, and
\* the first of the strongest.
LEMMA DropOthers ==
  ASSUME NEW t \in [Slots -> CellType], NEW D \in SUBSET Valid(t), NEW u,
         u = [i \in Slots |-> IF i \in D THEN Empty ELSE t[i]],
         \A i \in D : t[i].gnb # SelectBest(t)
  PROVE  u \in [Slots -> CellType] /\ SelectBest(u) = SelectBest(t)
  <1>1. u \in [Slots -> CellType]
    BY DEF CellType
  <1>2. Valid(u) = Valid(t) \ D /\ \A i \in Valid(u) : u[i] = t[i]
    BY DEF Valid
  <1>3. CASE Valid(t) = {}
    BY <1>1, <1>2, <1>3, SelectBestIs
  <1>4. CASE Valid(t) # {}
    <2> DEFINE m == Min(Best(t))
    <2>1. m \in Best(t) /\ m \in Valid(t) /\ SelectBest(t) = t[m].gnb
      BY <1>4, SelectBestIs, ZenonT(30) DEF Best
    <2>2. m \in Valid(u) /\ Valid(u) \subseteq Valid(t)
      BY <1>2, <2>1
    <2>3. m \in Best(u)
      BY <1>2, <2>1, <2>2, ZenonT(30) DEF Best
    <2>4. Best(u) \subseteq Best(t)
      <3> SUFFICES ASSUME NEW i \in Best(u) PROVE i \in Best(t)
        OBVIOUS
      <3>1. i \in Valid(t) /\ u[i] = t[i] /\ u[m] = t[m] /\ u[m].dbm <= u[i].dbm
        BY <1>2, <2>2 DEF Best
      <3>2. ASSUME NEW j \in Valid(t) PROVE t[j].dbm <= t[i].dbm
        <4>1. t[j].dbm <= t[m].dbm
          BY <2>1 DEF Best
        <4>2. t[j].dbm \in 1..MaxDbm /\ t[m].dbm \in 1..MaxDbm /\ t[i].dbm \in 1..MaxDbm
          BY <2>1, <3>1, CellFields
        <4> QED
          BY <3>1, <4>1, <4>2, RanAssumption
      <3> QED
        BY <3>1, <3>2 DEF Best
    <2>5. Min(Best(u)) = m
      <3>1. Min(Best(u)) \in Best(u) /\ \A i \in Best(u) : Min(Best(u)) <= i
        BY <1>1, <2>2, SelectBestIs
      <3>2. Min(Best(u)) <= m /\ m <= Min(Best(u))
        BY <1>4, <2>3, <2>4, <3>1, SelectBestIs
      <3>3. Best(t) \subseteq Nat
        BY RanAssumption DEF Best, Valid, Slots
      <3>4. m \in Nat /\ Min(Best(u)) \in Nat
        BY <2>1, <2>4, <3>1, <3>3
      <3> QED
        BY <3>2, <3>4
    <2>6. SelectBest(u) = u[m].gnb
      BY <1>1, <2>2, <2>5, SelectBestIs
    <2> QED
      BY <1>1, <1>2, <2>1, <2>2, <2>6
  <1> QED
    BY <1>3, <1>4

\* Only the gNBs and the signals matter, not the ages.
LEMMA AgesDoNotMatter ==
  ASSUME NEW t \in [Slots -> CellType], NEW u \in [Slots -> CellType],
         \A i \in Slots : /\ (u[i] = Empty) = (t[i] = Empty)
                          /\ u[i].gnb = t[i].gnb /\ u[i].dbm = t[i].dbm
  PROVE  SelectBest(u) = SelectBest(t)
  <1>1. Valid(u) = Valid(t)
    BY DEF Valid
  <1>2. Best(u) = Best(t)
    BY <1>1 DEF Best, Valid
  <1>3. CASE Valid(t) = {}
    BY <1>1, <1>3, SelectBestIs
  <1>4. CASE Valid(t) # {}
    <2>1. Min(Best(t)) \in Slots
      BY <1>4, SelectBestIs, ZenonT(30) DEF Best, Valid
    <2> QED
      BY <1>1, <1>2, <1>4, <2>1, SelectBestIs
  <1> QED
    BY <1>3, <1>4

-----------------------------------------------------------------------------
(* The receive thread *)

\* The constants are numbers.
LEMMA RanBounds ==
  /\ {MaxDbm, MaxCells, HbTimeout, AckInterval, MaxAcks, QueueSize, RxBatch} \subseteq Nat \ {0}
  /\ {MaxRadio, MaxMoves, MaxPdus} \subseteq Nat
  /\ None \notin Gnbs
  BY RanAssumption DEF None

\* The fields of rx.
LEMMA RxFields ==
  ASSUME RanTypeOK
  PROVE  /\ rx.pc \in {"poll", "recv", "handle", "decide", "write"}
         /\ rx.msg \in Datagrams \cup {NoDatagram}
         /\ rx.left \in 0..RxBatch
         /\ rx.seen \in LinkStates /\ rx.next \in LinkStates
         /\ rx.ticked \in BOOLEAN
  BY DEF RanTypeOK, RxType

\* expire_cells keeps the table's type and the choice of the serving cell, and
\* reports the loss of a link only when there was a serving cell.
LEMMA ExpireCells ==
  ASSUME RanTypeOK, ServingIsStrongest, expire_cells
  PROVE  /\ cells' \in [Slots -> CellType]
         /\ serving' \in Gnbs \cup {None}
         /\ serving' = SelectBest(cells')
         /\ state' = state \/ (serving # None /\ state' = "LOST")
  <1> DEFINE t == [i \in Slots |-> IF i \in Expired(cells) THEN Empty ELSE cells[i]]
             lost == \E i \in Expired(cells) : cells[i].gnb = serving
  <1>1. cells \in [Slots -> CellType] /\ serving = SelectBest(cells)
    BY DEF RanTypeOK, ServingIsStrongest
  <1>2. /\ cells' = t
        /\ serving' = IF lost THEN SelectBest(t) ELSE serving
        /\ state' = IF lost /\ SelectBest(t) = None THEN "LOST" ELSE state
    BY DEF expire_cells
  <1>3. Expired(cells) \subseteq Valid(cells) /\ t \in [Slots -> CellType]
    BY <1>1 DEF Expired, CellType
  <1> HIDE DEF t
  <1>4. CASE lost
    <2>1. serving # None
      BY <1>1, <1>3, <1>4, CellFields
    <2>2. serving' = SelectBest(t)
      BY <1>2, <1>4
    <2> QED
      BY <1>2, <1>3, <2>1, <2>2, SelectBestTyped, ZenonT(30)
  <1>5. CASE ~lost
    <2>1. \A i \in Expired(cells) : cells[i].gnb # SelectBest(cells)
      BY <1>1, <1>5
    <2>2. SelectBest(t) = SelectBest(cells)
      BY <1>1, <1>3, <2>1, DropOthers DEF t
    <2> QED
      BY <1>1, <1>2, <1>3, <1>5, <2>2, SelectBestTyped
  <1> QED
    BY <1>4, <1>5

\* The start of a tick.
LEMMA RxTickInv ==
  ASSUME RanInv, RxTick
  PROVE  RanInv'
  <1>1. /\ cells' \in [Slots -> CellType] /\ serving' \in Gnbs \cup {None}
        /\ serving' = SelectBest(cells')
        /\ state' = state \/ (serving # None /\ state' = "LOST")
    BY ExpireCells DEF RanInv, RxTick
  <1>2. rx' \in RxType /\ rx'.pc = "recv"
    <2>1. rx \in RxType /\ rx' = [rx EXCEPT !.pc = "recv", !.left = RxBatch, !.ticked = TRUE]
      BY DEF RxTick, RanInv, RanTypeOK
    <2>2. RxBatch \in 0..RxBatch
      BY RanBounds
    <2> QED
      BY <2>1, <2>2, ZenonT(30) DEF RxType
  <1>3. RanTypeOK'
    BY <1>1, <1>2, SMTT(30) DEF RxTick, RanInv, RanTypeOK, LinkStates, netVars
  <1>4. LinkAgrees'
    BY <1>1, <1>2 DEF RxTick, RanInv, LinkAgrees
  <1> QED
    BY <1>1, <1>3, <1>4 DEF RanInv, ServingIsStrongest

\* A turn of receive_pending's loop.
LEMMA RxRecvInv ==
  ASSUME RanInv, RxRecv
  PROVE  RanInv'
  <1>1. UNCHANGED <<state, open, cells, serving, nas, hb_age, radio, polled, signal, budget>>
    BY DEF RxRecv
  <1>2. CASE AbortTick /\ ~open /\ UNCHANGED inbox
    <2>1. rx' \in RxType /\ rx'.pc = "poll"
      BY <1>2, ZenonT(30) DEF AbortTick, RanInv, RanTypeOK, RxType
    <2> QED
      BY <1>1, <1>2, <2>1 DEF AbortTick, RanInv, RanTypeOK, LinkAgrees, ServingIsStrongest
  <1>3. CASE EndReceive /\ UNCHANGED inbox
    <2>1. rx' \in RxType /\ rx'.pc = "decide" /\ rx'.seen = state
      BY <1>3, ZenonT(30) DEF EndReceive, RanInv, RanTypeOK, RxType
    <2>2. acks' \in 0..MaxAcks /\ ack_age' \in 0..AckInterval
      BY <1>3, RanBounds DEF EndReceive, RanInv, RanTypeOK
    <2> QED
      BY <1>1, <1>3, <2>1, <2>2 DEF RanInv, RanTypeOK, LinkAgrees, ServingIsStrongest
  <1>4. CASE /\ open /\ inbox # <<>> /\ rx.left > 0
             /\ inbox' = Tail(inbox)
             /\ rx' = [rx EXCEPT !.pc = "handle", !.msg = Head(inbox), !.left = @ - 1]
             /\ UNCHANGED <<acks, ack_age>>
    <2>1. inbox \in Seq(Datagrams)
      BY DEF RanInv, RanTypeOK
    <2>2. Head(inbox) \in Datagrams /\ inbox' \in Seq(Datagrams)
      BY <1>4, <2>1
    <2>3. rx.left - 1 \in 0..RxBatch
      <3>1. rx.left \in 0..RxBatch /\ RxBatch \in Nat
        BY RxFields, RanBounds DEF RanInv
      <3> QED
        BY <1>4, <3>1
    <2>4. rx' \in RxType /\ rx'.pc = "handle"
      BY <1>4, <2>2, <2>3, ZenonT(30) DEF RanInv, RanTypeOK, RxType
    <2> QED
      BY <1>1, <1>4, <2>2, <2>4 DEF RanInv, RanTypeOK, LinkAgrees, ServingIsStrongest
  <1> QED
    BY <1>2, <1>3, <1>4 DEF RxRecv

\* A datagram is handled.
LEMMA RxHandleInv ==
  ASSUME RanInv, RxHandle
  PROVE  RanInv'
  <1>1. UNCHANGED <<netVars, state, open, hb_age, ack_age, polled>>
    BY DEF RxHandle
  <1>2. rx' \in RxType /\ rx'.pc = "recv"
    BY ZenonT(30) DEF RxHandle, RanInv, RanTypeOK, RxType
  <1>3. rx.msg \in Datagrams \cup {NoDatagram}
    BY RxFields, ZenonT(30) DEF RanInv
  <1>4. CASE rx.msg.kind = "heartbeatAck" /\ handle_heartbeat_ack(rx.msg) /\ UNCHANGED <<acks, nas>>
    <2> DEFINE slot == SlotFor(cells, rx.msg.gnb)
               t == [i \in Slots |-> IF i \in slot
                       THEN [gnb |-> rx.msg.gnb, dbm |-> rx.msg.dbm, age |-> 0]
                       ELSE cells[i]]
    <2>1. rx.msg.gnb \in Gnbs /\ rx.msg.dbm \in 1..MaxDbm
      BY <1>3, <1>4 DEF Datagrams, HeartbeatAck, Rrc, NoDatagram, None
    <2>2. [gnb |-> rx.msg.gnb, dbm |-> rx.msg.dbm, age |-> 0] \in CellType
      BY <2>1, RanBounds DEF CellType
    <2>3. t \in [Slots -> CellType]
      BY <2>2, ZenonT(30) DEF RanInv, RanTypeOK
    <2>4. cells' = t /\ serving' = IF slot = {} THEN serving ELSE SelectBest(t)
      BY <1>4, ZenonT(30) DEF handle_heartbeat_ack
    <2>5. serving' = SelectBest(cells')
      <3>1. CASE slot = {}
        <4>1. t = cells
          BY <3>1, ZenonT(30) DEF RanInv, RanTypeOK
        <4> QED
          BY <2>4, <3>1, <4>1 DEF RanInv, ServingIsStrongest
      <3> QED
        BY <2>4, <3>1
    <2>6. cells' \in [Slots -> CellType] /\ serving' \in Gnbs \cup {None}
      BY <2>3, <2>4, <2>5, SelectBestTyped, ZenonT(30)
    <2> HIDE DEF t
    <2> QED
      BY <1>1, <1>2, <1>4, <2>5, <2>6, ZenonT(30) DEF RanInv, RanTypeOK, LinkAgrees, ServingIsStrongest, netVars
  <1>5. CASE rx.msg.kind = "rrc" /\ handle_pdu_transmission(rx.msg) /\ UNCHANGED <<cells, serving>>
    <2>1. rx.msg = Rrc
      BY <1>3, <1>5 DEF Datagrams, HeartbeatAck, Rrc, NoDatagram, None
    <2>2. acks' \in 0..MaxAcks
      BY <1>5, RanBounds, SMTT(60) DEF handle_pdu_transmission, RanInv, RanTypeOK
    <2>3. nas' \in Seq({Rrc}) /\ Len(nas') <= QueueSize
      <3>1. nas \in Seq({Rrc}) /\ Len(nas) <= QueueSize /\ QueueSize \in Nat
        BY RanBounds DEF RanInv, RanTypeOK
      <3>2. nas' = IF Len(nas) < QueueSize THEN Append(nas, rx.msg) ELSE nas
        BY <1>5 DEF handle_pdu_transmission
      <3> QED
        BY <2>1, <3>1, <3>2
    <2> QED
      BY <1>1, <1>2, <1>5, <2>2, <2>3, ZenonT(30) DEF RanInv, RanTypeOK, LinkAgrees, ServingIsStrongest, netVars
  <1> QED
    BY <1>4, <1>5 DEF RxHandle

\* The tick decides on a transition, and writes it.
LEMMA RxDecideWriteInv ==
  ASSUME RanInv, RxDecide \/ RxWrite
  PROVE  RanInv'
  <1>1. UNCHANGED <<netVars, open, cells, serving, nas, acks, hb_age, ack_age, polled>>
    BY DEF RxDecide, RxWrite
  <1>2. rx \in RxType /\ state \in LinkStates /\ LinkAgrees
    BY DEF RanInv, RanTypeOK
  <1>3. /\ rx' \in RxType /\ state' \in LinkStates
        /\ LinkAgrees'
    <2>1. CASE RxDecide
      <3> DEFINE next == NextState(rx.seen, serving)
      <3>1. next \in LinkStates
        BY <1>2 DEF NextState, RxType, LinkStates
      <3>2. CASE next = rx.seen
        <4>1. rx' = [rx EXCEPT !.pc = "poll", !.seen = "IDLE"] /\ state' = state
          BY <2>1, <3>2 DEF RxDecide
        <4>2. rx' \in RxType /\ rx'.pc = "poll"
          BY <1>2, <4>1, ZenonT(30) DEF RxType, LinkStates
        <4>3. open /\ serving # None => state = "CONNECTED"
          BY <1>2, <2>1, <3>2 DEF LinkAgrees, NextState, LinkStates, RxDecide
        <4> QED
          BY <1>1, <1>2, <4>1, <4>2, <4>3 DEF LinkAgrees
      <3>3. CASE next # rx.seen
        <4>1. rx' = [rx EXCEPT !.pc = "write", !.next = next] /\ state' = state
          BY <2>1, <3>3 DEF RxDecide
        <4>2. rx' \in RxType /\ rx'.pc = "write" /\ rx'.seen = rx.seen /\ rx'.next = next
          BY <1>2, <3>1, <4>1, ZenonT(30) DEF RxType
        <4>3. /\ \/ rx.seen \in {"SEARCHING", "LOST"} /\ next = "CONNECTED"
                 \/ rx.seen = "CONNECTED" /\ next = "LOST"
              /\ serving # None => next = "CONNECTED"
          BY <3>3 DEF NextState
        <4>4. rx.pc = "decide"
          BY <2>1 DEF RxDecide
        <4> QED
          BY <1>1, <1>2, <4>1, <4>2, <4>3, <4>4 DEF LinkAgrees
      <3> QED
        BY <3>2, <3>3
    <2>2. CASE RxWrite
      <3>1. /\ rx.pc = "write" /\ state' = rx.next
            /\ rx' = [rx EXCEPT !.pc = "poll", !.seen = "IDLE", !.next = "IDLE"]
        BY <2>2 DEF RxWrite
      <3>2. rx' \in RxType /\ rx'.pc = "poll"
        BY <1>2, <3>1, ZenonT(30) DEF RxType, LinkStates
      <3> QED
        BY <1>1, <1>2, <3>1, <3>2 DEF LinkAgrees, LinkStates
    <2> QED
      BY <2>1, <2>2
  <1> QED
    BY <1>1, <1>3 DEF RanInv, RanTypeOK, ServingIsStrongest, netVars

-----------------------------------------------------------------------------
(* The main thread, the gNBs and the clock *)

\* The main thread switches the radio: start and stop leave the receive thread
\* where it is.
LEMMA RadioInv ==
  ASSUME RanInv, RadioOn \/ RadioOff
  PROVE  RanInv'
  <1>1. budget' \in BudgetType
    <2>1. budget \in BudgetType /\ budget.radio > 0 /\ budget' = [budget EXCEPT !.radio = @ - 1]
      BY DEF RadioOn, RadioOff, RadioCommand, RanInv, RanTypeOK
    <2>2. budget.radio - 1 \in 0..MaxRadio
      BY <2>1, RanBounds DEF BudgetType
    <2> QED
      BY <2>1, <2>2 DEF BudgetType
  <1>2. radio' \in BOOLEAN /\ UNCHANGED signal
    BY ZenonT(30) DEF RadioOn, RadioOff, RadioCommand
  <1>3. CASE Start
    <2>1. cells' \in [Slots -> CellType] /\ SelectBest(cells') = None
      BY <1>3, SelectBestOfEmpty DEF Start
    <2>2. rx' = [rx EXCEPT !.ticked = FALSE] /\ rx \in RxType
      BY <1>3 DEF Start, RanInv, RanTypeOK
    <2>3. rx' \in RxType /\ rx'.pc = rx.pc /\ rx'.seen = rx.seen /\ rx'.next = rx.next
      BY <2>2, ZenonT(30) DEF RxType
    <2>4. acks' \in 0..MaxAcks /\ hb_age' \in 0..1 /\ ack_age' \in 0..AckInterval
      BY <1>3, RanBounds DEF Start
    <2>5. nas' \in Seq({Rrc}) /\ Len(nas') <= QueueSize /\ inbox' \in Seq(Datagrams)
      BY <1>3, RanBounds DEF Start
    <2>6. RanTypeOK'
      BY <1>1, <1>2, <1>3, <2>1, <2>3, <2>4, <2>5
         DEF Start, RanInv, RanTypeOK, LinkStates
    <2>7. LinkAgrees'
      BY <1>3, <2>3 DEF Start, RanInv, LinkAgrees
    <2> QED
      BY <1>3, <2>1, <2>6, <2>7 DEF Start, RanInv, ServingIsStrongest
  <1>4. CASE Stop
    <2>1. cells' \in [Slots -> CellType] /\ SelectBest(cells') = None
      BY <1>4, SelectBestOfEmpty DEF Stop
    <2>2. acks' \in 0..MaxAcks
      BY <1>4, RanBounds, SMTT(30) DEF Stop, RanInv, RanTypeOK
    <2>3. nas' \in Seq({Rrc}) /\ Len(nas') <= QueueSize /\ inbox' \in Seq(Datagrams)
      BY <1>4, RanBounds DEF Stop
    <2>4. RanTypeOK'
      BY <1>1, <1>2, <1>4, <2>1, <2>2, <2>3, ZenonT(30) DEF Stop, RanInv, RanTypeOK, LinkStates
    <2>5. LinkAgrees'
      BY <1>4, ZenonT(30) DEF Stop, RanInv, LinkAgrees
    <2> QED
      BY <1>4, <2>1, <2>4, <2>5 DEF Stop, RanInv, ServingIsStrongest
  <1>5. CASE UNCHANGED <<state, open, cells, serving, nas, acks, hb_age, ack_age, rx,
                         inbox, polled>>
    BY <1>1, <1>2, <1>5, ZenonT(30) DEF RanInv, RanTypeOK, LinkAgrees, ServingIsStrongest
  <1> QED
    BY <1>3, <1>4, <1>5 DEF RadioOn, RadioOff

\* A message is taken out of the NAS queue.
LEMMA RecvNasInv ==
  ASSUME RanInv, RecvNas
  PROVE  RanInv'
  <1>1. nas' \in Seq({Rrc}) /\ Len(nas') <= QueueSize
    <2>1. nas \in Seq({Rrc}) /\ Len(nas) <= QueueSize /\ QueueSize \in Nat
      BY RanBounds DEF RanInv, RanTypeOK
    <2>2. nas # <<>> /\ nas' = Tail(nas)
      BY DEF RecvNas
    <2> QED
      BY <2>1, <2>2
  <1> QED
    BY <1>1 DEF RecvNas, RanInv, RanTypeOK, LinkAgrees, ServingIsStrongest, netVars

\* Datagrams arrive and signals change.
LEMMA GnbInv ==
  ASSUME RanInv, GnbSend \/ \E g \in Gnbs : GnbAnswer(g) \/ Move(g)
  PROVE  RanInv'
  <1>1. UNCHANGED deviceVars
    BY DEF GnbSend, GnbAnswer, Move
  <1>2. CASE GnbSend
    <2>1. inbox \in Seq(Datagrams) /\ Rrc \in Datagrams /\ budget \in BudgetType
      BY DEF RanInv, RanTypeOK, Datagrams
    <2>2. inbox' \in Seq(Datagrams)
      BY <1>2, <2>1 DEF GnbSend
    <2>3. budget.pdus - 1 \in 0..MaxPdus
      <3>1. budget.pdus \in 0..MaxPdus /\ budget.pdus > 0 /\ MaxPdus \in Nat
        BY <1>2, <2>1, RanBounds DEF GnbSend, BudgetType
      <3> QED
        BY <3>1
    <2>4. budget' \in BudgetType
      BY <1>2, <2>1, <2>3, ZenonT(30) DEF GnbSend, BudgetType
    <2> QED
      BY <1>1, <1>2, <2>2, <2>4
         DEF GnbSend, RanInv, RanTypeOK, LinkAgrees, ServingIsStrongest, deviceVars
  <1>3. ASSUME NEW g \in Gnbs, GnbAnswer(g) PROVE RanInv'
    <2>1. signal[g] \in 1..MaxDbm
      <3>1. signal \in [Gnbs -> 0..MaxDbm] /\ MaxDbm \in Nat
        BY RanBounds DEF RanInv, RanTypeOK
      <3>2. signal[g] > 0
        BY <1>3 DEF GnbAnswer, InRange
      <3> QED
        BY <3>1, <3>2, SMTT(30)
    <2>2. HeartbeatAck(g, signal[g]) \in Datagrams
      BY <2>1, SMTT(30) DEF Datagrams
    <2>3. inbox \in Seq(Datagrams) /\ inbox' = Append(inbox, HeartbeatAck(g, signal[g]))
      BY <1>3 DEF GnbAnswer, RanInv, RanTypeOK
    <2>4. inbox' \in Seq(Datagrams)
      BY <2>2, <2>3
    <2> QED
      BY <1>1, <1>3, <2>4
         DEF GnbAnswer, RanInv, RanTypeOK, LinkAgrees, ServingIsStrongest, deviceVars
  <1>4. ASSUME NEW g \in Gnbs, Move(g) PROVE RanInv'
    <2>1. budget \in BudgetType /\ signal \in [Gnbs -> 0..MaxDbm]
      BY DEF RanInv, RanTypeOK
    <2>2. signal' \in [Gnbs -> 0..MaxDbm]
      BY <1>4, <2>1 DEF Move
    <2>3. budget.moves - 1 \in 0..MaxMoves
      BY <1>4, <2>1, RanBounds DEF Move, BudgetType
    <2>4. budget' \in BudgetType
      BY <1>4, <2>1, <2>3 DEF Move, BudgetType
    <2> QED
      BY <1>1, <1>4, <2>2, <2>4, SMTT(30)
         DEF Move, RanInv, RanTypeOK, LinkAgrees, ServingIsStrongest, deviceVars
  <1> QED
    BY <1>2, <1>3, <1>4

\* A second passes: the cells grow older and the serving one stays.
LEMMA ElapseInv ==
  ASSUME RanInv, Elapse
  PROVE  RanInv'
  <1>1. cells \in [Slots -> CellType]
    BY ZenonT(30) DEF RanInv, RanTypeOK
  <1>2. ASSUME NEW i \in Slots
        PROVE  /\ cells'[i] \in CellType
               /\ (cells'[i] = Empty) = (cells[i] = Empty)
               /\ cells'[i].gnb = cells[i].gnb /\ cells'[i].dbm = cells[i].dbm
    <2>1. cells'[i] = IF cells[i] = Empty THEN Empty
                      ELSE [cells[i] EXCEPT !.age = Older(@, HbTimeout + 1)]
      BY DEF Elapse
    <2>2. CASE cells[i] = Empty
      BY <2>1, <2>2, ZenonT(30) DEF CellType
    <2>3. CASE cells[i] # Empty
      <3>1. i \in Valid(cells)
        BY <2>3 DEF Valid
      <3>2. /\ cells[i] \in [gnb: Gnbs, dbm: 1..MaxDbm, age: 0..(HbTimeout + 1)]
            /\ cells[i].gnb # None
        BY <1>1, <3>1, CellFields, ZenonT(30)
      <3>3. Older(cells[i].age, HbTimeout + 1) \in 0..(HbTimeout + 1)
        BY <3>2, RanBounds DEF Older
      <3>4. /\ cells'[i] \in [gnb: Gnbs, dbm: 1..MaxDbm, age: 0..(HbTimeout + 1)]
            /\ cells'[i].gnb = cells[i].gnb /\ cells'[i].dbm = cells[i].dbm
        BY <2>1, <2>3, <3>2, <3>3, ZenonT(30)
      <3>5. cells'[i] # Empty
        BY <3>2, <3>4 DEF Empty
      <3> QED
        BY <2>3, <3>4, <3>5 DEF CellType
    <2> QED
      BY <2>2, <2>3
  <1>3. cells' \in [Slots -> CellType]
    BY <1>2, ZenonT(30) DEF Elapse
  <1>4. SelectBest(cells') = SelectBest(cells)
    BY <1>1, <1>2, <1>3, AgesDoNotMatter
  <1>5. rx' = [rx EXCEPT !.ticked = FALSE] /\ rx \in RxType
    BY DEF Elapse, RanInv, RanTypeOK
  <1>6. rx' \in RxType /\ rx'.pc = rx.pc /\ rx'.seen = rx.seen /\ rx'.next = rx.next
    BY <1>5, ZenonT(30) DEF RxType
  <1>7. ack_age' \in 0..AckInterval /\ polled' \subseteq Gnbs
    <2>1. ack_age \in 0..AckInterval /\ AckInterval \in Nat
      BY RanBounds DEF RanInv, RanTypeOK
    <2>2. ack_age' = Older(ack_age, AckInterval) /\ polled' = HbWorker
      BY DEF Elapse
    <2> QED
      BY <2>1, <2>2, SMTT(30) DEF Older, HbWorker
  <1>8. RanTypeOK'
    BY <1>3, <1>6, <1>7 DEF Elapse, RanInv, RanTypeOK, netVars
  <1>9. LinkAgrees'
    BY <1>6, ZenonT(30) DEF Elapse, RanInv, LinkAgrees
  <1> QED
    BY <1>4, <1>8, <1>9 DEF Elapse, RanInv, ServingIsStrongest

-----------------------------------------------------------------------------
(* The invariant and the theorems *)

\* The initial state satisfies the invariant.
LEMMA InitInv == RanInit => RanInv
  <1> SUFFICES ASSUME RanInit PROVE RanInv
    BY ZenonT(30)
  <1>1. cells \in [Slots -> CellType] /\ SelectBest(cells) = None
    BY SelectBestOfEmpty, ZenonT(30) DEF RanInit
  <1>2. rx \in RxType
    BY RanBounds, SMTT(30) DEF RanInit, RxType, LinkStates
  <1>3. signal \in [Gnbs -> 0..MaxDbm] /\ budget \in BudgetType
    BY RanBounds, SMTT(30) DEF RanInit, BudgetType
  <1>4. nas \in Seq({Rrc}) /\ Len(nas) <= QueueSize /\ inbox \in Seq(Datagrams)
    BY RanBounds, SMTT(30) DEF RanInit
  <1>5. acks \in 0..MaxAcks /\ hb_age \in 0..1 /\ ack_age \in 0..AckInterval
    BY RanBounds DEF RanInit
  <1>6. RanTypeOK
    BY <1>1, <1>2, <1>3, <1>4, <1>5, ZenonT(30) DEF RanInit, RanTypeOK, LinkStates
  <1> QED
    BY <1>1, <1>6 DEF RanInit, RanInv, ServingIsStrongest, LinkAgrees

\* Every step preserves it.
LEMMA NextInv == RanInv /\ [RanNext]_ranVars => RanInv'
  <1> SUFFICES ASSUME RanInv, [RanNext]_ranVars PROVE RanInv'
    OBVIOUS
  <1>1. CASE RxStep
    BY <1>1, RxTickInv, RxRecvInv, RxHandleInv, RxDecideWriteInv, ZenonT(30) DEF RxStep
  <1>2. CASE UNCHANGED ranVars
    BY <1>2 DEF ranVars, RanInv, RanTypeOK, LinkAgrees, ServingIsStrongest
  <1> QED
    BY <1>1, <1>2, RadioInv, RecvNasInv, GnbInv, ElapseInv DEF RanNext

\* The inductive invariant: types, the serving cell, and what the link state says
\* about the cells at each point of the receive thread's loop.
THEOREM RanInvariant == RanSpec => []RanInv
  BY InitInv, NextInv, PTL DEF RanSpec

\* The transport's context keeps to its type.
THEOREM RanTypeCorrect == RanSpec => []RanTypeOK
  <1>1. RanInv => RanTypeOK
    BY DEF RanInv
  <1> QED
    BY <1>1, RanInvariant, PTL

\* The serving cell is the first of the strongest in the table, for any number of
\* gNBs and slots, although expire_cells chooses again only when the serving cell
\* is among those it drops.
THEOREM ServingCellIsStrongest == RanSpec => []ServingIsStrongest
  <1>1. RanInv => ServingIsStrongest
    BY ZenonT(30) DEF RanInv
  <1> QED
    BY <1>1, RanInvariant, PTL

\* A tick of the receive thread moves the link as RanLink does.  Where its reading
\* of the state is still good the write is a transition, elsewhere a late write.
LEMMA RxStepOnLink ==
  ASSUME RanInv, RxStep
  PROVE  [Link!LinkNext]_(Link!linkVars)
  <1> USE DEF Link!linkVars
  <1>0. /\ rx.pc \in {"poll", "recv", "handle", "decide", "write"} /\ rx \in RxType
        /\ ServingIsStrongest /\ RanTypeOK /\ LinkAgrees
    BY RxFields DEF RanInv, RanTypeOK
  <1>1. CASE RxTick
    <2>1. rx.pc = "poll" /\ rx'.pc = "recv" /\ open /\ UNCHANGED nas
      BY <1>0, <1>1 DEF RxTick, RxType
    <2>2. state' = state \/ (serving # None /\ state' = "LOST")
      BY <1>0, <1>1, ExpireCells DEF RxTick
    <2>3. serving # None => state = "CONNECTED"
      BY <1>0, <2>1 DEF LinkAgrees
    <2> QED
      BY <2>1, <2>2, <2>3 DEF Link!LinkNext, Link!LinkLose
  <1>2. CASE RxRecv
    <2>1. rx.pc = "recv" /\ UNCHANGED <<state, nas>>
      BY <1>2 DEF RxRecv
    <2>2. rx'.pc \in {"poll", "handle"} \/ (rx'.pc = "decide" /\ rx'.seen = state)
      BY <1>0, <1>2, ZenonT(30) DEF RxRecv, AbortTick, EndReceive, RxType
    <2> QED
      BY <2>1, <2>2
  <1>3. CASE RxHandle
    <2>1. rx.pc = "handle" /\ rx'.pc = "recv" /\ UNCHANGED state
      BY <1>0, <1>3 DEF RxHandle, RxType
    <2>2. nas' = nas \/ (Len(nas) < QueueSize /\ nas' = Append(nas, rx.msg))
      BY <1>3 DEF RxHandle, handle_pdu_transmission
    <2>3. nas \in Seq({Rrc})
      BY <1>0 DEF RanTypeOK
    <2>4. nas' # nas => Len(nas') = Len(nas) + 1 /\ nas'[Len(nas) + 1] = rx.msg
      BY <2>2, <2>3
    <2> QED
      BY <2>1, <2>2, <2>4 DEF Link!LinkNext, Link!LinkEnqueue
  <1>4. CASE RxDecide
    <2>1. rx.pc = "decide" /\ UNCHANGED <<state, nas>>
      BY <1>4 DEF RxDecide
    <2>2. \/ rx'.pc = "poll"
          \/ rx'.pc = "write" /\ rx'.seen = rx.seen
      BY <1>0, <1>4 DEF RxDecide, RxType
    <2> QED
      BY <2>1, <2>2 DEF Link!LinkNext, Link!LinkLateWrite
  <1>5. CASE RxWrite
    <2>1. rx.pc = "write" /\ state' = rx.next /\ UNCHANGED nas /\ rx'.pc = "poll"
      BY <1>0, <1>5 DEF RxWrite, RxType
    <2>2. \/ rx.seen \in {"SEARCHING", "LOST"} /\ rx.next = "CONNECTED"
          \/ rx.seen = "CONNECTED" /\ rx.next = "LOST"
      BY <1>0, <2>1 DEF LinkAgrees
    <2>3. CASE rx.seen = state
      BY <2>1, <2>2, <2>3 DEF Link!LinkNext, Link!LinkAcquire, Link!LinkLose
    <2>4. CASE rx.seen # state
      BY <2>1, <2>2, <2>4, ZenonT(30) DEF Link!LinkNext, Link!LinkLateWrite
    <2> QED
      BY <2>3, <2>4
  <1> QED
    BY <1>1, <1>2, <1>3, <1>4, <1>5, ZenonT(30) DEF RxStep

\* The other threads' steps start or stop the link, dequeue, or leave it alone.
LEMMA StepOnLink ==
  ASSUME RanInv, [RanNext]_ranVars
  PROVE  [Link!LinkNext]_(Link!linkVars)
  <1> USE DEF Link!linkVars
  <1>1. CASE RadioOn \/ RadioOff
    <2>1. CASE Start /\ state = "IDLE"
      BY <2>1 DEF Start, Link!LinkNext, Link!LinkStart
    <2>2. CASE Stop
      BY <2>2 DEF Stop, Link!LinkNext, Link!LinkStop
    <2> QED
      BY <1>1, <2>1, <2>2 DEF RadioOn, RadioOff
  <1>2. CASE RecvNas
    BY <1>2 DEF RecvNas, Link!LinkNext, Link!LinkDequeue
  <1>3. CASE Elapse
    <2>1. rx \in RxType /\ rx' = [rx EXCEPT !.ticked = FALSE]
      BY <1>3 DEF Elapse, RanInv, RanTypeOK
    <2>2. rx'.pc = rx.pc /\ rx'.seen = rx.seen
      BY <2>1 DEF RxType
    <2> QED
      BY <1>3, <2>2 DEF Elapse
  <1>4. CASE (\E g \in Gnbs : GnbAnswer(g) \/ Move(g)) \/ GnbSend \/ UNCHANGED ranVars
    BY <1>4 DEF GnbAnswer, Move, GnbSend, deviceVars, ranVars
  <1> QED
    BY <1>1, <1>2, <1>3, <1>4, RxStepOnLink, ZenonT(30) DEF RanNext

\* The transport with its threads implements RanLink: the link state and the NAS
\* queue move only as the engine expects them to, but for the one late write of a
\* tick that a stop has overtaken.
THEOREM TransportImplementsLink == RanSpec => RefinesLink
  <1>1. RanInit => Link!LinkInit
    BY DEF RanInit, Link!LinkInit
  <1>2. RanInv /\ [RanNext]_ranVars => [Link!LinkNext]_(Link!linkVars)
    BY StepOnLink, ZenonT(30)
  <1> QED
    BY <1>1, <1>2, RanInvariant, PTL DEF RanSpec, RefinesLink, Link!LinkSpec

-----------------------------------------------------------------------------
(* The data path *)

Packets == [n: Nat, psi: {HostPsi, ImsPsi}, len: Nat]

HostPackets ==
    {p \in Packets : p.psi = HostPsi /\ mbim_ntb16_frame_single(p.len) # 0}

DrainType == [pc: {"idle", "peek", "advance", "route"}, pkt: Packets \cup {NoPacket},
           rest: Seq(Packets), torn: BOOLEAN]

TrafficType == [dl: Nat, ul: Nat, events: Nat, usb: Nat]

\* host_psi names the host's session or none.
UpGood(u) ==
    u \in [state: {"IDLE", "BINDING", "ACTIVE", "SUSPENDED"}, host_psi: {0, HostPsi},
           sessions: [1..MaxPsi -> {"unused", "host", "internal"}]]

\* The types, and what the receive thread has in hand.
DataGood ==
    /\ UpGood(up) /\ traffic \in TrafficType /\ drain \in DrainType
    /\ q \in Seq(Packets)
    /\ fifo \in Seq(HostPackets) /\ host \in Seq(HostPackets)
    /\ dlw \in HostPackets \cup {NoPacket}
    /\ drain.pc \in {"advance", "route"} => drain.pkt \in Packets
    /\ drain.pc = "advance" => drain.rest # <<>> \/ (q # <<>> /\ drain.pkt = Head(q))
    /\ ~drain.torn => drain.rest = <<>>

Within(seq, low, high) ==
    \A i \in 1..Len(seq) : low < seq[i].n /\ seq[i].n <= high

\* The packets on their way lie in the order of the network, stage by stage: four
\* numbers keep the stages apart.
StagesAt(a, b, c, d) ==
    /\ a <= b /\ b <= c /\ c <= d /\ d <= traffic.dl
    /\ Increasing(host) /\ Within(host, 0, a)
    /\ dlw # NoPacket => a < dlw.n /\ dlw.n <= b
    /\ Increasing(fifo) /\ Within(fifo, b, c)
    /\ drain.pc = "route" => c < drain.pkt.n /\ drain.pkt.n <= d
    /\ Increasing(q) /\ Within(q, d, traffic.dl)

InStages == drain.torn \/ \E a, b, c, d \in Nat : StagesAt(a, b, c, d)

DataInv == DataGood /\ InStages

-----------------------------------------------------------------------------
(* Queues *)

\* A later packet is queued behind the others.
LEMMA AppendInOrder ==
  ASSUME NEW S, NEW s \in Seq(S), NEW p \in S, NEW low \in Nat, NEW mid \in Nat,
         NEW high \in Nat, \A x \in S : x.n \in Nat,
         Increasing(s), Within(s, low, mid), low <= mid, mid < p.n, p.n <= high
  PROVE  /\ Append(s, p) \in Seq(S) /\ Increasing(Append(s, p))
         /\ Within(Append(s, p), low, high)
  <1> DEFINE t == Append(s, p)
  <1>1. /\ t \in Seq(S) /\ Len(t) = Len(s) + 1 /\ Len(s) \in Nat
        /\ \A i \in 1..Len(s) : t[i] = s[i]
        /\ t[Len(s) + 1] = p
    OBVIOUS
  <1>2. p.n \in Nat /\ \A i \in 1..Len(s) : s[i].n \in Nat
    BY SMTT(30)
  <1> HIDE DEF t
  <1>3. ASSUME NEW i \in 1..Len(t) PROVE low < t[i].n /\ t[i].n <= high
    <2>1. CASE i \in 1..Len(s)
      BY <1>1, <1>2, <2>1, SMTT(30) DEF Within
    <2>2. CASE i = Len(s) + 1
      BY <1>1, <1>2, <2>2, SMTT(30)
    <2> QED
      BY <1>1, <2>1, <2>2, SMTT(30)
  <1>4. ASSUME NEW i \in 1..Len(t), NEW j \in 1..Len(t), i < j PROVE t[i].n < t[j].n
    <2>1. i \in 1..Len(s)
      BY <1>1, <1>4
    <2>2. CASE j \in 1..Len(s)
      BY <1>1, <1>4, <2>1, <2>2, ZenonT(30) DEF Increasing
    <2>3. CASE j = Len(s) + 1
      BY <1>1, <1>2, <2>1, <2>3, SMTT(30) DEF Within
    <2> QED
      BY <1>1, <2>2, <2>3, SMTT(30)
  <1> QED
    BY <1>1, <1>3, <1>4, ZenonT(30) DEF Increasing, Within, t

\* A queue gives up its head.
LEMMA TailInOrder ==
  ASSUME NEW S, NEW s \in Seq(S), s # <<>>, NEW low \in Nat, NEW high \in Nat,
         \A x \in S : x.n \in Nat, Increasing(s), Within(s, low, high)
  PROVE  /\ Head(s) \in S /\ Tail(s) \in Seq(S) /\ Increasing(Tail(s))
         /\ low < Head(s).n /\ Head(s).n <= high
         /\ Within(Tail(s), Head(s).n, high)
  <1>1. /\ Tail(s) \in Seq(S) /\ Len(Tail(s)) = Len(s) - 1 /\ Len(s) \in Nat \ {0}
        /\ Head(s) = s[1] /\ s[1] \in S
        /\ \A i \in 1..Len(Tail(s)) : Tail(s)[i] = s[i + 1]
    BY SMTT(30)
  <1>2. ASSUME NEW i \in 1..Len(Tail(s))
        PROVE  i + 1 \in 1..Len(s) /\ 1 \in 1..Len(s) /\ 1 < i + 1
    BY <1>1
  <1>3. Within(Tail(s), Head(s).n, high)
    BY <1>1, <1>2, ZenonT(30) DEF Within, Increasing
  <1>4. ASSUME NEW i \in 1..Len(Tail(s)), NEW j \in 1..Len(Tail(s)), i < j
        PROVE  Tail(s)[i].n < Tail(s)[j].n
    <2>1. i + 1 \in 1..Len(s) /\ j + 1 \in 1..Len(s) /\ i + 1 < j + 1
      BY <1>1, <1>4, SMTT(30)
    <2> QED
      BY <1>1, <2>1, ZenonT(30) DEF Increasing
  <1>5. 1 \in 1..Len(s)
    BY <1>1
  <1> QED
    BY <1>1, <1>3, <1>4, <1>5, ZenonT(30) DEF Increasing, Within

\* A wider range.
LEMMA WithinWider ==
  ASSUME NEW S, NEW s \in Seq(S), \A x \in S : x.n \in Nat, NEW low \in Nat, NEW high \in Nat,
         NEW more \in Nat, Within(s, low, high), high <= more
  PROVE  Within(s, low, more)
  <1>1. \A i \in 1..Len(s) : s[i].n \in Nat
    OBVIOUS
  <1> QED
    BY <1>1, SMTT(30) DEF Within

\* Nothing is within an empty queue.
LEMMA EmptyInOrder ==
  ASSUME NEW low, NEW high
  PROVE  Increasing(<<>>) /\ Within(<<>>, low, high)
  <1>1. \A i \in 1..Len(<<>>) : FALSE
    OBVIOUS
  <1> QED
    BY <1>1 DEF Increasing, Within

\* The numbers of packets.
LEMMA Numbers ==
  /\ \A p \in Packets : p.n \in Nat
  /\ \A p \in HostPackets : p.n \in Nat /\ p \in Packets
  /\ NoPacket \notin Packets
  BY DEF Packets, HostPackets, NoPacket, HostPsi, ImsPsi

-----------------------------------------------------------------------------
(* The session table *)

\* Binding, releasing and the tick keep host_psi the host's or none.
LEMMA UpStays ==
  ASSUME NEW u, UpGood(u)
  PROVE  /\ UpGood([u EXCEPT !.sessions[HostPsi] = "internal"])
         /\ \A connected :
               /\ UpGood(UpBind(u, HostPsi, TRUE, connected))
               /\ UpGood(UpBind(u, ImsPsi, FALSE, connected))
               /\ UpGood(UpTick(u, connected))
         /\ UpGood(UpUnbind(u)) /\ UpGood(UpUnbindPsi(u, ImsPsi))
  <1>1. UpGood([u EXCEPT !.sessions[HostPsi] = "internal"])
    BY UpAssumption, ZenonT(30) DEF UpGood, HostPsi
  <1>2. ASSUME NEW connected
        PROVE  /\ UpGood(UpBind(u, HostPsi, TRUE, connected))
               /\ UpGood(UpBind(u, ImsPsi, FALSE, connected))
    BY UpAssumption DEF UpGood, UpBind, HostPsi, ImsPsi
  <1>3. ASSUME NEW connected
        PROVE  UpGood(UpTick(u, connected))
    BY DEF UpGood, UpTick
  <1>4. UpGood(UpUnbindPsi(u, ImsPsi)) /\ UpGood(UpUnbindPsi(u, u.host_psi))
    BY UpAssumption, ZenonT(30) DEF UpGood, UpUnbindPsi, HostPsi, ImsPsi
  <1>5. PICK v : v = UpUnbindPsi(u, u.host_psi)
    OBVIOUS
  <1>6. UpGood(UpUnbind(u))
    <2>1. UpGood(v)
      BY <1>4, <1>5
    <2>2. UpGood([v EXCEPT !.state = "IDLE"])
      BY <2>1 DEF UpGood
    <2> QED
      BY <1>5, <2>2 DEF UpUnbind
  <1> QED
    BY <1>1, <1>2, <1>3, <1>4, <1>6, ZenonT(30)

-----------------------------------------------------------------------------
(* The steps *)

\* At the start nothing is on its way.
LEMMA DataInitial == ASSUME Init PROVE DataInv
  <1>1. UpGood(up)
    BY UpAssumption, ZenonT(30) DEF Init, UpGood, UpInitial
  <1>2. traffic \in TrafficType /\ drain \in DrainType
    <2>1. 0 \in Nat /\ MaxEvents \in Nat /\ MaxUsb \in Nat
      BY DataAssumption
    <2>2. <<>> \in Seq(Packets)
      OBVIOUS
    <2>3. traffic \in TrafficType
      BY <2>1, ZenonT(30) DEF Init, TrafficType
    <2>4. drain \in DrainType
      BY <2>2, ZenonT(30) DEF Init, DrainType
    <2> QED
      BY <2>3, <2>4, ZenonT(30)
  <1>3. DataGood
    BY <1>1, <1>2, SMTT(30) DEF Init, DataGood
  <1>4. StagesAt(0, 0, 0, 0)
    BY EmptyInOrder DEF Init, StagesAt
  <1> QED
    BY <1>3, <1>4, ZenonT(30) DEF DataInv, InStages

\* A step that leaves the path alone, and only moves sessions or the bounds.
LEMMA OffThePath ==
  ASSUME DataInv, UNCHANGED pathVars, UpGood(up'), traffic' \in TrafficType,
         traffic'.dl = traffic.dl
  PROVE  DataInv'
  <1>1. DataGood'
    BY ZenonT(30) DEF DataInv, DataGood, pathVars
  <1>2. ASSUME NEW a \in Nat, NEW b \in Nat, NEW c \in Nat, NEW d \in Nat,
               StagesAt(a, b, c, d)
        PROVE  StagesAt(a, b, c, d)'
    BY <1>2 DEF StagesAt, pathVars
  <1>3. drain.torn => drain'.torn
    BY DEF pathVars
  <1>4. InStages
    BY DEF DataInv
  <1>5. CASE drain.torn
    BY <1>1, <1>3, <1>5, ZenonT(30) DEF DataInv, InStages
  <1>6. CASE ~drain.torn
    <2>1. PICK a \in Nat, b \in Nat, c \in Nat, d \in Nat : StagesAt(a, b, c, d)
      BY <1>4, <1>6, ZenonT(30) DEF InStages
    <2>2. StagesAt(a, b, c, d)'
      BY <1>2, <2>1, ZenonT(30)
    <2>3. InStages'
      BY <2>2, ZenonT(30) DEF InStages
    <2> QED
      BY <1>1, <2>3, ZenonT(30) DEF DataInv
  <1> QED
    BY <1>5, <1>6, ZenonT(30)

\* The budgets.
LEMMA BudgetStays ==
  ASSUME traffic \in TrafficType
  PROVE  /\ traffic.events > 0 =>
               LET e == [traffic EXCEPT !.events = @ - 1]
               IN  e \in TrafficType /\ e.dl = traffic.dl
         /\ traffic.usb > 0 =>
               LET e == [traffic EXCEPT !.usb = @ - 1]
               IN  e \in TrafficType /\ e.dl = traffic.dl
         /\ LET e == [traffic EXCEPT !.ul = @ + 1]
            IN  e \in TrafficType /\ e.dl = traffic.dl
         /\ LET e == [traffic EXCEPT !.dl = @ + 1]
            IN  e \in TrafficType /\ e.dl = traffic.dl + 1
  BY DEF TrafficType

\* A new packet is the last one.
LEMMA ReceiveKeeps == ASSUME DataInv, RxReceive PROVE DataInv'
  <1>1. /\ traffic' \in TrafficType /\ traffic'.dl = traffic.dl + 1 /\ traffic.dl \in Nat
        /\ up' = up /\ drain' = drain /\ fifo' = fifo /\ host' = host /\ dlw' = dlw
        /\ drain.pc = "idle"
    BY BudgetStays, ZenonT(30) DEF DataInv, DataGood, RxReceive, mainVars, TrafficType
  <1>2. PICK p \in Packets : p.n = traffic.dl + 1 /\ q' = Queued(q, DataQueueSize, p)
    <2>1. PICK psi \in {HostPsi, ImsPsi} : \E len \in IF psi = HostPsi THEN PacketLens ELSE {1} :
              q' = Queued(q, DataQueueSize, [n |-> traffic.dl + 1, psi |-> psi, len |-> len])
      BY ZenonT(30) DEF RxReceive
    <2>2. PICK len \in IF psi = HostPsi THEN PacketLens ELSE {1} :
              q' = Queued(q, DataQueueSize, [n |-> traffic.dl + 1, psi |-> psi, len |-> len])
      BY <2>1, ZenonT(30)
    <2>3. len \in Nat /\ traffic.dl + 1 \in Nat
      BY <1>1, <2>2, DataAssumption, SMTT(30)
    <2> QED
      BY <2>2, <2>3 DEF Packets
  <1>3. q \in Seq(Packets) /\ q' \in {q, Append(q, p)}
    BY <1>2 DEF DataInv, DataGood, Queued
  <1>4. q' \in Seq(Packets)
    <2>1. Append(q, p) \in Seq(Packets)
      BY <1>3
    <2> QED
      BY <1>3, <2>1, ZenonT(30)
  <1>5. DataGood'
    BY <1>1, <1>4, ZenonT(30) DEF DataInv, DataGood
  <1>6. ASSUME NEW a \in Nat, NEW b \in Nat, NEW c \in Nat, NEW d \in Nat,
               StagesAt(a, b, c, d)
        PROVE  StagesAt(a, b, c, d)'
    <2>1. /\ d <= traffic.dl /\ d <= traffic'.dl /\ traffic.dl <= traffic'.dl
          /\ traffic'.dl \in Nat /\ traffic.dl < p.n /\ p.n <= traffic'.dl
      <3>1. d <= traffic.dl
        BY <1>6, ZenonT(30) DEF StagesAt
      <3>2. traffic.dl \in Nat /\ traffic'.dl = traffic.dl + 1 /\ p.n = traffic.dl + 1
        BY <1>1, <1>2, ZenonT(30)
      <3> QED
        BY <3>1, <3>2
    <2>2. Increasing(q) /\ Within(q, d, traffic.dl)
      BY <1>6, ZenonT(30) DEF StagesAt
    <2>3. Within(q, d, traffic'.dl)
      BY <1>1, <1>3, <2>1, <2>2, Numbers, WithinWider, ZenonT(30)
    <2>4. Increasing(Append(q, p)) /\ Within(Append(q, p), d, traffic'.dl)
      BY <1>1, <1>2, <1>3, <2>1, <2>2, Numbers, AppendInOrder
    <2>5. Increasing(q') /\ Within(q', d, traffic'.dl)
      BY <1>3, <2>2, <2>3, <2>4, ZenonT(30)
    <2>6. drain'.pc # "route"
      BY <1>1
    <2> QED
      BY <1>1, <1>6, <2>1, <2>5, <2>6, ZenonT(30) DEF StagesAt
  <1> QED
    BY <1>1, <1>5, <1>6 DEF DataInv, InStages

\* The receive thread pops the head of the queue.
LEMMA AdvanceKeeps == ASSUME DataInv, RxAdvance PROVE DataInv'
  <1>1. /\ up' = up /\ traffic' = traffic /\ fifo' = fifo /\ host' = host /\ dlw' = dlw
        /\ drain.pc = "advance" /\ drain' = [drain EXCEPT !.pc = "route", !.rest = <<>>]
    BY DEF RxAdvance, mainVars
  <1>2. drain \in DrainType /\ traffic \in TrafficType /\ <<>> \in Seq(Packets)
    BY DEF DataInv, DataGood
  <1>3. drain' \in DrainType
    BY <1>1, <1>2, ZenonT(30) DEF DrainType
  <1>4. /\ drain'.pc = "route" /\ drain'.rest = <<>> /\ drain'.pkt = drain.pkt /\ drain'.torn = drain.torn
        /\ traffic.dl \in Nat
    BY <1>1, <1>2, ZenonT(30) DEF DrainType, TrafficType
  <1>5. q \in Seq(Packets) /\ drain.rest \in Seq(Packets)
    BY DEF DataInv, DataGood, DrainType
  <1>6. drain.rest = <<>> => q # <<>> /\ drain.pkt = Head(q)
    BY <1>1, <1>3, <1>4 DEF DataInv, DataGood
  <1>7. q' \in Seq(Packets)
    <2>1. q # <<>> => Tail(q) \in Seq(Packets)
      BY <1>5
    <2> QED
      BY <1>5, <1>6, <2>1 DEF RxAdvance
  <1>8. DataGood'
    BY <1>1, <1>3, <1>4, <1>7, ZenonT(30) DEF DataInv, DataGood
  <1>9. ASSUME ~drain.torn, NEW a \in Nat, NEW b \in Nat, NEW c \in Nat, NEW d \in Nat,
               StagesAt(a, b, c, d)
        PROVE  \E e \in Nat : StagesAt(a, b, c, e)'
    <2>1. drain.rest = <<>> /\ q # <<>> /\ drain.pkt = Head(q) /\ q' = Tail(q)
      BY <1>6, <1>9, ZenonT(30) DEF DataInv, DataGood, RxAdvance
    <2>2. Increasing(q) /\ Within(q, d, traffic.dl)
      BY <1>9 DEF StagesAt
    <2>3. PICK p \in Packets : p = drain.pkt
      BY <1>1, <1>3, <1>4 DEF DataInv, DataGood
    <2>4. /\ Increasing(q') /\ d < p.n /\ p.n <= traffic.dl
          /\ Within(q', p.n, traffic.dl)
      BY <1>1, <1>3, <1>4, <1>5, <2>1, <2>2, <2>3, Numbers, TailInOrder, ZenonT(30)
    <2>5. p.n \in Nat
      BY Numbers, ZenonT(30)
    <2>6. c <= p.n /\ c < p.n
      BY <1>9, <2>4, <2>5 DEF StagesAt
    <2>7. StagesAt(a, b, c, p.n)'
      BY <1>1, <1>3, <1>4, <1>9, <2>3, <2>4, <2>5, <2>6, SMTT(30) DEF StagesAt
    <2> QED
      BY <2>5, <2>7
  <1> QED
    BY <1>1, <1>3, <1>4, <1>8, <1>9 DEF DataInv, InStages

\* The popped packet goes to the FIFO, when it is the host's and fits, or nowhere.
LEMMA RouteKeeps == ASSUME DataInv, RxRoute PROVE DataInv'
  <1>1. /\ up' = up /\ traffic' = traffic /\ q' = q /\ host' = host /\ dlw' = dlw
        /\ drain.pc = "route" /\ drain' = [drain EXCEPT !.pc = "peek", !.pkt = NoPacket]
    BY DEF RxRoute, mainVars
  <1>2. drain \in DrainType /\ drain.pkt \in Packets /\ fifo \in Seq(HostPackets)
    BY <1>1 DEF DataInv, DataGood
  <1>3. drain' \in DrainType
    BY <1>1, <1>2, ZenonT(30) DEF DrainType
  <1>4. drain'.pc = "peek" /\ drain'.rest = drain.rest /\ drain'.torn = drain.torn
    BY <1>1, <1>2 DEF DrainType
  <1>5. PICK p \in Packets : p = drain.pkt
    BY <1>2
  <1>6. fifo' = fifo \/ (p \in HostPackets /\ fifo' = Append(fifo, p))
    <2>1. p.psi = up.host_psi => p.psi = HostPsi
      BY DEF DataInv, DataGood, UpGood, Packets, HostPsi, ImsPsi
    <2> QED
      BY <1>5, <2>1, ZenonT(30) DEF RxRoute, DlCallback, Queued, HostPackets
  <1>7. fifo' \in Seq(HostPackets)
    BY <1>2, <1>6
  <1>8. DataGood'
    BY <1>1, <1>3, <1>4, <1>7 DEF DataInv, DataGood
  <1>9. ASSUME NEW a \in Nat, NEW b \in Nat, NEW c \in Nat, NEW d \in Nat,
               StagesAt(a, b, c, d)
        PROVE  StagesAt(a, b, d, d)'
    <2>1. /\ b <= c /\ c <= d /\ b <= d /\ c < p.n /\ p.n <= d
          /\ Increasing(fifo) /\ Within(fifo, b, c)
      BY <1>1, <1>5, <1>9 DEF StagesAt
    <2>2. \A x \in HostPackets : x.n \in Nat
      BY Numbers, ZenonT(30)
    <2>3. Within(fifo, b, d)
      BY <1>2, <2>1, <2>2, WithinWider, ZenonT(30)
    <2>4. p \in HostPackets => Increasing(Append(fifo, p)) /\ Within(Append(fifo, p), b, d)
      BY <1>2, <2>1, <2>2, AppendInOrder
    <2>5. Increasing(fifo') /\ Within(fifo', b, d)
      BY <1>6, <2>1, <2>3, <2>4, ZenonT(30)
    <2> QED
      BY <1>1, <1>4, <1>9, <2>1, <2>5, SMTT(30) DEF StagesAt
  <1> QED
    BY <1>4, <1>8, <1>9 DEF DataInv, InStages

\* The downlink worker takes the head of the FIFO.
LEMMA PopKeeps == ASSUME DataInv, DlPop PROVE DataInv'
  <1>1. /\ up' = up /\ traffic' = traffic /\ q' = q /\ host' = host /\ drain' = drain
        /\ fifo # <<>> /\ dlw' = Head(fifo) /\ fifo' = Tail(fifo)
    BY ZenonT(30) DEF DlPop, mainVars
  <1>2. fifo \in Seq(HostPackets) /\ \A x \in HostPackets : x.n \in Nat
    BY Numbers DEF DataInv, DataGood
  <1>3. dlw' \in HostPackets /\ fifo' \in Seq(HostPackets)
    BY <1>1, <1>2, SMTT(30)
  <1>4. DataGood'
    BY <1>1, <1>3, ZenonT(30) DEF DataInv, DataGood
  <1>5. ASSUME NEW a \in Nat, NEW b \in Nat, NEW c \in Nat, NEW d \in Nat,
               StagesAt(a, b, c, d)
        PROVE  \E e \in Nat : StagesAt(a, e, c, d)'
    <2>1. PICK p \in HostPackets : p = Head(fifo)
      BY <1>1, <1>3, ZenonT(30)
    <2>2. Increasing(fifo) /\ Within(fifo, b, c) /\ a <= b
      BY <1>5, ZenonT(30) DEF StagesAt
    <2>3. /\ Increasing(fifo') /\ b < p.n /\ p.n <= c
          /\ Within(fifo', p.n, c) /\ p.n \in Nat
      BY <1>1, <1>2, <2>1, <2>2, TailInOrder, ZenonT(30)
    <2>4. a <= p.n /\ a < p.n /\ p.n <= p.n
      BY <2>2, <2>3
    <2>5. StagesAt(a, p.n, c, d)'
      BY <1>1, <1>5, <2>1, <2>3, <2>4, ZenonT(30) DEF StagesAt
    <2> QED
      BY <2>3, <2>5
  <1> QED
    BY <1>1, <1>4, <1>5, SMTT(30) DEF DataInv, InStages

\* The downlink worker writes its packet, or loses it.
LEMMA WriteKeeps == ASSUME DataInv, DlWrite PROVE DataInv'
  <1>1. /\ up' = up /\ q' = q /\ drain' = drain /\ fifo' = fifo
        /\ dlw # NoPacket /\ dlw' = NoPacket
        /\ host' \in {host, Append(host, dlw)}
    BY DEF DlWrite, Written, Failed, mainVars
  <1>2. traffic' \in TrafficType /\ traffic'.dl = traffic.dl
    BY BudgetStays, ZenonT(30) DEF DataInv, DataGood, DlWrite, Written, Failed
  <1>3. /\ host \in Seq(HostPackets) /\ dlw \in HostPackets
        /\ \A x \in HostPackets : x.n \in Nat
    BY <1>1, Numbers, ZenonT(30) DEF DataInv, DataGood
  <1>4. host' \in Seq(HostPackets)
    BY <1>1, <1>3
  <1>5. DataGood'
    BY <1>1, <1>2, <1>4, ZenonT(30) DEF DataInv, DataGood
  <1>6. ASSUME NEW a \in Nat, NEW b \in Nat, NEW c \in Nat, NEW d \in Nat,
               StagesAt(a, b, c, d)
        PROVE  StagesAt(b, b, c, d)'
    <2>1. /\ a <= b /\ a < dlw.n /\ dlw.n <= b
          /\ Increasing(host) /\ Within(host, 0, a)
      BY <1>1, <1>6, ZenonT(30) DEF StagesAt
    <2>2. 0 \in Nat /\ 0 <= a /\ b <= b
      OBVIOUS
    <2>3. Within(host, 0, b)
      BY <1>3, <2>1, <2>2, WithinWider, ZenonT(30)
    <2>4. Increasing(Append(host, dlw)) /\ Within(Append(host, dlw), 0, b)
      BY <1>3, <2>1, <2>2, AppendInOrder
    <2>5. Increasing(host') /\ Within(host', 0, b)
      BY <1>1, <2>1, <2>3, <2>4, ZenonT(30)
    <2> QED
      BY <1>1, <1>2, <1>6, <2>2, <2>5, ZenonT(30) DEF StagesAt
  <1> QED
    BY <1>1, <1>5, <1>6 DEF DataInv, InStages

\* The receive thread begins to drain, looks at the head, or ends.
LEMMA PeekKeeps == ASSUME DataInv, RxDrain \/ RxPeek PROVE DataInv'
  <1>1. /\ up' = up /\ traffic' = traffic /\ q' = q /\ host' = host /\ dlw' = dlw
        /\ fifo' = fifo
        /\ drain' \in {[drain EXCEPT !.pc = "peek"], [drain EXCEPT !.pc = "idle"]}
              \/ (q # <<>> /\ drain' = [drain EXCEPT !.pc = "advance", !.pkt = Head(q)])
    BY ZenonT(30) DEF RxDrain, RxPeek, mainVars
  <1>2. drain \in DrainType /\ q \in Seq(Packets)
    BY DEF DataInv, DataGood
  <1>3. q # <<>> => Head(q) \in Packets
    BY <1>2
  <1>4. drain' \in DrainType
    BY <1>1, <1>2, <1>3, ZenonT(30) DEF DrainType
  <1>5. /\ drain'.pc # "route" /\ drain'.rest = drain.rest /\ drain'.torn = drain.torn
        /\ drain'.pc = "advance" => q # <<>> /\ drain'.pkt = Head(q)
    BY <1>1, <1>2, ZenonT(30) DEF DrainType
  <1>6. DataGood'
    BY <1>1, <1>3, <1>4, <1>5 DEF DataInv, DataGood
  <1>7. ASSUME NEW a \in Nat, NEW b \in Nat, NEW c \in Nat, NEW d \in Nat,
               StagesAt(a, b, c, d)
        PROVE  StagesAt(a, b, c, d)'
    BY <1>1, <1>5, <1>7 DEF StagesAt
  <1> QED
    BY <1>5, <1>6, <1>7 DEF DataInv, InStages

\* A radio off empties the queue, or tears it.
LEMMA RadioOffKeeps == ASSUME DataInv, RadioOffEvent PROVE DataInv'
  <1>1. /\ up' = UpUnbindPsi(up, ImsPsi) /\ traffic.events > 0
        /\ traffic' = [traffic EXCEPT !.events = @ - 1]
        /\ q' = <<>> /\ host' = host /\ dlw' = dlw /\ fifo' = fifo
        /\ drain.pc = "advance" => drain' = [drain EXCEPT !.torn = TRUE, !.rest = q \o <<drain.pkt>>]
        /\ drain.pc # "advance" => drain' = drain
    BY DEF RadioOffEvent, Event
  <1>2. UpGood(up') /\ traffic' \in TrafficType /\ traffic'.dl = traffic.dl
    BY <1>1, UpStays, BudgetStays, ZenonT(30) DEF DataInv, DataGood
  <1>3. drain \in DrainType /\ q \in Seq(Packets) /\ q' \in Seq(Packets)
    BY <1>1 DEF DataInv, DataGood
  <1>4. CASE drain.pc = "advance"
    <2>1. drain.pkt \in Packets
      BY <1>4 DEF DataInv, DataGood
    <2>2. q \o <<drain.pkt>> \in Seq(Packets) /\ q \o <<drain.pkt>> # <<>>
      BY <1>3, <2>1
    <2>3. PICK rest \in Seq(Packets) : rest = q \o <<drain.pkt>> /\ rest # <<>>
      BY <2>2, ZenonT(30)
    <2>4. drain' = [drain EXCEPT !.torn = TRUE, !.rest = rest]
      BY <1>1, <1>4, <2>3
    <2>5. drain' \in DrainType
      BY <1>3, <2>4, ZenonT(30) DEF DrainType
    <2>6. drain'.rest = rest /\ drain'.torn = TRUE /\ drain'.pkt = drain.pkt
      BY <1>3, <2>4 DEF DrainType
    <2> QED
      BY <1>1, <1>2, <1>3, <2>1, <2>3, <2>5, <2>6, ZenonT(30) DEF DataInv, DataGood, InStages
  <1>5. CASE drain.pc # "advance"
    <2>1. DataGood'
      BY <1>1, <1>2, <1>3, <1>5 DEF DataInv, DataGood
    <2>2. ASSUME NEW a \in Nat, NEW b \in Nat, NEW c \in Nat, NEW d \in Nat,
                 StagesAt(a, b, c, d)
          PROVE  StagesAt(a, b, c, d)'
      BY <1>1, <1>2, <1>5, <2>2, EmptyInOrder, ZenonT(30) DEF StagesAt
    <2> QED
      BY <1>1, <1>5, <2>1, <2>2 DEF DataInv, InStages
  <1> QED
    BY <1>4, <1>5

\* Sessions, the uplink, the radio and the bus do not touch the downlink path.
LEMMA OthersKeep ==
  ASSUME DataInv,
         \/ HostBindBegin \/ HostBindEnd \/ SessionEvent \/ NoticeLoss \/ Quiet \/ TickEnd
         \/ Ul \/ LinkChange \/ UsbChange \/ UNCHANGED dataVars
  PROVE  DataInv'
  <1>1. UpGood(up) /\ traffic \in TrafficType
    BY DEF DataInv, DataGood
  <1>2. UNCHANGED pathVars
    BY ZenonT(30) DEF HostBindBegin, HostBindEnd, SessionEvent, NoticeLoss, Quiet, TickEnd, Ul,
           UlRead, UlEntry, UlCheck, UlSend, LinkChange, UsbChange, dataVars
  <1>3. UpGood(up')
    <2>1. CASE HostBindBegin \/ HostBindEnd
      BY <1>1, <2>1, UpStays, ZenonT(30) DEF HostBindBegin, HostBindEnd
    <2>2. CASE SessionEvent
      <3>1. \/ up' = UpBind(up, ImsPsi, FALSE, link)
            \/ up' = UpUnbind(up)
            \/ up' = UpUnbindPsi(up, ImsPsi)
        BY <2>2, Zenon DEF SessionEvent, Event
      <3>2. /\ UpGood(UpBind(up, ImsPsi, FALSE, link)) /\ UpGood(UpUnbind(up))
            /\ UpGood(UpUnbindPsi(up, ImsPsi))
        BY <1>1, UpStays, Zenon
      <3> QED
        BY <3>1, <3>2, ZenonT(30)
    <2>3. CASE NoticeLoss
      BY <1>1, <2>3, UpStays, ZenonT(30) DEF NoticeLoss
    <2>4. CASE TickEnd
      BY <1>1, <2>4, UpStays, ZenonT(30) DEF TickEnd
    <2>5. CASE Quiet \/ Ul \/ LinkChange \/ UsbChange \/ UNCHANGED dataVars
      <3>1. up' = up
        BY <2>5, ZenonT(30) DEF Quiet, Ul, UlRead, UlEntry, UlCheck, UlSend, LinkChange, UsbChange,
                    dataVars, mainVars
      <3> QED
        BY <1>1, <3>1
    <2> QED
      BY <2>1, <2>2, <2>3, <2>4, <2>5
  <1>4. \/ traffic' = traffic
        \/ traffic.events > 0 /\ traffic' = [traffic EXCEPT !.events = @ - 1]
        \/ traffic.usb > 0 /\ traffic' = [traffic EXCEPT !.usb = @ - 1]
        \/ traffic' = [traffic EXCEPT !.ul = @ + 1]
    BY ZenonT(30) DEF HostBindBegin, HostBindEnd, SessionEvent, Event, NoticeLoss, Quiet, TickEnd,
           Ul, UlRead, UlEntry, UlCheck, UlSend, LinkChange, UsbChange, Failed, dataVars
  <1>5. traffic' \in TrafficType /\ traffic'.dl = traffic.dl
    BY <1>1, <1>4, BudgetStays, ZenonT(30)
  <1> QED
    BY <1>2, <1>3, <1>5, OffThePath, ZenonT(30)

-----------------------------------------------------------------------------
(* The theorems *)

\* The stages of the downlink path hold in every state, for queues of any size.
THEOREM DataInvariant == Spec => []DataInv
  <1>1. Init => DataInv
    BY DataInitial
  <1>2. DataInv /\ [Next]_dataVars => DataInv'
    BY ReceiveKeeps, AdvanceKeeps, RouteKeeps, PopKeeps, WriteKeeps, PeekKeeps,
       RadioOffKeeps, OthersKeep, ZenonT(30) DEF Next, Main, Rx
  <1> QED
    BY <1>1, <1>2, PTL DEF Spec

\* Whatever the sizes of the data queue and the downlink FIFO, the host reads the
\* packets of its own session only, in order and at most once, unless a radio off
\* tore the queue (ue_up_process_downlink, core_mbim_dl_callback, mbim_dl_worker).
THEOREM HostReadsInOrder == Spec => []HostInOrder
  <1>1. DataInv => HostInOrder
    <2> SUFFICES ASSUME DataInv PROVE HostInOrder
      OBVIOUS
    <2>1. \A i \in 1..Len(host) : host[i] \in HostPackets
      BY SMTT(30) DEF DataInv, DataGood
    <2>2. drain.torn \/ Increasing(host)
      BY DEF DataInv, InStages, StagesAt
    <2> QED
      BY <2>1, <2>2 DEF HostInOrder, HostPackets
  <1> QED
    BY <1>1, DataInvariant, PTL

-----------------------------------------------------------------------------
(* The uplink *)

Places == [ntb: Nat, ndp: Nat, entry: Nat]

Ndps == [entries: Seq(BOOLEAN), next: Nat]

UlType ==
    [pc: {"read", "entry", "check", "send"}, ntb: Seq(Ndps), ndp: Nat, entry: Nat,
     at: Places]

\* Where the data worker is in the NTBs.
Here == Place(traffic.ul, ulw.ndp, ulw.entry)

\* What the gNB has lies behind the datagram in hand, and that behind the place the
\* worker has come to.
UlInv ==
    /\ ulw \in UlType
    /\ gnb \in Seq([at: Places, psi: {HostPsi}])
    /\ ulw.pc # "read" => ulw.ntb \in Ntbs /\ ulw.ndp \in 1..Len(ulw.ntb)
    /\ \A i \in 1..Len(gnb) : gnb[i].at.ntb <= traffic.ul
    /\ ulw.pc = "entry" => \A i \in 1..Len(gnb) : Before(gnb[i].at, Here)
    /\ ulw.pc \in {"check", "send"} =>
          /\ Before(ulw.at, Here) /\ ulw.at.ntb <= traffic.ul
          /\ \A i \in 1..Len(gnb) : Before(gnb[i].at, ulw.at)
    /\ UplinkOnce

\* The order of the places is transitive.
LEMMA BeforeTrans ==
  ASSUME NEW a \in Places, NEW b \in Places, NEW c \in Places, Before(a, b), Before(b, c)
  PROVE  Before(a, c)
  <1>1. /\ a.ntb \in Nat /\ b.ntb \in Nat /\ c.ntb \in Nat
        /\ a.ndp \in Nat /\ b.ndp \in Nat /\ c.ndp \in Nat
        /\ a.entry \in Nat /\ b.entry \in Nat /\ c.entry \in Nat
    BY ZenonT(30) DEF Places
  <1> QED
    BY <1>1 DEF Before

\* The indices of a sequence that has grown by one.
LEMMA GrownByOne ==
  ASSUME NEW n \in Nat
  PROVE  /\ \A i \in 1..(n + 1) : i \in 1..n \/ i = n + 1
         /\ \A i, j \in 1..(n + 1) : i < j => i \in 1..n
  OBVIOUS

\* A place behind another: in a later NTB, in a later NDP or at a later entry.
LEMMA PlaceBefore ==
  ASSUME NEW u \in Nat, NEW k \in Nat, NEW e \in Nat
  PROVE  /\ Place(u, k, e) \in Places /\ Place(u, k, e).ntb = u
         /\ \A l \in Nat : k < l => Before(Place(u, k, e), Place(u, l, 1))
         /\ Before(Place(u, k, e), Place(u, k, e + 1))
         /\ \A a \in Places : a.ntb < u => Before(a, Place(u, k, e))
  <1>1. \A i, j, l : /\ Place(i, j, l).ntb = i /\ Place(i, j, l).ndp = j
                    /\ Place(i, j, l).entry = l
    BY ZenonT(30) DEF Place
  <1>2. Place(u, k, e) \in Places
    BY ZenonT(30) DEF Place, Places
  <1>3. \A l \in Nat : k < l => Before(Place(u, k, e), Place(u, l, 1))
    BY <1>1, SMTT(30) DEF Before
  <1>4. Before(Place(u, k, e), Place(u, k, e + 1))
    <2>1. e < e + 1
      OBVIOUS
    <2> QED
      BY <1>1, <2>1, SMTT(30) DEF Before
  <1>5. \A a \in Places : a.ntb < u => Before(a, Place(u, k, e))
    BY <1>1, ZenonT(30) DEF Before
  <1> QED
    BY <1>1, <1>2, <1>3, <1>4, <1>5, ZenonT(30)

\* The data worker between two NTBs.
LEMMA ReadingType == Reading \in UlType /\ Reading.pc = "read"
  <1>1. 0 \in Nat /\ <<>> \in Seq(Ndps)
    OBVIOUS
  <1>2. Place(0, 0, 0) \in Places
    BY <1>1, PlaceBefore, ZenonT(30)
  <1> QED
    BY <1>1, <1>2, ZenonT(30) DEF Reading, UlType

\* What the gNB has got are datagrams with a place.
LEMMA GnbPlaces ==
  ASSUME UlInv
  PROVE  \A i \in 1..Len(gnb) : gnb[i].at \in Places
  <1>1. PICK D : D = [at: Places, psi: {HostPsi}]
    BY ZenonT(30)
  <1>2. gnb \in Seq(D)
    BY <1>1 DEF UlInv
  <1>3. \A i \in 1..Len(gnb) : gnb[i] \in D
    BY <1>2, SMTT(30)
  <1> QED
    BY <1>1, <1>3

\* A chain of NDPs goes forward.
LEMMA ChainForward ==
  ASSUME NEW w \in UlType, w.ntb \in Ntbs, w.ndp \in 1..Len(w.ntb), ~ChainEnds(w)
  PROVE  LET next == w.ntb[w.ndp].next
         IN  next \in 1..Len(w.ntb) /\ next \in Nat /\ w.ndp < next
  <1>1. PICK next : next = w.ntb[w.ndp].next
    OBVIOUS
  <1>2. w.ntb \in Seq(Ndps) /\ Len(w.ntb) \in Nat /\ w.ndp \in Nat
    BY SMTT(30) DEF UlType
  <1>3. w.ntb[w.ndp] \in Ndps /\ w.ndp \in DOMAIN w.ntb
    BY <1>2
  <1>4. next \in Nat /\ next <= Len(w.ntb)
    BY <1>1, <1>3, DataAssumption, ZenonT(30) DEF Ndps
  <1>5. next # 0 /\ ~(next <= w.ndp)
    BY <1>1 DEF ChainEnds
  <1>6. w.ndp < next /\ next \in 1..Len(w.ntb)
    BY <1>2, <1>4, <1>5
  <1> QED
    BY <1>1, <1>4, <1>6, ZenonT(30)

\* A step of the others.
LEMMA UlFrame ==
  ASSUME UlInv, UNCHANGED <<ulw, gnb>>, traffic'.ul = traffic.ul
  PROVE  UlInv'
  BY ZenonT(30) DEF UlInv, Here, UplinkOnce

\* The next NTB lies behind all that went before.
LEMMA UlReadKeeps == ASSUME DataInv, UlInv, UlRead PROVE UlInv'
  <1>1. PICK ntb \in Ntbs :
           ulw' = [Reading EXCEPT !.pc = "entry", !.ntb = ntb, !.ndp = 1, !.entry = 1]
    BY ZenonT(30) DEF UlRead
  <1>2. gnb' = gnb /\ traffic.ul \in Nat /\ traffic'.ul = traffic.ul + 1
    BY ZenonT(30) DEF UlRead, DataInv, DataGood, TrafficType
  <1>3. ntb \in Seq(Ndps) /\ 1 \in 1..Len(ntb)
    BY DataAssumption, SMTT(30) DEF Ndps
  <1>4. Place(0, 0, 0) \in Places
    BY PlaceBefore
  <1>5. ulw' = [pc |-> "entry", ntb |-> ntb, ndp |-> 1, entry |-> 1, at |-> Place(0, 0, 0)]
    BY <1>1, ZenonT(30) DEF Reading
  <1>6. /\ ulw' \in UlType /\ ulw'.pc = "entry" /\ ulw'.ntb = ntb /\ ulw'.ndp = 1
        /\ ulw'.entry = 1
    BY <1>3, <1>4, <1>5, ZenonT(30) DEF UlType
  <1>7. ASSUME NEW i \in 1..Len(gnb)
        PROVE  Before(gnb[i].at, Here') /\ gnb[i].at.ntb <= traffic'.ul
    <2>1. gnb[i].at \in Places /\ gnb[i].at.ntb <= traffic.ul
      BY GnbPlaces, ZenonT(30) DEF UlInv
    <2>2. gnb[i].at.ntb \in Nat
      BY <2>1, ZenonT(30) DEF Places
    <2>3. gnb[i].at.ntb < traffic.ul + 1
      BY <2>1, <2>2, <1>2, SMTT(30)
    <2>4. Here' = Place(traffic.ul + 1, 1, 1)
      BY <1>2, <1>6, ZenonT(30) DEF Here
    <2>5. Before(gnb[i].at, Here')
      <3>1. traffic.ul + 1 \in Nat
        BY <1>2
      <3>2. \A a \in Places : a.ntb < traffic.ul + 1 => Before(a, Place(traffic.ul + 1, 1, 1))
        BY <3>1, PlaceBefore, ZenonT(30)
      <3> QED
        BY <3>2, <2>1, <2>3, <2>4, ZenonT(30)
    <2>6. gnb[i].at.ntb <= traffic.ul + 1
      BY <2>2, <2>3, <1>2, SMTT(30)
    <2> QED
      BY <2>5, <2>6, <1>2, ZenonT(30)
  <1> QED
    BY <1>2, <1>3, <1>6, <1>7, ZenonT(30) DEF UlInv, UplinkOnce

\* The worker goes on to the next entry or NDP, both behind this one.
LEMMA UlEntryKeeps == ASSUME DataInv, UlInv, UlEntry PROVE UlInv'
  <1>0. /\ ulw \in UlType /\ ulw.ntb \in Ntbs /\ ulw.ndp \in 1..Len(ulw.ntb)
        /\ ulw.ndp \in Nat /\ ulw.entry \in Nat /\ traffic.ul \in Nat /\ ulw.pc = "entry"
        /\ gnb' = gnb /\ traffic' = traffic /\ Here \in Places
        /\ \A i \in 1..Len(gnb) : gnb[i].at \in Places /\ Before(gnb[i].at, Here)
    <2>1. /\ ulw \in UlType /\ ulw.ntb \in Ntbs /\ ulw.ndp \in 1..Len(ulw.ntb)
          /\ traffic \in TrafficType
      BY DEF UlEntry, UlInv, DataInv, DataGood
    <2>2. /\ ulw.ndp \in Nat /\ ulw.entry \in Nat /\ traffic.ul \in Nat
          /\ ulw.at \in Places
      BY <2>1 DEF UlType, TrafficType
    <2>3. Here \in Places
      BY <2>2, PlaceBefore, ZenonT(30) DEF Here
    <2> QED
      BY <2>1, <2>2, <2>3, GnbPlaces, ZenonT(30) DEF UlEntry, UlInv
  <1>1. CASE ulw' = Reading
    <2>1. ulw' \in UlType /\ ulw'.pc = "read"
      BY <1>1, ReadingType, ZenonT(30)
    <2> QED
      BY <2>1, <1>0, ZenonT(30) DEF UlInv, UplinkOnce
  <1>2. CASE ~ChainEnds(ulw) /\ ulw' = [ulw EXCEPT !.ndp = ulw.ntb[ulw.ndp].next, !.entry = 1]
    <2>1. PICK next : next = ulw.ntb[ulw.ndp].next
      OBVIOUS
    <2>2. next \in 1..Len(ulw.ntb) /\ next \in Nat /\ ulw.ndp < next
      BY <2>1, <1>0, <1>2, ChainForward, ZenonT(30)
    <2>3. ulw' = [ulw EXCEPT !.ndp = next, !.entry = 1]
      BY <2>1, <1>2
    <2>4. /\ ulw' \in UlType /\ ulw'.pc = "entry" /\ ulw'.ntb = ulw.ntb
          /\ ulw'.ndp = next /\ ulw'.entry = 1
      BY <2>2, <2>3, <1>0, ZenonT(30) DEF UlType
    <2>5. Here' = Place(traffic.ul, next, 1) /\ Here' \in Places /\ Before(Here, Here')
      <3>1. Here' = Place(traffic.ul, next, 1) /\ Here = Place(traffic.ul, ulw.ndp, ulw.entry)
        BY <2>4, <1>0 DEF Here
      <3>2. Place(traffic.ul, next, 1) \in Places
        BY <2>2, <1>0, PlaceBefore, ZenonT(30)
      <3>3. Before(Place(traffic.ul, ulw.ndp, ulw.entry), Place(traffic.ul, next, 1))
        BY <2>2, <1>0, PlaceBefore, ZenonT(30)
      <3> QED
        BY <3>1, <3>2, <3>3, ZenonT(30)
    <2>6. \A i \in 1..Len(gnb) : Before(gnb[i].at, Here')
      BY <2>5, <1>0, BeforeTrans, ZenonT(120)
    <2> QED
      BY <2>2, <2>4, <2>6, <1>0, ZenonT(30) DEF UlInv, UplinkOnce
  <1>3. CASE ulw' = [ulw EXCEPT !.entry = ulw.entry + 1]
    <2>1. /\ ulw' \in UlType /\ ulw'.pc = "entry" /\ ulw'.ntb = ulw.ntb
          /\ ulw'.ndp = ulw.ndp /\ ulw'.entry = ulw.entry + 1
      BY <1>0, <1>3, SMTT(30) DEF UlType
    <2>2. /\ Here' = Place(traffic.ul, ulw.ndp, ulw.entry + 1) /\ Here' \in Places
          /\ Before(Here, Here')
      <3>1. /\ Here' = Place(traffic.ul, ulw.ndp, ulw.entry + 1)
            /\ Here = Place(traffic.ul, ulw.ndp, ulw.entry) /\ ulw.entry + 1 \in Nat
        <4>1. ulw.entry \in Nat
          BY <1>0, ZenonT(30)
        <4>2. ulw.entry + 1 \in Nat
          BY <4>1
        <4> QED
          BY <2>1, <1>0, <4>2, ZenonT(30) DEF Here
      <3>2. /\ Place(traffic.ul, ulw.ndp, ulw.entry + 1) \in Places
            /\ Before(Place(traffic.ul, ulw.ndp, ulw.entry),
                      Place(traffic.ul, ulw.ndp, ulw.entry + 1))
        BY <3>1, <1>0, PlaceBefore, ZenonT(30)
      <3> QED
        BY <3>1, <3>2, ZenonT(30)
    <2>3. \A i \in 1..Len(gnb) : Before(gnb[i].at, Here')
      <3>1. Here \in Places /\ Here' \in Places /\ Before(Here, Here')
        BY <2>2, <1>0, ZenonT(30)
      <3> QED
        BY <3>1, <1>0, BeforeTrans, ZenonT(30)
    <2> QED
      BY <2>1, <2>3, <1>0, ZenonT(30) DEF UlInv, UplinkOnce
  <1>4. CASE ulw' = [ulw EXCEPT !.entry = ulw.entry + 1, !.pc = "check", !.at = Here]
    <2>1. /\ ulw' \in UlType /\ ulw'.pc = "check" /\ ulw'.ntb = ulw.ntb
          /\ ulw'.ndp = ulw.ndp /\ ulw'.entry = ulw.entry + 1 /\ ulw'.at = Here
      <3>1. PICK h \in Places : h = Here
        BY <1>0, ZenonT(30)
      <3>2. PICK e \in Nat : e = ulw.entry + 1
        BY <1>0
      <3>3. ulw' = [ulw EXCEPT !.entry = e, !.pc = "check", !.at = h]
        BY <3>1, <3>2, <1>4, ZenonT(30)
      <3>4. /\ ulw' \in UlType /\ ulw'.pc = "check" /\ ulw'.ntb = ulw.ntb
            /\ ulw'.ndp = ulw.ndp /\ ulw'.entry = e /\ ulw'.at = h
        BY <3>3, <1>0, ZenonT(30) DEF UlType
      <3> QED
        BY <3>1, <3>2, <3>4, ZenonT(30)
    <2>2. Here' = Place(traffic.ul, ulw.ndp, ulw.entry + 1) /\ Before(Here, Here')
      <3>1. /\ Here' = Place(traffic.ul, ulw.ndp, ulw.entry + 1)
            /\ Here = Place(traffic.ul, ulw.ndp, ulw.entry) /\ ulw.entry + 1 \in Nat
        <4>1. ulw.entry \in Nat
          BY <1>0, ZenonT(30)
        <4>2. ulw.entry + 1 \in Nat
          BY <4>1
        <4> QED
          BY <2>1, <1>0, <4>2, ZenonT(30) DEF Here
      <3>2. /\ Place(traffic.ul, ulw.ndp, ulw.entry + 1) \in Places
            /\ Before(Place(traffic.ul, ulw.ndp, ulw.entry),
                      Place(traffic.ul, ulw.ndp, ulw.entry + 1))
        BY <3>1, <1>0, PlaceBefore, ZenonT(30)
      <3> QED
        BY <3>1, <3>2, ZenonT(30)
    <2>3. Here.ntb <= traffic.ul
      <3>1. Here.ntb = traffic.ul
        BY <1>0, PlaceBefore, ZenonT(120) DEF Here
      <3>2. traffic.ul \in Nat
        BY <1>0, ZenonT(30)
      <3>3. traffic.ul <= traffic.ul
        BY <3>2
      <3> QED
        BY <3>1, <3>3, ZenonT(30)
    <2> QED
      BY <2>1, <2>2, <2>3, <1>0, ZenonT(30) DEF UlInv, UplinkOnce
  <1>5. \/ ulw' = Reading
        \/ ~ChainEnds(ulw) /\ ulw' = [ulw EXCEPT !.ndp = ulw.ntb[ulw.ndp].next, !.entry = 1]
        \/ ulw' = [ulw EXCEPT !.entry = ulw.entry + 1]
        \/ ulw' = [ulw EXCEPT !.entry = ulw.entry + 1, !.pc = "check", !.at = Here]
    BY DEF UlEntry, Here
  <1> QED
    BY <1>1, <1>2, <1>3, <1>4, <1>5, ZenonT(30)

\* ue_up_send_uplink gives the datagram up, or goes on with it.
LEMMA UlCheckKeeps == ASSUME DataInv, UlInv, UlCheck PROVE UlInv'
  <1>0. /\ ulw \in UlType /\ ulw.ntb \in Ntbs /\ ulw.ndp \in 1..Len(ulw.ntb)
        /\ ulw.at \in Places /\ ulw.pc = "check" /\ gnb' = gnb /\ traffic' = traffic
        /\ Here \in Places /\ Before(ulw.at, Here)
        /\ \A i \in 1..Len(gnb) : gnb[i].at \in Places /\ Before(gnb[i].at, ulw.at)
    <2>1. /\ ulw \in UlType /\ ulw.ntb \in Ntbs /\ ulw.ndp \in 1..Len(ulw.ntb)
          /\ traffic \in TrafficType
      BY DEF UlCheck, UlInv, DataInv, DataGood
    <2>2. /\ ulw.ndp \in Nat /\ ulw.entry \in Nat /\ traffic.ul \in Nat
          /\ ulw.at \in Places
      BY <2>1 DEF UlType, TrafficType
    <2>3. Here \in Places
      BY <2>2, PlaceBefore, ZenonT(30) DEF Here
    <2> QED
      BY <2>1, <2>2, <2>3, GnbPlaces, ZenonT(30) DEF UlCheck, UlInv
  <1>1. PICK pc \in {"send", "entry"} : ulw' = [ulw EXCEPT !.pc = pc]
    BY DEF UlCheck
  <1>2. /\ ulw' \in UlType /\ ulw'.pc = pc /\ ulw'.ntb = ulw.ntb
        /\ ulw'.ndp = ulw.ndp /\ ulw'.entry = ulw.entry /\ ulw'.at = ulw.at
    BY <1>0, <1>1, ZenonT(30) DEF UlType
  <1>3. Here' = Here
    BY <1>0, <1>2, ZenonT(30) DEF Here
  <1>4. \A i \in 1..Len(gnb) : Before(gnb[i].at, Here)
    BY <1>0, BeforeTrans, ZenonT(30)
  <1> QED
    BY <1>0, <1>2, <1>3, <1>4, ZenonT(30) DEF UlInv, UplinkOnce

\* A datagram reaches the gNB behind all the others and under the host's session.
LEMMA UlSendKeeps == ASSUME DataInv, UlInv, UlSend PROVE UlInv'
  <1>0. /\ ulw \in UlType /\ ulw.ntb \in Ntbs /\ ulw.ndp \in 1..Len(ulw.ntb)
        /\ ulw.at \in Places /\ ulw.pc = "send" /\ traffic' = traffic
        /\ ulw.at.ntb <= traffic.ul
        /\ Here \in Places /\ Before(ulw.at, Here)
        /\ \A i \in 1..Len(gnb) : gnb[i].at \in Places /\ Before(gnb[i].at, ulw.at)
    <2>1. /\ ulw \in UlType /\ ulw.ntb \in Ntbs /\ ulw.ndp \in 1..Len(ulw.ntb)
          /\ traffic \in TrafficType
      BY ZenonT(30) DEF UlSend, UlInv, DataInv, DataGood
    <2>2. /\ ulw.ndp \in Nat /\ ulw.entry \in Nat /\ traffic.ul \in Nat
          /\ ulw.at \in Places
      BY <2>1 DEF UlType, TrafficType
    <2>3. Here \in Places
      BY <2>2, PlaceBefore, ZenonT(30) DEF Here
    <2> QED
      BY <2>1, <2>2, <2>3, GnbPlaces, ZenonT(30) DEF UlSend, UlInv
  <1>1. /\ ulw' \in UlType /\ ulw'.pc = "entry" /\ ulw'.ntb = ulw.ntb
        /\ ulw'.ndp = ulw.ndp /\ ulw'.entry = ulw.entry /\ ulw'.at = ulw.at
    BY <1>0, ZenonT(30) DEF UlSend, UlType
  <1>2. Here' = Here
    BY <1>0, <1>1, ZenonT(30) DEF Here
  <1>3. \A i \in 1..Len(gnb) : Before(gnb[i].at, Here)
    BY <1>0, BeforeTrans, ZenonT(30)
  <1>4. CASE gnb' = gnb
    BY <1>0, <1>1, <1>2, <1>3, <1>4, ZenonT(30) DEF UlInv, UplinkOnce
  <1>5. CASE up.host_psi # 0 /\ gnb' = Append(gnb, [at |-> ulw.at, psi |-> up.host_psi])
    <2>1. up.host_psi = HostPsi
      BY <1>5 DEF DataInv, DataGood, UpGood
    <2>2. PICK S : S = [at: Places, psi: {HostPsi}]
      BY ZenonT(30)
    <2>3. PICK d : d = [at |-> ulw.at, psi |-> HostPsi]
      BY ZenonT(30)
    <2>4. d \in S /\ d.at = ulw.at /\ d.psi = HostPsi
      BY <2>2, <2>3, <1>0, ZenonT(30)
    <2>5. gnb \in Seq(S) /\ gnb' = Append(gnb, d)
      BY <2>1, <2>2, <2>3, <1>5, ZenonT(30) DEF UlInv
    <2>6. /\ gnb' \in Seq(S) /\ Len(gnb') = Len(gnb) + 1 /\ Len(gnb) \in Nat
          /\ gnb'[Len(gnb) + 1] = d
          /\ \A i \in 1..Len(gnb) : gnb'[i] = gnb[i]
      BY <2>4, <2>5
    <2>7. \A i \in 1..Len(gnb') : i \in 1..Len(gnb) \/ i = Len(gnb) + 1
      BY <2>6, GrownByOne, ZenonT(30)
    <2>8. \A i \in 1..Len(gnb') :
             gnb'[i].at.ntb <= traffic.ul /\ Before(gnb'[i].at, Here) /\ gnb'[i].psi = HostPsi
      BY <2>4, <2>6, <2>7, <1>0, <1>3, ZenonT(30) DEF UlInv, UplinkOnce
    <2>9. ASSUME NEW i \in 1..Len(gnb'), NEW j \in 1..Len(gnb'), i < j
          PROVE  Before(gnb'[i].at, gnb'[j].at)
      <3>1. i \in 1..Len(gnb)
        BY <2>6, <2>9, GrownByOne, ZenonT(30)
      <3>2. CASE j \in 1..Len(gnb)
        BY <3>1, <3>2, <2>6, <2>9, ZenonT(30) DEF UlInv, UplinkOnce
      <3>3. CASE j = Len(gnb) + 1
        BY <3>1, <3>3, <2>4, <2>6, <1>0, ZenonT(30)
      <3> QED
        BY <3>2, <3>3, <2>7, ZenonT(30)
    <2>10. gnb' \in Seq([at: Places, psi: {HostPsi}])
      BY <2>2, <2>6, ZenonT(30)
    <2>11. UplinkOnce'
      BY <2>8, <2>9, ZenonT(30) DEF UplinkOnce
    <2> QED
      BY <2>8, <2>10, <2>11, <1>0, <1>1, <1>2, ZenonT(30) DEF UlInv
  <1> QED
    BY <1>4, <1>5, ZenonT(30) DEF UlSend

\* The other threads do not touch the uplink.
LEMMA OthersKeepUl ==
  ASSUME DataInv, UlInv, Main \/ Rx \/ DlPop \/ DlWrite \/ LinkChange \/ UsbChange
                         \/ UNCHANGED dataVars
  PROVE  UlInv'
  <1>1. UNCHANGED <<ulw, gnb>>
    BY ZenonT(30) DEF Main, HostBindBegin, HostBindEnd, SessionEvent, RadioOffEvent, NoticeLoss, Quiet,
           TickEnd, Rx, RxReceive, RxDrain, RxPeek, RxAdvance, RxRoute, DlPop, DlWrite,
           LinkChange, UsbChange, dataVars
  <1>2. \/ traffic' = traffic
        \/ traffic' = [traffic EXCEPT !.events = @ - 1]
        \/ traffic' = [traffic EXCEPT !.usb = @ - 1]
        \/ traffic' = [traffic EXCEPT !.dl = @ + 1]
    BY ZenonT(30) DEF Main, HostBindBegin, HostBindEnd, SessionEvent, Event, RadioOffEvent, NoticeLoss,
           Quiet, TickEnd, Rx, RxReceive, RxDrain, RxPeek, RxAdvance, RxRoute, DlPop,
           DlWrite, Written, Failed, LinkChange, UsbChange, dataVars
  <1>3. traffic'.ul = traffic.ul
    BY <1>2, ZenonT(30) DEF DataInv, DataGood, TrafficType
  <1> QED
    BY <1>1, <1>3, UlFrame

\* At the start the gNB has nothing.
LEMMA UlInitial == ASSUME Init PROVE UlInv
  <1>1. ulw = Reading /\ gnb = <<>>
    BY ZenonT(30) DEF Init
  <1>2. ulw \in UlType /\ ulw.pc = "read"
    BY <1>1, ReadingType, ZenonT(30)
  <1>3. gnb \in Seq([at: Places, psi: {HostPsi}]) /\ \A i \in 1..Len(gnb) : FALSE
    BY <1>1
  <1> QED
    BY <1>2, <1>3, ZenonT(30) DEF UlInv, UplinkOnce

\* Whatever NTBs the host sends and however sessions come and go meanwhile, the gNB
\* gets each datagram at most once, in the order of the NTBs, their NDPs and their
\* entries, and under the host's session (mbim_ntb16_deframe, ue_up_send_uplink).
THEOREM GnbGetsOnce == Spec => []UplinkOnce
  <1>1. Init => UlInv
    BY UlInitial
  <1>2. DataInv /\ UlInv /\ [Next]_dataVars => UlInv'
    BY UlReadKeeps, UlEntryKeeps, UlCheckKeeps, UlSendKeeps, OthersKeepUl, ZenonT(30) DEF Next, Ul
  <1>3. UlInv => UplinkOnce
    BY ZenonT(30) DEF UlInv
  <1> QED
    BY <1>1, <1>2, <1>3, DataInvariant, PTL DEF Spec
=============================================================================
