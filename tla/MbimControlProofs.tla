------------------------- MODULE MbimControlProofs --------------------------
(***************************************************************************)
(* For queues of any size and any number of messages and events: the       *)
(* control channel keeps to its type, no queued message is left without a  *)
(* doorbell, and no held command is left without a message ahead of it.    *)
(* The last part prepares MbimViewProofs: no operator on the two queues    *)
(* loses the last indication of a kind.                                    *)
(***************************************************************************)
EXTENDS MbimControl, SequenceTheorems, WellFoundedInduction, TLAPS

\* What every operator on the device preserves.  A doorbell counted as sent is one
\* that the host holds: the flag alone keeps core.c from ringing again.
Good(d) ==
    /\ d \in DevType
    /\ Len(d.resp) < RESP_QUEUE_SIZE
    /\ Len(d.held) < HELD_QUEUE_SIZE
    /\ Len(d.ind_queue) < IND_QUEUE_SIZE
    /\ d.notif_armed => d.doorbell

\* What an operator that queues messages leaves alone.  Inside a GET it does not
\* ring either.
Queues(d, e) ==
    /\ e.held = d.held
    /\ e.eps_enabled = d.eps_enabled
    /\ e.ep0_get_in_progress = d.ep0_get_in_progress
    /\ e.sms <= d.sms
    /\ d.resp # <<>> => e.resp # <<>>
    /\ d.ep0_get_in_progress => (e.notif_armed => d.notif_armed)

\* d and e agree on the doorbell and on what a request works with.
SameDoorbell(d, e) ==
    /\ e.notif_armed = d.notif_armed /\ e.doorbell = d.doorbell
    /\ e.eps_enabled = d.eps_enabled
    /\ e.ep0_get_in_progress = d.ep0_get_in_progress

-----------------------------------------------------------------------------
(* Single operators *)

\* The sizes are numbers, and every queue has a usable slot.
LEMMA Sizes ==
  /\ RESP_QUEUE_SIZE \in Nat /\ HELD_QUEUE_SIZE \in Nat /\ IND_QUEUE_SIZE \in Nat
  /\ RESP_QUEUE_SIZE >= 2 /\ HELD_QUEUE_SIZE >= 2 /\ IND_QUEUE_SIZE >= 2
  /\ MaxMessages \in Nat /\ MaxEvents \in Nat
  BY MbimAssumption

\* The fields of a device.
LEMMA DevFields ==
  ASSUME NEW d, Good(d)
  PROVE  /\ d \in DevType
         /\ d.resp \in Seq(Items) /\ Len(d.resp) \in Nat
         /\ d.held \in Seq([kind: Commands, tid: 1..MaxMessages]) /\ Len(d.held) \in Nat
         /\ d.ind_queue \in Seq(BridgeIndications) /\ Len(d.ind_queue) \in Nat
         /\ d.sms \in 0..MaxEvents /\ d.sms \in Nat
         /\ d.dropped \subseteq 1..MaxMessages
         /\ RespRoom(d) \in Nat /\ RespRoom(d) = RESP_QUEUE_SIZE - 1 - Len(d.resp)
  <1>1. /\ d \in DevType
        /\ d.resp \in Seq(Items)
        /\ d.held \in Seq([kind: Commands, tid: 1..MaxMessages])
        /\ d.ind_queue \in Seq(BridgeIndications)
        /\ d.sms \in 0..MaxEvents
        /\ d.dropped \subseteq 1..MaxMessages
    BY DEF Good, DevType
  <1>2. Len(d.resp) \in Nat /\ Len(d.held) \in Nat /\ Len(d.ind_queue) \in Nat
    BY <1>1
  <1>3. Len(d.resp) < RESP_QUEUE_SIZE
    BY DEF Good
  <1>4. RespRoom(d) \in Nat /\ RespRoom(d) = RESP_QUEUE_SIZE - 1 - Len(d.resp)
    BY <1>2, <1>3, Sizes DEF RespRoom
  <1> QED
    BY <1>1, <1>2, <1>4, Sizes

\* Two such operators in a row.
LEMMA QueuesTrans ==
  ASSUME NEW a, NEW b, NEW c, Good(a), Good(b), Good(c), Queues(a, b), Queues(b, c)
  PROVE  Queues(a, c)
  <1>1. a.sms \in Nat /\ b.sms \in Nat /\ c.sms \in Nat
    BY DevFields
  <1> QED
    BY <1>1 DEF Queues

\* An operator that changes flags only.
LEMMA FlagsOnly ==
  ASSUME NEW d, Good(d), NEW e \in DevType, SameDoorbell(d, e), e.resp = d.resp,
         e.held = d.held, e.ind_queue = d.ind_queue, e.sms = d.sms
  PROVE  Good(e) /\ Queues(d, e)
  <1>1. d.sms \in Nat
    BY DevFields
  <1> QED
    BY <1>1 DEF Good, Queues, SameDoorbell

\* A message is queued or dropped: either way the queue is not empty.
LEMMA EnqueueGood ==
  ASSUME NEW d, Good(d), NEW item \in Items, NEW e, e = mbim_resp_enqueue(d, item)
  PROVE  Good(e) /\ Queues(d, e) /\ e.resp # <<>>
  <1>1. /\ d \in DevType /\ d.resp \in Seq(Items) /\ Len(d.resp) \in Nat /\ d.sms \in Nat
        /\ RespRoom(d) \in Nat /\ RespRoom(d) = RESP_QUEUE_SIZE - 1 - Len(d.resp)
    BY DevFields
  <1>0. ASSUME NEW n \in Nat, NEW r \in Nat, r = RESP_QUEUE_SIZE - 1 - n
        PROVE  (r > 0 => n + 1 < RESP_QUEUE_SIZE) /\ (r = 0 => n > 0)
    BY <1>0, Sizes
  <1>2. CASE RespRoom(d) > 0
    <2>1. e = [d EXCEPT !.resp = Append(d.resp, item)]
      BY <1>2 DEF mbim_resp_enqueue
    <2>2. /\ Append(d.resp, item) \in Seq(Items) /\ Append(d.resp, item) # <<>>
          /\ Len(Append(d.resp, item)) = Len(d.resp) + 1
      BY <1>1
    <2>3. Len(d.resp) + 1 < RESP_QUEUE_SIZE
      BY <1>0, <1>1, <1>2
    <2>4. e \in DevType
      BY <1>1, <2>1, <2>2, ZenonT(30) DEF DevType
    <2>5. /\ e.resp = Append(d.resp, item) /\ e.held = d.held /\ e.sms = d.sms
          /\ e.ind_queue = d.ind_queue /\ SameDoorbell(d, e)
      BY <1>1, <2>1 DEF DevType, SameDoorbell
    <2> QED
      BY <1>1, <2>2, <2>3, <2>4, <2>5 DEF Good, Queues, SameDoorbell
  <1>3. CASE ~(RespRoom(d) > 0)
    <2>1. e = [d EXCEPT !.dropped = d.dropped \cup ({item.tid} \ {0})]
      BY <1>3 DEF mbim_resp_enqueue
    <2>2. d.resp # <<>>
      <3>1. RespRoom(d) = 0
        BY <1>1, <1>3
      <3>2. Len(d.resp) > 0
        BY <1>0, <1>1, <3>1
      <3> QED
        BY <3>2
    <2>3. {item.tid} \ {0} \subseteq 1..MaxMessages
      BY DEF Items
    <2>4. e \in DevType
      BY <1>1, <2>1, <2>3, ZenonT(30) DEF DevType
    <2>5. /\ e.resp = d.resp /\ e.held = d.held /\ e.sms = d.sms
          /\ e.ind_queue = d.ind_queue /\ SameDoorbell(d, e)
      BY <1>1, <2>1 DEF DevType, SameDoorbell
    <2> QED
      BY <2>2, <2>4, <2>5, FlagsOnly
  <1> QED
    BY <1>2, <1>3

\* Indications and answers are items.
LEMMA ItemsTyped ==
  /\ \A about \in Indications : Indication(about) \in Items
  /\ \A tid \in 1..MaxMessages : Done(tid) \in Items
  BY DEF Items, Indication, Done

\* notif_pending is set.
LEMMA MarkGood ==
  ASSUME NEW d, Good(d), NEW e, e = mbim_mark_notification_needed(d)
  PROVE  Good(e) /\ Queues(d, e) /\ e.resp = d.resp /\ e.notif_pending
  <1>1. d \in DevType /\ e = [d EXCEPT !.notif_pending = TRUE]
    BY DevFields DEF mbim_mark_notification_needed
  <1>2. e \in DevType
    BY <1>1, ZenonT(30) DEF DevType
  <1>3. /\ SameDoorbell(d, e) /\ e.resp = d.resp /\ e.held = d.held
        /\ e.ind_queue = d.ind_queue /\ e.sms = d.sms /\ e.notif_pending
    BY <1>1 DEF DevType, SameDoorbell
  <1> QED
    BY <1>2, <1>3, FlagsOnly

\* An item is queued and the host is to be told.
LEMMA QueueAndMark ==
  ASSUME NEW d, Good(d), NEW item \in Items, NEW e,
         e = mbim_mark_notification_needed(mbim_resp_enqueue(d, item))
  PROVE  Good(e) /\ Queues(d, e) /\ e.resp # <<>>
  <1>1. PICK q : q = mbim_resp_enqueue(d, item)
    OBVIOUS
  <1>2. Good(q) /\ Queues(d, q) /\ q.resp # <<>>
    BY <1>1, EnqueueGood
  <1>3. Good(e) /\ Queues(q, e) /\ e.resp = q.resp
    BY <1>1, <1>2, MarkGood
  <1> QED
    BY <1>2, <1>3, QueuesTrans

\* The doorbell is rung only where it is then held by the host, and always when
\* there is something to say, outside a GET.
LEMMA TrySendGood ==
  ASSUME NEW d, Good(d), NEW e, e = mbim_try_send_deferred_notification(d)
  PROVE  /\ Good(e) /\ Queues(d, e) /\ e.resp = d.resp
         /\ d.eps_enabled /\ d.notif_pending /\ ~d.ep0_get_in_progress /\ d.resp # <<>>
              => e.doorbell
  <1>1. d \in DevType /\ d.sms \in Nat
    BY DevFields
  <1>2. CASE ~d.eps_enabled \/ ~d.notif_pending \/ d.ep0_get_in_progress \/ d.notif_armed
    <2>1. e = d
      BY <1>2 DEF mbim_try_send_deferred_notification
    <2> QED
      BY <1>1, <1>2, <2>1 DEF Good, Queues
  <1>3. CASE ~(~d.eps_enabled \/ ~d.notif_pending \/ d.ep0_get_in_progress \/ d.notif_armed)
    <2>1. CASE d.resp = <<>>
      <3>1. e = [d EXCEPT !.notif_pending = FALSE]
        BY <1>3, <2>1 DEF mbim_try_send_deferred_notification
      <3>2. e \in DevType
        BY <1>1, <3>1, ZenonT(30) DEF DevType
      <3>3. /\ SameDoorbell(d, e) /\ e.resp = d.resp /\ e.held = d.held
            /\ e.ind_queue = d.ind_queue /\ e.sms = d.sms
        BY <1>1, <3>1 DEF DevType, SameDoorbell
      <3> QED
        BY <2>1, <3>2, <3>3, FlagsOnly
    <2>2. CASE d.resp # <<>>
      <3>1. e = [d EXCEPT !.notif_pending = FALSE, !.notif_armed = TRUE, !.doorbell = TRUE]
        BY <1>3, <2>2 DEF mbim_try_send_deferred_notification
      <3>2. e \in DevType
        BY <1>1, <3>1, ZenonT(30) DEF DevType
      <3>3. /\ e.doorbell /\ e.resp = d.resp /\ e.held = d.held
            /\ e.ind_queue = d.ind_queue /\ e.sms = d.sms
            /\ e.eps_enabled = d.eps_enabled
            /\ e.ep0_get_in_progress = d.ep0_get_in_progress
        BY <1>1, <3>1 DEF DevType
      <3> QED
        BY <1>1, <1>3, <3>2, <3>3 DEF Good, Queues
    <2> QED
      BY <2>1, <2>2
  <1> QED
    BY <1>2, <1>3

-----------------------------------------------------------------------------
(* Indications *)

\* A function on 1..n is a sequence of length n.
LEMMA FunctionIsSeq ==
  ASSUME NEW S, NEW n \in Nat, NEW f \in [1..n -> S]
  PROVE  f \in Seq(S) /\ Len(f) = n
  <1>1. f \in Seq(S)
    BY SeqDef
  <1>2. Len(f) \in Nat /\ 1..n = 1..Len(f)
    BY <1>1, LenProperties
  <1>3. \A m \in Nat : 1..n = 1..m => m = n
    <2> SUFFICES ASSUME NEW m \in Nat, 1..n = 1..m PROVE m = n
      OBVIOUS
    <2>1. m > 0 => m \in 1..n
      OBVIOUS
    <2> QED
      OBVIOUS
  <1> QED
    BY <1>1, <1>2, <1>3

\* n messages are queued behind the others.
LEMMA AppendMany ==
  ASSUME NEW d, Good(d), NEW n \in Nat, n <= RespRoom(d), NEW more \in [1..n -> Items]
  PROVE  /\ d.resp \o more \in Seq(Items)
         /\ Len(d.resp \o more) < RESP_QUEUE_SIZE
         /\ d.resp # <<>> => d.resp \o more # <<>>
  <1>1. more \in Seq(Items) /\ Len(more) = n
    BY FunctionIsSeq
  <1>2. /\ d.resp \in Seq(Items) /\ Len(d.resp) \in Nat /\ RespRoom(d) \in Nat
        /\ RespRoom(d) = RESP_QUEUE_SIZE - 1 - Len(d.resp)
    BY DevFields
  <1>3. d.resp \o more \in Seq(Items) /\ Len(d.resp \o more) = Len(d.resp) + n
    BY <1>1, <1>2, ConcatProperties, ZenonT(30)
  <1>4. ASSUME NEW a \in Nat, NEW r \in Nat, r = RESP_QUEUE_SIZE - 1 - a, n <= r
        PROVE  a + n < RESP_QUEUE_SIZE
    BY <1>4, Sizes
  <1>5. Len(d.resp \o more) < RESP_QUEUE_SIZE
    BY <1>2, <1>3, <1>4
  <1>6. d.resp # <<>> => d.resp \o more # <<>>
    BY <1>1, <1>2, ConcatEqualIffEmpty
  <1> QED
    BY <1>3, <1>5, <1>6

\* The bridge's ring takes an indication, or drops it when it is full.
LEMMA IndEnqueueGood ==
  ASSUME NEW d, Good(d), NEW ind \in BridgeIndications, NEW e, e = ind_enqueue(d, ind)
  PROVE  Good(e) /\ Queues(d, e) /\ e.resp = d.resp
  <1>1. /\ d \in DevType /\ d.ind_queue \in Seq(BridgeIndications)
        /\ Len(d.ind_queue) \in Nat /\ d.sms \in Nat
    BY DevFields
  <1>2. CASE Len(d.ind_queue) < IND_QUEUE_SIZE - 1
    <2>1. e = [d EXCEPT !.ind_queue = Append(d.ind_queue, ind)]
      BY <1>2 DEF ind_enqueue
    <2>2. /\ Append(d.ind_queue, ind) \in Seq(BridgeIndications)
          /\ Len(Append(d.ind_queue, ind)) = Len(d.ind_queue) + 1
      BY <1>1
    <2>3. Len(d.ind_queue) + 1 < IND_QUEUE_SIZE
      BY <1>1, <1>2, Sizes
    <2>4. e \in DevType
      BY <1>1, <2>1, <2>2, ZenonT(30) DEF DevType
    <2>5. /\ e.resp = d.resp /\ e.held = d.held /\ e.sms = d.sms
          /\ e.ind_queue = Append(d.ind_queue, ind) /\ SameDoorbell(d, e)
      BY <1>1, <2>1 DEF DevType, SameDoorbell
    <2> QED
      BY <1>1, <2>2, <2>3, <2>4, <2>5 DEF Good, Queues, SameDoorbell
  <1>3. CASE ~(Len(d.ind_queue) < IND_QUEUE_SIZE - 1)
    <2>1. e = d
      BY <1>3 DEF ind_enqueue
    <2> QED
      BY <1>1, <2>1 DEF Queues
  <1> QED
    BY <1>2, <1>3

\* What occurs in a ring occurs there a first time.
LEMMA FirstOccurs ==
  ASSUME NEW q \in Seq(BridgeIndications), NEW ind, \E i \in DOMAIN q : q[i] = ind
  PROVE  FirstOf(q, ind) \in 1..Len(q) /\ q[FirstOf(q, ind)] = ind
  <1> DEFINE I == {i \in 1..Len(q) : q[i] = ind}
  <1>1. I # {} /\ I \subseteq Nat
    OBVIOUS
  <1>2. PICK x \in I : \A y \in I : ~(<<y, x>> \in OpToRel(<, Nat))
    BY <1>1, NatLessThanWellFounded, WFMin, ZenonT(30)
  <1>3. \A j \in 1..x-1 : q[j] # ind
    <2> SUFFICES ASSUME NEW j \in 1..x-1, q[j] = ind PROVE FALSE
      OBVIOUS
    <2>1. x \in Nat /\ j \in Nat /\ j \in I /\ j < x
      BY <1>1
    <2> QED
      BY <1>2, <2>1, ZenonT(30) DEF OpToRel
  <1> QED
    BY <1>3, ZenonT(30) DEF FirstOf

\* An indication is withdrawn from the ring.
LEMMA IndDropGood ==
  ASSUME NEW d, Good(d), NEW ind, NEW e, e = ind_drop_first(d, ind)
  PROVE  Good(e) /\ Queues(d, e) /\ e.resp = d.resp
  <1> DEFINE q == d.ind_queue
             at == FirstOf(q, ind)
  <1>1. /\ d \in DevType /\ q \in Seq(BridgeIndications) /\ Len(q) \in Nat
        /\ d.sms \in Nat
    BY DevFields
  <1>2. CASE \E i \in DOMAIN q : q[i] = ind
    <2>1. e = [d EXCEPT !.ind_queue = Without(q, at)]
      BY <1>2 DEF ind_drop_first
    <2>2. at \in 1..Len(q)
      BY <1>1, <1>2, FirstOccurs
    <2> HIDE DEF at
    <2>3. /\ Without(q, at) \in Seq(BridgeIndications)
          /\ Len(Without(q, at)) < IND_QUEUE_SIZE
      <3>1. /\ SubSeq(q, 1, at - 1) \in Seq(BridgeIndications)
            /\ Len(SubSeq(q, 1, at - 1)) = at - 1
        BY <1>1, <2>2
      <3>2. /\ SubSeq(q, at + 1, Len(q)) \in Seq(BridgeIndications)
            /\ Len(SubSeq(q, at + 1, Len(q))) = Len(q) - at
        BY <1>1, <2>2
      <3>3. /\ Without(q, at) \in Seq(BridgeIndications)
            /\ Len(Without(q, at)) = (at - 1) + (Len(q) - at)
        BY <3>1, <3>2, ConcatProperties DEF Without
      <3>4. Len(q) < IND_QUEUE_SIZE
        BY DEF Good
      <3> QED
        BY <1>1, <2>2, <3>3, <3>4, Sizes
    <2>4. e \in DevType
      BY <1>1, <2>1, <2>3, ZenonT(30) DEF DevType
    <2>5. /\ e.resp = d.resp /\ e.held = d.held /\ e.sms = d.sms
          /\ e.ind_queue = Without(q, at) /\ SameDoorbell(d, e)
      BY <1>1, <2>1 DEF DevType, SameDoorbell
    <2> QED
      BY <1>1, <2>3, <2>4, <2>5 DEF Good, Queues, SameDoorbell
  <1>3. CASE ~(\E i \in DOMAIN q : q[i] = ind)
    <2>1. e = [d EXCEPT !.ind_queue = q]
      BY <1>3 DEF ind_drop_first
    <2>2. e = d
      BY <1>1, <2>1 DEF DevType
    <2> QED
      BY <1>1, <2>2 DEF Queues
  <1> QED
    BY <1>2, <1>3

\* The indication of QMI_CTL_SYNC, and LTE_ATTACH_STATUS.
LEMMA DrainFlagsGood ==
  ASSUME NEW d, Good(d), NEW e, e = DrainQmux(d) \/ e = DrainLteAttach(d)
  PROVE  Good(e) /\ Queues(d, e)
  <1>0. Queues(d, d)
    BY DevFields DEF Queues
  <1>1. CASE e = d
    BY <1>0, <1>1
  <1>2. CASE e = [Emit(d, "qmux") EXCEPT !.sync_ind_pending = FALSE, !.sync_ind_sent = TRUE]
    <2>1. PICK q : q = Emit(d, "qmux")
      OBVIOUS
    <2>2. Good(q) /\ Queues(d, q)
      BY <2>1, QueueAndMark, ItemsTyped DEF Emit, Indications
    <2>3. e = [q EXCEPT !.sync_ind_pending = FALSE, !.sync_ind_sent = TRUE] /\ q \in DevType
      BY <1>2, <2>1, <2>2, DevFields
    <2>4. e \in DevType
      BY <2>3, ZenonT(30) DEF DevType
    <2>5. /\ SameDoorbell(q, e) /\ e.resp = q.resp /\ e.held = q.held
          /\ e.ind_queue = q.ind_queue /\ e.sms = q.sms
      BY <2>3 DEF DevType, SameDoorbell
    <2> QED
      BY <2>2, <2>4, <2>5, FlagsOnly, QueuesTrans
  <1>3. CASE e = [Emit(d, "lteAttach") EXCEPT !.pending_lte_attach_status_ind = FALSE]
    <2>1. PICK q : q = Emit(d, "lteAttach")
      OBVIOUS
    <2>2. Good(q) /\ Queues(d, q)
      BY <2>1, QueueAndMark, ItemsTyped DEF Emit, Indications
    <2>3. e = [q EXCEPT !.pending_lte_attach_status_ind = FALSE] /\ q \in DevType
      BY <1>3, <2>1, <2>2, DevFields
    <2>4. e \in DevType
      BY <2>3, ZenonT(30) DEF DevType
    <2>5. /\ SameDoorbell(q, e) /\ e.resp = q.resp /\ e.held = q.held
          /\ e.ind_queue = q.ind_queue /\ e.sms = q.sms
      BY <2>3 DEF DevType, SameDoorbell
    <2> QED
      BY <2>2, <2>4, <2>5, FlagsOnly, QueuesTrans
  <1> QED
    BY <1>1, <1>2, <1>3 DEF DrainQmux, DrainLteAttach

\* The first entries of the bridge's ring become messages.
LEMMA DrainBridgeGood ==
  ASSUME NEW d, Good(d), NEW e, e = DrainBridge(d)
  PROVE  Good(e) /\ Queues(d, e)
  <1> DEFINE q == d.ind_queue
             n == IF Len(q) <= RespRoom(d) THEN Len(q) ELSE RespRoom(d)
             taken == SubSeq(q, 1, n)
             more == [i \in 1..n |-> Indication(taken[i])]
             rest == SubSeq(q, n + 1, Len(q))
             lte == \/ d.pending_lte_attach_status_ind
                    \/ \E i \in 1..n : taken[i] \in {"attached", "detached"}
             pend == d.notif_pending \/ n > 0
  <1>1. /\ d \in DevType /\ q \in Seq(BridgeIndications) /\ Len(q) \in Nat
        /\ RespRoom(d) \in Nat /\ d.sms \in Nat
    BY DevFields
  <1>2. n \in Nat /\ n <= Len(q) /\ n <= RespRoom(d)
    BY <1>1
  <1>3. e = [d EXCEPT !.resp = d.resp \o more, !.ind_queue = rest, !.notif_pending = pend,
                      !.pending_lte_attach_status_ind = lte]
    BY ZenonT(30) DEF DrainBridge, TakeBridge
  <1> HIDE DEF n
  <1>4. more \in [1..n -> Items]
    <2>1. \A i \in 1..n : taken[i] \in BridgeIndications
      BY <1>1, <1>2
    <2> QED
      BY <2>1, ItemsTyped, ZenonT(30) DEF Indications
  <1>5. /\ d.resp \o more \in Seq(Items) /\ Len(d.resp \o more) < RESP_QUEUE_SIZE
        /\ d.resp # <<>> => d.resp \o more # <<>>
    BY <1>2, <1>4, AppendMany, ZenonT(30)
  <1>6. rest \in Seq(BridgeIndications) /\ Len(rest) < IND_QUEUE_SIZE
    <2>1. \A i \in n+1..Len(q) : q[i] \in BridgeIndications
      BY <1>1, <1>2
    <2>2. /\ rest \in Seq(BridgeIndications)
          /\ Len(rest) = IF n + 1 <= Len(q) THEN Len(q) - (n + 1) + 1 ELSE 0
      BY <1>1, <1>2, <2>1, SubSeqProperties
    <2>3. Len(q) < IND_QUEUE_SIZE
      BY DEF Good
    <2> HIDE DEF rest, q
    <2> QED
      BY <1>1, <1>2, <2>2, <2>3, Sizes
  <1>7. pend \in BOOLEAN /\ lte \in BOOLEAN
    <2>1. d.notif_pending \in BOOLEAN /\ d.pending_lte_attach_status_ind \in BOOLEAN
      BY <1>1 DEF DevType
    <2> QED
      BY <2>1
  <1> HIDE DEF more, rest, pend, lte, q
  <1>8. e \in DevType
    BY <1>1, <1>3, <1>5, <1>6, <1>7, ZenonT(30) DEF DevType
  <1>9. /\ e.resp = d.resp \o more /\ e.held = d.held /\ e.sms = d.sms
        /\ e.ind_queue = rest /\ SameDoorbell(d, e)
    BY <1>1, <1>3, ZenonT(30) DEF DevType, SameDoorbell
  <1> QED
    BY <1>1, <1>5, <1>6, <1>8, <1>9 DEF Good, Queues, SameDoorbell

\* Short messages become store-status indications.
LEMMA DrainSmsGood ==
  ASSUME NEW d, Good(d), NEW e, e = DrainSms(d)
  PROVE  Good(e) /\ Queues(d, e)
  <1> DEFINE n == IF d.sms <= RespRoom(d) THEN d.sms ELSE RespRoom(d)
             more == [i \in 1..n |-> Indication("smsStored")]
             pend == d.notif_pending \/ n > 0
             stored == [d EXCEPT !.resp = d.resp \o more, !.sms = d.sms - n,
                                 !.notif_pending = pend]
  <1>1. /\ d \in DevType /\ RespRoom(d) \in Nat /\ d.sms \in Nat /\ d.sms \in 0..MaxEvents
    BY DevFields
  <1>2. n \in Nat /\ n <= d.sms /\ n <= RespRoom(d)
    BY <1>1
  <1>3. e = IF n > 0 /\ RespRoom(stored) > 0 THEN Emit(stored, "smsRead") ELSE stored
    BY DEF DrainSms
  <1> HIDE DEF n
  <1>4. more \in [1..n -> Items]
    BY ItemsTyped DEF Indications
  <1>5. /\ d.resp \o more \in Seq(Items) /\ Len(d.resp \o more) < RESP_QUEUE_SIZE
        /\ d.resp # <<>> => d.resp \o more # <<>>
    BY <1>2, <1>4, AppendMany, ZenonT(30)
  <1>6. d.sms - n \in 0..MaxEvents /\ d.sms - n <= d.sms
    BY <1>1, <1>2, Sizes
  <1>7. pend \in BOOLEAN
    <2>1. d.notif_pending \in BOOLEAN
      BY <1>1 DEF DevType
    <2> QED
      BY <2>1
  <1> HIDE DEF more, pend
  <1>8. stored \in DevType
    BY <1>1, <1>5, <1>6, <1>7, ZenonT(30) DEF DevType
  <1>9. /\ stored.resp = d.resp \o more /\ stored.held = d.held /\ stored.sms = d.sms - n
        /\ stored.ind_queue = d.ind_queue /\ SameDoorbell(d, stored)
    BY <1>1 DEF DevType, SameDoorbell
  <1>10. Good(stored) /\ Queues(d, stored)
    <2> HIDE DEF stored
    <2> QED
      BY <1>5, <1>6, <1>8, <1>9 DEF Good, Queues, SameDoorbell
  <1>11. CASE e = stored
    BY <1>10, <1>11
  <1>12. CASE e = Emit(stored, "smsRead")
    <2> HIDE DEF stored
    <2>1. Good(e) /\ Queues(stored, e)
      BY <1>10, <1>12, QueueAndMark, ItemsTyped DEF Emit, Indications
    <2> QED
      BY <1>10, <2>1, QueuesTrans
  <1> QED
    BY <1>3, <1>11, <1>12

\* The drain, of all four sources.
LEMMA DrainGood ==
  ASSUME NEW d, Good(d), NEW e, e = drain_pending_indications(d)
  PROVE  Good(e) /\ Queues(d, e)
  <1>1. CASE d.held # <<>>
    BY <1>1, DevFields DEF drain_pending_indications, Queues
  <1>2. CASE d.held = <<>>
    <2>1. PICK a : a = DrainQmux(d)
      OBVIOUS
    <2>2. PICK b : b = DrainLteAttach(a)
      OBVIOUS
    <2>3. PICK c : c = DrainBridge(b)
      OBVIOUS
    <2>4. e = DrainSms(c)
      BY <1>2, <2>1, <2>2, <2>3 DEF drain_pending_indications
    <2>5. Good(a) /\ Queues(d, a)
      BY <2>1, DrainFlagsGood
    <2>6. Good(b) /\ Queues(d, b)
      BY <2>2, <2>5, DrainFlagsGood, QueuesTrans
    <2>7. Good(c) /\ Queues(d, c)
      BY <2>3, <2>6, DrainBridgeGood, QueuesTrans
    <2> QED
      BY <2>4, <2>7, DrainSmsGood, QueuesTrans
  <1> QED
    BY <1>1, <1>2

-----------------------------------------------------------------------------
(* Requests *)

\* QMI_CTL_SYNC answers by itself.
LEMMA CtlSyncGood ==
  ASSUME NEW d, Good(d), NEW tid \in 1..MaxMessages, NEW e, e = HandleCtlSync(d, tid)
  PROVE  Good(e) /\ Queues(d, e) /\ e.resp # <<>>
  <1>1. /\ d \in DevType /\ d.resp \in Seq(Items) /\ Len(d.resp) \in Nat
        /\ RespRoom(d) = RESP_QUEUE_SIZE - 1 - Len(d.resp)
    BY DevFields
  <1>2. CASE RespRoom(d) = 0
    <2>1. e = [d EXCEPT !.dropped = d.dropped \cup {tid}]
      BY <1>2 DEF HandleCtlSync
    <2>2. e \in DevType
      <3>1. d.dropped \cup {tid} \in SUBSET (1..MaxMessages)
        BY DevFields
      <3> QED
        BY <1>1, <2>1, <3>1, ZenonT(30) DEF DevType
    <2>3. /\ SameDoorbell(d, e) /\ e.resp = d.resp /\ e.held = d.held
          /\ e.ind_queue = d.ind_queue /\ e.sms = d.sms
      BY <1>1, <2>1 DEF DevType, SameDoorbell
    <2>4. ASSUME NEW n \in Nat, 0 = RESP_QUEUE_SIZE - 1 - n PROVE n > 0
      BY <2>4, Sizes
    <2>5. Len(d.resp) > 0
      BY <1>1, <1>2, <2>4
    <2>6. d.resp # <<>>
      BY <2>5
    <2> QED
      BY <2>2, <2>3, <2>6, FlagsOnly
  <1>3. CASE RespRoom(d) # 0
    <2>1. PICK a : a = Answer(d, tid)
      OBVIOUS
    <2>2. Good(a) /\ Queues(d, a) /\ a.resp # <<>>
      BY <2>1, QueueAndMark, ItemsTyped DEF Answer
    <2>3. PICK b : b = [a EXCEPT !.sync_ind_pending = @ \/ ~d.sync_ind_sent]
      BY ZenonT(30)
    <2>4. a \in DevType
      BY <2>2, DevFields
    <2>5. (a.sync_ind_pending \/ ~d.sync_ind_sent) \in BOOLEAN
      OBVIOUS
    <2>6. b \in DevType
      BY <2>3, <2>4, <2>5, ZenonT(30) DEF DevType
    <2>7. /\ SameDoorbell(a, b) /\ b.resp = a.resp /\ b.held = a.held
          /\ b.ind_queue = a.ind_queue /\ b.sms = a.sms
      BY <2>3, <2>4 DEF DevType, SameDoorbell
    <2>8. Good(b) /\ Queues(d, b) /\ b.resp # <<>>
      BY <2>2, <2>6, <2>7, FlagsOnly, QueuesTrans
    <2>9. e = mbim_try_send_deferred_notification(b)
      BY <1>3, <2>1, <2>3 DEF HandleCtlSync
    <2> QED
      BY <2>8, <2>9, TrySendGood, QueuesTrans
  <1> QED
    BY <1>2, <1>3

\* The queue of answers is not empty once a message has been answered.
LEMMA PrepareGood ==
  ASSUME NEW d, Good(d), NEW tid \in 1..MaxMessages,
         NEW kind \in Commands \cup {"open", "close"},
         kind = "close" => ~d.ep0_get_in_progress,
         NEW e, e = prepare_mbim_response(d, kind, tid)
  PROVE  Good(e) /\ Queues(d, e) /\ e.resp # <<>>
  <1>1. d \in DevType /\ d.sms \in Nat
    BY DevFields
  <1>2. CASE kind = "sync"
    BY <1>2, CtlSyncGood DEF prepare_mbim_response
  <1>3. ASSUME NEW a, Good(a), Queues(d, a), e = Answer(a, tid)
        PROVE  Good(e) /\ Queues(d, e) /\ e.resp # <<>>
    BY <1>3, QueueAndMark, ItemsTyped, QueuesTrans DEF Answer
  <1>4. CASE kind = "plain"
    <2>1. Queues(d, d)
      BY <1>1 DEF Queues
    <2> QED
      BY <1>3, <1>4, <2>1 DEF prepare_mbim_response
  <1>5. CASE kind = "register"
    <2>1. PICK a : a = ind_enqueue(d, "searching")
      OBVIOUS
    <2>2. Good(a) /\ Queues(d, a)
      BY <2>1, IndEnqueueGood DEF BridgeIndications, RegIndications
    <2> QED
      BY <1>3, <1>5, <2>1, <2>2 DEF prepare_mbim_response
  <1>6. PICK r : r = mbim_vendor_qmux_reset(d)
    OBVIOUS
  <1>7. Good(r) /\ Queues(d, r) /\ r \in DevType /\ r.ep0_get_in_progress = d.ep0_get_in_progress
    <2>1. r = [d EXCEPT !.sync_ind_sent = FALSE, !.sync_ind_pending = FALSE]
      BY <1>6 DEF mbim_vendor_qmux_reset
    <2>2. r \in DevType
      BY <1>1, <2>1, ZenonT(30) DEF DevType
    <2>3. /\ SameDoorbell(d, r) /\ r.resp = d.resp /\ r.held = d.held
          /\ r.ind_queue = d.ind_queue /\ r.sms = d.sms
      BY <1>1, <2>1 DEF DevType, SameDoorbell
    <2> QED
      BY <2>2, <2>3, FlagsOnly DEF SameDoorbell
  <1>8. CASE kind = "open"
    BY <1>3, <1>6, <1>7, <1>8 DEF prepare_mbim_response
  <1>9. CASE kind = "close"
    <2>1. PICK a : a = reset_mbim_standard_indication_state(r)
      OBVIOUS
    <2>2. a = [r EXCEPT !.pending_lte_attach_status_ind = FALSE, !.notif_pending = FALSE,
                        !.notif_armed = FALSE, !.ep0_get_in_progress = FALSE]
      BY <2>1 DEF reset_mbim_standard_indication_state
    <2>3. a \in DevType
      BY <1>7, <2>2, ZenonT(30) DEF DevType
    <2>4. /\ a.resp = r.resp /\ a.held = r.held /\ a.ind_queue = r.ind_queue
          /\ a.sms = r.sms /\ a.eps_enabled = r.eps_enabled
          /\ a.notif_armed = FALSE /\ a.ep0_get_in_progress = FALSE
      BY <1>7, <2>2 DEF DevType
    <2>5. r.ep0_get_in_progress = FALSE
      <3>1. r.ep0_get_in_progress \in BOOLEAN
        BY <1>7 DEF DevType
      <3> QED
        BY <1>7, <1>9, <3>1
    <2>6. r.sms \in Nat
      BY <1>7, DevFields
    <2>7. Good(a) /\ Queues(r, a)
      <3>1. Good(a)
        BY <1>7, <2>3, <2>4 DEF Good
      <3>2. a.sms <= r.sms
        BY <2>4, <2>6
      <3>3. a.ep0_get_in_progress = r.ep0_get_in_progress /\ ~r.ep0_get_in_progress
        BY <2>4, <2>5, Zenon
      <3> QED
        BY <2>4, <3>1, <3>2, <3>3, Zenon DEF Queues
    <2>8. Good(a) /\ Queues(d, a)
      BY <1>7, <2>7, QueuesTrans
    <2> QED
      BY <1>3, <1>6, <1>9, <2>1, <2>8 DEF prepare_mbim_response
  <1> QED
    BY <1>2, <1>4, <1>5, <1>8, <1>9 DEF Commands

\* A command is held back, or dropped when the queue of held ones is full.
LEMMA HoldGood ==
  ASSUME NEW d, Good(d), NEW kind \in Commands, NEW tid \in 1..MaxMessages,
         NEW e, e = mbim_hold_command(d, kind, tid)
  PROVE  Good(e) /\ SameDoorbell(d, e) /\ e.resp = d.resp /\ e.sms = d.sms
  <1> DEFINE c == [kind |-> kind, tid |-> tid]
             C == [kind: Commands, tid: 1..MaxMessages]
  <1>1. d \in DevType /\ d.held \in Seq(C) /\ Len(d.held) \in Nat
    BY DevFields, ZenonT(30)
  <1>2. CASE Len(d.held) < HELD_QUEUE_SIZE - 1
    <2>1. e = [d EXCEPT !.held = Append(d.held, c)]
      BY <1>2 DEF mbim_hold_command
    <2>2. /\ Append(d.held, c) \in Seq(C)
          /\ Len(Append(d.held, c)) = Len(d.held) + 1
      BY <1>1
    <2>3. Len(d.held) + 1 < HELD_QUEUE_SIZE
      BY <1>1, <1>2, Sizes
    <2>4. e \in DevType
      BY <1>1, <2>1, <2>2, ZenonT(30) DEF DevType
    <2>5. /\ e.resp = d.resp /\ e.held = Append(d.held, c) /\ e.sms = d.sms
          /\ e.ind_queue = d.ind_queue /\ SameDoorbell(d, e)
      BY <1>1, <2>1 DEF DevType, SameDoorbell
    <2> QED
      BY <2>2, <2>3, <2>4, <2>5 DEF Good, SameDoorbell
  <1>3. CASE ~(Len(d.held) < HELD_QUEUE_SIZE - 1)
    <2>1. e = [d EXCEPT !.dropped = d.dropped \cup {tid}]
      BY <1>3 DEF mbim_hold_command
    <2>2. d.dropped \cup {tid} \in SUBSET (1..MaxMessages)
      BY DevFields
    <2>3. e \in DevType
      BY <1>1, <2>1, <2>2, ZenonT(30) DEF DevType
    <2>4. /\ e.resp = d.resp /\ e.held = d.held /\ e.sms = d.sms
          /\ e.ind_queue = d.ind_queue /\ SameDoorbell(d, e)
      BY <1>1, <2>1 DEF DevType, SameDoorbell
    <2> QED
      BY <2>3, <2>4, FlagsOnly
  <1> QED
    BY <1>2, <1>3

\* state_bridge_poll touches the bridge's ring only.
LEMMA PollGood ==
  ASSUME NEW d, Good(d), NEW home \in BOOLEAN, NEW sm \in SmStates,
         NEW e, e = state_bridge_poll(d, home, sm)
  PROVE  Good(e) /\ Queues(d, e)
  <1>0. ASSUME NEW x, Good(x) PROVE Queues(x, x)
    BY <1>0, DevFields DEF Queues
  <1>1. \A ind \in {"home", "deregistered", "attaching", "attached", "detached"} :
           ind \in BridgeIndications
    BY DEF BridgeIndications, RegIndications, PacketIndications
  <1>2. PICK a : a = PollRegistration(d, home)
    OBVIOUS
  <1>3. Good(a) /\ Queues(d, a)
    BY <1>0, <1>1, <1>2, IndEnqueueGood, ZenonT(30) DEF PollRegistration
  <1>4. PICK b : b = PollAttaching(a, sm)
    OBVIOUS
  <1>5. Good(b) /\ Queues(a, b)
    BY <1>0, <1>1, <1>3, <1>4, IndEnqueueGood, ZenonT(30) DEF PollAttaching
  <1>6. PICK x : x = ind_drop_first(b, "attaching")
    OBVIOUS
  <1>7. Good(x) /\ Queues(b, x)
    BY <1>5, <1>6, IndDropGood
  <1>8. PICK c : c = PollAttached(b, sm)
    OBVIOUS
  <1>9. c = b \/ c = ind_enqueue(x, "attached") \/ c = ind_enqueue(x, "detached")
    BY <1>6, <1>8 DEF PollAttached
  <1>10. Good(c) /\ Queues(b, c)
    BY <1>0, <1>1, <1>5, <1>7, <1>9, IndEnqueueGood, QueuesTrans, ZenonT(30)
  <1>11. Queues(d, c) /\ c \in DevType
    BY <1>3, <1>5, <1>10, QueuesTrans, DevFields
  <1>12. e = [c EXCEPT !.home = home, !.sm = sm]
    BY <1>2, <1>4, <1>8 DEF state_bridge_poll
  <1>13. e \in DevType
    BY <1>11, <1>12, ZenonT(30) DEF DevType
  <1>14. /\ SameDoorbell(c, e) /\ e.resp = c.resp /\ e.held = c.held
         /\ e.ind_queue = c.ind_queue /\ e.sms = c.sms
    BY <1>11, <1>12 DEF DevType, SameDoorbell
  <1> QED
    BY <1>10, <1>11, <1>13, <1>14, FlagsOnly, QueuesTrans

\* After the tick of a configured device a waiting message has its doorbell.
LEMMA TickGood ==
  ASSUME NEW d, Good(d), ~d.ep0_get_in_progress, NEW home \in BOOLEAN, NEW sm \in SmStates,
         NEW e, e = core_ep0_tick(d, home, sm)
  PROVE  /\ Good(e) /\ Queues(d, e)
         /\ e.eps_enabled /\ e.resp # <<>> => e.doorbell
  <1>1. PICK p : p = state_bridge_poll(d, home, sm)
    OBVIOUS
  <1>2. Good(p) /\ Queues(d, p)
    BY <1>1, PollGood
  <1>3. PICK q : q = drain_pending_indications(p)
    OBVIOUS
  <1>4. Good(q) /\ Queues(d, q)
    BY <1>2, <1>3, DrainGood, QueuesTrans
  <1>5. CASE q.resp = <<>>
    <2>1. e = q
      BY <1>1, <1>3, <1>5, ZenonT(30) DEF core_ep0_tick
    <2> QED
      BY <1>4, <1>5, <2>1
  <1>6. CASE q.resp # <<>>
    <2>1. PICK m : m = mbim_mark_notification_needed(q)
      OBVIOUS
    <2>2. Good(m) /\ Queues(d, m) /\ m.resp = q.resp /\ m.notif_pending
      BY <1>4, <2>1, MarkGood, QueuesTrans
    <2>3. e = mbim_try_send_deferred_notification(m)
      BY <1>1, <1>3, <1>6, <2>1 DEF core_ep0_tick
    <2>4. /\ Good(e) /\ Queues(m, e)
          /\ m.eps_enabled /\ m.notif_pending /\ ~m.ep0_get_in_progress /\ m.resp # <<>>
               => e.doorbell
      BY <2>2, <2>3, TrySendGood
    <2>5. m.eps_enabled = e.eps_enabled /\ ~m.ep0_get_in_progress
      BY <2>2, <2>4 DEF Queues
    <2> QED
      BY <1>6, <2>2, <2>4, <2>5, QueuesTrans
  <1> QED
    BY <1>5, <1>6

\* A GET takes a message, gives a held command its turn when that was the last,
\* and leaves the doorbell to the next tick.
LEMMA GetGood ==
  ASSUME NEW d, Good(d), d.held # <<>> => d.resp # <<>>,
         NEW e, e = core_on_get_encapsulated_response(d)
  PROVE  /\ Good(e) /\ ~e.ep0_get_in_progress /\ ~e.notif_armed
         /\ e.sms <= d.sms
         /\ e.held # <<>> => e.resp # <<>>
  <1> DEFINE C == [kind: Commands, tid: 1..MaxMessages]
             left == IF d.resp = <<>> THEN d.resp ELSE Tail(d.resp)
  <1>1. /\ d \in DevType /\ d.resp \in Seq(Items) /\ Len(d.resp) \in Nat
        /\ d.held \in Seq(C) /\ Len(d.held) \in Nat /\ d.sms \in Nat
    BY DevFields, ZenonT(30)
  <1>2. PICK in : in = [d EXCEPT !.resp = left, !.ep0_get_in_progress = TRUE,
                                 !.notif_armed = FALSE]
    OBVIOUS
  <1>3. left \in Seq(Items) /\ Len(left) < RESP_QUEUE_SIZE
    <2>1. Len(d.resp) < RESP_QUEUE_SIZE
      BY DEF Good
    <2>2. CASE d.resp = <<>>
      BY <1>1, <2>1, <2>2
    <2>3. CASE d.resp # <<>>
      <3>1. Tail(d.resp) \in Seq(Items) /\ Len(Tail(d.resp)) = Len(d.resp) - 1
        BY <1>1, <2>3, HeadTailProperties
      <3> QED
        BY <1>1, <2>1, <2>3, <3>1, Sizes
    <2> QED
      BY <2>2, <2>3
  <1> HIDE DEF left
  <1>4. in \in DevType
    BY <1>1, <1>2, <1>3, ZenonT(30) DEF DevType
  <1>5. /\ in.resp = left /\ in.held = d.held /\ in.ind_queue = d.ind_queue
        /\ in.sms = d.sms /\ in.ep0_get_in_progress = TRUE /\ in.notif_armed = FALSE
    BY <1>1, <1>2 DEF DevType
  <1>6. Good(in)
    BY <1>3, <1>4, <1>5 DEF Good
  <1>7. PICK served : served = IF in.resp = <<>> /\ in.held # <<>>
                               THEN mbim_process_held_command(in) ELSE in
    OBVIOUS
  <1>8. /\ Good(served) /\ served.sms <= d.sms
        /\ served.ep0_get_in_progress = TRUE /\ ~served.notif_armed
        /\ served.held # <<>> => served.resp # <<>>
    <2>1. CASE in.resp = <<>> /\ in.held # <<>>
      <3>1. Head(in.held) \in C /\ Tail(in.held) \in Seq(C) /\ Len(Tail(in.held)) = Len(in.held) - 1
        BY <1>1, <1>5, <2>1, HeadTailProperties, ZenonT(30)
      <3>2. PICK t : t = [in EXCEPT !.held = Tail(in.held)]
        BY ZenonT(30)
      <3>3. t \in DevType
        BY <1>4, <3>1, <3>2, ZenonT(30) DEF DevType
      <3>4. /\ t.held = Tail(in.held) /\ t.resp = in.resp /\ t.ind_queue = in.ind_queue
            /\ t.sms = in.sms /\ SameDoorbell(in, t)
        BY <1>4, <3>2 DEF DevType, SameDoorbell
      <3>5. Len(Tail(in.held)) < HELD_QUEUE_SIZE
        <4>1. Len(in.held) < HELD_QUEUE_SIZE /\ Len(in.held) \in Nat
          BY <1>1, <1>5 DEF Good
        <4> QED
          BY <3>1, <4>1, Sizes
      <3>6. Good(t)
        BY <1>6, <3>3, <3>4, <3>5 DEF Good, SameDoorbell
      <3>7. served = prepare_mbim_response(t, Head(in.held).kind, Head(in.held).tid)
        BY <1>7, <2>1, <3>2 DEF mbim_process_held_command
      <3>8. Head(in.held).kind \in Commands /\ Head(in.held).tid \in 1..MaxMessages
        BY <3>1
      <3>9. Head(in.held).kind # "close"
        BY <3>8, ZenonT(30) DEF Commands
      <3>10. Good(served) /\ Queues(t, served) /\ served.resp # <<>>
        BY <3>6, <3>7, <3>8, <3>9, PrepareGood
      <3>11. t.ep0_get_in_progress = TRUE /\ ~t.notif_armed /\ t.sms = d.sms
        BY <1>5, <3>4 DEF SameDoorbell
      <3>12. served.sms <= d.sms
        BY <3>10, <3>11 DEF Queues
      <3>13. served.ep0_get_in_progress = TRUE /\ ~served.notif_armed
        BY <3>10, <3>11, Zenon DEF Queues
      <3> QED
        BY <3>10, <3>12, <3>13
    <2>2. CASE ~(in.resp = <<>> /\ in.held # <<>>)
      <3>1. served = in
        BY <1>7, <2>2
      <3> QED
        BY <1>1, <1>5, <1>6, <2>2, <3>1
    <2> QED
      BY <2>1, <2>2, ZenonT(30)
  <1>9. PICK g : g = drain_pending_indications(served)
    OBVIOUS
  <1>10. Good(g) /\ Queues(served, g)
    BY <1>8, <1>9, DrainGood
  <1>11. ~g.notif_armed /\ (g.held # <<>> => g.resp # <<>>)
    BY <1>8, <1>10, Zenon DEF Queues
  <1>12. g.sms <= d.sms /\ g \in DevType
    <2>1. g.sms \in Nat /\ served.sms \in Nat /\ g.sms <= served.sms /\ g \in DevType
      BY <1>8, <1>10, DevFields DEF Queues
    <2> QED
      BY <1>1, <1>8, <2>1
  <1>13. PICK out : out = [g EXCEPT !.ep0_get_in_progress = FALSE]
    BY ZenonT(30)
  <1>14. out \in DevType
    BY <1>12, <1>13, ZenonT(30) DEF DevType
  <1>15. /\ out.resp = g.resp /\ out.held = g.held /\ out.ind_queue = g.ind_queue
         /\ out.sms = g.sms /\ out.notif_armed = g.notif_armed
         /\ out.ep0_get_in_progress = FALSE
    BY <1>12, <1>13 DEF DevType
  <1>16. Good(out) /\ ~out.notif_armed
    BY <1>10, <1>11, <1>14, <1>15 DEF Good
  <1>17. e = IF out.resp = <<>> THEN out ELSE mbim_mark_notification_needed(out)
    <2> DEFINE Serve(x) == IF x.resp = <<>> /\ x.held # <<>>
                           THEN mbim_process_held_command(x) ELSE x
               Drained(x) == [drain_pending_indications(x) EXCEPT !.ep0_get_in_progress = FALSE]
               Marked(x) == IF x.resp = <<>> THEN x ELSE mbim_mark_notification_needed(x)
    <2>1. e = Marked(Drained(Serve([d EXCEPT !.resp = IF @ = <<>> THEN @ ELSE Tail(@),
                                             !.ep0_get_in_progress = TRUE,
                                             !.notif_armed = FALSE])))
      BY DEF core_on_get_encapsulated_response
    <2>2. in = [d EXCEPT !.resp = IF @ = <<>> THEN @ ELSE Tail(@),
                         !.ep0_get_in_progress = TRUE, !.notif_armed = FALSE]
      BY <1>2 DEF left
    <2>3. Serve(in) = served
      BY <1>7
    <2>4. Drained(served) = out
      BY <1>9, <1>13
    <2> HIDE DEF Serve, Drained, Marked
    <2>5. e = Marked(out)
      BY <2>1, <2>2, <2>3, <2>4
    <2> QED
      BY <2>5 DEF Marked
  <1>18. e = out \/ e = [out EXCEPT !.notif_pending = TRUE]
    BY <1>17 DEF mbim_mark_notification_needed
  <1>19. /\ e.resp = out.resp /\ e.held = out.held /\ e.sms = out.sms
         /\ e.notif_armed = out.notif_armed
         /\ e.ep0_get_in_progress = out.ep0_get_in_progress
    BY <1>14, <1>18 DEF DevType
  <1>20. Good(e)
    BY <1>16, <1>17, MarkGood
  <1> QED
    BY <1>11, <1>12, <1>15, <1>16, <1>19, <1>20

\* A message from the host is answered, or held behind an answer.
LEMMA SendGood ==
  ASSUME NEW d, Good(d), ~d.ep0_get_in_progress, d.held # <<>> => d.resp # <<>>,
         NEW kind \in Messages, NEW tid \in 1..MaxMessages,
         NEW e, e = core_on_send_encapsulated_command(d, kind, tid)
  PROVE  /\ Good(e) /\ ~e.ep0_get_in_progress
         /\ e.sms <= d.sms
         /\ e.held # <<>> => e.resp # <<>>
  <1>1. d.sms \in Nat /\ d.resp \in Seq(Items) /\ kind \in Commands \cup {"open", "close"}
    BY DevFields, MbimAssumption, ZenonT(30)
  <1>2. CASE kind \in Commands /\ mbim_resp_has_command_response(d)
    <2>1. e = mbim_hold_command(d, kind, tid)
      BY <1>2 DEF core_on_send_encapsulated_command
    <2>2. Good(e) /\ SameDoorbell(d, e) /\ e.resp = d.resp /\ e.sms = d.sms
      BY <1>2, <2>1, HoldGood
    <2>3. d.resp # <<>>
      BY <1>1, <1>2 DEF mbim_resp_has_command_response
    <2>4. ~e.ep0_get_in_progress
      BY <2>2 DEF SameDoorbell
    <2> QED
      BY <1>1, <2>2, <2>3, <2>4
  <1>3. CASE ~(kind \in Commands /\ mbim_resp_has_command_response(d))
    <2>1. PICK p : p = prepare_mbim_response(d, kind, tid)
      OBVIOUS
    <2>2. Good(p) /\ Queues(d, p) /\ p.resp # <<>>
      BY <1>1, <2>1, PrepareGood
    <2>3. e = mbim_try_send_deferred_notification(p)
      BY <1>3, <2>1 DEF core_on_send_encapsulated_command
    <2>4. Good(e) /\ Queues(d, e) /\ e.resp # <<>>
      BY <2>2, <2>3, TrySendGood, QueuesTrans
    <2>5. ~e.ep0_get_in_progress
      BY <2>4, Zenon DEF Queues
    <2> QED
      BY <2>4, <2>5 DEF Queues
  <1> QED
    BY <1>2, <1>3

-----------------------------------------------------------------------------
(* The invariant and the theorems *)

HostType ==
    [sent: 0..MaxMessages, got: SUBSET (1..MaxMessages),
     reg: RegIndications, packet: PacketIndications]

MbimInv ==
    /\ Good(dev) /\ ~dev.ep0_get_in_progress
    /\ host \in HostType
    /\ events \in Nat /\ dev.sms + events <= MaxEvents
    /\ NothingStranded
    /\ HeldHasItsTurn

\* The initial state satisfies the invariant.
LEMMA MbimInitInv == Init => MbimInv
  <1> SUFFICES ASSUME Init PROVE MbimInv
    OBVIOUS
  <1>1. <<>> \in Seq(Items) /\ <<>> \in Seq([kind: Commands, tid: 1..MaxMessages])
        /\ <<>> \in Seq(BridgeIndications) /\ Len(<<>>) = 0 /\ 0 \in 0..MaxEvents
    BY Sizes
  <1>2. dev \in DevType
    BY <1>1 DEF Init, DevType, SmStates
  <1>3. /\ dev.resp = <<>> /\ dev.held = <<>> /\ dev.ind_queue = <<>> /\ dev.sms = 0
        /\ dev.notif_armed = FALSE /\ dev.ep0_get_in_progress = FALSE
    BY DEF Init
  <1>4. Good(dev)
    BY <1>1, <1>2, <1>3, Sizes DEF Good
  <1>5. host \in HostType
    BY Sizes DEF Init, HostType, RegIndications, PacketIndications
  <1>6. events \in Nat /\ dev.sms + events <= MaxEvents
    BY <1>3, Sizes DEF Init
  <1> QED
    BY <1>3, <1>4, <1>5, <1>6 DEF MbimInv, NothingStranded, HeldHasItsTurn

\* Every step preserves it.
LEMMA MbimNextInv == MbimInv /\ [Next]_vars => MbimInv'
  <1> SUFFICES ASSUME MbimInv, [Next]_vars PROVE MbimInv'
    OBVIOUS
  <1>0. /\ Good(dev) /\ ~dev.ep0_get_in_progress /\ dev \in DevType
        /\ dev.sms \in Nat /\ dev.sms \in 0..MaxEvents
        /\ host \in HostType /\ events \in Nat /\ dev.sms + events <= MaxEvents
        /\ (dev.held # <<>> => dev.resp # <<>>)
    BY DevFields, ZenonT(30) DEF MbimInv, HeldHasItsTurn
  <1>1. CASE Tick
    <2>1. PICK home \in BOOLEAN, sm \in SmStates :
            dev' = core_ep0_tick(dev, home, sm) /\ events' \in {events, events - 1}
              /\ (events' # events => events > 0)
      BY <1>1 DEF Tick
    <2>2. /\ Good(dev') /\ Queues(dev, dev')
          /\ dev'.eps_enabled /\ dev'.resp # <<>> => dev'.doorbell
      BY <1>0, <2>1, TickGood
    <2>3. dev'.sms \in Nat /\ dev'.sms <= dev.sms
      BY <2>2, DevFields DEF Queues
    <2>4. events' \in Nat /\ dev'.sms + events' <= MaxEvents
      BY <1>0, <2>1, <2>3, Sizes, SMTT(30)
    <2>5. ~dev'.ep0_get_in_progress /\ (dev'.held # <<>> => dev'.resp # <<>>)
      BY <1>0, <2>2, Zenon DEF Queues
    <2>6. host' = host
      BY <1>1 DEF Tick
    <2> QED
      BY <1>0, <2>2, <2>4, <2>5, <2>6 DEF MbimInv, NothingStranded, HeldHasItsTurn
  <1>2. CASE NoEvent
    BY <1>2 DEF NoEvent, MbimInv, NothingStranded, HeldHasItsTurn
  <1>3. CASE SetConfiguration
    <2>1. /\ dev' = [dev EXCEPT !.eps_enabled = TRUE] /\ loop' = "tick"
          /\ UNCHANGED <<host, events>>
      BY <1>3 DEF SetConfiguration
    <2>2. dev' \in DevType
      BY <1>0, <2>1, ZenonT(30) DEF DevType
    <2>3. /\ dev'.resp = dev.resp /\ dev'.held = dev.held /\ dev'.sms = dev.sms
          /\ dev'.ind_queue = dev.ind_queue /\ dev'.notif_armed = dev.notif_armed
          /\ dev'.doorbell = dev.doorbell
          /\ dev'.ep0_get_in_progress = dev.ep0_get_in_progress
      BY <1>0, <2>1 DEF DevType
    <2>4. Good(dev')
      BY <1>0, <2>2, <2>3 DEF Good
    <2> QED
      BY <1>0, <2>1, <2>3, <2>4 DEF MbimInv, NothingStranded, HeldHasItsTurn
  <1>4. CASE HostSend
    <2>1. PICK kind \in Messages :
            dev' = core_on_send_encapsulated_command(dev, kind, host.sent + 1)
      BY <1>4 DEF HostSend
    <2>2. host.sent \in 0..MaxMessages /\ host.sent < MaxMessages
      BY <1>0, <1>4 DEF HostSend, HostType
    <2>3. host.sent + 1 \in 1..MaxMessages /\ host.sent + 1 \in 0..MaxMessages
      BY <2>2, Sizes
    <2>4. /\ Good(dev') /\ ~dev'.ep0_get_in_progress /\ dev'.sms <= dev.sms
          /\ dev'.held # <<>> => dev'.resp # <<>>
      BY <1>0, <2>1, <2>3, SendGood
    <2>5. host' \in HostType
      BY <1>0, <1>4, <2>3 DEF HostSend, HostType
    <2>6. dev'.sms \in Nat
      BY <2>4, DevFields
    <2>7. events' \in Nat /\ dev'.sms + events' <= MaxEvents
      BY <1>0, <1>4, <2>4, <2>6, Sizes, SMTT(30) DEF HostSend
    <2>8. loop' = "tick"
      BY <1>4 DEF HostSend
    <2> QED
      BY <2>4, <2>5, <2>7, <2>8 DEF MbimInv, NothingStranded, HeldHasItsTurn
  <1>5. CASE HostGet
    <2>1. PICK g : g = core_on_get_encapsulated_response(dev)
      OBVIOUS
    <2>2. /\ Good(g) /\ ~g.ep0_get_in_progress /\ ~g.notif_armed /\ g.sms <= dev.sms
          /\ g.held # <<>> => g.resp # <<>>
      BY <1>0, <2>1, GetGood
    <2>3. dev' = [g EXCEPT !.doorbell = FALSE] /\ g \in DevType /\ g.sms \in Nat
      BY <1>5, <2>1, <2>2, DevFields DEF HostGet
    <2>4. dev' \in DevType
      BY <2>3, ZenonT(30) DEF DevType
    <2>5. /\ dev'.resp = g.resp /\ dev'.held = g.held /\ dev'.sms = g.sms
          /\ dev'.ind_queue = g.ind_queue /\ dev'.notif_armed = g.notif_armed
          /\ dev'.ep0_get_in_progress = g.ep0_get_in_progress
      BY <2>3 DEF DevType
    <2>6. Good(dev')
      BY <2>2, <2>4, <2>5 DEF Good
    <2>7. host' \in HostType
      <3>1. CASE dev.resp = <<>>
        BY <1>0, <1>5, <3>1 DEF HostGet
      <3>2. CASE dev.resp # <<>>
        <4>1. host' = HostReads(host, Head(dev.resp))
          BY <1>5, <3>2 DEF HostGet
        <4>2. Head(dev.resp) \in Items
          BY <1>0, <3>2, DevFields, HeadTailProperties
        <4>3. {Head(dev.resp).tid} \ {0} \subseteq 1..MaxMessages
          BY <4>2 DEF Items
        <4> QED
          BY <1>0, <4>1, <4>3, ZenonT(30) DEF HostReads, HostType
      <3> QED
        BY <3>1, <3>2
    <2>8. events' \in Nat /\ dev'.sms + events' <= MaxEvents
      BY <1>0, <1>5, <2>2, <2>3, <2>5, Sizes, SMTT(30) DEF HostGet
    <2>9. loop' = "tick"
      BY <1>5 DEF HostGet
    <2> QED
      BY <2>2, <2>5, <2>6, <2>7, <2>8, <2>9 DEF MbimInv, NothingStranded, HeldHasItsTurn
  <1>6. CASE SmsArrives
    <2>1. /\ events > 0 /\ dev' = [dev EXCEPT !.sms = dev.sms + 1]
          /\ events' = events - 1 /\ UNCHANGED <<host, loop>>
      BY <1>6 DEF SmsArrives
    <2>2. /\ dev.sms + 1 \in 0..MaxEvents /\ events' \in Nat
          /\ (dev.sms + 1) + events' <= MaxEvents
      <3>1. ASSUME NEW n \in Nat, NEW k \in Nat, k > 0, n + k <= MaxEvents
            PROVE  n + 1 \in 0..MaxEvents /\ k - 1 \in Nat /\ (n + 1) + (k - 1) <= MaxEvents
        BY <3>1, Sizes
      <3> QED
        BY <1>0, <2>1, <3>1
    <2>3. dev' \in DevType
      BY <1>0, <2>1, <2>2, ZenonT(30) DEF DevType
    <2>4. /\ dev'.resp = dev.resp /\ dev'.held = dev.held /\ dev'.sms = dev.sms + 1
          /\ dev'.ind_queue = dev.ind_queue /\ SameDoorbell(dev, dev')
      BY <1>0, <2>1 DEF DevType, SameDoorbell
    <2>5. Good(dev')
      BY <1>0, <2>3, <2>4 DEF Good, SameDoorbell
    <2>6. NothingStranded' /\ HeldHasItsTurn' /\ ~dev'.ep0_get_in_progress
      BY <2>1, <2>4 DEF MbimInv, NothingStranded, HeldHasItsTurn, SameDoorbell
    <2> QED
      BY <1>0, <2>1, <2>2, <2>4, <2>5, <2>6 DEF MbimInv
  <1>7. CASE UNCHANGED vars
    BY <1>7 DEF vars, MbimInv, NothingStranded, HeldHasItsTurn
  <1> QED
    BY <1>1, <1>2, <1>3, <1>4, <1>5, <1>6, <1>7 DEF Next

\* The inductive invariant: the queues keep to their rings and a doorbell counted
\* as sent is one that the host holds.
THEOREM MbimInvariant == Spec => []MbimInv
  BY MbimInitInv, MbimNextInv, PTL DEF Spec

\* After every tick of a configured device the host holds a doorbell whenever a
\* message waits for it, for rings of any size (core_ep0_tick,
\* core_on_get_encapsulated_response).
THEOREM NoMessageStranded == Spec => []NothingStranded
  <1>1. MbimInv => NothingStranded
    BY DEF MbimInv
  <1> QED
    BY <1>1, MbimInvariant, PTL

\* A held command always has a message ahead of it, whose GET serves it
\* (mbim_hold_command, mbim_process_held_command).
THEOREM NoCommandStranded == Spec => []HeldHasItsTurn
  <1>1. MbimInv => HeldHasItsTurn
    BY DEF MbimInv
  <1> QED
    BY <1>1, MbimInvariant, PTL

-----------------------------------------------------------------------------
(* What the host is told *)

\* r is the queue of messages, q the bridge's ring behind it, base what the host
\* believes.  Of the indications of kind K, those outside G are out of date: each of
\* them has a later one behind it, and so has a belief that is out of date.
Current(r, q, base, K, G) ==
    /\ \A i \in 1..Len(q) : q[i] \in K \ G => \E j \in i+1..Len(q) : q[j] \in K
    /\ \A i \in 1..Len(r) : r[i].about \in K \ G =>
          \/ \E j \in i+1..Len(r) : r[j].about \in K
          \/ \E j \in 1..Len(q) : q[j] \in K
    /\ \/ base \in G
       \/ \E j \in 1..Len(r) : r[j].about \in K
       \/ \E j \in 1..Len(q) : q[j] \in K

\* What may be said of the registration and of the packet service.
RegNow(home) == {"searching", IF home THEN "home" ELSE "deregistered"}
PacketNow(sm) == IF sm = "active" THEN {"attached"} ELSE {"attaching", "detached"}

\* The host, who believes packet or reg, will have been told the state.
TellsPacket(d, packet, sm) ==
    Current(d.resp, d.ind_queue, packet, PacketIndications, PacketNow(sm))
TellsReg(d, reg, home) ==
    Current(d.resp, d.ind_queue, reg, RegIndications, RegNow(home))

\* A new indication is the last word.
LEMMA CurrentPush ==
  ASSUME NEW r \in Seq(Items), NEW q \in Seq(BridgeIndications), NEW base, NEW K, NEW G,
         NEW x \in BridgeIndications, x \in K, x \in G
  PROVE  Current(r, Append(q, x), base, K, G)
  <1> DEFINE a == Append(q, x)
  <1>1. /\ Len(q) \in Nat /\ Len(a) = Len(q) + 1 /\ a[Len(q) + 1] = x
        /\ \A i \in 1..Len(q) : a[i] = q[i]
    OBVIOUS
  <1> HIDE DEF a
  <1>2. \A i \in 1..Len(a) : a[i] \in K \ G => \E j \in i+1..Len(a) : a[j] \in K
    <2> SUFFICES ASSUME NEW i \in 1..Len(a), a[i] \in K \ G
                 PROVE  \E j \in i+1..Len(a) : a[j] \in K
      OBVIOUS
    <2>1. i # Len(q) + 1
      BY <1>1
    <2>2. Len(q) + 1 \in i+1..Len(a)
      BY <1>1, <2>1
    <2> QED
      BY <1>1, <2>2
  <1>3. \E j \in 1..Len(a) : a[j] \in K
    BY <1>1
  <1> QED
    BY <1>2, <1>3 DEF Current, a

\* An indication of another kind changes nothing.
LEMMA CurrentOther ==
  ASSUME NEW r \in Seq(Items), NEW q \in Seq(BridgeIndications), NEW base, NEW K, NEW G,
         NEW x \in BridgeIndications, x \notin K, Current(r, q, base, K, G)
  PROVE  Current(r, Append(q, x), base, K, G)
  <1> DEFINE a == Append(q, x)
  <1>1. /\ Len(q) \in Nat /\ Len(a) = Len(q) + 1 /\ a[Len(q) + 1] = x
        /\ \A i \in 1..Len(q) : a[i] = q[i]
    OBVIOUS
  <1> HIDE DEF a
  <1>2. \A i \in 1..Len(a) : a[i] \in K \ G => \E j \in i+1..Len(a) : a[j] \in K
    <2> SUFFICES ASSUME NEW i \in 1..Len(a), a[i] \in K \ G
                 PROVE  \E j \in i+1..Len(a) : a[j] \in K
      OBVIOUS
    <2>1. i \in 1..Len(q)
      BY <1>1
    <2>2. PICK j \in i+1..Len(q) : q[j] \in K
      BY <1>1, <2>1 DEF Current
    <2>3. j \in i+1..Len(a) /\ a[j] = q[j]
      BY <1>1, <2>1, <2>2
    <2> QED
      BY <2>2, <2>3
  <1>3. (\E j \in 1..Len(q) : q[j] \in K) => \E j \in 1..Len(a) : a[j] \in K
    <2> SUFFICES ASSUME NEW j \in 1..Len(q), q[j] \in K
                 PROVE  \E l \in 1..Len(a) : a[l] \in K
      OBVIOUS
    <2>1. j \in 1..Len(a) /\ a[j] = q[j]
      BY <1>1
    <2> QED
      BY <2>1
  <1> QED
    BY <1>2, <1>3 DEF Current, a

\* Messages of another kind are queued.
LEMMA CurrentQueue ==
  ASSUME NEW r \in Seq(Items), NEW q \in Seq(BridgeIndications), NEW base, NEW K, NEW G,
         NEW s \in Seq(Items), Len(s) >= Len(r),
         \A i \in 1..Len(r) : s[i] = r[i],
         \A i \in Len(r)+1..Len(s) : s[i].about \notin K,
         Current(r, q, base, K, G)
  PROVE  Current(s, q, base, K, G)
  <1>1. Len(r) \in Nat /\ Len(s) \in Nat
    OBVIOUS
  <1>2. \A i \in 1..Len(s) : s[i].about \in K \ G =>
          \/ \E j \in i+1..Len(s) : s[j].about \in K
          \/ \E j \in 1..Len(q) : q[j] \in K
    <2> SUFFICES ASSUME NEW i \in 1..Len(s), s[i].about \in K \ G,
                        ~ \E j \in 1..Len(q) : q[j] \in K
                 PROVE  \E j \in i+1..Len(s) : s[j].about \in K
      OBVIOUS
    <2>1. i \in 1..Len(r)
      BY <1>1
    <2>2. r[i].about \in K \ G
      BY <2>1
    <2>3. PICK j \in i+1..Len(r) : r[j].about \in K
      BY <2>1, <2>2 DEF Current
    <2>4. j \in i+1..Len(s) /\ s[j] = r[j]
      BY <1>1, <2>1, <2>3
    <2> QED
      BY <2>3, <2>4
  <1>3. (\E j \in 1..Len(r) : r[j].about \in K) => \E j \in 1..Len(s) : s[j].about \in K
    <2> SUFFICES ASSUME NEW j \in 1..Len(r), r[j].about \in K
                 PROVE  \E l \in 1..Len(s) : s[l].about \in K
      OBVIOUS
    <2>1. j \in 1..Len(s) /\ s[j] = r[j]
      BY <1>1
    <2> QED
      BY <2>1
  <1> QED
    BY <1>2, <1>3 DEF Current

\* The first n indications of the ring become messages.
LEMMA CurrentTake ==
  ASSUME NEW r \in Seq(Items), NEW q \in Seq(BridgeIndications), NEW base, NEW K, NEW G,
         NEW n \in Nat, n <= Len(q), NEW s \in Seq(Items), NEW p \in Seq(BridgeIndications),
         Len(s) = Len(r) + n, Len(p) = Len(q) - n,
         \A i \in 1..Len(r) : s[i] = r[i],
         \A i \in 1..n : s[Len(r) + i].about = q[i],
         \A i \in 1..Len(p) : p[i] = q[n + i],
         Current(r, q, base, K, G)
  PROVE  Current(s, p, base, K, G)
  <1>1. Len(r) \in Nat /\ Len(s) \in Nat /\ Len(q) \in Nat /\ Len(p) \in Nat
    OBVIOUS
  <1>2. ASSUME NEW i \in 1..Len(q), q[i] \in K
        PROVE  \/ i <= n /\ Len(r) + i \in 1..Len(s) /\ s[Len(r) + i].about \in K
               \/ i > n /\ i - n \in 1..Len(p) /\ p[i - n] \in K
    <2>1. CASE i <= n
      BY <1>1, <1>2, <2>1, SMTT(30)
    <2>2. CASE i > n
      <3>1. i - n \in 1..Len(p) /\ n + (i - n) = i
        BY <1>1, <2>2
      <3> QED
        BY <1>2, <2>2, <3>1, ZenonT(30)
    <2> QED
      BY <2>1, <2>2
  <1>3. \A i \in 1..Len(p) : p[i] \in K \ G => \E j \in i+1..Len(p) : p[j] \in K
    <2> SUFFICES ASSUME NEW i \in 1..Len(p), p[i] \in K \ G
                 PROVE  \E j \in i+1..Len(p) : p[j] \in K
      OBVIOUS
    <2>1. n + i \in 1..Len(q) /\ q[n + i] \in K \ G
      BY <1>1
    <2>2. PICK j \in (n+i)+1..Len(q) : q[j] \in K
      BY <2>1, ZenonT(30) DEF Current
    <2>3. j \in 1..Len(q) /\ j > n /\ j - n \in i+1..Len(p)
      BY <1>1, <2>2
    <2> QED
      BY <1>2, <2>2, <2>3
  <1>4. \A i \in 1..Len(s) : s[i].about \in K \ G =>
          \/ \E j \in i+1..Len(s) : s[j].about \in K
          \/ \E j \in 1..Len(p) : p[j] \in K
    <2> SUFFICES ASSUME NEW i \in 1..Len(s), s[i].about \in K \ G
                 PROVE  \/ \E j \in i+1..Len(s) : s[j].about \in K
                        \/ \E j \in 1..Len(p) : p[j] \in K
      BY ZenonT(30)
    <2>1. CASE i \in 1..Len(r)
      <3>1. r[i].about \in K \ G
        BY <2>1
      <3>2. CASE \E j \in i+1..Len(r) : r[j].about \in K
        <4>1. PICK j \in i+1..Len(r) : r[j].about \in K
          BY <3>2
        <4>2. j \in i+1..Len(s) /\ s[j] = r[j]
          BY <1>1, <2>1, <4>1
        <4> QED
          BY <4>1, <4>2
      <3>3. CASE \E j \in 1..Len(q) : q[j] \in K
        <4>1. PICK j \in 1..Len(q) : q[j] \in K
          BY <3>3, ZenonT(30)
        <4>2. Len(r) + j \in i+1..Len(r) + j
          BY <1>1, <2>1, <4>1
        <4>3. Len(r) + j \in 1..Len(s) => Len(r) + j \in i+1..Len(s)
          BY <1>1, <2>1, <4>1, SMTT(30)
        <4> QED
          BY <1>2, <4>1, <4>3, ZenonT(30)
      <3> QED
        BY <2>1, <3>1, <3>2, <3>3, ZenonT(30) DEF Current
    <2>2. CASE i \notin 1..Len(r)
      <3>1. PICK l \in 1..n : i = Len(r) + l
        <4>1. i - Len(r) \in 1..n /\ i = Len(r) + (i - Len(r))
          BY <1>1, <2>2, SMTT(30)
        <4> QED
          BY <4>1, ZenonT(30)
      <3>2. l \in 1..Len(q) /\ q[l] \in K \ G
        BY <1>1, <3>1, SMTT(30)
      <3>3. PICK j \in l+1..Len(q) : q[j] \in K
        BY <3>2, ZenonT(30) DEF Current
      <3>4. j \in 1..Len(q) /\ Len(r) + j > i
        BY <1>1, <3>1, <3>3, SMTT(30)
      <3>5. Len(r) + j \in 1..Len(s) => Len(r) + j \in i+1..Len(s)
        BY <1>1, <3>1, <3>3, <3>4, SMTT(30)
      <3> QED
        BY <1>2, <3>3, <3>4, <3>5, ZenonT(30)
    <2> QED
      BY <2>1, <2>2
  <1>5. \/ base \in G
        \/ \E j \in 1..Len(s) : s[j].about \in K
        \/ \E j \in 1..Len(p) : p[j] \in K
    <2>1. CASE base \in G
      BY <2>1
    <2>2. CASE \E j \in 1..Len(r) : r[j].about \in K
      <3>1. PICK j \in 1..Len(r) : r[j].about \in K
        BY <2>2, ZenonT(30)
      <3>2. j \in 1..Len(s) /\ s[j] = r[j]
        BY <1>1
      <3> QED
        BY <3>1, <3>2, ZenonT(30)
    <2>3. CASE \E j \in 1..Len(q) : q[j] \in K
      BY <1>2, <2>3, ZenonT(30)
    <2> QED
      BY <2>1, <2>2, <2>3 DEF Current
  <1> QED
    BY <1>3, <1>4, <1>5 DEF Current

\* An indication of another kind is withdrawn from the ring.
LEMMA CurrentRemove ==
  ASSUME NEW r \in Seq(Items), NEW q \in Seq(BridgeIndications), NEW base, NEW K, NEW G,
         NEW at \in 1..Len(q), q[at] \notin K, NEW p \in Seq(BridgeIndications),
         Len(p) = Len(q) - 1,
         \A i \in 1..at-1 : p[i] = q[i],
         \A i \in at..Len(p) : p[i] = q[i + 1],
         Current(r, q, base, K, G)
  PROVE  Current(r, p, base, K, G)
  <1>1. Len(q) \in Nat /\ Len(p) \in Nat
    OBVIOUS
  <1>2. ASSUME NEW i \in 1..Len(q), q[i] \in K
        PROVE  \/ i < at /\ i \in 1..Len(p) /\ p[i] \in K
               \/ i > at /\ i - 1 \in 1..Len(p) /\ p[i - 1] \in K
    <2>0. i # at
      BY <1>2
    <2>1. CASE i < at
      <3>1. i \in 1..at-1 /\ i \in 1..Len(p)
        BY <1>1, <2>1
      <3> QED
        BY <1>2, <2>1, <3>1
    <2>2. CASE i > at
      <3>1. i - 1 \in at..Len(p) /\ i - 1 \in 1..Len(p) /\ (i - 1) + 1 = i
        BY <1>1, <2>2
      <3> QED
        BY <1>2, <2>2, <3>1
    <2> QED
      BY <2>0, <2>1, <2>2
  <1>3. \A i \in 1..Len(p) : p[i] \in K \ G => \E j \in i+1..Len(p) : p[j] \in K
    <2> SUFFICES ASSUME NEW i \in 1..Len(p), p[i] \in K \ G
                 PROVE  \E j \in i+1..Len(p) : p[j] \in K
      BY ZenonT(30)
    <2>1. CASE i < at
      <3>1. i \in 1..at-1 /\ i \in 1..Len(q)
        BY <1>1, <2>1
      <3>2. PICK j \in i+1..Len(q) : q[j] \in K
        BY <3>1, ZenonT(30) DEF Current
      <3>3. j \in 1..Len(q) /\ j # at
        BY <1>1, <3>1, <3>2
      <3>4. (j \in 1..Len(p) => j \in i+1..Len(p)) /\ (j > at => j - 1 \in i+1..Len(p))
        BY <1>1, <2>1, <3>2, <3>3, SMTT(30)
      <3> QED
        BY <1>2, <3>2, <3>3, <3>4, ZenonT(30)
    <2>2. CASE i >= at
      <3>1. i \in at..Len(p) /\ i + 1 \in 1..Len(q)
        BY <1>1, <2>2, SMTT(30)
      <3>2. PICK j \in (i+1)+1..Len(q) : q[j] \in K
        BY <3>1, ZenonT(30) DEF Current
      <3>3. j \in 1..Len(q) /\ j > at /\ j - 1 \in i+1..Len(p)
        BY <1>1, <2>2, <3>1, <3>2, SMTT(30)
      <3> QED
        BY <1>2, <3>2, <3>3
    <2> QED
      BY <1>1, <2>1, <2>2
  <1>4. (\E j \in 1..Len(q) : q[j] \in K) => \E j \in 1..Len(p) : p[j] \in K
    BY <1>2, ZenonT(30)
  <1> QED
    BY <1>3, <1>4, ZenonT(30) DEF Current

\* The host reads the next message.
LEMMA CurrentRead ==
  ASSUME NEW r \in Seq(Items), r # <<>>, NEW q \in Seq(BridgeIndications), NEW base,
         NEW K, NEW G, Current(r, q, base, K, G), NEW next,
         next = IF Head(r).about \in K THEN Head(r).about ELSE base
  PROVE  Current(Tail(r), q, next, K, G)
  <1> DEFINE t == Tail(r)
  <1>1. /\ Len(r) \in Nat /\ Len(r) > 0 /\ Len(t) = Len(r) - 1 /\ Head(r) = r[1]
        /\ \A i \in 1..Len(t) : t[i] = r[i + 1]
    BY HeadTailProperties
  <1> HIDE DEF t
  <1>2. ASSUME NEW i \in 1..Len(r), i # 1, r[i].about \in K
        PROVE  i - 1 \in 1..Len(t) /\ t[i - 1].about \in K
    <2>1. i - 1 \in 1..Len(t) /\ (i - 1) + 1 = i
      BY <1>1, <1>2
    <2> QED
      BY <1>1, <1>2, <2>1
  <1>3. \A i \in 1..Len(t) : t[i].about \in K \ G =>
          \/ \E j \in i+1..Len(t) : t[j].about \in K
          \/ \E j \in 1..Len(q) : q[j] \in K
    <2> SUFFICES ASSUME NEW i \in 1..Len(t), t[i].about \in K \ G,
                        ~ \E j \in 1..Len(q) : q[j] \in K
                 PROVE  \E j \in i+1..Len(t) : t[j].about \in K
      OBVIOUS
    <2>1. i + 1 \in 1..Len(r) /\ r[i + 1].about \in K \ G
      BY <1>1, SMTT(30)
    <2>2. PICK j \in (i+1)+1..Len(r) : r[j].about \in K
      BY <2>1 DEF Current
    <2>3. j \in 1..Len(r) /\ j # 1 /\ j - 1 \in i+1..Len(t)
      BY <1>1, <2>1, <2>2
    <2> QED
      BY <1>2, <2>2, <2>3
  <1>4. \/ next \in G
        \/ \E j \in 1..Len(t) : t[j].about \in K
        \/ \E j \in 1..Len(q) : q[j] \in K
    <2>1. CASE r[1].about \in K
      <3>1. next = r[1].about
        BY <1>1, <2>1
      <3>2. CASE r[1].about \in G
        BY <3>1, <3>2
      <3>3. CASE r[1].about \notin G
        <4>1. 1 \in 1..Len(r)
          BY <1>1
        <4>2. \/ \E j \in 1+1..Len(r) : r[j].about \in K
              \/ \E j \in 1..Len(q) : q[j] \in K
          BY <2>1, <3>3, <4>1 DEF Current
        <4>3. \A j \in 1+1..Len(r) : j \in 1..Len(r) /\ j # 1
          BY <1>1
        <4> QED
          BY <1>2, <4>2, <4>3
      <3> QED
        BY <3>2, <3>3
    <2>2. CASE r[1].about \notin K
      <3>1. next = base
        BY <1>1, <2>2
      <3>2. CASE \E j \in 1..Len(r) : r[j].about \in K
        <4>1. PICK j \in 1..Len(r) : r[j].about \in K
          BY <3>2
        <4>2. j # 1
          BY <2>2, <4>1
        <4> QED
          BY <1>2, <4>1, <4>2
      <3> QED
        BY <3>1, <3>2 DEF Current
    <2> QED
      BY <2>1, <2>2
  <1> QED
    BY <1>3, <1>4 DEF Current, t

\* No message and no held command carries a transaction above k.
Upto(d, k) ==
    /\ \A i \in 1..Len(d.resp) : d.resp[i].tid <= k
    /\ \A i \in 1..Len(d.held) : d.held[i].tid <= k

\* From d to e nothing of kind K is lost on its way, and no transaction is made up.
Carries(d, e, base, K, G, k) ==
    /\ e.home = d.home /\ e.sm = d.sm
    /\ Current(d.resp, d.ind_queue, base, K, G) => Current(e.resp, e.ind_queue, base, K, G)
    /\ Upto(d, k) => Upto(e, k)

Kinds == {RegIndications, PacketIndications}

\* What else is queued for the host is of neither kind.
LEMMA OtherKinds ==
  ASSUME NEW K \in Kinds
  PROVE  /\ "qmux" \notin K /\ "lteAttach" \notin K /\ "smsStored" \notin K
         /\ "smsRead" \notin K /\ "done" \notin K
         /\ ("attaching" \in K => K = PacketIndications)
         /\ ("searching" \in K => K = RegIndications)
  BY DEF Kinds, RegIndications, PacketIndications

\* An operator that leaves the queues alone.
LEMMA SameQueuesCarry ==
  ASSUME NEW d, NEW e, NEW base, NEW K, NEW G, NEW k,
         e.home = d.home, e.sm = d.sm, e.resp = d.resp, e.held = d.held,
         e.ind_queue = d.ind_queue
  PROVE  Carries(d, e, base, K, G, k)
  BY DEF Carries, Upto

\* A message is queued, or dropped where the queue is full.
LEMMA EnqueueCarries ==
  ASSUME NEW d, Good(d), NEW base, NEW K, NEW G, NEW k \in Nat,
         NEW item \in Items, item.about \notin K, item.tid <= k,
         NEW e, e = mbim_resp_enqueue(d, item)
  PROVE  Carries(d, e, base, K, G, k) /\ e.ind_queue = d.ind_queue
  <1>1. /\ d \in DevType /\ d.resp \in Seq(Items) /\ Len(d.resp) \in Nat
        /\ d.ind_queue \in Seq(BridgeIndications)
    BY DevFields
  <1>2. CASE RespRoom(d) > 0
    <2> DEFINE a == Append(d.resp, item)
    <2>1. e = [d EXCEPT !.resp = a]
      BY <1>2 DEF mbim_resp_enqueue
    <2>2. /\ a \in Seq(Items) /\ Len(a) = Len(d.resp) + 1 /\ a[Len(d.resp) + 1] = item
          /\ \A i \in 1..Len(d.resp) : a[i] = d.resp[i]
      BY <1>1
    <2> HIDE DEF a
    <2>3. /\ e.resp = a /\ e.held = d.held /\ e.ind_queue = d.ind_queue
          /\ e.home = d.home /\ e.sm = d.sm
      BY <1>1, <2>1 DEF DevType
    <2>4. \A i \in Len(d.resp)+1..Len(a) : a[i] = item
      BY <1>1, <2>2
    <2>5. Len(a) >= Len(d.resp)
      BY <1>1, <2>2
    <2>6. Current(d.resp, d.ind_queue, base, K, G) => Current(a, d.ind_queue, base, K, G)
      BY <1>1, <2>2, <2>4, <2>5, CurrentQueue, ZenonT(30)
    <2>7. Upto(d, k) => Upto(e, k)
      <3> SUFFICES ASSUME Upto(d, k), NEW i \in 1..Len(a) PROVE a[i].tid <= k
        BY <2>3 DEF Upto
      <3>1. i \in 1..Len(d.resp) \/ i = Len(d.resp) + 1
        BY <1>1, <2>2, SMTT(30)
      <3> QED
        BY <2>2, <3>1, ZenonT(30) DEF Upto
    <2> QED
      BY <2>3, <2>6, <2>7 DEF Carries
  <1>3. CASE ~(RespRoom(d) > 0)
    <2>1. e = [d EXCEPT !.dropped = d.dropped \cup ({item.tid} \ {0})]
      BY <1>3 DEF mbim_resp_enqueue
    <2>2. /\ e.resp = d.resp /\ e.held = d.held /\ e.ind_queue = d.ind_queue
          /\ e.home = d.home /\ e.sm = d.sm
      BY <1>1, <2>1, ZenonT(30) DEF DevType
    <2> QED
      BY <2>2, SameQueuesCarry
  <1> QED
    BY <1>2, <1>3

\* notif_pending is set.
LEMMA MarkCarries ==
  ASSUME NEW d, Good(d), NEW base, NEW K, NEW G, NEW k,
         NEW e, e = mbim_mark_notification_needed(d)
  PROVE  Carries(d, e, base, K, G, k) /\ e.ind_queue = d.ind_queue
  <1>1. d \in DevType /\ e = [d EXCEPT !.notif_pending = TRUE]
    BY DevFields DEF mbim_mark_notification_needed
  <1>2. /\ e.resp = d.resp /\ e.held = d.held /\ e.ind_queue = d.ind_queue
        /\ e.home = d.home /\ e.sm = d.sm
    BY <1>1 DEF DevType
  <1> QED
    BY <1>2, SameQueuesCarry

\* A message is queued and the host is to be told.
LEMMA QueueAndMarkCarries ==
  ASSUME NEW d, Good(d), NEW base, NEW K, NEW G, NEW k \in Nat,
         NEW item \in Items, item.about \notin K, item.tid <= k,
         NEW e, e = mbim_mark_notification_needed(mbim_resp_enqueue(d, item))
  PROVE  Carries(d, e, base, K, G, k) /\ e.ind_queue = d.ind_queue
  <1>1. PICK q : q = mbim_resp_enqueue(d, item)
    BY ZenonT(30)
  <1>2. Good(q) /\ Carries(d, q, base, K, G, k) /\ q.ind_queue = d.ind_queue
    BY <1>1, EnqueueGood, EnqueueCarries
  <1>3. Carries(q, e, base, K, G, k) /\ e.ind_queue = q.ind_queue
    BY <1>1, <1>2, MarkCarries
  <1> QED
    BY <1>2, <1>3 DEF Carries

\* The doorbell is rung, or not.
LEMMA TrySendCarries ==
  ASSUME NEW d, Good(d), NEW base, NEW K, NEW G, NEW k,
         NEW e, e = mbim_try_send_deferred_notification(d)
  PROVE  Carries(d, e, base, K, G, k) /\ e.ind_queue = d.ind_queue
  <1>1. d \in DevType
    BY DevFields
  <1>2. \/ e = d
        \/ e = [d EXCEPT !.notif_pending = FALSE]
        \/ e = [d EXCEPT !.notif_pending = FALSE, !.notif_armed = TRUE, !.doorbell = TRUE]
    BY DEF mbim_try_send_deferred_notification
  <1>3. /\ e.resp = d.resp /\ e.held = d.held /\ e.ind_queue = d.ind_queue
        /\ e.home = d.home /\ e.sm = d.sm
    BY <1>1, <1>2, ZenonT(30) DEF DevType
  <1> QED
    BY <1>3, SameQueuesCarry

\* The indication of QMI_CTL_SYNC, and LTE_ATTACH_STATUS.
LEMMA DrainFlagsCarry ==
  ASSUME NEW d, Good(d), NEW base, NEW K \in Kinds, NEW G, NEW k \in Nat,
         NEW e, e = DrainQmux(d) \/ e = DrainLteAttach(d)
  PROVE  Carries(d, e, base, K, G, k) /\ e.ind_queue = d.ind_queue
  <1>1. CASE e = d
    BY <1>1, SameQueuesCarry
  <1>2. ASSUME NEW about \in {"qmux", "lteAttach"}, NEW q, q = Emit(d, about)
        PROVE  /\ q \in DevType
               /\ Carries(d, q, base, K, G, k) /\ q.ind_queue = d.ind_queue
    <2>1. Indication(about) \in Items
      BY ItemsTyped DEF Indications
    <2>2. Indication(about).about \notin K /\ Indication(about).tid <= k
      BY OtherKinds DEF Indication
    <2>3. Good(q)
      BY <1>2, <2>1, QueueAndMark DEF Emit
    <2> QED
      BY <1>2, <2>1, <2>2, <2>3, QueueAndMarkCarries, DevFields, ZenonT(30) DEF Emit
  <1>3. CASE e = [Emit(d, "qmux") EXCEPT !.sync_ind_pending = FALSE, !.sync_ind_sent = TRUE]
    <2>1. PICK q : q = Emit(d, "qmux")
      OBVIOUS
    <2>2. /\ q \in DevType /\ Carries(d, q, base, K, G, k) /\ q.ind_queue = d.ind_queue
          /\ e = [q EXCEPT !.sync_ind_pending = FALSE, !.sync_ind_sent = TRUE]
      BY <1>2, <1>3, <2>1
    <2>3. /\ e.resp = q.resp /\ e.held = q.held /\ e.ind_queue = q.ind_queue
          /\ e.home = q.home /\ e.sm = q.sm
      BY <2>2 DEF DevType
    <2> QED
      BY <2>2, <2>3 DEF Carries, Upto
  <1>4. CASE e = [Emit(d, "lteAttach") EXCEPT !.pending_lte_attach_status_ind = FALSE]
    <2>1. PICK q : q = Emit(d, "lteAttach")
      OBVIOUS
    <2>2. /\ q \in DevType /\ Carries(d, q, base, K, G, k) /\ q.ind_queue = d.ind_queue
          /\ e = [q EXCEPT !.pending_lte_attach_status_ind = FALSE]
      BY <1>2, <1>4, <2>1
    <2>3. /\ e.resp = q.resp /\ e.held = q.held /\ e.ind_queue = q.ind_queue
          /\ e.home = q.home /\ e.sm = q.sm
      BY <2>2 DEF DevType
    <2> QED
      BY <2>2, <2>3 DEF Carries, Upto
  <1> QED
    BY <1>1, <1>3, <1>4 DEF DrainQmux, DrainLteAttach

\* n messages without a transaction are queued behind the others.
LEMMA UptoMany ==
  ASSUME NEW r \in Seq(Items), NEW n \in Nat, NEW more \in [1..n -> Items]
  PROVE  /\ r \o more \in Seq(Items) /\ Len(r \o more) = Len(r) + n
         /\ \A i \in 1..Len(r) : (r \o more)[i] = r[i]
         /\ \A i \in 1..n : (r \o more)[Len(r) + i] = more[i]
  <1>1. more \in Seq(Items) /\ Len(more) = n
    BY FunctionIsSeq
  <1>2. Len(r) \in Nat
    OBVIOUS
  <1>3. /\ r \o more \in Seq(Items) /\ Len(r \o more) = Len(r) + n
        /\ \A i \in 1..Len(r) + n : (r \o more)[i] = IF i <= Len(r) THEN r[i]
                                                     ELSE more[i - Len(r)]
    BY <1>1, <1>2, ConcatProperties, ZenonT(30)
  <1>4. \A i \in 1..Len(r) : (r \o more)[i] = r[i]
    BY <1>2, <1>3
  <1>5. ASSUME NEW i \in 1..n PROVE (r \o more)[Len(r) + i] = more[i]
    <2>1. Len(r) + i \in 1..Len(r) + n /\ ~(Len(r) + i <= Len(r)) /\ (Len(r) + i) - Len(r) = i
      BY <1>2
    <2> QED
      BY <1>3, <2>1, ZenonT(30)
  <1> QED
    BY <1>3, <1>4, <1>5

\* The first entries of the bridge's ring become messages.
LEMMA DrainBridgeCarries ==
  ASSUME NEW d, Good(d), NEW base, NEW K, NEW G, NEW k \in Nat,
         NEW e, e = DrainBridge(d)
  PROVE  Carries(d, e, base, K, G, k) /\ Len(e.ind_queue) <= Len(d.ind_queue)
  <1> DEFINE q == d.ind_queue
             n == IF Len(q) <= RespRoom(d) THEN Len(q) ELSE RespRoom(d)
             taken == SubSeq(q, 1, n)
             more == [i \in 1..n |-> Indication(taken[i])]
             rest == SubSeq(q, n + 1, Len(q))
  <1>1. /\ d \in DevType /\ q \in Seq(BridgeIndications) /\ Len(q) \in Nat
        /\ RespRoom(d) \in Nat /\ d.resp \in Seq(Items) /\ Len(d.resp) \in Nat
    BY DevFields
  <1>2. n \in Nat /\ n <= Len(q)
    BY <1>1, SMTT(30)
  <1>3. /\ e.resp = d.resp \o more /\ e.held = d.held /\ e.ind_queue = rest
        /\ e.home = d.home /\ e.sm = d.sm
    <2>1. PICK lte, pend : e = [d EXCEPT !.resp = d.resp \o more, !.ind_queue = rest,
                          !.notif_pending = pend, !.pending_lte_attach_status_ind = lte]
      BY ZenonT(30) DEF DrainBridge, TakeBridge
    <2> HIDE DEF more, rest
    <2> QED
      BY <1>1, <2>1, ZenonT(30) DEF DevType
  <1> HIDE DEF n
  <1>4. /\ \A i \in 1..n : taken[i] = q[i]
        /\ \A i \in 1..n : taken[i] \in BridgeIndications
    BY <1>1, <1>2
  <1>5. /\ more \in [1..n -> Items]
        /\ \A i \in 1..n : more[i].about = q[i] /\ more[i].tid = 0
    BY <1>4, ItemsTyped, ZenonT(30) DEF Indications, Indication
  <1>6. /\ rest \in Seq(BridgeIndications) /\ Len(rest) = Len(q) - n
        /\ \A i \in 1..Len(rest) : rest[i] = q[n + i]
    <2>1. \A i \in n+1..Len(q) : q[i] \in BridgeIndications
      BY <1>1, <1>2, SMTT(30)
    <2>2. /\ rest \in Seq(BridgeIndications)
          /\ Len(rest) = IF n + 1 <= Len(q) THEN Len(q) - (n + 1) + 1 ELSE 0
          /\ \A i \in 1..Len(q) - (n + 1) + 1 : rest[i] = q[(n + 1) + i - 1]
      BY <1>1, <1>2, <2>1, SubSeqProperties, SMTT(30)
    <2> HIDE DEF rest, q
    <2>3. Len(rest) = Len(q) - n
      BY <1>1, <1>2, <2>2
    <2>4. ASSUME NEW i \in 1..Len(rest) PROVE rest[i] = q[n + i]
      <3>1. i \in 1..Len(q) - (n + 1) + 1 /\ (n + 1) + i - 1 = n + i
        BY <1>1, <1>2, <2>3
      <3> QED
        BY <2>2, <3>1
    <2> QED
      BY <2>2, <2>3, <2>4, ZenonT(30)
  <1> HIDE DEF more, rest, taken, q
  <1>7. /\ d.resp \o more \in Seq(Items) /\ Len(d.resp \o more) = Len(d.resp) + n
        /\ \A i \in 1..Len(d.resp) : (d.resp \o more)[i] = d.resp[i]
        /\ \A i \in 1..n : (d.resp \o more)[Len(d.resp) + i] = more[i]
    BY <1>1, <1>2, <1>5, UptoMany, ZenonT(30)
  <1>8. PICK s : s = d.resp \o more
    BY ZenonT(30)
  <1>9. /\ s \in Seq(Items) /\ Len(s) = Len(d.resp) + n
        /\ \A i \in 1..Len(d.resp) : s[i] = d.resp[i]
        /\ \A i \in 1..n : s[Len(d.resp) + i].about = q[i]
        /\ \A i \in 1..n : s[Len(d.resp) + i].tid = 0
    BY <1>5, <1>7, <1>8, ZenonT(30)
  <1>10. Current(d.resp, q, base, K, G) => Current(s, rest, base, K, G)
    <2>1. PICK r : r = d.resp
      BY ZenonT(30)
    <2>2. /\ r \in Seq(Items) /\ Len(s) = Len(r) + n
          /\ \A i \in 1..Len(r) : s[i] = r[i]
          /\ \A i \in 1..n : s[Len(r) + i].about = q[i]
      BY <1>1, <1>9, <2>1
    <2>3. s \in Seq(Items) /\ q \in Seq(BridgeIndications)
      BY <1>1, <1>9, ZenonT(30)
    <2>4. ASSUME Current(r, q, base, K, G) PROVE Current(s, rest, base, K, G)
      BY <1>2, <1>6, <2>2, <2>3, <2>4, CurrentTake, ZenonT(120)
    <2> QED
      BY <2>1, <2>4
  <1>11. Upto(d, k) => Upto(e, k)
    <2> SUFFICES ASSUME Upto(d, k), NEW i \in 1..Len(s) PROVE s[i].tid <= k
      BY <1>3, <1>8 DEF Upto
    <2>1. CASE i \in 1..Len(d.resp)
      BY <1>9, <2>1 DEF Upto
    <2>2. CASE i \notin 1..Len(d.resp)
      <3>1. i - Len(d.resp) \in 1..n /\ Len(d.resp) + (i - Len(d.resp)) = i
        BY <1>1, <1>2, <1>9, <2>2, SMTT(30)
      <3>2. s[i].tid = 0
        BY <1>9, <3>1, ZenonT(30)
      <3> QED
        BY <3>2
    <2> QED
      BY <2>1, <2>2
  <1>12. Len(rest) <= Len(q)
    BY <1>1, <1>2, <1>6, SMTT(30)
  <1> QED
    BY <1>3, <1>8, <1>10, <1>11, <1>12, ZenonT(30) DEF Carries, q

\* Short messages become store-status indications.
LEMMA DrainSmsCarries ==
  ASSUME NEW d, Good(d), NEW base, NEW K \in Kinds, NEW G, NEW k \in Nat,
         NEW e, e = DrainSms(d)
  PROVE  Carries(d, e, base, K, G, k) /\ e.ind_queue = d.ind_queue
  <1> DEFINE n == IF d.sms <= RespRoom(d) THEN d.sms ELSE RespRoom(d)
             more == [i \in 1..n |-> Indication("smsStored")]
             pend == d.notif_pending \/ n > 0
             stored == [d EXCEPT !.resp = d.resp \o more, !.sms = d.sms - n,
                                 !.notif_pending = pend]
  <1>1. /\ d \in DevType /\ RespRoom(d) \in Nat /\ d.sms \in Nat /\ d.sms \in 0..MaxEvents
        /\ d.resp \in Seq(Items) /\ Len(d.resp) \in Nat
        /\ d.ind_queue \in Seq(BridgeIndications)
    BY DevFields
  <1>2. n \in Nat /\ n <= d.sms /\ n <= RespRoom(d)
    BY <1>1
  <1>3. e = IF n > 0 /\ RespRoom(stored) > 0 THEN Emit(stored, "smsRead") ELSE stored
    BY DEF DrainSms
  <1> HIDE DEF n
  <1>4. more \in [1..n -> Items] /\ \A i \in 1..n : more[i] = Indication("smsStored")
    BY ItemsTyped DEF Indications
  <1>5. /\ d.resp \o more \in Seq(Items) /\ Len(d.resp \o more) < RESP_QUEUE_SIZE
    BY <1>2, <1>4, AppendMany, ZenonT(30)
  <1>6. d.sms - n \in 0..MaxEvents
    BY <1>1, <1>2, Sizes
  <1>7. pend \in BOOLEAN
    <2>1. d.notif_pending \in BOOLEAN
      BY <1>1 DEF DevType
    <2> QED
      BY <2>1
  <1> HIDE DEF more, pend
  <1>8. stored \in DevType
    BY <1>1, <1>5, <1>6, <1>7, ZenonT(30) DEF DevType
  <1>9. /\ stored.resp = d.resp \o more /\ stored.held = d.held
        /\ stored.ind_queue = d.ind_queue /\ SameDoorbell(d, stored)
        /\ stored.home = d.home /\ stored.sm = d.sm
    BY <1>1 DEF DevType, SameDoorbell
  <1> HIDE DEF stored
  <1>10. Good(stored)
    BY <1>5, <1>8, <1>9, ZenonT(30) DEF Good, SameDoorbell
  <1>11. /\ Len(stored.resp) = Len(d.resp) + n
         /\ \A i \in 1..Len(d.resp) : stored.resp[i] = d.resp[i]
         /\ \A i \in Len(d.resp)+1..Len(stored.resp) :
               stored.resp[i] = Indication("smsStored")
    <2>1. /\ Len(d.resp \o more) = Len(d.resp) + n
          /\ \A i \in 1..Len(d.resp) : (d.resp \o more)[i] = d.resp[i]
          /\ \A i \in 1..n : (d.resp \o more)[Len(d.resp) + i] = more[i]
      BY <1>1, <1>2, <1>4, UptoMany
    <2>2. PICK s : s = d.resp \o more
      BY ZenonT(30)
    <2>3. ASSUME NEW i \in Len(d.resp)+1..Len(s) PROVE s[i] = Indication("smsStored")
      <3>1. i - Len(d.resp) \in 1..n /\ Len(d.resp) + (i - Len(d.resp)) = i
        BY <1>1, <1>2, <2>1, <2>2
      <3> QED
        BY <1>4, <2>1, <2>2, <3>1
    <2> QED
      BY <1>9, <2>1, <2>2, <2>3, ZenonT(30)
  <1>12. Indication("smsStored").about \notin K /\ Indication("smsStored").tid = 0
    BY OtherKinds DEF Indication
  <1>13. Current(d.resp, d.ind_queue, base, K, G)
            => Current(stored.resp, d.ind_queue, base, K, G)
    <2>1. Len(stored.resp) >= Len(d.resp) /\ stored.resp \in Seq(Items)
      BY <1>1, <1>2, <1>5, <1>9, <1>11, SMTT(30)
    <2> QED
      BY <1>1, <1>11, <1>12, <2>1, CurrentQueue, ZenonT(30)
  <1>14. Upto(d, k) => Upto(stored, k)
    <2> SUFFICES ASSUME Upto(d, k), NEW i \in 1..Len(stored.resp)
                 PROVE  stored.resp[i].tid <= k
      BY <1>9, ZenonT(30) DEF Upto
    <2>1. i \in 1..Len(d.resp) \/ i \in Len(d.resp)+1..Len(stored.resp)
      BY <1>1, <1>11
    <2> QED
      BY <1>11, <1>12, <2>1, SMTT(30) DEF Upto
  <1>15. Carries(d, stored, base, K, G, k)
    BY <1>9, <1>13, <1>14, ZenonT(30) DEF Carries
  <1>16. CASE e = Emit(stored, "smsRead")
    <2>1. Indication("smsRead") \in Items
      BY ItemsTyped DEF Indications
    <2>2. Indication("smsRead").about \notin K /\ Indication("smsRead").tid <= k
      BY OtherKinds DEF Indication
    <2>3. Carries(stored, e, base, K, G, k) /\ e.ind_queue = stored.ind_queue
      BY <1>10, <1>16, <2>1, <2>2, QueueAndMarkCarries, SMTT(30) DEF Emit
    <2> QED
      BY <1>9, <1>15, <2>3 DEF Carries
  <1> QED
    BY <1>3, <1>9, <1>15, <1>16, ZenonT(30)

\* The drain, of all four sources.
LEMMA DrainCarries ==
  ASSUME NEW d, Good(d), NEW base, NEW K \in Kinds, NEW G, NEW k \in Nat,
         NEW e, e = drain_pending_indications(d)
  PROVE  Carries(d, e, base, K, G, k) /\ Len(e.ind_queue) <= Len(d.ind_queue)
  <1>0. Len(d.ind_queue) \in Nat
    BY DevFields, ZenonT(30)
  <1>1. CASE d.held # <<>>
    BY <1>0, <1>1, SameQueuesCarry, SMTT(30) DEF drain_pending_indications
  <1>2. CASE d.held = <<>>
    <2>1. PICK a : a = DrainQmux(d)
      OBVIOUS
    <2>2. PICK b : b = DrainLteAttach(a)
      OBVIOUS
    <2>3. PICK c : c = DrainBridge(b)
      OBVIOUS
    <2>4. e = DrainSms(c)
      BY <1>2, <2>1, <2>2, <2>3 DEF drain_pending_indications
    <2>5. Good(a) /\ Carries(d, a, base, K, G, k) /\ a.ind_queue = d.ind_queue
      BY <2>1, DrainFlagsGood, DrainFlagsCarry
    <2>6. Good(b) /\ Carries(a, b, base, K, G, k) /\ b.ind_queue = a.ind_queue
      BY <2>2, <2>5, DrainFlagsGood, DrainFlagsCarry
    <2>7. /\ Good(c) /\ Carries(b, c, base, K, G, k)
          /\ Len(c.ind_queue) <= Len(b.ind_queue)
      BY <2>3, <2>6, DrainBridgeGood, DrainBridgeCarries
    <2>8. Carries(c, e, base, K, G, k) /\ e.ind_queue = c.ind_queue
      BY <2>4, <2>7, DrainSmsCarries
    <2> QED
      BY <2>5, <2>6, <2>7, <2>8 DEF Carries
  <1> QED
    BY <1>1, <1>2

\* The bridge's ring takes an indication that is up to date, or drops it.
LEMMA IndEnqueueCarries ==
  ASSUME NEW d, Good(d), NEW base, NEW K, NEW G, NEW k,
         NEW ind \in BridgeIndications, ind \in K => ind \in G,
         NEW e, e = ind_enqueue(d, ind)
  PROVE  /\ Carries(d, e, base, K, G, k) /\ e.held = d.held
         /\ Len(e.ind_queue) <= Len(d.ind_queue) + 1
  <1>1. /\ d \in DevType /\ d.ind_queue \in Seq(BridgeIndications)
        /\ Len(d.ind_queue) \in Nat /\ d.resp \in Seq(Items)
    BY DevFields
  <1>2. CASE e = d
    BY <1>1, <1>2, SameQueuesCarry, SMTT(30)
  <1>3. CASE e = [d EXCEPT !.ind_queue = Append(d.ind_queue, ind)]
    <2>1. /\ e.resp = d.resp /\ e.held = d.held /\ e.home = d.home /\ e.sm = d.sm
          /\ e.ind_queue = Append(d.ind_queue, ind)
      BY <1>1, <1>3 DEF DevType
    <2>2. Len(Append(d.ind_queue, ind)) = Len(d.ind_queue) + 1
      BY <1>1
    <2>3. Current(d.resp, d.ind_queue, base, K, G)
            => Current(d.resp, Append(d.ind_queue, ind), base, K, G)
      BY <1>1, CurrentPush, CurrentOther, ZenonT(30)
    <2> QED
      BY <1>1, <2>1, <2>2, <2>3 DEF Carries, Upto
  <1> QED
    BY <1>2, <1>3 DEF ind_enqueue

\* Where the ring has room, an indication is its last entry.
LEMMA IndEnqueueAppends ==
  ASSUME NEW d, Good(d), NEW ind \in BridgeIndications,
         Len(d.ind_queue) < IND_QUEUE_SIZE - 1,
         NEW e, e = ind_enqueue(d, ind)
  PROVE  /\ Len(e.ind_queue) = Len(d.ind_queue) + 1
         /\ e.ind_queue[Len(e.ind_queue)] = ind
  <1>1. /\ d \in DevType /\ d.ind_queue \in Seq(BridgeIndications)
        /\ Len(d.ind_queue) \in Nat
    BY DevFields
  <1>2. e = [d EXCEPT !.ind_queue = Append(d.ind_queue, ind)]
    BY DEF ind_enqueue
  <1>3. e.ind_queue = Append(d.ind_queue, ind)
    BY <1>1, <1>2 DEF DevType
  <1>4. /\ Len(Append(d.ind_queue, ind)) = Len(d.ind_queue) + 1
        /\ Append(d.ind_queue, ind)[Len(d.ind_queue) + 1] = ind
    BY <1>1
  <1> QED
    BY <1>3, <1>4, ZenonT(30)

\* Where the ring has room, an indication is the last word.
LEMMA IndEnqueueTells ==
  ASSUME NEW d, Good(d), NEW base, NEW K, NEW G, NEW ind \in BridgeIndications,
         Len(d.ind_queue) < IND_QUEUE_SIZE - 1, ind \in K, ind \in G,
         NEW e, e = ind_enqueue(d, ind)
  PROVE  Current(e.resp, e.ind_queue, base, K, G)
  <1>1. /\ d \in DevType /\ d.ind_queue \in Seq(BridgeIndications)
        /\ Len(d.ind_queue) \in Nat /\ d.resp \in Seq(Items)
    BY DevFields
  <1>2. e = [d EXCEPT !.ind_queue = Append(d.ind_queue, ind)]
    BY DEF ind_enqueue
  <1>3. e.resp = d.resp /\ e.ind_queue = Append(d.ind_queue, ind)
    BY <1>1, <1>2 DEF DevType
  <1>4. Current(d.resp, Append(d.ind_queue, ind), base, K, G)
    BY <1>1, CurrentPush, ZenonT(30)
  <1> QED
    BY <1>3, <1>4, ZenonT(30)

\* An indication of another kind is withdrawn from the ring.
LEMMA IndDropCarries ==
  ASSUME NEW d, Good(d), NEW base, NEW K, NEW G, NEW k, NEW ind,
         NEW e, e = ind_drop_first(d, ind)
  PROVE  /\ ind \notin K => Carries(d, e, base, K, G, k)
         /\ e.home = d.home /\ e.sm = d.sm /\ e.held = d.held /\ e.resp = d.resp
         /\ Len(e.ind_queue) <= Len(d.ind_queue)
         /\ (\E i \in 1..Len(d.ind_queue) : d.ind_queue[i] = ind)
              => Len(e.ind_queue) = Len(d.ind_queue) - 1
  <1> DEFINE q == d.ind_queue
             at == FirstOf(q, ind)
  <1>1. /\ d \in DevType /\ q \in Seq(BridgeIndications) /\ Len(q) \in Nat
        /\ d.resp \in Seq(Items) /\ DOMAIN q = 1..Len(q)
    BY DevFields, SMTT(30)
  <1>2. CASE \E i \in DOMAIN q : q[i] = ind
    <2>1. e = [d EXCEPT !.ind_queue = Without(q, at)]
      BY <1>2 DEF ind_drop_first
    <2>2. at \in 1..Len(q) /\ q[at] = ind
      BY <1>1, <1>2, FirstOccurs, ZenonT(30)
    <2> HIDE DEF at
    <2> DEFINE p == Without(q, at)
    <2>3. /\ p \in Seq(BridgeIndications) /\ Len(p) = Len(q) - 1
          /\ \A i \in 1..at-1 : p[i] = q[i]
          /\ \A i \in at..Len(p) : p[i] = q[i + 1]
      <3> DEFINE u == SubSeq(q, 1, at - 1)
                 v == SubSeq(q, at + 1, Len(q))
      <3>1. /\ u \in Seq(BridgeIndications) /\ Len(u) = at - 1
            /\ \A i \in 1..at-1 : u[i] = q[i]
        BY <1>1, <2>2
      <3>2. /\ v \in Seq(BridgeIndications) /\ Len(v) = Len(q) - at
            /\ \A i \in 1..Len(q) - at : v[i] = q[at + i]
        BY <1>1, <2>2
      <3>3. p = u \o v
        BY DEF Without
      <3> HIDE DEF u, v, p
      <3>4. /\ p \in Seq(BridgeIndications) /\ Len(p) = (at - 1) + (Len(q) - at)
            /\ \A i \in 1..(at - 1) + (Len(q) - at) :
                  p[i] = IF i <= at - 1 THEN u[i] ELSE v[i - (at - 1)]
        <4>1. /\ u \o v \in Seq(BridgeIndications) /\ Len(u \o v) = Len(u) + Len(v)
              /\ \A i \in 1..Len(u) + Len(v) :
                    (u \o v)[i] = IF i <= Len(u) THEN u[i] ELSE v[i - Len(u)]
          BY <3>1, <3>2, ConcatProperties, ZenonT(30)
        <4> QED
          BY <3>1, <3>2, <3>3, <4>1, ZenonT(30)
      <3>5. Len(p) = Len(q) - 1
        BY <1>1, <2>2, <3>4, SMTT(30)
      <3>6. ASSUME NEW i \in 1..at-1 PROVE p[i] = q[i]
        <4>1. i \in 1..(at - 1) + (Len(q) - at) /\ i <= at - 1
          BY <1>1, <2>2
        <4> QED
          BY <3>1, <3>4, <4>1, ZenonT(30)
      <3>7. ASSUME NEW i \in at..Len(p) PROVE p[i] = q[i + 1]
        <4>1. /\ i \in 1..(at - 1) + (Len(q) - at) /\ ~(i <= at - 1)
              /\ i - (at - 1) \in 1..Len(q) - at /\ at + (i - (at - 1)) = i + 1
          BY <1>1, <2>2, <3>5
        <4> QED
          BY <3>2, <3>4, <4>1, ZenonT(30)
      <3> QED
        BY <3>4, <3>5, <3>6, <3>7, ZenonT(30)
    <2> HIDE DEF p
    <2>4. /\ e.resp = d.resp /\ e.held = d.held /\ e.home = d.home /\ e.sm = d.sm
          /\ e.ind_queue = p
      BY <1>1, <2>1, ZenonT(30) DEF DevType, p
    <2>5. ind \notin K /\ Current(d.resp, q, base, K, G) => Current(d.resp, p, base, K, G)
      BY <1>1, <2>2, <2>3, CurrentRemove, ZenonT(30)
    <2> QED
      BY <1>1, <2>3, <2>4, <2>5, SMTT(30) DEF Carries, Upto
  <1>3. CASE ~(\E i \in DOMAIN q : q[i] = ind)
    <2>1. e = [d EXCEPT !.ind_queue = q]
      BY <1>3 DEF ind_drop_first
    <2>2. e = d
      BY <1>1, <2>1 DEF DevType
    <2> QED
      BY <1>1, <1>3, <2>2, SameQueuesCarry, SMTT(30)
  <1> QED
    BY <1>2, <1>3, ZenonT(30)

=============================================================================
