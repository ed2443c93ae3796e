--------------------------- MODULE MbimViewProofs ---------------------------
(***************************************************************************)
(* For queues of any size and any number of messages and events: the       *)
(* control channel answers only what was asked, and what it tells the host *)
(* through its two queues ends with the state of the engine.               *)
(*                                                                         *)
(* Of the indications on their way, every one that is out of date has a    *)
(* later one of its kind behind it, and so has a belief of the host that   *)
(* is out of date (Current).  No operator on the device disturbs this      *)
(* (Carries), and the bridge's poll re-establishes it for the new state,   *)
(* as long as its ring takes the indication.                               *)
(***************************************************************************)
EXTENDS MbimControlProofs

-----------------------------------------------------------------------------
(* The bridge's poll, and the requests *)

\* Withdrawing an "attaching" loses nothing that is said of the registration.
LEMMA DropAttaching ==
  ASSUME NEW b, Good(b), NEW other, NEW G, NEW k,
         NEW x, x = ind_drop_first(b, "attaching")
  PROVE  /\ Carries(b, x, other, RegIndications, G, k) /\ x.held = b.held
         /\ Len(x.ind_queue) <= Len(b.ind_queue)
         /\ (\E i \in 1..Len(b.ind_queue) : b.ind_queue[i] = "attaching")
              => Len(x.ind_queue) = Len(b.ind_queue) - 1
  <1>1. PICK K : K = RegIndications
    OBVIOUS
  <1>2. "attaching" \notin K
    BY <1>1 DEF RegIndications
  <1>3. PICK ind : ind = "attaching"
    OBVIOUS
  <1>4. /\ Carries(b, x, other, K, G, k) /\ x.held = b.held
        /\ Len(x.ind_queue) <= Len(b.ind_queue)
        /\ (\E i \in 1..Len(b.ind_queue) : b.ind_queue[i] = ind)
             => Len(x.ind_queue) = Len(b.ind_queue) - 1
    BY <1>2, <1>3, IndDropCarries, ZenonT(120)
  <1> QED
    BY <1>1, <1>3, <1>4

\* The indication that tells a change of the registration.
LEMMA PollRegistrationTells ==
  ASSUME NEW d, Good(d), NEW base, NEW other, NEW G, NEW k, NEW now,
         Len(d.ind_queue) < IND_QUEUE_SIZE - 1,
         NEW ind \in {"home", "deregistered"}, ind \in now,
         NEW e, e = ind_enqueue(d, ind)
  PROVE  /\ Carries(d, e, other, PacketIndications, G, k) /\ e.held = d.held
         /\ Current(e.resp, e.ind_queue, base, RegIndications, now)
         /\ Len(e.ind_queue) <= Len(d.ind_queue) + 1
  <1>1. ind \in BridgeIndications /\ ind \in RegIndications /\ ind \notin PacketIndications
    BY DEF BridgeIndications, RegIndications, PacketIndications
  <1>2. Current(e.resp, e.ind_queue, base, RegIndications, now)
    BY <1>1, IndEnqueueTells, ZenonT(30)
  <1>3. /\ Carries(d, e, other, PacketIndications, G, k) /\ e.held = d.held
        /\ Len(e.ind_queue) <= Len(d.ind_queue) + 1
    BY <1>1, IndEnqueueCarries
  <1> QED
    BY <1>2, <1>3

\* The indications that tell a change of the session.
LEMMA PollAttachedTells ==
  ASSUME NEW a, Good(a), NEW sm \in SmStates, NEW base, NEW other, NEW G, NEW k,
         sm # a.sm => Len(a.ind_queue) < IND_QUEUE_SIZE - 1,
         TellsPacket(a, base, a.sm),
         NEW b, b = PollAttaching(a, sm), Good(b), NEW e, e = PollAttached(b, sm)
  PROVE  /\ Carries(a, e, other, RegIndications, G, k) /\ e.held = a.held
         /\ TellsPacket(e, base, sm)
         /\ Len(e.ind_queue) <= Len(a.ind_queue) + 1
         /\ sm = a.sm => e = a
  <1>5. PICK was : was = PacketNow(a.sm)
    OBVIOUS
  <1>6. PICK now : now = PacketNow(sm)
    OBVIOUS
  <1>7. Current(a.resp, a.ind_queue, base, PacketIndications, was)
    BY <1>5 DEF TellsPacket
  <1>0. a.sm \in SmStates /\ Len(a.ind_queue) \in Nat /\ Len(b.ind_queue) \in Nat
    BY DevFields DEF DevType
  <1>1. \A ind \in {"attaching", "attached", "detached"} :
           ind \in BridgeIndications /\ ind \notin RegIndications /\ ind \in PacketIndications
    BY DEF BridgeIndications, RegIndications, PacketIndications
  <1>2. /\ Carries(a, b, other, RegIndications, G, k) /\ b.held = a.held
        /\ b.sm = a.sm /\ Len(b.ind_queue) <= Len(a.ind_queue) + 1
        /\ (b = a \/ (sm = "establishing" /\ b = ind_enqueue(a, "attaching")))
    <2>1. CASE b = a
      <3>1. Carries(a, a, other, RegIndications, G, k)
        BY SameQueuesCarry
      <3> QED
        BY <1>0, <2>1, <3>1
    <2>2. CASE sm = "establishing" /\ b = ind_enqueue(a, "attaching")
      <3>1. /\ Carries(a, b, other, RegIndications, G, k) /\ b.held = a.held
            /\ Len(b.ind_queue) <= Len(a.ind_queue) + 1
        BY <1>1, <2>2, IndEnqueueCarries, ZenonT(30)
      <3> QED
        BY <2>2, <3>1 DEF Carries
    <2> QED
      BY <2>1, <2>2 DEF PollAttaching
  <1>3. CASE (a.sm = "active") <=> (sm = "active")
    <2>1. e = b
      BY <1>2, <1>3 DEF PollAttached
    <2>2. now = was
      BY <1>3, <1>5, <1>6, ZenonT(30) DEF PacketNow
    <2>3. Current(b.resp, b.ind_queue, base, PacketIndications, now)
      <3>1. CASE b = a
        BY <1>7, <2>2, <3>1, ZenonT(30)
      <3>2. CASE sm = "establishing" /\ b = ind_enqueue(a, "attaching")
        <4>1. "attaching" \in now
          BY <1>6, <3>2 DEF PacketNow
        <4>2. Carries(a, b, base, PacketIndications, now, k)
          BY <1>1, <3>2, <4>1, IndEnqueueCarries
        <4> QED
          BY <1>7, <2>2, <4>2 DEF Carries
      <3> QED
        BY <1>2, <3>1, <3>2
    <2>4. sm = a.sm => b = a
      BY DEF PollAttaching
    <2>5. TellsPacket(e, base, sm)
      BY <1>6, <2>1, <2>3, ZenonT(30) DEF TellsPacket
    <2> QED
      BY <1>2, <2>1, <2>4, <2>5, ZenonT(30)
  <1>4. CASE ~((a.sm = "active") <=> (sm = "active"))
    <2>1. PICK x : x = ind_drop_first(b, "attaching")
      OBVIOUS
    <2>2. PICK ind \in {"attached", "detached"} :
             ind \in PacketNow(sm) /\ e = ind_enqueue(x, ind)
      BY <1>2, <1>4, <2>1 DEF PollAttached, PacketNow
    <2>3. Good(x)
      BY <2>1, IndDropGood
    <2>4. /\ Carries(b, x, other, RegIndications, G, k) /\ x.held = b.held
          /\ Len(x.ind_queue) <= Len(b.ind_queue)
          /\ (\E i \in 1..Len(b.ind_queue) : b.ind_queue[i] = "attaching")
               => Len(x.ind_queue) = Len(b.ind_queue) - 1
      BY <2>1, DropAttaching
    <2>5. Len(a.ind_queue) < IND_QUEUE_SIZE - 1
      BY <1>4
    <2>6. Len(x.ind_queue) <= Len(a.ind_queue) /\ Len(x.ind_queue) \in Nat
      <3>0. Len(x.ind_queue) \in Nat
        BY <2>3, DevFields
      <3>1. CASE b = a
        BY <2>4, <3>0, <3>1
      <3>2. CASE b = ind_enqueue(a, "attaching")
        <4>1. /\ Len(b.ind_queue) = Len(a.ind_queue) + 1
              /\ b.ind_queue[Len(b.ind_queue)] = "attaching"
          BY <1>1, <2>5, <3>2, IndEnqueueAppends
        <4>2. Len(b.ind_queue) \in 1..Len(b.ind_queue)
          BY <1>0, <4>1
        <4>3. Len(x.ind_queue) = Len(b.ind_queue) - 1
          BY <2>4, <4>1, <4>2
        <4> QED
          BY <1>0, <3>0, <4>1, <4>3
      <3> QED
        BY <1>2, <3>1, <3>2
    <2>7. Len(x.ind_queue) < IND_QUEUE_SIZE - 1
      BY <1>0, <2>5, <2>6, Sizes
    <2>8. /\ Len(e.ind_queue) = Len(x.ind_queue) + 1
          /\ Current(e.resp, e.ind_queue, base, PacketIndications, now)
      <3>2. /\ ind \in now /\ ind \in PacketIndications /\ ind \in BridgeIndications
            /\ e = ind_enqueue(x, ind)
        BY <1>1, <1>6, <2>2
      <3>3. Len(e.ind_queue) = Len(x.ind_queue) + 1
        BY <2>3, <2>7, <3>2, IndEnqueueAppends
      <3>4. Current(e.resp, e.ind_queue, base, PacketIndications, now)
        BY <2>3, <2>7, <3>2, IndEnqueueTells, ZenonT(30)
      <3> QED
        BY <3>3, <3>4
    <2>9. Carries(x, e, other, RegIndications, G, k) /\ e.held = x.held
      <3>1. /\ ind \notin RegIndications /\ ind \in BridgeIndications
            /\ e = ind_enqueue(x, ind)
        BY <1>1, <2>2
      <3> QED
        BY <2>3, <3>1, IndEnqueueCarries
    <2>10. Len(e.ind_queue) <= Len(a.ind_queue) + 1
      BY <1>0, <2>6, <2>8
    <2>11. sm # a.sm
      BY <1>4
    <2>12. TellsPacket(e, base, sm)
      BY <1>6, <2>8, ZenonT(30) DEF TellsPacket
    <2> QED
      BY <1>2, <2>4, <2>9, <2>10, <2>11, <2>12, ZenonT(30) DEF Carries
  <1> QED
    BY <1>3, <1>4

\* The engine's tick has changed what the bridge tells the host.
Changed(d, home, sm) == home # d.home \/ sm # d.sm

\* If so, the bridge's ring has room for two, and grows by no more than that.
Roomy(d, home, sm) == Changed(d, home, sm) => Len(d.ind_queue) + 2 < IND_QUEUE_SIZE
Grows(d, e, home, sm) ==
    /\ Len(e.ind_queue) <= Len(d.ind_queue) + 2
    /\ ~Changed(d, home, sm) => Len(e.ind_queue) <= Len(d.ind_queue)

\* After a poll of a ring with room for two the indications tell the new state.
LEMMA PollTells ==
  ASSUME NEW d, Good(d), NEW home \in BOOLEAN, NEW sm \in SmStates,
         Roomy(d, home, sm),
         NEW reg, TellsReg(d, reg, d.home), NEW packet, TellsPacket(d, packet, d.sm),
         NEW k, Upto(d, k), NEW e, e = state_bridge_poll(d, home, sm)
  PROVE  /\ Upto(e, k) /\ e.held = d.held
         /\ TellsReg(e, reg, e.home) /\ TellsPacket(e, packet, e.sm)
         /\ Grows(d, e, home, sm)
  <1>0. /\ Len(d.ind_queue) \in Nat
        /\ \A ind \in {"home", "deregistered", "attaching", "attached", "detached"} :
              ind \in BridgeIndications
    BY DevFields DEF BridgeIndications, RegIndications, PacketIndications
  <1>1. PICK a : a = PollRegistration(d, home)
    OBVIOUS
  <1>2. home # d.home \/ sm # d.sm => Len(d.ind_queue) + 1 < IND_QUEUE_SIZE - 1
    BY <1>0, Sizes DEF Changed, Roomy
  <1>3. Good(a)
    BY <1>0, <1>1, IndEnqueueGood, ZenonT(30) DEF PollRegistration
  <1>4. home # d.home => Len(d.ind_queue) < IND_QUEUE_SIZE - 1
    BY <1>0, <1>2, Sizes
  <1>5. /\ Carries(d, a, packet, PacketIndications, PacketNow(d.sm), k) /\ a.held = d.held
        /\ TellsReg(a, reg, home)
        /\ Len(a.ind_queue) <= Len(d.ind_queue) + 1
        /\ home = d.home => a = d
    <2>1. PICK G : G = PacketNow(d.sm)
      OBVIOUS
    <2>2. d.home \in BOOLEAN
      BY DevFields DEF DevType
    <2>3. CASE home = d.home
      <3>1. a = d
        BY <1>1, <2>2, <2>3 DEF PollRegistration
      <3>2. Carries(d, d, packet, PacketIndications, G, k)
        BY SameQueuesCarry
      <3> QED
        BY <1>0, <2>1, <2>3, <3>1, <3>2
    <2>4. CASE home # d.home
      <3>1. PICK ind \in {"home", "deregistered"} :
               ind \in RegNow(home) /\ a = ind_enqueue(d, ind)
        BY <1>1, <2>2, <2>4 DEF PollRegistration, RegNow
      <3>2. PICK now : now = RegNow(home)
        OBVIOUS
      <3>3. ind \in now /\ Len(d.ind_queue) < IND_QUEUE_SIZE - 1
        BY <1>4, <2>4, <3>1, <3>2
      <3>4. /\ Carries(d, a, packet, PacketIndications, G, k) /\ a.held = d.held
            /\ Current(a.resp, a.ind_queue, reg, RegIndications, now)
            /\ Len(a.ind_queue) <= Len(d.ind_queue) + 1
        BY <3>1, <3>3, PollRegistrationTells, ZenonT(30)
      <3> QED
        BY <2>1, <2>4, <3>2, <3>4 DEF TellsReg
    <2> QED
      BY <2>3, <2>4
  <1>6. /\ a.sm = d.sm /\ Upto(a, k) /\ Len(a.ind_queue) \in Nat
        /\ TellsPacket(a, packet, a.sm)
    BY <1>3, <1>5, DevFields DEF Carries, TellsPacket
  <1>7. PICK b : b = PollAttaching(a, sm)
    OBVIOUS
  <1>8. Good(b)
    BY <1>0, <1>3, <1>7, IndEnqueueGood, ZenonT(30) DEF PollAttaching
  <1>9. PICK c : c = PollAttached(b, sm)
    OBVIOUS
  <1>10. sm # a.sm => Len(a.ind_queue) < IND_QUEUE_SIZE - 1
    BY <1>0, <1>2, <1>5, <1>6, Sizes
  <1>11. /\ Carries(a, c, reg, RegIndications, RegNow(home), k) /\ c.held = a.held
         /\ TellsPacket(c, packet, sm)
         /\ Len(c.ind_queue) <= Len(a.ind_queue) + 1
         /\ sm = a.sm => c = a
    <2>1. PICK G : G = RegNow(home)
      OBVIOUS
    <2>2. /\ Carries(a, c, reg, RegIndications, G, k) /\ c.held = a.held
          /\ TellsPacket(c, packet, sm)
          /\ Len(c.ind_queue) <= Len(a.ind_queue) + 1
          /\ sm = a.sm => c = a
      BY <1>3, <1>6, <1>7, <1>8, <1>9, <1>10, PollAttachedTells, SMTT(30)
    <2> QED
      BY <2>1, <2>2
  <1>12. PICK x : x = ind_drop_first(b, "attaching")
    OBVIOUS
  <1>13. c = b \/ c = ind_enqueue(x, "attached") \/ c = ind_enqueue(x, "detached")
    BY <1>9, <1>12 DEF PollAttached
  <1>14. Good(c) /\ c \in DevType /\ Len(c.ind_queue) \in Nat
    <2>1. Good(x)
      BY <1>8, <1>12, IndDropGood
    <2>2. Good(c)
      BY <1>0, <1>8, <1>13, <2>1, IndEnqueueGood, ZenonT(30)
    <2> QED
      BY <2>2, DevFields
  <1>15. e = [c EXCEPT !.home = home, !.sm = sm]
    BY <1>1, <1>7, <1>9 DEF state_bridge_poll
  <1>16. /\ e.home = home /\ e.sm = sm /\ e.resp = c.resp /\ e.held = c.held
         /\ e.ind_queue = c.ind_queue
    BY <1>14, <1>15 DEF DevType
  <1>17. TellsReg(c, reg, home) /\ Upto(c, k)
    BY <1>5, <1>6, <1>11 DEF Carries, TellsReg
  <1>18. /\ Len(c.ind_queue) <= Len(d.ind_queue) + 2
         /\ home = d.home /\ sm = d.sm => Len(c.ind_queue) = Len(d.ind_queue)
    BY <1>0, <1>5, <1>6, <1>11, <1>14, SMTT(30)
  <1>19. Grows(d, e, home, sm)
    BY <1>0, <1>14, <1>16, <1>18 DEF Changed, Grows
  <1> QED
    BY <1>5, <1>11, <1>16, <1>17, <1>19, ZenonT(30) DEF Upto, TellsReg, TellsPacket

\* A tick: the poll, then the drain, then the doorbell.
LEMMA TickTells ==
  ASSUME NEW d, Good(d), NEW home \in BOOLEAN, NEW sm \in SmStates,
         Roomy(d, home, sm),
         NEW reg, TellsReg(d, reg, d.home), NEW packet, TellsPacket(d, packet, d.sm),
         NEW k \in Nat, Upto(d, k), NEW e, e = core_ep0_tick(d, home, sm)
  PROVE  /\ Upto(e, k)
         /\ TellsReg(e, reg, e.home) /\ TellsPacket(e, packet, e.sm)
         /\ Grows(d, e, home, sm)
  <1>1. PICK p : p = state_bridge_poll(d, home, sm)
    OBVIOUS
  <1>2. /\ Upto(p, k)
        /\ TellsReg(p, reg, p.home) /\ TellsPacket(p, packet, p.sm)
        /\ Grows(d, p, home, sm)
    BY <1>1, PollTells
  <1>3. Good(p)
    BY <1>1, PollGood
  <1>4. PICK q : q = drain_pending_indications(p)
    OBVIOUS
  <1>5. Good(q)
    BY <1>3, <1>4, DrainGood
  <1>6. PICK m : m = mbim_mark_notification_needed(q)
    OBVIOUS
  <1>7. Good(m)
    BY <1>5, <1>6, MarkGood
  <1>8. e = q \/ e = mbim_try_send_deferred_notification(m)
    BY <1>1, <1>4, <1>6 DEF core_ep0_tick
  <1>9. ASSUME NEW base, NEW K \in Kinds, NEW G
        PROVE  Carries(p, e, base, K, G, k) /\ Len(e.ind_queue) <= Len(p.ind_queue)
    <2>1. Carries(p, q, base, K, G, k) /\ Len(q.ind_queue) <= Len(p.ind_queue)
      BY <1>3, <1>4, DrainCarries
    <2>2. Carries(q, m, base, K, G, k) /\ m.ind_queue = q.ind_queue
      BY <1>5, <1>6, MarkCarries
    <2>3. CASE e = q
      BY <2>1, <2>3
    <2>4. CASE e = mbim_try_send_deferred_notification(m)
      <3>1. Carries(m, e, base, K, G, k) /\ e.ind_queue = m.ind_queue
        BY <1>7, <2>4, TrySendCarries
      <3> QED
        BY <2>1, <2>2, <3>1 DEF Carries
    <2> QED
      BY <1>8, <2>3, <2>4
  <1>10. PICK R : R = RegNow(p.home)
    OBVIOUS
  <1>11. PICK P : P = PacketNow(p.sm)
    OBVIOUS
  <1>12. /\ Carries(p, e, reg, RegIndications, R, k)
         /\ Carries(p, e, packet, PacketIndications, P, k)
         /\ Len(e.ind_queue) <= Len(p.ind_queue)
    BY <1>9, ZenonT(30) DEF Kinds
  <1>13. e.home = p.home /\ e.sm = p.sm /\ Upto(e, k)
    BY <1>2, <1>12 DEF Carries
  <1>14. /\ Current(e.resp, e.ind_queue, reg, RegIndications, R)
         /\ Current(e.resp, e.ind_queue, packet, PacketIndications, P)
    BY <1>2, <1>10, <1>11, <1>12, ZenonT(30) DEF Carries, TellsReg, TellsPacket
  <1>15. Good(e)
    BY <1>5, <1>7, <1>8, TrySendGood, ZenonT(30)
  <1>16. Len(e.ind_queue) \in Nat /\ Len(p.ind_queue) \in Nat /\ Len(d.ind_queue) \in Nat
    BY <1>3, <1>15, DevFields
  <1>17. Grows(d, e, home, sm)
    BY <1>2, <1>12, <1>16 DEF Grows
  <1> QED
    BY <1>10, <1>11, <1>13, <1>14, <1>17 DEF TellsReg, TellsPacket

\* An answer is queued.
LEMMA AnswerCarries ==
  ASSUME NEW d, Good(d), NEW base, NEW K \in Kinds, NEW G, NEW k \in Nat,
         NEW tid \in 1..MaxMessages, tid <= k, NEW e, e = Answer(d, tid)
  PROVE  Carries(d, e, base, K, G, k) /\ e.ind_queue = d.ind_queue
  <1>1. Done(tid) \in Items /\ Done(tid).about \notin K /\ Done(tid).tid <= k
    BY ItemsTyped, OtherKinds DEF Done
  <1> QED
    BY <1>1, QueueAndMarkCarries DEF Answer

\* A message is answered; only a REGISTER_STATE sends an indication of its own.
LEMMA PrepareCarries ==
  ASSUME NEW d, Good(d), NEW tid \in 1..MaxMessages,
         NEW kind \in Commands \cup {"open", "close"},
         NEW base, NEW K \in Kinds, NEW G, "searching" \in K => "searching" \in G,
         NEW k \in Nat, tid <= k, NEW e, e = prepare_mbim_response(d, kind, tid)
  PROVE  Carries(d, e, base, K, G, k) /\ Len(e.ind_queue) <= Len(d.ind_queue) + 1
  <1>1. d \in DevType /\ Len(d.ind_queue) \in Nat
    BY DevFields
  <1>2. ASSUME NEW a, Good(a), Carries(d, a, base, K, G, k), e = Answer(a, tid),
               Len(a.ind_queue) <= Len(d.ind_queue) + 1
        PROVE  Carries(d, e, base, K, G, k) /\ Len(e.ind_queue) <= Len(d.ind_queue) + 1
    <2>1. Carries(a, e, base, K, G, k) /\ e.ind_queue = a.ind_queue
      BY <1>2, AnswerCarries
    <2> QED
      BY <1>2, <2>1 DEF Carries
  <1>3. ASSUME NEW a \in DevType, a.resp = d.resp, a.held = d.held,
               a.ind_queue = d.ind_queue, a.home = d.home, a.sm = d.sm,
               a.notif_armed = TRUE => d.notif_armed = TRUE, a.doorbell = d.doorbell
        PROVE  /\ Good(a) /\ Carries(d, a, base, K, G, k)
               /\ Len(a.ind_queue) <= Len(d.ind_queue) + 1
    <2>1. Carries(d, a, base, K, G, k)
      BY <1>3, SameQueuesCarry
    <2>2. d.notif_armed \in BOOLEAN /\ a.notif_armed \in BOOLEAN
      BY <1>1 DEF DevType
    <2>3. Good(a)
      BY <1>3, <2>2 DEF Good
    <2> QED
      BY <1>1, <1>3, <2>1, <2>3, SMTT(30)
  <1>4. CASE kind = "plain"
    <2>1. Carries(d, d, base, K, G, k) /\ Len(d.ind_queue) <= Len(d.ind_queue) + 1
      BY <1>1, SameQueuesCarry
    <2>2. e = Answer(d, tid)
      BY <1>4 DEF prepare_mbim_response
    <2> QED
      BY <1>2, <2>1, <2>2
  <1>5. CASE kind = "register"
    <2>1. PICK a : a = ind_enqueue(d, "searching")
      OBVIOUS
    <2>2. "searching" \in BridgeIndications
      BY DEF BridgeIndications, RegIndications
    <2>3. /\ Good(a) /\ Carries(d, a, base, K, G, k)
          /\ Len(a.ind_queue) <= Len(d.ind_queue) + 1
      BY <2>1, <2>2, IndEnqueueGood, IndEnqueueCarries
    <2>4. e = Answer(a, tid)
      BY <1>5, <2>1 DEF prepare_mbim_response
    <2> QED
      BY <1>2, <2>3, <2>4
  <1>6. PICK r : r = mbim_vendor_qmux_reset(d)
    OBVIOUS
  <1>7. /\ r \in DevType /\ r.resp = d.resp /\ r.held = d.held
        /\ r.ind_queue = d.ind_queue /\ r.home = d.home /\ r.sm = d.sm
        /\ r.notif_armed = d.notif_armed /\ r.doorbell = d.doorbell
    <2>1. r = [d EXCEPT !.sync_ind_sent = FALSE, !.sync_ind_pending = FALSE]
      BY <1>6 DEF mbim_vendor_qmux_reset
    <2> QED
      BY <1>1, <2>1, ZenonT(120) DEF DevType
  <1>8. CASE kind = "open"
    <2>1. /\ Good(r) /\ Carries(d, r, base, K, G, k)
          /\ Len(r.ind_queue) <= Len(d.ind_queue) + 1
      BY <1>3, <1>7, ZenonT(30)
    <2>2. e = Answer(r, tid)
      BY <1>6, <1>8, ZenonT(30) DEF prepare_mbim_response
    <2> QED
      BY <1>2, <2>1, <2>2
  <1>9. CASE kind = "close"
    <2>1. PICK a : a = reset_mbim_standard_indication_state(r)
      OBVIOUS
    <2>2. a = [r EXCEPT !.pending_lte_attach_status_ind = FALSE, !.notif_pending = FALSE,
                        !.notif_armed = FALSE, !.ep0_get_in_progress = FALSE]
      BY <2>1 DEF reset_mbim_standard_indication_state
    <2>3. /\ a \in DevType /\ a.resp = r.resp /\ a.held = r.held
          /\ a.ind_queue = r.ind_queue /\ a.home = r.home /\ a.sm = r.sm
          /\ a.notif_armed = FALSE /\ a.doorbell = r.doorbell
      BY <1>7, <2>2, ZenonT(30) DEF DevType
    <2>4. /\ Good(a) /\ Carries(d, a, base, K, G, k)
          /\ Len(a.ind_queue) <= Len(d.ind_queue) + 1
      BY <1>3, <1>7, <2>3, ZenonT(30)
    <2>5. e = Answer(a, tid)
      BY <1>6, <1>9, <2>1 DEF prepare_mbim_response
    <2> QED
      BY <1>2, <2>4, <2>5
  <1>10. CASE kind = "sync"
    <2>1. e = HandleCtlSync(d, tid)
      BY <1>10 DEF prepare_mbim_response
    <2>2. CASE RespRoom(d) = 0
      <3>1. e = [d EXCEPT !.dropped = d.dropped \cup {tid}]
        BY <2>1, <2>2 DEF HandleCtlSync
      <3>2. /\ e.resp = d.resp /\ e.held = d.held /\ e.home = d.home /\ e.sm = d.sm
            /\ e.ind_queue = d.ind_queue
        BY <1>1, <3>1, ZenonT(30) DEF DevType
      <3> QED
        BY <1>1, <3>2, SameQueuesCarry
    <2>3. CASE RespRoom(d) # 0
      <3>1. PICK a : a = Answer(d, tid)
        OBVIOUS
      <3>2. Carries(d, a, base, K, G, k) /\ a.ind_queue = d.ind_queue
        BY <3>1, AnswerCarries, ZenonT(30)
      <3>3. Good(a)
        BY <3>1, QueueAndMark, ItemsTyped DEF Answer
      <3>4. PICK b : b = [a EXCEPT !.sync_ind_pending = @ \/ ~d.sync_ind_sent]
        BY ZenonT(30)
      <3>5. a \in DevType
        BY <3>3, DevFields
      <3>6. (a.sync_ind_pending \/ ~d.sync_ind_sent) \in BOOLEAN
        OBVIOUS
      <3>7. b \in DevType
        BY <3>4, <3>5, <3>6, ZenonT(30) DEF DevType
      <3>8. /\ b.resp = a.resp /\ b.held = a.held /\ b.home = a.home /\ b.sm = a.sm
            /\ b.ind_queue = a.ind_queue /\ SameDoorbell(a, b)
        BY <3>4, <3>5 DEF DevType, SameDoorbell
      <3>9. Good(b)
        BY <3>3, <3>7, <3>8, ZenonT(30) DEF Good, SameDoorbell
      <3>10. Carries(a, b, base, K, G, k)
        BY <3>8, SameQueuesCarry
      <3>11. e = mbim_try_send_deferred_notification(b)
        BY <2>1, <2>3, <3>1, <3>4, ZenonT(30) DEF HandleCtlSync
      <3>12. Carries(b, e, base, K, G, k) /\ e.ind_queue = b.ind_queue
        BY <3>9, <3>11, TrySendCarries, ZenonT(30)
      <3> QED
        BY <1>1, <3>2, <3>8, <3>10, <3>12, SMTT(30) DEF Carries
    <2> QED
      BY <2>2, <2>3
  <1> QED
    BY <1>4, <1>5, <1>8, <1>9, <1>10, ZenonT(30) DEF Commands

\* What still waits at the device: indications in the ring and commands held.
Load(d) == Len(d.ind_queue) + Len(d.held)

\* The load follows the two lengths.
LEMMA LoadBound ==
  ASSUME NEW d, NEW e, NEW i \in Int, NEW h \in Int, NEW n \in Int, n = i + h,
         Len(d.ind_queue) \in Nat, Len(d.held) \in Nat,
         Len(e.ind_queue) \in Nat, Len(e.held) \in Nat,
         Len(e.ind_queue) <= Len(d.ind_queue) + i, Len(e.held) <= Len(d.held) + h
  PROVE  Load(e) <= Load(d) + n
  <1>1. ASSUME NEW a \in Nat, NEW b \in Nat, NEW x \in Nat, NEW y \in Nat,
               x <= a + i, y <= b + h
        PROVE  x + y <= (a + b) + n
    BY <1>1
  <1> QED
    BY <1>1, ZenonT(30) DEF Load

\* Neither length grows.
LEMMA LoadShrinks ==
  ASSUME NEW d, NEW e,
         Len(d.ind_queue) \in Nat, Len(d.held) \in Nat,
         Len(e.ind_queue) \in Nat, Len(e.held) \in Nat,
         Len(e.ind_queue) <= Len(d.ind_queue), Len(e.held) <= Len(d.held)
  PROVE  Load(e) <= Load(d)
  <1>1. ASSUME NEW a \in Nat, NEW b \in Nat, NEW x \in Nat, NEW y \in Nat, x <= a, y <= b
        PROVE  x + y <= a + b
    BY <1>1
  <1> QED
    BY <1>1, ZenonT(30) DEF Load

\* The load is a number.
LEMMA LoadNat ==
  ASSUME NEW d, Good(d)
  PROVE  Len(d.ind_queue) \in Nat /\ Len(d.held) \in Nat /\ Load(d) \in Nat
  <1>1. Len(d.ind_queue) \in Nat /\ Len(d.held) \in Nat
    BY DevFields
  <1>2. \A a, b \in Nat : a + b \in Nat
    OBVIOUS
  <1> QED
    BY <1>1, <1>2, ZenonT(30) DEF Load

\* Head and tail of a sequence of commands.
LEMMA TakeHeld ==
  ASSUME NEW S, NEW q \in Seq(S), q # <<>>
  PROVE  /\ Len(q) \in Nat /\ Len(q) > 0 /\ Head(q) = q[1] /\ Head(q) \in S
         /\ Tail(q) \in Seq(S) /\ Len(Tail(q)) = Len(q) - 1
         /\ \A i \in 1..Len(Tail(q)) : Tail(q)[i] = q[i + 1]
  BY HeadTailProperties

\* A command is held back, or dropped.
LEMMA HoldCarries ==
  ASSUME NEW d, Good(d), NEW kind \in Commands, NEW tid \in 1..MaxMessages,
         NEW base, NEW K, NEW G, NEW k \in Nat, tid <= k,
         NEW e, e = mbim_hold_command(d, kind, tid)
  PROVE  Carries(d, e, base, K, G, k) /\ Load(e) <= Load(d) + 1
  <1> DEFINE c == [kind |-> kind, tid |-> tid]
             C == [kind: Commands, tid: 1..MaxMessages]
  <1>1. /\ d \in DevType /\ d.held \in Seq(C) /\ Len(d.held) \in Nat
        /\ Len(d.ind_queue) \in Nat
    BY DevFields, ZenonT(30)
  <1>2. CASE e = [d EXCEPT !.held = Append(d.held, c)]
    <2> DEFINE a == Append(d.held, c)
    <2>1. /\ Len(a) = Len(d.held) + 1 /\ a[Len(d.held) + 1] = c
          /\ \A i \in 1..Len(d.held) : a[i] = d.held[i]
      BY <1>1
    <2> HIDE DEF a
    <2>2. /\ e.resp = d.resp /\ e.held = a /\ e.ind_queue = d.ind_queue
          /\ e.home = d.home /\ e.sm = d.sm
      BY <1>1, <1>2 DEF DevType, a
    <2>3. Upto(d, k) => Upto(e, k)
      <3> SUFFICES ASSUME Upto(d, k), NEW i \in 1..Len(a) PROVE a[i].tid <= k
        BY <2>2 DEF Upto
      <3>1. i \in 1..Len(d.held) \/ i = Len(d.held) + 1
        BY <1>1, <2>1
      <3>2. c.tid <= k
        OBVIOUS
      <3> HIDE DEF c
      <3> QED
        BY <2>1, <3>1, <3>2, ZenonT(30) DEF Upto
    <2>4. Load(e) <= Load(d) + 1
      <3>1. /\ Len(e.ind_queue) \in Nat /\ Len(e.ind_queue) <= Len(d.ind_queue) + 0
            /\ Len(e.held) \in Nat /\ Len(e.held) <= Len(d.held) + 1
        BY <1>1, <2>1, <2>2
      <3>2. 0 \in Int /\ 1 \in Int /\ 1 = 0 + 1
        OBVIOUS
      <3> QED
        BY <1>1, <3>1, <3>2, LoadBound, ZenonT(30)
    <2>5. Current(d.resp, d.ind_queue, base, K, G) => Current(e.resp, e.ind_queue, base, K, G)
      BY <2>2
    <2> QED
      BY <2>2, <2>3, <2>4, <2>5, ZenonT(30) DEF Carries
  <1>3. CASE e = [d EXCEPT !.dropped = d.dropped \cup {tid}]
    <2>1. /\ e.resp = d.resp /\ e.held = d.held /\ e.ind_queue = d.ind_queue
          /\ e.home = d.home /\ e.sm = d.sm
      BY <1>1, <1>3 DEF DevType
    <2>2. Load(e) = Load(d) /\ Load(d) \in Nat
      BY <2>1, LoadNat, ZenonT(30) DEF Load
    <2>3. Load(e) <= Load(d) + 1
      BY <2>2
    <2> QED
      BY <2>1, <2>3, SameQueuesCarry
  <1> QED
    BY <1>2, <1>3 DEF mbim_hold_command

\* A message from the host is answered, or held behind an answer.
LEMMA SendCarries ==
  ASSUME NEW d, Good(d), ~d.ep0_get_in_progress,
         NEW kind \in Messages, NEW tid \in 1..MaxMessages,
         NEW base, NEW K \in Kinds, NEW G, "searching" \in K => "searching" \in G,
         NEW k \in Nat, tid <= k,
         NEW e, e = core_on_send_encapsulated_command(d, kind, tid)
  PROVE  Carries(d, e, base, K, G, k) /\ Load(e) <= Load(d) + 1
  <1>1. /\ kind \in Commands \cup {"open", "close"}
        /\ Len(d.held) \in Nat /\ Len(d.ind_queue) \in Nat
    BY DevFields, MbimAssumption
  <1>2. CASE kind \in Commands /\ mbim_resp_has_command_response(d)
    <2>1. e = mbim_hold_command(d, kind, tid)
      BY <1>2 DEF core_on_send_encapsulated_command
    <2> QED
      BY <1>2, <2>1, HoldCarries
  <1>3. CASE ~(kind \in Commands /\ mbim_resp_has_command_response(d))
    <2>1. PICK p : p = prepare_mbim_response(d, kind, tid)
      OBVIOUS
    <2>2. Good(p) /\ Queues(d, p)
      BY <1>1, <2>1, PrepareGood
    <2>3. Carries(d, p, base, K, G, k) /\ Len(p.ind_queue) <= Len(d.ind_queue) + 1
      BY <1>1, <2>1, PrepareCarries, ZenonT(30)
    <2>4. e = mbim_try_send_deferred_notification(p)
      BY <1>3, <2>1 DEF core_on_send_encapsulated_command
    <2>5. Queues(p, e) /\ Carries(p, e, base, K, G, k) /\ e.ind_queue = p.ind_queue
      BY <2>2, <2>4, TrySendGood, TrySendCarries, ZenonT(30)
    <2>6. e.held = d.held
      BY <2>2, <2>5 DEF Queues
    <2>7. Len(p.ind_queue) \in Nat
      BY <2>2, DevFields
    <2>8. Load(e) <= Load(d) + 1
      <3>1. /\ Len(e.ind_queue) \in Nat /\ Len(e.ind_queue) <= Len(d.ind_queue) + 1
            /\ Len(e.held) \in Nat /\ Len(e.held) <= Len(d.held) + 0
        BY <1>1, <2>3, <2>5, <2>6, <2>7, SMTT(30)
      <3>2. 0 \in Int /\ 1 \in Int /\ 1 = 1 + 0
        OBVIOUS
      <3> QED
        BY <1>1, <3>1, <3>2, LoadBound, ZenonT(30)
    <2> QED
      BY <2>3, <2>5, <2>8 DEF Carries
  <1> QED
    BY <1>2, <1>3

\* What the host believes once it has read the next message.
Believes(d, base, K) ==
    IF d.resp # <<>> /\ Head(d.resp).about \in K THEN Head(d.resp).about ELSE base

\* From d to e the host has read a message.
Reads(d, e, base, K, G) ==
    /\ Current(e.resp, e.ind_queue, Believes(d, base, K), K, G)
    /\ e.home = d.home /\ e.sm = d.sm /\ Load(e) <= Load(d)

\* "searching" is up to date where it is told at all.
Searches(K, G) == "searching" \in K => "searching" \in G

\* A GET: the host reads a message, a held command may get its turn, and the drain
\* follows.
LEMMA GetCarries ==
  ASSUME NEW d, Good(d), NEW base, NEW K \in Kinds, NEW G,
         Searches(K, G), NEW k \in Nat, Upto(d, k),
         Current(d.resp, d.ind_queue, base, K, G),
         NEW e, e = core_on_get_encapsulated_response(d)
  PROVE  Reads(d, e, base, K, G) /\ Upto(e, k)
  <1>0. PICK next : next = Believes(d, base, K)
    OBVIOUS
  <1> DEFINE C == [kind: Commands, tid: 1..MaxMessages]
             left == IF d.resp = <<>> THEN d.resp ELSE Tail(d.resp)
  <1>1. /\ d \in DevType /\ d.resp \in Seq(Items) /\ Len(d.resp) \in Nat
        /\ d.held \in Seq(C) /\ Len(d.held) \in Nat
        /\ d.ind_queue \in Seq(BridgeIndications) /\ Len(d.ind_queue) \in Nat
    BY DevFields, ZenonT(30)
  <1>2. PICK in : in = [d EXCEPT !.resp = left, !.ep0_get_in_progress = TRUE,
                                 !.notif_armed = FALSE]
    OBVIOUS
  <1>3. /\ left \in Seq(Items) /\ Len(left) < RESP_QUEUE_SIZE
        /\ Current(left, d.ind_queue, next, K, G)
        /\ \A i \in 1..Len(left) : left[i].tid <= k
    <2>1. Len(d.resp) < RESP_QUEUE_SIZE
      BY DEF Good
    <2>2. CASE d.resp = <<>>
      BY <1>0, <1>1, <2>1, <2>2, ZenonT(30) DEF Upto, Believes
    <2>3. CASE d.resp # <<>>
      <3>1. /\ Tail(d.resp) \in Seq(Items) /\ Len(Tail(d.resp)) = Len(d.resp) - 1
            /\ \A i \in 1..Len(Tail(d.resp)) : Tail(d.resp)[i] = d.resp[i + 1]
        BY <1>1, <2>3, HeadTailProperties, ZenonT(30)
      <3>2. next = IF Head(d.resp).about \in K THEN Head(d.resp).about ELSE base
        BY <1>0, <2>3 DEF Believes
      <3>3. Current(Tail(d.resp), d.ind_queue, next, K, G)
        BY <1>1, <2>3, <3>2, CurrentRead, ZenonT(30)
      <3>4. PICK t : t = Tail(d.resp)
        BY ZenonT(30)
      <3>5. ASSUME NEW i \in 1..Len(t) PROVE t[i].tid <= k
        <4>1. i + 1 \in 1..Len(d.resp) /\ t[i] = d.resp[i + 1]
          BY <1>1, <3>1, <3>4, SMTT(30)
        <4> QED
          BY <4>1 DEF Upto
      <3>6. left = t /\ t \in Seq(Items) /\ Len(t) < RESP_QUEUE_SIZE
        BY <1>1, <2>1, <2>3, <3>1, <3>4, Sizes, SMTT(30)
      <3> QED
        BY <3>3, <3>4, <3>5, <3>6, ZenonT(30)
    <2> QED
      BY <2>2, <2>3, ZenonT(30)
  <1> HIDE DEF left
  <1>4. in \in DevType
    BY <1>1, <1>2, <1>3, ZenonT(30) DEF DevType
  <1>5. /\ in.resp = left /\ in.held = d.held /\ in.ind_queue = d.ind_queue
        /\ in.sms = d.sms /\ in.ep0_get_in_progress = TRUE /\ in.notif_armed = FALSE
        /\ in.home = d.home /\ in.sm = d.sm
    BY <1>1, <1>2, ZenonT(30) DEF DevType
  <1>6. Good(in) /\ Upto(in, k)
    BY <1>3, <1>4, <1>5, ZenonT(30) DEF Good, Upto
  <1>7. PICK served : served = IF in.resp = <<>> /\ in.held # <<>>
                               THEN mbim_process_held_command(in) ELSE in
    BY ZenonT(30)
  <1>8. /\ Good(served) /\ Upto(served, k) /\ Load(served) <= Load(d)
        /\ served.home = d.home /\ served.sm = d.sm
        /\ Current(served.resp, served.ind_queue, next, K, G)
    <2>1. CASE in.resp = <<>> /\ in.held # <<>>
      <3>1. /\ Head(in.held) \in C /\ Tail(in.held) \in Seq(C)
            /\ Len(Tail(in.held)) = Len(in.held) - 1 /\ Head(in.held) = in.held[1]
            /\ Len(in.held) > 0
            /\ \A i \in 1..Len(Tail(in.held)) : Tail(in.held)[i] = in.held[i + 1]
        <4> HIDE DEF C
        <4>1. in.held \in Seq(C) /\ in.held # <<>>
          BY <1>1, <1>5, <2>1
        <4> QED
          BY <4>1, TakeHeld, ZenonT(30)
      <3>2. PICK t : t = [in EXCEPT !.held = Tail(in.held)]
        BY ZenonT(30)
      <3>3. t \in DevType
        BY <1>4, <3>1, <3>2, ZenonT(30) DEF DevType
      <3>4. /\ t.held = Tail(in.held) /\ t.resp = in.resp /\ t.ind_queue = in.ind_queue
            /\ t.home = in.home /\ t.sm = in.sm
            /\ t.sms = in.sms /\ SameDoorbell(in, t)
        BY <1>4, <3>2, ZenonT(30) DEF DevType, SameDoorbell
      <3>5. Len(Tail(in.held)) < HELD_QUEUE_SIZE
        <4>1. Len(in.held) < HELD_QUEUE_SIZE /\ Len(in.held) \in Nat
          BY <1>1, <1>5, <1>6, ZenonT(30) DEF Good
        <4> QED
          BY <3>1, <4>1, Sizes, SMTT(30)
      <3>6. Good(t)
        BY <1>6, <3>3, <3>4, <3>5, ZenonT(30) DEF Good, SameDoorbell
      <3>7. served = prepare_mbim_response(t, Head(in.held).kind, Head(in.held).tid)
        BY <1>7, <2>1, <3>2, ZenonT(30) DEF mbim_process_held_command
      <3>8. Head(in.held).kind \in Commands /\ Head(in.held).tid \in 1..MaxMessages
        BY <3>1
      <3>9. Head(in.held).kind # "close"
        BY <3>8, ZenonT(30) DEF Commands
      <3>10. Good(served) /\ Queues(t, served)
        BY <3>6, <3>7, <3>8, <3>9, PrepareGood, ZenonT(30)
      <3>11. Head(in.held).tid <= k
        <4>1. 1 \in 1..Len(in.held)
          BY <1>1, <1>5, <3>1, SMTT(30)
        <4> QED
          BY <1>6, <3>1, <4>1, ZenonT(30) DEF Upto
      <3>12. /\ Carries(t, served, next, K, G, k)
             /\ Len(served.ind_queue) <= Len(t.ind_queue) + 1
        <4>1. "searching" \in K => "searching" \in G
          BY ZenonT(30) DEF Searches
        <4> QED
          BY <3>6, <3>7, <3>8, <3>11, <4>1, PrepareCarries, ZenonT(30)
      <3>13. Upto(t, k)
        <4>1. PICK h : h = Tail(in.held)
          BY ZenonT(30)
        <4>2. ASSUME NEW i \in 1..Len(h) PROVE h[i].tid <= k
          <5>1. i + 1 \in 1..Len(in.held) /\ h[i] = in.held[i + 1]
            BY <1>1, <1>5, <3>1, <4>1, SMTT(30)
          <5> QED
            BY <1>6, <5>1, ZenonT(30) DEF Upto
        <4> QED
          BY <1>6, <3>4, <4>1, <4>2, ZenonT(30) DEF Upto
      <3>14. Current(t.resp, t.ind_queue, next, K, G)
        BY <1>3, <1>5, <3>4, ZenonT(30)
      <3>15. Load(served) <= Load(d)
        <4>1. served.held = Tail(in.held) /\ Len(served.ind_queue) \in Nat
          BY <3>4, <3>10, DevFields, ZenonT(30) DEF Queues
        <4>2. /\ Len(served.ind_queue) <= Len(d.ind_queue) + 1
              /\ Len(served.held) \in Nat /\ Len(served.held) <= Len(d.held) + (-1)
          BY <1>1, <1>5, <3>1, <3>4, <3>12, <4>1, SMTT(30)
        <4>3. 0 \in Int /\ 1 \in Int /\ -1 \in Int /\ 0 = 1 + (-1)
          OBVIOUS
        <4>4. Load(served) <= Load(d) + 0
          BY <1>1, <4>1, <4>2, <4>3, LoadBound, ZenonT(30)
        <4>5. Load(served) \in Nat /\ Load(d) \in Nat
          BY <3>10, LoadNat, ZenonT(30)
        <4> QED
          BY <4>4, <4>5, SMTT(30)
      <3> QED
        BY <1>5, <3>4, <3>10, <3>12, <3>13, <3>14, <3>15, ZenonT(30) DEF Carries
    <2>2. CASE ~(in.resp = <<>> /\ in.held # <<>>)
      <3>1. served = in
        BY <1>7, <2>2
      <3>2. Load(served) = Load(d) /\ Load(d) \in Nat
        BY <1>5, <3>1, LoadNat, ZenonT(30) DEF Load
      <3>3. Load(served) <= Load(d)
        BY <3>2
      <3> QED
        BY <1>3, <1>5, <1>6, <3>1, <3>3, ZenonT(30)
    <2> QED
      BY <2>1, <2>2, ZenonT(30)
  <1>9. PICK g : g = drain_pending_indications(served)
    OBVIOUS
  <1>10. Good(g) /\ Queues(served, g)
    BY <1>8, <1>9, DrainGood, ZenonT(30)
  <1>11. Carries(served, g, next, K, G, k) /\ Len(g.ind_queue) <= Len(served.ind_queue)
    BY <1>8, <1>9, DrainCarries, ZenonT(30)
  <1>12. /\ Upto(g, k) /\ g.home = d.home /\ g.sm = d.sm
         /\ Current(g.resp, g.ind_queue, next, K, G)
    BY <1>8, <1>11, ZenonT(30) DEF Carries
  <1>13. Load(g) <= Load(d)
    <2>1. g.held = served.held
      BY <1>10, ZenonT(30) DEF Queues
    <2>2. /\ Len(g.ind_queue) \in Nat /\ Len(served.ind_queue) \in Nat
          /\ Len(g.held) \in Nat
      BY <1>8, <1>10, DevFields, ZenonT(30)
    <2>3. 0 \in Int /\ 0 = 0 + 0
      OBVIOUS
    <2>4. /\ Len(g.ind_queue) <= Len(served.ind_queue) + 0
          /\ Len(g.held) <= Len(served.held) + 0 /\ Len(served.held) \in Nat
      BY <1>11, <2>1, <2>2
    <2>5. Load(g) <= Load(served) + 0
      BY <2>2, <2>3, <2>4, LoadBound, ZenonT(30)
    <2>6. Load(g) \in Nat /\ Load(served) \in Nat /\ Load(d) \in Nat
      BY <1>8, <1>10, LoadNat, ZenonT(30)
    <2> QED
      BY <1>8, <2>5, <2>6, SMTT(30)
  <1>14. g \in DevType
    BY <1>10, DevFields
  <1>15. PICK out : out = [g EXCEPT !.ep0_get_in_progress = FALSE]
    BY ZenonT(30)
  <1>16. e = IF out.resp = <<>> THEN out ELSE mbim_mark_notification_needed(out)
    <2> DEFINE Serve(x) == IF x.resp = <<>> /\ x.held # <<>>
                           THEN mbim_process_held_command(x) ELSE x
               Drained(x) == [drain_pending_indications(x) EXCEPT !.ep0_get_in_progress = FALSE]
               Marked(x) == IF x.resp = <<>> THEN x ELSE mbim_mark_notification_needed(x)
    <2>1. e = Marked(Drained(Serve([d EXCEPT !.resp = IF @ = <<>> THEN @ ELSE Tail(@),
                                             !.ep0_get_in_progress = TRUE,
                                             !.notif_armed = FALSE])))
      BY DEF core_on_get_encapsulated_response
    <2>2. in = [d EXCEPT !.resp = IF @ = <<>> THEN @ ELSE Tail(@),
                         !.ep0_get_in_progress = TRUE, !.notif_armed = FALSE]
      BY <1>2 DEF left
    <2>3. Serve(in) = served
      BY <1>7
    <2>4. Drained(served) = out
      BY <1>9, <1>15
    <2> HIDE DEF Serve, Drained, Marked
    <2>5. e = Marked(out)
      BY <2>1, <2>2, <2>3, <2>4, ZenonT(30)
    <2> QED
      BY <2>5, ZenonT(30) DEF Marked
  <1>17. /\ e.resp = g.resp /\ e.held = g.held /\ e.ind_queue = g.ind_queue
         /\ e.home = g.home /\ e.sm = g.sm
    <2>1. e = out \/ e = [out EXCEPT !.notif_pending = TRUE]
      BY <1>16 DEF mbim_mark_notification_needed
    <2>2. /\ out \in DevType /\ out.resp = g.resp /\ out.held = g.held
          /\ out.ind_queue = g.ind_queue /\ out.home = g.home /\ out.sm = g.sm
      BY <1>14, <1>15, ZenonT(30) DEF DevType
    <2> QED
      BY <2>1, <2>2 DEF DevType
  <1> QED
    BY <1>0, <1>12, <1>13, <1>17, ZenonT(30) DEF Upto, Load, Reads

-----------------------------------------------------------------------------
(* Transactions: nobody answers a message that was not sent *)

TidInv == Upto(dev, host.sent) /\ host.got \subseteq 1..host.sent

LoopType == loop \in {"tick", "event"}

\* At first nothing has been sent, and nothing is answered.
LEMMA TidInit ==
  ASSUME Init
  PROVE  TidInv
  <1>1. dev.resp = <<>> /\ dev.held = <<>> /\ host.sent = 0 /\ host.got = {}
    BY DEF Init
  <1>2. 1..Len(dev.resp) = {} /\ 1..Len(dev.held) = {}
    BY <1>1
  <1>3. Upto(dev, host.sent)
    BY <1>2 DEF Upto
  <1>4. host.got \subseteq 1..host.sent
    BY <1>1
  <1> QED
    BY <1>3, <1>4, ZenonT(30) DEF TidInv

\* Nothing is out of date where everything may be said.
LEMMA AllIsCurrent ==
  ASSUME NEW r, NEW q, NEW K, NEW base \in K
  PROVE  Current(r, q, base, K, K)
  BY DEF Current

\* An indication put into the ring adds neither messages nor held commands.
LEMMA RingOnly ==
  ASSUME NEW d, Good(d), NEW ind \in BridgeIndications, NEW e, e = ind_enqueue(d, ind)
  PROVE  Good(e) /\ e.resp = d.resp /\ e.held = d.held
  BY IndEnqueueGood DEF Queues

\* Nor does a poll.
LEMMA PollLeavesQueues ==
  ASSUME NEW d, Good(d), NEW home \in BOOLEAN, NEW sm \in SmStates,
         NEW e, e = state_bridge_poll(d, home, sm)
  PROVE  e.resp = d.resp /\ e.held = d.held
  <1>1. \A ind \in {"home", "deregistered", "attaching", "attached", "detached"} :
           ind \in BridgeIndications
    BY DEF BridgeIndications, RegIndications, PacketIndications
  <1>2. PICK a : a = PollRegistration(d, home)
    OBVIOUS
  <1>3. Good(a) /\ a.resp = d.resp /\ a.held = d.held
    BY <1>1, <1>2, RingOnly, ZenonT(120) DEF PollRegistration
  <1>4. PICK b : b = PollAttaching(a, sm)
    OBVIOUS
  <1>5. Good(b) /\ b.resp = d.resp /\ b.held = d.held
    <2>1. b = a \/ b = ind_enqueue(a, "attaching")
      BY <1>4 DEF PollAttaching
    <2>2. CASE b = a
      BY <1>3, <2>2
    <2>3. ASSUME NEW ind \in BridgeIndications, b = ind_enqueue(a, ind)
          PROVE  Good(b) /\ b.resp = a.resp /\ b.held = a.held
      BY <1>3, <2>3, RingOnly, ZenonT(30)
    <2> QED
      BY <1>1, <1>3, <2>1, <2>2, <2>3
  <1>6. PICK x : x = ind_drop_first(b, "attaching")
    BY ZenonT(30)
  <1>7. Good(x) /\ x.resp = d.resp /\ x.held = d.held
    BY <1>5, <1>6, IndDropGood, SMTT(30) DEF Queues
  <1>8. PICK c : c = PollAttached(b, sm)
    OBVIOUS
  <1>9. c = b \/ c = ind_enqueue(x, "attached") \/ c = ind_enqueue(x, "detached")
    BY <1>6, <1>8, ZenonT(30) DEF PollAttached
  <1>10. Good(c) /\ c.resp = d.resp /\ c.held = d.held
    <2>1. CASE c = b
      BY <1>5, <2>1
    <2>2. ASSUME NEW ind \in BridgeIndications, c = ind_enqueue(x, ind)
          PROVE  Good(c) /\ c.resp = x.resp /\ c.held = x.held
      BY <1>7, <2>2, RingOnly
    <2> QED
      BY <1>1, <1>7, <1>9, <2>1, <2>2, ZenonT(30)
  <1>11. e = [c EXCEPT !.home = home, !.sm = sm] /\ c \in DevType
    BY <1>2, <1>4, <1>8, <1>10, DevFields, ZenonT(30) DEF state_bridge_poll
  <1> QED
    BY <1>10, <1>11 DEF DevType

\* A tick answers nothing.
LEMMA TickUpto ==
  ASSUME NEW d, Good(d), NEW home \in BOOLEAN, NEW sm \in SmStates,
         NEW k \in Nat, Upto(d, k), NEW e, e = core_ep0_tick(d, home, sm)
  PROVE  Upto(e, k)
  <1>1. PICK p : p = state_bridge_poll(d, home, sm)
    BY ZenonT(30)
  <1>2. Good(p) /\ Upto(p, k)
    BY <1>1, PollGood, PollLeavesQueues, SMTT(30) DEF Upto
  <1>3. PICK q : q = drain_pending_indications(p)
    OBVIOUS
  <1>4. Good(q)
    BY <1>2, <1>3, DrainGood, ZenonT(30)
  <1>5. PICK m : m = mbim_mark_notification_needed(q)
    OBVIOUS
  <1>6. Good(m)
    BY <1>4, <1>5, MarkGood
  <1>7. PICK K \in Kinds : K = RegIndications
    BY DEF Kinds
  <1>8. Carries(p, q, {}, K, {}, k)
    BY <1>2, <1>3, DrainCarries, ZenonT(30)
  <1>9. Carries(q, m, {}, K, {}, k)
    BY <1>4, <1>5, MarkCarries, ZenonT(30)
  <1>10. e = q \/ e = mbim_try_send_deferred_notification(m)
    BY <1>1, <1>3, <1>5, ZenonT(30) DEF core_ep0_tick
  <1>11. CASE e = q
    BY <1>2, <1>8, <1>11, ZenonT(30) DEF Carries
  <1>12. CASE e = mbim_try_send_deferred_notification(m)
    <2>1. Carries(m, e, {}, K, {}, k)
      BY <1>6, <1>12, TrySendCarries, ZenonT(30)
    <2> QED
      BY <1>2, <1>8, <1>9, <2>1, ZenonT(30) DEF Carries
  <1> QED
    BY <1>10, <1>11, <1>12

\* The next message has a transaction of its own.
LEMMA UptoMore ==
  ASSUME NEW d, Good(d), NEW k \in Nat, Upto(d, k)
  PROVE  Upto(d, k + 1)
  <1>1. ASSUME NEW i \in 1..Len(d.resp) PROVE d.resp[i].tid <= k + 1
    <2>1. d.resp[i] \in Items
      BY DevFields, SMTT(30)
    <2>2. d.resp[i].tid \in Int
      BY <2>1, Sizes, SMTT(30) DEF Items
    <2>3. d.resp[i].tid <= k
      BY DEF Upto
    <2> QED
      BY <2>2, <2>3, SMTT(30)
  <1>2. ASSUME NEW i \in 1..Len(d.held) PROVE d.held[i].tid <= k + 1
    <2>0. PICK C : C = [kind: Commands, tid: 1..MaxMessages]
      BY ZenonT(30)
    <2>1. d.held \in Seq(C)
      BY <2>0, DevFields, ZenonT(30)
    <2>4. d.held[i] \in C
      BY <2>1
    <2>2. d.held[i].tid \in Int
      BY <2>0, <2>4, Sizes, SMTT(30)
    <2>3. d.held[i].tid <= k
      BY DEF Upto
    <2> QED
      BY <2>2, <2>3
  <1> QED
    BY <1>1, <1>2, ZenonT(30) DEF Upto

\* What a GET takes was asked for.
LEMMA GetUpto ==
  ASSUME NEW d, Good(d), NEW k \in Nat, Upto(d, k),
         NEW e, e = core_on_get_encapsulated_response(d)
  PROVE  Upto(e, k)
  <1>1. PICK K \in Kinds : K = RegIndications
    BY DEF Kinds
  <1>2. PICK base \in K : base = "home"
    BY <1>1 DEF RegIndications
  <1>3. PICK G : G = K
    OBVIOUS
  <1>4. Current(d.resp, d.ind_queue, base, K, G)
    BY <1>3, AllIsCurrent
  <1>5. Searches(K, G)
    BY <1>3 DEF Searches
  <1> QED
    BY <1>4, <1>5, GetCarries, ZenonT(30)

\* Every step keeps to the transactions of the messages sent.
LEMMA TidNext == MbimInv /\ TidInv /\ [Next]_vars => TidInv'
  <1> SUFFICES ASSUME MbimInv, TidInv, [Next]_vars PROVE TidInv'
    OBVIOUS
  <1>0. /\ Good(dev) /\ dev \in DevType /\ ~dev.ep0_get_in_progress
        /\ host \in HostType /\ host.sent \in Nat /\ host.sent \in 0..MaxMessages
        /\ Upto(dev, host.sent) /\ host.got \subseteq 1..host.sent
    <2>1. host.sent \in 0..MaxMessages
      BY DEF MbimInv, HostType
    <2>2. Good(dev) /\ ~dev.ep0_get_in_progress /\ host \in HostType
      BY DEF MbimInv
    <2>3. dev \in DevType
      BY <2>2, DevFields
    <2>4. host.sent \in Nat
      BY <2>1, Sizes, SMTT(30)
    <2> QED
      BY <2>1, <2>2, <2>3, <2>4, ZenonT(30) DEF TidInv
  <1>1. CASE Tick
    <2>1. PICK home \in BOOLEAN, sm \in SmStates : dev' = core_ep0_tick(dev, home, sm)
      BY <1>1, ZenonT(30) DEF Tick
    <2>2. Upto(dev', host.sent)
      BY <1>0, <2>1, TickUpto, ZenonT(30)
    <2>3. host' = host
      BY <1>1 DEF Tick
    <2> QED
      BY <1>0, <2>2, <2>3, ZenonT(30) DEF TidInv
  <1>2. CASE NoEvent \/ UNCHANGED vars
    <2>1. dev' = dev /\ host' = host
      BY <1>2 DEF NoEvent, vars
    <2> QED
      BY <2>1, <1>0, ZenonT(30) DEF TidInv
  <1>3. CASE SetConfiguration
    <2>1. dev' = [dev EXCEPT !.eps_enabled = TRUE] /\ host' = host
      BY <1>3 DEF SetConfiguration
    <2>2. dev'.resp = dev.resp /\ dev'.held = dev.held
      BY <1>0, <2>1, ZenonT(30) DEF DevType
    <2> QED
      BY <1>0, <2>1, <2>2 DEF TidInv, Upto
  <1>4. CASE HostSend
    <2>1. PICK kind \in Messages :
            dev' = core_on_send_encapsulated_command(dev, kind, host.sent + 1)
      BY <1>4 DEF HostSend
    <2>2. /\ host.sent + 1 \in 1..MaxMessages /\ host.sent + 1 \in Nat
          /\ host.sent + 1 <= host.sent + 1
      BY <1>0, <1>4, Sizes DEF HostSend
    <2>3. host'.sent = host.sent + 1 /\ host'.got = host.got
      BY <1>0, <1>4, ZenonT(30) DEF HostSend, HostType
    <2>4. Upto(dev, host.sent + 1)
      BY <1>0, UptoMore
    <2>5. PICK K \in Kinds : K = PacketIndications
      BY DEF Kinds
    <2>6. "searching" \notin K
      BY <2>5, ZenonT(30) DEF PacketIndications
    <2>7. Carries(dev, dev', {}, K, {}, host.sent + 1)
      BY <1>0, <2>1, <2>2, <2>6, SendCarries, ZenonT(30)
    <2>8. Upto(dev', host.sent + 1)
      BY <2>4, <2>7, ZenonT(30) DEF Carries
    <2>9. host.got \subseteq 1..host.sent + 1
      <3>1. 1..host.sent \subseteq 1..host.sent + 1
        BY <1>0, SMTT(30)
      <3> QED
        BY <1>0, <3>1, ZenonT(30)
    <2> QED
      BY <2>3, <2>8, <2>9 DEF TidInv
  <1>5. CASE HostGet
    <2>1. PICK g : g = core_on_get_encapsulated_response(dev)
      OBVIOUS
    <2>2. Upto(g, host.sent)
      BY <1>0, <2>1, GetUpto, ZenonT(30)
    <2>3. Good(g) /\ g \in DevType
      <3>1. dev.held # <<>> => dev.resp # <<>>
        BY DEF MbimInv, HeldHasItsTurn
      <3> QED
        BY <1>0, <2>1, <3>1, GetGood, DevFields, ZenonT(30)
    <2>4. dev' = [g EXCEPT !.doorbell = FALSE]
      BY <1>5, <2>1 DEF HostGet
    <2>5. dev'.resp = g.resp /\ dev'.held = g.held
      BY <2>3, <2>4 DEF DevType
    <2>6. host'.sent = host.sent /\ host'.got \subseteq 1..host.sent
      <3>1. CASE dev.resp = <<>>
        BY <1>0, <1>5, <3>1, ZenonT(30) DEF HostGet
      <3>2. CASE dev.resp # <<>>
        <4>1. host' = HostReads(host, Head(dev.resp))
          BY <1>5, <3>2, ZenonT(30) DEF HostGet
        <4>2. dev.resp \in Seq(Items)
          BY <1>0, DevFields, ZenonT(30)
        <4>3. /\ Len(dev.resp) \in Nat /\ Len(dev.resp) > 0 /\ Head(dev.resp) = dev.resp[1]
              /\ Head(dev.resp) \in Items
          BY <3>2, <4>2, TakeHeld, ZenonT(30)
        <4>4. 1 \in 1..Len(dev.resp)
          BY <4>3, SMTT(30)
        <4>5. Head(dev.resp).tid <= host.sent
          BY <1>0, <4>3, <4>4, ZenonT(30) DEF Upto
        <4>6. {Head(dev.resp).tid} \ {0} \subseteq 1..host.sent
          <5>1. Head(dev.resp).tid \in Nat
            BY <4>3, Sizes DEF Items
          <5> QED
            BY <1>0, <4>5, <5>1, SMTT(30)
        <4>7. /\ host'.sent = host.sent
              /\ host'.got = host.got \cup ({Head(dev.resp).tid} \ {0})
          BY <1>0, <4>1, ZenonT(30) DEF HostReads, HostType
        <4> QED
          BY <1>0, <4>6, <4>7, ZenonT(30)
      <3> QED
        BY <3>1, <3>2
    <2> QED
      BY <2>2, <2>5, <2>6 DEF TidInv, Upto
  <1>6. CASE SmsArrives
    <2>1. dev' = [dev EXCEPT !.sms = dev.sms + 1] /\ host' = host
      BY <1>6 DEF SmsArrives
    <2>2. dev'.resp = dev.resp /\ dev'.held = dev.held
      BY <1>0, <2>1 DEF DevType
    <2> QED
      BY <1>0, <2>1, <2>2, ZenonT(30) DEF TidInv, Upto
  <1> QED
    BY <1>1, <1>2, <1>3, <1>4, <1>5, <1>6, ZenonT(30) DEF Next

\* The queues keep to their rings, the device to its type, and the host gets no
\* answer to a message it has not sent (mbim_resp_enqueue, mbim_hold_command,
\* ind_enqueue), for rings of any size.
THEOREM MbimTypeCorrect == Spec => []MbimTypeOK
  <1>1. Init => TidInv
    BY TidInit, ZenonT(30)
  <1>2. Init => LoopType
    BY DEF Init, LoopType
  <1>3. LoopType /\ [Next]_vars => LoopType'
    BY ZenonT(30) DEF Next, vars, Tick, NoEvent, SetConfiguration, HostSend, HostGet, SmsArrives,
           LoopType
  <1>4. MbimInv /\ TidInv /\ LoopType => MbimTypeOK
    <2> SUFFICES ASSUME MbimInv, TidInv, LoopType PROVE MbimTypeOK
      BY ZenonT(30)
    <2>1. dev.sms \in Nat
      BY DevFields DEF MbimInv
    <2>2. events \in 0..MaxEvents
      BY <2>1, Sizes DEF MbimInv
    <2>3. /\ host.sent \in 0..MaxMessages
          /\ host.reg \in RegIndications /\ host.packet \in PacketIndications
      BY DEF MbimInv, HostType
    <2> QED
      BY <2>2, <2>3 DEF MbimInv, TidInv, Good, MbimTypeOK, LoopType
  <1> QED
    BY <1>1, <1>2, <1>3, <1>4, TidNext, MbimInvariant, PTL DEF Spec

-----------------------------------------------------------------------------
(* The host's view *)

ViewInv == TellsReg(dev, host.reg, dev.home) /\ TellsPacket(dev, host.packet, dev.sm)

\* The bridge's ring can take what one more change of the engine's state puts in.
RingHasRoom == events > 0 => Len(dev.ind_queue) + 2 < IND_QUEUE_SIZE

\* Where nothing is on its way, what is told is what the host believes.
LEMMA ViewIsCurrent == MbimInv /\ ViewInv => HostViewIsCurrent
  <1> SUFFICES ASSUME MbimInv, ViewInv PROVE HostViewIsCurrent
    OBVIOUS
  <1>0. Good(dev) /\ host \in HostType
    BY DEF MbimInv
  <1>1. /\ DOMAIN dev.ind_queue = 1..Len(dev.ind_queue)
        /\ DOMAIN dev.resp = 1..Len(dev.resp)
    <2>1. dev.ind_queue \in Seq(BridgeIndications) /\ dev.resp \in Seq(Items)
      BY <1>0, DevFields, ZenonT(30)
    <2> QED
      BY <2>1, SMTT(30)
  <1>2. ASSUME NEW K, NEW G, NEW base, ~InTransit(K),
               Current(dev.resp, dev.ind_queue, base, K, G)
        PROVE  base \in G
    BY <1>1, <1>2, ZenonT(30) DEF InTransit, Current
  <1>3. ~InTransit(PacketIndications) => host.packet \in PacketNow(dev.sm)
    BY <1>2 DEF ViewInv, TellsPacket
  <1>4. ~InTransit(RegIndications) => host.reg \in RegNow(dev.home)
    BY <1>2, ZenonT(30) DEF ViewInv, TellsReg
  <1> QED
    BY <1>3, <1>4 DEF HostViewIsCurrent, PacketNow, RegNow

\* A tick with room in the ring.
LEMMA TickView ==
  ASSUME MbimInv, TidInv, ViewInv, RingHasRoom, Tick
  PROVE  /\ ViewInv' /\ Load(dev') <= Load(dev) + 2
         /\ events' = events => Load(dev') <= Load(dev)
         /\ events' = events \/ (events' = events - 1 /\ events > 0)
  <1>0. Good(dev) /\ ~dev.ep0_get_in_progress /\ host.sent \in Nat /\ events \in Nat
    BY Sizes DEF MbimInv, HostType
  <1>1. PICK home \in BOOLEAN, sm \in SmStates :
           /\ home # dev.home \/ sm # dev.sm => events > 0
           /\ dev' = core_ep0_tick(dev, home, sm)
           /\ events' = IF home # dev.home \/ sm # dev.sm THEN events - 1 ELSE events
    BY DEF Tick
  <1>2. Roomy(dev, home, sm)
    BY <1>1, ZenonT(30) DEF RingHasRoom, Roomy, Changed
  <1>3. TellsReg(dev, host.reg, dev.home) /\ TellsPacket(dev, host.packet, dev.sm)
    BY ZenonT(30) DEF ViewInv
  <1>4. Upto(dev, host.sent)
    BY DEF TidInv
  <1>5. PICK reg : reg = host.reg
    OBVIOUS
  <1>6. PICK packet : packet = host.packet
    OBVIOUS
  <1>7. PICK k \in Nat : k = host.sent
    BY <1>0
  <1>8. PICK e : e = core_ep0_tick(dev, home, sm)
    OBVIOUS
  <1>9. TellsReg(e, reg, e.home) /\ TellsPacket(e, packet, e.sm) /\ Grows(dev, e, home, sm)
    BY <1>0, <1>2, <1>3, <1>4, <1>5, <1>6, <1>7, <1>8, TickTells, ZenonT(30)
  <1>10. host' = host /\ dev' = e
    BY <1>1, <1>8, ZenonT(30) DEF Tick
  <1>11. ViewInv'
    BY <1>5, <1>6, <1>9, <1>10, ZenonT(30) DEF ViewInv
  <1>12. Good(e) /\ Queues(dev, e)
    BY <1>0, <1>8, TickGood, ZenonT(30)
  <1>13. /\ Len(dev.ind_queue) \in Nat /\ Len(dev.held) \in Nat
         /\ Len(e.ind_queue) \in Nat /\ Len(e.held) \in Nat
         /\ Len(e.held) <= Len(dev.held) + 0
    BY <1>0, <1>12, LoadNat, SMTT(30) DEF Queues
  <1>14. Load(e) <= Load(dev) + 2
    <2>1. Len(e.ind_queue) <= Len(dev.ind_queue) + 2
      BY <1>9 DEF Grows
    <2> QED
      BY <1>13, <2>1, LoadBound, SMTT(30)
  <1>15. ASSUME events' = events PROVE Load(e) <= Load(dev)
    <2>1. ~Changed(dev, home, sm)
      BY <1>0, <1>1, <1>15, SMTT(30) DEF Changed
    <2>2. Len(e.ind_queue) <= Len(dev.ind_queue)
      BY <1>9, <2>1 DEF Grows
    <2>3. Len(e.held) <= Len(dev.held)
      BY <1>13, SMTT(30)
    <2> QED
      BY <1>13, <2>2, <2>3, LoadShrinks, ZenonT(30)
  <1> QED
    BY <1>0, <1>1, <1>10, <1>11, <1>14, <1>15, ZenonT(30)


\* A message from the host: of the indications, only "searching" is added.
LEMMA SendView ==
  ASSUME MbimInv, TidInv, ViewInv, HostSend
  PROVE  /\ ViewInv' /\ Load(dev') <= Load(dev) + 1
         /\ host'.sent = host.sent + 1 /\ events' = events
  <1>0. /\ Good(dev) /\ ~dev.ep0_get_in_progress
        /\ host \in HostType /\ host.sent \in 0..MaxMessages
    BY DEF MbimInv, HostType
  <1>1. PICK kind \in Messages :
          dev' = core_on_send_encapsulated_command(dev, kind, host.sent + 1)
    BY DEF HostSend
  <1>2. PICK k \in Nat : k = host.sent + 1
    BY <1>0, Sizes
  <1>3. k \in 1..MaxMessages /\ k <= k
    BY <1>0, <1>2, Sizes DEF HostSend
  <1>4. PICK e : e = core_on_send_encapsulated_command(dev, kind, k)
    OBVIOUS
  <1>5. /\ dev' = e /\ host'.sent = k /\ host'.reg = host.reg /\ host'.packet = host.packet
        /\ events' = events
    BY <1>0, <1>1, <1>2, <1>4, ZenonT(30) DEF HostSend, HostType
  <1>6. ASSUME NEW base, NEW K \in Kinds, NEW G, "searching" \in K => "searching" \in G
        PROVE  Carries(dev, e, base, K, G, k) /\ Load(e) <= Load(dev) + 1
    BY <1>0, <1>3, <1>4, <1>6, SendCarries, ZenonT(30)
  <1>7. TellsReg(e, host.reg, e.home)
    <2>1. PICK K \in Kinds : K = RegIndications
      BY DEF Kinds
    <2>2. PICK G : G = RegNow(dev.home)
      OBVIOUS
    <2>3. "searching" \in G
      BY <2>2 DEF RegNow
    <2>4. Carries(dev, e, host.reg, K, G, k)
      BY <1>6, <2>3
    <2> QED
      BY <2>1, <2>2, <2>4, ZenonT(30) DEF Carries, ViewInv, TellsReg
  <1>8. TellsPacket(e, host.packet, e.sm) /\ Load(e) <= Load(dev) + 1
    <2>1. PICK K \in Kinds : K = PacketIndications
      BY DEF Kinds
    <2>2. PICK G : G = PacketNow(dev.sm)
      OBVIOUS
    <2>3. "searching" \notin K
      BY <2>1 DEF PacketIndications
    <2>4. Carries(dev, e, host.packet, K, G, k) /\ Load(e) <= Load(dev) + 1
      BY <1>6, <2>3
    <2> QED
      BY <2>1, <2>2, <2>4 DEF Carries, ViewInv, TellsPacket
  <1> QED
    BY <1>2, <1>5, <1>7, <1>8, ZenonT(30) DEF ViewInv

\* A GET: what the host reads is what it believes.
LEMMA GetView ==
  ASSUME MbimInv, TidInv, ViewInv, HostGet
  PROVE  /\ ViewInv' /\ Load(dev') <= Load(dev)
         /\ host'.sent = host.sent /\ events' = events
  <1>0. /\ Good(dev) /\ ~dev.ep0_get_in_progress /\ host \in HostType
        /\ host.sent \in Nat /\ Upto(dev, host.sent)
        /\ dev.held # <<>> => dev.resp # <<>>
    BY Sizes DEF MbimInv, HostType, TidInv, HeldHasItsTurn
  <1>1. PICK k \in Nat : k = host.sent
    BY <1>0
  <1>2. PICK g : g = core_on_get_encapsulated_response(dev)
    BY ZenonT(30)
  <1>3. Good(g) /\ g \in DevType
    BY <1>0, <1>2, GetGood, DevFields, ZenonT(30)
  <1>4. dev' = [g EXCEPT !.doorbell = FALSE] /\ events' = events
    BY <1>2 DEF HostGet
  <1>5. /\ dev'.resp = g.resp /\ dev'.held = g.held /\ dev'.ind_queue = g.ind_queue
        /\ dev'.home = g.home /\ dev'.sm = g.sm
    BY <1>3, <1>4 DEF DevType
  <1>6. /\ host'.reg = Believes(dev, host.reg, RegIndications)
        /\ host'.packet = Believes(dev, host.packet, PacketIndications)
        /\ host'.sent = host.sent
    BY <1>0, ZenonT(30) DEF HostGet, HostReads, HostType, Believes
  <1>7. ASSUME NEW base, NEW K \in Kinds, NEW G, Searches(K, G),
               Current(dev.resp, dev.ind_queue, base, K, G)
        PROVE  Reads(dev, g, base, K, G)
    <2>1. Upto(dev, k)
      BY <1>0, <1>1, ZenonT(30)
    <2> QED
      BY <1>0, <1>2, <1>7, <2>1, GetCarries, ZenonT(30)
  <1>8. TellsReg(dev', host'.reg, dev'.home)
    <2>1. PICK K \in Kinds : K = RegIndications
      BY DEF Kinds
    <2>2. PICK G : G = RegNow(dev.home)
      OBVIOUS
    <2>3. Searches(K, G) /\ Current(dev.resp, dev.ind_queue, host.reg, K, G)
      BY <2>1, <2>2 DEF RegNow, ViewInv, TellsReg, Searches
    <2>4. Reads(dev, g, host.reg, K, G)
      BY <1>7, <2>3, ZenonT(30)
    <2> QED
      BY <1>5, <1>6, <2>1, <2>2, <2>4, ZenonT(30) DEF TellsReg, Reads
  <1>9. TellsPacket(dev', host'.packet, dev'.sm) /\ Load(g) <= Load(dev)
    <2>1. PICK K \in Kinds : K = PacketIndications
      BY DEF Kinds
    <2>2. PICK G : G = PacketNow(dev.sm)
      OBVIOUS
    <2>3. Searches(K, G) /\ Current(dev.resp, dev.ind_queue, host.packet, K, G)
      BY <2>1, <2>2 DEF PacketIndications, ViewInv, TellsPacket, Searches
    <2>4. Reads(dev, g, host.packet, K, G)
      BY <1>7, <2>3, ZenonT(30)
    <2> QED
      BY <1>5, <1>6, <2>1, <2>2, <2>4, ZenonT(30) DEF TellsPacket, Reads
  <1>10. Load(dev') = Load(g)
    BY <1>5 DEF Load
  <1> QED
    BY <1>4, <1>6, <1>8, <1>9, <1>10, ZenonT(30) DEF ViewInv

\* Every other step leaves the rings, the held commands and the engine's state alone.
LEMMA QuietView ==
  ASSUME MbimInv, ViewInv, NoEvent \/ UNCHANGED vars \/ SetConfiguration \/ SmsArrives
  PROVE  /\ ViewInv' /\ Load(dev') = Load(dev) /\ host' = host
         /\ events' = events \/ (events' = events - 1 /\ events > 0)
  <1>1. dev \in DevType
    BY DevFields DEF MbimInv
  <1>2. /\ \/ dev' = dev \/ dev' = [dev EXCEPT !.eps_enabled = TRUE]
           \/ dev' = [dev EXCEPT !.sms = dev.sms + 1]
        /\ host' = host
        /\ events' = events \/ (events' = events - 1 /\ events > 0)
    BY DEF NoEvent, vars, SetConfiguration, SmsArrives
  <1>3. /\ dev'.resp = dev.resp /\ dev'.held = dev.held /\ dev'.ind_queue = dev.ind_queue
        /\ dev'.home = dev.home /\ dev'.sm = dev.sm
    BY <1>1, <1>2 DEF DevType
  <1> QED
    BY <1>2, <1>3, ZenonT(30) DEF ViewInv, TellsReg, TellsPacket, Load

\* Every step keeps the host told.
LEMMA ViewNext == MbimInv /\ TidInv /\ ViewInv /\ RingHasRoom /\ [Next]_vars => ViewInv'
  <1> SUFFICES ASSUME MbimInv, TidInv, ViewInv, RingHasRoom, [Next]_vars PROVE ViewInv'
    OBVIOUS
  <1>1. CASE Tick
    BY <1>1, TickView, ZenonT(30)
  <1>2. CASE HostSend
    BY <1>2, SendView
  <1>3. CASE HostGet
    BY <1>3, GetView
  <1>4. CASE NoEvent \/ UNCHANGED vars \/ SetConfiguration \/ SmsArrives
    BY <1>4, QuietView, ZenonT(30)
  <1> QED
    BY <1>1, <1>2, <1>3, <1>4, ZenonT(30) DEF Next

\* Initially the host is told all there is to tell.
LEMMA ViewInit == Init => ViewInv
  <1> SUFFICES ASSUME Init PROVE ViewInv
    OBVIOUS
  <1>1. /\ dev.resp = <<>> /\ dev.ind_queue = <<>> /\ dev.sm = "inactive" /\ ~dev.home
        /\ host.reg = "deregistered" /\ host.packet = "detached"
    BY DEF Init
  <1>2. host.reg \in RegNow(dev.home) /\ host.packet \in PacketNow(dev.sm)
    BY <1>1 DEF RegNow, PacketNow
  <1>3. ASSUME NEW K, NEW G, NEW base \in G PROVE Current(<<>>, <<>>, base, K, G)
    BY DEF Current
  <1> QED
    BY <1>1, <1>2, <1>3, ZenonT(30) DEF ViewInv, TellsReg, TellsPacket

\* As long as the bridge's ring has room for the two indications that one change of
\* the engine's state may cause, the host's picture of registration and packet
\* service is current once nothing is on its way (state_bridge_poll, ind_enqueue,
\* drain_pending_indications), for rings of any size.
THEOREM HostIsTold == Spec /\ []RingHasRoom => []HostViewIsCurrent
  <1>1. Init => TidInv
    BY TidInit
  <1> QED
    BY <1>1, TidNext, ViewInit, ViewNext, ViewIsCurrent, MbimInvariant, PTL DEF Spec

-----------------------------------------------------------------------------
(* The room in the ring, counted *)

\* Every change of the engine's state adds two indications at most, and every message
\* one, either at once or after it was held.
CountInv == Load(dev) <= 2 * (MaxEvents - events) + host.sent

\* A ring larger than all there is to tell has room.
LEMMA CountedRoom ==
  ASSUME IND_QUEUE_SIZE > 2 * MaxEvents + MaxMessages, MbimInv, CountInv
  PROVE  RingHasRoom
  <1>1. /\ Len(dev.ind_queue) \in Nat /\ Len(dev.held) \in Nat
        /\ Load(dev) = Len(dev.ind_queue) + Len(dev.held)
    BY LoadNat DEF MbimInv, Load
  <1>2. events \in Nat /\ host.sent \in 0..MaxMessages
    BY DEF MbimInv, HostType
  <1>3. ASSUME NEW a \in Nat, NEW b \in Nat, NEW l, NEW ev \in Nat, NEW sent \in 0..MaxMessages,
               l = a + b, l <= 2 * (MaxEvents - ev) + sent, ev > 0
        PROVE  a + 2 < IND_QUEUE_SIZE
    BY <1>3, Sizes, SMTT(30)
  <1> QED
    BY <1>1, <1>2, <1>3, ZenonT(30) DEF RingHasRoom, CountInv

\* Every step counts.
LEMMA CountNext ==
  MbimInv /\ MbimInv' /\ TidInv /\ ViewInv /\ RingHasRoom /\ CountInv /\ [Next]_vars => CountInv'
  <1> SUFFICES ASSUME MbimInv, MbimInv', TidInv, ViewInv, RingHasRoom, CountInv, [Next]_vars
               PROVE  CountInv'
    BY ZenonT(30)
  <1>0. /\ Load(dev) \in Nat /\ Load(dev') \in Nat /\ events \in Nat /\ host.sent \in Nat
        /\ MaxEvents \in Nat
    <2>1. Load(dev) \in Nat
      BY LoadNat, ZenonT(30) DEF MbimInv
    <2>2. Load(dev') \in Nat
      BY LoadNat, ZenonT(30) DEF MbimInv
    <2> QED
      BY <2>1, <2>2, Sizes, SMTT(30) DEF MbimInv, HostType
  <1>1. \/ /\ Load(dev') <= Load(dev) + 2 /\ events' = events - 1 /\ host'.sent = host.sent
        \/ /\ Load(dev') <= Load(dev) /\ events' = events
           /\ host'.sent = host.sent
        \/ /\ Load(dev') <= Load(dev) + 1 /\ events' = events
           /\ host'.sent = host.sent + 1
    <2>1. CASE Tick
      <3>1. host' = host
        BY <2>1, ZenonT(30) DEF Tick
      <3> QED
        BY <2>1, <3>1, TickView, ZenonT(30)
    <2>2. CASE HostSend
      BY <2>2, SendView, ZenonT(30)
    <2>3. CASE HostGet
      BY <2>3, GetView, ZenonT(30)
    <2>4. CASE NoEvent \/ UNCHANGED vars \/ SetConfiguration \/ SmsArrives
      BY <1>0, <2>4, QuietView, SMTT(30)
    <2> QED
      BY <2>1, <2>2, <2>3, <2>4, ZenonT(30) DEF Next
  <1>2. ASSUME NEW l \in Nat, NEW m \in Nat, NEW s \in Nat, NEW t, NEW v \in Nat, NEW w,
               l <= 2 * (MaxEvents - v) + s,
               \/ m <= l + 2 /\ w = v - 1 /\ t = s
               \/ m <= l /\ w = v /\ t = s
               \/ m <= l + 1 /\ w = v /\ t = s + 1
        PROVE  m <= 2 * (MaxEvents - w) + t
    BY <1>0, <1>2
  <1>3. Load(dev) <= 2 * (MaxEvents - events) + host.sent
    BY DEF CountInv
  <1> QED
    BY <1>0, <1>1, <1>2, <1>3, ZenonT(30) DEF CountInv

\* With a bridge ring larger than all that can be put into it (twice the changes of the
\* engine's state and once the messages), the host's picture is always current once
\* nothing is on its way: no indication is lost, reordered or withdrawn wrongly in the
\* two queues (state_bridge_poll, ind_drop_first, drain_pending_indications).
THEOREM HostViewCurrent ==
  ASSUME IND_QUEUE_SIZE > 2 * MaxEvents + MaxMessages
  PROVE  Spec => []HostViewIsCurrent
  <1>1. Init => TidInv
    BY TidInit
  <1>2. Init => CountInv
    <2> SUFFICES ASSUME Init PROVE CountInv
      BY ZenonT(30)
    <2>1. Load(dev) = 0 /\ events = MaxEvents /\ host.sent = 0
      BY DEF Init, Load
    <2> QED
      BY <2>1, Sizes DEF CountInv
  <1>3. MbimInv /\ CountInv => RingHasRoom
    BY CountedRoom
  <1> QED
    BY <1>1, <1>2, <1>3, TidNext, ViewInit, ViewNext, CountNext, ViewIsCurrent,
       MbimInvariant, PTL DEF Spec
=============================================================================
