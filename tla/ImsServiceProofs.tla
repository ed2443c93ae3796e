-------------------------- MODULE ImsServiceProofs --------------------------
(***************************************************************************)
(* The inductive invariant of the IMS service, and that the worker, the    *)
(* main thread, the network and the SMSC keep it: for every number of SMS, *)
(* sessions and faults and every size of the queues. SmsInboxProofs has    *)
(* the theorems, of the service together with the inbox it fills.          *)
(***************************************************************************)
EXTENDS ImsService, TLAPS

(* The inductive invariant, a part for each thing that goes right *)

HistType ==
    [sent: Seq(1..MaxMo), flushed: SUBSET (1..MaxMo), inbox: Seq(1..MaxMt),
     dropped: SUBSET (1..MaxMt), spoilt: 0..MaxAttempts, stale: BOOLEAN]

CoreType ==
    [binding: 0..Expires, acked: 0..MaxMt, sessions: 0..MaxSessions,
     faults: 0..MaxFaults]

\* Types, and where the attempts and the worker's locals are at their defaults.
Typed ==
    /\ ImsTypeOK
    /\ hist \in HistType
    /\ ~svc.register_sent => svc.attempts = 0
    /\ worker.pc = "wait" => worker = Resting
    /\ worker.pc = "auth" => worker.ip.kind \in {"challenge", "badChallenge"}
    /\ worker.pc = "mark" => worker.ip.kind = "challenge"

IsMessage(p) == p.kind = "message"

NotAfter(p, q) == IsMessage(p) /\ IsMessage(q) => p.mt <= q.mt

\* The SMS of a queue of packets are in order, repetitions side by side.
InOrder(s) == \A i, j \in 1..Len(s) : i < j => NotAfter(s[i], s[j])

Increasing(s) == \A i, j \in 1..Len(s) : i < j => s[i] < s[j]

AllBelow(S, T) == \A x \in S, y \in T : x < y

OnTheWay == Range(svc.ip) \cup Range(net)

\* The way of an MT SMS: the SMSC is at most one ahead of the worker, everything
\* on its way is in order and not behind the last SMS handled, and all up to that
\* one went through the ring in order or found it full.
MtInv ==
    /\ core.acked <= last /\ last <= core.acked + 1
    /\ InOrder(svc.ip) /\ InOrder(net)
    /\ \A p \in Range(svc.ip), q \in Range(net) : NotAfter(p, q)
    /\ \A q \in OnTheWay : NotAfter(worker.ip, q)
    /\ \A p \in OnTheWay \cup {worker.ip} :
          IsMessage(p) => last <= p.mt /\ p.mt <= core.acked + 1
    /\ Increasing(hist.inbox) /\ Increasing(ring)
    /\ AllBelow(Range(hist.inbox), Range(ring))
    /\ \A n \in Range(hist.inbox) \cup Range(ring) : n <= last
    /\ 1..last \subseteq Range(hist.inbox) \cup Range(ring) \cup hist.dropped

\* The way of an MO SMS, from the queue by way of the worker.
MoInv ==
    /\ Increasing(svc.sms) /\ Increasing(hist.sent)
    /\ AllBelow(Range(hist.sent), Range(svc.sms))
    /\ worker.sms # 0 => /\ AllBelow(Range(hist.sent), {worker.sms})
                         /\ AllBelow({worker.sms}, Range(svc.sms))
    /\ AllBelow(Range(svc.sms) \cup {worker.sms} \cup Range(hist.sent),
                {svc.next_ref})
    /\ 1..(svc.next_ref - 1) \subseteq
          Range(svc.sms) \cup {worker.sms} \cup Range(hist.sent) \cup hist.flushed
    /\ svc.sms # <<>> => svc.registered
    /\ worker.sms # 0 /\ ~worker.stale /\ ~hist.stale =>
          worker.ready /\ svc.session = "full"

\* What there is only with a session that can carry SIP.
SessionInv ==
    /\ core.binding > 0 => svc.session = "full"
    /\ net # <<>> => svc.session = "full"
    /\ svc.ip # <<>> => svc.session = "full"
    /\ worker.ip # NoPacket /\ ~worker.stale => svc.session = "full"
    /\ svc.registered /\ ~hist.stale => svc.session = "full"

IsProgress(p) == p.kind \in {"ok", "challenge"}

\* A refresh that nothing has spoilt is with the worker or on its way.
RefreshPending ==
    \/ \E p \in OnTheWay : IsProgress(p)
    \/ ~worker.stale /\ \/ worker.pc = "send"
                        \/ worker.pc \in {"handle", "auth"} /\ IsProgress(worker.ip)

\* The P-CSCF's binding outlasts the refresh timer: a 200 that is still on its way
\* is as old as the binding, and between the timer and the next 200 no time passes.
BindingInv ==
    hist.spoilt = 0 =>
        /\ \A p \in OnTheWay : p.kind = "ok" => core.binding = Expires
        /\ worker.ip.kind = "ok" /\ ~worker.stale => core.binding = Expires
        /\ svc.registered /\ ~hist.stale =>
              IF svc.refresh = Off
              THEN RefreshPending /\ core.binding >= Expires - RefreshTime
              ELSE core.binding >= svc.refresh + (Expires - RefreshTime)

ServiceInv == Typed /\ MtInv /\ MoInv /\ SessionInv /\ BindingInv

-----------------------------------------------------------------------------
(* Sequences *)

\* What is in a sequence is of its type.
LEMMA RangeTyped ==
  ASSUME NEW S, NEW s \in Seq(S)
  PROVE  /\ Range(s) \subseteq S /\ Len(s) \in Nat
         /\ Range(s) = {s[i] : i \in 1..Len(s)}
         /\ \A i \in 1..Len(s) : s[i] \in Range(s)
         /\ s = <<>> <=> Len(s) = 0
         /\ s = <<>> <=> Range(s) = {}
  <1>1. DOMAIN s = 1..Len(s) /\ Len(s) \in Nat /\ \A i \in 1..Len(s) : s[i] \in S
    OBVIOUS
  <1>2. Range(s) = {s[i] : i \in 1..Len(s)}
    BY <1>1 DEF Range
  <1>3. s = <<>> <=> Len(s) = 0
    OBVIOUS
  <1>4. Len(s) # 0 => 1 \in 1..Len(s)
    BY <1>1
  <1> QED
    BY <1>1, <1>2, <1>3, <1>4

\* An empty queue holds nothing.
LEMMA RangeEmpty == Range(<<>>) = {}
  BY DEF Range

\* Taking the first of a queue.
LEMMA TailRange ==
  ASSUME NEW S, NEW s \in Seq(S), s # <<>>
  PROVE  /\ Head(s) \in S /\ Tail(s) \in Seq(S) /\ Len(Tail(s)) = Len(s) - 1
         /\ Range(s) = {Head(s)} \cup Range(Tail(s))
  <1>1. /\ Tail(s) \in Seq(S) /\ Len(Tail(s)) = Len(s) - 1 /\ Len(s) \in Nat \ {0}
        /\ Head(s) = s[1] /\ s[1] \in S
        /\ \A i \in 1..Len(Tail(s)) : Tail(s)[i] = s[i + 1]
    OBVIOUS
  <1>2. /\ Range(s) = {s[i] : i \in 1..Len(s)}
        /\ Range(Tail(s)) = {Tail(s)[i] : i \in 1..Len(Tail(s))}
    BY <1>1, RangeTyped, ZenonT(30)
  <1>3. ASSUME NEW x \in Range(s) PROVE x \in {Head(s)} \cup Range(Tail(s))
    <2>1. PICK i \in 1..Len(s) : x = s[i]
      BY <1>2
    <2>2. CASE i = 1
      BY <2>1, <2>2, <1>1
    <2>3. CASE i # 1
      <3>1. i - 1 \in 1..Len(Tail(s)) /\ (i - 1) + 1 = i
        BY <2>3, <1>1
      <3> QED
        BY <3>1, <2>1, <1>1, <1>2
    <2> QED
      BY <2>2, <2>3
  <1>4. ASSUME NEW x \in Range(Tail(s)) PROVE x \in Range(s)
    <2>1. PICK i \in 1..Len(Tail(s)) : x = Tail(s)[i]
      BY <1>2
    <2>2. i + 1 \in 1..Len(s)
      BY <1>1
    <2> QED
      BY <2>1, <2>2, <1>1, <1>2
  <1>5. Head(s) \in Range(s)
    BY <1>1, <1>2
  <1> QED
    BY <1>1, <1>3, <1>4, <1>5

\* Adding to a queue.
LEMMA AppendRange ==
  ASSUME NEW S, NEW s \in Seq(S), NEW x \in S
  PROVE  /\ Append(s, x) \in Seq(S) /\ Len(Append(s, x)) = Len(s) + 1
         /\ Range(Append(s, x)) = Range(s) \cup {x}
         /\ Append(s, x) # <<>>
  <1> DEFINE t == Append(s, x)
  <1>1. /\ t \in Seq(S) /\ Len(t) = Len(s) + 1 /\ Len(s) \in Nat
        /\ \A i \in 1..Len(s) : t[i] = s[i]
        /\ t[Len(s) + 1] = x
    OBVIOUS
  <1> HIDE DEF t
  <1>2. Range(s) = {s[i] : i \in 1..Len(s)} /\ Range(t) = {t[i] : i \in 1..Len(t)}
    BY <1>1, RangeTyped
  <1>3. ASSUME NEW y \in Range(t) PROVE y \in Range(s) \cup {x}
    <2>1. PICK i \in 1..Len(t) : y = t[i]
      BY <1>2
    <2>2. i \in 1..Len(s) \/ i = Len(s) + 1
      BY <1>1
    <2> QED
      BY <2>1, <2>2, <1>1, <1>2
  <1>4. ASSUME NEW y \in Range(s) PROVE y \in Range(t)
    <2>1. PICK i \in 1..Len(s) : y = s[i]
      BY <1>2
    <2>2. i \in 1..Len(t)
      BY <1>1
    <2> QED
      BY <2>1, <2>2, <1>1, <1>2
  <1>5. Len(s) + 1 \in 1..Len(t)
    BY <1>1
  <1>6. x \in Range(t)
    BY <1>1, <1>2, <1>5
  <1>7. t # <<>>
    BY <1>1, RangeTyped
  <1> QED
    BY <1>1, <1>3, <1>4, <1>6, <1>7 DEF t

\* What was added to a queue can be told from the result.
LEMMA AppendInjective ==
  ASSUME NEW S, NEW s \in Seq(S), NEW x \in S, NEW y \in S, Append(s, x) = Append(s, y)
  PROVE  x = y
  <1>1. Append(s, x)[Len(s) + 1] = x /\ Append(s, y)[Len(s) + 1] = y
    OBVIOUS
  <1> QED
    BY <1>1

\* A packet put on the network is the only one that is new there.
LEMMA PacketSent ==
  ASSUME net \in Seq(Packets), NEW a \in Packets, net' = Append(net, a)
  PROVE  net' \in Seq(Packets) /\ Range(net') = Range(net) \cup {a}
  BY AppendRange

\* The fields of the registrar and what a fault or a new binding leaves of them.
LEMMA CoreFields ==
  ASSUME NEW c \in CoreType
  PROVE  /\ c.acked \in 0..MaxMt /\ c.faults \in 0..MaxFaults /\ c.binding \in 0..Expires
         /\ [c EXCEPT !.binding = Expires].acked = c.acked
         /\ [c EXCEPT !.binding = Expires].binding = Expires
         /\ [c EXCEPT !.binding = Expires].faults = c.faults
  BY DEF CoreType

\* A new binding lasts Expires.
LEMMA CoreBound ==
  ASSUME NEW c \in CoreType
  PROVE  [c EXCEPT !.binding = Expires] \in CoreType
  <1>1. Expires \in 0..Expires
    BY ImsAssumption
  <1> QED
    BY <1>1 DEF CoreType

\* An increasing queue stays so when its first is taken, which is the least.
LEMMA IncreasingTail ==
  ASSUME NEW S \in SUBSET Nat, NEW s \in Seq(S), s # <<>>, Increasing(s)
  PROVE  Increasing(Tail(s)) /\ AllBelow({Head(s)}, Range(Tail(s)))
  <1>1. /\ Tail(s) \in Seq(S) /\ Len(Tail(s)) = Len(s) - 1 /\ Len(s) \in Nat \ {0}
        /\ Head(s) = s[1]
        /\ \A i \in 1..Len(Tail(s)) : Tail(s)[i] = s[i + 1]
    OBVIOUS
  <1>2. ASSUME NEW i \in 1..Len(Tail(s))
        PROVE  i + 1 \in 1..Len(s) /\ 1 \in 1..Len(s) /\ 1 < i + 1
    BY <1>1
  <1>3. Increasing(Tail(s))
    BY <1>1, <1>2 DEF Increasing
  <1>4. ASSUME NEW y \in Range(Tail(s)) PROVE Head(s) < y
    <2>0. Range(Tail(s)) = {Tail(s)[i] : i \in 1..Len(Tail(s))}
      BY <1>1, RangeTyped, ZenonT(30)
    <2>1. PICK i \in 1..Len(Tail(s)) : y = Tail(s)[i]
      BY <2>0
    <2> QED
      BY <2>1, <1>1, <1>2 DEF Increasing
  <1> QED
    BY <1>3, <1>4 DEF AllBelow

\* It stays so when something greater is added.
LEMMA IncreasingAppend ==
  ASSUME NEW S \in SUBSET Nat, NEW s \in Seq(S), NEW x \in S, Increasing(s),
         AllBelow(Range(s), {x})
  PROVE  Increasing(Append(s, x))
  <1> DEFINE t == Append(s, x)
  <1>1. /\ t \in Seq(S) /\ Len(t) = Len(s) + 1 /\ Len(s) \in Nat
        /\ \A i \in 1..Len(s) : t[i] = s[i]
        /\ t[Len(s) + 1] = x
    OBVIOUS
  <1> HIDE DEF t
  <1>2. \A i \in 1..Len(s) : s[i] < x
    BY RangeTyped DEF AllBelow
  <1>3. ASSUME NEW i \in 1..Len(t), NEW j \in 1..Len(t), i < j PROVE t[i] < t[j]
    <2>1. i \in 1..Len(s) /\ (j \in 1..Len(s) \/ j = Len(s) + 1)
      BY <1>1, <1>3, SMTT(30)
    <2> QED
      BY <2>1, <1>1, <1>2, <1>3 DEF Increasing
  <1> QED
    BY <1>3 DEF Increasing, t

\* The same for the SMS in a queue of packets.
LEMMA InOrderTail ==
  ASSUME NEW S, NEW s \in Seq(S), s # <<>>, InOrder(s)
  PROVE  InOrder(Tail(s)) /\ \A q \in Range(Tail(s)) : NotAfter(Head(s), q)
  <1>1. /\ Tail(s) \in Seq(S) /\ Len(Tail(s)) = Len(s) - 1 /\ Len(s) \in Nat \ {0}
        /\ Head(s) = s[1]
        /\ \A i \in 1..Len(Tail(s)) : Tail(s)[i] = s[i + 1]
    OBVIOUS
  <1>2. ASSUME NEW i \in 1..Len(Tail(s))
        PROVE  i + 1 \in 1..Len(s) /\ 1 \in 1..Len(s) /\ 1 < i + 1
    BY <1>1
  <1>3. ASSUME NEW i \in 1..Len(Tail(s)), NEW j \in 1..Len(Tail(s)), i < j
        PROVE  NotAfter(Tail(s)[i], Tail(s)[j])
    <2>1. i + 1 < j + 1
      BY <1>3
    <2> QED
      BY <2>1, <1>1, <1>2 DEF InOrder
  <1>4. ASSUME NEW y \in Range(Tail(s)) PROVE NotAfter(Head(s), y)
    <2>0. Range(Tail(s)) = {Tail(s)[i] : i \in 1..Len(Tail(s))}
      BY <1>1, RangeTyped, ZenonT(30)
    <2>1. PICK i \in 1..Len(Tail(s)) : y = Tail(s)[i]
      BY <2>0
    <2> QED
      BY <2>1, <1>1, <1>2 DEF InOrder
  <1> QED
    BY <1>3, <1>4 DEF InOrder

\* A sequence stays in order when what is appended is not before any of its members.
LEMMA InOrderAppend ==
  ASSUME NEW S, NEW s \in Seq(S), NEW x \in S, InOrder(s),
         \A p \in Range(s) : NotAfter(p, x)
  PROVE  InOrder(Append(s, x))
  <1> DEFINE t == Append(s, x)
  <1>1. /\ t \in Seq(S) /\ Len(t) = Len(s) + 1 /\ Len(s) \in Nat
        /\ \A i \in 1..Len(s) : t[i] = s[i]
        /\ t[Len(s) + 1] = x
    OBVIOUS
  <1> HIDE DEF t
  <1>2. \A i \in 1..Len(s) : NotAfter(s[i], x)
    BY RangeTyped
  <1>3. ASSUME NEW i \in 1..Len(t), NEW j \in 1..Len(t), i < j
        PROVE  NotAfter(t[i], t[j])
    <2>1. i \in 1..Len(s) /\ (j \in 1..Len(s) \/ j = Len(s) + 1)
      BY <1>1, <1>3
    <2> QED
      BY <2>1, <1>1, <1>2, <1>3, ZenonT(30) DEF InOrder
  <1> QED
    BY <1>3 DEF InOrder, t

-----------------------------------------------------------------------------
(* What does not change *)

\* The constants, as numbers.
LEMMA Constants ==
  /\ MaxAttempts \in Nat \ {0} /\ RetryTime \in Nat \ {0} /\ RefreshTime \in Nat \ {0}
  /\ Expires \in Nat /\ RefreshTime < Expires
  /\ SmsQueueSize \in Nat \ {0} /\ IpQueueSize \in Nat \ {0} /\ RingSize \in Nat \ {0}
  /\ MaxMo \in Nat /\ MaxMt \in Nat /\ MaxSessions \in Nat /\ MaxFaults \in Nat
  /\ Off \notin Nat
  <1>1. MaxAttempts \in Nat \ {0} /\ RetryTime \in Nat \ {0} /\ RefreshTime \in Nat \ {0}
    BY ImsAssumption
  <1>2. Expires \in Nat /\ RefreshTime < Expires
    BY ImsAssumption, <1>1
  <1> QED
    BY <1>1, <1>2, ImsAssumption DEF Off

\* The types of the variables.
LEMMA Types ==
  ASSUME Typed
  PROVE  /\ svc \in SvcType /\ worker \in WorkerType /\ core \in CoreType
         /\ hist \in HistType /\ last \in 0..MaxMt /\ ring \in Seq(1..MaxMt)
         /\ net \in Seq(Packets)
         /\ Len(svc.sms) <= SmsQueueSize /\ Len(svc.ip) <= IpQueueSize
         /\ Len(ring) <= RingSize
         /\ worker.pc = "wait" => worker = Resting
         /\ ~svc.register_sent => svc.attempts = 0
         /\ worker.pc = "auth" => worker.ip.kind \in {"challenge", "badChallenge"}
         /\ worker.pc = "mark" => worker.ip.kind = "challenge"
  BY DEF Typed, ImsTypeOK, CoreType

\* The kinds of packets.
LEMMA PacketKinds ==
  /\ \A p \in Packets : /\ p.kind \in Answers \cup {"message"}
                        /\ p.mt \in 0..MaxMt
                        /\ IsMessage(p) => p.mt \in 1..MaxMt
                        /\ p # NoPacket
  /\ NoPacket.kind = "none" /\ NoPacket.mt = 0
  BY Constants DEF Packets, Answers, IsMessage, NoPacket

\* The worker between two rounds holds nothing.
LEMMA RestingFields ==
  /\ Resting \in WorkerType /\ Resting.ip = NoPacket /\ Resting.sms = 0
  /\ Resting.pc = "wait" /\ NoPacket.kind = "none" /\ ~IsMessage(NoPacket)
  BY Constants DEF Resting, WorkerType, NoPacket, IsMessage

\* The invariant of the service holds at the start.
LEMMA ServiceInitial ==
  ASSUME ServiceInit
  PROVE  ServiceInv
  <1>1. /\ svc = [session |-> "none", registered |-> FALSE, register_sent |-> FALSE,
                  sent_age |-> Off, attempts |-> 0, auth |-> FALSE, refresh |-> Off,
                  sms |-> <<>>, ip |-> <<>>, next_ref |-> 1]
        /\ last = 0 /\ worker = Resting /\ ring = <<>> /\ net = <<>>
    BY DEF ServiceInit
  <1>2. /\ core = [binding |-> 0, acked |-> 0, sessions |-> MaxSessions,
                   faults |-> MaxFaults]
        /\ hist = [sent |-> <<>>, flushed |-> {}, inbox |-> <<>>,
                   dropped |-> {}, spoilt |-> 0, stale |-> FALSE]
    BY DEF ServiceInit
  <1>3. /\ svc \in SvcType /\ svc.session = "none" /\ ~svc.registered
        /\ svc.attempts = 0 /\ svc.sms = <<>> /\ svc.ip = <<>> /\ svc.next_ref = 1
    <2>1. /\ Off \in {Off} \cup 0..RetryTime /\ Off \in {Off} \cup 0..RefreshTime
          /\ 0 \in 0..MaxAttempts /\ 1 \in 1..(MaxMo + 1) /\ "none" \in Sessions
          /\ <<>> \in Seq(1..MaxMo) /\ <<>> \in Seq(Packets)
      BY Constants DEF Sessions
    <2> QED
      BY <2>1, <1>1 DEF SvcType
  <1>4. core \in CoreType /\ core.binding = 0 /\ core.acked = 0
    BY <1>2, Constants DEF CoreType
  <1>5. /\ hist \in HistType /\ hist.sent = <<>> /\ hist.inbox = <<>> /\ ~hist.stale
        /\ hist.flushed = {} /\ hist.dropped = {}
    BY <1>2, Constants DEF HistType
  <1>6. /\ worker \in WorkerType /\ worker.ip = NoPacket /\ worker.sms = 0
        /\ worker.pc = "wait" /\ ~IsMessage(NoPacket) /\ NoPacket.kind = "none"
    BY <1>1, RestingFields
  <1>7. /\ Len(<<>>) = 0 /\ Range(<<>>) = {} /\ Increasing(<<>>) /\ InOrder(<<>>)
    BY RangeEmpty DEF Increasing, InOrder
  <1>8. OnTheWay = {}
    BY <1>1, <1>3, <1>7 DEF OnTheWay
  <1>9. Typed
    <2>1. /\ 0 <= SmsQueueSize /\ 0 <= IpQueueSize /\ 0 <= RingSize /\ 0 \in 0..MaxMt
          /\ <<>> \in Seq(1..MaxMt) /\ <<>> \in Seq(Packets)
      BY Constants
    <2>2. ImsTypeOK
      BY <2>1, <1>1, <1>3, <1>4, <1>6, <1>7, ZenonT(30) DEF ImsTypeOK, CoreType
    <2> QED
      BY <2>2, <1>1, <1>3, <1>5, <1>6 DEF Typed
  <1>10. MtInv
    BY <1>1, <1>3, <1>4, <1>5, <1>6, <1>7, <1>8, SMTT(30) DEF MtInv, AllBelow
  <1>11. MoInv
    BY <1>3, <1>5, <1>6, <1>7 DEF MoInv, AllBelow
  <1>12. SessionInv
    BY <1>1, <1>3, <1>4, <1>6 DEF SessionInv
  <1>13. BindingInv
    BY <1>3, <1>6, <1>8 DEF BindingInv
  <1> QED
    BY <1>9, <1>10, <1>11, <1>12, <1>13 DEF ServiceInv

\* The way of the MT SMS only depends on these.
LEMMA MtFrame ==
  ASSUME MtInv, core'.acked = core.acked, last' = last, svc'.ip = svc.ip, net' = net,
         worker'.ip \in {worker.ip, NoPacket}, hist'.inbox = hist.inbox,
         hist'.dropped = hist.dropped, ring' = ring
  PROVE  MtInv'
  <1>1. ~IsMessage(NoPacket)
    BY PacketKinds DEF IsMessage
  <1>2. OnTheWay' = OnTheWay
    BY DEF OnTheWay
  <1>3. \A q \in OnTheWay : NotAfter(worker'.ip, q)
    BY <1>1 DEF MtInv, NotAfter
  <1>4. \A p \in OnTheWay \cup {worker'.ip} :
           IsMessage(p) => last <= p.mt /\ p.mt <= core.acked + 1
    BY <1>1 DEF MtInv
  <1> QED
    BY <1>2, <1>3, <1>4 DEF MtInv

\* The way of the MO SMS only depends on these.
LEMMA MoFrame ==
  ASSUME MoInv, svc'.sms = svc.sms, svc'.next_ref = svc.next_ref,
         svc.registered => svc'.registered, svc'.session = svc.session,
         worker'.sms = worker.sms, worker'.stale = worker.stale,
         worker'.ready = worker.ready, hist'.sent = hist.sent,
         hist'.flushed = hist.flushed, hist'.stale = hist.stale
  PROVE  MoInv'
  BY DEF MoInv

\* Nor do the other parts depend on more.
LEMMA ServiceFrame ==
  ASSUME ServiceInv, UNCHANGED <<svc, last, worker, net, core, ring, hist>>
  PROVE  ServiceInv'
  <1>1. Typed'
    BY SMTT(60) DEF ServiceInv, Typed, ImsTypeOK, HistType, SvcType, WorkerType
  <1>2. MtInv' /\ MoInv'
    BY MtFrame, MoFrame DEF ServiceInv
  <1>3. SessionInv' /\ BindingInv'
    BY DEF ServiceInv, SessionInv, BindingInv, OnTheWay, RefreshPending
  <1> QED
    BY <1>1, <1>2, <1>3 DEF ServiceInv

\* The end of the loop body: the SMS the worker took is sent, or it is given up
\* with its session; nothing else of the history changes.
LEMMA MoDoneKeeps ==
  ASSUME Typed, MoInv, NEW h \in HistType, h.sent = hist.sent,
         h.flushed = hist.flushed, h.stale <=> (hist.stale \/ (h.stale /\ worker.stale)),
         hist' = MoDone(h), worker' = Resting,
         svc'.sms = svc.sms, svc'.next_ref = svc.next_ref,
         svc.registered => svc'.registered, svc'.session = svc.session
  PROVE  /\ MoInv' /\ hist' \in HistType
         /\ hist'.inbox = h.inbox /\ hist'.dropped = h.dropped
         /\ hist'.spoilt = h.spoilt /\ hist'.stale = h.stale
  <1>1. /\ svc \in SvcType /\ worker \in WorkerType /\ hist \in HistType
        /\ worker.sms \in 0..MaxMo /\ hist.sent \in Seq(1..MaxMo)
        /\ svc.sms \in Seq(1..MaxMo) /\ svc.next_ref \in 1..(MaxMo + 1)
        /\ MaxMo \in Nat
    BY Types, Constants, ZenonT(30) DEF SvcType, WorkerType, HistType
  <1>2. worker'.sms = 0 /\ 0 \notin 1..MaxMo /\ 0 \notin 1..(svc.next_ref - 1)
    BY <1>1 DEF Resting
  <1>3. CASE worker.sms = 0
    <2>1. hist' = h
      BY <1>3 DEF MoDone
    <2> QED
      BY <2>1, <1>1, <1>2, <1>3, ZenonT(30) DEF MoInv
  <1>4. CASE worker.sms # 0 /\ worker.ready /\ CanSend(FALSE)
    <2>1. hist' = [h EXCEPT !.sent = Append(h.sent, worker.sms)]
      BY <1>4 DEF MoDone, HistType
    <2>2. worker.sms \in 1..MaxMo
      BY <1>1, <1>4
    <2>3. PICK t : t = Append(hist.sent, worker.sms)
      BY ZenonT(30)
    <2>4. t \in Seq(1..MaxMo) /\ Range(t) = Range(hist.sent) \cup {worker.sms}
      BY <1>1, <2>2, <2>3, AppendRange, SMTT(60)
    <2>5. Increasing(t)
      <3>1. AllBelow(Range(hist.sent), {worker.sms}) /\ Increasing(hist.sent)
        BY <1>4 DEF MoInv
      <3>2. 1..MaxMo \in SUBSET Nat
        BY <1>1
      <3> QED
        BY <3>1, <3>2, <1>1, <2>2, <2>3, IncreasingAppend, ZenonT(30)
    <2>6. /\ hist' \in HistType /\ hist'.sent = t /\ hist'.flushed = hist.flushed
          /\ hist'.inbox = h.inbox /\ hist'.dropped = h.dropped
          /\ hist'.spoilt = h.spoilt /\ hist'.stale = h.stale
      BY <2>1, <2>3, <2>4, ZenonT(120) DEF HistType
    <2>7. /\ AllBelow(Range(t), Range(svc.sms))
          /\ AllBelow(Range(svc.sms) \cup {worker'.sms} \cup Range(t), {svc.next_ref})
      <3>1. 0 < svc.next_ref
        BY <1>1
      <3> QED
        BY <3>1, <2>4, <1>4, <1>2 DEF MoInv, AllBelow
    <2>8. 1..(svc.next_ref - 1) \subseteq
            Range(svc.sms) \cup {worker'.sms} \cup Range(t) \cup hist.flushed
      BY <2>4, ZenonT(30) DEF MoInv
    <2> QED
      BY <2>5, <2>6, <2>7, <2>8, <1>2 DEF MoInv
  <1>5. CASE worker.sms # 0 /\ ~(worker.ready /\ CanSend(FALSE))
    <2>1. worker.stale \/ h.stale
      BY <1>5 DEF MoInv, CanSend
    <2>f. PICK f : f = h.flushed \cup {worker.sms}
      BY ZenonT(30)
    <2>g. f \in SUBSET (1..MaxMo)
      BY <2>f, <1>1, <1>5, SMTT(30) DEF HistType
    <2>2. hist' = [h EXCEPT !.flushed = f]
      BY <1>5, <2>1, <2>f, ZenonT(30) DEF MoDone, HistType
    <2>3. /\ hist' \in HistType /\ hist'.sent = hist.sent
          /\ hist'.flushed = hist.flushed \cup {worker.sms}
          /\ hist'.inbox = h.inbox /\ hist'.dropped = h.dropped
          /\ hist'.spoilt = h.spoilt /\ hist'.stale = h.stale
      BY <2>2, <2>f, <2>g, ZenonT(30) DEF HistType
    <2>4. AllBelow(Range(svc.sms) \cup {worker'.sms} \cup Range(hist.sent), {svc.next_ref})
      <3>1. 0 < svc.next_ref
        BY <1>1
      <3> QED
        BY <3>1, <1>2 DEF MoInv, AllBelow
    <2>5. 1..(svc.next_ref - 1) \subseteq
            Range(svc.sms) \cup {worker'.sms} \cup Range(hist.sent) \cup hist'.flushed
      BY <2>3 DEF MoInv
    <2> QED
      BY <2>3, <2>4, <2>5, <1>2 DEF MoInv
  <1> QED
    BY <1>3, <1>4, <1>5, ZenonT(30)

-----------------------------------------------------------------------------
(* The worker *)

\* What the worker takes from one of its queues, and what it leaves there.
LEMMA TakeOne ==
  ASSUME NEW S, NEW s \in Seq(S), NEW none
  PROVE  /\ TailOf(s) \in Seq(S) /\ Len(TailOf(s)) <= Len(s)
         /\ Range(TailOf(s)) \subseteq Range(s)
         /\ s = <<>> => TailOf(s) = s /\ HeadOr(s, none) = none
         /\ s # <<>> => /\ TailOf(s) = Tail(s) /\ HeadOr(s, none) = Head(s)
                        /\ HeadOr(s, none) \in S
                        /\ Range(s) = {HeadOr(s, none)} \cup Range(TailOf(s))
  <1>1. CASE s = <<>>
    BY <1>1 DEF TailOf, HeadOr
  <1>2. CASE s # <<>>
    <2>1. TailOf(s) = Tail(s) /\ HeadOr(s, none) = Head(s)
      BY <1>2 DEF TailOf, HeadOr
    <2>2. /\ Head(s) \in S /\ Tail(s) \in Seq(S) /\ Len(Tail(s)) = Len(s) - 1
          /\ Range(s) = {Head(s)} \cup Range(Tail(s))
      BY <1>2, TailRange
    <2>3. Len(s) \in Nat
      OBVIOUS
    <2>4. Len(Tail(s)) <= Len(s)
      BY <2>2, <2>3
    <2>5. Range(Tail(s)) \subseteq Range(s)
      BY <2>2
    <2> QED
      BY <1>2, <2>1, <2>2, <2>4, <2>5, ZenonT(30)
  <1> QED
    BY <1>1, <1>2

\* What the worker takes and leaves when it unlocks.
LEMMA TakeFields ==
  ASSUME Typed, WorkerTake
  PROVE  /\ svc' \in SvcType
         /\ svc'.session = svc.session /\ svc'.registered = svc.registered
         /\ svc'.next_ref = svc.next_ref
         /\ svc'.sms = TailOf(svc.sms) /\ svc'.ip = TailOf(svc.ip)
         /\ ~svc'.register_sent => svc'.attempts = 0
         /\ \/ svc'.refresh = svc.refresh
            \/ svc.refresh = 0 /\ svc'.refresh = Off /\ worker'.pc = "send"
         /\ worker' \in WorkerType
         /\ worker'.pc \in {"send", "handle"} /\ ~worker'.stale
         /\ worker'.ip = HeadOr(svc.ip, NoPacket) /\ worker'.sms = HeadOr(svc.sms, 0)
         /\ worker'.ready = (svc.registered /\ svc.session = "full")
  <1> DEFINE retry == register_retry_needed(svc)
             rearmed == [svc EXCEPT !.register_sent = svc.register_sent /\ ~retry]
             register == register_needed(rearmed)
             refresh == register_refresh_needed(rearmed)
  <1>1. /\ svc \in SvcType /\ (~svc.register_sent => svc.attempts = 0)
        /\ svc.sms \in Seq(1..MaxMo) /\ svc.ip \in Seq(Packets)
        /\ svc.attempts \in 0..MaxAttempts /\ svc.register_sent \in BOOLEAN
        /\ svc.sent_age \in {Off} \cup 0..RetryTime
        /\ svc.refresh \in {Off} \cup 0..RefreshTime
    BY Types DEF SvcType
  <1>2. /\ rearmed \in SvcType /\ rearmed.register_sent = (svc.register_sent /\ ~retry)
        /\ rearmed.session = svc.session /\ rearmed.registered = svc.registered
        /\ rearmed.sms = svc.sms /\ rearmed.ip = svc.ip
        /\ rearmed.next_ref = svc.next_ref /\ rearmed.attempts = svc.attempts
        /\ rearmed.refresh = svc.refresh /\ rearmed.sent_age = svc.sent_age
    BY <1>1, ZenonT(30) DEF SvcType
  <1>3. /\ svc' = [rearmed EXCEPT
                      !.refresh = IF refresh THEN Off ELSE rearmed.refresh,
                      !.register_sent = rearmed.register_sent \/ register,
                      !.sent_age = IF register THEN 0 ELSE rearmed.sent_age,
                      !.attempts = IF register THEN rearmed.attempts + 1
                                   ELSE rearmed.attempts,
                      !.sms = TailOf(rearmed.sms), !.ip = TailOf(rearmed.ip)]
        /\ worker' = [pc |-> IF register \/ refresh THEN "send" ELSE "handle",
                      authorized |-> refresh /\ svc.auth,
                      ip |-> HeadOr(svc.ip, NoPacket), sms |-> HeadOr(svc.sms, 0),
                      ready |-> svc.registered /\ svc.session = "full",
                      stale |-> FALSE]
    BY DEF WorkerTake
  <1>4. /\ TailOf(svc.sms) \in Seq(1..MaxMo) /\ TailOf(svc.ip) \in Seq(Packets)
        /\ HeadOr(svc.ip, NoPacket) \in Packets \cup {NoPacket}
        /\ HeadOr(svc.sms, 0) \in 0..MaxMo
    <2>1. TailOf(svc.sms) \in Seq(1..MaxMo) /\ HeadOr(svc.sms, 0) \in (1..MaxMo) \cup {0}
      BY <1>1, TakeOne, ZenonT(30)
    <2>2. TailOf(svc.ip) \in Seq(Packets) /\ HeadOr(svc.ip, NoPacket) \in Packets \cup {NoPacket}
      BY <1>1, TakeOne, ZenonT(30)
    <2>3. (1..MaxMo) \cup {0} \subseteq 0..MaxMo
      BY Constants
    <2> QED
      BY <2>1, <2>2, <2>3
  <1>5. /\ register => svc.attempts + 1 \in 0..MaxAttempts
        /\ register \in BOOLEAN /\ refresh \in BOOLEAN
        /\ refresh => svc.refresh = 0
        /\ ~(rearmed.register_sent \/ register) => svc.attempts = 0
    <2>1. register => ~svc.register_sent \/ svc.attempts < MaxAttempts
      BY <1>2, ZenonT(30) DEF register_needed, register_retry_needed
    <2>2. ~(rearmed.register_sent \/ register) => ~svc.register_sent
      BY <1>2, ZenonT(30) DEF register_needed, register_retry_needed
    <2>3. MaxAttempts \in Nat \ {0}
      BY Constants
    <2>4. register => svc.attempts + 1 \in 0..MaxAttempts
      BY <2>1, <2>3, <1>1, SMTT(30)
    <2>5. register \in BOOLEAN /\ refresh \in BOOLEAN /\ (refresh => svc.refresh = 0)
      BY <1>2 DEF register_needed, register_refresh_needed
    <2> QED
      BY <2>2, <2>4, <2>5, <1>1
  <1> HIDE DEF retry, rearmed, register, refresh
  <1>6. /\ svc' \in SvcType
        /\ svc'.session = svc.session /\ svc'.registered = svc.registered
        /\ svc'.next_ref = svc.next_ref
        /\ svc'.sms = TailOf(svc.sms) /\ svc'.ip = TailOf(svc.ip)
        /\ svc'.register_sent = (rearmed.register_sent \/ register)
        /\ svc'.attempts = IF register THEN svc.attempts + 1 ELSE svc.attempts
        /\ svc'.refresh = IF refresh THEN Off ELSE svc.refresh
    <2>1. PICK fresh : fresh = IF refresh THEN Off ELSE rearmed.refresh
      OBVIOUS
    <2>2. PICK sent : sent = (rearmed.register_sent \/ register)
      OBVIOUS
    <2>3. PICK age : age = IF register THEN 0 ELSE rearmed.sent_age
      OBVIOUS
    <2>4. PICK tries : tries = IF register THEN rearmed.attempts + 1
                               ELSE rearmed.attempts
      OBVIOUS
    <2>5. /\ fresh \in {Off} \cup 0..RefreshTime /\ sent \in BOOLEAN
          /\ age \in {Off} \cup 0..RetryTime /\ tries \in 0..MaxAttempts
      BY <2>1, <2>2, <2>3, <2>4, <1>1, <1>2, <1>5, Constants
    <2>6. svc' = [rearmed EXCEPT !.refresh = fresh, !.register_sent = sent,
                                 !.sent_age = age, !.attempts = tries,
                                 !.sms = TailOf(svc.sms), !.ip = TailOf(svc.ip)]
      BY <2>1, <2>2, <2>3, <2>4, <1>2, <1>3
    <2>7. svc' \in SvcType
      BY <2>5, <2>6, <1>2, <1>4, ZenonT(120) DEF SvcType
    <2>8. /\ svc'.session = rearmed.session /\ svc'.registered = rearmed.registered
          /\ svc'.next_ref = rearmed.next_ref
          /\ svc'.sms = TailOf(svc.sms) /\ svc'.ip = TailOf(svc.ip)
          /\ svc'.register_sent = sent /\ svc'.attempts = tries
          /\ svc'.refresh = fresh
      BY <2>6, <1>2 DEF SvcType
    <2> QED
      BY <2>1, <2>2, <2>4, <2>7, <2>8, <1>2
  <1>7. /\ worker' \in WorkerType
        /\ worker'.pc = IF register \/ refresh THEN "send" ELSE "handle"
        /\ ~worker'.stale
        /\ worker'.ip = HeadOr(svc.ip, NoPacket) /\ worker'.sms = HeadOr(svc.sms, 0)
        /\ worker'.ready = (svc.registered /\ svc.session = "full")
    <2>1. (refresh /\ svc.auth) \in BOOLEAN
      OBVIOUS
    <2> QED
      BY <2>1, <1>3, <1>4 DEF WorkerType
  <1>8. ~svc'.register_sent => svc'.attempts = 0
    BY <1>5, <1>6, ZenonT(30)
  <1> QED
    BY <1>5, <1>6, <1>7, <1>8

\* Taking work keeps the invariant.
LEMMA TakeKeeps ==
  ASSUME ServiceInv, WorkerTake
  PROVE  ServiceInv'
  <1>0. Typed /\ MtInv /\ MoInv /\ SessionInv /\ BindingInv
    BY DEF ServiceInv
  <1>1. /\ svc' \in SvcType
        /\ svc'.session = svc.session /\ svc'.registered = svc.registered
        /\ svc'.next_ref = svc.next_ref
        /\ svc'.sms = TailOf(svc.sms) /\ svc'.ip = TailOf(svc.ip)
        /\ ~svc'.register_sent => svc'.attempts = 0
        /\ \/ svc'.refresh = svc.refresh
           \/ svc.refresh = 0 /\ svc'.refresh = Off /\ worker'.pc = "send"
        /\ worker' \in WorkerType
        /\ worker'.pc \in {"send", "handle"} /\ ~worker'.stale
        /\ worker'.ip = HeadOr(svc.ip, NoPacket) /\ worker'.sms = HeadOr(svc.sms, 0)
        /\ worker'.ready = (svc.registered /\ svc.session = "full")
    BY <1>0, TakeFields
  <1>2. UNCHANGED <<last, ring, net, core, hist>> /\ worker = Resting
    BY <1>0, Types DEF WorkerTake
  <1>3. /\ worker.ip = NoPacket /\ worker.sms = 0 /\ worker.pc = "wait"
        /\ ~IsMessage(NoPacket)
    BY <1>2 DEF Resting, IsMessage, NoPacket
  <1>4. /\ svc.ip \in Seq(Packets) /\ svc.sms \in Seq(1..MaxMo)
        /\ Len(svc.sms) \in Nat /\ Len(svc.ip) \in Nat
        /\ Len(svc.sms) <= SmsQueueSize /\ Len(svc.ip) <= IpQueueSize
    BY <1>0, Types, SMTT(30) DEF SvcType
  <1>5. /\ svc'.ip \in Seq(Packets) /\ Len(svc'.ip) <= Len(svc.ip)
        /\ Range(svc'.ip) \subseteq Range(svc.ip)
        /\ svc.ip = <<>> => svc'.ip = svc.ip /\ worker'.ip = NoPacket
        /\ svc.ip # <<>> => /\ svc'.ip = Tail(svc.ip) /\ worker'.ip = Head(svc.ip)
                            /\ worker'.ip \in Packets
                            /\ Range(svc.ip) = {worker'.ip} \cup Range(svc'.ip)
    <2>1. /\ TailOf(svc.ip) \in Seq(Packets) /\ Len(TailOf(svc.ip)) <= Len(svc.ip)
          /\ Range(TailOf(svc.ip)) \subseteq Range(svc.ip)
          /\ svc.ip = <<>> => /\ TailOf(svc.ip) = svc.ip
                              /\ HeadOr(svc.ip, NoPacket) = NoPacket
          /\ svc.ip # <<>> => /\ TailOf(svc.ip) = Tail(svc.ip)
                              /\ HeadOr(svc.ip, NoPacket) = Head(svc.ip)
                              /\ HeadOr(svc.ip, NoPacket) \in Packets
                              /\ Range(svc.ip) = {HeadOr(svc.ip, NoPacket)}
                                                   \cup Range(TailOf(svc.ip))
      BY <1>4, TakeOne, ZenonT(30)
    <2> QED
      BY <2>1, <1>1, ZenonT(30)
  <1>6. /\ svc'.sms \in Seq(1..MaxMo) /\ Len(svc'.sms) <= Len(svc.sms)
        /\ Range(svc'.sms) \subseteq Range(svc.sms)
        /\ svc.sms = <<>> => svc'.sms = svc.sms /\ worker'.sms = 0
        /\ svc.sms # <<>> => /\ svc'.sms = Tail(svc.sms) /\ worker'.sms = Head(svc.sms)
                             /\ worker'.sms \in 1..MaxMo
                             /\ Range(svc.sms) = {worker'.sms} \cup Range(svc'.sms)
    <2>1. /\ TailOf(svc.sms) \in Seq(1..MaxMo) /\ Len(TailOf(svc.sms)) <= Len(svc.sms)
          /\ Range(TailOf(svc.sms)) \subseteq Range(svc.sms)
          /\ svc.sms = <<>> => /\ TailOf(svc.sms) = svc.sms
                              /\ HeadOr(svc.sms, 0) = 0
          /\ svc.sms # <<>> => /\ TailOf(svc.sms) = Tail(svc.sms)
                              /\ HeadOr(svc.sms, 0) = Head(svc.sms)
                              /\ HeadOr(svc.sms, 0) \in 1..MaxMo
                              /\ Range(svc.sms) = {HeadOr(svc.sms, 0)}
                                                   \cup Range(TailOf(svc.sms))
      BY <1>4, TakeOne, ZenonT(30)
    <2> QED
      BY <2>1, <1>1
  <1>7. OnTheWay' \subseteq OnTheWay
    BY <1>2, <1>5 DEF OnTheWay
  <1>8. Typed'
    <2>1. Len(svc'.sms) <= SmsQueueSize /\ Len(svc'.ip) <= IpQueueSize
      <3>1. Len(svc'.sms) \in Nat /\ Len(svc'.ip) \in Nat
        BY <1>5, <1>6
      <3> QED
        BY <3>1, <1>4, <1>5, <1>6, Constants, SMTT(30)
    <2>2. ImsTypeOK'
      BY <2>1, <1>0, <1>1, <1>2 DEF Typed, ImsTypeOK
    <2> QED
      BY <2>2, <1>0, <1>1, <1>2 DEF Typed
  <1>9. MtInv'
    <2>1. CASE svc.ip = <<>>
      BY <2>1, <1>0, <1>2, <1>5, MtFrame, ZenonT(30)
    <2>2. CASE svc.ip # <<>>
      <3>1. InOrder(svc'.ip) /\ \A q \in Range(svc'.ip) : NotAfter(worker'.ip, q)
        BY <2>2, <1>0, <1>4, <1>5, InOrderTail, ZenonT(30) DEF MtInv
      <3>2. \A q \in Range(net) : NotAfter(worker'.ip, q)
        BY <2>2, <1>0, <1>5, ZenonT(30) DEF MtInv
      <3>3. \A p \in OnTheWay' \cup {worker'.ip} :
               IsMessage(p) => last <= p.mt /\ p.mt <= core.acked + 1
        BY <2>2, <1>0, <1>5, <1>7 DEF MtInv, OnTheWay
      <3>4. \A q \in OnTheWay' : NotAfter(worker'.ip, q)
        BY <3>1, <3>2, <1>2, ZenonT(30) DEF OnTheWay
      <3>5. \A p \in Range(svc'.ip), q \in Range(net) : NotAfter(p, q)
        BY <1>0, <1>5 DEF MtInv
      <3> QED
        BY <3>1, <3>3, <3>4, <3>5, <1>0, <1>2, ZenonT(30) DEF MtInv
    <2> QED
      BY <2>1, <2>2
  <1>10. MoInv'
    <2>1. CASE svc.sms = <<>>
      BY <2>1, <1>0, <1>1, <1>2, <1>3, <1>6, ZenonT(30) DEF MoInv
    <2>2. CASE svc.sms # <<>>
      <3>1. Increasing(svc'.sms) /\ AllBelow({worker'.sms}, Range(svc'.sms))
        <4>1. 1..MaxMo \in SUBSET Nat
          BY Constants
        <4>2. Increasing(svc.sms)
          BY <1>0 DEF MoInv
        <4> QED
          BY <4>1, <4>2, <2>2, <1>4, <1>6, IncreasingTail, ZenonT(30)
      <3>2. /\ AllBelow(Range(hist.sent), Range(svc'.sms))
            /\ AllBelow(Range(hist.sent), {worker'.sms})
            /\ AllBelow(Range(svc'.sms) \cup {worker'.sms} \cup Range(hist.sent),
                        {svc.next_ref})
        BY <2>2, <1>0, <1>6 DEF MoInv, AllBelow
      <3>3. 1..(svc.next_ref - 1) \subseteq
              Range(svc'.sms) \cup {worker'.sms} \cup Range(hist.sent) \cup hist.flushed
        <4>1. 0 \notin 1..(svc.next_ref - 1)
          BY <1>0, Types, Constants DEF SvcType
        <4> QED
          BY <4>1, <2>2, <1>0, <1>3, <1>6, ZenonT(30) DEF MoInv
      <3>4. svc.registered /\ (~hist.stale => svc.session = "full")
        BY <2>2, <1>0, ZenonT(30) DEF MoInv, SessionInv
      <3> QED
        BY <3>1, <3>2, <3>3, <3>4, <1>0, <1>1, <1>2, ZenonT(30) DEF MoInv
    <2> QED
      BY <2>1, <2>2, ZenonT(30)
  <1>11. SessionInv'
    <2>1. svc'.ip # <<>> => svc.ip # <<>>
      BY <1>5
    <2>2. worker'.ip # NoPacket => svc.ip # <<>>
      BY <1>5, ZenonT(30)
    <2> QED
      BY <2>1, <2>2, <1>0, <1>1, <1>2 DEF SessionInv
  <1>12. BindingInv'
    <2> SUFFICES ASSUME hist.spoilt = 0
                 PROVE  /\ \A p \in OnTheWay' : p.kind = "ok" => core.binding = Expires
                        /\ worker'.ip.kind = "ok" => core.binding = Expires
                        /\ svc.registered /\ ~hist.stale =>
                             IF svc'.refresh = Off
                             THEN RefreshPending' /\ core.binding >= Expires - RefreshTime
                             ELSE core.binding >= svc'.refresh + (Expires - RefreshTime)
      BY <1>1, <1>2 DEF BindingInv
    <2>1. \A p \in OnTheWay' : p.kind = "ok" => core.binding = Expires
      BY <1>0, <1>7 DEF BindingInv
    <2>2. worker'.ip # NoPacket => worker'.ip \in OnTheWay
      BY <1>5 DEF OnTheWay
    <2>3. worker'.ip.kind = "ok" => core.binding = Expires
      BY <2>2, <1>0, PacketKinds DEF BindingInv
    <2>4. OnTheWay \subseteq OnTheWay' \cup {worker'.ip}
      BY <1>2, <1>5 DEF OnTheWay
    <2>5. ASSUME svc.registered, ~hist.stale
          PROVE  IF svc'.refresh = Off
                 THEN RefreshPending' /\ core.binding >= Expires - RefreshTime
                 ELSE core.binding >= svc'.refresh + (Expires - RefreshTime)
      <3>1. CASE svc'.refresh = svc.refresh
        <4>1. RefreshPending => RefreshPending'
          BY <2>4, <1>1, <1>3 DEF RefreshPending
        <4> QED
          BY <4>1, <3>1, <2>5, <1>0 DEF BindingInv
      <3>2. CASE svc.refresh = 0 /\ svc'.refresh = Off /\ worker'.pc = "send"
        <4>1. RefreshPending'
          BY <3>2, <1>1 DEF RefreshPending
        <4>2. svc.refresh # Off
          BY <3>2, Constants
        <4>3. core.binding >= 0 + (Expires - RefreshTime)
          BY <4>2, <3>2, <2>5, <1>0 DEF BindingInv
        <4>4. core.binding >= Expires - RefreshTime
          BY <4>3, Constants, SMTT(30)
        <4> QED
          BY <4>1, <4>4, <3>2
      <3> QED
        BY <3>1, <3>2, <1>1
    <2> QED
      BY <2>1, <2>3, <2>5, ZenonT(30)
  <1> QED
    BY <1>8, <1>9, <1>10, <1>11, <1>12 DEF ServiceInv

\* A packet enters the network, not behind an SMS that is already on its way.
LEMMA MtSent ==
  ASSUME Typed, MtInv, NEW a \in Packets, net' = Append(net, a),
         \A p \in OnTheWay \cup {worker.ip} : NotAfter(p, a),
         IsMessage(a) => last <= a.mt /\ a.mt <= core.acked + 1,
         core'.acked = core.acked, last' = last, svc'.ip = svc.ip,
         worker'.ip = worker.ip, hist'.inbox = hist.inbox,
         hist'.dropped = hist.dropped, ring' = ring
  PROVE  MtInv'
  <1>1. net \in Seq(Packets)
    BY Types, ZenonT(30)
  <1>2. Range(net') = Range(net) \cup {a}
    BY <1>1, PacketSent
  <1>3. InOrder(net')
    <2>1. InOrder(net) /\ \A p \in Range(net) : NotAfter(p, a)
      BY DEF MtInv, OnTheWay
    <2> QED
      BY <1>1, <2>1, InOrderAppend, ZenonT(30)
  <1>4. OnTheWay' = OnTheWay \cup {a}
    BY <1>2, ZenonT(30) DEF OnTheWay
  <1>5. \A p \in Range(svc.ip), q \in Range(net') : NotAfter(p, q)
    BY <1>2, ZenonT(30) DEF MtInv, OnTheWay
  <1>6. \A q \in OnTheWay' : NotAfter(worker.ip, q)
    BY <1>4, ZenonT(30) DEF MtInv
  <1>7. \A p \in OnTheWay' \cup {worker.ip} :
           IsMessage(p) => last <= p.mt /\ p.mt <= core.acked + 1
    BY <1>4 DEF MtInv
  <1> QED
    BY <1>3, <1>5, <1>6, <1>7 DEF MtInv

\* The answers to REGISTER are packets and no SMS.
LEMMA AnswerPackets ==
  ASSUME NEW k \in Answers
  PROVE  /\ Answer(k) \in Packets /\ Answer(k).kind = k /\ ~IsMessage(Answer(k))
         /\ \A p : NotAfter(p, Answer(k))
  <1>1. Answer(k) \in Packets /\ Answer(k).kind = k /\ ~IsMessage(Answer(k))
    BY ZenonT(30) DEF Answer, Packets, Answers, IsMessage
  <1> QED
    BY <1>1 DEF NotAfter

\* A REGISTER that leaves: nothing is spoilt only if it is answered, by a 200 that
\* renews the binding or, unless it is authorized, by a challenge.
LEMMA TransmitFields ==
  ASSUME Typed, NEW authorized \in BOOLEAN, CanSend(authorized), Transmit(authorized)
  PROVE  /\ core' \in CoreType /\ core'.acked = core.acked
         /\ core'.binding \in {core.binding, Expires}
         /\ hist' \in HistType
         /\ hist'.sent = hist.sent /\ hist'.flushed = hist.flushed
         /\ hist'.inbox = hist.inbox /\ hist'.dropped = hist.dropped
         /\ hist'.stale = hist.stale
         /\ net' = net \/ \E k \in Answers : net' = Append(net, Answer(k))
         /\ \A k \in Answers : net' = Append(net, Answer(k)) /\ k = "ok" =>
               core'.binding = Expires
         /\ hist'.spoilt = 0 =>
               /\ hist.spoilt = 0
               /\ \/ net' = Append(net, Answer("ok")) /\ core'.binding = Expires
                  \/ /\ ~authorized /\ core'.binding = core.binding
                     /\ net' = Append(net, Answer("challenge"))
  <1>1. /\ core \in CoreType /\ hist \in HistType /\ net \in Seq(Packets)
        /\ MaxAttempts \in Nat \ {0} /\ Expires \in Nat /\ MaxFaults \in Nat
        /\ hist.spoilt \in 0..MaxAttempts /\ core.faults \in 0..MaxFaults
    BY Types, Constants, ZenonT(30) DEF HistType, CoreType
  <1>2. PICK out \in Register(core, authorized) :
           /\ core' = out.core /\ net' = out.net
           /\ hist' = IF out.core.faults < core.faults THEN Spoil(hist) ELSE hist
    BY DEF Transmit
  <1>3. PICK s : s = Spoil(hist)
    OBVIOUS
  <1>4. /\ s \in HistType /\ s.spoilt # 0
        /\ s.sent = hist.sent /\ s.flushed = hist.flushed /\ s.inbox = hist.inbox
        /\ s.dropped = hist.dropped /\ s.stale = hist.stale
    <2>1. PICK n : n = IF hist.spoilt < MaxAttempts THEN hist.spoilt + 1 ELSE hist.spoilt
      OBVIOUS
    <2>2. n \in 0..MaxAttempts /\ n # 0
      BY <2>1, <1>1, SMTT(30)
    <2>3. s = [hist EXCEPT !.spoilt = n]
      BY <1>3, <2>1 DEF Spoil
    <2> QED
      BY <2>2, <2>3, <1>1, ZenonT(30) DEF HistType
  <1>5. PICK acc : acc = [core EXCEPT !.binding = Expires]
    BY ZenonT(30)
  <1>6. /\ acc \in CoreType /\ acc.acked = core.acked /\ acc.binding = Expires
        /\ acc.faults = core.faults
    BY <1>1, <1>5, CoreFields, CoreBound
  <1>7. ASSUME NEW c \in CoreType, c.faults # 0
        PROVE  /\ Fault(c) \in CoreType /\ Fault(c).acked = c.acked
               /\ Fault(c).binding = c.binding /\ Fault(c).faults < c.faults
    <2>1. c.faults - 1 \in 0..MaxFaults /\ c.faults - 1 < c.faults
      BY <1>7, <1>1, SMTT(60) DEF CoreType
    <2> QED
      BY <2>1 DEF CoreType, Fault
  <1>8. \A j, k \in Answers : Append(net, Answer(j)) = Append(net, Answer(k)) => j = k
    <2> SUFFICES ASSUME NEW j \in Answers, NEW k \in Answers,
                        Append(net, Answer(j)) = Append(net, Answer(k))
                 PROVE  j = k
      OBVIOUS
    <2>1. Answer(j) \in Packets /\ Answer(k) \in Packets
      BY AnswerPackets
    <2>2. Answer(j) = Answer(k)
      BY <2>1, <1>1, AppendInjective
    <2> QED
      BY <2>2, AnswerPackets
  <1>9. \A k \in Answers : net # Append(net, Answer(k))
    BY <1>1, AnswerPackets
  <1>10. {"ok", "challenge", "badChallenge"} = Answers
    BY DEF Answers
  <1>11. CASE out = [core |-> acc, net |-> Append(net, Answer("ok"))]
    <2>1. out.core = acc /\ out.net = Append(net, Answer("ok"))
      BY <1>11
    <2>2. core' = acc /\ net' = Append(net, Answer("ok")) /\ hist' = hist
      BY <2>1, <1>2, <1>6, <1>1
    <2> QED
      BY <2>2, <1>1, <1>6, <1>8, <1>10, ZenonT(30)
  <1>12. CASE ~authorized /\ out = [core |-> core, net |-> Append(net, Answer("challenge"))]
    <2>1. out.core = core /\ out.net = Append(net, Answer("challenge"))
      BY <1>12
    <2>2. core' = core /\ net' = Append(net, Answer("challenge")) /\ hist' = hist
      BY <2>1, <1>2, <1>1
    <2> QED
      BY <2>2, <1>12, <1>1, <1>8, <1>10, ZenonT(30)
  <1>13. CASE core.faults # 0 /\ out = [core |-> Fault(core), net |-> net]
    <2>1. out.core = Fault(core) /\ out.net = net
      BY <1>13
    <2>2. core' = Fault(core) /\ net' = net /\ hist' = s
      BY <2>1, <1>2, <1>1, <1>3, <1>7, <1>13, ZenonT(30)
    <2> QED
      BY <2>2, <1>13, <1>1, <1>4, <1>7, <1>9
  <1>14. CASE core.faults # 0 /\ out = [core |-> Fault(acc), net |-> net]
    <2>1. out.core = Fault(acc) /\ out.net = net
      BY <1>14, ZenonT(30)
    <2>2. core' = Fault(acc) /\ net' = net /\ hist' = s
      BY <2>1, <1>2, <1>3, <1>6, <1>7, <1>14
    <2> QED
      BY <2>2, <1>14, <1>4, <1>6, <1>7, <1>9
  <1>15. PICK bad : bad = IF authorized THEN "challenge" ELSE "badChallenge"
    BY ZenonT(30)
  <1>16. CASE core.faults # 0 /\ out = [core |-> Fault(core), net |-> Append(net, Answer(bad))]
    <2>1. out.core = Fault(core) /\ out.net = Append(net, Answer(bad))
      BY <1>16, SMTT(30)
    <2>2. core' = Fault(core) /\ net' = Append(net, Answer(bad)) /\ hist' = s
      BY <2>1, <1>2, <1>1, <1>3, <1>7, <1>16
    <2>3. bad \in Answers /\ bad # "ok"
      BY <1>10, <1>15
    <2> QED
      BY <2>2, <2>3, <1>16, <1>1, <1>4, <1>7, <1>8, <1>10, ZenonT(30)
  <1>17. \/ out = [core |-> acc, net |-> Append(net, Answer("ok"))]
         \/ ~authorized /\ out = [core |-> core, net |-> Append(net, Answer("challenge"))]
         \/ core.faults # 0 /\ out = [core |-> Fault(core), net |-> net]
         \/ core.faults # 0 /\ out = [core |-> Fault(acc), net |-> net]
         \/ core.faults # 0 /\ out = [core |-> Fault(core), net |-> Append(net, Answer(bad))]
    BY <1>2, <1>5, <1>15 DEF Register
  <1> QED
    BY <1>11, <1>12, <1>13, <1>14, <1>16, <1>17

\* Whatever becomes of a REGISTER, the parts of the invariant stay.
LEMMA TransmitKeeps ==
  ASSUME ServiceInv, NEW authorized \in BOOLEAN, CanSend(authorized),
         Transmit(authorized), UNCHANGED <<svc, last, ring>>,
         worker'.ip = worker.ip, worker'.sms = worker.sms,
         worker'.stale = worker.stale, worker'.ready = worker.ready
  PROVE  MtInv' /\ MoInv' /\ SessionInv' /\ BindingInv'
  <1>0. /\ Typed /\ MtInv /\ MoInv /\ SessionInv /\ BindingInv
        /\ svc.session = "full"
    BY DEF ServiceInv, CanSend
  <1>1. /\ core' \in CoreType /\ core'.acked = core.acked
        /\ core'.binding \in {core.binding, Expires}
        /\ hist'.sent = hist.sent /\ hist'.flushed = hist.flushed
        /\ hist'.inbox = hist.inbox /\ hist'.dropped = hist.dropped
        /\ hist'.stale = hist.stale
        /\ net' = net \/ \E k \in Answers : net' = Append(net, Answer(k))
        /\ \A k \in Answers : net' = Append(net, Answer(k)) /\ k = "ok" =>
              core'.binding = Expires
        /\ hist'.spoilt = 0 =>
              /\ hist.spoilt = 0
              /\ \/ net' = Append(net, Answer("ok")) /\ core'.binding = Expires
                 \/ /\ ~authorized /\ core'.binding = core.binding
                    /\ net' = Append(net, Answer("challenge"))
    BY <1>0, TransmitFields, ZenonT(30)
  <1>2. MtInv'
    <2>1. CASE net' = net
      BY <2>1, <1>0, <1>1, MtFrame, ZenonT(30)
    <2>2. ASSUME NEW k \in Answers, net' = Append(net, Answer(k)) PROVE MtInv'
      <3>1. PICK a : a = Answer(k)
        OBVIOUS
      <3>2. a \in Packets /\ ~IsMessage(a) /\ \A p : NotAfter(p, a)
        BY <3>1, AnswerPackets
      <3> QED
        BY <3>1, <3>2, <2>2, <1>0, <1>1, MtSent
    <2> QED
      BY <2>1, <2>2, <1>1
  <1>3. MoInv'
    BY <1>0, <1>1, MoFrame, ZenonT(30)
  <1>4. SessionInv'
    BY <1>0, <1>1 DEF SessionInv
  <1>5. BindingInv'
    <2> SUFFICES ASSUME hist'.spoilt = 0
                 PROVE  /\ \A p \in OnTheWay' : p.kind = "ok" => core'.binding = Expires
                        /\ worker.ip.kind = "ok" /\ ~worker.stale =>
                              core'.binding = Expires
                        /\ svc.registered /\ ~hist.stale =>
                              IF svc.refresh = Off
                              THEN RefreshPending' /\ core'.binding >= Expires - RefreshTime
                              ELSE core'.binding >= svc.refresh + (Expires - RefreshTime)
      BY <1>1, ZenonT(30) DEF BindingInv
    <2>1. PICK k \in {"ok", "challenge"} :
             /\ net' = Append(net, Answer(k))
             /\ k = "ok" => core'.binding = Expires
      BY <1>1
    <2>2. k \in Answers /\ Answer(k) \in Packets /\ Answer(k).kind = k
      BY AnswerPackets DEF Answers
    <2>3. Range(net') = Range(net) \cup {Answer(k)}
      <3>1. net \in Seq(Packets)
        BY <1>0, Types
      <3> QED
        BY <3>1, <2>1, <2>2, AppendRange
    <2>4. OnTheWay' = OnTheWay \cup {Answer(k)}
      BY <2>3, ZenonT(30) DEF OnTheWay
    <2>5. \A p \in OnTheWay' : p.kind = "ok" => core'.binding = Expires
      BY <2>1, <2>2, <2>4, <1>0, <1>1, ZenonT(30) DEF BindingInv
    <2>6. worker.ip.kind = "ok" /\ ~worker.stale => core'.binding = Expires
      BY <1>0, <1>1 DEF BindingInv
    <2>7. RefreshPending'
      BY <2>2, <2>4 DEF RefreshPending, IsProgress
    <2>8. ASSUME svc.registered, ~hist.stale
          PROVE  /\ svc.refresh = Off => core'.binding >= Expires - RefreshTime
                 /\ svc.refresh # Off =>
                       core'.binding >= svc.refresh + (Expires - RefreshTime)
      <3>1. /\ svc.refresh = Off => core.binding >= Expires - RefreshTime
            /\ svc.refresh # Off => core.binding >= svc.refresh + (Expires - RefreshTime)
        BY <2>8, <1>0, <1>1, ZenonT(30) DEF BindingInv
      <3>2. svc.refresh # Off => svc.refresh \in 0..RefreshTime
        BY <1>0, Types DEF SvcType
      <3>3. Expires >= Expires - RefreshTime
        BY Constants
      <3>4. svc.refresh # Off => Expires >= svc.refresh + (Expires - RefreshTime)
        BY <3>2, Constants
      <3> QED
        BY <3>1, <3>3, <3>4, <1>1, ZenonT(30)
    <2> QED
      BY <2>5, <2>6, <2>7, <2>8, ZenonT(30)
  <1> QED
    BY <1>2, <1>3, <1>4, <1>5

\* The REGISTER, after the unlock.
LEMMA SendKeeps ==
  ASSUME ServiceInv, WorkerSend
  PROVE  ServiceInv'
  <1>0. Typed /\ MtInv /\ MoInv /\ SessionInv /\ BindingInv
    BY DEF ServiceInv
  <1>1. /\ worker \in WorkerType /\ worker.pc = "send"
        /\ UNCHANGED <<svc, last, ring>> /\ Transmit(worker.authorized)
        /\ worker' = [worker EXCEPT !.pc = "handle", !.authorized = FALSE]
    BY <1>0, Types DEF WorkerSend
  <1>2. /\ worker' \in WorkerType /\ worker'.pc = "handle"
        /\ worker'.ip = worker.ip /\ worker'.sms = worker.sms
        /\ worker'.stale = worker.stale /\ worker'.ready = worker.ready
        /\ worker.authorized \in BOOLEAN
    BY <1>1, ZenonT(30) DEF WorkerType
  <1>3. CASE CanSend(worker.authorized)
    <2>1. MtInv' /\ MoInv' /\ SessionInv' /\ BindingInv'
      BY <1>1, <1>2, <1>3, TransmitKeeps
    <2>2. /\ core' \in CoreType /\ hist' \in HistType
          /\ net' = net \/ \E k \in Answers : net' = Append(net, Answer(k))
      BY <1>0, <1>1, <1>2, <1>3, TransmitFields
    <2>3. net' \in Seq(Packets)
      BY <2>2, <1>0, Types, AnswerPackets, SMTT(60)
    <2>4. Typed'
      BY <2>2, <2>3, <1>0, <1>1, <1>2 DEF Typed, ImsTypeOK, CoreType
    <2> QED
      BY <2>1, <2>4 DEF ServiceInv
  <1>4. CASE ~CanSend(worker.authorized)
    <2>1. UNCHANGED <<core, net, hist>>
      BY <1>1, <1>4 DEF Transmit
    <2>2. Typed'
      BY <2>1, <1>0, <1>1, <1>2 DEF Typed, ImsTypeOK
    <2>3. MtInv' /\ MoInv'
      BY <2>1, <1>0, <1>1, <1>2, MtFrame, MoFrame
    <2>4. SessionInv'
      BY <2>1, <1>0, <1>1, <1>2 DEF SessionInv
    <2>5. BindingInv'
      <3>1. OnTheWay' = OnTheWay
        BY <2>1, <1>1 DEF OnTheWay
      <3>2. svc.registered /\ ~hist.stale /\ RefreshPending => RefreshPending'
        BY <3>1, <1>0, <1>1, <1>4 DEF RefreshPending, SessionInv, CanSend
      <3> QED
        BY <3>1, <3>2, <2>1, <1>0, <1>1, <1>2 DEF BindingInv
    <2> QED
      BY <2>2, <2>3, <2>4, <2>5 DEF ServiceInv
  <1> QED
    BY <1>3, <1>4

\* The worker is done with its round, and a refresh that is under way is not with
\* it.
LEMMA RestKeeps ==
  ASSUME ServiceInv, worker' = Resting, hist' = MoDone(hist),
         UNCHANGED <<last, ring, net, core>>,
         svc' \in SvcType, ~svc'.register_sent => svc'.attempts = 0,
         svc'.session = svc.session, svc'.registered = svc.registered,
         svc'.refresh = svc.refresh, svc'.sms = svc.sms, svc'.ip = svc.ip,
         svc'.next_ref = svc.next_ref,
         svc.registered /\ ~hist.stale /\ RefreshPending =>
            \E p \in OnTheWay : IsProgress(p)
  PROVE  ServiceInv'
  <1>0. Typed /\ MtInv /\ MoInv /\ SessionInv /\ BindingInv /\ hist \in HistType
    BY Types, ZenonT(30) DEF ServiceInv
  <1>1. /\ MoInv' /\ hist' \in HistType
        /\ hist'.inbox = hist.inbox /\ hist'.dropped = hist.dropped
        /\ hist'.spoilt = hist.spoilt /\ hist'.stale = hist.stale
    <2>1. PICK h : h = hist
      BY ZenonT(30)
    <2>2. /\ h \in HistType /\ h.sent = hist.sent /\ h.flushed = hist.flushed
          /\ h.stale <=> (hist.stale \/ (h.stale /\ worker.stale))
          /\ hist' = MoDone(h)
      BY <2>1, <1>0, ZenonT(30) DEF HistType
    <2> QED
      BY <2>1, <2>2, <1>0, MoDoneKeeps
  <1>2. /\ worker'.ip = NoPacket /\ worker'.pc = "wait" /\ worker' \in WorkerType
        /\ NoPacket.kind = "none"
    BY RestingFields, ZenonT(30)
  <1>3. Typed'
    BY <1>0, <1>1, <1>2, ZenonT(30) DEF Typed, ImsTypeOK
  <1>4. MtInv'
    BY <1>0, <1>1, <1>2, MtFrame, ZenonT(30)
  <1>5. SessionInv'
    BY <1>0, <1>1, <1>2, ZenonT(30) DEF SessionInv
  <1>6. BindingInv'
    <2>1. OnTheWay' = OnTheWay
      BY DEF OnTheWay
    <2>2. svc.registered /\ ~hist.stale /\ RefreshPending => RefreshPending'
      BY <2>1 DEF RefreshPending
    <2> QED
      BY <2>1, <2>2, <1>0, <1>1, <1>2, ZenonT(30) DEF BindingInv
  <1> QED
    BY <1>1, <1>3, <1>4, <1>5, <1>6, ZenonT(30) DEF ServiceInv

\* The handling of a 200, of a challenge and of nothing.
LEMMA HandleOkKeeps ==
  ASSUME ServiceInv, HandleOk, UNCHANGED net
  PROVE  ServiceInv'
  <1>0. /\ Typed /\ MtInv /\ MoInv /\ SessionInv /\ BindingInv
        /\ hist \in HistType /\ svc \in SvcType /\ worker \in WorkerType
    BY Types DEF ServiceInv
  <1>1. /\ worker.ip.kind = "ok" /\ worker' = Resting
        /\ svc' = [svc EXCEPT !.registered = TRUE, !.register_sent = FALSE,
                              !.sent_age = Off, !.attempts = 0,
                              !.refresh = RefreshTime]
        /\ UNCHANGED <<last, ring, net, core>>
    BY DEF HandleOk
  <1>2. PICK h : h = [hist EXCEPT !.stale = hist.stale \/ worker.stale]
    BY ZenonT(30)
  <1>3. /\ h \in HistType /\ h.sent = hist.sent /\ h.flushed = hist.flushed
        /\ h.inbox = hist.inbox /\ h.dropped = hist.dropped
        /\ h.spoilt = hist.spoilt /\ h.stale = (hist.stale \/ worker.stale)
    <2>1. (hist.stale \/ worker.stale) \in BOOLEAN
      OBVIOUS
    <2> QED
      BY <2>1, <1>0, <1>2, ZenonT(30) DEF HistType
  <1>4. /\ svc' \in SvcType /\ svc'.registered /\ ~svc'.register_sent
        /\ svc'.attempts = 0 /\ svc'.refresh = RefreshTime
        /\ svc'.session = svc.session /\ svc'.sms = svc.sms /\ svc'.ip = svc.ip
        /\ svc'.next_ref = svc.next_ref
    <2>1. /\ Off \in {Off} \cup 0..RetryTime /\ 0 \in 0..MaxAttempts
          /\ RefreshTime \in {Off} \cup 0..RefreshTime
      BY Constants
    <2> QED
      BY <2>1, <1>0, <1>1, ZenonT(30) DEF SvcType
  <1>5. /\ MoInv' /\ hist' \in HistType
        /\ hist'.inbox = hist.inbox /\ hist'.dropped = hist.dropped
        /\ hist'.spoilt = hist.spoilt /\ hist'.stale = (hist.stale \/ worker.stale)
    <2>1. hist' = MoDone(h)
      BY <1>2 DEF HandleOk
    <2>2. h.stale <=> (hist.stale \/ (h.stale /\ worker.stale))
      BY <1>3, ZenonT(30)
    <2> QED
      BY <2>1, <2>2, <1>0, <1>1, <1>3, <1>4, MoDoneKeeps
  <1>6. /\ worker'.ip = NoPacket /\ worker'.pc = "wait" /\ worker' \in WorkerType
        /\ NoPacket.kind = "none"
    BY <1>1, Constants DEF Resting, WorkerType, NoPacket
  <1>7. Typed'
    BY <1>0, <1>1, <1>4, <1>5, <1>6 DEF Typed, ImsTypeOK
  <1>8. MtInv'
    BY <1>0, <1>1, <1>4, <1>5, <1>6, MtFrame
  <1>9. worker.ip # NoPacket
    BY <1>1 DEF NoPacket
  <1>10. SessionInv'
    BY <1>0, <1>1, <1>4, <1>5, <1>6, <1>9, ZenonT(30) DEF SessionInv
  <1>11. BindingInv'
    <2>1. OnTheWay' = OnTheWay
      BY <1>1, <1>4 DEF OnTheWay
    <2>2. RefreshTime # Off /\ Expires >= RefreshTime + (Expires - RefreshTime)
      BY Constants
    <2>3. hist.spoilt = 0 /\ ~hist'.stale => core.binding = Expires
      BY <1>0, <1>1, <1>5, ZenonT(30) DEF BindingInv
    <2> QED
      BY <2>1, <2>2, <2>3, <1>0, <1>1, <1>4, <1>5, <1>6 DEF BindingInv
  <1> QED
    BY <1>5, <1>7, <1>8, <1>10, <1>11, ZenonT(30) DEF ServiceInv

\* A challenge, taken note of by ims_handle_rx_ip, keeps the invariant.
LEMMA HandleChallengeKeeps ==
  ASSUME ServiceInv, worker.pc = "handle", HandleChallenge, UNCHANGED net
  PROVE  ServiceInv'
  <1>0. /\ Typed /\ MtInv /\ MoInv /\ SessionInv /\ BindingInv
        /\ svc \in SvcType /\ worker \in WorkerType
    BY Types DEF ServiceInv
  <1>1. /\ svc' = [svc EXCEPT !.auth = TRUE]
        /\ worker' = [worker EXCEPT !.pc = "auth"]
        /\ UNCHANGED <<last, ring, core, hist, net>>
        /\ worker.ip.kind \in {"challenge", "badChallenge"}
    BY DEF HandleChallenge
  <1>2. /\ svc' \in SvcType /\ svc'.registered = svc.registered
        /\ svc'.register_sent = svc.register_sent /\ svc'.attempts = svc.attempts
        /\ svc'.session = svc.session /\ svc'.sms = svc.sms /\ svc'.ip = svc.ip
        /\ svc'.next_ref = svc.next_ref /\ svc'.refresh = svc.refresh
    BY <1>0, <1>1, ZenonT(30) DEF SvcType
  <1>3. /\ worker' \in WorkerType /\ worker'.pc = "auth" /\ worker'.ip = worker.ip
        /\ worker'.sms = worker.sms /\ worker'.stale = worker.stale
        /\ worker'.ready = worker.ready
    BY <1>0, <1>1 DEF WorkerType
  <1>4. Typed'
    BY <1>0, <1>1, <1>2, <1>3, ZenonT(30) DEF Typed, ImsTypeOK, HistType
  <1>5. MtInv' /\ MoInv'
    BY <1>0, <1>1, <1>2, <1>3, MtFrame, MoFrame
  <1>6. SessionInv'
    BY <1>0, <1>1, <1>2, <1>3 DEF SessionInv
  <1>7. BindingInv'
    <2>1. OnTheWay' = OnTheWay
      BY <1>1, <1>2 DEF OnTheWay
    <2>2. RefreshPending => RefreshPending'
      BY <2>1, <1>3 DEF RefreshPending
    <2> QED
      BY <2>1, <2>2, <1>0, <1>1, <1>2, <1>3 DEF BindingInv
  <1> QED
    BY <1>4, <1>5, <1>6, <1>7 DEF ServiceInv

\* A round of the worker without a packet to handle keeps the invariant.
LEMMA HandleNothingKeeps ==
  ASSUME ServiceInv, HandleNothing, worker.pc = "handle", UNCHANGED net
  PROVE  ServiceInv'
  <1>1. Typed /\ svc \in SvcType /\ (~svc.register_sent => svc.attempts = 0)
    BY Types DEF ServiceInv
  <1>2. worker.ip.kind = "none"
    BY DEF HandleNothing, NoPacket
  <1>3. RefreshPending => \E p \in OnTheWay : IsProgress(p)
    BY <1>2 DEF RefreshPending, IsProgress
  <1> QED
    BY <1>1, <1>3, RestKeeps DEF HandleNothing

\* An SMS from the network is the last one again or the next one, and goes into the
\* ring after all the others, or is dropped.
LEMMA HandleMessageKeeps ==
  ASSUME ServiceInv, HandleMessage, worker.pc = "handle", UNCHANGED net
  PROVE  ServiceInv'
  <1>0. /\ Typed /\ MtInv /\ MoInv /\ SessionInv /\ BindingInv
        /\ hist \in HistType /\ svc \in SvcType /\ core \in CoreType
        /\ last \in 0..MaxMt /\ ring \in Seq(1..MaxMt) /\ worker \in WorkerType
        /\ Len(ring) <= RingSize
    BY Types DEF ServiceInv
  <1> DEFINE n == worker.ip.mt
             new == n # last
             room == Len(ring) < RingSize
  <1>1. /\ IsMessage(worker.ip) /\ n \in 1..MaxMt /\ MaxMt \in Nat
        /\ worker.ip # NoPacket
    <2>1. worker.ip \in Packets \cup {NoPacket} /\ worker.ip.kind = "message"
      BY <1>0 DEF WorkerType, HandleMessage
    <2>2. worker.ip \in Packets /\ IsMessage(worker.ip)
      BY <2>1, PacketKinds DEF IsMessage
    <2> QED
      BY <2>2, PacketKinds, Constants
  <1>2. /\ last' = n /\ worker' = Resting /\ UNCHANGED <<svc, net>>
        /\ ring' = IF new /\ room THEN Append(ring, n) ELSE ring
        /\ hist' = MoDone([hist EXCEPT !.dropped =
                              IF new /\ ~room THEN hist.dropped \cup {n}
                              ELSE hist.dropped])
        /\ core' \in IF CanSend(TRUE) THEN RpAck(core, n) ELSE {core}
    BY ZenonT(30) DEF HandleMessage
  <1>3. /\ core' \in CoreType /\ core'.binding = core.binding
        /\ core'.acked \in {core.acked, IF n > core.acked THEN n ELSE core.acked}
    <2>1. PICK m : m = IF n > core.acked THEN n ELSE core.acked
      OBVIOUS
    <2>2. m \in 0..MaxMt
      BY <2>1, <1>0, <1>1 DEF CoreType
    <2>3. \/ core' = core
          \/ core' = [core EXCEPT !.acked = m]
          \/ core.faults # 0 /\ core' = Fault(core)
      BY <2>1, <1>2, ZenonT(30) DEF RpAck
    <2>4. CASE core' = core
      BY <2>4, <1>0
    <2>5. CASE core' = [core EXCEPT !.acked = m]
      BY <2>1, <2>2, <2>5, <1>0, ZenonT(30) DEF CoreType
    <2>6. CASE core.faults # 0 /\ core' = Fault(core)
      <3>1. core.faults - 1 \in 0..MaxFaults
        BY <2>6, <1>0, Constants, SMTT(30) DEF CoreType
      <3> QED
        BY <3>1, <2>6, <1>0, ZenonT(30) DEF CoreType, Fault
    <2> QED
      BY <2>3, <2>4, <2>5, <2>6
  <1>4. /\ core.acked \in Nat /\ core'.acked \in Nat /\ last \in Nat /\ n \in Nat
        /\ core.acked <= last /\ last <= n /\ n <= core.acked + 1
        /\ core.acked <= core'.acked /\ core'.acked <= n /\ n <= core'.acked + 1
    <2>1. core.acked <= last /\ last <= n /\ n <= core.acked + 1
      BY <1>0, <1>1 DEF MtInv
    <2>2. core.acked \in Nat /\ core'.acked \in Nat /\ last \in Nat /\ n \in Nat
      <3>1. core.acked \in 0..MaxMt /\ core'.acked \in 0..MaxMt
        BY <1>0, <1>3, CoreFields
      <3>2. last \in 0..MaxMt /\ n \in 1..MaxMt
        BY <1>0, <1>1
      <3> HIDE DEF n
      <3>3. 0..MaxMt \subseteq Nat /\ 1..MaxMt \subseteq Nat
        OBVIOUS
      <3> QED
        BY <3>1, <3>2, <3>3
    <2> QED
      BY <2>1, <2>2, <1>3, SMTT(30)
  <1> HIDE DEF n
  <1>5. PICK gone : gone = IF new /\ ~room THEN hist.dropped \cup {n} ELSE hist.dropped
    BY ZenonT(30)
  <1>6. PICK h : h = [hist EXCEPT !.dropped = gone]
    BY ZenonT(30)
  <1>7. /\ h \in HistType /\ h.sent = hist.sent /\ h.flushed = hist.flushed
        /\ h.inbox = hist.inbox /\ h.dropped = gone
        /\ h.spoilt = hist.spoilt /\ h.stale = hist.stale
    <2>1. gone \in SUBSET (1..MaxMt)
      BY <1>0, <1>1, <1>5 DEF HistType
    <2> QED
      BY <2>1, <1>0, <1>6, ZenonT(30) DEF HistType
  <1>8. /\ MoInv' /\ hist' \in HistType
        /\ hist'.inbox = hist.inbox /\ hist'.dropped = gone
        /\ hist'.spoilt = hist.spoilt /\ hist'.stale = hist.stale
    <2>1. hist' = MoDone(h)
      BY <1>2, <1>5, <1>6
    <2>2. h.stale <=> (hist.stale \/ (h.stale /\ worker.stale))
      BY <1>7
    <2> QED
      BY <2>1, <2>2, <1>0, <1>2, <1>7, MoDoneKeeps, ZenonT(30)
  <1>9. /\ worker'.ip = NoPacket /\ worker'.pc = "wait" /\ worker' \in WorkerType
        /\ NoPacket.kind = "none" /\ ~IsMessage(NoPacket)
    BY <1>2, Constants DEF Resting, WorkerType, NoPacket, IsMessage
  <1>10. OnTheWay' = OnTheWay
    BY <1>2 DEF OnTheWay
  <1>11. /\ ring' \in Seq(1..MaxMt) /\ Len(ring') <= RingSize
         /\ new /\ room => Range(ring') = Range(ring) \cup {n}
    <2>1. CASE new /\ room
      <3>1. ring' = Append(ring, n)
        BY <2>1, <1>2
      <3>2. /\ ring' \in Seq(1..MaxMt) /\ Len(ring') = Len(ring) + 1
            /\ Range(ring') = Range(ring) \cup {n}
        <4>1. PICK S : S = 1..MaxMt
          OBVIOUS
        <4>2. ring \in Seq(S) /\ n \in S
          BY <4>1, <1>0, <1>1 DEF n
        <4>3. /\ ring' \in Seq(S) /\ Len(ring') = Len(ring) + 1
              /\ Range(ring') = Range(ring) \cup {n}
          BY <4>2, <3>1, AppendRange
        <4> QED
          BY <4>1, <4>3
      <3>3. Len(ring) \in Nat /\ RingSize \in Nat
        BY <1>0, Constants
      <3> QED
        BY <3>2, <3>3, <2>1
    <2>2. CASE ~(new /\ room)
      BY <2>2, <1>0, <1>2
    <2> QED
      BY <2>1, <2>2
  <1>12. Typed'
    <2>1. n \in 0..MaxMt
      BY <1>1 DEF n
    <2> QED
      BY <2>1, <1>0, <1>2, <1>3, <1>8, <1>9, <1>11 DEF Typed, ImsTypeOK, CoreType
  <1>13. MtInv'
    <2>1. \A p \in OnTheWay : IsMessage(p) => n <= p.mt /\ p.mt <= core'.acked + 1
      <3> SUFFICES ASSUME NEW p \in OnTheWay, IsMessage(p)
                   PROVE  n <= p.mt /\ p.mt <= core'.acked + 1
        BY ZenonT(30)
      <3>1. n <= p.mt /\ p.mt <= core.acked + 1
        BY <1>0, <1>1 DEF MtInv, NotAfter, n
      <3>2. p.mt \in Nat
        <4>1. p \in Packets
          <5>1. svc.ip \in Seq(Packets) /\ net \in Seq(Packets)
            BY <1>0, Types DEF SvcType
          <5>2. Range(svc.ip) \subseteq Packets /\ Range(net) \subseteq Packets
            BY <5>1, RangeTyped
          <5> QED
            BY <5>2, ZenonT(30) DEF OnTheWay
        <4> QED
          BY <4>1, PacketKinds
      <3> QED
        BY <3>1, <3>2, <1>4
    <2>2. \A q \in OnTheWay : NotAfter(NoPacket, q)
      BY <1>9 DEF NotAfter
    <2>3. Range(hist.inbox) \subseteq Nat /\ Range(ring) \subseteq Nat
      <3>1. /\ Range(hist.inbox) \subseteq 1..MaxMt /\ Range(ring) \subseteq 1..MaxMt
        <4>1. hist.inbox \in Seq(1..MaxMt)
          BY <1>0 DEF HistType
        <4> QED
          BY <4>1, <1>0, RangeTyped, ZenonT(30)
      <3>2. 1..MaxMt \subseteq Nat
        BY SMTT(30)
      <3> QED
        BY <3>1, <3>2
    <2>4. \A x \in Range(hist.inbox) \cup Range(ring) : x <= last
      BY <1>0 DEF MtInv
    <2>5. CASE ~new
      <3>1. ring' = ring /\ gone = hist.dropped /\ n = last
        BY <2>5, <1>2, <1>5
      <3> QED
        BY <3>1, <2>1, <2>2, <1>0, <1>2, <1>4, <1>8, <1>9, <1>10, ZenonT(30) DEF MtInv
    <2>6. CASE new
      <3>1. n = last + 1 /\ last < n
        BY <2>6, <1>4
      <3>2. \A x \in Range(hist.inbox) \cup Range(ring) : x < n
        BY <3>1, <2>3, <2>4, <1>4
      <3>3. 1..n \subseteq 1..last \cup {n}
        BY <3>1, <1>4
      <3>4. CASE room
        <4>1. ring' = Append(ring, n) /\ Range(ring') = Range(ring) \cup {n}
              /\ gone = hist.dropped
          BY <3>4, <2>6, <1>2, <1>5, <1>11
        <4>2. Increasing(ring')
          <5>1. 1..MaxMt \in SUBSET Nat /\ n \in 1..MaxMt
            BY <1>1, SMTT(30) DEF n
          <5>2. Increasing(ring) /\ AllBelow(Range(ring), {n})
            BY <3>2, <1>0, ZenonT(30) DEF MtInv, AllBelow
          <5> QED
            BY <5>1, <5>2, <4>1, <1>0, IncreasingAppend, ZenonT(30)
        <4>3. AllBelow(Range(hist.inbox), Range(ring'))
          BY <4>1, <3>2, <1>0, ZenonT(30) DEF MtInv, AllBelow
        <4>4. \A x \in Range(hist.inbox) \cup Range(ring') : x <= n
          <5>1. \A x \in Nat : x < n => x <= n
            BY <1>4, SMTT(30)
          <5> QED
            BY <5>1, <4>1, <3>2, <2>3, <1>4
        <4>5. 1..n \subseteq Range(hist.inbox) \cup Range(ring') \cup gone
          BY <4>1, <3>3, <1>0, ZenonT(30) DEF MtInv
        <4> QED
          BY <4>2, <4>3, <4>4, <4>5, <2>1, <2>2, <1>0, <1>2, <1>4, <1>8, <1>9, <1>10, ZenonT(30)
             DEF MtInv
      <3>5. CASE ~room
        <4>1. ring' = ring /\ gone = hist.dropped \cup {n}
          BY <3>5, <2>6, <1>2, <1>5
        <4>2. \A x \in Range(hist.inbox) \cup Range(ring) : x <= n
          <5>1. \A x \in Nat : x < n => x <= n
            BY <1>4
          <5> QED
            BY <5>1, <3>2, <2>3, ZenonT(30)
        <4>3. 1..n \subseteq Range(hist.inbox) \cup Range(ring) \cup gone
          BY <4>1, <3>3, <1>0 DEF MtInv
        <4> QED
          BY <4>1, <4>2, <4>3, <2>1, <2>2, <1>0, <1>2, <1>4, <1>8, <1>9, <1>10, ZenonT(30)
             DEF MtInv
      <3> QED
        BY <3>4, <3>5
    <2> QED
      BY <2>5, <2>6
  <1>14. SessionInv'
    BY <1>0, <1>2, <1>3, <1>8, <1>9 DEF SessionInv
  <1>15. BindingInv'
    <2>1. worker.ip.kind \notin {"ok", "challenge"}
      BY <1>1, ZenonT(30) DEF IsMessage
    <2>2. RefreshPending => RefreshPending'
      BY <2>1, <1>10 DEF RefreshPending, IsProgress
    <2> QED
      BY <2>2, <1>0, <1>2, <1>3, <1>8, <1>9, <1>10, ZenonT(30) DEF BindingInv
  <1> QED
    BY <1>8, <1>12, <1>13, <1>14, <1>15, ZenonT(30) DEF ServiceInv

\* The answer to a challenge, and the timer that follows it.
LEMMA AuthKeeps ==
  ASSUME ServiceInv, WorkerAuth
  PROVE  ServiceInv'
  <1>0. /\ Typed /\ MtInv /\ MoInv /\ SessionInv /\ BindingInv
        /\ svc \in SvcType /\ worker \in WorkerType
        /\ ~svc.register_sent => svc.attempts = 0
    BY Types DEF ServiceInv
  <1>1. worker.pc = "auth" /\ UNCHANGED <<svc, last, ring>>
    BY DEF WorkerAuth
  <1>2. CASE worker.ip.kind = "challenge" /\ CanSend(TRUE)
    <2>1. Transmit(TRUE) /\ worker' = [worker EXCEPT !.pc = "mark"] /\ TRUE \in BOOLEAN
      BY <1>2, ZenonT(30) DEF WorkerAuth
    <2>2. /\ worker' \in WorkerType /\ worker'.pc = "mark" /\ worker'.ip = worker.ip
          /\ worker'.sms = worker.sms /\ worker'.stale = worker.stale
          /\ worker'.ready = worker.ready
      BY <2>1, <1>0 DEF WorkerType
    <2>3. MtInv' /\ MoInv' /\ SessionInv' /\ BindingInv'
      BY <2>1, <2>2, <1>1, <1>2, TransmitKeeps, ZenonT(30)
    <2>4. /\ core' \in CoreType /\ hist' \in HistType
          /\ net' = net \/ \E k \in Answers : net' = Append(net, Answer(k))
      BY <2>1, <1>0, <1>2, TransmitFields, ZenonT(30)
    <2>5. net' \in Seq(Packets)
      <3>1. net \in Seq(Packets)
        BY <1>0, Types
      <3>2. CASE net' = net
        BY <3>1, <3>2
      <3>3. ASSUME NEW k \in Answers, net' = Append(net, Answer(k))
            PROVE  net' \in Seq(Packets)
        BY <3>1, <3>3, AnswerPackets, SMTT(30)
      <3> QED
        BY <3>2, <3>3, <2>4
    <2>6. Typed'
      BY <2>2, <2>4, <2>5, <1>0, <1>1, <1>2, ZenonT(30) DEF Typed, ImsTypeOK, CoreType
    <2> QED
      BY <2>3, <2>6 DEF ServiceInv
  <1>3. CASE ~(worker.ip.kind = "challenge" /\ CanSend(TRUE))
    <2>1. hist' = MoDone(hist) /\ worker' = Resting /\ UNCHANGED <<core, net>>
      BY <1>3, ZenonT(30) DEF WorkerAuth
    <2>2. worker.ip.kind \in {"challenge", "badChallenge"}
      BY <1>0, <1>1, Types, ZenonT(30)
    <2>3. svc.registered /\ ~hist.stale /\ RefreshPending =>
             \E p \in OnTheWay : IsProgress(p)
      BY <2>2, <1>0, <1>1, <1>3
         DEF RefreshPending, IsProgress, SessionInv, CanSend
    <2> QED
      BY <2>1, <2>3, <1>0, <1>1, RestKeeps
  <1> QED
    BY <1>2, <1>3, ZenonT(30)

\* The worker noting that its REGISTER went out keeps the invariant.
LEMMA MarkKeeps ==
  ASSUME ServiceInv, WorkerMark
  PROVE  ServiceInv'
  <1>0. /\ Typed /\ svc \in SvcType
        /\ worker.pc = "mark" /\ hist' = MoDone(hist) /\ worker' = Resting
        /\ UNCHANGED <<last, ring, net, core>>
        /\ svc' = [svc EXCEPT !.register_sent = TRUE, !.sent_age = 0]
    BY Types DEF ServiceInv, WorkerMark
  <1>1. /\ svc' \in SvcType /\ svc'.register_sent
        /\ svc'.session = svc.session /\ svc'.registered = svc.registered
        /\ svc'.refresh = svc.refresh /\ svc'.sms = svc.sms /\ svc'.ip = svc.ip
        /\ svc'.next_ref = svc.next_ref
    <2>1. 0 \in {Off} \cup 0..RetryTime
      BY Constants
    <2> QED
      BY <2>1, <1>0, ZenonT(30) DEF SvcType
  <1>2. RefreshPending => \E p \in OnTheWay : IsProgress(p)
    BY <1>0 DEF RefreshPending
  <1> QED
    BY <1>0, <1>1, <1>2, RestKeeps

\* Every step of the worker keeps the invariant.
LEMMA WorkerKeeps ==
  ASSUME ServiceInv, WorkerStep
  PROVE  ServiceInv'
  <1>1. CASE WorkerHandle
    BY <1>1, HandleOkKeeps, HandleChallengeKeeps, HandleMessageKeeps,
       HandleNothingKeeps DEF WorkerHandle
  <1> QED
    BY <1>1, TakeKeeps, SendKeeps, AuthKeeps, MarkKeeps DEF WorkerStep

-----------------------------------------------------------------------------
(* The other threads and the network *)

\* Losing something that matters counts.
LEMMA SpoilFields ==
  ASSUME hist \in HistType
  PROVE  /\ Spoil(hist) \in HistType /\ Spoil(hist).spoilt # 0
         /\ Spoil(hist).sent = hist.sent /\ Spoil(hist).flushed = hist.flushed
         /\ Spoil(hist).inbox = hist.inbox /\ Spoil(hist).dropped = hist.dropped
         /\ Spoil(hist).stale = hist.stale
  <1>1. PICK n : n = IF hist.spoilt < MaxAttempts THEN hist.spoilt + 1 ELSE hist.spoilt
    OBVIOUS
  <1>2. n \in 0..MaxAttempts /\ n # 0
    BY <1>1, Constants, SMTT(30) DEF HistType
  <1>3. Spoil(hist) = [hist EXCEPT !.spoilt = n]
    BY <1>1 DEF Spoil
  <1> QED
    BY <1>2, <1>3, ZenonT(30) DEF HistType

\* A packet is taken from the network, to the queue or to nowhere.
LEMMA ReceiveKeeps ==
  ASSUME ServiceInv, ReceiveIp
  PROVE  ServiceInv'
  <1>0. /\ Typed /\ MtInv /\ MoInv /\ SessionInv /\ BindingInv
        /\ svc \in SvcType /\ hist \in HistType /\ net \in Seq(Packets)
        /\ svc.ip \in Seq(Packets) /\ Len(svc.ip) <= IpQueueSize
    BY Types DEF ServiceInv, SvcType
  <1>1. net # <<>> /\ net' = Tail(net) /\ UNCHANGED <<last, worker, ring, core>>
    BY DEF ReceiveIp
  <1> DEFINE a == Head(net)
  <1>2. /\ a \in Packets /\ net' \in Seq(Packets)
        /\ Range(net) = {a} \cup Range(net')
    BY <1>0, <1>1, TailRange, ZenonT(30)
  <1>3. InOrder(net') /\ \A q \in Range(net') : NotAfter(a, q)
    BY <1>0, <1>1, InOrderTail, ZenonT(30) DEF MtInv
  <1>4. svc.session = "full"
    BY <1>0, <1>1 DEF SessionInv
  <1>5. CASE Len(svc.ip) < IpQueueSize
    <2>1. svc' = [svc EXCEPT !.ip = Append(svc.ip, a)] /\ hist' = hist
      BY <1>5 DEF ReceiveIp
    <2> HIDE DEF a
    <2>2. /\ Append(svc.ip, a) \in Seq(Packets)
          /\ Len(Append(svc.ip, a)) = Len(svc.ip) + 1
          /\ Range(Append(svc.ip, a)) = Range(svc.ip) \cup {a}
      BY <1>0, <1>2, AppendRange
    <2>3. /\ svc' \in SvcType /\ svc'.ip = Append(svc.ip, a)
          /\ svc'.registered = svc.registered /\ svc'.attempts = svc.attempts
          /\ svc'.register_sent = svc.register_sent
          /\ svc'.session = svc.session /\ svc'.sms = svc.sms
          /\ svc'.next_ref = svc.next_ref /\ svc'.refresh = svc.refresh
      BY <2>1, <2>2, <1>0, ZenonT(30) DEF SvcType
    <2>4. Len(svc'.ip) <= IpQueueSize
      <3>1. Len(svc.ip) \in Nat /\ IpQueueSize \in Nat
        BY <1>0, Constants
      <3> QED
        <4>1. Len(svc'.ip) = Len(svc.ip) + 1
          BY <2>2, <2>3
        <4>2. PICK k : k = Len(svc.ip)
          BY ZenonT(30)
        <4>3. k \in Nat /\ IpQueueSize \in Nat /\ k < IpQueueSize
          BY <4>2, <3>1, <1>5
        <4>4. k + 1 <= IpQueueSize
          BY <4>3
        <4> QED
          BY <4>1, <4>2, <4>4, ZenonT(30)
    <2>5. Typed'
      BY <2>1, <2>3, <2>4, <1>0, <1>1, <1>2, ZenonT(30) DEF Typed, ImsTypeOK, HistType
    <2>6. OnTheWay' = OnTheWay
      BY <2>2, <2>3, <1>2 DEF OnTheWay
    <2>7. MtInv'
      <3>1. \A p \in Range(svc.ip) : NotAfter(p, a)
        BY <1>0, <1>2, ZenonT(30) DEF MtInv
      <3>2. InOrder(svc'.ip)
        BY <3>1, <2>3, <1>0, <1>2, InOrderAppend, ZenonT(30) DEF MtInv
      <3>3. \A p \in Range(svc'.ip), q \in Range(net') : NotAfter(p, q)
        BY <2>2, <2>3, <1>0, <1>2, <1>3, ZenonT(30) DEF MtInv
      <3> QED
        BY <3>2, <3>3, <2>1, <2>6, <1>0, <1>1, <1>3, ZenonT(30) DEF MtInv
    <2>8. MoInv'
      BY <2>1, <2>3, <1>0, <1>1, MoFrame
    <2>9. SessionInv'
      BY <2>1, <2>3, <1>0, <1>1, <1>4 DEF SessionInv
    <2>10. BindingInv'
      <3>1. RefreshPending' <=> RefreshPending
        BY <2>6, <1>1 DEF RefreshPending
      <3> QED
        BY <3>1, <2>1, <2>3, <2>6, <1>0, <1>1, ZenonT(30) DEF BindingInv
    <2> QED
      BY <2>5, <2>7, <2>8, <2>9, <2>10 DEF ServiceInv
  <1>6. CASE ~(Len(svc.ip) < IpQueueSize)
    <2>1. hist' = (IF a.kind \in Answers THEN Spoil(hist) ELSE hist) /\ svc' = svc
      BY <1>6 DEF ReceiveIp
    <2> HIDE DEF a
    <2>2. /\ hist' \in HistType /\ hist'.sent = hist.sent
          /\ hist'.flushed = hist.flushed /\ hist'.inbox = hist.inbox
          /\ hist'.dropped = hist.dropped /\ hist'.stale = hist.stale
          /\ hist'.spoilt = 0 => hist.spoilt = 0 /\ a.kind \notin Answers
      BY <2>1, <1>0, SpoilFields, ZenonT(30)
    <2>3. Typed'
      BY <2>1, <2>2, <1>0, <1>1, <1>2 DEF Typed, ImsTypeOK
    <2>4. OnTheWay' \subseteq OnTheWay /\ OnTheWay \subseteq OnTheWay' \cup {a}
      BY <2>1, <1>2, ZenonT(30) DEF OnTheWay
    <2>5. MtInv'
      <3>1. \A p \in Range(svc.ip), q \in Range(net') : NotAfter(p, q)
        BY <1>0, <1>2, ZenonT(30) DEF MtInv
      <3> QED
        BY <3>1, <2>1, <2>2, <2>4, <1>0, <1>1, <1>3, ZenonT(30) DEF MtInv
    <2>6. MoInv'
      BY <2>1, <2>2, <1>0, <1>1, MoFrame, ZenonT(30)
    <2>7. SessionInv'
      BY <2>1, <2>2, <1>0, <1>1, <1>4, ZenonT(30) DEF SessionInv
    <2>8. BindingInv'
      <3>1. hist'.spoilt = 0 /\ RefreshPending => RefreshPending'
        BY <2>2, <2>4, <1>1, ZenonT(30) DEF RefreshPending, IsProgress, Answers
      <3> QED
        BY <3>1, <2>1, <2>2, <2>4, <1>0, <1>1, ZenonT(30) DEF BindingInv
    <2> QED
      BY <2>3, <2>5, <2>6, <2>7, <2>8 DEF ServiceInv
  <1> QED
    BY <1>5, <1>6, ZenonT(30)

\* The SMSC sends the SMS after the last one acknowledged.
LEMMA SmscKeeps ==
  ASSUME ServiceInv, SmscSend
  PROVE  ServiceInv'
  <1>0. /\ Typed /\ MtInv /\ MoInv /\ SessionInv /\ BindingInv
        /\ core \in CoreType /\ net \in Seq(Packets) /\ hist \in HistType
        /\ svc.ip \in Seq(Packets) /\ worker \in WorkerType /\ last \in 0..MaxMt
    BY Types DEF ServiceInv, SvcType
  <1>1. PICK n : n = core.acked + 1
    OBVIOUS
  <1>2. PICK a : a = Message(n)
    OBVIOUS
  <1>3. /\ core.binding > 0 /\ core.acked < MaxMt /\ net' = Append(net, a)
        /\ core' = core \/ (core.faults > 0 /\ core' = Fault(core))
        /\ UNCHANGED <<svc, last, worker, ring, hist>>
    <2>1. /\ InFlight(core.acked + 1) => core.faults > 0
          /\ net' = Append(net, Message(core.acked + 1))
          /\ core' = IF InFlight(core.acked + 1) THEN Fault(core) ELSE core
          /\ core.binding > 0 /\ core.acked < MaxMt
          /\ UNCHANGED <<svc, last, worker, ring, hist>>
      BY Zenon DEF SmscSend
    <2>2. core' = core \/ (core.faults > 0 /\ core' = Fault(core))
      BY <2>1
    <2>3. net' = Append(net, a)
      BY <2>1, <1>1, <1>2
    <2> QED
      BY <2>1, <2>2, <2>3
  <1>4. n \in 1..MaxMt /\ core.acked \in Nat
    <2>1. core.acked \in 0..MaxMt
      BY <1>0 DEF CoreType
    <2> QED
      BY <2>1, <1>1, <1>3, Constants
  <1>5. a \in Packets /\ IsMessage(a) /\ a.mt = n /\ a.kind = "message"
    BY <1>2, <1>4 DEF Packets, Message, IsMessage
  <1>6. core' \in CoreType /\ core'.binding = core.binding /\ core'.acked = core.acked
    <2>1. core.faults > 0 => core.faults - 1 \in 0..MaxFaults
      BY <1>0, Constants, SMTT(30) DEF CoreType
    <2> QED
      BY <2>1, <1>0, <1>3, ZenonT(30) DEF CoreType, Fault
  <1>7. net' \in Seq(Packets) /\ Range(net') = Range(net) \cup {a}
    BY <1>0, <1>3, <1>5, AppendRange
  <1>8. svc.session = "full"
    BY <1>0, <1>3, ZenonT(30) DEF SessionInv
  <1>9. Typed'
    <2>1. ImsTypeOK'
      BY <1>0, <1>3, <1>6, <1>7, ZenonT(30) DEF Typed, ImsTypeOK, CoreType
    <2> QED
      BY <2>1, <1>0, <1>3, ZenonT(30) DEF Typed
  <1>10. MtInv'
    <2>1. \A p \in OnTheWay \cup {worker.ip} : NotAfter(p, a)
      BY <1>0, <1>1, <1>5, ZenonT(30) DEF MtInv, NotAfter
    <2>2. last <= a.mt /\ a.mt <= core.acked + 1
      <3>1. last <= core.acked + 1
        BY <1>0 DEF MtInv
      <3>2. a.mt = core.acked + 1 /\ a.mt \in Nat
        BY <1>1, <1>4, <1>5
      <3> QED
        BY <3>1, <3>2, SMTT(30)
    <2> QED
      BY <2>1, <2>2, <1>0, <1>3, <1>5, <1>6, MtSent, ZenonT(30)
  <1>11. MoInv'
    BY <1>0, <1>3, MoFrame, ZenonT(30)
  <1>12. SessionInv'
    BY <1>0, <1>3, <1>6, <1>8, ZenonT(30) DEF SessionInv
  <1>13. BindingInv'
    <2>1. OnTheWay' = OnTheWay \cup {a}
      BY <1>3, <1>7 DEF OnTheWay
    <2>2. RefreshPending => RefreshPending'
      BY <2>1, <1>3 DEF RefreshPending
    <2>3. a.kind # "ok"
      BY <1>5, ZenonT(30)
    <2> QED
      BY <2>1, <2>2, <2>3, <1>0, <1>3, <1>6 DEF BindingInv
  <1> QED
    BY <1>9, <1>10, <1>11, <1>12, <1>13 DEF ServiceInv

\* Time passes: the binding and the refresh timer run down together.
LEMMA ElapseKeeps ==
  ASSUME ServiceInv, Elapse
  PROVE  ServiceInv'
  <1>0. /\ Typed /\ MtInv /\ MoInv /\ SessionInv /\ BindingInv
        /\ core \in CoreType /\ hist \in HistType /\ svc \in SvcType
        /\ svc.refresh \in {Off} \cup 0..RefreshTime
        /\ svc.sent_age \in {Off} \cup 0..RetryTime
        /\ core.binding \in 0..Expires /\ core.faults \in 0..MaxFaults
    BY Types DEF ServiceInv, SvcType, CoreType
  <1>1. PICK age : age = Older(svc.sent_age, RetryTime)
    OBVIOUS
  <1>2. PICK left : left = Sooner(svc.refresh)
    OBVIOUS
  <1>3. PICK bound : bound = Sooner(core.binding)
    OBVIOUS
  <1>4. PICK faults : faults = IF net = <<>> THEN core.faults ELSE core.faults - 1
    OBVIOUS
  <1>5. /\ worker.pc = "wait" /\ ~HasWork(svc) /\ (net # <<>> => core.faults > 0)
        /\ svc' = [svc EXCEPT !.sent_age = age, !.refresh = left]
        /\ core' = [core EXCEPT !.binding = bound, !.faults = faults]
        /\ hist' = IF net = <<>> THEN hist ELSE Spoil(hist)
        /\ UNCHANGED <<last, worker, ring, net>>
    BY <1>1, <1>2, <1>3, <1>4 DEF Elapse
  <1>6. /\ age \in {Off} \cup 0..RetryTime /\ left \in {Off} \cup 0..RefreshTime
        /\ bound \in 0..Expires /\ faults \in 0..MaxFaults
        /\ bound > 0 => core.binding > 0
    <2>1. age \in {Off} \cup 0..RetryTime
      BY <1>0, <1>1, Constants DEF Older
    <2>2. left \in {Off} \cup 0..RefreshTime
      BY <1>0, <1>2, Constants DEF Sooner, Off
    <2>3. bound \in 0..Expires /\ (bound > 0 => core.binding > 0)
      BY <1>0, <1>3, Constants DEF Sooner
    <2>4. faults \in 0..MaxFaults
      <3>1. net # <<>> => core.faults > 0
        BY <1>5
      <3>2. core.faults > 0 => core.faults - 1 \in 0..MaxFaults
        BY <1>0, Constants
      <3> QED
        BY <3>1, <3>2, <1>0, <1>4
    <2> QED
      BY <2>1, <2>2, <2>3, <2>4
  <1>7. /\ svc' \in SvcType /\ svc'.refresh = left
        /\ svc'.registered = svc.registered /\ svc'.attempts = svc.attempts
        /\ svc'.register_sent = svc.register_sent
        /\ svc'.session = svc.session /\ svc'.sms = svc.sms /\ svc'.ip = svc.ip
        /\ svc'.next_ref = svc.next_ref
    BY <1>0, <1>5, <1>6, ZenonT(30) DEF SvcType
  <1>8. core' \in CoreType /\ core'.binding = bound /\ core'.acked = core.acked
    BY <1>0, <1>5, <1>6, ZenonT(30) DEF CoreType
  <1>9. /\ hist' \in HistType /\ hist'.sent = hist.sent
        /\ hist'.flushed = hist.flushed /\ hist'.inbox = hist.inbox
        /\ hist'.dropped = hist.dropped /\ hist'.stale = hist.stale
        /\ hist'.spoilt = 0 => hist.spoilt = 0 /\ net = <<>>
    BY <1>0, <1>5, SpoilFields
  <1>10. Typed'
    BY <1>0, <1>5, <1>7, <1>8, <1>9, ZenonT(30) DEF Typed, ImsTypeOK, CoreType
  <1>11. MtInv' /\ MoInv'
    BY <1>0, <1>5, <1>7, <1>8, <1>9, MtFrame, MoFrame
  <1>12. SessionInv'
    BY <1>0, <1>5, <1>6, <1>7, <1>8, <1>9, ZenonT(30) DEF SessionInv
  <1>13. BindingInv'
    <2> SUFFICES ASSUME hist'.spoilt = 0
                 PROVE  /\ \A p \in OnTheWay' : p.kind = "ok" => bound = Expires
                        /\ worker.ip.kind # "ok"
                        /\ svc.registered /\ ~hist.stale =>
                              left # Off /\ bound >= left + (Expires - RefreshTime)
      BY <1>5, <1>7, <1>8, <1>9 DEF BindingInv
    <2>1. OnTheWay = {} /\ OnTheWay' = {}
      <3>1. svc.ip = <<>> /\ net = <<>>
        BY <1>5, <1>9 DEF HasWork
      <3> QED
        BY <3>1, <1>5, <1>7, RangeEmpty DEF OnTheWay
    <2>2. worker.ip.kind # "ok"
      BY <1>0, <1>5, Types, SMTT(30) DEF Resting, NoPacket
    <2>3. ASSUME svc.registered, ~hist.stale
          PROVE  left # Off /\ bound >= left + (Expires - RefreshTime)
      <3>1. svc.refresh # 0
        BY <2>3, <1>0, <1>5 DEF HasWork, register_refresh_needed, SessionInv
      <3>2. ~RefreshPending
        BY <2>1, <1>5, ZenonT(30) DEF RefreshPending
      <3>3. /\ svc.refresh # Off
            /\ core.binding >= svc.refresh + (Expires - RefreshTime)
        BY <3>2, <2>3, <1>0, <1>9 DEF BindingInv
      <3>4. svc.refresh \in 1..RefreshTime
        BY <3>1, <3>3, <1>0, Constants, SMTT(30)
      <3>5. left = svc.refresh - 1 /\ core.binding > 0
        BY <3>3, <3>4, <1>0, <1>2, Constants, SMTT(30) DEF Sooner
      <3>6. bound = core.binding - 1
        BY <3>5, <1>0, <1>3 DEF Sooner
      <3>7. left \in Nat
        BY <3>4, <3>5, Constants, SMTT(30)
      <3> QED
        BY <3>3, <3>4, <3>5, <3>6, <3>7, <1>0, Constants
    <2> QED
      BY <2>1, <2>2, <2>3
  <1> QED
    BY <1>10, <1>11, <1>12, <1>13 DEF ServiceInv

\* The session ends: its packets, the queue and the registration go, and the
\* worker's snapshot is stale.
LEMMA SessionDownKeeps ==
  ASSUME ServiceInv, SessionDown
  PROVE  ServiceInv'
  <1>0. /\ Typed /\ MtInv /\ MoInv /\ SessionInv /\ BindingInv
        /\ core \in CoreType /\ hist \in HistType /\ svc \in SvcType
        /\ worker \in WorkerType /\ (worker.pc = "wait" => worker = Resting)
        /\ svc.sms \in Seq(1..MaxMo) /\ svc.next_ref \in 1..(MaxMo + 1)
        /\ hist.flushed \in SUBSET (1..MaxMo)
    BY Types, ZenonT(30) DEF ServiceInv, SvcType, HistType
  <1>1. PICK f : f = hist.flushed \cup Range(svc.sms)
    BY ZenonT(30)
  <1>2. PICK st : st = (worker.pc # "wait")
    OBVIOUS
  <1>3. /\ svc' = ims_service_set_pdu_active(svc, "none")
        /\ worker' = [worker EXCEPT !.stale = st]
        /\ net' = <<>> /\ core' = [core EXCEPT !.binding = 0]
        /\ hist' = [hist EXCEPT !.flushed = f, !.stale = FALSE, !.spoilt = 0]
        /\ UNCHANGED <<last, ring>>
    BY <1>1, <1>2 DEF SessionDown
  <1>4. /\ svc' \in SvcType /\ ~svc'.registered /\ svc'.attempts = 0
        /\ svc'.session = "none" /\ svc'.sms = <<>> /\ svc'.ip = <<>>
        /\ svc'.next_ref = svc.next_ref
    <2>1. PICK r : r = [svc EXCEPT !.register_sent = FALSE, !.sent_age = Off,
                                   !.attempts = 0]
      OBVIOUS
    <2>2. /\ Off \in {Off} \cup 0..RetryTime /\ 0 \in 0..MaxAttempts
          /\ Off \in {Off} \cup 0..RefreshTime
          /\ <<>> \in Seq(1..MaxMo) /\ <<>> \in Seq(Packets) /\ "none" \in Sessions
      BY Constants DEF Sessions
    <2>3. r \in SvcType /\ r.attempts = 0 /\ r.next_ref = svc.next_ref
      BY <2>1, <2>2, <1>0, ZenonT(30) DEF SvcType
    <2>4. svc' = [r EXCEPT !.session = "none", !.registered = FALSE, !.auth = FALSE,
                           !.refresh = Off, !.sms = <<>>, !.ip = <<>>]
      BY <2>1, <1>3 DEF ims_service_set_pdu_active
    <2> QED
      BY <2>2, <2>3, <2>4, ZenonT(120) DEF SvcType
  <1>5. /\ worker' \in WorkerType /\ worker'.pc = worker.pc /\ worker'.ip = worker.ip
        /\ worker'.sms = worker.sms /\ worker'.ready = worker.ready
        /\ worker'.stale = (worker.pc # "wait")
        /\ worker.pc = "wait" => worker' = Resting
    <2>1. worker' \in WorkerType /\ worker'.pc = worker.pc /\ worker'.ip = worker.ip
          /\ worker'.sms = worker.sms /\ worker'.ready = worker.ready
          /\ worker'.stale = (worker.pc # "wait")
      BY <1>0, <1>2, <1>3, ZenonT(30) DEF WorkerType
    <2>2. Resting.stale = FALSE
      BY DEF Resting
    <2>3. worker.pc = "wait" => st = worker.stale
      BY <2>2, <1>0, <1>2, ZenonT(30)
    <2>4. [worker EXCEPT !.stale = worker.stale] = worker
      BY <1>0 DEF WorkerType
    <2> QED
      BY <2>1, <2>3, <2>4, <1>0, <1>3
  <1>w. worker.pc = "wait" => worker.sms = 0 /\ worker.ip = NoPacket
    <2>1. Resting.sms = 0 /\ Resting.ip = NoPacket
      BY DEF Resting
    <2> QED
      BY <2>1, <1>0
  <1>6. /\ core' \in CoreType /\ core'.binding = 0 /\ core'.acked = core.acked
    <2>1. 0 \in 0..Expires
      BY Constants
    <2> QED
      BY <2>1, <1>0, <1>3, ZenonT(30) DEF CoreType
  <1>7. /\ hist' \in HistType /\ hist'.sent = hist.sent /\ hist'.flushed = f
        /\ hist'.inbox = hist.inbox /\ hist'.dropped = hist.dropped
        /\ ~hist'.stale /\ hist'.spoilt = 0
    <2>1. f \in SUBSET (1..MaxMo)
      <3>1. Range(svc.sms) \subseteq 1..MaxMo
        BY <1>0, RangeTyped, ZenonT(30)
      <3> QED
        BY <3>1, <1>0, <1>1
    <2>2. 0 \in 0..MaxAttempts
      BY Constants
    <2> QED
      BY <2>1, <2>2, <1>0, <1>3, ZenonT(30) DEF HistType
  <1>8. Range(svc'.sms) = {} /\ OnTheWay' = {} /\ Range(svc'.ip) = {} /\ Range(net') = {}
    BY <1>3, <1>4, RangeEmpty DEF OnTheWay
  <1>9. Len(svc'.sms) = 0 /\ Len(svc'.ip) = 0 /\ Len(net') = 0
    BY <1>3, <1>4, ZenonT(30)
  <1>10. Typed'
    <2>1. ImsTypeOK'
      <3>1. /\ Len(svc'.sms) <= SmsQueueSize /\ Len(svc'.ip) <= IpQueueSize
            /\ net' \in Seq(Packets)
        BY <1>3, <1>9, Constants, SMTT(30)
      <3> QED
        BY <3>1, <1>0, <1>3, <1>4, <1>5, <1>6 DEF Typed, ImsTypeOK, CoreType
    <2> QED
      BY <2>1, <1>0, <1>4, <1>5, <1>7 DEF Typed
  <1>11. MtInv'
    <2>1. InOrder(svc'.ip) /\ InOrder(net')
      BY <1>9, SMTT(30) DEF InOrder
    <2> QED
      BY <2>1, <1>0, <1>3, <1>5, <1>6, <1>7, <1>8 DEF MtInv
  <1>12. MoInv'
    <2>1. Increasing(svc'.sms)
      BY <1>9, SMTT(30) DEF Increasing
    <2>2. /\ AllBelow(Range(hist.sent), Range(svc'.sms))
          /\ AllBelow({worker.sms}, Range(svc'.sms))
          /\ AllBelow(Range(svc'.sms) \cup {worker.sms} \cup Range(hist.sent),
                      {svc.next_ref})
      BY <1>0, <1>8, ZenonT(30) DEF MoInv, AllBelow
    <2>3. 1..(svc.next_ref - 1) \subseteq
            Range(svc'.sms) \cup {worker.sms} \cup Range(hist.sent) \cup f
      BY <1>0, <1>1 DEF MoInv
    <2>4. worker.sms # 0 => worker'.stale
      BY <1>w, <1>5, ZenonT(30)
    <2> QED
      BY <2>1, <2>2, <2>3, <2>4, <1>0, <1>4, <1>5, <1>7, ZenonT(30) DEF MoInv
  <1>13. worker'.ip # NoPacket => worker'.stale
    BY <1>w, <1>5, ZenonT(30)
  <1>14. SessionInv'
    BY <1>3, <1>4, <1>6, <1>13, SMTT(30) DEF SessionInv
  <1>15. BindingInv'
    <2>1. worker'.ip.kind = "ok" => worker'.stale
      BY <1>13, PacketKinds
    <2> QED
      BY <2>1, <1>4, <1>8 DEF BindingInv
  <1> QED
    BY <1>10, <1>11, <1>12, <1>14, <1>15 DEF ServiceInv

\* A session begins, with nothing left over that would need it.
LEMMA SessionUpKeeps ==
  ASSUME ServiceInv, SessionUp
  PROVE  ServiceInv'
  <1>0. /\ Typed /\ MtInv /\ MoInv /\ SessionInv /\ BindingInv
        /\ core \in CoreType /\ svc \in SvcType
    BY Types DEF ServiceInv
  <1>1. PICK session \in Sessions \ {"none"} :
           svc' = ims_service_set_pdu_active(svc, session)
    BY DEF SessionUp
  <1>2. /\ svc.session = "none" /\ core.sessions > 0
        /\ core' = [core EXCEPT !.sessions = core.sessions - 1]
        /\ UNCHANGED <<last, worker, ring, net, hist>>
    BY DEF SessionUp
  <1>3. /\ svc' \in SvcType /\ svc'.registered = svc.registered /\ svc'.attempts = 0
        /\ svc'.session = session /\ svc'.sms = svc.sms /\ svc'.ip = svc.ip
        /\ svc'.next_ref = svc.next_ref /\ svc'.refresh = svc.refresh
    <2>1. PICK r : r = [svc EXCEPT !.register_sent = FALSE, !.sent_age = Off,
                                   !.attempts = 0]
      OBVIOUS
    <2>2. Off \in {Off} \cup 0..RetryTime /\ 0 \in 0..MaxAttempts
      BY Constants
    <2>3. /\ r \in SvcType /\ r.attempts = 0 /\ r.next_ref = svc.next_ref
          /\ r.registered = svc.registered /\ r.sms = svc.sms /\ r.ip = svc.ip
          /\ r.refresh = svc.refresh
      BY <2>1, <2>2, <1>0, ZenonT(30) DEF SvcType
    <2>4. svc' = [r EXCEPT !.session = session]
      BY <2>1, <1>1, <1>2 DEF ims_service_set_pdu_active
    <2> QED
      BY <2>3, <2>4, ZenonT(30) DEF SvcType
  <1>4. core' \in CoreType /\ core'.binding = core.binding /\ core'.acked = core.acked
    <2>1. core.sessions - 1 \in 0..MaxSessions
      BY <1>0, <1>2, Constants DEF CoreType
    <2> QED
      BY <2>1, <1>0, <1>2 DEF CoreType
  <1>5. Typed'
    <2>1. ImsTypeOK'
      BY <1>0, <1>2, <1>3, <1>4 DEF Typed, ImsTypeOK, CoreType
    <2> QED
      BY <2>1, <1>0, <1>2, <1>3 DEF Typed
  <1>6. MtInv'
    BY <1>0, <1>2, <1>3, <1>4, MtFrame
  <1>7. MoInv'
    BY <1>0, <1>2, <1>3 DEF MoInv
  <1>8. SessionInv'
    BY <1>0, <1>2, <1>3, <1>4 DEF SessionInv
  <1>9. BindingInv'
    <2>1. OnTheWay' = OnTheWay
      BY <1>2, <1>3 DEF OnTheWay
    <2>2. RefreshPending' <=> RefreshPending
      BY <2>1, <1>2, ZenonT(30) DEF RefreshPending
    <2> QED
      BY <2>1, <2>2, <1>0, <1>2, <1>3, <1>4 DEF BindingInv
  <1> QED
    BY <1>5, <1>6, <1>7, <1>8, <1>9 DEF ServiceInv

\* The host submits an SMS, under a reference above all others.
LEMMA SubmitKeeps ==
  ASSUME ServiceInv, SubmitSms
  PROVE  ServiceInv'
  <1>0. /\ Typed /\ MtInv /\ MoInv /\ SessionInv /\ BindingInv
        /\ svc \in SvcType /\ svc.sms \in Seq(1..MaxMo)
        /\ svc.next_ref \in 1..(MaxMo + 1) /\ MaxMo \in Nat
        /\ hist.sent \in Seq(1..MaxMo) /\ worker.sms \in 0..MaxMo
    BY Types, Constants DEF ServiceInv, SvcType, HistType, WorkerType
  <1>1. PICK n : n = svc.next_ref
    OBVIOUS
  <1>2. /\ n <= MaxMo /\ svc.registered /\ Len(svc.sms) < SmsQueueSize
        /\ svc' = [svc EXCEPT !.sms = Append(svc.sms, n), !.next_ref = n + 1]
        /\ UNCHANGED <<last, worker, ring, net, core, hist>>
    BY <1>1 DEF SubmitSms
  <1>3. /\ n \in 1..MaxMo /\ n + 1 \in 1..(MaxMo + 1) /\ (n + 1) - 1 = n /\ n < n + 1
        /\ 1..n = 1..(n - 1) \cup {n} /\ n \in Nat
    BY <1>0, <1>1, <1>2, SMTT(30)
  <1>4. /\ Append(svc.sms, n) \in Seq(1..MaxMo)
        /\ Len(Append(svc.sms, n)) = Len(svc.sms) + 1
        /\ Range(Append(svc.sms, n)) = Range(svc.sms) \cup {n}
    <2>1. PICK S : S = 1..MaxMo
      OBVIOUS
    <2>2. svc.sms \in Seq(S) /\ n \in S
      BY <2>1, <1>0, <1>3
    <2>3. /\ Append(svc.sms, n) \in Seq(S)
          /\ Len(Append(svc.sms, n)) = Len(svc.sms) + 1
          /\ Range(Append(svc.sms, n)) = Range(svc.sms) \cup {n}
      BY <2>2, AppendRange
    <2> QED
      BY <2>1, <2>3
  <1>5. /\ svc' \in SvcType /\ svc'.sms = Append(svc.sms, n) /\ svc'.next_ref = n + 1
        /\ svc'.registered = svc.registered /\ svc'.attempts = svc.attempts
        /\ svc'.register_sent = svc.register_sent /\ svc'.session = svc.session
        /\ svc'.ip = svc.ip /\ svc'.refresh = svc.refresh
    <2>1. PICK q : q = Append(svc.sms, n)
      BY ZenonT(30)
    <2>2. PICK m : m = n + 1
      OBVIOUS
    <2>3. q \in Seq(1..MaxMo) /\ m \in 1..(MaxMo + 1)
      BY <2>1, <2>2, <1>3, <1>4
    <2>4. svc' = [svc EXCEPT !.sms = q, !.next_ref = m]
      BY <2>1, <2>2, <1>2
    <2>5. svc' \in SvcType
      BY <2>3, <2>4, <1>0, ZenonT(30) DEF SvcType
    <2> QED
      BY <2>1, <2>2, <2>4, <2>5, <1>0 DEF SvcType
  <1>6. Typed'
    <2>1. Len(svc'.sms) <= SmsQueueSize
      <3>1. Len(svc.sms) \in Nat /\ SmsQueueSize \in Nat
        BY <1>0, Constants
      <3> QED
        BY <3>1, <1>2, <1>4, <1>5
    <2>2. ImsTypeOK'
      BY <2>1, <1>0, <1>2, <1>5 DEF Typed, ImsTypeOK
    <2> QED
      BY <2>2, <1>0, <1>2, <1>5 DEF Typed
  <1>7. MtInv'
    BY <1>0, <1>2, <1>5, MtFrame, ZenonT(30)
  <1>8. MoInv'
    <2>1. AllBelow(Range(svc.sms) \cup {worker.sms} \cup Range(hist.sent), {n})
      BY <1>0, <1>1 DEF MoInv
    <2>2. Increasing(svc'.sms)
      <3>1. 1..MaxMo \in SUBSET Nat
        BY <1>0, SMTT(30)
      <3>2. Increasing(svc.sms) /\ AllBelow(Range(svc.sms), {n})
        BY <2>1, <1>0 DEF MoInv, AllBelow
      <3> QED
        BY <3>1, <3>2, <1>0, <1>3, <1>5, IncreasingAppend, ZenonT(30)
    <2>3. /\ AllBelow(Range(hist.sent), Range(svc'.sms))
          /\ worker.sms # 0 => AllBelow({worker.sms}, Range(svc'.sms))
      BY <2>1, <1>0, <1>4, <1>5, ZenonT(30) DEF MoInv, AllBelow
    <2>4. AllBelow(Range(svc'.sms) \cup {worker.sms} \cup Range(hist.sent), {n + 1})
      <3>1. ASSUME NEW x \in Range(svc'.sms) \cup {worker.sms} \cup Range(hist.sent)
            PROVE  x < n + 1
        <4>1. x < n \/ x = n
          <5>1. Range(svc'.sms) = Range(svc.sms) \cup {n}
            BY <1>4, <1>5, ZenonT(30)
          <5>2. x \in Range(svc.sms) \cup {worker.sms} \cup Range(hist.sent) \/ x = n
            BY <5>1
          <5> QED
            BY <5>2, <2>1, ZenonT(30) DEF AllBelow
        <4>2. x \in Nat
          <5>1. Range(svc.sms) \subseteq 1..MaxMo /\ Range(hist.sent) \subseteq 1..MaxMo
            BY <1>0, RangeTyped, ZenonT(30)
          <5>2. 1..MaxMo \subseteq Nat /\ 0..MaxMo \subseteq Nat
            BY <1>0, SMTT(30)
          <5>3. Range(svc'.sms) = Range(svc.sms) \cup {n} /\ n \in 1..MaxMo
            BY <1>3, <1>4, <1>5
          <5>4. worker.sms \in 0..MaxMo
            BY <1>0, ZenonT(30)
          <5> QED
            BY <5>1, <5>2, <5>3, <5>4
        <4> QED
          BY <4>1, <4>2, <1>3
      <3> QED
        BY <3>1 DEF AllBelow
    <2>5. 1..n \subseteq
            Range(svc'.sms) \cup {worker.sms} \cup Range(hist.sent) \cup hist.flushed
      BY <1>0, <1>1, <1>3, <1>4, <1>5, ZenonT(30) DEF MoInv
    <2> QED
      BY <2>2, <2>3, <2>4, <2>5, <1>0, <1>2, <1>3, <1>5, ZenonT(30) DEF MoInv
  <1>9. SessionInv'
    BY <1>0, <1>2, <1>5 DEF SessionInv
  <1>10. BindingInv'
    <2>1. OnTheWay' = OnTheWay
      BY <1>2, <1>5 DEF OnTheWay
    <2>2. RefreshPending' <=> RefreshPending
      BY <2>1, <1>2 DEF RefreshPending
    <2> QED
      BY <2>1, <2>2, <1>0, <1>2, <1>5 DEF BindingInv
  <1> QED
    BY <1>6, <1>7, <1>8, <1>9, <1>10 DEF ServiceInv

\* No step but DrainSms puts anything into the inbox.
LEMMA InboxStays ==
  ASSUME ServiceInv, ServiceStep \/ MainStep
  PROVE  hist'.inbox = hist.inbox
  <1>0. Typed /\ hist \in HistType
    BY Types DEF ServiceInv
  <1>1. ASSUME NEW h \in HistType PROVE MoDone(h).inbox = h.inbox
    BY DEF MoDone, HistType
  <1>2. ASSUME NEW h, h = [hist EXCEPT !.stale = hist.stale \/ worker.stale]
        PROVE  h \in HistType /\ h.inbox = hist.inbox
    <2>1. (hist.stale \/ worker.stale) \in BOOLEAN
      OBVIOUS
    <2> QED
      BY <2>1, <1>0, <1>2, ZenonT(30) DEF HistType
  <1>3. Spoil(hist).inbox = hist.inbox
    BY <1>0, SpoilFields
  <1>4. CASE WorkerTake
    BY <1>4, ZenonT(30) DEF WorkerTake
  <1>5. ASSUME NEW authorized, Transmit(authorized) PROVE hist'.inbox = hist.inbox
    BY <1>3, <1>5 DEF Transmit
  <1>6. CASE WorkerSend
    BY <1>5, <1>6 DEF WorkerSend
  <1>7. CASE WorkerHandle
    <2>1. CASE HandleOk
      BY <2>1, <1>1, <1>2 DEF HandleOk
    <2>2. CASE HandleChallenge
      BY <2>2 DEF HandleChallenge
    <2>3. CASE HandleMessage
      <3>1. PICK gone : hist' = MoDone([hist EXCEPT !.dropped = gone])
                        /\ gone \in {hist.dropped, hist.dropped \cup {worker.ip.mt}}
        BY <2>3, ZenonT(30) DEF HandleMessage
      <3>2. worker.ip.mt \in 1..MaxMt
        <4>1. worker.ip \in Packets \cup {NoPacket} /\ worker.ip.kind = "message"
          BY <1>0, <2>3, Types DEF WorkerType, HandleMessage
        <4> QED
          BY <4>1, PacketKinds DEF IsMessage
      <3>3. gone \in SUBSET (1..MaxMt)
        BY <3>1, <3>2, <1>0 DEF HistType
      <3>4. /\ [hist EXCEPT !.dropped = gone] \in HistType
            /\ [hist EXCEPT !.dropped = gone].inbox = hist.inbox
        BY <3>3, <1>0, ZenonT(30) DEF HistType
      <3> QED
        BY <3>1, <3>4, <1>1, ZenonT(30)
    <2>4. CASE HandleNothing
      BY <2>4, <1>0, <1>1 DEF HandleNothing
    <2> QED
      BY <1>7, <2>1, <2>2, <2>3, <2>4 DEF WorkerHandle
  <1>8. CASE WorkerAuth
    BY <1>0, <1>1, <1>5, <1>8, ZenonT(30) DEF WorkerAuth
  <1>9. CASE WorkerMark
    BY <1>0, <1>1, <1>9 DEF WorkerMark
  <1>10. CASE ReceiveIp
    BY <1>3, <1>10 DEF ReceiveIp
  <1>11. CASE SmscSend
    BY <1>11 DEF SmscSend
  <1>12. CASE Elapse
    BY <1>3, <1>12 DEF Elapse
  <1>13. CASE SessionDown
    BY <1>0, <1>13 DEF SessionDown, HistType
  <1>14. CASE SessionUp \/ SubmitSms
    BY <1>14 DEF SessionUp, SubmitSms
  <1> QED
    BY <1>4, <1>6, <1>7, <1>8, <1>9, <1>10, <1>11, <1>12, <1>13, <1>14, ZenonT(30)
       DEF ServiceStep, WorkerStep, MainStep, Poll

\* Every step beside the inbox keeps the invariant of the service.
LEMMA ServiceKeeps ==
  ASSUME ServiceInv, ServiceStep \/ MainStep
  PROVE  ServiceInv'
  BY WorkerKeeps, ReceiveKeeps, SmscKeeps, ElapseKeeps, SessionDownKeeps,
     SessionUpKeeps, SubmitKeeps DEF ServiceStep, MainStep, Poll
=============================================================================
