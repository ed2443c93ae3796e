----------------------------- MODULE ImsService -----------------------------
(***************************************************************************)
(* SMS over IMS (src/ims_service/ims_service.c): the SIP registration, the *)
(* short messages the host sends (MO) and those the network sends (MT),    *)
(* as far as the ring of the state bridge; SmsInbox takes over there.      *)
(*                                                                         *)
(* Three threads meet under svc->lock: the IMS worker, which takes a       *)
(* snapshot of its work under the lock and does it after the unlock; the   *)
(* main thread, which reports the PDU session at every poll, submits SMS   *)
(* and empties the ring; and the RLS receive thread, which queues downlink *)
(* packets.  The P-CSCF with its SMSC is the environment.                  *)
(*                                                                         *)
(* A SIP message is its kind.  Times count in retry intervals.             *)
(***************************************************************************)
EXTENDS Integers, Sequences, Functions

CONSTANTS
    MaxAttempts,    \* IMS_REGISTER_MAX_ATTEMPTS, 5 in the code
    RetryTime,      \* IMS_REGISTER_RETRY_MS, 4 s in the code
    RefreshTime,    \* Expires less the refresh margin, 540 s in the code
    Expires,        \* what the P-CSCF grants, 600 s in the code
    SmsQueueSize,   \* usable slots of sms_queue, 15 in the code
    IpQueueSize,    \* usable slots of ip_queue, 31 in the code
    RingSize,       \* usable slots of the bridge's SMS ring, 15 in the code
    MaxMo,          \* bound: SMS the host submits with success
    MaxMt,          \* bound: SMS the network has for the host
    MaxSessions,    \* bound: changes of the IMS PDU session
    MaxFaults       \* bound: packets lost, late or sent twice

ASSUME ImsAssumption ==
    /\ {MaxAttempts, RetryTime, RefreshTime} \subseteq Nat \ {0}
    /\ Expires \in Nat /\ RefreshTime + RetryTime < Expires
    /\ {SmsQueueSize, IpQueueSize, RingSize} \subseteq Nat \ {0}
    /\ {MaxMo, MaxMt, MaxSessions, MaxFaults} \subseteq Nat

VARIABLES
    svc,     \* struct ims_service, what svc->lock guards
    last,    \* svc->last_mt_rpdu, the worker's alone
    worker,  \* the worker's place in its loop and its locals
    ring,    \* the bridge's sms_queue
    net,     \* packets on their way to the UE
    core,    \* the P-CSCF and the SMSC
    hist     \* what became of the messages

imsVars == <<svc, last, worker, ring, net, core, hist>>

Off == -1

\* The IMS PDU session as the bridge reports it: none, one whose accept named
\* no P-CSCF, one that can carry SIP.
Sessions == {"none", "bare", "full"}

\* An answer to REGISTER: 200, 401 with a challenge the SIM can answer, 401 with
\* one it cannot; or the MESSAGE that carries MT SMS n.
Answers == {"ok", "challenge", "badChallenge"}
Packets == [kind: Answers, mt: {0}] \cup [kind: {"message"}, mt: 1..MaxMt]
Answer(kind) == [kind |-> kind, mt |-> 0]
Message(n) == [kind |-> "message", mt |-> n]
NoPacket == [kind |-> "none", mt |-> 0]

SvcType ==
    [session: Sessions,             \* pdu_active and has_pcscf
     registered: BOOLEAN,
     register_sent: BOOLEAN,
     sent_age: {Off} \cup 0..RetryTime,          \* since register_sent_ms
     attempts: 0..MaxAttempts,
     auth: BOOLEAN,                 \* register_auth holds a nonce
     refresh: {Off} \cup 0..RefreshTime,         \* until register_refresh_ms
     sms: Seq(1..MaxMo),
     ip: Seq(Packets),
     next_ref: 1..(MaxMo + 1)]

\* pc: where the worker is; authorized: its REGISTER refreshes with the nonce
\* kept; ip, sms, ready: the packet and the SMS it took, and whether the SMS may
\* go out. stale: the session ended since (no variable of the code).
WorkerType ==
    [pc: {"wait", "send", "handle", "auth", "mark"}, authorized: BOOLEAN,
     ip: Packets \cup {NoPacket}, sms: 0..MaxMo, ready: BOOLEAN, stale: BOOLEAN]

Resting == [pc |-> "wait", authorized |-> FALSE, ip |-> NoPacket, sms |-> 0,
            ready |-> FALSE, stale |-> FALSE]

\* ims_service_init: calloc, next_sms_reference = 1, then the worker is started.
ServiceInit ==
    /\ svc = [session |-> "none", registered |-> FALSE, register_sent |-> FALSE,
              sent_age |-> Off, attempts |-> 0, auth |-> FALSE, refresh |-> Off,
              sms |-> <<>>, ip |-> <<>>, next_ref |-> 1]
    /\ last = 0
    /\ worker = Resting
    /\ ring = <<>>
    /\ net = <<>>
    /\ core = [binding |-> 0, acked |-> 0, sessions |-> MaxSessions,
               faults |-> MaxFaults]
    /\ hist = [sent |-> <<>>, flushed |-> {}, inbox |-> <<>>,
               dropped |-> {}, spoilt |-> 0, stale |-> FALSE]

-----------------------------------------------------------------------------
(* The environment's side of a transmission *)

Fault(c) == [c EXCEPT !.faults = @ - 1]

\* The P-CSCF gets a REGISTER and answers it, or one of the two is lost. It
\* may do without authentication, and may challenge an authorized REGISTER.
Register(c, authorized) ==
    LET accepted == [c EXCEPT !.binding = Expires] IN
    {[core |-> accepted, net |-> Append(net, Answer("ok"))]}
    \cup (IF authorized THEN {} ELSE
             {[core |-> c, net |-> Append(net, Answer("challenge"))]})
    \cup (IF c.faults = 0 THEN {} ELSE
             {[core |-> Fault(c), net |-> net],
              [core |-> Fault(accepted), net |-> net],
              [core |-> Fault(c), net |-> Append(net, Answer(
                  IF authorized THEN "challenge" ELSE "badChallenge"))]})

\* The SMSC gets the RP-ACK of SMS n, or the RP-ACK is lost.
RpAck(c, n) ==
    {[c EXCEPT !.acked = IF n > @ THEN n ELSE @]}
    \cup (IF c.faults = 0 THEN {} ELSE {Fault(c)})

-----------------------------------------------------------------------------
(* What the worker looks for under the lock *)

register_needed(s) == s.session = "full" /\ ~s.registered /\ ~s.register_sent

register_refresh_needed(s) == s.session = "full" /\ s.registered /\ s.refresh = 0

\* Mutant: one attempt too many.
RetryOnceMore(s) ==
    /\ s.session = "full" /\ ~s.registered /\ s.register_sent
    /\ s.sent_age = RetryTime
    /\ s.attempts <= MaxAttempts

register_retry_needed(s) ==
    /\ s.session = "full" /\ ~s.registered /\ s.register_sent
    /\ s.sent_age = RetryTime
    /\ s.attempts < MaxAttempts

HasWork(s) ==
    \/ s.sms # <<>> \/ s.ip # <<>>
    \/ register_needed(s) \/ register_refresh_needed(s) \/ register_retry_needed(s)

HeadOr(q, none) == IF q = <<>> THEN none ELSE Head(q)
TailOf(q) == IF q = <<>> THEN q ELSE Tail(q)

\* ims_worker, from the wait to the unlock.
WorkerTake ==
    /\ worker.pc = "wait"
    /\ HasWork(svc)
    /\ LET rearmed == [svc EXCEPT !.register_sent =
                           @ /\ ~register_retry_needed(svc)]
           register == register_needed(rearmed)
           refresh == register_refresh_needed(rearmed)
       IN  /\ svc' = [rearmed EXCEPT
                  !.refresh = IF refresh THEN Off ELSE @,
                  !.register_sent = @ \/ register,
                  !.sent_age = IF register THEN 0 ELSE @,
                  !.attempts = IF register THEN @ + 1 ELSE @,
                  !.sms = TailOf(@), !.ip = TailOf(@)]
           /\ worker' = [
                  pc |-> IF register \/ refresh THEN "send" ELSE "handle",
                  authorized |-> refresh /\ svc.auth,
                  ip |-> HeadOr(svc.ip, NoPacket), sms |-> HeadOr(svc.sms, 0),
                  ready |-> svc.registered /\ svc.session = "full",
                  stale |-> FALSE]
    /\ UNCHANGED <<last, ring, net, core, hist>>

\* ims_send_initial_register goes out from the address of the snapshot, so it
\* is in vain once that session has ended; ims_send_authorized_register looks
\* at the session again, under the lock.
CanSend(authorized) ==
    svc.session = "full" /\ (authorized \/ ~worker.stale)

Spoil(h) == [h EXCEPT !.spoilt = IF @ < MaxAttempts THEN @ + 1 ELSE @]

\* The REGISTER leaves, and the environment does one of the things it may do.
Transmit(authorized) ==
    IF CanSend(authorized)
    THEN \E out \in Register(core, authorized) :
            /\ core' = out.core
            /\ net' = out.net
            /\ hist' = IF out.core.faults < core.faults THEN Spoil(hist) ELSE hist
    ELSE UNCHANGED <<core, net, hist>>

\* The REGISTER or its refresh, after the unlock. Whether it went out makes no
\* difference to the service.
WorkerSend ==
    /\ worker.pc = "send"
    /\ Transmit(worker.authorized)
    /\ worker' = [worker EXCEPT !.pc = "handle", !.authorized = FALSE]
    /\ UNCHANGED <<svc, last, ring>>

\* The end of the loop body: the SMS taken is sent if the service was registered
\* and the session ready when it was taken, and is given up otherwise.
MoDone(h) ==
    IF worker.sms = 0 THEN h
    ELSE IF worker.ready /\ CanSend(FALSE)
    THEN [h EXCEPT !.sent = Append(@, worker.sms)]
    ELSE IF worker.stale \/ h.stale THEN [h EXCEPT !.flushed = @ \cup {worker.sms}]
    ELSE h

\* Mutant: the refresh is not scheduled.
OkWithoutRefresh ==
    /\ worker.ip.kind = "ok"
    /\ svc' = [svc EXCEPT !.registered = TRUE, !.register_sent = FALSE,
                          !.sent_age = Off, !.attempts = 0]
    /\ hist' = MoDone([hist EXCEPT !.stale = @ \/ worker.stale])
    /\ worker' = Resting
    /\ UNCHANGED <<last, ring, core>>

\* 200 to a REGISTER, whichever REGISTER and session it answers.
HandleOk ==
    /\ worker.ip.kind = "ok"
    /\ svc' = [svc EXCEPT !.registered = TRUE, !.register_sent = FALSE,
                          !.sent_age = Off, !.attempts = 0,
                          !.refresh = RefreshTime]
    /\ hist' = MoDone([hist EXCEPT !.stale = @ \/ worker.stale])
    /\ worker' = Resting
    /\ UNCHANGED <<last, ring, core>>

\* 401: the challenge is kept, then answered.
HandleChallenge ==
    /\ worker.ip.kind \in {"challenge", "badChallenge"}
    /\ svc' = [svc EXCEPT !.auth = TRUE]
    /\ worker' = [worker EXCEPT !.pc = "auth"]
    /\ UNCHANGED <<last, ring, core, hist>>

\* ims_handle_sip_message: a repetition of the last SMS is acknowledged again,
\* any other is remembered, handed to the bridge and acknowledged, whether the
\* bridge had room for it or not.
HandleMessage ==
    /\ worker.ip.kind = "message"
    /\ LET n == worker.ip.mt
           new == n # last
           room == Len(ring) < RingSize
       IN  /\ last' = n
           /\ ring' = IF new /\ room THEN Append(ring, n) ELSE ring
           /\ hist' = MoDone([hist EXCEPT !.dropped =
                                 IF new /\ ~room THEN @ \cup {n} ELSE @])
           /\ core' \in IF CanSend(TRUE) THEN RpAck(core, n) ELSE {core}
    /\ worker' = Resting
    /\ UNCHANGED svc

HandleNothing ==
    /\ worker.ip = NoPacket
    /\ hist' = MoDone(hist)
    /\ worker' = Resting
    /\ UNCHANGED <<svc, last, ring, core>>

\* ims_handle_rx_ip
WorkerHandle ==
    /\ worker.pc = "handle"
    /\ HandleOk \/ HandleChallenge \/ HandleMessage \/ HandleNothing
    /\ UNCHANGED net

\* ims_send_authorized_register, which fails on a challenge it cannot answer.
WorkerAuth ==
    /\ worker.pc = "auth"
    /\ IF worker.ip.kind = "challenge" /\ CanSend(TRUE)
       THEN /\ Transmit(TRUE)
            /\ worker' = [worker EXCEPT !.pc = "mark"]
       ELSE /\ hist' = MoDone(hist)
            /\ worker' = Resting
            /\ UNCHANGED <<core, net>>
    /\ UNCHANGED <<svc, last, ring>>

\* Locked again: the retry timer starts afresh.
WorkerMark ==
    /\ worker.pc = "mark"
    /\ svc' = [svc EXCEPT !.register_sent = TRUE, !.sent_age = 0]
    /\ hist' = MoDone(hist)
    /\ worker' = Resting
    /\ UNCHANGED <<last, ring, net, core>>

WorkerStep == WorkerTake \/ WorkerSend \/ WorkerHandle \/ WorkerAuth \/ WorkerMark

-----------------------------------------------------------------------------
(* The other threads *)

\* Mutant: the attempts of the last session count in the next one.
SetPduKeepsAttempts(s, session) ==
    LET reset == [s EXCEPT !.register_sent = FALSE, !.sent_age = Off]
    IN  IF session = "none"
        THEN [reset EXCEPT !.session = session, !.registered = FALSE,
                           !.auth = FALSE, !.refresh = Off,
                           !.sms = <<>>, !.ip = <<>>]
        ELSE IF s.session = "none" THEN [reset EXCEPT !.session = session]
        ELSE s

\* Mutant: the registration survives the session.
SetPduKeepsRegistered(s, session) ==
    LET reset == [s EXCEPT !.register_sent = FALSE, !.sent_age = Off,
                           !.attempts = 0]
    IN  IF session = "none"
        THEN [reset EXCEPT !.session = session, !.auth = FALSE, !.refresh = Off,
                           !.sms = <<>>, !.ip = <<>>]
        ELSE IF s.session = "none" THEN [reset EXCEPT !.session = session]
        ELSE s

\* ims_service_set_pdu_active, called by state_bridge_poll in every tick. With
\* the session its packets and the P-CSCF's hold on the UE go.
ims_service_set_pdu_active(s, session) ==
    LET reset == [s EXCEPT !.register_sent = FALSE, !.sent_age = Off,
                           !.attempts = 0]
    IN  IF session = "none"
        THEN [reset EXCEPT !.session = session, !.registered = FALSE,
                           !.auth = FALSE, !.refresh = Off,
                           !.sms = <<>>, !.ip = <<>>]
        ELSE IF s.session = "none" THEN [reset EXCEPT !.session = session]
        ELSE s

\* Mutant: the last SMS is forgotten with the session.
SessionDownForgets ==
    /\ svc' = ims_service_set_pdu_active(svc, "none")
    /\ worker' = [worker EXCEPT !.stale = worker.pc # "wait"]
    /\ net' = <<>>
    /\ core' = [core EXCEPT !.binding = 0]
    /\ hist' = [hist EXCEPT !.flushed = @ \cup Range(svc.sms), !.stale = FALSE,
                            !.spoilt = 0]
    /\ last' = 0
    /\ UNCHANGED ring

\* A poll that finds no session, the first one or a later one.
SessionDown ==
    /\ svc' = ims_service_set_pdu_active(svc, "none")
    /\ worker' = [worker EXCEPT !.stale = worker.pc # "wait"]
    /\ net' = <<>>
    /\ core' = [core EXCEPT !.binding = 0]
    /\ hist' = [hist EXCEPT !.flushed = @ \cup Range(svc.sms), !.stale = FALSE,
                            !.spoilt = 0]
    /\ UNCHANGED <<last, ring>>

SessionUp ==
    /\ svc.session = "none" /\ core.sessions > 0
    /\ \E session \in Sessions \ {"none"} :
          svc' = ims_service_set_pdu_active(svc, session)
    /\ core' = [core EXCEPT !.sessions = @ - 1]
    /\ UNCHANGED <<last, worker, ring, net, hist>>

Poll == SessionDown \/ SessionUp

\* ims_service_submit_sms, for MBIM_CID_SMS_SEND; refused it changes nothing.
SubmitSms ==
    /\ svc.next_ref <= MaxMo
    /\ svc.registered
    /\ Len(svc.sms) < SmsQueueSize
    /\ svc' = [svc EXCEPT !.sms = Append(@, svc.next_ref), !.next_ref = @ + 1]
    /\ UNCHANGED <<last, worker, ring, net, core, hist>>

\* ims_service_receive_ip, on the RLS receive thread; a full queue drops.
ReceiveIp ==
    /\ net # <<>>
    /\ net' = Tail(net)
    /\ IF Len(svc.ip) < IpQueueSize
       THEN /\ svc' = [svc EXCEPT !.ip = Append(@, Head(net))]
            /\ UNCHANGED hist
       ELSE /\ hist' = IF Head(net).kind \in Answers THEN Spoil(hist) ELSE hist
            /\ UNCHANGED svc
    /\ UNCHANGED <<last, worker, ring, core>>

InFlight(n) ==
    Message(n) \in Range(net) \cup Range(svc.ip) \cup {worker.ip}

\* The SMSC sends one SMS at a time, and sends it again until it is acknowledged;
\* a copy sent while another is still on its way counts as a fault.
SmscSend ==
    /\ core.binding > 0 /\ core.acked < MaxMt
    /\ LET n == core.acked + 1 IN
       /\ InFlight(n) => core.faults > 0
       /\ net' = Append(net, Message(n))
       /\ core' = IF InFlight(n) THEN Fault(core) ELSE core
    /\ UNCHANGED <<svc, last, worker, ring, hist>>

Older(age, cap) == IF age \in 0..(cap - 1) THEN age + 1 ELSE age
Sooner(left) == IF left > 0 THEN left - 1 ELSE left

\* Time passes once the worker has nothing to do. A packet that is on its way for
\* so long counts as a fault.
Elapse ==
    /\ worker.pc = "wait" /\ ~HasWork(svc)
    /\ net # <<>> => core.faults > 0
    /\ svc' = [svc EXCEPT !.sent_age = Older(@, RetryTime), !.refresh = Sooner(@)]
    /\ core' = [core EXCEPT !.binding = Sooner(@),
                            !.faults = IF net = <<>> THEN @ ELSE @ - 1]
    /\ hist' = IF net = <<>> THEN hist ELSE Spoil(hist)
    /\ UNCHANGED <<last, worker, ring, net>>

\* The main thread's steps, but those that take SMS out of the ring, see SmsInbox.
MainStep == Poll \/ SubmitSms

\* What happens beside the main thread.
ServiceStep == WorkerStep \/ ReceiveIp \/ SmscSend \/ Elapse

\* The worker is a thread of its own and the condition variable wakes it, the
\* receive thread takes what arrives, and time passes.
ServiceFairness ==
    /\ WF_imsVars(WorkerStep)
    /\ WF_imsVars(ReceiveIp)
    /\ WF_imsVars(Elapse)

-----------------------------------------------------------------------------
(* Properties *)

\* The variables keep their types and the queues their bounds.
ImsTypeOK ==
    /\ svc \in SvcType
    /\ Len(svc.sms) <= SmsQueueSize /\ Len(svc.ip) <= IpQueueSize
    /\ worker \in WorkerType
    /\ last \in 0..MaxMt
    /\ ring \in Seq(1..MaxMt) /\ Len(ring) <= RingSize
    /\ net \in Seq(Packets)
    /\ core \in [binding: 0..Expires, acked: 0..MaxMt, sessions: 0..MaxSessions,
                 faults: 0..MaxFaults]

\* An MT SMS reaches the host's side of the bridge once, in order, however often
\* the SMSC repeats it, across the sessions too (ims_handle_sip_message); and no
\* SMS is acknowledged that did not get there, but for one that found the ring
\* full.
MtOnce ==
    LET taken == hist.inbox \o ring IN
    /\ \A i, j \in DOMAIN taken : i < j => taken[i] < taken[j]
    /\ 1..core.acked \subseteq Range(taken) \cup hist.dropped

\* An SMS the host was given a reference for is sent once, in order, and is given
\* up only with the session it was submitted in: the worker's snapshot of
\* `registered` is never too old to send an SMS it took with it. The exception is
\* a registration that outlived its session, see StaysRegistered.
MoOnce ==
    /\ \A i, j \in DOMAIN hist.sent : i < j => hist.sent[i] < hist.sent[j]
    /\ 1..(svc.next_ref - 1) \subseteq
          Range(svc.sms) \cup {worker.sms} \cup Range(hist.sent) \cup hist.flushed

\* A service that takes itself for registered is registered: the session is there
\* and the P-CSCF's binding has not run out, for the refresh comes in time
\* (register_refresh_needed_locked). Two exceptions, both of the code: a refresh
\* that is spoilt is not repeated, as register_refresh_ms is cleared before it is
\* sent; and a 200 that the worker took before the session ended and handled
\* after it (hist.stale) registers the service all the same.
StaysRegistered ==
    svc.registered /\ hist.spoilt = 0 /\ ~hist.stale =>
        svc.session = "full" /\ core.binding > 0

\* While the session stays, the service registers, unless each of its attempts is
\* spoilt by a loss of its own: the retry timer and the challenge never leave it
\* waiting for an answer that cannot come (register_retry_needed_locked).
Registers ==
    <>[](svc.session = "full") =>
        <>(svc.registered \/ hist.spoilt >= MaxAttempts)
=============================================================================
