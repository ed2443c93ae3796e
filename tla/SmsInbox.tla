------------------------------ MODULE SmsInbox ------------------------------
(***************************************************************************)
(* The SMS inbox of the host (src/core.c, src/mbim_frontend/               *)
(* mbim_handlers.c) together with the IMS service: the main thread takes   *)
(* the SMS out of the bridge's ring, puts them into the store of the MBIM  *)
(* handlers and tells the host; the host reads and deletes them.           *)
(*                                                                         *)
(* The queue of messages to the host is the subject of MbimControl; here   *)
(* it is the room it leaves, which may be anything at any tick and only    *)
(* gets less while the SMS are taken.                                      *)
(***************************************************************************)
EXTENDS ImsService, FiniteSetsExt

CONSTANTS
    StoreSize,   \* MBIM_SMS_STORE_MAX, 8 in the code
    MaxReads     \* bound: reads and deletions of the host

ASSUME InboxAssumption ==
    /\ StoreSize \in Nat \ {0}
    /\ MaxReads \in Nat

VARIABLES
    store,       \* g_sms_store
    next_index,  \* g_sms_next_index
    arrived,     \* sms_arrived, while drain_pending_indications takes SMS
    host         \* what the host knows

inboxVars == <<imsVars, store, next_index, arrived, host>>

StoreSlots == 1..StoreSize

\* sms: the SMS in the slot, 0 if the slot is not in use.
FreeEntry == [sms |-> 0, unread |-> FALSE, notified |-> FALSE, index |-> 0]

Used(st) == {i \in StoreSlots : st[i].sms # 0}

\* read: SMS it got from an SMS_READ; named: the index under which it got to know
\* an SMS; gone: SMS it deleted, and SMS that a full store let go.
InboxInit ==
    /\ ServiceInit
    /\ store = [i \in StoreSlots |-> FreeEntry]
    /\ next_index = 1
    /\ arrived = FALSE
    /\ host = [read |-> {}, named |-> [n \in 1..MaxMt |-> 0], gone |-> {},
               reads |-> MaxReads]

-----------------------------------------------------------------------------
(* The store *)

\* The slot mbim_handlers_sms_store_append takes: the first free one, or else
\* the first one.
AppendSlot(st) ==
    LET free == StoreSlots \ Used(st) IN IF free = {} THEN 1 ELSE Min(free)

\* Mutant: the slot serves as the index.
AppendIndexIsSlot(in, n) ==
    LET slot == AppendSlot(in.st) IN
    [st |-> [in.st EXCEPT ![slot] = [sms |-> n, unread |-> TRUE,
                                     notified |-> FALSE, index |-> slot]],
     ix |-> in.ix + 1,
     h |-> [in.h EXCEPT !.gone = @ \cup ({in.st[slot].sms} \ {0}),
                        !.named[n] = slot]]

\* st is the store, h the host, ix the next index.
mbim_handlers_sms_store_append(in, n) ==
    LET slot == AppendSlot(in.st) IN
    [st |-> [in.st EXCEPT ![slot] = [sms |-> n, unread |-> TRUE,
                                     notified |-> FALSE, index |-> in.ix]],
     ix |-> in.ix + 1,
     h |-> [in.h EXCEPT !.gone = @ \cup ({in.st[slot].sms} \ {0}),
                        !.named[n] = in.ix]]

\* sms_entry_included
Included(st, mode) ==
    {i \in Used(st) : CASE mode = "all" -> TRUE
                        [] mode = "new" -> st[i].unread
                        [] mode = "notify" -> ~st[i].notified}

\* Mutant: an SMS that is pushed counts as read.
PushMarksRead(st, mode) ==
    [i \in StoreSlots |->
        IF i \notin Included(st, mode) THEN st[i]
        ELSE [st[i] EXCEPT !.notified = @ \/ mode = "notify", !.unread = FALSE]]

\* sms_build_read_info: an SMS read by the host becomes old, one that is pushed
\* to it stays new; both also if the message turns out too long.
sms_build_read_info(st, mode) ==
    [i \in StoreSlots |->
        IF i \notin Included(st, mode) THEN st[i]
        ELSE IF mode = "notify" THEN [st[i] EXCEPT !.notified = TRUE]
        ELSE [st[i] EXCEPT !.unread = FALSE]]

SmsIn(st, slots) == {st[i].sms : i \in slots}

-----------------------------------------------------------------------------
(* Steps of the main thread *)

\* One round of the loop of drain_pending_indications: the queue to the host has
\* room for the indication an SMS brings, and the ring has an SMS. Its lock is
\* free between two rounds.
DrainSms ==
    /\ ring # <<>>
    /\ LET out == mbim_handlers_sms_store_append(
                      [st |-> store, ix |-> next_index, h |-> host], Head(ring))
       IN  store' = out.st /\ next_index' = out.ix /\ host' = out.h
    /\ arrived' = TRUE
    /\ ring' = Tail(ring)
    /\ hist' = [hist EXCEPT !.inbox = Append(@, Head(ring))]
    /\ UNCHANGED <<svc, last, worker, net, core>>

\* The loop ends with the ring empty, and an indication carries the SMS if there
\* is room for it; or it ends with the queue full.
DrainEnd ==
    /\ arrived
    /\ \/ ring = <<>> /\ store' = sms_build_read_info(store, "notify")
       \/ UNCHANGED store
    /\ arrived' = FALSE
    /\ UNCHANGED <<imsVars, next_index, host>>

\* MBIM_CID_SMS_READ, for all SMS or for the new ones, if it changes anything.
HostRead ==
    /\ ~arrived /\ host.reads > 0
    /\ \E mode \in {"all", "new"} :
          /\ store' = sms_build_read_info(store, mode)
          /\ host' = [host EXCEPT !.reads = @ - 1,
                         !.read = @ \cup SmsIn(store, Included(store, mode))]
    /\ store' # store
    /\ UNCHANGED <<imsVars, next_index, arrived>>

\* Mutant: an index deletes everything up to it.
DeleteUpTo(index) ==
    [i \in StoreSlots |-> IF store[i].sms # 0 /\ (index = 0 \/ store[i].index <= index)
                          THEN FreeEntry ELSE store[i]]

sms_store_delete(index) ==
    [i \in StoreSlots |-> IF store[i].sms # 0 /\ index \in {0, store[i].index}
                          THEN FreeEntry ELSE store[i]]

\* MBIM_CID_SMS_DELETE of an SMS the host knows of, or of all.
HostDelete ==
    /\ ~arrived /\ host.reads > 0
    /\ \E index \in {0} \cup Range(host.named) :
          LET meant == IF index = 0 THEN SmsIn(store, Used(store))
                       ELSE {n \in 1..MaxMt : host.named[n] = index}
          IN  /\ store' = sms_store_delete(index)
              /\ host' = [host EXCEPT !.gone = @ \cup meant, !.reads = @ - 1]
    /\ store' # store
    /\ UNCHANGED <<imsVars, next_index, arrived>>

InboxNext ==
    \/ /\ ServiceStep \/ (~arrived /\ MainStep)
       /\ UNCHANGED <<store, next_index, arrived, host>>
    \/ DrainSms \/ DrainEnd \/ HostRead \/ HostDelete

InboxSpec == InboxInit /\ [][InboxNext]_inboxVars

InboxFairSpec == InboxSpec /\ ServiceFairness

-----------------------------------------------------------------------------
(* Properties *)

\* An SMS is new exactly until the host reads it: it is not "stuck New", nor does
\* it "flip to Old before the host reads it" (mbim_handlers.c:192), so a host
\* that polls for the new ones gets each message "only once" (:586), also if the
\* network repeats it, the session changes or it was pushed to the host before.
NewUntilRead ==
    \A i \in Used(store) : store[i].unread <=> store[i].sms \notin host.read

\* The SMS the host names is the SMS it means: the index it got to know an SMS by
\* never stands for another one, though slots are freed, reused and overwritten,
\* so a deletion only ever takes the SMS it was meant for.
IndexStands ==
    \A i \in Used(store) : \A n \in 1..MaxMt :
        host.named[n] = store[i].index => n = store[i].sms

\* An SMS the network has its acknowledgement for can be read until the host has
\* deleted it, from the store or as soon as the ring is drained. The exceptions
\* are those of the code: a full ring drops it, a full store overwrites one.
KeptForHost ==
    1..core.acked \subseteq
        hist.dropped \cup Range(ring) \cup SmsIn(store, StoreSlots)
            \cup host.gone
=============================================================================
