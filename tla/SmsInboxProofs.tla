--------------------------- MODULE SmsInboxProofs ---------------------------
(***************************************************************************)
(* Proofs about the inbox of the host, and the theorems about the IMS      *)
(* service together with it: for every number of SMS, sessions and faults  *)
(* and every size of the queues and the store.                             *)
(***************************************************************************)
EXTENDS SmsInbox, ImsServiceProofs, WellFoundedInduction

StoreTyped ==
    /\ store \in [StoreSlots -> [sms: 0..MaxMt, unread: BOOLEAN,
                                 notified: BOOLEAN, index: Nat]]
    /\ next_index \in Nat \ {0}
    /\ arrived \in BOOLEAN
    /\ host \in [read: SUBSET (1..MaxMt), named: [1..MaxMt -> Nat],
                 gone: SUBSET (1..MaxMt), reads: 0..MaxReads]

\* The store holds SMS that came out of the ring, each under the index the host
\* knows it by, and none of them is lost to the host unaccounted for.
StoreInv ==
    /\ StoreTyped
    /\ NewUntilRead
    /\ host.read \subseteq Range(hist.inbox)
    /\ \A i \in Used(store) : /\ store[i].sms \in Range(hist.inbox)
                              /\ store[i].index # 0
                              /\ store[i].index = host.named[store[i].sms]
    /\ \A n \in 1..MaxMt : host.named[n] < next_index
    /\ \A m, n \in 1..MaxMt :
          host.named[m] = host.named[n] /\ host.named[m] # 0 => m = n
    /\ Range(hist.inbox) \subseteq SmsIn(store, StoreSlots) \cup host.gone

InboxInv == ServiceInv /\ StoreInv

-----------------------------------------------------------------------------
(* The ring *)

\* The first SMS of the ring goes to the inbox, which it is new to.
LEMMA PopKeeps ==
  ASSUME ServiceInv, DrainSms
  PROVE  /\ ServiceInv'
         /\ Head(ring) \in 1..MaxMt /\ Head(ring) \notin Range(hist.inbox)
         /\ Range(hist'.inbox) = Range(hist.inbox) \cup {Head(ring)}
  <1>0. /\ Typed /\ MtInv /\ MoInv /\ SessionInv /\ BindingInv
        /\ hist \in HistType /\ ring \in Seq(1..MaxMt) /\ Len(ring) <= RingSize
        /\ hist.inbox \in Seq(1..MaxMt)
    BY Types DEF ServiceInv, HistType
  <1>1. PICK n : n = Head(ring)
    OBVIOUS
  <1>2. /\ ring # <<>> /\ ring' = Tail(ring)
        /\ hist' = [hist EXCEPT !.inbox = Append(hist.inbox, n)]
        /\ UNCHANGED <<svc, last, worker, net, core>>
    BY <1>1 DEF DrainSms
  <1>3. /\ n \in 1..MaxMt /\ ring' \in Seq(1..MaxMt) /\ Len(ring') = Len(ring) - 1
        /\ Range(ring) = {n} \cup Range(ring')
    BY <1>0, <1>1, <1>2, TailRange, ZenonT(30)
  <1>4. /\ Append(hist.inbox, n) \in Seq(1..MaxMt)
        /\ Range(Append(hist.inbox, n)) = Range(hist.inbox) \cup {n}
    <2>1. PICK S : S = 1..MaxMt
      OBVIOUS
    <2>2. hist.inbox \in Seq(S) /\ n \in S
      BY <2>1, <1>0, <1>3
    <2>3. /\ Append(hist.inbox, n) \in Seq(S)
          /\ Len(Append(hist.inbox, n)) = Len(hist.inbox) + 1
          /\ Range(Append(hist.inbox, n)) = Range(hist.inbox) \cup {n}
      BY <2>2, AppendRange
    <2> QED
      BY <2>1, <2>3
  <1>5. /\ hist' \in HistType /\ hist'.inbox = Append(hist.inbox, n)
        /\ hist'.sent = hist.sent /\ hist'.flushed = hist.flushed
        /\ hist'.dropped = hist.dropped /\ hist'.stale = hist.stale
        /\ hist'.spoilt = hist.spoilt
    BY <1>0, <1>2, <1>4, ZenonT(30) DEF HistType
  <1>6. 1..MaxMt \in SUBSET Nat
    OBVIOUS
  <1>7. Increasing(ring') /\ AllBelow({n}, Range(ring'))
    BY <1>0, <1>1, <1>2, <1>6, IncreasingTail, ZenonT(30) DEF MtInv
  <1>8. AllBelow(Range(hist.inbox), {n})
    BY <1>0, <1>3 DEF MtInv, AllBelow
  <1>9. n \notin Range(hist.inbox)
    <2>1. n \in Nat /\ ~(n < n)
      BY <1>3, SMTT(30)
    <2> QED
      BY <2>1, <1>8 DEF AllBelow
  <1>10. Typed'
    <2>1. Len(ring') <= RingSize
      <3>1. Len(ring) \in Nat /\ RingSize \in Nat
        BY <1>0, Constants, SMTT(30)
      <3> QED
        BY <3>1, <1>0, <1>3
    <2> QED
      BY <2>1, <1>0, <1>2, <1>3, <1>5, ZenonT(30) DEF Typed, ImsTypeOK
  <1>11. MtInv'
    <2>1. Increasing(hist'.inbox)
      BY <1>0, <1>3, <1>5, <1>6, <1>8, IncreasingAppend, ZenonT(30) DEF MtInv
    <2>2. AllBelow(Range(hist'.inbox), Range(ring'))
      BY <1>0, <1>3, <1>4, <1>5, <1>7, ZenonT(30) DEF MtInv, AllBelow
    <2>3. Range(hist'.inbox) \cup Range(ring') = Range(hist.inbox) \cup Range(ring)
      BY <1>3, <1>4, <1>5
    <2>4. OnTheWay' = OnTheWay
      BY <1>2 DEF OnTheWay
    <2> QED
      BY <2>1, <2>2, <2>3, <2>4, <1>0, <1>2, <1>5, <1>7, ZenonT(30) DEF MtInv
  <1>12. MoInv'
    BY <1>0, <1>2, <1>5, MoFrame, ZenonT(30)
  <1>13. SessionInv'
    BY <1>0, <1>2, <1>5 DEF SessionInv
  <1>14. BindingInv'
    <2>1. OnTheWay' = OnTheWay
      BY <1>2 DEF OnTheWay
    <2>2. RefreshPending' <=> RefreshPending
      BY <2>1, <1>2 DEF RefreshPending
    <2> QED
      BY <2>1, <2>2, <1>0, <1>2, <1>5 DEF BindingInv
  <1> QED
    BY <1>1, <1>3, <1>4, <1>5, <1>9, <1>10, <1>11, <1>12, <1>13, <1>14, ZenonT(30) DEF ServiceInv

-----------------------------------------------------------------------------
(* The store *)

\* Min, as mbim_handlers_sms_store_append looks for a free slot.
LEMMA LeastSlot ==
  ASSUME NEW S, S \subseteq Nat, S # {}
  PROVE  Min(S) \in S
  <1>1. PICK x \in S : \A y \in S : ~(<<y, x>> \in OpToRel(<, Nat))
    BY NatLessThanWellFounded, WFMin, ZenonT(30)
  <1>2. \A y \in S : x <= y
    <2> TAKE y \in S
    <2>1. x \in Nat /\ y \in Nat
      OBVIOUS
    <2>2. ~(y < x)
      BY <1>1, <2>1, ZenonT(30) DEF OpToRel
    <2> QED
      BY <2>1, <2>2
  <1> QED
    BY <1>2, ZenonT(30) DEF Min

\* An SMS always finds a slot.
LEMMA SlotFound == AppendSlot(store) \in StoreSlots
  <1>1. PICK free : free = StoreSlots \ Used(store)
    BY ZenonT(30)
  <1>2. AppendSlot(store) = IF free = {} THEN 1 ELSE Min(free)
    BY <1>1 DEF AppendSlot
  <1>3. StoreSlots \subseteq Nat /\ 1 \in StoreSlots
    BY InboxAssumption DEF StoreSlots
  <1>4. free # {} => Min(free) \in free
    BY <1>1, <1>3, LeastSlot, ZenonT(30)
  <1> QED
    BY <1>1, <1>2, <1>3, <1>4

\* The store and what the host knows of it only depend on these.
LEMMA StoreFrame ==
  ASSUME StoreInv, UNCHANGED <<store, next_index, arrived, host>>,
         hist'.inbox = hist.inbox
  PROVE  StoreInv'
  <1>1. StoreTyped' /\ NewUntilRead'
    BY DEF StoreInv, StoreTyped, NewUntilRead, Used
  <1> QED
    BY <1>1 DEF StoreInv, Used, SmsIn

\* The entries of the store, slot by slot.
LEMMA EntryFields ==
  ASSUME StoreTyped, NEW i \in StoreSlots
  PROVE  /\ store[i] \in [sms: 0..MaxMt, unread: BOOLEAN, notified: BOOLEAN, index: Nat]
         /\ store[i].sms \in 0..MaxMt /\ store[i].unread \in BOOLEAN
         /\ store[i].notified \in BOOLEAN /\ store[i].index \in Nat
         /\ i \in Used(store) => store[i].sms \in 1..MaxMt
  BY Constants DEF StoreTyped, Used

\* An SMS that is stored is new, has an index of its own, and what it overwrites is
\* accounted for.
LEMMA DrainKeeps ==
  ASSUME ServiceInv, StoreInv, DrainSms
  PROVE  StoreInv'
  <1>1. PICK n : n = Head(ring)
    OBVIOUS
  <1>2. /\ n \in 1..MaxMt /\ n \notin Range(hist.inbox) /\ n # 0
        /\ Range(hist'.inbox) = Range(hist.inbox) \cup {n}
        /\ Range(hist.inbox) \subseteq 1..MaxMt
    <2>1. /\ n \in 1..MaxMt /\ n \notin Range(hist.inbox)
          /\ Range(hist'.inbox) = Range(hist.inbox) \cup {n}
      BY <1>1, PopKeeps
    <2>2. hist.inbox \in Seq(1..MaxMt)
      BY Types DEF ServiceInv, HistType
    <2>3. Range(hist.inbox) \subseteq 1..MaxMt
      BY <2>2, RangeTyped, ZenonT(30)
    <2> QED
      BY <2>1, <2>3
  <1>3. PICK slot : slot = AppendSlot(store)
    OBVIOUS
  <1>4. slot \in StoreSlots
    BY <1>3, SlotFound
  <1>5. PICK new : new = [sms |-> n, unread |-> TRUE, notified |-> FALSE,
                          index |-> next_index]
    BY ZenonT(30)
  <1>6. PICK lost : lost = host.gone \cup ({store[slot].sms} \ {0})
    BY ZenonT(30)
  <1>7. /\ store' = [store EXCEPT ![slot] = new] /\ next_index' = next_index + 1
        /\ host' = [host EXCEPT !.gone = lost, !.named[n] = next_index]
        /\ arrived' = TRUE
    BY <1>1, <1>3, <1>5, <1>6 DEF DrainSms, mbim_handlers_sms_store_append
  <1>8. /\ StoreTyped /\ next_index \in Nat \ {0}
        /\ store \in [StoreSlots -> [sms: 0..MaxMt, unread: BOOLEAN,
                                     notified: BOOLEAN, index: Nat]]
        /\ host \in [read: SUBSET (1..MaxMt), named: [1..MaxMt -> Nat],
                     gone: SUBSET (1..MaxMt), reads: 0..MaxReads]
        /\ host.named \in [1..MaxMt -> Nat] /\ host.gone \in SUBSET (1..MaxMt)
    BY ZenonT(30) DEF StoreInv, StoreTyped
  <1>9. /\ new.sms = n /\ new.unread /\ new.index = next_index
        /\ new \in [sms: 0..MaxMt, unread: BOOLEAN, notified: BOOLEAN, index: Nat]
    <2>1. n \in 0..MaxMt
      BY <1>2
    <2> QED
      BY <2>1, <1>5, <1>8
  <1>10. /\ store' \in [StoreSlots -> [sms: 0..MaxMt, unread: BOOLEAN,
                                       notified: BOOLEAN, index: Nat]]
         /\ store'[slot] = new
         /\ \A i \in StoreSlots : i # slot => store'[i] = store[i]
    BY <1>4, <1>7, <1>8, <1>9, ZenonT(30)
  <1>11. lost \in SUBSET (1..MaxMt) /\ store[slot].sms \in {0} \cup lost
    <2>1. store[slot].sms \in 0..MaxMt
      BY <1>4, <1>8, EntryFields, ZenonT(30)
    <2>2. store[slot].sms = 0 \/ store[slot].sms \in 1..MaxMt
      BY <2>1, Constants
    <2> QED
      BY <2>2, <1>6, <1>8, ZenonT(30)
  <1>12. PICK named : named = [host.named EXCEPT ![n] = next_index]
    BY ZenonT(30)
  <1>13. /\ named \in [1..MaxMt -> Nat] /\ named[n] = next_index
         /\ \A m \in 1..MaxMt : m # n => named[m] = host.named[m]
    BY <1>2, <1>8, <1>12, ZenonT(30)
  <1>14. /\ host' = [host EXCEPT !.gone = lost, !.named = named]
         /\ host'.read = host.read /\ host'.gone = lost /\ host'.named = named
         /\ host' \in [read: SUBSET (1..MaxMt), named: [1..MaxMt -> Nat],
                       gone: SUBSET (1..MaxMt), reads: 0..MaxReads]
    <2>1. host' = [host EXCEPT !.gone = lost, !.named = named]
      BY <1>7, <1>8, <1>12
    <2> QED
      BY <2>1, <1>8, <1>11, <1>13, ZenonT(30)
  <1>15. StoreTyped'
    <2>1. next_index' \in Nat \ {0}
      BY <1>7, <1>8
    <2> QED
      BY <2>1, <1>7, <1>10, <1>14 DEF StoreTyped
  <1>16. Used(store') \subseteq Used(store) \cup {slot}
    BY <1>10, ZenonT(30) DEF Used
  <1>17. \A i \in Used(store) : store[i].sms \in Range(hist.inbox) /\ store[i].sms # n
    BY <1>2 DEF StoreInv
  <1>18. NewUntilRead'
    <2> SUFFICES ASSUME NEW i \in Used(store')
                 PROVE  store'[i].unread <=> store'[i].sms \notin host.read
      BY <1>14 DEF NewUntilRead
    <2>1. CASE i = slot
      <3>1. n \notin host.read
        BY <1>2, ZenonT(30) DEF StoreInv
      <3> QED
        BY <3>1, <2>1, <1>9, <1>10, ZenonT(30)
    <2>2. CASE i # slot
      <3>1. i \in Used(store) /\ i \in StoreSlots
        BY <2>2, <1>16 DEF Used
      <3> QED
        BY <3>1, <2>2, <1>10, ZenonT(30) DEF StoreInv, NewUntilRead
    <2> QED
      BY <2>1, <2>2
  <1>19. host'.read \subseteq Range(hist'.inbox)
    BY <1>2, <1>14 DEF StoreInv
  <1>20. ASSUME NEW i \in Used(store')
         PROVE  /\ store'[i].sms \in Range(hist'.inbox) /\ store'[i].index # 0
                /\ store'[i].index = named[store'[i].sms]
    <2>1. CASE i = slot
      BY <2>1, <1>2, <1>8, <1>9, <1>10, <1>13, ZenonT(30)
    <2>2. CASE i # slot
      <3>1. i \in Used(store) /\ i \in StoreSlots /\ store'[i] = store[i]
        BY <2>2, <1>10, <1>16 DEF Used
      <3>2. store[i].sms \in 1..MaxMt
        BY <3>1, <1>2, <1>17
      <3> QED
        BY <3>1, <3>2, <1>2, <1>13, <1>17, SMTT(30) DEF StoreInv
    <2> QED
      BY <2>1, <2>2, ZenonT(30)
  <1>21. \A m \in 1..MaxMt : named[m] < next_index + 1
    <2> SUFFICES ASSUME NEW m \in 1..MaxMt PROVE named[m] < next_index + 1
      OBVIOUS
    <2>1. named[m] = next_index \/ named[m] < next_index
      BY <1>13 DEF StoreInv
    <2>2. named[m] \in Nat
      BY <1>13
    <2> QED
      BY <2>1, <2>2, <1>8
  <1>22. \A m \in 1..MaxMt : m # n => named[m] # next_index
    <2> SUFFICES ASSUME NEW m \in 1..MaxMt, m # n PROVE named[m] # next_index
      OBVIOUS
    <2>1. named[m] < next_index /\ named[m] \in Nat
      BY <1>13 DEF StoreInv
    <2> QED
      BY <2>1, <1>8
  <1>23. \A l, m \in 1..MaxMt : named[l] = named[m] /\ named[l] # 0 => l = m
    BY <1>13, <1>22 DEF StoreInv
  <1>24. ASSUME NEW x \in Range(hist'.inbox)
         PROVE  x \in SmsIn(store', StoreSlots) \cup lost
    <2>1. CASE x = n
      BY <2>1, <1>4, <1>9, <1>10, ZenonT(30) DEF SmsIn
    <2>2. CASE x # n
      <3>1. x \in SmsIn(store, StoreSlots) \cup host.gone /\ x \in 1..MaxMt
        BY <2>2, <1>2 DEF StoreInv
      <3>2. CASE x \in host.gone
        BY <3>2, <1>6
      <3>3. CASE x \in SmsIn(store, StoreSlots)
        <4>1. PICK i \in StoreSlots : store[i].sms = x
          BY <3>3 DEF SmsIn
        <4>2. CASE i = slot
          <5>1. x # 0
            BY <3>1
          <5> QED
            BY <5>1, <4>1, <4>2, <1>6, ZenonT(30)
        <4>3. CASE i # slot
          BY <4>1, <4>3, <1>10 DEF SmsIn
        <4> QED
          BY <4>2, <4>3
      <3> QED
        BY <3>1, <3>2, <3>3, ZenonT(30)
    <2> QED
      BY <2>1, <2>2
  <1>25. \A i \in Used(store') : /\ store'[i].sms \in Range(hist'.inbox)
                                 /\ store'[i].index # 0
                                 /\ store'[i].index = host'.named[store'[i].sms]
    BY <1>14, <1>20
  <1>26. /\ \A m \in 1..MaxMt : host'.named[m] < next_index'
         /\ \A l, m \in 1..MaxMt :
               host'.named[l] = host'.named[m] /\ host'.named[l] # 0 => l = m
    BY <1>7, <1>14, <1>21, <1>23, ZenonT(30)
  <1>27. Range(hist'.inbox) \subseteq SmsIn(store', StoreSlots) \cup host'.gone
    BY <1>14, <1>24
  <1> QED
    BY <1>15, <1>18, <1>19, <1>25, <1>26, <1>27, ZenonT(30) DEF StoreInv

\* Showing SMS to the host moves none of them; a push keeps them new, a read makes
\* those it shows old.
LEMMA ReadInfo ==
  ASSUME StoreTyped, NEW mode \in {"all", "new", "notify"},
         NEW st, st = sms_build_read_info(store, mode)
  PROVE  /\ st \in [StoreSlots -> [sms: 0..MaxMt, unread: BOOLEAN,
                                   notified: BOOLEAN, index: Nat]]
         /\ \A i \in StoreSlots :
               /\ st[i].sms = store[i].sms /\ st[i].index = store[i].index
               /\ st[i].unread <=>
                     (store[i].unread /\ (mode = "notify" \/ i \notin Included(store, mode)))
         /\ Used(st) = Used(store) /\ SmsIn(st, StoreSlots) = SmsIn(store, StoreSlots)
  <1>1. st = [i \in StoreSlots |->
                IF i \notin Included(store, mode) THEN store[i]
                ELSE IF mode = "notify" THEN [store[i] EXCEPT !.notified = TRUE]
                ELSE [store[i] EXCEPT !.unread = FALSE]]
    BY DEF sms_build_read_info
  <1>2. ASSUME NEW i \in StoreSlots
        PROVE  /\ st[i] \in [sms: 0..MaxMt, unread: BOOLEAN, notified: BOOLEAN, index: Nat]
               /\ st[i].sms = store[i].sms /\ st[i].index = store[i].index
               /\ st[i].unread <=>
                     (store[i].unread /\ (mode = "notify" \/ i \notin Included(store, mode)))
    <2>1. store[i] \in [sms: 0..MaxMt, unread: BOOLEAN, notified: BOOLEAN, index: Nat]
      BY EntryFields
    <2>2. CASE i \notin Included(store, mode)
      <3>1. st[i] = store[i]
        BY <1>1, <2>2
      <3> QED
        BY <3>1, <2>1, <2>2
    <2>3. CASE i \in Included(store, mode) /\ mode = "notify"
      <3>1. st[i] = [store[i] EXCEPT !.notified = TRUE]
        BY <1>1, <2>3
      <3> QED
        BY <3>1, <2>1, <2>3, ZenonT(30)
    <2>4. CASE i \in Included(store, mode) /\ mode # "notify"
      <3>1. st[i] = [store[i] EXCEPT !.unread = FALSE]
        BY <1>1, <2>4
      <3> QED
        BY <3>1, <2>1, <2>4, ZenonT(30)
    <2> QED
      BY <2>2, <2>3, <2>4, ZenonT(30)
  <1>3. Used(st) = Used(store)
    BY <1>2, ZenonT(30) DEF Used
  <1>4. SmsIn(st, StoreSlots) = SmsIn(store, StoreSlots)
    BY <1>2, ZenonT(120) DEF SmsIn
  <1> QED
    BY <1>1, <1>2, <1>3, <1>4

\* The push at the end of a drain leaves the SMS new.
LEMMA DrainEndKeeps ==
  ASSUME StoreInv, DrainEnd
  PROVE  StoreInv'
  <1>0. StoreTyped /\ hist' = hist /\ host' = host /\ next_index' = next_index
        /\ arrived' = FALSE
    BY ZenonT(30) DEF StoreInv, DrainEnd, imsVars
  <1>1. /\ store' \in [StoreSlots -> [sms: 0..MaxMt, unread: BOOLEAN,
                                      notified: BOOLEAN, index: Nat]]
        /\ \A i \in StoreSlots : /\ store'[i].sms = store[i].sms
                                 /\ store'[i].index = store[i].index
                                 /\ store'[i].unread <=> store[i].unread
        /\ Used(store') = Used(store)
        /\ SmsIn(store', StoreSlots) = SmsIn(store, StoreSlots)
    <2>1. CASE store' = store
      BY <2>1, <1>0, ZenonT(30) DEF StoreTyped, Used, SmsIn
    <2>2. CASE store' = sms_build_read_info(store, "notify")
      <3>1. PICK st : st = sms_build_read_info(store, "notify")
        OBVIOUS
      <3>2. store' = st
        BY <3>1, <2>2
      <3> QED
        BY <3>1, <3>2, <1>0, ReadInfo, ZenonT(120)
    <2> QED
      BY <2>1, <2>2, ZenonT(30) DEF DrainEnd
  <1>2. StoreTyped'
    BY <1>0, <1>1, ZenonT(30) DEF StoreTyped
  <1>3. Used(store) \subseteq StoreSlots
    BY DEF Used
  <1>4. NewUntilRead'
    <2> SUFFICES ASSUME NEW i \in Used(store)
                 PROVE  store'[i].unread <=> store'[i].sms \notin host.read
      BY <1>0, <1>1 DEF NewUntilRead
    <2> QED
      BY <1>1, <1>3 DEF StoreInv, NewUntilRead
  <1>5. ASSUME NEW i \in Used(store')
        PROVE  /\ store'[i].sms \in Range(hist.inbox) /\ store'[i].index # 0
               /\ store'[i].index = host.named[store'[i].sms]
    BY <1>1, <1>3 DEF StoreInv
  <1> QED
    BY <1>0, <1>1, <1>2, <1>4, <1>5, ZenonT(30) DEF StoreInv

\* A read makes old exactly the SMS the host gets.
LEMMA HostReadKeeps ==
  ASSUME ServiceInv, StoreInv, HostRead
  PROVE  StoreInv'
  <1>0. /\ StoreTyped /\ hist' = hist /\ next_index' = next_index /\ arrived' = arrived
        /\ host.reads > 0
        /\ host \in [read: SUBSET (1..MaxMt), named: [1..MaxMt -> Nat],
                     gone: SUBSET (1..MaxMt), reads: 0..MaxReads]
    BY DEF StoreInv, StoreTyped, HostRead, imsVars
  <1>1. PICK mode \in {"all", "new"} :
           /\ store' = sms_build_read_info(store, mode)
           /\ host' = [host EXCEPT !.reads = host.reads - 1,
                          !.read = host.read \cup SmsIn(store, Included(store, mode))]
    BY ZenonT(30) DEF HostRead
  <1>2. PICK st : st = sms_build_read_info(store, mode)
    OBVIOUS
  <1>3. store' = st
    BY <1>1, <1>2
  <1>4. /\ st \in [StoreSlots -> [sms: 0..MaxMt, unread: BOOLEAN,
                                  notified: BOOLEAN, index: Nat]]
        /\ \A i \in StoreSlots :
              /\ st[i].sms = store[i].sms /\ st[i].index = store[i].index
              /\ st[i].unread <=> (store[i].unread /\ i \notin Included(store, mode))
        /\ Used(st) = Used(store) /\ SmsIn(st, StoreSlots) = SmsIn(store, StoreSlots)
    <2>1. mode \in {"all", "new", "notify"} /\ mode # "notify"
      BY <1>1
    <2> QED
      BY <2>1, <1>0, <1>2, ReadInfo
  <1>5. PICK shown : shown = SmsIn(store, Included(store, mode))
    OBVIOUS
  <1>6. Included(store, mode) \subseteq Used(store) /\ Used(store) \subseteq StoreSlots
    BY ZenonT(30) DEF Included, Used
  <1>7. shown \subseteq Range(hist.inbox) /\ shown \subseteq 1..MaxMt
    <2>1. ASSUME NEW i \in Used(store)
          PROVE  store[i].sms \in Range(hist.inbox) /\ store[i].sms \in 1..MaxMt
      BY <1>0, <1>6, EntryFields DEF StoreInv
    <2> QED
      BY <2>1, <1>5, <1>6, ZenonT(30) DEF SmsIn
  <1>8. /\ host'.read = host.read \cup shown /\ host'.named = host.named
        /\ host'.gone = host.gone
        /\ host' \in [read: SUBSET (1..MaxMt), named: [1..MaxMt -> Nat],
                      gone: SUBSET (1..MaxMt), reads: 0..MaxReads]
    <2>1. host.reads \in 0..MaxReads /\ host.read \in SUBSET (1..MaxMt)
      BY <1>0
    <2>2. host.reads - 1 \in 0..MaxReads
      BY <2>1, <1>0, InboxAssumption
    <2>3. host.read \cup shown \in SUBSET (1..MaxMt)
      BY <2>1, <1>7, ZenonT(30)
    <2> QED
      BY <2>2, <2>3, <1>0, <1>1, <1>5, ZenonT(30)
  <1>9. StoreTyped'
    BY <1>0, <1>3, <1>4, <1>8, ZenonT(30) DEF StoreTyped
  <1>10. NewUntilRead'
    <2> SUFFICES ASSUME NEW i \in Used(store)
                 PROVE  st[i].unread <=> st[i].sms \notin host.read \cup shown
      BY <1>3, <1>4, <1>8, ZenonT(30) DEF NewUntilRead
    <2>1. /\ i \in StoreSlots /\ st[i].sms = store[i].sms
          /\ st[i].unread <=> (store[i].unread /\ i \notin Included(store, mode))
          /\ store[i].unread <=> store[i].sms \notin host.read
      BY <1>4, <1>6, ZenonT(30) DEF StoreInv, NewUntilRead
    <2>2. CASE i \in Included(store, mode)
      <3>1. store[i].sms \in shown
        BY <2>2, <1>5, ZenonT(30) DEF SmsIn
      <3> QED
        BY <3>1, <2>1, <2>2, ZenonT(30)
    <2>3. CASE i \notin Included(store, mode)
      <3>1. store[i].sms \in shown => ~store[i].unread
        <4> SUFFICES ASSUME store[i].sms \in shown PROVE ~store[i].unread
          OBVIOUS
        <4>1. PICK j \in Included(store, mode) : store[j].sms = store[i].sms
          BY <1>5 DEF SmsIn
        <4>2. CASE mode = "all"
          BY <2>3, <4>2 DEF Included
        <4>3. CASE mode = "new"
          BY <2>3, <4>3, ZenonT(30) DEF Included
        <4> QED
          BY <4>2, <4>3, ZenonT(30)
      <3> QED
        BY <3>1, <2>1, <2>3, ZenonT(30)
    <2> QED
      BY <2>2, <2>3
  <1>11. ASSUME NEW i \in Used(store')
         PROVE  /\ store'[i].sms \in Range(hist.inbox) /\ store'[i].index # 0
                /\ store'[i].index = host.named[store'[i].sms]
    BY <1>3, <1>4, <1>6, ZenonT(30) DEF StoreInv
  <1>12. host'.read \subseteq Range(hist'.inbox)
    BY <1>0, <1>7, <1>8, ZenonT(30) DEF StoreInv
  <1>13. /\ \A n \in 1..MaxMt : host'.named[n] < next_index'
         /\ \A m, n \in 1..MaxMt :
               host'.named[m] = host'.named[n] /\ host'.named[m] # 0 => m = n
    BY <1>0, <1>8, ZenonT(30) DEF StoreInv
  <1>14. Range(hist'.inbox) \subseteq SmsIn(store', StoreSlots) \cup host'.gone
    <2>1. Range(hist.inbox) \subseteq SmsIn(store, StoreSlots) \cup host.gone
      BY ZenonT(30) DEF StoreInv
    <2> QED
      BY <2>1, <1>0, <1>3, <1>4, <1>8, ZenonT(30)
  <1> QED
    BY <1>0, <1>8, <1>9, <1>10, <1>11, <1>12, <1>13, <1>14, ZenonT(30) DEF StoreInv

\* A deletion takes the SMS the host means, and no other.
LEMMA HostDeleteKeeps ==
  ASSUME ServiceInv, StoreInv, HostDelete
  PROVE  StoreInv'
  <1>0. /\ StoreTyped /\ hist' = hist /\ next_index' = next_index /\ arrived' = arrived
        /\ host.reads > 0
        /\ host \in [read: SUBSET (1..MaxMt), named: [1..MaxMt -> Nat],
                     gone: SUBSET (1..MaxMt), reads: 0..MaxReads]
    BY ZenonT(30) DEF StoreInv, StoreTyped, HostDelete, imsVars
  <1>a. PICK index \in {0} \cup Range(host.named) :
           /\ store' = sms_store_delete(index)
           /\ host' = [host EXCEPT
                 !.gone = host.gone \cup
                             (IF index = 0 THEN SmsIn(store, Used(store))
                              ELSE {n \in 1..MaxMt : host.named[n] = index}),
                 !.reads = host.reads - 1]
    BY ZenonT(30) DEF HostDelete
  <1>b. PICK meant : meant = IF index = 0 THEN SmsIn(store, Used(store))
                             ELSE {n \in 1..MaxMt : host.named[n] = index}
    BY ZenonT(30)
  <1>1. /\ meant = IF index = 0 THEN SmsIn(store, Used(store))
                   ELSE {n \in 1..MaxMt : host.named[n] = index}
        /\ store' = sms_store_delete(index)
        /\ host' = [host EXCEPT !.gone = host.gone \cup meant,
                                !.reads = host.reads - 1]
    BY <1>a, <1>b
  <1>2. PICK st : st = sms_store_delete(index)
    OBVIOUS
  <1>3. /\ store' = st
        /\ st = [i \in StoreSlots |->
                   IF store[i].sms # 0 /\ index \in {0, store[i].index}
                   THEN FreeEntry ELSE store[i]]
    BY <1>1, <1>2 DEF sms_store_delete
  <1>4. /\ FreeEntry.sms = 0
        /\ FreeEntry \in [sms: 0..MaxMt, unread: BOOLEAN, notified: BOOLEAN, index: Nat]
    BY Constants DEF FreeEntry
  <1>5. st \in [StoreSlots -> [sms: 0..MaxMt, unread: BOOLEAN, notified: BOOLEAN,
                               index: Nat]]
    BY <1>0, <1>3, <1>4, EntryFields
  <1>6. \A i \in StoreSlots : st[i] = store[i] \/ st[i].sms = 0
    BY <1>3, <1>4
  <1>7. Used(st) \subseteq Used(store) /\ \A i \in Used(st) : st[i] = store[i]
    BY <1>6 DEF Used
  <1>8. ASSUME NEW i \in Used(store)
        PROVE  store[i].sms \in Range(hist.inbox) /\ store[i].sms \in 1..MaxMt
    BY <1>0, EntryFields DEF StoreInv, Used
  <1>9. meant \in SUBSET (1..MaxMt)
    BY <1>1, <1>8, ZenonT(30) DEF SmsIn
  <1>10. /\ host'.read = host.read /\ host'.named = host.named
         /\ host'.gone = host.gone \cup meant
         /\ host' \in [read: SUBSET (1..MaxMt), named: [1..MaxMt -> Nat],
                       gone: SUBSET (1..MaxMt), reads: 0..MaxReads]
    <2>1. host.reads \in 0..MaxReads /\ host.gone \in SUBSET (1..MaxMt)
      BY <1>0
    <2>2. host.reads - 1 \in 0..MaxReads
      BY <2>1, <1>0, InboxAssumption
    <2>3. host.gone \cup meant \in SUBSET (1..MaxMt)
      BY <2>1, <1>9, ZenonT(30)
    <2> QED
      BY <2>2, <2>3, <1>0, <1>1, ZenonT(30)
  <1>11. StoreTyped'
    BY <1>0, <1>3, <1>5, <1>10 DEF StoreTyped
  <1>12. NewUntilRead'
    BY <1>3, <1>7, <1>10, ZenonT(30) DEF StoreInv, NewUntilRead
  <1>13. ASSUME NEW i \in Used(store')
         PROVE  /\ store'[i].sms \in Range(hist.inbox) /\ store'[i].index # 0
                /\ store'[i].index = host.named[store'[i].sms]
    BY <1>3, <1>7, ZenonT(30) DEF StoreInv
  <1>14. ASSUME NEW x \in Range(hist.inbox)
         PROVE  x \in SmsIn(st, StoreSlots) \cup host.gone \cup meant
    <2>1. CASE x \in host.gone
      BY <2>1, ZenonT(30)
    <2>2. CASE x \in SmsIn(store, StoreSlots)
      <3>1. PICK i \in StoreSlots : store[i].sms = x
        BY <2>2 DEF SmsIn
      <3>2. CASE st[i] = store[i]
        BY <3>1, <3>2 DEF SmsIn
      <3>3. CASE store[i].sms # 0 /\ index \in {0, store[i].index}
        <4>1. i \in Used(store)
          BY <3>3 DEF Used
        <4>2. CASE index = 0
          BY <4>1, <4>2, <3>1, <1>1 DEF SmsIn
        <4>3. CASE index # 0
          <5>1. host.named[x] = index /\ x \in 1..MaxMt
            BY <4>1, <4>3, <3>1, <3>3, <1>8, ZenonT(30) DEF StoreInv
          <5> QED
            BY <5>1, <4>3, <1>1, ZenonT(30)
        <4> QED
          BY <4>2, <4>3
      <3> QED
        BY <3>2, <3>3, <1>3
    <2> QED
      BY <2>1, <2>2 DEF StoreInv
  <1>15. /\ host'.read \subseteq Range(hist'.inbox)
         /\ \A n \in 1..MaxMt : host'.named[n] < next_index'
         /\ \A m, n \in 1..MaxMt :
               host'.named[m] = host'.named[n] /\ host'.named[m] # 0 => m = n
    BY <1>0, <1>10, ZenonT(30) DEF StoreInv
  <1>16. Range(hist'.inbox) \subseteq SmsIn(store', StoreSlots) \cup host'.gone
    BY <1>0, <1>3, <1>10, <1>14
  <1> QED
    BY <1>0, <1>10, <1>11, <1>12, <1>13, <1>15, <1>16, ZenonT(30) DEF StoreInv

-----------------------------------------------------------------------------
(* The theorems *)

\* The empty store is in order.
LEMMA InboxInitial == InboxInit => InboxInv
  <1> SUFFICES ASSUME InboxInit PROVE InboxInv
    OBVIOUS
  <1>1. ServiceInv
    BY ServiceInitial DEF InboxInit
  <1>2. /\ store = [i \in StoreSlots |-> FreeEntry] /\ next_index = 1 /\ arrived = FALSE
        /\ host = [read |-> {}, named |-> [n \in 1..MaxMt |-> 0], gone |-> {},
                   reads |-> MaxReads]
    BY DEF InboxInit
  <1>3. /\ FreeEntry.sms = 0
        /\ FreeEntry \in [sms: 0..MaxMt, unread: BOOLEAN, notified: BOOLEAN, index: Nat]
    BY Constants DEF FreeEntry
  <1>4. Used(store) = {}
    BY <1>2, <1>3 DEF Used
  <1>5. hist.inbox = <<>> /\ Range(hist.inbox) = {}
    <2>1. hist.inbox = <<>>
      BY DEF InboxInit, ServiceInit
    <2> QED
      BY <2>1, RangeEmpty, ZenonT(30)
  <1>6. StoreTyped
    <2>1. store \in [StoreSlots -> [sms: 0..MaxMt, unread: BOOLEAN,
                                    notified: BOOLEAN, index: Nat]]
      BY <1>2, <1>3
    <2>2. MaxReads \in 0..MaxReads
      BY InboxAssumption
    <2>3. PICK none : /\ none = [n \in 1..MaxMt |-> 0]
                      /\ none \in [1..MaxMt -> Nat]
      <3>1. [n \in 1..MaxMt |-> 0] \in [1..MaxMt -> Nat]
        OBVIOUS
      <3> QED
        BY <3>1, ZenonT(30)
    <2>4. host \in [read: SUBSET (1..MaxMt), named: [1..MaxMt -> Nat],
                   gone: SUBSET (1..MaxMt), reads: 0..MaxReads]
      <3>1. host = [read |-> {}, named |-> none, gone |-> {}, reads |-> MaxReads]
        BY <2>3, <1>2
      <3>2. {} \in SUBSET (1..MaxMt)
        OBVIOUS
      <3> QED
        BY <3>1, <3>2, <2>2, <2>3, ZenonT(30)
    <2>5. next_index \in Nat \ {0} /\ arrived \in BOOLEAN
      <3>1. next_index = 1
        BY <1>2
      <3>2. next_index \in Nat \ {0}
        BY <3>1
      <3>3. arrived \in BOOLEAN
        BY <1>2, Zenon
      <3> QED
        BY <3>2, <3>3
    <2> QED
      BY <2>1, <2>4, <2>5 DEF StoreTyped
  <1>7. host.read = {} /\ \A n \in 1..MaxMt : host.named[n] = 0
    BY <1>2, ZenonT(30)
  <1>8. StoreInv
    <2>1. NewUntilRead
      BY <1>4 DEF NewUntilRead
    <2>2. \A n \in 1..MaxMt : host.named[n] < next_index
      <3>1. next_index = 1
        BY <1>2
      <3> QED
        BY <3>1, <1>7
    <2> QED
      BY <2>1, <2>2, <1>4, <1>5, <1>6, <1>7, ZenonT(30) DEF StoreInv
  <1> QED
    BY <1>1, <1>8 DEF InboxInv

\* The inbox only depends on what it reads.
LEMMA InboxFrame ==
  ASSUME InboxInv, UNCHANGED inboxVars
  PROVE  InboxInv'
  <1>1. /\ UNCHANGED <<svc, last, worker, ring, net, core, hist>>
        /\ UNCHANGED <<store, next_index, arrived, host>>
    BY DEF inboxVars, imsVars
  <1>2. ServiceInv'
    BY <1>1, ServiceFrame DEF InboxInv
  <1>3. StoreInv'
    BY <1>1, StoreFrame DEF InboxInv
  <1> QED
    BY <1>2, <1>3 DEF InboxInv

\* One step of anyone: the worker, the main thread, the network or the host.
LEMMA InboxStep == InboxInv /\ [InboxNext]_inboxVars => InboxInv'
  <1> SUFFICES ASSUME InboxInv, [InboxNext]_inboxVars PROVE InboxInv'
    OBVIOUS
  <1>0. ServiceInv /\ StoreInv
    BY DEF InboxInv
  <1>1. CASE UNCHANGED inboxVars
    BY <1>1, InboxFrame
  <1>2. CASE /\ ServiceStep \/ MainStep
             /\ UNCHANGED <<store, next_index, arrived, host>>
    <2>1. ServiceInv' /\ hist'.inbox = hist.inbox
      BY <1>0, <1>2, ServiceKeeps, InboxStays, ZenonT(30)
    <2>2. StoreInv'
      BY <2>1, <1>0, <1>2, StoreFrame, ZenonT(30)
    <2> QED
      BY <2>1, <2>2 DEF InboxInv
  <1>3. CASE DrainSms
    BY <1>0, <1>3, PopKeeps, DrainKeeps, ZenonT(30) DEF InboxInv
  <1>4. ASSUME DrainEnd \/ HostRead \/ HostDelete
        PROVE  InboxInv'
    <2>1. UNCHANGED <<svc, last, worker, ring, net, core, hist>>
      BY <1>4, ZenonT(30) DEF DrainEnd, HostRead, HostDelete, imsVars
    <2>2. ServiceInv'
      BY <2>1, <1>0, ServiceFrame, ZenonT(30)
    <2>3. StoreInv'
      BY <1>0, <1>4, DrainEndKeeps, HostReadKeeps, HostDeleteKeeps, ZenonT(30)
    <2> QED
      BY <2>2, <2>3, ZenonT(30) DEF InboxInv
  <1> QED
    BY <1>1, <1>2, <1>3, <1>4, ZenonT(30) DEF InboxNext

\* The invariant of the service and of the inbox holds throughout, whatever the
\* session, the network, the SMSC and the host do, and however the worker's steps
\* fall between them.
THEOREM InboxInvariant == InboxSpec => []InboxInv
  <1> QED
    BY InboxInitial, InboxStep, PTL DEF InboxSpec

\* The queues keep their bounds and the variables their types.
THEOREM ImsTypeCorrect == InboxSpec => []ImsTypeOK
  <1>1. InboxInv => ImsTypeOK
    BY DEF InboxInv, ServiceInv, Typed
  <1> QED
    BY <1>1, InboxInvariant, PTL

\* What is in two sequences one after the other.
LEMMA ConcatRange ==
  ASSUME NEW S, NEW s \in Seq(S), NEW t \in Seq(S)
  PROVE  /\ s \o t \in Seq(S) /\ Len(s \o t) = Len(s) + Len(t)
         /\ Range(s \o t) = Range(s) \cup Range(t)
  <1>1. /\ s \o t \in Seq(S) /\ Len(s \o t) = Len(s) + Len(t)
        /\ Len(s) \in Nat /\ Len(t) \in Nat
    OBVIOUS
  <1>2. \A i \in 1..Len(s \o t) :
           (s \o t)[i] = IF i <= Len(s) THEN s[i] ELSE t[i - Len(s)]
    OBVIOUS
  <1>3. /\ Range(s) = {s[i] : i \in 1..Len(s)} /\ Range(t) = {t[i] : i \in 1..Len(t)}
        /\ Range(s \o t) = {(s \o t)[i] : i \in 1..Len(s \o t)}
    BY <1>1, RangeTyped, ZenonT(30)
  <1>4. ASSUME NEW x \in Range(s) PROVE x \in Range(s \o t)
    <2>1. PICK i \in 1..Len(s) : x = s[i]
      BY <1>3
    <2>2. i \in 1..Len(s \o t) /\ (s \o t)[i] = x
      BY <2>1, <1>1, <1>2
    <2> QED
      BY <2>2, <1>3
  <1>5. ASSUME NEW x \in Range(t) PROVE x \in Range(s \o t)
    <2>1. PICK i \in 1..Len(t) : x = t[i]
      BY <1>3
    <2>2. /\ i + Len(s) \in 1..Len(s \o t) /\ ~(i + Len(s) <= Len(s))
          /\ (i + Len(s)) - Len(s) = i
      BY <1>1
    <2>3. (s \o t)[i + Len(s)] = t[i]
      BY <2>2, <1>2
    <2> QED
      BY <2>1, <2>2, <2>3, <1>3, ZenonT(30)
  <1>6. ASSUME NEW x \in Range(s \o t) PROVE x \in Range(s) \cup Range(t)
    <2>1. PICK i \in 1..Len(s \o t) : x = (s \o t)[i]
      BY <1>3
    <2>2. CASE i <= Len(s)
      BY <2>1, <2>2, <1>1, <1>2, <1>3, SMTT(30)
    <2>3. CASE ~(i <= Len(s))
      <3>1. i - Len(s) \in 1..Len(t) /\ x = t[i - Len(s)]
        BY <2>1, <2>3, <1>1, <1>2, SMTT(30)
      <3> QED
        BY <3>1, <1>3, ZenonT(30)
    <2> QED
      BY <2>2, <2>3
  <1> QED
    BY <1>1, <1>4, <1>5, <1>6, ZenonT(30)

\* The order of two increasing sequences, all of one below all of the other.
LEMMA ConcatIncreasing ==
  ASSUME NEW S, S \subseteq Nat, NEW s \in Seq(S), NEW t \in Seq(S),
         Increasing(s), Increasing(t), AllBelow(Range(s), Range(t))
  PROVE  Increasing(s \o t)
  <1>1. Len(s) \in Nat /\ Len(t) \in Nat /\ Len(s \o t) = Len(s) + Len(t)
    OBVIOUS
  <1>2. \A i \in 1..Len(s \o t) :
           (s \o t)[i] = IF i <= Len(s) THEN s[i] ELSE t[i - Len(s)]
    OBVIOUS
  <1>3. /\ \A i \in 1..Len(s) : s[i] \in Range(s)
        /\ \A i \in 1..Len(t) : t[i] \in Range(t)
    BY RangeTyped
  <1> SUFFICES ASSUME NEW i \in 1..Len(s \o t), NEW j \in 1..Len(s \o t), i < j
               PROVE  (s \o t)[i] < (s \o t)[j]
    BY DEF Increasing
  <1>4. CASE j <= Len(s)
    <2>1. i \in 1..Len(s) /\ j \in 1..Len(s) /\ i <= Len(s)
      BY <1>1, <1>4, SMTT(30)
    <2>2. (s \o t)[i] = s[i] /\ (s \o t)[j] = s[j]
      BY <2>1, <1>2, <1>4, ZenonT(30)
    <2> QED
      BY <2>1, <2>2 DEF Increasing
  <1>5. CASE ~(j <= Len(s)) /\ i <= Len(s)
    <2>1. i \in 1..Len(s) /\ j - Len(s) \in 1..Len(t)
      BY <1>1, <1>5
    <2>2. (s \o t)[i] = s[i] /\ (s \o t)[j] = t[j - Len(s)]
      BY <1>2, <1>5
    <2> QED
      BY <2>1, <2>2, <1>3 DEF AllBelow
  <1>6. CASE ~(i <= Len(s))
    <2>1. /\ i - Len(s) \in 1..Len(t) /\ j - Len(s) \in 1..Len(t) /\ ~(j <= Len(s))
          /\ i - Len(s) < j - Len(s)
      BY <1>1, <1>6
    <2>2. (s \o t)[i] = t[i - Len(s)] /\ (s \o t)[j] = t[j - Len(s)]
      BY <2>1, <1>2, <1>6, ZenonT(30)
    <2> QED
      BY <2>1, <2>2, ZenonT(30) DEF Increasing
  <1> QED
    BY <1>4, <1>5, <1>6, ZenonT(30)

\* An MT SMS reaches the host's side once and in order, and is acknowledged only
\* if it did or found the ring full: for every number of SMS, repetitions, losses
\* and sessions (ims_handle_sip_message).
THEOREM MessagesArriveOnce == InboxSpec => []MtOnce
  <1>1. InboxInv => MtOnce
    <2> SUFFICES ASSUME InboxInv PROVE MtOnce
      OBVIOUS
    <2>0. /\ MtInv /\ hist.inbox \in Seq(1..MaxMt) /\ ring \in Seq(1..MaxMt)
          /\ core.acked \in 0..MaxMt /\ last \in 0..MaxMt
      BY Types DEF InboxInv, ServiceInv, HistType, CoreType
    <2>1. PICK taken : taken = hist.inbox \o ring
      BY ZenonT(30)
    <2>2. PICK S : S = 1..MaxMt
      OBVIOUS
    <2>3. hist.inbox \in Seq(S) /\ ring \in Seq(S) /\ S \subseteq Nat
      BY <2>0, <2>2
    <2>4. taken \in Seq(S) /\ Range(taken) = Range(hist.inbox) \cup Range(ring)
      BY <2>1, <2>3, ConcatRange
    <2>5. Increasing(taken)
      <3>1. /\ Increasing(hist.inbox) /\ Increasing(ring)
            /\ AllBelow(Range(hist.inbox), Range(ring))
        BY <2>0 DEF MtInv
      <3> QED
        BY <3>1, <2>1, <2>3, ConcatIncreasing, ZenonT(30)
    <2>6. DOMAIN taken = 1..Len(taken)
      BY <2>4
    <2>7. \A i, j \in DOMAIN taken : i < j => taken[i] < taken[j]
      BY <2>5, <2>6 DEF Increasing
    <2>8. 1..core.acked \subseteq 1..last
      <3>1. core.acked <= last
        BY <2>0, ZenonT(30) DEF MtInv
      <3> QED
        BY <3>1, <2>0, SMTT(30)
    <2>9. 1..core.acked \subseteq Range(taken) \cup hist.dropped
      <3>1. 1..last \subseteq Range(hist.inbox) \cup Range(ring) \cup hist.dropped
        BY <2>0, ZenonT(30) DEF MtInv
      <3> QED
        BY <3>1, <2>4, <2>8, ZenonT(30)
    <2> QED
      BY <2>1, <2>7, <2>9, ZenonT(30) DEF MtOnce
  <1> QED
    BY <1>1, InboxInvariant, PTL

\* An MO SMS the host has a reference for is sent once, in order, and given up only
\* with its session (ims_worker, ims_service_set_pdu_active).
THEOREM MessagesLeaveOnce == InboxSpec => []MoOnce
  <1>1. InboxInv => MoOnce
    <2> SUFFICES ASSUME InboxInv PROVE MoOnce
      OBVIOUS
    <2>0. MoInv /\ hist.sent \in Seq(1..MaxMo)
      BY Types DEF InboxInv, ServiceInv, HistType
    <2>1. DOMAIN hist.sent = 1..Len(hist.sent)
      BY <2>0, SMTT(30)
    <2>2. \A i, j \in DOMAIN hist.sent : i < j => hist.sent[i] < hist.sent[j]
      BY <2>0, <2>1 DEF MoInv, Increasing
    <2> QED
      BY <2>0, <2>2, ZenonT(30) DEF MoOnce, MoInv
  <1> QED
    BY <1>1, InboxInvariant, PTL

\* A service that takes itself for registered has its session and its binding, as
\* long as no refresh was spoilt and no 200 of an ended session came late.
THEOREM RegistrationStays == InboxSpec => []StaysRegistered
  <1>1. InboxInv => StaysRegistered
    <2> SUFFICES ASSUME InboxInv, svc.registered, hist.spoilt = 0, ~hist.stale
                 PROVE  svc.session = "full" /\ core.binding > 0
      BY ZenonT(30) DEF StaysRegistered
    <2>1. /\ SessionInv /\ BindingInv /\ core.binding \in 0..Expires
          /\ svc.refresh \in {Off} \cup 0..RefreshTime
      BY Types DEF InboxInv, ServiceInv, CoreType, SvcType
    <2>2. svc.session = "full"
      BY <2>1 DEF SessionInv
    <2>3. IF svc.refresh = Off THEN core.binding >= Expires - RefreshTime
          ELSE core.binding >= svc.refresh + (Expires - RefreshTime)
      BY <2>1 DEF BindingInv
    <2>4. core.binding > 0
      <3>1. CASE svc.refresh = Off
        BY <3>1, <2>1, <2>3, Constants, SMTT(30)
      <3>2. CASE svc.refresh # Off
        <4>1. svc.refresh \in 0..RefreshTime
          BY <3>2, <2>1
        <4> QED
          BY <4>1, <3>2, <2>1, <2>3, Constants, SMTT(30)
      <3> QED
        BY <3>1, <3>2
    <2> QED
      BY <2>2, <2>4
  <1> QED
    BY <1>1, InboxInvariant, PTL

\* An SMS in the store is new exactly until the host reads it.
THEOREM NewMeansUnread == InboxSpec => []NewUntilRead
  <1>1. InboxInv => NewUntilRead
    BY ZenonT(30) DEF InboxInv, StoreInv
  <1> QED
    BY <1>1, InboxInvariant, PTL

\* An index the host knows stands for one SMS for good, whatever is deleted,
\* overwritten and stored in between.
THEOREM IndexMeansOneSms == InboxSpec => []IndexStands
  <1>1. InboxInv => IndexStands
    <2> SUFFICES ASSUME InboxInv, NEW i \in Used(store), NEW n \in 1..MaxMt,
                        host.named[n] = store[i].index
                 PROVE  n = store[i].sms
      BY DEF IndexStands
    <2>1. StoreInv /\ StoreTyped /\ i \in StoreSlots
      BY DEF InboxInv, StoreInv, Used
    <2>2. store[i].sms \in 1..MaxMt
      BY <2>1, EntryFields
    <2>3. store[i].index # 0 /\ store[i].index = host.named[store[i].sms]
      BY <2>1 DEF StoreInv
    <2> QED
      BY <2>1, <2>2, <2>3 DEF StoreInv
  <1> QED
    BY <1>1, InboxInvariant, PTL

\* What was acknowledged to the network can be read until it is deleted, but for
\* what a full ring dropped or a full store let go.
THEOREM AckedIsKept == InboxSpec => []KeptForHost
  <1>1. InboxInv => KeptForHost
    <2> SUFFICES ASSUME InboxInv PROVE KeptForHost
      OBVIOUS
    <2>0. MtInv /\ core.acked \in 0..MaxMt /\ last \in 0..MaxMt /\ StoreInv
      BY Types DEF InboxInv, ServiceInv, CoreType
    <2>1. 1..core.acked \subseteq 1..last
      <3>1. core.acked <= last
        BY <2>0, ZenonT(30) DEF MtInv
      <3> QED
        BY <3>1, <2>0
    <2>2. 1..last \subseteq Range(hist.inbox) \cup Range(ring) \cup hist.dropped
      BY <2>0 DEF MtInv
    <2>3. Range(hist.inbox) \subseteq SmsIn(store, StoreSlots) \cup host.gone
      BY <2>0 DEF StoreInv
    <2> QED
      BY <2>1, <2>2, <2>3 DEF KeptForHost
  <1> QED
    BY <1>1, InboxInvariant, PTL
=============================================================================
