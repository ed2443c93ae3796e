------------------------- MODULE NasSecurityProofs --------------------------
(***************************************************************************)
(* NAS security for any number of vectors, commands, messages in flight,   *)
(* faults and restarts, and any SQN that is large enough for them: the     *)
(* contexts keep to their types, and UE and AMF keep in step in both       *)
(* directions, but for what an accepted challenge overwrites.              *)
(*                                                                         *)
(* The invariant is stated for a UE u, an AMF a, the messages q on their   *)
(* way and the faults f that are left, as a step of the UE changes them    *)
(* one after the other: the handler, the uplink COUNT, and the AMF.        *)
(***************************************************************************)
EXTENDS NasSecurity, TLAPS

UeType ==
    [cur: ContextType, non: ContextType, sqn_ms: Vectors,
     smc: Messages \cup {NoMessage}, taken: Vectors]

AmfType ==
    [cur: ContextType, pend: ProcedureType, vectors: Vectors, crossed: BOOLEAN]

\* The keys of the UE are those of the last challenge it accepted, in the context
\* in use as in the one to come; a context in use is the one the last security
\* mode command was about.
UeKeys(u) ==
    /\ u.cur.gen = u.sqn_ms
    /\ u.non.active => u.non.gen = u.sqn_ms /\ u.non.dl = 0
    /\ u.taken = u.smc.key
    /\ ~u.cur.active => u.smc = NoMessage
    /\ u.cur.active => /\ u.smc.kind = "smc" /\ u.cur.gen # 0
                       /\ u.cur.ngksi = u.smc.ngksi /\ u.cur.enc = u.smc.enc

\* The AMF's procedure is about its newest vector, which the UE has accepted before
\* a security mode command is sent; between procedures the context in use is the
\* newest one.
AmfKeys(u, a) ==
    /\ a.cur.active => a.cur.gen # 0 /\ u.cur.active
    /\ ~a.cur.active => a.cur = NoContext
    /\ a.cur.gen <= u.sqn_ms /\ u.sqn_ms <= a.vectors
    /\ a.pend.stage = "none" =>
          a.pend = NoProcedure /\ (a.cur.active => a.cur.gen = a.vectors)
    /\ a.pend.stage # "none" =>
          /\ a.pend.gen = a.vectors /\ a.cur.gen < a.vectors
          /\ a.pend.ngksi # a.cur.ngksi
    /\ a.pend.stage = "auth" => a.pend.count = 0
    /\ a.pend.stage = "smc" => u.sqn_ms = a.vectors

\* A security mode command is about the context in use, an older one, or the one
\* the procedure is to end in, and names its ngKSI and algorithm.
Command(a, m) ==
    /\ m.key # 0 /\ m.key <= a.vectors
    /\ m.key = a.cur.gen => m.enc = a.cur.enc /\ m.ngksi = a.cur.ngksi
    /\ m.key > a.cur.gen =>
          /\ a.pend.stage = "smc" /\ m.key = a.pend.gen /\ a.pend.count > 0
          /\ m.enc = a.pend.enc /\ m.ngksi = a.pend.ngksi

\* Any other message is protected by the context in use or an older one.
Sent(a, m) ==
    IF m.kind = "smc" THEN Command(a, m)
    ELSE m.key <= a.cur.gen /\ m.gen <= a.vectors

\* How far faults may have set back a message: each copies one to the end of the
\* queue, swaps two, or loses one.
Setback(f) == (MaxFaults - f) * (MaxInFlight - 1)

\* What has been counted since a message went out is behind it in the queue; what
\* was counted since the context in use was taken, behind every message of another.
InStream(a, m) == m.kind # "smc" /\ m.key = a.cur.gen

Follows(a, q, f, i) ==
    /\ InStream(a, q[i]) =>
          /\ q[i].count < a.cur.dl
          /\ a.cur.dl <= q[i].count + (Len(q) - i) + 1 + Setback(f)
    /\ ~InStream(a, q[i]) /\ q[i].key <= a.cur.gen =>
          a.cur.dl <= MaxCommands + (Len(q) - i) + Setback(f)

Mail(a, q, f) ==
    \A i \in 1..Len(q) : Sent(a, q[i]) /\ (a.cur.active => Follows(a, q, f, i))

\* Unless the AMF once took the answer to an old command for a new one's: the UE's
\* context is the AMF's, or the one the AMF's procedure is to end in, not used yet;
\* and the AMF's downlink COUNT is ahead by no more than what may be under way.
Agree(u, a, q, f) ==
    /\ a.pend.stage = "none" /\ a.cur.active =>
          u.taken = a.cur.gen /\ u.cur.ul >= a.cur.ul
    /\ u.cur.active =>
          \/ u.taken = a.cur.gen
          \/ a.pend.stage = "smc" /\ u.taken = a.pend.gen /\ u.cur.dl = 0
    /\ u.cur.active /\ u.cur.gen = a.cur.gen =>
          /\ u.cur.dl <= a.cur.dl
          /\ a.cur.dl <= u.cur.dl + MaxCommands + Len(q) + Setback(f)

Typed(u, a, q, f) ==
    /\ u \in UeType /\ a \in AmfType /\ f \in 0..MaxFaults
    /\ q \in Seq(Messages) /\ Len(q) <= MaxInFlight

InStep(u, a, q, f) ==
    /\ Typed(u, a, q, f)
    /\ UeKeys(u) /\ AmfKeys(u, a)
    /\ u.cur.active => Command(a, u.smc)
    /\ Mail(a, q, f)
    /\ ~a.crossed => Agree(u, a, q, f)

Allowances == [sends: 0..MaxSends, faults: 0..MaxFaults, restarts: 0..MaxRestarts]

SecInv == InStep(ue, amf, dl, allowance.faults) /\ allowance \in Allowances

-----------------------------------------------------------------------------
(* Arithmetic *)

\* The quotient and the remainder determine a number.
LEMMA DivMod ==
  ASSUME NEW n \in Nat, NEW s \in Nat \ {0}
  PROVE  /\ n \div s \in Nat /\ n % s \in 0..(s - 1)
         /\ n = (n \div s) * s + (n % s)
  OBVIOUS

\* Two multiples of s lie at least s apart.
LEMMA Apart ==
  ASSUME NEW s \in Nat \ {0}, NEW a \in Nat, NEW b \in Nat, a < b
  PROVE  a * s + s <= b * s
  <1> PICK d \in Nat : b = a + 1 + d
    <2> b - a - 1 \in Nat /\ b = a + 1 + (b - a - 1)
      OBVIOUS
    <2> QED OBVIOUS
  <1>1. b * s = a * s + s + d * s
    OBVIOUS
  <1>2. d * s \in Nat /\ a * s \in Nat
    OBVIOUS
  <1> QED
    BY <1>1, <1>2

\* A COUNT that is at most SqnMod - 1 ahead is recovered from its SQN.
LEMMA EstimateRight ==
  ASSUME NEW c \in Nat, NEW n \in Nat, c <= n, n < c + SqnMod
  PROVE  Estimate(c, n % SqnMod) = n
  <1>0. SqnMod \in Nat \ {0}
    BY SecAssumption
  <1>a. /\ c \div SqnMod \in Nat /\ c % SqnMod \in 0..(SqnMod - 1)
        /\ c = (c \div SqnMod) * SqnMod + (c % SqnMod)
    BY <1>0, DivMod, ZenonT(30)
  <1>b. /\ n \div SqnMod \in Nat /\ n % SqnMod \in 0..(SqnMod - 1)
        /\ n = (n \div SqnMod) * SqnMod + (n % SqnMod)
    BY <1>0, DivMod, ZenonT(30)
  <1> PICK q \in Nat, r \in 0..(SqnMod - 1) :
        q = c \div SqnMod /\ r = c % SqnMod /\ c = q * SqnMod + r
    BY <1>a, ZenonT(30)
  <1> PICK p \in Nat, k \in 0..(SqnMod - 1) :
        p = n \div SqnMod /\ k = n % SqnMod /\ n = p * SqnMod + k
    BY <1>b, ZenonT(30)
  <1>1. q * SqnMod \in Nat /\ p * SqnMod \in Nat
    BY <1>0
  <1>2. q <= p
    <2> SUFFICES ASSUME p < q PROVE FALSE
      OBVIOUS
    <2>1. p * SqnMod + SqnMod <= q * SqnMod
      BY <1>0, Apart
    <2> QED
      BY <2>1, <1>0, <1>1
  <1>3. p <= q + 1
    <2> SUFFICES ASSUME q + 1 < p PROVE FALSE
      OBVIOUS
    <2>1. (q + 1) * SqnMod + SqnMod <= p * SqnMod
      BY <1>0, Apart
    <2>2. (q + 1) * SqnMod = q * SqnMod + SqnMod
      BY <1>0
    <2> QED
      BY <2>1, <2>2, <1>0, <1>1
  <1>4. CASE p = q
    BY <1>4, <1>0, <1>1 DEF Estimate
  <1>5. CASE p = q + 1
    <2>1. p * SqnMod = q * SqnMod + SqnMod
      BY <1>5, <1>0
    <2>2. k < r
      BY <2>1, <1>0, <1>1
    <2> QED
      BY <2>2, <1>5 DEF Estimate
  <1> QED
    BY <1>2, <1>3, <1>4, <1>5

\* What lies between two numbers.
LEMMA Rising ==
  ASSUME NEW x \in Nat, NEW y \in Nat, NEW z \in Nat, x <= y, y <= z
  PROVE  x <= z /\ (x = z => y = z /\ x = y) /\ (x # 0 => y # 0) /\ (y # 0 => z # 0)
  OBVIOUS

\* No context is not active, and has no keys.
LEMMA NoContextIs == ~NoContext.active /\ NoContext.gen = 0 /\ NoContext.dl = 0
  BY DEF NoContext

\* The constants are numbers.
LEMMA Numbers ==
  /\ SqnMod \in Nat \ {0} /\ MaxCommands \in Nat \ {0} /\ MaxInFlight \in Nat \ {0}
  /\ MaxFaults \in Nat /\ MaxVectors \in Nat /\ MaxInFlight - 1 \in Nat \ {0}
  /\ MaxCommands + MaxInFlight + MaxFaults * (MaxInFlight - 1) <= SqnMod
  <1>1. MaxInFlight \in Nat /\ MaxInFlight >= 2
    BY SecAssumption
  <1>5. MaxCommands \in Nat \ {0} /\ MaxVectors \in Nat
    BY SecAssumption
  <1>2. MaxFaults \in Nat
    BY SecAssumption
  <1>3. SqnMod \in Nat \ {0}
    BY SecAssumption
  <1>4. MaxCommands + MaxInFlight + MaxFaults * (MaxInFlight - 1) <= SqnMod
    BY SecAssumption
  <1> QED
    BY <1>1, <1>2, <1>3, <1>4, <1>5

\* Multiplication of numbers.
LEMMA Product ==
  ASSUME NEW d \in Nat, NEW e \in Nat, NEW k \in Nat
  PROVE  /\ d * k \in Nat /\ (d + 1) * k = d * k + k
         /\ d * k <= (d + e) * k
  <1>1. (d + e) * k = d * k + e * k /\ d * k \in Nat /\ e * k \in Nat
    OBVIOUS
  <1> QED
    BY <1>1

\* What faults may have set back is a number, and at most what all of them can.
LEMMA SetbackNat ==
  ASSUME NEW f \in 0..MaxFaults
  PROVE  Setback(f) \in Nat /\ Setback(f) <= MaxFaults * (MaxInFlight - 1)
  <1>1. f \in Nat /\ MaxFaults - f \in Nat /\ MaxFaults = (MaxFaults - f) + f
    BY Numbers
  <1>2. MaxInFlight - 1 \in Nat
    BY Numbers
  <1> QED
    BY <1>1, <1>2, Product DEF Setback

\* One more fault sets a message back by one place less than the queue has.
LEMMA SetbackGrows ==
  ASSUME NEW f \in 0..MaxFaults, f > 0
  PROVE  /\ f - 1 \in 0..MaxFaults
         /\ Setback(f - 1) = Setback(f) + (MaxInFlight - 1)
  <1>1. /\ f - 1 \in 0..MaxFaults /\ MaxFaults - f \in Nat
        /\ MaxFaults - (f - 1) = (MaxFaults - f) + 1
    BY Numbers
  <1>2. MaxInFlight - 1 \in Nat
    BY Numbers
  <1> QED
    BY <1>1, <1>2, Product DEF Setback

-----------------------------------------------------------------------------
(* Types *)

\* The fields of a security context.
LEMMA ContextFields ==
  ASSUME NEW c \in ContextType
  PROVE  /\ c.active \in BOOLEAN /\ c.gen \in Nat /\ c.gen \in Vectors
         /\ c.enc \in Ciphers /\ c.kenc \in Ciphers /\ c.ngksi \in {0, 1, 7}
         /\ c.ul \in Nat /\ c.dl \in Nat
  BY SecAssumption DEF ContextType, Vectors

\* The fields of the UE.
LEMMA UeFields ==
  ASSUME NEW u \in UeType
  PROVE  /\ u.cur \in ContextType /\ u.non \in ContextType
         /\ u.sqn_ms \in Nat /\ u.sqn_ms \in Vectors
         /\ u.smc \in Messages \cup {NoMessage}
         /\ u.taken \in Nat /\ u.taken \in Vectors
  BY SecAssumption DEF UeType, Vectors

\* The fields of the AMF.
LEMMA AmfFields ==
  ASSUME NEW a \in AmfType
  PROVE  /\ a.cur \in ContextType /\ a.pend \in ProcedureType
         /\ a.pend.stage \in {"none", "auth", "smc"}
         /\ a.pend.gen \in Nat /\ a.pend.gen \in Vectors /\ a.pend.ngksi \in {0, 1, 7}
         /\ a.pend.enc \in Ciphers /\ a.pend.count \in 0..MaxCommands
         /\ a.vectors \in Nat /\ a.vectors \in Vectors /\ a.crossed \in BOOLEAN
  BY SecAssumption DEF AmfType, ProcedureType, Vectors

\* The fields of a message.
LEMMA MessageFields ==
  ASSUME NEW m \in Messages
  PROVE  /\ m.kind \in {"auth", "badAuth", "smc", "other"}
         /\ m.key \in Nat /\ m.key \in Vectors /\ m.count \in Nat /\ m.enc \in Ciphers
         /\ m.gen \in Nat /\ m.gen \in Vectors /\ m.ngksi \in {0, 1, 7}
  BY SecAssumption DEF Messages, Vectors

\* No context, no message and no procedure are of their types.
LEMMA NothingTyped ==
  /\ NoContext \in ContextType /\ NoProcedure \in ProcedureType
  /\ Cleared \in UeType /\ NoMessage.key = 0
  <1>1. 0 \in Vectors /\ MaxCommands \in Nat
    BY SecAssumption DEF Vectors
  <1>2. NoContext \in ContextType
    BY <1>1 DEF NoContext, ContextType, Ciphers
  <1>3. NoProcedure \in ProcedureType
    BY <1>1 DEF NoProcedure, ProcedureType, Ciphers
  <1>4. NoMessage.key = 0
    BY DEF NoMessage
  <1> QED
    BY <1>1, <1>2, <1>3, <1>4 DEF Cleared, UeType

-----------------------------------------------------------------------------
(* The queue *)

\* What is left of a queue without its head.
LEMMA TailOf ==
  ASSUME NEW S, NEW q \in Seq(S), q # <<>>
  PROVE  /\ Head(q) = q[1] /\ q[1] \in S /\ Len(q) \in Nat \ {0} /\ 1 \in 1..Len(q)
         /\ Tail(q) \in Seq(S) /\ Len(Tail(q)) = Len(q) - 1
         /\ \A i \in 1..Len(Tail(q)) : i + 1 \in 1..Len(q) /\ Tail(q)[i] = q[i + 1]
  OBVIOUS

\* A queue with one message more.
LEMMA AppendOf ==
  ASSUME NEW S, NEW q \in Seq(S), NEW m \in S
  PROVE  /\ Append(q, m) \in Seq(S) /\ Len(Append(q, m)) = Len(q) + 1 /\ Len(q) \in Nat
         /\ \A i \in 1..Len(q) : Append(q, m)[i] = q[i]
         /\ Append(q, m)[Len(q) + 1] = m
  OBVIOUS

\* A queue whose first two messages have changed places.
LEMMA SwapOf ==
  ASSUME NEW S, NEW q \in Seq(S), Len(q) > 1
  PROVE  LET p == [q EXCEPT ![1] = q[2], ![2] = q[1]] IN
         /\ p \in Seq(S) /\ Len(p) = Len(q) /\ Len(q) \in Nat
         /\ p[1] = q[2] /\ p[2] = q[1] /\ 1 \in 1..Len(q) /\ 2 \in 1..Len(q)
         /\ \A i \in 1..Len(q) : i # 1 /\ i # 2 => p[i] = q[i]
  <1> DEFINE p == [q EXCEPT ![1] = q[2], ![2] = q[1]]
  <1>1. Len(q) \in Nat /\ q \in [1..Len(q) -> S] /\ 1 \in 1..Len(q) /\ 2 \in 1..Len(q)
    OBVIOUS
  <1>2. p \in [1..Len(q) -> S]
    BY <1>1
  <1>3. p \in Seq(S) /\ Len(p) = Len(q)
    BY <1>1, <1>2
  <1> QED
    BY <1>1, <1>3

\* What an arithmetic step of the proofs below needs of a queue place.
LEMMA FollowsNat ==
  ASSUME NEW a \in AmfType, NEW q \in Seq(Messages), NEW f \in 0..MaxFaults,
         NEW i \in 1..Len(q)
  PROVE  /\ a.cur.dl \in Nat /\ a.cur.gen \in Nat /\ q[i].count \in Nat /\ q[i].key \in Nat
         /\ Len(q) \in Nat /\ Len(q) - i \in Nat /\ Setback(f) \in Nat
         /\ MaxCommands \in Nat /\ MaxInFlight \in Nat
  <1>1. q[i] \in Messages /\ Len(q) \in Nat /\ Len(q) - i \in Nat
    OBVIOUS
  <1> QED
    BY <1>1, AmfFields, ContextFields, MessageFields, SetbackNat, Numbers, ZenonT(30)

\* The messages behind the head are where they were, counted from the end.
LEMMA MailTail ==
  ASSUME NEW a \in AmfType, NEW q \in Seq(Messages), NEW f \in 0..MaxFaults,
         q # <<>>, Mail(a, q, f)
  PROVE  Mail(a, Tail(q), f)
  <1> SUFFICES ASSUME NEW i \in 1..Len(Tail(q))
               PROVE  /\ Sent(a, Tail(q)[i])
                      /\ a.cur.active => Follows(a, Tail(q), f, i)
    BY DEF Mail
  <1>1. /\ i + 1 \in 1..Len(q) /\ Tail(q)[i] = q[i + 1] /\ Len(Tail(q)) = Len(q) - 1
        /\ Len(q) \in Nat /\ i \in Nat
    BY TailOf
  <1>2. Len(Tail(q)) - i = Len(q) - (i + 1)
    BY <1>1
  <1>3. Sent(a, q[i + 1]) /\ (a.cur.active => Follows(a, q, f, i + 1))
    BY <1>1 DEF Mail
  <1> QED
    BY <1>1, <1>2, <1>3 DEF Follows

\* Moving a bound.
LEMMA Farther ==
  ASSUME NEW x \in Nat, NEW c \in Nat, NEW d \in Nat, NEW s \in Nat,
         NEW e \in Nat, NEW t \in Nat, d + s <= e + t
  PROVE  /\ x <= c + d + 1 + s => x <= c + e + 1 + t
         /\ x <= c + d + s => x <= c + e + t
  OBVIOUS

\* Place j of p has the message of place i of q, no nearer to the end, what faults
\* may have set back included.
NoNearer(q, f, i, p, g, j) ==
    q[i] = p[j] /\ (Len(q) - i) + Setback(f) <= (Len(p) - j) + Setback(g)

\* A place that is no nearer to the end of its queue, faults included, will do.
LEMMA FollowsToo ==
  ASSUME NEW a \in AmfType,
         NEW q \in Seq(Messages), NEW f \in 0..MaxFaults, NEW i \in 1..Len(q),
         NEW p \in Seq(Messages), NEW g \in 0..MaxFaults, NEW j \in 1..Len(p),
         NoNearer(q, f, i, p, g, j), Follows(a, q, f, i)
  PROVE  Follows(a, p, g, j)
  <1>1. /\ a.cur.dl \in Nat /\ q[i].count \in Nat /\ MaxCommands \in Nat
        /\ Len(q) - i \in Nat /\ Setback(f) \in Nat
    BY FollowsNat
  <1>2. Len(p) - j \in Nat /\ Setback(g) \in Nat
    BY FollowsNat
  <1>0. q[i] = p[j] /\ (Len(q) - i) + Setback(f) <= (Len(p) - j) + Setback(g)
    BY DEF NoNearer
  <1>3. ASSUME InStream(a, p[j])
        PROVE  /\ p[j].count < a.cur.dl
               /\ a.cur.dl <= p[j].count + (Len(p) - j) + 1 + Setback(g)
    <2>1. /\ q[i].count < a.cur.dl
          /\ a.cur.dl <= q[i].count + (Len(q) - i) + 1 + Setback(f)
      BY <1>0, <1>3 DEF Follows
    <2> QED
      BY <2>1, <1>0, <1>1, <1>2, Farther, ZenonT(30)
  <1>4. ASSUME ~InStream(a, p[j]), p[j].key <= a.cur.gen
        PROVE  a.cur.dl <= MaxCommands + (Len(p) - j) + Setback(g)
    <2>1. a.cur.dl <= MaxCommands + (Len(q) - i) + Setback(f)
      BY <1>0, <1>4 DEF Follows
    <2> QED
      BY <2>1, <1>0, <1>1, <1>2, Farther, ZenonT(30)
  <1> QED
    BY <1>3, <1>4 DEF Follows

\* Another fault leaves every message within its bound.
LEMMA MailFault ==
  ASSUME NEW a \in AmfType, NEW q \in Seq(Messages), NEW f \in 0..MaxFaults, f > 0,
         Mail(a, q, f)
  PROVE  Mail(a, q, f - 1)
  <1> SUFFICES ASSUME NEW i \in 1..Len(q), a.cur.active
               PROVE  Follows(a, q, f - 1, i)
    BY DEF Mail
  <1>1. f - 1 \in 0..MaxFaults /\ Setback(f - 1) = Setback(f) + (MaxInFlight - 1)
    BY SetbackGrows
  <1>2. NoNearer(q, f, i, q, f - 1, i)
    BY <1>1, FollowsNat, Numbers, SMTT(30) DEF NoNearer
  <1> QED
    BY <1>1, <1>2, FollowsToo DEF Mail

\* A copy of the head at the end is set back by no more than a fault allows.
LEMMA MailCopy ==
  ASSUME NEW a \in AmfType, NEW q \in Seq(Messages), NEW f \in 0..MaxFaults, f > 0,
         q # <<>>, Len(q) < MaxInFlight, Mail(a, q, f)
  PROVE  Mail(a, Append(q, Head(q)), f - 1)
  <1>6. PICK p : p = Append(q, Head(q))
    BY ZenonT(30)
  <1>0. Head(q) = q[1] /\ q[1] \in Messages /\ Len(q) \in Nat \ {0} /\ 1 \in 1..Len(q)
    BY TailOf
  <1>1. /\ p \in Seq(Messages) /\ Len(p) = Len(q) + 1 /\ p[Len(q) + 1] = q[1]
        /\ \A i \in 1..Len(q) : p[i] = q[i]
    BY <1>0, <1>6, AppendOf
  <1>7. PICK g : g = f - 1
    OBVIOUS
  <1>2. /\ g \in 0..MaxFaults /\ Setback(g) = Setback(f) + (MaxInFlight - 1)
        /\ Setback(f) \in Nat /\ MaxInFlight \in Nat
    BY <1>7, SetbackGrows, SetbackNat, Numbers
  <1> SUFFICES ASSUME NEW j \in 1..Len(p)
               PROVE  Sent(a, p[j]) /\ (a.cur.active => Follows(a, p, g, j))
    BY <1>6, <1>7 DEF Mail
  <1>3. CASE j \in 1..Len(q)
    <2>1. (Len(q) - j) + Setback(f) <= (Len(p) - j) + Setback(g)
      BY <1>0, <1>1, <1>2, <1>3, SMTT(30)
    <2>2. p[j] = q[j] /\ Sent(a, q[j]) /\ (a.cur.active => Follows(a, q, f, j))
      BY <1>1, <1>3 DEF Mail
    <2>3. NoNearer(q, f, j, p, g, j)
      BY <2>1, <2>2 DEF NoNearer
    <2> QED
      BY <2>2, <2>3, <1>1, <1>2, <1>3, FollowsToo, ZenonT(30)
  <1>4. CASE j = Len(q) + 1
    <2>1. (Len(q) - 1) + Setback(f) <= (Len(p) - j) + Setback(g)
      BY <1>0, <1>1, <1>2, <1>4, SMTT(30)
    <2>2. p[j] = q[1] /\ Sent(a, q[1]) /\ (a.cur.active => Follows(a, q, f, 1))
      BY <1>0, <1>1, <1>4 DEF Mail
    <2>3. NoNearer(q, f, 1, p, g, j)
      BY <2>1, <2>2 DEF NoNearer
    <2> QED
      BY <2>2, <2>3, <1>0, <1>1, <1>2, FollowsToo, ZenonT(30)
  <1> QED
    BY <1>0, <1>1, <1>3, <1>4

\* The same of two messages that change places.
LEMMA MailSwap ==
  ASSUME NEW a \in AmfType, NEW q \in Seq(Messages), NEW f \in 0..MaxFaults, f > 0,
         Len(q) > 1, Len(q) <= MaxInFlight, Mail(a, q, f)
  PROVE  Mail(a, [q EXCEPT ![1] = q[2], ![2] = q[1]], f - 1)
  <1>6. PICK p : p = [q EXCEPT ![1] = q[2], ![2] = q[1]]
    BY ZenonT(30)
  <1>1. /\ p \in Seq(Messages) /\ Len(p) = Len(q) /\ Len(q) \in Nat
        /\ p[1] = q[2] /\ p[2] = q[1] /\ 1 \in 1..Len(q) /\ 2 \in 1..Len(q)
        /\ \A i \in 1..Len(q) : i # 1 /\ i # 2 => p[i] = q[i]
    BY <1>6, SwapOf
  <1>7. PICK g : g = f - 1
    OBVIOUS
  <1>2. /\ g \in 0..MaxFaults /\ Setback(g) = Setback(f) + (MaxInFlight - 1)
        /\ Setback(f) \in Nat /\ MaxInFlight \in Nat
    BY <1>7, SetbackGrows, SetbackNat, Numbers
  <1> SUFFICES ASSUME NEW j \in 1..Len(p)
               PROVE  Sent(a, p[j]) /\ (a.cur.active => Follows(a, p, g, j))
    BY <1>6, <1>7, ZenonT(30) DEF Mail
  <1> PICK i \in 1..Len(q) : q[i] = p[j]
    BY <1>1
  <1>3. (Len(q) - i) + Setback(f) <= (Len(p) - j) + Setback(g)
    BY <1>1, <1>2, SMTT(30)
  <1>4. Sent(a, q[i]) /\ (a.cur.active => Follows(a, q, f, i))
    BY DEF Mail
  <1>5. NoNearer(q, f, i, p, g, j)
    BY <1>3 DEF NoNearer
  <1> QED
    BY <1>1, <1>2, <1>4, <1>5, FollowsToo, ZenonT(30)

\* An AMF that differs in COUNTs only.
SameButCounts(a, b) ==
    /\ b.cur.active = a.cur.active /\ b.cur.gen = a.cur.gen /\ b.cur.enc = a.cur.enc
    /\ b.cur.ngksi = a.cur.ngksi
    /\ b.pend = a.pend /\ b.vectors = a.vectors /\ b.crossed = a.crossed

\* Counted leaves all but the COUNT.
LEMMA CountedSame ==
  ASSUME NEW a \in AmfType
  PROVE  /\ Counted(a) \in AmfType /\ SameButCounts(a, Counted(a))
         /\ Counted(a).cur.ul = a.cur.ul
         /\ a.cur.active => Counted(a).cur.dl = a.cur.dl + 1
         /\ ~a.cur.active => Counted(a) = a
  <1>1. CASE ~a.cur.active
    BY <1>1 DEF Counted, SameButCounts
  <1>2. CASE a.cur.active
    <2>1. PICK c : c = [a.cur EXCEPT !.dl = @ + 1]
      BY ZenonT(30)
    <2>2. Counted(a) = [a EXCEPT !.cur = c]
      BY <1>2, <2>1 DEF Counted
    <2>3. /\ c \in ContextType /\ c.dl = a.cur.dl + 1 /\ c.ul = a.cur.ul
          /\ c.active = a.cur.active /\ c.gen = a.cur.gen /\ c.enc = a.cur.enc
          /\ c.ngksi = a.cur.ngksi
      BY <2>1, AmfFields DEF ContextType
    <2>4. /\ Counted(a) \in AmfType /\ Counted(a).cur = c
          /\ Counted(a).pend = a.pend /\ Counted(a).vectors = a.vectors
          /\ Counted(a).crossed = a.crossed
      BY <2>2, <2>3 DEF AmfType
    <2> QED
      BY <1>2, <2>3, <2>4, ZenonT(30) DEF SameButCounts
  <1> QED
    BY <1>1, <1>2, AmfFields, ContextFields

\* What a message says of the AMF does not depend on COUNTs.
LEMMA SentSame ==
  ASSUME NEW a, NEW b, SameButCounts(a, b), NEW m
  PROVE  (Sent(a, m) => Sent(b, m)) /\ (InStream(a, m) <=> InStream(b, m))
         /\ (Command(a, m) => Command(b, m))
  BY DEF SameButCounts, Sent, Command, InStream

\* One message more on the way, and counted.
LEMMA OneMore ==
  ASSUME NEW d \in Nat, NEW c \in Nat, NEW k \in Nat, NEW l \in Nat, NEW t \in Nat,
         l = k + 1
  PROVE  /\ d <= c + k + 1 + t => d + 1 <= c + l + 1 + t
         /\ d <= c + k + t => d + 1 <= c + l + t
         /\ c < d => c < d + 1
  OBVIOUS

\* A message of the context in use goes to the end, and is counted.
LEMMA MailSend ==
  ASSUME NEW a \in AmfType, NEW q \in Seq(Messages), NEW f \in 0..MaxFaults,
         NEW m \in Messages, m.kind # "smc", m.key = a.cur.gen, m.count = a.cur.dl,
         m.gen <= a.vectors, Mail(a, q, f)
  PROVE  Mail(Counted(a), Append(q, m), f)
  <1>6. PICK p : p = Append(q, m)
    BY ZenonT(30)
  <1>7. PICK b : b = Counted(a)
    OBVIOUS
  <1>1. /\ p \in Seq(Messages) /\ Len(p) = Len(q) + 1 /\ Len(q) \in Nat
        /\ p[Len(q) + 1] = m /\ \A i \in 1..Len(q) : p[i] = q[i]
    BY <1>6, AppendOf
  <1>2. /\ b \in AmfType /\ SameButCounts(a, b)
        /\ a.cur.active => b.cur.dl = a.cur.dl + 1
    BY <1>7, CountedSame
  <1>3. b.cur.active = a.cur.active /\ b.cur.gen = a.cur.gen
    BY <1>2 DEF SameButCounts
  <1> SUFFICES ASSUME NEW j \in 1..Len(p)
               PROVE  Sent(b, p[j]) /\ (b.cur.active => Follows(b, p, f, j))
    BY <1>6, <1>7 DEF Mail
  <1>4. CASE j \in 1..Len(q)
    <2>1. p[j] = q[j] /\ Sent(a, q[j]) /\ (a.cur.active => Follows(a, q, f, j))
      BY <1>1, <1>4 DEF Mail
    <2>2. Sent(b, q[j]) /\ (InStream(a, q[j]) <=> InStream(b, q[j]))
      BY <2>1, <1>2, SentSame
    <2>3. /\ a.cur.dl \in Nat /\ q[j].count \in Nat /\ q[j].key \in Nat /\ Len(q) - j \in Nat
          /\ Setback(f) \in Nat /\ MaxCommands \in Nat
      BY <1>4, FollowsNat, ZenonT(30)
    <2>4. Len(p) - j = (Len(q) - j) + 1 /\ Len(p) - j \in Nat
      BY <1>1, <1>4
    <2>5. ASSUME a.cur.active, InStream(a, q[j])
          PROVE  /\ q[j].count < a.cur.dl + 1
                 /\ a.cur.dl + 1 <= q[j].count + (Len(p) - j) + 1 + Setback(f)
      <3>1. /\ q[j].count < a.cur.dl
            /\ a.cur.dl <= q[j].count + (Len(q) - j) + 1 + Setback(f)
        BY <2>1, <2>5 DEF Follows
      <3>2. a.cur.dl + 1 <= q[j].count + (Len(p) - j) + 1 + Setback(f)
        BY <3>1, <2>3, <2>4, OneMore, ZenonT(30)
      <3>3. q[j].count < a.cur.dl + 1
        BY <3>1, <2>3, <2>4, OneMore, ZenonT(30)
      <3> QED
        BY <3>2, <3>3
    <2>6. ASSUME a.cur.active, ~InStream(a, q[j]), q[j].key <= a.cur.gen
          PROVE  a.cur.dl + 1 <= MaxCommands + (Len(p) - j) + Setback(f)
      <3>1. a.cur.dl <= MaxCommands + (Len(q) - j) + Setback(f)
        BY <2>1, <2>6 DEF Follows
      <3> QED
        BY <3>1, <2>3, <2>4, OneMore, ZenonT(30)
    <2> QED
      BY <2>1, <2>2, <2>5, <2>6, <1>2, <1>3 DEF Follows
  <1>5. CASE j = Len(q) + 1
    <2>1. p[j] = m /\ Len(p) - j = 0
      BY <1>1, <1>5
    <2>2. /\ a.cur.dl \in Nat /\ a.cur.gen \in Nat /\ Setback(f) \in Nat
          /\ b.vectors = a.vectors
      BY <1>2, AmfFields, ContextFields, SetbackNat DEF SameButCounts
    <2>3. Sent(b, m) /\ InStream(b, m)
      BY <1>3, <2>2 DEF Sent, InStream
    <2>4. b.cur.active => /\ m.count < b.cur.dl
                          /\ b.cur.dl <= m.count + (Len(p) - j) + 1 + Setback(f)
      BY <2>1, <2>2, <1>2, <1>3
    <2> QED
      BY <2>1, <2>3, <2>4 DEF Follows
  <1> QED
    BY <1>1, <1>4, <1>5

\* The AMF once it has sent a security mode command with an algorithm.
Commanded(a, enc) == [a EXCEPT !.pend.enc = enc, !.pend.count = @ + 1]

\* What SendSmc leaves of the AMF; the algorithm stays the one chosen at first.
LEMMA CommandedSame ==
  ASSUME NEW a \in AmfType, NEW enc \in Ciphers, a.pend.count < MaxCommands
  PROVE  /\ Commanded(a, enc) \in AmfType /\ Commanded(a, enc).cur = a.cur
         /\ Commanded(a, enc).vectors = a.vectors /\ Commanded(a, enc).crossed = a.crossed
         /\ Commanded(a, enc).pend.stage = a.pend.stage
         /\ Commanded(a, enc).pend.gen = a.pend.gen
         /\ Commanded(a, enc).pend.ngksi = a.pend.ngksi
         /\ Commanded(a, enc).pend.enc = enc
         /\ Commanded(a, enc).pend.count = a.pend.count + 1
  <1>1. PICK c : c = [a.pend EXCEPT !.enc = enc, !.count = @ + 1]
    OBVIOUS
  <1>2. Commanded(a, enc) = [a EXCEPT !.pend = c]
    <2>1. PICK e : e = [a.pend EXCEPT !.enc = enc]
      BY ZenonT(30)
    <2>2. PICK d : d = [a EXCEPT !.pend = e]
      BY ZenonT(30)
    <2>3. d.pend = e /\ [a EXCEPT !.pend = c] = [d EXCEPT !.pend = c]
      BY <2>2, ZenonT(30) DEF AmfType
    <2>4. c = [e EXCEPT !.count = a.pend.count + 1]
      BY <1>1, <2>1, AmfFields DEF ProcedureType
    <2>5. Commanded(a, enc) = [d EXCEPT !.pend = [d.pend EXCEPT !.count = a.pend.count + 1]]
      BY <2>1, <2>2 DEF Commanded
    <2> QED
      BY <2>3, <2>4, <2>5
  <1>3. /\ c \in ProcedureType /\ c.stage = a.pend.stage /\ c.gen = a.pend.gen
        /\ c.ngksi = a.pend.ngksi /\ c.enc = enc /\ c.count = a.pend.count + 1
    <2>1. a.pend \in ProcedureType /\ a.pend.count + 1 \in 0..MaxCommands
      BY AmfFields, Numbers
    <2> QED
      BY <1>1, <2>1, ZenonT(30) DEF ProcedureType
  <1> QED
    BY <1>2, <1>3 DEF AmfType

\* The commands under way, and the one the UE has taken, are still the AMF's.
LEMMA CommandedKeeps ==
  ASSUME NEW a \in AmfType, NEW enc \in Ciphers, a.pend.count < MaxCommands,
         a.pend.count # 0 => enc = a.pend.enc, NEW m
  PROVE  /\ Command(a, m) => Command(Commanded(a, enc), m)
         /\ Sent(a, m) => Sent(Commanded(a, enc), m)
         /\ InStream(Commanded(a, enc), m) <=> InStream(a, m)
  <1>1. PICK b : b = Commanded(a, enc)
    OBVIOUS
  <1>2. /\ b.cur = a.cur /\ b.vectors = a.vectors /\ b.pend.stage = a.pend.stage
        /\ b.pend.gen = a.pend.gen /\ b.pend.ngksi = a.pend.ngksi /\ b.pend.enc = enc
        /\ b.pend.count = a.pend.count + 1
    BY <1>1, CommandedSame
  <1>3. a.pend.count \in Nat /\ b.pend.count > 0
    BY <1>2, AmfFields, Numbers
  <1>4. Command(a, m) => Command(b, m)
    BY <1>2, <1>3 DEF Command
  <1>5. InStream(b, m) <=> InStream(a, m)
    BY <1>2 DEF InStream
  <1>6. Sent(a, m) => Sent(b, m)
    BY <1>2, <1>4 DEF Sent
  <1> QED
    BY <1>1, <1>4, <1>5, <1>6

\* A command of the AMF's procedure goes to the end.
LEMMA MailCommand ==
  ASSUME NEW a \in AmfType, NEW q \in Seq(Messages), NEW f \in 0..MaxFaults,
         a.pend.stage = "smc", a.cur.gen < a.pend.gen, a.pend.gen <= a.vectors,
         a.pend.count < MaxCommands, NEW enc \in Ciphers,
         a.pend.count # 0 => enc = a.pend.enc,
         NEW m \in Messages, m.kind = "smc", m.key = a.pend.gen, m.enc = enc,
         m.ngksi = a.pend.ngksi, Mail(a, q, f)
  PROVE  Mail(Commanded(a, enc), Append(q, m), f)
  <1>6. PICK p : p = Append(q, m)
    BY ZenonT(30)
  <1>7. PICK b : b = Commanded(a, enc)
    OBVIOUS
  <1>1. /\ p \in Seq(Messages) /\ Len(p) = Len(q) + 1 /\ Len(q) \in Nat
        /\ p[Len(q) + 1] = m /\ \A i \in 1..Len(q) : p[i] = q[i]
    BY <1>6, AppendOf, SMTT(30)
  <1>2. /\ b \in AmfType /\ b.cur = a.cur /\ b.vectors = a.vectors
        /\ b.pend.stage = a.pend.stage /\ b.pend.gen = a.pend.gen
        /\ b.pend.ngksi = a.pend.ngksi /\ b.pend.enc = enc
        /\ b.pend.count = a.pend.count + 1
    BY <1>7, CommandedSame
  <1> SUFFICES ASSUME NEW j \in 1..Len(p)
               PROVE  Sent(b, p[j]) /\ (b.cur.active => Follows(b, p, f, j))
    BY <1>6, <1>7 DEF Mail
  <1>3. Follows(a, p, f, j) => Follows(b, p, f, j)
    BY <1>2 DEF Follows, InStream
  <1>4. CASE j \in 1..Len(q)
    <2>1. p[j] = q[j] /\ Sent(a, q[j]) /\ (a.cur.active => Follows(a, q, f, j))
      BY <1>1, <1>4 DEF Mail
    <2>2. Sent(b, q[j])
      BY <2>1, <1>7, CommandedKeeps
    <2>3. (Len(q) - j) + Setback(f) <= (Len(p) - j) + Setback(f)
      BY <1>1, <1>4, SetbackNat
    <2>4. NoNearer(q, f, j, p, f, j)
      BY <2>1, <2>3 DEF NoNearer
    <2>5. a.cur.active => Follows(a, p, f, j)
      BY <2>1, <2>4, <1>1, <1>4, FollowsToo
    <2> QED
      BY <2>1, <2>2, <2>5, <1>2, <1>3
  <1>5. CASE j = Len(q) + 1
    <2>1. p[j] = m
      BY <1>1, <1>5
    <2>2. /\ a.cur.gen \in Nat /\ a.pend.gen \in Nat /\ a.pend.count \in Nat
          /\ b.pend.count > 0 /\ m.key # 0 /\ ~(m.key <= a.cur.gen)
      <3>1. a.cur.gen \in Nat /\ a.pend.gen \in Nat /\ a.pend.count \in 0..MaxCommands
        BY <1>2, AmfFields, ContextFields, ZenonT(30)
      <3>2. a.pend.count \in Nat
        BY <3>1, Numbers
      <3> QED
        BY <3>1, <3>2, <1>2, SMTT(30)
    <2>3. Sent(b, m)
      BY <2>2, <1>2 DEF Sent, Command
    <2>4. Follows(b, p, f, j)
      BY <2>1, <2>2, <1>2 DEF Follows, InStream
    <2> QED
      BY <2>1, <2>3, <2>4
  <1> QED
    BY <1>1, <1>4, <1>5

-----------------------------------------------------------------------------
(* The link: what it loses, repeats and reorders *)

\* The AMF is ahead of the UE by no more than a queue and its faults allow.
Ahead(u, a, q, f) ==
    u.cur.dl <= a.cur.dl /\ a.cur.dl <= u.cur.dl + MaxCommands + Len(q) + Setback(f)

\* The numbers of Ahead.
LEMMA AheadNat ==
  ASSUME NEW u \in UeType, NEW a \in AmfType, NEW q \in Seq(Messages),
         NEW f \in 0..MaxFaults
  PROVE  /\ u.cur.dl \in Nat /\ a.cur.dl \in Nat /\ Len(q) \in Nat /\ Setback(f) \in Nat
         /\ MaxCommands \in Nat \ {0}
  BY UeFields, AmfFields, ContextFields, SetbackNat, Numbers

\* Moving the bound of Ahead.
LEMMA Wider ==
  ASSUME NEW x \in Nat, NEW y \in Nat, NEW c \in Nat, NEW l \in Nat, NEW s \in Nat,
         NEW k \in Nat, NEW t \in Nat, l + s <= k + t, x <= y + c + l + s
  PROVE  x <= y + c + k + t
  OBVIOUS

\* One message more on the way, counted or not.
LEMMA StillAhead ==
  ASSUME NEW x \in Nat, NEW d \in Nat, NEW e \in Nat, NEW c \in Nat, NEW l \in Nat,
         NEW k \in Nat, NEW t \in Nat, k = l + 1, e = d \/ e = d + 1,
         x <= d, d <= x + c + l + t
  PROVE  x <= e /\ e <= x + c + k + t
  OBVIOUS

\* Agreement does not depend on the queue but by that bound.
LEMMA AgreeToo ==
  ASSUME NEW u \in UeType, NEW a \in AmfType,
         NEW q \in Seq(Messages), NEW f \in 0..MaxFaults,
         NEW p \in Seq(Messages), NEW g \in 0..MaxFaults,
         Len(q) + Setback(f) <= Len(p) + Setback(g), Agree(u, a, q, f)
  PROVE  Agree(u, a, p, g)
  <1>1. /\ u.cur.dl \in Nat /\ a.cur.dl \in Nat /\ Len(q) \in Nat /\ Setback(f) \in Nat
        /\ Len(p) \in Nat /\ Setback(g) \in Nat /\ MaxCommands \in Nat
    BY AheadNat
  <1>2. Ahead(u, a, q, f) => Ahead(u, a, p, g)
    BY <1>1, Wider, ZenonT(30) DEF Ahead
  <1> QED
    BY <1>2 DEF Agree, Ahead

\* A message the UE sends may be lost: one fault less is left.
LEMMA FaultSpent ==
  ASSUME NEW u, NEW a, NEW q, NEW f, InStep(u, a, q, f), f > 0
  PROVE  InStep(u, a, q, f - 1)
  <1>1. Typed(u, a, q, f) /\ Mail(a, q, f) /\ (~a.crossed => Agree(u, a, q, f))
    BY DEF InStep
  <1>2. /\ u \in UeType /\ a \in AmfType /\ f \in 0..MaxFaults
        /\ q \in Seq(Messages) /\ Len(q) <= MaxInFlight
    BY <1>1 DEF Typed
  <1>3. /\ f - 1 \in 0..MaxFaults /\ Setback(f - 1) = Setback(f) + (MaxInFlight - 1)
        /\ Setback(f) \in Nat /\ MaxInFlight - 1 \in Nat /\ Len(q) \in Nat
    BY <1>2, SetbackGrows, SetbackNat, Numbers
  <1>4. Len(q) + Setback(f) <= Len(q) + Setback(f - 1)
    BY <1>3
  <1>5. Mail(a, q, f - 1)
    BY <1>1, <1>2, MailFault
  <1>6. ~a.crossed => Agree(u, a, q, f - 1)
    BY <1>1, <1>2, <1>3, <1>4, AgreeToo
  <1>7. Typed(u, a, q, f - 1)
    BY <1>2, <1>3 DEF Typed
  <1> QED
    BY <1>5, <1>6, <1>7 DEF InStep

\* The head of the queue is lost.
LEMMA HeadLost ==
  ASSUME NEW u, NEW a, NEW q, NEW f, InStep(u, a, q, f), f > 0, q # <<>>
  PROVE  InStep(u, a, Tail(q), f - 1)
  <1>0. PICK p : p = Tail(q)
    BY ZenonT(30)
  <1>1. Typed(u, a, q, f) /\ Mail(a, q, f) /\ (~a.crossed => Agree(u, a, q, f))
    BY DEF InStep
  <1>2. /\ u \in UeType /\ a \in AmfType /\ f \in 0..MaxFaults
        /\ q \in Seq(Messages) /\ Len(q) <= MaxInFlight
    BY <1>1 DEF Typed
  <1>3. /\ f - 1 \in 0..MaxFaults /\ Setback(f - 1) = Setback(f) + (MaxInFlight - 1)
        /\ Setback(f) \in Nat /\ MaxInFlight - 1 \in Nat \ {0} /\ MaxInFlight \in Nat
    BY <1>2, SetbackGrows, SetbackNat, Numbers
  <1>4. p \in Seq(Messages) /\ Len(p) = Len(q) - 1 /\ Len(q) \in Nat \ {0}
    BY <1>0, <1>2, TailOf
  <1>5. /\ Len(q) + Setback(f) <= Len(p) + Setback(f - 1)
        /\ Len(p) <= MaxInFlight
    BY <1>2, <1>3, <1>4, SMTT(30)
  <1>6. Mail(a, p, f - 1)
    <2>1. Mail(a, p, f)
      BY <1>0, <1>1, <1>2, MailTail
    <2> QED
      BY <2>1, <1>2, <1>4, MailFault
  <1>7. ~a.crossed => Agree(u, a, p, f - 1)
    BY <1>1, <1>2, <1>3, <1>4, <1>5, AgreeToo, SMTT(30)
  <1>8. Typed(u, a, p, f - 1)
    BY <1>2, <1>3, <1>4, <1>5 DEF Typed
  <1> QED
    BY <1>0, <1>6, <1>7, <1>8 DEF InStep

\* The head of the queue comes again, last.
LEMMA HeadCopied ==
  ASSUME NEW u, NEW a, NEW q, NEW f, InStep(u, a, q, f), f > 0, q # <<>>,
         Len(q) < MaxInFlight
  PROVE  InStep(u, a, Append(q, Head(q)), f - 1)
  <1>0. PICK p : p = Append(q, Head(q))
    BY ZenonT(30)
  <1>1. Typed(u, a, q, f) /\ Mail(a, q, f) /\ (~a.crossed => Agree(u, a, q, f))
    BY DEF InStep
  <1>2. /\ u \in UeType /\ a \in AmfType /\ f \in 0..MaxFaults /\ q \in Seq(Messages)
    BY <1>1 DEF Typed
  <1>3. /\ f - 1 \in 0..MaxFaults /\ Setback(f - 1) = Setback(f) + (MaxInFlight - 1)
        /\ Setback(f) \in Nat /\ MaxInFlight - 1 \in Nat \ {0} /\ MaxInFlight \in Nat
    BY <1>2, SetbackGrows, SetbackNat, Numbers
  <1>4. p \in Seq(Messages) /\ Len(p) = Len(q) + 1 /\ Len(q) \in Nat
    <2>1. Head(q) \in Messages
      BY <1>2, TailOf
    <2> QED
      BY <1>0, <1>2, <2>1, AppendOf
  <1>5. Len(q) + Setback(f) <= Len(p) + Setback(f - 1) /\ Len(p) <= MaxInFlight
    BY <1>3, <1>4, SMTT(30)
  <1>6. Mail(a, p, f - 1)
    BY <1>0, <1>1, <1>2, MailCopy
  <1>7. ~a.crossed => Agree(u, a, p, f - 1)
    BY <1>1, <1>2, <1>3, <1>4, <1>5, AgreeToo, SMTT(30)
  <1>8. Typed(u, a, p, f - 1)
    BY <1>2, <1>3, <1>4, <1>5 DEF Typed
  <1> QED
    BY <1>0, <1>6, <1>7, <1>8 DEF InStep

\* The first two messages change places.
LEMMA HeadsSwapped ==
  ASSUME NEW u, NEW a, NEW q, NEW f, InStep(u, a, q, f), f > 0, Len(q) > 1
  PROVE  InStep(u, a, [q EXCEPT ![1] = q[2], ![2] = q[1]], f - 1)
  <1>0. PICK p : p = [q EXCEPT ![1] = q[2], ![2] = q[1]]
    BY ZenonT(30)
  <1>1. Typed(u, a, q, f) /\ Mail(a, q, f) /\ (~a.crossed => Agree(u, a, q, f))
    BY DEF InStep
  <1>2. /\ u \in UeType /\ a \in AmfType /\ f \in 0..MaxFaults /\ q \in Seq(Messages)
        /\ Len(q) <= MaxInFlight
    BY <1>1 DEF Typed
  <1>3. /\ f - 1 \in 0..MaxFaults /\ Setback(f - 1) = Setback(f) + (MaxInFlight - 1)
        /\ Setback(f) \in Nat /\ MaxInFlight - 1 \in Nat \ {0} /\ MaxInFlight \in Nat
    BY <1>2, SetbackGrows, SetbackNat, Numbers
  <1>4. p \in Seq(Messages) /\ Len(p) = Len(q) /\ Len(q) \in Nat
    BY <1>0, <1>2, SwapOf
  <1>5. Len(q) + Setback(f) <= Len(p) + Setback(f - 1)
    BY <1>3, <1>4
  <1>6. Mail(a, p, f - 1)
    BY <1>0, <1>1, <1>2, MailSwap, ZenonT(30)
  <1>7. ~a.crossed => Agree(u, a, p, f - 1)
    BY <1>1, <1>2, <1>3, <1>4, <1>5, AgreeToo
  <1>8. Typed(u, a, p, f - 1)
    BY <1>2, <1>3, <1>4 DEF Typed
  <1> QED
    BY <1>0, <1>6, <1>7, <1>8 DEF InStep

-----------------------------------------------------------------------------
(* The AMF: what it starts and sends *)

\* A cleared UE and an AMF without a context are in step.
LEMMA Fresh ==
  ASSUME NEW v \in Vectors, NEW f \in 0..MaxFaults
  PROVE  InStep(Cleared, [cur |-> NoContext, pend |-> NoProcedure, vectors |-> v,
                          crossed |-> FALSE], <<>>, f)
  <1>1. PICK a : a = [cur |-> NoContext, pend |-> NoProcedure, vectors |-> v,
                      crossed |-> FALSE]
    BY ZenonT(30)
  <1>2. a.cur = NoContext /\ a.pend = NoProcedure /\ a.vectors = v /\ a.crossed = FALSE
    BY <1>1
  <1>3. a \in AmfType /\ Cleared \in UeType /\ v \in Nat
    BY <1>1, NothingTyped, Numbers DEF AmfType, Vectors
  <1>4. <<>> \in Seq(Messages) /\ Len(<<>>) = 0 /\ MaxInFlight \in Nat
    BY Numbers
  <1>5. Typed(Cleared, a, <<>>, f)
    BY <1>3, <1>4, SMTT(30) DEF Typed
  <1>6. UeKeys(Cleared)
    BY ZenonT(30) DEF UeKeys, Cleared, NoContext, NoMessage
  <1>7. AmfKeys(Cleared, a)
    BY <1>2, <1>3 DEF AmfKeys, Cleared, NoContext, NoProcedure
  <1>8. ~Cleared.cur.active /\ ~a.cur.active
    BY <1>2 DEF Cleared, NoContext
  <1>9. Mail(a, <<>>, f)
    BY <1>4 DEF Mail
  <1>10. Agree(Cleared, a, <<>>, f)
    BY <1>8 DEF Agree
  <1> QED
    BY <1>1, <1>5, <1>6, <1>7, <1>8, <1>9, <1>10 DEF InStep

\* The AMF once it has taken the next vector for a procedure.
Started(a, ngksi) ==
    [a EXCEPT !.vectors = @ + 1,
              !.pend = [NoProcedure EXCEPT !.stage = "auth",
                           !.gen = a.vectors + 1, !.ngksi = ngksi]]

\* The AMF starts a procedure.
LEMMA StartKeeps ==
  ASSUME NEW u, NEW a, NEW q, NEW f, InStep(u, a, q, f), a.pend = NoProcedure,
         a.vectors < MaxVectors, NEW k \in {0, 1} \ {a.cur.ngksi}
  PROVE  InStep(u, Started(a, k), q, f)
  <1>1. /\ Typed(u, a, q, f) /\ Mail(a, q, f) /\ (~a.crossed => Agree(u, a, q, f))
        /\ UeKeys(u) /\ AmfKeys(u, a) /\ (u.cur.active => Command(a, u.smc))
    BY DEF InStep
  <1>2. /\ u \in UeType /\ a \in AmfType /\ f \in 0..MaxFaults
        /\ q \in Seq(Messages) /\ Len(q) <= MaxInFlight
    BY <1>1 DEF Typed
  <1>3. /\ a.vectors \in Nat /\ u.sqn_ms \in Nat /\ a.cur.gen \in Nat
        /\ a.vectors + 1 \in Vectors /\ a.pend.stage = "none"
    BY <1>2, UeFields, AmfFields, ContextFields, Numbers, SMTT(30) DEF Vectors, NoProcedure
  <1>4. PICK b : b = Started(a, k)
    OBVIOUS
  <1>5. /\ b \in AmfType /\ b.cur = a.cur /\ b.vectors = a.vectors + 1
        /\ b.crossed = a.crossed
        /\ b.pend.stage = "auth" /\ b.pend.gen = a.vectors + 1 /\ b.pend.ngksi = k
        /\ b.pend.count = 0
    <2>1. PICK c : c = [NoProcedure EXCEPT !.stage = "auth",
                           !.gen = a.vectors + 1, !.ngksi = k]
      OBVIOUS
    <2>2. /\ c \in ProcedureType /\ c.stage = "auth" /\ c.gen = a.vectors + 1
          /\ c.ngksi = k /\ c.count = 0
      <3>1. 0 \in 0..MaxCommands /\ "NEA0" \in Ciphers /\ k \in {0, 1, 7}
        BY Numbers DEF Ciphers
      <3>2. c = [stage |-> "auth", gen |-> a.vectors + 1, ngksi |-> k, enc |-> "NEA0",
                 count |-> 0]
        BY <2>1, ZenonT(30) DEF NoProcedure
      <3> QED
        BY <3>1, <3>2, <1>3 DEF ProcedureType
    <2>3. b = [a EXCEPT !.vectors = @ + 1, !.pend = c]
      BY <1>4, <2>1, ZenonT(30) DEF Started
    <2> QED
      BY <1>2, <1>3, <2>2, <2>3, ZenonT(30) DEF AmfType
  <1>6. AmfKeys(u, b)
    BY <1>1, <1>3, <1>5, SMTT(30) DEF AmfKeys
  <1>7. ASSUME NEW m \in Messages
        PROVE  (Command(a, m) => Command(b, m)) /\ (Sent(a, m) => Sent(b, m))
    <2>1. m.key \in Nat /\ m.gen \in Nat
      BY MessageFields
    <2>2. Command(a, m) => Command(b, m)
      BY <2>1, <1>3, <1>5 DEF Command
    <2> QED
      BY <2>1, <2>2, <1>3, <1>5 DEF Sent
  <1>8. u.cur.active => Command(b, u.smc)
    <2>1. u.cur.active => u.smc \in Messages
      BY <1>1, <1>2, UeFields, SMTT(30) DEF UeKeys, NoMessage
    <2> QED
      BY <2>1, <1>1, <1>7, ZenonT(30)
  <1>9. Mail(b, q, f)
    <2> SUFFICES ASSUME NEW i \in 1..Len(q)
                 PROVE  Sent(b, q[i]) /\ (b.cur.active => Follows(b, q, f, i))
      BY DEF Mail
    <2>1. q[i] \in Messages
      BY <1>2, SMTT(30)
    <2>2. Sent(a, q[i]) /\ (a.cur.active => Follows(a, q, f, i))
      BY <1>1 DEF Mail
    <2>3. Follows(a, q, f, i) => Follows(b, q, f, i)
      BY <1>5, ZenonT(30) DEF Follows, InStream
    <2> QED
      BY <2>1, <2>2, <2>3, <1>5, <1>7
  <1>10. ~b.crossed => Agree(u, b, q, f)
    BY <1>1, <1>3, <1>5 DEF Agree
  <1>11. Typed(u, b, q, f)
    BY <1>2, <1>5, ZenonT(30) DEF Typed
  <1> QED
    BY <1>1, <1>4, <1>6, <1>8, <1>9, <1>10, <1>11, ZenonT(30) DEF InStep

\* A command a UE in use has taken is a message.
LEMMA TakenMessage ==
  ASSUME NEW u \in UeType, UeKeys(u), u.cur.active
  PROVE  u.smc \in Messages
  BY UeFields DEF UeKeys, NoMessage

\* The AMF sends a message of the context in use.
LEMMA SendKeeps ==
  ASSUME NEW u, NEW a, NEW q, NEW f, InStep(u, a, q, f), Len(q) < MaxInFlight,
         NEW m \in Messages, m.kind # "smc", m.key = a.cur.gen, m.count = a.cur.dl,
         m.gen <= a.vectors
  PROVE  InStep(u, Counted(a), Append(q, m), f)
  <1>1. /\ Typed(u, a, q, f) /\ Mail(a, q, f) /\ (~a.crossed => Agree(u, a, q, f))
        /\ UeKeys(u) /\ AmfKeys(u, a) /\ (u.cur.active => Command(a, u.smc))
    BY DEF InStep
  <1>2. /\ u \in UeType /\ a \in AmfType /\ f \in 0..MaxFaults
        /\ q \in Seq(Messages) /\ Len(q) <= MaxInFlight
    BY <1>1 DEF Typed
  <1>3. PICK b : b = Counted(a)
    OBVIOUS
  <1>4. PICK p : p = Append(q, m)
    BY ZenonT(30)
  <1>5. /\ b \in AmfType /\ SameButCounts(a, b) /\ b.cur.ul = a.cur.ul
        /\ (a.cur.active => b.cur.dl = a.cur.dl + 1) /\ (~a.cur.active => b = a)
    BY <1>2, <1>3, CountedSame
  <1>6. p \in Seq(Messages) /\ Len(p) = Len(q) + 1 /\ Len(q) \in Nat
    BY <1>2, <1>4, AppendOf
  <1>7. Mail(b, p, f)
    BY <1>1, <1>2, <1>3, <1>4, MailSend
  <1>8. Typed(u, b, p, f)
    BY <1>2, <1>5, <1>6, Numbers DEF Typed
  <1>9. AmfKeys(u, b)
    BY <1>1, <1>5, ZenonT(30) DEF AmfKeys, SameButCounts
  <1>10. u.cur.active => Command(b, u.smc)
    BY <1>1, <1>5, SentSame, ZenonT(30)
  <1>11. ASSUME ~b.crossed
         PROVE  Agree(u, b, p, f)
    <2>1. Agree(u, a, q, f)
      BY <1>1, <1>5, <1>11, ZenonT(30) DEF SameButCounts
    <2>2. ASSUME Ahead(u, a, q, f) PROVE Ahead(u, b, p, f)
      <3>1. /\ u.cur.dl \in Nat /\ a.cur.dl \in Nat /\ Setback(f) \in Nat
            /\ MaxCommands \in Nat
        BY <1>2, AheadNat
      <3>2. b.cur.dl = a.cur.dl \/ b.cur.dl = a.cur.dl + 1
        BY <1>5
      <3>3. b.cur.dl \in Nat /\ Len(p) \in Nat
        BY <1>5, <1>6, AmfFields, ContextFields
      <3>4. /\ u.cur.dl <= a.cur.dl
            /\ a.cur.dl <= u.cur.dl + MaxCommands + Len(q) + Setback(f)
        BY <2>2 DEF Ahead
      <3>5. /\ u.cur.dl <= b.cur.dl
            /\ b.cur.dl <= u.cur.dl + MaxCommands + Len(p) + Setback(f)
        <4>1. PICK x \in Nat, d \in Nat, e \in Nat : x = u.cur.dl /\ d = a.cur.dl /\ e = b.cur.dl
          BY <3>1, <3>3, ZenonT(30)
        <4>2. PICK l \in Nat, k \in Nat, t \in Nat : l = Len(q) /\ k = Len(p) /\ t = Setback(f)
          BY <3>1, <3>3, <1>6
        <4>3. k = l + 1 /\ (e = d \/ e = d + 1) /\ x <= d /\ d <= x + MaxCommands + l + t
          BY <3>2, <3>4, <1>6, <4>1, <4>2
        <4>4. x <= e /\ e <= x + MaxCommands + k + t
          BY <3>1, <4>3, StillAhead, ZenonT(120)
        <4> QED
          BY <4>1, <4>2, <4>4
      <3> QED
        BY <3>5 DEF Ahead
    <2> QED
      BY <2>1, <2>2, <1>5, ZenonT(30) DEF Agree, Ahead, SameButCounts
  <1> QED
    BY <1>1, <1>3, <1>4, <1>7, <1>8, <1>9, <1>10, <1>11, ZenonT(30) DEF InStep

\* The AMF sends a security mode command.
LEMMA CommandKeeps ==
  ASSUME NEW u, NEW a, NEW q, NEW f, InStep(u, a, q, f), Len(q) < MaxInFlight,
         a.pend.stage = "smc", a.pend.count < MaxCommands, NEW enc \in Ciphers,
         a.pend.count # 0 => enc = a.pend.enc
  PROVE  InStep(u, Commanded(a, enc),
                Append(q, [kind |-> "smc", key |-> a.pend.gen, count |-> a.pend.count,
                           enc |-> enc, gen |-> a.pend.gen, ngksi |-> a.pend.ngksi]), f)
  <1>1. /\ Typed(u, a, q, f) /\ Mail(a, q, f) /\ (~a.crossed => Agree(u, a, q, f))
        /\ UeKeys(u) /\ AmfKeys(u, a) /\ (u.cur.active => Command(a, u.smc))
    BY DEF InStep
  <1>2. /\ u \in UeType /\ a \in AmfType /\ f \in 0..MaxFaults
        /\ q \in Seq(Messages) /\ Len(q) <= MaxInFlight
    BY <1>1 DEF Typed
  <1>3. PICK b : b = Commanded(a, enc)
    OBVIOUS
  <1>4. PICK m : m = [kind |-> "smc", key |-> a.pend.gen, count |-> a.pend.count,
                      enc |-> enc, gen |-> a.pend.gen, ngksi |-> a.pend.ngksi]
    BY ZenonT(30)
  <1>5. PICK p : p = Append(q, m)
    BY ZenonT(30)
  <1>6. /\ b \in AmfType /\ b.cur = a.cur /\ b.vectors = a.vectors
        /\ b.crossed = a.crossed /\ b.pend.stage = a.pend.stage
        /\ b.pend.gen = a.pend.gen /\ b.pend.ngksi = a.pend.ngksi
    BY <1>2, <1>3, CommandedSame, ZenonT(30)
  <1>7. /\ m \in Messages /\ m.kind = "smc" /\ m.key = a.pend.gen /\ m.enc = enc
        /\ m.ngksi = a.pend.ngksi
    <2>1. a.pend.gen \in Vectors /\ a.pend.ngksi \in {0, 1, 7} /\ a.pend.count \in Nat
      BY <1>2, AmfFields, Numbers
    <2> QED
      BY <1>4, <2>1, ZenonT(30) DEF Messages
  <1>8. p \in Seq(Messages) /\ Len(p) = Len(q) + 1 /\ Len(q) \in Nat
    BY <1>2, <1>5, <1>7, AppendOf, ZenonT(30)
  <1>9. a.pend.gen = a.vectors /\ a.cur.gen < a.pend.gen /\ a.vectors \in Nat
    BY <1>1, <1>2, AmfFields, ZenonT(30) DEF AmfKeys
  <1>10. Mail(b, p, f)
    BY <1>1, <1>2, <1>3, <1>5, <1>7, <1>9, MailCommand, SMTT(30)
  <1>11. Typed(u, b, p, f)
    BY <1>2, <1>6, <1>8, Numbers, SMTT(30) DEF Typed
  <1>12. AmfKeys(u, b)
    BY <1>1, <1>6, ZenonT(30) DEF AmfKeys
  <1>13. u.cur.active => Command(b, u.smc)
    BY <1>1, <1>2, <1>3, CommandedKeeps
  <1>14. Len(q) + Setback(f) <= Len(p) + Setback(f)
    BY <1>2, <1>8, SetbackNat
  <1>15. ~b.crossed => Agree(u, b, p, f)
    <2>1. ~a.crossed => Agree(u, a, p, f)
      BY <1>1, <1>2, <1>8, <1>14, AgreeToo, ZenonT(30)
    <2> QED
      BY <2>1, <1>6, ZenonT(30) DEF Agree
  <1> QED
    BY <1>1, <1>3, <1>4, <1>5, <1>10, <1>11, <1>12, <1>13, <1>15, ZenonT(30) DEF InStep

-----------------------------------------------------------------------------
(* The UE: what it takes from the queue *)

\* What the head of the queue must not leave behind: a COUNT the UE has yet to see.
Seen(u, a, m) ==
    ~a.crossed /\ u.cur.active /\ u.cur.gen = a.cur.gen /\ InStream(a, m)
        => m.count <= u.cur.dl

\* A UE that uses the AMF's keys has an AMF that uses them.
LEMMA InUse ==
  ASSUME NEW u \in UeType, NEW a \in AmfType, UeKeys(u), AmfKeys(u, a), u.cur.active,
         u.cur.gen = a.cur.gen
  PROVE  a.cur.active
  BY DEF UeKeys, AmfKeys, NoContext

\* The bound of Ahead, when the head has been seen.
LEMMA SeenBound ==
  ASSUME NEW d \in Nat, NEW x \in Nat, NEW n \in Nat, NEW c \in Nat \ {0},
         NEW l \in Nat \ {0}, NEW t \in Nat
  PROVE  /\ d <= n + (l - 1) + 1 + t /\ n <= x => d <= x + c + (l - 1) + t
         /\ d <= c + (l - 1) + t => d <= x + c + (l - 1) + t
  BY SMTT(30)

\* The AMF is no further ahead than what is left in the queue allows.
LEMMA AheadOfTail ==
  ASSUME NEW u, NEW a, NEW q, NEW f, InStep(u, a, q, f), q # <<>>,
         Seen(u, a, Head(q)), ~a.crossed, u.cur.active, u.cur.gen = a.cur.gen
  PROVE  Ahead(u, a, Tail(q), f)
  <1>1. /\ Typed(u, a, q, f) /\ Mail(a, q, f) /\ Agree(u, a, q, f)
        /\ UeKeys(u) /\ AmfKeys(u, a)
    BY ZenonT(30) DEF InStep
  <1>2. /\ u \in UeType /\ a \in AmfType /\ f \in 0..MaxFaults /\ q \in Seq(Messages)
    BY <1>1 DEF Typed
  <1>3. PICK m : m = Head(q)
    OBVIOUS
  <1>4. PICK l : l = Len(q)
    OBVIOUS
  <1>5. /\ m = q[1] /\ m \in Messages /\ 1 \in 1..Len(q) /\ l \in Nat \ {0}
        /\ Len(Tail(q)) = l - 1
    BY <1>2, <1>3, <1>4, TailOf, ZenonT(30)
  <1>6. a.cur.active
    BY <1>1, <1>2, InUse
  <1>7. Sent(a, m) /\ Follows(a, q, f, 1)
    BY <1>1, <1>5, <1>6, ZenonT(30) DEF Mail
  <1>8. u.cur.dl <= a.cur.dl
    BY <1>1, ZenonT(30) DEF Agree
  <1>9. /\ u.cur.dl \in Nat /\ a.cur.dl \in Nat /\ Setback(f) \in Nat /\ m.count \in Nat
        /\ MaxCommands \in Nat \ {0} /\ m.key \in Nat /\ a.cur.gen \in Nat
    BY <1>2, <1>5, AheadNat, MessageFields, AmfFields, ContextFields
  <1>10. CASE InStream(a, m)
    <2>1. a.cur.dl <= m.count + (l - 1) + 1 + Setback(f) /\ m.count <= u.cur.dl
      BY <1>3, <1>4, <1>5, <1>7, <1>10 DEF Follows, Seen
    <2>2. a.cur.dl <= u.cur.dl + MaxCommands + (l - 1) + Setback(f)
      BY <2>1, <1>5, <1>9, SeenBound, ZenonT(30)
    <2> QED
      BY <2>2, <1>5, <1>8, ZenonT(30) DEF Ahead
  <1>11. CASE ~InStream(a, m) /\ m.key <= a.cur.gen
    <2>1. a.cur.dl <= MaxCommands + (l - 1) + Setback(f)
      BY <1>4, <1>5, <1>7, <1>11 DEF Follows
    <2>2. a.cur.dl <= u.cur.dl + MaxCommands + (l - 1) + Setback(f)
      BY <2>1, <1>5, <1>9, SeenBound, ZenonT(30)
    <2> QED
      BY <2>2, <1>5, <1>8, ZenonT(30) DEF Ahead
  <1>12. CASE ~(m.key <= a.cur.gen)
    <2>1. m.key > a.cur.gen
      BY <1>9, <1>12, SMTT(30)
    <2>2. a.pend.stage = "smc"
      BY <1>7, <1>12, <2>1, ZenonT(30) DEF Sent, Command
    <2>3. u.sqn_ms = a.vectors /\ a.cur.gen < a.vectors /\ u.cur.gen = u.sqn_ms
      BY <1>1, <2>2 DEF AmfKeys, UeKeys
    <2> QED
      BY <2>3, <1>9
  <1> QED
    BY <1>10, <1>11, <1>12, ZenonT(30)

\* The UE is done with the head of the queue.
LEMMA HeadTaken ==
  ASSUME NEW u, NEW a, NEW q, NEW f, InStep(u, a, q, f), q # <<>>, Seen(u, a, Head(q))
  PROVE  InStep(u, a, Tail(q), f)
  <1>0. PICK p : p = Tail(q)
    BY ZenonT(30)
  <1>1. Typed(u, a, q, f) /\ Mail(a, q, f) /\ (~a.crossed => Agree(u, a, q, f))
    BY DEF InStep
  <1>2. /\ u \in UeType /\ a \in AmfType /\ f \in 0..MaxFaults
        /\ q \in Seq(Messages) /\ Len(q) <= MaxInFlight
    BY <1>1 DEF Typed
  <1>3. p \in Seq(Messages) /\ Len(p) = Len(q) - 1 /\ Len(q) \in Nat
    BY <1>0, <1>2, TailOf
  <1>4. Typed(u, a, p, f)
    BY <1>2, <1>3, Numbers DEF Typed
  <1>5. Mail(a, p, f)
    BY <1>0, <1>1, <1>2, MailTail
  <1>6. ~a.crossed /\ u.cur.active /\ u.cur.gen = a.cur.gen => Ahead(u, a, p, f)
    BY <1>0, AheadOfTail, ZenonT(30)
  <1>7. ~a.crossed => Agree(u, a, p, f)
    BY <1>1, <1>6, ZenonT(30) DEF Agree, Ahead
  <1> QED
    BY <1>0, <1>4, <1>5, <1>7 DEF InStep

\* A UE with another downlink COUNT.
AtCount(u, n) == [u EXCEPT !.cur = [u.cur EXCEPT !.dl = n]]

\* A UE that differs in COUNTs only.
SameUe(u, v) ==
    /\ v.cur.active = u.cur.active /\ v.cur.gen = u.cur.gen /\ v.cur.enc = u.cur.enc
    /\ v.cur.ngksi = u.cur.ngksi
    /\ v.non = u.non /\ v.sqn_ms = u.sqn_ms /\ v.smc = u.smc /\ v.taken = u.taken

\* Nothing else has changed in it.
LEMMA CountSet ==
  ASSUME NEW u \in UeType, NEW n \in Nat
  PROVE  /\ AtCount(u, n) \in UeType /\ SameUe(u, AtCount(u, n))
         /\ AtCount(u, n).cur.dl = n /\ AtCount(u, n).cur.ul = u.cur.ul
  <1>0. PICK v : v = AtCount(u, n)
    OBVIOUS
  <1>1. PICK c : c = [u.cur EXCEPT !.dl = n]
    BY ZenonT(30)
  <1>2. /\ c \in ContextType /\ c.dl = n /\ c.ul = u.cur.ul
        /\ c.active = u.cur.active /\ c.gen = u.cur.gen /\ c.enc = u.cur.enc
        /\ c.ngksi = u.cur.ngksi
    BY <1>1, UeFields DEF ContextType
  <1>3. v = [u EXCEPT !.cur = c]
    BY <1>0, <1>1 DEF AtCount
  <1>4. /\ v \in UeType /\ v.cur = c
        /\ v.non = u.non /\ v.sqn_ms = u.sqn_ms /\ v.smc = u.smc /\ v.taken = u.taken
    BY <1>2, <1>3 DEF UeType
  <1> QED
    BY <1>0, <1>2, <1>4 DEF SameUe

\* The bound of Ahead, when the head has been accepted.
LEMMA VerifiedBound ==
  ASSUME NEW d \in Nat, NEW n \in Nat, NEW c \in Nat \ {0}, NEW l \in Nat \ {0},
         NEW t \in Nat, n < d, d <= n + (l - 1) + 1 + t
  PROVE  n <= d /\ d <= n + c + l + t
  OBVIOUS

\* The COUNT of a message on its way is less than the SQN's values ahead.
LEMMA NoWrap ==
  ASSUME NEW n \in Nat, NEW d \in Nat, NEW x \in Nat, NEW l \in Nat, NEW t \in Nat,
         n < d, d <= x + MaxCommands + l + t, l <= MaxInFlight,
         t <= MaxFaults * (MaxInFlight - 1)
  PROVE  n < x + SqnMod
  <1>1. PICK k : k = MaxFaults * (MaxInFlight - 1)
    OBVIOUS
  <1>2. k \in Nat
    BY <1>1, Numbers, Product
  <1>3. /\ MaxCommands \in Nat /\ MaxInFlight \in Nat /\ SqnMod \in Nat
        /\ MaxCommands + MaxInFlight + k <= SqnMod
    BY <1>1, Numbers, ZenonT(30)
  <1> QED
    BY <1>1, <1>2, <1>3

\* A COUNT that verifies is the AMF's.
LEMMA Verified ==
  ASSUME NEW u, NEW a, NEW q, NEW f, InStep(u, a, q, f), q # <<>>, Head(q).kind # "smc",
         u.cur.active, u.cur.gen = Head(q).key
  PROVE  InStep(AtCount(u, Head(q).count), a, q, f)
  <1>1. /\ Typed(u, a, q, f) /\ Mail(a, q, f) /\ (~a.crossed => Agree(u, a, q, f))
        /\ UeKeys(u) /\ AmfKeys(u, a) /\ Command(a, u.smc)
    BY ZenonT(30) DEF InStep
  <1>2. /\ u \in UeType /\ a \in AmfType /\ f \in 0..MaxFaults
        /\ q \in Seq(Messages) /\ Len(q) <= MaxInFlight
    BY <1>1 DEF Typed
  <1>3. PICK m : m = Head(q)
    OBVIOUS
  <1>4. PICK l : l = Len(q)
    OBVIOUS
  <1>5. m = q[1] /\ m \in Messages /\ 1 \in 1..Len(q) /\ l \in Nat \ {0}
    BY <1>2, <1>3, <1>4, TailOf, ZenonT(120)
  <1>6. Sent(a, m) /\ (a.cur.active => Follows(a, q, f, 1))
    BY <1>1, <1>5 DEF Mail
  <1>7. /\ m.count \in Nat /\ m.key \in Nat /\ a.cur.gen \in Nat /\ u.sqn_ms \in Nat
        /\ a.cur.dl \in Nat /\ Setback(f) \in Nat /\ MaxCommands \in Nat \ {0}
    BY <1>2, <1>5, AheadNat, MessageFields, UeFields, AmfFields, ContextFields, ZenonT(30)
  <1>8. u.cur.gen = a.cur.gen /\ m.key = a.cur.gen /\ u.sqn_ms = a.cur.gen
    <2>1. m.key <= a.cur.gen
      BY <1>3, <1>6, ZenonT(30) DEF Sent
    <2>2. m.key = u.sqn_ms /\ a.cur.gen <= u.sqn_ms
      BY <1>1, <1>3 DEF UeKeys, AmfKeys
    <2> QED
      BY <2>1, <2>2, <1>3, <1>7
  <1>9. InStream(a, m)
    BY <1>3, <1>8, ZenonT(30) DEF InStream
  <1>10. a.cur.active
    BY <1>1, <1>2, <1>8, InUse, ZenonT(30)
  <1>11. m.count < a.cur.dl /\ a.cur.dl <= m.count + (l - 1) + 1 + Setback(f)
    BY <1>4, <1>5, <1>6, <1>9, <1>10 DEF Follows
  <1>12. PICK v : v = AtCount(u, m.count)
    OBVIOUS
  <1>13. /\ v \in UeType /\ SameUe(u, v) /\ v.cur.dl = m.count /\ v.cur.ul = u.cur.ul
    BY <1>2, <1>7, <1>12, CountSet, ZenonT(30)
  <1>14. UeKeys(v) /\ AmfKeys(v, a) /\ Typed(v, a, q, f)
    <2>1. UeKeys(v)
      BY <1>1, <1>13, ZenonT(30) DEF UeKeys, SameUe
    <2>2. AmfKeys(v, a)
      BY <1>1, <1>13, ZenonT(30) DEF AmfKeys, SameUe
    <2> QED
      BY <2>1, <2>2, <1>2, <1>13, ZenonT(30) DEF Typed
  <1>15. ~(a.pend.stage = "smc" /\ u.taken = a.pend.gen)
    <2>1. a.pend.stage = "smc" => u.sqn_ms = a.vectors /\ a.cur.gen < a.vectors
      BY <1>1, ZenonT(30) DEF AmfKeys
    <2> QED
      BY <2>1, <1>7, <1>8
  <1>16. v.cur.dl <= a.cur.dl /\ a.cur.dl <= v.cur.dl + MaxCommands + l + Setback(f)
    <2>1. m.count <= a.cur.dl /\ a.cur.dl <= m.count + MaxCommands + l + Setback(f)
      BY <1>5, <1>7, <1>11, VerifiedBound, ZenonT(30)
    <2> QED
      BY <2>1, <1>13
  <1>17. ~a.crossed => Agree(v, a, q, f)
    BY <1>1, <1>4, <1>13, <1>15, <1>16, ZenonT(30) DEF Agree, SameUe
  <1> QED
    BY <1>1, <1>3, <1>12, <1>13, <1>14, <1>17, ZenonT(30) DEF InStep, SameUe

\* A message of the context in use whose COUNT does not verify is an old one.
LEMMA Unverified ==
  ASSUME NEW u, NEW a, NEW q, NEW f, InStep(u, a, q, f), q # <<>>,
         ~MacVerifies(u.cur, Estimate(u.cur.dl, Head(q).count % SqnMod), Head(q))
  PROVE  Seen(u, a, Head(q))
  <1>0. SUFFICES ASSUME ~a.crossed, u.cur.active, u.cur.gen = a.cur.gen,
                        InStream(a, Head(q))
                 PROVE  Head(q).count <= u.cur.dl
    BY ZenonT(30) DEF Seen
  <1>1. /\ Typed(u, a, q, f) /\ Mail(a, q, f) /\ Agree(u, a, q, f)
        /\ UeKeys(u) /\ AmfKeys(u, a)
    BY <1>0 DEF InStep
  <1>2. /\ u \in UeType /\ a \in AmfType /\ f \in 0..MaxFaults
        /\ q \in Seq(Messages) /\ Len(q) <= MaxInFlight
    BY <1>1 DEF Typed
  <1>3. PICK m : m = Head(q)
    OBVIOUS
  <1>4. PICK l : l = Len(q)
    BY ZenonT(30)
  <1>5. m = q[1] /\ m \in Messages /\ 1 \in 1..Len(q) /\ l \in Nat \ {0}
    BY <1>2, <1>3, <1>4, TailOf, ZenonT(120)
  <1>6. a.cur.active
    BY <1>0, <1>1, <1>2, InUse, ZenonT(30)
  <1>7. m.count < a.cur.dl
    BY <1>0, <1>1, <1>3, <1>5, <1>6, ZenonT(30) DEF Mail, Follows
  <1>8. /\ u.cur.dl \in Nat /\ a.cur.dl \in Nat /\ Setback(f) \in Nat /\ m.count \in Nat
        /\ Setback(f) <= MaxFaults * (MaxInFlight - 1)
    BY <1>2, <1>5, AheadNat, MessageFields, SetbackNat, ZenonT(30)
  <1>9. a.cur.dl <= u.cur.dl + MaxCommands + l + Setback(f)
    BY <1>0, <1>1, <1>4 DEF Agree
  <1>10. l <= MaxInFlight
    BY <1>2, <1>4
  <1>11. m.count < u.cur.dl + SqnMod
    BY <1>5, <1>7, <1>8, <1>9, <1>10, NoWrap, ZenonT(30)
  <1>12. u.cur.gen = m.key
    BY <1>0, <1>3 DEF InStream
  <1>13. m.count # Estimate(u.cur.dl, m.count % SqnMod)
    BY <1>3, <1>12, ZenonT(30) DEF MacVerifies
  <1>14. ~(u.cur.dl <= m.count)
    BY <1>8, <1>11, <1>13, EstimateRight, ZenonT(30)
  <1> QED
    BY <1>3, <1>8, <1>14

-----------------------------------------------------------------------------
(* The UE: what it answers *)

\* The UE once engine_send_nas_uplink has counted a message.
Answered(u) == IF u.cur.active THEN [u EXCEPT !.cur.ul = @ + 1] ELSE u

\* What it sends.
Uplink(kind, u, gen) ==
    [kind |-> kind, gen |-> gen, key |-> IF u.cur.active THEN u.cur.gen ELSE 0,
     count |-> u.cur.ul]

\* An answer leaves all but the uplink COUNT.
LEMMA AnsweredSame ==
  ASSUME NEW u \in UeType
  PROVE  /\ Answered(u) \in UeType /\ SameUe(u, Answered(u))
         /\ Answered(u).cur.dl = u.cur.dl
         /\ u.cur.active => Answered(u).cur.ul = u.cur.ul + 1
         /\ Answered(u).cur.ul >= u.cur.ul
  <1>0. u.cur \in ContextType /\ u.cur.ul \in Nat
    BY UeFields, ContextFields
  <1>1. CASE ~u.cur.active
    BY <1>0, <1>1 DEF Answered, SameUe
  <1>2. CASE u.cur.active
    <2>1. PICK c : c = [u.cur EXCEPT !.ul = @ + 1]
      BY ZenonT(30)
    <2>2. Answered(u) = [u EXCEPT !.cur = c]
      BY <1>2, <2>1 DEF Answered
    <2>3. /\ c \in ContextType /\ c.dl = u.cur.dl /\ c.ul = u.cur.ul + 1
          /\ c.active = u.cur.active /\ c.gen = u.cur.gen /\ c.enc = u.cur.enc
          /\ c.ngksi = u.cur.ngksi
      BY <2>1, <1>0 DEF ContextType
    <2>4. /\ Answered(u) \in UeType /\ Answered(u).cur = c
          /\ Answered(u).non = u.non /\ Answered(u).sqn_ms = u.sqn_ms
          /\ Answered(u).smc = u.smc /\ Answered(u).taken = u.taken
      BY <2>2, <2>3 DEF UeType
    <2> QED
      BY <1>0, <2>3, <2>4 DEF SameUe
  <1> QED
    BY <1>1, <1>2, UeFields, ContextFields

\* The message counts, whether it gets through or not.
LEMMA AnswerKeeps ==
  ASSUME NEW u, NEW a, NEW q, NEW f, InStep(u, a, q, f)
  PROVE  InStep(Answered(u), a, q, f)
  <1>1. /\ Typed(u, a, q, f) /\ (~a.crossed => Agree(u, a, q, f))
        /\ UeKeys(u) /\ AmfKeys(u, a) /\ (u.cur.active => Command(a, u.smc))
    BY DEF InStep
  <1>2. /\ u \in UeType /\ a \in AmfType
    BY <1>1 DEF Typed
  <1>3. PICK v : v = Answered(u)
    OBVIOUS
  <1>4. v \in UeType /\ SameUe(u, v) /\ v.cur.dl = u.cur.dl /\ v.cur.ul >= u.cur.ul
    BY <1>2, <1>3, AnsweredSame, ZenonT(30)
  <1>5. Typed(v, a, q, f)
    BY <1>1, <1>4, ZenonT(30) DEF Typed
  <1>6. UeKeys(v)
    BY <1>1, <1>4, ZenonT(30) DEF UeKeys, SameUe
  <1>7. AmfKeys(v, a)
    BY <1>1, <1>4, ZenonT(30) DEF AmfKeys, SameUe
  <1>8. v.cur.active => Command(a, v.smc)
    BY <1>1, <1>4, ZenonT(30) DEF SameUe
  <1>9. u.cur.ul >= a.cur.ul => v.cur.ul >= a.cur.ul
    <2>1. u.cur.ul \in Nat /\ v.cur.ul \in Nat /\ a.cur.ul \in Nat
      BY <1>2, <1>4, UeFields, AmfFields, ContextFields, ZenonT(30)
    <2> QED
      BY <2>1, <1>4
  <1>10. ~a.crossed => Agree(v, a, q, f)
    BY <1>1, <1>4, <1>9, ZenonT(30) DEF Agree, SameUe
  <1> QED
    BY <1>3, <1>5, <1>6, <1>7, <1>8, <1>10 DEF InStep

\* An AMF in the security mode stage of its procedure.
Challenged(a) == [a EXCEPT !.pend.stage = "smc"]

\* The answer to the challenge of the AMF's procedure.
LEMMA ChallengeKeeps ==
  ASSUME NEW u, NEW a, NEW q, NEW f, InStep(u, a, q, f), a.pend.stage = "auth",
         a.pend.gen = u.sqn_ms
  PROVE  InStep(u, Challenged(a), q, f)
  <1>1. /\ Typed(u, a, q, f) /\ Mail(a, q, f) /\ (~a.crossed => Agree(u, a, q, f))
        /\ UeKeys(u) /\ AmfKeys(u, a) /\ (u.cur.active => Command(a, u.smc))
    BY ZenonT(30) DEF InStep
  <1>2. /\ u \in UeType /\ a \in AmfType /\ q \in Seq(Messages)
    BY <1>1 DEF Typed
  <1>3. PICK b : b = Challenged(a)
    OBVIOUS
  <1>4. /\ b \in AmfType /\ b.cur = a.cur /\ b.vectors = a.vectors
        /\ b.crossed = a.crossed /\ b.pend.stage = "smc" /\ b.pend.gen = a.pend.gen
        /\ b.pend.ngksi = a.pend.ngksi
    <2>1. PICK c : c = [a.pend EXCEPT !.stage = "smc"]
      BY ZenonT(30)
    <2>2. /\ c \in ProcedureType /\ c.stage = "smc" /\ c.gen = a.pend.gen
          /\ c.ngksi = a.pend.ngksi
      <3>1. a.pend \in ProcedureType
        BY <1>2, AmfFields
      <3> QED
        BY <2>1, <3>1 DEF ProcedureType
    <2>3. b = [a EXCEPT !.pend = c]
      BY <1>3, <2>1, ZenonT(30) DEF Challenged
    <2> QED
      BY <1>2, <2>2, <2>3 DEF AmfType
  <1>5. AmfKeys(u, b)
    BY <1>1, <1>4, ZenonT(30) DEF AmfKeys
  <1>6. ASSUME NEW m
        PROVE  (Command(a, m) => Command(b, m)) /\ (Sent(a, m) => Sent(b, m))
    <2>1. Command(a, m) => Command(b, m)
      BY <1>4, ZenonT(30) DEF Command
    <2> QED
      BY <2>1, <1>4, ZenonT(30) DEF Sent
  <1>7. Mail(b, q, f)
    <2> SUFFICES ASSUME NEW i \in 1..Len(q)
                 PROVE  Sent(b, q[i]) /\ (b.cur.active => Follows(b, q, f, i))
      BY ZenonT(30) DEF Mail
    <2>1. Sent(a, q[i]) /\ (a.cur.active => Follows(a, q, f, i))
      BY <1>1 DEF Mail
    <2>2. Follows(a, q, f, i) => Follows(b, q, f, i)
      BY <1>4, ZenonT(30) DEF Follows, InStream
    <2> QED
      BY <2>1, <2>2, <1>4, <1>6
  <1>8. ~b.crossed => Agree(u, b, q, f)
    BY <1>1, <1>4 DEF Agree
  <1>9. Typed(u, b, q, f)
    BY <1>1, <1>4, ZenonT(30) DEF Typed
  <1> QED
    BY <1>1, <1>3, <1>5, <1>6, <1>7, <1>8, <1>9, ZenonT(30) DEF InStep

\* An AMF that has taken the context of its procedure into use.
Completed(a, n, x) ==
    [a EXCEPT !.cur = [active |-> TRUE, gen |-> a.pend.gen, enc |-> a.pend.enc,
                       kenc |-> a.pend.enc, ngksi |-> a.pend.ngksi, ul |-> n,
                       dl |-> a.pend.count],
              !.pend = NoProcedure, !.crossed = x]

\* What the AMF is then.
Ended(a, b, n, x) ==
    /\ b.cur.active = TRUE /\ b.cur.gen = a.pend.gen
    /\ b.cur.enc = a.pend.enc /\ b.cur.ngksi = a.pend.ngksi /\ b.cur.ul = n
    /\ b.cur.dl = a.pend.count /\ b.pend = NoProcedure /\ b.vectors = a.vectors
    /\ b.crossed = x

\* It is that.
LEMMA CompletedIs ==
  ASSUME NEW a \in AmfType, NEW n \in Nat, NEW x \in BOOLEAN
  PROVE  Completed(a, n, x) \in AmfType /\ Ended(a, Completed(a, n, x), n, x)
  <1>0. PICK b : b = Completed(a, n, x)
    OBVIOUS
  <1>1. PICK c : c = [active |-> TRUE, gen |-> a.pend.gen, enc |-> a.pend.enc,
                      kenc |-> a.pend.enc, ngksi |-> a.pend.ngksi, ul |-> n,
                      dl |-> a.pend.count]
    BY ZenonT(30)
  <1>2. /\ a.pend.gen \in Vectors /\ a.pend.enc \in Ciphers /\ a.pend.ngksi \in {0, 1, 7}
        /\ a.pend.count \in Nat
    BY AmfFields, Numbers, SMTT(30)
  <1>3. c \in ContextType
    BY <1>1, <1>2 DEF ContextType
  <1>4. b = [a EXCEPT !.cur = c, !.pend = NoProcedure, !.crossed = x]
    BY <1>0, <1>1 DEF Completed
  <1>5. /\ b \in AmfType /\ b.cur = c /\ b.pend = NoProcedure /\ b.vectors = a.vectors
        /\ b.crossed = x
    BY <1>3, <1>4, NothingTyped, ZenonT(30) DEF AmfType
  <1> QED
    BY <1>0, <1>1, <1>5 DEF Ended

\* No message on its way uses the new context yet, but for its commands.
LEMMA CompletedMail ==
  ASSUME NEW a \in AmfType, NEW b \in AmfType, NEW q \in Seq(Messages),
         NEW f \in 0..MaxFaults, Mail(a, q, f),
         a.pend.stage = "smc", a.pend.gen = a.vectors, a.cur.gen < a.vectors,
         b.cur.gen = a.pend.gen, b.cur.enc = a.pend.enc, b.cur.ngksi = a.pend.ngksi,
         b.cur.dl = a.pend.count, b.vectors = a.vectors
  PROVE  Mail(b, q, f) /\ \A m \in Messages : Command(a, m) => Command(b, m)
  <1>1. a.vectors \in Nat /\ a.cur.gen \in Nat
    BY AmfFields, ContextFields
  <1>2. ASSUME NEW m \in Messages
        PROVE  (Command(a, m) => Command(b, m)) /\ (Sent(a, m) => Sent(b, m))
    <2>1. m.key \in Nat
      BY MessageFields, ZenonT(30)
    <2>2. Command(a, m) => Command(b, m)
      BY <2>1, <1>1 DEF Command
    <2>3. m.key <= a.cur.gen => m.key <= b.cur.gen
      BY <2>1, <1>1
    <2> QED
      BY <2>2, <2>3 DEF Sent
  <1>3. ASSUME NEW i \in 1..Len(q)
        PROVE  Sent(b, q[i]) /\ Follows(b, q, f, i)
    <2>1. q[i] \in Messages /\ Sent(a, q[i])
      BY DEF Mail
    <2>2. Sent(b, q[i])
      BY <2>1, <1>2
    <2>3. ~InStream(b, q[i])
      <3>1. q[i].key \in Nat
        BY <2>1, MessageFields
      <3> QED
        BY <3>1, <2>1, <1>1 DEF Sent, InStream
    <2>4. b.cur.dl <= MaxCommands + (Len(q) - i) + Setback(f)
      <3>1. PICK k \in Nat : k = Len(q) - i
        BY FollowsNat, ZenonT(30)
      <3>2. a.pend.count \in 0..MaxCommands /\ MaxCommands \in Nat /\ Setback(f) \in Nat
        BY AmfFields, SetbackNat, Numbers
      <3>3. a.pend.count <= MaxCommands + k + Setback(f)
        BY <3>2, SMTT(30)
      <3> QED
        BY <3>1, <3>3
    <2> QED
      BY <2>2, <2>3, <2>4, ZenonT(30) DEF Follows
  <1> QED
    BY <1>2, <1>3 DEF Mail

\* The answer to a security mode command ends the AMF's procedure.
LEMMA CompleteKeeps ==
  ASSUME NEW v, NEW a, NEW q, NEW f, InStep(v, a, q, f), v.cur.active,
         a.pend.stage = "smc", a.pend.gen = v.cur.gen, NEW n \in Nat, v.cur.ul = n,
         NEW x \in BOOLEAN, ~x => ~a.crossed /\ v.taken = a.pend.gen
  PROVE  InStep(v, Completed(a, n, x), q, f)
  <1>1. /\ Typed(v, a, q, f) /\ Mail(a, q, f) /\ (~a.crossed => Agree(v, a, q, f))
        /\ UeKeys(v) /\ AmfKeys(v, a) /\ Command(a, v.smc)
    BY ZenonT(30) DEF InStep
  <1>2. v \in UeType /\ a \in AmfType /\ q \in Seq(Messages) /\ f \in 0..MaxFaults
    BY <1>1 DEF Typed
  <1>3. PICK b : b = Completed(a, n, x)
    OBVIOUS
  <1>4. /\ b \in AmfType /\ b.cur.active = TRUE /\ b.cur.gen = a.pend.gen
        /\ b.cur.enc = a.pend.enc /\ b.cur.ngksi = a.pend.ngksi /\ b.cur.ul = n
        /\ b.cur.dl = a.pend.count /\ b.pend = NoProcedure /\ b.vectors = a.vectors
        /\ b.crossed = x
    <2>1. b \in AmfType /\ Ended(a, b, n, x)
      BY <1>2, <1>3, CompletedIs, ZenonT(30)
    <2> QED
      BY <2>1 DEF Ended
  <1>5. /\ a.pend.gen = a.vectors /\ a.cur.gen < a.vectors /\ v.sqn_ms = a.vectors
    BY <1>1, ZenonT(30) DEF AmfKeys
  <1>6. Mail(b, q, f) /\ \A m \in Messages : Command(a, m) => Command(b, m)
    BY <1>1, <1>2, <1>4, <1>5, CompletedMail, ZenonT(30)
  <1>7. Command(b, v.smc)
    BY <1>1, <1>2, <1>6, TakenMessage, ZenonT(30)
  <1>8. a.vectors \in Nat /\ a.cur.gen \in Nat /\ a.vectors # 0
    <2>1. a.vectors \in Nat /\ a.cur.gen \in Nat
      BY <1>2, AmfFields, ContextFields, ZenonT(30)
    <2> QED
      BY <2>1, <1>5
  <1>9. AmfKeys(v, b)
    <2>1. NoProcedure.stage = "none"
      BY ZenonT(30) DEF NoProcedure
    <2> QED
      BY <2>1, <1>4, <1>5, <1>8 DEF AmfKeys
  <1>10. ASSUME ~x PROVE Agree(v, b, q, f)
    <2>1. v.taken = a.pend.gen /\ Agree(v, a, q, f)
      BY <1>1, <1>10, ZenonT(30)
    <2>2. v.cur.dl = 0
      BY <2>1, <1>5, <1>8, SMTT(30) DEF Agree
    <2>3. 0 <= a.pend.count /\ a.pend.count <= 0 + MaxCommands + Len(q) + Setback(f)
      <3>1. /\ a.pend.count \in 0..MaxCommands /\ MaxCommands \in Nat
            /\ Setback(f) \in Nat /\ Len(q) \in Nat
        BY <1>2, AmfFields, SetbackNat, Numbers
      <3> QED
        BY <3>1
    <2>4. v.cur.ul >= n
      <3>1. v.cur.ul \in Nat
        BY <1>2, UeFields, ContextFields, ZenonT(30)
      <3> QED
        BY <3>1
    <2> QED
      BY <2>1, <2>2, <2>3, <2>4, <1>4, ZenonT(30) DEF Agree
  <1>11. Typed(v, b, q, f)
    BY <1>1, <1>4 DEF Typed
  <1> QED
    BY <1>1, <1>3, <1>4, <1>6, <1>7, <1>9, <1>10, <1>11, ZenonT(30) DEF InStep

\* The AMF counts a message of the context in use.
LEMMA UplinkKeeps ==
  ASSUME NEW v, NEW a, NEW q, NEW f, InStep(v, a, q, f), a.cur.gen # 0,
         NEW n \in Nat, v.cur.ul = n
  PROVE  InStep(v, [a EXCEPT !.cur.ul = n], q, f)
  <1>1. /\ Typed(v, a, q, f) /\ Mail(a, q, f) /\ (~a.crossed => Agree(v, a, q, f))
        /\ UeKeys(v) /\ AmfKeys(v, a) /\ (v.cur.active => Command(a, v.smc))
    BY DEF InStep
  <1>2. v \in UeType /\ a \in AmfType /\ q \in Seq(Messages) /\ f \in 0..MaxFaults
    BY <1>1 DEF Typed
  <1>3. PICK b : b = [a EXCEPT !.cur.ul = n]
    BY ZenonT(30)
  <1>4. b \in AmfType /\ SameButCounts(a, b) /\ b.cur.dl = a.cur.dl /\ b.cur.ul = n
    <2>1. PICK c : c = [a.cur EXCEPT !.ul = n]
      BY ZenonT(30)
    <2>2. /\ c \in ContextType /\ c.dl = a.cur.dl /\ c.ul = n
          /\ c.active = a.cur.active /\ c.gen = a.cur.gen /\ c.enc = a.cur.enc
          /\ c.ngksi = a.cur.ngksi
      BY <1>2, <2>1, AmfFields, ZenonT(30) DEF ContextType
    <2>3. b = [a EXCEPT !.cur = c]
      BY <1>3, <2>1
    <2>4. /\ b \in AmfType /\ b.cur = c /\ b.pend = a.pend /\ b.vectors = a.vectors
          /\ b.crossed = a.crossed
      BY <1>2, <2>2, <2>3 DEF AmfType
    <2> QED
      BY <2>2, <2>4 DEF SameButCounts
  <1>5. a.cur.active
    BY <1>1, NoContextIs, ZenonT(30) DEF AmfKeys
  <1>6. AmfKeys(v, b)
    BY <1>1, <1>4, <1>5, ZenonT(30) DEF AmfKeys, SameButCounts
  <1>7. v.cur.active => Command(b, v.smc)
    BY <1>1, <1>4, SentSame, ZenonT(30)
  <1>8. Mail(b, q, f)
    <2> SUFFICES ASSUME NEW i \in 1..Len(q)
                 PROVE  Sent(b, q[i]) /\ (b.cur.active => Follows(b, q, f, i))
      BY ZenonT(30) DEF Mail
    <2>1. Sent(a, q[i]) /\ (a.cur.active => Follows(a, q, f, i))
      BY <1>1, ZenonT(30) DEF Mail
    <2>2. Sent(b, q[i])
      BY <2>1, <1>4, SentSame, ZenonT(30)
    <2>3. Follows(a, q, f, i) => Follows(b, q, f, i)
      BY <1>4, ZenonT(30) DEF Follows, InStream, SameButCounts
    <2> QED
      BY <2>1, <2>2, <2>3, <1>4 DEF SameButCounts
  <1>9. ~b.crossed => Agree(v, b, q, f)
    <2>1. v.cur.ul >= n
      BY <1>2, UeFields, ContextFields
    <2> QED
      BY <2>1, <1>1, <1>4, ZenonT(30) DEF Agree, SameButCounts
  <1>10. Typed(v, b, q, f)
    BY <1>1, <1>4, ZenonT(30) DEF Typed
  <1> QED
    BY <1>1, <1>3, <1>6, <1>7, <1>8, <1>9, <1>10, ZenonT(30) DEF InStep

\* What an answer says is true of the UE that sends it.
Truthful(kind, u, gen) ==
    /\ kind = "authResponse" => gen = u.sqn_ms
    /\ kind = "smcComplete" => u.cur.active /\ gen = u.taken

\* The AMF gets the message.
LEMMA ReceiveKeeps ==
  ASSUME NEW u, NEW a, NEW q, NEW f, InStep(u, a, q, f), NEW kind, NEW gen,
         Truthful(kind, u, gen)
  PROVE  InStep(Answered(u), AmfReceive(a, Uplink(kind, u, gen)), q, f)
  <1>1. PICK w : w = Uplink(kind, u, gen)
    BY ZenonT(30)
  <1>2. /\ w.kind = kind /\ w.gen = gen /\ w.count = u.cur.ul
        /\ w.key = IF u.cur.active THEN u.cur.gen ELSE 0
    BY <1>1 DEF Uplink
  <1>3. PICK v : v = Answered(u)
    OBVIOUS
  <1>4. InStep(v, a, q, f)
    BY <1>3, AnswerKeeps
  <1>5. u \in UeType /\ a \in AmfType
    BY ZenonT(30) DEF InStep, Typed
  <1>6. SameUe(u, v) /\ (u.cur.active => v.cur.ul = u.cur.ul + 1)
    BY <1>3, <1>5, AnsweredSame, ZenonT(30)
  <1>7. u.cur.ul \in Nat /\ u.cur.ul + 1 \in Nat /\ a.crossed \in BOOLEAN
    BY <1>5, UeFields, AmfFields, ContextFields, SMTT(30)
  <1>8. CASE w.kind = "authResponse" /\ a.pend.stage = "auth" /\ a.pend.gen = w.gen
    <2>1. AmfReceive(a, w) = Challenged(a)
      BY <1>8 DEF AmfReceive, Challenged
    <2>2. a.pend.gen = v.sqn_ms
      BY <1>2, <1>6, <1>8, ZenonT(30) DEF Truthful, SameUe
    <2> QED
      BY <2>1, <2>2, <1>1, <1>3, <1>4, <1>8, ChallengeKeeps
  <1>9. CASE w.kind = "smcComplete" /\ a.pend.stage = "smc" /\ a.pend.gen = w.key
    <2>1. PICK x : x = (a.crossed \/ w.gen # a.pend.gen)
      OBVIOUS
    <2>2. AmfReceive(a, w) = Completed(a, u.cur.ul + 1, x)
      BY <1>2, <1>9, <2>1, ZenonT(30) DEF AmfReceive, Completed
    <2>3. u.cur.active /\ w.gen = u.taken
      BY <1>2, <1>9 DEF Truthful
    <2>4. v.cur.active /\ a.pend.gen = v.cur.gen /\ v.taken = w.gen /\ v.cur.ul = u.cur.ul + 1
      BY <2>3, <1>2, <1>6, <1>9, ZenonT(30) DEF SameUe
    <2>5. x \in BOOLEAN /\ (~x => ~a.crossed /\ v.taken = a.pend.gen)
      BY <2>1, <2>4, <1>7, ZenonT(30)
    <2> QED
      BY <2>2, <2>4, <2>5, <1>1, <1>3, <1>4, <1>7, <1>9, CompleteKeeps, ZenonT(30)
  <1>10. CASE /\ ~(w.kind = "authResponse" /\ a.pend.stage = "auth" /\ a.pend.gen = w.gen)
              /\ ~(w.kind = "smcComplete" /\ a.pend.stage = "smc" /\ a.pend.gen = w.key)
              /\ w.key # 0 /\ w.key = a.cur.gen /\ w.count >= a.cur.ul
    <2>1. AmfReceive(a, w) = [a EXCEPT !.cur.ul = u.cur.ul + 1]
      BY <1>2, <1>10, ZenonT(30) DEF AmfReceive
    <2>2. a.cur.gen # 0 /\ v.cur.ul = u.cur.ul + 1
      BY <1>2, <1>6, <1>10
    <2> QED
      BY <2>1, <2>2, <1>1, <1>3, <1>4, <1>7, UplinkKeeps
  <1>11. CASE /\ ~(w.kind = "authResponse" /\ a.pend.stage = "auth" /\ a.pend.gen = w.gen)
              /\ ~(w.kind = "smcComplete" /\ a.pend.stage = "smc" /\ a.pend.gen = w.key)
              /\ ~(w.key # 0 /\ w.key = a.cur.gen /\ w.count >= a.cur.ul)
    <2>1. AmfReceive(a, w) = a
      BY <1>11, ZenonT(30) DEF AmfReceive
    <2> QED
      BY <2>1, <1>1, <1>3, <1>4
  <1> QED
    BY <1>8, <1>9, <1>10, <1>11

-----------------------------------------------------------------------------
(* The UE: challenges and security mode commands *)

\* The UE once it has accepted a challenge: HandleAuthRequest.
Rekeyed(u, gen, ngksi) ==
    LET cur == [u.cur EXCEPT !.gen = gen, !.kenc = "NEA0"]
    IN  [u EXCEPT !.cur = cur, !.non = NonCurrent(cur, ngksi), !.sqn_ms = gen]

\* What has changed: the keys of the context in use, and the context to come.
NewKeys(u, v, gen) ==
    /\ v.cur.active = u.cur.active /\ v.cur.gen = gen /\ v.cur.enc = u.cur.enc
    /\ v.cur.ngksi = u.cur.ngksi /\ v.cur.ul = u.cur.ul /\ v.cur.dl = u.cur.dl
    /\ v.non.gen = gen /\ v.non.dl = 0
    /\ v.sqn_ms = gen /\ v.smc = u.smc /\ v.taken = u.taken

\* Nothing else has.
LEMMA RekeyedIs ==
  ASSUME NEW u \in UeType, NEW g \in Vectors, NEW k \in {0, 1, 7}
  PROVE  Rekeyed(u, g, k) \in UeType /\ NewKeys(u, Rekeyed(u, g, k), g)
  <1>1. PICK c : c = [u.cur EXCEPT !.gen = g, !.kenc = "NEA0"]
    OBVIOUS
  <1>2. PICK d : d = NonCurrent(c, k)
    OBVIOUS
  <1>3. PICK v : v = Rekeyed(u, g, k)
    OBVIOUS
  <1>4. v = [u EXCEPT !.cur = c, !.non = d, !.sqn_ms = g]
    BY <1>1, <1>2, <1>3 DEF Rekeyed
  <1>5. /\ c \in ContextType /\ c.active = u.cur.active /\ c.gen = g /\ c.enc = u.cur.enc
        /\ c.ngksi = u.cur.ngksi /\ c.ul = u.cur.ul /\ c.dl = u.cur.dl
    <2>1. u.cur \in ContextType
      BY UeFields
    <2> QED
      BY <1>1, <2>1, ZenonT(30) DEF ContextType, Ciphers
  <1>6. d \in ContextType /\ d.gen = g /\ d.dl = 0
    BY <1>2, <1>5, ZenonT(30) DEF NonCurrent, ContextType, Ciphers
  <1>7. /\ v \in UeType /\ v.cur = c /\ v.non = d /\ v.sqn_ms = g /\ v.smc = u.smc
        /\ v.taken = u.taken
    BY <1>4, <1>5, <1>6, ZenonT(30) DEF UeType
  <1> QED
    BY <1>3, <1>5, <1>6, <1>7 DEF NewKeys

\* A challenge no older than the last one accepted.
LEMMA RekeyKeeps ==
  ASSUME NEW u, NEW a, NEW q, NEW f, InStep(u, a, q, f), NEW g \in Vectors,
         NEW k \in {0, 1, 7}, u.sqn_ms <= g, g <= a.vectors
  PROVE  InStep(Rekeyed(u, g, k), a, q, f)
  <1>1. /\ Typed(u, a, q, f) /\ Mail(a, q, f) /\ (~a.crossed => Agree(u, a, q, f))
        /\ UeKeys(u) /\ AmfKeys(u, a) /\ (u.cur.active => Command(a, u.smc))
    BY DEF InStep
  <1>2. u \in UeType /\ a \in AmfType
    BY <1>1 DEF Typed
  <1>3. PICK v : v = Rekeyed(u, g, k)
    OBVIOUS
  <1>4. v \in UeType /\ NewKeys(u, v, g)
    BY <1>2, <1>3, RekeyedIs, ZenonT(30)
  <1>5. g \in Nat /\ u.sqn_ms \in Nat /\ a.vectors \in Nat /\ a.cur.gen \in Nat
    BY <1>2, UeFields, AmfFields, ContextFields, Numbers DEF Vectors
  <1>6. UeKeys(v)
    <2>0. u.cur.active => u.sqn_ms # 0
      BY <1>1, ZenonT(30) DEF UeKeys
    <2>1. u.cur.active => g # 0
      BY <2>0, <1>5, Rising, ZenonT(30)
    <2> QED
      BY <2>1, <1>1, <1>4, ZenonT(30) DEF UeKeys, NewKeys
  <1>7. AmfKeys(v, a)
    <2>0. a.cur.gen <= u.sqn_ms /\ (a.pend.stage = "smc" => u.sqn_ms = a.vectors)
      BY <1>1, ZenonT(30) DEF AmfKeys
    <2>1. a.cur.gen <= g
      BY <2>0, <1>5, Rising, ZenonT(30)
    <2>2. a.pend.stage = "smc" => g = a.vectors
      BY <2>0, <1>5, Rising, ZenonT(30)
    <2> QED
      BY <2>1, <2>2, <1>1, <1>4, ZenonT(30) DEF AmfKeys, NewKeys
  <1>8. Typed(v, a, q, f)
    BY <1>1, <1>4, ZenonT(30) DEF Typed
  <1>9. v.cur.gen = a.cur.gen => u.cur.gen = a.cur.gen
    <2>1. v.cur.gen = g /\ u.cur.gen = u.sqn_ms /\ a.cur.gen <= u.sqn_ms
      BY <1>1, <1>4, ZenonT(30) DEF NewKeys, UeKeys, AmfKeys
    <2> QED
      BY <2>1, <1>5, Rising, ZenonT(120)
  <1>10. ~a.crossed => Agree(v, a, q, f)
    BY <1>1, <1>4, <1>9, ZenonT(30) DEF Agree, NewKeys
  <1>11. v.cur.active => Command(a, v.smc)
    BY <1>1, <1>4, ZenonT(30) DEF NewKeys
  <1> QED
    BY <1>1, <1>3, <1>6, <1>7, <1>8, <1>10, <1>11, ZenonT(30) DEF InStep

\* The UE once it has taken a security mode command for a context c.
Taken(u, v, m) ==
    /\ v.cur.active = TRUE /\ v.cur.gen = m.key /\ v.cur.enc = m.enc
    /\ v.cur.ngksi = m.ngksi /\ v.sqn_ms = u.sqn_ms /\ v.smc = m /\ v.taken = m.key

\* A security mode command for the context in use: the COUNTs go on, or the
\* downlink starts over.
LEMMA SecuredIs ==
  ASSUME NEW c \in ContextType, NEW m \in Messages
  PROVE  LET d == Secured(c, m) IN
         /\ d \in ContextType /\ d.active = TRUE /\ d.gen = c.gen /\ d.enc = m.enc
         /\ d.ngksi = c.ngksi /\ d.ul = c.ul /\ d.dl \in {c.dl, 0}
  <1>1. m.enc \in Ciphers /\ c.dl \in Nat
    BY MessageFields, ContextFields
  <1>2. PICK n : n = IF SameOverflow(c, m) THEN c.dl ELSE 0
    OBVIOUS
  <1>3. n \in Nat /\ n \in {c.dl, 0}
    BY <1>1, <1>2
  <1>4. Secured(c, m) = [c EXCEPT !.active = TRUE, !.enc = m.enc, !.kenc = m.enc, !.dl = n]
    BY <1>2 DEF Secured
  <1> QED
    BY <1>1, <1>3, <1>4, ZenonT(30) DEF ContextType

\* The bound of Ahead, when a command has been taken.
LEMMA TakenBound ==
  ASSUME NEW d \in Nat, NEW x \in Nat, NEW c \in Nat, NEW l \in Nat \ {0}, NEW t \in Nat,
         d <= c + (l - 1) + t
  PROVE  d <= x + c + l + t
  OBVIOUS

\* The context a command was about is the one in use, or the one to come; the
\* COUNTs of the one in use go on, but that the downlink may start over.
TakenFor(u, v, m) ==
    \/ /\ u.cur.active /\ u.cur.ngksi = m.ngksi /\ u.cur.gen = m.key
       /\ v.cur.dl \in {u.cur.dl, 0} /\ v.cur.ul = u.cur.ul
    \/ ~(u.cur.active /\ u.cur.ngksi = m.ngksi) /\ v.cur.dl = 0

\* Agreement once a security mode command has been taken.
LEMMA TakenAgree ==
  ASSUME NEW u, NEW a, NEW q, NEW f, InStep(u, a, q, f), ~a.crossed, q # <<>>,
         NEW m \in Messages, m = Head(q), m.kind = "smc", m.key = u.sqn_ms,
         NEW v \in UeType, Taken(u, v, m), TakenFor(u, v, m)
  PROVE  Agree(v, a, q, f)
  <1>1. /\ Typed(u, a, q, f) /\ Mail(a, q, f) /\ Agree(u, a, q, f)
        /\ UeKeys(u) /\ AmfKeys(u, a) /\ (u.cur.active => Command(a, u.smc))
    BY ZenonT(30) DEF InStep
  <1>2. u \in UeType /\ a \in AmfType /\ q \in Seq(Messages) /\ f \in 0..MaxFaults
    BY <1>1, ZenonT(30) DEF Typed
  <1>3. PICK l : l = Len(q)
    OBVIOUS
  <1>4. m = q[1] /\ 1 \in 1..Len(q) /\ l \in Nat \ {0}
    BY <1>2, <1>3, TailOf, ZenonT(30)
  <1>5. Command(a, m) /\ (a.cur.active => Follows(a, q, f, 1))
    BY <1>1, <1>4, ZenonT(30) DEF Mail, Sent
  <1>6. /\ m.key \in Nat /\ a.cur.gen \in Nat /\ a.vectors \in Nat /\ u.cur.dl \in Nat
        /\ a.cur.dl \in Nat /\ v.cur.dl \in Nat /\ Setback(f) \in Nat /\ MaxCommands \in Nat
    BY <1>2, AheadNat, MessageFields, UeFields, AmfFields, ContextFields, ZenonT(30)
  <1>7. a.cur.gen <= m.key /\ m.key <= a.vectors /\ m.key # 0
    BY <1>1, <1>5, ZenonT(30) DEF AmfKeys, Command
  <1>8. m.key = a.cur.gen => m.ngksi = a.cur.ngksi
    BY <1>5, ZenonT(30) DEF Command
  <1>9. m.key # a.cur.gen =>
           a.pend.stage = "smc" /\ m.key = a.pend.gen /\ m.ngksi = a.pend.ngksi
    BY <1>5, <1>6, <1>7, SMTT(30) DEF Command
  <1>10. u.cur.active /\ u.taken = a.cur.gen => u.cur.ngksi = a.cur.ngksi
    BY <1>1, ZenonT(30) DEF UeKeys, Command
  <1>11. ASSUME a.pend.stage = "none", a.cur.active
         PROVE  v.taken = a.cur.gen /\ v.cur.ul >= a.cur.ul
    <2>1. m.key = a.cur.gen
      BY <1>9, <1>11, ZenonT(30)
    <2>2. u.cur.active /\ u.taken = a.cur.gen /\ u.cur.ul >= a.cur.ul
      BY <1>1, <1>11, ZenonT(30) DEF Agree, AmfKeys
    <2>3. u.cur.ngksi = m.ngksi
      BY <2>1, <2>2, <1>8, <1>10, ZenonT(30)
    <2> QED
      BY <2>1, <2>2, <2>3 DEF TakenFor, Taken
  <1>12. \/ v.taken = a.cur.gen
         \/ a.pend.stage = "smc" /\ v.taken = a.pend.gen /\ v.cur.dl = 0
    <2>1. CASE m.key = a.cur.gen
      BY <2>1, ZenonT(30) DEF Taken
    <2>2. CASE m.key # a.cur.gen
      <3>1. a.pend.stage = "smc" /\ m.key = a.pend.gen /\ m.ngksi = a.pend.ngksi
        BY <1>9, <2>2, ZenonT(30)
      <3>2. a.pend.ngksi # a.cur.ngksi
        BY <1>1, <3>1, ZenonT(30) DEF AmfKeys
      <3>3. u.cur.active /\ u.cur.ngksi = m.ngksi => u.cur.dl = 0
        BY <1>1, <1>10, <3>1, <3>2, ZenonT(30) DEF Agree
      <3>4. v.cur.dl = 0
        BY <3>3, ZenonT(30) DEF TakenFor
      <3> QED
        BY <3>1, <3>4, ZenonT(30) DEF Taken
    <2> QED
      BY <2>1, <2>2
  <1>13. ASSUME v.cur.gen = a.cur.gen
         PROVE  v.cur.dl <= a.cur.dl /\ a.cur.dl <= v.cur.dl + MaxCommands + l + Setback(f)
    <2>1. m.key = a.cur.gen
      BY <1>13, ZenonT(30) DEF Taken
    <2>2. a.cur.active
      BY <2>1, <1>1, <1>7, NoContextIs, ZenonT(30) DEF AmfKeys
    <2>3. a.cur.dl <= MaxCommands + (l - 1) + Setback(f)
      <3>1. ~InStream(a, m) /\ m.key <= a.cur.gen
        BY <2>1, <1>6 DEF InStream
      <3> QED
        BY <3>1, <2>2, <1>3, <1>4, <1>5, ZenonT(30) DEF Follows
    <2>4. a.cur.dl <= v.cur.dl + MaxCommands + l + Setback(f)
      BY <2>3, <1>4, <1>6, TakenBound, ZenonT(30)
    <2>5. u.cur.active /\ u.cur.gen = m.key => u.cur.dl <= a.cur.dl
      BY <2>1, <1>1, ZenonT(30) DEF Agree
    <2>6. 0 <= a.cur.dl
      BY <1>6
    <2>7. v.cur.dl <= a.cur.dl
      BY <2>5, <2>6, ZenonT(30) DEF TakenFor
    <2> QED
      BY <2>4, <2>7, ZenonT(30)
  <1> QED
    BY <1>3, <1>11, <1>12, <1>13, ZenonT(30) DEF Agree

\* A security mode command has been taken.
LEMMA TakenKeeps ==
  ASSUME NEW u, NEW a, NEW q, NEW f, InStep(u, a, q, f), q # <<>>,
         NEW m \in Messages, m = Head(q), m.kind = "smc", m.key = u.sqn_ms,
         NEW v \in UeType, Taken(u, v, m), TakenFor(u, v, m),
         v.non = u.non \/ v.non = NoContext
  PROVE  InStep(v, a, q, f)
  <1>1. /\ Typed(u, a, q, f) /\ Mail(a, q, f) /\ UeKeys(u) /\ AmfKeys(u, a)
    BY ZenonT(30) DEF InStep
  <1>2. q \in Seq(Messages)
    BY <1>1, ZenonT(30) DEF Typed
  <1>3. Command(a, m)
    <2>1. m = q[1] /\ 1 \in 1..Len(q)
      BY <1>2, TailOf, ZenonT(30)
    <2> QED
      BY <2>1, <1>1, ZenonT(30) DEF Mail, Sent
  <1>4. Typed(v, a, q, f)
    BY <1>1, ZenonT(30) DEF Typed
  <1>5. UeKeys(v)
    <2>1. v.non.active => v.non.gen = u.sqn_ms /\ v.non.dl = 0
      BY <1>1, NoContextIs, ZenonT(30) DEF UeKeys
    <2>2. m.key # 0
      BY <1>3, ZenonT(30) DEF Command
    <2> QED
      BY <2>1, <2>2, ZenonT(30) DEF UeKeys, Taken
  <1>6. AmfKeys(v, a)
    BY <1>1, ZenonT(30) DEF AmfKeys, Taken
  <1>7. Command(a, v.smc)
    BY <1>3, ZenonT(30) DEF Taken
  <1>8. ~a.crossed => Agree(v, a, q, f)
    BY TakenAgree
  <1> QED
    BY <1>1, <1>4, <1>5, <1>6, <1>7, <1>8, ZenonT(30) DEF InStep

-----------------------------------------------------------------------------
(* The steps *)

\* What is left of the bounds.
LEMMA AllowanceFields ==
  ASSUME NEW b \in Allowances
  PROVE  /\ b.faults \in 0..MaxFaults /\ b.sends \in 0..MaxSends
         /\ b.restarts \in 0..MaxRestarts
         /\ b.faults > 0 => [b EXCEPT !.faults = @ - 1] \in Allowances
                            /\ [b EXCEPT !.faults = @ - 1].faults = b.faults - 1
         /\ b.sends > 0 => [b EXCEPT !.sends = @ - 1] \in Allowances
                           /\ [b EXCEPT !.sends = @ - 1].faults = b.faults
         /\ b.restarts > 0 => [b EXCEPT !.restarts = @ - 1] \in Allowances
                              /\ [b EXCEPT !.restarts = @ - 1].faults = b.faults
  <1>1. MaxSends \in Nat /\ MaxFaults \in Nat /\ MaxRestarts \in Nat
    BY SecAssumption
  <1> QED
    BY <1>1 DEF Allowances

\* The UE sends: engine_send_nas_uplink.
LEMMA UplinkStep ==
  ASSUME NEW s, NEW q, NEW b \in Allowances, InStep(s, amf, q, b.faults),
         NEW kind, NEW gen, Truthful(kind, s, gen),
         engine_send_nas_uplink(kind, s, gen, b)
  PROVE  InStep(ue', amf', q, allowance'.faults) /\ allowance' \in Allowances
  <1>1. ue' = Answered(s)
    BY DEF engine_send_nas_uplink, Answered
  <1>2. CASE amf' = AmfReceive(amf, Uplink(kind, s, gen)) /\ allowance' = b
    BY <1>1, <1>2, ReceiveKeeps
  <1>3. CASE /\ b.faults > 0 /\ allowance' = [b EXCEPT !.faults = @ - 1] /\ amf' = amf
    <2>1. InStep(s, amf, q, b.faults - 1)
      BY <1>3, FaultSpent
    <2>2. InStep(Answered(s), amf, q, b.faults - 1)
      BY <2>1, AnswerKeeps
    <2>3. allowance' \in Allowances /\ allowance'.faults = b.faults - 1
      BY <1>3, AllowanceFields, ZenonT(30)
    <2> QED
      BY <1>1, <1>3, <2>2, <2>3
  <1> QED
    BY <1>2, <1>3 DEF engine_send_nas_uplink, Uplink

\* UeSend
LEMMA UeSendStep ==
  ASSUME SecInv, UeSend
  PROVE  SecInv'
  <1>1. PICK b : b = [allowance EXCEPT !.sends = @ - 1]
    BY ZenonT(30)
  <1>2. b \in Allowances /\ b.faults = allowance.faults
    BY <1>1, AllowanceFields, ZenonT(30) DEF SecInv, UeSend
  <1>3. InStep(ue, amf, dl, b.faults)
    BY <1>2 DEF SecInv
  <1>4. engine_send_nas_uplink("request", ue, 0, b) /\ dl' = dl
    BY <1>1 DEF UeSend
  <1>5. Truthful("request", ue, 0)
    BY ZenonT(30) DEF Truthful
  <1>6. InStep(ue', amf', dl, allowance'.faults) /\ allowance' \in Allowances
    BY <1>2, <1>3, <1>4, <1>5, UplinkStep
  <1> QED
    BY <1>4, <1>6 DEF SecInv

\* Lose, Copy and Reorder
LEMMA LinkStep ==
  ASSUME SecInv, Lose \/ Copy \/ Reorder
  PROVE  SecInv'
  <1>1. PICK f : f = allowance.faults
    OBVIOUS
  <1>2. /\ f > 0 /\ allowance' = [allowance EXCEPT !.faults = @ - 1]
        /\ ue' = ue /\ amf' = amf
    BY <1>1 DEF Lose, Copy, Reorder
  <1>3. allowance' \in Allowances /\ allowance'.faults = f - 1
    BY <1>1, <1>2, AllowanceFields, ZenonT(30) DEF SecInv
  <1>4. InStep(ue, amf, dl, f)
    BY <1>1 DEF SecInv
  <1>5. InStep(ue, amf, dl', f - 1)
    <2>1. CASE Lose
      BY <2>1, <1>2, <1>4, HeadLost DEF Lose
    <2>2. CASE Copy
      BY <2>2, <1>2, <1>4, HeadCopied DEF Copy
    <2>3. CASE Reorder
      BY <2>3, <1>2, <1>4, HeadsSwapped, ZenonT(30) DEF Reorder
    <2> QED
      BY <2>1, <2>2, <2>3
  <1> QED
    BY <1>2, <1>3, <1>5 DEF SecInv

\* StartAuthentication, SendSmc and Restart
LEMMA ProcedureStep ==
  ASSUME SecInv, StartAuthentication \/ SendSmc \/ Restart
  PROVE  SecInv'
  <1>1. InStep(ue, amf, dl, allowance.faults) /\ allowance \in Allowances
    BY ZenonT(30) DEF SecInv
  <1>2. CASE StartAuthentication
    <2>1. PICK k \in {0, 1} \ {amf.cur.ngksi} : amf' = Started(amf, k)
      BY <1>2, ZenonT(30) DEF StartAuthentication, Started
    <2>2. /\ amf.pend = NoProcedure /\ amf.vectors < MaxVectors
          /\ ue' = ue /\ dl' = dl /\ allowance' = allowance
      BY <1>2, ZenonT(30) DEF StartAuthentication
    <2>3. InStep(ue, Started(amf, k), dl, allowance.faults)
      BY <1>1, <2>2, StartKeeps, ZenonT(30)
    <2> QED
      BY <1>1, <2>1, <2>2, <2>3 DEF SecInv
  <1>3. CASE SendSmc
    <2>1. PICK enc \in IF amf.pend.count = 0 THEN Ciphers ELSE {amf.pend.enc} :
             /\ dl' = Append(dl, [kind |-> "smc", key |-> amf.pend.gen,
                                  count |-> amf.pend.count, enc |-> enc,
                                  gen |-> amf.pend.gen, ngksi |-> amf.pend.ngksi])
             /\ amf' = Commanded(amf, enc)
      BY <1>3, ZenonT(30) DEF SendSmc, Commanded
    <2>2. /\ amf.pend.stage = "smc" /\ Len(dl) < MaxInFlight
          /\ amf.pend.count < MaxCommands /\ ue' = ue /\ allowance' = allowance
      BY <1>3, ZenonT(30) DEF SendSmc
    <2>3. enc \in Ciphers /\ (amf.pend.count # 0 => enc = amf.pend.enc)
      <3>1. amf.pend.enc \in Ciphers
        BY <1>1, AmfFields, ZenonT(30) DEF InStep, Typed
      <3> QED
        BY <2>1, <3>1, ZenonT(30)
    <2>4. InStep(ue, amf', dl', allowance.faults)
      BY <1>1, <2>1, <2>2, <2>3, CommandKeeps, ZenonT(30)
    <2> QED
      BY <1>1, <2>2, <2>4 DEF SecInv
  <1>4. CASE Restart
    <2>1. /\ ue' = Cleared /\ dl' = <<>>
          /\ amf' = [cur |-> NoContext, pend |-> NoProcedure, vectors |-> amf.vectors,
                     crossed |-> FALSE]
      <3>1. amf \in AmfType
        BY <1>1 DEF InStep, Typed
      <3> QED
        BY <1>4, <3>1, ZenonT(30) DEF Restart, AmfType
    <2>2. allowance' \in Allowances /\ allowance'.faults \in 0..MaxFaults
      BY <1>1, <1>4, AllowanceFields, ZenonT(30) DEF Restart
    <2>3. amf.vectors \in Vectors
      BY <1>1, AmfFields, ZenonT(30) DEF InStep, Typed
    <2> QED
      BY <2>1, <2>2, <2>3, Fresh DEF SecInv
  <1> QED
    BY <1>2, <1>3, <1>4

\* A message under the context in use.
LEMMA ProtectedMessage ==
  ASSUME SecInv, NEW kind \in {"auth", "badAuth", "other"}, NEW gen \in Vectors,
         NEW k \in {0, 1, 7}, gen <= amf.vectors
  PROVE  LET m == Protected(kind, gen, k) IN
         /\ m \in Messages /\ m.kind # "smc" /\ m.key = amf.cur.gen
         /\ m.count = amf.cur.dl /\ m.gen <= amf.vectors
  <1>1. amf \in AmfType
    BY ZenonT(30) DEF SecInv, InStep, Typed
  <1>2. amf.cur.gen \in Vectors /\ amf.cur.dl \in Nat /\ amf.cur.enc \in Ciphers
    BY <1>1, AmfFields, ContextFields
  <1> QED
    BY <1>2 DEF Protected, Messages

\* SendAuth, SendBadAuth and SendOther
LEMMA MessageStep ==
  ASSUME SecInv, SendAuth \/ SendBadAuth \/ SendOther
  PROVE  SecInv'
  <1>1. InStep(ue, amf, dl, allowance.faults) /\ allowance \in Allowances
    BY DEF SecInv
  <1>2. amf \in AmfType /\ AmfKeys(ue, amf)
    BY <1>1 DEF InStep, Typed
  <1>3. amf.vectors \in Nat /\ amf.vectors \in Vectors /\ 0 \in Vectors
    BY <1>2, AmfFields, Numbers DEF Vectors
  <1>4. PICK m \in Messages : /\ m.kind # "smc" /\ m.key = amf.cur.gen
                              /\ m.count = amf.cur.dl /\ m.gen <= amf.vectors
                              /\ dl' = Append(dl, m)
    <2>1. CASE SendAuth
      <3>1. amf.pend.gen = amf.vectors /\ amf.pend.ngksi \in {0, 1, 7}
        BY <1>2, <2>1, AmfFields DEF AmfKeys, SendAuth
      <3>2. dl' = Append(dl, Protected("auth", amf.pend.gen, amf.pend.ngksi))
        BY <2>1, ZenonT(30) DEF SendAuth
      <3> QED
        BY <3>1, <3>2, <1>3, ProtectedMessage, SMTT(30)
    <2>2. CASE SendBadAuth
      <3>1. dl' = Append(dl, Protected("badAuth", 0, 7))
        BY <2>2 DEF SendBadAuth
      <3> QED
        BY <3>1, <1>3, ProtectedMessage
    <2>3. CASE SendOther
      <3>1. dl' = Append(dl, Protected("other", 0, 7))
        BY <2>3 DEF SendOther
      <3> QED
        BY <3>1, <1>3, ProtectedMessage
    <2> QED
      BY <2>1, <2>2, <2>3
  <1>5. ue' = ue /\ amf' = Counted(amf) /\ Len(dl) < MaxInFlight
    BY DEF SendAuth, SendBadAuth, SendOther, Room
  <1>6. InStep(ue', amf', dl', allowance.faults)
    BY <1>1, <1>4, <1>5, SendKeeps
  <1>7. CASE allowance' = allowance
    BY <1>1, <1>6, <1>7 DEF SecInv
  <1>8. CASE allowance.faults > 0 /\ allowance' = [allowance EXCEPT !.faults = @ - 1]
    <2>1. allowance' \in Allowances /\ allowance'.faults = allowance.faults - 1
      BY <1>1, <1>8, AllowanceFields, ZenonT(30)
    <2>2. InStep(ue', amf', dl', allowance.faults - 1)
      BY <1>6, <1>8, FaultSpent
    <2> QED
      BY <2>1, <2>2 DEF SecInv
  <1> QED
    BY <1>7, <1>8 DEF SendAuth, SendBadAuth, SendOther

\* HandlePlain, of a message that has left the queue
LEMMA PlainStep ==
  ASSUME NEW s, NEW q, allowance \in Allowances, InStep(s, amf, q, allowance.faults),
         NEW m \in Messages, m.kind # "smc", m.gen <= amf.vectors, HandlePlain(s, m)
  PROVE  InStep(ue', amf', q, allowance'.faults) /\ allowance' \in Allowances
  <1>1. m.kind \in {"auth", "badAuth", "other"} /\ m.gen \in Nat /\ m.gen \in Vectors
        /\ m.ngksi \in {0, 1, 7}
    BY MessageFields
  <1>2. CASE m.kind = "other"
    <2>1. engine_send_nas_uplink("answer", s, 0, allowance)
      BY <1>2 DEF HandlePlain, Send
    <2>2. Truthful("answer", s, 0)
      BY DEF Truthful
    <2> QED
      BY <2>1, <2>2, UplinkStep
  <1>3. CASE m.kind \in {"auth", "badAuth"}
    <2>0. HandleAuthRequest(s, m)
      BY <1>3, ZenonT(30) DEF HandlePlain
    <2>1. s \in UeType /\ s.sqn_ms \in Nat
      BY UeFields, ZenonT(30) DEF InStep, Typed
    <2>2. CASE m.kind = "badAuth" \/ m.gen < s.sqn_ms
      <3>1. engine_send_nas_uplink("authFailure", s, 0, allowance)
        BY <2>0, <2>2 DEF HandleAuthRequest, Send
      <3>2. Truthful("authFailure", s, 0)
        BY DEF Truthful
      <3> QED
        BY <3>1, <3>2, UplinkStep
    <2>3. CASE ~(m.kind = "badAuth" \/ m.gen < s.sqn_ms)
      <3>1. PICK v : v = Rekeyed(s, m.gen, m.ngksi)
        OBVIOUS
      <3>2. engine_send_nas_uplink("authResponse", v, m.gen, allowance)
        BY <2>0, <2>3, <3>1 DEF HandleAuthRequest, Send, Rekeyed
      <3>3. v.sqn_ms = m.gen
        BY <1>1, <2>1, <3>1, RekeyedIs, ZenonT(30) DEF NewKeys
      <3>4. Truthful("authResponse", v, m.gen)
        BY <3>3 DEF Truthful
      <3>5. InStep(v, amf, q, allowance.faults)
        <4>1. s.sqn_ms <= m.gen
          BY <1>1, <2>1, <2>3
        <4> QED
          BY <4>1, <1>1, <3>1, RekeyKeeps
      <3> QED
        BY <3>2, <3>4, <3>5, UplinkStep
    <2> QED
      BY <2>2, <2>3
  <1> QED
    BY <1>1, <1>2, <1>3

\* The UE once it has taken the context to come into use, as a command tells it.
NonTaken(u, m) == [TakeNon(u, m) EXCEPT !.smc = m, !.taken = m.key]

\* What has changed then.
LEMMA NonTakenIs ==
  ASSUME NEW u \in UeType, NEW m \in Messages, u.non.gen = m.key, u.non.dl = 0,
         u.non.ngksi = m.ngksi
  PROVE  /\ NonTaken(u, m) \in UeType /\ Taken(u, NonTaken(u, m), m)
         /\ NonTaken(u, m).cur.dl = 0 /\ NonTaken(u, m).non = NoContext
  <1>0. PICK v : v = NonTaken(u, m)
    OBVIOUS
  <1>1. PICK d : d = Secured(u.non, m)
    OBVIOUS
  <1>2. /\ d \in ContextType /\ d.active = TRUE /\ d.gen = m.key /\ d.enc = m.enc
        /\ d.ngksi = m.ngksi /\ d.dl = 0
    BY <1>1, UeFields, SecuredIs, ZenonT(30)
  <1>3. PICK c : c = [d EXCEPT !.ul = 0]
    BY ZenonT(30)
  <1>4. /\ c \in ContextType /\ c.active = TRUE /\ c.gen = m.key /\ c.enc = m.enc
        /\ c.ngksi = m.ngksi /\ c.dl = 0
    BY <1>2, <1>3 DEF ContextType
  <1>5. v = [cur |-> c, non |-> NoContext, sqn_ms |-> u.sqn_ms, smc |-> m, taken |-> m.key]
    BY <1>0, <1>1, <1>3, ZenonT(30) DEF NonTaken, TakeNon, UeType
  <1>6. m.key \in Vectors /\ NoContext \in ContextType /\ u.sqn_ms \in Vectors
    BY MessageFields, NothingTyped, UeFields, ZenonT(30)
  <1>7. v \in UeType
    BY <1>4, <1>5, <1>6, ZenonT(30) DEF UeType
  <1>8. v.cur = c /\ v.non = NoContext /\ v.sqn_ms = u.sqn_ms /\ v.smc = m /\ v.taken = m.key
    BY <1>5, ZenonT(30)
  <1> QED
    BY <1>0, <1>4, <1>7, <1>8, ZenonT(30) DEF Taken

\* The UE once a command has applied to the context in use.
CurTaken(u, m) ==
    [[u EXCEPT !.cur = Secured(u.cur, m)] EXCEPT !.smc = m, !.taken = m.key]

\* What has changed then.
LEMMA CurTakenIs ==
  ASSUME NEW u \in UeType, NEW m \in Messages, u.cur.gen = m.key, u.cur.ngksi = m.ngksi
  PROVE  /\ CurTaken(u, m) \in UeType /\ Taken(u, CurTaken(u, m), m)
         /\ CurTaken(u, m).non = u.non /\ CurTaken(u, m).cur.dl \in {u.cur.dl, 0}
         /\ CurTaken(u, m).cur.ul = u.cur.ul
  <1>0. PICK v : v = CurTaken(u, m)
    OBVIOUS
  <1>1. PICK d : d = Secured(u.cur, m)
    OBVIOUS
  <1>2. /\ d \in ContextType /\ d.active = TRUE /\ d.gen = m.key /\ d.enc = m.enc
        /\ d.ngksi = m.ngksi /\ d.dl \in {u.cur.dl, 0} /\ d.ul = u.cur.ul
    BY <1>1, UeFields, SecuredIs, ZenonT(30)
  <1>5. v = [cur |-> d, non |-> u.non, sqn_ms |-> u.sqn_ms, smc |-> m, taken |-> m.key]
    BY <1>0, <1>1, ZenonT(30) DEF CurTaken, UeType
  <1>6. m.key \in Vectors /\ u.non \in ContextType /\ u.sqn_ms \in Vectors
    BY MessageFields, UeFields, ZenonT(30)
  <1>7. v \in UeType
    BY <1>2, <1>5, <1>6, ZenonT(30) DEF UeType
  <1>8. v.cur = d /\ v.non = u.non /\ v.sqn_ms = u.sqn_ms /\ v.smc = m /\ v.taken = m.key
    BY <1>5, ZenonT(30)
  <1> QED
    BY <1>0, <1>2, <1>7, <1>8, ZenonT(30) DEF Taken

\* A command that is not repeated and verifies is for the keys of the UE.
LEMMA CommandTaken ==
  ASSUME NEW u, NEW a, NEW q, NEW f, InStep(u, a, q, f), q # <<>>,
         NEW m \in Messages, m = Head(q), m.kind = "smc",
         NEW t, t = Target(u, m.ngksi), t # "none",
         NEW c, c = (IF t = "cur" THEN u.cur ELSE u.non), c.gen = m.key
  PROVE  InStep(IF t = "cur" THEN CurTaken(u, m) ELSE NonTaken(u, m), a, q, f)
  <1>1. u \in UeType /\ UeKeys(u)
    BY ZenonT(30) DEF InStep, Typed
  <1>2. CASE t = "cur"
    <2>1. u.cur.active /\ u.cur.ngksi = m.ngksi /\ u.cur.gen = m.key
      BY <1>2, ZenonT(30) DEF Target
    <2>2. m.key = u.sqn_ms
      BY <1>1, <2>1 DEF UeKeys
    <2>3. PICK v : v = CurTaken(u, m)
      BY ZenonT(30)
    <2>4. /\ v \in UeType /\ Taken(u, v, m) /\ v.non = u.non
          /\ v.cur.dl \in {u.cur.dl, 0} /\ v.cur.ul = u.cur.ul
      BY <1>1, <2>1, <2>3, CurTakenIs, ZenonT(30)
    <2>5. TakenFor(u, v, m)
      BY <2>1, <2>4, ZenonT(30) DEF TakenFor
    <2>6. InStep(v, a, q, f)
      BY <2>2, <2>4, <2>5, TakenKeeps, ZenonT(30)
    <2> QED
      BY <1>2, <2>3, <2>6
  <1>3. CASE t # "cur"
    <2>1. u.non.active /\ u.non.ngksi = m.ngksi /\ u.non.gen = m.key
      BY <1>3, ZenonT(30) DEF Target
    <2>2. ~(u.cur.active /\ u.cur.ngksi = m.ngksi)
      BY <1>3 DEF Target
    <2>3. m.key = u.sqn_ms /\ u.non.dl = 0
      BY <1>1, <2>1, ZenonT(30) DEF UeKeys
    <2>4. PICK v : v = NonTaken(u, m)
      BY ZenonT(30)
    <2>5. v \in UeType /\ Taken(u, v, m) /\ v.cur.dl = 0 /\ v.non = NoContext
      BY <1>1, <2>1, <2>3, <2>4, NonTakenIs, ZenonT(30)
    <2>6. TakenFor(u, v, m)
      BY <2>2, <2>5, ZenonT(30) DEF TakenFor
    <2>7. InStep(v, a, q, f)
      BY <2>3, <2>5, <2>6, TakenKeeps, ZenonT(30)
    <2> QED
      BY <1>3, <2>4, <2>7, ZenonT(30)
  <1> QED
    BY <1>2, <1>3, ZenonT(30)

\* The UE is done with a security mode command.
LEMMA CommandDone ==
  ASSUME NEW u, NEW a, NEW q, NEW f, InStep(u, a, q, f), q # <<>>, Head(q).kind = "smc"
  PROVE  InStep(u, a, Tail(q), f)
  <1>1. Seen(u, a, Head(q))
    BY ZenonT(30) DEF Seen, InStream
  <1> QED
    BY <1>1, HeadTaken

\* HandleSmc
LEMMA CommandStep ==
  ASSUME SecInv, dl # <<>>, NEW m \in Messages, m = Head(dl), m.kind = "smc",
         HandleSmc(ue, m)
  PROVE  InStep(ue', amf', Tail(dl), allowance'.faults) /\ allowance' \in Allowances
  <1>1. InStep(ue, amf, dl, allowance.faults) /\ allowance \in Allowances
    BY DEF SecInv
  <1>2. PICK t : t = Target(ue, m.ngksi)
    OBVIOUS
  <1>3. PICK c : c = IF t = "cur" THEN ue.cur ELSE ue.non
    OBVIOUS
  <1>4. CASE t = "none" \/ ~(ue.smc = m \/ SameOverflow(c, m) \/ ZeroOverflow(c, m))
    <2>1. ue' = ue /\ amf' = amf /\ allowance' = allowance
      BY <1>2, <1>3, <1>4 DEF HandleSmc, Ignore
    <2>2. InStep(ue, amf, Tail(dl), allowance.faults)
      BY <1>1, CommandDone
    <2> QED
      BY <1>1, <2>1, <2>2, SMTT(30)
  <1>5. CASE t # "none" /\ ue.smc = m
    <2>1. ue \in UeType /\ UeKeys(ue)
      BY <1>1, ZenonT(30) DEF InStep, Typed
    <2>2. ue.cur.active /\ ue.taken = m.key
      BY <1>5, <2>1 DEF UeKeys, NoMessage
    <2>3. [ue EXCEPT !.smc = m, !.taken = m.key] = ue
      BY <1>5, <2>1, <2>2, ZenonT(30) DEF UeType
    <2>4. engine_send_nas_uplink("smcComplete", ue, m.key, allowance)
      BY <1>2, <1>3, <1>5, <2>3 DEF HandleSmc, Send
    <2>5. Truthful("smcComplete", ue, m.key)
      BY <2>2, ZenonT(30) DEF Truthful
    <2>6. InStep(ue, amf, Tail(dl), allowance.faults)
      BY <1>1, CommandDone
    <2> QED
      BY <1>1, <2>4, <2>5, <2>6, UplinkStep
  <1>6. CASE /\ t # "none" /\ ue.smc # m
             /\ SameOverflow(c, m) \/ ZeroOverflow(c, m)
    <2>1. c.gen = m.key
      BY <1>6 DEF SameOverflow, ZeroOverflow, MacVerifies
    <2>2. PICK v : v = IF t = "cur" THEN CurTaken(ue, m) ELSE NonTaken(ue, m)
      BY ZenonT(30)
    <2>3. InStep(v, amf, dl, allowance.faults)
      BY <1>1, <1>2, <1>3, <1>6, <2>1, <2>2, CommandTaken, ZenonT(30)
    <2>4. engine_send_nas_uplink("smcComplete", v, m.key, allowance)
      BY <1>2, <1>3, <1>6, <2>2, ZenonT(30) DEF HandleSmc, Send, CurTaken, NonTaken
    <2>5. v.cur.active /\ v.taken = m.key
      <3>1. ue \in UeType /\ UeKeys(ue)
        BY <1>1, ZenonT(30) DEF InStep, Typed
      <3>2. CASE t = "cur"
        <4>1. ue.cur.ngksi = m.ngksi /\ ue.cur.gen = m.key
          BY <1>2, <1>3, <2>1, <3>2 DEF Target
        <4> QED
          BY <2>2, <3>1, <3>2, <4>1, CurTakenIs, ZenonT(30) DEF Taken
      <3>3. CASE t # "cur"
        <4>1. ue.non.ngksi = m.ngksi /\ ue.non.gen = m.key /\ ue.non.dl = 0
          BY <1>2, <1>3, <1>6, <2>1, <3>1, <3>3, ZenonT(30) DEF Target, UeKeys
        <4> QED
          BY <2>2, <3>1, <3>3, <4>1, NonTakenIs, ZenonT(30) DEF Taken
      <3> QED
        BY <3>2, <3>3
    <2>6. Truthful("smcComplete", v, m.key)
      BY <2>5 DEF Truthful
    <2>7. InStep(v, amf, Tail(dl), allowance.faults)
      BY <2>3, CommandDone
    <2> QED
      BY <1>1, <2>4, <2>6, <2>7, UplinkStep, ZenonT(30)
  <1> QED
    BY <1>4, <1>5, <1>6

\* UeReceive
LEMMA UeReceiveStep ==
  ASSUME SecInv, UeReceive
  PROVE  SecInv'
  <1>1. InStep(ue, amf, dl, allowance.faults) /\ allowance \in Allowances
    BY DEF SecInv
  <1>2. dl # <<>> /\ dl' = Tail(dl)
    BY DEF UeReceive
  <1>3. PICK m : m = Head(dl)
    OBVIOUS
  <1>4. PICK in : in = ue_nas_security_unprotect(ue.cur, m)
    OBVIOUS
  <1>5. IF m.kind = "smc" THEN HandleSmc(ue, m)
        ELSE IF m.key = 0 THEN HandlePlain(ue, m)
        ELSE IF in.ok THEN HandlePlain([ue EXCEPT !.cur = in.ctx], m)
        ELSE Ignore([ue EXCEPT !.cur = in.ctx])
    BY <1>3, <1>4 DEF UeReceive
  <1>6. m \in Messages /\ m = dl[1] /\ 1 \in 1..Len(dl)
    BY <1>1, <1>2, <1>3, TailOf, ZenonT(120) DEF InStep, Typed
  <1>7. m.kind # "smc" => m.gen <= amf.vectors
    BY <1>1, <1>6, ZenonT(30) DEF InStep, Mail, Sent
  <1>8. ue \in UeType /\ UeKeys(ue)
    BY <1>1 DEF InStep, Typed
  <1>9. CASE m.kind = "smc"
    BY <1>2, <1>3, <1>5, <1>6, <1>9, CommandStep, ZenonT(30) DEF SecInv
  <1>10. CASE m.kind # "smc" /\ m.key = 0
    <2>1. Seen(ue, amf, m)
      BY <1>8, <1>10 DEF Seen, InStream, UeKeys
    <2>2. InStep(ue, amf, Tail(dl), allowance.faults)
      BY <1>1, <1>2, <1>3, <2>1, HeadTaken
    <2>3. HandlePlain(ue, m)
      BY <1>5, <1>10, ZenonT(30)
    <2>4. InStep(ue', amf', Tail(dl), allowance'.faults) /\ allowance' \in Allowances
      BY <1>1, <1>6, <1>7, <1>10, <2>2, <2>3, PlainStep, ZenonT(30)
    <2> QED
      BY <1>2, <2>4, ZenonT(30) DEF SecInv
  <1>11. CASE m.kind # "smc" /\ m.key # 0
    <2>1. PICK s : s = [ue EXCEPT !.cur = in.ctx]
      BY ZenonT(30)
    <2>2. PICK n : n = Estimate(ue.cur.dl, m.count % SqnMod)
      OBVIOUS
    <2>3. InStep(s, amf, dl, allowance.faults) /\ Seen(s, amf, m)
      <3>1. CASE ue.cur.active /\ MacVerifies(ue.cur, n, m)
        <4>1. n = m.count /\ ue.cur.gen = m.key
          BY <3>1 DEF MacVerifies
        <4>2. s = AtCount(ue, m.count)
          BY <1>4, <2>1, <2>2, <3>1, <4>1, ZenonT(30) DEF ue_nas_security_unprotect, AtCount
        <4>3. InStep(s, amf, dl, allowance.faults)
          BY <1>1, <1>2, <1>3, <1>11, <3>1, <4>1, <4>2, Verified, ZenonT(30)
        <4>4. m.count \in Nat
          BY <1>6, MessageFields, ZenonT(30)
        <4>5. s.cur.dl = m.count
          BY <1>8, <4>2, <4>4, CountSet, ZenonT(30)
        <4>6. Seen(s, amf, m)
          BY <4>4, <4>5 DEF Seen
        <4> QED
          BY <4>3, <4>6, ZenonT(30)
      <3>2. CASE ~ue.cur.active \/ ~MacVerifies(ue.cur, n, m)
        <4>1. s = ue
          <5>1. in.ctx = ue.cur
            BY <1>4, <2>2, <3>2 DEF ue_nas_security_unprotect
          <5> QED
            BY <1>8, <2>1, <5>1 DEF UeType
        <4>2. Seen(ue, amf, m)
          <5>1. CASE ~ue.cur.active
            BY <5>1 DEF Seen
          <5>2. CASE ~MacVerifies(ue.cur, n, m)
            BY <1>1, <1>2, <1>3, <2>2, <5>2, Unverified
          <5> QED
            BY <3>2, <5>1, <5>2
        <4> QED
          BY <1>1, <4>1, <4>2
      <3> QED
        BY <3>1, <3>2
    <2>4. InStep(s, amf, Tail(dl), allowance.faults)
      BY <1>2, <1>3, <2>3, HeadTaken
    <2>5. CASE in.ok
      <3>1. HandlePlain(s, m)
        BY <1>5, <1>11, <2>1, <2>5, ZenonT(30)
      <3>2. InStep(ue', amf', Tail(dl), allowance'.faults) /\ allowance' \in Allowances
        BY <1>1, <1>6, <1>7, <1>11, <2>4, <3>1, PlainStep, ZenonT(30)
      <3> QED
        BY <1>2, <3>2, ZenonT(30) DEF SecInv
    <2>6. CASE ~in.ok
      <3>1. ue' = s /\ amf' = amf /\ allowance' = allowance
        BY <1>5, <1>11, <2>1, <2>6, ZenonT(30) DEF Ignore
      <3> QED
        BY <1>1, <1>2, <2>4, <3>1 DEF SecInv
    <2> QED
      BY <2>5, <2>6
  <1> QED
    BY <1>9, <1>10, <1>11

-----------------------------------------------------------------------------
(* The theorems *)

\* A cleared UE, an AMF without a context and an empty queue are in step.
LEMMA SecInitInv == SecInit => SecInv
  <1> SUFFICES ASSUME SecInit PROVE SecInv
    OBVIOUS
  <1>1. allowance \in Allowances /\ allowance.faults \in 0..MaxFaults
    <2>1. MaxSends \in Nat /\ MaxFaults \in Nat /\ MaxRestarts \in Nat
      BY SecAssumption
    <2> QED
      BY <2>1 DEF SecInit, Allowances
  <1>2. 0 \in Vectors
    BY Numbers DEF Vectors
  <1> QED
    BY <1>1, <1>2, Fresh DEF SecInit, SecInv

\* Every step keeps the invariant.
LEMMA SecNextInv == SecInv /\ [SecNext]_secVars => SecInv'
  <1> SUFFICES ASSUME SecInv, [SecNext]_secVars PROVE SecInv'
    OBVIOUS
  <1>1. CASE UNCHANGED secVars
    BY <1>1 DEF secVars, SecInv
  <1>2. CASE UeReceive
    BY <1>2, UeReceiveStep
  <1>3. CASE UeSend
    BY <1>3, UeSendStep
  <1>4. CASE StartAuthentication \/ SendSmc \/ Restart
    BY <1>4, ProcedureStep
  <1>5. CASE SendAuth \/ SendBadAuth \/ SendOther
    BY <1>5, MessageStep
  <1>6. CASE Lose \/ Copy \/ Reorder
    BY <1>6, LinkStep
  <1> QED
    BY <1>1, <1>2, <1>3, <1>4, <1>5, <1>6 DEF SecNext

\* UE, AMF and what is on its way between them keep in step, but for what an
\* accepted challenge overwrites: the inductive invariant.
THEOREM SecInvariant == SecSpec => []SecInv
  BY SecInitInv, SecNextInv, PTL DEF SecSpec

\* The invariant has the types.
LEMMA SecInvType == SecInv => SecTypeOK
  <1> SUFFICES ASSUME SecInv PROVE SecTypeOK
    OBVIOUS
  <1>1. /\ ue \in UeType /\ amf \in AmfType /\ UeKeys(ue)
        /\ dl \in Seq(Messages) /\ Len(dl) <= MaxInFlight
    BY DEF SecInv, InStep, Typed
  <1>2. ue.cur.active => ue.cur.gen # 0
    BY <1>1 DEF UeKeys
  <1> QED
    BY <1>1, <1>2, UeFields, AmfFields DEF SecTypeOK

\* Contexts, procedure and messages keep to their types, and a context in use has
\* keys, for all bounds.
THEOREM SecTypeCorrect == SecSpec => []SecTypeOK
  BY SecInvariant, SecInvType, PTL

\* A message on its way that is no older than the last one accepted is recovered.
LEMMA SecInvDownlink == SecInv => DownlinkInStep
  <1> SUFFICES ASSUME SecInv, ue.cur.active, ~Overwritten
               PROVE  /\ ue.cur.gen = amf.cur.gen => ue.cur.dl <= amf.cur.dl
                      /\ \A i \in 1..Len(dl) :
                            LET m == dl[i] IN
                            m.kind # "smc" /\ m.key = ue.cur.gen /\ m.count >= ue.cur.dl
                               => Estimate(ue.cur.dl, m.count % SqnMod) = m.count
    BY DEF DownlinkInStep
  <1>1. PICK f : f = allowance.faults
    BY ZenonT(30)
  <1>2. InStep(ue, amf, dl, f) /\ ~amf.crossed
    BY <1>1 DEF SecInv, Overwritten
  <1>3. /\ Typed(ue, amf, dl, f) /\ Mail(amf, dl, f) /\ Agree(ue, amf, dl, f)
        /\ UeKeys(ue) /\ AmfKeys(ue, amf)
    BY <1>2 DEF InStep
  <1>4. /\ ue \in UeType /\ amf \in AmfType /\ f \in 0..MaxFaults
        /\ dl \in Seq(Messages) /\ Len(dl) <= MaxInFlight
    BY <1>3, ZenonT(30) DEF Typed
  <1>5. ue.cur.gen = amf.cur.gen => ue.cur.dl <= amf.cur.dl
    BY <1>3, ZenonT(30) DEF Agree
  <1>6. ASSUME NEW i \in 1..Len(dl), dl[i].kind # "smc", dl[i].key = ue.cur.gen,
               dl[i].count >= ue.cur.dl
        PROVE  Estimate(ue.cur.dl, dl[i].count % SqnMod) = dl[i].count
    <2>1. PICK m : m = dl[i]
      OBVIOUS
    <2>2. m \in Messages /\ Sent(amf, m) /\ (amf.cur.active => Follows(amf, dl, f, i))
      BY <1>3, <1>4, <2>1 DEF Mail
    <2>3. m.key <= amf.cur.gen /\ m.key = ue.sqn_ms /\ amf.cur.gen <= ue.sqn_ms
      BY <1>3, <1>6, <2>1, <2>2, ZenonT(30) DEF Sent, UeKeys, AmfKeys
    <2>4. m.key \in Nat /\ amf.cur.gen \in Nat /\ m.count \in Nat
      BY <1>4, <2>2, MessageFields, AmfFields, ContextFields, ZenonT(30)
    <2>5. m.key = amf.cur.gen /\ ue.cur.gen = amf.cur.gen
      BY <1>6, <2>1, <2>3, <2>4
    <2>6. amf.cur.active
      BY <1>3, <1>4, <2>5, InUse, ZenonT(30)
    <2>7. InStream(amf, m)
      BY <1>6, <2>1, <2>5, ZenonT(30) DEF InStream
    <2>8. m.count < amf.cur.dl
      BY <2>1, <2>2, <2>6, <2>7, ZenonT(30) DEF Follows
    <2>9. amf.cur.dl <= ue.cur.dl + MaxCommands + Len(dl) + Setback(f)
      BY <1>3, <2>5, ZenonT(30) DEF Agree
    <2>10. /\ ue.cur.dl \in Nat /\ amf.cur.dl \in Nat /\ Len(dl) \in Nat
           /\ Setback(f) \in Nat /\ Setback(f) <= MaxFaults * (MaxInFlight - 1)
      BY <1>4, AheadNat, SetbackNat
    <2>11. m.count < ue.cur.dl + SqnMod
      BY <1>4, <2>4, <2>8, <2>9, <2>10, NoWrap, ZenonT(30)
    <2>12. ue.cur.dl <= m.count
      BY <1>6, <2>1, <2>4, <2>10, ZenonT(30)
    <2>13. Estimate(ue.cur.dl, m.count % SqnMod) = m.count
      BY <2>4, <2>10, <2>11, <2>12, EstimateRight, ZenonT(30)
    <2> QED
      BY <2>1, <2>13
  <1> QED
    BY <1>5, <1>6, ZenonT(30)

\* The UE's downlink COUNT is never ahead of the AMF's, and every message on its
\* way that is no older than the last one accepted gets its COUNT back from the SQN
\* (ue_nas_security_unprotect), for all bounds and any SQN large enough for them.
THEOREM DownlinkStaysInStep == SecSpec => []DownlinkInStep
  BY SecInvariant, SecInvDownlink, PTL

\* Between procedures UE and AMF have one context.
LEMMA SecInvUplink == SecInv => UplinkInStep
  <1> SUFFICES ASSUME SecInv, amf.cur.active
               PROVE  /\ ue.cur.active
                      /\ ~Overwritten /\ amf.pend = NoProcedure =>
                            /\ ue.cur.gen = amf.cur.gen /\ ue.cur.enc = amf.cur.enc
                            /\ ue.cur.ul >= amf.cur.ul
    BY DEF UplinkInStep
  <1>1. PICK f : f = allowance.faults
    OBVIOUS
  <1>2. InStep(ue, amf, dl, f)
    BY <1>1, ZenonT(30) DEF SecInv
  <1>3. ue.cur.active /\ UeKeys(ue) /\ Command(amf, ue.smc)
    BY <1>2 DEF InStep, AmfKeys
  <1>4. ASSUME ~Overwritten, amf.pend = NoProcedure
        PROVE  /\ ue.cur.gen = amf.cur.gen /\ ue.cur.enc = amf.cur.enc
               /\ ue.cur.ul >= amf.cur.ul
    <2>0. NoProcedure.stage = "none"
      BY ZenonT(30) DEF NoProcedure
    <2>1. ~amf.crossed /\ ue.cur.gen = ue.taken /\ amf.pend.stage = "none"
      BY <1>4, <2>0, ZenonT(30) DEF Overwritten
    <2>2. ue.taken = amf.cur.gen /\ ue.cur.ul >= amf.cur.ul
      BY <1>2, <2>1, ZenonT(30) DEF InStep, Agree
    <2>3. ue.cur.enc = amf.cur.enc
      BY <1>3, <2>2 DEF UeKeys, Command
    <2> QED
      BY <2>1, <2>2, <2>3, ZenonT(30)
  <1> QED
    BY <1>3, <1>4, ZenonT(30)

\* The AMF has no context that the UE lacks, and between procedures both have the
\* same one, in which the UE counts at or past what the AMF expects (handler of the
\* security mode command, engine_send_nas_uplink), for all bounds.
THEOREM UplinkStaysInStep == SecSpec => []UplinkInStep
  BY SecInvariant, SecInvUplink, PTL
=============================================================================
