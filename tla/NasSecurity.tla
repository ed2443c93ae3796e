---------------------------- MODULE NasSecurity ----------------------------
(***************************************************************************)
(* NAS security (src/ue_engine/ue_nas_security.c and the handlers of       *)
(* ue_engine.c that use it): the current and the non-current security      *)
(* context of the UE, the NAS COUNTs, authentication, the security mode    *)
(* command, and the AMF on the other side of a radio link that loses and   *)
(* repeats messages.                                                       *)
(*                                                                         *)
(* A key set is the number of the authentication vector it comes from; a   *)
(* MAC verifies when key set and COUNT are the sender's.  The integrity    *)
(* algorithm is NIA2 throughout, the one the UE maps every other but NIA0  *)
(* to; NIA0 stands for emergency services, which the UE does not offer.    *)
(***************************************************************************)
EXTENDS Naturals, Sequences

CONSTANTS
    SqnMod,       \* values of the SQN byte, 256 in the code
    MaxCount,     \* bound on the AMF's COUNTs, but for repeated challenges
    MaxVectors,   \* bound on authentication vectors
    MaxCommands,  \* bound on security mode commands of one procedure
    MaxInFlight,  \* bound on downlink messages on their way at a time
    MaxSends,     \* bound on messages the UE sends on its own
    MaxFaults,    \* bound on messages lost, repeated late or corrupted
    MaxRestarts   \* bound on radio off and on

ASSUME SecAssumption ==
    /\ SqnMod \in Nat /\ SqnMod >= 2
    /\ MaxCommands + MaxInFlight + MaxFaults * (MaxInFlight - 1) <= SqnMod
    /\ MaxCommands > MaxFaults
    /\ MaxInFlight \in Nat /\ MaxInFlight >= 2
    /\ {MaxCount, MaxVectors, MaxCommands} \subseteq Nat \ {0}
    /\ {MaxSends, MaxFaults, MaxRestarts} \subseteq Nat

VARIABLES
    ue,      \* the UE's contexts
    amf,     \* the AMF's contexts and the procedure it runs
    dl,      \* downlink messages on their way
    allowance   \* what is left of the bounds

secVars == <<ue, amf, dl, allowance>>

Vectors == 0..MaxVectors   \* 0: no key
Ciphers == {"NEA0", "NEA2"}

\* gen: the vector of keys.kamf and knas_int; kenc: the algorithm knas_enc was
\* derived for; the COUNTs are overflow and SQN in one number.
ContextType == [active: BOOLEAN, gen: Vectors, enc: Ciphers, kenc: Ciphers,
                ngksi: {0, 1, 7}, ul: Nat, dl: Nat]

NoContext == [active |-> FALSE, gen |-> 0, enc |-> "NEA0", kenc |-> "NEA0",
              ngksi |-> 7, ul |-> 0, dl |-> 0]

\* key, count and enc: what the sender protected the message with, key = 0 for a
\* plain one; gen and ngksi: what authentication and security mode are about.
Messages ==
    [kind: {"auth", "badAuth", "smc", "other"}, key: Vectors, count: Nat,
     enc: Ciphers, gen: Vectors, ngksi: {0, 1, 7}]

NoMessage == [kind |-> "none", key |-> 0, count |-> 0, enc |-> "NEA0",
              gen |-> 0, ngksi |-> 7]

\* engine_clear_nas_identity_context; taken is a history variable, the vector of
\* the last security mode command accepted.
Cleared == [cur |-> NoContext, non |-> NoContext, sqn_ms |-> 0, smc |-> NoMessage,
            taken |-> 0]

\* The authentication and security mode procedure of the AMF; count: of the
\* context it is to end in.
ProcedureType == [stage: {"none", "auth", "smc"}, gen: Vectors, ngksi: {0, 1, 7},
                  enc: Ciphers, count: 0..MaxCommands]

NoProcedure == [stage |-> "none", gen |-> 0, ngksi |-> 7, enc |-> "NEA0",
                count |-> 0]

SecInit ==
    /\ ue = Cleared
    /\ amf = [cur |-> NoContext, pend |-> NoProcedure, vectors |-> 0, crossed |-> FALSE]
    /\ dl = <<>>
    /\ allowance = [sends |-> MaxSends, faults |-> MaxFaults, restarts |-> MaxRestarts]

-----------------------------------------------------------------------------
(* Protection *)

\* ue_nas_security_unprotect: the COUNT an SQN stands for, given the last one.
Estimate(count, sqn) ==
    LET overflow == count \div SqnMod IN
    (IF sqn < count % SqnMod THEN overflow + 1 ELSE overflow) * SqnMod + sqn

\* ue_nas_compute_mac, under one key and one COUNT on either side.
MacVerifies(c, count, m) == c.gen = m.key /\ count = m.count

\* ue_nas_cipher gives the plain message back.
Readable(c, m) == m.enc = c.enc /\ (c.enc = "NEA0" \/ c.kenc = c.enc)

\* Mutant: the COUNT follows the SQN before the MAC is checked.
UnprotectTrusting(c, m) ==
    LET count == Estimate(c.dl, m.count % SqnMod) IN
    IF ~c.active THEN [ok |-> FALSE, ctx |-> c]
    ELSE [ok |-> MacVerifies(c, count, m) /\ Readable(c, m),
          ctx |-> [c EXCEPT !.dl = count]]

ue_nas_security_unprotect(c, m) ==
    LET count == Estimate(c.dl, m.count % SqnMod) IN
    IF ~c.active \/ ~MacVerifies(c, count, m) THEN [ok |-> FALSE, ctx |-> c]
    ELSE [ok |-> Readable(c, m), ctx |-> [c EXCEPT !.dl = count]]

-----------------------------------------------------------------------------
(* The AMF, seen from the UE *)

\* The AMF gets an uplink message. An Authentication Response needs no
\* protection; a Security Mode Complete takes the new context into use (crossed, a
\* history variable: the command it answers was not of this procedure).
AmfReceive(a, u) ==
    IF u.kind = "authResponse" /\ a.pend.stage = "auth" /\ a.pend.gen = u.gen
    THEN [a EXCEPT !.pend.stage = "smc"]
    ELSE IF u.kind = "smcComplete" /\ a.pend.stage = "smc" /\ a.pend.gen = u.key
    THEN [a EXCEPT !.cur = [active |-> TRUE, gen |-> a.pend.gen,
                            enc |-> a.pend.enc, kenc |-> a.pend.enc,
                            ngksi |-> a.pend.ngksi, ul |-> u.count + 1,
                            dl |-> a.pend.count],
                   !.pend = NoProcedure, !.crossed = @ \/ u.gen # a.pend.gen]
    ELSE IF u.key # 0 /\ u.key = a.cur.gen /\ u.count >= a.cur.ul
    THEN [a EXCEPT !.cur.ul = u.count + 1]
    ELSE a

\* engine_send_nas_uplink: protected and counted once a context is active; the
\* message gets through or is lost.
engine_send_nas_uplink(kind, s, gen, b) ==
    LET u == [kind |-> kind, gen |-> gen,
              key |-> IF s.cur.active THEN s.cur.gen ELSE 0, count |-> s.cur.ul]
    IN  /\ ue' = IF s.cur.active THEN [s EXCEPT !.cur.ul = @ + 1] ELSE s
        /\ \/ amf' = AmfReceive(amf, u) /\ allowance' = b
           \/ /\ b.faults > 0
              /\ allowance' = [b EXCEPT !.faults = @ - 1]
              /\ UNCHANGED amf

Send(kind, s, gen) == engine_send_nas_uplink(kind, s, gen, allowance)

Ignore(s) == ue' = s /\ UNCHANGED <<amf, allowance>>

-----------------------------------------------------------------------------
(* The handlers *)

\* Mutant: the context is filed under ngKSI 0 whatever the network assigned.
NonCurrentKsiZero(cur, ngksi) ==
    [cur EXCEPT !.active = TRUE, !.enc = "NEA0", !.ngksi = 0, !.ul = 0, !.dl = 0]

\* The non-current context after a challenge, a copy of the current one.
NonCurrent(cur, ngksi) ==
    [cur EXCEPT !.active = TRUE, !.enc = "NEA0", !.ngksi = ngksi, !.ul = 0, !.dl = 0]

\* UE_NAS_EVENT_AUTHENTICATION_REQUEST: MAC failure, synch failure, or new keys,
\* which ue_nas_derive_keys writes to the current context, for NIA2 and NEA0.
HandleAuthRequest(s, m) ==
    LET cur == [s.cur EXCEPT !.gen = m.gen, !.kenc = "NEA0"]
    IN  IF m.kind = "badAuth" \/ m.gen < s.sqn_ms
        THEN Send("authFailure", s, 0)
        ELSE Send("authResponse",
                  [s EXCEPT !.cur = cur, !.non = NonCurrent(cur, m.ngksi),
                            !.sqn_ms = m.gen], m.gen)

\* Mutant: the non-current context is looked at first.
TargetNonCurrentFirst(s, ngksi) ==
    IF s.non.active /\ s.non.ngksi = ngksi THEN "non"
    ELSE IF s.cur.active /\ s.cur.ngksi = ngksi THEN "cur"
    ELSE "none"

\* The context a security mode command is about; non.active stands for
\* nas_sec_non_current_valid.
Target(s, ngksi) ==
    IF s.cur.active /\ s.cur.ngksi = ngksi THEN "cur"
    ELSE IF s.non.active /\ s.non.ngksi = ngksi THEN "non"
    ELSE "none"

\* verify_smc_new_context_mac: with the context's own overflow, else with zero.
SameOverflow(c, m) ==
    MacVerifies(c, (c.dl \div SqnMod) * SqnMod + (m.count % SqnMod), m)
ZeroOverflow(c, m) == MacVerifies(c, m.count % SqnMod, m)

Secured(c, m) ==
    [c EXCEPT !.active = TRUE, !.enc = m.enc, !.kenc = m.enc,
              !.dl = IF SameOverflow(c, m) THEN @ ELSE 0]

\* The non-current context becomes the current one and counts uplink from zero.
TakeNon(s, m) ==
    [s EXCEPT !.cur = [Secured(s.non, m) EXCEPT !.ul = 0], !.non = NoContext]

\* UE_NAS_EVENT_SECURITY_MODE_COMMAND
HandleSmc(s, m) ==
    LET target == Target(s, m.ngksi)
        c == IF target = "cur" THEN s.cur ELSE s.non
        repeated == s.smc = m
        done == IF repeated THEN s
                ELSE IF target = "cur" THEN [s EXCEPT !.cur = Secured(c, m)]
                ELSE TakeNon(s, m)
    IN  IF target = "none" \/ ~(repeated \/ SameOverflow(c, m) \/ ZeroOverflow(c, m))
        THEN Ignore(s)
        ELSE Send("smcComplete", [done EXCEPT !.smc = m, !.taken = m.key], m.key)

HandlePlain(s, m) ==
    CASE m.kind \in {"auth", "badAuth"} -> HandleAuthRequest(s, m)
      [] m.kind = "other" -> Send("answer", s, 0)

\* decode_and_process_nas
UeReceive ==
    /\ dl # <<>>
    /\ dl' = Tail(dl)
    /\ LET m == Head(dl)
           in == ue_nas_security_unprotect(ue.cur, m)
       IN  IF m.kind = "smc" THEN HandleSmc(ue, m)
           ELSE IF m.key = 0 THEN HandlePlain(ue, m)
           ELSE IF in.ok THEN HandlePlain([ue EXCEPT !.cur = in.ctx], m)
           ELSE Ignore([ue EXCEPT !.cur = in.ctx])

\* A registration, session or other request of the UE itself.
UeSend ==
    /\ allowance.sends > 0
    /\ engine_send_nas_uplink("request", ue, 0, [allowance EXCEPT !.sends = @ - 1])
    /\ UNCHANGED dl

\* Mutant: the keys are wiped, the flags of the context are not.
RestartLeavesActive ==
    /\ allowance.restarts > 0
    /\ allowance' = [allowance EXCEPT !.restarts = @ - 1]
    /\ ue' = [Cleared EXCEPT !.cur = [ue.cur EXCEPT !.gen = 0]]
    /\ amf' = [amf EXCEPT !.cur = NoContext, !.pend = NoProcedure, !.crossed = FALSE]
    /\ dl' = <<>>

\* engine_forget_network_context, on radio off and on and on a lost RAN link, with
\* which what was on its way is gone. The AMF learns of it by the Deregistration
\* Request, or from the next registration request: "no key available".
Restart ==
    /\ allowance.restarts > 0
    /\ allowance' = [allowance EXCEPT !.restarts = @ - 1]
    /\ ue' = Cleared
    /\ amf' = [amf EXCEPT !.cur = NoContext, !.pend = NoProcedure, !.crossed = FALSE]
    /\ dl' = <<>>

-----------------------------------------------------------------------------
(* The AMF and the link *)

Protected(kind, gen, ngksi) ==
    [kind |-> kind, key |-> amf.cur.gen, count |-> amf.cur.dl,
     enc |-> amf.cur.enc, gen |-> gen, ngksi |-> ngksi]

Counted(a) == IF a.cur.active THEN [a EXCEPT !.cur.dl = @ + 1] ELSE a

Room == Len(dl) < MaxInFlight /\ amf.cur.dl < MaxCount

StartAuthentication ==
    /\ amf.pend = NoProcedure /\ amf.vectors < MaxVectors
    /\ \E ngksi \in {0, 1} \ {amf.cur.ngksi} :
          amf' = [amf EXCEPT !.vectors = @ + 1,
                             !.pend = [NoProcedure EXCEPT !.stage = "auth",
                                          !.gen = amf.vectors + 1, !.ngksi = ngksi]]
    /\ UNCHANGED <<ue, dl, allowance>>

\* The Authentication Request, and its repetitions after T3560.
SendAuth ==
    /\ amf.pend.stage = "auth" /\ Len(dl) < MaxInFlight
    /\ amf.cur.dl <= MaxCount + MaxFaults
    /\ dl' = Append(dl, Protected("auth", amf.pend.gen, amf.pend.ngksi))
    /\ amf' = Counted(amf)
    /\ UNCHANGED <<ue, allowance>>

SendBadAuth ==
    /\ Room /\ allowance.faults > 0
    /\ allowance' = [allowance EXCEPT !.faults = @ - 1]
    /\ dl' = Append(dl, Protected("badAuth", 0, 7))
    /\ amf' = Counted(amf)
    /\ UNCHANGED ue

\* The Security Mode Command, under the new context, and its repetitions, each
\* with the next COUNT of that context and the algorithm chosen at first.
SendSmc ==
    /\ amf.pend.stage = "smc" /\ Len(dl) < MaxInFlight /\ amf.pend.count < MaxCommands
    /\ \E enc \in IF amf.pend.count = 0 THEN Ciphers ELSE {amf.pend.enc} :
          /\ dl' = Append(dl, [kind |-> "smc", key |-> amf.pend.gen,
                               count |-> amf.pend.count, enc |-> enc,
                               gen |-> amf.pend.gen, ngksi |-> amf.pend.ngksi])
          /\ amf' = [amf EXCEPT !.pend.enc = enc, !.pend.count = @ + 1]
    /\ UNCHANGED <<ue, allowance>>

SendOther ==
    /\ amf.cur.active /\ Room
    /\ dl' = Append(dl, Protected("other", 0, 7))
    /\ amf' = Counted(amf)
    /\ UNCHANGED <<ue, allowance>>

Lose ==
    /\ dl # <<>> /\ allowance.faults > 0
    /\ dl' = Tail(dl)
    /\ allowance' = [allowance EXCEPT !.faults = @ - 1]
    /\ UNCHANGED <<ue, amf>>

Copy ==
    /\ dl # <<>> /\ Len(dl) < MaxInFlight /\ allowance.faults > 0
    /\ dl' = Append(dl, Head(dl))
    /\ allowance' = [allowance EXCEPT !.faults = @ - 1]
    /\ UNCHANGED <<ue, amf>>

Reorder ==
    /\ Len(dl) > 1 /\ allowance.faults > 0
    /\ dl' = [dl EXCEPT ![1] = dl[2], ![2] = dl[1]]
    /\ allowance' = [allowance EXCEPT !.faults = @ - 1]
    /\ UNCHANGED <<ue, amf>>

SecNext ==
    \/ UeReceive \/ UeSend \/ Restart
    \/ StartAuthentication \/ SendAuth \/ SendBadAuth \/ SendSmc \/ SendOther
    \/ Lose \/ Copy \/ Reorder

SecSpec == SecInit /\ [][SecNext]_secVars

\* The engine tick drains the link, the AMF's T3560 repeats its requests.
FairSecSpec ==
    /\ SecSpec
    /\ WF_secVars(UeReceive) /\ WF_secVars(SendAuth) /\ WF_secVars(SendSmc)

-----------------------------------------------------------------------------
(* Properties *)

\* Contexts, messages and bounds have their types; a context in use has keys.
SecTypeOK ==
    /\ ue.cur \in ContextType /\ ue.non \in ContextType
    /\ ue.cur.active => ue.cur.gen # 0
    /\ {ue.sqn_ms, ue.taken} \subseteq Vectors /\ ue.smc \in Messages \cup {NoMessage}
    /\ amf.cur \in ContextType /\ amf.pend \in ProcedureType
    /\ amf.vectors \in Vectors /\ amf.crossed \in BOOLEAN
    /\ dl \in Seq(Messages) /\ Len(dl) <= MaxInFlight

\* An accepted challenge overwrites the keys of the context in use before a
\* security mode command takes them (ue_nas_derive_keys into ctx->nas_sec.keys):
\* the keys are another vector's, knas_enc is NEA0's in a context under NEA2, or
\* the AMF once took the answer to an old command, under new keys, for the new
\* one's, from which on the two may differ in the ngKSI of their context.
Overwritten ==
    \/ ue.cur.gen # ue.taken
    \/ ue.cur.kenc # ue.cur.enc
    \/ amf.crossed

\* The UE's downlink COUNT is never ahead of the AMF's, and a message on its way
\* that is no older than the last one accepted gets the COUNT the AMF gave it, so
\* that it verifies: no loss, late copy, repeated security mode command or wrap of
\* the SQN byte puts the COUNTs out of step (ue_nas_security_unprotect, smc_count0
\* of the command's handler).
DownlinkInStep ==
    ue.cur.active /\ ~Overwritten =>
        /\ ue.cur.gen = amf.cur.gen => ue.cur.dl <= amf.cur.dl
        /\ \A i \in 1..Len(dl) :
              LET m == dl[i] IN
              m.kind # "smc" /\ m.key = ue.cur.gen /\ m.count >= ue.cur.dl
                 => Estimate(ue.cur.dl, m.count % SqnMod) = m.count

\* The AMF has no context that the UE lacks, and between procedures both have
\* the same one, in which the UE counts uplink messages at or past what the AMF
\* expects: a repeated security mode command never makes the UE count from zero
\* again (lookup of the current context first, duplicate_smc).
UplinkInStep ==
    amf.cur.active =>
        /\ ue.cur.active
        /\ ~Overwritten /\ amf.pend = NoProcedure =>
              /\ ue.cur.gen = amf.cur.gen /\ ue.cur.enc = amf.cur.enc
              /\ ue.cur.ul >= amf.cur.ul

\* Authentication and security mode control that the AMF starts complete whatever
\* is lost or repeated once, the answers included, unless the challenge overwrote
\* the keys of a context in use: the AMF's repetition then no longer verifies.
SetupCompletes ==
    amf.pend.stage # "none" ~>
        amf.pend.stage = "none" \/ (ue.cur.active /\ Overwritten)
=============================================================================
