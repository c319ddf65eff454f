-------------------------- MODULE ControlHost_proofs --------------------------
(***************************************************************************)
(* Proofs about ControlChannel, for any channels and sessions, and about   *)
(* ControlHost: the window and its server use ControlChannel as its        *)
(* specification says, so that what is proved of it holds there, and       *)
(* control is shown while anybody holds a token.                           *)
(***************************************************************************)
EXTENDS ControlHost, SequenceTheorems, TLAPS

----------------------------------------------------------------------------
(* The channels                                                            *)

(* What a channel has been granted and has recorded at each point.         *)
ChannelOk(h) ==
  /\ pc[h] # "idle" => session[h] \in Sessions
  /\ pc[h] \in Holding => sid[h] # NoSid
  /\ sid[h] # NoSid => pc[h] \in Holding \cup {"revoked", "done"}
  /\ pc[h] \in {"idle", "auth", "scope", "shaken", "granted"} => audit[h] = <<>>
  /\ pc[h] \in {"serve", "message", "check", "ending", "revoked"} => audit[h] = <<"start">>

ChannelInv == \A h \in Channels : ChannelOk(h)

IInv == TypeOK /\ ChannelInv /\ NoOrphanToken /\ KillSwitchDrops /\ TokenKept

(* Once more sids are drawn, those drawn before are still among them.      *)
LEMMA MoreGrants ==
  ASSUME NEW n \in Nat
  PROVE  n + 1 \in Nat /\ n + 1 \in 0 .. n + 1 /\ 0 .. n \subseteq 0 .. n + 1 /\ n + 1 # NoSid
  BY DEF NoSid

(* The records a channel writes, one after the other.                      *)
LEMMA Records ==
  /\ Append(<<>>, "start") = <<"start">> /\ Append(<<>>, "stop") = <<"stop">>
  /\ Append(<<"start">>, "stop") = <<"start", "stop">>
<1> DEFINE S == {"start", "stop"}
           p == <<"start">>
           q == <<"start", "stop">>
           r == Append(p, "stop")
<1>1. p \in Seq(S) /\ Len(p) = 1 /\ p[1] = "start"
  OBVIOUS
<1>2. q \in Seq(S) /\ Len(q) = 2 /\ q[1] = "start" /\ q[2] = "stop"
  OBVIOUS
<1>3. r \in Seq(S) /\ Len(r) = 2 /\ r[1] = "start" /\ r[2] = "stop"
  <2> HIDE DEF p
  <2> QED
    BY <1>1, AppendProperties
<1>4. Append(<<>>, "start") = <<"start">> /\ Append(<<>>, "stop") = <<"stop">>
  OBVIOUS
<1> HIDE DEF S, p, q, r
<1>5. r = q
  BY <1>2, <1>3, SeqEqual, \A i \in 1 .. 2 : i = 1 \/ i = 2
<1> QED
  BY <1>4, <1>5 DEF p, q, r

LEMMA InvInit == Init => IInv
<1> SUFFICES ASSUME Init PROVE IInv
  OBVIOUS
<1>1. TypeOK
  <2>1. /\ tokens \in [Keys -> 0 .. grants] /\ sid \in [Channels -> 0 .. grants]
        /\ carried \in [Channels -> 0 .. grants] /\ killed \in 0 .. grants /\ grants \in Nat
    BY DEF Init, NoSid
  <2>2. /\ allowed \in BOOLEAN /\ live \in SUBSET Sessions /\ pc \in [Channels -> Pc]
        /\ session \in [Channels -> Keys] /\ audit \in [Channels -> Logs]
        /\ gone \in SUBSET Channels /\ passed \in SUBSET Channels
    BY DEF Init, Pc, Logs, Keys, NoSession
  <2> QED
    BY <2>1, <2>2 DEF TypeOK
<1>2. ChannelInv
  BY DEF Init, ChannelInv, ChannelOk, Holding
<1>3. NoOrphanToken /\ KillSwitchDrops /\ TokenKept
  BY DEF Init, NoOrphanToken, KillSwitchDrops, TokenKept, Holding, Keys
<1> QED
  BY <1>1, <1>2, <1>3 DEF IInv

----------------------------------------------------------------------------
(* The host and the sessions.                                              *)
LEMMA SetAllowedKeeps ==
  ASSUME IInv, NEW value \in BOOLEAN, SetAllowed(value)
  PROVE  IInv'
<1> USE DEF IInv, SetAllowed, channelVars
<1>1. TypeOK'
  BY DEF TypeOK, NoSid
<1>2. ChannelInv'
  BY DEF ChannelInv, ChannelOk
<1>3. NoOrphanToken'
  BY DEF NoOrphanToken
<1>4. KillSwitchDrops'
  BY DEF KillSwitchDrops
<1>5. TokenKept'
  BY DEF TypeOK, TokenKept
<1> QED
  BY <1>1, <1>2, <1>3, <1>4, <1>5

LEMMA ExpireKeeps ==
  ASSUME IInv, NEW s \in Sessions, Expire(s)
  PROVE  IInv'
<1> USE DEF IInv, Expire, consentVars, channelVars
<1>1. TypeOK'
  BY DEF TypeOK, Pc, Logs
<1>2. ChannelInv'
  BY DEF TypeOK, ChannelInv, ChannelOk, Holding, NoSid
<1>3. NoOrphanToken'
  BY DEF TypeOK, ChannelInv, ChannelOk, Holding, NoOrphanToken
<1>4. KillSwitchDrops'
  BY DEF KillSwitchDrops
<1>5. TokenKept'
  BY DEF TypeOK, ChannelInv, ChannelOk, Holding, TokenKept
<1> QED
  BY <1>1, <1>2, <1>3, <1>4, <1>5

LEMMA LeaveKeeps ==
  ASSUME IInv, NEW h \in Channels, Leave(h)
  PROVE  IInv'
<1> USE DEF IInv, Leave, consentVars, channelVars
<1>1. TypeOK'
  BY DEF TypeOK, Pc, Logs
<1>2. ChannelInv'
  BY DEF TypeOK, ChannelInv, ChannelOk, Holding, NoSid
<1>3. NoOrphanToken'
  BY DEF TypeOK, ChannelInv, ChannelOk, Holding, NoOrphanToken
<1>4. KillSwitchDrops'
  BY DEF KillSwitchDrops
<1>5. TokenKept'
  BY DEF TypeOK, ChannelInv, ChannelOk, Holding, TokenKept
<1> QED
  BY <1>1, <1>2, <1>3, <1>4, <1>5

LEMMA MessageKeeps ==
  ASSUME IInv, NEW h \in Channels, NEW id \in 0 .. grants, Message(h, id)
  PROVE  IInv'
<1> USE DEF IInv, Message, consentVars
<1>1. TypeOK'
  BY DEF TypeOK, Pc, Logs
<1>2. ChannelInv'
  BY DEF TypeOK, ChannelInv, ChannelOk, Holding, NoSid
<1>3. NoOrphanToken'
  BY DEF TypeOK, ChannelInv, ChannelOk, Holding, NoOrphanToken
<1>4. KillSwitchDrops'
  BY DEF KillSwitchDrops
<1>5. TokenKept'
  BY DEF TypeOK, ChannelInv, ChannelOk, Holding, TokenKept
<1> QED
  BY <1>1, <1>2, <1>3, <1>4, <1>5

LEMMA UpgradeKeeps ==
  ASSUME IInv, NEW h \in Channels, NEW s \in Sessions, Upgrade(h, s)
  PROVE  IInv'
<1> USE DEF IInv, Upgrade, consentVars, Goto, Keys
<1>1. TypeOK'
  BY DEF TypeOK, Pc, Logs
<1>2. ChannelInv'
  BY DEF TypeOK, ChannelInv, ChannelOk, Holding, NoSid
<1>3. NoOrphanToken'
  BY DEF TypeOK, ChannelInv, ChannelOk, Holding, NoOrphanToken
<1>4. KillSwitchDrops'
  BY DEF KillSwitchDrops
<1>5. TokenKept'
  BY DEF TypeOK, ChannelInv, ChannelOk, Holding, TokenKept
<1> QED
  BY <1>1, <1>2, <1>3, <1>4, <1>5

LEMMA CheckSessionKeeps ==
  ASSUME IInv, NEW h \in Channels, CheckSession(h)
  PROVE  IInv'
<1> USE DEF IInv, CheckSession, consentVars, Goto
<1>1. TypeOK'
  BY DEF TypeOK, Pc, Logs
<1>2. ChannelInv'
  BY DEF TypeOK, ChannelInv, ChannelOk, Holding, NoSid
<1>3. NoOrphanToken'
  BY DEF TypeOK, ChannelInv, ChannelOk, Holding, NoOrphanToken
<1>4. KillSwitchDrops'
  BY DEF KillSwitchDrops
<1>5. TokenKept'
  BY DEF TypeOK, ChannelInv, ChannelOk, Holding, TokenKept
<1> QED
  BY <1>1, <1>2, <1>3, <1>4, <1>5

LEMMA NotShakenKeeps ==
  ASSUME IInv, NEW h \in Channels, NotShaken(h)
  PROVE  IInv'
<1> USE DEF IInv, NotShaken, consentVars, Goto
<1>1. TypeOK'
  BY DEF TypeOK, Pc, Logs
<1>2. ChannelInv'
  BY DEF TypeOK, ChannelInv, ChannelOk, Holding, NoSid
<1>3. NoOrphanToken'
  BY DEF TypeOK, ChannelInv, ChannelOk, Holding, NoOrphanToken
<1>4. KillSwitchDrops'
  BY DEF KillSwitchDrops
<1>5. TokenKept'
  BY DEF TypeOK, ChannelInv, ChannelOk, Holding, TokenKept
<1> QED
  BY <1>1, <1>2, <1>3, <1>4, <1>5

LEMMA NoBackendKeeps ==
  ASSUME IInv, NEW h \in Channels, NoBackend(h)
  PROVE  IInv'
<1> DEFINE log == <<"stop">>
<1> USE DEF IInv
<1>1. pc[h] = "shaken" /\ pc' = [pc EXCEPT ![h] = "done"] /\ log \in Logs
  BY DEF NoBackend, Goto, Logs
<1>2. audit' = [audit EXCEPT ![h] = log]
  BY Records DEF NoBackend, Record, TypeOK, ChannelInv, ChannelOk
<1>3. UNCHANGED <<consentVars, live, session, sid, carried, passed, gone>>
  BY DEF NoBackend
<1> USE DEF consentVars
<1>4. TypeOK'
  BY <1>1, <1>2, <1>3 DEF TypeOK, Pc
<1>5. ChannelInv'
  BY <1>1, <1>2, <1>3 DEF TypeOK, ChannelInv, ChannelOk, Holding
<1>6. NoOrphanToken'
  BY <1>1, <1>3 DEF TypeOK, NoOrphanToken, Holding
<1>7. KillSwitchDrops'
  BY <1>3 DEF KillSwitchDrops
<1>8. TokenKept'
  BY <1>1, <1>3 DEF TypeOK, ChannelInv, ChannelOk, TokenKept, Holding
<1> QED
  BY <1>4, <1>5, <1>6, <1>7, <1>8

LEMMA RefuseGrantKeeps ==
  ASSUME IInv, NEW h \in Channels, RefuseGrant(h)
  PROVE  IInv'
<1> DEFINE log == <<"stop">>
<1> USE DEF IInv
<1>1. pc[h] = "shaken" /\ pc' = [pc EXCEPT ![h] = "done"] /\ log \in Logs
  BY DEF RefuseGrant, Goto, Logs
<1>2. audit' = [audit EXCEPT ![h] = log]
  BY Records DEF RefuseGrant, Record, TypeOK, ChannelInv, ChannelOk
<1>3. UNCHANGED <<consentVars, live, session, sid, carried, passed, gone>>
  BY DEF RefuseGrant
<1> USE DEF consentVars
<1>4. TypeOK'
  BY <1>1, <1>2, <1>3 DEF TypeOK, Pc
<1>5. ChannelInv'
  BY <1>1, <1>2, <1>3 DEF TypeOK, ChannelInv, ChannelOk, Holding
<1>6. NoOrphanToken'
  BY <1>1, <1>3 DEF TypeOK, NoOrphanToken, Holding
<1>7. KillSwitchDrops'
  BY <1>3 DEF KillSwitchDrops
<1>8. TokenKept'
  BY <1>1, <1>3 DEF TypeOK, ChannelInv, ChannelOk, TokenKept, Holding
<1> QED
  BY <1>4, <1>5, <1>6, <1>7, <1>8

(* The sid is new, and its channel is one that had none.                   *)
LEMMA GrantKeeps ==
  ASSUME IInv, NEW h \in Channels, Grant(h)
  PROVE  IInv'
<1> DEFINE n == grants + 1
<1> USE DEF IInv
<1>1. n \in Nat /\ n \in 0 .. n /\ 0 .. grants \subseteq 0 .. n /\ n # NoSid
  BY MoreGrants DEF TypeOK
<1>2. killed < n
  BY DEF TypeOK
<1>3. session[h] \in Keys /\ session[h] \in Sessions
  BY DEF Grant, TypeOK, ChannelInv, ChannelOk
<1>4. /\ pc[h] = "shaken" /\ allowed /\ grants' = n
      /\ tokens' = [tokens EXCEPT ![session[h]] = n]
      /\ sid' = [sid EXCEPT ![h] = n]
      /\ pc' = [pc EXCEPT ![h] = "granted"]
      /\ UNCHANGED <<allowed, killed, live, session, carried, audit, passed, gone>>
  BY DEF Grant, Goto
<1> HIDE DEF n
<1>5. TypeOK'
  BY <1>1, <1>3, <1>4 DEF TypeOK, Pc
<1>6. ChannelInv'
  BY <1>1, <1>3, <1>4 DEF TypeOK, ChannelInv, ChannelOk, Holding
<1>7. NoOrphanToken'
  <2>1. session'[h] = session[h] /\ sid'[h] = tokens'[session[h]] /\ pc'[h] \in Holding
    BY <1>3, <1>4 DEF TypeOK, Holding
  <2>2. ASSUME NEW k \in Keys, k # session[h], tokens'[k] # NoSid
        PROVE  \E g \in Channels : session'[g] = k /\ sid'[g] = tokens'[k] /\ pc'[g] \in Holding
    BY <1>4, <2>2 DEF TypeOK, NoOrphanToken, Holding
  <2> QED
    BY <2>1, <2>2 DEF NoOrphanToken
<1>8. KillSwitchDrops'
  BY <1>2, <1>3, <1>4 DEF TypeOK, KillSwitchDrops
<1>9. TokenKept'
  <2> SUFFICES ASSUME NEW g \in Channels, pc'[g] \in Holding, tokens'[session'[g]] # sid'[g]
               PROVE  \/ sid'[g] <= killed'
                      \/ \E f \in Channels \ {g} : session'[f] = session'[g] /\ sid'[f] # NoSid
    BY DEF TokenKept
  <2>1. g # h
    BY <1>3, <1>4 DEF TypeOK
  <2>2. CASE session[g] = session[h]
    BY <1>1, <1>4, <2>1, <2>2 DEF TypeOK
  <2>3. CASE session[g] # session[h]
    <3>1. tokens[session[g]] # sid[g] /\ pc[g] \in Holding /\ sid'[g] = sid[g]
      BY <1>4, <2>1, <2>3 DEF TypeOK
    <3>2. ASSUME NEW f \in Channels, session[f] = session[g]
          PROVE  sid'[f] = sid[f]
      BY <1>4, <2>3, <3>2 DEF TypeOK
    <3> QED
      BY <1>4, <3>1, <3>2 DEF TokenKept
  <2> QED
    BY <2>2, <2>3
<1> QED
  BY <1>5, <1>6, <1>7, <1>8, <1>9

LEMMA StartKeeps ==
  ASSUME IInv, NEW h \in Channels, Start(h)
  PROVE  IInv'
<1> DEFINE log == <<"start">>
<1> USE DEF IInv
<1>1. pc[h] = "granted" /\ pc' = [pc EXCEPT ![h] = "serve"] /\ log \in Logs
  BY DEF Start, Goto, Logs
<1>2. audit' = [audit EXCEPT ![h] = log]
  BY Records DEF Start, Record, TypeOK, ChannelInv, ChannelOk
<1>3. UNCHANGED <<consentVars, live, session, sid, carried, passed, gone>>
  BY DEF Start
<1> USE DEF consentVars
<1>4. TypeOK'
  BY <1>1, <1>2, <1>3 DEF TypeOK, Pc
<1>5. ChannelInv'
  BY <1>1, <1>2, <1>3 DEF TypeOK, ChannelInv, ChannelOk, Holding
<1>6. NoOrphanToken'
  BY <1>1, <1>3 DEF TypeOK, NoOrphanToken, Holding
<1>7. KillSwitchDrops'
  BY <1>3 DEF KillSwitchDrops
<1>8. TokenKept'
  BY <1>1, <1>3 DEF TypeOK, ChannelInv, ChannelOk, TokenKept, Holding
<1> QED
  BY <1>4, <1>5, <1>6, <1>7, <1>8

LEMMA EndOfFramesKeeps ==
  ASSUME IInv, NEW h \in Channels, EndOfFrames(h)
  PROVE  IInv'
<1> USE DEF IInv, EndOfFrames, consentVars, Goto
<1>1. TypeOK'
  BY DEF TypeOK, Pc, Logs
<1>2. ChannelInv'
  BY DEF TypeOK, ChannelInv, ChannelOk, Holding, NoSid
<1>3. NoOrphanToken'
  BY DEF TypeOK, ChannelInv, ChannelOk, Holding, NoOrphanToken
<1>4. KillSwitchDrops'
  BY DEF KillSwitchDrops
<1>5. TokenKept'
  BY DEF TypeOK, ChannelInv, ChannelOk, Holding, TokenKept
<1> QED
  BY <1>1, <1>2, <1>3, <1>4, <1>5

LEMMA KillSwitchKeeps ==
  ASSUME IInv, NEW h \in Channels, KillSwitch(h)
  PROVE  IInv'
<1> USE DEF IInv, KillSwitch, consentVars, Goto
<1>1. TypeOK'
  BY DEF TypeOK, Pc, Logs
<1>2. ChannelInv'
  BY DEF TypeOK, ChannelInv, ChannelOk, Holding, NoSid
<1>3. NoOrphanToken'
  BY DEF TypeOK, ChannelInv, ChannelOk, Holding, NoOrphanToken
<1>4. KillSwitchDrops'
  BY DEF KillSwitchDrops
<1>5. TokenKept'
  BY DEF TypeOK, ChannelInv, ChannelOk, Holding, TokenKept
<1> QED
  BY <1>1, <1>2, <1>3, <1>4, <1>5

LEMMA ProceedKeeps ==
  ASSUME IInv, NEW h \in Channels, Proceed(h)
  PROVE  IInv'
<1> USE DEF IInv
<1>1. PICK there \in {"check", "serve"} : pc' = [pc EXCEPT ![h] = there]
  BY DEF Proceed, Goto
<1>2. pc[h] \in {"message", "check"} /\ passed' \in {passed, passed \cup {h}}
  BY DEF Proceed
<1>3. UNCHANGED <<consentVars, live, session, sid, carried, audit, gone>>
  BY DEF Proceed
<1> USE DEF consentVars
<1>4. TypeOK'
  BY <1>1, <1>2, <1>3 DEF TypeOK, Pc
<1>5. ChannelInv'
  BY <1>1, <1>2, <1>3 DEF TypeOK, ChannelInv, ChannelOk, Holding
<1>6. NoOrphanToken'
  BY <1>1, <1>3 DEF TypeOK, NoOrphanToken, Holding
<1>7. KillSwitchDrops'
  BY <1>3 DEF KillSwitchDrops
<1>8. TokenKept'
  BY <1>1, <1>2, <1>3 DEF TypeOK, TokenKept, Holding
<1> QED
  BY <1>4, <1>5, <1>6, <1>7, <1>8

LEMMA CheckTokenKeeps ==
  ASSUME IInv, NEW h \in Channels, CheckToken(h)
  PROVE  IInv'
<1> USE DEF IInv
<1>1. PICK there \in {"ending", "serve"} : pc' = [pc EXCEPT ![h] = there]
  BY DEF CheckToken, Goto
<1>2. pc[h] \in {"message", "check"} /\ passed' \in {passed, passed \cup {h}}
  BY DEF CheckToken
<1>3. UNCHANGED <<consentVars, live, session, sid, carried, audit, gone>>
  BY DEF CheckToken
<1> USE DEF consentVars
<1>4. TypeOK'
  BY <1>1, <1>2, <1>3 DEF TypeOK, Pc
<1>5. ChannelInv'
  BY <1>1, <1>2, <1>3 DEF TypeOK, ChannelInv, ChannelOk, Holding
<1>6. NoOrphanToken'
  BY <1>1, <1>3 DEF TypeOK, NoOrphanToken, Holding
<1>7. KillSwitchDrops'
  BY <1>3 DEF KillSwitchDrops
<1>8. TokenKept'
  BY <1>1, <1>2, <1>3 DEF TypeOK, TokenKept, Holding
<1> QED
  BY <1>4, <1>5, <1>6, <1>7, <1>8

(* A channel that ends takes the token of its session along, and is itself *)
(* the other channel that TokenKept asks for.                              *)
LEMMA RevokeKeeps ==
  ASSUME IInv, NEW h \in Channels, Revoke(h)
  PROVE  IInv'
<1> USE DEF IInv, Revoke, Goto
<1>1. TypeOK'
  BY DEF TypeOK, Pc, NoSid
<1>2. ChannelInv'
  BY DEF TypeOK, ChannelInv, ChannelOk, Holding
<1>3. NoOrphanToken'
  BY DEF TypeOK, NoOrphanToken, Holding
<1>4. KillSwitchDrops'
  BY DEF TypeOK, KillSwitchDrops
<1>5. TokenKept'
  <2>1. sid[h] # NoSid /\ pc[h] = "ending" /\ pc'[h] \notin Holding
    BY DEF TypeOK, ChannelInv, ChannelOk, Holding
  <2>2. ASSUME NEW g \in Channels, pc'[g] \in Holding, session[g] = session[h]
        PROVE  \E f \in Channels \ {g} : session[f] = session[g] /\ sid[f] # NoSid
    BY <2>1, <2>2
  <2>3. ASSUME NEW g \in Channels, pc'[g] \in Holding, session[g] # session[h]
        PROVE  pc[g] \in Holding /\ tokens'[session[g]] = tokens[session[g]]
    BY <2>1, <2>3 DEF TypeOK
  <2> QED
    BY <2>2, <2>3 DEF TokenKept
<1> QED
  BY <1>1, <1>2, <1>3, <1>4, <1>5

LEMMA StopKeeps ==
  ASSUME IInv, NEW h \in Channels, Stop(h)
  PROVE  IInv'
<1> DEFINE log == <<"start", "stop">>
<1> USE DEF IInv
<1>1. pc[h] = "revoked" /\ pc' = [pc EXCEPT ![h] = "done"] /\ log \in Logs
  BY DEF Stop, Goto, Logs
<1>2. audit' = [audit EXCEPT ![h] = log]
  BY Records DEF Stop, Record, TypeOK, ChannelInv, ChannelOk
<1>3. UNCHANGED <<consentVars, live, session, sid, carried, passed, gone>>
  BY DEF Stop
<1> USE DEF consentVars
<1>4. TypeOK'
  BY <1>1, <1>2, <1>3 DEF TypeOK, Pc
<1>5. ChannelInv'
  BY <1>1, <1>2, <1>3 DEF TypeOK, ChannelInv, ChannelOk, Holding
<1>6. NoOrphanToken'
  BY <1>1, <1>3 DEF TypeOK, NoOrphanToken, Holding
<1>7. KillSwitchDrops'
  BY <1>3 DEF KillSwitchDrops
<1>8. TokenKept'
  BY <1>1, <1>3 DEF TypeOK, ChannelInv, ChannelOk, TokenKept, Holding
<1> QED
  BY <1>4, <1>5, <1>6, <1>7, <1>8

----------------------------------------------------------------------------
LEMMA StutterKeeps ==
  ASSUME IInv, UNCHANGED vars
  PROVE  IInv'
  BY DEF IInv, TypeOK, ChannelInv, ChannelOk, NoOrphanToken, KillSwitchDrops, TokenKept, vars,
         consentVars, channelVars

LEMMA StepKeeps == IInv /\ [Next]_vars => IInv'
<1> SUFFICES ASSUME IInv, [Next]_vars PROVE IInv'
  OBVIOUS
<1>1. ASSUME NEW value \in BOOLEAN, SetAllowed(value) PROVE IInv'
  BY <1>1, SetAllowedKeeps
<1>2. ASSUME NEW s \in Sessions, Expire(s) PROVE IInv'
  BY <1>2, ExpireKeeps
<1>3. ASSUME NEW h \in Channels, NEW s \in Sessions, Upgrade(h, s) PROVE IInv'
  BY <1>3, UpgradeKeeps
<1>4. ASSUME NEW h \in Channels, Leave(h) \/ ChannelStep(h) PROVE IInv'
  BY <1>4, LeaveKeeps, CheckSessionKeeps, NotShakenKeeps, NoBackendKeeps, RefuseGrantKeeps,
     GrantKeeps, StartKeeps, EndOfFramesKeeps, KillSwitchKeeps, ProceedKeeps, CheckTokenKeeps,
     RevokeKeeps, StopKeeps DEF ChannelStep
<1>5. ASSUME NEW h \in Channels, NEW id \in 0 .. grants, Message(h, id) PROVE IInv'
  BY <1>5, MessageKeeps
<1>6. CASE UNCHANGED vars
  BY <1>6, StutterKeeps
<1> QED
  BY <1>1, <1>2, <1>3, <1>4, <1>5, <1>6 DEF Next

LEMMA Invariance == Spec => []IInv
  BY InvInit, StepKeeps, PTL DEF Spec

(* The variables keep their types; no channel's record of itself is ever   *)
(* anything but nothing, a start, a start and its stop, or a refusal.      *)
THEOREM TypeCorrect == Spec => []TypeOK
<1>1. IInv => TypeOK
  BY DEF IInv
<1> QED
  BY <1>1, Invariance, PTL

(* However many channels share a session, no token outlives its channel.   *)
THEOREM TokensHaveChannels == Spec => []NoOrphanToken
<1>1. IInv => NoOrphanToken
  BY DEF IInv
<1> QED
  BY <1>1, Invariance, PTL

(* Switching control off drops every token for good, whatever upgrades are *)
(* on their way.                                                           *)
THEOREM SwitchOffIsFinal == Spec => []KillSwitchDrops
<1>1. IInv => KillSwitchDrops
  BY DEF IInv
<1> QED
  BY <1>1, Invariance, PTL

(* Only the switch or a channel of the same session costs a channel its    *)
(* token.                                                                  *)
THEOREM SessionsAreSeparate == Spec => []TokenKept
<1>1. IInv => TokenKept
  BY DEF IInv
<1> QED
  BY <1>1, Invariance, PTL

----------------------------------------------------------------------------
(* The page                                                                *)

(* Control is on only while the page shows it or is about to; the dialog   *)
(* and the page's reset are met only with control off.                     *)
PageInv ==
  /\ PageTypeOK
  /\ allowed => shown \/ main = "granting"
  /\ asking => ~allowed /\ ~shown
  /\ main = "granting" => ~asking
  /\ main = "hiding" => ~allowed

HInv == PageInv /\ allowed \in BOOLEAN

----------------------------------------------------------------------------
(* The refinement                                                          *)

(* Each action of the page is a move of the switch, or leaves the channels *)
(* and the ledger alone.                                                   *)
LEMMA PageRefines == Page => [Next]_vars
  BY DEF Page, AskConsent, Decline, Consent, ShowControl, DisableControl, HideControl, Forbid,
         ClickHost, ServerUp, ClickUnhost, StopServer, CloseWindow, Next

LEMMA StepRefines == [HostNext]_hostVars => [Next]_vars
<1> SUFFICES ASSUME [HostNext]_hostVars PROVE [Next]_vars
  OBVIOUS
<1>1. CASE Page
  BY <1>1, PageRefines
<1>2. ASSUME NEW h \in Channels, Remote(h) PROVE [Next]_vars
  BY <1>2 DEF Remote, Next
<1>3. ASSUME NEW h \in Channels, Channel(h) PROVE [Next]_vars
  BY <1>3 DEF Channel, Next
<1>4. ASSUME NEW s \in Sessions, Ages(s) PROVE [Next]_vars
  BY <1>4 DEF Ages, Next
<1>5. CASE UNCHANGED hostVars
  BY <1>5 DEF hostVars
<1> QED
  BY <1>1, <1>2, <1>3, <1>4, <1>5 DEF HostNext

(* The window and the stream server only ever do to the control channel    *)
(* what ControlChannel says may be done.                                   *)
THEOREM HostImplementsChannel == HostSpec => Spec
<1>1. HostInit => Init
  BY DEF HostInit
<1> QED
  BY <1>1, StepRefines, PTL DEF HostSpec, Spec

----------------------------------------------------------------------------
(* The page                                                                *)

(* No step of a channel moves the switch.                                  *)
LEMMA ChannelsLeaveSwitch ==
  ASSUME NEW h \in Channels, Remote(h) \/ Channel(h)
  PROVE  UNCHANGED <<allowed, pageVars>>
<1> SUFFICES allowed' = allowed
  BY DEF Remote, Channel
<1>1. ASSUME NEW s \in Sessions, Upgrade(h, s) PROVE allowed' = allowed
  BY <1>1 DEF Upgrade, consentVars
<1>2. CASE Leave(h)
  BY <1>2 DEF Leave, consentVars
<1>3. ASSUME NEW id \in 0 .. grants, Message(h, id) PROVE allowed' = allowed
  BY <1>3 DEF Message, consentVars
<1>4. CASE ChannelStep(h)
  <2>1. CASE Grant(h) \/ Revoke(h)
    BY <2>1 DEF Grant, Revoke
  <2>2. CASE \/ CheckSession(h) \/ NotShaken(h) \/ NoBackend(h) \/ RefuseGrant(h) \/ Start(h)
             \/ EndOfFrames(h) \/ KillSwitch(h) \/ Proceed(h) \/ CheckToken(h) \/ Stop(h)
    BY <2>2 DEF CheckSession, NotShaken, NoBackend, RefuseGrant, Start, EndOfFrames, KillSwitch,
       Proceed, CheckToken, Stop, consentVars
  <2> QED
    BY <1>4, <2>1, <2>2 DEF ChannelStep
<1> QED
  BY <1>1, <1>2, <1>3, <1>4 DEF Remote, Channel

LEMMA PageStepKeeps == ASSUME HInv, Page PROVE HInv'
<1> USE DEF HInv, PageInv, PageTypeOK
<1>1. CASE AskConsent
  BY <1>1 DEF AskConsent, vars, consentVars
<1>2. CASE Decline
  BY <1>2 DEF Decline, vars, consentVars
<1>3. CASE Consent
  BY <1>3 DEF Consent, SetAllowed
<1>4. CASE ShowControl
  BY <1>4 DEF ShowControl, vars, consentVars
<1>5. CASE DisableControl
  BY <1>5 DEF DisableControl, Forbid, SetAllowed, vars, consentVars
<1>6. CASE HideControl
  BY <1>6 DEF HideControl, vars, consentVars
<1>7. CASE ClickHost \/ ServerUp \/ ClickUnhost \/ StopServer
  <2>1. UNCHANGED <<allowed, asking, shown, was, noted>>
    BY <1>7 DEF ClickHost, ServerUp, ClickUnhost, StopServer, vars, consentVars
  <2> QED
    BY <1>7, <2>1 DEF ClickHost, ServerUp, ClickUnhost, StopServer
<1>8. CASE CloseWindow
  BY <1>8 DEF CloseWindow, Forbid, SetAllowed, vars, consentVars
<1> QED
  BY <1>1, <1>2, <1>3, <1>4, <1>5, <1>6, <1>7, <1>8 DEF Page

LEMMA HostStepKeeps == HInv /\ [HostNext]_hostVars => HInv'
<1> SUFFICES ASSUME HInv, [HostNext]_hostVars PROVE HInv'
  OBVIOUS
<1>1. CASE Page
  BY <1>1, PageStepKeeps
<1>2. CASE UNCHANGED <<allowed, pageVars>>
  BY <1>2 DEF HInv, PageInv, PageTypeOK, pageVars
<1>3. ASSUME NEW h \in Channels, Remote(h) \/ Channel(h) PROVE HInv'
  BY <1>2, <1>3, ChannelsLeaveSwitch
<1>4. ASSUME NEW s \in Sessions, Ages(s) PROVE HInv'
  BY <1>2, <1>4 DEF Ages, Expire, consentVars
<1>5. CASE UNCHANGED hostVars
  BY <1>2, <1>5 DEF hostVars, vars, consentVars
<1> QED
  BY <1>1, <1>3, <1>4, <1>5 DEF HostNext

LEMMA HostInvariance == HostSpec => []HInv
<1>1. HostInit => HInv
  BY DEF HostInit, Init, HInv, PageInv, PageTypeOK
<1> QED
  BY <1>1, HostStepKeeps, PTL DEF HostSpec

(* The page's variables keep their types.                                  *)
THEOREM PageTypeCorrect == HostSpec => []PageTypeOK
<1>1. HInv => PageTypeOK
  BY DEF HInv, PageInv
<1> QED
  BY <1>1, HostInvariance, PTL

(* With any number of channels and sessions, nobody holds a control token  *)
(* that the page does not show: a token is in the ledger only while the    *)
(* switch is on, and the switch is on only while it is shown.              *)
THEOREM ControlIsShown == HostSpec => []SeenWhileHeld
<1>1. HInv /\ KillSwitchDrops => SeenWhileHeld
  BY DEF HInv, PageInv, KillSwitchDrops, SeenWhileHeld
<1> QED
  BY <1>1, HostInvariance, HostImplementsChannel, SwitchOffIsFinal, PTL

(* The ledger's invariants, under the window.                              *)
THEOREM HostedTokensHaveChannels == HostSpec => [](NoOrphanToken /\ KillSwitchDrops)
  BY HostImplementsChannel, TokensHaveChannels, SwitchOffIsFinal, PTL
===============================================================================
