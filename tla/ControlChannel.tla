---------------------------- MODULE ControlChannel ----------------------------
(***************************************************************************)
(* Remote control: screen/control_server.py.  A client upgrades a request  *)
(* for /control to a WebSocket; the host must have switched control on, and *)
(* grants a control token (sid) that the client puts into every message.   *)
(*                                                                         *)
(* Each channel is served by a thread of its own, and the host moves the   *)
(* switch while channels are set up and served.  The methods of            *)
(* ControlConsent hold its lock, so each is one action.  sids are numbered *)
(* in the order they are drawn.  What an accepted message would inject is  *)
(* left out: no message gets that far.                                     *)
(***************************************************************************)
EXTENDS Integers, Sequences

CONSTANTS
  Channels,  \* requests for /control
  Sessions,  \* tokens of SessionManager
  Address    \* the clients' address: never the text of a session token

ASSUME KeysAssumption == Address \notin Sessions

NoSid == 0
NoSession == Address
Keys == Sessions \cup {Address}

VARIABLES
  allowed,  \* _allowed
  tokens,   \* _tokens, NoSid for a key without an entry
  grants,   \* sids drawn so far
  live,     \* sessions that verify_token accepts
  pc,       \* where the thread of a channel is
  session,  \* session_token of handle_upgrade
  sid,      \* the sid a channel was granted
  carried,  \* the sid in the message that is being handled
  gone,     \* channels whose client closed, or sent a frame that ends the channel
  audit,    \* the records a channel wrote to the history
  passed,   \* history: channels that had a message accepted
  killed    \* history: the sids up to this one were drawn before the switch went off

consentVars == <<allowed, tokens, grants, killed>>
channelVars == <<pc, session, sid, carried, audit, passed>>
vars == <<consentVars, live, channelVars, gone>>

Pc == {"idle", "auth", "scope", "shaken", "granted", "serve", "message", "check", "ending",
       "revoked", "done"}
Logs == {<<>>, <<"start">>, <<"start", "stop">>, <<"stop">>}

TypeOK ==
  /\ allowed \in BOOLEAN
  /\ grants \in Nat
  /\ tokens \in [Keys -> 0 .. grants]
  /\ live \in SUBSET Sessions
  /\ pc \in [Channels -> Pc]
  /\ session \in [Channels -> Keys]
  /\ sid \in [Channels -> 0 .. grants]
  /\ carried \in [Channels -> 0 .. grants]
  /\ gone \in SUBSET Channels
  /\ audit \in [Channels -> Logs]
  /\ passed \in SUBSET Channels
  /\ killed \in 0 .. grants

Init ==
  /\ allowed = FALSE
  /\ tokens = [k \in Keys |-> NoSid]
  /\ grants = 0
  /\ live = Sessions
  /\ pc = [h \in Channels |-> "idle"]
  /\ session = [h \in Channels |-> NoSession]
  /\ sid = [h \in Channels |-> NoSid]
  /\ carried = [h \in Channels |-> NoSid]
  /\ gone = {}
  /\ audit = [h \in Channels |-> <<>>]
  /\ passed = {}
  /\ killed = 0

----------------------------------------------------------------------------
(* The host, the sessions and the clients                                  *)

(* set_allowed: switching control off drops every token.                   *)
SetAllowed(value) ==
  /\ allowed # value
  /\ allowed' = value
  /\ tokens' = IF value THEN tokens ELSE [k \in Keys |-> NoSid]
  /\ killed' = IF value THEN killed ELSE grants
  /\ UNCHANGED <<grants, live, channelVars, gone>>

(* A session reaches the end of its hour.                                  *)
Expire(s) ==
  /\ s \in live
  /\ live' = live \ {s}
  /\ UNCHANGED <<consentVars, channelVars, gone>>

(* The client closes the channel, sends a frame that ends it, or breaks.   *)
Leave(h) ==
  /\ pc[h] # "idle" /\ h \notin gone
  /\ gone' = gone \cup {h}
  /\ UNCHANGED <<consentVars, live, channelVars>>

(* The client sends a message with a sid that it may have from any grant.  *)
Message(h, id) ==
  /\ pc[h] = "serve" /\ h \notin gone
  /\ pc' = [pc EXCEPT ![h] = "message"]
  /\ carried' = [carried EXCEPT ![h] = id]
  /\ UNCHANGED <<consentVars, live, session, sid, audit, passed, gone>>

----------------------------------------------------------------------------
(* handle_upgrade                                                          *)

Goto(h, there) == pc' = [pc EXCEPT ![h] = there]
Record(h, status) == audit' = [audit EXCEPT ![h] = Append(@, status)]

(* A well-formed request arrives while the switch is on.                   *)
Upgrade(h, s) ==
  /\ pc[h] = "idle" /\ allowed
  /\ Goto(h, "auth")
  /\ session' = [session EXCEPT ![h] = s]
  /\ UNCHANGED <<consentVars, live, sid, carried, audit, passed, gone>>

(* _check_auth, and then the scope: create_session gives every session the *)
(* capability "control", so that only its end makes a session unfit.       *)
CheckSession(h) ==
  /\ pc[h] \in {"auth", "scope"}
  /\ Goto(h, IF session[h] \notin live THEN "done"
             ELSE IF pc[h] = "auth" THEN "scope" ELSE "shaken")
  /\ UNCHANGED <<consentVars, live, session, sid, carried, audit, passed, gone>>

(* The 101 cannot be written any more.                                     *)
NotShaken(h) ==
  /\ pc[h] = "scope" /\ h \in gone
  /\ Goto(h, "done")
  /\ UNCHANGED <<consentVars, live, session, sid, carried, audit, passed, gone>>

(* There is nothing to inject with: the grant is refused.                  *)
NoBackend(h) ==
  /\ pc[h] = "shaken"
  /\ Record(h, "stop")
  /\ Goto(h, "done")
  /\ UNCHANGED <<consentVars, live, session, sid, carried, passed, gone>>

(* The switch went off after the upgrade had looked at it: grant is None.  *)
RefuseGrant(h) ==
  /\ pc[h] = "shaken" /\ ~allowed
  /\ Record(h, "stop")
  /\ Goto(h, "done")
  /\ UNCHANGED <<consentVars, live, session, sid, carried, passed, gone>>

(* Mutant: grant relies on what the upgrade saw of the switch.             *)
GrantUnchecked(h) ==
  /\ pc[h] = "shaken"
  /\ grants' = grants + 1
  /\ tokens' = [tokens EXCEPT ![session[h]] = grants + 1]
  /\ sid' = [sid EXCEPT ![h] = grants + 1]
  /\ Goto(h, "granted")
  /\ UNCHANGED <<allowed, killed, live, session, carried, audit, passed, gone>>

(* grant: the new sid replaces the one the session had.                    *)
Grant(h) ==
  /\ pc[h] = "shaken" /\ allowed
  /\ grants' = grants + 1
  /\ tokens' = [tokens EXCEPT ![session[h]] = grants + 1]
  /\ sid' = [sid EXCEPT ![h] = grants + 1]
  /\ Goto(h, "granted")
  /\ UNCHANGED <<allowed, killed, live, session, carried, audit, passed, gone>>

(* The start is recorded, and the grant sent.                              *)
Start(h) ==
  /\ pc[h] = "granted"
  /\ Record(h, "start")
  /\ Goto(h, "serve")
  /\ UNCHANGED <<consentVars, live, session, sid, carried, passed, gone>>

(* Mutant: the end of a channel leaves its token.                          *)
RevokeNothing(h) ==
  /\ pc[h] = "ending"
  /\ Goto(h, "revoked")
  /\ UNCHANGED <<consentVars, live, session, sid, carried, audit, passed, gone>>

(* finally: revoke takes whatever sid the session has now.                 *)
Revoke(h) ==
  /\ pc[h] = "ending"
  /\ tokens' = [tokens EXCEPT ![session[h]] = NoSid]
  /\ Goto(h, "revoked")
  /\ UNCHANGED <<allowed, grants, killed, live, session, sid, carried, audit, passed, gone>>

(* Mutant: only channels that the switch did not end are recorded.         *)
StopIfAllowed(h) ==
  /\ pc[h] = "revoked"
  /\ IF allowed THEN Record(h, "stop") ELSE UNCHANGED audit
  /\ Goto(h, "done")
  /\ UNCHANGED <<consentVars, live, session, sid, carried, passed, gone>>

(* The backend is closed and the stop recorded.                            *)
Stop(h) ==
  /\ pc[h] = "revoked"
  /\ Record(h, "stop")
  /\ Goto(h, "done")
  /\ UNCHANGED <<consentVars, live, session, sid, carried, passed, gone>>

----------------------------------------------------------------------------
(* _serve                                                                  *)

(* The next frame ends the channel, or does not come.                      *)
EndOfFrames(h) ==
  /\ pc[h] = "serve" /\ h \in gone
  /\ Goto(h, "ending")
  /\ UNCHANGED <<consentVars, live, session, sid, carried, audit, passed, gone>>

(* The switch is looked at only here, when a message has come.             *)
KillSwitch(h) ==
  /\ pc[h] = "message" /\ ~allowed
  /\ Goto(h, "ending")
  /\ UNCHANGED <<consentVars, live, session, sid, carried, audit, passed, gone>>

(* The message goes on to the token check, or is dropped because of the    *)
(* rate limit or its form.                                                 *)
Proceed(h) ==
  /\ pc[h] = "message" /\ allowed
  /\ \/ Goto(h, "check")
     \/ Goto(h, "serve")
  /\ UNCHANGED <<consentVars, live, session, sid, carried, audit, passed, gone>>

Validate(key, id) == allowed /\ id # NoSid /\ tokens[key] = id

(* The token is looked up under the client's address.  An accepted message *)
(* would end the channel: the lookup of its scope names an attribute that  *)
(* the stream server does not have.                                        *)
CheckToken(h) ==
  /\ pc[h] = "check"
  /\ IF Validate(Address, carried[h])
       THEN passed' = passed \cup {h} /\ Goto(h, "ending")
       ELSE Goto(h, "serve") /\ UNCHANGED passed
  /\ UNCHANGED <<consentVars, live, session, sid, carried, audit, gone>>

----------------------------------------------------------------------------
ChannelStep(h) ==
  \/ CheckSession(h) \/ NotShaken(h) \/ NoBackend(h) \/ RefuseGrant(h) \/ Grant(h) \/ Start(h)
  \/ EndOfFrames(h) \/ KillSwitch(h) \/ Proceed(h) \/ CheckToken(h) \/ Revoke(h) \/ Stop(h)

Next ==
  \/ \E value \in BOOLEAN : SetAllowed(value)
  \/ \E s \in Sessions : Expire(s) \/ \E h \in Channels : Upgrade(h, s)
  \/ \E h \in Channels : Leave(h) \/ ChannelStep(h)
  \/ \E h \in Channels, id \in 0 .. grants : Message(h, id)

Spec == Init /\ [][Next]_vars

(* A thread that does not wait for a frame goes on.                        *)
FairSpec == Spec /\ \A h \in Channels : WF_vars(ChannelStep(h))

----------------------------------------------------------------------------
(* Properties                                                              *)

(* Where a channel is between the grant and the revoke in its finally.     *)
Holding == {"granted", "serve", "message", "check", "ending"}

(* A token is in the ledger only as long as the channel it was granted to  *)
(* is there: whichever of two channels of a session ends first, and        *)
(* however the switch is moved, none survives its channel.                 *)
NoOrphanToken ==
  \A k \in Keys : tokens[k] # NoSid =>
    \E h \in Channels : session[h] = k /\ sid[h] = tokens[k] /\ pc[h] \in Holding

(* Switching control off leaves no token, although an upgrade may have     *)
(* found it on before, and no token from before comes back.                *)
KillSwitchDrops ==
  /\ ~allowed => \A k \in Keys : tokens[k] = NoSid
  /\ \A k \in Keys : tokens[k] # NoSid => tokens[k] > killed

(* A channel loses its token only to the switch, or to another channel of  *)
(* the same session: sessions do not disturb each other (revoke).          *)
TokenKept ==
  \A h \in Channels :
    pc[h] \in Holding /\ tokens[session[h]] # sid[h] =>
      \/ sid[h] <= killed
      \/ \E g \in Channels \ {h} : session[g] = session[h] /\ sid[g] # NoSid

(* Control is never silent: a channel that was granted a token and whose   *)
(* client has left ends, and both its start and its stop are recorded.     *)
StopsAreRecorded ==
  \A h \in Channels : sid[h] # NoSid /\ h \in gone ~> audit[h] = <<"start", "stop">>

=============================================================================
