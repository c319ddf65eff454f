---------------------------- MODULE ScreenAccess ----------------------------
(***************************************************************************)
(* How a client gets into a shared screen: screen/pairing.py and the       *)
(* routes of screen/stream_server.py that use it.  /request_pin puts a PIN *)
(* on the host's screen, /auth trades it for a session token, and every    *)
(* other route asks for the token.                                         *)
(*                                                                         *)
(* Each request is served by a thread of its own.  The methods of the two  *)
(* managers hold their lock, so each is one action; what a handler does    *)
(* between two of them is not atomic.  PINs and tokens are numbered in the *)
(* order they are drawn: two draws are taken to be different.  Showing a   *)
(* PIN on the screen (pin_callback) changes nothing here and is left out.  *)
(***************************************************************************)
EXTENDS Integers, Sequences

CONSTANTS
  Clients,     \* client addresses
  Local,       \* 127.0.0.1
  Threads,     \* request threads
  PinTtl,      \* _PIN_TTL_SECONDS
  Lockout,     \* _LOCKOUT_SECONDS
  MaxFails,    \* _MAX_FAILED_ATTEMPTS
  SessionTtl,  \* _SESSION_TTL
  MaxTime,     \* bound: the clock
  MaxPins      \* bound: PINs drawn

ASSUME ClientsAssumption == Local \in Clients
ASSUME TimesAssumption ==
  /\ PinTtl \in Nat
  /\ Lockout \in Nat \ {0}
  /\ MaxFails \in Nat \ {0}
  /\ SessionTtl \in Nat \ {0}
  /\ MaxTime \in Nat
  /\ MaxPins \in Nat \ {0}

NoPin == 0
NotText == -1  \* an entry that compare_digest or strip raises on
NoLock == 0
Idle == [pc |-> "idle", client |-> Local, pin |-> NoPin]

VARIABLES
  now,           \* time.time()
  issued,        \* issued[p]: for whom and when PIN p was drawn
  pending,       \* pending_pairs: the PIN a client may enter, or NoPin
  fails,         \* _fail_counts, 0 for a client without an entry
  blockedUntil,  \* _blocked_until, NoLock for a client without an entry
  tokens,        \* tokens[k]: when session k was created, and with which PIN
  sessions,      \* the tokens in SessionManager.sessions
  thread,        \* request threads between two calls of a manager
  accepted,      \* history: the PINs that verify_pin answered True to
  wrong,         \* history: when a client's last wrong PINs were compared
  lockedAt       \* history: when a client was last locked

managerVars == <<pending, fails, blockedUntil>>
historyVars == <<accepted, wrong, lockedAt>>
vars == <<now, issued, managerVars, tokens, sessions, thread, historyVars>>

Pins == 1 .. Len(issued)

TypeOK ==
  /\ now \in 1 .. MaxTime + 1
  /\ issued \in Seq([client : Clients, at : 1 .. now])
  /\ pending \in [Clients -> {NoPin} \cup Pins]
  /\ fails \in [Clients -> 0 .. MaxFails]
  /\ blockedUntil \in [Clients -> Nat]
  /\ tokens \in Seq([pin : Pins, at : 1 .. now])
  /\ sessions \in SUBSET DOMAIN tokens
  /\ thread \in [Threads -> [pc : {"idle", "session"}, client : Clients,
                             pin : {NoPin} \cup Pins]]
  /\ accepted \in SUBSET Pins
  /\ wrong \in [Clients -> Seq(1 .. now)]
  /\ lockedAt \in [Clients -> 0 .. now]

----------------------------------------------------------------------------
(* ScreenPairingManager                                                    *)

Expired(c) == pending[c] # NoPin /\ now - issued[pending[c]].at > PinTtl
Locked(c) == blockedUntil[c] # NoLock /\ now < blockedUntil[c]
LockOver(c) == blockedUntil[c] # NoLock /\ now >= blockedUntil[c]

(* Mutant: the clean-up of old PINs is forgotten.                          *)
AllPending == [c \in Clients |-> pending[c]]

(* _cleanup_expired: what it leaves of the three dictionaries.             *)
CleanPending == [c \in Clients |-> IF Expired(c) THEN NoPin ELSE pending[c]]
CleanFails == [c \in Clients |-> IF LockOver(c) THEN 0 ELSE fails[c]]
CleanLocks == [c \in Clients |-> IF LockOver(c) THEN NoLock ELSE blockedUntil[c]]

Draw(c) == issued' = Append(issued, [client |-> c, at |-> now])

(* generate_pin_for_request                                                *)
Generate(c) ==
  /\ Len(issued) < MaxPins
  /\ Draw(c)
  /\ pending' = [CleanPending EXCEPT ![c] = Len(issued) + 1]
  /\ fails' = CleanFails
  /\ blockedUntil' = CleanLocks

(* verify_pin answers True: the request and the counter are dropped.       *)
Accept(c) ==
  /\ pending' = [CleanPending EXCEPT ![c] = NoPin]
  /\ fails' = [CleanFails EXCEPT ![c] = 0]
  /\ blockedUntil' = CleanLocks
  /\ accepted' = accepted \cup {CleanPending[c]}
  /\ wrong' = [wrong EXCEPT ![c] = <<>>]
  /\ UNCHANGED lockedAt

(* The last n elements of a sequence.                                      *)
LastOf(q, n) == IF Len(q) <= n THEN q ELSE SubSeq(q, Len(q) - n + 1, Len(q))

(* verify_pin counts a wrong PIN; at the threshold the client is locked    *)
(* and its request dropped.                                                *)
Reject(c) ==
  LET n == CleanFails[c] + 1
      lock == n >= MaxFails
  IN  /\ fails' = [CleanFails EXCEPT ![c] = n]
      /\ pending' = IF lock THEN [CleanPending EXCEPT ![c] = NoPin] ELSE CleanPending
      /\ blockedUntil' = IF lock THEN [CleanLocks EXCEPT ![c] = now + Lockout] ELSE CleanLocks
      /\ lockedAt' = IF lock THEN [lockedAt EXCEPT ![c] = now] ELSE lockedAt
      /\ wrong' = [wrong EXCEPT ![c] = LastOf(Append(@, now), MaxFails + 1)]
      /\ UNCHANGED accepted

----------------------------------------------------------------------------
(* The handlers                                                            *)

(* start_server has run once: its PIN is pending for Local.                *)
Init ==
  /\ now = 1
  /\ issued = <<[client |-> Local, at |-> 1]>>
  /\ pending = [c \in Clients |-> IF c = Local THEN 1 ELSE NoPin]
  /\ fails = [c \in Clients |-> 0]
  /\ blockedUntil = [c \in Clients |-> NoLock]
  /\ tokens = <<>>
  /\ sessions = {}
  /\ thread = [t \in Threads |-> Idle]
  /\ accepted = {}
  /\ wrong = [c \in Clients |-> <<>>]
  /\ lockedAt = [c \in Clients |-> 0]

Tick ==
  /\ now <= MaxTime
  /\ now' = now + 1
  /\ UNCHANGED <<issued, managerVars, tokens, sessions, thread, historyVars>>

(* GET /request_pin.  With Local it is also start_server again, after      *)
(* stop_server: neither manager is reset in between.                       *)
RequestPin(c) ==
  /\ Generate(c)
  /\ UNCHANGED <<now, tokens, sessions, thread, historyVars>>

(* Mutant: the lock is looked at after the PIN.                            *)
AuthWhileLocked(t, c, entered) ==
  /\ thread[t] = Idle
  /\ CleanPending[c] # NoPin
  /\ IF entered = CleanPending[c]
       THEN /\ Accept(c)
            /\ thread' = [thread EXCEPT ![t] =
                            [pc |-> "session", client |-> c, pin |-> entered]]
       ELSE Reject(c) /\ UNCHANGED thread
  /\ UNCHANGED <<now, issued, tokens, sessions>>

(* Mutant: the request stays after its PIN was entered.                    *)
AuthKeepsRequest(t, c, entered) ==
  /\ thread[t] = Idle
  /\ ~Locked(c)
  /\ CleanPending[c] # NoPin
  /\ entered = CleanPending[c]
  /\ fails' = [CleanFails EXCEPT ![c] = 0]
  /\ accepted' = accepted \cup {entered}
  /\ thread' = [thread EXCEPT ![t] = [pc |-> "session", client |-> c, pin |-> entered]]
  /\ UNCHANGED <<now, issued, pending, blockedUntil, tokens, sessions, wrong, lockedAt>>

(* POST /auth with a PIN, up to the end of verify_pin.  A locked client is *)
(* refused and nothing changes; without a pending PIN, or with an entry    *)
(* that cannot be compared (BAD_REQUEST), only the clean-up is left.       *)
Auth(t, c, entered) ==
  /\ thread[t] = Idle
  /\ ~Locked(c)
  /\ \/ /\ CleanPending[c] = NoPin \/ entered = NotText
        /\ pending' = CleanPending
        /\ fails' = CleanFails
        /\ blockedUntil' = CleanLocks
        /\ UNCHANGED <<thread, historyVars>>
     \/ /\ CleanPending[c] # NoPin
        /\ entered = CleanPending[c]
        /\ Accept(c)
        /\ thread' = [thread EXCEPT ![t] = [pc |-> "session", client |-> c, pin |-> entered]]
     \/ /\ CleanPending[c] # NoPin
        /\ entered \notin {NotText, CleanPending[c]}
        /\ Reject(c)
        /\ UNCHANGED thread
  /\ UNCHANGED <<now, issued, tokens, sessions>>

(* create_session, for the thread whose verify_pin answered True.          *)
CreateSession(t) ==
  /\ thread[t].pc = "session"
  /\ tokens' = Append(tokens, [pin |-> thread[t].pin, at |-> now])
  /\ sessions' = sessions \cup {Len(tokens) + 1}
  /\ thread' = [thread EXCEPT ![t] = Idle]
  /\ UNCHANGED <<now, issued, managerVars, historyVars>>

Live(k) == k \in sessions /\ now - tokens[k].at < SessionTtl

(* verify_token drops a session that is over when it is next used.         *)
DropSession(k) ==
  /\ k \in sessions /\ ~Live(k)
  /\ sessions' = sessions \ {k}
  /\ UNCHANGED <<now, issued, managerVars, tokens, thread, historyVars>>

(* A files route finds a path outside its root: revoke_pin(client_ip).     *)
Traversal(k, c) ==
  /\ Live(k)
  /\ pending[c] # NoPin
  /\ pending' = [pending EXCEPT ![c] = NoPin]
  /\ UNCHANGED <<now, issued, fails, blockedUntil, tokens, sessions, thread, historyVars>>

Next ==
  \/ Tick
  \/ \E c \in Clients : RequestPin(c)
  \/ \E t \in Threads, c \in Clients, entered \in {NotText, NoPin} \cup Pins :
       Auth(t, c, entered)
  \/ \E t \in Threads : CreateSession(t)
  \/ \E k \in sessions : DropSession(k)
  \/ \E k \in sessions, c \in Clients : Traversal(k, c)

Spec == Init /\ [][Next]_vars

----------------------------------------------------------------------------
(* Properties                                                              *)

(* The brute-force limit: MaxFails + 1 wrong PINs of one client, with no   *)
(* right one between them, span a whole lockout, whatever PINs are drawn,  *)
(* cleaned up or revoked in between (verify_pin, _cleanup_expired).        *)
GuessRate ==
  \A c \in Clients :
    Len(wrong[c]) = MaxFails + 1 => wrong[c][MaxFails + 1] - wrong[c][1] >= Lockout

(* verify_pin answers True only to the newest PIN drawn for the very       *)
(* client, within its lifetime, once, and never within a lockout.          *)
AcceptedPin(t) ==
  LET p == thread'[t].pin
      c == thread'[t].client
  IN  /\ p \in Pins \ accepted
      /\ issued[p].client = c
      /\ now - issued[p].at <= PinTtl
      /\ \A q \in Pins : q > p => issued[q].client # c
      /\ lockedAt[c] # 0 => now >= lockedAt[c] + Lockout

AcceptsProperly ==
  [][\A t \in Threads :
       thread[t].pc = "idle" /\ thread'[t].pc = "session" => AcceptedPin(t)]_vars

(* A PIN opens at most one session, although /auth creates the session     *)
(* after verify_pin has let go of its lock.                                *)
OneSessionPerPin ==
  /\ \A k \in DOMAIN tokens : tokens[k].pin \in accepted
  /\ \A j, k \in DOMAIN tokens : j # k => tokens[j].pin # tokens[k].pin
=============================================================================
