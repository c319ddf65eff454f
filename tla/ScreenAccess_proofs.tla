------------------------- MODULE ScreenAccess_proofs -------------------------
(***************************************************************************)
(* Proofs about ScreenAccess.                                              *)
(***************************************************************************)
EXTENDS ScreenAccess, SequenceTheorems, TLAPS

(* A pending PIN is the newest one of its client and was not accepted.     *)
PendingInv ==
  \A c \in Clients :
    pending[c] # NoPin =>
      /\ issued[pending[c]].client = c
      /\ pending[c] \notin accepted
      /\ \A q \in Pins : q > pending[c] => issued[q].client # c

(* A thread between verify_pin and create_session holds a PIN of its own.  *)
ThreadInv ==
  \A t \in Threads :
    thread[t].pc = "session" =>
      /\ thread[t].pin \in accepted
      /\ \A k \in DOMAIN tokens : tokens[k].pin # thread[t].pin
      /\ \A u \in Threads \ {t} :
           thread[u].pc = "session" => thread[u].pin # thread[t].pin

(* The books of one client: w its last wrong PINs, f its count, b and l    *)
(* the end and the start of its lockout, n the clock.  The last f wrong    *)
(* PINs count towards the next lockout, and those before them are a whole  *)
(* lockout old.                                                            *)
LockOk(f, b, l, n) ==
  /\ f = MaxFails <=> b # NoLock
  /\ b # NoLock => b = l + Lockout
  /\ l # 0 /\ b = NoLock => l + Lockout <= n

GuessOk(w, f, b, l, n) ==
  /\ f <= Len(w)
  /\ Len(w) <= MaxFails + 1
  /\ b # NoLock => \A i \in 1 .. Len(w) : w[i] <= l
  /\ \A i \in 1 .. (Len(w) - f) : w[i] + Lockout <= n
  /\ Len(w) = MaxFails + 1 => w[MaxFails + 1] - w[1] >= Lockout

LockInv == \A c \in Clients : LockOk(fails[c], blockedUntil[c], lockedAt[c], now)

GuessInv ==
  \A c \in Clients : GuessOk(wrong[c], fails[c], blockedUntil[c], lockedAt[c], now)

IInv == TypeOK /\ PendingInv /\ ThreadInv /\ LockInv /\ GuessInv /\ OneSessionPerPin

----------------------------------------------------------------------------
(* The books of one client                                                 *)

LEMMA LastOfAppend ==
  ASSUME NEW w \in Seq(Nat), NEW n \in Nat, Len(w) <= MaxFails + 1
  PROVE  LET v == LastOf(Append(w, n), MaxFails + 1)
             d == Len(w) + 1 - Len(v)
         IN  /\ v \in Seq(Nat)
             /\ Len(v) = IF Len(w) = MaxFails + 1 THEN MaxFails + 1 ELSE Len(w) + 1
             /\ v[Len(v)] = n
             /\ \A i \in 1 .. (Len(v) - 1) : v[i] = w[i + d]
<1> DEFINE a == Append(w, n)
           v == LastOf(a, MaxFails + 1)
<1>1. /\ a \in Seq(Nat)
      /\ Len(a) = Len(w) + 1
      /\ a[Len(w) + 1] = n
      /\ \A i \in 1 .. Len(w) : a[i] = w[i]
  BY AppendProperties
<1>2. Len(w) \in Nat
  BY LenProperties
<1>3. CASE Len(w) + 1 <= MaxFails + 1
  <2>1. v = a
    BY <1>1, <1>3 DEF LastOf
  <2> HIDE DEF v, a
  <2>2. /\ v \in Seq(Nat)
        /\ Len(v) = Len(w) + 1
        /\ v[Len(v)] = n
        /\ \A i \in 1 .. (Len(v) - 1) : v[i] = w[i]
    BY <1>1, <1>2, <2>1
  <2>3. \A i \in 1 .. (Len(v) - 1) : v[i] = w[i + (Len(w) + 1 - Len(v))]
    BY <1>2, <2>2
  <2>4. Len(w) # MaxFails + 1
    BY <1>2, <1>3, TimesAssumption
  <2> QED
    BY <2>2, <2>3, <2>4 DEF v, a
<1>4. CASE Len(w) = MaxFails + 1
  <2>1. v = SubSeq(a, 2, MaxFails + 2)
    BY <1>1, <1>4, TimesAssumption DEF LastOf
  <2>2. /\ v \in Seq(Nat)
        /\ Len(v) = MaxFails + 1
        /\ \A i \in 1 .. (MaxFails + 1) : v[i] = a[i + 1]
    <3>1. \A i \in 2 .. (MaxFails + 2) : i \in 1 .. Len(a)
      BY <1>1, <1>4, TimesAssumption
    <3>2. MaxFails + 2 - 2 + 1 = MaxFails + 1 /\ 2 <= MaxFails + 2 /\ MaxFails + 2 \in Int
      BY TimesAssumption
    <3> HIDE DEF v, a
    <3>3. /\ SubSeq(a, 2, MaxFails + 2) \in Seq(Nat)
          /\ Len(SubSeq(a, 2, MaxFails + 2)) = MaxFails + 1
          /\ \A i \in 1 .. (MaxFails + 1) : SubSeq(a, 2, MaxFails + 2)[i] = a[2 + i - 1]
      <4>1. \A i \in 2 .. (MaxFails + 2) : a[i] \in Nat
        BY <1>1, <3>1, ElementOfSeq
      <4>2. MaxFails + 2 \in Int /\ 2 \in Int
        BY <3>2
      <4> DEFINE m == MaxFails + 2
      <4> HIDE DEF m
      <4>3. /\ SubSeq(a, 2, m) \in Seq(Nat)
            /\ Len(SubSeq(a, 2, m)) = IF 2 <= m THEN m - 2 + 1 ELSE 0
            /\ \A i \in 1 .. m - 2 + 1 : SubSeq(a, 2, m)[i] = a[2 + i - 1]
        BY <4>1, <4>2, SubSeqProperties DEF m
      <4>4. m - 2 + 1 = MaxFails + 1 /\ 2 <= m
        BY TimesAssumption DEF m
      <4>5. /\ SubSeq(a, 2, m) \in Seq(Nat)
            /\ Len(SubSeq(a, 2, m)) = MaxFails + 1
            /\ \A i \in 1 .. (MaxFails + 1) : SubSeq(a, 2, m)[i] = a[2 + i - 1]
        BY <4>3, <4>4
      <4> QED
        BY <4>5 DEF m
    <3>4. \A i \in 1 .. (MaxFails + 1) : 2 + i - 1 = i + 1
      BY TimesAssumption
    <3> QED
      BY <2>1, <3>3, <3>4
  <2> HIDE DEF v, a
  <2>3. v[Len(v)] = n
    <3>1. MaxFails + 1 \in 1 .. (MaxFails + 1) /\ MaxFails + 1 + 1 = Len(w) + 1
      BY <1>4, TimesAssumption
    <3> QED
      BY <1>1, <2>2, <3>1
  <2>4. \A i \in 1 .. (Len(v) - 1) : v[i] = w[i + (Len(w) + 1 - Len(v))]
    <3> TAKE i \in 1 .. (Len(v) - 1)
    <3>1. /\ i \in 1 .. (MaxFails + 1)
          /\ i + 1 \in 1 .. Len(w)
          /\ i + (Len(w) + 1 - Len(v)) = i + 1
      BY <1>4, <2>2, TimesAssumption
    <3> QED
      BY <1>1, <2>2, <3>1
  <2> QED
    BY <1>4, <2>2, <2>3, <2>4 DEF v, a
<1> QED
  BY <1>2, <1>3, <1>4, TimesAssumption

LEMMA LastOfType ==
  ASSUME NEW S, NEW w \in Seq(S), NEW e \in S, NEW m \in Nat \ {0}
  PROVE  LastOf(Append(w, e), m) \in Seq(S)
<1> DEFINE a == Append(w, e)
<1>1. a \in Seq(S) /\ Len(a) \in Nat
  BY AppendProperties, LenProperties
<1> HIDE DEF a
<1>2. CASE Len(a) <= m
  BY <1>1, <1>2 DEF LastOf, a
<1>3. CASE ~(Len(a) <= m)
  <2>1. \A i \in Len(a) - m + 1 .. Len(a) : a[i] \in S
    <3>1. \A i \in Len(a) - m + 1 .. Len(a) : i \in 1 .. Len(a)
      BY <1>1, <1>3
    <3> QED
      BY <1>1, <3>1, ElementOfSeq
  <2>2. Len(a) - m + 1 \in Int /\ Len(a) \in Int
    BY <1>1
  <2>3. SubSeq(a, Len(a) - m + 1, Len(a)) \in Seq(S)
    BY <2>1, <2>2, SubSeqProperties
  <2> QED
    BY <1>3, <2>3 DEF LastOf, a
<1> QED
  BY <1>2, <1>3

(* The clock only makes a lockout older.                                   *)
LEMMA TickBooks ==
  ASSUME NEW w \in Seq(Nat), NEW f \in Nat, NEW b \in Nat, NEW l \in Nat, NEW n \in Nat,
         LockOk(f, b, l, n), GuessOk(w, f, b, l, n)
  PROVE  LockOk(f, b, l, n + 1) /\ GuessOk(w, f, b, l, n + 1)
<1>1. LockOk(f, b, l, n + 1)
  BY TimesAssumption DEF LockOk
<1>2. \A i \in 1 .. (Len(w) - f) : w[i] + Lockout <= n + 1
  <2> TAKE i \in 1 .. (Len(w) - f)
  <2>1. i \in 1 .. Len(w) /\ Len(w) \in Nat
    BY LenProperties
  <2>2. w[i] \in Nat
    BY <2>1, ElementOfSeq
  <2> QED
    BY <2>2, TimesAssumption DEF GuessOk
<1> QED
  BY <1>1, <1>2 DEF GuessOk

(* _cleanup_expired drops the count only when every wrong PIN is a lockout *)
(* old.                                                                    *)
LEMMA CleanBooks ==
  ASSUME NEW w \in Seq(Nat), NEW f \in Nat, NEW b \in Nat, NEW l \in Nat, NEW n \in Nat,
         LockOk(f, b, l, n), GuessOk(w, f, b, l, n), b # NoLock, n >= b
  PROVE  LockOk(0, NoLock, l, n) /\ GuessOk(w, 0, NoLock, l, n)
<1>1. LockOk(0, NoLock, l, n)
  BY TimesAssumption DEF LockOk, NoLock
<1>2. \A i \in 1 .. Len(w) : w[i] + Lockout <= n
  <2> TAKE i \in 1 .. Len(w)
  <2>1. w[i] \in Nat
    BY ElementOfSeq
  <2>2. w[i] <= l /\ l + Lockout <= n
    BY DEF GuessOk, LockOk
  <2> QED
    BY <2>1, <2>2, TimesAssumption
<1>3. Len(w) \in Nat
  BY LenProperties
<1> QED
  BY <1>1, <1>2, <1>3 DEF GuessOk

(* A wrong PIN is counted: whatever falls out of the last n wrong PINs was *)
(* out of the last n - 1 before.                                           *)
LEMMA RejectBooks ==
  ASSUME NEW w \in Seq(Nat), NEW f \in Nat, NEW b \in Nat, NEW l \in Nat, NEW n \in Nat,
         LockOk(f, b, l, n), GuessOk(w, f, b, l, n), f < MaxFails,
         \A i \in 1 .. Len(w) : w[i] <= n
  PROVE  LET v == LastOf(Append(w, n), MaxFails + 1)
         IN  IF f + 1 >= MaxFails
               THEN LockOk(f + 1, n + Lockout, n, n) /\ GuessOk(v, f + 1, n + Lockout, n, n)
               ELSE LockOk(f + 1, b, l, n) /\ GuessOk(v, f + 1, b, l, n)
<1> DEFINE v == LastOf(Append(w, n), MaxFails + 1)
           d == Len(w) + 1 - Len(v)
<1>0. b = NoLock
  BY DEF LockOk
<1>1. Len(w) \in Nat /\ MaxFails \in Nat \ {0} /\ Lockout \in Nat \ {0}
  BY LenProperties, TimesAssumption
<1>2. Len(w) <= MaxFails + 1 /\ f <= Len(w)
  BY DEF GuessOk
<1>3. /\ v \in Seq(Nat)
      /\ Len(v) = IF Len(w) = MaxFails + 1 THEN MaxFails + 1 ELSE Len(w) + 1
      /\ v[Len(v)] = n
      /\ \A i \in 1 .. (Len(v) - 1) : v[i] = w[i + d]
  BY <1>2, LastOfAppend
<1> HIDE DEF v
<1>4. Len(v) \in Nat /\ d \in {0, 1} /\ Len(v) + d = Len(w) + 1
  <2>1. CASE Len(w) = MaxFails + 1
    BY <1>1, <1>3, <2>1
  <2>2. CASE Len(w) # MaxFails + 1
    BY <1>1, <1>3, <2>2
  <2> QED
    BY <2>1, <2>2
<1> HIDE DEF d
<1>5. f + 1 <= Len(v) /\ Len(v) <= MaxFails + 1
  BY <1>1, <1>2, <1>3
<1>6. \A i \in 1 .. (Len(v) - (f + 1)) : v[i] + Lockout <= n
  <2> TAKE i \in 1 .. (Len(v) - (f + 1))
  <2>1. i \in 1 .. (Len(v) - 1) /\ i + d \in 1 .. (Len(w) - f)
    BY <1>4, <1>1
  <2>2. w[i + d] + Lockout <= n
    BY <2>1 DEF GuessOk
  <2> QED
    BY <1>3, <2>1, <2>2
<1>7. \A i \in 1 .. Len(v) : v[i] <= n
  <2> TAKE i \in 1 .. Len(v)
  <2>1. CASE i = Len(v)
    BY <2>1, <1>3
  <2>2. CASE i # Len(v)
    <3>1. i \in 1 .. (Len(v) - 1) /\ i + d \in 1 .. Len(w)
      BY <1>4, <1>1, <2>2
    <3> QED
      BY <3>1, <1>3
  <2> QED
    BY <2>1, <2>2
<1>8. Len(v) = MaxFails + 1 => v[MaxFails + 1] - v[1] >= Lockout
  <2> HAVE Len(v) = MaxFails + 1
  <2>1. 1 \in 1 .. (Len(v) - (f + 1)) /\ 1 \in 1 .. Len(v)
    BY <1>1
  <2>2. v[1] + Lockout <= n /\ v[MaxFails + 1] = n /\ v[1] \in Nat
    BY <2>1, <1>3, <1>6, ElementOfSeq
  <2> QED
    BY <2>2, <1>1
<1>9. CASE f + 1 >= MaxFails
  <2>1. LockOk(f + 1, n + Lockout, n, n)
    BY <1>1, <1>9 DEF LockOk, NoLock
  <2>2. GuessOk(v, f + 1, n + Lockout, n, n)
    BY <1>5, <1>6, <1>7, <1>8 DEF GuessOk
  <2> QED
    BY <1>9, <2>1, <2>2 DEF v
<1>10. CASE ~(f + 1 >= MaxFails)
  <2>1. LockOk(f + 1, b, l, n)
    BY <1>0, <1>1, <1>10 DEF LockOk
  <2>2. GuessOk(v, f + 1, b, l, n)
    BY <1>0, <1>5, <1>6, <1>8 DEF GuessOk
  <2> QED
    BY <1>10, <2>1, <2>2 DEF v
<1> QED
  BY <1>9, <1>10

----------------------------------------------------------------------------
(* The invariant                                                           *)

LEMMA SeqOfMore ==
  ASSUME NEW S, NEW T, S \subseteq T, NEW s \in Seq(S)
  PROVE  s \in Seq(T)
BY SeqDef

LEMMA BookTypes ==
  ASSUME TypeOK, NEW c \in Clients
  PROVE  /\ wrong[c] \in Seq(Nat) /\ fails[c] \in Nat /\ blockedUntil[c] \in Nat
         /\ lockedAt[c] \in Nat /\ now \in Nat /\ lockedAt[c] <= now
         /\ \A i \in 1 .. Len(wrong[c]) : wrong[c][i] <= now
<1>1. now \in Nat /\ wrong[c] \in Seq(1 .. now)
  BY DEF TypeOK
<1>2. wrong[c] \in Seq(Nat)
  BY <1>1, SeqDef
<1>3. \A i \in 1 .. Len(wrong[c]) : wrong[c][i] \in 1 .. now
  BY <1>1, ElementOfSeq
<1> QED
  BY <1>1, <1>2, <1>3 DEF TypeOK

(* What _cleanup_expired leaves is typed, and keeps the books in order.    *)
LEMMA CleanTypes ==
  ASSUME TypeOK
  PROVE  /\ CleanPending \in [Clients -> {NoPin} \cup Pins]
         /\ CleanFails \in [Clients -> 0 .. MaxFails]
         /\ CleanLocks \in [Clients -> Nat]
         /\ \A c \in Clients : CleanPending[c] # NoPin =>
               CleanPending[c] = pending[c] /\ now - issued[pending[c]].at <= PinTtl
<1>1. \A c \in Clients : pending[c] # NoPin => issued[pending[c]] \in [client : Clients, at : 1 .. now]
  BY ElementOfSeq DEF TypeOK, Pins
<1>2. \A c \in Clients : pending[c] # NoPin => issued[pending[c]].at \in Int
  BY <1>1
<1>3. CleanPending \in [Clients -> {NoPin} \cup Pins]
  BY DEF TypeOK, CleanPending
<1>4. \A c \in Clients : CleanPending[c] # NoPin =>
        CleanPending[c] = pending[c] /\ now - issued[pending[c]].at <= PinTtl
  <2> TAKE c \in Clients
  <2> HAVE CleanPending[c] # NoPin
  <2>1. CleanPending[c] = pending[c] /\ pending[c] # NoPin /\ ~Expired(c)
    BY DEF CleanPending
  <2>2. now \in Int /\ issued[pending[c]].at \in Int
    BY <1>2, <2>1, TimesAssumption DEF TypeOK
  <2> QED
    BY <2>1, <2>2, TimesAssumption DEF Expired
<1>5. CleanFails \in [Clients -> 0 .. MaxFails] /\ CleanLocks \in [Clients -> Nat]
  BY TimesAssumption DEF TypeOK, CleanFails, CleanLocks, NoLock
<1> QED
  BY <1>3, <1>4, <1>5

LEMMA CleanKeepsBooks ==
  ASSUME TypeOK, LockInv, GuessInv, NEW c \in Clients
  PROVE  /\ LockOk(CleanFails[c], CleanLocks[c], lockedAt[c], now)
         /\ GuessOk(wrong[c], CleanFails[c], CleanLocks[c], lockedAt[c], now)
<1>1. /\ LockOk(fails[c], blockedUntil[c], lockedAt[c], now)
      /\ GuessOk(wrong[c], fails[c], blockedUntil[c], lockedAt[c], now)
  BY DEF LockInv, GuessInv
<1>2. CASE LockOver(c)
  <2>1. CleanFails[c] = 0 /\ CleanLocks[c] = NoLock
    BY <1>2 DEF CleanFails, CleanLocks
  <2> QED
    BY <1>1, <1>2, <2>1, BookTypes, CleanBooks DEF LockOver
<1>3. CASE ~LockOver(c)
  BY <1>1, <1>3 DEF CleanFails, CleanLocks
<1> QED
  BY <1>2, <1>3

LEMMA InvInit == Init => IInv
<1> SUFFICES ASSUME Init PROVE IInv
  OBVIOUS
<1>1. TypeOK
  BY ClientsAssumption, TimesAssumption, EmptySeq
     DEF Init, TypeOK, Pins, Idle, NoPin, NoLock
<1>2. PendingInv /\ ThreadInv /\ OneSessionPerPin
  BY ClientsAssumption DEF Init, PendingInv, ThreadInv, OneSessionPerPin, Pins, Idle, NoPin
<1>3. LockInv /\ GuessInv
  BY TimesAssumption DEF Init, LockInv, GuessInv, LockOk, GuessOk, NoLock
<1> QED
  BY <1>1, <1>2, <1>3 DEF IInv

LEMMA TickInv == IInv /\ Tick => IInv'
<1> SUFFICES ASSUME IInv, Tick PROVE IInv'
  OBVIOUS
<1> USE DEF IInv
<1>0. now \in Nat /\ now' = now + 1 /\ 1 .. now \subseteq 1 .. now'
  BY DEF TypeOK, Tick
<1>1. TypeOK'
  <2>1. issued \in Seq([client : Clients, at : 1 .. now']) /\ tokens \in Seq([pin : Pins, at : 1 .. now'])
    <3>1. /\ [client : Clients, at : 1 .. now] \subseteq [client : Clients, at : 1 .. now']
          /\ [pin : Pins, at : 1 .. now] \subseteq [pin : Pins, at : 1 .. now']
      BY <1>0
    <3> QED
      BY <3>1, SeqOfMore DEF TypeOK
  <2>2. wrong \in [Clients -> Seq(1 .. now')]
    BY <1>0, SeqDef DEF TypeOK
  <2>3. now' \in 1 .. MaxTime + 1 /\ lockedAt \in [Clients -> 0 .. now']
    BY <1>0, TimesAssumption DEF TypeOK, Tick
  <2> QED
    BY <2>1, <2>2, <2>3 DEF Tick, TypeOK, managerVars, historyVars, Pins
<1>2. PendingInv' /\ ThreadInv' /\ OneSessionPerPin'
  BY DEF Tick, PendingInv, ThreadInv, OneSessionPerPin, managerVars, historyVars, Pins
<1>3. LockInv' /\ GuessInv'
  <2> SUFFICES ASSUME NEW c \in Clients
               PROVE  /\ LockOk(fails[c], blockedUntil[c], lockedAt[c], now + 1)
                      /\ GuessOk(wrong[c], fails[c], blockedUntil[c], lockedAt[c], now + 1)
    BY DEF Tick, LockInv, GuessInv, managerVars, historyVars
  <2> QED
    BY BookTypes, TickBooks DEF LockInv, GuessInv
<1> QED
  BY <1>1, <1>2, <1>3

(* A PIN is drawn: it is newer than every other.                           *)
LEMMA RequestInv ==
  ASSUME IInv, NEW c \in Clients, RequestPin(c)
  PROVE  IInv'
<1> USE DEF IInv
<1> DEFINE p == Len(issued) + 1
           r == [client |-> c, at |-> now]
<1>0. /\ issued' \in Seq([client : Clients, at : 1 .. now])
      /\ Len(issued') = p /\ Len(issued) \in Nat
      /\ issued'[p] = r
      /\ \A q \in Pins : issued'[q] = issued[q]
  <2>1. r \in [client : Clients, at : 1 .. now]
    BY DEF TypeOK
  <2>2. issued \in Seq([client : Clients, at : 1 .. now]) /\ issued' = Append(issued, r)
    BY DEF TypeOK, RequestPin, Generate, Draw
  <2> QED
    BY <2>1, <2>2, AppendProperties, LenProperties DEF Pins
<1>1. Pins' = Pins \cup {p} /\ p \notin Pins /\ p # NoPin /\ \A q \in Pins : p > q
  BY <1>0 DEF Pins, NoPin
<1>2. /\ pending' = [CleanPending EXCEPT ![c] = p]
      /\ fails' = CleanFails /\ blockedUntil' = CleanLocks
      /\ UNCHANGED <<now, tokens, sessions, thread, accepted, wrong, lockedAt>>
  BY DEF RequestPin, Generate, historyVars
<1> HIDE DEF p, r
<1>3. TypeOK'
  <2>1. tokens \in Seq([pin : Pins', at : 1 .. now])
    <3>1. [pin : Pins, at : 1 .. now] \subseteq [pin : Pins', at : 1 .. now]
      BY <1>1
    <3> QED
      BY <3>1, SeqOfMore DEF TypeOK
  <2>2. pending' \in [Clients -> {NoPin} \cup Pins']
    BY <1>1, <1>2, CleanTypes
  <2>3. thread \in [Threads -> [pc : {"idle", "session"}, client : Clients, pin : {NoPin} \cup Pins']]
    BY <1>1 DEF TypeOK
  <2>4. accepted \subseteq Pins'
    BY <1>1 DEF TypeOK
  <2> QED
    BY <1>0, <1>2, <2>1, <2>2, <2>3, <2>4, CleanTypes DEF TypeOK
<1>4. PendingInv'
  <2> SUFFICES ASSUME NEW d \in Clients, pending'[d] # NoPin
               PROVE  /\ issued'[pending'[d]].client = d
                      /\ pending'[d] \notin accepted
                      /\ \A q \in Pins' : q > pending'[d] => issued'[q].client # d
    BY <1>2 DEF PendingInv
  <2>1. CASE d = c
    <3>1. pending'[d] = p
      BY <1>2, <2>1, CleanTypes
    <3>2. \A q \in Pins' : ~(q > p)
      BY <1>0, <1>1 DEF Pins, p
    <3> QED
      BY <1>0, <1>1, <2>1, <3>1, <3>2 DEF TypeOK, r
  <2>2. CASE d # c
    <3>1. pending'[d] = pending[d] /\ pending[d] # NoPin
      BY <1>2, <2>2, CleanTypes
    <3>2. pending[d] \in Pins
      BY <3>1 DEF TypeOK
    <3> QED
      BY <1>0, <1>1, <2>2, <3>1, <3>2 DEF PendingInv, r
  <2> QED
    BY <2>1, <2>2
<1>5. ThreadInv' /\ OneSessionPerPin'
  BY <1>2 DEF ThreadInv, OneSessionPerPin
<1>6. LockInv' /\ GuessInv'
  BY <1>2, CleanKeepsBooks DEF LockInv, GuessInv
<1> QED
  BY <1>3, <1>4, <1>5, <1>6

(* A thread's verify_pin answers True.                                     *)
LEMMA AcceptInv ==
  ASSUME IInv, NEW t \in Threads, NEW c \in Clients,
         thread[t] = Idle, ~Locked(c), CleanPending[c] # NoPin, Accept(c),
         thread' = [thread EXCEPT ![t] =
                      [pc |-> "session", client |-> c, pin |-> CleanPending[c]]],
         UNCHANGED <<now, issued, tokens, sessions>>
  PROVE  IInv'
<1> USE DEF IInv
<1> DEFINE p == CleanPending[c]
<1>1. p = pending[c] /\ p \in Pins /\ p \notin accepted /\ issued[p].client = c
  BY CleanTypes DEF PendingInv
<1>2. /\ pending' = [CleanPending EXCEPT ![c] = NoPin]
      /\ fails' = [CleanFails EXCEPT ![c] = 0] /\ blockedUntil' = CleanLocks
      /\ accepted' = accepted \cup {p}
      /\ wrong' = [wrong EXCEPT ![c] = <<>>] /\ lockedAt' = lockedAt
  BY DEF Accept
<1> HIDE DEF p
<1>3. TypeOK'
  <2>1. /\ pending' \in [Clients -> {NoPin} \cup Pins]
        /\ fails' \in [Clients -> 0 .. MaxFails]
        /\ blockedUntil' \in [Clients -> Nat]
    BY <1>2, CleanTypes, TimesAssumption
  <2>2. wrong' \in [Clients -> Seq(1 .. now)]
    BY <1>2, EmptySeq DEF TypeOK
  <2>3. thread' \in [Threads -> [pc : {"idle", "session"}, client : Clients, pin : {NoPin} \cup Pins]]
    BY <1>1 DEF TypeOK, p
  <2> QED
    BY <1>1, <1>2, <2>1, <2>2, <2>3 DEF TypeOK, Pins
<1>4. PendingInv'
  <2> SUFFICES ASSUME NEW d \in Clients, pending'[d] # NoPin
               PROVE  /\ issued[pending'[d]].client = d
                      /\ pending'[d] \notin accepted'
                      /\ \A q \in Pins : q > pending'[d] => issued[q].client # d
    BY DEF PendingInv, Pins
  <2>1. d # c /\ pending'[d] = pending[d] /\ pending[d] # NoPin
    BY <1>2, CleanTypes
  <2> QED
    BY <1>1, <1>2, <2>1 DEF PendingInv
<1>5. ThreadInv'
  <2>1. \A u \in Threads \ {t} : thread'[u] = thread[u]
    BY DEF TypeOK
  <2>2. thread'[t].pin = p
    BY DEF TypeOK, p
  <2>3. /\ \A k \in DOMAIN tokens : tokens[k].pin # p
        /\ \A u \in Threads : thread[u].pc = "session" => thread[u].pin # p
    BY <1>1 DEF ThreadInv, OneSessionPerPin
  <2> QED
    BY <1>2, <2>1, <2>2, <2>3 DEF ThreadInv
<1>6. OneSessionPerPin'
  BY <1>2 DEF OneSessionPerPin
<1>7. LockInv' /\ GuessInv'
  <2> SUFFICES ASSUME NEW d \in Clients
               PROVE  /\ LockOk(fails'[d], CleanLocks[d], lockedAt[d], now)
                      /\ GuessOk(wrong'[d], fails'[d], CleanLocks[d], lockedAt[d], now)
    BY <1>2 DEF LockInv, GuessInv
  <2>1. CASE d = c
    <3>1. fails'[d] = 0 /\ wrong'[d] = <<>>
      BY <1>2, <2>1, CleanTypes DEF TypeOK
    <3>2. CleanFails[c] # MaxFails
      BY CleanKeepsBooks, BookTypes DEF LockOk, Locked, CleanLocks, LockOver
    <3>3. LockOk(0, CleanLocks[c], lockedAt[c], now)
      BY <3>2, CleanKeepsBooks, TimesAssumption DEF LockOk
    <3>4. GuessOk(<<>>, 0, CleanLocks[c], lockedAt[c], now)
      BY TimesAssumption DEF GuessOk
    <3> QED
      BY <2>1, <3>1, <3>3, <3>4
  <2>2. CASE d # c
    BY <1>2, <2>2, CleanTypes, CleanKeepsBooks DEF TypeOK
  <2> QED
    BY <2>1, <2>2
<1> QED
  BY <1>3, <1>4, <1>5, <1>6, <1>7

(* verify_pin counts a wrong PIN.                                          *)
LEMMA RejectInv ==
  ASSUME IInv, NEW c \in Clients, ~Locked(c), Reject(c),
         UNCHANGED <<now, issued, tokens, sessions, thread>>
  PROVE  IInv'
<1> USE DEF IInv
<1> DEFINE n == CleanFails[c] + 1
           v == LastOf(Append(wrong[c], now), MaxFails + 1)
<1>1. /\ fails' = [CleanFails EXCEPT ![c] = n]
      /\ pending' = IF n >= MaxFails THEN [CleanPending EXCEPT ![c] = NoPin] ELSE CleanPending
      /\ blockedUntil' = IF n >= MaxFails THEN [CleanLocks EXCEPT ![c] = now + Lockout]
                                          ELSE CleanLocks
      /\ lockedAt' = IF n >= MaxFails THEN [lockedAt EXCEPT ![c] = now] ELSE lockedAt
      /\ wrong' = [wrong EXCEPT ![c] = v]
      /\ accepted' = accepted
  BY DEF Reject
<1> HIDE DEF v
<1>2. CleanFails[c] \in 0 .. MaxFails /\ CleanLocks[c] \in Nat
  BY CleanTypes
<1>3. CleanFails[c] < MaxFails
  <2>1. CleanLocks[c] = NoLock
    BY BookTypes DEF Locked, CleanLocks, LockOver
  <2> QED
    BY <1>2, <2>1, CleanKeepsBooks, TimesAssumption DEF LockOk
<1>4. IF n >= MaxFails
        THEN LockOk(n, now + Lockout, now, now) /\ GuessOk(v, n, now + Lockout, now, now)
        ELSE LockOk(n, CleanLocks[c], lockedAt[c], now)
             /\ GuessOk(v, n, CleanLocks[c], lockedAt[c], now)
  <2> DEFINE w == wrong[c]
             f == CleanFails[c]
             b == CleanLocks[c]
             l == lockedAt[c]
  <2>1. /\ w \in Seq(Nat) /\ f \in Nat /\ b \in Nat /\ l \in Nat /\ now \in Nat
        /\ \A i \in 1 .. Len(w) : w[i] <= now
    BY <1>2, BookTypes
  <2>2. LockOk(f, b, l, now) /\ GuessOk(w, f, b, l, now) /\ f < MaxFails
    BY <1>3, CleanKeepsBooks
  <2> HIDE DEF w, f, b, l
  <2>3. LET z == LastOf(Append(w, now), MaxFails + 1)
        IN  IF f + 1 >= MaxFails
              THEN LockOk(f + 1, now + Lockout, now, now)
                   /\ GuessOk(z, f + 1, now + Lockout, now, now)
              ELSE LockOk(f + 1, b, l, now) /\ GuessOk(z, f + 1, b, l, now)
    BY <2>1, <2>2, RejectBooks
  <2> QED
    BY <2>3 DEF v, w, f, b, l
<1>5. v \in Seq(1 .. now)
  <2>1. now \in 1 .. now /\ wrong[c] \in Seq(1 .. now) /\ MaxFails + 1 \in Nat \ {0}
    BY TimesAssumption DEF TypeOK
  <2> QED
    BY <2>1, LastOfType DEF v
<1>6. TypeOK'
  <2>1. /\ pending' \in [Clients -> {NoPin} \cup Pins]
        /\ fails' \in [Clients -> 0 .. MaxFails]
        /\ blockedUntil' \in [Clients -> Nat]
    <3>1. n \in 0 .. MaxFails /\ now + Lockout \in Nat
      BY <1>2, <1>3, TimesAssumption DEF TypeOK
    <3> QED
      BY <1>1, <3>1, CleanTypes
  <2>2. lockedAt' \in [Clients -> 0 .. now]
    BY <1>1, TimesAssumption DEF TypeOK
  <2>3. wrong' \in [Clients -> Seq(1 .. now)]
    BY <1>1, <1>5 DEF TypeOK
  <2> QED
    BY <1>1, <2>1, <2>2, <2>3 DEF TypeOK, Pins
<1>7. PendingInv'
  <2>1. \A d \in Clients : pending'[d] # NoPin => pending'[d] = pending[d]
    BY <1>1, CleanTypes
  <2> QED
    BY <1>1, <2>1 DEF PendingInv, Pins
<1>8. ThreadInv' /\ OneSessionPerPin'
  BY <1>1 DEF ThreadInv, OneSessionPerPin
<1>9. LockInv' /\ GuessInv'
  <2> SUFFICES ASSUME NEW d \in Clients
               PROVE  /\ LockOk(fails'[d], blockedUntil'[d], lockedAt'[d], now)
                      /\ GuessOk(wrong'[d], fails'[d], blockedUntil'[d], lockedAt'[d], now)
    BY DEF LockInv, GuessInv
  <2>1. CASE d # c
    <3>1. /\ fails'[d] = CleanFails[d] /\ blockedUntil'[d] = CleanLocks[d]
          /\ lockedAt'[d] = lockedAt[d] /\ wrong'[d] = wrong[d]
      BY <1>1, <2>1, CleanTypes DEF TypeOK
    <3> QED
      BY <3>1, CleanKeepsBooks
  <2>2. CASE d = c /\ n >= MaxFails
    <3>1. /\ fails'[d] = n /\ blockedUntil'[d] = now + Lockout
          /\ lockedAt'[d] = now /\ wrong'[d] = v
      BY <1>1, <2>2, CleanTypes DEF TypeOK
    <3> QED
      BY <1>4, <2>2, <3>1
  <2>3. CASE d = c /\ ~(n >= MaxFails)
    <3>1. /\ fails'[d] = n /\ blockedUntil'[d] = CleanLocks[d]
          /\ lockedAt'[d] = lockedAt[d] /\ wrong'[d] = v
      BY <1>1, <2>3, CleanTypes DEF TypeOK
    <3> QED
      BY <1>4, <2>3, <3>1
  <2> QED
    BY <2>1, <2>2, <2>3
<1> QED
  BY <1>6, <1>7, <1>8, <1>9

LEMMA AuthInv ==
  ASSUME IInv, NEW t \in Threads, NEW c \in Clients, NEW entered \in {NotText, NoPin} \cup Pins,
         Auth(t, c, entered)
  PROVE  IInv'
<1>0. thread[t] = Idle /\ ~Locked(c) /\ UNCHANGED <<now, issued, tokens, sessions>>
  BY DEF Auth
<1>1. CASE /\ pending' = CleanPending /\ fails' = CleanFails /\ blockedUntil' = CleanLocks
           /\ UNCHANGED <<thread, historyVars>>
  <2>1. TypeOK'
    BY <1>0, <1>1, CleanTypes DEF IInv, TypeOK, Pins, historyVars
  <2>2. PendingInv'
    BY <1>0, <1>1, CleanTypes DEF IInv, PendingInv, Pins, historyVars
  <2>3. ThreadInv' /\ OneSessionPerPin'
    BY <1>0, <1>1 DEF IInv, ThreadInv, OneSessionPerPin, historyVars
  <2>4. LockInv' /\ GuessInv'
    BY <1>0, <1>1, CleanKeepsBooks DEF IInv, LockInv, GuessInv, historyVars
  <2> QED
    BY <2>1, <2>2, <2>3, <2>4 DEF IInv
<1>2. CASE /\ CleanPending[c] # NoPin /\ entered = CleanPending[c] /\ Accept(c)
           /\ thread' = [thread EXCEPT ![t] = [pc |-> "session", client |-> c, pin |-> entered]]
  BY <1>0, <1>2, AcceptInv
<1>3. CASE Reject(c) /\ UNCHANGED thread
  BY <1>0, <1>3, RejectInv
<1> QED
  BY <1>1, <1>2, <1>3 DEF Auth

(* create_session: the thread's PIN was nobody else's.                     *)
LEMMA CreateInv ==
  ASSUME IInv, NEW t \in Threads, CreateSession(t)
  PROVE  IInv'
<1> USE DEF IInv
<1> DEFINE r == [pin |-> thread[t].pin, at |-> now]
<1>1. /\ thread[t].pc = "session" /\ thread[t].pin \in accepted
      /\ \A k \in DOMAIN tokens : tokens[k].pin # thread[t].pin
      /\ thread[t].pin \in Pins /\ now \in 1 .. now
  BY TimesAssumption DEF CreateSession, ThreadInv, TypeOK
<1>2. /\ tokens' = Append(tokens, r)
      /\ thread' = [thread EXCEPT ![t] = Idle]
      /\ sessions' = sessions \cup {Len(tokens) + 1}
      /\ UNCHANGED <<now, issued, pending, fails, blockedUntil, accepted, wrong, lockedAt>>
  BY DEF CreateSession, managerVars, historyVars
<1>3. /\ tokens' \in Seq([pin : Pins, at : 1 .. now])
      /\ DOMAIN tokens' = DOMAIN tokens \cup {Len(tokens) + 1}
      /\ tokens'[Len(tokens) + 1] = r
      /\ \A k \in DOMAIN tokens : tokens'[k] = tokens[k]
  <2>1. r \in [pin : Pins, at : 1 .. now] /\ tokens \in Seq([pin : Pins, at : 1 .. now])
    BY <1>1 DEF TypeOK
  <2>2. DOMAIN tokens = 1 .. Len(tokens) /\ Len(tokens) \in Nat
    BY <2>1, LenProperties
  <2> HIDE DEF r
  <2>3. /\ tokens' \in Seq([pin : Pins, at : 1 .. now]) /\ Len(tokens') = Len(tokens) + 1
        /\ tokens'[Len(tokens) + 1] = r
        /\ \A k \in 1 .. Len(tokens) : tokens'[k] = tokens[k]
    BY <1>2, <2>1, AppendProperties
  <2>4. DOMAIN tokens' = 1 .. Len(tokens')
    BY <2>3, LenProperties
  <2> QED
    BY <2>2, <2>3, <2>4
<1>4. r.pin = thread[t].pin
  OBVIOUS
<1> HIDE DEF r
<1>5. TypeOK'
  <2>1. thread' \in [Threads -> [pc : {"idle", "session"}, client : Clients, pin : {NoPin} \cup Pins]]
    BY <1>2, ClientsAssumption DEF TypeOK, Idle
  <2> QED
    BY <1>2, <1>3, <2>1 DEF TypeOK, Pins
<1>6. PendingInv' /\ LockInv' /\ GuessInv'
  BY <1>2 DEF PendingInv, LockInv, GuessInv, Pins
<1>7. OneSessionPerPin'
  BY <1>1, <1>2, <1>3, <1>4 DEF OneSessionPerPin
<1>8. ThreadInv'
  <2> SUFFICES ASSUME NEW u \in Threads, thread'[u].pc = "session"
               PROVE  /\ thread'[u].pin \in accepted
                      /\ \A k \in DOMAIN tokens' : tokens'[k].pin # thread'[u].pin
                      /\ \A x \in Threads \ {u} :
                           thread'[x].pc = "session" => thread'[x].pin # thread'[u].pin
    BY <1>2 DEF ThreadInv
  <2>1. u # t /\ thread'[u] = thread[u]
    BY <1>2 DEF TypeOK, Idle
  <2>2. thread[u].pin # thread[t].pin
    BY <1>1, <2>1 DEF ThreadInv
  <2>3. \A x \in Threads \ {u} : thread'[x].pc = "session" => thread'[x] = thread[x]
    BY <1>2 DEF TypeOK, Idle
  <2> QED
    BY <1>3, <1>4, <2>1, <2>2, <2>3 DEF ThreadInv
<1> QED
  BY <1>5, <1>6, <1>7, <1>8

LEMMA DropInv ==
  ASSUME IInv, NEW k \in sessions, DropSession(k)
  PROVE  IInv'
<1> USE DEF IInv, historyVars, managerVars
<1>1. TypeOK'
  BY DEF DropSession, TypeOK, Pins
<1>2. PendingInv'
  BY DEF DropSession, PendingInv, Pins
<1>3. ThreadInv'
  BY DEF DropSession, ThreadInv
<1>4. LockInv' /\ GuessInv' /\ OneSessionPerPin'
  BY DEF DropSession, LockInv, GuessInv, OneSessionPerPin
<1> QED
  BY <1>1, <1>2, <1>3, <1>4

LEMMA TraversalInv ==
  ASSUME IInv, NEW k \in sessions, NEW c \in Clients, Traversal(k, c)
  PROVE  IInv'
<1> USE DEF IInv, historyVars
<1>1. TypeOK'
  BY DEF Traversal, TypeOK, Pins
<1>2. PendingInv'
  BY DEF Traversal, TypeOK, PendingInv, Pins
<1>3. ThreadInv' /\ LockInv' /\ GuessInv' /\ OneSessionPerPin'
  BY DEF Traversal, ThreadInv, LockInv, GuessInv, OneSessionPerPin
<1> QED
  BY <1>1, <1>2, <1>3

LEMMA StutterInv == IInv /\ UNCHANGED vars => IInv'
<1> SUFFICES ASSUME IInv, UNCHANGED vars PROVE IInv'
  OBVIOUS
<1> USE DEF IInv, vars, managerVars, historyVars
<1>1. TypeOK'
  BY DEF TypeOK, Pins
<1>2. PendingInv' /\ ThreadInv'
  BY DEF PendingInv, ThreadInv, Pins
<1>3. LockInv' /\ GuessInv' /\ OneSessionPerPin'
  BY DEF LockInv, GuessInv, OneSessionPerPin
<1> QED
  BY <1>1, <1>2, <1>3

LEMMA StepInv == IInv /\ [Next]_vars => IInv'
BY TickInv, RequestInv, AuthInv, CreateInv, DropInv, TraversalInv, StutterInv DEF Next

LEMMA Invariance == Spec => []IInv
<1>1. Init => IInv
  BY InvInit
<1>2. IInv /\ [Next]_vars => IInv'
  BY StepInv
<1> QED
  BY <1>1, <1>2, PTL DEF Spec

----------------------------------------------------------------------------
(* The theorems                                                            *)

(* Every variable of the two managers keeps its type; in particular no     *)
(* client's count of wrong PINs ever passes MaxFails.                      *)
THEOREM TypeCorrect == Spec => []TypeOK
<1>1. IInv => TypeOK
  BY DEF IInv
<1> QED
  BY <1>1, Invariance, PTL

(* The brute-force limit of verify_pin holds for every number of clients   *)
(* and threads and every setting of the constants.                         *)
THEOREM GuessesAreLimited == Spec => []GuessRate
<1>1. IInv => GuessRate
  BY DEF IInv, GuessInv, GuessOk, GuessRate
<1> QED
  BY <1>1, Invariance, PTL

(* A PIN opens at most one session, whatever the request threads do.       *)
THEOREM PinsOpenOneSession == Spec => []OneSessionPerPin
<1>1. IInv => OneSessionPerPin
  BY DEF IInv
<1> QED
  BY <1>1, Invariance, PTL

(* verify_pin only ever accepts a client's newest PIN, in time, once, and  *)
(* outside a lockout.                                                      *)
THEOREM PinsAcceptedProperly == Spec => AcceptsProperly
<1> DEFINE Accepts == \A t \in Threads :
             thread[t].pc = "idle" /\ thread'[t].pc = "session" => AcceptedPin(t)
<1>1. ASSUME IInv, Next, NEW t \in Threads, thread[t].pc = "idle", thread'[t].pc = "session"
      PROVE  AcceptedPin(t)
  <2>1. \A u \in Threads : CreateSession(u) => thread'[t] \in {thread[t], Idle}
    BY <1>1 DEF CreateSession, IInv, TypeOK
  <2>2. PICK u \in Threads, c \in Clients, entered \in {NotText, NoPin} \cup Pins :
               Auth(u, c, entered) /\ thread' # thread
    BY <1>1, <2>1 DEF Next, Tick, RequestPin, DropSession, Traversal, Idle
  <2>3. /\ ~Locked(c)
        /\ CleanPending[c] # NoPin /\ entered = CleanPending[c]
        /\ thread' = [thread EXCEPT ![u] = [pc |-> "session", client |-> c, pin |-> entered]]
    BY <2>2 DEF Auth
  <2>4. u = t /\ thread'[t] = [pc |-> "session", client |-> c, pin |-> entered]
    BY <1>1, <2>3 DEF IInv, TypeOK
  <2>5. entered = pending[c] /\ entered # NoPin /\ entered \in Pins
        /\ now - issued[entered].at <= PinTtl
    BY <1>1, <2>3, CleanTypes DEF IInv
  <2>6. lockedAt[c] # 0 => now >= lockedAt[c] + Lockout
    <3>1. LockOk(fails[c], blockedUntil[c], lockedAt[c], now)
      BY <1>1 DEF IInv, LockInv
    <3> QED
      BY <1>1, <2>3, <3>1, BookTypes, TimesAssumption DEF IInv, LockOk, Locked
  <2> QED
    BY <1>1, <2>4, <2>5, <2>6 DEF AcceptedPin, IInv, PendingInv
<1>2. IInv /\ [Next]_vars => [Accepts]_vars
  BY <1>1
<1> HIDE DEF Accepts
<1>3. Spec => [][Accepts]_vars
  BY <1>2, Invariance, PTL DEF Spec
<1> QED
  BY <1>3 DEF AcceptsProperly, Accepts
=============================================================================
