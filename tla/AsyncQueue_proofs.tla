-------------------------- MODULE AsyncQueue_proofs --------------------------
(***************************************************************************)
(* Proofs about AsyncQueue, and about MeshTransfer: the two ways to hand a *)
(* file over without a connection of its own from sender to receiver.      *)
(***************************************************************************)
EXTENDS AsyncQueue, MeshTransfer, FiniteSetTheorems, SequenceTheorems, TLAPS

(* One thread checks each receiver.                                        *)
PeersApart == \A k, l \in Checkers : Peer[k] = Peer[l] => k = l

(* What is in the list of a check is a transfer of its receiver that the   *)
(* callback has not had, nor is about to have.                             *)
ListInv ==
  \A k \in Checkers : \A t \in snap[k] :
    status[t] # "none" /\ receiver[t] = Peer[k] /\ calls[t] = 0 /\ cur[k] # t

(* A transfer in hand, or handed over, is pending no more.                 *)
MarkInv ==
  /\ \A k \in Checkers : cur[k] # None =>
       /\ status[cur[k]] \notin {"none", "pending"}
       /\ receiver[cur[k]] = Peer[k] /\ calls[cur[k]] = 0
  /\ \A t \in Ids : calls[t] > 0 => status[t] \notin {"none", "pending"}
  /\ \A t \in Ids : calls[t] <= 1

(* The record a thread is about to insert is its own and has no row.       *)
NextInv ==
  /\ \A t \in Ids : t > next => status[t] = "none"
  /\ \A q \in Queuers : qid[q] # None => qid[q] <= next /\ status[qid[q]] = "none"
  /\ \A p, q \in Queuers : qid[p] # None /\ qid[p] = qid[q] => p = q

IInv == TypeOK /\ ListInv /\ MarkInv /\ NextInv

(* Types of the queue of transfers: a check is somewhere in its list       *)
(* exactly while it has something left to do.                              *)
THEOREM TypeCorrect == Spec => []TypeOK
<1>1. Init => TypeOK
  BY QueueAssumption DEF Init, TypeOK, Statuses, None, Ids
<1>2. TypeOK /\ [Next]_vars => TypeOK'
  <2> SUFFICES ASSUME TypeOK, [Next]_vars PROVE TypeOK'
    OBVIOUS
  <2> USE QueueAssumption DEF TypeOK, None, Ids, tableVars, queuerVars, checkVars
  <2>1. ASSUME NEW q \in Queuers, LookUp(q) PROVE TypeOK'
    BY <2>1 DEF LookUp
  <2>2. ASSUME NEW q \in Queuers, Insert(q) PROVE TypeOK'
    BY <2>2 DEF Insert, Statuses
  <2>3. ASSUME NEW q \in Queuers, InsertFails(q) PROVE TypeOK'
    BY <2>3 DEF InsertFails
  <2>4. ASSUME NEW k \in Checkers, GetPending(k) PROVE TypeOK'
    BY <2>4 DEF GetPending, Pending
  <2>5. ASSUME NEW k \in Checkers, MarkDelivered(k) PROVE TypeOK'
    BY <2>5 DEF MarkDelivered, Oldest, Statuses
  <2>6. ASSUME NEW k \in Checkers, Ready(k) PROVE TypeOK'
    BY <2>6 DEF Ready
  <2>7. ASSUME NEW k \in Checkers, Abandon(k) PROVE TypeOK'
    BY <2>7 DEF Abandon
  <2>8. ASSUME NEW t \in Ids, CancelTransfer(t) \/ MarkFailed(t) PROVE TypeOK'
    BY <2>8 DEF CancelTransfer, MarkFailed, Statuses
  <2>9. CASE Restart
    BY <2>9 DEF Restart
  <2>10. CASE UNCHANGED vars
    BY <2>10 DEF vars
  <2> QED
    BY <2>1, <2>2, <2>3, <2>4, <2>5, <2>6, <2>7, <2>8, <2>9, <2>10 DEF Next, CheckStep
<1> QED
  BY <1>1, <1>2, PTL DEF Spec

LEMMA InvInit == Init => IInv
<1> SUFFICES ASSUME Init PROVE IInv
  OBVIOUS
<1>1. TypeOK
  BY QueueAssumption DEF Init, TypeOK, Statuses, None, Ids
<1> QED
  BY <1>1, QueueAssumption DEF Init, IInv, ListInv, MarkInv, NextInv, None, Ids

(* queue_offline makes records that no check has seen.                     *)
LEMMA QueuerInv ==
  ASSUME IInv, NEW q \in Queuers, LookUp(q) \/ Insert(q) \/ InsertFails(q)
  PROVE  ListInv' /\ MarkInv' /\ NextInv'
<1> USE QueueAssumption DEF IInv, TypeOK, None, Ids, tableVars, queuerVars, checkVars
<1>1. CASE LookUp(q)
  <2>1. ListInv' /\ MarkInv'
    BY <1>1 DEF LookUp, ListInv, MarkInv
  <2>2. NextInv'
    BY <1>1 DEF LookUp, NextInv
  <2> QED
    BY <2>1, <2>2
<1>2. CASE Insert(q)
  <2>1. status[qid[q]] = "none" /\ qid[q] \in Ids
    BY <1>2 DEF Insert, NextInv
  <2>2. ListInv'
    BY <1>2, <2>1 DEF Insert, ListInv
  <2>3. MarkInv'
    BY <1>2, <2>1 DEF Insert, MarkInv
  <2>4. NextInv'
    BY <1>2, <2>1 DEF Insert, NextInv
  <2> QED
    BY <2>2, <2>3, <2>4
<1>3. CASE InsertFails(q)
  <2>1. ListInv' /\ MarkInv'
    BY <1>3 DEF InsertFails, ListInv, MarkInv
  <2>2. NextInv'
    BY <1>3 DEF InsertFails, NextInv
  <2> QED
    BY <2>1, <2>2
<1> QED
  BY <1>1, <1>2, <1>3

(* A check marks and hands over what is in its own list only, and no other *)
(* check has the transfers of its receiver.                                *)
LEMMA CheckerInv ==
  ASSUME PeersApart, IInv, NEW k \in Checkers, CheckStep(k) \/ MarkDelivered(k)
  PROVE  ListInv' /\ MarkInv' /\ NextInv'
<1> USE QueueAssumption DEF IInv, TypeOK, None, Ids, tableVars, queuerVars, checkVars
<1>1. CASE GetPending(k)
  <2>1. \A t \in Pending(Peer[k]) : status[t] # "none" /\ receiver[t] = Peer[k] /\ calls[t] = 0
    BY <1>1 DEF Pending, MarkInv
  <2>2. cur[k] = None
    BY <1>1 DEF GetPending
  <2>3. ListInv'
    BY <1>1, <2>1, <2>2 DEF GetPending, ListInv, Pending
  <2>4. MarkInv' /\ NextInv'
    BY <1>1 DEF GetPending, MarkInv, NextInv
  <2> QED
    BY <2>3, <2>4
<1>2. CASE MarkDelivered(k)
  <2>1. PICK t \in Oldest(k) : /\ cpc[k] = "mark"
                              /\ status' = [status EXCEPT ![t] = "delivered"]
                              /\ snap' = [snap EXCEPT ![k] = @ \ {t}]
                              /\ cur' = [cur EXCEPT ![k] = t]
                              /\ cpc' = [cpc EXCEPT ![k] = "call"]
                              /\ UNCHANGED <<rows, file, receiver, queuerVars, calls>>
    BY <1>2 DEF MarkDelivered
  <2>2. t \in snap[k] /\ t \in Ids /\ status[t] # "none" /\ receiver[t] = Peer[k] /\ calls[t] = 0
    BY <2>1 DEF Oldest, ListInv
  <2>3. ListInv'
    <3> SUFFICES ASSUME NEW l \in Checkers, NEW u \in snap'[l]
                 PROVE  status'[u] # "none" /\ receiver'[u] = Peer[l] /\ calls'[u] = 0
                        /\ cur'[l] # u
      BY DEF ListInv
    <3>1. u \in snap[l] /\ u \in Ids
      BY <2>1
    <3>2. status[u] # "none" /\ receiver[u] = Peer[l] /\ calls[u] = 0 /\ cur[l] # u
      BY <3>1 DEF ListInv
    <3>3. cur'[l] # u
      BY <2>1, <3>2
    <3> QED
      BY <2>1, <3>1, <3>2, <3>3
  <2>4. MarkInv'
    BY <2>1, <2>2 DEF MarkInv
  <2>5. NextInv'
    BY <2>1, <2>2 DEF NextInv
  <2> QED
    BY <2>3, <2>4, <2>5
<1>3. CASE Ready(k)
  <2>1. cur[k] \in Ids /\ receiver[cur[k]] = Peer[k] /\ calls[cur[k]] = 0
    BY <1>3 DEF Ready, MarkInv
  <2>2. ListInv'
    <3> SUFFICES ASSUME NEW l \in Checkers, NEW u \in snap'[l]
                 PROVE  status'[u] # "none" /\ receiver'[u] = Peer[l] /\ calls'[u] = 0
                        /\ cur'[l] # u
      BY DEF ListInv
    <3>1. u \in snap[l] /\ u \in Ids
      BY <1>3 DEF Ready
    <3>2. status[u] # "none" /\ receiver[u] = Peer[l] /\ calls[u] = 0 /\ cur[l] # u
      BY <3>1 DEF ListInv
    <3>3. u # cur[k]
      BY <2>1, <3>2 DEF PeersApart
    <3>4. calls'[u] = 0 /\ cur'[l] # u
      BY <1>3, <3>1, <3>2, <3>3 DEF Ready
    <3> QED
      BY <1>3, <3>2, <3>4 DEF Ready
  <2>3. MarkInv'
    <3>1. \A l \in Checkers : l # k /\ cur[l] # None => cur[l] # cur[k]
      BY <1>3, <2>1 DEF MarkInv, PeersApart
    <3>2. status[cur[k]] \notin {"none", "pending"}
      BY <2>1 DEF MarkInv
    <3>3. calls' = [calls EXCEPT ![cur[k]] = @ + 1] /\ cur' = [cur EXCEPT ![k] = None]
          /\ status' = status /\ receiver' = receiver
      BY <1>3 DEF Ready
    <3>4. \A l \in Checkers : cur'[l] # None => l # k /\ cur'[l] = cur[l] /\ calls'[cur'[l]] = 0
      BY <3>1, <3>3 DEF MarkInv
    <3>5. \A t \in Ids : calls'[t] > 0 => status[t] \notin {"none", "pending"}
      BY <3>2, <3>3 DEF MarkInv
    <3>6. \A t \in Ids : calls'[t] <= 1
      BY <2>1, <3>3 DEF MarkInv
    <3> QED
      BY <3>3, <3>4, <3>5, <3>6 DEF MarkInv
  <2>4. NextInv'
    BY <1>3 DEF Ready, NextInv
  <2> QED
    BY <2>2, <2>3, <2>4
<1>4. CASE Abandon(k)
  BY <1>4 DEF Abandon, ListInv, MarkInv, NextInv
<1> QED
  BY <1>1, <1>2, <1>3, <1>4 DEF CheckStep

(* What the user does makes nothing pending, and a restart forgets lists   *)
(* and records that were not inserted.                                     *)
LEMMA OtherInv ==
  ASSUME IInv, (\E t \in Ids : CancelTransfer(t) \/ MarkFailed(t)) \/ Restart \/ UNCHANGED vars
  PROVE  ListInv' /\ MarkInv' /\ NextInv'
<1> USE QueueAssumption DEF IInv, TypeOK, None, Ids, tableVars, queuerVars, checkVars
<1>1. ASSUME NEW t \in Ids, CancelTransfer(t) \/ MarkFailed(t)
      PROVE  ListInv' /\ MarkInv' /\ NextInv'
  <2>1. PICK st \in {"cancelled", "failed"} :
          /\ status[t] # "none" /\ status' = [status EXCEPT ![t] = st]
          /\ UNCHANGED <<rows, file, receiver, queuerVars, checkVars>>
    BY <1>1 DEF CancelTransfer, MarkFailed
  <2>2. ListInv'
    BY <2>1 DEF ListInv
  <2>3. MarkInv'
    BY <2>1 DEF MarkInv
  <2>4. NextInv'
    BY <2>1 DEF NextInv
  <2> QED
    BY <2>2, <2>3, <2>4
<1>2. CASE Restart
  BY <1>2 DEF Restart, ListInv, MarkInv, NextInv
<1>3. CASE UNCHANGED vars
  BY <1>3 DEF vars, ListInv, MarkInv, NextInv
<1> QED
  BY <1>1, <1>2, <1>3

LEMMA Inductive ==
  ASSUME PeersApart
  PROVE  Spec => []IInv
<1>1. Init => IInv
  BY InvInit
<1>2. IInv /\ TypeOK' /\ [Next]_vars => IInv'
  BY QueuerInv, CheckerInv, OtherInv DEF Next, IInv
<1>3. Spec => []TypeOK
  BY TypeCorrect
<1> QED
  BY <1>1, <1>2, <1>3, PTL DEF Spec

(* With one thread for each receiver the callback gets a transfer at most  *)
(* once, and only when its own receiver has come.                          *)
THEOREM CallsAreProper ==
  ASSUME PeersApart
  PROVE  Spec => []CalledProperly
<1>1. IInv => CalledProperly
  BY DEF IInv, MarkInv, CalledProperly
<1> QED
  BY <1>1, Inductive, PTL

(* The four parts of the abstract queue are apart.                         *)
LEMMA PartsApart ==
  ASSUME PeersApart, IInv
  PROVE  /\ Waiting \cap Taken = {} /\ Waiting \cap Handed = {} /\ Taken \cap Handed = {}
         /\ Waiting \subseteq Ids /\ Taken \subseteq Ids /\ Handed \subseteq Ids
         /\ \A t \in Waiting \cup Taken \cup Handed : status[t] # "none"
<1> USE DEF IInv, TypeOK, None
<1>1. ASSUME NEW t \in Waiting
      PROVE  t \in Ids /\ status[t] # "none" /\ calls[t] = 0 /\ \A k \in Checkers : cur[k] # t
  <2>1. CASE t \in Ids /\ status[t] = "pending"
    BY <2>1 DEF MarkInv, Ids
  <2>2. ASSUME NEW l \in Checkers, t \in snap[l]
        PROVE  t \in Ids /\ status[t] # "none" /\ calls[t] = 0 /\ \A k \in Checkers : cur[k] # t
    <3>1. t \in Ids /\ status[t] # "none" /\ receiver[t] = Peer[l] /\ calls[t] = 0 /\ cur[l] # t
      BY <2>2 DEF ListInv
    <3>2. ASSUME NEW k \in Checkers, cur[k] = t PROVE k = l
      BY <3>1, <3>2 DEF MarkInv, PeersApart, Ids
    <3> QED
      BY <3>1, <3>2
  <2> QED
    BY <2>1, <2>2 DEF Waiting
<1>2. \A t \in Taken : t \in Ids /\ status[t] # "none" /\ calls[t] = 0
  BY DEF Taken, MarkInv
<1>3. \A t \in Handed : t \in Ids /\ status[t] # "none" /\ calls[t] > 0
  BY DEF Handed, MarkInv
<1>4. Waiting \cap Taken = {}
  BY <1>1 DEF Taken
<1>5. Waiting \cap Handed = {}
  BY <1>1, <1>3
<1>6. Taken \cap Handed = {}
  BY <1>2, <1>3
<1> QED
  BY <1>1, <1>2, <1>3, <1>4, <1>5, <1>6

(* A step after which less waits and less is taken is a Leave.             *)
LEMMA LeaveStep ==
  ASSUME PeersApart, IInv, Waiting' \subseteq Waiting, Taken' \subseteq Taken, Handed' = Handed,
         \A t \in Ids : status'[t] = "none" <=> status[t] = "none"
  PROVE  [Queue!Next]_<<Waiting, Taken, Handed, Gone>>
<1> DEFINE W == Waiting \ Waiting'
<1> DEFINE L == Taken \ Taken'
<1>1. W \in SUBSET Ids /\ L \in SUBSET Ids
  BY PartsApart
<1>2. Gone' = (Gone \cup W) \cup L
  BY PartsApart DEF Gone
<1>3. Waiting' = Waiting \ W /\ Taken' = Taken \ L
  OBVIOUS
<1>4. Queue!Leave(W, L)
  BY <1>2, <1>3 DEF Queue!Leave
<1> QED
  BY <1>1, <1>4 DEF Queue!Next

LEMMA QueueStep ==
  ASSUME PeersApart, IInv, IInv', [Next]_vars
  PROVE  [Queue!Next]_<<Waiting, Taken, Handed, Gone>>
<1> USE DEF tableVars, queuerVars, checkVars
<1> DEFINE Still == UNCHANGED <<Waiting, Taken, Handed, Gone>>
<1>1. ASSUME NEW q \in Queuers, LookUp(q) \/ InsertFails(q) PROVE Still
  BY <1>1 DEF LookUp, InsertFails, Waiting, Taken, Handed, Gone
<1>2. ASSUME NEW q \in Queuers, Insert(q) PROVE Queue!Next
  <2> DEFINE t == qid[q]
  <2>1. t \in Ids /\ status[t] = "none"
    BY <1>2 DEF Insert, IInv, NextInv, TypeOK
  <2>2. t \notin ((Waiting \cup Taken) \cup Handed) \cup Gone
    BY <2>1, PartsApart DEF Gone
  <2>3. status' = [status EXCEPT ![t] = "pending"] /\ UNCHANGED <<snap, cur, calls>>
    BY <1>2 DEF Insert
  <2>4. Waiting' = Waiting \cup {t}
    BY <2>1, <2>3 DEF Waiting, IInv, TypeOK
  <2>5. UNCHANGED <<Taken, Handed>>
    BY <2>3 DEF Taken, Handed
  <2>6. Gone' = Gone
    BY <2>1, <2>2, <2>3, <2>4, <2>5 DEF Gone, IInv, TypeOK
  <2>7. Queue!Submit(t)
    BY <2>2, <2>4, <2>5, <2>6 DEF Queue!Submit
  <2> QED
    BY <2>1, <2>7 DEF Queue!Next
<1>3. ASSUME NEW k \in Checkers, GetPending(k) PROVE Still
  <2>1. snap' = [snap EXCEPT ![k] = Pending(Peer[k])] /\ UNCHANGED <<status, cur, calls>>
    BY <1>3 DEF GetPending
  <2>2. snap[k] = {}
    BY <1>3 DEF GetPending, IInv, TypeOK
  <2>3. Waiting' = Waiting
    BY <2>1, <2>2 DEF Waiting, Pending, IInv, TypeOK
  <2> QED
    BY <2>1, <2>3 DEF Taken, Handed, Gone
<1>4. ASSUME NEW k \in Checkers, MarkDelivered(k) PROVE Queue!Next
  <2>1. PICK t \in Oldest(k) : /\ cpc[k] = "mark"
                              /\ status' = [status EXCEPT ![t] = "delivered"]
                              /\ snap' = [snap EXCEPT ![k] = @ \ {t}]
                              /\ cur' = [cur EXCEPT ![k] = t]
                              /\ UNCHANGED <<receiver, calls>>
    BY <1>4 DEF MarkDelivered
  <2>2. t \in snap[k] /\ t \in Ids /\ cur[k] = None
    BY <2>1 DEF Oldest, IInv, TypeOK
  <2>3. t \in Waiting
    BY <2>2 DEF Waiting
  <2>4. \A l \in Checkers : t \in snap[l] => l = k
    BY <2>2 DEF IInv, ListInv, PeersApart
  <2>5. Waiting' = Waiting \ {t}
    <3>1. \A l \in Checkers : snap'[l] = snap[l] \ {t}
      BY <2>1, <2>4 DEF IInv, TypeOK
    <3>2. {u \in Ids : status'[u] = "pending"} = {u \in Ids : status[u] = "pending"} \ {t}
      BY <2>1, <2>2 DEF IInv, TypeOK
    <3> QED
      BY <3>1, <3>2 DEF Waiting
  <2>6. Taken' = Taken \cup {t}
    BY <2>1, <2>2 DEF Taken, None, Ids, IInv, TypeOK
  <2>7. Handed' = Handed
    BY <2>1 DEF Handed
  <2>8. \A u \in Ids : status'[u] = "none" <=> status[u] = "none"
    BY <2>1, <2>2, <2>3, PartsApart DEF IInv, TypeOK
  <2>9. Gone' = Gone
    BY <2>3, <2>5, <2>6, <2>7, <2>8 DEF Gone
  <2>10. Queue!Take(t)
    BY <2>3, <2>5, <2>6, <2>7, <2>9 DEF Queue!Take
  <2> QED
    BY <2>2, <2>10 DEF Queue!Next
<1>5. ASSUME NEW k \in Checkers, Ready(k) PROVE Queue!Next
  <2> DEFINE t == cur[k]
  <2>1. /\ cpc[k] = "call"
        /\ calls' = [calls EXCEPT ![t] = @ + 1]
        /\ cur' = [cur EXCEPT ![k] = None]
        /\ UNCHANGED <<status, receiver, snap>>
    BY <1>5 DEF Ready
  <2>2. t \in Ids /\ t # None /\ calls[t] = 0
    BY <2>1 DEF IInv, TypeOK, MarkInv, None, Ids
  <2>3. t \in Taken
    BY <2>2 DEF Taken
  <2>4. \A l \in Checkers : cur[l] = t => l = k
    BY <2>2 DEF IInv, MarkInv, PeersApart
  <2>5. Taken' = Taken \ {t}
    <3>1. \A l \in Checkers : cur'[l] = IF l = k THEN None ELSE cur[l]
      BY <2>1 DEF IInv, TypeOK
    <3> QED
      BY <2>2, <2>4, <3>1 DEF Taken
  <2>6. Handed' = Handed \cup {t}
    BY <2>1, <2>2 DEF Handed, IInv, TypeOK
  <2>7. Waiting' = Waiting
    BY <2>1 DEF Waiting
  <2>8. Gone' = Gone
    BY <2>1, <2>3, <2>5, <2>6, <2>7 DEF Gone
  <2>9. Queue!Hand(t)
    BY <2>3, <2>5, <2>6, <2>7, <2>8 DEF Queue!Hand
  <2> QED
    BY <2>2, <2>9 DEF Queue!Next
<1>6. ASSUME NEW k \in Checkers, Abandon(k)
      PROVE  [Queue!Next]_<<Waiting, Taken, Handed, Gone>>
  <2>1. /\ snap' = [snap EXCEPT ![k] = {}] /\ cur' = [cur EXCEPT ![k] = None]
        /\ UNCHANGED <<status, calls>>
    BY <1>6 DEF Abandon
  <2>2. Waiting' \subseteq Waiting
    BY <2>1 DEF Waiting, IInv, TypeOK
  <2>3. Taken' \subseteq Taken
    BY <2>1 DEF Taken, IInv, TypeOK
  <2>4. Handed' = Handed
    BY <2>1 DEF Handed
  <2> QED
    BY <2>1, <2>2, <2>3, <2>4, LeaveStep
<1>7. ASSUME NEW t \in Ids, CancelTransfer(t) \/ MarkFailed(t)
      PROVE  [Queue!Next]_<<Waiting, Taken, Handed, Gone>>
  <2>1. PICK st \in {"cancelled", "failed"} :
          /\ status[t] # "none" /\ status' = [status EXCEPT ![t] = st]
          /\ UNCHANGED <<snap, cur, calls>>
    BY <1>7 DEF CancelTransfer, MarkFailed
  <2>2. Waiting' \subseteq Waiting
    BY <2>1 DEF Waiting, IInv, TypeOK
  <2>3. Taken' = Taken /\ Handed' = Handed
    BY <2>1 DEF Taken, Handed
  <2>4. \A u \in Ids : status'[u] = "none" <=> status[u] = "none"
    BY <2>1 DEF IInv, TypeOK
  <2> QED
    BY <2>2, <2>3, <2>4, LeaveStep
<1>8. CASE Restart
  <2>1. snap' = [k \in Checkers |-> {}] /\ cur' = [k \in Checkers |-> None]
        /\ UNCHANGED <<status, calls>>
    BY <1>8 DEF Restart
  <2>2. Waiting' \subseteq Waiting
    BY <2>1 DEF Waiting
  <2>3. Taken' \subseteq Taken
    BY <2>1 DEF Taken
  <2>4. Handed' = Handed
    BY <2>1 DEF Handed
  <2> QED
    BY <2>1, <2>2, <2>3, <2>4, LeaveStep
<1>9. CASE UNCHANGED vars
  BY <1>9 DEF vars, Waiting, Taken, Handed, Gone
<1> QED
  BY <1>1, <1>2, <1>3, <1>4, <1>5, <1>6, <1>7, <1>8, <1>9 DEF Next, CheckStep

(* With one thread for each receiver the manager implements the queue that *)
(* hands over at most once.                                                *)
THEOREM ImplementsQueue ==
  ASSUME PeersApart
  PROVE  Spec => HandedOnce
<1>1. Init => Queue!Init
  BY DEF Init, Queue!Init, Waiting, Taken, Handed, Gone
<1>2. IInv /\ IInv' /\ [Next]_vars => [Queue!Next]_<<Waiting, Taken, Handed, Gone>>
  BY QueueStep
<1>3. Spec => []IInv
  BY Inductive
<1> QED
  BY <1>1, <1>2, <1>3, PTL DEF Spec, HandedOnce, Queue!Spec, Queue!qvars

----------------------------------------------------------------------------
(* Mesh transfer                                                           *)

Filled(k) == job[k] # NoJob

(* A piece of a version is read at its place in the version, which is      *)
(* within its size.                                                        *)
Genuine(piece, i) == piece[2] = i /\ (piece[1] # 0 => i < SizeOf[piece[1]])

PieceInv ==
  /\ \A h \in handlers : Genuine(h.piece, h.i) /\ (h.ready => Filled(h.node))
  /\ \A k \in NodeIds : Filled(k) =>
       IsFiniteSet(DOMAIN job[k].got) /\ \A i \in DOMAIN job[k].got : Genuine(job[k].got[i], i)

(* Up to the end of the first offer every chunk is on its way, or stored,  *)
(* once.                                                                   *)
FirstOffer ==
  offers <= 1 =>
    /\ offers = 0 => handlers = {} /\ offer = NoOffer
    /\ \A h \in handlers : offer # NoOffer => h.i < offer.i
    /\ \A g, h \in handlers : g.i = h.i => g = h
    /\ \A k \in NodeIds : Filled(k) => \A i \in DOMAIN job[k].got :
         /\ offers = 1 /\ (offer # NoOffer => i < offer.i)
         /\ \A h \in handlers : h.i # i

DoneInv ==
  \A k \in NodeIds : done[k] # <<>> =>
    Filled(k) /\ (offers <= 1 => Cardinality(DOMAIN job[k].got) >= job[k].total)

MeshInv == MeshTypeOK /\ PieceInv /\ FirstOffer /\ DoneInv /\ OneOfferIsExact

(* Places in a set of numbers                                              *)

Rank(D, i) == Cardinality({j \in D : j < i})

LEMMA RankOrders ==
  ASSUME NEW D \in SUBSET Nat, IsFiniteSet(D), NEW i \in D, NEW k \in D, i < k
  PROVE  Rank(D, i) < Rank(D, k)
<1> DEFINE A == {j \in D : j < i}
           B == {j \in D : j < k}
<1>1. IsFiniteSet(A) /\ IsFiniteSet(B)
  BY FS_Subset
<1>2. A \cup {i} \subseteq B /\ i \notin A
  <2>1. i \in Nat /\ k \in Nat /\ i \in B /\ i \notin A
    OBVIOUS
  <2>2. \A j \in D : j \in Nat /\ (j < i => j < k)
    BY <2>1
  <2> QED
    BY <2>1, <2>2
<1>3. Cardinality(A \cup {i}) = Cardinality(A) + 1 /\ Cardinality(A) \in Nat
  BY <1>1, <1>2, FS_AddElement, FS_CardinalityType
<1>4. Cardinality(A \cup {i}) <= Cardinality(B) /\ Cardinality(B) \in Nat
  BY <1>1, <1>2, FS_Subset, FS_CardinalityType
<1> QED
  BY <1>3, <1>4 DEF Rank

LEMMA RankBounds ==
  ASSUME NEW D \in SUBSET Nat, IsFiniteSet(D), NEW i \in D
  PROVE  Rank(D, i) \in 0..(Cardinality(D) - 1)
<1> DEFINE A == {j \in D : j < i}
<1>1. IsFiniteSet(A) /\ A \cup {i} \subseteq D /\ i \notin A
  BY FS_Subset
<1>2. Cardinality(A \cup {i}) = Cardinality(A) + 1 /\ Cardinality(A) \in Nat
  BY <1>1, FS_AddElement, FS_CardinalityType
<1>3. Cardinality(A \cup {i}) <= Cardinality(D) /\ Cardinality(D) \in Nat
  BY <1>1, FS_Subset, FS_CardinalityType
<1> QED
  BY <1>2, <1>3 DEF Rank

(* Every rank below the number of places is taken.                         *)
LEMMA RanksTaken ==
  ASSUME NEW D \in SUBSET Nat, IsFiniteSet(D), NEW c \in 1..Cardinality(D)
  PROVE  \E i \in D : Rank(D, i) = c - 1
<1> DEFINE n == Cardinality(D)
           f == [i \in D |-> Rank(D, i)]
<1>1. n \in Nat /\ IsFiniteSet(0..(n - 1)) /\ Cardinality(0..(n - 1)) = n
  <2>1. n \in Nat
    BY FS_CardinalityType
  <2>2. 0 \in Int /\ n - 1 \in Int
    BY <2>1
  <2>3. /\ IsFiniteSet(0..(n - 1))
        /\ Cardinality(0..(n - 1)) = IF 0 > n - 1 THEN 0 ELSE n - 1 - 0 + 1
    BY <2>2, FS_Interval
  <2> HIDE DEF n
  <2> QED
    BY <2>1, <2>3
<1>2. f \in [D -> 0..(n - 1)]
  BY RankBounds
<1>3. ASSUME NEW i \in D, NEW j \in D, f[i] = f[j]
      PROVE  i = j
  <2>1. Rank(D, i) = Rank(D, j) /\ Rank(D, i) \in Nat /\ i \in Nat /\ j \in Nat
    BY <1>3, RankBounds
  <2>2. ~(i < j) /\ ~(j < i)
    BY <2>1, RankOrders
  <2> QED
    BY <2>1, <2>2
<1>4. f \in Injection(D, 0..(n - 1))
  BY <1>2, <1>3 DEF Injection, IsInjective
<1>5. f \in Surjection(D, 0..(n - 1))
  BY <1>1, <1>4, FS_Injection
<1>6. c - 1 \in 0..(n - 1)
  BY <1>1
<1> QED
  BY <1>5, <1>6 DEF Surjection

(* InOrder gives every chunk its rank, ...                                 *)
LEMMA InOrderRank ==
  ASSUME NEW got, DOMAIN got \in SUBSET Nat, IsFiniteSet(DOMAIN got), NEW i \in DOMAIN got
  PROVE  /\ Rank(DOMAIN got, i) + 1 \in DOMAIN InOrder(got)
         /\ InOrder(got)[Rank(DOMAIN got, i) + 1] = got[i]
<1> DEFINE D == DOMAIN got
           k == Rank(D, i) + 1
<1>1. k \in 1..Cardinality(D) /\ Cardinality(D) \in Nat
  BY RankBounds, FS_CardinalityType
<1>2. \A j \in D : Rank(D, j) = k - 1 => j = i
  <2> SUFFICES ASSUME NEW j \in D, Rank(D, j) = k - 1, j # i PROVE FALSE
    OBVIOUS
  <2>1. Rank(D, i) \in Nat /\ Rank(D, j) = Rank(D, i)
    BY RankBounds, FS_CardinalityType
  <2>2. j < i \/ i < j
    OBVIOUS
  <2> QED
    BY <2>1, <2>2, RankOrders
<1>3. Rank(D, i) = k - 1
  BY RankBounds, FS_CardinalityType
<1>4. (CHOOSE j \in D : Cardinality({l \in D : l < j}) = k - 1) = i
  BY <1>2, <1>3 DEF Rank
<1> QED
  BY <1>1, <1>4 DEF InOrder

(* ... and is the whole version if it has as many chunks as the version,   *)
(* all of them the version's own.                                          *)
LEMMA InOrderWhole ==
  ASSUME NEW got, DOMAIN got \in SUBSET Nat, IsFiniteSet(DOMAIN got),
         \A i \in DOMAIN got : Genuine(got[i], i) /\ got[i] \in Pieces,
         NEW v \in Versions, Cardinality(DOMAIN got) = SizeOf[v], SizeOf[v] \in Nat,
         Range(InOrder(got)) \subseteq {v} \X Indexes
  PROVE  InOrder(got) = Whole(v)
<1> DEFINE D == DOMAIN got
           n == SizeOf[v]
<1>1. \A i \in D : got[i] \in Range(InOrder(got))
  BY InOrderRank DEF Range
<1>2. \A i \in D : got[i] = <<v, i>> /\ i < n
  BY <1>1, MeshAssumption DEF Genuine, Pieces, Versions
<1>3. D \subseteq 0..(n - 1)
  BY <1>2
<1>4. IsFiniteSet(0..(n - 1)) /\ Cardinality(0..(n - 1)) = n
  <2>1. 0 \in Int /\ n - 1 \in Int /\ n \in Nat
    OBVIOUS
  <2>2. Cardinality(0..(n - 1)) = IF 0 > n - 1 THEN 0 ELSE n - 1 - 0 + 1
    BY <2>1, FS_Interval
  <2>3. IsFiniteSet(0..(n - 1))
    BY <2>1, FS_Interval
  <2> QED
    BY <2>1, <2>2, <2>3
<1>5. D = 0..(n - 1)
  BY <1>3, <1>4, FS_Subset
<1>6. ASSUME NEW i \in D
      PROVE  Rank(D, i) = i
  <2>1. {j \in D : j < i} = 0..(i - 1)
    BY <1>5
  <2>2. Cardinality(0..(i - 1)) = i
    BY FS_Interval
  <2> QED
    BY <2>1, <2>2 DEF Rank
<1>7. ASSUME NEW k \in 1..n
      PROVE  InOrder(got)[k] = <<v, k - 1>>
  <2>1. k - 1 \in D /\ Rank(D, k - 1) = k - 1
    BY <1>5, <1>6
  <2> QED
    BY <2>1, <1>2, InOrderRank
<1> QED
  BY <1>7 DEF InOrder, Whole

(* The parts of a state                                                    *)

LEMMA MeshNumbers ==
  /\ Indexes \subseteq Nat /\ Sizes \subseteq Nat /\ 1 \in Versions
  /\ Versions = 1..Len(SizeOf) /\ Len(SizeOf) \in Nat
  /\ \A v \in Versions : SizeOf[v] \in Sizes
  /\ \A n \in Sizes, i \in Nat : i < n => i \in Indexes
  /\ 1 \in NodeIds
<1>1. Versions = 1..Len(SizeOf) /\ Len(SizeOf) \in Nat /\ Len(SizeOf) # 0
  BY MeshAssumption, LenProperties, EmptySeq DEF Versions
<1>2. \A v \in Versions : SizeOf[v] \in Nat
  BY <1>1, MeshAssumption, ElementOfSeq
<1>3. Sizes \subseteq Nat /\ \A v \in Versions : SizeOf[v] \in Sizes
  BY <1>2 DEF Sizes
<1>4. Indexes \subseteq Nat
  BY <1>3 DEF Indexes
<1>5. ASSUME NEW n \in Sizes, NEW i \in Nat, i < n
      PROVE  i \in Indexes
  BY <1>3, <1>5 DEF Indexes
<1> QED
  BY <1>1, <1>3, <1>4, <1>5, MeshAssumption DEF NodeIds

LEMMA JobOf ==
  ASSUME MeshTypeOK, NEW k \in NodeIds, Filled(k)
  PROVE  /\ job[k] \in Jobs /\ job[k].total \in Sizes /\ job[k].total \in Nat
         /\ job[k].complete \in BOOLEAN
         /\ DOMAIN job[k].got \subseteq Indexes /\ DOMAIN job[k].got \in SUBSET Nat
         /\ \A i \in DOMAIN job[k].got : job[k].got[i] \in Pieces
<1>1. job[k] \in Jobs
  BY DEF MeshTypeOK, Filled
<1>2. \E S \in SUBSET Indexes : job[k].got \in [S -> Pieces]
  BY <1>1 DEF Jobs
<1> QED
  BY <1>1, <1>2, MeshNumbers DEF Jobs

LEMMA JobIsNoOther ==
  ASSUME NEW n \in Sizes, NEW g, NEW b
  PROVE  [total |-> n, got |-> g, complete |-> b] # NoJob
<1>1. [total |-> n, got |-> g, complete |-> b].total = n /\ NoJob.total = -1
  BY DEF NoJob
<1> QED
  BY <1>1, MeshNumbers

LEMMA ChunkAdded ==
  ASSUME NEW h, NEW g, NEW G, G = WithChunk(h, g)
  PROVE  /\ DOMAIN G = DOMAIN g \cup {h.i} /\ G[h.i] = h.piece
         /\ \A i \in DOMAIN g : i # h.i => G[i] = g[i]
  BY DEF WithChunk

LEMMA HandlerOf ==
  ASSUME MeshTypeOK, NEW h \in handlers
  PROVE  /\ h \in Handlers /\ h.n \in 1..MaxOffers /\ h.i \in Indexes /\ h.piece \in Pieces
         /\ h.node \in NodeIds /\ h.ready \in BOOLEAN
  BY DEF MeshTypeOK, Handlers

LEMMA StoreMoves ==
  ASSUME MeshTypeOK, PieceInv, NEW h \in handlers, Store(h), NEW k, k = h.node,
         NEW G, G = WithChunk(h, job[k].got)
  PROVE  /\ k \in NodeIds /\ Filled(k) /\ handlers' = handlers \ {h}
         /\ job'[k].total = job[k].total /\ job'[k].got = G /\ job'[k] \in Jobs
         /\ \A l \in NodeIds \ {k} : job'[l] = job[l]
         /\ job' \in [NodeIds -> Jobs \cup {NoJob}]
         /\ \/ done' = done
            \/ /\ offers = 1 /\ Cardinality(DOMAIN G) = job[k].total
               /\ done' = [done EXCEPT ![k] = Append(done[k], InOrder(G))]
         /\ UNCHANGED <<sending, discovery, node, running>>
<1>1. k \in NodeIds /\ Filled(k) /\ h.i \in Indexes /\ h.piece \in Pieces
  BY HandlerOf DEF Store, PieceInv
<1> DEFINE full == Cardinality(DOMAIN G) = job[k].total
<1>2. /\ handlers' = handlers \ {h}
      /\ job' = [job EXCEPT ![k].got = G, ![k].complete = full \/ @]
      /\ done' = IF full /\ offers = 1 THEN [done EXCEPT ![k] = Append(@, InOrder(G))] ELSE done
      /\ UNCHANGED <<sending, discovery, node, running>>
  BY DEF Store
<1>3. G \in UNION {[S -> Pieces] : S \in SUBSET Indexes}
  <2>1. G \in [DOMAIN job[k].got \cup {h.i} -> Pieces]
    <3>1. \A i \in DOMAIN job[k].got : job[k].got[i] \in Pieces
      BY <1>1, JobOf
    <3> QED
      BY <1>1, <3>1 DEF WithChunk
  <2>2. DOMAIN job[k].got \cup {h.i} \in SUBSET Indexes
    BY <1>1, JobOf
  <2> QED
    BY <2>1, <2>2
<1>4. job[k] \in Jobs /\ job \in [NodeIds -> Jobs \cup {NoJob}]
  BY <1>1, JobOf DEF MeshTypeOK
<1>5. job'[k] = [job[k] EXCEPT !.got = G, !.complete = full \/ job[k].complete]
  BY <1>1, <1>2, <1>4
<1>6. (full \/ job[k].complete) \in BOOLEAN
  OBVIOUS
<1>7. job'[k] \in Jobs /\ job'[k].total = job[k].total /\ job'[k].got = G
  BY <1>3, <1>4, <1>5, <1>6 DEF Jobs
<1>8. job' \in [NodeIds -> Jobs \cup {NoJob}] /\ \A l \in NodeIds \ {k} : job'[l] = job[l]
  <2>1. DOMAIN job' = NodeIds /\ \A l \in NodeIds \ {k} : job'[l] = job[l]
    BY <1>2, <1>4
  <2>2. job' = [l \in NodeIds |-> job'[l]]
    BY <1>2, <1>4
  <2> QED
    BY <1>4, <1>7, <2>1, <2>2
<1> QED
  BY <1>1, <1>2, <1>7, <1>8

LEMMA ExpectMoves ==
  ASSUME MeshTypeOK, Expect
  PROVE  /\ ~Filled(node) /\ Filled(node)' /\ DOMAIN job'[node].got = {}
         /\ \A k \in NodeIds \ {node} : job'[k] = job[k]
         /\ job' \in [NodeIds -> Jobs \cup {NoJob}] /\ node \in NodeIds
         /\ UNCHANGED <<sending, node, handlers, done>>
<1>1. /\ job[node] = NoJob /\ node \in NodeIds /\ job \in [NodeIds -> Jobs \cup {NoJob}]
      /\ job' = [job EXCEPT ![node] = [total |-> SizeOf[version], got |-> <<>>, complete |-> FALSE]]
      /\ UNCHANGED <<sending, node, handlers, done>>
  BY DEF Expect, MeshTypeOK
<1>2. SizeOf[version] \in Sizes
  BY MeshNumbers DEF MeshTypeOK
<1>3. <<>> \in UNION {[S -> Pieces] : S \in SUBSET Indexes}
  <2>1. <<>> \in [{} -> Pieces]
    OBVIOUS
  <2> QED
    BY <2>1
<1>4. [total |-> SizeOf[version], got |-> <<>>, complete |-> FALSE] \in Jobs
  BY <1>2, <1>3 DEF Jobs
<1>5. [total |-> SizeOf[version], got |-> <<>>, complete |-> FALSE] # NoJob
  BY <1>2, JobIsNoOther
<1>6. /\ job'[node] = [total |-> SizeOf[version], got |-> <<>>, complete |-> FALSE]
      /\ \A k \in NodeIds \ {node} : job'[k] = job[k]
      /\ job' \in [NodeIds -> Jobs \cup {NoJob}]
  BY <1>1, <1>4
<1>7. job'[node].got = <<>>
  BY <1>6
<1> QED
  BY <1>1, <1>5, <1>6, <1>7 DEF Filled

LEMMA SendMoves ==
  ASSUME MeshTypeOK, SendChunk
  PROVE  /\ offer \in Offers /\ offer # NoOffer /\ offer.i < offer.total
         /\ offer' \in Offers /\ offer' # NoOffer /\ offer'.i = offer.i + 1
         /\ offer'.total = offer.total
         /\ \/ handlers' = handlers
            \/ \E h \in Handlers : /\ handlers' = handlers \cup {h} /\ h.i = offer.i
                                  /\ Genuine(h.piece, h.i) /\ ~h.ready
         /\ UNCHANGED <<version, offers, discovery, receiving, done>>
<1>1. /\ offer # NoOffer /\ offer.i < offer.total /\ offer' = [offer EXCEPT !.i = @ + 1]
      /\ handlers' = handlers \/ handlers' = handlers \cup {Handler(NextPiece)}
      /\ UNCHANGED <<version, offers, discovery, receiving, done>>
  BY DEF SendChunk
<1>2. /\ offer \in Offers /\ offer.n \in 1..MaxOffers /\ offer.total \in Sizes
      /\ offer.i \in Nat /\ offer.to \in PeerIds
  BY <1>1 DEF MeshTypeOK, Offers
<1>3. offer' \in Offers /\ offer'.n = offer.n /\ offer'.i = offer.i + 1 /\ offer'.total = offer.total
  BY <1>1, <1>2 DEF Offers
<1>4. offer' # NoOffer
  <2>1. offer'.n # 0
    BY <1>2, <1>3
  <2> QED
    BY <2>1 DEF NoOffer
<1>5. offer.i \in Indexes
  BY <1>1, <1>2, MeshNumbers
<1> DEFINE v == IF offer.i < SizeOf[version] THEN version ELSE 0
           h == [n |-> offer.n, i |-> offer.i, piece |-> <<v, offer.i>>, node |-> node, ready |-> FALSE]
<1>6. Handler(NextPiece) = h
  BY DEF Handler, NextPiece
<1>7. version \in Versions /\ v \in Versions \cup {0} /\ (v # 0 => v = version /\ offer.i < SizeOf[v])
  BY DEF MeshTypeOK
<1>8. <<v, offer.i>> \in Pieces /\ Genuine(<<v, offer.i>>, offer.i)
  BY <1>5, <1>7 DEF Pieces, Genuine
<1>9. h \in Handlers /\ h.i = offer.i /\ Genuine(h.piece, h.i) /\ ~h.ready
  <2>1. node \in NodeIds
    BY DEF MeshTypeOK
  <2> HIDE DEF v
  <2> QED
    BY <1>2, <1>5, <1>8, <2>1 DEF Handlers
<1> QED
  BY <1>1, <1>2, <1>3, <1>4, <1>6, <1>9

LEMMA LookUpMoves ==
  ASSUME MeshTypeOK, NEW h \in handlers, LookUpJob(h)
  PROVE  /\ \/ handlers' = handlers \ {h}
            \/ \E g \in Handlers : /\ handlers' = (handlers \ {h}) \cup {g}
                                  /\ g.i = h.i /\ g.piece = h.piece /\ g.node = h.node
                                  /\ Filled(h.node)
         /\ UNCHANGED <<sending, discovery, receiving, done>>
<1>1. /\ \/ handlers' = handlers \ {h}
         \/ job[h.node] # NoJob /\ handlers' = (handlers \ {h}) \cup {[h EXCEPT !.ready = TRUE]}
      /\ UNCHANGED <<sending, discovery, receiving, done>>
  BY DEF LookUpJob
<1>2. h \in Handlers
  BY HandlerOf
<1> DEFINE g == [h EXCEPT !.ready = TRUE]
<1>3. g \in Handlers /\ g.i = h.i /\ g.piece = h.piece /\ g.node = h.node
  BY <1>2 DEF Handlers
<1> HIDE DEF g
<1> QED
  BY <1>1, <1>3 DEF Filled, g

LEMMA OfferMoves ==
  ASSUME MeshTypeOK, NEW to \in PeerIds, Offer(to)
  PROVE  /\ offer = NoOffer /\ offers' = offers + 1 /\ offers' \in 1..MaxOffers /\ offers \in Nat
         /\ offer' \in Offers /\ offer'.i = 0 /\ offer'.i <= offer'.total
         /\ UNCHANGED <<version, discovery, receiving, handlers, done>>
<1>1. /\ offer = NoOffer /\ offers < MaxOffers /\ offers' = offers + 1
      /\ offer' = [n |-> offers + 1, total |-> SizeOf[version], i |-> 0, to |-> to]
      /\ UNCHANGED <<version, discovery, receiving, handlers, done>>
  BY DEF Offer
<1>2. offers \in 0..MaxOffers /\ SizeOf[version] \in Sizes /\ SizeOf[version] \in Nat
  BY MeshNumbers DEF MeshTypeOK
<1> QED
  BY <1>1, <1>2, MeshAssumption DEF Offers

(* The file that is handed over is a sequence of pieces.                   *)
LEMMA StoreInOrder ==
  ASSUME MeshTypeOK, PieceInv, NEW h \in handlers, Store(h), NEW k, k = h.node,
         NEW G, G = WithChunk(h, job[k].got)
  PROVE  /\ IsFiniteSet(DOMAIN G) /\ DOMAIN G \in SUBSET Nat
         /\ \A i \in DOMAIN G : Genuine(G[i], i) /\ G[i] \in Pieces
         /\ InOrder(G) \in Seq(Pieces)
<1>1. /\ k \in NodeIds /\ Filled(k) /\ h.i \in Indexes /\ h.piece \in Pieces
      /\ Genuine(h.piece, h.i)
  BY HandlerOf, StoreMoves DEF PieceInv
<1> DEFINE g == job[k].got
<1>2. /\ DOMAIN g \in SUBSET Nat /\ IsFiniteSet(DOMAIN g)
      /\ \A i \in DOMAIN g : g[i] \in Pieces /\ Genuine(g[i], i)
  BY <1>1, JobOf DEF PieceInv
<1>3. DOMAIN G = DOMAIN g \cup {h.i} /\ \A i \in DOMAIN G : G[i] = IF i = h.i THEN h.piece ELSE g[i]
  BY DEF WithChunk
<1> HIDE DEF g
<1>4. IsFiniteSet(DOMAIN G) /\ DOMAIN G \in SUBSET Nat
  <2>1. IsFiniteSet(DOMAIN g \cup {h.i})
    BY <1>2, FS_AddElement
  <2>2. DOMAIN g \cup {h.i} \in SUBSET Nat
    BY <1>1, <1>2, MeshNumbers
  <2> QED
    BY <1>3, <2>1, <2>2
<1>5. \A i \in DOMAIN G : Genuine(G[i], i) /\ G[i] \in Pieces
  BY <1>1, <1>2, <1>3
<1>6. ASSUME NEW c \in 1..Cardinality(DOMAIN G)
      PROVE  InOrder(G)[c] \in Pieces
  <2>1. \E i \in DOMAIN G : Cardinality({l \in DOMAIN G : l < i}) = c - 1
    BY <1>4, RanksTaken DEF Rank
  <2>2. PICK i \in DOMAIN G : InOrder(G)[c] = G[i]
    BY <2>1 DEF InOrder
  <2> QED
    BY <1>5, <2>2
<1>7. Cardinality(DOMAIN G) \in Nat
  BY <1>4, FS_CardinalityType
<1>8. InOrder(G) \in [1..Cardinality(DOMAIN G) -> Pieces]
  BY <1>6 DEF InOrder
<1> QED
  BY <1>4, <1>5, <1>7, <1>8

(* A step of the peers, or of the node, moves neither offer nor chunks.    *)
LEMMA PeersMove ==
  ASSUME ServiceAdded \/ ServiceRemoved \/ AddManualPeer \/ StartNode \/ StopNode \/ EditFile
  PROVE  UNCHANGED <<offer, offers, job, handlers, done>>
  BY DEF ServiceAdded, ServiceRemoved, AddManualPeer, StartNode, StopNode, EditFile, sending, receiving

LEMMA PeerTypes ==
  ASSUME MeshTypeOK, [MeshNext]_meshVars
  PROVE  /\ version' \in Versions
         /\ peers' \subseteq PeerIds /\ known' \in BOOLEAN /\ announced' \in BOOLEAN
         /\ events' \in Seq({"add", "remove"}) /\ Len(events') <= MaxEvents
         /\ node' \in NodeIds /\ running' \in BOOLEAN
<1> USE DEF MeshTypeOK, sending, discovery, receiving
<1>1. CASE ServiceAdded
  <2>1. events' \in Seq({"add", "remove"}) /\ Len(events') <= MaxEvents
    BY <1>1, MeshAssumption DEF ServiceAdded
  <2>2. peers' \subseteq PeerIds /\ (known' = TRUE \/ known' = known)
    BY <1>1 DEF ServiceAdded, AddPeer, PeerIds
  <2>3. UNCHANGED <<version, announced, node, running>>
    BY <1>1 DEF ServiceAdded
  <2> QED
    BY <2>1, <2>2, <2>3
<1>2. CASE ServiceRemoved
  <2>1. events' \in Seq({"add", "remove"}) /\ Len(events') <= MaxEvents
    BY <1>2, MeshAssumption DEF ServiceRemoved
  <2>2. peers' \subseteq PeerIds /\ known' = FALSE
    BY <1>2 DEF ServiceRemoved, RemovePeer
  <2>3. UNCHANGED <<version, announced, node, running>>
    BY <1>2 DEF ServiceRemoved
  <2> QED
    BY <2>1, <2>2, <2>3
<1>3. CASE AddManualPeer
  BY <1>3 DEF AddManualPeer, AddPeer, PeerIds
<1>4. CASE StartNode
  <2>1. node' \in NodeIds
    BY <1>4, MeshAssumption DEF StartNode, NodeIds
  <2>2. running' = TRUE /\ UNCHANGED <<version, peers, known>>
    BY <1>4 DEF StartNode, Listen, StartDiscovery, Register
  <2>3. (announced' = TRUE \/ announced' = announced) /\ events' \in Seq({"add", "remove"})
        /\ Len(events') <= MaxEvents
    <3>1. CASE UNCHANGED discovery
      BY <3>1
    <3>2. CASE Register
      <4>1. announced' = TRUE /\ events' = Append(events, "add") /\ Len(events) < MaxEvents
        BY <3>2 DEF Register
      <4> QED
        BY <4>1, MeshAssumption
    <3> QED
      BY <1>4, <3>1, <3>2 DEF StartNode, StartDiscovery
  <2> QED
    BY <2>1, <2>2, <2>3
<1>5. CASE StopNode
  <2>1. running' = FALSE /\ announced' = FALSE /\ UNCHANGED <<version, peers, known, node>>
    BY <1>5 DEF StopNode, Unregister
  <2>2. events' \in Seq({"add", "remove"}) /\ Len(events') <= MaxEvents
    BY <1>5, MeshAssumption DEF StopNode, Unregister
  <2> QED
    BY <2>1, <2>2
<1>6. CASE Expect
  BY <1>6 DEF Expect
<1>7. ASSUME NEW h \in handlers, LoseChunk(h) \/ LookUpJob(h) \/ Store(h)
      PROVE  UNCHANGED <<version, peers, known, announced, events, node, running>>
  BY <1>7 DEF LoseChunk, LookUpJob, Store
<1>8. CASE EditFile
  BY <1>8, MeshNumbers DEF EditFile
<1>9. CASE SendChunk \/ OfferEnds \/ \E to \in PeerIds : Offer(to)
  BY <1>9 DEF SendChunk, OfferEnds, Offer
<1>10. CASE UNCHANGED meshVars
  BY <1>10 DEF meshVars
<1> QED
  BY <1>1, <1>2, <1>3, <1>4, <1>5, <1>6, <1>7, <1>8, <1>9, <1>10 DEF MeshNext

LEMMA ChunkTypes ==
  ASSUME MeshTypeOK, PieceInv, [MeshNext]_meshVars
  PROVE  /\ offers' \in 0..MaxOffers
         /\ offer' \in Offers \cup {NoOffer} /\ (offer' # NoOffer => offer'.i <= offer'.total)
         /\ job' \in [NodeIds -> Jobs \cup {NoJob}] /\ handlers' \subseteq Handlers
         /\ done' \in [NodeIds -> Seq(Seq(Pieces))]
<1>1. ASSUME UNCHANGED <<offer, offers, job, handlers, done>>
      PROVE  /\ offers' \in 0..MaxOffers
             /\ offer' \in Offers \cup {NoOffer} /\ (offer' # NoOffer => offer'.i <= offer'.total)
             /\ job' \in [NodeIds -> Jobs \cup {NoJob}] /\ handlers' \subseteq Handlers
             /\ done' \in [NodeIds -> Seq(Seq(Pieces))]
  BY <1>1 DEF MeshTypeOK
<1>2. CASE ServiceAdded \/ ServiceRemoved \/ AddManualPeer \/ StartNode \/ StopNode \/ EditFile
  BY <1>1, <1>2, PeersMove
<1>3. CASE Expect
  BY <1>3, ExpectMoves DEF MeshTypeOK, sending
<1>4. ASSUME NEW h \in handlers, LoseChunk(h)
      PROVE  handlers' \subseteq Handlers /\ UNCHANGED <<offer, offers, job, done>>
  BY <1>4 DEF LoseChunk, MeshTypeOK, sending, receiving
<1>5. ASSUME NEW h \in handlers, LookUpJob(h)
      PROVE  handlers' \subseteq Handlers /\ UNCHANGED <<offer, offers, job, done>>
  BY <1>5, LookUpMoves DEF MeshTypeOK, sending, receiving
<1>6. ASSUME NEW h \in handlers, Store(h)
      PROVE  /\ job' \in [NodeIds -> Jobs \cup {NoJob}] /\ handlers' \subseteq Handlers
             /\ done' \in [NodeIds -> Seq(Seq(Pieces))] /\ UNCHANGED <<offer, offers>>
  <2> DEFINE k == h.node
             G == WithChunk(h, job[k].got)
  <2>1. /\ k \in NodeIds /\ handlers' = handlers \ {h} /\ job' \in [NodeIds -> Jobs \cup {NoJob}]
        /\ job'[k].got = G /\ job'[k] \in Jobs
        /\ \/ done' = done
           \/ done' = [done EXCEPT ![k] = Append(done[k], InOrder(G))]
              /\ Cardinality(DOMAIN G) = job[k].total
        /\ UNCHANGED <<offer, offers>>
    BY <1>6, StoreMoves DEF sending
  <2>2. Cardinality(DOMAIN G) = job[k].total => InOrder(G) \in Seq(Pieces)
    BY <1>6, <2>1, StoreInOrder
  <2> HIDE DEF k, G
  <2>3. done \in [NodeIds -> Seq(Seq(Pieces))] /\ handlers \subseteq Handlers
    BY DEF MeshTypeOK
  <2>4. done' \in [NodeIds -> Seq(Seq(Pieces))]
    <3>1. CASE done' = [done EXCEPT ![k] = Append(done[k], InOrder(G))] /\ InOrder(G) \in Seq(Pieces)
      <4>1. Append(done[k], InOrder(G)) \in Seq(Seq(Pieces))
        BY <2>1, <2>3, <3>1
      <4> QED
        BY <2>3, <3>1, <4>1
    <3> QED
      BY <2>1, <2>2, <2>3, <3>1
  <2> QED
    BY <2>1, <2>3, <2>4
<1>7. CASE SendChunk
  <2>1. UNCHANGED <<offers, job, done>>
    BY <1>7 DEF SendChunk, receiving
  <2>2. offer' \in Offers /\ offer'.i <= offer'.total
    <3>1. offer \in Offers /\ offer.i < offer.total /\ offer' \in Offers
          /\ offer'.i = offer.i + 1 /\ offer'.total = offer.total
      BY <1>7, SendMoves
    <3>2. offer.i \in Nat /\ offer.total \in Nat
      BY <3>1, MeshNumbers DEF Offers
    <3> QED
      BY <3>1, <3>2
  <2>3. handlers' \subseteq Handlers
    BY <1>7, SendMoves DEF MeshTypeOK
  <2> QED
    BY <2>1, <2>2, <2>3 DEF MeshTypeOK
<1>8. CASE OfferEnds
  BY <1>8 DEF OfferEnds, MeshTypeOK, receiving
<1>9. ASSUME NEW to \in PeerIds, Offer(to)
      PROVE  /\ offers' \in 0..MaxOffers /\ offer' \in Offers /\ offer'.i <= offer'.total
             /\ UNCHANGED <<job, handlers, done>>
  BY <1>9, OfferMoves DEF receiving
<1>10. CASE UNCHANGED meshVars
  BY <1>1, <1>10 DEF meshVars, sending, receiving
<1> QED
  BY <1>2, <1>3, <1>4, <1>5, <1>6, <1>7, <1>8, <1>9, <1>10 DEF MeshNext, MeshTypeOK

(* What every step but Store and Expect does to jobs and records.          *)
LEMMA JobsStay ==
  ASSUME MeshTypeOK, [MeshNext]_meshVars, ~Expect, \A h \in handlers : ~Store(h)
  PROVE  UNCHANGED <<job, done>>
<1>1. CASE ServiceAdded \/ ServiceRemoved \/ AddManualPeer \/ StartNode \/ StopNode \/ EditFile
  BY <1>1, PeersMove
<1>2. ASSUME NEW h \in handlers, LoseChunk(h) \/ LookUpJob(h)
      PROVE  UNCHANGED <<job, done>>
  BY <1>2 DEF LoseChunk, LookUpJob, receiving
<1>3. CASE SendChunk \/ OfferEnds \/ \E to \in PeerIds : Offer(to)
  BY <1>3 DEF SendChunk, OfferEnds, Offer, receiving
<1>4. CASE UNCHANGED meshVars
  BY <1>4 DEF meshVars, receiving
<1> QED
  BY <1>1, <1>2, <1>3, <1>4 DEF MeshNext

LEMMA PieceStep ==
  ASSUME MeshTypeOK, PieceInv, [MeshNext]_meshVars
  PROVE  PieceInv'
<1>1. ASSUME UNCHANGED job, \A h \in handlers' : \/ h \in handlers
                                               \/ /\ Genuine(h.piece, h.i)
                                                  /\ h.ready => Filled(h.node)
      PROVE  PieceInv'
  BY <1>1 DEF PieceInv, Filled, Genuine
<1>2. CASE ServiceAdded \/ ServiceRemoved \/ AddManualPeer \/ StartNode \/ StopNode \/ EditFile
  BY <1>1, <1>2, PeersMove
<1>3. CASE Expect
  <2>1. /\ ~Filled(node) /\ Filled(node)' /\ DOMAIN job'[node].got = {}
        /\ \A k \in NodeIds \ {node} : job'[k] = job[k]
        /\ node' = node /\ handlers' = handlers
    BY <1>3, ExpectMoves
  <2>2. \A k \in NodeIds : Filled(k) => Filled(k)'
    BY <2>1 DEF Filled
  <2>3. \A h \in handlers : h.node \in NodeIds
    BY HandlerOf
  <2>4. \A h \in handlers' : Genuine(h.piece, h.i)' /\ (h.ready => Filled(h.node)')
    BY <2>1, <2>2, <2>3 DEF PieceInv, Genuine
  <2>5. ASSUME NEW k \in NodeIds, Filled(k)'
        PROVE  /\ IsFiniteSet(DOMAIN job'[k].got)
               /\ \A i \in DOMAIN job'[k].got : Genuine(job'[k].got[i], i)
    BY <2>1, <2>5, FS_EmptySet DEF PieceInv, Filled
  <2> QED
    BY <2>4, <2>5 DEF PieceInv, Genuine
<1>4. ASSUME NEW h \in handlers, LoseChunk(h)
      PROVE  PieceInv'
  BY <1>1, <1>4 DEF LoseChunk, receiving
<1>5. ASSUME NEW h \in handlers, LookUpJob(h)
      PROVE  PieceInv'
  <2>1. job' = job
    BY <1>5 DEF LookUpJob, receiving
  <2>2. Genuine(h.piece, h.i)
    BY DEF PieceInv
  <2> QED
    BY <1>1, <1>5, <2>1, <2>2, LookUpMoves
<1>6. ASSUME NEW h \in handlers, Store(h)
      PROVE  PieceInv'
  <2> DEFINE k == h.node
             G == WithChunk(h, job[k].got)
  <2>1. /\ k \in NodeIds /\ Filled(k) /\ handlers' = handlers \ {h}
        /\ job'[k].got = G /\ job'[k] \in Jobs
        /\ \A l \in NodeIds \ {k} : job'[l] = job[l]
    BY <1>6, StoreMoves
  <2>2. IsFiniteSet(DOMAIN G) /\ \A i \in DOMAIN G : Genuine(G[i], i)
    BY <1>6, StoreInOrder
  <2>3. job'[k] # NoJob
    <3>1. job'[k].total \in Nat /\ NoJob.total = -1
      BY <2>1, MeshNumbers DEF Jobs, NoJob
    <3> QED
      BY <3>1
  <2> HIDE DEF k, G
  <2>4. \A g \in handlers' : Genuine(g.piece, g.i) /\ (g.ready => Filled(g.node)')
    BY <2>1, <2>3, HandlerOf DEF PieceInv, Filled
  <2>5. \A l \in NodeIds : Filled(l)' =>
          IsFiniteSet(DOMAIN job'[l].got) /\ \A i \in DOMAIN job'[l].got : Genuine(job'[l].got[i], i)
    BY <2>1, <2>2 DEF PieceInv, Filled
  <2> QED
    BY <2>4, <2>5 DEF PieceInv, Genuine
<1>7. CASE SendChunk
  <2>1. job' = job
    BY <1>7 DEF SendChunk, receiving
  <2> QED
    BY <1>1, <1>7, <2>1, SendMoves
<1>8. CASE OfferEnds \/ \E to \in PeerIds : Offer(to)
  BY <1>1, <1>8 DEF OfferEnds, Offer, receiving
<1>9. CASE UNCHANGED meshVars
  BY <1>1, <1>9 DEF meshVars, receiving
<1> QED
  BY <1>2, <1>3, <1>4, <1>5, <1>6, <1>7, <1>8, <1>9 DEF MeshNext

LEMMA FirstStep ==
  ASSUME MeshTypeOK, PieceInv, FirstOffer, [MeshNext]_meshVars
  PROVE  FirstOffer'
<1>1. ASSUME UNCHANGED <<offer, offers, job>>, handlers' \subseteq handlers
      PROVE  FirstOffer'
  BY <1>1 DEF FirstOffer, Filled
<1>2. CASE ServiceAdded \/ ServiceRemoved \/ AddManualPeer \/ StartNode \/ StopNode \/ EditFile
  BY <1>1, <1>2, PeersMove
<1>3. CASE Expect
  BY <1>3, ExpectMoves DEF FirstOffer, Filled, sending
<1>4. ASSUME NEW h \in handlers, LoseChunk(h)
      PROVE  FirstOffer'
  BY <1>1, <1>4 DEF LoseChunk, sending, receiving
<1>5. ASSUME NEW h \in handlers, LookUpJob(h)
      PROVE  FirstOffer'
  <2>1. UNCHANGED <<offer, offers, job>>
    BY <1>5 DEF LookUpJob, sending, receiving
  <2>2. CASE handlers' = handlers \ {h}
    BY <1>1, <2>1, <2>2
  <2>3. ASSUME NEW g \in Handlers, handlers' = (handlers \ {h}) \cup {g}, g.i = h.i
        PROVE  FirstOffer'
    BY <2>1, <2>3 DEF FirstOffer, Filled
  <2> QED
    BY <1>5, <2>2, <2>3, LookUpMoves
<1>6. ASSUME NEW h \in handlers, Store(h)
      PROVE  FirstOffer'
  <2>1. PICK k \in NodeIds : k = h.node
    BY HandlerOf
  <2>2. /\ Filled(k) /\ handlers' = handlers \ {h}
        /\ job'[k].got = WithChunk(h, job[k].got)
        /\ \A l \in NodeIds \ {k} : job'[l] = job[l]
        /\ UNCHANGED <<offer, offers>>
    BY <1>6, <2>1, StoreMoves DEF sending
  <2>3. DOMAIN job'[k].got = DOMAIN job[k].got \cup {h.i}
    BY <2>2, ChunkAdded
  <2> SUFFICES ASSUME offers <= 1 PROVE FirstOffer'
    BY <2>2 DEF FirstOffer
  <2>4. offers = 1
    BY DEF FirstOffer, MeshTypeOK
  <2>5. ASSUME NEW i \in DOMAIN job'[k].got
        PROVE  (offer # NoOffer => i < offer.i) /\ \A g \in handlers' : g.i # i
    <3>1. CASE i = h.i
      BY <2>2, <3>1 DEF FirstOffer
    <3>2. CASE i \in DOMAIN job[k].got
      BY <2>2, <3>2 DEF FirstOffer
    <3> QED
      BY <2>3, <2>5, <3>1, <3>2
  <2>6. ASSUME NEW l \in NodeIds \ {k}, Filled(l)', NEW i \in DOMAIN job'[l].got
        PROVE  (offer # NoOffer => i < offer.i) /\ \A g \in handlers' : g.i # i
    BY <2>2, <2>6 DEF FirstOffer, Filled
  <2>7. \A g \in handlers' : offer # NoOffer => g.i < offer.i
    BY <2>2 DEF FirstOffer
  <2>8. \A f, g \in handlers' : f.i = g.i => f = g
    BY <2>2 DEF FirstOffer
  <2> QED
    BY <2>2, <2>4, <2>5, <2>6, <2>7, <2>8 DEF FirstOffer
<1>7. CASE SendChunk
  <2>1. /\ offer # NoOffer /\ offer.i \in Nat /\ offer' # NoOffer /\ offer'.i = offer.i + 1
        /\ UNCHANGED <<offers, job>>
    BY <1>7, SendMoves DEF Offers, receiving
  <2>2. \A h \in handlers : h.i \in Nat
    BY HandlerOf, MeshNumbers
  <2>3. \A k \in NodeIds : Filled(k) => DOMAIN job[k].got \in SUBSET Nat
    BY JobOf
  <2>4. CASE handlers' = handlers
    BY <2>1, <2>2, <2>3, <2>4 DEF FirstOffer, Filled
  <2>5. ASSUME NEW g \in Handlers, handlers' = handlers \cup {g}, g.i = offer.i
        PROVE  FirstOffer'
    BY <2>1, <2>2, <2>3, <2>5 DEF FirstOffer, Filled
  <2> QED
    BY <1>7, <2>4, <2>5, SendMoves
<1>8. CASE OfferEnds
  BY <1>8 DEF OfferEnds, FirstOffer, Filled, receiving
<1>9. ASSUME NEW to \in PeerIds, Offer(to)
      PROVE  FirstOffer'
  <2>1. offers' = offers + 1 /\ offers \in Nat /\ UNCHANGED <<job, handlers>>
    BY <1>9, OfferMoves DEF receiving
  <2> QED
    BY <2>1 DEF FirstOffer, Filled
<1>10. CASE UNCHANGED meshVars
  BY <1>1, <1>10 DEF meshVars, sending, receiving
<1> QED
  BY <1>2, <1>3, <1>4, <1>5, <1>6, <1>7, <1>8, <1>9, <1>10 DEF MeshNext

LEMMA DoneStep ==
  ASSUME MeshTypeOK, PieceInv, FirstOffer, DoneInv, OneOfferIsExact, [MeshNext]_meshVars
  PROVE  DoneInv' /\ OneOfferIsExact'
<1>1. offers' >= offers
  <2>1. ASSUME NEW h \in handlers, LoseChunk(h) \/ LookUpJob(h) \/ Store(h)
        PROVE  offers' = offers
    BY <2>1 DEF LoseChunk, LookUpJob, Store, sending
  <2>2. CASE ServiceAdded \/ ServiceRemoved \/ AddManualPeer \/ StartNode \/ StopNode \/ EditFile
    BY <2>2, PeersMove DEF MeshTypeOK
  <2>3. CASE Expect \/ SendChunk \/ OfferEnds \/ UNCHANGED meshVars
    BY <2>3 DEF Expect, SendChunk, OfferEnds, meshVars, sending, MeshTypeOK
  <2>4. ASSUME NEW to \in PeerIds, Offer(to)
        PROVE  offers' >= offers
    BY <2>4, OfferMoves
  <2> QED
    BY <2>1, <2>2, <2>3, <2>4 DEF MeshNext, MeshTypeOK
<1>2. offers \in Nat /\ offers' \in Nat
  BY ChunkTypes DEF MeshTypeOK
<1>3. CASE UNCHANGED <<job, done>>
  BY <1>1, <1>2, <1>3 DEF DoneInv, OneOfferIsExact, Filled
<1>4. CASE Expect
  <2>1. /\ ~Filled(node) /\ node \in NodeIds /\ UNCHANGED <<offers, done>>
        /\ \A k \in NodeIds \ {node} : job'[k] = job[k]
    BY <1>4, ExpectMoves DEF sending
  <2>2. done[node] = <<>> /\ done'[node] = <<>>
    BY <2>1 DEF DoneInv
  <2>3. DoneInv'
    BY <2>1, <2>2 DEF DoneInv, Filled
  <2>4. ASSUME NEW k \in NodeIds \ {node}
        PROVE  job'[k] = job[k] /\ done'[k] = done[k]
    BY <2>1
  <2>5. Len(done'[node]) <= 1 /\ Range(done'[node]) = {}
    BY <2>2 DEF Range
  <2> QED
    BY <2>3, <2>4, <2>5 DEF OneOfferIsExact
<1>5. ASSUME NEW h \in handlers, Store(h)
      PROVE  DoneInv' /\ OneOfferIsExact'
  <2>1. PICK k \in NodeIds : k = h.node
    BY HandlerOf
  <2>2. PICK G : G = WithChunk(h, job[k].got)
    OBVIOUS
  <2>3. /\ Filled(k) /\ job'[k].total = job[k].total /\ job'[k].got = G /\ job'[k] \in Jobs
        /\ \A l \in NodeIds \ {k} : job'[l] = job[l]
        /\ \/ done' = done
           \/ /\ offers = 1 /\ Cardinality(DOMAIN G) = job[k].total
              /\ done' = [done EXCEPT ![k] = Append(done[k], InOrder(G))]
        /\ offers' = offers
    BY <1>5, <2>1, <2>2, StoreMoves DEF sending
  <2>4. /\ IsFiniteSet(DOMAIN G) /\ DOMAIN G \in SUBSET Nat
        /\ \A i \in DOMAIN G : Genuine(G[i], i) /\ G[i] \in Pieces
    BY <1>5, <2>1, <2>2, StoreInOrder
  <2>5. Filled(k)'
    <3>1. job'[k].total \in Nat /\ NoJob.total = -1
      BY <2>3, MeshNumbers DEF Jobs, NoJob
    <3> QED
      BY <3>1 DEF Filled
  <2>6. DOMAIN G = DOMAIN job[k].got \cup {h.i} /\ IsFiniteSet(DOMAIN job[k].got)
    BY <2>2, <2>3, ChunkAdded DEF PieceInv
  <2>7. /\ Cardinality(DOMAIN G) = IF h.i \in DOMAIN job[k].got THEN Cardinality(DOMAIN job[k].got)
                                  ELSE Cardinality(DOMAIN job[k].got) + 1
        /\ Cardinality(DOMAIN job[k].got) \in Nat
    BY <2>6, FS_AddElement, FS_CardinalityType
  <2>8. job[k].total \in Nat /\ done \in [NodeIds -> Seq(Seq(Pieces))]
    BY <2>3, JobOf DEF MeshTypeOK
  (* A job that is complete gets no other chunk of the first offer.        *)
  <2>9. offers = 1 /\ Cardinality(DOMAIN G) = job[k].total => done[k] = <<>>
    <3>1. offers = 1 => h.i \notin DOMAIN job[k].got
      BY <2>3 DEF FirstOffer
    <3> QED
      BY <2>7, <2>8, <3>1 DEF DoneInv
  <2>10. CASE done' = done
    <3>1. DoneInv'
      <4>1. \A l \in NodeIds \ {k} : done'[l] # <<>> =>
              Filled(l)' /\ (offers <= 1 => Cardinality(DOMAIN job'[l].got) >= job'[l].total)
        BY <2>3, <2>10 DEF DoneInv, Filled
      <4>2. done'[k] # <<>> => (offers <= 1 => Cardinality(DOMAIN G) >= job[k].total)
        BY <2>7, <2>8, <2>10 DEF DoneInv
      <4> QED
        BY <2>3, <2>5, <4>1, <4>2 DEF DoneInv
    <3>2. \A l \in NodeIds : job'[l].total = job[l].total
      BY <2>3
    <3> QED
      BY <2>10, <3>1, <3>2 DEF OneOfferIsExact
  <2>11. ASSUME offers = 1, Cardinality(DOMAIN G) = job[k].total,
                done' = [done EXCEPT ![k] = Append(done[k], InOrder(G))]
         PROVE  DoneInv' /\ OneOfferIsExact'
    <3>1. done'[k] = <<InOrder(G)>> /\ \A l \in NodeIds \ {k} : done'[l] = done[l]
      BY <2>8, <2>9, <2>11
    <3>2. DoneInv'
      <4>1. \A l \in NodeIds \ {k} : done'[l] # <<>> =>
              Filled(l)' /\ (offers <= 1 => Cardinality(DOMAIN job'[l].got) >= job'[l].total)
        BY <2>3, <3>1 DEF DoneInv, Filled
      <4> QED
        BY <2>3, <2>5, <2>8, <2>11, <4>1 DEF DoneInv
    <3>3. \A l \in NodeIds \ {k} :
            /\ Len(done'[l]) <= 1
            /\ \A data \in Range(done'[l]), v \in Versions :
                 (job'[l].total = SizeOf[v] /\ Range(data) \subseteq {v} \X Indexes) => data = Whole(v)
      BY <2>3, <3>1 DEF OneOfferIsExact
    <3>4. Len(done'[k]) <= 1 /\ Range(done'[k]) = {InOrder(G)}
      BY <3>1 DEF Range
    <3>5. ASSUME NEW v \in Versions, job[k].total = SizeOf[v],
                 Range(InOrder(G)) \subseteq {v} \X Indexes
          PROVE  InOrder(G) = Whole(v)
      BY <2>4, <2>8, <2>11, <3>5, InOrderWhole
    <3> QED
      BY <2>3, <3>2, <3>3, <3>4, <3>5 DEF OneOfferIsExact
  <2> QED
    BY <2>3, <2>10, <2>11
<1> QED
  BY <1>3, <1>4, <1>5, JobsStay

LEMMA MeshStart == MeshInit => MeshInv
<1> SUFFICES ASSUME MeshInit PROVE MeshInv
  OBVIOUS
<1>1. MeshTypeOK
  <2>1. offers \in 0..MaxOffers /\ version \in Versions /\ node \in NodeIds
    BY MeshNumbers, MeshAssumption DEF MeshInit
  <2>2. job \in [NodeIds -> Jobs \cup {NoJob}] /\ done \in [NodeIds -> Seq(Seq(Pieces))]
    BY DEF MeshInit
  <2>3. events \in Seq({"add", "remove"}) /\ Len(events) <= MaxEvents
    BY MeshAssumption DEF MeshInit
  <2> QED
    BY <2>1, <2>2, <2>3 DEF MeshInit, MeshTypeOK
<1>2. \A k \in NodeIds : ~Filled(k) /\ done[k] = <<>>
  BY DEF MeshInit, Filled
<1>3. PieceInv /\ FirstOffer /\ DoneInv
  BY <1>2 DEF MeshInit, PieceInv, FirstOffer, DoneInv
<1>4. OneOfferIsExact
  <2>1. \A k \in NodeIds : Len(done[k]) <= 1 /\ Range(done[k]) = {}
    BY <1>2 DEF Range
  <2> QED
    BY <2>1 DEF OneOfferIsExact
<1> QED
  BY <1>1, <1>3, <1>4 DEF MeshInv

THEOREM MeshInductive == MeshSpec => []MeshInv
<1>1. MeshInv /\ [MeshNext]_meshVars => MeshInv'
  <2> SUFFICES ASSUME MeshInv, [MeshNext]_meshVars PROVE MeshInv'
    OBVIOUS
  <2>1. MeshTypeOK'
    BY PeerTypes, ChunkTypes DEF MeshInv, MeshTypeOK
  <2>2. PieceInv' /\ FirstOffer' /\ DoneInv' /\ OneOfferIsExact'
    BY PieceStep, FirstStep, DoneStep DEF MeshInv
  <2> QED
    BY <2>1, <2>2 DEF MeshInv
<1> QED
  BY <1>1, MeshStart, PTL DEF MeshSpec

(* Types of the mesh transfer, for any sizes, offers and nodes.            *)
THEOREM MeshTypeCorrect == MeshSpec => []MeshTypeOK
  BY MeshInductive, PTL DEF MeshInv

(* For any sizes of the versions, any number of offers, nodes and handlers *)
(* in any order: a node that was offered the file once calls back at most  *)
(* once, and with the whole version if all its chunks are of one, of the   *)
(* size it expects (mesh_network.py 245-272, 360-380).                     *)
THEOREM FirstOfferIsExact == MeshSpec => []OneOfferIsExact
  BY MeshInductive, PTL DEF MeshInv

=============================================================================
