------------------------------ MODULE AsyncQueue ------------------------------
(***************************************************************************)
(* discovery/async_transfer/manager.py: files for receivers that are not   *)
(* there are recorded in a table and handed over when the receiver comes.  *)
(*                                                                         *)
(* Every method of AsyncTransferStore holds the store's lock, so it is one *)
(* step; the methods of AsyncTransferManager call several of them.  A      *)
(* transfer is its number in the order in which queue_offline made the     *)
(* records, which is the order of created_at.  transfer_history and        *)
(* attempts are written and never looked at by the manager: left out.      *)
(***************************************************************************)
EXTENDS Integers, Sequences, FiniteSets

CONSTANTS
  Files,      \* contents, told apart by their hash
  Receivers,
  Queuers,    \* threads that call queue_offline
  Checkers,   \* threads that call check_pending_for
  Peer,       \* the receiver each of them calls it for
  MaxIds      \* bound: records made

ASSUME QueueAssumption ==
  /\ MaxIds \in Nat
  /\ Peer \in [Checkers -> Receivers]

Ids == 1 .. MaxIds
None == 0

VARIABLES
  \* the table
  rows,    \* transfers in the order of their rows
  status,  \* "none" before there is a row
  file, receiver,
  \* queue_offline
  next,    \* records made so far
  qid,     \* the record a thread is about to insert
  \* check_pending_for
  cpc,
  snap,    \* what is left of the list it goes through
  cur,     \* the transfer it hands to the callback
  \* history
  calls    \* how often the callback got it

tableVars == <<rows, status, file, receiver>>
queuerVars == <<next, qid>>
checkVars == <<cpc, snap, cur, calls>>
vars == <<tableVars, queuerVars, checkVars>>

Statuses == {"none", "pending", "delivered", "failed", "cancelled"}

TypeOK ==
  /\ rows \in Seq(Ids)
  /\ status \in [Ids -> Statuses]
  /\ file \in [Ids -> Files] /\ receiver \in [Ids -> Receivers]
  /\ next \in 0 .. MaxIds
  /\ qid \in [Queuers -> {None} \cup Ids]
  /\ cpc \in [Checkers -> {"idle", "mark", "call"}]
  /\ snap \in [Checkers -> SUBSET Ids]
  /\ cur \in [Checkers -> {None} \cup Ids]
  /\ calls \in [Ids -> Nat]
  /\ \A k \in Checkers : /\ cpc[k] = "mark" => snap[k] # {}
                         /\ cpc[k] = "idle" => snap[k] = {}
                         /\ cpc[k] = "call" <=> cur[k] # None

Init ==
  /\ rows = <<>>
  /\ status = [t \in Ids |-> "none"]
  /\ file \in [Ids -> Files] /\ receiver \in [Ids -> Receivers]
  /\ next = 0
  /\ qid = [q \in Queuers |-> None]
  /\ cpc = [k \in Checkers |-> "idle"]
  /\ snap = [k \in Checkers |-> {}]
  /\ cur = [k \in Checkers |-> None]
  /\ calls = [t \in Ids |-> 0]

----------------------------------------------------------------------------
(* queue_offline                                                           *)

(* get_transfer_by_hash finds the first row with the hash.                 *)
First(f) == {rows[i] : i \in {j \in 1 .. Len(rows) :
                                /\ file[rows[j]] = f
                                /\ \A h \in 1 .. j - 1 : file[rows[h]] # f}}

(* The file is there, its hash is computed and looked up, and the record   *)
(* is made unless the row found is a delivered one.                        *)
LookUp(q) ==
  LET t == next + 1
  IN  /\ qid[q] = None /\ next < MaxIds
      /\ \A u \in First(file[t]) : status[u] # "delivered"
      /\ next' = t
      /\ qid' = [qid EXCEPT ![q] = t]
      /\ UNCHANGED <<tableVars, checkVars>>

Insert(q) ==
  /\ qid[q] # None
  /\ rows' = Append(rows, qid[q])
  /\ status' = [status EXCEPT ![qid[q]] = "pending"]
  /\ qid' = [qid EXCEPT ![q] = None]
  /\ UNCHANGED <<file, receiver, next, checkVars>>

(* An error of the database is logged; the caller gets the id all the same.*)
InsertFails(q) ==
  /\ qid[q] # None
  /\ qid' = [qid EXCEPT ![q] = None]
  /\ UNCHANGED <<tableVars, next, checkVars>>

----------------------------------------------------------------------------
(* check_pending_for                                                       *)

Pending(r) == {t \in Ids : status[t] = "pending" /\ receiver[t] = r}

(* Mutant: only a receiver that has had nothing yet is asked about.        *)
GetPendingFirstTime(k) ==
  /\ cpc[k] = "idle" /\ Pending(Peer[k]) # {}
  /\ \A t \in Ids : receiver[t] = Peer[k] => calls[t] = 0
  /\ snap' = [snap EXCEPT ![k] = Pending(Peer[k])]
  /\ cpc' = [cpc EXCEPT ![k] = "mark"]
  /\ UNCHANGED <<tableVars, queuerVars, cur, calls>>

GetPending(k) ==
  /\ cpc[k] = "idle" /\ Pending(Peer[k]) # {}
  /\ snap' = [snap EXCEPT ![k] = Pending(Peer[k])]
  /\ cpc' = [cpc EXCEPT ![k] = "mark"]
  /\ UNCHANGED <<tableVars, queuerVars, cur, calls>>

(* The oldest of the list comes first.                                     *)
Oldest(k) == {t \in snap[k] : \A u \in snap[k] : t <= u}

(* Mutant: the row stays pending.                                          *)
MarkNothing(k) ==
  \E t \in Oldest(k) :
      /\ cpc[k] = "mark"
      /\ snap' = [snap EXCEPT ![k] = @ \ {t}]
      /\ cur' = [cur EXCEPT ![k] = t]
      /\ cpc' = [cpc EXCEPT ![k] = "call"]
      /\ UNCHANGED <<tableVars, queuerVars, calls>>

(* Marked as delivered whatever its status has become.                     *)
MarkDelivered(k) ==
  \E t \in Oldest(k) :
      /\ cpc[k] = "mark"
      /\ status' = [status EXCEPT ![t] = "delivered"]
      /\ snap' = [snap EXCEPT ![k] = @ \ {t}]
      /\ cur' = [cur EXCEPT ![k] = t]
      /\ cpc' = [cpc EXCEPT ![k] = "call"]
      /\ UNCHANGED <<rows, file, receiver, queuerVars, calls>>

(* on_transfer_ready                                                       *)
Ready(k) ==
  /\ cpc[k] = "call"
  /\ calls' = [calls EXCEPT ![cur[k]] = @ + 1]
  /\ cur' = [cur EXCEPT ![k] = None]
  /\ cpc' = [cpc EXCEPT ![k] = IF snap[k] = {} THEN "idle" ELSE "mark"]
  /\ UNCHANGED <<tableVars, queuerVars, snap>>

(* An exception of the database (before the mark) or of the callback: the  *)
(* rest of the list is given up.                                           *)
Abandon(k) ==
  /\ cpc[k] \in {"mark", "call"}
  /\ cpc' = [cpc EXCEPT ![k] = "idle"]
  /\ snap' = [snap EXCEPT ![k] = {}]
  /\ cur' = [cur EXCEPT ![k] = None]
  /\ UNCHANGED <<tableVars, queuerVars, calls>>

CheckStep(k) == GetPending(k) \/ Ready(k) \/ Abandon(k)

----------------------------------------------------------------------------
(* The user, and the process                                               *)

CancelTransfer(t) ==
  /\ status[t] # "none"
  /\ status' = [status EXCEPT ![t] = "cancelled"]
  /\ UNCHANGED <<rows, file, receiver, queuerVars, checkVars>>

MarkFailed(t) ==
  /\ status[t] # "none"
  /\ status' = [status EXCEPT ![t] = "failed"]
  /\ UNCHANGED <<rows, file, receiver, queuerVars, checkVars>>

(* The process dies and starts again; what was committed stays.            *)
Restart ==
  /\ qid' = [q \in Queuers |-> None]
  /\ cpc' = [k \in Checkers |-> "idle"]
  /\ snap' = [k \in Checkers |-> {}]
  /\ cur' = [k \in Checkers |-> None]
  /\ UNCHANGED <<tableVars, next, calls>>

----------------------------------------------------------------------------
Next ==
  \/ \E q \in Queuers : LookUp(q) \/ Insert(q) \/ InsertFails(q)
  \/ \E k \in Checkers : CheckStep(k) \/ MarkDelivered(k)
  \/ \E t \in Ids : CancelTransfer(t) \/ MarkFailed(t)
  \/ Restart

Spec == Init /\ [][Next]_vars

(* A receiver comes again and again, a thread that has begun runs on, and  *)
(* the database is not locked for ever.                                    *)
Fairness ==
  \A k \in Checkers : WF_vars(CheckStep(k)) /\ SF_vars(MarkDelivered(k))

FairSpec == Spec /\ Fairness

----------------------------------------------------------------------------
(* Properties                                                              *)

(* Where each receiver's transfers are checked by one thread, the manager  *)
(* is a queue that hands over at most once.  A transfer waits while it is  *)
(* pending or still in the list of a check: a cancellation that comes      *)
(* after the list was read does not hold.                                  *)
Waiting == {t \in Ids : status[t] = "pending"} \cup UNION {snap[k] : k \in Checkers}
Taken == {cur[k] : k \in Checkers} \ {None}
Handed == {t \in Ids : calls[t] > 0}
Gone == {t \in Ids : status[t] # "none"} \ (Waiting \cup Taken \cup Handed)

Queue == INSTANCE OnceQueue
           WITH waiting <- Waiting, taken <- Taken, handed <- Handed, gone <- Gone

HandedOnce == Queue!Spec

(* The callback gets no transfer twice, and only transfers of the receiver *)
(* that has come.                                                          *)
CalledProperly ==
  /\ \A t \in Ids : calls[t] <= 1
  /\ \A k \in Checkers : cur[k] # None => receiver[cur[k]] = Peer[k] /\ calls[cur[k]] = 0

(* A transfer whose receiver keeps coming does not wait for ever.          *)
WaitingEnds ==
  \A k \in Checkers : \A t \in Ids :
    receiver[t] = Peer[k] /\ status[t] = "pending" ~> status[t] # "pending"

=============================================================================
