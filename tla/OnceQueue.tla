------------------------------ MODULE OnceQueue ------------------------------
(***************************************************************************)
(* What a queue for absent receivers promises: a transfer that was         *)
(* submitted is handed over at most once, never after it has left the      *)
(* queue, and leaves it only to be handed over, withdrawn, or lost between *)
(* the two.                                                                *)
(***************************************************************************)
CONSTANT Ids

VARIABLES
  waiting,  \* submitted
  taken,    \* left the queue to be handed over
  handed,   \* handed over
  gone      \* withdrawn or lost

qvars == <<waiting, taken, handed, gone>>

Init == waiting = {} /\ taken = {} /\ handed = {} /\ gone = {}

Submit(t) ==
  /\ t \notin waiting \cup taken \cup handed \cup gone
  /\ waiting' = waiting \cup {t}
  /\ UNCHANGED <<taken, handed, gone>>

Take(t) ==
  /\ t \in waiting
  /\ waiting' = waiting \ {t}
  /\ taken' = taken \cup {t}
  /\ UNCHANGED <<handed, gone>>

Hand(t) ==
  /\ t \in taken
  /\ taken' = taken \ {t}
  /\ handed' = handed \cup {t}
  /\ UNCHANGED <<waiting, gone>>

(* Some are withdrawn, and some that were taken are lost.                  *)
Leave(W, L) ==
  /\ W \subseteq waiting /\ L \subseteq taken
  /\ waiting' = waiting \ W
  /\ taken' = taken \ L
  /\ gone' = gone \cup W \cup L
  /\ UNCHANGED handed

Next ==
  \/ \E t \in Ids : Submit(t) \/ Take(t) \/ Hand(t)
  \/ \E W, L \in SUBSET Ids : Leave(W, L)

Spec == Init /\ [][Next]_qvars
=============================================================================
