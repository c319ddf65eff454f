------------------------- MODULE FileReceiver_proofs -------------------------
(***************************************************************************)
(* Proofs about FileReceiver, and about the DataChannel of the screen.     *)
(***************************************************************************)
EXTENDS FileReceiver, DataChannel, SequenceTheorems, TLAPS

Busy == {"connect", "send", "wait"}

(* A sender that is at a connection has it to itself, and has not written  *)
(* the end of a body that it still sends.                                  *)
SenderOk(s) ==
  /\ spc[s] # "done" => file[s] <= BatchLen
  /\ tries[s] < Attempts
  /\ spc[s] \in Busy => cur[s] \in 1 .. made
  /\ spc[s] \in {"connect", "send"} => cur[s] \notin ended
  /\ \A t \in Senders \ {s} : spc[s] \in Busy /\ spc[t] \in Busy => cur[s] # cur[t]

(* Where a handler is says what it has received, stored, answered and      *)
(* logged.                                                                 *)
StageOk(c) ==
  /\ hpc[c] = "none" <=> c > made
  /\ c > made => c \notin ended
  /\ hpc[c] # "none" => desc[c] \in [name : Names, mode : Modes]
  /\ hpc[c] \in {"none", "queued", "shake", "header"} => rcvd[c] = 0
  /\ hpc[c] = "recv" => rcvd[c] < Size
  /\ hpc[c] \in {"verify", "move", "ack", "log"} => rcvd[c] = Size
  /\ hpc[c] = "move" => Verified(c)
  /\ c \in temps <=> hpc[c] \in {"recv", "verify", "move"}

ReplyOk(c) ==
  /\ hpc[c] \in {"ack", "log"} => c \in published
  /\ c \in published => hpc[c] \in {"ack", "log", "done"} /\ rcvd[c] = Size /\ Verified(c)
  /\ reply[c] = "ack" => c \in published
  /\ reply[c] # "none" => hpc[c] \in {"log", "done"}
  /\ hpc[c] = "log" => reply[c] = "ack"
  /\ hist[c] # "none" => hpc[c] = "done"
  /\ hist[c] = "ok" => c \in published
  /\ hist[c] = "rejected" => c \notin published /\ rcvd[c] = 0
  /\ hpc[c] = "done" /\ c \in published /\ reply[c] # "nak" => hist[c] = "ok" /\ c \in notified
  /\ c \in acked => c \in published

(* The name a handler is about to take was free when it looked.            *)
NameOk(c) ==
  hpc[c] = "move" =>
    /\ target[c] \in Targets
    /\ finals[target[c]] # NoConn => finals[target[c]] \in since[c]

SenderInv == \A s \in Senders : SenderOk(s)
StageInv == \A c \in Conns : StageOk(c)
RepliesInv == \A c \in Conns : ReplyOk(c)
NameInv == \A c \in Conns : NameOk(c)

IInv == TypeOK /\ SenderInv /\ StageInv /\ RepliesInv /\ NameInv

LEMMA InvInit == Init => IInv
<1> SUFFICES ASSUME Init PROVE IInv
  OBVIOUS
<1>1. TypeOK
  BY BatchAssumption, BoundsAssumption
     DEF Init, TypeOK, HandlerPc, Conns, NoConn, NoTarget, NoFile, Unsent, Attempts
<1>2. SenderInv
  BY BatchAssumption DEF Init, SenderInv, SenderOk, Busy, Attempts
<1>3. StageInv /\ RepliesInv /\ NameInv
  BY BoundsAssumption DEF Init, StageInv, StageOk, RepliesInv, ReplyOk, NameInv, NameOk, Conns
<1> QED
  BY <1>1, <1>2, <1>3 DEF IInv

----------------------------------------------------------------------------
(* FileSender                                                              *)

(* A sender that is at a connection is at one that was made.               *)
LEMMA BusyConn ==
  ASSUME TypeOK, SenderInv, NEW s \in Senders, spc[s] \in Busy
  PROVE  cur[s] \in Conns /\ cur[s] <= made
  BY BoundsAssumption DEF TypeOK, SenderInv, SenderOk, Conns

(* The next file of a batch that is not done is one of the batch.          *)
LEMMA NextFile ==
  ASSUME TypeOK, SenderInv, NEW s \in Senders, spc[s] # "done"
  PROVE  /\ file[s] \in 1 .. BatchLen /\ file[s] + 1 \in 1 .. BatchLen + 1
         /\ Batch[s][file[s]] \in [name : Names, mode : Modes]
  BY BatchAssumption DEF TypeOK, SenderInv, SenderOk

(* Another attempt is at most the last one.                                *)
LEMMA NextTry ==
  ASSUME TypeOK, NEW s \in Senders, tries[s] + 1 < Attempts
  PROVE  tries[s] + 1 \in 0 .. Attempts
  BY DEF TypeOK, Attempts

LEMMA NextConn ==
  ASSUME TypeOK, made < MaxConns
  PROVE  made + 1 \in Conns /\ made + 1 \in 0 .. MaxConns
  BY BoundsAssumption DEF TypeOK, Conns

(* One block more stays within the bounds of the counters.                 *)
LEMMA NextBlock ==
  ASSUME TypeOK, NEW c \in Conns
  PROVE  /\ 0 \in Unsent .. Size + 1
         /\ sent[c] <= Size => sent[c] + 1 \in Unsent .. Size + 1
         /\ rcvd[c] < Size => rcvd[c] + 1 \in 0 .. Size
  BY BoundsAssumption DEF TypeOK, Unsent

LEMMA OneMore ==
  ASSUME NEW n \in 0 .. Size, n < Size, n + 1 # Size
  PROVE  n + 1 < Size
  BY BoundsAssumption

LEMMA ConnectKeeps ==
  ASSUME IInv, NEW s \in Senders, Connect(s)
  PROVE  IInv'
<1> USE DEF IInv, Connect, diskVars
<1>a. made + 1 \in Conns /\ made + 1 \in 0 .. MaxConns
  BY NextConn
<1>b. Batch[s][file[s]] \in [name : Names, mode : Modes]
  BY NextFile
<1>1. TypeOK'
<2>1. /\ made' \in 0 .. MaxConns /\ cur' \in [Senders -> {NoConn} \cup Conns]
        /\ desc' \in [Conns -> {NoFile} \cup [name : Names, mode : Modes]]
        /\ spc' \in [Senders -> {"next", "connect", "send", "wait", "done", "failed"}]
        /\ hpc' \in [Conns -> HandlerPc]
    BY <1>a, <1>b DEF TypeOK, HandlerPc
<2> QED
    BY <2>1 DEF TypeOK
<1>2. SenderInv'
<2> DEFINE n == made + 1
<2>1. ASSUME NEW t \in Senders, t # s
        PROVE  spc'[t] = spc[t] /\ cur'[t] = cur[t] /\ (spc[t] \in Busy => cur[t] # n)
    <3>1. spc[t] \in Busy => cur[t] <= made /\ cur[t] \in Int
      BY BusyConn DEF Conns
    <3>2. cur[t] <= made /\ cur[t] \in Int => cur[t] # n
      BY DEF TypeOK
    <3> QED
      BY <2>1, <3>1, <3>2 DEF TypeOK
<2>2. spc'[s] = "connect" /\ cur'[s] = n
    BY DEF TypeOK
<2>3. n \notin ended /\ made' = n /\ 1 .. made \subseteq 1 .. n /\ n \in 1 .. n
    BY <1>a, BoundsAssumption DEF TypeOK, StageInv, StageOk, Conns
<2> HIDE DEF n
<2>4. ASSUME NEW t \in Senders
        PROVE  SenderOk(t)'
    <3>1. CASE t = s
      BY <2>1, <2>2, <2>3, <3>1 DEF SenderInv, SenderOk, Busy
    <3>2. CASE t # s
      BY <2>1, <2>2, <2>3, <3>2 DEF SenderInv, SenderOk, Busy
    <3> QED
      BY <3>1, <3>2
<2> QED
    BY <2>4 DEF SenderInv
<1>3. StageInv'
<2>1. ASSUME NEW c \in Conns
        PROVE  StageOk(c)'
    <3>1. CASE c = made + 1
      <4>1. hpc'[c] = "queued" /\ desc'[c] = Batch[s][file[s]]
        BY <3>1 DEF TypeOK
      <4>2. c > made /\ ~(c > made')
        BY <3>1 DEF TypeOK
      <4>3. hpc[c] = "none" /\ rcvd[c] = 0 /\ c \notin temps
        BY <4>2 DEF StageInv, StageOk
      <4> QED
        BY <1>b, <4>1, <4>2, <4>3 DEF StageOk
    <3>2. CASE c # made + 1
      <4>1. c > made' <=> c > made
        BY <3>2 DEF TypeOK, Conns
      <4>2. hpc'[c] = hpc[c] /\ desc'[c] = desc[c]
        BY <3>2 DEF TypeOK
      <4> QED
        BY <4>1, <4>2 DEF StageInv, StageOk, Verified
    <3> QED
      BY <3>1, <3>2
<2> QED
    BY <2>1 DEF StageInv
<1>4. RepliesInv'
  BY BoundsAssumption DEF TypeOK, SenderInv, SenderOk, Busy, StageInv, StageOk, RepliesInv, ReplyOk, Verified, Conns
<1>5. NameInv'
  BY DEF TypeOK, StageInv, StageOk, RepliesInv, ReplyOk, NameInv, NameOk, Targets, FirstFree, Taken, NoConn
<1> QED
  BY <1>1, <1>2, <1>3, <1>4, <1>5

LEMMA ConnectFailsKeeps ==
  ASSUME IInv, NEW s \in Senders, ConnectFails(s)
  PROVE  IInv'
<1> USE DEF IInv, ConnectFails, Hang, receiverVars, handlerVars, diskVars
<1>1. TypeOK'
<2>1. /\ net' \in [Conns -> {"up", "closed", "lost"}]
        /\ tries' \in [Senders -> 0 .. Attempts] /\ cur' \in [Senders -> {NoConn} \cup Conns]
        /\ spc' \in [Senders -> {"next", "connect", "send", "wait", "done", "failed"}]
    BY NextTry DEF TypeOK, Attempts
<2> QED
    BY <2>1 DEF TypeOK
<1>2. SenderInv'
  BY BatchAssumption DEF TypeOK, SenderInv, SenderOk, Busy, Attempts, Conns
<1>3. StageInv'
  BY BoundsAssumption DEF TypeOK, SenderInv, SenderOk, Busy, StageInv, StageOk, Verified, Conns
<1>4. RepliesInv'
  BY BoundsAssumption DEF TypeOK, SenderInv, SenderOk, Busy, StageInv, StageOk, RepliesInv, ReplyOk, Verified, Conns
<1>5. NameInv'
  BY DEF TypeOK, StageInv, StageOk, RepliesInv, ReplyOk, NameInv, NameOk, Targets, FirstFree, Taken, NoConn
<1> QED
  BY <1>1, <1>2, <1>3, <1>4, <1>5

LEMMA SendHeaderKeeps ==
  ASSUME IInv, NEW s \in Senders, SendHeader(s)
  PROVE  IInv'
<1> USE DEF IInv, SendHeader, receiverVars, handlerVars, diskVars
<1>a. cur[s] \in Conns /\ cur[s] <= made
  BY BusyConn DEF Busy
<1>1. TypeOK'
  BY <1>a, NextBlock DEF TypeOK, Attempts
<1>2. SenderInv'
  BY BatchAssumption DEF TypeOK, SenderInv, SenderOk, Busy, Attempts, Conns
<1>3. StageInv'
  BY BoundsAssumption DEF TypeOK, SenderInv, SenderOk, Busy, StageInv, StageOk, Verified, Conns
<1>4. RepliesInv'
  BY BoundsAssumption DEF TypeOK, SenderInv, SenderOk, Busy, StageInv, StageOk, RepliesInv, ReplyOk, Verified, Conns
<1>5. NameInv'
  BY DEF TypeOK, StageInv, StageOk, RepliesInv, ReplyOk, NameInv, NameOk, Targets, FirstFree, Taken, NoConn
<1> QED
  BY <1>1, <1>2, <1>3, <1>4, <1>5

LEMMA SendBlockKeeps ==
  ASSUME IInv, NEW s \in Senders, SendBlock(s)
  PROVE  IInv'
<1> USE DEF IInv, SendBlock, senderVars, receiverVars, handlerVars, diskVars
<1>a. cur[s] \in Conns /\ cur[s] <= made
  BY BusyConn DEF Busy
<1>1. TypeOK'
  BY <1>a, NextBlock DEF TypeOK
<1>2. SenderInv'
  BY BatchAssumption DEF TypeOK, SenderInv, SenderOk, Busy, Attempts, Conns
<1>3. StageInv'
<2>1. cur[s] \notin ended
    BY DEF SenderInv, SenderOk
<2>2. ASSUME NEW c \in Conns, Verified(c)
        PROVE  Verified(c)'
    BY <2>1, <2>2 DEF TypeOK, Verified
<2> QED
    BY <2>2 DEF StageInv, StageOk
<1>4. RepliesInv'
<2>1. cur[s] \notin ended
    BY DEF SenderInv, SenderOk
<2>2. ASSUME NEW c \in Conns, Verified(c)
        PROVE  Verified(c)'
    BY <2>1, <2>2 DEF TypeOK, Verified
<2> QED
    BY <2>2 DEF RepliesInv, ReplyOk
<1>5. NameInv'
  BY DEF TypeOK, StageInv, StageOk, RepliesInv, ReplyOk, NameInv, NameOk, Targets, FirstFree, Taken, NoConn
<1> QED
  BY <1>1, <1>2, <1>3, <1>4, <1>5

LEMMA SendEndKeeps ==
  ASSUME IInv, NEW s \in Senders, SendEnd(s)
  PROVE  IInv'
<1> USE DEF IInv, SendEnd, receiverVars, handlerVars, diskVars
<1>a. cur[s] \in Conns /\ cur[s] <= made
  BY BusyConn DEF Busy
<1>b. ASSUME NEW c \in Conns, Verified(c)
      PROVE  Verified(c)'
  BY <1>b DEF Verified
<1>1. TypeOK'
  BY <1>a DEF TypeOK
<1>2. SenderInv'
  BY BatchAssumption DEF TypeOK, SenderInv, SenderOk, Busy, Attempts, Conns
<1>3. StageInv'
<2>1. ASSUME NEW c \in Conns, c > made
        PROVE  c \notin ended'
    <3>1. c # cur[s]
      BY <1>a, <2>1 DEF TypeOK, Conns
    <3> QED
      BY <2>1, <3>1 DEF StageInv, StageOk
<2> QED
    BY <1>b, <2>1 DEF StageInv, StageOk
<1>4. RepliesInv'
  BY <1>b DEF RepliesInv, ReplyOk
<1>5. NameInv'
  BY DEF TypeOK, StageInv, StageOk, RepliesInv, ReplyOk, NameInv, NameOk, Targets, FirstFree, Taken, NoConn
<1> QED
  BY <1>1, <1>2, <1>3, <1>4, <1>5

LEMMA AnswerKeeps ==
  ASSUME IInv, NEW s \in Senders, Answer(s)
  PROVE  IInv'
<1> USE DEF IInv, Answer, Hang, receiverVars, handlerVars, diskVars
<1>a. cur[s] \in Conns /\ cur[s] <= made
  BY BusyConn DEF Busy
<1>1. TypeOK'
<2>1. /\ net' \in [Conns -> {"up", "closed", "lost"}] /\ acked' \subseteq Conns
        /\ file' \in [Senders -> 1 .. BatchLen + 1] /\ cur' \in [Senders -> {NoConn} \cup Conns]
        /\ spc' \in [Senders -> {"next", "connect", "send", "wait", "done", "failed"}]
    BY <1>a, NextFile DEF TypeOK
<2> QED
    BY <2>1 DEF TypeOK
<1>2. SenderInv'
  BY BatchAssumption DEF TypeOK, SenderInv, SenderOk, Busy, Attempts, Conns
<1>3. StageInv'
  BY BoundsAssumption DEF TypeOK, SenderInv, SenderOk, Busy, StageInv, StageOk, Verified, Conns
<1>4. RepliesInv'
  BY BoundsAssumption DEF TypeOK, SenderInv, SenderOk, Busy, StageInv, StageOk, RepliesInv, ReplyOk, Verified, Conns
<1>5. NameInv'
  BY DEF TypeOK, StageInv, StageOk, RepliesInv, ReplyOk, NameInv, NameOk, Targets, FirstFree, Taken, NoConn
<1> QED
  BY <1>1, <1>2, <1>3, <1>4, <1>5

LEMMA SendFailsKeeps ==
  ASSUME IInv, NEW s \in Senders, SendFails(s)
  PROVE  IInv'
<1> USE DEF IInv, SendFails, Hang, receiverVars, handlerVars, diskVars
<1>a. cur[s] \in Conns /\ cur[s] <= made
  BY BusyConn DEF Busy
<1>1. TypeOK'
  BY <1>a DEF TypeOK
<1>2. SenderInv'
  BY BatchAssumption DEF TypeOK, SenderInv, SenderOk, Busy, Attempts, Conns
<1>3. StageInv'
  BY BoundsAssumption DEF TypeOK, SenderInv, SenderOk, Busy, StageInv, StageOk, Verified, Conns
<1>4. RepliesInv'
  BY BoundsAssumption DEF TypeOK, SenderInv, SenderOk, Busy, StageInv, StageOk, RepliesInv, ReplyOk, Verified, Conns
<1>5. NameInv'
  BY DEF TypeOK, StageInv, StageOk, RepliesInv, ReplyOk, NameInv, NameOk, Targets, FirstFree, Taken, NoConn
<1> QED
  BY <1>1, <1>2, <1>3, <1>4, <1>5

LEMMA ResendKeeps ==
  ASSUME IInv, NEW s \in Senders, Resend(s)
  PROVE  IInv'
<1> USE DEF IInv, Resend, connVars, receiverVars, handlerVars, diskVars
<1>1. TypeOK'
  BY BatchAssumption DEF TypeOK
<1>2. SenderInv'
  BY BatchAssumption DEF TypeOK, SenderInv, SenderOk, Busy, Attempts, Conns
<1>3. StageInv'
  BY BoundsAssumption DEF TypeOK, SenderInv, SenderOk, Busy, StageInv, StageOk, Verified, Conns
<1>4. RepliesInv'
  BY BoundsAssumption DEF TypeOK, SenderInv, SenderOk, Busy, StageInv, StageOk, RepliesInv, ReplyOk, Verified, Conns
<1>5. NameInv'
  BY DEF TypeOK, StageInv, StageOk, RepliesInv, ReplyOk, NameInv, NameOk, Targets, FirstFree, Taken, NoConn
<1> QED
  BY <1>1, <1>2, <1>3, <1>4, <1>5

----------------------------------------------------------------------------
(* FileReceiverServer                                                      *)

LEMMA LoseKeeps ==
  ASSUME IInv, NEW c \in Conns, Lose(c)
  PROVE  IInv'
<1> USE DEF IInv, Lose, senderVars, receiverVars, handlerVars, diskVars
<1>1. TypeOK'
  BY DEF TypeOK, HandlerPc
<1>2. SenderInv'
  BY BatchAssumption DEF TypeOK, SenderInv, SenderOk, Busy, Attempts, Conns
<1>3. StageInv'
  BY BoundsAssumption DEF TypeOK, SenderInv, SenderOk, Busy, StageInv, StageOk, Verified, Conns
<1>4. RepliesInv'
  BY BoundsAssumption DEF TypeOK, SenderInv, SenderOk, Busy, StageInv, StageOk, RepliesInv, ReplyOk, Verified, Conns
<1>5. NameInv'
  BY DEF TypeOK, StageInv, StageOk, RepliesInv, ReplyOk, NameInv, NameOk, Targets, FirstFree, Taken, NoConn
<1> QED
  BY <1>1, <1>2, <1>3, <1>4, <1>5

LEMMA AcceptKeeps ==
  ASSUME IInv, NEW c \in Conns, Accept(c)
  PROVE  IInv'
<1> USE DEF IInv, Accept, senderVars, connVars, diskVars
<1>1. TypeOK'
  BY DEF TypeOK, HandlerPc
<1>2. SenderInv'
  BY BatchAssumption DEF TypeOK, SenderInv, SenderOk, Busy, Attempts, Conns
<1>3. StageInv'
  BY BoundsAssumption DEF TypeOK, SenderInv, SenderOk, Busy, StageInv, StageOk, Verified, Conns
<1>4. RepliesInv'
  BY BoundsAssumption DEF TypeOK, SenderInv, SenderOk, Busy, StageInv, StageOk, RepliesInv, ReplyOk, Verified, Conns
<1>5. NameInv'
  BY DEF TypeOK, StageInv, StageOk, RepliesInv, ReplyOk, NameInv, NameOk, Targets, FirstFree, Taken, NoConn
<1> QED
  BY <1>1, <1>2, <1>3, <1>4, <1>5

LEMMA HandshakeKeeps ==
  ASSUME IInv, NEW c \in Conns, Handshake(c)
  PROVE  IInv'
<1> USE DEF IInv, Handshake, senderVars, connVars, diskVars
<1>1. TypeOK'
  BY DEF TypeOK, HandlerPc
<1>2. SenderInv'
  BY BatchAssumption DEF TypeOK, SenderInv, SenderOk, Busy, Attempts, Conns
<1>3. StageInv'
  BY BoundsAssumption DEF TypeOK, SenderInv, SenderOk, Busy, StageInv, StageOk, Verified, Conns
<1>4. RepliesInv'
  BY BoundsAssumption DEF TypeOK, SenderInv, SenderOk, Busy, StageInv, StageOk, RepliesInv, ReplyOk, Verified, Conns
<1>5. NameInv'
  BY DEF TypeOK, StageInv, StageOk, RepliesInv, ReplyOk, NameInv, NameOk, Targets, FirstFree, Taken, NoConn
<1> QED
  BY <1>1, <1>2, <1>3, <1>4, <1>5

LEMMA StopKeeps ==
  ASSUME IInv, Stop
  PROVE  IInv'
<1> USE DEF IInv, Stop, senderVars, connVars, diskVars
<1>1. TypeOK'
  BY DEF TypeOK, HandlerPc
<1>2. SenderInv'
  BY BatchAssumption DEF TypeOK, SenderInv, SenderOk, Busy, Attempts, Conns
<1>3. StageInv'
  BY BoundsAssumption DEF TypeOK, SenderInv, SenderOk, Busy, StageInv, StageOk, Verified, Conns
<1>4. RepliesInv'
  BY BoundsAssumption DEF TypeOK, SenderInv, SenderOk, Busy, StageInv, StageOk, RepliesInv, ReplyOk, Verified, Conns
<1>5. NameInv'
  BY DEF TypeOK, StageInv, StageOk, RepliesInv, ReplyOk, NameInv, NameOk, Targets, FirstFree, Taken, NoConn
<1> QED
  BY <1>1, <1>2, <1>3, <1>4, <1>5

LEMMA NoHeaderKeeps ==
  ASSUME IInv, NEW c \in Conns, NoHeader(c)
  PROVE  IInv'
<1> USE DEF IInv, NoHeader, Goto, senderVars, connVars, diskVars
<1>1. TypeOK'
  BY DEF TypeOK, HandlerPc
<1>2. SenderInv'
  BY BatchAssumption DEF TypeOK, SenderInv, SenderOk, Busy, Attempts, Conns
<1>3. StageInv'
  BY BoundsAssumption DEF TypeOK, SenderInv, SenderOk, Busy, StageInv, StageOk, Verified, Conns
<1>4. RepliesInv'
  BY BoundsAssumption DEF TypeOK, SenderInv, SenderOk, Busy, StageInv, StageOk, RepliesInv, ReplyOk, Verified, Conns
<1>5. NameInv'
  BY DEF TypeOK, StageInv, StageOk, RepliesInv, ReplyOk, NameInv, NameOk, Targets, FirstFree, Taken, NoConn
<1> QED
  BY <1>1, <1>2, <1>3, <1>4, <1>5

LEMMA AllowKeeps ==
  ASSUME IInv, NEW c \in Conns, Allow(c)
  PROVE  IInv'
<1> USE DEF IInv, Allow, Goto, senderVars, connVars
<1>1. TypeOK'
  BY DEF TypeOK, HandlerPc
<1>2. SenderInv'
  BY BatchAssumption DEF TypeOK, SenderInv, SenderOk, Busy, Attempts, Conns
<1>3. StageInv'
  BY BoundsAssumption DEF TypeOK, SenderInv, SenderOk, Busy, StageInv, StageOk, Verified, Conns
<1>4. RepliesInv'
  BY BoundsAssumption DEF TypeOK, SenderInv, SenderOk, Busy, StageInv, StageOk, RepliesInv, ReplyOk, Verified, Conns
<1>5. NameInv'
  BY DEF TypeOK, StageInv, StageOk, RepliesInv, ReplyOk, NameInv, NameOk, Targets, FirstFree, Taken, NoConn
<1> QED
  BY <1>1, <1>2, <1>3, <1>4, <1>5

LEMMA RefuseKeeps ==
  ASSUME IInv, NEW c \in Conns, Refuse(c)
  PROVE  IInv'
<1> USE DEF IInv, Refuse, Nak, Goto, senderVars, connVars, diskVars
<1>1. TypeOK'
  BY DEF TypeOK, HandlerPc
<1>2. SenderInv'
  BY BatchAssumption DEF TypeOK, SenderInv, SenderOk, Busy, Attempts, Conns
<1>3. StageInv'
  BY BoundsAssumption DEF TypeOK, SenderInv, SenderOk, Busy, StageInv, StageOk, Verified, Conns
<1>4. RepliesInv'
  BY BoundsAssumption DEF TypeOK, SenderInv, SenderOk, Busy, StageInv, StageOk, RepliesInv, ReplyOk, Verified, Conns
<1>5. NameInv'
  BY DEF TypeOK, StageInv, StageOk, RepliesInv, ReplyOk, NameInv, NameOk, Targets, FirstFree, Taken, NoConn
<1> QED
  BY <1>1, <1>2, <1>3, <1>4, <1>5

LEMMA NoSecretPinKeeps ==
  ASSUME IInv, NEW c \in Conns, NoSecretPin(c)
  PROVE  IInv'
<1> USE DEF IInv, NoSecretPin, Nak, Goto, senderVars, connVars, diskVars
<1>1. TypeOK'
  BY DEF TypeOK, HandlerPc
<1>2. SenderInv'
  BY BatchAssumption DEF TypeOK, SenderInv, SenderOk, Busy, Attempts, Conns
<1>3. StageInv'
  BY BoundsAssumption DEF TypeOK, SenderInv, SenderOk, Busy, StageInv, StageOk, Verified, Conns
<1>4. RepliesInv'
  BY BoundsAssumption DEF TypeOK, SenderInv, SenderOk, Busy, StageInv, StageOk, RepliesInv, ReplyOk, Verified, Conns
<1>5. NameInv'
  BY DEF TypeOK, StageInv, StageOk, RepliesInv, ReplyOk, NameInv, NameOk, Targets, FirstFree, Taken, NoConn
<1> QED
  BY <1>1, <1>2, <1>3, <1>4, <1>5

LEMMA RecvBlockKeeps ==
  ASSUME IInv, NEW c \in Conns, RecvBlock(c)
  PROVE  IInv'
<1> USE DEF IInv, RecvBlock, Goto, senderVars, connVars, diskVars
<1>a. rcvd[c] < Size
  BY DEF StageInv, StageOk
<1>b. rcvd[c] + 1 # Size => rcvd[c] + 1 < Size
  BY <1>a, OneMore DEF TypeOK
<1>1. TypeOK'
  BY <1>a, NextBlock DEF TypeOK, HandlerPc
<1>2. SenderInv'
  BY BatchAssumption DEF TypeOK, SenderInv, SenderOk, Busy, Attempts, Conns
<1>3. StageInv'
<2>1. hpc'[c] = (IF rcvd[c] + 1 = Size THEN "verify" ELSE "recv") /\ rcvd'[c] = rcvd[c] + 1
    BY DEF TypeOK
<2>2. StageOk(c)'
    BY <1>b, <2>1 DEF StageInv, StageOk
<2>3. ASSUME NEW d \in Conns, d # c
        PROVE  StageOk(d)'
    BY <2>3 DEF TypeOK, StageInv, StageOk, Verified
<2> QED
    BY <2>2, <2>3 DEF StageInv
<1>4. RepliesInv'
  BY BoundsAssumption DEF TypeOK, SenderInv, SenderOk, Busy, StageInv, StageOk, RepliesInv, ReplyOk, Verified, Conns
<1>5. NameInv'
  BY DEF TypeOK, StageInv, StageOk, RepliesInv, ReplyOk, NameInv, NameOk, Targets, FirstFree, Taken, NoConn
<1> QED
  BY <1>1, <1>2, <1>3, <1>4, <1>5

LEMMA RecvFailsKeeps ==
  ASSUME IInv, NEW c \in Conns, RecvFails(c)
  PROVE  IInv'
<1> USE DEF IInv, RecvFails, Nak, Goto, senderVars, connVars
<1>1. TypeOK'
  BY DEF TypeOK, HandlerPc
<1>2. SenderInv'
  BY BatchAssumption DEF TypeOK, SenderInv, SenderOk, Busy, Attempts, Conns
<1>3. StageInv'
  BY BoundsAssumption DEF TypeOK, SenderInv, SenderOk, Busy, StageInv, StageOk, Verified, Conns
<1>4. RepliesInv'
  BY BoundsAssumption DEF TypeOK, SenderInv, SenderOk, Busy, StageInv, StageOk, RepliesInv, ReplyOk, Verified, Conns
<1>5. NameInv'
  BY DEF TypeOK, StageInv, StageOk, RepliesInv, ReplyOk, NameInv, NameOk, Targets, FirstFree, Taken, NoConn
<1> QED
  BY <1>1, <1>2, <1>3, <1>4, <1>5

LEMMA PickKeeps ==
  ASSUME IInv, NEW c \in Conns, Pick(c)
  PROVE  IInv'
<1> USE DEF IInv, Pick, Goto, senderVars, connVars, diskVars
<1>a. desc[c].name \in Names
  BY DEF StageInv, StageOk
<1>1. TypeOK'
<2>1. target' \in [Conns -> {NoTarget} \cup Targets] /\ hpc' \in [Conns -> HandlerPc]
    BY <1>a DEF TypeOK, HandlerPc, Targets
<2> QED
    BY <2>1 DEF TypeOK
<1>2. SenderInv'
  BY BatchAssumption DEF TypeOK, SenderInv, SenderOk, Busy, Attempts, Conns
<1>3. StageInv'
  BY BoundsAssumption DEF TypeOK, SenderInv, SenderOk, Busy, StageInv, StageOk, Verified, Conns
<1>4. RepliesInv'
  BY BoundsAssumption DEF TypeOK, SenderInv, SenderOk, Busy, StageInv, StageOk, RepliesInv, ReplyOk, Verified, Conns
<1>5. NameInv'
  BY DEF TypeOK, StageInv, StageOk, RepliesInv, ReplyOk, NameInv, NameOk, Targets, FirstFree, Taken, NoConn
<1> QED
  BY <1>1, <1>2, <1>3, <1>4, <1>5

LEMMA MoveKeeps ==
  ASSUME IInv, NEW c \in Conns, Move(c)
  PROVE  IInv'
<1> USE DEF IInv, Move, Goto, senderVars, connVars
<1>a. target[c] \in Targets
  BY DEF NameInv, NameOk
<1>1. TypeOK'
<2>1. /\ finals' \in [Targets -> {NoConn} \cup Conns] /\ temps' \subseteq Conns
        /\ published' \subseteq Conns /\ since' \in [Conns -> SUBSET Conns]
        /\ hpc' \in [Conns -> HandlerPc]
    BY <1>a DEF TypeOK, HandlerPc
<2> QED
    BY <2>1 DEF TypeOK
<1>2. SenderInv'
  BY BatchAssumption DEF TypeOK, SenderInv, SenderOk, Busy, Attempts, Conns
<1>3. StageInv'
  BY BoundsAssumption DEF TypeOK, SenderInv, SenderOk, Busy, StageInv, StageOk, Verified, Conns
<1>4. RepliesInv'
  BY BoundsAssumption DEF TypeOK, SenderInv, SenderOk, Busy, StageInv, StageOk, RepliesInv, ReplyOk, Verified, Conns
<1>5. NameInv'
  BY DEF TypeOK, StageInv, StageOk, RepliesInv, ReplyOk, NameInv, NameOk, Targets, FirstFree, Taken, NoConn
<1> QED
  BY <1>1, <1>2, <1>3, <1>4, <1>5

LEMMA AckKeeps ==
  ASSUME IInv, NEW c \in Conns, Ack(c)
  PROVE  IInv'
<1> USE DEF IInv, Ack, Goto, senderVars, connVars, diskVars
<1>1. TypeOK'
  BY DEF TypeOK, HandlerPc
<1>2. SenderInv'
  BY BatchAssumption DEF TypeOK, SenderInv, SenderOk, Busy, Attempts, Conns
<1>3. StageInv'
  BY BoundsAssumption DEF TypeOK, SenderInv, SenderOk, Busy, StageInv, StageOk, Verified, Conns
<1>4. RepliesInv'
  BY BoundsAssumption DEF TypeOK, SenderInv, SenderOk, Busy, StageInv, StageOk, RepliesInv, ReplyOk, Verified, Conns
<1>5. NameInv'
  BY DEF TypeOK, StageInv, StageOk, RepliesInv, ReplyOk, NameInv, NameOk, Targets, FirstFree, Taken, NoConn
<1> QED
  BY <1>1, <1>2, <1>3, <1>4, <1>5

LEMMA AckFailsKeeps ==
  ASSUME IInv, NEW c \in Conns, AckFails(c)
  PROVE  IInv'
<1> USE DEF IInv, AckFails, Nak, Goto, senderVars, connVars, diskVars
<1>1. TypeOK'
  BY DEF TypeOK, HandlerPc
<1>2. SenderInv'
  BY BatchAssumption DEF TypeOK, SenderInv, SenderOk, Busy, Attempts, Conns
<1>3. StageInv'
  BY BoundsAssumption DEF TypeOK, SenderInv, SenderOk, Busy, StageInv, StageOk, Verified, Conns
<1>4. RepliesInv'
  BY BoundsAssumption DEF TypeOK, SenderInv, SenderOk, Busy, StageInv, StageOk, RepliesInv, ReplyOk, Verified, Conns
<1>5. NameInv'
  BY DEF TypeOK, StageInv, StageOk, RepliesInv, ReplyOk, NameInv, NameOk, Targets, FirstFree, Taken, NoConn
<1> QED
  BY <1>1, <1>2, <1>3, <1>4, <1>5

LEMMA LogKeeps ==
  ASSUME IInv, NEW c \in Conns, Log(c)
  PROVE  IInv'
<1> USE DEF IInv, Log, Goto, senderVars, connVars, diskVars
<1>1. TypeOK'
  BY DEF TypeOK, HandlerPc
<1>2. SenderInv'
  BY BatchAssumption DEF TypeOK, SenderInv, SenderOk, Busy, Attempts, Conns
<1>3. StageInv'
  BY BoundsAssumption DEF TypeOK, SenderInv, SenderOk, Busy, StageInv, StageOk, Verified, Conns
<1>4. RepliesInv'
  BY BoundsAssumption DEF TypeOK, SenderInv, SenderOk, Busy, StageInv, StageOk, RepliesInv, ReplyOk, Verified, Conns
<1>5. NameInv'
  BY DEF TypeOK, StageInv, StageOk, RepliesInv, ReplyOk, NameInv, NameOk, Targets, FirstFree, Taken, NoConn
<1> QED
  BY <1>1, <1>2, <1>3, <1>4, <1>5

----------------------------------------------------------------------------
LEMMA StutterKeeps ==
  ASSUME IInv, UNCHANGED vars
  PROVE  IInv'
  BY DEF IInv, TypeOK, SenderInv, SenderOk, StageInv, StageOk, RepliesInv, ReplyOk, NameInv, NameOk,
         Verified, vars, senderVars, connVars, receiverVars, handlerVars, diskVars

LEMMA StepKeeps == IInv /\ [Next]_vars => IInv'
<1> SUFFICES ASSUME IInv, [Next]_vars PROVE IInv'
  OBVIOUS
<1>1. ASSUME NEW s \in Senders, SenderStep(s) \/ Resend(s)
      PROVE  IInv'
  BY <1>1, ConnectKeeps, ConnectFailsKeeps, SendHeaderKeeps, SendBlockKeeps, SendEndKeeps,
     AnswerKeeps, SendFailsKeeps, ResendKeeps DEF SenderStep
<1>2. ASSUME NEW c \in Conns, Accept(c) \/ Handshake(c) \/ HandlerStep(c) \/ Lose(c)
      PROVE  IInv'
  BY <1>2, AcceptKeeps, HandshakeKeeps, LoseKeeps, NoHeaderKeeps, AllowKeeps, RefuseKeeps,
     NoSecretPinKeeps, RecvBlockKeeps, RecvFailsKeeps, PickKeeps, MoveKeeps, AckKeeps,
     AckFailsKeeps, LogKeeps DEF HandlerStep
<1>3. CASE Stop
  BY <1>3, StopKeeps
<1>4. CASE UNCHANGED vars
  BY <1>4, StutterKeeps
<1> QED
  BY <1>1, <1>2, <1>3, <1>4 DEF Next

LEMMA Invariance == Spec => []IInv
  BY InvInit, StepKeeps, PTL DEF Spec

(* The variables keep their types.                                         *)
THEOREM TypeCorrect == Spec => []TypeOK
<1>1. IInv => TypeOK
  BY DEF IInv
<1> QED
  BY <1>1, Invariance, PTL

(* However many senders and handlers there are, a file is counted as sent  *)
(* only when it was moved to a final name with every announced block.      *)
THEOREM AckedIsPublished == Spec => []AckedPublished
<1>1. IInv => AckedPublished
  BY DEF IInv, TypeOK, RepliesInv, ReplyOk, AckedPublished
<1> QED
  BY <1>1, Invariance, PTL

(* A file counted as sent with verify_hash was sent as it was announced.   *)
THEOREM AckedIsUnchanged == Spec => []AckedUnchanged
<1>1. IInv => AckedUnchanged
  BY DEF IInv, TypeOK, RepliesInv, ReplyOk, Verified, AckedUnchanged
<1> QED
  BY <1>1, Invariance, PTL

(* No handler leaves a temporary file behind when it ends.                 *)
THEOREM TempsHaveOwners == Spec => []NoStrayTemp
<1>1. IInv => NoStrayTemp
  BY DEF IInv, TypeOK, StageInv, StageOk, NoStrayTemp
<1> QED
  BY <1>1, Invariance, PTL

(* The history says "ok" of published files, "rejected" of unstored ones,  *)
(* and forgets none whose ACK was written.                                 *)
THEOREM HistoryIsTrue == Spec => []HistoryTrue
<1>1. IInv => HistoryTrue
  BY DEF IInv, TypeOK, StageInv, StageOk, RepliesInv, ReplyOk, HistoryTrue
<1> QED
  BY <1>1, Invariance, PTL

(* An overwrite takes two handlers that had picked the same name at the    *)
(* same time: what is lost was moved there after the name was picked.      *)
THEOREM OverwritesAreRaces == Spec => OverwritesOnlyInRace
<1> DEFINE A == \A f \in Targets :
                  finals[f] # NoConn /\ finals'[f] # finals[f] => finals[f] \in since[finals'[f]]
<1>1. IInv /\ [Next]_vars => [A]_vars
  <2> SUFFICES ASSUME IInv, Next PROVE A
    OBVIOUS
  <2>1. ASSUME NEW c \in Conns, Move(c)
        PROVE  A
    BY <2>1 DEF IInv, TypeOK, NameInv, NameOk, Move
  <2>2. CASE finals' = finals
    BY <2>2
  <2>3. ASSUME NEW s \in Senders, SenderStep(s) \/ Resend(s)
        PROVE  finals' = finals
    BY <2>3 DEF SenderStep, Connect, ConnectFails, SendHeader, SendBlock, SendEnd, Answer,
                SendFails, Resend, receiverVars, diskVars
  <2>4. ASSUME NEW c \in Conns, Accept(c) \/ Handshake(c) \/ HandlerStep(c) \/ Lose(c), ~Move(c)
        PROVE  finals' = finals
    BY <2>4 DEF HandlerStep, Accept, Handshake, Lose, NoHeader, Allow, Refuse, NoSecretPin,
                RecvBlock, RecvFails, Pick, Ack, AckFails, Log, receiverVars, diskVars
  <2>5. Stop => finals' = finals
    BY DEF Stop, diskVars
  <2> QED
    BY <2>1, <2>2, <2>3, <2>4, <2>5 DEF Next
<1> HIDE DEF A
<1>2. Spec => [][A]_vars
  BY <1>1, Invariance, PTL DEF Spec
<1> QED
  BY <1>2 DEF OverwritesOnlyInRace, A

-----------------------------------------------------------------------------
(* DataChannel. *)

(* The messages _send_loop has taken, and what was written, or is about to *)
(* be, and not yet read.                                                   *)
Dequeued == Len(size) - Len(queue)
Pipe == wire \o tx
Incoming == {Pipe[i].f : i \in DOMAIN Pipe} \cup ({rx} \ {None})

Step(k) == IF k = "h1" THEN 1 ELSE IF k = "h2" THEN 2 ELSE 3
Before(f, g) == f.m < g.m \/ (f.m = g.m /\ f.idx < g.idx)
Follows(d, c) == Before(c.f, d.f) \/ (c.f = d.f /\ Step(c.k) < Step(d.k))
After(c) == [k |-> IF c.k = "h1" THEN "h2" ELSE "body", f |-> c.f]
Body(f) == [k |-> "body", f |-> f]

QueueInv == Len(queue) <= Len(size) /\ \A i \in DOMAIN queue : queue[i] = Dequeued + i

HeaderOk(f) ==
  /\ f.m <= Dequeued /\ f.seq = f.m - 1 /\ f.total = size[f.m] /\ f.total <= SendParts
  /\ f.total = 0 => f.idx = 0 /\ f.id = 0
  /\ f.total > 0 => f.idx < f.total /\ f.id \in 1 .. fragId

HeaderInv ==
  /\ \A f \in Incoming : HeaderOk(f)
  /\ \A f, g \in Incoming : f.total > 0 /\ g.total > 0 => (f.id = g.id <=> f.m = g.m)

PipeInv ==
  /\ \A i, j \in DOMAIN Pipe : i < j => Follows(Pipe[j], Pipe[i])
  /\ \A i \in DOMAIN Pipe : i + 1 \in DOMAIN Pipe /\ Pipe[i].k # "body" => Pipe[i + 1] = After(Pipe[i])
  /\ rx # None /\ Pipe # <<>> => Pipe[1] = Body(rx)
  /\ thread["snd"] = "loop" => /\ rx # None => Pipe # <<>>
                               /\ Pipe # <<>> => Pipe[Len(Pipe)].k = "body"

GotInv ==
  \A i \in DOMAIN got : got[i] <= Dequeued /\ \A f \in Incoming : got[i] < f.m

TableInv ==
  /\ \A i, j \in DOMAIN table : table[i].id = table[j].id => i = j
  /\ \A e \in Range(table) :
       /\ e.id <= fragId
       /\ \A i \in DOMAIN e.parts :
            /\ e.parts[i] <= Dequeued
            /\ \A f \in Incoming : /\ e.parts[i] <= f.m
                                   /\ f.total > 0 /\ f.id = e.id => e.parts[i] = f.m /\ i < f.idx

Parts(m) == IF size[m] = 0 THEN 1 ELSE size[m]
OnItsWay(k, m, idx) ==
  \E i \in DOMAIN Pipe : Pipe[i].k = k /\ Pipe[i].f.m = m /\ Pipe[i].f.idx = idx

(* The parts of m before n are in the table, the others on their way.      *)
Left(m, n) ==
  /\ n < Parts(m)
  /\ \A idx \in n .. (Parts(m) - 1) :
       /\ OnItsWay("body", m, idx)
       /\ OnItsWay("h1", m, idx) \/ (idx = n /\ rx # None /\ rx.m = m /\ rx.idx = n)
  /\ n > 0 => \E e \in Range(table) :
       /\ 0 .. (n - 1) \subseteq DOMAIN e.parts
       /\ \A f \in Incoming : f.m = m => f.id = e.id

KeptInv ==
  ~closed["rcv"] => \A m \in 1 .. Dequeued :
    m \in harmed \cup Range(got) \/ size[m] > RecvParts \/ \E n \in 0 .. SendParts : Left(m, n)

DataInv ==
  DataTypeOK /\ QueueInv /\ HeaderInv /\ PipeInv /\ GotInv /\ TableInv /\ InOrder /\ KeptInv

-----------------------------------------------------------------------------

LEMMA Numbers ==
  /\ MaxMessages \in Nat /\ MaxPartials \in Nat \ {0} /\ RecvParts \in Nat /\ SendParts \in Nat
  /\ RecvParts <= SendParts /\ \A n \in Sizes : n \in Nat /\ n # 1
  BY ChannelAssumption

LEMMA EntriesAre ==
  \A e \in Entries :
    /\ e.id \in Nat /\ DOMAIN e.parts \subseteq 0 .. (SendParts - 1)
    /\ \A i \in DOMAIN e.parts : e.parts[i] \in Messages /\ e.parts[i] \in Nat /\ i \in Nat
<1> SUFFICES ASSUME NEW e \in Entries
             PROVE  /\ e.id \in Nat /\ DOMAIN e.parts \subseteq 0 .. (SendParts - 1)
                    /\ \A i \in DOMAIN e.parts : e.parts[i] \in Messages /\ e.parts[i] \in Nat /\ i \in Nat
  OBVIOUS
<1>1. PICK S \in SUBSET (0 .. (SendParts - 1)) : e.parts \in [S -> Messages]
  BY DEF Entries
<1>2. e.id \in Nat /\ DOMAIN e.parts = S /\ \A i \in S : e.parts[i] \in Messages
  BY <1>1 DEF Entries
<1>3. \A i \in S : i \in 0 .. (SendParts - 1) /\ i \in Nat
  BY <1>1, Numbers
<1>4. \A m \in Messages : m \in Nat
  BY Numbers DEF Messages
<1> QED
  BY <1>2, <1>3, <1>4

LEMMA PipeIs ==
  ASSUME DataTypeOK
  PROVE  /\ Pipe \in Seq(Cells) /\ Len(Pipe) = Len(wire) + Len(tx)
         /\ \A i \in DOMAIN wire : i \in DOMAIN Pipe /\ Pipe[i] = wire[i]
         /\ \A i \in DOMAIN tx : Len(wire) + i \in DOMAIN Pipe /\ Pipe[Len(wire) + i] = tx[i]
  BY DEF DataTypeOK, Pipe

LEMMA RemoveAtIs ==
  ASSUME NEW S, NEW s \in Seq(S), NEW i \in DOMAIN s
  PROVE  /\ RemoveAt(s, i) \in Seq(S) /\ Len(RemoveAt(s, i)) = Len(s) - 1
         /\ \A j \in DOMAIN RemoveAt(s, i) : RemoveAt(s, i)[j] = IF j < i THEN s[j] ELSE s[j + 1]
<1> DEFINE a == SubSeq(s, 1, i - 1)
           b == SubSeq(s, i + 1, Len(s))
<1>1. a \in Seq(S) /\ Len(a) = i - 1 /\ \A j \in 1 .. (i - 1) : a[j] = s[j]
  OBVIOUS
<1>2. b \in Seq(S) /\ Len(b) = Len(s) - i /\ \A j \in 1 .. (Len(s) - i) : b[j] = s[i + j]
  OBVIOUS
<1>3. RemoveAt(s, i) = a \o b
  BY DEF RemoveAt
<1> HIDE DEF a, b
<1>4. a \o b \in Seq(S) /\ Len(a \o b) = Len(s) - 1
  BY <1>1, <1>2
<1>5. ASSUME NEW j \in DOMAIN (a \o b) PROVE (a \o b)[j] = IF j < i THEN s[j] ELSE s[j + 1]
  <2>1. CASE j < i
    BY <1>1, <1>2, <1>4, <2>1
  <2>2. CASE j >= i
    <3>1. (a \o b)[j] = b[j - Len(a)] /\ j - Len(a) \in 1 .. Len(b)
      BY <1>1, <1>2, <1>4, <2>2
    <3>2. j - Len(a) = j - i + 1 /\ j - i + 1 \in 1 .. (Len(s) - i) /\ i + (j - i + 1) = j + 1
      BY <1>1, <1>2, <1>4, <2>2
    <3>3. b[j - i + 1] = s[i + (j - i + 1)]
      BY <1>2, <3>2
    <3> QED
      BY <2>2, <3>1, <3>2, <3>3
  <2> QED
    BY <1>4, <2>1, <2>2
<1> QED
  BY <1>3, <1>4, <1>5

(* What _send_frame writes: a frame for each part, of three cells.         *)
Header(m, seq, id, idx) ==
  [m |-> m, seq |-> seq, id |-> IF size[m] = 0 THEN 0 ELSE id, idx |-> idx, total |-> size[m]]

LEMMA Thirds ==
  ASSUME NEW n \in Nat
  PROVE  /\ \A c \in 1 .. (3 * n) : (c - 1) \div 3 \in 0 .. (n - 1) /\ (c - 1) % 3 \in 0 .. 2
                                    /\ ((c - 1) % 3) + 1 \in 1 .. 3 /\ c = 3 * ((c - 1) \div 3) + ((c - 1) % 3) + 1
         /\ \A idx \in 0 .. (n - 1), p \in 1 .. 3 :
              3 * idx + p \in 1 .. (3 * n) /\ (3 * idx + p - 1) \div 3 = idx /\ ((3 * idx + p - 1) % 3) + 1 = p
  OBVIOUS

LEMMA FramesAre ==
  ASSUME DataTypeOK, NEW m \in DOMAIN size, NEW seq \in Nat, NEW id \in Nat
  PROVE  /\ Frames(m, seq, id) \in Seq(Cells) /\ Len(Frames(m, seq, id)) = 3 * Parts(m)
         /\ \A idx \in 0 .. (Parts(m) - 1), p \in 1 .. 3 :
              /\ 3 * idx + p \in DOMAIN Frames(m, seq, id)
              /\ Frames(m, seq, id)[3 * idx + p] = [k |-> Kinds[p], f |-> Header(m, seq, id, idx)]
         /\ \A c \in DOMAIN Frames(m, seq, id) :
              \E idx \in 0 .. (Parts(m) - 1), p \in 1 .. 3 : c = 3 * idx + p
<1> DEFINE n == Parts(m)
           F == Frames(m, seq, id)
<1>a. m \in Messages /\ size[m] \in Nat
  BY Numbers DEF DataTypeOK, Messages
<1>1. n \in Nat \ {0} /\ m \in Messages /\ size[m] \in Nat
  BY <1>a DEF Parts
<1>2. F = [c \in 1 .. (3 * n) |->
            [k |-> Kinds[((c - 1) % 3) + 1], f |-> Header(m, seq, id, (c - 1) \div 3)]]
  BY DEF Frames, Parts, Header
<1>3. Kinds \in [1 .. 3 -> Range(Kinds)]
  BY DEF Kinds, Range
<1>4. ASSUME NEW idx \in 0 .. (n - 1) PROVE Header(m, seq, id, idx) \in Headers
  BY <1>1 DEF Header, Headers
<1> HIDE DEF n, F
<1>5. \A c \in 1 .. (3 * n) : F[c] \in Cells
  BY <1>1, <1>2, <1>3, <1>4, Thirds DEF Cells
<1>6. F \in Seq(Cells) /\ Len(F) = 3 * n /\ DOMAIN F = 1 .. (3 * n)
  BY <1>1, <1>2, <1>5
<1>7. \A idx \in 0 .. (n - 1), p \in 1 .. 3 :
        3 * idx + p \in DOMAIN F /\ F[3 * idx + p] = [k |-> Kinds[p], f |-> Header(m, seq, id, idx)]
  <2> SUFFICES ASSUME NEW idx \in 0 .. (n - 1), NEW p \in 1 .. 3
               PROVE  3 * idx + p \in DOMAIN F /\ F[3 * idx + p] = [k |-> Kinds[p], f |-> Header(m, seq, id, idx)]
    OBVIOUS
  <2>1. 3 * idx + p \in 1 .. (3 * n) /\ (3 * idx + p - 1) \div 3 = idx /\ ((3 * idx + p - 1) % 3) + 1 = p
    BY <1>1, Thirds
  <2>2. PICK c \in 1 .. (3 * n) : c = 3 * idx + p
    BY <2>1
  <2>3. F[c] = [k |-> Kinds[((c - 1) % 3) + 1], f |-> Header(m, seq, id, (c - 1) \div 3)]
    BY <1>2
  <2>4. (c - 1) \div 3 = idx /\ ((c - 1) % 3) + 1 = p
    BY <2>1, <2>2
  <2> QED
    BY <1>6, <2>2, <2>3, <2>4
<1>8. \A c \in DOMAIN F : \E idx \in 0 .. (n - 1), p \in 1 .. 3 : c = 3 * idx + p
  <2> SUFFICES ASSUME NEW c \in DOMAIN F PROVE \E idx \in 0 .. (n - 1), p \in 1 .. 3 : c = 3 * idx + p
    OBVIOUS
  <2> DEFINE q == (c - 1) \div 3
             r == (c - 1) % 3
  <2>a. n \in Nat /\ c \in 1 .. (3 * n)
    BY <1>1, <1>6
  <2>b. q \in 0 .. (n - 1) /\ r \in 0 .. 2 /\ c = 3 * q + r + 1
    BY <2>a, Thirds
  <2>1. q \in 0 .. (n - 1) /\ r + 1 \in 1 .. 3 /\ c = 3 * q + r + 1 /\ q \in Int /\ r \in Int
    BY <2>a, <2>b
  <2> HIDE DEF q, r
  <2>2. c = 3 * q + (r + 1)
    BY <2>1
  <2> QED
    BY <2>1, <2>2
<1> QED
  BY <1>6, <1>7, <1>8 DEF n, F

LEMMA ConcatIs ==
  ASSUME NEW S, NEW a \in Seq(S), NEW b \in Seq(S)
  PROVE  /\ a \o b \in Seq(S) /\ Len(a \o b) = Len(a) + Len(b) /\ DOMAIN (a \o b) = 1 .. Len(a \o b)
         /\ \A i \in 1 .. Len(a) : (a \o b)[i] = a[i]
         /\ \A i \in (Len(a) + 1) .. (Len(a) + Len(b)) : (a \o b)[i] = b[i - Len(a)]
<1>1. a \o b \in Seq(S) /\ Len(a \o b) = Len(a) + Len(b)
  BY ConcatProperties
<1>2. \A i \in 1 .. Len(a) : (a \o b)[i] = a[i]
  OBVIOUS
<1>3. \A i \in (Len(a) + 1) .. (Len(a) + Len(b)) : (a \o b)[i] = b[i - Len(a)]
  OBVIOUS
<1> QED
  BY <1>1, <1>2, <1>3

(* The cells that are read go from the front of the pipe.                  *)
LEMMA Dropped ==
  ASSUME DataTypeOK, NEW n \in 0 .. Len(wire), wire' = SubSeq(wire, n + 1, Len(wire)), tx' = tx
  PROVE  /\ Pipe' \in Seq(Cells) /\ Len(Pipe') = Len(Pipe) - n /\ n <= Len(Pipe)
         /\ \A i \in DOMAIN Pipe' : i + n \in DOMAIN Pipe /\ Pipe'[i] = Pipe[i + n]
<1>1. wire \in Seq(Cells) /\ tx \in Seq(Cells) /\ n \in Nat /\ Len(wire) \in Nat /\ Len(tx) \in Nat
  BY DEF DataTypeOK
<1>2. /\ wire' \in Seq(Cells) /\ Len(wire') = Len(wire) - n
      /\ \A i \in 1 .. (Len(wire) - n) : wire'[i] = wire[n + i]
  BY <1>1
<1>3. /\ Pipe \in Seq(Cells) /\ Len(Pipe) = Len(wire) + Len(tx) /\ DOMAIN Pipe = 1 .. Len(Pipe)
      /\ \A i \in 1 .. Len(wire) : Pipe[i] = wire[i]
      /\ \A i \in (Len(wire) + 1) .. (Len(wire) + Len(tx)) : Pipe[i] = tx[i - Len(wire)]
  BY <1>1, ConcatIs DEF Pipe
<1>4. /\ Pipe' \in Seq(Cells) /\ Len(Pipe') = Len(wire') + Len(tx) /\ DOMAIN Pipe' = 1 .. Len(Pipe')
      /\ \A i \in 1 .. Len(wire') : Pipe'[i] = wire'[i]
      /\ \A i \in (Len(wire') + 1) .. (Len(wire') + Len(tx)) : Pipe'[i] = tx[i - Len(wire')]
  BY <1>1, <1>2, ConcatIs DEF Pipe
<1>5. Len(Pipe') = Len(Pipe) - n /\ n <= Len(Pipe)
  BY <1>1, <1>2, <1>3, <1>4
<1>6. ASSUME NEW i \in DOMAIN Pipe' PROVE i + n \in DOMAIN Pipe /\ Pipe'[i] = Pipe[i + n]
  <2>1. i \in 1 .. (Len(wire) + Len(tx) - n) /\ i + n \in 1 .. (Len(wire) + Len(tx))
    BY <1>1, <1>2, <1>3, <1>4
  <2>2. CASE i <= Len(wire) - n
    <3>1. i \in 1 .. (Len(wire) - n) /\ i + n \in 1 .. Len(wire) /\ n + i = i + n
      BY <1>1, <2>1, <2>2
    <3>2. Pipe'[i] = wire'[i] /\ wire'[i] = wire[i + n] /\ Pipe[i + n] = wire[i + n]
      BY <1>2, <1>3, <1>4, <3>1
    <3> QED
      BY <1>3, <2>1, <3>2
  <2>3. CASE i > Len(wire) - n
    <3>1. /\ i \in (Len(wire') + 1) .. (Len(wire') + Len(tx))
          /\ i + n \in (Len(wire) + 1) .. (Len(wire) + Len(tx))
          /\ i - Len(wire') = i + n - Len(wire)
      <4>1. Len(wire') = Len(wire) - n
        BY <1>2
      <4>2. \A l : l = Len(wire) - n =>
              i \in (l + 1) .. (l + Len(tx)) /\ i - l = i + n - Len(wire)
        BY <1>1, <2>1, <2>3
      <4>3. i + n \in (Len(wire) + 1) .. (Len(wire) + Len(tx))
        BY <1>1, <2>1, <2>3
      <4> QED
        BY <4>1, <4>2, <4>3
    <3>2. Pipe'[i] = tx[i - Len(wire')]
      BY <1>4, <3>1
    <3>3. Pipe[i + n] = tx[i + n - Len(wire)]
      BY <1>3, <3>1
    <3> QED
      BY <1>3, <2>1, <3>1, <3>2, <3>3
  <2> QED
    BY <1>1, <2>1, <2>2, <2>3
<1> QED
  BY <1>4, <1>5, <1>6

(* A cell that is handed to the connection stays in the pipe.              *)
LEMMA Moved ==
  ASSUME DataTypeOK, tx # <<>>, tx' = Tail(tx), wire' = Append(wire, Head(tx))
  PROVE  Pipe' = Pipe
<1>1. wire \in Seq(Cells) /\ tx \in Seq(Cells)
  BY DEF DataTypeOK
<1>2. /\ wire' \in Seq(Cells) /\ Len(wire') = Len(wire) + 1 /\ tx' \in Seq(Cells) /\ Len(tx') = Len(tx) - 1
      /\ wire'[Len(wire) + 1] = tx[1] /\ \A i \in DOMAIN wire : wire'[i] = wire[i]
      /\ \A i \in 1 .. (Len(tx) - 1) : tx'[i] = tx[i + 1]
  BY <1>1
<1>3. Pipe \in Seq(Cells) /\ Pipe' \in Seq(Cells) /\ Len(Pipe') = Len(Pipe) /\ Len(Pipe) = Len(wire) + Len(tx)
  BY <1>1, <1>2 DEF Pipe
<1>4. ASSUME NEW i \in 1 .. Len(Pipe) PROVE Pipe'[i] = Pipe[i]
  <2>1. CASE i <= Len(wire)
    BY <1>1, <1>2, <1>3, <2>1 DEF Pipe
  <2>2. CASE i = Len(wire) + 1
    BY <1>1, <1>2, <1>3, <2>2 DEF Pipe
  <2>3. CASE i > Len(wire) + 1
    <3>1. Pipe'[i] = tx'[i - Len(wire) - 1] /\ Pipe[i] = tx[i - Len(wire)]
      BY <1>1, <1>2, <1>3, <2>3 DEF Pipe
    <3>2. i - Len(wire) - 1 \in 1 .. (Len(tx) - 1) /\ (i - Len(wire) - 1) + 1 = i - Len(wire)
      BY <1>1, <1>3, <2>3
    <3> QED
      BY <1>2, <3>1, <3>2
  <2> QED
    BY <1>1, <2>1, <2>2, <2>3
<1> QED
  BY <1>3, <1>4, SeqEqual

(* What _send_loop takes is the next message, under its own number.        *)
LEMMA TakeIs ==
  ASSUME DataTypeOK, QueueInv, TakeMessage
  PROVE  /\ Dequeued + 1 \in DOMAIN size /\ Dequeued \in Nat /\ Dequeued' = Dequeued + 1 /\ QueueInv'
         /\ size' = size /\ queue' \in Seq(Messages)
         /\ tx = <<>> /\ wire' = wire /\ thread["snd"] = "loop"
         /\ IF size[Dequeued + 1] > SendParts
            THEN thread' = [thread EXCEPT !["snd"] = "dead"] /\ tx' = tx /\ fragId' = fragId
            ELSE /\ thread' = thread /\ fragId' = NextId(Dequeued + 1)
                 /\ tx' = Frames(Dequeued + 1, Dequeued, NextId(Dequeued + 1))
<1>1. size \in Seq(Sizes) /\ queue \in Seq(Messages) /\ queue # <<>> /\ queue' = Tail(queue) /\ size' = size
  BY DEF TakeMessage, DataTypeOK
<1>2. Head(queue) = Dequeued + 1 /\ Dequeued \in Nat /\ Dequeued + 1 \in DOMAIN size
  BY <1>1 DEF QueueInv, Dequeued
<1>3. sendSeq - Len(Tail(queue)) - 1 = Dequeued /\ Dequeued' = Dequeued + 1
  BY <1>1 DEF Dequeued, sendSeq
<1>4. QueueInv'
  <2>1. \A i \in DOMAIN queue' : i + 1 \in DOMAIN queue /\ queue'[i] = queue[i + 1]
    BY <1>1
  <2>2. Len(queue') <= Len(size')
    BY <1>1 DEF QueueInv
  <2>3. ASSUME NEW i \in DOMAIN queue' PROVE queue'[i] = Dequeued' + i
    <3>1. i \in Nat /\ queue[i + 1] = Dequeued + (i + 1)
      BY <1>1, <2>1 DEF QueueInv
    <3> QED
      BY <1>2, <1>3, <2>1, <3>1
  <2> QED
    BY <2>2, <2>3 DEF QueueInv
<1> QED
  BY <1>1, <1>2, <1>3, <1>4 DEF TakeMessage

(* The table without the entry of this message, or with room for one.      *)
Found == \E i \in DOMAIN Live : Live[i].id = rx.id
Place == CHOOSE i \in DOMAIN Live : Live[i].id = rx.id
OldParts == IF Found THEN Live[Place].parts ELSE <<>>
Rest == IF Found THEN RemoveAt(Live, Place) ELSE Room(Live)
AllParts == WithPart(rx, OldParts)

LEMMA LiveIs ==
  ASSUME DataTypeOK
  PROVE  /\ Live \in Seq(Entries) /\ Len(Live) = Len(table) - expired /\ Len(Live) <= MaxPartials
         /\ \A i \in DOMAIN Live : i + expired \in DOMAIN table /\ Live[i] = table[i + expired]
<1>1. table \in Seq(Entries) /\ expired \in 0 .. Len(table) /\ Len(table) <= MaxPartials
  BY DEF DataTypeOK
<1> QED
  BY <1>1, Numbers DEF Live

LEMMA RestIs ==
  ASSUME DataTypeOK, TableInv
  PROVE  /\ Rest \in Seq(Entries) /\ Len(Rest) < MaxPartials
         /\ \A i \in DOMAIN Rest : Rest[i] \in Range(table) /\ Rest[i].id # rx.id
         /\ \A i, j \in DOMAIN Rest : Rest[i].id = Rest[j].id => i = j
<1>1. /\ Live \in Seq(Entries) /\ Len(Live) <= MaxPartials
      /\ \A i \in DOMAIN Live : i + expired \in DOMAIN table /\ Live[i] = table[i + expired]
  BY LiveIs
<1>2. expired \in Nat /\ MaxPartials \in Nat \ {0}
  BY Numbers DEF DataTypeOK
<1>3. \A i, j \in DOMAIN Live : Live[i].id = Live[j].id => i = j
  <2> SUFFICES ASSUME NEW i \in DOMAIN Live, NEW j \in DOMAIN Live, Live[i].id = Live[j].id PROVE i = j
    OBVIOUS
  <2>1. i + expired = j + expired
    BY <1>1 DEF TableInv
  <2> QED
    BY <1>1, <1>2, <2>1
<1>4. \A i \in DOMAIN Live : Live[i] \in Range(table)
  BY <1>1 DEF Range
<1>5. CASE Found
  <2>1. Place \in DOMAIN Live /\ Live[Place].id = rx.id /\ Rest = RemoveAt(Live, Place)
    BY <1>5 DEF Found, Place, Rest
  <2> DEFINE r == RemoveAt(Live, Place)
             old(i) == IF i < Place THEN i ELSE i + 1
  <2>2. r \in Seq(Entries) /\ Len(r) = Len(Live) - 1 /\ \A i \in DOMAIN r : r[i] = Live[old(i)]
    BY <1>1, <2>1, RemoveAtIs
  <2> HIDE DEF r
  <2>3. \A i \in DOMAIN r : old(i) \in DOMAIN Live /\ old(i) # Place
    BY <1>1, <2>1, <2>2
  <2>4. \A i, j \in DOMAIN r : old(i) = old(j) => i = j
    BY <1>1, <2>1, <2>2
  <2> HIDE DEF old
  <2>5. \A i \in DOMAIN r : r[i] \in Range(table) /\ r[i].id # rx.id
    BY <1>3, <1>4, <2>1, <2>2, <2>3
  <2>6. \A i, j \in DOMAIN r : r[i].id = r[j].id => i = j
    BY <1>3, <2>2, <2>3, <2>4
  <2>7. Len(r) < MaxPartials
    BY <1>1, <1>2, <2>2
  <2> QED
    BY <2>1, <2>2, <2>5, <2>6, <2>7 DEF r
<1>6. CASE ~Found
  <2>1. Rest = Room(Live) /\ \A i \in DOMAIN Live : Live[i].id # rx.id
    BY <1>6 DEF Found, Rest
  <2>2. CASE Len(Live) < MaxPartials
    BY <1>1, <1>2, <1>3, <1>4, <2>1, <2>2 DEF Room
  <2>3. CASE Len(Live) >= MaxPartials
    <3>1. Rest = Tail(Live) /\ Live # <<>>
      BY <1>1, <1>2, <2>1, <2>3 DEF Room
    <3>2. Rest \in Seq(Entries) /\ Len(Rest) = Len(Live) - 1
      BY <1>1, <3>1
    <3>3. \A i \in DOMAIN Rest : i \in Nat /\ i + 1 \in DOMAIN Live /\ Rest[i] = Live[i + 1]
      BY <1>1, <3>1, <3>2
    <3>4. \A i \in DOMAIN Rest : Rest[i] \in Range(table) /\ Rest[i].id # rx.id
      BY <1>4, <2>1, <3>3
    <3>5. ASSUME NEW i \in DOMAIN Rest, NEW j \in DOMAIN Rest, Rest[i].id = Rest[j].id PROVE i = j
      <4>1. i + 1 = j + 1
        BY <1>3, <3>3, <3>5
      <4> QED
        BY <3>3, <4>1
    <3>6. Len(Rest) < MaxPartials
      BY <1>1, <1>2, <3>2
    <3> QED
      BY <3>2, <3>4, <3>5, <3>6
  <2> QED
    BY <1>1, <1>2, <2>2, <2>3
<1> QED
  BY <1>5, <1>6

(* What a part joins: the parts before it of the same message.             *)
LEMMA PartsAre ==
  ASSUME DataTypeOK, HeaderInv, TableInv, rx # None, rx.total > 0
  PROVE  /\ rx \in Headers /\ HeaderOk(rx)
         /\ \A i \in DOMAIN OldParts : OldParts[i] = rx.m /\ i \in Nat /\ i < rx.idx
         /\ AllParts = [i \in DOMAIN OldParts \cup {rx.idx} |-> rx.m]
         /\ AllParts \in UNION {[S -> Messages] : S \in SUBSET (0 .. (SendParts - 1))}
<1>1. rx \in Headers /\ rx \in Incoming /\ HeaderOk(rx)
  BY DEF DataTypeOK, HeaderInv, Incoming
<1>2. /\ DOMAIN OldParts \subseteq 0 .. (SendParts - 1)
      /\ \A i \in DOMAIN OldParts : OldParts[i] = rx.m /\ i < rx.idx
  <2>1. CASE Found
    <3>1. Place \in DOMAIN Live /\ Live[Place].id = rx.id /\ OldParts = Live[Place].parts
      BY <2>1 DEF Found, Place, OldParts
    <3>2. Live[Place] \in Range(table) /\ Live[Place] \in Entries
      BY <3>1, LiveIs DEF Range
    <3>3. DOMAIN OldParts \subseteq 0 .. (SendParts - 1)
      BY <3>1, <3>2 DEF Entries
    <3> QED
      BY <1>1, <3>1, <3>2, <3>3 DEF TableInv
  <2>2. CASE ~Found
    BY <2>2 DEF OldParts
  <2> QED
    BY <2>1, <2>2
<1>3. AllParts = [i \in DOMAIN OldParts \cup {rx.idx} |-> rx.m]
  BY <1>2 DEF AllParts, WithPart
<1>4. rx.idx \in 0 .. (SendParts - 1) /\ rx.m \in Messages
  BY <1>1, Numbers DEF HeaderOk, Headers
<1>5. DOMAIN OldParts \cup {rx.idx} \in SUBSET (0 .. (SendParts - 1))
  BY <1>2, <1>4
<1>6. AllParts \in [DOMAIN OldParts \cup {rx.idx} -> Messages]
  BY <1>3, <1>4
<1>7. AllParts \in UNION {[S -> Messages] : S \in SUBSET (0 .. (SendParts - 1))}
  BY <1>5, <1>6
<1> QED
  BY <1>1, <1>2, <1>3, <1>7, Numbers

(* A message that is delivered is later than all before it.                *)
LEMMA DeliverIs ==
  ASSUME DataTypeOK, HeaderInv, GotInv, InOrder, rx # None, Deliver(rx.m, rx.seq)
  PROVE  got' = Append(got, rx.m) /\ got' \in Seq(Messages) /\ recvSeq' = rx.m /\ InOrder'
<1>1. /\ rx \in Headers /\ rx \in Incoming /\ rx.m \in Messages /\ rx.seq + 1 = rx.m
      /\ got \in Seq(Messages) /\ rx.m \in Nat /\ rx.m > 0 /\ \A i \in DOMAIN got : got[i] \in Nat
  <2>1. rx \in Headers /\ rx \in Incoming /\ HeaderOk(rx) /\ got \in Seq(Messages)
    BY DEF DataTypeOK, HeaderInv, Incoming
  <2>2. rx.m \in Messages /\ \A m \in Messages : m \in Nat /\ m > 0
    BY <2>1, Numbers DEF Headers, Messages
  <2> QED
    BY <2>1, <2>2 DEF HeaderOk
<1>2. \A i \in DOMAIN got : got[i] < rx.m
  BY <1>1 DEF GotInv
<1>3. recvSeq < rx.m /\ recvSeq' = rx.m
  <2>1. recvSeq = IF got = <<>> THEN 0 ELSE got[Len(got)]
    BY DEF InOrder, Last
  <2>2. got # <<>> => Len(got) \in DOMAIN got
    BY <1>1
  <2>3. recvSeq < rx.m
    BY <1>1, <1>2, <2>1, <2>2
  <2>4. recvSeq' = IF rx.seq + 1 > recvSeq THEN rx.seq + 1 ELSE recvSeq
    BY DEF Deliver
  <2>5. recvSeq \in Nat
    BY DEF DataTypeOK
  <2> QED
    BY <1>1, <2>3, <2>4, <2>5
<1>4. /\ got' = Append(got, rx.m) /\ got' \in Seq(Messages) /\ Len(got') = Len(got) + 1
      /\ got'[Len(got')] = rx.m /\ \A i \in DOMAIN got : got'[i] = got[i]
  BY <1>1 DEF Deliver
<1>5. ASSUME NEW i \in DOMAIN got' PROVE got'[i] # 0 /\ (i > 1 => got'[i - 1] < got'[i])
  <2>1. CASE i \in DOMAIN got
    <3>1. i > 1 => i - 1 \in DOMAIN got
      BY <1>1, <2>1
    <3> QED
      BY <1>4, <2>1, <3>1 DEF InOrder
  <2>2. CASE i \notin DOMAIN got
    <3>1. i = Len(got') /\ (i > 1 => i - 1 \in DOMAIN got)
      BY <1>1, <1>4, <2>2
    <3> QED
      BY <1>1, <1>2, <1>4, <3>1
  <2> QED
    BY <2>1, <2>2
<1>6. recvSeq' = IF got' = <<>> THEN 0 ELSE Last(got')
  BY <1>3, <1>4 DEF Last
<1> QED
  BY <1>3, <1>4, <1>5, <1>6 DEF InOrder

Entry == [id |-> rx.id, total |-> rx.total, parts |-> AllParts]
Complete == 0 .. (rx.total - 1) \subseteq DOMAIN AllParts

LEMMA CollectIs ==
  ASSUME DataTypeOK, HeaderInv, TableInv, rx # None, rx.total > 0, Collect(rx)
  PROVE  /\ expired' = 0 /\ harmed' = harmed \cup UNION {Range(table[i].parts) : i \in 1 .. expired}
         /\ \/ Complete /\ table' = Rest /\ Deliver(rx.m, rx.seq)
            \/ ~Complete /\ table' = Append(Rest, Entry) /\ UNCHANGED <<got, recvSeq>>
            \/ ~Found /\ rx.total > RecvParts /\ table' = Rest /\ UNCHANGED <<got, recvSeq>>
<1>1. expired' = 0 /\ harmed' = harmed \cup UNION {Range(table[i].parts) : i \in 1 .. expired}
  BY DEF Collect
<1>2. Found => Add(rx, OldParts, Rest)
  BY DEF Collect, Found, Place, OldParts, Rest
<1>3. ~Found => \/ rx.total > RecvParts /\ table' = Rest /\ UNCHANGED <<got, recvSeq>>
                \/ Add(rx, OldParts, Rest)
  BY DEF Collect, Found, OldParts, Rest
<1>4. ASSUME Add(rx, OldParts, Rest), Complete PROVE table' = Rest /\ Deliver(rx.m, rx.seq)
  <2>1. AllParts = [i \in DOMAIN OldParts \cup {rx.idx} |-> rx.m] /\ rx \in Headers
    BY PartsAre
  <2>2. 0 \in DOMAIN AllParts /\ rx.m \in Messages
    BY <1>4, <2>1 DEF Complete, Headers
  <2>3. Joined(AllParts) = rx.m
    BY <2>1, <2>2 DEF Joined
  <2> QED
    BY <1>4, <2>3 DEF Add, AllParts, Complete
<1>5. ASSUME Add(rx, OldParts, Rest), ~Complete
      PROVE  table' = Append(Rest, Entry) /\ UNCHANGED <<got, recvSeq>>
  BY <1>5 DEF Add, AllParts, Complete, Entry
<1> QED
  BY <1>1, <1>2, <1>3, <1>4, <1>5

(* The table after a part, and what it was before.                         *)
LEMMA TableAfter ==
  ASSUME DataTypeOK, HeaderInv, TableInv, rx # None, rx.total > 0, Collect(rx)
  PROVE  /\ table' \in Seq(Entries) /\ Len(table') <= MaxPartials
         /\ \A i, j \in DOMAIN table' : table'[i].id = table'[j].id => i = j
         /\ \A e \in Range(table') : e \in Range(table) \/ (e = Entry /\ ~Complete)
<1>1. /\ Rest \in Seq(Entries) /\ Len(Rest) < MaxPartials
      /\ \A i \in DOMAIN Rest : Rest[i] \in Range(table) /\ Rest[i].id # rx.id
      /\ \A i, j \in DOMAIN Rest : Rest[i].id = Rest[j].id => i = j
  BY RestIs
<1>2. CASE table' = Rest
  BY <1>1, <1>2, Numbers DEF Range
<1>3. CASE ~Complete /\ table' = Append(Rest, Entry)
  <2>1. Entry \in Entries /\ Entry.id = rx.id
    BY PartsAre DEF Entry, Entries, Headers
  <2>2. /\ table' \in Seq(Entries) /\ Len(table') = Len(Rest) + 1 /\ table'[Len(Rest) + 1] = Entry
        /\ \A i \in DOMAIN Rest : table'[i] = Rest[i]
        /\ \A i \in DOMAIN table' : i \in DOMAIN Rest \/ i = Len(Rest) + 1
    BY <1>1, <1>3, <2>1
  <2>3. Len(table') <= MaxPartials
    BY <1>1, <2>2, Numbers
  <2>4. \A i, j \in DOMAIN table' : table'[i].id = table'[j].id => i = j
    BY <1>1, <2>1, <2>2
  <2>5. \A e \in Range(table') : e \in Range(table) \/ e = Entry
    BY <1>1, <2>2 DEF Range
  <2> QED
    BY <1>3, <2>2, <2>3, <2>4, <2>5
<1> QED
  BY <1>2, <1>3, CollectIs

LEMMA IncomingAre ==
  ASSUME DataTypeOK, HeaderInv
  PROVE  \A f \in Incoming : f \in Headers /\ HeaderOk(f) /\ f.m \in 1 .. Dequeued /\ f.id \in Nat
<1> SUFFICES ASSUME NEW f \in Incoming
             PROVE  f \in Headers /\ HeaderOk(f) /\ f.m \in 1 .. Dequeued /\ f.id \in Nat
  OBVIOUS
<1>1. f \in Headers
  <2>1. Pipe \in Seq(Cells)
    BY PipeIs
  <2>2. \A i \in DOMAIN Pipe : Pipe[i] \in Cells
    BY <2>1
  <2>3. \A c \in Cells : c.f \in Headers
    BY DEF Cells
  <2> QED
    BY <2>2, <2>3 DEF Incoming, DataTypeOK
<1>2. HeaderOk(f) /\ f.m \in Nat /\ f.m >= 1 /\ f.m <= Dequeued /\ f.id \in Nat
  BY <1>1, Numbers DEF Headers, Messages, HeaderInv, HeaderOk
<1>3. Dequeued \in Int
  BY DEF Dequeued, DataTypeOK
<1> QED
  BY <1>1, <1>2, <1>3

(* Steps after which no other frames are incoming than before.             *)
SameSizes == Dequeued' >= Dequeued /\ \A m \in 1 .. Dequeued : size'[m] = size[m]

LEMMA FewerIncoming ==
  ASSUME DataTypeOK, HeaderInv, GotInv, SameSizes, fragId' \in Nat, fragId' >= fragId,
         Dequeued' \in Int, Incoming' \subseteq Incoming
  PROVE  /\ HeaderInv'
         /\ got' = got => GotInv'
         /\ TableInv /\ table' = table => TableInv'
<1>a. Dequeued \in Int /\ fragId \in Nat
  BY DEF Dequeued, DataTypeOK
<1>1. \A f \in Incoming : f \in Headers /\ f.m \in 1 .. Dequeued /\ f.id \in Nat
  BY IncomingAre
<1>2. \A f \in Incoming : HeaderOk(f)'
  <2> SUFFICES ASSUME NEW f \in Incoming PROVE HeaderOk(f)'
    OBVIOUS
  <2>1. f.m \in 1 .. Dequeued /\ HeaderOk(f) /\ f.id \in Nat
    BY <1>1 DEF HeaderInv
  <2>2. size'[f.m] = size[f.m] /\ f.m <= Dequeued'
    BY <1>a, <2>1 DEF SameSizes
  <2>3. f.total > 0 => f.id \in 1 .. fragId'
    BY <1>a, <2>1 DEF HeaderOk
  <2> QED
    BY <2>1, <2>2, <2>3 DEF HeaderOk
<1>3. HeaderInv'
  BY <1>2 DEF HeaderInv
<1>4. ASSUME got' = got PROVE GotInv'
  <2>1. \A i \in DOMAIN got : got[i] \in Nat
    BY Numbers DEF DataTypeOK, Messages
  <2> QED
    BY <1>4, <1>a, <2>1 DEF GotInv, SameSizes
<1>5. ASSUME TableInv, table' = table PROVE TableInv'
  <2>1. \A e \in Range(table) : e.id \in Nat /\ \A i \in DOMAIN e.parts : e.parts[i] \in Nat
    BY EntriesAre DEF DataTypeOK, Range
  <2> QED
    BY <1>5, <1>a, <2>1 DEF TableInv, SameSizes
<1> QED
  BY <1>3, <1>4, <1>5

(* Steps that leave the pipe and both loops' work alone.                   *)
LEMMA Quiet ==
  ASSUME DataInv, SameSizes, Dequeued' = Dequeued, Pipe' = Pipe,
         UNCHANGED <<rx, table, got, recvSeq, fragId>>, harmed \subseteq harmed',
         closed["rcv"] => closed'["rcv"], thread'["snd"] = "loop" => thread["snd"] = "loop"
  PROVE  HeaderInv' /\ PipeInv' /\ GotInv' /\ TableInv' /\ InOrder' /\ KeptInv'
<1>1. Incoming' = Incoming
  BY DEF Incoming
<1>2. HeaderInv' /\ GotInv' /\ TableInv' /\ InOrder'
  <2>1. Dequeued \in Int /\ fragId \in Nat
    BY DEF DataInv, DataTypeOK, Dequeued
  <2> QED
    BY <1>1, <2>1, FewerIncoming DEF DataInv, InOrder
<1>3. PipeInv'
  BY DEF DataInv, PipeInv
<1>4. ASSUME NEW m \in 1 .. Dequeued, NEW n, Left(m, n) PROVE Left(m, n)'
  <2>1. Parts(m)' = Parts(m)
    BY DEF Parts, SameSizes
  <2>2. \A k, idx : OnItsWay(k, m, idx)' <=> OnItsWay(k, m, idx)
    BY DEF OnItsWay
  <2> QED
    BY <1>1, <1>4, <2>1, <2>2 DEF Left
<1>5. KeptInv'
  <2> SUFFICES ASSUME ~closed'["rcv"], NEW m \in 1 .. Dequeued
               PROVE  \/ m \in harmed' \cup Range(got) \/ size'[m] > RecvParts
                      \/ \E n \in 0 .. SendParts : Left(m, n)'
    BY DEF KeptInv, SameSizes
  <2>1. m \in harmed \cup Range(got) \/ size[m] > RecvParts \/ \E n \in 0 .. SendParts : Left(m, n)
    BY DEF DataInv, KeptInv
  <2> QED
    BY <1>4, <2>1 DEF SameSizes
<1> QED
  BY <1>2, <1>3, <1>5

LEMMA QuietSteps ==
  ASSUME DataInv,
         \/ \E n \in Sizes : Send(n)
         \/ Transmit \/ Expire
         \/ \E e \in Ends : Close(e) \/ LoopEnds(e) \/ \E who \in {"app", "loop"} : FinishClose(e, who)
         \/ UNCHANGED dataVars
  PROVE  DataInv'
<1> DEFINE Rest6 == HeaderInv' /\ PipeInv' /\ GotInv' /\ TableInv' /\ InOrder' /\ KeptInv'
<1>1. ASSUME NEW n \in Sizes, Send(n) PROVE DataInv'
  <2>1. /\ size \in Seq(Sizes) /\ queue \in Seq(Messages) /\ sendSeq < MaxMessages
        /\ size' = Append(size, n) /\ queue' = Append(queue, sendSeq + 1)
        /\ UNCHANGED <<fragId, tx, wire, rx, table, expired, recvSeq, got, harmed, thread, closing, closed, calls>>
    BY <1>1 DEF DataInv, DataTypeOK, Send, receiver, life
  <2>2. sendSeq + 1 \in Messages /\ Len(size') <= MaxMessages
    BY <2>1, Numbers DEF sendSeq, Messages
  <2>3. DataTypeOK'
    BY <2>1, <2>2 DEF DataInv, DataTypeOK
  <2>4. Len(size') = Len(size) + 1 /\ Len(queue') = Len(queue) + 1 /\ Dequeued' = Dequeued /\ Dequeued \in Nat
    BY <2>1, <2>2 DEF Dequeued, DataInv, QueueInv
  <2>5. \A i \in DOMAIN size : size'[i] = size[i]
    BY <2>1
  <2>6. Dequeued <= Len(size)
    BY <2>1 DEF Dequeued
  <2>7. SameSizes /\ Dequeued' = Dequeued
    BY <2>1, <2>4, <2>5, <2>6 DEF SameSizes
  <2>8. ASSUME NEW i \in DOMAIN queue' PROVE queue'[i] = Dequeued' + i
    <3>1. CASE i \in DOMAIN queue
      BY <2>1, <2>2, <2>4, <3>1 DEF DataInv, QueueInv
    <3>2. CASE i \notin DOMAIN queue
      BY <2>1, <2>2, <2>4, <3>2 DEF sendSeq, Dequeued
    <3> QED
      BY <3>1, <3>2
  <2>9. QueueInv'
    BY <2>1, <2>4, <2>8 DEF DataInv, QueueInv
  <2>10. Pipe' = Pipe
    BY <2>1 DEF Pipe
  <2>11. Rest6
    BY <2>1, <2>7, <2>10, Quiet
  <2> QED
    BY <2>3, <2>9, <2>11 DEF DataInv
<1>2. CASE Transmit
  <2>1. /\ tx # <<>> /\ tx' = Tail(tx) /\ wire' = Append(wire, Head(tx))
        /\ UNCHANGED <<size, queue, fragId, rx, table, expired, recvSeq, got, harmed, thread, closing, closed, calls>>
    BY <1>2 DEF Transmit, receiver, life
  <2>2. Pipe' = Pipe
    BY <2>1, Moved DEF DataInv
  <2>3. SameSizes /\ Dequeued' = Dequeued /\ QueueInv'
    BY <2>1 DEF SameSizes, Dequeued, DataInv, QueueInv
  <2>4. DataTypeOK'
    <3>1. tx \in Seq(Cells) /\ wire \in Seq(Cells)
      BY DEF DataInv, DataTypeOK
    <3>2. tx' \in Seq(Cells) /\ wire' \in Seq(Cells)
      BY <2>1, <3>1
    <3> QED
      BY <2>1, <3>2 DEF DataInv, DataTypeOK
  <2>5. Rest6
    BY <2>1, <2>2, <2>3, Quiet
  <2> QED
    BY <2>3, <2>4, <2>5 DEF DataInv
<1>3. CASE Expire
  <2>1. /\ expired' \in (expired + 1) .. Len(table)
        /\ UNCHANGED <<size, queue, fragId, tx, wire, rx, table, recvSeq, got, harmed, thread, closing, closed, calls>>
    BY <1>3 DEF Expire, sender, life
  <2>2. DataTypeOK' /\ Pipe' = Pipe /\ SameSizes /\ Dequeued' = Dequeued /\ QueueInv'
    BY <2>1 DEF DataInv, DataTypeOK, Pipe, SameSizes, Dequeued, QueueInv
  <2>3. Rest6
    BY <2>1, <2>2, Quiet
  <2> QED
    BY <2>2, <2>3 DEF DataInv
<1>4. ASSUME NEW e \in Ends, Close(e) \/ LoopEnds(e) \/ \E who \in {"app", "loop"} : FinishClose(e, who)
      PROVE  DataInv'
  <2>1. UNCHANGED <<size, queue, fragId, tx, wire, rx, table, expired, recvSeq, got, harmed>>
    BY <1>4 DEF Close, LoopEnds, FinishClose, sender, receiver
  <2>2. /\ thread' \in [Ends -> {"loop", "ended", "dead"}] /\ closed' \in [Ends -> BOOLEAN]
        /\ closing' \subseteq Ends \X {"app", "loop"} /\ calls' \in [Ends -> Nat]
    <3>1. CASE Close(e)
      BY <3>1 DEF Close, DataInv, DataTypeOK
    <3>2. CASE LoopEnds(e)
      BY <3>2 DEF LoopEnds, DataInv, DataTypeOK
    <3>3. ASSUME NEW who \in {"app", "loop"}, FinishClose(e, who)
          PROVE  /\ thread' = thread /\ closed' \in [Ends -> BOOLEAN]
                 /\ closing' \subseteq Ends \X {"app", "loop"} /\ calls' \in [Ends -> Nat]
      <4>1. calls[e] + 1 \in Nat
        BY DEF DataInv, DataTypeOK
      <4> QED
        BY <3>3, <4>1 DEF FinishClose, DataInv, DataTypeOK
    <3> QED
      BY <1>4, <3>1, <3>2, <3>3 DEF DataInv, DataTypeOK
  <2>3. closed["rcv"] => closed'["rcv"]
    BY <1>4 DEF Close, LoopEnds, FinishClose, DataInv, DataTypeOK, Ends
  <2>4. thread'["snd"] = "loop" => thread["snd"] = "loop"
    BY <1>4 DEF Close, LoopEnds, FinishClose, DataInv, DataTypeOK, Ends
  <2>5. DataTypeOK' /\ Pipe' = Pipe /\ SameSizes /\ Dequeued' = Dequeued /\ QueueInv'
    BY <2>1, <2>2 DEF DataInv, DataTypeOK, Pipe, SameSizes, Dequeued, QueueInv
  <2>6. Rest6
    BY <2>1, <2>3, <2>4, <2>5, Quiet
  <2> QED
    BY <2>5, <2>6 DEF DataInv
<1>5. CASE UNCHANGED dataVars
  <2>1. UNCHANGED <<size, queue, fragId, tx, wire, rx, table, expired, recvSeq, got, harmed,
                    thread, closing, closed, calls>>
    BY <1>5 DEF dataVars
  <2>2. DataTypeOK' /\ Pipe' = Pipe /\ SameSizes /\ Dequeued' = Dequeued /\ QueueInv'
    BY <2>1 DEF DataInv, DataTypeOK, Pipe, SameSizes, Dequeued, QueueInv
  <2>3. Rest6
    BY <2>1, <2>2, Quiet
  <2> QED
    BY <2>2, <2>3 DEF DataInv
<1> QED
  BY <1>1, <1>2, <1>3, <1>4, <1>5

(* A message that is taken comes after all that is in the pipe, under an   *)
(* id that nothing has.                                                    *)
LEMMA Extended ==
  ASSUME DataInv, NEW m \in DOMAIN size, NEW seq \in Nat, NEW id \in Nat,
         tx = <<>>, wire' = wire, tx' = Frames(m, seq, id)
  PROVE  /\ Pipe \in Seq(Cells) /\ Pipe' \in Seq(Cells) /\ Len(Pipe') = Len(Pipe) + 3 * Parts(m)
         /\ \A i \in DOMAIN Pipe : i \in DOMAIN Pipe' /\ Pipe'[i] = Pipe[i]
         /\ \A idx \in 0 .. (Parts(m) - 1), p \in 1 .. 3 :
              /\ Len(Pipe) + 3 * idx + p \in DOMAIN Pipe'
              /\ Pipe'[Len(Pipe) + 3 * idx + p] = [k |-> Kinds[p], f |-> Header(m, seq, id, idx)]
         /\ \A i \in DOMAIN Pipe' : i \in DOMAIN Pipe \/
              \E idx \in 0 .. (Parts(m) - 1), p \in 1 .. 3 : i = Len(Pipe) + 3 * idx + p
<1> DEFINE F == Frames(m, seq, id)
           n == Parts(m)
<1>1. wire \in Seq(Cells) /\ Pipe = wire /\ Pipe' = wire \o F
  BY DEF DataInv, DataTypeOK, Pipe
<1>2. /\ F \in Seq(Cells) /\ Len(F) = 3 * n
      /\ \A idx \in 0 .. (n - 1), p \in 1 .. 3 :
              /\ 3 * idx + p \in DOMAIN F
              /\ F[3 * idx + p] = [k |-> Kinds[p], f |-> Header(m, seq, id, idx)]
      /\ \A c \in DOMAIN F : \E idx \in 0 .. (n - 1), p \in 1 .. 3 : c = 3 * idx + p
  BY FramesAre DEF DataInv
<1>3. n \in Nat
  BY Numbers DEF DataInv, DataTypeOK, Parts
<1> HIDE DEF F, n
<1>4. /\ Pipe' \in Seq(Cells) /\ Len(Pipe') = Len(Pipe) + 3 * n
      /\ \A i \in DOMAIN Pipe : i \in DOMAIN Pipe' /\ Pipe'[i] = Pipe[i]
      /\ \A c \in DOMAIN F : Len(Pipe) + c \in DOMAIN Pipe' /\ Pipe'[Len(Pipe) + c] = F[c]
      /\ \A i \in DOMAIN Pipe' : i \in DOMAIN Pipe \/ \E c \in DOMAIN F : i = Len(Pipe) + c
  <2>a. wire \o F \in Seq(Cells) /\ Len(wire \o F) = Len(wire) + Len(F)
    <3>1. wire \in Seq(Cells) /\ F \in Seq(Cells)
      BY <1>1, <1>2
    <3> QED
      BY <3>1, ConcatProperties
  <2>1. Pipe' \in Seq(Cells) /\ Len(Pipe') = Len(Pipe) + 3 * n
    BY <1>1, <1>2, <2>a
  <2>2. \A i \in DOMAIN Pipe : i \in DOMAIN Pipe' /\ Pipe'[i] = Pipe[i]
    BY <1>1, <1>2, <1>3
  <2>3. \A c \in DOMAIN F : Len(Pipe) + c \in DOMAIN Pipe' /\ Pipe'[Len(Pipe) + c] = F[c]
    BY <1>1, <1>2, <1>3
  <2>4. ASSUME NEW i \in DOMAIN Pipe', i \notin DOMAIN Pipe PROVE \E c \in DOMAIN F : i = Len(Pipe) + c
    <3>1. i - Len(Pipe) \in DOMAIN F /\ i = Len(Pipe) + (i - Len(Pipe))
      BY <1>1, <1>2, <1>3, <2>1, <2>4
    <3> QED
      BY <3>1
  <2> QED
    BY <2>1, <2>2, <2>3, <2>4
<1>5. Len(Pipe) \in Nat
  BY <1>1
<1>6. ASSUME NEW idx \in 0 .. (n - 1), NEW p \in 1 .. 3
      PROVE  /\ Len(Pipe) + 3 * idx + p \in DOMAIN Pipe'
             /\ Pipe'[Len(Pipe) + 3 * idx + p] = [k |-> Kinds[p], f |-> Header(m, seq, id, idx)]
  <2>1. Len(Pipe) + (3 * idx + p) = Len(Pipe) + 3 * idx + p
    BY <1>3, <1>5
  <2>2. 3 * idx + p \in DOMAIN F /\ F[3 * idx + p] = [k |-> Kinds[p], f |-> Header(m, seq, id, idx)]
    BY <1>2
  <2> QED
    BY <1>4, <2>1, <2>2
<1>7. ASSUME NEW i \in DOMAIN Pipe', i \notin DOMAIN Pipe
      PROVE  \E idx \in 0 .. (n - 1), p \in 1 .. 3 : i = Len(Pipe) + 3 * idx + p
  <2>1. PICK c \in DOMAIN F : i = Len(Pipe) + c
    BY <1>4, <1>7
  <2>2. PICK idx \in 0 .. (n - 1), p \in 1 .. 3 : c = 3 * idx + p
    BY <1>2
  <2>3. i = Len(Pipe) + 3 * idx + p
    BY <1>3, <1>5, <2>1, <2>2
  <2> QED
    BY <2>3
<1> QED
  BY <1>1, <1>4, <1>6, <1>7 DEF n

LEMMA TakeKeeps ==
  ASSUME DataInv, TakeMessage
  PROVE  DataInv'
<1> DEFINE m == Dequeued + 1
           n == Parts(m)
           id == NextId(m)
           H(idx) == Header(m, Dequeued, id, idx)
<1>1. /\ m \in DOMAIN size /\ Dequeued \in Nat /\ Dequeued' = m /\ QueueInv'
      /\ size' = size /\ queue' \in Seq(Messages)
      /\ tx = <<>> /\ wire' = wire /\ thread["snd"] = "loop"
      /\ IF size[m] > SendParts
         THEN thread' = [thread EXCEPT !["snd"] = "dead"] /\ tx' = tx /\ fragId' = fragId
         ELSE /\ thread' = thread /\ fragId' = id /\ tx' = Frames(m, Dequeued, id)
  BY TakeIs DEF DataInv
<1>2. UNCHANGED <<size, wire, rx, table, expired, recvSeq, got, harmed, closing, closed, calls>>
  BY DEF TakeMessage, receiver
<1>3. /\ size \in Seq(Sizes) /\ size[m] \in Nat /\ n \in Nat /\ n >= 1 /\ fragId \in Nat /\ SameSizes
      /\ id \in Nat /\ id >= fragId /\ (size[m] > 0 => id = fragId + 1) /\ m <= Len(size)
  BY <1>1, <1>2, Numbers DEF DataInv, DataTypeOK, Parts, NextId, SameSizes
<1>4. InOrder'
  BY <1>2 DEF DataInv, InOrder
<1>5. CASE size[m] > SendParts
  <2>1. Pipe' = Pipe /\ Incoming' = Incoming /\ fragId' = fragId /\ thread'["snd"] = "dead"
    BY <1>1, <1>2, <1>5 DEF Pipe, Incoming, DataInv, DataTypeOK, Ends
  <2>2. HeaderInv' /\ GotInv' /\ TableInv'
    BY <1>1, <1>2, <1>3, <2>1, FewerIncoming DEF DataInv
  <2>3. PipeInv'
    BY <1>2, <2>1 DEF DataInv, PipeInv
  <2>4. DataTypeOK'
    BY <1>1, <1>2, <1>5 DEF DataInv, DataTypeOK
  <2>5. ASSUME NEW l \in 1 .. Dequeued, NEW k, Left(l, k) PROVE Left(l, k)'
    <3>1. Parts(l)' = Parts(l) /\ \A h, idx : OnItsWay(h, l, idx)' <=> OnItsWay(h, l, idx)
      BY <1>2, <2>1 DEF Parts, OnItsWay
    <3> QED
      BY <1>2, <2>1, <2>5, <3>1 DEF Left
  <2>6. KeptInv'
    <3> SUFFICES ASSUME ~closed["rcv"], NEW l \in 1 .. m
                 PROVE  \/ l \in harmed \cup Range(got) \/ size[l] > RecvParts
                        \/ \E k \in 0 .. SendParts : Left(l, k)'
      BY <1>1, <1>2 DEF KeptInv
    <3>1. CASE l = m
      BY <1>3, <1>5, <3>1, Numbers
    <3>2. CASE l # m
      <4>1. l \in 1 .. Dequeued
        BY <1>1, <3>2
      <4> QED
        BY <2>5, <4>1 DEF DataInv, KeptInv
    <3> QED
      BY <3>1, <3>2
  <2> QED
    BY <1>1, <1>4, <2>2, <2>3, <2>4, <2>6 DEF DataInv
<1>6. CASE ~(size[m] > SendParts)
  <2>1. thread' = thread /\ fragId' = id /\ tx' = Frames(m, Dequeued, id) /\ size[m] <= SendParts
    BY <1>1, <1>3, <1>6, Numbers
  <2> HIDE DEF n
  <2>2. /\ Pipe \in Seq(Cells) /\ Pipe' \in Seq(Cells) /\ Len(Pipe') = Len(Pipe) + 3 * n
        /\ \A i \in DOMAIN Pipe : i \in DOMAIN Pipe' /\ Pipe'[i] = Pipe[i]
        /\ \A idx \in 0 .. (n - 1), p \in 1 .. 3 :
              /\ Len(Pipe) + 3 * idx + p \in DOMAIN Pipe'
              /\ Pipe'[Len(Pipe) + 3 * idx + p] = [k |-> Kinds[p], f |-> H(idx)]
        /\ \A i \in DOMAIN Pipe' : i \in DOMAIN Pipe \/
              \E idx \in 0 .. (n - 1), p \in 1 .. 3 : i = Len(Pipe) + 3 * idx + p
    BY <1>1, <1>3, <2>1, Extended DEF n
  <2> HIDE DEF H, m, id
  <2> DEFINE IsNew(i) == \E idx \in 0 .. (n - 1), p \in 1 .. 3 : i = Len(Pipe) + 3 * idx + p
  <2>3. Incoming' = Incoming \cup {H(idx) : idx \in 0 .. (n - 1)}
    <3>1. ASSUME NEW f \in Incoming' PROVE f \in Incoming \cup {H(idx) : idx \in 0 .. (n - 1)}
      <4>1. CASE f = rx /\ rx # None
        BY <4>1 DEF Incoming
      <4>2. ASSUME NEW i \in DOMAIN Pipe', f = Pipe'[i] . f PROVE f \in Incoming \cup {H(idx) : idx \in 0 .. (n - 1)}
        <5>1. CASE i \in DOMAIN Pipe
          BY <2>2, <4>2, <5>1 DEF Incoming
        <5>2. ASSUME NEW idx \in 0 .. (n - 1), NEW p \in 1 .. 3, i = Len(Pipe) + 3 * idx + p PROVE f = H(idx)
          <6>1. Pipe'[i] = [k |-> Kinds[p], f |-> H(idx)]
            BY <2>2, <5>2
          <6> QED
            BY <4>2, <6>1
        <5> QED
          BY <2>2, <5>1, <5>2
      <4> QED
        BY <1>2, <4>1, <4>2 DEF Incoming
    <3>2. Incoming \subseteq Incoming'
      BY <1>2, <2>2 DEF Incoming
    <3>3. ASSUME NEW idx \in 0 .. (n - 1) PROVE H(idx) \in Incoming'
      <4>1. Len(Pipe) + 3 * idx + 1 \in DOMAIN Pipe' /\ Pipe'[Len(Pipe) + 3 * idx + 1].f = H(idx)
        <5>1. 1 \in 1 .. 3
          OBVIOUS
        <5>2. Pipe'[Len(Pipe) + 3 * idx + 1] = [k |-> Kinds[1], f |-> H(idx)]
          BY <2>2, <5>1
        <5>3. Len(Pipe) + 3 * idx + 1 \in DOMAIN Pipe'
          BY <2>2, <5>1
        <5> QED
          BY <5>2, <5>3
      <4> QED
        BY <4>1 DEF Incoming
    <3> QED
      BY <3>1, <3>2, <3>3
  <2>4. \A f \in Incoming : HeaderOk(f)' /\ f.m \in Nat /\ f.m <= Dequeued /\ f.id \in Nat /\ f.id <= fragId
    <3> SUFFICES ASSUME NEW f \in Incoming
                 PROVE  HeaderOk(f)' /\ f.m \in Nat /\ f.m <= Dequeued /\ f.id \in Nat /\ f.id <= fragId
      OBVIOUS
    <3>1. f \in Headers /\ HeaderOk(f)
      BY IncomingAre DEF DataInv
    <3>2. f.m \in Nat /\ f.m <= Dequeued /\ f.id \in Nat /\ f.id <= fragId /\ f.total \in Nat
      BY <1>3, <3>1, Numbers DEF HeaderOk, Headers, Messages
    <3>3. f.m <= Dequeued' /\ (f.total > 0 => f.id \in 1 .. fragId')
      BY <1>1, <1>3, <2>1, <3>1, <3>2 DEF HeaderOk, m
    <3> QED
      BY <1>2, <3>1, <3>2, <3>3 DEF HeaderOk
  <2>5. \A idx \in 0 .. (n - 1) : \A h :
          h = H(idx) => /\ HeaderOk(h)' /\ h.m = m /\ h.idx = idx /\ h.total = size[m]
                        /\ h.id = IF size[m] = 0 THEN 0 ELSE fragId + 1
    <3> SUFFICES ASSUME NEW idx \in 0 .. (n - 1), NEW h, h = H(idx)
                 PROVE  /\ HeaderOk(h)' /\ h.m = m /\ h.idx = idx /\ h.total = size[m]
                        /\ h.id = IF size[m] = 0 THEN 0 ELSE fragId + 1
      OBVIOUS
    <3>1. h = [m |-> m, seq |-> Dequeued, id |-> IF size[m] = 0 THEN 0 ELSE id, idx |-> idx, total |-> size[m]]
      BY DEF H, Header
    <3>2. size[m] = 0 => idx = 0
      BY <1>3 DEF n, Parts
    <3>3. size[m] > 0 => idx < size[m] /\ id = fragId + 1 /\ fragId' = id
      BY <1>3, <2>1 DEF n, Parts
    <3> QED
      BY <1>1, <1>2, <1>3, <2>1, <3>1, <3>2, <3>3 DEF HeaderOk, m
  <2>6. HeaderInv'
    <3>1. \A f \in Incoming' : HeaderOk(f)'
      BY <2>3, <2>4, <2>5
    <3>2. ASSUME NEW f \in Incoming', NEW g \in Incoming', f.total > 0, g.total > 0
          PROVE  f.id = g.id <=> f.m = g.m
      <4>1. CASE f \in Incoming /\ g \in Incoming
        BY <3>2, <4>1 DEF DataInv, HeaderInv
      <4>2. ASSUME NEW h \in Incoming', h \notin Incoming, h.total > 0
            PROVE  h.m = Dequeued + 1 /\ h.id = fragId + 1
        BY <1>3, <2>3, <2>5, <4>2 DEF m
      <4> QED
        BY <1>1, <1>3, <2>4, <3>2, <4>1, <4>2
    <3> QED
      BY <3>1, <3>2 DEF HeaderInv
  <2>a. \A f \in Incoming' : f \in Incoming \/ (f.m = m /\ (f.total > 0 => f.id = fragId + 1))
    BY <1>3, <2>3, <2>5
  <2>b. /\ \A i \in DOMAIN Pipe : Pipe[i].f \in Incoming /\ i \in Nat /\ i <= Len(Pipe)
        /\ Len(Pipe) \in Nat /\ m = Dequeued + 1 /\ m \in Nat
    BY <1>1, <2>2 DEF Incoming, m
  <2>7. PipeInv'
    <3>1. ASSUME NEW i \in DOMAIN Pipe', NEW j \in DOMAIN Pipe', i < j PROVE Follows(Pipe'[j], Pipe'[i])
      <4>1. CASE i \in DOMAIN Pipe /\ j \in DOMAIN Pipe
        BY <2>2, <3>1, <4>1 DEF DataInv, PipeInv
      <4>2. ASSUME i \in DOMAIN Pipe, NEW idx \in 0 .. (n - 1), NEW p \in 1 .. 3, j = Len(Pipe) + 3 * idx + p
            PROVE  Follows(Pipe'[j], Pipe'[i])
        <5>1. Pipe'[i] = Pipe[i] /\ Pipe[i].f.m <= Dequeued /\ Pipe[i].f.m \in Nat
          BY <2>2, <2>4, <2>b, <4>2
        <5>2. Pipe'[j] = [k |-> Kinds[p], f |-> H(idx)]
          BY <2>2, <4>2
        <5>3. Pipe'[j].f.m = Dequeued + 1
          BY <2>5, <2>b, <5>2
        <5> QED
          BY <1>1, <5>1, <5>3 DEF Follows, Before
      <4>3. ASSUME NEW a \in 0 .. (n - 1), NEW p \in 1 .. 3, i = Len(Pipe) + 3 * a + p,
                   NEW b \in 0 .. (n - 1), NEW q \in 1 .. 3, j = Len(Pipe) + 3 * b + q
            PROVE  Follows(Pipe'[j], Pipe'[i])
        <5>1. a < b \/ (a = b /\ p < q)
          BY <1>3, <2>b, <3>1, <4>3
        <5>2. Pipe'[i] = [k |-> Kinds[p], f |-> H(a)] /\ Pipe'[j] = [k |-> Kinds[q], f |-> H(b)]
          BY <2>2, <4>3
        <5>3. H(a).m = m /\ H(b).m = m /\ H(a).idx = a /\ H(b).idx = b
          BY <2>5
        <5>4. Step(Kinds[p]) = p /\ Step(Kinds[q]) = q
          BY DEF Step, Kinds
        <5> QED
          BY <5>1, <5>2, <5>3, <5>4 DEF Follows, Before
      <4>4. CASE j \in DOMAIN Pipe
        <5>1. i \in DOMAIN Pipe
          BY <2>2, <3>1, <4>4
        <5> QED
          BY <4>1, <4>4, <5>1
      <4>5. CASE j \notin DOMAIN Pipe
        <5>1. PICK b \in 0 .. (n - 1), q \in 1 .. 3 : j = Len(Pipe) + 3 * b + q
          BY <2>2, <4>5
        <5>2. CASE i \in DOMAIN Pipe
          BY <4>2, <5>1, <5>2
        <5>3. CASE i \notin DOMAIN Pipe
          <6>1. PICK a \in 0 .. (n - 1), p \in 1 .. 3 : i = Len(Pipe) + 3 * a + p
            BY <2>2, <5>3
          <6> QED
            BY <4>3, <5>1, <6>1
        <5> QED
          BY <5>2, <5>3
      <4> QED
        BY <4>4, <4>5
    <3>2. ASSUME NEW i \in DOMAIN Pipe', i + 1 \in DOMAIN Pipe', Pipe'[i].k # "body"
          PROVE  Pipe'[i + 1] = After(Pipe'[i])
      <4>1. CASE i \in DOMAIN Pipe
        <5>1. i # Len(Pipe)
          BY <1>1, <2>2, <3>2, <4>1 DEF DataInv, PipeInv
        <5>2. i + 1 \in DOMAIN Pipe
          BY <2>2, <4>1, <5>1
        <5> QED
          BY <2>2, <3>2, <4>1, <5>2 DEF DataInv, PipeInv
      <4>2. ASSUME NEW idx \in 0 .. (n - 1), NEW p \in 1 .. 3, i = Len(Pipe) + 3 * idx + p
            PROVE  Pipe'[i + 1] = After(Pipe'[i])
        <5>1. Pipe'[i] = [k |-> Kinds[p], f |-> H(idx)]
          BY <2>2, <4>2
        <5>2. p # 3
          BY <3>2, <5>1 DEF Kinds
        <5>3. PICK q \in 1 .. 3 : q = p + 1
          BY <5>2
        <5>4. i + 1 = Len(Pipe) + 3 * idx + q
          BY <1>3, <2>b, <4>2, <5>3
        <5>5. Pipe'[i + 1] = [k |-> Kinds[q], f |-> H(idx)]
          BY <2>2, <5>4
        <5>6. Kinds[q] = IF Kinds[p] = "h1" THEN "h2" ELSE "body"
          BY <5>2, <5>3 DEF Kinds
        <5> QED
          BY <5>1, <5>5, <5>6 DEF After
      <4> QED
        BY <2>2, <4>1, <4>2
    <3>3. Pipe' # <<>> /\ Pipe'[Len(Pipe')].k = "body"
      <4>1. Len(Pipe') = Len(Pipe) + 3 * (n - 1) + 3 /\ n - 1 \in 0 .. (n - 1) /\ 3 \in 1 .. 3
        BY <1>3, <2>2, <2>b
      <4>2. Len(Pipe) + 3 * (n - 1) + 3 \in DOMAIN Pipe'
            /\ Pipe'[Len(Pipe) + 3 * (n - 1) + 3] = [k |-> Kinds[3], f |-> H(n - 1)]
        BY <2>2, <4>1
      <4> QED
        BY <4>1, <4>2 DEF Kinds
    <3>4. rx' # None => Pipe'[1] = Body(rx')
      <4>1. rx # None => Pipe # <<>> /\ Pipe[1] = Body(rx)
        BY <1>1 DEF DataInv, PipeInv
      <4>2. Pipe # <<>> => 1 \in DOMAIN Pipe
        BY <2>2
      <4> QED
        BY <1>2, <2>2, <4>1, <4>2 DEF Body
    <3> QED
      BY <3>1, <3>2, <3>3, <3>4 DEF PipeInv
  <2>8. GotInv'
    <3>1. \A i \in DOMAIN got : got[i] \in Nat /\ got[i] <= Dequeued /\ \A f \in Incoming : got[i] < f.m
      BY Numbers DEF DataInv, GotInv, DataTypeOK, Messages
    <3> QED
      BY <1>1, <1>2, <2>a, <2>b, <3>1 DEF GotInv
  <2>9. TableInv'
    <3>1. \A e \in Range(table) :
            e.id \in Nat /\ e.id <= fragId /\ \A i \in DOMAIN e.parts : e.parts[i] \in Nat /\ e.parts[i] <= Dequeued
      <4>1. \A e \in Range(table) : e \in Entries
        BY DEF DataInv, DataTypeOK, Range
      <4>2. \A e \in Range(table) : e.id <= fragId /\ \A i \in DOMAIN e.parts : e.parts[i] <= Dequeued
        BY DEF DataInv, TableInv
      <4> QED
        BY <4>1, <4>2, EntriesAre
    <3>2. ASSUME NEW e \in Range(table), NEW i \in DOMAIN e.parts, NEW f \in Incoming'
          PROVE  e.parts[i] <= f.m /\ (f.total > 0 /\ f.id = e.id => e.parts[i] = f.m /\ i < f.idx)
      <4>1. CASE f \in Incoming
        BY <4>1 DEF DataInv, TableInv
      <4>2. CASE f.m = m /\ (f.total > 0 => f.id = fragId + 1)
        BY <1>1, <1>3, <2>b, <3>1, <4>2
      <4> QED
        BY <2>a, <4>1, <4>2
    <3> QED
      BY <1>1, <1>2, <1>3, <2>1, <2>b, <3>1, <3>2 DEF DataInv, TableInv
  <2>10. KeptInv'
    <3>1. ASSUME NEW l \in 1 .. Dequeued, NEW k, Left(l, k) PROVE Left(l, k)'
      <4>1. Parts(l)' = Parts(l) /\ \A h, idx : OnItsWay(h, l, idx) => OnItsWay(h, l, idx)'
        BY <1>2, <2>2 DEF Parts, OnItsWay
      <4>2. \A f \in Incoming' : f.m = l => f \in Incoming
        BY <1>1, <2>a, <2>b
      <4> QED
        BY <1>2, <3>1, <4>1, <4>2 DEF Left
    <3>2. \A l : (l = m => Left(l, 0)')
      <4> SUFFICES ASSUME NEW l, l = m PROVE Left(l, 0)'
        OBVIOUS
      <4>1. Parts(l)' = n
        BY <1>2 DEF Parts, n
      <4>2. ASSUME NEW idx \in 0 .. (n - 1), NEW p \in 1 .. 3
            PROVE  OnItsWay(Kinds[p], l, idx)'
        <5>1. PICK i \in DOMAIN Pipe' : i = Len(Pipe) + 3 * idx + p
          BY <2>2
        <5>2. Pipe'[i] = [k |-> Kinds[p], f |-> H(idx)]
          BY <2>2, <5>1
        <5>3. Pipe'[i].k = Kinds[p] /\ Pipe'[i].f.m = l /\ Pipe'[i].f.idx = idx
          BY <2>5, <5>2
        <5> QED
          BY <5>3 DEF OnItsWay
      <4>3. \A idx \in 0 .. (n - 1) : OnItsWay("h1", l, idx)' /\ OnItsWay("body", l, idx)'
        <5>1. Kinds[1] = "h1" /\ Kinds[3] = "body" /\ 1 \in 1 .. 3 /\ 3 \in 1 .. 3
          BY DEF Kinds
        <5> QED
          BY <4>2, <5>1
      <4> QED
        BY <1>3, <4>1, <4>3 DEF Left
    <3> SUFFICES ASSUME ~closed["rcv"], NEW l \in 1 .. m
                 PROVE  \/ l \in harmed \cup Range(got) \/ size[l] > RecvParts
                        \/ \E k \in 0 .. SendParts : Left(l, k)'
      BY <1>1, <1>2, <2>b DEF KeptInv
    <3>3. CASE l = m
      BY <3>2, <3>3, Numbers
    <3>4. CASE l # m
      <4>1. l \in 1 .. Dequeued
        BY <1>1, <2>b, <3>4
      <4> QED
        BY <3>1, <4>1 DEF DataInv, KeptInv
    <3> QED
      BY <3>3, <3>4
  <2>11. DataTypeOK'
    <3>1. tx' \in Seq(Cells)
      BY <1>1, <1>3, <2>1, FramesAre DEF DataInv
    <3> QED
      BY <1>1, <1>2, <1>3, <2>1, <3>1 DEF DataInv, DataTypeOK
  <2> QED
    BY <1>1, <1>4, <2>6, <2>7, <2>8, <2>9, <2>10, <2>11 DEF DataInv
<1> QED
  BY <1>5, <1>6

(* What is lost is marked as harmed, the rest is where it was.             *)
LEMMA Lost ==
  ASSUME DataInv, Dequeued' = Dequeued, UNCHANGED <<size, table, got, closed>>, harmed \subseteq harmed',
         Incoming' \subseteq Incoming,
         \A i \in DOMAIN Pipe : Pipe[i].f.m \in harmed' \/ \E j \in DOMAIN Pipe' : Pipe'[j] = Pipe[i],
         rx' = rx \/ rx.m \in harmed'
  PROVE  KeptInv'
<1>1. ASSUME NEW m \in 1 .. Dequeued, m \notin harmed', NEW n, Left(m, n) PROVE Left(m, n)'
  <2>1. Parts(m)' = Parts(m)
    BY DEF Parts
  <2>2. \A k, idx : OnItsWay(k, m, idx) => OnItsWay(k, m, idx)'
    <3> SUFFICES ASSUME NEW k, NEW idx, OnItsWay(k, m, idx) PROVE OnItsWay(k, m, idx)'
      OBVIOUS
    <3>1. PICK i \in DOMAIN Pipe : Pipe[i].k = k /\ Pipe[i].f.m = m /\ Pipe[i].f.idx = idx
      BY DEF OnItsWay
    <3>2. PICK j \in DOMAIN Pipe' : Pipe'[j] = Pipe[i]
      BY <1>1, <3>1
    <3> QED
      BY <3>1, <3>2 DEF OnItsWay
  <2>3. rx.m = m => rx' = rx
    BY <1>1
  <2>4. \A f \in Incoming' : f.m = m => f \in Incoming
    OBVIOUS
  <2> QED
    BY <1>1, <2>1, <2>2, <2>3, <2>4 DEF Left
<1> SUFFICES ASSUME ~closed["rcv"], NEW m \in 1 .. Dequeued
             PROVE  \/ m \in harmed' \cup Range(got) \/ size[m] > RecvParts
                    \/ \E n \in 0 .. SendParts : Left(m, n)'
  BY DEF KeptInv
<1>2. m \in harmed \cup Range(got) \/ size[m] > RecvParts \/ \E n \in 0 .. SendParts : Left(m, n)
  BY DEF DataInv, KeptInv
<1> QED
  BY <1>1, <1>2

(* What is left of the pipe is as it was.                                  *)
LEMMA PipeDropped ==
  ASSUME DataInv, NEW n \in 0 .. Len(wire), wire' = SubSeq(wire, n + 1, Len(wire)),
         tx' = tx, thread' = thread,
         rx' # None => /\ Pipe' # <<>> => Pipe'[1] = Body(rx')
                       /\ thread["snd"] = "loop" => Pipe' # <<>>
  PROVE  PipeInv'
<1>1. /\ Pipe' \in Seq(Cells) /\ Len(Pipe') = Len(Pipe) - n /\ Pipe \in Seq(Cells) /\ n \in Nat
      /\ \A i \in DOMAIN Pipe' : i + n \in DOMAIN Pipe /\ Pipe'[i] = Pipe[i + n]
  <2>1. DataTypeOK /\ n \in Nat
    BY DEF DataInv, DataTypeOK
  <2> QED
    BY <2>1, Dropped, PipeIs
<1>2. ASSUME NEW i \in DOMAIN Pipe', NEW j \in DOMAIN Pipe', i < j PROVE Follows(Pipe'[j], Pipe'[i])
  <2>1. i + n < j + n
    BY <1>1, <1>2
  <2>2. Follows(Pipe[j + n], Pipe[i + n])
    BY <1>1, <2>1 DEF DataInv, PipeInv
  <2> QED
    BY <1>1, <2>2
<1>3. ASSUME NEW i \in DOMAIN Pipe', i + 1 \in DOMAIN Pipe', Pipe'[i].k # "body"
      PROVE  Pipe'[i + 1] = After(Pipe'[i])
  <2>1. PICK j \in DOMAIN Pipe : j = i + n
    BY <1>1
  <2>2. j + 1 = (i + 1) + n
    BY <1>1, <2>1
  <2>3. j + 1 \in DOMAIN Pipe /\ Pipe'[i + 1] = Pipe[j + 1] /\ Pipe'[i] = Pipe[j]
    BY <1>1, <1>3, <2>1, <2>2
  <2> QED
    BY <1>3, <2>3 DEF DataInv, PipeInv
<1>4. ASSUME thread["snd"] = "loop", Pipe' # <<>> PROVE Pipe'[Len(Pipe')].k = "body"
  <2>1. Len(Pipe') \in DOMAIN Pipe' /\ Len(Pipe') + n = Len(Pipe) /\ Pipe # <<>>
    BY <1>1, <1>4
  <2> QED
    BY <1>1, <1>4, <2>1 DEF DataInv, PipeInv
<1> QED
  BY <1>2, <1>3, <1>4 DEF PipeInv

(* A cell that was written and is not read, or not to be written, is lost. *)
LEMMA TransmitFailsKeeps ==
  ASSUME DataInv, TransmitFails
  PROVE  DataInv'
<1>1. /\ tx # <<>> /\ tx' = <<>> /\ harmed' = harmed \cup {c.f.m : c \in Range(tx)}
      /\ thread' = [thread EXCEPT !["snd"] = "ended"]
      /\ closing' = IF closed["snd"] THEN closing ELSE closing \cup {<<"snd", "loop">>}
      /\ UNCHANGED <<size, queue, fragId, wire, rx, table, expired, recvSeq, got, closed, calls>>
  BY DEF TransmitFails, receiver
<1>2. /\ wire \in Seq(Cells) /\ tx \in Seq(Cells) /\ fragId \in Nat
      /\ Dequeued' = Dequeued /\ Dequeued \in Int /\ SameSizes
  BY <1>1 DEF DataInv, DataTypeOK, Dequeued, SameSizes
<1>3. /\ Pipe \in Seq(Cells) /\ Len(Pipe) = Len(wire) + Len(tx) /\ Pipe' = wire
      /\ \A i \in DOMAIN wire : i \in DOMAIN Pipe /\ Pipe[i] = wire[i]
  <2>1. Pipe' = wire
    BY <1>1, <1>2 DEF Pipe
  <2> QED
    BY <2>1, PipeIs DEF DataInv
<1>4. DataTypeOK'
  <2>1. \A c \in Cells : c.f.m \in Messages
    BY DEF Cells, Headers
  <2>2. {c.f.m : c \in Range(tx)} \subseteq Messages
    BY <1>2, <2>1 DEF Range
  <2>3. thread' \in [Ends -> {"loop", "ended", "dead"}] /\ closing' \subseteq Ends \X {"app", "loop"}
    BY <1>1 DEF DataInv, DataTypeOK, Ends
  <2> QED
    BY <1>1, <2>2, <2>3 DEF DataInv, DataTypeOK
<1>5. Incoming' \subseteq Incoming
  BY <1>1, <1>3 DEF Incoming
<1>6. HeaderInv' /\ GotInv' /\ TableInv'
  BY <1>1, <1>2, <1>5, FewerIncoming DEF DataInv
<1>7. PipeInv'
  <2>1. thread'["snd"] # "loop"
    BY <1>1 DEF DataInv, DataTypeOK, Ends
  <2>2. wire # <<>> => 1 \in DOMAIN wire /\ Pipe # <<>>
    BY <1>2, <1>3
  <2>3. \A i \in DOMAIN wire : i \in DOMAIN Pipe /\ Pipe[i] = wire[i]
    BY <1>3
  <2> QED
    BY <1>1, <1>3, <2>1, <2>2, <2>3 DEF DataInv, PipeInv
<1>8. KeptInv'
  <2>1. ASSUME NEW i \in DOMAIN Pipe
        PROVE  Pipe[i].f.m \in harmed' \/ \E j \in DOMAIN Pipe' : Pipe'[j] = Pipe[i]
    <3>1. CASE i <= Len(wire)
      BY <1>2, <1>3, <3>1
    <3>2. CASE i > Len(wire)
      <4>1. i - Len(wire) \in DOMAIN tx /\ Pipe[i] = tx[i - Len(wire)]
        BY <1>2, <1>3, <3>2 DEF Pipe
      <4> QED
        BY <1>1, <4>1 DEF Range
    <3> QED
      BY <1>2, <1>3, <3>1, <3>2
  <2> QED
    BY <1>1, <1>2, <1>5, <2>1, Lost
<1> QED
  BY <1>1, <1>2, <1>4, <1>6, <1>7, <1>8 DEF DataInv, QueueInv, InOrder

(* A timeout, or bytes that are no header: the cells that were read are    *)
(* gone.                                                                   *)
LEMMA CellsLost ==
  ASSUME DataInv, NEW n \in 0 .. Len(wire), wire' = SubSeq(wire, n + 1, Len(wire)),
         \A i \in 1 .. n : Pipe[i].f.m \in harmed', harmed \subseteq harmed', harmed' \subseteq Messages,
         rx' = None, rx = None \/ rx.m \in harmed',
         UNCHANGED <<size, queue, fragId, tx, table, expired, recvSeq, got, thread, closing, closed, calls>>
  PROVE  DataInv'
<1>1. /\ Pipe' \in Seq(Cells) /\ Len(Pipe') = Len(Pipe) - n /\ Pipe \in Seq(Cells) /\ n \in Nat
      /\ \A i \in DOMAIN Pipe' : i + n \in DOMAIN Pipe /\ Pipe'[i] = Pipe[i + n]
  <2>1. DataTypeOK /\ n \in Nat
    BY DEF DataInv, DataTypeOK
  <2> QED
    BY <2>1, Dropped, PipeIs
<1>2. Dequeued' = Dequeued /\ Dequeued \in Int /\ fragId \in Nat /\ SameSizes
  BY DEF DataInv, DataTypeOK, Dequeued, SameSizes
<1>3. Incoming' \subseteq Incoming
  BY <1>1 DEF Incoming
<1>4. HeaderInv' /\ GotInv' /\ TableInv'
  BY <1>2, <1>3, FewerIncoming DEF DataInv
<1>5. PipeInv'
  BY PipeDropped
<1>6. KeptInv'
  <2>1. ASSUME NEW i \in DOMAIN Pipe, Pipe[i].f.m \notin harmed' PROVE \E j \in DOMAIN Pipe' : Pipe'[j] = Pipe[i]
    <3>1. i - n \in DOMAIN Pipe' /\ (i - n) + n = i
      BY <1>1, <2>1
    <3> QED
      BY <1>1, <3>1
  <2>2. rx' = rx \/ rx.m \in harmed'
    OBVIOUS
  <2> QED
    BY <1>2, <1>3, <2>1, <2>2, Lost
<1>7. DataTypeOK'
  <2>1. wire' \in Seq(Cells)
    BY DEF DataInv, DataTypeOK
  <2> QED
    BY <2>1 DEF DataInv, DataTypeOK
<1> QED
  BY <1>2, <1>4, <1>5, <1>6, <1>7 DEF DataInv, QueueInv, InOrder

LEMMA TimeoutsKeep ==
  ASSUME DataInv, HeaderTimeout \/ BodyTimeout
  PROVE  DataInv'
<1>1. wire \in Seq(Cells) /\ \A c \in Cells : c.f.m \in Messages
  BY DEF DataInv, DataTypeOK, Cells, Headers
<1>2. CASE HeaderTimeout
  <2>1. /\ rx = None /\ Len(wire) = 1 /\ wire' = <<>> /\ harmed' = harmed \cup MessagesOf(wire)
        /\ UNCHANGED <<size, queue, fragId, tx, rx, table, expired, recvSeq, got, thread, closing, closed, calls>>
    BY <1>2 DEF HeaderTimeout, sender, receiver, life
  <2>2. wire' = SubSeq(wire, 1 + 1, Len(wire)) /\ 1 \in 0 .. Len(wire)
    BY <1>1, <2>1
  <2>3. Pipe[1] = wire[1] /\ wire[1].f.m \in MessagesOf(wire)
    BY <1>1, <2>1, PipeIs DEF DataInv, MessagesOf, Range
  <2>4. harmed' \subseteq Messages
    <3>1. MessagesOf(wire) \subseteq Messages
      BY <1>1 DEF MessagesOf, Range
    <3> QED
      BY <2>1, <3>1 DEF DataInv, DataTypeOK
  <2>5. \A i \in 1 .. 1 : Pipe[i].f.m \in harmed'
    BY <2>1, <2>3
  <2> QED
    BY <2>1, <2>2, <2>4, <2>5, CellsLost
<1>3. CASE BodyTimeout
  <2>1. /\ rx # None /\ wire = <<>> /\ rx' = None /\ harmed' = harmed \cup {rx.m}
        /\ UNCHANGED <<size, queue, fragId, tx, wire, table, expired, recvSeq, got, thread, closing, closed, calls>>
    BY <1>3 DEF BodyTimeout, sender, life
  <2>2. wire' = SubSeq(wire, 0 + 1, Len(wire)) /\ 0 \in 0 .. Len(wire)
    BY <1>1, <2>1
  <2>3. harmed' \subseteq Messages
    BY <2>1 DEF DataInv, DataTypeOK, Headers
  <2>4. \A i \in 1 .. 0 : Pipe[i].f.m \in harmed'
    OBVIOUS
  <2> QED
    BY <2>1, <2>2, <2>3, <2>4, CellsLost
<1> QED
  BY <1>2, <1>3

LEMMA ReadHeaderKeeps ==
  ASSUME DataInv, ReadHeader
  PROVE  DataInv'
<1>1. /\ rx = None /\ Len(wire) >= 2 /\ wire' = SubSeq(wire, 2 + 1, Len(wire))
      /\ UNCHANGED <<size, queue, fragId, tx, table, expired, recvSeq, got, thread, closing, closed, calls>>
      /\ IF wire[1].k = "h1"
         THEN rx' = wire[1].f /\ harmed' = harmed
         ELSE harmed' = harmed \cup MessagesOf(SubSeq(wire, 1, 2)) /\ rx' = rx
  BY DEF ReadHeader, sender, life
<1>2. wire \in Seq(Cells) /\ \A c \in Cells : c.f \in Headers /\ c.f.m \in Messages
  BY DEF DataInv, DataTypeOK, Cells, Headers
<1>3. /\ 2 \in 0 .. Len(wire) /\ 1 \in DOMAIN Pipe /\ 2 \in DOMAIN Pipe
      /\ Pipe[1] = wire[1] /\ Pipe[2] = wire[2]
  BY <1>1, <1>2, PipeIs DEF DataInv
<1>4. CASE wire[1].k # "h1"
  <2> DEFINE s == SubSeq(wire, 1, 2)
  <2>1. DOMAIN s = 1 .. 2 /\ \A i \in 1 .. 2 : s[i] = wire[i] /\ wire[i] \in Cells /\ Pipe[i] = wire[i]
    <3>1. DOMAIN s = 1 .. 2 /\ s[1] = wire[1] /\ s[2] = wire[2]
      BY <1>1, <1>2
    <3>2. wire[1] \in Cells /\ wire[2] \in Cells
      BY <1>1, <1>2
    <3>3. \A i \in 1 .. 2 : i = 1 \/ i = 2
      OBVIOUS
    <3> QED
      BY <1>3, <3>1, <3>2, <3>3
  <2> HIDE DEF s
  <2>2. MessagesOf(s) \subseteq Messages /\ \A i \in 1 .. 2 : Pipe[i].f.m \in MessagesOf(s)
    BY <1>2, <2>1 DEF MessagesOf, Range
  <2>3. harmed' = harmed \cup MessagesOf(s) /\ rx' = None
    BY <1>1, <1>4 DEF s
  <2>4. harmed' \subseteq Messages /\ \A i \in 1 .. 2 : Pipe[i].f.m \in harmed'
    BY <2>2, <2>3 DEF DataInv, DataTypeOK
  <2> QED
    BY <1>1, <1>3, <2>3, <2>4, CellsLost
<1>5. CASE wire[1].k = "h1"
  <2>1. rx' = Pipe[1].f /\ rx' \in Headers /\ harmed' = harmed /\ Pipe[1].k = "h1"
    BY <1>1, <1>2, <1>3, <1>5
  <2>2. rx' # None
    <3>1. \A f \in Headers : f # None
      BY Numbers DEF Headers, None, Messages
    <3> QED
      BY <2>1, <3>1
  <2>3. /\ Pipe' \in Seq(Cells) /\ Len(Pipe') = Len(Pipe) - 2 /\ Pipe \in Seq(Cells)
        /\ \A i \in DOMAIN Pipe' : i + 2 \in DOMAIN Pipe /\ Pipe'[i] = Pipe[i + 2]
    BY <1>1, <1>3, Dropped, PipeIs DEF DataInv, DataTypeOK
  <2>4. Pipe[2] = [k |-> "h2", f |-> Pipe[1].f]
    BY <1>3, <2>1 DEF DataInv, PipeInv, After
  <2>5. Pipe' # <<>> => Pipe'[1] = Body(rx')
    <3>1. Pipe' # <<>> => 1 \in DOMAIN Pipe' /\ 3 \in DOMAIN Pipe
      BY <2>3
    <3>2. 3 \in DOMAIN Pipe => Pipe[3] = After(Pipe[2])
      BY <1>3, <2>4 DEF DataInv, PipeInv
    <3> QED
      BY <2>1, <2>3, <2>4, <3>1, <3>2 DEF After, Body
  <2>6. thread["snd"] = "loop" => Pipe' # <<>>
    <3>1. thread["snd"] = "loop" => Pipe[Len(Pipe)].k = "body"
      BY <1>3 DEF DataInv, PipeInv
    <3> QED
      BY <1>3, <2>3, <2>4, <3>1
  <2>7. PipeInv'
    BY <1>1, <1>3, <2>5, <2>6, PipeDropped
  <2>8. Dequeued' = Dequeued /\ Dequeued \in Int /\ fragId \in Nat /\ SameSizes
    BY <1>1 DEF DataInv, DataTypeOK, Dequeued, SameSizes
  <2>9. Incoming' \subseteq Incoming
    BY <1>3, <2>1, <2>3 DEF Incoming
  <2>10. HeaderInv' /\ GotInv' /\ TableInv'
    BY <1>1, <2>8, <2>9, FewerIncoming DEF DataInv
  <2>11. DataTypeOK'
    <3>1. wire' \in Seq(Cells)
      BY <1>1, <1>2
    <3> QED
      BY <1>1, <2>1, <3>1 DEF DataInv, DataTypeOK
  <2>12. ASSUME NEW m \in 1 .. Dequeued, NEW n \in Nat, Left(m, n) PROVE Left(m, n)'
    <3>1. Parts(m)' = Parts(m) /\ Parts(m) \in Nat
      <4>1. m \in DOMAIN size
        BY <2>8, <2>12 DEF DataInv, QueueInv, DataTypeOK, Dequeued
      <4> QED
        BY <1>1, <4>1, Numbers DEF Parts, DataInv, DataTypeOK
    <3>2. ASSUME NEW k, NEW i \in DOMAIN Pipe, Pipe[i].k = k, i # 1, i # 2
          PROVE  \E j \in DOMAIN Pipe' : Pipe'[j] = Pipe[i]
      <4>1. i - 2 \in DOMAIN Pipe' /\ (i - 2) + 2 = i
        BY <2>3, <3>2
      <4> QED
        BY <2>3, <4>1
    <3>3. ASSUME NEW idx, OnItsWay("body", m, idx) PROVE OnItsWay("body", m, idx)'
      <4>1. PICK i \in DOMAIN Pipe : Pipe[i].k = "body" /\ Pipe[i].f.m = m /\ Pipe[i].f.idx = idx
        BY <3>3 DEF OnItsWay
      <4>2. i # 1 /\ i # 2
        BY <2>1, <2>4, <4>1
      <4>3. PICK j \in DOMAIN Pipe' : Pipe'[j] = Pipe[i]
        BY <3>2, <4>2
      <4> QED
        BY <4>1, <4>3 DEF OnItsWay
    <3>4. ASSUME NEW idx, OnItsWay("h1", m, idx)
          PROVE  OnItsWay("h1", m, idx)' \/ (rx'.m = m /\ rx'.idx = idx)
      <4>1. PICK i \in DOMAIN Pipe : Pipe[i].k = "h1" /\ Pipe[i].f.m = m /\ Pipe[i].f.idx = idx
        BY <3>4 DEF OnItsWay
      <4>2. i # 2
        BY <2>4, <4>1
      <4>3. CASE i = 1
        BY <2>1, <4>1, <4>3
      <4>4. CASE i # 1
        <5>1. PICK j \in DOMAIN Pipe' : Pipe'[j] = Pipe[i]
          BY <3>2, <4>2, <4>4
        <5> QED
          BY <4>1, <5>1 DEF OnItsWay
      <4> QED
        BY <4>3, <4>4
    <3>5. n \in n .. (Parts(m) - 1) /\ \A idx \in n .. (Parts(m) - 1) : idx \in Nat /\ idx >= n
      BY <2>12, <3>1 DEF Left
    <3>6. ASSUME rx'.m = m PROVE rx'.idx <= n
      <4>1. OnItsWay("h1", m, n)
        BY <1>1, <2>12, <3>5 DEF Left
      <4>2. PICK i \in DOMAIN Pipe : Pipe[i].k = "h1" /\ Pipe[i].f.m = m /\ Pipe[i].f.idx = n
        BY <4>1 DEF OnItsWay
      <4>3. CASE i = 1
        BY <2>1, <2>12, <4>2, <4>3
      <4>4. CASE i # 1
        <5>a. \A a, b \in DOMAIN Pipe : a < b => Follows(Pipe[b], Pipe[a])
          BY DEF DataInv, PipeInv
        <5>b. 1 < i
          BY <2>3, <4>4
        <5>1. Follows(Pipe[i], Pipe[1])
          BY <1>3, <5>a, <5>b
        <5>2. m \in Nat
          BY <2>8
        <5>3. Pipe[1].f.idx < n \/ Pipe[1].f.idx = n
          BY <2>1, <3>6, <4>2, <5>1, <5>2 DEF Follows, Before
        <5> QED
          BY <2>1, <2>12, <5>3 DEF Headers
      <4> QED
        BY <4>3, <4>4
    <3>7. ASSUME NEW idx \in n .. (Parts(m) - 1)
          PROVE  /\ OnItsWay("body", m, idx)'
                 /\ OnItsWay("h1", m, idx)' \/ (idx = n /\ rx' # None /\ rx'.m = m /\ rx'.idx = n)
      <4>1. OnItsWay("body", m, idx) /\ OnItsWay("h1", m, idx)
        BY <1>1, <2>12 DEF Left
      <4>2. OnItsWay("body", m, idx)'
        BY <3>3, <4>1
      <4>3. CASE rx'.m = m /\ rx'.idx = idx
        <5>1. idx = n
          BY <2>12, <3>5, <3>6, <4>3
        <5> QED
          BY <2>2, <4>2, <4>3, <5>1
      <4> QED
        BY <3>4, <4>1, <4>2, <4>3
    <3>8. n > 0 => \E e \in Range(table) :
            0 .. (n - 1) \subseteq DOMAIN e.parts /\ \A f \in Incoming' : f.m = m => f.id = e.id
      BY <2>9, <2>12 DEF Left
    <3> QED
      BY <1>1, <2>12, <3>1, <3>7, <3>8 DEF Left
  <2>13. KeptInv'
    <3> SUFFICES ASSUME ~closed["rcv"], NEW m \in 1 .. Dequeued
                 PROVE  \/ m \in harmed \cup Range(got) \/ size[m] > RecvParts
                        \/ \E n \in 0 .. SendParts : Left(m, n)'
      BY <1>1, <2>1, <2>8 DEF KeptInv
    <3>1. m \in harmed \cup Range(got) \/ size[m] > RecvParts \/ \E n \in 0 .. SendParts : Left(m, n)
      BY DEF DataInv, KeptInv
    <3>2. \A n \in 0 .. SendParts : n \in Nat
      BY Numbers
    <3> QED
      BY <2>12, <3>1, <3>2
  <2> QED
    BY <1>1, <2>7, <2>8, <2>10, <2>11, <2>13 DEF DataInv, QueueInv, InOrder
<1> QED
  BY <1>4, <1>5

(* What follows a body that is read is of later parts or messages.         *)
LEMMA LaterFrames ==
  ASSUME DataInv, ReadBody
  PROVE  /\ rx # None /\ rx \in Headers /\ rx \in Incoming /\ HeaderOk(rx) /\ rx' = None
         /\ 1 \in DOMAIN Pipe /\ Pipe[1] = Body(rx)
         /\ 1 \in 0 .. Len(wire) /\ wire' = SubSeq(wire, 1 + 1, Len(wire))
         /\ UNCHANGED <<size, queue, fragId, tx, thread, closing, closed, calls>>
         /\ \A i \in DOMAIN Pipe : i # 1 => Before(rx, Pipe[i].f) /\ \E j \in DOMAIN Pipe' : Pipe'[j] = Pipe[i]
         /\ \A f \in Incoming' : f \in Incoming /\ Before(rx, f)
<1>1. /\ rx # None /\ wire # <<>> /\ wire' = Tail(wire) /\ rx' = None
      /\ UNCHANGED <<size, queue, fragId, tx, thread, closing, closed, calls>>
  BY DEF ReadBody, sender, life
<1>2. wire \in Seq(Cells) /\ rx \in Headers /\ rx \in Incoming /\ HeaderOk(rx)
  BY <1>1 DEF DataInv, DataTypeOK, Incoming, HeaderInv
<1>3. 1 \in 0 .. Len(wire) /\ wire' = SubSeq(wire, 1 + 1, Len(wire))
  BY <1>1, <1>2
<1>4. /\ Pipe' \in Seq(Cells) /\ Len(Pipe') = Len(Pipe) - 1 /\ Pipe \in Seq(Cells) /\ 1 <= Len(Pipe)
      /\ \A i \in DOMAIN Pipe' : i + 1 \in DOMAIN Pipe /\ Pipe'[i] = Pipe[i + 1]
  <2>1. DataTypeOK
    BY DEF DataInv
  <2> QED
    BY <1>1, <1>3, <2>1, Dropped, PipeIs
<1>5. 1 \in DOMAIN Pipe /\ Pipe # <<>>
  BY <1>4
<1>6. Pipe[1] = Body(rx)
  BY <1>1, <1>5 DEF DataInv, PipeInv
<1>7. ASSUME NEW i \in DOMAIN Pipe, i # 1
      PROVE  Before(rx, Pipe[i].f) /\ \E j \in DOMAIN Pipe' : Pipe'[j] = Pipe[i]
  <2>1. \A a, b \in DOMAIN Pipe : a < b => Follows(Pipe[b], Pipe[a])
    BY DEF DataInv, PipeInv
  <2>2. 1 < i /\ i - 1 \in DOMAIN Pipe' /\ (i - 1) + 1 = i
    BY <1>4, <1>7
  <2>3. Follows(Pipe[i], Body(rx))
    BY <1>5, <1>6, <2>1, <2>2
  <2>4. \A k : ~(3 < Step(k))
    BY DEF Step
  <2>5. Before(rx, Pipe[i].f)
    BY <2>3, <2>4 DEF Follows, Body, Step
  <2> QED
    BY <1>4, <2>2, <2>5
<1>8. ASSUME NEW f \in Incoming' PROVE f \in Incoming /\ Before(rx, f)
  <2>1. PICK j \in DOMAIN Pipe' : f = Pipe'[j].f
    BY <1>1, <1>8 DEF Incoming
  <2>2. PICK i \in DOMAIN Pipe : i = j + 1 /\ Pipe'[j] = Pipe[i]
    BY <1>4
  <2>3. i # 1
    BY <1>4, <2>2
  <2> QED
    BY <1>7, <2>1, <2>2, <2>3 DEF Incoming
<1> QED
  BY <1>1, <1>2, <1>3, <1>5, <1>6, <1>7, <1>8

(* The body that is read is of the next part of its message, and no other  *)
(* message has a part in the table and others on their way.                *)
LEMMA OnlyOneInParts ==
  ASSUME DataInv, ReadBody, NEW m \in 1 .. Dequeued, NEW n \in Nat, Left(m, n)
  PROVE  /\ m # rx.m => n = 0
         /\ m = rx.m => n = rx.idx
<1>1. /\ rx # None /\ rx \in Headers /\ rx \in Incoming /\ HeaderOk(rx) /\ Pipe[1] = Body(rx)
      /\ \A i \in DOMAIN Pipe : i # 1 => Before(rx, Pipe[i].f)
  BY LaterFrames
<1>2. m \in Nat /\ rx.m \in Nat /\ rx.idx \in Nat /\ Parts(m) \in Nat /\ n < Parts(m) /\ (size[m] = 0 => n = 0)
  <2>1. m \in DOMAIN size /\ m \in Nat
    BY DEF DataInv, QueueInv, DataTypeOK, Dequeued
  <2>2. size[m] \in Nat /\ Parts(m) \in Nat
    BY <2>1, Numbers DEF Parts, DataInv, DataTypeOK
  <2>3. n < Parts(m)
    BY DEF Left
  <2>4. size[m] = 0 => n = 0
    BY <2>3 DEF Parts
  <2>5. rx.m \in Nat /\ rx.idx \in Nat
    BY <1>1, Numbers DEF Headers, Messages
  <2> QED
    BY <2>1, <2>2, <2>3, <2>4, <2>5
<1>3. n \in n .. (Parts(m) - 1)
  BY <1>2
<1>4. ASSUME n > 0
      PROVE  \E e \in Range(table) : /\ e.parts[0] = m /\ 0 .. (n - 1) \subseteq DOMAIN e.parts
                                     /\ \A f \in Incoming : f.m = m => f.id = e.id
  <2>1. PICK e \in Range(table) : /\ 0 .. (n - 1) \subseteq DOMAIN e.parts
                                  /\ \A f \in Incoming : f.m = m => f.id = e.id
    BY <1>4 DEF Left
  <2>2. OnItsWay("body", m, n)
    BY <1>3 DEF Left
  <2>3. PICK f \in Incoming : f.m = m
    BY <2>2 DEF OnItsWay, Incoming
  <2>4. f \in Headers /\ HeaderOk(f) /\ f.id = e.id
    BY <2>1, <2>3, IncomingAre DEF DataInv
  <2>5. size[m] # 0
    BY <1>2, <1>4
  <2>6. f.total > 0
    BY <2>3, <2>4, <2>5 DEF Headers, HeaderOk
  <2>7. 0 \in DOMAIN e.parts
    BY <1>2, <1>4, <2>1
  <2>8. e.parts[0] = m
    BY <2>3, <2>4, <2>6, <2>7 DEF DataInv, TableInv
  <2> QED
    BY <2>1, <2>8
<1>5. ASSUME m # rx.m PROVE n = 0
  <2> SUFFICES ASSUME n > 0 PROVE FALSE
    BY <1>2
  <2>1. PICK e \in Range(table) : e.parts[0] = m /\ 0 .. (n - 1) \subseteq DOMAIN e.parts
    BY <1>4
  <2>2. 0 \in DOMAIN e.parts
    BY <1>2, <2>1
  <2>3. m <= rx.m
    BY <1>1, <2>1, <2>2 DEF DataInv, TableInv
  <2>4. OnItsWay("body", m, n)
    BY <1>3 DEF Left
  <2>5. PICK i \in DOMAIN Pipe : Pipe[i].f.m = m
    BY <2>4 DEF OnItsWay
  <2>6. i # 1
    BY <1>1, <1>5, <2>5 DEF Body
  <2>7. rx.m <= m
    BY <1>1, <1>2, <2>5, <2>6 DEF Before
  <2> QED
    BY <1>2, <1>5, <2>3, <2>7
<1>6. ASSUME m = rx.m PROVE n = rx.idx
  <2>1. OnItsWay("h1", m, n) \/ rx.idx = n
    BY <1>3 DEF Left
  <2> SUFFICES ASSUME OnItsWay("h1", m, n), rx.idx # n PROVE FALSE
    BY <2>1
  <2>2. PICK i \in DOMAIN Pipe : Pipe[i].k = "h1" /\ Pipe[i].f.m = m /\ Pipe[i].f.idx = n
    BY DEF OnItsWay
  <2>3. i # 1
    BY <1>1, <2>2 DEF Body
  <2>4. rx.idx < n
    BY <1>1, <1>2, <1>6, <2>2, <2>3 DEF Before
  <2>5. PICK e \in Range(table) : /\ 0 .. (n - 1) \subseteq DOMAIN e.parts
                                  /\ \A f \in Incoming : f.m = m => f.id = e.id
    BY <1>2, <1>4, <2>4
  <2>6. rx.idx \in DOMAIN e.parts
    BY <1>2, <2>4, <2>5
  <2>7. rx.total > 0
    BY <1>1, <1>2, <1>6, <2>4 DEF HeaderOk, Headers
  <2>8. rx.idx < rx.idx
    BY <1>1, <1>6, <2>5, <2>6, <2>7 DEF DataInv, TableInv
  <2> QED
    BY <1>2, <2>8
<1> QED
  BY <1>5, <1>6

LEMMA ReadBodyKeeps ==
  ASSUME DataInv, ReadBody
  PROVE  DataInv'
<1>1. /\ rx # None /\ rx \in Headers /\ rx \in Incoming /\ HeaderOk(rx) /\ rx' = None
      /\ 1 \in DOMAIN Pipe /\ Pipe[1] = Body(rx)
      /\ 1 \in 0 .. Len(wire) /\ wire' = SubSeq(wire, 1 + 1, Len(wire))
      /\ UNCHANGED <<size, queue, fragId, tx, thread, closing, closed, calls>>
      /\ \A i \in DOMAIN Pipe : i # 1 => Before(rx, Pipe[i].f) /\ \E j \in DOMAIN Pipe' : Pipe'[j] = Pipe[i]
      /\ \A f \in Incoming' : f \in Incoming /\ Before(rx, f)
  BY LaterFrames
<1>2. Dequeued' = Dequeued /\ Dequeued \in Nat /\ fragId \in Nat /\ SameSizes /\ QueueInv'
  BY <1>1 DEF DataInv, DataTypeOK, Dequeued, SameSizes, QueueInv
<1>3. /\ rx.m \in Messages /\ rx.m \in 1 .. Dequeued /\ rx.m \in Nat /\ rx.idx \in Nat /\ rx.total \in Nat
      /\ rx.total = size[rx.m] /\ rx.id \in Nat /\ rx.id <= fragId /\ rx.total <= SendParts
  <2>1. rx.m \in Messages /\ rx.m \in Nat /\ rx.m >= 1 /\ rx.idx \in Nat /\ rx.total \in Nat /\ rx.id \in Nat
    BY <1>1, Numbers DEF Headers, Messages
  <2> QED
    BY <1>1, <1>2, <2>1 DEF HeaderOk
<1>4. /\ rx.total = 0 => Deliver(rx.m, rx.seq) /\ UNCHANGED <<table, expired, harmed>>
      /\ rx.total > 0 => Collect(rx)
  BY <1>3 DEF ReadBody
<1>5. HeaderInv'
  BY <1>1, <1>2, FewerIncoming DEF DataInv
<1>6. PipeInv'
  BY <1>1, PipeDropped
<1>7. rx.total > 0 =>
        /\ expired' = 0 /\ harmed' = harmed \cup UNION {Range(table[i].parts) : i \in 1 .. expired}
        /\ \/ Complete /\ table' = Rest /\ Deliver(rx.m, rx.seq)
           \/ ~Complete /\ table' = Append(Rest, Entry) /\ UNCHANGED <<got, recvSeq>>
           \/ ~Found /\ rx.total > RecvParts /\ table' = Rest /\ UNCHANGED <<got, recvSeq>>
  BY <1>1, <1>4, CollectIs DEF DataInv
<1>8. rx.total > 0 =>
        /\ table' \in Seq(Entries) /\ Len(table') <= MaxPartials
        /\ \A i, j \in DOMAIN table' : table'[i].id = table'[j].id => i = j
        /\ \A e \in Range(table') : e \in Range(table) \/ (e = Entry /\ ~Complete)
  BY <1>1, <1>4, TableAfter DEF DataInv
<1>9. rx.total > 0 =>
        /\ \A i \in DOMAIN OldParts : OldParts[i] = rx.m /\ i \in Nat /\ i < rx.idx
        /\ AllParts = [i \in DOMAIN OldParts \cup {rx.idx} |-> rx.m]
  BY <1>1, PartsAre DEF DataInv
<1>10. Deliver(rx.m, rx.seq) =>
         got' = Append(got, rx.m) /\ got' \in Seq(Messages) /\ recvSeq' = rx.m /\ InOrder'
  BY <1>1, DeliverIs DEF DataInv
<1>11. InOrder' /\ got' \in Seq(Messages) /\ recvSeq' \in Nat
  <2>1. UNCHANGED <<got, recvSeq>> => InOrder' /\ got' \in Seq(Messages) /\ recvSeq' \in Nat
    BY DEF DataInv, DataTypeOK, InOrder
  <2>2. Deliver(rx.m, rx.seq) \/ UNCHANGED <<got, recvSeq>>
    BY <1>3, <1>4, <1>7
  <2> QED
    BY <1>3, <1>10, <2>1, <2>2
<1>12. \A e \in Range(table) : e \in Entries
  BY DEF DataInv, DataTypeOK, Range
<1>13. DataTypeOK'
  <2>1. wire' \in Seq(Cells)
    BY <1>1 DEF DataInv, DataTypeOK
  <2>2. CASE rx.total = 0
    BY <1>1, <1>4, <1>11, <2>1, <2>2 DEF DataInv, DataTypeOK
  <2>3. CASE rx.total > 0
    <3>1. ASSUME NEW i \in 1 .. expired PROVE Range(table[i].parts) \subseteq Messages
      <4>1. table[i] \in Entries
        BY DEF DataInv, DataTypeOK
      <4> QED
        BY <4>1, EntriesAre DEF Range
    <3>2. harmed' \subseteq Messages
      BY <1>7, <2>3, <3>1 DEF DataInv, DataTypeOK
    <3>3. expired' \in 0 .. Len(table')
      BY <1>7, <1>8, <2>3
    <3> QED
      BY <1>1, <1>8, <1>11, <2>1, <2>3, <3>2, <3>3 DEF DataInv, DataTypeOK
  <2> QED
    BY <1>3, <2>2, <2>3
<1>14. GotInv'
  <2>1. \A f \in Incoming : f \in Headers /\ HeaderOk(f) /\ f.m \in Nat /\ f.idx \in Nat /\ f.total \in Nat
    BY IncomingAre, Numbers DEF DataInv, Headers, Messages
  <2>2. CASE UNCHANGED <<got, recvSeq>>
    BY <1>1, <1>2, <2>2 DEF DataInv, GotInv
  <2>3. ASSUME Deliver(rx.m, rx.seq), \A f \in Incoming' : rx.m < f.m PROVE GotInv'
    <3>1. got \in Seq(Messages)
      BY DEF DataInv, DataTypeOK
    <3>2. \A i \in DOMAIN got' : (i \in DOMAIN got /\ got'[i] = got[i]) \/ got'[i] = rx.m
      BY <1>3, <1>10, <2>3, <3>1
    <3> QED
      BY <1>1, <1>2, <1>3, <2>3, <3>2 DEF DataInv, GotInv
  <2>4. CASE rx.total = 0
    <3>1. ASSUME NEW f \in Incoming' PROVE rx.m < f.m
      <4>1. f \in Incoming /\ Before(rx, f) /\ HeaderOk(f)
        BY <1>1, <2>1
      <4>2. f.m = rx.m => f.idx = 0 /\ rx.idx = 0
        BY <1>1, <1>3, <2>4, <4>1 DEF HeaderOk
      <4> QED
        BY <1>3, <2>1, <4>1, <4>2 DEF Before
    <3> QED
      BY <1>4, <2>3, <2>4, <3>1
  <2>5. ASSUME rx.total > 0, Complete, Deliver(rx.m, rx.seq) PROVE GotInv'
    <3>1. rx.total - 1 \in DOMAIN OldParts \cup {rx.idx}
      <4>1. rx.total - 1 \in 0 .. (rx.total - 1)
        BY <1>3, <2>5
      <4>2. DOMAIN AllParts = DOMAIN OldParts \cup {rx.idx}
        BY <1>9, <2>5
      <4> QED
        BY <2>5, <4>1, <4>2 DEF Complete
    <3>2. rx.total - 1 <= rx.idx
      BY <1>3, <1>9, <2>5, <3>1
    <3>3. ASSUME NEW f \in Incoming' PROVE rx.m < f.m
      <4>1. f \in Incoming /\ Before(rx, f) /\ HeaderOk(f) /\ f.idx \in Nat /\ f.m \in Nat
        BY <1>1, <2>1
      <4>2. f.m = rx.m => f.idx < rx.total
        BY <1>3, <2>5, <4>1 DEF HeaderOk
      <4> QED
        BY <1>3, <3>2, <4>1, <4>2 DEF Before
    <3> QED
      BY <2>3, <2>5, <3>3
  <2> QED
    BY <1>3, <1>7, <2>2, <2>4, <2>5
<1>15. TableInv'
  <2>1. \A f \in Incoming : f.m \in Nat /\ f.idx \in Nat
    BY IncomingAre, Numbers DEF DataInv, Headers, Messages
  <2>2. CASE rx.total = 0
    BY <1>1, <1>2, <1>4, <2>2, FewerIncoming DEF DataInv
  <2>3. CASE rx.total > 0
    <3>1. ASSUME NEW e \in Range(table)
          PROVE  /\ e.id <= fragId
                 /\ \A i \in DOMAIN e.parts :
                      /\ e.parts[i] <= Dequeued
                      /\ \A f \in Incoming' : /\ e.parts[i] <= f.m
                                              /\ f.total > 0 /\ f.id = e.id => e.parts[i] = f.m /\ i < f.idx
      BY <1>1 DEF DataInv, TableInv
    <3>2. /\ Entry.id <= fragId
          /\ \A i \in DOMAIN Entry.parts :
               /\ Entry.parts[i] <= Dequeued
               /\ \A f \in Incoming' : /\ Entry.parts[i] <= f.m
                                       /\ f.total > 0 /\ f.id = Entry.id => Entry.parts[i] = f.m /\ i < f.idx
      <4>1. Entry.id = rx.id /\ Entry.parts = AllParts
        BY DEF Entry
      <4>2. ASSUME NEW i \in DOMAIN AllParts PROVE AllParts[i] = rx.m /\ i <= rx.idx /\ i \in Nat
        BY <1>3, <1>9, <2>3
      <4>3. ASSUME NEW f \in Incoming'
            PROVE  rx.m <= f.m /\ (f.total > 0 /\ f.id = rx.id => f.m = rx.m /\ rx.idx < f.idx)
        <5>1. f \in Incoming /\ Before(rx, f)
          BY <1>1
        <5>2. f.total > 0 /\ f.id = rx.id => f.m = rx.m
          BY <1>1, <2>3, <5>1 DEF DataInv, HeaderInv
        <5> QED
          BY <1>3, <2>1, <5>1, <5>2 DEF Before
      <4>4. \A f \in Incoming' : f.idx \in Nat
        BY <1>1, <2>1
      <4> QED
        BY <1>3, <4>1, <4>2, <4>3, <4>4
    <3>3. \A e \in Range(table') : e \in Range(table) \/ e = Entry
      BY <1>8, <2>3
    <3>4. \A i, j \in DOMAIN table' : table'[i].id = table'[j].id => i = j
      BY <1>8, <2>3
    <3> QED
      BY <1>1, <1>2, <3>1, <3>2, <3>3, <3>4 DEF TableInv
  <2> QED
    BY <1>3, <2>2, <2>3
<1>16. KeptInv'
  <2> SUFFICES ASSUME ~closed["rcv"], NEW m \in 1 .. Dequeued
               PROVE  \/ m \in harmed' \cup Range(got') \/ size[m] > RecvParts
                      \/ \E n \in 0 .. SendParts : Left(m, n)'
    BY <1>1, <1>2 DEF KeptInv
  <2>1. \A l \in harmed \cup Range(got) : l \in harmed' \cup Range(got')
    <3>1. harmed \subseteq harmed'
      BY <1>3, <1>4, <1>7
    <3>2. Range(got) \subseteq Range(got')
      <4>1. got \in Seq(Messages)
        BY DEF DataInv, DataTypeOK
      <4>2. Deliver(rx.m, rx.seq) => \A i \in DOMAIN got : i \in DOMAIN got' /\ got'[i] = got[i]
        BY <1>3, <1>10, <4>1
      <4> QED
        BY <1>3, <1>4, <1>7, <4>2 DEF Range
    <3> QED
      BY <3>1, <3>2
  <2> SUFFICES ASSUME NEW n \in 0 .. SendParts, Left(m, n)
               PROVE  \/ m \in harmed' \cup Range(got') \/ size[m] > RecvParts
                      \/ \E l \in 0 .. SendParts : Left(m, l)'
    BY <2>1 DEF DataInv, KeptInv
  <2>2. n \in Nat /\ m \in Nat
    BY <1>2, Numbers
  <2>3. (m # rx.m => n = 0) /\ (m = rx.m => n = rx.idx)
    BY <2>2, OnlyOneInParts
  <2>4. Parts(m)' = Parts(m) /\ Parts(m) \in Nat /\ n < Parts(m)
    <3>1. m \in DOMAIN size
      BY <1>2 DEF DataInv, QueueInv, DataTypeOK, Dequeued
    <3>2. size[m] \in Nat /\ size' = size
      BY <1>1, <3>1, Numbers DEF DataInv, DataTypeOK
    <3>3. Parts(m)' = Parts(m) /\ Parts(m) \in Nat
      BY <3>2 DEF Parts
    <3>4. n < Parts(m)
      BY DEF Left
    <3> QED
      BY <3>3, <3>4
  <2>5. ASSUME NEW k, NEW idx, OnItsWay(k, m, idx), m # rx.m \/ idx # rx.idx PROVE OnItsWay(k, m, idx)'
    <3>1. PICK i \in DOMAIN Pipe : Pipe[i].k = k /\ Pipe[i].f.m = m /\ Pipe[i].f.idx = idx
      BY <2>5 DEF OnItsWay
    <3>2. i # 1
      BY <1>1, <2>5, <3>1 DEF Body
    <3>3. PICK j \in DOMAIN Pipe' : Pipe'[j] = Pipe[i]
      BY <1>1, <3>2
    <3> QED
      BY <3>1, <3>3 DEF OnItsWay
  <2>6. CASE m # rx.m
    <3>1. \A idx \in 0 .. (Parts(m) - 1) : OnItsWay("body", m, idx)' /\ OnItsWay("h1", m, idx)'
      BY <2>3, <2>5, <2>6 DEF Left
    <3>2. Left(m, 0)'
      BY <2>2, <2>3, <2>4, <2>6, <3>1 DEF Left
    <3> QED
      BY <3>2, Numbers
  <2>7. ASSUME m = rx.m, rx.total = 0 PROVE m \in Range(got')
    <3>1. got \in Seq(Messages) /\ got' = Append(got, rx.m)
      BY <1>4, <1>10, <2>7 DEF DataInv, DataTypeOK
    <3>2. Len(got) + 1 \in DOMAIN got' /\ got'[Len(got) + 1] = m
      BY <1>3, <2>7, <3>1
    <3> QED
      BY <3>2 DEF Range
  <2>8. ASSUME m = rx.m, rx.total > 0, Complete, Deliver(rx.m, rx.seq) PROVE m \in Range(got')
    <3>1. got \in Seq(Messages) /\ got' = Append(got, rx.m)
      BY <1>10, <2>8 DEF DataInv, DataTypeOK
    <3>2. Len(got) + 1 \in DOMAIN got' /\ got'[Len(got) + 1] = m
      BY <1>3, <2>8, <3>1
    <3> QED
      BY <3>2 DEF Range
  <2>9. ASSUME m = rx.m, rx.total > 0, ~Complete, table' = Append(Rest, Entry), m \notin harmed'
        PROVE  \E l \in 0 .. SendParts : Left(m, l)'
    <3>1. n = rx.idx /\ Parts(m) = rx.total
      BY <1>3, <2>3, <2>9 DEF Parts
    <3>2. 0 .. (n - 1) \subseteq DOMAIN OldParts
      <4>1. CASE n = 0
        BY <4>1
      <4>2. CASE n > 0
        <5>1. PICK e \in Range(table) : /\ 0 .. (n - 1) \subseteq DOMAIN e.parts
                                        /\ \A f \in Incoming : f.m = m => f.id = e.id
          BY <4>2 DEF Left
        <5>2. e.id = rx.id /\ 0 \in DOMAIN e.parts
          BY <1>1, <2>2, <2>9, <4>2, <5>1
        <5>3. e.parts[0] = m
          BY <1>1, <2>9, <5>2 DEF DataInv, TableInv
        <5>4. PICK i \in DOMAIN table : table[i] = e
          BY DEF Range
        <5>5. table \in Seq(Entries) /\ expired \in 0 .. Len(table)
          BY DEF DataInv, DataTypeOK
        <5>6. i \notin 1 .. expired
          <6> SUFFICES ASSUME i \in 1 .. expired PROVE FALSE
            OBVIOUS
          <6>1. m \in Range(table[i].parts)
            BY <5>2, <5>3, <5>4 DEF Range
          <6>2. m \in harmed'
            BY <1>7, <2>9, <6>1
          <6> QED
            BY <2>9, <6>2
        <5>7. /\ Live \in Seq(Entries) /\ Len(Live) = Len(table) - expired
              /\ \A j \in DOMAIN Live : j + expired \in DOMAIN table /\ Live[j] = table[j + expired]
          BY LiveIs DEF DataInv
        <5>8. PICK j \in DOMAIN Live : j = i - expired
          BY <5>5, <5>6, <5>7
        <5>9. Live[j] = e
          BY <5>4, <5>5, <5>7, <5>8
        <5>10. Found /\ Place \in DOMAIN Live /\ Live[Place].id = rx.id
          BY <5>2, <5>9 DEF Found, Place
        <5>11. Place + expired = i
          BY <5>2, <5>4, <5>7, <5>10 DEF DataInv, TableInv
        <5>12. Live[Place] = e
          BY <5>4, <5>7, <5>10, <5>11
        <5> QED
          BY <5>1, <5>10, <5>12 DEF OldParts
      <4> QED
        BY <2>2, <4>1, <4>2
    <3>3. DOMAIN AllParts = DOMAIN OldParts \cup {n}
      BY <1>9, <2>9, <3>1
    <3>4. 0 .. n \subseteq DOMAIN AllParts
      BY <2>2, <3>2, <3>3
    <3>5. n + 1 < Parts(m)
      BY <1>3, <2>2, <2>4, <2>9, <3>1, <3>4 DEF Complete
    <3>6. PICK l \in 0 .. SendParts : l = n + 1
      BY <1>3, <2>2, <2>4, <3>1, <3>5, Numbers
    <3>7. ASSUME NEW idx \in l .. (Parts(m) - 1) PROVE OnItsWay("body", m, idx)' /\ OnItsWay("h1", m, idx)'
      <4>1. idx \in n .. (Parts(m) - 1) /\ idx # n
        BY <2>2, <2>4, <3>6
      <4> QED
        BY <2>5, <3>1, <4>1 DEF Left
    <3>8. Entry \in Range(table')
      <4>1. Rest \in Seq(Entries)
        BY RestIs DEF DataInv
      <4>2. Len(Rest) + 1 \in DOMAIN table' /\ table'[Len(Rest) + 1] = Entry
        BY <2>9, <4>1
      <4> QED
        BY <4>2 DEF Range
    <3>9. 0 .. (l - 1) \subseteq DOMAIN Entry.parts
      BY <2>2, <3>4, <3>6 DEF Entry
    <3>10. ASSUME NEW f \in Incoming', f.m = m PROVE f.id = Entry.id
      <4>1. f \in Incoming /\ HeaderOk(f)
        BY <1>1 DEF DataInv, HeaderInv
      <4>2. f.total > 0
        BY <1>3, <2>9, <3>10, <4>1 DEF HeaderOk
      <4> QED
        BY <1>1, <2>9, <3>10, <4>1, <4>2 DEF DataInv, HeaderInv, Entry
    <3>11. Left(m, l)'
      BY <2>2, <2>4, <3>5, <3>6, <3>7, <3>8, <3>9, <3>10 DEF Left
    <3> QED
      BY <3>11
  <2>10. CASE m = rx.m
    BY <1>3, <1>7, <2>7, <2>8, <2>9, <2>10
  <2> QED
    BY <2>6, <2>10
<1> QED
  BY <1>2, <1>5, <1>6, <1>11, <1>13, <1>14, <1>15, <1>16 DEF DataInv

LEMMA DataStart == DataInit => DataInv
<1> SUFFICES ASSUME DataInit PROVE DataInv
  OBVIOUS
<1>1. /\ size = <<>> /\ queue = <<>> /\ fragId = 0 /\ tx = <<>> /\ wire = <<>>
      /\ rx = None /\ table = <<>> /\ expired = 0 /\ recvSeq = 0 /\ got = <<>> /\ harmed = {}
      /\ thread = [e \in Ends |-> "loop"] /\ closing = {}
      /\ closed = [e \in Ends |-> FALSE] /\ calls = [e \in Ends |-> 0]
  BY DEF DataInit
<1>2. Dequeued = 0 /\ Pipe = <<>> /\ Incoming = {}
  BY <1>1 DEF Dequeued, Pipe, Incoming
<1>3. DataTypeOK
  BY <1>1, Numbers DEF DataTypeOK
<1>4. QueueInv /\ HeaderInv /\ PipeInv /\ GotInv /\ InOrder /\ KeptInv
  BY <1>1, <1>2 DEF QueueInv, HeaderInv, PipeInv, GotInv, InOrder, KeptInv
<1>5. TableInv
  BY <1>1 DEF TableInv, Range
<1> QED
  BY <1>3, <1>4, <1>5 DEF DataInv

LEMMA DataInductive == DataSpec => []DataInv
<1>1. DataInv /\ [DataNext]_dataVars => DataInv'
  <2> SUFFICES ASSUME DataInv, [DataNext]_dataVars PROVE DataInv'
    OBVIOUS
  <2>1. CASE \/ \E n \in Sizes : Send(n)
             \/ Transmit \/ Expire
             \/ \E e \in Ends : Close(e) \/ LoopEnds(e) \/ \E who \in {"app", "loop"} : FinishClose(e, who)
             \/ UNCHANGED dataVars
    BY <2>1, QuietSteps
  <2>2. CASE TakeMessage
    BY <2>2, TakeKeeps
  <2>3. CASE TransmitFails
    BY <2>3, TransmitFailsKeeps
  <2>4. CASE ReadHeader
    BY <2>4, ReadHeaderKeeps
  <2>5. CASE HeaderTimeout \/ BodyTimeout
    BY <2>5, TimeoutsKeep
  <2>6. CASE ReadBody
    BY <2>6, ReadBodyKeeps
  <2> QED
    BY <2>1, <2>2, <2>3, <2>4, <2>5, <2>6 DEF DataNext
<1> QED
  BY <1>1, DataStart, PTL DEF DataSpec

(* The variables of both ends keep their types; the table never has more   *)
(* than MAX_PARTIALS entries (data_channel.py:256-290).                    *)
THEOREM DataTypeCorrect == DataSpec => []DataTypeOK
<1>1. DataInv => DataTypeOK
  BY DEF DataInv
<1> QED
  BY <1>1, DataInductive, PTL

(* What the receiver is given is in the order it was sent, whole and each  *)
(* message at most once (data_channel.py:217-254, 256-290).                *)
THEOREM MessagesInOrder == DataSpec => []InOrder
<1>1. DataInv => InOrder
  BY DEF DataInv
<1> QED
  BY <1>1, DataInductive, PTL

(* A message of which no byte was lost, and which the receiver takes,      *)
(* reaches on_message or is on its way (data_channel.py:256-290).          *)
THEOREM UnharmedArrive == DataSpec => []DeliveredUnlessHarmed
<1>1. DataInv => DeliveredUnlessHarmed
  <2> SUFFICES ASSUME DataInv, ~closed["rcv"], NEW m \in DOMAIN size
               PROVE  m \in InFlight \cup harmed \/ size[m] > RecvParts \/ m \in Range(got)
    BY DEF DeliveredUnlessHarmed
  <2>1. size \in Seq(Sizes) /\ queue \in Seq(Messages) /\ Len(queue) <= Len(size) /\ m \in 1 .. Len(size)
    BY DEF DataInv, DataTypeOK, QueueInv
  <2>2. CASE m > Dequeued
    <3>1. m - Dequeued \in DOMAIN queue /\ Dequeued + (m - Dequeued) = m
      BY <2>1, <2>2 DEF Dequeued
    <3>2. queue[m - Dequeued] = m
      BY <3>1 DEF DataInv, QueueInv
    <3> QED
      BY <3>1, <3>2 DEF InFlight, Range
  <2>3. CASE m <= Dequeued
    <3>1. m \in 1 .. Dequeued
      BY <2>1, <2>3 DEF Dequeued
    <3>2. m \in harmed \cup Range(got) \/ size[m] > RecvParts \/ \E n \in 0 .. SendParts : Left(m, n)
      BY <3>1 DEF DataInv, KeptInv
    <3>3. ASSUME NEW n \in 0 .. SendParts, Left(m, n) PROVE m \in InFlight
      <4>1. Parts(m) \in Nat /\ n \in Nat
        BY <2>1, Numbers DEF Parts
      <4>2. n \in n .. (Parts(m) - 1)
        BY <3>3, <4>1 DEF Left
      <4>3. OnItsWay("body", m, n)
        BY <3>3, <4>2 DEF Left
      <4>4. PICK i \in DOMAIN Pipe : Pipe[i].f.m = m
        BY <4>3 DEF OnItsWay
      <4> QED
        BY <4>4 DEF InFlight, MessagesOf, Range, Pipe
    <3> QED
      BY <3>2, <3>3
  <2> QED
    BY <2>1, <2>2, <2>3 DEF Dequeued
<1> QED
  BY <1>1, DataInductive, PTL
=============================================================================
