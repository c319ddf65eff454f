-------------------------- MODULE FileConsent_proofs --------------------------
(***************************************************************************)
(* Proofs about ResumeTransfer, and about FileConsent: the window lets     *)
(* files into ResumeTransfer as its specification says, so that what is    *)
(* proved of it holds there, and nothing is let in without an answer or a  *)
(* trust that is listed.                                                   *)
(***************************************************************************)
EXTENDS FileConsent, SequenceTheorems, TLAPS

----------------------------------------------------------------------------
(* The transfer                                                            *)

(* What is in flight has been sent, and nothing is before the offset.      *)
WireInv ==
  \A s \in Slots :
    /\ inflight[s] <= sidx[s]
    /\ spc[s] = "offset" => inflight[s] = 0

(* A handler in the receive loop has a file open; the name it picked is at *)
(* most one past the names that exist, and exists once it has moved there. *)
HandlerInv ==
  \A s \in Slots :
    /\ rpc[s] \in {"mark", "recv", "abort", "close"} => ino[s] # 0
    /\ target[s] <= Len(finals) + 1
    /\ rpc[s] \in {"unlink", "ack", "notify"} => target[s] <= Len(finals)

TypeInv == TypeOK /\ WireInv /\ HandlerInv

(* The offset that _handle_resume answers does not depend on what the      *)
(* sidecar claims: it is the length of .part, capped by the announced size.*)
THEOREM OffsetIgnoresSidecar ==
  ASSUME NEW claimed \in Nat, NEW actual \in Nat, NEW total \in Nat
  PROVE  StartOffset(claimed, actual, total) = Least(actual, total)
BY DEF StartOffset, Least

LEMMA SizeType == \A v \in Versions : Size[v] \in Nat
BY SizeAssumption DEF Versions

LEMMA FirstVersion == 1 \in Versions
BY SizeAssumption DEF Versions

LEMMA SidecarClaim ==
  ASSUME sidecar \in Sidecar, NEW v \in Versions
  PROVE  ReadSidecar(v) \in Nat
BY SizeType DEF Sidecar, NoSidecar, ReadSidecar

LEMMA TypeInvInit == Init => TypeInv
BY FirstVersion, BoundsAssumption
   DEF Init, TypeInv, TypeOK, WireInv, HandlerInv, NoOffer, NoPart, NoSidecar, Sidecar,
       HandlerPc

LEMMA SenderTypeInv ==
  ASSUME TypeInv, NEW s \in Slots, SenderStep(s) \/ AbortSend(s)
  PROVE  TypeInv'
<1> USE DEF TypeInv, wireVars, handlerVars, diskVars
<1>1. CASE SendHeader(s)
  <2>1. TypeOK'
    BY <1>1 DEF SendHeader, GoTo, NoOffer, HandlerPc, TypeOK, WireInv
  <2>2. WireInv'
    BY <1>1 DEF SendHeader, GoTo, NoOffer, TypeOK, WireInv
  <2>3. HandlerInv'
    BY <1>1 DEF SendHeader, GoTo, NoOffer, TypeOK, HandlerInv
  <2> QED
    BY <2>1, <2>2, <2>3
<1>2. CASE RecvOffset(s)
  <2>1. TypeOK'
    <3>1. offer[s] \in Nat
      BY <1>2 DEF RecvOffset, NoOffer, TypeOK
    <3>2. sidx' \in [Slots -> Nat] /\ over' \in [Slots -> Versions]
      BY <1>2, <3>1 DEF RecvOffset, TypeOK
    <3>3. spc' \in [Slots -> {"idle", "offset", "send", "wait"}]
      BY <1>2 DEF RecvOffset, TypeOK
    <3> QED
      BY <1>2, <3>2, <3>3 DEF RecvOffset, TypeOK
  <2>2. WireInv'
    <3>1. offer[s] \in Nat /\ inflight[s] = 0
      BY <1>2 DEF RecvOffset, NoOffer, TypeOK, WireInv
    <3>2. /\ sidx' = [sidx EXCEPT ![s] = offer[s]]
          /\ inflight' = inflight /\ rpc' = rpc
          /\ \A t \in Slots \ {s} : spc'[t] = spc[t]
      BY <1>2 DEF RecvOffset, TypeOK
    <3> QED
      BY <3>1, <3>2 DEF TypeOK, WireInv
  <2>3. HandlerInv'
    BY <1>2 DEF RecvOffset, NoOffer, TypeOK, HandlerInv
  <2> QED
    BY <2>1, <2>2, <2>3
<1>3. CASE SendBlock(s)
  <2>1. /\ sidx' \in [Slots -> Nat] /\ inflight' \in [Slots -> Nat]
        /\ sidx' = [sidx EXCEPT ![s] = sidx[s] + 1]
        /\ inflight' = [inflight EXCEPT ![s] = inflight[s] + 1]
    BY <1>3 DEF SendBlock, TypeOK
  <2>2. WireInv'
    <3>1. spc[s] = "send" /\ spc' = spc /\ rpc' = rpc
      BY <1>3 DEF SendBlock
    <3>2. /\ sidx \in [Slots -> Nat] /\ inflight \in [Slots -> Nat]
          /\ inflight[s] <= sidx[s]
      BY DEF TypeOK, WireInv
    <3> QED
      BY <2>1, <3>1, <3>2 DEF WireInv
  <2>4. TypeOK'
    BY <1>3, <2>1 DEF SendBlock, TypeOK
  <2>3. HandlerInv'
    BY <1>3 DEF SendBlock, TypeOK, HandlerInv
  <2> QED
    BY <2>2, <2>3, <2>4
<1>4. CASE SendEof(s)
  <2>1. TypeOK'
    BY <1>4 DEF SendEof, TypeOK, WireInv
  <2>2. WireInv'
    BY <1>4 DEF SendEof, TypeOK, WireInv
  <2>3. HandlerInv'
    BY <1>4 DEF SendEof, TypeOK, HandlerInv
  <2> QED
    BY <2>1, <2>2, <2>3
<1>5. CASE RecvAck(s)
  <2>1. TypeOK'
    BY <1>5 DEF RecvAck, TypeOK, WireInv
  <2>2. WireInv'
    BY <1>5 DEF RecvAck, TypeOK, WireInv
  <2>3. HandlerInv'
    BY <1>5 DEF RecvAck, TypeOK, HandlerInv
  <2> QED
    BY <2>1, <2>2, <2>3
<1>6. CASE RecvEof(s)
  <2>1. TypeOK'
    BY <1>6 DEF RecvEof, TypeOK, WireInv
  <2>2. WireInv'
    BY <1>6 DEF RecvEof, TypeOK, WireInv
  <2>3. HandlerInv'
    BY <1>6 DEF RecvEof, TypeOK, HandlerInv
  <2> QED
    BY <2>1, <2>2, <2>3
<1>7. CASE AckTimeout(s)
  <2>1. TypeOK'
    BY <1>7 DEF AckTimeout, TypeOK, WireInv
  <2>2. WireInv'
    BY <1>7 DEF AckTimeout, TypeOK, WireInv
  <2>3. HandlerInv'
    BY <1>7 DEF AckTimeout, TypeOK, HandlerInv
  <2> QED
    BY <2>1, <2>2, <2>3
<1>8. CASE AbortSend(s)
  <2>1. TypeOK'
    <3>1. PICK lost \in 0 .. inflight[s] :
            /\ sidx' = [sidx EXCEPT ![s] = @ - lost]
            /\ inflight' = [inflight EXCEPT ![s] = @ - lost]
      BY <1>8 DEF AbortSend
    <3>2. /\ sidx' \in [Slots -> Nat]
          /\ inflight' \in [Slots -> Nat]
      <4>1. /\ sidx \in [Slots -> Nat] /\ inflight \in [Slots -> Nat]
            /\ inflight[s] <= sidx[s]
        BY DEF TypeOK, WireInv
      <4>2. sidx[s] - lost \in Nat /\ inflight[s] - lost \in Nat
        BY <4>1
      <4> QED
        BY <3>1, <4>1, <4>2
    <3>3. spc' \in [Slots -> {"idle", "offset", "send", "wait"}]
      BY <1>8 DEF AbortSend, TypeOK
    <3>4. faults' \in 0 .. MaxFaults
      BY <1>8, BoundsAssumption DEF AbortSend, Fault, TypeOK
    <3>5. UNCHANGED <<source, acked, hver, over, offer, verdict, rpc, recvd, ino, buf,
                     target, content, partIno, finals, sidecar, notified>>
      BY <1>8 DEF AbortSend
    <3> QED
      BY <3>2, <3>3, <3>4, <3>5 DEF TypeOK
  <2>2. WireInv'
    BY <1>8 DEF AbortSend, Fault, TypeOK, WireInv
  <2>3. HandlerInv'
    BY <1>8 DEF AbortSend, Fault, TypeOK, HandlerInv
  <2> QED
    BY <2>1, <2>2, <2>3
<1> QED
  BY <1>1, <1>2, <1>3, <1>4, <1>5, <1>6, <1>7, <1>8 DEF SenderStep

(* A program counter that is set to a proper value stays well typed.       *)
LEMMA PcType ==
  ASSUME rpc \in [Slots -> HandlerPc], NEW s \in Slots, NEW pc \in HandlerPc,
         rpc' = [rpc EXCEPT ![s] = pc]
  PROVE  rpc' \in [Slots -> HandlerPc]
OBVIOUS

(* What refers to files stays well typed when files are only added.        *)
LEMMA DiskGrows ==
  ASSUME TypeOK, content' \in Seq(Seq(Block)), Len(content) <= Len(content'),
         UNCHANGED <<partIno, finals, ino>>
  PROVE  /\ ino' \in [Slots -> 0 .. Len(content')]
         /\ partIno' \in 0 .. Len(content')
         /\ finals' \in Seq(1 .. Len(content'))
BY DEF TypeOK

(* Replacing one element of a sequence keeps its type and its length.      *)
LEMMA UpdateType ==
  ASSUME NEW S, NEW q \in Seq(S), NEW k \in Nat, NEW e, k \in 1 .. Len(q) => e \in S
  PROVE  [q EXCEPT ![k] = e] \in Seq(S) /\ Len([q EXCEPT ![k] = e]) = Len(q)
<1>1. CASE k \in 1 .. Len(q)
  BY <1>1, ExceptSeq
<1>2. CASE k \notin 1 .. Len(q)
  <2>1. q = [q EXCEPT ![k] = e]
    BY <1>2, LenProperties
  <2> QED
    BY <2>1
<1> QED
  BY <1>1, <1>2

(* Appending blocks to one file keeps the disk well typed.                 *)
LEMMA AppendType ==
  ASSUME content \in Seq(Seq(Block)), NEW k \in Nat, NEW b \in Seq(Block),
         content' = [content EXCEPT ![k] = @ \o b]
  PROVE  /\ content' \in Seq(Seq(Block)) /\ Len(content') = Len(content)
<1>1. k \in 1 .. Len(content) => content[k] \in Seq(Block)
  BY ElementOfSeq
<1>2. k \in 1 .. Len(content) => content[k] \o b \in Seq(Block)
  BY <1>1, ConcatProperties
<1> QED
  BY <1>2, UpdateType

(* The next block of a connection that has one in flight.                  *)
LEMMA NextBlockType ==
  ASSUME TypeInv, NEW s \in Slots, inflight[s] > 0
  PROVE  NextBlock(s) \in Block
<1>1. /\ sidx[s] \in Nat /\ inflight[s] \in Nat /\ inflight[s] <= sidx[s]
      /\ over[s] \in Versions
  BY DEF TypeInv, TypeOK, WireInv
<1> QED
  BY <1>1 DEF NextBlock, Block

LEMMA HandlerTypeInv ==
  ASSUME TypeInv, NEW s \in Slots, HandlerStep(s) \/ Refuse(s) \/ RecvTimeout(s)
  PROVE  TypeInv'
<1> USE DEF TypeInv, senderVars, wireVars, diskVars
<1>1. CASE OpenPart(s)
  <2>1. rpc' \in [Slots -> HandlerPc]
    BY <1>1 DEF OpenPart, GoTo, HandlerPc, TypeOK
  <2>2. TypeOK'
    <3> DEFINE fresh == partIno = NoPart
               part == IF fresh THEN Len(content) + 1 ELSE partIno
               actual == IF fresh THEN 0 ELSE Len(content[partIno])
               offset == StartOffset(ReadSidecar(hver[s]), actual, Total(s))
               complete == offset >= Total(s) /\ Total(s) > 0
    <3>1. actual \in Nat /\ Total(s) \in Nat /\ part \in Nat
      BY SizeType DEF TypeOK, Total, NoPart
    <3>2. ReadSidecar(hver[s]) \in Nat
      BY SidecarClaim DEF TypeOK
    <3>3. offset \in Nat
      BY <3>1, <3>2 DEF StartOffset, Least
    <3>4. /\ content' \in Seq(Seq(Block)) /\ Len(content') >= Len(content)
          /\ partIno' = part /\ part \in 1 .. Len(content')
          /\ ino' = [ino EXCEPT ![s] = part]
      BY <1>1 DEF OpenPart, TypeOK, NoPart
    <3>5. /\ ino' \in [Slots -> 0 .. Len(content')]
          /\ partIno' \in 0 .. Len(content')
          /\ finals' \in Seq(1 .. Len(content'))
      BY <1>1, <3>4 DEF OpenPart, TypeOK
    <3>6. /\ recvd' \in [Slots -> Nat]
          /\ offer' \in [Slots -> Nat \cup {NoOffer}]
          /\ verdict' \in [Slots -> {"none", "ok", "no"}]
      BY <1>1, <3>1, <3>3 DEF OpenPart, TypeOK
    <3> QED
      BY <1>1, <2>1, <3>4, <3>5, <3>6 DEF OpenPart, TypeOK
  <2>3. WireInv'
    BY <1>1 DEF OpenPart, GoTo, TypeOK, WireInv
  <2>4. HandlerInv'
    <3>1. ino' = [ino EXCEPT ![s] = ino'[s]] /\ ino'[s] # 0
      BY <1>1 DEF OpenPart, TypeOK, NoPart
    <3>2. UNCHANGED <<target, finals>>
      BY <1>1 DEF OpenPart
    <3>3. \A t \in Slots \ {s} : rpc'[t] = rpc[t]
      BY <1>1 DEF OpenPart, GoTo, TypeOK
    <3>4. rpc'[s] \in {"idle", "mark"}
      BY <1>1 DEF OpenPart, GoTo, TypeOK
    <3> QED
      BY <3>1, <3>2, <3>3, <3>4 DEF TypeOK, HandlerInv
  <2> QED
    BY <2>2, <2>3, <2>4
<1>2. CASE MarkProgress(s)
  <2>1. rpc' \in [Slots -> HandlerPc]
    BY <1>2 DEF MarkProgress, GoTo, WriteSidecar, HandlerPc, TypeOK
  <2>2. TypeOK'
    BY <1>2, <2>1 DEF MarkProgress, GoTo, WriteSidecar, Sidecar, TypeOK
  <2>3. WireInv'
    BY <1>2 DEF MarkProgress, GoTo, WriteSidecar, TypeOK, WireInv
  <2>4. HandlerInv'
    BY <1>2 DEF MarkProgress, GoTo, WriteSidecar, TypeOK, HandlerInv
  <2> QED
    BY <2>2, <2>3, <2>4
<1>3. CASE RecvBlock(s)
  <2>1. rpc' \in [Slots -> HandlerPc]
    BY <1>3 DEF RecvBlock, GoTo, HandlerPc, TypeOK
  <2>2. TypeOK'
    <3>1. NextBlock(s) \in Block
      BY <1>3, NextBlockType DEF RecvBlock
    <3>2. content' \in Seq(Seq(Block)) /\ Len(content') = Len(content)
      <4>1. CASE content' = [content EXCEPT ![ino[s]] = Append(@, NextBlock(s))]
        <5>1. ino[s] \in Nat /\ content \in Seq(Seq(Block))
          BY DEF TypeOK
        <5>2. ino[s] \in 1 .. Len(content) => content[ino[s]] \in Seq(Block)
          BY <5>1, ElementOfSeq
        <5>3. ino[s] \in 1 .. Len(content)
                => Append(content[ino[s]], NextBlock(s)) \in Seq(Block)
          BY <5>2, <3>1, AppendProperties
        <5> QED
          BY <4>1, <5>1, <5>3, UpdateType
      <4>2. CASE content' = content
        BY <4>2 DEF TypeOK
      <4> QED
        BY <1>3, <4>1, <4>2 DEF RecvBlock
    <3>3. buf' \in [Slots -> Seq(Block)]
      <4>1. buf \in [Slots -> Seq(Block)] /\ Append(buf[s], NextBlock(s)) \in Seq(Block)
        BY <3>1, AppendProperties DEF TypeOK
      <4>2. buf' = buf \/ buf' = [buf EXCEPT ![s] = Append(buf[s], NextBlock(s))]
        BY <1>3 DEF RecvBlock
      <4> QED
        BY <4>1, <4>2
    <3>4. /\ inflight' \in [Slots -> Nat] /\ recvd' \in [Slots -> Nat]
      <4>1. /\ inflight[s] - 1 \in Nat /\ recvd[s] + 1 \in Nat
            /\ inflight \in [Slots -> Nat] /\ recvd \in [Slots -> Nat]
        <5>1. inflight \in [Slots -> Nat] /\ recvd \in [Slots -> Nat] /\ inflight[s] > 0
          BY <1>3 DEF RecvBlock, TypeOK
        <5> QED
          BY <5>1
      <4>2. /\ inflight' = [inflight EXCEPT ![s] = inflight[s] - 1]
            /\ recvd' = [recvd EXCEPT ![s] = recvd[s] + 1]
        BY <1>3 DEF RecvBlock
      <4> QED
        BY <4>1, <4>2
    <3>5. UNCHANGED <<senderVars, offer, verdict, ino, target, partIno, finals,
                     sidecar, notified, faults>>
      BY <1>3 DEF RecvBlock
    <3> QED
      BY <2>1, <3>2, <3>3, <3>4, <3>5 DEF TypeOK
  <2>3. WireInv'
    <3>1. /\ sidx \in [Slots -> Nat] /\ inflight \in [Slots -> Nat]
          /\ inflight[s] > 0
          /\ inflight' = [inflight EXCEPT ![s] = inflight[s] - 1]
          /\ UNCHANGED <<sidx, spc>>
      BY <1>3 DEF RecvBlock, TypeOK
    <3> QED
      BY <3>1 DEF WireInv
  <2>4. HandlerInv'
    BY <1>3 DEF RecvBlock, GoTo, TypeOK, HandlerInv
  <2> QED
    BY <2>2, <2>3, <2>4
<1>4. CASE RecvCut(s)
  <2>1. rpc' \in [Slots -> HandlerPc]
    BY <1>4 DEF RecvCut, GoTo, HandlerPc, TypeOK
  <2>2. TypeOK'
    BY <1>4, <2>1 DEF RecvCut, GoTo, TypeOK
  <2>3. WireInv'
    BY <1>4 DEF RecvCut, GoTo, TypeOK, WireInv
  <2>4. HandlerInv'
    BY <1>4 DEF RecvCut, GoTo, TypeOK, HandlerInv
  <2> QED
    BY <2>2, <2>3, <2>4
<1>5. CASE AbortRecv(s)
  <2>1. rpc' \in [Slots -> HandlerPc]
    BY <1>5 DEF AbortRecv, HandlerFails, WriteSidecar, HandlerPc, TypeOK
  <2>2. TypeOK'
    BY <1>5, <2>1 DEF AbortRecv, HandlerFails, WriteSidecar, Sidecar, TypeOK
  <2>3. WireInv'
    BY <1>5 DEF AbortRecv, HandlerFails, WriteSidecar, TypeOK, WireInv
  <2>4. HandlerInv'
    BY <1>5 DEF AbortRecv, HandlerFails, WriteSidecar, TypeOK, HandlerInv
  <2> QED
    BY <2>2, <2>3, <2>4
<1>6. CASE ClosePart(s)
  <2>1. rpc' \in [Slots -> HandlerPc]
    BY <1>6 DEF ClosePart, GoTo, HandlerPc, TypeOK
  <2>2. TypeOK'
    <3>1. content' \in Seq(Seq(Block)) /\ Len(content') = Len(content)
      <4>1. /\ content \in Seq(Seq(Block)) /\ ino[s] \in Nat /\ buf[s] \in Seq(Block)
            /\ content' = [content EXCEPT ![ino[s]] = @ \o buf[s]]
        BY <1>6 DEF ClosePart, TypeOK
      <4> QED
        BY <4>1, AppendType
    <3>2. buf' \in [Slots -> Seq(Block)]
      BY <1>6 DEF ClosePart, TypeOK
    <3>3. UNCHANGED <<senderVars, wireVars, recvd, ino, target, partIno, finals,
                     sidecar, notified, faults>>
      BY <1>6 DEF ClosePart
    <3> QED
      BY <2>1, <3>1, <3>2, <3>3 DEF TypeOK
  <2>3. WireInv'
    BY <1>6 DEF ClosePart, GoTo, TypeOK, WireInv
  <2>4. HandlerInv'
    BY <1>6 DEF ClosePart, GoTo, TypeOK, HandlerInv
  <2> QED
    BY <2>2, <2>3, <2>4
<1>7. CASE MarkTotal(s)
  <2>1. rpc' \in [Slots -> HandlerPc]
    BY <1>7 DEF MarkTotal, GoTo, WriteSidecar, HandlerPc, TypeOK
  <2>2. TypeOK'
    BY <1>7, <2>1 DEF MarkTotal, GoTo, WriteSidecar, Sidecar, TypeOK
  <2>3. WireInv'
    BY <1>7 DEF MarkTotal, GoTo, WriteSidecar, TypeOK, WireInv
  <2>4. HandlerInv'
    BY <1>7 DEF MarkTotal, GoTo, WriteSidecar, TypeOK, HandlerInv
  <2> QED
    BY <2>2, <2>3, <2>4
<1>8. CASE PickName(s)
  <2>1. rpc' \in [Slots -> HandlerPc]
    BY <1>8 DEF PickName, GoTo, HandlerPc, TypeOK
  <2>2. TypeOK'
    <3>1. target' \in [Slots -> Nat \ {0}]
      BY <1>8 DEF PickName, TypeOK
    <3> QED
      BY <1>8, <2>1, <3>1 DEF PickName, TypeOK
  <2>3. WireInv'
    BY <1>8 DEF PickName, GoTo, TypeOK, WireInv
  <2>4. HandlerInv'
    BY <1>8 DEF PickName, GoTo, TypeOK, HandlerInv
  <2> QED
    BY <2>2, <2>3, <2>4
<1>9. CASE MovePart(s)
  <2>1. rpc' \in [Slots -> HandlerPc]
    <3>1. \E pc \in {"idle", "unlink"} : rpc' = [rpc EXCEPT ![s] = pc]
      BY <1>9 DEF MovePart, HandlerFails, GoTo
    <3> QED
      BY <3>1, PcType DEF HandlerPc, TypeOK
  <2>2. TypeOK'
    <3>1. /\ finals' \in Seq(1 .. Len(content)) /\ Len(finals') >= Len(finals)
          /\ partIno' \in 0 .. Len(content)
      <4>1. CASE partIno = NoPart
        BY <1>9, <4>1 DEF MovePart, TypeOK
      <4>2. CASE partIno # NoPart
        <5>1. partIno \in 1 .. Len(content) /\ partIno' = 0
          BY <1>9, <4>2 DEF MovePart, TypeOK, NoPart
        <5>2. \/ finals' = [finals EXCEPT ![target[s]] = partIno]
              \/ finals' = Append(finals, partIno)
          BY <1>9, <4>2 DEF MovePart
        <5>3. finals \in Seq(1 .. Len(content)) /\ target[s] \in Nat
          BY DEF TypeOK
        <5>4. finals' \in Seq(1 .. Len(content)) /\ Len(finals') >= Len(finals)
          <6>1. CASE finals' = [finals EXCEPT ![target[s]] = partIno]
            BY <5>1, <5>3, <6>1, UpdateType, LenProperties
          <6>2. CASE finals' = Append(finals, partIno)
            BY <5>1, <5>3, <6>2, AppendProperties, LenProperties
          <6> QED
            BY <5>2, <6>1, <6>2
        <5> QED
          BY <5>1, <5>4
      <4> QED
        BY <4>1, <4>2
    <3>2. verdict' \in [Slots -> {"none", "ok", "no"}]
      BY <1>9 DEF MovePart, HandlerFails, TypeOK
    <3>3. UNCHANGED <<senderVars, inflight, offer, recvd, ino, buf, target, content,
                     sidecar, notified, faults>>
      BY <1>9 DEF MovePart
    <3>4. notified' \in SUBSET (1 .. Len(finals'))
      BY <3>1, <3>3 DEF TypeOK
    <3> QED
      BY <2>1, <3>1, <3>2, <3>3, <3>4 DEF TypeOK
  <2>3. WireInv'
    BY <1>9 DEF MovePart, HandlerFails, GoTo, TypeOK, WireInv
  <2>4. HandlerInv'
    <3>1. UNCHANGED <<target, ino>> /\ Len(finals) <= Len(finals')
      <4>1. CASE partIno # NoPart /\ target[s] > Len(finals)
        BY <1>9, <4>1 DEF MovePart, TypeOK
      <4> QED
        BY <1>9, <4>1 DEF MovePart, TypeOK
    <3>2. \A t \in Slots \ {s} : rpc'[t] = rpc[t]
      BY <1>9 DEF MovePart, GoTo, HandlerFails, TypeOK
    <3>3. \/ rpc'[s] = "idle"
          \/ rpc'[s] = "unlink" /\ target[s] <= Len(finals')
      BY <1>9 DEF MovePart, GoTo, HandlerFails, TypeOK, HandlerInv
    <3>4. /\ target \in [Slots -> Nat \ {0}]
          /\ Len(finals) \in Nat /\ Len(finals') \in Nat
      <4>1. finals \in Seq(1 .. Len(content)) /\ finals' \in Seq(1 .. Len(content'))
        BY <2>2 DEF TypeOK
      <4> QED
        BY <4>1, LenProperties DEF TypeOK
    <3> QED
      BY <3>1, <3>2, <3>3, <3>4 DEF HandlerInv
  <2> QED
    BY <2>2, <2>3, <2>4
<1>10. CASE UnlinkSidecar(s)
  <2>1. rpc' \in [Slots -> HandlerPc]
    BY <1>10 DEF UnlinkSidecar, GoTo, NoSidecar, HandlerPc, TypeOK
  <2>2. TypeOK'
    BY <1>10, <2>1 DEF UnlinkSidecar, GoTo, NoSidecar, Sidecar, TypeOK
  <2>3. WireInv'
    BY <1>10 DEF UnlinkSidecar, GoTo, NoSidecar, TypeOK, WireInv
  <2>4. HandlerInv'
    BY <1>10 DEF UnlinkSidecar, GoTo, NoSidecar, TypeOK, HandlerInv
  <2> QED
    BY <2>2, <2>3, <2>4
<1>11. CASE SendAck(s)
  <2>1. rpc' \in [Slots -> HandlerPc]
    <3>1. \E pc \in {"idle", "notify"} : rpc' = [rpc EXCEPT ![s] = pc]
      BY <1>11 DEF SendAck, HandlerFails, GoTo
    <3> QED
      BY <3>1, PcType DEF HandlerPc, TypeOK
  <2>2. TypeOK'
    BY <1>11, <2>1 DEF SendAck, HandlerFails, GoTo, TypeOK
  <2>3. WireInv'
    BY <1>11 DEF SendAck, HandlerFails, GoTo, TypeOK, WireInv
  <2>4. HandlerInv'
    BY <1>11 DEF SendAck, HandlerFails, GoTo, TypeOK, HandlerInv
  <2> QED
    BY <2>2, <2>3, <2>4
<1>12. CASE Notify(s)
  <2>1. rpc' \in [Slots -> HandlerPc]
    BY <1>12 DEF Notify, GoTo, HandlerPc, TypeOK
  <2>2. TypeOK'
    <3>1. notified' \in SUBSET (1 .. Len(finals))
      <4>1. target[s] \in 1 .. Len(finals)
        BY <1>12 DEF Notify, TypeOK, HandlerInv
      <4> QED
        BY <1>12, <4>1 DEF Notify, TypeOK
    <3> QED
      BY <1>12, <2>1, <3>1 DEF Notify, TypeOK
  <2>3. WireInv'
    BY <1>12 DEF Notify, GoTo, TypeOK, WireInv
  <2>4. HandlerInv'
    BY <1>12 DEF Notify, GoTo, TypeOK, HandlerInv
  <2> QED
    BY <2>2, <2>3, <2>4
<1>13. CASE Refuse(s)
  <2>1. rpc' \in [Slots -> HandlerPc]
    BY <1>13 DEF Refuse, Fault, HandlerFails, HandlerPc, TypeOK
  <2>2. TypeOK'
    <3>1. faults' \in 0 .. MaxFaults
      BY <1>13, BoundsAssumption DEF Refuse, Fault, TypeOK
    <3>2. verdict' \in [Slots -> {"none", "ok", "no"}]
      BY <1>13 DEF Refuse, HandlerFails, TypeOK
    <3> QED
      BY <1>13, <2>1, <3>1, <3>2 DEF Refuse, TypeOK
  <2>3. WireInv'
    BY <1>13 DEF Refuse, Fault, HandlerFails, TypeOK, WireInv
  <2>4. HandlerInv'
    BY <1>13 DEF Refuse, Fault, HandlerFails, TypeOK, HandlerInv
  <2> QED
    BY <2>2, <2>3, <2>4
<1>14. CASE RecvTimeout(s)
  <2>1. rpc' \in [Slots -> HandlerPc]
    BY <1>14 DEF RecvTimeout, Fault, GoTo, HandlerPc, TypeOK
  <2>2. TypeOK'
    <3>1. faults' \in 0 .. MaxFaults
      BY <1>14, BoundsAssumption DEF RecvTimeout, Fault, TypeOK
    <3> QED
      BY <1>14, <2>1, <3>1 DEF RecvTimeout, TypeOK
  <2>3. WireInv'
    BY <1>14 DEF RecvTimeout, Fault, GoTo, TypeOK, WireInv
  <2>4. HandlerInv'
    BY <1>14 DEF RecvTimeout, Fault, GoTo, TypeOK, HandlerInv
  <2> QED
    BY <2>2, <2>3, <2>4
<1> QED
  BY <1>1, <1>2, <1>3, <1>4, <1>5, <1>6, <1>7, <1>8, <1>9, <1>10, <1>11, <1>12, <1>13, <1>14 DEF HandlerStep

LEMMA OtherTypeInv ==
  ASSUME TypeInv, ChangeSource \/ Crash
  PROVE  TypeInv'
<1> USE DEF TypeInv
<1>1. CASE ChangeSource
  <2>1. source' \in Versions
    BY <1>1, SizeAssumption DEF ChangeSource, Versions, TypeOK
  <2>2. UNCHANGED <<acked, spc, hver, over, sidx, wireVars, handlerVars, diskVars,
                   notified, faults>>
    BY <1>1 DEF ChangeSource
  <2>3. TypeOK'
    BY <2>1, <2>2 DEF TypeOK, wireVars, handlerVars, diskVars
  <2>4. WireInv' /\ HandlerInv'
    BY <2>2 DEF WireInv, HandlerInv, wireVars, handlerVars, diskVars
  <2> QED
    BY <2>3, <2>4
<1>2. CASE Crash
  <2>1. UNCHANGED <<senderVars, wireVars, recvd, ino, target, diskVars, notified>>
    BY <1>2 DEF Crash
  <2>2. faults' \in 0 .. MaxFaults
    BY <1>2, BoundsAssumption DEF Crash, Fault, TypeOK
  <2>3. rpc' \in [Slots -> HandlerPc] /\ buf' \in [Slots -> Seq(Block)]
    BY <1>2, EmptySeq DEF Crash, HandlerPc
  <2>4. TypeOK'
    BY <2>1, <2>2, <2>3 DEF TypeOK, senderVars, wireVars, diskVars
  <2>5. WireInv' /\ HandlerInv'
    <3>1. \A s \in Slots : rpc'[s] = "idle"
      BY <1>2 DEF Crash
    <3> QED
      BY <2>1, <3>1 DEF WireInv, HandlerInv, senderVars, wireVars, diskVars
  <2> QED
    BY <2>4, <2>5
<1> QED
  BY <1>1, <1>2

LEMMA TypeInvStep ==
  ASSUME TypeInv, [Next]_vars
  PROVE  TypeInv'
<1>1. UNCHANGED vars => TypeInv'
  BY DEF vars, senderVars, wireVars, handlerVars, diskVars, TypeInv, TypeOK,
         WireInv, HandlerInv
<1> QED
  BY <1>1, SenderTypeInv, HandlerTypeInv, OtherTypeInv DEF Next, FaultStep

(* Every variable keeps its type, with any number of connections.          *)
THEOREM TypeCorrect == Spec => []TypeOK
<1>1. Init => TypeInv
  BY TypeInvInit
<1>2. TypeInv /\ [Next]_vars => TypeInv'
  BY TypeInvStep
<1>3. TypeInv => TypeOK
  BY DEF TypeInv
<1> QED
  BY <1>1, <1>2, <1>3, PTL DEF Spec

(***************************************************************************)
(* One connection at a time.  The inductive invariant behind the safety    *)
(* properties ties three positions together: what the sender has sent and  *)
(* the receiver not read, the handler's `received`, and the length of the  *)
(* file on disk with what its writer still buffers.                        *)
(***************************************************************************)
Receiving == {"mark", "recv", "abort", "close"}
Received == {"total", "pick", "move"}
Moved == {"unlink", "ack", "notify"}

Kept(f) == f = partIno \/ \E k \in DOMAIN finals : finals[k] = f
OnDisk(n) == \E f \in DOMAIN content : Kept(f) /\ Len(content[f]) >= n

(* The handler's file, its `received` and its buffer.                      *)
PositionInv(s) ==
  rpc[s] \in Receiving =>
    /\ ino[s] = partIno /\ partIno # NoPart
    /\ recvd[s] <= Total(s)
    /\ rpc[s] = "recv" => recvd[s] < Total(s)
    /\ rpc[s] = "close" => recvd[s] = Total(s)
    /\ Total(s) > 0 => recvd[s] = Len(content[partIno]) + Len(buf[s])

BufferInv(s) ==
  buf[s] # <<>> =>
    /\ rpc[s] \in {"mark", "close"}
    /\ Total(s) > 0
    /\ recvd[s] = Total(s)
    /\ Len(buf[s]) = 1
    /\ buf[s][1][2] = recvd[s]

(* The complete file, before and after it is moved.                        *)
MoveInv(s) ==
  /\ rpc[s] \in Received =>
       /\ partIno # NoPart
       /\ Total(s) > 0 => Len(content[partIno]) = Total(s)
  /\ rpc[s] = "move" => target[s] = Len(finals) + 1
  /\ rpc[s] \in Moved =>
       /\ target[s] \in DOMAIN finals
       /\ Total(s) > 0 => Len(content[finals[target[s]]]) = Total(s)

(* The two ends of the connection agree on the position.                   *)
StreamInv(s) ==
  /\ rpc[s] = "header" =>
       /\ offer[s] = NoOffer /\ verdict[s] = "none" /\ inflight[s] = 0
       /\ spc[s] \in {"offset", "idle"}
  /\ rpc[s] \in {"mark", "recv"} =>
       /\ spc[s] = "offset" => offer[s] = recvd[s]
       /\ spc[s] \in {"send", "wait"} \/ inflight[s] > 0
            => sidx[s] - inflight[s] = recvd[s]
  /\ verdict[s] = "ok" => OnDisk(Total(s))

(* A file that was moved is no longer .part.                               *)
SeparateInv == \A k \in DOMAIN finals : finals[k] # partIno

SlotInv(s) == PositionInv(s) /\ BufferInv(s) /\ MoveInv(s) /\ StreamInv(s)

IInv ==
  /\ TypeInv
  /\ Aligned
  /\ SeparateInv
  /\ \A v \in acked : OnDisk(Size[v])
  /\ \A s \in Slots : SlotInv(s)

(* What does not touch the disk keeps what is on it.                       *)
LEMMA DiskStill ==
  ASSUME Aligned, SeparateInv, UNCHANGED <<content, partIno, finals>>
  PROVE  Aligned' /\ SeparateInv' /\ \A n \in Nat : OnDisk(n) => OnDisk(n)'
BY DEF Aligned, SeparateInv, OnDisk, Kept

(* The files of the disk and the files under final names.                  *)
LEMMA FileType ==
  ASSUME TypeOK
  PROVE  /\ DOMAIN content = 1 .. Len(content)
         /\ Len(content) \in Nat /\ Len(finals) \in Nat
         /\ \A f \in 1 .. Len(content) :
              /\ content[f] \in Seq(Block)
              /\ Len(content[f]) \in Nat
              /\ DOMAIN content[f] = 1 .. Len(content[f])
         /\ DOMAIN finals = 1 .. Len(finals)
         /\ \A k \in DOMAIN finals : finals[k] \in 1 .. Len(content)
<1>1. content \in Seq(Seq(Block)) /\ finals \in Seq(1 .. Len(content))
  BY DEF TypeOK
<1>2. \A f \in 1 .. Len(content) : content[f] \in Seq(Block)
  BY <1>1, ElementOfSeq
<1>3. DOMAIN finals = 1 .. Len(finals)
  BY <1>1, LenProperties
<1>4. \A k \in DOMAIN finals : finals[k] \in 1 .. Len(content)
  BY <1>1, <1>3, ElementOfSeq
<1> QED
  BY <1>1, <1>2, <1>3, <1>4, LenProperties

(* A disk on which no kept file shrinks or is dropped still holds as much. *)
LEMMA OnDiskGrows ==
  ASSUME TypeOK, TypeOK',
         \A f \in DOMAIN content :
           /\ f \in DOMAIN content' /\ Len(content'[f]) >= Len(content[f])
           /\ Kept(f) => Kept(f)'
  PROVE  \A n \in Nat : OnDisk(n) => OnDisk(n)'
<1>1. TAKE n \in Nat
<1>2. HAVE OnDisk(n)
<1>3. PICK f \in DOMAIN content : Kept(f) /\ Len(content[f]) >= n
  BY <1>2 DEF OnDisk
<1>4. Len(content[f]) \in Nat
  BY <1>3, FileType
<1>5. f \in DOMAIN content' /\ Kept(f)' /\ Len(content'[f]) >= Len(content[f])
  BY <1>3
<1>6. Len(content'[f]) \in Nat
  <2>1. DOMAIN content' = 1 .. Len(content')
        /\ \A g \in 1 .. Len(content') : Len(content'[g]) \in Nat
    <3>1. content' \in Seq(Seq(Block))
      BY DEF TypeOK
    <3>2. \A g \in 1 .. Len(content') : content'[g] \in Seq(Block)
      BY <3>1, ElementOfSeq
    <3> QED
      BY <3>1, <3>2, LenProperties
  <2> QED
    BY <1>5, <2>1
<1>7. Len(content'[f]) >= n
  BY <1>3, <1>4, <1>5, <1>6
<1> QED
  BY <1>5, <1>7 DEF OnDisk

(* The part of IInv that a step of the sender or of the control of the     *)
(* handler leaves to check: the slot, and a version newly acknowledged.    *)
LEMMA StillInv ==
  ASSUME NEW c, Slots = {c}, IInv, TypeInv', SlotInv(c)',
         UNCHANGED <<content, partIno, finals>>,
         \A v \in acked' : v \in acked \/ OnDisk(Size[v])
  PROVE  IInv'
<1>1. Aligned' /\ SeparateInv' /\ \A n \in Nat : OnDisk(n) => OnDisk(n)'
  BY DiskStill DEF IInv
<1>2. \A v \in acked' : OnDisk(Size[v])
  BY DEF IInv
<1>3. \A v \in acked' : Size[v] \in Nat
  BY SizeType DEF TypeInv, TypeOK
<1>4. \A v \in acked' : OnDisk(Size[v])'
  BY <1>1, <1>2, <1>3
<1>5. \A s \in Slots : SlotInv(s)'
  OBVIOUS
<1> QED
  BY <1>1, <1>4, <1>5 DEF IInv

(* Losing a suffix of what is in flight moves both ends alike.             *)
LEMMA LostSuffix ==
  ASSUME NEW sent \in Nat, NEW flying \in Nat, NEW lost \in 0 .. flying, NEW at \in Nat,
         flying > 0 => sent - flying = at
  PROVE  flying - lost > 0 => (sent - lost) - (flying - lost) = at
OBVIOUS

(* The bytes a handler acknowledges are under the name it picked.          *)
LEMMA MovedOnDisk ==
  ASSUME TypeOK, NEW s \in Slots, MoveInv(s), rpc[s] \in Moved
  PROVE  OnDisk(Total(s))
<1>1. /\ target[s] \in DOMAIN finals
      /\ Total(s) > 0 => Len(content[finals[target[s]]]) = Total(s)
  BY DEF MoveInv
<1>2. /\ finals[target[s]] \in DOMAIN content
      /\ Len(content[finals[target[s]]]) \in Nat
  BY <1>1, FileType
<1>3. Total(s) \in Nat
  BY SizeType DEF Total, TypeOK
<1>4. Len(content[finals[target[s]]]) >= Total(s)
  BY <1>1, <1>2, <1>3
<1>5. Kept(finals[target[s]])
  BY <1>1 DEF Kept
<1> QED
  BY <1>2, <1>4, <1>5 DEF OnDisk

LEMMA SenderIInv ==
  ASSUME NEW c, Slots = {c}, IInv, TypeInv', SenderStep(c) \/ AbortSend(c)
  PROVE  IInv'
<1>0. c \in Slots /\ Total(c) \in Nat
  BY SizeType DEF IInv, TypeInv, TypeOK, Total
<1> USE <1>0 DEF IInv, TypeInv, TypeOK, SlotInv, wireVars, handlerVars, senderVars, diskVars
<1>1. CASE SendHeader(c)
  <2>1. UNCHANGED <<content, partIno, finals>>
    BY <1>1 DEF SendHeader, GoTo
  <2>2. PositionInv(c)'
    BY <1>1 DEF SendHeader, GoTo, PositionInv, StreamInv, Receiving, Total
  <2>3. BufferInv(c)'
    <3>1. rpc[c] = "idle" /\ buf' = buf
      BY <1>1 DEF SendHeader, HandlerGone
    <3>2. buf[c] = <<>>
      BY <3>1 DEF BufferInv
    <3> QED
      BY <3>1, <3>2 DEF BufferInv
  <2>4. MoveInv(c)'
    BY <1>1 DEF SendHeader, GoTo, MoveInv, Received, Moved, Total
  <2>5. StreamInv(c)'
    BY <1>1 DEF SendHeader, GoTo, StreamInv
  <2>6. \A v \in acked' : v \in acked \/ OnDisk(Size[v])
    BY <1>1 DEF SendHeader, GoTo, StreamInv, Total
  <2> QED
    BY <2>1, <2>2, <2>3, <2>4, <2>5, <2>6, StillInv DEF SlotInv
<1>2. CASE RecvOffset(c)
  <2>1. UNCHANGED <<content, partIno, finals>>
    BY <1>2 DEF RecvOffset
  <2>2. PositionInv(c)'
    BY <1>2 DEF RecvOffset, PositionInv, StreamInv, Receiving, Total
  <2>3. BufferInv(c)'
    BY <1>2 DEF RecvOffset, BufferInv, PositionInv, Receiving, Total
  <2>4. MoveInv(c)'
    BY <1>2 DEF RecvOffset, MoveInv, Received, Moved, Total
  <2>5. StreamInv(c)'
    <3>1. OnDisk(Total(c)) => OnDisk(Total(c))'
      BY <1>0, <1>2, <2>1, DiskStill DEF RecvOffset, Total
    <3>2. /\ inflight[c] = 0 /\ offer[c] \in Nat /\ spc[c] = "offset"
          /\ sidx'[c] = offer[c] /\ spc'[c] \in {"idle", "send"}
          /\ UNCHANGED <<inflight, offer, verdict, rpc, recvd, hver>>
      BY <1>2 DEF RecvOffset, WireInv, NoOffer
    <3>3. rpc[c] # "header"
      BY <1>2 DEF RecvOffset, StreamInv
    <3>4. rpc[c] \in {"mark", "recv"} => offer[c] = recvd[c]
      BY <3>2 DEF StreamInv
    <3>5. verdict[c] = "ok" => OnDisk(Total(c))'
      BY <3>1 DEF StreamInv
    <3> HIDE DEF IInv, TypeInv, TypeOK, SlotInv
    <3> QED
      BY <3>2, <3>3, <3>4, <3>5 DEF StreamInv
  <2>6. \A v \in acked' : v \in acked \/ OnDisk(Size[v])
    BY <1>2 DEF RecvOffset, StreamInv, Total
  <2> QED
    BY <2>1, <2>2, <2>3, <2>4, <2>5, <2>6, StillInv DEF SlotInv
<1>3. CASE SendBlock(c)
  <2>1. UNCHANGED <<content, partIno, finals>>
    BY <1>3 DEF SendBlock
  <2>2. PositionInv(c)'
    BY <1>3 DEF SendBlock, PositionInv, StreamInv, Receiving, Total
  <2>3. BufferInv(c)'
    BY <1>3 DEF SendBlock, BufferInv, PositionInv, Receiving, Total
  <2>4. MoveInv(c)'
    BY <1>3 DEF SendBlock, MoveInv, Received, Moved, Total
  <2>5. StreamInv(c)'
    <3>1. OnDisk(Total(c)) => OnDisk(Total(c))'
      BY <1>0, <1>3, <2>1, DiskStill DEF SendBlock, Total
    <3> QED
      BY <1>3, <3>1 DEF SendBlock, StreamInv, PositionInv, Receiving, Total
  <2>6. \A v \in acked' : v \in acked \/ OnDisk(Size[v])
    BY <1>3 DEF SendBlock, StreamInv, Total
  <2> QED
    BY <2>1, <2>2, <2>3, <2>4, <2>5, <2>6, StillInv DEF SlotInv
<1>4. CASE SendEof(c)
  <2>1. UNCHANGED <<content, partIno, finals>>
    BY <1>4 DEF SendEof
  <2>2. PositionInv(c)'
    BY <1>4 DEF SendEof, PositionInv, StreamInv, Receiving, Total
  <2>3. BufferInv(c)'
    BY <1>4 DEF SendEof, BufferInv, PositionInv, Receiving, Total
  <2>4. MoveInv(c)'
    BY <1>4 DEF SendEof, MoveInv, Received, Moved, Total
  <2>5. StreamInv(c)'
    <3>1. OnDisk(Total(c)) => OnDisk(Total(c))'
      BY <1>0, <1>4, <2>1, DiskStill DEF SendEof, Total
    <3> QED
      BY <1>4, <3>1 DEF SendEof, StreamInv, PositionInv, Receiving, Total
  <2>6. \A v \in acked' : v \in acked \/ OnDisk(Size[v])
    BY <1>4 DEF SendEof, StreamInv, Total
  <2> QED
    BY <2>1, <2>2, <2>3, <2>4, <2>5, <2>6, StillInv DEF SlotInv
<1>5. CASE RecvAck(c)
  <2>1. UNCHANGED <<content, partIno, finals>>
    BY <1>5 DEF RecvAck
  <2>2. PositionInv(c)'
    BY <1>5 DEF RecvAck, PositionInv, StreamInv, Receiving, Total
  <2>3. BufferInv(c)'
    BY <1>5 DEF RecvAck, BufferInv, PositionInv, Receiving, Total
  <2>4. MoveInv(c)'
    BY <1>5 DEF RecvAck, MoveInv, Received, Moved, Total
  <2>5. StreamInv(c)'
    <3>1. OnDisk(Total(c)) => OnDisk(Total(c))'
      BY <1>0, <1>5, <2>1, DiskStill DEF RecvAck, Total
    <3> QED
      BY <1>5, <3>1 DEF RecvAck, StreamInv, PositionInv, Receiving, Total
  <2>6. \A v \in acked' : v \in acked \/ OnDisk(Size[v])
    BY <1>5 DEF RecvAck, StreamInv, Total
  <2> QED
    BY <2>1, <2>2, <2>3, <2>4, <2>5, <2>6, StillInv DEF SlotInv
<1>6. CASE RecvEof(c)
  <2>1. UNCHANGED <<content, partIno, finals>>
    BY <1>6 DEF RecvEof
  <2>2. PositionInv(c)'
    BY <1>6 DEF RecvEof, PositionInv, StreamInv, Receiving, Total
  <2>3. BufferInv(c)'
    BY <1>6 DEF RecvEof, BufferInv, PositionInv, Receiving, Total
  <2>4. MoveInv(c)'
    BY <1>6 DEF RecvEof, MoveInv, Received, Moved, Total
  <2>5. StreamInv(c)'
    <3>1. OnDisk(Total(c)) => OnDisk(Total(c))'
      BY <1>0, <1>6, <2>1, DiskStill DEF RecvEof, Total
    <3> QED
      BY <1>6, <3>1 DEF RecvEof, StreamInv, PositionInv, Receiving, Total
  <2>6. \A v \in acked' : v \in acked \/ OnDisk(Size[v])
    BY <1>6 DEF RecvEof, StreamInv, Total
  <2> QED
    BY <2>1, <2>2, <2>3, <2>4, <2>5, <2>6, StillInv DEF SlotInv
<1>7. CASE AckTimeout(c)
  <2>1. UNCHANGED <<content, partIno, finals>>
    BY <1>7 DEF AckTimeout
  <2>2. PositionInv(c)'
    BY <1>7 DEF AckTimeout, PositionInv, StreamInv, Receiving, Total
  <2>3. BufferInv(c)'
    BY <1>7 DEF AckTimeout, BufferInv, PositionInv, Receiving, Total
  <2>4. MoveInv(c)'
    BY <1>7 DEF AckTimeout, MoveInv, Received, Moved, Total
  <2>5. StreamInv(c)'
    <3>1. OnDisk(Total(c)) => OnDisk(Total(c))'
      BY <1>0, <1>7, <2>1, DiskStill DEF AckTimeout, Total
    <3> QED
      BY <1>7, <3>1 DEF AckTimeout, StreamInv, PositionInv, Receiving, Total
  <2>6. \A v \in acked' : v \in acked \/ OnDisk(Size[v])
    BY <1>7 DEF AckTimeout, StreamInv, Total
  <2> QED
    BY <2>1, <2>2, <2>3, <2>4, <2>5, <2>6, StillInv DEF SlotInv
<1>8. CASE AbortSend(c)
  <2>1. UNCHANGED <<content, partIno, finals>>
    BY <1>8 DEF AbortSend, SenderGone
  <2>2. PositionInv(c)'
    BY <1>8 DEF AbortSend, SenderGone, PositionInv, StreamInv, Receiving, Total
  <2>3. BufferInv(c)'
    BY <1>8 DEF AbortSend, SenderGone, BufferInv, PositionInv, Receiving, Total
  <2>4. MoveInv(c)'
    BY <1>8 DEF AbortSend, SenderGone, MoveInv, Received, Moved, Total
  <2>5. StreamInv(c)'
    <3>1. OnDisk(Total(c)) => OnDisk(Total(c))'
      BY <1>0, <1>8, <2>1, DiskStill DEF AbortSend, Total
    <3>2. PICK lost \in 0 .. inflight[c] :
            /\ sidx' = [sidx EXCEPT ![c] = @ - lost]
            /\ inflight' = [inflight EXCEPT ![c] = @ - lost]
      BY <1>8 DEF AbortSend
    <3>3. /\ sidx'[c] = sidx[c] - lost /\ inflight'[c] = inflight[c] - lost
          /\ lost \in 0 .. inflight[c]
      BY <3>2
    <3>4. /\ spc'[c] = "idle" /\ spc[c] # "idle"
          /\ UNCHANGED <<offer, verdict, rpc, recvd, hver>>
      BY <1>8 DEF AbortSend, SenderGone
    <3>5. sidx[c] \in Nat /\ inflight[c] \in Nat /\ recvd[c] \in Nat
      OBVIOUS
    <3>6. spc[c] = "offset" => inflight[c] = 0
      BY DEF WireInv
    <3>7. spc[c] \in {"offset", "send", "wait"}
      BY <3>4
    <3>8. rpc[c] = "header" => inflight'[c] = 0
      BY <3>3, <3>5 DEF StreamInv
    <3>9. ASSUME rpc[c] \in {"mark", "recv"}
          PROVE  inflight'[c] > 0 => sidx'[c] - inflight'[c] = recvd[c]
      <4>1. inflight[c] > 0 => sidx[c] - inflight[c] = recvd[c]
        BY <3>9 DEF StreamInv
      <4>2. inflight[c] - lost > 0 => (sidx[c] - lost) - (inflight[c] - lost) = recvd[c]
        BY <3>3, <3>5, <4>1, LostSuffix
      <4> QED
        BY <3>3, <4>2, Zenon
    <3> QED
      BY <3>1, <3>4, <3>8, <3>9 DEF StreamInv
  <2>6. \A v \in acked' : v \in acked \/ OnDisk(Size[v])
    BY <1>8 DEF AbortSend, SenderGone, StreamInv, Total
  <2> QED
    BY <2>1, <2>2, <2>3, <2>4, <2>5, <2>6, StillInv DEF SlotInv
<1> QED
  BY <1>1, <1>2, <1>3, <1>4, <1>5, <1>6, <1>7, <1>8 DEF SenderStep

LEMMA ControlIInv ==
  ASSUME NEW c, Slots = {c}, IInv, TypeInv',
         \/ MarkProgress(c) \/ RecvCut(c) \/ AbortRecv(c) \/ MarkTotal(c) \/ PickName(c)
         \/ UnlinkSidecar(c) \/ SendAck(c) \/ Notify(c)
         \/ Refuse(c) \/ RecvTimeout(c) \/ Crash \/ ChangeSource
  PROVE  IInv'
<1>0. c \in Slots /\ Total(c) \in Nat
  BY SizeType DEF IInv, TypeInv, TypeOK, Total
<1> USE <1>0 DEF IInv, TypeInv, TypeOK, SlotInv, wireVars, handlerVars, senderVars, diskVars
<1>1. CASE MarkProgress(c)
  <2>1. UNCHANGED <<content, partIno, finals>>
    BY <1>1 DEF MarkProgress, GoTo, WriteSidecar
  <2>2. PositionInv(c)'
    BY <1>1 DEF MarkProgress, GoTo, WriteSidecar, PositionInv, StreamInv, Receiving, Total
  <2>3. BufferInv(c)'
    BY <1>1 DEF MarkProgress, GoTo, WriteSidecar, BufferInv, PositionInv, Receiving, Total
  <2>4. MoveInv(c)'
    BY <1>1 DEF MarkProgress, GoTo, WriteSidecar, MoveInv, Received, Moved, Total
  <2>5. StreamInv(c)'
    <3>1. OnDisk(Total(c)) => OnDisk(Total(c))'
      BY <1>0, <1>1, <2>1, DiskStill DEF MarkProgress, GoTo, WriteSidecar, Total
    <3> QED
      BY <1>1, <3>1 DEF MarkProgress, GoTo, WriteSidecar, StreamInv, PositionInv, Receiving, Total
  <2>6. \A v \in acked' : v \in acked \/ OnDisk(Size[v])
    BY <1>1 DEF MarkProgress, GoTo, WriteSidecar, StreamInv, Total
  <2> QED
    BY <2>1, <2>2, <2>3, <2>4, <2>5, <2>6, StillInv DEF SlotInv
<1>2. CASE RecvCut(c)
  <2>1. UNCHANGED <<content, partIno, finals>>
    BY <1>2 DEF RecvCut, GoTo
  <2>2. PositionInv(c)'
    BY <1>2 DEF RecvCut, GoTo, PositionInv, StreamInv, Receiving, Total
  <2>3. BufferInv(c)'
    BY <1>2 DEF RecvCut, GoTo, BufferInv, PositionInv, Receiving, Total
  <2>4. MoveInv(c)'
    BY <1>2 DEF RecvCut, GoTo, MoveInv, Received, Moved, Total
  <2>5. StreamInv(c)'
    <3>1. OnDisk(Total(c)) => OnDisk(Total(c))'
      BY <1>0, <1>2, <2>1, DiskStill DEF RecvCut, GoTo, Total
    <3> QED
      BY <1>2, <3>1 DEF RecvCut, GoTo, StreamInv, PositionInv, Receiving, Total
  <2>6. \A v \in acked' : v \in acked \/ OnDisk(Size[v])
    BY <1>2 DEF RecvCut, GoTo, StreamInv, Total
  <2> QED
    BY <2>1, <2>2, <2>3, <2>4, <2>5, <2>6, StillInv DEF SlotInv
<1>3. CASE AbortRecv(c)
  <2>1. UNCHANGED <<content, partIno, finals>>
    BY <1>3 DEF AbortRecv, HandlerFails, WriteSidecar
  <2>2. PositionInv(c)'
    BY <1>3 DEF AbortRecv, HandlerFails, WriteSidecar, PositionInv, StreamInv, Receiving, Total
  <2>3. BufferInv(c)'
    BY <1>3 DEF AbortRecv, HandlerFails, WriteSidecar, BufferInv, PositionInv, Receiving, Total
  <2>4. MoveInv(c)'
    BY <1>3 DEF AbortRecv, HandlerFails, WriteSidecar, MoveInv, Received, Moved, Total
  <2>5. StreamInv(c)'
    <3>1. OnDisk(Total(c)) => OnDisk(Total(c))'
      BY <1>0, <1>3, <2>1, DiskStill DEF AbortRecv, HandlerFails, WriteSidecar, Total
    <3> QED
      BY <1>3, <3>1 DEF AbortRecv, HandlerFails, WriteSidecar, StreamInv, PositionInv, Receiving, Total
  <2>6. \A v \in acked' : v \in acked \/ OnDisk(Size[v])
    BY <1>3 DEF AbortRecv, HandlerFails, WriteSidecar, StreamInv, Total
  <2> QED
    BY <2>1, <2>2, <2>3, <2>4, <2>5, <2>6, StillInv DEF SlotInv
<1>4. CASE MarkTotal(c)
  <2>1. UNCHANGED <<content, partIno, finals>>
    BY <1>4 DEF MarkTotal, GoTo, WriteSidecar
  <2>2. PositionInv(c)'
    BY <1>4 DEF MarkTotal, GoTo, WriteSidecar, PositionInv, StreamInv, Receiving, Total
  <2>3. BufferInv(c)'
    BY <1>4 DEF MarkTotal, GoTo, WriteSidecar, BufferInv, PositionInv, Receiving, Total
  <2>4. MoveInv(c)'
    BY <1>4 DEF MarkTotal, GoTo, WriteSidecar, MoveInv, Received, Moved, Total
  <2>5. StreamInv(c)'
    <3>1. OnDisk(Total(c)) => OnDisk(Total(c))'
      BY <1>0, <1>4, <2>1, DiskStill DEF MarkTotal, GoTo, WriteSidecar, Total
    <3> QED
      BY <1>4, <3>1 DEF MarkTotal, GoTo, WriteSidecar, StreamInv, PositionInv, Receiving, Total
  <2>6. \A v \in acked' : v \in acked \/ OnDisk(Size[v])
    BY <1>4 DEF MarkTotal, GoTo, WriteSidecar, StreamInv, Total
  <2> QED
    BY <2>1, <2>2, <2>3, <2>4, <2>5, <2>6, StillInv DEF SlotInv
<1>5. CASE PickName(c)
  <2>1. UNCHANGED <<content, partIno, finals>>
    BY <1>5 DEF PickName, GoTo
  <2>2. PositionInv(c)'
    BY <1>5 DEF PickName, GoTo, PositionInv, StreamInv, Receiving, Total
  <2>3. BufferInv(c)'
    BY <1>5 DEF PickName, GoTo, BufferInv, PositionInv, Receiving, Total
  <2>4. MoveInv(c)'
    BY <1>5 DEF PickName, GoTo, MoveInv, Received, Moved, Total
  <2>5. StreamInv(c)'
    <3>1. OnDisk(Total(c)) => OnDisk(Total(c))'
      BY <1>0, <1>5, <2>1, DiskStill DEF PickName, GoTo, Total
    <3> QED
      BY <1>5, <3>1 DEF PickName, GoTo, StreamInv, PositionInv, Receiving, Total
  <2>6. \A v \in acked' : v \in acked \/ OnDisk(Size[v])
    BY <1>5 DEF PickName, GoTo, StreamInv, Total
  <2> QED
    BY <2>1, <2>2, <2>3, <2>4, <2>5, <2>6, StillInv DEF SlotInv
<1>6. CASE UnlinkSidecar(c)
  <2>1. UNCHANGED <<content, partIno, finals>>
    BY <1>6 DEF UnlinkSidecar, GoTo
  <2>2. PositionInv(c)'
    BY <1>6 DEF UnlinkSidecar, GoTo, PositionInv, StreamInv, Receiving, Total
  <2>3. BufferInv(c)'
    BY <1>6 DEF UnlinkSidecar, GoTo, BufferInv, PositionInv, Receiving, Total
  <2>4. MoveInv(c)'
    BY <1>6 DEF UnlinkSidecar, GoTo, MoveInv, Received, Moved, Total
  <2>5. StreamInv(c)'
    <3>1. OnDisk(Total(c)) => OnDisk(Total(c))'
      BY <1>0, <1>6, <2>1, DiskStill DEF UnlinkSidecar, GoTo, Total
    <3> QED
      BY <1>6, <3>1 DEF UnlinkSidecar, GoTo, StreamInv, PositionInv, Receiving, Total
  <2>6. \A v \in acked' : v \in acked \/ OnDisk(Size[v])
    BY <1>6 DEF UnlinkSidecar, GoTo, StreamInv, Total
  <2> QED
    BY <2>1, <2>2, <2>3, <2>4, <2>5, <2>6, StillInv DEF SlotInv
<1>7. CASE SendAck(c)
  <2>1. UNCHANGED <<content, partIno, finals>>
    BY <1>7 DEF SendAck, GoTo, HandlerFails
  <2>2. PositionInv(c)'
    BY <1>7 DEF SendAck, GoTo, HandlerFails, PositionInv, StreamInv, Receiving, Total
  <2>3. BufferInv(c)'
    BY <1>7 DEF SendAck, GoTo, HandlerFails, BufferInv, PositionInv, Receiving, Total
  <2>4. MoveInv(c)'
    BY <1>7 DEF SendAck, GoTo, HandlerFails, MoveInv, Received, Moved, Total
  <2>5. StreamInv(c)'
    <3>1. OnDisk(Total(c)) => OnDisk(Total(c))'
      BY <1>0, <1>7, <2>1, DiskStill DEF SendAck, Total
    <3>2. OnDisk(Total(c))
      BY <1>7, <1>0, MovedOnDisk DEF SendAck, Moved
    <3>3. rpc'[c] \in {"notify", "idle"}
      BY <1>7 DEF SendAck, GoTo, HandlerFails
    <3> QED
      BY <3>1, <3>2, <3>3 DEF StreamInv
  <2>6. \A v \in acked' : v \in acked \/ OnDisk(Size[v])
    BY <1>7 DEF SendAck, GoTo, HandlerFails, StreamInv, Total
  <2> QED
    BY <2>1, <2>2, <2>3, <2>4, <2>5, <2>6, StillInv DEF SlotInv
<1>8. CASE Notify(c)
  <2>1. UNCHANGED <<content, partIno, finals>>
    BY <1>8 DEF Notify, GoTo
  <2>2. PositionInv(c)'
    BY <1>8 DEF Notify, GoTo, PositionInv, StreamInv, Receiving, Total
  <2>3. BufferInv(c)'
    BY <1>8 DEF Notify, GoTo, BufferInv, PositionInv, Receiving, Total
  <2>4. MoveInv(c)'
    BY <1>8 DEF Notify, GoTo, MoveInv, Received, Moved, Total
  <2>5. StreamInv(c)'
    <3>1. OnDisk(Total(c)) => OnDisk(Total(c))'
      BY <1>0, <1>8, <2>1, DiskStill DEF Notify, GoTo, Total
    <3> QED
      BY <1>8, <3>1 DEF Notify, GoTo, StreamInv, PositionInv, Receiving, Total
  <2>6. \A v \in acked' : v \in acked \/ OnDisk(Size[v])
    BY <1>8 DEF Notify, GoTo, StreamInv, Total
  <2> QED
    BY <2>1, <2>2, <2>3, <2>4, <2>5, <2>6, StillInv DEF SlotInv
<1>9. CASE Refuse(c)
  <2>1. UNCHANGED <<content, partIno, finals>>
    BY <1>9 DEF Refuse, HandlerFails
  <2>2. PositionInv(c)'
    BY <1>9 DEF Refuse, HandlerFails, PositionInv, StreamInv, Receiving, Total
  <2>3. BufferInv(c)'
    BY <1>9 DEF Refuse, HandlerFails, BufferInv, PositionInv, Receiving, Total
  <2>4. MoveInv(c)'
    BY <1>9 DEF Refuse, HandlerFails, MoveInv, Received, Moved, Total
  <2>5. StreamInv(c)'
    <3>1. OnDisk(Total(c)) => OnDisk(Total(c))'
      BY <1>0, <1>9, <2>1, DiskStill DEF Refuse, HandlerFails, Total
    <3> QED
      BY <1>9, <3>1 DEF Refuse, HandlerFails, StreamInv, PositionInv, Receiving, Total
  <2>6. \A v \in acked' : v \in acked \/ OnDisk(Size[v])
    BY <1>9 DEF Refuse, HandlerFails, StreamInv, Total
  <2> QED
    BY <2>1, <2>2, <2>3, <2>4, <2>5, <2>6, StillInv DEF SlotInv
<1>10. CASE RecvTimeout(c)
  <2>1. UNCHANGED <<content, partIno, finals>>
    BY <1>10 DEF RecvTimeout, GoTo
  <2>2. PositionInv(c)'
    BY <1>10 DEF RecvTimeout, GoTo, PositionInv, StreamInv, Receiving, Total
  <2>3. BufferInv(c)'
    BY <1>10 DEF RecvTimeout, GoTo, BufferInv, PositionInv, Receiving, Total
  <2>4. MoveInv(c)'
    BY <1>10 DEF RecvTimeout, GoTo, MoveInv, Received, Moved, Total
  <2>5. StreamInv(c)'
    <3>1. OnDisk(Total(c)) => OnDisk(Total(c))'
      BY <1>0, <1>10, <2>1, DiskStill DEF RecvTimeout, GoTo, Total
    <3> QED
      BY <1>10, <3>1 DEF RecvTimeout, GoTo, StreamInv, PositionInv, Receiving, Total
  <2>6. \A v \in acked' : v \in acked \/ OnDisk(Size[v])
    BY <1>10 DEF RecvTimeout, GoTo, StreamInv, Total
  <2> QED
    BY <2>1, <2>2, <2>3, <2>4, <2>5, <2>6, StillInv DEF SlotInv
<1>11. CASE Crash
  <2>1. UNCHANGED <<content, partIno, finals>>
    BY <1>11 DEF Crash
  <2>2. PositionInv(c)'
    BY <1>11 DEF Crash, PositionInv, StreamInv, Receiving, Total
  <2>3. BufferInv(c)'
    BY <1>11 DEF Crash, BufferInv, PositionInv, Receiving, Total
  <2>4. MoveInv(c)'
    BY <1>11 DEF Crash, MoveInv, Received, Moved, Total
  <2>5. StreamInv(c)'
    <3>1. OnDisk(Total(c)) => OnDisk(Total(c))'
      BY <1>0, <1>11, <2>1, DiskStill DEF Crash, Total
    <3> QED
      BY <1>11, <3>1 DEF Crash, StreamInv, PositionInv, Receiving, Total
  <2>6. \A v \in acked' : v \in acked \/ OnDisk(Size[v])
    BY <1>11 DEF Crash, StreamInv, Total
  <2> QED
    BY <2>1, <2>2, <2>3, <2>4, <2>5, <2>6, StillInv DEF SlotInv
<1>12. CASE ChangeSource
  <2>1. UNCHANGED <<content, partIno, finals>>
    BY <1>12 DEF ChangeSource
  <2>2. PositionInv(c)'
    BY <1>12 DEF ChangeSource, PositionInv, StreamInv, Receiving, Total
  <2>3. BufferInv(c)'
    BY <1>12 DEF ChangeSource, BufferInv, PositionInv, Receiving, Total
  <2>4. MoveInv(c)'
    BY <1>12 DEF ChangeSource, MoveInv, Received, Moved, Total
  <2>5. StreamInv(c)'
    <3>1. OnDisk(Total(c)) => OnDisk(Total(c))'
      BY <1>0, <1>12, <2>1, DiskStill DEF ChangeSource, Total
    <3> QED
      BY <1>12, <3>1 DEF ChangeSource, StreamInv, PositionInv, Receiving, Total
  <2>6. \A v \in acked' : v \in acked \/ OnDisk(Size[v])
    BY <1>12 DEF ChangeSource, StreamInv, Total
  <2> QED
    BY <2>1, <2>2, <2>3, <2>4, <2>5, <2>6, StillInv DEF SlotInv
<1> QED
  BY <1>1, <1>2, <1>3, <1>4, <1>5, <1>6, <1>7, <1>8, <1>9, <1>10, <1>11, <1>12

(* The steps that touch the disk.  Opening .part: what is answered is the  *)
(* length of the file, or the file is complete.                            *)
LEMMA OpenIInv ==
  ASSUME NEW c, Slots = {c}, IInv, TypeInv', OpenPart(c)
  PROVE  IInv'
<1> DEFINE fresh == partIno = NoPart
           part == IF fresh THEN Len(content) + 1 ELSE partIno
           actual == IF fresh THEN 0 ELSE Len(content[partIno])
           offset == StartOffset(ReadSidecar(hver[c]), actual, Total(c))
           complete == offset >= Total(c) /\ Total(c) > 0
<1>1. TypeOK /\ TypeOK' /\ c \in Slots /\ Total(c) \in Nat /\ SlotInv(c)
  BY SizeType DEF IInv, TypeInv, TypeOK, Total
<1>2. actual \in Nat
  <2>1. ~fresh => partIno \in 1 .. Len(content)
    BY <1>1 DEF TypeOK, NoPart
  <2> QED
    BY <1>1, <2>1, FileType
<1>3. offset = Least(actual, Total(c))
  BY <1>1, <1>2, SidecarClaim, OffsetIgnoresSidecar DEF TypeOK
<1>4. /\ content' = IF fresh THEN Append(content, <<>>) ELSE content
      /\ partIno' = part /\ ino'[c] = part
      /\ recvd'[c] = offset
      /\ offer'[c] = IF complete THEN Total(c) ELSE offset
      /\ verdict'[c] = IF complete THEN "ok" ELSE verdict[c]
      /\ rpc'[c] = IF complete THEN "idle" ELSE "mark"
      /\ rpc[c] = "header"
      /\ UNCHANGED <<source, acked, spc, hver, over, sidx, inflight, buf, target,
                     finals>>
  BY <1>1 DEF OpenPart, GoTo, TypeOK, senderVars
<1>5. /\ \A f \in DOMAIN content : f \in DOMAIN content' /\ content'[f] = content[f]
      /\ part \in DOMAIN content' /\ Len(content'[part]) = actual
      /\ \A f \in DOMAIN content' : f \in DOMAIN content \/ content'[f] = <<>>
  <2>1. CASE fresh
    <3>1. content' = Append(content, <<>>) /\ content \in Seq(Seq(Block))
      BY <1>1, <1>4, <2>1 DEF TypeOK
    <3>2. /\ Len(content') = Len(content) + 1 /\ content'[Len(content) + 1] = <<>>
          /\ DOMAIN content' = 1 .. Len(content) + 1
          /\ \A f \in 1 .. Len(content) : content'[f] = content[f]
      BY <3>1, EmptySeq, AppendProperties, LenProperties
    <3> QED
      BY <1>1, <2>1, <3>2, FileType, EmptySeq
  <2>2. CASE ~fresh
    BY <1>1, <1>4, <2>2, FileType DEF TypeOK, NoPart
  <2> QED
    BY <2>1, <2>2
<1>6. Aligned'
  BY <1>5 DEF IInv, Aligned
<1>7. SeparateInv'
  BY <1>1, <1>4, FileType DEF IInv, SeparateInv
<1>8. \A n \in Nat : OnDisk(n) => OnDisk(n)'
  <2>1. ASSUME NEW f \in DOMAIN content
        PROVE  /\ f \in DOMAIN content' /\ Len(content'[f]) >= Len(content[f])
               /\ Kept(f) => Kept(f)'
    <3>1. f # NoPart /\ Len(content[f]) \in Nat
      BY <1>1, FileType DEF NoPart
    <3> QED
      BY <1>4, <1>5, <3>1 DEF Kept
  <2> QED
    BY <1>1, <2>1, OnDiskGrows
<1>9. \A v \in acked' : OnDisk(Size[v])'
  BY <1>1, <1>4, <1>8, SizeType DEF IInv, TypeOK
<1>10. buf'[c] = <<>> /\ Len(buf'[c]) = 0
  BY <1>1, <1>4, EmptySeq DEF SlotInv, BufferInv
<1>11. PositionInv(c)'
  <2>1. part # NoPart
    BY <1>1, FileType DEF NoPart
  <2>2. Total(c)' = Total(c)
    BY <1>4 DEF Total
  <2>3. CASE ~complete
    <3>1. /\ offset <= Total(c) /\ (Total(c) > 0 => offset = actual)
      BY <1>1, <1>2, <1>3, <2>3 DEF Least
    <3> QED
      BY <1>2, <1>4, <1>5, <1>10, <2>1, <2>2, <2>3, <3>1 DEF PositionInv, Receiving
  <2> QED
    BY <1>4, <2>3 DEF PositionInv, Receiving
<1>12. BufferInv(c)' /\ MoveInv(c)'
  BY <1>4, <1>10 DEF BufferInv, MoveInv, Received, Moved
<1>13. StreamInv(c)'
  <2>1. Total(c)' = Total(c)
    BY <1>4 DEF Total
  <2>2. /\ verdict[c] = "none" /\ inflight[c] = 0 /\ spc[c] \in {"offset", "idle"}
    BY <1>1, <1>4 DEF SlotInv, StreamInv
  <2>3. complete => OnDisk(Total(c))'
    <3>1. complete => actual >= Total(c)
      BY <1>1, <1>2, <1>3 DEF Least
    <3> QED
      BY <1>4, <1>5, <2>1, <3>1 DEF OnDisk, Kept
  <2> QED
    BY <1>4, <2>1, <2>2, <2>3 DEF StreamInv
<1> QED
  BY <1>6, <1>7, <1>9, <1>11, <1>12, <1>13 DEF IInv, SlotInv

(* One block: it goes to the end of the file or, if it is the last, to the *)
(* buffer, and its own index is the position it gets.                      *)
LEMMA RecvBlockIInv ==
  ASSUME NEW c, Slots = {c}, IInv, TypeInv', RecvBlock(c)
  PROVE  IInv'
<1> DEFINE b == NextBlock(c)
           last == recvd[c] + 1 >= Total(c)
<1>1. TypeOK /\ TypeOK' /\ c \in Slots /\ Total(c) \in Nat /\ SlotInv(c)
  BY SizeType DEF IInv, TypeInv, TypeOK, Total
<1>2. /\ rpc[c] = "recv" /\ inflight[c] > 0
      /\ inflight'[c] = inflight[c] - 1
      /\ recvd'[c] = recvd[c] + 1
      /\ rpc'[c] \in {"mark", "close", "recv"}
      /\ rpc'[c] = "recv" => ~last
      /\ rpc'[c] = "close" => last
      /\ UNCHANGED <<source, acked, spc, hver, over, sidx, offer, verdict, ino, target,
                     partIno, finals>>
  BY <1>1 DEF RecvBlock, GoTo, TypeOK, senderVars
<1>3. /\ ino[c] = partIno /\ partIno # NoPart
      /\ recvd[c] < Total(c)
      /\ buf[c] = <<>> /\ Len(buf[c]) = 0
      /\ recvd[c] = Len(content[partIno])
      /\ sidx[c] - inflight[c] = recvd[c]
  <2>1. buf[c] = <<>> /\ Len(buf[c]) = 0
    BY <1>1, <1>2, EmptySeq DEF SlotInv, BufferInv
  <2>2. recvd[c] \in Nat /\ ino[c] = partIno /\ partIno # NoPart /\ recvd[c] < Total(c)
    BY <1>1, <1>2 DEF SlotInv, PositionInv, Receiving, TypeOK
  <2>3. partIno \in 1 .. Len(content)
    BY <1>1, <2>2 DEF TypeOK, NoPart
  <2>4. Len(content[partIno]) \in Nat
    BY <1>1, <2>3, FileType
  <2>5. recvd[c] = Len(content[partIno]) + Len(buf[c])
    <3>1. Total(c) > 0
      BY <1>1, <2>2
    <3> QED
      BY <1>1, <1>2, <3>1 DEF SlotInv, PositionInv, Receiving
  <2>6. sidx[c] - inflight[c] = recvd[c]
    BY <1>1, <1>2 DEF SlotInv, StreamInv
  <2> QED
    BY <2>1, <2>2, <2>4, <2>5, <2>6
<1>4. /\ b \in Block /\ b[2] = recvd[c] + 1
      /\ recvd[c] \in Nat /\ inflight[c] \in Nat /\ sidx[c] \in Nat
  <2>1. b \in Block
    BY <1>2, NextBlockType DEF IInv
  <2>2. recvd[c] \in Nat /\ inflight[c] \in Nat /\ sidx[c] \in Nat
    BY <1>1 DEF TypeOK
  <2> QED
    BY <1>3, <2>1, <2>2 DEF NextBlock
<1>5. partIno \in 1 .. Len(content)
  BY <1>1, <1>3 DEF TypeOK, NoPart
<1>6. Total(c)' = Total(c)
  BY <1>2 DEF Total
<1>7. \/ /\ content' = [content EXCEPT ![partIno] = Append(@, b)]
         /\ buf'[c] = <<>>
      \/ /\ last
         /\ content' = content
         /\ buf'[c] = Append(<<>>, b)
  BY <1>1, <1>3 DEF RecvBlock, TypeOK
<1>8. /\ DOMAIN content' = DOMAIN content
      /\ \A f \in DOMAIN content \ {partIno} : content'[f] = content[f]
      /\ content'[partIno] = content[partIno] \/ content'[partIno] = Append(content[partIno], b)
  BY <1>1, <1>5, <1>7, FileType
<1>9. content[partIno] \in Seq(Block) /\ Len(content[partIno]) \in Nat
  BY <1>1, <1>5, FileType
<1>10. /\ Append(content[partIno], b) \in Seq(Block)
       /\ Len(Append(content[partIno], b)) = Len(content[partIno]) + 1
       /\ Append(content[partIno], b)[Len(content[partIno]) + 1] = b
       /\ \A i \in 1 .. Len(content[partIno]) : Append(content[partIno], b)[i] = content[partIno][i]
  BY <1>4, <1>9, AppendProperties
<1>11. Aligned'
  <2>1. ASSUME NEW f \in DOMAIN content', NEW i \in DOMAIN content'[f]
        PROVE  content'[f][i][2] = i
    <3>1. CASE content'[f] = content[f]
      BY <1>8, <3>1 DEF IInv, Aligned
    <3>2. CASE f = partIno /\ content'[f] = Append(content[partIno], b)
      <4>1. i \in 1 .. Len(content[partIno]) + 1
        BY <1>10, <3>2, LenProperties
      <4>2. CASE i \in 1 .. Len(content[partIno])
        <5>1. i \in DOMAIN content[partIno]
          BY <1>1, <1>5, <4>2, FileType
        <5>2. content[partIno][i][2] = i
          BY <1>8, <3>2, <5>1 DEF IInv, Aligned
        <5> QED
          BY <1>10, <3>2, <4>2, <5>2
      <4>3. CASE i = Len(content[partIno]) + 1
        BY <1>3, <1>4, <1>10, <3>2, <4>3
      <4> QED
        BY <1>9, <4>1, <4>2, <4>3
    <3> QED
      BY <1>8, <3>1, <3>2
  <2> QED
    BY <2>1 DEF Aligned
<1>12. SeparateInv'
  BY <1>2 DEF IInv, SeparateInv
<1>13. \A n \in Nat : OnDisk(n) => OnDisk(n)'
  <2>1. ASSUME NEW f \in DOMAIN content
        PROVE  /\ f \in DOMAIN content' /\ Len(content'[f]) >= Len(content[f])
               /\ Kept(f) => Kept(f)'
    <3>1. Len(content[f]) \in Nat
      BY <1>1, FileType
    <3> QED
      BY <1>2, <1>8, <1>9, <1>10, <3>1 DEF Kept
  <2> QED
    BY <1>1, <2>1, OnDiskGrows
<1>14. \A v \in acked' : OnDisk(Size[v])'
  BY <1>1, <1>2, <1>13, SizeType DEF IInv, TypeOK
<1>15. \/ Len(content'[partIno]) = recvd[c] + 1 /\ buf'[c] = <<>> /\ Len(buf'[c]) = 0
       \/ /\ last /\ Len(content'[partIno]) = recvd[c]
          /\ Len(buf'[c]) = 1 /\ buf'[c][1] = b
  <2>1. Append(<<>>, b) = <<b>> /\ Len(<<b>>) = 1 /\ <<b>>[1] = b
    OBVIOUS
  <2>2. partIno \in DOMAIN content
    BY <1>1, <1>5, FileType
  <2> QED
    BY <1>3, <1>7, <1>10, <2>1, <2>2, EmptySeq
<1>16. PositionInv(c)'
  <2>1. /\ recvd'[c] <= Total(c)
        /\ rpc'[c] = "recv" => recvd'[c] < Total(c)
        /\ rpc'[c] = "close" => recvd'[c] = Total(c)
    BY <1>1, <1>2, <1>3, <1>4
  <2>2. recvd'[c] = Len(content'[partIno]) + Len(buf'[c])
    <3>1. CASE Len(content'[partIno]) = recvd[c] + 1 /\ Len(buf'[c]) = 0
      BY <1>2, <1>4, <3>1
    <3>2. CASE Len(content'[partIno]) = recvd[c] /\ Len(buf'[c]) = 1
      BY <1>2, <3>2
    <3> QED
      BY <1>15, <3>1, <3>2
  <2> QED
    BY <1>2, <1>3, <1>6, <2>1, <2>2 DEF PositionInv, Receiving
<1>17. BufferInv(c)'
  BY <1>1, <1>2, <1>3, <1>4, <1>6, <1>15 DEF BufferInv
<1>18. MoveInv(c)'
  BY <1>2 DEF MoveInv, Received, Moved
<1>19. StreamInv(c)'
  <2>1. /\ spc[c] # "offset"
        /\ sidx[c] - (inflight[c] - 1) = recvd[c] + 1
    BY <1>1, <1>2, <1>3, <1>4 DEF IInv, TypeInv, WireInv
  <2>2. verdict[c] = "ok" => OnDisk(Total(c))'
    BY <1>1, <1>6, <1>13 DEF SlotInv, StreamInv
  <2> QED
    BY <1>2, <1>6, <2>1, <2>2 DEF StreamInv
<1> QED
  BY <1>11, <1>12, <1>14, <1>16, <1>17, <1>18, <1>19 DEF IInv, SlotInv

(* A position past the first part of two lies in the second.               *)
LEMMA PastTheFile ==
  ASSUME NEW m \in Nat, NEW n \in Nat, NEW i \in 1 .. m + n, ~(i <= m)
  PROVE  n # 0
OBVIOUS

(* Closing gives the file its last block, if that was still buffered.      *)
LEMMA ClosePartIInv ==
  ASSUME NEW c, Slots = {c}, IInv, TypeInv', ClosePart(c)
  PROVE  IInv'
<1>1. TypeOK /\ TypeOK' /\ c \in Slots /\ Total(c) \in Nat /\ SlotInv(c)
  BY SizeType DEF IInv, TypeInv, TypeOK, Total
<1>2. /\ rpc[c] = "close" /\ rpc'[c] = "total" /\ buf'[c] = <<>>
      /\ content' = [content EXCEPT ![ino[c]] = @ \o buf[c]]
      /\ UNCHANGED <<source, acked, spc, hver, over, sidx, inflight, offer, verdict,
                     recvd, ino, target, partIno, finals>>
  BY <1>1 DEF ClosePart, GoTo, TypeOK, senderVars, wireVars
<1>3. /\ ino[c] = partIno /\ partIno # NoPart /\ recvd[c] = Total(c)
      /\ Total(c) > 0 => recvd[c] = Len(content[partIno]) + Len(buf[c])
  BY <1>1, <1>2 DEF SlotInv, PositionInv, Receiving
<1>4. partIno \in 1 .. Len(content)
  BY <1>1, <1>3 DEF TypeOK, NoPart
<1>5. content[partIno] \in Seq(Block) /\ buf[c] \in Seq(Block)
  BY <1>1, <1>4, FileType DEF TypeOK
<1>6. /\ Len(content[partIno]) \in Nat /\ Len(buf[c]) \in Nat
      /\ DOMAIN content[partIno] = 1 .. Len(content[partIno])
  BY <1>5, LenProperties
<1>7. /\ DOMAIN content' = DOMAIN content
      /\ \A f \in DOMAIN content \ {partIno} : content'[f] = content[f]
      /\ content'[partIno] = content[partIno] \o buf[c]
  BY <1>1, <1>2, <1>3, <1>4, FileType
<1>8. /\ content'[partIno] \in Seq(Block)
      /\ Len(content'[partIno]) = Len(content[partIno]) + Len(buf[c])
      /\ DOMAIN content'[partIno] = 1 .. Len(content[partIno]) + Len(buf[c])
      /\ \A i \in 1 .. Len(content[partIno]) + Len(buf[c]) :
           content'[partIno][i] = IF i <= Len(content[partIno]) THEN content[partIno][i]
                                  ELSE buf[c][i - Len(content[partIno])]
  <2> DEFINE whole == content[partIno] \o buf[c]
  <2>1. /\ whole \in Seq(Block)
        /\ Len(whole) = Len(content[partIno]) + Len(buf[c])
        /\ \A i \in 1 .. Len(content[partIno]) + Len(buf[c]) :
             whole[i] = IF i <= Len(content[partIno]) THEN content[partIno][i]
                        ELSE buf[c][i - Len(content[partIno])]
    BY <1>5, ConcatProperties
  <2>2. DOMAIN whole = 1 .. Len(content[partIno]) + Len(buf[c])
    BY <2>1, LenProperties
  <2>3. content'[partIno] = whole
    BY <1>7
  <2> HIDE DEF whole
  <2> QED
    BY <2>1, <2>2, <2>3
<1>9. Total(c)' = Total(c)
  BY <1>2 DEF Total
<1>10. Aligned'
  <2>1. ASSUME NEW i \in DOMAIN content'[partIno]
        PROVE  content'[partIno][i][2] = i
    <3>1. i \in 1 .. Len(content[partIno]) + Len(buf[c])
      BY <1>8
    <3>2. CASE i <= Len(content[partIno])
      <4>1. i \in DOMAIN content[partIno] /\ partIno \in DOMAIN content
        BY <1>1, <1>4, <1>6, <3>1, <3>2, FileType
      <4>2. content[partIno][i][2] = i
        BY <4>1 DEF IInv, Aligned
      <4> QED
        BY <1>8, <3>1, <3>2, <4>2
    <3>3. CASE ~(i <= Len(content[partIno]))
      <4>1. buf[c] # <<>>
        <5>1. Len(buf[c]) # 0
          BY <1>6, <3>1, <3>3, PastTheFile
        <5> QED
          BY <5>1, EmptySeq
      <4>2. Total(c) > 0 /\ Len(buf[c]) = 1 /\ buf[c][1][2] = recvd[c]
        BY <1>1, <4>1 DEF SlotInv, BufferInv
      <4>3. i = Len(content[partIno]) + 1 /\ recvd[c] = i
        BY <1>3, <1>6, <3>1, <3>3, <4>2
      <4>4. content'[partIno][i] = buf[c][i - Len(content[partIno])]
        BY <1>8, <3>1, <3>3
      <4>5. i - Len(content[partIno]) = 1
        BY <1>6, <4>3
      <4> QED
        BY <4>2, <4>3, <4>4, <4>5
    <3> QED
      BY <3>2, <3>3
  <2> QED
    BY <1>7, <2>1 DEF IInv, Aligned
<1>11. SeparateInv'
  BY <1>2 DEF IInv, SeparateInv
<1>12. \A n \in Nat : OnDisk(n) => OnDisk(n)'
  <2>1. ASSUME NEW f \in DOMAIN content
        PROVE  /\ f \in DOMAIN content' /\ Len(content'[f]) >= Len(content[f])
               /\ Kept(f) => Kept(f)'
    <3>1. Len(content[f]) \in Nat
      BY <1>1, FileType
    <3>2. f \in DOMAIN content' /\ Len(content'[f]) >= Len(content[f])
      <4>1. CASE f = partIno
        BY <1>6, <1>7, <1>8, <4>1
      <4>2. CASE f # partIno
        BY <1>7, <3>1, <4>2
      <4> QED
        BY <4>1, <4>2
    <3> QED
      BY <1>2, <3>1, <3>2 DEF Kept
  <2> QED
    BY <1>1, <2>1, OnDiskGrows
<1>13. \A v \in acked' : OnDisk(Size[v])'
  BY <1>1, <1>2, <1>12, SizeType DEF IInv, TypeOK
<1>14. PositionInv(c)' /\ BufferInv(c)'
  BY <1>2 DEF PositionInv, BufferInv, Receiving
<1>15. MoveInv(c)'
  BY <1>2, <1>3, <1>8, <1>9 DEF MoveInv, Received, Moved
<1>16. StreamInv(c)'
  <2>1. verdict[c] = "ok" => OnDisk(Total(c))'
    BY <1>1, <1>9, <1>12 DEF SlotInv, StreamInv
  <2> QED
    BY <1>2, <2>1 DEF StreamInv
<1> QED
  BY <1>10, <1>11, <1>13, <1>14, <1>15, <1>16 DEF IInv, SlotInv

(* Moving .part to the name that was picked, which is still free.          *)
LEMMA MovePartIInv ==
  ASSUME NEW c, Slots = {c}, IInv, TypeInv', MovePart(c)
  PROVE  IInv'
<1>1. TypeOK /\ TypeOK' /\ c \in Slots /\ Total(c) \in Nat /\ SlotInv(c)
  BY SizeType DEF IInv, TypeInv, TypeOK, Total
<1>2. /\ rpc[c] = "move" /\ partIno # NoPart
      /\ target[c] = Len(finals) + 1
      /\ Total(c) > 0 => Len(content[partIno]) = Total(c)
  BY <1>1 DEF MovePart, SlotInv, MoveInv, Received
<1>3. finals \in Seq(1 .. Len(content)) /\ partIno \in 1 .. Len(content)
  BY <1>1, <1>2 DEF TypeOK, NoPart
<1>4. Len(finals) \in Nat
  BY <1>3, LenProperties
<1>5. /\ finals' = Append(finals, partIno) /\ partIno' = NoPart /\ rpc'[c] = "unlink"
      /\ UNCHANGED <<source, acked, spc, hver, over, sidx, inflight, offer, verdict,
                     recvd, ino, buf, target, content>>
  BY <1>1, <1>2, <1>4 DEF MovePart, GoTo, TypeOK, senderVars
<1>6. /\ DOMAIN finals = 1 .. Len(finals)
      /\ DOMAIN finals' = 1 .. Len(finals) + 1
      /\ finals'[Len(finals) + 1] = partIno
      /\ \A k \in 1 .. Len(finals) : finals'[k] = finals[k]
  BY <1>3, <1>5, AppendProperties, LenProperties
<1>7. Total(c)' = Total(c)
  BY <1>5 DEF Total
<1>8. Aligned'
  BY <1>5 DEF IInv, Aligned
<1>9. SeparateInv'
  <2>1. \A k \in DOMAIN finals' : finals'[k] \in 1 .. Len(content')
    BY <1>1, <1>3, <1>5, <1>6, FileType
  <2> QED
    BY <1>5, <2>1 DEF SeparateInv, NoPart
<1>10. \A n \in Nat : OnDisk(n) => OnDisk(n)'
  <2>1. ASSUME NEW f \in DOMAIN content
        PROVE  /\ f \in DOMAIN content' /\ Len(content'[f]) >= Len(content[f])
               /\ Kept(f) => Kept(f)'
    <3>1. Len(content[f]) \in Nat
      BY <1>1, FileType
    <3>2. Kept(f) => Kept(f)'
      BY <1>4, <1>6 DEF Kept
    <3> QED
      BY <1>5, <3>1, <3>2
  <2> QED
    BY <1>1, <2>1, OnDiskGrows
<1>11. \A v \in acked' : OnDisk(Size[v])'
  BY <1>1, <1>5, <1>10, SizeType DEF IInv, TypeOK
<1>12. PositionInv(c)' /\ BufferInv(c)'
  BY <1>1, <1>2, <1>5 DEF SlotInv, PositionInv, BufferInv, Receiving
<1>13. MoveInv(c)'
  BY <1>2, <1>4, <1>5, <1>6, <1>7 DEF MoveInv, Received, Moved
<1>14. StreamInv(c)'
  <2>1. verdict[c] = "ok" => OnDisk(Total(c))'
    BY <1>1, <1>7, <1>10 DEF SlotInv, StreamInv
  <2> QED
    BY <1>5, <2>1 DEF StreamInv
<1> QED
  BY <1>8, <1>9, <1>11, <1>12, <1>13, <1>14 DEF IInv, SlotInv

LEMMA IInvInit ==
  ASSUME NEW c, Slots = {c}, Init
  PROVE  IInv
<1>1. /\ content = <<>> /\ finals = <<>> /\ partIno = NoPart /\ acked = {}
      /\ rpc[c] = "idle" /\ buf[c] = <<>> /\ verdict[c] = "none"
  BY DEF Init
<1>2. DOMAIN content = {} /\ DOMAIN finals = {}
  BY <1>1
<1>3. Aligned /\ SeparateInv
  BY <1>2 DEF Aligned, SeparateInv
<1>4. SlotInv(c)
  BY <1>1 DEF SlotInv, PositionInv, BufferInv, MoveInv, StreamInv, Receiving, Received, Moved
<1> QED
  BY <1>1, <1>3, <1>4, TypeInvInit DEF IInv

LEMMA IInvStep ==
  ASSUME NEW c, Slots = {c}, IInv, [Next]_vars
  PROVE  IInv'
<1>1. TypeInv'
  BY TypeInvStep DEF IInv
<1>2. CASE UNCHANGED vars
  <2>1. UNCHANGED <<content, partIno, finals, acked>>
        /\ UNCHANGED <<spc, hver, over, sidx, inflight, offer, verdict, rpc, recvd, ino,
                       buf, target>>
    BY <1>2 DEF vars, senderVars, wireVars, handlerVars, diskVars
  <2>2. SlotInv(c) => SlotInv(c)'
    BY <2>1 DEF SlotInv, PositionInv, BufferInv, MoveInv, StreamInv, OnDisk, Kept, Total
  <2>3. SlotInv(c)'
    BY <2>2 DEF IInv
  <2> QED
    BY <1>1, <2>1, <2>3, StillInv
<1>3. CASE ChangeSource \/ Crash
  BY <1>1, <1>3, ControlIInv
<1>4. CASE SenderStep(c) \/ HandlerStep(c) \/ FaultStep(c)
  BY <1>1, <1>4, SenderIInv, ControlIInv, OpenIInv, RecvBlockIInv, ClosePartIInv,
     MovePartIInv DEF HandlerStep, FaultStep
<1> QED
  BY <1>2, <1>3, <1>4 DEF Next

(* One connection at a time: a resume never repeats, skips or shifts a     *)
(* block, whatever is cut, crashes or is left behind in the sidecar.       *)
THEOREM ResumeAligned ==
  ASSUME NEW c, Slots = {c}
  PROVE  Spec => []Aligned
<1>1. Init => IInv
  BY IInvInit
<1>2. IInv /\ [Next]_vars => IInv'
  BY IInvStep
<1>3. IInv => Aligned
  BY DEF IInv
<1> QED
  BY <1>1, <1>2, <1>3, PTL DEF Spec

(* One connection at a time: the final name a handler published shows the  *)
(* announced number of bytes.                                              *)
THEOREM PublishedWhole ==
  ASSUME NEW c, Slots = {c}
  PROVE  Spec => []DeliveredWhole
<1>1. Init => IInv
  BY IInvInit
<1>2. IInv /\ [Next]_vars => IInv'
  BY IInvStep
<1>3. IInv => DeliveredWhole
  BY DEF IInv, SlotInv, MoveInv, Moved, DeliveredWhole
<1> QED
  BY <1>1, <1>2, <1>3, PTL DEF Spec

(* One connection at a time: what the sender was told is there is on the   *)
(* receiver's disk, in every later state, crashes included.                *)
THEOREM AckedIsOnDisk ==
  ASSUME NEW c, Slots = {c}
  PROVE  Spec => []AckedOnDisk
<1>1. Init => IInv
  BY IInvInit
<1>2. IInv /\ [Next]_vars => IInv'
  BY IInvStep
<1>3. IInv => AckedOnDisk
  BY DEF IInv, OnDisk, Kept, AckedOnDisk
<1> QED
  BY <1>1, <1>2, <1>3, PTL DEF Spec

(* What a step may never do to a file under a final name.                  *)
FinalsKept ==
  \A k \in DOMAIN finals :
    /\ k \in DOMAIN finals'
    /\ finals'[k] = finals[k]
    /\ content'[finals[k]] = content[finals[k]]

LEMMA FinalsKeptStep ==
  ASSUME NEW c, Slots = {c}, IInv, [Next]_vars
  PROVE  FinalsKept
<1>1. CASE UNCHANGED <<content, finals>>
  BY <1>1 DEF FinalsKept
<1>2. TypeOK /\ SlotInv(c) /\ SeparateInv /\ c \in Slots
  BY DEF IInv, TypeInv
<1>3. \A k \in DOMAIN finals : finals[k] \in DOMAIN content /\ finals[k] # partIno
  BY <1>2, FileType DEF SeparateInv
<1>4. CASE OpenPart(c)
  <2>1. finals' = finals
    BY <1>4 DEF OpenPart
  <2>2. content' = content \/ content' = Append(content, <<>>)
    BY <1>4 DEF OpenPart
  <2>3. content \in Seq(Seq(Block)) /\ <<>> \in Seq(Block)
    BY <1>2, EmptySeq DEF TypeOK
  <2>4. \A f \in DOMAIN content : content'[f] = content[f]
    <3>1. DOMAIN content = 1 .. Len(content)
      BY <2>3, LenProperties
    <3>2. CASE content' = Append(content, <<>>)
      <4>1. \A f \in 1 .. Len(content) : Append(content, <<>>)[f] = content[f]
        BY <2>3, AppendProperties
      <4> QED
        BY <3>1, <3>2, <4>1
    <3> QED
      BY <2>2, <3>2
  <2> QED
    BY <1>3, <2>1, <2>4 DEF FinalsKept
<1>5. CASE RecvBlock(c) \/ ClosePart(c)
  <2>1. ino[c] = partIno
    BY <1>2, <1>5 DEF RecvBlock, ClosePart, SlotInv, PositionInv, Receiving
  <2>2. finals' = finals
    BY <1>5 DEF RecvBlock, ClosePart
  <2>3. content' = content \/ \E e : content' = [content EXCEPT ![ino[c]] = e]
    <3>1. CASE RecvBlock(c)
      BY <3>1 DEF RecvBlock
    <3>2. CASE ClosePart(c)
      BY <3>2 DEF ClosePart
    <3> QED
      BY <1>5, <3>1, <3>2
  <2>4. \A f \in DOMAIN content : f # partIno => content'[f] = content[f]
    BY <2>1, <2>3
  <2> QED
    BY <1>3, <2>2, <2>4 DEF FinalsKept
<1>6. CASE MovePart(c)
  <2>1. rpc[c] = "move" /\ content' = content
    BY <1>6 DEF MovePart
  <2>2. partIno # NoPart /\ target[c] = Len(finals) + 1
    BY <1>2, <2>1 DEF SlotInv, MoveInv, Received
  <2>3. finals \in Seq(1 .. Len(content)) /\ partIno \in 1 .. Len(content)
    BY <1>2, <2>2 DEF TypeOK, NoPart
  <2>4. Len(finals) \in Nat /\ DOMAIN finals = 1 .. Len(finals)
    BY <2>3, LenProperties
  <2>5. finals' = Append(finals, partIno)
    BY <1>6, <2>2, <2>4 DEF MovePart
  <2>6. /\ \A k \in 1 .. Len(finals) : finals'[k] = finals[k]
        /\ DOMAIN finals' = 1 .. Len(finals) + 1
    BY <2>3, <2>5, AppendProperties, LenProperties
  <2> QED
    BY <2>1, <2>4, <2>6 DEF FinalsKept
<1>7. CASE ChangeSource \/ Crash \/ SenderStep(c) \/ FaultStep(c)
  <2>1. UNCHANGED <<content, finals>>
    BY <1>7 DEF ChangeSource, Crash, SenderStep, FaultStep, SendHeader, RecvOffset, SendBlock,
                SendEof, RecvAck, RecvEof, AckTimeout, AbortSend, Refuse, RecvTimeout, diskVars
  <2> QED
    BY <1>1, <2>1
<1>8. CASE \/ MarkProgress(c) \/ RecvCut(c) \/ AbortRecv(c) \/ MarkTotal(c) \/ PickName(c)
           \/ UnlinkSidecar(c) \/ SendAck(c) \/ Notify(c)
  <2>1. UNCHANGED <<content, finals>>
    BY <1>8 DEF MarkProgress, RecvCut, AbortRecv, MarkTotal, PickName, UnlinkSidecar,
                SendAck, Notify, diskVars
  <2> QED
    BY <1>1, <2>1
<1>9. CASE UNCHANGED vars
  BY <1>1, <1>9 DEF vars, diskVars
<1> QED
  BY <1>4, <1>5, <1>6, <1>7, <1>8, <1>9 DEF Next, HandlerStep

(* One connection at a time: a file under a final name is never written    *)
(* to, replaced or renamed again.                                          *)
THEOREM FinalNamesImmutable ==
  ASSUME NEW c, Slots = {c}
  PROVE  Spec => FinalsImmutable
<1>1. Init => IInv
  BY IInvInit
<1>2. IInv /\ [Next]_vars => IInv'
  BY IInvStep
<1>3. IInv /\ [Next]_vars => [FinalsKept]_vars
  BY FinalsKeptStep
<1> QED
  BY <1>1, <1>2, <1>3, PTL DEF Spec, FinalsImmutable, FinalsKept

----------------------------------------------------------------------------
(* The window                                                              *)

Good == {"clicked", "trusted"}

(* The settings page lists the file, or is about to, or could not read it. *)
RowsTrue == blind \/ desk = "refresh" \/ rows = trusted

(* Only a handler at its header has a question.  It goes on from there     *)
(* with a yes that was given for it, and the slot keeps what let it in.    *)
AskInv ==
  \A s \in Slots :
    /\ question[s] # "none" => rpc[s] = "header"
    /\ rpc[s] = "header" => verdict[s] # "ok"
    /\ question[s] = "yes" => leave[s] \in Good
    /\ rpc[s] \notin {"idle", "header"} \/ verdict[s] = "ok" => leave[s] \in Good

CInv == ConsentTypeOK /\ RowsTrue /\ AskInv

----------------------------------------------------------------------------
(* The refinement                                                          *)

LEMMA DeskRefines == Desk \/ User => UNCHANGED vars
  BY DEF Desk, User, Save, RefreshRows, SaveConfig, SetAutoAccept, ClickStale, TrustDevice,
         PairFromUri, AddManually, Untrust, RecordPairing

LEMMA AskRefines ==
  ASSUME NEW s \in Slots,
         Ask(s) \/ ShowDialog(s) \/ ClickAccept(s) \/ ClickRefuse(s) \/ TimeOut(s)
  PROVE  UNCHANGED vars
  BY DEF Ask, ShowDialog, ClickAccept, ClickRefuse, TimeOut

LEMMA ConsentStepRefines == [ConsentNext]_allVars => [Next]_vars
<1> SUFFICES ASSUME [ConsentNext]_allVars PROVE [Next]_vars
  OBVIOUS
<1>1. CASE Desk \/ User
  BY <1>1, DeskRefines
<1>2. CASE Changes \/ Dies
  BY <1>2 DEF Changes, Dies, Next
<1>3. ASSUME NEW s \in Slots, Send(s) \/ Handle(s) \/ Refused(s) \/ Fails(s)
      PROVE  [Next]_vars
  BY <1>3 DEF Send, Handle, Refused, Fails, Next, FaultStep
<1>4. ASSUME NEW s \in Slots,
             Ask(s) \/ ShowDialog(s) \/ ClickAccept(s) \/ ClickRefuse(s) \/ TimeOut(s)
      PROVE  [Next]_vars
  BY <1>4, AskRefines
<1>5. CASE UNCHANGED allVars
  BY <1>5 DEF allVars
<1> QED
  BY <1>1, <1>2, <1>3, <1>4, <1>5 DEF ConsentNext

(* Whatever the user, the trust file and the dialogs do, sender and        *)
(* receiver only ever take the steps of ResumeTransfer.                    *)
THEOREM ConsentImplementsResume == ConsentSpec => Spec
<1>1. ConsentInit => Init
  BY DEF ConsentInit
<1> QED
  BY <1>1, ConsentStepRefines, PTL DEF ConsentSpec, Spec

(* So its types, and with one connection at a time its promises, hold      *)
(* under the window as well.                                               *)
THEOREM ConsentedTransfers ==
  ASSUME NEW c, Slots = {c}
  PROVE  ConsentSpec => [](Aligned /\ DeliveredWhole /\ AckedOnDisk)
<1>1. Spec => []Aligned
  BY ResumeAligned
<1>2. Spec => []DeliveredWhole
  BY PublishedWhole
<1>3. Spec => []AckedOnDisk
  BY AckedIsOnDisk
<1> QED
  BY <1>1, <1>2, <1>3, ConsentImplementsResume, PTL

----------------------------------------------------------------------------
(* What the transfer does to handlers and verdicts                         *)

LEMMA SenderMoves ==
  ASSUME NEW s \in Slots, SenderStep(s)
  PROVE  \/ UNCHANGED <<rpc, verdict>>
         \/ /\ rpc[s] = "idle"
            /\ rpc' = [rpc EXCEPT ![s] = "header"]
            /\ verdict' = [verdict EXCEPT ![s] = "none"]
<1>1. CASE SendHeader(s)
  BY <1>1 DEF SendHeader, HandlerGone, GoTo
<1>2. CASE RecvOffset(s) \/ SendBlock(s) \/ SendEof(s) \/ RecvAck(s) \/ RecvEof(s)
           \/ AckTimeout(s)
  BY <1>2 DEF RecvOffset, SendBlock, SendEof, RecvAck, RecvEof, AckTimeout, wireVars,
              handlerVars
<1> QED
  BY <1>1, <1>2 DEF SenderStep

LEMMA HandlerMoves ==
  ASSUME TypeOK, NEW s \in Slots, HandlerStep(s)
  PROVE  /\ rpc[s] # "idle" /\ rpc'[s] # "header"
         /\ \A t \in Slots \ {s} : rpc'[t] = rpc[t] /\ verdict'[t] = verdict[t]
<1> USE DEF TypeOK, wireVars, GoTo, HandlerFails
<1>1. CASE OpenPart(s) \/ MarkProgress(s) \/ RecvBlock(s) \/ RecvCut(s)
  <2>1. CASE OpenPart(s)
    BY <2>1 DEF OpenPart
  <2>2. CASE MarkProgress(s) \/ RecvCut(s)
    BY <2>2 DEF MarkProgress, RecvCut
  <2>3. CASE RecvBlock(s)
    BY <2>3 DEF RecvBlock
  <2> QED
    BY <1>1, <2>1, <2>2, <2>3
<1>2. CASE AbortRecv(s) \/ ClosePart(s) \/ MarkTotal(s) \/ PickName(s)
  BY <1>2 DEF AbortRecv, ClosePart, MarkTotal, PickName
<1>3. CASE MovePart(s) \/ SendAck(s)
  BY <1>3 DEF MovePart, SendAck
<1>4. CASE UnlinkSidecar(s) \/ Notify(s)
  BY <1>4 DEF UnlinkSidecar, Notify
<1> QED
  BY <1>1, <1>2, <1>3, <1>4 DEF HandlerStep
----------------------------------------------------------------------------
(* Every step keeps the invariant                                          *)

LEMMA NobodyListed == Nobody \in [Devices -> Places]
  BY DEF Nobody, Places

LEMMA CInvInit == ConsentAssumption /\ ConsentInit => CInv
<1> SUFFICES ASSUME ConsentAssumption, ConsentInit PROVE CInv
  OBVIOUS
<1>1. PICK kept \in Starts : trusted = kept[1] /\ enabled = kept[2]
  BY DEF ConsentInit
<1>2. trusted \in [Devices -> Places] /\ enabled \in BOOLEAN
  BY <1>1 DEF ConsentAssumption
<1>3. ConsentTypeOK /\ RowsTrue
  BY <1>2, NobodyListed DEF ConsentInit, ConsentTypeOK, RowsTrue
<1>4. AskInv
  BY DEF ConsentInit, Init, AskInv
<1> QED
  BY <1>3, <1>4 DEF CInv

LEMMA RecordPairingKeeps ==
  ASSUME CInv, NEW d \in Devices, NEW address \in {"none", "nowhere", "peer"},
         RecordPairing(d, address)
  PROVE  CInv'
<1> USE DEF CInv, RecordPairing, trustVars, askVars, vars, wireVars, senderVars, handlerVars,
            diskVars
<1>1. PICK old \in Loaded :
        store' = [old EXCEPT ![d] = IF address # "none" THEN address
                                    ELSE IF @ = "absent" THEN "nowhere" ELSE @]
  OBVIOUS
<1>2. old \in [Devices -> Places]
  BY NobodyListed DEF Loaded, ConsentTypeOK
<1>3. store' \in [Devices -> Places]
  BY <1>1, <1>2 DEF Places
<1>4. ConsentTypeOK'
  BY <1>3 DEF ConsentTypeOK
<1>5. RowsTrue'
  BY DEF RowsTrue
<1>6. AskInv'
  BY DEF AskInv
<1> QED
  BY <1>4, <1>5, <1>6

LEMMA DeskKeeps ==
  ASSUME CInv, Desk \/ User
  PROVE  CInv'
<1> USE DEF CInv, trustVars, askVars, vars, wireVars, senderVars, handlerVars, diskVars
<1>1. CASE Save
  BY <1>1, NobodyListed DEF Save, ConsentTypeOK, RowsTrue, AskInv
<1>2. CASE RefreshRows
  BY <1>2, NobodyListed DEF RefreshRows, Loaded, ConsentTypeOK, RowsTrue, AskInv
<1>3. CASE SaveConfig \/ SetAutoAccept \/ ClickStale
  <2>1. UNCHANGED <<rpc, verdict, question, leave, trusted, rows, blind, store>>
    BY <1>3 DEF SaveConfig, SetAutoAccept, ClickStale
  <2>2. /\ enabled' \in {enabled, ~enabled} /\ stale' \in {stale, FALSE}
        /\ desk # "refresh" /\ desk' \in {"free", "config"}
        /\ changes' \in {changes, changes + 1}
    BY <1>3 DEF SaveConfig, SetAutoAccept, ClickStale
  <2>3. enabled' \in BOOLEAN /\ stale' \in BOOLEAN
    BY <2>2 DEF ConsentTypeOK
  <2> QED
    BY <2>1, <2>2, <2>3 DEF ConsentTypeOK, RowsTrue, AskInv
<1>4. ASSUME NEW d \in Devices, Untrust(d)
      PROVE  CInv'
  <2>1. PICK old \in Loaded : /\ store' = [old EXCEPT ![d] = "absent"]
                              /\ desk' = IF old[d] = "absent" THEN "refresh" ELSE "save"
    BY <1>4 DEF Untrust
  <2>2. store' \in [Devices -> Places]
    BY <2>1, NobodyListed DEF Loaded, ConsentTypeOK, Places
  <2>3. desk' \in {"refresh", "save"} /\ desk = "free"
    BY <1>4, <2>1 DEF Untrust
  <2> QED
    BY <1>4, <2>2, <2>3 DEF Untrust, ConsentTypeOK, RowsTrue, AskInv
<1>5. ASSUME NEW d \in Devices, TrustDevice(d) \/ PairFromUri(d) \/ AddManually(d)
      PROVE  CInv'
  BY <1>5, RecordPairingKeeps DEF TrustDevice, PairFromUri, AddManually
<1> QED
  BY <1>1, <1>2, <1>3, <1>4, <1>5 DEF Desk, User

(* A handler that is asked about goes on only with a yes, and that is      *)
(* either a click or a trust in the file, which is then listed.            *)
LEMMA AskKeeps ==
  ASSUME CInv, NEW s \in Slots,
         Ask(s) \/ ShowDialog(s) \/ ClickAccept(s) \/ ClickRefuse(s) \/ TimeOut(s)
  PROVE  CInv'
<1> USE DEF CInv, trustVars, vars, wireVars, senderVars, handlerVars, diskVars
<1>1. CASE Ask(s)
  <2>1. PICK devices \in Loaded :
          IF enabled /\ IsTrusted(devices)
            THEN /\ question' = [question EXCEPT ![s] = "yes"]
                 /\ leave' = [leave EXCEPT ![s] = IF Listed THEN "trusted" ELSE "unseen"]
            ELSE /\ question' = [question EXCEPT ![s] = "posted"]
                 /\ leave' = [leave EXCEPT ![s] = "none"]
    BY <1>1 DEF Ask
  <2>2. IsTrusted(devices) => devices = trusted
    BY <2>1 DEF Loaded, IsTrusted, Nobody
  <2>3. IsTrusted(devices) => Listed
    BY <2>2 DEF Listed, RowsTrue
  <2>4. rpc[s] = "header" /\ verdict[s] # "ok"
    BY <1>1 DEF Ask, AskInv
  <2> QED
    BY <1>1, <2>1, <2>3, <2>4 DEF Ask, ConsentTypeOK, RowsTrue, AskInv, Good
<1>2. CASE ShowDialog(s)
  BY <1>2 DEF ShowDialog, ConsentTypeOK, RowsTrue, AskInv
<1>3. CASE ClickAccept(s)
  BY <1>3 DEF ClickAccept, ConsentTypeOK, RowsTrue, AskInv, Good
<1>4. CASE ClickRefuse(s) \/ TimeOut(s)
  BY <1>4 DEF ClickRefuse, TimeOut, ConsentTypeOK, RowsTrue, AskInv
<1> QED
  BY <1>1, <1>2, <1>3, <1>4

LEMMA TransferKeeps ==
  ASSUME CInv, TypeOK, NEW s \in Slots, Send(s) \/ Handle(s) \/ Refused(s) \/ Fails(s)
  PROVE  CInv'
<1> USE DEF CInv
<1>1. CASE Send(s)
  <2>1. UNCHANGED consentVars /\ SenderStep(s)
    BY <1>1 DEF Send
  <2>2. ConsentTypeOK' /\ RowsTrue'
    BY <2>1 DEF consentVars, trustVars, askVars, ConsentTypeOK, RowsTrue
  <2>3. UNCHANGED <<question, leave>>
    BY <2>1 DEF consentVars, askVars
  <2>4. CASE UNCHANGED <<rpc, verdict>>
    BY <2>2, <2>3, <2>4 DEF AskInv
  <2>5. CASE /\ rpc[s] = "idle"
             /\ rpc' = [rpc EXCEPT ![s] = "header"]
             /\ verdict' = [verdict EXCEPT ![s] = "none"]
    <3>1. rpc'[s] = "header" /\ verdict'[s] = "none" /\ question[s] = "none"
      BY <2>5 DEF TypeOK, AskInv
    <3>2. \A t \in Slots \ {s} : rpc'[t] = rpc[t] /\ verdict'[t] = verdict[t]
      BY <2>5 DEF TypeOK
    <3> QED
      BY <2>2, <2>3, <3>1, <3>2 DEF AskInv
  <2> QED
    BY <2>1, <2>4, <2>5, SenderMoves
<1>2. CASE Handle(s)
  <2>1. /\ HandlerStep(s) /\ UNCHANGED <<stale, leave, trustVars>>
        /\ rpc[s] = "header" => question[s] = "yes"
        /\ question' = [question EXCEPT ![s] = "none"]
    BY <1>2 DEF Handle
  <2>2. ConsentTypeOK' /\ RowsTrue'
    BY <2>1 DEF trustVars, ConsentTypeOK, RowsTrue
  <2>3. leave[s] \in Good /\ leave' = leave
    BY <2>1, HandlerMoves DEF AskInv
  <2>4. AskInv'
    BY <2>1, <2>3, HandlerMoves DEF AskInv, ConsentTypeOK
  <2> QED
    BY <2>2, <2>4
<1>3. CASE Refused(s)
  <2>1. /\ Refuse(s) /\ UNCHANGED <<stale, leave, trustVars>>
        /\ question' = [question EXCEPT ![s] = "none"]
    BY <1>3 DEF Refused
  <2>2. ConsentTypeOK' /\ RowsTrue'
    BY <2>1 DEF trustVars, ConsentTypeOK, RowsTrue
  <2>3. AskInv'
    BY <2>1 DEF Refuse, HandlerFails, GoTo, AskInv, ConsentTypeOK, TypeOK
  <2> QED
    BY <2>2, <2>3
<1>4. CASE Fails(s)
  <2>1. UNCHANGED consentVars /\ (AbortSend(s) \/ RecvTimeout(s))
    BY <1>4 DEF Fails
  <2>2. ConsentTypeOK' /\ RowsTrue'
    BY <2>1 DEF consentVars, trustVars, askVars, ConsentTypeOK, RowsTrue
  <2>3. AskInv'
    BY <2>1 DEF consentVars, askVars, AskInv, TypeOK, AbortSend, RecvTimeout, GoTo, wireVars,
                handlerVars
  <2> QED
    BY <2>2, <2>3
<1> QED
  BY <1>1, <1>2, <1>3, <1>4

LEMMA RestKeeps ==
  ASSUME CInv, TypeOK, Changes \/ Dies
  PROVE  CInv'
<1> USE DEF CInv
<1>1. CASE Changes
  BY <1>1 DEF Changes, ChangeSource, consentVars, trustVars, askVars, wireVars, handlerVars,
              ConsentTypeOK, RowsTrue, AskInv
<1>2. CASE Dies
  <2>1. ConsentTypeOK' /\ RowsTrue'
    BY <1>2, NobodyListed DEF Dies, Loaded, ConsentTypeOK, RowsTrue
  <2>2. /\ leave' = leave /\ question' = [s \in Slots |-> "none"]
        /\ verdict' = verdict /\ \A s \in Slots : rpc'[s] = "idle"
    BY <1>2 DEF Dies, Crash, HandlerGone, TypeOK, vars, wireVars, handlerVars
  <2>3. ASSUME NEW s \in Slots
        PROVE  verdict[s] = "ok" => leave[s] \in Good
    BY DEF AskInv
  <2>4. AskInv'
    BY <2>2, <2>3 DEF AskInv
  <2> QED
    BY <2>1, <2>4
<1> QED
  BY <1>1, <1>2

LEMMA CInvStep == CInv /\ TypeOK /\ [ConsentNext]_allVars => CInv'
<1> SUFFICES ASSUME CInv, TypeOK, [ConsentNext]_allVars PROVE CInv'
  OBVIOUS
<1>1. CASE UNCHANGED allVars
  BY <1>1 DEF allVars, vars, wireVars, senderVars, handlerVars, diskVars, consentVars,
              trustVars, askVars, CInv, ConsentTypeOK, RowsTrue, AskInv
<1>2. CASE ConsentNext
  BY <1>2, DeskKeeps, AskKeeps, TransferKeeps, RestKeeps DEF ConsentNext
<1> QED
  BY <1>1, <1>2

LEMMA ConsentInvariant == ConsentSpec => []CInv
<1>1. Spec => []TypeOK
  BY TypeCorrect
<1>2. ConsentInit => CInv
  BY CInvInit, ConsentAssumption
<1> QED
  BY <1>1, <1>2, CInvStep, ConsentImplementsResume, PTL DEF ConsentSpec

(* The window's variables keep their types.                                *)
THEOREM ConsentTypeCorrect == ConsentSpec => []ConsentTypeOK
  BY ConsentInvariant, PTL DEF CInv

(* For any number of connections, devices and faults, no handler writes or *)
(* acknowledges what neither a click for its own request nor a trust that  *)
(* the settings page lists has let in.                                     *)
THEOREM NothingIsUnasked == ConsentSpec => []NothingUnasked
<1>1. CInv => NothingUnasked
  BY DEF CInv, AskInv, NothingUnasked, Good
<1> QED
  BY <1>1, ConsentInvariant, PTL
===============================================================================
