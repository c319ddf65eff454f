--------------------------- MODULE ResumeTransfer ---------------------------
(***************************************************************************)
(* Resumable transfer (mode 0x03) of one file name from a FileSender to a  *)
(* FileReceiverServer: discovery/transfer.py, _send_resume and             *)
(* _handle_resume with its helpers.                                        *)
(*                                                                         *)
(* A file is a sequence of blocks of RESUME_IO_CHUNK bytes; block i of     *)
(* version v of the source is <<v, i>>.  Each slot is one TCP connection:  *)
(* a sender attempt and the handler thread that serves it.  With one slot  *)
(* a retry starts after the earlier handler has returned; with two, the    *)
(* retry overlaps it, which nothing in the server prevents.                *)
(***************************************************************************)
EXTENDS Integers, Sequences

CONSTANTS
  Slots,        \* connections that may be open at one time
  Size,         \* Size[v] is the number of blocks of version v of the source
  Mark,         \* blocks between two sidecar writes (1 MiB / 64 KiB in the code)
  MaxPayload,   \* MAX_PAYLOAD_SIZE in blocks
  Window,       \* bound: blocks in flight on a connection
  MaxFaults     \* bound: crashes, aborted attempts, refusals and timeouts

Versions == DOMAIN Size

ASSUME SizeAssumption == Size \in Seq(Nat) /\ Size # <<>>
ASSUME BoundsAssumption ==
  /\ Mark \in Nat \ {0}
  /\ MaxPayload \in Nat
  /\ Window \in Nat
  /\ MaxFaults \in Nat

Block == Versions \X (Nat \ {0})
NoOffer == -1
NoSidecar == [ver |-> 0, received |-> 0]
Sidecar == [ver : Versions, received : Nat] \cup {NoSidecar}
NoPart == 0
HandlerPc == {"idle", "header", "mark", "recv", "abort", "close", "total", "pick",
              "move", "unlink", "ack", "notify"}

VARIABLES
  source,    \* the version of the file the sender's disk holds now
  acked,     \* versions whose send_file returned without an exception
  spc,       \* where the sender of a slot stands
  hver,      \* the version whose size and mtime the header announced
  over,      \* the version the sender opened after it read the offset
  sidx,      \* blocks of over the sender has read and sent
  inflight,  \* how many of those the receiver has not read yet
  offer,     \* the 8-byte offset on its way to the sender
  verdict,   \* the final ACK byte on its way to the sender
  rpc,       \* where the handler of a slot stands
  recvd,     \* its local `received`
  ino,       \* the file its handle is open on
  buf,       \* blocks in its BufferedWriter, not yet given to the kernel
  target,    \* the final name it picked: 1 for <name>, k + 1 for <name>_k
  content,   \* the contents of every file created on the receiver's disk
  partIno,   \* the file that <name>.part names, or NoPart
  finals,    \* the files under the final names, in the order they are picked
  sidecar,   \* <name>.part.json
  notified,  \* final names told to the history and to on_file_received
  faults     \* faults so far

senderVars == <<source, acked, spc, hver, over, sidx>>
wireVars == <<inflight, offer, verdict>>
handlerVars == <<rpc, recvd, ino, buf, target>>
diskVars == <<content, partIno, finals, sidecar>>
vars == <<senderVars, wireVars, handlerVars, diskVars, notified, faults>>

----------------------------------------------------------------------------
(* Helpers                                                                 *)

Total(s) == Size[hver[s]]

Least(a, b) == IF a <= b THEN a ELSE b

(* What _read_sidecar answers: the recorded position when the record is of *)
(* the announced size and mtime, and 0 otherwise.                          *)
ReadSidecar(v) ==
  IF sidecar.ver = v /\ sidecar.received <= Size[v] THEN sidecar.received ELSE 0

(* Mutant: the sidecar is believed, whatever is on the disk.               *)
StartOffsetFromSidecar(claimed, actual, total) == Least(claimed, total)

(* The offset _handle_resume answers, from what the sidecar claims and the *)
(* length of .part on disk.                                                *)
StartOffset(claimed, actual, total) ==
  LET offset == Least(Least(claimed, actual), total)
  IN  IF actual > offset THEN Least(actual, total) ELSE offset

(* The next block of the connection, in the order TCP delivers.            *)
NextBlock(s) == <<over[s], sidx[s] - inflight[s] + 1>>

SenderGone(s) == spc[s] = "idle"
HandlerGone(s) == rpc[s] = "idle"

Fault == faults < MaxFaults /\ faults' = faults + 1

(* Any exception in _handle_resume: the 0 byte, then the connection closes.*)
HandlerFails(s) ==
  /\ rpc' = [rpc EXCEPT ![s] = "idle"]
  /\ verdict' = [verdict EXCEPT ![s] = "no"]

GoTo(s, pc) == rpc' = [rpc EXCEPT ![s] = pc]

TypeOK ==
  /\ source \in Versions
  /\ acked \in SUBSET Versions
  /\ spc \in [Slots -> {"idle", "offset", "send", "wait"}]
  /\ hver \in [Slots -> Versions]
  /\ over \in [Slots -> Versions]
  /\ sidx \in [Slots -> Nat]
  /\ inflight \in [Slots -> Nat]
  /\ offer \in [Slots -> Nat \cup {NoOffer}]
  /\ verdict \in [Slots -> {"none", "ok", "no"}]
  /\ rpc \in [Slots -> HandlerPc]
  /\ recvd \in [Slots -> Nat]
  /\ ino \in [Slots -> 0 .. Len(content)]
  /\ buf \in [Slots -> Seq(Block)]
  /\ target \in [Slots -> Nat \ {0}]
  /\ content \in Seq(Seq(Block))
  /\ partIno \in 0 .. Len(content)
  /\ finals \in Seq(1 .. Len(content))
  /\ sidecar \in Sidecar
  /\ notified \in SUBSET (1 .. Len(finals))
  /\ faults \in 0 .. MaxFaults

Init ==
  /\ source = 1
  /\ acked = {}
  /\ spc = [s \in Slots |-> "idle"]
  /\ hver = [s \in Slots |-> 1]
  /\ over = [s \in Slots |-> 1]
  /\ sidx = [s \in Slots |-> 0]
  /\ inflight = [s \in Slots |-> 0]
  /\ offer = [s \in Slots |-> NoOffer]
  /\ verdict = [s \in Slots |-> "none"]
  /\ rpc = [s \in Slots |-> "idle"]
  /\ recvd = [s \in Slots |-> 0]
  /\ ino = [s \in Slots |-> 0]
  /\ buf = [s \in Slots |-> <<>>]
  /\ target = [s \in Slots |-> 1]
  /\ content = <<>>
  /\ partIno = NoPart
  /\ finals = <<>>
  /\ sidecar = NoSidecar
  /\ notified = {}
  /\ faults = 0

----------------------------------------------------------------------------
(* The sender                                                              *)

(* The user saves a new version over the file.                             *)
ChangeSource ==
  /\ source < Len(Size)
  /\ source' = source + 1
  /\ UNCHANGED <<acked, spc, hver, over, sidx, wireVars, handlerVars, diskVars,
                 notified, faults>>

(* send_file(resume=True) on a file not yet acknowledged: size and mtime   *)
(* are read, the connection opens, the header goes out.                    *)
SendHeader(s) ==
  /\ SenderGone(s) /\ HandlerGone(s)
  /\ source \notin acked
  /\ Size[source] <= MaxPayload
  /\ spc' = [spc EXCEPT ![s] = "offset"]
  /\ hver' = [hver EXCEPT ![s] = source]
  /\ sidx' = [sidx EXCEPT ![s] = 0]
  /\ inflight' = [inflight EXCEPT ![s] = 0]
  /\ offer' = [offer EXCEPT ![s] = NoOffer]
  /\ verdict' = [verdict EXCEPT ![s] = "none"]
  /\ GoTo(s, "header")
  /\ UNCHANGED <<source, acked, over, recvd, ino, buf, target, diskVars,
                 notified, faults>>

(* The offset arrives and the file is opened and sought.                   *)
RecvOffset(s) ==
  /\ spc[s] = "offset"
  /\ offer[s] # NoOffer
  /\ spc' = [spc EXCEPT ![s] = IF offer[s] > Total(s) THEN "idle" ELSE "send"]
  /\ over' = [over EXCEPT ![s] = source]
  /\ sidx' = [sidx EXCEPT ![s] = offer[s]]
  /\ UNCHANGED <<source, acked, hver, wireVars, handlerVars, diskVars,
                 notified, faults>>

(* One chunk of the opened version is read and sent.                       *)
SendBlock(s) ==
  /\ spc[s] = "send"
  /\ sidx[s] < Size[over[s]]
  /\ inflight[s] < Window
  /\ sidx' = [sidx EXCEPT ![s] = @ + 1]
  /\ inflight' = [inflight EXCEPT ![s] = @ + 1]
  /\ UNCHANGED <<source, acked, spc, hver, over, offer, verdict, handlerVars,
                 diskVars, notified, faults>>

(* End of file: the sender waits for the ACK.                              *)
SendEof(s) ==
  /\ spc[s] = "send"
  /\ sidx[s] >= Size[over[s]]
  /\ spc' = [spc EXCEPT ![s] = "wait"]
  /\ UNCHANGED <<source, acked, hver, over, sidx, wireVars, handlerVars,
                 diskVars, notified, faults>>

(* Mutant: any byte counts as the ACK.                                     *)
RecvAckAnyByte(s) ==
  /\ spc[s] = "wait"
  /\ verdict[s] # "none"
  /\ spc' = [spc EXCEPT ![s] = "idle"]
  /\ acked' = acked \cup {hver[s]}
  /\ UNCHANGED <<source, hver, over, sidx, wireVars, handlerVars, diskVars,
                 notified, faults>>

(* The ACK byte arrives: send_file returns, or raises.                     *)
RecvAck(s) ==
  /\ spc[s] = "wait"
  /\ verdict[s] # "none"
  /\ spc' = [spc EXCEPT ![s] = "idle"]
  /\ acked' = IF verdict[s] = "ok" THEN acked \cup {hver[s]} ELSE acked
  /\ UNCHANGED <<source, hver, over, sidx, wireVars, handlerVars, diskVars,
                 notified, faults>>

(* The handler is gone: no offset or ACK byte is left to read, or a send   *)
(* fails.                                                                  *)
RecvEof(s) ==
  /\ HandlerGone(s)
  /\ \/ spc[s] = "offset" /\ offer[s] = NoOffer
     \/ spc[s] = "send" /\ sidx[s] < Size[over[s]]
     \/ spc[s] = "wait" /\ verdict[s] = "none"
  /\ spc' = [spc EXCEPT ![s] = "idle"]
  /\ UNCHANGED <<source, acked, hver, over, sidx, wireVars, handlerVars,
                 diskVars, notified, faults>>

(* The attempt ends early: cancel_event, a network error, the process      *)
(* dies.  Any suffix of what is in flight may be lost with the connection. *)
AbortSend(s) ==
  /\ Fault
  /\ ~SenderGone(s)
  /\ spc' = [spc EXCEPT ![s] = "idle"]
  /\ \E lost \in 0 .. inflight[s] :
       /\ sidx' = [sidx EXCEPT ![s] = @ - lost]
       /\ inflight' = [inflight EXCEPT ![s] = @ - lost]
  /\ UNCHANGED <<source, acked, hver, over, offer, verdict, handlerVars,
                 diskVars, notified>>

(* Mutant: the sender's socket has no timeout.                             *)
NoAckTimeout(s) == spc[s] = "wait" /\ FALSE /\ UNCHANGED vars

(* The opened version was shorter than the announced one: each side waits  *)
(* for the other until the sender's 10 s socket timeout.                   *)
AckTimeout(s) ==
  /\ spc[s] = "wait"
  /\ rpc[s] = "recv" /\ inflight[s] = 0
  /\ spc' = [spc EXCEPT ![s] = "idle"]
  /\ UNCHANGED <<source, acked, hver, over, sidx, wireVars, handlerVars,
                 diskVars, notified, faults>>

----------------------------------------------------------------------------
(* The receiver: one thread per connection in _handle_resume               *)

(* on_file_request answers no (or the payload is over the limit): a 0 byte.*)
Refuse(s) ==
  /\ Fault
  /\ rpc[s] = "header"
  /\ HandlerFails(s)
  /\ UNCHANGED <<senderVars, inflight, offer, recvd, ino, buf, target,
                 diskVars, notified>>

(* The transfer is accepted.  .part is opened for append, its length taken *)
(* and the offset answered.  A .part that is already complete is answered  *)
(* with the offset and the ACK, and the handler returns.                   *)
OpenPart(s) ==
  LET fresh == partIno = NoPart
      part == IF fresh THEN Len(content) + 1 ELSE partIno
      actual == IF fresh THEN 0 ELSE Len(content[partIno])
      offset == StartOffset(ReadSidecar(hver[s]), actual, Total(s))
      complete == offset >= Total(s) /\ Total(s) > 0
  IN  /\ rpc[s] = "header"
      /\ Total(s) <= MaxPayload
      /\ content' = IF fresh THEN Append(content, <<>>) ELSE content
      /\ partIno' = part
      /\ ino' = [ino EXCEPT ![s] = part]
      /\ recvd' = [recvd EXCEPT ![s] = offset]
      /\ offer' = [offer EXCEPT ![s] = IF complete THEN Total(s) ELSE offset]
      /\ verdict' = [verdict EXCEPT ![s] = IF complete THEN "ok" ELSE @]
      /\ GoTo(s, IF complete THEN "idle" ELSE "mark")
      /\ UNCHANGED <<senderVars, inflight, buf, target, finals, sidecar,
                     notified, faults>>

(* _write_sidecar is atomic: tmp file, then os.replace.                    *)
WriteSidecar(s) ==
  sidecar' = [ver |-> hver[s], received |-> recvd[s]]

(* The record at the start of the loop and at each Mark.                   *)
MarkProgress(s) ==
  /\ rpc[s] = "mark"
  /\ WriteSidecar(s)
  /\ GoTo(s, IF recvd[s] < Total(s) THEN "recv" ELSE "close")
  /\ UNCHANGED <<senderVars, wireVars, recvd, ino, buf, target, content,
                 partIno, finals, notified, faults>>

(* Mutant: the file is moved while its writer still holds the tail.        *)
RecvBlockUnflushed(s) ==
  LET last == recvd[s] + 1 >= Total(s)
  IN  /\ rpc[s] = "recv"
      /\ inflight[s] > 0
      /\ inflight' = [inflight EXCEPT ![s] = @ - 1]
      /\ recvd' = [recvd EXCEPT ![s] = @ + 1]
      /\ \/ /\ content' = [content EXCEPT ![ino[s]] = Append(@, NextBlock(s))]
            /\ buf' = buf
         \/ /\ last
            /\ buf' = [buf EXCEPT ![s] = Append(@, NextBlock(s))]
            /\ content' = content
      /\ GoTo(s, IF last THEN "total" ELSE "recv")
      /\ UNCHANGED <<senderVars, offer, verdict, ino, target, partIno, finals,
                     sidecar, notified, faults>>

(* One chunk is read and written.  A last chunk shorter than the writer's  *)
(* buffer may stay in the buffer; the others reach the kernel at once.     *)
RecvBlock(s) ==
  LET last == recvd[s] + 1 >= Total(s)
  IN  /\ rpc[s] = "recv"
      /\ inflight[s] > 0
      /\ inflight' = [inflight EXCEPT ![s] = @ - 1]
      /\ recvd' = [recvd EXCEPT ![s] = @ + 1]
      /\ \/ /\ content' = [content EXCEPT ![ino[s]] = Append(@, NextBlock(s))]
            /\ buf' = buf
         \/ /\ last
            /\ buf' = [buf EXCEPT ![s] = Append(@, NextBlock(s))]
            /\ content' = content
      /\ GoTo(s, IF (recvd[s] + 1) % Mark = 0 THEN "mark"
                 ELSE IF last THEN "close" ELSE "recv")
      /\ UNCHANGED <<senderVars, offer, verdict, ino, target, partIno, finals,
                     sidecar, notified, faults>>

(* recv_exact returns None: the sender has closed and all it sent is read. *)
RecvCut(s) ==
  /\ rpc[s] = "recv"
  /\ SenderGone(s) /\ inflight[s] = 0
  /\ GoTo(s, "abort")
  /\ UNCHANGED <<senderVars, wireVars, recvd, ino, buf, target, diskVars,
                 notified, faults>>

(* The 30 s socket timeout of the handler.                                 *)
RecvTimeout(s) ==
  /\ Fault
  /\ rpc[s] = "recv"
  /\ GoTo(s, "abort")
  /\ UNCHANGED <<senderVars, wireVars, recvd, ino, buf, target, diskVars,
                 notified>>

(* The exception path of the loop: flush, record the position, re-raise.   *)
AbortRecv(s) ==
  /\ rpc[s] = "abort"
  /\ WriteSidecar(s)
  /\ HandlerFails(s)
  /\ UNCHANGED <<senderVars, inflight, offer, recvd, ino, buf, target, content,
                 partIno, finals, notified, faults>>

(* f.close() gives the buffered tail to the kernel.                        *)
ClosePart(s) ==
  /\ rpc[s] = "close"
  /\ content' = [content EXCEPT ![ino[s]] = @ \o buf[s]]
  /\ buf' = [buf EXCEPT ![s] = <<>>]
  /\ GoTo(s, "total")
  /\ UNCHANGED <<senderVars, wireVars, recvd, ino, target, partIno, finals,
                 sidecar, notified, faults>>

MarkTotal(s) ==
  /\ rpc[s] = "total"
  /\ WriteSidecar(s)
  /\ GoTo(s, "pick")
  /\ UNCHANGED <<senderVars, wireVars, recvd, ino, buf, target, content,
                 partIno, finals, notified, faults>>

(* Mutant: the base name is used even when it is taken.                    *)
PickNameTaken(s) ==
  /\ rpc[s] = "pick"
  /\ target' = [target EXCEPT ![s] = 1]
  /\ GoTo(s, "move")
  /\ UNCHANGED <<senderVars, wireVars, recvd, ino, buf, diskVars, notified,
                 faults>>

(* The loop over os.path.exists stops at the first name not taken.         *)
PickName(s) ==
  /\ rpc[s] = "pick"
  /\ target' = [target EXCEPT ![s] = Len(finals) + 1]
  /\ GoTo(s, "move")
  /\ UNCHANGED <<senderVars, wireVars, recvd, ino, buf, diskVars, notified,
                 faults>>

(* os.replace(part_path, save_path): the name that was picked may have     *)
(* been taken since, and .part may have been moved by another handler.     *)
MovePart(s) ==
  /\ rpc[s] = "move"
  /\ IF partIno = NoPart
       THEN HandlerFails(s) /\ UNCHANGED <<finals, partIno>>
       ELSE /\ finals' = IF target[s] <= Len(finals)
                          THEN [finals EXCEPT ![target[s]] = partIno]
                          ELSE Append(finals, partIno)
            /\ partIno' = NoPart
            /\ GoTo(s, "unlink")
            /\ UNCHANGED verdict
  /\ UNCHANGED <<senderVars, inflight, offer, recvd, ino, buf, target, content,
                 sidecar, notified, faults>>

UnlinkSidecar(s) ==
  /\ rpc[s] = "unlink"
  /\ sidecar' = NoSidecar
  /\ GoTo(s, "ack")
  /\ UNCHANGED <<senderVars, wireVars, recvd, ino, buf, target, content,
                 partIno, finals, notified, faults>>

(* The ACK goes out.  It raises only on a connection the sender has left.  *)
SendAck(s) ==
  /\ rpc[s] = "ack"
  /\ \/ /\ verdict' = [verdict EXCEPT ![s] = "ok"]
        /\ GoTo(s, "notify")
     \/ SenderGone(s) /\ HandlerFails(s)
  /\ UNCHANGED <<senderVars, inflight, offer, recvd, ino, buf, target,
                 diskVars, notified, faults>>

(* The "ok" record of the history, then on_file_received.                  *)
Notify(s) ==
  /\ rpc[s] = "notify"
  /\ notified' = notified \cup {target[s]}
  /\ GoTo(s, "idle")
  /\ UNCHANGED <<senderVars, wireVars, recvd, ino, buf, target, diskVars,
                 faults>>

(* The receiver process dies and is started again.  What the kernel has    *)
(* been given survives; what a writer still buffers is lost.               *)
Crash ==
  /\ Fault
  /\ \E s \in Slots : ~HandlerGone(s)
  /\ rpc' = [s \in Slots |-> "idle"]
  /\ buf' = [s \in Slots |-> <<>>]
  /\ UNCHANGED <<senderVars, wireVars, recvd, ino, target, diskVars, notified>>

----------------------------------------------------------------------------
SenderStep(s) ==
  \/ SendHeader(s) \/ RecvOffset(s) \/ SendBlock(s) \/ SendEof(s)
  \/ RecvAck(s) \/ RecvEof(s) \/ AckTimeout(s)

HandlerStep(s) ==
  \/ OpenPart(s) \/ MarkProgress(s) \/ RecvBlock(s) \/ RecvCut(s)
  \/ AbortRecv(s) \/ ClosePart(s) \/ MarkTotal(s) \/ PickName(s)
  \/ MovePart(s) \/ UnlinkSidecar(s) \/ SendAck(s) \/ Notify(s)

FaultStep(s) == AbortSend(s) \/ Refuse(s) \/ RecvTimeout(s)

Next ==
  \/ ChangeSource
  \/ \E s \in Slots : SenderStep(s) \/ HandlerStep(s) \/ FaultStep(s)
  \/ Crash

Spec == Init /\ [][Next]_vars

(* Threads run, sockets deliver or time out, and the user retries a file   *)
(* that has not been acknowledged.  Nothing is assumed of the faults.      *)
Fairness == \A s \in Slots : WF_vars(SenderStep(s)) /\ WF_vars(HandlerStep(s))

FairSpec == Spec /\ Fairness

----------------------------------------------------------------------------
(* Properties                                                              *)

(* Every block of every file stands at its own offset: whatever crashes,   *)
(* cuts and stale sidecars a transfer goes through, a resume neither       *)
(* repeats nor skips bytes (_handle_resume's offset and append).           *)
Aligned ==
  \A f \in DOMAIN content : \A i \in DOMAIN content[f] : content[f][i][2] = i

(* From os.replace to the end of the handler, the final name it picked     *)
(* shows exactly the announced number of bytes.  An announced size of zero *)
(* is excepted: there the stale .part of another version, if one is left,  *)
(* is published as the empty file.                                         *)
DeliveredWhole ==
  \A s \in Slots :
    rpc[s] \in {"unlink", "ack", "notify"} =>
      /\ target[s] \in DOMAIN finals
      /\ Total(s) > 0 => Len(content[finals[target[s]]]) = Total(s)

(* When send_file returned, the receiver's disk holds as many bytes as it  *)
(* announced, under a final name or still in .part, and no crash undoes it.*)
AckedOnDisk ==
  \A v \in acked :
    \E f \in DOMAIN content :
      /\ f = partIno \/ \E k \in DOMAIN finals : finals[k] = f
      /\ Len(content[f]) >= Size[v]

(* What a final name shows never changes again: no handler writes to a     *)
(* file after it was moved, and no later transfer replaces it.             *)
FinalsImmutable ==
  [][\A k \in DOMAIN finals :
       /\ k \in DOMAIN finals'
       /\ finals'[k] = finals[k]
       /\ content'[finals[k]] = content[finals[k]]]_vars

(* With finitely many faults and a user who retries, the sender is told of *)
(* success for the last version: no sidecar, .part or mutual wait that a   *)
(* fault leaves behind blocks the name for ever.                           *)
EventuallyAcked == <>[](source \in acked)

=============================================================================
