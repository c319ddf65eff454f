----------------------------- MODULE DataChannel -----------------------------
(***************************************************************************)
(* One direction of screen/webrtc/data_channel.py: the send thread of one  *)
(* end ("snd") writes frames to a TCP connection and the receive thread of *)
(* the other ("rcv") reads them with a timeout of one second.  A frame is  *)
(* three cells, the two halves of its header and its body: the receiver    *)
(* can be cut off between any two of them, drops what it has read, and     *)
(* goes on at whatever cell comes next.  A large message is a frame for    *)
(* each of its parts, which the receiver collects in a bounded table.      *)
(***************************************************************************)
EXTENDS Integers, SequencesExt

CONSTANTS MaxMessages,   \* bound: messages the application sends
          Sizes,         \* sizes of messages: 0 fits one frame, n > 1 takes n parts
          RecvParts,     \* most parts the receiver accepts (MAX_FRAME_SIZE / FRAG_SIZE)
          SendParts,     \* most parts the sender makes (MAX_FRAME_SIZE, rounded up)
          MaxPartials    \* MAX_PARTIALS

ASSUME ChannelAssumption ==
    /\ MaxMessages \in Nat \ {0} /\ MaxPartials \in Nat \ {0}
    /\ RecvParts \in Nat /\ SendParts \in Nat
    /\ Sizes \subseteq Nat \ {1}
    /\ RecvParts <= SendParts /\ MaxMessages < 2^30   \* _frag_msg_id does not wrap

Ends == {"snd", "rcv"}
Messages == 1..MaxMessages
None == [m |-> 0]

VARIABLES
    size,      \* the size of each message sent
    queue,     \* _out_queue
    fragId,    \* _frag_msg_id
    tx,        \* cells the send thread has still to write
    wire,      \* cells written and not yet read
    rx,        \* the frame whose body the receive thread reads, or None
    table,     \* _frag_buf, the least recently touched entry first
    expired,   \* how many of its entries are older than FRAG_TTL
    recvSeq,   \* _recv_seq
    got,       \* what on_message was called with
    harmed,    \* messages of which the connection or the clock took a part
    thread,    \* the loops: running, ended, or dead of an exception
    closing,   \* close() calls between the look at _closed and its setting
    closed,    \* _closed
    calls      \* calls of on_close

dataVars == <<size, queue, fragId, tx, wire, rx, table, expired, recvSeq, got, harmed,
              thread, closing, closed, calls>>
sender   == <<size, queue, fragId, tx>>
receiver == <<rx, table, expired, recvSeq, got>>
life     == <<thread, closing, closed, calls>>

\* self._send_seq: send() has counted every message
sendSeq == Len(size)

Headers == [m : Messages, seq : Nat, id : Nat, idx : Nat, total : Nat]
Kinds == <<"h1", "h2", "body">>
Cells == [k : Range(Kinds), f : Headers]
Entries == [id : Nat, total : Nat, parts : UNION {[S -> Messages] : S \in SUBSET (0..(SendParts - 1))}]

DataTypeOK ==
    /\ size \in Seq(Sizes) /\ Len(size) <= MaxMessages
    /\ queue \in Seq(Messages) /\ fragId \in Nat
    /\ tx \in Seq(Cells) /\ wire \in Seq(Cells) /\ rx \in Headers \cup {None}
    /\ table \in Seq(Entries) /\ Len(table) <= MaxPartials /\ expired \in 0..Len(table)
    /\ recvSeq \in Nat /\ got \in Seq(Messages) /\ harmed \subseteq Messages
    /\ thread \in [Ends -> {"loop", "ended", "dead"}]
    /\ closing \subseteq Ends \X {"app", "loop"}
    /\ closed \in [Ends -> BOOLEAN] /\ calls \in [Ends -> Nat]

DataInit ==
    /\ size = <<>> /\ queue = <<>> /\ fragId = 0 /\ tx = <<>> /\ wire = <<>>
    /\ rx = None /\ table = <<>> /\ expired = 0 /\ recvSeq = 0 /\ got = <<>> /\ harmed = {}
    /\ thread = [e \in Ends |-> "loop"] /\ closing = {}
    /\ closed = [e \in Ends |-> FALSE] /\ calls = [e \in Ends |-> 0]

-----------------------------------------------------------------------------
(* The sending end. *)

\* send() appends and counts under the lock, whatever the state of the channel
Send(n) ==
    /\ sendSeq < MaxMessages
    /\ size' = Append(size, n) /\ queue' = Append(queue, sendSeq + 1)
    /\ UNCHANGED <<fragId, tx, wire, receiver, harmed, life>>

\* _send_frame: one frame, or one for each part under a new message id
Frames(m, seq, id) ==
    LET n == IF size[m] = 0 THEN 1 ELSE size[m]
    IN [c \in 1..(3 * n) |->
          [k |-> Kinds[((c - 1) % 3) + 1],
           f |-> [m |-> m, seq |-> seq, id |-> IF size[m] = 0 THEN 0 ELSE id,
                  idx |-> (c - 1) \div 3, total |-> size[m]]]]

\* Mutant: the message id is not counted up.
NextIdKept(m) == fragId

\* the id of the message _send_frame writes
NextId(m) == IF size[m] = 0 THEN fragId ELSE fragId + 1

\* _send_loop takes the first message and works out its number from the
\* counter; a message over the limit raises ValueError, which ends the thread
TakeMessage ==
    /\ thread["snd"] = "loop" /\ ~closed["snd"] /\ tx = <<>> /\ queue # <<>>
    /\ queue' = Tail(queue)
    /\ LET m == Head(queue)
           seq == sendSeq - Len(Tail(queue)) - 1
       IN IF size[m] > SendParts
          THEN /\ thread' = [thread EXCEPT !["snd"] = "dead"]
               /\ UNCHANGED <<tx, fragId>>
          ELSE /\ fragId' = NextId(m) /\ tx' = Frames(m, seq, NextId(m))
               /\ UNCHANGED thread
    /\ UNCHANGED <<size, wire, receiver, harmed, closing, closed, calls>>

\* sendall hands the next cell to the connection
Transmit ==
    /\ tx # <<>> /\ ~closed["snd"]
    /\ tx' = Tail(tx) /\ wire' = Append(wire, Head(tx))
    /\ UNCHANGED <<size, queue, fragId, receiver, harmed, life>>

\* sendall fails: the peer has gone, does not read for a second, or the socket
\* was closed; the loop calls close() and ends
TransmitFails ==
    /\ tx # <<>>
    /\ tx' = <<>> /\ harmed' = harmed \cup {c.f.m : c \in Range(tx)}
    /\ thread' = [thread EXCEPT !["snd"] = "ended"]
    /\ closing' = IF closed["snd"] THEN closing ELSE closing \cup {<<"snd", "loop">>}
    /\ UNCHANGED <<size, queue, fragId, wire, receiver, closed, calls>>

-----------------------------------------------------------------------------
(* The receiving end. *)

Reading == thread["rcv"] = "loop" /\ ~closed["rcv"]
MessagesOf(cells) == {c.f.m : c \in Range(cells)}

\* _recv_loop reads as many bytes as a header has; if they are not one (no
\* magic), it has dropped them
ReadHeader ==
    /\ Reading /\ rx = None /\ Len(wire) >= 2
    /\ wire' = SubSeq(wire, 3, Len(wire))
    /\ IF wire[1].k = "h1"
       THEN rx' = wire[1].f /\ UNCHANGED harmed
       ELSE harmed' = harmed \cup MessagesOf(SubSeq(wire, 1, 2)) /\ UNCHANGED rx
    /\ UNCHANGED <<sender, table, expired, recvSeq, got, life>>

\* _recv_exact times out, or meets the end, with half a header read
HeaderTimeout ==
    /\ Reading /\ rx = None /\ Len(wire) = 1
    /\ wire' = <<>> /\ harmed' = harmed \cup MessagesOf(wire)
    /\ UNCHANGED <<sender, receiver, life>>

\* the body does not come in time: the header is forgotten
BodyTimeout ==
    /\ Reading /\ rx # None /\ wire = <<>>
    /\ rx' = None /\ harmed' = harmed \cup {rx.m}
    /\ UNCHANGED <<sender, wire, table, expired, recvSeq, got, life>>

\* on_message
Deliver(m, seq) ==
    /\ got' = Append(got, m)
    /\ recvSeq' = IF seq + 1 > recvSeq THEN seq + 1 ELSE recvSeq

\* the message the parts of an entry make: 0 if they are of several messages
Joined(parts) ==
    IF \E m \in Messages : \A i \in DOMAIN parts : parts[i] = m THEN parts[0] ELSE 0

\* Mutant: the comparison with FRAG_TTL is turned round.
LiveInverted == SubSeq(table, 1, expired)

\* the table after the clean-up of stale entries
Live == SubSeq(table, expired + 1, Len(table))

\* a new entry evicts the oldest of a full table, before its size is looked at
Room(s) == IF Len(s) >= MaxPartials THEN Tail(s) ELSE s

WithPart(f, parts) == [i \in DOMAIN parts \cup {f.idx} |-> IF i = f.idx THEN f.m ELSE parts[i]]

\* _handle_fragment after the clean-up, with the parts that came before this one and
\* the other entries
Add(f, parts, rest) ==
    LET all == WithPart(f, parts)
    IN IF 0..(f.total - 1) \subseteq DOMAIN all
       THEN table' = rest /\ Deliver(Joined(all), f.seq)
       ELSE /\ table' = Append(rest, [id |-> f.id, total |-> f.total, parts |-> all])
            /\ UNCHANGED <<got, recvSeq>>

\* _handle_fragment
Collect(f) ==
    /\ expired' = 0
    /\ harmed' = harmed \cup UNION {Range(table[i].parts) : i \in 1..expired}
    /\ IF \E i \in DOMAIN Live : Live[i].id = f.id
       THEN LET i == CHOOSE i \in DOMAIN Live : Live[i].id = f.id
            IN Add(f, Live[i].parts, RemoveAt(Live, i))
       ELSE IF f.total > RecvParts
       THEN table' = Room(Live) /\ UNCHANGED <<got, recvSeq>>
       ELSE Add(f, <<>>, Room(Live))

ReadBody ==
    /\ Reading /\ rx # None /\ wire # <<>>
    /\ wire' = Tail(wire) /\ rx' = None
    /\ IF rx.total = 0
       THEN Deliver(rx.m, rx.seq) /\ UNCHANGED <<table, expired, harmed>>
       ELSE Collect(rx)
    /\ UNCHANGED <<sender, life>>

\* FRAG_TTL passes for the oldest entries
Expire ==
    /\ expired < Len(table) /\ expired' \in (expired + 1)..Len(table)
    /\ UNCHANGED <<sender, wire, rx, table, recvSeq, got, harmed, life>>

-----------------------------------------------------------------------------
(* The end of the channel. *)

\* close() of the application or of the node: it has seen _closed false
Close(e) ==
    /\ ~closed[e] /\ <<e, "app">> \notin closing /\ calls[e] = 0
    /\ closing' = closing \cup {<<e, "app">>}
    /\ UNCHANGED <<sender, wire, receiver, harmed, thread, closed, calls>>

\* ... sets it, closes the socket and calls on_close
FinishClose(e, who) ==
    /\ <<e, who>> \in closing
    /\ closing' = closing \ {<<e, who>>} /\ closed' = [closed EXCEPT ![e] = TRUE]
    /\ calls' = [calls EXCEPT ![e] = @ + 1]
    /\ UNCHANGED <<sender, wire, receiver, harmed, thread>>

\* a loop sees that it is closed; its own close() returns at once
LoopEnds(e) ==
    /\ closed[e] /\ thread[e] = "loop" /\ (e = "snd" => tx = <<>>)
    /\ thread' = [thread EXCEPT ![e] = "ended"]
    /\ UNCHANGED <<sender, wire, receiver, harmed, closing, closed, calls>>

DataNext ==
    \/ \E n \in Sizes : Send(n)
    \/ TakeMessage \/ Transmit \/ TransmitFails
    \/ ReadHeader \/ HeaderTimeout \/ BodyTimeout \/ ReadBody \/ Expire
    \/ \E e \in Ends : Close(e) \/ LoopEnds(e) \/ \E who \in {"app", "loop"} : FinishClose(e, who)

DataSpec == DataInit /\ [][DataNext]_dataVars

-----------------------------------------------------------------------------
(* Properties. *)

\* What on_message is called with are messages that were sent, whole, in the
\* order they were sent and each at most once, whatever was dropped between
\* them; _recv_seq is one more than the number send() gave the last of them
\* (data_channel.py:217-254, 256-290, 172, 182).
InOrder ==
    /\ \A i \in DOMAIN got : got[i] # 0 /\ (i > 1 => got[i - 1] < got[i])
    /\ recvSeq = IF got = <<>> THEN 0 ELSE Last(got)

\* messages that are still to be written or read
InFlight == MessagesOf(wire \o tx) \cup Range(queue) \cup {rx.m}

\* A message of which the timeouts took no byte reaches on_message, if the
\* receiver takes its size: neither the frames lost before it nor the eviction
\* and the clean-up of the table cost it a part (data_channel.py:269-277).
DeliveredUnlessHarmed ==
    closed["rcv"] \/ \A m \in DOMAIN size :
        m \in InFlight \cup harmed \/ size[m] > RecvParts \/ m \in Range(got)
=============================================================================
