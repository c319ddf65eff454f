----------------------------- MODULE FileReceiver -----------------------------
(***************************************************************************)
(* discovery/transfer.py without resume: FileSender sends a batch of files *)
(* one connection at a time, FileReceiverServer accepts the connections in *)
(* one thread and serves each of them in a thread of its own.              *)
(*                                                                         *)
(* A file is Size blocks when its header is sent, but may be shorter or    *)
(* longer by the time its body is read.  Its name on the wire is a member  *)
(* of Names; <<n, k>> is that name with "_k" inserted, and k = 0 none.     *)
(* Connections are numbered in the order they are made.                    *)
(***************************************************************************)
EXTENDS Integers, Sequences, FiniteSets

CONSTANTS
  Senders,   \* FileSender instances
  Names,     \* names on the wire
  Modes,     \* modes in use, among "normal", "hashed" and "secret"
  BatchLen,  \* files in a batch
  Batch,     \* Batch[s][i]: name and mode of file i of sender s
  Size,      \* announced blocks of every file
  MaxConns,  \* bound: connections
  MaxLost    \* bound: connections the network silently loses

ASSUME BatchAssumption ==
  /\ BatchLen \in Nat \ {0}
  /\ Modes \subseteq {"normal", "hashed", "secret"}
  /\ Batch \in [Senders -> [1 .. BatchLen -> [name : Names, mode : Modes]]]
ASSUME BoundsAssumption == Size \in Nat \ {0} /\ MaxConns \in Nat \ {0} /\ MaxLost \in Nat

Conns == 1 .. MaxConns
NoConn == 0
Unsent == -1  \* no header yet
Attempts == 2  \* max_attempts of _connect

VARIABLES
  \* senders
  spc, file,  \* where send_files is, and at which file of the batch
  tries,      \* attempts that _connect has made
  cur,        \* its connection
  \* connections
  made,       \* how many were made
  desc,       \* the name and the mode a connection carries
  sent,       \* blocks written, or Unsent
  ended,      \* connections whose body was written to its end
  net,        \* "up", "closed" by the sender, or "lost"
  \* receiver
  running, accepting,  \* _running, and the connection in accept()
  hpc, rcvd, target, reply,  \* _handle_client
  temps,      \* connections with a temporary file
  finals,     \* the download directory
  hist,       \* the status in the history
  notified,   \* on_file_received was called
  \* history
  acked,      \* connections the sender read an ACK from
  published,  \* connections whose file was moved to a final name
  since       \* connections whose file was moved since a handler picked its name

senderVars == <<spc, file, tries, cur>>
connVars == <<made, desc, sent, ended, net, acked>>
diskVars == <<temps, finals, published, since>>
handlerVars == <<hpc, rcvd, target, reply, hist, notified>>
receiverVars == <<running, accepting, handlerVars, diskVars>>
vars == <<senderVars, connVars, receiverVars>>

HandlerPc == {"none", "queued", "shake", "header", "recv", "verify", "move", "ack", "log",
              "done"}
NoTarget == <<>>
NoFile == <<>>
Targets == Names \X (0 .. MaxConns)

TypeOK ==
  /\ spc \in [Senders -> {"next", "connect", "send", "wait", "done", "failed"}]
  /\ file \in [Senders -> 1 .. BatchLen + 1]
  /\ tries \in [Senders -> 0 .. Attempts]
  /\ cur \in [Senders -> {NoConn} \cup Conns]
  /\ made \in 0 .. MaxConns
  /\ desc \in [Conns -> {NoFile} \cup [name : Names, mode : Modes]]
  /\ sent \in [Conns -> Unsent .. Size + 1]
  /\ ended \subseteq Conns
  /\ net \in [Conns -> {"up", "closed", "lost"}]
  /\ running \in BOOLEAN
  /\ accepting \in {NoConn} \cup Conns
  /\ hpc \in [Conns -> HandlerPc]
  /\ rcvd \in [Conns -> 0 .. Size]
  /\ target \in [Conns -> {NoTarget} \cup Targets]
  /\ reply \in [Conns -> {"none", "ack", "nak"}]
  /\ temps \subseteq Conns
  /\ finals \in [Targets -> {NoConn} \cup Conns]
  /\ hist \in [Conns -> {"none", "ok", "rejected"}]
  /\ notified \subseteq Conns
  /\ acked \subseteq Conns
  /\ published \subseteq Conns
  /\ since \in [Conns -> SUBSET Conns]

Init ==
  /\ spc = [s \in Senders |-> "next"]
  /\ file = [s \in Senders |-> 1]
  /\ tries = [s \in Senders |-> 0]
  /\ cur = [s \in Senders |-> NoConn]
  /\ made = 0
  /\ desc = [c \in Conns |-> NoFile]
  /\ sent = [c \in Conns |-> Unsent]
  /\ ended = {}
  /\ net = [c \in Conns |-> "up"]
  /\ running = TRUE
  /\ accepting = NoConn
  /\ hpc = [c \in Conns |-> "none"]
  /\ rcvd = [c \in Conns |-> 0]
  /\ target = [c \in Conns |-> NoTarget]
  /\ reply = [c \in Conns |-> "none"]
  /\ temps = {}
  /\ finals = [f \in Targets |-> NoConn]
  /\ hist = [c \in Conns |-> "none"]
  /\ notified = {}
  /\ acked = {}
  /\ published = {}
  /\ since = [c \in Conns |-> {}]

----------------------------------------------------------------------------
(* FileSender                                                              *)

(* _connect: the connection waits in the backlog until it is accepted.     *)
(* Once the receiver has stopped it is refused, which ConnectFails counts. *)
Connect(s) ==
  LET c == made + 1
  IN  /\ spc[s] = "next" /\ running
      /\ made < MaxConns
      /\ made' = c
      /\ desc' = [desc EXCEPT ![c] = Batch[s][file[s]]]
      /\ cur' = [cur EXCEPT ![s] = c]
      /\ spc' = [spc EXCEPT ![s] = "connect"]
      /\ hpc' = [hpc EXCEPT ![c] = "queued"]
      /\ UNCHANGED <<file, tries, sent, ended, net, acked, running, accepting, rcvd, target, reply, hist,
                     notified, diskVars>>

Hang(c) == net' = [net EXCEPT ![c] = IF @ = "up" THEN "closed" ELSE @]

(* A connection attempt times out or is refused; the second time, the      *)
(* batch is over.                                                          *)
ConnectFails(s) ==
  /\ \/ spc[s] = "connect" /\ hpc[cur[s]] \in {"queued", "shake", "done"} /\ Hang(cur[s])
     \/ spc[s] = "next" /\ ~running /\ UNCHANGED net
  /\ IF tries[s] + 1 < Attempts
       THEN tries' = [tries EXCEPT ![s] = @ + 1] /\ spc' = [spc EXCEPT ![s] = "next"]
       ELSE tries' = [tries EXCEPT ![s] = 0] /\ spc' = [spc EXCEPT ![s] = "failed"]
  /\ cur' = [cur EXCEPT ![s] = NoConn]
  /\ UNCHANGED <<file, made, desc, sent, ended, acked, receiverVars>>

(* The handshake is over: mode, name and size go out.                      *)
SendHeader(s) ==
  /\ spc[s] = "connect" /\ hpc[cur[s]] = "header"
  /\ spc' = [spc EXCEPT ![s] = "send"]
  /\ sent' = [sent EXCEPT ![cur[s]] = IF net[cur[s]] = "up" THEN 0 ELSE @]
  /\ tries' = [tries EXCEPT ![s] = 0]
  /\ UNCHANGED <<file, cur, made, desc, ended, net, acked, receiverVars>>

(* The next block: the file may have been shortened or have grown since    *)
(* its size was sent.  What is written once the network is lost does not   *)
(* arrive.                                                                 *)
SendBlock(s) ==
  /\ spc[s] = "send" /\ net[cur[s]] = "up"
  /\ sent[cur[s]] <= Size
  /\ sent' = [sent EXCEPT ![cur[s]] = @ + 1]
  /\ UNCHANGED <<senderVars, made, desc, ended, net, acked, receiverVars>>

(* The end of the file: in hashed mode the digest follows it at once.      *)
SendEnd(s) ==
  /\ spc[s] = "send"
  /\ IF net[cur[s]] = "up"
       THEN sent[cur[s]] >= Size - 1 /\ ended' = ended \cup {cur[s]}
       ELSE UNCHANGED ended
  /\ spc' = [spc EXCEPT ![s] = "wait"]
  /\ UNCHANGED <<file, tries, cur, made, desc, sent, net, acked, receiverVars>>

(* Mutant: any answer is taken for an ACK.                                 *)
AnswerAnyByte(s) ==
  /\ spc[s] = "wait" /\ net[cur[s]] = "up"
  /\ hpc[cur[s]] = "done" \/ reply[cur[s]] # "none"
  /\ Hang(cur[s])
  /\ file' = [file EXCEPT ![s] = @ + 1]
  /\ spc' = [spc EXCEPT ![s] = IF file[s] = BatchLen THEN "done" ELSE "next"]
  /\ acked' = acked \cup {cur[s]}
  /\ cur' = [cur EXCEPT ![s] = NoConn]
  /\ UNCHANGED <<tries, made, desc, sent, ended, receiverVars>>

(* The ACK: send_files goes on to the next file.                           *)
Answer(s) ==
  /\ spc[s] = "wait" /\ net[cur[s]] = "up"
  /\ reply[cur[s]] = "ack"
  /\ Hang(cur[s])
  /\ file' = [file EXCEPT ![s] = @ + 1]
  /\ spc' = [spc EXCEPT ![s] = IF file[s] = BatchLen THEN "done" ELSE "next"]
  /\ acked' = acked \cup {cur[s]}
  /\ cur' = [cur EXCEPT ![s] = NoConn]
  /\ UNCHANGED <<tries, made, desc, sent, ended, receiverVars>>

(* Mutant: the sender waits for its answer however long it takes.          *)
NoSendFails(s) == FALSE /\ UNCHANGED vars

(* The user cancels, the answer is not an ACK, the connection is reset or  *)
(* nothing comes for ten seconds: the rest of the batch is not sent.       *)
SendFails(s) ==
  /\ spc[s] \in {"send", "wait"}
  /\ Hang(cur[s])
  /\ spc' = [spc EXCEPT ![s] = "failed"]
  /\ cur' = [cur EXCEPT ![s] = NoConn]
  /\ UNCHANGED <<file, tries, made, desc, sent, ended, acked, receiverVars>>

(* The user sends the batch again.                                         *)
Resend(s) ==
  /\ spc[s] = "failed" /\ made < MaxConns /\ running
  /\ spc' = [spc EXCEPT ![s] = "next"]
  /\ file' = [file EXCEPT ![s] = 1]
  /\ UNCHANGED <<tries, cur, connVars, receiverVars>>

(* External: the network loses a connection, and neither end is told.  Once *)
(* the body has come a loss is no more than a SendFails.                   *)
Lose(c) ==
  /\ net[c] = "up" /\ hpc[c] \in {"queued", "shake", "header", "recv"}
  /\ Cardinality({d \in Conns : net[d] = "lost"}) < MaxLost
  /\ net' = [net EXCEPT ![c] = "lost"]
  /\ UNCHANGED <<senderVars, made, desc, sent, ended, acked, receiverVars>>
----------------------------------------------------------------------------
(* FileReceiverServer                                                      *)

(* _accept_loop: the listening socket is wrapped in TLS, so that accept()  *)
(* returns only when the handshake of the connection is over, for which no *)
(* timeout is set.                                                         *)
Accept(c) ==
  /\ running /\ accepting = NoConn
  /\ hpc[c] = "queued"
  /\ accepting' = c
  /\ hpc' = [hpc EXCEPT ![c] = "shake"]
  /\ UNCHANGED <<senderVars, connVars, running, rcvd, target, reply, hist, notified, diskVars>>

Handshake(c) ==
  /\ accepting = c /\ hpc[c] = "shake" /\ net[c] # "lost"
  /\ accepting' = NoConn
  /\ hpc' = [hpc EXCEPT ![c] = IF net[c] = "up" THEN "header" ELSE "done"]
  /\ UNCHANGED <<senderVars, connVars, running, rcvd, target, reply, hist, notified, diskVars>>

(* stop: the connections in the backlog are reset, handlers go on.         *)
Stop ==
  /\ running
  /\ running' = FALSE
  /\ hpc' = [c \in Conns |-> IF hpc[c] = "queued" THEN "done" ELSE hpc[c]]
  /\ UNCHANGED <<senderVars, connVars, accepting, rcvd, target, reply, hist, notified, diskVars>>

Goto(c, pc) == hpc' = [hpc EXCEPT ![c] = pc]
Nak(c) == Goto(c, "done") /\ reply' = [reply EXCEPT ![c] = "nak"]

(* The header does not come: the handler returns.                          *)
NoHeader(c) ==
  /\ hpc[c] = "header" /\ sent[c] = Unsent
  /\ Goto(c, "done")
  /\ UNCHANGED <<senderVars, connVars, running, accepting, rcvd, target, reply, hist, notified,
                 diskVars>>

(* on_file_request answers True, and in secret mode there is a PIN: the    *)
(* body goes to a temporary file.                                          *)
Allow(c) ==
  /\ hpc[c] = "header" /\ sent[c] # Unsent
  /\ Goto(c, "recv")
  /\ temps' = temps \cup {c}
  /\ UNCHANGED <<senderVars, connVars, running, accepting, rcvd, target, reply, hist, notified,
                 finals, published, since>>

(* It answers False, or nobody answers the dialog in time.                 *)
Refuse(c) ==
  /\ hpc[c] = "header" /\ sent[c] # Unsent
  /\ Nak(c)
  /\ hist' = [hist EXCEPT ![c] = "rejected"]
  /\ UNCHANGED <<senderVars, connVars, running, accepting, rcvd, target, notified, diskVars>>

(* get_secret_pin_callback is not set, or returns no PIN.                  *)
NoSecretPin(c) ==
  /\ hpc[c] = "header" /\ sent[c] # Unsent /\ desc[c].mode = "secret"
  /\ Nak(c)
  /\ UNCHANGED <<senderVars, connVars, running, accepting, rcvd, target, hist, notified, diskVars>>

(* One round of _receive_normal_payload or _receive_secret_payload.        *)
RecvBlock(c) ==
  /\ hpc[c] = "recv" /\ sent[c] > rcvd[c]
  /\ rcvd' = [rcvd EXCEPT ![c] = @ + 1]
  /\ Goto(c, IF rcvd[c] + 1 = Size THEN "verify" ELSE "recv")
  /\ UNCHANGED <<senderVars, connVars, running, accepting, target, reply, hist, notified,
                 diskVars>>

(* Mutant: a body that ends early leaves its temporary file.               *)
RecvFailsKeepsTemp(c) ==
  /\ hpc[c] = "recv"
  /\ Nak(c)
  /\ UNCHANGED <<senderVars, connVars, running, accepting, rcvd, target, hist, notified,
                 diskVars>>

(* The next bytes do not come, or the body cannot be written, decrypted or *)
(* verified: the temporary file is unlinked.  In secret mode each block is *)
(* authenticated as it comes, in hashed mode the whole body at its end.    *)
RecvFails(c) ==
  /\ hpc[c] = "recv" \/ (hpc[c] = "verify" /\ desc[c].mode = "hashed")
  /\ Nak(c)
  /\ temps' = temps \ {c}
  /\ UNCHANGED <<senderVars, connVars, running, accepting, rcvd, target, hist, notified, finals,
                 published, since>>

(* In hashed mode the 32 bytes after the body are the digest of what was   *)
(* sent, and what was sent is what was received.                           *)
Verified(c) == desc[c].mode = "hashed" => c \in ended /\ sent[c] = Size

Taken(name, k) == finals[<<name, k>>] # NoConn

(* Mutant: the plain name is not looked up.                                *)
FirstFreeUnchecked(name, k) == k = 0 \/ (~Taken(name, k) /\ \A j \in 0 .. k - 1 : Taken(name, j))

(* "Avoid overwrite": the first of name, name_1, name_2, ... that is free. *)
FirstFree(name, k) == ~Taken(name, k) /\ \A j \in 0 .. k - 1 : Taken(name, j)

Pick(c) ==
  /\ hpc[c] = "verify" /\ Verified(c)
  /\ \E k \in 0 .. MaxConns :
       /\ FirstFree(desc[c].name, k)
       /\ target' = [target EXCEPT ![c] = <<desc[c].name, k>>]
  /\ Goto(c, "move")
  /\ UNCHANGED <<senderVars, connVars, running, accepting, rcvd, reply, hist, notified, diskVars>>

(* os.replace: whatever is there under the name now is gone.               *)
Move(c) ==
  /\ hpc[c] = "move"
  /\ finals' = [finals EXCEPT ![target[c]] = c]
  /\ temps' = temps \ {c}
  /\ published' = published \cup {c}
  /\ since' = [d \in Conns |-> IF hpc[d] = "move" /\ d # c THEN since[d] \cup {c} ELSE {}]
  /\ Goto(c, "ack")
  /\ UNCHANGED <<senderVars, connVars, running, accepting, rcvd, target, reply, hist, notified>>

(* The ACK is written: to a closed connection, too, when it is the first   *)
(* thing that is written after the close.                                  *)
Ack(c) ==
  /\ hpc[c] = "ack"
  /\ reply' = [reply EXCEPT ![c] = "ack"]
  /\ Goto(c, "log")
  /\ UNCHANGED <<senderVars, connVars, running, accepting, rcvd, target, hist, notified, diskVars>>

(* Writing it fails: the handler takes its error path, where there is no   *)
(* temporary file left to unlink.                                          *)
AckFails(c) ==
  /\ hpc[c] = "ack" /\ net[c] = "closed"
  /\ Nak(c)
  /\ UNCHANGED <<senderVars, connVars, running, accepting, rcvd, target, hist, notified, diskVars>>

(* Mutant: the history is written without a look at what happened.         *)
LogRejected(c) ==
  /\ hpc[c] = "log"
  /\ hist' = [hist EXCEPT ![c] = "rejected"]
  /\ notified' = notified \cup {c}
  /\ Goto(c, "done")
  /\ UNCHANGED <<senderVars, connVars, running, accepting, rcvd, target, reply, diskVars>>

(* The history, and then on_file_received.                                 *)
Log(c) ==
  /\ hpc[c] = "log"
  /\ hist' = [hist EXCEPT ![c] = "ok"]
  /\ notified' = notified \cup {c}
  /\ Goto(c, "done")
  /\ UNCHANGED <<senderVars, connVars, running, accepting, rcvd, target, reply, diskVars>>

----------------------------------------------------------------------------
SenderStep(s) ==
  \/ Connect(s) \/ ConnectFails(s) \/ SendHeader(s) \/ SendBlock(s) \/ SendEnd(s)
  \/ Answer(s) \/ SendFails(s)

HandlerStep(c) ==
  \/ NoHeader(c) \/ Allow(c) \/ Refuse(c) \/ NoSecretPin(c)
  \/ RecvBlock(c) \/ RecvFails(c) \/ Pick(c) \/ Move(c) \/ Ack(c) \/ AckFails(c) \/ Log(c)

Next ==
  \/ \E s \in Senders : SenderStep(s) \/ Resend(s)
  \/ \E c \in Conns : Accept(c) \/ Handshake(c) \/ HandlerStep(c) \/ Lose(c)
  \/ Stop

Spec == Init /\ [][Next]_vars

(* Threads that can go on do: the sender's and the handler's waits all     *)
(* have a timeout, and the accept loop runs while there is a backlog.      *)
Fairness ==
  /\ \A s \in Senders : WF_vars(SenderStep(s))
  /\ \A c \in Conns : WF_vars(Accept(c) \/ Handshake(c)) /\ WF_vars(HandlerStep(c))

FairSpec == Spec /\ Fairness

----------------------------------------------------------------------------
(* Properties                                                              *)

(* send_files counts a file as sent only when it was moved to a final name *)
(* with all the blocks that were announced.                                *)
AckedPublished ==
  \A c \in acked : c \in published /\ rcvd[c] = Size

(* With verify_hash it does so only when the file that was sent is the one *)
(* that was announced: it did not change its length while it was read.     *)
AckedUnchanged ==
  \A c \in acked : desc[c].mode = "hashed" => sent[c] = Size

(* A temporary file belongs to a handler that still runs, and to none that *)
(* has moved or given up its file.                                         *)
NoStrayTemp ==
  \A c \in temps : hpc[c] \in {"recv", "verify", "move"}

(* The history tells the truth: "ok" for a published file only, "rejected" *)
(* for one of which nothing was stored; a handler that is done with a file *)
(* it published has logged it and told the user, unless it failed to write *)
(* the ACK.                                                                *)
HistoryTrue ==
  \A c \in Conns :
    /\ hist[c] = "ok" => c \in published
    /\ hist[c] = "rejected" => c \notin published /\ c \notin temps /\ rcvd[c] = 0
    /\ hpc[c] = "done" /\ c \in published /\ reply[c] # "nak" =>
         hist[c] = "ok" /\ c \in notified

(* os.replace takes a file away only if it came there after its handler    *)
(* looked for a free name: one handler at a time never overwrites.         *)
OverwritesOnlyInRace ==
  [][\A f \in Targets :
       finals[f] # NoConn /\ finals'[f] # finals[f] => finals[f] \in since[finals'[f]]]_vars

(* Nobody is left hanging: once the last connection is made, every attempt *)
(* to send a file ends, and so does every handler that was started.        *)
EverythingEnds ==
  <>[](/\ \A s \in Senders : spc[s] \in {"next", "done", "failed"}
       /\ \A c \in Conns : hpc[c] \in {"none", "queued", "shake", "done"})

=============================================================================
