----------------------------- MODULE Viewer_proofs -----------------------------
(***************************************************************************)
(* Proofs about Viewer, for any number of connections and requests.        *)
(***************************************************************************)
EXTENDS Viewer, SequenceTheorems, TLAPS

(* A drawing is queued while the flag says so, or a frame is kept.         *)
FrameInv == scheduled \/ latest # None => \E i \in DOMAIN idle : idle[i] = Render

(* One attempt to connect at a time: from the click to its result the      *)
(* screen is not connected and the button is off.                          *)
AttemptInv ==
  /\ \A k \in Connects : k > conn => loop[k] = "none"
  /\ connected => "connect" \notin buttons /\ conn # 0 /\ loop[conn] # "none"
  /\ thread = "due" => /\ conn # 0 /\ loop[conn] = "none" /\ ~connected
                       /\ "connect" \notin buttons
  /\ "disconnect" \in buttons \/ main = "disconnect" => connected

ResultInv ==
  \A i \in DOMAIN idle : idle[i].what = "connect" =>
    /\ ~connected /\ thread = "none" /\ "connect" \notin buttons
    /\ idle[i].ok => conn # 0 /\ loop[conn] # "none"
    /\ \A j \in DOMAIN idle : idle[j].what = "connect" => i = j

Fresh(k) == k = conn \/ k \in stray

(* A frame of another connection can be kept only until the result that    *)
(* connects the screen again, for its drawing is queued before that.       *)
StrayInv ==
  /\ \A k \in Connects : loop[k] \notin {"none", "ended"} /\ ~Fresh(k) => loop[conn] = "none"
  /\ latest # None /\ ~Fresh(latest) =>
       /\ ~connected
       /\ \A i \in DOMAIN idle : idle[i].what = "connect" /\ idle[i].ok =>
             \E j \in DOMAIN idle : j < i /\ idle[j] = Render

(* An answer that is queued is the only one of its request.                *)
AnswerInv ==
  \A i \in DOMAIN idle : idle[i].what = "control" =>
    /\ idle[i].of \in Requests /\ req[idle[i].of] = "posted"
    /\ \A j \in DOMAIN idle : idle[j].what = "control" /\ idle[j].of = idle[i].of => i = j

(* A request that nothing overlapped is the only one under way.            *)
OverlapInv ==
  /\ \A r \in InFlight \ crossed : InFlight = {r} /\ "request" \notin buttons /\ connected
  /\ main # "free" => InFlight \subseteq crossed

Lost(h) == h \in crossed \/ chan[h] = "shut"
Chosen == {"clear", "socket", "shake", "assign"}

(* A channel the handler may forget is closed, or its request overlapped.  *)
HandlerInv ==
  /\ handler # None => req[handler] \in {"posted", "done"}
  /\ held # None => req[held] \in {"posted", "done"}
  /\ \A p \in pressed : req[p] \in {"posted", "done"}
  /\ handler # None /\ main # "free" => Lost(handler)
  /\ handler # None => \A r \in Requests : req[r] \in Chosen => Lost(handler)

Quiet == held = None /\ ~active /\ log # "start" /\ \A p \in pressed : chan[p] # "open"

(* As long as nothing has overlapped: while the window waits for an answer *)
(* or lets go it believes to have no control, and an answer that is queued *)
(* says what the handler has.                                              *)
CalmInv ==
  crossed = {} =>
    /\ main # "free" => Quiet
    /\ \A r \in InFlight :
         /\ Quiet /\ "wired" \notin buttons
         /\ req[r] # "posted" => handler = None
         /\ \A i \in DOMAIN idle :
              idle[i].what = "control" => handler = IF idle[i].ok THEN r ELSE None
    /\ InFlight = {} /\ main = "free" /\ held # None => "wired" \in buttons

IInv ==
  /\ TypeOK /\ FrameInv /\ AttemptInv /\ ResultInv /\ StrayInv /\ AnswerInv
  /\ OverlapInv /\ HandlerInv /\ CalmInv /\ PictureIsCurrent /\ ChannelInReach /\ WindowAgrees

----------------------------------------------------------------------------
(* The queue of the main thread                                            *)

LEMMA Appended ==
  ASSUME NEW m \in Posts, idle \in Seq(Posts), idle' = Append(idle, m)
  PROVE  /\ idle' \in Seq(Posts) /\ Len(idle) \in Nat
         /\ DOMAIN idle = 1..Len(idle) /\ DOMAIN idle' = 1..(Len(idle) + 1)
         /\ \A i \in DOMAIN idle : idle'[i] = idle[i]
         /\ idle'[Len(idle) + 1] = m
  OBVIOUS

LEMMA Taken ==
  ASSUME idle \in Seq(Posts), idle # <<>>, idle' = Tail(idle)
  PROVE  /\ idle' \in Seq(Posts) /\ DOMAIN idle \subseteq Nat
         /\ 1 \in DOMAIN idle /\ Head(idle) = idle[1] /\ idle[1] \in Posts
         /\ \A i \in DOMAIN idle' : i + 1 \in DOMAIN idle /\ idle'[i] = idle[i + 1]
         /\ \A i \in DOMAIN idle : i # 1 => i - 1 \in DOMAIN idle' /\ idle'[i - 1] = idle[i]
<1>1. /\ idle' \in Seq(Posts) /\ Len(idle) \in Nat /\ Len(idle) # 0
      /\ Len(idle') = Len(idle) - 1 /\ DOMAIN idle = 1..Len(idle)
      /\ DOMAIN idle' = 1..(Len(idle) - 1)
  BY HeadTailProperties, EmptySeq, LenProperties
<1>2. \A i \in 1..(Len(idle) - 1) : idle'[i] = idle[i + 1]
  BY <1>1
<1>3. Head(idle) = idle[1]
  OBVIOUS
<1> QED
  BY <1>1, <1>2, <1>3

----------------------------------------------------------------------------
(* Types                                                                   *)

LEMMA PostTypes ==
  /\ Render \in Posts
  /\ \A k \in Connects, b \in BOOLEAN : Posted("connect", k, b) \in Posts
  /\ \A r \in Requests, b \in BOOLEAN : Posted("control", r, b) \in Posts
  BY ViewerAssumption DEF Posts, Render, Posted, Connects, Requests, None

LEMMA ShutType ==
  ASSUME TypeOK, NEW c \in 0..MaxRequests
  PROVE  /\ Shut(c) \in [Requests -> {"none", "socket", "open", "shut"}]
         /\ \A r \in Requests : Shut(c)[r] = IF r = c THEN "shut" ELSE chan[r]
  BY ViewerAssumption DEF TypeOK, Shut, Requests, None

LEMMA AttemptType ==
  ASSUME TypeOK, AttemptInv, thread = "due"
  PROVE  conn \in Connects
  BY ViewerAssumption DEF TypeOK, AttemptInv, Connects

(* The queue after a step: as it was, without its head, or with a post.    *)
LEMMA QueueType ==
  ASSUME idle \in Seq(Posts),
         \/ idle' = idle \/ (idle # <<>> /\ idle' = Tail(idle))
         \/ \E m \in Posts : idle' = Append(idle, m)
  PROVE  idle' \in Seq(Posts)
  BY Appended, Taken

(* Input changes nothing but what is held down, and at most of the channel *)
(* the window holds.                                                       *)
LEMMA InputMoves ==
  ASSUME Input
  PROVE  /\ main = "free" /\ active /\ held # None
         /\ pressed' \subseteq pressed \cup {held} /\ mute' \subseteq mute \cup {held}
         /\ UNCHANGED <<window, stream, frames, control>>
<1>1. ASSUME NEW after, after \subseteq pressed \cup {held}, SendEvent(after)
      PROVE  /\ main = "free" /\ active /\ held # None
             /\ pressed' \subseteq pressed \cup {held} /\ mute' \subseteq mute \cup {held}
             /\ UNCHANGED <<window, stream, frames, control>>
  BY <1>1 DEF SendEvent
<1>2. \E after \in SUBSET (pressed \cup {held}) : SendEvent(after)
  <2>1. Motion \/ Scroll => SendEvent(pressed)
    BY DEF Motion, Scroll
  <2>2. ASSUME NEW down \in BOOLEAN, Button(down) \/ Key(down)
        PROVE  SendEvent(pressed \cup {held}) \/ SendEvent(pressed \ {held})
    BY <2>2 DEF Button, Key
  <2> QED
    BY <2>1, <2>2 DEF Input
<1> QED
  BY <1>1, <1>2

LEMMA TypeStep ==
  ASSUME TypeOK, AttemptInv, AnswerInv, [Next]_vars
  PROVE  TypeOK'
<1> USE DEF TypeOK
<1> None \in 0..MaxRequests /\ None \in 0..conn
  BY ViewerAssumption DEF None
<1>1. CASE Input
  <2>1. held \in Requests
    BY <1>1, InputMoves DEF Requests, None
  <2> QED
    BY <1>1, <2>1, InputMoves DEF window, stream, frames, control
<1>2. ASSUME ConnectFails, UNCHANGED input
      PROVE  TypeOK'
  <2>1. conn \in Connects
    BY <1>2, AttemptType DEF ConnectFails
  <2>2. idle' \in Seq(Posts)
    BY <1>2, <2>1, PostTypes, QueueType DEF ConnectFails
  <2> QED
    BY <1>2, <2>2 DEF ConnectFails, frames, control, input
<1>3. ASSUME ConnectWorks, UNCHANGED input
      PROVE  TypeOK'
  <2>1. conn \in Connects
    BY <1>3, AttemptType DEF ConnectWorks
  <2>2. idle' \in Seq(Posts)
    BY <1>3, <2>1, PostTypes, QueueType DEF ConnectWorks
  <2> QED
    BY <1>3, <2>2 DEF ConnectWorks, Alive, frames, control, input
<1>4. ASSUME NEW k \in Connects, Reading(k) \/ OpenFails(k) \/ StreamEnds(k), UNCHANGED input
      PROVE  TypeOK'
  BY <1>4 DEF Reading, Opened, Notices, OpenFails, StreamEnds, window, frames, control, input
<1>5. ASSUME NEW k \in Connects, Frame(k), UNCHANGED input
      PROVE  TypeOK'
  <2>1. k \in 0..conn
    BY <1>5 DEF Frame, AttemptInv, Connects
  <2>2. idle' \in Seq(Posts)
    BY <1>5, PostTypes, QueueType DEF Frame
  <2> QED
    BY <1>5, <2>1, <2>2 DEF Frame, stream, control, input
<1>6. ASSUME ConnectResult, UNCHANGED input
      PROVE  TypeOK'
  <2>1. idle' \in Seq(Posts)
    BY <1>6, QueueType DEF ConnectResult
  <2> QED
    BY <1>6, <2>1 DEF ConnectResult, stream, frames, control, input
<1>7. ASSUME RenderFrame, UNCHANGED input
      PROVE  TypeOK'
  <2>1. idle' \in Seq(Posts)
    BY <1>7, QueueType DEF RenderFrame
  <2>2. picture' \in {latest, picture} /\ latest' \in 0..conn
    BY <1>7 DEF RenderFrame, None
  <2> QED
    BY <1>7, <2>1, <2>2 DEF RenderFrame, stream, control, input
<1>8. ASSUME RequestGranted \/ RequestRefused, UNCHANGED input
      PROVE  TypeOK'
  <2>1. idle' \in Seq(Posts) /\ idle # <<>>
    BY <1>8, QueueType DEF RequestGranted, RequestRefused
  <2>2. Head(idle).of \in Requests
    BY <1>8, <2>1, Taken DEF RequestGranted, RequestRefused, AnswerInv
  <2>3. CASE RequestGranted
    BY <1>8, <2>1, <2>2, <2>3 DEF RequestGranted, stream, frames, input
  <2>4. CASE RequestRefused
    BY <1>8, <2>1, <2>2, <2>4 DEF RequestRefused, stream, frames, input
  <2> QED
    BY <1>8, <2>3, <2>4
<1>9. ASSUME ClickConnect, UNCHANGED input
      PROVE  TypeOK'
  BY <1>9, ViewerAssumption DEF ClickConnect, frames, control, input, Connects
<1>10. ASSUME ClickRequest, UNCHANGED input
       PROVE  TypeOK'
  BY <1>10 DEF ClickRequest, stream, frames, input
<1>11. ASSUME ClickRelease \/ ClickDisconnect \/ EndRelease, UNCHANGED input
       PROVE  TypeOK'
  <2>1. Shut(handler) \in [Requests -> {"none", "socket", "open", "shut"}]
    BY ShutType
  <2>2. CASE ClickRelease
    BY <1>11, <2>1, <2>2
    DEF ClickRelease, LetGo, Released, stream, frames, input, InFlight
  <2>3. CASE ClickDisconnect
    BY <1>11, <2>1, <2>3
    DEF ClickDisconnect, LetGo, Disconnected, stream, frames, input, InFlight
  <2>4. CASE EndRelease
    BY <1>11, <2>4 DEF EndRelease, Released, Disconnected, stream, frames, input
  <2> QED
    BY <1>11, <2>2, <2>3, <2>4
<1>12. ASSUME NEW r \in Requests, Asking(r), UNCHANGED input
       PROVE  TypeOK'
  <2>1. r \in 0..MaxRequests
    BY ViewerAssumption DEF Requests
  <2>2. idle' \in Seq(Posts)
    BY <1>12, PostTypes, QueueType
    DEF Asking, ThreadRelease, ThreadClear, OpenSocket, ReadGrant, RequestFails, Assign, window
  <2>3. /\ Shut(handler) \in [Requests -> {"none", "socket", "open", "shut"}]
        /\ Shut(r) \in [Requests -> {"none", "socket", "open", "shut"}]
    BY <2>1, ShutType
  <2>4. CASE ThreadRelease(r)
    BY <1>12, <2>3, <2>4 DEF ThreadRelease, window, stream, frames, input
  <2>5. CASE ThreadClear(r)
    BY <1>12, <2>5 DEF ThreadClear, window, stream, frames, input
  <2>6. CASE OpenSocket(r)
    BY <1>12, <2>6 DEF OpenSocket, window, stream, frames, input
  <2>7. CASE ReadGrant(r)
    BY <1>12, <2>7 DEF ReadGrant, window, stream, frames, input
  <2>8. CASE RequestFails(r)
    BY <1>12, <2>2, <2>3, <2>8 DEF RequestFails, stream, frames, input
  <2>9. CASE Assign(r)
    BY <1>12, <2>1, <2>2, <2>9 DEF Assign, stream, frames, input
  <2> QED
    BY <1>12, <2>4, <2>5, <2>6, <2>7, <2>8, <2>9 DEF Asking
<1>13. CASE UNCHANGED vars
  BY <1>13 DEF vars, window, stream, frames, control, input
<1> QED
  BY <1>1, <1>2, <1>3, <1>4, <1>5, <1>6, <1>7, <1>8, <1>9, <1>10, <1>11, <1>12, <1>13
  DEF Next, Main, User, Connecting

----------------------------------------------------------------------------
(* Frames                                                                  *)

(* A drawing stays queued until it is at the head.                         *)
LEMMA DrawingStays ==
  ASSUME idle \in Seq(Posts), \E i \in DOMAIN idle : idle[i] = Render,
         \/ idle' = idle \/ \E m \in Posts : idle' = Append(idle, m)
         \/ idle # <<>> /\ Head(idle) # Render /\ idle' = Tail(idle)
  PROVE  \E i \in DOMAIN idle' : idle'[i] = Render
<1>1. CASE \E m \in Posts : idle' = Append(idle, m)
  BY <1>1, Appended
<1>2. CASE idle # <<>> /\ Head(idle) # Render /\ idle' = Tail(idle)
  <2>1. PICK i \in DOMAIN idle : idle[i] = Render
    OBVIOUS
  <2> QED
    BY <1>2, <2>1, Taken
<1> QED
  BY <1>1, <1>2

(* Every step but a frame and a drawing leaves what is kept or drops it,   *)
(* and takes no drawing from the queue.                                    *)
LEMMA OtherFrameMoves ==
  ASSUME TypeOK, AttemptInv, [Next]_vars, ~RenderFrame, \A k \in Connects : ~Frame(k)
  PROVE  /\ scheduled' => scheduled
         /\ latest' \in {latest, None} /\ picture' \in {picture, None}
         /\ \/ idle' = idle \/ \E m \in Posts : idle' = Append(idle, m)
            \/ idle # <<>> /\ Head(idle) # Render /\ idle' = Tail(idle)
<1>1. CASE Input
  BY <1>1, InputMoves DEF window, frames
<1>2. CASE Connecting
  <2>1. conn \in Connects
    BY <1>2, AttemptType DEF Connecting, ConnectFails, ConnectWorks
  <2>2. \E m \in Posts : idle' = Append(idle, m)
    BY <1>2, <2>1, PostTypes DEF Connecting, ConnectFails, ConnectWorks
  <2>3. UNCHANGED <<scheduled, latest, picture>>
    BY <1>2 DEF Connecting, ConnectFails, ConnectWorks, frames
  <2> QED
    BY <2>2, <2>3
<1>3. ASSUME NEW k \in Connects, Reading(k) \/ OpenFails(k) \/ StreamEnds(k)
      PROVE  UNCHANGED <<scheduled, latest, picture, idle>>
  BY <1>3 DEF Reading, Opened, Notices, OpenFails, StreamEnds, window, frames
<1>4. CASE ConnectResult \/ RequestGranted \/ RequestRefused
  <2>1. Head(idle).what # "render"
    BY <1>4 DEF ConnectResult, RequestGranted, RequestRefused
  <2>2. Head(idle) # Render
    BY <2>1 DEF Render, Posted
  <2> QED
    BY <1>4, <2>2 DEF ConnectResult, RequestGranted, RequestRefused, frames
<1>5. CASE User \/ EndRelease
  BY <1>5 DEF User, ClickConnect, ClickRequest, ClickRelease, ClickDisconnect, EndRelease, LetGo,
              Released, Disconnected, frames
<1>6. ASSUME NEW r \in Requests, Asking(r)
      PROVE  /\ UNCHANGED <<scheduled, latest, picture>>
             /\ idle' = idle \/ \E m \in Posts : idle' = Append(idle, m)
  BY <1>6, PostTypes DEF Asking, ThreadRelease, ThreadClear, OpenSocket, ReadGrant, RequestFails,
                         Assign, window, frames
<1>7. CASE UNCHANGED vars
  BY <1>7 DEF vars, window, frames
<1> QED
  BY <1>1, <1>2, <1>3, <1>4, <1>5, <1>6, <1>7 DEF Next, Main, User

LEMMA FrameStep ==
  ASSUME TypeOK, AttemptInv, FrameInv, [Next]_vars
  PROVE  FrameInv'
<1>1. CASE RenderFrame
  BY <1>1 DEF RenderFrame, FrameInv
<1>2. ASSUME NEW k \in Connects, Frame(k)
      PROVE  \E i \in DOMAIN idle' : idle'[i] = Render
  <2>1. CASE scheduled
    BY <1>2, <2>1 DEF Frame, FrameInv
  <2>2. CASE ~scheduled
    <3>1. idle \in Seq(Posts) /\ idle' = Append(idle, Render)
      BY <1>2, <2>2 DEF Frame, TypeOK
    <3> QED
      BY <3>1, Appended, PostTypes
  <2> QED
    BY <2>1, <2>2
<1>3. CASE ~RenderFrame /\ \A k \in Connects : ~Frame(k)
  BY <1>3, OtherFrameMoves, DrawingStays DEF FrameInv, TypeOK
<1> QED
  BY <1>1, <1>2, <1>3 DEF FrameInv

----------------------------------------------------------------------------
(* Connecting                                                              *)

(* The result that is handled is the only one: nothing is connected, and   *)
(* no attempt is made.                                                     *)
LEMMA ResultAtHead ==
  ASSUME TypeOK, ResultInv, ConnectResult
  PROVE  /\ ~connected /\ thread = "none" /\ "connect" \notin buttons
         /\ Head(idle).ok => conn # 0 /\ loop[conn] # "none"
         /\ \A i \in DOMAIN idle' : idle'[i].what # "connect"
<1>1. idle \in Seq(Posts) /\ idle # <<>> /\ idle' = Tail(idle) /\ Head(idle).what = "connect"
  BY DEF TypeOK, ConnectResult
<1>2. 1 \in DOMAIN idle /\ Head(idle) = idle[1] /\ DOMAIN idle \subseteq Nat
  BY <1>1, Taken
<1>3. /\ ~connected /\ thread = "none" /\ "connect" \notin buttons
      /\ Head(idle).ok => conn # 0 /\ loop[conn] # "none"
  BY <1>1, <1>2 DEF ResultInv
<1>4. ASSUME NEW i \in DOMAIN idle', idle'[i].what = "connect"
      PROVE  FALSE
  <2>1. i + 1 \in DOMAIN idle /\ idle[i + 1].what = "connect"
    BY <1>1, <1>4, Taken
  <2>2. i + 1 = 1
    BY <1>1, <1>2, <2>1 DEF ResultInv
  <2>3. i \in Nat \ {0}
    BY <1>1, Taken, LenProperties
  <2> QED
    BY <2>2, <2>3
<1> QED
  BY <1>3, <1>4

(* A reading thread goes on and never begins again.                        *)
Onward(k) == /\ loop'[k] = "none" <=> loop[k] = "none"
             /\ loop[k] = "ended" => loop'[k] = "ended"

(* Steps that leave the connection to itself: where the reading threads    *)
(* are is all that they change of it.                                      *)
ConnectionKept ==
  /\ UNCHANGED <<connected, conn, thread, stray>>
  /\ main' = "disconnect" => main = "disconnect"
  /\ \A b \in {"connect", "disconnect"} : b \in buttons' => b \in buttons
  /\ \A k \in Connects : Onward(k)
  /\ \/ idle' = idle \/ \E m \in Posts : m.what # "connect" /\ idle' = Append(idle, m)
     \/ idle # <<>> /\ idle' = Tail(idle) /\ (Head(idle) # Render \/ RenderFrame)

Connection ==
  \/ ConnectFails \/ ConnectWorks \/ ConnectResult \/ ClickConnect \/ ClickDisconnect
  \/ EndRelease /\ main = "disconnect"

LEMMA OtherConnectionMoves ==
  ASSUME TypeOK, [Next]_vars, ~Connection
  PROVE  ConnectionKept
<1> USE DEF ConnectionKept, Onward
<1>1. CASE Input
  BY <1>1, InputMoves DEF window, stream
<1>2. ASSUME NEW k \in Connects, Reading(k) \/ OpenFails(k) \/ StreamEnds(k)
      PROVE  ConnectionKept
  BY <1>2 DEF Reading, Opened, Notices, OpenFails, StreamEnds, window, TypeOK
<1>3. ASSUME NEW k \in Connects, Frame(k)
      PROVE  ConnectionKept
  <2>1. Render.what # "connect" /\ Render \in Posts
    BY PostTypes DEF Render, Posted
  <2> QED
    BY <1>3, <2>1 DEF Frame, stream
<1>4. CASE RenderFrame \/ RequestGranted \/ RequestRefused
  <2>1. /\ UNCHANGED <<connected, conn, thread, stray, loop, main>>
        /\ idle # <<>> /\ idle' = Tail(idle)
    BY <1>4 DEF RenderFrame, RequestGranted, RequestRefused, stream
  <2>2. buttons' \subseteq buttons \cup {"request", "wired"}
    BY <1>4 DEF RenderFrame, RequestGranted, RequestRefused
  <2>3. RenderFrame \/ Head(idle).what = "control"
    BY <1>4 DEF RequestGranted, RequestRefused
  <2>4. RenderFrame \/ Head(idle) # Render
    BY <2>3 DEF Render, Posted
  <2> QED
    BY <2>1, <2>2, <2>4
<1>5. CASE ClickRequest
  BY <1>5 DEF ClickRequest, stream
<1>6. CASE ClickRelease
  <2>1. UNCHANGED <<connected, idle, stream>> /\ main' # "disconnect"
    BY <1>6 DEF ClickRelease, LetGo, Released
  <2>2. buttons' \subseteq buttons \cup {"request"}
    BY <1>6 DEF ClickRelease, Released
  <2> QED
    BY <2>1, <2>2 DEF stream
<1>7. CASE EndRelease /\ main # "disconnect"
  <2>1. main = "release"
    BY <1>7 DEF EndRelease, TypeOK
  <2> QED
    BY <1>7, <2>1 DEF EndRelease, Released, stream
<1>8. ASSUME NEW r \in Requests, Asking(r)
      PROVE  ConnectionKept
  <2>1. \A b \in BOOLEAN :
          Posted("control", r, b).what # "connect" /\ Posted("control", r, b) \in Posts
    BY PostTypes DEF Posted
  <2>2. idle' = idle \/ \E m \in Posts : m.what # "connect" /\ idle' = Append(idle, m)
    BY <1>8, <2>1 DEF Asking, ThreadRelease, ThreadClear, OpenSocket, ReadGrant, RequestFails,
                      Assign, window
  <2>3. UNCHANGED <<connected, buttons, main, stream>>
    BY <1>8 DEF Asking, ThreadRelease, ThreadClear, OpenSocket, ReadGrant, RequestFails,
                Assign, window
  <2> QED
    BY <2>2, <2>3 DEF stream
<1>9. CASE UNCHANGED vars
  BY <1>9 DEF vars, window, stream
<1> QED
  BY <1>1, <1>2, <1>3, <1>4, <1>5, <1>6, <1>7, <1>8, <1>9
  DEF Next, Main, User, Connecting, Connection

LEMMA ConnectionStep ==
  ASSUME TypeOK, AttemptInv, ResultInv, [Next]_vars
  PROVE  AttemptInv' /\ ResultInv'
<1>1. CASE ConnectFails \/ ConnectWorks
  <2>1. conn \in Connects /\ thread = "due" /\ ~connected /\ "connect" \notin buttons
    BY <1>1, AttemptType DEF ConnectFails, ConnectWorks, AttemptInv
  <2>2. \A i \in DOMAIN idle : idle[i].what # "connect"
    BY <2>1 DEF ResultInv
  <2>3. /\ UNCHANGED <<connected, buttons, main, conn>> /\ thread' = "none"
        /\ \A k \in Connects : k # conn => loop'[k] = loop[k]
        /\ ConnectWorks => loop'[conn] # "none"
    BY <1>1, <2>1 DEF ConnectFails, ConnectWorks, TypeOK
  <2>4. AttemptInv'
    BY <2>1, <2>3 DEF AttemptInv, TypeOK, Connects
  <2>5. PICK b \in BOOLEAN : idle' = Append(idle, Posted("connect", conn, b))
                             /\ (b => loop'[conn] # "none")
    BY <1>1, <2>3 DEF ConnectFails, ConnectWorks
  <2>6. Posted("connect", conn, b) \in Posts /\ Posted("connect", conn, b).ok = b
    BY <2>1, PostTypes DEF Posted
  <2>7. /\ DOMAIN idle = 1..Len(idle) /\ DOMAIN idle' = 1..(Len(idle) + 1) /\ Len(idle) \in Nat
        /\ \A i \in DOMAIN idle : idle'[i] = idle[i]
        /\ idle'[Len(idle) + 1] = Posted("connect", conn, b)
    BY <2>5, <2>6, Appended DEF TypeOK
  <2>8. ASSUME NEW i \in DOMAIN idle', idle'[i].what = "connect"
        PROVE  i = Len(idle) + 1 /\ (idle'[i].ok => loop'[conn] # "none")
    BY <2>2, <2>5, <2>6, <2>7, <2>8
  <2>9. conn # 0
    BY <2>1 DEF Connects
  <2>10. ResultInv'
    BY <2>1, <2>3, <2>8, <2>9 DEF ResultInv
  <2> QED
    BY <2>4, <2>10
<1>2. CASE ConnectResult
  <2>1. ResultInv'
    BY <1>2, ResultAtHead DEF ResultInv
  <2>2. UNCHANGED <<main, conn, thread, loop>>
    BY <1>2 DEF ConnectResult, stream
  <2>3. CASE Head(idle).ok
    <3>1. /\ connected' /\ buttons' = buttons \cup {"disconnect", "request"}
          /\ thread = "none" /\ "connect" \notin buttons /\ conn # 0 /\ loop[conn] # "none"
      BY <1>2, <2>3, ResultAtHead DEF ConnectResult
    <3> QED
      BY <2>1, <2>2, <3>1 DEF AttemptInv
  <2>4. CASE ~Head(idle).ok
    <3>1. /\ ~connected /\ ~connected' /\ buttons' = buttons \cup {"connect"}
          /\ thread = "none"
      BY <1>2, <2>4, ResultAtHead DEF ConnectResult
    <3> QED
      BY <2>1, <2>2, <3>1 DEF AttemptInv
  <2> QED
    BY <2>1, <2>3, <2>4
<1>3. CASE ClickConnect
  <2>1. "connect" \in buttons /\ ~connected /\ UNCHANGED <<connected, main, idle, loop>>
    BY <1>3 DEF ClickConnect, AttemptInv
  <2>2. ResultInv'
    BY <2>1 DEF ResultInv
  <2>3. conn' = conn + 1 /\ conn' \in Connects /\ buttons' = buttons \ {"connect"}
    BY <1>3, ViewerAssumption DEF ClickConnect, TypeOK, Connects
  <2>4. AttemptInv'
    BY <2>1, <2>3 DEF AttemptInv, TypeOK, Connects
  <2> QED
    BY <2>2, <2>4
<1>4. CASE ClickDisconnect /\ handler # None
  <2>1. /\ "disconnect" \in buttons /\ UNCHANGED <<connected, buttons, conn, thread, loop, idle>>
    BY <1>4 DEF ClickDisconnect, stream
  <2> QED
    BY <2>1 DEF AttemptInv, ResultInv
<1>5. CASE (ClickDisconnect /\ handler = None) \/ (EndRelease /\ main = "disconnect")
  <2>1. connected
    BY <1>5 DEF ClickDisconnect, AttemptInv
  <2>2. /\ ~connected' /\ buttons' = {"connect"} /\ main' # "disconnect"
        /\ UNCHANGED <<conn, thread, loop, idle>>
    BY <1>5 DEF ClickDisconnect, EndRelease, LetGo, Disconnected
  <2> QED
    BY <2>1, <2>2 DEF AttemptInv, ResultInv
<1>6. CASE ~Connection
  <2>1. ConnectionKept
    BY <1>6, OtherConnectionMoves
  <2>2. conn # 0 => conn \in Connects
    BY ViewerAssumption DEF TypeOK, Connects
  <2>3. conn # 0 => (loop'[conn] = "none" <=> loop[conn] = "none")
    BY <2>1, <2>2 DEF ConnectionKept, Onward
  <2>4. AttemptInv'
    BY <2>1, <2>3 DEF AttemptInv, ConnectionKept, Onward
  <2>5. /\ UNCHANGED <<connected, conn, thread>>
        /\ "connect" \in buttons' => "connect" \in buttons
    BY <2>1 DEF ConnectionKept
  <2>6. SUFFICES ASSUME NEW i \in DOMAIN idle', idle'[i].what = "connect"
                 PROVE  /\ ~connected /\ thread = "none" /\ "connect" \notin buttons
                        /\ idle'[i].ok => conn # 0 /\ loop[conn] # "none"
                        /\ \A j \in DOMAIN idle' : idle'[j].what = "connect" => i = j
    <3>1. \A i \in DOMAIN idle' : idle'[i].what = "connect" =>
            /\ ~connected' /\ thread' = "none" /\ "connect" \notin buttons'
            /\ idle'[i].ok => conn' # 0 /\ loop'[conn'] # "none"
            /\ \A j \in DOMAIN idle' : idle'[j].what = "connect" => i = j
      BY <2>3, <2>5
    <3> QED
      BY <2>4, <3>1 DEF ResultInv
  <2>7. CASE \E m \in Posts : m.what # "connect" /\ idle' = Append(idle, m)
    <3>1. PICK m \in Posts : m.what # "connect" /\ idle' = Append(idle, m)
      BY <2>7
    <3>2. ASSUME NEW j \in DOMAIN idle', idle'[j].what = "connect"
          PROVE  j \in DOMAIN idle /\ idle'[j] = idle[j]
      BY <3>1, <3>2, Appended DEF TypeOK
    <3> QED
      BY <2>6, <3>2 DEF ResultInv
  <2>8. CASE idle # <<>> /\ idle' = Tail(idle)
    <3>1. /\ DOMAIN idle' \subseteq Nat
          /\ \A j \in DOMAIN idle' : j + 1 \in DOMAIN idle /\ idle'[j] = idle[j + 1]
      BY <2>8, Taken, LenProperties DEF TypeOK
    <3>2. \A j \in DOMAIN idle' : idle'[j].what = "connect" => i + 1 = j + 1
      BY <2>6, <3>1 DEF ResultInv
    <3>3. \A j \in DOMAIN idle' : idle'[j].what = "connect" => i = j
      BY <3>1, <3>2
    <3> QED
      BY <2>6, <3>1, <3>3 DEF ResultInv
  <2>9. CASE idle' = idle
    BY <2>9, <2>6 DEF ResultInv
  <2> QED
    BY <2>1, <2>7, <2>8, <2>9 DEF ConnectionKept
<1> QED
  BY <1>1, <1>2, <1>3, <1>4, <1>5, <1>6 DEF Connection

----------------------------------------------------------------------------
(* Whose frames                                                            *)

LEMMA StrayStep ==
  ASSUME TypeOK, AttemptInv, ResultInv, FrameInv, StrayInv, [Next]_vars
  PROVE  StrayInv'
<1> DEFINE Early == \A i \in DOMAIN idle : idle[i].what = "connect" /\ idle[i].ok =>
                       \E j \in DOMAIN idle : j < i /\ idle[j] = Render
           Known == \A k \in Connects :
                       loop[k] \notin {"none", "ended"} /\ ~Fresh(k) => loop[conn] = "none"
<1>1. StrayInv <=> Known /\ (latest # None /\ ~Fresh(latest) => ~connected /\ Early)
  BY DEF StrayInv
<1>2. StrayInv' <=> Known' /\ (latest' # None /\ ~Fresh(latest)' => ~connected' /\ Early')
  BY DEF StrayInv
<1> HIDE DEF Early, Known
<1>3. CASE ConnectFails
  <2>1. /\ UNCHANGED <<connected, conn, loop, stray, latest>> /\ conn \in Connects
        /\ idle' = Append(idle, Posted("connect", conn, FALSE))
    BY <1>3, AttemptType DEF ConnectFails, frames
  <2>2. Known'
    BY <1>1, <2>1 DEF Known, Fresh
  <2>3. Posted("connect", conn, FALSE) \in Posts /\ ~Posted("connect", conn, FALSE).ok
    BY <2>1, PostTypes DEF Posted
  <2>4. Early => Early'
    <3>1. /\ DOMAIN idle = 1..Len(idle) /\ DOMAIN idle' = 1..(Len(idle) + 1)
          /\ Len(idle) \in Nat /\ \A i \in DOMAIN idle : idle'[i] = idle[i]
          /\ ~idle'[Len(idle) + 1].ok
      BY <2>1, <2>3, Appended DEF TypeOK
    <3>2. \A i \in DOMAIN idle' : idle'[i].ok => i \in DOMAIN idle
      BY <3>1
    <3> QED
      BY <3>1, <3>2 DEF Early
  <2> QED
    BY <1>1, <1>2, <2>1, <2>2, <2>4 DEF Fresh
<1>4. CASE ConnectWorks
  <2>1. /\ UNCHANGED <<connected, conn, latest>> /\ conn \in Connects /\ ~connected
        /\ loop' = [loop EXCEPT ![conn] = "open"] /\ stray' = stray \cup Alive
        /\ idle' = Append(idle, Posted("connect", conn, TRUE))
    BY <1>4, AttemptType DEF ConnectWorks, AttemptInv, frames
  <2>2. Known'
    BY <2>1 DEF Known, Fresh, Alive, TypeOK
  <2>3. ASSUME latest # None
        PROVE  Early => Early'
    <3>1. /\ DOMAIN idle = 1..Len(idle) /\ DOMAIN idle' = 1..(Len(idle) + 1)
          /\ Len(idle) \in Nat /\ \A i \in DOMAIN idle : idle'[i] = idle[i]
      BY <2>1, PostTypes, Appended DEF TypeOK
    <3>2. PICK j \in DOMAIN idle : idle[j] = Render
      BY <2>3 DEF FrameInv
    <3>3. j \in DOMAIN idle' /\ idle'[j] = Render /\ j < Len(idle) + 1
      BY <3>1, <3>2
    <3> QED
      BY <3>1, <3>3 DEF Early
  <2> QED
    BY <1>1, <1>2, <2>1, <2>2, <2>3 DEF Fresh
<1>5. ASSUME NEW k \in Connects, Frame(k)
      PROVE  StrayInv'
  <2>1. /\ UNCHANGED <<connected, conn, loop, stray>> /\ latest' = k
        /\ loop[k] \notin {"none", "ended"}
        /\ \/ idle' = idle
           \/ idle' = Append(idle, Render)
    BY <1>5 DEF Frame, stream
  <2>2. Known'
    BY <1>1, <2>1 DEF Known, Fresh
  <2>3. ASSUME ~Fresh(k)
        PROVE  ~connected /\ Early'
    <3>1. loop[conn] = "none"
      BY <1>1, <2>1, <2>3 DEF Known
    <3>2. ~connected /\ \A i \in DOMAIN idle : idle[i].what = "connect" => ~idle[i].ok
      BY <3>1 DEF AttemptInv, ResultInv
    <3>3. Render \in Posts /\ Render.what # "connect"
      BY PostTypes DEF Render, Posted
    <3>4. \A i \in DOMAIN idle' : idle'[i].what = "connect" => i \in DOMAIN idle /\ idle'[i] = idle[i]
      BY <2>1, <3>3, Appended DEF TypeOK
    <3> QED
      BY <3>2, <3>4 DEF Early
  <2> QED
    BY <1>2, <2>1, <2>2, <2>3 DEF Fresh
<1>6. CASE RenderFrame
  <2>1. UNCHANGED <<conn, loop, stray>> /\ latest' = None
    BY <1>6 DEF RenderFrame, stream
  <2>2. Known'
    BY <1>1, <2>1 DEF Known, Fresh
  <2> QED
    BY <1>2, <2>1, <2>2
<1>7. CASE ConnectResult
  <2>1. UNCHANGED <<conn, loop, stray, latest>>
    BY <1>7 DEF ConnectResult, stream, frames
  <2>2. Known'
    BY <1>1, <2>1 DEF Known, Fresh
  <2>3. Early'
    BY <1>7, ResultAtHead DEF Early
  <2>4. ASSUME Head(idle).ok
        PROVE  ~Early
    <3>1. /\ 1 \in DOMAIN idle /\ idle[1].what = "connect" /\ idle[1].ok
          /\ DOMAIN idle = 1..Len(idle) /\ Len(idle) \in Nat
      BY <1>7, <2>4, Taken, LenProperties DEF ConnectResult, TypeOK
    <3> QED
      BY <3>1 DEF Early
  <2>5. ~Head(idle).ok => connected' = connected
    BY <1>7 DEF ConnectResult, TypeOK
  <2> QED
    BY <1>1, <1>2, <2>1, <2>2, <2>3, <2>4, <2>5 DEF Fresh
<1>8. CASE ClickConnect
  <2>1. /\ ~connected /\ UNCHANGED <<connected, loop, idle>> /\ conn' = conn + 1
        /\ \A i \in DOMAIN idle : idle[i].what # "connect"
    BY <1>8 DEF ClickConnect, AttemptInv, ResultInv
  <2>2. loop'[conn'] = "none"
    BY <1>8, <2>1, ViewerAssumption DEF ClickConnect, AttemptInv, Connects, TypeOK
  <2> QED
    BY <1>2, <2>1, <2>2 DEF Early, Known
<1>9. CASE ClickDisconnect \/ (EndRelease /\ main = "disconnect")
  <2>1. /\ UNCHANGED <<conn, loop, stray, idle>>
        /\ latest' = None \/ (latest' = latest /\ connected' = connected)
    BY <1>9 DEF ClickDisconnect, EndRelease, Disconnected, stream, frames
  <2>2. Known' /\ Early' = Early
    BY <1>1, <2>1 DEF Known, Early, Fresh
  <2> QED
    BY <1>1, <1>2, <2>1, <2>2 DEF Fresh
<1>10. CASE ~Connection /\ ~RenderFrame /\ \A k \in Connects : ~Frame(k)
  <2>1. /\ UNCHANGED <<connected, conn, stray>>
        /\ \A k \in Connects : Onward(k)
    BY <1>10, OtherConnectionMoves DEF ConnectionKept
  <2>2. latest' \in {latest, None}
    BY <1>10, OtherFrameMoves
  <2>3. ASSUME NEW k \in Connects, loop'[k] \notin {"none", "ended"}, ~Fresh(k)
        PROVE  loop'[conn] = "none"
    <3>1. loop[k] \notin {"none", "ended"}
      BY <2>1, <2>3 DEF Onward
    <3>2. conn \in Connects
      BY <3>1, ViewerAssumption DEF AttemptInv, TypeOK, Connects
    <3> QED
      BY <1>1, <2>1, <2>3, <3>1, <3>2 DEF Known, Onward
  <2>4. Known'
    BY <2>1, <2>3 DEF Known, Fresh
  <2>5. Early => Early'
    <3>1. CASE \E m \in Posts : m.what # "connect" /\ idle' = Append(idle, m)
      <4>1. \A i \in DOMAIN idle' : idle'[i].what = "connect" =>
              i \in DOMAIN idle /\ idle'[i] = idle[i]
        BY <3>1, Appended DEF TypeOK
      <4>2. \A i \in DOMAIN idle : i \in DOMAIN idle' /\ idle'[i] = idle[i]
        BY <3>1, Appended DEF TypeOK
      <4> QED
        BY <4>1, <4>2 DEF Early
    <3>2. CASE idle # <<>> /\ idle' = Tail(idle) /\ Head(idle) # Render
      <4>1. /\ DOMAIN idle \subseteq Nat /\ DOMAIN idle' \subseteq Nat /\ idle[1] # Render
            /\ \A i \in DOMAIN idle' : i + 1 \in DOMAIN idle /\ idle'[i] = idle[i + 1]
            /\ \A i \in DOMAIN idle : i # 1 => i - 1 \in DOMAIN idle' /\ idle'[i - 1] = idle[i]
        BY <3>2, Taken, LenProperties DEF TypeOK
      <4>2. ASSUME Early, NEW i \in DOMAIN idle', idle'[i].what = "connect", idle'[i].ok
            PROVE  \E j \in DOMAIN idle' : j < i /\ idle'[j] = Render
        <5>1. PICK j \in DOMAIN idle : j < i + 1 /\ idle[j] = Render
          BY <4>1, <4>2 DEF Early
        <5>2. j - 1 \in DOMAIN idle' /\ idle'[j - 1] = Render /\ j - 1 < i
          BY <4>1, <5>1
        <5> QED
          BY <5>2
      <4> QED
        BY <4>2 DEF Early
    <3>3. CASE idle' = idle
      BY <3>3 DEF Early
    <3> QED
      BY <1>10, <3>1, <3>2, <3>3, OtherConnectionMoves DEF ConnectionKept
  <2> QED
    BY <1>1, <1>2, <2>1, <2>2, <2>4, <2>5 DEF Fresh
<1> QED
  BY <1>3, <1>4, <1>5, <1>6, <1>7, <1>8, <1>9, <1>10 DEF Connection

LEMMA PictureStep ==
  ASSUME TypeOK, AttemptInv, StrayInv, PictureIsCurrent, [Next]_vars
  PROVE  PictureIsCurrent'
<1>1. CASE RenderFrame
  <2>1. /\ UNCHANGED <<connected, conn, stray>>
        /\ picture' = picture \/ (connected /\ latest # None /\ picture' = latest)
    BY <1>1 DEF RenderFrame, stream
  <2> QED
    BY <2>1 DEF PictureIsCurrent, StrayInv, Fresh
<1>2. ASSUME NEW k \in Connects, Frame(k)
      PROVE  PictureIsCurrent'
  BY <1>2 DEF Frame, stream, PictureIsCurrent
<1>3. CASE ~RenderFrame /\ (Connecting \/ ClickConnect) /\ \A k \in Connects : ~Frame(k)
  <2>1. ~connected
    BY <1>3 DEF Connecting, ConnectFails, ConnectWorks, ClickConnect, AttemptInv
  <2>2. picture' = None
    BY <1>3, <2>1, OtherFrameMoves DEF PictureIsCurrent
  <2> QED
    BY <2>2 DEF PictureIsCurrent
<1>4. CASE ConnectResult
  BY <1>4 DEF ConnectResult, stream, frames, PictureIsCurrent
<1>5. CASE ClickDisconnect \/ (EndRelease /\ main = "disconnect")
  <2>1. picture' = None \/ UNCHANGED <<picture, connected, conn, stray>>
    BY <1>5 DEF ClickDisconnect, EndRelease, Disconnected, stream, frames
  <2> QED
    BY <2>1 DEF PictureIsCurrent
<1>6. CASE ~Connection /\ ~RenderFrame /\ \A k \in Connects : ~Frame(k)
  BY <1>6, OtherConnectionMoves, OtherFrameMoves DEF ConnectionKept, PictureIsCurrent
<1> QED
  BY <1>1, <1>2, <1>3, <1>4, <1>5, <1>6 DEF Connection, Connecting

----------------------------------------------------------------------------
(* Requests                                                                *)

(* The answer that is handled is of a request under way, and the only one. *)
LEMMA AnswerAtHead ==
  ASSUME TypeOK, AnswerInv, RequestGranted \/ RequestRefused
  PROVE  /\ Head(idle).of \in Requests /\ req[Head(idle).of] = "posted"
         /\ req' = [req EXCEPT ![Head(idle).of] = "done"]
         /\ 1 \in DOMAIN idle /\ idle[1] = Head(idle) /\ Head(idle).what = "control"
         /\ \A i \in DOMAIN idle' : idle'[i].what = "control" =>
              /\ i + 1 \in DOMAIN idle /\ idle'[i] = idle[i + 1]
              /\ idle'[i].of # Head(idle).of
<1>1. idle \in Seq(Posts) /\ idle # <<>> /\ idle' = Tail(idle) /\ Head(idle).what = "control"
  BY DEF TypeOK, RequestGranted, RequestRefused
<1>2. /\ 1 \in DOMAIN idle /\ Head(idle) = idle[1] /\ DOMAIN idle' \subseteq Nat \ {0}
      /\ \A i \in DOMAIN idle' : i + 1 \in DOMAIN idle /\ idle'[i] = idle[i + 1]
  BY <1>1, Taken, LenProperties
<1>3. Head(idle).of \in Requests /\ req[Head(idle).of] = "posted"
  BY <1>1, <1>2 DEF AnswerInv
<1>4. req' = [req EXCEPT ![Head(idle).of] = "done"]
  BY DEF RequestGranted, RequestRefused
<1>5. ASSUME NEW i \in DOMAIN idle', idle'[i].what = "control", idle'[i].of = Head(idle).of
      PROVE  FALSE
  <2>1. idle[i + 1].what = "control" /\ idle[i + 1].of = idle[1].of /\ i + 1 \in DOMAIN idle
    BY <1>2, <1>5
  <2>2. i + 1 = 1
    BY <1>1, <1>2, <2>1 DEF AnswerInv
  <2> QED
    BY <1>2, <2>2
<1> QED
  BY <1>1, <1>2, <1>3, <1>4, <1>5

(* What a step can do to the queue, as far as answers are concerned: those *)
(* that are there were there, but for one that is posted with its request. *)
LEMMA AnswerMoves ==
  ASSUME TypeOK, AttemptInv, AnswerInv, [Next]_vars
  PROVE  \/ RequestGranted \/ RequestRefused
         \/ \E r \in Requests : RequestFails(r) \/ Assign(r)
         \/ /\ \A r \in Requests : req[r] = "posted" => req'[r] = "posted"
            /\ \/ idle' = idle \/ \E m \in Posts : m.what # "control" /\ idle' = Append(idle, m)
               \/ idle # <<>> /\ idle' = Tail(idle) /\ Head(idle).what # "control"
<1>1. CASE Input
  BY <1>1, InputMoves DEF window, control
<1>2. CASE Connecting
  <2>1. /\ conn \in Connects /\ UNCHANGED control
        /\ \E b \in BOOLEAN : idle' = Append(idle, Posted("connect", conn, b))
    BY <1>2, AttemptType DEF Connecting, ConnectFails, ConnectWorks
  <2>2. \A b \in BOOLEAN : /\ Posted("connect", conn, b) \in Posts
                           /\ Posted("connect", conn, b).what # "control"
    BY <2>1, PostTypes DEF Posted
  <2>3. \E m \in Posts : m.what # "control" /\ idle' = Append(idle, m)
    BY <2>1, <2>2
  <2> QED
    BY <2>1, <2>3 DEF control
<1>3. ASSUME NEW k \in Connects, Reading(k) \/ OpenFails(k) \/ StreamEnds(k)
      PROVE  UNCHANGED <<idle, req>>
  BY <1>3 DEF Reading, Opened, Notices, OpenFails, StreamEnds, window, control
<1>4. ASSUME NEW k \in Connects, Frame(k)
      PROVE  /\ UNCHANGED req
             /\ idle' = idle \/ \E m \in Posts : m.what # "control" /\ idle' = Append(idle, m)
  <2>1. Render.what # "control" /\ Render \in Posts
    BY PostTypes DEF Render, Posted
  <2> QED
    BY <1>4, <2>1 DEF Frame, control
<1>5. CASE ConnectResult \/ RenderFrame
  <2>1. /\ idle # <<>> /\ idle' = Tail(idle) /\ UNCHANGED req
        /\ Head(idle).what = "connect" \/ Head(idle) = Render
    BY <1>5 DEF ConnectResult, RenderFrame, control
  <2>2. Render.what = "render"
    BY DEF Render, Posted
  <2> QED
    BY <2>1, <2>2
<1>6. CASE User \/ EndRelease
  <2>1. UNCHANGED idle
    BY <1>6 DEF User, ClickConnect, ClickRequest, ClickRelease, ClickDisconnect, EndRelease
  <2>2. UNCHANGED req \/ \E r \in Requests : req[r] = "none" /\ req' = [req EXCEPT ![r] = "release"]
    BY <1>6 DEF User, ClickConnect, ClickRequest, ClickRelease, ClickDisconnect, EndRelease,
                control
  <2> QED
    BY <2>1, <2>2 DEF TypeOK
<1>7. ASSUME NEW r \in Requests, ThreadRelease(r) \/ ThreadClear(r) \/ OpenSocket(r) \/ ReadGrant(r)
      PROVE  /\ UNCHANGED idle
             /\ \A q \in Requests : req[q] = "posted" => req'[q] = "posted"
  BY <1>7 DEF ThreadRelease, ThreadClear, OpenSocket, ReadGrant, window, TypeOK
<1>8. CASE UNCHANGED vars
  BY <1>8 DEF vars, window, control
<1> QED
  BY <1>1, <1>2, <1>3, <1>4, <1>5, <1>6, <1>7, <1>8 DEF Next, Main, User, Asking

LEMMA AnswerStep ==
  ASSUME TypeOK, AttemptInv, AnswerInv, [Next]_vars
  PROVE  AnswerInv'
<1>1. CASE RequestGranted \/ RequestRefused
  <2>1. DOMAIN idle' \subseteq Nat
    BY <1>1, Taken, LenProperties DEF RequestGranted, RequestRefused, TypeOK
  <2> SUFFICES ASSUME NEW i \in DOMAIN idle', idle'[i].what = "control"
               PROVE  /\ idle'[i].of \in Requests /\ req'[idle'[i].of] = "posted"
                      /\ \A j \in DOMAIN idle' :
                           idle'[j].what = "control" /\ idle'[j].of = idle'[i].of => i = j
    BY DEF AnswerInv
  <2>2. idle'[i].of \in Requests /\ req'[idle'[i].of] = "posted"
    BY <1>1, AnswerAtHead DEF AnswerInv, TypeOK
  <2>3. ASSUME NEW j \in DOMAIN idle', idle'[j].what = "control", idle'[j].of = idle'[i].of
        PROVE  i = j
    <3>1. i + 1 = j + 1
      BY <1>1, <2>3, AnswerAtHead DEF AnswerInv
    <3> QED
      BY <2>1, <3>1
  <2> QED
    BY <2>2, <2>3
<1>2. ASSUME NEW r \in Requests, RequestFails(r) \/ Assign(r)
      PROVE  AnswerInv'
  <2>1. PICK b \in BOOLEAN : idle' = Append(idle, Posted("control", r, b))
    BY <1>2 DEF RequestFails, Assign
  <2>2. /\ DOMAIN idle = 1..Len(idle) /\ DOMAIN idle' = 1..(Len(idle) + 1) /\ Len(idle) \in Nat
        /\ \A i \in DOMAIN idle : idle'[i] = idle[i]
        /\ idle'[Len(idle) + 1] = Posted("control", r, b)
    BY <2>1, PostTypes, Appended DEF TypeOK
  <2>3. Posted("control", r, b).of = r
    BY DEF Posted
  <2>4. req[r] # "posted" /\ req' = [req EXCEPT ![r] = "posted"]
    BY <1>2 DEF RequestFails, Assign
  <2>5. \A i \in DOMAIN idle : idle[i].what = "control" => idle[i].of # r
    BY <2>4 DEF AnswerInv
  <2>6. \A i \in DOMAIN idle' : i \in DOMAIN idle \/ (i = Len(idle) + 1 /\ idle'[i].of = r)
    BY <2>2, <2>3
  <2>7. \A i \in DOMAIN idle' : idle'[i].what = "control" =>
          idle'[i].of \in Requests /\ req'[idle'[i].of] = "posted"
    BY <2>2, <2>4, <2>6 DEF AnswerInv, TypeOK
  <2>8. ASSUME NEW i \in DOMAIN idle', idle'[i].what = "control",
               NEW j \in DOMAIN idle', idle'[j].what = "control", idle'[j].of = idle'[i].of
        PROVE  i = j
    BY <2>2, <2>5, <2>6, <2>8 DEF AnswerInv
  <2> QED
    BY <2>7, <2>8 DEF AnswerInv
<1>3. CASE /\ \A r \in Requests : req[r] = "posted" => req'[r] = "posted"
           /\ \/ idle' = idle \/ \E m \in Posts : m.what # "control" /\ idle' = Append(idle, m)
              \/ idle # <<>> /\ idle' = Tail(idle) /\ Head(idle).what # "control"
  <2>1. CASE idle' = idle
    BY <1>3, <2>1 DEF AnswerInv
  <2>2. CASE \E m \in Posts : m.what # "control" /\ idle' = Append(idle, m)
    <3>1. \A i \in DOMAIN idle' : idle'[i].what = "control" =>
            i \in DOMAIN idle /\ idle'[i] = idle[i]
      BY <2>2, Appended DEF TypeOK
    <3> QED
      BY <1>3, <3>1 DEF AnswerInv
  <2>3. CASE idle # <<>> /\ idle' = Tail(idle)
    <3>1. /\ DOMAIN idle' \subseteq Nat
          /\ \A i \in DOMAIN idle' : i + 1 \in DOMAIN idle /\ idle'[i] = idle[i + 1]
      BY <2>3, Taken, LenProperties DEF TypeOK
    <3>2. ASSUME NEW i \in DOMAIN idle', idle'[i].what = "control",
                 NEW j \in DOMAIN idle', idle'[j].what = "control", idle'[j].of = idle'[i].of
          PROVE  i = j
      <4>1. i + 1 = j + 1
        BY <3>1, <3>2 DEF AnswerInv
      <4> QED
        BY <3>1, <4>1
    <3>3. ASSUME NEW i \in DOMAIN idle', idle'[i].what = "control"
          PROVE  idle'[i].of \in Requests /\ req'[idle'[i].of] = "posted"
      BY <1>3, <3>1, <3>3 DEF AnswerInv
    <3> QED
      BY <3>2, <3>3 DEF AnswerInv
  <2> QED
    BY <1>3, <2>1, <2>2, <2>3
<1> QED
  BY <1>1, <1>2, <1>3, AnswerMoves

(* Steps that have nothing to do with control.  The result of an attempt   *)
(* makes the request button live, but only where nothing was connected.    *)
ControlKept ==
  /\ UNCHANGED <<control, pressed, main>>
  /\ connected => connected'
  /\ "wired" \in buttons' <=> "wired" \in buttons
  /\ connected => ("request" \in buttons' <=> "request" \in buttons)

Controlling ==
  \/ Input \/ RequestGranted \/ RequestRefused \/ EndRelease
  \/ ClickRequest \/ ClickRelease \/ ClickDisconnect
  \/ \E r \in Requests : Asking(r)

LEMMA OtherControlMoves ==
  ASSUME TypeOK, ResultInv, [Next]_vars, ~Controlling
  PROVE  ControlKept
<1> USE DEF ControlKept
<1>1. CASE Connecting /\ UNCHANGED input
  <2>1. CASE ConnectFails
    BY <1>1, <2>1 DEF ConnectFails, input
  <2>2. CASE ConnectWorks
    BY <1>1, <2>2 DEF ConnectWorks, input
  <2> QED
    BY <1>1, <2>1, <2>2 DEF Connecting
<1>2. ASSUME NEW k \in Connects, Reading(k) \/ OpenFails(k) \/ StreamEnds(k) \/ Frame(k),
             UNCHANGED input
      PROVE  ControlKept
  BY <1>2 DEF Reading, Opened, Notices, OpenFails, StreamEnds, Frame, window, input
<1>3. CASE ConnectResult /\ UNCHANGED input
  <2>1. UNCHANGED <<control, pressed, main>> /\ ~connected
    BY <1>3, ResultAtHead DEF ConnectResult, input
  <2>2. "wired" \in buttons' <=> "wired" \in buttons
    BY <1>3 DEF ConnectResult
  <2> QED
    BY <2>1, <2>2
<1>4. CASE RenderFrame /\ UNCHANGED input
  BY <1>4 DEF RenderFrame, input
<1>5. CASE ClickConnect /\ UNCHANGED input
  BY <1>5 DEF ClickConnect, input
<1>6. CASE UNCHANGED vars
  BY <1>6 DEF vars, window, input
<1> QED
  BY <1>1, <1>2, <1>3, <1>4, <1>5, <1>6 DEF Next, Main, User, Controlling

(* What the main thread, the user and the requests do is no input.         *)
LEMMA OnlyInput ==
  ASSUME [Next]_vars, ~Input
  PROVE  UNCHANGED <<pressed, mute>>
  BY DEF Next, vars, input

(* A request's thread goes on: the request stays under way.                *)
LEMMA AskingMoves ==
  ASSUME TypeOK, NEW r \in Requests, Asking(r)
  PROVE  /\ req[r] \notin {"none", "posted", "done"} /\ req'[r] \notin {"none", "release", "done"}
         /\ \A q \in Requests : q # r => req'[q] = req[q]
         /\ InFlight' = InFlight /\ r \in InFlight
         /\ UNCHANGED <<connected, buttons, main, held, active, log, crossed>>
<1>1. /\ req[r] \notin {"none", "posted", "done"} /\ req'[r] \notin {"none", "release", "done"}
      /\ \A q \in Requests : q # r => req'[q] = req[q]
  BY DEF Asking, ThreadRelease, ThreadClear, OpenSocket, ReadGrant, RequestFails, Assign, TypeOK
<1>2. UNCHANGED <<connected, buttons, main, held, active, log, crossed>>
  BY DEF Asking, ThreadRelease, ThreadClear, OpenSocket, ReadGrant, RequestFails, Assign, window
<1>3. InFlight' = InFlight /\ r \in InFlight
  BY <1>1 DEF InFlight
<1> QED
  BY <1>1, <1>2, <1>3

LEMMA AnsweredMoves ==
  ASSUME TypeOK, AnswerInv, RequestGranted \/ RequestRefused
  PROVE  /\ InFlight' = InFlight \ {Head(idle).of} /\ Head(idle).of \in InFlight
         /\ main = "free" /\ UNCHANGED <<connected, main, chan, handler, crossed>>
         /\ \A q \in Requests : q # Head(idle).of => req'[q] = req[q]
         /\ req'[Head(idle).of] = "done"
<1>1. /\ Head(idle).of \in Requests /\ req[Head(idle).of] = "posted"
      /\ req' = [req EXCEPT ![Head(idle).of] = "done"]
  BY AnswerAtHead
<1>2. main = "free" /\ UNCHANGED <<connected, main, chan, handler, crossed>>
  BY DEF RequestGranted, RequestRefused
<1> QED
  BY <1>1, <1>2 DEF InFlight, TypeOK

LEMMA ClickedMoves ==
  ASSUME TypeOK, ClickRequest
  PROVE  \E r \in Requests :
           /\ req[r] = "none" /\ req' = [req EXCEPT ![r] = "release"]
           /\ InFlight' = InFlight \cup {r}
           /\ crossed' = IF InFlight = {} THEN crossed ELSE crossed \cup {r}
<1>1. PICK r \in Requests : /\ req[r] = "none" /\ req' = [req EXCEPT ![r] = "release"]
                            /\ crossed' = IF InFlight = {} THEN crossed ELSE crossed \cup {r}
  BY DEF ClickRequest
<1>2. InFlight' = InFlight \cup {r}
  BY <1>1 DEF InFlight, TypeOK
<1> QED
  BY <1>1, <1>2

LEMMA OverlapStep ==
  ASSUME TypeOK, ResultInv, AnswerInv, OverlapInv, [Next]_vars
  PROVE  OverlapInv'
<1>1. CASE Input
  BY <1>1, InputMoves DEF window, control, OverlapInv, InFlight
<1>2. CASE RequestGranted \/ RequestRefused
  <2>1. InFlight' \subseteq crossed'
    BY <1>2, AnsweredMoves DEF OverlapInv
  <2> QED
    BY <2>1 DEF OverlapInv
<1>3. CASE ClickRequest
  <2>1. PICK r \in Requests :
          /\ req[r] = "none" /\ InFlight' = InFlight \cup {r}
          /\ crossed' = IF InFlight = {} THEN crossed ELSE crossed \cup {r}
    BY <1>3, ClickedMoves
  <2>2. /\ "request" \in buttons /\ connected /\ connected' /\ "request" \notin buttons'
        /\ main' = "free"
    BY <1>3 DEF ClickRequest
  <2>3. InFlight \subseteq crossed
    BY <2>2 DEF OverlapInv
  <2> QED
    BY <2>1, <2>2, <2>3 DEF OverlapInv
<1>4. CASE ClickRelease \/ ClickDisconnect
  <2>1. InFlight' = InFlight /\ crossed' = crossed \cup InFlight
    BY <1>4 DEF ClickRelease, ClickDisconnect, LetGo, InFlight
  <2> QED
    BY <2>1 DEF OverlapInv
<1>5. CASE EndRelease
  <2>1. main # "free" /\ UNCHANGED <<req, crossed>>
    BY <1>5 DEF EndRelease
  <2> QED
    BY <2>1 DEF OverlapInv, InFlight
<1>6. ASSUME NEW r \in Requests, Asking(r)
      PROVE  OverlapInv'
  BY <1>6, AskingMoves DEF OverlapInv
<1>7. CASE ~Controlling
  BY <1>7, OtherControlMoves DEF ControlKept, control, OverlapInv, InFlight
<1> QED
  BY <1>1, <1>2, <1>3, <1>4, <1>5, <1>6, <1>7 DEF Controlling

----------------------------------------------------------------------------
(* Channels                                                                *)

LEMMA LettingGoMoves ==
  ASSUME TypeOK, ClickRelease \/ ClickDisconnect
  PROVE  /\ main = "free" /\ held' = None /\ active' = FALSE /\ UNCHANGED <<idle, req, handler>>
         /\ main' = "free" <=> handler = None
         /\ log' = IF held # None THEN "stop" ELSE log
         /\ crossed' = crossed \cup InFlight
         /\ \A q \in Requests : chan'[q] = IF q = handler THEN "shut" ELSE chan[q]
<1>1. chan' = Shut(handler)
  BY DEF ClickRelease, ClickDisconnect, LetGo
<1>2. \A q \in Requests : chan'[q] = IF q = handler THEN "shut" ELSE chan[q]
  BY <1>1, ShutType DEF TypeOK
<1> QED
  BY <1>2 DEF ClickRelease, ClickDisconnect, LetGo

(* A request's thread opens and closes its own channel, and closes the one *)
(* of the handler; it forgets that one, or puts its own in its place.      *)
LEMMA ThreadMoves ==
  ASSUME TypeOK, NEW r \in Requests, Asking(r)
  PROVE  \/ /\ req[r] = "release" /\ handler' = handler /\ UNCHANGED idle
            /\ req'[r] \in {"clear", "socket"}
            /\ \A q \in Requests : chan'[q] = IF q = handler THEN "shut" ELSE chan[q]
         \/ /\ req[r] = "clear" /\ req'[r] = "socket" /\ handler' = None
            /\ UNCHANGED <<idle, chan>>
         \/ /\ req[r] \in {"socket", "shake"} /\ handler' = handler /\ UNCHANGED idle
            /\ req'[r] \in {"shake", "assign"}
            /\ \A q \in Requests : q # r => chan'[q] = chan[q]
         \/ /\ req[r] \in {"socket", "shake"} /\ handler' = handler
            /\ idle' = Append(idle, Posted("control", r, FALSE)) /\ req'[r] = "posted"
            /\ \A q \in Requests : q # r => chan'[q] = chan[q]
            /\ chan'[r] \in {"none", "shut"}
         \/ /\ req[r] = "assign" /\ handler' = r /\ UNCHANGED chan
            /\ idle' = Append(idle, Posted("control", r, TRUE)) /\ req'[r] = "posted"
<1>1. CASE ThreadRelease(r)
  <2>1. \A q \in Requests : chan'[q] = IF q = handler THEN "shut" ELSE chan[q]
    BY <1>1, ShutType DEF ThreadRelease, TypeOK
  <2> QED
    BY <1>1, <2>1 DEF ThreadRelease, TypeOK, window
<1>2. CASE ThreadClear(r)
  BY <1>2 DEF ThreadClear, TypeOK, window
<1>3. CASE OpenSocket(r)
  BY <1>3 DEF OpenSocket, TypeOK, window
<1>4. CASE ReadGrant(r)
  BY <1>4 DEF ReadGrant, TypeOK, window
<1>5. CASE RequestFails(r)
  <2>1. r \in 0..MaxRequests
    BY ViewerAssumption DEF Requests
  <2>2. /\ \A q \in Requests : q # r => chan'[q] = chan[q]
        /\ chan'[r] \in {"none", "shut"}
    BY <1>5, <2>1, ShutType DEF RequestFails
  <2> QED
    BY <1>5, <2>2 DEF RequestFails, TypeOK
<1>6. CASE Assign(r)
  BY <1>6 DEF Assign, TypeOK
<1> QED
  BY <1>1, <1>2, <1>3, <1>4, <1>5, <1>6 DEF Asking

LEMMA HandlerStep ==
  ASSUME TypeOK, ResultInv, AnswerInv, OverlapInv, HandlerInv, [Next]_vars
  PROVE  HandlerInv'
<1> DEFINE Answered == {r \in Requests : req[r] \in {"posted", "done"}}
<1>1. /\ handler # None => handler \in Answered
      /\ held # None => held \in Answered
      /\ pressed \subseteq Answered
      /\ None \notin Requests
  BY ViewerAssumption DEF HandlerInv, TypeOK, Requests, None
<1>2. ASSUME Answered \subseteq Answered',
             handler' # None => handler' \in Answered', held' \in {held, handler, None},
             pressed' \subseteq (pressed \cup {held}) \ {None},
             handler' # None /\ main' # "free" => Lost(handler)',
             handler' # None => \A r \in Requests : req'[r] \in Chosen => Lost(handler)'
      PROVE  HandlerInv'
  BY <1>1, <1>2 DEF HandlerInv, Chosen
<1>3. CASE Input
  BY <1>3, InputMoves DEF window, control, HandlerInv, Lost
<1>4. CASE ~Input /\ (RequestGranted \/ RequestRefused)
  <2>1. held' = handler \/ held' = None
    BY <1>4 DEF RequestGranted, RequestRefused
  <2>2. \A q \in Requests : /\ req[q] \in {"posted", "done"} => req'[q] \in {"posted", "done"}
                            /\ req'[q] \in Chosen => req[q] \in Chosen
    BY <1>4, AnsweredMoves DEF Chosen
  <2>3. UNCHANGED <<chan, handler, crossed, main, pressed>>
    BY <1>4, AnsweredMoves, OnlyInput
  <2> QED
    BY <1>1, <1>2, <2>1, <2>2, <2>3 DEF HandlerInv, Lost
<1>5. CASE ~Input /\ ClickRequest
  <2>1. PICK r \in Requests :
          /\ req[r] = "none" /\ req' = [req EXCEPT ![r] = "release"]
          /\ crossed' = IF InFlight = {} THEN crossed ELSE crossed \cup {r}
    BY <1>5, ClickedMoves
  <2>2. UNCHANGED <<chan, handler, held, main, pressed>>
    BY <1>5, OnlyInput DEF ClickRequest
  <2>3. \A q \in Requests : /\ req[q] \in {"posted", "done"} => req'[q] \in {"posted", "done"}
                            /\ req'[q] \in Chosen => req[q] \in Chosen
    BY <2>1 DEF Chosen, TypeOK
  <2> QED
    BY <1>1, <1>2, <2>1, <2>2, <2>3 DEF HandlerInv, Lost
<1>6. CASE ~Input /\ (ClickRelease \/ ClickDisconnect)
  <2>1. held' = None /\ UNCHANGED <<req, handler, pressed>>
    BY <1>6, LettingGoMoves, OnlyInput
  <2>2. handler # None => Lost(handler)'
    BY <1>1, <1>6, LettingGoMoves DEF Lost
  <2> QED
    BY <1>1, <1>2, <2>1, <2>2
<1>7. CASE ~Input /\ EndRelease
  <2>1. handler' = None /\ UNCHANGED <<req, held, pressed>>
    BY <1>7, OnlyInput DEF EndRelease
  <2> QED
    BY <1>1, <1>2, <2>1
<1>8. ASSUME ~Input, NEW r \in Requests, Asking(r)
      PROVE  HandlerInv'
  <2>1. /\ req[r] \notin {"none", "posted", "done"} /\ r \in InFlight
        /\ \A q \in Requests : q # r => req'[q] = req[q]
        /\ UNCHANGED <<main, held, crossed>>
    BY <1>8, AskingMoves
  <2>2. Answered \subseteq Answered' /\ UNCHANGED pressed /\ handler # r
    BY <1>1, <1>8, <2>1, OnlyInput
  <2>3. CASE req[r] = "release"
    <3>1. handler' = handler /\ (handler # None => chan'[handler] = "shut")
      BY <1>1, <1>8, <2>3, ThreadMoves
    <3> QED
      BY <1>1, <1>2, <2>1, <2>2, <3>1 DEF Lost
  <2>4. CASE req[r] = "clear"
    BY <1>1, <1>2, <1>8, <2>1, <2>2, <2>4, ThreadMoves
  <2>5. CASE req[r] \in {"socket", "shake"}
    <3>1. handler' = handler /\ (handler # None => chan'[handler] = chan[handler])
      BY <1>1, <1>8, <2>2, <2>5, ThreadMoves
    <3>2. handler # None => Lost(handler)
      BY <2>5 DEF HandlerInv, Chosen
    <3> QED
      BY <1>1, <1>2, <2>1, <2>2, <3>1, <3>2 DEF Lost
  <2>6. CASE req[r] = "assign"
    <3>1. handler' = r /\ req'[r] = "posted"
      BY <1>8, <2>6, ThreadMoves
    <3>2. main # "free" => r \in crossed
      BY <2>1 DEF OverlapInv
    <3>3. ASSUME NEW q \in Requests, req'[q] \in Chosen
          PROVE  r \in crossed
      <4>1. q # r /\ q \in InFlight
        BY <2>1, <3>1, <3>3 DEF Chosen, InFlight
      <4> QED
        BY <2>1, <4>1 DEF OverlapInv
    <3>4. main' # "free" => Lost(handler)'
      BY <2>1, <3>1, <3>2 DEF Lost
    <3>5. \A q \in Requests : req'[q] \in Chosen => Lost(handler)'
      BY <2>1, <3>1, <3>3 DEF Lost
    <3>6. handler' \in Answered'
      BY <3>1
    <3> QED
      BY <1>1, <1>2, <2>1, <2>2, <3>4, <3>5, <3>6
  <2> QED
    BY <1>8, <2>3, <2>4, <2>5, <2>6, ThreadMoves
<1>9. CASE ~Controlling
  BY <1>9, OtherControlMoves DEF ControlKept, control, HandlerInv, Lost
<1> QED
  BY <1>3, <1>4, <1>5, <1>6, <1>7, <1>8, <1>9 DEF Controlling

LEMMA ReachStep ==
  ASSUME TypeOK, ResultInv, AnswerInv, OverlapInv, HandlerInv, ChannelInReach, [Next]_vars
  PROVE  ChannelInReach'
<1>1. CASE Input
  BY <1>1, InputMoves DEF control, ChannelInReach
<1>2. CASE RequestGranted \/ RequestRefused
  BY <1>2, AnsweredMoves, AnswerAtHead DEF ChannelInReach
<1>3. CASE ClickRequest
  <2>1. UNCHANGED <<chan, handler>>
    BY <1>3 DEF ClickRequest
  <2> QED
    BY <1>3, <2>1, ClickedMoves DEF ChannelInReach, TypeOK
<1>4. CASE ClickRelease \/ ClickDisconnect
  BY <1>4, LettingGoMoves DEF ChannelInReach
<1>5. CASE EndRelease
  <2>1. main # "free" /\ handler' = None /\ UNCHANGED <<req, chan, crossed>>
    BY <1>5 DEF EndRelease
  <2>2. \A q \in Requests : handler = q => Lost(q)
    BY <2>1, ViewerAssumption DEF HandlerInv, Requests, None
  <2> QED
    BY <2>1, <2>2 DEF ChannelInReach, Lost
<1>6. ASSUME NEW r \in Requests, Asking(r)
      PROVE  ChannelInReach'
  <2>1. /\ \A q \in Requests : q # r => req'[q] = req[q]
        /\ UNCHANGED crossed
    BY <1>6, AskingMoves
  <2>2. req[r] \in Chosen => \A q \in Requests : handler = q => Lost(q)
    BY ViewerAssumption DEF HandlerInv, Requests, None
  <2>3. CASE req[r] = "release"
    BY <1>6, <2>1, <2>3, ThreadMoves DEF ChannelInReach
  <2>4. CASE req[r] \in {"clear", "assign"}
    BY <1>6, <2>1, <2>2, <2>4, ThreadMoves DEF ChannelInReach, Lost, Chosen
  <2>5. CASE req[r] \in {"socket", "shake"}
    BY <1>6, <2>1, <2>5, ThreadMoves DEF ChannelInReach
  <2> QED
    BY <1>6, <2>3, <2>4, <2>5, ThreadMoves
<1>7. CASE ~Controlling
  BY <1>7, OtherControlMoves DEF ControlKept, control, ChannelInReach
<1> QED
  BY <1>1, <1>2, <1>3, <1>4, <1>5, <1>6, <1>7 DEF Controlling

----------------------------------------------------------------------------
(* What the window believes                                                *)

Agreed ==
  /\ held = handler /\ active = (held # None) /\ (active => connected)
  /\ (held # None) = (log = "start")
  /\ \A r \in pressed : chan[r] = "open" => held = r

LEMMA AgreedMeans == WindowAgrees <=> (InFlight = {} /\ main = "free" /\ crossed = {} => Agreed)
  BY DEF WindowAgrees, Agreed

(* The answers that are queued after a step of something else were queued. *)
LEMMA AnswersKept ==
  ASSUME TypeOK, AttemptInv, AnswerInv, [Next]_vars, ~Controlling,
         NEW i \in DOMAIN idle', idle'[i].what = "control"
  PROVE  \E j \in DOMAIN idle : idle'[i] = idle[j]
<1>1. \/ idle' = idle \/ \E m \in Posts : m.what # "control" /\ idle' = Append(idle, m)
      \/ idle # <<>> /\ idle' = Tail(idle)
  BY AnswerMoves DEF Controlling, Asking
<1>2. CASE \E m \in Posts : m.what # "control" /\ idle' = Append(idle, m)
  BY <1>2, Appended DEF TypeOK
<1>3. CASE idle # <<>> /\ idle' = Tail(idle)
  BY <1>3, Taken DEF TypeOK
<1> QED
  BY <1>1, <1>2, <1>3

LEMMA CalmStep ==
  ASSUME TypeOK, AttemptInv, ResultInv, AnswerInv, OverlapInv, HandlerInv, CalmInv, WindowAgrees,
         [Next]_vars
  PROVE  CalmInv' /\ WindowAgrees'
<1>1. CASE crossed' # {}
  BY <1>1 DEF CalmInv, WindowAgrees
<1> SUFFICES ASSUME crossed' = {}
             PROVE  CalmInv' /\ WindowAgrees'
  BY <1>1
<1>2. CASE Input
  <2>1. /\ main = "free" /\ held # None /\ pressed' \subseteq pressed \cup {held}
        /\ UNCHANGED <<connected, buttons, main, idle, req, chan, handler, held, active, log, crossed>>
    BY <1>2, InputMoves DEF window, control
  <2>2. InFlight = {} /\ InFlight' = {}
    BY <2>1 DEF CalmInv, Quiet, InFlight
  <2>3. Agreed'
    BY <2>1, <2>2, AgreedMeans DEF Agreed
  <2>4. "wired" \in buttons'
    BY <2>1, <2>2 DEF CalmInv
  <2> QED
    BY <2>1, <2>2, <2>3, <2>4, AgreedMeans DEF CalmInv, WindowAgrees, Agreed
<1>3. CASE ~Input /\ (RequestGranted \/ RequestRefused)
  <2> DEFINE r == Head(idle).of
  <2>1. /\ main = "free" /\ main' = "free" /\ crossed = {}
        /\ UNCHANGED <<connected, chan, handler, pressed>>
        /\ InFlight' = InFlight \ {r} /\ r \in InFlight
    BY <1>3, AnsweredMoves, OnlyInput
  <2>2. InFlight' = {} /\ connected
    BY <2>1 DEF OverlapInv
  <2>3. /\ Quiet
        /\ handler = IF Head(idle).ok THEN r ELSE None
    BY <1>3, <2>1, AnswerAtHead DEF CalmInv
  <2>4. r # None
    BY <1>3, AnswerAtHead, ViewerAssumption DEF Requests, None
  <2>5. CASE RequestGranted
    <3>1. /\ held' = handler /\ active' = TRUE /\ log' = "start" /\ handler = r
          /\ "wired" \in buttons'
      BY <2>3, <2>5 DEF RequestGranted
    <3>2. Agreed'
      BY <2>1, <2>2, <2>3, <2>4, <3>1 DEF Agreed, Quiet
    <3> QED
      BY <2>1, <2>2, <3>1, <3>2 DEF CalmInv, WindowAgrees, Agreed
  <2>6. CASE RequestRefused
    <3>1. held' = None /\ active' = FALSE /\ log' = log /\ handler = None
      BY <2>3, <2>6 DEF RequestRefused
    <3>2. Agreed'
      BY <2>1, <2>3, <3>1 DEF Agreed, Quiet
    <3> QED
      BY <2>1, <2>2, <3>1, <3>2 DEF CalmInv, WindowAgrees, Agreed
  <2> QED
    BY <1>3, <2>5, <2>6
<1>4. CASE ~Input /\ ClickRequest
  <2>1. PICK r \in Requests :
          /\ req[r] = "none" /\ req' = [req EXCEPT ![r] = "release"]
          /\ InFlight' = InFlight \cup {r}
          /\ crossed' = IF InFlight = {} THEN crossed ELSE crossed \cup {r}
    BY <1>4, ClickedMoves
  <2>2. InFlight = {} /\ InFlight' = {r} /\ crossed = {}
    BY <2>1
  <2>3. /\ main = "free" /\ main' = "free" /\ "wired" \notin buttons /\ "wired" \notin buttons'
        /\ UNCHANGED <<idle, chan, handler, held, active, log, pressed>>
    BY <1>4, OnlyInput DEF ClickRequest
  <2>4. Agreed /\ held = None
    BY <2>2, <2>3, AgreedMeans DEF CalmInv
  <2>5. Quiet /\ handler = None
    <3>1. \A p \in pressed : p # None
      BY ViewerAssumption DEF TypeOK, Requests, None
    <3> QED
      BY <2>4, <3>1 DEF Agreed, Quiet
  <2>6. \A i \in DOMAIN idle' : idle'[i].what # "control"
    BY <2>2, <2>3 DEF AnswerInv, InFlight
  <2> QED
    BY <2>2, <2>3, <2>5, <2>6 DEF CalmInv, WindowAgrees, Quiet
<1>5. CASE ~Input /\ (ClickRelease \/ ClickDisconnect)
  <2>1. /\ main = "free" /\ held' = None /\ active' = FALSE
        /\ UNCHANGED <<idle, req, handler, pressed>>
        /\ main' = "free" <=> handler = None
        /\ log' = IF held # None THEN "stop" ELSE log
        /\ crossed' = crossed \cup InFlight
        /\ \A q \in Requests : chan'[q] = IF q = handler THEN "shut" ELSE chan[q]
    BY <1>5, LettingGoMoves, OnlyInput
  <2>2. InFlight = {} /\ InFlight' = {} /\ crossed = {}
    BY <2>1 DEF InFlight
  <2>3. Agreed
    BY <2>1, <2>2, AgreedMeans
  <2>4. Quiet'
    BY <2>1, <2>3 DEF Agreed, Quiet, TypeOK
  <2>5. handler = None => Agreed'
    BY <2>1, <2>3, <2>4 DEF Agreed, Quiet
  <2> QED
    BY <2>1, <2>2, <2>4, <2>5 DEF CalmInv, WindowAgrees, Agreed
<1>6. CASE ~Input /\ EndRelease
  <2>1. /\ main # "free" /\ main' = "free" /\ handler' = None
        /\ UNCHANGED <<req, chan, held, active, log, crossed, pressed>>
    BY <1>6, OnlyInput DEF EndRelease
  <2>2. InFlight = {} /\ InFlight' = {} /\ Quiet
    BY <2>1 DEF InFlight, OverlapInv, CalmInv
  <2>3. Agreed'
    BY <2>1, <2>2 DEF Agreed, Quiet, TypeOK
  <2> QED
    BY <2>1, <2>2, <2>3 DEF CalmInv, WindowAgrees, Agreed, Quiet
<1>7. ASSUME ~Input, NEW r \in Requests, Asking(r)
      PROVE  CalmInv' /\ WindowAgrees'
  <2>1. /\ req[r] \notin {"none", "posted", "done"}
        /\ InFlight' = InFlight /\ r \in InFlight
        /\ UNCHANGED <<connected, buttons, main, held, active, log, crossed, pressed>>
    BY <1>7, AskingMoves, OnlyInput
  <2>2. InFlight = {r} /\ InFlight' = {r} /\ main = "free" /\ main' = "free"
    BY <2>1 DEF OverlapInv
  <2>3. Quiet /\ "wired" \notin buttons' /\ handler = None
    BY <2>1, <2>2 DEF CalmInv
  <2>4. ASSUME NEW p \in pressed, chan'[p] = "open"
        PROVE  chan[p] = "open"
    <3>1. p \in Requests /\ p # r
      BY <2>1 DEF HandlerInv, TypeOK
    <3> QED
      BY <1>7, <2>4, <3>1, ThreadMoves
  <2>5. Quiet'
    BY <2>1, <2>3, <2>4 DEF Quiet
  <2>6. \A i \in DOMAIN idle : idle[i].what # "control"
    BY <2>1, <2>2 DEF AnswerInv, InFlight
  <2>7. CASE UNCHANGED idle /\ handler' = None
    BY <2>2, <2>3, <2>5, <2>6, <2>7 DEF CalmInv, WindowAgrees
  <2>8. ASSUME NEW b \in BOOLEAN, handler' = IF b THEN r ELSE None,
               req'[r] = "posted", idle' = Append(idle, Posted("control", r, b))
        PROVE  CalmInv' /\ WindowAgrees'
    <3>1. Posted("control", r, b) \in Posts /\ Posted("control", r, b).ok = b
      BY PostTypes DEF Posted
    <3>2. \A i \in DOMAIN idle' : idle'[i].what = "control" => idle'[i] = Posted("control", r, b)
      BY <2>6, <2>8, <3>1, Appended DEF TypeOK
    <3>3. \A i \in DOMAIN idle' : idle'[i].what = "control" =>
            handler' = IF idle'[i].ok THEN r ELSE None
      BY <2>8, <3>1, <3>2
    <3> QED
      BY <2>2, <2>3, <2>5, <2>8, <3>3 DEF CalmInv, WindowAgrees
  <2> QED
    BY <1>7, <2>3, <2>7, <2>8, ThreadMoves
<1>8. CASE ~Controlling
  <2>1. /\ UNCHANGED <<req, chan, handler, held, active, log, crossed, pressed, main>>
        /\ connected => connected'
        /\ "wired" \in buttons' <=> "wired" \in buttons
    BY <1>8, OtherControlMoves DEF ControlKept, control
  <2>2. InFlight' = InFlight /\ Quiet' = Quiet
    BY <2>1 DEF InFlight, Quiet
  <2>3. \A r \in InFlight, i \in DOMAIN idle' : idle'[i].what = "control" =>
          handler = IF idle'[i].ok THEN r ELSE None
    BY <1>8, <2>1, AnswersKept DEF CalmInv
  <2>4. CalmInv'
    BY <2>1, <2>2, <2>3 DEF CalmInv
  <2>5. Agreed => Agreed'
    BY <2>1 DEF Agreed
  <2>6. WindowAgrees'
    BY <2>1, <2>2, <2>5, AgreedMeans DEF WindowAgrees, Agreed
  <2> QED
    BY <2>4, <2>6
<1> QED
  BY <1>2, <1>3, <1>4, <1>5, <1>6, <1>7, <1>8 DEF Controlling

----------------------------------------------------------------------------
(* The inductive invariant, and what follows from it                       *)

LEMMA InitInv ==
  ASSUME Init
  PROVE  IInv
<1>1. idle = <<>> /\ DOMAIN idle = {} /\ idle \in Seq(Posts)
  BY DEF Init
<1>2. InFlight = {}
  BY DEF Init, InFlight
<1>3. TypeOK
  <2>1. None \in 0..conn /\ None \in 0..MaxRequests /\ conn \in 0..MaxConnects
    BY ViewerAssumption DEF Init, None
  <2> QED
    BY <1>1, <2>1 DEF Init, TypeOK
<1>4. FrameInv /\ AttemptInv /\ ResultInv /\ StrayInv /\ AnswerInv
  BY <1>1 DEF Init, FrameInv, AttemptInv, ResultInv, StrayInv, AnswerInv, None
<1>5. OverlapInv /\ HandlerInv /\ CalmInv
  BY <1>1, <1>2 DEF Init, OverlapInv, HandlerInv, CalmInv, Quiet
<1>6. PictureIsCurrent /\ ChannelInReach /\ WindowAgrees
  BY <1>2 DEF Init, PictureIsCurrent, ChannelInReach, WindowAgrees
<1> QED
  BY <1>3, <1>4, <1>5, <1>6 DEF IInv

LEMMA StepInv ==
  ASSUME IInv, [Next]_vars
  PROVE  IInv'
<1> USE DEF IInv
<1>1. TypeOK' /\ FrameInv'
  BY TypeStep, FrameStep
<1>2. AttemptInv' /\ ResultInv'
  BY ConnectionStep
<1>3. StrayInv' /\ PictureIsCurrent'
  BY StrayStep, PictureStep
<1>4. AnswerInv' /\ OverlapInv'
  BY AnswerStep, OverlapStep
<1>5. HandlerInv' /\ ChannelInReach'
  BY HandlerStep, ReachStep
<1>6. CalmInv' /\ WindowAgrees'
  BY CalmStep
<1> QED
  BY <1>1, <1>2, <1>3, <1>4, <1>5, <1>6

THEOREM InductiveInvariant == Spec => []IInv
<1>1. Init => IInv
  BY InitInv
<1>2. IInv /\ [Next]_vars => IInv'
  BY StepInv
<1> QED
  BY <1>1, <1>2, PTL DEF Spec

\* Every variable has its type: the main thread's queue holds only results of
\* connection attempts, answers to requests and drawings (window.py:3232-3268,
\* 3585), and no request or connection has a number that was not given out.
THEOREM TypeCorrect == Spec => []TypeOK
  BY InductiveInvariant, PTL DEF IInv

\* _on_remote_frame and _render_latest_frame (window.py:3264-3284): a frame
\* that is kept always has a drawing on its way.
THEOREM KeptFramesAreDrawn == Spec => []LastFrameIsDrawn
<1>1. IInv => LastFrameIsDrawn
  BY DEF IInv, FrameInv, LastFrameIsDrawn
<1> QED
  BY <1>1, InductiveInvariant, PTL

\* The picture (window.py:3284, 3316-3321) is never one of a connection that
\* ended, but for a reading thread that outlived the next connection.
THEOREM PictureOfTheConnection == Spec => []PictureIsCurrent
  BY InductiveInvariant, PTL DEF IInv

\* An open channel is never beyond release_control (screen_share_view.py:98),
\* unless a release or another request overlapped the one that opened it.
THEOREM NoChannelIsLost == Spec => []ChannelInReach
  BY InductiveInvariant, PTL DEF IInv

\* The window, the handler, the history and the screen agree about control
\* whenever nothing is under way (window.py:3311-3316, 3592-3613, 3634-3655).
THEOREM WindowAndHandlerAgree == Spec => []WindowAgrees
  BY InductiveInvariant, PTL DEF IInv
=============================================================================
