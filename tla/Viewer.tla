-------------------------------- MODULE Viewer --------------------------------
(***************************************************************************)
(* The native viewer: the window's screen tab (window.py), the handler it  *)
(* calls (ui/screen_share_view.py), the stream client (stream_client.py)   *)
(* and the control client (control_client.py).  Connecting, reading the    *)
(* stream and requesting control each have a thread; what they find out is *)
(* posted to the main thread with GLib.idle_add, in one queue, and the     *)
(* user clicks in between.  A connection, its frames and its reading       *)
(* thread share a number; so do a request for control and its channel.     *)
(* The host is outside: it sends frames, grants, refuses and hangs up.     *)
(***************************************************************************)
EXTENDS Integers, Sequences

CONSTANTS MaxConnects,   \* bound: times the user connects
          MaxRequests    \* bound: times the user asks for control

ASSUME ViewerAssumption == MaxConnects \in Nat \ {0} /\ MaxRequests \in Nat \ {0}

Connects == 1..MaxConnects
Requests == 1..MaxRequests
None == 0

VARIABLES
    connected,  \* _screen_connected
    buttons,    \* the sensitive ones of Connect, Disconnect, Request, and
                \* "wired" when Request is wired to _on_release_control
    main,       \* the main thread is "free", or closes a channel to release control or
                \* to disconnect
    idle,       \* what idle_add has queued
    conn,       \* the last connection the user asked for
    thread,     \* do_connect's place
    receiving,  \* ScreenStreamClient.is_connected
    loop,       \* each _receive_loop's place
    latest,     \* _remote_frame_latest: the connection of the frame
    scheduled,  \* _remote_frame_scheduled
    picture,    \* the connection whose frame the picture shows
    req,        \* each request's place in do_request
    chan,       \* each request's channel
    handler,    \* ScreenShareViewHandler.control_client
    held,       \* _control_client of the window
    active,     \* _control_active
    log,        \* the last control record the window wrote to the history
    pressed,    \* channels through which a key or a button went down and not up again
    mute,       \* channels that are open, but whose last event could not be sent
    stray,      \* history: reading threads that lived when a later connection succeeded
    crossed     \* history: requests that a release or another request overlapped

window  == <<connected, buttons, main, idle>>
stream  == <<conn, thread, receiving, loop, stray>>
frames  == <<latest, scheduled, picture>>
control == <<req, chan, handler, held, active, log, crossed>>
input   == <<pressed, mute>>
vars == <<window, stream, frames, control, input>>

Posts == [what : {"render", "connect", "control"}, of : 0..(MaxConnects + MaxRequests),
          ok : BOOLEAN]
Posted(what, of, ok) == [what |-> what, of |-> of, ok |-> ok]
Render == Posted("render", None, TRUE)
Shut(c) == IF c = None THEN chan ELSE [chan EXCEPT ![c] = "shut"]
InFlight == {r \in Requests : req[r] \notin {"none", "done"}}
Alive == {k \in Connects : loop[k] \notin {"none", "ended"}}

TypeOK ==
    /\ connected \in BOOLEAN /\ buttons \subseteq {"connect", "disconnect", "request", "wired"}
    /\ main \in {"free", "release", "disconnect"}
    /\ idle \in Seq(Posts)
    /\ conn \in 0..MaxConnects /\ thread \in {"none", "due"} /\ receiving \in BOOLEAN
    /\ loop \in [Connects -> {"none", "open", "read", "ended"}]
    /\ {latest, picture} \subseteq 0..conn /\ scheduled \in BOOLEAN
    /\ req \in [Requests -> {"none", "release", "clear", "socket", "shake", "assign", "posted",
                             "done"}]
    /\ chan \in [Requests -> {"none", "socket", "open", "shut"}]
    /\ {handler, held} \subseteq 0..MaxRequests /\ active \in BOOLEAN
    /\ log \in {"none", "start", "stop"} /\ pressed \cup mute \subseteq Requests
    /\ stray \subseteq Connects /\ crossed \subseteq Requests

Init ==
    /\ connected = FALSE /\ buttons = {"connect"} /\ main = "free" /\ idle = <<>>
    /\ conn = 0 /\ thread = "none" /\ receiving = FALSE /\ loop = [k \in Connects |-> "none"]
    /\ latest = None /\ scheduled = FALSE /\ picture = None
    /\ req = [r \in Requests |-> "none"] /\ chan = [r \in Requests |-> "none"]
    /\ handler = None /\ held = None /\ active = FALSE /\ log = "none"
    /\ pressed = {} /\ mute = {} /\ stray = {} /\ crossed = {}

-----------------------------------------------------------------------------
(* Connecting.  The Connect button is off until the result is handled.     *)

ClickConnect ==
    /\ main = "free" /\ "connect" \in buttons /\ conn < MaxConnects
    /\ buttons' = buttons \ {"connect"} /\ conn' = conn + 1 /\ thread' = "due"
    /\ UNCHANGED <<connected, main, idle, receiving, loop, stray, frames, control>>

\* no answer, or a certificate that is not the pinned one
ConnectFails ==
    /\ thread = "due" /\ thread' = "none" /\ receiving' = FALSE
    /\ idle' = Append(idle, Posted("connect", conn, FALSE))
    /\ UNCHANGED <<connected, buttons, main, conn, loop, stray, frames, control>>

\* is_connected is set for every reading thread that still looks at it
ConnectWorks ==
    /\ thread = "due" /\ thread' = "none" /\ receiving' = TRUE
    /\ loop' = [loop EXCEPT ![conn] = "open"] /\ stray' = stray \cup Alive
    /\ idle' = Append(idle, Posted("connect", conn, TRUE))
    /\ UNCHANGED <<connected, buttons, main, conn, frames, control>>

ConnectResult ==
    /\ main = "free" /\ idle # <<>> /\ Head(idle).what = "connect" /\ idle' = Tail(idle)
    /\ connected' = (connected \/ Head(idle).ok)
    /\ buttons' = IF Head(idle).ok THEN buttons \cup {"disconnect", "request"}
                                   ELSE buttons \cup {"connect"}
    /\ UNCHANGED <<main, stream, frames, control>>

-----------------------------------------------------------------------------
(* Reading the stream.                                                     *)

\* the host refuses /stream, or cannot be reached
OpenFails(k) ==
    /\ loop[k] = "open" /\ loop' = [loop EXCEPT ![k] = "ended"] /\ receiving' = FALSE
    /\ UNCHANGED <<window, conn, thread, stray, frames, control>>

Opened(k) ==
    /\ loop[k] = "open"
    /\ loop' = [loop EXCEPT ![k] = IF receiving THEN "read" ELSE "ended"]
    /\ UNCHANGED <<window, conn, thread, receiving, stray, frames, control>>

\* a chunk with a frame in it: _on_remote_frame keeps the last, and queues a
\* drawing unless one is queued
Frame(k) ==
    /\ loop[k] = "read" /\ latest' = k /\ scheduled' = TRUE
    /\ idle' = IF scheduled THEN idle ELSE Append(idle, Render)
    /\ UNCHANGED <<connected, buttons, main, stream, picture, control>>

\* the loop finds is_connected off
Notices(k) ==
    /\ loop[k] = "read" /\ ~receiving /\ loop' = [loop EXCEPT ![k] = "ended"]
    /\ UNCHANGED <<window, conn, thread, receiving, stray, frames, control>>

\* the stream ends or a read times out: is_connected stays as it is
StreamEnds(k) ==
    /\ loop[k] = "read" /\ loop' = [loop EXCEPT ![k] = "ended"]
    /\ UNCHANGED <<window, conn, thread, receiving, stray, frames, control>>

\* Mutant: the flag is left set when the frame is taken.
RenderKeepsFlag ==
    /\ main = "free" /\ idle # <<>> /\ Head(idle) = Render /\ idle' = Tail(idle)
    /\ latest' = None /\ UNCHANGED scheduled
    /\ picture' \in IF connected /\ latest # None THEN {latest, picture} ELSE {picture}
    /\ UNCHANGED <<connected, buttons, main, stream, control>>

\* a frame that cannot be decoded leaves the picture as it is
RenderFrame ==
    /\ main = "free" /\ idle # <<>> /\ Head(idle) = Render /\ idle' = Tail(idle)
    /\ latest' = None /\ scheduled' = FALSE
    /\ picture' \in IF connected /\ latest # None THEN {latest, picture} ELSE {picture}
    /\ UNCHANGED <<connected, buttons, main, stream, control>>

-----------------------------------------------------------------------------
(* Requesting control, in a thread of the request.                         *)

ClickRequest ==
    /\ main = "free" /\ "request" \in buttons /\ "wired" \notin buttons /\ connected
    /\ \E r \in Requests :
          /\ req[r] = "none" /\ \A q \in Requests : q < r => req[q] # "none"
          /\ req' = [req EXCEPT ![r] = "release"]
          /\ crossed' = IF InFlight = {} THEN crossed ELSE crossed \cup {r}
    /\ buttons' = buttons \ {"request"}
    /\ UNCHANGED <<connected, main, idle, stream, frames, chan, handler, held, active, log>>

\* release_control at the head of request_control: close, then forget
ThreadRelease(r) ==
    /\ req[r] = "release" /\ chan' = Shut(handler)
    /\ req' = [req EXCEPT ![r] = IF handler = None THEN "socket" ELSE "clear"]
    /\ UNCHANGED <<window, stream, frames, handler, held, active, log, crossed>>

ThreadClear(r) ==
    /\ req[r] = "clear" /\ handler' = None /\ req' = [req EXCEPT ![r] = "socket"]
    /\ UNCHANGED <<window, stream, frames, chan, held, active, log, crossed>>

\* the TLS socket, whose certificate must be the trusted one
OpenSocket(r) ==
    /\ req[r] = "socket" /\ req' = [req EXCEPT ![r] = "shake"]
    /\ chan' = [chan EXCEPT ![r] = "socket"]
    /\ UNCHANGED <<window, stream, frames, handler, held, active, log, crossed>>

\* 101, the right Sec-WebSocket-Accept, and a grant
ReadGrant(r) ==
    /\ req[r] = "shake" /\ req' = [req EXCEPT ![r] = "assign"]
    /\ chan' = [chan EXCEPT ![r] = "open"]
    /\ UNCHANGED <<window, stream, frames, handler, held, active, log, crossed>>

\* Mutant: a refusal leaves the socket open.
RequestFailsOpen(r) ==
    /\ req[r] \in {"socket", "shake"} /\ req' = [req EXCEPT ![r] = "posted"]
    /\ idle' = Append(idle, Posted("control", r, FALSE))
    /\ UNCHANGED <<connected, buttons, main, stream, frames, chan, handler, held, active, log,
                   crossed>>

\* either fails, or the host refuses: the socket is closed
RequestFails(r) ==
    /\ req[r] \in {"socket", "shake"} /\ req' = [req EXCEPT ![r] = "posted"]
    /\ chan' = IF chan[r] = "none" THEN chan ELSE Shut(r)
    /\ idle' = Append(idle, Posted("control", r, FALSE))
    /\ UNCHANGED <<connected, buttons, main, stream, frames, handler, held, active, log, crossed>>

Assign(r) ==
    /\ req[r] = "assign" /\ req' = [req EXCEPT ![r] = "posted"] /\ handler' = r
    /\ idle' = Append(idle, Posted("control", r, TRUE))
    /\ UNCHANGED <<connected, buttons, main, stream, frames, chan, held, active, log, crossed>>

\* the window takes whatever channel the handler has now
RequestGranted ==
    /\ main = "free" /\ idle # <<>> /\ Head(idle).what = "control" /\ Head(idle).ok
    /\ idle' = Tail(idle) /\ req' = [req EXCEPT ![Head(idle).of] = "done"]
    /\ held' = handler /\ active' = TRUE /\ log' = "start"
    /\ buttons' = buttons \cup {"request", "wired"}
    /\ UNCHANGED <<connected, main, stream, frames, chan, handler, crossed>>

RequestRefused ==
    /\ main = "free" /\ idle # <<>> /\ Head(idle).what = "control" /\ ~Head(idle).ok
    /\ idle' = Tail(idle) /\ req' = [req EXCEPT ![Head(idle).of] = "done"]
    /\ held' = None /\ active' = FALSE /\ buttons' = buttons \cup {"request"}
    /\ UNCHANGED <<connected, main, stream, frames, chan, handler, log, crossed>>

-----------------------------------------------------------------------------
(* Giving control up, and disconnecting.  A channel the handler has is      *)
(* closed, then forgotten, and a request's thread may run in between.       *)

\* Mutant: the end of control is not recorded.
LetGoUnlogged(then) ==
    /\ main = "free" /\ main' = IF handler = None THEN "free" ELSE then
    /\ held' = None /\ active' = FALSE /\ chan' = Shut(handler)
    /\ UNCHANGED log
    /\ crossed' = crossed \cup InFlight

LetGo(then) ==
    /\ main = "free" /\ main' = IF handler = None THEN "free" ELSE then
    /\ held' = None /\ active' = FALSE /\ chan' = Shut(handler)
    /\ log' = IF held # None THEN "stop" ELSE log
    /\ crossed' = crossed \cup InFlight

\* what the two handlers do after release_control
Released ==
    /\ buttons' = (buttons \ {"request", "wired"})
                  \cup (IF connected THEN {"request"} ELSE {})
    /\ UNCHANGED <<connected, stream, frames>>

\* Mutant: the picture of the connection that ended stays.
DisconnectedKeepsPicture ==
    /\ receiving' = FALSE /\ connected' = FALSE /\ buttons' = {"connect"}
    /\ latest' = None /\ scheduled' = FALSE /\ UNCHANGED picture
    /\ UNCHANGED <<conn, thread, loop, stray>>

Disconnected ==
    /\ receiving' = FALSE /\ connected' = FALSE /\ buttons' = {"connect"}
    /\ latest' = None /\ scheduled' = FALSE /\ picture' = None
    /\ UNCHANGED <<conn, thread, loop, stray>>

\* "Kontrolu Birak", or Ctrl+Alt+K at any time
ClickRelease ==
    /\ LetGo("release")
    /\ IF handler = None THEN Released ELSE UNCHANGED <<connected, buttons, stream, frames>>
    /\ UNCHANGED <<idle, req, handler>>

ClickDisconnect ==
    /\ "disconnect" \in buttons /\ LetGo("disconnect")
    /\ IF handler = None THEN Disconnected ELSE UNCHANGED <<connected, buttons, stream, frames>>
    /\ UNCHANGED <<idle, req, handler>>

\* the channel is closed: the attribute is reset, whatever it holds by now
EndRelease ==
    /\ main # "free" /\ main' = "free" /\ handler' = None
    /\ IF main = "release" THEN Released ELSE Disconnected
    /\ UNCHANGED <<idle, req, chan, held, active, log, crossed>>

-----------------------------------------------------------------------------
(* Input at the picture and the keyboard, through the channel the window   *)
(* holds; a channel that has been closed or has failed sends nothing.      *)

\* _send_event, by which a press or its end reaches the host, or the channel fails
SendEvent(after) ==
    /\ main = "free" /\ active /\ held # None /\ chan[held] = "open" /\ held \notin mute
    /\ \/ pressed' = after /\ UNCHANGED mute
       \/ mute' = mute \cup {held} /\ UNCHANGED pressed
    /\ UNCHANGED <<window, stream, frames, control>>

\* a point of the picture has coordinates once a frame has been drawn
HasCoords == picture # None

\* 40 ms after the last motion, or later
Motion == HasCoords /\ SendEvent(pressed)
Scroll == SendEvent(pressed)
Button(down) == HasCoords /\ SendEvent(IF down THEN pressed \cup {held} ELSE pressed \ {held})
Key(down) == SendEvent(IF down THEN pressed \cup {held} ELSE pressed \ {held})

-----------------------------------------------------------------------------
Main == ConnectResult \/ RenderFrame \/ RequestGranted \/ RequestRefused \/ EndRelease
User == ClickConnect \/ ClickRequest \/ ClickRelease \/ ClickDisconnect
Input == Motion \/ Scroll \/ \E down \in BOOLEAN : Button(down) \/ Key(down)
Connecting == ConnectFails \/ ConnectWorks
Reading(k) == Opened(k) \/ Notices(k)
Asking(r) == \/ ThreadRelease(r) \/ ThreadClear(r) \/ OpenSocket(r)
             \/ ReadGrant(r) \/ RequestFails(r) \/ Assign(r)

Next ==
    \/ Input
    \/ /\ \/ Main \/ User \/ Connecting
          \/ \E k \in Connects : Reading(k) \/ OpenFails(k) \/ Frame(k) \/ StreamEnds(k)
          \/ \E r \in Requests : Asking(r)
       /\ UNCHANGED input

Spec == Init /\ [][Next]_vars

-----------------------------------------------------------------------------
(* Properties.                                                             *)

\* _on_remote_frame queues one drawing and lets it take the last frame
\* (window.py:3264-3284).  A frame that is kept has a drawing on its way,
\* whatever disconnecting does to the flag in between.
LastFrameIsDrawn ==
    latest # None => \E i \in DOMAIN idle : idle[i] = Render

\* The picture is of a screen that is connected, and of the connection the
\* user asked for last (window.py:3284, 3316-3321): another one's frames are
\* drawn only if its reading thread outlived the next connection, which sets
\* is_connected for both (stream_client.py:271).
PictureIsCurrent ==
    picture # None => connected /\ (picture = conn \/ picture \in stray)

\* A channel that is open at the host is the handler's, or its request is
\* still under way: release_control (screen_share_view.py:98) can reach it.
\* It is lost only to a release or a request that overlapped its own.
ChannelInReach ==
    \A r \in Requests :
        chan[r] \in {"socket", "open"} => handler = r \/ req[r] \in {"shake", "assign"}
                                          \/ r \in crossed

\* What the window believes, the channel the handler holds, the last control
\* record of the history and the screen agree whenever nothing is under way
\* (window.py:3311-3316, 3592-3613, 3634-3655), unless a request overlapped a
\* release: then its answer comes after it and is believed.  What is held down at
\* the host over a channel that is still open can be let up (window.py:3409-3449).
WindowAgrees ==
    (InFlight = {} /\ main = "free" /\ crossed = {}) =>
        /\ held = handler /\ active = (held # None) /\ (active => connected)
        /\ (held # None) = (log = "start")
        /\ \A r \in pressed : chan[r] = "open" => held = r
=============================================================================
