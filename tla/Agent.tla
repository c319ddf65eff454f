--------------------------------- MODULE Agent ---------------------------------
(***************************************************************************)
(* The companion without a window, pardus_paylasim_agent: main() and the   *)
(* tray's thread and icon (agent.py, tray.py), the parts it starts and     *)
(* stops - stream server, capture loop (capture.py), file receiver, mDNS   *)
(* record - and the stream server's own capture thread, which runs beside  *)
(* the agent's and shares its frame and its streaming flag.  Signals, the  *)
(* user at the tray icon and the peers that connect are outside, and so is *)
(* pystray.                                                                *)
(***************************************************************************)
EXTENDS Naturals

CONSTANTS Hosts,    \* machines: sets of what is there, "display" for a tray that works
          MaxFails  \* bound: how often a grab of the screen takes longer than two seconds

Installable == {"mss", "PIL", "zeroconf", "cryptography", "pystray", "display", "screenshot",
                "windows"}

ASSUME AgentAssumption == MaxFails \in Nat /\ Hosts \subseteq SUBSET Installable

VARIABLES
    host,       \* what is installed
    caps,       \* _caps: what detect_agent_capabilities found of it
    main,       \* where the main thread is
    running,    \* _running
    signalled,  \* a signal has come
    shutdown,   \* the event of main()
    waiter,     \* wait_for_shutdown: "none", "waits", "ended"
    icon,       \* tray.icon: "none", "made", "stopped"
    missed,     \* history: the waiter found no icon to stop
    http,       \* the listener of the stream server
    is_streaming,  \* of the server
    own,        \* the server's capture thread
    keys,       \* certificate and key are on disk
    peer,       \* a connection to it: in its handshake, a stream, or held as long as its client likes
    receiver,   \* the file receiver listens
    announced,  \* the mDNS record stands
    halt,       \* the capture loop's stop event
    loop,       \* the capture loop's thread
    screen,     \* what it captures with is open (_sct)
    slow,       \* history: how often stop() went on without that thread
    frame       \* who wrote _current_frame

events     == <<signalled, shutdown>>
mainVars   == <<main, running, events, waiter, icon, missed>>
serverVars == <<http, is_streaming, own, keys, peer>>
loopVars   == <<halt, loop, screen, slow>>
agentVars == <<host, caps, mainVars, serverVars, receiver, announced, loopVars, frame>>

Starting == {"launch", "server", "capture", "receiver", "discovery", "tray", "icon"}
Stopping == {"stop", "release", "hush", "refuse", "close", "await", "handlers", "files"}
Over == {"exited", "crashed"}

\* what the agent tries to import, and asks about itself by
Probed == {"mss", "PIL", "zeroconf", "cryptography"}
CanCapture == {"mss", "PIL"} \subseteq caps
CanDiscover == "zeroconf" \in caps
CanTls == "cryptography" \in caps

\* what tray.py imports
HasTray == {"pystray", "PIL"} \subseteq host

\* in a call that on Windows lets no handler of a signal run: the wait for an event has no
\* timeout, and the icon's loop is back in Python only for the user
Deaf == "windows" \in host /\ main \in {"menu", "wait"}

PlacesOK ==
    /\ host \in Hosts /\ caps \subseteq Probed
    /\ main \in Starting \cup {"menu", "wait"} \cup Stopping \cup Over
    /\ waiter \in {"none", "waits", "ended"} /\ icon \in {"none", "made", "stopped"}
    /\ http \in {"none", "binds", "up", "failed", "broken", "down"}
    /\ own \in {"none", "tries", "shoots", "ended"}
    /\ peer \in {"none", "shake", "stream", "held"}
    /\ loop \in {"none", "check", "grab", "write", "ended"} /\ slow \in 0..MaxFails
    /\ frame \in {"none", "own", "agent"}

AgentTypeOK ==
    /\ PlacesOK
    /\ running \in BOOLEAN /\ signalled \in BOOLEAN /\ shutdown \in BOOLEAN /\ missed \in BOOLEAN
    /\ is_streaming \in BOOLEAN /\ keys \in BOOLEAN /\ receiver \in BOOLEAN
    /\ announced \in BOOLEAN /\ halt \in BOOLEAN /\ screen \in BOOLEAN

AgentInit ==
    /\ host \in Hosts /\ caps = {} /\ main = "launch" /\ running = FALSE
    /\ signalled = FALSE /\ shutdown = FALSE
    /\ waiter = "none" /\ icon = "none" /\ missed = FALSE
    /\ http = "none" /\ is_streaming = FALSE /\ own = "none" /\ keys = FALSE
    /\ peer = "none"
    /\ receiver = FALSE /\ announced = FALSE
    /\ halt = FALSE /\ loop = "none" /\ screen = FALSE /\ slow = 0
    /\ frame = "none"

Goto(where) == main' = where
flow == <<host, caps, running, events, waiter, icon, missed>>

\* _probe_import: what is there to import
Detected == host \cap Probed

\* main() up to the handlers of the signals; before that a signal ends the process
Launch ==
    /\ main = "launch" /\ Goto("server") /\ caps' = Detected
    /\ UNCHANGED <<host, running, events, waiter, icon, missed, serverVars, receiver,
                   announced, loopVars, frame>>

-----------------------------------------------------------------------------
(* PardusAgent.start.  What it raises ends the process, and nothing that   *)
(* runs by then is stopped.                                                *)

StartServer ==
    /\ main = "server" /\ is_streaming' = TRUE
    /\ IF CanTls THEN Goto("capture") /\ keys' = TRUE /\ http' = "binds" /\ own' = "tries"
                   ELSE Goto("crashed") /\ UNCHANGED <<keys, http, own>>
    /\ UNCHANGED <<flow, peer, receiver, announced, loopVars, frame>>

\* AgentCaptureLoop.start
StartLoop == halt' = FALSE /\ loop' = "check"

StartCapture ==
    /\ main = "capture" /\ Goto("receiver")
    /\ IF CanCapture THEN StartLoop ELSE UNCHANGED <<halt, loop>>
    /\ UNCHANGED <<flow, serverVars, receiver, announced, screen, slow, frame>>

StartReceiver ==
    /\ main = "receiver"
    /\ \/ Goto("discovery") /\ receiver' = TRUE
       \/ Goto("crashed") /\ UNCHANGED receiver  \* no directory, no socket
    /\ UNCHANGED <<flow, serverVars, announced, loopVars, frame>>

\* a failure of zeroconf is only logged
StartDiscovery ==
    /\ main = "discovery" /\ Goto("tray") /\ running' = TRUE
    /\ announced' \in IF CanDiscover THEN BOOLEAN ELSE {FALSE}
    /\ UNCHANGED <<host, caps, events, waiter, icon, missed, serverVars, receiver,
                   loopVars, frame>>

-----------------------------------------------------------------------------
(* main(): the tray, or without pystray the event alone.                   *)

OpenTray ==
    /\ main = "tray"
    /\ IF HasTray THEN Goto("icon") /\ waiter' = "waits"
                  ELSE Goto("wait") /\ UNCHANGED waiter
    /\ UNCHANGED <<host, caps, running, events, icon, missed, serverVars, receiver, announced,
                   loopVars, frame>>

\* AgentTray.run logs what the icon raises, and main() goes on to stop
MakeIcon ==
    /\ main = "icon"
    /\ IF "display" \notin host THEN Goto("stop") /\ UNCHANGED icon
                               ELSE Goto("menu") /\ icon' = "made"
    /\ UNCHANGED <<host, caps, running, events, waiter, missed, serverVars, receiver,
                   announced, loopVars, frame>>

Signal ==
    /\ main \notin Over \cup {"launch"} /\ ~signalled /\ signalled' = TRUE
    /\ UNCHANGED <<host, caps, main, running, shutdown, waiter, icon, missed, serverVars,
                   receiver, announced, loopVars, frame>>

\* _signal_handler, which the main thread runs between two of its steps
Handle ==
    /\ signalled /\ ~shutdown /\ shutdown' = TRUE /\ (Deaf => main = "menu")
    /\ UNCHANGED <<host, caps, main, running, signalled, waiter, icon, missed, serverVars,
                   receiver, announced, loopVars, frame>>

\* Mutant: the waiter leaves the icon to the user.
WakeOnly ==
    /\ waiter = "waits" /\ shutdown /\ waiter' = "ended"
    /\ missed' = (icon = "none") /\ UNCHANGED icon
    /\ UNCHANGED <<host, caps, main, running, events, serverVars, receiver, announced,
                   loopVars, frame>>

\* wait_for_shutdown stops the icon if there is one yet
Wake ==
    /\ waiter = "waits" /\ shutdown /\ waiter' = "ended"
    /\ IF icon = "none" THEN missed' = TRUE /\ UNCHANGED icon
                        ELSE icon' = "stopped" /\ UNCHANGED missed
    /\ UNCHANGED <<host, caps, main, running, events, serverVars, receiver, announced,
                   loopVars, frame>>

Quit ==
    /\ main = "menu" /\ shutdown' = TRUE /\ icon' = "stopped"
    /\ UNCHANGED <<host, caps, main, running, signalled, waiter, missed, serverVars, receiver,
                   announced, loopVars, frame>>

Ends ==
    /\ \/ main = "menu" /\ icon = "stopped"
       \/ main = "wait" /\ shutdown
    /\ Goto("stop")
    /\ UNCHANGED <<flow, serverVars, receiver, announced, loopVars, frame>>

-----------------------------------------------------------------------------
(* PardusAgent.stop                                                        *)

Stop ==
    /\ main = "stop"
    /\ IF running THEN running' = FALSE /\ halt' = TRUE /\ Goto("release")
                  ELSE Goto("exited") /\ UNCHANGED <<running, halt>>
    /\ UNCHANGED <<host, caps, events, waiter, icon, missed, serverVars, receiver, announced,
                   loop, screen, slow, frame>>

\* MssCaptureBackend.close
CloseScreen == screen' = FALSE

\* Mutant: the loop is not joined.
ReleaseAtOnce ==
    /\ main = "release" /\ Goto("hush") /\ CloseScreen /\ UNCHANGED slow
    /\ UNCHANGED <<flow, serverVars, receiver, announced, halt, loop, frame>>

\* the capture loop is joined for two seconds, then its screen is closed
Release ==
    /\ main = "release" /\ Goto("hush") /\ CloseScreen
    /\ \/ loop \in {"none", "ended"} /\ UNCHANGED slow
       \/ loop = "grab" /\ slow < MaxFails /\ slow' = slow + 1
    /\ UNCHANGED <<flow, serverVars, receiver, announced, halt, loop, frame>>

Hush ==
    /\ main = "hush" /\ Goto("refuse") /\ announced' = FALSE
    /\ UNCHANGED <<flow, serverVars, receiver, loopVars, frame>>

Refuse ==
    /\ main = "refuse" /\ Goto("close") /\ receiver' = FALSE
    /\ UNCHANGED <<flow, serverVars, announced, loopVars, frame>>

\* stop_server; a listener that is not there yet is not closed
Close ==
    /\ main = "close" /\ is_streaming' = FALSE
    /\ Goto(IF http \in {"up", "broken"} THEN "await" ELSE "files")
    /\ UNCHANGED <<flow, http, own, keys, peer, receiver, announced, loopVars, frame>>

\* shutdown() waits for serve_forever, which is inside accept() as long as a handshake lasts, ...
Await ==
    /\ main = "await" /\ http = "up" /\ peer # "shake" /\ Goto("handlers") /\ http' = "down"
    /\ UNCHANGED <<flow, is_streaming, own, keys, peer, receiver, announced, loopVars, frame>>

\* ... and server_close() for the thread of every connection
Join ==
    /\ main = "handlers" /\ peer = "none" /\ Goto("files")
    /\ UNCHANGED <<flow, serverVars, receiver, announced, loopVars, frame>>

RemoveKeys ==
    /\ main = "files" /\ Goto("exited") /\ keys' = FALSE
    /\ UNCHANGED <<flow, http, is_streaming, own, peer, receiver, announced, loopVars, frame>>

-----------------------------------------------------------------------------
(* The other threads.                                                      *)

\* _run_http_server: a port that is taken is only logged, and so is a failed wrap_socket, which
\* leaves a listener that nothing serves
ServerBinds ==
    /\ http = "binds" /\ http' \in {"up", "failed", "broken"}
    /\ UNCHANGED <<host, caps, mainVars, is_streaming, own, keys, peer, receiver, announced,
                   loopVars, frame>>

\* A viewer or any other client: accept() makes the handshake, and a thread of its own serves the
\* connection.  One stands for all of them.
PeerConnects ==
    /\ http = "up" /\ main # "await" /\ peer = "none" /\ peer' = "shake"
    /\ UNCHANGED <<host, caps, mainVars, http, is_streaming, own, keys, receiver, announced,
                   loopVars, frame>>

PeerIsServed ==
    /\ peer = "shake" /\ peer' \in {"stream", "held"}
    /\ UNCHANGED <<host, caps, mainVars, http, is_streaming, own, keys, receiver, announced,
                   loopVars, frame>>

PeerStreamEnds ==
    /\ peer = "stream" /\ ~is_streaming /\ peer' = "none"
    /\ UNCHANGED <<host, caps, mainVars, http, is_streaming, own, keys, receiver, announced,
                   loopVars, frame>>

PeerLeaves ==
    /\ peer # "none" /\ peer' = "none"
    /\ UNCHANGED <<host, caps, mainVars, http, is_streaming, own, keys, receiver, announced,
                   loopVars, frame>>

\* _frame_capture_loop: without GStreamer and a screenshot tool it gives the stream up
OwnTries ==
    /\ own = "tries"
    /\ IF "screenshot" \in host THEN own' = "shoots" /\ UNCHANGED is_streaming
                               ELSE own' = "ended" /\ is_streaming' = FALSE
    /\ UNCHANGED <<host, caps, mainVars, http, keys, peer, receiver, announced, loopVars, frame>>

OwnShoots ==
    /\ own = "shoots"
    /\ IF is_streaming THEN frame' = "own" /\ UNCHANGED own ELSE own' = "ended" /\ UNCHANGED frame
    /\ UNCHANGED <<host, caps, mainVars, http, is_streaming, keys, peer, receiver, announced,
                   loopVars>>

LoopChecks ==
    /\ loop = "check" /\ loop' = IF halt THEN "ended" ELSE "grab"
    /\ UNCHANGED <<host, caps, mainVars, serverVars, receiver, announced, halt, screen,
                   slow, frame>>

\* grab_jpeg opens the screen at its first call; on an error there is no frame
LoopGrabs ==
    /\ loop = "grab" /\ screen' = TRUE /\ loop' \in {"write", "check"}
    /\ UNCHANGED <<host, caps, mainVars, serverVars, receiver, announced, halt, slow, frame>>

LoopWrites ==
    /\ loop = "write" /\ frame' = "agent" /\ loop' = "check"
    /\ UNCHANGED <<host, caps, mainVars, serverVars, receiver, announced, halt, screen,
                   slow>>

-----------------------------------------------------------------------------
MainStep ==
    \/ Launch \/ StartServer \/ StartCapture \/ StartReceiver \/ StartDiscovery
    \/ OpenTray \/ MakeIcon \/ Ends
    \/ Stop \/ Release \/ Hush \/ Refuse \/ Close \/ Await \/ Join \/ RemoveKeys

PeerStep == PeerConnects \/ PeerIsServed \/ PeerStreamEnds \/ PeerLeaves
LoopStep == LoopChecks \/ LoopGrabs \/ LoopWrites

\* The process ends with its main thread and the threads that serve connections, which are no
\* daemons; every other thread ends with it.
Gone == main \in Over /\ peer \notin {"stream", "held"}

AgentNext ==
    /\ ~Gone
    /\ \/ MainStep \/ Signal \/ Handle \/ Quit \/ Wake \/ ServerBinds \/ PeerStep
       \/ OwnTries \/ OwnShoots \/ LoopStep

\* The threads run, and the handler of a signal where it can; nothing makes a user, a signal or a
\* peer come, or a peer leave.
AgentSpec ==
    /\ AgentInit /\ [][AgentNext]_agentVars
    /\ WF_agentVars(~Gone /\ MainStep) /\ WF_agentVars(~Gone /\ LoopStep)
    /\ WF_agentVars(~Gone /\ Handle /\ ~Deaf) /\ WF_agentVars(~Gone /\ Wake)
    /\ WF_agentVars(~Gone /\ PeerStreamEnds)
    /\ WF_agentVars(~Gone /\ (OwnTries \/ OwnShoots))

-----------------------------------------------------------------------------
\* After a stop() that did its work nothing of the agent is left for the process to take
\* along: the record and the receiver are gone, key files removed, and the screen is closed
\* for good, unless a grab took longer than stop() waits (agent.py 227-270, capture.py
\* 135-141).
NothingLeft ==
    main = "exited" => ~announced /\ ~receiver /\ ~keys /\ ~is_streaming
                       /\ (slow = 0 => loop \in {"none", "ended"} /\ ~screen)

\* A signal, or Quit in the tray, ends the process - unless for ever from some time on it is in
\* one of four places: the icon's loop, entered after the waiter had looked for an icon to stop
\* (agent.py 331-337); a call of Windows that no handler interrupts (agent.py 341); the stop of
\* a server that never served (stream_server.py 766, 1035); that stop, or the end of main(),
\* while a client keeps its connection (stream_server.py 763, 1033-1036).
Overlooked == missed /\ main = "menu"
Unheard == ~shutdown /\ Deaf
Unserved == main = "await" /\ http = "broken"
Kept == peer # "none" /\ main \in {"await", "handlers"} \cup Over

SignalStops == (signalled \/ shutdown ~> Gone) \/ <>[](Overlooked \/ Unheard \/ Unserved \/ Kept)

=============================================================================
