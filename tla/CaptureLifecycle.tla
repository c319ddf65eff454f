--------------------------- MODULE CaptureLifecycle ---------------------------
(***************************************************************************)
(* ScreenStreamServer of screen/stream_server.py from start_server to      *)
(* stop_server: the thread that runs start_server, the HTTP server's       *)
(* thread, the capture thread with its GStreamer children and its          *)
(* screenshot tool, the handlers of the connected clients, and the caller  *)
(* that stops it all.                                                      *)
(*                                                                         *)
(* The calls of start_server on one object are numbered; thread, listener  *)
(* and key files of a call carry its number.  <<n, b>> is the GStreamer    *)
(* process that the capture thread of call n spawned for backend b.        *)
(***************************************************************************)
EXTENDS Integers, FiniteSets

CONSTANTS
  NBackends,  \* length of _gstreamer_backend_order, 0 without GStreamer
  Tools,      \* whether a screenshot tool may be installed, a set of Booleans
  Patience,   \* whether the caller waits for start_server, a set of Booleans
  Clients,    \* connections of viewers
  MaxStarts,  \* bound: calls of start_server
  MaxHasty    \* bound: the same, for a caller that does not wait

ASSUME CaptureAssumption ==
  /\ NBackends \in Nat
  /\ MaxStarts \in Nat /\ MaxHasty \in Nat
  /\ Tools \subseteq BOOLEAN
  /\ Patience \subseteq BOOLEAN

Starts == 1 .. MaxStarts
Tool == NBackends + 1  \* place of the screenshot tool after the backends
Procs == Starts \X (1 .. NBackends)
None == 0
NoProc == <<0, 0>>

VARIABLES
  hasTool, patient,  \* chosen once
  \* the caller
  hosting,    \* _screen_hosting of the window
  started,    \* calls of start_server so far
  upc,        \* "idle", or where stop_server is
  target,     \* the server it shuts down or closes
  spc,        \* where start_server is
  \* attributes of the server
  streaming,  \* _streaming_event
  httpd,      \* the listener self.httpd holds
  cthread,    \* _capture_thread
  gst,        \* _gst_process
  pending,    \* _pending_backend
  backend,    \* capture_backend
  path,       \* _tls_cert_path and _tls_key_path
  tls,        \* tls_enabled
  \* threads
  hpc,        \* where _run_http_server is
  shut,       \* listeners whose shutdown was requested
  cpc, idx,   \* where the capture thread is, and the backend it is at
  rd,         \* the process whose stdout it is reading
  \* outside
  listening,  \* listeners that are bound
  children,   \* GStreamer processes alive
  files,      \* key files on disk
  conn,       \* the clients' connections
  \* history
  frames,     \* backends that delivered a frame
  clean       \* the caller was patient and no join has given up

callerVars == <<hosting, started, spc>>
stopVars == <<upc, target, clean>>
listenVars == <<httpd, hpc, shut, listening, conn>>
captureVars == <<cpc, idx, rd, children, gst, pending, backend, frames>>
flagVars == <<streaming, cthread>>
tlsVars == <<path, tls, files>>
setting == <<hasTool, patient>>
vars == <<setting, callerVars, stopVars, flagVars, listenVars, captureVars, tlsVars>>

NoConn == [at |-> None, st |-> "none"]

CapturePc == {"none", "next", "mark", "loop", "take", "read", "blank", "poll", "tool", "label",
              "ended"}

TypeOK ==
  /\ hasTool \in BOOLEAN /\ patient \in BOOLEAN
  /\ hosting \in BOOLEAN
  /\ started \in 0 .. MaxStarts
  /\ upc \in {"idle", "signal", "child", "forget", "join", "shutdown", "await", "close",
              "handlers", "files"}
  /\ target \in {None} \cup Starts
  /\ spc \in [Starts -> {"none", "flag", "tls", "http", "capture", "done", "failed"}]
  /\ streaming \in BOOLEAN
  /\ httpd \in {None} \cup Starts
  /\ cthread \in {None} \cup Starts
  /\ gst \in {NoProc} \cup Procs
  /\ pending \in 0 .. NBackends
  /\ backend \in 0 .. Tool
  /\ path \in {None} \cup Starts
  /\ tls \in BOOLEAN
  /\ hpc \in [Starts -> {"none", "bind", "assign", "wrap", "serve", "broken", "ended"}]
  /\ shut \subseteq Starts
  /\ cpc \in [Starts -> CapturePc]
  /\ idx \in [Starts -> 1 .. Tool]
  /\ rd \in [Starts -> {NoProc} \cup Procs]
  /\ listening \subseteq Starts
  /\ children \subseteq Procs
  /\ files \subseteq Starts
  /\ conn \in [Clients -> [at : {None} \cup Starts, st : {"none", "shake", "stream", "held"}]]
  /\ frames \subseteq Procs
  /\ clean \in BOOLEAN

Init ==
  /\ hasTool \in Tools /\ patient \in Patience
  /\ hosting = FALSE
  /\ started = 0
  /\ upc = "idle"
  /\ target = None
  /\ spc = [n \in Starts |-> "none"]
  /\ streaming = FALSE
  /\ httpd = None
  /\ cthread = None
  /\ gst = NoProc
  /\ pending = None
  /\ backend = None
  /\ path = None
  /\ tls = TRUE
  /\ hpc = [n \in Starts |-> "none"]
  /\ shut = {}
  /\ cpc = [n \in Starts |-> "none"]
  /\ idx = [n \in Starts |-> 1]
  /\ rd = [n \in Starts |-> NoProc]
  /\ listening = {}
  /\ children = {}
  /\ files = {}
  /\ conn = [c \in Clients |-> NoConn]
  /\ frames = {}
  /\ clean = patient

----------------------------------------------------------------------------
(* start_server, in a thread of its own                                    *)

ClickStart ==
  LET n == started + 1
  IN  /\ upc = "idle" /\ ~hosting
      /\ started < MaxStarts /\ (patient \/ started < MaxHasty)
      /\ hosting' = TRUE
      /\ started' = n
      /\ spc' = [spc EXCEPT ![n] = "flag"]
      /\ UNCHANGED <<setting, stopVars, flagVars, listenVars, captureVars, tlsVars>>

SetFlag(n) ==
  /\ spc[n] = "flag"
  /\ streaming' = TRUE
  /\ spc' = [spc EXCEPT ![n] = "tls"]
  /\ UNCHANGED <<setting, hosting, started, stopVars, cthread, listenVars, captureVars, tlsVars>>

SetupTls(n) ==
  /\ spc[n] = "tls" /\ tls
  /\ files' = files \cup {n}
  /\ path' = n
  /\ spc' = [spc EXCEPT ![n] = "http"]
  /\ UNCHANGED <<setting, hosting, started, stopVars, flagVars, listenVars, captureVars, tls>>

(* The certificate or the context cannot be made, with or without its      *)
(* files on disk, or TLS is off since an earlier call: start_server raises.*)
SetupTlsFails(n) ==
  /\ spc[n] = "tls"
  /\ \/ ~tls /\ files' = files
     \/ tls /\ files' \in {files, files \cup {n}}
  /\ tls' = FALSE
  /\ spc' = [spc EXCEPT ![n] = "failed"]
  /\ UNCHANGED <<setting, hosting, started, stopVars, flagVars, listenVars, captureVars, path>>

StartHttp(n) ==
  /\ spc[n] = "http"
  /\ hpc' = [hpc EXCEPT ![n] = "bind"]
  /\ spc' = [spc EXCEPT ![n] = "capture"]
  /\ UNCHANGED <<setting, hosting, started, stopVars, flagVars, httpd, shut, listening, conn,
                 captureVars, tlsVars>>

StartFrameCapture(n) ==
  /\ spc[n] = "capture"
  /\ cthread' = n
  /\ cpc' = [cpc EXCEPT ![n] = "next"]
  /\ spc' = [spc EXCEPT ![n] = "done"]
  /\ UNCHANGED <<setting, hosting, started, stopVars, streaming, listenVars, idx, rd, children, gst,
                 pending, backend, frames, tlsVars>>

StartStep(n) ==
  \/ SetFlag(n) \/ SetupTls(n) \/ SetupTlsFails(n) \/ StartHttp(n) \/ StartFrameCapture(n)

----------------------------------------------------------------------------
(* _run_http_server and its clients                                        *)

nonListen == <<setting, callerVars, stopVars, flagVars, captureVars, tlsVars>>

(* Mutant: the port is shared with a listener that still holds it.         *)
BindShared(n) ==
  /\ hpc[n] = "bind"
  /\ listening' = listening \cup {n}
  /\ hpc' = [hpc EXCEPT ![n] = "assign"]
  /\ UNCHANGED <<httpd, shut, conn, nonListen>>

(* The constructor of the server binds the port if it is free.             *)
Bind(n) ==
  /\ hpc[n] = "bind"
  /\ \/ /\ listening = {}
        /\ listening' = {n}
        /\ hpc' = [hpc EXCEPT ![n] = "assign"]
     \/ /\ listening # {}
        /\ hpc' = [hpc EXCEPT ![n] = "ended"]
        /\ UNCHANGED listening
  /\ UNCHANGED <<httpd, shut, conn, nonListen>>

Assign(n) ==
  /\ hpc[n] = "assign"
  /\ httpd' = n
  /\ hpc' = [hpc EXCEPT ![n] = "wrap"]
  /\ UNCHANGED <<shut, listening, conn, nonListen>>

(* A socket that was closed meanwhile cannot be wrapped: the thread ends   *)
(* and this server never serves.                                           *)
Wrap(n) ==
  /\ hpc[n] = "wrap"
  /\ hpc' = [hpc EXCEPT ![n] = IF n \in listening THEN "serve" ELSE "broken"]
  /\ UNCHANGED <<httpd, shut, listening, conn, nonListen>>

(* The TLS handshake of a new connection is made inside accept(), in the   *)
(* thread of serve_forever.                                                *)
InAccept(n) == \E c \in Clients : conn[c] = [at |-> n, st |-> "shake"]

Connect(c) ==
  \E n \in listening :
    /\ hpc[n] = "serve" /\ n \notin shut /\ ~InAccept(n)
    /\ conn[c].st = "none"
    /\ conn' = [conn EXCEPT ![c] = [at |-> n, st |-> "shake"]]
    /\ UNCHANGED <<httpd, hpc, shut, listening, nonListen>>

(* A viewer's stream, or a request that lasts as long as its client likes: *)
(* a control channel, one that never comes, one whose answer is not read.  *)
Serve(c) ==
  /\ conn[c].st = "shake"
  /\ \E st \in {"stream", "held"} : conn' = [conn EXCEPT ![c].st = st]
  /\ UNCHANGED <<httpd, hpc, shut, listening, nonListen>>

(* Mutant: the stream's loop does not look at is_streaming.                *)
StreamEndless(c) == FALSE /\ UNCHANGED vars

StreamEnds(c) ==
  /\ conn[c].st = "stream" /\ ~streaming
  /\ conn' = [conn EXCEPT ![c] = NoConn]
  /\ UNCHANGED <<httpd, hpc, shut, listening, nonListen>>

ClientLeaves(c) ==
  /\ conn[c].st # "none"
  /\ conn' = [conn EXCEPT ![c] = NoConn]
  /\ UNCHANGED <<httpd, hpc, shut, listening, nonListen>>

ServeEnds(n) ==
  /\ hpc[n] = "serve" /\ n \in shut /\ ~InAccept(n)
  /\ hpc' = [hpc EXCEPT ![n] = "ended"]
  /\ UNCHANGED <<httpd, shut, listening, conn, nonListen>>

HttpStep(n) == Bind(n) \/ Assign(n) \/ Wrap(n) \/ ServeEnds(n)

----------------------------------------------------------------------------
(* _frame_capture_loop                                                     *)

nonCapture == <<setting, callerVars, stopVars, cthread, listenVars, tlsVars>>

CaptureGoTo(n, pc) == cpc' = [cpc EXCEPT ![n] = pc]

(* One more backend was tried without a frame.                             *)
NextBackend(n) ==
  /\ idx' = [idx EXCEPT ![n] = @ + 1]
  /\ CaptureGoTo(n, "next")

Spawn(n) ==
  LET p == <<n, idx[n]>>
  IN  /\ cpc[n] = "next" /\ idx[n] <= NBackends
      /\ children' = children \cup {p}
      /\ gst' = p
      /\ CaptureGoTo(n, "mark")
      /\ UNCHANGED <<streaming, idx, rd, pending, backend, frames, nonCapture>>

SpawnFails(n) ==
  /\ cpc[n] = "next" /\ idx[n] <= NBackends
  /\ NextBackend(n)
  /\ UNCHANGED <<streaming, rd, children, gst, pending, backend, frames, nonCapture>>

Mark(n) ==
  /\ cpc[n] = "mark"
  /\ pending' = idx[n]
  /\ CaptureGoTo(n, IF gst = NoProc THEN "blank" ELSE "loop")
  /\ UNCHANGED <<streaming, idx, rd, children, gst, backend, frames, nonCapture>>

(* The read loop ends with is_streaming, whatever the process does.        *)
CheckStreaming(n) ==
  /\ cpc[n] = "loop"
  /\ CaptureGoTo(n, IF streaming THEN "take" ELSE "ended")
  /\ UNCHANGED <<streaming, idx, rd, children, gst, pending, backend, frames, nonCapture>>

(* stdout of what _gst_process is now; of None it is an exception.         *)
TakeStdout(n) ==
  /\ cpc[n] = "take"
  /\ rd' = [rd EXCEPT ![n] = gst]
  /\ CaptureGoTo(n, IF gst = NoProc THEN "blank" ELSE "read")
  /\ UNCHANGED <<streaming, idx, children, gst, pending, backend, frames, nonCapture>>

(* A frame, which a dead process may have left in the pipe.                *)
ReadFrame(n) ==
  /\ cpc[n] = "read"
  /\ frames' = frames \cup {rd[n]}
  /\ backend' = IF pending # None THEN pending ELSE backend
  /\ pending' = None
  /\ rd' = [rd EXCEPT ![n] = NoProc]
  /\ CaptureGoTo(n, "loop")
  /\ UNCHANGED <<streaming, idx, children, gst, nonCapture>>

ReadEof(n) ==
  /\ cpc[n] = "read" /\ rd[n] \notin children
  /\ rd' = [rd EXCEPT ![n] = NoProc]
  /\ CaptureGoTo(n, "blank")
  /\ UNCHANGED <<streaming, idx, children, gst, pending, backend, frames, nonCapture>>

(* The end of _spawn_gstreamer: did this backend ever deliver?             *)
Blank(n) ==
  /\ cpc[n] = "blank"
  /\ \/ /\ pending = None /\ backend = idx[n]
        /\ CaptureGoTo(n, "ended")
        /\ UNCHANGED idx
     \/ /\ pending # None \/ backend # idx[n]
        /\ NextBackend(n)
  /\ UNCHANGED <<streaming, rd, children, gst, pending, backend, frames, nonCapture>>

(* _fallback_screenshot_loop.                                              *)
Fallback(n) ==
  /\ cpc[n] = "next" /\ idx[n] = Tool
  /\ CaptureGoTo(n, IF hasTool THEN "poll" ELSE "ended")
  /\ streaming' = (streaming /\ hasTool)
  /\ UNCHANGED <<idx, rd, children, gst, pending, backend, frames, nonCapture>>

(* Mutant: the loop of the tool does not look at is_streaming.             *)
PollToolForever(n) ==
  /\ cpc[n] = "poll"
  /\ CaptureGoTo(n, "tool")
  /\ UNCHANGED <<streaming, idx, rd, children, gst, pending, backend, frames, nonCapture>>

PollTool(n) ==
  /\ cpc[n] = "poll"
  /\ CaptureGoTo(n, IF streaming THEN "tool" ELSE "ended")
  /\ UNCHANGED <<streaming, idx, rd, children, gst, pending, backend, frames, nonCapture>>

(* The tool runs, for 3 seconds at most, with or without a picture.        *)
RunTool(n) ==
  /\ cpc[n] = "tool"
  /\ \/ CaptureGoTo(n, "poll")
     \/ backend = None /\ CaptureGoTo(n, "label")
  /\ UNCHANGED <<streaming, idx, rd, children, gst, pending, backend, frames, nonCapture>>

LabelTool(n) ==
  /\ cpc[n] = "label"
  /\ backend' = Tool
  /\ CaptureGoTo(n, "poll")
  /\ UNCHANGED <<streaming, idx, rd, children, gst, pending, frames, nonCapture>>

ChildDies(p) ==
  /\ p \in children
  /\ children' = children \ {p}
  /\ UNCHANGED <<streaming, cpc, idx, rd, gst, pending, backend, frames, nonCapture>>

(* What the thread does on its own: everything but the frames.             *)
CaptureStep(n) ==
  \/ Spawn(n) \/ SpawnFails(n) \/ Mark(n) \/ CheckStreaming(n) \/ TakeStdout(n) \/ ReadEof(n)
  \/ Blank(n) \/ Fallback(n) \/ PollTool(n) \/ RunTool(n) \/ LabelTool(n)

----------------------------------------------------------------------------
(* stop_server, in the caller's thread                                     *)

(* A patient caller has its PIN from start_server, or its exception.       *)
ClickStop ==
  /\ upc = "idle" /\ hosting
  /\ patient => spc[started] \in {"done", "failed"}
  /\ hosting' = FALSE
  /\ upc' = "signal"
  /\ UNCHANGED <<setting, started, spc, target, flagVars, listenVars, captureVars, tlsVars, clean>>

StopSignal ==
  /\ upc = "signal"
  /\ streaming' = FALSE
  /\ upc' = "child"
  /\ UNCHANGED <<setting, callerVars, target, cthread, listenVars, captureVars, tlsVars, clean>>

(* terminate, wait and, failing that, kill.                                *)
StopChild ==
  /\ upc = "child"
  /\ children' = children \ {gst}
  /\ upc' = IF gst = NoProc THEN "join" ELSE "forget"
  /\ UNCHANGED <<setting, callerVars, target, flagVars, listenVars, cpc, idx, rd, gst, pending,
                 backend, frames, tlsVars, clean>>

StopForget ==
  /\ upc = "forget"
  /\ gst' = NoProc
  /\ upc' = "join"
  /\ UNCHANGED <<setting, callerVars, target, flagVars, listenVars, cpc, idx, rd, children, pending,
                 backend, frames, tlsVars, clean>>

(* A capture thread may stay for 2 seconds in a read that nothing ends,    *)
(* and in its screenshot tool.                                             *)
Blocked(n) == cpc[n] = "read" /\ rd[n] \in children
Slow(n) == Blocked(n) \/ cpc[n] = "tool"

(* Mutant: the capture thread is not joined.                               *)
StopJoinNone ==
  /\ upc = "join"
  /\ cthread' = None
  /\ upc' = "shutdown"
  /\ UNCHANGED <<setting, callerVars, target, clean, streaming, listenVars, captureVars, tlsVars>>

StopJoin ==
  /\ upc = "join"
  /\ \/ /\ cthread # None => cpc[cthread] = "ended"
        /\ UNCHANGED clean
     \/ /\ cthread # None /\ Slow(cthread)
        /\ clean' = FALSE
  /\ cthread' = None
  /\ upc' = "shutdown"
  /\ UNCHANGED <<setting, callerVars, target, streaming, listenVars, captureVars, tlsVars>>

StopShutdown ==
  /\ upc = "shutdown"
  /\ shut' = shut \cup ({httpd} \ {None})
  /\ target' = httpd
  /\ upc' = IF httpd = None THEN "files" ELSE "await"
  /\ UNCHANGED <<setting, callerVars, flagVars, httpd, hpc, listening, conn, captureVars, tlsVars,
                 clean>>

(* shutdown() waits for the end of serve_forever; then self.httpd is read  *)
(* again.                                                                  *)
StopAwait ==
  /\ upc = "await" /\ hpc[target] = "ended"
  /\ upc' = "close"
  /\ UNCHANGED <<setting, callerVars, target, flagVars, listenVars, captureVars, tlsVars, clean>>

StopClose ==
  /\ upc = "close"
  /\ target' = httpd
  /\ listening' = listening \ {httpd}
  /\ upc' = "handlers"
  /\ UNCHANGED <<setting, callerVars, flagVars, httpd, hpc, shut, conn, captureVars, tlsVars,
                 clean>>

(* server_close joins the thread of every connection.                      *)
StopHandlers ==
  /\ upc = "handlers"
  /\ \A c \in Clients : conn[c].at # target
  /\ upc' = "files"
  /\ UNCHANGED <<setting, callerVars, target, flagVars, listenVars, captureVars, tlsVars, clean>>

StopFiles ==
  /\ upc = "files"
  /\ files' = files \ {path}
  /\ path' = None
  /\ target' = None
  /\ upc' = "idle"
  /\ UNCHANGED <<setting, callerVars, flagVars, listenVars, captureVars, tls, clean>>

StopStep ==
  \/ StopSignal \/ StopChild \/ StopForget \/ StopJoin \/ StopShutdown \/ StopAwait \/ StopClose
  \/ StopHandlers \/ StopFiles

----------------------------------------------------------------------------
Next ==
  \/ ClickStart \/ ClickStop \/ StopStep
  \/ \E n \in Starts : StartStep(n) \/ HttpStep(n) \/ CaptureStep(n) \/ ReadFrame(n)
  \/ \E c \in Clients : Connect(c) \/ Serve(c) \/ StreamEnds(c) \/ ClientLeaves(c)
  \/ \E p \in Procs : ChildDies(p)

Spec == Init /\ [][Next]_vars

(* Every thread runs on.  The join ends after its 2 seconds even if the    *)
(* thread is not in a slow place all the time, and the pipe of a dead      *)
(* process has an end.  Clicks, frames, the death of a child and what a    *)
(* client does are not assumed.                                            *)
Fairness ==
  /\ WF_vars(StopStep) /\ SF_vars(StopJoin)
  /\ \A n \in Starts : /\ WF_vars(StartStep(n)) /\ WF_vars(HttpStep(n))
                       /\ WF_vars(CaptureStep(n)) /\ SF_vars(ReadEof(n))
  /\ \A c \in Clients : WF_vars(StreamEnds(c))

FairSpec == Spec /\ Fairness

----------------------------------------------------------------------------
(* Properties                                                              *)

(* The capture thread that stop_server is about to join, or has left       *)
(* behind, is not waiting for a process that nobody ends: terminating      *)
(* _gst_process first, after the flag was cleared, has freed it.           *)
JoinFindsThreadFree ==
  patient /\ upc \in {"join", "shutdown", "await", "close", "handlers", "files"}
    => \A n \in Starts : ~Blocked(n)

(* The attributes _gst_process and _pending_backend serve one capture      *)
(* thread: those of earlier calls are done with GStreamer, even where      *)
(* stop_server gave up joining them.                                       *)
WithGst(n) == cpc[n] \in {"next", "mark", "loop", "take", "read", "blank"}

OneReader ==
  patient => \A m, n \in Starts : WithGst(m) /\ WithGst(n) => m = n

(* The port is never held by a listener that self.httpd has forgotten:     *)
(* the next stop_server can close it.                                      *)
ListenerKnown ==
  \A n \in listening : n = httpd \/ hpc[n] = "assign"

(* A private key in the temporary directory is one that stop_server will   *)
(* delete, unless _setup_tls failed halfway.                               *)
KeyFilesOwned ==
  patient => files \subseteq {path} \cup {n \in Starts : spc[n] = "failed"}

(* A backend that delivered a frame is not given up for the next one.      *)
FallsBackOnlyBlank ==
  clean => \A n \in Starts : \A i \in 1 .. idx[n] - 1 : <<n, i>> \notin frames

(* Once streaming has been turned off, the capture threads end, or it is   *)
(* turned on again.                                                        *)
CaptureEnds ==
  patient /\ ~streaming ~> streaming \/ \A n \in Starts : cpc[n] \in {"none", "ended"}

(* stop_server returns, unless a client keeps its connection (by its own   *)
(* choice, or as a viewer of a stream that a start_server which came late  *)
(* has turned on again), or it waits for a server that never served.       *)
Keeps(c) == conn[c].st \in {"shake", "held"} \/ (conn[c].st = "stream" /\ streaming)

NeverServed == upc = "await" /\ hpc[target] = "broken"

StopEnds == []<>(upc = "idle" \/ NeverServed \/ \E c \in Clients : Keeps(c))
=============================================================================
