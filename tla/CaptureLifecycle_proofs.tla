------------------------ MODULE CaptureLifecycle_proofs ------------------------
(***************************************************************************)
(* Proofs about CaptureLifecycle, and about Agent, the companion that runs *)
(* such a server.                                                          *)
(***************************************************************************)
EXTENDS CaptureLifecycle, Agent, TLAPS

Busy == {"flag", "tls", "http", "capture"}
Joining == {"signal", "child", "forget", "join"}
Attached(n) == cpc[n] \in {"mark", "loop", "take", "read"}
Alive(n) == cpc[n] \notin {"none", "ended"}

(* A backend that is being tried is one of the order.                      *)
BackendInv ==
  \A n \in Starts :
    /\ Attached(n) \/ cpc[n] = "blank" => idx[n] \in 1 .. NBackends
    /\ cpc[n] = "read" => rd[n] # NoProc

(* What a start_server has not done yet has left no trace.                 *)
StartInv ==
  \A n \in Starts :
    /\ n > started => spc[n] = "none"
    /\ spc[n] \in {"none", "flag", "tls", "http", "failed"} => hpc[n] = "none"
    /\ spc[n] # "done" => cpc[n] = "none"

(* A listener between bind and assignment holds the port alone.            *)
ListenInv ==
  /\ \A n \in Starts : hpc[n] = "assign" => listening = {n}
  /\ httpd # None => hpc[httpd] \in {"wrap", "serve", "broken", "ended"}

(* A patient caller runs start_server and stop_server one after the other. *)
TurnInv ==
  patient =>
    /\ \A n \in Starts : spc[n] \in Busy => n = started /\ hosting
    /\ hosting => upc = "idle"
    /\ upc \notin {"idle", "signal"} => ~streaming
    /\ cthread # None => hosting \/ upc \in Joining

(* Only the newest capture thread, which is yet to be joined, is with      *)
(* GStreamer.                                                              *)
ReaderInv ==
  patient => \A n \in Starts : WithGst(n) => n = started /\ n = cthread

(* It is attached to its own process, which is dead once stop_server has   *)
(* been there.                                                             *)
ChildInv ==
  patient => \A n \in Starts :
    /\ Attached(n) => gst = <<n, idx[n]>> \/ (gst = NoProc /\ upc = "join")
    /\ cpc[n] = "read" => rd[n] = <<n, idx[n]>>
    /\ cpc[n] \in {"take", "read"} /\ upc \in {"forget", "join"}
         => <<n, idx[n]>> \notin children

(* The key files whose path is known are those of the start that is up.    *)
KeyInv ==
  patient =>
    /\ files \subseteq {path} \cup {n \in Starts : spc[n] = "failed"}
    /\ path # None => /\ path = started
                      /\ spc[path] \in {"http", "capture", "done"}
                      /\ hosting \/ upc # "idle"

(* While no join has given up, one capture thread lives, and the attributes*)
(* tell whether the backend it is at has delivered.                        *)
FrameOk(n) ==
  /\ Alive(n) => n = started /\ n = cthread
  /\ \A i \in 1 .. NBackends : <<n, i>> \in frames => i = idx[n]
  /\ cpc[n] = "none" => idx[n] = 1
  /\ cpc[n] \in {"none", "next", "mark"} => <<n, idx[n]>> \notin frames
  /\ cpc[n] \in {"loop", "take", "read"} => pending \in {None, idx[n]}
  /\ cpc[n] \in {"loop", "take", "read", "blank"} =>
       \/ <<n, idx[n]>> \notin frames /\ pending # None
       \/ pending = None /\ backend = idx[n]

FrameInv == clean => patient /\ \A n \in Starts : FrameOk(n)

IInv ==
  /\ TypeOK
  /\ BackendInv
  /\ StartInv
  /\ ListenInv /\ ListenerKnown
  /\ TurnInv
  /\ ReaderInv
  /\ ChildInv
  /\ KeyInv
  /\ FrameInv

LEMMA InvInit == Init => IInv
<1> SUFFICES ASSUME Init PROVE IInv
  OBVIOUS
<1> USE CaptureAssumption DEF Init, None
<1>1. TypeOK
  <2>1. hasTool \in BOOLEAN /\ patient \in BOOLEAN /\ clean \in BOOLEAN
    OBVIOUS
  <2>2. idx \in [Starts -> 1 .. Tool]
    BY DEF Tool
  <2>3. conn \in [Clients -> [at : {None} \cup Starts, st : {"none", "shake", "stream", "held"}]]
    BY DEF NoConn
  <2>4. started \in 0 .. MaxStarts /\ pending \in 0 .. NBackends /\ backend \in 0 .. Tool
    BY DEF Tool
  <2> QED
    BY <2>1, <2>2, <2>3, <2>4 DEF TypeOK, CapturePc
<1>2. BackendInv /\ StartInv /\ ListenInv /\ ListenerKnown
  BY DEF BackendInv, StartInv, ListenInv, ListenerKnown, Attached
<1>3. TurnInv /\ ReaderInv /\ ChildInv /\ KeyInv /\ FrameInv
  BY DEF TurnInv, ReaderInv, ChildInv, KeyInv, FrameInv, FrameOk, Attached, Alive, WithGst, Busy,
         Joining
<1> QED
  BY <1>1, <1>2, <1>3 DEF IInv

(* Each part keeps while its variables do.                                 *)
LEMMA BackendStill ==
  ASSUME BackendInv,
         UNCHANGED <<cpc, idx, rd>>
  PROVE  BackendInv'
BY DEF BackendInv, Attached

LEMMA StartStill ==
  ASSUME StartInv,
         UNCHANGED <<started, spc, hpc, cpc>>
  PROVE  StartInv'
BY DEF StartInv

LEMMA ListenStill ==
  ASSUME ListenInv /\ ListenerKnown,
         UNCHANGED <<hpc, listening, httpd>>
  PROVE  ListenInv' /\ ListenerKnown'
BY DEF ListenInv, ListenerKnown

LEMMA TurnStill ==
  ASSUME TurnInv,
         UNCHANGED <<patient, spc, started, hosting, upc, streaming, cthread>>
  PROVE  TurnInv'
BY DEF TurnInv, Busy, Joining

LEMMA ReaderStill ==
  ASSUME ReaderInv,
         UNCHANGED <<patient, cpc, started, cthread>>
  PROVE  ReaderInv'
BY DEF ReaderInv, WithGst

LEMMA ChildStill ==
  ASSUME ChildInv,
         UNCHANGED <<patient, cpc, idx, gst, upc, rd, children>>
  PROVE  ChildInv'
BY DEF ChildInv, Attached

LEMMA KeyStill ==
  ASSUME KeyInv,
         UNCHANGED <<patient, files, path, spc, started, hosting, upc>>
  PROVE  KeyInv'
BY DEF KeyInv

LEMMA FrameStill ==
  ASSUME FrameInv,
         UNCHANGED <<clean, patient, cpc, started, cthread, frames, idx, pending, backend>>
  PROVE  FrameInv'
BY DEF FrameInv, FrameOk, Alive

(* start_server and its caller's click.                                    *)
LEMMA StartsInv ==
  ASSUME IInv, NEW n \in Starts, ClickStart \/ StartStep(n)
  PROVE  IInv'
<1> USE CaptureAssumption DEF IInv, setting, callerVars, stopVars, flagVars, listenVars,
                              captureVars, tlsVars
<1>1. CASE ClickStart
  <2>1. TypeOK'
    BY <1>1 DEF ClickStart, TypeOK, Starts
  <2>2. BackendInv' /\ ListenInv' /\ ListenerKnown' /\ ChildInv'
    BY <1>1, BackendStill, ListenStill, ChildStill DEF ClickStart
  <2>3. StartInv'
    BY <1>1 DEF ClickStart, TypeOK, StartInv, Starts
  <2>4. TurnInv'
    BY <1>1 DEF ClickStart, TypeOK, TurnInv, Busy, Joining
  <2>5. ReaderInv'
    BY <1>1 DEF ClickStart, TypeOK, ReaderInv, WithGst, TurnInv, Joining, Starts, None
  <2>6. KeyInv'
    BY <1>1 DEF ClickStart, TypeOK, KeyInv, StartInv, Starts
  <2>7. FrameInv'
    BY <1>1 DEF ClickStart, TypeOK, FrameInv, FrameOk, Alive, TurnInv, Joining, Starts, None
  <2> QED
    BY <2>1, <2>2, <2>3, <2>4, <2>5, <2>6, <2>7
<1>2. CASE SetFlag(n)
  <2>1. TypeOK'
    BY <1>2 DEF SetFlag, TypeOK
  <2>2. BackendInv' /\ ListenInv' /\ ListenerKnown' /\ ReaderInv' /\ ChildInv' /\ FrameInv'
    BY <1>2, BackendStill, ListenStill, ReaderStill, ChildStill, FrameStill DEF SetFlag
  <2>3. StartInv'
    BY <1>2 DEF SetFlag, TypeOK, StartInv
  <2>4. TurnInv'
    BY <1>2 DEF SetFlag, TypeOK, TurnInv, Busy, Joining
  <2>5. KeyInv'
    BY <1>2 DEF SetFlag, TypeOK, KeyInv
  <2> QED
    BY <2>1, <2>2, <2>3, <2>4, <2>5
<1>3. CASE SetupTls(n)
  <2>1. TypeOK'
    BY <1>3 DEF SetupTls, TypeOK
  <2>2. BackendInv' /\ ListenInv' /\ ListenerKnown' /\ ReaderInv' /\ ChildInv' /\ FrameInv'
    BY <1>3, BackendStill, ListenStill, ReaderStill, ChildStill, FrameStill DEF SetupTls
  <2>3. StartInv'
    BY <1>3 DEF SetupTls, TypeOK, StartInv
  <2>4. TurnInv'
    BY <1>3 DEF SetupTls, TypeOK, TurnInv, Busy, Joining
  <2>5. KeyInv'
    BY <1>3 DEF SetupTls, TypeOK, KeyInv, TurnInv, Busy, Starts, None
  <2> QED
    BY <2>1, <2>2, <2>3, <2>4, <2>5
<1>4. CASE SetupTlsFails(n)
  <2>1. TypeOK'
    <3>1. files' \subseteq Starts
      BY <1>4 DEF SetupTlsFails, TypeOK
    <3>2. spc' \in [Starts -> {"none", "flag", "tls", "http", "capture", "done", "failed"}]
      BY <1>4 DEF SetupTlsFails, TypeOK
    <3>3. tls' \in BOOLEAN
      BY <1>4 DEF SetupTlsFails
    <3> QED
      BY <1>4, <3>1, <3>2, <3>3 DEF SetupTlsFails, TypeOK
  <2>2. BackendInv' /\ ListenInv' /\ ListenerKnown' /\ ReaderInv' /\ ChildInv' /\ FrameInv'
    BY <1>4, BackendStill, ListenStill, ReaderStill, ChildStill, FrameStill DEF SetupTlsFails
  <2>3. StartInv'
    BY <1>4 DEF SetupTlsFails, TypeOK, StartInv
  <2>4. TurnInv'
    BY <1>4 DEF SetupTlsFails, TypeOK, TurnInv, Busy, Joining
  <2>5. KeyInv'
    BY <1>4 DEF SetupTlsFails, TypeOK, KeyInv
  <2> QED
    BY <2>1, <2>2, <2>3, <2>4, <2>5
<1>5. CASE StartHttp(n)
  <2>1. TypeOK'
    BY <1>5 DEF StartHttp, TypeOK
  <2>2. BackendInv' /\ ReaderInv' /\ ChildInv' /\ FrameInv'
    BY <1>5, BackendStill, ReaderStill, ChildStill, FrameStill DEF StartHttp
  <2>3. StartInv'
    BY <1>5 DEF StartHttp, TypeOK, StartInv
  <2>4. ListenInv' /\ ListenerKnown'
    BY <1>5 DEF StartHttp, TypeOK, ListenInv, ListenerKnown, StartInv
  <2>5. TurnInv'
    BY <1>5 DEF StartHttp, TypeOK, TurnInv, Busy, Joining
  <2>6. KeyInv'
    BY <1>5 DEF StartHttp, TypeOK, KeyInv
  <2> QED
    BY <2>1, <2>2, <2>3, <2>4, <2>5, <2>6
<1>6. CASE StartFrameCapture(n)
  <2>1. TypeOK'
    BY <1>6 DEF StartFrameCapture, TypeOK, CapturePc
  <2>2. ListenInv' /\ ListenerKnown'
    BY <1>6, ListenStill DEF StartFrameCapture
  <2>3. BackendInv'
    BY <1>6 DEF StartFrameCapture, TypeOK, BackendInv, Attached
  <2>4. StartInv'
    BY <1>6 DEF StartFrameCapture, TypeOK, StartInv
  <2>5. TurnInv'
    BY <1>6 DEF StartFrameCapture, TypeOK, TurnInv, Busy, Joining
  <2>6. ReaderInv'
    BY <1>6 DEF StartFrameCapture, TypeOK, ReaderInv, WithGst, TurnInv, Busy
  <2>7. ChildInv'
    BY <1>6 DEF StartFrameCapture, TypeOK, ChildInv, Attached
  <2>8. KeyInv'
    BY <1>6 DEF StartFrameCapture, TypeOK, KeyInv
  <2>9. FrameInv'
    BY <1>6 DEF StartFrameCapture, TypeOK, FrameInv, FrameOk, Alive, StartInv, TurnInv, Busy
  <2> QED
    BY <2>1, <2>2, <2>3, <2>4, <2>5, <2>6, <2>7, <2>8, <2>9
<1> QED
  BY <1>1, <1>2, <1>3, <1>4, <1>5, <1>6 DEF StartStep

(* The HTTP server's thread.                                               *)
LEMMA HttpInv ==
  ASSUME IInv, NEW n \in Starts, HttpStep(n)
  PROVE  IInv'
<1> USE CaptureAssumption DEF IInv, setting, callerVars, stopVars, flagVars, listenVars,
                              captureVars, tlsVars
<1>1. CASE Bind(n)
  <2>1. TypeOK'
    BY <1>1 DEF Bind, TypeOK, nonListen
  <2>2. BackendInv' /\ TurnInv' /\ ReaderInv' /\ ChildInv' /\ KeyInv' /\ FrameInv'
    BY <1>1, BackendStill, TurnStill, ReaderStill, ChildStill, KeyStill, FrameStill
       DEF Bind, nonListen
  <2>3. StartInv'
    BY <1>1 DEF Bind, nonListen, TypeOK, StartInv
  <2>4. ListenInv' /\ ListenerKnown'
    <3>1. UNCHANGED httpd /\ \A m \in Starts \ {n} : hpc'[m] = hpc[m]
      BY <1>1 DEF Bind, TypeOK
    <3>2. httpd # n
      BY <1>1 DEF Bind, ListenInv, Starts, None
    <3>3. CASE listening = {} /\ listening' = {n} /\ hpc'[n] = "assign"
      BY <3>1, <3>2, <3>3 DEF TypeOK, ListenInv, ListenerKnown
    <3>4. CASE UNCHANGED listening /\ hpc'[n] = "ended"
      <4>1. n \notin listening
        BY <1>1, <3>2 DEF Bind, ListenerKnown
      <4> QED
        BY <3>1, <3>2, <3>4, <4>1 DEF TypeOK, ListenInv, ListenerKnown
    <3> QED
      BY <1>1, <3>3, <3>4 DEF Bind, TypeOK
  <2> QED
    BY <2>1, <2>2, <2>3, <2>4
<1>2. CASE Assign(n)
  <2>1. TypeOK'
    BY <1>2 DEF Assign, TypeOK, nonListen
  <2>2. BackendInv' /\ TurnInv' /\ ReaderInv' /\ ChildInv' /\ KeyInv' /\ FrameInv'
    BY <1>2, BackendStill, TurnStill, ReaderStill, ChildStill, KeyStill, FrameStill
       DEF Assign, nonListen
  <2>3. StartInv'
    BY <1>2 DEF Assign, nonListen, TypeOK, StartInv
  <2>4. ListenInv' /\ ListenerKnown'
    BY <1>2 DEF Assign, nonListen, TypeOK, ListenInv, ListenerKnown
  <2> QED
    BY <2>1, <2>2, <2>3, <2>4
<1>3. CASE Wrap(n)
  <2>1. TypeOK'
    BY <1>3 DEF Wrap, TypeOK, nonListen
  <2>2. BackendInv' /\ TurnInv' /\ ReaderInv' /\ ChildInv' /\ KeyInv' /\ FrameInv'
    BY <1>3, BackendStill, TurnStill, ReaderStill, ChildStill, KeyStill, FrameStill
       DEF Wrap, nonListen
  <2>3. StartInv'
    BY <1>3 DEF Wrap, nonListen, TypeOK, StartInv
  <2>4. ListenInv' /\ ListenerKnown'
    BY <1>3 DEF Wrap, nonListen, TypeOK, ListenInv, ListenerKnown
  <2> QED
    BY <2>1, <2>2, <2>3, <2>4
<1>4. CASE ServeEnds(n)
  <2>1. TypeOK'
    BY <1>4 DEF ServeEnds, TypeOK, nonListen
  <2>2. BackendInv' /\ TurnInv' /\ ReaderInv' /\ ChildInv' /\ KeyInv' /\ FrameInv'
    BY <1>4, BackendStill, TurnStill, ReaderStill, ChildStill, KeyStill, FrameStill
       DEF ServeEnds, nonListen
  <2>3. StartInv'
    BY <1>4 DEF ServeEnds, nonListen, TypeOK, StartInv
  <2>4. ListenInv' /\ ListenerKnown'
    BY <1>4 DEF ServeEnds, nonListen, TypeOK, ListenInv, ListenerKnown
  <2> QED
    BY <2>1, <2>2, <2>3, <2>4
<1> QED
  BY <1>1, <1>2, <1>3, <1>4 DEF HttpStep

(* Clients change nothing but their connections.                           *)
LEMMA ClientInv ==
  ASSUME IInv, NEW c \in Clients, Connect(c) \/ Serve(c) \/ StreamEnds(c) \/ ClientLeaves(c)
  PROVE  IInv'
<1> USE DEF IInv
<1>1. UNCHANGED <<nonListen, httpd, hpc, shut, listening>>
  BY DEF Connect, Serve, StreamEnds, ClientLeaves
<1>2. conn' \in [Clients -> [at : {None} \cup Starts, st : {"none", "shake", "stream", "held"}]]
  BY DEF Connect, Serve, StreamEnds, ClientLeaves, TypeOK, NoConn
<1>3. TypeOK'
  BY <1>1, <1>2
     DEF TypeOK, nonListen, setting, callerVars, stopVars, flagVars, captureVars, tlsVars
<1>4. BackendInv' /\ StartInv' /\ ListenInv' /\ ListenerKnown' /\ TurnInv'
  BY <1>1, BackendStill, StartStill, ListenStill, TurnStill
     DEF nonListen, setting, callerVars, stopVars, flagVars, captureVars
<1>5. ReaderInv' /\ ChildInv' /\ KeyInv' /\ FrameInv'
  BY <1>1, ReaderStill, ChildStill, KeyStill, FrameStill
     DEF nonListen, setting, callerVars, stopVars, flagVars, captureVars, tlsVars
<1> QED
  BY <1>3, <1>4, <1>5

(* The capture thread.                                                     *)
LEMMA CaptureInv ==
  ASSUME IInv, NEW n \in Starts, CaptureStep(n) \/ ReadFrame(n)
  PROVE  IInv'
<1> USE CaptureAssumption DEF IInv, setting, callerVars, stopVars, flagVars, listenVars,
                              captureVars, tlsVars
<1>1. CASE Spawn(n)
  <2>1. TypeOK'
    BY <1>1 DEF Spawn, TypeOK, CapturePc, nonCapture, CaptureGoTo, Procs
  <2>2. ListenInv' /\ ListenerKnown' /\ TurnInv' /\ KeyInv'
    BY <1>1, ListenStill, TurnStill, KeyStill DEF Spawn, nonCapture, CaptureGoTo, Procs
  <2>3. BackendInv'
    BY <1>1 DEF Spawn, nonCapture, CaptureGoTo, Procs, TypeOK, BackendInv, Attached
  <2>4. StartInv'
    BY <1>1 DEF Spawn, nonCapture, CaptureGoTo, Procs, TypeOK, StartInv
  <2>5. ReaderInv'
    BY <1>1 DEF Spawn, nonCapture, CaptureGoTo, Procs, TypeOK, ReaderInv, WithGst
  <2>6. ChildInv'
    BY <1>1
       DEF Spawn, nonCapture, CaptureGoTo, Procs, TypeOK, ChildInv, Attached, ReaderInv,
           WithGst
  <2>7. FrameInv'
    BY <1>1 DEF Spawn, nonCapture, CaptureGoTo, Procs, TypeOK, FrameInv, FrameOk, Alive
  <2> QED
    BY <2>1, <2>2, <2>3, <2>4, <2>5, <2>6, <2>7
<1>2. CASE SpawnFails(n)
  <2>1. TypeOK'
    BY <1>2 DEF SpawnFails, TypeOK, CapturePc, nonCapture, CaptureGoTo, NextBackend, Tool
  <2>2. ListenInv' /\ ListenerKnown' /\ TurnInv' /\ KeyInv'
    BY <1>2, ListenStill, TurnStill, KeyStill
       DEF SpawnFails, nonCapture, CaptureGoTo, NextBackend, Tool
  <2>3. BackendInv'
    BY <1>2
       DEF SpawnFails, nonCapture, CaptureGoTo, NextBackend, Tool, TypeOK, BackendInv,
           Attached
  <2>4. StartInv'
    BY <1>2 DEF SpawnFails, nonCapture, CaptureGoTo, NextBackend, Tool, TypeOK, StartInv
  <2>5. ReaderInv'
    BY <1>2
       DEF SpawnFails, nonCapture, CaptureGoTo, NextBackend, Tool, TypeOK, ReaderInv, WithGst
  <2>6. ChildInv'
    BY <1>2
       DEF SpawnFails, nonCapture, CaptureGoTo, NextBackend, Tool, TypeOK, ChildInv, Attached
  <2>7. FrameInv'
    BY <1>2
       DEF SpawnFails, nonCapture, CaptureGoTo, NextBackend, Tool, TypeOK, FrameInv, FrameOk,
           Alive, Procs, Starts
  <2> QED
    BY <2>1, <2>2, <2>3, <2>4, <2>5, <2>6, <2>7
<1>3. CASE Mark(n)
  <2>1. TypeOK'
    <3>1. pending' \in 0 .. NBackends
      BY <1>3 DEF Mark, BackendInv, Attached
    <3>2. cpc' \in [Starts -> CapturePc]
      BY <1>3 DEF Mark, TypeOK, CaptureGoTo, CapturePc
    <3> QED
      BY <1>3, <3>1, <3>2 DEF Mark, TypeOK, nonCapture
  <2>2. ListenInv' /\ ListenerKnown' /\ TurnInv' /\ KeyInv'
    BY <1>3, ListenStill, TurnStill, KeyStill DEF Mark, nonCapture, CaptureGoTo
  <2>3. BackendInv'
    BY <1>3 DEF Mark, nonCapture, CaptureGoTo, TypeOK, BackendInv, Attached
  <2>4. StartInv'
    BY <1>3 DEF Mark, nonCapture, CaptureGoTo, TypeOK, StartInv
  <2>5. ReaderInv'
    BY <1>3 DEF Mark, nonCapture, CaptureGoTo, TypeOK, ReaderInv, WithGst
  <2>6. ChildInv'
    BY <1>3 DEF Mark, nonCapture, CaptureGoTo, TypeOK, ChildInv, Attached
  <2>7. FrameInv'
    <3> SUFFICES ASSUME clean, NEW m \in Starts
                 PROVE  FrameOk(m)'
      BY <1>3 DEF Mark, FrameInv, nonCapture
    <3>1. idx[n] \in 1 .. NBackends /\ idx[n] # None
      BY <1>3 DEF Mark, BackendInv, Attached, None
    <3>2. \A k \in Starts \ {n} : cpc[k] \in {"none", "ended"}
      BY <1>3 DEF Mark, FrameInv, FrameOk, Alive
    <3>3. CASE m = n
      BY <1>3, <3>1, <3>3 DEF Mark, FrameInv, FrameOk, nonCapture, CaptureGoTo, TypeOK, Alive
    <3>4. CASE m # n
      BY <1>3, <3>2, <3>4 DEF Mark, FrameInv, FrameOk, nonCapture, CaptureGoTo, TypeOK, Alive
    <3> QED
      BY <3>3, <3>4
  <2> QED
    BY <2>1, <2>2, <2>3, <2>4, <2>5, <2>6, <2>7
<1>4. CASE CheckStreaming(n)
  <2>1. TypeOK'
    BY <1>4 DEF CheckStreaming, TypeOK, CapturePc, nonCapture, CaptureGoTo
  <2>2. ListenInv' /\ ListenerKnown' /\ TurnInv' /\ KeyInv'
    BY <1>4, ListenStill, TurnStill, KeyStill DEF CheckStreaming, nonCapture, CaptureGoTo
  <2>3. BackendInv'
    BY <1>4 DEF CheckStreaming, nonCapture, CaptureGoTo, TypeOK, BackendInv, Attached
  <2>4. StartInv'
    BY <1>4 DEF CheckStreaming, nonCapture, CaptureGoTo, TypeOK, StartInv
  <2>5. ReaderInv'
    BY <1>4 DEF CheckStreaming, nonCapture, CaptureGoTo, TypeOK, ReaderInv, WithGst
  <2>6. ChildInv'
    BY <1>4 DEF CheckStreaming, nonCapture, CaptureGoTo, TypeOK, ChildInv, Attached, TurnInv
  <2>7. FrameInv'
    BY <1>4 DEF CheckStreaming, nonCapture, CaptureGoTo, TypeOK, FrameInv, FrameOk, Alive
  <2> QED
    BY <2>1, <2>2, <2>3, <2>4, <2>5, <2>6, <2>7
<1>5. CASE TakeStdout(n)
  <2>1. TypeOK'
    BY <1>5 DEF TakeStdout, TypeOK, CapturePc, nonCapture, CaptureGoTo
  <2>2. ListenInv' /\ ListenerKnown' /\ TurnInv' /\ KeyInv'
    BY <1>5, ListenStill, TurnStill, KeyStill DEF TakeStdout, nonCapture, CaptureGoTo
  <2>3. BackendInv'
    BY <1>5 DEF TakeStdout, nonCapture, CaptureGoTo, TypeOK, BackendInv, Attached
  <2>4. StartInv'
    BY <1>5 DEF TakeStdout, nonCapture, CaptureGoTo, TypeOK, StartInv
  <2>5. ReaderInv'
    BY <1>5 DEF TakeStdout, nonCapture, CaptureGoTo, TypeOK, ReaderInv, WithGst
  <2>6. ChildInv'
    BY <1>5 DEF TakeStdout, nonCapture, CaptureGoTo, TypeOK, ChildInv, Attached
  <2>7. FrameInv'
    BY <1>5 DEF TakeStdout, nonCapture, CaptureGoTo, TypeOK, FrameInv, FrameOk, Alive
  <2> QED
    BY <2>1, <2>2, <2>3, <2>4, <2>5, <2>6, <2>7
<1>6. CASE ReadFrame(n)
  <2>1. TypeOK'
    <3>1. /\ frames' \subseteq Procs
          /\ rd' \in [Starts -> {NoProc} \cup Procs]
      BY <1>6 DEF ReadFrame, TypeOK, BackendInv
    <3>2. pending' \in 0 .. NBackends /\ backend' \in 0 .. Tool
      BY <1>6 DEF ReadFrame, TypeOK, Tool, None
    <3>3. cpc' \in [Starts -> CapturePc]
      BY <1>6 DEF ReadFrame, TypeOK, CaptureGoTo, CapturePc
    <3> QED
      BY <1>6, <3>1, <3>2, <3>3 DEF ReadFrame, TypeOK, nonCapture
  <2>2. ListenInv' /\ ListenerKnown' /\ TurnInv' /\ KeyInv'
    BY <1>6, ListenStill, TurnStill, KeyStill DEF ReadFrame, nonCapture, CaptureGoTo, Procs
  <2>3. BackendInv'
    BY <1>6 DEF ReadFrame, nonCapture, CaptureGoTo, Procs, TypeOK, BackendInv, Attached
  <2>4. StartInv'
    BY <1>6 DEF ReadFrame, nonCapture, CaptureGoTo, Procs, TypeOK, StartInv
  <2>5. ReaderInv'
    BY <1>6 DEF ReadFrame, nonCapture, CaptureGoTo, Procs, TypeOK, ReaderInv, WithGst
  <2>6. ChildInv'
    BY <1>6 DEF ReadFrame, nonCapture, CaptureGoTo, Procs, TypeOK, ChildInv, Attached
  <2>7. FrameInv'
    <3> SUFFICES ASSUME clean, NEW m \in Starts
                 PROVE  FrameOk(m)'
      BY <1>6 DEF ReadFrame, FrameInv, nonCapture
    <3>0. patient
      BY DEF FrameInv
    <3>1. idx[n] \in 1 .. NBackends /\ idx[n] # None /\ rd[n] = <<n, idx[n]>>
      <4>1. cpc[n] = "read"
        BY <1>6 DEF ReadFrame
      <4>2. idx[n] \in 1 .. NBackends
        BY <4>1 DEF BackendInv, Attached
      <4>3. rd[n] = <<n, idx[n]>>
        BY <3>0, <4>1 DEF ChildInv
      <4> QED
        BY <4>2, <4>3 DEF None
    <3>2. \A k \in Starts \ {n} : cpc[k] \in {"none", "ended"}
      BY <1>6 DEF ReadFrame, FrameInv, FrameOk, Alive
    <3>3. \A k \in Starts, i \in 1 .. NBackends :
            <<k, i>> \in frames' <=> <<k, i>> \in frames \/ (k = n /\ i = idx[n])
      BY <1>6, <3>1 DEF ReadFrame
    <3>4. CASE m = n
      <4>1. pending' = None /\ backend' = idx[n]
        BY <1>6, <3>1 DEF ReadFrame, FrameInv, FrameOk, None
      <4>2. cpc'[n] = "loop" /\ UNCHANGED <<idx, started, cthread>>
        BY <1>6 DEF ReadFrame, CaptureGoTo, TypeOK, nonCapture
      <4>3. /\ n = started /\ n = cthread
            /\ \A i \in 1 .. NBackends : <<n, i>> \in frames => i = idx[n]
        BY <1>6 DEF ReadFrame, FrameInv, FrameOk, Alive
      <4> QED
        BY <3>3, <3>4, <4>1, <4>2, <4>3 DEF FrameOk, Alive
    <3>5. CASE m # n
      <4>1. \A i : <<m, i>> \in frames' <=> <<m, i>> \in frames
        BY <1>6, <3>1, <3>5 DEF ReadFrame
      <4> QED
        BY <1>6, <3>2, <3>5, <4>1
           DEF ReadFrame, FrameInv, FrameOk, nonCapture, CaptureGoTo, TypeOK, Alive
    <3> QED
      BY <3>4, <3>5
  <2> QED
    BY <2>1, <2>2, <2>3, <2>4, <2>5, <2>6, <2>7
<1>7. CASE ReadEof(n)
  <2>1. TypeOK'
    BY <1>7 DEF ReadEof, TypeOK, CapturePc, nonCapture, CaptureGoTo
  <2>2. ListenInv' /\ ListenerKnown' /\ TurnInv' /\ KeyInv'
    BY <1>7, ListenStill, TurnStill, KeyStill DEF ReadEof, nonCapture, CaptureGoTo
  <2>3. BackendInv'
    BY <1>7 DEF ReadEof, nonCapture, CaptureGoTo, TypeOK, BackendInv, Attached
  <2>4. StartInv'
    BY <1>7 DEF ReadEof, nonCapture, CaptureGoTo, TypeOK, StartInv
  <2>5. ReaderInv'
    BY <1>7 DEF ReadEof, nonCapture, CaptureGoTo, TypeOK, ReaderInv, WithGst
  <2>6. ChildInv'
    BY <1>7 DEF ReadEof, nonCapture, CaptureGoTo, TypeOK, ChildInv, Attached
  <2>7. FrameInv'
    BY <1>7 DEF ReadEof, nonCapture, CaptureGoTo, TypeOK, FrameInv, FrameOk, Alive
  <2> QED
    BY <2>1, <2>2, <2>3, <2>4, <2>5, <2>6, <2>7
<1>8. CASE Blank(n)
  <2>1. TypeOK'
    <3>1. idx' \in [Starts -> 1 .. Tool]
      BY <1>8 DEF Blank, NextBackend, TypeOK, BackendInv, Tool
    <3>2. cpc' \in [Starts -> CapturePc]
      BY <1>8 DEF Blank, NextBackend, TypeOK, CaptureGoTo, CapturePc
    <3> QED
      BY <1>8, <3>1, <3>2 DEF Blank, TypeOK, nonCapture
  <2>2. ListenInv' /\ ListenerKnown' /\ TurnInv' /\ KeyInv'
    BY <1>8, ListenStill, TurnStill, KeyStill
       DEF Blank, nonCapture, CaptureGoTo, NextBackend, Tool
  <2>3. BackendInv'
    BY <1>8 DEF Blank, nonCapture, CaptureGoTo, NextBackend, Tool, TypeOK, BackendInv, Attached
  <2>4. StartInv'
    BY <1>8 DEF Blank, nonCapture, CaptureGoTo, NextBackend, Tool, TypeOK, StartInv
  <2>5. ReaderInv'
    BY <1>8 DEF Blank, nonCapture, CaptureGoTo, NextBackend, Tool, TypeOK, ReaderInv, WithGst
  <2>6. ChildInv'
    BY <1>8 DEF Blank, nonCapture, CaptureGoTo, NextBackend, Tool, TypeOK, ChildInv, Attached
  <2>7. FrameInv'
    <3> SUFFICES ASSUME clean, NEW m \in Starts
                 PROVE  FrameOk(m)'
      BY <1>8 DEF Blank, FrameInv, nonCapture
    <3>1. idx[n] \in 1 .. NBackends /\ cpc[n] = "blank"
      BY <1>8 DEF Blank, BackendInv
    <3>2. CASE m # n
      BY <1>8, <3>2
         DEF Blank, NextBackend, FrameInv, FrameOk, nonCapture, CaptureGoTo, TypeOK, Alive
    <3>3. CASE m = n /\ cpc' = [cpc EXCEPT ![n] = "ended"] /\ idx' = idx
      BY <1>8, <3>3 DEF Blank, FrameInv, FrameOk, nonCapture, TypeOK, Alive
    <3>4. CASE m = n /\ NextBackend(n) /\ (pending # None \/ backend # idx[n])
      <4>1. \A i \in 1 .. NBackends : <<n, i>> \notin frames
        BY <3>1, <3>4 DEF FrameInv, FrameOk
      <4>2. \A i : <<n, i>> \notin frames
        BY <4>1 DEF TypeOK, Procs
      <4>3. cpc'[n] = "next" /\ UNCHANGED frames
        BY <1>8, <3>4 DEF Blank, NextBackend, CaptureGoTo, TypeOK, nonCapture
      <4> QED
        BY <1>8, <3>1, <3>4, <4>2, <4>3 DEF Blank, FrameInv, FrameOk, nonCapture, Alive
    <3> QED
      BY <1>8, <3>2, <3>3, <3>4 DEF Blank, CaptureGoTo
  <2> QED
    BY <2>1, <2>2, <2>3, <2>4, <2>5, <2>6, <2>7
<1>9. CASE Fallback(n)
  <2>1. TypeOK'
    BY <1>9 DEF Fallback, TypeOK, CapturePc, nonCapture, CaptureGoTo, Tool
  <2>2. ListenInv' /\ ListenerKnown' /\ KeyInv'
    BY <1>9, ListenStill, KeyStill DEF Fallback, nonCapture, CaptureGoTo, Tool
  <2>3. BackendInv'
    BY <1>9 DEF Fallback, nonCapture, CaptureGoTo, Tool, TypeOK, BackendInv, Attached
  <2>4. StartInv'
    BY <1>9 DEF Fallback, nonCapture, CaptureGoTo, Tool, TypeOK, StartInv
  <2>5. ReaderInv'
    BY <1>9 DEF Fallback, nonCapture, CaptureGoTo, Tool, TypeOK, ReaderInv, WithGst
  <2>6. ChildInv'
    BY <1>9 DEF Fallback, nonCapture, CaptureGoTo, Tool, TypeOK, ChildInv, Attached
  <2>7. FrameInv'
    BY <1>9 DEF Fallback, nonCapture, CaptureGoTo, Tool, TypeOK, FrameInv, FrameOk, Alive
  <2>8. TurnInv'
    BY <1>9 DEF Fallback, nonCapture, CaptureGoTo, Tool, TypeOK, TurnInv, Busy, Joining
  <2> QED
    BY <2>1, <2>2, <2>3, <2>4, <2>5, <2>6, <2>7, <2>8
<1>10. CASE PollTool(n)
  <2>1. TypeOK'
    BY <1>10 DEF PollTool, TypeOK, CapturePc, nonCapture, CaptureGoTo
  <2>2. ListenInv' /\ ListenerKnown' /\ TurnInv' /\ KeyInv'
    BY <1>10, ListenStill, TurnStill, KeyStill DEF PollTool, nonCapture, CaptureGoTo
  <2>3. BackendInv'
    BY <1>10 DEF PollTool, nonCapture, CaptureGoTo, TypeOK, BackendInv, Attached
  <2>4. StartInv'
    BY <1>10 DEF PollTool, nonCapture, CaptureGoTo, TypeOK, StartInv
  <2>5. ReaderInv'
    BY <1>10 DEF PollTool, nonCapture, CaptureGoTo, TypeOK, ReaderInv, WithGst
  <2>6. ChildInv'
    BY <1>10 DEF PollTool, nonCapture, CaptureGoTo, TypeOK, ChildInv, Attached
  <2>7. FrameInv'
    BY <1>10 DEF PollTool, nonCapture, CaptureGoTo, TypeOK, FrameInv, FrameOk, Alive
  <2> QED
    BY <2>1, <2>2, <2>3, <2>4, <2>5, <2>6, <2>7
<1>11. CASE RunTool(n)
  <2>1. TypeOK'
    BY <1>11 DEF RunTool, TypeOK, CapturePc, nonCapture, CaptureGoTo
  <2>2. ListenInv' /\ ListenerKnown' /\ TurnInv' /\ KeyInv'
    BY <1>11, ListenStill, TurnStill, KeyStill DEF RunTool, nonCapture, CaptureGoTo
  <2>3. BackendInv'
    BY <1>11 DEF RunTool, nonCapture, CaptureGoTo, TypeOK, BackendInv, Attached
  <2>4. StartInv'
    BY <1>11 DEF RunTool, nonCapture, CaptureGoTo, TypeOK, StartInv
  <2>5. ReaderInv'
    BY <1>11 DEF RunTool, nonCapture, CaptureGoTo, TypeOK, ReaderInv, WithGst
  <2>6. ChildInv'
    BY <1>11 DEF RunTool, nonCapture, CaptureGoTo, TypeOK, ChildInv, Attached
  <2>7. FrameInv'
    BY <1>11 DEF RunTool, nonCapture, CaptureGoTo, TypeOK, FrameInv, FrameOk, Alive
  <2> QED
    BY <2>1, <2>2, <2>3, <2>4, <2>5, <2>6, <2>7
<1>12. CASE LabelTool(n)
  <2>1. TypeOK'
    BY <1>12 DEF LabelTool, TypeOK, CapturePc, nonCapture, CaptureGoTo, Tool
  <2>2. ListenInv' /\ ListenerKnown' /\ TurnInv' /\ KeyInv'
    BY <1>12, ListenStill, TurnStill, KeyStill DEF LabelTool, nonCapture, CaptureGoTo, Tool
  <2>3. BackendInv'
    BY <1>12 DEF LabelTool, nonCapture, CaptureGoTo, Tool, TypeOK, BackendInv, Attached
  <2>4. StartInv'
    BY <1>12 DEF LabelTool, nonCapture, CaptureGoTo, Tool, TypeOK, StartInv
  <2>5. ReaderInv'
    BY <1>12 DEF LabelTool, nonCapture, CaptureGoTo, Tool, TypeOK, ReaderInv, WithGst
  <2>6. ChildInv'
    BY <1>12 DEF LabelTool, nonCapture, CaptureGoTo, Tool, TypeOK, ChildInv, Attached
  <2>7. FrameInv'
    BY <1>12 DEF LabelTool, nonCapture, CaptureGoTo, Tool, TypeOK, FrameInv, FrameOk, Alive
  <2> QED
    BY <2>1, <2>2, <2>3, <2>4, <2>5, <2>6, <2>7
<1> QED
  BY <1>1, <1>2, <1>3, <1>4, <1>5, <1>6, <1>7, <1>8, <1>9, <1>10, <1>11, <1>12 DEF CaptureStep

LEMMA ChildDiesInv ==
  ASSUME IInv, NEW p \in Procs, ChildDies(p)
  PROVE  IInv'
<1> USE DEF IInv, ChildDies, nonCapture
<1>1. TypeOK'
  BY DEF TypeOK, setting, callerVars, stopVars, listenVars, tlsVars
<1>2. BackendInv' /\ StartInv' /\ ListenInv' /\ ListenerKnown' /\ TurnInv'
  BY BackendStill, StartStill, ListenStill, TurnStill
     DEF setting, callerVars, stopVars, listenVars
<1>3. ReaderInv' /\ KeyInv' /\ FrameInv'
  BY ReaderStill, KeyStill, FrameStill
     DEF setting, callerVars, stopVars, tlsVars
<1>4. ChildInv'
  BY DEF ChildInv, Attached, setting, stopVars
<1> QED
  BY <1>1, <1>2, <1>3, <1>4

(* stop_server and its caller's click.                                     *)
LEMMA StopInv ==
  ASSUME IInv, ClickStop \/ StopStep
  PROVE  IInv'
<1> USE CaptureAssumption DEF IInv, setting, callerVars, stopVars, flagVars, listenVars,
                              captureVars, tlsVars
<1>1. CASE ClickStop
  <2>1. TypeOK'
    BY <1>1 DEF ClickStop, TypeOK
  <2>2. BackendInv' /\ StartInv' /\ ListenInv' /\ ListenerKnown' /\ ReaderInv' /\ FrameInv'
    BY <1>1, BackendStill, StartStill, ListenStill, ReaderStill, FrameStill DEF ClickStop
  <2>3. TurnInv'
    BY <1>1 DEF ClickStop, TypeOK, TurnInv, Busy, Joining
  <2>4. ChildInv'
    BY <1>1 DEF ClickStop, TypeOK, ChildInv, Attached
  <2>5. KeyInv'
    BY <1>1 DEF ClickStop, TypeOK, KeyInv
  <2> QED
    BY <2>1, <2>2, <2>3, <2>4, <2>5
<1>2. CASE StopSignal
  <2>1. TypeOK'
    <3>1. streaming' \in BOOLEAN /\ upc' = "child"
      BY <1>2 DEF StopSignal
    <3> QED
      BY <1>2, <3>1 DEF StopSignal, TypeOK
  <2>2. BackendInv' /\ StartInv' /\ ListenInv' /\ ListenerKnown' /\ ReaderInv' /\ FrameInv'
    BY <1>2, BackendStill, StartStill, ListenStill, ReaderStill, FrameStill DEF StopSignal
  <2>3. TurnInv'
    BY <1>2 DEF StopSignal, TypeOK, TurnInv, Busy, Joining
  <2>4. ChildInv'
    BY <1>2 DEF StopSignal, TypeOK, ChildInv, Attached
  <2>5. KeyInv'
    BY <1>2 DEF StopSignal, TypeOK, KeyInv
  <2> QED
    BY <2>1, <2>2, <2>3, <2>4, <2>5
<1>3. CASE StopChild
  <2>1. TypeOK'
    BY <1>3 DEF StopChild, TypeOK
  <2>2. BackendInv' /\ StartInv' /\ ListenInv' /\ ListenerKnown' /\ ReaderInv' /\ FrameInv'
    BY <1>3, BackendStill, StartStill, ListenStill, ReaderStill, FrameStill DEF StopChild
  <2>3. TurnInv'
    BY <1>3 DEF StopChild, TypeOK, TurnInv, Busy, Joining
  <2>4. ChildInv'
    BY <1>3 DEF StopChild, TypeOK, ChildInv, Attached
  <2>5. KeyInv'
    BY <1>3 DEF StopChild, TypeOK, KeyInv
  <2> QED
    BY <2>1, <2>2, <2>3, <2>4, <2>5
<1>4. CASE StopForget
  <2>1. TypeOK'
    BY <1>4 DEF StopForget, TypeOK
  <2>2. BackendInv' /\ StartInv' /\ ListenInv' /\ ListenerKnown' /\ ReaderInv' /\ FrameInv'
    BY <1>4, BackendStill, StartStill, ListenStill, ReaderStill, FrameStill DEF StopForget
  <2>3. TurnInv'
    BY <1>4 DEF StopForget, TypeOK, TurnInv, Busy, Joining
  <2>4. ChildInv'
    BY <1>4 DEF StopForget, TypeOK, ChildInv, Attached
  <2>5. KeyInv'
    BY <1>4 DEF StopForget, TypeOK, KeyInv
  <2> QED
    BY <2>1, <2>2, <2>3, <2>4, <2>5
<1>5. CASE StopJoin
  <2>1. TypeOK'
    <3>1. clean' \in BOOLEAN /\ upc' = "shutdown" /\ cthread' = None
      BY <1>5 DEF StopJoin, TypeOK
    <3> QED
      BY <1>5, <3>1 DEF StopJoin, TypeOK
  <2>2. BackendInv' /\ StartInv' /\ ListenInv' /\ ListenerKnown'
    BY <1>5, BackendStill, StartStill, ListenStill DEF StopJoin
  <2>3. TurnInv'
    BY <1>5 DEF StopJoin, TypeOK, TurnInv, Busy, Joining
  <2>4. ReaderInv'
    BY <1>5
       DEF StopJoin, TypeOK, ReaderInv, WithGst, ChildInv, Attached, Slow, Blocked, Starts,
           None
  <2>5. ChildInv'
    <3>1. ASSUME patient, NEW n \in Starts, Attached(n) PROVE FALSE
      <4>1. n = cthread /\ cthread # None
        BY <3>1 DEF ReaderInv, WithGst, Attached, Starts, None
      <4>2. Slow(n)
        BY <1>5, <3>1, <4>1 DEF StopJoin, Attached
      <4>3. cpc[n] = "read" /\ rd[n] \in children
        BY <3>1, <4>2 DEF Slow, Blocked, Attached
      <4> QED
        BY <1>5, <3>1, <4>3 DEF StopJoin, ChildInv
    <3>2. UNCHANGED <<patient, cpc>>
      BY <1>5 DEF StopJoin
    <3> QED
      BY <3>1, <3>2 DEF ChildInv, Attached
  <2>6. KeyInv'
    BY <1>5 DEF StopJoin, TypeOK, KeyInv
  <2>7. FrameInv'
    BY <1>5 DEF StopJoin, TypeOK, FrameInv, FrameOk, Alive
  <2> QED
    BY <2>1, <2>2, <2>3, <2>4, <2>5, <2>6, <2>7
<1>6. CASE StopShutdown
  <2>1. TypeOK'
    BY <1>6 DEF StopShutdown, TypeOK
  <2>2. BackendInv' /\ StartInv' /\ ListenInv' /\ ListenerKnown' /\ ReaderInv' /\ FrameInv'
    BY <1>6, BackendStill, StartStill, ListenStill, ReaderStill, FrameStill DEF StopShutdown
  <2>3. TurnInv'
    BY <1>6 DEF StopShutdown, TypeOK, TurnInv, Busy, Joining
  <2>4. ChildInv'
    BY <1>6 DEF StopShutdown, TypeOK, ChildInv, Attached
  <2>5. KeyInv'
    BY <1>6 DEF StopShutdown, TypeOK, KeyInv
  <2> QED
    BY <2>1, <2>2, <2>3, <2>4, <2>5
<1>7. CASE StopAwait
  <2>1. TypeOK'
    BY <1>7 DEF StopAwait, TypeOK
  <2>2. BackendInv' /\ StartInv' /\ ListenInv' /\ ListenerKnown' /\ ReaderInv' /\ FrameInv'
    BY <1>7, BackendStill, StartStill, ListenStill, ReaderStill, FrameStill DEF StopAwait
  <2>3. TurnInv'
    BY <1>7 DEF StopAwait, TypeOK, TurnInv, Busy, Joining
  <2>4. ChildInv'
    BY <1>7 DEF StopAwait, TypeOK, ChildInv, Attached
  <2>5. KeyInv'
    BY <1>7 DEF StopAwait, TypeOK, KeyInv
  <2> QED
    BY <2>1, <2>2, <2>3, <2>4, <2>5
<1>8. CASE StopClose
  <2>1. TypeOK'
    BY <1>8 DEF StopClose, TypeOK
  <2>2. BackendInv' /\ StartInv' /\ ReaderInv' /\ FrameInv'
    BY <1>8, BackendStill, StartStill, ReaderStill, FrameStill DEF StopClose
  <2>3. ListenInv' /\ ListenerKnown'
    BY <1>8 DEF StopClose, TypeOK, ListenInv, ListenerKnown, Starts, None
  <2>4. TurnInv'
    BY <1>8 DEF StopClose, TypeOK, TurnInv, Busy, Joining
  <2>5. ChildInv'
    BY <1>8 DEF StopClose, TypeOK, ChildInv, Attached
  <2>6. KeyInv'
    BY <1>8 DEF StopClose, TypeOK, KeyInv
  <2> QED
    BY <2>1, <2>2, <2>3, <2>4, <2>5, <2>6
<1>9. CASE StopHandlers
  <2>1. TypeOK'
    BY <1>9 DEF StopHandlers, TypeOK
  <2>2. BackendInv' /\ StartInv' /\ ListenInv' /\ ListenerKnown' /\ ReaderInv' /\ FrameInv'
    BY <1>9, BackendStill, StartStill, ListenStill, ReaderStill, FrameStill DEF StopHandlers
  <2>3. TurnInv'
    BY <1>9 DEF StopHandlers, TypeOK, TurnInv, Busy, Joining
  <2>4. ChildInv'
    BY <1>9 DEF StopHandlers, TypeOK, ChildInv, Attached
  <2>5. KeyInv'
    BY <1>9 DEF StopHandlers, TypeOK, KeyInv
  <2> QED
    BY <2>1, <2>2, <2>3, <2>4, <2>5
<1>10. CASE StopFiles
  <2>1. TypeOK'
    BY <1>10 DEF StopFiles, TypeOK
  <2>2. BackendInv' /\ StartInv' /\ ListenInv' /\ ListenerKnown' /\ ReaderInv' /\ FrameInv'
    BY <1>10, BackendStill, StartStill, ListenStill, ReaderStill, FrameStill DEF StopFiles
  <2>3. TurnInv'
    BY <1>10 DEF StopFiles, TypeOK, TurnInv, Busy, Joining
  <2>4. ChildInv'
    BY <1>10 DEF StopFiles, TypeOK, ChildInv, Attached
  <2>5. KeyInv'
    BY <1>10 DEF StopFiles, TypeOK, KeyInv
  <2> QED
    BY <2>1, <2>2, <2>3, <2>4, <2>5
<1> QED
  BY <1>1, <1>2, <1>3, <1>4, <1>5, <1>6, <1>7, <1>8, <1>9, <1>10 DEF StopStep

LEMMA StutterInv == IInv /\ UNCHANGED vars => IInv'
<1> SUFFICES ASSUME IInv, UNCHANGED vars PROVE IInv'
  OBVIOUS
<1> USE DEF IInv, vars, setting, callerVars, stopVars, flagVars, listenVars, captureVars, tlsVars
<1>1. TypeOK'
  BY DEF TypeOK
<1>2. BackendInv' /\ StartInv' /\ ListenInv' /\ ListenerKnown' /\ TurnInv'
  BY BackendStill, StartStill, ListenStill, TurnStill
<1>3. ReaderInv' /\ ChildInv' /\ KeyInv' /\ FrameInv'
  BY ReaderStill, ChildStill, KeyStill, FrameStill
<1> QED
  BY <1>1, <1>2, <1>3

LEMMA StepInv == IInv /\ [Next]_vars => IInv'
<1> SUFFICES ASSUME IInv, [Next]_vars PROVE IInv'
  OBVIOUS
<1>1. ASSUME NEW n \in Starts, StartStep(n) \/ HttpStep(n) \/ CaptureStep(n) \/ ReadFrame(n)
      PROVE  IInv'
  BY <1>1, StartsInv, HttpInv, CaptureInv
<1>2. CASE ClickStart
  <2>1. started + 1 \in Starts
    BY <1>2, CaptureAssumption DEF ClickStart, IInv, TypeOK, Starts
  <2> QED
    BY <1>2, <2>1, StartsInv
<1>3. CASE ClickStop \/ StopStep
  BY <1>3, StopInv
<1>4. ASSUME NEW c \in Clients, Connect(c) \/ Serve(c) \/ StreamEnds(c) \/ ClientLeaves(c)
      PROVE  IInv'
  BY <1>4, ClientInv
<1>5. ASSUME NEW p \in Procs, ChildDies(p)
      PROVE  IInv'
  BY <1>5, ChildDiesInv
<1>6. CASE UNCHANGED vars
  BY <1>6, StutterInv
<1> QED
  BY <1>1, <1>2, <1>3, <1>4, <1>5, <1>6 DEF Next

LEMMA Invariance == Spec => []IInv
<1>1. Init => IInv
  BY InvInit
<1>2. IInv /\ [Next]_vars => IInv'
  BY StepInv
<1> QED
  BY <1>1, <1>2, PTL DEF Spec

----------------------------------------------------------------------------
(* The theorems                                                            *)

(* Every variable keeps its type; in particular no backend past the end of *)
(* the order is tried.                                                     *)
THEOREM TypeCorrect == Spec => []TypeOK
<1>1. IInv => TypeOK
  BY DEF IInv
<1> QED
  BY <1>1, Invariance, PTL

(* Terminating _gst_process after clearing the flag is enough to free the  *)
(* capture thread, for every order of backends and any number of restarts. *)
THEOREM JoinsAreFree == Spec => []JoinFindsThreadFree
<1>1. IInv => JoinFindsThreadFree
  <2> SUFFICES ASSUME IInv, patient, NEW n \in Starts, Blocked(n),
                      upc \in {"join", "shutdown", "await", "close", "handlers", "files"}
               PROVE  FALSE
    BY DEF JoinFindsThreadFree
  <2>1. cpc[n] = "read" /\ <<n, idx[n]>> \in children
    BY DEF Blocked, IInv, ChildInv
  <2>2. n = cthread
    BY <2>1 DEF IInv, ReaderInv, WithGst
  <2>3. upc \in Joining
    BY <2>2 DEF IInv, TurnInv, TypeOK, Starts, None
  <2>4. upc = "join"
    BY <2>3 DEF Joining
  <2> QED
    BY <2>1, <2>4 DEF IInv, ChildInv
<1> QED
  BY <1>1, Invariance, PTL

(* Two capture threads never share _gst_process and _pending_backend.      *)
THEOREM ReadersAreAlone == Spec => []OneReader
<1>1. IInv => OneReader
  BY DEF IInv, ReaderInv, OneReader
<1> QED
  BY <1>1, Invariance, PTL

(* self.httpd names the listener that holds the port, however starts and   *)
(* stops overlap.                                                          *)
THEOREM ListenersAreKnown == Spec => []ListenerKnown
<1>1. IInv => ListenerKnown
  BY DEF IInv
<1> QED
  BY <1>1, Invariance, PTL

(* No key file is forgotten by starts that succeed.                        *)
THEOREM KeyFilesAreOwned == Spec => []KeyFilesOwned
<1>1. IInv => KeyFilesOwned
  BY DEF IInv, KeyInv, KeyFilesOwned
<1> QED
  BY <1>1, Invariance, PTL

(* The test at the end of _spawn_gstreamer never gives up a backend that   *)
(* delivered.                                                              *)
THEOREM FallsBackProperly == Spec => []FallsBackOnlyBlank
<1>1. IInv => FallsBackOnlyBlank
  <2> SUFFICES ASSUME IInv, clean, NEW n \in Starts, NEW i \in 1 .. idx[n] - 1,
                      <<n, i>> \in frames
               PROVE  FALSE
    BY DEF FallsBackOnlyBlank
  <2>1. i \in 1 .. NBackends /\ i # idx[n]
    BY CaptureAssumption DEF IInv, TypeOK, Tool
  <2> QED
    BY <2>1 DEF IInv, FrameInv, FrameOk
<1> QED
  BY <1>1, Invariance, PTL

----------------------------------------------------------------------------
(* The companion                                                           *)

(* stop_server, and what is behind it.                                     *)
Closing == main \in {"close", "await", "handlers", "files", "exited"}

(* The main thread comes to stop() only after a start() that was whole,    *)
(* and leaves one part behind it at a time.                                *)
OrderInv ==
  /\ main \in {"tray", "icon", "menu", "wait", "stop"} => running
  /\ main = "refuse" \/ Closing => ~announced
  /\ Closing => ~receiver
  /\ main # "close" /\ Closing => ~is_streaming
  /\ main = "exited" => ~keys

(* A capture loop that was joined has ended, and its screen stays closed.  *)
ScreenInv ==
  (main \in {"hush", "refuse"} \/ Closing) /\ slow = 0
    => loop \in {"none", "ended"} /\ ~screen

AgentInv == AgentTypeOK /\ OrderInv /\ ScreenInv

LEMMA AgentStart == AgentInit => AgentInv
<1>1. AgentInit => PlacesOK
  BY AgentAssumption DEF AgentInit, PlacesOK, Starting
<1> QED
  BY <1>1 DEF AgentInit, AgentInv, AgentTypeOK, OrderInv, ScreenInv, Closing

(* What the other threads leave alone.                                     *)
LEMMA OtherThreads ==
  ASSUME \/ Signal \/ Handle \/ Quit \/ Wake \/ ServerBinds \/ PeerStep
         \/ OwnTries \/ OwnShoots \/ LoopStep
  PROVE  /\ UNCHANGED <<host, caps, main, running, keys, receiver, announced, slow>>
         /\ is_streaming' = is_streaming \/ ~is_streaming'
  BY DEF Signal, Handle, Quit, Wake, ServerBinds, PeerStep, PeerConnects, PeerIsServed,
         PeerStreamEnds, PeerLeaves, OwnTries, OwnShoots, LoopStep, LoopChecks, LoopGrabs,
         LoopWrites, mainVars, serverVars, loopVars

LEMMA PlacesStep ==
  ASSUME PlacesOK, [AgentNext]_agentVars
  PROVE  PlacesOK'
<1> USE AgentAssumption DEF PlacesOK, Goto, flow, events, mainVars, serverVars, loopVars, Starting, Stopping,
        Over
<1>1. CASE Launch \/ StartServer \/ StartCapture \/ StartReceiver \/ StartDiscovery
  <2>1. CASE Launch
    BY <2>1 DEF Launch, Detected
  <2>2. CASE StartServer
    BY <2>2 DEF StartServer
  <2>3. CASE StartCapture
    BY <2>3 DEF StartCapture, StartLoop
  <2>4. CASE StartReceiver
    BY <2>4 DEF StartReceiver
  <2>5. CASE StartDiscovery
    BY <2>5 DEF StartDiscovery
  <2> QED
    BY <1>1, <2>1, <2>2, <2>3, <2>4, <2>5
<1>2. CASE OpenTray \/ MakeIcon \/ Ends \/ Stop
  BY <1>2 DEF OpenTray, MakeIcon, Ends, Stop
<1>3. CASE Release \/ Hush \/ Refuse \/ Close
  BY <1>3 DEF Release, Hush, Refuse, Close
<1>4. CASE Await \/ Join \/ RemoveKeys
  BY <1>4 DEF Await, Join, RemoveKeys
<1>5. CASE Signal \/ Handle \/ Quit \/ Wake
  BY <1>5 DEF Signal, Handle, Quit, Wake
<1>6. CASE ServerBinds \/ OwnTries \/ OwnShoots
  BY <1>6 DEF ServerBinds, OwnTries, OwnShoots
<1>7. CASE PeerStep
  BY <1>7 DEF PeerStep, PeerConnects, PeerIsServed, PeerStreamEnds, PeerLeaves
<1>8. CASE LoopStep
  BY <1>8 DEF LoopStep, LoopChecks, LoopGrabs, LoopWrites
<1>9. CASE UNCHANGED agentVars
  BY <1>9 DEF agentVars
<1> QED
  BY <1>1, <1>2, <1>3, <1>4, <1>5, <1>6, <1>7, <1>8, <1>9 DEF AgentNext, MainStep

LEMMA FlagsStep ==
  ASSUME AgentTypeOK, [AgentNext]_agentVars
  PROVE  /\ running' \in BOOLEAN /\ signalled' \in BOOLEAN /\ shutdown' \in BOOLEAN
         /\ missed' \in BOOLEAN
         /\ is_streaming' \in BOOLEAN /\ keys' \in BOOLEAN /\ receiver' \in BOOLEAN
         /\ announced' \in BOOLEAN /\ halt' \in BOOLEAN /\ screen' \in BOOLEAN
<1> USE DEF AgentTypeOK, flow, events, mainVars, serverVars, loopVars
<1>1. CASE Launch \/ StartServer \/ StartCapture \/ StartReceiver \/ StartDiscovery
  <2>1. CASE Launch
    BY <2>1, Zenon DEF Launch
  <2>2. CASE StartServer
    BY <2>2, Zenon DEF StartServer
  <2>3. CASE StartCapture
    BY <2>3, Zenon DEF StartCapture, StartLoop
  <2>4. CASE StartReceiver
    BY <2>4, Zenon DEF StartReceiver
  <2>5. CASE StartDiscovery
    BY <2>5, Zenon DEF StartDiscovery
  <2> QED
    BY <1>1, <2>1, <2>2, <2>3, <2>4, <2>5
<1>2. CASE OpenTray \/ MakeIcon \/ Ends \/ Stop
  <2>1. CASE OpenTray
    BY <2>1, Zenon DEF OpenTray
  <2>2. CASE MakeIcon
    BY <2>2, Zenon DEF MakeIcon
  <2>3. CASE Ends
    BY <2>3, Zenon DEF Ends
  <2>4. CASE Stop
    BY <2>4, Zenon DEF Stop
  <2> QED
    BY <1>2, <2>1, <2>2, <2>3, <2>4
<1>3. CASE Release \/ Hush \/ Refuse \/ Close
  BY <1>3, Zenon DEF Release, CloseScreen, Hush, Refuse, Close
<1>4. CASE Await \/ Join \/ RemoveKeys
  BY <1>4, Zenon DEF Await, Join, RemoveKeys
<1>5. CASE Signal \/ Handle \/ Quit \/ Wake
  BY <1>5, Zenon DEF Signal, Handle, Quit, Wake
<1>6. CASE ServerBinds \/ OwnTries \/ OwnShoots
  BY <1>6, Zenon DEF ServerBinds, OwnTries, OwnShoots
<1>7. CASE PeerStep
  <2>1. CASE PeerConnects
    BY <2>1, Zenon DEF PeerConnects
  <2>2. CASE PeerIsServed
    BY <2>2, Zenon DEF PeerIsServed
  <2>3. CASE PeerStreamEnds
    BY <2>3, Zenon DEF PeerStreamEnds
  <2>4. CASE PeerLeaves
    BY <2>4, Zenon DEF PeerLeaves
  <2> QED
    BY <1>7, <2>1, <2>2, <2>3, <2>4 DEF PeerStep
<1>8. CASE LoopStep
  BY <1>8, Zenon DEF LoopStep, LoopChecks, LoopGrabs, LoopWrites
<1>9. CASE UNCHANGED agentVars
  BY <1>9, Zenon DEF agentVars
<1> QED
  BY <1>1, <1>2, <1>3, <1>4, <1>5, <1>6, <1>7, <1>8, <1>9 DEF AgentNext, MainStep

LEMMA AgentTypeStep ==
  ASSUME AgentTypeOK, [AgentNext]_agentVars
  PROVE  AgentTypeOK'
  BY PlacesStep, FlagsStep DEF AgentTypeOK

LEMMA OrderStep ==
  ASSUME AgentTypeOK, OrderInv, [AgentNext]_agentVars
  PROVE  OrderInv'
<1> USE DEF OrderInv, Closing, AgentTypeOK, Goto, flow, events, mainVars, serverVars, loopVars
<1>1. CASE Launch \/ StartServer \/ StartCapture \/ StartReceiver \/ StartDiscovery
  BY <1>1 DEF Launch, StartServer, StartCapture, StartReceiver, StartDiscovery
<1>2. CASE OpenTray \/ MakeIcon \/ Ends \/ Stop
  BY <1>2 DEF OpenTray, MakeIcon, Ends, Stop
<1>3. CASE Release \/ Hush \/ Refuse \/ Close
  BY <1>3 DEF Release, Hush, Refuse, Close
<1>4. CASE Await \/ Join \/ RemoveKeys
  BY <1>4 DEF Await, Join, RemoveKeys
<1>5. CASE \/ Signal \/ Handle \/ Quit \/ Wake \/ ServerBinds \/ PeerStep
           \/ OwnTries \/ OwnShoots \/ LoopStep
  BY <1>5, OtherThreads
<1>6. CASE UNCHANGED agentVars
  BY <1>6 DEF agentVars
<1> QED
  BY <1>1, <1>2, <1>3, <1>4, <1>5, <1>6 DEF AgentNext, MainStep

LEMMA ScreenStep ==
  ASSUME AgentTypeOK, OrderInv, ScreenInv, [AgentNext]_agentVars
  PROVE  ScreenInv'
<1> USE DEF ScreenInv, Closing, Goto, flow, events, mainVars, serverVars, loopVars
<1>1. CASE Launch \/ StartServer \/ StartCapture \/ StartReceiver \/ StartDiscovery
  BY <1>1 DEF Launch, StartServer, StartCapture, StartReceiver, StartDiscovery
<1>2. CASE OpenTray \/ MakeIcon \/ Ends
  BY <1>2 DEF OpenTray, MakeIcon, Ends
(* stop() does nothing only if start() has not come to its end.            *)
<1>3. CASE Stop
  BY <1>3 DEF Stop, OrderInv
<1>4. CASE Release
  BY <1>4 DEF Release, CloseScreen, AgentTypeOK, PlacesOK
<1>5. CASE Hush \/ Refuse \/ Close \/ Await \/ Join \/ RemoveKeys
  BY <1>5 DEF Hush, Refuse, Close, Await, Join, RemoveKeys
<1>6. CASE \/ Signal \/ Handle \/ Quit \/ Wake \/ ServerBinds \/ PeerStep
           \/ OwnTries \/ OwnShoots
  <2>1. UNCHANGED <<loop, screen>>
    BY <1>6 DEF Signal, Handle, Quit, Wake, ServerBinds, PeerStep, PeerConnects,
                PeerIsServed, PeerStreamEnds, PeerLeaves, OwnTries, OwnShoots
  <2> QED
    BY <1>6, <2>1, OtherThreads
<1>7. CASE LoopStep
  <2>1. loop \notin {"none", "ended"} /\ UNCHANGED <<main, slow>>
    BY <1>7 DEF LoopStep, LoopChecks, LoopGrabs, LoopWrites
  <2> QED
    BY <2>1
<1>8. CASE UNCHANGED agentVars
  BY <1>8 DEF agentVars
<1> QED
  BY <1>1, <1>2, <1>3, <1>4, <1>5, <1>6, <1>7, <1>8 DEF AgentNext, MainStep

THEOREM AgentInductive == AgentSpec => []AgentInv
<1>1. AgentInv /\ [AgentNext]_agentVars => AgentInv'
  BY AgentTypeStep, OrderStep, ScreenStep DEF AgentInv
<1> QED
  BY <1>1, AgentStart, PTL DEF AgentSpec

(* Types of the companion, on any machine.                                 *)
THEOREM AgentTypeCorrect == AgentSpec => []AgentTypeOK
  BY AgentInductive, PTL DEF AgentInv

(* Whatever start() did before, and wherever its threads are, a stop()     *)
(* that did its work leaves no record, receiver, key file or stream, and   *)
(* no open screen unless a grab outlasted the wait (agent.py 227-270).     *)
THEOREM StopLeavesNothing == AgentSpec => []NothingLeft
<1>1. AgentInv => NothingLeft
  BY DEF AgentInv, OrderInv, ScreenInv, Closing, NothingLeft
<1> QED
  BY <1>1, AgentInductive, PTL

=============================================================================
