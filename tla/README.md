# Formal models of Pardus Paylaşım

Pardus Paylaşım is a local-network sharing application: it sends files between
machines, streams a screen to a viewer that knows a PIN, and lets a viewer
control the host. This directory holds TLA+ models of the parts whose
correctness depends on the order in which threads, connections, timeouts and
crashes happen, the TLC runs that check them on small instances, and proofs that
the most important properties hold for every value of the constants.

Paths below are relative to `src/src/pardus_paylasim/` unless they start with
`src/`.

## 1. The system and its parts

| part | state it keeps | operations | how it meets the others | what is hard |
|---|---|---|---|---|
| File sender, `discovery/transfer.py` `FileSender` | none between files | `send_file` in four modes (normal, secret, hashed, resume), `send_files`, `send_folder` | TLS connection to the receiver; called by the window's transfer threads, by the classroom and by the queue | source changes while it is read, 10 s timeouts, cancel, retry |
| File receiver, `FileReceiverServer` | `.part` and sidecar files, temporary files, final files, listener | `start`, `stop`, accept loop, a handler thread per connection | asks the window (`on_file_request`, PIN callback), tells it (`on_file_received`), writes the history | several handlers on one directory, crashes between write, record and move |
| PIN pairing, `screen/pairing.py` `ScreenPairingManager` | pending PINs, failure counters, lockouts | `generate_pin_for_request`, `verify_pin`, `revoke_pin` | routes `/request_pin`, `/auth`, files | expiry, lockout and clean-up interleaved by request threads |
| Sessions, `SessionManager` | token table | `create_session`, `verify_token`, `get_session_details` | `/auth`, `_check_auth`, `/control` | creation after the PIN's lock is released |
| Remote control, `screen/control_server.py` | host switch, token ledger, one thread per channel | `set_allowed`, `grant`, `revoke`, `validate`, `handle_upgrade`, `_serve` | window's switch, sessions, history, input injection | switch moved during an upgrade, several channels of one session |
| Stream server, `screen/stream_server.py` | HTTP thread, capture thread, child process, current frame, TLS files | `start_server`, `stop_server`, routes | owns pairing, sessions and control | start and stop racing the threads they start and stop |
| Asynchronous queue, `discovery/async_transfer/manager.py` | SQLite table of transfers | queue, check pending, mark | sender | check and mark in separate steps, deduplication |
| Mesh transfer, `discovery/mesh/` | jobs and received chunks, peers | offer, chunk, completion, peers found and entered | mDNS, the window's mesh switch | handler threads that overtake each other, a node replaced under them |
| Data channel, `screen/webrtc/data_channel.py` | send queue, fragment table | framing, send and receive loops, close | a peer of its own kind | timeouts in the middle of a frame, eviction |
| Questions and trust, `auth/trust_store.py`, `window.py` 1128-1246, 3036-3094 | trusted devices in a JSON file, a setting, open dialogs | pair, untrust, ask, answer, time out | asked by the receiver's handlers | a file read and written in steps that fail, answers that come late |
| Host page, `window.py` 3178-3208, 3455-3567 | switch, banner, main thread | consent, kill switch, start and stop the server, close | the control channel and its server | permission and display are two statements; the main thread waits for channels |
| Viewer, `screen/stream_client.py`, `control_client.py`, `ui/screen_share_view.py`, `window.py` 3238-3653 | connection, slot of the last frame, control channel | connect, draw, disconnect, request and release control, input | a host; the main thread's queue | results of threads that overlap clicks |
| Sending desk, `window.py` 1751-1773, 2525-2860, `history.py`, `cleaner/`, `ui/privacy_view.py` | jobs, cancel flag, copies, history | send files, folders, secrets to one or all, clean, cancel | `FileSender`, MAT2 | cancellation, partial failure, two jobs over one file |
| Discovery, `discovery/device_manager.py`, `mdns_discovery.py`, `ble_discovery.py` | device table, scan process | announce, browse, scan, manual entry | library threads call in, the window draws | copies handed over out of order, a restart under a scan thread |
| Rendezvous, `src/src/pardus_paylasim_server/router.py`, `discovery/rendezvous_client.py` | table from code to socket | register, relay | remote machines | closed sockets, double registration |
| Agent, `src/src/pardus_paylasim_agent/` | the parts it started, tray icon | `main`, `start`, `stop` | all servers | signals during the start, a grab that outlasts the stop |
| Classroom, quiz, clipboard sync, web viewer | rosters, answers | fan-out, collect | file sender | partial failure |
| Rest of the window, `window.py`, `ui/` | GTK state, notifications | user actions, dialogs | everything | callbacks from threads |
| Leaf parts: `health.py`, `progress.py`, `net_util.py`, `qr_pairing.py`, `wol.py`, `tls_util.py`, `fs_server.py`, `stream_config.py`, `control_protocol.py`, `input_inject.py`, `clipboard/`, configuration, logging | files or nothing | pure functions and I/O | called by the above | little |

What makes each of the core parts correct:

- **Resumable transfer.** Bytes arrive once and in order whatever is cut, crashes
  or changes; a final name is never written again; an ACK means that the
  receiver has the file; retries get there.
- **Receiver.** An ACK means that the file was published whole; temporary files
  have owners; the history tells the truth; a published file is not lost; every
  connection ends; the accept loop goes on.
- **PIN and sessions.** Wrong PINs are limited per unit of time; a PIN opens one
  session, for its own client, in its lifetime.
- **Remote control.** No token without a channel or against the switch; sessions
  do not disturb each other; every control is recorded from start to stop; a
  granted client can control.
- **Stream server.** Capture threads, child processes, the port and the key files
  each have one owner; a backend that works is kept; `stop_server` frees the
  threads it waits for, returns, and leaves nothing behind.
- **Asynchronous queue.** A transfer is handed over at most once, to its receiver,
  and not after it was withdrawn; what waits is handed over when the receiver
  comes.
- **Questions and trust.** Nothing is stored that neither an answer in time nor a
  trust the user can see let in.
- **Host page.** Nobody controls the machine while the page does not say so.
- **Viewer.** The last frame of the right host is drawn; no channel is out of
  reach; window, channel and history agree once all is quiet.
- **Sending desk.** The history tells what every device got; what was to be clean
  is clean, unless its cleaning failed in a way the code lets pass; copies go; Cancel begins nothing more.
- **Discovery, mesh, data channel.** What was found is shown; a file offered once
  is handed over once and whole; messages arrive in order, and only those that a
  timeout tore are missing.
- **Agent.** An orderly stop leaves no record, receiver, key file or open screen, and a
  signal ends the process, unless one of four named waits holds it for ever.

`PROJECT.json` lists every part with its status, and under `hazards` the lines
at which each of these can go wrong.

## 2. The modules

Each component is one module, parameterised by constants with named
assumptions; an `MC` module gives TLC its instances, and a `_proofs` module
extends the component with its theorems. Where one component is over another, or
next to it, one module proves both; the names of `ControlHost`, `MeshTransfer`,
`Discovery`, `Agent` and `DataChannel` that every module has (`Init`, `Next`, `Spec`,
`TypeOK`, `vars`) carry the component's name for that.

| module | models | run | proofs |
|---|---|---|---|
| `ResumeTransfer` | `transfer.py` 283-329 and 579-735: mode 0x03, both ends | `ResumeTransfer` | `FileConsent_proofs` |
| `FileConsent`, over `ResumeTransfer` | the window that is asked about files, and its trust file | `ResumeTransfer` | `FileConsent_proofs` |
| `FileReceiver` | `transfer.py` 140-281, 331-577, 737-818: the other modes, batches, accept loop, `stop` | `FileReceiver` | `FileReceiver_proofs` |
| `ScreenAccess` | `pairing.py` and the routes that call it | `ScreenAccess` | `ScreenAccess_proofs` |
| `ControlChannel` | `control_server.py` 295-651 | `ControlChannel` | `ControlHost_proofs` |
| `ControlHost`, over `ControlChannel` | the host's page and its main thread | `ControlChannel` | `ControlHost_proofs` |
| `CaptureLifecycle` | `stream_server.py` 596-1056 and the streams of 244-275, with the window's button (`window.py` 3178-3208) | `CaptureLifecycle` | `CaptureLifecycle_proofs` |
| `AsyncQueue` | `async_transfer/manager.py` | `AsyncQueue` | `AsyncQueue_proofs` |
| `OnceQueue` | what `AsyncQueue` promises: an abstract queue | `AsyncQueue` (as a property) | `AsyncQueue_proofs` |
| `DataChannel` | `data_channel.py` 85-302 | `DataChannel` | `FileReceiver_proofs` |
| `MeshTransfer` | `mesh_network.py`, `mesh/mdns.py`, the window's mesh page | `MeshTransfer` | `AsyncQueue_proofs` |
| `Discovery` | `device_manager.py`, `mdns_discovery.py`, `ble_discovery.py` | `Discovery` | `Desk_proofs` |
| `Viewer` | `stream_client.py`, `control_client.py`, `ui/screen_share_view.py`, the viewer's page | `Viewer` | `Viewer_proofs` |
| `Desk` | the sending jobs, `metadata_cleaner.py`, `history.py` | `Desk` | `Desk_proofs` |
| `Agent` | `src/src/pardus_paylasim_agent/` | `Agent` | `CaptureLifecycle_proofs` |

A definition whose comment starts with "Mutant" is a deliberately wrong form of
the definition after it. No specification uses it; it is there to show that the
property it is paired with in `PROJECT.json` fails when the code goes wrong in
that way.

### ResumeTransfer

State: the sender (`spc`, the version it announced `hver`, the version it opened
`over`, its position `sidx`), the connection (`inflight`, `offer`, `verdict`),
the handler thread (`rpc`, `recvd`, its open file `ino`, its writer's buffer
`buf`, the name it picked `target`) and the receiver's disk (`content` of every
file ever created, `partIno`, `finals`, `sidecar`). Files are sequences of blocks
`<<version, index>>`, so that a repeated, missing or foreign block is visible.

Each statement that changes the disk is a step of its own: the handler of
`_handle_resume` is `OpenPart`, `MarkProgress`, `RecvBlock`, `ClosePart`,
`MarkTotal`, `PickName`, `MovePart`, `UnlinkSidecar`, `SendAck`, `Notify`, with
`AbortRecv` for its exception path. `Crash` can fall between any two; it loses
the writer's buffer and keeps what the kernel was given. A block is
`RESUME_IO_CHUNK` bytes; a chunk that is cut in its middle is lost as a whole,
because `recv_exact` returns nothing of it. The last chunk may be shorter than
the writer's buffer, so it may stay there until `close`.

### FileReceiver

State: senders that go through a batch (`spc`, `file`, `tries`, `cur`),
connections (`desc`, `sent`, `ended`, `net`), the accept loop (`running`,
`accepting`), handlers (`hpc`, `rcvd`, `target`, `reply`) and the directory
(`temps`, `finals`). The history variables `acked`, `published` and `since` are
read by properties only.

`Accept` and `Handshake` are two steps because the *listening* socket is wrapped
in TLS (line 417), so that the handshake happens inside `accept()`. `Pick` and
`Move` are two steps because the name is looked up and replaced in two system
calls. Secret and hashed bodies share the actions of the normal body: they
differ in when an error is found (`RecvFails`) and in what a complete body
implies (`Verified`). `Lose` is a network that goes silent; a reset is a
`SendFails` of the peer.

### ScreenAccess

State: the three dictionaries of `ScreenPairingManager`, the session table, a
clock, and for each request thread whether it stands between `verify_pin` and
`create_session`. Every method holds its manager's lock, so it is one action,
its `_cleanup_expired` included. PINs and tokens are numbered in the order they
are drawn: two draws of `secrets` are taken to be different.

### ControlChannel

State: the switch and the token ledger of `ControlConsent`, the sessions that
are alive, and for each channel its thread's place in `handle_upgrade` or
`_serve`, its session, the `sid` it was granted and the `sid` of the message in
hand. A message may carry any sid ever granted. The action that looks tokens up
(`CheckToken`) uses the client's address as its key, as line 581 does. The model
ends there: no message passes.

### CaptureLifecycle

State: the caller (`hosting`, where it is in `stop_server`), the attributes of the
server (`streaming`, `httpd`, `cthread`, `gst`, `pending`, `backend`, `path`,
`tls`), and, for every call of `start_server`, the thread that runs it (`spc`),
its HTTP thread (`hpc`) and its capture thread (`cpc`, the backend `idx` it is at,
the process `rd` it reads from). Outside the program there are the bound
listeners, the living GStreamer processes, the key files and the connections of
viewers. `frames` and `clean` are histories.

The attributes belong to the object and not to a call: the threads of two calls
meet in them, and that is where things go wrong. `stop_server` is nine actions, one
per statement that reads or writes what another thread uses: `StopShutdown` and
`StopClose` read `self.httpd` each on its own. Constructing the server (`Bind`),
setting the attribute (`Assign`) and wrapping the socket (`Wrap`) are three.
`TakeStdout` is apart from the read: which process is read is decided by
`_gst_process` at that moment. The read itself ends with a frame (`ReadFrame`,
which a dead process may have left in the pipe), or with the end of the pipe
(`ReadEof`).

A *patient* caller calls `stop_server` after `start_server` has returned or raised,
as the agent and the tests do; the window runs `start_server` in a thread and may
stop at any time. Both are in the model, and each property says which it is
about. One assumption is about time: `join(timeout=2)` gives up only on a thread
that is blocked in a read or runs the screenshot tool (which has 3 s). `clean` is
true while no join has given up.

### AsyncQueue and OnceQueue

State: the table (`rows` in the order of insertion, `status`, `file`, `receiver`),
for each thread in `queue_offline` the record it is about to insert (`qid`), and
for each thread in `check_pending_for` the rest of its list (`snap`) and the
transfer it hands over (`cur`). `calls` is a history. The methods of the store hold
its lock and are one step each; those of the manager are several: the look-up by
hash and the insertion are two, so are reading the list and marking each of its
transfers, and the callback comes after the mark. `Abandon` is an exception of the
database or of the callback, `Restart` the death of the process. For a manager
without a callback, `Ready` stands for the returned list.

`OnceQueue` is the promise: `Submit`, `Take`, `Hand`, each once, and `Leave` for
what is withdrawn or lost. The mapping is in `AsyncQueue`: a transfer waits while it
is pending *or in the list of a check*. That is what makes it a refinement at all:
a cancellation that comes after the list was read does not hold, because
`mark_delivered` does not look at the status. The refinement needs one checking
thread for each receiver; two that check the same receiver hand a transfer over
twice.

### FileConsent, over ResumeTransfer

`FileConsent` extends `ResumeTransfer` and conjoins to its steps what the window
does: a handler at its header goes on only after `Ask`, which reads the trust file
and answers at once or posts a dialog, and a click (`ClickAccept`, `ClickRefuse`) or
the end of two minutes (`TimeOut`). `stale` is a dialog whose handler has gone on.
The trust file (`trusted`) is loaded anew by every use, and a file that cannot be
read is an empty one (`Loaded`); the window's changes are several steps of the main
thread (`desk`): load and change, `Save`, which may fail without being noticed,
`RefreshRows`, which draws what it reads (`rows`, or nothing: `blind`). `leave`
remembers what let a connection in. Every step is a step of `ResumeTransfer` or
leaves its variables alone (`ConsentImplementsResume`).

### ControlHost, over ControlChannel

The host's page in the same way: `main` is where the main thread is, `asking` the
consent dialog, `shown` the banner with its button. Allowing and showing are two
statements (`Consent`, `ShowControl`), so are forbidding and hiding, and upgrades
and messages go on between them. `StopServer` waits until no channel is left,
because `server_close` joins their threads.

### Viewer

One main thread with its queue of posted results (`idle`), and three kinds of
threads, numbered with the click that started them: connecting, reading the
stream, requesting or releasing control. `connected`, the slot of the last frame
(`latest`, `scheduled`) and the handler's control channel (`handler`) are shared. A
thread of an old connection that outlives the next one is in `stray`; a request
that overlaps a release or another request is in `crossed`. Both are what the
properties have to except, and both are findings.

### Desk

A job has a kind (single, multi, folder, privacy), its targets and files, and runs
in a thread through `Prepare`, the cleaner (MAT2 with its result beside the file,
native cleaning, or none), `Begin`, the blocks, and `Record`. Where the copy cannot be
made, `Prepare` sends the original, as `prepare_send_file` does for every exception;
where MAT2's result cannot be moved, `Look` leaves it beside the file and goes on to the
next cleaner. Both are remembered in `failed`, a failure of MAT2 itself and jobs that met
at a file in `doubtful`. The cancel event and
the progress bar belong to the window: a second job takes them from the first.
`got` is what a device acknowledged, `history` what was written about it.

### Discovery, MeshTransfer, DataChannel, Agent

In `Discovery` each finder enters a device under the lock, copies the table in a
second lock hold and hands the copy over in a third step, so copies cross.
`overtaken` and `late` remember the two orders in which the code goes wrong. In
`MeshTransfer` a handler thread looks its job up in one lock hold and stores the
chunk in another; nodes are replaced in between. In `DataChannel` a frame is three
cells, and a receiver that times out between two of them goes on at the next cell,
which it takes for a header; half messages are in `table`, of which the `expired`
oldest are past `FRAG_TTL` and go at the next part that comes. `Agent` runs on every set of installed packages and
tools; `launch` to `icon` are the calls of `main` and `start`, `stop` to `files`
those of `stop`; the server's own capture thread is reduced to what it does to the
shared frame and flag, which `CaptureLifecycle` has in full. A signal is two steps: it
comes (`Signal`), and the main thread runs its handler between two of its own steps
(`Handle`) - on Windows not while it waits for the event, nor in the icon's loop until
the user comes back to it (`Deaf`). `peer` stands for the clients of the stream
server: the thread of `stop` waits in `await` for a handshake inside `accept()`, and in
`handlers` for the thread of every connection. These threads are no daemons, so the
process ends (`Gone`) only with the last of them.

## 3. What the runs check

All twelve runs pass. `CHECK_DEADLOCK FALSE` is said where the system may really
stop: users, batches and bounds come to an end.

| run | distinct states | what it shows |
|---|---|---|
| `ResumeTransfer` | 688 thousand | `Aligned`: byte i of a file is at place i, through crashes, cuts, refusals and a source that changes. `DeliveredWhole`: what is announced is complete. `AckedOnDisk`: an ACK is backed by as many blocks on disk. `NothingUnasked`: nothing is stored that no answer in time and no listed trust let in. `FinalsImmutable`: final names never change. `EventuallyAcked`: retries succeed. |
| `FileReceiver` | 358 thousand | `AckedPublished`: what an ACK means. `NoStrayTemp`, `HistoryTrue`: directory and history agree with the handlers. `OverwritesOnlyInRace`: a file is replaced only by a handler that had looked before the file came. `EverythingEnds`: every wait ends. |
| `ScreenAccess` | 233 thousand | `GuessRate`: `MaxFails + 1` wrong PINs in a row span a lockout. `OneSessionPerPin`. `AcceptsProperly`: newest PIN, own client, in time, once, unlocked. |
| `ControlChannel` | 217 thousand | `NoOrphanToken`, `KillSwitchDrops`: tokens against channels and switch. `SeenWhileHeld`: no token behind the user's back. `StopsAreRecorded`: the history has the start and the stop of every granted channel whose client leaves. |
| `CaptureLifecycle` | 129 thousand | `OneReader`: the shared attributes have one capture thread. `ListenerKnown`: the port has an owner. `CaptureEnds`, `StopEnds`: the capture threads and `stop_server` end, the latter unless a client keeps its connection. |
| `AsyncQueue` | 141 thousand | `HandedOnce`: the manager implements `OnceQueue`. `WaitingEnds`: nothing waits for ever for a receiver that keeps coming. |
| `DataChannel` | 990 thousand | `InOrder`: what arrives was sent, whole, in order and once. `DeliveredUnlessHarmed`: a message of which no timeout took a byte arrives. |
| `MeshTransfer` | 246 thousand | `OneOfferIsExact`: a single offer calls back at most once, with the whole file. `CompleteWhenAllHere`: a job with all its chunks completes. |
| `Discovery` | 671 thousand | `ShownUnlessOvertaken`: in quiet the window shows the table, unless the last copy was overtaken. `StrayScanIsLate`: only a thread that came late leaves a scan process. |
| `Viewer` | 912 thousand | `LastFrameIsDrawn`, `PictureIsCurrent`: the slot and its flag lose no frame, and show no other host's. `ChannelInReach`: no open channel is lost. `WindowAgrees`: window, handler, history and what is held down. |
| `Desk` | 2507 thousand | `HistoryTells`, `SentClean`, `CopiesRemoved`, `CancelStops`: as in section 1. |
| `Agent` | 221 thousand | `NothingLeft`, `SignalStops`: as in section 1. |

The invariants that are proved for all instances and not among these (`TypeOK` of
the proved modules, `AckedUnchanged`, `TokenKept`, `JoinFindsThreadFree`,
`KeyFilesOwned`, `FallsBackOnlyBlank`, `CalledProperly`) are not run again.

Where the code does something else than a comment, a docstring or a text of the
window says, `findings` of `PROJECT.json` quotes the line. The properties state what
the code keeps, and their exceptions are named: overlapping connections in
`ResumeTransfer` (one slot), `Keeps` and `NeverServed` in `CaptureLifecycle`, `stray`
and `crossed` in `Viewer`, `overtaken` and `late` in `Discovery`, `doubtful` and `failed` in
`Desk`, `slow`, `Overlooked`, `Unheard`, `Unserved` and `Kept` in `Agent`, `harmed` in `DataChannel`.

### Bounds, and why they are enough

- `ResumeTransfer`: sizes 3, 2 and 0 (a source that shrinks, an empty one), a
  sidecar record every two blocks, two blocks in flight, one device that is unknown
  or trusted at the start, and two in all of faults, refusals, time-outs and changes
  of trust. Two blocks between records let the record lag behind the disk; two
  faults let a second fault meet the state a first one left.
- `FileReceiver`: two senders of two files, of which two have the same name, in
  all three modes; two connections, so that two handlers race and a batch is cut
  at any place; one announced block, of which nought, one or two are sent; one
  lost connection. `MaxConns` bounds the attempts.
- `ScreenAccess`: lifetimes of two or three ticks in five, two failures to a
  lockout, three PINs, two addresses and two threads: a lock, a PIN and a session
  each expire while another is pending. Threads are interchangeable.
- `ControlChannel`: two channels of one session; switch, messages, starts and stops
  unbounded. A second session adds no case here: `SessionsAreSeparate` is proved.
- `CaptureLifecycle`: one GStreamer backend and the screenshot tool (so that a
  thread falls back), one viewer, two starts and stops by a patient caller and one
  by a caller that does not wait (`MaxHasty`). With two starts `StopEnds` does
  not need its exception `NeverServed`; with three it does: `self.httpd` still
  holds the closed server of the first start when the second stop calls
  `shutdown()`, the second start's server is set just before `server_close()` and
  closed unserved, and the third stop waits for it for ever.
- `AsyncQueue`: two receivers, each with its checking thread, three records of two
  contents, so that one receiver has a list while the other's changes; one thread
  that queues.
- `DataChannel`: three messages, of one frame, two parts (the most a receiver takes
  here), three (the most a sender makes) and four; a table of one, so that a second
  half message evicts the first.
- `MeshTransfer`: a file of two sizes offered twice, two nodes one after the other,
  one mDNS event that waits.
- `Discovery`: one address found by mDNS and entered by hand, one by Bluetooth, two
  starts, a machine with `bluetoothctl` or with `hcitool` only.
- `Viewer`: two connections and two requests: an old and a new one of each.
- `Desk`: two jobs out of those `MCDesk` names, which share files, devices and the
  cancel button.
- `Agent`: all 192 machines (every set of packages and tools, with and without Windows,
  for which the screenshot tools are not made), one slow grab, and one client at a
  time: the waits of `stop` are for all connections, so one that stays stands for them.

### Fairness

`FairSpec` is used where a liveness property is checked. In `ResumeTransfer` and
`FileReceiver` each sender and each handler thread is weakly fair: the operating
system schedules threads, and every socket wait has a timeout (10 s at the
sender, line 149; 30 s at the handler, lines 442 and 619), so a step is always
possible in the end. In `ResumeTransfer` the user's retry is part of the
sender's fairness: `EventuallyAcked` is about a user who tries again, and
`FairConsentSpec` adds the main loop and a user who answers the dialogs. Faults,
saves of the source, `Stop`, `Resend` and losses are never forced. In
`ControlChannel` only the channel's thread is fair; `rfile.read` has no timeout,
so `StopsAreRecorded` is about channels whose client has left. In
`CaptureLifecycle` every thread of the program is weakly fair, and so is the end of
a stream (its loop looks at `is_streaming` between two frames). `StopJoin` is
strongly fair, because the 2 s pass whether the thread is in the tool all the
time or comes back to it, and `ReadEof` is, because a dead process leaves a finite
pipe. Clicks, frames, the death of a process and what clients do are not assumed. In
`AsyncQueue` a receiver comes again and again, and the database is not locked for
ever (`MarkDelivered` is strongly fair, since `Abandon` and `Restart` may come
between any two steps). `MeshTransfer` has fair handler threads (nothing they do
blocks but a lock), and `Agent` fair threads of its own; neither assumes that
chunks come, that a signal comes or that a grab returns in time. The handler of a
signal is fair except where Windows does not let it run, the end of a stream is, and
no client is made to leave or to finish its handshake.

## 4. What is proved

For every value of the constants that satisfies the assumptions, by TLAPS:

| module | theorems |
|---|---|
| `FileConsent_proofs` | of `ResumeTransfer`: `OffsetIgnoresSidecar`; `TypeCorrect` (any number of overlapping connections); for one connection at a time `ResumeAligned`, `PublishedWhole`, `AckedIsOnDisk`, `FinalNamesImmutable`. Of `FileConsent`: `ConsentImplementsResume`, `ConsentTypeCorrect`, `NothingIsUnasked` (any number of connections); `ConsentedTransfers` (one at a time) |
| `FileReceiver_proofs` | of `FileReceiver`: `TypeCorrect`, `AckedIsPublished`, `AckedIsUnchanged`, `TempsHaveOwners`, `HistoryIsTrue`, `OverwritesAreRaces`. Of `DataChannel`: `DataTypeCorrect`, `MessagesInOrder`, `UnharmedArrive` |
| `ScreenAccess_proofs` | `TypeCorrect`, `GuessesAreLimited`, `PinsOpenOneSession`, `PinsAcceptedProperly` |
| `ControlHost_proofs` | of `ControlChannel`: `TypeCorrect`, `TokensHaveChannels`, `SwitchOffIsFinal`, `SessionsAreSeparate`. Of `ControlHost`: `HostImplementsChannel`, `HostedTokensHaveChannels`, `PageTypeCorrect`, `ControlIsShown` |
| `CaptureLifecycle_proofs` | of `CaptureLifecycle`: `TypeCorrect`, `JoinsAreFree`, `ReadersAreAlone`, `ListenersAreKnown`, `KeyFilesAreOwned`, `FallsBackProperly`. Of `Agent`: `AgentTypeCorrect`, `StopLeavesNothing` |
| `AsyncQueue_proofs` | of `AsyncQueue`: `TypeCorrect` (any threads); with one checking thread for each receiver `CallsAreProper`, `ImplementsQueue`. Of `MeshTransfer`: `MeshTypeCorrect`, `FirstOfferIsExact` |
| `Viewer_proofs` | `TypeCorrect`, `KeptFramesAreDrawn`, `PictureOfTheConnection`, `NoChannelIsLost`, `WindowAndHandlerAgree` |
| `Desk_proofs` | of `Desk`: `TypeCorrect`, `HistoryIsTrue`, `NothingAfterCancel`, `CleanIsSent`, `NoCopyStays`. Of `Discovery`: `DiscoveryTypeCorrect`, `FoundIsShown`, `StraysAreLate` |

Every proof has the same shape: an inductive invariant `IInv`, a lemma that
`Init` implies it, one lemma per group of actions that a step keeps it, and the
theorem from `IInv` by one temporal step.

- *ResumeTransfer.* `Aligned` is not inductive: that the next block goes to the
  next place needs `SlotInv`, which relates the handler's counter, its buffer and
  the length of the file it has open to the sender's position and what is in
  flight, and `SeparateInv`, which says that `.part` and the final names are
  different files. `StartOffset` enters through `OffsetIgnoresSidecar`. The
  theorems about content assume `Slots = {c}`; with two slots TLC refutes them (two
  handlers append to one `.part`).
- *FileReceiver.* `StageInv` says what each place of a handler implies for its
  counter, temporary file, name and publication; `RepliesInv` what a written
  reply implies; `SenderInv` that a connection has one sender; `NameInv` that a
  name picked in `Pick` was free then, or was taken since by a handler that
  `since` remembers.
- *ScreenAccess.* `LockInv` ties the lock to the time of the last lockout,
  `GuessInv` the counter to the recorded times of the wrong guesses: a counter
  below the threshold accounts for all guesses since the last lockout ended.
  `PendingInv` says that a pending PIN is the newest of its client and not yet
  accepted, `ThreadInv` that no two threads hold the same accepted PIN.
- *ControlChannel.* `ChannelInv` says what a channel's place implies for its
  session and sid and that sids of different channels differ; with it
  `NoOrphanToken`, `KillSwitchDrops` and `TokenKept` are inductive together.
- *CaptureLifecycle.* `BackendInv` and `StartInv` say which threads of a call may
  be where. `TurnInv` orders a patient caller: `start_server` and `stop_server` take
  turns, and streaming is off once the stop has cleared it. `ReaderInv` says that
  only the newest capture thread, the one in `_capture_thread`, is with GStreamer,
  and needs `ChildInv`: that thread reads its own process, which is dead once
  `stop_server` has terminated `_gst_process`. `FrameInv` relates `frames` to
  `_pending_backend` and `capture_backend` while no join has given up: the backend
  a thread is at is pending exactly until it delivers. `ListenInv` and `KeyInv` do the
  same for the port and the key files.
- *AsyncQueue.* `ListInv` says that what is in a list has a row, is of the list's
  receiver and has not been handed over, `MarkInv` that what is in hand or handed
  over is pending no more, `NextInv` that a record about to be inserted has no row.
  `PartsApart` follows: waiting, taken and handed are disjoint. `QueueStep` then maps
  every action: `Insert` to `Submit`, `MarkDelivered` to `Take`, `Ready` to `Hand`,
  and by `LeaveStep` the withdrawals, exceptions and restarts to `Leave`.
- *ControlHost.* Every step is `SetAllowed`, a step of a channel or of a session, or
  a stutter of `ControlChannel` (`HostImplementsChannel`), so what is proved there
  holds here. `ControlIsShown` adds that permission is given only in `Consent`, after
  which the page is at `granting`, and that every way out of it takes the permission
  away before it hides the banner: with `KillSwitchDrops` there is no token then.
- *FileConsent.* `ConsentImplementsResume` in the same way. `CInv` says that a question
  belongs to a handler at its header, so that an answer cannot be taken over by a
  later request (`AskInv`), and that the rows are those of the file unless the page is
  blind or about to be drawn (`RowsTrue`); `[]TypeOK` of `ResumeTransfer` comes through
  the refinement.
- *Viewer.* `LastFrameIsDrawn` fails to be inductive because the drawing that is
  taken may be the only one: `FrameInv` adds that the flag, too, means a queued
  drawing. `AttemptInv` and `ResultInv` say that there is one attempt to connect at
  a time, so that the result at the head of the queue is the last click's; with
  them `StrayInv` keeps the frame of an older connection from being drawn: its
  drawing is queued before the result that connects the screen again, and is
  taken while it is not connected. For control, `OverlapInv` says that a request
  nothing overlapped is the only one under way, `AnswerInv` that each request has
  one answer queued, and `HandlerInv` that while a request runs, or the window lets
  go, the channel the handler is about to forget is closed or was overlapped;
  `ChannelInReach` follows step by step. `WindowAgrees` speaks of quiet moments only,
  and `CalmInv` says what holds in between: the window believes to have no control
  while it waits or lets go, and an answer in the queue says what the handler has.
- *Desk.* `KindInv` says what a place in a job's thread implies for its kind.
  `HistInv` orders a job's files: the things `Gone` by (before the present device and
  file) are recorded, what was acknowledged lies `Before` the present place, and in a
  folder the files behind are acknowledged, so that `AfterRecord` writes "ok" exactly
  if everything came through. `CleanInv` says that the file beside the original that
  carries MAT2's name is the job's own while no other job's MAT2 is at that file
  (`Alone`), and any other job is `doubtful`; a job that took the file itself although
  MAT2 left a result is `failed`. `CancelStops` follows from where
  `begin` looks at the event (`CancelMoves`).
- *Agent.* `OrderInv` says that `main` comes to `stop` only after a whole `start` and
  leaves one part behind it at a time (`Closing`: the steps of `stop_server` come when all
  others are behind), `ScreenInv` that the loop it has joined does not
  open the screen again; `NothingLeft` is both at the last place.
- *Discovery.* `ShownUnlessOvertaken` speaks of quiet, so `CopyOfList` says what holds
  before: the newest copy that waits is of the table as it is, or some finder is about
  to copy it, and when none waits the window shows the table. `OneScan` says that,
  unless a stop came early, only the thread of the last start has yet to start its
  process, and no other process lives then.
- *MeshTransfer.* `FirstOffer`: while the file has been offered once, a chunk's index
  belongs to one handler or one stored chunk, so a chunk that is stored is new and the
  count grows by one (`DoneInv`: it passes the total once). That chunks sorted by index
  are the file needs a fact about counting: if there are as many indexes below the total
  as the total, the k-th in order is k - 1 (`RankBounds`, `RanksTaken`, `InOrderWhole`).
- *DataChannel.* What is between the ends is one sequence, `Pipe`: written cells and
  cells still to be written. `PipeInv` says that its cells come in the order of messages,
  parts and halves, and that what follows a header that was read is its body.
  `HeaderInv` ties a frame to its message: its number, and an id no other message in
  the pipe has. `GotInv` says that what was delivered is earlier than all in the pipe,
  `TableInv` that the parts of an entry are earlier too and, if a frame with the
  entry's id is to come, of that frame's message: so a part that completes an entry
  completes one message, and `InOrder` follows. `DeliveredUnlessHarmed` needs `KeptInv`:
  of a message nothing was taken from, the parts before some `n` are in one entry and
  all from `n` on are in the pipe (`Left`). Then no other message can have parts in the
  table and parts to come (`OnlyOneInParts`), so what is evicted to make room could
  not have been completed any more.

Assumptions: `SizeAssumption` and `BoundsAssumption` (ResumeTransfer), those on
sizes and batches in `FileReceiver`, on the lifetimes in `ScreenAccess`, and
`KeysAssumption` in `ControlChannel` (a client's address is never the text of a
session token), `CaptureAssumption` (the constants are numbers and sets of
Booleans), `QueueAssumption`, `ConsentAssumption`, `ViewerAssumption`
(two numbers), `ChannelAssumption` (numbers; the receiver's limit on parts is rounded
down where the sender's is rounded up), `AgentAssumption`, `DiscoveryAssumption` and `MeshAssumption` (numbers,
packages, tools and at least one version of the file) and `DeskAssumption`: lists of devices and files are not empty and name
each of them once, since the window makes them from its rows and from the file
chooser; the privacy page's list may repeat. TLC evaluates them in every run.

Only model-checked: the liveness properties (`EventuallyAcked`, `EverythingEnds`,
`StopsAreRecorded`, `CaptureEnds`, `StopEnds`, `WaitingEnds`, `CompleteWhenAllHere`,
`SignalStops`), because liveness under fairness and `ENABLED` are out of the
prover's reach. Every invariant and every action property that a run checks is
stated by a theorem.

## 5. What is not modelled

- Inside the modelled parts: a full disk (but for the copies and moves of `Desk`); the
  death of the daemon threads of `Desk` when the window quits, which leaves their
  copies; failures of the capture loop's, `discovery`'s, the receiver's and the server's
  stop in the agent, which `stop` logs (`agent.py` 222-249) and which leave the part they
  are of - `NothingLeft` is about stops that succeed; a signal that interrupts the
  `wait()` of the same event inside its lock (the methods of `Event` are taken as
  atomic); whether the loop of `pystray` lets handlers run, which is assumed
  elsewhere than on Windows; `pyperclip`, taken to be there with `pystray`; `stop()` during resumed transfers and
  the death of a receiver in the other modes (temporary files then stay for
  ever: no code removes them); `safe_target_path` and the payload limit in the
  other modes; the frames of secret mode and the cryptography; the order in which
  two PIN callbacks reach the screen; frame coding and injection of remote
  control, which no message reaches; in `CaptureLifecycle` the bytes of frames
  and their parser, the thread that reads stderr, the screenshot's temporary file; in `AsyncQueue` the
  history table and a power failure, after which SQLite may have lost the last
  commits (WAL with `synchronous=NORMAL`).
- Remote input behind the token check (`control_server.py` 579-651,
  `input_inject.py`): the token is looked up under the client's address, so no
  message passes, and a model of what follows would never take a step.
- The web viewer's JavaScript, the rendezvous server, classroom and quiz, clipboard
  sync, the WebRTC sessions around the data channel (no caller), the health
  figures, the text of reports and what is removed from which document format.
- `trust_device` and `untrust_device` of the device manager and the second layout of
  the trust file they would write: nothing calls them.
- Parts that are pure I/O, formatting or user interface: see the notes of the
  components in `PROJECT.json`.

## 6. Plan

1. An abstract channel of messages that `DataChannel` implements, and an abstract
   hand-over for `MeshTransfer`, as `OnceQueue` is for `AsyncQueue`.
2. `Agent` over `CaptureLifecycle`, in the way `ControlHost` is over `ControlChannel`.
3. The rendezvous router (double registration, sends to closed sockets), the web
   viewer's reconnection, classroom and quiz.
