--------------------------------- MODULE Desk ---------------------------------
(***************************************************************************)
(* What the window sends: the sending jobs of window.py (_start_transfer   *)
(* for one file, _start_multi_transfer for several, _start_folder_transfer *)
(* for a folder), the dialogs and the drop that start them, the clean copy *)
(* they ask of cleaner/metadata_cleaner.py before sending, and the calls   *)
(* they make of FileSender.  The privacy page cleans files in a job of its *)
(* own, with the same cleaner.  Each job has a thread; it reaches the main *)
(* thread through the queue of GLib.idle_add.  The peers, MAT2 and the     *)
(* other cleaning tools are outside.                                       *)
(***************************************************************************)
EXTENDS Integers, Sequences, FiniteSets, Functions

CONSTANTS Choices,   \* jobs the user may start: [kind, targets, files, clean]
          MaxJobs,   \* bound: jobs started
          Mat2       \* has_mat2

Jobs == 1..MaxJobs
Kinds == {"single", "multi", "folder", "privacy"}
Devices == UNION {{c.targets[i] : i \in DOMAIN c.targets} : c \in Choices}
Files == UNION {{c.files[i] : i \in DOMAIN c.files} : c \in Choices}
Unset == CHOOSE c \in Choices : TRUE

\* the rows of the device list that are selected, the files that are chosen or dropped to be
\* sent, and the files under a folder are each there once
ASSUME DeskAssumption ==
    /\ MaxJobs \in Nat /\ Mat2 \in BOOLEAN /\ Choices # {}
    /\ \A c \in Choices : /\ c.kind \in Kinds /\ c.clean \in BOOLEAN
                          /\ c.targets \in Seq(Devices) \ {<<>>}
                          /\ c.files \in Seq(Files) \ {<<>>}
                          /\ c.kind # "privacy" => IsInjective(c.targets) /\ IsInjective(c.files)
                          /\ c.kind = "single" => Len(c.files) = 1
                          /\ c.kind = "folder" => ~c.clean
                          /\ c.kind = "privacy" => c.clean /\ Len(c.targets) = 1

VARIABLES
    job,        \* what each job was asked for
    pc,         \* where its thread is
    dev, file,  \* the target and the file it is at
    risky,      \* the cleaner that is at work found a risk in the job's file
    source,     \* what send_path holds: "original", or a copy "clean" or "half" written
    copies,     \* jobs whose clean copy is in the temporary directory
    cancelled,  \* jobs whose cancel event is set
    history,    \* what each job recorded as sent
    got,        \* each job's files that peers acknowledged: <<target, file>>
    beside,     \* each file's MAT2 result, in the file's own directory
    writing,    \* jobs whose MAT2 is writing
    doubtful,   \* history: jobs whose MAT2 failed or met another's result, at this file
    failed,     \* history: jobs whose copy was not made, or MAT2's result not moved, at this file
    started,    \* number of jobs
    asking,     \* what the open file dialog will start, or "no"
    cancel,     \* the job whose event is _transfer_cancel, 0 before the first
    idle,       \* what idle_add has queued
    bar         \* the progress bar and the cancel button are shown

userVars == <<started, asking, cancel>>
jobVars  == <<job, pc, dev, file, risky, source, userVars>>
noteVars == <<doubtful, failed>>
diskVars == <<copies, beside, writing, noteVars>>
doneVars == <<history, got>>
uiVars   == <<cancelled, idle, bar>>
vars == <<jobVars, diskVars, doneVars, uiVars>>

Target(j) == job[j].targets[dev[j]]
File(j) == job[j].files[file[j]]
LastTarget(j) == dev[j] = Len(job[j].targets)
LastFile(j) == file[j] = Len(job[j].files)

Items == {<<t>> : t \in Devices} \cup (Devices \X Files)
Entries == [item : Items, status : {"ok", "error"}]

TypeOK ==
    /\ job \in [Jobs -> Choices] /\ started \in 0..MaxJobs /\ cancel \in 0..started
    /\ asking \in Kinds \cup {"no", "class"}
    /\ pc \in [Jobs -> {"none", "show", "prepare", "scan", "mat2", "look", "native", "begin",
                        "send", "hide", "done"}]
    /\ risky \in [Jobs -> BOOLEAN] /\ dev \in [Jobs -> Nat] /\ file \in [Jobs -> Nat]
    /\ \A j \in Jobs : dev[j] \in DOMAIN job[j].targets /\ file[j] \in DOMAIN job[j].files
    /\ source \in [Jobs -> {"original", "clean", "half"}]
    /\ cancelled \cup copies \cup writing \cup doubtful \cup failed \subseteq 1..started
    /\ beside \in [Files -> {"none", "clean", "half"}]
    /\ history \in [Jobs -> Seq(Entries)] /\ got \in [Jobs -> SUBSET (Devices \X Files)]
    /\ idle \in Seq({"show", "hide", "cleaned"}) /\ bar \in BOOLEAN

Init ==
    /\ job = [j \in Jobs |-> Unset] /\ pc = [j \in Jobs |-> "none"]
    /\ dev = [j \in Jobs |-> 1] /\ file = [j \in Jobs |-> 1]
    /\ source = [j \in Jobs |-> "original"] /\ risky = [j \in Jobs |-> FALSE]
    /\ started = 0 /\ asking = "no" /\ cancel = 0
    /\ copies = {} /\ writing = {} /\ doubtful = {} /\ failed = {}
    /\ beside = [f \in Files |-> "none"]
    /\ history = [j \in Jobs |-> <<>>] /\ got = [j \in Jobs |-> {}]
    /\ cancelled = {} /\ idle = <<>> /\ bar = FALSE

-----------------------------------------------------------------------------
(* The main thread.                                                        *)

\* A button opens a modal dialog, when a device has been selected before (the class needs none).
Ask(kind) ==
    /\ asking = "no" /\ started < MaxJobs /\ asking' = kind
    /\ UNCHANGED <<job, pc, dev, file, risky, source, started, cancel, diskVars, doneVars, uiVars>>

ClickNormal == Ask("multi")
ClickFolder == Ask("folder")
ClickSecret == Ask("single")
ClickDistribute == Ask("class")

\* the dialog is left, or no device with an address is selected when it answers
Dismiss ==
    /\ asking # "no" /\ asking' = "no"
    /\ UNCHANGED <<job, pc, dev, file, risky, source, started, cancel, diskVars, doneVars, uiVars>>

\* the targets are those selected now
Start(c, first) ==
    LET j == started + 1
    IN  /\ started < MaxJobs /\ started' = j /\ asking' = "no"
        /\ job' = [job EXCEPT ![j] = c] /\ pc' = [pc EXCEPT ![j] = first]
        /\ cancel' = IF c.kind = "privacy" THEN cancel ELSE j
        /\ UNCHANGED <<dev, file, risky, source, diskVars, doneVars, uiVars>>

StartSingle(c) == c.kind = "single" /\ Start(c, "show")
StartMulti(c) == c.kind = "multi" /\ Start(c, "show")
StartFolder(c) == c.kind = "folder" /\ Start(c, "show")

Answer(c) ==
    \/ asking = "single" /\ StartSingle(c)
    \/ asking \in {"multi", "class"} /\ StartMulti(c)
    \/ asking = "folder" /\ StartFolder(c)

\* files dropped on the page of devices are sent at once
Drop(c) == asking = "no" /\ StartMulti(c)

\* the privacy page: the button is off meanwhile, but a change of the list turns it on again
ClickClean(c) == asking = "no" /\ c.kind = "privacy" /\ Start(c, "prepare")

\* the button is there only while the bar is; nobody reads the event of a job that is done
ClickCancel ==
    /\ bar /\ asking = "no" /\ cancel \notin cancelled /\ pc[cancel] # "done"
    /\ cancelled' = cancelled \cup {cancel}
    /\ UNCHANGED <<jobVars, diskVars, doneVars, idle, bar>>

TurnBar ==
    /\ idle # <<>> /\ Head(idle) # "cleaned" /\ bar' = (Head(idle) = "show") /\ idle' = Tail(idle)
    /\ UNCHANGED <<jobVars, diskVars, doneVars, cancelled>>

CleaningDone ==
    /\ idle # <<>> /\ Head(idle) = "cleaned" /\ idle' = Tail(idle)
    /\ UNCHANGED <<jobVars, diskVars, doneVars, cancelled, bar>>

-----------------------------------------------------------------------------
(* A job's thread.                                                         *)

Goto(j, where) == pc' = [pc EXCEPT ![j] = where]

\* clean_file returns, and what it found is forgotten
Return(j) == Goto(j, "begin") /\ risky' = [risky EXCEPT ![j] = FALSE]

Show(j) ==
    /\ pc[j] = "show" /\ idle' = Append(idle, "show")
    /\ Goto(j, IF job[j].kind = "folder" THEN "begin" ELSE "prepare")
    /\ UNCHANGED <<job, dev, file, risky, source, userVars, diskVars, doneVars, cancelled, bar>>

\* several files: before each, the cancel event is looked at
StopsHere(j) == pc[j] = "prepare" /\ job[j].kind = "multi" /\ j \in cancelled

Leave(j) ==
    /\ StopsHere(j) /\ Goto(j, "hide")
    /\ UNCHANGED <<job, dev, file, risky, source, userVars, diskVars, doneVars, uiVars>>

Rivals(j) == {k \in Jobs \ {j} : pc[k] \in {"mat2", "look"} /\ File(k) = File(j)}

\* prepare_send_file makes the empty copy before it cleans, or cannot (the name is too long with
\* what is added to it, the directory is full or closed to the user), and the file is sent as it
\* is; the page puts its copy beside the file and keeps it
Prepare(j) ==
    /\ pc[j] = "prepare" /\ ~StopsHere(j) /\ source' = [source EXCEPT ![j] = "original"]
    /\ doubtful' = doubtful \ {j}
    /\ \/ job[j].clean /\ Goto(j, "scan") /\ failed' = failed \ {j}
          /\ copies' = IF job[j].kind = "privacy" THEN copies ELSE copies \cup {j}
       \/ ~job[j].clean /\ Goto(j, "begin") /\ UNCHANGED <<copies, failed>>
       \/ job[j].clean /\ job[j].kind # "privacy" /\ Goto(j, "begin")
          /\ failed' = failed \cup {j} /\ UNCHANGED copies
    /\ UNCHANGED <<job, dev, file, risky, userVars, beside, writing, doneVars, uiVars>>

\* clean_file begins with a look for risks, which may miss some, and calls MAT2 if it is there
Scan(j) ==
    /\ pc[j] = "scan" /\ \E r \in BOOLEAN : risky' = [risky EXCEPT ![j] = r]
    /\ IF Mat2
       THEN /\ Goto(j, "mat2")
            /\ doubtful' = doubtful \cup Rivals(j)
                  \cup (IF Rivals(j) # {} \/ beside[File(j)] # "none" THEN {j} ELSE {})
       ELSE Goto(j, "native") /\ UNCHANGED doubtful
    /\ UNCHANGED <<job, dev, file, source, userVars, copies, beside, writing, failed, doneVars,
                   uiVars>>

\* MAT2 writes beside the file, over what is there, ...
Mat2Writes(j) ==
    /\ pc[j] = "mat2" /\ j \notin writing /\ writing' = writing \cup {j}
    /\ beside' = [beside EXCEPT ![File(j)] = "half"]
    /\ UNCHANGED <<jobVars, copies, noteVars, doneVars, uiVars>>

\* ... ends, ...
Mat2Ends(j) ==
    /\ pc[j] = "mat2" /\ j \in writing /\ writing' = writing \ {j} /\ Goto(j, "look")
    /\ beside' = [beside EXCEPT ![File(j)] =
                    IF @ = "half" /\ Rivals(j) \cap writing = {} THEN "clean" ELSE @]
    /\ UNCHANGED <<job, dev, file, risky, source, userVars, copies, noteVars, doneVars, uiVars>>

\* ... or refuses the file, gives up on it, or is killed after 15 seconds, when nobody looks
\* for its result
Mat2Fails(j) ==
    /\ pc[j] = "mat2" /\ writing' = writing \ {j} /\ doubtful' = doubtful \cup {j}
    /\ Goto(j, "look") \/ Goto(j, "native")
    /\ UNCHANGED <<job, dev, file, risky, source, userVars, copies, beside, failed, doneVars,
                   uiVars>>

\* Mutant: the copy is made, and the file itself is sent.
LookAway(j) ==
    /\ pc[j] = "look" /\ UNCHANGED <<source, failed>>
    /\ \/ beside[File(j)] = "none" /\ Goto(j, "native") /\ UNCHANGED <<risky, beside>>
       \/ /\ beside[File(j)] # "none" /\ Return(j)
          /\ beside' = [beside EXCEPT ![File(j)] = "none"]
    /\ UNCHANGED <<job, dev, file, userVars, copies, writing, doubtful, doneVars, uiVars>>

\* whatever lies beside the file is taken for MAT2's result; if it cannot be moved it stays there,
\* and the next cleaner is tried
Look(j) ==
    /\ pc[j] = "look"
    /\ \/ beside[File(j)] = "none" /\ Goto(j, "native")
          /\ UNCHANGED <<risky, source, beside, failed>>
       \/ /\ beside[File(j)] # "none" /\ Return(j) /\ UNCHANGED failed
          /\ source' = [source EXCEPT ![j] = beside[File(j)]]
          /\ beside' = [beside EXCEPT ![File(j)] = "none"]
       \/ /\ beside[File(j)] # "none" /\ Goto(j, "native") /\ failed' = failed \cup {j}
          /\ UNCHANGED <<risky, source, beside>>
    /\ UNCHANGED <<job, dev, file, userVars, copies, writing, doubtful, doneVars, uiVars>>

\* ExifTool or the office cleaner writes the copy, ...
Clean(j) ==
    /\ pc[j] = "native" /\ Return(j) /\ source' = [source EXCEPT ![j] = "clean"]
    /\ UNCHANGED <<job, dev, file, userVars, diskVars, doneVars, uiVars>>

\* ... or there is none for the file: a plain copy counts as clean if no risk was found; with a
\* risk, or if the copy fails, the file is sent as it is
NoCleaner(j) ==
    /\ pc[j] = "native" /\ Return(j)
    /\ \/ ~risky[j] /\ source' = [source EXCEPT ![j] = "clean"] /\ UNCHANGED copies
       \/ copies' = copies \ {j} /\ UNCHANGED source
    /\ UNCHANGED <<job, dev, file, userVars, beside, writing, noteVars, doneVars, uiVars>>

\* the privacy page goes on with its next file
NextFile(j) ==
    /\ pc[j] = "begin" /\ job[j].kind = "privacy"
    /\ IF LastFile(j) THEN Goto(j, "hide") /\ UNCHANGED file
       ELSE Goto(j, "prepare") /\ file' = [file EXCEPT ![j] = @ + 1]
    /\ UNCHANGED <<job, dev, risky, source, userVars, diskVars, doneVars, uiVars>>

Item(j) == IF job[j].kind = "folder" THEN <<Target(j)>> ELSE <<Target(j), File(j)>>
Entry(j, status) == [item |-> Item(j), status |-> status]

\* Mutant: of the folders, only those that arrived are recorded.
RecordArrived(j, status) ==
    history' = IF job[j].kind = "folder" /\ status = "error" THEN history
               ELSE [history EXCEPT ![j] = Append(@, Entry(j, status))]

Record(j, status) == history' = [history EXCEPT ![j] = Append(@, Entry(j, status))]

Place(d, f, where) == [dev |-> d, file |-> f, pc |-> where]

\* one file: its copy serves every device
AfterFile(j) ==
    IF LastTarget(j) THEN Place(dev[j], 1, "hide") ELSE Place(dev[j] + 1, 1, "begin")

\* several files: the next file for the device, copied again, then the next device
AfterFiles(j) ==
    IF ~LastFile(j) THEN Place(dev[j], file[j] + 1, "prepare")
    ELSE IF ~LastTarget(j) THEN Place(dev[j] + 1, 1, "prepare") ELSE Place(dev[j], 1, "hide")

\* a folder: the next device, after a look at the cancel event
AfterFolder(j) ==
    IF LastTarget(j) THEN Place(dev[j], 1, "hide")
    ELSE Place(dev[j] + 1, 1, IF j \in cancelled THEN "hide" ELSE "begin")

AfterRecord(j) == CASE job[j].kind = "single" -> AfterFile(j)
                    [] job[j].kind = "multi"  -> AfterFiles(j)
                    [] OTHER -> AfterFolder(j)

GoOn(j) ==
    /\ dev' = [dev EXCEPT ![j] = AfterRecord(j).dev]
    /\ file' = [file EXCEPT ![j] = AfterRecord(j).file] /\ Goto(j, AfterRecord(j).pc)

\* Mutant: the copy outlives a failure.
AfterKeepsCopy(j, status) ==
    /\ GoOn(j)
    /\ copies' = IF pc'[j] = "begin" \/ status = "error" THEN copies ELSE copies \ {j}

\* finally: the copy is removed when the thread leaves what it was made for
After(j, status) ==
    /\ GoOn(j) /\ copies' = IF pc'[j] = "begin" THEN copies ELSE copies \ {j}

Fails(j) ==
    /\ Record(j, "error") /\ After(j, "error")
    /\ UNCHANGED <<job, risky, source, userVars, beside, writing, noteVars, got, uiVars>>

\* Mutant: send_file connects without a look at the cancel event.
BeginBlindly(j) ==
    /\ pc[j] = "begin" /\ job[j].kind # "privacy" /\ Goto(j, "send")
    /\ UNCHANGED <<job, dev, file, risky, source, userVars, diskVars, doneVars, uiVars>>

\* send_file, from its first look at the cancel event to the header
Begin(j) ==
    /\ pc[j] = "begin" /\ job[j].kind # "privacy" /\ j \notin cancelled /\ Goto(j, "send")
    /\ UNCHANGED <<job, dev, file, risky, source, userVars, diskVars, doneVars, uiVars>>

\* cancelled, or a peer that does not answer, refuses the file or hangs up
Abort(j) == pc[j] \in {"begin", "send"} /\ job[j].kind # "privacy" /\ Fails(j)

\* the peer acknowledges; after the last block the cancel event no longer counts
Acked(j) ==
    /\ pc[j] = "send"
    /\ got' = [got EXCEPT ![j] = @ \cup {<<Target(j), File(j)>>}]
    /\ IF job[j].kind = "folder" /\ ~LastFile(j)
       THEN /\ file' = [file EXCEPT ![j] = @ + 1] /\ Goto(j, "begin")
            /\ UNCHANGED <<dev, copies, history>>
       ELSE Record(j, "ok") /\ After(j, "ok")
    /\ UNCHANGED <<job, risky, source, userVars, beside, writing, noteVars, uiVars>>

\* what the thread knew goes with it
Hide(j) ==
    /\ pc[j] = "hide" /\ Goto(j, "done") /\ source' = [source EXCEPT ![j] = "original"]
    /\ doubtful' = doubtful \ {j} /\ failed' = failed \ {j}
    /\ idle' = Append(idle, IF job[j].kind = "privacy" THEN "cleaned" ELSE "hide")
    /\ UNCHANGED <<job, dev, file, risky, userVars, copies, beside, writing, doneVars, cancelled, bar>>

Step(j) ==
    \/ Show(j) \/ Leave(j) \/ Prepare(j) \/ Scan(j) \/ Mat2Writes(j) \/ Mat2Ends(j) \/ Mat2Fails(j)
    \/ Look(j) \/ Clean(j) \/ NoCleaner(j) \/ NextFile(j)
    \/ Begin(j) \/ Abort(j) \/ Acked(j) \/ Hide(j)

-----------------------------------------------------------------------------
Next ==
    \/ ClickNormal \/ ClickFolder \/ ClickSecret \/ ClickDistribute \/ Dismiss
    \/ \E c \in Choices : Answer(c) \/ Drop(c) \/ ClickClean(c)
    \/ ClickCancel \/ TurnBar \/ CleaningDone
    \/ \E j \in Jobs : Step(j)

Spec == Init /\ [][Next]_vars

-----------------------------------------------------------------------------
ItemsOf(j) ==
    IF job[j].kind = "folder" THEN {<<job[j].targets[i]>> : i \in DOMAIN job[j].targets}
    ELSE {<<job[j].targets[i], job[j].files[k]>> : i \in DOMAIN job[j].targets,
                                                   k \in DOMAIN job[j].files}
FilesOf(j, item) == IF job[j].kind = "folder" THEN {job[j].files[k] : k \in DOMAIN job[j].files}
                    ELSE {item[2]}
Reached(j, item) == \A f \in FilesOf(j, item) : <<item[1], f>> \in got[j]

\* The history tells what became of each file or folder for each device: one record of each
\* at most, "ok" exactly if the device acknowledged all of it, and none missing at the end of
\* a job that nobody cancelled (_record_sent, window.py 2659-2666, 2767-2774, 2841-2848).  A
\* cancelled job for a single file still records an error for every device left.
HistoryTells ==
    \A j \in 1..started :
        /\ \A i \in DOMAIN history[j] :
              /\ history[j][i].status = "ok" <=> Reached(j, history[j][i].item)
              /\ \A k \in DOMAIN history[j] : history[j][k].item = history[j][i].item => k = i
        /\ pc[j] = "done" /\ job[j].kind # "privacy"
           /\ (job[j].kind = "single" \/ j \notin cancelled)
              => {history[j][i].item : i \in DOMAIN history[j]} = ItemsOf(j)

\* After Cancel, a job's devices get at most the file that was under way: nothing is begun
\* (send_file, transfer.py 191-192, 265-266, 318-319), whatever the job does with the devices
\* and the files that are left.
CancelStops ==
    [][\A j \in cancelled : pc[j] # "send" => pc'[j] # "send" /\ got'[j] = got[j]]_vars

\* A job that asks for a clean copy sends the whole result of a cleaner.  The file as it is goes
\* out only where MAT2 is not there or failed, where the job met another's result beside the
\* file, or where its copy could not be made or the result not be moved; half a result only
\* where MAT2 gave up or jobs met (prepare_send_file and clean_file, metadata_cleaner.py
\* 238-282, 386-417).
SentClean ==
    \A j \in 1..started : pc[j] = "send" /\ job[j].clean =>
        /\ source[j] = "original" => ~Mat2 \/ j \in doubtful \cup failed
        /\ source[j] = "half" => j \in doubtful

\* However a job ends, its copy of the file in the shared temporary directory is gone
\* (window.py 2673-2678, 2775-2780; metadata_cleaner.py 411-414).
CopiesRemoved == \A j \in Jobs : pc[j] \in {"none", "hide", "done"} => j \notin copies

=============================================================================
