------------------------------ MODULE Desk_proofs ------------------------------
(***************************************************************************)
(* Proofs about Desk, for any devices, files and jobs, with MAT2 and       *)
(* without it, and about Discovery, which finds the devices, for any       *)
(* addresses and any number of starts.                                     *)
(***************************************************************************)
EXTENDS Desk, Discovery, SequenceTheorems, TLAPS

Shown == {"show", "hide", "cleaned"}

AtStart(j) == dev[j] = 1 /\ file[j] = 1 /\ history[j] = <<>> /\ got[j] = {}

(* What a place in the thread says of the job.                             *)
KindInv ==
  \A j \in Jobs :
    /\ pc[j] = "none" <=> j > started
    /\ pc[j] \in {"none", "show"} => AtStart(j)
    /\ pc[j] \in {"show", "send"} => job[j].kind # "privacy"
    /\ pc[j] = "show" => cancel # 0
    /\ pc[j] = "prepare" => job[j].kind # "folder"
    /\ pc[j] \in {"scan", "mat2", "look", "native"} => job[j].clean
    /\ job[j].kind = "privacy" => history[j] = <<>>

(* The cancel button, once it is shown, has an event to set.               *)
BarInv == bar \/ (\E i \in DOMAIN idle : idle[i] = "show") => cancel # 0

BaseInv == TypeOK /\ KindInv /\ BarInv

(* A clean copy is of a file that is being cleaned or sent.                *)
CopyInv ==
  \A j \in Jobs : j \in copies =>
    pc[j] \in {"scan", "mat2", "look", "native", "begin", "send"} /\ job[j].kind # "privacy"

(* The result that MAT2 leaves beside the file is the job's own, unless    *)
(* the job is doubtful: nobody else's MAT2 is at the file.                 *)
Alone(j) ==
  /\ Rivals(j) = {}
  /\ beside[File(j)] = IF pc[j] = "look" THEN "clean" ELSE IF j \in writing THEN "half" ELSE "none"

CleanAt(j) ==
  /\ pc[j] \in {"mat2", "look"} => Mat2 /\ (j \notin doubtful => Alone(j))
  /\ source[j] = "half" => j \in doubtful
  /\ j \in writing => pc[j] = "mat2"
  /\ pc[j] = "native" /\ Mat2 => j \in doubtful \cup failed
  /\ pc[j] \in {"begin", "send"} /\ job[j].clean /\ Mat2 /\ j \notin doubtful \cup failed
       => source[j] = "clean"

CleanInv == \A j \in Jobs : CleanAt(j)

(* A job goes through its files, or its folder, for each device; the d-th  *)
(* device and the k-th file are behind it once it has recorded them.       *)
Thing(j, d, k) == IF job[j].kind = "folder" THEN <<job[j].targets[d]>>
                  ELSE <<job[j].targets[d], job[j].files[k]>>
Before(j, d, k) == d < dev[j] \/ (d = dev[j] /\ k < file[j])
Gone(j, d, k) == d < dev[j] \/ (d = dev[j] /\ k < file[j] /\ job[j].kind # "folder")
Ended(j) == pc[j] \in {"hide", "done"}

ToldAt(j) ==
  \A i \in DOMAIN history[j] :
    /\ history[j][i].status = "ok" <=> Reached(j, history[j][i].item)
    /\ \A k \in DOMAIN history[j] : history[j][k].item = history[j][i].item => k = i
    /\ \E d \in DOMAIN job[j].targets, k \in DOMAIN job[j].files :
         history[j][i].item = Thing(j, d, k) /\ (~Ended(j) => Gone(j, d, k))

Recorded(j, thing) == \E i \in DOMAIN history[j] : history[j][i].item = thing

(* What is behind has been recorded, and nothing that is ahead has been    *)
(* acknowledged; of the folder that is under way, what is behind has.      *)
RunningAt(j) ==
  /\ \A d \in DOMAIN job[j].targets, k \in DOMAIN job[j].files :
       Gone(j, d, k) => Recorded(j, Thing(j, d, k))
  /\ \A a \in got[j] : \E d \in DOMAIN job[j].targets, k \in DOMAIN job[j].files :
       a = <<job[j].targets[d], job[j].files[k]>> /\ Before(j, d, k)
  /\ \A k \in DOMAIN job[j].files :
       job[j].kind = "folder" /\ k < file[j] => <<Target(j), job[j].files[k]>> \in got[j]

EndedAt(j) ==
  job[j].kind = "single" \/ j \notin cancelled =>
    \A d \in DOMAIN job[j].targets, k \in DOMAIN job[j].files : Recorded(j, Thing(j, d, k))

HistAt(j) == ToldAt(j) /\ (~Ended(j) => RunningAt(j)) /\ (Ended(j) => EndedAt(j))
HistInv == \A j \in Jobs : job[j].kind # "privacy" => HistAt(j)

----------------------------------------------------------------------------
(* A job                                                                   *)

LEMMA JobFacts ==
  ASSUME TypeOK, NEW j \in Jobs
  PROVE  /\ job[j] \in Choices /\ job[j].kind \in Kinds /\ job[j].clean \in BOOLEAN
         /\ job[j].targets \in Seq(Devices) /\ Len(job[j].targets) \in Nat \ {0}
         /\ job[j].files \in Seq(Files) /\ Len(job[j].files) \in Nat \ {0}
         /\ DOMAIN job[j].targets = 1..Len(job[j].targets) /\ dev[j] \in DOMAIN job[j].targets
         /\ DOMAIN job[j].files = 1..Len(job[j].files) /\ file[j] \in DOMAIN job[j].files
         /\ Target(j) \in Devices /\ File(j) \in Files
<1>1. job[j] \in Choices /\ dev[j] \in DOMAIN job[j].targets /\ file[j] \in DOMAIN job[j].files
  BY DEF TypeOK
<1>2. /\ job[j].kind \in Kinds /\ job[j].clean \in BOOLEAN
      /\ job[j].targets \in Seq(Devices) \ {<<>>} /\ job[j].files \in Seq(Files) \ {<<>>}
  BY <1>1, DeskAssumption
<1>3. /\ Len(job[j].targets) \in Nat \ {0} /\ DOMAIN job[j].targets = 1..Len(job[j].targets)
      /\ Len(job[j].files) \in Nat \ {0} /\ DOMAIN job[j].files = 1..Len(job[j].files)
  BY <1>2, EmptySeq, LenProperties
<1>4. Target(j) \in Devices /\ File(j) \in Files
  BY <1>1, <1>2, <1>3 DEF Target, File
<1> QED
  BY <1>1, <1>2, <1>3, <1>4

(* Where a job is once it has recorded a file or a folder.                 *)
LEMMA Places ==
  ASSUME TypeOK, NEW j \in Jobs, job[j].kind # "privacy", NEW p, p = AfterRecord(j)
  PROVE  \/ /\ p.pc = "hide" /\ p.dev = dev[j] /\ p.file = 1 /\ LastTarget(j)
            /\ job[j].kind = "multi" => LastFile(j)
         \/ /\ p.pc = "hide" /\ p.dev = dev[j] + 1 /\ p.file = 1 /\ ~LastTarget(j)
            /\ job[j].kind = "folder" /\ j \in cancelled
         \/ /\ p.pc = "begin" /\ p.dev = dev[j] + 1 /\ p.file = 1 /\ ~LastTarget(j)
            /\ job[j].kind \in {"single", "folder"}
         \/ /\ p.pc = "prepare" /\ p.dev = dev[j] /\ p.file = file[j] + 1 /\ ~LastFile(j)
            /\ job[j].kind = "multi"
         \/ /\ p.pc = "prepare" /\ p.dev = dev[j] + 1 /\ p.file = 1 /\ ~LastTarget(j)
            /\ job[j].kind = "multi" /\ LastFile(j)
<1>1. CASE job[j].kind = "single"
  BY <1>1 DEF AfterRecord, AfterFile, Place
<1>2. CASE job[j].kind = "multi"
  BY <1>2 DEF AfterRecord, AfterFiles, Place
<1>3. CASE job[j].kind = "folder"
  BY <1>3 DEF AfterRecord, AfterFolder, Place
<1> QED
  BY <1>1, <1>2, <1>3, JobFacts DEF Kinds

LEMMA PlaceTypes ==
  ASSUME TypeOK, NEW j \in Jobs, job[j].kind # "privacy", NEW p, p = AfterRecord(j)
  PROVE  /\ p.dev \in DOMAIN job[j].targets /\ p.file \in DOMAIN job[j].files
         /\ p.pc \in {"prepare", "begin", "hide"}
         /\ p.pc = "prepare" => job[j].kind = "multi"
<1>1. dev[j] + 1 \in DOMAIN job[j].targets \/ LastTarget(j)
  BY JobFacts DEF LastTarget
<1>2. file[j] + 1 \in DOMAIN job[j].files \/ LastFile(j)
  BY JobFacts DEF LastFile
<1>3. 1 \in DOMAIN job[j].files /\ dev[j] \in DOMAIN job[j].targets
  BY JobFacts
<1> QED
  BY <1>1, <1>2, <1>3, Places

----------------------------------------------------------------------------
(* What the steps leave alone                                              *)

(* A step of the window that starts no job.                                *)
Window == ClickNormal \/ ClickFolder \/ ClickSecret \/ ClickDistribute \/ Dismiss
          \/ ClickCancel \/ TurnBar \/ CleaningDone

LEMMA WindowMoves ==
  ASSUME Window
  PROVE  /\ UNCHANGED <<job, pc, dev, file, source, started, cancel>>
         /\ UNCHANGED <<copies, beside, writing, doubtful, failed, history, got>>
  BY DEF Window, ClickNormal, ClickFolder, ClickSecret, ClickDistribute, Ask, Dismiss, ClickCancel,
         TurnBar, CleaningDone, jobVars, userVars, diskVars, noteVars, doneVars

LEMMA StartMoves ==
  ASSUME NEW c \in Choices, Answer(c) \/ Drop(c) \/ ClickClean(c)
  PROVE  \E first \in {"show", "prepare"} :
           /\ Start(c, first) /\ (first = "show" <=> c.kind # "privacy")
  BY DEF Answer, Drop, ClickClean, StartSingle, StartMulti, StartFolder

LEMMA SomeStep ==
  ASSUME [Next]_vars
  PROVE  \/ Window \/ UNCHANGED vars
         \/ \E c \in Choices, first \in {"show", "prepare"} :
              Start(c, first) /\ (first = "show" <=> c.kind # "privacy")
         \/ \E j \in Jobs : Step(j)
  BY StartMoves DEF Next, Window

(* A step of a job's thread changes nothing of another job.                *)
Other(k) ==
  /\ pc'[k] = pc[k] /\ dev'[k] = dev[k] /\ file'[k] = file[k] /\ source'[k] = source[k]
  /\ history'[k] = history[k] /\ got'[k] = got[k]
  /\ k \in copies' <=> k \in copies
  /\ k \in writing' <=> k \in writing
  /\ k \in failed' <=> k \in failed

LEMMA OtherJobs ==
  ASSUME TypeOK, NEW j \in Jobs, Step(j)
  PROVE  /\ UNCHANGED <<job, started, asking, cancel, cancelled, bar>>
         /\ \A k \in Jobs \ {j} : Other(k)
<1> USE DEF Other, Goto, Return, TypeOK, userVars, diskVars, noteVars, doneVars, uiVars
<1>1. CASE Show(j)
  BY <1>1 DEF Show
<1>2. CASE Leave(j)
  BY <1>2 DEF Leave
<1>3. CASE Prepare(j)
  BY <1>3 DEF Prepare
<1>4. CASE Scan(j)
  BY <1>4 DEF Scan
<1>5. CASE Mat2Writes(j)
  BY <1>5 DEF Mat2Writes, jobVars
<1>6. CASE Mat2Ends(j)
  BY <1>6 DEF Mat2Ends
<1>7. CASE Mat2Fails(j)
  BY <1>7 DEF Mat2Fails
<1>8. CASE Look(j)
  BY <1>8 DEF Look
<1>9. CASE Clean(j)
  BY <1>9 DEF Clean
<1>10. CASE NoCleaner(j)
  BY <1>10 DEF NoCleaner
<1>11. CASE NextFile(j)
  <2>1. \A k \in Jobs \ {j} : file'[k] = file[k] /\ pc'[k] = pc[k]
    BY <1>11 DEF NextFile
  <2>2. UNCHANGED <<dev, source, copies, writing, failed, history, got>>
    BY <1>11 DEF NextFile
  <2>3. UNCHANGED <<job, started, asking, cancel, cancelled, bar>>
    BY <1>11 DEF NextFile
  <2> QED
    BY <2>1, <2>2, <2>3
<1>12. CASE Begin(j)
  BY <1>12 DEF Begin
<1>13. CASE Abort(j)
  BY <1>13 DEF Abort, Fails, Record, After, GoOn
<1>14. CASE Acked(j)
  <2>1. /\ UNCHANGED <<job, started, asking, cancel, cancelled, bar, source, writing, failed>>
        /\ \A k \in Jobs \ {j} : got'[k] = got[k]
    BY <1>14 DEF Acked
  <2>2. \A k \in Jobs \ {j} : /\ pc'[k] = pc[k] /\ dev'[k] = dev[k] /\ file'[k] = file[k]
                              /\ history'[k] = history[k]
    BY <1>14 DEF Acked, Record, After, GoOn
  <2>3. \A k \in Jobs \ {j} : k \in copies' <=> k \in copies
    BY <1>14 DEF Acked, After
  <2> QED
    BY <2>1, <2>2, <2>3
<1>15. CASE Hide(j)
  BY <1>15 DEF Hide
<1> QED
  BY <1>1, <1>2, <1>3, <1>4, <1>5, <1>6, <1>7, <1>8, <1>9, <1>10, <1>11, <1>12, <1>13, <1>14,
     <1>15 DEF Step

(* A job records what became of a file or a folder, and goes on.           *)
Finishes(j, status) ==
  /\ job[j].kind # "privacy" /\ pc[j] \in {"begin", "send"}
  /\ status \in {"ok", "error"} /\ (status = "ok" => pc[j] = "send")
  /\ status = "ok" /\ job[j].kind = "folder" => LastFile(j)
  /\ got' = IF status = "ok" THEN [got EXCEPT ![j] = @ \cup {<<Target(j), File(j)>>}] ELSE got
  /\ Record(j, status) /\ After(j, status)
  /\ UNCHANGED <<job, risky, source, userVars, beside, writing, noteVars, uiVars>>

LEMMA Finishing ==
  ASSUME TypeOK, NEW j \in Jobs, NEW status, Finishes(j, status)
  PROVE  /\ dev' = [dev EXCEPT ![j] = AfterRecord(j).dev]
         /\ file' = [file EXCEPT ![j] = AfterRecord(j).file]
         /\ pc' = [pc EXCEPT ![j] = AfterRecord(j).pc]
         /\ history' = [history EXCEPT ![j] = Append(@, Entry(j, status))]
         /\ Entry(j, status) \in Entries
<1>1. Item(j) \in Items
  BY JobFacts DEF Item, Items
<1> QED
  BY <1>1 DEF Finishes, Record, After, GoOn, Goto, Entry, Entries

LEMMA FinishTypes ==
  ASSUME TypeOK, NEW j \in Jobs, NEW status, Finishes(j, status)
  PROVE  TypeOK'
<1> DEFINE p == AfterRecord(j)
<1>1. /\ p.dev \in DOMAIN job[j].targets /\ p.file \in DOMAIN job[j].files
      /\ p.pc \in {"prepare", "begin", "hide"}
      /\ p.dev \in Nat /\ p.file \in Nat
  BY PlaceTypes, JobFacts DEF Finishes
<1>2. /\ dev' = [dev EXCEPT ![j] = p.dev] /\ file' = [file EXCEPT ![j] = p.file]
      /\ pc' = [pc EXCEPT ![j] = p.pc]
      /\ history' = [history EXCEPT ![j] = Append(@, Entry(j, status))]
      /\ Entry(j, status) \in Entries
  BY Finishing
<1> HIDE DEF p
<1>3. pc' \in [Jobs -> {"none", "show", "prepare", "scan", "mat2", "look", "native", "begin",
                        "send", "hide", "done"}]
  BY <1>1, <1>2 DEF TypeOK
<1>4. /\ dev' \in [Jobs -> Nat] /\ file' \in [Jobs -> Nat]
      /\ \A k \in Jobs : dev'[k] \in DOMAIN job[k].targets /\ file'[k] \in DOMAIN job[k].files
  BY <1>1, <1>2 DEF TypeOK
<1>5. history' \in [Jobs -> Seq(Entries)]
  BY <1>2 DEF TypeOK
<1>6. got' \in [Jobs -> SUBSET (Devices \X Files)]
  BY JobFacts DEF Finishes, TypeOK
<1>7. /\ UNCHANGED <<job, started, asking, cancel, risky, source, beside, writing, doubtful, failed>>
      /\ UNCHANGED <<cancelled, idle, bar>> /\ copies' \subseteq copies
  BY DEF Finishes, After, userVars, noteVars, uiVars
<1> QED
  BY <1>3, <1>4, <1>5, <1>6, <1>7 DEF TypeOK

LEMMA Finished ==
  ASSUME KindInv, NEW j \in Jobs,
         Abort(j) \/ (Acked(j) /\ ~(job[j].kind = "folder" /\ ~LastFile(j)))
  PROVE  \E status \in {"ok", "error"} : Finishes(j, status)
<1>1. CASE Abort(j)
  <2>1. Finishes(j, "error")
    BY <1>1 DEF Abort, Fails, Finishes, After
  <2> QED
    BY <2>1
<1>2. CASE Acked(j) /\ ~(job[j].kind = "folder" /\ ~LastFile(j)) /\ job[j].kind # "privacy"
  <2>1. Finishes(j, "ok")
    BY <1>2 DEF Acked, Finishes, After
  <2> QED
    BY <2>1
<1>3. Acked(j) => job[j].kind # "privacy"
  BY DEF Acked, KindInv
<1> QED
  BY <1>1, <1>2, <1>3

----------------------------------------------------------------------------
(* Types                                                                   *)

LEMMA TypeStep ==
  ASSUME BaseInv, [Next]_vars
  PROVE  TypeOK'
<1> USE DEF BaseInv
<1>1. CASE Window
  <2>1. UNCHANGED <<job, pc, dev, file, source, started, cancel>>
    BY <1>1, WindowMoves
  <2>2. UNCHANGED <<copies, beside, writing, doubtful, failed, history, got>>
    BY <1>1, WindowMoves
  <2>3. CASE ClickNormal \/ ClickFolder \/ ClickSecret \/ ClickDistribute \/ Dismiss
    <3>1. UNCHANGED <<risky, cancelled, idle, bar>> /\ asking' \in Kinds \cup {"no", "class"}
      BY <2>3 DEF ClickNormal, ClickFolder, ClickSecret, ClickDistribute, Ask, Dismiss, Kinds,
                  uiVars
    <3> QED
      BY <2>1, <2>2, <3>1 DEF TypeOK
  <2>4. CASE ClickCancel
    <3>1. cancel \in 1..started /\ started \in Nat
      BY <2>4 DEF ClickCancel, BarInv, TypeOK
    <3>2. UNCHANGED <<risky, asking, idle, bar>> /\ cancelled' = cancelled \cup {cancel}
      BY <2>4 DEF ClickCancel, jobVars, userVars
    <3> QED
      BY <2>1, <2>2, <3>1, <3>2 DEF TypeOK
  <2>5. CASE TurnBar \/ CleaningDone
    <3>1. UNCHANGED <<risky, asking, cancelled>> /\ bar' \in BOOLEAN /\ idle # <<>>
          /\ idle' = Tail(idle)
      BY <2>5 DEF TurnBar, CleaningDone, jobVars, userVars, TypeOK
    <3>2. idle' \in Seq(Shown)
      BY <3>1, HeadTailProperties DEF TypeOK, Shown
    <3> QED
      BY <2>1, <2>2, <3>1, <3>2 DEF TypeOK, Shown
  <2> QED
    BY <1>1, <2>3, <2>4, <2>5 DEF Window
<1>2. ASSUME NEW c \in Choices, NEW first \in {"show", "prepare"}, Start(c, first)
      PROVE  TypeOK'
  <2>1. /\ started + 1 \in Jobs /\ started' = started + 1 /\ cancel' \in 0..started'
        /\ cancel \in Nat /\ asking' = "no"
        /\ job' = [job EXCEPT ![started + 1] = c] /\ pc' = [pc EXCEPT ![started + 1] = first]
    BY <1>2, DeskAssumption DEF Start, TypeOK, Jobs
  <2>2. UNCHANGED <<dev, file, risky, source>> /\ UNCHANGED <<diskVars, doneVars, uiVars>>
    BY <1>2 DEF Start
  <2>3. 1 \in DOMAIN c.targets /\ 1 \in DOMAIN c.files
    <3>1. c.targets \in Seq(Devices) \ {<<>>} /\ c.files \in Seq(Files) \ {<<>>}
      BY DeskAssumption
    <3> QED
      BY <3>1, EmptySeq, LenProperties
  <2>4. dev[started + 1] = 1 /\ file[started + 1] = 1
    <3>1. pc[started + 1] = "none"
      BY <2>1 DEF KindInv, TypeOK
    <3> QED
      BY <2>1, <3>1 DEF KindInv, AtStart
  <2>5. \A k \in Jobs : dev'[k] \in DOMAIN job'[k].targets /\ file'[k] \in DOMAIN job'[k].files
    BY <2>1, <2>2, <2>3, <2>4 DEF TypeOK
  <2>6. job' \in [Jobs -> Choices] /\ started' \in 0..MaxJobs /\ 1..started \subseteq 1..started'
    BY <2>1, DeskAssumption DEF TypeOK, Jobs
  <2> QED
    BY <2>1, <2>2, <2>5, <2>6 DEF TypeOK, diskVars, noteVars, doneVars, uiVars
<1>3. ASSUME NEW j \in Jobs, Step(j)
      PROVE  TypeOK'
  <2> USE DEF Goto, Return, userVars, diskVars, noteVars, doneVars, uiVars
  <2>1. j \in 1..started
    <3>1. pc[j] # "none"
      BY <1>3 DEF Step, Show, Leave, StopsHere, Prepare, Scan, Mat2Writes, Mat2Ends, Mat2Fails,
                  Look, Clean, NoCleaner, NextFile, Begin, Abort, Acked, Hide
    <3> QED
      BY <3>1, DeskAssumption DEF KindInv, TypeOK, Jobs
  <2>2. ASSUME NEW m \in Shown, idle' = Append(idle, m)
        PROVE  idle' \in Seq({"show", "hide", "cleaned"})
    BY <2>2 DEF TypeOK, Shown
  <2>3. CASE Show(j)
    <3>1. idle' \in Seq({"show", "hide", "cleaned"})
      BY <2>2, <2>3 DEF Show, Shown
    <3> QED
      BY <2>3, <3>1 DEF Show, TypeOK
  <2>4. CASE Leave(j)
    BY <2>4 DEF Leave, TypeOK
  <2>5. CASE Prepare(j)
    <3>1. /\ copies' \subseteq 1..started /\ doubtful' \subseteq 1..started
          /\ failed' \subseteq 1..started
      BY <2>1, <2>5 DEF Prepare, TypeOK
    <3>2. /\ UNCHANGED <<job, dev, file, risky, started, asking, cancel>>
          /\ UNCHANGED <<beside, writing, history, got, cancelled, idle, bar>>
          /\ source' = [source EXCEPT ![j] = "original"]
          /\ \E where \in {"scan", "begin"} : pc' = [pc EXCEPT ![j] = where]
      BY <2>5 DEF Prepare
    <3> QED
      BY <3>1, <3>2 DEF TypeOK
  <2>6. CASE Scan(j)
    <3>1. Rivals(j) \subseteq 1..started
      BY <2>6, DeskAssumption DEF Rivals, KindInv, TypeOK, Jobs
    <3>2. doubtful' \subseteq 1..started
      BY <2>1, <2>6, <3>1 DEF Scan, TypeOK
    <3> QED
      BY <2>6, <3>2 DEF Scan, TypeOK
  <2>7. CASE Mat2Writes(j)
    <3>1. beside' \in [Files -> {"none", "clean", "half"}] /\ writing' \subseteq 1..started
      BY <2>1, <2>7 DEF Mat2Writes, TypeOK
    <3>2. UNCHANGED <<jobVars, copies, noteVars, doneVars, uiVars>>
      BY <2>7 DEF Mat2Writes
    <3> QED
      BY <3>1, <3>2 DEF jobVars, TypeOK
  <2>8. CASE Mat2Ends(j)
    BY <2>8 DEF Mat2Ends, TypeOK
  <2>9. CASE Mat2Fails(j)
    BY <2>1, <2>9 DEF Mat2Fails, TypeOK
  <2>10. CASE Look(j)
    <3>1. beside[File(j)] \in {"none", "clean", "half"}
      BY JobFacts DEF TypeOK
    <3> QED
      BY <2>1, <2>10, <3>1 DEF Look, TypeOK
  <2>11. CASE Clean(j)
    BY <2>11 DEF Clean, TypeOK
  <2>12. CASE NoCleaner(j)
    BY <2>12 DEF NoCleaner, TypeOK
  <2>13. CASE NextFile(j)
    <3>1. file' \in [Jobs -> Nat] /\ \A k \in Jobs : file'[k] \in DOMAIN job[k].files
      <4>1. ~LastFile(j) => file[j] + 1 \in DOMAIN job[j].files /\ file[j] + 1 \in Nat
        BY JobFacts DEF LastFile
      <4> QED
        BY <2>13, <4>1 DEF NextFile, TypeOK
    <3> QED
      BY <2>13, <3>1 DEF NextFile, TypeOK
  <2>14. CASE Begin(j)
    BY <2>14 DEF Begin, TypeOK
  <2>15. CASE Acked(j) /\ job[j].kind = "folder" /\ ~LastFile(j)
    <3>1. file[j] + 1 \in DOMAIN job[j].files /\ file[j] + 1 \in Nat
      BY <2>15, JobFacts DEF LastFile
    <3>2. got' \in [Jobs -> SUBSET (Devices \X Files)]
      BY <2>15, JobFacts DEF Acked, TypeOK
    <3>3. /\ file' = [file EXCEPT ![j] = file[j] + 1] /\ pc' = [pc EXCEPT ![j] = "begin"]
          /\ UNCHANGED <<dev, history, job, risky, source, started, asking, cancel>>
          /\ UNCHANGED <<copies, beside, writing, doubtful, failed, cancelled, idle, bar>>
      BY <2>15 DEF Acked
    <3>4. file' \in [Jobs -> Nat] /\ \A k \in Jobs : file'[k] \in DOMAIN job[k].files
      BY <3>1, <3>3 DEF TypeOK
    <3> QED
      BY <3>2, <3>3, <3>4 DEF TypeOK
  <2>16. CASE Abort(j) \/ (Acked(j) /\ ~(job[j].kind = "folder" /\ ~LastFile(j)))
    BY <2>16, Finished, FinishTypes
  <2>17. CASE Hide(j)
    <3>1. idle' \in Seq({"show", "hide", "cleaned"})
      BY <2>2, <2>17 DEF Hide, Shown
    <3> QED
      BY <2>17, <3>1 DEF Hide, TypeOK
  <2> QED
    BY <1>3, <2>3, <2>4, <2>5, <2>6, <2>7, <2>8, <2>9, <2>10, <2>11, <2>12, <2>13, <2>14, <2>15,
       <2>16, <2>17 DEF Step
<1>4. CASE UNCHANGED vars
  BY <1>4 DEF vars, jobVars, userVars, diskVars, noteVars, doneVars, uiVars, TypeOK
<1> QED
  BY <1>1, <1>2, <1>3, <1>4, SomeStep

(* Where a job's thread can be after a step.                               *)
LEMMA StepMoves ==
  ASSUME TypeOK, KindInv, NEW j \in Jobs, Step(j)
  PROVE  /\ pc[j] # "none" /\ pc'[j] \notin {"none", "show"}
         /\ pc'[j] = "send" => job[j].kind # "privacy"
         /\ pc'[j] = "prepare" => job[j].kind # "folder"
         /\ pc'[j] \in {"scan", "mat2", "look", "native"} => job[j].clean
         /\ job[j].kind = "privacy" => history'[j] = history[j]
<1> USE DEF Goto, Return, doneVars, KindInv, TypeOK
<1>1. CASE Show(j)
  BY <1>1 DEF Show
<1>2. CASE Leave(j)
  BY <1>2 DEF Leave, StopsHere
<1>3. CASE Prepare(j)
  BY <1>3 DEF Prepare
<1>4. CASE Scan(j)
  BY <1>4 DEF Scan
<1>5. CASE Mat2Writes(j)
  BY <1>5 DEF Mat2Writes, jobVars
<1>6. CASE Mat2Ends(j) \/ Mat2Fails(j)
  BY <1>6 DEF Mat2Ends, Mat2Fails
<1>7. CASE Look(j)
  BY <1>7 DEF Look
<1>8. CASE Clean(j) \/ NoCleaner(j)
  BY <1>8 DEF Clean, NoCleaner
<1>9. CASE NextFile(j)
  <2>1. pc'[j] \in {"hide", "prepare"} /\ pc[j] = "begin" /\ job[j].kind = "privacy"
    BY <1>9 DEF NextFile
  <2>2. UNCHANGED history
    BY <1>9 DEF NextFile
  <2> QED
    BY <2>1, <2>2
<1>10. CASE Begin(j)
  BY <1>10 DEF Begin
<1>11. CASE Acked(j) /\ job[j].kind = "folder" /\ ~LastFile(j)
  BY <1>11 DEF Acked
<1>12. CASE Abort(j) \/ (Acked(j) /\ ~(job[j].kind = "folder" /\ ~LastFile(j)))
  <2>1. PICK status : Finishes(j, status)
    BY <1>12, Finished
  <2>2. pc' = [pc EXCEPT ![j] = AfterRecord(j).pc]
    BY <2>1, Finishing
  <2>3. /\ AfterRecord(j).pc \in {"prepare", "begin", "hide"} /\ job[j].kind # "privacy"
        /\ AfterRecord(j).pc = "prepare" => job[j].kind = "multi"
        /\ pc[j] # "none"
    BY <2>1, PlaceTypes DEF Finishes
  <2>4. pc'[j] = AfterRecord(j).pc
    BY <2>2
  <2> QED
    BY <2>3, <2>4
<1>13. CASE Hide(j)
  BY <1>13 DEF Hide
<1> QED
  BY <1>1, <1>2, <1>3, <1>4, <1>5, <1>6, <1>7, <1>8, <1>9, <1>10, <1>11, <1>12, <1>13 DEF Step

LEMMA KindStep ==
  ASSUME TypeOK, KindInv, [Next]_vars
  PROVE  KindInv'
<1>1. CASE Window
  BY <1>1, WindowMoves DEF KindInv, AtStart
<1>2. ASSUME NEW c \in Choices, NEW first \in {"show", "prepare"}, Start(c, first),
             first = "show" <=> c.kind # "privacy", NEW j \in Jobs, j = started + 1
      PROVE  KindInv'
  <2>1. /\ started' = j /\ UNCHANGED <<dev, file, history, got>>
        /\ job' = [job EXCEPT ![j] = c] /\ pc' = [pc EXCEPT ![j] = first]
        /\ cancel' = IF c.kind = "privacy" THEN cancel ELSE j
    BY <1>2, DeskAssumption DEF Start, TypeOK, Jobs, doneVars
  <2>2. pc[j] = "none" /\ j # 0
    BY <1>2, <2>1 DEF KindInv, TypeOK
  <2>3. AtStart(j)' /\ history'[j] = <<>>
    BY <2>1, <2>2 DEF KindInv, AtStart
  <2>4. ASSUME NEW k \in Jobs, k # j
        PROVE  /\ job'[k] = job[k] /\ pc'[k] = pc[k] /\ (k > started' <=> k > started)
               /\ cancel # 0 => cancel' # 0
               /\ AtStart(k)' = AtStart(k) /\ history'[k] = history[k]
    BY <1>2, <2>1, <2>2, <2>4 DEF AtStart, TypeOK, Jobs
  <2>5. /\ job'[j] = c /\ pc'[j] = first /\ ~(j > started')
        /\ c.kind \in Kinds /\ (c.kind = "folder" => first = "show")
    BY <1>2, <2>1, DeskAssumption DEF TypeOK
  <2>6. first = "show" => cancel' # 0
    BY <1>2, <2>1, <2>2
  <2>7. ASSUME NEW k \in Jobs
        PROVE  /\ pc'[k] = "none" <=> k > started'
               /\ pc'[k] \in {"none", "show"} => AtStart(k)'
               /\ pc'[k] \in {"show", "send"} => job'[k].kind # "privacy"
               /\ pc'[k] = "show" => cancel' # 0
               /\ pc'[k] = "prepare" => job'[k].kind # "folder"
               /\ pc'[k] \in {"scan", "mat2", "look", "native"} => job'[k].clean
               /\ job'[k].kind = "privacy" => history'[k] = <<>>
    <3>1. CASE k = j
      BY <1>2, <2>3, <2>5, <2>6, <3>1
    <3>2. CASE k # j
      BY <2>4, <3>2 DEF KindInv
    <3> QED
      BY <3>1, <3>2
  <2> QED
    BY <2>7 DEF KindInv
<1>3. ASSUME NEW j \in Jobs, Step(j)
      PROVE  KindInv'
  <2>1. UNCHANGED <<job, started, cancel>> /\ \A k \in Jobs \ {j} : Other(k)
    BY <1>3, OtherJobs
  <2>2. ~(j > started)
    BY <1>3, StepMoves DEF KindInv
  <2> QED
    BY <1>3, <2>1, <2>2, StepMoves DEF KindInv, AtStart, Other
<1>4. CASE UNCHANGED vars
  BY <1>4 DEF vars, jobVars, userVars, doneVars, KindInv, AtStart
<1>5. ASSUME NEW c \in Choices, NEW first, Start(c, first)
      PROVE  started + 1 \in Jobs
  BY <1>5, DeskAssumption DEF Start, TypeOK, Jobs
<1> QED
  BY <1>1, <1>2, <1>3, <1>4, <1>5, SomeStep

LEMMA BarStep ==
  ASSUME BaseInv, [Next]_vars
  PROVE  BarInv'
<1> USE DEF BaseInv
<1>1. CASE UNCHANGED <<idle, bar, cancel>>
  BY <1>1 DEF BarInv
<1>2. CASE TurnBar \/ CleaningDone
  <2>1. /\ idle # <<>> /\ idle' = Tail(idle) /\ UNCHANGED cancel
        /\ bar' = bar \/ bar' = (Head(idle) = "show")
    BY <1>2 DEF TurnBar, CleaningDone, jobVars, userVars
  <2>2. idle \in Seq(Shown)
    BY DEF TypeOK, Shown
  <2>3. /\ 1 \in DOMAIN idle /\ Head(idle) = idle[1]
        /\ \A i \in DOMAIN idle' : i + 1 \in DOMAIN idle /\ idle'[i] = idle[i + 1]
    BY <2>1, <2>2, HeadTailProperties, EmptySeq, LenProperties
  <2> QED
    BY <2>1, <2>3 DEF BarInv
<1>3. ASSUME NEW c \in Choices, NEW first \in {"show", "prepare"}, Start(c, first)
      PROVE  BarInv'
  <2>1. UNCHANGED <<idle, bar>> /\ (cancel' = cancel \/ cancel' = started + 1)
    BY <1>3 DEF Start, uiVars
  <2>2. started + 1 # 0
    BY DEF TypeOK
  <2> QED
    BY <2>1, <2>2 DEF BarInv
<1>4. ASSUME NEW j \in Jobs, Show(j) \/ Hide(j)
      PROVE  BarInv'
  <2>1. /\ UNCHANGED <<bar, cancel>>
        /\ \E m \in Shown : /\ idle' = Append(idle, m)
                            /\ m = "show" => pc[j] = "show"
    BY <1>4 DEF Show, Hide, Shown, userVars
  <2>2. PICK m \in Shown : idle' = Append(idle, m) /\ (m = "show" => pc[j] = "show")
    BY <2>1
  <2>3. idle \in Seq(Shown)
    BY DEF TypeOK, Shown
  <2>4. \A i \in DOMAIN idle' : idle'[i] = m \/ (i \in DOMAIN idle /\ idle'[i] = idle[i])
    BY <2>2, <2>3
  <2> QED
    BY <2>1, <2>2, <2>4 DEF BarInv, KindInv
<1> QED
  <2>1. ASSUME NEW j \in Jobs, Step(j), ~Show(j), ~Hide(j)
        PROVE  UNCHANGED <<idle, bar, cancel>>
    BY <2>1 DEF Step, Leave, Prepare, Scan, Mat2Writes, Mat2Ends, Mat2Fails, Look, Clean, NoCleaner,
                NextFile, Begin, Abort, Fails, Acked, uiVars, userVars, jobVars
  <2>2. Window /\ ~TurnBar /\ ~CleaningDone => UNCHANGED <<idle, bar, cancel>>
    BY DEF Window, ClickNormal, ClickFolder, ClickSecret, ClickDistribute, Ask, Dismiss,
           ClickCancel, uiVars, userVars, jobVars
  <2>3. UNCHANGED vars => UNCHANGED <<idle, bar, cancel>>
    BY DEF vars, uiVars, userVars, jobVars
  <2> QED
    BY <1>1, <1>2, <1>3, <1>4, <2>1, <2>2, <2>3, SomeStep

----------------------------------------------------------------------------
(* Copies                                                                  *)

LEMMA CopyMoves ==
  ASSUME TypeOK, KindInv, CopyInv, NEW j \in Jobs, Step(j), j \in copies'
  PROVE  /\ pc'[j] \in {"scan", "mat2", "look", "native", "begin", "send"}
         /\ job[j].kind # "privacy"
<1> USE DEF Goto, Return, diskVars, noteVars, TypeOK
<1>1. CASE Show(j) \/ Leave(j) \/ Hide(j)
  <2>1. pc[j] \in {"show", "prepare", "hide"} /\ UNCHANGED copies
    BY <1>1 DEF Show, Leave, StopsHere, Hide
  <2> QED
    BY <2>1 DEF CopyInv
<1>2. CASE Prepare(j)
  <2>1. j \notin copies
    BY <1>2 DEF Prepare, CopyInv
  <2> QED
    BY <1>2, <2>1 DEF Prepare
<1>3. CASE Scan(j)
  BY <1>3 DEF Scan, CopyInv
<1>4. CASE Mat2Writes(j)
  BY <1>4 DEF Mat2Writes, jobVars, CopyInv
<1>5. CASE Mat2Ends(j) \/ Mat2Fails(j)
  BY <1>5 DEF Mat2Ends, Mat2Fails, CopyInv
<1>6. CASE Look(j)
  BY <1>6 DEF Look, CopyInv
<1>7. CASE Clean(j) \/ NoCleaner(j)
  BY <1>7 DEF Clean, NoCleaner, CopyInv
<1>8. CASE NextFile(j)
  <2>1. job[j].kind = "privacy" /\ UNCHANGED copies
    BY <1>8 DEF NextFile
  <2> QED
    BY <2>1 DEF CopyInv
<1>9. CASE Begin(j)
  BY <1>9 DEF Begin, CopyInv
<1>10. CASE Acked(j) /\ job[j].kind = "folder" /\ ~LastFile(j)
  BY <1>10 DEF Acked, CopyInv
<1>11. CASE Abort(j) \/ (Acked(j) /\ ~(job[j].kind = "folder" /\ ~LastFile(j)))
  <2>1. PICK status : Finishes(j, status)
    BY <1>11, Finished
  <2>2. job[j].kind # "privacy" /\ copies' = IF pc'[j] = "begin" THEN copies ELSE copies \ {j}
    BY <2>1 DEF Finishes, After
  <2> QED
    BY <2>2
<1> QED
  BY <1>1, <1>2, <1>3, <1>4, <1>5, <1>6, <1>7, <1>8, <1>9, <1>10, <1>11 DEF Step

LEMMA CopyStep ==
  ASSUME TypeOK, KindInv, CopyInv, [Next]_vars
  PROVE  CopyInv'
<1>1. CASE Window
  BY <1>1, WindowMoves DEF CopyInv
<1>2. ASSUME NEW c \in Choices, NEW first, Start(c, first)
      PROVE  CopyInv'
  <2>1. \A k \in Jobs : k # started + 1 => pc'[k] = pc[k] /\ job'[k] = job[k]
    BY <1>2 DEF Start, TypeOK
  <2>2. UNCHANGED copies /\ started + 1 \notin copies
    BY <1>2 DEF Start, diskVars, TypeOK
  <2> QED
    BY <2>1, <2>2 DEF CopyInv
<1>3. ASSUME NEW j \in Jobs, Step(j)
      PROVE  CopyInv'
  <2>1. UNCHANGED job /\ \A k \in Jobs \ {j} : Other(k)
    BY <1>3, OtherJobs
  <2> QED
    BY <1>3, <2>1, CopyMoves DEF CopyInv, Other
<1>4. CASE UNCHANGED vars
  BY <1>4 DEF vars, jobVars, diskVars, CopyInv
<1> QED
  BY <1>1, <1>2, <1>3, <1>4, SomeStep

----------------------------------------------------------------------------
(* Cancelling                                                              *)

LEMMA CancelMoves ==
  ASSUME TypeOK, KindInv, [Next]_vars, NEW j \in cancelled, pc[j] # "send"
  PROVE  pc'[j] # "send" /\ got'[j] = got[j]
<1> j \in Jobs /\ j \in 1..started
  BY DeskAssumption DEF TypeOK, Jobs
<1>1. CASE Window
  BY <1>1, WindowMoves
<1>2. ASSUME NEW c \in Choices, NEW first \in {"show", "prepare"}, Start(c, first)
      PROVE  pc'[j] # "send" /\ got'[j] = got[j]
  BY <1>2 DEF Start, doneVars, TypeOK
<1>3. ASSUME NEW k \in Jobs, Step(k), k # j
      PROVE  pc'[j] # "send" /\ got'[j] = got[j]
  BY <1>3, OtherJobs DEF Other
<1>4. CASE Step(j)
  <2> USE DEF Goto, Return, doneVars, TypeOK
  <2>1. ~Begin(j) /\ ~Acked(j)
    BY DEF Begin, Acked
  <2>2. CASE Show(j) \/ Leave(j) \/ Hide(j)
    BY <2>2 DEF Show, Leave, Hide
  <2>3. CASE Prepare(j) \/ Scan(j)
    BY <2>3 DEF Prepare, Scan
  <2>4. CASE Mat2Writes(j)
    BY <2>4 DEF Mat2Writes, jobVars
  <2>5. CASE Mat2Ends(j) \/ Mat2Fails(j) \/ Look(j)
    BY <2>5 DEF Mat2Ends, Mat2Fails, Look
  <2>6. CASE Clean(j) \/ NoCleaner(j) \/ NextFile(j)
    BY <2>6 DEF Clean, NoCleaner, NextFile
  <2>7. CASE Abort(j)
    <3>1. PICK status : Finishes(j, status)
      BY <2>7, Finished
    <3>2. pc'[j] \in {"prepare", "begin", "hide"}
      <4>1. pc' = [pc EXCEPT ![j] = AfterRecord(j).pc] /\ job[j].kind # "privacy"
        BY <3>1, Finishing DEF Finishes
      <4>2. AfterRecord(j).pc \in {"prepare", "begin", "hide"}
        BY <4>1, PlaceTypes
      <4> QED
        BY <4>1, <4>2
    <3>3. UNCHANGED got
      BY <2>7 DEF Abort, Fails
    <3> QED
      BY <3>2, <3>3
  <2> QED
    BY <1>4, <2>1, <2>2, <2>3, <2>4, <2>5, <2>6, <2>7 DEF Step
<1>5. CASE UNCHANGED vars
  BY <1>5 DEF vars, jobVars, doneVars
<1> QED
  BY <1>1, <1>2, <1>3, <1>4, <1>5, SomeStep

----------------------------------------------------------------------------
(* Clean files                                                             *)

(* What a job does to the files of others.                                 *)
LEMMA CleaningMoves ==
  ASSUME TypeOK, KindInv, NEW j \in Jobs, Step(j)
  PROVE  /\ \A f \in Files : beside'[f] = beside[f] \/ (f = File(j) /\ pc[j] \in {"mat2", "look"})
         /\ doubtful \ {j} \subseteq doubtful'
         /\ pc'[j] \in {"mat2", "look"} =>
              /\ dev'[j] = dev[j] /\ file'[j] = file[j]
              /\ pc[j] \in {"mat2", "look"} \/ (pc[j] = "scan" /\ Rivals(j) \subseteq doubtful')
<1> USE DEF Goto, Return, diskVars, noteVars, TypeOK
<1>1. CASE Show(j) \/ Leave(j) \/ Hide(j)
  BY <1>1 DEF Show, Leave, Hide
<1>2. CASE Prepare(j)
  BY <1>2 DEF Prepare
<1>3. CASE Scan(j)
  BY <1>3 DEF Scan
<1>4. CASE Mat2Writes(j)
  BY <1>4 DEF Mat2Writes, jobVars
<1>5. CASE Mat2Ends(j) \/ Mat2Fails(j)
  BY <1>5 DEF Mat2Ends, Mat2Fails
<1>6. CASE Look(j)
  BY <1>6 DEF Look
<1>7. CASE Clean(j) \/ NoCleaner(j)
  BY <1>7 DEF Clean, NoCleaner
<1>8. CASE NextFile(j)
  <2>1. UNCHANGED <<beside, doubtful>> /\ pc'[j] \in {"hide", "prepare"}
    BY <1>8 DEF NextFile
  <2> QED
    BY <2>1
<1>9. CASE Begin(j) \/ (Acked(j) /\ job[j].kind = "folder" /\ ~LastFile(j))
  <2>1. UNCHANGED <<beside, doubtful>> /\ pc'[j] \in {"begin", "send"}
    BY <1>9 DEF Begin, Acked
  <2> QED
    BY <2>1
<1>10. CASE Abort(j) \/ (Acked(j) /\ ~(job[j].kind = "folder" /\ ~LastFile(j)))
  <2>1. PICK status : Finishes(j, status)
    BY <1>10, Finished
  <2>2. /\ pc' = [pc EXCEPT ![j] = AfterRecord(j).pc] /\ job[j].kind # "privacy"
        /\ UNCHANGED <<beside, doubtful>>
    BY <2>1, Finishing DEF Finishes
  <2>3. AfterRecord(j).pc \in {"prepare", "begin", "hide"}
    BY <2>2, PlaceTypes
  <2> QED
    BY <2>2, <2>3
<1> QED
  BY <1>1, <1>2, <1>3, <1>4, <1>5, <1>6, <1>7, <1>8, <1>9, <1>10 DEF Step

(* A job that is alone with its file stays alone, or becomes doubtful.     *)
LEMMA OthersClean ==
  ASSUME TypeOK, KindInv, CleanInv, NEW j \in Jobs, Step(j), NEW k \in Jobs, k # j,
         pc[k] \in {"mat2", "look"}, k \notin doubtful'
  PROVE  k \notin doubtful /\ Alone(k)'
<1>1. UNCHANGED job /\ \A q \in Jobs \ {j} : Other(q)
  BY OtherJobs
<1>2. k \notin doubtful /\ Alone(k)
  BY CleaningMoves DEF CleanInv, CleanAt
<1>3. File(k)' = File(k) /\ File(k) \in Files
  BY <1>1, JobFacts DEF File, Other
<1>4. File(j) = File(k) => pc[j] \notin {"mat2", "look"}
  BY <1>2 DEF Alone, Rivals
<1>5. beside'[File(k)] = beside[File(k)]
  BY <1>3, <1>4, CleaningMoves
<1>6. ASSUME NEW q \in Jobs \ {k}, pc'[q] \in {"mat2", "look"}, File(q)' = File(k)
      PROVE  FALSE
  <2>1. CASE q # j
    <3>1. pc'[q] = pc[q] /\ File(q)' = File(q)
      BY <1>1, <2>1 DEF File, Other
    <3> QED
      BY <1>2, <1>6, <3>1 DEF Alone, Rivals
  <2>2. CASE q = j
    <3>1. File(j)' = File(j)
      BY <1>1, <1>6, <2>2, CleaningMoves DEF File
    <3>2. pc[j] \notin {"mat2", "look"}
      BY <1>4, <1>6, <2>2, <3>1
    <3>3. Rivals(j) \subseteq doubtful'
      BY <1>6, <2>2, <3>2, CleaningMoves
    <3>4. k \in Rivals(j)
      BY <1>6, <2>2, <3>1 DEF Rivals
    <3> QED
      BY <3>3, <3>4
  <2> QED
    BY <2>1, <2>2
<1>7. Rivals(k)' = {}
  BY <1>3, <1>6 DEF Rivals
<1> QED
  BY <1>1, <1>2, <1>3, <1>5, <1>7 DEF Alone, Other

LEMMA OwnRivals ==
  ASSUME TypeOK, NEW j \in Jobs, Step(j), dev'[j] = dev[j], file'[j] = file[j]
  PROVE  Rivals(j)' = Rivals(j) /\ File(j)' = File(j) /\ File(j) \in Files
<1>1. UNCHANGED job /\ \A q \in Jobs \ {j} : Other(q)
  BY OtherJobs
<1>2. File(j)' = File(j) /\ File(j) \in Files
  BY <1>1, JobFacts DEF File
<1>3. \A q \in Jobs \ {j} : pc'[q] = pc[q] /\ File(q)' = File(q)
  BY <1>1 DEF File, Other
<1> QED
  BY <1>2, <1>3 DEF Rivals

LEMMA CleanMoves ==
  ASSUME TypeOK, KindInv, CleanInv, NEW j \in Jobs, Step(j)
  PROVE  CleanAt(j)'
<1> USE DEF Goto, Return, diskVars, noteVars, CleanAt
<1>1. CleanAt(j) /\ (job[j].kind = "folder" => ~job[j].clean) /\ UNCHANGED job
  BY DeskAssumption, OtherJobs DEF CleanInv, TypeOK
<1>2. CASE Show(j) \/ Leave(j)
  BY <1>1, <1>2 DEF Show, Leave, StopsHere, TypeOK
<1>3. CASE Prepare(j)
  BY <1>1, <1>3 DEF Prepare, TypeOK
<1>4. CASE Scan(j)
  <2>1. Rivals(j)' = Rivals(j) /\ File(j)' = File(j)
    BY <1>4, OwnRivals DEF Scan
  <2>2. /\ j \notin writing' /\ UNCHANGED <<source, beside, failed>>
        /\ pc'[j] = IF Mat2 THEN "mat2" ELSE "native"
    BY <1>1, <1>4, DeskAssumption DEF Scan, TypeOK
  <2>3. Mat2 /\ j \notin doubtful' => Rivals(j) = {} /\ beside[File(j)] = "none"
    BY <1>4 DEF Scan
  <2>4. doubtful \subseteq doubtful'
    BY <1>4 DEF Scan
  <2> QED
    BY <1>1, <2>1, <2>2, <2>3, <2>4, DeskAssumption DEF Alone
<1>5. CASE Mat2Writes(j)
  <2>1. Rivals(j)' = Rivals(j) /\ File(j)' = File(j) /\ File(j) \in Files
    BY <1>5, OwnRivals DEF Mat2Writes, jobVars
  <2>2. j \in writing' /\ beside'[File(j)] = "half" /\ UNCHANGED <<pc, source, doubtful, failed>>
    BY <1>5, <2>1 DEF Mat2Writes, jobVars, TypeOK
  <2> QED
    BY <1>1, <1>5, <2>1, <2>2 DEF Alone, Mat2Writes
<1>6. CASE Mat2Ends(j)
  <2>1. Rivals(j)' = Rivals(j) /\ File(j)' = File(j) /\ File(j) \in Files
    BY <1>6, OwnRivals DEF Mat2Ends
  <2>2. j \notin writing' /\ pc'[j] = "look" /\ UNCHANGED <<source, doubtful, failed>> /\ Mat2
    BY <1>1, <1>6 DEF Mat2Ends, TypeOK
  <2>3. j \notin doubtful => beside'[File(j)] = "clean"
    BY <1>1, <1>6, <2>1 DEF Mat2Ends, Alone, TypeOK
  <2>4. j \notin doubtful => Rivals(j) = {}
    BY <1>1, <1>6 DEF Mat2Ends, Alone
  <2> QED
    BY <1>1, <2>1, <2>2, <2>3, <2>4 DEF Alone
<1>7. CASE Mat2Fails(j)
  BY <1>1, <1>7 DEF Mat2Fails, TypeOK
<1>8. CASE Look(j)
  <2>1. /\ pc[j] = "look" /\ Mat2 /\ UNCHANGED <<writing, doubtful>> /\ j \notin writing
    BY <1>1, <1>8 DEF Look
  <2>2. j \notin doubtful => beside[File(j)] = "clean"
    BY <1>1, <2>1 DEF Alone
  <2>3. \/ beside[File(j)] = "none" /\ pc'[j] = "native" /\ UNCHANGED <<source, failed>>
        \/ pc'[j] = "begin" /\ source'[j] = beside[File(j)] /\ UNCHANGED failed
        \/ pc'[j] = "native" /\ j \in failed' /\ UNCHANGED source
    BY <1>8 DEF Look, TypeOK
  <2> QED
    BY <1>1, <2>1, <2>2, <2>3
<1>9. CASE Clean(j) \/ NoCleaner(j)
  BY <1>1, <1>9 DEF Clean, NoCleaner, TypeOK
<1>10. CASE NextFile(j)
  <2>1. UNCHANGED <<source, writing, doubtful, failed>> /\ pc'[j] \in {"hide", "prepare"}
    BY <1>10 DEF NextFile, TypeOK
  <2>2. pc[j] = "begin"
    BY <1>10 DEF NextFile
  <2> QED
    BY <1>1, <2>1, <2>2
<1>11. CASE Begin(j) \/ (Acked(j) /\ job[j].kind = "folder" /\ ~LastFile(j))
  <2>1. /\ UNCHANGED <<source, writing, doubtful, failed>> /\ pc'[j] \in {"begin", "send"}
        /\ pc[j] \in {"begin", "send"}
    BY <1>11 DEF Begin, Acked, TypeOK
  <2> QED
    BY <1>1, <2>1
<1>12. CASE Abort(j) \/ (Acked(j) /\ ~(job[j].kind = "folder" /\ ~LastFile(j)))
  <2>1. PICK status : Finishes(j, status)
    BY <1>12, Finished
  <2>2. /\ pc' = [pc EXCEPT ![j] = AfterRecord(j).pc] /\ job[j].kind # "privacy"
        /\ UNCHANGED <<source, writing, doubtful, failed>> /\ pc[j] \in {"begin", "send"}
    BY <2>1, Finishing DEF Finishes
  <2>3. AfterRecord(j).pc \in {"prepare", "begin", "hide"}
    BY <2>2, PlaceTypes
  <2>4. pc'[j] \in {"prepare", "begin", "hide"}
    BY <2>2, <2>3 DEF TypeOK
  <2> QED
    BY <1>1, <2>2, <2>4
<1>13. CASE Hide(j)
  BY <1>1, <1>13 DEF Hide, TypeOK
<1> QED
  BY <1>2, <1>3, <1>4, <1>5, <1>6, <1>7, <1>8, <1>9, <1>10, <1>11, <1>12, <1>13 DEF Step

LEMMA CleanStep ==
  ASSUME TypeOK, KindInv, CleanInv, [Next]_vars
  PROVE  CleanInv'
<1>1. CASE Window
  <2>1. UNCHANGED <<job, pc, dev, file, source, beside, writing, doubtful, failed>>
    BY <1>1, WindowMoves
  <2> QED
    BY <2>1 DEF CleanInv, CleanAt, Alone, Rivals, File
<1>2. ASSUME NEW c \in Choices, NEW first \in {"show", "prepare"}, Start(c, first),
             NEW j \in Jobs, j = started + 1
      PROVE  CleanInv'
  <2>1. /\ UNCHANGED <<dev, file, source, beside, writing, doubtful, failed>>
        /\ job' = [job EXCEPT ![j] = c] /\ pc' = [pc EXCEPT ![j] = first]
    BY <1>2 DEF Start, diskVars, noteVars
  <2>2. pc[j] = "none" /\ pc'[j] = first
    BY <1>2, <2>1 DEF KindInv, TypeOK
  <2>3. \A k \in Jobs \ {j} : pc'[k] = pc[k] /\ job'[k] = job[k] /\ File(k)' = File(k)
    BY <2>1 DEF File, TypeOK
  <2>4. \A k \in Jobs \ {j} : Alone(k) => Alone(k)'
    BY <2>1, <2>2, <2>3 DEF Alone, Rivals
  <2>5. \A k \in Jobs \ {j} : CleanAt(k)'
    BY <2>1, <2>3, <2>4 DEF CleanAt, CleanInv
  <2>6. CleanAt(j)'
    BY <2>1, <2>2 DEF CleanAt, CleanInv
  <2> QED
    BY <2>5, <2>6 DEF CleanInv
<1>3. ASSUME NEW j \in Jobs, Step(j)
      PROVE  CleanInv'
  <2>1. ASSUME NEW k \in Jobs, k # j
        PROVE  CleanAt(k)'
    <3>1. /\ pc'[k] = pc[k] /\ source'[k] = source[k] /\ job'[k] = job[k]
          /\ k \in writing' <=> k \in writing
          /\ k \in doubtful => k \in doubtful'
          /\ k \in failed' <=> k \in failed
      BY <1>3, <2>1, OtherJobs, CleaningMoves DEF Other
    <3>2. pc[k] \in {"mat2", "look"} /\ k \notin doubtful' => Alone(k)'
      BY <1>3, <2>1, OthersClean
    <3> QED
      BY <3>1, <3>2 DEF CleanAt, CleanInv
  <2>2. CleanAt(j)'
    BY <1>3, CleanMoves
  <2> QED
    BY <2>1, <2>2 DEF CleanInv
<1>4. CASE UNCHANGED vars
  BY <1>4 DEF vars, jobVars, diskVars, noteVars, CleanInv, CleanAt, Alone, Rivals, File
<1>5. ASSUME NEW c \in Choices, NEW first, Start(c, first)
      PROVE  started + 1 \in Jobs
  BY <1>5, DeskAssumption DEF Start, TypeOK, Jobs
<1> QED
  BY <1>1, <1>2, <1>3, <1>4, <1>5, SomeStep

----------------------------------------------------------------------------
(* The history                                                             *)

LEMMA SameHistory ==
  ASSUME NEW j \in Jobs, HistAt(j), job'[j] = job[j], dev'[j] = dev[j], file'[j] = file[j],
         history'[j] = history[j], got'[j] = got[j], Ended(j)' = Ended(j),
         j \in cancelled => j \in cancelled'
  PROVE  HistAt(j)'
<1>1. \A item : Reached(j, item)' = Reached(j, item)
  BY DEF Reached, FilesOf
<1>2. \A d, k : /\ Thing(j, d, k)' = Thing(j, d, k) /\ Gone(j, d, k)' = Gone(j, d, k)
                /\ Before(j, d, k)' = Before(j, d, k)
  BY DEF Thing, Gone, Before
<1>3. ToldAt(j)'
  BY <1>1, <1>2 DEF HistAt, ToldAt
<1>4. ~Ended(j) => RunningAt(j)'
  BY <1>2 DEF HistAt, RunningAt, Recorded, Target
<1>5. Ended(j) => EndedAt(j)'
  BY <1>2 DEF HistAt, EndedAt, Recorded
<1> QED
  BY <1>3, <1>4, <1>5 DEF HistAt

(* Devices and files are in a job once.                                    *)
LEMMA OneThing ==
  ASSUME TypeOK, NEW j \in Jobs, job[j].kind # "privacy",
         NEW d \in DOMAIN job[j].targets, NEW k \in DOMAIN job[j].files
  PROVE  /\ job[j].targets[d] = Target(j) => d = dev[j]
         /\ job[j].files[k] = File(j) => k = file[j]
  BY DeskAssumption, JobFacts DEF IsInjective, Target, File

(* What a peer acknowledges is of the file that is under way.              *)
LEMMA ReachedSame ==
  ASSUME TypeOK, NEW j \in Jobs, job[j].kind # "privacy",
         NEW d \in DOMAIN job[j].targets, NEW k \in DOMAIN job[j].files, Gone(j, d, k),
         job'[j] = job[j],
         got'[j] \in {got[j], got[j] \cup {<<Target(j), File(j)>>}}
  PROVE  Reached(j, Thing(j, d, k))' = Reached(j, Thing(j, d, k))
<1>1. d \in Nat /\ dev[j] \in Nat /\ k \in Nat /\ file[j] \in Nat
  BY JobFacts
<1>2. CASE job[j].kind = "folder"
  <2>1. job[j].targets[d] # Target(j)
    BY <1>1, <1>2, OneThing DEF Gone
  <2>2. \A f : <<job[j].targets[d], f>> \in got'[j] <=> <<job[j].targets[d], f>> \in got[j]
    BY <2>1
  <2> QED
    BY <1>2, <2>2 DEF Reached, FilesOf, Thing
<1>3. CASE job[j].kind # "folder"
  <2>1. job[j].targets[d] # Target(j) \/ job[j].files[k] # File(j)
    BY <1>1, OneThing DEF Gone
  <2>2. <<job[j].targets[d], job[j].files[k]>> \in got'[j]
          <=> <<job[j].targets[d], job[j].files[k]>> \in got[j]
    BY <2>1
  <2> QED
    BY <1>3, <2>2 DEF Reached, FilesOf, Thing
<1> QED
  BY <1>2, <1>3

(* A record of what is under way tells whether all of it has arrived.      *)
LEMMA ReachedNow ==
  ASSUME TypeOK, NEW j \in Jobs, NEW status, Finishes(j, status), RunningAt(j),
         NEW thing, thing = Item(j)
  PROVE  status = "ok" <=> Reached(j, thing)'
<1>1. /\ job[j].kind # "privacy" /\ UNCHANGED job /\ status \in {"ok", "error"}
      /\ status = "ok" /\ job[j].kind = "folder" => LastFile(j)
  BY DEF Finishes
<1>2. thing[1] = Target(j) /\ File(j) \in FilesOf(j, thing) /\ FilesOf(j, thing)' = FilesOf(j, thing)
  BY <1>1, JobFacts DEF Item, FilesOf, File
<1>3. CASE status = "ok"
  <2>1. got'[j] = got[j] \cup {<<Target(j), File(j)>>}
    BY <1>3 DEF Finishes, TypeOK
  <2>2. ASSUME NEW f \in FilesOf(j, thing)
        PROVE  <<Target(j), f>> \in got'[j]
    <3>1. CASE job[j].kind = "folder"
      <4>1. PICK k \in DOMAIN job[j].files : f = job[j].files[k]
        BY <2>2, <3>1 DEF FilesOf
      <4>2. k < file[j] \/ k = file[j]
        BY <1>1, <1>3, <3>1, <4>1, JobFacts DEF LastFile
      <4> QED
        BY <2>1, <3>1, <4>1, <4>2 DEF RunningAt, File
    <3>2. CASE job[j].kind # "folder"
      BY <2>1, <2>2, <3>2 DEF FilesOf, Item
    <3> QED
      BY <3>1, <3>2
  <2> QED
    BY <1>1, <1>2, <1>3, <2>2 DEF Reached
<1>4. CASE status = "error"
  <2>1. got' = got
    BY <1>4 DEF Finishes
  <2>2. <<Target(j), File(j)>> \notin got[j]
    <3>1. SUFFICES ASSUME <<Target(j), File(j)>> \in got[j]
                   PROVE  FALSE
      OBVIOUS
    <3>2. PICK d \in DOMAIN job[j].targets, k \in DOMAIN job[j].files :
            <<Target(j), File(j)>> = <<job[j].targets[d], job[j].files[k]>> /\ Before(j, d, k)
      BY <3>1 DEF RunningAt
    <3>3. d = dev[j] /\ k = file[j]
      BY <1>1, <3>2, OneThing
    <3> QED
      BY <3>2, <3>3, JobFacts DEF Before
  <2> QED
    BY <1>1, <1>2, <1>4, <2>1, <2>2 DEF Reached
<1> QED
  BY <1>1, <1>3, <1>4

(* What is behind a job once it has recorded what is under way.            *)
LEMMA GoneAfter ==
  ASSUME TypeOK, NEW j \in Jobs, job[j].kind # "privacy", NEW p, p = AfterRecord(j),
         dev'[j] = p.dev, file'[j] = p.file, pc'[j] = p.pc, job'[j] = job[j],
         NEW d \in DOMAIN job[j].targets, NEW k \in DOMAIN job[j].files
  PROVE  LET now == d = dev[j] /\ (k = file[j] \/ job[j].kind = "folder")
         IN  /\ now => Thing(j, d, k) = Item(j)
             /\ ~Ended(j)' => (Gone(j, d, k)' <=> Gone(j, d, k) \/ now)
             /\ ~Ended(j)' => (Before(j, d, k) \/ (d = dev[j] /\ k = file[j]) => Before(j, d, k)')
             /\ ~Ended(j)' /\ job[j].kind = "folder" => file'[j] = 1
             /\ Ended(j)' /\ (job[j].kind = "single" \/ j \notin cancelled)
                  => Gone(j, d, k) \/ now
<1>1. /\ Len(job[j].targets) \in Nat /\ d \in 1..Len(job[j].targets)
      /\ Len(job[j].files) \in Nat /\ k \in 1..Len(job[j].files)
      /\ dev[j] \in 1..Len(job[j].targets) /\ file[j] \in 1..Len(job[j].files)
      /\ job[j].kind = "single" => Len(job[j].files) = 1
      /\ job[j].kind \in Kinds
  BY JobFacts, DeskAssumption
<1> DEFINE now == d = dev[j] /\ (k = file[j] \/ job[j].kind = "folder")
<1>2. now => Thing(j, d, k) = Item(j)
  BY DEF Thing, Item, Target, File
<1>3. p.pc \in {"prepare", "begin", "hide"}
  BY PlaceTypes
<1>4. CASE p.pc = "hide"
  <2>1. Ended(j)'
    BY <1>4 DEF Ended
  <2>2. \/ LastTarget(j) /\ (job[j].kind = "multi" => LastFile(j))
        \/ job[j].kind = "folder" /\ j \in cancelled
    BY <1>4, Places
  <2>3. job[j].kind = "single" \/ j \notin cancelled => Gone(j, d, k) \/ now
    BY <1>1, <2>2 DEF Gone, LastTarget, LastFile, Kinds
  <2> QED
    BY <1>2, <2>1, <2>3
<1>5. CASE p.pc # "hide"
  <2>1. ~Ended(j)'
    BY <1>3, <1>5 DEF Ended
  <2>2. \/ p.dev = dev[j] + 1 /\ p.file = 1 /\ job[j].kind \in {"single", "folder"}
        \/ p.dev = dev[j] /\ p.file = file[j] + 1 /\ job[j].kind = "multi"
        \/ p.dev = dev[j] + 1 /\ p.file = 1 /\ job[j].kind = "multi" /\ LastFile(j)
    BY <1>5, Places
  <2>3. Gone(j, d, k)' <=> Gone(j, d, k) \/ now
    BY <1>1, <2>2 DEF Gone, LastFile
  <2>4. Before(j, d, k) \/ (d = dev[j] /\ k = file[j]) => Before(j, d, k)'
    BY <1>1, <2>2 DEF Before, LastFile
  <2>5. job[j].kind = "folder" => file'[j] = 1
    BY <2>2
  <2> QED
    BY <1>2, <2>1, <2>3, <2>4, <2>5
<1> QED
  BY <1>4, <1>5

LEMMA FinishHistory ==
  ASSUME TypeOK, NEW j \in Jobs, NEW status, Finishes(j, status), HistAt(j)
  PROVE  HistAt(j)'
<1> DEFINE e == Entry(j, status)
           h == history[j]
<1>1. /\ job[j].kind # "privacy" /\ ~Ended(j) /\ UNCHANGED <<job, cancelled>>
      /\ got'[j] \in {got[j], got[j] \cup {<<Target(j), File(j)>>}}
  BY DEF Finishes, Ended, uiVars, TypeOK
<1>2. ToldAt(j) /\ RunningAt(j)
  BY <1>1 DEF HistAt
<1>3. PICK thing : thing = Item(j)
  OBVIOUS
<1>4. PICK p : p = AfterRecord(j)
  OBVIOUS
<1>5. /\ dev'[j] = p.dev /\ file'[j] = p.file /\ pc'[j] = p.pc
      /\ history'[j] = Append(h, e) /\ e \in Entries /\ h \in Seq(Entries)
  BY <1>4, Finishing DEF TypeOK
<1>6. /\ DOMAIN h = 1..Len(h) /\ DOMAIN history'[j] = 1..(Len(h) + 1) /\ Len(h) \in Nat
      /\ \A i \in DOMAIN h : history'[j][i] = h[i]
      /\ history'[j][Len(h) + 1] = e
  BY <1>5
<1>7. e.item = thing /\ e.status = status
  BY <1>3 DEF Entry
<1> HIDE DEF e
<1>8. \A d \in DOMAIN job[j].targets, k \in DOMAIN job[j].files :
        LET now == d = dev[j] /\ (k = file[j] \/ job[j].kind = "folder")
        IN  /\ now => Thing(j, d, k) = thing
            /\ ~Ended(j)' => (Gone(j, d, k)' <=> Gone(j, d, k) \/ now)
            /\ ~Ended(j)' => (Before(j, d, k) \/ (d = dev[j] /\ k = file[j]) => Before(j, d, k)')
            /\ ~Ended(j)' /\ job[j].kind = "folder" => file'[j] = 1
            /\ Ended(j)' /\ (job[j].kind = "single" \/ j \notin cancelled)
                 => Gone(j, d, k) \/ now
  BY <1>1, <1>3, <1>4, <1>5, GoneAfter
<1>9. dev[j] \in DOMAIN job[j].targets /\ file[j] \in DOMAIN job[j].files /\ file[j] \in Nat
  BY JobFacts
<1>10. \A d, k : Thing(j, d, k)' = Thing(j, d, k)
  BY <1>1 DEF Thing
<1>11. status = "ok" <=> Reached(j, thing)'
  BY <1>2, <1>3, ReachedNow
<1>12. ASSUME NEW i \in DOMAIN h, NEW x, x = h[i].item
       PROVE  /\ x # thing /\ (h[i].status = "ok" <=> Reached(j, x)')
              /\ \E d \in DOMAIN job[j].targets, k \in DOMAIN job[j].files :
                   x = Thing(j, d, k) /\ Gone(j, d, k)
  <2>1. PICK d \in DOMAIN job[j].targets, k \in DOMAIN job[j].files :
          x = Thing(j, d, k) /\ Gone(j, d, k)
    BY <1>1, <1>2, <1>12 DEF ToldAt
  <2>2. Reached(j, Thing(j, d, k))' = Reached(j, Thing(j, d, k))
    BY <1>1, <2>1, ReachedSame
  <2>3. Reached(j, x)' = Reached(j, x)
    BY <1>10, <2>1, <2>2
  <2>4. Thing(j, d, k) # thing
    <3>1. SUFFICES ASSUME Thing(j, d, k) = Item(j)
                   PROVE  FALSE
      BY <1>3
    <3>2. d = dev[j] /\ (job[j].kind # "folder" => k = file[j])
      BY <1>1, <3>1, OneThing DEF Thing, Item
    <3> QED
      BY <1>9, <2>1, <3>2, JobFacts DEF Gone
  <2> QED
    BY <1>2, <1>12, <2>1, <2>3, <2>4 DEF ToldAt
<1>13. \A i \in DOMAIN history'[j] : i \in DOMAIN h \/ i = Len(h) + 1
  BY <1>6
<1>14. ToldAt(j)'
  <2>1. ASSUME NEW i \in DOMAIN history'[j], NEW x, x = history'[j][i].item
        PROVE  /\ history'[j][i].status = "ok" <=> Reached(j, x)'
               /\ \A k \in DOMAIN history'[j] : history'[j][k].item = x => k = i
               /\ \E d \in DOMAIN job[j].targets, k \in DOMAIN job[j].files :
                    x = Thing(j, d, k) /\ (~Ended(j)' => Gone(j, d, k)')
    <3>1. CASE i \in DOMAIN h
      <4>1. history'[j][i] = h[i] /\ x = h[i].item
        BY <1>6, <2>1, <3>1
      <4>2. h[i].status = "ok" <=> Reached(j, x)'
        BY <1>12, <3>1, <4>1
      <4>3. x # thing
        BY <1>12, <3>1, <4>1
      <4>4. \A k \in DOMAIN h : h[k].item = x => k = i
        BY <1>2, <3>1, <4>1 DEF ToldAt
      <4>5. \A k \in DOMAIN history'[j] : history'[j][k].item = x => k = i
        BY <1>6, <1>7, <1>13, <4>3, <4>4
      <4>6. \E d \in DOMAIN job[j].targets, k \in DOMAIN job[j].files :
              x = Thing(j, d, k) /\ (~Ended(j)' => Gone(j, d, k)')
        BY <1>8, <1>12, <3>1, <4>1
      <4> QED
        BY <4>1, <4>2, <4>5, <4>6
    <3>2. CASE i = Len(h) + 1
      <4>1. x = thing /\ history'[j][i].status = status
        BY <1>6, <1>7, <2>1, <3>2
      <4>2. \A k \in DOMAIN history'[j] : history'[j][k].item = x => k = i
        BY <1>6, <1>12, <1>13, <3>2, <4>1
      <4>3. \E d \in DOMAIN job[j].targets, k \in DOMAIN job[j].files :
              x = Thing(j, d, k) /\ (~Ended(j)' => Gone(j, d, k)')
        BY <1>8, <1>9, <4>1
      <4> QED
        BY <1>11, <4>1, <4>2, <4>3
    <3> QED
      BY <1>13, <3>1, <3>2
  <2> QED
    BY <1>1, <1>10, <2>1 DEF ToldAt
<1>15. \A x : x = thing \/ Recorded(j, x) => Recorded(j, x)'
  BY <1>6, <1>7 DEF Recorded
<1>16. ~Ended(j)' => RunningAt(j)'
  <2> SUFFICES ASSUME ~Ended(j)'
               PROVE  RunningAt(j)'
    OBVIOUS
  <2>1. ASSUME NEW d \in DOMAIN job[j].targets, NEW k \in DOMAIN job[j].files, Gone(j, d, k)'
        PROVE  Recorded(j, Thing(j, d, k))'
    <3>1. PICK x : x = Thing(j, d, k)
      OBVIOUS
    <3>2. x = thing \/ Recorded(j, x)
      BY <1>2, <1>8, <2>1, <3>1 DEF RunningAt
    <3> QED
      BY <1>10, <1>15, <3>1, <3>2
  <2>2. ASSUME NEW a \in got'[j]
        PROVE  \E d \in DOMAIN job[j].targets, k \in DOMAIN job[j].files :
                 a = <<job[j].targets[d], job[j].files[k]>> /\ Before(j, d, k)'
    <3>1. CASE a \in got[j]
      BY <1>2, <1>8, <3>1 DEF RunningAt
    <3>2. CASE a = <<Target(j), File(j)>>
      BY <1>8, <1>9, <3>2 DEF Target, File
    <3> QED
      BY <1>1, <2>2, <3>1, <3>2
  <2>3. \A k \in DOMAIN job[j].files : ~(job[j].kind = "folder" /\ k < file'[j])
    BY <1>8, <1>9, JobFacts
  <2> QED
    BY <1>1, <2>1, <2>2, <2>3 DEF RunningAt
<1>17. Ended(j)' => EndedAt(j)'
  <2> SUFFICES ASSUME Ended(j)', job[j].kind = "single" \/ j \notin cancelled,
                      NEW d \in DOMAIN job[j].targets, NEW k \in DOMAIN job[j].files
               PROVE  Recorded(j, Thing(j, d, k))'
    BY <1>1 DEF EndedAt
  <2>1. PICK x : x = Thing(j, d, k)
    OBVIOUS
  <2>2. x = thing \/ Recorded(j, x)
    BY <1>2, <1>8, <2>1 DEF RunningAt
  <2> QED
    BY <1>10, <1>15, <2>1, <2>2
<1> QED
  BY <1>14, <1>16, <1>17 DEF HistAt

LEMMA AckedHistory ==
  ASSUME TypeOK, NEW j \in Jobs, Acked(j), job[j].kind = "folder", ~LastFile(j), HistAt(j)
  PROVE  HistAt(j)'
<1>1. /\ pc[j] = "send" /\ pc' = [pc EXCEPT ![j] = "begin"]
      /\ file' = [file EXCEPT ![j] = @ + 1]
      /\ got' = [got EXCEPT ![j] = @ \cup {<<Target(j), File(j)>>}]
      /\ UNCHANGED <<job, dev, history, cancelled>>
  BY DEF Acked, Goto, uiVars
<1>2. /\ ~Ended(j) /\ ~Ended(j)' /\ file'[j] = file[j] + 1 /\ file[j] \in Nat
      /\ got'[j] = got[j] \cup {<<Target(j), File(j)>>}
  BY <1>1 DEF Ended, TypeOK
<1>3. ToldAt(j) /\ RunningAt(j)
  BY <1>2 DEF HistAt
<1>4. \A d, k : Thing(j, d, k)' = Thing(j, d, k) /\ Gone(j, d, k)' = Gone(j, d, k)
  BY <1>1 DEF Thing, Gone
<1>5. ToldAt(j)'
  <2>1. ASSUME NEW i \in DOMAIN history[j], NEW x, x = history[j][i].item
        PROVE  Reached(j, x)' = Reached(j, x)
    <3>1. PICK d \in DOMAIN job[j].targets, k \in DOMAIN job[j].files :
            x = Thing(j, d, k) /\ Gone(j, d, k)
      BY <1>2, <1>3, <2>1 DEF ToldAt
    <3>2. Reached(j, Thing(j, d, k))' = Reached(j, Thing(j, d, k))
      BY <1>1, <1>2, <3>1, ReachedSame
    <3> QED
      BY <1>4, <3>1, <3>2
  <2> QED
    BY <1>1, <1>2, <1>3, <1>4, <2>1 DEF ToldAt
<1>6. RunningAt(j)'
  <2>1. \A d, k : Gone(j, d, k)' => (Gone(j, d, k) /\ Recorded(j, Thing(j, d, k))'
                                       = Recorded(j, Thing(j, d, k)))
    BY <1>1, <1>4 DEF Recorded
  <2>2. ASSUME NEW a \in got'[j]
        PROVE  \E d \in DOMAIN job[j].targets, k \in DOMAIN job[j].files :
                 a = <<job[j].targets[d], job[j].files[k]>> /\ Before(j, d, k)'
    <3>1. \A d \in DOMAIN job[j].targets, k \in DOMAIN job[j].files :
            Before(j, d, k) \/ (d = dev[j] /\ k = file[j]) => Before(j, d, k)'
      BY <1>1, <1>2, JobFacts DEF Before
    <3>2. CASE a \in got[j]
      BY <1>3, <3>1, <3>2 DEF RunningAt
    <3>3. CASE a = <<Target(j), File(j)>>
      BY <3>1, <3>3, JobFacts DEF Target, File
    <3> QED
      BY <1>2, <2>2, <3>2, <3>3
  <2>3. ASSUME NEW k \in DOMAIN job[j].files, k < file'[j]
        PROVE  <<Target(j), job[j].files[k]>> \in got'[j]
    <3>1. k < file[j] \/ k = file[j]
      BY <1>2, <2>3, JobFacts
    <3> QED
      BY <1>2, <1>3, <3>1 DEF RunningAt, File
  <2>4. Target(j)' = Target(j)
    BY <1>1 DEF Target
  <2> QED
    BY <1>1, <1>3, <2>1, <2>2, <2>3, <2>4 DEF RunningAt
<1> QED
  BY <1>2, <1>5, <1>6 DEF HistAt

(* The other steps of a thread that sends leave what is behind it alone.   *)
LEMMA QuietSteps ==
  ASSUME TypeOK, KindInv, NEW j \in Jobs, Step(j), job[j].kind # "privacy",
         ~Leave(j), ~Abort(j), ~Acked(j)
  PROVE  /\ dev'[j] = dev[j] /\ file'[j] = file[j] /\ history'[j] = history[j]
         /\ got'[j] = got[j] /\ Ended(j)' = Ended(j)
<1> USE DEF Goto, Return, doneVars, Ended, TypeOK
<1>1. CASE Show(j) \/ Hide(j)
  BY <1>1 DEF Show, Hide
<1>2. CASE Prepare(j) \/ Scan(j)
  BY <1>2 DEF Prepare, Scan
<1>3. CASE Mat2Writes(j)
  BY <1>3 DEF Mat2Writes, jobVars
<1>4. CASE Mat2Ends(j) \/ Mat2Fails(j) \/ Look(j)
  BY <1>4 DEF Mat2Ends, Mat2Fails, Look
<1>5. CASE Clean(j) \/ NoCleaner(j) \/ Begin(j)
  BY <1>5 DEF Clean, NoCleaner, Begin
<1>6. ~NextFile(j)
  BY DEF NextFile
<1> QED
  BY <1>1, <1>2, <1>3, <1>4, <1>5, <1>6 DEF Step

LEMMA HistStep ==
  ASSUME TypeOK, KindInv, HistInv, [Next]_vars
  PROVE  HistInv'
<1>1. CASE Window
  <2>1. UNCHANGED <<job, pc, dev, file, history, got>>
    BY <1>1, WindowMoves
  <2>2. cancelled \subseteq cancelled'
    BY <1>1 DEF Window, ClickNormal, ClickFolder, ClickSecret, ClickDistribute, Ask, Dismiss,
                ClickCancel, TurnBar, CleaningDone, uiVars
  <2> QED
    BY <2>1, <2>2, SameHistory DEF HistInv, Ended
<1>2. ASSUME NEW c \in Choices, NEW first \in {"show", "prepare"}, Start(c, first),
             NEW j \in Jobs, j = started + 1
      PROVE  HistInv'
  <2>1. /\ UNCHANGED <<dev, file, history, got, cancelled>>
        /\ job' = [job EXCEPT ![j] = c] /\ pc' = [pc EXCEPT ![j] = first]
    BY <1>2 DEF Start, doneVars, uiVars
  <2>2. \A k \in Jobs \ {j} : pc'[k] = pc[k] /\ job'[k] = job[k]
    BY <2>1 DEF TypeOK
  <2>3. \A k \in Jobs \ {j} : job[k].kind # "privacy" => HistAt(k)'
    BY <2>1, <2>2, SameHistory DEF HistInv, Ended
  <2>4. job'[j] = c /\ pc'[j] = first /\ pc[j] = "none"
    BY <1>2, <2>1 DEF KindInv, TypeOK
  <2>5. AtStart(j)' /\ ~Ended(j)'
    BY <2>1, <2>4 DEF KindInv, AtStart, Ended
  <2>6. ToldAt(j)'
    BY <2>5 DEF ToldAt, AtStart
  <2>7. DOMAIN c.targets \subseteq Nat \ {0} /\ DOMAIN c.files \subseteq Nat \ {0}
    <3>1. c.targets \in Seq(Devices) /\ c.files \in Seq(Files)
      BY DeskAssumption
    <3> QED
      BY <3>1, LenProperties
  <2>8. RunningAt(j)'
    <3>1. dev'[j] = 1 /\ file'[j] = 1 /\ got'[j] = {}
      BY <2>5 DEF AtStart
    <3>2. \A k \in DOMAIN job'[j].files : ~(k < file'[j])
      BY <2>4, <2>7, <3>1
    <3>3. \A d \in DOMAIN job'[j].targets, k \in DOMAIN job'[j].files :
            Gone(j, d, k)' => Recorded(j, Thing(j, d, k))'
      BY <2>4, <2>7, <3>1 DEF Gone
    <3> QED
      BY <3>1, <3>2, <3>3 DEF RunningAt
  <2> QED
    BY <2>2, <2>3, <2>5, <2>6, <2>8 DEF HistInv, HistAt
<1>3. ASSUME NEW j \in Jobs, Step(j)
      PROVE  HistInv'
  <2>1. UNCHANGED <<job, cancelled>>
    BY <1>3, OtherJobs
  <2>2. \A k \in Jobs \ {j} : job[k].kind # "privacy" => HistAt(k)'
    BY <1>3, <2>1, OtherJobs, SameHistory DEF HistInv, Other, Ended
  <2>3. ASSUME job[j].kind # "privacy"
        PROVE  HistAt(j)'
    <3>1. HistAt(j)
      BY <2>3 DEF HistInv
    <3>2. CASE Leave(j)
      <4>1. /\ job[j].kind = "multi" /\ j \in cancelled /\ ~Ended(j)
            /\ UNCHANGED <<job, dev, file, history, got, cancelled>> /\ Ended(j)'
        BY <3>2 DEF Leave, StopsHere, Goto, Ended, doneVars, uiVars, TypeOK
      <4>2. ToldAt(j)'
        BY <3>1, <4>1 DEF HistAt, ToldAt, Reached, FilesOf, Thing
      <4>3. EndedAt(j)'
        BY <4>1 DEF EndedAt
      <4> QED
        BY <4>1, <4>2, <4>3 DEF HistAt
    <3>3. CASE Acked(j) /\ job[j].kind = "folder" /\ ~LastFile(j)
      BY <3>1, <3>3, AckedHistory
    <3>4. CASE Abort(j) \/ (Acked(j) /\ ~(job[j].kind = "folder" /\ ~LastFile(j)))
      BY <3>1, <3>4, Finished, FinishHistory
    <3>5. CASE ~Leave(j) /\ ~Abort(j) /\ ~Acked(j)
      <4>1. /\ dev'[j] = dev[j] /\ file'[j] = file[j] /\ history'[j] = history[j]
            /\ got'[j] = got[j] /\ Ended(j)' = Ended(j)
        BY <1>3, <2>3, <3>5, QuietSteps
      <4> QED
        BY <2>1, <3>1, <4>1, SameHistory
    <3> QED
      BY <3>2, <3>3, <3>4, <3>5
  <2> QED
    BY <2>1, <2>2, <2>3 DEF HistInv
<1>4. CASE UNCHANGED vars
  <2>1. UNCHANGED <<job, pc, dev, file, history, got, cancelled>>
    BY <1>4 DEF vars, jobVars, doneVars, uiVars
  <2> QED
    BY <2>1, SameHistory DEF HistInv, Ended
<1>5. ASSUME NEW c \in Choices, NEW first, Start(c, first)
      PROVE  started + 1 \in Jobs
  BY <1>5, DeskAssumption DEF Start, TypeOK, Jobs
<1> QED
  BY <1>1, <1>2, <1>3, <1>4, <1>5, SomeStep

----------------------------------------------------------------------------
(* The inductive invariant, and what follows from it                       *)

IInv == BaseInv /\ CopyInv /\ CleanInv /\ HistInv

LEMMA InitInv ==
  ASSUME Init
  PROVE  IInv
<1>1. Unset \in Choices
  BY DeskAssumption DEF Unset
<1>2. \A c \in Choices : 1 \in DOMAIN c.targets /\ 1 \in DOMAIN c.files
  <2> TAKE c \in Choices
  <2>1. c.targets \in Seq(Devices) \ {<<>>} /\ c.files \in Seq(Files) \ {<<>>}
    BY DeskAssumption
  <2> QED
    BY <2>1, EmptySeq, LenProperties
<1>3. TypeOK
  <2>1. <<>> \in Seq(Entries) /\ <<>> \in Seq({"show", "hide", "cleaned"})
    OBVIOUS
  <2>2. /\ job \in [Jobs -> Choices] /\ started \in 0..MaxJobs /\ cancel \in 0..started
        /\ \A j \in Jobs : dev[j] \in DOMAIN job[j].targets /\ file[j] \in DOMAIN job[j].files
    BY <1>1, <1>2, DeskAssumption DEF Init
  <2> QED
    BY <2>1, <2>2 DEF Init, TypeOK
<1>4. KindInv /\ BarInv
  <2>1. DOMAIN idle = {} /\ \A j \in Jobs : j > started
    BY DeskAssumption DEF Init, Jobs
  <2> QED
    BY <2>1 DEF Init, KindInv, BarInv, AtStart
<1>5. CopyInv /\ CleanInv
  BY DEF Init, CopyInv, CleanInv, CleanAt
<1>6. HistInv
  <2> SUFFICES ASSUME NEW j \in Jobs
               PROVE  HistAt(j)
    BY DEF HistInv
  <2>1. AtStart(j) /\ ~Ended(j)
    BY DEF Init, AtStart, Ended
  <2>2. ToldAt(j)
    BY <2>1 DEF ToldAt, AtStart
  <2>3. RunningAt(j)
    BY <1>3, <2>1, JobFacts DEF RunningAt, AtStart, Gone
  <2> QED
    BY <2>1, <2>2, <2>3 DEF HistAt
<1> QED
  BY <1>3, <1>4, <1>5, <1>6 DEF IInv, BaseInv

LEMMA StepInv ==
  ASSUME IInv, [Next]_vars
  PROVE  IInv'
<1> USE DEF IInv, BaseInv
<1>1. TypeOK' /\ KindInv' /\ BarInv'
  BY TypeStep, KindStep, BarStep
<1>2. CopyInv' /\ CleanInv' /\ HistInv'
  BY CopyStep, CleanStep, HistStep
<1> QED
  BY <1>1, <1>2

THEOREM InductiveInvariant == Spec => []IInv
<1>1. Init => IInv
  BY InitInv
<1>2. IInv /\ [Next]_vars => IInv'
  BY StepInv
<1> QED
  BY <1>1, <1>2, PTL DEF Spec

\* Every variable has its type: a job is at a device and a file of its own, and
\* only jobs that have been started are cancelled or have copies.
THEOREM TypeCorrect == Spec => []TypeOK
  BY InductiveInvariant, PTL DEF IInv, BaseInv

(* The items of a job are what its devices and files make.                 *)
LEMMA ItemsAreThings ==
  ASSUME TypeOK, NEW j \in Jobs
  PROVE  \A x : x \in ItemsOf(j) <=> \E d \in DOMAIN job[j].targets, k \in DOMAIN job[j].files :
                                        x = Thing(j, d, k)
<1>1. 1 \in DOMAIN job[j].files
  BY JobFacts
<1> QED
  BY <1>1 DEF ItemsOf, Thing

LEMMA InvTells ==
  ASSUME IInv
  PROVE  HistoryTells
<1> USE DEF IInv, BaseInv
<1> SUFFICES ASSUME NEW j \in 1..started
             PROVE  /\ \A i \in DOMAIN history[j] :
                         /\ history[j][i].status = "ok" <=> Reached(j, history[j][i].item)
                         /\ \A k \in DOMAIN history[j] :
                              history[j][k].item = history[j][i].item => k = i
                    /\ pc[j] = "done" /\ job[j].kind # "privacy"
                       /\ (job[j].kind = "single" \/ j \notin cancelled)
                          => {history[j][i].item : i \in DOMAIN history[j]} = ItemsOf(j)
  BY DEF HistoryTells
<1>1. j \in Jobs
  BY DeskAssumption DEF TypeOK, Jobs
<1>2. CASE job[j].kind = "privacy"
  BY <1>1, <1>2 DEF KindInv
<1>3. CASE job[j].kind # "privacy"
  <2>1. ToldAt(j)
    BY <1>1, <1>3 DEF HistInv, HistAt
  <2>2. ASSUME pc[j] = "done", job[j].kind = "single" \/ j \notin cancelled
        PROVE  {history[j][i].item : i \in DOMAIN history[j]} = ItemsOf(j)
    <3>1. EndedAt(j)
      BY <1>1, <1>3, <2>2 DEF HistInv, HistAt, Ended
    <3>2. \A i \in DOMAIN history[j] : history[j][i].item \in ItemsOf(j)
      BY <1>1, <2>1, ItemsAreThings DEF ToldAt
    <3>3. \A x \in ItemsOf(j) : \E i \in DOMAIN history[j] : history[j][i].item = x
      BY <1>1, <2>2, <3>1, ItemsAreThings DEF EndedAt, Recorded
    <3> QED
      BY <3>2, <3>3
  <2> QED
    BY <2>1, <2>2 DEF ToldAt
<1> QED
  BY <1>2, <1>3

\* _record_sent (window.py 2659-2666, 2767-2774, 2841-2848): one record for each
\* file or folder and device, true, and none missing unless the user cancelled.
THEOREM HistoryIsTrue == Spec => []HistoryTells
  BY InvTells, InductiveInvariant, PTL

\* send_file looks at the cancel event first (transfer.py 191-192, 265-266,
\* 318-319): after Cancel nothing is begun, and only what was being sent arrives.
THEOREM NothingAfterCancel == Spec => CancelStops
<1>1. IInv /\ [Next]_vars
        => [\A j \in cancelled : pc[j] # "send" => pc'[j] # "send" /\ got'[j] = got[j]]_vars
  BY CancelMoves DEF IInv, BaseInv
<1> QED
  BY <1>1, InductiveInvariant, PTL DEF Spec, CancelStops

\* prepare_send_file and clean_file (metadata_cleaner.py 238-282, 386-417): the file as it is is
\* sent only where MAT2 is not there or failed, jobs met at the file, or the copy was not made or
\* the result not moved; and half a result only where MAT2 gave up or jobs met.
THEOREM CleanIsSent == Spec => []SentClean
<1>1. ASSUME IInv
      PROVE  SentClean
  <2> SUFFICES ASSUME NEW j \in 1..started, pc[j] = "send", job[j].clean
               PROVE  /\ source[j] = "original" => ~Mat2 \/ j \in doubtful \cup failed
                      /\ source[j] = "half" => j \in doubtful
    BY DEF SentClean
  <2>1. j \in Jobs /\ CleanAt(j)
    BY <1>1, DeskAssumption DEF IInv, BaseInv, CleanInv, TypeOK, Jobs
  <2>2. source[j] = "original" => ~Mat2 \/ j \in doubtful \cup failed
    BY <2>1, DeskAssumption DEF CleanAt
  <2>3. source[j] = "half" => j \in doubtful
    BY <2>1 DEF CleanAt
  <2> QED
    BY <2>2, <2>3
<1> QED
  BY <1>1, InductiveInvariant, PTL

\* The finally of every sending job (window.py 2673-2678, 2775-2780): no copy of
\* a file stays behind in the temporary directory.
THEOREM NoCopyStays == Spec => []CopiesRemoved
<1>1. IInv => CopiesRemoved
  BY DEF IInv, CopyInv, CopiesRemoved
<1> QED
  BY <1>1, InductiveInvariant, PTL

----------------------------------------------------------------------------
(* Discovery                                                               *)

Due(f) == pending[f].at = "due"

(* The newest copy is of the list as it is, or somebody is about to copy   *)
(* it anew; and once it was handed over, so is what the window shows.      *)
CopyOfList ==
  /\ newest # Nobody => /\ pending[newest].at = "copied"
                        /\ pending[newest].copy = devices \/ \E f \in Finders : Due(f)
  /\ newest = Nobody => shown = devices \/ overtaken \/ \E f \in Finders : Due(f)

(* Unless a stop came before a scan thread had started its process, at     *)
(* most the thread of the last start has yet to start it, and no other     *)
(* process lives then.                                                     *)
OneScan ==
  /\ \A k \in Scans : k > starts => scan[k] = "none"
  /\ ~late =>
       /\ procs \subseteq {scanProc} \cap Scans
       /\ ~active => procs = {} /\ \A k \in Scans : scan[k] # "power"
       /\ \A k \in Scans : scan[k] = "power" => k = starts /\ procs = {}

DiscoveryInv == DiscoveryTypeOK /\ CopyOfList /\ OneScan

LEMMA FoundBy ==
  /\ Browser \in Finders /\ Main \in Finders /\ Scans \subseteq Finders
  /\ Nobody \notin Finders /\ NoProc \notin Scans
  /\ Nothing \in Lists /\ Idle.at = "idle"
  /\ Finders # {} /\ Scans \subseteq Nat
  BY DiscoveryAssumption
     DEF Browser, Main, Finders, Scans, Nobody, NoProc, Nothing, Lists, Idle, Pending

LEMMA DiscoveryStart == DiscoveryInit => DiscoveryInv
<1> SUFFICES ASSUME DiscoveryInit PROVE DiscoveryInv
  OBVIOUS
<1>1. DiscoveryTypeOK
  <2>1. Idle \in [at : {"idle", "due", "copied"}, copy : Lists]
    BY FoundBy DEF Idle, Pending
  <2>2. pending \in [Finders -> [at : {"idle", "due", "copied"}, copy : Lists]]
    BY <2>1 DEF DiscoveryInit
  <2>3. starts \in 0..MaxStarts
    BY DiscoveryAssumption DEF DiscoveryInit
  <2>4. scan \in [Scans -> {"none", "power", "check", "reading", "hci", "listing", "ended"}]
    BY DEF DiscoveryInit
  <2>5. reads \in [Scans -> Scans \cup {NoProc}]
    BY DEF DiscoveryInit
  <2> QED
    BY <2>2, <2>3, <2>4, <2>5, FoundBy DEF DiscoveryInit, DiscoveryTypeOK
<1>2. CopyOfList /\ OneScan
  BY FoundBy DEF DiscoveryInit, CopyOfList, OneScan
<1> QED
  BY <1>1, <1>2 DEF DiscoveryInv

(* What a scan thread finds is a record it enters, and moves it at most.   *)
LEMMA FindMoves ==
  ASSUME DiscoveryTypeOK, NEW k \in Scans, ScanFinds(k)
  PROVE  /\ \E d \in Addresses : Enter(k, d, "ble")
         /\ scan' = scan \/ scan' = [scan EXCEPT ![k] = "check"]
         /\ reads' = reads \/ reads' = [reads EXCEPT ![k] = NoProc]
         /\ UNCHANGED <<switch, procs, scanProc>>
  BY DEF ScanFinds, LineFinds, ListFinds, HciFinds, ReportDevice, BleFound, Addresses, switch

(* Every step is one of the switch, of a thread, of a finder that enters   *)
(* a record, or of one that passes the list on.                            *)
LEMMA EnterMoves ==
  ASSUME DiscoveryTypeOK, NEW f \in Finders, NEW d \in Addresses, NEW from, Enter(f, d, from)
  PROVE  /\ pending' = [pending EXCEPT ![f] = Pending("due", Nothing)] /\ pending[f] = Idle
         /\ pending'[f].at = "due" /\ \A g \in Finders \ {f} : pending'[g] = pending[g]
         /\ UNCHANGED <<shown, newest, overtaken>>
  BY DEF Enter, DiscoveryTypeOK, Pending

LEMMA DiscoveryMoves ==
  ASSUME DiscoveryTypeOK, [DiscoveryNext]_discoveryVars
  PROVE  \/ UNCHANGED list
         \/ \E f \in Finders, d \in Addresses, from \in {"mdns", "ble", "manual"} : Enter(f, d, from)
         \/ \E f \in Finders : Copy(f) \/ HandOver(f) \/ NobodyListens(f)
<1>1. CASE StartDiscovery \/ StopDiscovery
  BY <1>1 DEF StartDiscovery, StopDiscovery
<1>2. CASE Report \/ UserAdds
  BY <1>2, FoundBy DEF Report, UserAdds, MdnsFound, Upsert, Addresses
<1>3. ASSUME NEW k \in Scans, ScanStep(k) \/ ReadLine(k) \/ ScanExits(k)
      PROVE  UNCHANGED list
  BY <1>3 DEF ScanStep, StartScan, Check, LoopEnds, ReadLine, ScanExits
<1>4. ASSUME NEW k \in Scans, ScanFinds(k)
      PROVE  \E f \in Finders, d \in Addresses : Enter(f, d, "ble")
  BY <1>4, FindMoves, FoundBy
<1>5. CASE UNCHANGED discoveryVars
  BY <1>5 DEF discoveryVars
<1> QED
  BY <1>1, <1>2, <1>3, <1>4, <1>5 DEF DiscoveryNext

LEMMA CopyOfListStep ==
  ASSUME DiscoveryTypeOK, CopyOfList, [DiscoveryNext]_discoveryVars
  PROVE  CopyOfList'
<1>1. CASE UNCHANGED list
  BY <1>1 DEF CopyOfList, Due, list
<1>2. ASSUME NEW f \in Finders, NEW d \in Addresses, NEW from \in {"mdns", "ble", "manual"},
             Enter(f, d, from)
      PROVE  CopyOfList'
  <2>1. pending'[f].at = "due" /\ \A g \in Finders \ {f} : pending'[g] = pending[g]
    BY <1>2, EnterMoves
  <2>2. newest' = newest /\ (newest # Nobody => newest \in Finders \ {f})
    BY <1>2, EnterMoves, FoundBy DEF CopyOfList, DiscoveryTypeOK
  <2> QED
    BY <2>1, <2>2 DEF CopyOfList, Due
<1>3. ASSUME NEW f \in Finders, Copy(f)
      PROVE  CopyOfList'
  <2>1. newest' = f /\ pending'[f].at = "copied" /\ pending'[f].copy = devices'
    BY <1>3 DEF Copy, Pending, DiscoveryTypeOK
  <2> QED
    BY <2>1, FoundBy DEF CopyOfList
<1>4. ASSUME NEW f \in Finders, HandOver(f) \/ NobodyListens(f)
      PROVE  CopyOfList'
  <2>1. /\ devices' = devices /\ pending[f].at = "copied"
        /\ \A g \in Finders \ {f} : pending'[g] = pending[g]
    BY <1>4 DEF HandOver, NobodyListens, DiscoveryTypeOK
  <2>2. \A g \in Finders : Due(g) => Due(g)'
    BY <2>1 DEF Due
  <2>3. CASE HandOver(f) /\ newest = f
    BY <2>1, <2>2, <2>3, FoundBy DEF HandOver, CopyOfList
  <2>4. CASE HandOver(f) /\ newest = Nobody
    BY <2>4, FoundBy DEF HandOver, CopyOfList
  <2>5. CASE HandOver(f) /\ newest # f /\ newest # Nobody
    <3>1. newest' = newest /\ newest \in Finders \ {f}
      BY <2>5 DEF HandOver, DiscoveryTypeOK
    <3> QED
      BY <2>1, <2>2, <3>1, <2>5 DEF CopyOfList
  <2>6. CASE NobodyListens(f)
    BY <2>6 DEF NobodyListens, CopyOfList
  <2> QED
    BY <1>4, <2>3, <2>4, <2>5, <2>6
<1> QED
  BY <1>1, <1>2, <1>3, <1>4, DiscoveryMoves

LEMMA OneScanStep ==
  ASSUME DiscoveryTypeOK, OneScan, [DiscoveryNext]_discoveryVars
  PROVE  OneScan'
<1>1. starts \in Nat /\ Scans \subseteq Nat
  BY FoundBy, DiscoveryAssumption DEF DiscoveryTypeOK
<1>2. CASE StartDiscovery
  <2>1. /\ starts' = starts + 1 /\ ~active /\ UNCHANGED <<late, procs, scanProc>>
        /\ \A k \in Scans : scan'[k] = IF k = starts + 1 THEN FirstPlace ELSE scan[k]
    BY <1>2 DEF StartDiscovery, StartScanning, DiscoveryTypeOK
  <2>2. active'
    BY <1>2 DEF StartDiscovery
  <2> QED
    BY <1>1, <2>1, <2>2 DEF OneScan
<1>3. CASE StopDiscovery
  BY <1>1, <1>3 DEF StopDiscovery, StopScan, OneScan
<1>4. ASSUME NEW k \in Scans, StartScan(k)
      PROVE  OneScan'
  <2>1. /\ scan[k] = "power" /\ scan'[k] \in {"check", "listing"} /\ UNCHANGED switch
        /\ \A i \in Scans \ {k} : scan'[i] = scan[i]
        /\ UNCHANGED <<procs, scanProc>> \/ (procs' = procs \cup {k} /\ scanProc' = k)
    BY <1>4 DEF StartScan, DiscoveryTypeOK
  <2> QED
    BY <1>1, <2>1 DEF OneScan, switch
<1>5. ASSUME NEW k \in Scans, Check(k) \/ LoopEnds(k) \/ ReadLine(k) \/ ScanFinds(k)
      PROVE  OneScan'
  <2>1. UNCHANGED <<switch, procs, scanProc>>
    BY <1>5, FindMoves DEF Check, LoopEnds, ReadLine
  <2>2. \/ scan' = scan
        \/ scan[k] # "none" /\ \E at \in {"check", "reading", "listing", "ended"} :
              scan' = [scan EXCEPT ![k] = at]
    BY <1>5, FindMoves
       DEF Check, LoopEnds, ReadLine, ScanFinds, LineFinds, ListFinds, HciFinds, DiscoveryTypeOK
  <2>3. \A i \in Scans : /\ scan[i] = "none" => scan'[i] = "none"
                         /\ scan'[i] = "power" => scan[i] = "power"
    BY <2>2 DEF DiscoveryTypeOK
  <2> QED
    BY <1>1, <2>1, <2>3 DEF OneScan, switch
<1>6. ASSUME NEW k \in Scans, ScanExits(k)
      PROVE  OneScan'
  BY <1>1, <1>6 DEF ScanExits, OneScan, switch
<1>7. ASSUME UNCHANGED <<switch, threads>>
      PROVE  OneScan'
  BY <1>7 DEF OneScan, switch, threads
<1>8. CASE Report \/ UserAdds \/ UNCHANGED discoveryVars
  BY <1>7, <1>8 DEF Report, UserAdds, discoveryVars
<1>9. ASSUME NEW f \in Finders, Copy(f) \/ HandOver(f) \/ NobodyListens(f)
      PROVE  OneScan'
  BY <1>7, <1>9 DEF Copy, HandOver, NobodyListens
<1> QED
  BY <1>2, <1>3, <1>4, <1>5, <1>6, <1>8, <1>9 DEF DiscoveryNext, ScanStep

LEMMA SwitchTypes ==
  ASSUME DiscoveryTypeOK, [DiscoveryNext]_discoveryVars
  PROVE  /\ tool' \in Tools /\ active' \in BOOLEAN /\ starts' \in 0..MaxStarts
         /\ zeroconf' \in BOOLEAN /\ (zeroconf' => active') /\ late' \in BOOLEAN
<1>1. CASE StartDiscovery
  <2>1. starts' \in 0..MaxStarts
    BY <1>1, DiscoveryAssumption DEF StartDiscovery, DiscoveryTypeOK
  <2>2. active' = TRUE /\ (zeroconf' = TRUE \/ zeroconf' = FALSE) /\ UNCHANGED <<tool, late>>
    BY <1>1 DEF StartDiscovery, Broadcast, StartZeroconf, StartFailure
  <2> QED
    BY <2>1, <2>2 DEF DiscoveryTypeOK
<1>2. CASE StopDiscovery
  BY <1>2 DEF StopDiscovery, CloseMdns, DiscoveryTypeOK
<1>3. CASE UNCHANGED switch
  BY <1>3 DEF switch, DiscoveryTypeOK
<1>4. ASSUME NEW k \in Scans, ScanStep(k) \/ ReadLine(k) \/ ScanExits(k) \/ ScanFinds(k)
      PROVE  UNCHANGED switch
  BY <1>4, FindMoves DEF ScanStep, StartScan, Check, LoopEnds, ReadLine, ScanExits
<1>5. ASSUME NEW f \in Finders, Copy(f) \/ HandOver(f) \/ NobodyListens(f)
      PROVE  UNCHANGED switch
  BY <1>5 DEF Copy, HandOver, NobodyListens
<1>6. CASE Report \/ UserAdds \/ UNCHANGED discoveryVars
  BY <1>3, <1>6 DEF Report, UserAdds, discoveryVars
<1> QED
  BY <1>1, <1>2, <1>3, <1>4, <1>5, <1>6 DEF DiscoveryNext

LEMMA ScanTypes ==
  ASSUME DiscoveryTypeOK, [DiscoveryNext]_discoveryVars
  PROVE  /\ scan' \in [Scans -> {"none", "power", "check", "reading", "hci", "listing", "ended"}]
         /\ reads' \in [Scans -> Scans \cup {NoProc}]
         /\ procs' \subseteq Scans /\ scanProc' \in Scans \cup {NoProc}
<1> USE DEF DiscoveryTypeOK
<1>1. CASE StartDiscovery
  BY <1>1 DEF StartDiscovery, StartScanning, FirstPlace
<1>2. CASE StopDiscovery
  BY <1>2 DEF StopDiscovery, StopScan
<1>3. ASSUME NEW k \in Scans, StartScan(k) \/ Check(k) \/ LoopEnds(k)
      PROVE  /\ scan' \in [Scans -> {"none", "power", "check", "reading", "hci", "listing", "ended"}]
             /\ reads' \in [Scans -> Scans \cup {NoProc}]
             /\ procs' \subseteq Scans /\ scanProc' \in Scans \cup {NoProc}
  BY <1>3 DEF StartScan, Check, LoopEnds
<1>4. ASSUME NEW k \in Scans, ReadLine(k) \/ ScanExits(k)
      PROVE  /\ scan' \in [Scans -> {"none", "power", "check", "reading", "hci", "listing", "ended"}]
             /\ reads' \in [Scans -> Scans \cup {NoProc}]
             /\ procs' \subseteq Scans /\ scanProc' \in Scans \cup {NoProc}
  BY <1>4 DEF ReadLine, ScanExits
<1>5. ASSUME NEW k \in Scans, ScanFinds(k)
      PROVE  /\ scan' \in [Scans -> {"none", "power", "check", "reading", "hci", "listing", "ended"}]
             /\ reads' \in [Scans -> Scans \cup {NoProc}]
             /\ procs' \subseteq Scans /\ scanProc' \in Scans \cup {NoProc}
  BY <1>5, FindMoves
<1>6. CASE UNCHANGED threads
  BY <1>6 DEF threads
<1>7. CASE Report \/ UserAdds \/ UNCHANGED discoveryVars
  BY <1>6, <1>7 DEF Report, UserAdds, discoveryVars
<1>8. ASSUME NEW f \in Finders, Copy(f) \/ HandOver(f) \/ NobodyListens(f)
      PROVE  UNCHANGED threads
  BY <1>8 DEF Copy, HandOver, NobodyListens
<1> QED
  BY <1>1, <1>2, <1>3, <1>4, <1>5, <1>6, <1>7, <1>8 DEF DiscoveryNext, ScanStep

LEMMA ListTypes ==
  ASSUME DiscoveryTypeOK, [DiscoveryNext]_discoveryVars
  PROVE  /\ devices' \in Lists /\ shown' \in Lists
         /\ pending' \in [Finders -> [at : {"idle", "due", "copied"}, copy : Lists]]
         /\ newest' \in Finders \cup {Nobody} /\ overtaken' \in BOOLEAN
<1> USE DEF DiscoveryTypeOK
<1>1. CASE UNCHANGED list
  BY <1>1 DEF list
<1>2. ASSUME NEW f \in Finders, NEW d \in Addresses, NEW from \in {"mdns", "ble", "manual"},
             Enter(f, d, from)
      PROVE  /\ devices' \in Lists
             /\ pending' \in [Finders -> [at : {"idle", "due", "copied"}, copy : Lists]]
             /\ UNCHANGED <<shown, newest, overtaken>>
  <2>1. devices' \in Lists
    BY <1>2 DEF Enter, Lists
  <2> QED
    BY <1>2, <2>1, EnterMoves, FoundBy DEF Pending
<1>3. ASSUME NEW f \in Finders, Copy(f)
      PROVE  /\ pending' \in [Finders -> [at : {"idle", "due", "copied"}, copy : Lists]]
             /\ newest' = f /\ overtaken' = FALSE /\ UNCHANGED <<devices, shown>>
  BY <1>3 DEF Copy, Pending
<1>4. ASSUME NEW f \in Finders, HandOver(f) \/ NobodyListens(f)
      PROVE  /\ pending' \in [Finders -> [at : {"idle", "due", "copied"}, copy : Lists]]
             /\ shown' \in Lists /\ devices' = devices
             /\ newest' \in Finders \cup {Nobody} /\ overtaken' \in BOOLEAN
  <2>1. Idle \in [at : {"idle", "due", "copied"}, copy : Lists]
    BY FoundBy DEF Idle, Pending
  <2>2. pending' \in [Finders -> [at : {"idle", "due", "copied"}, copy : Lists]]
    BY <1>4, <2>1 DEF HandOver, NobodyListens
  <2>3. shown' \in Lists /\ devices' = devices /\ newest' \in Finders \cup {Nobody}
    BY <1>4 DEF HandOver, NobodyListens
  <2>4. overtaken' = (newest = Nobody) \/ overtaken' = TRUE
    BY <1>4 DEF HandOver, NobodyListens
  <2> QED
    BY <2>2, <2>3, <2>4
<1>5. CASE \E f \in Finders : Copy(f) \/ HandOver(f) \/ NobodyListens(f)
  <2>1. PICK f \in Finders : Copy(f) \/ HandOver(f) \/ NobodyListens(f)
    BY <1>5
  <2>2. CASE Copy(f)
    BY <2>2, <1>3
  <2>3. CASE HandOver(f) \/ NobodyListens(f)
    BY <2>3, <1>4
  <2> QED
    BY <2>1, <2>2, <2>3
<1>6. CASE \E f \in Finders, d \in Addresses, from \in {"mdns", "ble", "manual"} : Enter(f, d, from)
  BY <1>2, <1>6
<1> QED
  BY <1>1, <1>5, <1>6, DiscoveryMoves

THEOREM DiscoveryInductive == DiscoverySpec => []DiscoveryInv
<1>1. DiscoveryTypeOK /\ [DiscoveryNext]_discoveryVars => DiscoveryTypeOK'
  BY SwitchTypes, ScanTypes, ListTypes DEF DiscoveryTypeOK
<1>2. DiscoveryInv /\ [DiscoveryNext]_discoveryVars => DiscoveryInv'
  BY <1>1, CopyOfListStep, OneScanStep DEF DiscoveryInv
<1> QED
  BY <1>2, DiscoveryStart, PTL DEF DiscoverySpec

(* Types of discovery, for any addresses and any number of starts.         *)
THEOREM DiscoveryTypeCorrect == DiscoverySpec => []DiscoveryTypeOK
  BY DiscoveryInductive, PTL DEF DiscoveryInv

(* When nothing is on its way the window shows every device, as the finder *)
(* that came last described it, unless a newer copy overtook or nobody     *)
(* listened yet, for any number of finders (device_manager.py 150-168).    *)
THEOREM FoundIsShown == DiscoverySpec => []ShownUnlessOvertaken
<1>1. DiscoveryInv => ShownUnlessOvertaken
  BY FoundBy DEF DiscoveryInv, DiscoveryTypeOK, CopyOfList, Due, ShownUnlessOvertaken
<1> QED
  BY <1>1, DiscoveryInductive, PTL

(* A scan process out of reach comes only from a thread that discovery was *)
(* turned off on before it had started it (ble_discovery.py 44-57,         *)
(* 236-255).                                                               *)
THEOREM StraysAreLate == DiscoverySpec => []StrayScanIsLate
<1>1. DiscoveryInv => StrayScanIsLate
  BY DEF DiscoveryInv, OneScan, StrayScanIsLate
<1> QED
  BY <1>1, DiscoveryInductive, PTL

=============================================================================
