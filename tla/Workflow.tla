------------------------------ MODULE Workflow ------------------------------
(***************************************************************************)
(* The Workflow tab, its worker threads and the hardware provider they     *)
(* share: src/workflowtab.cpp with src/mainwindow.cpp, src/hardwaretab.cpp *)
(* and the run() of the three jobs as far as the tab can tell.             *)
(*                                                                         *)
(* Three kinds of actor interleave: the GUI thread, which handles clicks   *)
(* and, in order, the calls other threads have queued for it; a worker     *)
(* thread per start; and the event loop of a worker thread.  A signal to a *)
(* receiver of another thread is an entry of "queue"; a message box keeps  *)
(* the handler that opened it waiting while the queue goes on being        *)
(* served, and takes all clicks.                                           *)
(***************************************************************************)
EXTENDS Naturals, Sequences, FiniteSets

CONSTANTS
    MaxJobs,    \* bound: starts that reach a worker thread
    MaxGens,    \* bound: providers a patient user opens one after the other
    HastyGens,  \* bound: providers any other user opens
    MaxCalls,   \* bound: provider calls a job makes
    NULL        \* the null pointer

ASSUME WorkflowAssumption ==
    /\ {MaxJobs, MaxGens, HastyGens, MaxCalls} \subseteq Nat
    /\ NULL \notin Nat

Jobs  == 1..MaxJobs
Kinds == {"capture", "write", "decode"}

VARIABLES
    patient,   \* (frozen) a user who starts nothing while an aborted worker is
               \* at work, and leaves the Hardware tab alone while one is
    running,   \* WorkflowTab::m_isRunning
    active,    \* the one of m_captureJob, m_writeJob, m_decodeJob that is set
    pointer,   \* WorkflowTab::m_workerThread, by the job it was made for
    gw,        \* WorkflowTab::m_gwProvider
    device,    \* the provider HardwareTab owns
    opened,    \* providers opened so far
    guiCall,   \* the GUI thread is inside a provider call
    kind, provider, cancel, \* members of each job
    pc,        \* where each job's run() is
    calls,     \* provider calls each run() has still to make
    doomed,    \* deleteLater has been called on the job
    thread,    \* each job's QThread
    queue,     \* calls queued for the GUI thread, oldest first
    boxes,     \* open message boxes, the topmost first
    told,      \* (history) what operationFinished said of each job
    misuse     \* (history) a provider was used after it was destroyed

tab  == <<running, active, pointer>>
hw   == <<gw, device, opened, guiCall>>
job  == <<kind, provider, cancel, pc, calls, doomed>>
desk == <<tab, hw, job, thread, queue, boxes, told, misuse>>
vars == <<patient, desk>>

Init ==
    /\ patient \in BOOLEAN
    /\ running = FALSE
    /\ active = NULL
    /\ pointer = NULL
    /\ gw = NULL
    /\ device = NULL
    /\ opened = 0
    /\ guiCall = FALSE
    /\ kind = [j \in Jobs |-> "decode"]
    /\ provider = [j \in Jobs |-> NULL]
    /\ cancel = [j \in Jobs |-> FALSE]
    /\ pc = [j \in Jobs |-> "unused"]
    /\ calls = [j \in Jobs |-> 0]
    /\ doomed = [j \in Jobs |-> FALSE]
    /\ thread = [j \in Jobs |-> "none"]
    /\ queue = <<>>
    /\ boxes = <<>>
    /\ told = [j \in Jobs |-> <<>>]
    /\ misuse = FALSE

AtWork(j) == pc[j] \in {"run", "device"}

(* the GUI thread is in its event loop, not inside a provider call *)
GuiReady == ~guiCall

(* ... and no message box takes the clicks *)
CanClick == GuiReady /\ boxes = <<>>

(* a late message of j has been shown and answered, or there is none *)
Settled(j) ==
    /\ ~AtWork(j)
    /\ \A i \in 1..Len(queue) : queue[i].job # j
    /\ \A i \in 1..Len(boxes) : boxes[i].job # j

-----------------------------------------------------------------------------
\* a plausible slip: m_isRunning is not looked at
ClickStartUnguarded(j, k) ==
    /\ CanClick
    /\ pc[j] = "unused" /\ \A i \in 1..(j - 1) : pc[i] # "unused"
    /\ k \in {"capture", "write"} => gw # NULL
    /\ patient => \A i \in Jobs : cancel[i] => Settled(i)
    /\ running' = TRUE
    /\ active' = j
    /\ pointer' = j
    /\ kind' = [kind EXCEPT ![j] = k]
    /\ provider' = [provider EXCEPT ![j] = IF k = "decode" THEN NULL ELSE gw]
    /\ pc' = [pc EXCEPT ![j] = "run"]
    /\ calls' = [calls EXCEPT ![j] = IF k = "decode" THEN 0 ELSE MaxCalls]
    /\ thread' = [thread EXCEPT ![j] = "up"]
    /\ UNCHANGED <<hw, cancel, doomed, queue, boxes, told, misuse>>

(* onStartAbortClicked while nothing runs, as far as thread->start() *)
ClickStart(j, k) ==
    /\ CanClick
    /\ ~running
    /\ pc[j] = "unused" /\ \A i \in 1..(j - 1) : pc[i] # "unused"
    /\ k \in {"capture", "write"} => gw # NULL
    /\ patient => \A i \in Jobs : cancel[i] => Settled(i)
    /\ running' = TRUE
    /\ active' = j
    /\ pointer' = j
    /\ kind' = [kind EXCEPT ![j] = k]
    /\ provider' = [provider EXCEPT ![j] = IF k = "decode" THEN NULL ELSE gw]
    /\ pc' = [pc EXCEPT ![j] = "run"]
    /\ calls' = [calls EXCEPT ![j] = IF k = "decode" THEN 0 ELSE MaxCalls]
    /\ thread' = [thread EXCEPT ![j] = "up"]
    /\ UNCHANGED <<hw, cancel, doomed, queue, boxes, told, misuse>>

(* the same click for a flux or USB copy, or a write without a device: the *)
(* thread just made is deleted again and its pointer cleared               *)
StartRefused ==
    /\ CanClick
    /\ ~running
    /\ active' = NULL
    /\ pointer' = NULL
    /\ UNCHANGED <<running, hw, job, thread, queue, boxes, told, misuse>>

\* a plausible slip: the tab is left as it is until the worker reports
ClickAbortWithoutReset ==
    /\ CanClick
    /\ running
    /\ active # NULL
    /\ Len(told[active]) < 2
    /\ cancel' = [cancel EXCEPT ![active] = TRUE]
    /\ told' = [told EXCEPT ![active] = Append(@, "aborted")]
    /\ UNCHANGED <<running, active, pointer, hw, kind, provider, pc, calls, doomed,
                   thread, queue, boxes, misuse>>

(* the same button while something runs *)
ClickAbort ==
    /\ CanClick
    /\ running
    /\ cancel' = IF active = NULL THEN cancel ELSE [cancel EXCEPT ![active] = TRUE]
    /\ told' = IF active = NULL THEN told
               ELSE [told EXCEPT ![active] = Append(@, "aborted")]
    /\ running' = FALSE
    /\ active' = NULL
    /\ UNCHANGED <<pointer, hw, kind, provider, pc, calls, doomed, 
                   thread, queue, boxes, misuse>>

-----------------------------------------------------------------------------
(* HardwareTab::onConnect for a Greaseweazle that opens *)
Connect ==
    /\ CanClick
    /\ patient => \A j \in Jobs : ~AtWork(j)
    /\ device = NULL
    /\ opened < (IF patient THEN MaxGens ELSE HastyGens)
    /\ opened' = opened + 1
    /\ device' = opened + 1
    /\ gw' = opened + 1
    /\ UNCHANGED <<tab, guiCall, job, thread, queue, boxes, told, misuse>>

\* a plausible slip: the Workflow tab is not told
DisconnectUnannounced ==
    /\ CanClick
    /\ patient => \A j \in Jobs : ~AtWork(j)
    /\ device # NULL
    /\ device' = NULL
    /\ misuse' = (misuse \/ \E j \in Jobs : pc[j] = "device" /\ provider[j] = device)
    /\ UNCHANGED <<tab, gw, opened, guiCall, job, thread, queue, boxes, told>>

(* HardwareTab::onDisconnect, by the button or by a provider call that     *)
(* finds the device gone; connectionChanged is handled before it returns.  *)
(* With a motor running the provider is first asked to stop it: that is a  *)
(* HardwareCall with nothing between its return and this step.             *)
Disconnect ==
    /\ CanClick
    /\ patient => \A j \in Jobs : ~AtWork(j)
    /\ device # NULL
    /\ device' = NULL
    /\ gw' = NULL
    /\ misuse' = (misuse \/ \E j \in Jobs : pc[j] = "device" /\ provider[j] = device)
    /\ UNCHANGED <<tab, opened, guiCall, job, thread, queue, boxes, told>>

(* the Hardware tab calls the provider on the GUI thread: a button, the    *)
(* probe after a connect, the motor-off of a disconnect                    *)
HardwareCall ==
    /\ CanClick
    /\ patient => \A j \in Jobs : ~AtWork(j)
    /\ device # NULL
    /\ guiCall' = TRUE
    /\ UNCHANGED <<tab, gw, device, opened, job, thread, queue, boxes, told, misuse>>

HardwareReturn ==
    /\ guiCall
    /\ guiCall' = FALSE
    /\ UNCHANGED <<tab, gw, device, opened, job, thread, queue, boxes, told, misuse>>

-----------------------------------------------------------------------------
(* the run() of a flux job calls its provider, alive or not *)
DeviceCall(j) ==
    /\ pc[j] = "run"
    /\ calls[j] > 0
    /\ calls' = [calls EXCEPT ![j] = @ - 1]
    /\ pc' = [pc EXCEPT ![j] = "device"]
    /\ misuse' = (misuse \/ provider[j] # device)
    /\ UNCHANGED <<tab, hw, kind, provider, cancel, doomed, thread,
                   queue, boxes, told>>

DeviceReturn(j) ==
    /\ pc[j] = "device"
    /\ pc' = [pc EXCEPT ![j] = "run"]
    /\ UNCHANGED <<tab, hw, kind, provider, cancel, calls, doomed, 
                   thread, queue, boxes, told, misuse>>

Verdict(j, r) == [type |-> "verdict", job |-> j, result |-> r]
Quit(j)       == [type |-> "quit", job |-> j, result |-> "ok"]
Reap(j)       == [type |-> "reap", job |-> j, result |-> "ok"]

\* a plausible slip: no job's error is connected to its thread
SignalFinishedOnly(j, r) ==
    IF r = "failed" THEN <<Verdict(j, r)>> ELSE <<Verdict(j, r), Quit(j)>>

\* a plausible slip: an error is connected to the thread and not to the tab
SignalQuitOnly(j, r) ==
    IF r = "failed" THEN <<Quit(j)>> ELSE <<Verdict(j, r), Quit(j)>>

(* What a terminal signal of a job queues for the GUI thread, in the order *)
(* of its connections: DecodeJob::error is connected to the tab alone.     *)
Signal(j, r) ==
    IF kind[j] = "decode" /\ r = "failed"
    THEN <<Verdict(j, r)>>
    ELSE <<Verdict(j, r), Quit(j)>>

(* run() emits finished or error and returns.  Success needs every call    *)
(* made; an error may come at any point, and a cancel may be seen too late *)
Report(j, r) ==
    /\ pc[j] = "run"
    /\ r = "ok" => calls[j] = 0
    /\ pc' = [pc EXCEPT ![j] = "done"]
    /\ queue' = queue \o Signal(j, r)
    /\ doomed' = [doomed EXCEPT ![j] = Len(Signal(j, r)) = 2]
    /\ UNCHANGED <<tab, hw, kind, provider, cancel, calls, thread, boxes, told, misuse>>

(* DecodeJob::run returns after a convertImage cancelled in its copy loop *)
ReturnSilently(j) ==
    /\ pc[j] = "run"
    /\ kind[j] = "decode"
    /\ cancel[j]
    /\ pc' = [pc EXCEPT ![j] = "done"]
    /\ UNCHANGED <<tab, hw, kind, provider, cancel, calls, doomed, 
                   thread, queue, boxes, told, misuse>>

(* the worker's event loop deletes the job *)
DeleteJob(j) ==
    /\ pc[j] = "done"
    /\ doomed[j]
    /\ pc' = [pc EXCEPT ![j] = "deleted"]
    /\ UNCHANGED <<tab, hw, kind, provider, cancel, calls, doomed, 
                   thread, queue, boxes, told, misuse>>

(* the worker's event loop leaves, and QThread::finished is queued *)
ThreadEnds(j) ==
    /\ thread[j] = "quit"
    /\ pc[j] = "deleted"
    /\ thread' = [thread EXCEPT ![j] = "ended"]
    /\ queue' = Append(queue, Reap(j))
    /\ UNCHANGED <<tab, hw, job, boxes, told, misuse>>

-----------------------------------------------------------------------------
(* the GUI thread serves the oldest queued call *)
Deliver(type) ==
    /\ GuiReady
    /\ queue # <<>>
    /\ Head(queue).type = type
    /\ queue' = Tail(queue)

(* the lambda connected to finished or error opens its message box *)
ShowVerdict ==
    /\ Deliver("verdict")
    /\ boxes' = <<Head(queue)>> \o boxes
    /\ UNCHANGED <<tab, hw, job, thread, told, misuse>>

(* ... and, once that is answered, says so and resets the tab *)
AnswerVerdict ==
    /\ GuiReady
    /\ boxes # <<>>
    /\ told' = [told EXCEPT ![Head(boxes).job] = Append(@, Head(boxes).result)]
    /\ boxes' = Tail(boxes)
    /\ running' = FALSE
    /\ active' = NULL
    /\ UNCHANGED <<pointer, hw, job, thread, queue, misuse>>

QuitThread ==
    /\ Deliver("quit")
    /\ thread' = [thread EXCEPT ![Head(queue).job] = "quit"]
    /\ UNCHANGED <<tab, hw, job, boxes, told, misuse>>

DeleteThread ==
    /\ Deliver("reap")
    /\ thread' = [thread EXCEPT ![Head(queue).job] = "deleted"]
    /\ UNCHANGED <<tab, hw, job, boxes, told, misuse>>

-----------------------------------------------------------------------------
Click ==
    \/ \E j \in Jobs, k \in Kinds : ClickStart(j, k)
    \/ StartRefused \/ ClickAbort
    \/ Connect \/ Disconnect \/ HardwareCall

Serve == ShowVerdict \/ QuitThread \/ DeleteThread

Worker(j) ==
    \/ DeviceCall(j) \/ DeviceReturn(j)
    \/ \E r \in {"ok", "failed"} : Report(j, r)
    \/ ReturnSilently(j) \/ DeleteJob(j) \/ ThreadEnds(j)

Next ==
    /\ \/ Click
       \/ HardwareReturn \/ Serve \/ AnswerVerdict
       \/ \E j \in Jobs : Worker(j)
    /\ UNCHANGED patient

Spec == Init /\ [][Next]_vars

(* The loops of run() are over a fixed number of tracks and every provider  *)
(* call has a timeout, so no worker stops for good; the user answers a     *)
(* message box in the end; and between two clicks Qt serves the queue, so  *)
(* clicks cannot keep a queued call waiting forever.  Nobody has to click. *)
FairSpec ==
    /\ Spec
    /\ WF_desk(HardwareReturn) /\ WF_desk(AnswerVerdict) /\ SF_desk(Serve)
    /\ \A j \in Jobs : WF_desk(Worker(j))

-----------------------------------------------------------------------------
(* What the user is told of one start: at most that it was aborted, and    *)
(* then at most the worker's own word.  No start is reported twice, and    *)
(* none is aborted after its result has been answered.                     *)
ToldInOrder ==
    \A j \in Jobs :
        \/ Len(told[j]) <= 1
        \/ Len(told[j]) = 2 /\ told[j][1] = "aborted" /\ told[j][2] # "aborted"

(* A flux job's thread and the job itself are deleted in the end, whether  *)
(* it succeeds, fails, is aborted, or loses its device.                    *)
FluxThreadsAreReaped ==
    \A j \in Jobs :
        (pc[j] = "run" /\ kind[j] # "decode") ~> (thread[j] = "deleted")

(* The tab does not stay in its running state: whatever is started comes   *)
(* back to the START button without an abort.                              *)
TabComesBack == running ~> ~running

(* The rest holds for a patient user.  The abort button: workflowtab.cpp:656 *)
(* says "all three job types support requestCancel()", and a worker that    *)
(* has not been cancelled is indeed the one the button reaches.  A user who *)
(* starts again while an aborted worker is still at work loses the button:  *)
(* the late error of the old worker clears the pointers of the new one.     *)
AbortReachesWorker ==
    patient => \A j \in Jobs : AtWork(j) /\ ~cancel[j] => active = j

(* Never two threads inside provider calls, and never the GUI thread and a *)
(* worker: one serial port, and no lock in the provider.                   *)
OneDeviceUser ==
    patient =>
        /\ Cardinality({j \in Jobs : pc[j] = "device"}) <= 1
        /\ guiCall => \A j \in Jobs : pc[j] # "device"

(* No worker calls, or is inside, a provider that has been destroyed: the  *)
(* tab's pointer follows HardwareTab's provider, and a job keeps its copy. *)
ProviderOutlivesUse == patient => ~misuse
=============================================================================
