--------------------------- MODULE WorkflowProofs ---------------------------
(***************************************************************************)
(* Theorems about Workflow, for any number of starts, of providers and of  *)
(* provider calls: what the user is told of a start, and for a patient     *)
(* user the abort button, the one user of the device and the lifetime of   *)
(* its provider.                                                           *)
(***************************************************************************)
EXTENDS Workflow, FiniteSetTheorems, SequenceTheorems, TLAPS

Results == {"ok", "failed"}
Events  == [type : {"verdict", "quit", "reap"}, job : Jobs, result : Results]

TypeInv ==
    /\ patient \in BOOLEAN /\ running \in BOOLEAN
    /\ active \in Jobs \cup {NULL}
    /\ gw \in Nat \cup {NULL} /\ device \in Nat \cup {NULL} /\ opened \in Nat
    /\ guiCall \in BOOLEAN
    /\ kind \in [Jobs -> Kinds]
    /\ provider \in [Jobs -> Nat \cup {NULL}]
    /\ cancel \in [Jobs -> BOOLEAN]
    /\ pc \in [Jobs -> {"unused", "run", "device", "done", "deleted"}]
    /\ calls \in [Jobs -> Nat]
    /\ doomed \in [Jobs -> BOOLEAN]
    /\ thread \in [Jobs -> {"none", "up", "quit", "ended", "deleted"}]
    /\ queue \in Seq(Events) /\ boxes \in Seq(Events)
    /\ told \in [Jobs -> Seq({"aborted"} \cup Results)]
    /\ misuse \in BOOLEAN

(* The word of j is on its way: queued, or shown and not answered yet. *)
Queued(j)  == \E n \in 1..Len(queue) : queue[n].type = "verdict" /\ queue[n].job = j
Shown(j)   == \E n \in 1..Len(boxes) : boxes[n].job = j
Pending(j) == Queued(j) \/ Shown(j)

(* No job has two words on their way, and none before it has returned. *)
OneWord ==
    /\ \A m, n \in 1..Len(queue) :
          /\ queue[m].type = "verdict" /\ queue[n].type = "verdict"
          /\ queue[m].job = queue[n].job
          => m = n
    /\ \A m, n \in 1..Len(boxes) : boxes[m].job = boxes[n].job => m = n
    /\ \A j \in Jobs : ~(Queued(j) /\ Shown(j))
    /\ \A j \in Jobs : pc[j] = "unused" \/ AtWork(j) => ~Pending(j)

(* The tab runs for one job, of which nothing has been said. *)
TabInv ==
    /\ running <=> active # NULL
    /\ \A j \in Jobs : active = j => pc[j] # "unused" /\ told[j] = <<>>

ToldInv ==
    \A j \in Jobs :
        /\ pc[j] = "unused" => told[j] = <<>>
        /\ AtWork(j) \/ Pending(j) => told[j] \in {<<>>, <<"aborted">>}

(* A patient user has one worker at a time.  Who is at work or has a word  *)
(* on its way is the one the tab runs for, alone, or has been cancelled.   *)
OneWorker ==
    /\ \A i, j \in Jobs : AtWork(i) /\ AtWork(j) => i = j
    /\ \A j \in Jobs : AtWork(j) \/ Pending(j) => active = j \/ cancel[j]
    /\ \A i, j \in Jobs : active = j /\ i # j => ~AtWork(i) /\ ~Pending(i)

(* ... and leaves the provider to it. *)
OneProvider ==
    /\ gw = device
    /\ \A j \in Jobs : AtWork(j) => ~guiCall
    /\ \A j \in Jobs : pc[j] = "device" \/ (AtWork(j) /\ calls[j] > 0) => provider[j] = device
    /\ ~misuse

IInv ==
    /\ TypeInv /\ OneWord /\ TabInv /\ ToldInv /\ ToldInOrder
    /\ patient => OneWorker /\ OneProvider

-----------------------------------------------------------------------------
(* Sequences *)

LEMMA TailIsShifted ==
  ASSUME NEW S, NEW q \in Seq(S), q # <<>>
  PROVE  /\ Len(q) \in Nat /\ Len(q) >= 1
         /\ Head(q) = q[1] /\ q[1] \in S
         /\ Tail(q) \in Seq(S) /\ Len(Tail(q)) = Len(q) - 1
         /\ \A n \in 1..Len(Tail(q)) : n + 1 \in 1..Len(q) /\ Tail(q)[n] = q[n + 1]
  OBVIOUS

LEMMA CatIsSplit ==
  ASSUME NEW S, NEW q \in Seq(S), NEW e \in Seq(S)
  PROVE  /\ q \o e \in Seq(S) /\ Len(q \o e) = Len(q) + Len(e)
         /\ Len(q) \in Nat /\ Len(e) \in Nat
         /\ \A n \in 1..Len(q \o e) :
               \/ n \in 1..Len(q) /\ (q \o e)[n] = q[n]
               \/ n - Len(q) \in 1..Len(e) /\ (q \o e)[n] = e[n - Len(q)]
  OBVIOUS

LEMMA AppendShort ==
  ASSUME NEW x, NEW y
  PROVE  Append(<<>>, x) = <<x>> /\ Append(<<x>>, y) = <<x, y>>
<1>. DEFINE S == {x, y}
<1>1. <<>> \in Seq(S) /\ <<x>> \in Seq(S) /\ <<x, y>> \in Seq(S)  OBVIOUS
<1>2. Append(<<>>, x) = <<x>>
  <2>1. /\ Append(<<>>, x) \in Seq(S) /\ Len(Append(<<>>, x)) = 1
        /\ Append(<<>>, x)[1] = x
    BY <1>1
  <2>. QED  BY <1>1, <2>1, SeqEqual
<1>3. Append(<<x>>, y) = <<x, y>>
  <2>1. /\ Append(<<x>>, y) \in Seq(S) /\ Len(Append(<<x>>, y)) = 2
        /\ Append(<<x>>, y)[1] = x /\ Append(<<x>>, y)[2] = y
    BY <1>1
  <2>2. Len(<<x, y>>) = 2 /\ <<x, y>>[1] = x /\ <<x, y>>[2] = y  OBVIOUS
  <2>3. \A i \in 1..2 : Append(<<x>>, y)[i] = <<x, y>>[i]
    <3>1. 1..2 = {1, 2}  OBVIOUS
    <3>. QED  BY <2>1, <2>2, <3>1
  <2>. QED  BY <1>1, <2>1, <2>2, <2>3, SeqEqual
<1>. QED  BY <1>2, <1>3

-----------------------------------------------------------------------------
(* Types *)

LEMMA SignalType ==
  ASSUME TypeInv, NEW j \in Jobs, NEW r \in Results
  PROVE  /\ Signal(j, r) \in Seq(Events) /\ Len(Signal(j, r)) \in {1, 2}
         /\ \A n \in 1..Len(Signal(j, r)) :
               Signal(j, r)[n].job = j /\ (Signal(j, r)[n].type = "verdict" => n = 1)
<1>1. Verdict(j, r) \in Events /\ Verdict(j, r).type = "verdict" /\ Verdict(j, r).job = j
  BY DEF Verdict, Events
<1>2. Quit(j) \in Events /\ Quit(j).type # "verdict" /\ Quit(j).job = j
  BY DEF Quit, Events, Results
<1>3. CASE kind[j] = "decode" /\ r = "failed"
  <2>1. Signal(j, r) = <<Verdict(j, r)>>  BY <1>3 DEF Signal
  <2>. QED  BY <2>1, <1>1
<1>4. CASE ~(kind[j] = "decode" /\ r = "failed")
  <2>1. Signal(j, r) = <<Verdict(j, r), Quit(j)>>  BY <1>4 DEF Signal
  <2>. QED  BY <2>1, <1>1, <1>2
<1>. QED  BY <1>3, <1>4

LEMMA InitType == Init => TypeInv
<1>. SUFFICES ASSUME Init PROVE TypeInv
  OBVIOUS
<1>1. queue \in Seq(Events) /\ boxes \in Seq(Events)  BY DEF Init
<1>2. told \in [Jobs -> Seq({"aborted"} \cup Results)]
  <2>1. <<>> \in Seq({"aborted"} \cup Results)  OBVIOUS
  <2>. QED  BY <2>1 DEF Init
<1>. QED  BY <1>1, <1>2 DEF Init, TypeInv, Kinds

LEMMA NextType == TypeInv /\ [Next]_vars => TypeInv'
<1>. SUFFICES ASSUME TypeInv, [Next]_vars PROVE TypeInv'
  OBVIOUS
<1>. USE WorkflowAssumption DEF TypeInv
<1>1. ASSUME NEW j \in Jobs, NEW k \in Kinds, ClickStart(j, k), patient' = patient PROVE TypeInv'
  BY <1>1 DEF ClickStart, Kinds, hw, Jobs
<1>2. CASE (StartRefused \/ HardwareCall \/ HardwareReturn) /\ patient' = patient
  BY <1>2 DEF StartRefused, HardwareCall, HardwareReturn, tab, hw, job
<1>13. CASE Connect /\ patient' = patient
  BY <1>13, SMTT(30) DEF Connect, tab, job
<1>11. CASE Disconnect /\ patient' = patient
  <2>1. misuse' \in BOOLEAN  BY <1>11, Zenon DEF Disconnect
  <2>. QED  BY <1>11, <2>1 DEF Disconnect, tab, hw, job
<1>3. CASE ClickAbort /\ patient' = patient
  <2>1. told' \in [Jobs -> Seq({"aborted"} \cup Results)]
    BY <1>3 DEF ClickAbort
  <2>2. cancel' \in [Jobs -> BOOLEAN]  BY <1>3 DEF ClickAbort
  <2>3. /\ running' = FALSE /\ active' = NULL
        /\ UNCHANGED <<hw, kind, provider, pc, calls, doomed, thread, queue, boxes, misuse>>
    BY <1>3 DEF ClickAbort
  <2>. QED  BY <1>3, <2>1, <2>2, <2>3 DEF hw
<1>12. ASSUME NEW j \in Jobs, DeviceCall(j), patient' = patient PROVE TypeInv'
  <2>1. misuse' \in BOOLEAN  BY <1>12, Zenon DEF DeviceCall
  <2>2. calls' \in [Jobs -> Nat]  BY <1>12 DEF DeviceCall
  <2>3. pc' \in [Jobs -> {"unused", "run", "device", "done", "deleted"}]  BY <1>12 DEF DeviceCall
  <2>4. UNCHANGED <<tab, hw, kind, provider, cancel, doomed, thread, queue, boxes, told>>
    BY <1>12 DEF DeviceCall
  <2>. QED  BY <1>12, <2>1, <2>2, <2>3, <2>4 DEF tab, hw
<1>4. ASSUME NEW j \in Jobs, DeviceReturn(j) \/ ReturnSilently(j) \/ DeleteJob(j), patient' = patient
      PROVE  TypeInv'
  BY <1>4 DEF DeviceReturn, ReturnSilently, DeleteJob, tab, hw
<1>5. ASSUME NEW j \in Jobs, NEW r \in Results, Report(j, r), patient' = patient PROVE TypeInv'
  <2>1. queue' \in Seq(Events)  BY <1>5, SignalType, SMTT(30) DEF Report
  <2>. QED  BY <1>5, <2>1 DEF Report, tab, hw
<1>6. ASSUME NEW j \in Jobs, ThreadEnds(j), patient' = patient PROVE TypeInv'
  <2>1. Reap(j) \in Events  BY DEF Reap, Events, Results
  <2>. QED  BY <1>6, <2>1, SMTT(30) DEF ThreadEnds, tab, hw, job
<1>7. CASE ShowVerdict /\ patient' = patient
  <2>1. Head(queue) \in Events /\ Tail(queue) \in Seq(Events)
    BY <1>7, TailIsShifted DEF ShowVerdict, Deliver
  <2>2. <<Head(queue)>> \o boxes \in Seq(Events)  BY <2>1
  <2>. QED  BY <1>7, <2>1, <2>2 DEF ShowVerdict, Deliver, tab, hw, job
<1>8. CASE AnswerVerdict /\ patient' = patient
  <2>1. Head(boxes) \in Events /\ Tail(boxes) \in Seq(Events)
    BY <1>8, TailIsShifted DEF AnswerVerdict
  <2>2. Head(boxes).job \in Jobs /\ Head(boxes).result \in Results  BY <2>1 DEF Events
  <2>3. told' \in [Jobs -> Seq({"aborted"} \cup Results)]
    BY <1>8, <2>2, SMTT(30) DEF AnswerVerdict
  <2>. QED  BY <1>8, <2>1, <2>3 DEF AnswerVerdict, hw, job
<1>9. CASE (QuitThread \/ DeleteThread) /\ patient' = patient
  <2>1. Head(queue) \in Events /\ Tail(queue) \in Seq(Events)
    BY <1>9, TailIsShifted DEF QuitThread, DeleteThread, Deliver
  <2>2. Head(queue).job \in Jobs  BY <2>1 DEF Events
  <2>. QED  BY <1>9, <2>1, <2>2 DEF QuitThread, DeleteThread, Deliver, tab, hw, job
<1>10. CASE UNCHANGED vars
  BY <1>10 DEF vars, desk, tab, hw, job
<1>. QED
  BY <1>1, <1>2, <1>3, <1>4, <1>5, <1>6, <1>7, <1>8, <1>9, <1>10, <1>11, <1>12, <1>13
     DEF Next, Click, Serve, Worker, Results

-----------------------------------------------------------------------------
(* Words on their way *)

Silent == {j \in Jobs : pc[j] = "unused" \/ AtWork(j)}

LEMMA SameWords ==
  ASSUME OneWord, UNCHANGED <<queue, boxes>>, Silent' \subseteq Silent
  PROVE  OneWord' /\ \A j \in Jobs : Pending(j)' = Pending(j)
<1>1. \A j \in Jobs : Queued(j)' = Queued(j) /\ Shown(j)' = Shown(j)
  BY DEF Queued, Shown
<1>2. \A j \in Jobs : Pending(j)' = Pending(j)  BY <1>1 DEF Pending
<1>3. \A j \in Jobs : (pc[j] = "unused" \/ AtWork(j))' => pc[j] = "unused" \/ AtWork(j)
  BY DEF Silent
<1>. QED  BY <1>1, <1>2, <1>3 DEF OneWord

(* the oldest queued call is taken, and shown if it is a word *)
LEMMA ServedWords ==
  ASSUME TypeInv, OneWord, queue # <<>>, queue' = Tail(queue), pc' = pc,
         \/ Head(queue).type # "verdict" /\ boxes' = boxes
         \/ Head(queue).type = "verdict" /\ boxes' = <<Head(queue)>> \o boxes
  PROVE  OneWord' /\ \A j \in Jobs : Pending(j)' => Pending(j)
<1>1. /\ Len(queue) \in Nat /\ Len(queue) >= 1
      /\ Head(queue) = queue[1] /\ queue[1] \in Events
      /\ Len(queue') = Len(queue) - 1
      /\ \A n \in 1..Len(queue') : n + 1 \in 1..Len(queue) /\ queue'[n] = queue[n + 1]
  BY TailIsShifted DEF TypeInv
<1>2. PICK me \in Jobs : me = queue[1].job  BY <1>1 DEF Events
<1>3. \A j \in Jobs : Queued(j)' => Queued(j)  BY <1>1 DEF Queued
<1>4. CASE Head(queue).type # "verdict" /\ boxes' = boxes
  <2>1. \A j \in Jobs : Shown(j)' = Shown(j)  BY <1>4 DEF Shown
  <2>2. \A j \in Jobs : AtWork(j)' = AtWork(j)  BY DEF AtWork
  <2>3. OneWord!1'
    <3>. SUFFICES ASSUME NEW m \in 1..Len(queue'), NEW n \in 1..Len(queue'),
                         queue'[m].type = "verdict", queue'[n].type = "verdict",
                         queue'[m].job = queue'[n].job
                  PROVE  m = n
      OBVIOUS
    <3>1. m + 1 = n + 1  BY <1>1 DEF OneWord
    <3>. QED  BY <3>1, <1>1
  <2>. QED  BY <1>3, <1>4, <2>1, <2>2, <2>3 DEF OneWord, Pending
<1>5. CASE Head(queue).type = "verdict" /\ boxes' = <<Head(queue)>> \o boxes
  <2>1. /\ Len(boxes) \in Nat /\ Len(boxes') = Len(boxes) + 1
        /\ boxes'[1] = queue[1]
        /\ \A n \in 1..Len(boxes') : n # 1 => n - 1 \in 1..Len(boxes) /\ boxes'[n] = boxes[n - 1]
    BY <1>1, <1>5 DEF TypeInv
  <2>2. Queued(me)  BY <1>1, <1>2, <1>5 DEF Queued
  <2>3. \A j \in Jobs : Shown(j)' => Shown(j) \/ j = me  BY <1>2, <2>1 DEF Shown
  <2>4. ~Shown(me)  BY <1>2, <2>2 DEF OneWord
  <2>5. ~Queued(me)'
    <3>. SUFFICES ASSUME NEW n \in 1..Len(queue'), queue'[n].type = "verdict",
                         queue'[n].job = me
                  PROVE  FALSE
      BY DEF Queued
    <3>1. n + 1 = 1  BY <1>1, <1>2, <1>5 DEF OneWord
    <3>. QED  BY <3>1, <1>1
  <2>6. \A j \in Jobs : AtWork(j)' = AtWork(j)  BY DEF AtWork
  <2>7. \A m, n \in 1..Len(queue') :
           queue'[m].type = "verdict" /\ queue'[n].type = "verdict"
           /\ queue'[m].job = queue'[n].job => m = n
    <3>. SUFFICES ASSUME NEW m \in 1..Len(queue'), NEW n \in 1..Len(queue'),
                         queue'[m].type = "verdict", queue'[n].type = "verdict",
                         queue'[m].job = queue'[n].job
                  PROVE  m = n
      OBVIOUS
    <3>1. m + 1 = n + 1  BY <1>1 DEF OneWord
    <3>. QED  BY <3>1, <1>1
  <2>8. \A m, n \in 1..Len(boxes') : boxes'[m].job = boxes'[n].job => m = n
    <3>. SUFFICES ASSUME NEW m \in 1..Len(boxes'), NEW n \in 1..Len(boxes'),
                         boxes'[m].job = boxes'[n].job
                  PROVE  m = n
      OBVIOUS
    <3>1. CASE m # 1 /\ n # 1
      <4>1. boxes[m - 1].job = boxes[n - 1].job  BY <3>1, <2>1
      <4>2. m - 1 = n - 1  BY <4>1, <3>1, <2>1 DEF OneWord
      <4>. QED  BY <4>2, <2>1
    <3>2. \A k \in 1..Len(boxes') : k # 1 => boxes'[k].job # queue[1].job
      BY <1>2, <2>1, <2>4 DEF Shown
    <3>. QED  BY <3>1, <3>2, <2>1
  <2>9. \A j \in Jobs : ~(Queued(j)' /\ Shown(j)')  BY <1>3, <2>3, <2>5 DEF OneWord
  <2>10. \A j \in Jobs : Pending(j)' => Pending(j)  BY <1>3, <2>2, <2>3 DEF Pending
  <2>. QED  BY <2>6, <2>7, <2>8, <2>9, <2>10 DEF OneWord
<1>. QED  BY <1>4, <1>5

LEMMA AnsweredWords ==
  ASSUME TypeInv, OneWord, AnswerVerdict
  PROVE  /\ OneWord'
         /\ Head(boxes).result \in Results
         /\ \E me \in Jobs : me = Head(boxes).job /\ Pending(me) /\ ~Pending(me)'
         /\ \A j \in Jobs : Pending(j)' => Pending(j)
<1>1. /\ Len(boxes) \in Nat /\ Len(boxes) >= 1
      /\ Head(boxes) = boxes[1] /\ boxes[1] \in Events
      /\ Len(boxes') = Len(boxes) - 1
      /\ \A n \in 1..Len(boxes') : n + 1 \in 1..Len(boxes) /\ boxes'[n] = boxes[n + 1]
  BY TailIsShifted DEF TypeInv, AnswerVerdict
<1>2. PICK me \in Jobs : me = boxes[1].job /\ boxes[1].result \in Results  BY <1>1 DEF Events
<1>3. queue' = queue /\ pc' = pc  BY DEF AnswerVerdict, job
<1>4. Shown(me)  BY <1>1, <1>2 DEF Shown
<1>5. ~Queued(me)' /\ \A j \in Jobs : Queued(j)' = Queued(j)
  BY <1>2, <1>3, <1>4 DEF OneWord, Queued
<1>6. \A j \in Jobs : Shown(j)' => Shown(j)  BY <1>1 DEF Shown
<1>7. ~Shown(me)'
  <2>. SUFFICES ASSUME NEW n \in 1..Len(boxes'), boxes'[n].job = me PROVE FALSE
    BY DEF Shown
  <2>1. n + 1 = 1  BY <1>1, <1>2 DEF OneWord
  <2>. QED  BY <2>1, <1>1
<1>8. \A m, n \in 1..Len(boxes') : boxes'[m].job = boxes'[n].job => m = n
  <2>. SUFFICES ASSUME NEW m \in 1..Len(boxes'), NEW n \in 1..Len(boxes'),
                       boxes'[m].job = boxes'[n].job
                PROVE  m = n
    OBVIOUS
  <2>1. m + 1 = n + 1  BY <1>1, SMTT(30) DEF OneWord
  <2>. QED  BY <2>1, <1>1
<1>9. \A j \in Jobs : AtWork(j)' = AtWork(j)  BY <1>3 DEF AtWork
<1>10. OneWord'  BY <1>3, <1>5, <1>6, <1>8, <1>9 DEF OneWord, Pending
<1>. QED  BY <1>1, <1>2, <1>4, <1>5, <1>6, <1>7, <1>10 DEF Pending

(* calls are queued for j, of which none or the first is its word *)
LEMMA QueuedWords ==
  ASSUME TypeInv, OneWord, NEW j \in Jobs, NEW e \in Seq(Events),
         queue' = queue \o e, boxes' = boxes, Silent' \subseteq Silent,
         \A n \in 1..Len(e) : e[n].job = j /\ (e[n].type = "verdict" => n = 1),
         \/ \A n \in 1..Len(e) : e[n].type # "verdict"
         \/ ~Pending(j) /\ j \notin Silent'
  PROVE  /\ OneWord'
         /\ \A i \in Jobs : i # j => Pending(i)' = Pending(i)
         /\ (\A n \in 1..Len(e) : e[n].type # "verdict") => Pending(j)' = Pending(j)
<1>1. /\ Len(queue') = Len(queue) + Len(e)
      /\ Len(queue) \in Nat /\ Len(e) \in Nat
      /\ \A n \in 1..Len(queue') :
            \/ n \in 1..Len(queue) /\ queue'[n] = queue[n]
            \/ n - Len(queue) \in 1..Len(e) /\ queue'[n] = e[n - Len(queue)]
  BY CatIsSplit DEF TypeInv
<1>2. \A n \in 1..Len(queue) : n \in 1..Len(queue') /\ queue'[n] = queue[n]
  BY <1>1 DEF TypeInv
<1>3. \A i \in Jobs : Shown(i)' = Shown(i)  BY DEF Shown
<1>4. \A i \in Jobs : Queued(i) => Queued(i)'  BY <1>2 DEF Queued
<1>5. \A i \in Jobs : Queued(i)' => Queued(i) \/ (i = j /\ \E n \in 1..Len(e) : e[n].type = "verdict")
  BY <1>1 DEF Queued
<1>6. \A i \in Jobs : i # j => Pending(i)' = Pending(i)  BY <1>3, <1>4, <1>5 DEF Pending
<1>7. (\A n \in 1..Len(e) : e[n].type # "verdict") => \A i \in Jobs : Pending(i)' = Pending(i)
  BY <1>3, <1>4, <1>5 DEF Pending
<1>8. \A m, n \in 1..Len(queue') :
         queue'[m].type = "verdict" /\ queue'[n].type = "verdict"
         /\ queue'[m].job = queue'[n].job => m = n
  <2>. SUFFICES ASSUME NEW m \in 1..Len(queue'), NEW n \in 1..Len(queue'),
                       queue'[m].type = "verdict", queue'[n].type = "verdict",
                       queue'[m].job = queue'[n].job
                PROVE  m = n
    OBVIOUS
  <2>1. CASE m \in 1..Len(queue) /\ n \in 1..Len(queue)
    BY <2>1, <1>2 DEF OneWord
  <2>2. CASE m - Len(queue) \in 1..Len(e) /\ n - Len(queue) \in 1..Len(e)
    <3>1. m \notin 1..Len(queue) /\ n \notin 1..Len(queue)  BY <2>2, <1>1
    <3>2. m - Len(queue) = 1 /\ n - Len(queue) = 1  BY <1>1, <3>1
    <3>. QED  BY <3>2, <1>1
  <2>3. ASSUME NEW a \in 1..Len(queue'), NEW b \in 1..Len(queue'),
               a \in 1..Len(queue), b - Len(queue) \in 1..Len(e),
               queue'[a].type = "verdict", queue'[b].type = "verdict",
               queue'[a].job = queue'[b].job
        PROVE  FALSE
    <3>1. b \notin 1..Len(queue)  BY <2>3, <1>1
    <3>2. queue'[b] = e[b - Len(queue)]  BY <1>1, <3>1
    <3>3. e[b - Len(queue)].type = "verdict" /\ e[b - Len(queue)].job = j  BY <2>3, <3>2
    <3>4. ~Pending(j)  BY <2>3, <3>3
    <3>5. Queued(j)  BY <2>3, <1>2, <3>2, <3>3 DEF Queued
    <3>. QED  BY <3>4, <3>5 DEF Pending
  <2>. QED  BY <2>1, <2>2, <2>3, <1>1
<1>9. \A i \in Jobs : ~(Queued(i)' /\ Shown(i)')
  BY <1>3, <1>5 DEF OneWord, Pending
<1>10. \A i \in Jobs : (pc[i] = "unused" \/ AtWork(i))' => ~Pending(i)'
  BY <1>6, <1>7 DEF Silent, OneWord
<1>. QED  BY <1>6, <1>7, <1>8, <1>9, <1>10 DEF OneWord

-----------------------------------------------------------------------------
(* The invariant *)

LEMMA InitIInv == Init => IInv
<1>. SUFFICES ASSUME Init PROVE IInv
  OBVIOUS
<1>1. TypeInv  BY InitType
<1>2. \A j \in Jobs : ~Pending(j) /\ ~AtWork(j)  BY DEF Init, Pending, Queued, Shown, AtWork
<1>3. OneWord  BY <1>2 DEF Init, OneWord, Pending
<1>4. TabInv
  <2>1. \A j \in Jobs : j # NULL  BY WorkflowAssumption DEF Jobs
  <2>. QED  BY <2>1 DEF Init, TabInv
<1>5. ToldInv /\ ToldInOrder
  <2>1. \A j \in Jobs : told[j] = <<>> /\ Len(told[j]) <= 1  BY DEF Init
  <2>. QED  BY <2>1 DEF ToldInv, ToldInOrder
<1>6. OneWorker /\ OneProvider  BY <1>2 DEF Init, OneWorker, OneProvider, AtWork
<1>. QED  BY <1>1, <1>3, <1>4, <1>5, <1>6 DEF IInv

(* a click for job j, when the tab is idle: what is not settled has not    *)
(* been cancelled, so for a patient user there is nothing                  *)
LEMMA StartKeeps ==
  ASSUME IInv, NEW j \in Jobs, NEW k \in Kinds, ClickStart(j, k), patient' = patient, TypeInv'
  PROVE  IInv'
<1>. USE DEF IInv
<1>1. /\ UNCHANGED <<queue, boxes, cancel, told, hw, misuse>>
      /\ pc[j] = "unused" /\ active' = j /\ running' = TRUE /\ ~running /\ ~guiCall
      /\ k \in {"capture", "write"} => gw # NULL
  BY DEF ClickStart, CanClick, GuiReady
<1>2. /\ \A i \in Jobs : pc'[i] = IF i = j THEN "run" ELSE pc[i]
      /\ \A i \in Jobs : i # j => calls'[i] = calls[i] /\ provider'[i] = provider[i]
      /\ calls'[j] > 0 => provider'[j] = gw
  BY DEF ClickStart, TypeInv
<1>3. /\ \A i \in Jobs : i # j => AtWork(i)' = AtWork(i)
      /\ ~AtWork(j) /\ AtWork(j)'
  BY <1>1, <1>2 DEF AtWork
<1>4. OneWord' /\ \A i \in Jobs : Pending(i)' = Pending(i)
  <2>1. Silent' \subseteq Silent  BY <1>1, <1>2, <1>3 DEF Silent
  <2>. QED  BY <1>1, <2>1, SameWords
<1>5. TabInv'
  <2>1. j # NULL  BY WorkflowAssumption DEF Jobs
  <2>2. told[j] = <<>>  BY <1>1 DEF ToldInv
  <2>. QED  BY <1>1, <1>2, <2>1, <2>2 DEF TabInv
<1>6. ToldInv' /\ ToldInOrder'
  <2>1. told[j] = <<>>  BY <1>1 DEF ToldInv
  <2>. QED  BY <1>1, <1>2, <1>3, <1>4, <2>1 DEF ToldInv, ToldInOrder
<1>7. ASSUME patient PROVE OneWorker' /\ OneProvider'
  <2>1. \A i \in Jobs : ~AtWork(i) /\ ~Pending(i)
    <3>. SUFFICES ASSUME NEW i \in Jobs, AtWork(i) \/ Pending(i) PROVE FALSE
      OBVIOUS
    <3>1. active = NULL  BY <1>1 DEF TabInv
    <3>2. cancel[i]  BY <1>7, <3>1, WorkflowAssumption DEF OneWorker, Jobs
    <3>3. Settled(i)  BY <1>7, <3>2 DEF ClickStart
    <3>4. ~AtWork(i) /\ ~Pending(i)  BY <3>3 DEF Settled, Pending, Queued, Shown
    <3>. QED  BY <3>4
  <2>2. OneWorker'  BY <1>1, <1>3, <1>4, <2>1 DEF OneWorker
  <2>3. OneProvider'
    BY <1>1, <1>2, <1>3, <1>7, <2>1 DEF OneProvider, hw, AtWork
  <2>. QED  BY <2>2, <2>3
<1>. QED  BY <1>4, <1>5, <1>6, <1>7

LEMMA AbortKeeps ==
  ASSUME IInv, ClickAbort, patient' = patient, TypeInv'
  PROVE  IInv'
<1>. USE DEF IInv
<1>1. UNCHANGED <<queue, boxes, pc, calls, provider, hw, misuse>> /\ running /\ active' = NULL /\ ~running'
  BY DEF ClickAbort
<1>2. PICK j \in Jobs : active = j  BY <1>1 DEF TypeInv, TabInv
<1>3. /\ \A i \in Jobs : cancel'[i] = (cancel[i] \/ i = j)
      /\ \A i \in Jobs : i # j => told'[i] = told[i]
      /\ told'[j] = Append(told[j], "aborted")
  <2>1. j # NULL  BY WorkflowAssumption DEF Jobs
  <2>. QED  BY <1>2, <2>1 DEF ClickAbort, TypeInv
<1>4. \A i \in Jobs : AtWork(i)' = AtWork(i)  BY <1>1 DEF AtWork
<1>5. OneWord' /\ \A i \in Jobs : Pending(i)' = Pending(i)
  <2>1. Silent' \subseteq Silent  BY <1>1, <1>4 DEF Silent
  <2>. QED  BY <1>1, <2>1, SameWords
<1>6. told[j] = <<>> /\ told'[j] = <<"aborted">> /\ pc[j] # "unused"
  <2>1. told[j] = <<>> /\ pc[j] # "unused"  BY <1>2 DEF TabInv
  <2>. QED  BY <1>3, <2>1, AppendShort
<1>7. TabInv'
  <2>1. \A i \in Jobs : i # NULL  BY WorkflowAssumption DEF Jobs
  <2>. QED  BY <1>1, <2>1 DEF TabInv
<1>8. ToldInv' /\ ToldInOrder'
  <2>1. Len(told'[j]) <= 1  BY <1>6
  <2>. QED  BY <1>1, <1>3, <1>4, <1>5, <1>6, <2>1 DEF ToldInv, ToldInOrder
<1>9. ASSUME patient PROVE OneWorker' /\ OneProvider'
  <2>1. \A i \in Jobs : i # NULL  BY WorkflowAssumption DEF Jobs
  <2>2. OneWorker'  BY <1>1, <1>2, <1>3, <1>4, <1>5, <1>9, <2>1 DEF OneWorker
  <2>3. OneProvider'  BY <1>1, <1>4, <1>9 DEF OneProvider, hw
  <2>. QED  BY <2>2, <2>3
<1>. QED  BY <1>5, <1>7, <1>8, <1>9

(* the Hardware tab, or nobody, moves *)
LEMMA HardwareKeeps ==
  ASSUME IInv, patient' = patient, TypeInv',
         \/ StartRefused \/ Connect \/ Disconnect \/ HardwareCall \/ HardwareReturn
         \/ UNCHANGED desk
  PROVE  IInv'
<1>. USE DEF IInv
<1>1. UNCHANGED <<queue, boxes, pc, calls, provider, cancel, told, running, active>>
  BY DEF StartRefused, Connect, Disconnect, HardwareCall, HardwareReturn, desk, tab, job, TabInv
<1>2. \A i \in Jobs : AtWork(i)' = AtWork(i)  BY <1>1 DEF AtWork
<1>3. OneWord' /\ \A i \in Jobs : Pending(i)' = Pending(i)
  <2>1. Silent' \subseteq Silent  BY <1>1, <1>2 DEF Silent
  <2>. QED  BY <1>1, <2>1, SameWords
<1>4. TabInv' /\ ToldInv' /\ ToldInOrder'
  BY <1>1, <1>2, <1>3 DEF TabInv, ToldInv, ToldInOrder
<1>5. ASSUME patient PROVE OneWorker' /\ OneProvider'
  <2>1. OneWorker'  BY <1>1, <1>2, <1>3, <1>5 DEF OneWorker
  <2>2. CASE StartRefused \/ HardwareReturn \/ UNCHANGED desk
    <3>1. UNCHANGED <<gw, device, misuse>> /\ (guiCall' => guiCall)
      BY <2>2 DEF StartRefused, HardwareReturn, desk, hw
    <3>. QED  BY <1>1, <1>2, <1>5, <2>1, <3>1 DEF OneProvider
  <2>3. CASE Connect \/ Disconnect \/ HardwareCall
    <3>1. \A i \in Jobs : ~AtWork(i) /\ pc[i] # "device"
      BY <1>5, <2>3 DEF Connect, Disconnect, HardwareCall, AtWork
    <3>2. gw' = device' /\ misuse' = misuse
      <4>1. CASE Connect \/ HardwareCall
        BY <1>5, <4>1 DEF Connect, HardwareCall, OneProvider
      <4>2. CASE Disconnect
        <5>1. gw' = device'  BY <4>2 DEF Disconnect
        <5>2. ~misuse /\ ~misuse'  BY <1>5, <3>1, <4>2, Zenon DEF Disconnect, OneProvider
        <5>. QED  BY <5>1, <5>2 DEF TypeInv
      <4>. QED  BY <2>3, <4>1, <4>2
    <3>. QED  BY <1>1, <1>2, <1>5, <2>1, <3>1, <3>2 DEF OneProvider
  <2>. QED  BY <2>2, <2>3
<1>. QED  BY <1>3, <1>4, <1>5

LEMMA JobKeeps ==
  ASSUME IInv, patient' = patient, TypeInv', NEW j \in Jobs,
         DeviceCall(j) \/ DeviceReturn(j) \/ ReturnSilently(j) \/ DeleteJob(j)
  PROVE  IInv'
<1>. USE DEF IInv
<1>1. UNCHANGED <<queue, boxes, provider, cancel, told, running, active, hw>>
  BY DEF DeviceCall, DeviceReturn, ReturnSilently, DeleteJob, tab
<1>2. /\ \A i \in Jobs : i # j => pc'[i] = pc[i] /\ calls'[i] = calls[i]
      /\ pc[j] # "unused" /\ pc'[j] # "unused"
      /\ calls'[j] > 0 => calls[j] > 0
  BY DEF DeviceCall, DeviceReturn, ReturnSilently, DeleteJob, TypeInv
<1>3. \A i \in Jobs : AtWork(i)' => AtWork(i)
  BY <1>2 DEF DeviceCall, DeviceReturn, ReturnSilently, DeleteJob, AtWork, TypeInv
<1>4. OneWord' /\ \A i \in Jobs : Pending(i)' = Pending(i)
  <2>1. Silent' \subseteq Silent  BY <1>2, <1>3 DEF Silent
  <2>. QED  BY <1>1, <2>1, SameWords
<1>5. TabInv' /\ ToldInv' /\ ToldInOrder'
  BY <1>1, <1>2, <1>3, <1>4 DEF TabInv, ToldInv, ToldInOrder
<1>6. ASSUME patient PROVE OneWorker' /\ OneProvider'
  <2>1. OneWorker'  BY <1>1, <1>3, <1>4, <1>6 DEF OneWorker
  <2>2. pc'[j] = "device" \/ (AtWork(j)' /\ calls'[j] > 0) => provider[j] = device
    BY <1>2, <1>3, <1>6 DEF DeviceCall, DeviceReturn, ReturnSilently, DeleteJob, OneProvider, AtWork, TypeInv
  <2>3. ~misuse'
    <3>1. CASE DeviceCall(j)
      <4>1. provider[j] = device  BY <1>6, <3>1 DEF DeviceCall, OneProvider, AtWork
      <4>. QED  BY <1>6, <3>1, <4>1, Zenon DEF DeviceCall, OneProvider
    <3>2. CASE DeviceReturn(j) \/ ReturnSilently(j) \/ DeleteJob(j)
      BY <1>6, <3>2 DEF DeviceReturn, ReturnSilently, DeleteJob, OneProvider
    <3>. QED  BY <3>1, <3>2
  <2>4. OneProvider'  BY <1>1, <1>2, <1>3, <1>6, <2>2, <2>3 DEF OneProvider, hw, AtWork
  <2>. QED  BY <2>1, <2>4
<1>. QED  BY <1>4, <1>5, <1>6

LEMMA ReportKeeps ==
  ASSUME IInv, patient' = patient, TypeInv', NEW j \in Jobs, NEW r \in Results, Report(j, r)
  PROVE  IInv'
<1>. USE DEF IInv
<1>1. /\ UNCHANGED <<boxes, provider, cancel, told, running, active, calls, hw, misuse>>
      /\ queue' = queue \o Signal(j, r)
  BY DEF Report, tab
<1>2. /\ \A i \in Jobs : i # j => pc'[i] = pc[i]
      /\ pc[j] = "run" /\ pc'[j] = "done"
  BY DEF Report, TypeInv
<1>3. /\ \A i \in Jobs : i # j => AtWork(i)' = AtWork(i)
      /\ AtWork(j) /\ ~AtWork(j)'
  BY <1>2 DEF AtWork
<1>4. OneWord' /\ \A i \in Jobs : i # j => Pending(i)' = Pending(i)
  <2>1. Silent' \subseteq Silent /\ j \notin Silent'  BY <1>2, <1>3 DEF Silent
  <2>2. ~Pending(j)  BY <1>3 DEF OneWord
  <2>. QED  BY <1>1, <2>1, <2>2, QueuedWords, SignalType
<1>5. \A i \in Jobs : AtWork(i)' \/ Pending(i)' => AtWork(i) \/ Pending(i)
  BY <1>3, <1>4
<1>6. TabInv' /\ ToldInv' /\ ToldInOrder'
  BY <1>1, <1>2, <1>5 DEF TabInv, ToldInv, ToldInOrder
<1>7. ASSUME patient PROVE OneWorker' /\ OneProvider'
  <2>1. OneWorker'  BY <1>1, <1>3, <1>5, <1>7 DEF OneWorker
  <2>2. OneProvider'  BY <1>1, <1>2, <1>3, <1>7 DEF OneProvider, hw
  <2>. QED  BY <2>1, <2>2
<1>. QED  BY <1>4, <1>6, <1>7

LEMMA ThreadEndsKeeps ==
  ASSUME IInv, patient' = patient, TypeInv', NEW j \in Jobs, ThreadEnds(j)
  PROVE  IInv'
<1>. USE DEF IInv
<1>1. /\ UNCHANGED <<boxes, pc, provider, cancel, told, running, active, calls, hw, misuse>>
      /\ queue' = queue \o <<Reap(j)>>
  BY DEF ThreadEnds, tab, job, TypeInv
<1>2. \A i \in Jobs : AtWork(i)' = AtWork(i)  BY <1>1 DEF AtWork
<1>3. OneWord' /\ \A i \in Jobs : Pending(i)' = Pending(i)
  <2>1. Silent' \subseteq Silent  BY <1>1, <1>2 DEF Silent
  <2>2. <<Reap(j)>> \in Seq(Events)  BY DEF Reap, Events, Results
  <2>3. \A n \in 1..Len(<<Reap(j)>>) : <<Reap(j)>>[n].job = j /\ <<Reap(j)>>[n].type # "verdict"
    BY DEF Reap
  <2>. QED  BY <1>1, <2>1, <2>2, <2>3, QueuedWords
<1>4. TabInv' /\ ToldInv' /\ ToldInOrder'
  BY <1>1, <1>2, <1>3 DEF TabInv, ToldInv, ToldInOrder
<1>5. ASSUME patient PROVE OneWorker' /\ OneProvider'
  BY <1>1, <1>2, <1>3, <1>5 DEF OneWorker, OneProvider, hw
<1>. QED  BY <1>3, <1>4, <1>5

LEMMA ServeKeeps ==
  ASSUME IInv, patient' = patient, TypeInv', Serve
  PROVE  IInv'
<1>. USE DEF IInv
<1>1. UNCHANGED <<pc, provider, cancel, told, running, active, calls, hw, misuse>>
  BY DEF Serve, ShowVerdict, QuitThread, DeleteThread, tab, job
<1>2. \A i \in Jobs : AtWork(i)' = AtWork(i)  BY <1>1 DEF AtWork
<1>3. OneWord' /\ \A i \in Jobs : Pending(i)' => Pending(i)
  BY <1>1, ServedWords DEF Serve, ShowVerdict, QuitThread, DeleteThread, Deliver
<1>4. TabInv' /\ ToldInv' /\ ToldInOrder'
  BY <1>1, <1>2, <1>3 DEF TabInv, ToldInv, ToldInOrder
<1>5. ASSUME patient PROVE OneWorker' /\ OneProvider'
  BY <1>1, <1>2, <1>3, <1>5 DEF OneWorker, OneProvider, hw
<1>. QED  BY <1>3, <1>4, <1>5

(* the word of j is answered; the tab, if it ran for anybody, ran for j *)
LEMMA AnswerKeeps ==
  ASSUME IInv, patient' = patient, TypeInv', AnswerVerdict
  PROVE  IInv'
<1>. USE DEF IInv
<1>1. /\ UNCHANGED <<pc, provider, cancel, calls, hw, misuse>>
      /\ running' = FALSE /\ active' = NULL
  BY DEF AnswerVerdict, job
<1>2. \A i \in Jobs : AtWork(i)' = AtWork(i)  BY <1>1 DEF AtWork
<1>3. PICK j \in Jobs : j = Head(boxes).job /\ Pending(j) /\ ~Pending(j)'
  BY AnsweredWords
<1>4. OneWord' /\ \A i \in Jobs : Pending(i)' => Pending(i)
  BY AnsweredWords
<1>5. PICK r \in Results : r = Head(boxes).result
  BY AnsweredWords
<1>6. \A i \in Jobs : told'[i] = IF i = j THEN Append(told[j], r) ELSE told[i]
  BY <1>3, <1>5 DEF AnswerVerdict, TypeInv
<1>7. ~AtWork(j) /\ pc[j] # "unused"  BY <1>3 DEF OneWord
<1>8. TabInv'
  <2>1. \A i \in Jobs : i # NULL  BY WorkflowAssumption DEF Jobs
  <2>. QED  BY <1>1, <2>1 DEF TabInv
<1>9. ToldInv' /\ ToldInOrder'
  <2>1. told[j] = <<>> \/ told[j] = <<"aborted">>  BY <1>3 DEF ToldInv
  <2>2. told'[j] = <<r>> \/ told'[j] = <<"aborted", r>>  BY <1>6, <2>1, AppendShort
  <2>3. r # "aborted"  BY DEF Results
  <2>4. \/ Len(told'[j]) <= 1
        \/ Len(told'[j]) = 2 /\ told'[j][1] = "aborted" /\ told'[j][2] # "aborted"
    <3>1. CASE told'[j] = <<r>>
      <4>1. Len(<<r>>) = 1  OBVIOUS
      <4>. QED  BY <3>1, <4>1
    <3>2. CASE told'[j] = <<"aborted", r>>
      <4>. DEFINE both == <<"aborted", r>>
      <4>1. Len(both) = 2 /\ both[1] = "aborted" /\ both[2] = r  OBVIOUS
      <4>. QED  BY <2>3, <3>2, <4>1
    <3>. QED  BY <2>2, <3>1, <3>2
  <2>5. ToldInOrder'  BY <1>6, <2>4 DEF ToldInOrder
  <2>6. ToldInv'  BY <1>1, <1>2, <1>3, <1>4, <1>6, <1>7 DEF ToldInv
  <2>. QED  BY <2>5, <2>6
<1>10. ASSUME patient PROVE OneWorker' /\ OneProvider'
  <2>1. \A i \in Jobs : i # NULL  BY WorkflowAssumption DEF Jobs
  <2>2. ASSUME NEW i \in Jobs, AtWork(i) \/ Pending(i)' PROVE cancel[i]
    <3>1. i # j  BY <1>3, <1>7, <2>2
    <3>2. active # i
      <4>1. SUFFICES ASSUME active = i PROVE FALSE
        OBVIOUS
      <4>2. ~Pending(j)  BY <1>10, <3>1, <4>1 DEF OneWorker
      <4>. QED  BY <1>3, <4>2
    <3>. QED  BY <1>4, <1>10, <2>2, <3>2 DEF OneWorker
  <2>3. OneWorker'  BY <1>1, <1>2, <1>10, <2>1, <2>2 DEF OneWorker
  <2>4. OneProvider'  BY <1>1, <1>2, <1>10 DEF OneProvider, hw
  <2>. QED  BY <2>3, <2>4
<1>. QED  BY <1>4, <1>8, <1>9, <1>10

LEMMA NextIInv == IInv /\ [Next]_vars => IInv'
<1>. SUFFICES ASSUME IInv, [Next]_vars PROVE IInv'
  OBVIOUS
<1>1. TypeInv' /\ patient' = patient  BY NextType DEF IInv, Next, vars
<1>2. ASSUME NEW j \in Jobs, NEW k \in Kinds, ClickStart(j, k) PROVE IInv'
  BY <1>1, <1>2, StartKeeps
<1>3. CASE ClickAbort
  BY <1>1, <1>3, AbortKeeps
<1>4. CASE StartRefused \/ Connect \/ Disconnect \/ HardwareCall \/ HardwareReturn \/ UNCHANGED desk
  BY <1>1, <1>4, HardwareKeeps
<1>5. ASSUME NEW j \in Jobs, Worker(j) PROVE IInv'
  BY <1>1, <1>5, JobKeeps, ReportKeeps, ThreadEndsKeeps DEF Worker, Results
<1>6. CASE Serve
  BY <1>1, <1>6, ServeKeeps
<1>7. CASE AnswerVerdict
  BY <1>1, <1>7, AnswerKeeps
<1>. QED
  BY <1>2, <1>3, <1>4, <1>5, <1>6, <1>7 DEF Next, Click, vars

THEOREM Invariance == Spec => []IInv
  BY InitIInv, NextIInv, PTL DEF Spec

(* For any number of starts, whatever the user clicks: of one start the    *)
(* user hears at most that it was aborted and then the worker's own word,  *)
(* in this order and each once.                                            *)
THEOREM NothingIsToldTwice == Spec => []ToldInOrder
<1>1. IInv => ToldInOrder  BY DEF IInv
<1>. QED  BY <1>1, Invariance, PTL

(* For any number of starts: for a patient user, a worker that has not     *)
(* been cancelled is the one the abort button reaches.                     *)
THEOREM AbortIsHeard == Spec => []AbortReachesWorker
<1>1. IInv => AbortReachesWorker  BY DEF IInv, OneWorker, AbortReachesWorker
<1>. QED  BY <1>1, Invariance, PTL

(* For any number of starts, providers and calls: for a patient user no    *)
(* two threads, the GUI's included, are inside provider calls.             *)
THEOREM DeviceIsNotShared == Spec => []OneDeviceUser
<1>1. IInv => OneDeviceUser
  <2>. SUFFICES ASSUME IInv, patient PROVE OneDeviceUser
    BY DEF OneDeviceUser
  <2>. DEFINE users == {j \in Jobs : pc[j] = "device"}
  <2>1. \A i, j \in users : i = j
    <3>1. \A i \in users : i \in Jobs /\ AtWork(i)  BY DEF AtWork
    <3>. QED  BY <3>1 DEF IInv, OneWorker
  <2>2. Cardinality(users) <= 1
    <3>1. CASE users = {}
      BY <3>1, FS_EmptySet
    <3>2. ASSUME NEW j \in users PROVE Cardinality(users) <= 1
      <4>1. users = {j}  BY <2>1, <3>2
      <4>2. Cardinality({j}) = 1  BY FS_Singleton
      <4>. QED  BY <4>1, <4>2
    <3>. QED  BY <3>1, <3>2
  <2>3. guiCall => \A j \in Jobs : pc[j] # "device"  BY DEF IInv, OneProvider, AtWork
  <2>. QED  BY <2>2, <2>3 DEF OneDeviceUser
<1>. QED  BY <1>1, Invariance, PTL

(* For any number of starts, providers and calls: for a patient user no    *)
(* worker calls or is inside a provider that has been destroyed.           *)
THEOREM ProviderIsAlive == Spec => []ProviderOutlivesUse
<1>1. IInv => ProviderOutlivesUse  BY DEF IInv, OneProvider, ProviderOutlivesUse
<1>. QED  BY <1>1, Invariance, PTL
=============================================================================
