-------------------------- MODULE GwProtocolProofs --------------------------
(***************************************************************************)
(* What the echoed command, the info before each operation and the checked *)
(* statuses buy, for every set of tracks, number of retries and length of  *)
(* a payload, and however many commands a slow device has left unanswered: *)
(* an operation in which nothing came late, refused or mismatched was in   *)
(* step with the device from its first byte to its last, whatever the      *)
(* operations before it had left behind.  The invariant says, for each     *)
(* place of the host, what is on the line between it and the device and    *)
(* what the device has done by then.                                       *)
(*                                                                         *)
(* And what they buy when answers do come late: the flux of a good read is *)
(* of one track; while no more than five commands are unanswered it is the *)
(* track that was asked for, and while no more than six are, writes go to  *)
(* their track and a good one has been written.  The invariant of that     *)
(* part, LateInv, is built up from "Commands and bytes" on: the host is in *)
(* step with the device, or it is behind in a way that shows in the end.   *)
(* Last, that every step of the host brings the end of its operation       *)
(* closer, whatever the device answers.                                    *)
(***************************************************************************)
EXTENDS GwProtocol, SequenceTheorems, TLAPS

-----------------------------------------------------------------------------
(* Whatever comes late.                                                    *)

Labels == {"info", "bus", "select", "motor", "seek", "click", "oldhead", "head",
           "read", "write", "at0", "at0again", "wpt", "wptagain", "rstatus", "wstatus"}
Types ==
    /\ pc \in Labels \cup {"idle", "sync"} /\ step \in {"wait", "rest"}
    /\ pc = "idle" => step = "wait"
    /\ op \in [kind : Kinds, track : Targets]
    /\ up \in Nat /\ status \in Nat
    /\ smooth \in BOOLEAN /\ trk0 \in BOOLEAN /\ wpt \in BOOLEAN

-----------------------------------------------------------------------------
(* An operation in step.                                                   *)

Bytes == got \in Seq(Nat) /\ rx \in Seq(Nat) /\ out \in Seq(Nat)

\* What the device has said of its answer, and what it has still to say.
Line == rx \o out

Bit(active) == IF active THEN 0 ELSE 1

\* A flux stream whose transitions are all b.
Stream(s, b) == s # <<>> /\ s[Len(s)] = 0 /\ \A i \in 1 .. (Len(s) - 1) : s[i] = b

\* What follows a good header of label l, to the last byte.
Payload(l, s) ==
    /\ l = "info" => Len(s) = InfoLen
    /\ l \in {"at0", "at0again"} => s = <<Bit(trk0)>>
    /\ l \in {"wpt", "wptagain"} => s = <<Bit(wpt)>>
    /\ l = "read" => Stream(s, FluxByte(op.track))
    /\ l \notin {"info", "at0", "at0again", "wpt", "wptagain", "read"} => s = <<>>

\* What the device has done when it answers label l with success.
Effect(l) ==
    /\ l = "seek" => pos[1] = op.track[1]
    /\ l = "head" => pos = op.track
    /\ l \in {"rstatus", "wstatus"} => status = AckOk
    /\ mode = IF l = "write" THEN "data" ELSE "command"

\* The device has yet to come to the label's command, it has answered it, or
\* it took the zero of a GET_INFO for the end of a write it was still in.
Asked ==
    /\ tx = <<Sends(pc, op)>> /\ rx = <<>> /\ out = <<>>
    /\ pc # "info" => mode = "command"
Answered ==
    /\ tx = <<>> /\ Len(rx) >= 2
    /\ rx[2] = AckOk => Payload(pc, After(Line, 2)) /\ Effect(pc)
Swallowed == pc = "info" /\ tx = <<>> /\ Len(Line) = 1

\* The line at each place of the host.
Waits == pc \in Labels /\ step = "wait" => Asked \/ Answered \/ Swallowed
Rests == pc \in Labels /\ step = "rest" =>
    /\ tx = <<>>
    /\ pc \in {"info", "at0", "at0again", "wpt", "wptagain", "read", "write"}
    /\ Payload(pc, IF pc = "read" THEN got \o Line ELSE Line)
    /\ Effect(pc)
Syncs == pc = "sync" =>
    \/ /\ tx = <<[c |-> FluxData, arg |-> op.track]>> /\ rx = <<>> /\ out = <<>>
       /\ mode = "data"
    \/ tx = <<>> /\ Len(Line) = 1 /\ mode = "command"
Idles == pc = "idle" => tx = <<>> /\ rx = <<>> /\ out = <<>>
Shape == Waits /\ Rests /\ Syncs /\ Idles

\* Where the drive stands, as the operation gets on.
Positioned == {"read", "rstatus", "wptagain", "write", "sync", "wstatus"}
Sought == Positioned \cup {"at0", "at0again", "click", "oldhead", "head"}

OverTrack ==
    /\ pc \in Sought => pos[1] = op.track[1]
    /\ pc \in Positioned => pos = op.track
OnTrack0 ==
    pc \in Positioned \cup {"oldhead", "head"} /\ op.track[1] = 0 => trk0
\* The labels an operation of a kind comes to.
KindFits ==
    /\ pc \in {"at0", "at0again", "click"} => op.track[1] = 0
    /\ pc = "head" => op.kind # "seek"
    /\ pc \in {"read", "rstatus"} => op.kind = "read"
    /\ pc \in {"wpt", "wptagain", "write", "sync", "wstatus"} => op.kind = "write"
\* What the device has read or written, and the host collected.
Collected ==
    /\ pc = "rstatus" => Stream(got, FluxByte(op.track))
    /\ (pc = "sync" /\ tx = <<>>) \/ pc = "wstatus" => (status = AckOk => laid = "whole")
Results ==
    /\ pc # "idle" => res = "none"
    /\ SmoothResultsAreTrue

InSync == Bytes /\ Shape /\ OverTrack /\ OnTrack0 /\ KindFits /\ Collected /\ Results
IInv == Types /\ (smooth => InSync)

-----------------------------------------------------------------------------
(* Sequences of bytes.                                                     *)

\* What is left behind the first n bytes, also when more arrives.
LEMMA AfterIs ==
    ASSUME NEW s \in Seq(Nat), NEW t \in Seq(Nat), NEW n \in Nat, n <= Len(s)
    PROVE  /\ After(s, n) \in Seq(Nat) /\ Len(After(s, n)) = Len(s) - n
           /\ \A i \in 1 .. (Len(s) - n) : After(s, n)[i] = s[n + i]
           /\ After(s, n) \o t = After(s \o t, n)
<1>1. ASSUME NEW u \in Seq(Nat), n <= Len(u)
      PROVE  /\ After(u, n) \in Seq(Nat) /\ Len(After(u, n)) = Len(u) - n
             /\ \A i \in 1 .. (Len(u) - n) : After(u, n)[i] = u[n + i]
    <2>1. \A i \in (n + 1) .. Len(u) : u[i] \in Nat
        OBVIOUS
    <2>2. n + 1 \in Int /\ Len(u) \in Int
        OBVIOUS
    <2>3. /\ After(u, n) \in Seq(Nat)
          /\ Len(After(u, n)) = IF n + 1 <= Len(u) THEN Len(u) - (n + 1) + 1 ELSE 0
          /\ \A i \in 1 .. Len(u) - (n + 1) + 1 : After(u, n)[i] = u[(n + 1) + i - 1]
        BY <2>1, <2>2, SubSeqProperties DEF After
    <2>4. \A i \in 1 .. (Len(u) - n) :
              i \in 1 .. Len(u) - (n + 1) + 1 /\ (n + 1) + i - 1 = n + i
        BY <2>2
    <2>5. \A i \in 1 .. (Len(u) - n) : After(u, n)[i] = u[n + i]
        BY <2>3, <2>4
    <2> QED
        BY <2>2, <2>3, <2>5, <1>1
<1>2. /\ s \o t \in Seq(Nat) /\ Len(s \o t) = Len(s) + Len(t)
      /\ Len(s) \in Nat /\ Len(t) \in Nat
    BY ConcatProperties
<1>3. /\ After(s \o t, n) \in Seq(Nat) /\ Len(After(s \o t, n)) = Len(s) + Len(t) - n
      /\ \A i \in 1 .. (Len(s) + Len(t) - n) : After(s \o t, n)[i] = (s \o t)[n + i]
    <2>1. n <= Len(s \o t)
        BY <1>2
    <2>2. Len(s \o t) - n = Len(s) + Len(t) - n
        BY <1>2
    <2> QED
        BY <2>1, <2>2, <1>1, <1>2, Zenon
<1>4. /\ After(s, n) \in Seq(Nat) /\ Len(After(s, n)) = Len(s) - n
      /\ \A i \in 1 .. (Len(s) - n) : After(s, n)[i] = s[n + i]
    BY <1>1
<1>5. /\ After(s, n) \o t \in Seq(Nat) /\ Len(After(s, n) \o t) = Len(s) + Len(t) - n
    <2>1. /\ After(s, n) \o t \in Seq(Nat)
          /\ Len(After(s, n) \o t) = Len(After(s, n)) + Len(t)
        BY <1>4, ConcatProperties, Zenon
    <2> QED
        BY <2>1, <1>2, <1>4
<1>6. ASSUME NEW i \in 1 .. (Len(s) + Len(t) - n) PROVE (After(s, n) \o t)[i] = (s \o t)[n + i]
    <2>1. (s \o t)[n + i] = IF n + i <= Len(s) THEN s[n + i] ELSE t[n + i - Len(s)]
        <3>1. n + i \in 1 .. Len(s) + Len(t)
            OBVIOUS
        <3> QED
            BY <3>1, ConcatProperties
    <2>2. (After(s, n) \o t)[i] = IF i <= Len(s) - n THEN After(s, n)[i] ELSE t[i - (Len(s) - n)]
        <3>1. i \in 1 .. Len(After(s, n)) + Len(t)
            BY <1>4
        <3> QED
            BY <3>1, <1>4, ConcatProperties
    <2>3. CASE i <= Len(s) - n
        BY <2>1, <2>2, <2>3, <1>4
    <2>4. CASE ~(i <= Len(s) - n)
        <3>1. i - (Len(s) - n) = n + i - Len(s) /\ ~(n + i <= Len(s))
            BY <2>4
        <3> QED
            BY <2>1, <2>2, <2>4, <3>1
    <2> QED
        BY <2>3, <2>4
<1>7. After(s, n) \o t = After(s \o t, n)
    BY <1>3, <1>5, <1>6, SeqEqual
<1> QED
    BY <1>4, <1>7

LEMMA Joined == ASSUME NEW s \in Seq(Nat), NEW t \in Seq(Nat) PROVE s \o t \in Seq(Nat)
OBVIOUS

LEMMA Associative ==
    ASSUME NEW s \in Seq(Nat), NEW t \in Seq(Nat), NEW u \in Seq(Nat)
    PROVE  (s \o t) \o u = s \o (t \o u)
BY ConcatAssociative, SMTT(30)

\* A sequence is what is taken of it and what is left.
LEMMA TakenFromFront ==
    ASSUME NEW s \in Seq(Nat), NEW n \in 1 .. Len(s)
    PROVE  \E a, b \in Seq(Nat) :
               /\ a = SubSeq(s, 1, n) /\ b = After(s, n)
               /\ a \o b = s /\ Len(b) = Len(s) - n
<1>1. Len(s) \in Nat /\ n \in Nat /\ n <= Len(s)
    OBVIOUS
<1>2. After(s, n) \in Seq(Nat) /\ Len(After(s, n)) = Len(s) - n
    BY <1>1, AfterIs
<1>3. SubSeq(s, 1, n) \in Seq(Nat)
    <2>1. \A i \in 1 .. n : s[i] \in Nat
        BY <1>1
    <2> QED
        BY <1>1, <2>1, SubSeqProperties
<1>4. SubSeq(s, 1, n) \o After(s, n) = s
    BY <1>1, ConcatAdjacentSubSeq, SubSeqFull DEF After
<1> QED
    BY <1>2, <1>3, <1>4

\* The places of the second of two sequences.
LEMMA Behind ==
    ASSUME NEW s \in Seq(Nat), NEW t \in Seq(Nat), NEW n \in 1 .. Len(t)
    PROVE  (s \o t)[Len(s) + n] = t[n]
<1>1. Len(s) \in Nat /\ Len(t) \in Nat
    OBVIOUS
<1>2. /\ Len(s) + n \in 1 .. Len(s) + Len(t)
      /\ ~(Len(s) + n <= Len(s)) /\ Len(s) + n - Len(s) = n
    BY <1>1
<1>3. \A i \in 1 .. Len(s) + Len(t) : (s \o t)[i] = IF i <= Len(s) THEN s[i] ELSE t[i - Len(s)]
    BY ConcatProperties
<1> QED
    BY <1>2, <1>3

\* A byte that goes from the device to the host leaves the line as it was.
LEMMA OneByteOver ==
    ASSUME NEW s \in Seq(Nat), NEW t \in Seq(Nat), t # <<>>
    PROVE  /\ Append(s, Head(t)) \in Seq(Nat) /\ Tail(t) \in Seq(Nat)
           /\ Len(Append(s, Head(t))) = Len(s) + 1
           /\ Append(s, Head(t)) \o Tail(t) = s \o t
           /\ \A i \in 1 .. Len(s) : Append(s, Head(t))[i] = s[i]
<1>1. /\ Append(s, Head(t)) \in Seq(Nat) /\ Tail(t) \in Seq(Nat)
      /\ Len(Append(s, Head(t))) = Len(s) + 1
      /\ \A i \in 1 .. Len(s) : Append(s, Head(t))[i] = s[i]
    BY HeadTailProperties, AppendProperties
<1>2. Append(s, Head(t)) = s \o <<Head(t)>>
    BY HeadTailProperties, AppendIsConcat
<1>3. <<Head(t)>> \o Tail(t) = t
    <2>1. <<Head(t)>> \o Tail(t) \in Seq(Nat)
        OBVIOUS
    <2> QED
        BY <2>1, SeqEqual
<1>4. (s \o <<Head(t)>>) \o Tail(t) = s \o (<<Head(t)>> \o Tail(t))
    <2>1. <<Head(t)>> \in Seq(Nat)
        OBVIOUS
    <2> QED
        BY <2>1, <1>1, ConcatAssociative, SMTT(30)
<1> QED
    BY <1>1, <1>2, <1>3, <1>4

\* The command of each label.
LEMMA SendsIs ==
    ASSUME NEW o
    PROVE  /\ Sends("info", o) = [c |-> GetInfo, arg |-> 0]
           /\ Sends("bus", o) = [c |-> SetBus, arg |-> 0]
           /\ Sends("select", o) = [c |-> Select_, arg |-> 0]
           /\ Sends("motor", o) = [c |-> Motor, arg |-> 1]
           /\ Sends("seek", o) = [c |-> Seek, arg |-> o.track[1]]
           /\ Sends("click", o) = [c |-> NoClickStep, arg |-> 0]
           /\ Sends("oldhead", o) = [c |-> Head_, arg |-> head]
           /\ Sends("head", o) = [c |-> Head_, arg |-> o.track[2]]
           /\ Sends("read", o) = [c |-> ReadFlux, arg |-> 0]
           /\ Sends("write", o) = [c |-> WriteFlux, arg |-> o.track]
           /\ \A l \in {"at0", "at0again"} : Sends(l, o) = [c |-> GetPin, arg |-> Trk0Pin]
           /\ \A l \in {"wpt", "wptagain"} : Sends(l, o) = [c |-> GetPin, arg |-> WptPin]
           /\ \A l \in {"rstatus", "wstatus"} : Sends(l, o) = [c |-> FluxStatus, arg |-> 0]
BY DEF Sends

-----------------------------------------------------------------------------
(* The types that hold whatever comes late.                                *)

USE DEF vars, host, device
LEMMA InitTypes == Init => Types
BY GwConstants DEF Init, Types, Kinds, AckOk

LEMMA ReadyIs ==
    ASSUME up \in Nat, NEW u \in Nat
    PROVE  /\ Ready(u) \in {"bus", "select", "wpt", "motor", "seek"}
           /\ Ready(u) = "wpt" => op.kind = "write"
           /\ \A w \in Nat : Spin(w) \in {"motor", "seek"}
BY DEF Ready, Spin

LEMMA HostTypes == ASSUME Types, Host PROVE Types'
<1>1. ASSUME NEW r, Answer(r) PROVE /\ pc' \in Labels \cup {"idle"} /\ step' \in {"wait", "rest"}
                                    /\ pc' = "idle" => step' = "wait"
                                    /\ up' \in Nat /\ smooth' \in BOOLEAN
    <2> USE DEF Types, Labels, GoTo, Finish, ReadRest, Failed, Must
    <2>1. CASE InfoAnswer(r)
        BY <1>1, <2>1 DEF InfoAnswer, InfoAgain, Again, Answer
    <2>2. CASE SetUpAnswer(r)
        BY <1>1, <2>2 DEF SetUpAnswer, Ready, Spin, Answer
    <2>3. CASE SeekAnswer(r)
        BY <1>1, <2>3 DEF SeekAnswer, Answer
    <2>4. CASE PinAnswer(r)
        BY <1>1, <2>4 DEF PinAnswer, Pin, Spin, Answer
    <2>5. CASE DroppedAnswer(r)
        BY <1>1, <2>5 DEF DroppedAnswer, Answer
    <2>6. CASE HeadAnswer(r)
        BY <1>1, <2>6 DEF HeadAnswer, Answer
    <2>7. CASE ReadAnswer(r)
        BY <1>1, <2>7 DEF ReadAnswer, Again, Answer
    <2>8. CASE ReadStatusAnswer(r)
        BY <1>1, <2>8 DEF ReadStatusAnswer, Again, Answer
    <2>9. CASE WriteAnswer(r)
        BY <1>1, <2>9 DEF WriteAnswer, Answer
    <2>10. CASE WriteStatusAnswer(r)
        BY <1>1, <2>10 DEF WriteStatusAnswer, Again, Answer
    <2> QED
        BY <1>1, <2>1, <2>2, <2>3, <2>4, <2>5, <2>6, <2>7, <2>8, <2>9, <2>10 DEF Answer
<1>2. CASE Header
    BY <1>1, <1>2 DEF Header, Types
<1>3. CASE HeaderLate
    BY <1>1, <1>3 DEF HeaderLate, Types
<1> USE DEF Types, Labels, GoTo, Finish
<1>4. CASE InfoRest
    <2>1. CASE GoTo(Ready(up)) /\ smooth' = smooth
        <3>1. Ready(up) \in {"bus", "select", "wpt", "motor", "seek"}
            BY ReadyIs
        <3> QED
            BY <1>4, <2>1, <3>1 DEF InfoRest
    <2>2. CASE InfoAgain /\ smooth' = FALSE
        BY <1>4, <2>2 DEF InfoRest, InfoAgain, Again
    <2> QED
        BY <1>4, <2>1, <2>2 DEF InfoRest
<1>5. CASE PinRest
    BY <1>5 DEF PinRest, Pin, Spin
<1>6. CASE FluxRest
    BY <1>6 DEF FluxRest
<1>7. CASE WriteData
    BY <1>7 DEF WriteData
<1>8. CASE SyncByte
    BY <1>8 DEF SyncByte
<1> QED
    BY <1>2, <1>3, <1>4, <1>5, <1>6, <1>7, <1>8 DEF Host

LEMMA DeviceTypes == ASSUME Types, Device PROVE Types'
<1>1. CASE DeviceCommand
    <2>1. status' \in Nat /\ trk0' \in BOOLEAN
        <3> DEFINE e == Head(tx)
        <3>1. Plain(e) \/ Moves(e) \/ Pins(e) \/ Streams(e) \/ TakesData(e)
            BY <1>1 DEF DeviceCommand
        <3> HIDE DEF e
        <3>2. CASE Plain(e) \/ Pins(e) \/ TakesData(e)
            BY <3>2 DEF Plain, Pins, TakesData, Types
        <3>3. CASE Moves(e)
            <4>1. status' = status /\ (trk0' = trk0 \/ trk0' \in BOOLEAN)
                BY <3>3 DEF Moves
            <4> QED
                BY <4>1 DEF Types
        <3>4. CASE Streams(e)
            BY <3>4 DEF Streams, Types, AckOk, NoIndex, Overflow
        <3> QED
            BY <3>1, <3>2, <3>3, <3>4
    <2> QED
        BY <1>1, <2>1 DEF DeviceCommand, Types
<1>2. CASE DeviceData
    BY <1>2 DEF DeviceData, Types, AckOk, Underflow
<1>3. CASE DeviceSends
    BY <1>3 DEF DeviceSends, Types
<1> QED
    BY <1>1, <1>2, <1>3 DEF Device

LEMMA BeginTypes ==
    ASSUME Types, NEW k \in Kinds, NEW t \in Targets, Begin(k, t) PROVE Types'
BY DEF Begin, Types, Labels

-----------------------------------------------------------------------------
(* An operation without a timeout or a refusal keeps the line in step.     *)

LEMMA NothingLeft ==
    ASSUME NEW s \in Seq(Nat), NEW t \in Seq(Nat), s \o t = <<>>
    PROVE  s = <<>> /\ t = <<>>
BY ConcatEqualIffEmpty

\* A host that has read all there was and asks again is in step.
LEMMA Asking ==
    ASSUME NEW l \in Labels, GoTo(l), op' = op, head' = head \/ l # "oldhead",
           tx = <<>>, rx' = <<>>, out' = <<>>, mode' = "command"
    PROVE  Shape'
<1>1. Sends(pc, op)' = Sends(l, op)
    BY DEF Sends, GoTo
<1>2. tx' = <<Sends(l, op)>> /\ pc' = l /\ step' = "wait"
    BY DEF GoTo, Write
<1>3. Asked'
    BY <1>1, <1>2 DEF Asked
<1> QED
    BY <1>2, <1>3 DEF Shape, Waits, Rests, Syncs, Idles, Labels

LEMMA Ending ==
    ASSUME NEW r, Finish(r), tx = <<>>, rx' = <<>>, out' = <<>>
    PROVE  Shape'
BY DEF Finish, Shape, Waits, Rests, Syncs, Idles, Labels

\* A good header is the answer to the label's own command.
LEMMA HeaderInStep ==
    ASSUME IInv, Header, smooth'
    PROVE  /\ smooth /\ InSync /\ Answer(AckOk) /\ tx = <<>> /\ Effect(pc)
           /\ Payload(pc, After(rx, 2) \o out) /\ After(rx, 2) \in Seq(Nat)
<1>1. smooth /\ Outcome = AckOk
    BY DEF Header, Answer, IInv, Types
<1>2. Answer(AckOk) /\ rx[2] = AckOk
    BY <1>1 DEF Header, Outcome, Mismatch, AckOk
<1>3. InSync /\ Len(rx) >= 2 /\ step = "wait" /\ pc \in Labels
    BY <1>1 DEF IInv, Header, Types
<1>4. rx \in Seq(Nat) /\ out \in Seq(Nat)
    BY <1>3 DEF InSync, Bytes
<1>5. rx # <<>>
    BY <1>3, <1>4
<1>6. Len(Line) # 1
    BY <1>3, <1>4, ConcatProperties DEF Line
<1>7. Answered
    BY <1>3, <1>5, <1>6 DEF InSync, Shape, Waits, Asked, Swallowed
<1>8. After(rx, 2) \in Seq(Nat) /\ After(rx, 2) \o out = After(Line, 2)
    BY <1>3, <1>4, AfterIs, SMTT(30) DEF Line
<1> QED
    BY <1>1, <1>2, <1>3, <1>7, <1>8 DEF Answered

\* Labels whose answer is the header and no more.
\* The labels whose answers are headers without a payload.
HeaderOnly == {"bus", "select", "motor", "seek", "click", "oldhead", "head", "rstatus", "wstatus"}

LEMMA PlainHeader ==
    ASSUME IInv, Header, smooth', pc \in HeaderOnly
    PROVE  rx' = <<>> /\ out' = <<>> /\ mode' = "command" /\ op' = op
<1>1. After(rx, 2) = <<>> /\ out = <<>> /\ mode = "command"
    <2>1. After(rx, 2) \o out = <<>> /\ mode = "command"
        BY HeaderInStep DEF Payload, Effect, HeaderOnly
    <2>2. out \in Seq(Nat) /\ After(rx, 2) \in Seq(Nat)
        BY HeaderInStep DEF InSync, Bytes
    <2> QED
        BY <2>1, <2>2, NothingLeft
<1> QED
    BY <1>1 DEF Header, Unread

\* What the decoders take of a whole stream.
LEMMA StreamIsDecoded ==
    ASSUME Types, got \in Seq(Nat), Stream(got, FluxByte(op.track))
    PROVE  Has(got, 0) /\ Decoded \subseteq {FluxByte(op.track)}
<1>1. Len(got) \in DOMAIN got /\ got[Len(got)] = 0
    BY DEF Stream
<1>2. ASSUME NEW i \in DOMAIN got, \A e \in {j \in DOMAIN got : got[j] = 0} : i < e
      PROVE  got[i] = FluxByte(op.track)
    <2>1. i < Len(got)
        BY <1>1, <1>2
    <2>2. i \in 1 .. (Len(got) - 1)
        BY <2>1, <1>2
    <2> QED
        BY <2>2 DEF Stream
<1>3. Decoded \subseteq {FluxByte(op.track)}
    BY <1>2 DEF Decoded
<1> QED
    BY <1>1, <1>3 DEF Has

\* The steps of the host: the two halves of an answer.
LEMMA HeaderOnlyInStep ==
    ASSUME IInv, Header, smooth', pc \in HeaderOnly
    PROVE  InSync'
<1>1. /\ rx' = <<>> /\ out' = <<>> /\ mode' = "command" /\ op' = op
      /\ UNCHANGED <<pos, trk0, wpt, status, laid>>
    BY PlainHeader DEF Header
<1>2. /\ InSync /\ Answer(AckOk) /\ tx = <<>> /\ Effect(pc) /\ Types /\ smooth
    BY HeaderInStep DEF IInv
<1>3. pc # "idle" /\ res = "none" /\ got \in Seq(Nat)
    BY <1>2 DEF InSync, Results, HeaderOnly, Bytes
<1>4. \/ SetUpAnswer(AckOk) \/ SeekAnswer(AckOk) \/ DroppedAnswer(AckOk)
      \/ HeadAnswer(AckOk) \/ ReadStatusAnswer(AckOk) \/ WriteStatusAnswer(AckOk)
    BY <1>2 DEF Answer, HeaderOnly, InfoAnswer, PinAnswer, ReadAnswer, WriteAnswer
<1>5. ASSUME NEW l \in Labels, GoTo(l), head' = head \/ l # "oldhead", got' = got,
             OverTrack', OnTrack0', KindFits', Collected'
      PROVE  InSync'
    <2>1. Shape'
        BY <1>1, <1>2, <1>5, Asking
    <2>2. Bytes' /\ Results'
        BY <1>1, <1>3, <1>5 DEF Bytes, Results, GoTo, Labels, SmoothResultsAreTrue
    <2> QED
        BY <2>1, <2>2, <1>5 DEF InSync
<1>6. ASSUME NEW r, Finish(r), got' = got, SmoothResultsAreTrue'
      PROVE  InSync'
    <2>1. Shape'
        BY <1>1, <1>2, <1>6, Ending
    <2>2. Bytes'
        BY <1>1, <1>3, <1>6 DEF Bytes
    <2> QED
        BY <2>1, <2>2, <1>6 DEF InSync, Finish, OverTrack, OnTrack0, KindFits, Collected, Results,
           Positioned, Sought
<1>7. CASE SetUpAnswer(AckOk)
    <2> DEFINE l == IF pc = "motor" THEN "seek" ELSE Ready(up + 1)
    <2>1. GoTo(l) /\ got' = got /\ head' = head
        BY <1>7 DEF SetUpAnswer, Must
    <2>2. l \in {"bus", "select", "wpt", "motor", "seek"} /\ (l = "wpt" => op.kind = "write")
        BY <1>2, ReadyIs DEF Types
    <2> HIDE DEF l
    <2> QED
        BY <1>1, <1>5, <2>1, <2>2 DEF GoTo, OverTrack, OnTrack0, KindFits, Collected, Labels,
           Positioned, Sought
<1>8. CASE SeekAnswer(AckOk)
    <2>1. CASE op.track[1] = 0
        <3>1. GoTo("at0") /\ got' = got /\ head' = head /\ pos[1] = op.track[1]
            BY <1>2, <1>8, <2>1 DEF SeekAnswer, Must, Effect
        <3> QED
            BY <1>1, <1>5, <2>1, <3>1 DEF GoTo, OverTrack, OnTrack0, KindFits, Collected, Labels,
               Positioned, Sought
    <2>2. CASE op.track[1] # 0
        <3>1. GoTo("oldhead") /\ got' = got /\ head' = head /\ pos[1] = op.track[1]
            BY <1>2, <1>8, <2>2 DEF SeekAnswer, Must, Effect
        <3> QED
            BY <1>1, <1>5, <2>2, <3>1 DEF GoTo, OverTrack, OnTrack0, KindFits, Collected, Labels,
               Positioned, Sought
    <2> QED
        BY <2>1, <2>2
<1>9. CASE DroppedAnswer(AckOk)
    <2>1. CASE pc = "click"
        BY <1>1, <1>2, <1>5, <1>9, <2>1 DEF DroppedAnswer, GoTo, InSync, OverTrack, OnTrack0,
           KindFits, Collected, Labels, Positioned, Sought
    <2>2. CASE pc = "oldhead" /\ op.kind = "seek"
        <3>1. Finish("ok") /\ got' = got
            BY <1>9, <2>2 DEF DroppedAnswer
        <3>2. SmoothResultsAreTrue'
            BY <1>1, <1>2, <2>2 DEF SmoothResultsAreTrue, InSync, OverTrack, OnTrack0, Sought
        <3> QED
            BY <3>1, <3>2, <1>6
    <2>3. CASE pc = "oldhead" /\ op.kind # "seek"
        BY <1>1, <1>2, <1>5, <1>9, <2>3 DEF DroppedAnswer, GoTo, InSync, OverTrack, OnTrack0,
           KindFits, Collected, Labels, Positioned, Sought
    <2> QED
        BY <1>9, <2>1, <2>2, <2>3 DEF DroppedAnswer
<1>10. CASE HeadAnswer(AckOk)
    <2> DEFINE l == IF op.kind = "read" THEN "read" ELSE "wptagain"
    <2>1. /\ GoTo(l) /\ got' = got /\ l \in {"read", "wptagain"} /\ pos = op.track
          /\ pc = "head" /\ (l = "read" <=> op.kind = "read")
        BY <1>2, <1>10 DEF HeadAnswer, Must, Effect
    <2>2. op.kind # "seek" /\ op.kind \in Kinds /\ (op.track[1] = 0 => trk0)
        BY <1>2, <2>1 DEF InSync, KindFits, OnTrack0, Types
    <2> HIDE DEF l
    <2> QED
        BY <1>1, <1>5, <2>1, <2>2 DEF GoTo, OverTrack, OnTrack0, KindFits, Collected, Labels, Kinds,
           Positioned, Sought
<1>11. CASE ReadStatusAnswer(AckOk)
    <2>1. pc = "rstatus" /\ Finish(FluxResult) /\ got' = got
        BY <1>11 DEF ReadStatusAnswer, AckOk, Overflow
    <2>2. Has(got, 0) /\ Decoded \subseteq {FluxByte(op.track)}
        BY <1>2, <1>3, <2>1, StreamIsDecoded DEF InSync, Collected
    <2>3. Decoded' = Decoded /\ Has(got, 0)' = Has(got, 0) /\ FluxByte(pos)' = FluxByte(pos)
        BY <1>1, <2>1 DEF Decoded, Has, FluxByte
    <2>4. /\ pos = op.track /\ (op.track[1] = 0 => trk0) /\ status = AckOk /\ op.kind = "read"
        BY <1>2, <2>1 DEF InSync, OverTrack, OnTrack0, KindFits, Positioned, Effect
    <2>5. SmoothResultsAreTrue'
        BY <1>1, <2>2, <2>3, <2>4 DEF SmoothResultsAreTrue
    <2> QED
        BY <1>6, <2>1, <2>5
<1>12. CASE WriteStatusAnswer(AckOk)
    <2>1. pc = "wstatus" /\ Finish("ok") /\ got' = got
        BY <1>12 DEF WriteStatusAnswer, AckOk, Underflow
    <2>2. /\ pos = op.track /\ (op.track[1] = 0 => trk0) /\ laid = "whole" /\ op.kind = "write"
        BY <1>2, <2>1 DEF InSync, OverTrack, OnTrack0, KindFits, Positioned, Effect, Collected
    <2>3. SmoothResultsAreTrue'
        BY <1>1, <2>2 DEF SmoothResultsAreTrue
    <2> QED
        BY <1>6, <2>1, <2>3
<1> QED
    BY <1>4, <1>7, <1>8, <1>9, <1>10, <1>11, <1>12

LEMMA HeaderThenRest ==
    ASSUME IInv, Header, smooth', pc \notin HeaderOnly
    PROVE  InSync'
<1>1. /\ InSync /\ Answer(AckOk) /\ tx = <<>> /\ Effect(pc) /\ Types /\ smooth
      /\ Payload(pc, After(rx, 2) \o out) /\ After(rx, 2) \in Seq(Nat)
    BY HeaderInStep DEF IInv
<1>2. /\ op' = op /\ UNCHANGED device /\ pc \notin {"idle", "sync"}
    BY DEF Header
<1>3. /\ pc \in {"info", "at0", "at0again", "wpt", "wptagain", "read", "write"}
      /\ ReadRest /\ got' = IF pc = "read" THEN <<>> ELSE got
    BY <1>1, <1>2 DEF Answer, HeaderOnly, InfoAnswer, PinAnswer, ReadAnswer, WriteAnswer, Types,
       Labels, AckOk, Overflow, SetUpAnswer, SeekAnswer, DroppedAnswer, HeadAnswer,
       ReadStatusAnswer, WriteStatusAnswer
<1>4. rx' = After(rx, 2) /\ pc' = pc /\ step' = "rest" /\ tx' = <<>> /\ res' = res
    BY <1>1, <1>3 DEF Header, Unread, Resends, ReadRest
<1>5. Bytes'
    BY <1>1, <1>2, <1>3, <1>4 DEF InSync, Bytes
<1>6. Payload(pc, IF pc = "read" THEN got \o Line ELSE Line)'
    <2>1. Line' = After(rx, 2) \o out
        BY <1>2, <1>4 DEF Line
    <2>2. Line' \in Seq(Nat)
        BY <1>5, ConcatProperties DEF Bytes, Line
    <2>3. pc = "read" => (got \o Line)' = Line'
        BY <1>3, <2>2, ConcatEmptySeq
    <2>4. (IF pc = "read" THEN got \o Line ELSE Line)' = After(rx, 2) \o out
        BY <1>4, <2>1, <2>3
    <2> DEFINE u == IF pc = "read" THEN got \o Line ELSE Line
    <2>5. PICK s : s = After(rx, 2) \o out
        OBVIOUS
    <2>6. Payload(pc, s) /\ u' = s
        BY <1>1, <2>4, <2>5
    <2> HIDE DEF u
    <2>7. Payload(pc, u)'
        BY <1>2, <1>4, <2>6 DEF Payload, Bit, Stream, FluxByte
    <2> QED
        BY <2>7 DEF u
<1>7. Shape'
    BY <1>1, <1>2, <1>3, <1>4, <1>6 DEF Shape, Waits, Rests, Syncs, Idles, Effect
<1>8. OverTrack' /\ OnTrack0' /\ KindFits' /\ Collected' /\ Results'
    BY <1>1, <1>2, <1>3, <1>4 DEF InSync, OverTrack, OnTrack0, KindFits, Collected, Results,
       SmoothResultsAreTrue
<1> QED
    BY <1>5, <1>7, <1>8 DEF InSync

\* What the steps below a header share: the label is asking for something new,
\* or the operation has been refused.
LEMMA GoesOn ==
    ASSUME InSync, pc # "idle", NEW l \in Labels, GoTo(l), got' \in Seq(Nat),
           tx = <<>>, rx' = <<>>, out' = <<>>, mode' = "command",
           op' = op, head' = head,
           OverTrack', OnTrack0', KindFits', Collected'
    PROVE  InSync'
<1>1. Shape'
    BY Asking
<1>2. Bytes' /\ Results'
    BY DEF InSync, Bytes, Results, GoTo, Labels, SmoothResultsAreTrue
<1> QED
    BY <1>1, <1>2 DEF InSync

LEMMA GivesUp ==
    ASSUME InSync, NEW r, r # "ok", Finish(r), got' \in Seq(Nat),
           tx = <<>>, rx' = <<>>, out' = <<>>
    PROVE  InSync'
<1>1. Shape'
    BY Ending
<1>2. Bytes' /\ Results'
    BY DEF InSync, Bytes, Results, Finish, SmoothResultsAreTrue
<1> QED
    BY <1>1, <1>2 DEF InSync, Finish, OverTrack, OnTrack0, KindFits, Collected, Positioned, Sought

LEMMA InfoRestInStep ==
    ASSUME IInv, InfoRest, smooth' PROVE InSync'
<1>1. /\ Len(rx) >= InfoLen /\ rx' = After(rx, InfoLen) /\ GoTo(Ready(up)) /\ smooth
      /\ op' = op /\ head' = head /\ got' = got /\ UNCHANGED device
      /\ pc = "info" /\ step = "rest"
    BY DEF InfoRest
<1>2. InSync /\ Types
    BY <1>1 DEF IInv
<1>3. /\ tx = <<>> /\ Len(Line) = InfoLen /\ mode = "command"
      /\ rx \in Seq(Nat) /\ out \in Seq(Nat) /\ got \in Seq(Nat)
    BY <1>1, <1>2 DEF InSync, Shape, Rests, Payload, Effect, Labels, Bytes
<1>4. rx' = <<>> /\ out = <<>>
    <2>1. Len(rx) + Len(out) = InfoLen /\ Len(rx) \in Nat /\ Len(out) \in Nat
        BY <1>3, ConcatProperties DEF Line
    <2>2. Len(rx) = InfoLen /\ Len(out) = 0
        BY <1>1, <2>1, GwConstants
    <2>3. Len(After(rx, InfoLen)) = 0 /\ After(rx, InfoLen) \in Seq(Nat)
        BY <1>3, <2>1, <2>2, AfterIs
    <2> QED
        BY <1>1, <1>3, <2>2, <2>3
<1>5. Ready(up) \in {"bus", "select", "wpt", "motor", "seek"}
      /\ (Ready(up) = "wpt" => op.kind = "write")
    BY <1>2, ReadyIs DEF Types
<1> DEFINE l == Ready(up)
<1>6. GoTo(l) /\ l \in {"bus", "select", "wpt", "motor", "seek"} /\ (l = "wpt" => op.kind = "write")
    BY <1>1, <1>5
<1> HIDE DEF l
<1>7. OverTrack' /\ OnTrack0' /\ KindFits' /\ Collected'
    BY <1>1, <1>6 DEF GoTo, OverTrack, OnTrack0, KindFits, Collected, Positioned, Sought
<1> QED
    BY <1>1, <1>2, <1>3, <1>4, <1>6, <1>7, GoesOn DEF Labels

LEMMA PinRestInStep ==
    ASSUME IInv, PinRest, smooth' PROVE InSync'
<1>1. /\ rx # <<>> /\ rx' = Tail(rx) /\ Pin(Head(rx) # 0) /\ smooth
      /\ op' = op /\ head' = head /\ got' = got /\ UNCHANGED device
      /\ pc \in {"at0", "at0again", "wpt", "wptagain"} /\ step = "rest"
    BY DEF PinRest
<1>2. InSync /\ Types
    BY <1>1 DEF IInv
<1>3. /\ tx = <<>> /\ mode = "command"
      /\ Line = <<Bit(IF pc \in {"at0", "at0again"} THEN trk0 ELSE wpt)>>
      /\ rx \in Seq(Nat) /\ out \in Seq(Nat) /\ got \in Seq(Nat)
    BY <1>1, <1>2 DEF InSync, Shape, Rests, Payload, Effect, Labels, Bytes
<1>4. /\ rx' = <<>> /\ out = <<>>
      /\ Head(rx) = Bit(IF pc \in {"at0", "at0again"} THEN trk0 ELSE wpt)
    <2>1. Len(Line) = 1
        BY <1>3
    <2>2. Len(rx) = 1 /\ Len(out) = 0
        <3>1. Len(Line) = Len(rx) + Len(out)
            BY <1>3, ConcatProperties DEF Line
        <3>2. Len(rx) \in Nat /\ Len(rx) # 0 /\ Len(out) \in Nat
            BY <1>1, <1>3, EmptySeq
        <3> QED
            BY <2>1, <3>1, <3>2, SMTT(30)
    <2>3. Tail(rx) = <<>> /\ out = <<>>
        BY <1>1, <1>3, <2>2
    <2>4. Line[1] = rx[1]
        BY <1>3, <2>2, ConcatProperties DEF Line
    <2> QED
        BY <1>1, <1>3, <2>3, <2>4
<1> DEFINE high == Head(rx) # 0
<1>5. /\ high \in BOOLEAN /\ Pin(high)
      /\ pc \in {"at0", "at0again"} => high = ~trk0
    BY <1>1, <1>2, <1>4 DEF Bit, Types
<1> HIDE DEF high
<1>6. /\ pc \in {"at0", "at0again"} => op.track[1] = 0 /\ pos[1] = op.track[1]
      /\ pc \in {"wpt", "wptagain"} => op.kind = "write"
      /\ pc = "wptagain" => pos = op.track /\ (op.track[1] = 0 => trk0)
    BY <1>2 DEF InSync, KindFits, OverTrack, OnTrack0, Positioned, Sought
<1>7. pc # "idle"
    BY <1>1
<1> USE DEF OverTrack, OnTrack0, KindFits, Collected, Positioned, Sought
<1>8. CASE pc = "at0" /\ high
    <2>1. GoTo("click")
        BY <1>5, <1>8 DEF Pin
    <2>2. OverTrack' /\ OnTrack0' /\ KindFits' /\ Collected'
        BY <1>1, <1>6, <1>8, <2>1 DEF GoTo
    <2> QED
        BY <1>1, <1>2, <1>3, <1>4, <1>7, <2>1, <2>2, GoesOn DEF Labels
<1>9. CASE pc \in {"at0", "at0again"} /\ ~high
    <2>1. GoTo("oldhead") /\ trk0
        BY <1>2, <1>5, <1>9 DEF Pin, Types
    <2>2. OverTrack' /\ OnTrack0' /\ KindFits' /\ Collected'
        BY <1>1, <1>6, <1>9, <2>1 DEF GoTo
    <2> QED
        BY <1>1, <1>2, <1>3, <1>4, <1>7, <2>1, <2>2, GoesOn DEF Labels
<1>10. CASE pc = "wpt" /\ high
    <2>1. GoTo(Spin(up)) /\ Spin(up) \in {"motor", "seek"}
        BY <1>2, <1>5, <1>10, ReadyIs DEF Pin, Types
    <2>2. OverTrack' /\ OnTrack0' /\ KindFits' /\ Collected'
        BY <1>1, <1>6, <1>10, <2>1 DEF GoTo
    <2> QED
        BY <1>1, <1>2, <1>3, <1>4, <1>7, <2>1, <2>2, GoesOn DEF Labels
<1>11. CASE pc = "wptagain" /\ high
    <2>1. GoTo("write")
        BY <1>5, <1>11 DEF Pin
    <2>2. OverTrack' /\ OnTrack0' /\ KindFits' /\ Collected'
        BY <1>1, <1>6, <1>11, <2>1 DEF GoTo
    <2> QED
        BY <1>1, <1>2, <1>3, <1>4, <1>7, <2>1, <2>2, GoesOn DEF Labels
<1>12. CASE (pc = "at0again" /\ high) \/ (pc \in {"wpt", "wptagain"} /\ ~high)
    <2>1. \E r \in {"failed", "refused"} : Finish(r)
        BY <1>5, <1>12 DEF Pin
    <2> QED
        BY <1>1, <1>2, <1>3, <1>4, <2>1, GivesUp
<1> QED
    BY <1>1, <1>5, <1>8, <1>9, <1>10, <1>11, <1>12

LEMMA FluxRestInStep ==
    ASSUME IInv, FluxRest, smooth' PROVE InSync'
<1> DEFINE n == IF Head(rx) = 0 THEN 1 ELSE Len(rx)
           taken == SubSeq(rx, 1, n)
           left == After(rx, n)
           b == FluxByte(op.track)
<1>1. /\ rx # <<>> /\ smooth /\ got' = got \o taken /\ rx' = left
      /\ IF rx[n] = 0 THEN GoTo("rstatus") ELSE UNCHANGED <<pc, step, res, tx>>
      /\ op' = op /\ head' = head /\ UNCHANGED device /\ pc = "read" /\ step = "rest"
    BY DEF FluxRest
<1>2. InSync /\ Types
    BY <1>1 DEF IInv
<1>3. /\ tx = <<>> /\ Stream(got \o Line, b) /\ mode = "command"
      /\ rx \in Seq(Nat) /\ out \in Seq(Nat) /\ got \in Seq(Nat)
    BY <1>1, <1>2 DEF InSync, Shape, Rests, Payload, Effect, Labels, Bytes
<1>4. b \in Nat /\ b # 0
    BY <1>2, GwConstants DEF Types, FluxByte
<1>5. n \in 1 .. Len(rx)
    BY <1>1, <1>3, EmptySeq
<1> HIDE DEF b, n
<1>6. PICK a, c \in Seq(Nat) : a = taken /\ c = left /\ a \o c = rx /\ Len(c) = Len(rx) - n
    BY <1>3, <1>5, TakenFromFront
<1> HIDE DEF left, taken
<1>7. c \o out \in Seq(Nat) /\ got \o a \in Seq(Nat) /\ rx \o out \in Seq(Nat)
    BY <1>3, Joined
<1>8. (got \o a) \o (c \o out) = got \o Line
    <2>1. PICK g \in Seq(Nat), u \in Seq(Nat) : g = got /\ u = out
        BY <1>3
    <2>2. (g \o a) \o (c \o u) = g \o ((a \o c) \o u)
        <3>1. c \o u \in Seq(Nat)
            BY Joined
        <3>2. (g \o a) \o (c \o u) = g \o (a \o (c \o u))
            BY <3>1, Associative, Zenon
        <3>3. a \o (c \o u) = (a \o c) \o u
            BY Associative, ZenonT(30)
        <3> QED
            BY <3>2, <3>3, Zenon
    <2> QED
        BY <1>6, <2>1, <2>2 DEF Line
<1>9. Len(got) \in Nat /\ Len(rx) \in Nat /\ Len(out) \in Nat
    BY <1>3
<1>10. CASE rx[n] = 0
    <2>1. Len(got \o Line) = Len(got) + Len(rx) + Len(out) /\ got \o Line \in Seq(Nat)
        BY <1>3, ConcatProperties DEF Line
    <2>2. (got \o Line)[Len(got) + n] = 0
        <3>1. Line \in Seq(Nat) /\ Len(Line) = Len(rx) + Len(out)
              /\ \A i \in 1 .. Len(rx) : Line[i] = rx[i]
            BY <1>3, ConcatProperties DEF Line
        <3>2. n \in 1 .. Len(Line)
            BY <1>5, <1>9, <3>1
        <3>3. (got \o Line)[Len(got) + n] = Line[n]
            BY <1>3, <3>1, <3>2, Behind
        <3> QED
            BY <1>5, <1>10, <3>1, <3>3
    <2>3. ~(Len(got) + n < Len(got) + Len(rx) + Len(out))
        <3> SUFFICES ASSUME Len(got) + n < Len(got) + Len(rx) + Len(out) PROVE FALSE
            OBVIOUS
        <3>1. Len(got) + n \in 1 .. (Len(got \o Line) - 1)
            BY <1>5, <1>9, <2>1
        <3>2. (got \o Line)[Len(got) + n] = b
            BY <1>3, <3>1 DEF Stream
        <3> QED
            BY <1>4, <2>2, <3>2
    <2>4. n = Len(rx) /\ Len(out) = 0
        BY <1>5, <1>9, <2>3
    <2>5. left = <<>> /\ out = <<>>
        BY <1>3, <1>6, <1>9, <2>4
    <2>6. got \o taken = got \o Line
        BY <1>6, <1>7, <1>8, <2>5, ConcatEmptySeq
    <2>7. Stream(got', b) /\ b' = b
        BY <1>1, <1>3, <2>6 DEF b, FluxByte
    <2>8. GoTo("rstatus")
        BY <1>1, <1>10
    <2>9. OverTrack' /\ OnTrack0' /\ KindFits' /\ Collected'
        <3>1. pos = op.track /\ (op.track[1] = 0 => trk0) /\ op.kind = "read"
            BY <1>1, <1>2 DEF InSync, OverTrack, OnTrack0, KindFits, Positioned
        <3>2. Collected'
            BY <1>1, <2>7, <2>8 DEF Collected, GoTo, b, Stream
        <3> QED
            BY <1>1, <2>8, <3>1, <3>2 DEF GoTo, OverTrack, OnTrack0, KindFits, Positioned, Sought
    <2> QED
        BY <1>1, <1>2, <1>3, <1>6, <1>7, <2>5, <2>8, <2>9, GoesOn DEF Labels
<1>11. CASE rx[n] # 0
    <2>1. UNCHANGED <<pc, step, res, tx>>
        BY <1>1, <1>11
    <2>2. Bytes'
        BY <1>1, <1>3, <1>6, <1>7 DEF Bytes
    <2>3. (got \o Line)' = got \o Line
        BY <1>1, <1>6, <1>8 DEF Line
    <2>4. Payload(pc, IF pc = "read" THEN got \o Line ELSE Line)'
        <3> DEFINE u == got \o Line
        <3>1. PICK s : s = u
            OBVIOUS
        <3>2. Stream(s, b) /\ u' = s
            BY <1>3, <2>3, <3>1
        <3> HIDE DEF u
        <3>3. Payload("read", u)'
            BY <1>1, <3>2 DEF Payload, Stream, FluxByte, b
        <3> QED
            BY <1>1, <2>1, <3>3 DEF u
    <2>5. Effect("read")' /\ pc' = "read" /\ step' = "rest" /\ tx' = <<>>
        BY <1>1, <1>3, <2>1 DEF Effect
    <2>6. Shape'
        BY <2>4, <2>5 DEF Shape, Waits, Rests, Syncs, Idles
    <2>7. OverTrack' /\ OnTrack0' /\ KindFits' /\ Collected' /\ Results'
        BY <1>1, <1>2, <2>1 DEF InSync, OverTrack, OnTrack0, KindFits, Collected, Results,
           SmoothResultsAreTrue, Positioned, Sought
    <2> QED
        BY <2>2, <2>6, <2>7 DEF InSync
<1> QED
    BY <1>10, <1>11

LEMMA WriteDataInStep ==
    ASSUME IInv, WriteData, smooth' PROVE InSync'
<1>1. /\ smooth /\ pc = "write" /\ step = "rest" /\ pc' = "sync"
      /\ tx' = Append(tx, [c |-> FluxData, arg |-> op.track])
      /\ UNCHANGED <<step, op, tries, up, head, got, res, smooth, rx, device>>
    BY DEF WriteData, Write
<1>2. InSync /\ Types
    BY <1>1 DEF IInv
<1>3. tx = <<>> /\ mode = "data" /\ Line = <<>> /\ rx \in Seq(Nat) /\ out \in Seq(Nat)
    BY <1>1, <1>2 DEF InSync, Shape, Rests, Payload, Effect, Labels, Bytes
<1>4. rx = <<>> /\ out = <<>>
    BY <1>3, NothingLeft DEF Line
<1>5. Shape'
    BY <1>1, <1>3, <1>4 DEF Shape, Waits, Rests, Syncs, Idles, Labels
<1>6. Bytes' /\ OverTrack' /\ OnTrack0' /\ KindFits' /\ Results'
    BY <1>1, <1>2 DEF InSync, Bytes, OverTrack, OnTrack0, KindFits, Results,
       SmoothResultsAreTrue, Positioned, Sought
<1>7. Collected'
    BY <1>1, <1>3 DEF Collected
<1> QED
    BY <1>5, <1>6, <1>7 DEF InSync

LEMMA SyncByteInStep ==
    ASSUME IInv, SyncByte, smooth' PROVE InSync'
<1>1. /\ smooth /\ pc = "sync" /\ rx # <<>> /\ rx' = Tail(rx) /\ GoTo("wstatus")
      /\ op' = op /\ head' = head /\ got' = got /\ UNCHANGED device
    BY DEF SyncByte
<1>2. InSync /\ Types
    BY <1>1 DEF IInv
<1>3. /\ rx \in Seq(Nat) /\ out \in Seq(Nat) /\ got \in Seq(Nat)
      /\ tx = <<>> /\ Len(Line) = 1 /\ mode = "command"
    BY <1>1, <1>2 DEF InSync, Shape, Syncs, Bytes
<1>4. rx' = <<>> /\ out = <<>>
    <2>1. Len(Line) = Len(rx) + Len(out)
        BY <1>3, ConcatProperties DEF Line
    <2>2. Len(rx) \in Nat /\ Len(rx) # 0 /\ Len(out) \in Nat
        BY <1>1, <1>3, EmptySeq
    <2>3. Len(Line) = 1
        BY <1>3
    <2>4. Len(rx) = 1 /\ Len(out) = 0
        BY <2>1, <2>2, <2>3
    <2>5. rx \in Seq(Nat) /\ out \in Seq(Nat) /\ rx' = Tail(rx)
        BY <1>1, <1>3
    <2> QED
        BY <2>4, <2>5
<1>5. OverTrack' /\ OnTrack0' /\ KindFits' /\ Collected'
    BY <1>1, <1>2, <1>3 DEF GoTo, InSync, OverTrack, OnTrack0, KindFits, Collected, Positioned, Sought
<1> QED
    BY <1>1, <1>2, <1>3, <1>4, <1>5, GoesOn DEF Labels

LEMMA HostInStep == ASSUME IInv, Host PROVE IInv'
<1>1. CASE Header
    BY <1>1, HeaderOnlyInStep, HeaderThenRest, HostTypes DEF IInv
<1>2. CASE HeaderLate
    <2>1. smooth' = (smooth /\ Late = AckOk)
        BY <1>2 DEF HeaderLate, Answer
    <2>2. Late # AckOk
        BY DEF Late, AckOk
    <2>3. ~smooth'
        BY <2>1, <2>2, Zenon
    <2> QED
        BY <2>3, HostTypes DEF IInv
<1>3. CASE InfoRest
    BY <1>3, InfoRestInStep, HostTypes DEF IInv
<1>4. CASE PinRest
    BY <1>4, PinRestInStep, HostTypes DEF IInv
<1>5. CASE FluxRest
    BY <1>5, FluxRestInStep, HostTypes DEF IInv
<1>6. CASE WriteData
    BY <1>6, WriteDataInStep, HostTypes DEF IInv
<1>7. CASE SyncByte
    BY <1>7, SyncByteInStep, HostTypes DEF IInv
<1> QED
    BY <1>1, <1>2, <1>3, <1>4, <1>5, <1>6, <1>7 DEF Host

-----------------------------------------------------------------------------
(* What the device does to a line in step.                                 *)

\* A header and what stands behind it.
LEMMA BehindHeader ==
    ASSUME NEW x \in Nat, NEW y \in Nat, NEW t \in Seq(Nat)
    PROVE  /\ <<>> \o <<x, y>> = <<x, y>> /\ <<x, y>> \in Seq(Nat)
           /\ After(<<x, y>> \o t, 2) = t
<1>1. <<x, y>> \in Seq(Nat) /\ Len(<<x, y>>) = 2 /\ <<>> \o <<x, y>> = <<x, y>>
    OBVIOUS
<1>2. After(<<x, y>>, 2) = <<>>
    BY <1>1, SubSeqEmpty DEF After
<1>3. After(<<x, y>>, 2) \o t = After(<<x, y>> \o t, 2)
    <2>1. PICK s \in Seq(Nat) : s = <<x, y>> /\ Len(s) = 2
        BY <1>1
    <2>2. After(s, 2) \o t = After(s \o t, 2)
        <3>1. 2 \in Nat /\ 2 <= Len(s)
            BY <2>1
        <3> QED
            BY <3>1, AfterIs, Zenon
    <2> QED
        BY <2>1, <2>2
<1>4. <<>> \o t = t
    BY ConcatEmptySeq
<1> QED
    BY <1>1, <1>2, <1>3, <1>4

\* The device finds one command, and it is that of the host's label.
LEMMA OnlyWhatWasAsked ==
    ASSUME InSync, DeviceCommand, Types
    PROVE  /\ pc \in Labels /\ step = "wait" /\ rx = <<>>
           /\ Head(tx) = Sends(pc, op) /\ tx' = <<>>
<1>1. tx # <<>> /\ mode = "command" /\ tx' = Tail(tx)
    BY DEF DeviceCommand
<1>2. pc \in Labels /\ step = "wait"
    BY <1>1 DEF InSync, Shape, Syncs, Idles, Rests, Types
<1>3. Asked
    BY <1>1, <1>2 DEF InSync, Shape, Waits, Answered, Swallowed
<1> QED
    BY <1>1, <1>2, <1>3 DEF Asked

\* What a label's command e is, for operation o.
Carries(l, o, e) ==
    /\ l = "info" => e.c = GetInfo
    /\ l = "bus" => e.c = SetBus
    /\ l = "select" => e.c = Select_
    /\ l = "motor" => e.c = Motor
    /\ l = "seek" => e.c = Seek /\ e.arg = o.track[1]
    /\ l = "click" => e.c = NoClickStep
    /\ l = "oldhead" => e.c = Head_
    /\ l = "head" => e.c = Head_ /\ e.arg = o.track[2]
    /\ l = "read" => e.c = ReadFlux
    /\ l = "write" => e.c = WriteFlux
    /\ l \in {"at0", "at0again"} => e.c = GetPin /\ e.arg = Trk0Pin
    /\ l \in {"wpt", "wptagain"} => e.c = GetPin /\ e.arg = WptPin
    /\ l \in {"rstatus", "wstatus"} => e.c = FluxStatus

LEMMA CommandOf ==
    ASSUME NEW l \in Labels, NEW o, NEW e, e = Sends(l, o)
    PROVE  Carries(l, o, e)
<1> USE DEF Sends, Carries
<1>1. CASE l \in {"info", "bus", "select", "motor"}
    BY <1>1
<1>2. CASE l \in {"seek", "click", "oldhead", "head"}
    BY <1>2
<1>3. CASE l \in {"read", "write", "rstatus", "wstatus"}
    BY <1>3
<1>4. CASE l \in {"at0", "at0again", "wpt", "wptagain"}
    BY <1>4
<1> QED
    BY <1>1, <1>2, <1>3, <1>4 DEF Labels

\* An answer that fits the label brings the host to Answered.
LEMMA HasAnswered ==
    ASSUME pc \in Labels, step = "wait", UNCHANGED host, tx' = <<>>, rx = <<>>,
           NEW e, e.c \in Nat, NEW ack \in Nat, NEW payload \in Seq(Nat),
           Reply(e, ack, payload),
           ack = AckOk => Payload(pc, payload)' /\ Effect(pc)'
    PROVE  Shape' /\ rx' \in Seq(Nat) /\ out' \in Seq(Nat)
<1>1. rx' = <<e.c, ack>> /\ out' \in Seq(Nat) /\ (ack = AckOk => out' = payload)
    BY BehindHeader DEF Reply
<1>2. rx' \in Seq(Nat) /\ Len(rx') = 2 /\ rx'[2] = ack /\ After(Line, 2)' = out'
    BY <1>1, BehindHeader DEF Line, After
<1>3. Answered'
    <2>1. ASSUME ack = AckOk PROVE (Payload(pc, After(Line, 2)) /\ Effect(pc))'
        BY <1>1, <1>2, <2>1 DEF Payload, Stream
    <2> QED
        BY <1>2, <2>1 DEF Answered
<1> QED
    BY <1>1, <1>2, <1>3 DEF Shape, Waits, Rests, Syncs, Idles, Labels

\* The steps of the device.
LEMMA CommandInStep ==
    ASSUME IInv, DeviceCommand, smooth PROVE InSync'
<1>1. /\ InSync /\ Types /\ UNCHANGED host /\ UNCHANGED <<wpt, laid>>
      /\ mode = "command" /\ tx # <<>> /\ out = <<>>
    BY DEF IInv, DeviceCommand
<1>2. /\ pc \in Labels /\ step = "wait" /\ rx = <<>> /\ tx' = <<>>
    BY <1>1, OnlyWhatWasAsked
<1>3. PICK e : e = Sends(pc, op) /\ e = Head(tx)
    BY <1>1, OnlyWhatWasAsked
<1>4. Plain(e) \/ Moves(e) \/ Pins(e) \/ Streams(e) \/ TakesData(e)
    BY <1>3 DEF DeviceCommand
<1>5. /\ op.track \in Nat \X {0, 1} /\ op.track = <<op.track[1], op.track[2]>>
      /\ status \in Nat /\ InfoLen \in Nat
    BY <1>1, GwConstants DEF Types
<1>6. /\ e.c \in Nat
      /\ e.c \in {GetInfo, SetBus, Select_, Motor, FluxStatus} <=>
             pc \in {"info", "bus", "select", "motor", "rstatus", "wstatus"}
      /\ e.c = GetInfo <=> pc = "info"
      /\ e.c = FluxStatus <=> pc \in {"rstatus", "wstatus"}
      /\ e.c = Seek <=> pc = "seek"
      /\ e.c = NoClickStep <=> pc = "click"
      /\ e.c = Head_ <=> pc \in {"oldhead", "head"}
      /\ e.c = GetPin <=> pc \in {"at0", "at0again", "wpt", "wptagain"}
      /\ e.c = ReadFlux <=> pc = "read"
      /\ e.c = WriteFlux <=> pc = "write"
      /\ pc = "seek" => e.arg = op.track[1]
      /\ pc = "head" => e.arg = op.track[2]
      /\ pc \in {"at0", "at0again"} => e.arg = Trk0Pin
      /\ pc \in {"wpt", "wptagain"} => e.arg = WptPin
    <2>1. Carries(pc, op, e)
        BY <1>2, <1>3, CommandOf
    <2> USE DEF Carries, GetInfo, SetBus, Select_, Motor, Seek, NoClickStep, Head_,
            ReadFlux, WriteFlux, GetPin, FluxStatus
    <2>2. CASE pc \in {"info", "bus", "select", "motor"}
        BY <2>1, <2>2
    <2>3. CASE pc \in {"seek", "click", "oldhead", "head"}
        BY <2>1, <2>3
    <2>4. CASE pc \in {"read", "write", "rstatus", "wstatus"}
        BY <2>1, <2>4
    <2>5. CASE pc \in {"at0", "at0again", "wpt", "wptagain"}
        BY <2>1, <2>5
    <2> QED
        BY <1>2, <2>2, <2>3, <2>4, <2>5 DEF Labels
<1>7. ASSUME NEW ack \in Nat, NEW payload \in Seq(Nat), Reply(e, ack, payload),
             ack = AckOk => Payload(pc, payload)' /\ Effect(pc)',
             OverTrack', OnTrack0', Collected'
      PROVE  InSync'
    <2>1. Shape' /\ rx' \in Seq(Nat) /\ out' \in Seq(Nat)
        BY <1>1, <1>2, <1>6, <1>7, HasAnswered
    <2>2. Bytes' /\ KindFits' /\ Results'
        BY <1>1, <1>2, <2>1 DEF InSync, Bytes, KindFits, Results, SmoothResultsAreTrue, Labels
    <2> QED
        BY <1>7, <2>1, <2>2 DEF InSync
<1>8. ASSUME NEW ack \in Nat, Reply(e, ack, <<>>),
             ack = AckOk => Payload(pc, <<>>)' /\ Effect(pc)',
             OverTrack', OnTrack0', Collected'
      PROVE  InSync'
    <2>1. PICK w \in Seq(Nat) : w = <<>>
        <3>1. <<>> \in Seq(Nat)
            OBVIOUS
        <3> QED
            BY <3>1
    <2>2. Reply(e, ack, w)
        BY <1>8, <2>1
    <2>3. ack = AckOk => Payload(pc, w)' /\ Effect(pc)'
        BY <1>8, <2>1 DEF Payload, Stream
    <2> QED
        BY <1>7, <1>8, <2>2, <2>3
<1>9. CASE Plain(e)
    <2> DEFINE payload == IF e.c = GetInfo THEN Copies(InfoByte, InfoLen) ELSE <<>>
               acks == CASE e.c = GetInfo    -> {AckOk}
                         [] e.c = FluxStatus -> {status}
                         [] e.c = SetBus     -> {AckOk, BadCommand}
                         [] OTHER            -> {AckOk, NoUnit}
    <2>1. PICK ack \in acks : Reply(e, ack, payload)
        BY <1>9 DEF Plain
    <2>2. /\ ack \in Nat /\ (e.c = FluxStatus => ack = status)
        BY <1>5 DEF AckOk, BadCommand, NoUnit, FluxStatus, GetInfo, SetBus
    <2>3. /\ payload \in Seq(Nat) /\ (e.c = GetInfo => Len(payload) = InfoLen)
          /\ (e.c # GetInfo => payload = <<>>)
        BY <1>5 DEF Copies, InfoByte
    <2>4. UNCHANGED <<mode, pos, trk0, status>> /\ e.c \in {GetInfo, SetBus, Select_, Motor, FluxStatus}
        BY <1>9 DEF Plain
    <2>5. pc \in {"info", "bus", "select", "motor", "rstatus", "wstatus"}
          /\ (pc = "info" <=> e.c = GetInfo) /\ (pc \in {"rstatus", "wstatus"} <=> e.c = FluxStatus)
        BY <1>6, <2>4
    <2>6. PICK w \in Seq(Nat) : w = payload
        BY <2>3
    <2> HIDE DEF payload, acks
    <2>7. ack = AckOk => Payload(pc, w)' /\ Effect(pc)'
        BY <1>1, <2>2, <2>3, <2>4, <2>5, <2>6 DEF Payload, Effect
    <2>8. OverTrack' /\ OnTrack0' /\ Collected'
        BY <1>1, <2>4, <2>5 DEF InSync, OverTrack, OnTrack0, Collected, Positioned, Sought, Stream,
           FluxByte
    <2> QED
        BY <1>7, <2>1, <2>2, <2>6, <2>7, <2>8
<1>10. CASE Moves(e)
    <2>1. pc \in {"seek", "click", "oldhead", "head"} /\ (pc = "seek" <=> e.c = Seek)
          /\ (pc = "click" <=> e.c = NoClickStep) /\ (pc \in {"oldhead", "head"} <=> e.c = Head_)
          /\ (pc = "seek" => e.arg = op.track[1]) /\ (pc = "head" => e.arg = op.track[2])
        BY <1>6, <1>10 DEF Moves
    <2>2. UNCHANGED <<mode, status>>
        BY <1>10 DEF Moves
    <2>3. CASE /\ Reply(e, AckOk, <<>>)
               /\ pos' = CASE e.c = Seek  -> <<e.arg, pos[2]>>
                           [] e.c = Head_ -> <<pos[1], e.arg>>
                           [] OTHER       -> pos
               /\ trk0' \in CASE e.c = Head_ -> {trk0}
                              [] e.c = Seek /\ e.arg > 0 -> {FALSE}
                              [] OTHER -> BOOLEAN
        <3>1. /\ pc = "seek" => pos'[1] = op.track[1]
              /\ pc # "seek" => pos'[1] = pos[1]
              /\ pc = "head" => pos' = <<pos[1], op.track[2]>>
            BY <2>1, <2>3 DEF Seek, Head_, NoClickStep
        <3>2. pc \in {"oldhead", "head"} => trk0' = trk0
            BY <2>1, <2>3
        <3>3. pc # "seek" => pos[1] = op.track[1]
            BY <1>1, <2>1 DEF InSync, OverTrack, Sought
        <3>4. pc = "head" => pos' = op.track
            BY <1>5, <3>1, <3>3
        <3>5. Payload(pc, <<>>)' /\ Effect(pc)'
            BY <1>1, <2>1, <2>2, <3>1, <3>4 DEF Payload, Effect
        <3>6. OverTrack' /\ OnTrack0' /\ Collected'
            BY <1>1, <2>1, <3>1, <3>2, <3>3 DEF InSync, OverTrack, OnTrack0, Collected, Positioned, Sought
        <3> QED
            BY <1>8, <2>3, <3>5, <3>6 DEF AckOk
    <2>4. CASE /\ Reply(e, IF e.c = Seek THEN NoTrk0 ELSE NoBus, <<>>)
               /\ UNCHANGED <<pos, trk0>>
        <3>1. PICK ack \in Nat : ack # AckOk /\ Reply(e, ack, <<>>)
            BY <2>4 DEF NoTrk0, NoBus, AckOk
        <3>2. OverTrack' /\ OnTrack0' /\ Collected'
            BY <1>1, <2>1, <2>4 DEF InSync, OverTrack, OnTrack0, Collected, Positioned, Sought
        <3> QED
            BY <1>8, <3>1, <3>2
    <2> QED
        BY <1>10, <2>3, <2>4 DEF Moves
<1>11. CASE Pins(e)
    <2> DEFINE active == IF e.arg = Trk0Pin THEN trk0 ELSE wpt
    <2>1. PICK ack \in {AckOk, BadPin} : Reply(e, ack, <<IF active THEN 0 ELSE 1>>)
        BY <1>11 DEF Pins
    <2>2. e.c = GetPin /\ UNCHANGED <<mode, pos, trk0, status>>
        BY <1>11 DEF Pins
    <2>3. /\ pc \in {"at0", "at0again", "wpt", "wptagain"}
          /\ pc \in {"at0", "at0again"} <=> e.arg = Trk0Pin
        BY <1>6, <2>2 DEF Trk0Pin, WptPin
    <2>4. PICK w \in Seq(Nat) : w = <<Bit(active)>> /\ Reply(e, ack, w)
        <3>1. Bit(active) \in Nat /\ <<Bit(active)>> = <<IF active THEN 0 ELSE 1>>
            BY DEF Bit
        <3>2. <<Bit(active)>> \in Seq(Nat)
            BY <3>1
        <3> QED
            BY <2>1, <3>1, <3>2
    <2>5. Payload(pc, w)' /\ Effect(pc)'
        BY <1>1, <2>2, <2>3, <2>4 DEF Payload, Effect, Bit
    <2>6. OverTrack' /\ OnTrack0' /\ Collected'
        BY <1>1, <2>2, <2>3 DEF InSync, OverTrack, OnTrack0, Collected, Positioned, Sought
    <2>7. ack \in Nat
        BY DEF AckOk, BadPin
    <2> QED
        BY <1>7, <2>4, <2>5, <2>6, <2>7
<1>12. CASE Streams(e)
    <2>1. e.c = ReadFlux /\ UNCHANGED <<mode, pos, trk0>>
        BY <1>12 DEF Streams
    <2>2. pc = "read"
        BY <1>6, <2>1
    <2>3. OverTrack' /\ OnTrack0' /\ Collected'
        BY <1>1, <2>1, <2>2 DEF InSync, OverTrack, OnTrack0, Collected, Positioned, Sought
    <2>4. pos = op.track
        BY <1>1, <2>2 DEF InSync, OverTrack, Positioned
    <2>5. CASE Reply(e, Overflow, <<>>)
        <3>1. PICK ack \in Nat : ack # AckOk /\ Reply(e, ack, <<>>)
            BY <2>5 DEF Overflow, AckOk
        <3> QED
            BY <1>8, <2>3, <3>1
    <2>6. CASE \E n \in 0 .. MaxFlux : Reply(e, AckOk, Append(Copies(FluxByte(pos), n), 0))
        <3>1. PICK n \in 0 .. MaxFlux : Reply(e, AckOk, Append(Copies(FluxByte(pos), n), 0))
            BY <2>6
        <3>2. PICK b \in Nat : b = FluxByte(op.track)
            BY <1>5 DEF FluxByte
        <3>3. n \in Nat
            BY GwConstants
        <3>4. PICK w \in Seq(Nat) : w = Append(Copies(b, n), 0) /\ Stream(w, b)
            <4>1. Copies(b, n) \in Seq(Nat) /\ Len(Copies(b, n)) = n
                  /\ \A i \in 1 .. n : Copies(b, n)[i] = b
                BY <3>3 DEF Copies
            <4>2. PICK w : w = Append(Copies(b, n), 0)
                OBVIOUS
            <4>3. /\ w \in Seq(Nat) /\ Len(w) = n + 1 /\ w # <<>>
                  /\ \A i \in 1 .. n : w[i] = Copies(b, n)[i]
                  /\ w[n + 1] = 0
                BY <4>1, <4>2, AppendProperties
            <4>4. Len(w) - 1 = n
                BY <3>3, <4>3
            <4>5. Stream(w, b)
                BY <4>1, <4>3, <4>4 DEF Stream
            <4> QED
                BY <4>2, <4>3, <4>5
        <3>5. Reply(e, AckOk, w)
            BY <2>4, <3>1, <3>2, <3>4
        <3>6. Payload(pc, w)' /\ Effect(pc)'
            <4>1. FluxByte(op.track)' = b
                BY <1>1, <3>2 DEF FluxByte
            <4> QED
                BY <1>1, <2>1, <2>2, <3>4, <4>1 DEF Payload, Effect, Stream
        <3> QED
            BY <1>7, <2>3, <3>5, <3>6 DEF AckOk
    <2> QED
        BY <1>12, <2>5, <2>6 DEF Streams
<1>13. CASE TakesData(e)
    <2>1. /\ e.c = WriteFlux /\ UNCHANGED <<pos, trk0, status>>
          /\ Reply(e, IF wpt THEN WrProt ELSE AckOk, <<>>)
          /\ mode' = IF wpt THEN "command" ELSE "data"
        BY <1>13 DEF TakesData
    <2>2. pc = "write"
        BY <1>6, <2>1
    <2>3. OverTrack' /\ OnTrack0' /\ Collected'
        BY <1>1, <2>1, <2>2 DEF InSync, OverTrack, OnTrack0, Collected, Positioned, Sought
    <2>4. PICK ack \in Nat : Reply(e, ack, <<>>) /\ (ack = AckOk => ~wpt)
        BY <2>1 DEF WrProt, AckOk
    <2>5. ack = AckOk => Payload(pc, <<>>)' /\ Effect(pc)'
        BY <1>1, <2>1, <2>2, <2>4 DEF Payload, Effect
    <2> QED
        BY <1>8, <2>3, <2>4, <2>5
<1> QED
    BY <1>4, <1>9, <1>10, <1>11, <1>12, <1>13

LEMMA DataInStep ==
    ASSUME IInv, DeviceData, smooth PROVE InSync'
<1>1. /\ InSync /\ Types /\ UNCHANGED host /\ UNCHANGED <<rx, pos, trk0, wpt>>
      /\ mode = "data" /\ tx # <<>> /\ tx' = Tail(tx)
    BY DEF IInv, DeviceData
<1>2. (pc = "info" /\ step = "wait" /\ Asked) \/ (pc = "sync" /\ Syncs)
    BY <1>1 DEF InSync, Shape, Waits, Rests, Syncs, Idles, Types, Asked, Answered, Swallowed
<1>3. rx = <<>> /\ out = <<>> /\ tx' = <<>>
    BY <1>1, <1>2 DEF Asked, Syncs
<1>4. /\ Head(tx).c \in {FluxData, GetInfo}
      /\ pc = "sync" => Head(tx).c = FluxData
    <2>1. CASE pc = "info" /\ Asked
        <3>1. Head(tx) = Sends("info", op) /\ Sends("info", op) = [c |-> GetInfo, arg |-> 0]
            BY <2>1, SendsIs DEF Asked
        <3> QED
            BY <2>1, <3>1
    <2>2. CASE pc = "sync" /\ Syncs
        BY <1>1, <2>2 DEF Syncs
    <2> QED
        BY <1>2, <2>1, <2>2
<1>5. /\ status' \in {AckOk, Underflow} /\ out' = <<0>> /\ mode' = "command"
      /\ laid' = IF Head(tx).c = FluxData /\ status' = AckOk THEN "whole" ELSE "torn"
    BY <1>4 DEF DeviceData
<1>6. rx' \in Seq(Nat) /\ out' \in Seq(Nat) /\ Len(Line)' = 1
    <2>1. <<0>> \in Seq(Nat) /\ <<>> \in Seq(Nat) /\ Len(<<>> \o <<0>>) = 1
        OBVIOUS
    <2> QED
        BY <1>1, <1>3, <1>5, <2>1 DEF Line
<1>7. Shape'
    BY <1>1, <1>2, <1>3, <1>5, <1>6 DEF Shape, Waits, Rests, Syncs, Idles, Swallowed, Labels
<1>8. Bytes' /\ OverTrack' /\ OnTrack0' /\ KindFits'
    BY <1>1, <1>2, <1>6 DEF InSync, Bytes, OverTrack, OnTrack0, KindFits, Positioned, Sought
<1>9. Collected'
    BY <1>1, <1>2, <1>4, <1>5 DEF Collected
<1>10. Results'
    BY <1>1, <1>2 DEF InSync, Results, SmoothResultsAreTrue
<1> QED
    BY <1>7, <1>8, <1>9, <1>10 DEF InSync

LEMMA SendingInStep ==
    ASSUME IInv, DeviceSends, smooth PROVE InSync'
<1>1. /\ InSync /\ Types /\ UNCHANGED host
      /\ UNCHANGED <<tx, mode, pos, trk0, wpt, status, laid>>
      /\ out # <<>> /\ rx' = Append(rx, Head(out)) /\ out' = Tail(out)
    BY DEF IInv, DeviceSends
<1>2. /\ rx' \in Seq(Nat) /\ out' \in Seq(Nat) /\ Len(rx') = Len(rx) + 1
      /\ Line' = Line /\ \A i \in 1 .. Len(rx) : rx'[i] = rx[i]
    BY <1>1, OneByteOver DEF InSync, Bytes, Line
<1>3. /\ Len(rx) >= 2 => Len(rx') >= 2 /\ rx'[2] = rx[2]
    <2>1. Len(rx) \in Nat
        BY <1>1 DEF InSync, Bytes
    <2> QED
        BY <1>2, <2>1
<1>4. \A l, s : (Payload(l, s) => Payload(l, s)') /\ (Effect(l) => Effect(l)')
    BY <1>1 DEF Payload, Effect, FluxByte, Bit
<1>5. Waits'
    <2>1. CASE Asked
        BY <1>1, <2>1 DEF Asked
    <2>2. CASE Answered
        <3>1. After(Line, 2)' = After(Line, 2)
            BY <1>2 DEF After
        <3>2. Answered'
            BY <1>1, <1>3, <1>4, <2>2, <3>1 DEF Answered
        <3> QED
            BY <3>2 DEF Waits
    <2>3. CASE Swallowed
        BY <1>1, <1>2, <2>3 DEF Swallowed, Waits
    <2> QED
        BY <1>1, <2>1, <2>2, <2>3 DEF InSync, Shape, Waits
<1>6. Rests'
    BY <1>1, <1>2, <1>4 DEF InSync, Shape, Rests
<1>7. Syncs' /\ Idles'
    BY <1>1, <1>2 DEF InSync, Shape, Syncs, Idles
<1>8. Bytes' /\ OverTrack' /\ OnTrack0' /\ KindFits' /\ Results'
    <2>1. Decoded' = Decoded /\ FluxByte(pos)' = FluxByte(pos) /\ Has(got, 0)' = Has(got, 0)
        BY <1>1 DEF Decoded, FluxByte, Has
    <2>2. SmoothResultsAreTrue'
        BY <1>1, <2>1 DEF InSync, Results, SmoothResultsAreTrue
    <2> QED
        BY <1>1, <1>2, <2>2 DEF InSync, Bytes, OverTrack, OnTrack0, KindFits, Results
<1>9. Collected'
    BY <1>1 DEF InSync, Collected, FluxByte
<1> QED
    BY <1>5, <1>6, <1>7, <1>8, <1>9 DEF InSync, Shape

LEMMA DeviceInStep == ASSUME IInv, Device PROVE IInv'
<1>1. Types' /\ smooth' = smooth
    BY DeviceTypes DEF IInv, Device, DeviceCommand, DeviceData, DeviceSends
<1> QED
    BY <1>1, CommandInStep, DataInStep, SendingInStep DEF IInv, Device

-----------------------------------------------------------------------------
(* An operation begins in step if nothing is in flight, and not otherwise. *)

LEMMA BeginInStep ==
    ASSUME IInv, NEW k \in Kinds, NEW t \in Targets, Begin(k, t) PROVE IInv'
<1>1. Types'
    BY BeginTypes DEF IInv
<1>2. ASSUME smooth' PROVE InSync'
    <2>1. /\ tx = <<>> /\ out = <<>> /\ out' = <<>> /\ rx' = <<>>
          /\ tx' = <<Sends("info", op')>> /\ pc' = "info" /\ got' = <<>> /\ res' = "none"
          /\ step' = "wait"
        <3>1. tx = <<>> /\ out = <<>>
            BY <1>2, Zenon DEF Begin
        <3>2. /\ tx' = Append(tx, Sends("info", op')) /\ rx' = <<>> /\ out' = out
              /\ pc = "idle" /\ pc' = "info" /\ got' = <<>> /\ res' = "none" /\ step' = step
            BY Zenon DEF Begin, Write
        <3>3. step = "wait"
            BY <3>2 DEF IInv, Types
        <3> QED
            BY <3>1, <3>2, <3>3
    <2>2. tx' = <<Sends(pc, op)>>'
        BY <2>1 DEF Sends
    <2>3. Shape'
        BY <2>1, <2>2 DEF Shape, Waits, Rests, Syncs, Idles, Asked
    <2>4. Bytes' /\ OverTrack' /\ OnTrack0' /\ KindFits' /\ Collected' /\ Results'
        BY <2>1 DEF Bytes, OverTrack, OnTrack0, KindFits, Collected, Results,
           SmoothResultsAreTrue, Positioned, Sought
    <2> QED
        BY <2>3, <2>4 DEF InSync
<1> QED
    BY <1>1, <1>2 DEF IInv

LEMMA InitInSync == Init => IInv
<1> SUFFICES ASSUME Init PROVE InSync
    BY InitTypes DEF IInv
<1>1. Bytes /\ Shape /\ Results
    BY DEF Init, Bytes, Shape, Waits, Rests, Syncs, Idles, Results, SmoothResultsAreTrue, Labels
<1>2. OverTrack /\ OnTrack0 /\ KindFits /\ Collected
    BY DEF Init, OverTrack, OnTrack0, KindFits, Collected, Positioned, Sought
<1> QED
    BY <1>1, <1>2 DEF InSync

LEMMA StutterInSync == ASSUME IInv, UNCHANGED vars PROVE IInv'
<1>1. Types' /\ smooth' = smooth
    BY DEF IInv, Types
<1>2. ASSUME InSync PROVE InSync'
    <2>1. Shape'
        <3>1. /\ Line' = Line /\ \A l, o : Sends(l, o)' = Sends(l, o)
              /\ \A l, t : Payload(l, t)' = Payload(l, t) /\ Effect(l)' = Effect(l)
            BY DEF Line, Sends, Payload, Effect, FluxByte, Bit
        <3> QED
            BY <1>2, <3>1 DEF InSync, Shape, Waits, Rests, Syncs, Idles, Asked, Answered,
               Swallowed, After
    <2>2. Decoded' = Decoded /\ FluxByte(pos)' = FluxByte(pos) /\ Has(got, 0)' = Has(got, 0)
        BY DEF Decoded, FluxByte, Has
    <2>3. Results'
        BY <1>2, <2>2 DEF InSync, Results, SmoothResultsAreTrue
    <2> QED
        BY <1>2, <2>1, <2>3 DEF InSync, Bytes, OverTrack, OnTrack0, KindFits, Collected,
           FluxByte
<1> QED
    BY <1>1, <1>2 DEF IInv

-----------------------------------------------------------------------------
(* The host and the device are where their program places allow, and an    *)
(* operation that is smooth so far has the line and the drive in step.     *)
THEOREM Inductive == Spec => []IInv
<1>1. Init => IInv
    BY InitInSync
<1>2. IInv /\ [Next]_vars => IInv'
    <2> SUFFICES ASSUME IInv, [Next]_vars PROVE IInv'
        OBVIOUS
    <2>1. CASE \E k \in Kinds, t \in Targets : Begin(k, t)
        BY <2>1, BeginInStep
    <2>2. CASE Host
        BY <2>2, HostInStep
    <2>3. CASE Device
        BY <2>3, DeviceInStep
    <2>4. CASE UNCHANGED vars
        BY <2>4, StutterInSync
    <2> QED
        BY <2>1, <2>2, <2>3, <2>4 DEF Next
<1> QED
    BY <1>1, <1>2, PTL DEF Spec

(* What read_raw_flux, write_raw_flux and seek return as good, when every  *)
(* answer came in time and without an error, is true of the drive: the     *)
(* head is over the track, the flux is all of it and of no other, the  *)
(* write is whole.                                                         *)
THEOREM ResultsAreTrue == Spec => []SmoothResultsAreTrue
<1>1. IInv => SmoothResultsAreTrue
    BY DEF IInv, InSync, Results, SmoothResultsAreTrue
<1> QED
    BY <1>1, Inductive, PTL

(* ... and the operation has read its answers to the last byte: nothing is *)
(* left for the next one to take for its own.                              *)
THEOREM NothingUnread == Spec => []SmoothLeavesNothingUnread
<1>1. IInv => SmoothLeavesNothingUnread
    BY DEF IInv, InSync, Shape, Idles, SmoothLeavesNothingUnread
<1> QED
    BY <1>1, Inductive, PTL

-----------------------------------------------------------------------------
(* Commands and bytes, whatever comes late.                                *)

Tracks == Nat \X Nat
Sent == [c : {Seek, Head_}, arg : Nat] \cup [c : Nat \ {Seek, Head_}, arg : Nat \cup Tracks]
Pinned == {"at0", "at0again", "wpt", "wptagain"}

\* What is sent, what is on the line and where the host can be.
Wire ==
    /\ got \in Seq(Nat) /\ rx \in Seq(Nat) /\ out \in Seq(Nat)
    /\ tx \in Seq(Sent) /\ Len(tx) <= MaxPending
    /\ mode \in {"command", "data"} /\ head \in Nat /\ pos \in Tracks
    /\ status \in {AckOk, NoIndex, Overflow, Underflow}
    /\ mode = "data" => out = <<>>
Places ==
    /\ pc # "idle" => res = "none"
    /\ KindFits
    /\ step = "rest" => pc \in {"info", "read", "write", "sync"} \cup Pinned

\* A sequence with more behind it, and what is left behind a beginning.
LEMMA Extended ==
    ASSUME NEW s \in Seq(Nat), NEW u \in Seq(Nat)
    PROVE  /\ s \o u \in Seq(Nat) /\ Len(s \o u) = Len(s) + Len(u)
           /\ Len(s) \in Nat /\ Len(u) \in Nat
           /\ \A i \in 1 .. Len(s) : (s \o u)[i] = s[i]
           /\ \A i \in 1 .. Len(u) : (s \o u)[Len(s) + i] = u[i]
<1>1. Len(s) \in Nat /\ Len(u) \in Nat
    OBVIOUS
<1>2. \A i \in 1 .. Len(s) + Len(u) : (s \o u)[i] = IF i <= Len(s) THEN s[i] ELSE u[i - Len(s)]
    BY ConcatProperties
<1>3. ASSUME NEW i \in 1 .. Len(u) PROVE (s \o u)[Len(s) + i] = u[i]
    <2>1. Len(s) + i \in 1 .. Len(s) + Len(u) /\ ~(Len(s) + i <= Len(s)) /\ Len(s) + i - Len(s) = i
        BY <1>1
    <2> QED
        BY <1>2, <2>1
<1>4. \A i \in 1 .. Len(s) : (s \o u)[i] = s[i]
    BY <1>1, <1>2
<1> QED
    BY <1>1, <1>3, <1>4, ConcatProperties

LEMMA LeftBehind ==
    ASSUME NEW s \in Seq(Nat), NEW n \in 0 .. Len(s)
    PROVE  /\ After(s, n) \in Seq(Nat) /\ Len(After(s, n)) = Len(s) - n /\ Len(s) \in Nat
           /\ \A i \in 1 .. (Len(s) - n) : After(s, n)[i] = s[n + i]
<1>1. PICK w \in Seq(Nat) : w = <<>>
    <2>1. <<>> \in Seq(Nat)
        OBVIOUS
    <2> QED
        BY <2>1
<1>2. n \in Nat /\ n <= Len(s) /\ Len(s) \in Nat
    OBVIOUS
<1> QED
    BY <1>1, <1>2, AfterIs

LEMMA AllAndNone ==
    ASSUME NEW s \in Seq(Nat), NEW t \in Seq(Nat)
    PROVE  After(s \o t, 0) = s \o t /\ After(s \o t, Len(s)) = t
<1>1. PICK u \in Seq(Nat) : u = s \o t
    BY Joined
<1>2. After(u, 0) = u
    BY SubSeqFull DEF After
<1>3. After(s \o t, Len(s)) = After(s, Len(s)) \o t /\ After(s, Len(s)) \in Seq(Nat)
      /\ Len(After(s, Len(s))) = 0
    <2>1. Len(s) \in Nat /\ Len(s) <= Len(s) /\ Len(s) - Len(s) = 0
        OBVIOUS
    <2> QED
        BY <2>1, AfterIs
<1>4. After(s, Len(s)) = <<>> /\ <<>> \o t = t
    BY <1>3, EmptySeq, ConcatEmptySeq
<1> QED
    BY <1>1, <1>2, <1>3, <1>4

\* The steps of the host: it takes some bytes off the line.
LEMMA HostTakes ==
    ASSUME Wire, Host
    PROVE  /\ UNCHANGED device
           /\ rx' \in Seq(Nat) /\ Line \in Seq(Nat)
           /\ \E n \in 0 .. Len(Line) : Line' = After(Line, n)
<1>1. rx \in Seq(Nat) /\ out \in Seq(Nat) /\ Line = rx \o out /\ Line \in Seq(Nat)
      /\ Len(rx) \in Nat /\ Len(Line) = Len(rx) + Len(out) /\ Len(out) \in Nat
    BY Extended DEF Wire, Line
<1>2. UNCHANGED device
    BY DEF Host, Header, HeaderLate, InfoRest, PinRest, FluxRest, WriteData, SyncByte
<1>3. ASSUME NEW n \in 0 .. Len(rx), rx' = After(rx, n)
      PROVE  rx' \in Seq(Nat) /\ \E m \in 0 .. Len(Line) : Line' = After(Line, m)
    <2>1. n \in Nat /\ n <= Len(rx) /\ n \in 0 .. Len(Line)
        BY <1>1
    <2>2. After(rx, n) \in Seq(Nat) /\ After(rx, n) \o out = After(rx \o out, n)
        BY <1>1, <2>1, AfterIs, ZenonT(30)
    <2> QED
        BY <1>1, <1>2, <1>3, <2>1, <2>2 DEF Line
<1>4. ASSUME rx' = <<>>
      PROVE  rx' \in Seq(Nat) /\ \E m \in 0 .. Len(Line) : Line' = After(Line, m)
    <2>1. Line' = out /\ Len(rx) \in 0 .. Len(Line) /\ rx' \in Seq(Nat)
        BY <1>1, <1>2, <1>4, ConcatEmptySeq DEF Line
    <2> QED
        BY <1>1, <2>1, AllAndNone
<1>5. ASSUME rx' = rx
      PROVE  rx' \in Seq(Nat) /\ \E m \in 0 .. Len(Line) : Line' = After(Line, m)
    <2>1. Line' = Line /\ 0 \in 0 .. Len(Line)
        BY <1>1, <1>2, <1>5 DEF Line
    <2> QED
        BY <1>1, <1>5, <2>1, AllAndNone
<1>6. ASSUME rx # <<>>, rx' = Tail(rx) PROVE rx' = After(rx, 1) /\ 1 \in 0 .. Len(rx)
    BY <1>1, <1>6 DEF After
<1>7. CASE Header
    <2>1. 2 \in 0 .. Len(rx) /\ (rx' = After(rx, 2) \/ rx' = <<>>)
        BY <1>1, <1>7 DEF Header, Unread
    <2> QED
        BY <1>1, <1>2, <1>3, <1>4, <2>1
<1>8. CASE HeaderLate
    BY <1>1, <1>2, <1>4, <1>8 DEF HeaderLate
<1>9. CASE InfoRest
    <2>1. (InfoLen \in 0 .. Len(rx) /\ rx' = After(rx, InfoLen)) \/ rx' = <<>>
        BY <1>1, <1>9, GwConstants DEF InfoRest
    <2> QED
        BY <1>1, <1>2, <1>3, <1>4, <2>1
<1>10. CASE PinRest
    <2>1. (rx # <<>> /\ rx' = Tail(rx)) \/ rx' = rx
        BY <1>10 DEF PinRest
    <2> QED
        BY <1>1, <1>2, <1>3, <1>5, <1>6, <2>1
<1>11. CASE FluxRest
    <2> DEFINE n == IF Head(rx) = 0 THEN 1 ELSE Len(rx)
    <2>1. (rx # <<>> /\ rx' = After(rx, n)) \/ rx' = rx
        BY <1>11 DEF FluxRest
    <2>2. rx # <<>> => n \in 0 .. Len(rx)
        BY <1>1, EmptySeq
    <2> QED
        BY <1>1, <1>2, <1>3, <1>5, <2>1, <2>2
<1>12. CASE WriteData
    BY <1>1, <1>2, <1>5, <1>12 DEF WriteData
<1>13. CASE SyncByte
    <2>1. (rx # <<>> /\ rx' = Tail(rx)) \/ rx' = rx
        BY <1>13 DEF SyncByte
    <2> QED
        BY <1>1, <1>2, <1>3, <1>5, <1>6, <2>1
<1> QED
    BY <1>7, <1>8, <1>9, <1>10, <1>11, <1>12, <1>13 DEF Host

\* The label that can follow label k.
Edge(k, l) ==
    \/ k = "info" /\ l = "info"
    \/ k \in {"info", "bus", "select"} /\ l \in {"bus", "select"}
    \/ k \in {"info", "bus", "select"} /\ op.kind = "write" /\ l = "wpt"
    \/ k \in {"info", "bus", "select"} /\ op.kind # "write" /\ l \in {"motor", "seek"}
    \/ k = "wpt" /\ l \in {"motor", "seek"}
    \/ k = "motor" /\ l = "seek"
    \/ k = "seek" /\ op.track[1] = 0 /\ l = "at0"
    \/ k \in {"seek", "at0", "at0again"} /\ l = "oldhead"
    \/ k = "at0" /\ l = "click"
    \/ k = "click" /\ l = "at0again"
    \/ k = "oldhead" /\ op.kind # "seek" /\ l = "head"
    \/ k = "head" /\ op.kind = "read" /\ l = "read"
    \/ k = "head" /\ op.kind = "write" /\ l = "wptagain"
    \/ k = "read" /\ l \in {"read", "rstatus"}
    \/ k = "rstatus" /\ l = "read"
    \/ k \in {"wptagain", "wstatus"} /\ l = "write"
    \/ k = "sync" /\ l = "wstatus"

LEMMA EdgeIs ==
    ASSUME NEW k, NEW l, Edge(k, l) PROVE l \in Labels
BY DEF Edge, Labels

\* The ways a step of the host ends.
LEMMA AnswerMoves ==
    ASSUME Types, Places, NEW r, Answer(r)
    PROVE  \/ \E l \in Labels : Edge(pc, l) /\ GoTo(l)
           \/ \E v : Finish(v)
           \/ ReadRest /\ r = AckOk /\ pc \in {"info", "read", "write"} \cup Pinned
<1> USE DEF Labels
<1>1. CASE InfoAnswer(r)
    BY <1>1 DEF InfoAnswer, InfoAgain, Again, Edge
<1>2. CASE SetUpAnswer(r)
    <2>1. CASE pc = "motor"
        BY <1>2, <2>1 DEF SetUpAnswer, Must, Failed, Edge
    <2>2. CASE pc \in {"bus", "select"}
        <3>1. GoTo(Ready(up + 1)) \/ \E v : Finish(v)
            BY <1>2, <2>2 DEF SetUpAnswer, Must, Failed
        <3>2. Ready(up + 1) \in Labels /\ Edge(pc, Ready(up + 1))
            BY <2>2 DEF Ready, Spin, Edge, Types
        <3> QED
            BY <3>1, <3>2
    <2> QED
        BY <1>2, <2>1, <2>2 DEF SetUpAnswer
<1>3. CASE SeekAnswer(r)
    BY <1>3 DEF SeekAnswer, Must, Failed, Edge
<1>4. CASE PinAnswer(r)
    <2>1. pc \in Pinned /\ ((ReadRest /\ r = AckOk) \/ Pin(FALSE))
        BY <1>4 DEF PinAnswer, Pinned
    <2>2. Pin(FALSE) => (GoTo("oldhead") /\ pc \in {"at0", "at0again"}) \/ \E v : Finish(v)
        BY <2>1 DEF Pin, Pinned
    <2> QED
        BY <2>1, <2>2 DEF Edge
<1>5. CASE DroppedAnswer(r)
    BY <1>5 DEF DroppedAnswer, Edge
<1>6. CASE HeadAnswer(r)
    <2>1. pc = "head" /\ op.kind \in {"read", "write"}
        BY <1>6 DEF HeadAnswer, Places, KindFits, Types, Kinds
    <2> QED
        BY <1>6, <2>1 DEF HeadAnswer, Must, Failed, Edge
<1>7. CASE ReadAnswer(r)
    BY <1>7 DEF ReadAnswer, Failed, Again, Edge
<1>8. CASE ReadStatusAnswer(r)
    BY <1>8 DEF ReadStatusAnswer, Again, Edge
<1>9. CASE WriteAnswer(r)
    BY <1>9 DEF WriteAnswer, Failed, Edge
<1>10. CASE WriteStatusAnswer(r)
    BY <1>10 DEF WriteStatusAnswer, Failed, Again, Edge
<1> QED
    BY <1>1, <1>2, <1>3, <1>4, <1>5, <1>6, <1>7, <1>8, <1>9, <1>10 DEF Answer

\* read_flux goes on, with more of its answer to come.
Stays == pc = "read" /\ step = "rest" /\ UNCHANGED <<pc, step, res, tx>>

LEMMA PinMoves ==
    ASSUME Types, Places, NEW high \in BOOLEAN, Pin(high), pc \in Pinned
    PROVE  \/ \E l \in Labels : Edge(pc, l) /\ GoTo(l)
           \/ \E v : Finish(v)
<1> USE DEF Labels
<1>1. CASE pc = "at0"
    BY <1>1 DEF Pin, Edge
<1>2. CASE pc = "at0again"
    BY <1>2 DEF Pin, Edge
<1>3. CASE pc = "wpt"
    BY <1>3 DEF Pin, Edge, Spin
<1>4. CASE pc = "wptagain"
    BY <1>4 DEF Pin, Edge
<1> QED
    BY <1>1, <1>2, <1>3, <1>4 DEF Pinned

LEMMA HostMoves ==
    ASSUME Types, Places, Host
    PROVE  /\ op' = op /\ pc # "idle"
           /\ \/ \E l \in Labels : Edge(pc, l) /\ GoTo(l)
              \/ \E v : Finish(v)
              \/ ReadRest /\ step = "wait" /\ pc \in {"info", "read", "write"} \cup Pinned
              \/ Stays
              \/ WriteData
<1>1. CASE Header
    <2>1. Answer(Outcome) /\ op' = op /\ pc # "idle" /\ step = "wait"
        BY <1>1 DEF Header
    <2>2. PICK r : Answer(r)
        BY <2>1
    <2> QED
        BY <2>1, <2>2, AnswerMoves
<1>2. CASE HeaderLate
    BY <1>2, AnswerMoves DEF HeaderLate
<1>3. CASE InfoRest
    <2>1. op' = op /\ pc = "info" /\ (GoTo(Ready(up)) \/ InfoAgain)
        BY <1>3 DEF InfoRest
    <2>2. Ready(up) \in Labels /\ Edge(pc, Ready(up))
        BY <2>1 DEF Ready, Spin, Edge, Types, Labels
    <2>3. InfoAgain => GoTo("info") \/ \E v : Finish(v)
        BY DEF InfoAgain, Again
    <2>4. "info" \in Labels /\ (pc = "info" => Edge(pc, "info"))
        BY DEF Labels, Edge
    <2> QED
        BY <2>1, <2>2, <2>3, <2>4
<1>4. CASE PinRest
    <2>1. op' = op /\ pc \in Pinned /\ pc # "idle" /\ \E high \in BOOLEAN : Pin(high)
        BY <1>4 DEF PinRest, Pinned
    <2> QED
        BY <2>1, PinMoves
<1>5. CASE FluxRest
    <2>1. op' = op /\ pc = "read" /\ (GoTo("rstatus") \/ Stays)
        BY <1>5 DEF FluxRest, Stays
    <2>2. "rstatus" \in Labels /\ (pc = "read" => Edge(pc, "rstatus"))
        BY DEF Labels, Edge
    <2> QED
        BY <2>1, <2>2
<1>6. CASE WriteData
    BY <1>6 DEF WriteData
<1>7. CASE SyncByte
    BY <1>7 DEF SyncByte, Edge, Labels
<1> QED
    BY <1>1, <1>2, <1>3, <1>4, <1>5, <1>6, <1>7 DEF Host

\* What the device answers to command e: a status, and what follows it.
Says(e, ack, p) ==
    /\ e.c \in {GetInfo, SetBus, Select_, Motor, FluxStatus, Seek, NoClickStep, Head_,
                GetPin, ReadFlux, WriteFlux}
    /\ ack \in 0 .. 10 /\ ack # FluxStatus
    /\ ack = Overflow => e.c \in {ReadFlux, FluxStatus}
    /\ ack = NoTrk0 => e.c = Seek
    /\ ack # AckOk => p = <<>>
    /\ e.c = GetInfo => ack = AckOk /\ Len(p) = InfoLen /\ \A i \in 1 .. Len(p) : p[i] = InfoByte
    /\ e.c = GetPin /\ ack = AckOk => Len(p) = 1 /\ p[1] \in {0, 1}
    /\ e.c = ReadFlux /\ ack = AckOk => Stream(p, FluxByte(pos))
    /\ e.c \notin {GetInfo, GetPin, ReadFlux} => p = <<>>
    /\ e.c = FluxStatus => ack = status
    /\ mode' = IF e.c = WriteFlux /\ ack = AckOk THEN "data" ELSE "command"
    /\ pos' = IF ack = AckOk /\ e.c = Seek THEN <<e.arg, pos[2]>>
              ELSE IF ack = AckOk /\ e.c = Head_ THEN <<pos[1], e.arg>> ELSE pos
    /\ status' \in {AckOk, NoIndex, Overflow, Underflow}
    /\ e.c # ReadFlux => status' = status

LEMMA Copied ==
    ASSUME NEW b \in Nat, NEW n \in Nat
    PROVE  /\ Copies(b, n) \in Seq(Nat) /\ Len(Copies(b, n)) = n
           /\ \A i \in 1 .. n : Copies(b, n)[i] = b
BY DEF Copies

LEMMA EndedStream ==
    ASSUME NEW b \in Nat, NEW n \in Nat
    PROVE  Append(Copies(b, n), 0) \in Seq(Nat) /\ Stream(Append(Copies(b, n), 0), b)
<1>1. PICK s \in Seq(Nat) : s = Copies(b, n) /\ Len(s) = n /\ \A i \in 1 .. n : s[i] = b
    BY Copied
<1>2. PICK w : w = Append(s, 0)
    OBVIOUS
<1>3. /\ w \in Seq(Nat) /\ Len(w) = n + 1 /\ w # <<>>
      /\ \A i \in 1 .. n : w[i] = s[i]
      /\ w[n + 1] = 0
    BY <1>1, <1>2, AppendProperties
<1>4. Len(w) - 1 = n
    BY <1>3
<1> QED
    BY <1>1, <1>2, <1>3, <1>4 DEF Stream

\* A command is answered: its number and a status go on the line, and the rest
\* of the answer waits to be sent.
LEMMA Executes ==
    ASSUME Types, Wire, DeviceCommand
    PROVE  /\ UNCHANGED <<host, wpt, laid>> /\ mode = "command" /\ tx # <<>> /\ out = <<>>
           /\ tx' = Tail(tx) /\ Line = rx
           /\ \E e \in Sent, ack \in Nat, p \in Seq(Nat) :
                 /\ e = Head(tx) /\ Says(e, ack, p)
                 /\ rx' = rx \o <<e.c, ack>> /\ out' = p
<1>1. /\ UNCHANGED <<host, wpt, laid>> /\ mode = "command" /\ tx # <<>> /\ out = <<>>
      /\ tx' = Tail(tx) /\ Line = rx
    BY ConcatEmptySeq DEF DeviceCommand, Line, Wire
<1>2. PICK e \in Sent : e = Head(tx)
    BY <1>1 DEF Wire
<1>3. Plain(e) \/ Moves(e) \/ Pins(e) \/ Streams(e) \/ TakesData(e)
    BY <1>2 DEF DeviceCommand
<1>4. <<>> \in Seq(Nat) /\ e.c \in Nat /\ status \in {AckOk, NoIndex, Overflow, Underflow}
    BY DEF Wire, Sent, Seek, Head_
<1> USE DEF AckOk, BadCommand, NoIndex, NoTrk0, Overflow, Underflow, WrProt, NoUnit, NoBus, BadPin,
        GetInfo, Seek, Head_, Motor, ReadFlux, WriteFlux, FluxStatus, Select_, SetBus, GetPin,
        NoClickStep, InfoByte
<1>5. CASE Plain(e)
    <2> DEFINE p == IF e.c = GetInfo THEN Copies(InfoByte, InfoLen) ELSE <<>>
               acks == CASE e.c = GetInfo    -> {AckOk}
                         [] e.c = FluxStatus -> {status}
                         [] e.c = SetBus     -> {AckOk, BadCommand}
                         [] OTHER            -> {AckOk, NoUnit}
    <2>1. PICK ack \in acks : Reply(e, ack, p)
        BY <1>5 DEF Plain
    <2>2. UNCHANGED <<mode, pos, trk0, status>> /\ e.c \in {GetInfo, SetBus, Select_, Motor, FluxStatus}
        BY <1>5 DEF Plain
    <2>3. /\ e.c = GetInfo => ack = AckOk
          /\ e.c = FluxStatus => ack = status
          /\ e.c \notin {GetInfo, FluxStatus} => ack \in {AckOk, BadCommand, NoUnit}
        BY <2>2
    <2>4. PICK w \in Seq(Nat) :
              /\ w = p /\ (e.c # GetInfo => w = <<>>)
              /\ e.c = GetInfo => Len(w) = InfoLen /\ \A i \in 1 .. Len(w) : w[i] = InfoByte
        <3>1. CASE e.c = GetInfo
            <4>1. InfoLen \in Nat /\ InfoByte \in Nat /\ p = Copies(InfoByte, InfoLen)
                BY <3>1, GwConstants
            <4> QED
                BY <3>1, <4>1, Copied
        <3>2. CASE e.c # GetInfo
            BY <1>4, <3>2
        <3> QED
            BY <3>1, <3>2
    <2> HIDE DEF p, acks
    <2>5. rx' = rx \o <<e.c, ack>> /\ out' = w
        BY <2>1, <2>3, <2>4 DEF Reply
    <2>6. /\ ack \in 0 .. 10 /\ ack \notin {FluxStatus, NoTrk0} /\ ack \in Nat
          /\ ack = Overflow => e.c = FluxStatus
        BY <1>4, <2>2, <2>3
    <2>7. Says(e, ack, w)
        BY <1>1, <1>4, <2>2, <2>3, <2>4, <2>6, SMTT(20) DEF Says
    <2> QED
        BY <1>1, <1>2, <2>5, <2>6, <2>7
<1>6. CASE Moves(e)
    <2>1. UNCHANGED <<mode, status>> /\ e.c \in {Seek, NoClickStep, Head_}
        BY <1>6 DEF Moves
    <2>2. \/ /\ Reply(e, AckOk, <<>>)
             /\ pos' = CASE e.c = Seek  -> <<e.arg, pos[2]>>
                         [] e.c = Head_ -> <<pos[1], e.arg>>
                         [] OTHER       -> pos
          \/ Reply(e, IF e.c = Seek THEN NoTrk0 ELSE NoBus, <<>>) /\ pos' = pos
        BY <1>6 DEF Moves
    <2>3. PICK ack \in Nat :
              /\ Reply(e, ack, <<>>) /\ ack \in {AckOk, NoTrk0, NoBus} /\ (ack = NoTrk0 => e.c = Seek)
              /\ pos' = IF ack = AckOk /\ e.c = Seek THEN <<e.arg, pos[2]>>
                        ELSE IF ack = AckOk /\ e.c = Head_ THEN <<pos[1], e.arg>> ELSE pos
        BY <2>1, <2>2
    <2>4. rx' = rx \o <<e.c, ack>> /\ out' = <<>>
        BY <2>3 DEF Reply
    <2>5. PICK w \in Seq(Nat) : w = <<>>
        BY <1>4
    <2>6. Says(e, ack, w)
        BY <1>1, <1>4, <2>1, <2>3, <2>5 DEF Says
    <2> QED
        BY <1>1, <1>2, <2>4, <2>5, <2>6
<1>7. CASE Pins(e)
    <2> DEFINE v == IF e.arg = Trk0Pin THEN trk0 ELSE wpt
    <2>1. PICK ack \in {AckOk, BadPin} : Reply(e, ack, <<IF v THEN 0 ELSE 1>>)
        BY <1>7 DEF Pins
    <2>2. e.c = GetPin /\ UNCHANGED <<mode, pos, trk0, status>>
        BY <1>7 DEF Pins
    <2>3. PICK w \in Seq(Nat) : /\ ack = AckOk => w = <<IF v THEN 0 ELSE 1>> /\ Len(w) = 1 /\ w[1] \in {0, 1}
                                /\ ack # AckOk => w = <<>>
        <3>1. <<0>> \in Seq(Nat) /\ <<1>> \in Seq(Nat) /\ Len(<<0>>) = 1 /\ Len(<<1>>) = 1
            OBVIOUS
        <3>2. CASE ack = AckOk /\ v
            BY <3>1, <3>2
        <3>3. CASE ack = AckOk /\ ~v
            BY <3>1, <3>3
        <3>4. CASE ack # AckOk
            BY <1>4, <3>4
        <3> QED
            BY <3>2, <3>3, <3>4
    <2>4. rx' = rx \o <<e.c, ack>> /\ out' = w
        BY <2>1, <2>3 DEF Reply
    <2>5. ack \in Nat /\ Says(e, ack, w)
        BY <1>1, <1>4, <2>2, <2>3 DEF Says
    <2> QED
        BY <1>1, <1>2, <2>4, <2>5
<1>8. CASE Streams(e)
    <2>1. e.c = ReadFlux /\ UNCHANGED <<mode, pos, trk0>>
        BY <1>8 DEF Streams
    <2>2. CASE Reply(e, Overflow, <<>>) /\ status' = status
        <3>1. rx' = rx \o <<e.c, Overflow>> /\ out' = <<>>
            BY <2>2 DEF Reply
        <3>2. PICK w \in Seq(Nat) : w = <<>>
            BY <1>4
        <3>3. Says(e, Overflow, w)
            BY <1>1, <1>4, <2>1, <2>2, <3>2 DEF Says
        <3> QED
            BY <1>1, <1>2, <3>1, <3>2, <3>3
    <2>3. CASE \E n \in 0 .. MaxFlux :
                 /\ Reply(e, AckOk, Append(Copies(FluxByte(pos), n), 0))
                 /\ status' \in {AckOk, NoIndex, Overflow}
        <3>1. PICK n \in 0 .. MaxFlux : /\ Reply(e, AckOk, Append(Copies(FluxByte(pos), n), 0))
                                        /\ status' \in {AckOk, NoIndex, Overflow}
            BY <2>3
        <3>2. FluxByte(pos) \in Nat /\ n \in Nat
            <4>1. pos[1] \in Nat /\ pos[2] \in Nat
                BY DEF Wire, Tracks
            <4>2. MaxFlux \in Nat
                BY GwConstants
            <4> QED
                BY <4>1, <4>2 DEF FluxByte
        <3>3. PICK w \in Seq(Nat) : w = Append(Copies(FluxByte(pos), n), 0) /\ Stream(w, FluxByte(pos))
            BY <3>2, EndedStream
        <3>4. rx' = rx \o <<e.c, AckOk>> /\ out' = w
            BY <3>1, <3>3 DEF Reply
        <3>5. Says(e, AckOk, w)
            BY <1>1, <1>4, <2>1, <3>1, <3>3 DEF Says
        <3> QED
            BY <1>1, <1>2, <3>4, <3>5
    <2> QED
        BY <1>8, <2>2, <2>3 DEF Streams
<1>9. CASE TakesData(e)
    <2>1. PICK ack \in Nat : ack = IF wpt THEN WrProt ELSE AckOk
        OBVIOUS
    <2>2. /\ e.c = WriteFlux /\ UNCHANGED <<pos, trk0, status>>
          /\ Reply(e, ack, <<>>)
          /\ mode' = IF wpt THEN "command" ELSE "data"
        BY <1>9, <2>1 DEF TakesData
    <2>3. rx' = rx \o <<e.c, ack>> /\ out' = <<>>
        BY <2>2 DEF Reply
    <2>4. PICK w \in Seq(Nat) : w = <<>>
        BY <1>4
    <2>5. Says(e, ack, w)
        BY <1>1, <1>4, <2>1, <2>2, <2>4 DEF Says
    <2> QED
        BY <1>1, <1>2, <2>3, <2>4, <2>5
<1> QED
    BY <1>3, <1>5, <1>6, <1>7, <1>8, <1>9

\* What a command puts on the line, and where its bytes are there.
Adds(e, ack, p) == <<e.c, ack>> \o p

LEMMA Pair ==
    ASSUME NEW x \in Nat, NEW y \in Nat
    PROVE  \E h \in Seq(Nat) : h = <<x, y>> /\ Len(h) = 2 /\ h[1] = x /\ h[2] = y
<1>1. <<x, y>> \in Seq(Nat) /\ Len(<<x, y>>) = 2 /\ <<x, y>>[1] = x /\ <<x, y>>[2] = y
    OBVIOUS
<1> QED
    BY <1>1

LEMMA Added ==
    ASSUME NEW e \in Sent, NEW ack \in Nat, NEW p \in Seq(Nat)
    PROVE  /\ e.c \in Nat /\ Adds(e, ack, p) \in Seq(Nat) /\ Len(Adds(e, ack, p)) = 2 + Len(p)
           /\ Adds(e, ack, p)[1] = e.c /\ Adds(e, ack, p)[2] = ack
           /\ \A i \in 1 .. Len(p) : Adds(e, ack, p)[2 + i] = p[i]
<1>1. e.c \in Nat
    BY DEF Sent, Seek, Head_
<1>2. PICK h \in Seq(Nat) : h = <<e.c, ack>> /\ Len(h) = 2 /\ h[1] = e.c /\ h[2] = ack
    BY <1>1, Pair
<1>3. /\ h \o p \in Seq(Nat) /\ Len(h \o p) = 2 + Len(p)
      /\ \A i \in 1 .. 2 : (h \o p)[i] = h[i]
      /\ \A i \in 1 .. Len(p) : (h \o p)[2 + i] = p[i]
    BY <1>2, Extended
<1> QED
    BY <1>1, <1>2, <1>3, SMTT(20) DEF Adds

LEMMA AddedAlone ==
    ASSUME NEW e \in Sent, NEW ack \in Nat
    PROVE  \E u \in Seq(Nat) : u = Adds(e, ack, <<>>) /\ Len(u) = 2 /\ u[1] = e.c /\ u[2] = ack
<1>1. PICK w \in Seq(Nat) : w = <<>> /\ Len(w) = 0
    <2>1. <<>> \in Seq(Nat) /\ Len(<<>>) = 0
        OBVIOUS
    <2> QED
        BY <2>1
<1>2. Adds(e, ack, w) \in Seq(Nat) /\ Len(Adds(e, ack, w)) = 2 + Len(w)
      /\ Adds(e, ack, w)[1] = e.c /\ Adds(e, ack, w)[2] = ack
    BY Added, ZenonT(30)
<1> QED
    BY <1>1, <1>2

\* The line after a command.
LEMMA LineAfterCommand ==
    ASSUME Wire, out = <<>>, Line = rx, NEW e \in Sent, NEW ack \in Nat, NEW p \in Seq(Nat),
           rx' = rx \o <<e.c, ack>>, out' = p
    PROVE  /\ Line' = Line \o Adds(e, ack, p) /\ rx' \in Seq(Nat) /\ Line' \in Seq(Nat)
           /\ Len(rx') = Len(rx) + 2 /\ rx'[Len(rx) + 1] = e.c /\ rx'[Len(rx) + 2] = ack
           /\ \A i \in 1 .. Len(rx) : rx'[i] = rx[i]
<1>1. PICK h \in Seq(Nat) : h = <<e.c, ack>> /\ Len(h) = 2 /\ h[1] = e.c /\ h[2] = ack
    <2>1. e.c \in Nat
        BY Added
    <2> QED
        BY <2>1, Pair
<1>2. rx \in Seq(Nat) /\ rx' = rx \o h
    BY <1>1 DEF Wire
<1>3. (rx \o h) \o p = rx \o (h \o p)
    BY <1>2, Associative
<1>4. /\ rx \o h \in Seq(Nat) /\ Len(rx \o h) = Len(rx) + 2
      /\ \A i \in 1 .. Len(rx) : (rx \o h)[i] = rx[i]
      /\ (rx \o h)[Len(rx) + 1] = h[1] /\ (rx \o h)[Len(rx) + 2] = h[2]
    <2>1. 1 \in 1 .. Len(h) /\ 2 \in 1 .. Len(h)
        BY <1>1
    <2> QED
        BY <1>1, <1>2, <2>1, Extended
<1>5. Line' \in Seq(Nat)
    BY <1>2, <1>4, Joined DEF Line
<1> QED
    BY <1>1, <1>2, <1>3, <1>4, <1>5 DEF Line, Adds

\* What a write takes: it goes on, or it ends with a sync byte.
LEMMA DataEnds ==
    ASSUME Wire, DeviceData
    PROVE  /\ UNCHANGED <<host, rx, pos, trk0, wpt>> /\ mode = "data" /\ tx # <<>> /\ out = <<>>
           /\ tx' = Tail(tx) /\ Line = rx
           /\ \/ /\ Head(tx).c \notin {FluxData, GetInfo}
                 /\ UNCHANGED <<out, mode, status, laid>> /\ Line' = Line
              \/ /\ Head(tx).c \in {FluxData, GetInfo}
                 /\ out' = <<0>> /\ mode' = "command" /\ Line' = Line \o <<0>>
                 /\ status' \in {AckOk, Underflow}
                 /\ laid' = IF Head(tx).c = FluxData /\ status' = AckOk THEN "whole" ELSE "torn"
<1>1. Line = rx /\ mode = "data" /\ out = <<>>
    BY ConcatEmptySeq DEF DeviceData, Line, Wire
<1> QED
    BY <1>1 DEF DeviceData, Line

\* The steps that neither say nor take anything.
Carry == DeviceSends \/ UNCHANGED vars

LEMMA SendsOn ==
    ASSUME Wire, Carry
    PROVE  /\ UNCHANGED <<host, tx, mode, pos, trk0, wpt, status, laid>>
           /\ Line' = Line /\ rx' \in Seq(Nat) /\ out' \in Seq(Nat)
           /\ Len(rx') >= Len(rx) /\ \A i \in 1 .. Len(rx) : rx'[i] = rx[i]
           /\ out' = out \/ out' = Tail(out)
<1>1. CASE DeviceSends
    <2>1. out # <<>> /\ rx' = Append(rx, Head(out)) /\ out' = Tail(out)
          /\ UNCHANGED <<host, tx, mode, pos, trk0, wpt, status, laid>>
        BY <1>1 DEF DeviceSends
    <2>2. rx \in Seq(Nat) /\ out \in Seq(Nat) /\ Len(rx) \in Nat
        BY DEF Wire
    <2>3. /\ rx' \in Seq(Nat) /\ out' \in Seq(Nat) /\ Len(rx') = Len(rx) + 1
          /\ rx' \o out' = rx \o out /\ \A i \in 1 .. Len(rx) : rx'[i] = rx[i]
        BY <2>1, <2>2, OneByteOver
    <2> QED
        BY <2>1, <2>2, <2>3, SMTT(20) DEF Line
<1>2. CASE UNCHANGED vars
    <2>1. UNCHANGED <<host, tx, mode, pos, trk0, wpt, status, laid>>
        BY <1>2
    <2>2. rx' = rx /\ out' = out /\ Line' = Line
        BY <1>2 DEF Line
    <2>3. rx \in Seq(Nat) /\ out \in Seq(Nat) /\ Len(rx) >= Len(rx)
        BY DEF Wire
    <2> QED
        BY <2>1, <2>2, <2>3, Zenon
<1> QED
    BY <1>1, <1>2 DEF Carry

\* The sent commands, as one more is sent and as the device takes one.
LEMMA OneMore ==
    ASSUME NEW S, NEW q \in Seq(S), NEW e \in S
    PROVE  /\ Append(q, e) \in Seq(S) /\ Len(Append(q, e)) = Len(q) + 1 /\ Len(q) \in Nat
           /\ Append(q, e)[Len(q) + 1] = e /\ Append(q, e) # <<>>
           /\ \A i \in 1 .. Len(q) : Append(q, e)[i] = q[i]
BY AppendProperties

LEMMA OneLess ==
    ASSUME NEW S, NEW q \in Seq(S), q # <<>>
    PROVE  /\ Tail(q) \in Seq(S) /\ Len(Tail(q)) = Len(q) - 1 /\ Len(q) \in Nat /\ Len(q) >= 1
           /\ Head(q) = q[1] /\ Head(q) \in S
           /\ \A i \in 1 .. (Len(q) - 1) : Tail(q)[i] = q[i + 1]
BY HeadTailProperties

LEMMA SentIs ==
    ASSUME NEW l \in Labels, Types, Wire
    PROVE  Sends(l, op) \in Sent
<1>1. op.track \in Nat \X {0, 1} /\ head \in Nat
    BY GwConstants DEF Types, Wire
<1>2. op.track \in Tracks /\ op.track[1] \in Nat /\ op.track[2] \in Nat
    BY <1>1 DEF Tracks
<1> USE DEF Sent, GetInfo, Seek, Head_, Motor, ReadFlux, WriteFlux, FluxStatus, Select_, SetBus,
        GetPin, NoClickStep, Trk0Pin, WptPin, Sends
<1>3. CASE l \in {"info", "bus", "select", "motor"}
    BY <1>3
<1>4. CASE l \in {"seek", "click", "oldhead", "head"}
    BY <1>1, <1>2, <1>4
<1>5. CASE l \in {"read", "write", "rstatus", "wstatus"}
    BY <1>2, <1>5
<1>6. CASE l \in Pinned
    BY <1>6 DEF Pinned
<1> QED
    BY <1>3, <1>4, <1>5, <1>6 DEF Labels, Pinned

\* What the host sends in a step.
LEMMA HostSends ==
    ASSUME Types, Wire, Places, Host
    PROVE  \/ tx' = tx
           \/ Len(tx) < MaxPending /\ \E e \in Sent : tx' = Append(tx, e)
<1>1. CASE \E l \in Labels : GoTo(l)
    BY <1>1, SentIs DEF GoTo, Write
<1>2. CASE (\E v : Finish(v)) \/ ReadRest \/ Stays
    BY <1>2 DEF Finish, ReadRest, Stays
<1>3. CASE WriteData
    <2>1. [c |-> FluxData, arg |-> op.track] \in Sent
        BY GwConstants DEF Types, Sent, FluxData, Seek, Head_, Tracks
    <2> QED
        BY <1>3, <2>1 DEF WriteData, Write
<1> QED
    BY <1>1, <1>2, <1>3, HostMoves

Base == Types /\ Wire /\ Places

LEMMA InitBase == Init => Base
<1> SUFFICES ASSUME Init PROVE Wire /\ Places
    BY InitTypes DEF Base
<1>1. /\ got = <<>> /\ rx = <<>> /\ out = <<>> /\ tx = <<>> /\ mode = "command"
      /\ head = 0 /\ pos = <<0, 0>> /\ status = AckOk /\ pc = "idle" /\ step = "wait"
    BY DEF Init
<1>2. Wire
    BY <1>1, GwConstants DEF Wire, Tracks
<1> QED
    BY <1>1, <1>2 DEF Places, KindFits

\* The host's new place fits its operation.
LEMMA EdgeFits ==
    ASSUME Base, op' = op, NEW l \in Labels, Edge(pc, l), GoTo(l)
    PROVE  Places'
<1>1. /\ pc' = l /\ step' = "wait" /\ res' = res /\ pc # "idle"
    BY DEF GoTo, Edge
<1>2. KindFits /\ op.kind \in Kinds /\ res = "none"
    BY <1>1 DEF Base, Places, Types
<1>3. KindFits'
    BY <1>1, <1>2 DEF KindFits, Edge, Kinds
<1> QED
    BY <1>1, <1>2, <1>3 DEF Places

LEMMA HostBase == ASSUME Base, Host PROVE Base'
<1>1. Types'
    BY HostTypes DEF Base
<1>2. Places'
    <2>1. op' = op /\ pc # "idle"
        BY HostMoves DEF Base
    <2>2. CASE \E l \in Labels : Edge(pc, l) /\ GoTo(l)
        BY <2>1, <2>2, EdgeFits
    <2>3. CASE \E v : Finish(v)
        BY <2>3 DEF Finish, Places, KindFits
    <2>4. CASE ReadRest /\ step = "wait" /\ pc \in {"info", "read", "write"} \cup Pinned
        BY <2>1, <2>4 DEF ReadRest, Base, Places, KindFits
    <2>5. CASE Stays
        BY <2>1, <2>5 DEF Stays, Base, Places, KindFits
    <2>6. CASE WriteData
        BY <2>1, <2>6 DEF WriteData, Base, Places, KindFits
    <2> QED
        BY <2>2, <2>3, <2>4, <2>5, <2>6, HostMoves DEF Base
<1>3. rx' \in Seq(Nat) /\ UNCHANGED device
    BY HostTakes DEF Base
<1>4. tx' \in Seq(Sent) /\ Len(tx') <= MaxPending
    <2>1. tx \in Seq(Sent) /\ Len(tx) <= MaxPending /\ Len(tx) \in Nat /\ MaxPending \in Nat
        BY GwConstants DEF Base, Wire
    <2>2. CASE tx' = tx
        BY <2>1, <2>2
    <2>3. CASE Len(tx) < MaxPending /\ \E e \in Sent : tx' = Append(tx, e)
        BY <2>1, <2>3, OneMore
    <2> QED
        BY <2>2, <2>3, HostSends DEF Base
<1>5. head' \in Nat
    <2>1. head' = head \/ head' = op.track[2]
        BY DEF Host, Header, HeaderLate, InfoRest, PinRest, FluxRest, WriteData, SyncByte, Answer,
           InfoAnswer, SetUpAnswer, SeekAnswer, PinAnswer, DroppedAnswer, HeadAnswer, ReadAnswer,
           ReadStatusAnswer, WriteAnswer, WriteStatusAnswer
    <2>2. op.track[2] \in Nat
        BY GwConstants DEF Base, Types
    <2> QED
        BY <2>1, <2>2 DEF Base, Wire
<1>6. got' \in Seq(Nat)
    <2>1. \/ got' = got \/ got' = <<>>
          \/ FluxRest /\ rx # <<>>
             /\ got' = got \o SubSeq(rx, 1, IF Head(rx) = 0 THEN 1 ELSE Len(rx))
        BY DEF Host, Header, HeaderLate, InfoRest, PinRest, FluxRest, WriteData, SyncByte, Answer,
           InfoAnswer, SetUpAnswer, SeekAnswer, PinAnswer, DroppedAnswer, HeadAnswer, ReadAnswer,
           ReadStatusAnswer, WriteAnswer, WriteStatusAnswer
    <2>2. got \in Seq(Nat) /\ rx \in Seq(Nat)
        BY DEF Base, Wire
    <2>3. ASSUME rx # <<>>
          PROVE  got \o SubSeq(rx, 1, IF Head(rx) = 0 THEN 1 ELSE Len(rx)) \in Seq(Nat)
        <3>1. PICK n : n = IF Head(rx) = 0 THEN 1 ELSE Len(rx)
            OBVIOUS
        <3>2. n \in 1 .. Len(rx)
            BY <2>2, <2>3, <3>1, EmptySeq
        <3>3. SubSeq(rx, 1, n) \in Seq(Nat)
            BY <2>2, <3>2, TakenFromFront
        <3> QED
            BY <2>2, <3>1, <3>3, Joined
    <2>4. <<>> \in Seq(Nat)
        OBVIOUS
    <2> QED
        BY <2>1, <2>2, <2>3, <2>4, Zenon
<1> QED
    BY <1>1, <1>2, <1>3, <1>4, <1>5, <1>6 DEF Base, Wire

LEMMA DeviceBase == ASSUME Base, Device PROVE Base'
<1>1. Types' /\ Wire /\ Types /\ Places
    BY DeviceTypes DEF Base
<1>2. Places' /\ UNCHANGED host
    BY <1>1 DEF Device, DeviceCommand, DeviceData, DeviceSends, Places, KindFits
<1>3. tx # <<>> /\ tx' = Tail(tx) => tx' \in Seq(Sent) /\ Len(tx') <= MaxPending
    <2>1. tx \in Seq(Sent) /\ Len(tx) <= MaxPending /\ MaxPending \in Nat
        BY <1>1, GwConstants DEF Wire
    <2> QED
        BY <2>1, OneLess
<1>4. CASE DeviceCommand
    <2>1. PICK e \in Sent, ack \in Nat, p \in Seq(Nat) :
              /\ Says(e, ack, p) /\ rx' = rx \o <<e.c, ack>> /\ out' = p
        BY <1>1, <1>4, Executes
    <2>2. rx' \in Seq(Nat) /\ out' \in Seq(Nat)
        BY <1>1, <1>4, <2>1, Executes, LineAfterCommand
    <2>3. /\ mode' \in {"command", "data"} /\ status' \in {AckOk, NoIndex, Overflow, Underflow}
          /\ mode' = "data" => out' = <<>>
        BY <2>1 DEF Says, WriteFlux, GetInfo, GetPin, ReadFlux
    <2>4. pos' \in Tracks
        <3>1. e.c \in {Seek, Head_} => e.arg \in Nat
            BY DEF Sent
        <3> QED
            BY <1>1, <2>1, <3>1 DEF Says, Wire, Tracks
    <2> QED
        BY <1>1, <1>2, <1>3, <1>4, <2>2, <2>3, <2>4, Executes DEF Wire, Base
<1>5. CASE DeviceData
    <2>1. /\ out' \in Seq(Nat) /\ mode' \in {"command", "data"}
          /\ status' \in {AckOk, NoIndex, Overflow, Underflow}
          /\ mode' = "data" => out' = <<>>
        <3>1. <<0>> \in Seq(Nat)
            OBVIOUS
        <3> QED
            BY <1>1, <1>5, <3>1, DataEnds DEF Wire
    <2>2. UNCHANGED <<rx, pos, got, head>> /\ tx # <<>> /\ tx' = Tail(tx)
        BY <1>1, <1>5, DataEnds
    <2>3. tx' \in Seq(Sent) /\ Len(tx') <= MaxPending
        BY <1>3, <2>2
    <2>4. rx' \in Seq(Nat) /\ got' \in Seq(Nat) /\ head' \in Nat /\ pos' \in Tracks
        BY <1>1, <2>2 DEF Wire
    <2>5. Wire'
        BY <2>1, <2>3, <2>4 DEF Wire
    <2> QED
        BY <1>1, <1>2, <2>5 DEF Base
<1>6. CASE DeviceSends
    <2>1. Carry
        BY <1>6 DEF Carry
    <2>2. mode = "command"
        BY <1>1, <1>6 DEF Wire, DeviceSends
    <2> QED
        BY <1>1, <1>2, <2>1, <2>2, SendsOn DEF Wire, Base
<1> QED
    BY <1>4, <1>5, <1>6 DEF Device

LEMMA BeginBase ==
    ASSUME Base, NEW k \in Kinds, NEW t \in Targets, Begin(k, t) PROVE Base'
<1>1. Types'
    BY BeginTypes DEF Base
<1>2. /\ tx' = Append(tx, [c |-> GetInfo, arg |-> 0]) /\ Len(tx) < MaxPending
      /\ rx' = <<>> /\ got' = <<>> /\ pc' = "info" /\ step' = step /\ pc = "idle" /\ res' = "none"
      /\ UNCHANGED <<out, mode, head, pos, status>>
    BY SendsIs DEF Begin, Write
<1>3. [c |-> GetInfo, arg |-> 0] \in Sent
    BY DEF Sent, GetInfo, Seek, Head_
<1>4. tx' \in Seq(Sent) /\ Len(tx') <= MaxPending
    <2>1. tx \in Seq(Sent) /\ Len(tx) \in Nat /\ MaxPending \in Nat
        BY GwConstants DEF Base, Wire
    <2> QED
        BY <1>2, <1>3, <2>1, OneMore
<1>5. Wire'
    BY <1>2, <1>4 DEF Base, Wire
<1>6. step = "wait"
    BY <1>2 DEF Base, Types
<1>7. Places'
    BY <1>2, <1>6 DEF Places, KindFits
<1> QED
    BY <1>1, <1>5, <1>7 DEF Base

LEMMA StutterBase == ASSUME Base, UNCHANGED vars PROVE Base'
BY DEF Base, Types, Wire, Places, KindFits

-----------------------------------------------------------------------------
(* The order of the commands that are sent.                                *)

\* The number of the command a label sends.
Code(l) ==
    CASE l = "info" -> GetInfo [] l = "bus" -> SetBus [] l = "select" -> Select_
      [] l = "motor" -> Motor [] l = "seek" -> Seek [] l = "click" -> NoClickStep
      [] l \in {"oldhead", "head"} -> Head_ [] l = "read" -> ReadFlux [] l = "write" -> WriteFlux
      [] l \in Pinned -> GetPin [] l \in {"rstatus", "wstatus"} -> FluxStatus
      [] l = "sync" -> FluxData

LEMMA CodeOf ==
    ASSUME NEW l \in Labels, NEW o PROVE Sends(l, o).c = Code(l)
<1>1. CASE l \in {"info", "bus", "select", "motor"}
    BY <1>1 DEF Sends, Code, Pinned
<1>2. CASE l \in {"seek", "click", "oldhead", "head"}
    BY <1>2 DEF Sends, Code, Pinned
<1>3. CASE l \in {"read", "write", "rstatus", "wstatus"}
    BY <1>3 DEF Sends, Code, Pinned
<1>4. CASE l \in Pinned
    BY <1>4 DEF Sends, Code, Pinned
<1> QED
    BY <1>1, <1>2, <1>3, <1>4 DEF Labels, Pinned

LEMMA HostAsks ==
    ASSUME Base, Host
    PROVE  \/ tx' = tx /\ pc' \in {pc, "idle"}
           \/ \E e \in Sent : /\ tx' = Append(tx, e) /\ e.c = Code(pc') /\ pc' # "idle"
                              /\ Edge(pc, pc') \/ (pc = "write" /\ pc' = "sync")
<1>1. CASE \E l \in Labels : Edge(pc, l) /\ GoTo(l)
    <2>1. PICK l \in Labels : Edge(pc, l) /\ GoTo(l)
        BY <1>1
    <2>2. tx' = Append(tx, Sends(l, op)) /\ pc' = l /\ l # "idle"
        BY <2>1 DEF GoTo, Write, Labels
    <2> QED
        BY <2>1, <2>2, SentIs, CodeOf DEF Base
<1>2. CASE (\E v : Finish(v)) \/ ReadRest \/ Stays
    BY <1>2 DEF Finish, ReadRest, Stays
<1>3. CASE WriteData
    <2>1. PICK e : e = [c |-> FluxData, arg |-> op.track]
        OBVIOUS
    <2>2. e \in Sent /\ e.c = Code("sync")
        BY <2>1, GwConstants DEF Base, Types, Sent, FluxData, Seek, Head_, Tracks, Code, Pinned
    <2> QED
        BY <1>3, <2>1, <2>2 DEF WriteData, Write
<1> QED
    BY <1>1, <1>2, <1>3, HostMoves DEF Base

\* How many commands the host has sent since its last GET_INFO, at least.
Depth(l) ==
    CASE l \in {"bus", "select", "wpt"} -> 1
      [] l \in {"motor", "seek"} -> IF op.kind = "write" THEN 2 ELSE 1
      [] l \in {"at0", "click", "at0again", "oldhead"} -> IF op.kind = "write" THEN 3 ELSE 2
      [] l = "head" -> IF op.kind = "write" THEN 4 ELSE 3
      [] l \in {"read", "rstatus"} -> 4
      [] l \in {"wptagain", "write", "sync", "wstatus"} -> 5
      [] OTHER -> 0

\* The data of a write is written behind the zero of its WRITE_FLUX.
DataEnd == mode = "data" => Line = <<>> \/ Line[Len(Line)] = 0
LastOwn == pc # "idle" /\ tx # <<>> => tx[Len(tx)].c = Code(pc)
Far == \A i \in 1 .. Len(tx) : tx[i].c = GetInfo => Len(tx) - i >= Depth(pc)

\* From the GET_INFO of an operation to its commands on flux, and to the second
\* look at the write protection, which comes straight behind a head select.
Apart ==
    \A i \in 1 .. Len(tx) : tx[i].c = GetInfo =>
        \A j \in (i + 1) .. Len(tx) :
            /\ tx[j].c \in {ReadFlux, FluxStatus} => j - i >= 4
            /\ tx[j].c = GetPin /\ tx[j - 1].c = Head_ => j - i >= 5
Order == DataEnd /\ LastOwn /\ Far /\ Apart

LEMMA InitOrder == Init => Order
<1> SUFFICES ASSUME Init PROVE Order
    OBVIOUS
<1>1. tx = <<>> /\ mode = "command" /\ pc = "idle" /\ Len(<<>>) = 0
    BY DEF Init
<1> QED
    BY <1>1 DEF Order, DataEnd, LastOwn, Far, Apart

\* A command of the operation's next label behind the others.
LEMMA AskedInOrder ==
    ASSUME Base, Order, NEW e \in Sent, tx' = Append(tx, e), op' = op,
           e.c = Code(pc'), pc' # "idle", Edge(pc, pc') \/ (pc = "write" /\ pc' = "sync")
    PROVE  (LastOwn /\ Far /\ Apart)'
<1>1. tx \in Seq(Sent) /\ KindFits /\ op.kind \in Kinds
    BY DEF Base, Wire, Places, Types
<1>2. /\ Len(tx') = Len(tx) + 1 /\ Len(tx) \in Nat /\ tx'[Len(tx) + 1] = e /\ tx' # <<>>
      /\ \A i \in 1 .. Len(tx) : tx'[i] = tx[i]
    BY <1>1, OneMore
<1>3. LastOwn'
    BY <1>2 DEF LastOwn
<1> USE DEF GetInfo, ReadFlux, FluxStatus, GetPin, Head_, SetBus, Select_, Motor, Seek, NoClickStep,
        WriteFlux, FluxData, Kinds
<1>4. e.c = GetInfo <=> pc' = "info"
    BY DEF Code, Edge, Pinned
<1>5. Depth(pc)' <= Depth(pc) + 1 /\ (pc' = "info" => Depth(pc)' = 0)
    BY <1>1 DEF Depth, Edge, KindFits
<1>6. Depth(pc) \in Nat /\ Depth(pc)' \in Nat
    BY DEF Depth
<1>7. Far'
    <2> SUFFICES ASSUME NEW i \in 1 .. Len(tx'), tx'[i].c = GetInfo
                 PROVE  Len(tx') - i >= Depth(pc)'
        BY DEF Far
    <2>1. CASE i = Len(tx) + 1
        BY <1>2, <1>4, <1>5, <2>1
    <2>2. CASE i # Len(tx) + 1
        <3>1. i \in 1 .. Len(tx)
            BY <1>2, <2>2
        <3> QED
            BY <1>2, <1>5, <1>6, <3>1 DEF Order, Far
    <2> QED
        BY <2>1, <2>2
<1>8. Apart'
    <2> SUFFICES ASSUME NEW i \in 1 .. Len(tx'), tx'[i].c = GetInfo, NEW j \in (i + 1) .. Len(tx')
                 PROVE  /\ tx'[j].c \in {ReadFlux, FluxStatus} => j - i >= 4
                        /\ tx'[j].c = GetPin /\ tx'[j - 1].c = Head_ => j - i >= 5
        BY DEF Apart
    <2>1. i \in 1 .. Len(tx) /\ tx[i].c = GetInfo /\ Len(tx) - i >= Depth(pc)
        BY <1>2 DEF Order, Far
    <2>2. CASE j \in 1 .. Len(tx)
        <3>1. j - 1 \in 1 .. Len(tx)
            BY <2>1, <2>2
        <3> QED
            BY <1>2, <2>1, <2>2, <3>1 DEF Order, Apart
    <2>3. CASE j = Len(tx) + 1
        <3>1. tx'[j] = e /\ tx'[j - 1] = tx[Len(tx)] /\ tx[Len(tx)].c = Code(pc)
            BY <1>2, <2>1, <2>3 DEF Order, LastOwn, Edge
        <3>2. e.c \in {ReadFlux, FluxStatus} => Depth(pc) >= 3
            BY <1>1 DEF Code, Edge, Depth, Pinned, KindFits
        <3>3. e.c = GetPin /\ Code(pc) = Head_ => Depth(pc) >= 4
            BY <1>1 DEF Code, Edge, Depth, Pinned, KindFits
        <3> QED
            BY <1>2, <1>6, <2>1, <2>3, <3>1, <3>2, <3>3, SMTT(20)
    <2> QED
        BY <1>2, <2>2, <2>3
<1> QED
    BY <1>3, <1>7, <1>8

\* Fewer commands, in the same order.
LEMMA TakenInOrder ==
    ASSUME Base, Order, UNCHANGED host, tx # <<>>, tx' = Tail(tx)
    PROVE  (LastOwn /\ Far /\ Apart)'
<1>1. /\ tx \in Seq(Sent) /\ Len(tx) \in Nat /\ Len(tx') = Len(tx) - 1 /\ tx' \in Seq(Sent)
      /\ \A i \in 1 .. (Len(tx) - 1) : tx'[i] = tx[i + 1]
    BY OneLess DEF Base, Wire
<1>2. LastOwn'
    <2> SUFFICES ASSUME pc # "idle", tx' # <<>> PROVE tx'[Len(tx')].c = Code(pc)
        BY DEF LastOwn
    <2>1. Len(tx') \in 1 .. (Len(tx) - 1) /\ Len(tx') + 1 = Len(tx)
        BY <1>1, EmptySeq
    <2> QED
        BY <1>1, <2>1 DEF Order, LastOwn
<1>3. Depth(pc)' = Depth(pc)
    BY DEF Depth
<1>4. Far'
    <2> SUFFICES ASSUME NEW i \in 1 .. Len(tx'), tx'[i].c = GetInfo
                 PROVE  Len(tx') - i >= Depth(pc)
        BY <1>3 DEF Far
    <2>1. i + 1 \in 1 .. Len(tx) /\ tx[i + 1].c = GetInfo
        BY <1>1
    <2>2. Len(tx) - (i + 1) >= Depth(pc)
        BY <2>1 DEF Order, Far
    <2> QED
        BY <1>1, <2>2
<1>5. Apart'
    <2> SUFFICES ASSUME NEW i \in 1 .. Len(tx'), tx'[i].c = GetInfo, NEW j \in (i + 1) .. Len(tx')
                 PROVE  /\ tx'[j].c \in {ReadFlux, FluxStatus} => j - i >= 4
                        /\ tx'[j].c = GetPin /\ tx'[j - 1].c = Head_ => j - i >= 5
        BY DEF Apart
    <2>1. /\ i + 1 \in 1 .. Len(tx) /\ tx[i + 1].c = GetInfo
          /\ j + 1 \in (i + 2) .. Len(tx) /\ tx'[j] = tx[j + 1] /\ tx'[j - 1] = tx[j]
          /\ (j + 1) - (i + 1) = j - i /\ (j + 1) - 1 = j /\ (i + 1) + 1 = i + 2
        BY <1>1
    <2> QED
        BY <2>1 DEF Order, Apart
<1> QED
    BY <1>2, <1>4, <1>5

\* The last byte of what is left.
LEMMA LastOfRest ==
    ASSUME NEW s \in Seq(Nat), NEW n \in 0 .. Len(s), After(s, n) # <<>>
    PROVE  After(s, n)[Len(After(s, n))] = s[Len(s)]
<1>1. /\ After(s, n) \in Seq(Nat) /\ Len(After(s, n)) = Len(s) - n /\ Len(s) \in Nat
      /\ \A i \in 1 .. (Len(s) - n) : After(s, n)[i] = s[n + i]
    BY LeftBehind
<1>2. Len(s) - n \in 1 .. (Len(s) - n) /\ n + (Len(s) - n) = Len(s)
    BY <1>1, EmptySeq
<1> QED
    BY <1>1, <1>2

LEMMA HostOrder == ASSUME Base, Order, Host PROVE Order'
<1>1. op' = op /\ mode' = mode /\ Line \in Seq(Nat)
    BY HostMoves, HostTakes DEF Base
<1>2. DataEnd'
    <2>1. PICK n \in 0 .. Len(Line) : Line' = After(Line, n)
        BY HostTakes DEF Base
    <2>2. ASSUME Line = <<>> PROVE Line' = <<>>
        <3>1. Len(Line) = 0 /\ n = 0
            BY <2>2
        <3>2. After(Line, n) \in Seq(Nat) /\ Len(After(Line, n)) = 0
            <4>1. Len(After(Line, n)) = Len(Line) - n /\ After(Line, n) \in Seq(Nat)
                BY <1>1, LeftBehind
            <4> QED
                BY <3>1, <4>1
        <3> QED
            BY <2>1, <3>2, EmptySeq
    <2> QED
        BY <1>1, <2>1, <2>2, LastOfRest DEF Order, DataEnd
<1>3. (LastOwn /\ Far /\ Apart)'
    <2>1. CASE tx' = tx /\ pc' \in {pc, "idle"}
        <3>1. Depth(pc)' = Depth(pc) \/ Depth(pc)' = 0
            BY <1>1, <2>1 DEF Depth
        <3>2. Len(tx) \in Nat
            BY DEF Base, Wire
        <3>3. Far'
            BY <2>1, <3>1, <3>2 DEF Order, Far
        <3> QED
            BY <2>1, <3>3 DEF Order, LastOwn, Apart
    <2>2. CASE \E e \in Sent : /\ tx' = Append(tx, e) /\ e.c = Code(pc') /\ pc' # "idle"
                               /\ Edge(pc, pc') \/ (pc = "write" /\ pc' = "sync")
        BY <1>1, <2>2, AskedInOrder
    <2> QED
        BY <2>1, <2>2, HostAsks
<1> QED
    BY <1>2, <1>3 DEF Order

LEMMA DeviceOrder == ASSUME Base, Order, Device PROVE Order'
<1>1. CASE DeviceCommand
    <2>1. PICK e \in Sent, ack \in Nat, p \in Seq(Nat) :
              /\ e = Head(tx) /\ Says(e, ack, p) /\ rx' = rx \o <<e.c, ack>> /\ out' = p
        BY <1>1, Executes DEF Base
    <2>2. Line' = Line \o Adds(e, ack, p) /\ Line \in Seq(Nat)
        BY <1>1, <2>1, Executes, LineAfterCommand DEF Base, Wire
    <2>3. ASSUME mode' = "data" PROVE Line'[Len(Line')] = 0
        <3>1. ack = 0 /\ p = <<>>
            BY <2>1, <2>3 DEF Says, WriteFlux, GetInfo, GetPin, ReadFlux, AckOk
        <3>2. PICK u \in Seq(Nat) : u = Adds(e, ack, p) /\ Len(u) = 2 /\ u[2] = 0
            BY <3>1, AddedAlone
        <3>3. Len(Line \o u) = Len(Line) + 2 /\ Len(Line) \in Nat
              /\ (Line \o u)[Len(Line) + 2] = u[2]
            <4>1. 2 \in 1 .. Len(u)
                BY <3>2
            <4>2. /\ Len(Line \o u) = Len(Line) + Len(u) /\ Len(Line) \in Nat
                  /\ \A i \in 1 .. Len(u) : (Line \o u)[Len(Line) + i] = u[i]
                BY <2>2, Extended
            <4> QED
                BY <3>2, <4>1, <4>2
        <3> QED
            BY <2>2, <3>2, <3>3
    <2> QED
        BY <1>1, <2>3, Executes, TakenInOrder DEF Base, Order, DataEnd
<1>2. CASE DeviceData
    <2>1. /\ UNCHANGED host /\ tx # <<>> /\ tx' = Tail(tx)
          /\ Line' = Line \/ (mode' = "command" /\ mode = "data")
        BY <1>2, DataEnds DEF Base
    <2> QED
        BY <1>2, <2>1, TakenInOrder, DataEnds DEF Base, Order, DataEnd
<1>3. CASE DeviceSends
    <2>1. Carry
        BY <1>3 DEF Carry
    <2>2. Line' = Line /\ UNCHANGED <<host, tx, mode>>
        BY <2>1, SendsOn DEF Base
    <2> QED
        BY <2>2 DEF Order, DataEnd, LastOwn, Far, Apart, Depth
<1> QED
    BY <1>1, <1>2, <1>3 DEF Device

LEMMA BeginOrder ==
    ASSUME Base, Order, NEW k \in Kinds, NEW t \in Targets, Begin(k, t) PROVE Order'
<1>1. /\ tx' = Append(tx, [c |-> GetInfo, arg |-> 0]) /\ rx' = <<>> /\ pc' = "info"
      /\ UNCHANGED <<out, mode>>
    BY SendsIs DEF Begin, Write
<1>2. PICK e \in Sent : e = [c |-> GetInfo, arg |-> 0]
    BY DEF Sent, GetInfo, Seek, Head_
<1>3. tx \in Seq(Sent) /\ out \in Seq(Nat) /\ (mode = "data" => out = <<>>)
    BY DEF Base, Wire
<1>4. /\ Len(tx') = Len(tx) + 1 /\ Len(tx) \in Nat /\ tx'[Len(tx) + 1] = e /\ tx' # <<>>
      /\ \A i \in 1 .. Len(tx) : tx'[i] = tx[i]
    BY <1>1, <1>2, <1>3, OneMore
<1>5. DataEnd'
    BY <1>1, <1>3, ConcatEmptySeq DEF DataEnd, Line
<1>6. LastOwn'
    BY <1>1, <1>2, <1>4 DEF LastOwn, Code, Pinned
<1>7. Far'
    BY <1>1, <1>4 DEF Far, Depth
<1>8. Apart'
    <2> SUFFICES ASSUME NEW i \in 1 .. Len(tx'), tx'[i].c = GetInfo, NEW j \in (i + 1) .. Len(tx')
                 PROVE  /\ tx'[j].c \in {ReadFlux, FluxStatus} => j - i >= 4
                        /\ tx'[j].c = GetPin /\ tx'[j - 1].c = Head_ => j - i >= 5
        BY DEF Apart
    <2>1. CASE j = Len(tx) + 1
        BY <1>2, <1>4, <2>1 DEF GetInfo, ReadFlux, FluxStatus, GetPin
    <2>2. CASE j # Len(tx) + 1
        <3>1. i \in 1 .. Len(tx) /\ j \in (i + 1) .. Len(tx) /\ j - 1 \in 1 .. Len(tx)
            BY <1>4, <2>2
        <3>2. j \in 1 .. Len(tx)
            BY <3>1
        <3> QED
            BY <1>4, <3>1, <3>2 DEF Order, Apart
    <2> QED
        BY <2>1, <2>2
<1> QED
    BY <1>5, <1>6, <1>7, <1>8 DEF Order

LEMMA StutterOrder == ASSUME Order, UNCHANGED vars PROVE Order'
BY DEF Order, DataEnd, LastOwn, Far, Apart, Depth, Line

-----------------------------------------------------------------------------
(* What is behind the header of a read is the flux of one track.           *)

Formed(s) ==
    \A i \in 1 .. (Len(s) - 1) : s[i] = ReadFlux /\ s[i + 1] = AckOk =>
        \E t \in Tracks, m \in (i + 2) .. Len(s) :
            s[m] = 0 /\ \A j \in (i + 2) .. (m - 1) : s[j] = FluxByte(t)
OneRun(s) ==
    \E t \in Tracks, m \in 1 .. Len(s) : s[m] = 0 /\ \A j \in 1 .. (m - 1) : s[j] = FluxByte(t)
\* Up to its first 0, if it has one.
OfTrack(s, t) == \A i \in 1 .. Len(s) : s[i] = FluxByte(t) \/ \E e \in 1 .. i : s[e] = 0

OneTrack ==
    /\ Formed(Line)
    /\ pc = "read" /\ step = "rest" => OneRun(got \o Line)
    /\ pc = "rstatus" \/ (pc = "idle" /\ res = "ok" /\ op.kind = "read") =>
           \E t \in Tracks : OfTrack(got, t)

LEMMA FormedRest ==
    ASSUME NEW s \in Seq(Nat), NEW n \in 0 .. Len(s), Formed(s)
    PROVE  Formed(After(s, n))
<1> DEFINE a == After(s, n)
<1>1. /\ a \in Seq(Nat) /\ Len(a) = Len(s) - n /\ Len(s) \in Nat
      /\ \A i \in 1 .. (Len(s) - n) : a[i] = s[n + i]
    BY LeftBehind
<1> HIDE DEF a
<1> SUFFICES ASSUME NEW i \in 1 .. (Len(a) - 1), a[i] = ReadFlux, a[i + 1] = AckOk
             PROVE  \E t \in Tracks, m \in (i + 2) .. Len(a) :
                        a[m] = 0 /\ \A j \in (i + 2) .. (m - 1) : a[j] = FluxByte(t)
    BY DEF Formed, a
<1>2. n + i \in 1 .. (Len(s) - 1) /\ s[n + i] = ReadFlux /\ s[(n + i) + 1] = AckOk
    <2>1. i + 1 \in 1 .. (Len(s) - n) /\ i \in 1 .. (Len(s) - n) /\ n + (i + 1) = (n + i) + 1
          /\ n + i \in 1 .. (Len(s) - 1)
        BY <1>1
    <2>2. a[i] = s[n + i] /\ a[i + 1] = s[n + (i + 1)]
        BY <1>1, <2>1
    <2> QED
        BY <2>1, <2>2
<1>3. PICK t \in Tracks, m \in ((n + i) + 2) .. Len(s) :
          s[m] = 0 /\ \A j \in ((n + i) + 2) .. (m - 1) : s[j] = FluxByte(t)
    BY <1>2 DEF Formed
<1>4. m - n \in (i + 2) .. Len(a) /\ a[m - n] = 0
    <2>1. m - n \in 1 .. (Len(s) - n) /\ n + (m - n) = m /\ m - n \in (i + 2) .. Len(a)
        BY <1>1
    <2>2. a[m - n] = s[n + (m - n)]
        BY <1>1, <2>1
    <2> QED
        BY <1>3, <2>1, <2>2
<1>5. ASSUME NEW j \in (i + 2) .. ((m - n) - 1) PROVE a[j] = FluxByte(t)
    <2>1. j \in 1 .. (Len(s) - n) /\ n + j \in ((n + i) + 2) .. (m - 1)
        BY <1>1
    <2> QED
        BY <1>1, <1>3, <2>1
<1> QED
    BY <1>4, <1>5

LEMMA FormedMore ==
    ASSUME NEW s \in Seq(Nat), NEW u \in Seq(Nat), Formed(s), Formed(u),
           s # <<>> /\ u # <<>> /\ s[Len(s)] = ReadFlux /\ u[1] = AckOk => Len(u) >= 2 /\ u[2] = 0
    PROVE  Formed(s \o u)
<1> DEFINE a == s \o u
<1>1. /\ a \in Seq(Nat) /\ Len(a) = Len(s) + Len(u) /\ Len(s) \in Nat /\ Len(u) \in Nat
      /\ \A i \in 1 .. Len(s) : a[i] = s[i]
      /\ \A i \in 1 .. Len(u) : a[Len(s) + i] = u[i]
    BY Extended
<1> HIDE DEF a
<1> SUFFICES ASSUME NEW i \in 1 .. (Len(a) - 1), a[i] = ReadFlux, a[i + 1] = AckOk
             PROVE  \E t \in Tracks, m \in (i + 2) .. Len(a) :
                        a[m] = 0 /\ \A j \in (i + 2) .. (m - 1) : a[j] = FluxByte(t)
    BY DEF Formed, a
<1>2. CASE i < Len(s)
    <2>1. i \in 1 .. (Len(s) - 1) /\ s[i] = ReadFlux /\ s[i + 1] = AckOk
        <3>1. i \in Int /\ i >= 1 /\ Len(s) \in Int
            BY <1>1
        <3>2. i \in 1 .. (Len(s) - 1) /\ i \in 1 .. Len(s) /\ i + 1 \in 1 .. Len(s)
            BY <1>2, <3>1, SMTT(20)
        <3>3. a[i] = s[i] /\ a[i + 1] = s[i + 1]
            BY <1>1, <3>2
        <3> QED
            BY <3>2, <3>3
    <2>2. PICK t \in Tracks, m \in (i + 2) .. Len(s) :
              s[m] = 0 /\ \A j \in (i + 2) .. (m - 1) : s[j] = FluxByte(t)
        BY <2>1 DEF Formed
    <2>3. m \in (i + 2) .. Len(a) /\ a[m] = 0
        BY <1>1, <2>2, SMTT(20)
    <2>4. ASSUME NEW j \in (i + 2) .. (m - 1) PROVE a[j] = FluxByte(t)
        <3>1. j \in 1 .. Len(s)
            BY <1>1
        <3> QED
            BY <1>1, <2>2, <3>1
    <2> QED
        BY <2>3, <2>4
<1>3. CASE i = Len(s)
    <2>1. 1 \in 1 .. Len(u) /\ s # <<>> /\ u # <<>> /\ s[Len(s)] = ReadFlux /\ u[1] = AckOk
        <3>1. 1 \in 1 .. Len(u) /\ Len(s) \in 1 .. Len(s) /\ s # <<>> /\ u # <<>>
            BY <1>1, <1>3
        <3> QED
            BY <1>1, <1>3, <3>1
    <2>2. i + 2 \in (i + 2) .. Len(a) /\ a[i + 2] = 0
        <3>1. Len(u) >= 2 /\ u[2] = 0 /\ 2 \in 1 .. Len(u)
            BY <1>1, <2>1
        <3>2. a[Len(s) + 2] = 0
            BY <1>1, <3>1
        <3>3. Len(s) + 2 \in (Len(s) + 2) .. Len(a)
            BY <1>1, <3>1
        <3> QED
            BY <1>3, <3>2, <3>3
    <2>3. <<0, 0>> \in Tracks /\ \A j \in (i + 2) .. ((i + 2) - 1) : FALSE
        BY DEF Tracks
    <2> QED
        BY <2>2, <2>3
<1>4. CASE i > Len(s)
    <2> DEFINE k == i - Len(s)
    <2>1. k \in 1 .. (Len(u) - 1) /\ u[k] = ReadFlux /\ u[k + 1] = AckOk /\ i = Len(s) + k
        <3>1. i \in Int /\ Len(s) \in Int /\ Len(u) \in Int /\ i <= Len(s) + Len(u) - 1
            BY <1>1
        <3>2. k \in 1 .. (Len(u) - 1) /\ k + 1 \in 1 .. Len(u) /\ k \in 1 .. Len(u)
              /\ i = Len(s) + k /\ i + 1 = Len(s) + (k + 1)
            BY <1>4, <3>1
        <3>3. a[Len(s) + k] = u[k] /\ a[Len(s) + (k + 1)] = u[k + 1]
            BY <1>1, <3>2
        <3> QED
            BY <3>2, <3>3
    <2>2. PICK t \in Tracks, m \in (k + 2) .. Len(u) :
              u[m] = 0 /\ \A j \in (k + 2) .. (m - 1) : u[j] = FluxByte(t)
        BY <2>1 DEF Formed
    <2>3. Len(s) + m \in (i + 2) .. Len(a) /\ a[Len(s) + m] = 0
        BY <1>1, <2>1, <2>2, SMTT(20)
    <2>4. ASSUME NEW j \in (i + 2) .. ((Len(s) + m) - 1) PROVE a[j] = FluxByte(t)
        <3>1. i \in Int /\ k \in Int /\ k >= 1 /\ Len(s) \in Int /\ Len(u) \in Int /\ j \in Int
              /\ m \in Int /\ m <= Len(u) /\ i = Len(s) + k
            BY <1>1, <2>1
        <3>2. j - Len(s) \in (k + 2) .. (m - 1) /\ j - Len(s) \in 1 .. Len(u)
              /\ Len(s) + (j - Len(s)) = j
            BY <3>1, SMTT(20)
        <3> QED
            BY <1>1, <2>2, <3>2
    <2> QED
        BY <2>3, <2>4
<1> QED
    BY <1>1, <1>2, <1>3, <1>4

LEMMA FluxIs == ASSUME NEW t \in Tracks PROVE FluxByte(t) \in Nat /\ FluxByte(t) >= 200
BY DEF Tracks, FluxByte

\* The bytes of an answer behind its status.
LEMMA PayloadBytes ==
    ASSUME NEW e \in Sent, NEW ack \in Nat, NEW p \in Seq(Nat), Says(e, ack, p),
           NEW i \in 1 .. Len(p)
    PROVE  /\ ack = AckOk /\ e.c \in {GetInfo, GetPin, ReadFlux}
           /\ e.c # ReadFlux => p[i] \in {0, 1, InfoByte}
           /\ e.c = ReadFlux => p[i] = FluxByte(pos) \/ (i = Len(p) /\ p[i] = 0)
           /\ e.c = GetPin => Len(p) = 1
<1>1. p # <<>> /\ Len(p) \in Nat
    OBVIOUS
<1>2. ack = AckOk /\ e.c \in {GetInfo, GetPin, ReadFlux}
    BY <1>1 DEF Says
<1> USE DEF GetInfo, GetPin, ReadFlux, AckOk
<1>3. CASE e.c = GetInfo
    BY <1>2, <1>3 DEF Says
<1>4. CASE e.c = GetPin
    <2>1. Len(p) = 1 /\ p[1] \in {0, 1}
        BY <1>2, <1>4 DEF Says
    <2>2. i = 1
        BY <2>1
    <2> QED
        BY <1>2, <1>4, <2>1, <2>2
<1>5. CASE e.c = ReadFlux
    <2>1. Stream(p, FluxByte(pos))
        BY <1>2, <1>5 DEF Says
    <2>2. i \in 1 .. (Len(p) - 1) \/ i = Len(p)
        BY <1>1
    <2> QED
        BY <1>2, <1>5, <2>1, <2>2 DEF Stream
<1> QED
    BY <1>2, <1>3, <1>4, <1>5

LEMMA FormedAnswer ==
    ASSUME NEW e \in Sent, NEW ack \in Nat, NEW p \in Seq(Nat), Says(e, ack, p), pos \in Tracks
    PROVE  Formed(Adds(e, ack, p)) /\ (e.c = 0 => Adds(e, ack, p)[2] = 0)
<1> DEFINE u == Adds(e, ack, p)
<1>1. /\ e.c \in Nat /\ u \in Seq(Nat) /\ Len(u) = 2 + Len(p) /\ u[1] = e.c /\ u[2] = ack
      /\ \A i \in 1 .. Len(p) : u[2 + i] = p[i]
    BY Added
<1>2. e.c = 0 => u[2] = 0
    BY <1>1 DEF Says, GetInfo, AckOk
<1>3. Len(p) \in Nat /\ FluxByte(pos) >= 200 /\ FluxByte(pos) \in Nat
    BY FluxIs
<1> HIDE DEF u
<1>4. ASSUME NEW i \in 1 .. (Len(u) - 1), u[i] = ReadFlux, u[i + 1] = AckOk
      PROVE  \E t \in Tracks, m \in (i + 2) .. Len(u) :
                 u[m] = 0 /\ \A j \in (i + 2) .. (m - 1) : u[j] = FluxByte(t)
    <2>1. CASE i = 1
        <3>1. Stream(p, FluxByte(pos))
            BY <1>1, <1>4, <2>1 DEF Says
        <3>2. Len(p) >= 1 /\ p[Len(p)] = 0 /\ Len(p) \in 1 .. Len(p)
            BY <1>3, <3>1, EmptySeq DEF Stream
        <3>3. Len(u) \in (i + 2) .. Len(u) /\ u[Len(u)] = 0
            <4>1. Len(u) \in (i + 2) .. Len(u)
                BY <1>1, <1>3, <2>1, <3>2
            <4> QED
                BY <1>1, <3>2, <4>1
        <3>4. ASSUME NEW j \in (i + 2) .. (Len(u) - 1) PROVE u[j] = FluxByte(pos)
            <4>1. j - 2 \in 1 .. (Len(p) - 1) /\ j - 2 \in 1 .. Len(p) /\ 2 + (j - 2) = j
                BY <1>1, <1>3, <2>1
            <4> QED
                BY <1>1, <3>1, <4>1 DEF Stream
        <3> QED
            BY <3>3, <3>4
    <2>2. CASE i = 2
        <3>1. 1 \in 1 .. Len(p)
            BY <1>1, <1>3, <2>2
        <3>2. ack = AckOk
            BY <3>1, PayloadBytes
        <3> QED
            BY <1>1, <1>4, <2>2, <3>2 DEF AckOk, ReadFlux
    <2>3. CASE i > 2
        <3>1. i - 2 \in 1 .. Len(p) /\ 2 + (i - 2) = i
            BY <1>1, <1>3, <2>3
        <3>2. p[i - 2] = ReadFlux
            BY <1>1, <1>4, <3>1
        <3>3. p[i - 2] \in {0, 1, InfoByte} \/ p[i - 2] = FluxByte(pos)
            BY <3>1, PayloadBytes
        <3> QED
            BY <1>3, <3>2, <3>3 DEF ReadFlux, InfoByte
    <2> QED
        BY <1>1, <1>3, <2>1, <2>2, <2>3
<1> QED
    BY <1>2, <1>4 DEF Formed, u

LEMMA OneRunMore ==
    ASSUME NEW s \in Seq(Nat), NEW u \in Seq(Nat), OneRun(s) PROVE OneRun(s \o u)
<1>1. PICK t \in Tracks, m \in 1 .. Len(s) : s[m] = 0 /\ \A j \in 1 .. (m - 1) : s[j] = FluxByte(t)
    BY DEF OneRun
<1>2. /\ Len(s \o u) = Len(s) + Len(u) /\ Len(s) \in Nat /\ Len(u) \in Nat
      /\ \A i \in 1 .. Len(s) : (s \o u)[i] = s[i]
    BY Extended
<1>3. m \in 1 .. Len(s \o u) /\ (s \o u)[m] = 0 /\ \A j \in 1 .. (m - 1) : (s \o u)[j] = FluxByte(t)
    BY <1>1, <1>2
<1> QED
    BY <1>3 DEF OneRun

LEMMA RunOfTrack ==
    ASSUME NEW s \in Seq(Nat), NEW u \in Seq(Nat), OneRun(s \o u)
    PROVE  \E t \in Tracks : OfTrack(s, t)
<1>1. PICK t \in Tracks, m \in 1 .. Len(s \o u) :
          (s \o u)[m] = 0 /\ \A j \in 1 .. (m - 1) : (s \o u)[j] = FluxByte(t)
    BY DEF OneRun
<1>2. \A i \in 1 .. Len(s) : (s \o u)[i] = s[i]
    BY Extended
<1>3. ASSUME NEW i \in 1 .. Len(s) PROVE s[i] = FluxByte(t) \/ \E e \in 1 .. i : s[e] = 0
    <2>1. CASE i < m
        <3>1. i \in 1 .. (m - 1)
            BY <2>1
        <3> QED
            BY <1>1, <1>2, <3>1
    <2>2. CASE ~(i < m)
        <3>1. m \in 1 .. i /\ m \in 1 .. Len(s)
            BY <2>2
        <3> QED
            BY <1>1, <1>2, <3>1
    <2> QED
        BY <2>1, <2>2
<1> QED
    BY <1>3 DEF OfTrack

\* A read_flux that takes bytes moves them from the line to its buffer.
LEMMA FluxTaken ==
    ASSUME Base, FluxRest
    PROVE  (got \o Line)' = got \o Line /\ got' \in Seq(Nat) /\ Line' \in Seq(Nat)
<1>1. got \in Seq(Nat) /\ rx \in Seq(Nat) /\ out \in Seq(Nat) /\ out' = out
    BY DEF FluxRest, Base, Wire
<1>2. CASE rx = <<>>
    <2>1. UNCHANGED <<got, rx>>
        BY <1>2 DEF FluxRest
    <2> QED
        BY <1>1, <2>1, Joined DEF Line
<1>3. CASE rx # <<>>
    <2>1. PICK n : n = IF Head(rx) = 0 THEN 1 ELSE Len(rx)
        OBVIOUS
    <2>2. got' = got \o SubSeq(rx, 1, n) /\ rx' = After(rx, n)
        BY <1>3, <2>1 DEF FluxRest
    <2>3. n \in 1 .. Len(rx)
        BY <1>1, <1>3, <2>1, EmptySeq
    <2>4. PICK a, c \in Seq(Nat) : a = SubSeq(rx, 1, n) /\ c = After(rx, n) /\ a \o c = rx
        BY <1>1, <2>3, TakenFromFront, ZenonT(30)
    <2>5. PICK g \in Seq(Nat), u \in Seq(Nat) : g = got /\ u = out
        BY <1>1
    <2>6. (g \o a) \o (c \o u) = g \o ((a \o c) \o u)
        <3>1. c \o u \in Seq(Nat)
            BY Joined
        <3>2. (g \o a) \o (c \o u) = g \o (a \o (c \o u))
            BY <3>1, Associative, Zenon
        <3>3. a \o (c \o u) = (a \o c) \o u
            BY Associative, ZenonT(30)
        <3> QED
            BY <3>2, <3>3, Zenon
    <2>7. got' = g \o a /\ Line' = c \o u /\ Line = (a \o c) \o u
        BY <1>1, <2>2, <2>4, <2>5 DEF Line
    <2>8. g \o a \in Seq(Nat) /\ c \o u \in Seq(Nat)
        BY Joined
    <2> QED
        BY <2>5, <2>6, <2>7, <2>8
<1> QED
    BY <1>2, <1>3

\* The place says which reaction it is.
LEMMA AnswerAt ==
    ASSUME NEW r, Answer(r)
    PROVE  /\ pc = "info" => InfoAnswer(r)
           /\ pc \in {"bus", "select", "motor"} => SetUpAnswer(r)
           /\ pc = "seek" => SeekAnswer(r)
           /\ pc \in Pinned => PinAnswer(r)
           /\ pc \in {"click", "oldhead"} => DroppedAnswer(r)
           /\ pc = "head" => HeadAnswer(r)
           /\ pc = "read" => ReadAnswer(r)
           /\ pc = "rstatus" => ReadStatusAnswer(r)
           /\ pc = "write" => WriteAnswer(r)
           /\ pc = "wstatus" => WriteStatusAnswer(r)
           /\ smooth' = (smooth /\ r = AckOk)
BY DEF Answer, InfoAnswer, SetUpAnswer, SeekAnswer, PinAnswer, DroppedAnswer, HeadAnswer,
       ReadAnswer, ReadStatusAnswer, WriteAnswer, WriteStatusAnswer, Pinned

\* The results of an operation that are good.
LEMMA GoodAnswer ==
    ASSUME Base, NEW r, Answer(r), pc' = "idle", res' = "ok", pc \in Labels
    PROVE  \/ pc = "oldhead" /\ op.kind = "seek"
           \/ pc = "rstatus" /\ got' = got
           \/ pc = "wstatus" /\ r = AckOk
<1> USE DEF Failed, Finish
<1>1. KindFits /\ up \in Nat /\ res # "ok"
    BY DEF Base, Types, Places, Labels
<1>2. CASE pc = "info"
    <2>1. InfoAnswer(r)
        BY <1>2, AnswerAt
    <2> QED
        BY <1>2, <2>1 DEF InfoAnswer, InfoAgain, Again, GoTo, ReadRest
<1>3. CASE pc \in {"bus", "select", "motor"}
    <2>1. SetUpAnswer(r)
        BY <1>3, AnswerAt
    <2>2. up + 1 \in Nat
        BY <1>1
    <2>3. Ready(up + 1) # "idle"
        BY <1>1, <2>2, ReadyIs
    <2> QED
        BY <1>3, <2>1, <2>3 DEF SetUpAnswer, Must, GoTo
<1>4. CASE pc = "seek"
    <2>1. SeekAnswer(r)
        BY <1>4, AnswerAt
    <2> QED
        BY <1>4, <2>1 DEF SeekAnswer, Must, GoTo
<1>5. CASE pc \in Pinned
    <2>1. PinAnswer(r)
        BY <1>5, AnswerAt
    <2> QED
        BY <1>5, <2>1 DEF PinAnswer, Pin, GoTo, Pinned, ReadRest, Spin
<1>6. CASE pc \in {"click", "oldhead"}
    <2>1. DroppedAnswer(r)
        BY <1>6, AnswerAt
    <2> QED
        BY <1>6, <2>1 DEF DroppedAnswer, GoTo
<1>7. CASE pc = "head"
    <2>1. HeadAnswer(r)
        BY <1>7, AnswerAt
    <2> QED
        BY <1>7, <2>1 DEF HeadAnswer, Must, GoTo
<1>8. CASE pc = "read"
    <2>1. ReadAnswer(r)
        BY <1>8, AnswerAt
    <2> QED
        BY <1>8, <2>1 DEF ReadAnswer, Again, GoTo, ReadRest
<1>9. CASE pc = "rstatus"
    <2>1. ReadStatusAnswer(r)
        BY <1>9, AnswerAt
    <2> QED
        BY <1>9, <2>1 DEF ReadStatusAnswer, Again, GoTo
<1>10. CASE pc = "write"
    <2>1. WriteAnswer(r)
        BY <1>10, AnswerAt
    <2> QED
        BY <1>10, <2>1 DEF WriteAnswer, ReadRest
<1>11. CASE pc = "wstatus"
    <2>1. WriteStatusAnswer(r)
        BY <1>11, AnswerAt
    <2> QED
        BY <1>11, <2>1 DEF WriteStatusAnswer, Again, GoTo
<1> QED
    BY <1>2, <1>3, <1>4, <1>5, <1>6, <1>7, <1>8, <1>9, <1>10, <1>11 DEF Labels, Pinned

LEMMA GoodEnds ==
    ASSUME Base, Host, pc' = "idle", res' = "ok"
    PROVE  /\ step = "wait" /\ tx' = tx /\ (Header \/ HeaderLate)
           /\ \/ pc = "oldhead" /\ op.kind = "seek"
              \/ pc = "rstatus" /\ got' = got
              \/ pc = "wstatus" /\ Header /\ Outcome = AckOk
<1>1. op' = op /\ pc # "idle" /\ pc \in Labels \cup {"sync"} /\ up \in Nat /\ res # "ok"
    BY HostMoves DEF Base, Types, Places
<1>2. tx' = tx
    BY HostAsks
<1>3. CASE Header
    <2>1. PICK r : r = Outcome
        OBVIOUS
    <2>2. Answer(r) /\ pc \in Labels /\ step = "wait"
        BY <1>1, <1>3, <2>1 DEF Header
    <2> QED
        BY <1>2, <1>3, <2>1, <2>2, GoodAnswer
<1>4. CASE HeaderLate
    <2>1. Answer(Late) /\ pc \in Labels /\ step = "wait"
        BY <1>1, <1>4 DEF HeaderLate
    <2> QED
        BY <1>2, <1>4, <2>1, GoodAnswer DEF Late, AckOk
<1>5. ~InfoRest
    <2>1. Ready(up) # "idle"
        BY <1>1, ReadyIs
    <2> QED
        BY <2>1 DEF InfoRest, InfoAgain, Again, GoTo, Finish
<1>6. ~PinRest
    BY DEF PinRest, Pin, GoTo, Spin, Finish
<1>7. ~FluxRest /\ ~WriteData /\ ~SyncByte
    BY <1>1 DEF FluxRest, WriteData, SyncByte, GoTo
<1> QED
    BY <1>3, <1>4, <1>5, <1>6, <1>7 DEF Host

\* A header is the beginning of what is on the line.
LEMMA HeaderIs ==
    ASSUME Base, Header
    PROVE  /\ step = "wait" /\ pc \in Labels /\ op' = op /\ UNCHANGED device
           /\ Len(rx) >= 2 /\ Len(Line) >= 2 /\ Line \in Seq(Nat) /\ Len(Line) \in Nat
           /\ Line[1] = rx[1] /\ Line[2] = rx[2]
           /\ Outcome = IF Line[1] = Code(pc) THEN Line[2] ELSE Mismatch
           /\ Answer(Outcome)
           /\ ~Resends => rx' = After(rx, 2) /\ Line' = After(Line, 2)
           /\ Resends => rx' = <<>> /\ Line' = After(Line, Len(rx)) /\ Line' = out
<1>1. /\ step = "wait" /\ pc \in Labels /\ op' = op /\ UNCHANGED device /\ Len(rx) >= 2
      /\ Answer(Outcome)
    BY DEF Header, Base, Types
<1>2. rx \in Seq(Nat) /\ out \in Seq(Nat) /\ Len(rx) \in Nat
    BY DEF Base, Wire
<1>3. /\ Len(rx \o out) = Len(rx) + Len(out) /\ Len(out) \in Nat /\ rx \o out \in Seq(Nat)
      /\ \A i \in 1 .. Len(rx) : (rx \o out)[i] = rx[i]
    BY <1>2, Extended
<1>4. 1 \in 1 .. Len(rx) /\ 2 \in 1 .. Len(rx) /\ 2 \in 0 .. Len(rx)
    BY <1>1, <1>2
<1>5. After(rx, 2) \o out = After(rx \o out, 2)
    <2>1. \A n \in Nat : n <= Len(rx) => After(rx, n) \o out = After(rx \o out, n)
        BY <1>2, AfterIs
    <2> QED
        BY <1>1, <2>1
<1>6. Outcome = IF Line[1] = Code(pc) THEN Line[2] ELSE Mismatch
    BY <1>1, <1>3, <1>4, CodeOf DEF Outcome, Line
<1>7. After(rx \o out, Len(rx)) = out /\ <<>> \o out = out
    BY <1>2, AllAndNone, ConcatEmptySeq
<1>8. /\ Len(Line) >= 2 /\ Line \in Seq(Nat) /\ Len(Line) \in Nat
      /\ Line[1] = rx[1] /\ Line[2] = rx[2]
    BY <1>1, <1>2, <1>3, <1>4 DEF Line
<1>9. /\ ~Resends => rx' = After(rx, 2) /\ Line' = After(Line, 2)
      /\ Resends => rx' = <<>> /\ Line' = After(Line, Len(rx)) /\ Line' = out
    <2>1. rx' = (IF Resends THEN <<>> ELSE After(rx, 2)) /\ out' = out
        BY DEF Header, Unread
    <2>2. CASE Resends
        BY <1>7, <2>1, <2>2 DEF Line
    <2>3. CASE ~Resends
        BY <1>5, <2>1, <2>3 DEF Line
    <2> QED
        BY <2>2, <2>3
<1> QED
    BY <1>1, <1>6, <1>8, <1>9

LEMMA HostOneTrack == ASSUME Base, OneTrack, Host PROVE OneTrack'
<1>1. op' = op /\ pc # "idle" /\ Line \in Seq(Nat) /\ got \in Seq(Nat)
    BY HostMoves, HostTakes DEF Base, Wire
<1>2. Formed(Line')
    <2>1. PICK n \in 0 .. Len(Line) : Line' = After(Line, n)
        BY HostTakes DEF Base
    <2> QED
        BY <1>1, <2>1, FormedRest DEF OneTrack
<1>3. ASSUME pc' = "read", step' = "rest" PROVE OneRun((got \o Line)')
    <2>1. CASE FluxRest
        BY <1>3, <2>1, FluxTaken DEF OneTrack, FluxRest
    <2>2. CASE ~FluxRest
        <3>1. ReadRest /\ step = "wait" /\ pc = "read"
            <4>1. \A l : ~GoTo(l) /\ ~Finish(l)
                BY <1>3 DEF GoTo, Finish
            <4>2. Stays => FluxRest
                BY <2>2 DEF Stays, Host, Header, HeaderLate, InfoRest, PinRest, WriteData, SyncByte
            <4> QED
                BY <1>3, <2>2, <4>1, <4>2, HostMoves DEF Base, WriteData, ReadRest
        <3>2. Header
            <4>1. ~HeaderLate
                <5>1. HeaderLate => ReadAnswer(Late)
                    BY <3>1, AnswerAt DEF HeaderLate
                <5> QED
                    BY <1>3, <5>1 DEF ReadAnswer, Late, AckOk, Overflow, Failed, Finish
            <4> QED
                BY <3>1, <4>1 DEF Host, InfoRest, PinRest, FluxRest, WriteData, SyncByte
        <3>3. PICK r : r = Outcome
            OBVIOUS
        <3>4. r = AckOk /\ got' = <<>>
            <4>1. ReadAnswer(r)
                BY <3>1, <3>2, <3>3, AnswerAt, HeaderIs
            <4> QED
                BY <1>3, <4>1 DEF ReadAnswer, Again, GoTo, Failed, Finish
        <3>5. Line' = After(Line, 2) /\ Len(Line) >= 2 /\ Line[1] = ReadFlux /\ Line[2] = AckOk
            <4>1. ~Resends
                BY <1>3 DEF Resends
            <4> QED
                BY <3>1, <3>2, <3>3, <3>4, <4>1, HeaderIs DEF Code, Pinned, Mismatch, AckOk
        <3>6. PICK t \in Tracks, m \in 3 .. Len(Line) :
                  Line[m] = 0 /\ \A j \in 3 .. (m - 1) : Line[j] = FluxByte(t)
            <4>1. 1 \in 1 .. (Len(Line) - 1) /\ 1 + 1 = 2 /\ 1 + 2 = 3
                BY <1>1, <3>5
            <4> QED
                BY <3>5, <4>1 DEF OneTrack, Formed
        <3>7. PICK a \in Seq(Nat) :
                  /\ a = After(Line, 2) /\ Len(a) = Len(Line) - 2 /\ Len(Line) \in Nat
                  /\ \A i \in 1 .. (Len(Line) - 2) : a[i] = Line[2 + i]
            <4>1. 2 \in 0 .. Len(Line)
                BY <1>1, <3>5
            <4> QED
                BY <1>1, <4>1, LeftBehind
        <3>8. m - 2 \in 1 .. Len(a) /\ a[m - 2] = 0
            <4>1. m - 2 \in 1 .. Len(a) /\ m - 2 \in 1 .. (Len(Line) - 2) /\ 2 + (m - 2) = m
                BY <3>7
            <4> QED
                BY <3>6, <3>7, <4>1
        <3>9. ASSUME NEW j \in 1 .. ((m - 2) - 1) PROVE a[j] = FluxByte(t)
            <4>1. j \in 1 .. (Len(Line) - 2) /\ 2 + j \in 3 .. (m - 1)
                BY <3>7
            <4> QED
                BY <3>6, <3>7, <4>1
        <3>10. OneRun(a)
            BY <3>8, <3>9 DEF OneRun
        <3>11. (got \o Line)' = a
            BY <3>4, <3>5, <3>7, ConcatEmptySeq
        <3> QED
            BY <3>10, <3>11
    <2> QED
        BY <2>1, <2>2
<1>4. ASSUME pc' = "rstatus" PROVE \E t \in Tracks : OfTrack(got', t)
    <2>1. FluxRest
        <3>1. pc = "read" /\ GoTo("rstatus")
            <4>1. \A l \in Labels : Edge(pc, l) /\ GoTo(l) => l = "rstatus" /\ pc = "read"
                BY <1>4 DEF GoTo, Edge
            <4> QED
                BY <1>1, <1>4, <4>1, HostMoves DEF Base, Finish, ReadRest, Stays, WriteData, Pinned
        <3>2. ASSUME NEW r, Answer(r) PROVE FALSE
            <4>1. ReadAnswer(r)
                BY <3>1, <3>2, AnswerAt
            <4> QED
                BY <3>1, <4>1 DEF ReadAnswer, GoTo, Again, ReadRest, Failed, Finish
        <3> QED
            BY <3>1, <3>2 DEF Host, Header, HeaderLate, InfoRest, PinRest, WriteData, SyncByte
    <2>2. OneRun(got' \o Line') /\ got' \in Seq(Nat) /\ Line' \in Seq(Nat)
        BY <2>1, FluxTaken DEF OneTrack, FluxRest
    <2>3. PICK g \in Seq(Nat), u \in Seq(Nat) : g = got' /\ u = Line'
        BY <2>2
    <2> QED
        BY <2>2, <2>3, RunOfTrack
<1>5. ASSUME pc' = "idle", res' = "ok", op'.kind = "read" PROVE \E t \in Tracks : OfTrack(got', t)
    <2>1. pc \notin {"oldhead", "wstatus"} \/ op.kind = "read"
        BY <1>1, <1>5
    <2> QED
        BY <1>1, <1>5, <2>1, GoodEnds DEF OneTrack, Base, Places, KindFits
<1> QED
    BY <1>2, <1>3, <1>4, <1>5 DEF OneTrack

\* More on the line that is formed as an answer is.
LEMMA OneTrackMore ==
    ASSUME Base, OneTrack, UNCHANGED host, NEW u \in Seq(Nat), Line' = Line \o u, Formed(Line \o u)
    PROVE  OneTrack'
<1>1. Line \in Seq(Nat) /\ got \in Seq(Nat)
    BY Joined DEF Base, Wire, Line
<1>2. ASSUME OneRun(got \o Line) PROVE OneRun(got' \o Line')
    <2>1. got' \o Line' = (got \o Line) \o u
        BY <1>1, Associative
    <2>2. PICK s \in Seq(Nat) : s = got \o Line
        BY <1>1, Joined
    <2> QED
        BY <1>2, <2>1, <2>2, OneRunMore
<1> QED
    BY <1>2 DEF OneTrack

LEMMA SameOneTrack ==
    ASSUME OneTrack, UNCHANGED host, Line' = Line PROVE OneTrack'
BY DEF OneTrack

LEMMA DeviceOneTrack == ASSUME Base, Order, OneTrack, Device PROVE OneTrack'
<1>1. Line \in Seq(Nat) /\ Formed(Line)
    BY Joined DEF Base, Wire, Line, OneTrack
<1>2. CASE DeviceCommand
    <2>1. PICK e \in Sent, ack \in Nat, p \in Seq(Nat) :
              /\ Says(e, ack, p) /\ rx' = rx \o <<e.c, ack>> /\ out' = p
        BY <1>2, Executes DEF Base
    <2>2. PICK u \in Seq(Nat) : u = Adds(e, ack, p) /\ u[1] = e.c /\ Len(u) = 2 + Len(p)
        BY Added
    <2>3. Line' = Line \o u /\ UNCHANGED host
        BY <1>2, <2>1, <2>2, Executes, LineAfterCommand DEF Base
    <2>4. Formed(u) /\ (u[1] = AckOk => Len(u) >= 2 /\ u[2] = 0)
        BY <2>1, <2>2, FormedAnswer, SMTT(20) DEF Base, Wire, AckOk
    <2>5. Formed(Line \o u)
        BY <1>1, <2>4, FormedMore
    <2> QED
        BY <2>3, <2>5, OneTrackMore
<1>3. CASE DeviceData
    <2>1. UNCHANGED host /\ mode = "data" /\ (Line' = Line \/ Line' = Line \o <<0>>)
        BY <1>3, DataEnds DEF Base
    <2>2. CASE Line' = Line
        BY <2>1, <2>2, SameOneTrack
    <2>3. CASE Line' = Line \o <<0>>
        <3>1. PICK u \in Seq(Nat) : u = <<0>> /\ Len(u) = 1
            <4>1. <<0>> \in Seq(Nat) /\ Len(<<0>>) = 1
                OBVIOUS
            <4> QED
                BY <4>1
        <3>2. Formed(u)
            BY <3>1 DEF Formed
        <3>3. Line # <<>> => Line[Len(Line)] # ReadFlux
            BY <2>1 DEF Order, DataEnd, ReadFlux
        <3>4. Formed(Line \o u)
            BY <1>1, <3>2, <3>3, FormedMore
        <3> QED
            BY <2>1, <2>3, <3>1, <3>4, OneTrackMore
    <2> QED
        BY <2>1, <2>2, <2>3
<1>4. CASE DeviceSends
    BY <1>4, SendsOn, SameOneTrack DEF Carry, Base
<1> QED
    BY <1>2, <1>3, <1>4 DEF Device

LEMMA BeginOneTrack ==
    ASSUME Base, OneTrack, NEW k \in Kinds, NEW t \in Targets, Begin(k, t) PROVE OneTrack'
<1>1. rx' = <<>> /\ out' = out /\ pc' = "info"
    BY DEF Begin
<1>2. Line' = After(Line, Len(rx)) /\ Len(rx) \in 0 .. Len(Line) /\ Line \in Seq(Nat)
    <2>1. rx \in Seq(Nat) /\ out \in Seq(Nat)
        BY DEF Base, Wire
    <2>2. After(rx \o out, Len(rx)) = out /\ Len(rx \o out) = Len(rx) + Len(out)
          /\ Len(rx) \in Nat /\ Len(out) \in Nat
        BY <2>1, AllAndNone, Extended
    <2>3. Line' = out
        BY <1>1, <2>1, ConcatEmptySeq DEF Line
    <2> QED
        BY <2>1, <2>2, <2>3, Joined DEF Line
<1> QED
    BY <1>1, <1>2, FormedRest DEF OneTrack

LEMMA InitOneTrack == Init => OneTrack
<1> SUFFICES ASSUME Init PROVE OneTrack
    OBVIOUS
<1>1. Line = <<>> /\ Len(<<>>) = 0 /\ pc = "idle" /\ res = "none"
    BY ConcatEmptySeq DEF Init, Line
<1> QED
    BY <1>1 DEF OneTrack, Formed

-----------------------------------------------------------------------------
(* What the info before an operation clears off the line: while no more    *)
(* than so many commands are unanswered, what could be taken for the end   *)
(* of a read, or of the second look at the write protection.               *)

ReadBound == MaxPending <= 5
WriteBound == MaxPending <= 6

Clean(s) == \A i \in 1 .. Len(s) : s[i] < 200 /\ s[i] \notin {Overflow, FluxStatus}
NoPair(s) == \A i \in 1 .. (Len(s) - 2) : s[i] = Head_ /\ s[i + 1] = AckOk => s[i + 2] # GetPin
EndsInHead(s) == Len(s) >= 2 /\ s[Len(s) - 1] = Head_ /\ s[Len(s)] = AckOk

ReadClear(s) == Clean(s) /\ \A j \in 1 .. Len(tx) : tx[j].c \notin {ReadFlux, FluxStatus}
WriteClear(s) ==
    /\ NoPair(s)
    /\ \A j \in 1 .. (Len(tx) - 1) : tx[j].c = Head_ => tx[j + 1].c # GetPin
    /\ EndsInHead(s) /\ mode = "command" =>
           IF tx = <<>> THEN pc \in {"oldhead", "head"} ELSE tx[1].c # GetPin
Clear(s) ==
    /\ op.kind = "read" /\ ReadBound => ReadClear(s)
    /\ op.kind = "write" /\ WriteBound => WriteClear(s)

LEMMA CleanRest ==
    ASSUME NEW s \in Seq(Nat), NEW n \in 0 .. Len(s), Clean(s) PROVE Clean(After(s, n))
<1> DEFINE a == After(s, n)
<1>1. /\ Len(a) = Len(s) - n /\ Len(s) \in Nat
      /\ \A i \in 1 .. (Len(s) - n) : a[i] = s[n + i]
    BY LeftBehind
<1> HIDE DEF a
<1>2. ASSUME NEW i \in 1 .. Len(a) PROVE a[i] < 200 /\ a[i] \notin {Overflow, FluxStatus}
    <2>1. i \in 1 .. (Len(s) - n) /\ n + i \in 1 .. Len(s)
        BY <1>1
    <2>2. a[i] = s[n + i]
        BY <1>1, <2>1
    <2> QED
        BY <2>1, <2>2 DEF Clean
<1> QED
    BY <1>2 DEF Clean, a

LEMMA CleanMore ==
    ASSUME NEW s \in Seq(Nat), NEW u \in Seq(Nat), Clean(s), Clean(u) PROVE Clean(s \o u)
<1> DEFINE a == s \o u
<1>1. /\ Len(a) = Len(s) + Len(u) /\ Len(s) \in Nat /\ Len(u) \in Nat
      /\ \A i \in 1 .. Len(s) : a[i] = s[i]
      /\ \A i \in 1 .. Len(u) : a[Len(s) + i] = u[i]
    BY Extended
<1> HIDE DEF a
<1>2. ASSUME NEW i \in 1 .. Len(a) PROVE a[i] < 200 /\ a[i] \notin {Overflow, FluxStatus}
    <2>0. i \in Int /\ i >= 1 /\ i <= Len(s) + Len(u)
        BY <1>1
    <2>1. CASE i <= Len(s)
        <3>1. i \in 1 .. Len(s)
            BY <1>1, <2>0, <2>1
        <3> QED
            BY <1>1, <3>1 DEF Clean
    <2>2. CASE ~(i <= Len(s))
        <3>1. i - Len(s) \in 1 .. Len(u) /\ Len(s) + (i - Len(s)) = i
            BY <1>1, <2>0, <2>2
        <3>2. a[i] = u[i - Len(s)]
            BY <1>1, <3>1
        <3> QED
            BY <3>1, <3>2 DEF Clean
    <2> QED
        BY <2>1, <2>2
<1> QED
    BY <1>2 DEF Clean, a

LEMMA NoPairRest ==
    ASSUME NEW s \in Seq(Nat), NEW n \in 0 .. Len(s), NoPair(s) PROVE NoPair(After(s, n))
<1> DEFINE a == After(s, n)
<1>1. /\ Len(a) = Len(s) - n /\ Len(s) \in Nat
      /\ \A i \in 1 .. (Len(s) - n) : a[i] = s[n + i]
    BY LeftBehind
<1> HIDE DEF a
<1>2. ASSUME NEW i \in 1 .. (Len(a) - 2), a[i] = Head_, a[i + 1] = AckOk PROVE a[i + 2] # GetPin
    <2>1. /\ i \in 1 .. (Len(s) - n) /\ i + 1 \in 1 .. (Len(s) - n) /\ i + 2 \in 1 .. (Len(s) - n)
          /\ n + (i + 1) = (n + i) + 1 /\ n + (i + 2) = (n + i) + 2
          /\ n + i \in 1 .. (Len(s) - 2)
        BY <1>1
    <2>2. a[i] = s[n + i] /\ a[i + 1] = s[n + (i + 1)] /\ a[i + 2] = s[n + (i + 2)]
        BY <1>1, <2>1
    <2> QED
        BY <1>2, <2>1, <2>2 DEF NoPair
<1> QED
    BY <1>2 DEF NoPair, a

LEMMA EndRest ==
    ASSUME NEW s \in Seq(Nat), NEW n \in 0 .. Len(s), EndsInHead(After(s, n))
    PROVE  EndsInHead(s)
<1> DEFINE a == After(s, n)
<1>1. /\ Len(a) = Len(s) - n /\ Len(s) \in Nat /\ Len(a) >= 2
      /\ \A i \in 1 .. (Len(s) - n) : a[i] = s[n + i]
    BY LeftBehind DEF EndsInHead
<1> HIDE DEF a
<1>2. /\ Len(a) \in 1 .. (Len(s) - n) /\ Len(a) - 1 \in 1 .. (Len(s) - n)
      /\ n + Len(a) = Len(s) /\ n + (Len(a) - 1) = Len(s) - 1 /\ Len(s) >= 2
    BY <1>1
<1>3. a[Len(a)] = s[Len(s)] /\ a[Len(a) - 1] = s[Len(s) - 1]
    BY <1>1, <1>2
<1> QED
    BY <1>2, <1>3 DEF EndsInHead, a

\* Bytes that follow: how a pair and an end can come about.
LEMMA NoPairMore ==
    ASSUME NEW s \in Seq(Nat), NEW u \in Seq(Nat), NoPair(s), NoPair(u),
           EndsInHead(s) /\ u # <<>> => u[1] # GetPin,
           Len(u) >= 2 /\ u[1] = AckOk => u[2] # GetPin
    PROVE  NoPair(s \o u)
<1> DEFINE a == s \o u
<1>1. /\ Len(a) = Len(s) + Len(u) /\ Len(s) \in Nat /\ Len(u) \in Nat
      /\ \A i \in 1 .. Len(s) : a[i] = s[i]
      /\ \A i \in 1 .. Len(u) : a[Len(s) + i] = u[i]
    BY Extended
<1> HIDE DEF a
<1>2. ASSUME NEW i \in 1 .. (Len(a) - 2), a[i] = Head_, a[i + 1] = AckOk PROVE a[i + 2] # GetPin
    <2>0. i \in Int /\ i >= 1 /\ i + 2 <= Len(s) + Len(u)
        BY <1>1
    <2>1. CASE i + 2 <= Len(s)
        <3>1. i \in 1 .. Len(s) /\ i + 1 \in 1 .. Len(s) /\ i + 2 \in 1 .. Len(s)
              /\ i \in 1 .. (Len(s) - 2)
            BY <1>1, <2>0, <2>1
        <3>2. a[i] = s[i] /\ a[i + 1] = s[i + 1] /\ a[i + 2] = s[i + 2]
            BY <1>1, <3>1
        <3> QED
            BY <1>2, <3>1, <3>2 DEF NoPair
    <2>2. CASE i + 1 = Len(s)
        <3>1. i \in 1 .. Len(s) /\ i + 1 \in 1 .. Len(s) /\ i = Len(s) - 1 /\ Len(s) >= 2
              /\ 1 \in 1 .. Len(u) /\ i + 2 = Len(s) + 1
            BY <1>1, <2>0, <2>2
        <3>2. a[i] = s[i] /\ a[i + 1] = s[i + 1] /\ a[i + 2] = u[1] /\ u # <<>>
            BY <1>1, <3>1, SMTT(20)
        <3> QED
            BY <1>2, <2>2, <3>1, <3>2 DEF EndsInHead
    <2>3. CASE i = Len(s)
        <3>1. 1 \in 1 .. Len(u) /\ 2 \in 1 .. Len(u) /\ i + 1 = Len(s) + 1 /\ i + 2 = Len(s) + 2
              /\ Len(u) >= 2
            BY <1>1, <2>0, <2>3
        <3>2. a[i + 1] = u[1] /\ a[i + 2] = u[2]
            BY <1>1, <3>1
        <3> QED
            BY <1>2, <3>1, <3>2
    <2>4. CASE i > Len(s)
        <3>1. PICK k \in Int : k = i - Len(s)
            <4>1. i - Len(s) \in Int
                BY <1>1, <2>0
            <4> QED
                BY <4>1
        <3>2. /\ k \in 1 .. Len(u) /\ k + 1 \in 1 .. Len(u) /\ k + 2 \in 1 .. Len(u)
              /\ k \in 1 .. (Len(u) - 2)
              /\ i = Len(s) + k /\ i + 1 = Len(s) + (k + 1) /\ i + 2 = Len(s) + (k + 2)
            BY <1>1, <2>0, <2>4, <3>1
        <3>3. a[i] = u[k] /\ a[i + 1] = u[k + 1] /\ a[i + 2] = u[k + 2]
            BY <1>1, <3>2
        <3> QED
            BY <1>2, <3>2, <3>3 DEF NoPair
    <2> QED
        BY <1>1, <2>0, <2>1, <2>2, <2>3, <2>4
<1> QED
    BY <1>2 DEF NoPair, a

LEMMA EndMore ==
    ASSUME NEW s \in Seq(Nat), NEW u \in Seq(Nat), EndsInHead(s \o u)
    PROVE  /\ Len(u) >= 2 => EndsInHead(u)
           /\ Len(u) = 1 => s # <<>> /\ s[Len(s)] = Head_
<1> DEFINE a == s \o u
<1>1. /\ Len(a) = Len(s) + Len(u) /\ Len(s) \in Nat /\ Len(u) \in Nat
      /\ \A i \in 1 .. Len(s) : a[i] = s[i]
      /\ \A i \in 1 .. Len(u) : a[Len(s) + i] = u[i]
      /\ Len(a) >= 2 /\ a[Len(a) - 1] = Head_ /\ a[Len(a)] = AckOk
    BY Extended DEF EndsInHead
<1> HIDE DEF a
<1>2. CASE Len(u) >= 2
    <2>1. /\ Len(u) \in 1 .. Len(u) /\ Len(u) - 1 \in 1 .. Len(u)
          /\ Len(a) = Len(s) + Len(u) /\ Len(a) - 1 = Len(s) + (Len(u) - 1)
        BY <1>1, <1>2
    <2>2. a[Len(a)] = u[Len(u)] /\ a[Len(a) - 1] = u[Len(u) - 1]
        BY <1>1, <2>1
    <2> QED
        BY <1>1, <1>2, <2>2, SMTT(20) DEF EndsInHead
<1>3. CASE Len(u) = 1
    <2>1. Len(s) \in 1 .. Len(s) /\ Len(a) - 1 = Len(s) /\ s # <<>>
        BY <1>1, <1>3
    <2>2. a[Len(a) - 1] = s[Len(s)]
        BY <1>1, <2>1
    <2> QED
        BY <1>1, <1>3, <2>1, <2>2
<1> QED
    BY <1>1, <1>2, <1>3

\* The answers the host can still get in an operation.
LEMMA AnswerClean ==
    ASSUME NEW e \in Sent, NEW ack \in Nat, NEW p \in Seq(Nat), Says(e, ack, p),
           e.c \notin {ReadFlux, FluxStatus}
    PROVE  Clean(Adds(e, ack, p))
<1> DEFINE u == Adds(e, ack, p)
<1>0. Len(p) \in Nat
    OBVIOUS
<1>1. /\ Len(u) = 2 + Len(p) /\ u[1] = e.c /\ u[2] = ack /\ Len(p) \in Nat
      /\ \A i \in 1 .. Len(p) : u[2 + i] = p[i]
    BY <1>0, Added
<1> HIDE DEF u
<1>2. e.c < 200 /\ e.c # Overflow /\ ack < 200 /\ ack # FluxStatus /\ ack # Overflow
    BY SMTT(20)
       DEF Says, GetInfo, SetBus, Select_, Motor, FluxStatus, Seek, NoClickStep, Head_, GetPin,
       ReadFlux, WriteFlux, Overflow
<1>3. ASSUME NEW i \in 1 .. Len(u) PROVE u[i] < 200 /\ u[i] \notin {Overflow, FluxStatus}
    <2>1. CASE i \in {1, 2}
        BY <1>1, <1>2, <2>1
    <2>2. CASE i \notin {1, 2}
        <3>1. i - 2 \in 1 .. Len(p) /\ 2 + (i - 2) = i
            BY <1>1, <2>2
        <3>2. u[i] = p[i - 2]
            BY <1>1, <3>1
        <3>3. p[i - 2] \in {0, 1, InfoByte}
            BY <3>1, PayloadBytes
        <3> QED
            BY <3>2, <3>3 DEF InfoByte, Overflow, FluxStatus
    <2> QED
        BY <2>1, <2>2
<1> QED
    BY <1>3 DEF Clean, u

LEMMA AnswerNoPair ==
    ASSUME NEW e \in Sent, NEW ack \in Nat, NEW p \in Seq(Nat), Says(e, ack, p), pos \in Tracks
    PROVE  /\ NoPair(Adds(e, ack, p))
           /\ EndsInHead(Adds(e, ack, p)) => e.c = Head_
<1> DEFINE u == Adds(e, ack, p)
<1>0. Len(p) \in Nat
    OBVIOUS
<1>1. /\ Len(u) = 2 + Len(p) /\ u[1] = e.c /\ u[2] = ack /\ Len(p) \in Nat
      /\ \A i \in 1 .. Len(p) : u[2 + i] = p[i]
    BY <1>0, Added
<1> HIDE DEF u
<1>2. FluxByte(pos) >= 200 /\ FluxByte(pos) \in Nat
    BY FluxIs
<1>3. ASSUME NEW i \in 3 .. Len(u) PROVE u[i] # Head_ /\ ack = AckOk /\ e.c # Head_
    <2>1. i - 2 \in 1 .. Len(p) /\ 2 + (i - 2) = i
        BY <1>1
    <2>2. u[i] = p[i - 2]
        BY <1>1, <2>1
    <2>3. /\ p[i - 2] \in {0, 1, InfoByte, FluxByte(pos)} /\ ack = AckOk
          /\ e.c \in {GetInfo, GetPin, ReadFlux}
        BY <2>1, PayloadBytes
    <2> QED
        BY <1>2, <2>2, <2>3, SMTT(20) DEF InfoByte, Head_, GetInfo, GetPin, ReadFlux
<1>4. NoPair(u)
    <2>1. ASSUME NEW i \in 1 .. (Len(u) - 2), u[i] = Head_ PROVE FALSE
        <3>1. Len(u) \in 3 .. Len(u) /\ (i \in 3 .. Len(u) \/ i = 1 \/ i = 2)
            BY <1>1
        <3> QED
            BY <1>1, <1>3, <2>1, <3>1 DEF AckOk, Head_
    <2> QED
        BY <2>1 DEF NoPair
<1>5. EndsInHead(u) => e.c = Head_
    <2> SUFFICES ASSUME Len(u) >= 2, u[Len(u) - 1] = Head_ PROVE e.c = Head_
        BY DEF EndsInHead
    <2>1. CASE Len(u) = 2
        <3>1. Len(u) - 1 = 1
            BY <2>1
        <3> QED
            BY <1>1, <3>1
    <2>2. CASE Len(u) = 3
        <3>1. 3 \in 3 .. Len(u)
            BY <2>2
        <3> QED
            BY <1>1, <1>3, <2>2, <3>1 DEF AckOk, Head_
    <2>3. CASE Len(u) > 3
        <3>1. Len(u) - 1 \in 3 .. Len(u)
            BY <1>1, <2>3
        <3> QED
            BY <1>3, <3>1
    <2> QED
        BY <1>1, <2>1, <2>2, <2>3
<1> QED
    BY <1>4, <1>5 DEF u

Early == {"bus", "select", "wpt", "motor", "seek", "at0", "click", "at0again", "oldhead", "head"}

OutEnds == \A i \in 1 .. (Len(out) - 1) : out[i] # 0
\* What is on the line when an info is asked for, and in the commands before it.
Quiet ==
    /\ \A i \in 1 .. (Len(Line) - 1) : Line[i] # 0
    /\ mode = "data" => Line = <<>>
Sorted ==
    \A i \in 1 .. Len(tx) : tx[i].c = GetInfo =>
        \A j \in (i + 1) .. Len(tx) :
            /\ op.kind = "read" /\ ReadBound => tx[j].c \notin {ReadFlux, FluxStatus}
            /\ op.kind = "write" /\ WriteBound => tx[j].c # GetPin \/ tx[j - 1].c # Head_
\* The header that the host will find is not that of an info, or is the last
\* before what is clear.
Doomed == Len(rx) >= 2 /\ (rx[1] # 0 \/ rx[2] # 0)
Cleared == Len(rx) >= 2 /\ rx[1] = 0 /\ rx[2] = 0 /\ Clear(After(Line, 2))
InfoOk == pc = "info" /\ step = "wait" => (Quiet /\ Sorted) \/ Doomed \/ Cleared
ClearOk == pc \in Early \/ (pc = "info" /\ step = "rest") => Clear(Line)
Settled == OutEnds /\ InfoOk /\ ClearOk

\* The device takes the first of what was sent.
Taken(e) == tx # <<>> /\ e = Head(tx) /\ tx' = Tail(tx)

LEMMA TakenIs ==
    ASSUME Base, NEW e \in Sent, Taken(e)
    PROVE  /\ tx[1] = e /\ Len(tx) \in Nat /\ Len(tx) >= 1 /\ Len(tx') = Len(tx) - 1
           /\ \A i \in 1 .. (Len(tx) - 1) : tx'[i] = tx[i + 1]
           /\ tx' \in Seq(Sent) /\ (tx' = <<>> <=> Len(tx) = 1)
           /\ tx' # <<>> => Len(tx) >= 2
<1>1. tx \in Seq(Sent) /\ tx # <<>> /\ e = Head(tx) /\ tx' = Tail(tx)
    BY DEF Base, Wire, Taken
<1>2. PICK q : q = Tail(tx)
    OBVIOUS
<1>3. /\ q \in Seq(Sent) /\ Len(q) = Len(tx) - 1 /\ Len(tx) \in Nat /\ Len(tx) >= 1
      /\ Head(tx) = tx[1] /\ \A i \in 1 .. (Len(tx) - 1) : q[i] = tx[i + 1]
    BY <1>1, <1>2, OneLess
<1>4. q = <<>> <=> Len(q) = 0
    BY <1>3, EmptySeq
<1> QED
    BY <1>1, <1>2, <1>3, <1>4

LEMMA ReadClearCommand ==
    ASSUME Base, NEW s \in Seq(Nat), NEW e \in Sent, NEW ack \in Nat, NEW p \in Seq(Nat),
           Taken(e), Says(e, ack, p), ReadClear(s)
    PROVE  ReadClear(s \o Adds(e, ack, p))'
<1>1. /\ tx[1] = e /\ Len(tx) \in Nat /\ Len(tx) >= 1 /\ Len(tx') = Len(tx) - 1
      /\ \A i \in 1 .. (Len(tx) - 1) : tx'[i] = tx[i + 1]
    BY TakenIs
<1>2. 1 \in 1 .. Len(tx)
    BY <1>1
<1>3. e.c \notin {ReadFlux, FluxStatus}
    BY <1>1, <1>2 DEF ReadClear
<1>4. PICK u \in Seq(Nat) : u = Adds(e, ack, p)
    BY Added
<1>5. Clean(s \o u)
    BY <1>3, <1>4, AnswerClean, CleanMore DEF ReadClear
<1>6. ASSUME NEW j \in 1 .. Len(tx') PROVE tx'[j].c \notin {ReadFlux, FluxStatus}
    <2>1. j \in 1 .. (Len(tx) - 1) /\ j + 1 \in 1 .. Len(tx)
        BY <1>1
    <2> QED
        BY <1>1, <2>1 DEF ReadClear
<1> QED
    BY <1>4, <1>5, <1>6 DEF ReadClear

LEMMA WriteClearCommand ==
    ASSUME Base, LastOwn, NEW s \in Seq(Nat), NEW e \in Sent, NEW ack \in Nat, NEW p \in Seq(Nat),
           UNCHANGED host, pc # "idle", mode = "command",
           Taken(e), Says(e, ack, p), WriteClear(s)
    PROVE  WriteClear(s \o Adds(e, ack, p))'
<1>1. /\ tx[1] = e /\ Len(tx) \in Nat /\ Len(tx) >= 1 /\ Len(tx') = Len(tx) - 1
      /\ \A i \in 1 .. (Len(tx) - 1) : tx'[i] = tx[i + 1]
      /\ tx' \in Seq(Sent)
    BY TakenIs
<1>2. Len(p) \in Nat
    OBVIOUS
<1> DEFINE u == Adds(e, ack, p)
<1>3. u \in Seq(Nat) /\ Len(u) = 2 + Len(p) /\ u[1] = e.c /\ u[2] = ack /\ Len(u) >= 2
    BY <1>2, Added
<1>4. NoPair(u) /\ (EndsInHead(u) => e.c = Head_) /\ (e.c = 0 => u[2] = 0)
    <2>1. pos \in Tracks
        BY DEF Base, Wire
    <2> QED
        BY <2>1, AnswerNoPair, FormedAnswer
<1> HIDE DEF u
<1>5. NoPair(s \o u)
    <2>1. EndsInHead(s) /\ u # <<>> => u[1] # GetPin
        BY <1>1, <1>3 DEF WriteClear
    <2>2. Len(u) >= 2 /\ u[1] = AckOk => u[2] # GetPin
        BY <1>3, <1>4 DEF AckOk, GetPin
    <2> QED
        BY <1>3, <1>4, <2>1, <2>2, NoPairMore DEF WriteClear
<1>6. ASSUME NEW j \in 1 .. (Len(tx') - 1), tx'[j].c = Head_ PROVE tx'[j + 1].c # GetPin
    <2>1. /\ j \in 1 .. (Len(tx) - 1) /\ j + 1 \in 1 .. (Len(tx) - 1)
        BY <1>1
    <2>2. tx'[j] = tx[j + 1] /\ tx'[j + 1] = tx[(j + 1) + 1]
        BY <1>1, <2>1
    <2> QED
        BY <1>6, <2>1, <2>2 DEF WriteClear
<1>7. ASSUME EndsInHead(s \o u)
      PROVE  IF tx' = <<>> THEN pc \in {"oldhead", "head"} ELSE tx'[1].c # GetPin
    <2>1. e.c = Head_
        BY <1>3, <1>4, <1>7, EndMore
    <2>2. CASE tx' = <<>>
        <3>1. Len(tx) = 1
            BY <1>1, <2>2
        <3>2. Code(pc) = Head_
            <4>1. tx # <<>> /\ tx[Len(tx)] = e
                BY <1>1, <3>1 DEF Taken
            <4> QED
                BY <2>1, <4>1 DEF LastOwn
        <3>3. pc \in Labels \cup {"sync"}
            BY DEF Base, Types
        <3> QED
            BY <2>2, <3>2, <3>3 DEF Code, Pinned, Labels, GetInfo, SetBus, Select_, Motor, Seek,
               NoClickStep, Head_, ReadFlux, WriteFlux, GetPin, FluxStatus, FluxData
    <2>3. CASE tx' # <<>>
        <3>1. 1 \in 1 .. (Len(tx) - 1)
            BY <1>1, <2>3
        <3>2. tx'[1] = tx[1 + 1] /\ (tx[1].c = Head_ => tx[1 + 1].c # GetPin)
            BY <1>1, <3>1 DEF WriteClear
        <3> QED
            BY <1>1, <2>1, <2>3, <3>2
    <2> QED
        BY <2>2, <2>3
<1> QED
    BY <1>3, <1>5, <1>6, <1>7 DEF WriteClear, u

LEMMA ClearCommand ==
    ASSUME Base, LastOwn, NEW s \in Seq(Nat), NEW e \in Sent, NEW ack \in Nat, NEW p \in Seq(Nat),
           UNCHANGED host, pc # "idle", mode = "command",
           Taken(e), Says(e, ack, p), Clear(s)
    PROVE  Clear(s \o Adds(e, ack, p))'
<1>1. ReadClear(s) => ReadClear(s \o Adds(e, ack, p))'
    BY ReadClearCommand
<1>2. WriteClear(s) => WriteClear(s \o Adds(e, ack, p))'
    BY WriteClearCommand
<1> QED
    BY <1>1, <1>2 DEF Clear, ReadBound, WriteBound

LEMMA FewerClear ==
    ASSUME Base, NEW s \in Seq(Nat), UNCHANGED host, mode = "data", mode' = "data",
           NEW e \in Sent, Taken(e), Clear(s)
    PROVE  Clear(s)'
<1>1. /\ Len(tx) \in Nat /\ Len(tx) >= 1 /\ Len(tx') = Len(tx) - 1
      /\ \A i \in 1 .. (Len(tx) - 1) : tx'[i] = tx[i + 1]
    BY TakenIs
<1>2. ReadClear(s) => ReadClear(s)'
    <2>1. \A j \in 1 .. (Len(tx) - 1) : j + 1 \in 1 .. Len(tx)
        BY <1>1
    <2> QED
        BY <1>1, <2>1 DEF ReadClear
<1>3. WriteClear(s) => WriteClear(s)'
    <2>1. \A j \in 1 .. (Len(tx') - 1) : j + 1 \in 1 .. (Len(tx) - 1) /\ j \in 1 .. (Len(tx) - 1)
        BY <1>1
    <2> QED
        BY <1>1, <2>1 DEF WriteClear
<1> QED
    BY <1>2, <1>3 DEF Clear, ReadBound, WriteBound

LEMMA SyncClear ==
    ASSUME Base, NEW s \in Seq(Nat), NEW u \in Seq(Nat), Len(u) = 1, u[1] = 0, UNCHANGED host, mode = "data",
           s = <<>> \/ s[Len(s)] = 0, NEW e \in Sent, Taken(e), Clear(s)
    PROVE  Clear(s \o u)'
<1>1. /\ Len(tx) \in Nat /\ Len(tx) >= 1 /\ Len(tx') = Len(tx) - 1
      /\ \A i \in 1 .. (Len(tx) - 1) : tx'[i] = tx[i + 1]
    BY TakenIs
<1>2. Len(u) = 1 /\ u[1] = 0 /\ Clean(u) /\ NoPair(u)
    BY DEF Clean, NoPair, Overflow, FluxStatus
<1>3. ReadClear(s) => ReadClear(s \o u)'
    <2>1. \A j \in 1 .. (Len(tx) - 1) : j + 1 \in 1 .. Len(tx)
        BY <1>1
    <2>2. Clean(s) => Clean(s \o u)
        BY <1>2, CleanMore
    <2> QED
        BY <1>1, <2>1, <2>2 DEF ReadClear
<1>4. WriteClear(s) => WriteClear(s \o u)'
    <2>1. \A j \in 1 .. (Len(tx') - 1) : j + 1 \in 1 .. (Len(tx) - 1) /\ j \in 1 .. (Len(tx) - 1)
        BY <1>1
    <2>2. NoPair(s) => NoPair(s \o u)
        BY <1>2, NoPairMore DEF GetPin
    <2>3. ~EndsInHead(s \o u)
        BY <1>2, EndMore DEF Head_
    <2> QED
        BY <1>1, <2>1, <2>2, <2>3 DEF WriteClear
<1> QED
    BY <1>3, <1>4 DEF Clear, ReadBound, WriteBound

\* The host takes bytes off the line and asks for the operation's next.
LEMMA ClearHost ==
    ASSUME Base, LastOwn, NEW s \in Seq(Nat), NEW n \in 0 .. Len(s), Clear(s), op' = op, mode' = mode,
           \/ tx' = tx /\ pc' = pc
           \/ /\ pc' \in Early /\ Edge(pc, pc')
              /\ \E e \in Sent : tx' = Append(tx, e) /\ e.c = Code(pc')
    PROVE  Clear(After(s, n))'
<1>0. tx \in Seq(Sent) /\ Len(tx) \in Nat
    BY DEF Base, Wire
<1>1. EndsInHead(After(s, n)) => EndsInHead(s)
    BY EndRest
<1>2. CASE tx' = tx /\ pc' = pc
    <2>1. ReadClear(s) => ReadClear(After(s, n))'
        BY <1>2, CleanRest DEF ReadClear
    <2>2. WriteClear(s) => WriteClear(After(s, n))'
        BY <1>1, <1>2, NoPairRest DEF WriteClear
    <2> QED
        BY <2>1, <2>2 DEF Clear, ReadBound, WriteBound
<1>3. ASSUME NEW e \in Sent, tx' = Append(tx, e), e.c = Code(pc'), pc' \in Early, Edge(pc, pc')
      PROVE  Clear(After(s, n))'
    <2>0. tx \in Seq(Sent) /\ e \in Sent /\ tx' = Append(tx, e)
        BY <1>0, <1>3
    <2>1. /\ Len(tx') = Len(tx) + 1 /\ tx'[Len(tx) + 1] = e /\ tx' # <<>>
          /\ \A i \in 1 .. Len(tx) : tx'[i] = tx[i]
        BY <2>0, OneMore
    <2> USE DEF GetInfo, SetBus, Select_, Motor, Seek, NoClickStep, Head_, ReadFlux, WriteFlux,
            GetPin, FluxStatus, FluxData
    <2>2. e.c \notin {ReadFlux, FluxStatus}
        BY <1>3 DEF Code, Early, Pinned
    <2>3. e.c = GetPin => Code(pc) # Head_ /\ pc \notin {"oldhead", "head"}
        BY <1>3 DEF Code, Early, Pinned, Edge
    <2>4. pc # "idle"
        BY <1>3 DEF Edge
    <2>5. ASSUME ReadClear(s) PROVE ReadClear(After(s, n))'
        <3>1. ASSUME NEW j \in 1 .. Len(tx') PROVE tx'[j].c \notin {ReadFlux, FluxStatus}
            <4>1. j \in 1 .. Len(tx) \/ j = Len(tx) + 1
                BY <1>0, <2>1
            <4> QED
                BY <2>1, <2>2, <2>5, <4>1 DEF ReadClear
        <3> QED
            BY <2>5, <3>1, CleanRest DEF ReadClear
    <2>6. ASSUME WriteClear(s) PROVE WriteClear(After(s, n))'
        <3>1. ASSUME NEW j \in 1 .. (Len(tx') - 1), tx'[j].c = Head_ PROVE tx'[j + 1].c # GetPin
            <4>1. CASE j = Len(tx)
                <5>1. j \in 1 .. Len(tx) /\ tx # <<>>
                    BY <1>0, <4>1
                <5>2. tx'[j] = tx[j] /\ tx[Len(tx)].c = Code(pc) /\ tx'[j + 1] = e
                    BY <2>1, <2>4, <4>1, <5>1 DEF LastOwn
                <5> QED
                    BY <2>3, <3>1, <4>1, <5>2
            <4>2. CASE j # Len(tx)
                <5>1. j \in 1 .. Len(tx) /\ j + 1 \in 1 .. Len(tx) /\ j \in 1 .. (Len(tx) - 1)
                    BY <1>0, <2>1, <4>2
                <5> QED
                    BY <2>1, <2>6, <3>1, <5>1 DEF WriteClear
            <4> QED
                BY <4>1, <4>2
        <3>2. ASSUME EndsInHead(After(s, n)), mode = "command" PROVE tx'[1].c # GetPin
            <4>1. CASE tx = <<>>
                <5>1. pc \in {"oldhead", "head"} /\ Len(tx) = 0
                    BY <1>1, <2>6, <3>2, <4>1 DEF WriteClear
                <5> QED
                    BY <2>1, <2>3, <5>1
            <4>2. CASE tx # <<>>
                <5>1. 1 \in 1 .. Len(tx)
                    BY <1>0, <4>2, EmptySeq
                <5> QED
                    BY <1>1, <2>1, <2>6, <3>2, <4>2, <5>1 DEF WriteClear
            <4> QED
                BY <4>1, <4>2
        <3> QED
            BY <2>1, <2>6, <3>1, <3>2, NoPairRest DEF WriteClear
    <2> QED
        BY <2>5, <2>6 DEF Clear, ReadBound, WriteBound
<1> QED
    BY <1>2, <1>3

\* An info that is asked for, on a line that has been read to the end.
LEMMA AskedAnew ==
    ASSUME Base, Base', Order', OutEnds, out' = out, mode' = mode, rx' = <<>>,
           NEW e \in Sent, tx' = Append(tx, e), e.c = GetInfo
    PROVE  (Quiet /\ Sorted)'
<1>1. /\ Len(tx') = Len(tx) + 1 /\ Len(tx) \in Nat /\ tx'[Len(tx) + 1] = e
      /\ Len(tx') <= MaxPending
    BY OneMore DEF Base, Wire
<1>2. Line' = out /\ (mode = "data" => out = <<>>)
    <2>1. out \in Seq(Nat) /\ (mode = "data" => out = <<>>)
        BY DEF Base, Wire
    <2> QED
        BY <2>1, ConcatEmptySeq DEF Line
<1>3. Quiet'
    BY <1>2 DEF Quiet, OutEnds
<1>4. ASSUME NEW i \in 1 .. Len(tx'), tx'[i].c = GetInfo, NEW j \in (i + 1) .. Len(tx')
      PROVE  /\ ReadBound => tx'[j].c \notin {ReadFlux, FluxStatus}
             /\ WriteBound => tx'[j].c # GetPin \/ tx'[j - 1].c # Head_
    <2>1. /\ tx'[j].c \in {ReadFlux, FluxStatus} => j - i >= 4
          /\ tx'[j].c = GetPin /\ tx'[j - 1].c = Head_ => j - i >= 5
        BY <1>4 DEF Order, Apart
    <2>2. j = Len(tx') => tx'[j].c = GetInfo
        BY <1>1
    <2>3. ReadBound /\ j - i >= 4 => j = Len(tx')
        BY <1>1, GwConstants DEF ReadBound
    <2>4. WriteBound /\ j - i >= 5 => j = Len(tx')
        BY <1>1, GwConstants DEF WriteBound
    <2> QED
        BY <2>1, <2>2, <2>3, <2>4 DEF GetInfo, ReadFlux, FluxStatus, GetPin
<1>5. Sorted'
    BY <1>4 DEF Sorted, ReadBound, WriteBound
<1> QED
    BY <1>3, <1>5

LEMMA FewOrMore == \A n \in Nat : n = 0 \/ n = 1 \/ n >= 2
OBVIOUS

\* An info behind at most one byte: what is behind the first two.
LEMMA InfoBehind ==
    ASSUME NEW s \in Seq(Nat), NEW u \in Seq(Nat), Len(s) \in {0, 1}, Len(u) >= 2, u[2] = 0,
           \A i \in 3 .. Len(u) : u[i] = InfoByte
    PROVE  Clean(After(s \o u, 2)) /\ NoPair(After(s \o u, 2)) /\ ~EndsInHead(After(s \o u, 2))
<1>1. /\ s \o u \in Seq(Nat) /\ Len(s \o u) = Len(s) + Len(u) /\ Len(s) \in Nat /\ Len(u) \in Nat
      /\ \A i \in 1 .. Len(u) : (s \o u)[Len(s) + i] = u[i]
    BY Extended
<1>2. PICK w \in Seq(Nat) : w = s \o u
    BY <1>1
<1> DEFINE a == After(w, 2)
<1>3. /\ a \in Seq(Nat) /\ Len(a) = Len(w) - 2
      /\ \A i \in 1 .. (Len(w) - 2) : a[i] = w[2 + i]
    <2>1. 2 \in 0 .. Len(w)
        BY <1>1, <1>2
    <2> QED
        BY <2>1, LeftBehind
<1> HIDE DEF a
<1>4. /\ Len(w) = Len(s) + Len(u) /\ \A i \in 1 .. Len(u) : w[Len(s) + i] = u[i]
    BY <1>1, <1>2
<1>5. Len(s) = 0 \/ Len(s) = 1
    OBVIOUS
<1>6. ASSUME NEW i \in 1 .. Len(a) PROVE a[i] \in {0, InfoByte}
    <2>1. i \in 1 .. (Len(w) - 2) /\ a[i] = w[2 + i]
        BY <1>3
    <2>2. CASE Len(s) = 0
        <3>1. 2 + i \in 3 .. Len(u) /\ 2 + i \in 1 .. Len(u) /\ Len(s) + (2 + i) = 2 + i
            BY <1>1, <1>4, <2>1, <2>2
        <3> QED
            BY <1>4, <2>1, <3>1
    <2>3. CASE Len(s) = 1
        <3>1. 1 + i \in 2 .. Len(u) /\ 1 + i \in 1 .. Len(u) /\ Len(s) + (1 + i) = 2 + i
            BY <1>1, <1>4, <2>1, <2>3
        <3>2. a[i] = u[1 + i] /\ (1 + i = 2 \/ 1 + i \in 3 .. Len(u))
            BY <1>4, <2>1, <3>1
        <3> QED
            BY <3>1, <3>2
    <2> QED
        BY <1>5, <2>2, <2>3
<1>7. Len(a) \in Nat
    BY <1>3
<1>8. Clean(a)
    <2>1. ASSUME NEW i \in 1 .. Len(a) PROVE a[i] < 200 /\ a[i] \notin {Overflow, FluxStatus}
        <3>1. a[i] = 0 \/ a[i] = 100
            BY <1>6 DEF InfoByte
        <3> QED
            BY <3>1, SMTT(20) DEF Overflow, FluxStatus
    <2> QED
        BY <2>1 DEF Clean
<1>9. NoPair(a)
    <2>1. \A i \in 1 .. (Len(a) - 2) : i \in 1 .. Len(a)
        BY <1>7
    <2>2. ASSUME NEW i \in 1 .. (Len(a) - 2) PROVE a[i] # Head_
        <3>1. a[i] = 0 \/ a[i] = 100
            BY <1>6, <2>1 DEF InfoByte
        <3> QED
            BY <3>1 DEF Head_
    <2> QED
        BY <2>2 DEF NoPair
<1>10. ~EndsInHead(a)
    <2>1. Len(a) >= 2 => Len(a) - 1 \in 1 .. Len(a)
        BY <1>7
    <2>2. ASSUME Len(a) >= 2 PROVE a[Len(a) - 1] # Head_
        <3>1. a[Len(a) - 1] = 0 \/ a[Len(a) - 1] = 100
            BY <1>6, <2>1, <2>2 DEF InfoByte
        <3> QED
            BY <3>1 DEF Head_
    <2> QED
        BY <2>2 DEF EndsInHead
<1> QED
    BY <1>2, <1>8, <1>9, <1>10 DEF a

\* An answer to a command that is not the info the host waits for.
LEMMA InfoCommand ==
    ASSUME Base, Order, DeviceCommand, pc = "info", Quiet, Sorted
    PROVE  (Doomed \/ Cleared)'
<1>1. /\ UNCHANGED host /\ mode = "command" /\ tx # <<>> /\ out = <<>> /\ tx' = Tail(tx)
      /\ Line = rx
    BY Executes DEF Base
<1>2. PICK e \in Sent, ack \in Nat, p \in Seq(Nat) :
          /\ e = Head(tx) /\ Says(e, ack, p) /\ rx' = rx \o <<e.c, ack>> /\ out' = p
    BY Executes DEF Base
<1>3. Taken(e)
    BY <1>1, <1>2 DEF Taken
<1>4. /\ Len(rx') = Len(rx) + 2 /\ rx'[Len(rx) + 1] = e.c /\ rx'[Len(rx) + 2] = ack
      /\ \A i \in 1 .. Len(rx) : rx'[i] = rx[i]
      /\ Line' = Line \o Adds(e, ack, p) /\ Line' \in Seq(Nat)
    BY <1>1, <1>2, LineAfterCommand DEF Base
<1>5. rx \in Seq(Nat) /\ Len(rx) \in Nat
    BY DEF Base, Wire
<1>6. \A i \in 1 .. (Len(rx) - 1) : rx[i] # 0
    BY <1>1 DEF Quiet
<1>10. Len(rx) = 0 \/ Len(rx) = 1 \/ Len(rx) >= 2
    BY <1>5, FewOrMore, Zenon
<1>11. e.c \in Nat
    BY Added
<1>7. CASE Len(rx) >= 2
    <2>1. 1 \in 1 .. (Len(rx) - 1) /\ 1 \in 1 .. Len(rx) /\ Len(rx') >= 2
        BY <1>4, <1>5, <1>7
    <2> QED
        BY <1>4, <1>6, <2>1 DEF Doomed
<1>8. CASE e.c # GetInfo /\ (Len(rx) = 0 \/ Len(rx) = 1)
    <2>1. CASE Len(rx) = 0
        <3>1. Len(rx') >= 2 /\ rx'[1] = e.c
            BY <1>4, <2>1
        <3> QED
            BY <1>8, <3>1 DEF Doomed, GetInfo
    <2>2. CASE Len(rx) = 1
        <3>1. Len(rx') >= 2 /\ rx'[2] = e.c
            BY <1>4, <2>2
        <3> QED
            BY <1>8, <3>1 DEF Doomed, GetInfo
    <2> QED
        BY <1>8, <2>1, <2>2
<1>9. CASE e.c = GetInfo /\ (Len(rx) = 0 \/ Len(rx) = 1)
    <2>1. ack = 0 /\ \A i \in 1 .. Len(p) : p[i] = InfoByte
        BY <1>2, <1>9 DEF Says, AckOk
    <2> DEFINE u == Adds(e, ack, p)
    <2>2. u \in Seq(Nat) /\ Len(u) = 2 + Len(p) /\ u[1] = e.c /\ u[2] = ack
          /\ \A i \in 1 .. Len(p) : u[2 + i] = p[i]
        BY Added, ZenonT(30)
    <2>3. Line' = rx \o u
        BY <1>1, <1>4
    <2> HIDE DEF u
    <2>4. Len(rx') >= 2
        BY <1>4, <1>5
    <2>5. CASE rx'[1] # 0 \/ rx'[2] # 0
        BY <2>4, <2>5 DEF Doomed
    <2>6. CASE rx'[1] = 0 /\ rx'[2] = 0
        <3>1. Len(p) \in Nat
            OBVIOUS
        <3>2. ASSUME NEW i \in 3 .. Len(u) PROVE u[i] = InfoByte
            <4>1. i - 2 \in 1 .. Len(p) /\ 2 + (i - 2) = i
                BY <2>2, <3>1
            <4>2. u[i] = p[i - 2]
                BY <2>2, <4>1
            <4> QED
                BY <2>1, <4>1, <4>2
        <3> DEFINE a == After(rx \o u, 2)
        <3>3. Clean(a) /\ NoPair(a) /\ ~EndsInHead(a)
            <4>1. PICK r \in Seq(Nat) : r = rx
                BY <1>5
            <4>2. Len(r) \in {0, 1} /\ Len(u) >= 2 /\ u[2] = 0
                BY <1>9, <2>1, <2>2, <3>1, <4>1
            <4> QED
                BY <2>2, <3>2, <4>1, <4>2, InfoBehind
        <3>4. PICK b : b = a
            OBVIOUS
        <3> HIDE DEF a
        <3>6. /\ tx[1] = e /\ Len(tx) \in Nat /\ Len(tx) >= 1 /\ Len(tx') = Len(tx) - 1
              /\ \A i \in 1 .. (Len(tx) - 1) : tx'[i] = tx[i + 1]
            BY <1>3, TakenIs
        <3>7. \A j \in 2 .. Len(tx) :
                  /\ op.kind = "read" /\ ReadBound => tx[j].c \notin {ReadFlux, FluxStatus}
                  /\ op.kind = "write" /\ WriteBound => tx[j].c # GetPin \/ tx[j - 1].c # Head_
            <4>1. 1 \in 1 .. Len(tx) /\ tx[1].c = GetInfo /\ 1 + 1 = 2
                BY <1>9, <3>6
            <4> QED
                BY <4>1 DEF Sorted
        <3>8. ASSUME op.kind = "read", ReadBound PROVE ReadClear(b)'
            <4>1. \A j \in 1 .. Len(tx') : j \in 1 .. (Len(tx) - 1) /\ j + 1 \in 2 .. Len(tx)
                BY <3>6
            <4>2. \A j \in 1 .. Len(tx') : tx'[j].c \notin {ReadFlux, FluxStatus}
                BY <3>6, <3>7, <3>8, <4>1
            <4> QED
                BY <3>3, <3>4, <4>2 DEF ReadClear
        <3>9. ASSUME op.kind = "write", WriteBound PROVE WriteClear(b)'
            <4>1. ASSUME NEW j \in 1 .. (Len(tx') - 1), tx'[j].c = Head_ PROVE tx'[j + 1].c # GetPin
                <5>1. j \in 1 .. (Len(tx) - 1) /\ j + 1 \in 1 .. (Len(tx) - 1)
                      /\ (j + 1) + 1 \in 2 .. Len(tx) /\ ((j + 1) + 1) - 1 = j + 1
                    BY <3>6
                <5>2. tx'[j] = tx[j + 1] /\ tx'[j + 1] = tx[(j + 1) + 1]
                    BY <3>6, <5>1
                <5>3. tx[(j + 1) + 1].c # GetPin \/ tx[((j + 1) + 1) - 1].c # Head_
                    BY <3>7, <3>9, <5>1
                <5> QED
                    BY <4>1, <5>1, <5>2, <5>3
            <4> QED
                BY <3>3, <3>4, <4>1 DEF WriteClear
        <3>10. Clear(b)'
            BY <1>1, <3>8, <3>9 DEF Clear, ReadBound, WriteBound
        <3>11. After(Line, 2)' = b
            BY <2>3, <3>4 DEF a, After
        <3>12. Clear(After(Line, 2))'
            BY <3>10, <3>11 DEF Clear, ReadClear, WriteClear
        <3> QED
            BY <2>4, <2>6, <3>12 DEF Cleared
    <2> QED
        BY <2>5, <2>6
<1> QED
    BY <1>7, <1>8, <1>9, <1>10

LEMMA SameClear ==
    ASSUME NEW s, Clear(s), UNCHANGED <<op, tx, mode, pc>> PROVE Clear(s)'
BY DEF Clear, ReadClear, WriteClear, ReadBound, WriteBound

\* A host that comes back to an info has read all there was.
LEMMA InfoAsked ==
    ASSUME Base, Host, pc' = "info", step' = "wait"
    PROVE  rx' = <<>> /\ \E e \in Sent : tx' = Append(tx, e) /\ e.c = GetInfo
<1>1. /\ GoTo("info") /\ pc = "info"
    <2>1. \A l \in Labels : Edge(pc, l) /\ GoTo(l) => l = "info" /\ pc = "info"
        BY DEF GoTo, Edge
    <2> QED
        BY <2>1, HostMoves DEF Base, Finish, ReadRest, Stays, WriteData
<1>2. rx' = <<>>
    <2>1. CASE Header
        BY <2>1 DEF Header, Unread, Resends
    <2>2. CASE HeaderLate
        BY <2>2 DEF HeaderLate
    <2>3. CASE InfoRest
        <3>1. Ready(up) # "info"
            BY ReadyIs DEF Base, Types
        <3> QED
            BY <2>3, <3>1 DEF InfoRest, GoTo
    <2> QED
        BY <1>1, <2>1, <2>2, <2>3 DEF Host, PinRest, FluxRest, WriteData, SyncByte
<1>3. PICK e \in Sent : e = [c |-> GetInfo, arg |-> 0]
    BY DEF Sent, GetInfo, Seek, Head_
<1>4. Sends("info", op) = e
    BY <1>3, SendsIs DEF Base, Types
<1>5. e.c = GetInfo /\ tx' = Append(tx, e)
    <2>1. tx' = Append(tx, Sends("info", op))
        BY <1>1 DEF GoTo, Write
    <2> QED
        BY <1>3, <1>4, <2>1
<1> QED
    BY <1>2, <1>5

LEMMA HostSettled ==
    ASSUME Base, Base', Order, Order', Settled, Host PROVE Settled'
<1>1. /\ op' = op /\ UNCHANGED device /\ Line \in Seq(Nat)
    BY HostMoves, HostTakes DEF Base
<1>2. PICK n \in 0 .. Len(Line) : Line' = After(Line, n)
    BY HostTakes DEF Base
<1>3. InfoOk'
    <2> SUFFICES ASSUME pc' = "info", step' = "wait" PROVE (Quiet /\ Sorted)'
        BY DEF InfoOk
    <2> QED
        BY <1>1, InfoAsked, AskedAnew DEF Settled
<1>4. ASSUME pc' = "info", step' = "rest" PROVE Clear(Line)'
    <2>1. ReadRest /\ step = "wait" /\ pc = "info"
        <3>1. \A l : ~GoTo(l) /\ ~Finish(l)
            BY <1>4 DEF GoTo, Finish
        <3> QED
            BY <1>4, <3>1, HostMoves DEF Base, Stays, WriteData, ReadRest
    <2>2. Header
        <3>1. ~HeaderLate
            <4>1. HeaderLate => InfoAnswer(Late)
                BY <2>1, AnswerAt DEF HeaderLate
            <4> QED
                BY <1>4, <4>1 DEF InfoAnswer, Late, AckOk, InfoAgain, Again, GoTo, Finish
        <3> QED
            BY <2>1, <3>1 DEF Host, InfoRest, PinRest, FluxRest, WriteData, SyncByte
    <2>3. PICK r : r = Outcome
        OBVIOUS
    <2>4. r = AckOk
        <3>1. InfoAnswer(r)
            BY <2>1, <2>2, <2>3, AnswerAt, HeaderIs
        <3> QED
            BY <1>4, <3>1 DEF InfoAnswer, InfoAgain, Again, GoTo, Finish
    <2>5. /\ Line' = After(Line, 2) /\ Len(Line) >= 2 /\ Len(Line) \in Nat
          /\ Line[1] = 0 /\ Line[2] = 0 /\ rx[1] = 0 /\ rx[2] = 0
        <3>1. ~Resends
            BY <1>4 DEF Resends
        <3>2. /\ Line' = After(Line, 2) /\ Len(Line) >= 2 /\ Len(Line) \in Nat
              /\ rx[1] = Line[1] /\ rx[2] = Line[2] /\ Outcome = IF rx[1] # Code("info") THEN Mismatch ELSE rx[2]
            BY <2>1, <2>2, <3>1, HeaderIs
        <3>3. Code("info") = 0
            BY DEF Code, GetInfo, Pinned
        <3>4. PICK a, b : a = rx[1] /\ b = rx[2]
            OBVIOUS
        <3>5. r = IF a # 0 THEN Mismatch ELSE b
            BY <2>3, <3>2, <3>3, <3>4
        <3>6. a = 0 /\ b = 0
            BY <2>4, <3>5 DEF Mismatch, AckOk
        <3> QED
            BY <3>2, <3>4, <3>6
    <2>6. ~Quiet
        <3>1. 1 \in 1 .. (Len(Line) - 1)
            BY <2>5
        <3> QED
            BY <2>5, <3>1 DEF Quiet
    <2>7. Clear(After(Line, 2))
        BY <2>1, <2>5, <2>6 DEF Settled, InfoOk, Doomed, Cleared
    <2>8. PICK s : s = After(Line, 2)
        OBVIOUS
    <2>9. Clear(s)'
        BY <1>1, <2>1, <2>7, <2>8, SameClear DEF ReadRest
    <2> QED
        BY <2>5, <2>8, <2>9 DEF Clear, ReadClear, WriteClear
<1>5. ASSUME pc' \in Early PROVE Clear(Line)'
    <2>1. \/ tx' = tx /\ pc' = pc
          \/ /\ Edge(pc, pc')
             /\ \E e \in Sent : tx' = Append(tx, e) /\ e.c = Code(pc')
        BY <1>5, HostAsks DEF Early
    <2>2. Clear(Line)
        <3>1. CASE pc \in Early
            BY <3>1 DEF Settled, ClearOk
        <3>2. CASE pc \notin Early
            <4>1. pc = "info"
                BY <1>5, <2>1, <3>2 DEF Early, Edge
            <4>2. step = "rest"
                <5>1. ASSUME NEW r, Answer(r) PROVE FALSE
                    <6>1. InfoAnswer(r)
                        BY <4>1, <5>1, AnswerAt
                    <6> QED
                        BY <1>5, <4>1, <6>1
                           DEF InfoAnswer, InfoAgain, Again, GoTo, Finish, ReadRest, Early
                <5> QED
                    BY <4>1, <5>1
                       DEF Host, Header, HeaderLate, InfoRest, PinRest, FluxRest, WriteData,
                       SyncByte
            <4> QED
                BY <4>1, <4>2 DEF Settled, ClearOk
        <3> QED
            BY <3>1, <3>2
    <2>3. PICK s \in Seq(Nat) : s = Line
        BY <1>1
    <2>4. Clear(After(s, n))'
        BY <1>1, <1>5, <2>1, <2>2, <2>3, ClearHost DEF Order
    <2>5. PICK b : b = After(s, n)
        OBVIOUS
    <2>6. Clear(b)' /\ Line' = b
        BY <1>2, <2>3, <2>4, <2>5
    <2> QED
        BY <2>6 DEF Clear, ReadClear, WriteClear
<1> QED
    BY <1>1, <1>3, <1>4, <1>5 DEF Settled, OutEnds, ClearOk

LEMMA DeviceSettled ==
    ASSUME Base, Order, Settled, Device PROVE Settled'
<1>1. Line \in Seq(Nat) /\ rx \in Seq(Nat) /\ out \in Seq(Nat) /\ Line = rx \o out
      /\ Len(rx) \in Nat /\ Len(Line) >= Len(rx)
    <2>1. rx \in Seq(Nat) /\ out \in Seq(Nat)
        BY DEF Base, Wire
    <2> QED
        BY <2>1, Extended DEF Line
<1>2. CASE DeviceCommand
    <2>1. /\ UNCHANGED host /\ mode = "command" /\ tx # <<>> /\ out = <<>> /\ tx' = Tail(tx)
          /\ Line = rx
        BY <1>2, Executes DEF Base
    <2>2. PICK e \in Sent, ack \in Nat, p \in Seq(Nat) :
              /\ e = Head(tx) /\ Says(e, ack, p) /\ rx' = rx \o <<e.c, ack>> /\ out' = p
        BY <1>2, Executes DEF Base
    <2>3. Taken(e)
        BY <2>1, <2>2 DEF Taken
    <2>4. /\ Len(rx') = Len(rx) + 2 /\ \A i \in 1 .. Len(rx) : rx'[i] = rx[i]
          /\ Line' = Line \o Adds(e, ack, p)
        BY <2>1, <2>2, LineAfterCommand DEF Base
    <2>5. OutEnds'
        <3>1. FluxByte(pos) >= 200
            BY FluxIs DEF Base, Wire
        <3>2. ASSUME NEW i \in 1 .. (Len(p) - 1) PROVE p[i] # 0
            <4>0. Len(p) \in Nat
                OBVIOUS
            <4>1. i \in 1 .. Len(p) /\ i # Len(p)
                BY <4>0
            <4>5. ~(Len(p) = 1)
                <5>1. \A n \in Nat : i \in 1 .. (n - 1) => n # 1
                    OBVIOUS
                <5> QED
                    BY <4>0, <5>1, Zenon
            <4>2. ack = AckOk /\ e.c \in {GetInfo, GetPin, ReadFlux} /\ e.c # GetPin
                BY <2>2, <4>1, <4>5, PayloadBytes
            <4>3. CASE e.c = GetInfo
                BY <2>2, <4>1, <4>3 DEF Says, InfoByte
            <4>4. CASE e.c = ReadFlux
                BY <2>2, <3>1, <4>1, <4>4, PayloadBytes, SMTT(20)
            <4> QED
                BY <4>2, <4>3, <4>4
        <3> QED
            BY <2>2, <3>2 DEF OutEnds
    <2>6. PICK u \in Seq(Nat) : u = Adds(e, ack, p)
        BY <2>2, Added
    <2>7. ASSUME NEW s \in Seq(Nat), Clear(s), pc # "idle" PROVE Clear(s \o u)'
        BY <2>1, <2>2, <2>3, <2>6, <2>7, ClearCommand DEF Order
    <2>8. InfoOk'
        <3> SUFFICES ASSUME pc = "info", step = "wait" PROVE (Doomed \/ Cleared)'
            BY <2>1 DEF InfoOk
        <3>1. CASE Quiet /\ Sorted
            BY <1>2, <3>1, InfoCommand
        <3>2. CASE Doomed
            <4>1. 1 \in 1 .. Len(rx) /\ 2 \in 1 .. Len(rx) /\ Len(rx') >= 2
                BY <1>1, <2>4, <3>2 DEF Doomed
            <4> QED
                BY <2>4, <3>2, <4>1 DEF Doomed
        <3>3. CASE Cleared
            <4>1. 1 \in 1 .. Len(rx) /\ 2 \in 1 .. Len(rx) /\ Len(rx') >= 2 /\ 2 \in Nat /\ 2 <= Len(Line)
                BY <1>1, <2>4, <3>3 DEF Cleared
            <4>2. After(Line, 2) \in Seq(Nat) /\ After(Line, 2) \o u = After(Line \o u, 2)
                BY <1>1, <4>1, AfterIs, ZenonT(30)
            <4>3. PICK s \in Seq(Nat) : s = After(Line, 2)
                BY <4>2
            <4>4. Clear(s \o u)' /\ After(Line, 2)' = s \o u
                BY <2>4, <2>6, <2>7, <3>3, <4>2, <4>3 DEF Cleared
            <4>5. Clear(After(Line, 2))'
                <5>1. PICK b : b = s \o u
                    OBVIOUS
                <5>2. Clear(b)' /\ After(Line, 2)' = b
                    BY <4>4, <5>1
                <5> QED
                    BY <5>2 DEF Clear, ReadClear, WriteClear
            <4> QED
                BY <2>4, <3>3, <4>1, <4>5 DEF Cleared
        <3> QED
            BY <3>1, <3>2, <3>3 DEF Settled, InfoOk
    <2>9. ClearOk'
        <3> SUFFICES ASSUME pc \in Early \/ (pc = "info" /\ step = "rest") PROVE Clear(Line)'
            BY <2>1 DEF ClearOk
        <3>1. Clear(Line) /\ pc # "idle"
            BY DEF Settled, ClearOk, Early
        <3>2. PICK s \in Seq(Nat) : s = Line
            BY <1>1
        <3>3. PICK b : b = s \o u
            OBVIOUS
        <3>4. Clear(b)' /\ Line' = b
            BY <2>4, <2>6, <2>7, <3>1, <3>2, <3>3
        <3> QED
            BY <3>4 DEF Clear, ReadClear, WriteClear
    <2> QED
        BY <2>5, <2>8, <2>9 DEF Settled
<1>3. CASE DeviceData
    <2>1. /\ UNCHANGED <<host, rx, pos, trk0, wpt>> /\ mode = "data" /\ tx # <<>> /\ out = <<>>
          /\ tx' = Tail(tx) /\ Line = rx
          /\ \/ UNCHANGED <<out, mode>> /\ Line' = Line
             \/ out' = <<0>> /\ mode' = "command" /\ Line' = Line \o <<0>>
        BY <1>3, DataEnds DEF Base
    <2>2. PICK e : e = Head(tx)
        OBVIOUS
    <2>3. e \in Sent /\ Taken(e)
        BY <2>1, <2>2, OneLess DEF Base, Wire, Taken
    <2>4. OutEnds'
        <3>1. \A i \in 1 .. (Len(<<0>>) - 1) : FALSE
            OBVIOUS
        <3>2. CASE out' = out
            BY <3>2 DEF Settled, OutEnds
        <3>3. CASE out' = <<0>>
            BY <3>1, <3>3 DEF OutEnds
        <3> QED
            BY <2>1, <3>2, <3>3
    <2>5. PICK u \in Seq(Nat) : u = <<0>>
        <3>1. <<0>> \in Seq(Nat)
            OBVIOUS
        <3> QED
            BY <3>1
    <2>6. Len(u) = 1 /\ u[1] = 0
        BY <2>5
    <2>7. ASSUME NEW s \in Seq(Nat), Clear(s), s = <<>> \/ s[Len(s)] = 0
          PROVE  /\ mode' = "data" => Clear(s)'
                 /\ Clear(s \o u)'
        <3>1. mode' = "data" => Clear(s)'
            BY <2>1, <2>3, <2>7, FewerClear
        <3>2. Clear(s \o u)'
            BY <2>1, <2>3, <2>6, <2>7, SyncClear
        <3> QED
            BY <3>1, <3>2
    <2>8. Line = <<>> \/ Line[Len(Line)] = 0
        BY <2>1 DEF Order, DataEnd
    <2>9. InfoOk'
        <3> SUFFICES ASSUME pc = "info", step = "wait"
                     PROVE  (Quiet /\ Sorted)' \/ (Doomed \/ Cleared)'
            BY <2>1 DEF InfoOk
        <3>1. CASE Quiet /\ Sorted
            <4>1. Line = <<>>
                BY <2>1, <3>1 DEF Quiet
            <4>2. Quiet'
                <5>1. CASE Line' = Line /\ UNCHANGED mode
                    BY <3>1, <5>1 DEF Quiet
                <5>2. CASE mode' = "command" /\ Line' = Line \o <<0>>
                    <6>1. Line' = u
                        BY <2>5, <4>1, <5>2, ConcatEmptySeq
                    <6>2. \A i \in 1 .. (Len(u) - 1) : FALSE
                        BY <2>6
                    <6> QED
                        BY <5>2, <6>1, <6>2 DEF Quiet
                <5> QED
                    BY <2>1, <5>1, <5>2
            <4>3. Sorted'
                <5>1. /\ Len(tx) \in Nat /\ Len(tx) >= 1 /\ Len(tx') = Len(tx) - 1
                      /\ \A i \in 1 .. (Len(tx) - 1) : tx'[i] = tx[i + 1]
                    BY <2>3, TakenIs
                <5>2. ASSUME NEW i \in 1 .. Len(tx'), tx'[i].c = GetInfo,
                             NEW j \in (i + 1) .. Len(tx')
                      PROVE  /\ op.kind = "read" /\ ReadBound => tx'[j].c \notin {ReadFlux, FluxStatus}
                             /\ op.kind = "write" /\ WriteBound =>
                                    tx'[j].c # GetPin \/ tx'[j - 1].c # Head_
                    <6>1. /\ i + 1 \in 1 .. Len(tx) /\ i \in 1 .. (Len(tx) - 1)
                          /\ j \in 1 .. (Len(tx) - 1) /\ j - 1 \in 1 .. (Len(tx) - 1)
                          /\ j + 1 \in ((i + 1) + 1) .. Len(tx) /\ (j - 1) + 1 = j
                          /\ (j + 1) - 1 = j
                        BY <5>1
                    <6>2. tx'[i] = tx[i + 1] /\ tx'[j] = tx[j + 1] /\ tx'[j - 1] = tx[(j - 1) + 1]
                        BY <5>1, <6>1
                    <6> QED
                        BY <3>1, <5>2, <6>1, <6>2 DEF Sorted
                <5> QED
                    BY <2>1, <5>2 DEF Sorted, ReadBound, WriteBound
            <4> QED
                BY <4>2, <4>3
        <3>2. CASE Doomed
            BY <2>1, <3>2 DEF Doomed
        <3>3. CASE Cleared
            <4>1. 2 \in 0 .. Len(Line) /\ 2 \in Nat /\ 2 <= Len(Line)
                BY <1>1, <3>3 DEF Cleared
            <4>2. After(Line, 2) \in Seq(Nat) /\ After(Line, 2) \o u = After(Line \o u, 2)
                BY <1>1, <4>1, AfterIs, ZenonT(30)
            <4>3. After(Line, 2) = <<>> \/ After(Line, 2)[Len(After(Line, 2))] = 0
                <5>1. Line # <<>>
                    BY <1>1, <4>1
                <5> QED
                    BY <1>1, <2>8, <4>1, <5>1, LastOfRest
            <4>4. PICK s \in Seq(Nat) : s = After(Line, 2)
                BY <4>2
            <4>5. PICK b : Clear(b)' /\ After(Line, 2)' = b
                <5>1. (mode' = "data" => Clear(s)') /\ Clear(s \o u)'
                    BY <2>7, <3>3, <4>3, <4>4 DEF Cleared
                <5>2. CASE mode' = "data" /\ Line' = Line
                    BY <4>4, <5>1, <5>2
                <5>3. CASE Line' = Line \o u
                    BY <4>2, <4>4, <5>1, <5>3
                <5> QED
                    BY <2>1, <2>5, <5>2, <5>3
            <4> QED
                BY <2>1, <3>3, <4>5 DEF Cleared, Clear, ReadClear, WriteClear
        <3> QED
            BY <3>1, <3>2, <3>3 DEF Settled, InfoOk
    <2>10. ClearOk'
        <3> SUFFICES ASSUME pc \in Early \/ (pc = "info" /\ step = "rest") PROVE Clear(Line)'
            BY <2>1 DEF ClearOk
        <3>1. PICK s \in Seq(Nat) : s = Line
            BY <1>1
        <3>2. (mode' = "data" => Clear(s)') /\ Clear(s \o u)'
            BY <2>7, <2>8, <3>1 DEF Settled, ClearOk
        <3>3. PICK b : Clear(b)' /\ Line' = b
            <4>1. CASE mode' = "data" /\ Line' = Line
                BY <3>1, <3>2, <4>1
            <4>2. CASE Line' = Line \o u
                BY <3>1, <3>2, <4>2
            <4> QED
                BY <2>1, <2>5, <4>1, <4>2
        <3> QED
            BY <3>3 DEF Clear, ReadClear, WriteClear
    <2> QED
        BY <2>4, <2>9, <2>10 DEF Settled
<1>4. CASE DeviceSends
    <2>1. /\ UNCHANGED <<host, tx, mode>> /\ Line' = Line
          /\ Len(rx') >= Len(rx) /\ \A i \in 1 .. Len(rx) : rx'[i] = rx[i]
          /\ rx' \in Seq(Nat)
        BY <1>4, SendsOn DEF Carry, Base
    <2>2. OutEnds'
        <3>1. out # <<>> /\ out' = Tail(out)
            BY <1>4 DEF DeviceSends
        <3>2. /\ Len(Tail(out)) = Len(out) - 1 /\ Len(out) \in Nat
              /\ \A i \in 1 .. (Len(out) - 1) : Tail(out)[i] = out[i + 1]
            BY <1>1, <3>1, OneLess
        <3>3. ASSUME NEW i \in 1 .. (Len(Tail(out)) - 1) PROVE Tail(out)[i] # 0
            <4>1. i \in 1 .. (Len(out) - 1) /\ i + 1 \in 1 .. (Len(out) - 1)
                BY <3>2
            <4> QED
                BY <3>2, <4>1 DEF Settled, OutEnds
        <3> QED
            BY <3>1, <3>3 DEF OutEnds
    <2>3. PICK s \in Seq(Nat) : s = Line
        BY <1>1
    <2>4. Clear(s) => Clear(s)'
        BY <2>1, SameClear
    <2>5. Clear(Line) => Clear(Line)'
        BY <2>1, <2>3, <2>4 DEF Clear, ReadClear, WriteClear
    <2>6. Clear(After(Line, 2)) => Clear(After(Line, 2))'
        <3>1. PICK b : b = After(Line, 2)
            OBVIOUS
        <3>2. Clear(b) => Clear(b)'
            BY <2>1, SameClear
        <3>3. After(Line, 2)' = b
            BY <2>1, <3>1
        <3> QED
            BY <3>1, <3>2, <3>3 DEF Clear, ReadClear, WriteClear
    <2>7. Len(rx) >= 2 => 1 \in 1 .. Len(rx) /\ 2 \in 1 .. Len(rx) /\ Len(rx') >= 2
        <3>1. Len(rx') \in Nat
            BY <2>1
        <3> QED
            BY <1>1, <2>1, <3>1
    <2>8. InfoOk'
        <3>1. Doomed => Doomed'
            BY <2>1, <2>7 DEF Doomed
        <3>2. Cleared => Cleared'
            BY <2>1, <2>6, <2>7 DEF Cleared
        <3>3. Quiet /\ Sorted => (Quiet /\ Sorted)'
            BY <2>1 DEF Quiet, Sorted, ReadBound, WriteBound
        <3> QED
            BY <2>1, <3>1, <3>2, <3>3 DEF Settled, InfoOk
    <2> QED
        BY <2>1, <2>2, <2>5, <2>8 DEF Settled, ClearOk
<1> QED
    BY <1>2, <1>3, <1>4 DEF Device

LEMMA BeginSettled ==
    ASSUME Base, Base', Order', Settled, NEW k \in Kinds, NEW t \in Targets, Begin(k, t)
    PROVE  Settled'
<1>1. PICK e \in Sent : e = [c |-> GetInfo, arg |-> 0]
    BY DEF Sent, GetInfo, Seek, Head_
<1>2. tx' = Append(tx, e) /\ rx' = <<>> /\ UNCHANGED <<out, mode>> /\ pc' = "info" /\ step' = "wait"
    BY <1>1, SendsIs DEF Begin, Write, Base, Types
<1>3. (Quiet /\ Sorted)'
    BY <1>1, <1>2, AskedAnew DEF Settled
<1> QED
    BY <1>2, <1>3 DEF Settled, OutEnds, InfoOk, ClearOk, Early

LEMMA InitSettled == Init => Settled
<1>1. Len(<<>>) = 0
    OBVIOUS
<1> QED
    BY <1>1 DEF Init, Settled, OutEnds, InfoOk, ClearOk, Early

LEMMA StutterSettled == ASSUME Settled, UNCHANGED vars PROVE Settled'
<1>1. Line' = Line
    BY DEF Line
<1>2. \A s : Clear(s)' <=> Clear(s)
    BY DEF Clear, ReadClear, WriteClear, ReadBound, WriteBound
<1>3. Quiet' <=> Quiet
    BY <1>1 DEF Quiet
<1>4. Clear(Line)' <=> Clear(Line)
    BY <1>1 DEF Clear, ReadClear, WriteClear, ReadBound, WriteBound
<1>5. Clear(After(Line, 2))' <=> Clear(After(Line, 2))
    <2>1. After(Line, 2)' = After(Line, 2)
        BY <1>1
    <2> QED
        BY <2>1 DEF Clear, ReadClear, WriteClear, ReadBound, WriteBound
<1> QED
    BY <1>1, <1>3, <1>4, <1>5 DEF Settled, OutEnds, InfoOk, ClearOk, Sorted, Doomed, Cleared,
       ReadBound, WriteBound

-----------------------------------------------------------------------------
(* From the seek of an operation on: the host is in step with the device,  *)
(* or so far behind it that it stays so to the end of the operation.       *)

Seeking == {"seek", "at0", "click", "at0again", "oldhead", "head", "read", "wptagain"}
LatePins == {"at0", "at0again", "wptagain"}
InReach == (op.kind = "read" => ReadBound) /\ (op.kind = "write" => WriteBound)

Arrived ==
    /\ pc \in {"at0", "click", "at0again", "oldhead", "head"} => pos[1] = op.track[1]
    /\ pc \in {"read", "wptagain"} => pos = op.track
Coming ==
    /\ Len(tx) = 1 /\ Line = <<>>
    /\ pc = "seek" => tx[1].arg = op.track[1]
    /\ pc = "head" => tx[1].arg = op.track[2]
HasCome ==
    /\ tx = <<>> /\ Len(rx) >= 2 /\ Line[1] = Code(pc)
    /\ Line[2] # AckOk => Len(Line) = 2
    /\ Line[2] = AckOk =>
         /\ pc \in LatePins => Len(Line) = 3 /\ (Line[3] = 0 \/ Line[3] = 1)
         /\ pc \notin LatePins \cup {"read"} => Len(Line) = 2
         /\ pc = "seek" => pos[1] = op.track[1]
         /\ pc = "head" => pos = op.track
         /\ pc = "read" => \A i \in 3 .. Len(Line) : Line[i] = 0 \/ Line[i] = FluxByte(op.track)
InStep == mode = "command" /\ Arrived /\ (Coming \/ HasCome)

Lags ==
    \/ mode = "data"
    \/ tx # <<>> /\ (Len(tx) >= 2 \/ Line # <<>>)
    \/ tx = <<>> /\ Len(Line) >= 3 /\ (Line[1] = GetPin /\ Line[2] = AckOk => Len(Line) >= 4)
\* Neither a flux status nor an overflow is before the answer to the read.
Ahead ==
    /\ \A j \in 1 .. (Len(tx) - 1) : tx[j].c \notin {ReadFlux, FluxStatus}
    /\ \/ (mode = "data" \/ tx # <<>>) /\ Clean(Line)
       \/ /\ mode = "command" /\ tx = <<>>
          /\ \E k \in 1 .. (Len(Line) - 1) :
                Line[k + 1] = ReadFlux
                /\ \A i \in 1 .. k : Line[i] < 200 /\ Line[i] \notin {Overflow, FluxStatus}
\* The next answer is not that of a pin.
NoPin ==
    /\ Line # <<>> => Line[1] # GetPin
    /\ Line = <<>> /\ mode = "command" /\ tx # <<>> => tx[1].c # GetPin
StepOk == pc \in Seeking /\ step = "wait" =>
    InStep \/ (Lags /\ (pc = "read" => Ahead) /\ (pc = "wptagain" => NoPin))
PinOk == pc \in LatePins /\ step = "rest" =>
    \/ /\ tx = <<>> /\ mode = "command" /\ Arrived
       /\ Len(Line) = 1 /\ (Line[1] = 0 \/ Line[1] = 1)
    \/ pc # "wptagain" /\ (mode = "data" \/ tx # <<>> \/ Len(Line) >= 2)

Pure(s) == \A i \in 1 .. Len(s) : s[i] = 0 \/ s[i] = FluxByte(op.track)
FluxOk == pc = "read" /\ step = "rest" =>
    \/ tx = <<>> /\ mode = "command" /\ pos = op.track /\ Pure(got) /\ Pure(Line)
    \/ got = <<>> /\ Line # <<>> /\ Line[1] = 0 /\ Ahead
OwnStatus ==
    /\ Line # <<>> /\ Line[1] = FluxStatus =>
           Len(Line) = 2 /\ tx = <<>> /\ mode = "command" /\ pos = op.track
    /\ Line = <<>> /\ mode = "command" /\ tx # <<>> /\ tx[1].c = FluxStatus =>
           Len(tx) = 1 /\ pos = op.track
StatusOk == pc = "rstatus" => Pure(got) /\ OwnStatus
DoneOk == pc = "idle" /\ res = "ok" /\ op.kind = "read" => Pure(got)
Steps == InReach => StepOk /\ PinOk /\ FluxOk /\ StatusOk /\ DoneOk

\* A command that answers well enough for the host to go on with it.
LEMMA Accepted ==
    ASSUME Base, Host, step = "wait", pc \in Seeking \cup {"write"},
           (pc \in {"seek", "head"} /\ pc' # "idle") \/ step' = "rest"
    PROVE  /\ Header /\ Len(rx) >= 2 /\ Len(Line) >= 2 /\ Line \in Seq(Nat)
           /\ Line[1] = Code(pc) /\ Line[2] = AckOk
           /\ Line' = After(Line, 2) /\ rx' = After(rx, 2) /\ UNCHANGED device
           /\ pc = "read" => got' = <<>> /\ step' = "rest"
<1>1. Header \/ HeaderLate
    BY DEF Host, InfoRest, PinRest, FluxRest, WriteData, SyncByte, Seeking
<1>2. ASSUME NEW r, Answer(r) PROVE r = AckOk /\ (pc = "read" => got' = <<>>) /\ pc' # "info"
    <2>1. CASE pc = "seek"
        <3>1. SeekAnswer(r)
            BY <1>2, <2>1, AnswerAt
        <3> QED
            BY <2>1, <3>1 DEF SeekAnswer, Must, Failed, Finish, GoTo
    <2>2. CASE pc = "head"
        <3>1. HeadAnswer(r)
            BY <1>2, <2>2, AnswerAt
        <3> QED
            BY <2>2, <3>1 DEF HeadAnswer, Must, Failed, Finish, GoTo
    <2>3. CASE pc \in Pinned
        <3>1. PinAnswer(r)
            BY <1>2, <2>3, AnswerAt
        <3>2. step' = "rest"
            BY <2>3 DEF Pinned
        <3> QED
            BY <2>3, <3>1, <3>2 DEF PinAnswer, Pin, Spin, Finish, GoTo, ReadRest, Pinned
    <2>4. CASE pc = "read"
        <3>1. ReadAnswer(r)
            BY <1>2, <2>4, AnswerAt
        <3> QED
            BY <2>4, <3>1 DEF ReadAnswer, Again, Failed, Finish, GoTo, ReadRest
    <2>5. CASE pc = "write"
        <3>1. WriteAnswer(r)
            BY <1>2, <2>5, AnswerAt
        <3> QED
            BY <2>5, <3>1 DEF WriteAnswer, Failed, Finish, GoTo, ReadRest
    <2>6. CASE pc \in {"click", "oldhead"}
        <3>1. DroppedAnswer(r)
            BY <1>2, <2>6, AnswerAt
        <3> QED
            BY <2>6, <3>1 DEF DroppedAnswer, Finish, GoTo
    <2> QED
        BY <2>1, <2>2, <2>3, <2>4, <2>5, <2>6 DEF Seeking, Pinned
<1>3. Header
    <2>1. HeaderLate => Late = AckOk
        BY <1>2 DEF HeaderLate
    <2> QED
        BY <1>1, <2>1 DEF Late, AckOk
<1>4. PICK r : r = Outcome
    OBVIOUS
<1>5. Answer(r)
    BY <1>3, <1>4 DEF Header
<1>6. r = AckOk /\ (pc = "read" => got' = <<>>) /\ pc' # "info"
    BY <1>2, <1>5
<1>7. ~Resends
    BY <1>6 DEF Resends
<1>8. r = IF Line[1] = Code(pc) THEN Line[2] ELSE Mismatch
    BY <1>3, <1>4, HeaderIs
<1>9. Line[1] = Code(pc) /\ Line[2] = AckOk
    BY <1>6, <1>8 DEF Mismatch, AckOk
<1> QED
    BY <1>3, <1>6, <1>7, <1>9, HeaderIs

\* Behind three bytes or more, a header or a timeout leaves one at least.
LEMMA NotAll ==
    ASSUME Base, Header \/ HeaderLate, pc' # "info", Len(Line) >= 3 PROVE Line' # <<>>
<1>1. rx \in Seq(Nat) /\ out \in Seq(Nat) /\ Line \in Seq(Nat) /\ Len(Line) = Len(rx) + Len(out)
      /\ Len(rx) \in Nat /\ Len(out) \in Nat /\ Len(Line) \in Nat
    BY Extended DEF Base, Wire, Line
<1>2. CASE Header
    <2>1. Line' = After(Line, 2)
        BY <1>2, HeaderIs DEF Resends
    <2>2. 2 \in 0 .. Len(Line)
        BY <1>1
    <2>3. Len(After(Line, 2)) >= 1
        BY <1>1, <2>2, LeftBehind
    <2> QED
        BY <2>1, <2>3
<1>3. CASE HeaderLate
    <2>1. rx' = <<>> /\ out' = out /\ Len(rx) < 2
        BY <1>3 DEF HeaderLate
    <2>2. Line' = out
        BY <1>1, <2>1 DEF Line
    <2>3. Len(out) >= 1
        BY <1>1, <2>1
    <2> QED
        BY <2>2, <2>3
<1> QED
    BY <1>2, <1>3

\* One byte is read or is not there.
LEMMA ByteTaken ==
    ASSUME Base, UNCHANGED device, rx' = rx \/ (rx # <<>> /\ rx' = Tail(rx))
    PROVE  /\ Line \in Seq(Nat)
           /\ \/ Line' = Line
              \/ Line' \in Seq(Nat) /\ Len(Line) >= 1 /\ Len(Line') = Len(Line) - 1
<1>1. rx \in Seq(Nat) /\ out \in Seq(Nat) /\ Line \in Seq(Nat) /\ Len(Line) = Len(rx) + Len(out)
      /\ Len(rx) \in Nat /\ Len(out) \in Nat
    BY Extended DEF Base, Wire, Line
<1>2. out' = out
    OBVIOUS
<1>3. CASE rx' = rx
    BY <1>1, <1>2, <1>3 DEF Line
<1>4. CASE rx # <<>> /\ rx' = Tail(rx)
    <2>1. Tail(rx) \in Seq(Nat) /\ Len(Tail(rx)) = Len(rx) - 1 /\ Len(rx) >= 1
        BY <1>1, <1>4, OneLess
    <2>2. Line' = Tail(rx) \o out
        BY <1>2, <1>4 DEF Line
    <2>3. PICK s \in Seq(Nat) : s = Tail(rx)
        BY <2>1
    <2>4. s \o out \in Seq(Nat) /\ Len(s \o out) = Len(s) + Len(out)
        BY <1>1, <2>3, Extended
    <2>5. PICK b \in Seq(Nat) : b = s \o out
        BY <2>4
    <2>6. Line' = b /\ Len(b) = Len(Line) - 1 /\ Len(Line) >= 1
        BY <1>1, <2>1, <2>2, <2>3, <2>4, <2>5
    <2> QED
        BY <1>1, <1>2, <2>6
<1> QED
    BY <1>3, <1>4

LEMMA PinTakes ==
    ASSUME Base, PinRest
    PROVE  /\ UNCHANGED device /\ Line \in Seq(Nat)
           /\ \/ Line' = Line
              \/ Line' \in Seq(Nat) /\ Len(Line) >= 1 /\ Len(Line') = Len(Line) - 1
<1>1. UNCHANGED device /\ (rx' = rx \/ (rx # <<>> /\ rx' = Tail(rx)))
    BY DEF PinRest
<1> QED
    BY <1>1, ByteTaken

\* A read is asked for again only by a host that is in step.
LEMMA ReadAgain ==
    ASSUME Base, StepOk, FluxOk, StatusOk, Host, pc \in {"read", "rstatus"}, pc' = "read", step' = "wait"
    PROVE  tx = <<>> /\ mode = "command" /\ pos = op.track /\ Line' = <<>>
<1>1. ASSUME NEW r, Answer(r) PROVE r = Overflow
    <2>1. CASE pc = "read"
        <3>1. ReadAnswer(r)
            BY <1>1, <2>1, AnswerAt
        <3> QED
            BY <2>1, <3>1 DEF ReadAnswer, Again, GoTo, ReadRest, Failed, Finish
    <2>2. CASE pc = "rstatus"
        <3>1. ReadStatusAnswer(r)
            BY <1>1, <2>2, AnswerAt
        <3> QED
            BY <2>2, <3>1 DEF ReadStatusAnswer, Again, GoTo, Finish
    <2> QED
        BY <2>1, <2>2
<1>2. Header
    <2>1. ~FluxRest
        BY DEF FluxRest, GoTo
    <2>2. HeaderLate => Late = Overflow
        BY <1>1 DEF HeaderLate
    <2> QED
        BY <2>1, <2>2 DEF Host, InfoRest, PinRest, WriteData, SyncByte, Late, Overflow
<1>3. PICK r : r = Outcome
    OBVIOUS
<1>4. r = Overflow
    BY <1>1, <1>2, <1>3 DEF Header
<1>5. r = IF Line[1] = Code(pc) THEN Line[2] ELSE Mismatch
    BY <1>2, <1>3, HeaderIs
<1>6. Line[1] = Code(pc) /\ Line[2] = Overflow
    BY <1>4, <1>5 DEF Mismatch, Overflow
<1>7. /\ Len(Line) >= 2 /\ Line \in Seq(Nat) /\ Len(Line) \in Nat /\ Line' = After(Line, 2)
      /\ step = "wait"
    BY <1>2, HeaderIs DEF Resends
<1>8. CASE pc = "rstatus"
    <2>1. Line[1] = FluxStatus /\ Line # <<>>
        BY <1>6, <1>7, <1>8 DEF Code, Pinned
    <2>2. Len(Line) = 2 /\ tx = <<>> /\ mode = "command" /\ pos = op.track
        BY <1>8, <2>1 DEF StatusOk, OwnStatus
    <2> QED
        BY <1>7, <2>2 DEF After
<1>9. CASE pc = "read"
    <2>1. ~Ahead
        <3>1. SUFFICES ASSUME Ahead PROVE FALSE
            OBVIOUS
        <3>2. 2 \in 1 .. Len(Line)
            BY <1>7
        <3>3. CASE Clean(Line)
            BY <1>6, <3>2, <3>3 DEF Clean
        <3>4. CASE \E k \in 1 .. (Len(Line) - 1) :
                Line[k + 1] = ReadFlux
                /\ \A i \in 1 .. k : Line[i] < 200 /\ Line[i] \notin {Overflow, FluxStatus}
            <4>1. PICK k \in 1 .. (Len(Line) - 1) :
                Line[k + 1] = ReadFlux
                /\ \A i \in 1 .. k : Line[i] < 200 /\ Line[i] \notin {Overflow, FluxStatus}
                BY <3>4
            <4>2. k = 1 \/ 2 \in 1 .. k
                BY <1>7
            <4>3. CASE k = 1
                BY <1>6, <4>1, <4>3 DEF Overflow, ReadFlux
            <4> QED
                BY <1>6, <4>1, <4>2, <4>3
        <3> QED
            BY <3>1, <3>3, <3>4 DEF Ahead
    <2>2. InStep
        BY <1>7, <1>9, <2>1 DEF StepOk, Seeking
    <2>3. Len(Line) # 0
        BY <1>7
    <2>4. HasCome
        BY <2>2, <2>3 DEF InStep, Coming
    <2>5. Len(Line) = 2
        BY <1>6, <2>4 DEF HasCome, Overflow, AckOk
    <2>6. Line' = <<>>
        BY <1>7, <2>5 DEF After
    <2> QED
        BY <1>9, <2>2, <2>4, <2>6 DEF InStep, HasCome, Arrived
<1> QED
    BY <1>8, <1>9

\* One more command in a queue, or behind bytes of an older answer.
LEMMA AskedBehind ==
    ASSUME Base, NEW e \in Sent, tx' = Append(tx, e), mode' = mode,
           mode = "data" \/ tx # <<>> \/ Line' # <<>>
    PROVE  Lags'
<1>1. tx \in Seq(Sent)
    BY DEF Base, Wire
<1>2. Len(Append(tx, e)) = Len(tx) + 1 /\ Append(tx, e) # <<>> /\ Len(tx) \in Nat
    BY <1>1, OneMore
<1>3. tx # <<>> => Len(tx) >= 1
    BY <1>1, OneLess
<1>4. tx' # <<>> /\ (tx # <<>> => Len(tx') >= 2)
    BY <1>2, <1>3
<1> QED
    BY <1>4 DEF Lags

\* What the host asks for when it is not behind.
LEMMA AskedInStep ==
    ASSUME Base, Host, StepOk, PinOk, FluxOk, StatusOk, pc' \in Seeking, step' = "wait",
           mode = "command", tx = <<>>, Line' = <<>>, Edge(pc, pc')
    PROVE  Arrived'
<1>1. UNCHANGED <<op, device>>
    BY HostMoves, HostTakes DEF Base
<1>2. KindFits /\ pc \in Labels \cup {"idle", "sync"}
    BY DEF Base, Types, Places
<1>3. CASE pc' = "seek"
    BY <1>3 DEF Arrived
<1>4. CASE pc \in Seeking \ {"read"} /\ step = "wait"
    <2>1. Header \/ HeaderLate
        BY <1>4 DEF Host, InfoRest, PinRest, FluxRest, WriteData, SyncByte, Seeking
    <2>2. ~Lags
        <3>1. pc' # "info"
            BY DEF Seeking
        <3>2. Len(Line) >= 3 => FALSE
            BY <2>1, <3>1, NotAll
        <3> QED
            BY <3>2 DEF Lags
    <2>3. InStep /\ HasCome
        <3>1. Len(<<>>) # 1
            OBVIOUS
        <3> QED
            BY <1>4, <2>2, <3>1 DEF StepOk, InStep, Coming
    <2>4. CASE pc \in {"seek", "head"}
        <3>1. Line[2] = AckOk
            BY <1>4, <2>4, Accepted DEF Seeking
        <3> QED
            BY <1>1, <2>3, <2>4, <3>1 DEF HasCome, Arrived, Edge, Seeking
    <2>5. CASE pc \notin {"seek", "head"}
        BY <1>1, <1>4, <2>3, <2>5 DEF InStep, Arrived, Edge, Seeking
    <2> QED
        BY <2>4, <2>5
<1>5. CASE pc \in LatePins /\ step = "rest"
    <2>1. PinRest
        BY <1>5 DEF Host, Header, HeaderLate, InfoRest, FluxRest, WriteData, SyncByte, LatePins
    <2>2. Len(Line) >= 2 => FALSE
        <3>1. SUFFICES ASSUME Len(Line) >= 2 PROVE FALSE
            OBVIOUS
        <3>2. CASE Line' = Line
            BY <3>1, <3>2
        <3>3. CASE Len(Line') = Len(Line) - 1
            <4>1. Len(Line') = 0
                OBVIOUS
            <4>2. Line \in Seq(Nat)
                BY <2>1, PinTakes
            <4>3. Len(Line) \in Nat
                BY <4>2
            <4>4. \A n \in Nat : n >= 2 => n - 1 # 0
                OBVIOUS
            <4> QED
                BY <3>1, <3>3, <4>1, <4>3, <4>4, Zenon
        <3> QED
            BY <2>1, <3>2, <3>3, PinTakes
    <2>3. Arrived
        BY <1>5, <2>2 DEF PinOk
    <2> QED
        BY <1>1, <1>2, <1>5, <2>3 DEF Arrived, Edge, Seeking, LatePins
<1>6. CASE pc \in {"read", "rstatus"}
    <2>1. pc' = "read"
        BY <1>6 DEF Edge, Seeking
    <2>2. pos = op.track
        BY <1>6, <2>1, ReadAgain
    <2> QED
        BY <1>1, <2>1, <2>2 DEF Arrived
<1>7. pc' = "seek" \/ pc \in Seeking \cup {"rstatus"}
    BY DEF Edge, Seeking
<1>8. step = "rest" => pc \in {"info", "read", "write", "sync"} \cup Pinned
    BY DEF Base, Places
<1>9. step \in {"wait", "rest"}
    BY DEF Base, Types
<1> QED
    BY <1>3, <1>4, <1>5, <1>6, <1>7, <1>8, <1>9 DEF LatePins, Seeking, Pinned

\* A head select that succeeds late, and what can then be on the line.
LEMMA HeadPassed ==
    ASSUME Base, Settled, InReach, Host, pc = "head", pc' \in {"read", "wptagain"}, Edge(pc, pc'),
           NEW e \in Sent, tx' = Append(tx, e),
           mode = "data" \/ tx # <<>> \/ Line' # <<>>
    PROVE  (pc' = "read" => Ahead') /\ (pc' = "wptagain" => NoPin')
<1>1. step = "wait"
    BY DEF Base, Places, Types, Pinned
<1>2. /\ Line \in Seq(Nat) /\ Len(Line) >= 2 /\ Line[1] = Head_ /\ Line[2] = AckOk
      /\ Line' = After(Line, 2) /\ mode' = mode
    <2>1. Code("head") = Head_
        BY DEF Code, Pinned
    <2> QED
        BY <1>1, <2>1, Accepted DEF Seeking
<1>3. Clear(Line)
    BY DEF Settled, ClearOk, Early
<1>4. /\ tx \in Seq(Sent) /\ Len(tx) \in Nat /\ Len(tx') = Len(tx) + 1 /\ tx' # <<>>
      /\ \A j \in 1 .. Len(tx) : tx'[j] = tx[j]
    <2>1. tx \in Seq(Sent)
        BY DEF Base, Wire
    <2> QED
        BY <2>1, OneMore
<1>5. 2 \in 0 .. Len(Line) /\ Len(Line) \in Nat
    BY <1>2
<1>6. PICK s \in Seq(Nat) : s = Line
    BY <1>2
<1>7. PICK b \in Seq(Nat) : b = After(s, 2) /\ Len(b) = Len(s) - 2 /\ \A i \in 1 .. (Len(s) - 2) : b[i] = s[2 + i]
    BY <1>5, <1>6, LeftBehind
<1>8. Line' = b
    BY <1>2, <1>6, <1>7
<1>9. CASE pc' = "read"
    <2>1. ReadClear(Line)
        <3>1. op.kind = "read"
            BY <1>9 DEF Edge
        <3> QED
            BY <1>3, <3>1 DEF Clear, InReach
    <2>2. Clean(b)
        BY <1>5, <1>6, <1>7, <2>1, CleanRest DEF ReadClear
    <2>3. \A j \in 1 .. (Len(tx') - 1) : tx'[j].c \notin {ReadFlux, FluxStatus}
        <3>1. ASSUME NEW j \in 1 .. (Len(tx') - 1) PROVE tx'[j].c \notin {ReadFlux, FluxStatus}
            <4>1. j \in 1 .. Len(tx)
                BY <1>4
            <4> QED
                BY <1>4, <2>1, <4>1 DEF ReadClear
        <3> QED
            BY <3>1
    <2> QED
        BY <1>4, <1>8, <1>9, <2>2, <2>3 DEF Ahead, Clean
<1>10. CASE pc' = "wptagain"
    <2>1. WriteClear(Line)
        <3>1. op.kind = "write"
            BY <1>10 DEF Edge
        <3> QED
            BY <1>3, <3>1 DEF Clear, InReach
    <2>2. ASSUME b # <<>> PROVE b[1] # GetPin
        <3>1. Len(b) >= 1
            BY <2>2
        <3>2. 1 \in 1 .. (Len(s) - 2) /\ 1 + 1 = 2 /\ 1 + 2 = 3 /\ 2 + 1 = 3
            BY <1>5, <1>6, <1>7, <3>1
        <3>3. s[3] # GetPin
            BY <1>2, <1>6, <2>1, <3>2 DEF WriteClear, NoPair
        <3> QED
            BY <1>7, <3>2, <3>3
    <2>3. ASSUME b = <<>>, mode = "command" PROVE tx'[1].c # GetPin
        <3>1. Len(s) = 2
            <4>1. Len(b) = 0
                BY <2>3
            <4> QED
                BY <1>5, <1>6, <1>7, <4>1
        <3>2. EndsInHead(Line)
            BY <1>2, <1>6, <3>1 DEF EndsInHead
        <3>3. tx # <<>>
            BY <1>8, <2>3
        <3>4. tx[1].c # GetPin
            BY <2>1, <2>3, <3>2, <3>3 DEF WriteClear
        <3>5. 1 \in 1 .. Len(tx)
            BY <1>4, <3>3, OneLess
        <3> QED
            BY <1>4, <3>4, <3>5
    <2> QED
        BY <1>2, <1>8, <1>10, <2>2, <2>3 DEF NoPin
<1> QED
    BY <1>9, <1>10

LEMMA HostStepOk ==
    ASSUME Base, Settled, InReach, StepOk, PinOk, FluxOk, StatusOk, Host PROVE StepOk'
<1> SUFFICES ASSUME pc' \in Seeking, step' = "wait"
             PROVE  InStep' \/ (Lags' /\ (pc' = "read" => Ahead') /\ (pc' = "wptagain" => NoPin'))
    BY DEF StepOk
<1>1. op' = op /\ UNCHANGED device /\ tx \in Seq(Sent)
    BY HostMoves, HostTakes DEF Base, Wire
<1>2. PICK l \in Labels : Edge(pc, l) /\ GoTo(l)
    <2>1. ~(\E v : Finish(v)) /\ ~ReadRest /\ ~Stays /\ ~WriteData
        <3>1. pc' # "idle" /\ pc' # "sync" /\ step' # "rest"
            BY DEF Seeking
        <3> QED
            BY <3>1 DEF Finish, ReadRest, Stays, WriteData
    <2> QED
        BY <2>1, HostMoves DEF Base
<1>3. PICK e \in Sent : e = Sends(l, op)
    BY SentIs DEF Base
<1>4. pc' = l /\ tx' = Append(tx, e) /\ e.c = Code(l)
    <2>1. pc' = l /\ tx' = Append(tx, Sends(l, op))
        BY <1>2 DEF GoTo, Write
    <2>2. Sends(l, op).c = Code(l)
        BY CodeOf
    <2> QED
        BY <1>3, <2>1, <2>2
<1>5. Edge(pc, pc')
    BY <1>2, <1>4
<1>6. CASE mode = "data" \/ tx # <<>> \/ Line' # <<>>
    <2>1. Lags'
        BY <1>1, <1>4, <1>6, AskedBehind
    <2>2. pc' = "read" => pc = "head"
        <3>1. pc' = "read" => pc \in {"head", "read", "rstatus"}
            BY <1>5 DEF Edge
        <3>2. ~(pc \in {"read", "rstatus"} /\ pc' = "read")
            BY <1>6, ReadAgain
        <3> QED
            BY <3>1, <3>2
    <2>3. pc' = "wptagain" => pc = "head"
        BY <1>5 DEF Edge
    <2> QED
        BY <1>4, <1>5, <1>6, <2>1, <2>2, <2>3, HeadPassed
<1>7. CASE mode = "command" /\ tx = <<>> /\ Line' = <<>>
    <2>1. Arrived'
        BY <1>5, <1>7, AskedInStep
    <2>2. Len(tx') = 1 /\ tx'[1] = e
        <3>1. Len(tx) = 0 /\ 0 + 1 = 1
            BY <1>7
        <3> QED
            BY <1>1, <1>4, <3>1, OneMore
    <2>3. (l = "seek" => e.arg = op.track[1]) /\ (l = "head" => e.arg = op.track[2])
        <3>1. PICK o : o = op
            OBVIOUS
        <3>2. Sends("seek", o) = [c |-> Seek, arg |-> o.track[1]]
              /\ Sends("head", o) = [c |-> Head_, arg |-> o.track[2]]
            BY SendsIs
        <3>3. CASE l = "seek"
            <4>1. e = [c |-> Seek, arg |-> o.track[1]]
                BY <1>3, <3>1, <3>2, <3>3
            <4> QED
                BY <3>1, <3>3, <4>1
        <3>4. CASE l = "head"
            <4>1. e = [c |-> Head_, arg |-> o.track[2]]
                BY <1>3, <3>1, <3>2, <3>4
            <4> QED
                BY <3>1, <3>4, <4>1
        <3> QED
            BY <3>3, <3>4
    <2> QED
        BY <1>1, <1>4, <1>7, <2>1, <2>2, <2>3 DEF InStep, Coming
<1>8. mode \in {"command", "data"}
    BY DEF Base, Wire
<1> QED
    BY <1>6, <1>7, <1>8

LEMMA HostPinOk ==
    ASSUME Base, StepOk, Host PROVE PinOk'
<1> SUFFICES ASSUME pc' \in LatePins, step' = "rest" PROVE PinOk'
    BY DEF PinOk
<1>1. ReadRest /\ step = "wait" /\ pc \in LatePins /\ op' = op
    <2>1. \A l : ~GoTo(l) /\ ~Finish(l)
        BY DEF GoTo, Finish
    <2>2. ~Stays /\ ~WriteData
        BY DEF Stays, WriteData, LatePins
    <2> QED
        BY <2>1, <2>2, HostMoves DEF Base, ReadRest, LatePins
<1>2. /\ Len(Line) >= 2 /\ Line \in Seq(Nat) /\ Line[1] = GetPin /\ Line[2] = AckOk
      /\ Line' = After(Line, 2) /\ UNCHANGED device
    <2>1. Code(pc) = GetPin
        BY <1>1 DEF Code, LatePins, Pinned
    <2> QED
        BY <1>1, <2>1, Accepted DEF LatePins, Seeking
<1>3. Len(Line) \in Nat /\ 2 \in 0 .. Len(Line)
    BY <1>2
<1>4. PICK b \in Seq(Nat) : b = After(Line, 2) /\ Len(b) = Len(Line) - 2
                            /\ \A i \in 1 .. (Len(Line) - 2) : b[i] = Line[2 + i]
    BY <1>2, <1>3, LeftBehind
<1>5. Len(Line') = Len(b) /\ Line' = b /\ tx' = tx /\ pc' = pc /\ pc' \in Seeking
    BY <1>1, <1>2, <1>4 DEF ReadRest, LatePins, Seeking
<1>6. CASE InStep
    <2>1. HasCome
        <3>1. Len(Line) # 0
            BY <1>2
        <3> QED
            BY <1>6, <3>1 DEF InStep, Coming
    <2>2. Len(b) = 1 /\ (b[1] = 0 \/ b[1] = 1)
        <3>1. Len(Line) = 3 /\ (Line[3] = 0 \/ Line[3] = 1)
            BY <1>1, <1>2, <2>1 DEF HasCome
        <3>2. 1 \in 1 .. (Len(Line) - 2) /\ 2 + 1 = 3 /\ 3 - 2 = 1
            BY <3>1
        <3> QED
            BY <1>4, <3>1, <3>2
    <2> QED
        BY <1>1, <1>2, <1>5, <1>6, <2>1, <2>2 DEF InStep, HasCome, PinOk, Arrived
<1>7. CASE Lags /\ (pc = "wptagain" => NoPin)
    <2>1. pc # "wptagain"
        BY <1>2, <1>3, <1>7 DEF NoPin
    <2>2. mode = "data" \/ tx # <<>> \/ Len(b) >= 2
        <3>1. mode = "data" \/ tx # <<>> \/ Len(Line) >= 4
            BY <1>2, <1>7 DEF Lags
        <3> QED
            BY <1>3, <1>4, <3>1
    <2> QED
        BY <1>2, <1>5, <2>1, <2>2 DEF PinOk
<1> QED
    BY <1>1, <1>5, <1>6, <1>7 DEF StepOk

\* The track of an operation.
LEMMA TargetIs ==
    ASSUME NEW t \in Targets PROVE t \in Tracks /\ t = <<t[1], t[2]>> /\ t[1] \in Nat /\ t[2] \in Nat
<1>1. t \in Nat \X {0, 1}
    BY GwConstants
<1>2. t[1] \in Nat /\ t[2] \in {0, 1} /\ t = <<t[1], t[2]>>
    BY <1>1
<1>3. t \in Nat \X Nat
    BY <1>2
<1> QED
    BY <1>2, <1>3 DEF Tracks

\* The first bytes of an answer to a read that is behind.
LEMMA BehindRead ==
    ASSUME Base, Formed(Line), Ahead, Line \in Seq(Nat), Len(Line) >= 2,
           Line[1] = ReadFlux, Line[2] = AckOk
    PROVE  Len(Line) >= 3 /\ Line[3] = 0
<1>1. Len(Line) \in Nat /\ 1 \in 1 .. (Len(Line) - 1) /\ 1 + 1 = 2 /\ 1 + 2 = 3
    OBVIOUS
<1>2. PICK t \in Tracks, m \in 3 .. Len(Line) :
          Line[m] = 0 /\ \A j \in 3 .. (m - 1) : Line[j] = FluxByte(t)
    BY <1>1 DEF Formed
<1>3. Len(Line) >= 3 /\ FluxByte(t) >= 200 /\ FluxByte(t) \in Nat
    BY <1>1, <1>2, FluxIs
<1>4. ASSUME m # 3 PROVE FALSE
    <2>1. Line[3] = FluxByte(t)
        <3>1. 3 \in 3 .. (m - 1)
            BY <1>2, <1>4
        <3> QED
            BY <1>2, <3>1
    <2>2. ~(Line[3] < 200)
        BY <1>3, <2>1
    <2>3. CASE Clean(Line)
        <3>1. 3 \in 1 .. Len(Line)
            BY <1>1, <1>3
        <3> QED
            BY <2>2, <2>3, <3>1 DEF Clean
    <2>4. CASE \E k \in 1 .. (Len(Line) - 1) :
                Line[k + 1] = ReadFlux
                /\ \A i \in 1 .. k : Line[i] < 200 /\ Line[i] \notin {Overflow, FluxStatus}
        <3>1. PICK k \in 1 .. (Len(Line) - 1) :
                Line[k + 1] = ReadFlux
                /\ \A i \in 1 .. k : Line[i] < 200 /\ Line[i] \notin {Overflow, FluxStatus}
            BY <2>4
        <3>2. k = 1 \/ k = 2 \/ 3 \in 1 .. k
            BY <1>1
        <3>3. CASE k = 1
            BY <3>1, <3>3 DEF ReadFlux, AckOk
        <3>4. CASE k = 2
            BY <2>2, <3>1, <3>4 DEF ReadFlux
        <3>5. CASE 3 \in 1 .. k
            BY <2>2, <3>1, <3>5
        <3> QED
            BY <3>2, <3>3, <3>4, <3>5
    <2> QED
        BY <1>2, <2>3, <2>4 DEF Ahead
<1> QED
    BY <1>2, <1>3, <1>4

\* Fewer bytes, while those taken do not reach the answer to a read.
LEMMA AheadRest ==
    ASSUME Line \in Seq(Nat), Ahead, NEW n \in 0 .. Len(Line), Line' = After(Line, n),
           UNCHANGED <<tx, mode>>, \A i \in 2 .. (n + 1) : i <= Len(Line) => Line[i] # ReadFlux
    PROVE  Ahead'
<1>1. PICK s \in Seq(Nat) : s = Line
    OBVIOUS
<1>2. PICK b \in Seq(Nat) : /\ b = After(s, n) /\ Len(b) = Len(s) - n /\ Len(s) \in Nat
                            /\ \A i \in 1 .. (Len(s) - n) : b[i] = s[n + i]
    BY <1>1, LeftBehind
<1>3. Line' = b
    BY <1>1, <1>2
<1>4. CASE (mode = "data" \/ tx # <<>>) /\ Clean(Line)
    <2>1. Clean(b)
        BY <1>1, <1>2, <1>4, CleanRest
    <2> QED
        BY <1>3, <1>4, <2>1 DEF Ahead, Clean
<1>5. CASE /\ mode = "command" /\ tx = <<>>
           /\ \E k \in 1 .. (Len(Line) - 1) :
                Line[k + 1] = ReadFlux
                /\ \A i \in 1 .. k : Line[i] < 200 /\ Line[i] \notin {Overflow, FluxStatus}
    <2>1. PICK k \in 1 .. (Len(s) - 1) :
                s[k + 1] = ReadFlux
                /\ \A i \in 1 .. k : s[i] < 200 /\ s[i] \notin {Overflow, FluxStatus}
        BY <1>1, <1>5
    <2>2. k > n
        <3>1. ~(k + 1 \in 2 .. (n + 1))
            <4>1. k + 1 <= Len(s)
                BY <1>2
            <4> QED
                BY <1>1, <2>1, <4>1
        <3> QED
            BY <1>2, <3>1
    <2>3. k - n \in 1 .. (Len(b) - 1) /\ (k - n) + 1 \in 1 .. (Len(s) - n) /\ n + ((k - n) + 1) = k + 1
        BY <1>2, <2>2
    <2>4. b[(k - n) + 1] = ReadFlux
        BY <1>2, <2>1, <2>3
    <2>5. ASSUME NEW i \in 1 .. (k - n) PROVE b[i] < 200 /\ b[i] \notin {Overflow, FluxStatus}
        <3>1. i \in 1 .. (Len(s) - n) /\ n + i \in 1 .. k
            BY <1>2, <2>2, SMTT(20)
        <3> QED
            BY <1>2, <2>1, <3>1
    <2> QED
        BY <1>3, <1>5, <2>3, <2>4, <2>5 DEF Ahead
<1> QED
    BY <1>4, <1>5 DEF Ahead

LEMMA PureParts ==
    ASSUME NEW s \in Seq(Nat), NEW u \in Seq(Nat) PROVE Pure(s \o u) <=> Pure(s) /\ Pure(u)
<1>1. /\ Len(s \o u) = Len(s) + Len(u) /\ Len(s) \in Nat /\ Len(u) \in Nat
      /\ \A i \in 1 .. Len(s) : (s \o u)[i] = s[i]
      /\ \A i \in 1 .. Len(u) : (s \o u)[Len(s) + i] = u[i]
    BY Extended
<1>2. PICK a : a = s \o u
    OBVIOUS
<1>3. ASSUME Pure(a) PROVE Pure(s) /\ Pure(u)
    <2>1. ASSUME NEW i \in 1 .. Len(s) PROVE s[i] = 0 \/ s[i] = FluxByte(op.track)
        <3>1. i \in 1 .. Len(a) /\ a[i] = s[i]
            BY <1>1, <1>2
        <3> QED
            BY <1>3, <3>1 DEF Pure
    <2>2. ASSUME NEW i \in 1 .. Len(u) PROVE u[i] = 0 \/ u[i] = FluxByte(op.track)
        <3>1. Len(s) + i \in 1 .. Len(a) /\ a[Len(s) + i] = u[i]
            BY <1>1, <1>2
        <3> QED
            BY <1>3, <3>1 DEF Pure
    <2> QED
        BY <2>1, <2>2 DEF Pure
<1>4. ASSUME Pure(s), Pure(u), NEW i \in 1 .. Len(a) PROVE a[i] = 0 \/ a[i] = FluxByte(op.track)
    <2>1. CASE i \in 1 .. Len(s)
        BY <1>1, <1>2, <1>4, <2>1 DEF Pure
    <2>2. CASE i \notin 1 .. Len(s)
        <3>1. i - Len(s) \in 1 .. Len(u) /\ Len(s) + (i - Len(s)) = i
            BY <1>1, <1>2, <2>2
        <3>2. a[i] = u[i - Len(s)]
            BY <1>1, <1>2, <3>1
        <3> QED
            BY <1>4, <3>1, <3>2 DEF Pure
    <2> QED
        BY <2>1, <2>2
<1> QED
    BY <1>2, <1>3, <1>4 DEF Pure

\* read_flux takes bytes, or goes on with what it has.
LEMMA FluxStep ==
    ASSUME Base, FluxRest
    PROVE  /\ op' = op /\ UNCHANGED device /\ Line \in Seq(Nat)
           /\ \/ Line' = Line /\ got' = got /\ GoTo("rstatus")
              \/ /\ Line # <<>> /\ Line[1] = 0 /\ GoTo("rstatus") /\ Line' = After(Line, 1)
                 /\ \E a \in Seq(Nat) : got' = got \o a /\ Len(a) = 1 /\ a[1] = 0
              \/ Line # <<>> /\ Line[1] # 0
<1>1. op' = op /\ UNCHANGED device
    BY DEF FluxRest
<1>2. rx \in Seq(Nat) /\ out \in Seq(Nat) /\ Line \in Seq(Nat) /\ Len(Line) = Len(rx) + Len(out)
      /\ Len(rx) \in Nat /\ Len(out) \in Nat /\ \A i \in 1 .. Len(rx) : Line[i] = rx[i]
    BY Extended DEF Base, Wire, Line
<1>3. CASE rx = <<>>
    <2>1. rx' = rx /\ got' = got /\ GoTo("rstatus")
        BY <1>3 DEF FluxRest
    <2> QED
        BY <1>1, <1>2, <2>1 DEF Line
<1>4. CASE rx # <<>>
    <2>1. Len(rx) >= 1 /\ Head(rx) = rx[1] /\ 1 \in 1 .. Len(rx)
        BY <1>2, <1>4, OneLess
    <2>2. Line # <<>> /\ Line[1] = rx[1]
        <3>1. Len(Line) # 0
            BY <1>2, <2>1
        <3> QED
            BY <1>2, <2>1, <3>1
    <2>3. CASE rx[1] = 0
        <3>1. /\ got' = got \o SubSeq(rx, 1, 1) /\ rx' = After(rx, 1) /\ GoTo("rstatus")
            BY <1>4, <2>1, <2>3 DEF FluxRest
        <3>5. PICK s \in Seq(Nat), u \in Seq(Nat) : s = rx /\ u = out
            BY <1>2
        <3>2. PICK a \in Seq(Nat) : a = SubSeq(s, 1, 1) /\ Len(a) = 1 /\ a[1] = 0
            <4>1. Len(s) >= 1 /\ Len(s) \in Nat /\ s[1] = 0
                BY <1>2, <2>1, <2>3, <3>5
            <4>2. \A i \in 1 .. 1 : s[i] \in Nat
                BY <4>1
            <4>3. SubSeq(s, 1, 1) \in Seq(Nat)
                BY <4>2, SubSeqProperties
            <4>4. /\ Len(SubSeq(s, 1, 1)) = IF 1 <= 1 THEN 1 - 1 + 1 ELSE 0
                  /\ \A i \in 1 .. (1 - 1 + 1) : SubSeq(s, 1, 1)[i] = s[1 + i - 1]
                BY <4>2, SubSeqProperties
            <4>5. Len(SubSeq(s, 1, 1)) = 1 /\ SubSeq(s, 1, 1)[1] = s[1]
                BY <4>4
            <4> QED
                BY <4>1, <4>3, <4>5
        <3>3. After(rx, 1) \o out = After(rx \o out, 1)
            <4>1. 1 \in Nat /\ 1 <= Len(s)
                BY <2>1, <3>5
            <4>2. After(s, 1) \o u = After(s \o u, 1)
                BY <4>1, AfterIs
            <4> QED
                BY <3>5, <4>2
        <3>4. Line' = After(Line, 1)
            BY <1>1, <3>1, <3>3 DEF Line
        <3> QED
            BY <1>1, <1>2, <2>2, <2>3, <3>1, <3>2, <3>4, <3>5
    <2> QED
        BY <1>1, <1>2, <2>2, <2>3
<1> QED
    BY <1>3, <1>4

LEMMA HostFluxOk ==
    ASSUME Base, OneTrack, StepOk, FluxOk, Host PROVE FluxOk'
<1> SUFFICES ASSUME pc' = "read", step' = "rest" PROVE FluxOk'
    BY DEF FluxOk
<1>1. op' = op /\ UNCHANGED device /\ tx' = tx /\ pc = "read"
      /\ (step = "wait" \/ (step = "rest" /\ FluxRest))
    <2>1. \A l : ~GoTo(l) /\ ~Finish(l)
        BY DEF GoTo, Finish
    <2>2. op' = op /\ UNCHANGED device /\ ((ReadRest /\ step = "wait") \/ Stays)
        BY <2>1, HostMoves, HostTakes DEF Base, WriteData
    <2>3. Stays => FluxRest
        BY DEF Stays, Host, Header, HeaderLate, InfoRest, PinRest, WriteData, SyncByte, Pinned
    <2> QED
        BY <2>2, <2>3 DEF ReadRest, Stays
<1>2. CASE step = "wait"
    <2>1. /\ Len(Line) >= 2 /\ Line \in Seq(Nat) /\ Line[1] = ReadFlux /\ Line[2] = AckOk
          /\ Line' = After(Line, 2) /\ got' = <<>>
        <3>1. Code(pc) = ReadFlux
            BY <1>1 DEF Code, Pinned
        <3> QED
            BY <1>1, <1>2, <3>1, Accepted DEF Seeking
    <2>2. Len(Line) \in Nat /\ 2 \in 0 .. Len(Line)
        BY <2>1
    <2>3. PICK b \in Seq(Nat) : b = After(Line, 2) /\ Len(b) = Len(Line) - 2
                                /\ \A i \in 1 .. (Len(Line) - 2) : b[i] = Line[2 + i]
        BY <2>1, <2>2, LeftBehind
    <2>4. Line' = b
        BY <2>1, <2>3
    <2>5. CASE InStep
        <3>1. HasCome /\ mode = "command" /\ pos = op.track
            <4>1. Len(Line) # 0
                BY <2>1
            <4> QED
                BY <1>1, <2>5, <4>1 DEF InStep, Coming, Arrived
        <3>2. \A i \in 1 .. Len(b) : b[i] = 0 \/ b[i] = FluxByte(op.track)
            <4>1. ASSUME NEW i \in 1 .. Len(b) PROVE b[i] = 0 \/ b[i] = FluxByte(op.track)
                <5>1. i \in 1 .. (Len(Line) - 2) /\ 2 + i \in 3 .. Len(Line)
                    BY <2>2, <2>3
                <5> QED
                    BY <1>1, <2>1, <2>3, <3>1, <5>1 DEF HasCome
            <4> QED
                BY <4>1
        <3>3. \A i \in 1 .. Len(<<>>) : FALSE
            OBVIOUS
        <3> QED
            BY <1>1, <2>1, <2>4, <3>1, <3>2, <3>3 DEF FluxOk, Pure, HasCome
    <2>6. CASE Ahead
        <3>1. Len(Line) >= 3 /\ Line[3] = 0
            BY <2>1, <2>6, BehindRead DEF OneTrack
        <3>2. Len(b) >= 1 /\ b[1] = 0
            <4>1. 1 \in 1 .. (Len(Line) - 2) /\ 2 + 1 = 3
                BY <2>2, <3>1
            <4> QED
                BY <2>3, <3>1, <4>1
        <3>3. Ahead'
            <4>1. \A i \in 2 .. (2 + 1) : Line[i] # ReadFlux
                <5>1. \A i \in 2 .. (2 + 1) : i = 2 \/ i = 3
                    OBVIOUS
                <5> QED
                    BY <2>1, <3>1, <5>1 DEF AckOk, ReadFlux
            <4> QED
                BY <1>1, <2>1, <2>2, <2>6, <4>1, AheadRest
        <3>4. Line' # <<>> /\ Line'[1] = 0
            BY <2>4, <3>2
        <3> QED
            BY <2>1, <3>3, <3>4 DEF FluxOk
    <2> QED
        BY <1>1, <1>2, <2>5, <2>6 DEF StepOk, Seeking
<1>3. CASE step = "rest" /\ FluxRest
    <2>1. Line # <<>> /\ Line[1] # 0
        BY <1>3, FluxStep DEF GoTo
    <2>2. tx = <<>> /\ mode = "command" /\ pos = op.track /\ Pure(got) /\ Pure(Line)
        BY <1>1, <1>3, <2>1 DEF FluxOk
    <2>3. (got \o Line)' = got \o Line /\ got' \in Seq(Nat) /\ Line' \in Seq(Nat)
          /\ got \in Seq(Nat) /\ Line \in Seq(Nat)
        BY <1>3, FluxTaken, FluxStep DEF Base, Wire
    <2>4. PICK g, b \in Seq(Nat) : g = got' /\ b = Line'
        BY <2>3
    <2>5. PICK h, c \in Seq(Nat) : h = got /\ c = Line
        BY <2>3
    <2>6. g \o b = h \o c
        BY <2>3, <2>4, <2>5
    <2>7. Pure(h \o c)
        BY <2>2, <2>5, PureParts
    <2>8. Pure(g) /\ Pure(b)
        BY <2>6, <2>7, PureParts
    <2> QED
        BY <1>1, <2>2, <2>4, <2>8 DEF FluxOk, Pure
<1> QED
    BY <1>1, <1>2, <1>3

LEMMA HostStatusOk ==
    ASSUME Base, Order, FluxOk, Host PROVE StatusOk'
<1> SUFFICES ASSUME pc' = "rstatus" PROVE StatusOk'
    BY DEF StatusOk
<1>1. GoTo("rstatus") /\ pc = "read"
    <2>1. ~(\E v : Finish(v)) /\ ~Stays /\ ~WriteData
        BY DEF Finish, Stays, WriteData
    <2>2. ReadRest => pc = "rstatus"
        BY DEF ReadRest
    <2>3. \A l : GoTo(l) => l = "rstatus"
        BY DEF GoTo
    <2>4. \E l : Edge(pc, l) /\ GoTo(l)
        BY <2>1, <2>2, HostMoves DEF Base, Pinned
    <2>5. Edge(pc, "rstatus")
        BY <2>3, <2>4
    <2> QED
        BY <2>3, <2>4, <2>5 DEF Edge
<1>2. step = "rest" /\ FluxRest
    <2>1. ASSUME NEW r, Answer(r) PROVE FALSE
        <3>1. ReadAnswer(r)
            BY <1>1, <2>1, AnswerAt
        <3> QED
            BY <1>1, <3>1 DEF ReadAnswer, Again, GoTo, ReadRest, Failed, Finish
    <2> QED
        BY <1>1, <2>1 DEF Host, Header, HeaderLate, InfoRest, PinRest, FluxRest, WriteData, SyncByte
<1>3. PICK e \in Sent : tx' = Append(tx, e) /\ e.c = FluxStatus
    <2>1. Sends("rstatus", op) \in Sent
        BY SentIs DEF Base, Labels
    <2>2. Sends("rstatus", op).c = FluxStatus
        <3>1. Code("rstatus") = FluxStatus
            BY DEF Code, Pinned
        <3> QED
            BY <3>1, CodeOf DEF Labels
    <2> QED
        BY <1>1, <2>1, <2>2 DEF GoTo, Write
<1>4. /\ tx \in Seq(Sent) /\ Len(tx) \in Nat /\ Len(tx') = Len(tx) + 1 /\ tx' # <<>>
      /\ tx'[Len(tx) + 1] = e /\ \A j \in 1 .. Len(tx) : tx'[j] = tx[j]
    <2>1. tx \in Seq(Sent)
        BY DEF Base, Wire
    <2> QED
        BY <1>3, <2>1, OneMore
<1>5. op' = op /\ UNCHANGED device /\ Line \in Seq(Nat) /\ Len(Line) \in Nat
    BY <1>2, FluxStep
<1>6. CASE tx = <<>> /\ mode = "command" /\ pos = op.track /\ Pure(got) /\ Pure(Line)
    <2>3. (got \o Line)' = got \o Line /\ got' \in Seq(Nat) /\ Line' \in Seq(Nat)
          /\ got \in Seq(Nat) /\ Line \in Seq(Nat)
        BY <1>2, FluxTaken, FluxStep DEF Base, Wire
    <2>4. PICK g, b \in Seq(Nat) : g = got' /\ b = Line'
        BY <2>3
    <2>5. PICK h, c \in Seq(Nat) : h = got /\ c = Line
        BY <2>3
    <2>6. g \o b = h \o c
        BY <2>3, <2>4, <2>5
    <2>7. Pure(h \o c)
        BY <1>6, <2>5, PureParts
    <2>8. Pure(g) /\ Pure(b)
        BY <2>6, <2>7, PureParts
    <2>9. Len(tx') = 1
        <3>1. Len(tx) = 0 /\ 0 + 1 = 1
            BY <1>6
        <3> QED
            BY <1>4, <3>1
    <2>10. b # <<>> => b[1] # FluxStatus
        <3>1. ASSUME b # <<>> PROVE b[1] # FluxStatus
            <4>1. 1 \in 1 .. Len(b)
                BY <3>1, EmptySeq
            <4>2. op.track \in Tracks
                <5>1. op.track \in Targets
                    BY DEF Base, Types
                <5> QED
                    BY <5>1, TargetIs
            <4>3. FluxByte(op.track) >= 200
                BY <4>2, FluxIs
            <4>4. b[1] = 0 \/ b[1] = FluxByte(op.track)
                BY <2>8, <4>1 DEF Pure
            <4> QED
                BY <4>3, <4>4 DEF FluxStatus
        <3> QED
            BY <3>1
    <2>11. OwnStatus'
        BY <1>5, <1>6, <2>4, <2>9, <2>10 DEF OwnStatus
    <2>12. Pure(got)'
        BY <1>5, <2>4, <2>8 DEF Pure
    <2> QED
        BY <2>11, <2>12 DEF StatusOk
<1>7. CASE got = <<>> /\ Line # <<>> /\ Line[1] = 0 /\ Ahead
    <2>1. Pure(got)'
        <3>1. CASE got' = got
            BY <1>5, <1>7, <3>1 DEF Pure
        <3>2. CASE \E a \in Seq(Nat) : got' = got \o a /\ Len(a) = 1 /\ a[1] = 0
            <4>1. PICK a \in Seq(Nat) : got' = got \o a /\ Len(a) = 1 /\ a[1] = 0
                BY <3>2
            <4>2. got' = a
                BY <1>7, <4>1, ConcatEmptySeq
            <4>3. \A i \in 1 .. Len(a) : a[i] = 0
                BY <4>1
            <4> QED
                BY <4>2, <4>3 DEF Pure
        <3> QED
            BY <1>2, <1>7, <3>1, <3>2, FluxStep
    <2>2. ASSUME tx = <<>>, mode = "command" PROVE Len(Line) >= 2
        BY <1>5, <1>7, <2>2 DEF Ahead
    <2>3. ASSUME tx # <<>> PROVE tx'[1].c # FluxStatus
        <3>1. Len(tx) >= 1 /\ 1 \in 1 .. Len(tx)
            BY <1>4, <2>3, OneLess
        <3>2. CASE Len(tx) >= 2
            <4>1. 1 \in 1 .. (Len(tx) - 1)
                BY <1>4, <3>2
            <4> QED
                BY <1>4, <1>7, <3>1, <4>1 DEF Ahead
        <3>3. CASE ~(Len(tx) >= 2)
            <4>1. \A n \in Nat : n >= 1 /\ ~(n >= 2) => n = 1
                OBVIOUS
            <4>2. Len(tx) = 1
                BY <1>4, <3>1, <3>3, <4>1, Zenon
            <4>3. tx[Len(tx)].c = Code(pc)
                BY <1>1, <2>3 DEF Order, LastOwn
            <4>4. Code(pc) = ReadFlux
                BY <1>1 DEF Code, Pinned
            <4> QED
                BY <1>4, <3>1, <4>2, <4>3, <4>4 DEF ReadFlux, FluxStatus
        <3> QED
            BY <3>2, <3>3
    <2>4. CASE Line' = Line
        <3>1. Line' # <<>> /\ Line'[1] # FluxStatus
            BY <1>7, <2>4 DEF FluxStatus
        <3> QED
            BY <2>1, <3>1 DEF OwnStatus, StatusOk
    <2>5. CASE Line' = After(Line, 1)
        <3>1. 1 \in 0 .. Len(Line)
            BY <1>5, <1>7, EmptySeq
        <3>2. PICK b \in Seq(Nat) : b = After(Line, 1) /\ Len(b) = Len(Line) - 1
                                /\ \A i \in 1 .. (Len(Line) - 1) : b[i] = Line[1 + i]
            BY <1>5, <3>1, LeftBehind
        <3>3. ASSUME b # <<>> PROVE b[1] # FluxStatus
            <4>1. 1 \in 1 .. Len(b) /\ 1 + 1 = 2
                BY <3>3, EmptySeq
            <4>2. b[1] = Line[2] /\ 2 \in 1 .. Len(Line)
                BY <1>5, <3>2, <4>1
            <4>3. CASE Clean(Line)
                BY <4>2, <4>3 DEF Clean
            <4>4. CASE \E k \in 1 .. (Len(Line) - 1) :
                Line[k + 1] = ReadFlux
                /\ \A i \in 1 .. k : Line[i] < 200 /\ Line[i] \notin {Overflow, FluxStatus}
                <5>1. PICK k \in 1 .. (Len(Line) - 1) :
                Line[k + 1] = ReadFlux
                /\ \A i \in 1 .. k : Line[i] < 200 /\ Line[i] \notin {Overflow, FluxStatus}
                    BY <4>4
                <5>2. k = 1 \/ 2 \in 1 .. k
                    BY <1>5
                <5>3. CASE k = 1
                    BY <4>2, <5>1, <5>3 DEF ReadFlux, FluxStatus
                <5> QED
                    BY <4>2, <5>1, <5>2, <5>3
            <4> QED
                BY <1>7, <4>3, <4>4 DEF Ahead
        <3>4. b = <<>> => ~(tx = <<>> /\ mode = "command")
            <4>1. ASSUME Len(Line) >= 2, b = <<>> PROVE FALSE
                <5>1. Len(b) = 0
                    BY <4>1
                <5> QED
                    BY <1>5, <3>2, <4>1, <5>1
            <4> QED
                BY <2>2, <4>1
        <3>5. Line' = b
            BY <2>5, <3>2
        <3> QED
            BY <1>5, <2>1, <2>3, <3>3, <3>4, <3>5 DEF OwnStatus, StatusOk
    <2>6. Line' = Line \/ Line' = After(Line, 1)
        BY <1>2, <1>7, FluxStep
    <2> QED
        BY <2>1, <2>4, <2>5, <2>6 DEF StatusOk
<1> QED
    BY <1>1, <1>2, <1>6, <1>7 DEF FluxOk

LEMMA HostDoneOk ==
    ASSUME Base, StatusOk, Host PROVE DoneOk'
<1> SUFFICES ASSUME pc' = "idle", res' = "ok", op'.kind = "read" PROVE Pure(got)'
    BY DEF DoneOk
<1>1. op' = op
    BY HostMoves DEF Base
<1>2. pc = "rstatus" /\ got' = got
    <2>1. KindFits
        BY DEF Base, Places
    <2>2. pc # "wstatus"
        BY <1>1, <2>1 DEF KindFits
    <2> QED
        BY <1>1, <2>2, GoodEnds
<1> QED
    BY <1>1, <1>2 DEF StatusOk, Pure

\* The device takes command e, and u is what it puts on the line for it.
Executed(e, ack, p, u) ==
    /\ Taken(e) /\ Says(e, ack, p) /\ u = Adds(e, ack, p) /\ Line' = Line \o u
    /\ Len(u) = 2 + Len(p) /\ Len(p) \in Nat /\ u[1] = e.c /\ u[2] = ack
    /\ \A i \in 1 .. Len(p) : u[2 + i] = p[i]
    /\ Line = <<>> => Line' = u
    /\ Len(Line') = Len(Line) + Len(u) /\ Line' # <<>>
    /\ \A i \in 1 .. Len(Line) : Line'[i] = Line[i]
    /\ \A i \in 1 .. Len(u) : Line'[Len(Line) + i] = u[i]

LEMMA CommandStep ==
    ASSUME Base, DeviceCommand
    PROVE  /\ UNCHANGED host /\ mode = "command" /\ Line \in Seq(Nat) /\ Line' \in Seq(Nat)
           /\ Len(rx') >= 2 /\ Len(Line) \in Nat
           /\ \E e \in Sent, ack \in Nat, p \in Seq(Nat), u \in Seq(Nat) : Executed(e, ack, p, u)
<1>1. /\ UNCHANGED host /\ mode = "command" /\ tx # <<>> /\ out = <<>> /\ tx' = Tail(tx)
      /\ Line = rx
    BY Executes DEF Base
<1>2. PICK e \in Sent, ack \in Nat, p \in Seq(Nat) :
          /\ e = Head(tx) /\ Says(e, ack, p) /\ rx' = rx \o <<e.c, ack>> /\ out' = p
    BY Executes DEF Base
<1>3. rx \in Seq(Nat) /\ Len(rx) \in Nat
    BY DEF Base, Wire
<1>4. /\ Len(rx') = Len(rx) + 2 /\ Line' = Line \o Adds(e, ack, p) /\ Line' \in Seq(Nat)
    BY <1>1, <1>2, LineAfterCommand DEF Base
<1>5. Taken(e)
    BY <1>1, <1>2 DEF Taken
<1>6. PICK u \in Seq(Nat) :
          /\ u = Adds(e, ack, p) /\ Len(u) = 2 + Len(p) /\ u[1] = e.c /\ u[2] = ack
          /\ \A i \in 1 .. Len(p) : u[2 + i] = p[i]
    BY Added, ZenonT(30)
<1>7. PICK s \in Seq(Nat) : s = Line
    BY <1>1, <1>3
<1>8. /\ Len(s \o u) = Len(s) + Len(u) /\ Len(s) \in Nat /\ Len(u) \in Nat
      /\ \A i \in 1 .. Len(s) : (s \o u)[i] = s[i]
      /\ \A i \in 1 .. Len(u) : (s \o u)[Len(s) + i] = u[i]
    BY Extended
<1>9. s = <<>> => s \o u = u
    BY ConcatEmptySeq
<1>10. Len(p) \in Nat
    OBVIOUS
<1>11. PICK b \in Seq(Nat) : b = s \o u
    BY Joined
<1>12. b # <<>>
    <2>1. Len(b) # 0
        BY <1>6, <1>8, <1>10, <1>11
    <2> QED
        BY <2>1
<1>13. Line' = b
    BY <1>4, <1>6, <1>7, <1>11
<1>14. Line' = Line \o u /\ Line' # <<>> /\ Len(Line') = Len(Line) + Len(u)
    BY <1>6, <1>4, <1>7, <1>8, <1>11, <1>12, <1>13
<1>15. /\ \A i \in 1 .. Len(Line) : Line'[i] = Line[i]
       /\ \A i \in 1 .. Len(u) : Line'[Len(Line) + i] = u[i]
    BY <1>7, <1>8, <1>11, <1>13
<1>16. Line = <<>> => Line' = u
    BY <1>7, <1>9, <1>11, <1>13
<1>17. Executed(e, ack, p, u)
    BY <1>2, <1>5, <1>6, <1>10, <1>14, <1>15, <1>16 DEF Executed
<1>18. Len(rx') >= 2
    BY <1>3, <1>4
<1> QED
    BY <1>1, <1>3, <1>4, <1>17, <1>18

\* The last command sent is the host's own.
LEMMA OwnTaken ==
    ASSUME Base, LastOwn, pc # "idle", NEW e \in Sent, Taken(e)
    PROVE  tx' = <<>> => e.c = Code(pc)
<1>1. tx[1] = e /\ tx # <<>> /\ (tx' = <<>> => Len(tx) = 1)
    BY TakenIs DEF Taken
<1> QED
    BY <1>1 DEF LastOwn

LEMMA SeekingCodes ==
    ASSUME pc \in Seeking
    PROVE  /\ Code(pc) \in {Seek, NoClickStep, Head_, GetPin, ReadFlux}
           /\ pc \in LatePins => Code(pc) = GetPin
           /\ pc \in {"oldhead", "head"} => Code(pc) = Head_
           /\ pc = "seek" <=> Code(pc) = Seek
           /\ pc = "click" <=> Code(pc) = NoClickStep
           /\ pc = "read" <=> Code(pc) = ReadFlux
BY DEF Seeking, LatePins, Code, Pinned, Seek, NoClickStep, Head_, GetPin, ReadFlux

LEMMA CommandComes ==
    ASSUME Base, Order, InStep, DeviceCommand, pc \in Seeking PROVE InStep'
<1>0. PICK e \in Sent, ack \in Nat, p \in Seq(Nat), u \in Seq(Nat) : Executed(e, ack, p, u)
    BY CommandStep
<1>1. /\ Taken(e) /\ Says(e, ack, p) /\ u = Adds(e, ack, p) /\ Line' = Line \o u
      /\ Len(u) = 2 + Len(p) /\ Len(p) \in Nat /\ u[1] = e.c /\ u[2] = ack
      /\ \A i \in 1 .. Len(p) : u[2 + i] = p[i]
      /\ Line = <<>> => Line' = u
      /\ Len(Line') = Len(Line) + Len(u) /\ Line' # <<>>
      /\ \A i \in 1 .. Len(Line) : Line'[i] = Line[i]
      /\ \A i \in 1 .. Len(u) : Line'[Len(Line) + i] = u[i]
    BY <1>0 DEF Executed
<1>2. UNCHANGED host /\ mode = "command" /\ Len(rx') >= 2
    BY CommandStep
<1>3. Coming
    BY <1>1 DEF InStep, HasCome, Taken
<1>4. tx[1] = e /\ tx' = <<>>
    BY <1>1, <1>3, TakenIs DEF Coming
<1>5. e.c = Code(pc)
    BY <1>1, <1>4, OwnTaken DEF Order, Seeking
<1>6. Line' = u
    BY <1>1, <1>3 DEF Coming
<1>7. mode' = "command"
    BY <1>1, <1>5, SeekingCodes, SMTT(20)
       DEF Says, WriteFlux, Seek, NoClickStep, Head_, GetPin, ReadFlux
<1>8. op.track \in Tracks /\ op.track = <<op.track[1], op.track[2]>> /\ pos \in Tracks
    <2>1. op.track \in Targets /\ pos \in Tracks
        BY DEF Base, Types, Wire
    <2> QED
        BY <2>1, TargetIs
<1>9. /\ pc = "seek" /\ ack = AckOk => pos'[1] = op.track[1]
      /\ pc = "head" /\ ack = AckOk => pos' = <<pos[1], op.track[2]>>
      /\ pc # "seek" => pos'[1] = pos[1]
      /\ pc \in {"read", "wptagain"} => pos' = pos
    <2>1. /\ pc = "seek" /\ ack = AckOk => pos' = <<e.arg, pos[2]>>
          /\ pc = "head" /\ ack = AckOk => pos' = <<pos[1], e.arg>>
          /\ pc # "seek" => pos' = pos \/ pos' = <<pos[1], e.arg>>
          /\ pc \in {"read", "wptagain"} => pos' = pos
        <3>1. pos' = IF ack = AckOk /\ e.c = Seek THEN <<e.arg, pos[2]>>
                     ELSE IF ack = AckOk /\ e.c = Head_ THEN <<pos[1], e.arg>> ELSE pos
            BY <1>1 DEF Says
        <3>2. /\ pc = "seek" <=> e.c = Seek
              /\ pc = "head" => e.c = Head_ /\ e.c # Seek
              /\ pc \in {"read", "wptagain"} => e.c # Seek /\ e.c # Head_
            BY <1>5, SeekingCodes DEF LatePins, Seek, Head_, GetPin, ReadFlux
        <3> QED
            BY <3>1, <3>2
    <2> QED
        BY <1>3, <1>4, <2>1 DEF Coming
<1>10. Arrived'
    BY <1>2, <1>9 DEF InStep, Arrived
<1>11. Len(p) = 0 \/ ack = AckOk
    <2>1. Len(<<>>) = 0
        OBVIOUS
    <2> QED
        BY <1>1, <2>1 DEF Says
<1>12. ASSUME ack = AckOk
       PROVE  /\ pc \in LatePins => Len(p) = 1 /\ (p[1] = 0 \/ p[1] = 1)
              /\ pc \notin LatePins \cup {"read"} => Len(p) = 0
    <2>1. pc \in LatePins => Len(p) = 1 /\ (p[1] = 0 \/ p[1] = 1)
        BY <1>1, <1>5, <1>12, SeekingCodes DEF Says
    <2>2. CASE pc \notin LatePins \cup {"read"}
        <3>1. e.c \in {Seek, NoClickStep, Head_}
            BY <1>5, <2>2, SeekingCodes DEF Seeking, LatePins
        <3>2. p = <<>>
            <4>1. e.c \notin {GetInfo, GetPin, ReadFlux}
                BY <3>1 DEF Seek, NoClickStep, Head_, GetInfo, GetPin, ReadFlux
            <4> QED
                BY <1>1, <4>1 DEF Says
        <3> QED
            BY <2>2, <3>2
    <2> QED
        BY <2>1, <2>2
<1>13. ASSUME pc = "read", ack = AckOk, NEW i \in 3 .. Len(u)
       PROVE  u[i] = 0 \/ u[i] = FluxByte(op.track)
    <2>1. i - 2 \in 1 .. Len(p) /\ 2 + (i - 2) = i
        BY <1>1
    <2>2. e.c = ReadFlux
        BY <1>5, <1>13, SeekingCodes
    <2>3. p[i - 2] = FluxByte(pos) \/ p[i - 2] = 0
        BY <1>1, <2>1, <2>2, PayloadBytes, SMTT(20)
    <2>4. pos = op.track
        BY <1>13 DEF InStep, Arrived
    <2> QED
        BY <1>1, <2>1, <2>3, <2>4
<1>14. pc = "head" /\ ack = AckOk => pos' = op.track
    BY <1>8, <1>9 DEF InStep, Arrived
<1>15. /\ ack # AckOk => Len(u) = 2
       /\ ack = AckOk /\ pc \in LatePins => Len(u) = 3 /\ (u[3] = 0 \/ u[3] = 1)
       /\ ack = AckOk /\ pc \notin LatePins \cup {"read"} => Len(u) = 2
    <2>1. Len(u) = 2 + Len(p) /\ 2 + 0 = 2 /\ 2 + 1 = 3
        BY <1>1
    <2>2. Len(p) = 1 => u[3] = p[1]
        <3>1. Len(p) = 1 => 1 \in 1 .. Len(p)
            OBVIOUS
        <3> QED
            BY <1>1, <2>1, <3>1
    <2> QED
        BY <1>11, <1>12, <2>1, <2>2, Zenon
<1>16. HasCome'
    BY <1>1, <1>2, <1>4, <1>5, <1>6, <1>9, <1>13, <1>14, <1>15, ZenonT(30) DEF HasCome, Code
<1> QED
    BY <1>7, <1>10, <1>16 DEF InStep

LEMMA CommandBehind ==
    ASSUME Base, Order, Lags, DeviceCommand, pc \in Seeking PROVE Lags'
<1>0. PICK e \in Sent, ack \in Nat, p \in Seq(Nat), u \in Seq(Nat) : Executed(e, ack, p, u)
    BY CommandStep
<1>1. /\ Taken(e) /\ Says(e, ack, p) /\ u = Adds(e, ack, p) /\ Line' = Line \o u
      /\ Len(u) = 2 + Len(p) /\ Len(p) \in Nat /\ u[1] = e.c /\ u[2] = ack
      /\ \A i \in 1 .. Len(p) : u[2 + i] = p[i]
      /\ Line = <<>> => Line' = u
      /\ Len(Line') = Len(Line) + Len(u) /\ Line' # <<>>
      /\ \A i \in 1 .. Len(Line) : Line'[i] = Line[i]
      /\ \A i \in 1 .. Len(u) : Line'[Len(Line) + i] = u[i]
    BY <1>0 DEF Executed
<1>2. UNCHANGED host /\ mode = "command" /\ Len(Line) \in Nat
    BY CommandStep
<1>3. CASE tx' # <<>>
    BY <1>1, <1>3 DEF Lags
<1>4. CASE tx' = <<>>
    <2>1. e.c = Code(pc)
        BY <1>1, <1>4, OwnTaken DEF Order, Seeking
    <2>2. Line # <<>>
        <3>1. Len(tx) = 1 /\ tx # <<>>
            BY <1>1, <1>4, TakenIs DEF Taken
        <3> QED
            BY <1>2, <3>1 DEF Lags
    <2>3. Len(Line) # 0
        <3>1. Line \in Seq(Nat)
            BY CommandStep
        <3> QED
            BY <2>2, <3>1, EmptySeq
    <2>4. Len(Line') >= 3 /\ (Len(Line) >= 2 => Len(Line') >= 4)
        BY <1>1, <1>2, <2>3
    <2>5. CASE ~(Len(Line) >= 2)
        <3>1. Len(Line) = 1
            <4>1. \A n \in Nat : n # 0 /\ ~(n >= 2) => n = 1
                OBVIOUS
            <4> QED
                BY <1>2, <2>3, <2>5, <4>1, Zenon
        <3>2. 1 \in 1 .. Len(u) /\ Len(Line) + 1 = 2
            BY <1>1, <3>1
        <3>3. Line'[2] = e.c
            BY <1>1, <3>2
        <3>4. e.c # AckOk
            BY <2>1, SeekingCodes DEF AckOk, Seek, NoClickStep, Head_, GetPin, ReadFlux
        <3> QED
            BY <1>4, <2>4, <3>3, <3>4 DEF Lags
    <2> QED
        BY <1>4, <2>4, <2>5 DEF Lags
<1> QED
    BY <1>3, <1>4

LEMMA CommandAhead ==
    ASSUME Base, Order, Ahead, DeviceCommand, pc = "read", Line # <<>> \/ Len(tx) >= 2
    PROVE  Ahead'
<1>0. PICK e \in Sent, ack \in Nat, p \in Seq(Nat), u \in Seq(Nat) : Executed(e, ack, p, u)
    BY CommandStep
<1>1. /\ Taken(e) /\ Says(e, ack, p) /\ u = Adds(e, ack, p) /\ Line' = Line \o u
      /\ Len(u) = 2 + Len(p) /\ Len(p) \in Nat /\ u[1] = e.c /\ u[2] = ack
      /\ \A i \in 1 .. Len(p) : u[2 + i] = p[i]
      /\ Line = <<>> => Line' = u
      /\ Len(Line') = Len(Line) + Len(u) /\ Line' # <<>>
      /\ \A i \in 1 .. Len(Line) : Line'[i] = Line[i]
      /\ \A i \in 1 .. Len(u) : Line'[Len(Line) + i] = u[i]
    BY <1>0 DEF Executed
<1>2. UNCHANGED host /\ mode = "command" /\ Len(Line) \in Nat /\ Line \in Seq(Nat)
    BY CommandStep
<1>3. /\ tx[1] = e /\ Len(tx) \in Nat /\ Len(tx) >= 1 /\ Len(tx') = Len(tx) - 1
      /\ \A i \in 1 .. (Len(tx) - 1) : tx'[i] = tx[i + 1]
      /\ (tx' = <<>> <=> Len(tx) = 1) /\ tx # <<>> /\ (tx' # <<>> => Len(tx) >= 2)
    BY <1>1, TakenIs DEF Taken
<1>4. Clean(Line)
    BY <1>3 DEF Ahead
<1>5. \A j \in 1 .. (Len(tx') - 1) : tx'[j].c \notin {ReadFlux, FluxStatus}
    <2>1. ASSUME NEW j \in 1 .. (Len(tx') - 1) PROVE tx'[j].c \notin {ReadFlux, FluxStatus}
        <3>1. j \in 1 .. (Len(tx) - 1) /\ j + 1 \in 1 .. (Len(tx) - 1)
            BY <1>3
        <3> QED
            BY <1>3, <3>1 DEF Ahead
    <2> QED
        BY <2>1
<1>6. CASE tx' # <<>>
    <2>1. 1 \in 1 .. (Len(tx) - 1)
        BY <1>3, <1>6
    <2>2. e.c \notin {ReadFlux, FluxStatus}
        BY <1>3, <2>1 DEF Ahead
    <2>3. Clean(u)
        BY <1>1, <2>2, AnswerClean
    <2>4. PICK s \in Seq(Nat) : s = Line
        BY <1>2
    <2>5. Clean(s \o u)
        BY <1>4, <2>3, <2>4, CleanMore
    <2>6. PICK b : b = s \o u
        OBVIOUS
    <2>7. Clean(b) /\ Line' = b
        BY <1>1, <2>4, <2>5, <2>6
    <2> QED
        BY <1>5, <1>6, <2>7 DEF Ahead, Clean
<1>7. CASE tx' = <<>>
    <2>1. e.c = ReadFlux
        <3>1. e.c = Code(pc)
            BY <1>1, <1>7, OwnTaken DEF Order
        <3> QED
            BY <3>1 DEF Code, Pinned
    <2>2. Line # <<>>
        <3>1. Len(tx) = 1 /\ ~(1 >= 2)
            BY <1>3, <1>7
        <3> QED
            BY <3>1, Zenon
    <2>3. Len(Line) # 0
        BY <1>2, <2>2, EmptySeq
    <2>4. Len(Line) \in 1 .. (Len(Line') - 1) /\ 1 \in 1 .. Len(u)
        BY <1>1, <1>2, <2>3
    <2>5. Line'[Len(Line) + 1] = ReadFlux
        BY <1>1, <2>1, <2>4
    <2>6. \A i \in 1 .. Len(Line) : Line'[i] < 200 /\ Line'[i] \notin {Overflow, FluxStatus}
        BY <1>1, <1>4 DEF Clean
    <2>7. mode' = "command"
        BY <1>1, <2>1 DEF Says, ReadFlux, WriteFlux
    <2> QED
        BY <1>5, <1>7, <2>4, <2>5, <2>6, <2>7 DEF Ahead
<1> QED
    BY <1>6, <1>7

\* What a write takes: it goes on, or it ends and a 0 follows on the line.
LEMMA DataStep ==
    ASSUME Base, DeviceData
    PROVE  /\ UNCHANGED host /\ mode = "data" /\ UNCHANGED pos
           /\ Line \in Seq(Nat) /\ Len(Line) \in Nat /\ Len(rx') = Len(rx)
           /\ \E e \in Sent : Taken(e) /\
                (\/ mode' = "data" /\ Line' = Line
                 \/ /\ mode' = "command" /\ e.c \in {FluxData, GetInfo}
                    /\ Len(Line') = Len(Line) + 1 /\ Line' # <<>> /\ Line'[Len(Line) + 1] = 0
                    /\ \A i \in 1 .. Len(Line) : Line'[i] = Line[i])
<1>1. /\ UNCHANGED <<host, rx, pos>> /\ mode = "data" /\ tx # <<>> /\ tx' = Tail(tx) /\ Line = rx
      /\ \/ UNCHANGED mode /\ Line' = Line
         \/ Head(tx).c \in {FluxData, GetInfo} /\ mode' = "command" /\ Line' = Line \o <<0>>
    BY DataEnds DEF Base
<1>2. rx \in Seq(Nat) /\ tx \in Seq(Sent)
    BY DEF Base, Wire
<1>3. PICK e \in Sent : e = Head(tx)
    BY <1>1, <1>2, OneLess
<1>4. PICK u \in Seq(Nat) : u = <<0>> /\ Len(u) = 1 /\ u[1] = 0
    <2>1. <<0>> \in Seq(Nat) /\ Len(<<0>>) = 1 /\ <<0>>[1] = 0
        OBVIOUS
    <2> QED
        BY <2>1
<1>5. PICK s \in Seq(Nat) : s = Line
    BY <1>1, <1>2
<1>6. /\ Len(s \o u) = Len(s) + Len(u) /\ Len(s) \in Nat
      /\ \A i \in 1 .. Len(s) : (s \o u)[i] = s[i]
      /\ \A i \in 1 .. Len(u) : (s \o u)[Len(s) + i] = u[i]
    BY Extended
<1>7. PICK b : b = s \o u
    OBVIOUS
<1>8. /\ Len(b) = Len(s) + 1 /\ b[Len(s) + 1] = 0 /\ \A i \in 1 .. Len(s) : b[i] = s[i]
    BY <1>4, <1>6, <1>7
<1>9. b # <<>>
    <2>1. Len(<<>>) = 0
        OBVIOUS
    <2> QED
        BY <1>6, <1>8, <2>1
<1>10. Line' = Line \o <<0>> => Line' = b
    BY <1>4, <1>5, <1>7
<1>11. Taken(e)
    BY <1>1, <1>3 DEF Taken
<1> QED
    BY <1>1, <1>2, <1>3, <1>5, <1>6, <1>8, <1>9, <1>10, <1>11

LEMMA CommandSteps ==
    ASSUME Base, Order, StepOk, PinOk, FluxOk, StatusOk, DeviceCommand
    PROVE  (StepOk /\ PinOk /\ FluxOk /\ StatusOk)'
<1>0. PICK e \in Sent, ack \in Nat, p \in Seq(Nat), u \in Seq(Nat) : Executed(e, ack, p, u)
    BY CommandStep
<1>1. /\ UNCHANGED host /\ mode = "command" /\ Line \in Seq(Nat) /\ Len(Line) \in Nat
    BY CommandStep
<1>2. /\ Taken(e) /\ Says(e, ack, p) /\ (Line = <<>> => Line' = u)
      /\ Len(u) = 2 + Len(p) /\ Len(p) \in Nat /\ u[1] = e.c /\ u[2] = ack
      /\ Len(Line') = Len(Line) + Len(u) /\ Line' # <<>>
      /\ \A i \in 1 .. Len(Line) : Line'[i] = Line[i]
    BY <1>0 DEF Executed
<1>3. tx[1] = e /\ tx # <<>>
    BY <1>2, TakenIs DEF Taken
<1>4. Line # <<>> => Line'[1] = Line[1]
    <2>1. Line # <<>> => 1 \in 1 .. Len(Line)
        BY <1>1, EmptySeq
    <2> QED
        BY <1>2, <2>1
<1>5. StepOk'
    <2> SUFFICES ASSUME pc \in Seeking, step = "wait"
                 PROVE  InStep' \/ (Lags' /\ (pc = "read" => Ahead') /\ (pc = "wptagain" => NoPin'))
        BY <1>1 DEF StepOk
    <2>1. CASE InStep
        BY <2>1, CommandComes
    <2>2. CASE Lags /\ (pc = "read" => Ahead) /\ (pc = "wptagain" => NoPin)
        <3>1. Lags'
            BY <2>2, CommandBehind
        <3>2. pc = "read" => Ahead'
            <4>1. Line # <<>> \/ Len(tx) >= 2
                BY <1>1, <1>3, <2>2 DEF Lags
            <4> QED
                BY <2>2, <4>1, CommandAhead
        <3>3. ASSUME pc = "wptagain" PROVE NoPin'
            <4>1. CASE Line # <<>>
                BY <1>2, <1>4, <2>2, <3>3, <4>1 DEF NoPin
            <4>2. CASE Line = <<>>
                BY <1>1, <1>2, <1>3, <2>2, <3>3, <4>2 DEF NoPin
            <4> QED
                BY <4>1, <4>2
        <3> QED
            BY <3>1, <3>2, <3>3
    <2> QED
        BY <2>1, <2>2 DEF StepOk
<1>6. PinOk'
    <2> SUFFICES ASSUME pc \in LatePins, step = "rest"
                 PROVE  pc # "wptagain" /\ Len(Line') >= 2
        BY <1>1 DEF PinOk
    <2> QED
        BY <1>1, <1>2, <1>3 DEF PinOk
<1>7. FluxOk'
    <2> SUFFICES ASSUME pc = "read", step = "rest" PROVE FluxOk'
        BY <1>1 DEF FluxOk
    <2>1. got = <<>> /\ Line # <<>> /\ Line[1] = 0 /\ Ahead
        BY <1>3 DEF FluxOk
    <2>2. Ahead'
        BY <2>1, CommandAhead
    <2> QED
        BY <1>1, <1>2, <1>4, <2>1, <2>2 DEF FluxOk
<1>8. StatusOk'
    <2> SUFFICES ASSUME pc = "rstatus" PROVE (Pure(got) /\ OwnStatus)'
        BY <1>1 DEF StatusOk
    <2>1. Pure(got)'
        BY <1>1 DEF StatusOk, Pure
    <2>2. CASE Line # <<>>
        BY <1>2, <1>3, <1>4, <2>1, <2>2 DEF StatusOk, OwnStatus
    <2>3. CASE Line = <<>>
        <3>1. ASSUME Line'[1] = FluxStatus
              PROVE  Len(Line') = 2 /\ tx' = <<>> /\ mode' = "command" /\ pos' = op.track
            <4>1. e.c = FluxStatus
                BY <1>2, <2>3, <3>1
            <4>2. Len(tx) = 1 /\ pos = op.track
                BY <1>1, <1>3, <2>3, <4>1 DEF StatusOk, OwnStatus
            <4>3. tx' = <<>>
                BY <1>2, <4>2, TakenIs
            <4>4. p = <<>> /\ mode' = "command" /\ pos' = pos
                BY <1>2, <4>1
                   DEF Says, FluxStatus, GetInfo, GetPin, ReadFlux, WriteFlux, Seek, Head_
            <4>5. Len(p) = 0
                BY <4>4
            <4>6. Len(Line') = 2
                BY <1>2, <2>3, <4>5
            <4> QED
                BY <4>2, <4>3, <4>4, <4>6
        <3> QED
            BY <1>1, <1>2, <2>1, <3>1 DEF OwnStatus
    <2> QED
        BY <2>2, <2>3
<1> QED
    BY <1>5, <1>6, <1>7, <1>8

LEMMA DataSteps ==
    ASSUME Base, Order, StepOk, PinOk, FluxOk, StatusOk, DeviceData
    PROVE  (StepOk /\ PinOk /\ FluxOk /\ StatusOk)'
<1>1. /\ UNCHANGED host /\ mode = "data" /\ UNCHANGED pos
      /\ Line \in Seq(Nat) /\ Len(Line) \in Nat
    BY DataStep
<1>2. PICK e \in Sent : Taken(e) /\
                (\/ mode' = "data" /\ Line' = Line
                 \/ /\ mode' = "command" /\ e.c \in {FluxData, GetInfo}
                    /\ Len(Line') = Len(Line) + 1 /\ Line' # <<>> /\ Line'[Len(Line) + 1] = 0
                    /\ \A i \in 1 .. Len(Line) : Line'[i] = Line[i])
    BY DataStep
<1>3. /\ tx[1] = e /\ Len(tx) \in Nat /\ Len(tx) >= 1 /\ Len(tx') = Len(tx) - 1
      /\ \A i \in 1 .. (Len(tx) - 1) : tx'[i] = tx[i + 1]
    BY <1>2, TakenIs
<1>4. Line # <<>> => Line' # <<>> /\ Line'[1] = Line[1]
    <2>1. Line # <<>> => 1 \in 1 .. Len(Line)
        BY <1>1, EmptySeq
    <2> QED
        BY <1>2, <2>1
<1>5. mode' = "command" /\ Line = <<>> => Line' # <<>> /\ Line'[1] = 0
    <2>1. ASSUME Line = <<>> PROVE Len(Line) = 0 /\ Len(Line) + 1 = 1
        BY <2>1
    <2> QED
        BY <1>2, <2>1
\* The data ends with a command of an earlier operation, not with the host's own.
<1>6. pc \in Seeking /\ mode' # "data" => tx' # <<>> /\ Line' # <<>>
    <2>1. ASSUME pc \in Seeking, tx' = <<>>, e.c \in {FluxData, GetInfo} PROVE FALSE
        <3>1. e.c = Code(pc)
            BY <1>2, <2>1, OwnTaken DEF Order, Seeking
        <3> QED
            BY <2>1, <3>1, SeekingCodes
               DEF FluxData, GetInfo, Seek, NoClickStep, Head_, GetPin, ReadFlux
    <2> QED
        BY <1>2, <2>1
<1>7. ASSUME Ahead, pc = "read" PROVE Ahead'
    <2>1. Clean(Line)
        BY <1>1, <1>7 DEF Ahead
    <2>2. Clean(Line')
        <3>1. CASE Line' = Line
            BY <2>1, <3>1
        <3>2. CASE mode' = "command" /\ Line' # Line
            <4>1. ASSUME NEW i \in 1 .. Len(Line') PROVE Line'[i] < 200 /\ Line'[i] \notin {Overflow, FluxStatus}
                <5>1. i \in 1 .. Len(Line) \/ i = Len(Line) + 1
                    BY <1>1, <1>2, <3>2
                <5> QED
                    BY <1>2, <2>1, <3>2, <5>1 DEF Clean, Overflow, FluxStatus
            <4> QED
                BY <4>1 DEF Clean
        <3> QED
            BY <1>2, <3>1, <3>2
    <2>3. ASSUME NEW j \in 1 .. (Len(tx') - 1) PROVE tx'[j].c \notin {ReadFlux, FluxStatus}
        <3>1. j \in 1 .. (Len(tx) - 1) /\ j + 1 \in 1 .. (Len(tx) - 1)
            BY <1>3
        <3> QED
            BY <1>3, <1>7, <3>1 DEF Ahead
    <2>4. mode' = "data" \/ tx' # <<>>
        BY <1>6, <1>7 DEF Seeking
    <2> QED
        BY <2>2, <2>3, <2>4 DEF Ahead, Clean
<1>8. StepOk'
    <2> SUFFICES ASSUME pc \in Seeking, step = "wait"
                 PROVE  Lags' /\ (pc = "read" => Ahead') /\ (pc = "wptagain" => NoPin')
        BY <1>1 DEF StepOk
    <2>1. (pc = "read" => Ahead) /\ (pc = "wptagain" => NoPin)
        BY <1>1 DEF StepOk, InStep
    <2>2. Lags'
        BY <1>6 DEF Lags
    <2>3. ASSUME pc = "wptagain" PROVE NoPin'
        <3>1. CASE Line # <<>>
            BY <1>4, <2>1, <2>3, <3>1 DEF NoPin
        <3>2. CASE Line = <<>>
            BY <1>2, <1>5, <3>2 DEF NoPin, GetPin
        <3> QED
            BY <3>1, <3>2
    <2> QED
        BY <1>7, <2>1, <2>2, <2>3
<1>9. PinOk'
    <2> SUFFICES ASSUME pc \in LatePins, step = "rest" PROVE PinOk'
        BY <1>1 DEF PinOk
    <2>1. pc # "wptagain" /\ pc \in Seeking
        BY <1>1 DEF PinOk, LatePins, Seeking
    <2> QED
        BY <1>1, <1>6, <2>1 DEF PinOk
<1>10. FluxOk'
    <2> SUFFICES ASSUME pc = "read", step = "rest" PROVE FluxOk'
        BY <1>1 DEF FluxOk
    <2>1. got = <<>> /\ Line # <<>> /\ Line[1] = 0 /\ Ahead
        BY <1>1 DEF FluxOk
    <2> QED
        BY <1>1, <1>4, <1>7, <2>1 DEF FluxOk
<1>11. StatusOk'
    <2> SUFFICES ASSUME pc = "rstatus" PROVE (Pure(got) /\ OwnStatus)'
        BY <1>1 DEF StatusOk
    <2>1. Pure(got)'
        BY <1>1 DEF StatusOk, Pure
    <2>2. Line # <<>> => Line[1] # FluxStatus
        BY <1>1 DEF StatusOk, OwnStatus
    <2>3. Line' # <<>> => Line'[1] # FluxStatus
        BY <1>2, <1>4, <1>5, <2>2 DEF FluxStatus
    <2>4. Line' = <<>> => mode' = "data"
        BY <1>2
    <2> QED
        BY <2>1, <2>3, <2>4 DEF OwnStatus
<1> QED
    BY <1>8, <1>9, <1>10, <1>11

LEMMA SendingSteps ==
    ASSUME Base, StepOk, PinOk, FluxOk, StatusOk, Carry
    PROVE  (StepOk /\ PinOk /\ FluxOk /\ StatusOk)'
<1>1. /\ UNCHANGED <<host, tx, mode, pos>> /\ Line' = Line /\ Len(rx') >= Len(rx)
      /\ Len(rx) \in Nat /\ Len(rx') \in Nat
    <2>1. UNCHANGED <<host, tx, mode, pos>> /\ Line' = Line /\ Len(rx') >= Len(rx) /\ rx' \in Seq(Nat)
        BY SendsOn DEF Base
    <2>2. rx \in Seq(Nat)
        BY DEF Base, Wire
    <2> QED
        BY <2>1, <2>2
<1>2. Len(rx) >= 2 => Len(rx') >= 2
    BY <1>1
<1>3. /\ Lags => Lags'
      /\ Ahead => Ahead'
      /\ NoPin => NoPin'
      /\ Arrived <=> Arrived'
      /\ Coming => Coming'
      /\ HasCome => HasCome'
    BY <1>1, <1>2 DEF Lags, Ahead, NoPin, Arrived, Coming, HasCome, Clean
<1>4. /\ Pure(got) => Pure(got)'
      /\ OwnStatus => OwnStatus'
    BY <1>1 DEF Pure, OwnStatus
<1>5. Pure(Line) => Pure(Line)'
    BY <1>1 DEF Pure
<1>6. StepOk' /\ PinOk'
    BY <1>1, <1>3 DEF StepOk, PinOk, InStep
<1> QED
    BY <1>1, <1>3, <1>4, <1>5, <1>6 DEF FluxOk, StatusOk

LEMMA HostSteps == ASSUME Base, Order, OneTrack, Settled, Steps, Host PROVE Steps'
<1> SUFFICES ASSUME InReach PROVE (StepOk /\ PinOk /\ FluxOk /\ StatusOk /\ DoneOk)'
    <2>1. op' = op
        BY HostMoves DEF Base
    <2> QED
        BY <2>1 DEF Steps, InReach, ReadBound, WriteBound
<1>1. StepOk /\ PinOk /\ FluxOk /\ StatusOk
    BY DEF Steps
<1> QED
    BY <1>1, HostStepOk, HostPinOk, HostFluxOk, HostStatusOk, HostDoneOk

LEMMA DeviceSteps == ASSUME Base, Order, Steps, Device \/ UNCHANGED vars PROVE Steps'
<1>1. UNCHANGED host
    <2>1. DeviceCommand => UNCHANGED host
        BY CommandStep
    <2>2. DeviceData => UNCHANGED host
        BY DataStep
    <2> QED
        BY <2>1, <2>2 DEF Device, DeviceSends
<1> SUFFICES ASSUME InReach PROVE (StepOk /\ PinOk /\ FluxOk /\ StatusOk /\ DoneOk)'
    BY <1>1 DEF Steps, InReach, ReadBound, WriteBound
<1>2. StepOk /\ PinOk /\ FluxOk /\ StatusOk /\ DoneOk
    BY DEF Steps
<1>3. DoneOk'
    BY <1>1, <1>2 DEF DoneOk, Pure
<1>4. DeviceCommand \/ DeviceData \/ Carry
    BY DEF Device, Carry
<1> QED
    BY <1>2, <1>3, <1>4, CommandSteps, DataSteps, SendingSteps

LEMMA BeginSteps == ASSUME NEW k \in Kinds, NEW t \in Targets, Begin(k, t) PROVE Steps'
BY DEF Begin, Steps, StepOk, PinOk, FluxOk, StatusOk, DoneOk, Seeking, LatePins

LEMMA InitSteps == Init => Steps
BY DEF Init, Steps, StepOk, PinOk, FluxOk, StatusOk, DoneOk, Seeking, LatePins

-----------------------------------------------------------------------------
(* From the second look at the protection on a write is alone on the line. *)

Told == status = AckOk => laid = "whole"
Loaded ==
    \A j \in 1 .. Len(tx) :
        /\ tx[j].c = WriteFlux => j = 1 /\ mode = "command" /\ pos = tx[j].arg
        /\ tx[j].c = FluxData => j = 1 /\ mode = "data" /\ pos = tx[j].arg
WaitsToWrite == pc = "write" /\ step = "wait" =>
    /\ (Line = <<>> \/ Line[1] # WriteFlux) /\ tx # <<>> =>
           Len(tx) = 1 /\ mode = "command" /\ pos = op.track
    /\ Line = <<>> => tx # <<>>
    /\ Line # <<>> /\ Line[1] = WriteFlux =>
           tx = <<>> /\ Len(Line) = 2 /\ (Line[2] = AckOk => mode = "data" /\ pos = op.track)
MayWrite == pc = "write" /\ step = "rest" =>
    tx = <<>> /\ Line = <<>> /\ mode = "data" /\ pos = op.track
Syncing == pc = "sync" =>
    /\ pos = op.track
    /\ \/ Len(tx) = 1 /\ Line = <<>> /\ mode = "data"
       \/ tx = <<>> /\ Len(Line) = 1 /\ Line[1] = 0 /\ mode = "command" /\ Told
WaitsForStatus == pc = "wstatus" =>
    /\ pos = op.track
    /\ \/ Len(tx) = 2 /\ Line = <<>> /\ mode = "data" /\ tx[1].c = FluxData
       \/ Len(tx) = 1 /\ (Line = <<>> \/ (Len(Line) = 1 /\ Line[1] = 0)) /\ mode = "command" /\ Told
       \/ /\ tx = <<>> /\ mode = "command" /\ Line # <<>>
          /\ Line[1] = FluxStatus => Len(Line) = 2 /\ (Line[2] = AckOk => laid = "whole")
Written == pc = "idle" /\ res = "ok" /\ op.kind = "write" => tx = <<>> /\ laid = "whole"
WriteOk == WaitsToWrite /\ MayWrite /\ Syncing /\ WaitsForStatus /\ Written
Writes == WriteBound => Loaded /\ WriteOk

\* The commands that move no flux to the disk.
LEMMA WritingCodes ==
    ASSUME NEW l \in Labels, l # "write" PROVE Code(l) # WriteFlux /\ Code(l) # FluxData
<1>1. /\ Code("info") = GetInfo /\ Code("bus") = SetBus /\ Code("select") = Select_
      /\ Code("motor") = Motor /\ Code("seek") = Seek /\ Code("click") = NoClickStep
    BY DEF Code, Pinned
<1>2. /\ Code("oldhead") = Head_ /\ Code("head") = Head_ /\ Code("read") = ReadFlux
      /\ l \in Pinned => Code(l) = GetPin
      /\ Code("rstatus") = FluxStatus /\ Code("wstatus") = FluxStatus
    BY DEF Code, Pinned
<1>3. {GetInfo, SetBus, Select_, Motor, Seek, NoClickStep, Head_, ReadFlux, GetPin, FluxStatus}
      \cap {WriteFlux, FluxData} = {}
    BY DEF WriteFlux, FluxData, GetInfo, SetBus, Select_, Motor, Seek, NoClickStep, Head_, ReadFlux,
           GetPin, FluxStatus
<1> QED
    BY <1>1, <1>2, <1>3 DEF Labels, Pinned

\* A write is asked for, by a host that is in step: after a pin that is high ...
LEMMA AskedToWrite ==
    ASSUME Base, pc = "wptagain" => PinOk, WaitsForStatus, Host, pc' = "write", step' = "wait"
    PROVE  /\ tx = <<>> /\ mode = "command" /\ pos = op.track /\ Len(tx') = 1
           /\ Line' = <<>> \/ Line'[1] # WriteFlux
<1>0. ASSUME tx = <<>>, pc # "write" PROVE Len(tx') = 1
    <2>1. PICK e \in Sent : tx' = Append(tx, e)
        BY <1>0, HostAsks
    <2>2. tx \in Seq(Sent) /\ Len(tx) = 0 /\ 0 + 1 = 1
        BY <1>0 DEF Base, Wire
    <2> QED
        BY <2>1, <2>2, OneMore
<1>1. pc \in {"wptagain", "wstatus"}
    <2>1. ~(\E v : Finish(v)) /\ ~ReadRest /\ ~Stays /\ ~WriteData
        BY DEF Finish, ReadRest, Stays, WriteData
    <2>2. \A l : GoTo(l) => l = "write"
        BY DEF GoTo
    <2>3. \E l : Edge(pc, l) /\ GoTo(l)
        BY <2>1, HostMoves DEF Base
    <2> QED
        BY <2>2, <2>3 DEF Edge
<1>2. CASE pc = "wptagain"
    <2>1. ASSUME NEW r, Answer(r) PROVE FALSE
        <3>1. PinAnswer(r)
            BY <1>2, <2>1, AnswerAt DEF Pinned
        <3> QED
            BY <1>2, <3>1 DEF PinAnswer, Pin, ReadRest, Finish
    <2>2. PinRest /\ step = "rest"
        BY <1>2, <2>1 DEF Host, Header, HeaderLate, InfoRest, PinRest, FluxRest, WriteData, SyncByte
    <2>3. /\ tx = <<>> /\ mode = "command" /\ Arrived
          /\ Len(Line) = 1 /\ (Line[1] = 0 \/ Line[1] = 1)
        BY <1>2, <2>2 DEF PinOk, LatePins
    <2>4. Line' = <<>> \/ Line'[1] # WriteFlux
        <3>1. CASE Line' = Line
            BY <2>3, <3>1 DEF WriteFlux
        <3>2. CASE Line' \in Seq(Nat) /\ Len(Line') = Len(Line) - 1
            <4>1. Len(Line') = 0
                BY <2>3, <3>2
            <4> QED
                BY <3>2, <4>1, EmptySeq
        <3> QED
            BY <2>2, <3>1, <3>2, PinTakes
    <2> QED
        BY <1>0, <1>2, <2>3, <2>4 DEF Arrived
<1>3. CASE pc = "wstatus"
    <2>1. ASSUME NEW r, Answer(r) PROVE r = Underflow
        <3>1. WriteStatusAnswer(r)
            BY <1>3, <2>1, AnswerAt
        <3> QED
            BY <1>3, <3>1 DEF WriteStatusAnswer, Again, GoTo, Failed, Finish
    <2>2. Header
        <3>1. HeaderLate => Late = Underflow
            BY <2>1 DEF HeaderLate
        <3> QED
            BY <1>3, <3>1
               DEF Host, InfoRest, PinRest, FluxRest, WriteData, SyncByte, Late, Underflow
    <2>3. PICK r : r = Outcome
        OBVIOUS
    <2>4. r = Underflow
        BY <2>1, <2>2, <2>3 DEF Header
    <2>5. r = IF Line[1] = Code(pc) THEN Line[2] ELSE Mismatch
        BY <2>2, <2>3, HeaderIs
    <2>6. Line[1] = FluxStatus
        <3>1. Code(pc) = FluxStatus
            BY <1>3 DEF Code, Pinned
        <3> QED
            BY <2>4, <2>5, <3>1 DEF Underflow, Mismatch
    <2>7. Len(Line) >= 2 /\ Line \in Seq(Nat) /\ Len(Line) \in Nat /\ Line' = After(Line, 2)
        BY <2>2, HeaderIs DEF Resends
    <2>8. ~(Line = <<>>) /\ ~(Len(Line) = 1)
        <3>1. Len(<<>>) = 0 /\ ~(0 >= 2) /\ ~(1 >= 2)
            OBVIOUS
        <3> QED
            BY <2>7, <3>1, Zenon
    <2>9. pos = op.track /\ tx = <<>> /\ mode = "command" /\ Len(Line) = 2
        BY <1>3, <2>6, <2>8 DEF WaitsForStatus
    <2>10. Line' = <<>>
        BY <2>7, <2>9 DEF After
    <2> QED
        BY <1>0, <1>3, <2>9, <2>10
<1> QED
    BY <1>1, <1>2, <1>3

\* The data of a write goes out when its command has been answered.
LEMMA HostLoaded ==
    ASSUME Base, Loaded, MayWrite, pc = "wptagain" => PinOk, WaitsForStatus, Host
    PROVE  Loaded'
<1>1. UNCHANGED <<op, device>>
    BY HostMoves, HostTakes DEF Base
<1>2. CASE tx' = tx
    BY <1>1, <1>2 DEF Loaded
<1>3. CASE pc' \in {"write", "sync"} /\ tx' # tx
    <2>1. tx = <<>> /\ pos = op.track /\ (pc' = "write" => mode = "command") /\ (pc' = "sync" => mode = "data")
          /\ \E e \in Sent : tx' = Append(tx, e) /\ e.c = Code(pc') /\ e.arg = op.track
        <3>1. CASE pc' = "sync"
            <4>1. ~(\E l \in Labels : Edge(pc, l) /\ GoTo(l)) /\ ~(\E v : Finish(v))
                BY <3>1 DEF GoTo, Finish, Labels
            <4>2. WriteData
                BY <1>3, <3>1, <4>1, HostMoves DEF Base, ReadRest, Stays
            <4>3. pc = "write" /\ step = "rest" /\ tx' = Append(tx, [c |-> FluxData, arg |-> op.track])
                BY <4>2 DEF WriteData, Write
            <4>4. [c |-> FluxData, arg |-> op.track] \in Sent
                <5>1. op.track \in Tracks
                    BY TargetIs DEF Base, Types
                <5> QED
                    BY <5>1 DEF Sent, FluxData, Seek, Head_
            <4>5. PICK e \in Sent : e = [c |-> FluxData, arg |-> op.track]
                BY <4>4
            <4>6. Code("sync") = FluxData
                BY DEF Code, Pinned
            <4> QED
                BY <3>1, <4>3, <4>5, <4>6 DEF MayWrite
        <3>2. CASE pc' = "write"
            <4>1. GoTo("write")
                <5>1. ~(\E v : Finish(v)) /\ ~ReadRest /\ ~Stays /\ ~WriteData
                    BY <1>3, <3>2 DEF Finish, ReadRest, Stays, WriteData
                <5>2. \A l : GoTo(l) => l = "write"
                    BY <3>2 DEF GoTo
                <5> QED
                    BY <5>1, <5>2, HostMoves DEF Base
            <4>2. tx' = Append(tx, Sends("write", op)) /\ step' = "wait"
                BY <4>1 DEF GoTo, Write
            <4>3. PICK o : o = op
                OBVIOUS
            <4>4. Sends("write", o) = [c |-> WriteFlux, arg |-> o.track]
                BY SendsIs
            <4>5. [c |-> WriteFlux, arg |-> op.track] \in Sent
                <5>1. op.track \in Tracks
                    BY TargetIs DEF Base, Types
                <5> QED
                    BY <5>1 DEF Sent, WriteFlux, Seek, Head_
            <4>6. PICK e \in Sent : e = [c |-> WriteFlux, arg |-> op.track]
                BY <4>5
            <4>7. Code("write") = WriteFlux
                BY DEF Code, Pinned
            <4> QED
                BY <3>2, <4>2, <4>3, <4>4, <4>6, <4>7, AskedToWrite
        <3> QED
            BY <1>3, <3>1, <3>2
    <2>2. PICK e \in Sent : tx' = Append(tx, e) /\ e.c = Code(pc') /\ e.arg = op.track
        BY <2>1
    <2>3. Len(tx') = 1 /\ tx'[1] = e
        <3>1. tx \in Seq(Sent) /\ Len(tx) = 0 /\ 0 + 1 = 1
            BY <2>1 DEF Base, Wire
        <3> QED
            BY <2>2, <3>1, OneMore
    <2>4. Code("write") = WriteFlux /\ Code("sync") = FluxData
        BY DEF Code, Pinned
    <2>5. \A j \in 1 .. 1 : j = 1
        OBVIOUS
    <2> QED
        BY <1>1, <1>3, <2>1, <2>2, <2>3, <2>4, <2>5 DEF Loaded, WriteFlux, FluxData
<1>4. CASE pc' \notin {"write", "sync"} /\ tx' # tx
    <2>1. PICK e \in Sent : tx' = Append(tx, e) /\ e.c = Code(pc') /\ pc' # "idle"
        BY <1>4, HostAsks
    <2>2. pc' \in Labels \cup {"idle", "sync"}
        BY HostBase DEF Base, Types
    <2>3. e.c # WriteFlux /\ e.c # FluxData
        <3>1. PICK l : l = pc'
            OBVIOUS
        <3>2. l \in Labels /\ l # "write"
            BY <1>4, <2>1, <2>2, <3>1
        <3> QED
            BY <2>1, <3>1, <3>2, WritingCodes
    <2>4. /\ Len(tx') = Len(tx) + 1 /\ tx'[Len(tx) + 1] = e /\ Len(tx) \in Nat
          /\ \A j \in 1 .. Len(tx) : tx'[j] = tx[j]
        <3>1. tx \in Seq(Sent)
            BY DEF Base, Wire
        <3> QED
            BY <2>1, <3>1, OneMore
    <2>5. ASSUME NEW j \in 1 .. Len(tx')
          PROVE  /\ tx'[j].c = WriteFlux => j = 1 /\ mode = "command" /\ pos = tx'[j].arg
                 /\ tx'[j].c = FluxData => j = 1 /\ mode = "data" /\ pos = tx'[j].arg
        <3>1. j \in 1 .. Len(tx) \/ j = Len(tx) + 1
            BY <2>4
        <3>2. CASE j \in 1 .. Len(tx)
            BY <2>4, <3>2 DEF Loaded
        <3>3. CASE j = Len(tx) + 1
            BY <2>3, <2>4, <3>3
        <3> QED
            BY <3>1, <3>2, <3>3
    <2> QED
        BY <1>1, <2>5 DEF Loaded
<1> QED
    BY <1>2, <1>3, <1>4

LEMMA HostWriteOk ==
    ASSUME Base, Order, pc = "wptagain" => PinOk, WriteOk, Host PROVE WriteOk'
<1>1. UNCHANGED <<op, device>> /\ KindFits /\ Line \in Seq(Nat) /\ tx \in Seq(Sent) /\ rx \in Seq(Nat)
    BY HostMoves, HostTakes DEF Base, Places, Wire
<1>2. WaitsToWrite'
    <2> SUFFICES ASSUME pc' = "write", step' = "wait" PROVE WaitsToWrite'
        BY DEF WaitsToWrite
    <2>1. /\ mode = "command" /\ pos = op.track /\ Len(tx') = 1 /\ (Line' = <<>> \/ Line'[1] # WriteFlux)
        BY AskedToWrite DEF WriteOk
    <2>2. tx' # <<>>
        <3>1. Len(<<>>) # 1
            OBVIOUS
        <3> QED
            BY <2>1, <3>1
    <2> QED
        BY <1>1, <2>1, <2>2 DEF WaitsToWrite
<1>3. MayWrite'
    <2> SUFFICES ASSUME pc' = "write", step' = "rest" PROVE MayWrite'
        BY DEF MayWrite
    <2>1. ReadRest /\ step = "wait" /\ pc = "write"
        <3>1. \A l : ~GoTo(l) /\ ~Finish(l)
            BY DEF GoTo, Finish
        <3> QED
            BY <3>1, HostMoves DEF Base, ReadRest, Stays, WriteData
    <2>2. /\ Len(Line) >= 2 /\ Line[1] = WriteFlux /\ Line[2] = AckOk /\ Line' = After(Line, 2)
        <3>1. Code(pc) = WriteFlux
            BY <2>1 DEF Code, Pinned
        <3> QED
            BY <2>1, <3>1, Accepted
    <2>3. Line # <<>>
        <3>1. Len(<<>>) = 0 /\ ~(0 >= 2)
            OBVIOUS
        <3> QED
            BY <2>2, <3>1, Zenon
    <2>4. tx = <<>> /\ Len(Line) = 2 /\ mode = "data" /\ pos = op.track
        BY <2>1, <2>2, <2>3 DEF WriteOk, WaitsToWrite
    <2>5. Line' = <<>>
        BY <1>1, <2>2, <2>4 DEF After
    <2> QED
        BY <1>1, <2>1, <2>4, <2>5 DEF MayWrite, ReadRest
<1>4. Syncing'
    <2> SUFFICES ASSUME pc' = "sync" PROVE Syncing'
        BY DEF Syncing
    <2>1. WriteData
        <3>1. ~(\E l \in Labels : Edge(pc, l) /\ GoTo(l)) /\ ~(\E v : Finish(v)) /\ ~Stays
            BY DEF GoTo, Finish, Labels, Stays
        <3>2. ~ReadRest
            <4>1. ReadRest => pc = "sync" /\ step' = "rest"
                BY DEF ReadRest
            <4>2. pc = "sync" => SyncByte
                BY DEF Host, Header, HeaderLate, InfoRest, PinRest, FluxRest, WriteData
            <4>3. ~SyncByte
                BY DEF SyncByte, GoTo
            <4> QED
                BY <4>1, <4>2, <4>3
        <3> QED
            BY <3>1, <3>2, HostMoves DEF Base
    <2>2. tx = <<>> /\ Line = <<>> /\ mode = "data" /\ pos = op.track
        BY <2>1 DEF WriteOk, MayWrite, WriteData
    <2>3. PICK e \in Sent : tx' = Append(tx, e)
        BY <2>1, HostAsks DEF WriteData
    <2>4. Len(tx') = 1
        <3>1. Len(tx) = 0 /\ 0 + 1 = 1
            BY <2>2
        <3> QED
            BY <1>1, <2>3, <3>1, OneMore
    <2>5. Line' = Line
        BY <2>1 DEF WriteData, Line
    <2> QED
        BY <1>1, <2>2, <2>4, <2>5 DEF Syncing
<1>5. WaitsForStatus'
    <2> SUFFICES ASSUME pc' = "wstatus" PROVE WaitsForStatus'
        BY DEF WaitsForStatus
    <2>1. pc = "sync"
        <3>1. ~(\E v : Finish(v)) /\ ~Stays /\ ~WriteData
            BY DEF Finish, Stays, WriteData
        <3>2. ~ReadRest \/ pc = "wstatus"
            BY DEF ReadRest
        <3>3. \A l : GoTo(l) => l = "wstatus"
            BY DEF GoTo
        <3> QED
            BY <3>1, <3>2, <3>3, HostMoves DEF Base, Edge, Pinned
    <2>2. SyncByte
        BY <2>1 DEF Host, Header, HeaderLate, InfoRest, PinRest, FluxRest, WriteData
    <2>3. PICK e \in Sent : tx' = Append(tx, e)
        BY <2>1, HostAsks
    <2>4. /\ Len(tx') = Len(tx) + 1 /\ tx' # <<>> /\ Len(tx) \in Nat
          /\ \A j \in 1 .. Len(tx) : tx'[j] = tx[j]
        BY <1>1, <2>3, OneMore
    <2>5. CASE Len(tx) = 1 /\ Line = <<>> /\ mode = "data" /\ pos = op.track
        <3>1. rx = <<>>
            <4>1. Len(Line) = 0 /\ Len(Line) = Len(rx) + Len(out) /\ Len(rx) \in Nat /\ Len(out) \in Nat
                BY <2>5, Extended DEF Base, Wire, Line
            <4>2. \A a, b \in Nat : 0 = a + b => a = 0
                OBVIOUS
            <4>3. Len(rx) = 0
                BY <4>1, <4>2, Zenon
            <4> QED
                BY <1>1, <4>3, EmptySeq
        <3>2. Line' = Line
            <4>1. rx' = rx
                BY <2>2, <3>1 DEF SyncByte
            <4> QED
                BY <1>1, <4>1 DEF Line
        <3>3. tx[1].c = FluxData /\ tx'[1] = tx[1]
            <4>1. tx # <<>> /\ 1 \in 1 .. Len(tx)
                BY <2>4, <2>5
            <4>2. tx[1].c = Code("sync")
                BY <2>1, <2>5, <4>1 DEF Order, LastOwn
            <4>3. Code("sync") = FluxData
                BY DEF Code, Pinned
            <4> QED
                BY <2>4, <4>1, <4>2, <4>3
        <3>4. Len(tx') = 2
            BY <2>4, <2>5
        <3> QED
            BY <1>1, <2>5, <3>2, <3>3, <3>4 DEF WaitsForStatus
    <2>6. CASE /\ tx = <<>> /\ Len(Line) = 1 /\ Line[1] = 0 /\ mode = "command" /\ Told
               /\ pos = op.track
        <3>1. Len(tx') = 1
            <4>1. Len(tx) = 0 /\ 0 + 1 = 1
                BY <2>6
            <4> QED
                BY <2>4, <4>1
        <3>2. rx' = rx \/ (rx # <<>> /\ rx' = Tail(rx))
            BY <2>2 DEF SyncByte
        <3>3. Line' = <<>> \/ Line' = Line
            <4>1. CASE Line' \in Seq(Nat) /\ Len(Line') = Len(Line) - 1
                <5>1. Len(Line') = 0
                    BY <2>6, <4>1
                <5> QED
                    BY <4>1, <5>1, EmptySeq
            <4> QED
                BY <1>1, <3>2, <4>1, ByteTaken
        <3> QED
            BY <1>1, <2>6, <3>1, <3>3 DEF WaitsForStatus, Told
    <2> QED
        BY <2>1, <2>5, <2>6 DEF WriteOk, Syncing
<1>6. Written'
    <2> SUFFICES ASSUME pc' = "idle", res' = "ok", op.kind = "write" PROVE (tx = <<>> /\ laid = "whole")'
        BY <1>1 DEF Written
    <2>1. pc = "wstatus" /\ Header /\ Outcome = AckOk /\ tx' = tx
        BY <1>1, GoodEnds DEF KindFits
    <2>2. PICK r : r = Outcome
        OBVIOUS
    <2>3. r = AckOk /\ (r = IF Line[1] = Code(pc) THEN Line[2] ELSE Mismatch)
        BY <2>1, <2>2, HeaderIs
    <2>4. Line[1] = FluxStatus /\ Line[2] = AckOk
        <3>1. Code(pc) = FluxStatus
            BY <2>1 DEF Code, Pinned
        <3> QED
            BY <2>3, <3>1 DEF AckOk, Mismatch
    <2>5. Len(Line) >= 2
        BY <2>1, HeaderIs
    <2>6. ~(Line = <<>>) /\ ~(Len(Line) = 1)
        <3>1. Len(<<>>) = 0 /\ ~(0 >= 2) /\ ~(1 >= 2)
            OBVIOUS
        <3> QED
            BY <2>5, <3>1, Zenon
    <2> QED
        BY <1>1, <2>1, <2>4, <2>6 DEF WriteOk, WaitsForStatus
<1> QED
    BY <1>2, <1>3, <1>4, <1>5, <1>6 DEF WriteOk

LEMMA FewerLoaded ==
    ASSUME Base, Loaded, NEW e \in Sent, Taken(e) PROVE Loaded'
<1>1. /\ Len(tx) \in Nat /\ Len(tx') = Len(tx) - 1
      /\ \A i \in 1 .. (Len(tx) - 1) : tx'[i] = tx[i + 1]
    BY TakenIs
<1>2. ASSUME NEW j \in 1 .. Len(tx') PROVE tx'[j].c # WriteFlux /\ tx'[j].c # FluxData
    <2>1. j \in 1 .. (Len(tx) - 1) /\ j + 1 \in 1 .. Len(tx) /\ j + 1 # 1
        BY <1>1
    <2> QED
        BY <1>1, <2>1 DEF Loaded
<1> QED
    BY <1>2 DEF Loaded

LEMMA CommandWrites ==
    ASSUME Base, Order, Loaded, WriteOk, DeviceCommand PROVE (Loaded /\ WriteOk)'
<1>0. PICK e \in Sent, ack \in Nat, p \in Seq(Nat), u \in Seq(Nat) : Executed(e, ack, p, u)
    BY CommandStep
<1>1. /\ UNCHANGED <<host, laid>> /\ mode = "command" /\ Line \in Seq(Nat) /\ Len(Line) \in Nat
    BY CommandStep, Executes DEF Base
<1>2. /\ Taken(e) /\ Says(e, ack, p) /\ (Line = <<>> => Line' = u)
      /\ Len(u) = 2 + Len(p) /\ Len(p) \in Nat /\ u[1] = e.c /\ u[2] = ack
      /\ Line' # <<>> /\ \A i \in 1 .. Len(Line) : Line'[i] = Line[i]
    BY <1>0 DEF Executed
<1>3. tx[1] = e /\ tx # <<>> /\ (Len(tx) = 1 => tx' = <<>>)
    BY <1>2, TakenIs DEF Taken
<1>4. Line # <<>> => Line'[1] = Line[1]
    <2>1. Line # <<>> => 1 \in 1 .. Len(Line)
        BY <1>1, EmptySeq
    <2> QED
        BY <1>2, <2>1
<1>5. Loaded'
    BY <1>2, FewerLoaded
<1>6. ASSUME e.c \in {WriteFlux, FluxStatus}
      PROVE  Len(u) = 2 /\ pos' = pos /\ (e.c = FluxStatus => mode' = "command" /\ status' = status)
             /\ (e.c = WriteFlux => (ack = AckOk => mode' = "data"))
    <2>1. p = <<>>
        BY <1>2, <1>6, SMTT(20) DEF Says, WriteFlux, FluxStatus, GetInfo, GetPin, ReadFlux
    <2>2. Len(u) = 2
        <3>1. Len(p) = 0
            BY <2>1
        <3> QED
            BY <1>2, <3>1
    <2>3. /\ e.c # Seek /\ e.c # Head_ /\ e.c # ReadFlux /\ WriteFlux # FluxStatus
        BY <1>6 DEF WriteFlux, FluxStatus, Seek, Head_, ReadFlux
    <2>4. /\ mode' = IF e.c = WriteFlux /\ ack = AckOk THEN "data" ELSE "command"
          /\ pos' = pos /\ status' = status
        BY <1>2, <2>3 DEF Says
    <2> QED
        BY <1>6, <2>2, <2>3, <2>4
<1>7. WaitsToWrite'
    <2> SUFFICES ASSUME pc = "write", step = "wait" PROVE WaitsToWrite'
        BY <1>1 DEF WaitsToWrite
    <2>1. (Line = <<>> \/ Line[1] # WriteFlux) /\ Len(tx) = 1 /\ pos = op.track
        BY <1>3 DEF WriteOk, WaitsToWrite
    <2>2. tx' = <<>> /\ e.c = WriteFlux
        <3>1. tx' = <<>>
            BY <1>3, <2>1
        <3>2. e.c = Code(pc)
            BY <1>2, <3>1, OwnTaken DEF Order
        <3> QED
            BY <3>1, <3>2 DEF Code, Pinned
    <2>3. CASE Line = <<>>
        BY <1>1, <1>2, <1>6, <2>1, <2>2, <2>3 DEF WaitsToWrite
    <2>4. CASE Line # <<>>
        BY <1>2, <1>4, <2>1, <2>2, <2>4 DEF WaitsToWrite
    <2> QED
        BY <2>3, <2>4
<1>8. MayWrite' /\ Syncing' /\ Written'
    BY <1>1, <1>3 DEF WriteOk, MayWrite, Syncing, Written
<1>9. WaitsForStatus'
    <2> SUFFICES ASSUME pc = "wstatus" PROVE WaitsForStatus'
        BY <1>1 DEF WaitsForStatus
    <2>1. /\ pos = op.track /\ Len(tx) = 1 /\ Told
          /\ (Line = <<>> \/ (Len(Line) = 1 /\ Line[1] = 0))
        BY <1>1, <1>3 DEF WriteOk, WaitsForStatus
    <2>2. tx' = <<>> /\ e.c = FluxStatus
        <3>1. tx' = <<>>
            BY <1>3, <2>1
        <3>2. e.c = Code(pc)
            BY <1>2, <3>1, OwnTaken DEF Order
        <3> QED
            BY <3>1, <3>2 DEF Code, Pinned
    <2>3. ack = status
        BY <1>2, <2>2 DEF Says
    <2>4. CASE Line = <<>>
        <3>1. Line' = u /\ Len(u) = 2 /\ (u[2] = AckOk => laid' = "whole")
            BY <1>1, <1>2, <1>6, <2>1, <2>2, <2>3, <2>4 DEF Told
        <3> QED
            BY <1>1, <1>2, <1>6, <2>1, <2>2, <3>1 DEF WaitsForStatus
    <2>5. CASE Line # <<>>
        <3>1. Line'[1] # FluxStatus
            BY <1>4, <2>1, <2>5 DEF FluxStatus
        <3> QED
            BY <1>1, <1>2, <1>6, <2>1, <2>2, <3>1 DEF WaitsForStatus
    <2> QED
        BY <2>4, <2>5
<1> QED
    BY <1>5, <1>7, <1>8, <1>9 DEF WriteOk

LEMMA DataWrites ==
    ASSUME Base, Order, Loaded, WriteOk, DeviceData PROVE (Loaded /\ WriteOk)'
<1>1. /\ UNCHANGED host /\ mode = "data" /\ UNCHANGED pos
      /\ Line \in Seq(Nat) /\ Len(Line) \in Nat
    BY DataStep
<1>2. PICK e \in Sent : Taken(e) /\
                (\/ mode' = "data" /\ Line' = Line
                 \/ /\ mode' = "command" /\ e.c \in {FluxData, GetInfo}
                    /\ Len(Line') = Len(Line) + 1 /\ Line' # <<>> /\ Line'[Len(Line) + 1] = 0
                    /\ \A i \in 1 .. Len(Line) : Line'[i] = Line[i])
    BY DataStep
<1>3. /\ tx[1] = e /\ tx # <<>> /\ Len(tx) \in Nat /\ Len(tx') = Len(tx) - 1
      /\ (Len(tx) = 1 => tx' = <<>>)
    BY <1>2, TakenIs DEF Taken
<1>4. ASSUME e.c = FluxData PROVE mode' = "command" /\ Told'
    <2>1. /\ mode' = "command" /\ status' \in {AckOk, Underflow}
          /\ laid' = IF e.c = FluxData /\ status' = AckOk THEN "whole" ELSE "torn"
        <3>1. e = Head(tx)
            BY <1>2 DEF Taken
        <3> QED
            BY <1>4, <3>1, DataEnds DEF Base
    <2> QED
        BY <1>4, <2>1 DEF Told
<1>5. Loaded'
    BY <1>2, FewerLoaded
<1>6. WaitsToWrite' /\ MayWrite' /\ Written'
    BY <1>1, <1>3 DEF WriteOk, WaitsToWrite, MayWrite, Written
<1>7. ASSUME Line = <<>>, mode' = "command" PROVE Len(Line') = 1 /\ Line'[1] = 0
    <2>1. Len(Line) = 0 /\ 0 + 1 = 1
        BY <1>7
    <2> QED
        BY <1>2, <1>7, <2>1
<1>8. Syncing'
    <2> SUFFICES ASSUME pc = "sync" PROVE Syncing'
        BY <1>1 DEF Syncing
    <2>1. Len(tx) = 1 /\ Line = <<>> /\ pos = op.track
        BY <1>1 DEF WriteOk, Syncing
    <2>2. tx' = <<>> /\ e.c = FluxData
        <3>1. tx' = <<>>
            BY <1>3, <2>1
        <3>2. e.c = Code(pc)
            BY <1>2, <3>1, OwnTaken DEF Order
        <3> QED
            BY <3>1, <3>2 DEF Code, Pinned
    <2> QED
        BY <1>1, <1>4, <1>7, <2>1, <2>2 DEF Syncing
<1>9. WaitsForStatus'
    <2> SUFFICES ASSUME pc = "wstatus" PROVE WaitsForStatus'
        BY <1>1 DEF WaitsForStatus
    <2>1. Len(tx) = 2 /\ Line = <<>> /\ pos = op.track /\ e.c = FluxData
        BY <1>1, <1>3 DEF WriteOk, WaitsForStatus
    <2>2. Len(tx') = 1
        BY <1>3, <2>1
    <2> QED
        BY <1>1, <1>4, <1>7, <2>1, <2>2 DEF WaitsForStatus
<1> QED
    BY <1>5, <1>6, <1>8, <1>9 DEF WriteOk

LEMMA HostWrites == ASSUME Base, Order, Steps, Writes, Host PROVE Writes'
<1> SUFFICES ASSUME WriteBound PROVE (Loaded /\ WriteOk)'
    BY DEF Writes, WriteBound
<1>1. Loaded /\ WriteOk
    BY DEF Writes
<1>2. ASSUME pc = "wptagain" PROVE PinOk
    <2>1. op.kind = "write"
        BY <1>2 DEF Base, Places, KindFits
    <2> QED
        BY <2>1 DEF Steps, InReach
<1> QED
    BY <1>1, <1>2, HostLoaded, HostWriteOk DEF WriteOk

LEMMA SendingWrites == ASSUME Base, Loaded, WriteOk, Carry PROVE (Loaded /\ WriteOk)'
<1>1. UNCHANGED <<host, tx, mode, pos, status, laid>> /\ Line' = Line
    BY SendsOn DEF Base
<1> QED
    BY <1>1 DEF Loaded, WriteOk, WaitsToWrite, MayWrite, Syncing, WaitsForStatus, Written, Told

LEMMA DeviceWrites == ASSUME Base, Order, Writes, Device \/ UNCHANGED vars PROVE Writes'
<1> SUFFICES ASSUME WriteBound PROVE (Loaded /\ WriteOk)'
    BY DEF Writes, WriteBound
<1>1. Loaded /\ WriteOk
    BY DEF Writes
<1>2. DeviceCommand \/ DeviceData \/ Carry
    BY DEF Device, Carry
<1> QED
    BY <1>1, <1>2, CommandWrites, DataWrites, SendingWrites

LEMMA BeginWrites ==
    ASSUME Base, Writes, NEW k \in Kinds, NEW t \in Targets, Begin(k, t) PROVE Writes'
<1> SUFFICES ASSUME WriteBound PROVE (Loaded /\ WriteOk)'
    BY DEF Writes, WriteBound
<1>1. Loaded
    BY DEF Writes
<1>2. PICK e \in Sent : e = [c |-> GetInfo, arg |-> 0]
    BY DEF Sent, GetInfo, Seek, Head_
<1>3. tx' = Append(tx, e) /\ UNCHANGED <<mode, pos>> /\ pc' = "info"
    BY <1>2, SendsIs DEF Begin, Write, Base, Types
<1>4. /\ Len(tx') = Len(tx) + 1 /\ tx'[Len(tx) + 1] = e /\ Len(tx) \in Nat
      /\ \A j \in 1 .. Len(tx) : tx'[j] = tx[j]
    <2>1. tx \in Seq(Sent)
        BY DEF Base, Wire
    <2> QED
        BY <1>3, <2>1, OneMore
<1>5. e.c # WriteFlux /\ e.c # FluxData
    BY <1>2 DEF GetInfo, WriteFlux, FluxData
<1>6. ASSUME NEW j \in 1 .. Len(tx')
      PROVE  /\ tx'[j].c = WriteFlux => j = 1 /\ mode = "command" /\ pos = tx'[j].arg
             /\ tx'[j].c = FluxData => j = 1 /\ mode = "data" /\ pos = tx'[j].arg
    <2>1. CASE j \in 1 .. Len(tx)
        BY <1>1, <1>4, <2>1 DEF Loaded
    <2>2. CASE j = Len(tx) + 1
        BY <1>4, <1>5, <2>2
    <2> QED
        BY <1>4, <2>1, <2>2
<1> QED
    BY <1>3, <1>6 DEF Loaded, WriteOk, WaitsToWrite, MayWrite, Syncing, WaitsForStatus, Written

LEMMA InitWrites == Init => Writes
<1> SUFFICES ASSUME Init PROVE Loaded /\ WriteOk
    BY DEF Writes
<1>1. tx = <<>> /\ Len(<<>>) = 0 /\ pc = "idle" /\ res = "none"
    BY DEF Init
<1> QED
    BY <1>1 DEF Loaded, WriteOk, WaitsToWrite, MayWrite, Syncing, WaitsForStatus, Written

-----------------------------------------------------------------------------
(* Steps and Writes name the bounds under which they say something, the    *)
(* rest holds for every MaxPending.                                        *)
LateInv == Base /\ Order /\ OneTrack /\ Settled /\ Steps /\ Writes

(* However late the answers come: what is sent and said (Base, Order), the *)
(* flux on the line is of one track a read (OneTrack), the info before an  *)
(* operation clears the line of what could pass for its end (Settled), so  *)
(* that the host is in step at its reads and writes or sees that it is not *)
(* (Steps, Writes).                                                        *)
THEOREM InductiveWhenLate == Spec => []LateInv
<1>1. Init => LateInv
    BY InitBase, InitOrder, InitOneTrack, InitSettled, InitSteps, InitWrites DEF LateInv
<1>2. LateInv /\ [Next]_vars => LateInv'
    <2> SUFFICES ASSUME Base, Order, OneTrack, Settled, Steps, Writes, [Next]_vars PROVE LateInv'
        BY DEF LateInv
    <2>1. CASE \E k \in Kinds, t \in Targets : Begin(k, t)
        <3>1. PICK k \in Kinds, t \in Targets : Begin(k, t)
            BY <2>1
        <3>2. Base' /\ Order' /\ OneTrack'
            BY <3>1, BeginBase, BeginOrder, BeginOneTrack
        <3>3. Settled' /\ Steps' /\ Writes'
            BY <3>1, <3>2, BeginSettled, BeginSteps, BeginWrites
        <3> QED
            BY <3>2, <3>3 DEF LateInv
    <2>2. CASE Host
        <3>1. Base' /\ Order' /\ OneTrack'
            BY <2>2, HostBase, HostOrder, HostOneTrack
        <3>2. Settled' /\ Steps' /\ Writes'
            BY <2>2, <3>1, HostSettled, HostSteps, HostWrites
        <3> QED
            BY <3>1, <3>2 DEF LateInv
    <2>3. CASE Device
        BY <2>3, DeviceBase, DeviceOrder, DeviceOneTrack, DeviceSettled, DeviceSteps, DeviceWrites
           DEF LateInv
    <2>4. CASE UNCHANGED vars
        <3>1. Line' = Line
            BY <2>4 DEF Line
        <3>2. Base' /\ Order' /\ OneTrack' /\ Settled'
            BY <2>4, <3>1, StutterBase, StutterOrder, SameOneTrack, StutterSettled
        <3> QED
            BY <2>4, <3>2, DeviceSteps, DeviceWrites DEF LateInv
    <2> QED
        BY <2>1, <2>2, <2>3, <2>4 DEF Next
<1> QED
    BY <1>1, <1>2, PTL DEF Spec

\* What the decoders take is what comes before the first 0.
LEMMA DecodedOf ==
    ASSUME NEW t, OfTrack(got, t), got \in Seq(Nat) PROVE Decoded \subseteq {FluxByte(t)}
<1> SUFFICES ASSUME NEW i \in DOMAIN got, \A e \in {x \in DOMAIN got : got[x] = 0} : i < e
             PROVE  got[i] = FluxByte(t)
    BY DEF Decoded
<1>1. i \in 1 .. Len(got) /\ DOMAIN got = 1 .. Len(got) /\ Len(got) \in Nat
    OBVIOUS
<1>2. ASSUME NEW e \in 1 .. i, got[e] = 0 PROVE FALSE
    <2>1. e \in 1 .. Len(got)
        BY <1>1
    <2>2. e \in {x \in DOMAIN got : got[x] = 0}
        BY <1>1, <1>2, <2>1
    <2>3. i < e
        BY <2>2
    <2> QED
        BY <1>1, <2>3
<1> QED
    BY <1>1, <1>2 DEF OfTrack

(* No good read joins the flux of two tracks.                              *)
OkReadIsOfOneTrack ==
    res = "ok" /\ op.kind = "read" => \E t \in Tracks : Decoded \subseteq {FluxByte(t)}

LEMMA GoodResultIsLast == ASSUME Base, res # "none" PROVE pc = "idle"
BY DEF Base, Places

(* The flux a read returns as good is all of one track, however late the   *)
(* answers are and however many: read_flux collects anew at every answer   *)
(* it takes for that to its READ_FLUX, and up to the first 0 behind it.    *)
THEOREM OneTrackPerRead == Spec => []OkReadIsOfOneTrack
<1>1. LateInv => OkReadIsOfOneTrack
    <2> SUFFICES ASSUME LateInv, res = "ok", op.kind = "read"
                 PROVE  \E t \in Tracks : Decoded \subseteq {FluxByte(t)}
        BY DEF OkReadIsOfOneTrack
    <2>1. pc = "idle" /\ got \in Seq(Nat)
        BY GoodResultIsLast DEF LateInv, Base, Wire
    <2>2. PICK t \in Tracks : OfTrack(got, t)
        BY <2>1 DEF LateInv, OneTrack
    <2> QED
        BY <2>1, <2>2, DecodedOf
<1> QED
    BY <1>1, InductiveWhenLate, PTL

(* It is of the track the read was asked for while no more than five       *)
(* commands are unanswered; with six TLC finds a host that is behind by a  *)
(* whole read and takes the flux and the status of the one before.         *)
THEOREM FluxOfTheTrackAsked ==
    ASSUME MaxPending <= 5 PROVE Spec => []FluxIsOfTheTrackAsked
<1>1. LateInv => FluxIsOfTheTrackAsked
    <2> SUFFICES ASSUME LateInv, res = "ok", op.kind = "read"
                 PROVE  Decoded \subseteq {FluxByte(op.track)}
        BY DEF FluxIsOfTheTrackAsked
    <2>1. pc = "idle" /\ got \in Seq(Nat)
        BY GoodResultIsLast DEF LateInv, Base, Wire
    <2>2. Pure(got)
        BY <2>1 DEF LateInv, Steps, InReach, ReadBound, DoneOk
    <2>3. PICK t : t = op.track
        OBVIOUS
    <2>4. OfTrack(got, t)
        <3>1. ASSUME NEW i \in 1 .. Len(got) PROVE got[i] = FluxByte(t) \/ \E e \in 1 .. i : got[e] = 0
            <4>1. i \in 1 .. i
                BY <2>1
            <4> QED
                BY <2>2, <2>3, <4>1 DEF Pure
        <3> QED
            BY <3>1 DEF OfTrack
    <2> QED
        BY <2>1, <2>3, <2>4, DecodedOf
<1> QED
    BY <1>1, InductiveWhenLate, PTL

(* A WRITE_FLUX and its stream reach the device with the head over the     *)
(* operation's track while no more than six commands are unanswered.       *)
THEOREM WritesStayOnTarget ==
    ASSUME MaxPending <= 6 PROVE Spec => []WritesOnlyAtTheTarget
<1>1. LateInv => WritesOnlyAtTheTarget
    <2> SUFFICES ASSUME LateInv, tx # <<>>
                 PROVE  /\ Head(tx).c = WriteFlux /\ mode = "command" => pos = Head(tx).arg
                        /\ Head(tx).c = FluxData => mode = "data" /\ pos = Head(tx).arg
        BY DEF WritesOnlyAtTheTarget
    <2>1. Head(tx) = tx[1] /\ 1 \in 1 .. Len(tx)
        <3>1. tx \in Seq(Sent)
            BY DEF LateInv, Base, Wire
        <3> QED
            BY <3>1, OneLess
    <2> QED
        BY <2>1 DEF LateInv, Writes, WriteBound, Loaded
<1> QED
    BY <1>1, InductiveWhenLate, PTL

(* A write reported as done has been written whole, even when the sync     *)
(* byte or the status of this or of an earlier write comes late.           *)
THEOREM GoodWritesAreWritten ==
    ASSUME MaxPending <= 6 PROVE Spec => []OkWriteIsWritten
<1>1. LateInv => OkWriteIsWritten
    <2> SUFFICES ASSUME LateInv, res = "ok", op.kind = "write" PROVE laid = "whole"
        BY DEF OkWriteIsWritten
    <2>1. pc = "idle"
        BY GoodResultIsLast DEF LateInv
    <2> QED
        BY <2>1 DEF LateInv, Writes, WriteBound, WriteOk, Written
<1> QED
    BY <1>1, InductiveWhenLate, PTL

-----------------------------------------------------------------------------
(* How many steps an operation has left, however the device answers.       *)

Place(l) ==
    CASE l = "info" -> 15   [] l = "bus" -> 14     [] l = "select" -> 13
      [] l = "wpt" -> 12    [] l = "motor" -> 11   [] l = "seek" -> 10
      [] l = "at0" -> 9     [] l = "click" -> 8    [] l = "at0again" -> 7
      [] l = "oldhead" -> 6 [] l = "head" -> 5     [] l = "wptagain" -> 4
      [] l \in {"read", "write"} -> 3
      [] l \in {"rstatus", "sync"} -> 2
      [] OTHER -> 1
Left(l, s, n) ==
    IF l = "idle" THEN 0
    ELSE 8 * (IF l = "info" THEN Retries + 3 - n ELSE Retries - n)
         + 2 * Place(l) + (IF s = "wait" THEN 1 ELSE 0)
StepsLeft == Left(pc, step, tries)

Loops == {"read", "rstatus", "write", "sync", "wstatus"}
Counts ==
    /\ tries \in Nat
    /\ pc = "info" => tries <= 2
    /\ pc \in Loops => tries <= Retries
    /\ pc \notin Loops \cup {"info", "idle"} => tries = 0
    /\ pc = "bus" => up = 0
    /\ pc = "select" => up = 1

LEMMA PlaceIs ==
    /\ Place("info") = 15 /\ Place("bus") = 14 /\ Place("select") = 13 /\ Place("wpt") = 12
    /\ Place("motor") = 11 /\ Place("seek") = 10 /\ Place("at0") = 9 /\ Place("click") = 8
    /\ Place("at0again") = 7 /\ Place("oldhead") = 6 /\ Place("head") = 5 /\ Place("wptagain") = 4
    /\ Place("read") = 3 /\ Place("write") = 3 /\ Place("rstatus") = 2 /\ Place("sync") = 2
    /\ Place("wstatus") = 1
BY DEF Place

LEMMA PlaceRange == ASSUME NEW l \in Labels \cup {"sync"} PROVE Place(l) \in 1 .. 15
BY PlaceIs DEF Labels

\* At a place the operation goes on to without a new attempt ...
LEMMA Onward ==
    ASSUME NEW k \in Labels \cup {"sync"}, NEW l \in Labels \cup {"sync"}, NEW s, NEW z,
           NEW n \in 0 .. Retries, k # "info", l # "info",
           Place(l) < Place(k) \/ (l = k /\ s = "wait" /\ z = "rest")
    PROVE  Left(l, z, n) < Left(k, s, n)
<1>1. Retries \in Nat /\ Place(k) \in Nat /\ Place(l) \in Nat
    BY GwConstants, PlaceRange
<1>2. k # "idle" /\ l # "idle"
    BY DEF Labels
<1>3. Place(l) < Place(k) => 2 * Place(l) + 1 < 2 * Place(k)
    BY <1>1
<1> QED
    BY <1>1, <1>2, <1>3 DEF Left

\* ... with one more of its attempts gone ...
LEMMA Repeated ==
    ASSUME NEW k \in Loops, NEW l \in {"read", "write"}, NEW s, NEW z, NEW n \in Nat, n < Retries,
           Place(l) - Place(k) \in 0 .. 2
    PROVE  Left(l, z, n + 1) < Left(k, s, n)
<1>1. Retries \in Nat /\ Place(k) \in 1 .. 3 /\ Place(l) = 3
    BY GwConstants, PlaceIs DEF Loops
<1>2. k # "idle" /\ k # "info" /\ l # "idle" /\ l # "info"
    BY DEF Loops
<1> QED
    BY <1>1, <1>2 DEF Left

\* ... at the info, and behind it.
LEMMA Introduced ==
    ASSUME NEW n \in 0 .. 2, NEW s, NEW l \in Labels, l # "info"
    PROVE  /\ n < 2 => Left("info", "wait", n + 1) < Left("info", s, n)
           /\ Left("info", "rest", n) < Left("info", "wait", n)
           /\ Left(l, "wait", 0) < Left("info", s, n)
<1>1. Retries \in Nat /\ Place("info") = 15 /\ Place(l) \in 1 .. 15 /\ l # "idle"
    BY GwConstants, PlaceIs, PlaceRange DEF Labels
<1> QED
    BY <1>1 DEF Left

LEMMA LeftRange ==
    ASSUME Types, Counts PROVE StepsLeft \in 0 .. (8 * Retries + 55) /\ (StepsLeft = 0 <=> pc = "idle")
<1>1. Retries \in Nat
    BY GwConstants
<1>2. CASE pc = "idle"
    BY <1>1, <1>2 DEF StepsLeft, Left
<1>3. CASE pc # "idle"
    <2>1. pc \in Labels \cup {"sync"} /\ Place(pc) \in 1 .. 15
        BY <1>3, PlaceRange DEF Types
    <2>2. CASE pc = "info"
        BY <1>1, <2>1, <2>2 DEF StepsLeft, Left, Counts
    <2>3. CASE pc # "info"
        <3>1. tries \in 0 .. Retries
            BY <1>1, <1>3, <2>3 DEF Counts
        <3> QED
            BY <1>1, <1>3, <2>1, <2>3, <3>1 DEF StepsLeft, Left
    <2> QED
        BY <2>2, <2>3
<1> QED
    BY <1>2, <1>3

LEMMA Over ==
    ASSUME Types, Counts, pc # "idle", pc' = "idle", tries' \in Nat
    PROVE  Counts' /\ StepsLeft' < StepsLeft
<1>1. StepsLeft \in Nat /\ StepsLeft # 0
    BY LeftRange, GwConstants
<1>2. StepsLeft' = 0
    BY DEF StepsLeft, Left
<1> QED
    BY <1>1, <1>2 DEF Counts, Loops

LEMMA OneOn ==
    ASSUME Types, Counts, pc \notin {"idle", "info"}, pc' \in (Labels \cup {"sync"}) \ {"info"},
           tries' = tries, Place(pc') < Place(pc) \/ (pc' = pc /\ step = "wait" /\ step' = "rest"),
           pc' \in Loops \/ pc \notin Loops,
           pc' = "bus" => up' = 0, pc' = "select" => up' = 1
    PROVE  Counts' /\ StepsLeft' < StepsLeft
<1>1. Retries \in Nat /\ pc \in Labels \cup {"sync"}
    BY GwConstants DEF Types
<1>2. tries \in 0 .. Retries
    BY <1>1 DEF Counts
<1>3. Left(pc', step', tries) < Left(pc, step, tries)
    BY <1>1, <1>2, Onward
<1> QED
    BY <1>2, <1>3 DEF Counts, StepsLeft, Labels

LEMMA OnceMore ==
    ASSUME Types, Counts, pc \in Loops, pc' \in {"read", "write"}, tries < Retries,
           tries' = tries + 1, Place(pc) <= 3
    PROVE  Counts' /\ StepsLeft' < StepsLeft
<1>1. Retries \in Nat /\ tries \in Nat
    BY GwConstants DEF Counts
<1>2. Place(pc') - Place(pc) \in 0 .. 2
    BY PlaceIs DEF Loops
<1>3. Left(pc', step', tries + 1) < Left(pc, step, tries)
    BY <1>1, <1>2, Repeated
<1> QED
    BY <1>1, <1>3 DEF Counts, StepsLeft, Loops

LEMMA AskedAgain ==
    ASSUME Types, Counts, pc = "info", InfoAgain PROVE Counts' /\ StepsLeft' < StepsLeft
<1>1. tries \in 0 .. 2
    BY DEF Counts
<1>2. CASE tries < 2
    <2>1. pc' = "info" /\ step' = "wait" /\ tries' = tries + 1
        BY <1>2 DEF InfoAgain, Again, GoTo
    <2>2. Left("info", "wait", tries + 1) < Left("info", step, tries)
        BY <1>1, <1>2, Introduced DEF Labels
    <2> QED
        BY <1>1, <1>2, <2>1, <2>2 DEF Counts, StepsLeft, Loops
<1>3. CASE ~(tries < 2)
    BY <1>3, Over DEF InfoAgain, Finish
<1> QED
    BY <1>2, <1>3

LEMMA PinCounts ==
    ASSUME Types, Counts, pc \in Pinned, NEW high \in BOOLEAN, Pin(high), tries' = tries
    PROVE  Counts' /\ StepsLeft' < StepsLeft
<1>1. pc \notin {"idle", "info"} /\ pc \notin Loops /\ tries' \in Nat
    BY DEF Pinned, Loops, Counts
<1>2. CASE pc' = "idle"
    BY <1>1, <1>2, Over
<1>3. CASE pc' # "idle"
    <2>1. /\ pc = "at0" => pc' \in {"click", "oldhead"}
          /\ pc = "at0again" => pc' = "oldhead"
          /\ pc = "wpt" => pc' \in {"motor", "seek"}
          /\ pc = "wptagain" => pc' = "write"
        BY <1>3 DEF Pin, GoTo, Finish, Spin
    <2>2. Place(pc') < Place(pc) /\ pc' \in (Labels \cup {"sync"}) \ {"info", "bus", "select"}
        BY <2>1, PlaceIs DEF Pinned, Labels
    <2> QED
        BY <1>1, <2>2, OneOn
<1> QED
    BY <1>2, <1>3

LEMMA AnswerCounts ==
    ASSUME Base, Counts, pc \in Labels, step = "wait", NEW r, Answer(r)
    PROVE  Counts' /\ StepsLeft' < StepsLeft
<1>1. Types /\ tries \in Nat /\ pc # "idle" /\ pc # "sync" /\ Retries \in Nat
    BY GwConstants DEF Base, Counts, Labels
<1>2. CASE pc = "info"
    <2>1. InfoAnswer(r)
        BY <1>2, AnswerAt
    <2>2. CASE InfoAgain
        BY <1>1, <1>2, <2>2, AskedAgain
    <2>3. CASE ReadRest /\ tries' = tries
        <3>1. tries \in 0 .. 2 /\ pc' = "info" /\ step' = "rest"
            BY <1>2, <2>3 DEF Counts, ReadRest
        <3>2. Left("info", "rest", tries) < Left("info", "wait", tries)
            BY <3>1, Introduced DEF Labels
        <3> QED
            BY <1>2, <2>3, <3>1, <3>2 DEF Counts, StepsLeft, Loops
    <2> QED
        BY <2>1, <2>2, <2>3 DEF InfoAnswer
<1>3. CASE pc' = "idle" /\ pc # "info"
    <2>1. CASE pc \in {"read", "rstatus", "wstatus"}
        <3>1. ReadAnswer(r) \/ ReadStatusAnswer(r) \/ WriteStatusAnswer(r)
            BY <2>1, AnswerAt
        <3>2. tries' \in Nat
            BY <1>1, <3>1 DEF ReadAnswer, ReadStatusAnswer, WriteStatusAnswer, Again
        <3> QED
            BY <1>1, <1>3, <3>2, Over
    <2>2. CASE pc \notin {"read", "rstatus", "wstatus"}
        <3>1. \/ SetUpAnswer(r) \/ SeekAnswer(r) \/ PinAnswer(r) \/ DroppedAnswer(r)
              \/ HeadAnswer(r) \/ WriteAnswer(r)
            BY <1>1, <1>3, <2>2, AnswerAt DEF Labels, Pinned
        <3>2. tries' = tries
            BY <3>1 DEF SetUpAnswer, SeekAnswer, PinAnswer, DroppedAnswer, HeadAnswer, WriteAnswer
        <3> QED
            BY <1>1, <1>3, <3>2, Over
    <2> QED
        BY <2>1, <2>2
<1>4. CASE pc \in {"bus", "select", "motor"} /\ pc' # "idle"
    <2>1. SetUpAnswer(r)
        BY <1>4, AnswerAt
    <2>2. /\ up' = up + 1 /\ tries' = tries
          /\ pc' = IF pc = "motor" THEN "seek" ELSE Ready(up + 1)
        BY <1>4, <2>1 DEF SetUpAnswer, Must, Failed, GoTo, Finish
    <2>3. /\ pc = "bus" => pc' = "select" /\ up' = 1
          /\ pc = "select" => pc' \in {"wpt", "motor", "seek"}
          /\ pc = "motor" => pc' = "seek"
        BY <1>4, <2>2 DEF Counts, Ready, Spin
    <2>4. Place(pc') < Place(pc) /\ pc' \in (Labels \cup {"sync"}) \ {"info", "bus"}
          /\ (pc' = "select" => up' = 1) /\ pc \notin Loops
        BY <1>4, <2>3, PlaceIs DEF Labels, Loops
    <2> QED
        BY <1>1, <1>4, <2>2, <2>4, OneOn
<1>5. CASE pc \in {"seek", "click", "oldhead", "head"} /\ pc' # "idle"
    <2>1. tries' = tries
        BY <1>5, AnswerAt DEF SeekAnswer, DroppedAnswer, HeadAnswer
    <2>2. /\ pc = "seek" => pc' \in {"at0", "oldhead"}
          /\ pc = "click" => pc' = "at0again"
          /\ pc = "oldhead" => pc' = "head"
          /\ pc = "head" => pc' \in {"read", "wptagain"}
        BY <1>5, AnswerAt DEF SeekAnswer, DroppedAnswer, HeadAnswer, Must, Failed, GoTo, Finish
    <2>3. Place(pc') < Place(pc) /\ pc' \in (Labels \cup {"sync"}) \ {"info", "bus", "select"}
          /\ pc \notin Loops
        BY <1>5, <2>2, PlaceIs DEF Labels, Loops
    <2> QED
        BY <1>1, <1>5, <2>1, <2>3, OneOn
<1>6. CASE pc \in Pinned /\ pc' # "idle"
    <2>1. PinAnswer(r)
        BY <1>6, AnswerAt
    <2>2. CASE Pin(FALSE)
        BY <1>1, <1>6, <2>1, <2>2, PinCounts DEF PinAnswer
    <2>3. CASE ReadRest
        BY <1>1, <1>6, <2>1, <2>3, OneOn DEF PinAnswer, ReadRest, Pinned, Loops
    <2> QED
        BY <2>1, <2>2, <2>3 DEF PinAnswer
<1>7. CASE pc = "read" /\ pc' # "idle"
    <2>1. ReadAnswer(r)
        BY <1>7, AnswerAt
    <2>2. CASE ReadRest /\ tries' = tries
        BY <1>1, <1>7, <2>2, OneOn DEF ReadRest, Loops
    <2>3. CASE Again("read") /\ tries < Retries
        BY <1>1, <1>7, <2>3, OnceMore, PlaceIs DEF Again, GoTo, Loops
    <2> QED
        BY <1>7, <2>1, <2>2, <2>3 DEF ReadAnswer, Failed, Finish
<1>8. CASE pc = "write" /\ pc' # "idle"
    <2>1. WriteAnswer(r)
        BY <1>8, AnswerAt
    <2>2. ReadRest /\ tries' = tries
        BY <1>8, <2>1 DEF WriteAnswer, Failed, Finish
    <2> QED
        BY <1>1, <1>8, <2>2, OneOn DEF ReadRest, Loops
<1>9. CASE pc \in {"rstatus", "wstatus"} /\ pc' # "idle"
    <2>1. ReadStatusAnswer(r) \/ WriteStatusAnswer(r)
        BY <1>9, AnswerAt
    <2>2. tries < Retries /\ tries' = tries + 1 /\ pc' \in {"read", "write"}
        BY <1>9, <2>1 DEF ReadStatusAnswer, WriteStatusAnswer, Failed, Finish, Again, GoTo
    <2>3. pc \in Loops /\ Place(pc) <= 3
        BY <1>9, PlaceIs DEF Loops
    <2> QED
        BY <1>1, <2>2, <2>3, OnceMore
<1> QED
    BY <1>2, <1>3, <1>4, <1>5, <1>6, <1>7, <1>8, <1>9 DEF Labels, Pinned

\* read_flux takes what has come of the flux and waits for more.
TakesFlux == pc = "read" /\ step = "rest" /\ UNCHANGED <<pc, step, tries>> /\ Len(rx') < Len(rx)

LEMMA HostCounts ==
    ASSUME Base, Counts, Host
    PROVE  Counts' /\ (StepsLeft' < StepsLeft \/ (TakesFlux /\ StepsLeft' = StepsLeft))
<1>1. Types /\ Places /\ tries \in Nat /\ Retries \in Nat
    BY GwConstants DEF Base, Counts
<1>2. CASE Header \/ HeaderLate
    <2>1. PICK r : Answer(r)
        BY <1>2 DEF Header, HeaderLate
    <2>2. pc \in Labels /\ step = "wait"
        BY <1>1, <1>2 DEF Header, HeaderLate, Types
    <2> QED
        BY <2>1, <2>2, AnswerCounts
<1>3. CASE InfoRest
    <2>1. pc = "info" /\ up' = up /\ up \in Nat
        BY <1>1, <1>3 DEF InfoRest, Types
    <2>2. CASE InfoAgain
        BY <1>1, <2>1, <2>2, AskedAgain
    <2>3. CASE GoTo(Ready(up)) /\ tries' = 0
        <3>1. pc' = Ready(up) /\ step' = "wait"
            BY <2>3 DEF GoTo
        <3>2. Ready(up) \in {"bus", "select", "wpt", "motor", "seek"}
              /\ (Ready(up) = "bus" => up = 0) /\ (Ready(up) = "select" => up = 1)
            BY <2>1 DEF Ready, Spin
        <3>3. pc' \in Labels /\ pc' # "info" /\ pc' \notin Loops \cup {"idle"}
            BY <3>1, <3>2 DEF Labels, Loops
        <3>4. Left(pc', "wait", 0) < Left("info", step, tries)
            <4>1. tries \in 0 .. 2
                BY <1>1, <2>1 DEF Counts
            <4> QED
                BY <3>3, <4>1, Introduced
        <3> QED
            BY <2>1, <2>3, <3>1, <3>2, <3>3, <3>4 DEF Counts, StepsLeft
    <2> QED
        BY <1>3, <2>2, <2>3 DEF InfoRest
<1>4. CASE PinRest
    <2>1. pc \in Pinned /\ tries' = tries
        BY <1>4 DEF PinRest, Pinned
    <2>2. PICK high \in BOOLEAN : Pin(high)
        BY <1>4 DEF PinRest
    <2> QED
        BY <1>1, <2>1, <2>2, PinCounts
<1>5. CASE FluxRest
    <2>1. pc = "read" /\ step = "rest" /\ UNCHANGED <<op, tries, up>>
        BY <1>5 DEF FluxRest
    <2>2. CASE GoTo("rstatus")
        BY <1>1, <2>1, <2>2, OneOn, PlaceIs DEF GoTo, Loops, Labels
    <2>3. CASE rx # <<>> /\ UNCHANGED <<pc, step, res, tx>>
                 /\ rx' = After(rx, IF Head(rx) = 0 THEN 1 ELSE Len(rx))
        <3>1. PICK n \in 1 .. Len(rx) : rx' = After(rx, n)
            <4>1. Len(rx) \in Nat /\ 1 \in 1 .. Len(rx) /\ Len(rx) \in 1 .. Len(rx)
                <5>1. rx \in Seq(Nat)
                    BY DEF Base, Wire
                <5> QED
                    BY <2>3, <5>1, EmptySeq
            <4> QED
                BY <2>3, <4>1
        <3>2. rx \in Seq(Nat) /\ n \in Nat /\ n <= Len(rx) /\ n >= 1 /\ Len(rx) \in Nat
            BY <3>1 DEF Base, Wire
        <3>3. Len(rx') = Len(rx) - n
            BY <3>1, <3>2, AfterIs
        <3>4. Len(rx') < Len(rx)
            BY <3>2, <3>3
        <3>5. Counts' /\ StepsLeft' = StepsLeft
            BY <2>1, <2>3 DEF Counts, StepsLeft
        <3> QED
            BY <2>1, <2>3, <3>4, <3>5 DEF TakesFlux
    <2> QED
        BY <1>5, <2>2, <2>3 DEF FluxRest
<1>6. CASE WriteData
    <2>1. pc = "write" /\ pc' = "sync" /\ tries' = tries
        BY <1>6 DEF WriteData
    <2> QED
        BY <1>1, <2>1, OneOn, PlaceIs DEF Loops
<1>7. CASE SyncByte
    <2>1. pc = "sync" /\ pc' = "wstatus" /\ tries' = tries
        BY <1>7 DEF SyncByte, GoTo
    <2> QED
        BY <1>1, <2>1, OneOn, PlaceIs DEF Loops, Labels
<1> QED
    BY <1>2, <1>3, <1>4, <1>5, <1>6, <1>7 DEF Host

LEMMA SameCounts == ASSUME Counts, UNCHANGED host PROVE Counts' /\ StepsLeft' = StepsLeft
BY DEF Counts, StepsLeft

LEMMA DeviceOnly == Device \/ UNCHANGED vars => UNCHANGED host
BY DEF Device, DeviceCommand, DeviceData, DeviceSends

(* However often the device makes the host ask again: a bound on the steps *)
(* an operation has left, which is used up when it returns and only then.  *)
StepsAreBounded == StepsLeft \in 0 .. (8 * Retries + 55) /\ (StepsLeft = 0 <=> pc = "idle")

(* Every step of the host in an operation brings its end closer, but for   *)
(* those in which read_flux takes flux off the line; what the device does  *)
(* and in which order never puts the end off.                              *)
EveryStepCounts ==
    [][/\ Host => StepsLeft' < StepsLeft \/ (TakesFlux /\ StepsLeft' = StepsLeft)
       /\ Device => StepsLeft' = StepsLeft]_vars

(* The retry loops of the host end, for any number of retries and commands *)
(* pending: at most 8 * Retries + 55 steps, and each byte of flux once.    *)
THEOREM OperationsAreBounded == Spec => []StepsAreBounded /\ EveryStepCounts
<1> DEFINE CInv == Base /\ Counts
<1>1. Init => CInv
    BY InitBase DEF Init, Counts, Loops
<1>2. CInv /\ [Next]_vars => CInv'
    <2> SUFFICES ASSUME Base, Counts, [Next]_vars PROVE CInv'
        OBVIOUS
    <2>1. CASE \E k \in Kinds, t \in Targets : Begin(k, t)
        <3>1. Base'
            BY <2>1, BeginBase
        <3>2. Counts'
            BY <2>1 DEF Begin, Counts, Loops
        <3> QED
            BY <3>1, <3>2
    <2>2. CASE Host
        BY <2>2, HostBase, HostCounts
    <2>3. CASE Device
        BY <2>3, DeviceBase, DeviceOnly, SameCounts
    <2>4. CASE UNCHANGED vars
        BY <2>4, StutterBase, SameCounts
    <2> QED
        BY <2>1, <2>2, <2>3, <2>4 DEF Next
<1>3. CInv => StepsAreBounded
    BY LeftRange DEF Base, StepsAreBounded
<1>4. CInv /\ [Next]_vars =>
      [/\ Host => StepsLeft' < StepsLeft \/ (TakesFlux /\ StepsLeft' = StepsLeft)
       /\ Device => StepsLeft' = StepsLeft]_vars
    <2> SUFFICES ASSUME Base, Counts
                 PROVE  /\ Host => StepsLeft' < StepsLeft \/ (TakesFlux /\ StepsLeft' = StepsLeft)
                        /\ Device => StepsLeft' = StepsLeft
        OBVIOUS
    <2> QED
        BY HostCounts, DeviceOnly, SameCounts
<1> QED
    <2> HIDE DEF CInv
    <2> QED
        BY <1>1, <1>2, <1>3, <1>4, PTL DEF Spec, EveryStepCounts
=============================================================================
