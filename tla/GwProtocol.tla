----------------------------- MODULE GwProtocol -----------------------------
(***************************************************************************)
(* The operations of the Greaseweazle provider over its serial line:       *)
(* read_raw_flux, write_raw_flux and seek (recalibrate is a seek to 0),    *)
(* from the first byte they send to the result they return, with the       *)
(* library routines below them (get_info, select_drive, set_motor, seek,   *)
(* select_head, get_pin, read_flux, write_flux).                           *)
(*                                                                         *)
(* A command is answered by two bytes, the command's number and a status,  *)
(* and some by a payload.  The host waits for a limited time and gives up; *)
(* the device, which is only slow, answers all the same, and what the host *)
(* reads next is what it should have read before.  The line is modelled    *)
(* byte by byte, because a byte left unread shifts all that follow it.     *)
(* The serial branch is the POSIX one.                                     *)
(***************************************************************************)
EXTENDS Naturals, Sequences

CONSTANTS
    Targets,     \* the tracks the operations are for: cylinder and head
    Retries,     \* GW_READ_RETRIES and GW_WRITE_RETRIES (5)
    InfoLen,     \* bytes of a firmware info (32)
    MaxFlux,     \* bound: transitions in a flux stream
    MaxPending   \* bound: commands a slow device may have unanswered when the
                 \* host gives up waiting for it

ASSUME GwConstants ==
    /\ Targets \subseteq Nat \X {0, 1} /\ <<0, 0>> \in Targets
    /\ {Retries, InfoLen, MaxFlux, MaxPending} \subseteq Nat
    /\ MaxPending > 0

Kinds == {"read", "write", "seek"}

(* Bytes.  Commands and statuses have the protocol's numbers, for a reader *)
(* that is shifted takes one for the other.  A flux byte says which track  *)
(* it was read from and stands for any byte but 0.                         *)
GetInfo == 0     Seek == 2       Head_ == 3      Motor == 6      ReadFlux == 7
WriteFlux == 8   FluxStatus == 9 Select_ == 12   SetBus == 14    GetPin == 20
NoClickStep == 22
FluxData == 99   \* the stream that follows WriteFlux, which is no command
AckOk == 0       BadCommand == 1 NoIndex == 2    NoTrk0 == 3     Overflow == 4
Underflow == 5   WrProt == 6     NoUnit == 7     NoBus == 8      BadPin == 10
Late == 50       Mismatch == 51  \* ERR_TIMEOUT, ERR_PROTOCOL: no statuses
InfoByte == 100
FluxByte(t) == 200 + 2 * t[1] + t[2]
Trk0Pin == 26    WptPin == 28

VARIABLES
    pc,      \* the host's place: a label, or "idle" between operations
    step,    \* "wait" for the header of the label's answer, then read the "rest"
    op,      \* the operation: its kind and its track
    tries,   \* how often the loop the host is in was repeated
    up,      \* 0 nothing, 1 bus_type set, 2 drive selected, 3 motor_on
    head,    \* current_head
    got,     \* raw_buffer
    res,     \* the result of the last operation
    smooth,  \* nothing of this operation came late, refused or mismatched
    tx,      \* sent and not yet taken by the device
    rx,      \* arrived and not yet read by the host
    out,     \* what the device still has to send of an answer
    mode,    \* what the device takes: a "command", or the "data" of a write
    pos,     \* the track under the device's head
    trk0,    \* the drive's track 0 sensor is active
    wpt,     \* the disk is write protected
    status,  \* the device's flux status
    laid     \* what the device wrote since the operation began

host == <<pc, step, op, tries, up, head, got, res, smooth>>
device == <<out, mode, pos, trk0, wpt, status, laid>>
vars == <<host, tx, rx, device>>

After(s, n) == SubSeq(s, n + 1, Len(s))
Copies(b, n) == [i \in 1 .. n |-> b]
Has(s, b) == \E i \in DOMAIN s : s[i] = b

Init ==
    /\ pc = "idle" /\ step = "wait" /\ op = [kind |-> "seek", track |-> <<0, 0>>]
    /\ tries = 0 /\ up = 0 /\ head = 0 /\ got = <<>> /\ res = "none"
    /\ smooth = TRUE
    /\ tx = <<>> /\ rx = <<>> /\ out = <<>> /\ mode = "command"
    /\ pos = <<0, 0>> /\ trk0 \in BOOLEAN /\ wpt \in BOOLEAN
    /\ status = AckOk /\ laid = "none"

-----------------------------------------------------------------------------
(* The host: from one command of an operation to the next.                 *)

\* The command a label sends for operation o.
Sends(l, o) ==
    CASE l = "info"    -> [c |-> GetInfo,     arg |-> 0]
      [] l = "bus"     -> [c |-> SetBus,      arg |-> 0]
      [] l = "select"  -> [c |-> Select_,     arg |-> 0]
      [] l = "motor"   -> [c |-> Motor,       arg |-> 1]
      [] l = "seek"    -> [c |-> Seek,        arg |-> o.track[1]]
      [] l = "click"   -> [c |-> NoClickStep, arg |-> 0]
      [] l = "oldhead" -> [c |-> Head_,       arg |-> head]
      [] l = "head"    -> [c |-> Head_,       arg |-> o.track[2]]
      [] l = "read"    -> [c |-> ReadFlux,    arg |-> 0]
      [] l = "write"   -> [c |-> WriteFlux,   arg |-> o.track]
      [] l \in {"at0", "at0again"}    -> [c |-> GetPin, arg |-> Trk0Pin]
      [] l \in {"wpt", "wptagain"}    -> [c |-> GetPin, arg |-> WptPin]
      [] l \in {"rstatus", "wstatus"} -> [c |-> FluxStatus, arg |-> 0]

\* read_track and write_track start a motor that is not on; do_seek does not.
Spin(u) == IF op.kind # "seek" /\ u < 3 THEN "motor" ELSE "seek"

\* ensure_drive_selected, and the protect check of do_write_raw_flux.
Ready(u) == CASE u = 0 -> "bus"
              [] u = 1 -> "select"
              [] u >= 2 -> IF op.kind = "write" THEN "wpt" ELSE Spin(u)

\* serial_write_all.
Write(e) == Len(tx) < MaxPending /\ tx' = Append(tx, e)

\* uft_gw_command up to the read: the label's command goes out.
GoTo(l) == pc' = l /\ step' = "wait" /\ res' = res /\ Write(Sends(l, op))
Finish(r) == pc' = "idle" /\ step' = "wait" /\ res' = r /\ tx' = tx
ReadRest == step' = "rest" /\ UNCHANGED <<pc, res, tx>>
Failed(r) == Finish(IF r = WrProt THEN "refused" ELSE "failed")
Must(r, l) == IF r = AckOk THEN GoTo(l) ELSE Failed(r)

\* A loop repeats its command, or leaves with what follows it.
Again(l) == GoTo(l) /\ tries' = tries + 1
\* a plausible slip: the attempts at an info are not counted
InfoAgainForever == GoTo("info") /\ tries' = tries
InfoAgain == IF tries < 2 THEN Again("info") ELSE Finish("gone") /\ tries' = 0

\* A label's reaction to the outcome r of its command.
InfoAnswer(r) ==
    /\ pc = "info"
    /\ IF r = AckOk THEN ReadRest /\ tries' = tries ELSE InfoAgain
    /\ UNCHANGED <<up, head, got>>

SetUpAnswer(r) ==
    /\ pc \in {"bus", "select", "motor"}
    /\ up' = IF r = AckOk THEN up + 1 ELSE up
    /\ Must(r, IF pc = "motor" THEN "seek" ELSE Ready(up + 1))
    /\ UNCHANGED <<tries, head, got>>

SeekAnswer(r) ==
    /\ pc = "seek"
    /\ Must(r, IF op.track[1] = 0 THEN "at0" ELSE "oldhead")
    /\ UNCHANGED <<tries, up, head, got>>

\* a plausible slip: the sensor is not asked again after the step inward
PinOnce(high) ==
    CASE pc = "at0"      -> GoTo(IF high THEN "click" ELSE "oldhead")
      [] pc = "at0again" -> GoTo("oldhead")
      [] pc = "wpt"      -> IF high THEN GoTo(Spin(up)) ELSE Finish("refused")
      [] pc = "wptagain" -> IF high THEN GoTo("write") ELSE Finish("refused")

\* get_pin returns false when its command fails: the pin passes for low.
Pin(high) ==
    CASE pc = "at0"      -> GoTo(IF high THEN "click" ELSE "oldhead")
      [] pc = "at0again" -> IF high THEN Finish("failed") ELSE GoTo("oldhead")
      [] pc = "wpt"      -> IF high THEN GoTo(Spin(up)) ELSE Finish("refused")
      [] pc = "wptagain" -> IF high THEN GoTo("write") ELSE Finish("refused")

PinAnswer(r) ==
    /\ pc \in {"at0", "at0again", "wpt", "wptagain"}
    /\ IF r = AckOk THEN ReadRest ELSE Pin(FALSE)
    /\ UNCHANGED <<tries, up, head, got>>

\* The results of the step and of the first head select are dropped.
DroppedAnswer(r) ==
    /\ pc \in {"click", "oldhead"}
    /\ IF pc = "click" THEN GoTo("at0again")
       ELSE IF op.kind = "seek" THEN Finish("ok") ELSE GoTo("head")
    /\ UNCHANGED <<tries, up, head, got>>

HeadAnswer(r) ==
    /\ pc = "head"
    /\ head' = IF r = AckOk THEN op.track[2] ELSE head
    /\ Must(r, IF op.kind = "read" THEN "read" ELSE "wptagain")
    /\ UNCHANGED <<tries, up, got>>

ReadAnswer(r) ==
    /\ pc = "read"
    /\ IF r = Overflow /\ tries < Retries THEN Again("read")
       ELSE /\ IF r = AckOk THEN ReadRest ELSE Failed(r)
            /\ tries' = tries
    /\ got' = <<>>
    /\ UNCHANGED <<up, head>>

\* The decoders take what comes before the first 0 for the flux.
Decoded == LET ends == {i \in DOMAIN got : got[i] = 0}
           IN {got[i] : i \in {j \in DOMAIN got : \A e \in ends : j < e}}
FluxResult == CASE got = <<>>   -> "failed"
                [] got # <<>> /\ Decoded = {} -> "marginal"
                [] Decoded # {} -> "ok"

\* Only an overflow counts, and only while tries are left.
ReadStatusAnswer(r) ==
    /\ pc = "rstatus"
    /\ IF r = Overflow /\ tries < Retries
       THEN Again("read") /\ got' = <<>>
       ELSE Finish(FluxResult) /\ UNCHANGED <<tries, got>>
    /\ UNCHANGED <<up, head>>

WriteAnswer(r) ==
    /\ pc = "write"
    /\ IF r = AckOk THEN ReadRest ELSE Failed(r)
    /\ UNCHANGED <<tries, up, head, got>>

\* a plausible slip: of the flux status only an underflow counts
WriteStatusLenient(r) ==
    /\ pc = "wstatus"
    /\ IF r = Underflow /\ tries < Retries
       THEN Again("write")
       ELSE (IF r # Late THEN Finish("ok") ELSE Failed(r)) /\ tries' = tries
    /\ UNCHANGED <<up, head, got>>

WriteStatusAnswer(r) ==
    /\ pc = "wstatus"
    /\ IF r = Underflow /\ tries < Retries
       THEN Again("write")
       ELSE (IF r = AckOk THEN Finish("ok") ELSE Failed(r)) /\ tries' = tries
    /\ UNCHANGED <<up, head, got>>

Answer(r) ==
    /\ \/ InfoAnswer(r) \/ SetUpAnswer(r) \/ SeekAnswer(r) \/ PinAnswer(r)
       \/ DroppedAnswer(r) \/ HeadAnswer(r) \/ ReadAnswer(r)
       \/ ReadStatusAnswer(r) \/ WriteAnswer(r) \/ WriteStatusAnswer(r)
    /\ smooth' = (smooth /\ r = AckOk)

-----------------------------------------------------------------------------
(* The host: the serial line.                                              *)

\* a plausible slip: a device that has been set up is not asked for its info
BeginAtOnce(k, t) ==
    /\ pc = "idle"
    /\ op' = [kind |-> k, track |-> t]
    /\ pc' = CASE up < 2 -> "info"
               [] up >= 2 -> IF k = "write" THEN "wpt" ELSE "seek"
    /\ rx' = (IF up < 2 THEN <<>> ELSE rx) /\ Write(Sends(pc', op'))
    /\ tries' = 0 /\ got' = <<>> /\ res' = "none" /\ laid' = "none"
    /\ smooth' = (tx = <<>> /\ out = <<>>)
    /\ UNCHANGED <<step, up, head, out, mode, pos, trk0, wpt, status>>

Begin(k, t) ==
    /\ pc = "idle"
    /\ pc' = "info" /\ op' = [kind |-> k, track |-> t]
    /\ rx' = <<>> /\ Write(Sends("info", op'))
    /\ tries' = 0 /\ got' = <<>> /\ res' = "none" /\ laid' = "none"
    /\ smooth' = (tx = <<>> /\ out = <<>>)
    /\ UNCHANGED <<step, up, head, out, mode, pos, trk0, wpt, status>>

\* get_info flushes what has arrived before it sends its command again.
Resends == pc' = "info" /\ step' = "wait"
Unread(s) == rx' = IF Resends THEN <<>> ELSE s

\* a plausible slip: the echoed command is not looked at
OutcomeOfAnyone == rx[2]

\* serial_read_exact: the answer's header, whoever's answer it is.
Outcome == IF rx[1] # Sends(pc, op).c THEN Mismatch ELSE rx[2]
Header ==
    /\ pc \notin {"idle", "sync"} /\ step = "wait"
    /\ Len(rx) >= 2
    /\ Answer(Outcome)
    /\ Unread(After(rx, 2))
    /\ UNCHANGED <<op, device>>

\* The bytes read before a timeout are lost.
HeaderLate ==
    /\ pc \notin {"idle", "sync"} /\ step = "wait"
    /\ Len(rx) < 2
    /\ Answer(Late)
    /\ rx' = <<>>
    /\ UNCHANGED <<op, device>>

InfoRest ==
    /\ pc = "info" /\ step = "rest"
    /\ \/ /\ Len(rx) >= InfoLen
          /\ rx' = After(rx, InfoLen)
          /\ GoTo(Ready(up)) /\ tries' = 0 /\ smooth' = smooth
       \/ /\ Len(rx) < InfoLen
          /\ rx' = <<>>
          /\ InfoAgain /\ smooth' = FALSE
    /\ UNCHANGED <<op, up, head, got, device>>

\* A pin that does not arrive leaves the variable it is read into unset.
PinRest ==
    /\ pc \in {"at0", "at0again", "wpt", "wptagain"} /\ step = "rest"
    /\ \/ /\ rx # <<>>
          /\ rx' = Tail(rx)
          /\ Pin(Head(rx) # 0) /\ smooth' = smooth
       \/ /\ rx = <<>>
          /\ rx' = rx
          /\ \E unset \in BOOLEAN : Pin(unset)
          /\ smooth' = FALSE
    /\ UNCHANGED <<op, tries, up, head, got, device>>

\* read_flux takes a byte, and if it does not end the stream all that has come
\* behind it; a timeout ends the stream as the terminator does.
FluxRest ==
    /\ pc = "read" /\ step = "rest"
    /\ \/ /\ rx # <<>>
          /\ LET n == IF Head(rx) = 0 THEN 1 ELSE Len(rx)
             IN /\ got' = got \o SubSeq(rx, 1, n)
                /\ rx' = After(rx, n)
                /\ IF rx[n] = 0 THEN GoTo("rstatus") ELSE UNCHANGED <<pc, step, res, tx>>
          /\ smooth' = smooth
       \/ /\ rx = <<>>
          /\ GoTo("rstatus") /\ smooth' = FALSE
          /\ UNCHANGED <<got, rx>>
    /\ UNCHANGED <<op, tries, up, head, device>>

WriteData ==
    /\ pc = "write" /\ step = "rest"
    /\ Write([c |-> FluxData, arg |-> op.track])
    /\ pc' = "sync"
    /\ UNCHANGED <<step, op, tries, up, head, got, res, smooth, rx, device>>

SyncByte ==
    /\ pc = "sync"
    /\ \/ /\ rx # <<>> /\ rx' = Tail(rx) /\ smooth' = smooth
       \/ /\ rx = <<>> /\ rx' = rx /\ smooth' = FALSE
    /\ GoTo("wstatus")
    /\ UNCHANGED <<op, tries, up, head, got, device>>

Host == \/ Header \/ HeaderLate \/ InfoRest \/ PinRest \/ FluxRest
        \/ WriteData \/ SyncByte

-----------------------------------------------------------------------------
(* The device takes one command at a time, in the order they were sent.    *)

Reply(e, ack, payload) ==
    /\ rx' = rx \o <<e.c, ack>>
    /\ out' = IF ack = AckOk THEN payload ELSE <<>>

Plain(e) ==
    /\ e.c \in {GetInfo, SetBus, Select_, Motor, FluxStatus}
    /\ \E ack \in CASE e.c = GetInfo    -> {AckOk}
                    [] e.c = FluxStatus -> {status}
                    [] e.c = SetBus     -> {AckOk, BadCommand}
                    [] OTHER            -> {AckOk, NoUnit} :
          Reply(e, ack, IF e.c = GetInfo THEN Copies(InfoByte, InfoLen) ELSE <<>>)
    /\ UNCHANGED <<mode, pos, trk0, status>>

Moves(e) ==
    /\ e.c \in {Seek, NoClickStep, Head_}
    /\ \/ /\ Reply(e, AckOk, <<>>)
          /\ pos' = CASE e.c = Seek  -> <<e.arg, pos[2]>>
                      [] e.c = Head_ -> <<pos[1], e.arg>>
                      [] OTHER       -> pos
          /\ trk0' \in CASE e.c = Head_ -> {trk0}
                         [] e.c = Seek /\ e.arg > 0 -> {FALSE}
                         [] OTHER -> BOOLEAN
       \/ /\ Reply(e, IF e.c = Seek THEN NoTrk0 ELSE NoBus, <<>>)
          /\ UNCHANGED <<pos, trk0>>
    /\ UNCHANGED <<mode, status>>

\* Both pins are active low.
Pins(e) ==
    /\ e.c = GetPin
    /\ LET active == IF e.arg = Trk0Pin THEN trk0 ELSE wpt
       IN \E ack \in {AckOk, BadPin} : Reply(e, ack, <<IF active THEN 0 ELSE 1>>)
    /\ UNCHANGED <<mode, pos, trk0, status>>

\* A stream that the device could not finish ends too, and the status says so.
Streams(e) ==
    /\ e.c = ReadFlux
    /\ \/ Reply(e, Overflow, <<>>) /\ status' = status
       \/ \E n \in 0 .. MaxFlux :
             /\ Reply(e, AckOk, Append(Copies(FluxByte(pos), n), 0))
             /\ status' \in {AckOk, NoIndex, Overflow}
    /\ UNCHANGED <<mode, pos, trk0>>

TakesData(e) ==
    /\ e.c = WriteFlux
    /\ Reply(e, IF wpt THEN WrProt ELSE AckOk, <<>>)
    /\ mode' = IF wpt THEN "command" ELSE "data"
    /\ UNCHANGED <<pos, trk0, status>>

DeviceCommand ==
    /\ mode = "command" /\ out = <<>> /\ tx # <<>>
    /\ tx' = Tail(tx)
    /\ LET e == Head(tx)
       IN Plain(e) \/ Moves(e) \/ Pins(e) \/ Streams(e) \/ TakesData(e)
    /\ UNCHANGED <<host, wpt, laid>>

\* Whatever comes is written to the track until a 0 has come, then a sync byte
\* is sent.  The 0 may be that of a command: GET_INFO begins with it.
DeviceData ==
    /\ mode = "data" /\ tx # <<>>
    /\ tx' = Tail(tx)
    /\ IF Head(tx).c \in {FluxData, GetInfo}
       THEN /\ status' \in {AckOk, Underflow}
            /\ laid' = IF Head(tx).c = FluxData /\ status' = AckOk THEN "whole" ELSE "torn"
            /\ out' = <<0>> /\ mode' = "command"
       ELSE UNCHANGED <<status, laid, out, mode>>
    /\ UNCHANGED <<host, rx, pos, trk0, wpt>>

DeviceSends ==
    /\ out # <<>>
    /\ rx' = Append(rx, Head(out))
    /\ out' = Tail(out)
    /\ UNCHANGED <<host, tx, mode, pos, trk0, wpt, status, laid>>

Device == DeviceCommand \/ DeviceData \/ DeviceSends

-----------------------------------------------------------------------------
Next == \/ \E k \in Kinds, t \in Targets : Begin(k, t)
        \/ Host \/ Device

Spec == Init /\ [][Next]_vars

(* Every wait of the host has a timeout, and a device that is only slow    *)
(* gets to its next command or byte in the end.                            *)
FairSpec == Spec /\ WF_vars(Host) /\ WF_vars(Device)

-----------------------------------------------------------------------------
(* The flux a read returns as good was read from the track it was asked    *)
(* for, also when answers to this and to earlier operations come late:     *)
(* only the echoed command (uft_gw_command) and the info at the start of   *)
(* each operation (ensure_drive_selected) tell old answers from new ones.  *)
(* They do while no more than five commands are unanswered.  A device that *)
(* is behind by all the commands of a read answers it with the one before. *)
FluxIsOfTheTrackAsked ==
    res = "ok" /\ op.kind = "read" => Decoded \subseteq {FluxByte(op.track)}

(* When the device comes to a WRITE_FLUX its head is over the track the    *)
(* operation was for, and when it comes to the stream it is writing: no    *)
(* queue of up to six commands it has fallen behind with writes to another *)
(* track.  One of eight does: the host takes the answers to the write      *)
(* before for those to this one, whose refused head select it never sees.  *)
WritesOnlyAtTheTarget ==
    tx # <<>> /\ out = <<>> =>
        /\ Head(tx).c = WriteFlux /\ mode = "command" => pos = Head(tx).arg
        /\ Head(tx).c = FluxData => mode = "data" /\ pos = Head(tx).arg

(* A write reported as done has been done: the device took the whole       *)
(* stream and had no underflow, even if the sync byte or a status is late. *)
(* So it is while no more than six commands are unanswered.  With ten, the *)
(* status of a write that timed out is taken for that of the next one.     *)
OkWriteIsWritten == res = "ok" /\ op.kind = "write" => laid = "whole"

(* Where every answer came in time and without an error, a good result is  *)
(* true of the drive, whatever the operations before it left on the line:  *)
(* the head is over the cylinder and on cylinder 0 the sensor sees it,     *)
(* even after the step of uft_gw_seek; a read is whole, ends in its        *)
(* terminator and is all of the track; a write is on the track, and whole. *)
SmoothResultsAreTrue ==
    res = "ok" /\ smooth =>
        /\ pos[1] = op.track[1] /\ (pos[1] = 0 => trk0)
        /\ op.kind = "read" => /\ pos = op.track /\ status = AckOk
                               /\ Has(got, 0) /\ Decoded \subseteq {FluxByte(pos)}
        /\ op.kind = "write" => pos = op.track /\ laid = "whole"

(* ... and it has read what it asked for to the last byte: nothing is left *)
(* on the line to be taken for an answer to the next operation.            *)
SmoothLeavesNothingUnread ==
    pc = "idle" /\ smooth => rx = <<>> /\ tx = <<>> /\ out = <<>>

(* Every operation returns, whatever is late, lost in a resynchronisation  *)
(* or refused: the retry loops are bounded and no read waits for ever.     *)
EveryOperationEnds == (pc # "idle") ~> (pc = "idle")
=============================================================================
