----------------------------- MODULE WriteGate ------------------------------
(***************************************************************************)
(* src/policy/uft_write_gate.c: the checks a caller runs before it         *)
(* overwrites something: is the image of a format that can be written, is  *)
(* the drive fit, has a recovery snapshot been made and verified; and the  *)
(* user's override of a check that failed.                                 *)
(*                                                                         *)
(* The snapshot is made by module Snapshot, in a directory that several    *)
(* gates share: format and drive are checked in one step, the snapshot     *)
(* takes one step per file operation.                                      *)
(***************************************************************************)
EXTENDS Snapshot

CONSTANTS
    Probe,     \* what uft_write_gate_probe_format finds in each image
    Policies,  \* policies the callers use
    Diags,     \* drive diagnostics the callers have: sets of flags
    NoDiag     \* none given

VARIABLES
    policy,    \* the policy of each user's gate
    image,     \* the image it was given
    diag,      \* the diagnostics it was given
    phase,     \* where the gate is
    result     \* uft_write_gate_result_t, and whether it was overridden

gv   == <<policy, image, diag, phase, result>>
vars == <<sv, gv>>

Statuses == {"OK", "FORMAT_READONLY", "DRIVE_UNSAFE", "SNAPSHOT_FAILED",
             "VERIFY_FAILED", "NEEDS_OVERRIDE", "PRECHECK_FAILED"}
Checks   == {"FORMAT", "DRIVE", "SNAPSHOT", "VERIFY"}
Flags    == {"unsafe", "protected", "nodisk"}

ASSUME WriteGateAssumption ==
    /\ Probe \in [Data -> [known : BOOLEAN, write : BOOLEAN, confidence : Nat]]
    /\ Policies \subseteq
         [format : BOOLEAN, drive : BOOLEAN, snapshot : BOOLEAN,
          readonly : BOOLEAN, unsafe : BOOLEAN, strict : BOOLEAN, confidence : Nat]
    /\ Diags \subseteq SUBSET Flags

(* The result of the checks so far; "done" when precheck has returned. *)
Fresh == [status |-> "OK", override |-> FALSE, passed |-> {}, failed |-> {},
          done |-> FALSE, overridden |-> FALSE]

Blocked(r, status, check) ==
    [r EXCEPT !.status = status, !.failed = @ \cup {check}, !.done = TRUE]

Flagged(r, status, check) ==
    [r EXCEPT !.status = status, !.failed = @ \cup {check}, !.override = TRUE]

Passed(r, checks) == [r EXCEPT !.passed = @ \cup checks]

Init ==
    /\ SnapInit
    /\ policy = [u \in Users |-> CHOOSE p \in Policies : TRUE]
    /\ image = [u \in Users |-> Empty]
    /\ diag = [u \in Users |-> NoDiag]
    /\ phase = [u \in Users |-> "idle"]
    /\ result = [u \in Users |-> Fresh]

-----------------------------------------------------------------------------
(* step 1 of precheck *)
FormatCheck(p, d) ==
    IF ~p.format THEN Fresh
    ELSE IF d = Empty \/ ~Probe[d].known \/ Probe[d].confidence < p.confidence
    THEN Blocked(Fresh, "PRECHECK_FAILED", "FORMAT")
    ELSE IF Probe[d].write THEN Passed(Fresh, {"FORMAT"})
    ELSE IF p.readonly THEN Flagged(Fresh, "FORMAT_READONLY", "FORMAT")
    ELSE Blocked(Fresh, "FORMAT_READONLY", "FORMAT")

(* step 2, on the result r of step 1 *)
DriveCheck(r, p, g) ==
    IF r.done \/ ~p.drive THEN r
    ELSE IF g = NoDiag
    THEN IF p.strict
         THEN [Flagged(r, "NEEDS_OVERRIDE", "DRIVE") EXCEPT !.done = TRUE]
         ELSE r
    ELSE IF "unsafe" \in g
    THEN IF p.unsafe THEN Flagged(r, "DRIVE_UNSAFE", "DRIVE")
         ELSE Blocked(r, "DRIVE_UNSAFE", "DRIVE")
    ELSE IF g \cap {"protected", "nodisk"} # {}
    THEN Blocked(r, "DRIVE_UNSAFE", "DRIVE")
    ELSE Passed(r, {"DRIVE"})

\* a plausible slip: the checks that were flagged are forgotten
DecideLoosely(r) == [r EXCEPT !.status = "OK", !.done = TRUE]

(* the final decision *)
Decide(r) ==
    [r EXCEPT !.status = IF ~r.override /\ r.failed = {} THEN "OK" ELSE @,
              !.done = TRUE]

(* uft_write_gate_precheck_with_diag, up to the snapshot *)
Precheck(u, p, d, g) ==
    /\ phase[u] = "idle" /\ step[u] = "idle"
    /\ policy' = [policy EXCEPT ![u] = p]
    /\ image' = [image EXCEPT ![u] = d]
    /\ diag' = [diag EXCEPT ![u] = g]
    /\ LET r == DriveCheck(FormatCheck(p, d), p, g) IN
          IF r.done \/ ~p.snapshot
          THEN /\ result' = [result EXCEPT ![u] = IF r.done THEN r ELSE Decide(r)]
               /\ phase' = [phase EXCEPT ![u] = "decided"]
          ELSE /\ result' = [result EXCEPT ![u] = r]
               /\ phase' = [phase EXCEPT ![u] = "saving"]
    /\ UNCHANGED sv

(* step 3: no directory given, or no image *)
SnapshotRefused(u) ==
    /\ phase[u] = "saving" /\ step[u] = "idle"
    /\ result' = [result EXCEPT ![u] = Blocked(@, "SNAPSHOT_FAILED", "SNAPSHOT")]
    /\ phase' = [phase EXCEPT ![u] = "decided"]
    /\ UNCHANGED <<sv, policy, image, diag>>

(* step 3: uft_snapshot_create ... *)
SnapshotStarts(u) ==
    /\ phase[u] = "saving"
    /\ image[u] # Empty
    /\ Create(u, image[u], TRUE)
    /\ phase' = [phase EXCEPT ![u] = "creating"]
    /\ UNCHANGED <<policy, image, diag, result>>

SnapshotStep(u) ==
    /\ phase[u] = "creating"
    /\ WriteFails(u) \/ WriteDone(u) \/ CreateChecked(u)
    /\ UNCHANGED gv

(* ... returns ... *)
SnapshotReturns(u) ==
    /\ phase[u] = "creating" /\ step[u] = "idle"
    /\ IF ret[u] = <<"create", TRUE>>
       THEN /\ phase' = [phase EXCEPT ![u] = "verifying"]
            /\ UNCHANGED result
       ELSE /\ phase' = [phase EXCEPT ![u] = "decided"]
            /\ result' = [result EXCEPT ![u] =
                             Blocked(@, "SNAPSHOT_FAILED", "SNAPSHOT")]
    /\ UNCHANGED <<sv, policy, image, diag>>

(* ... and is verified once more *)
SnapshotVerify(u) ==
    /\ phase[u] = "verifying"
    /\ \E ok \in {Verified(u), FALSE} :
          result' = [result EXCEPT ![u] =
                        IF ok THEN Decide(Passed(@, {"SNAPSHOT", "VERIFY"}))
                        ELSE Blocked(@, "VERIFY_FAILED", "VERIFY")]
    /\ phase' = [phase EXCEPT ![u] = "decided"]
    /\ UNCHANGED <<sv, policy, image, diag>>

\* a plausible slip: whether an override is possible is not looked at
ApplyOverrideAlways(u) ==
    /\ phase[u] = "decided"
    /\ result' = [result EXCEPT ![u].status = "OK", ![u].override = FALSE,
                                ![u].overridden = TRUE]
    /\ UNCHANGED <<sv, policy, image, diag, phase>>

(* uft_write_gate_apply_override *)
ApplyOverride(u) ==
    /\ phase[u] = "decided"
    /\ result[u].override
    /\ result' = [result EXCEPT ![u].status = "OK", ![u].override = FALSE,
                                ![u].overridden = TRUE]
    /\ UNCHANGED <<sv, policy, image, diag, phase>>

-----------------------------------------------------------------------------
(* The caller overwrites only when the gate says so ... *)
WriteStarts(u) ==
    /\ phase[u] = "decided"
    /\ result[u].status = "OK"
    /\ phase' = [phase EXCEPT ![u] = "writing"]
    /\ UNCHANGED <<sv, policy, image, diag, result>>

(* ... and drops the result then, or without writing *)
Close(u) ==
    /\ phase[u] \in {"decided", "writing"}
    /\ phase' = [phase EXCEPT ![u] = "idle"]
    /\ policy' = [policy EXCEPT ![u] = CHOOSE p \in Policies : TRUE]
    /\ image' = [image EXCEPT ![u] = Empty]
    /\ diag' = [diag EXCEPT ![u] = NoDiag]
    /\ result' = [result EXCEPT ![u] = Fresh]
    /\ UNCHANGED sv

Next ==
    \/ Tick /\ UNCHANGED gv
    \/ \E u \in Users :
          \/ \E p \in Policies, d \in Data \cup {Empty}, g \in Diags \cup {NoDiag} :
                Precheck(u, p, d, g)
          \/ SnapshotRefused(u) \/ SnapshotStarts(u) \/ SnapshotStep(u)
          \/ SnapshotReturns(u) \/ SnapshotVerify(u)
          \/ ApplyOverride(u) \/ WriteStarts(u) \/ Close(u)

Spec == Init /\ [][Next]_vars

-----------------------------------------------------------------------------
Decided(u) == phase[u] \in {"decided", "writing"}

Enabled(p) ==
    {c \in Checks : \/ c = "FORMAT" /\ p.format
                    \/ c = "DRIVE" /\ p.drive
                    \/ c \in {"SNAPSHOT", "VERIFY"} /\ p.snapshot}

(* The header says that UFT_GATE_OK is returned only if all enabled checks *)
(* pass.  What the code keeps of that: behind an OK without an override no *)
(* check has failed, and none of the enabled ones is missing, save the     *)
(* drive check of a policy that is not strict and was given no diagnostics.*)
OkLacksOnlyTheDrive ==
    \A u \in Users :
        Decided(u) /\ result[u].status = "OK" /\ ~result[u].overridden =>
            /\ result[u].failed = {}
            /\ \A c \in Enabled(policy[u]) \ result[u].passed :
                  c = "DRIVE" /\ diag[u] = NoDiag /\ ~policy[u].strict

(* The three cases a policy may leave to the user *)
Offered(p, d, g) ==
    \/ p.format /\ p.readonly /\ d # Empty /\ ~Probe[d].write
    \/ p.drive /\ p.unsafe /\ g # NoDiag /\ "unsafe" \in g
    \/ p.drive /\ p.strict /\ g = NoDiag

(* A result was overridden only where the policy leaves one of its checks  *)
(* to the user, and that check did fail: a failed snapshot alone, or a     *)
(* drive that is protected or empty, is beyond every user.                 *)
OverrideIsOffered ==
    \A u \in Users :
        Decided(u) /\ result[u].overridden => Offered(policy[u], image[u], diag[u])

(* While a write the gate allowed without an override is under way, the    *)
(* snapshot of its image is in the directory and whole, whatever the other *)
(* gates do there.                                                         *)
SavedWhileWriting ==
    \A u \in Users :
        phase[u] = "writing" /\ policy[u].snapshot /\ ~result[u].overridden =>
            Verified(u) /\ snap[u].data = image[u]

(* No override reaches an image whose format is unknown, is not detected   *)
(* with the confidence the policy asks for, or is read-only under a policy *)
(* that does not let the user override that.                               *)
FormatIsAHardStop ==
    \A u \in Users :
        phase[u] = "writing" /\ policy[u].format =>
            /\ image[u] # Empty
            /\ Probe[image[u]].known
            /\ Probe[image[u]].confidence >= policy[u].confidence
            /\ Probe[image[u]].write \/ policy[u].readonly

(* What the one override flag of a result can lift stays within its policy:*)
(* uft_write_gate_apply_override needs a failed check that the policy      *)
(* leaves to the user, and never leads to a write of a format that policy  *)
(* turns down.                                                             *)
OverridesStayInPolicy == OverrideIsOffered /\ FormatIsAHardStop
=============================================================================
