---------------------------- MODULE MCWriteGate -----------------------------
(***************************************************************************)
(* Images and policies for model checking WriteGate.  The images stand for *)
(* an ADF (900, writable), a 720K IMG (700, writable), a NIB (800, not     *)
(* writable) and a file no signature matches.                              *)
(***************************************************************************)
EXTENDS WriteGate, TLC

MCProbe ==
    [d \in Data |->
        CASE d = "adf" -> [known |-> TRUE, write |-> TRUE, confidence |-> 900]
          [] d = "img" -> [known |-> TRUE, write |-> TRUE, confidence |-> 700]
          [] d = "nib" -> [known |-> TRUE, write |-> FALSE, confidence |-> 800]
          [] OTHER     -> [known |-> FALSE, write |-> FALSE, confidence |-> 0]]

Strict == [format |-> TRUE, drive |-> TRUE, snapshot |-> TRUE, readonly |-> FALSE,
           unsafe |-> FALSE, strict |-> TRUE, confidence |-> 800]

Relaxed == [format |-> TRUE, drive |-> FALSE, snapshot |-> TRUE, readonly |-> TRUE,
            unsafe |-> FALSE, strict |-> FALSE, confidence |-> 500]

(* A caller's own: the relaxed one, with the drive looked at.  A read-only *)
(* format may be overridden, an unsafe drive may not.                      *)
Bench == [Relaxed EXCEPT !.drive = TRUE]

(* A caller's own policy that lets the user override everything and whose  *)
(* threshold the NIB does not reach. *)
Custom == [format |-> TRUE, drive |-> TRUE, snapshot |-> FALSE, readonly |-> TRUE,
           unsafe |-> TRUE, strict |-> FALSE, confidence |-> 850]

MCPolicies == {Strict, Bench, Custom}

AnyDrive == {{}, {"unsafe"}, {"protected"}}

Symmetric == Permutations(Users)
=============================================================================
