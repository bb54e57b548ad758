------------------------------ MODULE Copying ------------------------------
(***************************************************************************)
(* What a transfer promises whoever owns the files it writes, with no      *)
(* blocks, messages, connections or temporary files: a file is what it was *)
(* until it is replaced in one step by all of the source, and that happens *)
(* only while it is decided that it may be.  Of files for which the disk   *)
(* failed, at once with a replacement or not, nothing is known any more.   *)
(***************************************************************************)
CONSTANTS
  Names,      \* the files
  Originals,  \* what a file can hold before
  Copy,       \* the source
  Unknown     \* anything

VARIABLES
  disk,       \* what each file holds
  allowed     \* the files that may be replaced

copyingVars == <<disk, allowed>>

Init == disk \in [Names -> Originals \cup {Unknown}] /\ allowed = {}

Allow(f) == allowed' = allowed \cup {f}
Forbid(f) == allowed' = allowed \ {f}

Without(files, failed) == [f \in Names |-> IF f \in failed THEN Unknown ELSE files[f]]

Fail(failed) == disk' = Without(disk, failed)
Replace(f, failed) ==
  /\ f \in allowed /\ disk[f] # Unknown
  /\ disk' = Without([disk EXCEPT ![f] = Copy], failed)
  /\ UNCHANGED allowed

Next ==
  \E f \in Names, failed \in SUBSET Names :
    \/ (Allow(f) \/ Forbid(f) \/ UNCHANGED allowed) /\ Fail(failed)
    \/ Replace(f, failed)

Spec == Init /\ [][Next]_copyingVars
=============================================================================
