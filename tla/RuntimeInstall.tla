---------------------------- MODULE RuntimeInstall ----------------------------
(***************************************************************************)
(* Installing the daemon's runtime from the application's bundle           *)
(* (local_daemon/runtime.rs: install_runtime_into): copy it beside the     *)
(* destination, check the copy, and exchange the two directories by        *)
(* renaming, with the old one as the backup.                               *)
(*                                                                         *)
(* Applications of the same version share the destination, whatever their  *)
(* bundles hold; any of them may end at any step, and any file operation   *)
(* may fail.                                                               *)
(***************************************************************************)
EXTENDS Naturals

CONSTANTS
    Installers,     \* applications
    Bundle,         \* [Installers -> digests of their bundles]
    Digests,
    MaxInstalls, MaxErrors  \* bounds on installations; on failures and crashes

InstallAssumption ==
    /\ Bundle \in [Installers -> Digests]
    /\ {MaxInstalls, MaxErrors} \subseteq Nat

VARIABLES
    step,           \* [Installers -> where the installation is]
    staging, backup,    \* [Installers -> the directories of its own]
    destination,
    present,        \* there has been something at the destination
    stranded,       \* what was there is in a backup that nobody puts back
    installs, errors

vars == <<step, staging, backup, destination, present, stranded, installs, errors>>

Absent == [kind |-> "absent"]
Partial == [kind |-> "partial"]             \* no marker yet
Unmarked == [kind |-> "unmarked"]           \* not Corbit's
Damaged == [kind |-> "damaged"]             \* marked, and no longer valid
Whole(d) == [kind |-> "whole", digest |-> d]

Init ==
    /\ step = [i \in Installers |-> "idle"]
    /\ staging = [i \in Installers |-> Absent] /\ backup = [i \in Installers |-> Absent]
    /\ destination \in {Absent, Unmarked, Damaged} \cup {Whole(d) : d \in Digests}
    /\ present = (destination # Absent)
    /\ stranded = FALSE /\ installs = 0 /\ errors = 0

Goto(i, l) == step' = [step EXCEPT ![i] = l]
Put(dir, i, x) == dir' = [dir EXCEPT ![i] = x]
Error == errors < MaxErrors /\ errors' = errors + 1

-----------------------------------------------------------------------------
\* has_managed_install_marker.
Managed(d) == d.kind \in {"whole", "damaged"}

\* validate_installed_runtime succeeds on this bundle only; what is not
\* Corbit's is left alone.
BeginInstall(i) ==
    /\ step[i] = "idle" /\ installs < MaxInstalls /\ installs' = installs + 1
    /\ destination # Whole(Bundle[i])
    /\ destination # Absent => Managed(destination)
    /\ Goto(i, "copy")
    /\ UNCHANGED <<present, staging, backup, destination, stranded, errors>>

\* copy_runtime_tree: file by file.
Copy(i) ==
    /\ step[i] = "copy"
    /\ Put(staging, i, Partial)
    /\ Goto(i, "mark")
    /\ UNCHANGED <<present, backup, destination, stranded, installs, errors>>

\* The rest of it, the marker, and the check of the copy.
Mark(i) ==
    /\ step[i] = "mark"
    /\ Put(staging, i, Whole(Bundle[i]))
    /\ Goto(i, "set_aside")
    /\ UNCHANGED <<present, backup, destination, stranded, installs, errors>>

\* Mutant: it is moved into place first and marked there.
CommitUnmarked(i) ==
    /\ step[i] = "mark" /\ destination = Absent
    /\ destination' = staging[i] /\ Put(staging, i, Absent)
    /\ Goto(i, "clean_up")
    /\ present' = TRUE /\ stranded' = FALSE
    /\ UNCHANGED <<backup, installs, errors>>

SetAside(i) ==
    /\ step[i] = "set_aside"
    /\ Put(backup, i, destination)
    /\ destination' = Absent
    /\ Goto(i, "commit")
    /\ UNCHANGED <<present, staging, stranded, installs, errors>>

\* A directory cannot be renamed onto another one.
Commit(i) ==
    /\ step[i] = "commit" /\ destination = Absent
    /\ destination' = staging[i] /\ Put(staging, i, Absent)
    /\ Goto(i, "clean_up")
    /\ present' = TRUE /\ stranded' = FALSE
    /\ UNCHANGED <<backup, installs, errors>>

CleanUp(i) ==
    /\ step[i] = "clean_up"
    /\ Put(backup, i, Absent)
    /\ Goto(i, "idle")
    /\ UNCHANGED <<present, staging, destination, stranded, installs, errors>>

\* The backup comes back, if nothing else took its place; that this fails as
\* well is ignored.
PutBack(i) ==
    IF step[i] = "commit" /\ backup[i] # Absent /\ destination = Absent
    THEN \/ destination' = backup[i] /\ Put(backup, i, Absent) /\ stranded' = FALSE
         \/ stranded' = TRUE /\ Put(backup, i, Absent) /\ UNCHANGED destination
    ELSE UNCHANGED <<backup, destination, stranded>>

\* A file operation fails, or somebody else's runtime is in place already.
InstallFails(i) ==
    /\ step[i] \in {"copy", "mark", "set_aside", "commit"}
    /\ \/ step[i] = "commit" /\ destination # Absent /\ UNCHANGED errors
       \/ Error
    /\ PutBack(i)
    /\ Put(staging, i, Absent)
    /\ Goto(i, "idle")
    /\ UNCHANGED <<present, installs>>

\* The directories of the dead application stay.
InstallerDies(i) ==
    /\ step[i] # "idle" /\ Error
    /\ stranded' = (stranded \/ (step[i] = "commit" /\ backup[i] # Absent))
    /\ Goto(i, "idle")
    /\ Put(staging, i, Absent) /\ Put(backup, i, Absent)
    /\ UNCHANGED <<present, destination, installs>>

\* The installed files are changed from outside.
Damage ==
    /\ destination.kind = "whole" /\ Error
    /\ destination' = Damaged
    /\ UNCHANGED <<present, step, staging, backup, stranded, installs>>

Next ==
    \/ \E i \in Installers :
        \/ BeginInstall(i) \/ Copy(i) \/ Mark(i) \/ SetAside(i) \/ Commit(i) \/ CleanUp(i)
        \/ InstallFails(i) \/ InstallerDies(i)
    \/ Damage

Spec == Init /\ [][Next]_vars

-----------------------------------------------------------------------------
\* README:305: the installation is atomic.  Whoever looks at the destination,
\* at any moment and after any crash, finds no half of a copy.
DestinationIsWhole == destination.kind # "partial"

\* README:307: a directory without Corbit's marker is not overwritten.
UnmarkedStays == [][destination = Unmarked => destination' = Unmarked]_vars

\* A runtime that was there goes missing only while it is exchanged.  It stays
\* missing, until somebody installs again, if the one who exchanges it ended
\* between the two renamings, or failed in the second one and in putting the
\* backup back (runtime.rs:469), and in no other way.
RuntimeReturns ==
    destination = Absent /\ present /\ ~stranded => \E i \in Installers : step[i] = "commit"

\* Both: the runtime in place is the old or the new one, or, in those two ways
\* and during the exchange, none; it is never a half of one.
InstallIsAtomic == DestinationIsWhole /\ RuntimeReturns
=============================================================================
