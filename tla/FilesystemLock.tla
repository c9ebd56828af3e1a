--------------------------- MODULE FilesystemLock ---------------------------
(***************************************************************************)
(* withFilesystemLock of the state ledger (filesystem-lock.ts): a SQLite   *)
(* file that is linked into place once and never removed by the code, a    *)
(* RESERVED lock on the file that was opened, and checks that the path     *)
(* still names that file before and after the callback.  A file is its     *)
(* number: the model joins inode and instance_id, which are made together. *)
(*                                                                         *)
(* The actions here are the lock's share of a call.  CoordinationRoot,     *)
(* which extends this module, says what happens inside the callback.       *)
(***************************************************************************)
EXTENDS Naturals, FiniteSets

CONSTANTS
    Procs,      \* processes
    Slots,      \* calls a process may have under way at once
    MaxFiles,   \* bound: lock files ever linked
    Nobody      \* a file nobody has reserved

Callers == Procs \X Slots
Files == 1..MaxFiles
NoFile == 0

ASSUME LockAssumption == MaxFiles \in Nat /\ Nobody \notin Callers

VARIABLES
    lockFile,     \* the file the lock path names
    linked,       \* how many files were ever linked there
    reserved,     \* reserved[f]: the caller whose transaction holds file f
    activePaths,  \* processes that have the path in their activePaths
    stage,        \* stage[c]: where c is in withFilesystemLock
    opened,       \* opened[c]: the file c has open, the one its stat found
    removed       \* the environment has removed the lock file

lockVars == <<lockFile, linked, reserved, activePaths, stage, opened, removed>>

Stages == {"idle", "waiting", "publish", "link", "open", "reserve", "inside"}

LockInit ==
    /\ lockFile = NoFile
    /\ linked = 0
    /\ reserved = [f \in Files |-> Nobody]
    /\ activePaths = {}
    /\ stage = [c \in Callers |-> "idle"]
    /\ opened = [c \in Callers |-> NoFile]
    /\ removed = FALSE

LockTypeOK ==
    /\ lockFile \in 0..MaxFiles
    /\ linked \in 0..MaxFiles
    /\ reserved \in [Files -> Callers \cup {Nobody}]
    /\ activePaths \subseteq Procs
    /\ stage \in [Callers -> Stages]
    /\ opened \in [Callers -> 0..MaxFiles]
    /\ removed \in BOOLEAN

(***************************************************************************)
(* A process that closes any handle on a file gives up every POSIX lock it *)
(* holds on it, whichever of its calls took the lock.                      *)
(***************************************************************************)
ClosedBy(p, f) ==
    [g \in Files |-> IF g = f /\ reserved[g] # Nobody /\ reserved[g][1] = p
                     THEN Nobody ELSE reserved[g]]

MoveTo(c, s) == stage' = [stage EXCEPT ![c] = s]
\* As SamePath, without the check after the callback.
SamePathAtEntry(c) ==
    stage[c] = "inside" \/ lockFile = opened[c]
SamePath(c) == lockFile = opened[c]

(* while (activePaths.has(lockPath)) retry, then activePaths.add. *)
Claim(c) ==
    /\ stage[c] = "waiting"
    /\ c[1] \notin activePaths
    /\ activePaths' = activePaths \cup {c[1]}
    /\ MoveTo(c, "publish")
    /\ UNCHANGED <<lockFile, linked, reserved, opened, removed>>

(* publishLock: the path is looked at, and linked only if it was not there. *)
Publish(c) ==
    /\ stage[c] = "publish"
    /\ MoveTo(c, IF lockFile = NoFile THEN "link" ELSE "open")
    /\ UNCHANGED <<lockFile, linked, reserved, activePaths, opened, removed>>

(* link refuses to replace: EEXIST leaves the file another caller linked. *)
\* rename instead of link.
LinkedFileRenamed == linked + 1
LinkedFile == IF lockFile = NoFile THEN linked + 1 ELSE lockFile

Link(c) ==
    /\ stage[c] = "link"
    /\ linked < MaxFiles
    /\ lockFile' = LinkedFile
    /\ linked' = IF lockFile' = lockFile THEN linked ELSE linked + 1
    /\ MoveTo(c, "open")
    /\ UNCHANGED <<reserved, activePaths, opened, removed>>

(***************************************************************************)
(* The path is looked at three times in a row: stat, a read-only handle    *)
(* for the identity, the database.  A file that is replaced among them is  *)
(* refused where one replaced just after them is, so they are one step;    *)
(* the read-only handle is closed again.                                   *)
(***************************************************************************)
Open(c) ==
    /\ stage[c] = "open"
    /\ lockFile # NoFile
    /\ opened' = [opened EXCEPT ![c] = lockFile]
    /\ reserved' = ClosedBy(c[1], lockFile)
    /\ MoveTo(c, "reserve")
    /\ UNCHANGED <<lockFile, linked, activePaths, removed>>

(* BEGIN IMMEDIATE, and the first checkPath before the callback runs. *)
Reserve(c) ==
    /\ stage[c] = "reserve"
    /\ reserved[opened[c]] = Nobody
    /\ SamePath(c)
    /\ reserved' = [reserved EXCEPT ![opened[c]] = c]
    /\ MoveTo(c, "inside")
    /\ UNCHANGED <<lockFile, linked, activePaths, opened, removed>>

(* The finally block: ROLLBACK, close, activePaths.delete. *)
Finally(c) ==
    /\ reserved' = IF opened[c] = NoFile THEN reserved ELSE ClosedBy(c[1], opened[c])
    /\ activePaths' = activePaths \ {c[1]}
    /\ opened' = [opened EXCEPT ![c] = NoFile]
    /\ MoveTo(c, "idle")
    /\ UNCHANGED <<lockFile, linked, removed>>

(***************************************************************************)
(* What makes a call throw once it is in activePaths: the path is gone or  *)
(* names another file, or the wait for the reserved lock times out.        *)
(***************************************************************************)
Thrown(c) ==
    \/ stage[c] = "open" /\ lockFile = NoFile
    \/ stage[c] = "reserve" /\ (reserved[opened[c]] # Nobody \/ ~SamePath(c))

Throws(c) == Thrown(c) /\ Finally(c)

(* The deadline passes while another call of the process has the path. *)
GivesUp(c) ==
    /\ stage[c] = "waiting"
    /\ c[1] \in activePaths
    /\ MoveTo(c, "idle")
    /\ UNCHANGED <<lockFile, linked, reserved, activePaths, opened, removed>>

(* The operating system closes the handles of a process that dies. *)
LockDies(p) ==
    /\ reserved' = [f \in Files |-> IF reserved[f] # Nobody /\ reserved[f][1] = p
                                    THEN Nobody ELSE reserved[f]]
    /\ activePaths' = activePaths \ {p}
    /\ stage' = [c \in Callers |-> IF c[1] = p THEN "idle" ELSE stage[c]]
    /\ opened' = [c \in Callers |-> IF c[1] = p THEN NoFile ELSE opened[c]]
    /\ UNCHANGED <<lockFile, linked, removed>>

(* Somebody deletes the lock file, which the documentation forbids. *)
RemoveLock ==
    /\ lockFile # NoFile
    /\ lockFile' = NoFile
    /\ removed' = TRUE
    /\ UNCHANGED <<linked, reserved, activePaths, stage, opened>>

LockStep(c) == Claim(c) \/ Publish(c) \/ Link(c) \/ Open(c)
=============================================================================
