------------------------------ MODULE MacsFile ------------------------------
(***************************************************************************)
(* WriteMacsFile: the list goes to a temporary file beside the target,     *)
(* which is renamed over it.  Each system call is a step, may fail, and    *)
(* may be the last one the process makes.                                  *)
(*                                                                         *)
(* A file is the set of addresses a reader finds in it; a missing file     *)
(* reads as an empty one.  A crash is the death of the process: what the   *)
(* kernel has taken it keeps.                                              *)
(*                                                                         *)
(* A definition headed "Mistake:" is no part of FileSpec.                  *)
(***************************************************************************)
CONSTANTS
    OldList,    \* what the file holds at first
    Lists       \* what PermanentMacs may return, each a set of addresses

VARIABLES
    target,     \* the file at MACS_EXPORT_FILE
    temp,       \* the temporary file, from "write" to "rename"
    list,       \* the addresses to write
    step,       \* the next system call
    outcome,    \* what the export reports to the user
    before,     \* history: the target when the export began
    complete    \* history: the lists the target may hold whole

fileVars == <<target, temp, list, step, outcome, before, complete>>

Steps == {"idle", "mkdir", "create", "write", "close", "chmod", "rename",
          "remove"}

Macs == OldList \cup UNION Lists

FileTypeOK ==
    /\ target \in SUBSET Macs /\ before \in SUBSET Macs
    /\ list \in Lists \cup {{}}
    /\ temp \in SUBSET Macs
    /\ step \in Steps /\ outcome \in {"none", "written", "failed"}
    /\ complete \in SUBSET SUBSET Macs

FileInit ==
    /\ target = OldList /\ temp = {} /\ list = {}
    /\ step = "idle" /\ outcome = "none"
    /\ before = target /\ complete = {target}

BeginExport(macs) ==
    /\ step = "idle" /\ step' = "mkdir"
    /\ list' = macs /\ outcome' = "none"
    /\ before' = target /\ complete' = complete \cup {macs}
    /\ UNCHANGED <<target, temp>>

\* An error returns at once, but a file already created is removed first.
Fails ==
    /\ step' = IF step \in {"mkdir", "create"} THEN "idle" ELSE "remove"
    /\ outcome' = "failed"
    /\ UNCHANGED <<target, temp, list, before, complete>>

MakeDir ==
    /\ step = "mkdir"
    /\ \/ step' = "create" /\ UNCHANGED <<target, temp, list, outcome, before, complete>>
       \/ Fails

\* Mistake: the target itself is opened and truncated.
CreateTarget ==
    /\ step = "create"
    /\ \/ /\ step' = "write" /\ temp' = {} /\ target' = {}
          /\ UNCHANGED <<list, outcome, before, complete>>
       \/ Fails

CreateTemp ==
    /\ step = "create"
    /\ \/ /\ step' = "write" /\ temp' = {}
          /\ UNCHANGED <<target, list, outcome, before, complete>>
       \/ Fails

\* WriteString may stop anywhere.
WriteTemp ==
    /\ step = "write"
    /\ \/ /\ \E mac \in list \ temp : temp' = temp \cup {mac}
          /\ UNCHANGED <<target, list, step, outcome, before, complete>>
       \/ /\ temp = list /\ step' = "close"
          /\ UNCHANGED <<target, temp, list, outcome, before, complete>>
       \/ Fails

CloseTemp ==
    /\ step = "close"
    /\ \/ step' = "chmod" /\ UNCHANGED <<target, temp, list, outcome, before, complete>>
       \/ Fails

\* Mistake: the permissions are set on the target, after the rename.
ChmodLast ==
    /\ step = "chmod"
    /\ \/ /\ target' = temp /\ temp' = {}
          /\ step' = "remove" /\ outcome' \in {"written", "failed"}
          /\ UNCHANGED <<list, before, complete>>
       \/ Fails

ChmodTemp ==
    /\ step = "chmod"
    /\ \/ step' = "rename" /\ UNCHANGED <<target, temp, list, outcome, before, complete>>
       \/ Fails

Rename ==
    /\ step = "rename"
    /\ \/ /\ target' = temp /\ temp' = {}
          /\ step' = "remove" /\ outcome' = "written"
          /\ UNCHANGED <<list, before, complete>>
       \/ Fails

\* The deferred Remove: nothing is there after a rename, and its own error is
\* dropped, in which case the file stays behind and is never looked at again.
RemoveTemp ==
    /\ step = "remove" /\ step' = "idle" /\ temp' = {}
    /\ UNCHANGED <<target, list, outcome, before, complete>>

FileStep ==
    \/ MakeDir \/ CreateTemp \/ WriteTemp \/ CloseTemp \/ ChmodTemp \/ Rename
    \/ RemoveTemp

\* The process dies; a temporary file stays where it is, as a stranger's.
FileCrash ==
    /\ step' = "idle" /\ outcome' = "none" /\ temp' = {} /\ list' = {}
    /\ UNCHANGED <<target, before, complete>>

FileNext == (\E macs \in Lists : BeginExport(macs)) \/ FileStep \/ FileCrash

FileSpec == FileInit /\ [][FileNext]_fileVars

-----------------------------------------------------------------------------
(***************************************************************************)
(* Whoever reads the target, at any moment and after any crash, finds one  *)
(* whole list in it: "an interrupted run cannot leave a half-written list  *)
(* in place of a good one".                                                *)
(***************************************************************************)
NeverHalfWritten == target \in complete

(***************************************************************************)
(* What /writemacs tells its user is what happened: after "wrote" the      *)
(* target holds the list, and after an error it holds what it held before. *)
(***************************************************************************)
ReportedTruthfully ==
    step = "idle" => /\ outcome = "written" => target = list
                     /\ outcome = "failed" => target = before
=============================================================================
