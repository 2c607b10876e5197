-------------------------- MODULE ArtifactPublication --------------------------
(***************************************************************************)
(* One scientific output file from its staging to its publication or its   *)
(* removal, beside other processes that use the same directory             *)
(* (python/pops/output/_writers/common.py, _StagedOutputFile and           *)
(* _QuarantineRecovery; python/pops/runtime/_runtime_instance.py, the      *)
(* registry of recoveries).                                                *)
(*                                                                         *)
(* Rank zero makes every system call and broadcasts the verdict; the other *)
(* ranks only wait for it, so they have no state here.  A file is an inode *)
(* number; a number is used again once no path and no descriptor holds it. *)
(* A path is removed by renaming it into a private quarantine directory,   *)
(* looking at what was moved, and deleting it only when it is our own.     *)
(***************************************************************************)
EXTENDS Integers

CONSTANTS
    Inodes,         \* inode numbers of the file system
    Ours,           \* the number mkstemp gave the staged file
    None,
    MaxCalls,       \* bound: calls of the consumer transaction
    MaxFaults,      \* bound: system calls that fail
    MaxMoves        \* bound: steps of other processes

ASSUME PublicationAssumption ==
    /\ Ours \in Inodes /\ None \notin Inodes
    /\ MaxCalls \in Nat /\ MaxFaults \in Nat /\ MaxMoves \in Nat

Paths == {"temporary", "target"}
Directories == 1..(2 * MaxCalls)

VARIABLES
    link,           \* external: path -> inode it names, or None
    bytes,          \* external: inode -> whose bytes it has
    quarantine,     \* external: private directory -> inode "owned" names
    others,         \* inodes of files other processes still want
    staged,         \* fields of _StagedOutputFile
    registry,       \* _QuarantineRecovery objects in the registry
    call,           \* the call in progress
    calls, faults, moves

disk == <<link, bytes, quarantine, others>>
bounds == <<calls, faults, moves>>
fileVars == <<disk, staged, registry, call, bounds>>

Idle == [op |-> "none", pc |-> "idle", path |-> "none", dir |-> 0, failed |-> FALSE]

\* The temporary is written; the deterministic target is free or taken by an
\* earlier run of the same or of another simulation.
FileInit ==
    /\ \E old \in {None} \cup (Inodes \ {Ours}), kind \in {"same", "other"} :
          /\ old = None => kind = "same"
          /\ link = [temporary |-> Ours, target |-> old]
          /\ bytes = [i \in Inodes |-> IF i = Ours THEN "ours" ELSE kind]
          /\ others = {old} \ {None}
    /\ quarantine = [d \in Directories |-> None]
    /\ staged = [published |-> FALSE, discarded |-> FALSE, finalized |-> FALSE,
                 created |-> FALSE, targetOwner |-> None, evidence |-> None,
                 descriptor |-> TRUE, tried |-> {}]
    /\ registry = {}
    /\ call = Idle
    /\ calls = 0 /\ faults = 0 /\ moves = 0

LinkedPublicly(i) == \E p \in Paths : link[p] = i
LinkedPrivately(i) == \E d \in Directories : quarantine[d] = i
Free(i) ==
    /\ ~LinkedPublicly(i) /\ ~LinkedPrivately(i)
    /\ ~(i = Ours /\ staged.descriptor)

Expected(p) == IF p = "temporary" THEN Ours ELSE staged.targetOwner

Goto(pc) == call' = [call EXCEPT !.pc = pc]
GotoDetach(p, failed) ==
    call' = [call EXCEPT !.pc = "detach", !.path = p, !.dir = 0, !.failed = failed]
Conclude(failed) ==
    call' = [call EXCEPT !.pc = "conclude", !.path = "none", !.dir = 0, !.failed = failed]

Fault == faults < MaxFaults /\ faults' = faults + 1

-----------------------------------------------------------------------------
(* What the consumer transaction calls: publish or discard once staged,    *)
(* rollback after a publish, whatever its result, and again after a failed *)
(* rollback; finalize when the step is accepted.                           *)

Start(op, first) ==
    /\ call.pc = "idle" /\ calls < MaxCalls
    /\ ~staged.discarded /\ ~staged.finalized
    /\ calls' = calls + 1
    /\ staged' = [staged EXCEPT !.tried = @ \cup {op}]
    /\ call' = [Idle EXCEPT !.op = op, !.pc = first,
                            !.path = CASE first # "detach" -> "none"
                                       [] op = "rollback" /\ staged.created -> "target"
                                       [] OTHER -> "temporary"]
    /\ UNCHANGED <<disk, registry, faults, moves>>

Publish == staged.tried = {} /\ Start("publish", "verify")
Discard == staged.tried \subseteq {"discard"} /\ Start("discard", "detach")
Rollback == "publish" \in staged.tried /\ Start("rollback", "detach")

Finalize ==
    /\ call.pc = "idle"
    /\ staged.published /\ ~staged.discarded /\ ~staged.finalized
    /\ "rollback" \notin staged.tried
    /\ staged' = [staged EXCEPT !.descriptor = FALSE, !.finalized = TRUE]
    /\ UNCHANGED <<disk, registry, call, bounds>>

-----------------------------------------------------------------------------
(* publish, on rank zero.                                                   *)

Authentic(i) == i # None /\ bytes[i] # "other"

VerifyTemporary ==
    /\ call.pc = "verify"
    /\ \/ /\ IF Authentic(link["temporary"]) THEN Goto("inspect") ELSE Conclude(TRUE)
          /\ UNCHANGED faults
       \/ Fault /\ Conclude(TRUE)
    /\ UNCHANGED <<disk, staged, registry, calls, moves>>

InspectTemporary ==
    /\ call.pc = "inspect"
    /\ IF link["temporary"] = Ours THEN Goto("link") ELSE Conclude(TRUE)
    /\ UNCHANGED <<disk, staged, registry, bounds>>

\* os.link moves nothing when the target exists, and fails when the
\* temporary has gone; it links whatever the temporary names by now.
LinkTarget ==
    /\ call.pc = "link"
    /\ CASE link["temporary"] = None ->
              Conclude(TRUE) /\ UNCHANGED <<link, staged>>
         [] link["temporary"] # None /\ link["target"] # None ->
              Goto("compare") /\ UNCHANGED <<link, staged>>
         [] OTHER ->
              /\ link' = [link EXCEPT !["target"] = link["temporary"]]
              /\ staged' = [staged EXCEPT !.created = TRUE, !.targetOwner = Ours]
              /\ Goto("linked")
    /\ UNCHANGED <<bytes, quarantine, others, registry, bounds>>

InspectTarget ==
    /\ call.pc = "linked"
    /\ IF link["target"] = Ours THEN GotoDetach("temporary", FALSE) ELSE Conclude(TRUE)
    /\ UNCHANGED <<disk, staged, registry, bounds>>

\* Two files with bytes of another origin differ from each other too.
SameBytes(i, j) == i = j \/ "other" \notin {bytes[i], bytes[j]}

CompareTarget ==
    /\ call.pc = "compare"
    /\ IF /\ link["temporary"] # None /\ link["target"] # None
          /\ SameBytes(link["temporary"], link["target"])
       THEN GotoDetach("temporary", FALSE)
       ELSE Conclude(TRUE)
    /\ UNCHANGED <<disk, staged, registry, bounds>>

ReadEvidence ==
    /\ call.pc = "evidence"
    /\ \/ /\ link["target"] # None
          /\ staged' = [staged EXCEPT !.evidence = link["target"],
                                      !.targetOwner = link["target"]]
          /\ Conclude(FALSE) /\ UNCHANGED faults
       \/ /\ link["target"] = None
          /\ Conclude(TRUE) /\ UNCHANGED <<staged, faults>>
       \/ Fault /\ Conclude(TRUE) /\ UNCHANGED staged
    /\ UNCHANGED <<disk, registry, calls, moves>>

-----------------------------------------------------------------------------
(* _quarantine_owned_path: detach the path, then look.                      *)

\* What follows the removal of a path: publish reads the evidence; rollback
\* removes the temporary whatever became of the target.
AfterRemoval(failed) ==
    CASE call.op = "publish" /\ ~failed -> Goto("evidence")
      [] call.op = "rollback" /\ call.path = "target" ->
            GotoDetach("temporary", call.failed \/ failed)
      [] OTHER -> Conclude(call.failed \/ failed)

Unused(d) == quarantine[d] = None /\ \A r \in registry : r.dir # d
FreshDirectory == CHOOSE d \in Directories : Unused(d) /\ \A e \in 1..(d - 1) : ~Unused(e)

DetachPath ==
    /\ call.pc = "detach"
    /\ \/ /\ link[call.path] # None
          /\ quarantine' = [quarantine EXCEPT ![FreshDirectory] = link[call.path]]
          /\ link' = [link EXCEPT ![call.path] = None]
          /\ call' = [call EXCEPT !.pc = "authenticate", !.dir = FreshDirectory]
          /\ UNCHANGED faults
       \/ /\ link[call.path] = None
          /\ AfterRemoval(FALSE)
          /\ UNCHANGED <<link, quarantine, faults>>
       \/ Fault /\ AfterRemoval(TRUE) /\ UNCHANGED <<link, quarantine>>
    /\ UNCHANGED <<bytes, others, staged, registry, calls, moves>>

Recovery(owner) ==
    [path |-> call.path, dir |-> call.dir, owner |-> owner, restored |-> FALSE]

Found == quarantine[call.dir]

\* Mutant: a failed unlink is only reported.
RemoveOwnedForgets ==
    /\ call.pc = "authenticate" /\ Found = Expected(call.path)
    /\ \/ /\ quarantine' = [quarantine EXCEPT ![call.dir] = None]
          /\ AfterRemoval(FALSE)
          /\ UNCHANGED faults
       \/ Fault /\ AfterRemoval(TRUE) /\ UNCHANGED quarantine
    /\ UNCHANGED <<link, bytes, others, staged, registry, calls, moves>>

\* Ours: unlinked; the unlink may fail, which leaves a recovery, or the
\* removal of the emptied directory, which leaves nothing.
RemoveOwned ==
    /\ call.pc = "authenticate" /\ Found = Expected(call.path)
    /\ \/ /\ quarantine' = [quarantine EXCEPT ![call.dir] = None]
          /\ AfterRemoval(FALSE)
          /\ UNCHANGED <<registry, faults>>
       \/ /\ Fault
          /\ quarantine' = [quarantine EXCEPT ![call.dir] = None]
          /\ AfterRemoval(TRUE)
          /\ UNCHANGED registry
       \/ /\ Fault
          /\ registry' = registry \cup {Recovery(Expected(call.path))}
          /\ AfterRemoval(TRUE)
          /\ UNCHANGED quarantine
    /\ UNCHANGED <<link, bytes, others, staged, calls, moves>>

\* Not ours: linked back unless the path is taken again, and kept in any case.
ReturnReplacement ==
    /\ call.pc = "authenticate" /\ Found # Expected(call.path)
    /\ \/ /\ link[call.path] = None
          /\ link' = [link EXCEPT ![call.path] = Found]
          /\ UNCHANGED faults
       \/ link[call.path] # None /\ UNCHANGED <<link, faults>>
       \/ Fault /\ UNCHANGED link
    /\ registry' = registry \cup {Recovery(Found)}
    /\ AfterRemoval(TRUE)
    /\ UNCHANGED <<bytes, quarantine, others, staged, calls, moves>>

\* The look fails: the recovery names the inode that was expected.
StatRaises ==
    /\ call.pc = "authenticate"
    /\ Fault
    /\ registry' = registry \cup {Recovery(Expected(call.path))}
    /\ AfterRemoval(TRUE)
    /\ UNCHANGED <<disk, staged, calls, moves>>

\* Mutant: the staging descriptor is closed as soon as the file is published.
VerdictReleases ==
    /\ call.pc = "conclude"
    /\ staged' =
          IF call.failed THEN staged
          ELSE IF call.op = "publish"
               THEN [staged EXCEPT !.published = TRUE, !.descriptor = FALSE]
               ELSE [staged EXCEPT !.published = FALSE, !.descriptor = FALSE,
                                   !.discarded = TRUE]
    /\ call' = Idle
    /\ UNCHANGED <<disk, registry, bounds>>

\* The verdict is broadcast.  The staging descriptor is closed only once
\* nothing is left to remove.
Verdict ==
    /\ call.pc = "conclude"
    /\ staged' =
          CASE call.failed -> staged
            [] ~call.failed /\ call.op = "publish" ->
                  [staged EXCEPT !.published = TRUE]
            [] OTHER ->
                  [staged EXCEPT !.descriptor = FALSE, !.published = FALSE,
                                 !.discarded = TRUE]
    /\ call' = Idle
    /\ UNCHANGED <<disk, registry, bounds>>

-----------------------------------------------------------------------------
(* The registry of recoveries, used between calls.                          *)

RestoreRecovery(r) ==
    /\ call.pc = "idle" /\ ~r.restored
    /\ quarantine[r.dir] = r.owner
    /\ link[r.path] \in {None, r.owner}
    /\ link' = [link EXCEPT ![r.path] = r.owner]
    /\ registry' = (registry \ {r}) \cup {[r EXCEPT !.restored = TRUE]}
    /\ UNCHANGED <<bytes, quarantine, others, staged, call, bounds>>

\* The directory may fail to go after its entry has; the owner calls again.
CleanupRecovery(r) ==
    /\ call.pc = "idle" /\ r.restored
    /\ link[r.path] = r.owner
    /\ quarantine[r.dir] \in {None, r.owner}
    /\ quarantine' = [quarantine EXCEPT ![r.dir] = None]
    /\ \/ registry' = registry \ {r} /\ UNCHANGED faults
       \/ Fault /\ UNCHANGED registry
    /\ UNCHANGED <<link, bytes, others, staged, call, calls, moves>>

-----------------------------------------------------------------------------
(* Other processes.  They create, replace or remove files at both paths;   *)
(* the private directories are out of their reach.                         *)

OtherWrites(p, i, kind) ==
    /\ moves < MaxMoves /\ Free(i)
    /\ moves' = moves + 1
    /\ link' = [link EXCEPT ![p] = i]
    /\ bytes' = [bytes EXCEPT ![i] = kind]
    /\ others' = (others \ {link[p]}) \cup {i}
    /\ UNCHANGED <<quarantine, staged, registry, call, calls, faults>>

OtherRemoves(p) ==
    /\ moves < MaxMoves /\ link[p] # None
    /\ moves' = moves + 1
    /\ link' = [link EXCEPT ![p] = None]
    /\ others' = others \ {link[p]}
    /\ UNCHANGED <<bytes, quarantine, staged, registry, call, calls, faults>>

Step ==
    \/ VerifyTemporary \/ InspectTemporary \/ LinkTarget \/ InspectTarget
    \/ CompareTarget \/ ReadEvidence
    \/ DetachPath \/ RemoveOwned \/ ReturnReplacement \/ StatRaises \/ Verdict

FileNext ==
    \/ Publish \/ Discard \/ Rollback \/ Finalize
    \/ Step
    \/ \E r \in registry : RestoreRecovery(r) \/ CleanupRecovery(r)
    \/ \E p \in Paths, i \in Inodes, kind \in {"same", "other"} : OtherWrites(p, i, kind)
    \/ \E p \in Paths : OtherRemoves(p)

FileSpec == FileInit /\ [][FileNext]_fileVars

-----------------------------------------------------------------------------
FileTypeOK ==
    /\ link \in [Paths -> Inodes \cup {None}]
    /\ bytes \in [Inodes -> {"ours", "same", "other"}]
    /\ quarantine \in [Directories -> Inodes \cup {None}]
    /\ others \subseteq Inodes
    /\ staged \in [published : BOOLEAN, discarded : BOOLEAN, finalized : BOOLEAN,
                   created : BOOLEAN, targetOwner : Inodes \cup {None},
                   evidence : Inodes \cup {None}, descriptor : BOOLEAN,
                   tried : SUBSET {"publish", "discard", "rollback"}]
    /\ registry \subseteq [path : Paths, dir : Directories, owner : Inodes,
                           restored : BOOLEAN]
    /\ call \in [op : {"none", "publish", "discard", "rollback"},
                 pc : {"idle", "verify", "inspect", "link", "linked", "compare",
                       "detach", "authenticate", "evidence", "conclude"},
                 path : Paths \cup {"none"}, dir : {0} \cup Directories,
                 failed : BOOLEAN]
    /\ calls \in 0..MaxCalls /\ faults \in 0..MaxFaults /\ moves \in 0..MaxMoves

\* publish linked the target itself, and another process replaced that link
\* before publish read its evidence: its inode is recorded as the one that
\* rollback may delete.
Adopted(i) == staged.created /\ staged.evidence = i /\ i # Ours

\* No removal deletes a file of another process, except one: whatever such a
\* process put at either path and has not removed itself is still there or in
\* a quarantine directory, though inode numbers are used again.  The exception
\* is the file that publish adopted; rollback deletes that one.
OthersSurvive ==
    \A i \in others : LinkedPublicly(i) \/ LinkedPrivately(i) \/ Adopted(i)

\* The same without the exception, as docs/design/exact-output-consumers.md has
\* it: "rollback refuses a target that has since been replaced and never
\* deletes the replacement".  It does not hold: see Adopted.
ReplacementSurvives == \A i \in others : LinkedPublicly(i) \/ LinkedPrivately(i)

\* What lies in a quarantine directory is being looked at by the call in
\* progress or is known to the registry of recoveries.
LeftIsRecorded ==
    \A d \in Directories : quarantine[d] # None =>
        \/ call.pc = "authenticate" /\ call.dir = d
        \/ \E r \in registry : r.dir = d

================================================================================
