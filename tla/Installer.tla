----------------------------- MODULE Installer ------------------------------
(***************************************************************************)
(* scripts/install.py: puts the files of a plan beside files of other      *)
(* programs, keeps a manifest of them with their digests, and removes them *)
(* by that manifest.  One person runs it, one call at a time; he may edit, *)
(* remove or create any of the files meanwhile, and the program may end at *)
(* any step.                                                               *)
(*                                                                         *)
(*   file      what is at each path: "absent", "foreign" (another          *)
(*             program's), "reserved" (created empty), "ours", "edited"    *)
(*   manifest  the paths of install-manifest.json, {} when there is none   *)
(*   inst      the place in apply() or remove(), the paths still to do and *)
(*             those this call has created                                 *)
(*   meddled   how often the person changed a file                         *)
(*   orphans   history: what a call that ended in apply() left behind      *)
(*   late      history: files changed after this call had looked at them   *)
(*                                                                         *)
(* The contents of the files, temporary names and directories are left out.*)
(***************************************************************************)
EXTENDS Naturals

CONSTANTS Files,        \* all paths a plan may have
          UnitFile,     \* the unit of the keyboard service, in every plan
          MaxMeddling, MaxTrouble

ASSUME FileAssumption == UnitFile \in Files /\ MaxMeddling \in Nat /\ MaxTrouble \in Nat

VARIABLES file, manifest, inst, meddled, trouble, orphans, late
installVars == <<file, manifest, inst, meddled, trouble, orphans, late>>

IdleInstaller == [pc |-> "idle", todo |-> {}, written |-> {}]

InstallTypeOK ==
    /\ file \in [Files -> {"absent", "foreign", "reserved", "ours", "edited"}]
    /\ manifest \subseteq Files
    /\ inst \in [pc : {"idle", "reserving", "recording", "undoing", "checking", "removing"},
                 todo : SUBSET Files, written : SUBSET Files]
    /\ meddled \in 0..MaxMeddling /\ trouble \in 0..MaxTrouble
    /\ orphans \subseteq Files /\ late \subseteq Files

InstallInit ==
    /\ file \in [Files -> {"absent", "foreign"}] /\ manifest = {} /\ inst = IdleInstaller
    /\ meddled = 0 /\ trouble = 0 /\ orphans = {} /\ late = {}

Trouble == trouble < MaxTrouble /\ trouble' = trouble + 1

-----------------------------------------------------------------------------
(* apply() *)

Conflicts(plan) == {f \in plan : file[f] # "absent"}

Install(plan) ==
    /\ inst.pc = "idle" /\ manifest = {} /\ Conflicts(plan) = {}
    /\ inst' = [IdleInstaller EXCEPT !.pc = "reserving", !.todo = plan]
    /\ late' = {}
    /\ UNCHANGED <<file, manifest, meddled, trouble, orphans>>

MayReserveFaulty(f) == TRUE           \* without O_EXCL
MayReserve(f) == file[f] = "absent"   \* O_CREAT | O_EXCL

\* The path is created empty and counted as written.
Reserve(f) ==
    /\ inst.pc = "reserving" /\ f \in inst.todo /\ inst.todo \cap inst.written = {}
    /\ IF MayReserve(f)
       THEN /\ file' = [file EXCEPT ![f] = "reserved"]
            /\ inst' = [inst EXCEPT !.written = @ \cup {f}]
       ELSE inst' = [inst EXCEPT !.pc = "undoing"] /\ UNCHANGED file
    /\ UNCHANGED <<manifest, meddled, trouble, orphans, late>>

\* Interrupted after the path was created and before it was counted: the rollback does not
\* know of it.
ReserveInterrupted(f) ==
    /\ inst.pc = "reserving" /\ f \in inst.todo /\ inst.todo \cap inst.written = {}
    /\ MayReserve(f) /\ Trouble
    /\ file' = [file EXCEPT ![f] = "reserved"]
    /\ inst' = [inst EXCEPT !.pc = "undoing"] /\ orphans' = orphans \cup {f}
    /\ UNCHANGED <<manifest, meddled, late>>

\* atomic(): the content takes the place of the empty file.
Fill(f) ==
    /\ inst.pc = "reserving" /\ f \in inst.todo \cap inst.written
    /\ file' = [file EXCEPT ![f] = "ours"]
    /\ inst' = [inst EXCEPT !.todo = @ \ {f}, !.pc = IF inst.todo = {f} THEN "recording" ELSE @]
    /\ UNCHANGED <<manifest, meddled, trouble, orphans, late>>

Record ==
    /\ inst.pc = "recording"
    /\ manifest' = inst.written /\ inst' = IdleInstaller
    /\ UNCHANGED <<file, meddled, trouble, orphans, late>>

\* A file or the manifest cannot be written.
ApplyFails ==
    /\ inst.pc \in {"reserving", "recording"} /\ Trouble
    /\ inst' = [inst EXCEPT !.pc = "undoing"]
    /\ UNCHANGED <<file, manifest, meddled, orphans, late>>

UndoneFaulty(f) == file[f] = "ours"  \* a file is counted once it has its content
Undone(f) == TRUE

\* Everything this call has created is deleted again.
Undo(f) ==
    /\ inst.pc = "undoing" /\ f \in inst.written
    /\ file' = IF Undone(f) THEN [file EXCEPT ![f] = "absent"] ELSE file
    /\ inst' = [inst EXCEPT !.written = @ \ {f}]
    /\ UNCHANGED <<manifest, meddled, trouble, orphans, late>>

UndoEnds ==
    /\ inst.pc = "undoing" /\ inst.written = {} /\ inst' = IdleInstaller
    /\ UNCHANGED <<file, manifest, meddled, trouble, orphans, late>>

-----------------------------------------------------------------------------
(* remove() and the look at the services before it *)

\* active: systemctl is-active says that the unit of the manifest runs.
Uninstall(active) ==
    /\ inst.pc = "idle" /\ manifest # {} /\ ~(UnitFile \in manifest /\ active)
    /\ inst' = [IdleInstaller EXCEPT !.pc = "checking", !.todo = manifest]
    /\ late' = {}
    /\ UNCHANGED <<file, manifest, meddled, trouble, orphans>>

Unmodified(f) == file[f] \in {"absent", "ours"}

\* The digests of all files are compared before the first is deleted.
Checked(f) ==
    inst' = IF ~Unmodified(f) THEN IdleInstaller
            ELSE IF inst.todo # {f} THEN [inst EXCEPT !.todo = @ \ {f}]
            ELSE [inst EXCEPT !.pc = "removing", !.todo = manifest]

Check(f) ==
    /\ inst.pc = "checking" /\ f \in inst.todo /\ Checked(f)
    /\ UNCHANGED <<file, manifest, meddled, trouble, orphans, late>>

Unlink(f) ==
    /\ inst.pc = "removing" /\ f \in inst.todo
    /\ file' = [file EXCEPT ![f] = "absent"]
    /\ inst' = [inst EXCEPT !.todo = @ \ {f}]
    /\ UNCHANGED <<manifest, meddled, trouble, orphans, late>>

Unlist ==
    /\ inst.pc = "removing" /\ inst.todo = {}
    /\ manifest' = {} /\ inst' = IdleInstaller
    /\ UNCHANGED <<file, meddled, trouble, orphans, late>>

\* The program is killed, or a file cannot be deleted.
Breaks ==
    /\ inst.pc # "idle" /\ Trouble
    /\ inst' = IdleInstaller /\ orphans' = orphans \cup inst.written
    /\ UNCHANGED <<file, manifest, meddled, late>>

-----------------------------------------------------------------------------
(* The person *)

LookedAt == inst.written \cup
            (IF inst.pc = "checking" THEN manifest \ inst.todo
             ELSE IF inst.pc = "removing" THEN manifest ELSE {})

Meddle ==
    /\ meddled < MaxMeddling /\ meddled' = meddled + 1
    /\ \E f \in Files :
          /\ \/ file[f] = "absent" /\ file' = [file EXCEPT ![f] = "foreign"]
             \/ file[f] = "ours" /\ file' = [file EXCEPT ![f] = "edited"]
             \/ file[f] # "absent" /\ file' = [file EXCEPT ![f] = "absent"]
          /\ late' = late \cup ({f} \cap LookedAt)
    /\ UNCHANGED <<manifest, inst, trouble, orphans>>

InstallerStep ==
    \/ \E f \in Files : \/ Reserve(f) \/ ReserveInterrupted(f) \/ Fill(f) \/ Undo(f)
                       \/ Check(f) \/ Unlink(f)
    \/ Record \/ ApplyFails \/ UndoEnds \/ Unlist \/ Breaks
    \/ Meddle
=============================================================================
