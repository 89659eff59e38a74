------------------------------- MODULE Deploy -------------------------------
(***************************************************************************)
(* Installing into, updating and removing from one game directory:         *)
(* install_game, _update_game, _recover_update, uninstall_game and what     *)
(* they call in dlssnr/deploy.py.  Every change of a file or a directory is *)
(* one action; the process may be killed, or an operation may raise,        *)
(* between any two.  flock admits one process at a time, and the kernel     *)
(* frees the lock of a killed one, so there is a single process.            *)
(*                                                                         *)
(* A file's content stands for its digest and its mode.  The loops over     *)
(* TARGETS go through the files in any order: the manifest is written with  *)
(* sorted keys, so the order differs between the first run and a recovery.  *)
(***************************************************************************)
EXTENDS Naturals

CONSTANTS
  Files,        \* TARGETS
  Ini,          \* the settings, which the game's overlay rewrites
  Weights,      \* the only file an installation may keep as it finds it
  Present,      \* the files the directory holds before the first installation
  Versions,     \* contents of releases
  Original,     \* the content of a file in Present
  Edited,       \* the settings as the overlay writes them
  Absent,       \* no such file
  None,         \* no manifest.json or no update.json
  Debris,       \* directories where a killed atomic write leaves its temporary
  MaxCrashes, MaxErrors, MaxEdits    \* bounds: kills, failing calls, edits

ASSUME FilesAssumption ==
  Ini \in Files /\ Weights \in Files /\ Ini # Weights /\ Present \subseteq Files
ASSUME ContentAssumption ==
  /\ Original \notin Versions /\ Edited \notin Versions /\ Absent \notin Versions
  /\ Original # Edited /\ Original # Absent /\ Edited # Absent
ASSUME BoundAssumption ==
  MaxCrashes \in Nat /\ MaxErrors \in Nat /\ MaxEdits \in Nat
ASSUME DebrisAssumption == Debris \subseteq {"store", "stage", "backups", "update"}

VARIABLES
  files,     \* the content of each file, by directory
  dirs,      \* the directories that exist below the game's
  temps,     \* directories that hold a left-over .copy- or .write- file
  manifest,  \* manifest.json
  marker,    \* update.json
  op,        \* the running command
  pc,        \* its next step
  todo,      \* the files its current loop has left
  data,      \* the manifest in its memory
  plan,      \* the update journal in its memory
  prev,      \* the state an uninstall rolls back to
  budget     \* faults left

disk == <<files, dirs, temps, manifest, marker>>
mem  == <<op, todo, data, plan, prev>>
vars == <<disk, mem, pc, budget>>

Contents == Versions \cup {Original, Edited, Absent}
Partial  == UNION {[S -> Contents] : S \in SUBSET Files}
Places   == {"game", "backups", "undo", "update"}
Subdirs  == {"backups", "stage", "undo"}
States   == {"preparing", "installing", "installed", "uninstalling", "removed"}
Phases   == {"preparing", "ready", "committed", "restored"}
Item     == [sha : Contents, original : Contents, preserve : BOOLEAN, touched : BOOLEAN]
Manifest == [state : States, files : [Files -> Item], undo : Partial]
Journal  == [phase : Phases, before : Manifest, after : Manifest, snapshots : Partial]

ASSUME NoneAssumption == None \notin Manifest \cup Journal

Before(f)  == IF f \in Present THEN Original ELSE Absent
Empty      == [f \in Files |-> Absent]
Nothing    == [f \in {} |-> Absent]

Init ==
  /\ files = [p \in Places |-> IF p = "game" THEN [f \in Files |-> Before(f)] ELSE Empty]
  /\ dirs = {} /\ temps = {} /\ manifest = None /\ marker = None
  /\ op = "none" /\ pc = "idle" /\ todo = {} /\ data = None /\ plan = None
  /\ prev = "installing"
  /\ budget = [crash |-> MaxCrashes, error |-> MaxErrors, edit |-> MaxEdits]

-----------------------------------------------------------------------------
(* What the checks of the code read. *)

game == files["game"]

Kept(m)    == {f \in Files : m.files[f].preserve}
Touched(m) == {f \in Files \ Kept(m) : m.files[f].touched}
Backed(m)  == {f \in Files \ Kept(m) : m.files[f].original # Absent}

\* _validate_manifest: what a manifest may say
Valid(m) ==
  /\ m.state = "installed" => Touched(m) = Files \ Kept(m)
  /\ \A f \in Files :
       /\ m.state = "preparing" => ~m.files[f].touched
       /\ m.files[f].preserve => /\ f = Weights
                                 /\ m.files[f].original = m.files[f].sha
                                 /\ ~m.files[f].touched

\* the contents _verify accepts of a deployed file
Allowed(m, f) ==
  IF m.state = "installed" THEN {m.files[f].sha}
  ELSE IF f \in Touched(m) THEN {m.files[f].original, m.files[f].sha}
  ELSE {m.files[f].original}

\* the settings _verify does not look at; who \in {"strict", "ini", "uninstall"}
Tolerated(m, f, who) ==
  /\ f = Ini
  /\ \/ who = "uninstall" /\ (m.state = "installed" \/ f \in Touched(m))
     \/ who = "ini" /\ m.state = "installed" /\ game[f] # Absent

Verified(m, who) ==
  IF m.state = "removed"
  THEN \A f \in Files \ Kept(m) : game[f] = m.files[f].original
  ELSE /\ \A f \in Backed(m) : m.state = "installed" \/ f \in Touched(m)
                                  => files["backups"][f] = m.files[f].original
       /\ \A f \in Kept(m) : who = "uninstall" \/ game[f] = m.files[f].sha
       /\ \A f \in Files \ Kept(m) :
            Tolerated(m, f, who) \/ game[f] \in Allowed(m, f)

\* _cleanup's preflight: nothing it does not know.  It knows temporaries in
\* the store and in stage only, and neither update.json nor update/.
KnownTree == "backups" \notin temps /\ "update" \notin dirs /\ marker = None

Loadable == manifest # None /\ Valid(manifest)

\* the preflight of _recover_update in phase "ready"
Revertible(j) ==
  \A f \in Files :
    /\ game[f] # Absent
    /\ IF f \in DOMAIN j.snapshots
       THEN /\ files["update"][f] = j.snapshots[f]
            /\ game[f] \in {j.snapshots[f], j.after.files[f].sha}
       ELSE f = Ini \/ game[f] = j.before.files[f].sha
    /\ f \in Backed(j.before) => files["backups"][f] = j.before.files[f].original

Journalled(j) == Loadable /\ manifest \in {j.before, j.after}

-----------------------------------------------------------------------------
(* Control flow. *)

Put(p, f, c) == files' = [files EXCEPT ![p][f] = c]

\* start a loop over S, which goes on to next
Loop(p, S, next) == todo' = S /\ pc' = IF S = {} THEN next ELSE p

\* one file of a loop is done
Done(f, p, next) == Loop(p, todo \ {f}, next)

Halt ==
  /\ pc' = "idle" /\ op' = "none" /\ todo' = {} /\ data' = None /\ plan' = None
  /\ prev' = "installing"

At(p, f) == pc = p /\ f \in todo

-----------------------------------------------------------------------------
(* install_game into a directory without a store. *)

BeginInstall ==
  /\ pc = "idle" /\ "store" \notin dirs
  /\ \E v \in Versions, kept \in SUBSET {Weights} :
       /\ \A f \in kept : game[f] # Absent
       /\ data' = [state |-> "preparing", undo |-> Nothing,
                   files |-> [f \in Files |->
                     [sha |-> IF f \in kept THEN game[f] ELSE v, original |-> game[f],
                      preserve |-> f \in kept, touched |-> FALSE]]]
  /\ op' = "install" /\ pc' = "mkdir"
  /\ UNCHANGED <<disk, todo, plan, prev, budget>>

MkStore ==
  /\ pc = "mkdir"
  /\ dirs' = dirs \cup {"store"} /\ pc' = "prepare"
  /\ UNCHANGED <<files, temps, manifest, marker, mem, budget>>

Prepare ==
  /\ pc = "prepare"
  /\ manifest' = data /\ pc' = "subdirs"
  /\ UNCHANGED <<files, dirs, temps, marker, mem, budget>>

MkSubdir ==
  /\ pc = "subdirs"
  /\ \E d \in Subdirs \ dirs :
       /\ dirs' = dirs \cup {d}
       /\ IF Subdirs \subseteq dirs' THEN Loop("backup", Backed(data), "installing")
                                     ELSE UNCHANGED <<pc, todo>>
  /\ UNCHANGED <<files, temps, manifest, marker, op, data, plan, prev, budget>>

AsFound(f) == game[f] = data.files[f].original

Backup(f) ==
  /\ At("backup", f) /\ AsFound(f)
  /\ Put("backups", f, game[f]) /\ Done(f, "backup", "installing")
  /\ UNCHANGED <<dirs, temps, manifest, marker, op, data, plan, prev, budget>>

\* goes only through the files that replace another
FaultyInstalling ==
  /\ pc = "installing"
  /\ data' = [data EXCEPT !.state = "installing"] /\ manifest' = data'
  /\ Loop("intent", Backed(data), "installed")
  /\ UNCHANGED <<files, dirs, temps, marker, op, plan, prev, budget>>

\* The payloads are staged and the bridge is cached before this journal entry.
Installing ==
  /\ pc = "installing"
  /\ data' = [data EXCEPT !.state = "installing"] /\ manifest' = data'
  /\ Loop("intent", Files \ Kept(data), "installed")
  /\ UNCHANGED <<files, dirs, temps, marker, op, plan, prev, budget>>

Intent(f) ==
  /\ At("intent", f) /\ AsFound(f)
  /\ data' = [data EXCEPT !.files[f].touched = TRUE] /\ pc' = "record"
  /\ UNCHANGED <<disk, op, todo, plan, prev, budget>>

\* the intent is journalled after the rename only
FaultyRecord ==
  /\ pc = "record"
  /\ pc' = "copy" /\ UNCHANGED <<disk, mem, budget>>

Record ==
  /\ pc = "record"
  /\ manifest' = data /\ pc' = "copy"
  /\ UNCHANGED <<files, dirs, temps, marker, mem, budget>>

Copy(f) ==
  /\ At("copy", f) /\ f \in Touched(data)
  /\ Put("game", f, data.files[f].sha) /\ Done(f, "intent", "installed")
  /\ UNCHANGED <<dirs, temps, manifest, marker, op, data, plan, prev, budget>>

Installed ==
  /\ pc = "installed"
  /\ data' = [data EXCEPT !.state = "installed"] /\ manifest' = data' /\ pc' = "final"
  /\ UNCHANGED <<files, dirs, temps, marker, op, todo, plan, prev, budget>>

Final ==
  /\ pc = "final" /\ Verified(data, "strict")
  /\ Halt /\ UNCHANGED <<disk, budget>>

\* the handler of everything between Prepare and Final
AsInstalling == [data EXCEPT !.state = "installing"]

Rollback ==
  /\ pc = "rollback" /\ Verified(AsInstalling, "strict")
  /\ Loop("restore", Touched(data), "removed")
  /\ UNCHANGED <<disk, op, data, plan, prev, budget>>

-----------------------------------------------------------------------------
(* _restore and _cleanup. *)

Restorable(f) == f \in Backed(data) => files["backups"][f] = data.files[f].original

Restore(f) ==
  /\ At("restore", f) /\ Restorable(f)
  /\ Put("game", f, data.files[f].original) /\ Done(f, "restore", "removed")
  /\ UNCHANGED <<dirs, temps, manifest, marker, op, data, plan, prev, budget>>

Removed ==
  /\ pc = "removed"
  /\ data' = [data EXCEPT !.state = "removed"] /\ manifest' = data' /\ pc' = "preflight"
  /\ UNCHANGED <<files, dirs, temps, marker, op, todo, plan, prev, budget>>

Preflight ==
  /\ pc = "preflight" /\ KnownTree
  /\ pc' = "clean" /\ UNCHANGED <<disk, mem, budget>>

Clutter == {p \in {"backups", "undo"} : files[p] # Empty}

Unlink ==
  /\ pc = "clean"
  /\ \/ \E p \in Clutter, f \in Files :
          /\ files[p][f] # Absent
          /\ Put(p, f, Absent) /\ UNCHANGED temps
     \/ \E t \in temps : temps' = temps \ {t} /\ UNCHANGED files
  /\ UNCHANGED <<dirs, manifest, marker, mem, pc, budget>>

RmSubdir ==
  /\ pc = "clean" /\ Clutter = {} /\ temps = {}
  /\ \E d \in dirs \cap Subdirs : dirs' = dirs \ {d}
  /\ UNCHANGED <<files, temps, manifest, marker, mem, pc, budget>>

Unjournal ==
  /\ pc = "clean" /\ Clutter = {} /\ temps = {} /\ dirs \cap Subdirs = {}
  /\ manifest # None /\ manifest' = None
  /\ UNCHANGED <<files, dirs, temps, marker, mem, pc, budget>>

RmStore ==
  /\ pc = "clean" /\ Clutter = {} /\ temps = {} /\ dirs \cap Subdirs = {}
  /\ manifest = None
  /\ dirs' = dirs \ {"store"} /\ Halt
  /\ UNCHANGED <<files, temps, manifest, marker, budget>>

-----------------------------------------------------------------------------
(* Commands on an existing store begin by recovering an update. *)

BeginReinstall ==
  /\ pc = "idle" /\ "store" \in dirs
  /\ op' = "install" /\ pc' = "recover"
  /\ UNCHANGED <<disk, todo, data, plan, prev, budget>>

EmptyClaim ==
  dirs = {"store"} /\ "store" \notin temps /\ manifest = None /\ marker = None

\* does not know of a claim without a journal
FaultyBeginUninstall ==
  /\ pc = "idle" /\ "store" \in dirs
  /\ op' = "uninstall" /\ pc' = "recover"
  /\ UNCHANGED <<disk, todo, data, plan, prev, budget>>

BeginUninstall ==
  /\ pc = "idle" /\ "store" \in dirs
  /\ IF EmptyClaim THEN dirs' = {} /\ UNCHANGED <<op, pc>>
                   ELSE op' = "uninstall" /\ pc' = "recover" /\ UNCHANGED dirs
  /\ UNCHANGED <<files, temps, manifest, marker, todo, data, plan, prev, budget>>

\* where a recovery goes on: an update that failed reports its error
Resume == IF op = "update" THEN Halt
          ELSE pc' = "load" /\ plan' = None /\ UNCHANGED <<op, todo, data, prev>>

NoUpdate ==
  /\ pc = "recover" /\ marker = None /\ "update" \notin dirs
  /\ Resume /\ UNCHANGED <<disk, budget>>

Revertable == marker # None /\ Journalled(marker) /\ marker.phase = "ready" /\ Revertible(marker)

Finished ==
  /\ marker # None /\ Journalled(marker) /\ marker.phase # "ready"
  /\ marker.phase = "committed" => manifest = marker.after /\ Verified(manifest, "ini")

BeginRevert ==
  /\ pc = "recover" /\ Revertable
  /\ plan' = marker /\ Loop("revert", DOMAIN marker.snapshots, "remanifest")
  /\ UNCHANGED <<disk, op, data, prev, budget>>

BeginSweep ==
  /\ pc = "recover" /\ Finished
  /\ pc' = "sweep" /\ UNCHANGED <<disk, mem, budget>>

Revert(f) ==
  /\ At("revert", f) /\ files["update"][f] = plan.snapshots[f]
  /\ Put("game", f, plan.snapshots[f]) /\ Done(f, "revert", "remanifest")
  /\ UNCHANGED <<dirs, temps, manifest, marker, op, data, plan, prev, budget>>

Remanifest ==
  /\ pc = "remanifest"
  /\ manifest' = plan.before /\ pc' = "restored"
  /\ UNCHANGED <<files, dirs, temps, marker, mem, budget>>

\* the four writes of update.json
Mark(phase) == plan' = [plan EXCEPT !.phase = phase] /\ marker' = plan'

\* removes the snapshots with the journal still asking for them
FaultyRestored ==
  /\ pc = "restored" /\ pc' = "sweep"
  /\ UNCHANGED <<disk, mem, budget>>

Restored ==
  /\ pc = "restored" /\ Mark("restored") /\ pc' = "sweep"
  /\ UNCHANGED <<files, dirs, temps, manifest, op, todo, data, prev, budget>>

\* _update_cleanup: the snapshots, the folder, and the marker last
Sweep ==
  /\ pc = "sweep"
  /\ \/ \E f \in Files :
          /\ files["update"][f] # Absent
          /\ Put("update", f, Absent) /\ UNCHANGED temps
     \/ "update" \in temps /\ temps' = temps \ {"update"} /\ UNCHANGED files
  /\ UNCHANGED <<dirs, manifest, marker, mem, pc, budget>>

RmFolder ==
  /\ pc = "sweep" /\ files["update"] = Empty /\ "update" \notin temps
  /\ dirs' = dirs \ {"update"} /\ pc' = "unmark"
  /\ UNCHANGED <<files, temps, manifest, marker, mem, budget>>

Unmark ==
  /\ pc = "unmark" /\ marker' = None /\ Resume
  /\ UNCHANGED <<files, dirs, temps, manifest, budget>>

-----------------------------------------------------------------------------
(* _update_game. *)

Installable == Loadable /\ manifest.state = "installed" /\ Verified(manifest, "ini")

\* the request is the one installed, and the settings are as it would write them
Idempotent ==
  /\ pc = "load" /\ op = "install" /\ Installable
  /\ Halt /\ UNCHANGED <<disk, budget>>

\* the manifest after the files in S get content v; any difference from what
\* is there ends the preservation of a file
Updated(m, S, v) ==
  [m EXCEPT !.undo = Nothing,
            !.files = [f \in Files |->
              [m.files[f] EXCEPT !.sha = IF f \in S THEN v ELSE game[f],
                                 !.preserve = @ /\ f \notin S,
                                 !.touched = @ \/ f \in S]]]

PlanUpdate ==
  /\ pc = "load" /\ op = "install" /\ Installable /\ KnownTree
  /\ \E v \in Versions, S \in SUBSET Files :
       /\ \A f \in S : game[f] # v
       /\ Valid(Updated(manifest, S, v))
       /\ plan' = [phase |-> "preparing", before |-> manifest,
                   after |-> Updated(manifest, S, v),
                   snapshots |-> [f \in S |-> game[f]]]
  /\ op' = "update" /\ pc' = "mark"
  /\ UNCHANGED <<disk, todo, data, prev, budget>>

MarkPreparing ==
  /\ pc = "mark" /\ marker' = plan /\ pc' = "folder"
  /\ UNCHANGED <<files, dirs, temps, manifest, mem, budget>>

MkFolder ==
  /\ pc = "folder"
  /\ dirs' = dirs \cup {"update"} /\ Loop("snapshot", DOMAIN plan.snapshots, "prior")
  /\ UNCHANGED <<files, temps, manifest, marker, op, data, plan, prev, budget>>

AsPlanned(f) == game[f] = plan.snapshots[f]

Snapshot(f) ==
  /\ At("snapshot", f) /\ AsPlanned(f)
  /\ Put("update", f, game[f])
  /\ IF f \in Kept(plan.before) THEN pc' = "keep" /\ UNCHANGED todo
                                ELSE Done(f, "snapshot", "prior")
  /\ UNCHANGED <<dirs, temps, manifest, marker, op, data, plan, prev, budget>>

\* what the backup of a file kept so far is, or is about to be
Backing(f) == IF files["backups"][f] # Absent THEN files["backups"][f] ELSE game[f]

Keepable(f) == Backing(f) = plan.before.files[f].original

\* a file that was preserved gets no backup when it is first replaced
FaultyKeep(f) ==
  /\ At("keep", f) /\ f \in Kept(plan.before) /\ Keepable(f)
  /\ Done(f, "snapshot", "prior")
  /\ UNCHANGED <<disk, op, data, plan, prev, budget>>

Keep(f) ==
  /\ At("keep", f) /\ f \in Kept(plan.before) /\ Keepable(f)
  /\ Put("backups", f, Backing(f)) /\ Done(f, "snapshot", "prior")
  /\ UNCHANGED <<dirs, temps, manifest, marker, op, data, plan, prev, budget>>

\* The new payloads are staged before this check.
Unmoved == Verified(plan.before, "ini") /\ \A f \in DOMAIN plan.snapshots : AsPlanned(f)

Prior ==
  /\ pc = "prior" /\ Unmoved
  /\ pc' = "ready" /\ UNCHANGED <<disk, mem, budget>>

\* begins to replace under a journal that says nothing was replaced
FaultyMarkReady ==
  /\ pc = "ready" /\ Loop("replace", DOMAIN plan.snapshots, "after")
  /\ UNCHANGED <<disk, op, data, plan, prev, budget>>

MarkReady ==
  /\ pc = "ready" /\ Mark("ready") /\ Loop("replace", DOMAIN plan.snapshots, "after")
  /\ UNCHANGED <<files, dirs, temps, manifest, op, data, prev, budget>>

Replace(f) ==
  /\ At("replace", f)
  /\ Put("game", f, plan.after.files[f].sha) /\ Done(f, "replace", "after")
  /\ UNCHANGED <<dirs, temps, manifest, marker, op, data, plan, prev, budget>>

After ==
  /\ pc = "after" /\ Verified(plan.after, "strict")
  /\ pc' = "manifest" /\ UNCHANGED <<disk, mem, budget>>

NewManifest ==
  /\ pc = "manifest"
  /\ manifest' = plan.after /\ pc' = "commit"
  /\ UNCHANGED <<files, dirs, temps, marker, mem, budget>>

MarkCommitted ==
  /\ pc = "commit" /\ Mark("committed") /\ pc' = "sweep"
  /\ UNCHANGED <<files, dirs, temps, manifest, op, todo, data, prev, budget>>

-----------------------------------------------------------------------------
(* uninstall_game. *)

Removable == Loadable /\ KnownTree /\ Verified(manifest, "uninstall")

LoadRemoved ==
  /\ pc = "load" /\ op = "uninstall" /\ Removable /\ manifest.state = "removed"
  /\ pc' = "preflight" /\ UNCHANGED <<disk, mem, budget>>

LoadPresent ==
  /\ pc = "load" /\ op = "uninstall" /\ Removable /\ manifest.state # "removed"
  /\ data' = manifest /\ pc' = "mkundo"
  /\ UNCHANGED <<disk, op, todo, plan, prev, budget>>

\* mkdir of stage and undo, and where to go from there
MkUndo ==
  /\ pc = "mkundo"
  /\ dirs' = dirs \cup {"stage", "undo"}
  /\ IF data.state = "uninstalling"
     THEN prev' = "installing" /\ Loop("restore", Touched(data), "removed")
     ELSE prev' = data.state /\ Loop("save", Touched(data), "uninstalling")
  /\ UNCHANGED <<files, temps, manifest, marker, op, data, plan, budget>>

Saved(m, f, c) ==
  [m EXCEPT !.undo = [g \in DOMAIN m.undo \cup {f} |-> IF g = f THEN c ELSE m.undo[g]]]

Save(f) ==
  /\ At("save", f)
  /\ IF game[f] = Absent THEN UNCHANGED files ELSE Put("undo", f, game[f])
  /\ data' = Saved(data, f, game[f])
  /\ Done(f, "save", "uninstalling")
  /\ UNCHANGED <<dirs, temps, manifest, marker, op, plan, prev, budget>>

Uninstalling ==
  /\ pc = "uninstalling"
  /\ data' = [data EXCEPT !.state = "uninstalling"] /\ manifest' = data'
  /\ Loop("restore", Touched(data), "removed")
  /\ UNCHANGED <<files, dirs, temps, marker, op, plan, prev, budget>>

\* a restoration that fails is undone
Undoable(f) == data.undo[f] # Absent => files["undo"][f] = data.undo[f]

Unrestore(f) ==
  /\ At("unrestore", f) /\ Undoable(f)
  /\ Put("game", f, data.undo[f]) /\ Done(f, "unrestore", "undone")
  /\ UNCHANGED <<dirs, temps, manifest, marker, op, data, plan, prev, budget>>

\* journals the command's name for the state it found
FaultyUndone ==
  /\ pc = "undone" /\ manifest' = [data EXCEPT !.state = op] /\ Halt
  /\ UNCHANGED <<files, dirs, temps, marker, budget>>

Undone ==
  /\ pc = "undone" /\ manifest' = [data EXCEPT !.state = prev] /\ Halt
  /\ UNCHANGED <<files, dirs, temps, marker, budget>>

-----------------------------------------------------------------------------
(* Exceptions, kills, and the overlay. *)

\* a check of the code does not hold where the command is
Refused ==
  \/ pc \in {"backup", "intent"} /\ \E f \in todo : ~AsFound(f)
  \/ pc = "final" /\ ~Verified(data, "strict")
  \/ pc = "rollback" /\ ~Verified(AsInstalling, "strict")
  \/ pc = "restore" /\ \E f \in todo : ~Restorable(f)
  \/ pc = "preflight" /\ ~KnownTree
  \/ pc = "recover" /\ marker = None /\ "update" \in dirs
  \/ pc = "recover" /\ marker # None /\ ~Revertable /\ ~Finished
  \/ pc = "revert" /\ \E f \in todo : files["update"][f] # plan.snapshots[f]
  \/ pc = "load" /\ op = "install" /\ ~(Installable /\ KnownTree)
  \/ pc = "load" /\ op = "uninstall" /\ ~Removable
  \/ pc = "snapshot" /\ \E f \in todo : ~AsPlanned(f)
  \/ pc = "keep" /\ \E f \in todo \cap Kept(plan.before) : ~Keepable(f)
  \/ pc = "prior" /\ ~Unmoved
  \/ pc = "after" /\ ~Verified(plan.after, "strict")
  \/ pc = "unrestore" /\ \E f \in todo : ~Undoable(f)

InstallTry == {"prepare", "subdirs", "backup", "installing", "intent", "record",
               "copy", "installed", "final"}
UpdateTry  == {"mark", "folder", "snapshot", "keep", "prior", "ready", "replace",
               "after", "manifest", "commit"}
OtherPcs   == {"idle", "mkdir", "rollback", "restore", "removed", "preflight", "clean",
               "recover", "revert", "remanifest", "restored", "sweep", "unmark", "load",
               "mkundo", "save", "uninstalling", "unrestore", "undone"}

\* who catches an exception raised at pc
Caught ==
  CASE pc \in InstallTry -> pc' = "rollback" /\ todo' = {} /\ UNCHANGED <<op, data, plan, prev>>
    [] pc \in UpdateTry  -> pc' = "recover" /\ todo' = {} /\ UNCHANGED <<op, data, plan, prev>>
    [] pc = "restore" /\ op = "uninstall" ->
         Loop("unrestore", DOMAIN data.undo, "undone") /\ UNCHANGED <<op, data, plan, prev>>
    [] OTHER -> Halt

Refuse == Refused /\ Caught /\ UNCHANGED <<disk, budget>>

Error ==
  /\ pc # "idle" /\ budget.error > 0
  /\ budget' = [budget EXCEPT !.error = @ - 1]
  /\ Caught /\ UNCHANGED disk

\* the directory of the temporary file of the atomic write at pc
Writing(p) ==
  CASE p \in {"prepare", "record", "installed", "removed", "remanifest", "restored",
              "mark", "ready", "manifest", "commit", "uninstalling", "undone"} -> {"store"}
    [] p = "installing" -> {"store", "stage"}
    [] p \in {"backup", "copy", "restore", "revert", "prior", "replace", "save", "unrestore"}
         -> {"stage"}
    [] p = "snapshot" -> {"update"}
    [] p = "keep" -> {"backups"}
    [] OTHER -> {}

Crash ==
  /\ pc # "idle" /\ budget.crash > 0
  /\ budget' = [budget EXCEPT !.crash = @ - 1]
  /\ \E left \in SUBSET (Writing(pc) \cap Debris) : temps' = temps \cup left
  /\ Halt
  /\ UNCHANGED <<files, dirs, manifest, marker>>

\* The overlay rewrites its settings.  running_game is asked only when a command
\* begins, so the game may run during the rest of it.
Edit ==
  /\ budget.edit > 0 /\ game[Ini] \in Versions
  /\ budget' = [budget EXCEPT !.edit = @ - 1]
  /\ Put("game", Ini, Edited)
  /\ UNCHANGED <<dirs, temps, manifest, marker, mem, pc>>

-----------------------------------------------------------------------------

Install ==
  \/ MkStore \/ Prepare \/ MkSubdir \/ Installing \/ Record \/ Installed \/ Final
  \/ Rollback \/ \E f \in Files : Backup(f) \/ Intent(f) \/ Copy(f)

Cleanup == Preflight \/ Unlink \/ RmSubdir \/ Unjournal \/ RmStore

Recover ==
  \/ NoUpdate \/ BeginRevert \/ BeginSweep \/ Remanifest \/ Restored
  \/ Sweep \/ RmFolder \/ Unmark \/ \E f \in Files : Revert(f)

Update ==
  \/ Idempotent \/ PlanUpdate \/ MarkPreparing \/ MkFolder \/ Prior \/ MarkReady
  \/ After \/ NewManifest \/ MarkCommitted
  \/ \E f \in Files : Snapshot(f) \/ Keep(f) \/ Replace(f)

Uninstall ==
  \/ LoadRemoved \/ LoadPresent \/ MkUndo \/ Uninstalling \/ Removed \/ Undone
  \/ \E f \in Files : Save(f) \/ Restore(f) \/ Unrestore(f)

\* what a command does by itself
Proceed == Install \/ Cleanup \/ Recover \/ Update \/ Uninstall \/ Refuse

Next ==
  \/ BeginInstall \/ BeginReinstall \/ BeginUninstall
  \/ Proceed \/ Error \/ Crash \/ Edit

Spec == Init /\ [][Next]_vars

\* A command that is not killed comes to its end, and the user asks again and
\* again for an uninstallation, whatever else he asks for.
UserFairness == WF_vars(Proceed) /\ SF_vars(BeginUninstall)
FairSpec == Spec /\ UserFairness

-----------------------------------------------------------------------------
(* Properties. *)

\* The disk holds values of the right kind, and so does the process.
TypeOK ==
  /\ files \in [Places -> [Files -> Contents]]
  /\ dirs \subseteq Subdirs \cup {"store", "update"}
  /\ temps \subseteq {"store", "stage", "backups", "update"}
  /\ manifest \in Manifest \cup {None} /\ data \in Manifest \cup {None}
  /\ marker \in Journal \cup {None} /\ plan \in Journal \cup {None}
  /\ op \in {"none", "install", "update", "uninstall"} /\ todo \subseteq Files
  /\ pc \in InstallTry \cup UpdateTry \cup OtherPcs
  /\ prev \in States
  /\ budget \in [crash : 0 .. MaxCrashes, error : 0 .. MaxErrors, edit : 0 .. MaxEdits]

\* Whatever fails and wherever the process is killed, a file the user had before
\* the first installation is in its place or in backups, unchanged.
OriginalsKept ==
  \A f \in Present : Original \in {files["game"][f], files["backups"][f]}

\* A file that differs from what the user had is accounted for by a journal on
\* the disk: by a manifest that says so and is not "removed", or by the update
\* that is replacing it ("durable intent BEFORE rename").  So a directory with
\* no manifest is as it was.
Accountable ==
  \A f \in Files : files["game"][f] # Before(f) =>
    /\ manifest # None /\ manifest.state # "removed"
    /\ \/ f \in Touched(manifest)
       \/ marker # None /\ marker.phase = "ready" /\ f \in DOMAIN marker.snapshots

\* Every manifest and update journal that a command leaves is one that the next
\* command accepts, and an update journal speaks of the manifest beside it.
JournalsAccepted ==
  /\ manifest # None => Valid(manifest)
  /\ marker # None => Journalled(marker) /\ Valid(marker.before) /\ Valid(marker.after)

\* While an update replaces files, what it replaces is in the game or in update/.
SnapshotsKept ==
  marker # None /\ marker.phase = "ready" =>
    \A f \in DOMAIN marker.snapshots :
      files["update"][f] = marker.snapshots[f]

\* No command running and none to recover: the files are those of one
\* installation, never a mixture.  Settings may be the overlay's.
SettledIsWhole ==
  pc = "idle" /\ manifest # None /\ manifest.state = "installed" /\ marker = None =>
    \A f \in Files : \/ files["game"][f] = manifest.files[f].sha
                     \/ f = Ini /\ files["game"][f] = Edited

\* Nothing that is interrupted stays so: the user who asks for an uninstallation
\* often enough gets rid of the store.
UninstallSucceeds == []<>("store" \notin dirs)

-----------------------------------------------------------------------------
(* The inductive invariant of OriginalsKept and Accountable. *)

Faithful(m) ==
  /\ \A f \in Files : m.files[f].original = Before(f)
  /\ DOMAIN m.undo \subseteq Touched(m)

Secured(f) == f \in Present => files["backups"][f] = Original

\* what an update journal says of the manifests it goes between
Planned(j) ==
  /\ j.before.state = "installed" /\ j.after.state = "installed"
  /\ Faithful(j.before) /\ Faithful(j.after)
  /\ Files \ Kept(j.before) = Touched(j.before)
  /\ Touched(j.after) = Touched(j.before) \cup DOMAIN j.snapshots
  /\ \A f \in DOMAIN j.snapshots : j.snapshots[f] # Before(f) => f \in Touched(j.before)

Deployed(f)  == manifest # None /\ manifest.state # "removed" /\ f \in Touched(manifest)
Replacing(f) == marker # None /\ marker.phase = "ready" /\ f \in DOMAIN marker.snapshots

\* what is in the store needs the store
StoreInv ==
  /\ "store" \notin dirs => manifest = None /\ marker = None
  /\ pc \notin {"idle", "mkdir"} => "store" \in dirs

DiskInv ==
  /\ manifest # None => Faithful(manifest)
  /\ marker # None => Planned(marker) /\ manifest \in {marker.before, marker.after}
  /\ \A f \in Files : Deployed(f) \/ Replacing(f) => Secured(f)
  /\ \A f \in Files : game[f] # Before(f) => Deployed(f) \/ Replacing(f)

\* a command that carries a manifest while no update is pending
Carries == data # None /\ Faithful(data) /\ marker = None

InstallInv ==
  pc \in InstallTry \cup {"mkdir", "rollback"} =>
    /\ op = "install" /\ Carries /\ data.state # "removed"
    /\ pc \in {"mkdir", "prepare"} => manifest = None /\ Touched(data) = {}
    /\ manifest # None => Touched(manifest) \subseteq Touched(data)
    /\ pc = "backup" => \A f \in Backed(data) \ todo : Secured(f)
    /\ pc \in {"installing", "intent", "record", "copy", "installed", "final"}
         => \A f \in Backed(data) : Secured(f)
    /\ pc \in {"copy", "final"} => manifest = data

\* the manifest on the disk and the one carried differ in their state alone
Same == manifest # None /\ manifest.files = data.files

RemoveInv ==
  /\ pc \in {"restore", "removed"} =>
       /\ Carries /\ op \in {"install", "uninstall"}
       /\ \A f \in Files : game[f] = Before(f) \/ (pc = "restore" /\ f \in todo)
  /\ pc = "restore" /\ op = "uninstall" =>
       Same /\ manifest.state = "uninstalling" /\ prev # "removed"
  /\ pc \in {"mkundo", "save", "uninstalling"} =>
       Carries /\ op = "uninstall" /\ Same /\ manifest.state = data.state /\ data.state # "removed"
  /\ pc = "save" => todo \subseteq Touched(data)
  /\ pc \in {"save", "uninstalling", "unrestore", "undone"} => prev # "removed"
  /\ pc \in {"unrestore", "undone"} =>
       Carries /\ Same /\ manifest.state = "uninstalling" /\ todo \subseteq DOMAIN data.undo
  /\ pc = "preflight" => manifest # None /\ manifest.state = "removed"
  /\ pc = "clean" => marker = None /\ (manifest # None => manifest.state = "removed")

UpdateInv ==
  /\ pc \in UpdateTry =>
       /\ op = "update" /\ plan # None /\ Planned(plan)
       /\ pc # "commit" => manifest = plan.before
       /\ IF pc = "mark" THEN marker = None ELSE marker = plan
       /\ pc = "mark" => plan.phase # "ready"
       /\ pc \in {"replace", "after", "manifest", "commit"} <=> plan.phase = "ready"
       /\ pc \in {"snapshot", "keep"} =>
            \A f \in (DOMAIN plan.snapshots \cap Kept(plan.before)) \ todo : Secured(f)
       /\ pc \in {"prior", "ready"} =>
            \A f \in DOMAIN plan.snapshots \cap Kept(plan.before) : Secured(f)
       /\ pc = "commit" => manifest = plan.after
       /\ pc = "replace" => todo \subseteq DOMAIN plan.snapshots
  /\ pc \in {"revert", "remanifest", "restored"} =>
       /\ plan # None /\ marker = plan /\ plan.phase = "ready"
       /\ pc = "revert" => todo \subseteq DOMAIN plan.snapshots
       /\ pc = "restored" => manifest = plan.before
       /\ \A f \in DOMAIN plan.snapshots :
            \/ pc = "revert" /\ f \in todo
            \/ game[f] # Before(f) => f \in Touched(plan.before)
  /\ pc \in {"sweep", "unmark"} /\ marker # None => marker.phase # "ready"
  /\ pc = "load" => marker = None

IInv == TypeOK /\ StoreInv /\ DiskInv /\ InstallInv /\ RemoveInv /\ UpdateInv
-----------------------------------------------------------------------------
(* Deploy implements Transaction. *)

Claimed == {f \in Files : Deployed(f) \/ Replacing(f)}

\* An update counts once it is marked as committed; until then its recovery
\* goes back to the manifest before it.
Pending == marker # None /\ marker.phase = "ready"
Showing == manifest # None /\ manifest.state = "installed"

Deploys(m) == [f \in Files |-> m.files[f].sha]
Originals  == [f \in Files |-> Before(f)]

Mode    == IF Pending THEN "updating" ELSE IF Showing THEN "installed" ELSE "none"
Version == IF Pending THEN Deploys(marker.before)
           ELSE IF Showing THEN Deploys(manifest) ELSE Originals
Goal    == IF Pending THEN Deploys(marker.after) ELSE Version
Scope   == IF Pending THEN DOMAIN marker.snapshots ELSE {}

Undoing == INSTANCE Transaction
  WITH Settings <- {Ini}, Was <- Originals, New <- Files \ Present,
       saved <- {f \in Files : Secured(f)}, claimed <- Claimed,
       mode <- Mode, version <- Version, next <- Goal, scope <- Scope

\* However commands are interrupted, the directory is under an undo log: a file is
\* written only while a journal on the disk names it and its original is at hand,
\* both are given up only when it is restored, and what the journals show as installed
\* changes by whole installations.
TransactionProperty == Undoing!Spec
=============================================================================
