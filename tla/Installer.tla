----------------------------- MODULE Installer -----------------------------
(***************************************************************************)
(* The command line of dlssnr/cli.py with the parts of runtime.py that it    *)
(* drives: one user runs install, install --dry-run, doctor, status,         *)
(* uninstall and runtime one after the other, with games being played in     *)
(* between, and any run may stop at any step: an error, an answer that        *)
(* cancels, Ctrl-C or a kill.                                                *)
(*                                                                         *)
(* What install_game and uninstall_game do inside is the subject of Deploy,  *)
(* what a conversion does inside that of SharedCaches; here each of them is  *)
(* two steps, with what it may leave behind.  An option of the command line  *)
(* and the answer to the question that replaces it are one consent, granted  *)
(* where the program asks for it.                                           *)
(***************************************************************************)
EXTENDS Naturals

CONSTANTS
  Umask,     \* the user's umask, "0022" or "0002"
  MaxRuns,   \* bound on the commands the user runs
  MaxKills   \* bound on the runs that end without a word

ASSUME UmaskAssumption == Umask \in {"0022", "0002"}
ASSUME BoundAssumption == MaxRuns \in Nat /\ MaxKills \in Nat

VARIABLES
  host,      \* [system: what /usr/lib holds, supplied: what --hip-library names,
             \*  driver: BOOLEAN, clash: BOOLEAN (DLLs of the mod's names)]
  playing,   \* the game runs
  game,      \* what is deployed beside it
  data,      \* ~/.local/share/dlssnr-linux
  venv,      \* rocm-venv in it: "bare" lacks a complete marker
  lib,       \* the HIP library inside the venv
  cached,    \* the converted weights in it
  pc, run,   \* the phase of the current command, and its local variables
  runs, kills

disk == <<game, data, venv, lib, cached>>
vars == <<host, playing, disk, pc, run, runs, kills>>

Commands  == {"install", "dry-run", "doctor", "status", "uninstall", "runtime"}
ReadOnly  == {"dry-run", "doctor", "status"}
Phases    == {"idle", "package", "game", "checks", "runner", "upscaler", "loader", "risk",
              "runtime", "wheel_check", "wheel_download", "wheel_mkdir", "wheel_mark",
              "wheel_pip", "wheel_install", "wheel_probe", "record", "gpu", "setup", "model",
              "validate", "launch", "conflicts", "deploy", "deploying", "status",
              "uninstall", "uninstalling"}
Libraries == {"none", "torn", "hip6", "hip7"}
Sources   == {"supplied", "managed", "system"}
Consents  == {"runner", "fsr", "loader", "risk", "rocm", "replace", "yes"}
Exits     == {"ok", "attention", "error", "unmanaged", "insecure", "cancelled", "killed"}

\* the local variables of main before it has set them
Blank == [cmd |-> "status", asks |-> FALSE, supplied |-> FALSE, granted |-> {}, fsr |-> TRUE,
          loader |-> TRUE, failed |-> {}, rt |-> "none", setup |-> FALSE, model |-> "none",
          was |-> "clean", exit |-> "ok"]

Init ==
  /\ host \in [system: {"none", "hip6", "hip7"}, supplied: {"torn", "hip7"},
               driver: BOOLEAN, clash: BOOLEAN]
  /\ playing = FALSE /\ game = "clean" /\ cached = FALSE
  /\ \/ data = "absent" /\ venv = "none" /\ lib = "none"
     \/ data = "private" /\ venv = "foreign" /\ lib = "hip6"
  /\ pc = "idle" /\ runs = 0 /\ kills = 0
  /\ run = Blank

At(phase) == pc = phase
Go(phase) == pc' = phase
World     == <<host, playing, runs>>
Quiet     == UNCHANGED <<host, playing, runs, kills, disk>>

\* What is remembered of a run is what the user saw of it.
Exit(code) ==
  Go("idle") /\ run' = [Blank EXCEPT !.cmd = run.cmd, !.was = run.was, !.exit = code]

Install ==  run.cmd \in {"install", "dry-run"}

Start(c, asks, supplied) ==
  /\ At("idle") /\ runs < MaxRuns /\ runs' = runs + 1
  /\ supplied => c \notin {"status", "uninstall"}
  /\ run' = [Blank EXCEPT !.cmd = c, !.asks = asks, !.supplied = supplied, !.was = game]
  /\ Go(CASE c \in {"install", "dry-run"} -> "package" [] c = "runtime" -> "runtime"
          [] OTHER -> "game")
  /\ UNCHANGED <<host, playing, kills, disk>>

-----------------------------------------------------------------------------
(* Package, game, evidence and the questions, up to the risk. *)

\* require: given with an option, or answered with yes; else the run fails
Grant(c) == run' = [run EXCEPT !.granted = @ \cup {c}]

\* verify_assets and require_deployable; the doctor verifies later
Package == At("package") /\ Go("game") /\ UNCHANGED run /\ Quiet

\* dispatches on the name
FaultyTarget(c) == c

Target(c) == IF c \in {"status", "uninstall"} THEN c ELSE "checks"

ResolveExe == At("game") /\ Go(Target(run.cmd)) /\ UNCHANGED run /\ Quiet

\* check_host and inspect_game: no anti-cheat, DirectX 12; the rest is asked
Checks ==
  /\ At("checks") /\ Go("runner") /\ Quiet
  /\ \E fsr, loader \in BOOLEAN : run' = [run EXCEPT !.fsr = fsr, !.loader = loader]

Runner ==
  /\ At("runner") /\ Go("upscaler") /\ Quiet
  /\ IF Install THEN Grant("runner") ELSE UNCHANGED run

\* asks only the guided installer
FaultyAsksFsr == ~run.fsr /\ run.asks

AsksFsr == ~run.fsr

Upscaler ==
  /\ At("upscaler") /\ Quiet
  /\ \/ ~Install /\ Go("runtime") /\ UNCHANGED run
     \/ Install /\ AsksFsr /\ Go("loader") /\ Grant("fsr")
     \/ Install /\ ~AsksFsr /\ Go("loader") /\ UNCHANGED run

Loader ==
  /\ At("loader") /\ Go("risk") /\ Quiet
  /\ IF run.loader THEN UNCHANGED run ELSE Grant("loader")

Risk == At("risk") /\ ~playing /\ Go("runtime") /\ Grant("risk") /\ Quiet

-----------------------------------------------------------------------------
(* Runtime: probes, and the managed wheel. *)

Kind(l) == CASE l = "system" -> host.system [] l = "managed" -> lib
             [] OTHER -> host.supplied

\* _native_probe in its child, and probe_runtime around it.  Any library may just fail: a
\* whole one for the ELF dependencies of the host, a metadata call, an architecture that
\* is not plain, or a child that crashes or is out of time.  A whole one fails for the
\* driver when that is missing or shows no device, and only then does the run end.
NativeProbe(l) ==
  {"error"} \cup
  (IF Kind(l) # "hip7" THEN {} ELSE {"driver"} \cup (IF host.driver THEN {"ok"} ELSE {}))

\* A supplied library alone, or the managed one and then the system's (discover_roots).
Candidates ==
  IF run.supplied THEN {"supplied"} ELSE {l \in {"managed", "system"} : Kind(l) # "none"}

Untried == Candidates \ run.failed

NextIs(l) == l \in Untried /\ (l = "system" => "managed" \notin Untried)

\* the doctor and --dry-run never download
FaultyReadsOnly == run.cmd = "doctor"

ReadsOnly == run.cmd \in {"doctor", "dry-run"}

UseCandidate(l) ==
  /\ At("runtime") /\ NextIs(l) /\ "ok" \in NativeProbe(l) /\ Quiet
  /\ run' = [run EXCEPT !.rt = l]
  /\ Go(IF ReadsOnly THEN "gpu" ELSE "record")

\* The loop notes a plain error, of the probe or of the record that follows it, and
\* goes on to the next candidate.
SkipCandidate(l) ==
  /\ At("runtime") /\ NextIs(l) /\ "error" \in NativeProbe(l) /\ Quiet
  /\ run' = [run EXCEPT !.failed = @ \cup {l}] /\ UNCHANGED pc

\* offers the download after a supplied library has failed
FaultyMayDownload == Untried = {} /\ host.driver

MayDownload == Untried = {} /\ ~run.supplied /\ host.driver

\* without --install-rocm the user is asked, and everything is tried once more
AskWheel ==
  /\ At("runtime") /\ ~ReadsOnly /\ MayDownload /\ run.asks /\ "rocm" \notin run.granted
  /\ run' = [run EXCEPT !.granted = @ \cup {"rocm"}, !.failed = {}]
  /\ UNCHANGED pc /\ Quiet

\* with --install-rocm, or with what the user has agreed to
AllowWheel ==
  /\ At("runtime") /\ ~ReadsOnly /\ MayDownload
  /\ Go("wheel_check") /\ Grant("rocm") /\ Quiet

\* mkdir with the user's umask
Created(d) == IF d # "absent" THEN d ELSE IF Umask = "0022" THEN "private" ELSE "open"

\* takes any directory of that name
FaultyOursToFill == TRUE

OursToFill == venv = "none" \/ (venv = "managed" /\ Umask = "0022")

CheckVenv ==
  /\ At("wheel_check") /\ data' = Created(data)
  /\ IF OursToFill THEN Go("wheel_download") /\ UNCHANGED run ELSE Exit("unmanaged")
  /\ UNCHANGED <<World, kills, game, venv, lib, cached>>

Download == At("wheel_download") /\ Go("wheel_mkdir") /\ UNCHANGED run /\ Quiet

\* leaves the marker for the end
FaultyMarked(v) == v

Marked(v) == IF v = "bare" THEN "managed" ELSE v

MakeVenv ==
  /\ At("wheel_mkdir") /\ Go("wheel_mark") /\ UNCHANGED run
  /\ venv' = IF venv = "none" THEN "bare" ELSE venv
  /\ UNCHANGED <<World, kills, game, data, lib, cached>>

MarkVenv ==
  /\ At("wheel_mark") /\ Go("wheel_pip") /\ UNCHANGED run
  /\ venv' = Marked(venv)
  /\ UNCHANGED <<World, kills, game, data, lib, cached>>

\* python -m venv, then pip, which removes the installed files and writes new ones
StartPip ==
  /\ At("wheel_pip") /\ Go("wheel_install") /\ UNCHANGED run
  /\ lib' = "torn"
  /\ UNCHANGED <<World, kills, game, data, venv, cached>>

EndPip ==
  /\ At("wheel_install") /\ Go("wheel_probe") /\ UNCHANGED run
  /\ lib' = "hip7"
  /\ UNCHANGED <<World, kills, game, data, venv, cached>>

ProbeWheel ==
  /\ At("wheel_probe") /\ "ok" \in NativeProbe("managed") /\ Go("record")
  /\ run' = [run EXCEPT !.rt = "managed"] /\ Quiet

\* record: runtime-manifest.json
Record ==
  /\ At("record") /\ data' = Created(data)
  /\ IF run.cmd = "runtime" THEN Exit("ok") ELSE Go("gpu") /\ UNCHANGED run
  /\ UNCHANGED <<World, kills, game, venv, lib, cached>>

-----------------------------------------------------------------------------
(* GPU, setup, model, launch line, deployment. *)

\* select_gpu finds one, or the user or an option names one
SelectGpu ==
  /\ At("gpu") /\ Quiet
  /\ CASE run.cmd = "doctor"  -> Exit("ok")
       [] run.cmd = "dry-run" -> Go("model") /\ UNCHANGED run
       [] OTHER               -> Go("setup") /\ UNCHANGED run

\* prepared_package: the official setup, read or downloaded, and its digests
Setup == At("setup") /\ Go("model") /\ run' = [run EXCEPT !.setup = TRUE] /\ Quiet

\* --dry-run refuses a DLL
MayConvert == run.cmd = "install"

\* Weights named, beside the game, in the cache or answered; or a DLL named, found
\* or remembered, which is converted unless the cache has the weights already.
Model ==
  /\ At("model") /\ Go("validate")
  /\ \/ /\ \E m \in {"whole", "broken"} : run' = [run EXCEPT !.model = m]
        /\ UNCHANGED <<data, cached>>
     \/ /\ MayConvert
        /\ data' = Created(data) /\ cached' = TRUE
        /\ run' = [run EXCEPT !.model = "whole"]
  /\ UNCHANGED <<World, kills, game, venv, lib>>

\* validate_weights
Acceptable(model) == model = "whole"

Validate ==
  /\ At("validate") /\ Acceptable(run.model) /\ Quiet
  /\ IF run.cmd = "dry-run" THEN Exit("ok") ELSE Go("launch") /\ UNCHANGED run

\* launch_options: the line of the user, the saved one or none, merged
LaunchLine == At("launch") /\ Go("conflicts") /\ UNCHANGED run /\ Quiet

\* asks on every installation that is not an update of this game's
Conflicting == host.clash /\ game = "clean"

Conflicts ==
  /\ At("conflicts") /\ Go("deploy") /\ Quiet
  /\ IF Conflicting THEN Grant("replace") ELSE UNCHANGED run

\* install_game under its lock; a pending first installation needs uninstall
MayDeploy == ~playing /\ game # "pending"

\* The same request again changes nothing; an interrupted update is recovered first.
Deploy ==
  /\ At("deploy") /\ MayDeploy
  /\ \/ game = "installed" /\ Exit("ok") /\ UNCHANGED <<game, data>>
     \/ data = "open" /\ Exit("insecure") /\ UNCHANGED <<game, data>>
     \/ /\ data # "open" /\ data' = "private" /\ Go("deploying") /\ UNCHANGED run
        /\ game' = IF game = "clean" THEN "pending" ELSE "updating"
  /\ UNCHANGED <<World, kills, venv, lib, cached>>

\* a failure that was rolled back is no failure
FaultyOutcome(g) == "ok"

\* an exception is raised again after the rollback
Outcome(g) == "error"

\* Done; rolled back; or the rollback failed as well and the journal stays.
Deployed ==
  /\ At("deploying")
  /\ \/ game' = "installed" /\ Exit("ok")
     \/ /\ game' \in {game, IF game = "pending" THEN "clean" ELSE "installed"}
        /\ Exit(Outcome(game'))
  /\ UNCHANGED <<World, kills, data, venv, lib, cached>>

-----------------------------------------------------------------------------
Status ==
  /\ At("status") /\ Quiet
  /\ Exit(IF game \in {"pending", "updating"} THEN "attention" ELSE "ok")

Uninstall == At("uninstall") /\ ~playing /\ Go("uninstalling") /\ Grant("yes") /\ Quiet

\* with the check of the state that is left
Uninstalled ==
  /\ At("uninstalling")
  /\ \/ game' = "clean" /\ Exit("ok")
     \/ game' \in {game, IF game = "clean" THEN "clean" ELSE "pending"} /\ Exit("error")
  /\ UNCHANGED <<World, kills, data, venv, lib, cached>>

\* Any other error, refusal or answer that ends the program at a step.
Refuse ==
  /\ pc \notin {"idle", "deploying", "uninstalling"}
  /\ Exit("error") \/ (run.asks /\ Exit("cancelled"))
  /\ Quiet

\* Ctrl-C and kill leave what is there; no handler of the deployment runs either
Kill ==
  /\ ~At("idle") /\ kills < MaxKills /\ kills' = kills + 1
  /\ Exit("killed")
  /\ UNCHANGED <<World, disk>>

Play == playing' = ~playing /\ UNCHANGED <<host, disk, pc, run, runs, kills>>

\* the kernel driver, or the access to it, comes and goes between the runs
Drift ==
  /\ At("idle") /\ host' = [host EXCEPT !.driver = ~@]
  /\ UNCHANGED <<playing, disk, pc, run, runs, kills>>

Next ==
  \/ \E c \in Commands, asks, supplied \in BOOLEAN : Start(c, asks, supplied)
  \/ Package \/ ResolveExe \/ Checks \/ Runner \/ Upscaler \/ Loader \/ Risk
  \/ \E l \in Sources : UseCandidate(l) \/ SkipCandidate(l)
  \/ AskWheel \/ AllowWheel \/ CheckVenv \/ Download \/ MakeVenv \/ MarkVenv
  \/ StartPip \/ EndPip \/ ProbeWheel \/ Record
  \/ SelectGpu \/ Setup \/ Model \/ Validate \/ LaunchLine \/ Conflicts
  \/ Deploy \/ Deployed \/ Status \/ Uninstall \/ Uninstalled
  \/ Refuse \/ Kill \/ Play \/ Drift

Spec == Init /\ [][Next]_vars

-----------------------------------------------------------------------------
Locals == [cmd: Commands, asks: BOOLEAN, supplied: BOOLEAN,
           granted: SUBSET Consents, fsr: BOOLEAN, loader: BOOLEAN,
           failed: SUBSET Sources, rt: {"none"} \cup Sources, setup: BOOLEAN,
           model: {"none", "whole", "broken"},
           was: {"clean", "installed", "pending", "updating"}, exit: Exits]

TypeOK ==
  /\ pc \in Phases
  /\ host \in [system: Libraries, supplied: Libraries, driver: BOOLEAN, clash: BOOLEAN]
  /\ game \in {"clean", "installed", "pending", "updating"}
  /\ data \in {"absent", "private", "open"}
  /\ venv \in {"none", "foreign", "bare", "managed"} /\ lib \in Libraries
  /\ playing \in BOOLEAN /\ cached \in BOOLEAN
  /\ run \in Locals
  /\ runs \in 0..MaxRuns /\ kills \in 0..MaxKills

\* The game's files are changed only by an install whose consents, evidence and
\* inputs were all established in this run: the runner confirmed, FSR and loading
\* evident or confirmed, conflicting DLLs agreed to, the setup and the model
\* verified, and a whole library of major version 7, the one named if one was.
DeploysWhatWasChecked ==
  At("deploying") =>
    /\ run.cmd = "install"
    /\ {"runner", "risk"} \subseteq run.granted
    /\ run.fsr \/ "fsr" \in run.granted
    /\ run.loader \/ "loader" \in run.granted
    /\ host.clash /\ run.was = "clean" => "replace" \in run.granted
    /\ run.setup /\ run.model = "whole"
    /\ Kind(run.rt) = "hip7" /\ (run.supplied => run.rt = "supplied")

\* doctor, status and --dry-run write nothing: "No writes, downloads or conversion".
ReadOnlyRuns == [][run.cmd \in ReadOnly /\ ~At("idle") => UNCHANGED disk]_vars

\* The library of the shared venv, which other games' launchers name, is touched only as
\* the last resort of a run that may download: the user has agreed, no library was
\* supplied ("failures do not silently fall back"), the driver is there, and the system's
\* library has failed in this run, as has the managed one if it was whole.
WheelIsLastResort ==
  [][lib' # lib =>
       /\ "rocm" \in run.granted /\ ~run.supplied /\ host.driver
       /\ host.system # "none" => "system" \in run.failed
       /\ lib = "hip7" => "managed" \in run.failed]_vars

\* A rocm-venv that the installer did not make keeps its files.
ForeignVenvKept == [][venv = "foreign" => UNCHANGED <<venv, lib>>]_vars

\* The venv holds a library only when it bears the marker, so what the installer refuses
\* as somebody else's is never one that it has filled: it is foreign, or was left bare by a
\* run that ended between mkdir and the marker.  The exception is a umask that leaves the
\* installer's own venv open to the group.
FilledVenvIsRecognised ==
  /\ lib # "none" => venv \in {"managed", "foreign"}
  /\ At("idle") /\ run.exit = "unmanaged" =>
       \/ venv = "foreign"
       \/ venv = "bare" /\ lib = "none"
       \/ Umask = "0002"

\* Success is reported only for what is on disk, and a run that reports an error
\* without journal debris has left the game as it found it.
ExitTellsTruth ==
  At("idle") /\ run.exit # "killed" =>
    /\ run.cmd = "install" /\ run.exit = "ok" => game = "installed"
    /\ run.cmd = "uninstall" /\ run.exit = "ok" => game = "clean"
    /\ run.exit \in {"error", "cancelled", "insecure", "unmanaged"} =>
         game \in {run.was, "pending", "updating"} \/ run.was = "updating"

\* The installer does not refuse a directory that only its own earlier steps made.
\* FALSE: it makes ~/.local/share/dlssnr-linux with the user's umask and then
\* requires it to be closed to the group.
OwnWorkAccepted ==
  /\ run.exit # "insecure"
  /\ run.exit = "unmanaged" => venv = "foreign"
=============================================================================
