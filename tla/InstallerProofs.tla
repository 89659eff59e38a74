-------------------------- MODULE InstallerProofs --------------------------
(***************************************************************************)
(* Proofs about Installer, for either umask and any number of runs and       *)
(* kills.  The invariant says, phase by phase, what a run has established.   *)
(***************************************************************************)
EXTENDS Installer, TLAPS

Wheel   == {"wheel_check", "wheel_download", "wheel_mkdir", "wheel_mark", "wheel_pip",
            "wheel_install", "wheel_probe"}
Late    == {"setup", "launch", "conflicts", "deploy", "deploying"}
HasRt   == {"gpu", "setup", "model", "validate", "launch", "conflicts", "deploy", "deploying"}
Asked   == Wheel \cup {"runtime", "record"} \cup HasRt

\* The phases each command may be in.
ByCommand ==
  /\ run.cmd = "status" => pc \in {"idle", "game", "status"}
  /\ run.cmd = "uninstall" => pc \in {"idle", "game", "uninstall", "uninstalling"}
  /\ run.cmd = "runtime" => pc \in Wheel \cup {"idle", "runtime", "record"}
  /\ run.cmd \in {"doctor", "dry-run"} =>
       pc \notin Wheel \cup Late \cup {"record", "status", "uninstall", "uninstalling"}
  /\ run.cmd = "doctor" => pc \notin {"model", "validate"}
  /\ run.cmd = "install" => pc \notin {"status", "uninstall", "uninstalling"}

\* The consents and the evidence an installation has by each phase.
Established ==
  Install =>
    /\ pc \in {"upscaler", "loader", "risk"} \cup Asked => "runner" \in run.granted
    /\ pc \in {"loader", "risk"} \cup Asked => run.fsr \/ "fsr" \in run.granted
    /\ pc \in {"risk"} \cup Asked => run.loader \/ "loader" \in run.granted
    /\ pc \in Asked => "risk" \in run.granted
    /\ pc \in {"deploy", "deploying"} /\ host.clash /\ run.was = "clean" =>
         "replace" \in run.granted
    /\ pc \in {"model", "validate"} \cup (Late \ {"setup"}) /\ run.cmd = "install" => run.setup
    /\ pc \in Late \ {"setup"} => run.model = "whole"

\* The library that was found is whole, and the one that was named if one was.
RuntimeFound ==
  pc \in HasRt \cup {"record"} =>
    /\ Kind(run.rt) = "hip7"
    /\ run.supplied => run.rt = "supplied"

\* Whoever fills the venv may download, has made or checked it, and has seen what else
\* there is fail.
WheelInv ==
  /\ pc \in Wheel =>
       /\ "rocm" \in run.granted /\ ~run.supplied /\ host.driver
       /\ host.system # "none" => "system" \in run.failed
  /\ pc \in {"wheel_download", "wheel_mkdir"} => venv \in {"none", "managed"}
  /\ pc = "wheel_mark" => venv \in {"bare", "managed"}
  /\ pc \in {"wheel_pip", "wheel_install", "wheel_probe"} => venv = "managed"
  /\ pc \in Wheel \ {"wheel_install", "wheel_probe"} /\ lib = "hip7" => "managed" \in run.failed
  /\ pc = "wheel_install" => lib = "torn"

\* Until it deploys or uninstalls, a run finds the game as it was at its start.
GameAsItWas ==
  /\ pc \notin {"idle", "deploying"} => game = run.was
  /\ pc = "deploying" =>
       \/ game = "pending" /\ run.was = "clean"
       \/ game = "updating" /\ run.was \in {"installed", "updating"}

IInv ==
  /\ TypeOK
  /\ ByCommand
  /\ Established
  /\ RuntimeFound
  /\ WheelInv
  /\ GameAsItWas
  /\ FilledVenvIsRecognised
  /\ ExitTellsTruth

-----------------------------------------------------------------------------
\* The local variables at the start and at the end of a run are typed.
LEMMA BlankTyped == Blank \in Locals
  BY DEF Blank, Locals, Commands, Sources, Exits

LEMMA StartTyped ==
  ASSUME NEW c \in Commands, NEW asks \in BOOLEAN, NEW supplied \in BOOLEAN,
         NEW was \in {"clean", "installed", "pending", "updating"}
  PROVE  [Blank EXCEPT !.cmd = c, !.asks = asks, !.supplied = supplied, !.was = was] \in Locals
  BY BlankTyped DEF Locals

LEMMA ExitTyped ==
  ASSUME run \in Locals, NEW code \in Exits, Exit(code)
  PROVE  run' \in Locals /\ pc' = "idle"
<1>1. pc' = "idle" /\ run' = [Blank EXCEPT !.cmd = run.cmd, !.was = run.was, !.exit = code]
  BY DEF Exit, Go
<1>2. [Blank EXCEPT !.cmd = run.cmd, !.was = run.was, !.exit = code] \in Locals
  BY BlankTyped DEF Locals
<1> QED BY <1>1, <1>2

\* A first run finds no runtime of its own, and no game installed.
LEMMA InitInv == Init => IInv
<1> SUFFICES ASSUME Init PROVE IInv
  OBVIOUS
<1>1. pc = "idle" /\ run = Blank /\ run \in Locals
  BY BlankTyped DEF Init
<1>2. TypeOK
  <2>1. host \in [system: Libraries, supplied: Libraries, driver: BOOLEAN, clash: BOOLEAN]
    BY DEF Init, Libraries
  <2>2. /\ pc \in Phases /\ game = "clean" /\ data \in {"absent", "private"} /\ playing = FALSE
        /\ venv \in {"none", "foreign"} /\ lib \in Libraries /\ cached = FALSE
        /\ runs = 0 /\ kills = 0
    BY <1>1 DEF Init, Phases, Libraries
  <2>3. playing \in BOOLEAN /\ cached \in BOOLEAN
    BY <2>2
  <2>4. runs \in 0..MaxRuns /\ kills \in 0..MaxKills
    BY <2>2, BoundAssumption
  <2> QED BY <1>1, <2>1, <2>2, <2>3, <2>4 DEF TypeOK
<1>3. /\ ByCommand /\ Established /\ RuntimeFound /\ WheelInv /\ GameAsItWas
      /\ FilledVenvIsRecognised /\ ExitTellsTruth
  BY <1>1 DEF ByCommand, Established, RuntimeFound, WheelInv, GameAsItWas,
         FilledVenvIsRecognised,
     ExitTellsTruth, Init, Blank, At, Install, Wheel, Late, HasRt, Asked
<1> QED BY <1>2, <1>3 DEF IInv

\* A step that changes no variable keeps the invariant.
LEMMA StutterInv == IInv /\ UNCHANGED vars => IInv'
  BY DEF vars, disk, Kind, Install, At, IInv, TypeOK, ByCommand, Established, RuntimeFound,
         WheelInv, GameAsItWas, FilledVenvIsRecognised, ExitTellsTruth

\* Start keeps the invariant.
LEMMA StartInv ==
  ASSUME IInv, NEW c \in Commands, NEW asks \in BOOLEAN, NEW supplied \in BOOLEAN,
         Start(c, asks, supplied)
  PROVE  IInv'
<1>1. TypeOK'
  <2>1. run' \in Locals
    BY StartTyped DEF IInv, TypeOK, Start
  <2> QED BY <2>1, BoundAssumption
      DEF IInv, TypeOK, Start, Phases, disk, At, Go
<1>2. ByCommand' /\ GameAsItWas'
  BY DEF IInv, TypeOK, ByCommand, GameAsItWas, Start, Blank, Libraries, Locals, Phases,
         Late, Wheel, At, Go, disk, Commands, Consents, Exits
<1>3. Established'
  BY DEF IInv, TypeOK, Established, ByCommand, GameAsItWas, Start, Blank, Libraries, Locals,
         Phases, Asked, Install, Late, Wheel, At, Go, disk, Commands, Consents, Exits, HasRt
<1>4. RuntimeFound' /\ WheelInv' /\ FilledVenvIsRecognised'
  BY DEF IInv, TypeOK, RuntimeFound, WheelInv, FilledVenvIsRecognised, Start, Blank,
         Libraries, Locals, Phases, HasRt, Kind, Wheel, At, Go, disk, Commands, Consents,
         Exits
<1>5. ExitTellsTruth'
  BY DEF IInv, TypeOK, ExitTellsTruth, GameAsItWas, ByCommand, Established, Start, Blank,
         Libraries, Locals, Phases, At, Late, Wheel, Asked, Install, Go, disk, Commands,
         Consents, Exits, HasRt
<1> QED BY <1>1, <1>2, <1>3, <1>4, <1>5 DEF IInv

\* Package keeps the invariant.
LEMMA PackageInv ==
  ASSUME IInv, Package
  PROVE  IInv'
<1>1. TypeOK'
  BY BoundAssumption DEF IInv, TypeOK, Package, Phases, At, Go, Quiet, disk
<1>2. ByCommand' /\ GameAsItWas'
  BY DEF IInv, ByCommand, GameAsItWas, Package, Late, Wheel, At, Go, Quiet, disk
<1>3. Established'
  BY DEF IInv, Established, ByCommand, GameAsItWas, Package, Asked, Install, Late, Wheel,
         At, Go, Quiet, HasRt, disk
<1>4. RuntimeFound' /\ WheelInv' /\ FilledVenvIsRecognised'
  BY DEF IInv, RuntimeFound, WheelInv, FilledVenvIsRecognised, Package, HasRt, Kind, Wheel,
         At, Go, Quiet, disk
<1>5. ExitTellsTruth'
  BY DEF IInv, ExitTellsTruth, GameAsItWas, ByCommand, Established, Package, At, Late,
         Wheel, Asked, Install, Go, Quiet, HasRt, disk
<1> QED BY <1>1, <1>2, <1>3, <1>4, <1>5 DEF IInv

\* ResolveExe keeps the invariant.
LEMMA ResolveExeInv ==
  ASSUME IInv, ResolveExe
  PROVE  IInv'
<1>1. TypeOK'
  BY BoundAssumption DEF IInv, TypeOK, ResolveExe, Target, Phases, At, Go, Quiet, disk
<1>2. ByCommand' /\ GameAsItWas'
  BY DEF IInv, ByCommand, GameAsItWas, ResolveExe, Target, Late, Wheel, At, Go, Quiet, disk
<1>3. Established'
  BY DEF IInv, Established, ByCommand, GameAsItWas, ResolveExe, Target, Asked, Install,
         Late, Wheel, At, Go, Quiet, HasRt, disk
<1>4. RuntimeFound' /\ WheelInv' /\ FilledVenvIsRecognised'
  BY DEF IInv, RuntimeFound, WheelInv, FilledVenvIsRecognised, ResolveExe, Target, HasRt,
         Kind, Wheel, At, Go, Quiet, disk
<1>5. ExitTellsTruth'
  BY DEF IInv, ExitTellsTruth, GameAsItWas, ByCommand, Established, ResolveExe, Target, At,
         Late, Wheel, Asked, Install, Go, Quiet, HasRt, disk
<1> QED BY <1>1, <1>2, <1>3, <1>4, <1>5 DEF IInv

\* Checks keeps the invariant.
LEMMA ChecksInv ==
  ASSUME IInv, Checks
  PROVE  IInv'
<1>1. TypeOK'
  <2>1. PICK fsr \in BOOLEAN, loader \in BOOLEAN : run' = [run EXCEPT !.fsr = fsr, !.loader =
         loader]
    BY DEF Checks
  <2>2. run' \in Locals
    BY <2>1 DEF IInv, TypeOK, Locals
  <2> QED BY <2>2 DEF IInv, TypeOK, Checks, Quiet, Phases, disk, Go
<1>2. ByCommand' /\ GameAsItWas'
  BY DEF IInv, TypeOK, ByCommand, GameAsItWas, Checks, Libraries, Locals, Phases, Late,
         Wheel, At, Go, Quiet, Commands, Consents, Exits, disk
<1>3. Established'
  BY DEF IInv, TypeOK, Established, ByCommand, GameAsItWas, Checks, Libraries, Locals,
         Phases, Asked, Install, Late, Wheel, At, Go, Quiet, Commands, Consents, Exits,
         HasRt, disk
<1>4. RuntimeFound' /\ WheelInv' /\ FilledVenvIsRecognised'
  BY DEF IInv, TypeOK, RuntimeFound, WheelInv, FilledVenvIsRecognised, Checks, Libraries,
         Locals, Phases, HasRt, Kind, Wheel, At, Go, Quiet, Commands, Consents, Exits, disk
<1>5. ExitTellsTruth'
  BY DEF IInv, TypeOK, ExitTellsTruth, GameAsItWas, ByCommand, Established, Checks,
         Libraries, Locals, Phases, At, Late, Wheel, Asked, Install, Go, Quiet, Commands,
         Consents, Exits, HasRt, disk
<1> QED BY <1>1, <1>2, <1>3, <1>4, <1>5 DEF IInv

\* Runner keeps the invariant.
LEMMA RunnerInv ==
  ASSUME IInv, Runner
  PROVE  IInv'
<1>1. TypeOK'
  BY BoundAssumption DEF IInv, TypeOK, Runner, Grant, Locals, Phases, At, Go, Install,
         Quiet, Commands, Consents, Exits, disk
<1>2. ByCommand' /\ GameAsItWas'
  BY DEF IInv, TypeOK, ByCommand, GameAsItWas, Runner, Grant, Libraries, Locals, Phases,
         Late, Wheel, At, Go, Install, Quiet, Commands, Consents, Exits, disk
<1>3. Established'
  BY DEF IInv, TypeOK, Established, ByCommand, GameAsItWas, Runner, Grant, Libraries,
         Locals, Phases, Asked, Install, Late, Wheel, At, Go, Quiet, Commands, Consents,
         Exits, HasRt,
         disk
<1>4. RuntimeFound' /\ WheelInv' /\ FilledVenvIsRecognised'
  BY DEF IInv, TypeOK, RuntimeFound, WheelInv, FilledVenvIsRecognised, Runner, Grant,
         Libraries, Locals, Phases, HasRt, Kind, Wheel, At, Go, Install, Quiet, Commands,
         Consents, Exits,
         disk
<1>5. ExitTellsTruth'
  BY DEF IInv, TypeOK, ExitTellsTruth, GameAsItWas, ByCommand, Established, Runner, Grant,
         Libraries, Locals, Phases, At, Late, Wheel, Asked, Install, Go, Quiet, Commands,
         Consents, Exits, HasRt, disk
<1> QED BY <1>1, <1>2, <1>3, <1>4, <1>5 DEF IInv

\* Upscaler keeps the invariant.
LEMMA UpscalerInv ==
  ASSUME IInv, Upscaler
  PROVE  IInv'
<1>1. TypeOK'
  BY BoundAssumption DEF IInv, TypeOK, Upscaler, Grant, AsksFsr, Locals, Phases, At, Go,
         Install, Quiet, Commands, Consents, Exits, disk
<1>2. ByCommand' /\ GameAsItWas'
  BY DEF IInv, TypeOK, ByCommand, GameAsItWas, Upscaler, Grant, AsksFsr, Libraries, Locals,
         Phases, Late, Wheel, At, Go, Install, Quiet, Commands, Consents, Exits, disk
<1>3. Established'
  BY DEF IInv, TypeOK, Established, ByCommand, GameAsItWas, Upscaler, Grant, AsksFsr,
         Libraries, Locals, Phases, Asked, Install, Late, Wheel, At, Go, Quiet, Commands,
         Consents, Exits, HasRt, disk
<1>4. RuntimeFound' /\ WheelInv' /\ FilledVenvIsRecognised'
  BY DEF IInv, TypeOK, RuntimeFound, WheelInv, FilledVenvIsRecognised, Upscaler, Grant,
         AsksFsr, Libraries, Locals, Phases, HasRt, Kind, Wheel, At, Go, Install, Quiet,
         Commands, Consents, Exits, disk
<1>5. ExitTellsTruth'
  BY DEF IInv, TypeOK, ExitTellsTruth, GameAsItWas, ByCommand, Established, Upscaler, Grant,
         AsksFsr, Libraries, Locals, Phases, At, Late, Wheel, Asked, Install, Go, Quiet,
         Commands, Consents, Exits, HasRt, disk
<1> QED BY <1>1, <1>2, <1>3, <1>4, <1>5 DEF IInv

\* Loader keeps the invariant.
LEMMA LoaderInv ==
  ASSUME IInv, Loader
  PROVE  IInv'
<1>1. TypeOK'
  BY BoundAssumption DEF IInv, TypeOK, Loader, Grant, Locals, Phases, At, Go, Quiet,
         Commands, Consents, Exits, disk
<1>2. ByCommand' /\ GameAsItWas'
  BY DEF IInv, TypeOK, ByCommand, GameAsItWas, Loader, Grant, Libraries, Locals, Phases,
         Late, Wheel, At, Go, Quiet, Commands, Consents, Exits, disk
<1>3. Established'
  BY DEF IInv, TypeOK, Established, ByCommand, GameAsItWas, Loader, Grant, Libraries,
         Locals, Phases, Asked, Install, Late, Wheel, At, Go, Quiet, Commands, Consents,
         Exits, HasRt,
         disk
<1>4. RuntimeFound' /\ WheelInv' /\ FilledVenvIsRecognised'
  BY DEF IInv, TypeOK, RuntimeFound, WheelInv, FilledVenvIsRecognised, Loader, Grant,
         Libraries, Locals, Phases, HasRt, Kind, Wheel, At, Go, Quiet, Commands, Consents,
         Exits, disk
<1>5. ExitTellsTruth'
  BY DEF IInv, TypeOK, ExitTellsTruth, GameAsItWas, ByCommand, Established, Loader, Grant,
         Libraries, Locals, Phases, At, Late, Wheel, Asked, Install, Go, Quiet, Commands,
         Consents, Exits, HasRt, disk
<1> QED BY <1>1, <1>2, <1>3, <1>4, <1>5 DEF IInv

\* Risk keeps the invariant.
LEMMA RiskInv ==
  ASSUME IInv, Risk
  PROVE  IInv'
<1>1. TypeOK'
  BY BoundAssumption DEF IInv, TypeOK, Risk, Grant, Locals, Phases, At, Go, Quiet, Commands,
         Consents, Exits, disk
<1>2. ByCommand' /\ GameAsItWas'
  BY DEF IInv, TypeOK, ByCommand, GameAsItWas, Risk, Grant, Libraries, Locals, Phases, Late,
         Wheel, At, Go, Quiet, Commands, Consents, Exits, disk
<1>3. Established'
  BY DEF IInv, TypeOK, Established, ByCommand, GameAsItWas, Risk, Grant, Libraries, Locals,
         Phases, Asked, Install, Late, Wheel, At, Go, Quiet, Commands, Consents, Exits,
         HasRt,
         disk
<1>4. RuntimeFound' /\ WheelInv' /\ FilledVenvIsRecognised'
  BY DEF IInv, TypeOK, RuntimeFound, WheelInv, FilledVenvIsRecognised, Risk, Grant,
         Libraries, Locals, Phases, HasRt, Kind, Wheel, At, Go, Quiet, Commands, Consents,
         Exits, disk
<1>5. ExitTellsTruth'
  BY DEF IInv, TypeOK, ExitTellsTruth, GameAsItWas, ByCommand, Established, Risk, Grant,
         Libraries, Locals, Phases, At, Late, Wheel, Asked, Install, Go, Quiet, Commands,
         Consents, Exits, HasRt, disk
<1> QED BY <1>1, <1>2, <1>3, <1>4, <1>5 DEF IInv

\* UseCandidate keeps the invariant.
LEMMA UseCandidateInv ==
  ASSUME IInv, NEW l \in Sources, UseCandidate(l)
  PROVE  IInv'
<1>1. TypeOK'
  BY BoundAssumption DEF IInv, TypeOK, UseCandidate, NextIs, Untried, Candidates,
         NativeProbe, ReadsOnly, Kind, Locals, Sources, Phases, At, Go, Quiet, Commands,
         Consents, Exits, disk
<1>2. ByCommand' /\ GameAsItWas'
  BY DEF IInv, TypeOK, ByCommand, GameAsItWas, UseCandidate, NextIs, Untried, Candidates,
         NativeProbe, ReadsOnly, Kind, Libraries, Locals, Phases, Late, Wheel, At, Go,
         Quiet, Commands, Consents, Exits, disk
<1>3. Established'
  BY DEF IInv, TypeOK, Established, ByCommand, GameAsItWas, UseCandidate, NextIs, Untried,
         Candidates, NativeProbe, ReadsOnly, Kind, Libraries, Locals, Phases, Asked,
         Install, Late, Wheel, At, Go, Quiet, Commands, Consents, Exits, HasRt, disk
<1>4. RuntimeFound' /\ WheelInv' /\ FilledVenvIsRecognised'
  BY DEF IInv, TypeOK, RuntimeFound, WheelInv, FilledVenvIsRecognised, UseCandidate, NextIs,
         Untried, Candidates, NativeProbe, ReadsOnly, Kind, Libraries, Locals, Phases,
         HasRt, Wheel, At, Go, Quiet, Commands, Consents, Exits, disk
<1>5. ExitTellsTruth'
  BY DEF IInv, TypeOK, ExitTellsTruth, GameAsItWas, ByCommand, Established, UseCandidate,
         NextIs, Untried, Candidates, NativeProbe, ReadsOnly, Kind, Libraries, Locals,
         Phases, At, Late, Wheel, Asked, Install, Go, Quiet, Commands, Consents, Exits,
         HasRt, disk
<1> QED BY <1>1, <1>2, <1>3, <1>4, <1>5 DEF IInv

\* SkipCandidate keeps the invariant.
LEMMA SkipCandidateInv ==
  ASSUME IInv, NEW l \in Sources, SkipCandidate(l)
  PROVE  IInv'
<1>1. TypeOK'
  BY BoundAssumption DEF IInv, TypeOK, SkipCandidate, NextIs, Untried, Candidates, Kind,
         Locals, Sources, Phases, At, Go, Quiet, Commands, Consents, Exits, disk
<1>2. ByCommand' /\ GameAsItWas'
  BY DEF IInv, TypeOK, ByCommand, GameAsItWas, SkipCandidate, NextIs, Untried, Candidates,
         Kind, Libraries, Locals, Phases, Late, Wheel, At, Go, Quiet, Commands, Consents,
         Exits, disk
<1>3. Established'
  BY DEF IInv, TypeOK, Established, ByCommand, GameAsItWas, SkipCandidate, NextIs, Untried,
         Candidates, Kind, Libraries, Locals, Phases, Asked, Install, Late, Wheel, At, Go,
         Quiet, Commands, Consents, Exits, HasRt, disk
<1>4. RuntimeFound' /\ WheelInv' /\ FilledVenvIsRecognised'
  BY DEF IInv, TypeOK, RuntimeFound, WheelInv, FilledVenvIsRecognised, SkipCandidate,
         NextIs, Untried, Candidates, Kind, Libraries, Locals, Phases, HasRt, Wheel, At, Go,
         Quiet, Commands, Consents, Exits, disk
<1>5. ExitTellsTruth'
  BY DEF IInv, TypeOK, ExitTellsTruth, GameAsItWas, ByCommand, Established, SkipCandidate,
         NextIs, Untried, Candidates, Kind, Libraries, Locals, Phases, At, Late, Wheel,
         Asked, Install, Go, Quiet, Commands, Consents, Exits, HasRt, disk
<1> QED BY <1>1, <1>2, <1>3, <1>4, <1>5 DEF IInv

\* AskWheel keeps the invariant.
LEMMA AskWheelInv ==
  ASSUME IInv, AskWheel
  PROVE  IInv'
<1>1. TypeOK'
  <2>1. run' \in Locals
    BY DEF IInv, TypeOK, AskWheel, Locals, Consents
  <2> QED BY <2>1 DEF IInv, TypeOK, AskWheel, Quiet, disk
<1>2. ByCommand' /\ GameAsItWas'
  BY DEF IInv, TypeOK, ByCommand, GameAsItWas, AskWheel, ReadsOnly, Kind, Libraries, Locals,
         Phases, Late, Wheel, At, Go, Quiet, Commands, Consents, Exits, disk
<1>3. Established'
  BY DEF IInv, TypeOK, Established, ByCommand, GameAsItWas, AskWheel, ReadsOnly, Kind,
         Libraries, Locals, Phases, Asked, Install, Late, Wheel, At, Go, Quiet, Commands,
         Consents, Exits, HasRt, disk
<1>4. RuntimeFound' /\ WheelInv' /\ FilledVenvIsRecognised'
  BY DEF IInv, TypeOK, RuntimeFound, WheelInv, FilledVenvIsRecognised, AskWheel, ReadsOnly,
         Kind, Libraries, Locals, Phases, HasRt, Wheel, At, Go, Quiet, Commands, Consents,
         Exits, disk
<1>5. ExitTellsTruth'
  BY DEF IInv, TypeOK, ExitTellsTruth, GameAsItWas, ByCommand, Established, AskWheel,
         ReadsOnly, Kind, Libraries, Locals, Phases, At, Late, Wheel, Asked, Install, Go,
         Quiet, Commands, Consents, Exits, HasRt, disk
<1> QED BY <1>1, <1>2, <1>3, <1>4, <1>5 DEF IInv

\* AllowWheel keeps the invariant.
LEMMA AllowWheelInv ==
  ASSUME IInv, AllowWheel
  PROVE  IInv'
<1>1. TypeOK'
  BY BoundAssumption DEF IInv, TypeOK, AllowWheel, ReadsOnly, MayDownload, Untried,
         Candidates, Kind, Grant, Locals, Sources, Phases, At, Go, Quiet, Commands,
         Consents, Exits, disk
<1>2. ByCommand' /\ GameAsItWas'
  BY DEF IInv, TypeOK, ByCommand, GameAsItWas, AllowWheel, ReadsOnly, MayDownload, Untried,
         Candidates, Kind, Grant, Libraries, Locals, Phases, Late, Wheel, At, Go, Quiet,
         Commands, Consents, Exits, disk
<1>3. Established'
  BY DEF IInv, TypeOK, Established, ByCommand, GameAsItWas, AllowWheel, ReadsOnly,
         MayDownload, Untried, Candidates, Kind, Grant, Libraries, Locals, Phases, Asked,
         Install, Late, Wheel, At, Go, Quiet, Commands, Consents, Exits, HasRt, disk
<1>4. RuntimeFound' /\ WheelInv' /\ FilledVenvIsRecognised'
  BY DEF IInv, TypeOK, RuntimeFound, WheelInv, FilledVenvIsRecognised, AllowWheel,
         ReadsOnly, MayDownload, Untried, Candidates, Kind, Grant, Libraries, Locals,
         Phases, HasRt, Wheel, At, Go, Quiet, Commands, Consents, Exits, disk
<1>5. ExitTellsTruth'
  BY DEF IInv, TypeOK, ExitTellsTruth, GameAsItWas, ByCommand, Established, AllowWheel,
         ReadsOnly, MayDownload, Untried, Candidates, Kind, Grant, Libraries, Locals,
         Phases, At, Late, Wheel, Asked, Install, Go, Quiet, Commands, Consents, Exits,
         HasRt, disk
<1> QED BY <1>1, <1>2, <1>3, <1>4, <1>5 DEF IInv

\* CheckVenv keeps the invariant.
LEMMA CheckVenvInv ==
  ASSUME IInv, CheckVenv
  PROVE  IInv'
<1>1. TypeOK'
  <2>1. run' \in Locals /\ pc' \in Phases
    BY ExitTyped DEF IInv, TypeOK, CheckVenv, Created, OursToFill, Exits, Phases, Quiet, Go
  <2> QED BY <2>1, BoundAssumption
      DEF IInv, TypeOK, CheckVenv, Created, OursToFill, disk, World, Quiet, At
<1>2. ByCommand' /\ GameAsItWas'
  BY DEF IInv, ByCommand, GameAsItWas, CheckVenv, Created, OursToFill, Exit, Blank, Late,
         Wheel, At, Go, World
<1>3. Established'
  BY DEF IInv, Established, ByCommand, GameAsItWas, CheckVenv, Created, OursToFill, Exit,
         Blank, Asked, Install, Late, Wheel, At, Go, World, HasRt
<1>4. RuntimeFound' /\ WheelInv' /\ FilledVenvIsRecognised'
  <2>1. RuntimeFound' /\ WheelInv'
    BY DEF IInv, RuntimeFound, WheelInv, CheckVenv, Created, OursToFill, Exit, Blank, HasRt,
           Kind, Wheel, At, Go, World
  <2>2. FilledVenvIsRecognised'
    <3>1. CASE OursToFill
      BY <3>1 DEF IInv, FilledVenvIsRecognised, CheckVenv, At, Go
    <3>2. CASE ~OursToFill
      <4>1. venv # "foreign" /\ Umask # "0002" => venv = "bare"
        BY <3>2, UmaskAssumption DEF IInv, TypeOK, OursToFill
      <4>2. pc' = "idle" /\ UNCHANGED <<venv, lib>>
        BY <3>2 DEF CheckVenv, Exit, Go
      <4> QED BY <4>1, <4>2 DEF IInv, FilledVenvIsRecognised, At
    <3> QED BY <3>1, <3>2
  <2> QED BY <2>1, <2>2
<1>5. ExitTellsTruth'
  BY DEF IInv, ExitTellsTruth, GameAsItWas, ByCommand, Established, CheckVenv, Created,
         OursToFill, Exit, Blank, At, Late, Wheel, Asked, Install, Go, World, HasRt
<1> QED BY <1>1, <1>2, <1>3, <1>4, <1>5 DEF IInv

\* Download keeps the invariant.
LEMMA DownloadInv ==
  ASSUME IInv, Download
  PROVE  IInv'
<1>1. TypeOK'
  BY BoundAssumption DEF IInv, TypeOK, Download, Phases, At, Go, Quiet, disk
<1>2. ByCommand' /\ GameAsItWas'
  BY DEF IInv, ByCommand, GameAsItWas, Download, Late, Wheel, At, Go, Quiet, disk
<1>3. Established'
  BY DEF IInv, Established, ByCommand, GameAsItWas, Download, Asked, Install, Late, Wheel,
         At, Go, Quiet, HasRt, disk
<1>4. RuntimeFound' /\ WheelInv' /\ FilledVenvIsRecognised'
  BY DEF IInv, RuntimeFound, WheelInv, FilledVenvIsRecognised, Download, HasRt, Kind, Wheel,
         At, Go, Quiet, disk
<1>5. ExitTellsTruth'
  BY DEF IInv, ExitTellsTruth, GameAsItWas, ByCommand, Established, Download, At, Late,
         Wheel, Asked, Install, Go, Quiet, HasRt, disk
<1> QED BY <1>1, <1>2, <1>3, <1>4, <1>5 DEF IInv

\* MakeVenv keeps the invariant.
LEMMA MakeVenvInv ==
  ASSUME IInv, MakeVenv
  PROVE  IInv'
<1>1. TypeOK'
  BY BoundAssumption DEF IInv, TypeOK, MakeVenv, Phases, At, Go, World
<1>2. ByCommand' /\ GameAsItWas'
  BY DEF IInv, ByCommand, GameAsItWas, MakeVenv, Late, Wheel, At, Go, World
<1>3. Established'
  BY DEF IInv, Established, ByCommand, GameAsItWas, MakeVenv, Asked, Install, Late, Wheel,
         At, Go, World, HasRt
<1>4. RuntimeFound' /\ WheelInv' /\ FilledVenvIsRecognised'
  BY DEF IInv, RuntimeFound, WheelInv, FilledVenvIsRecognised, MakeVenv, HasRt, Kind, Wheel,
         At, Go, World
<1>5. ExitTellsTruth'
  BY DEF IInv, ExitTellsTruth, GameAsItWas, ByCommand, Established, MakeVenv, At, Late,
         Wheel, Asked, Install, Go, World, HasRt
<1> QED BY <1>1, <1>2, <1>3, <1>4, <1>5 DEF IInv

\* MarkVenv keeps the invariant.
LEMMA MarkVenvInv ==
  ASSUME IInv, MarkVenv
  PROVE  IInv'
<1>1. TypeOK'
  BY BoundAssumption DEF IInv, TypeOK, MarkVenv, Marked, Phases, At, Go, World
<1>2. ByCommand' /\ GameAsItWas'
  BY DEF IInv, ByCommand, GameAsItWas, MarkVenv, Marked, Late, Wheel, At, Go, World
<1>3. Established'
  BY DEF IInv, Established, ByCommand, GameAsItWas, MarkVenv, Marked, Asked, Install, Late,
         Wheel, At, Go, World, HasRt
<1>4. RuntimeFound' /\ WheelInv' /\ FilledVenvIsRecognised'
  BY DEF IInv, RuntimeFound, WheelInv, FilledVenvIsRecognised, MarkVenv, Marked, HasRt,
         Kind, Wheel, At, Go, World
<1>5. ExitTellsTruth'
  BY DEF IInv, ExitTellsTruth, GameAsItWas, ByCommand, Established, MarkVenv, Marked, At,
         Late, Wheel, Asked, Install, Go, World, HasRt
<1> QED BY <1>1, <1>2, <1>3, <1>4, <1>5 DEF IInv

\* StartPip keeps the invariant.
LEMMA StartPipInv ==
  ASSUME IInv, StartPip
  PROVE  IInv'
<1>1. TypeOK'
  BY BoundAssumption DEF IInv, TypeOK, StartPip, Libraries, Phases, At, Go, World
<1>2. ByCommand' /\ GameAsItWas'
  BY DEF IInv, ByCommand, GameAsItWas, StartPip, Late, Wheel, At, Go, World
<1>3. Established'
  BY DEF IInv, Established, ByCommand, GameAsItWas, StartPip, Asked, Install, Late, Wheel,
         At, Go, World, HasRt
<1>4. RuntimeFound' /\ WheelInv' /\ FilledVenvIsRecognised'
  BY DEF IInv, RuntimeFound, WheelInv, FilledVenvIsRecognised, StartPip, HasRt, Kind, Wheel,
         At, Go, World
<1>5. ExitTellsTruth'
  BY DEF IInv, ExitTellsTruth, GameAsItWas, ByCommand, Established, StartPip, At, Late,
         Wheel, Asked, Install, Go, World, HasRt
<1> QED BY <1>1, <1>2, <1>3, <1>4, <1>5 DEF IInv

\* EndPip keeps the invariant.
LEMMA EndPipInv ==
  ASSUME IInv, EndPip
  PROVE  IInv'
<1>1. TypeOK'
  BY BoundAssumption DEF IInv, TypeOK, EndPip, Libraries, Phases, At, Go, World
<1>2. ByCommand' /\ GameAsItWas'
  BY DEF IInv, ByCommand, GameAsItWas, EndPip, Late, Wheel, At, Go, World
<1>3. Established'
  BY DEF IInv, Established, ByCommand, GameAsItWas, EndPip, Asked, Install, Late, Wheel, At,
         Go, World, HasRt
<1>4. RuntimeFound' /\ WheelInv' /\ FilledVenvIsRecognised'
  BY DEF IInv, RuntimeFound, WheelInv, FilledVenvIsRecognised, EndPip, HasRt, Kind, Wheel,
         At, Go, World
<1>5. ExitTellsTruth'
  BY DEF IInv, ExitTellsTruth, GameAsItWas, ByCommand, Established, EndPip, At, Late, Wheel,
         Asked, Install, Go, World, HasRt
<1> QED BY <1>1, <1>2, <1>3, <1>4, <1>5 DEF IInv

\* ProbeWheel keeps the invariant.
LEMMA ProbeWheelInv ==
  ASSUME IInv, ProbeWheel
  PROVE  IInv'
<1>1. TypeOK'
  BY BoundAssumption DEF IInv, TypeOK, ProbeWheel, NativeProbe, Kind, Locals, Sources,
         Phases, At, Go, Quiet, Commands, Consents, Exits, disk
<1>2. ByCommand' /\ GameAsItWas'
  BY DEF IInv, TypeOK, ByCommand, GameAsItWas, ProbeWheel, NativeProbe, Kind, Libraries,
         Locals, Phases, Late, Wheel, At, Go, Quiet, Commands, Consents, Exits, disk
<1>3. Established'
  BY DEF IInv, TypeOK, Established, ByCommand, GameAsItWas, ProbeWheel, NativeProbe, Kind,
         Libraries, Locals, Phases, Asked, Install, Late, Wheel, At, Go, Quiet, Commands,
         Consents, Exits, HasRt, disk
<1>4. RuntimeFound' /\ WheelInv' /\ FilledVenvIsRecognised'
  BY DEF IInv, TypeOK, RuntimeFound, WheelInv, FilledVenvIsRecognised, ProbeWheel,
         NativeProbe, Kind, Libraries, Locals, Phases, HasRt, Wheel, At, Go, Quiet,
         Commands, Consents, Exits, disk
<1>5. ExitTellsTruth'
  BY DEF IInv, TypeOK, ExitTellsTruth, GameAsItWas, ByCommand, Established, ProbeWheel,
         NativeProbe, Kind, Libraries, Locals, Phases, At, Late, Wheel, Asked, Install, Go,
         Quiet, Commands, Consents, Exits, HasRt, disk
<1> QED BY <1>1, <1>2, <1>3, <1>4, <1>5 DEF IInv

\* Record keeps the invariant.
LEMMA RecordInv ==
  ASSUME IInv, Record
  PROVE  IInv'
<1>1. TypeOK'
  <2>1. run' \in Locals /\ pc' \in Phases
    BY ExitTyped DEF IInv, TypeOK, Record, Created, Exits, Phases, Quiet, Go
  <2> QED BY <2>1, BoundAssumption
      DEF IInv, TypeOK, Record, Created, disk, World, Quiet, At
<1>2. ByCommand' /\ GameAsItWas'
  BY DEF IInv, ByCommand, GameAsItWas, Record, Created, Exit, Blank, Late, Wheel, At, Go,
         World
<1>3. Established'
  BY DEF IInv, Established, ByCommand, GameAsItWas, Record, Created, Exit, Blank, Asked,
         Install, Late, Wheel, At, Go, World, HasRt
<1>4. RuntimeFound' /\ WheelInv' /\ FilledVenvIsRecognised'
  BY DEF IInv, RuntimeFound, WheelInv, FilledVenvIsRecognised, Record, Created, Exit, Blank,
         HasRt, Kind, Wheel, At, Go, World
<1>5. ExitTellsTruth'
  BY DEF IInv, ExitTellsTruth, GameAsItWas, ByCommand, Established, Record, Created, Exit,
         Blank, At, Late, Wheel, Asked, Install, Go, World, HasRt
<1> QED BY <1>1, <1>2, <1>3, <1>4, <1>5 DEF IInv

\* SelectGpu keeps the invariant.
LEMMA SelectGpuInv ==
  ASSUME IInv, SelectGpu
  PROVE  IInv'
<1>1. TypeOK'
  <2>1. run' \in Locals /\ pc' \in Phases
    BY ExitTyped DEF IInv, TypeOK, SelectGpu, Exits, Phases, Quiet, Go
  <2> QED BY <2>1, BoundAssumption
      DEF IInv, TypeOK, SelectGpu, disk, World, Quiet, At
<1>2. ByCommand' /\ GameAsItWas'
  BY DEF IInv, ByCommand, GameAsItWas, SelectGpu, Exit, Blank, Late, Wheel, At, Go, Quiet,
         disk
<1>3. Established'
  BY DEF IInv, Established, ByCommand, GameAsItWas, SelectGpu, Exit, Blank, Asked, Install,
         Late, Wheel, At, Go, Quiet, HasRt, disk
<1>4. RuntimeFound' /\ WheelInv' /\ FilledVenvIsRecognised'
  BY DEF IInv, RuntimeFound, WheelInv, FilledVenvIsRecognised, SelectGpu, Exit, Blank,
         HasRt, Kind, Wheel, At, Go, Quiet, disk
<1>5. ExitTellsTruth'
  BY DEF IInv, ExitTellsTruth, GameAsItWas, ByCommand, Established, SelectGpu, Exit, Blank,
         At, Late, Wheel, Asked, Install, Go, Quiet, HasRt, disk
<1> QED BY <1>1, <1>2, <1>3, <1>4, <1>5 DEF IInv

\* Setup keeps the invariant.
LEMMA SetupInv ==
  ASSUME IInv, Setup
  PROVE  IInv'
<1>1. TypeOK'
  <2>1. run' \in Locals
    BY DEF IInv, TypeOK, Locals, Setup
  <2> QED BY <2>1 DEF IInv, TypeOK, Setup, Quiet, Phases, disk, Go
<1>2. ByCommand' /\ GameAsItWas'
  BY DEF IInv, TypeOK, ByCommand, GameAsItWas, Setup, Libraries, Locals, Phases, Late,
         Wheel, At, Go, Quiet, Commands, Consents, Exits, disk
<1>3. Established'
  BY DEF IInv, TypeOK, Established, ByCommand, GameAsItWas, Setup, Libraries, Locals,
         Phases, Asked, Install, Late, Wheel, At, Go, Quiet, Commands, Consents, Exits,
         HasRt, disk
<1>4. RuntimeFound' /\ WheelInv' /\ FilledVenvIsRecognised'
  BY DEF IInv, TypeOK, RuntimeFound, WheelInv, FilledVenvIsRecognised, Setup, Libraries,
         Locals, Phases, HasRt, Kind, Wheel, At, Go, Quiet, Commands, Consents, Exits, disk
<1>5. ExitTellsTruth'
  BY DEF IInv, TypeOK, ExitTellsTruth, GameAsItWas, ByCommand, Established, Setup,
         Libraries, Locals, Phases, At, Late, Wheel, Asked, Install, Go, Quiet, Commands,
         Consents, Exits, HasRt, disk
<1> QED BY <1>1, <1>2, <1>3, <1>4, <1>5 DEF IInv

\* Model keeps the invariant.
LEMMA ModelInv ==
  ASSUME IInv, Model
  PROVE  IInv'
<1>1. TypeOK'
  <2>1. run' \in Locals
    BY DEF IInv, TypeOK, Locals, Model
  <2> QED BY <2>1 DEF IInv, TypeOK, Model, MayConvert, Created, World, Phases, Go
<1>2. ByCommand' /\ GameAsItWas'
  BY DEF IInv, TypeOK, ByCommand, GameAsItWas, Model, MayConvert, Created, Libraries,
         Locals, Phases, Late, Wheel, At, Go, World, Commands, Consents, Exits
<1>3. Established'
  BY DEF IInv, TypeOK, Established, ByCommand, GameAsItWas, Model, MayConvert, Created,
         Libraries, Locals, Phases, Asked, Install, Late, Wheel, At, Go, World, Commands,
         Consents, Exits, HasRt
<1>4. RuntimeFound' /\ WheelInv' /\ FilledVenvIsRecognised'
  BY DEF IInv, TypeOK, RuntimeFound, WheelInv, FilledVenvIsRecognised, Model, MayConvert,
         Created, Libraries, Locals, Phases, HasRt, Kind, Wheel, At, Go, World, Commands,
         Consents, Exits
<1>5. ExitTellsTruth'
  BY DEF IInv, TypeOK, ExitTellsTruth, GameAsItWas, ByCommand, Established, Model,
         MayConvert, Created, Libraries, Locals, Phases, At, Late, Wheel, Asked, Install,
         Go, World, Commands, Consents, Exits, HasRt
<1> QED BY <1>1, <1>2, <1>3, <1>4, <1>5 DEF IInv

\* Validate keeps the invariant.
LEMMA ValidateInv ==
  ASSUME IInv, Validate
  PROVE  IInv'
<1>1. TypeOK'
  <2>1. run' \in Locals /\ pc' \in Phases
    BY ExitTyped DEF IInv, TypeOK, Validate, Acceptable, Exits, Phases, Quiet, Go
  <2> QED BY <2>1, BoundAssumption
      DEF IInv, TypeOK, Validate, Acceptable, disk, World, Quiet, At
<1>2. ByCommand' /\ GameAsItWas'
  BY DEF IInv, ByCommand, GameAsItWas, Validate, Acceptable, Exit, Blank, Late, Wheel, At,
         Go, Quiet, disk
<1>3. Established'
  BY DEF IInv, Established, ByCommand, GameAsItWas, Validate, Acceptable, Exit, Blank,
         Asked, Install, Late, Wheel, At, Go, Quiet, HasRt, disk
<1>4. RuntimeFound' /\ WheelInv' /\ FilledVenvIsRecognised'
  BY DEF IInv, RuntimeFound, WheelInv, FilledVenvIsRecognised, Validate, Acceptable, Exit,
         Blank, HasRt, Kind, Wheel, At, Go, Quiet, disk
<1>5. ExitTellsTruth'
  BY DEF IInv, ExitTellsTruth, GameAsItWas, ByCommand, Established, Validate, Acceptable,
         Exit, Blank, At, Late, Wheel, Asked, Install, Go, Quiet, HasRt, disk
<1> QED BY <1>1, <1>2, <1>3, <1>4, <1>5 DEF IInv

\* LaunchLine keeps the invariant.
LEMMA LaunchLineInv ==
  ASSUME IInv, LaunchLine
  PROVE  IInv'
<1>1. TypeOK'
  BY BoundAssumption DEF IInv, TypeOK, LaunchLine, Phases, At, Go, Quiet, disk
<1>2. ByCommand' /\ GameAsItWas'
  BY DEF IInv, ByCommand, GameAsItWas, LaunchLine, Late, Wheel, At, Go, Quiet, disk
<1>3. Established'
  BY DEF IInv, Established, ByCommand, GameAsItWas, LaunchLine, Asked, Install, Late, Wheel,
         At, Go, Quiet, HasRt, disk
<1>4. RuntimeFound' /\ WheelInv' /\ FilledVenvIsRecognised'
  BY DEF IInv, RuntimeFound, WheelInv, FilledVenvIsRecognised, LaunchLine, HasRt, Kind,
         Wheel, At, Go, Quiet, disk
<1>5. ExitTellsTruth'
  BY DEF IInv, ExitTellsTruth, GameAsItWas, ByCommand, Established, LaunchLine, At, Late,
         Wheel, Asked, Install, Go, Quiet, HasRt, disk
<1> QED BY <1>1, <1>2, <1>3, <1>4, <1>5 DEF IInv

\* Conflicts keeps the invariant.
LEMMA ConflictsInv ==
  ASSUME IInv, Conflicts
  PROVE  IInv'
<1>1. TypeOK'
  BY BoundAssumption DEF IInv, TypeOK, Conflicts, Grant, Conflicting, Locals, Phases, At,
         Go, Quiet, Commands, Consents, Exits, disk
<1>2. ByCommand' /\ GameAsItWas'
  BY DEF IInv, TypeOK, ByCommand, GameAsItWas, Conflicts, Grant, Conflicting, Libraries,
         Locals, Phases, Late, Wheel, At, Go, Quiet, Commands, Consents, Exits, disk
<1>3. Established'
  BY DEF IInv, TypeOK, Established, ByCommand, GameAsItWas, Conflicts, Grant, Conflicting,
         Libraries, Locals, Phases, Asked, Install, Late, Wheel, At, Go, Quiet, Commands,
         Consents, Exits, HasRt, disk
<1>4. RuntimeFound' /\ WheelInv' /\ FilledVenvIsRecognised'
  BY DEF IInv, TypeOK, RuntimeFound, WheelInv, FilledVenvIsRecognised, Conflicts, Grant,
         Conflicting, Libraries, Locals, Phases, HasRt, Kind, Wheel, At, Go, Quiet,
         Commands, Consents, Exits, disk
<1>5. ExitTellsTruth'
  BY DEF IInv, TypeOK, ExitTellsTruth, GameAsItWas, ByCommand, Established, Conflicts,
         Grant, Conflicting, Libraries, Locals, Phases, At, Late, Wheel, Asked, Install, Go,
         Quiet, Commands, Consents, Exits, HasRt, disk
<1> QED BY <1>1, <1>2, <1>3, <1>4, <1>5 DEF IInv

\* Deploy keeps the invariant.
LEMMA DeployInv ==
  ASSUME IInv, Deploy
  PROVE  IInv'
<1>1. TypeOK'
  <2>1. run' \in Locals /\ pc' \in Phases
    BY ExitTyped DEF IInv, TypeOK, Deploy, MayDeploy, Exits, Phases, Quiet, Go
  <2> QED BY <2>1, BoundAssumption
      DEF IInv, TypeOK, Deploy, MayDeploy, disk, World, Quiet, At
<1>2. ByCommand' /\ GameAsItWas'
  BY DEF IInv, TypeOK, ByCommand, GameAsItWas, Deploy, MayDeploy, Exit, Blank, Libraries,
         Locals, Phases, Late, Wheel, At, Go, World, Commands, Consents, Exits
<1>3. Established'
  BY DEF IInv, TypeOK, Established, ByCommand, GameAsItWas, Deploy, MayDeploy, Exit, Blank,
         Libraries, Locals, Phases, Asked, Install, Late, Wheel, At, Go, World, Commands,
         Consents, Exits, HasRt
<1>4. RuntimeFound' /\ WheelInv' /\ FilledVenvIsRecognised'
  <2>1. RuntimeFound' /\ WheelInv'
    BY DEF IInv, TypeOK, RuntimeFound, WheelInv, Deploy, MayDeploy, Exit, Blank, Libraries,
           Locals, Phases, HasRt, Kind, Wheel, At, Go, World, Commands, Consents, Exits
  <2>2. FilledVenvIsRecognised'
    BY DEF IInv, FilledVenvIsRecognised, Deploy, Exit, Blank, At, Go
  <2> QED BY <2>1, <2>2
<1>5. ExitTellsTruth'
  <2>1. run.cmd # "uninstall" /\ run.was = game
    BY DEF IInv, ByCommand, GameAsItWas, Deploy, At
  <2>2. CASE game = "installed" /\ Exit("ok") /\ UNCHANGED game
    BY <2>1, <2>2 DEF ExitTellsTruth, Exit, Blank, At, Go
  <2>3. CASE Exit("insecure") /\ UNCHANGED game
    BY <2>1, <2>3 DEF ExitTellsTruth, Exit, Blank, At, Go
  <2>4. CASE Go("deploying")
    BY <2>4 DEF ExitTellsTruth, At, Go
  <2> QED BY <2>2, <2>3, <2>4 DEF Deploy
<1> QED BY <1>1, <1>2, <1>3, <1>4, <1>5 DEF IInv

\* Deployed keeps the invariant.
LEMMA DeployedInv ==
  ASSUME IInv, Deployed
  PROVE  IInv'
<1>1. TypeOK'
  <2>1. run' \in Locals /\ pc' \in Phases
    BY ExitTyped DEF IInv, TypeOK, Deployed, Outcome, Exits, Phases, Quiet, Go
  <2> QED BY <2>1, BoundAssumption
      DEF IInv, TypeOK, Deployed, Outcome, disk, World, Quiet, At
<1>2. ByCommand' /\ GameAsItWas'
  BY DEF IInv, ByCommand, GameAsItWas, Deployed, Outcome, Exit, Blank, Late, Wheel, At,
         World, Go
<1>3. Established'
  BY DEF IInv, Established, ByCommand, GameAsItWas, Deployed, Outcome, Exit, Blank, Asked,
         Install, Late, Wheel, At, World, Go, HasRt
<1>4. RuntimeFound' /\ WheelInv' /\ FilledVenvIsRecognised'
  BY DEF IInv, RuntimeFound, WheelInv, FilledVenvIsRecognised, Deployed, Outcome, Exit,
         Blank, HasRt, Kind, Wheel, At, World, Go
<1>5. ExitTellsTruth'
  BY DEF IInv, ExitTellsTruth, GameAsItWas, ByCommand, Established, Deployed, Outcome, Exit,
         Blank, At, Late, Wheel, Asked, Install, World, Go, HasRt
<1> QED BY <1>1, <1>2, <1>3, <1>4, <1>5 DEF IInv

\* Status keeps the invariant.
LEMMA StatusInv ==
  ASSUME IInv, Status
  PROVE  IInv'
<1>1. TypeOK'
  <2>1. run' \in Locals /\ pc' \in Phases
    BY ExitTyped DEF IInv, TypeOK, Status, Exits, Phases, Quiet, Go
  <2> QED BY <2>1, BoundAssumption
      DEF IInv, TypeOK, Status, disk, World, Quiet, At
<1>2. ByCommand' /\ GameAsItWas'
  BY DEF IInv, ByCommand, GameAsItWas, Status, Exit, Blank, Late, Wheel, At, Quiet, Go, disk
<1>3. Established'
  BY DEF IInv, Established, ByCommand, GameAsItWas, Status, Exit, Blank, Asked, Install,
         Late, Wheel, At, Quiet, Go, HasRt, disk
<1>4. RuntimeFound' /\ WheelInv' /\ FilledVenvIsRecognised'
  BY DEF IInv, RuntimeFound, WheelInv, FilledVenvIsRecognised, Status, Exit, Blank, HasRt,
         Kind, Wheel, At, Quiet, Go, disk
<1>5. ExitTellsTruth'
  BY DEF IInv, ExitTellsTruth, GameAsItWas, ByCommand, Established, Status, Exit, Blank, At,
         Late, Wheel, Asked, Install, Quiet, Go, HasRt, disk
<1> QED BY <1>1, <1>2, <1>3, <1>4, <1>5 DEF IInv

\* Uninstall keeps the invariant.
LEMMA UninstallInv ==
  ASSUME IInv, Uninstall
  PROVE  IInv'
<1>1. TypeOK'
  BY BoundAssumption DEF IInv, TypeOK, Uninstall, Grant, Locals, Phases, At, Go, Quiet,
         Commands, Consents, Exits, disk
<1>2. ByCommand' /\ GameAsItWas'
  BY DEF IInv, TypeOK, ByCommand, GameAsItWas, Uninstall, Grant, Libraries, Locals, Phases,
         Late, Wheel, At, Go, Quiet, Commands, Consents, Exits, disk
<1>3. Established'
  BY DEF IInv, TypeOK, Established, ByCommand, GameAsItWas, Uninstall, Grant, Libraries,
         Locals, Phases, Asked, Install, Late, Wheel, At, Go, Quiet, Commands, Consents,
         Exits, HasRt,
         disk
<1>4. RuntimeFound' /\ WheelInv' /\ FilledVenvIsRecognised'
  BY DEF IInv, TypeOK, RuntimeFound, WheelInv, FilledVenvIsRecognised, Uninstall, Grant,
         Libraries, Locals, Phases, HasRt, Kind, Wheel, At, Go, Quiet, Commands, Consents,
         Exits, disk
<1>5. ExitTellsTruth'
  BY DEF IInv, TypeOK, ExitTellsTruth, GameAsItWas, ByCommand, Established, Uninstall,
         Grant, Libraries, Locals, Phases, At, Late, Wheel, Asked, Install, Go, Quiet,
         Commands, Consents, Exits, HasRt, disk
<1> QED BY <1>1, <1>2, <1>3, <1>4, <1>5 DEF IInv

\* Uninstalled keeps the invariant.
LEMMA UninstalledInv ==
  ASSUME IInv, Uninstalled
  PROVE  IInv'
<1>1. TypeOK'
  <2>1. run' \in Locals /\ pc' \in Phases
    BY ExitTyped DEF IInv, TypeOK, Uninstalled, Exits, Phases, Quiet, Go
  <2> QED BY <2>1, BoundAssumption
      DEF IInv, TypeOK, Uninstalled, disk, World, Quiet, At
<1>2. ByCommand' /\ GameAsItWas'
  BY DEF IInv, ByCommand, GameAsItWas, Uninstalled, Exit, Blank, Late, Wheel, At, World, Go
<1>3. Established'
  BY DEF IInv, Established, ByCommand, GameAsItWas, Uninstalled, Exit, Blank, Asked,
         Install, Late, Wheel, At, World, Go, HasRt
<1>4. RuntimeFound' /\ WheelInv' /\ FilledVenvIsRecognised'
  BY DEF IInv, RuntimeFound, WheelInv, FilledVenvIsRecognised, Uninstalled, Exit, Blank,
         HasRt, Kind, Wheel, At, World, Go
<1>5. ExitTellsTruth'
  BY DEF IInv, ExitTellsTruth, GameAsItWas, ByCommand, Established, Uninstalled, Exit,
         Blank, At, Late, Wheel, Asked, Install, World, Go, HasRt
<1> QED BY <1>1, <1>2, <1>3, <1>4, <1>5 DEF IInv

\* Refuse keeps the invariant.
LEMMA RefuseInv ==
  ASSUME IInv, Refuse
  PROVE  IInv'
<1>1. TypeOK'
  <2>1. run' \in Locals /\ pc' \in Phases
    BY ExitTyped DEF IInv, TypeOK, Refuse, Exits, Phases, Quiet, Go
  <2> QED BY <2>1, BoundAssumption
      DEF IInv, TypeOK, Refuse, disk, World, Quiet, At
<1>2. ByCommand' /\ GameAsItWas'
  BY DEF IInv, ByCommand, GameAsItWas, Refuse, Exit, Blank, Late, Wheel, Quiet, Go, disk
<1>3. Established'
  BY DEF IInv, Established, ByCommand, GameAsItWas, Refuse, Exit, Blank, Asked, Install,
         Late, Wheel, Quiet, Go, HasRt, disk
<1>4. RuntimeFound' /\ WheelInv' /\ FilledVenvIsRecognised'
  BY DEF IInv, RuntimeFound, WheelInv, FilledVenvIsRecognised, Refuse, Exit, Blank, HasRt,
         Kind, Wheel, Quiet, Go, disk
<1>5. ExitTellsTruth'
  BY DEF IInv, ExitTellsTruth, GameAsItWas, ByCommand, Established, Refuse, Exit, Blank, At,
         Late, Wheel, Asked, Install, Quiet, Go, HasRt, disk
<1> QED BY <1>1, <1>2, <1>3, <1>4, <1>5 DEF IInv

\* Kill keeps the invariant.
LEMMA KillInv ==
  ASSUME IInv, Kill
  PROVE  IInv'
<1>1. TypeOK'
  <2>1. run' \in Locals /\ pc' \in Phases
    BY ExitTyped DEF IInv, TypeOK, Kill, Exits, Phases, Quiet, Go
  <2> QED BY <2>1, BoundAssumption
      DEF IInv, TypeOK, Kill, disk, World, Quiet, At
<1>2. ByCommand' /\ GameAsItWas'
  BY DEF IInv, ByCommand, GameAsItWas, Kill, Exit, Blank, Late, Wheel, At, World, disk, Go
<1>3. Established'
  BY DEF IInv, Established, ByCommand, GameAsItWas, Kill, Exit, Blank, Asked, Install, Late,
         Wheel, At, World, disk, Go, HasRt
<1>4. RuntimeFound' /\ WheelInv' /\ FilledVenvIsRecognised'
  BY DEF IInv, RuntimeFound, WheelInv, FilledVenvIsRecognised, Kill, Exit, Blank, HasRt,
         Kind, Wheel, At, World, disk, Go
<1>5. ExitTellsTruth'
  BY DEF IInv, ExitTellsTruth, GameAsItWas, ByCommand, Established, Kill, Exit, Blank, At,
         Late, Wheel, Asked, Install, World, disk, Go, HasRt
<1> QED BY <1>1, <1>2, <1>3, <1>4, <1>5 DEF IInv

\* Play keeps the invariant.
LEMMA PlayInv ==
  ASSUME IInv, Play
  PROVE  IInv'
<1>1. TypeOK'
  BY BoundAssumption DEF IInv, TypeOK, Play, Phases, disk
<1>2. ByCommand' /\ GameAsItWas'
  BY DEF IInv, ByCommand, GameAsItWas, Play, Late, Wheel, disk
<1>3. Established'
  BY DEF IInv, Established, ByCommand, GameAsItWas, Play, Asked, Install, Late, Wheel, disk,
         HasRt
<1>4. RuntimeFound' /\ WheelInv' /\ FilledVenvIsRecognised'
  BY DEF IInv, RuntimeFound, WheelInv, FilledVenvIsRecognised, Play, HasRt, Kind, Wheel, At,
         disk
<1>5. ExitTellsTruth'
  BY DEF IInv, ExitTellsTruth, GameAsItWas, ByCommand, Established, Play, At, Late, Wheel,
         Asked, Install, disk, HasRt
<1> QED BY <1>1, <1>2, <1>3, <1>4, <1>5 DEF IInv

\* Drift keeps the invariant.
LEMMA DriftInv ==
  ASSUME IInv, Drift
  PROVE  IInv'
<1>1. TypeOK'
  <2>1. host' \in [system: Libraries, supplied: Libraries, driver: BOOLEAN, clash: BOOLEAN]
    <3>1. (~host.driver) \in BOOLEAN
      OBVIOUS
    <3> QED BY <3>1 DEF IInv, TypeOK, Drift
  <2> QED BY <2>1 DEF IInv, TypeOK, Drift, disk
<1>2. ByCommand' /\ GameAsItWas'
  BY DEF IInv, TypeOK, ByCommand, GameAsItWas, Drift, Libraries, Locals, Phases, Late,
         Wheel, At, disk, Commands, Consents, Exits
<1>3. Established'
  BY DEF IInv, TypeOK, Established, ByCommand, GameAsItWas, Drift, Libraries, Locals,
         Phases, Asked, Install, Late, Wheel, At, disk, Commands, Consents, Exits, HasRt
<1>4. RuntimeFound' /\ WheelInv' /\ FilledVenvIsRecognised'
  BY DEF IInv, TypeOK, RuntimeFound, WheelInv, FilledVenvIsRecognised, Drift, Libraries,
         Locals, Phases, HasRt, Kind, Wheel, At, disk, Commands, Consents, Exits
<1>5. ExitTellsTruth'
  BY DEF IInv, TypeOK, ExitTellsTruth, GameAsItWas, ByCommand, Established, Drift,
         Libraries, Locals, Phases, At, Late, Wheel, Asked, Install, disk, Commands,
         Consents, Exits, HasRt
<1> QED BY <1>1, <1>2, <1>3, <1>4, <1>5 DEF IInv

-----------------------------------------------------------------------------
\* Every step keeps the invariant.
LEMMA StepInv == IInv /\ [Next]_vars => IInv'
  BY StutterInv, StartInv, PackageInv, ResolveExeInv, ChecksInv, RunnerInv, UpscalerInv,
         LoaderInv, RiskInv, UseCandidateInv, SkipCandidateInv, AskWheelInv, AllowWheelInv,
         CheckVenvInv, DownloadInv, MakeVenvInv, MarkVenvInv, StartPipInv, EndPipInv,
         ProbeWheelInv, RecordInv, SelectGpuInv, SetupInv, ModelInv, ValidateInv,
         LaunchLineInv, ConflictsInv, DeployInv, DeployedInv, StatusInv, UninstallInv,
         UninstalledInv, RefuseInv, KillInv, PlayInv, DriftInv DEF Next

\* What a step may do to the disk: nothing in a run that only reads, nothing to a venv
\* the installer did not make, and nothing to a library but as the last resort.
DiskKept ==
  /\ run.cmd \in ReadOnly /\ pc # "idle" => UNCHANGED disk
  /\ venv = "foreign" => UNCHANGED <<venv, lib>>
  /\ lib' # lib =>
       /\ "rocm" \in run.granted /\ ~run.supplied /\ host.driver
       /\ host.system # "none" => "system" \in run.failed
       /\ lib = "hip7" => "managed" \in run.failed

LEMMA StepKeepsDisk == IInv /\ [Next]_vars => DiskKept
<1> SUFFICES ASSUME IInv, [Next]_vars PROVE DiskKept
  OBVIOUS
<1>1. CASE UNCHANGED disk
  BY <1>1 DEF DiskKept, disk
<1>2. CASE CheckVenv
  BY <1>2 DEF DiskKept, CheckVenv, OursToFill, IInv, ByCommand, WheelInv,
         FilledVenvIsRecognised, ReadOnly, Wheel, Late, At, disk
<1>3. CASE MakeVenv
  BY <1>3 DEF DiskKept, MakeVenv, IInv, ByCommand, WheelInv, FilledVenvIsRecognised,
         ReadOnly, Wheel, Late, At, disk
<1>4. CASE MarkVenv
  BY <1>4 DEF DiskKept, MarkVenv, Marked, IInv, ByCommand, WheelInv, FilledVenvIsRecognised,
         ReadOnly, Wheel, Late, At, disk
<1>5. CASE StartPip
  BY <1>5 DEF DiskKept, StartPip, IInv, ByCommand, WheelInv, FilledVenvIsRecognised,
         ReadOnly, Wheel, Late, At, disk
<1>6. CASE EndPip
  BY <1>6 DEF DiskKept, EndPip, IInv, ByCommand, WheelInv, FilledVenvIsRecognised, ReadOnly,
         Wheel, Late, At, disk
<1>7. CASE Record
  BY <1>7 DEF DiskKept, Record, IInv, ByCommand, WheelInv, FilledVenvIsRecognised, ReadOnly,
         Wheel, Late, At, disk
<1>8. CASE Model
  BY <1>8 DEF DiskKept, Model, MayConvert, IInv, ByCommand, WheelInv,
         FilledVenvIsRecognised, ReadOnly, Wheel, Late, At, disk
<1>9. CASE Deploy
  BY <1>9 DEF DiskKept, Deploy, IInv, ByCommand, WheelInv, FilledVenvIsRecognised, ReadOnly,
         Wheel, Late, At, disk
<1>10. CASE Deployed
  BY <1>10 DEF DiskKept, Deployed, IInv, ByCommand, WheelInv, FilledVenvIsRecognised,
         ReadOnly, Wheel, Late, At, disk
<1>11. CASE Uninstalled
  BY <1>11 DEF DiskKept, Uninstalled, IInv, ByCommand, WheelInv, FilledVenvIsRecognised,
         ReadOnly, Wheel, Late, At, disk
<1> QED BY <1>1, <1>2, <1>3, <1>4, <1>5, <1>6, <1>7, <1>8, <1>9, <1>10, <1>11 DEF Next, vars,
       Quiet, Start, Package, ResolveExe, Checks, Runner, Upscaler, Loader, Risk, UseCandidate,
       SkipCandidate, AskWheel, AllowWheel, Download, ProbeWheel, SelectGpu, Setup,
       Validate, LaunchLine, Conflicts,
       Status, Uninstall, Refuse, Kill, Play, Drift

\* IInv holds throughout.
LEMMA InvHolds == Spec => []IInv
  BY InitInv, StepInv, PTL DEF Spec

\* Every reachable state is well typed.
THEOREM InstallerTypes == Spec => []TypeOK
<1>1. IInv => TypeOK
  BY DEF IInv
<1> QED BY <1>1, InvHolds, PTL

\* The files of the game are changed only by an installation that has asked, found and
\* verified everything first.
THEOREM ChecksPrecedeDeployment == Spec => []DeploysWhatWasChecked
<1>1. IInv => DeploysWhatWasChecked
  BY DEF IInv, ByCommand, Established, RuntimeFound, DeploysWhatWasChecked, TypeOK, Locals,
         Commands, Asked, HasRt, Wheel, Late, Install, At
<1> QED BY <1>1, InvHolds, PTL

\* The managed venv holds a library only when it bears the marker, and what is refused
\* holds none of the installer's, but for the umask.
THEOREM FilledVenvsAreRecognised == Spec => []FilledVenvIsRecognised
<1>1. IInv => FilledVenvIsRecognised
  BY DEF IInv
<1> QED BY <1>1, InvHolds, PTL

\* What a run reports at its end is so.
THEOREM ExitsAreTrue == Spec => []ExitTellsTruth
<1>1. IInv => ExitTellsTruth
  BY DEF IInv
<1> QED BY <1>1, InvHolds, PTL

\* doctor, status and --dry-run write nothing.
THEOREM ReadersWriteNothing == Spec => ReadOnlyRuns
<1>1. IInv /\ [Next]_vars => [run.cmd \in ReadOnly /\ ~At("idle") => UNCHANGED disk]_vars
  BY StepKeepsDisk DEF DiskKept, At
<1> QED BY <1>1, InvHolds, PTL DEF Spec, ReadOnlyRuns

\* The library of the managed venv is touched only when all else has failed.
THEOREM WheelReplacesWhatFailed == Spec => WheelIsLastResort
<1>1. IInv /\ [Next]_vars =>
        [lib' # lib =>
           /\ "rocm" \in run.granted /\ ~run.supplied /\ host.driver
           /\ host.system # "none" => "system" \in run.failed
           /\ lib = "hip7" => "managed" \in run.failed]_vars
  BY StepKeepsDisk DEF DiskKept
<1> QED BY <1>1, InvHolds, PTL DEF Spec, WheelIsLastResort

\* A venv the installer did not make keeps its files.
THEOREM ForeignVenvStays == Spec => ForeignVenvKept
<1>1. IInv /\ [Next]_vars => [venv = "foreign" => UNCHANGED <<venv, lib>>]_vars
  BY StepKeepsDisk DEF DiskKept
<1> QED BY <1>1, InvHolds, PTL DEF Spec, ForeignVenvKept
=============================================================================
