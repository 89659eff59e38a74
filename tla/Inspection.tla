----------------------------- MODULE Inspection -----------------------------
(***************************************************************************)
(* How an installation finds what it works on: the game's executable         *)
(* (resolve_exe, prompt_game_executable and select_game_executable of        *)
(* cli.py over select_executable of games.py), the modules that the          *)
(* executable imports (inspect_game), and the Wine or Proton runner           *)
(* (resolve_proton, confirm_runner).                                         *)
(*                                                                         *)
(* Files are few and their contents are what the questions are about: the    *)
(* kind of an executable, the imports of a module, whether a runner passes    *)
(* validate_proton.  A user at the terminal may answer anything at any       *)
(* prompt, as often as he likes.                                             *)
(***************************************************************************)
EXTENDS Naturals, Sequences, FiniteSets, SequencesExt

CONSTANTS
  Exes,        \* executable files of the game's tree
  Runners,     \* runner directories
  Dlls,        \* the DLLs that the tree may hold
  DllName,     \* of each DLL, the name by which it is imported
  Folder,      \* of each DLL and of the executable
  Names,       \* names of DLLs, of the tree and of the system
  None,
  MaxDepth,    \* MAX_DEPTH: modules on a chain of imports
  MaxModules   \* 512: modules scheduled for inspection

Modules == Dlls \cup {"exe"}

ASSUME NoneAssumption == None \notin Exes \cup Runners
ASSUME TreeAssumption ==
  IsFiniteSet(Exes) /\ IsFiniteSet(Dlls) /\ "exe" \notin Dlls /\ "version" \in Names
ASSUME NamesAssumption == DllName \in [Dlls -> Names] /\ DOMAIN Folder = Modules
ASSUME BoundAssumption == MaxDepth \in Nat \ {0} /\ MaxModules \in Nat \ {0}

Kinds    == {"absent", "helper", "game", "shipping", "bootstrap"}
Forms    == {"absent", "bad", "x86", "x64"}

VARIABLES
  pc,        \* where the program is
  asks,      \* there is a terminal to ask at
  \* the executable
  explicit,  \* --exe
  kind,      \* of each executable file
  target,    \* what a bootstrap launcher starts
  prompted,  \* the game is being asked for: errors ask again
  exe,       \* the selected executable
  \* its imports
  form, imports,  \* of each module
  pending,        \* chains of modules still to inspect, each ends in the module
  left,           \* imports of the current module still to be followed
  scheduled, evidence, unresolved,
  \* the runner
  option,    \* --runner
  options,   \* of "steam" (--appid or --steam-root), "guided", "sure" (--confirm-runner)
  valid,     \* the runners that pass validate_proton
  runner,    \* what resolve_proton has returned
  agreed     \* the runner that the user or --confirm-runner has confirmed

selecting == <<explicit, kind, target, prompted, exe>>
scanning  == <<form, imports, pending, left, scheduled, evidence, unresolved>>
choosing  == <<option, options, valid, runner, agreed>>
vars      == <<pc, asks, selecting, scanning, choosing>>

NothingScanned(f, i, p, l, s, e, u) ==
  /\ f = [m \in Modules |-> "absent"] /\ i = <<>>
  /\ p = <<>> /\ l = {} /\ s = {} /\ e = {} /\ u = {}

Init ==
  /\ pc = "exe" /\ asks \in BOOLEAN
  /\ explicit \in Exes \cup {None}
  /\ kind \in [Exes -> Kinds]
  /\ target \in Exes \cup {"missing"}
  /\ prompted = FALSE /\ exe = None
  /\ NothingScanned(form, imports, pending, left, scheduled, evidence, unresolved)
  /\ option = None /\ options = {} /\ valid = {} /\ runner = None /\ agreed = None

At(s)  == pc = s
Go(s)  == pc' = s
Select == UNCHANGED <<asks, explicit, kind, target, scanning, choosing>>

-----------------------------------------------------------------------------
(* The executable. *)

\* _executable: x64, not a DLL, and no helper by its name
Executable(e) == e \in Exes /\ kind[e] \in {"game", "shipping", "bootstrap"}

Candidates == {e \in Exes : Executable(e)}
Shipping   == {e \in Candidates : kind[e] = "shipping"}
Selectable == IF Shipping # {} THEN Shipping ELSE Candidates

\* installs beside the launcher
FaultyTarget(e) == e

\* _bootstrap_target: None where it raises
Target(e) ==
  CASE kind[e] # "bootstrap" -> e
    [] kind[e] = "bootstrap" /\ Executable(target)
         -> IF kind[target] # "bootstrap" THEN target ELSE None
    [] OTHER -> None

Only(choices) == Cardinality(choices) = 1

\* select_executable: None where it raises
Pick(e) ==
  CASE e # None -> IF Executable(e) THEN Target(e) ELSE None
    [] e = None /\ Only(Selectable) -> Target(CHOOSE c \in Selectable : TRUE)
    [] OTHER -> None

\* selected, or an error: at the prompt it asks again, else it ends the run
Chosen(e) ==
  \/ e # None /\ exe' = e /\ Go("scan") /\ UNCHANGED prompted
  \/ e = None /\ UNCHANGED <<exe, prompted>> /\ Go(IF prompted THEN "prompt" ELSE "error")

Ambiguous(e) == e = None /\ Cardinality(Selectable) > 1

MayAsk == asks

ResolveExe ==
  /\ At("exe") /\ Select
  /\ \/ Ambiguous(explicit) /\ MayAsk /\ Go("ask_exe") /\ UNCHANGED <<prompted, exe>>
     \/ /\ explicit = None /\ MayAsk   \* nothing found, or guided_game: browse
        /\ Go("prompt") /\ prompted' = TRUE /\ UNCHANGED exe
     \/ /\ ~(explicit = None /\ Cardinality(Selectable) # 1 /\ MayAsk)
        /\ Chosen(Pick(explicit))

\* a number of the list, or nothing; anything else is asked again
AnswerExe ==
  /\ At("ask_exe") /\ Select
  /\ \/ \E e \in Candidates : Chosen(Pick(e))
     \/ Go("cancelled") /\ UNCHANGED <<prompted, exe>>

\* a file, a folder, or nothing
AnswerPrompt ==
  /\ At("prompt") /\ Select
  /\ \/ \E e \in Exes : Chosen(Pick(e))
     \/ Ambiguous(None) /\ Go("ask_exe") /\ UNCHANGED <<prompted, exe>>
     \/ ~Ambiguous(None) /\ Chosen(Pick(None))
     \/ Go("cancelled") /\ UNCHANGED <<prompted, exe>>

-----------------------------------------------------------------------------
(* The imports, first in, first out. *)

Scan == UNCHANGED <<asks, selecting, choosing>>

\* How the executable was found, and for whom, matters no more to inspect_game.
EnterScan ==
  /\ At("scan") /\ Go("walk")
  /\ asks' = FALSE /\ explicit' = None /\ kind' = [e \in Exes |-> "absent"]
  /\ target' = "missing" /\ prompted' = FALSE /\ exe' = None
  /\ UNCHANGED <<scanning, choosing>>

\* the walk of the tree has found the DLLs
BeginScan ==
  /\ At("walk") /\ Go("imports") /\ Scan
  /\ form' \in {f \in [Modules -> Forms] : f["exe"] = "x64"}
  /\ imports' \in [{m \in Modules : form'[m] = "x64"} -> SUBSET Names]
  /\ pending' = <<<<"exe">>>> /\ scheduled' = {"exe"} /\ left' = imports'["exe"]
  /\ UNCHANGED <<evidence, unresolved>>

Chain == Head(pending)

In(dlls, folder) == {d \in dlls : Folder[d] = folder}

\* beside the importing module, else beside the game, else anywhere
Resolve(m, name) ==
  LET found == {d \in Dlls : form[d] # "absent" /\ DllName[d] = name}
  IN CASE In(found, Folder[m]) # {} -> In(found, Folder[m])
       [] In(found, Folder[m]) = {} /\ In(found, Folder["exe"]) # {}
              -> In(found, Folder["exe"])
       [] OTHER -> found

\* one module less than the bound
FaultyTooDeep(chain) == Len(chain) >= MaxDepth - 1

TooDeep(chain) == Len(chain) >= MaxDepth

\* forgets files it cannot read
FaultyUnread(d) == {}

Unread(d) == IF form[d] = "bad" THEN {DllName[d]} ELSE {}

Full == Cardinality(scheduled) >= MaxModules

Schedule(d) ==
  /\ scheduled' = scheduled \cup {d}
  /\ unresolved' = unresolved \cup Unread(d)
  /\ pending' = IF form[d] = "x64" THEN Append(pending, Append(Chain, d)) ELSE pending

\* One import of the module at hand; its DLL table may name them in any order.
Follow(name) ==
  /\ At("imports") /\ name \in left /\ left' = left \ {name} /\ Scan
  /\ UNCHANGED <<form, imports>>
  /\ LET found == Resolve(Last(Chain), name) IN
     CASE name = "version" ->
            /\ evidence' = evidence \cup {Append(Chain, name)}
            /\ UNCHANGED <<pc, pending, scheduled, unresolved>>
       [] name # "version" /\ (found = {} \/ \E d \in scheduled : found = {d}) ->
            UNCHANGED <<pc, pending, scheduled, evidence, unresolved>>
       [] name # "version" /\ (Cardinality(found) > 1
                               \/ (~(found \subseteq scheduled) /\ TooDeep(Chain))) ->
            /\ unresolved' = unresolved \cup {name}
            /\ UNCHANGED <<pc, pending, scheduled, evidence>>
       [] OTHER ->
            /\ UNCHANGED evidence
            /\ IF Full
               THEN Go("error") /\ UNCHANGED <<pending, scheduled, unresolved>>
               ELSE UNCHANGED pc /\ \E d \in found : Schedule(d)

NextModule ==
  /\ At("imports") /\ left = {} /\ Scan
  /\ pending' = Tail(pending)
  /\ IF Len(pending) = 1 THEN Go("scanned") /\ UNCHANGED left
     ELSE UNCHANGED pc /\ left' = imports[Last(pending[2])]
  /\ UNCHANGED <<form, imports, scheduled, evidence, unresolved>>

-----------------------------------------------------------------------------
(* The runner. *)

Choose == UNCHANGED <<asks, selecting, scanning, option, options, valid>>

\* main goes on to the runner with what the command line says of it
BeginRunner ==
  /\ At("scanned") /\ Go("runner")
  /\ NothingScanned(form', imports', pending', left', scheduled', evidence', unresolved')
  /\ option' \in Runners \cup {None} /\ options' \in SUBSET {"steam", "guided", "sure"}
  /\ valid' \in SUBSET Runners
  /\ asks' \in BOOLEAN /\ UNCHANGED <<selecting, runner, agreed>>

Return(r) == runner' = r /\ Go("confirm") /\ UNCHANGED agreed
Turn(s)   == Go(s) /\ UNCHANGED <<runner, agreed>>

\* Where the user is asked for a runner: from a menu of those found, or its folder.
Menu == IF "guided" \in options /\ valid # {} THEN "list" ELSE "folder"

ResolveProton ==
  /\ At("runner") /\ Choose
  /\ CASE option \in valid -> Return(option)
       [] option \notin valid /\ MayAsk -> Turn(Menu)
       [] OTHER ->
            IF option = None /\ "steam" \in options /\ Only(valid)
            THEN \E r \in valid : Return(r) ELSE Turn("error")

\* takes any folder
FaultyAccepted == Runners

\* validate_proton raises for the others
Accepted == valid

\* A folder that is not accepted is asked for again, and so is the list of Steam's
\* runners when there is none.
AnswerFolder ==
  /\ At("folder") /\ Choose
  /\ \/ \E r \in Accepted : Return(r)
     \/ valid # {} /\ Turn("list")
     \/ Turn("cancelled")

AnswerList ==
  /\ At("list") /\ Choose
  /\ (\E r \in valid : Return(r)) \/ Turn("folder") \/ Turn("cancelled")

Confirm(r) == agreed' = r /\ Go("done") /\ UNCHANGED runner

\* confirm_runner: yes, q, or no: then another runner is asked for
ConfirmRunner ==
  /\ At("confirm") /\ Choose
  /\ CASE "sure" \in options -> Confirm(runner)
       [] "sure" \notin options /\ ~MayAsk -> Turn("error")
       [] OTHER -> Confirm(runner) \/ Turn("cancelled") \/ Turn(Menu)

Next ==
  \/ ResolveExe \/ AnswerExe \/ AnswerPrompt
  \/ EnterScan \/ BeginScan \/ (\E name \in Names : Follow(name)) \/ NextModule
  \/ BeginRunner \/ ResolveProton \/ AnswerFolder \/ AnswerList \/ ConfirmRunner

Spec == Init /\ [][Next]_vars

-----------------------------------------------------------------------------
\* Whatever was typed at whichever prompt: the mod goes beside the game itself,
\* never beside a bootstrap launcher or a helper, and where nobody can be asked one
\* of several candidates is never guessed.
TheGameIsSelected ==
  At("scan") =>
    /\ kind[exe] \in {"game", "shipping"}
    /\ ~asks /\ explicit = None => Selectable = {exe} \/ \E e \in Exes : Selectable = {e} /\ exe = target

\* Module m imports d, and it is clear which file that is.
Imports(m, d) ==
  form[d] = "x64" /\ \E name \in imports[m] \ {"version"} : Resolve(m, name) = {d}

\* The chains of imports that the loader would take, of bounded length.
Chains ==
  {c \in UNION {[1..n -> Modules] : n \in 1..MaxDepth} :
     c[1] = "exe" /\ \A k \in 2..Len(c) : Imports(c[k - 1], c[k])}

Inspected == {Last(c) : c \in Chains}

\* version_loader and its evidence: the modules shown to import version.dll are those
\* that do among all that a chain of imports of bounded length reaches, and each
\* chain shown is one that the loader would take.
LoaderEvidenceExact ==
  At("scanned") =>
    /\ {Last(Front(e)) : e \in evidence} = {m \in Inspected : "version" \in imports[m]}
    /\ \A e \in evidence : Front(e) \in Chains /\ Last(e) = "version"

\* An import that has a file in the tree and was not followed is reported, unless
\* the file is for another machine: no evidence is missed in silence.
NothingSkippedSilently ==
  At("scanned") =>
    \A m \in Inspected : \A name \in imports[m] \ {"version"} :
      \/ Resolve(m, name) = {}
      \/ name \in unresolved
      \/ \E d \in Inspected \cup {x \in Dlls : form[x] = "x86"} : Resolve(m, name) = {d}

\* The runner that is used is one that passed validate_proton, and the one that the
\* user or the option confirmed, not one that was refused on the way.
ConfirmedRunnerIsUsed ==
  At("done") => runner \in valid /\ agreed = runner /\ (~asks => "sure" \in options)
=============================================================================
