------------------------------ MODULE UserText ------------------------------
(***************************************************************************)
(* The two texts that the installer shares with the user: the settings file  *)
(* dlssnr_on_amd.ini (_ini and _select_wait_method of dlssnr/deploy.py),     *)
(* which the game's overlay rewrites as well, and the launch options in       *)
(* Steam (launch_options of dlssnr/lmxxf.py over merge_launch_options of      *)
(* dlssnr/launch_support.py), which the user pastes back and forth.          *)
(*                                                                         *)
(* A text is a sequence of lines or of tokens; a line is a section header or *)
(* a key with a value.  Of the keys there is one of each sort: "sync" is      *)
(* required on every run (HipDevice, Async, CpuWait, PollSpacing), "base" on  *)
(* the first only (Enabled, PreUpscale, ...), "spin" is SpinDraw, "visual" is *)
(* completed when it is absent, "other" is unknown to the installer.          *)
(***************************************************************************)
EXTENDS Naturals, Sequences, FiniteSets, SequencesExt

CONSTANTS
  MaxLines,   \* bound on the lines of a first INI
  MaxTokens,  \* bound on the tokens of a first launch line
  MaxEdits    \* bound on the changes by overlay and user

ASSUME BoundsAssumption == MaxLines \in Nat /\ MaxTokens \in Nat /\ MaxEdits \in Nat

Header(s)  == [key |-> s, val |-> 0]
Key(k, v)  == [key |-> k, val |-> v]
Sections   == {"NR", "X"}
Lines      == {Header(s) : s \in Sections} \cup
              {Key("sync", 0), Key("base", 0), Key("visual", 1), Key("other", 0)} \cup
              {Key("spin", v) : v \in {0, 1, 2}}
Tokens     == {"env", "arg", "entry", "wrapper", "foreign", "cmd", "unquoted"}
Requests   == {"none", "compute", "graphics"}

VARIABLES
  ini, line,    \* the two texts
  installed,    \* the next run is an update
  before,       \* the INI or line that the last run found
  ran,          \* what the last step was: "ini", "line", "refused" or "edit"
  asked,        \* --wait-method of the last run
  optimized,    \* the last run was of a release with its own entry
  edits

vars == <<ini, line, installed, before, ran, asked, optimized, edits>>

UpTo(S, n) == UNION {[1..k -> S] : k \in 0..n}

\* One of the two texts is the user's, the other empty: they do not meet.
Init ==
  /\ \/ ini \in UpTo(Lines, MaxLines) /\ line = <<>>
     \/ ini = <<>> /\ line \in UpTo(Tokens, MaxTokens)
  /\ installed = FALSE /\ before = <<>> /\ ran = "edit" /\ asked = "none"
  /\ optimized \in BOOLEAN /\ edits = 0

-----------------------------------------------------------------------------
(* The settings. *)

IsHeader(l) == l.key \in Sections
Heads(text) == {i \in DOMAIN text : text[i].key = "NR"}

\* the body of the NR section, without headers: first and last line of it
First(text) == (CHOOSE i \in Heads(text) : TRUE) + 1
Last_(text) ==
  LET after == {i \in DOMAIN text : i >= First(text) /\ IsHeader(text[i])}
  IN IF after = {} THEN Len(text) ELSE (CHOOSE i \in after : \A j \in after : i <= j) - 1
InBody(text, i) == i \in First(text)..Last_(text)

\* the header that line i stands under
Active(text, i) ==
  \E h \in Heads(text) : h < i /\ \A j \in (h + 1)..i : ~IsHeader(text[j])

\* reads a SpinDraw of another section
FaultySpins(text) == {i \in DOMAIN text : text[i].key = "spin"}

Spins(text) == {i \in DOMAIN text : Active(text, i) /\ text[i].key = "spin"}

\* _select_wait_method: "error" where it raises
SelectWait(text, request) ==
  CASE request # "none" -> request
    [] request = "none" /\ Spins(text) = {} -> "compute"
    [] OTHER ->
         LET v == text[CHOOSE i \in Spins(text) : \A j \in Spins(text) : i <= j].val
         IN CASE v = 1 -> "graphics" [] v = 0 -> "compute" [] OTHER -> "error"

\* forgets that an update leaves the user's choices alone
FaultyForced(update) == {"sync", "spin", "base"}

Forced(update) == {"sync", "spin"} \cup (IF update THEN {} ELSE {"base"})

Required(k, wait) == IF k = "spin" THEN (IF wait = "graphics" THEN 1 ELSE 0) ELSE 1

\* appends every default
FaultyAbsent(body) == {"base", "visual"}

\* the defaults are completed where the section has no such key
Absent(body) == {k \in {"base", "visual"} : \A i \in DOMAIN body : body[i].key # k}

Default(k) == Key(k, IF k = "base" THEN 1 ELSE 0)

\* the new body: lines of the user with the required values, then what is missing
NewBody(body, update, wait) ==
  LET forced  == Forced(update)
      kept    == [i \in DOMAIN body |->
                    IF body[i].key \in forced THEN Key(body[i].key, Required(body[i].key, wait))
                    ELSE body[i]]
      missing == {k \in forced : \A i \in DOMAIN body : body[i].key # k}
      added   == {Key(k, Required(k, wait)) : k \in missing}
                 \cup {Default(k) : k \in Absent(body) \ forced}
  IN kept \o SetToSeq(added)

\* does not look for a key that stands twice
FaultyTwice(body, ks) == FALSE

Twice(body, ks) == \E i, j \in DOMAIN body : i # j /\ body[i].key = body[j].key /\ body[i].key \in ks

\* _ini raises for a second NR section or a required key that stands twice
Refused(text, update, wait) ==
  \/ wait = "error" \/ Cardinality(Heads(text)) > 1
  \/ Heads(text) # {} /\ Twice(SubSeq(text, First(text), Last_(text)), Forced(update))

Ini(text, update, wait) ==
  IF Heads(text) = {} THEN text \o <<Header("NR")>> \o NewBody(<<>>, update, wait)
  ELSE SubSeq(text, 1, First(text) - 1)
       \o NewBody(SubSeq(text, First(text), Last_(text)), update, wait)
       \o SubSeq(text, Last_(text) + 1, Len(text))

\* Only an update reads the choice in the file.
Wait(request) == SelectWait(IF installed THEN ini ELSE <<>>, request)

InstallIni(request) ==
  /\ line = <<>>
  /\ before' = ini /\ asked' = request
  /\ IF Refused(ini, installed, Wait(request))
     THEN ran' = "refused" /\ UNCHANGED <<ini, installed>>
     ELSE /\ ini' = Ini(ini, installed, Wait(request))
          /\ ran' = IF installed THEN "update" ELSE "install"
          /\ installed' = TRUE
  /\ UNCHANGED <<line, optimized, edits>>

\* the overlay or the user writes a value
EditIni ==
  /\ installed /\ edits < MaxEdits /\ edits' = edits + 1
  /\ \E i \in DOMAIN ini, v \in 0..2 :
       /\ ~IsHeader(ini[i]) /\ ini[i].val # v
       /\ ini' = [ini EXCEPT ![i].val = v]
  /\ ran' = "edit"
  /\ UNCHANGED <<line, installed, before, asked, optimized>>

-----------------------------------------------------------------------------
(* The launch line. *)

Places(text, t) == {i \in DOMAIN text : text[i] = t}

\* the launcher of this release, and the one that it replaces
Launcher(opt) == IF opt THEN "entry" ELSE "wrapper"
Managed       == {"entry", "wrapper"}

\* arguments alone, as Steam accepts them: %command% is put before them
Normalised(text) ==
  IF text # <<>> /\ Places(text, "cmd") = {} /\ text[1] = "arg" THEN <<"cmd">> \o text ELSE text

\* knows the launcher of this release only
FaultyKnown(text, opt) ==
  {i \in DOMAIN text : text[i] = Launcher(opt) /\ \A c \in Places(text, "cmd") : i < c}

Known(text, opt) ==
  {i \in DOMAIN text : text[i] \in Managed /\ \A c \in Places(text, "cmd") : i < c}

\* merge_launch_options raises
Unmergeable(text, opt) ==
  \/ Places(text, "unquoted") # {}
  \/ Cardinality(Places(text, "cmd")) # 1 \/ Cardinality(Known(text, opt)) > 1
  \/ /\ Known(text, opt) = {}
     /\ \E i \in Places(text, "foreign") : \A c \in Places(text, "cmd") : i < c

Merge(text, opt) ==
  CASE text = <<>> -> <<Launcher(opt), "cmd">>
    [] text # <<>> /\ Known(text, opt) # {} ->
         [i \in DOMAIN text |-> IF i \in Known(text, opt) THEN Launcher(opt) ELSE text[i]]
    [] OTHER -> LET c == CHOOSE i \in DOMAIN text : text[i] = "cmd"
                IN InsertAt(text, c, Launcher(opt))

\* The user pastes the field, or says that it is empty, and pastes the line that is
\* printed back into the field.
MergeLine(opt) ==
  /\ ini = <<>> /\ before' = line /\ optimized' = opt
  /\ LET text == Normalised(line) IN
     IF text # <<>> /\ Unmergeable(text, opt) THEN ran' = "refused" /\ UNCHANGED line
     ELSE ran' = "line" /\ line' = Merge(text, opt)
  /\ UNCHANGED <<ini, installed, asked, edits>>

\* the user adds an option or an argument
EditLine ==
  /\ ini = <<>> /\ ran = "line" /\ edits < MaxEdits /\ edits' = edits + 1
  /\ \E i \in 1..Len(line), t \in {"env", "arg"} : line' = InsertAt(line, i, t)
  /\ ran' = "edit"
  /\ UNCHANGED <<ini, installed, before, asked, optimized>>

Next ==
  \/ \E request \in Requests : InstallIni(request)
  \/ EditIni
  \/ \E opt \in BOOLEAN : MergeLine(opt)
  \/ EditLine

Spec == Init /\ [][Next]_vars

-----------------------------------------------------------------------------
Wrote == ran \in {"install", "update"}

\* what the user cannot choose: the device and synchronisation settings, and on a
\* first installation the ones that put the mod in its tested state
Mandatory(update) == IF update THEN {"sync", "spin"} ELSE {"sync", "spin", "base"}

\* What a first installation or an update leaves is a file that the mod reads as
\* required: one NR section, each required key in it once and with its value.
RequiredSettingsHold ==
  Wrote =>
    /\ Cardinality(Heads(ini)) = 1
    /\ \A k \in Mandatory(ran = "update") :
         Cardinality({i \in DOMAIN ini : InBody(ini, i) /\ ini[i].key = k}) = 1
    /\ \A i \in DOMAIN ini :
         InBody(ini, i) /\ ini[i].key \in Mandatory(ran = "update") \ {"spin"} => ini[i].val = 1

\* "Visual settings ... are retained": whatever stood in the file stays, in its
\* order and with its value, in the mod's section and in others, but for the values
\* of the required keys of that section; lines are added in one place, in the mod's
\* section, and only for keys that the section did not have.
UserSettingsKept ==
  Wrote =>
    \E c \in 0..Len(before) :
      LET n       == Len(ini) - Len(before)
          own(i)  == Heads(before) # {} /\ InBody(before, i)
          mine(i) == own(i) /\ before[i].key \in Mandatory(ran = "update")
          now(i)  == ini[IF i <= c THEN i ELSE i + n]
      IN /\ Len(before) <= Len(ini)
         /\ \A i \in DOMAIN before :
              now(i).key = before[i].key /\ (~mine(i) => now(i) = before[i])
         /\ \A j \in (c + 1)..(c + n) :
              \/ Heads(before) = {} /\ ini[j] = Header("NR")
              \/ InBody(ini, j) /\ \A i \in DOMAIN before : own(i) => before[i].key # ini[j].key

\* "updates keep the saved choice": an update without --wait-method leaves the mod
\* with the method that it had, also when the overlay has chosen it, and what an
\* explicit request wrote is what the next update finds.
WaitChoiceSurvives ==
  Wrote =>
    SelectWait(ini, "none") = IF asked # "none" THEN asked
                              ELSE IF ran = "update" THEN SelectWait(before, "none") ELSE "compute"

\* Another run on an unchanged file changes nothing: it is by this comparison that
\* install_game tells that it has nothing to do.
UpdateIsIdempotent ==
  Wrote => LET wait == SelectWait(ini, "none")
           IN ~Refused(ini, TRUE, wait) /\ Ini(ini, TRUE, wait) = ini

\* Whatever the field held: the printed line has one %command%, before it one of
\* the managed launchers and that of this release, and every token of the user in its
\* order, a launcher that stood there replaced at most; the next run accepts the line
\* and prints it again.
LineKeepsTheUsers ==
  ran = "line" =>
    /\ Cardinality(Places(line, "cmd")) = 1
    /\ \E k \in DOMAIN line :
         /\ line[k] = Launcher(optimized)
         /\ \A c \in Places(line, "cmd") : {i \in 1..c : line[i] \in Managed} = {k}
    /\ \E up \in [DOMAIN before -> 0..(Len(line) - Len(before))] :
         /\ \A i, j \in DOMAIN before : i < j => up[i] <= up[j]
         /\ \A i \in DOMAIN before :
              LET now == line[i + up[i]]
              IN now = before[i] \/ {now, before[i]} \subseteq Managed
         /\ \A j \in DOMAIN line :
              line[j] \in Managed \cup {"cmd"} \/ \E i \in DOMAIN before : j = i + up[i]
    /\ Normalised(line) = line /\ ~Unmergeable(line, optimized)
    /\ Merge(line, optimized) = line
=============================================================================
