---------------------------- MODULE Transaction ----------------------------
(***************************************************************************)
(* What the commands on one game directory promise, whatever they are       *)
(* interrupted by: an undo log with atomic updates.  A file is claimed by a *)
(* journal before it is written and backed up before it is claimed; a claim *)
(* is given up when the file is as it was.  What the journals show as       *)
(* installed is in place when they begin to show it, and an update changes  *)
(* that from one version to the next in one step, or not at all.  Deploy    *)
(* implements it.                                                          *)
(***************************************************************************)
CONSTANTS
  Files, Contents,
  Settings,   \* files that the game itself rewrites
  Was,        \* the content of each file before the first installation
  New         \* files that were not there, which need no backup

VARIABLES
  game,       \* the files
  saved,      \* files whose original is at hand
  claimed,    \* files that a journal names
  mode,       \* "none", "installed", "updating"
  version,    \* what is installed, or else the originals
  next,       \* what the update leads to, or else the version
  scope       \* the files that it replaces

shown    == <<mode, version, next, scope>>
journals == <<claimed, shown>>
vars     == <<game, saved, journals>>

Init ==
  /\ game = Was /\ saved = New /\ claimed = {}
  /\ mode = "none" /\ version = Was /\ next = Was /\ scope = {}

\* every file but the settings is as v has it
Whole(v) == \A f \in Files \ Settings : game[f] = v[f]

Save(f) ==
  /\ game[f] = Was[f] /\ saved' = saved \cup {f}
  /\ UNCHANGED <<game, journals>>

Forget(f) ==
  /\ f \notin claimed /\ saved' = saved \ {f}
  /\ UNCHANGED <<game, journals>>

Claim ==
  /\ mode = "none"
  /\ claimed \subseteq claimed' /\ claimed' \ claimed \subseteq saved
  /\ UNCHANGED <<game, saved, shown>>

Release ==
  /\ claimed' \subseteq claimed
  /\ \A f \in claimed \ claimed' : game[f] = Was[f]

\* A claimed file may be written: freely while nothing is shown as installed, by an
\* update with the one version or the other, and back to what it was.
Write(f) ==
  /\ f \in claimed
  /\ \E c \in Contents :
       /\ \/ mode = "none" \/ f \in Settings
          \/ mode # "updating" /\ c = Was[f]
          \/ f \in scope /\ c \in {version[f], next[f]}
       /\ game' = [game EXCEPT ![f] = c]
  /\ UNCHANGED <<saved, journals>>

Show ==
  /\ mode = "none" /\ mode' = "installed"
  /\ version' \in [Files -> Contents] /\ Whole(version') /\ next' = version'
  /\ UNCHANGED <<game, saved, claimed, scope>>

\* Nothing is shown any more; what was put back may be given up.
Withdraw ==
  /\ mode # "updating" /\ mode' = "none"
  /\ version' = Was /\ next' = Was /\ Release
  /\ UNCHANGED <<game, saved, scope>>

Begin ==
  /\ mode = "installed" /\ mode' = "updating" /\ Whole(version)
  /\ scope' \subseteq saved /\ claimed' = claimed \cup scope'
  /\ next' \in [Files -> Contents]
  /\ \A f \in Files \ (scope' \cup Settings) : next'[f] = version[f]
  /\ UNCHANGED <<game, saved, version>>

Commit ==
  /\ mode = "updating" /\ mode' = "installed" /\ Whole(next)
  /\ version' = next /\ scope' = {}
  /\ UNCHANGED <<game, saved, claimed, next>>

Abort ==
  /\ mode = "updating" /\ mode' = "installed" /\ Whole(version)
  /\ next' = version /\ scope' = {} /\ Release
  /\ UNCHANGED <<game, saved, version>>

Next ==
  \/ \E f \in Files : Save(f) \/ Forget(f) \/ Write(f)
  \/ Claim \/ Show \/ Withdraw \/ Begin \/ Commit \/ Abort

Spec == Init /\ [][Next]_vars

\* What the log is for: a file that is not as it was is one that a journal names and
\* whose original is at hand.
Reversible == \A f \in Files : game[f] # Was[f] => f \in claimed \cap saved
=============================================================================
