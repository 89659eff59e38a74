---------------------------- MODULE DeployProofs ----------------------------
(***************************************************************************)
(* Proofs about Deploy: type correctness, OriginalsKept, Accountable,       *)
(* JournalsAccepted, SnapshotsKept, SettledIsWhole while nothing has        *)
(* failed, and that it implements Transaction, for every set of files, of   *)
(* versions, and every number of faults.                                   *)
(*                                                                         *)
(* IInv is inductive.  One lemma per action shows its six parts.  JInv, WInv *)
(* and TInv are inductive beside it; one lemma per part shows them.         *)
(***************************************************************************)
EXTENDS Deploy, TLAPS

-----------------------------------------------------------------------------
(* What the updates of manifests and journals do. *)

LEMMA NothingType == Nothing \in Partial /\ DOMAIN Nothing = {}
<1>1. Nothing \in [{} -> Contents]
  BY DEF Nothing
<1>. QED  BY <1>1 DEF Partial, Nothing

\* Manifests with the same entries speak of the same files.
LEMMA SameFiles ==
  ASSUME NEW m, NEW n, m.files = n.files
  PROVE  Touched(m) = Touched(n) /\ Kept(m) = Kept(n) /\ Backed(m) = Backed(n)
BY DEF Touched, Kept, Backed

\* Another state, the same entries.
LEMMA StateSet ==
  ASSUME NEW m \in Manifest, NEW s \in States, NEW n, n = [m EXCEPT !.state = s]
  PROVE  /\ n \in Manifest /\ n.state = s /\ n.files = m.files /\ n.undo = m.undo
         /\ Touched(n) = Touched(m) /\ Kept(n) = Kept(m) /\ Backed(n) = Backed(m)
         /\ Faithful(m) => Faithful(n)
<1>1. n \in Manifest /\ n.state = s /\ n.files = m.files /\ n.undo = m.undo
  BY DEF Manifest
<1>. QED  BY <1>1, SameFiles DEF Faithful

\* One more file is marked as touched, unless it is kept.
LEMMA TouchedSet ==
  ASSUME NEW m \in Manifest, NEW f \in Files,
         NEW n, n = [m EXCEPT !.files[f].touched = TRUE]
  PROVE  /\ n \in Manifest /\ n.state = m.state
         /\ Touched(n) = Touched(m) \cup ({f} \ Kept(m))
         /\ Kept(n) = Kept(m) /\ Backed(n) = Backed(m)
         /\ Faithful(m) => Faithful(n)
<1>1. n \in Manifest /\ n.state = m.state /\ n.undo = m.undo
  BY DEF Manifest, Item
<1>2. \A g \in Files :
        n.files[g] = IF g = f THEN [m.files[f] EXCEPT !.touched = TRUE] ELSE m.files[g]
  BY DEF Manifest
<1>3. m.files[f] \in Item
  BY DEF Manifest
<1>4. \A g \in Files : /\ n.files[g].preserve = m.files[g].preserve
                       /\ n.files[g].original = m.files[g].original
                       /\ n.files[g].touched <=> g = f \/ m.files[g].touched
  <2>. TAKE g \in Files
  <2>1. CASE g = f
    BY <2>1, <1>2, <1>3 DEF Item
  <2>2. CASE g # f
    BY <2>2, <1>2
  <2>. QED  BY <2>1, <2>2
<1>5. Kept(n) = Kept(m)
  BY <1>4 DEF Kept
<1>6. Touched(n) = Touched(m) \cup ({f} \ Kept(m))
  BY <1>4, <1>5 DEF Touched
<1>7. Backed(n) = Backed(m)
  BY <1>4, <1>5 DEF Backed
<1>. QED  BY <1>1, <1>4, <1>5, <1>6, <1>7 DEF Faithful

\* Another phase, the same plan.
LEMMA PhaseSet ==
  ASSUME NEW j \in Journal, NEW p \in Phases, NEW k, k = [j EXCEPT !.phase = p]
  PROVE  /\ k \in Journal /\ k.phase = p
         /\ k.before = j.before /\ k.after = j.after /\ k.snapshots = j.snapshots
         /\ Planned(j) => Planned(k)
<1>1. /\ k \in Journal /\ k.phase = p
      /\ k.before = j.before /\ k.after = j.after /\ k.snapshots = j.snapshots
  BY DEF Journal
<1>. QED  BY <1>1 DEF Planned

\* What a removal saves of a touched file leaves the entries alone.
LEMMA SaveSet ==
  ASSUME NEW m \in Manifest, NEW f \in Touched(m), NEW c \in Contents,
         NEW n, n = Saved(m, f, c)
  PROVE  /\ n \in Manifest /\ n.state = m.state /\ n.files = m.files
         /\ Faithful(m) => Faithful(n)
<1>. DEFINE u == [g \in DOMAIN m.undo \cup {f} |-> IF g = f THEN c ELSE m.undo[g]]
<1>1. PICK S \in SUBSET Files : m.undo \in [S -> Contents]
  BY DEF Manifest, Partial
<1>2. f \in Files
  BY DEF Touched
<1>3. u \in [S \cup {f} -> Contents]
  BY <1>1
<1>4. u \in Partial
  BY <1>1, <1>2, <1>3 DEF Partial
<1>5. n.undo = u /\ n.state = m.state /\ n.files = m.files /\ n \in Manifest
  BY <1>4 DEF Manifest, Saved
<1>6. DOMAIN n.undo = DOMAIN m.undo \cup {f}
  BY <1>5
<1>. QED  BY <1>5, <1>6, SameFiles DEF Faithful

\* The manifest of an update touches what it replaces, and what was touched.
LEMMA UpdatedSet ==
  ASSUME NEW m \in Manifest, NEW S \in SUBSET Files, NEW v \in Versions,
         files \in [Places -> [Files -> Contents]]
  PROVE  /\ Updated(m, S, v) \in Manifest /\ Updated(m, S, v).state = m.state
         /\ Touched(Updated(m, S, v)) = Touched(m) \cup S
         /\ Faithful(m) => Faithful(Updated(m, S, v))
<1>. DEFINE n == Updated(m, S, v)
            h == [f \in Files |-> [m.files[f] EXCEPT !.sha = IF f \in S THEN v ELSE game[f],
                                                   !.preserve = @ /\ f \notin S,
                                                   !.touched = @ \/ f \in S]]
<1>1. \A f \in Files : game[f] \in Contents
  BY DEF game, Places
<1>2. \A f \in Files : m.files[f] \in Item
  BY DEF Manifest
<1>3. \A f \in Files : /\ h[f] \in Item
                       /\ h[f].original = m.files[f].original
                       /\ h[f].preserve = (m.files[f].preserve /\ f \notin S)
                       /\ h[f].touched = (m.files[f].touched \/ f \in S)
  BY <1>1, <1>2 DEF Item, Contents
<1>4. n = [m EXCEPT !.undo = Nothing, !.files = h]
  BY DEF Updated
<1>5. n \in Manifest /\ n.state = m.state /\ n.files = h /\ n.undo = Nothing
  BY <1>3, <1>4, NothingType DEF Manifest
<1>6. Touched(n) = Touched(m) \cup S
  BY <1>3, <1>5 DEF Touched, Kept
<1>. QED  BY <1>3, <1>5, <1>6, NothingType DEF Faithful

-----------------------------------------------------------------------------
(* Where the parts of IInv say nothing, and what they say otherwise. *)

InstallPcs == InstallTry \cup {"mkdir", "rollback"}
CarryPcs   == {"restore", "removed", "mkundo", "save", "uninstalling", "unrestore", "undone"}
RemovePcs  == CarryPcs \cup {"preflight", "clean"}
RevertPcs  == {"revert", "remanifest", "restored"}
UpdatePcs  == UpdateTry \cup RevertPcs \cup {"sweep", "unmark", "load"}

\* Where the program is not there, the part says nothing.
LEMMA Elsewhere ==
  /\ pc' \notin InstallPcs => InstallInv'
  /\ pc' \notin RemovePcs => RemoveInv'
  /\ pc' \notin UpdatePcs => UpdateInv'
BY DEF InstallPcs, RemovePcs, CarryPcs, UpdatePcs, RevertPcs, InstallInv, RemoveInv, UpdateInv

\* A command that carries a manifest carries a faithful one.
LEMMA DataType ==
  ASSUME IInv, pc \in InstallPcs \cup CarryPcs
  PROVE  data \in Manifest /\ data # None /\ Faithful(data) /\ marker = None
BY DEF IInv, InstallInv, RemoveInv, InstallPcs, CarryPcs, Carries, TypeOK

\* A command that carries an update journal carries a consistent one.
LEMMA PlanType ==
  ASSUME IInv, pc \in UpdateTry \cup RevertPcs
  PROVE  /\ plan \in Journal /\ plan # None /\ Planned(plan)
         /\ plan.before \in Manifest /\ plan.after \in Manifest
         /\ plan.before # None /\ plan.after # None
         /\ DOMAIN plan.snapshots \subseteq Files
         /\ \A f \in DOMAIN plan.snapshots : plan.snapshots[f] \in Contents
<1>1. plan \in Journal /\ plan # None /\ Planned(plan)
  BY DEF IInv, UpdateInv, RevertPcs, DiskInv, TypeOK
<1>2. plan.before \in Manifest /\ plan.after \in Manifest /\ plan.snapshots \in Partial
  BY <1>1 DEF Journal
<1>3. PICK S \in SUBSET Files : plan.snapshots \in [S -> Contents]
  BY <1>2 DEF Partial
<1>. QED  BY <1>1, <1>2, <1>3, NoneAssumption

\* A manifest saves contents of files.
LEMMA UndoType ==
  ASSUME NEW m \in Manifest
  PROVE  DOMAIN m.undo \subseteq Files /\ \A f \in DOMAIN m.undo : m.undo[f] \in Contents
<1>1. PICK S \in SUBSET Files : m.undo \in [S -> Contents]
  BY DEF Manifest, Partial
<1>. QED  BY <1>1

\* The entries of a manifest name contents.
LEMMA ItemType ==
  ASSUME NEW m \in Manifest, NEW f \in Files
  PROVE  m.files[f].sha \in Contents /\ m.files[f].original \in Contents
BY DEF Manifest, Item

\* One file changes, in one place.
LEMMA PutType ==
  ASSUME files \in [Places -> [Files -> Contents]],
         NEW p \in Places, NEW f \in Files, NEW c \in Contents, Put(p, f, c)
  PROVE  /\ files' \in [Places -> [Files -> Contents]]
         /\ files'[p][f] = c
         /\ \A g \in Files \ {f} : files'[p][g] = files[p][g]
         /\ \A q \in Places \ {p} : files'[q] = files[q]
BY DEF Put

\* what a file must be replaced for is in backups already
LEMMA BackedUp ==
  ASSUME NEW m, Faithful(m), NEW f \in Touched(m), \A g \in Backed(m) : Secured(g)
  PROVE  Secured(f)
BY ContentAssumption DEF Faithful, Touched, Backed, Before, Secured

\* While an update is pending its journal covers what the manifest covers.
LEMMA Covered ==
  ASSUME IInv, marker # None
  PROVE  /\ marker \in Journal /\ Planned(marker) /\ manifest # None
         /\ marker.before \in Manifest /\ marker.after \in Manifest
         /\ manifest.state = "installed"
         /\ Touched(marker.before) \subseteq Touched(manifest)
         /\ Touched(manifest) \subseteq Touched(marker.before) \cup DOMAIN marker.snapshots
<1>1. marker \in Journal /\ Planned(marker) /\ manifest \in {marker.before, marker.after}
  BY DEF IInv, TypeOK, DiskInv
<1>2. marker.before \in Manifest /\ marker.after \in Manifest
  BY <1>1 DEF Journal
<1>. QED  BY <1>1, <1>2, NoneAssumption DEF Planned

\* the disk parts for steps of the process alone
LEMMA DiskUntouched ==
  ASSUME DiskInv, UNCHANGED <<files, manifest, marker>>
  PROVE  DiskInv'
BY DEF DiskInv, Deployed, Replacing, Secured, game

\* ... for steps that change files under the same journals
LEMMA DiskFiles ==
  ASSUME DiskInv, UNCHANGED <<manifest, marker>>,
         \A f \in Files : Deployed(f) \/ Replacing(f) => Secured(f)',
         \A f \in Files : files'["game"][f] # Before(f) => Deployed(f) \/ Replacing(f)
  PROVE  DiskInv'
BY DEF DiskInv, Deployed, Replacing, game

\* ... and for steps that replace the manifest while no update is pending
LEMMA DiskManifest ==
  ASSUME DiskInv, UNCHANGED <<files, marker>>, marker = None, manifest' # None,
         Faithful(manifest'),
         \A f \in Files : Deployed(f)' => Secured(f),
         \A f \in Files : game[f] # Before(f) => Deployed(f)'
  PROVE  DiskInv'
BY DEF DiskInv, Deployed, Replacing, Secured, game, Faithful, Touched, Kept

-----------------------------------------------------------------------------
(* One lemma per action: it preserves every part of IInv. *)

LEMMA BeginInstallStep ==
  ASSUME IInv, BeginInstall
  PROVE  IInv'
<1>. USE DEF BeginInstall, disk
<1>1. PICK v \in Versions, kept \in SUBSET {Weights} :
         data' = [state |-> "preparing", undo |-> Nothing,
                  files |-> [f \in Files |->
                    [sha |-> IF f \in kept THEN game[f] ELSE v, original |-> game[f],
                     preserve |-> f \in kept, touched |-> FALSE]]]
  OBVIOUS
<1>2. manifest = None /\ marker = None /\ \A f \in Files : game[f] = Before(f)
  BY DEF IInv, StoreInv, DiskInv, Deployed, Replacing
<1>3. data' \in Manifest /\ data'.state = "preparing"
  <2>1. \A f \in Files : game[f] \in Contents
    BY DEF IInv, TypeOK, game, Places
  <2>. QED  BY <1>1, <2>1, NothingType DEF Manifest, Item, States, Contents
<1>4. Touched(data') = {} /\ Faithful(data')
  BY <1>1, <1>2, NothingType DEF Touched, Kept, Faithful
<1>5. TypeOK'
  BY <1>3 DEF IInv, TypeOK, InstallTry, UpdateTry, OtherPcs
<1>6. StoreInv'
  BY DEF IInv, StoreInv
<1>7. DiskInv'
  BY DiskUntouched DEF IInv
<1>8. InstallInv'
  BY <1>2, <1>3, <1>4, NoneAssumption DEF InstallInv, Carries, InstallTry
<1>9. RemoveInv' /\ UpdateInv'
  BY Elsewhere DEF RemovePcs, CarryPcs, UpdatePcs, UpdateTry, RevertPcs
<1>. QED  BY <1>5, <1>6, <1>7, <1>8, <1>9 DEF IInv

LEMMA MkStoreStep ==
  ASSUME IInv, MkStore
  PROVE  IInv'
<1>. USE DEF MkStore, mem
<1>1. TypeOK'
  BY DataType DEF IInv, TypeOK, InstallPcs, CarryPcs, InstallTry, UpdateTry, OtherPcs
<1>2. StoreInv'
  BY DEF IInv, StoreInv
<1>3. DiskInv'
  BY DiskUntouched DEF IInv
<1>4. InstallInv'
  BY DEF IInv, InstallInv, Carries, InstallTry
<1>5. RemoveInv' /\ UpdateInv'
  BY Elsewhere DEF RemovePcs, CarryPcs, UpdatePcs, UpdateTry, RevertPcs
<1>. QED  BY <1>1, <1>2, <1>3, <1>4, <1>5 DEF IInv

LEMMA PrepareStep ==
  ASSUME IInv, Prepare
  PROVE  IInv'
<1>. USE DEF Prepare, mem
<1>1. data \in Manifest /\ data # None /\ Faithful(data) /\ marker = None
  BY DataType DEF InstallPcs, CarryPcs, InstallTry
<1>2. TypeOK'
  BY DataType DEF IInv, TypeOK, InstallPcs, CarryPcs, InstallTry, UpdateTry, OtherPcs
<1>3. StoreInv'
  BY DEF IInv, StoreInv
<1>4. DiskInv'
  <2>1. manifest = None /\ Touched(data) = {}
    BY DEF IInv, InstallInv, InstallTry
  <2>. QED  BY <1>1, <2>1, DiskManifest DEF IInv, DiskInv, Deployed, Replacing
<1>5. InstallInv'
  BY DEF IInv, InstallInv, Carries, InstallTry
<1>6. RemoveInv' /\ UpdateInv'
  BY Elsewhere DEF RemovePcs, CarryPcs, UpdatePcs, UpdateTry, RevertPcs
<1>. QED  BY <1>2, <1>3, <1>4, <1>5, <1>6 DEF IInv

LEMMA MkSubdirStep ==
  ASSUME IInv, MkSubdir
  PROVE  IInv'
<1>. USE DEF MkSubdir, Loop
<1>1. TypeOK'
  BY DataType DEF IInv, TypeOK, InstallPcs, Subdirs, Backed, InstallTry, UpdateTry, OtherPcs
<1>2. StoreInv'
  BY DEF IInv, StoreInv
<1>3. DiskInv'
  BY DiskUntouched DEF IInv
<1>4. InstallInv'
  BY DEF IInv, InstallInv, Carries, InstallTry, Secured
<1>5. RemoveInv' /\ UpdateInv'
  BY Elsewhere DEF RemovePcs, CarryPcs, UpdatePcs, UpdateTry, RevertPcs
<1>. QED  BY <1>1, <1>2, <1>3, <1>4, <1>5 DEF IInv

LEMMA BackupStep ==
  ASSUME NEW f \in Files, IInv, Backup(f)
  PROVE  IInv'
<1>. USE DEF Backup, AsFound, At, Done, Loop
<1>1. data \in Manifest /\ data # None /\ Faithful(data) /\ marker = None
  BY DataType DEF InstallPcs, CarryPcs, InstallTry
<1>2. game[f] = Before(f) /\ game[f] \in Contents
  BY <1>1 DEF IInv, TypeOK, Places, game, Faithful
<1>3. /\ files' \in [Places -> [Files -> Contents]] /\ game' = game
      /\ Secured(f)' /\ \A g \in Files : Secured(g) => Secured(g)'
  BY <1>2, PutType DEF IInv, TypeOK, Places, game, Secured, Before
<1>4. TypeOK'
  BY <1>3 DEF IInv, TypeOK, InstallTry, UpdateTry, OtherPcs
<1>5. StoreInv'
  BY DEF IInv, StoreInv
<1>6. DiskInv'
  BY <1>3, DiskFiles DEF IInv, DiskInv, game
<1>7. InstallInv'
  BY <1>3 DEF IInv, InstallInv, Carries, InstallTry, Backed
<1>8. RemoveInv' /\ UpdateInv'
  BY Elsewhere DEF RemovePcs, CarryPcs, UpdatePcs, UpdateTry, RevertPcs
<1>. QED  BY <1>4, <1>5, <1>6, <1>7, <1>8 DEF IInv

LEMMA InstallingStep ==
  ASSUME IInv, Installing
  PROVE  IInv'
<1>. USE DEF Installing, Loop
<1>1. data \in Manifest /\ data # None /\ Faithful(data) /\ marker = None
  BY DataType DEF InstallPcs, CarryPcs, InstallTry
<1>2. /\ data' \in Manifest /\ data'.state = "installing" /\ data'.files = data.files
      /\ Touched(data') = Touched(data) /\ Kept(data') = Kept(data)
      /\ Backed(data') = Backed(data) /\ Faithful(data') /\ data' # None
  BY <1>1, StateSet, NoneAssumption DEF States
<1>3. TypeOK'
  BY <1>2 DEF IInv, TypeOK, InstallTry, UpdateTry, OtherPcs
<1>4. StoreInv'
  BY DEF IInv, StoreInv
<1>5. DiskInv'
  <2>1. \A g \in Touched(data) : Secured(g)
    BY <1>1, BackedUp DEF IInv, InstallInv, InstallTry
  <2>2. manifest # None => Touched(manifest) \subseteq Touched(data)
    BY DEF IInv, InstallInv, InstallTry
  <2>. QED  BY <1>1, <1>2, <2>1, <2>2, DiskManifest DEF IInv, DiskInv, Deployed, Replacing
<1>6. InstallInv'
  BY <1>1, <1>2 DEF IInv, InstallInv, Carries, InstallTry, Secured
<1>7. RemoveInv' /\ UpdateInv'
  BY Elsewhere DEF RemovePcs, CarryPcs, UpdatePcs, UpdateTry, RevertPcs
<1>. QED  BY <1>3, <1>4, <1>5, <1>6, <1>7 DEF IInv

LEMMA InstalledStep ==
  ASSUME IInv, Installed
  PROVE  IInv'
<1>. USE DEF Installed
<1>1. data \in Manifest /\ data # None /\ Faithful(data) /\ marker = None
  BY DataType DEF InstallPcs, CarryPcs, InstallTry
<1>2. /\ data' \in Manifest /\ data'.state = "installed" /\ data'.files = data.files
      /\ Touched(data') = Touched(data) /\ Kept(data') = Kept(data)
      /\ Backed(data') = Backed(data) /\ Faithful(data') /\ data' # None
  BY <1>1, StateSet, NoneAssumption DEF States
<1>3. TypeOK'
  BY <1>2 DEF IInv, TypeOK, InstallTry, UpdateTry, OtherPcs
<1>4. StoreInv'
  BY DEF IInv, StoreInv
<1>5. DiskInv'
  <2>1. \A g \in Touched(data) : Secured(g)
    BY <1>1, BackedUp DEF IInv, InstallInv, InstallTry
  <2>2. manifest # None => Touched(manifest) \subseteq Touched(data)
    BY DEF IInv, InstallInv, InstallTry
  <2>. QED  BY <1>1, <1>2, <2>1, <2>2, DiskManifest DEF IInv, DiskInv, Deployed, Replacing
<1>6. InstallInv'
  BY <1>1, <1>2 DEF IInv, InstallInv, Carries, InstallTry, Secured
<1>7. RemoveInv' /\ UpdateInv'
  BY Elsewhere DEF RemovePcs, CarryPcs, UpdatePcs, UpdateTry, RevertPcs
<1>. QED  BY <1>3, <1>4, <1>5, <1>6, <1>7 DEF IInv

LEMMA IntentStep ==
  ASSUME NEW f \in Files, IInv, Intent(f)
  PROVE  IInv'
<1>. USE DEF Intent, AsFound, At, disk
<1>1. data \in Manifest /\ data # None /\ Faithful(data) /\ marker = None
  BY DataType DEF InstallPcs, CarryPcs, InstallTry
<1>2. /\ data' \in Manifest /\ data'.state = data.state /\ data' # None
      /\ Touched(data) \subseteq Touched(data') /\ Backed(data') = Backed(data) /\ Faithful(data')
  BY <1>1, TouchedSet, NoneAssumption
<1>3. TypeOK'
  BY <1>2 DEF IInv, TypeOK, InstallTry, UpdateTry, OtherPcs
<1>4. StoreInv'
  BY DEF IInv, StoreInv
<1>5. DiskInv'
  BY DiskUntouched DEF IInv
<1>6. InstallInv'
  BY <1>1, <1>2 DEF IInv, InstallInv, Carries, InstallTry, Secured
<1>7. RemoveInv' /\ UpdateInv'
  BY Elsewhere DEF RemovePcs, CarryPcs, UpdatePcs, UpdateTry, RevertPcs
<1>. QED  BY <1>3, <1>4, <1>5, <1>6, <1>7 DEF IInv

LEMMA RecordStep ==
  ASSUME IInv, Record
  PROVE  IInv'
<1>. USE DEF Record, mem
<1>1. data \in Manifest /\ data # None /\ Faithful(data) /\ marker = None
  BY DataType DEF InstallPcs, CarryPcs, InstallTry
<1>2. TypeOK'
  BY DataType DEF IInv, TypeOK, InstallPcs, CarryPcs, InstallTry, UpdateTry, OtherPcs
<1>3. StoreInv'
  BY DEF IInv, StoreInv
<1>4. DiskInv'
  <2>1. \A g \in Touched(data) : Secured(g)
    BY <1>1, BackedUp DEF IInv, InstallInv, InstallTry
  <2>2. data.state # "removed" /\ (manifest # None => Touched(manifest) \subseteq Touched(data))
    BY DEF IInv, InstallInv, InstallTry
  <2>. QED  BY <1>1, <2>1, <2>2, DiskManifest DEF IInv, DiskInv, Deployed, Replacing
<1>5. InstallInv'
  BY DEF IInv, InstallInv, Carries, InstallTry, Secured
<1>6. RemoveInv' /\ UpdateInv'
  BY Elsewhere DEF RemovePcs, CarryPcs, UpdatePcs, UpdateTry, RevertPcs
<1>. QED  BY <1>2, <1>3, <1>4, <1>5, <1>6 DEF IInv

LEMMA CopyStep ==
  ASSUME NEW f \in Files, IInv, Copy(f)
  PROVE  IInv'
<1>. USE DEF Copy, At, Done, Loop
<1>1. data \in Manifest /\ data # None /\ Faithful(data) /\ marker = None
  BY DataType DEF InstallPcs, CarryPcs, InstallTry
<1>2. data.files[f].sha \in Contents
  BY <1>1, ItemType
<1>3. /\ files' \in [Places -> [Files -> Contents]] /\ game'[f] = data.files[f].sha
      /\ \A g \in Files \ {f} : game'[g] = game[g]
      /\ \A g \in Files : Secured(g)' <=> Secured(g)
  BY <1>2, PutType DEF IInv, TypeOK, Places, game, Secured
<1>4. Deployed(f)
  BY <1>1 DEF IInv, InstallInv, InstallTry, Deployed
<1>5. TypeOK'
  BY <1>3 DEF IInv, TypeOK, InstallTry, UpdateTry, OtherPcs
<1>6. StoreInv'
  BY DEF IInv, StoreInv
<1>7. DiskInv'
  BY <1>3, <1>4, DiskFiles DEF IInv, DiskInv, game
<1>8. InstallInv'
  BY <1>3 DEF IInv, InstallInv, Carries, InstallTry, Backed
<1>9. RemoveInv' /\ UpdateInv'
  BY Elsewhere DEF RemovePcs, CarryPcs, UpdatePcs, UpdateTry, RevertPcs
<1>. QED  BY <1>5, <1>6, <1>7, <1>8, <1>9 DEF IInv

LEMMA FinalStep ==
  ASSUME IInv, Final
  PROVE  IInv'
<1>. USE DEF Final, Halt, disk
<1>1. TypeOK'
  BY DEF IInv, TypeOK, States, InstallTry, UpdateTry, OtherPcs
<1>2. StoreInv'
  BY DEF IInv, StoreInv
<1>3. DiskInv'
  BY DiskUntouched DEF IInv
<1>4. InstallInv' /\ RemoveInv' /\ UpdateInv'
  BY Elsewhere DEF InstallPcs, InstallTry, RemovePcs, CarryPcs, UpdatePcs, UpdateTry, RevertPcs
<1>. QED  BY <1>1, <1>2, <1>3, <1>4 DEF IInv

LEMMA RollbackStep ==
  ASSUME IInv, Rollback
  PROVE  IInv'
<1>. USE DEF Rollback, Loop, disk
<1>1. TypeOK'
  BY DEF IInv, TypeOK, Touched, InstallTry, UpdateTry, OtherPcs
<1>2. StoreInv'
  BY DEF IInv, StoreInv
<1>3. DiskInv'
  BY DiskUntouched DEF IInv
<1>4. RemoveInv'
  <2>1. \A g \in Files : game[g] # Before(g) => g \in Touched(data)
    BY DataType DEF IInv, InstallInv, DiskInv, InstallPcs, Deployed, Replacing
  <2>. QED  BY <2>1 DEF IInv, InstallInv, RemoveInv, Carries, game
<1>5. InstallInv' /\ UpdateInv'
  BY Elsewhere DEF InstallPcs, InstallTry, UpdatePcs, UpdateTry, RevertPcs
<1>. QED  BY <1>1, <1>2, <1>3, <1>4, <1>5 DEF IInv

LEMMA RestoreStep ==
  ASSUME NEW f \in Files, IInv, Restore(f)
  PROVE  IInv'
<1>. USE DEF Restore, At, Done, Loop
<1>1. data \in Manifest /\ data # None /\ Faithful(data) /\ marker = None
  BY DataType DEF InstallPcs, CarryPcs, InstallTry
<1>2. data.files[f].original \in Contents
  BY <1>1, ItemType
<1>3. /\ files' \in [Places -> [Files -> Contents]] /\ game'[f] = data.files[f].original
      /\ \A g \in Files \ {f} : game'[g] = game[g]
      /\ \A g \in Files : Secured(g)' <=> Secured(g)
  BY <1>2, PutType DEF IInv, TypeOK, Places, game, Secured
<1>4. data.files[f].original = Before(f)
  BY <1>1 DEF Faithful
<1>5. TypeOK'
  BY <1>3 DEF IInv, TypeOK, InstallTry, UpdateTry, OtherPcs
<1>6. StoreInv'
  BY DEF IInv, StoreInv
<1>7. DiskInv'
  BY <1>3, <1>4, DiskFiles DEF IInv, DiskInv, game
<1>8. RemoveInv'
  BY <1>3, <1>4 DEF IInv, RemoveInv, Carries, Same
<1>9. InstallInv' /\ UpdateInv'
  BY Elsewhere DEF InstallPcs, InstallTry, UpdatePcs, UpdateTry, RevertPcs
<1>. QED  BY <1>5, <1>6, <1>7, <1>8, <1>9 DEF IInv

LEMMA RemovedStep ==
  ASSUME IInv, Removed
  PROVE  IInv'
<1>. USE DEF Removed
<1>1. data \in Manifest /\ data # None /\ Faithful(data) /\ marker = None
  BY DataType DEF InstallPcs, CarryPcs, InstallTry
<1>2. /\ data' \in Manifest /\ data'.state = "removed" /\ data'.files = data.files
      /\ Touched(data') = Touched(data) /\ Kept(data') = Kept(data)
      /\ Backed(data') = Backed(data) /\ Faithful(data') /\ data' # None
  BY <1>1, StateSet, NoneAssumption DEF States
<1>3. TypeOK'
  BY <1>2 DEF IInv, TypeOK, InstallTry, UpdateTry, OtherPcs
<1>4. StoreInv'
  BY DEF IInv, StoreInv
<1>5. DiskInv'
  <2>1. \A g \in Files : game[g] = Before(g)
    BY DEF IInv, RemoveInv
  <2>. QED  BY <1>1, <1>2, <2>1, DiskManifest DEF IInv, Deployed
<1>6. RemoveInv'
  BY <1>2 DEF IInv, RemoveInv
<1>7. InstallInv' /\ UpdateInv'
  BY Elsewhere DEF InstallPcs, InstallTry, UpdatePcs, UpdateTry, RevertPcs
<1>. QED  BY <1>3, <1>4, <1>5, <1>6, <1>7 DEF IInv

LEMMA PreflightStep ==
  ASSUME IInv, Preflight
  PROVE  IInv'
<1>. USE DEF Preflight, mem, disk
<1>1. TypeOK'
  BY DEF IInv, TypeOK, InstallTry, UpdateTry, OtherPcs
<1>2. StoreInv'
  BY DEF IInv, StoreInv
<1>3. DiskInv'
  BY DiskUntouched DEF IInv
<1>4. RemoveInv'
  BY DEF IInv, RemoveInv, KnownTree
<1>5. InstallInv' /\ UpdateInv'
  BY Elsewhere DEF InstallPcs, InstallTry, UpdatePcs, UpdateTry, RevertPcs
<1>. QED  BY <1>1, <1>2, <1>3, <1>4, <1>5 DEF IInv

LEMMA UnlinkStep ==
  ASSUME IInv, Unlink
  PROVE  IInv'
<1>. USE DEF Unlink, mem
<1>1. marker = None /\ \A g \in Files : game[g] = Before(g) /\ ~Deployed(g)
  BY DEF IInv, RemoveInv, DiskInv, Deployed, Replacing
<1>2. files' \in [Places -> [Files -> Contents]] /\ game' = game
  <2>1. CASE UNCHANGED files
    BY <2>1 DEF IInv, TypeOK, game
  <2>2. ASSUME NEW p \in Clutter, NEW f \in Files, Put(p, f, Absent)
        PROVE  files' \in [Places -> [Files -> Contents]] /\ game' = game
    BY <2>2, PutType DEF IInv, TypeOK, Clutter, Places, Contents, game
  <2>. QED  BY <2>1, <2>2
<1>3. TypeOK'
  BY <1>2 DEF IInv, TypeOK
<1>4. StoreInv'
  BY DEF IInv, StoreInv
<1>5. DiskInv'
  BY <1>1, <1>2, DiskFiles DEF IInv, Replacing, game
<1>6. RemoveInv'
  BY DEF IInv, RemoveInv
<1>7. InstallInv' /\ UpdateInv'
  BY Elsewhere DEF InstallPcs, InstallTry, UpdatePcs, UpdateTry, RevertPcs
<1>. QED  BY <1>3, <1>4, <1>5, <1>6, <1>7 DEF IInv

LEMMA RmSubdirStep ==
  ASSUME IInv, RmSubdir
  PROVE  IInv'
<1>. USE DEF RmSubdir, mem
<1>1. TypeOK'
  BY DEF IInv, TypeOK
<1>2. StoreInv'
  BY DEF IInv, StoreInv, Subdirs
<1>3. DiskInv'
  BY DiskUntouched DEF IInv
<1>4. RemoveInv'
  BY DEF IInv, RemoveInv
<1>5. InstallInv' /\ UpdateInv'
  BY Elsewhere DEF InstallPcs, InstallTry, UpdatePcs, UpdateTry, RevertPcs
<1>. QED  BY <1>1, <1>2, <1>3, <1>4, <1>5 DEF IInv

LEMMA UnjournalStep ==
  ASSUME IInv, Unjournal
  PROVE  IInv'
<1>. USE DEF Unjournal, mem
<1>1. TypeOK'
  BY DEF IInv, TypeOK
<1>2. StoreInv'
  BY DEF IInv, StoreInv
<1>3. DiskInv'
  BY DEF IInv, RemoveInv, DiskInv, Deployed, Replacing, Secured, game
<1>4. RemoveInv'
  BY DEF IInv, RemoveInv
<1>5. InstallInv' /\ UpdateInv'
  BY Elsewhere DEF InstallPcs, InstallTry, UpdatePcs, UpdateTry, RevertPcs
<1>. QED  BY <1>1, <1>2, <1>3, <1>4, <1>5 DEF IInv

LEMMA RmStoreStep ==
  ASSUME IInv, RmStore
  PROVE  IInv'
<1>. USE DEF RmStore, Halt
<1>1. TypeOK'
  BY DEF IInv, TypeOK, States, InstallTry, UpdateTry, OtherPcs
<1>2. StoreInv'
  BY DEF IInv, StoreInv, RemoveInv
<1>3. DiskInv'
  BY DiskUntouched DEF IInv
<1>4. InstallInv' /\ RemoveInv' /\ UpdateInv'
  BY Elsewhere DEF InstallPcs, InstallTry, RemovePcs, CarryPcs, UpdatePcs, UpdateTry, RevertPcs
<1>. QED  BY <1>1, <1>2, <1>3, <1>4 DEF IInv

LEMMA BeginReinstallStep ==
  ASSUME IInv, BeginReinstall
  PROVE  IInv'
<1>. USE DEF BeginReinstall, disk
<1>1. TypeOK'
  BY DEF IInv, TypeOK, InstallTry, UpdateTry, OtherPcs
<1>2. StoreInv'
  BY DEF IInv, StoreInv
<1>3. DiskInv'
  BY DiskUntouched DEF IInv
<1>4. InstallInv' /\ RemoveInv' /\ UpdateInv'
  BY Elsewhere DEF InstallPcs, InstallTry, RemovePcs, CarryPcs, UpdatePcs, UpdateTry, RevertPcs
<1>. QED  BY <1>1, <1>2, <1>3, <1>4 DEF IInv

LEMMA BeginUninstallStep ==
  ASSUME IInv, BeginUninstall
  PROVE  IInv'
<1>. USE DEF BeginUninstall, EmptyClaim
<1>1. TypeOK'
  BY DEF IInv, TypeOK, InstallTry, UpdateTry, OtherPcs
<1>2. StoreInv'
  BY DEF IInv, StoreInv
<1>3. DiskInv'
  BY DiskUntouched DEF IInv
<1>4. InstallInv' /\ RemoveInv' /\ UpdateInv'
  BY Elsewhere DEF InstallPcs, InstallTry, RemovePcs, CarryPcs, UpdatePcs, UpdateTry, RevertPcs
<1>. QED  BY <1>1, <1>2, <1>3, <1>4 DEF IInv

LEMMA NoUpdateStep ==
  ASSUME IInv, NoUpdate
  PROVE  IInv'
<1>. USE DEF NoUpdate, Resume, Halt, disk
<1>1. TypeOK'
  BY DEF IInv, TypeOK, States, InstallTry, UpdateTry, OtherPcs
<1>2. StoreInv'
  BY DEF IInv, StoreInv
<1>3. DiskInv'
  BY DiskUntouched DEF IInv
<1>4. UpdateInv'
  BY DEF IInv, UpdateInv, UpdateTry
<1>5. InstallInv' /\ RemoveInv'
  BY Elsewhere DEF InstallPcs, InstallTry, RemovePcs, CarryPcs
<1>. QED  BY <1>1, <1>2, <1>3, <1>4, <1>5 DEF IInv

LEMMA BeginRevertStep ==
  ASSUME IInv, BeginRevert
  PROVE  IInv'
<1>. USE DEF BeginRevert, Revertable, Loop, disk
<1>1. marker \in Journal /\ marker # None /\ DOMAIN marker.snapshots \subseteq Files
  <2>1. marker \in Journal
    BY Covered
  <2>2. PICK S \in SUBSET Files : marker.snapshots \in [S -> Contents]
    BY <2>1 DEF Journal, Partial
  <2>. QED  BY <2>1, <2>2
<1>2. TypeOK'
  BY <1>1 DEF IInv, TypeOK, InstallTry, UpdateTry, OtherPcs
<1>3. StoreInv'
  BY DEF IInv, StoreInv
<1>4. DiskInv'
  BY DiskUntouched DEF IInv
<1>5. UpdateInv'
  BY <1>1 DEF UpdateInv, UpdateTry
<1>6. InstallInv' /\ RemoveInv'
  BY Elsewhere DEF InstallPcs, InstallTry, RemovePcs, CarryPcs
<1>. QED  BY <1>2, <1>3, <1>4, <1>5, <1>6 DEF IInv

LEMMA BeginSweepStep ==
  ASSUME IInv, BeginSweep
  PROVE  IInv'
<1>. USE DEF BeginSweep, mem, disk
<1>1. TypeOK'
  BY DEF IInv, TypeOK, InstallTry, UpdateTry, OtherPcs
<1>2. StoreInv'
  BY DEF IInv, StoreInv
<1>3. DiskInv'
  BY DiskUntouched DEF IInv
<1>4. UpdateInv'
  BY DEF Finished, UpdateInv, UpdateTry
<1>5. InstallInv' /\ RemoveInv'
  BY Elsewhere DEF InstallPcs, InstallTry, RemovePcs, CarryPcs
<1>. QED  BY <1>1, <1>2, <1>3, <1>4, <1>5 DEF IInv

LEMMA RevertStep ==
  ASSUME NEW f \in Files, IInv, Revert(f)
  PROVE  IInv'
<1>. USE DEF Revert, At, Done, Loop
<1>1. /\ f \in DOMAIN plan.snapshots /\ marker = plan /\ plan # None /\ plan.phase = "ready"
      /\ plan.snapshots[f] # Before(f) => f \in Touched(plan.before)
  BY PlanType DEF IInv, UpdateInv, RevertPcs, Planned
<1>2. plan.snapshots[f] \in Contents
  BY <1>1, PlanType DEF RevertPcs
<1>3. /\ files' \in [Places -> [Files -> Contents]] /\ game'[f] = plan.snapshots[f]
      /\ \A g \in Files \ {f} : game'[g] = game[g]
      /\ \A g \in Files : Secured(g)' <=> Secured(g)
  BY <1>2, PutType DEF IInv, TypeOK, Places, game, Secured
<1>4. Replacing(f)
  BY <1>1 DEF Replacing
<1>5. TypeOK'
  BY <1>3 DEF IInv, TypeOK, InstallTry, UpdateTry, OtherPcs
<1>6. StoreInv'
  BY DEF IInv, StoreInv
<1>7. DiskInv'
  BY <1>3, <1>4, DiskFiles DEF IInv, DiskInv, game
<1>8. UpdateInv'
  BY <1>1, <1>3, PlanType DEF IInv, UpdateInv, UpdateTry, RevertPcs
<1>9. InstallInv' /\ RemoveInv'
  BY Elsewhere DEF InstallPcs, InstallTry, RemovePcs, CarryPcs
<1>. QED  BY <1>5, <1>6, <1>7, <1>8, <1>9 DEF IInv

LEMMA RemanifestStep ==
  ASSUME IInv, Remanifest
  PROVE  IInv'
<1>. USE DEF Remanifest, mem
<1>1. plan \in Journal /\ plan # None /\ Planned(plan) /\ marker = plan /\ plan.phase = "ready"
  BY PlanType DEF IInv, UpdateInv, UpdateTry, RevertPcs
<1>2. plan.before \in Manifest /\ plan.after \in Manifest /\ plan.before # None /\ plan.after # None
  BY PlanType DEF UpdateTry, RevertPcs
<1>3. \A g \in Files : Deployed(g) \/ Replacing(g)
                         <=> g \in Touched(plan.before) \cup DOMAIN plan.snapshots
  BY <1>1, Covered, PlanType DEF Deployed, Replacing, UpdateTry, RevertPcs, Touched
<1>4. TypeOK'
  BY <1>2 DEF IInv, TypeOK, InstallTry, UpdateTry, OtherPcs
<1>5. StoreInv'
  BY DEF IInv, StoreInv
<1>6. DiskInv'
  <2>1. \A g \in Files : Deployed(g)' \/ Replacing(g)' <=> Deployed(g) \/ Replacing(g)
    BY <1>1, <1>2, <1>3 DEF Planned, Deployed, Replacing
  <2>. QED  BY <1>1, <1>2, <2>1 DEF IInv, DiskInv, Planned, Secured, game
<1>7. UpdateInv'
  BY <1>1, <1>2 DEF IInv, UpdateInv, UpdateTry, game
<1>8. InstallInv' /\ RemoveInv'
  BY Elsewhere DEF InstallPcs, InstallTry, RemovePcs, CarryPcs
<1>. QED  BY <1>4, <1>5, <1>6, <1>7, <1>8 DEF IInv

LEMMA RestoredStep ==
  ASSUME IInv, Restored
  PROVE  IInv'
<1>. USE DEF Restored
<1>1. plan \in Journal /\ plan # None /\ Planned(plan) /\ marker = plan /\ plan.phase = "ready"
  BY PlanType DEF IInv, UpdateInv, UpdateTry, RevertPcs
<1>2. plan.before \in Manifest /\ plan.after \in Manifest /\ plan.before # None /\ plan.after # None
  BY PlanType DEF UpdateTry, RevertPcs
<1>3. \A g \in Files : Deployed(g) \/ Replacing(g)
                         <=> g \in Touched(plan.before) \cup DOMAIN plan.snapshots
  BY <1>1, Covered, PlanType DEF Deployed, Replacing, UpdateTry, RevertPcs, Touched
<1>4. /\ plan' \in Journal /\ plan' # None /\ plan'.phase = "restored"
      /\ marker' = plan' /\ Planned(plan')
      /\ plan'.before = plan.before /\ plan'.after = plan.after /\ plan'.snapshots = plan.snapshots
  BY <1>1, PhaseSet, NoneAssumption DEF Mark, Phases
<1>5. TypeOK'
  BY <1>4 DEF IInv, TypeOK, InstallTry, UpdateTry, OtherPcs
<1>6. StoreInv'
  BY DEF IInv, StoreInv
<1>7. DiskInv'
  <2>1. manifest = plan.before
    BY DEF IInv, UpdateInv
  <2>2. \A g \in Files : /\ Deployed(g)' <=> g \in Touched(plan.before)
                         /\ ~Replacing(g)'
    BY <1>1, <1>2, <1>4, <2>1 DEF Planned, Deployed, Replacing
  <2>3. \A g \in Files : game[g] # Before(g) => g \in Touched(plan.before)
    BY <1>3 DEF IInv, DiskInv, UpdateInv
  <2>. QED  BY <1>1, <1>2, <1>4, <1>3, <2>1, <2>2, <2>3 DEF IInv, DiskInv, Secured, game, Planned
<1>8. UpdateInv'
  BY <1>4 DEF UpdateInv, UpdateTry
<1>9. InstallInv' /\ RemoveInv'
  BY Elsewhere DEF InstallPcs, InstallTry, RemovePcs, CarryPcs
<1>. QED  BY <1>5, <1>6, <1>7, <1>8, <1>9 DEF IInv

LEMMA SweepStep ==
  ASSUME IInv, Sweep
  PROVE  IInv'
<1>. USE DEF Sweep, mem
<1>1. /\ files' \in [Places -> [Files -> Contents]]
      /\ game' = game /\ files'["backups"] = files["backups"]
  <2>1. CASE UNCHANGED files
    BY <2>1 DEF IInv, TypeOK, game
  <2>2. ASSUME NEW f \in Files, Put("update", f, Absent)
        PROVE  /\ files' \in [Places -> [Files -> Contents]] /\ game' = game
               /\ files'["backups"] = files["backups"]
    BY <2>2, PutType DEF IInv, TypeOK, Places, Contents, game
  <2>. QED  BY <2>1, <2>2
<1>2. TypeOK'
  BY <1>1 DEF IInv, TypeOK
<1>3. StoreInv'
  BY DEF IInv, StoreInv
<1>4. DiskInv'
  BY <1>1, DiskFiles DEF IInv, DiskInv, Secured, game
<1>5. UpdateInv'
  BY DEF IInv, UpdateInv, UpdateTry
<1>6. InstallInv' /\ RemoveInv'
  BY Elsewhere DEF InstallPcs, InstallTry, RemovePcs, CarryPcs
<1>. QED  BY <1>2, <1>3, <1>4, <1>5, <1>6 DEF IInv

LEMMA RmFolderStep ==
  ASSUME IInv, RmFolder
  PROVE  IInv'
<1>. USE DEF RmFolder, mem
<1>1. TypeOK'
  BY DEF IInv, TypeOK, InstallTry, UpdateTry, OtherPcs
<1>2. StoreInv'
  BY DEF IInv, StoreInv
<1>3. DiskInv'
  BY DiskUntouched DEF IInv
<1>4. UpdateInv'
  BY DEF IInv, UpdateInv, UpdateTry
<1>5. InstallInv' /\ RemoveInv'
  BY Elsewhere DEF InstallPcs, InstallTry, RemovePcs, CarryPcs
<1>. QED  BY <1>1, <1>2, <1>3, <1>4, <1>5 DEF IInv

LEMMA UnmarkStep ==
  ASSUME IInv, Unmark
  PROVE  IInv'
<1>. USE DEF Unmark, Resume, Halt
<1>1. TypeOK'
  BY DEF IInv, TypeOK, States, InstallTry, UpdateTry, OtherPcs
<1>2. StoreInv'
  BY DEF IInv, StoreInv
<1>3. DiskInv'
  BY DEF IInv, UpdateInv, DiskInv, Deployed, Replacing, Secured, game
<1>4. UpdateInv'
  BY DEF UpdateInv, UpdateTry
<1>5. InstallInv' /\ RemoveInv'
  BY Elsewhere DEF InstallPcs, InstallTry, RemovePcs, CarryPcs
<1>. QED  BY <1>1, <1>2, <1>3, <1>4, <1>5 DEF IInv

LEMMA IdempotentStep ==
  ASSUME IInv, Idempotent
  PROVE  IInv'
<1>. USE DEF Idempotent, Halt, disk
<1>1. TypeOK'
  BY DEF IInv, TypeOK, States, InstallTry, UpdateTry, OtherPcs
<1>2. StoreInv'
  BY DEF IInv, StoreInv
<1>3. DiskInv'
  BY DiskUntouched DEF IInv
<1>4. InstallInv' /\ RemoveInv' /\ UpdateInv'
  BY Elsewhere DEF InstallPcs, InstallTry, RemovePcs, CarryPcs, UpdatePcs, UpdateTry, RevertPcs
<1>. QED  BY <1>1, <1>2, <1>3, <1>4 DEF IInv

LEMMA PlanUpdateStep ==
  ASSUME IInv, PlanUpdate
  PROVE  IInv'
<1>. USE DEF PlanUpdate, disk
<1>1. PICK v \in Versions, S \in SUBSET Files :
         plan' = [phase |-> "preparing", before |-> manifest,
                  after |-> Updated(manifest, S, v), snapshots |-> [f \in S |-> game[f]]]
  OBVIOUS
<1>2. marker = None /\ manifest \in Manifest /\ Faithful(manifest) /\ manifest.state = "installed"
  BY DEF IInv, TypeOK, UpdateInv, DiskInv, Installable, Loadable
<1>3. /\ Updated(manifest, S, v) \in Manifest /\ Updated(manifest, S, v).state = "installed"
      /\ Touched(Updated(manifest, S, v)) = Touched(manifest) \cup S
      /\ Faithful(Updated(manifest, S, v))
  <2>1. files \in [Places -> [Files -> Contents]]
    BY DEF IInv, TypeOK
  <2>2. /\ Updated(manifest, S, v) \in Manifest
        /\ Updated(manifest, S, v).state = manifest.state
        /\ Touched(Updated(manifest, S, v)) = Touched(manifest) \cup S
        /\ Faithful(manifest) => Faithful(Updated(manifest, S, v))
    BY <1>2, <2>1, UpdatedSet
  <2>. QED  BY <1>2, <2>2
<1>4. plan' \in Journal
  <2>1. \A f \in Files : game[f] \in Contents
    BY DEF IInv, TypeOK, game, Places
  <2>2. [f \in S |-> game[f]] \in Partial
    BY <2>1 DEF Partial
  <2>. QED  BY <1>1, <1>2, <1>3, <2>2 DEF Journal, Phases
<1>5. Planned(plan')
  <2>1. Files \ Kept(manifest) = Touched(manifest)
    BY <1>2 DEF Installable, Loadable, Valid
  <2>2. \A f \in S : game[f] # Before(f) => f \in Touched(manifest)
    BY <1>2 DEF IInv, DiskInv, Deployed, Replacing
  <2>. QED  BY <1>1, <1>2, <1>3, <2>1, <2>2 DEF Planned
<1>6. TypeOK'
  BY <1>4 DEF IInv, TypeOK, InstallTry, UpdateTry, OtherPcs
<1>7. StoreInv'
  BY DEF IInv, StoreInv
<1>8. DiskInv'
  BY DiskUntouched DEF IInv
<1>9. UpdateInv'
  BY <1>1, <1>2, <1>4, <1>5, NoneAssumption DEF UpdateInv, UpdateTry
<1>10. InstallInv' /\ RemoveInv'
  BY Elsewhere DEF InstallPcs, InstallTry, RemovePcs, CarryPcs
<1>. QED  BY <1>6, <1>7, <1>8, <1>9, <1>10 DEF IInv

LEMMA MarkPreparingStep ==
  ASSUME IInv, MarkPreparing
  PROVE  IInv'
<1>. USE DEF MarkPreparing, mem
<1>1. plan \in Journal /\ plan # None /\ Planned(plan)
  BY PlanType DEF UpdateTry, RevertPcs
<1>2. marker = None /\ manifest = plan.before /\ plan.phase # "ready"
  BY DEF IInv, UpdateInv, UpdateTry
<1>3. TypeOK'
  BY <1>1 DEF IInv, TypeOK, InstallTry, UpdateTry, OtherPcs
<1>4. StoreInv'
  BY DEF IInv, StoreInv
<1>5. DiskInv'
  BY <1>1, <1>2 DEF IInv, DiskInv, Deployed, Replacing, Secured, game
<1>6. UpdateInv'
  BY <1>1, <1>2 DEF IInv, UpdateInv, UpdateTry
<1>7. InstallInv' /\ RemoveInv'
  BY Elsewhere DEF InstallPcs, InstallTry, RemovePcs, CarryPcs
<1>. QED  BY <1>3, <1>4, <1>5, <1>6, <1>7 DEF IInv

LEMMA MkFolderStep ==
  ASSUME IInv, MkFolder
  PROVE  IInv'
<1>. USE DEF MkFolder, Loop
<1>1. DOMAIN plan.snapshots \subseteq Files
  BY PlanType DEF UpdateTry, RevertPcs
<1>2. TypeOK'
  BY <1>1 DEF IInv, TypeOK, InstallTry, UpdateTry, OtherPcs
<1>3. StoreInv'
  BY DEF IInv, StoreInv
<1>4. DiskInv'
  BY DiskUntouched DEF IInv
<1>5. UpdateInv'
  BY DEF IInv, UpdateInv, UpdateTry, Secured
<1>6. InstallInv' /\ RemoveInv'
  BY Elsewhere DEF InstallPcs, InstallTry, RemovePcs, CarryPcs
<1>. QED  BY <1>2, <1>3, <1>4, <1>5, <1>6 DEF IInv

LEMMA SnapshotStep ==
  ASSUME NEW f \in Files, IInv, Snapshot(f)
  PROVE  IInv'
<1>. USE DEF Snapshot, At, Done, Loop
<1>1. game[f] \in Contents
  BY DEF IInv, TypeOK, game, Places
<1>2. /\ files' \in [Places -> [Files -> Contents]]
      /\ game' = game /\ files'["backups"] = files["backups"]
  BY <1>1, PutType DEF IInv, TypeOK, Places, game
<1>3. TypeOK'
  BY <1>2 DEF IInv, TypeOK, InstallTry, UpdateTry, OtherPcs
<1>4. StoreInv'
  BY DEF IInv, StoreInv
<1>5. DiskInv'
  BY <1>2, DiskFiles DEF IInv, DiskInv, Secured, game
<1>6. UpdateInv'
  BY <1>2 DEF IInv, UpdateInv, UpdateTry, Secured
<1>7. InstallInv' /\ RemoveInv'
  BY Elsewhere DEF InstallPcs, InstallTry, RemovePcs, CarryPcs
<1>. QED  BY <1>3, <1>4, <1>5, <1>6, <1>7 DEF IInv

LEMMA KeepStep ==
  ASSUME NEW f \in Files, IInv, Keep(f)
  PROVE  IInv'
<1>. USE DEF Keep, At, Done, Loop
<1>1. plan \in Journal /\ plan # None /\ Planned(plan) /\ marker = plan
  BY PlanType DEF IInv, UpdateInv, UpdateTry, RevertPcs
<1>2. Backing(f) \in Contents /\ Backing(f) = Before(f)
  <2>1. Faithful(plan.before)
    BY <1>1 DEF Planned
  <2>. QED  BY <2>1 DEF IInv, TypeOK, Backing, Places, game, Keepable, Faithful
<1>3. /\ files' \in [Places -> [Files -> Contents]] /\ game' = game
      /\ Secured(f)' /\ \A g \in Files : Secured(g) => Secured(g)'
  BY <1>2, PutType DEF IInv, TypeOK, Places, game, Secured, Before
<1>4. DOMAIN plan.snapshots \subseteq Files
  BY PlanType DEF UpdateTry, RevertPcs
<1>5. TypeOK'
  BY <1>3 DEF IInv, TypeOK, InstallTry, UpdateTry, OtherPcs
<1>6. StoreInv'
  BY DEF IInv, StoreInv
<1>7. DiskInv'
  BY <1>3, DiskFiles DEF IInv, DiskInv, game
<1>8. UpdateInv'
  BY <1>3, <1>4 DEF IInv, UpdateInv, UpdateTry
<1>9. InstallInv' /\ RemoveInv'
  BY Elsewhere DEF InstallPcs, InstallTry, RemovePcs, CarryPcs
<1>. QED  BY <1>5, <1>6, <1>7, <1>8, <1>9 DEF IInv

LEMMA PriorStep ==
  ASSUME IInv, Prior
  PROVE  IInv'
<1>. USE DEF Prior, mem, disk
<1>1. TypeOK'
  BY DEF IInv, TypeOK, InstallTry, UpdateTry, OtherPcs
<1>2. StoreInv'
  BY DEF IInv, StoreInv
<1>3. DiskInv'
  BY DiskUntouched DEF IInv
<1>4. UpdateInv'
  BY DEF IInv, UpdateInv, UpdateTry, Secured
<1>5. InstallInv' /\ RemoveInv'
  BY Elsewhere DEF InstallPcs, InstallTry, RemovePcs, CarryPcs
<1>. QED  BY <1>1, <1>2, <1>3, <1>4, <1>5 DEF IInv

LEMMA MarkReadyStep ==
  ASSUME IInv, MarkReady
  PROVE  IInv'
<1>. USE DEF MarkReady, Loop
<1>1. plan \in Journal /\ plan # None /\ Planned(plan) /\ marker = plan
  BY PlanType DEF IInv, UpdateInv, UpdateTry, RevertPcs
<1>2. plan.before \in Manifest /\ plan.after \in Manifest /\ plan.before # None /\ plan.after # None
  BY PlanType DEF UpdateTry, RevertPcs
<1>3. /\ plan' \in Journal /\ plan' # None /\ plan'.phase = "ready"
      /\ marker' = plan' /\ Planned(plan')
      /\ plan'.before = plan.before /\ plan'.after = plan.after /\ plan'.snapshots = plan.snapshots
  BY <1>1, PhaseSet, NoneAssumption DEF Mark, Phases
<1>4. DOMAIN plan.snapshots \subseteq Files
  BY PlanType DEF UpdateTry, RevertPcs
<1>5. manifest = plan.before /\ \A g \in DOMAIN plan.snapshots \cap Kept(plan.before) : Secured(g)
  BY DEF IInv, UpdateInv, UpdateTry
<1>6. TypeOK'
  BY <1>3, <1>4 DEF IInv, TypeOK, InstallTry, UpdateTry, OtherPcs
<1>7. StoreInv'
  BY DEF IInv, StoreInv
<1>8. DiskInv'
  <2>1. \A g \in Files : /\ Deployed(g)' = Deployed(g)
                         /\ Deployed(g) <=> g \in Touched(plan.before)
                         /\ Replacing(g)' <=> g \in DOMAIN plan.snapshots
                         /\ ~Replacing(g)
    BY <1>1, <1>2, <1>5, <1>3 DEF IInv, UpdateInv, UpdateTry, Planned, Deployed, Replacing
  <2>2. \A g \in Files : g \in DOMAIN plan.snapshots => Secured(g)
    BY <1>1, <1>5, <2>1 DEF IInv, DiskInv, Planned
  <2>. QED  BY <1>1, <1>2, <1>3, <1>5, <2>1, <2>2 DEF IInv, DiskInv, Secured, game, Planned
<1>9. UpdateInv'
  BY <1>1, <1>3, <1>5 DEF IInv, UpdateInv, UpdateTry
<1>10. InstallInv' /\ RemoveInv'
  BY Elsewhere DEF InstallPcs, InstallTry, RemovePcs, CarryPcs
<1>. QED  BY <1>6, <1>7, <1>8, <1>9, <1>10 DEF IInv

LEMMA ReplaceStep ==
  ASSUME NEW f \in Files, IInv, Replace(f)
  PROVE  IInv'
<1>. USE DEF Replace, At, Done, Loop
<1>1. plan \in Journal /\ plan # None /\ Planned(plan) /\ marker = plan /\ plan.phase = "ready"
  BY PlanType DEF IInv, UpdateInv, UpdateTry, RevertPcs
<1>2. plan.before \in Manifest /\ plan.after \in Manifest /\ plan.before # None /\ plan.after # None
  BY PlanType DEF UpdateTry, RevertPcs
<1>3. plan.after.files[f].sha \in Contents
  BY <1>2, ItemType
<1>4. /\ files' \in [Places -> [Files -> Contents]] /\ game'[f] = plan.after.files[f].sha
      /\ \A g \in Files \ {f} : game'[g] = game[g]
      /\ \A g \in Files : Secured(g)' <=> Secured(g)
  BY <1>3, PutType DEF IInv, TypeOK, Places, game, Secured
<1>5. Replacing(f)
  BY <1>1 DEF IInv, UpdateInv, UpdateTry, Replacing
<1>6. TypeOK'
  BY <1>4 DEF IInv, TypeOK, InstallTry, UpdateTry, OtherPcs
<1>7. StoreInv'
  BY DEF IInv, StoreInv
<1>8. DiskInv'
  BY <1>4, <1>5, DiskFiles DEF IInv, DiskInv, game
<1>9. UpdateInv'
  BY DEF IInv, UpdateInv, UpdateTry
<1>10. InstallInv' /\ RemoveInv'
  BY Elsewhere DEF InstallPcs, InstallTry, RemovePcs, CarryPcs
<1>. QED  BY <1>6, <1>7, <1>8, <1>9, <1>10 DEF IInv

LEMMA AfterStep ==
  ASSUME IInv, After
  PROVE  IInv'
<1>. USE DEF After, mem, disk
<1>1. TypeOK'
  BY DEF IInv, TypeOK, InstallTry, UpdateTry, OtherPcs
<1>2. StoreInv'
  BY DEF IInv, StoreInv
<1>3. DiskInv'
  BY DiskUntouched DEF IInv
<1>4. UpdateInv'
  BY DEF IInv, UpdateInv, UpdateTry
<1>5. InstallInv' /\ RemoveInv'
  BY Elsewhere DEF InstallPcs, InstallTry, RemovePcs, CarryPcs
<1>. QED  BY <1>1, <1>2, <1>3, <1>4, <1>5 DEF IInv

LEMMA NewManifestStep ==
  ASSUME IInv, NewManifest
  PROVE  IInv'
<1>. USE DEF NewManifest, mem
<1>1. plan \in Journal /\ plan # None /\ Planned(plan) /\ marker = plan /\ plan.phase = "ready"
  BY PlanType DEF IInv, UpdateInv, UpdateTry, RevertPcs
<1>2. plan.before \in Manifest /\ plan.after \in Manifest /\ plan.before # None /\ plan.after # None
  BY PlanType DEF UpdateTry, RevertPcs
<1>3. \A g \in Files : Deployed(g) \/ Replacing(g)
                         <=> g \in Touched(plan.before) \cup DOMAIN plan.snapshots
  BY <1>1, Covered, PlanType DEF Deployed, Replacing, UpdateTry, RevertPcs, Touched
<1>4. TypeOK'
  BY <1>2 DEF IInv, TypeOK, InstallTry, UpdateTry, OtherPcs
<1>5. StoreInv'
  BY DEF IInv, StoreInv
<1>6. DiskInv'
  <2>1. \A g \in Files : Deployed(g)' \/ Replacing(g)' <=> Deployed(g) \/ Replacing(g)
    BY <1>1, <1>2, <1>3 DEF Planned, Deployed, Replacing
  <2>. QED  BY <1>1, <1>2, <2>1 DEF IInv, DiskInv, Planned, Secured, game
<1>7. UpdateInv'
  BY <1>1, <1>2 DEF IInv, UpdateInv, UpdateTry
<1>8. InstallInv' /\ RemoveInv'
  BY Elsewhere DEF InstallPcs, InstallTry, RemovePcs, CarryPcs
<1>. QED  BY <1>4, <1>5, <1>6, <1>7, <1>8 DEF IInv

LEMMA MarkCommittedStep ==
  ASSUME IInv, MarkCommitted
  PROVE  IInv'
<1>. USE DEF MarkCommitted
<1>1. plan \in Journal /\ plan # None /\ Planned(plan) /\ marker = plan /\ plan.phase = "ready"
  BY PlanType DEF IInv, UpdateInv, UpdateTry, RevertPcs
<1>2. plan.before \in Manifest /\ plan.after \in Manifest /\ plan.before # None /\ plan.after # None
  BY PlanType DEF UpdateTry, RevertPcs
<1>3. \A g \in Files : Deployed(g) \/ Replacing(g)
                         <=> g \in Touched(plan.before) \cup DOMAIN plan.snapshots
  BY <1>1, Covered, PlanType DEF Deployed, Replacing, UpdateTry, RevertPcs, Touched
<1>4. /\ plan' \in Journal /\ plan' # None /\ plan'.phase = "committed"
      /\ marker' = plan' /\ Planned(plan')
      /\ plan'.before = plan.before /\ plan'.after = plan.after /\ plan'.snapshots = plan.snapshots
  BY <1>1, PhaseSet, NoneAssumption DEF Mark, Phases
<1>5. TypeOK'
  BY <1>4 DEF IInv, TypeOK, InstallTry, UpdateTry, OtherPcs
<1>6. StoreInv'
  BY DEF IInv, StoreInv
<1>7. DiskInv'
  <2>1. manifest = plan.after
    BY DEF IInv, UpdateInv, UpdateTry
  <2>2. \A g \in Files : Deployed(g)' \/ Replacing(g)' <=> Deployed(g) \/ Replacing(g)
    BY <1>1, <1>2, <1>3, <1>4, <2>1 DEF Planned, Deployed, Replacing
  <2>. QED  BY <1>1, <1>2, <1>4, <2>1, <2>2 DEF IInv, DiskInv, Planned, Secured, game
<1>8. UpdateInv'
  BY <1>4 DEF UpdateInv, UpdateTry
<1>9. InstallInv' /\ RemoveInv'
  BY Elsewhere DEF InstallPcs, InstallTry, RemovePcs, CarryPcs
<1>. QED  BY <1>5, <1>6, <1>7, <1>8, <1>9 DEF IInv

LEMMA LoadRemovedStep ==
  ASSUME IInv, LoadRemoved
  PROVE  IInv'
<1>. USE DEF LoadRemoved, mem, disk
<1>1. TypeOK'
  BY DEF IInv, TypeOK, InstallTry, UpdateTry, OtherPcs
<1>2. StoreInv'
  BY DEF IInv, StoreInv
<1>3. DiskInv'
  BY DiskUntouched DEF IInv
<1>4. RemoveInv'
  BY DEF Removable, Loadable, RemoveInv
<1>5. InstallInv' /\ UpdateInv'
  BY Elsewhere DEF InstallPcs, InstallTry, UpdatePcs, UpdateTry, RevertPcs
<1>. QED  BY <1>1, <1>2, <1>3, <1>4, <1>5 DEF IInv

LEMMA LoadPresentStep ==
  ASSUME IInv, LoadPresent
  PROVE  IInv'
<1>. USE DEF LoadPresent, disk
<1>1. TypeOK'
  BY DEF IInv, TypeOK, InstallTry, UpdateTry, OtherPcs
<1>2. StoreInv'
  BY DEF IInv, StoreInv
<1>3. DiskInv'
  BY DiskUntouched DEF IInv
<1>4. RemoveInv'
  <2>1. marker = None /\ manifest # None /\ Faithful(manifest)
    BY DEF IInv, UpdateInv, DiskInv, Removable, Loadable
  <2>. QED  BY <2>1 DEF RemoveInv, Carries, Same
<1>5. InstallInv' /\ UpdateInv'
  BY Elsewhere DEF InstallPcs, InstallTry, UpdatePcs, UpdateTry, RevertPcs
<1>. QED  BY <1>1, <1>2, <1>3, <1>4, <1>5 DEF IInv

LEMMA MkUndoStep ==
  ASSUME IInv, MkUndo
  PROVE  IInv'
<1>. USE DEF MkUndo, Loop
<1>1. data \in Manifest /\ data # None /\ Faithful(data) /\ marker = None
  BY DataType DEF InstallPcs, CarryPcs, InstallTry
<1>2. TypeOK'
  BY <1>1 DEF IInv, TypeOK, Subdirs, Manifest, States, Touched, InstallTry, UpdateTry, OtherPcs
<1>3. StoreInv'
  BY DEF IInv, StoreInv
<1>4. DiskInv'
  BY DiskUntouched DEF IInv
<1>5. RemoveInv'
  <2>1. manifest # None /\ Touched(manifest) = Touched(data) /\ manifest.state = data.state
    BY SameFiles DEF IInv, RemoveInv, Same
  <2>2. \A g \in Files : game[g] # Before(g) => g \in Touched(data)
    BY <1>1, <2>1 DEF IInv, DiskInv, Deployed, Replacing
  <2>. QED  BY <2>1, <2>2 DEF IInv, RemoveInv, Carries, Same, game
<1>6. InstallInv' /\ UpdateInv'
  BY Elsewhere DEF InstallPcs, InstallTry, UpdatePcs, UpdateTry, RevertPcs
<1>. QED  BY <1>2, <1>3, <1>4, <1>5, <1>6 DEF IInv

LEMMA SaveStep ==
  ASSUME NEW f \in Files, IInv, Save(f)
  PROVE  IInv'
<1>. USE DEF Save, At, Done, Loop
<1>1. data \in Manifest /\ data # None /\ Faithful(data) /\ marker = None
  BY DataType DEF InstallPcs, CarryPcs, InstallTry
<1>2. game[f] \in Contents /\ f \in Touched(data)
  BY DEF IInv, TypeOK, game, Places, RemoveInv
<1>3. /\ data' \in Manifest /\ data'.state = data.state /\ data'.files = data.files
      /\ Faithful(data') /\ data' # None /\ Touched(data') = Touched(data)
  <2>1. /\ data' \in Manifest /\ data'.state = data.state
        /\ data'.files = data.files /\ Faithful(data')
    BY <1>1, <1>2, SaveSet
  <2>. QED  BY <2>1, SameFiles, NoneAssumption
<1>4. /\ files' \in [Places -> [Files -> Contents]]
      /\ game' = game /\ files'["backups"] = files["backups"]
  BY <1>2, PutType DEF IInv, TypeOK, Places, game
<1>5. TypeOK'
  BY <1>3, <1>4 DEF IInv, TypeOK, InstallTry, UpdateTry, OtherPcs
<1>6. StoreInv'
  BY DEF IInv, StoreInv
<1>7. DiskInv'
  BY <1>4, DiskFiles DEF IInv, DiskInv, Secured, game
<1>8. RemoveInv'
  BY <1>1, <1>3 DEF IInv, RemoveInv, Carries, Same
<1>9. InstallInv' /\ UpdateInv'
  BY Elsewhere DEF InstallPcs, InstallTry, UpdatePcs, UpdateTry, RevertPcs
<1>. QED  BY <1>5, <1>6, <1>7, <1>8, <1>9 DEF IInv

LEMMA UninstallingStep ==
  ASSUME IInv, Uninstalling
  PROVE  IInv'
<1>. USE DEF Uninstalling, Loop
<1>1. data \in Manifest /\ data # None /\ Faithful(data) /\ marker = None
  BY DataType DEF InstallPcs, CarryPcs, InstallTry
<1>2. /\ data' \in Manifest /\ data'.state = "uninstalling" /\ data'.files = data.files
      /\ Touched(data') = Touched(data) /\ Kept(data') = Kept(data)
      /\ Backed(data') = Backed(data) /\ Faithful(data') /\ data' # None
  BY <1>1, StateSet, NoneAssumption DEF States
<1>3. manifest # None /\ Touched(manifest) = Touched(data) /\ manifest.state # "removed"
  BY SameFiles DEF IInv, RemoveInv, Same
<1>4. \A g \in Files : game[g] # Before(g) => g \in Touched(data)
  BY <1>1, <1>3 DEF IInv, DiskInv, Deployed, Replacing
<1>5. TypeOK'
  BY <1>2 DEF IInv, TypeOK, Touched, InstallTry, UpdateTry, OtherPcs
<1>6. StoreInv'
  BY DEF IInv, StoreInv
<1>7. DiskInv'
  BY <1>1, <1>2, <1>3, <1>4, DiskManifest DEF IInv, DiskInv, Deployed
<1>8. RemoveInv'
  BY <1>1, <1>2, <1>3, <1>4 DEF IInv, RemoveInv, Carries, Same, game
<1>9. InstallInv' /\ UpdateInv'
  BY Elsewhere DEF InstallPcs, InstallTry, UpdatePcs, UpdateTry, RevertPcs
<1>. QED  BY <1>5, <1>6, <1>7, <1>8, <1>9 DEF IInv

LEMMA UnrestoreStep ==
  ASSUME NEW f \in Files, IInv, Unrestore(f)
  PROVE  IInv'
<1>. USE DEF Unrestore, At, Done, Loop
<1>1. data \in Manifest /\ data # None /\ Faithful(data) /\ marker = None
  BY DataType DEF InstallPcs, CarryPcs, InstallTry
<1>2. f \in DOMAIN data.undo /\ data.undo[f] \in Contents
  BY <1>1, UndoType DEF IInv, RemoveInv
<1>3. /\ files' \in [Places -> [Files -> Contents]] /\ game'[f] = data.undo[f]
      /\ \A g \in Files \ {f} : game'[g] = game[g]
      /\ \A g \in Files : Secured(g)' <=> Secured(g)
  BY <1>2, PutType DEF IInv, TypeOK, Places, game, Secured
<1>4. Deployed(f)
  BY <1>1, <1>2, SameFiles DEF IInv, RemoveInv, Same, Faithful, Deployed
<1>5. TypeOK'
  BY <1>3 DEF IInv, TypeOK, InstallTry, UpdateTry, OtherPcs
<1>6. StoreInv'
  BY DEF IInv, StoreInv
<1>7. DiskInv'
  BY <1>3, <1>4, DiskFiles DEF IInv, DiskInv, game
<1>8. RemoveInv'
  BY <1>1 DEF IInv, RemoveInv, Carries, Same
<1>9. InstallInv' /\ UpdateInv'
  BY Elsewhere DEF InstallPcs, InstallTry, UpdatePcs, UpdateTry, RevertPcs
<1>. QED  BY <1>5, <1>6, <1>7, <1>8, <1>9 DEF IInv

LEMMA UndoneStep ==
  ASSUME IInv, Undone
  PROVE  IInv'
<1>. USE DEF Undone, Halt
<1>1. data \in Manifest /\ data # None /\ Faithful(data) /\ marker = None
  BY DataType DEF InstallPcs, CarryPcs, InstallTry
<1>2. /\ manifest' \in Manifest /\ manifest' # None /\ manifest'.state # "removed"
      /\ Touched(manifest') = Touched(data) /\ Faithful(manifest')
  BY <1>1, StateSet, NoneAssumption DEF IInv, TypeOK, RemoveInv
<1>3. manifest # None /\ Touched(manifest) = Touched(data) /\ manifest.state # "removed"
  BY SameFiles DEF IInv, RemoveInv, Same
<1>4. TypeOK'
  BY <1>2 DEF IInv, TypeOK, States, InstallTry, UpdateTry, OtherPcs
<1>5. StoreInv'
  BY DEF IInv, StoreInv
<1>6. DiskInv'
  BY <1>1, <1>2, <1>3, DiskManifest DEF IInv, DiskInv, Deployed, Replacing
<1>7. InstallInv' /\ RemoveInv' /\ UpdateInv'
  BY Elsewhere DEF InstallPcs, InstallTry, RemovePcs, CarryPcs, UpdatePcs, UpdateTry, RevertPcs
<1>. QED  BY <1>4, <1>5, <1>6, <1>7 DEF IInv

-----------------------------------------------------------------------------
(* Failures, and the settings rewritten. *)

LEMMA HaltStep ==
  ASSUME IInv, Halt, UNCHANGED <<files, dirs, manifest, marker>>,
         temps' \subseteq {"store", "stage", "backups", "update"},
         budget' \in [crash : 0 .. MaxCrashes, error : 0 .. MaxErrors, edit : 0 .. MaxEdits]
  PROVE  IInv'
<1>. USE DEF Halt
<1>1. TypeOK'
  BY DEF IInv, TypeOK, States, InstallTry, UpdateTry, OtherPcs
<1>2. StoreInv'
  BY DEF IInv, StoreInv
<1>3. DiskInv'
  BY DiskUntouched DEF IInv
<1>4. InstallInv' /\ RemoveInv' /\ UpdateInv'
  BY Elsewhere DEF InstallPcs, InstallTry, RemovePcs, CarryPcs, UpdatePcs, UpdateTry, RevertPcs
<1>. QED  BY <1>1, <1>2, <1>3, <1>4 DEF IInv

\* an exception, wherever it is caught
LEMMA CaughtStep ==
  ASSUME IInv, Caught, pc # "idle", UNCHANGED disk,
         budget' \in [crash : 0 .. MaxCrashes, error : 0 .. MaxErrors, edit : 0 .. MaxEdits]
  PROVE  IInv'
<1>. USE DEF disk
<1>1. CASE Halt
  BY <1>1, HaltStep DEF IInv, TypeOK
<1>2. ASSUME pc \in InstallTry, pc' = "rollback", todo' = {}, UNCHANGED <<op, data, plan, prev>>
      PROVE  IInv'
  <2>. USE <1>2
  <2>1. TypeOK'
    BY DEF IInv, TypeOK, OtherPcs
  <2>2. StoreInv'
    BY DEF IInv, StoreInv, InstallTry
  <2>3. DiskInv'
    BY DiskUntouched DEF IInv
  <2>4. InstallInv'
    BY DEF IInv, InstallInv, Carries, InstallTry
  <2>5. RemoveInv' /\ UpdateInv'
    BY Elsewhere DEF RemovePcs, CarryPcs, UpdatePcs, UpdateTry, RevertPcs
  <2>. QED  BY <2>1, <2>2, <2>3, <2>4, <2>5 DEF IInv
<1>3. ASSUME pc \in UpdateTry, pc' = "recover", todo' = {}, UNCHANGED <<op, data, plan, prev>>
      PROVE  IInv'
  <2>. USE <1>3
  <2>1. TypeOK'
    BY DEF IInv, TypeOK, OtherPcs
  <2>2. StoreInv'
    BY DEF IInv, StoreInv, UpdateTry
  <2>3. DiskInv'
    BY DiskUntouched DEF IInv
  <2>4. InstallInv' /\ RemoveInv' /\ UpdateInv'
    BY Elsewhere DEF InstallPcs, InstallTry, RemovePcs, CarryPcs, UpdatePcs, UpdateTry, RevertPcs
  <2>. QED  BY <2>1, <2>2, <2>3, <2>4 DEF IInv
<1>4. ASSUME pc = "restore", op = "uninstall", Loop("unrestore", DOMAIN data.undo, "undone"),
             UNCHANGED <<op, data, plan, prev>>
      PROVE  IInv'
  <2>. USE <1>4 DEF Loop
  <2>1. DOMAIN data.undo \subseteq Files
    BY DataType, UndoType DEF CarryPcs
  <2>2. TypeOK'
    BY <2>1 DEF IInv, TypeOK, InstallTry, UpdateTry, OtherPcs
  <2>3. StoreInv'
    BY DEF IInv, StoreInv
  <2>4. DiskInv'
    BY DiskUntouched DEF IInv
  <2>5. RemoveInv'
    BY DEF IInv, RemoveInv, Carries, Same
  <2>6. InstallInv' /\ UpdateInv'
    BY Elsewhere DEF InstallPcs, InstallTry, UpdatePcs, UpdateTry, RevertPcs
  <2>. QED  BY <2>2, <2>3, <2>4, <2>5, <2>6 DEF IInv
<1>. QED  BY <1>1, <1>2, <1>3, <1>4 DEF Caught

LEMMA RefuseStep ==
  ASSUME IInv, Refuse
  PROVE  IInv'
<1>1. pc # "idle"
  BY DEF Refuse, Refused
<1>. QED  BY <1>1, CaughtStep DEF Refuse, IInv, TypeOK

LEMMA ErrorStep ==
  ASSUME IInv, Error
  PROVE  IInv'
<1>1. budget' \in [crash : 0 .. MaxCrashes, error : 0 .. MaxErrors, edit : 0 .. MaxEdits]
  BY BoundAssumption DEF Error, IInv, TypeOK
<1>. QED  BY <1>1, CaughtStep DEF Error

LEMMA CrashStep ==
  ASSUME IInv, Crash
  PROVE  IInv'
<1>1. budget' \in [crash : 0 .. MaxCrashes, error : 0 .. MaxErrors, edit : 0 .. MaxEdits]
  BY BoundAssumption DEF Crash, IInv, TypeOK
<1>2. temps' \subseteq {"store", "stage", "backups", "update"}
  BY DebrisAssumption DEF Crash, IInv, TypeOK
<1>. QED  BY <1>1, <1>2, HaltStep DEF Crash

\* Settings that are rewritten were written by an installation.
LEMMA EditStep ==
  ASSUME IInv, Edit
  PROVE  IInv'
<1>. USE DEF Edit, mem
<1>1. Ini \in Files /\ Edited \in Contents /\ game[Ini] # Before(Ini)
  BY FilesAssumption, ContentAssumption DEF Before, Contents
<1>2. /\ files' \in [Places -> [Files -> Contents]]
      /\ \A g \in Files \ {Ini} : game'[g] = game[g]
      /\ \A g \in Files : Secured(g)' <=> Secured(g)
  BY <1>1, PutType DEF IInv, TypeOK, Places, game, Secured
<1>3. Deployed(Ini) \/ Replacing(Ini)
  BY <1>1 DEF IInv, DiskInv
<1>4. budget' \in [crash : 0 .. MaxCrashes, error : 0 .. MaxErrors, edit : 0 .. MaxEdits]
  BY BoundAssumption DEF IInv, TypeOK
<1>5. TypeOK'
  BY <1>2, <1>4 DEF IInv, TypeOK
<1>6. StoreInv'
  BY DEF IInv, StoreInv
<1>7. DiskInv'
  BY <1>2, <1>3, DiskFiles DEF IInv, DiskInv, game
<1>8. InstallInv'
  BY <1>2 DEF IInv, InstallInv, Carries, Backed
<1>9. RemoveInv'
  BY <1>1, <1>2 DEF IInv, RemoveInv, Carries, Same
<1>10. UpdateInv'
  <2>1. plan # None /\ pc \in UpdateTry \cup RevertPcs => DOMAIN plan.snapshots \subseteq Files
    BY PlanType
  <2>. QED  BY <1>1, <1>2, <2>1 DEF IInv, UpdateInv, RevertPcs
<1>. QED  BY <1>5, <1>6, <1>7, <1>8, <1>9, <1>10 DEF IInv

-----------------------------------------------------------------------------
(* The theorems. *)

LEMMA InitInv == Init => IInv
<1>. SUFFICES ASSUME Init PROVE IInv
  OBVIOUS
<1>. USE DEF Init
<1>1. TypeOK
  BY BoundAssumption DEF TypeOK, Places, Before, Empty, Contents, States, OtherPcs
<1>2. StoreInv /\ InstallInv /\ RemoveInv /\ UpdateInv
  BY DEF StoreInv, InstallInv, RemoveInv, UpdateInv, InstallTry, UpdateTry
<1>3. DiskInv
  BY DEF DiskInv, Deployed, Replacing, game, Places
<1>. QED  BY <1>1, <1>2, <1>3 DEF IInv

LEMMA StepInv == IInv /\ [Next]_vars => IInv'
<1>. SUFFICES ASSUME IInv, [Next]_vars PROVE IInv'
  OBVIOUS
<1>1. ASSUME Install PROVE IInv'
  BY <1>1, MkStoreStep, PrepareStep, MkSubdirStep, InstallingStep, RecordStep, InstalledStep,
     FinalStep, RollbackStep, BackupStep, IntentStep, CopyStep DEF Install
<1>2. ASSUME Cleanup PROVE IInv'
  BY <1>2, PreflightStep, UnlinkStep, RmSubdirStep, UnjournalStep, RmStoreStep DEF Cleanup
<1>3. ASSUME Recover PROVE IInv'
  BY <1>3, NoUpdateStep, BeginRevertStep, BeginSweepStep, RemanifestStep, RestoredStep,
     SweepStep, RmFolderStep, UnmarkStep, RevertStep DEF Recover
<1>4. ASSUME Update PROVE IInv'
  BY <1>4, IdempotentStep, PlanUpdateStep, MarkPreparingStep, MkFolderStep, PriorStep,
     MarkReadyStep, AfterStep, NewManifestStep, MarkCommittedStep, SnapshotStep, KeepStep,
     ReplaceStep DEF Update
<1>5. ASSUME Uninstall PROVE IInv'
  BY <1>5, LoadRemovedStep, LoadPresentStep, MkUndoStep, UninstallingStep, RemovedStep,
     UndoneStep, SaveStep, RestoreStep, UnrestoreStep DEF Uninstall
<1>6. CASE UNCHANGED vars
  <2>. USE <1>6 DEF vars, disk, mem
  <2>1. TypeOK'
    BY DEF IInv, TypeOK
  <2>2. StoreInv' /\ DiskInv'
    BY DiskUntouched DEF IInv, StoreInv
  <2>3. InstallInv' /\ RemoveInv' /\ UpdateInv'
    BY DEF IInv, InstallInv, RemoveInv, UpdateInv, Carries, Same, Secured, game
  <2>. QED  BY <2>1, <2>2, <2>3 DEF IInv
<1>. QED  BY <1>1, <1>2, <1>3, <1>4, <1>5, <1>6, BeginInstallStep, BeginReinstallStep,
             BeginUninstallStep, RefuseStep, ErrorStep, CrashStep, EditStep DEF Next, Proceed

LEMMA IInvAlways == Spec => []IInv
BY InitInv, StepInv, PTL DEF Spec

\* The values on the disk and in the process stay of their types: TypeOK, for
\* every instance.
THEOREM DeployTypes == Spec => []TypeOK
<1>1. IInv => TypeOK
  BY DEF IInv
<1>. QED  BY <1>1, IInvAlways, PTL

\* A file that differs from what the user had is accounted for by a journal on
\* the disk, however often the commands fail or are killed: Accountable.
THEOREM ChangesAreAccountable == Spec => []Accountable
<1>1. IInv => Accountable
  <2>. SUFFICES ASSUME IInv, NEW f \in Files, game[f] # Before(f)
                PROVE  /\ manifest # None /\ manifest.state # "removed"
                       /\ \/ f \in Touched(manifest)
                          \/ /\ marker # None /\ marker.phase = "ready"
                             /\ f \in DOMAIN marker.snapshots
    BY DEF Accountable, game
  <2>1. CASE Deployed(f)
    BY <2>1 DEF Deployed
  <2>2. CASE Replacing(f)
    BY <2>2, Covered DEF Replacing
  <2>. QED  BY <2>1, <2>2 DEF IInv, DiskInv
<1>. QED  BY <1>1, IInvAlways, PTL

\* A file the user had is in its place or in backups, however often install,
\* update, recovery and uninstall fail or are killed: OriginalsKept.
THEOREM OriginalsAreKept == Spec => []OriginalsKept
<1>1. IInv => OriginalsKept
  <2>. SUFFICES ASSUME IInv, NEW f \in Present
                PROVE  Original \in {game[f], files["backups"][f]}
    BY DEF OriginalsKept, game
  <2>1. f \in Files
    BY FilesAssumption
  <2>2. CASE game[f] = Before(f)
    BY <2>2 DEF Before
  <2>3. CASE Deployed(f) \/ Replacing(f)
    BY <2>1, <2>3 DEF IInv, DiskInv, Secured
  <2>. QED  BY <2>1, <2>2, <2>3 DEF IInv, DiskInv
<1>. QED  BY <1>1, IInvAlways, PTL

-----------------------------------------------------------------------------
(* JournalsAccepted and SnapshotsKept.  What a command journals it carries in *)
(* its memory first, and a journal asks for snapshots once all are taken: the *)
(* invariant says what the command carries, and what it has taken so far.     *)

\* what Valid asks of a manifest's entries in every state
Shape(m) == \A f \in Files : m.files[f].preserve =>
              f = Weights /\ m.files[f].original = m.files[f].sha /\ ~m.files[f].touched

Untouched(m) == \A f \in Files : ~m.files[f].touched
Replaced(m)  == Files \ Kept(m) \subseteq Touched(m)

\* the manifest may be journalled in state s
Fits(m, s) ==
  /\ Shape(m)
  /\ s = "installed" => Replaced(m)
  /\ s = "preparing" => Untouched(m)

JournalInv ==
  /\ manifest # None => Valid(manifest)
  /\ marker # None => Valid(marker.before) /\ Valid(marker.after)

\* what a command carries it may write, in the states it goes through
CarriedInv ==
  /\ pc \in InstallPcs \cup CarryPcs => Shape(data)
  /\ pc \in {"mkdir", "prepare", "subdirs", "backup", "installing"} =>
       data.state = "preparing" /\ Untouched(data)
  /\ pc \in {"intent", "record", "copy"} =>
       /\ data.state = "installing" /\ todo \subseteq Files \ Kept(data)
       /\ Files \ Kept(data) \subseteq Touched(data) \cup todo
  /\ pc = "installed" => Replaced(data)
  /\ pc = "mkundo" => Valid(data)
  /\ pc \in {"save", "uninstalling", "unrestore", "undone"} => Fits(data, prev)
  /\ pc = "restore" /\ op = "uninstall" => Fits(data, prev)

PlanInv == pc \in UpdateTry \cup RevertPcs => Valid(plan.before) /\ Valid(plan.after)

\* the snapshots an update has taken so far; a file that was kept is out of the
\* loop only when its backup is there too
Taken(f) == files["update"][f] = plan.snapshots[f]

TakenInv ==
  /\ pc \in {"snapshot", "keep"} => \A f \in DOMAIN plan.snapshots \ todo : Taken(f)
  /\ pc = "keep" => \A f \in todo \cap Kept(plan.before) : Taken(f)
  /\ pc \in {"prior", "ready"} => \A f \in DOMAIN plan.snapshots : Taken(f)

JInv == JournalInv /\ CarriedInv /\ PlanInv /\ SnapshotsKept /\ TakenInv

\* What _validate_manifest accepts, by the state the manifest is in.
LEMMA ValidFits ==
  ASSUME NEW m
  PROVE  Valid(m) <=> Fits(m, m.state)
BY DEF Valid, Fits, Shape, Untouched, Replaced, Touched

\* Manifests with the same entries fit the same states.
LEMMA FitsFiles ==
  ASSUME NEW m, NEW n, m.files = n.files
  PROVE  /\ Shape(m) <=> Shape(n)
         /\ Untouched(m) <=> Untouched(n)
         /\ Replaced(m) <=> Replaced(n)
         /\ \A s : Fits(m, s) <=> Fits(n, s)
BY DEF Fits, Shape, Untouched, Replaced, Touched, Kept

\* A manifest may be written in any state it fits.
LEMMA WrittenFits ==
  ASSUME NEW m \in Manifest, NEW s \in States, Fits(m, s),
         NEW n, n = [m EXCEPT !.state = s]
  PROVE  Valid(n)
BY StateSet, FitsFiles, ValidFits

\* Marking a file that is not kept disturbs no entry that is.
LEMMA IntentShape ==
  ASSUME NEW m \in Manifest, NEW f \in Files \ Kept(m), Shape(m),
         NEW n, n = [m EXCEPT !.files[f].touched = TRUE]
  PROVE  Shape(n)
<1>1. \A g \in Files \ {f} : n.files[g] = m.files[g]
  BY DEF Manifest
<1>2. f \notin Kept(n)
  BY TouchedSet
<1>. QED  BY <1>1, <1>2 DEF Shape, Kept

-----------------------------------------------------------------------------
(* One lemma per part. *)

\* where the parts say nothing
LEMMA JElsewhere ==
  /\ pc' \notin InstallPcs \cup CarryPcs => CarriedInv'
  /\ pc' \notin UpdateTry \cup RevertPcs => PlanInv'
  /\ pc' \notin {"snapshot", "keep", "prior", "ready"} => TakenInv'
BY DEF CarriedInv, PlanInv, TakenInv, InstallPcs, InstallTry, CarryPcs, UpdateTry, RevertPcs

LEMMA CarriedInstall ==
  ASSUME IInv, CarriedInv, BeginInstall \/ Install
  PROVE  CarriedInv'
<1>1. ASSUME BeginInstall PROVE CarriedInv'
  <2>1. PICK v \in Versions, kept \in SUBSET {Weights} :
           data' = [state |-> "preparing", undo |-> Nothing,
                    files |-> [f \in Files |->
                      [sha |-> IF f \in kept THEN game[f] ELSE v, original |-> game[f],
                       preserve |-> f \in kept, touched |-> FALSE]]]
    BY <1>1 DEF BeginInstall
  <2>2. Shape(data') /\ Untouched(data') /\ data'.state = "preparing"
    BY <2>1 DEF Shape, Untouched
  <2>. QED  BY <1>1, <2>2 DEF BeginInstall, CarriedInv, CarryPcs, Shape, Untouched
<1>2. ASSUME MkStore \/ Prepare PROVE CarriedInv'
  BY <1>2 DEF MkStore, Prepare, mem, CarriedInv, InstallPcs, InstallTry, CarryPcs, Shape, Untouched
<1>3. ASSUME MkSubdir PROVE CarriedInv'
  BY <1>3 DEF MkSubdir, Loop, CarriedInv, InstallPcs, InstallTry, CarryPcs, Shape, Untouched
<1>4. ASSUME NEW f \in Files, Backup(f) PROVE CarriedInv'
  BY <1>4 DEF Backup, At, Done, Loop, CarriedInv, InstallPcs, InstallTry, CarryPcs,
     Shape, Untouched
<1>5. ASSUME Installing PROVE CarriedInv'
  <2>. USE <1>5 DEF Installing, Loop
  <2>1. data \in Manifest
    BY DataType DEF InstallPcs, InstallTry
  <2>2. /\ data'.state = "installing" /\ data'.files = data.files
        /\ Kept(data') = Kept(data) /\ Touched(data') = Touched(data)
    BY <2>1, StateSet DEF States
  <2>3. Shape(data')
    BY <2>2, FitsFiles DEF CarriedInv, InstallPcs, InstallTry
  <2>. QED  BY <2>2, <2>3 DEF CarriedInv, CarryPcs, Shape, Replaced, Kept, Touched
<1>6. ASSUME NEW f \in Files, Intent(f) PROVE CarriedInv'
  <2>. USE <1>6 DEF Intent, At
  <2>1. data \in Manifest /\ f \in Files \ Kept(data) /\ Shape(data)
    BY DataType DEF CarriedInv, InstallPcs, InstallTry
  <2>2. /\ data'.state = data.state /\ Kept(data') = Kept(data)
        /\ Touched(data') = Touched(data) \cup {f}
    BY <2>1, TouchedSet
  <2>3. Shape(data')
    BY <2>1, IntentShape
  <2>. QED  BY <2>2, <2>3 DEF CarriedInv, CarryPcs, Shape, Kept, Touched
<1>7. ASSUME Record PROVE CarriedInv'
  BY <1>7 DEF Record, mem, CarriedInv, InstallPcs, InstallTry, CarryPcs, Shape, Kept, Touched
<1>8. ASSUME NEW f \in Files, Copy(f) PROVE CarriedInv'
  BY <1>8 DEF Copy, At, Done, Loop, CarriedInv, InstallPcs, InstallTry, CarryPcs,
     Shape, Replaced, Kept, Touched
<1>9. ASSUME Installed PROVE CarriedInv'
  <2>. USE <1>9 DEF Installed
  <2>1. data \in Manifest /\ Shape(data)
    BY DataType DEF CarriedInv, InstallPcs, InstallTry
  <2>2. Shape(data')
    BY <2>1, StateSet, FitsFiles DEF States
  <2>. QED  BY <2>2 DEF CarriedInv, CarryPcs, Shape
<1>10. ASSUME Final PROVE CarriedInv'
  BY <1>10, JElsewhere DEF Final, Halt, InstallPcs, InstallTry, CarryPcs
<1>11. ASSUME Rollback PROVE CarriedInv'
  <2>1. op = "install"
    BY <1>11 DEF Rollback, IInv, InstallInv
  <2>. QED  BY <1>11, <2>1 DEF Rollback, Loop, CarriedInv, InstallPcs, CarryPcs, Shape
<1>. QED  BY <1>1, <1>2, <1>3, <1>4, <1>5, <1>6, <1>7, <1>8, <1>9, <1>10, <1>11 DEF Install

LEMMA CarriedUninstall ==
  ASSUME IInv, JournalInv, CarriedInv, Uninstall
  PROVE  CarriedInv'
<1>1. ASSUME LoadRemoved PROVE CarriedInv'
  BY <1>1, JElsewhere DEF LoadRemoved, InstallPcs, InstallTry, CarryPcs
<1>2. ASSUME LoadPresent PROVE CarriedInv'
  <2>1. Valid(data') /\ Shape(data')
    BY <1>2, ValidFits DEF LoadPresent, Removable, Loadable, Fits
  <2>. QED  BY <1>2, <2>1 DEF LoadPresent, CarriedInv, InstallPcs, InstallTry, Shape, Valid,
            Touched, Kept
<1>3. ASSUME MkUndo PROVE CarriedInv'
  <2>. USE <1>3 DEF MkUndo, Loop
  <2>1. Shape(data) /\ Fits(data, data.state)
    BY ValidFits DEF CarriedInv, CarryPcs
  <2>2. Fits(data, prev')
    BY <2>1 DEF Fits
  <2>3. Shape(data') /\ Fits(data', prev')
    BY <2>1, <2>2
  <2>. QED  BY <2>3 DEF CarriedInv, InstallPcs, InstallTry, Fits, Shape, Replaced, Untouched,
            Kept, Touched
<1>4. ASSUME NEW f \in Files, Save(f) PROVE CarriedInv'
  <2>. USE <1>4 DEF Save, At, Done, Loop
  <2>1. data'.files = data.files
    BY DEF Saved
  <2>2. Shape(data) /\ Fits(data, prev)
    BY DEF CarriedInv, CarryPcs
  <2>3. Shape(data') /\ Fits(data', prev)
    BY <2>1, <2>2, FitsFiles
  <2>. QED  BY <2>3 DEF CarriedInv, InstallPcs, InstallTry, Fits, Shape, Replaced, Untouched,
            Kept, Touched
<1>5. ASSUME Uninstalling PROVE CarriedInv'
  <2>. USE <1>5 DEF Uninstalling, Loop
  <2>1. data \in Manifest /\ Shape(data) /\ Fits(data, prev)
    BY DataType DEF CarriedInv, CarryPcs
  <2>2. data'.files = data.files
    BY <2>1, StateSet DEF States
  <2>3. Shape(data') /\ Fits(data', prev)
    BY <2>1, <2>2, FitsFiles
  <2>. QED  BY <2>3 DEF CarriedInv, InstallPcs, InstallTry, Fits, Shape, Replaced, Untouched,
            Kept, Touched
<1>6. ASSUME NEW f \in Files, Restore(f) PROVE CarriedInv'
  <2>1. Shape(data) /\ (op = "uninstall" => Fits(data, prev))
    BY <1>6 DEF Restore, At, CarriedInv, CarryPcs
  <2>. QED  BY <1>6, <2>1 DEF Restore, At, Done, Loop, CarriedInv, InstallPcs, InstallTry,
            Fits, Shape, Replaced, Untouched, Kept, Touched
<1>7. ASSUME Removed PROVE CarriedInv'
  BY <1>7, JElsewhere DEF Removed, InstallPcs, InstallTry, CarryPcs
<1>8. ASSUME NEW f \in Files, Unrestore(f) PROVE CarriedInv'
  <2>1. Shape(data) /\ Fits(data, prev)
    BY <1>8 DEF Unrestore, At, CarriedInv, CarryPcs
  <2>. QED  BY <1>8, <2>1 DEF Unrestore, At, Done, Loop, CarriedInv, InstallPcs, InstallTry,
            Fits, Shape, Replaced, Untouched, Kept, Touched
<1>9. ASSUME Undone PROVE CarriedInv'
  BY <1>9, JElsewhere DEF Undone, Halt, InstallPcs, InstallTry, CarryPcs
<1>. QED  BY <1>1, <1>2, <1>3, <1>4, <1>5, <1>6, <1>7, <1>8, <1>9 DEF Uninstall

\* exceptions: the handlers keep what the command carries
LEMMA CarriedCaught ==
  ASSUME CarriedInv, Caught
  PROVE  CarriedInv'
<1>1. CASE Halt
  BY <1>1, JElsewhere DEF Halt, InstallPcs, InstallTry, CarryPcs
<1>2. ASSUME pc \in InstallTry, pc' = "rollback", UNCHANGED data
      PROVE  CarriedInv'
  BY <1>2 DEF CarriedInv, InstallPcs, Shape
<1>3. ASSUME pc' = "recover" PROVE CarriedInv'
  BY <1>3, JElsewhere DEF InstallPcs, InstallTry, CarryPcs
<1>4. ASSUME pc = "restore", op = "uninstall", Loop("unrestore", DOMAIN data.undo, "undone"),
             UNCHANGED <<op, data, plan, prev>>
      PROVE  CarriedInv'
  <2>1. Shape(data) /\ Fits(data, prev)
    BY <1>4 DEF CarriedInv, CarryPcs
  <2>. QED  BY <1>4, <2>1 DEF Loop, CarriedInv, InstallPcs, InstallTry,
            Fits, Shape, Replaced, Untouched, Kept, Touched
<1>. QED  BY <1>1, <1>2, <1>3, <1>4 DEF Caught

LEMMA CarriedStep ==
  ASSUME IInv, JInv, [Next]_vars
  PROVE  CarriedInv'
<1>. USE DEF JInv
<1>1. ASSUME BeginReinstall PROVE CarriedInv'
  BY <1>1, JElsewhere DEF BeginReinstall, InstallPcs, InstallTry, CarryPcs
<1>2. ASSUME BeginUninstall PROVE CarriedInv'
  BY <1>2, JElsewhere DEF BeginUninstall, InstallPcs, InstallTry, CarryPcs
<1>3. ASSUME Cleanup PROVE CarriedInv'
  <2>1. pc' \in {"clean", "idle"}
    BY <1>3 DEF Cleanup, Preflight, Unlink, RmSubdir, Unjournal, RmStore, Halt
  <2>. QED  BY <2>1, JElsewhere DEF InstallPcs, InstallTry, CarryPcs
<1>4. ASSUME Recover PROVE CarriedInv'
  <2>1. pc' \in {"idle", "load", "revert", "remanifest", "restored", "sweep", "unmark"}
    BY <1>4 DEF Recover, NoUpdate, BeginRevert, BeginSweep, Remanifest, Restored, Sweep,
       RmFolder, Unmark, Revert, Resume, Halt, Done, Loop
  <2>. QED  BY <2>1, JElsewhere DEF InstallPcs, InstallTry, CarryPcs
<1>5. ASSUME Update PROVE CarriedInv'
  <2>1. pc' \in UpdateTry \cup {"idle", "sweep"}
    BY <1>5 DEF Update, Idempotent, PlanUpdate, MarkPreparing, MkFolder, Prior, MarkReady,
       After, NewManifest, MarkCommitted, Snapshot, Keep, Replace, UpdateTry, Halt, Done, Loop
  <2>. QED  BY <2>1, JElsewhere DEF InstallPcs, InstallTry, CarryPcs, UpdateTry
<1>6. ASSUME Crash PROVE CarriedInv'
  BY <1>6, JElsewhere DEF Crash, Halt, InstallPcs, InstallTry, CarryPcs
<1>7. ASSUME Edit \/ UNCHANGED vars PROVE CarriedInv'
  <2>1. UNCHANGED <<pc, todo, op, data, prev>>
    BY <1>7 DEF Edit, vars, mem
  <2>. QED  BY <2>1 DEF CarriedInv, Valid, Fits, Shape, Replaced, Untouched, Kept, Touched
<1>. QED  BY <1>1, <1>2, <1>3, <1>4, <1>5, <1>6, <1>7, CarriedInstall, CarriedUninstall,
             CarriedCaught DEF Next, Proceed, Refuse, Error

\* The journals on the disk: a manifest is written from what a command carries,
\* an update journal from its plan.
LEMMA JournalStep ==
  ASSUME IInv, JInv, [Next]_vars
  PROVE  JournalInv'
<1>. USE DEF JInv
<1>1. ASSUME UNCHANGED <<manifest, marker>> PROVE JournalInv'
  BY <1>1 DEF JournalInv, Valid, Touched, Kept
<1>2. ASSUME Valid(manifest'), UNCHANGED marker PROVE JournalInv'
  BY <1>2 DEF JournalInv, Valid, Touched, Kept
<1>3. ASSUME marker' # None => Valid(marker'.before) /\ Valid(marker'.after), UNCHANGED manifest
      PROVE  JournalInv'
  BY <1>3 DEF JournalInv, Valid, Touched, Kept
<1>4. ASSUME Prepare PROVE JournalInv'
  <2>1. Fits(data, data.state)
    BY <1>4 DEF Prepare, CarriedInv, InstallPcs, InstallTry, Fits
  <2>. QED  BY <1>2, <1>4, <2>1, ValidFits DEF Prepare
<1>5. ASSUME Installing PROVE JournalInv'
  <2>1. data \in Manifest /\ Fits(data, "installing")
    BY <1>5, DataType DEF Installing, CarriedInv, InstallPcs, InstallTry, Fits
  <2>. QED  BY <1>2, <1>5, <2>1, WrittenFits DEF Installing, States
<1>6. ASSUME Record PROVE JournalInv'
  <2>1. Fits(data, data.state)
    BY <1>6 DEF Record, CarriedInv, InstallPcs, InstallTry, Fits
  <2>. QED  BY <1>2, <1>6, <2>1, ValidFits DEF Record
<1>7. ASSUME Installed PROVE JournalInv'
  <2>1. data \in Manifest /\ Fits(data, "installed")
    BY <1>7, DataType DEF Installed, CarriedInv, InstallPcs, InstallTry, Fits
  <2>. QED  BY <1>2, <1>7, <2>1, WrittenFits DEF Installed, States
<1>8. ASSUME Removed PROVE JournalInv'
  <2>1. data \in Manifest /\ Fits(data, "removed")
    BY <1>8, DataType DEF Removed, CarriedInv, CarryPcs, Fits
  <2>. QED  BY <1>2, <1>8, <2>1, WrittenFits DEF Removed, States
<1>9. ASSUME Uninstalling PROVE JournalInv'
  <2>1. data \in Manifest /\ Fits(data, "uninstalling")
    BY <1>9, DataType DEF Uninstalling, CarriedInv, CarryPcs, Fits
  <2>. QED  BY <1>2, <1>9, <2>1, WrittenFits DEF Uninstalling, States
<1>10. ASSUME Undone PROVE JournalInv'
  <2>1. data \in Manifest /\ Fits(data, prev) /\ prev \in States
    BY <1>10, DataType DEF Undone, CarriedInv, CarryPcs, IInv, TypeOK
  <2>. QED  BY <1>2, <1>10, <2>1, WrittenFits DEF Undone
<1>11. ASSUME Unjournal PROVE JournalInv'
  BY <1>11 DEF Unjournal, JournalInv, Valid, Touched, Kept
<1>12. ASSUME Remanifest \/ NewManifest PROVE JournalInv'
  BY <1>2, <1>12 DEF Remanifest, NewManifest, PlanInv, UpdateTry, RevertPcs
<1>13. ASSUME MarkPreparing PROVE JournalInv'
  BY <1>3, <1>13 DEF MarkPreparing, PlanInv, UpdateTry
<1>14. ASSUME MarkReady \/ MarkCommitted \/ Restored PROVE JournalInv'
  <2>1. plan \in Journal /\ Valid(plan.before) /\ Valid(plan.after)
    BY <1>14, PlanType DEF MarkReady, MarkCommitted, Restored, PlanInv, UpdateTry, RevertPcs
  <2>2. marker'.before = plan.before /\ marker'.after = plan.after
    BY <1>14, <2>1, PhaseSet DEF MarkReady, MarkCommitted, Restored, Mark, Phases
  <2>. QED  BY <1>3, <1>14, <2>1, <2>2 DEF MarkReady, MarkCommitted, Restored
<1>15. ASSUME Unmark PROVE JournalInv'
  BY <1>3, <1>15 DEF Unmark
<1>16. CASE UNCHANGED vars
  BY <1>1, <1>16 DEF vars, disk
<1>17. ASSUME Install PROVE JournalInv'
  BY <1>1, <1>4, <1>5, <1>6, <1>7, <1>17 DEF Install, MkStore, MkSubdir, Final, Rollback,
     Backup, Intent, Copy, disk
<1>18. ASSUME Cleanup PROVE JournalInv'
  BY <1>1, <1>11, <1>18 DEF Cleanup, Preflight, Unlink, RmSubdir, RmStore, disk
<1>19. ASSUME Recover PROVE JournalInv'
  BY <1>1, <1>12, <1>14, <1>15, <1>19 DEF Recover, NoUpdate, BeginRevert, BeginSweep, Sweep,
     RmFolder, Revert, disk
<1>20. ASSUME Update PROVE JournalInv'
  BY <1>1, <1>12, <1>13, <1>14, <1>20 DEF Update, Idempotent, PlanUpdate, MkFolder, Prior,
     After, Snapshot, Keep, Replace, disk
<1>21. ASSUME Uninstall PROVE JournalInv'
  BY <1>1, <1>8, <1>9, <1>10, <1>21 DEF Uninstall, LoadRemoved, LoadPresent, MkUndo, Save,
     Restore, Unrestore, disk
<1>. QED  BY <1>1, <1>16, <1>17, <1>18, <1>19, <1>20, <1>21 DEF Next, Proceed, Refuse, Error,
             Crash, Edit, BeginInstall, BeginReinstall, BeginUninstall, disk

\* The plan is made of an accepted manifest and one that is checked, or it is
\* read back from a journal that holds such a plan.
LEMMA PlanStep ==
  ASSUME IInv, JInv, [Next]_vars
  PROVE  PlanInv'
<1>. USE DEF JInv
<1>1. ASSUME pc' \notin UpdateTry \cup RevertPcs PROVE PlanInv'
  BY <1>1, JElsewhere
<1>2. ASSUME pc \in UpdateTry \cup RevertPcs, UNCHANGED plan PROVE PlanInv'
  BY <1>2 DEF PlanInv, Valid, Touched, Kept
<1>3. ASSUME PlanUpdate PROVE PlanInv'
  <2>1. Valid(plan'.before) /\ Valid(plan'.after)
    BY <1>3 DEF PlanUpdate, Installable, Loadable
  <2>. QED  BY <2>1 DEF PlanInv, Valid, Touched, Kept
<1>4. ASSUME BeginRevert PROVE PlanInv'
  <2>1. Valid(plan'.before) /\ Valid(plan'.after)
    BY <1>4 DEF BeginRevert, Revertable, JournalInv
  <2>. QED  BY <2>1 DEF PlanInv, Valid, Touched, Kept
<1>5. ASSUME MarkReady PROVE PlanInv'
  <2>1. plan \in Journal /\ Valid(plan.before) /\ Valid(plan.after)
    BY <1>5, PlanType DEF MarkReady, PlanInv, UpdateTry
  <2>2. plan'.before = plan.before /\ plan'.after = plan.after
    BY <1>5, <2>1, PhaseSet DEF MarkReady, Mark, Phases
  <2>. QED  BY <2>1, <2>2 DEF PlanInv, Valid, Touched, Kept
<1>6. ASSUME Update PROVE PlanInv'
  <2>1. ASSUME MarkPreparing \/ MkFolder \/ Prior \/ After \/ NewManifest \/
               \E f \in Files : Snapshot(f) \/ Keep(f) \/ Replace(f)
        PROVE  PlanInv'
    <3>1. pc \in UpdateTry
      BY <2>1 DEF MarkPreparing, MkFolder, Prior, After, NewManifest, Snapshot, Keep, Replace,
         At, UpdateTry
    <3>2. UNCHANGED plan
      BY <2>1 DEF MarkPreparing, MkFolder, Prior, After, NewManifest, Snapshot, Keep, Replace, mem
    <3>. QED  BY <1>2, <3>1, <3>2
  <2>2. ASSUME Idempotent \/ MarkCommitted PROVE PlanInv'
    BY <1>1, <2>2 DEF Idempotent, MarkCommitted, Halt, UpdateTry, RevertPcs
  <2>. QED  BY <1>3, <1>5, <1>6, <2>1, <2>2 DEF Update
<1>7. ASSUME Recover PROVE PlanInv'
  <2>1. ASSUME Remanifest \/ \E f \in Files : Revert(f) PROVE PlanInv'
    <3>1. pc \in RevertPcs /\ UNCHANGED plan
      BY <2>1 DEF Remanifest, Revert, At, RevertPcs, mem
    <3>. QED  BY <1>2, <3>1
  <2>2. ASSUME NoUpdate \/ BeginSweep \/ Restored \/ Sweep \/ RmFolder \/ Unmark PROVE PlanInv'
    BY <1>1, <2>2 DEF NoUpdate, BeginSweep, Restored, Sweep, RmFolder, Unmark, Resume, Halt,
       UpdateTry, RevertPcs
  <2>. QED  BY <1>4, <1>7, <2>1, <2>2 DEF Recover
<1>8. ASSUME Install PROVE PlanInv'
  BY <1>1, <1>8 DEF Install, MkStore, Prepare, MkSubdir, Installing, Record, Installed, Final,
     Rollback, Backup, Intent, Copy, UpdateTry, RevertPcs, Halt, Done, Loop
<1>9. ASSUME Cleanup PROVE PlanInv'
  BY <1>1, <1>9 DEF Cleanup, Preflight, Unlink, RmSubdir, Unjournal, RmStore, UpdateTry,
     RevertPcs, Halt
<1>10. ASSUME Uninstall PROVE PlanInv'
  BY <1>1, <1>10 DEF Uninstall, LoadRemoved, LoadPresent, MkUndo, Uninstalling, Removed,
     Undone, Save, Restore, Unrestore, UpdateTry, RevertPcs, Halt, Done, Loop
<1>11. ASSUME Caught PROVE PlanInv'
  BY <1>1, <1>11 DEF Caught, UpdateTry, RevertPcs, Halt, Loop
<1>12. ASSUME BeginInstall \/ BeginReinstall \/ BeginUninstall \/ Crash PROVE PlanInv'
  BY <1>1, <1>12 DEF BeginInstall, BeginReinstall, BeginUninstall, Crash, UpdateTry,
     RevertPcs, Halt
<1>13. ASSUME Edit \/ UNCHANGED vars PROVE PlanInv'
  BY <1>13 DEF Edit, vars, mem, PlanInv, Valid, Touched, Kept
<1>. QED  BY <1>6, <1>7, <1>8, <1>9, <1>10, <1>11, <1>12, <1>13 DEF Next, Proceed, Refuse, Error

\* What is put elsewhere leaves the snapshots alone.
LEMMA PutElsewhere ==
  ASSUME IInv, NEW p \in Places \ {"update"}, NEW f \in Files, NEW c, Put(p, f, c)
  PROVE  files'["update"] = files["update"]
BY DEF Put, IInv, TypeOK, Places

\* A journal asks for snapshots only when all are taken, and none is swept while
\* it does.
LEMMA TakenStep ==
  ASSUME IInv, JInv, [Next]_vars
  PROVE  SnapshotsKept' /\ TakenInv'
<1>. USE DEF JInv
<1>1. ASSUME UNCHANGED marker, files'["update"] = files["update"] PROVE SnapshotsKept'
  BY <1>1 DEF SnapshotsKept
<1>2. ASSUME marker' = None \/ marker'.phase # "ready" PROVE SnapshotsKept'
  BY <1>2 DEF SnapshotsKept
<1>3. ASSUME UNCHANGED marker, files'["update"] = files["update"],
             pc' \notin {"snapshot", "keep", "prior", "ready"}
      PROVE  SnapshotsKept' /\ TakenInv'
  BY <1>1, <1>3, JElsewhere
<1>4. ASSUME MarkPreparing PROVE SnapshotsKept' /\ TakenInv'
  <2>1. plan.phase # "ready"
    BY <1>4 DEF MarkPreparing, IInv, UpdateInv, UpdateTry
  <2>. QED  BY <1>2, <1>4, <2>1, JElsewhere DEF MarkPreparing
<1>5. ASSUME MkFolder PROVE SnapshotsKept' /\ TakenInv'
  BY <1>1, <1>5 DEF MkFolder, Loop, TakenInv
<1>6. ASSUME NEW f \in Files, Snapshot(f) PROVE SnapshotsKept' /\ TakenInv'
  <2>. USE <1>6 DEF Snapshot, At, AsPlanned, Done, Loop
  <2>1. marker = plan /\ plan.phase # "ready" /\ Valid(plan.before)
    BY DEF IInv, UpdateInv, PlanInv, UpdateTry
  <2>2. game[f] \in Contents
    BY DEF IInv, TypeOK, Places, game
  <2>3. /\ files'["update"][f] = plan.snapshots[f]
        /\ \A g \in Files \ {f} : files'["update"][g] = files["update"][g]
    BY <2>2, PutType DEF IInv, TypeOK, Places
  <2>4. DOMAIN plan.snapshots \subseteq Files
    BY PlanType DEF UpdateTry
  <2>5. Taken(f)' /\ \A g \in DOMAIN plan.snapshots : Taken(g) => Taken(g)'
    BY <2>3, <2>4 DEF Taken
  <2>6. f \in Kept(plan.before) => Kept(plan.before) = {f}
    BY <2>1 DEF Valid, Kept
  <2>7. TakenInv'
    BY <2>5, <2>6 DEF TakenInv, Taken, Kept
  <2>. QED  BY <1>2, <2>1, <2>7
<1>7. ASSUME NEW f \in Files, Keep(f) PROVE SnapshotsKept' /\ TakenInv'
  <2>. USE <1>7 DEF Keep, At, Done, Loop
  <2>1. files'["update"] = files["update"]
    BY DEF Put
  <2>2. TakenInv'
    BY <2>1 DEF TakenInv, Taken, Kept
  <2>. QED  BY <1>1, <2>1, <2>2
<1>8. ASSUME Prior PROVE SnapshotsKept' /\ TakenInv'
  BY <1>1, <1>8 DEF Prior, disk, mem, TakenInv, Taken
<1>9. ASSUME MarkReady PROVE SnapshotsKept' /\ TakenInv'
  <2>1. marker'.snapshots = plan.snapshots
    BY <1>9, PlanType, PhaseSet DEF MarkReady, Mark, Phases, UpdateTry
  <2>2. SnapshotsKept'
    BY <1>9, <2>1 DEF MarkReady, TakenInv, Taken, SnapshotsKept
  <2>. QED  BY <1>9, <2>2, JElsewhere DEF MarkReady, Loop
<1>10. ASSUME MarkCommitted \/ Restored PROVE SnapshotsKept' /\ TakenInv'
  <2>1. marker'.phase # "ready"
    BY <1>10, PlanType, PhaseSet DEF MarkCommitted, Restored, Mark, Phases, UpdateTry, RevertPcs
  <2>. QED  BY <1>2, <1>10, <2>1, JElsewhere DEF MarkCommitted, Restored
<1>11. ASSUME Sweep PROVE SnapshotsKept' /\ TakenInv'
  <2>1. marker = None \/ marker.phase # "ready"
    BY <1>11 DEF Sweep, IInv, UpdateInv
  <2>. QED  BY <1>2, <1>11, <2>1, JElsewhere DEF Sweep, mem
<1>12. ASSUME Unmark PROVE SnapshotsKept' /\ TakenInv'
  BY <1>2, <1>12, JElsewhere DEF Unmark, Resume, Halt
<1>13. ASSUME Edit \/ UNCHANGED vars PROVE SnapshotsKept' /\ TakenInv'
  <2>1. UNCHANGED <<pc, todo, plan, marker>> /\ files'["update"] = files["update"]
    BY <1>13, FilesAssumption, PutElsewhere DEF Edit, Places, vars, disk, mem
  <2>. QED  BY <1>1, <2>1 DEF TakenInv, Taken, Kept
<1>14. ASSUME Install PROVE SnapshotsKept' /\ TakenInv'
  <2>1. ASSUME MkStore \/ Prepare \/ MkSubdir \/ Installing \/ Record \/ Installed \/ Final \/
               Rollback \/ \E f \in Files : Intent(f)
        PROVE  SnapshotsKept' /\ TakenInv'
    <3>1. UNCHANGED <<files, marker>>
      BY <2>1 DEF MkStore, Prepare, MkSubdir, Installing, Record, Installed, Final, Rollback,
         Intent, disk
    <3>2. pc' \notin {"snapshot", "keep", "prior", "ready"}
      BY <2>1 DEF MkStore, Prepare, MkSubdir, Installing, Record, Installed, Final, Rollback,
         Intent, Halt, Loop
    <3>. QED  BY <1>3, <3>1, <3>2
  <2>2. ASSUME NEW f \in Files, Backup(f) \/ Copy(f) PROVE SnapshotsKept' /\ TakenInv'
    BY <1>3, <2>2, PutElsewhere DEF Backup, Copy, Places, Done, Loop
  <2>. QED  BY <1>14, <2>1, <2>2 DEF Install
<1>15. ASSUME Cleanup PROVE SnapshotsKept' /\ TakenInv'
  <2>1. files'["update"] = files["update"] /\ UNCHANGED marker
    BY <1>15, PutElsewhere DEF Cleanup, Preflight, Unlink, Clutter, RmSubdir, Unjournal,
       RmStore, Places, disk
  <2>2. pc' \in {"clean", "idle"}
    BY <1>15 DEF Cleanup, Preflight, Unlink, RmSubdir, Unjournal, RmStore, Halt
  <2>. QED  BY <1>3, <2>1, <2>2
<1>16. ASSUME Recover PROVE SnapshotsKept' /\ TakenInv'
  <2>1. ASSUME NoUpdate \/ BeginRevert \/ BeginSweep \/ Remanifest \/ RmFolder
        PROVE  SnapshotsKept' /\ TakenInv'
    <3>1. UNCHANGED <<files, marker>>
      BY <2>1 DEF NoUpdate, BeginRevert, BeginSweep, Remanifest, RmFolder, disk
    <3>2. pc' \notin {"snapshot", "keep", "prior", "ready"}
      BY <2>1 DEF NoUpdate, BeginRevert, BeginSweep, Remanifest, RmFolder, Resume, Halt, Loop
    <3>. QED  BY <1>3, <3>1, <3>2
  <2>2. ASSUME NEW f \in Files, Revert(f) PROVE SnapshotsKept' /\ TakenInv'
    BY <1>3, <2>2, PutElsewhere DEF Revert, Places, Done, Loop
  <2>. QED  BY <1>10, <1>11, <1>12, <1>16, <2>1, <2>2 DEF Recover
<1>17. ASSUME Update PROVE SnapshotsKept' /\ TakenInv'
  <2>1. ASSUME Idempotent \/ PlanUpdate \/ After \/ NewManifest
        PROVE  SnapshotsKept' /\ TakenInv'
    BY <1>3, <2>1 DEF Idempotent, PlanUpdate, After, NewManifest, Halt, disk
  <2>2. ASSUME NEW f \in Files, Replace(f) PROVE SnapshotsKept' /\ TakenInv'
    BY <1>3, <2>2, PutElsewhere DEF Replace, Places, Done, Loop
  <2>. QED  BY <1>4, <1>5, <1>6, <1>7, <1>8, <1>9, <1>10, <1>17, <2>1, <2>2 DEF Update
<1>18. ASSUME Uninstall PROVE SnapshotsKept' /\ TakenInv'
  <2>1. ASSUME LoadRemoved \/ LoadPresent \/ MkUndo \/ Uninstalling \/ Removed \/ Undone
        PROVE  SnapshotsKept' /\ TakenInv'
    <3>1. UNCHANGED <<files, marker>>
      BY <2>1 DEF LoadRemoved, LoadPresent, MkUndo, Uninstalling, Removed, Undone, disk
    <3>2. pc' \notin {"snapshot", "keep", "prior", "ready"}
      BY <2>1 DEF LoadRemoved, LoadPresent, MkUndo, Uninstalling, Removed, Undone, Halt, Loop
    <3>. QED  BY <1>3, <3>1, <3>2
  <2>2. ASSUME NEW f \in Files, Save(f) \/ Restore(f) \/ Unrestore(f)
        PROVE  SnapshotsKept' /\ TakenInv'
    BY <1>3, <2>2, PutElsewhere DEF Save, Restore, Unrestore, Places, Done, Loop
  <2>. QED  BY <1>18, <2>1, <2>2 DEF Uninstall
<1>19. ASSUME Caught, UNCHANGED disk PROVE SnapshotsKept' /\ TakenInv'
  BY <1>3, <1>19 DEF Caught, Halt, Loop, disk
<1>20. ASSUME BeginInstall \/ BeginReinstall \/ BeginUninstall \/ Crash
       PROVE  SnapshotsKept' /\ TakenInv'
  BY <1>3, <1>20 DEF BeginInstall, BeginReinstall, BeginUninstall, Crash, Halt, disk
<1>. QED  BY <1>13, <1>14, <1>15, <1>16, <1>17, <1>18, <1>19, <1>20
          DEF Next, Proceed, Refuse, Error

LEMMA InitJournals == Init => JInv
BY DEF Init, JInv, JournalInv, CarriedInv, PlanInv, SnapshotsKept, TakenInv, InstallPcs,
   InstallTry, CarryPcs, UpdateTry, RevertPcs

LEMMA JInvAlways == Spec => [](IInv /\ JInv)
<1>1. Init => IInv /\ JInv
  BY InitInv, InitJournals
<1>2. (IInv /\ JInv) /\ [Next]_vars => (IInv /\ JInv)'
  BY StepInv, JournalStep, CarriedStep, PlanStep, TakenStep DEF JInv
<1>. QED  BY <1>1, <1>2, PTL DEF Spec

\* Every journal a command leaves, wherever it fails or is killed, is one the
\* next command accepts, and an update journal speaks of the manifest beside
\* it: JournalsAccepted.
THEOREM JournalsAreAccepted == Spec => []JournalsAccepted
<1>1. IInv /\ JInv => JournalsAccepted
  <2>. SUFFICES ASSUME IInv, JInv PROVE JournalsAccepted
    OBVIOUS
  <2>1. marker # None => manifest # None /\ manifest \in {marker.before, marker.after}
    BY Covered DEF IInv, DiskInv
  <2>. QED  BY <2>1 DEF JInv, JournalInv, JournalsAccepted, Journalled, Loadable
<1>. QED  BY <1>1, JInvAlways, PTL

\* While update.json asks for it, the content of every file the update replaces
\* is in update/, whatever fails and wherever the update, the recovery or the
\* cleanup is killed: SnapshotsKept.
THEOREM SnapshotsAreKept == Spec => []SnapshotsKept
<1>1. JInv => SnapshotsKept
  BY DEF JInv
<1>. QED  BY <1>1, JInvAlways, PTL

-----------------------------------------------------------------------------
(* SettledIsWhole, as long as no operation has failed.  A check that refuses *)
(* and a kill are not enough to break it: the invariant follows what is in   *)
(* the game from the copies of an installation, or from the snapshots of an  *)
(* update, to the manifest that says "installed".                            *)

NothingFailed == budget.error = MaxErrors

\* the file is as m deploys it, or the overlay has rewritten it
WholeAt(m, f) == game[f] = m.files[f].sha \/ (f = Ini /\ game[f] = Edited)
Whole(m)      == \A f \in Files : WholeAt(m, f)

\* what an update replaces was deployed by the manifest it starts from
SnapshotsWhole(j) ==
  \A f \in DOMAIN j.snapshots :
    \/ j.snapshots[f] = j.before.files[f].sha
    \/ f = Ini /\ j.snapshots[f] = Edited

SettledInv ==
  /\ manifest # None /\ manifest.state = "installed" /\ ~Pending => Whole(manifest)
  /\ marker # None => SnapshotsWhole(marker)
  /\ Pending => \A f \in Files \ DOMAIN marker.snapshots : WholeAt(marker.before, f)

\* an installation copies file by file and reaches "installed" with all; after
\* that only the overlay can make it fail, and it is not rolled back
InstallWhole ==
  /\ pc \in InstallPcs => data.files[Ini].sha \in Versions
  /\ pc \in InstallPcs \ {"final", "rollback"} /\ manifest # None => manifest.state # "installed"
  /\ pc \in {"intent", "record", "copy"} => \A f \in Files \ todo : WholeAt(data, f)
  /\ pc \in {"installed", "final"} => Whole(data)
  /\ pc = "final" => data.state = "installed"
  /\ pc = "rollback" /\ manifest # None /\ manifest.state = "installed" => game[Ini] = Edited

\* what is restored is in backups, so no restoration is undone
RemoveWhole ==
  /\ pc = "restore" /\ op = "uninstall" => todo \subseteq Touched(data)
  /\ pc = "restore" /\ manifest # None => manifest.state # "installed"
  /\ pc \notin {"unrestore", "undone"}

UpdateWhole ==
  /\ pc \in UpdateTry => SnapshotsWhole(plan)
  /\ pc \in {"manifest", "commit"} => Whole(plan.after)
  /\ pc = "revert" => \A f \in Files \ todo : WholeAt(plan.before, f)
  /\ pc \in {"remanifest", "restored"} => Whole(plan.before)

WInv == SettledInv /\ InstallWhole /\ RemoveWhole /\ UpdateWhole

\* where the parts say nothing
LEMMA WElsewhere ==
  /\ pc' \notin InstallPcs => InstallWhole'
  /\ pc' \notin {"restore", "unrestore", "undone"} => RemoveWhole'
  /\ pc' \notin UpdateTry \cup RevertPcs => UpdateWhole'
BY DEF InstallWhole, RemoveWhole, UpdateWhole, InstallPcs, InstallTry, UpdateTry, RevertPcs

\* a step that leaves the game and the update journal alone
LEMMA SettledManifest ==
  ASSUME SettledInv, UNCHANGED marker, game' = game,
         manifest' # None /\ manifest'.state = "installed" /\ ~Pending => Whole(manifest')
  PROVE  SettledInv'
BY DEF SettledInv, Pending, SnapshotsWhole, Whole, WholeAt

\* A file that is put in the game leaves the others as whole as they were.
LEMMA WholePut ==
  ASSUME IInv, NEW f \in Files, NEW c \in Contents, Put("game", f, c)
  PROVE  /\ game'[f] = c
         /\ \A g \in Files \ {f} : game'[g] = game[g]
BY PutType DEF IInv, TypeOK, Places, game

\* What the overlay writes leaves every file whole that was.
LEMMA WholeEdit ==
  ASSUME IInv, Edit
  PROVE  game'[Ini] = Edited /\ \A g \in Files \ {Ini} : game'[g] = game[g]
<1>1. Ini \in Files /\ Edited \in Contents
  BY FilesAssumption DEF Contents
<1>. QED  BY <1>1, WholePut DEF Edit

\* No installation whose files are in place is refused unless the overlay has
\* rewritten the settings.
LEMMA FinalVerified ==
  ASSUME IInv, JInv, WInv, pc = "final", game[Ini] # Edited
  PROVE  Verified(data, "strict")
<1>1. data.state = "installed" /\ \A f \in Files : game[f] = data.files[f].sha
  BY DEF WInv, InstallWhole, Whole, WholeAt
<1>2. Faithful(data) /\ \A f \in Backed(data) : Secured(f)
  BY DEF IInv, InstallInv, InstallTry, Carries
<1>3. \A f \in Backed(data) : files["backups"][f] = data.files[f].original
  BY <1>2 DEF Backed, Faithful, Before, Secured
<1>4. \A f \in Files : game[f] \in Allowed(data, f)
  BY <1>1 DEF Allowed
<1>5. \A f \in Kept(data) : game[f] = data.files[f].sha
  BY <1>1 DEF Kept
<1>. QED  BY <1>1, <1>3, <1>4, <1>5 DEF Verified

\* An installation that is complete on the disk is not rolled back.
LEMMA RollbackRefused ==
  ASSUME IInv, JInv, WInv, pc = "rollback", manifest # None, manifest.state = "installed"
  PROVE  ~Verified(AsInstalling, "strict")
<1>1. Ini \in Files /\ game[Ini] = Edited /\ data.files[Ini].sha \in Versions
  BY FilesAssumption DEF WInv, InstallWhole, InstallPcs
<1>2. data \in Manifest /\ Faithful(data) /\ Shape(data)
  BY DataType DEF JInv, CarriedInv, InstallPcs
<1>3. AsInstalling.files = data.files /\ AsInstalling.state = "installing"
  BY <1>2, StateSet DEF AsInstalling, States
<1>4. Ini \in Files \ Kept(AsInstalling)
  BY <1>1, <1>2, <1>3, FilesAssumption DEF Shape, Kept
<1>5. data.files[Ini].original # Edited /\ data.files[Ini].sha # Edited
  BY <1>1, <1>2, ContentAssumption DEF Faithful, Before
<1>6. game[Ini] \notin Allowed(AsInstalling, Ini)
  BY <1>1, <1>3, <1>5 DEF Allowed
<1>7. ~Tolerated(AsInstalling, Ini, "strict")
  BY DEF Tolerated
<1>. QED  BY <1>3, <1>4, <1>6, <1>7 DEF Verified

\* What an uninstallation restores is in backups, so the restoration goes through.
LEMMA RestoreAccepted ==
  ASSUME IInv, WInv, pc = "restore", op = "uninstall", NEW f \in todo
  PROVE  Restorable(f)
<1>1. f \in Files /\ f \in Touched(data) /\ Faithful(data)
  BY DEF IInv, TypeOK, RemoveInv, Carries, WInv, RemoveWhole
<1>2. f \in Touched(manifest) /\ manifest # None /\ manifest.state = "uninstalling"
  BY <1>1 DEF IInv, RemoveInv, Same, Touched, Kept
<1>3. Secured(f)
  BY <1>1, <1>2 DEF IInv, DiskInv, Deployed
<1>. QED  BY <1>1, <1>3 DEF Restorable, Backed, Faithful, Before, Secured

\* The disk: a manifest that says "installed" is written when its files are in
\* place, and so is the end of an update or of its recovery.
LEMMA SettledStep ==
  ASSUME IInv, JInv, WInv, [Next]_vars, ~Error
  PROVE  SettledInv'
<1>. USE DEF WInv
<1>1. ASSUME UNCHANGED <<files, manifest, marker>> PROVE SettledInv'
  BY <1>1, SettledManifest DEF SettledInv, game
<1>2. ASSUME NEW p \in Places \ {"game"}, NEW f \in Files, NEW c \in Contents, Put(p, f, c),
             UNCHANGED <<manifest, marker>>
      PROVE  SettledInv'
  BY <1>2, PutType, SettledManifest DEF IInv, TypeOK, Places, game, SettledInv
<1>3. ASSUME BeginInstall \/ BeginReinstall \/ BeginUninstall \/ Crash \/ UNCHANGED vars
      PROVE  SettledInv'
  BY <1>1, <1>3 DEF BeginInstall, BeginReinstall, BeginUninstall, Crash, vars, disk
<1>4. ASSUME Prepare \/ Installing \/ Record PROVE SettledInv'
  <2>1. data \in Manifest
    BY <1>4, DataType DEF Prepare, Installing, Record, InstallPcs, InstallTry
  <2>2. manifest'.state # "installed" /\ UNCHANGED <<files, marker>>
    BY <1>4, <2>1, StateSet DEF Prepare, Installing, Record, JInv, CarriedInv, States
  <2>. QED  BY <2>2, SettledManifest DEF game
<1>5. ASSUME Installed PROVE SettledInv'
  <2>1. data \in Manifest /\ Whole(data)
    BY <1>5, DataType DEF Installed, InstallPcs, InstallTry, InstallWhole
  <2>2. manifest'.files = data.files /\ UNCHANGED <<files, marker>>
    BY <1>5, <2>1 DEF Installed
  <2>. QED  BY <2>1, <2>2, SettledManifest DEF game, Whole, WholeAt
<1>6. ASSUME NEW f \in Files, Copy(f) PROVE SettledInv'
  <2>1. marker = None /\ data.state = "installing"
    BY <1>6, DataType DEF Copy, At, InstallPcs, InstallTry, JInv, CarriedInv
  <2>2. manifest = data
    BY <1>6 DEF Copy, At, IInv, InstallInv, InstallTry
  <2>. QED  BY <1>6, <2>1, <2>2 DEF Copy, SettledInv, Pending
<1>7. ASSUME NEW f \in Files, Restore(f) PROVE SettledInv'
  <2>1. marker = None
    BY <1>7, DataType DEF Restore, At, CarryPcs
  <2>. QED  BY <1>7, <2>1 DEF Restore, At, SettledInv, Pending, RemoveWhole
<1>8. ASSUME Removed \/ Uninstalling PROVE SettledInv'
  <2>1. data \in Manifest
    BY <1>8, DataType DEF Removed, Uninstalling, CarryPcs
  <2>2. manifest'.state # "installed" /\ UNCHANGED <<files, marker>>
    BY <1>8, <2>1, StateSet DEF Removed, Uninstalling, States
  <2>. QED  BY <2>2, SettledManifest DEF game
<1>9. ASSUME Unjournal PROVE SettledInv'
  BY <1>9, SettledManifest DEF Unjournal, game
<1>10. ASSUME NEW f \in Files, Revert(f) \/ Replace(f) PROVE SettledInv'
  <2>1. /\ marker = plan /\ plan.phase = "ready" /\ plan # None
        /\ f \in DOMAIN plan.snapshots
    BY <1>10 DEF Revert, Replace, At, IInv, UpdateInv, UpdateTry
  <2>2. plan.snapshots[f] \in Contents /\ plan.after.files[f].sha \in Contents
    BY <1>10, <2>1, PlanType, ItemType DEF Revert, Replace, At, UpdateTry, RevertPcs
  <2>3. \A g \in Files \ {f} : game'[g] = game[g]
    BY <1>10, <2>2, WholePut DEF Revert, Replace
  <2>4. UNCHANGED <<manifest, marker>>
    BY <1>10 DEF Revert, Replace
  <2>. QED  BY <2>1, <2>3, <2>4 DEF SettledInv, Pending, SnapshotsWhole, WholeAt
<1>11. ASSUME Remanifest \/ NewManifest PROVE SettledInv'
  <2>1. Pending /\ UNCHANGED <<files, marker>>
    BY <1>11 DEF Remanifest, NewManifest, IInv, UpdateInv, UpdateTry, Pending
  <2>. QED  BY <2>1, SettledManifest DEF game
<1>12. ASSUME MarkPreparing PROVE SettledInv'
  <2>1. marker = None /\ plan.phase # "ready" /\ SnapshotsWhole(plan)
    BY <1>12 DEF MarkPreparing, IInv, UpdateInv, UpdateTry, UpdateWhole
  <2>. QED  BY <1>12, <2>1 DEF MarkPreparing, SettledInv, Pending, SnapshotsWhole, Whole, WholeAt, game
<1>13. ASSUME MarkReady PROVE SettledInv'
  <2>1. /\ plan \in Journal /\ plan # None /\ Planned(plan) /\ SnapshotsWhole(plan)
        /\ manifest = plan.before /\ marker = plan /\ plan.phase # "ready"
    BY <1>13, PlanType DEF MarkReady, IInv, UpdateInv, UpdateTry, UpdateWhole
  <2>2. Whole(plan.before)
    BY <2>1, PlanType, NoneAssumption DEF Planned, SettledInv, Pending, IInv, DiskInv, Journal
  <2>3. marker'.before = plan.before /\ marker'.snapshots = plan.snapshots
    BY <1>13, <2>1 DEF MarkReady, Mark, Journal
  <2>4. marker' # None /\ marker'.phase = "ready" /\ UNCHANGED <<files, manifest>>
    BY <1>13, <2>1, NoneAssumption DEF MarkReady, Mark, Journal, Phases
  <2>. QED  BY <2>1, <2>2, <2>3, <2>4
            DEF SettledInv, Pending, SnapshotsWhole, Whole, WholeAt, game
<1>14. ASSUME MarkCommitted \/ Restored PROVE SettledInv'
  <2>1. plan \in Journal /\ marker = plan /\ plan # None
    BY <1>14, PlanType DEF MarkCommitted, Restored, IInv, UpdateInv, UpdateTry, RevertPcs
  <2>2. Whole(manifest)
    BY <1>14 DEF MarkCommitted, Restored, IInv, UpdateInv, UpdateTry, UpdateWhole
  <2>3. marker'.before = plan.before /\ marker'.snapshots = plan.snapshots
    BY <1>14, <2>1 DEF MarkCommitted, Restored, Mark, Journal
  <2>4. marker'.phase # "ready" /\ UNCHANGED <<files, manifest>>
    BY <1>14, <2>1 DEF MarkCommitted, Restored, Mark, Journal, Phases
  <2>. QED  BY <2>1, <2>2, <2>3, <2>4
            DEF SettledInv, Pending, SnapshotsWhole, Whole, WholeAt, game
<1>15. ASSUME Unmark PROVE SettledInv'
  <2>1. ~Pending
    BY <1>15 DEF Unmark, Pending, IInv, UpdateInv
  <2>. QED  BY <1>15, <2>1 DEF Unmark, SettledInv, Pending, Whole, WholeAt, game
<1>16. ASSUME Edit PROVE SettledInv'
  BY <1>16, WholeEdit DEF Edit, SettledInv, Pending, SnapshotsWhole, Whole, WholeAt
<1>17. ASSUME Install PROVE SettledInv'
  <2>1. ASSUME MkStore \/ MkSubdir \/ Final \/ Rollback PROVE SettledInv'
    BY <1>1, <2>1 DEF MkStore, MkSubdir, Final, Rollback, disk
  <2>2. ASSUME NEW f \in Files, Backup(f) PROVE SettledInv'
    <3>1. game[f] \in Contents
      BY DEF IInv, TypeOK, Places, game
    <3>. QED  BY <1>2, <2>2, <3>1 DEF Backup, Places
  <2>3. ASSUME NEW f \in Files, Intent(f) PROVE SettledInv'
    BY <1>1, <2>3 DEF Intent, disk
  <2>. QED  BY <1>4, <1>5, <1>6, <1>17, <2>1, <2>2, <2>3 DEF Install
<1>18. ASSUME Cleanup PROVE SettledInv'
  <2>1. ASSUME Preflight \/ RmSubdir \/ RmStore PROVE SettledInv'
    BY <1>1, <2>1 DEF Preflight, RmSubdir, RmStore, disk
  <2>2. ASSUME Unlink PROVE SettledInv'
    <3>1. ASSUME NEW p \in {"backups", "undo"}, NEW f \in Files, Put(p, f, Absent)
          PROVE  SettledInv'
      BY <1>2, <2>2, <3>1 DEF Unlink, Places, Contents
    <3>. QED  BY <1>1, <2>2, <3>1 DEF Unlink, Clutter
  <2>. QED  BY <1>9, <1>18, <2>1, <2>2 DEF Cleanup
<1>19. ASSUME Recover PROVE SettledInv'
  <2>1. ASSUME NoUpdate \/ BeginRevert \/ BeginSweep \/ RmFolder PROVE SettledInv'
    BY <1>1, <2>1 DEF NoUpdate, BeginRevert, BeginSweep, RmFolder, disk
  <2>2. ASSUME Sweep PROVE SettledInv'
    BY <1>1, <1>2, <2>2 DEF Sweep, Places, Contents
  <2>. QED  BY <1>10, <1>11, <1>14, <1>15, <1>19, <2>1, <2>2 DEF Recover
<1>20. ASSUME Update PROVE SettledInv'
  <2>1. ASSUME Idempotent \/ PlanUpdate \/ MkFolder \/ Prior \/ After PROVE SettledInv'
    BY <1>1, <2>1 DEF Idempotent, PlanUpdate, MkFolder, Prior, After, disk
  <2>2. ASSUME NEW f \in Files, Snapshot(f) \/ Keep(f) PROVE SettledInv'
    <3>1. game[f] \in Contents /\ Backing(f) \in Contents
      BY DEF IInv, TypeOK, Places, game, Backing
    <3>. QED  BY <1>2, <2>2, <3>1 DEF Snapshot, Keep, Places
  <2>. QED  BY <1>10, <1>11, <1>12, <1>13, <1>14, <1>20, <2>1, <2>2 DEF Update
<1>21. ASSUME Uninstall PROVE SettledInv'
  <2>1. ASSUME LoadRemoved \/ LoadPresent \/ MkUndo PROVE SettledInv'
    BY <1>1, <2>1 DEF LoadRemoved, LoadPresent, MkUndo, disk
  <2>2. ASSUME NEW f \in Files, Save(f) PROVE SettledInv'
    <3>1. game[f] \in Contents
      BY DEF IInv, TypeOK, Places, game
    <3>. QED  BY <1>1, <1>2, <2>2, <3>1 DEF Save, Places
  <2>3. ~Undone /\ \A f \in Files : ~Unrestore(f)
    BY DEF RemoveWhole, Undone, Unrestore, At
  <2>. QED  BY <1>7, <1>8, <1>21, <2>1, <2>2, <2>3 DEF Uninstall
<1>22. ASSUME Refuse PROVE SettledInv'
  BY <1>1, <1>22 DEF Refuse, disk
<1>. QED  BY <1>3, <1>16, <1>17, <1>18, <1>19, <1>20, <1>21, <1>22 DEF Next, Proceed

\* Installations.
LEMMA InstallWholeStep ==
  ASSUME IInv, JInv, WInv, [Next]_vars, ~Error
  PROVE  InstallWhole'
<1>. USE DEF WInv
<1>1. ASSUME BeginInstall PROVE InstallWhole'
  <2>1. data'.files[Ini].sha \in Versions
    BY <1>1, FilesAssumption DEF BeginInstall
  <2>2. manifest' = None
    BY <1>1 DEF BeginInstall, disk, IInv, StoreInv
  <2>. QED  BY <1>1, <2>1, <2>2 DEF BeginInstall, InstallWhole, InstallPcs
<1>2. ASSUME MkStore \/ MkSubdir PROVE InstallWhole'
  BY <1>2 DEF MkStore, MkSubdir, Loop, mem, InstallWhole, InstallPcs, InstallTry
<1>3. ASSUME Prepare PROVE InstallWhole'
  BY <1>3 DEF Prepare, mem, InstallWhole, InstallPcs, InstallTry, JInv, CarriedInv
<1>4. ASSUME NEW f \in Files, Backup(f) PROVE InstallWhole'
  BY <1>4 DEF Backup, At, Done, Loop, InstallWhole, InstallPcs, InstallTry
<1>5. ASSUME Installing PROVE InstallWhole'
  <2>. USE <1>5 DEF Installing
  <2>1. /\ data \in Manifest /\ Faithful(data) /\ marker = None /\ Shape(data)
        /\ data.files[Ini].sha \in Versions
    BY DataType DEF InstallPcs, InstallTry, InstallWhole, JInv, CarriedInv
  <2>2. data'.state = "installing" /\ data'.files = data.files
    BY <2>1, StateSet DEF States
  <2>3. ASSUME NEW f \in Kept(data) PROVE game[f] = data.files[f].sha
    <3>1. f \in Files /\ f \notin Touched(data) /\ data.files[f].sha = Before(f)
      BY <2>1 DEF Kept, Touched, Shape, Faithful
    <3>2. ~Deployed(f) /\ ~Replacing(f)
      BY <2>1, <3>1 DEF IInv, InstallInv, InstallTry, Deployed, Replacing
    <3>. QED  BY <3>1, <3>2 DEF IInv, DiskInv
  <2>4. \A f \in Kept(data) : game'[f] = data'.files[f].sha
    BY <2>2, <2>3 DEF game
  <2>. QED  BY <2>1, <2>2, <2>4 DEF Loop, InstallWhole, InstallPcs, Whole, WholeAt
<1>6. ASSUME NEW f \in Files, Intent(f) PROVE InstallWhole'
  <2>1. data \in Manifest
    BY <1>6, DataType DEF Intent, At, InstallPcs, InstallTry
  <2>2. \A g \in Files : data'.files[g].sha = data.files[g].sha
    BY <1>6, <2>1 DEF Intent, Manifest, Item
  <2>. QED  BY <1>6, <2>2, FilesAssumption
            DEF Intent, At, disk, InstallWhole, InstallPcs, InstallTry, WholeAt, game
<1>7. ASSUME Record PROVE InstallWhole'
  BY <1>7 DEF Record, mem, InstallWhole, InstallPcs, InstallTry, WholeAt, game, JInv, CarriedInv
<1>8. ASSUME NEW f \in Files, Copy(f) PROVE InstallWhole'
  <2>1. data \in Manifest /\ f \in todo
    BY <1>8, DataType DEF Copy, At, InstallPcs, InstallTry
  <2>2. game'[f] = data.files[f].sha /\ \A g \in Files \ {f} : game'[g] = game[g]
    BY <1>8, <2>1, ItemType, WholePut DEF Copy
  <2>3. \A g \in Files \ todo' : WholeAt(data, g)'
    BY <1>8, <2>2 DEF Copy, At, Done, Loop, InstallWhole, WholeAt
  <2>. QED  BY <1>8, <2>3 DEF Copy, At, Done, Loop, InstallWhole, InstallPcs, InstallTry, Whole, WholeAt
<1>9. ASSUME Installed PROVE InstallWhole'
  <2>1. data \in Manifest
    BY <1>9, DataType DEF Installed, InstallPcs, InstallTry
  <2>2. data'.state = "installed" /\ data'.files = data.files
    BY <1>9, <2>1, StateSet DEF Installed, States
  <2>. QED  BY <1>9, <2>2 DEF Installed, InstallWhole, InstallPcs, InstallTry, Whole, WholeAt, game
<1>10. ASSUME Final \/ Rollback PROVE InstallWhole'
  BY <1>10, WElsewhere DEF Final, Rollback, Halt, Loop, InstallPcs, InstallTry
<1>11. ASSUME Refuse PROVE InstallWhole'
  <2>1. CASE pc \in InstallTry
    <3>1. pc' = "rollback" /\ UNCHANGED <<data, files, manifest>>
      BY <1>11, <2>1 DEF Refuse, Caught, disk, InstallTry, UpdateTry
    <3>2. pc = "final" => ~Verified(data, "strict")
      BY <1>11 DEF Refuse, Refused
    <3>3. pc = "final" => game[Ini] = Edited
      BY <3>2, FinalVerified
    <3>4. manifest # None /\ manifest.state = "installed" => pc = "final"
      BY <2>1 DEF InstallWhole, InstallPcs, InstallTry
    <3>. QED  BY <2>1, <3>1, <3>3, <3>4 DEF InstallWhole, InstallPcs, game
  <2>2. CASE pc \notin InstallTry
    <3>1. pc' \in {"recover", "unrestore", "undone", "idle"}
      BY <1>11, <2>2 DEF Refuse, Caught, Halt, Loop
    <3>. QED  BY <3>1, WElsewhere DEF InstallPcs, InstallTry
  <2>. QED  BY <2>1, <2>2
<1>12. ASSUME BeginReinstall \/ BeginUninstall \/ Crash PROVE InstallWhole'
  BY <1>12, WElsewhere DEF BeginReinstall, BeginUninstall, Crash, Halt, InstallPcs, InstallTry
<1>13. ASSUME Cleanup \/ Recover PROVE InstallWhole'
  <2>1. pc' \in {"clean", "idle", "load", "revert", "remanifest", "restored", "sweep", "unmark"}
    BY <1>13 DEF Cleanup, Preflight, Unlink, RmSubdir, Unjournal, RmStore, Recover, NoUpdate,
       BeginRevert, BeginSweep, Remanifest, Restored, Sweep, RmFolder, Unmark, Revert, Resume,
       Halt, Done, Loop
  <2>. QED  BY <2>1, WElsewhere DEF InstallPcs, InstallTry
<1>14. ASSUME Update PROVE InstallWhole'
  <2>1. pc' \in UpdateTry \cup {"idle", "sweep"}
    BY <1>14 DEF Update, Idempotent, PlanUpdate, MarkPreparing, MkFolder, Prior, MarkReady,
       After, NewManifest, MarkCommitted, Snapshot, Keep, Replace, UpdateTry, Halt, Done, Loop
  <2>. QED  BY <2>1, WElsewhere DEF InstallPcs, InstallTry, UpdateTry
<1>15. ASSUME Uninstall PROVE InstallWhole'
  <2>1. pc' \in CarryPcs \cup {"preflight", "idle"}
    BY <1>15 DEF Uninstall, LoadRemoved, LoadPresent, MkUndo, Uninstalling, Removed, Undone,
       Save, Restore, Unrestore, CarryPcs, Halt, Done, Loop
  <2>. QED  BY <2>1, WElsewhere DEF InstallPcs, InstallTry, CarryPcs
<1>16. ASSUME Edit PROVE InstallWhole'
  <2>1. UNCHANGED <<pc, todo, data, manifest>>
    BY <1>16 DEF Edit, mem
  <2>2. game'[Ini] = Edited /\ \A g \in Files \ {Ini} : game'[g] = game[g]
    BY <1>16, WholeEdit
  <2>. QED  BY <2>1, <2>2 DEF InstallWhole, Whole, WholeAt
<1>17. ASSUME UNCHANGED vars PROVE InstallWhole'
  BY <1>17 DEF vars, disk, mem, InstallWhole, Whole, WholeAt, game
<1>. QED  BY <1>1, <1>2, <1>3, <1>4, <1>5, <1>6, <1>7, <1>8, <1>9, <1>10, <1>11, <1>12,
             <1>13, <1>14, <1>15, <1>16, <1>17 DEF Next, Proceed, Install

\* Removals.
LEMMA RemoveWholeStep ==
  ASSUME IInv, JInv, WInv, [Next]_vars, ~Error
  PROVE  RemoveWhole'
<1>. USE DEF WInv
<1>1. ASSUME Rollback PROVE RemoveWhole'
  <2>1. op' = "install" /\ UNCHANGED manifest
    BY <1>1 DEF Rollback, disk, IInv, InstallInv
  <2>2. manifest # None => manifest.state # "installed"
    BY <1>1, RollbackRefused DEF Rollback
  <2>. QED  BY <1>1, <2>1, <2>2 DEF Rollback, Loop, RemoveWhole
<1>2. ASSUME MkUndo PROVE RemoveWhole'
  <2>1. manifest.state = data.state /\ op' = op /\ UNCHANGED <<manifest, data>>
    BY <1>2 DEF MkUndo, IInv, RemoveInv
  <2>. QED  BY <1>2, <2>1 DEF MkUndo, Loop, RemoveWhole, Touched, Kept
<1>3. ASSUME Uninstalling PROVE RemoveWhole'
  <2>1. data \in Manifest
    BY <1>3, DataType DEF Uninstalling, CarryPcs
  <2>2. data'.state = "uninstalling" /\ data'.files = data.files
    BY <1>3, <2>1, StateSet DEF Uninstalling, States
  <2>3. Touched(data') = Touched(data)
    BY <2>2 DEF Touched, Kept
  <2>. QED  BY <1>3, <2>2, <2>3 DEF Uninstalling, Loop, RemoveWhole
<1>4. ASSUME NEW f \in Files, Restore(f) PROVE RemoveWhole'
  BY <1>4 DEF Restore, At, Done, Loop, RemoveWhole, Touched, Kept
<1>5. ASSUME Refuse PROVE RemoveWhole'
  <2>1. ~(pc = "restore" /\ op = "uninstall")
    BY <1>5, RestoreAccepted DEF Refuse, Refused
  <2>2. pc' \in {"rollback", "recover", "idle"}
    BY <1>5, <2>1 DEF Refuse, Caught, Halt
  <2>. QED  BY <2>2, WElsewhere
<1>6. ASSUME BeginInstall \/ BeginReinstall \/ BeginUninstall \/ Crash PROVE RemoveWhole'
  BY <1>6, WElsewhere DEF BeginInstall, BeginReinstall, BeginUninstall, Crash, Halt, RemoveWhole
<1>7. ASSUME Install, ~Rollback PROVE RemoveWhole'
  <2>1. pc' \in InstallTry \cup {"idle"}
    BY <1>7 DEF Install, MkStore, Prepare, MkSubdir, Installing, Record, Installed, Final,
       Backup, Intent, Copy, InstallTry, Halt, Done, Loop
  <2>. QED  BY <2>1, WElsewhere DEF InstallTry
<1>8. ASSUME Cleanup \/ Recover PROVE RemoveWhole'
  <2>1. pc' \in {"clean", "idle", "load", "revert", "remanifest", "restored", "sweep", "unmark"}
    BY <1>8 DEF Cleanup, Preflight, Unlink, RmSubdir, Unjournal, RmStore, Recover, NoUpdate,
       BeginRevert, BeginSweep, Remanifest, Restored, Sweep, RmFolder, Unmark, Revert, Resume,
       Halt, Done, Loop
  <2>. QED  BY <2>1, WElsewhere
<1>9. ASSUME Update PROVE RemoveWhole'
  <2>1. pc' \in UpdateTry \cup {"idle", "sweep"}
    BY <1>9 DEF Update, Idempotent, PlanUpdate, MarkPreparing, MkFolder, Prior, MarkReady,
       After, NewManifest, MarkCommitted, Snapshot, Keep, Replace, UpdateTry, Halt, Done, Loop
  <2>. QED  BY <2>1, WElsewhere DEF UpdateTry
<1>10. ASSUME Uninstall PROVE RemoveWhole'
  <2>1. ASSUME LoadRemoved \/ LoadPresent \/ Removed PROVE RemoveWhole'
    BY <2>1, WElsewhere DEF LoadRemoved, LoadPresent, Removed
  <2>2. ASSUME NEW f \in Files, Save(f) PROVE RemoveWhole'
    BY <2>2, WElsewhere DEF Save, Done, Loop
  <2>3. ~Undone /\ \A f \in Files : ~Unrestore(f)
    BY DEF RemoveWhole, Undone, Unrestore, At
  <2>. QED  BY <1>2, <1>3, <1>4, <1>10, <2>1, <2>2, <2>3 DEF Uninstall
<1>11. ASSUME Edit \/ UNCHANGED vars PROVE RemoveWhole'
  <2>1. UNCHANGED <<pc, todo, op, data, manifest>>
    BY <1>11 DEF Edit, vars, disk, mem
  <2>. QED  BY <2>1 DEF RemoveWhole, Touched, Kept
<1>. QED  BY <1>1, <1>5, <1>6, <1>7, <1>8, <1>9, <1>10, <1>11 DEF Next, Proceed

\* Updates and their recovery.
LEMMA UpdateWholeStep ==
  ASSUME IInv, JInv, WInv, [Next]_vars, ~Error
  PROVE  UpdateWhole'
<1>. USE DEF WInv
<1>1. ASSUME PlanUpdate PROVE UpdateWhole'
  <2>1. manifest # None /\ manifest.state = "installed" /\ ~Pending
    BY <1>1 DEF PlanUpdate, Installable, Loadable, KnownTree, Pending
  <2>2. Whole(manifest)
    BY <2>1 DEF SettledInv
  <2>3. PICK S \in SUBSET Files :
          plan'.before = manifest /\ plan'.snapshots = [f \in S |-> game[f]]
    BY <1>1 DEF PlanUpdate
  <2>4. SnapshotsWhole(plan')
    BY <2>2, <2>3 DEF SnapshotsWhole, Whole, WholeAt
  <2>. QED  BY <1>1, <2>4 DEF PlanUpdate, UpdateWhole, SnapshotsWhole
<1>2. ASSUME pc \in UpdateTry, pc' \in UpdateTry \ {"manifest", "commit"}, UNCHANGED plan
      PROVE  UpdateWhole'
  BY <1>2 DEF UpdateWhole, UpdateTry, SnapshotsWhole
<1>3. ASSUME MarkReady PROVE UpdateWhole'
  <2>1. plan \in Journal /\ SnapshotsWhole(plan)
    BY <1>3, PlanType DEF MarkReady, UpdateTry, UpdateWhole
  <2>2. plan'.before = plan.before /\ plan'.snapshots = plan.snapshots
    BY <1>3, <2>1 DEF MarkReady, Mark, Journal
  <2>3. SnapshotsWhole(plan')
    BY <2>1, <2>2 DEF SnapshotsWhole
  <2>. QED  BY <1>3, <2>3 DEF MarkReady, Loop, UpdateWhole, SnapshotsWhole
<1>4. ASSUME After PROVE UpdateWhole'
  <2>1. plan.after \in Manifest /\ plan.after.state = "installed" /\ SnapshotsWhole(plan)
    BY <1>4, PlanType DEF After, UpdateTry, UpdateWhole, Planned
  <2>2. ASSUME NEW f \in Files PROVE game[f] = plan.after.files[f].sha
    <3>1. CASE f \in Kept(plan.after)
      BY <1>4, <2>1, <3>1 DEF After, Verified
    <3>2. CASE f \notin Kept(plan.after)
      BY <1>4, <2>1, <3>2 DEF After, Verified, Tolerated, Allowed
    <3>. QED  BY <3>1, <3>2
  <2>. QED  BY <1>4, <2>1, <2>2 DEF After, disk, mem, UpdateWhole, SnapshotsWhole, Whole, WholeAt, game
<1>5. ASSUME NewManifest PROVE UpdateWhole'
  BY <1>5 DEF NewManifest, mem, UpdateWhole, UpdateTry, SnapshotsWhole, Whole, WholeAt, game
<1>6. ASSUME BeginRevert PROVE UpdateWhole'
  <2>1. plan' = marker /\ marker # None /\ Pending
    BY <1>6 DEF BeginRevert, Revertable, Pending
  <2>2. \A f \in Files \ DOMAIN marker.snapshots : WholeAt(marker.before, f)
    BY <2>1 DEF SettledInv
  <2>. QED  BY <1>6, <2>1, <2>2 DEF BeginRevert, disk, Loop, UpdateWhole, UpdateTry, Whole, WholeAt, game
<1>7. ASSUME NEW f \in Files, Revert(f) PROVE UpdateWhole'
  <2>1. /\ marker = plan /\ plan # None /\ f \in DOMAIN plan.snapshots
        /\ plan.snapshots[f] \in Contents
    BY <1>7, PlanType DEF Revert, At, IInv, UpdateInv, RevertPcs
  <2>2. game'[f] = plan.snapshots[f] /\ \A g \in Files \ {f} : game'[g] = game[g]
    BY <1>7, <2>1, WholePut DEF Revert
  <2>3. SnapshotsWhole(plan)
    BY <2>1 DEF SettledInv
  <2>4. \A g \in Files \ todo' : WholeAt(plan.before, g)'
    BY <1>7, <2>1, <2>2, <2>3 DEF Revert, At, Done, Loop, UpdateWhole, WholeAt, SnapshotsWhole
  <2>. QED  BY <1>7, <2>4 DEF Revert, At, Done, Loop, UpdateWhole, UpdateTry, Whole, WholeAt
<1>8. ASSUME Remanifest PROVE UpdateWhole'
  BY <1>8 DEF Remanifest, mem, UpdateWhole, UpdateTry, Whole, WholeAt, game
<1>9. ASSUME Edit PROVE UpdateWhole'
  <2>1. UNCHANGED <<pc, todo, plan>>
    BY <1>9 DEF Edit, mem
  <2>2. game'[Ini] = Edited /\ \A g \in Files \ {Ini} : game'[g] = game[g]
    BY <1>9, WholeEdit
  <2>. QED  BY <2>1, <2>2 DEF UpdateWhole, SnapshotsWhole, Whole, WholeAt
<1>10. ASSUME UNCHANGED vars PROVE UpdateWhole'
  BY <1>10 DEF vars, disk, mem, UpdateWhole, SnapshotsWhole, Whole, WholeAt, game
<1>11. ASSUME BeginInstall \/ BeginReinstall \/ BeginUninstall \/ Crash PROVE UpdateWhole'
  BY <1>11, WElsewhere DEF BeginInstall, BeginReinstall, BeginUninstall, Crash, Halt, disk,
     UpdateTry, RevertPcs, UpdateWhole
<1>12. ASSUME Refuse PROVE UpdateWhole'
  <2>1. pc' \in {"rollback", "recover", "unrestore", "undone", "idle"}
    BY <1>12 DEF Refuse, Caught, Halt, Loop
  <2>. QED  BY <2>1, WElsewhere DEF UpdateTry, RevertPcs
<1>13. ASSUME Install PROVE UpdateWhole'
  <2>1. pc' \in InstallTry \cup {"idle", "restore", "removed"}
    BY <1>13 DEF Install, MkStore, Prepare, MkSubdir, Installing, Record, Installed, Final,
       Rollback, Backup, Intent, Copy, InstallTry, Halt, Done, Loop
  <2>. QED  BY <2>1, WElsewhere DEF InstallTry, UpdateTry, RevertPcs
<1>14. ASSUME Cleanup PROVE UpdateWhole'
  <2>1. pc' \in {"clean", "idle"}
    BY <1>14 DEF Cleanup, Preflight, Unlink, RmSubdir, Unjournal, RmStore, Halt
  <2>. QED  BY <2>1, WElsewhere DEF UpdateTry, RevertPcs
<1>15. ASSUME NoUpdate \/ BeginSweep \/ Restored \/ Sweep \/ RmFolder \/ Unmark PROVE UpdateWhole'
  <2>1. pc' \in {"idle", "load", "sweep", "unmark"}
    BY <1>15 DEF NoUpdate, BeginSweep, Restored, Sweep, RmFolder, Unmark, Resume, Halt
  <2>. QED  BY <2>1, WElsewhere DEF UpdateTry, RevertPcs
<1>16. ASSUME Idempotent \/ MarkCommitted PROVE UpdateWhole'
  BY <1>16, WElsewhere DEF Idempotent, MarkCommitted, Halt, UpdateTry, RevertPcs
<1>17. ASSUME MarkPreparing \/ MkFolder \/ Prior PROVE UpdateWhole'
  <2>1. pc \in UpdateTry /\ pc' \in UpdateTry \ {"manifest", "commit"} /\ UNCHANGED plan
    BY <1>17 DEF MarkPreparing, MkFolder, Prior, Loop, mem, UpdateTry
  <2>. QED  BY <1>2, <2>1
<1>18. ASSUME NEW f \in Files, Snapshot(f) \/ Keep(f) \/ Replace(f) PROVE UpdateWhole'
  <2>1. pc \in UpdateTry /\ pc' \in UpdateTry \ {"manifest", "commit"} /\ UNCHANGED plan
    BY <1>18 DEF Snapshot, Keep, Replace, At, Done, Loop, UpdateTry
  <2>. QED  BY <1>2, <2>1
<1>19. ASSUME Uninstall PROVE UpdateWhole'
  <2>1. pc' \in CarryPcs \cup {"preflight", "idle"}
    BY <1>19 DEF Uninstall, LoadRemoved, LoadPresent, MkUndo, Uninstalling, Removed, Undone,
       Save, Restore, Unrestore, CarryPcs, Halt, Done, Loop
  <2>. QED  BY <2>1, WElsewhere DEF UpdateTry, RevertPcs, CarryPcs
<1>. QED  BY <1>1, <1>3, <1>4, <1>5, <1>6, <1>7, <1>8, <1>9, <1>10, <1>11, <1>12, <1>13, <1>14,
             <1>15, <1>16, <1>17, <1>18, <1>19 DEF Next, Proceed, Recover, Update

\* A failing operation spends the budget for good.
LEMMA NothingFailedStep ==
  ASSUME IInv, [Next]_vars, NothingFailed'
  PROVE  NothingFailed /\ ~Error
<1>1. /\ budget \in [crash : 0 .. MaxCrashes, error : 0 .. MaxErrors, edit : 0 .. MaxEdits]
      /\ budget.error \in 0 .. MaxErrors /\ MaxErrors \in Nat
  BY BoundAssumption DEF IInv, TypeOK
<1>2. ~Error
  BY <1>1 DEF Error, NothingFailed
<1>3. budget'.error = budget.error
  <2>1. ASSUME Crash \/ Edit PROVE budget'.error = budget.error
    BY <2>1 DEF Crash, Edit, IInv, TypeOK
  <2>2. ASSUME ~Crash, ~Edit PROVE UNCHANGED budget
    BY <1>2, <2>2 DEF Next, vars, Proceed, BeginInstall, BeginReinstall, BeginUninstall, Refuse,
       Install, MkStore, Prepare, MkSubdir, Installing, Record, Installed, Final, Rollback,
       Backup, Intent, Copy, Cleanup, Preflight, Unlink, RmSubdir, Unjournal, RmStore,
       Recover, NoUpdate, BeginRevert, BeginSweep, Remanifest, Restored, Sweep, RmFolder, Unmark,
       Revert, Update, Idempotent, PlanUpdate, MarkPreparing, MkFolder, Prior, MarkReady, After,
       NewManifest, MarkCommitted, Snapshot, Keep, Replace, Uninstall, LoadRemoved, LoadPresent,
       MkUndo, Uninstalling, Removed, Undone, Save, Restore, Unrestore
  <2>. QED  BY <2>1, <2>2
<1>. QED  BY <1>2, <1>3 DEF NothingFailed

\* When no command runs and none is to recover, the files are those of one
\* installation: SettledIsWhole.  Kills and settings that change under a command
\* do not break it; what may is an operation that fails while an installation
\* that was complete is rolled back.
THEOREM SettledFilesAreWhole == Spec => [](NothingFailed => SettledIsWhole)
<1>1. Init => WInv
  BY DEF Init, WInv, SettledInv, InstallWhole, RemoveWhole, UpdateWhole, Pending, InstallPcs,
     InstallTry, UpdateTry
<1>2. (NothingFailed => WInv) /\ (IInv /\ JInv) /\ [Next]_vars => (NothingFailed => WInv)'
  BY NothingFailedStep, SettledStep, InstallWholeStep, RemoveWholeStep, UpdateWholeStep DEF WInv
<1>3. IInv /\ (NothingFailed => WInv) => (NothingFailed => SettledIsWhole)
  BY DEF WInv, SettledInv, Pending, SettledIsWhole, Whole, WholeAt, game
<1>. QED  BY <1>1, <1>2, <1>3, JInvAlways, PTL DEF Spec

-----------------------------------------------------------------------------
(* Deploy implements Transaction.  What the journals begin to show is in      *)
(* place, whatever has failed before: the invariant follows the files of one  *)
(* command from its checks, and those of an update from journal to journal.   *)

\* the file is as m deploys it, but for the settings, which the overlay rewrites
StandsAt(m, f) == f = Ini \/ game[f] = m.files[f].sha
Stands(m)      == \A f \in Files : StandsAt(m, f)

\* an update starts from what was installed and changes what it replaces
Stepwise(j) ==
  \A f \in Files \ {Ini} :
    /\ f \in DOMAIN j.snapshots => j.snapshots[f] = j.before.files[f].sha
    /\ f \notin DOMAIN j.snapshots => j.after.files[f].sha = j.before.files[f].sha

PendingTx ==
  /\ marker # None => Stepwise(marker)
  /\ Pending => \A f \in Files \ DOMAIN marker.snapshots : StandsAt(marker.before, f)

InstallTx ==
  /\ pc \in {"intent", "record", "copy", "installed"} =>
       manifest # None /\ manifest.state = "installing" /\ data.state = "installing"
  /\ pc = "installed" => manifest.files = data.files
  /\ pc \in {"intent", "record", "copy"} => \A f \in Files \ todo : StandsAt(data, f)
  /\ pc \in {"intent", "copy"} => manifest = data
  /\ pc = "installed" => Stands(data)

\* what an uninstallation has saved of an installation, or put back
UndoStands(f) == f \in DOMAIN data.undo /\ (f = Ini \/ data.undo[f] = data.files[f].sha)

RemoveTx ==
  /\ pc = "mkundo" /\ data.state = "installed" => Stands(data)
  /\ pc = "undone" => todo = {}
  /\ prev = "installed" =>
       /\ pc = "save" => Stands(data) /\ \A f \in Touched(data) \ todo : UndoStands(f)
       /\ pc \in {"uninstalling", "unrestore", "undone"} \/ (pc = "restore" /\ op = "uninstall")
            => \A f \in Touched(data) : UndoStands(f)
       /\ pc \in {"unrestore", "undone"} => \A f \in Touched(data) \ todo : StandsAt(data, f)

UpdateTx ==
  /\ pc \in UpdateTry => Stepwise(plan)
  /\ pc = "ready" => Stands(plan.before)
  /\ pc \in {"manifest", "commit"} => Stands(plan.after)
  /\ pc = "revert" => \A f \in Files \ todo : StandsAt(plan.before, f)
  /\ pc \in {"remanifest", "restored"} => Stands(plan.before)

TInv == PendingTx /\ InstallTx /\ RemoveTx /\ UpdateTx

\* where the parts say nothing
LEMMA TElsewhere ==
  /\ pc' \notin {"intent", "record", "copy", "installed"} => InstallTx'
  /\ pc' \notin CarryPcs => RemoveTx'
  /\ pc' \notin UpdateTry \cup RevertPcs => UpdateTx'
BY DEF InstallTx, RemoveTx, UpdateTx, CarryPcs, UpdateTry, RevertPcs

\* a manifest that _verify accepts as installed stands in the game
LEMMA VerifiedStands ==
  ASSUME NEW m, m.state = "installed", NEW who \in {"strict", "ini"}, Verified(m, who)
  PROVE  Stands(m)
<1>. SUFFICES ASSUME NEW f \in Files, f # Ini PROVE game[f] = m.files[f].sha
  BY DEF Stands, StandsAt
<1>1. CASE f \in Kept(m)
  BY <1>1 DEF Verified
<1>2. CASE f \notin Kept(m)
  BY <1>2 DEF Verified, Tolerated, Allowed
<1>. QED  BY <1>1, <1>2

\* A kept file is what it was, and what the manifest has of it.
LEMMA KeptStands ==
  ASSUME IInv, marker = None, NEW m \in Manifest, Faithful(m), Shape(m), NEW f \in Kept(m),
         manifest # None => Touched(manifest) \subseteq Touched(m)
  PROVE  game[f] = m.files[f].sha
<1>1. f \in Files /\ f \notin Touched(m) /\ m.files[f].sha = Before(f)
  BY DEF Kept, Touched, Shape, Faithful
<1>2. ~Deployed(f) /\ ~Replacing(f)
  BY <1>1 DEF Deployed, Replacing
<1>. QED  BY <1>1, <1>2 DEF IInv, DiskInv

\* Updates that are pending.
LEMMA PendingTxStep ==
  ASSUME IInv, TInv, [Next]_vars
  PROVE  PendingTx'
<1>. USE DEF TInv
<1>1. ASSUME UNCHANGED marker, game' = game PROVE PendingTx'
  BY <1>1 DEF PendingTx, Pending, Stepwise, StandsAt
<1>2. ASSUME UNCHANGED marker, ~Pending PROVE PendingTx'
  BY <1>2 DEF PendingTx, Pending, Stepwise
<1>3. ASSUME NEW p \in Places \ {"game"}, NEW f \in Files, NEW c \in Contents, Put(p, f, c),
             UNCHANGED marker
      PROVE  PendingTx'
  <2>1. game' = game
    BY <1>3, PutType DEF IInv, TypeOK, Places, game
  <2>. QED  BY <1>1, <1>3, <2>1
<1>4. ASSUME UNCHANGED <<files, marker>> PROVE PendingTx'
  BY <1>1, <1>4 DEF game
<1>5. ASSUME BeginInstall \/ BeginReinstall \/ BeginUninstall \/ Crash \/ Error \/ Refuse \/ UNCHANGED vars
      PROVE  PendingTx'
  BY <1>4, <1>5 DEF BeginInstall, BeginReinstall, BeginUninstall, Crash, Error, Refuse, vars, disk
<1>6. ASSUME NEW f \in Files, Copy(f) \/ Restore(f) \/ Unrestore(f) PROVE PendingTx'
  <2>1. pc \in InstallPcs \cup CarryPcs /\ UNCHANGED marker
    BY <1>6 DEF Copy, Restore, Unrestore, At, InstallPcs, InstallTry, CarryPcs
  <2>2. marker = None
    BY <2>1, DataType
  <2>. QED  BY <1>2, <2>1, <2>2 DEF Pending
<1>7. ASSUME NEW f \in Files, Revert(f) \/ Replace(f) PROVE PendingTx'
  <2>1. /\ marker = plan /\ plan # None /\ f \in DOMAIN plan.snapshots
    BY <1>7 DEF Revert, Replace, At, IInv, UpdateInv, UpdateTry
  <2>2. plan.snapshots[f] \in Contents /\ plan.after.files[f].sha \in Contents
    BY <1>7, <2>1, PlanType, ItemType DEF Revert, Replace, At, UpdateTry, RevertPcs
  <2>3. \A g \in Files \ {f} : game'[g] = game[g]
    BY <1>7, <2>2, WholePut DEF Revert, Replace
  <2>4. UNCHANGED marker
    BY <1>7 DEF Revert, Replace
  <2>. QED  BY <2>1, <2>3, <2>4 DEF PendingTx, Pending, Stepwise, StandsAt
<1>8. ASSUME MarkPreparing PROVE PendingTx'
  <2>1. plan.phase # "ready" /\ Stepwise(plan)
    BY <1>8 DEF MarkPreparing, IInv, UpdateInv, UpdateTry, UpdateTx
  <2>. QED  BY <1>8, <2>1 DEF MarkPreparing, PendingTx, Pending, Stepwise
<1>9. ASSUME MarkReady PROVE PendingTx'
  <2>1. plan \in Journal /\ Stepwise(plan) /\ Stands(plan.before)
    BY <1>9, PlanType DEF MarkReady, UpdateTry, UpdateTx
  <2>2. /\ marker'.before = plan.before /\ marker'.after = plan.after
        /\ marker'.snapshots = plan.snapshots /\ UNCHANGED files
    BY <1>9, <2>1 DEF MarkReady, Mark, Journal
  <2>. QED  BY <2>1, <2>2 DEF PendingTx, Pending, Stepwise, Stands, StandsAt, game
<1>10. ASSUME MarkCommitted \/ Restored PROVE PendingTx'
  <2>1. plan \in Journal /\ marker = plan /\ plan # None
    BY <1>10, PlanType DEF MarkCommitted, Restored, IInv, UpdateInv, UpdateTry, RevertPcs
  <2>2. /\ marker'.before = plan.before /\ marker'.after = plan.after
        /\ marker'.snapshots = plan.snapshots /\ marker'.phase # "ready"
    BY <1>10, <2>1 DEF MarkCommitted, Restored, Mark, Journal, Phases
  <2>. QED  BY <2>1, <2>2 DEF PendingTx, Pending, Stepwise
<1>11. ASSUME Unmark PROVE PendingTx'
  BY <1>11 DEF Unmark, PendingTx, Pending
<1>12. ASSUME Edit PROVE PendingTx'
  <2>1. UNCHANGED marker
    BY <1>12 DEF Edit
  <2>. QED  BY <1>12, <2>1, WholeEdit DEF PendingTx, Pending, Stepwise, StandsAt
<1>13. ASSUME Install PROVE PendingTx'
  <2>1. ASSUME MkStore \/ Prepare \/ MkSubdir \/ Installing \/ Record \/ Installed \/ Final \/ Rollback
        PROVE  PendingTx'
    BY <1>4, <2>1 DEF MkStore, Prepare, MkSubdir, Installing, Record, Installed, Final, Rollback, disk
  <2>2. ASSUME NEW f \in Files, Backup(f) PROVE PendingTx'
    <3>1. game[f] \in Contents
      BY DEF IInv, TypeOK, Places, game
    <3>. QED  BY <1>3, <2>2, <3>1 DEF Backup, Places
  <2>3. ASSUME NEW f \in Files, Intent(f) PROVE PendingTx'
    BY <1>4, <2>3 DEF Intent, disk
  <2>. QED  BY <1>6, <1>13, <2>1, <2>2, <2>3 DEF Install
<1>14. ASSUME Cleanup PROVE PendingTx'
  <2>1. ASSUME Preflight \/ RmSubdir \/ Unjournal \/ RmStore PROVE PendingTx'
    BY <1>4, <2>1 DEF Preflight, RmSubdir, Unjournal, RmStore, disk
  <2>2. ASSUME Unlink PROVE PendingTx'
    <3>1. ASSUME NEW p \in {"backups", "undo"}, NEW f \in Files, Put(p, f, Absent)
          PROVE  PendingTx'
      BY <1>3, <2>2, <3>1 DEF Unlink, Places, Contents
    <3>. QED  BY <1>4, <2>2, <3>1 DEF Unlink, Clutter
  <2>. QED  BY <1>14, <2>1, <2>2 DEF Cleanup
<1>15. ASSUME Recover PROVE PendingTx'
  <2>1. ASSUME NoUpdate \/ BeginRevert \/ BeginSweep \/ RmFolder \/ Remanifest PROVE PendingTx'
    BY <1>4, <2>1 DEF NoUpdate, BeginRevert, BeginSweep, RmFolder, Remanifest, disk
  <2>2. ASSUME Sweep PROVE PendingTx'
    BY <1>3, <1>4, <2>2 DEF Sweep, Places, Contents
  <2>. QED  BY <1>7, <1>10, <1>11, <1>15, <2>1, <2>2 DEF Recover
<1>16. ASSUME Update PROVE PendingTx'
  <2>1. ASSUME Idempotent \/ PlanUpdate \/ MkFolder \/ Prior \/ After \/ NewManifest PROVE PendingTx'
    BY <1>4, <2>1 DEF Idempotent, PlanUpdate, MkFolder, Prior, After, NewManifest, disk
  <2>2. ASSUME NEW f \in Files, Snapshot(f) \/ Keep(f) PROVE PendingTx'
    <3>1. game[f] \in Contents /\ Backing(f) \in Contents
      BY DEF IInv, TypeOK, Places, game, Backing
    <3>. QED  BY <1>3, <2>2, <3>1 DEF Snapshot, Keep, Places
  <2>. QED  BY <1>7, <1>8, <1>9, <1>10, <1>16, <2>1, <2>2 DEF Update
<1>17. ASSUME Uninstall PROVE PendingTx'
  <2>1. ASSUME LoadRemoved \/ LoadPresent \/ MkUndo \/ Uninstalling \/ Removed \/ Undone PROVE PendingTx'
    BY <1>4, <2>1 DEF LoadRemoved, LoadPresent, MkUndo, Uninstalling, Removed, Undone, disk
  <2>2. ASSUME NEW f \in Files, Save(f) PROVE PendingTx'
    <3>1. game[f] \in Contents
      BY DEF IInv, TypeOK, Places, game
    <3>. QED  BY <1>3, <1>4, <2>2, <3>1 DEF Save, Places
  <2>. QED  BY <1>6, <1>17, <2>1, <2>2 DEF Uninstall
<1>. QED  BY <1>5, <1>12, <1>13, <1>14, <1>15, <1>16, <1>17 DEF Next, Proceed

\* Installations.
LEMMA InstallTxStep ==
  ASSUME IInv, JInv, TInv, [Next]_vars
  PROVE  InstallTx'
<1>. USE DEF TInv
<1>1. ASSUME Installing PROVE InstallTx'
  <2>. USE <1>1 DEF Installing
  <2>1. data \in Manifest /\ Faithful(data) /\ marker = None /\ Shape(data)
    BY DataType DEF InstallPcs, InstallTry, JInv, CarriedInv
  <2>2. data'.state = "installing" /\ data'.files = data.files /\ data' # None
    BY <2>1, StateSet, NoneAssumption DEF States
  <2>3. manifest # None => Touched(manifest) \subseteq Touched(data)
    BY DEF IInv, InstallInv, InstallTry
  <2>4. \A f \in Kept(data) : game'[f] = data'.files[f].sha
    BY <2>1, <2>2, <2>3, KeptStands DEF game
  <2>5. todo' = Files \ Kept(data) /\ pc' \in {"intent", "installed"}
        /\ (pc' = "installed" => todo' = {})
    BY DEF Loop
  <2>6. \A f \in Files \ todo' : StandsAt(data, f)'
    BY <2>4, <2>5 DEF StandsAt
  <2>. QED  BY <2>2, <2>5, <2>6 DEF InstallTx, Stands
<1>2. ASSUME NEW f \in Files, Intent(f) PROVE InstallTx'
  <2>. USE <1>2 DEF Intent, At
  <2>1. data \in Manifest
    BY DataType DEF InstallPcs, InstallTry
  <2>2. data'.state = data.state /\ \A g \in Files : data'.files[g].sha = data.files[g].sha
    BY <2>1 DEF Manifest, Item
  <2>3. UNCHANGED <<manifest, todo>> /\ game' = game /\ pc' = "record"
    BY DEF disk, game
  <2>. QED  BY <2>2, <2>3 DEF InstallTx, StandsAt
<1>3. ASSUME Record PROVE InstallTx'
  <2>1. data # None
    BY <1>3, DataType DEF Record, InstallPcs, InstallTry
  <2>. QED  BY <1>3, <2>1 DEF Record, mem, InstallTx, StandsAt, game
<1>4. ASSUME NEW f \in Files, Copy(f) PROVE InstallTx'
  <2>1. data \in Manifest /\ f \in todo
    BY <1>4, DataType DEF Copy, At, InstallPcs, InstallTry
  <2>2. game'[f] = data.files[f].sha /\ \A g \in Files \ {f} : game'[g] = game[g]
    BY <1>4, <2>1, ItemType, WholePut DEF Copy
  <2>3. \A g \in Files \ todo' : StandsAt(data, g)'
    BY <1>4, <2>2 DEF Copy, At, Done, Loop, InstallTx, StandsAt
  <2>. QED  BY <1>4, <2>3 DEF Copy, At, Done, Loop, InstallTx, Stands
<1>5. ASSUME pc' \notin {"intent", "record", "copy", "installed"} PROVE InstallTx'
  BY <1>5, TElsewhere
<1>6. ASSUME Edit PROVE InstallTx'
  <2>1. UNCHANGED <<pc, todo, data, manifest>>
    BY <1>6 DEF Edit, mem
  <2>. QED  BY <1>6, <2>1, WholeEdit DEF InstallTx, Stands, StandsAt
<1>7. ASSUME UNCHANGED vars PROVE InstallTx'
  BY <1>7 DEF vars, disk, mem, InstallTx, Stands, StandsAt, game
<1>8. ASSUME Install PROVE InstallTx'
  <2>1. ASSUME MkStore \/ Prepare \/ MkSubdir \/ Installed \/ Final \/ Rollback PROVE InstallTx'
    BY <1>5, <2>1 DEF MkStore, Prepare, MkSubdir, Installed, Final, Rollback, Halt, Loop, mem
  <2>2. ASSUME NEW f \in Files, Backup(f) PROVE InstallTx'
    BY <1>5, <2>2 DEF Backup, At, Done, Loop
  <2>. QED  BY <1>1, <1>2, <1>3, <1>4, <1>8, <2>1, <2>2 DEF Install
<1>9. ASSUME BeginInstall \/ BeginReinstall \/ BeginUninstall \/ Crash PROVE InstallTx'
  <2>1. pc' \in {"mkdir", "recover", "idle"}
    BY <1>9 DEF BeginInstall, BeginReinstall, BeginUninstall, Crash, Halt
  <2>. QED  BY <1>5, <2>1
<1>10. ASSUME Refuse \/ Error PROVE InstallTx'
  <2>1. pc' \in {"rollback", "recover", "unrestore", "undone", "idle"}
    BY <1>10 DEF Refuse, Error, Caught, Halt, Loop
  <2>. QED  BY <1>5, <2>1
<1>11. ASSUME Cleanup \/ Recover PROVE InstallTx'
  <2>1. pc' \in {"clean", "idle", "load", "revert", "remanifest", "restored", "sweep", "unmark"}
    BY <1>11 DEF Cleanup, Preflight, Unlink, RmSubdir, Unjournal, RmStore, Recover, NoUpdate,
       BeginRevert, BeginSweep, Remanifest, Restored, Sweep, RmFolder, Unmark, Revert, Resume,
       Halt, Done, Loop
  <2>. QED  BY <1>5, <2>1
<1>12. ASSUME Update PROVE InstallTx'
  <2>1. pc' \in UpdateTry \cup {"idle", "sweep"}
    BY <1>12 DEF Update, Idempotent, PlanUpdate, MarkPreparing, MkFolder, Prior, MarkReady,
       After, NewManifest, MarkCommitted, Snapshot, Keep, Replace, UpdateTry, Halt, Done, Loop
  <2>. QED  BY <1>5, <2>1 DEF UpdateTry
<1>13. ASSUME Uninstall PROVE InstallTx'
  <2>1. pc' \in CarryPcs \cup {"preflight", "idle"}
    BY <1>13 DEF Uninstall, LoadRemoved, LoadPresent, MkUndo, Uninstalling, Removed, Undone,
       Save, Restore, Unrestore, CarryPcs, Halt, Done, Loop
  <2>. QED  BY <1>5, <2>1 DEF CarryPcs
<1>. QED  BY <1>6, <1>7, <1>8, <1>9, <1>10, <1>11, <1>12, <1>13 DEF Next, Proceed

\* Updates and their recovery.
LEMMA UpdateTxStep ==
  ASSUME IInv, JInv, TInv, [Next]_vars
  PROVE  UpdateTx'
<1>. USE DEF TInv
<1>1. ASSUME PlanUpdate PROVE UpdateTx'
  <2>1. manifest.state = "installed" /\ Verified(manifest, "ini")
    BY <1>1 DEF PlanUpdate, Installable
  <2>2. Stands(manifest)
    BY <2>1, VerifiedStands
  <2>3. PICK v \in Versions, S \in SUBSET Files :
          plan' = [phase |-> "preparing", before |-> manifest,
                   after |-> Updated(manifest, S, v), snapshots |-> [f \in S |-> game[f]]]
    BY <1>1 DEF PlanUpdate
  <2>4. manifest \in Manifest
    BY <1>1 DEF PlanUpdate, Installable, Loadable, IInv, TypeOK
  <2>5. \A f \in Files \ S : Updated(manifest, S, v).files[f].sha = game[f]
    BY <2>4 DEF Updated, Manifest, Item
  <2>6. Stepwise(plan')
    BY <2>2, <2>3, <2>5 DEF Stepwise, Stands, StandsAt
  <2>. QED  BY <1>1, <2>6 DEF PlanUpdate, UpdateTx, Stepwise
<1>2. ASSUME pc \in UpdateTry, pc' \in UpdateTry \ {"ready", "manifest", "commit"}, UNCHANGED plan
      PROVE  UpdateTx'
  BY <1>2 DEF UpdateTx, UpdateTry, Stepwise
<1>3. ASSUME Prior PROVE UpdateTx'
  <2>1. plan.before.state = "installed" /\ Stepwise(plan)
    BY <1>3, PlanType DEF Prior, UpdateTry, UpdateTx, Planned
  <2>2. Stands(plan.before)
    BY <1>3, <2>1, VerifiedStands DEF Prior, Unmoved
  <2>. QED  BY <1>3, <2>1, <2>2 DEF Prior, disk, mem, UpdateTx, Stepwise, Stands, StandsAt, game
<1>4. ASSUME MarkReady PROVE UpdateTx'
  <2>1. plan \in Journal /\ Stepwise(plan)
    BY <1>4, PlanType DEF MarkReady, UpdateTry, UpdateTx
  <2>2. /\ plan'.before = plan.before /\ plan'.after = plan.after
        /\ plan'.snapshots = plan.snapshots
    BY <1>4, <2>1 DEF MarkReady, Mark, Journal
  <2>3. Stepwise(plan')
    BY <2>1, <2>2 DEF Stepwise
  <2>. QED  BY <1>4, <2>3 DEF MarkReady, Loop, UpdateTx, Stepwise
<1>5. ASSUME After PROVE UpdateTx'
  <2>1. plan.after.state = "installed" /\ Stepwise(plan)
    BY <1>5, PlanType DEF After, UpdateTry, UpdateTx, Planned
  <2>2. Stands(plan.after)
    BY <1>5, <2>1, VerifiedStands DEF After
  <2>. QED  BY <1>5, <2>1, <2>2 DEF After, disk, mem, UpdateTx, Stepwise, Stands, StandsAt, game
<1>6. ASSUME NewManifest PROVE UpdateTx'
  BY <1>6 DEF NewManifest, mem, UpdateTx, UpdateTry, Stepwise, Stands, StandsAt, game
<1>7. ASSUME BeginRevert PROVE UpdateTx'
  <2>1. plan' = marker /\ Pending
    BY <1>7 DEF BeginRevert, Revertable, Pending
  <2>2. \A f \in Files \ DOMAIN marker.snapshots : StandsAt(marker.before, f)
    BY <2>1 DEF PendingTx
  <2>. QED  BY <1>7, <2>1, <2>2 DEF BeginRevert, disk, Loop, UpdateTx, UpdateTry, Stands, StandsAt, game
<1>8. ASSUME NEW f \in Files, Revert(f) PROVE UpdateTx'
  <2>1. /\ marker = plan /\ plan # None /\ f \in DOMAIN plan.snapshots
        /\ plan.snapshots[f] \in Contents
    BY <1>8, PlanType DEF Revert, At, IInv, UpdateInv, RevertPcs
  <2>2. game'[f] = plan.snapshots[f] /\ \A g \in Files \ {f} : game'[g] = game[g]
    BY <1>8, <2>1, WholePut DEF Revert
  <2>3. Stepwise(plan)
    BY <2>1 DEF PendingTx
  <2>4. \A g \in Files \ todo' : StandsAt(plan.before, g)'
    BY <1>8, <2>1, <2>2, <2>3 DEF Revert, At, Done, Loop, UpdateTx, StandsAt, Stepwise
  <2>. QED  BY <1>8, <2>4 DEF Revert, At, Done, Loop, UpdateTx, UpdateTry, Stands, StandsAt
<1>9. ASSUME Remanifest PROVE UpdateTx'
  BY <1>9 DEF Remanifest, mem, UpdateTx, UpdateTry, Stands, StandsAt, game
<1>10. ASSUME Edit PROVE UpdateTx'
  <2>1. UNCHANGED <<pc, todo, plan>>
    BY <1>10 DEF Edit, mem
  <2>. QED  BY <1>10, <2>1, WholeEdit DEF UpdateTx, Stepwise, Stands, StandsAt
<1>11. ASSUME UNCHANGED vars PROVE UpdateTx'
  BY <1>11 DEF vars, disk, mem, UpdateTx, Stepwise, Stands, StandsAt, game
<1>12. ASSUME pc' \notin UpdateTry \cup RevertPcs PROVE UpdateTx'
  BY <1>12, TElsewhere
<1>13. ASSUME BeginInstall \/ BeginReinstall \/ BeginUninstall \/ Crash PROVE UpdateTx'
  <2>1. pc' \in {"mkdir", "recover", "idle"} \/ (pc' = pc /\ pc = "idle")
    BY <1>13 DEF BeginInstall, BeginReinstall, BeginUninstall, Crash, Halt
  <2>. QED  BY <1>12, <2>1 DEF UpdateTry, RevertPcs
<1>14. ASSUME Refuse \/ Error PROVE UpdateTx'
  <2>1. pc' \in {"rollback", "recover", "unrestore", "undone", "idle"}
    BY <1>14 DEF Refuse, Error, Caught, Halt, Loop
  <2>. QED  BY <1>12, <2>1 DEF UpdateTry, RevertPcs
<1>15. ASSUME Install PROVE UpdateTx'
  <2>1. pc' \in InstallTry \cup {"idle", "restore", "removed"}
    BY <1>15 DEF Install, MkStore, Prepare, MkSubdir, Installing, Record, Installed, Final,
       Rollback, Backup, Intent, Copy, InstallTry, Halt, Done, Loop
  <2>. QED  BY <1>12, <2>1 DEF InstallTry, UpdateTry, RevertPcs
<1>16. ASSUME Cleanup PROVE UpdateTx'
  <2>1. pc' \in {"clean", "idle"}
    BY <1>16 DEF Cleanup, Preflight, Unlink, RmSubdir, Unjournal, RmStore, Halt
  <2>. QED  BY <1>12, <2>1 DEF UpdateTry, RevertPcs
<1>17. ASSUME NoUpdate \/ BeginSweep \/ Restored \/ Sweep \/ RmFolder \/ Unmark PROVE UpdateTx'
  <2>1. pc' \in {"idle", "load", "sweep", "unmark"}
    BY <1>17 DEF NoUpdate, BeginSweep, Restored, Sweep, RmFolder, Unmark, Resume, Halt
  <2>. QED  BY <1>12, <2>1 DEF UpdateTry, RevertPcs
<1>18. ASSUME Idempotent \/ MarkCommitted PROVE UpdateTx'
  <2>1. pc' \in {"idle", "sweep"}
    BY <1>18 DEF Idempotent, MarkCommitted, Halt
  <2>. QED  BY <1>12, <2>1 DEF UpdateTry, RevertPcs
<1>19. ASSUME MarkPreparing \/ MkFolder PROVE UpdateTx'
  <2>1. pc \in UpdateTry /\ pc' \in UpdateTry \ {"ready", "manifest", "commit"} /\ UNCHANGED plan
    BY <1>19 DEF MarkPreparing, MkFolder, Loop, mem, UpdateTry
  <2>. QED  BY <1>2, <2>1
<1>20. ASSUME NEW f \in Files, Snapshot(f) \/ Keep(f) \/ Replace(f) PROVE UpdateTx'
  <2>1. pc \in UpdateTry /\ pc' \in UpdateTry \ {"ready", "manifest", "commit"} /\ UNCHANGED plan
    BY <1>20 DEF Snapshot, Keep, Replace, At, Done, Loop, UpdateTry
  <2>. QED  BY <1>2, <2>1
<1>21. ASSUME Uninstall PROVE UpdateTx'
  <2>1. pc' \in CarryPcs \cup {"preflight", "idle"}
    BY <1>21 DEF Uninstall, LoadRemoved, LoadPresent, MkUndo, Uninstalling, Removed, Undone,
       Save, Restore, Unrestore, CarryPcs, Halt, Done, Loop
  <2>. QED  BY <1>12, <2>1 DEF UpdateTry, RevertPcs, CarryPcs
<1>22. ASSUME Recover PROVE UpdateTx'
  BY <1>7, <1>8, <1>9, <1>17, <1>22 DEF Recover
<1>23. ASSUME Update PROVE UpdateTx'
  BY <1>1, <1>3, <1>4, <1>5, <1>6, <1>18, <1>19, <1>20, <1>23 DEF Update
<1>. QED  BY <1>10, <1>11, <1>13, <1>14, <1>15, <1>16, <1>21, <1>22, <1>23 DEF Next, Proceed

\* Removals.
LEMMA RemoveTxStep ==
  ASSUME IInv, JInv, TInv, [Next]_vars
  PROVE  RemoveTx'
<1>. USE DEF TInv
<1>1. ASSUME LoadPresent PROVE RemoveTx'
  <2>. USE <1>1 DEF LoadPresent, Removable, Loadable
  <2>1. manifest \in Manifest /\ Faithful(manifest) /\ Shape(manifest) /\ marker = None
    BY ValidFits DEF IInv, TypeOK, DiskInv, UpdateInv, Fits
  <2>2. manifest.state = "installed" => Stands(manifest)
    <3>1. ASSUME manifest.state = "installed", NEW f \in Files, f # Ini
          PROVE  game[f] = manifest.files[f].sha
      <4>1. CASE f \in Kept(manifest)
        BY <2>1, <4>1, KeptStands
      <4>2. CASE f \notin Kept(manifest)
        BY <3>1, <4>2 DEF Verified, Tolerated, Allowed
      <4>. QED  BY <4>1, <4>2
    <3>. QED  BY <3>1 DEF Stands, StandsAt
  <2>. QED  BY <2>2 DEF disk, RemoveTx, Stands, StandsAt, game
<1>2. ASSUME MkUndo PROVE RemoveTx'
  <2>1. game' = game /\ UNCHANGED <<data, files>>
    BY <1>2 DEF MkUndo, game
  <2>2. CASE data.state = "uninstalling"
    BY <1>2, <2>1, <2>2 DEF MkUndo, Loop, RemoveTx
  <2>3. CASE data.state # "uninstalling"
    <3>1. /\ prev' = data.state /\ todo' = Touched(data) /\ pc' \in {"save", "uninstalling"}
          /\ (pc' = "uninstalling" => Touched(data) = {})
      BY <1>2, <2>3 DEF MkUndo, Loop
    <3>2. prev' = "installed" => Stands(data)
      BY <1>2, <3>1 DEF MkUndo, RemoveTx
    <3>3. Touched(data)' = Touched(data) /\ (Stands(data) => Stands(data)')
      BY <2>1 DEF Touched, Kept, Stands, StandsAt
    <3>. QED  BY <3>1, <3>2, <3>3 DEF RemoveTx
  <2>. QED  BY <2>2, <2>3
<1>3. ASSUME NEW f \in Files, Save(f) PROVE RemoveTx'
  <2>. USE <1>3 DEF Save, At
  <2>1. data \in Manifest /\ f \in Touched(data) /\ game[f] \in Contents
    BY DataType DEF CarryPcs, IInv, RemoveInv, TypeOK, Places, game
  <2>2. data'.files = data.files /\ Touched(data)' = Touched(data)
    BY <2>1, SaveSet, SameFiles
  <2>3. /\ f \in DOMAIN data'.undo /\ data'.undo[f] = game[f]
        /\ \A g \in DOMAIN data.undo \ {f} : g \in DOMAIN data'.undo /\ data'.undo[g] = data.undo[g]
    BY <2>1 DEF Saved, Manifest
  <2>4. game' = game
    BY <2>1, PutType DEF IInv, TypeOK, Places, game
  <2>5. ASSUME prev = "installed"
        PROVE  Stands(data)' /\ \A g \in Touched(data) \ todo' : UndoStands(g)'
    <3>1. Stands(data) /\ \A g \in Touched(data) \ todo : UndoStands(g)
      BY <2>5 DEF RemoveTx
    <3>2. Stands(data)'
      BY <2>2, <2>4, <3>1 DEF Stands, StandsAt
    <3>3. UndoStands(f)'
      BY <2>2, <2>3, <3>1 DEF UndoStands, Stands, StandsAt
    <3>4. ASSUME NEW g \in Touched(data) \ todo', g # f PROVE UndoStands(g)'
      <4>1. UndoStands(g)
        BY <3>1, <3>4 DEF Done, Loop
      <4>. QED  BY <2>2, <2>3, <3>4, <4>1 DEF UndoStands
    <3>. QED  BY <3>2, <3>3, <3>4
  <2>6. UNCHANGED prev /\ pc' \in {"save", "uninstalling"} /\ (pc' = "uninstalling" => todo' = {})
    BY DEF Done, Loop
  <2>. QED  BY <2>2, <2>5, <2>6 DEF RemoveTx
<1>4. ASSUME Uninstalling PROVE RemoveTx'
  <2>1. data \in Manifest
    BY <1>4, DataType DEF Uninstalling, CarryPcs
  <2>2. data'.files = data.files /\ data'.undo = data.undo /\ Touched(data)' = Touched(data)
    BY <1>4, <2>1, StateSet DEF Uninstalling, States
  <2>3. UNCHANGED prev /\ pc' \in {"restore", "removed"}
    BY <1>4 DEF Uninstalling, Loop
  <2>. QED  BY <1>4, <2>2, <2>3 DEF Uninstalling, RemoveTx, UndoStands
<1>5. ASSUME NEW f \in Files, Restore(f) PROVE RemoveTx'
  BY <1>5 DEF Restore, At, Done, Loop, RemoveTx, UndoStands, Touched, Kept
<1>6. ASSUME NEW f \in Files, Unrestore(f) PROVE RemoveTx'
  <2>. USE <1>6 DEF Unrestore, At
  <2>1. data \in Manifest /\ f \in DOMAIN data.undo /\ data.undo[f] \in Contents
    BY DataType, UndoType DEF CarryPcs, IInv, RemoveInv
  <2>2. game'[f] = data.undo[f] /\ \A g \in Files \ {f} : game'[g] = game[g]
    BY <2>1, WholePut
  <2>3. /\ UNCHANGED <<data, prev>> /\ todo' = todo \ {f} /\ pc' \in {"unrestore", "undone"}
        /\ pc' = "undone" => todo' = {}
    BY DEF Done, Loop
  <2>4. Touched(data)' = Touched(data) /\ Touched(data) \subseteq Files
    BY <2>3 DEF Touched, Kept
  <2>5. ASSUME prev = "installed", NEW g \in Touched(data) \ todo' PROVE StandsAt(data, g)'
    <3>1. UndoStands(f) \/ g # f
      BY <2>5 DEF RemoveTx
    <3>2. g # f => StandsAt(data, g)
      BY <2>3, <2>5 DEF RemoveTx
    <3>. QED  BY <2>2, <2>3, <2>4, <2>5, <3>1, <3>2 DEF StandsAt, UndoStands
  <2>6. ASSUME prev = "installed", NEW g \in Touched(data) PROVE UndoStands(g)'
    BY <2>3, <2>6 DEF RemoveTx, UndoStands
  <2>. QED  BY <2>3, <2>4, <2>5, <2>6 DEF RemoveTx
<1>7. ASSUME pc' \notin CarryPcs PROVE RemoveTx'
  BY <1>7, TElsewhere
<1>8. ASSUME Refuse \/ Error PROVE RemoveTx'
  <2>1. CASE pc = "restore" /\ op = "uninstall"
    <3>1. /\ Loop("unrestore", DOMAIN data.undo, "undone") /\ UNCHANGED <<data, prev>>
      BY <1>8, <2>1 DEF Refuse, Error, Caught, InstallTry, UpdateTry
    <3>2. prev = "installed" => \A f \in Touched(data) : UndoStands(f)
      BY <2>1 DEF RemoveTx
    <3>3. prev = "installed" => Touched(data) \subseteq DOMAIN data.undo
      BY <3>2 DEF UndoStands
    <3>4. Touched(data)' = Touched(data) /\ \A f : UndoStands(f)' <=> UndoStands(f)
      BY <3>1 DEF Touched, Kept, UndoStands
    <3>5. /\ todo' = DOMAIN data.undo /\ pc' \in {"unrestore", "undone"}
          /\ pc' = "undone" => todo' = {}
      BY <3>1 DEF Loop
    <3>. QED  BY <3>1, <3>2, <3>3, <3>4, <3>5 DEF RemoveTx
  <2>2. CASE ~(pc = "restore" /\ op = "uninstall")
    <3>1. pc' \in {"rollback", "recover", "idle"}
      BY <1>8, <2>2 DEF Refuse, Error, Caught, Halt
    <3>. QED  BY <1>7, <3>1 DEF CarryPcs
  <2>. QED  BY <2>1, <2>2
<1>9. ASSUME Rollback PROVE RemoveTx'
  <2>1. op = "install" /\ UNCHANGED op
    BY <1>9 DEF Rollback, IInv, InstallInv
  <2>. QED  BY <1>9, <2>1 DEF Rollback, Loop, RemoveTx
<1>10. ASSUME Edit PROVE RemoveTx'
  <2>1. UNCHANGED <<pc, todo, op, data, prev>>
    BY <1>10 DEF Edit, mem
  <2>2. Touched(data)' = Touched(data) /\ \A f : UndoStands(f)' <=> UndoStands(f)
    BY <2>1 DEF Touched, Kept, UndoStands
  <2>3. /\ \A f \in Files : StandsAt(data, f) => StandsAt(data, f)'
        /\ Stands(data) => Stands(data)'
    BY <1>10, <2>1, WholeEdit DEF Stands, StandsAt
  <2>4. Touched(data) \subseteq Files
    BY DEF Touched
  <2>. QED  BY <2>1, <2>2, <2>3, <2>4 DEF RemoveTx
<1>11. ASSUME UNCHANGED vars PROVE RemoveTx'
  BY <1>11 DEF vars, disk, mem, RemoveTx, Touched, Kept, UndoStands, Stands, StandsAt, game
<1>12. ASSUME BeginInstall \/ BeginReinstall \/ BeginUninstall \/ Crash PROVE RemoveTx'
  <2>1. pc' \in {"mkdir", "recover", "idle"} \/ (pc' = pc /\ pc = "idle")
    BY <1>12 DEF BeginInstall, BeginReinstall, BeginUninstall, Crash, Halt
  <2>. QED  BY <1>7, <2>1 DEF CarryPcs
<1>13. ASSUME Install, ~Rollback PROVE RemoveTx'
  <2>1. pc' \in InstallTry \cup {"idle"}
    BY <1>13 DEF Install, MkStore, Prepare, MkSubdir, Installing, Record, Installed, Final,
       Backup, Intent, Copy, InstallTry, Halt, Done, Loop
  <2>. QED  BY <1>7, <2>1 DEF InstallTry, CarryPcs
<1>14. ASSUME Cleanup \/ Recover PROVE RemoveTx'
  <2>1. pc' \in {"clean", "idle", "load", "revert", "remanifest", "restored", "sweep", "unmark"}
    BY <1>14 DEF Cleanup, Preflight, Unlink, RmSubdir, Unjournal, RmStore, Recover, NoUpdate,
       BeginRevert, BeginSweep, Remanifest, Restored, Sweep, RmFolder, Unmark, Revert, Resume,
       Halt, Done, Loop
  <2>. QED  BY <1>7, <2>1 DEF CarryPcs
<1>15. ASSUME Update PROVE RemoveTx'
  <2>1. pc' \in UpdateTry \cup {"idle", "sweep"}
    BY <1>15 DEF Update, Idempotent, PlanUpdate, MarkPreparing, MkFolder, Prior, MarkReady,
       After, NewManifest, MarkCommitted, Snapshot, Keep, Replace, UpdateTry, Halt, Done, Loop
  <2>. QED  BY <1>7, <2>1 DEF UpdateTry, CarryPcs
<1>16. ASSUME LoadRemoved \/ Removed \/ Undone PROVE RemoveTx'
  <2>1. pc' \in {"preflight", "idle"}
    BY <1>16 DEF LoadRemoved, Removed, Undone, Halt
  <2>. QED  BY <1>7, <2>1 DEF CarryPcs
<1>17. ASSUME Uninstall PROVE RemoveTx'
  BY <1>1, <1>2, <1>3, <1>4, <1>5, <1>6, <1>16, <1>17 DEF Uninstall
<1>. QED  BY <1>8, <1>9, <1>10, <1>11, <1>12, <1>13, <1>14, <1>15, <1>17 DEF Next, Proceed

\* What a command shows as installed is in place.
LEMMA TInvAlways == Spec => [](IInv /\ JInv /\ TInv)
<1>1. Init => TInv
  BY DEF Init, TInv, PendingTx, InstallTx, RemoveTx, UpdateTx, Pending, UpdateTry
<1>2. TInv /\ (IInv /\ JInv) /\ [Next]_vars => TInv'
  BY PendingTxStep, InstallTxStep, RemoveTxStep, UpdateTxStep DEF TInv
<1>. QED  BY <1>1, <1>2, JInvAlways, PTL DEF Spec

-----------------------------------------------------------------------------
(* Every step of Deploy is one of Transaction, or leaves its variables alone. *)

\* what a step of Deploy is in Transaction
Tx == Undoing!Next \/ UNCHANGED Undoing!vars

\* a file that is not kept is in any manifest that was accepted
LEMMA SettingsTouched ==
  ASSUME NEW m, Valid(m), m.state = "installed"
  PROVE  Ini \in Touched(m)
BY FilesAssumption DEF Valid, Kept

\* What the journals say without an update that is pending, and with one.
LEMMA Idle ==
  /\ ~Pending => /\ Claimed = {f \in Files : Deployed(f)} /\ Scope = {} /\ Goal = Version
                 /\ Showing => Mode = "installed" /\ Version = Deploys(manifest)
                 /\ ~Showing => Mode = "none" /\ Version = Originals
  /\ Pending => /\ Mode = "updating" /\ Scope = DOMAIN marker.snapshots
                /\ Version = Deploys(marker.before) /\ Goal = Deploys(marker.after)
BY DEF Pending, Claimed, Replacing, Scope, Goal, Version, Mode

LEMMA IdleNext ==
  /\ ~Pending' => /\ Claimed' = {f \in Files : Deployed(f)'} /\ Scope' = {} /\ Goal' = Version'
                  /\ Showing' => Mode' = "installed" /\ Version' = Deploys(manifest')
                  /\ ~Showing' => Mode' = "none" /\ Version' = Originals
  /\ Pending' => /\ Mode' = "updating" /\ Scope' = DOMAIN marker'.snapshots
                 /\ Version' = Deploys(marker'.before) /\ Goal' = Deploys(marker'.after)
BY DEF Pending, Claimed, Replacing, Scope, Goal, Version, Mode, Originals, Before, Deploys

\* A pending update claims what it started from and what it replaces.
LEMMA PendingClaims ==
  ASSUME IInv, Pending
  PROVE  Claimed = Touched(marker.before) \cup DOMAIN marker.snapshots
<1>1. /\ manifest # None /\ manifest.state = "installed" /\ Planned(marker)
      /\ manifest \in {marker.before, marker.after} /\ marker \in Journal
  BY Covered DEF Pending, IInv, DiskInv
<1>2. DOMAIN marker.snapshots \subseteq Files
  <2>1. PICK S \in SUBSET Files : marker.snapshots \in [S -> Contents]
    BY <1>1 DEF Journal, Partial
  <2>. QED  BY <2>1
<1>3. Touched(marker.before) \subseteq Files
  BY DEF Touched
<1>4. Touched(marker.after) = Touched(marker.before) \cup DOMAIN marker.snapshots
  BY <1>1 DEF Planned
<1>. QED  BY <1>1, <1>2, <1>3, <1>4 DEF Claimed, Deployed, Replacing, Pending

LEMMA JournalsAlone ==
  ASSUME UNCHANGED <<manifest, marker>>
  PROVE  UNCHANGED <<Claimed, Mode, Version, Goal, Scope>>
BY DEF Claimed, Deployed, Replacing, Touched, Kept, Mode, Version, Goal, Scope, Pending, Showing,
   Deploys, Originals, Before

LEMMA SavedAlone ==
  ASSUME files'["backups"] = files["backups"]
  PROVE  {f \in Files : Secured(f)}' = {f \in Files : Secured(f)}
BY DEF Secured

\* A step of the process alone, or in update/ and undo.
LEMMA TxNothing ==
  ASSUME UNCHANGED <<manifest, marker>>, game' = game, files'["backups"] = files["backups"]
  PROVE  Tx
BY JournalsAlone, SavedAlone DEF Tx, Undoing!vars, Undoing!journals, Undoing!shown

LEMMA TxElsewhere ==
  ASSUME IInv, NEW p \in {"undo", "update"}, NEW f \in Files, NEW c \in Contents, Put(p, f, c),
         UNCHANGED <<manifest, marker>>
  PROVE  Tx
<1>1. game' = game /\ files'["backups"] = files["backups"]
  BY PutType DEF IInv, TypeOK, Places, game
<1>. QED  BY <1>1, TxNothing

\* A backup is taken of what the user had.
LEMMA TxSave ==
  ASSUME IInv, NEW f \in Files, game[f] = Before(f), Put("backups", f, Before(f)),
         UNCHANGED <<manifest, marker>>
  PROVE  Tx
<1>1. Before(f) \in Contents
  BY DEF Before, Contents
<1>2. /\ files'["backups"][f] = Before(f)
      /\ \A g \in Files \ {f} : files'["backups"][g] = files["backups"][g]
      /\ game' = game
  BY <1>1, PutType DEF IInv, TypeOK, Places, game
<1>3. {g \in Files : Secured(g)}' = {g \in Files : Secured(g)} \cup {f}
  BY <1>2 DEF Secured, Before
<1>4. Undoing!Save(f)
  BY <1>2, <1>3, JournalsAlone DEF Undoing!Save, Undoing!journals, Undoing!shown, Originals
<1>. QED  BY <1>4 DEF Tx, Undoing!Next

\* A backup is dropped of a file that no journal names.
LEMMA TxForget ==
  ASSUME IInv, NEW f \in Files, f \notin Claimed, Put("backups", f, Absent),
         UNCHANGED <<manifest, marker>>
  PROVE  Tx
<1>1. /\ files'["backups"][f] = Absent
      /\ \A g \in Files \ {f} : files'["backups"][g] = files["backups"][g]
      /\ game' = game
  BY PutType DEF IInv, TypeOK, Places, game, Contents
<1>2. CASE f \in Present
  <2>1. {g \in Files : Secured(g)}' = {g \in Files : Secured(g)} \ {f}
    BY <1>1, <1>2, ContentAssumption DEF Secured
  <2>2. Undoing!Forget(f)
    BY <1>1, <2>1, JournalsAlone DEF Undoing!Forget, Undoing!journals, Undoing!shown
  <2>. QED  BY <2>2 DEF Tx, Undoing!Next
<1>3. CASE f \notin Present
  <2>1. {g \in Files : Secured(g)}' = {g \in Files : Secured(g)}
    BY <1>1, <1>3 DEF Secured
  <2>. QED  BY <1>1, <2>1, JournalsAlone DEF Tx, Undoing!vars, Undoing!journals, Undoing!shown
<1>. QED  BY <1>2, <1>3

\* A claimed file is written.
LEMMA TxWrite ==
  ASSUME IInv, NEW f \in Files, NEW c \in Contents, f \in Claimed, Put("game", f, c),
         UNCHANGED <<manifest, marker>>,
         \/ Mode = "none" \/ f = Ini
         \/ Mode # "updating" /\ c = Before(f)
         \/ f \in Scope /\ c \in {Version[f], Goal[f]}
  PROVE  Tx
<1>1. game' = [game EXCEPT ![f] = c] /\ files'["backups"] = files["backups"]
  BY DEF Put, IInv, TypeOK, Places, game
<1>2. \/ Mode = "none" \/ f \in {Ini}
      \/ Mode # "updating" /\ c = Originals[f]
      \/ f \in Scope /\ c \in {Version[f], Goal[f]}
  BY DEF Originals
<1>3. Undoing!Write(f)
  BY <1>1, <1>2, JournalsAlone, SavedAlone
     DEF Undoing!Write, Undoing!journals, Undoing!shown
<1>. QED  BY <1>3 DEF Tx, Undoing!Next

\* A manifest that claims no less and no more, and shows nothing before or after.
LEMMA TxManifest ==
  ASSUME ~Pending, ~Pending', UNCHANGED files, ~Showing, ~Showing', Claimed' = Claimed
  PROVE  Tx
<1>1. UNCHANGED <<Mode, Version, Goal, Scope>>
  BY Idle, IdleNext
<1>2. game' = game
  BY DEF game
<1>. QED  BY <1>1, <1>2, SavedAlone DEF Tx, Undoing!vars, Undoing!journals, Undoing!shown

LEMMA TxClaim ==
  ASSUME ~Pending, ~Pending', UNCHANGED files, ~Showing, ~Showing', Claimed \subseteq Claimed',
         \A f \in Claimed' : Secured(f)
  PROVE  Tx
<1>1. UNCHANGED <<Mode, Version, Goal, Scope>> /\ Mode = "none"
  BY Idle, IdleNext
<1>2. game' = game /\ Claimed' \subseteq Files
  BY DEF game, Claimed
<1>3. Undoing!Claim
  BY <1>1, <1>2, SavedAlone DEF Undoing!Claim, Undoing!shown
<1>. QED  BY <1>3 DEF Tx, Undoing!Next

LEMMA TxShow ==
  ASSUME ~Pending, ~Pending', UNCHANGED files, ~Showing, Showing', Claimed' = Claimed,
         manifest' \in Manifest, Stands(manifest')
  PROVE  Tx
<1>1. /\ Mode = "none" /\ Mode' = "installed" /\ Scope' = Scope
      /\ Version' = Deploys(manifest') /\ Goal' = Version'
  BY Idle, IdleNext
<1>2. game' = game
  BY DEF game
<1>3. Deploys(manifest') \in [Files -> Contents]
  BY ItemType DEF Deploys
<1>4. \A f \in Files \ {Ini} : game[f] = Version'[f]
  BY <1>1 DEF Stands, StandsAt, Deploys
<1>5. Undoing!Show
  BY <1>1, <1>2, <1>3, <1>4, SavedAlone DEF Undoing!Show, Undoing!Whole
<1>. QED  BY <1>5 DEF Tx, Undoing!Next

LEMMA TxWithdraw ==
  ASSUME ~Pending, ~Pending', UNCHANGED files, ~Showing', Claimed' \subseteq Claimed,
         \A f \in Claimed \ Claimed' : game[f] = Before(f)
  PROVE  Tx
<1>1. /\ Mode # "updating" /\ Mode' = "none" /\ Scope' = Scope
      /\ Version' = Originals /\ Goal' = Version'
  BY Idle, IdleNext
<1>2. game' = game
  BY DEF game
<1>3. \A f \in Claimed \ Claimed' : game[f] = Originals[f]
  BY DEF Originals, Claimed
<1>4. Undoing!Withdraw
  BY <1>1, <1>2, <1>3, SavedAlone DEF Undoing!Withdraw, Undoing!Release
<1>. QED  BY <1>4 DEF Tx, Undoing!Next

\* A journal of an update that is not pending comes or goes.
LEMMA TxMarker ==
  ASSUME ~Pending, ~Pending', UNCHANGED <<files, manifest>>
  PROVE  Tx
<1>1. /\ Claimed' = Claimed /\ (Showing' <=> Showing)
      /\ Deploys(manifest)' = Deploys(manifest)
  BY Idle, IdleNext DEF Deployed, Touched, Kept, Showing, Deploys
<1>2. UNCHANGED <<Mode, Version, Goal, Scope>>
  BY <1>1, Idle, IdleNext
<1>3. game' = game
  BY DEF game
<1>. QED  BY <1>1, <1>2, <1>3, SavedAlone DEF Tx, Undoing!vars, Undoing!journals, Undoing!shown

\* The manifest goes from one end of a pending update to the other.
LEMMA TxSwap ==
  ASSUME IInv, Pending, UNCHANGED <<files, marker>>,
         manifest' \in {marker.before, marker.after}
  PROVE  Tx
<1>1. /\ Pending' /\ Planned(marker) /\ manifest' # None
      /\ marker.before \in Manifest /\ marker.after \in Manifest
  BY Covered, NoneAssumption DEF Pending
<1>2. manifest'.state = "installed"
  BY <1>1 DEF Planned
<1>3. Touched(marker.after) = Touched(marker.before) \cup DOMAIN marker.snapshots
  BY <1>1 DEF Planned
<1>4. Touched(manifest)' \in {Touched(marker.before), Touched(marker.after)}
  BY DEF Touched, Kept
<1>5. Claimed' = {f \in Files : f \in Touched(manifest)' \/ f \in DOMAIN marker.snapshots}
  BY <1>1, <1>2 DEF Claimed, Deployed, Replacing, Pending
<1>6. Claimed = Touched(marker.before) \cup DOMAIN marker.snapshots /\ Claimed \subseteq Files
  BY PendingClaims DEF Claimed
<1>7. Claimed' = Claimed
  BY <1>3, <1>4, <1>5, <1>6
<1>8. UNCHANGED <<Mode, Version, Goal, Scope>>
  BY <1>1 DEF Mode, Version, Goal, Scope, Deploys
<1>9. game' = game
  BY DEF game
<1>. QED  BY <1>7, <1>8, <1>9, SavedAlone DEF Tx, Undoing!vars, Undoing!journals, Undoing!shown

\* An update begins where its journal says "ready".
LEMMA TxBegin ==
  ASSUME IInv, TInv, MarkReady
  PROVE  Tx
<1>1. /\ plan \in Journal /\ plan # None /\ Planned(plan) /\ Stepwise(plan)
      /\ Stands(plan.before) /\ manifest = plan.before /\ manifest # None
      /\ plan.before \in Manifest /\ plan.after \in Manifest
      /\ DOMAIN plan.snapshots \subseteq Files /\ marker = plan /\ plan.phase # "ready"
  BY PlanType DEF MarkReady, UpdateTry, TInv, UpdateTx, IInv, UpdateInv
<1>2. /\ marker'.phase = "ready" /\ marker' # None /\ marker'.before = plan.before
      /\ marker'.after = plan.after /\ marker'.snapshots = plan.snapshots
      /\ UNCHANGED <<files, manifest>>
  BY <1>1, PhaseSet, NoneAssumption DEF MarkReady, Mark, Phases
<1>3. ~Pending /\ Pending' /\ Showing
  BY <1>1, <1>2 DEF Pending, Showing, Planned
<1>4. /\ Mode = "installed" /\ Version = Deploys(plan.before) /\ Mode' = "updating"
      /\ Scope' = DOMAIN plan.snapshots
      /\ Version' = Deploys(plan.before) /\ Goal' = Deploys(plan.after)
  BY <1>1, <1>2, <1>3, Idle, IdleNext
<1>5. Claimed' = Claimed \cup Scope'
  BY <1>1, <1>2, <1>3, <1>4 DEF Claimed, Deployed, Replacing, Touched, Kept, Pending
<1>6. ASSUME NEW f \in DOMAIN plan.snapshots PROVE f \in Files /\ Secured(f)
  <2>1. CASE f \in Kept(plan.before)
    BY <1>1, <1>6, <2>1 DEF MarkReady, IInv, UpdateInv, UpdateTry
  <2>2. CASE f \notin Kept(plan.before)
    BY <1>1, <1>6, <2>2 DEF Planned, Deployed, IInv, DiskInv
  <2>. QED  BY <1>1, <1>6, <2>1, <2>2
<1>7. Scope' \subseteq {f \in Files : Secured(f)}
  BY <1>4, <1>6
<1>8. \A f \in Files \ {Ini} : game[f] = Version[f]
  BY <1>1, <1>4 DEF Stands, StandsAt, Deploys
<1>9. /\ Goal' \in [Files -> Contents]
      /\ \A f \in Files \ (Scope' \cup {Ini}) : Goal'[f] = Version[f]
  BY <1>1, <1>4, ItemType DEF Deploys, Stepwise
<1>10. game' = game
  BY <1>2 DEF game
<1>11. Undoing!Begin
  BY <1>2, <1>4, <1>5, <1>7, <1>8, <1>9, <1>10, SavedAlone DEF Undoing!Begin, Undoing!Whole
<1>. QED  BY <1>11 DEF Tx, Undoing!Next

\* ... is done where it says "committed"
LEMMA TxCommit ==
  ASSUME IInv, TInv, MarkCommitted
  PROVE  Tx
<1>1. /\ plan \in Journal /\ Planned(plan) /\ Stands(plan.after)
      /\ marker = plan /\ plan # None /\ plan.phase = "ready"
      /\ manifest = plan.after /\ manifest # None
  BY PlanType DEF MarkCommitted, UpdateTry, TInv, UpdateTx, IInv, UpdateInv
<1>2. marker'.phase = "committed" /\ UNCHANGED <<files, manifest>>
  BY <1>1, PhaseSet DEF MarkCommitted, Mark, Phases
<1>3. Pending /\ ~Pending' /\ Showing'
  BY <1>1, <1>2 DEF Pending, Showing, Planned
<1>4. /\ Mode = "updating" /\ Mode' = "installed" /\ Scope' = {}
      /\ Goal = Deploys(plan.after) /\ Version' = Deploys(plan.after) /\ Goal' = Version'
  BY <1>1, <1>2, <1>3, Idle, IdleNext
<1>5. Claimed = Touched(plan.after)
  BY <1>1, <1>3, PendingClaims DEF Planned
<1>6. Claimed' = Claimed
  BY <1>1, <1>2, <1>3, <1>5, IdleNext DEF Deployed, Touched, Kept, Planned
<1>7. \A f \in Files \ {Ini} : game[f] = Goal[f]
  BY <1>1, <1>4 DEF Stands, StandsAt, Deploys
<1>8. game' = game
  BY <1>2 DEF game
<1>9. Undoing!Commit
  BY <1>2, <1>4, <1>6, <1>7, <1>8, SavedAlone DEF Undoing!Commit, Undoing!Whole
<1>. QED  BY <1>9 DEF Tx, Undoing!Next

\* ... and is given up where it says "restored"
LEMMA TxAbort ==
  ASSUME IInv, TInv, Restored
  PROVE  Tx
<1>1. /\ plan \in Journal /\ Planned(plan) /\ Stands(plan.before)
      /\ marker = plan /\ plan # None /\ plan.phase = "ready"
      /\ manifest = plan.before /\ manifest # None
  BY PlanType DEF Restored, RevertPcs, TInv, UpdateTx, IInv, UpdateInv
<1>2. marker'.phase = "restored" /\ UNCHANGED <<files, manifest>>
  BY <1>1, PhaseSet DEF Restored, Mark, Phases
<1>3. Pending /\ ~Pending' /\ Showing'
  BY <1>1, <1>2 DEF Pending, Showing, Planned
<1>4. /\ Mode = "updating" /\ Mode' = "installed" /\ Scope' = {}
      /\ Version = Deploys(plan.before) /\ Version' = Deploys(plan.before) /\ Goal' = Version'
  BY <1>1, <1>2, <1>3, Idle, IdleNext
<1>5. Claimed = Touched(plan.before) \cup DOMAIN plan.snapshots
  BY <1>1, <1>3, PendingClaims
<1>6. Claimed' = Touched(plan.before)
  BY <1>1, <1>2, <1>3, IdleNext DEF Deployed, Touched, Kept, Planned
<1>7. \A f \in Claimed \ Claimed' : game[f] = Originals[f]
  BY <1>1, <1>5, <1>6 DEF Restored, IInv, UpdateInv, Originals, Claimed
<1>8. \A f \in Files \ {Ini} : game[f] = Version[f]
  BY <1>1, <1>4 DEF Stands, StandsAt, Deploys
<1>9. game' = game
  BY <1>2 DEF game
<1>10. Undoing!Abort
  BY <1>2, <1>4, <1>5, <1>6, <1>7, <1>8, <1>9, SavedAlone
     DEF Undoing!Abort, Undoing!Whole, Undoing!Release
<1>. QED  BY <1>10 DEF Tx, Undoing!Next

\* a step of the process alone
LEMMA TxProcess ==
  ASSUME UNCHANGED <<files, manifest, marker>>
  PROVE  Tx
BY TxNothing DEF game

\* no update is pending where a command carries a manifest, or where it cleans up
LEMMA NotPending == marker = None => ~Pending /\ Claimed = {f \in Files : Deployed(f)}
BY Idle DEF Pending

LEMMA TxInstall ==
  ASSUME IInv, JInv, TInv, Install
  PROVE  Tx
<1>1. ASSUME MkStore \/ MkSubdir \/ Final \/ Rollback PROVE Tx
  BY <1>1, TxProcess DEF MkStore, MkSubdir, Final, Rollback, disk
<1>2. ASSUME NEW f \in Files, Intent(f) PROVE Tx
  BY <1>2, TxProcess DEF Intent, disk
<1>3. ASSUME NEW f \in Files, Backup(f) PROVE Tx
  <2>1. game[f] = Before(f)
    BY <1>3, DataType DEF Backup, At, AsFound, Faithful, InstallPcs, InstallTry
  <2>. QED  BY <1>3, <2>1, TxSave DEF Backup
<1>4. ASSUME Prepare PROVE Tx
  <2>1. /\ marker = None /\ manifest = None /\ Touched(data) = {} /\ data.state = "preparing"
        /\ UNCHANGED <<files, marker>> /\ manifest' = data
    BY <1>4, DataType
       DEF Prepare, IInv, InstallInv, InstallPcs, InstallTry, JInv, CarriedInv
  <2>2. ~Pending /\ ~Pending' /\ ~Showing /\ ~Showing'
    BY <2>1 DEF Pending, Showing
  <2>3. Claimed = {} /\ Claimed' = {}
    BY <2>1, <2>2, Idle, IdleNext DEF Deployed, Touched, Kept
  <2>. QED  BY <2>1, <2>2, <2>3, TxManifest
<1>5. ASSUME Installing PROVE Tx
  <2>1. /\ data \in Manifest /\ marker = None /\ Touched(data) = {}
        /\ manifest # None => Touched(manifest) = {} /\ Valid(manifest)
    BY <1>5, DataType DEF Installing, IInv, InstallInv, InstallPcs, InstallTry, JInv, CarriedInv,
       JournalInv, Untouched, Touched
  <2>2. /\ manifest'.state = "installing" /\ Touched(manifest') = {}
        /\ UNCHANGED <<files, marker>>
    BY <1>5, <2>1, StateSet DEF Installing, States
  <2>3. ~Pending /\ ~Pending' /\ ~Showing /\ ~Showing'
    BY <2>1, <2>2, SettingsTouched DEF Pending, Showing
  <2>4. Claimed = {} /\ Claimed' = {}
    BY <2>1, <2>2, <2>3, Idle, IdleNext DEF Deployed, Touched, Kept
  <2>. QED  BY <2>2, <2>3, <2>4, TxManifest
<1>6. ASSUME Record PROVE Tx
  <2>1. /\ data \in Manifest /\ Faithful(data) /\ data # None /\ marker = None
        /\ manifest # None /\ manifest.state = "installing" /\ data.state = "installing"
        /\ Touched(manifest) \subseteq Touched(data)
        /\ \A f \in Backed(data) : Secured(f)
    BY <1>6, DataType DEF Record, IInv, InstallInv, InstallPcs, InstallTry, TInv, InstallTx
  <2>2. manifest' = data /\ UNCHANGED <<files, marker>>
    BY <1>6 DEF Record
  <2>3. ~Pending /\ ~Pending' /\ ~Showing /\ ~Showing'
    BY <2>1, <2>2 DEF Pending, Showing
  <2>4. Claimed = Touched(manifest) /\ Claimed' = Touched(data)
    BY <2>1, <2>2, <2>3, Idle, IdleNext DEF Deployed, Touched, Kept
  <2>5. \A f \in Claimed' : Secured(f)
    BY <2>1, <2>4, BackedUp
  <2>. QED  BY <2>1, <2>2, <2>3, <2>4, <2>5, TxClaim
<1>7. ASSUME NEW f \in Files, Copy(f) PROVE Tx
  <2>1. /\ data \in Manifest /\ marker = None /\ manifest # None /\ manifest = data
        /\ manifest.state = "installing" /\ f \in Touched(data)
    BY <1>7, DataType DEF Copy, At, InstallPcs, InstallTry, TInv, InstallTx
  <2>2. f \in Claimed /\ Mode = "none"
    BY <2>1, Idle DEF Deployed, Pending, Showing
  <2>. QED  BY <1>7, <2>1, <2>2, ItemType, TxWrite DEF Copy
<1>8. ASSUME Installed PROVE Tx
  <2>1. /\ data \in Manifest /\ marker = None /\ manifest # None
        /\ manifest.state = "installing" /\ manifest.files = data.files /\ Stands(data)
    BY <1>8, DataType DEF Installed, InstallPcs, InstallTry, TInv, InstallTx
  <2>2. /\ manifest' \in Manifest /\ manifest'.state = "installed"
        /\ manifest'.files = data.files /\ UNCHANGED <<files, marker>>
    BY <1>8, <2>1, StateSet DEF Installed, States
  <2>3. ~Pending /\ ~Pending' /\ ~Showing /\ Showing'
    BY <2>1, <2>2, NoneAssumption DEF Pending, Showing
  <2>4. Claimed' = Claimed
    BY <2>1, <2>2, <2>3, Idle, IdleNext, NoneAssumption DEF Deployed, Touched, Kept
  <2>5. Stands(manifest')
    BY <2>1, <2>2 DEF Stands, StandsAt
  <2>. QED  BY <2>2, <2>3, <2>4, <2>5, TxShow
<1>. QED  BY <1>1, <1>2, <1>3, <1>4, <1>5, <1>6, <1>7, <1>8 DEF Install

LEMMA TxCleanup ==
  ASSUME IInv, Cleanup
  PROVE  Tx
<1>1. ASSUME Preflight \/ RmSubdir \/ RmStore PROVE Tx
  BY <1>1, TxProcess DEF Preflight, RmSubdir, RmStore, disk
<1>2. ASSUME pc = "clean"
      PROVE  /\ Claimed = {} /\ ~Showing /\ marker = None /\ ~Pending
             /\ manifest # None => manifest.state = "removed"
  <2>1. marker = None /\ (manifest # None => manifest.state = "removed")
    BY <1>2 DEF IInv, RemoveInv
  <2>. QED  BY <2>1, Idle DEF Deployed, Showing, Pending
<1>3. ASSUME Unlink PROVE Tx
  <2>1. ASSUME NEW f \in Files, Put("backups", f, Absent) PROVE Tx
    BY <1>2, <1>3, <2>1, TxForget DEF Unlink
  <2>2. ASSUME NEW f \in Files, Put("undo", f, Absent) PROVE Tx
    BY <1>3, <2>2, TxElsewhere DEF Unlink, Contents
  <2>. QED  BY <1>3, <2>1, <2>2, TxProcess DEF Unlink, Clutter
<1>4. ASSUME Unjournal PROVE Tx
  <2>1. /\ Claimed = {} /\ ~Showing /\ ~Pending /\ marker = None
        /\ manifest' = None /\ UNCHANGED <<files, marker>>
    BY <1>2, <1>4 DEF Unjournal
  <2>2. ~Pending' /\ ~Showing'
    BY <2>1 DEF Pending, Showing
  <2>3. Claimed' = {}
    BY <2>1, <2>2, IdleNext DEF Deployed
  <2>. QED  BY <2>1, <2>2, <2>3, TxManifest
<1>. QED  BY <1>1, <1>3, <1>4 DEF Cleanup

LEMMA TxRecover ==
  ASSUME IInv, JInv, TInv, Recover
  PROVE  Tx
<1>1. ASSUME NoUpdate \/ BeginRevert \/ BeginSweep \/ RmFolder PROVE Tx
  BY <1>1, TxProcess DEF NoUpdate, BeginRevert, BeginSweep, RmFolder, disk
<1>2. ASSUME NEW f \in Files, Revert(f) PROVE Tx
  <2>1. /\ marker = plan /\ plan # None /\ plan.phase = "ready" /\ f \in DOMAIN plan.snapshots
        /\ plan.snapshots[f] \in Contents
    BY <1>2, PlanType DEF Revert, At, IInv, UpdateInv, RevertPcs
  <2>2. Pending /\ f \in Claimed /\ f \in Scope /\ Version = Deploys(plan.before)
    BY <2>1, Idle DEF Pending, Claimed, Replacing
  <2>3. f = Ini \/ plan.snapshots[f] = Version[f]
    BY <2>1, <2>2 DEF TInv, PendingTx, Stepwise, Deploys
  <2>. QED  BY <1>2, <2>1, <2>2, <2>3, TxWrite DEF Revert
<1>3. ASSUME Remanifest PROVE Tx
  <2>1. marker = plan /\ plan # None /\ plan.phase = "ready"
    BY <1>3 DEF Remanifest, IInv, UpdateInv
  <2>. QED  BY <1>3, <2>1, TxSwap DEF Remanifest, Pending
<1>4. ASSUME Sweep PROVE Tx
  BY <1>4, TxElsewhere, TxProcess DEF Sweep, Contents
<1>5. ASSUME Unmark PROVE Tx
  <2>1. ~Pending /\ ~Pending'
    BY <1>5 DEF Unmark, IInv, UpdateInv, Pending
  <2>. QED  BY <1>5, <2>1, TxMarker DEF Unmark
<1>. QED  BY <1>1, <1>2, <1>3, <1>4, <1>5, TxAbort DEF Recover

LEMMA TxUpdate ==
  ASSUME IInv, TInv, Update
  PROVE  Tx
<1>1. ASSUME Idempotent \/ PlanUpdate \/ MkFolder \/ Prior \/ After PROVE Tx
  BY <1>1, TxProcess DEF Idempotent, PlanUpdate, MkFolder, Prior, After, disk
<1>2. ASSUME MarkPreparing PROVE Tx
  <2>1. marker = None /\ plan.phase # "ready"
    BY <1>2 DEF MarkPreparing, IInv, UpdateInv, UpdateTry
  <2>2. ~Pending /\ ~Pending'
    BY <1>2, <2>1 DEF MarkPreparing, Pending
  <2>. QED  BY <1>2, <2>2, TxMarker DEF MarkPreparing
<1>3. ASSUME NEW f \in Files, Snapshot(f) PROVE Tx
  <2>1. game[f] \in Contents
    BY DEF IInv, TypeOK, Places, game
  <2>. QED  BY <1>3, <2>1, TxElsewhere DEF Snapshot
<1>4. ASSUME NEW f \in Files, Keep(f) PROVE Tx
  <2>1. /\ Planned(plan) /\ manifest = plan.before /\ marker = plan
        /\ plan.phase # "ready" /\ f \in Kept(plan.before)
    BY <1>4, PlanType DEF Keep, At, UpdateTry, IInv, UpdateInv
  <2>2. ~Deployed(f) /\ ~Replacing(f)
    BY <2>1 DEF Deployed, Replacing, Touched
  <2>3. game[f] = Before(f)
    BY <2>2 DEF IInv, DiskInv
  <2>4. Backing(f) = Before(f)
    BY <1>4, <2>1 DEF Keep, Keepable, Planned, Faithful
  <2>. QED  BY <1>4, <2>3, <2>4, TxSave DEF Keep
<1>5. ASSUME NEW f \in Files, Replace(f) PROVE Tx
  <2>1. /\ marker = plan /\ plan # None /\ plan.phase = "ready" /\ f \in DOMAIN plan.snapshots
        /\ plan.after \in Manifest
    BY <1>5, PlanType DEF Replace, At, UpdateTry, IInv, UpdateInv
  <2>2. /\ f \in Claimed /\ f \in Scope /\ plan.after.files[f].sha = Goal[f]
        /\ plan.after.files[f].sha \in Contents
    BY <2>1, Idle, ItemType DEF Pending, Claimed, Replacing, Deploys
  <2>. QED  BY <1>5, <2>2, TxWrite DEF Replace
<1>6. ASSUME NewManifest PROVE Tx
  <2>1. marker = plan /\ plan # None /\ plan.phase = "ready"
    BY <1>6, PlanType DEF NewManifest, UpdateTry, IInv, UpdateInv
  <2>. QED  BY <1>6, <2>1, TxSwap DEF NewManifest, Pending
<1>. QED  BY <1>1, <1>2, <1>3, <1>4, <1>5, <1>6, TxBegin, TxCommit DEF Update

LEMMA TxUninstall ==
  ASSUME IInv, JInv, TInv, Uninstall
  PROVE  Tx
<1>1. ASSUME LoadRemoved \/ LoadPresent \/ MkUndo PROVE Tx
  BY <1>1, TxProcess DEF LoadRemoved, LoadPresent, MkUndo, disk
<1>2. ASSUME NEW f \in Files, Save(f) PROVE Tx
  <2>1. game[f] \in Contents
    BY DEF IInv, TypeOK, Places, game
  <2>. QED  BY <1>2, <2>1, TxElsewhere, TxProcess DEF Save
<1>3. ASSUME NEW f \in Files, Restore(f) PROVE Tx
  <2>1. data \in Manifest /\ Faithful(data) /\ marker = None
    BY <1>3, DataType DEF Restore, At, CarryPcs
  <2>2. data.files[f].original = Before(f) /\ Before(f) \in Contents
    BY <2>1 DEF Faithful, Before, Contents
  <2>3. CASE f \in Claimed
    <3>1. Mode # "updating"
      BY <2>1, Idle DEF Pending
    <3>. QED  BY <1>3, <2>2, <2>3, <3>1, TxWrite DEF Restore
  <2>4. CASE f \notin Claimed
    <3>1. game[f] = Before(f)
      BY <2>4 DEF Claimed, IInv, DiskInv
    <3>2. files' = files
      BY <1>3, <2>2, <3>1 DEF Restore, Put, IInv, TypeOK, Places, game
    <3>. QED  BY <1>3, <3>2, TxProcess DEF Restore
  <2>. QED  BY <2>3, <2>4
<1>4. ASSUME Removed PROVE Tx
  <2>1. /\ data \in Manifest /\ marker = None
        /\ \A f \in Files : game[f] = Before(f)
    BY <1>4, DataType DEF Removed, CarryPcs, IInv, RemoveInv
  <2>2. manifest'.state = "removed" /\ UNCHANGED <<files, marker>>
    BY <1>4, <2>1, StateSet DEF Removed, States
  <2>3. ~Pending /\ ~Pending' /\ ~Showing'
    BY <2>1, <2>2 DEF Pending, Showing
  <2>4. Claimed' = {} /\ \A f \in Claimed : game[f] = Before(f)
    BY <2>1, <2>2, <2>3, IdleNext DEF Deployed, Claimed
  <2>. QED  BY <2>2, <2>3, <2>4, TxWithdraw
<1>5. ASSUME Uninstalling PROVE Tx
  <2>1. /\ data \in Manifest /\ marker = None /\ manifest # None
        /\ manifest.files = data.files /\ manifest.state # "removed"
    BY <1>5, DataType DEF Uninstalling, CarryPcs, IInv, RemoveInv, Same
  <2>2. /\ manifest' \in Manifest /\ manifest'.state = "uninstalling"
        /\ manifest'.files = data.files /\ UNCHANGED <<files, marker>>
    BY <1>5, <2>1, StateSet DEF Uninstalling, States
  <2>3. ~Pending /\ ~Pending' /\ ~Showing'
    BY <2>1, <2>2 DEF Pending, Showing
  <2>4. Claimed' = Claimed
    BY <2>1, <2>2, <2>3, Idle, IdleNext, NoneAssumption DEF Deployed, Touched, Kept
  <2>. QED  BY <2>2, <2>3, <2>4, TxWithdraw
<1>6. ASSUME NEW f \in Files, Unrestore(f) PROVE Tx
  <2>1. /\ data \in Manifest /\ Faithful(data) /\ marker = None /\ f \in DOMAIN data.undo
        /\ manifest # None /\ manifest.files = data.files /\ manifest.state = "uninstalling"
    BY <1>6, DataType DEF Unrestore, At, CarryPcs, IInv, RemoveInv, Same
  <2>2. f \in Touched(manifest) /\ data.undo[f] \in Contents
    BY <2>1, UndoType, SameFiles DEF Faithful
  <2>3. f \in Claimed /\ Mode = "none"
    BY <2>1, <2>2, Idle DEF Deployed, Pending, Showing
  <2>. QED  BY <1>6, <2>2, <2>3, TxWrite DEF Unrestore
<1>7. ASSUME Undone PROVE Tx
  <2>1. /\ data \in Manifest /\ Faithful(data) /\ marker = None /\ todo = {}
        /\ manifest # None /\ manifest.files = data.files /\ manifest.state = "uninstalling"
        /\ prev \in States /\ prev # "removed" /\ Shape(data) /\ Fits(data, prev)
    BY <1>7, DataType DEF Undone, CarryPcs, IInv, RemoveInv, TypeOK, Same, JInv, CarriedInv,
       TInv, RemoveTx
  <2>2. /\ manifest' \in Manifest /\ manifest'.state = prev
        /\ manifest'.files = data.files /\ UNCHANGED <<files, marker>>
    BY <1>7, <2>1, StateSet DEF Undone
  <2>3. ~Pending /\ ~Pending' /\ ~Showing /\ (Showing' <=> prev = "installed")
    BY <2>1, <2>2, NoneAssumption DEF Pending, Showing
  <2>4. Claimed' = Claimed
    BY <2>1, <2>2, <2>3, Idle, IdleNext, NoneAssumption DEF Deployed, Touched, Kept
  <2>5. CASE prev = "installed"
    <3>1. ASSUME NEW f \in Files PROVE StandsAt(data, f)
      <4>1. CASE f \in Touched(data)
        BY <1>7, <2>1, <2>5, <4>1 DEF Undone, TInv, RemoveTx
      <4>2. CASE f \notin Touched(data)
        <5>1. f \in Kept(data)
          BY <2>1, <2>5, <3>1, <4>2 DEF Fits, Replaced
        <5>2. Touched(manifest) = Touched(data)
          BY <2>1, SameFiles
        <5>. QED  BY <2>1, <5>1, <5>2, KeptStands DEF StandsAt
      <4>. QED  BY <4>1, <4>2
    <3>2. Stands(manifest')
      BY <2>2, <3>1 DEF Stands, StandsAt
    <3>. QED  BY <2>2, <2>3, <2>4, <2>5, <3>2, TxShow
  <2>6. CASE prev # "installed"
    BY <2>2, <2>3, <2>4, <2>6, TxManifest
  <2>. QED  BY <2>5, <2>6
<1>. QED  BY <1>1, <1>2, <1>3, <1>4, <1>5, <1>6, <1>7 DEF Uninstall

\* The overlay rewrites settings that were replaced.
LEMMA TxEdit ==
  ASSUME IInv, Edit
  PROVE  Tx
<1>1. Ini \in Files /\ Edited \in Contents /\ game[Ini] # Before(Ini)
  BY FilesAssumption, ContentAssumption DEF Edit, Before, Contents
<1>2. Ini \in Claimed
  BY <1>1 DEF Claimed, IInv, DiskInv
<1>. QED  BY <1>1, <1>2, TxWrite DEF Edit

LEMMA TxStep == IInv /\ JInv /\ TInv /\ [Next]_vars => Tx
<1>. SUFFICES ASSUME IInv, JInv, TInv, [Next]_vars PROVE Tx
  OBVIOUS
<1>1. ASSUME BeginInstall \/ BeginReinstall \/ BeginUninstall \/ Refuse \/ Error \/ Crash
      PROVE  Tx
  BY <1>1, TxProcess
     DEF BeginInstall, BeginReinstall, BeginUninstall, Refuse, Error, Crash, disk
<1>2. ASSUME UNCHANGED vars PROVE Tx
  BY <1>2, TxProcess DEF vars, disk
<1>. QED  BY <1>1, <1>2, TxInstall, TxCleanup, TxRecover, TxUpdate, TxUninstall, TxEdit
          DEF Next, Proceed

LEMMA TxInit == Init => Undoing!Init
<1>. SUFFICES ASSUME Init PROVE Undoing!Init
  OBVIOUS
<1>1. game = Originals
  BY DEF Init, game, Places, Originals
<1>2. ~Pending /\ ~Showing /\ \A f \in Files : ~Deployed(f)
  BY DEF Init, Pending, Showing, Deployed
<1>3. Claimed = {} /\ Mode = "none" /\ Version = Originals /\ Goal = Originals /\ Scope = {}
  BY <1>2, Idle
<1>4. {f \in Files : Secured(f)} = Files \ Present
  BY ContentAssumption DEF Init, Secured, Places, Empty
<1>. QED  BY <1>1, <1>3, <1>4 DEF Undoing!Init

\* Install, update, recovery and uninstall, with every failure and kill between their
\* steps, are an undo log with atomic updates: TransactionProperty.  What the
\* journals claim is backed up before and given up when restored, and what they show as
\* installed changes from whole to whole.
THEOREM DeployIsTransaction == Spec => TransactionProperty
<1>1. IInv /\ JInv /\ TInv /\ [Next]_vars => [Undoing!Next]_(Undoing!vars)
  BY TxStep DEF Tx
<1>. QED  BY <1>1, TxInit, TInvAlways, PTL DEF Spec, TransactionProperty, Undoing!Spec

\* The undo log does what it is for, whatever is written, withdrawn or aborted.
THEOREM TransactionIsReversible == Undoing!Spec => []Undoing!Reversible
<1>. DEFINE saved == {f \in Files : Secured(f)}
            Logged == Claimed \subseteq saved /\ \A f \in Files : game[f] # Originals[f] => f \in Claimed
<1>1. Undoing!Init => Logged
  BY DEF Undoing!Init
<1>2. Logged /\ [Undoing!Next]_(Undoing!vars) => Logged'
  <2>. SUFFICES ASSUME Logged, [Undoing!Next]_(Undoing!vars) PROVE Logged'
    OBVIOUS
  <2>1. Originals' = Originals
    BY DEF Originals, Before
  <2>2. ASSUME NEW f \in Files, Undoing!Save(f) PROVE Logged'
    BY <2>1, <2>2 DEF Undoing!Save, Undoing!journals, Undoing!shown
  <2>3. ASSUME NEW f \in Files, Undoing!Forget(f) PROVE Logged'
    BY <2>1, <2>3 DEF Undoing!Forget, Undoing!journals, Undoing!shown
  <2>4. ASSUME NEW f \in Files, Undoing!Write(f) PROVE Logged'
    BY <2>1, <2>4 DEF Undoing!Write, Undoing!journals, Undoing!shown
  <2>5. ASSUME Undoing!Claim PROVE Logged'
    BY <2>1, <2>5 DEF Undoing!Claim
  <2>6. ASSUME Undoing!Show \/ Undoing!Commit PROVE Logged'
    BY <2>1, <2>6 DEF Undoing!Show, Undoing!Commit
  <2>7. ASSUME Undoing!Withdraw \/ Undoing!Abort PROVE Logged'
    BY <2>1, <2>7 DEF Undoing!Withdraw, Undoing!Abort, Undoing!Release
  <2>8. ASSUME Undoing!Begin PROVE Logged'
    BY <2>1, <2>8 DEF Undoing!Begin
  <2>9. ASSUME UNCHANGED Undoing!vars PROVE Logged'
    BY <2>1, <2>9 DEF Undoing!vars, Undoing!journals, Undoing!shown
  <2>. QED  BY <2>2, <2>3, <2>4, <2>5, <2>6, <2>7, <2>8, <2>9 DEF Undoing!Next
<1>3. Logged => Undoing!Reversible
  BY DEF Undoing!Reversible
<1>. QED  BY <1>1, <1>2, <1>3, PTL DEF Undoing!Spec
=============================================================================
