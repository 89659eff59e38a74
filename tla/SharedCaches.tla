---------------------------- MODULE SharedCaches ----------------------------
(***************************************************************************)
(* What installers of different games share in the user's data directory:   *)
(* the converted weights (convert_weights of dlssnr/conversion.py) and the   *)
(* native bridge that every launcher preloads (_cache of dlssnr/deploy.py).  *)
(*                                                                         *)
(* A conversion runs a Windows program under Wine in a staging folder of its *)
(* own.  Wine is several processes: the converter itself, which the          *)
(* installer waits for, and wineserver with its helpers, which outlive it    *)
(* and may go on writing.  An installer may be killed between any two steps; *)
(* the kernel then frees its locks, and Wine does not notice.                *)
(***************************************************************************)
EXTENDS Naturals

CONSTANTS
  Installers,   \* installer processes
  Folders,      \* the staging folders for which the disk has room
  None,
  MaxKills      \* bound on killed installers

ASSUME NoneAssumption == None \notin Installers \cup Folders
ASSUME KillAssumption == MaxKills \in Nat

VARIABLES
  pc,       \* the next step of each installer
  lock,     \* who holds .convert.lock, and who the lock of the bridge's directory
  cached,   \* the two cached files
  folder,   \* the staging folder of an installer's conversion
  exists,   \* the staging folders on disk
  wine,     \* the Wine processes running in each
  made,     \* the weights generated in each
  digest,   \* what was validated: the copy must have the same digest
  failed,   \* the conversion holds an error it will raise
  safe,     \* safe_to_remove
  kills     \* installers that may still be killed

vars == <<pc, lock, cached, folder, exists, wine, made, digest, failed, safe, kills>>

Steps  == {"idle", "lock", "fill", "launch", "run", "stop", "await", "inspect",
           "copy", "rename", "record", "sweep", "bridge", "bridge_copy", "bridge_rename"}
Caches == {"weights", "bridge"}
Bytes  == {"absent", "torn", "whole"}

Init ==
  /\ pc = [p \in Installers |-> "idle"]
  /\ lock = [c \in Caches |-> None]
  /\ cached = [c \in Caches |-> "absent"]
  /\ folder = [p \in Installers |-> None]
  /\ exists = {}
  /\ wine = [f \in Folders |-> {}] /\ made = [f \in Folders |-> "absent"]
  /\ digest = [p \in Installers |-> "absent"]
  /\ failed = [p \in Installers |-> FALSE] /\ safe = [p \in Installers |-> TRUE]
  /\ kills = MaxKills

At(p, s) == pc[p] = s
Go(p, s) == pc' = [pc EXCEPT ![p] = s]
Conversion == <<folder, exists, wine, made, digest, failed, safe>>

-----------------------------------------------------------------------------
(* _atomic_copy of deploy.py: what others see of the target while the bytes *)
(* go to a temporary file beside it, and after the rename.                  *)

\* writes to the target itself
FaultyExposed(c) == "torn"

Exposed(c) == c

CopyTo(c) == cached' = [cached EXCEPT ![c] = Exposed(@)]
RenameTo(c, bytes) == cached' = [cached EXCEPT ![c] = bytes]

\* enters although somebody holds the lock
FaultyTake(p, c) == lock' = [lock EXCEPT ![c] = p]

\* with a lock that somebody holds the call raises; it never waits
Take(p, c) == lock[c] = None /\ lock' = [lock EXCEPT ![c] = p]
Free(c) == lock' = [lock EXCEPT ![c] = None]
Busy(p, c) == lock[c] # None /\ Go(p, "idle")

-----------------------------------------------------------------------------
(* convert_weights. *)

\* A cached file is validated and returned, without the lock.
Start(p) ==
  /\ At(p, "idle")
  /\ Go(p, CASE cached["weights"] = "absent" -> "lock"
             [] cached["weights"] = "whole" -> "bridge"
             [] OTHER -> "idle")
  /\ UNCHANGED <<lock, cached, Conversion, kills>>

\* mkdtemp, or the check of the free space, may raise.
Lock(p) ==
  /\ At(p, "lock")
  /\ \/ Go(p, "idle") /\ UNCHANGED <<lock, Conversion>>
     \/ \E f \in Folders \ exists :
          /\ Take(p, "weights") /\ Go(p, "fill")
          /\ folder' = [folder EXCEPT ![p] = f]
          /\ exists' = exists \cup {f}
          /\ made' = [made EXCEPT ![f] = "absent"]
          /\ UNCHANGED <<wine, digest, failed, safe>>
  /\ UNCHANGED <<cached, kills>>

Fail(p) == failed' = [failed EXCEPT ![p] = TRUE]

\* copies the DLL and downloads the converter
Fill(p) ==
  /\ At(p, "fill")
  /\ \/ Go(p, "launch") /\ UNCHANGED failed
     \/ Go(p, "sweep") /\ Fail(p)
  /\ UNCHANGED <<lock, cached, folder, exists, wine, made, digest, safe, kills>>

\* removes the folder whatever is known of Wine
FaultyUnsafe(p) == UNCHANGED safe

Unsafe(p) == safe' = [safe EXCEPT ![p] = FALSE]

Launch(p) ==
  /\ At(p, "launch")
  /\ Unsafe(p)
  /\ \/ /\ wine' = [wine EXCEPT ![folder[p]] = {"setup", "server"}]
        /\ Go(p, "run") /\ UNCHANGED failed
     \/ Go(p, "stop") /\ Fail(p) /\ UNCHANGED wine
  /\ UNCHANGED <<lock, cached, folder, exists, made, digest, kills>>

\* subprocess.run without timeout=180
FaultyPatience(p) == FALSE

\* 180 seconds, or an interrupt, end the wait; subprocess.run then kills the
\* converter, and nothing else of Wine.
Patience(p) == At(p, "run")

Return(p) ==
  /\ At(p, "run") /\ Go(p, "stop")
  /\ "setup" \notin wine[folder[p]]
  /\ (UNCHANGED failed \/ Fail(p))
  /\ UNCHANGED <<lock, cached, folder, exists, wine, made, digest, safe, kills>>

Expire(p) ==
  /\ Patience(p) /\ Go(p, "stop")
  /\ wine' = [wine EXCEPT ![folder[p]] = @ \ {"setup"}]
  /\ Fail(p)
  /\ UNCHANGED <<lock, cached, folder, exists, made, digest, safe, kills>>

\* wineserver -k asks; it may fail, and what it killed need not be gone
Stop(p) ==
  /\ At(p, "stop") /\ Go(p, "await")
  /\ \E left \in SUBSET wine[folder[p]] : wine' = [wine EXCEPT ![folder[p]] = left]
  /\ UNCHANGED <<lock, cached, folder, exists, made, digest, failed, safe, kills>>

\* the request is taken for the answer
FaultyConfirmed(p) == TRUE

\* wineserver -w returns 0 only when the prefix has no process left
Confirmed(p) == wine[folder[p]] = {}

Await(p) ==
  /\ At(p, "await")
  /\ \/ Confirmed(p) /\ safe' = [safe EXCEPT ![p] = TRUE] /\ Go(p, "inspect")
     \/ Go(p, "sweep") /\ UNCHANGED safe
  /\ UNCHANGED <<lock, cached, folder, exists, wine, made, digest, failed, kills>>

\* publishes whatever the converter left
FaultyAcceptable(f) == made[f] # "absent"

\* validate_weights
Acceptable(f) == made[f] = "whole"

\* The log is written, then the error raised, if there is one.
Inspect(p) ==
  /\ At(p, "inspect")
  /\ \/ /\ ~failed[p] /\ Acceptable(folder[p])
        /\ Go(p, "copy") /\ UNCHANGED failed
        /\ digest' = [digest EXCEPT ![p] = made[folder[p]]]
     \/ Go(p, "sweep") /\ Fail(p) /\ UNCHANGED digest
  /\ UNCHANGED <<lock, cached, folder, exists, wine, made, safe, kills>>

Copy(p) ==
  /\ At(p, "copy")
  /\ \/ /\ made[folder[p]] = digest[p]
        /\ Go(p, "rename") /\ CopyTo("weights") /\ UNCHANGED failed
     \/ Go(p, "sweep") /\ Fail(p) /\ UNCHANGED cached
  /\ UNCHANGED <<lock, folder, exists, wine, made, digest, safe, kills>>

Rename(p) ==
  /\ At(p, "rename") /\ Go(p, "record")
  /\ RenameTo("weights", digest[p])
  /\ UNCHANGED <<lock, Conversion, kills>>

Record(p) ==
  /\ At(p, "record") /\ Go(p, "sweep")
  /\ (UNCHANGED failed \/ Fail(p))
  /\ UNCHANGED <<lock, cached, folder, exists, wine, made, digest, safe, kills>>

\* the locals of a call that has ended
Forget(p) ==
  /\ folder' = [folder EXCEPT ![p] = None] /\ digest' = [digest EXCEPT ![p] = "absent"]
  /\ failed' = [failed EXCEPT ![p] = FALSE] /\ safe' = [safe EXCEPT ![p] = TRUE]

\* The finally clause, and the end of the lock.  rmtree may stop half-way.
Sweep(p) ==
  /\ At(p, "sweep")
  /\ \/ /\ safe[p] /\ exists' = exists \ {folder[p]}
        /\ Go(p, IF failed[p] THEN "idle" ELSE "bridge")
     \/ Go(p, "idle") /\ UNCHANGED exists
  /\ Free("weights") /\ Forget(p)
  /\ UNCHANGED <<cached, wine, made, kills>>

-----------------------------------------------------------------------------
(* _cache, as install_game calls it when it has the weights. *)

Bridge(p) ==
  /\ At(p, "bridge")
  /\ \/ Busy(p, "bridge") /\ UNCHANGED lock
     \/ /\ cached["bridge"] = "absent"
        /\ Take(p, "bridge") /\ Go(p, "bridge_copy")
     \/ /\ cached["bridge"] # "absent" /\ lock["bridge"] = None   \* digest compared
        /\ Go(p, "idle") /\ UNCHANGED lock
  /\ UNCHANGED <<cached, Conversion, kills>>

BridgeCopy(p) ==
  /\ At(p, "bridge_copy")
  /\ \/ Go(p, "bridge_rename") /\ CopyTo("bridge") /\ UNCHANGED lock
     \/ Go(p, "idle") /\ Free("bridge") /\ UNCHANGED cached
  /\ UNCHANGED <<Conversion, kills>>

BridgeRename(p) ==
  /\ At(p, "bridge_rename") /\ Go(p, "idle")
  /\ RenameTo("bridge", "whole") /\ Free("bridge")
  /\ UNCHANGED <<Conversion, kills>>

-----------------------------------------------------------------------------
(* Wine goes on by itself, and installers are killed. *)

WineWrites(f) ==
  /\ wine[f] # {}
  /\ \E m \in {"torn", "whole"} : made[f] # m /\ made' = [made EXCEPT ![f] = m]
  /\ UNCHANGED <<pc, lock, cached, folder, exists, wine, digest, failed, safe, kills>>

WineEnds(f) ==
  /\ \E x \in wine[f] : wine' = [wine EXCEPT ![f] = @ \ {x}]
  /\ UNCHANGED <<pc, lock, cached, folder, exists, made, digest, failed, safe, kills>>

Kill(p) ==
  /\ kills > 0 /\ ~At(p, "idle")
  /\ kills' = kills - 1
  /\ Go(p, "idle")
  /\ lock' = [c \in Caches |-> IF lock[c] = p THEN None ELSE lock[c]]
  /\ Forget(p)
  /\ UNCHANGED <<cached, exists, wine, made>>

Step(p) ==
  \/ Lock(p) \/ Fill(p) \/ Launch(p) \/ Return(p) \/ Expire(p) \/ Stop(p) \/ Await(p)
  \/ Inspect(p) \/ Copy(p) \/ Rename(p) \/ Record(p) \/ Sweep(p)
  \/ Bridge(p) \/ BridgeCopy(p) \/ BridgeRename(p)

Next ==
  \/ \E p \in Installers : Start(p) \/ Step(p) \/ Kill(p)
  \/ \E f \in Folders : WineWrites(f) \/ WineEnds(f)

Spec == Init /\ [][Next]_vars

\* A started installer goes on; Wine need not.
FairSpec == Spec /\ \A p \in Installers : WF_vars(Step(p))

-----------------------------------------------------------------------------
\* the steps that run under each lock
Holding == [c \in Caches |->
  IF c = "weights" THEN {"fill", "launch", "run", "stop", "await", "inspect", "copy",
                         "rename", "record", "sweep"}
  ELSE {"bridge_copy", "bridge_rename"}]

\* Types, and that whoever is inside holds the lock, so that there is one conversion
\* at most, in a folder that no other installer uses.
TypeOK ==
  /\ pc \in [Installers -> Steps]
  /\ lock \in [Caches -> Installers \cup {None}]
  /\ cached \in [Caches -> Bytes]
  /\ folder \in [Installers -> Folders \cup {None}]
  /\ exists \subseteq Folders
  /\ wine \in [Folders -> SUBSET {"setup", "server"}]
  /\ made \in [Folders -> Bytes] /\ digest \in [Installers -> Bytes]
  /\ failed \in [Installers -> BOOLEAN] /\ safe \in [Installers -> BOOLEAN]
  /\ kills \in 0..MaxKills
  /\ \A c \in Caches, p \in Installers : (lock[c] = p) = (pc[p] \in Holding[c])
  /\ \A p \in Installers : (lock["weights"] = p) = (folder[p] # None)

\* Whoever looks, with a lock or without, and whoever was killed before: a
\* cached file is complete or not there ("verified before atomic publication").
PublishedIsWhole == \A c \in Caches : cached[c] # "torn"

\* A staging folder is removed only when no Wine process runs in it, also when
\* its installer timed out, was interrupted or was killed.
StagingOutlivesWine == \A f \in Folders : wine[f] # {} => f \in exists

\* No failure, kill or concurrent installer takes a published file away again:
\* launchers of other games preload the bridge, and models are reused.
NeverWithdrawn == [][\A c \in Caches : cached[c] = "whole" => cached'[c] = "whole"]_vars

\* Every started installer comes to an end and lets go of its locks, however
\* long Wine takes: each wait has a deadline.
EveryCallEnds == \A p \in Installers : ~At(p, "idle") ~> At(p, "idle")
=============================================================================
