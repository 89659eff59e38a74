------------------------- MODULE SharedCachesProofs -------------------------
(***************************************************************************)
(* Proofs about SharedCaches, for every number of installers, staging       *)
(* folders and kills.                                                       *)
(***************************************************************************)
EXTENDS SharedCaches, TLAPS

\* What the conversion knows of its folder: it is on disk, no Wine process runs
\* in it while the clean-up may remove it, and what is copied was whole.
OwnFolder(p) ==
  /\ folder[p] # None => folder[p] \in exists
  /\ folder[p] # None /\ safe[p] => wine[folder[p]] = {}
  /\ pc[p] \in {"copy", "rename"} => digest[p] = "whole"

IInv ==
  /\ TypeOK
  /\ PublishedIsWhole
  /\ StagingOutlivesWine
  /\ \A p \in Installers : OwnFolder(p)

-----------------------------------------------------------------------------
\* Initially nothing runs, nothing is cached and nobody holds a lock.
LEMMA InitInv == Init => IInv
  BY NoneAssumption, KillAssumption
  DEF Init, IInv, TypeOK, PublishedIsWhole, StagingOutlivesWine, OwnFolder, Steps, Caches, Bytes, Holding

\* A step that changes no variable keeps the invariant.
LEMMA Stutter == IInv /\ UNCHANGED vars => IInv'
  BY DEF vars, IInv, TypeOK, PublishedIsWhole, StagingOutlivesWine, OwnFolder

\* Start keeps the invariant.
LEMMA StartInv == ASSUME IInv, NEW p \in Installers, Start(p) PROVE IInv'
<1> USE NoneAssumption, KillAssumption
<1>1. TypeOK'
  BY DEF IInv, TypeOK, OwnFolder, Start, At, Go, Conversion, Steps, Caches, Bytes, Holding
<1>2. PublishedIsWhole' /\ StagingOutlivesWine'
  BY DEF IInv, TypeOK, PublishedIsWhole, StagingOutlivesWine, OwnFolder, Start, At, Go, Conversion, Caches, Bytes, Holding
<1>3. \A q \in Installers : OwnFolder(q)'
  BY DEF IInv, TypeOK, StagingOutlivesWine, OwnFolder, Start, At, Go, Conversion, Caches, Bytes, Holding
<1> QED BY <1>1, <1>2, <1>3 DEF IInv

\* Lock keeps the invariant.
LEMMA LockInv == ASSUME IInv, NEW p \in Installers, Lock(p) PROVE IInv'
<1> USE NoneAssumption, KillAssumption
<1>1. TypeOK'
  BY DEF IInv, TypeOK, OwnFolder, Lock, Take, At, Go, Conversion, Steps, Caches, Bytes, Holding
<1>2. PublishedIsWhole' /\ StagingOutlivesWine'
  BY DEF IInv, TypeOK, PublishedIsWhole, StagingOutlivesWine, OwnFolder, Lock, Take, At, Go, Conversion, Caches, Bytes, Holding
<1>3. \A q \in Installers : OwnFolder(q)'
  BY DEF IInv, TypeOK, StagingOutlivesWine, OwnFolder, Lock, Take, At, Go, Conversion, Caches, Bytes, Holding
<1> QED BY <1>1, <1>2, <1>3 DEF IInv

\* Fill keeps the invariant.
LEMMA FillInv == ASSUME IInv, NEW p \in Installers, Fill(p) PROVE IInv'
<1> USE NoneAssumption, KillAssumption
<1>1. TypeOK'
  <2>1. lock' = lock /\ folder' = folder /\ pc \in [Installers -> Steps] /\ lock["weights"] = p
    BY DEF IInv, TypeOK, Fill, At, Caches, Holding
  <2>2. PICK s \in Steps : pc' = [pc EXCEPT ![p] = s] /\ s \in Holding["weights"]
    BY DEF Fill, Go, Steps, Caches, Holding
  <2>3. \A c \in Caches : pc[p] \in Holding[c] <=> s \in Holding[c]
    BY <2>2 DEF Fill, At, Caches, Holding
  <2>4. \A c \in Caches, q \in Installers : (lock'[c] = q) = (pc'[q] \in Holding[c])
    BY <2>1, <2>2, <2>3 DEF IInv, TypeOK
  <2>5. \A q \in Installers : (lock'["weights"] = q) = (folder'[q] # None)
    BY <2>1 DEF IInv, TypeOK
  <2>6. folder[p] \in Folders
    BY <2>1 DEF IInv, TypeOK
  <2>7. /\ wine \in [Folders -> SUBSET {"setup", "server"}] /\ made \in [Folders -> Bytes]
        /\ cached \in [Caches -> Bytes] /\ digest \in [Installers -> Bytes]
        /\ failed \in [Installers -> BOOLEAN] /\ safe \in [Installers -> BOOLEAN]
    BY DEF IInv, TypeOK
  <2>8. /\ wine' \in [Folders -> SUBSET {"setup", "server"}] /\ made' \in [Folders -> Bytes]
        /\ cached' \in [Caches -> Bytes] /\ digest' \in [Installers -> Bytes]
        /\ failed' \in [Installers -> BOOLEAN] /\ safe' \in [Installers -> BOOLEAN]
    BY <2>6, <2>7 DEF Fill, Fail, Bytes
  <2>9. kills' = kills /\ exists' = exists /\ pc' \in [Installers -> Steps]
    BY <2>1, <2>2 DEF Fill
  <2>10. /\ lock' \in [Caches -> Installers \cup {None}] /\ folder' \in [Installers -> Folders \cup {None}]
         /\ exists' \subseteq Folders /\ kills' \in 0..MaxKills
    BY <2>1, <2>9 DEF IInv, TypeOK
  <2> QED BY <2>4, <2>5, <2>8, <2>9, <2>10 DEF TypeOK
<1>2. PublishedIsWhole' /\ StagingOutlivesWine'
  BY DEF IInv, TypeOK, PublishedIsWhole, StagingOutlivesWine, OwnFolder, Fill, Fail, At, Go, Conversion, Caches, Bytes, Holding
<1>3. \A q \in Installers : OwnFolder(q)'
  BY DEF IInv, TypeOK, StagingOutlivesWine, OwnFolder, Fill, Fail, At, Go, Conversion, Caches, Bytes, Holding
<1> QED BY <1>1, <1>2, <1>3 DEF IInv

\* Launch keeps the invariant.
LEMMA LaunchInv == ASSUME IInv, NEW p \in Installers, Launch(p) PROVE IInv'
<1> USE NoneAssumption, KillAssumption
<1>1. TypeOK'
  <2>1. lock' = lock /\ folder' = folder /\ pc \in [Installers -> Steps] /\ lock["weights"] = p
    BY DEF IInv, TypeOK, Launch, At, Caches, Holding
  <2>2. PICK s \in Steps : pc' = [pc EXCEPT ![p] = s] /\ s \in Holding["weights"]
    BY DEF Launch, Go, Steps, Caches, Holding
  <2>3. \A c \in Caches : pc[p] \in Holding[c] <=> s \in Holding[c]
    BY <2>2 DEF Launch, At, Caches, Holding
  <2>4. \A c \in Caches, q \in Installers : (lock'[c] = q) = (pc'[q] \in Holding[c])
    BY <2>1, <2>2, <2>3 DEF IInv, TypeOK
  <2>5. \A q \in Installers : (lock'["weights"] = q) = (folder'[q] # None)
    BY <2>1 DEF IInv, TypeOK
  <2>6. folder[p] \in Folders
    BY <2>1 DEF IInv, TypeOK
  <2>7. /\ wine \in [Folders -> SUBSET {"setup", "server"}] /\ made \in [Folders -> Bytes]
        /\ cached \in [Caches -> Bytes] /\ digest \in [Installers -> Bytes]
        /\ failed \in [Installers -> BOOLEAN] /\ safe \in [Installers -> BOOLEAN]
    BY DEF IInv, TypeOK
  <2>8. /\ wine' \in [Folders -> SUBSET {"setup", "server"}] /\ made' \in [Folders -> Bytes]
        /\ cached' \in [Caches -> Bytes] /\ digest' \in [Installers -> Bytes]
        /\ failed' \in [Installers -> BOOLEAN] /\ safe' \in [Installers -> BOOLEAN]
    <3>1. wine' = wine \/ wine' = [wine EXCEPT ![folder[p]] = {"setup", "server"}]
      BY DEF Launch
    <3>2. wine' \in [Folders -> SUBSET {"setup", "server"}]
      BY <2>6, <2>7, <3>1
    <3>3. failed' \in [Installers -> BOOLEAN] /\ safe' \in [Installers -> BOOLEAN]
      BY <2>7 DEF Launch, Unsafe, Fail
    <3> QED BY <2>7, <3>2, <3>3 DEF Launch
  <2>9. kills' = kills /\ exists' = exists /\ pc' \in [Installers -> Steps]
    BY <2>1, <2>2 DEF Launch
  <2>10. /\ lock' \in [Caches -> Installers \cup {None}] /\ folder' \in [Installers -> Folders \cup {None}]
         /\ exists' \subseteq Folders /\ kills' \in 0..MaxKills
    BY <2>1, <2>9 DEF IInv, TypeOK
  <2> QED BY <2>4, <2>5, <2>8, <2>9, <2>10 DEF TypeOK
<1>2. PublishedIsWhole' /\ StagingOutlivesWine'
  BY DEF IInv, TypeOK, PublishedIsWhole, StagingOutlivesWine, OwnFolder, Launch, Unsafe, Fail, At, Go, Conversion, Caches, Bytes, Holding
<1>3. \A q \in Installers : OwnFolder(q)'
  BY DEF IInv, TypeOK, StagingOutlivesWine, OwnFolder, Launch, Unsafe, Fail, At, Go, Conversion, Caches, Bytes, Holding
<1> QED BY <1>1, <1>2, <1>3 DEF IInv

\* Return keeps the invariant.
LEMMA ReturnInv == ASSUME IInv, NEW p \in Installers, Return(p) PROVE IInv'
<1> USE NoneAssumption, KillAssumption
<1>1. TypeOK'
  <2>1. lock' = lock /\ folder' = folder /\ pc \in [Installers -> Steps] /\ lock["weights"] = p
    BY DEF IInv, TypeOK, Return, At, Caches, Holding
  <2>2. PICK s \in Steps : pc' = [pc EXCEPT ![p] = s] /\ s \in Holding["weights"]
    BY DEF Return, Go, Steps, Caches, Holding
  <2>3. \A c \in Caches : pc[p] \in Holding[c] <=> s \in Holding[c]
    BY <2>2 DEF Return, At, Caches, Holding
  <2>4. \A c \in Caches, q \in Installers : (lock'[c] = q) = (pc'[q] \in Holding[c])
    BY <2>1, <2>2, <2>3 DEF IInv, TypeOK
  <2>5. \A q \in Installers : (lock'["weights"] = q) = (folder'[q] # None)
    BY <2>1 DEF IInv, TypeOK
  <2>6. folder[p] \in Folders
    BY <2>1 DEF IInv, TypeOK
  <2>7. /\ wine \in [Folders -> SUBSET {"setup", "server"}] /\ made \in [Folders -> Bytes]
        /\ cached \in [Caches -> Bytes] /\ digest \in [Installers -> Bytes]
        /\ failed \in [Installers -> BOOLEAN] /\ safe \in [Installers -> BOOLEAN]
    BY DEF IInv, TypeOK
  <2>8. /\ wine' \in [Folders -> SUBSET {"setup", "server"}] /\ made' \in [Folders -> Bytes]
        /\ cached' \in [Caches -> Bytes] /\ digest' \in [Installers -> Bytes]
        /\ failed' \in [Installers -> BOOLEAN] /\ safe' \in [Installers -> BOOLEAN]
    BY <2>6, <2>7 DEF Return, Fail, Bytes
  <2>9. kills' = kills /\ exists' = exists /\ pc' \in [Installers -> Steps]
    BY <2>1, <2>2 DEF Return
  <2>10. /\ lock' \in [Caches -> Installers \cup {None}] /\ folder' \in [Installers -> Folders \cup {None}]
         /\ exists' \subseteq Folders /\ kills' \in 0..MaxKills
    BY <2>1, <2>9 DEF IInv, TypeOK
  <2> QED BY <2>4, <2>5, <2>8, <2>9, <2>10 DEF TypeOK
<1>2. PublishedIsWhole' /\ StagingOutlivesWine'
  BY DEF IInv, TypeOK, PublishedIsWhole, StagingOutlivesWine, OwnFolder, Return, Fail, At, Go, Conversion, Caches, Bytes, Holding
<1>3. \A q \in Installers : OwnFolder(q)'
  BY DEF IInv, TypeOK, StagingOutlivesWine, OwnFolder, Return, Fail, At, Go, Conversion, Caches, Bytes, Holding
<1> QED BY <1>1, <1>2, <1>3 DEF IInv

\* Expire keeps the invariant.
LEMMA ExpireInv == ASSUME IInv, NEW p \in Installers, Expire(p) PROVE IInv'
<1> USE NoneAssumption, KillAssumption
<1>1. TypeOK'
  BY DEF IInv, TypeOK, OwnFolder, Expire, Patience, Fail, At, Go, Conversion, Steps, Caches, Bytes, Holding
<1>2. PublishedIsWhole' /\ StagingOutlivesWine'
  BY DEF IInv, TypeOK, PublishedIsWhole, StagingOutlivesWine, OwnFolder, Expire, Patience, Fail, At, Go, Conversion, Caches, Bytes, Holding
<1>3. \A q \in Installers : OwnFolder(q)'
  BY DEF IInv, TypeOK, StagingOutlivesWine, OwnFolder, Expire, Patience, Fail, At, Go, Conversion, Caches, Bytes, Holding
<1> QED BY <1>1, <1>2, <1>3 DEF IInv

\* Stop keeps the invariant.
LEMMA StopInv == ASSUME IInv, NEW p \in Installers, Stop(p) PROVE IInv'
<1> USE NoneAssumption, KillAssumption
<1>1. TypeOK'
  BY DEF IInv, TypeOK, OwnFolder, Stop, At, Go, Conversion, Steps, Caches, Bytes, Holding
<1>2. PublishedIsWhole' /\ StagingOutlivesWine'
  BY DEF IInv, TypeOK, PublishedIsWhole, StagingOutlivesWine, OwnFolder, Stop, At, Go, Conversion, Caches, Bytes, Holding
<1>3. \A q \in Installers : OwnFolder(q)'
  <2>1. PICK left \in SUBSET wine[folder[p]] : wine' = [wine EXCEPT ![folder[p]] = left]
    BY DEF Stop
  <2>2. \A f \in Folders : wine'[f] \subseteq wine[f]
    BY <2>1 DEF IInv, TypeOK
  <2>3. \A q \in Installers : pc'[q] \in {"copy", "rename"} => pc'[q] = pc[q]
    BY DEF IInv, TypeOK, Stop, At, Go
  <2> QED BY <2>2, <2>3 DEF IInv, TypeOK, OwnFolder, Stop, At, Go
<1> QED BY <1>1, <1>2, <1>3 DEF IInv

\* Await keeps the invariant.
LEMMA AwaitInv == ASSUME IInv, NEW p \in Installers, Await(p) PROVE IInv'
<1> USE NoneAssumption, KillAssumption
<1>1. TypeOK'
  <2>1. lock' = lock /\ folder' = folder /\ pc \in [Installers -> Steps] /\ lock["weights"] = p
    BY DEF IInv, TypeOK, Await, At, Caches, Holding
  <2>2. PICK s \in Steps : pc' = [pc EXCEPT ![p] = s] /\ s \in Holding["weights"]
    BY DEF Await, Go, Steps, Caches, Holding
  <2>3. \A c \in Caches : pc[p] \in Holding[c] <=> s \in Holding[c]
    BY <2>2 DEF Await, At, Caches, Holding
  <2>4. \A c \in Caches, q \in Installers : (lock'[c] = q) = (pc'[q] \in Holding[c])
    BY <2>1, <2>2, <2>3 DEF IInv, TypeOK
  <2>5. \A q \in Installers : (lock'["weights"] = q) = (folder'[q] # None)
    BY <2>1 DEF IInv, TypeOK
  <2>6. folder[p] \in Folders
    BY <2>1 DEF IInv, TypeOK
  <2>7. /\ wine \in [Folders -> SUBSET {"setup", "server"}] /\ made \in [Folders -> Bytes]
        /\ cached \in [Caches -> Bytes] /\ digest \in [Installers -> Bytes]
        /\ failed \in [Installers -> BOOLEAN] /\ safe \in [Installers -> BOOLEAN]
    BY DEF IInv, TypeOK
  <2>8. /\ wine' \in [Folders -> SUBSET {"setup", "server"}] /\ made' \in [Folders -> Bytes]
        /\ cached' \in [Caches -> Bytes] /\ digest' \in [Installers -> Bytes]
        /\ failed' \in [Installers -> BOOLEAN] /\ safe' \in [Installers -> BOOLEAN]
    BY <2>6, <2>7 DEF Await, Confirmed, Bytes
  <2>9. kills' = kills /\ exists' = exists /\ pc' \in [Installers -> Steps]
    BY <2>1, <2>2 DEF Await
  <2>10. /\ lock' \in [Caches -> Installers \cup {None}] /\ folder' \in [Installers -> Folders \cup {None}]
         /\ exists' \subseteq Folders /\ kills' \in 0..MaxKills
    BY <2>1, <2>9 DEF IInv, TypeOK
  <2> QED BY <2>4, <2>5, <2>8, <2>9, <2>10 DEF TypeOK
<1>2. PublishedIsWhole' /\ StagingOutlivesWine'
  BY DEF IInv, TypeOK, PublishedIsWhole, StagingOutlivesWine, OwnFolder, Await, Confirmed, At, Go, Conversion, Caches, Bytes, Holding
<1>3. \A q \in Installers : OwnFolder(q)'
  BY DEF IInv, TypeOK, StagingOutlivesWine, OwnFolder, Await, Confirmed, At, Go, Conversion, Caches, Bytes, Holding
<1> QED BY <1>1, <1>2, <1>3 DEF IInv

\* Inspect keeps the invariant.
LEMMA InspectInv == ASSUME IInv, NEW p \in Installers, Inspect(p) PROVE IInv'
<1> USE NoneAssumption, KillAssumption
<1>1. TypeOK'
  <2>1. lock' = lock /\ folder' = folder /\ pc \in [Installers -> Steps] /\ lock["weights"] = p
    BY DEF IInv, TypeOK, Inspect, At, Caches, Holding
  <2>2. PICK s \in Steps : pc' = [pc EXCEPT ![p] = s] /\ s \in Holding["weights"]
    BY DEF Inspect, Go, Steps, Caches, Holding
  <2>3. \A c \in Caches : pc[p] \in Holding[c] <=> s \in Holding[c]
    BY <2>2 DEF Inspect, At, Caches, Holding
  <2>4. \A c \in Caches, q \in Installers : (lock'[c] = q) = (pc'[q] \in Holding[c])
    BY <2>1, <2>2, <2>3 DEF IInv, TypeOK
  <2>5. \A q \in Installers : (lock'["weights"] = q) = (folder'[q] # None)
    BY <2>1 DEF IInv, TypeOK
  <2>6. folder[p] \in Folders
    BY <2>1 DEF IInv, TypeOK
  <2>7. /\ wine \in [Folders -> SUBSET {"setup", "server"}] /\ made \in [Folders -> Bytes]
        /\ cached \in [Caches -> Bytes] /\ digest \in [Installers -> Bytes]
        /\ failed \in [Installers -> BOOLEAN] /\ safe \in [Installers -> BOOLEAN]
    BY DEF IInv, TypeOK
  <2>8. /\ wine' \in [Folders -> SUBSET {"setup", "server"}] /\ made' \in [Folders -> Bytes]
        /\ cached' \in [Caches -> Bytes] /\ digest' \in [Installers -> Bytes]
        /\ failed' \in [Installers -> BOOLEAN] /\ safe' \in [Installers -> BOOLEAN]
    BY <2>6, <2>7 DEF Inspect, Acceptable, Fail, Bytes
  <2>9. kills' = kills /\ exists' = exists /\ pc' \in [Installers -> Steps]
    BY <2>1, <2>2 DEF Inspect
  <2>10. /\ lock' \in [Caches -> Installers \cup {None}] /\ folder' \in [Installers -> Folders \cup {None}]
         /\ exists' \subseteq Folders /\ kills' \in 0..MaxKills
    BY <2>1, <2>9 DEF IInv, TypeOK
  <2> QED BY <2>4, <2>5, <2>8, <2>9, <2>10 DEF TypeOK
<1>2. PublishedIsWhole' /\ StagingOutlivesWine'
  BY DEF IInv, TypeOK, PublishedIsWhole, StagingOutlivesWine, OwnFolder, Inspect, Acceptable, Fail, At, Go, Conversion, Caches, Bytes, Holding
<1>3. \A q \in Installers : OwnFolder(q)'
  BY DEF IInv, TypeOK, StagingOutlivesWine, OwnFolder, Inspect, Acceptable, Fail, At, Go, Conversion, Caches, Bytes, Holding
<1> QED BY <1>1, <1>2, <1>3 DEF IInv

\* Copy keeps the invariant.
LEMMA CopyInv == ASSUME IInv, NEW p \in Installers, Copy(p) PROVE IInv'
<1> USE NoneAssumption, KillAssumption
<1>1. TypeOK'
  <2>1. lock' = lock /\ folder' = folder /\ pc \in [Installers -> Steps] /\ lock["weights"] = p
    BY DEF IInv, TypeOK, Copy, At, Caches, Holding
  <2>2. PICK s \in Steps : pc' = [pc EXCEPT ![p] = s] /\ s \in Holding["weights"]
    BY DEF Copy, Go, Steps, Caches, Holding
  <2>3. \A c \in Caches : pc[p] \in Holding[c] <=> s \in Holding[c]
    BY <2>2 DEF Copy, At, Caches, Holding
  <2>4. \A c \in Caches, q \in Installers : (lock'[c] = q) = (pc'[q] \in Holding[c])
    BY <2>1, <2>2, <2>3 DEF IInv, TypeOK
  <2>5. \A q \in Installers : (lock'["weights"] = q) = (folder'[q] # None)
    BY <2>1 DEF IInv, TypeOK
  <2>6. folder[p] \in Folders
    BY <2>1 DEF IInv, TypeOK
  <2>7. /\ wine \in [Folders -> SUBSET {"setup", "server"}] /\ made \in [Folders -> Bytes]
        /\ cached \in [Caches -> Bytes] /\ digest \in [Installers -> Bytes]
        /\ failed \in [Installers -> BOOLEAN] /\ safe \in [Installers -> BOOLEAN]
    BY DEF IInv, TypeOK
  <2>8. /\ wine' \in [Folders -> SUBSET {"setup", "server"}] /\ made' \in [Folders -> Bytes]
        /\ cached' \in [Caches -> Bytes] /\ digest' \in [Installers -> Bytes]
        /\ failed' \in [Installers -> BOOLEAN] /\ safe' \in [Installers -> BOOLEAN]
    BY <2>6, <2>7 DEF Copy, CopyTo, Exposed, Fail, Bytes
  <2>9. kills' = kills /\ exists' = exists /\ pc' \in [Installers -> Steps]
    BY <2>1, <2>2 DEF Copy
  <2>10. /\ lock' \in [Caches -> Installers \cup {None}] /\ folder' \in [Installers -> Folders \cup {None}]
         /\ exists' \subseteq Folders /\ kills' \in 0..MaxKills
    BY <2>1, <2>9 DEF IInv, TypeOK
  <2> QED BY <2>4, <2>5, <2>8, <2>9, <2>10 DEF TypeOK
<1>2. PublishedIsWhole' /\ StagingOutlivesWine'
  BY DEF IInv, TypeOK, PublishedIsWhole, StagingOutlivesWine, OwnFolder, Copy, CopyTo, Exposed, Fail, At, Go, Conversion, Caches, Bytes, Holding
<1>3. \A q \in Installers : OwnFolder(q)'
  BY DEF IInv, TypeOK, StagingOutlivesWine, OwnFolder, Copy, CopyTo, Exposed, Fail, At, Go, Conversion, Caches, Bytes, Holding
<1> QED BY <1>1, <1>2, <1>3 DEF IInv

\* Rename keeps the invariant.
LEMMA RenameInv == ASSUME IInv, NEW p \in Installers, Rename(p) PROVE IInv'
<1> USE NoneAssumption, KillAssumption
<1>1. TypeOK'
  BY DEF IInv, TypeOK, OwnFolder, Rename, RenameTo, At, Go, Conversion, Steps, Caches, Bytes, Holding
<1>2. PublishedIsWhole' /\ StagingOutlivesWine'
  BY DEF IInv, TypeOK, PublishedIsWhole, StagingOutlivesWine, OwnFolder, Rename, RenameTo, At, Go, Conversion, Caches, Bytes, Holding
<1>3. \A q \in Installers : OwnFolder(q)'
  BY DEF IInv, TypeOK, StagingOutlivesWine, OwnFolder, Rename, RenameTo, At, Go, Conversion, Caches, Bytes, Holding
<1> QED BY <1>1, <1>2, <1>3 DEF IInv

\* Record keeps the invariant.
LEMMA RecordInv == ASSUME IInv, NEW p \in Installers, Record(p) PROVE IInv'
<1> USE NoneAssumption, KillAssumption
<1>1. TypeOK'
  <2>1. lock' = lock /\ folder' = folder /\ pc \in [Installers -> Steps] /\ lock["weights"] = p
    BY DEF IInv, TypeOK, Record, At, Caches, Holding
  <2>2. PICK s \in Steps : pc' = [pc EXCEPT ![p] = s] /\ s \in Holding["weights"]
    BY DEF Record, Go, Steps, Caches, Holding
  <2>3. \A c \in Caches : pc[p] \in Holding[c] <=> s \in Holding[c]
    BY <2>2 DEF Record, At, Caches, Holding
  <2>4. \A c \in Caches, q \in Installers : (lock'[c] = q) = (pc'[q] \in Holding[c])
    BY <2>1, <2>2, <2>3 DEF IInv, TypeOK
  <2>5. \A q \in Installers : (lock'["weights"] = q) = (folder'[q] # None)
    BY <2>1 DEF IInv, TypeOK
  <2>6. folder[p] \in Folders
    BY <2>1 DEF IInv, TypeOK
  <2>7. /\ wine \in [Folders -> SUBSET {"setup", "server"}] /\ made \in [Folders -> Bytes]
        /\ cached \in [Caches -> Bytes] /\ digest \in [Installers -> Bytes]
        /\ failed \in [Installers -> BOOLEAN] /\ safe \in [Installers -> BOOLEAN]
    BY DEF IInv, TypeOK
  <2>8. /\ wine' \in [Folders -> SUBSET {"setup", "server"}] /\ made' \in [Folders -> Bytes]
        /\ cached' \in [Caches -> Bytes] /\ digest' \in [Installers -> Bytes]
        /\ failed' \in [Installers -> BOOLEAN] /\ safe' \in [Installers -> BOOLEAN]
    BY <2>6, <2>7 DEF Record, Fail, Bytes
  <2>9. kills' = kills /\ exists' = exists /\ pc' \in [Installers -> Steps]
    BY <2>1, <2>2 DEF Record
  <2>10. /\ lock' \in [Caches -> Installers \cup {None}] /\ folder' \in [Installers -> Folders \cup {None}]
         /\ exists' \subseteq Folders /\ kills' \in 0..MaxKills
    BY <2>1, <2>9 DEF IInv, TypeOK
  <2> QED BY <2>4, <2>5, <2>8, <2>9, <2>10 DEF TypeOK
<1>2. PublishedIsWhole' /\ StagingOutlivesWine'
  BY DEF IInv, TypeOK, PublishedIsWhole, StagingOutlivesWine, OwnFolder, Record, Fail, At, Go, Conversion, Caches, Bytes, Holding
<1>3. \A q \in Installers : OwnFolder(q)'
  BY DEF IInv, TypeOK, StagingOutlivesWine, OwnFolder, Record, Fail, At, Go, Conversion, Caches, Bytes, Holding
<1> QED BY <1>1, <1>2, <1>3 DEF IInv

\* Sweep keeps the invariant.
LEMMA SweepInv == ASSUME IInv, NEW p \in Installers, Sweep(p) PROVE IInv'
<1> USE NoneAssumption, KillAssumption
<1>1. TypeOK'
  BY DEF IInv, TypeOK, OwnFolder, Sweep, Free, Forget, At, Go, Conversion, Steps, Caches, Bytes, Holding
<1>2. PublishedIsWhole' /\ StagingOutlivesWine'
  BY DEF IInv, TypeOK, PublishedIsWhole, StagingOutlivesWine, OwnFolder, Sweep, Free, Forget, At, Go, Conversion, Caches, Bytes, Holding
<1>3. \A q \in Installers : OwnFolder(q)'
  BY DEF IInv, TypeOK, StagingOutlivesWine, OwnFolder, Sweep, Free, Forget, At, Go, Conversion, Caches, Bytes, Holding
<1> QED BY <1>1, <1>2, <1>3 DEF IInv

\* Bridge keeps the invariant.
LEMMA BridgeInv == ASSUME IInv, NEW p \in Installers, Bridge(p) PROVE IInv'
<1> USE NoneAssumption, KillAssumption
<1>1. TypeOK'
  BY DEF IInv, TypeOK, OwnFolder, Bridge, Busy, Take, At, Go, Conversion, Steps, Caches, Bytes, Holding
<1>2. PublishedIsWhole' /\ StagingOutlivesWine'
  BY DEF IInv, TypeOK, PublishedIsWhole, StagingOutlivesWine, OwnFolder, Bridge, Busy, Take, At, Go, Conversion, Caches, Bytes, Holding
<1>3. \A q \in Installers : OwnFolder(q)'
  BY DEF IInv, TypeOK, StagingOutlivesWine, OwnFolder, Bridge, Busy, Take, At, Go, Conversion, Caches, Bytes, Holding
<1> QED BY <1>1, <1>2, <1>3 DEF IInv

\* BridgeCopy keeps the invariant.
LEMMA BridgeCopyInv == ASSUME IInv, NEW p \in Installers, BridgeCopy(p) PROVE IInv'
<1> USE NoneAssumption, KillAssumption
<1>1. TypeOK'
  BY DEF IInv, TypeOK, OwnFolder, BridgeCopy, CopyTo, Exposed, Free, At, Go, Conversion, Steps, Caches, Bytes, Holding
<1>2. PublishedIsWhole' /\ StagingOutlivesWine'
  BY DEF IInv, TypeOK, PublishedIsWhole, StagingOutlivesWine, OwnFolder, BridgeCopy, CopyTo, Exposed, Free, At, Go, Conversion, Caches, Bytes, Holding
<1>3. \A q \in Installers : OwnFolder(q)'
  BY DEF IInv, TypeOK, StagingOutlivesWine, OwnFolder, BridgeCopy, CopyTo, Exposed, Free, At, Go, Conversion, Caches, Bytes, Holding
<1> QED BY <1>1, <1>2, <1>3 DEF IInv

\* BridgeRename keeps the invariant.
LEMMA BridgeRenameInv == ASSUME IInv, NEW p \in Installers, BridgeRename(p) PROVE IInv'
<1> USE NoneAssumption, KillAssumption
<1>1. TypeOK'
  BY DEF IInv, TypeOK, OwnFolder, BridgeRename, RenameTo, Free, At, Go, Conversion, Steps, Caches, Bytes, Holding
<1>2. PublishedIsWhole' /\ StagingOutlivesWine'
  BY DEF IInv, TypeOK, PublishedIsWhole, StagingOutlivesWine, OwnFolder, BridgeRename, RenameTo, Free, At, Go, Conversion, Caches, Bytes, Holding
<1>3. \A q \in Installers : OwnFolder(q)'
  BY DEF IInv, TypeOK, StagingOutlivesWine, OwnFolder, BridgeRename, RenameTo, Free, At, Go, Conversion, Caches, Bytes, Holding
<1> QED BY <1>1, <1>2, <1>3 DEF IInv

\* Kill keeps the invariant.
LEMMA KillInv == ASSUME IInv, NEW p \in Installers, Kill(p) PROVE IInv'
<1> USE NoneAssumption, KillAssumption
<1>1. TypeOK'
  BY DEF IInv, TypeOK, OwnFolder, Kill, Forget, At, Go, Conversion, Steps, Caches, Bytes, Holding
<1>2. PublishedIsWhole' /\ StagingOutlivesWine'
  BY DEF IInv, TypeOK, PublishedIsWhole, StagingOutlivesWine, OwnFolder, Kill, Forget, At, Go, Conversion, Caches, Bytes, Holding
<1>3. \A q \in Installers : OwnFolder(q)'
  BY DEF IInv, TypeOK, StagingOutlivesWine, OwnFolder, Kill, Forget, At, Go, Conversion, Caches, Bytes, Holding
<1> QED BY <1>1, <1>2, <1>3 DEF IInv

\* WineWrites keeps the invariant.
LEMMA WineWritesInv == ASSUME IInv, NEW f \in Folders, WineWrites(f) PROVE IInv'
<1>1. TypeOK'
  BY DEF IInv, TypeOK, WineWrites, Bytes
<1>2. PublishedIsWhole' /\ StagingOutlivesWine'
  BY DEF IInv, TypeOK, PublishedIsWhole, StagingOutlivesWine, WineWrites
<1>3. \A q \in Installers : OwnFolder(q)'
  BY DEF IInv, TypeOK, OwnFolder, WineWrites
<1> QED BY <1>1, <1>2, <1>3 DEF IInv

\* WineEnds keeps the invariant.
LEMMA WineEndsInv == ASSUME IInv, NEW f \in Folders, WineEnds(f) PROVE IInv'
<1>1. TypeOK'
  BY DEF IInv, TypeOK, WineEnds, Bytes
<1>2. PublishedIsWhole' /\ StagingOutlivesWine'
  BY DEF IInv, TypeOK, PublishedIsWhole, StagingOutlivesWine, WineEnds
<1>3. \A q \in Installers : OwnFolder(q)'
  BY DEF IInv, TypeOK, OwnFolder, WineEnds
<1> QED BY <1>1, <1>2, <1>3 DEF IInv

\* Every step keeps the invariant.
LEMMA NextInv == IInv /\ [Next]_vars => IInv'
<1> SUFFICES ASSUME IInv, [Next]_vars PROVE IInv'
  OBVIOUS
<1>1. ASSUME NEW p \in Installers, Start(p) \/ Kill(p) PROVE IInv'
  BY <1>1, StartInv, KillInv
<1>2. ASSUME NEW p \in Installers, Step(p) PROVE IInv'
  BY <1>2, LockInv, FillInv, LaunchInv, ReturnInv, ExpireInv, StopInv, AwaitInv, InspectInv, CopyInv,
     RenameInv, RecordInv, SweepInv, BridgeInv, BridgeCopyInv, BridgeRenameInv DEF Step
<1>3. ASSUME NEW f \in Folders, WineWrites(f) \/ WineEnds(f) PROVE IInv'
  BY <1>3, WineWritesInv, WineEndsInv
<1> QED BY <1>1, <1>2, <1>3, Stutter DEF Next

\* The invariant holds in every reachable state.
LEMMA InvAlways == Spec => []IInv
  BY InitInv, NextInv, PTL DEF Spec

-----------------------------------------------------------------------------
\* Types, and that at most one conversion and one bridge copy are under way.
THEOREM CacheTypes == Spec => []TypeOK
<1>1. IInv => TypeOK
  BY DEF IInv
<1> QED BY <1>1, InvAlways, PTL

\* However many installers are killed, expire or fail: nobody ever sees half a
\* model or half a bridge.
THEOREM CachesAreWhole == Spec => []PublishedIsWhole
<1>1. IInv => PublishedIsWhole
  BY DEF IInv
<1> QED BY <1>1, InvAlways, PTL

\* No staging folder is removed under running Wine processes.
THEOREM StagingIsKept == Spec => []StagingOutlivesWine
<1>1. IInv => StagingOutlivesWine
  BY DEF IInv
<1> QED BY <1>1, InvAlways, PTL

\* No step takes a published file away.
LEMMA StepKeeps == IInv /\ [Next]_vars => \A c \in Caches : cached[c] = "whole" => cached'[c] = "whole"
<1> SUFFICES ASSUME IInv, [Next]_vars PROVE \A c \in Caches : cached[c] = "whole" => cached'[c] = "whole"
  OBVIOUS
<1>1. ASSUME NEW p \in Installers, Copy(p) \/ BridgeCopy(p) PROVE cached' = cached
  BY <1>1 DEF IInv, TypeOK, Copy, BridgeCopy, CopyTo, Exposed, Caches
<1>2. ASSUME NEW p \in Installers, Rename(p)
      PROVE  \A c \in Caches : cached[c] = "whole" => cached'[c] = "whole"
  <2>1. digest[p] = "whole"
    BY <1>2 DEF IInv, OwnFolder, Rename, At
  <2> QED BY <1>2, <2>1 DEF IInv, TypeOK, Rename, RenameTo, Caches
<1>3. ASSUME NEW p \in Installers, BridgeRename(p)
      PROVE  \A c \in Caches : cached[c] = "whole" => cached'[c] = "whole"
  BY <1>3 DEF IInv, TypeOK, BridgeRename, RenameTo, Caches
<1>4. ASSUME NEW p \in Installers, Start(p) \/ Kill(p) \/ Step(p),
             ~(Copy(p) \/ BridgeCopy(p) \/ Rename(p) \/ BridgeRename(p))
      PROVE  cached' = cached
  BY <1>4 DEF Step, Start, Kill, Lock, Fill, Launch, Return, Expire, Stop, Await, Inspect, Record, Sweep, Bridge
<1>5. ASSUME NEW f \in Folders, WineWrites(f) \/ WineEnds(f) PROVE cached' = cached
  BY <1>5 DEF WineWrites, WineEnds
<1>6. UNCHANGED vars => cached' = cached
  BY DEF vars
<1> QED BY <1>1, <1>2, <1>3, <1>4, <1>5, <1>6 DEF Next

\* No failure, kill or concurrent installer withdraws a published file.
THEOREM PublishedStays == Spec => NeverWithdrawn
<1>1. IInv /\ [Next]_vars => [\A c \in Caches : cached[c] = "whole" => cached'[c] = "whole"]_vars
  BY StepKeeps
<1> QED BY <1>1, InvAlways, PTL DEF Spec, NeverWithdrawn

=============================================================================
