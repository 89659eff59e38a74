------------------------- MODULE NrOrderedProofs -------------------------
(***************************************************************************)
(* Proofs about NrOrdered for every value of its constants: its types, the  *)
(* ownership of frame states by jobs, and, at the end, the references it    *)
(* takes from the owners of the buffers.                                    *)
(***************************************************************************)
EXTENDS NrOrdered, FiniteSetTheorems, TLAPS

-----------------------------------------------------------------------------
\* The operators the actions are built from.

\* A frame number has a position in the window.
LEMMA PosInRing == \A f \in Frames : Pos(f) \in Ring
  BY SizesAssumption, FramesAssumption DEF Pos, Ring

\* There are finitely many buffers, so a bundle can be counted.
LEMMA BufferFinite == IsFiniteSet(Buffer)
<1>1. IsFiniteSet(Tokens \X Owners)
  <2>1. IsFiniteSet(Tokens)
    BY FS_Interval, SizesAssumption DEF Tokens
  <2>2. QED BY <2>1, FS_Product, OwnersAssumption
<1> DEFINE f == [x \in Tokens \X Owners |-> [token |-> x[1], owner |-> x[2]]]
<1>2. f \in Surjection(Tokens \X Owners, Buffer)
  <2>1. f \in [Tokens \X Owners -> Buffer]
    BY DEF Buffer
  <2>2. ASSUME NEW b \in Buffer PROVE \E x \in Tokens \X Owners : f[x] = b
    <3>1. <<b.token, b.owner>> \in Tokens \X Owners /\ f[<<b.token, b.owner>>] = b
      BY DEF Buffer
    <3>2. QED BY <3>1
  <2>3. QED BY <2>1, <2>2 DEF Surjection
<1>3. QED BY <1>1, <1>2, FS_Surjection

LEMMA CountType == ASSUME NEW B \in SUBSET Buffer, NEW o \in Owners
                   PROVE  Count(B, o) \in Nat
  BY BufferFinite, FS_Subset, FS_CardinalityType, {b \in B : b.owner = o} \in SUBSET Buffer DEF Count

LEMMA RetainingType == ASSUME NEW B \in SUBSET Buffer, refs \in [Owners -> Int]
                       PROVE  Retaining(B) \in [Owners -> Int]
  BY CountType DEF Retaining

LEMMA DroppingType == ASSUME NEW B \in SUBSET Buffer, drops \in [Owners -> Nat]
                      PROVE  Dropping(B) \in [Owners -> Nat]
  BY CountType DEF Dropping

LEMMA FreshFrameType == \A f \in Frames \cup {None} : FreshFrame(f) \in FrameState
  BY DEF FreshFrame, FrameState

LEMMA ObtainedType ==
  ASSUME frames \in [Slots -> [Ring -> FrameState]], NEW k \in Slots, NEW f \in Frames
  PROVE  Obtained(k, f) \in FrameState /\ Obtained(k, f).frame = f
  BY PosInRing, FreshFrameType DEF Obtained, Holds, FreshFrame

LEMMA PutType ==
  ASSUME frames \in [Slots -> [Ring -> FrameState]], NEW k \in Slots, NEW f \in Frames,
         NEW s \in FrameState
  PROVE  Put(k, f, s) \in [Slots -> [Ring -> FrameState]]
  BY PosInRing DEF Put

LEMMA FailedType == \A s \in FrameState : Failed(s) \in FrameState
  BY DEF Failed, FrameState

LEMMA BroadcastedType == ASSUME waiter \in [Threads -> Waiting]
                         PROVE  Broadcasted \in [Threads -> Waiting]
  BY DEF Broadcasted, Waiting

LEMMA BufferOfType ==
  ASSUME TypeInv, NEW k \in Slots, reg[k].active \/ reg[k].token # 0
  PROVE  BufferOf(k) \in Buffer
  BY DEF BufferOf, Buffer, TypeInv, TypeOK, WellFormed, Registration

LEMMA KnownTokenType == TypeInv => KnownTokens \subseteq Tokens \ {0}
  BY SizesAssumption DEF KnownTokens, Tokens, TypeInv, TypeOK

LEMMA FoundType == ASSUME TypeInv, NEW t
                   PROVE  Found(t) \subseteq {k \in Slots : reg[k].active}
  BY DEF Found

LEMMA FailFrameType ==
  ASSUME TypeInv, NEW t, NEW f \in Frames, FailFrame(t, f)
  PROVE  /\ frames' \in [Slots -> [Ring -> FrameState]]
         /\ drops' \in [Owners -> Nat]
         /\ waiter' = Broadcasted
<1> USE DEF TypeInv, TypeOK
<1>1. CASE \E k \in Found(t) : Obtainable(k, f)
  <2>1. PICK k \in Found(t) :
          /\ frames' = Put(k, f, Failed(Obtained(k, f)))
          /\ drops' = IF Obtained(k, f).owned THEN drops ELSE Dropping(Obtained(k, f).pins)
    BY <1>1 DEF FailFrame
  <2>2. k \in Slots BY FoundType
  <2>3. Obtained(k, f) \in FrameState BY <2>2, ObtainedType
  <2>4. Obtained(k, f).pins \in SUBSET Buffer BY <2>3 DEF FrameState
  <2>5. frames' \in [Slots -> [Ring -> FrameState]] BY <2>1, <2>2, <2>3, FailedType, PutType
  <2>6. QED BY <2>1, <2>4, <2>5, DroppingType DEF FailFrame
<1>2. CASE ~\E k \in Found(t) : Obtainable(k, f)
  BY <1>2 DEF FailFrame
<1>3. QED BY <1>1, <1>2

\* What FailJob leaves behind: the job is only marked, its frame failed.
LEMMA FailJobType ==
  ASSUME TypeInv, NEW h \in Hips, NEW j \in Job, j.token # 0 => j.frame \in Frames, FailJob(h, j)
  PROVE  /\ frames' \in [Slots -> [Ring -> FrameState]]
         /\ drops' \in [Owners -> Nat]
         /\ waiter' \in {waiter, Broadcasted}
         /\ job' = [job EXCEPT ![h] = [j EXCEPT !.error = TRUE]]
<1>1. CASE j.token # 0
  BY <1>1, FailFrameType DEF FailJob
<1>2. CASE j.token = 0
  BY <1>2 DEF FailJob, TypeInv, TypeOK
<1>3. QED BY <1>1, <1>2

-----------------------------------------------------------------------------
\* TypeInv is inductive: one lemma per action.

\* WellFormed survives a step of a thread without a job of its own: tokens and
\* owners stay, nothing starts to wait.
LEMMA WellFormedKept ==
  ASSUME TypeInv,
         \A k \in Slots : /\ reg'[k].token = reg[k].token /\ reg'[k].owner = reg[k].owner
                          /\ reg'[k].active => reg[k].active,
         \A t \in Threads : /\ waiter'[t].frame = waiter[t].frame
                            /\ waiter'[t].st # "no" => waiter[t].st # "no",
         job' = job, pc' = pc, probing' = probing
  PROVE  WellFormed'
<1>1. WellFormed BY DEF TypeInv
<1>2. \A k \in Slots : reg'[k].token # 0 \/ reg'[k].active => reg'[k].token # 0 /\ reg'[k].owner \in Owners
  BY <1>1 DEF WellFormed
<1>3. \A t \in Threads : waiter'[t].st # "no" => waiter'[t].frame \in Frames
  BY <1>1 DEF WellFormed
<1>4. ASSUME NEW h \in Hips PROVE HipFormed(h)'
  BY <1>1, <1>4 DEF WellFormed, HipFormed, Threads
<1>5. QED BY <1>2, <1>3, <1>4 DEF WellFormed

\* WellFormed survives a step of HIP thread h that leaves h well formed.
LEMMA WellFormedHip ==
  ASSUME TypeInv, NEW h \in Hips, HipFormed(h)',
         \A k \in Slots : /\ reg'[k].token = reg[k].token /\ reg'[k].owner = reg[k].owner
                          /\ reg'[k].active => reg[k].active,
         \A t \in Threads \ {h} : /\ waiter'[t].frame = waiter[t].frame
                                  /\ waiter'[t].st # "no" => waiter[t].st # "no",
         waiter'[h].st # "no" => waiter'[h].frame \in Frames,
         \A g \in Hips \ {h} : job'[g] = job[g] /\ pc'[g] = pc[g] /\ probing'[g] = probing[g]
  PROVE  WellFormed'
<1>1. WellFormed BY DEF TypeInv
<1>2. \A k \in Slots : reg'[k].token # 0 \/ reg'[k].active => reg'[k].token # 0 /\ reg'[k].owner \in Owners
  BY <1>1 DEF WellFormed
<1>3. \A t \in Threads : waiter'[t].st # "no" => waiter'[t].frame \in Frames
  BY <1>1 DEF WellFormed
<1>4. ASSUME NEW g \in Hips, g # h PROVE HipFormed(g)'
  BY <1>1, <1>4 DEF WellFormed, HipFormed, Threads
<1>5. QED BY <1>2, <1>3, <1>4 DEF WellFormed

\* What a broadcast does to the waiters.
LEMMA BroadcastedKeeps ==
  ASSUME TypeInv
  PROVE  \A t \in Threads : Broadcasted[t].frame = waiter[t].frame
                            /\ (Broadcasted[t].st # "no" => waiter[t].st # "no")
  BY DEF TypeInv, TypeOK, Broadcasted, Waiting

LEMMA InitType == Init => TypeInv
<1> SUFFICES ASSUME Init PROVE TypeInv
  OBVIOUS
<1> USE DEF Init
<1>1. NoRegistration \in Registration /\ FreshFrame(None) \in FrameState /\ NotWaiting \in Waiting
      /\ NoJob \in Job /\ NoProbe \in Probe
  BY SizesAssumption DEF NoRegistration, Registration, FreshFrame, FrameState, NotWaiting, Waiting,
     NoJob, Job, NoProbe, Probe, Tokens
<1>2. TypeOK BY <1>1, SizesAssumption DEF TypeOK
<1>3. WellFormed BY DEF WellFormed, HipFormed, NoRegistration, NotWaiting, NoJob, NoProbe, Threads
<1>4. QED BY <1>2, <1>3 DEF TypeInv

LEMMA RegisterType == ASSUME TypeInv, NEW o \in Owners, Register(o) PROVE TypeInv'
<1> USE DEF TypeInv, TypeOK
<1> DEFINE r == [NoRegistration EXCEPT !.active = TRUE, !.token = nextToken, !.owner = o]
<1>0. nextToken \in Tokens \ {0}
  BY SizesAssumption DEF Register, Tokens
<1>1. r \in Registration /\ r.token # 0 /\ r.owner \in Owners
  BY <1>0, SizesAssumption DEF NoRegistration, Registration
<1>2. PICK k \in Slots : /\ reg' = [reg EXCEPT ![k] = r]
                         /\ frames' = [frames EXCEPT ![k] = [i \in Ring |-> FreshFrame(None)]]
  BY DEF Register
<1>3. TypeOK'
  <2>1. reg' \in [Slots -> Registration] BY <1>1, <1>2
  <2>2. frames' \in [Slots -> [Ring -> FrameState]] BY <1>2, FreshFrameType
  <2>3. QED BY <2>1, <2>2, SizesAssumption DEF Register, ownerVars, hipVars
<1>4. WellFormed'
  <2>1. \A j \in Slots : reg'[j] = IF j = k THEN r ELSE reg[j]
    BY <1>2
  <2>2. UNCHANGED <<waiter, job, pc, probing>>
    BY DEF Register, hipVars
  <2>3. QED BY <1>1, <2>1, <2>2 DEF WellFormed, HipFormed
<1>5. QED BY <1>3, <1>4

LEMMA MapType == ASSUME TypeInv, NEW k \in Slots, Map(k) PROVE TypeInv'
<1> USE DEF TypeInv, TypeOK
<1> DEFINE r == [reg[k] EXCEPT !.mapped = TRUE]
<1>0. r \in Registration /\ reg' = [reg EXCEPT ![k] = r] BY DEF Map, Registration
<1>1. reg' \in [Slots -> Registration] BY <1>0
<1>2. TypeOK' BY <1>1 DEF Map, ownerVars, hipVars
<1>3. WellFormed' BY DEF Map, ownerVars, hipVars, WellFormed, HipFormed, Registration
<1>4. QED BY <1>2, <1>3

LEMMA DecrefType == ASSUME TypeInv, NEW o \in Owners, Decref(o)
                    PROVE  /\ refs' \in [Owners -> Int]
                           /\ life' \in [Owners -> {"live", "dying", "gone"}]
  BY DEF TypeInv, TypeOK, Decref

LEMMA ReleaseType == ASSUME TypeInv, NEW o \in Owners, Release(o) PROVE TypeInv'
<1> USE DEF TypeInv, TypeOK
<1>1. drops' \in [Owners -> Nat] BY DEF Release
<1>2. TypeOK' BY <1>1, DecrefType DEF Release, hipVars
<1>3. WellFormed' BY DEF Release, hipVars, WellFormed, HipFormed
<1>4. QED BY <1>2, <1>3

LEMMA AppReleaseType == ASSUME TypeInv, NEW o \in Owners, AppRelease(o) PROVE TypeInv'
<1> USE DEF TypeInv, TypeOK
<1>1. TypeOK' BY DecrefType DEF AppRelease, hipVars
<1>2. WellFormed' BY DEF AppRelease, hipVars, WellFormed, HipFormed
<1>3. QED BY <1>1, <1>2

LEMMA DestroyType == ASSUME TypeInv, NEW o \in Owners, Destroy(o) PROVE TypeInv'
<1> USE DEF TypeInv, TypeOK
<1> DEFINE Hit(k) == reg[k].active /\ VaOf[reg[k].owner] = VaOf[o]
           lost == {x \in Slots \X Ring : Hit(x[1]) /\ ~frames[x[1]][x[2]].owned}
           Lost(p) == UNION {{<<x, b>> : b \in {b \in frames[x[1]][x[2]].pins : b.owner = p}} : x \in lost}
<1>1. /\ reg' = [k \in Slots |-> IF Hit(k) THEN [reg[k] EXCEPT !.active = FALSE] ELSE reg[k]]
      /\ frames' = [k \in Slots |-> IF Hit(k) THEN [i \in Ring |-> Failed(frames[k][i])] ELSE frames[k]]
      /\ drops' = [p \in Owners |-> drops[p] + Cardinality(Lost(p))]
      /\ waiter' = Broadcasted
  BY DEF Destroy, Retire
<1>2. reg' \in [Slots -> Registration]
  <2>1. \A k \in Slots : [reg[k] EXCEPT !.active = FALSE] \in Registration
    BY DEF Registration
  <2>2. QED BY <1>1, <2>1
<1>3. frames' \in [Slots -> [Ring -> FrameState]] BY <1>1, FailedType
<1>4. drops' \in [Owners -> Nat]
  <2>1. ASSUME NEW p \in Owners PROVE Cardinality(Lost(p)) \in Nat
    <3>1. Lost(p) \in SUBSET ((Slots \X Ring) \X Buffer) BY DEF FrameState
    <3>2. IsFiniteSet(Slots) /\ IsFiniteSet(Ring)
      BY FS_Interval, SizesAssumption DEF Slots, Ring
    <3>3. IsFiniteSet((Slots \X Ring) \X Buffer)
      BY <3>2, BufferFinite, FS_Product
    <3>4. QED BY <3>1, <3>3, FS_Subset, FS_CardinalityType
  <2>2. QED BY <1>1, <2>1
<1>5. TypeOK' BY <1>1, <1>2, <1>3, <1>4, BroadcastedType DEF Destroy, hipVars
<1>6. WellFormed'
  <2>1. \A k \in Slots : reg'[k].token = reg[k].token /\ reg'[k].owner = reg[k].owner
                         /\ (reg'[k].active => reg[k].active)
    BY <1>1 DEF Registration
  <2>2. waiter' = Broadcasted /\ UNCHANGED <<job, pc, probing>> BY <1>1 DEF Destroy, hipVars
  <2>3. QED BY <2>1, <2>2, BroadcastedKeeps, WellFormedKept
<1>7. QED BY <1>5, <1>6

LEMMA SnapshotType == ASSUME TypeInv, NEW c \in Clients, Snapshot(c) PROVE TypeInv'
<1> USE DEF TypeInv, TypeOK
<1> DEFINE mapped == {k \in Slots : reg[k].active /\ reg[k].mapped}
           dead == {k \in mapped : ~Retainable(reg[k].owner)}
           before == {k \in mapped : \A d \in dead : k < d}
           taken == {BufferOf(k) : k \in before}
<1>1. taken \in SUBSET Buffer BY BufferOfType
<1>2. /\ refs' = Retaining(taken)
      /\ \/ snap' = [snap EXCEPT ![c] = taken] /\ UNCHANGED drops
         \/ drops' = Dropping(taken) /\ UNCHANGED snap
      /\ UNCHANGED <<reg, frames, nextToken, app, life, waiter, hipVars>>
  BY DEF Snapshot
<1> HIDE DEF taken
<1>3. TypeOK' BY <1>1, <1>2, RetainingType, DroppingType DEF hipVars
<1>4. WellFormed' BY <1>2 DEF hipVars, WellFormed, HipFormed
<1>5. QED BY <1>3, <1>4

LEMMA DropSnapshotType == ASSUME TypeInv, NEW c \in Clients, DropSnapshot(c) PROVE TypeInv'
<1> USE DEF TypeInv, TypeOK
<1>1. drops' \in [Owners -> Nat] BY DroppingType DEF DropSnapshot
<1>2. TypeOK' BY <1>1 DEF DropSnapshot, ownerVars, hipVars
<1>3. WellFormed' BY DEF DropSnapshot, hipVars, WellFormed, HipFormed
<1>4. QED BY <1>2, <1>3

LEMMA ClaimQueueType ==
  ASSUME TypeInv, NEW c \in Clients, NEW q \in Queues, ClaimQueue(c, q)
  PROVE  TypeInv'
<1> USE DEF TypeInv, TypeOK
<1>1. \A k \in Slots : [reg[k] EXCEPT !.queue = q] \in Registration BY DEF Registration
<1>2. reg' \in [Slots -> Registration] BY <1>1 DEF ClaimQueue
<1>3. \A k \in Slots : reg'[k].token = reg[k].token /\ reg'[k].owner = reg[k].owner
                       /\ reg'[k].active = reg[k].active
  BY DEF ClaimQueue, Registration
<1>4. TypeOK' BY <1>2 DEF ClaimQueue, ownerVars, hipVars
<1>5. WellFormed' BY <1>3 DEF ClaimQueue, hipVars, WellFormed, HipFormed
<1>6. QED BY <1>4, <1>5

LEMMA PublishType ==
  ASSUME TypeInv, NEW c \in Clients, NEW t, NEW f \in Frames, Publish(c, t, f)
  PROVE  TypeInv'
<1> USE DEF TypeInv, TypeOK
<1>1. PICK k \in Found(t) : Obtainable(k, f) /\
        LET s == Obtained(k, f)
            entries == {j \in Slots : reg[j].active /\ BufferOf(j) \in snap[c]}
            dead == {j \in entries : ~Retainable(reg[j].owner)}
            before == {BufferOf(j) : j \in {j \in entries : \A d \in dead : j < d}}
        IN  \/ /\ frames' = Put(k, f, [s EXCEPT !.pins = snap[c], !.input = TRUE])
               /\ refs' = Retaining(snap[c])
               /\ waiter' = Broadcasted
               /\ UNCHANGED drops
            \/ /\ frames' = Put(k, f, s)
               /\ refs' = Retaining(before) /\ drops' = Dropping(before)
               /\ UNCHANGED waiter
            \/ /\ frames' = Put(k, f, s)
               /\ UNCHANGED <<refs, drops, waiter>>
  BY DEF Publish
<1> DEFINE s == Obtained(k, f)
           entries == {j \in Slots : reg[j].active /\ BufferOf(j) \in snap[c]}
           dead == {j \in entries : ~Retainable(reg[j].owner)}
           before == {BufferOf(j) : j \in {j \in entries : \A d \in dead : j < d}}
<1>2. k \in Slots BY FoundType
<1>3. s \in FrameState BY <1>2, ObtainedType
<1>4. [s EXCEPT !.pins = snap[c], !.input = TRUE] \in FrameState BY <1>3 DEF FrameState
<1>5. before \in SUBSET Buffer BY BufferOfType
<1>6. /\ frames' \in [Slots -> [Ring -> FrameState]]
      /\ refs' \in [Owners -> Int] /\ drops' \in [Owners -> Nat]
      /\ waiter' \in {waiter, Broadcasted}
  <2>1. /\ Put(k, f, s) \in [Slots -> [Ring -> FrameState]]
        /\ Put(k, f, [s EXCEPT !.pins = snap[c], !.input = TRUE]) \in [Slots -> [Ring -> FrameState]]
    BY <1>2, <1>3, <1>4, PutType
  <2>2. /\ Retaining(before) \in [Owners -> Int] /\ Retaining(snap[c]) \in [Owners -> Int]
        /\ Dropping(before) \in [Owners -> Nat]
    BY <1>5, RetainingType, DroppingType
  <2> HIDE DEF s, before
  <2>3. \/ /\ frames' = Put(k, f, [s EXCEPT !.pins = snap[c], !.input = TRUE])
           /\ refs' = Retaining(snap[c])
           /\ waiter' = Broadcasted
           /\ UNCHANGED drops
        \/ /\ frames' = Put(k, f, s)
           /\ refs' = Retaining(before) /\ drops' = Dropping(before)
           /\ UNCHANGED waiter
        \/ /\ frames' = Put(k, f, s)
           /\ UNCHANGED <<refs, drops, waiter>>
    BY <1>1 DEF s, before
  <2>4. QED BY <2>1, <2>2, <2>3
<1>7. TypeOK' BY <1>6, BroadcastedType DEF Publish, hipVars
<1>8. WellFormed'
  <2>1. UNCHANGED <<reg, job, pc, probing>> BY DEF Publish, hipVars
  <2>2. QED BY <1>6, <2>1, BroadcastedKeeps, WellFormedKept
<1>9. QED BY <1>7, <1>8

LEMMA ClientFailType ==
  ASSUME TypeInv, NEW t, NEW f \in Frames, ClientFail(t, f)
  PROVE  TypeInv'
<1>1. UNCHANGED <<reg, nextToken, refs, app, life, snap, job, pc, probing, gpu>>
  BY DEF ClientFail, ownerVars, hipVars
<1>2. /\ frames' \in [Slots -> [Ring -> FrameState]] /\ drops' \in [Owners -> Nat]
      /\ waiter' = Broadcasted
  BY FailFrameType DEF ClientFail
<1>3. TypeOK' BY <1>1, <1>2, BroadcastedType DEF TypeInv, TypeOK
<1>4. WellFormed' BY <1>1, <1>2, BroadcastedKeeps, WellFormedKept
<1>5. QED BY <1>3, <1>4 DEF TypeInv

LEMMA ConsumerSubmittedType ==
  ASSUME TypeInv, NEW t, NEW f \in Frames, ConsumerSubmitted(t, f)
  PROVE  TypeInv'
<1>1. UNCHANGED <<reg, nextToken, refs, app, life, drops, snap, waiter, job, pc, probing, gpu>>
  BY DEF ConsumerSubmitted, ownerVars, hipVars
<1>2. PICK k \in Found(t) : frames' = Put(k, f, [frames[k][Pos(f)] EXCEPT !.consumed = TRUE])
  BY DEF ConsumerSubmitted
<1>3. k \in Slots BY FoundType
<1>4. frames[k][Pos(f)] \in FrameState BY <1>3, PosInRing DEF TypeInv, TypeOK
<1>5. [frames[k][Pos(f)] EXCEPT !.consumed = TRUE] \in FrameState BY <1>4 DEF FrameState
<1>6. frames' \in [Slots -> [Ring -> FrameState]] BY <1>2, <1>3, <1>5, PutType DEF TypeInv, TypeOK
<1>7. TypeOK' BY <1>1, <1>6 DEF TypeInv, TypeOK
<1>8. WellFormed' BY <1>1, WellFormedKept
<1>9. QED BY <1>7, <1>8 DEF TypeInv

-----------------------------------------------------------------------------
\* The wait loop.

LEMMA CheckType ==
  ASSUME TypeInv, NEW t \in Threads, Check(t)
  PROVE  /\ frames' \in [Slots -> [Ring -> FrameState]]
         /\ waiter' \in [Threads -> Waiting]
         /\ \A u \in Threads : u # t => waiter'[u] = waiter[u]
         /\ waiter'[t].st # "no" => waiter'[t].frame = waiter[t].frame /\ Pending(waiter[t])
<1> DEFINE w == waiter[t]
<1>1. w.st # "no" /\ w \in Waiting /\ w.frame \in Frames
  BY DEF Check, TypeInv, TypeOK, WellFormed
<1>2. frames' \in [Slots -> [Ring -> FrameState]]
  <2>1. CASE \E k \in Found(w.token) : frames' = Put(k, w.frame, Obtained(k, w.frame))
    BY <2>1, <1>1, FoundType, ObtainedType, PutType DEF TypeInv, TypeOK
  <2>2. CASE UNCHANGED frames
    BY <2>2 DEF TypeInv, TypeOK
  <2>3. QED BY <2>1, <2>2 DEF Check
<1>3. waiter' = [waiter EXCEPT ![t] = IF Pending(w) THEN [w EXCEPT !.st = "sleep"] ELSE NotWaiting]
  BY DEF Check
<1>4. [w EXCEPT !.st = "sleep"] \in Waiting /\ [w EXCEPT !.st = "sleep"].frame = w.frame
  BY <1>1 DEF Waiting
<1>5. NotWaiting \in Waiting /\ NotWaiting.st = "no"
  BY SizesAssumption DEF NotWaiting, Waiting, Tokens
<1> HIDE DEF w
<1>6. waiter \in [Threads -> Waiting] BY DEF TypeInv, TypeOK
<1>7. QED BY <1>2, <1>3, <1>4, <1>5, <1>6 DEF w

LEMMA ExpireType ==
  ASSUME TypeInv, NEW t \in Threads, Expire(t)
  PROVE  /\ frames' \in [Slots -> [Ring -> FrameState]]
         /\ drops' \in [Owners -> Nat]
         /\ waiter' = [Broadcasted EXCEPT ![t] = NotWaiting]
         /\ waiter[t].st # "no"
<1> DEFINE w == waiter[t]
<1>1. w.st # "no" /\ w.frame \in Frames
  BY DEF Expire, TypeInv, TypeOK, WellFormed
<1>2. CASE \E k \in Found(w.token) :
              /\ frames' = Put(k, w.frame, Failed(frames[k][Pos(w.frame)]))
              /\ drops' = IF frames[k][Pos(w.frame)].owned THEN drops
                          ELSE Dropping(frames[k][Pos(w.frame)].pins)
  <2>1. PICK k \in Found(w.token) :
              /\ frames' = Put(k, w.frame, Failed(frames[k][Pos(w.frame)]))
              /\ drops' = IF frames[k][Pos(w.frame)].owned THEN drops
                          ELSE Dropping(frames[k][Pos(w.frame)].pins)
    BY <1>2
  <2>2. frames[k][Pos(w.frame)] \in FrameState
    BY <1>1, FoundType, PosInRing DEF TypeInv, TypeOK
  <2>3. frames[k][Pos(w.frame)].pins \in SUBSET Buffer BY <2>2 DEF FrameState
  <2>4. k \in Slots BY FoundType
  <2>5. frames' \in [Slots -> [Ring -> FrameState]]
    BY <1>1, <2>1, <2>2, <2>4, FailedType, PutType DEF TypeInv, TypeOK
  <2>6. drops' \in [Owners -> Nat] BY <2>1, <2>3, DroppingType DEF TypeInv, TypeOK
  <2>7. QED BY <1>1, <2>5, <2>6 DEF Expire
<1>3. CASE UNCHANGED <<frames, drops>>
  BY <1>1, <1>3 DEF Expire, TypeInv, TypeOK
<1>4. QED BY <1>2, <1>3 DEF Expire

LEMMA WaitOutputType ==
  ASSUME TypeInv, NEW c \in Clients, NEW t \in Tokens, NEW f \in Frames, WaitOutput(c, t, f)
  PROVE  TypeInv'
<1> DEFINE w == [st |-> "enter", token |-> t, frame |-> f, output |-> TRUE]
<1>1. w \in Waiting /\ w.frame = f BY DEF Waiting
<1>2. waiter' = [waiter EXCEPT ![c] = w] BY DEF WaitOutput, Enter
<1>3. UNCHANGED <<reg, frames, nextToken, refs, app, life, drops, snap, job, pc, probing, gpu>>
  BY DEF WaitOutput, ownerVars, hipVars
<1> HIDE DEF w
<1>4. TypeOK' BY <1>1, <1>2, <1>3 DEF TypeInv, TypeOK
<1>5. WellFormed'
  <2>1. \A h \in Hips : waiter'[h] = waiter[h]
    BY <1>2, ThreadsAssumption DEF Threads, TypeInv, TypeOK
  <2>2. \A u \in Threads : waiter'[u].st # "no" => waiter'[u].frame \in Frames
    BY <1>1, <1>2 DEF TypeInv, TypeOK, WellFormed
  <2>3. \A h \in Hips : HipFormed(h)' BY <1>3, <2>1 DEF TypeInv, WellFormed, HipFormed
  <2>4. QED BY <1>3, <2>2, <2>3 DEF TypeInv, WellFormed
<1>6. QED BY <1>4, <1>5 DEF TypeInv

LEMMA ClientCheckType == ASSUME TypeInv, NEW c \in Clients, ClientCheck(c) PROVE TypeInv'
<1>1. c \in Threads /\ Check(c) BY DEF Threads, ClientCheck
<1>2. UNCHANGED <<reg, nextToken, refs, app, life, drops, snap, job, pc, probing, gpu>>
  BY DEF ClientCheck, ownerVars, hipVars
<1>3. TypeOK' BY <1>1, <1>2, CheckType DEF TypeInv, TypeOK
<1>4. waiter[c].st # "no" BY <1>1 DEF Check
<1>5. \A t \in Threads : waiter'[t].st # "no" => waiter'[t].frame = waiter[t].frame /\ waiter[t].st # "no"
  BY <1>1, <1>4, CheckType
<1>6. \A h \in Hips : HipFormed(h)'
  BY <1>2, <1>5 DEF TypeInv, WellFormed, HipFormed, Threads
<1>7. WellFormed' BY <1>2, <1>5, <1>6 DEF TypeInv, WellFormed
<1>8. QED BY <1>3, <1>7 DEF TypeInv

LEMMA ClientExpireType == ASSUME TypeInv, NEW c \in Clients, ClientExpire(c) PROVE TypeInv'
<1>1. c \in Threads /\ Expire(c) BY DEF Threads, ClientExpire
<1>2. UNCHANGED <<reg, nextToken, refs, app, life, snap, job, pc, probing, gpu>>
  BY DEF ClientExpire, ownerVars, hipVars
<1>3. NotWaiting \in Waiting /\ NotWaiting.st = "no"
  BY SizesAssumption DEF NotWaiting, Waiting, Tokens
<1>4. Broadcasted \in [Threads -> Waiting] BY BroadcastedType DEF TypeInv, TypeOK
<1>5. waiter' \in [Threads -> Waiting] BY <1>1, <1>3, <1>4, ExpireType
<1>6. TypeOK' BY <1>1, <1>2, <1>5, ExpireType DEF TypeInv, TypeOK
<1>7. \A t \in Threads : waiter'[t].st # "no" => waiter'[t].frame = waiter[t].frame /\ waiter[t].st # "no"
  BY <1>1, <1>3, <1>4, ExpireType, BroadcastedKeeps
<1>8. \A h \in Hips : HipFormed(h)'
  BY <1>2, <1>7 DEF TypeInv, WellFormed, HipFormed, Threads
<1>9. WellFormed' BY <1>2, <1>7, <1>8 DEF TypeInv, WellFormed
<1>10. QED BY <1>6, <1>9 DEF TypeInv

-----------------------------------------------------------------------------
\* The HIP worker.

\* A step of h outside the wait loop that fails its job.
LEMMA FailJobStep ==
  ASSUME TypeInv, NEW h \in Hips, pc[h] \in {"run", "marker"}, NEW j \in Job, FailJob(h, j),
         j.token = job[h].token, j.frame = job[h].frame, j.active = job[h].active, j.slot = job[h].slot,
         pc' \in {pc, [pc EXCEPT ![h] = "run"]}, gpu' \in SUBSET Kernel,
         UNCHANGED <<reg, nextToken, ownerVars, snap, probing>>
  PROVE  TypeInv'
<1> DEFINE jj == [j EXCEPT !.error = TRUE]
<1>1. /\ HipFormed(h) /\ waiter[h].st = "no"
      /\ j.token # 0 => j.frame \in Frames
  BY DEF TypeInv, WellFormed, HipFormed
<1>2. jj \in Job /\ job' = [job EXCEPT ![h] = jj] BY <1>1, FailJobType DEF Job
<1>3. /\ frames' \in [Slots -> [Ring -> FrameState]] /\ drops' \in [Owners -> Nat]
      /\ waiter' \in {waiter, Broadcasted}
  BY <1>1, FailJobType
<1>4. jj.token = job[h].token /\ jj.frame = job[h].frame /\ jj.active = job[h].active /\ jj.slot = job[h].slot
  BY DEF Job
<1>5. h \in Threads BY DEF Threads
<1> HIDE DEF jj
<1>6. job' \in [Hips -> Job] /\ job'[h] = jj /\ \A g \in Hips \ {h} : job'[g] = job[g]
  BY <1>2 DEF TypeInv, TypeOK
<1>7. pc' \in [Hips -> {"run", "begin", "claim", "marker", "probe"}] /\ pc'[h] \in {pc[h], "run"}
      /\ \A g \in Hips \ {h} : pc'[g] = pc[g]
  BY DEF TypeInv, TypeOK
<1>8. TypeOK' BY <1>3, <1>6, <1>7, BroadcastedType DEF TypeInv, TypeOK, ownerVars
<1>9. HipFormed(h)'
  BY <1>1, <1>3, <1>4, <1>5, <1>6, <1>7, BroadcastedKeeps DEF HipFormed
<1>10. WellFormed'
  BY <1>1, <1>3, <1>5, <1>6, <1>7, <1>9, BroadcastedKeeps, WellFormedHip
<1>11. QED BY <1>8, <1>10 DEF TypeInv

\* A step of h that moves only its own thread-local state (and gpu).
LEMMA LocalStep ==
  ASSUME TypeInv, NEW h \in Hips, NEW j \in Job, NEW p \in {"run", "begin", "claim", "marker", "probe"},
         job' = [job EXCEPT ![h] = j], pc' = [pc EXCEPT ![h] = p], gpu' \in SUBSET Kernel,
         frames' \in [Slots -> [Ring -> FrameState]], pc[h] # "begin", p # "begin",
         j.token # 0 => j.frame \in Frames,
         j.active => j.token # 0 /\ j.slot \in Slots,
         p = "claim" => j.token # 0 /\ ~j.active, p = "marker" => j.active, p # "probe",
         UNCHANGED <<reg, nextToken, ownerVars, drops, snap, waiter, probing>>
  PROVE  TypeInv'
<1>1. waiter[h].st = "no" BY DEF TypeInv, WellFormed, HipFormed
<1>2. job' \in [Hips -> Job] /\ job'[h] = j /\ \A g \in Hips \ {h} : job'[g] = job[g]
  BY DEF TypeInv, TypeOK
<1>3. pc' \in [Hips -> {"run", "begin", "claim", "marker", "probe"}] /\ pc'[h] = p
      /\ \A g \in Hips \ {h} : pc'[g] = pc[g]
  BY DEF TypeInv, TypeOK
<1>4. TypeOK' BY <1>2, <1>3 DEF TypeInv, TypeOK, ownerVars
<1>5. HipFormed(h)' BY <1>1, <1>2, <1>3 DEF HipFormed
<1>6. WellFormed' BY <1>1, <1>2, <1>3, <1>5, WellFormedHip
<1>7. QED BY <1>4, <1>6 DEF TypeInv

\* What Complete leaves behind.
LEMMA CompleteStep ==
  ASSUME TypeInv, NEW h \in Hips, pc[h] \in {"run", "marker"}, job[h].active, Complete(h),
         pc' = [pc EXCEPT ![h] = "run"], gpu' \in SUBSET Kernel,
         UNCHANGED <<reg, nextToken, ownerVars, snap, probing>>
  PROVE  TypeInv'
<1> DEFINE j == job[h]
           s == frames[j.slot][Pos(j.frame)]
           bad == j.error \/ s.error \/ Found(j.token) = {} \/ ~s.input \/ s.output \/ s.consumed
           ss == [s EXCEPT !.error = @ \/ bad, !.output = @ \/ ~bad, !.owned = FALSE, !.pins = {}]
           jj == [j EXCEPT !.active = FALSE, !.slot = None, !.error = bad]
<1>1. /\ HipFormed(h) /\ waiter[h].st = "no" /\ j \in Job
      /\ j.token # 0 /\ j.frame \in Frames /\ j.slot \in Slots
  BY DEF TypeInv, TypeOK, WellFormed, HipFormed
<1>2. s \in FrameState BY <1>1, PosInRing DEF TypeInv, TypeOK
<1>3. pc' \in [Hips -> {"run", "begin", "claim", "marker", "probe"}] /\ pc'[h] = "run"
      /\ \A g \in Hips \ {h} : pc'[g] = pc[g]
  BY DEF TypeInv, TypeOK
<1>4. CASE UNCHANGED <<frames, drops, waiter, job>>
  <2>1. TypeOK' BY <1>3, <1>4 DEF TypeInv, TypeOK, ownerVars
  <2>2. HipFormed(h)' BY <1>1, <1>3, <1>4 DEF HipFormed
  <2>3. WellFormed' BY <1>1, <1>3, <1>4, <2>2, WellFormedHip
  <2>4. QED BY <2>1, <2>3 DEF TypeInv
<1>5. CASE /\ frames' = Put(j.slot, j.frame, ss) /\ drops' = Dropping(s.pins)
           /\ job' = [job EXCEPT ![h] = jj] /\ waiter' = Broadcasted
  <2>1. bad \in BOOLEAN OBVIOUS
  <2> HIDE DEF bad
  <2>2. ss \in FrameState BY <1>2, <2>1 DEF FrameState
  <2>3. jj \in Job /\ jj.token = j.token /\ jj.frame = j.frame /\ ~jj.active BY <1>1, <2>1 DEF Job
  <2>4. s.pins \in SUBSET Buffer BY <1>2 DEF FrameState
  <2> HIDE DEF ss, jj
  <2>5. frames' \in [Slots -> [Ring -> FrameState]]
    BY <1>1, <1>5, <2>2, PutType DEF TypeInv, TypeOK
  <2>6. drops' \in [Owners -> Nat] BY <1>5, <2>4, DroppingType DEF TypeInv, TypeOK
  <2>7. job' \in [Hips -> Job] /\ job'[h] = jj /\ \A g \in Hips \ {h} : job'[g] = job[g]
    BY <1>5, <2>3 DEF TypeInv, TypeOK
  <2>8. TypeOK' BY <1>3, <1>5, <2>5, <2>6, <2>7, BroadcastedType DEF TypeInv, TypeOK, ownerVars
  <2>9. HipFormed(h)'
    BY <1>1, <1>3, <1>5, <2>3, <2>7, BroadcastedKeeps DEF HipFormed, Threads
  <2>10. WellFormed'
    BY <1>1, <1>3, <1>5, <2>7, <2>9, BroadcastedKeeps, WellFormedHip DEF Threads
  <2>11. QED BY <2>8, <2>10 DEF TypeInv
<1>6. QED BY <1>4, <1>5 DEF Complete

LEMMA BeginJobType == ASSUME TypeInv, NEW h \in Hips, NEW f \in Frames, BeginJob(h, f) PROVE TypeInv'
<1>1. pc[h] = "run" /\ job[h] \in Job /\ HipFormed(h) /\ h \in Threads /\ waiter[h].st = "no"
  BY DEF BeginJob, TypeInv, TypeOK, WellFormed, HipFormed, Threads
<1>2. UNCHANGED <<reg, nextToken, ownerVars, refs, app, life, snap, probing, gpu>>
  BY DEF BeginJob, ownerVars
<1>3. CASE FailJob(h, job[h]) /\ UNCHANGED pc
  BY <1>1, <1>2, <1>3, FailJobStep DEF TypeInv, TypeOK
<1>4. ASSUME NEW k \in Slots, reg[k].active,
             job' = [job EXCEPT ![h] = [NoJob EXCEPT !.token = reg[k].token, !.frame = f]],
             Enter(h, reg[k].token, f, FALSE), pc' = [pc EXCEPT ![h] = "begin"],
             UNCHANGED <<frames, drops>>
      PROVE  TypeInv'
  <2> DEFINE j == [NoJob EXCEPT !.token = reg[k].token, !.frame = f]
             w == [st |-> "enter", token |-> reg[k].token, frame |-> f, output |-> FALSE]
  <2>1. reg[k].token \in Tokens /\ reg[k].token # 0
    BY <1>4 DEF TypeInv, TypeOK, WellFormed, Registration
  <2>2. j \in Job /\ j.token # 0 /\ j.frame \in Frames /\ ~j.active BY <2>1 DEF NoJob, Job
  <2>3. w \in Waiting /\ w.frame \in Frames BY <2>1 DEF Waiting
  <2>4. job' = [job EXCEPT ![h] = j] /\ waiter' = [waiter EXCEPT ![h] = w] BY <1>4 DEF Enter
  <2> HIDE DEF j, w
  <2>5. /\ job' \in [Hips -> Job] /\ job'[h] = j /\ \A g \in Hips \ {h} : job'[g] = job[g]
        /\ waiter' \in [Threads -> Waiting] /\ waiter'[h] = w
        /\ \A t \in Threads \ {h} : waiter'[t] = waiter[t]
        /\ pc' \in [Hips -> {"run", "begin", "claim", "marker", "probe"}] /\ pc'[h] = "begin"
        /\ \A g \in Hips \ {h} : pc'[g] = pc[g]
    BY <1>1, <1>4, <2>2, <2>3, <2>4 DEF TypeInv, TypeOK
  <2>6. TypeOK' BY <1>2, <1>4, <2>5 DEF TypeInv, TypeOK
  <2>7. HipFormed(h)' BY <2>2, <2>3, <2>5 DEF HipFormed
  <2>8. WellFormed' BY <1>2, <2>3, <2>5, <2>7, WellFormedHip
  <2>9. QED BY <2>6, <2>8 DEF TypeInv
<1>5. CASE /\ job' = [job EXCEPT ![h] = [NoJob EXCEPT !.error = TRUE, !.frame = f]]
           /\ UNCHANGED <<frames, drops, waiter, pc>>
  <2> DEFINE j == [NoJob EXCEPT !.error = TRUE, !.frame = f]
  <2>0. 0 \in Tokens BY SizesAssumption DEF Tokens
  <2>1. j \in Job /\ j.token = 0 /\ ~j.active BY <2>0 DEF NoJob, Job
  <2>2. pc' = [pc EXCEPT ![h] = "run"] BY <1>1, <1>5 DEF TypeInv, TypeOK
  <2>3. /\ frames' \in [Slots -> [Ring -> FrameState]] /\ gpu' \in SUBSET Kernel
        /\ UNCHANGED <<reg, nextToken, ownerVars, drops, snap, waiter, probing>>
    BY <1>2, <1>5 DEF TypeInv, TypeOK
  <2> HIDE DEF j
  <2>4. job' = [job EXCEPT ![h] = j] BY <1>5 DEF j
  <2>5. QED BY <1>1, <2>1, <2>2, <2>3, <2>4, LocalStep
<1>6. QED BY <1>3, <1>4, <1>5 DEF BeginJob

\* A step of h that leaves the wait loop or goes on waiting.
LEMMA HipCheckType == ASSUME TypeInv, NEW h \in Hips, HipCheck(h) PROVE TypeInv'
<1> DEFINE w == waiter[h]
           p == IF Ready(w) THEN "claim" ELSE IF Refused(w) THEN "run" ELSE pc[h]
           j == [job[h] EXCEPT !.error = Refused(w)]
<1>1. h \in Threads /\ Check(h) /\ job[h] \in Job /\ HipFormed(h)
  BY DEF Threads, HipCheck, TypeInv, TypeOK, WellFormed
<1>2. w.st # "no" /\ pc[h] = "begin" /\ job[h].token # 0 /\ ~job[h].active /\ job[h].frame \in Frames
  BY <1>1 DEF Check, HipFormed
<1>3. UNCHANGED <<reg, nextToken, ownerVars, refs, app, life, drops, snap, probing, gpu>>
  BY DEF HipCheck, ownerVars
<1>4. Refused(w) \in BOOLEAN BY DEF Refused
<1>5. j \in Job /\ j.token = job[h].token /\ j.frame = job[h].frame /\ j.active = job[h].active
  BY <1>1, <1>4 DEF Job
<1>6. job' = [job EXCEPT ![h] = j] /\ pc' = [pc EXCEPT ![h] = p] BY DEF HipCheck
<1>7. p \in {"claim", "run", "begin"} /\ (p # "begin" => ~Pending(w))
  BY <1>2 DEF Pending, Refused
<1>8. /\ frames' \in [Slots -> [Ring -> FrameState]] /\ waiter' \in [Threads -> Waiting]
      /\ \A u \in Threads \ {h} : waiter'[u] = waiter[u]
      /\ waiter'[h].st # "no" => waiter'[h].frame = w.frame /\ Pending(w)
  BY <1>1, CheckType
<1> HIDE DEF j, p
<1>9. /\ job' \in [Hips -> Job] /\ job'[h] = j /\ \A g \in Hips \ {h} : job'[g] = job[g]
      /\ pc' \in [Hips -> {"run", "begin", "claim", "marker", "probe"}] /\ pc'[h] = p
      /\ \A g \in Hips \ {h} : pc'[g] = pc[g]
  BY <1>5, <1>6, <1>7 DEF TypeInv, TypeOK
<1>10. TypeOK' BY <1>3, <1>8, <1>9 DEF TypeInv, TypeOK
<1>11. HipFormed(h)' BY <1>2, <1>5, <1>7, <1>8, <1>9 DEF HipFormed
<1>12. waiter'[h].st # "no" => waiter'[h].frame \in Frames
  BY <1>1, <1>2, <1>8 DEF TypeInv, WellFormed
<1>13. WellFormed' BY <1>3, <1>8, <1>9, <1>11, <1>12, WellFormedHip
<1>14. QED BY <1>10, <1>13 DEF TypeInv

LEMMA HipExpireType == ASSUME TypeInv, NEW h \in Hips, HipExpire(h) PROVE TypeInv'
<1> DEFINE j == [job[h] EXCEPT !.error = TRUE]
<1>1. h \in Threads /\ Expire(h) /\ job[h] \in Job /\ HipFormed(h)
  BY DEF Threads, HipExpire, TypeInv, TypeOK, WellFormed
<1>2. UNCHANGED <<reg, nextToken, ownerVars, refs, app, life, snap, probing, gpu>>
  BY DEF HipExpire, ownerVars
<1>3. waiter[h].st # "no" /\ pc[h] = "begin" /\ job[h].token # 0 /\ ~job[h].active
  BY <1>1, ExpireType DEF HipFormed
<1>4. j \in Job /\ j.token = job[h].token /\ j.frame = job[h].frame /\ j.active = job[h].active
  BY <1>1 DEF Job
<1>5. job' = [job EXCEPT ![h] = j] /\ pc' = [pc EXCEPT ![h] = "run"] BY DEF HipExpire
<1>6. NotWaiting \in Waiting /\ NotWaiting.st = "no"
  BY SizesAssumption DEF NotWaiting, Waiting, Tokens
<1>7. Broadcasted \in [Threads -> Waiting] BY BroadcastedType DEF TypeInv, TypeOK
<1>8. waiter' = [Broadcasted EXCEPT ![h] = NotWaiting] BY <1>1, ExpireType
<1>9. waiter' \in [Threads -> Waiting] /\ waiter'[h].st = "no"
      /\ \A u \in Threads \ {h} : waiter'[u] = Broadcasted[u]
  BY <1>1, <1>6, <1>7, <1>8
<1> HIDE DEF j
<1>10. /\ job' \in [Hips -> Job] /\ job'[h] = j /\ \A g \in Hips \ {h} : job'[g] = job[g]
       /\ pc' \in [Hips -> {"run", "begin", "claim", "marker", "probe"}] /\ pc'[h] = "run"
       /\ \A g \in Hips \ {h} : pc'[g] = pc[g]
  BY <1>4, <1>5 DEF TypeInv, TypeOK
<1>11. TypeOK' BY <1>1, <1>2, <1>9, <1>10, ExpireType DEF TypeInv, TypeOK
<1>12. HipFormed(h)' BY <1>1, <1>3, <1>4, <1>9, <1>10 DEF HipFormed
<1>13. WellFormed' BY <1>2, <1>9, <1>10, <1>12, BroadcastedKeeps, WellFormedHip
<1>14. QED BY <1>11, <1>13 DEF TypeInv

LEMMA ClaimType == ASSUME TypeInv, NEW h \in Hips, Claim(h) PROVE TypeInv'
<1>1. /\ pc[h] = "claim" /\ pc' = [pc EXCEPT ![h] = "run"] /\ gpu' \in SUBSET Kernel
      /\ UNCHANGED <<reg, nextToken, ownerVars, drops, snap, waiter, probing>>
  BY DEF Claim, TypeInv, TypeOK
<1>2. job[h] \in Job /\ job[h].token # 0 /\ job[h].frame \in Frames /\ ~job[h].active
  BY <1>1 DEF TypeInv, TypeOK, WellFormed, HipFormed
<1>3. ASSUME NEW k \in Slots,
             frames' = Put(k, job[h].frame, [frames[k][Pos(job[h].frame)] EXCEPT !.owned = TRUE]),
             job' = [job EXCEPT ![h].active = TRUE, ![h].slot = k]
      PROVE  TypeInv'
  <2> DEFINE j == [job[h] EXCEPT !.active = TRUE, !.slot = k]
             s == frames[k][Pos(job[h].frame)]
  <2>1. j \in Job /\ j.token # 0 /\ j.frame \in Frames /\ j.slot \in Slots BY <1>2 DEF Job
  <2>2. job' = [job EXCEPT ![h] = j]
    <3>1. job' = [job EXCEPT ![h].active = TRUE, ![h].slot = k] BY <1>3
    <3>2. QED BY <3>1, <1>2 DEF TypeInv, TypeOK, Job
  <2>3. s \in FrameState BY <1>2, PosInRing DEF TypeInv, TypeOK
  <2>4. [s EXCEPT !.owned = TRUE] \in FrameState BY <2>3 DEF FrameState
  <2>5. frames' \in [Slots -> [Ring -> FrameState]]
    BY <1>2, <1>3, <2>4, PutType DEF TypeInv, TypeOK
  <2> HIDE DEF j
  <2>6. QED BY <1>1, <2>1, <2>2, <2>5, LocalStep
<1>4. CASE job' = [job EXCEPT ![h].error = TRUE] /\ UNCHANGED frames
  <2> DEFINE j == [job[h] EXCEPT !.error = TRUE]
  <2>1. j \in Job /\ j.frame \in Frames /\ ~j.active BY <1>2 DEF Job
  <2>2. job' = [job EXCEPT ![h] = j] /\ frames' \in [Slots -> [Ring -> FrameState]]
    BY <1>4 DEF TypeInv, TypeOK
  <2> HIDE DEF j
  <2>3. QED BY <1>1, <2>1, <2>2, LocalStep
<1>5. QED
  <2> DEFINE claimable == {k \in Found(job[h].token) : Holds(k, job[h].frame)
                                                       /\ Claimable(frames[k][Pos(job[h].frame)])}
  <2>1. claimable \subseteq Slots BY FoundType
  <2>2. \/ \E k \in claimable :
              /\ frames' = Put(k, job[h].frame, [frames[k][Pos(job[h].frame)] EXCEPT !.owned = TRUE])
              /\ job' = [job EXCEPT ![h].active = TRUE, ![h].slot = k]
        \/ job' = [job EXCEPT ![h].error = TRUE] /\ UNCHANGED frames
    BY DEF Claim
  <2> HIDE DEF claimable
  <2>3. QED BY <1>3, <1>4, <2>1, <2>2

LEMMA KernelType ==
  ASSUME TypeInv, NEW h \in Hips, NEW x \in {"marker", "work"}
  PROVE  /\ gpu \cup {KernelOf(h, x)} \in SUBSET Kernel
         /\ \A S : (gpu \ WorkOf(h, S)) \cup {KernelOf(h, x)} \in SUBSET Kernel
         /\ \A S : gpu \ WorkOf(h, S) \in SUBSET Kernel
<1>1. job[h].token \in Tokens /\ job[h].frame \in Frames \cup {None}
  BY DEF TypeInv, TypeOK, Job
<1>2. KernelOf(h, x) \in Kernel BY <1>1 DEF KernelOf, Kernel
<1>3. gpu \in SUBSET Kernel BY DEF TypeInv, TypeOK
<1>4. QED BY <1>2, <1>3

LEMMA LaunchType ==
  ASSUME TypeInv, NEW h \in Hips, NEW import \in BOOLEAN, NEW stream \in LaunchStreams,
         Launch(h, import, stream)
  PROVE  TypeInv'
<1> DEFINE j == job[h]
           switches == j.bound = None /\ import /\ stream # "marker"
           routed == IF j.bound = None /\ import THEN [j EXCEPT !.bound = stream] ELSE j
           left == IF switches THEN gpu \ WorkOf(h, {"marker"}) ELSE gpu
<1>1. stream \in {"marker", "work"} BY StreamsAssumption DEF LaunchStreams
<1>2. pc[h] = "run" /\ j.active /\ UNCHANGED <<reg, nextToken, ownerVars, snap, pc, probing>>
  BY DEF Launch
<1>3. j \in Job /\ HipFormed(h) BY DEF TypeInv, TypeOK, WellFormed
<1>4. /\ routed \in Job /\ routed.token = j.token /\ routed.frame = j.frame
      /\ routed.active = j.active /\ routed.slot = j.slot
  BY <1>1, <1>3 DEF Job
<1>5. left \in SUBSET Kernel /\ left \cup {KernelOf(h, stream)} \in SUBSET Kernel
  BY <1>1, KernelType DEF TypeInv, TypeOK
<1>6. \/ FailJob(h, j) /\ UNCHANGED gpu
      \/ FailJob(h, routed) /\ gpu' = left
      \/ /\ job' = [job EXCEPT ![h] = routed] /\ gpu' = left \cup {KernelOf(h, stream)}
         /\ UNCHANGED <<frames, drops, waiter>>
  BY DEF Launch
<1> HIDE DEF routed, left, switches
<1>7. CASE FailJob(h, j) /\ UNCHANGED gpu
  BY <1>2, <1>3, <1>7, FailJobStep DEF TypeInv, TypeOK
<1>8. CASE FailJob(h, routed) /\ gpu' = left
  <2>1. gpu' \in SUBSET Kernel BY <1>5, <1>8
  <2>2. pc' \in {pc, [pc EXCEPT ![h] = "run"]} BY <1>2
  <2>3. QED BY <1>2, <1>4, <1>8, <2>1, <2>2, FailJobStep
<1>9. CASE /\ job' = [job EXCEPT ![h] = routed] /\ gpu' = left \cup {KernelOf(h, stream)}
           /\ UNCHANGED <<frames, drops, waiter>>
  <2>1. pc' = [pc EXCEPT ![h] = "run"] BY <1>2 DEF TypeInv, TypeOK
  <2>2. frames' \in [Slots -> [Ring -> FrameState]] BY <1>9 DEF TypeInv, TypeOK
  <2>3. gpu' \in SUBSET Kernel BY <1>5, <1>9
  <2>4. QED BY <1>2, <1>3, <1>4, <1>9, <2>1, <2>2, <2>3, LocalStep DEF HipFormed
<1>10. QED BY <1>6, <1>7, <1>8, <1>9

LEMMA SetFlagType ==
  ASSUME TypeInv, NEW h \in Hips, NEW exact \in BOOLEAN, SetFlag(h, exact)
  PROVE  TypeInv'
<1> DEFINE j == [job[h] EXCEPT !.sealed = TRUE]
<1>1. pc[h] = "run" /\ UNCHANGED <<reg, nextToken, ownerVars, snap, probing, gpu>>
  BY DEF SetFlag
<1>2. job[h] \in Job /\ HipFormed(h) /\ gpu' \in SUBSET Kernel
  BY <1>1 DEF TypeInv, TypeOK, WellFormed
<1>3. CASE FailJob(h, job[h]) /\ UNCHANGED pc
  BY <1>1, <1>2, <1>3, FailJobStep
<1>4. CASE /\ job[h].active /\ job' = [job EXCEPT ![h].sealed = TRUE]
           /\ pc' = [pc EXCEPT ![h] = "marker"] /\ UNCHANGED <<frames, drops, waiter>>
  <2>1. j \in Job /\ j.token = job[h].token /\ j.frame = job[h].frame /\ j.active = job[h].active
        /\ j.slot = job[h].slot
    BY <1>2 DEF Job
  <2>2. job' = [job EXCEPT ![h] = j] /\ frames' \in [Slots -> [Ring -> FrameState]]
    BY <1>4 DEF TypeInv, TypeOK
  <2> HIDE DEF j
  <2>3. QED BY <1>1, <1>2, <1>4, <2>1, <2>2, LocalStep DEF HipFormed
<1>5. QED BY <1>3, <1>4 DEF SetFlag

LEMMA FinishMarkerType == ASSUME TypeInv, NEW h \in Hips, FinishMarker(h) PROVE TypeInv'
<1>1. pc[h] = "marker" /\ pc' = [pc EXCEPT ![h] = "run"]
      /\ UNCHANGED <<reg, nextToken, ownerVars, snap, probing>>
  BY DEF FinishMarker
<1>2. job[h] \in Job /\ job[h].active
  BY <1>1 DEF TypeInv, TypeOK, WellFormed, HipFormed
<1>3. gpu' \in SUBSET Kernel /\ (FailJob(h, job[h]) \/ Complete(h))
  BY KernelType DEF FinishMarker, TypeInv, TypeOK
<1>4. QED BY <1>1, <1>2, <1>3, FailJobStep, CompleteStep

LEMMA StreamSyncType ==
  ASSUME TypeInv, NEW h \in Hips, NEW stream \in LaunchStreams, StreamSync(h, stream)
  PROVE  TypeInv'
<1>1. pc[h] = "run" /\ UNCHANGED <<reg, nextToken, ownerVars, snap, pc, probing>>
  BY DEF StreamSync
<1>2. job[h] \in Job /\ HipFormed(h) /\ pc' = [pc EXCEPT ![h] = "run"]
  BY <1>1 DEF TypeInv, TypeOK, WellFormed
<1>3. gpu' \in SUBSET Kernel
  BY KernelType DEF StreamSync, TypeInv, TypeOK
<1>4. CASE FailJob(h, job[h])
  BY <1>1, <1>2, <1>3, <1>4, FailJobStep
<1>5. CASE job[h].active /\ Complete(h)
  BY <1>1, <1>2, <1>3, <1>5, CompleteStep
<1>6. CASE UNCHANGED <<frames, drops, waiter, job>>
  <2>1. job' = [job EXCEPT ![h] = job[h]] /\ frames' \in [Slots -> [Ring -> FrameState]]
    BY <1>6 DEF TypeInv, TypeOK
  <2>2. QED BY <1>1, <1>2, <1>3, <1>6, <2>1, LocalStep DEF HipFormed
<1>7. QED BY <1>4, <1>5, <1>6 DEF StreamSync

LEMMA DeviceSyncType == ASSUME TypeInv, NEW h \in Hips, DeviceSync(h) PROVE TypeInv'
<1>1. pc[h] = "run" /\ UNCHANGED <<reg, nextToken, ownerVars, snap, pc, probing>>
  BY DEF DeviceSync
<1>2. job[h] \in Job /\ HipFormed(h) /\ pc' = [pc EXCEPT ![h] = "run"] /\ gpu' \in SUBSET Kernel
  BY <1>1 DEF TypeInv, TypeOK, WellFormed, DeviceSync
<1>3. CASE FailJob(h, job[h])
  BY <1>1, <1>2, <1>3, FailJobStep
<1>4. CASE job[h].active /\ Complete(h)
  BY <1>1, <1>2, <1>4, CompleteStep
<1>5. CASE UNCHANGED <<frames, drops, waiter, job>>
  <2>1. job' = [job EXCEPT ![h] = job[h]] /\ frames' \in [Slots -> [Ring -> FrameState]]
    BY <1>5 DEF TypeInv, TypeOK
  <2>2. QED BY <1>1, <1>2, <1>5, <2>1, LocalStep DEF HipFormed
<1>6. QED BY <1>3, <1>4, <1>5 DEF DeviceSync

LEMMA ThreadExitType == ASSUME TypeInv, NEW h \in Hips, ThreadExit(h) PROVE TypeInv'
<1>1. /\ pc[h] = "run" /\ job' = [job EXCEPT ![h] = NoJob] /\ probing' = [probing EXCEPT ![h] = NoProbe]
      /\ UNCHANGED <<reg, frames, nextToken, ownerVars, refs, app, life, drops, snap, waiter, pc, gpu>>
  BY DEF ThreadExit, ownerVars
<1>2. 0 \in Tokens BY SizesAssumption DEF Tokens
<1>3. NoJob \in Job /\ NoJob.token = 0 /\ ~NoJob.active /\ NoProbe \in Probe
  BY <1>2 DEF NoJob, Job, NoProbe, Probe
<1>4. /\ job' \in [Hips -> Job] /\ job'[h] = NoJob /\ \A g \in Hips \ {h} : job'[g] = job[g]
      /\ probing' \in [Hips -> Probe] /\ \A g \in Hips \ {h} : probing'[g] = probing[g]
  BY <1>1, <1>3 DEF TypeInv, TypeOK
<1>5. TypeOK' BY <1>1, <1>4 DEF TypeInv, TypeOK
<1>6. HipFormed(h)' BY <1>1, <1>3, <1>4 DEF TypeInv, WellFormed, HipFormed
<1>7. WellFormed'
  <2>1. waiter'[h].st # "no" => waiter'[h].frame \in Frames
    BY <1>1 DEF TypeInv, WellFormed, Threads
  <2>2. QED BY <1>1, <1>4, <1>6, <2>1, WellFormedHip
<1>8. QED BY <1>5, <1>7 DEF TypeInv

LEMMA ProbeBeginType ==
  ASSUME TypeInv, NEW h \in Hips, NEW kind \in ProbeKinds, NEW k \in Slots, ProbeBegin(h, kind, k)
  PROVE  TypeInv'
<1> DEFINE r == [reg[k] EXCEPT !.probe = TRUE]
           p == [probing[h] EXCEPT !.kind = kind, !.slot = k]
<1>1. /\ pc[h] = "run" /\ ~job[h].active /\ reg[k].active /\ refs' = Retaining({BufferOf(k)})
      /\ pc' = [pc EXCEPT ![h] = "probe"] /\ reg' = [reg EXCEPT ![k].probe = TRUE]
      /\ probing' = [probing EXCEPT ![h].kind = kind, ![h].slot = k]
      /\ UNCHANGED <<frames, nextToken, app, life, drops, snap, waiter, job, gpu>>
  BY DEF ProbeBegin
<1>2. reg[k] \in Registration /\ reg[k].token # 0 /\ probing[h] \in Probe /\ HipFormed(h)
  BY <1>1 DEF TypeInv, TypeOK, WellFormed
<1>3. /\ r \in Registration /\ r.token = reg[k].token /\ r.owner = reg[k].owner
      /\ r.active = reg[k].active
  BY <1>2 DEF Registration
<1>4. p \in Probe /\ p.slot = k
  <2>1. kind \in 0..3 BY ProbesAssumption
  <2>2. QED BY <1>2, <2>1 DEF Probe
<1>5. reg' = [reg EXCEPT ![k] = r] BY <1>1
<1>6. probing' = [probing EXCEPT ![h] = p] BY <1>1, <1>2 DEF TypeInv, TypeOK, Probe
<1> HIDE DEF r, p
<1>7. /\ reg' \in [Slots -> Registration]
      /\ \A i \in Slots : /\ reg'[i].token = reg[i].token /\ reg'[i].owner = reg[i].owner
                          /\ reg'[i].active = reg[i].active
  BY <1>3, <1>5 DEF TypeInv, TypeOK
<1>8. /\ probing' \in [Hips -> Probe] /\ probing'[h] = p
      /\ \A g \in Hips \ {h} : probing'[g] = probing[g]
  BY <1>4, <1>6 DEF TypeInv, TypeOK
<1>9. /\ pc' \in [Hips -> {"run", "begin", "claim", "marker", "probe"}] /\ pc'[h] = "probe"
      /\ \A g \in Hips \ {h} : pc'[g] = pc[g]
  BY <1>1 DEF TypeInv, TypeOK
<1>10. refs' \in [Owners -> Int]
  BY <1>1, BufferOfType, RetainingType, {BufferOf(k)} \in SUBSET Buffer DEF TypeInv, TypeOK
<1>11. TypeOK' BY <1>1, <1>7, <1>8, <1>9, <1>10 DEF TypeInv, TypeOK
<1>12. HipFormed(h)' BY <1>1, <1>2, <1>4, <1>7, <1>8, <1>9 DEF HipFormed
<1>13. WellFormed'
  <2>1. waiter'[h].st # "no" => waiter'[h].frame \in Frames
    BY <1>1 DEF TypeInv, WellFormed, Threads
  <2>2. QED BY <1>1, <1>7, <1>8, <1>9, <1>12, <2>1, WellFormedHip
<1>14. QED BY <1>11, <1>13 DEF TypeInv

LEMMA ProbeEndType ==
  ASSUME TypeInv, NEW h \in Hips, NEW launched \in BOOLEAN, NEW synced \in BOOLEAN,
         ProbeEnd(h, launched, synced)
  PROVE  TypeInv'
<1> DEFINE k == probing[h].slot
           r == [reg[k] EXCEPT !.probe = FALSE]
           next == IF launched /\ synced /\ probing[h].kind # 3 THEN probing[h].kind ELSE 0
           token == IF launched /\ synced THEN reg[k].token ELSE probing[h].token
           p == [phase |-> next, token |-> token, kind |-> 0, slot |-> None]
<1>1. /\ pc[h] = "probe" /\ pc' = [pc EXCEPT ![h] = "run"]
      /\ \/ reg' = [reg EXCEPT ![k].probe = FALSE] /\ drops' = Dropping({BufferOf(k)})
         \/ UNCHANGED <<reg, drops>>
      /\ probing' = [probing EXCEPT ![h] = p]
      /\ UNCHANGED <<frames, nextToken, ownerVars, refs, app, life, snap, waiter, job, gpu>>
  BY DEF ProbeEnd, ownerVars
<1>2. k \in Slots /\ reg[k] \in Registration /\ reg[k].token # 0 /\ probing[h] \in Probe /\ HipFormed(h)
  BY <1>1 DEF TypeInv, TypeOK, WellFormed, HipFormed
<1>3. /\ r \in Registration /\ r.token = reg[k].token /\ r.owner = reg[k].owner
      /\ r.active = reg[k].active
  BY <1>2 DEF Registration
<1>4. p \in Probe
  <2>1. next \in 0..3 /\ token \in Tokens BY <1>2 DEF Probe, Registration
  <2> HIDE DEF next, token
  <2>2. QED BY <2>1 DEF Probe
<1>5. /\ reg' \in [Slots -> Registration]
      /\ \A i \in Slots : /\ reg'[i].token = reg[i].token /\ reg'[i].owner = reg[i].owner
                          /\ reg'[i].active = reg[i].active
  <2>1. CASE reg' = [reg EXCEPT ![k] = r] BY <1>2, <1>3, <2>1 DEF TypeInv, TypeOK
  <2>2. CASE UNCHANGED reg BY <2>2 DEF TypeInv, TypeOK
  <2>3. QED BY <1>1, <2>1, <2>2
<1>6. drops' \in [Owners -> Nat]
  BY <1>1, <1>2, BufferOfType, DroppingType, {BufferOf(k)} \in SUBSET Buffer DEF TypeInv, TypeOK
<1> HIDE DEF p, k
<1>7. /\ probing' \in [Hips -> Probe] /\ probing'[h] = p
      /\ \A g \in Hips \ {h} : probing'[g] = probing[g]
  BY <1>1, <1>4 DEF TypeInv, TypeOK
<1>8. /\ pc' \in [Hips -> {"run", "begin", "claim", "marker", "probe"}] /\ pc'[h] = "run"
      /\ \A g \in Hips \ {h} : pc'[g] = pc[g]
  BY <1>1 DEF TypeInv, TypeOK
<1>9. TypeOK' BY <1>1, <1>5, <1>6, <1>7, <1>8 DEF TypeInv, TypeOK
<1>10. HipFormed(h)' BY <1>1, <1>2, <1>8 DEF HipFormed
<1>11. WellFormed'
  <2>1. waiter'[h].st # "no" => waiter'[h].frame \in Frames
    BY <1>1 DEF TypeInv, WellFormed, Threads
  <2>2. QED BY <1>1, <1>5, <1>7, <1>8, <1>10, <2>1, WellFormedHip
<1>12. QED BY <1>9, <1>11 DEF TypeInv

-----------------------------------------------------------------------------
LEMMA TypeStep == TypeInv /\ [Next]_vars => TypeInv'
<1> SUFFICES ASSUME TypeInv, [Next]_vars PROVE TypeInv'
  OBVIOUS
<1>1. CASE Lifetime
  BY <1>1, RegisterType, ReleaseType, AppReleaseType, DestroyType, MapType DEF Lifetime
<1>2. CASE AnyClient
  BY <1>2, ClientFailType, ConsumerSubmittedType DEF AnyClient
<1>3. ASSUME NEW c \in Clients, ClientStep(c) PROVE TypeInv'
  BY <1>3, KnownTokenType, SnapshotType, DropSnapshotType, ClientCheckType, ClientExpireType,
     ClaimQueueType, PublishType, WaitOutputType DEF ClientStep
<1>4. ASSUME NEW h \in Hips, HipStep(h) PROVE TypeInv'
  BY <1>4, HipCheckType, HipExpireType, ClaimType, FinishMarkerType, DeviceSyncType, ThreadExitType,
     BeginJobType, StreamSyncType, LaunchType, SetFlagType, ProbeBeginType, ProbeEndType DEF HipStep
<1>5. CASE UNCHANGED vars
  <2>1. UNCHANGED <<reg, frames, nextToken, refs, app, life, drops, snap, waiter, job, pc, probing, gpu>>
    BY <1>5 DEF vars, ownerVars, hipVars
  <2>2. TypeOK' BY <2>1 DEF TypeInv, TypeOK
  <2>3. WellFormed' BY <2>1, WellFormedKept
  <2>4. QED BY <2>2, <2>3 DEF TypeInv
<1>6. QED BY <1>1, <1>2, <1>3, <1>4, <1>5 DEF Next

\* Every state the rendezvous reaches is well formed, whatever the number of
\* slots, the window, the owners, threads, streams and tokens: a waiting thread
\* or an active job always refers to a registration and a frame.
THEOREM WellFormedAlways == Spec => []TypeInv
<1>1. Init => TypeInv BY InitType
<1>2. TypeInv /\ [Next]_vars => TypeInv' BY TypeStep
<1>3. QED BY <1>1, <1>2, PTL DEF Spec

\* Type correctness; in particular no release is performed that was not owed.
THEOREM TypeCorrect == Spec => []TypeOK
<1>1. TypeInv => TypeOK BY DEF TypeInv
<1>2. QED BY <1>1, WellFormedAlways, PTL

-----------------------------------------------------------------------------
\* JobOwnsItsState is inductive relative to TypeInv: whatever is done to a frame
\* state that a job owns, short of completing that job, keeps what the job
\* relies on.

Kept(s, t) == /\ t.frame = s.frame /\ t.owned = s.owned /\ t.input = s.input
              /\ t.pins = s.pins /\ t.output = s.output /\ t.consumed = s.consumed

\* Every state owned by a running job is kept by the step.
OwnedKept == \A k \in Slots, i \in Ring :
               LET s == frames[k][i] IN s.owned /\ ~s.output => Kept(s, frames'[k][i])
TokensKept == \A k \in Slots : (\E i \in Ring : frames[k][i].owned) => reg'[k].token = reg[k].token
SameJob(g) == /\ job[g].active /\ job'[g].token = job[g].token
              /\ job'[g].frame = job[g].frame /\ job'[g].slot = job[g].slot

LEMMA JobsKept ==
  ASSUME TypeInv, JobOwnsItsState, OwnedKept, TokensKept,
         \A g \in Hips : job'[g].active => SameJob(g)
  PROVE  JobOwnsItsState'
<1>1. ASSUME NEW g \in Hips, job'[g].active
      PROVE  LET j == job'[g]
                 s == frames'[j.slot][Pos(j.frame)]
             IN  /\ j.slot \in Slots /\ reg'[j.slot].token = j.token
                 /\ s.frame = j.frame /\ s.owned /\ s.input /\ s.pins # {} /\ ~s.output /\ ~s.consumed
  <2>1. SameJob(g) BY <1>1
  <2>2. job[g].slot \in Slots /\ Pos(job[g].frame) \in Ring
    BY <2>1, PosInRing DEF SameJob, TypeInv, WellFormed, HipFormed
  <2>3. LET s == frames[job[g].slot][Pos(job[g].frame)]
        IN  /\ reg[job[g].slot].token = job[g].token /\ s.frame = job[g].frame
            /\ s.owned /\ s.input /\ s.pins # {} /\ ~s.output /\ ~s.consumed
    BY <2>1 DEF SameJob, JobOwnsItsState
  <2>4. QED BY <2>1, <2>2, <2>3 DEF SameJob, OwnedKept, TokensKept, Kept
<1>2. ASSUME NEW g \in Hips, NEW h \in Hips, g # h, job'[g].active, job'[h].active
      PROVE  <<job'[h].slot, Pos(job'[h].frame)>> # <<job'[g].slot, Pos(job'[g].frame)>>
  BY <1>2 DEF SameJob, JobOwnsItsState
<1>3. QED BY <1>1, <1>2 DEF JobOwnsItsState

LEMMA PutAt ==
  ASSUME TypeInv, NEW k \in Slots, NEW f \in Frames, NEW s
  PROVE  \A j \in Slots, i \in Ring :
           Put(k, f, s)[j][i] = IF j = k /\ i = Pos(f) THEN s ELSE frames[j][i]
  BY PosInRing DEF Put, TypeInv, TypeOK

\* nr_frame never recycles a state that a job owns.
LEMMA OwnedIsHeld ==
  ASSUME NEW k, NEW f, Obtainable(k, f), frames[k][Pos(f)].owned
  PROVE  Obtained(k, f) = frames[k][Pos(f)]
  BY DEF Obtainable, Obtained, Recyclable

LEMMA FailedKept == ASSUME NEW s \in FrameState, s.owned PROVE Kept(s, Failed(s))
  BY DEF FrameState, Failed, Kept

\* Replacing one state by one that keeps an owned state.
LEMMA PutKept ==
  ASSUME TypeInv, NEW k \in Slots, NEW f \in Frames, NEW s, frames' = Put(k, f, s),
         frames[k][Pos(f)].owned /\ ~frames[k][Pos(f)].output => Kept(frames[k][Pos(f)], s)
  PROVE  OwnedKept
<1>1. ASSUME NEW j \in Slots, NEW i \in Ring, frames[j][i].owned, ~frames[j][i].output
      PROVE  Kept(frames[j][i], frames'[j][i])
  <2>1. frames'[j][i] = IF j = k /\ i = Pos(f) THEN s ELSE frames[j][i] BY PutAt
  <2>2. CASE j = k /\ i = Pos(f) BY <1>1, <2>1, <2>2
  <2>3. CASE ~(j = k /\ i = Pos(f)) BY <2>1, <2>3 DEF Kept
  <2>4. QED BY <2>2, <2>3
<1>2. QED BY <1>1 DEF OwnedKept

LEMMA UnchangedKept == UNCHANGED frames => OwnedKept
  BY DEF OwnedKept, Kept

LEMMA FailFrameKept == ASSUME TypeInv, NEW t, NEW f \in Frames, FailFrame(t, f) PROVE OwnedKept
<1>1. CASE \E k \in Found(t) : Obtainable(k, f)
  <2>1. PICK k \in Found(t) : Obtainable(k, f) /\ frames' = Put(k, f, Failed(Obtained(k, f)))
    BY <1>1 DEF FailFrame
  <2>2. k \in Slots /\ frames[k][Pos(f)] \in FrameState
    BY FoundType, PosInRing DEF TypeInv, TypeOK
  <2>3. QED BY <2>1, <2>2, OwnedIsHeld, FailedKept, PutKept
<1>2. CASE UNCHANGED frames BY <1>2, UnchangedKept
<1>3. QED BY <1>1, <1>2 DEF FailFrame

LEMMA CheckKept == ASSUME TypeInv, NEW t \in Threads, Check(t) PROVE OwnedKept
<1> DEFINE w == waiter[t]
<1>1. w.frame \in Frames BY DEF Check, TypeInv, WellFormed
<1>2. CASE \E k \in Found(w.token) : Obtainable(k, w.frame)
                                     /\ frames' = Put(k, w.frame, Obtained(k, w.frame))
  <2>1. PICK k \in Found(w.token) : Obtainable(k, w.frame)
                                   /\ frames' = Put(k, w.frame, Obtained(k, w.frame))
    BY <1>2
  <2>2. k \in Slots BY FoundType
  <2>3. frames[k][Pos(w.frame)].owned => Obtained(k, w.frame) = frames[k][Pos(w.frame)]
    BY <2>1, OwnedIsHeld
  <2>4. QED BY <1>1, <2>1, <2>2, <2>3, PutKept DEF Kept
<1>3. CASE UNCHANGED frames BY <1>3, UnchangedKept
<1>4. QED BY <1>2, <1>3 DEF Check

LEMMA ExpireKept == ASSUME TypeInv, NEW t \in Threads, Expire(t) PROVE OwnedKept
<1> DEFINE w == waiter[t]
<1>1. w.frame \in Frames BY DEF Expire, TypeInv, WellFormed
<1>2. CASE \E k \in Found(w.token) : frames' = Put(k, w.frame, Failed(frames[k][Pos(w.frame)]))
  <2>1. PICK k \in Found(w.token) : frames' = Put(k, w.frame, Failed(frames[k][Pos(w.frame)]))
    BY <1>2
  <2>2. k \in Slots /\ frames[k][Pos(w.frame)] \in FrameState
    BY <1>1, FoundType, PosInRing DEF TypeInv, TypeOK
  <2>3. QED BY <1>1, <2>1, <2>2, FailedKept, PutKept
<1>3. CASE UNCHANGED frames BY <1>3, UnchangedKept
<1>4. QED BY <1>2, <1>3 DEF Expire

LEMMA PublishKept == ASSUME TypeInv, NEW c, NEW t, NEW f \in Frames, Publish(c, t, f) PROVE OwnedKept
<1>1. PICK k \in Found(t) : Obtainable(k, f) /\
        \/ frames' = Put(k, f, Obtained(k, f))
        \/ /\ ~Obtained(k, f).owned
           /\ frames' = Put(k, f, [Obtained(k, f) EXCEPT !.pins = snap[c], !.input = TRUE])
  BY DEF Publish
<1>2. k \in Slots BY FoundType
<1>3. frames[k][Pos(f)].owned => Obtained(k, f) = frames[k][Pos(f)]
  BY <1>1, OwnedIsHeld
<1>4. CASE frames' = Put(k, f, Obtained(k, f))
  BY <1>2, <1>3, <1>4, PutKept DEF Kept
<1>5. CASE /\ ~Obtained(k, f).owned
           /\ frames' = Put(k, f, [Obtained(k, f) EXCEPT !.pins = snap[c], !.input = TRUE])
  BY <1>2, <1>3, <1>5, PutKept
<1>6. QED BY <1>1, <1>4, <1>5

\* The steps that leave every job alone.
LEMMA LifetimeJobs == ASSUME TypeInv, JobOwnsItsState, Lifetime PROVE JobOwnsItsState'
<1>1. \A g \in Hips : job'[g].active => SameJob(g)
  BY DEF Lifetime, Register, Release, AppRelease, Destroy, Map, hipVars, SameJob
<1>2. ASSUME NEW o \in Owners, Register(o) PROVE JobOwnsItsState'
  <2>1. PICK k \in Slots : /\ ~Busy(k)
                           /\ reg' = [reg EXCEPT ![k] = [NoRegistration EXCEPT !.active = TRUE,
                                                         !.token = nextToken, !.owner = o]]
                           /\ frames' = [frames EXCEPT ![k] = [i \in Ring |-> FreshFrame(None)]]
    BY <1>2 DEF Register
  <2>2. \A i \in Ring : ~frames[k][i].owned BY <2>1 DEF Busy
  <2>3. \A j \in Slots : j # k => reg'[j] = reg[j] /\ frames'[j] = frames[j]
    BY <2>1 DEF TypeInv, TypeOK
  <2>4. OwnedKept BY <2>2, <2>3 DEF OwnedKept, Kept
  <2>5. TokensKept BY <2>2, <2>3 DEF TokensKept
  <2>6. QED BY <1>1, <2>4, <2>5, JobsKept
<1>3. ASSUME NEW o \in Owners, Destroy(o) PROVE JobOwnsItsState'
  <2>1. \A k \in Slots : reg'[k].token = reg[k].token
    BY <1>3 DEF Destroy, Retire, TypeInv, TypeOK, Registration
  <2>2. \A k \in Slots, i \in Ring : frames'[k][i] \in {frames[k][i], Failed(frames[k][i])}
    BY <1>3 DEF Destroy, Retire, TypeInv, TypeOK
  <2>3. \A k \in Slots, i \in Ring : frames[k][i] \in FrameState BY DEF TypeInv, TypeOK
  <2>4. OwnedKept
    <3>1. ASSUME NEW k \in Slots, NEW i \in Ring, frames[k][i].owned
          PROVE  Kept(frames[k][i], frames'[k][i])
      <4>1. Kept(frames[k][i], Failed(frames[k][i])) BY <2>3, <3>1, FailedKept
      <4>2. Kept(frames[k][i], frames[k][i]) BY DEF Kept
      <4>3. QED BY <2>2, <4>1, <4>2
    <3>2. QED BY <3>1 DEF OwnedKept
  <2>5. QED BY <1>1, <2>1, <2>4, JobsKept DEF TokensKept
<1>4. ASSUME NEW o \in Owners, Release(o) \/ AppRelease(o) PROVE JobOwnsItsState'
  BY <1>1, <1>4, UnchangedKept, JobsKept DEF Release, AppRelease, TokensKept
<1>5. ASSUME NEW k \in Slots, Map(k) PROVE JobOwnsItsState'
  <2>1. \A j \in Slots : reg'[j].token = reg[j].token BY <1>5 DEF Map, TypeInv, TypeOK, Registration
  <2>2. UNCHANGED frames BY <1>5 DEF Map
  <2>3. QED BY <1>1, <2>1, <2>2, UnchangedKept, JobsKept DEF TokensKept
<1>6. QED BY <1>2, <1>3, <1>4, <1>5 DEF Lifetime

LEMMA ClientJobs ==
  ASSUME TypeInv, JobOwnsItsState, AnyClient \/ \E c \in Clients : ClientStep(c)
  PROVE  JobOwnsItsState'
<1>1. UNCHANGED job /\ \A k \in Slots : reg'[k].token = reg[k].token
  <2>1. CASE AnyClient BY <2>1 DEF AnyClient, ClientFail, ConsumerSubmitted, hipVars
  <2>2. ASSUME NEW c \in Clients, NEW q \in Queues, ClaimQueue(c, q)
        PROVE  UNCHANGED job /\ \A k \in Slots : reg'[k].token = reg[k].token
    BY <2>2 DEF ClaimQueue, hipVars, TypeInv, TypeOK, Registration
  <2>3. ASSUME NEW c \in Clients, NEW t \in KnownTokens, NEW f \in Frames,
               Publish(c, t, f) \/ WaitOutput(c, t, f)
        PROVE  UNCHANGED <<job, reg>>
    BY <2>3 DEF Publish, WaitOutput, hipVars
  <2>4. ASSUME NEW c \in Clients,
               Snapshot(c) \/ DropSnapshot(c) \/ ClientCheck(c) \/ ClientExpire(c)
        PROVE  UNCHANGED <<job, reg>>
    BY <2>4 DEF Snapshot, DropSnapshot, ClientCheck, ClientExpire, hipVars
  <2>5. ASSUME NEW c \in Clients, ClientStep(c)
        PROVE  UNCHANGED job /\ \A k \in Slots : reg'[k].token = reg[k].token
    BY <2>2, <2>3, <2>4, <2>5 DEF ClientStep
  <2>6. QED BY <2>1, <2>5
<1>2. \A g \in Hips : job'[g].active => SameJob(g) BY <1>1 DEF SameJob
<1>3. TokensKept BY <1>1 DEF TokensKept
<1>4. CASE UNCHANGED frames BY <1>2, <1>3, <1>4, UnchangedKept, JobsKept
<1>5. ASSUME NEW t \in KnownTokens, NEW f \in Frames, ClientFail(t, f) PROVE JobOwnsItsState'
  BY <1>2, <1>3, <1>5, FailFrameKept, JobsKept DEF ClientFail
<1>6. ASSUME NEW t \in KnownTokens, NEW f \in Frames, ConsumerSubmitted(t, f) PROVE JobOwnsItsState'
  <2>1. PICK k \in Found(t) :
          /\ frames[k][Pos(f)].output
          /\ frames' = Put(k, f, [frames[k][Pos(f)] EXCEPT !.consumed = TRUE])
    BY <1>6 DEF ConsumerSubmitted
  <2>2. k \in Slots BY FoundType
  <2>3. OwnedKept BY <2>1, <2>2, PutKept
  <2>4. QED BY <1>2, <1>3, <2>3, JobsKept
<1>7. ASSUME NEW c \in Clients, NEW t \in KnownTokens, NEW f \in Frames, Publish(c, t, f)
      PROVE  JobOwnsItsState'
  BY <1>2, <1>3, <1>7, PublishKept, JobsKept
<1>8. ASSUME NEW c \in Clients, ClientCheck(c) \/ ClientExpire(c) PROVE JobOwnsItsState'
  BY <1>2, <1>3, <1>8, CheckKept, ExpireKept, JobsKept DEF ClientCheck, ClientExpire, Threads
<1>9. ASSUME NEW c \in Clients, ClientStep(c) PROVE JobOwnsItsState'
  BY <1>4, <1>7, <1>8, <1>9 DEF ClientStep, Snapshot, DropSnapshot, ClaimQueue, WaitOutput
<1>10. QED BY <1>5, <1>6, <1>9 DEF AnyClient

\* A step of h that changes no frame, or only as FailFrame and the wait loop do,
\* and does not activate a job.
LEMMA HipKeptJobs ==
  ASSUME TypeInv, JobOwnsItsState, NEW h \in Hips, NEW j \in Job, OwnedKept,
         job' = [job EXCEPT ![h] = j],
         j.active => /\ job[h].active /\ j.token = job[h].token /\ j.frame = job[h].frame
                     /\ j.slot = job[h].slot,
         \A k \in Slots : reg'[k].token = reg[k].token
  PROVE  JobOwnsItsState'
<1>1. job'[h] = j /\ \A g \in Hips \ {h} : job'[g] = job[g] BY DEF TypeInv, TypeOK
<1>2. \A g \in Hips : job'[g].active => SameJob(g) BY <1>1 DEF SameJob
<1>3. QED BY <1>2, JobsKept DEF TokensKept

LEMMA FailJobJobs ==
  ASSUME TypeInv, JobOwnsItsState, NEW h \in Hips, NEW j \in Job, FailJob(h, j),
         j.token = job[h].token, j.frame = job[h].frame, j.active = job[h].active, j.slot = job[h].slot,
         UNCHANGED reg
  PROVE  JobOwnsItsState'
<1> DEFINE jj == [j EXCEPT !.error = TRUE]
<1>1. /\ jj \in Job /\ jj.token = j.token /\ jj.frame = j.frame /\ jj.active = j.active
      /\ jj.slot = j.slot
  BY DEF Job
<1>2. job' = [job EXCEPT ![h] = jj] BY DEF FailJob
<1>3. OwnedKept
  <2>1. CASE j.token # 0
    <3>1. j.frame \in Frames BY <2>1 DEF TypeInv, WellFormed, HipFormed
    <3>2. QED BY <2>1, <3>1, FailFrameKept DEF FailJob
  <2>2. CASE j.token = 0 BY <2>2, UnchangedKept DEF FailJob
  <2>3. QED BY <2>1, <2>2
<1> HIDE DEF jj
<1>4. QED BY <1>1, <1>2, <1>3, HipKeptJobs

\* Completing h's job: the frame it gives up is no other job's.
LEMMA CompleteJobs ==
  ASSUME TypeInv, JobOwnsItsState, NEW h \in Hips, job[h].active, Complete(h), UNCHANGED reg
  PROVE  JobOwnsItsState'
<1> DEFINE j == job[h]
<1>1. CASE UNCHANGED <<frames, job>>
  BY <1>1, UnchangedKept, JobsKept DEF SameJob, TokensKept
<1>2. CASE ~UNCHANGED <<frames, job>>
  <2>1. PICK s, e : /\ frames' = Put(j.slot, j.frame, s)
                    /\ job' = [job EXCEPT ![h] = [j EXCEPT !.active = FALSE, !.slot = None, !.error = e]]
    BY <1>2 DEF Complete
  <2>2. j \in Job /\ j.slot \in Slots /\ j.frame \in Frames
    BY DEF TypeInv, TypeOK, WellFormed, HipFormed
  <2>3. ~job'[h].active /\ \A g \in Hips \ {h} : job'[g] = job[g]
    BY <2>1, <2>2 DEF TypeInv, TypeOK, Job
  <2>4. \A k \in Slots, i \in Ring : <<k, i>> # <<j.slot, Pos(j.frame)>> => frames'[k][i] = frames[k][i]
    BY <2>1, <2>2, PutAt
  <2>5. ASSUME NEW g \in Hips, job'[g].active
        PROVE  /\ g # h /\ job'[g] = job[g]
               /\ frames'[job[g].slot][Pos(job[g].frame)] = frames[job[g].slot][Pos(job[g].frame)]
    <3>1. g # h /\ job'[g] = job[g] /\ job[g].active BY <2>3, <2>5
    <3>2. job[g].slot \in Slots /\ Pos(job[g].frame) \in Ring
      BY <3>1, PosInRing DEF TypeInv, WellFormed, HipFormed
    <3>3. <<job[g].slot, Pos(job[g].frame)>> # <<j.slot, Pos(j.frame)>>
      BY <3>1 DEF JobOwnsItsState
    <3>4. QED BY <3>1, <3>2, <3>3, <2>4
  <2>6. QED BY <2>3, <2>5 DEF JobOwnsItsState
<1>3. QED BY <1>1, <1>2

\* Claiming a frame: it was owned by nobody, so no other job holds it.
LEMMA ClaimJobs == ASSUME TypeInv, JobOwnsItsState, NEW h \in Hips, Claim(h) PROVE JobOwnsItsState'
<1> DEFINE j == job[h]
<1>1. pc[h] = "claim" /\ UNCHANGED reg BY DEF Claim
<1>2. j \in Job /\ ~j.active /\ j.frame \in Frames
  BY <1>1 DEF TypeInv, TypeOK, WellFormed, HipFormed
<1>3. ASSUME NEW k \in Found(j.token), Holds(k, j.frame), Claimable(frames[k][Pos(j.frame)]),
             frames' = Put(k, j.frame, [frames[k][Pos(j.frame)] EXCEPT !.owned = TRUE]),
             job' = [job EXCEPT ![h].active = TRUE, ![h].slot = k]
      PROVE  JobOwnsItsState'
  <2> DEFINE s == frames[k][Pos(j.frame)]
  <2>1. k \in Slots /\ reg[k].token = j.token BY <1>3 DEF Found
  <2>2. Pos(j.frame) \in Ring /\ s \in FrameState BY <1>2, <2>1, PosInRing DEF TypeInv, TypeOK
  <2>3. /\ job'[h].active /\ job'[h].slot = k /\ job'[h].token = j.token /\ job'[h].frame = j.frame
        /\ \A g \in Hips \ {h} : job'[g] = job[g]
    <3>1. job' = [job EXCEPT ![h].active = TRUE, ![h].slot = k] BY <1>3
    <3>2. QED BY <3>1, <1>2 DEF TypeInv, TypeOK, Job
  <2>4. /\ frames'[k][Pos(j.frame)] = [s EXCEPT !.owned = TRUE]
        /\ \A m \in Slots, i \in Ring : <<m, i>> # <<k, Pos(j.frame)>> => frames'[m][i] = frames[m][i]
    BY <1>2, <1>3, <2>1, <2>2, PutAt
  <2>5. LET t == frames'[k][Pos(j.frame)]
        IN  t.frame = j.frame /\ t.owned /\ t.input /\ t.pins # {} /\ ~t.output /\ ~t.consumed
    BY <1>3, <2>2, <2>4 DEF Holds, Claimable, FrameState
  <2>6. ~s.owned BY <1>3 DEF Claimable
  <2>7. ASSUME NEW g \in Hips \ {h}, job'[g].active
        PROVE  /\ job[g].slot \in Slots /\ Pos(job[g].frame) \in Ring /\ job[g].active
               /\ <<job[g].slot, Pos(job[g].frame)>> # <<k, Pos(j.frame)>>
               /\ frames'[job[g].slot][Pos(job[g].frame)] = frames[job[g].slot][Pos(job[g].frame)]
    <3>1. job[g].active BY <2>3, <2>7
    <3>2. job[g].slot \in Slots /\ Pos(job[g].frame) \in Ring
      BY <3>1, PosInRing DEF TypeInv, WellFormed, HipFormed
    <3>3. frames[job[g].slot][Pos(job[g].frame)].owned BY <3>1 DEF JobOwnsItsState
    <3>4. <<job[g].slot, Pos(job[g].frame)>> # <<k, Pos(j.frame)>> BY <2>6, <3>3
    <3>5. QED BY <2>4, <3>1, <3>2, <3>4
  <2> HIDE DEF j, s
  <2>8. QED BY <1>1, <2>1, <2>3, <2>5, <2>7 DEF JobOwnsItsState
<1>4. CASE job' = [job EXCEPT ![h].error = TRUE] /\ UNCHANGED frames
  <2>1. [j EXCEPT !.error = TRUE] \in Job /\ ~[j EXCEPT !.error = TRUE].active BY <1>2 DEF Job
  <2>2. QED BY <1>1, <1>4, <2>1, UnchangedKept, HipKeptJobs
<1>5. QED BY <1>3, <1>4 DEF Claim

LEMMA HipJobs == ASSUME TypeInv, JobOwnsItsState, NEW h \in Hips, HipStep(h) PROVE JobOwnsItsState'
<1>1. job[h] \in Job /\ HipFormed(h) /\ h \in Threads BY DEF TypeInv, TypeOK, WellFormed, Threads
<1>2. CASE HipCheck(h)
  <2>1. Check(h) /\ UNCHANGED reg /\ job' = [job EXCEPT ![h].error = Refused(waiter[h])]
    BY <1>2 DEF HipCheck
  <2>2. Refused(waiter[h]) \in BOOLEAN BY DEF Refused
  <2> DEFINE j == [job[h] EXCEPT !.error = Refused(waiter[h])]
  <2>3. j \in Job /\ j.active = job[h].active /\ j.token = job[h].token /\ j.frame = job[h].frame
        /\ j.slot = job[h].slot
    BY <1>1, <2>2 DEF Job
  <2>4. job' = [job EXCEPT ![h] = j] BY <2>1
  <2> HIDE DEF j
  <2>5. QED BY <1>1, <2>1, <2>3, <2>4, CheckKept, HipKeptJobs
<1>3. CASE HipExpire(h)
  <2>1. Expire(h) /\ UNCHANGED reg /\ job' = [job EXCEPT ![h].error = TRUE]
    BY <1>3 DEF HipExpire
  <2> DEFINE j == [job[h] EXCEPT !.error = TRUE]
  <2>2. j \in Job /\ j.active = job[h].active /\ j.token = job[h].token /\ j.frame = job[h].frame
        /\ j.slot = job[h].slot
    BY <1>1 DEF Job
  <2>3. job' = [job EXCEPT ![h] = j] BY <2>1
  <2> HIDE DEF j
  <2>4. QED BY <1>1, <2>1, <2>2, <2>3, ExpireKept, HipKeptJobs
<1>4. CASE Claim(h) BY <1>4, ClaimJobs
<1>5. CASE FinishMarker(h)
  <2>1. job[h].active BY <1>1, <1>5 DEF FinishMarker, HipFormed
  <2>2. UNCHANGED reg /\ (FailJob(h, job[h]) \/ Complete(h)) BY <1>5 DEF FinishMarker
  <2>3. QED BY <1>1, <2>1, <2>2, FailJobJobs, CompleteJobs
<1>6. CASE DeviceSync(h)
  <2>1. /\ UNCHANGED reg
        /\ \/ FailJob(h, job[h])
           \/ job[h].active /\ Complete(h)
           \/ UNCHANGED <<frames, job>>
    BY <1>6 DEF DeviceSync
  <2>2. CASE UNCHANGED <<frames, job>>
    BY <2>1, <2>2, UnchangedKept, JobsKept DEF TokensKept, SameJob
  <2>3. QED BY <1>1, <2>1, <2>2, FailJobJobs, CompleteJobs
<1>7. CASE ThreadExit(h)
  <2>1. UNCHANGED <<reg, frames>> /\ job' = [job EXCEPT ![h] = NoJob] BY <1>7 DEF ThreadExit
  <2>2. job'[h] = NoJob /\ \A g \in Hips \ {h} : job'[g] = job[g] BY <2>1 DEF TypeInv, TypeOK
  <2>3. \A g \in Hips : job'[g].active => SameJob(g) BY <2>2 DEF NoJob, SameJob
  <2>4. QED BY <2>1, <2>3, UnchangedKept, JobsKept DEF TokensKept
<1>8. ASSUME NEW f \in Frames, BeginJob(h, f) PROVE JobOwnsItsState'
  <2>1. UNCHANGED reg BY <1>8 DEF BeginJob
  <2>2. CASE FailJob(h, job[h]) BY <1>1, <2>1, <2>2, FailJobJobs
  <2>3. ASSUME NEW j, ~j.active, job' = [job EXCEPT ![h] = j], UNCHANGED frames
        PROVE  JobOwnsItsState'
    <3>1. job'[h] = j /\ \A g \in Hips \ {h} : job'[g] = job[g] BY <2>3 DEF TypeInv, TypeOK
    <3>2. \A g \in Hips : job'[g].active => SameJob(g) BY <2>3, <3>1 DEF SameJob
    <3>3. QED BY <2>1, <2>3, <3>2, UnchangedKept, JobsKept DEF TokensKept
  <2>4. \/ FailJob(h, job[h])
        \/ /\ UNCHANGED frames
           /\ \E t : job' = [job EXCEPT ![h] = [NoJob EXCEPT !.token = t, !.frame = f]]
        \/ /\ UNCHANGED frames
           /\ job' = [job EXCEPT ![h] = [NoJob EXCEPT !.error = TRUE, !.frame = f]]
    BY <1>8 DEF BeginJob
  <2>5. /\ \A t : ~[NoJob EXCEPT !.token = t, !.frame = f].active
        /\ ~[NoJob EXCEPT !.error = TRUE, !.frame = f].active
    BY DEF NoJob
  <2>6. QED BY <2>2, <2>3, <2>4, <2>5
<1>9. ASSUME NEW s \in LaunchStreams, StreamSync(h, s) PROVE JobOwnsItsState'
  <2>1. /\ UNCHANGED reg
        /\ \/ FailJob(h, job[h])
           \/ job[h].active /\ Complete(h)
           \/ UNCHANGED <<frames, job>>
    BY <1>9 DEF StreamSync
  <2>2. CASE UNCHANGED <<frames, job>>
    BY <2>1, <2>2, UnchangedKept, JobsKept DEF TokensKept, SameJob
  <2>3. QED BY <1>1, <2>1, <2>2, FailJobJobs, CompleteJobs
<1>10. ASSUME NEW import \in BOOLEAN, NEW s \in LaunchStreams, Launch(h, import, s)
       PROVE  JobOwnsItsState'
  <2> DEFINE j == job[h]
             routed == IF j.bound = None /\ import THEN [j EXCEPT !.bound = s] ELSE j
  <2>1. s \in {"marker", "work"} BY StreamsAssumption DEF LaunchStreams
  <2>2. /\ routed \in Job /\ routed.token = j.token /\ routed.frame = j.frame
        /\ routed.active = j.active /\ routed.slot = j.slot
    BY <1>1, <2>1 DEF Job
  <2>3. /\ UNCHANGED reg
        /\ \/ FailJob(h, j)
           \/ FailJob(h, routed)
           \/ UNCHANGED frames /\ job' = [job EXCEPT ![h] = routed]
    BY <1>10 DEF Launch
  <2> HIDE DEF routed
  <2>4. QED BY <1>1, <2>2, <2>3, FailJobJobs, UnchangedKept, HipKeptJobs
<1>11. ASSUME NEW exact \in BOOLEAN, SetFlag(h, exact) PROVE JobOwnsItsState'
  <2> DEFINE j == [job[h] EXCEPT !.sealed = TRUE]
  <2>1. j \in Job /\ j.token = job[h].token /\ j.frame = job[h].frame /\ j.active = job[h].active
        /\ j.slot = job[h].slot
    BY <1>1 DEF Job
  <2>2. /\ UNCHANGED reg
        /\ \/ FailJob(h, job[h])
           \/ UNCHANGED frames /\ job' = [job EXCEPT ![h] = j]
    BY <1>11 DEF SetFlag
  <2> HIDE DEF j
  <2>3. QED BY <1>1, <2>1, <2>2, FailJobJobs, UnchangedKept, HipKeptJobs
<1>12. ASSUME NEW kind \in ProbeKinds, NEW k \in Slots, ProbeBegin(h, kind, k) PROVE JobOwnsItsState'
  <2>1. UNCHANGED <<frames, job>> /\ \A i \in Slots : reg'[i].token = reg[i].token
    BY <1>12 DEF ProbeBegin, TypeInv, TypeOK, Registration
  <2>2. QED BY <2>1, UnchangedKept, JobsKept DEF TokensKept, SameJob
<1>13. ASSUME NEW launched \in BOOLEAN, NEW synced \in BOOLEAN, ProbeEnd(h, launched, synced)
       PROVE  JobOwnsItsState'
  <2>1. UNCHANGED <<frames, job>> BY <1>13 DEF ProbeEnd
  <2>2. \/ UNCHANGED reg
        \/ reg' = [reg EXCEPT ![probing[h].slot].probe = FALSE]
    BY <1>13 DEF ProbeEnd
  <2>3. \A i \in Slots : reg'[i].token = reg[i].token
    BY <2>2 DEF TypeInv, TypeOK, Registration
  <2>4. QED BY <2>1, <2>3, UnchangedKept, JobsKept DEF TokensKept, SameJob
<1>14. QED
  BY <1>2, <1>3, <1>4, <1>5, <1>6, <1>7, <1>8, <1>9, <1>10, <1>11, <1>12, <1>13 DEF HipStep

\* The frame state an active job points to is its own from the claim to the
\* completion, for any number of threads, registrations and frames: no timeout,
\* failure, retirement or new registration takes or recycles it.
THEOREM JobOwnership == Spec => []JobOwnsItsState
<1>1. Init => JobOwnsItsState BY DEF Init, NoJob, JobOwnsItsState
<1>2. TypeInv /\ JobOwnsItsState /\ [Next]_vars => JobOwnsItsState'
  <2>1. ASSUME TypeInv, JobOwnsItsState, UNCHANGED vars PROVE JobOwnsItsState'
    BY <2>1, UnchangedKept, JobsKept DEF vars, hipVars, TokensKept, SameJob
  <2>2. QED BY <2>1, LifetimeJobs, ClientJobs, HipJobs DEF Next
<1>3. QED BY <1>1, <1>2, WellFormedAlways, PTL DEF Spec

-----------------------------------------------------------------------------
(***************************************************************************)
(* The books of the owners: every reference the registry takes from an      *)
(* owner is given back once, and it reaches no freed owner, for every       *)
(* number of registrations, frames and threads.                             *)
(***************************************************************************)
FiniteClients == IsFiniteSet(Clients)

-----------------------------------------------------------------------------
\* Counting the references that a family of bundles holds of one owner.

Held(P, I, o) == {x \in I \X Buffer : x[2] \in P[x[1]] /\ x[2].owner = o}
Row(i, B, o) == {x \in {i} \X B : x[2].owner = o}

LEMMA CountFinite ==
  ASSUME NEW B \in SUBSET Buffer, NEW o
  PROVE  IsFiniteSet({b \in B : b.owner = o}) /\ Count(B, o) \in Nat
  BY BufferFinite, FS_Subset, FS_CardinalityType, {b \in B : b.owner = o} \in SUBSET Buffer DEF Count

LEMMA RowCount ==
  ASSUME NEW i, NEW B \in SUBSET Buffer, NEW o
  PROVE  IsFiniteSet(Row(i, B, o)) /\ Cardinality(Row(i, B, o)) = Count(B, o)
<1> DEFINE S == {b \in B : b.owner = o}
           f == [b \in S |-> <<i, b>>]
<1>1. f \in Bijection(S, Row(i, B, o))
  <2>1. f \in [S -> Row(i, B, o)] BY DEF Row
  <2>2. \A a, b \in S : f[a] = f[b] => a = b OBVIOUS
  <2>3. ASSUME NEW x \in Row(i, B, o) PROVE \E b \in S : f[b] = x
    <3>1. x[2] \in S /\ x = <<i, x[2]>> BY DEF Row
    <3> QED BY <3>1
  <2> QED BY <2>1, <2>2, <2>3 DEF Bijection, Injection, IsInjective, Surjection
<1>2. ExistsBijection(S, Row(i, B, o)) BY <1>1 DEF ExistsBijection
<1> QED BY <1>2, CountFinite, FS_Bijection DEF Count

LEMMA HeldFinite ==
  ASSUME NEW I, IsFiniteSet(I), NEW P, NEW o
  PROVE  IsFiniteSet(Held(P, I, o)) /\ Cardinality(Held(P, I, o)) \in Nat
<1>1. IsFiniteSet(I \X Buffer) BY BufferFinite, FS_Product
<1>2. Held(P, I, o) \in SUBSET (I \X Buffer) BY DEF Held
<1> QED BY <1>1, <1>2, FS_Subset, FS_CardinalityType

\* Replacing one bundle of a family.
LEMMA RowChange ==
  ASSUME NEW I, IsFiniteSet(I), NEW P \in [I -> SUBSET Buffer], NEW Q \in [I -> SUBSET Buffer],
         NEW i \in I, \A j \in I \ {i} : Q[j] = P[j], NEW o
  PROVE  Cardinality(Held(Q, I, o)) = Cardinality(Held(P, I, o)) - Count(P[i], o) + Count(Q[i], o)
<1> DEFINE Rest(F) == {x \in Held(F, I, o) : x[1] # i}
<1>1. ASSUME NEW F \in [I -> SUBSET Buffer]
      PROVE  /\ IsFiniteSet(Rest(F)) /\ Cardinality(Rest(F)) \in Nat
             /\ Cardinality(Held(F, I, o)) = Cardinality(Rest(F)) + Count(F[i], o)
  <2>1. IsFiniteSet(Rest(F)) /\ Cardinality(Rest(F)) \in Nat
    BY HeldFinite, FS_Subset, FS_CardinalityType, Rest(F) \in SUBSET Held(F, I, o)
  <2>2. Held(F, I, o) = Rest(F) \cup Row(i, F[i], o) BY DEF Held, Row
  <2>3. Rest(F) \cap Row(i, F[i], o) = {} BY DEF Row
  <2>4. /\ IsFiniteSet(Row(i, F[i], o)) /\ Cardinality(Row(i, F[i], o)) = Count(F[i], o)
        /\ Count(F[i], o) \in Nat
    BY RowCount, CountFinite
  <2> HIDE DEF Rest
  <2>5. Cardinality(Rest(F) \cup Row(i, F[i], o))
          = Cardinality(Rest(F)) + Cardinality(Row(i, F[i], o)) - Cardinality({})
    BY <2>1, <2>3, <2>4, FS_Union
  <2> QED BY <2>1, <2>2, <2>4, <2>5, FS_EmptySet
<1>2. Rest(Q) = Rest(P) BY DEF Held
<1>3. Count(P[i], o) \in Nat /\ Count(Q[i], o) \in Nat BY CountFinite
<1> HIDE DEF Rest
<1> QED BY <1>1, <1>2, <1>3

LEMMA CountNone ==
  ASSUME NEW B \in SUBSET Buffer, NEW o, \A b \in B : b.owner # o
  PROVE  Count(B, o) = 0
<1>1. {b \in B : b.owner = o} = {} OBVIOUS
<1> QED BY <1>1, FS_EmptySet DEF Count

LEMMA CountSingle ==
  ASSUME NEW b \in Buffer, NEW o
  PROVE  Count({b}, o) = IF b.owner = o THEN 1 ELSE 0
<1>1. CASE b.owner = o
  <2>1. {c \in {b} : c.owner = o} = {b} BY <1>1
  <2> QED BY <1>1, <2>1, FS_Singleton DEF Count
<1>2. CASE b.owner # o BY <1>2, CountNone
<1> QED BY <1>1, <1>2

-----------------------------------------------------------------------------
\* The references of each owner, by who holds them.

Places == Slots \X Ring
Pins == [x \in Places |-> frames[x[1]][x[2]].pins]
Snapped(o) == Cardinality(Held(snap, Clients, o))
Pinned(o) == Cardinality(Held(Pins, Places, o))
ProbesOf(o) == {k \in Slots : reg[k].probe /\ reg[k].owner = o}
Probed(o) == Cardinality(ProbesOf(o))

Balanced ==
  \A o \in Owners :
    refs[o] = drops[o] + Snapped(o) + Pinned(o) + Probed(o) + (IF app[o] THEN 1 ELSE 0)

\* A marked slot names an owner, and a probe under way has marked a slot of its own.
ProbesHeld ==
  /\ \A k \in Slots : reg[k].probe => reg[k].owner \in Owners
  /\ \A h \in Hips : pc[h] = "probe" =>
       /\ reg[probing[h].slot].probe
       /\ \A g \in Hips \ {h} : pc[g] = "probe" => probing[g].slot # probing[h].slot

\* An owner dies when its count reaches zero, and what is active is not freed.
Living ==
  /\ \A o \in Owners : life[o] = "live" <=> refs[o] > 0
  /\ \A k \in Slots : reg[k].active => life[reg[k].owner] # "gone"

RefsInv == TypeInv /\ Balanced /\ ProbesHeld /\ Living

LEMMA PlacesFinite == IsFiniteSet(Slots) /\ IsFiniteSet(Places)
<1>1. IsFiniteSet(Slots) BY SizesAssumption, FS_Interval DEF Slots
<1>2. IsFiniteSet(Ring) BY SizesAssumption, FS_Interval DEF Ring
<1> QED BY <1>1, <1>2, FS_Product DEF Places

LEMMA PinsType == ASSUME TypeInv PROVE Pins \in [Places -> SUBSET Buffer]
  BY DEF TypeInv, TypeOK, Pins, Places, FrameState

LEMMA HeldTypes ==
  ASSUME FiniteClients, NEW o
  PROVE  /\ IsFiniteSet(ProbesOf(o))
         /\ Snapped(o) \in Nat /\ Pinned(o) \in Nat /\ Probed(o) \in Nat
<1>1. IsFiniteSet(ProbesOf(o)) /\ Probed(o) \in Nat
  BY PlacesFinite, FS_Subset, FS_CardinalityType, ProbesOf(o) \in SUBSET Slots DEF ProbesOf, Probed
<1> QED BY <1>1, PlacesFinite, HeldFinite DEF Snapped, Pinned, FiniteClients

LEMMA BalancedIsConserved == ASSUME TypeInv PROVE Balanced <=> RefsConserved
<1>1. ASSUME NEW o
      PROVE  Held(snap, Clients, o)
               = UNION {{<<c, b>> : b \in {b \in snap[c] : b.owner = o}} : c \in Clients}
  BY DEF Held, TypeInv, TypeOK
<1>2. ASSUME NEW o
      PROVE  Held(Pins, Places, o)
               = UNION {{<<x, b>> : b \in {b \in frames[x[1]][x[2]].pins : b.owner = o}}
                          : x \in Slots \X Ring}
  <2> DEFINE L == Held(Pins, Places, o)
             R == UNION {{<<x, b>> : b \in {b \in frames[x[1]][x[2]].pins : b.owner = o}}
                          : x \in Slots \X Ring}
  <2>1. ASSUME NEW z \in L PROVE z \in R
    <3>1. z[1] \in Places /\ z = <<z[1], z[2]>> /\ z[2] \in Pins[z[1]] /\ z[2].owner = o BY DEF Held
    <3> QED BY <3>1 DEF Pins, Places
  <2>2. ASSUME NEW z \in R PROVE z \in L
    <3>1. PICK x \in Slots \X Ring : z \in {<<x, b>> : b \in {b \in frames[x[1]][x[2]].pins : b.owner = o}}
      OBVIOUS
    <3>2. PICK b \in frames[x[1]][x[2]].pins : z = <<x, b>> /\ b.owner = o BY <3>1
    <3>3. x \in Places /\ b \in Pins[x] BY <3>2 DEF Places, Pins
    <3>4. b \in Buffer BY <3>3, PinsType
    <3> QED BY <3>2, <3>3, <3>4 DEF Held
  <2> QED BY <2>1, <2>2
<1> QED BY <1>1, <1>2 DEF Balanced, RefsConserved, Snapped, Pinned, Probed, ProbesOf

-----------------------------------------------------------------------------
\* How a step changes the books.

LEMMA HeldTypesNext ==
  ASSUME FiniteClients, NEW o
  PROVE  Snapped(o)' \in Nat /\ Pinned(o)' \in Nat
  BY PlacesFinite, HeldFinite DEF Snapped, Pinned, FiniteClients

LEMMA PinsPut ==
  ASSUME TypeInv, NEW k \in Slots, NEW f \in Frames, NEW s, s.pins \in SUBSET Buffer,
         frames' = Put(k, f, s), NEW o
  PROVE  Pinned(o)' = Pinned(o) - Count(frames[k][Pos(f)].pins, o) + Count(s.pins, o)
<1> DEFINE p == Pos(f)
<1>1. p \in Ring BY PosInRing
<1>2. \A j \in Slots, i \in Ring : frames'[j][i] = IF j = k /\ i = p THEN s ELSE frames[j][i]
  BY PutAt
<1> HIDE DEF p
<1>3. Pins' = [x \in Places |-> IF x = <<k, p>> THEN s.pins ELSE Pins[x]]
  BY <1>1, <1>2 DEF Pins, Places
<1>4. Pins \in [Places -> SUBSET Buffer] BY PinsType
<1>5. <<k, p>> \in Places /\ Pins[<<k, p>>] = frames[k][p].pins BY <1>1 DEF Pins, Places
<1>6. /\ Pins' \in [Places -> SUBSET Buffer] /\ Pins'[<<k, p>>] = s.pins
      /\ \A x \in Places \ {<<k, p>>} : Pins'[x] = Pins[x]
  BY <1>3, <1>4, <1>5
<1>7. Cardinality(Held(Pins', Places, o))
        = Cardinality(Held(Pins, Places, o)) - Count(Pins[<<k, p>>], o) + Count(Pins'[<<k, p>>], o)
  BY <1>4, <1>5, <1>6, PlacesFinite, RowChange
<1>8. Pinned(o)' = Cardinality(Held(Pins', Places, o)) BY DEF Pinned, Held
<1> QED BY <1>5, <1>6, <1>7, <1>8 DEF Pinned, p

LEMMA PinsSame ==
  ASSUME \A k \in Slots, i \in Ring : frames'[k][i].pins = frames[k][i].pins, NEW o
  PROVE  Pinned(o)' = Pinned(o)
<1>1. Pins' = Pins BY DEF Pins, Places
<1> QED BY <1>1 DEF Pinned, Held

LEMMA SnapPut ==
  ASSUME TypeInv, FiniteClients, NEW c \in Clients, NEW B \in SUBSET Buffer,
         snap' = [snap EXCEPT ![c] = B], NEW o
  PROVE  Snapped(o)' = Snapped(o) - Count(snap[c], o) + Count(B, o)
<1>1. snap \in [Clients -> SUBSET Buffer] BY DEF TypeInv, TypeOK
<1>2. snap' \in [Clients -> SUBSET Buffer] /\ snap'[c] = B /\ \A d \in Clients \ {c} : snap'[d] = snap[d]
  BY <1>1
<1>3. Cardinality(Held(snap', Clients, o))
        = Cardinality(Held(snap, Clients, o)) - Count(snap[c], o) + Count(snap'[c], o)
  <2>1. IsFiniteSet(Clients) BY DEF FiniteClients
  <2> DEFINE Q == snap'
  <2>2. Q \in [Clients -> SUBSET Buffer] /\ \A d \in Clients \ {c} : Q[d] = snap[d] BY <1>2
  <2> HIDE DEF Q
  <2>3. Cardinality(Held(Q, Clients, o))
          = Cardinality(Held(snap, Clients, o)) - Count(snap[c], o) + Count(Q[c], o)
    BY <1>1, <2>1, <2>2, RowChange
  <2> QED BY <2>3 DEF Q
<1> QED BY <1>2, <1>3 DEF Snapped, Held

LEMMA SnapSame == ASSUME UNCHANGED snap, NEW o PROVE Snapped(o)' = Snapped(o)
  BY DEF Snapped, Held

LEMMA ProbedSame ==
  ASSUME \A k \in Slots : reg'[k].probe = reg[k].probe /\ (reg[k].probe => reg'[k].owner = reg[k].owner),
         NEW o
  PROVE  Probed(o)' = Probed(o)
<1>1. ProbesOf(o)' = ProbesOf(o) BY DEF ProbesOf
<1> QED BY <1>1 DEF Probed

\* A frame gives up the references that drops then owes, and takes none.
Settles == \A o \in Owners : drops'[o] + Pinned(o)' = drops[o] + Pinned(o)

LEMMA SettledBalance ==
  ASSUME RefsInv, FiniteClients, Settles, UNCHANGED <<refs, app, snap>>,
         \A o \in Owners : Probed(o)' = Probed(o), drops' \in [Owners -> Nat]
  PROVE  Balanced'
<1>1. ASSUME NEW o \in Owners
      PROVE  refs'[o] = drops'[o] + Snapped(o)' + Pinned(o)' + Probed(o)' + (IF app'[o] THEN 1 ELSE 0)
  <2>1. refs[o] = drops[o] + Snapped(o) + Pinned(o) + Probed(o) + (IF app[o] THEN 1 ELSE 0)
    BY DEF RefsInv, Balanced
  <2>2. Snapped(o)' = Snapped(o) BY SnapSame
  <2>3. drops[o] \in Nat /\ drops'[o] \in Nat BY DEF RefsInv, TypeInv, TypeOK
  <2> QED BY <2>1, <2>2, <2>3, HeldTypes, HeldTypesNext DEF Settles
<1> QED BY <1>1 DEF Balanced

LEMMA QuietSettles ==
  ASSUME UNCHANGED drops, \A k \in Slots, i \in Ring : frames'[k][i].pins = frames[k][i].pins
  PROVE  Settles
  BY PinsSame DEF Settles

LEMMA PutSettles ==
  ASSUME RefsInv, FiniteClients, NEW k \in Slots, NEW f \in Frames, NEW s,
         frames' = Put(k, f, s),
         \/ s.pins = frames[k][Pos(f)].pins /\ drops' = drops
         \/ s.pins = {} /\ drops' = Dropping(frames[k][Pos(f)].pins)
  PROVE  Settles
<1> DEFINE B == frames[k][Pos(f)].pins
<1>1. B \in SUBSET Buffer BY PosInRing DEF RefsInv, TypeInv, TypeOK, FrameState
<1>2. ASSUME NEW o \in Owners PROVE drops'[o] + Pinned(o)' = drops[o] + Pinned(o)
  <2>1. s.pins \in SUBSET Buffer BY <1>1
  <2>2. Pinned(o)' = Pinned(o) - Count(B, o) + Count(s.pins, o)
    BY <2>1, PinsPut DEF RefsInv
  <2>3. Count(B, o) \in Nat /\ Pinned(o) \in Nat /\ drops[o] \in Nat
    BY <1>1, CountFinite, HeldTypes DEF RefsInv, TypeInv, TypeOK
  <2> HIDE DEF B
  <2>4. CASE s.pins = B /\ drops' = drops BY <2>2, <2>3, <2>4
  <2>5. CASE s.pins = {} /\ drops' = Dropping(B)
    <3>1. Count({}, o) = 0 BY CountNone
    <3>2. drops'[o] = drops[o] + Count(B, o) BY <2>5 DEF Dropping
    <3> QED BY <2>2, <2>3, <2>5, <3>1, <3>2
  <2> QED BY <2>4, <2>5 DEF B
<1> QED BY <1>2 DEF Settles

\* nr_frame gives out the state that holds the pins, or a fresh one where there are none.
LEMMA ObtainedPins ==
  ASSUME NEW k, NEW f, Obtainable(k, f)
  PROVE  Obtained(k, f).pins = frames[k][Pos(f)].pins
  BY DEF Obtainable, Obtained, Recyclable, FreshFrame

LEMMA FailedPins ==
  ASSUME NEW s \in FrameState
  PROVE  Failed(s).pins = IF s.owned THEN s.pins ELSE {}
  BY DEF Failed, FrameState

LEMMA FailFrameSettles ==
  ASSUME RefsInv, FiniteClients, NEW t, NEW f \in Frames, FailFrame(t, f)
  PROVE  Settles
<1>1. CASE UNCHANGED <<frames, drops>> BY <1>1, QuietSettles
<1>2. CASE \E k \in Found(t) :
             /\ Obtainable(k, f)
             /\ frames' = Put(k, f, Failed(Obtained(k, f)))
             /\ drops' = IF Obtained(k, f).owned THEN drops ELSE Dropping(Obtained(k, f).pins)
  <2>1. PICK k \in Found(t) :
             /\ Obtainable(k, f)
             /\ frames' = Put(k, f, Failed(Obtained(k, f)))
             /\ drops' = IF Obtained(k, f).owned THEN drops ELSE Dropping(Obtained(k, f).pins)
    BY <1>2
  <2>2. k \in Slots BY FoundType DEF RefsInv
  <2>3. Obtained(k, f) \in FrameState BY <2>2, ObtainedType DEF RefsInv, TypeInv, TypeOK
  <2> QED BY <2>1, <2>2, <2>3, ObtainedPins, FailedPins, PutSettles
<1> QED BY <1>1, <1>2 DEF FailFrame

LEMMA FailJobSettles ==
  ASSUME RefsInv, FiniteClients, NEW h \in Hips, NEW j, j.token = job[h].token,
         j.frame = job[h].frame, FailJob(h, j)
  PROVE  Settles
<1>1. CASE j.token = 0 BY <1>1, QuietSettles DEF FailJob
<1>2. CASE j.token # 0
  <2>1. j.frame \in Frames BY <1>2 DEF RefsInv, TypeInv, WellFormed, HipFormed
  <2> QED BY <1>2, <2>1, FailFrameSettles DEF FailJob
<1> QED BY <1>1, <1>2

LEMMA CheckSettles ==
  ASSUME RefsInv, FiniteClients, NEW t \in Threads, Check(t), UNCHANGED drops
  PROVE  Settles
<1> DEFINE f == waiter[t].frame
<1>1. f \in Frames BY DEF Check, RefsInv, TypeInv, WellFormed
<1>2. CASE UNCHANGED frames BY <1>2, QuietSettles
<1>3. CASE \E k \in Found(waiter[t].token) : Obtainable(k, f) /\ frames' = Put(k, f, Obtained(k, f))
  <2>1. PICK k \in Found(waiter[t].token) : Obtainable(k, f) /\ frames' = Put(k, f, Obtained(k, f))
    BY <1>3
  <2>2. k \in Slots BY FoundType DEF RefsInv
  <2> HIDE DEF f
  <2> QED BY <1>1, <2>1, <2>2, ObtainedPins, PutSettles
<1> QED BY <1>2, <1>3 DEF Check

LEMMA ExpireSettles ==
  ASSUME RefsInv, FiniteClients, NEW t \in Threads, Expire(t)
  PROVE  Settles
<1> DEFINE f == waiter[t].frame
<1>1. f \in Frames BY DEF Expire, RefsInv, TypeInv, WellFormed
<1>2. CASE UNCHANGED <<frames, drops>> BY <1>2, QuietSettles
<1>3. CASE \E k \in Found(waiter[t].token) :
             LET s == frames[k][Pos(f)]
             IN  /\ frames' = Put(k, f, Failed(s))
                 /\ drops' = IF s.owned THEN drops ELSE Dropping(s.pins)
  <2>1. PICK k \in Found(waiter[t].token) :
             LET s == frames[k][Pos(f)]
             IN  /\ frames' = Put(k, f, Failed(s))
                 /\ drops' = IF s.owned THEN drops ELSE Dropping(s.pins)
    BY <1>3
  <2>2. k \in Slots BY FoundType DEF RefsInv
  <2> HIDE DEF f
  <2>3. frames[k][Pos(f)] \in FrameState BY <1>1, <2>2, PosInRing DEF RefsInv, TypeInv, TypeOK
  <2> QED BY <1>1, <2>1, <2>2, <2>3, FailedPins, PutSettles
<1> QED BY <1>2, <1>3 DEF Expire

LEMMA ClaimSettles ==
  ASSUME RefsInv, FiniteClients, NEW h \in Hips, Claim(h)
  PROVE  Settles
<1> DEFINE f == job[h].frame
<1>1. f \in Frames BY DEF Claim, RefsInv, TypeInv, WellFormed, HipFormed
<1>2. CASE UNCHANGED frames BY <1>2, QuietSettles DEF Claim
<1>3. CASE \E k \in Found(job[h].token) : frames' = Put(k, f, [frames[k][Pos(f)] EXCEPT !.owned = TRUE])
  <2>1. PICK k \in Found(job[h].token) : frames' = Put(k, f, [frames[k][Pos(f)] EXCEPT !.owned = TRUE])
    BY <1>3
  <2>2. k \in Slots BY FoundType DEF RefsInv
  <2>3. frames[k][Pos(f)] \in FrameState BY <1>1, <2>2, PosInRing DEF RefsInv, TypeInv, TypeOK
  <2>4. [frames[k][Pos(f)] EXCEPT !.owned = TRUE].pins = frames[k][Pos(f)].pins
    BY <2>3 DEF FrameState
  <2> HIDE DEF f
  <2> QED BY <1>1, <2>1, <2>2, <2>4, PutSettles DEF Claim
<1> QED BY <1>2, <1>3 DEF Claim

LEMMA CompleteSettles ==
  ASSUME RefsInv, FiniteClients, NEW h \in Hips, job[h].active, Complete(h)
  PROVE  Settles
<1> DEFINE f == job[h].frame
           k == job[h].slot
           s == frames[k][Pos(f)]
<1>1. f \in Frames /\ k \in Slots
  BY DEF RefsInv, TypeInv, WellFormed, HipFormed
<1>2. s \in FrameState BY <1>1, PosInRing DEF RefsInv, TypeInv, TypeOK
<1>3. CASE UNCHANGED <<frames, drops>> BY <1>3, QuietSettles
<1>4. CASE \E e, d : /\ frames' = Put(k, f, [s EXCEPT !.error = e, !.output = d,
                                                     !.owned = FALSE, !.pins = {}])
                     /\ drops' = Dropping(s.pins)
  <2>1. PICK e, d : /\ frames' = Put(k, f, [s EXCEPT !.error = e, !.output = d,
                                                     !.owned = FALSE, !.pins = {}])
                    /\ drops' = Dropping(s.pins)
    BY <1>4
  <2>2. [s EXCEPT !.error = e, !.output = d, !.owned = FALSE, !.pins = {}].pins = {}
    BY <1>2 DEF FrameState
  <2> QED BY <1>1, <2>1, <2>2, PutSettles
<1> QED BY <1>3, <1>4 DEF Complete

-----------------------------------------------------------------------------
\* Counts and lives.

LEMMA RefsCount ==
  ASSUME RefsInv, FiniteClients, NEW o \in Owners
  PROVE  /\ refs[o] \in Nat /\ drops[o] \in Nat
         /\ Snapped(o) \in Nat /\ Pinned(o) \in Nat /\ Probed(o) \in Nat
         /\ refs[o] = drops[o] + Snapped(o) + Pinned(o) + Probed(o) + (IF app[o] THEN 1 ELSE 0)
<1>1. Snapped(o) \in Nat /\ Pinned(o) \in Nat /\ Probed(o) \in Nat BY HeldTypes
<1>2. drops[o] \in Nat BY DEF RefsInv, TypeInv, TypeOK
<1>3. refs[o] = drops[o] + Snapped(o) + Pinned(o) + Probed(o) + (IF app[o] THEN 1 ELSE 0)
  BY DEF RefsInv, Balanced
<1> QED BY <1>1, <1>2, <1>3

Alive == \A o \in Owners : life[o] = "live" <=> refs[o] > 0
NoneFreed == \A o \in Owners : life'[o] = "gone" => life[o] = "gone"
ActiveKept == \A k \in Slots : reg'[k].active => reg[k].active /\ reg'[k].owner = reg[k].owner

LEMMA LivingKept == ASSUME RefsInv, Alive', NoneFreed, ActiveKept PROVE Living'
<1>1. ASSUME NEW k \in Slots, reg'[k].active PROVE life'[reg'[k].owner] # "gone"
  <2>1. reg[k].active /\ reg'[k].owner = reg[k].owner BY <1>1 DEF ActiveKept
  <2>2. reg[k].owner \in Owners BY <2>1 DEF RefsInv, TypeInv, WellFormed
  <2> QED BY <2>1, <2>2 DEF RefsInv, Living, NoneFreed
<1> QED BY <1>1 DEF Living, Alive

LEMMA QuietLife == ASSUME RefsInv, UNCHANGED <<refs, life>> PROVE Alive' /\ NoneFreed
  BY DEF RefsInv, Living, Alive, NoneFreed

\* A reference given up: whoever takes the count to zero kills the owner.
LEMMA DecrefLife ==
  ASSUME RefsInv, NEW o \in Owners, refs[o] \in Nat \ {0}, Decref(o)
  PROVE  /\ refs' = [refs EXCEPT ![o] = refs[o] - 1] /\ refs \in [Owners -> Int]
         /\ Alive' /\ NoneFreed
<1>1. refs \in [Owners -> Int] /\ life \in [Owners -> {"live", "dying", "gone"}]
  BY DEF RefsInv, TypeInv, TypeOK
<1>2. /\ refs' = [refs EXCEPT ![o] = refs[o] - 1]
      /\ life' = IF refs[o] = 1 THEN [life EXCEPT ![o] = "dying"] ELSE life
  BY DEF Decref
<1>3. ASSUME NEW q \in Owners
      PROVE  /\ life'[q] = "live" <=> refs'[q] > 0
             /\ life'[q] = "gone" => life[q] = "gone"
  <2>1. life[q] = "live" <=> refs[q] > 0 BY DEF RefsInv, Living
  <2>2. CASE q = o BY <1>1, <1>2, <2>1, <2>2
  <2>3. CASE q # o BY <1>1, <1>2, <2>1, <2>3
  <2> QED BY <2>2, <2>3
<1> QED BY <1>1, <1>2, <1>3 DEF Alive, NoneFreed

\* References are taken of owners that live.
LEMMA RetainLife ==
  ASSUME RefsInv, FiniteClients, NEW B \in SUBSET Buffer, \A b \in B : refs[b.owner] > 0,
         refs' = Retaining(B), UNCHANGED life
  PROVE  Alive' /\ NoneFreed
<1>1. ASSUME NEW o \in Owners PROVE life'[o] = "live" <=> refs'[o] > 0
  <2>1. life[o] = "live" <=> refs[o] > 0 BY DEF RefsInv, Living
  <2>2. refs'[o] = refs[o] + Count(B, o) BY DEF Retaining
  <2>3. refs[o] \in Nat /\ Count(B, o) \in Nat BY RefsCount, CountFinite
  <2>4. refs[o] = 0 => Count(B, o) = 0
    <3>1. SUFFICES ASSUME refs[o] = 0 PROVE Count(B, o) = 0 OBVIOUS
    <3>2. \A b \in B : b.owner # o BY <3>1
    <3> QED BY <3>2, CountNone
  <2> QED BY <2>1, <2>2, <2>3, <2>4
<1> QED BY <1>1 DEF Alive, NoneFreed

-----------------------------------------------------------------------------
\* Registration and lifetime.

LEMMA ProbesKept ==
  ASSUME RefsInv, UNCHANGED <<pc, probing>>,
         \A k \in Slots : reg'[k].probe = reg[k].probe /\ (reg[k].probe => reg'[k].owner = reg[k].owner)
  PROVE  ProbesHeld'
<1>1. ASSUME NEW h \in Hips, pc'[h] = "probe" PROVE reg'[probing'[h].slot].probe
  <2>1. pc[h] = "probe" /\ probing[h].slot \in Slots
    BY <1>1 DEF RefsInv, TypeInv, WellFormed, HipFormed
  <2> QED BY <2>1 DEF RefsInv, ProbesHeld
<1>2. \A k \in Slots : reg'[k].probe => reg'[k].owner \in Owners BY DEF RefsInv, ProbesHeld
<1> QED BY <1>1, <1>2 DEF RefsInv, ProbesHeld

LEMMA RegisterRefs ==
  ASSUME RefsInv, FiniteClients, NEW o \in Owners, Register(o)
  PROVE  Balanced' /\ ProbesHeld' /\ Living'
<1>1. PICK k \in Slots :
        /\ ~Busy(k)
        /\ reg' = [reg EXCEPT ![k] = [NoRegistration EXCEPT !.active = TRUE, !.token = nextToken,
                                                            !.owner = o]]
        /\ frames' = [frames EXCEPT ![k] = [i \in Ring |-> FreshFrame(None)]]
  BY DEF Register
<1>2. app[o] /\ UNCHANGED <<refs, app, life, drops, snap, pc, probing>>
  BY DEF Register, ownerVars, hipVars
<1>3. ~reg[k].probe /\ \A i \in Ring : frames[k][i].pins = {} BY <1>1 DEF Busy
<1>4. /\ reg'[k] = [NoRegistration EXCEPT !.active = TRUE, !.token = nextToken, !.owner = o]
      /\ \A j \in Slots \ {k} : reg'[j] = reg[j]
  BY <1>1 DEF RefsInv, TypeInv, TypeOK
<1>5. ~reg'[k].probe /\ reg'[k].owner = o BY <1>4 DEF NoRegistration
<1>6. \A j \in Slots, i \in Ring : frames'[j][i].pins = frames[j][i].pins
  BY <1>1, <1>3 DEF RefsInv, TypeInv, TypeOK, FreshFrame
<1>7. \A j \in Slots : reg'[j].probe = reg[j].probe /\ (reg[j].probe => reg'[j].owner = reg[j].owner)
  <2>1. reg'[k].probe = FALSE /\ reg[k].probe = FALSE
    BY <1>3, <1>4 DEF NoRegistration, RefsInv, TypeInv, TypeOK, Registration
  <2> QED BY <1>4, <2>1
<1>8. Balanced' /\ ProbesHeld'
  <2>1. \A q \in Owners : Probed(q)' = Probed(q) BY <1>7, ProbedSame
  <2>2. drops' \in [Owners -> Nat] BY <1>2 DEF RefsInv, TypeInv, TypeOK
  <2>3. Balanced' BY <1>2, <1>6, <2>1, <2>2, QuietSettles, SettledBalance
  <2> QED BY <1>2, <1>7, <2>3, ProbesKept
<1>9. refs[o] > 0 BY <1>2, RefsCount
<1>10. Living'
  <2>1. life[o] = "live" BY <1>9 DEF RefsInv, Living
  <2>2. ASSUME NEW j \in Slots, reg'[j].active PROVE life'[reg'[j].owner] # "gone"
    <3>1. CASE j = k BY <1>2, <1>5, <2>1, <3>1
    <3>2. CASE j # k BY <1>2, <1>4, <2>2, <3>2 DEF RefsInv, Living
    <3> QED BY <3>1, <3>2
  <2> QED BY <1>2, <2>2 DEF RefsInv, Living
<1> QED BY <1>8, <1>10

LEMMA ReleaseRefs ==
  ASSUME RefsInv, FiniteClients, NEW o \in Owners, Release(o) \/ AppRelease(o)
  PROVE  Balanced' /\ ProbesHeld' /\ Living'
<1>1. /\ Decref(o) /\ UNCHANGED <<reg, frames, snap, pc, probing>>
      /\ \/ drops[o] > 0 /\ drops' = [drops EXCEPT ![o] = drops[o] - 1] /\ UNCHANGED app
         \/ app[o] /\ app' = [app EXCEPT ![o] = FALSE] /\ UNCHANGED drops
  BY DEF Release, AppRelease, hipVars
<1>2. refs[o] \in Nat \ {0} BY <1>1, RefsCount
<1>3. /\ refs' = [refs EXCEPT ![o] = refs[o] - 1] /\ refs \in [Owners -> Int]
      /\ Alive' /\ NoneFreed
  BY <1>1, <1>2, DecrefLife
<1>4. ASSUME NEW q \in Owners
      PROVE  refs'[q] = drops'[q] + Snapped(q)' + Pinned(q)' + Probed(q)' + (IF app'[q] THEN 1 ELSE 0)
  <2>1. Snapped(q)' = Snapped(q) /\ Pinned(q)' = Pinned(q) /\ Probed(q)' = Probed(q)
    BY <1>1, SnapSame, PinsSame, ProbedSame
  <2>2. drops \in [Owners -> Nat] /\ app \in [Owners -> BOOLEAN] BY DEF RefsInv, TypeInv, TypeOK
  <2>3. /\ refs[q] \in Nat /\ drops[q] \in Nat
        /\ Snapped(q) \in Nat /\ Pinned(q) \in Nat /\ Probed(q) \in Nat
        /\ refs[q] = drops[q] + Snapped(q) + Pinned(q) + Probed(q) + (IF app[q] THEN 1 ELSE 0)
    BY RefsCount
  <2>4. CASE q # o
    <3>1. refs'[q] = refs[q] /\ drops'[q] = drops[q] /\ app'[q] = app[q] BY <1>1, <1>3, <2>2, <2>4
    <3> QED BY <2>1, <2>3, <3>1
  <2>5. CASE q = o
    <3>1. refs'[q] = refs[q] - 1 BY <1>3, <2>5
    <3>2. CASE drops[o] > 0 /\ drops' = [drops EXCEPT ![o] = drops[o] - 1] /\ UNCHANGED app
      <4>1. drops'[q] = drops[q] - 1 /\ app'[q] = app[q] BY <2>2, <2>5, <3>2
      <4> QED BY <2>1, <2>3, <3>1, <4>1
    <3>3. CASE app[o] /\ app' = [app EXCEPT ![o] = FALSE] /\ UNCHANGED drops
      <4>1. drops'[q] = drops[q] /\ app[q] /\ ~app'[q] BY <2>2, <2>5, <3>3
      <4> QED BY <2>1, <2>3, <3>1, <4>1
    <3> QED BY <1>1, <3>2, <3>3
  <2> QED BY <2>4, <2>5
<1>5. Balanced' BY <1>4 DEF Balanced
<1> QED BY <1>1, <1>3, <1>5, ProbesKept, LivingKept DEF ActiveKept

\* Retirement drops exactly the pins of the frames it fails.
LEMMA RetireSettles ==
  ASSUME RefsInv, FiniteClients, NEW va, Retire(va)
  PROVE  Settles /\ drops' \in [Owners -> Nat]
<1> DEFINE Hit(k) == reg[k].active /\ VaOf[reg[k].owner] = va
           lost == {x \in Slots \X Ring : Hit(x[1]) /\ ~frames[x[1]][x[2]].owned}
           Lost(o) == UNION {{<<x, b>> : b \in {b \in frames[x[1]][x[2]].pins : b.owner = o}} : x \in lost}
<1>1. /\ frames' = [k \in Slots |-> IF Hit(k) THEN [i \in Ring |-> Failed(frames[k][i])] ELSE frames[k]]
      /\ drops' = [o \in Owners |-> drops[o] + Cardinality(Lost(o))]
  BY DEF Retire
<1>2. \A x \in Places : Pins'[x] = IF x \in lost THEN {} ELSE Pins[x]
  <2> SUFFICES ASSUME NEW x \in Places PROVE frames'[x[1]][x[2]].pins = IF x \in lost THEN {} ELSE frames[x[1]][x[2]].pins
    BY DEF Pins
  <2>1. x[1] \in Slots /\ x[2] \in Ring BY DEF Places
  <2>2. frames[x[1]][x[2]] \in FrameState BY <2>1 DEF RefsInv, TypeInv, TypeOK
  <2>3. frames'[x[1]][x[2]] = IF Hit(x[1]) THEN Failed(frames[x[1]][x[2]]) ELSE frames[x[1]][x[2]]
    BY <1>1, <2>1
  <2>4. x \in lost <=> Hit(x[1]) /\ ~frames[x[1]][x[2]].owned BY DEF Places
  <2> HIDE DEF lost, Hit
  <2> QED BY <2>2, <2>3, <2>4, FailedPins
<1>3. ASSUME NEW o PROVE Lost(o) = {z \in Held(Pins, Places, o) : z[1] \in lost}
  <2>1. ASSUME NEW z \in Lost(o) PROVE z \in Held(Pins, Places, o) /\ z[1] \in lost
    <3>1. PICK x \in lost : z \in {<<x, b>> : b \in {b \in frames[x[1]][x[2]].pins : b.owner = o}}
      OBVIOUS
    <3>2. PICK b \in frames[x[1]][x[2]].pins : z = <<x, b>> /\ b.owner = o BY <3>1
    <3>3. x \in Places /\ b \in Pins[x] BY <3>2 DEF Places, Pins
    <3>4. b \in Buffer BY <3>3, PinsType DEF RefsInv
    <3> QED BY <3>2, <3>3, <3>4 DEF Held
  <2>2. ASSUME NEW z \in Held(Pins, Places, o), z[1] \in lost PROVE z \in Lost(o)
    <3>1. z[1] \in Places /\ z = <<z[1], z[2]>> /\ z[2] \in Pins[z[1]] /\ z[2].owner = o BY DEF Held
    <3>2. z[2] \in frames[z[1][1]][z[1][2]].pins BY <3>1 DEF Pins
    <3>3. z \in {<<z[1], b>> : b \in {b \in frames[z[1][1]][z[1][2]].pins : b.owner = o}}
      BY <3>1, <3>2
    <3> QED BY <2>2, <3>3
  <2> QED BY <2>1, <2>2
<1> HIDE DEF lost, Lost, Hit
<1>4. ASSUME NEW o \in Owners
      PROVE  /\ Cardinality(Lost(o)) \in Nat
             /\ Pinned(o) = Pinned(o)' + Cardinality(Lost(o))
  <2> DEFINE H == Held(Pins, Places, o)
             G == Held(Pins', Places, o)
  <2>1. IsFiniteSet(H) /\ IsFiniteSet(G) /\ Cardinality(G) \in Nat BY PlacesFinite, HeldFinite
  <2>2. H = G \cup Lost(o) /\ G \cap Lost(o) = {} BY <1>2, <1>3 DEF Held
  <2>3. IsFiniteSet(Lost(o)) /\ Cardinality(Lost(o)) \in Nat
    BY <2>1, <2>2, FS_Subset, FS_CardinalityType, Lost(o) \in SUBSET H
  <2>4. Pinned(o) = Cardinality(H) /\ Pinned(o)' = Cardinality(G) BY DEF Pinned, Held
  <2> HIDE DEF H, G
  <2>5. Cardinality(G \cup Lost(o)) = Cardinality(G) + Cardinality(Lost(o)) - Cardinality({})
    BY <2>1, <2>2, <2>3, FS_Union
  <2> QED BY <2>1, <2>2, <2>3, <2>4, <2>5, FS_EmptySet
<1>5. \A o \in Owners : drops[o] \in Nat /\ drops'[o] = drops[o] + Cardinality(Lost(o))
  BY <1>1 DEF RefsInv, TypeInv, TypeOK
<1>6. \A o \in Owners : Pinned(o)' \in Nat BY HeldTypesNext
<1>7. drops' \in [Owners -> Nat] BY <1>1, <1>4, <1>5
<1> QED BY <1>4, <1>5, <1>6, <1>7 DEF Settles

LEMMA DestroyRefs ==
  ASSUME RefsInv, FiniteClients, NEW o \in Owners, Destroy(o)
  PROVE  Balanced' /\ ProbesHeld' /\ Living'
<1>1. /\ life[o] = "dying" /\ Retire(VaOf[o]) /\ life' = [life EXCEPT ![o] = "gone"]
      /\ UNCHANGED <<refs, app, snap, pc, probing>>
  BY DEF Destroy, hipVars
<1> DEFINE Hit(k) == reg[k].active /\ VaOf[reg[k].owner] = VaOf[o]
<1>2. \A k \in Slots : reg'[k] = IF Hit(k) THEN [reg[k] EXCEPT !.active = FALSE] ELSE reg[k]
  BY <1>1 DEF Retire
<1>3. \A k \in Slots : /\ reg'[k].probe = reg[k].probe /\ reg'[k].owner = reg[k].owner
                       /\ reg'[k].active => reg[k].active /\ ~Hit(k)
  BY <1>2 DEF RefsInv, TypeInv, TypeOK, Registration
<1>4. Balanced'
  <2>1. \A q \in Owners : Probed(q)' = Probed(q) BY <1>3, ProbedSame
  <2> QED BY <1>1, <2>1, RetireSettles, SettledBalance
<1>5. ProbesHeld' BY <1>1, <1>3, ProbesKept
<1>6. life \in [Owners -> {"live", "dying", "gone"}] BY DEF RefsInv, TypeInv, TypeOK
<1>7. ASSUME NEW q \in Owners PROVE life'[q] = "live" <=> refs'[q] > 0
  <2>1. life[q] = "live" <=> refs[q] > 0 BY DEF RefsInv, Living
  <2> QED BY <1>1, <1>6, <2>1
<1>8. ASSUME NEW k \in Slots, reg'[k].active PROVE life'[reg'[k].owner] # "gone"
  <2>1. reg[k].active /\ ~Hit(k) /\ reg'[k].owner = reg[k].owner BY <1>3, <1>8
  <2>2. reg[k].owner # o /\ reg[k].owner \in Owners
    BY <2>1 DEF RefsInv, TypeInv, WellFormed
  <2>3. life[reg[k].owner] # "gone" BY <2>1 DEF RefsInv, Living
  <2> QED BY <1>1, <1>6, <2>1, <2>2, <2>3
<1> QED BY <1>4, <1>5, <1>7, <1>8 DEF Living

LEMMA MapRefs ==
  ASSUME RefsInv, FiniteClients, NEW k \in Slots, Map(k)
  PROVE  Balanced' /\ ProbesHeld' /\ Living'
<1>1. /\ reg' = [reg EXCEPT ![k].mapped = TRUE]
      /\ UNCHANGED <<frames, refs, app, life, drops, snap, pc, probing>>
  BY DEF Map, ownerVars, hipVars
<1>2. \A j \in Slots : /\ reg'[j].probe = reg[j].probe /\ reg'[j].owner = reg[j].owner
                       /\ reg'[j].active = reg[j].active
  BY <1>1 DEF RefsInv, TypeInv, TypeOK, Registration
<1>3. \A q \in Owners : Probed(q)' = Probed(q) BY <1>2, ProbedSame
<1>4. drops' \in [Owners -> Nat] BY <1>1 DEF RefsInv, TypeInv, TypeOK
<1>5. Balanced' BY <1>1, <1>3, <1>4, QuietSettles, SettledBalance
<1> QED BY <1>1, <1>2, <1>5, ProbesKept, QuietLife, LivingKept DEF ActiveKept

-----------------------------------------------------------------------------
\* The calls of the Vulkan side.

\* References taken are all accounted for.
LEMMA TakenBalance ==
  ASSUME RefsInv, FiniteClients, UNCHANGED app,
         \A o \in Owners : refs'[o] = refs[o] + (drops'[o] - drops[o]) + (Snapped(o)' - Snapped(o))
                                      + (Pinned(o)' - Pinned(o)) + (Probed(o)' - Probed(o)),
         \A o \in Owners : drops'[o] \in Nat /\ Probed(o)' \in Nat
  PROVE  Balanced'
<1>1. ASSUME NEW o \in Owners
      PROVE  refs'[o] = drops'[o] + Snapped(o)' + Pinned(o)' + Probed(o)' + (IF app'[o] THEN 1 ELSE 0)
  <2>1. /\ refs[o] \in Nat /\ drops[o] \in Nat
        /\ Snapped(o) \in Nat /\ Pinned(o) \in Nat /\ Probed(o) \in Nat
        /\ refs[o] = drops[o] + Snapped(o) + Pinned(o) + Probed(o) + (IF app[o] THEN 1 ELSE 0)
    BY RefsCount
  <2>2. /\ refs'[o] = refs[o] + (drops'[o] - drops[o]) + (Snapped(o)' - Snapped(o))
                      + (Pinned(o)' - Pinned(o)) + (Probed(o)' - Probed(o))
        /\ Snapped(o)' \in Nat /\ Pinned(o)' \in Nat /\ drops'[o] \in Nat /\ Probed(o)' \in Nat
        /\ app'[o] = app[o]
    BY HeldTypesNext
  <2> QED BY <2>1, <2>2
<1> QED BY <1>1 DEF Balanced

LEMMA SnapshotRefs ==
  ASSUME RefsInv, FiniteClients, NEW c \in Clients, Snapshot(c)
  PROVE  Balanced' /\ ProbesHeld' /\ Living'
<1> DEFINE mapped == {k \in Slots : reg[k].active /\ reg[k].mapped}
           dead == {k \in mapped : ~Retainable(reg[k].owner)}
           before == {k \in mapped : \A d \in dead : k < d}
           taken == {BufferOf(k) : k \in before}
<1>1. /\ snap[c] = {} /\ refs' = Retaining(taken)
      /\ \/ snap' = [snap EXCEPT ![c] = taken] /\ UNCHANGED drops
         \/ drops' = Dropping(taken) /\ UNCHANGED snap
      /\ UNCHANGED <<reg, frames, app, life, pc, probing>>
  BY DEF Snapshot, hipVars
<1>2. \A k \in before : k \in Slots /\ reg[k].active /\ Retainable(reg[k].owner) BY DEF Slots
<1>3. taken \in SUBSET Buffer BY <1>2, BufferOfType DEF RefsInv
<1>4. \A b \in taken : refs[b.owner] > 0 BY <1>2 DEF BufferOf, Retainable
<1> HIDE DEF mapped, dead, before, taken
<1>5. Alive' /\ NoneFreed BY <1>1, <1>3, <1>4, RetainLife
<1>6. ASSUME NEW o \in Owners
      PROVE  /\ refs'[o] = refs[o] + (drops'[o] - drops[o]) + (Snapped(o)' - Snapped(o))
                           + (Pinned(o)' - Pinned(o)) + (Probed(o)' - Probed(o))
             /\ drops'[o] \in Nat /\ Probed(o)' \in Nat
  <2>1. refs'[o] = refs[o] + Count(taken, o) BY <1>1 DEF Retaining
  <2>2. Pinned(o)' = Pinned(o) /\ Probed(o)' = Probed(o) BY <1>1, PinsSame, ProbedSame
  <2>3. /\ refs[o] \in Nat /\ drops[o] \in Nat
        /\ Snapped(o) \in Nat /\ Pinned(o) \in Nat /\ Probed(o) \in Nat
    BY RefsCount
  <2>4. Count(taken, o) \in Nat BY <1>3, CountFinite
  <2>5. CASE snap' = [snap EXCEPT ![c] = taken] /\ UNCHANGED drops
    <3>1. Count(snap[c], o) = 0 BY <1>1, CountNone
    <3>2. Snapped(o)' = Snapped(o) - Count(snap[c], o) + Count(taken, o)
      BY <1>3, <2>5, SnapPut DEF RefsInv
    <3> QED BY <2>1, <2>2, <2>3, <2>4, <2>5, <3>1, <3>2
  <2>6. CASE drops' = Dropping(taken) /\ UNCHANGED snap
    <3>1. drops'[o] = drops[o] + Count(taken, o) BY <2>6 DEF Dropping
    <3>2. Snapped(o)' = Snapped(o) BY <2>6, SnapSame
    <3> QED BY <2>1, <2>2, <2>3, <2>4, <3>1, <3>2
  <2> QED BY <1>1, <2>5, <2>6
<1>7. Balanced' BY <1>1, <1>6, TakenBalance
<1> QED BY <1>1, <1>5, <1>7, ProbesKept, LivingKept DEF ActiveKept

LEMMA DropSnapshotRefs ==
  ASSUME RefsInv, FiniteClients, NEW c \in Clients, DropSnapshot(c)
  PROVE  Balanced' /\ ProbesHeld' /\ Living'
<1>1. /\ drops' = Dropping(snap[c]) /\ snap' = [snap EXCEPT ![c] = {}]
      /\ UNCHANGED <<reg, frames, refs, app, life, pc, probing>>
  BY DEF DropSnapshot, ownerVars, hipVars
<1>2. snap[c] \in SUBSET Buffer BY DEF RefsInv, TypeInv, TypeOK
<1>3. ASSUME NEW o \in Owners
      PROVE  /\ refs'[o] = refs[o] + (drops'[o] - drops[o]) + (Snapped(o)' - Snapped(o))
                           + (Pinned(o)' - Pinned(o)) + (Probed(o)' - Probed(o))
             /\ drops'[o] \in Nat /\ Probed(o)' \in Nat
  <2>1. drops'[o] = drops[o] + Count(snap[c], o) BY <1>1 DEF Dropping
  <2>2. Pinned(o)' = Pinned(o) /\ Probed(o)' = Probed(o) BY <1>1, PinsSame, ProbedSame
  <2>3. /\ refs[o] \in Nat /\ drops[o] \in Nat
        /\ Snapped(o) \in Nat /\ Pinned(o) \in Nat /\ Probed(o) \in Nat
    BY RefsCount
  <2>4. Count(snap[c], o) \in Nat BY <1>2, CountFinite
  <2>5. Count({}, o) = 0 BY CountNone
  <2>6. Snapped(o)' = Snapped(o) - Count(snap[c], o) + Count({}, o)
    BY <1>1, SnapPut DEF RefsInv
  <2> QED BY <1>1, <2>1, <2>2, <2>3, <2>4, <2>5, <2>6
<1>4. Balanced' BY <1>1, <1>3, TakenBalance
<1> QED BY <1>1, <1>4, ProbesKept, QuietLife, LivingKept DEF ActiveKept

\* A claim of the buffers of a bundle.
LEMMA ClaimRefs ==
  ASSUME RefsInv, FiniteClients, NEW bundle, NEW q,
         reg' = [k \in Slots |-> IF reg[k].active /\ BufferOf(k) \in bundle
                                 THEN [reg[k] EXCEPT !.queue = q] ELSE reg[k]],
         UNCHANGED <<frames, ownerVars, drops, snap, hipVars>>
  PROVE  Balanced' /\ ProbesHeld' /\ Living'
<1>1. UNCHANGED <<frames, refs, app, life, drops, snap, pc, probing>> BY DEF ownerVars, hipVars
<1>2. \A j \in Slots : /\ reg'[j].probe = reg[j].probe /\ reg'[j].owner = reg[j].owner
                       /\ reg'[j].active = reg[j].active
  BY <1>1 DEF RefsInv, TypeInv, TypeOK, Registration
<1>3. \A o \in Owners : Probed(o)' = Probed(o) BY <1>2, ProbedSame
<1>4. drops' \in [Owners -> Nat] BY <1>1 DEF RefsInv, TypeInv, TypeOK
<1>5. Balanced' BY <1>1, <1>3, <1>4, QuietSettles, SettledBalance
<1> QED BY <1>1, <1>2, <1>5, ProbesKept, QuietLife, LivingKept DEF ActiveKept

LEMMA ClaimQueueRefs ==
  ASSUME RefsInv, FiniteClients, NEW c \in Clients, NEW q \in Queues, ClaimQueue(c, q)
  PROVE  Balanced' /\ ProbesHeld' /\ Living'
  BY ClaimRefs DEF ClaimQueue

\* A publication takes a reference per buffer, or gives back those it took.
LEMMA PublishRefs ==
  ASSUME RefsInv, FiniteClients, NEW c \in Clients, NEW t, NEW f \in Frames, Publish(c, t, f)
  PROVE  Balanced' /\ ProbesHeld' /\ Living'
<1> DEFINE entries == {j \in Slots : reg[j].active /\ BufferOf(j) \in snap[c]}
           dead == {j \in entries : ~Retainable(reg[j].owner)}
           before == {BufferOf(j) : j \in {j \in entries : \A d \in dead : j < d}}
<1>1. UNCHANGED <<reg, app, life, snap, pc, probing>> BY DEF Publish, hipVars
<1>2. PICK k \in Found(t) :
        /\ Obtainable(k, f)
        /\ \/ /\ Obtained(k, f).pins = {}
              /\ \A b \in snap[c] : \E j \in entries : BufferOf(j) = b
              /\ dead = {}
              /\ frames' = Put(k, f, [Obtained(k, f) EXCEPT !.pins = snap[c], !.input = TRUE])
              /\ refs' = Retaining(snap[c])
              /\ UNCHANGED drops
           \/ /\ frames' = Put(k, f, Obtained(k, f))
              /\ refs' = Retaining(before) /\ drops' = Dropping(before)
           \/ frames' = Put(k, f, Obtained(k, f)) /\ UNCHANGED <<refs, drops>>
  BY DEF Publish
<1>3. k \in Slots BY FoundType DEF RefsInv
<1>4. /\ Obtained(k, f) \in FrameState
      /\ Obtained(k, f).pins = frames[k][Pos(f)].pins /\ Obtained(k, f).pins \in SUBSET Buffer
  BY <1>2, <1>3, ObtainedType, ObtainedPins DEF RefsInv, TypeInv, TypeOK, FrameState
<1>5. snap[c] \in SUBSET Buffer BY DEF RefsInv, TypeInv, TypeOK
<1>6. before \in SUBSET Buffer /\ \A b \in before : refs[b.owner] > 0
  <2>1. ASSUME NEW j \in entries, \A d \in dead : j < d
        PROVE  BufferOf(j) \in Buffer /\ refs[BufferOf(j).owner] > 0
    <3>1. j \notin dead BY <2>1 DEF Slots
    <3> QED BY <2>1, <3>1, BufferOfType DEF RefsInv, BufferOf, Retainable
  <2> QED BY <2>1
<1>7. dead = {} => \A j \in entries : refs[BufferOf(j).owner] > 0 BY DEF BufferOf, Retainable
<1>8. ActiveKept /\ ProbesHeld' BY <1>1, ProbesKept DEF ActiveKept
<1>9. \A o \in Owners : Snapped(o)' = Snapped(o) /\ Probed(o)' = Probed(o)
  BY <1>1, SnapSame, ProbedSame
<1> HIDE DEF before, dead, entries
<1>10. ASSUME frames' = Put(k, f, Obtained(k, f)), NEW o \in Owners PROVE Pinned(o)' = Pinned(o)
  <2>1. Pinned(o)' = Pinned(o) - Count(Obtained(k, f).pins, o) + Count(Obtained(k, f).pins, o)
    BY <1>3, <1>4, <1>10, PinsPut DEF RefsInv
  <2>2. Count(Obtained(k, f).pins, o) \in Nat BY <1>4, CountFinite
  <2>3. Pinned(o) \in Nat BY RefsCount
  <2> QED BY <2>1, <2>2, <2>3
<1>11. CASE /\ Obtained(k, f).pins = {}
            /\ \A b \in snap[c] : \E j \in entries : BufferOf(j) = b
            /\ dead = {}
            /\ frames' = Put(k, f, [Obtained(k, f) EXCEPT !.pins = snap[c], !.input = TRUE])
            /\ refs' = Retaining(snap[c])
            /\ UNCHANGED drops
  <2>1. \A b \in snap[c] : refs[b.owner] > 0 BY <1>7, <1>11
  <2>2. Alive' /\ NoneFreed BY <1>1, <1>5, <1>11, <2>1, RetainLife
  <2>3. ASSUME NEW o \in Owners
        PROVE  /\ refs'[o] = refs[o] + (drops'[o] - drops[o]) + (Snapped(o)' - Snapped(o))
                             + (Pinned(o)' - Pinned(o)) + (Probed(o)' - Probed(o))
               /\ drops'[o] \in Nat /\ Probed(o)' \in Nat
    <3>1. [Obtained(k, f) EXCEPT !.pins = snap[c], !.input = TRUE].pins = snap[c]
      BY <1>4 DEF FrameState
    <3>2. Pinned(o)' = Pinned(o) - Count({}, o) + Count(snap[c], o)
      <4> DEFINE s == [Obtained(k, f) EXCEPT !.pins = snap[c], !.input = TRUE]
      <4>1. s.pins = snap[c] /\ frames' = Put(k, f, s) BY <1>11, <3>1
      <4>2. frames[k][Pos(f)].pins = {} BY <1>4, <1>11
      <4> HIDE DEF s
      <4>3. Pinned(o)' = Pinned(o) - Count(frames[k][Pos(f)].pins, o) + Count(s.pins, o)
        BY <1>3, <1>5, <4>1, PinsPut DEF RefsInv
      <4> QED BY <4>1, <4>2, <4>3
    <3>3. Count({}, o) = 0 /\ Count(snap[c], o) \in Nat BY <1>5, CountNone, CountFinite
    <3>4. refs'[o] = refs[o] + Count(snap[c], o) BY <1>11 DEF Retaining
    <3> QED BY <1>9, <1>11, <3>2, <3>3, <3>4, RefsCount
  <2>4. Balanced' BY <1>1, <2>3, TakenBalance
  <2> QED BY <1>8, <2>2, <2>4, LivingKept
<1>12. CASE /\ frames' = Put(k, f, Obtained(k, f))
            /\ refs' = Retaining(before) /\ drops' = Dropping(before)
  <2>1. Alive' /\ NoneFreed BY <1>1, <1>6, <1>12, RetainLife
  <2>2. ASSUME NEW o \in Owners
        PROVE  /\ refs'[o] = refs[o] + (drops'[o] - drops[o]) + (Snapped(o)' - Snapped(o))
                             + (Pinned(o)' - Pinned(o)) + (Probed(o)' - Probed(o))
               /\ drops'[o] \in Nat /\ Probed(o)' \in Nat
    <3>1. refs'[o] = refs[o] + Count(before, o) /\ drops'[o] = drops[o] + Count(before, o)
      BY <1>12 DEF Retaining, Dropping
    <3>2. Pinned(o)' = Pinned(o) BY <1>10, <1>12
    <3>3. Count(before, o) \in Nat BY <1>6, CountFinite
    <3> QED BY <1>9, <3>1, <3>2, <3>3, RefsCount
  <2>3. Balanced' BY <1>1, <2>2, TakenBalance
  <2> QED BY <1>8, <2>1, <2>3, LivingKept
<1>13. CASE frames' = Put(k, f, Obtained(k, f)) /\ UNCHANGED <<refs, drops>>
  <2>1. Settles BY <1>10, <1>13 DEF Settles
  <2>2. drops' \in [Owners -> Nat] BY <1>13 DEF RefsInv, TypeInv, TypeOK
  <2>3. Balanced' BY <1>1, <1>9, <1>13, <2>1, <2>2, SettledBalance
  <2> QED BY <1>1, <1>8, <1>13, <2>3, QuietLife, LivingKept
<1> QED BY <1>2, <1>11, <1>12, <1>13

\* The steps that take no reference: they settle, and leave registrations alone.
LEMMA SettlingRefs ==
  ASSUME RefsInv, FiniteClients, Settles, UNCHANGED <<reg, refs, app, life, snap>>,
         drops' \in [Owners -> Nat],
         \A h \in Hips : pc'[h] = "probe" => pc[h] = "probe" /\ probing'[h] = probing[h]
  PROVE  Balanced' /\ ProbesHeld' /\ Living'
<1>1. \A o \in Owners : Probed(o)' = Probed(o) BY ProbedSame
<1>2. Balanced' BY <1>1, SettledBalance
<1>3. ProbesHeld' BY DEF RefsInv, ProbesHeld
<1> QED BY <1>2, <1>3, QuietLife, LivingKept DEF ActiveKept

LEMMA ClientRefs ==
  ASSUME RefsInv, FiniteClients, AnyClient \/ \E c \in Clients : ClientStep(c), TypeInv'
  PROVE  Balanced' /\ ProbesHeld' /\ Living'
<1>1. drops' \in [Owners -> Nat] BY DEF TypeInv, TypeOK
<1>2. ASSUME Settles, UNCHANGED <<reg, refs, app, life, snap, pc, probing>>
      PROVE  Balanced' /\ ProbesHeld' /\ Living'
  BY <1>1, <1>2, SettlingRefs
<1>3. ASSUME NEW t \in KnownTokens, NEW f \in Frames, ClientFail(t, f)
      PROVE  Balanced' /\ ProbesHeld' /\ Living'
  BY <1>2, <1>3, FailFrameSettles DEF ClientFail, ownerVars, hipVars
<1>4. ASSUME NEW t \in KnownTokens, NEW f \in Frames, ConsumerSubmitted(t, f)
      PROVE  Balanced' /\ ProbesHeld' /\ Living'
  <2>1. PICK k \in Found(t) : frames' = Put(k, f, [frames[k][Pos(f)] EXCEPT !.consumed = TRUE])
    BY <1>4 DEF ConsumerSubmitted
  <2>2. k \in Slots BY FoundType DEF RefsInv
  <2>3. frames[k][Pos(f)] \in FrameState BY <2>2, PosInRing DEF RefsInv, TypeInv, TypeOK
  <2>4. [frames[k][Pos(f)] EXCEPT !.consumed = TRUE].pins = frames[k][Pos(f)].pins
    BY <2>3 DEF FrameState
  <2>5. Settles BY <1>4, <2>1, <2>2, <2>4, PutSettles DEF ConsumerSubmitted
  <2> QED BY <1>2, <1>4, <2>5 DEF ConsumerSubmitted, ownerVars, hipVars
<1>5. ASSUME NEW c \in Clients, ClientStep(c) PROVE Balanced' /\ ProbesHeld' /\ Living'
  <2>1. CASE ClientCheck(c)
    BY <1>2, <2>1, CheckSettles DEF ClientCheck, Threads, ownerVars, hipVars
  <2>2. CASE ClientExpire(c)
    BY <1>2, <2>2, ExpireSettles DEF ClientExpire, Threads, ownerVars, hipVars
  <2>3. ASSUME NEW t \in KnownTokens, NEW f \in Frames, WaitOutput(c, t, f)
        PROVE  Balanced' /\ ProbesHeld' /\ Living'
    BY <1>2, <2>3, QuietSettles DEF WaitOutput, ownerVars, hipVars
  <2> QED BY <1>5, <2>1, <2>2, <2>3, SnapshotRefs, DropSnapshotRefs, ClaimQueueRefs, PublishRefs
          DEF ClientStep
<1> QED BY <1>3, <1>4, <1>5 DEF AnyClient

-----------------------------------------------------------------------------
\* The HIP worker.

\* A probe marks a slot nobody has marked and takes one reference for it.
LEMMA ProbeBeginRefs ==
  ASSUME RefsInv, FiniteClients, NEW h \in Hips, NEW kind, NEW k \in Slots, ProbeBegin(h, kind, k)
  PROVE  Balanced' /\ ProbesHeld' /\ Living'
<1> DEFINE b == BufferOf(k)
<1>1. /\ reg[k].active /\ ~Busy(k) /\ Retainable(reg[k].owner)
      /\ reg' = [reg EXCEPT ![k].probe = TRUE] /\ refs' = Retaining({b})
      /\ probing' = [probing EXCEPT ![h].kind = kind, ![h].slot = k]
      /\ pc' = [pc EXCEPT ![h] = "probe"]
      /\ UNCHANGED <<frames, app, life, drops, snap>>
  BY DEF ProbeBegin
<1>2. b \in Buffer /\ b.owner = reg[k].owner /\ refs[b.owner] > 0 /\ ~reg[k].probe
  BY <1>1, BufferOfType DEF RefsInv, BufferOf, Retainable, Busy
<1>3. /\ reg'[k].probe /\ \A j \in Slots \ {k} : reg'[j] = reg[j]
      /\ \A j \in Slots : reg'[j].owner = reg[j].owner /\ reg'[j].active = reg[j].active
  BY <1>1 DEF RefsInv, TypeInv, TypeOK, Registration
<1> HIDE DEF b
<1>4. ASSUME NEW o \in Owners PROVE Probed(o)' = Probed(o) + Count({b}, o) /\ Probed(o)' \in Nat
  <2>1. IsFiniteSet(ProbesOf(o)) /\ Probed(o) \in Nat BY HeldTypes
  <2>2. Count({b}, o) = IF reg[k].owner = o THEN 1 ELSE 0 BY <1>2, CountSingle
  <2>3. k \notin ProbesOf(o) BY <1>2 DEF ProbesOf
  <2>4. CASE reg[k].owner = o
    <3>1. ProbesOf(o)' = ProbesOf(o) \cup {k} BY <1>3, <2>4 DEF ProbesOf
    <3>2. Cardinality(ProbesOf(o) \cup {k}) = Cardinality(ProbesOf(o)) + 1 BY <2>1, <2>3, FS_AddElement
    <3> QED BY <2>1, <2>2, <2>4, <3>1, <3>2 DEF Probed
  <2>5. CASE reg[k].owner # o
    <3>1. ProbesOf(o)' = ProbesOf(o) BY <1>3, <2>5 DEF ProbesOf
    <3> QED BY <2>1, <2>2, <2>5, <3>1 DEF Probed
  <2> QED BY <2>4, <2>5
<1>5. Balanced'
  <2>1. ASSUME NEW o \in Owners
        PROVE  /\ refs'[o] = refs[o] + (drops'[o] - drops[o]) + (Snapped(o)' - Snapped(o))
                             + (Pinned(o)' - Pinned(o)) + (Probed(o)' - Probed(o))
               /\ drops'[o] \in Nat /\ Probed(o)' \in Nat
    <3>1. refs'[o] = refs[o] + Count({b}, o) BY <1>1 DEF Retaining
    <3>2. Pinned(o)' = Pinned(o) /\ Snapped(o)' = Snapped(o) BY <1>1, PinsSame, SnapSame
    <3>3. Count({b}, o) \in Nat BY <1>2, CountFinite
    <3>4. /\ refs[o] \in Nat /\ drops[o] \in Nat
          /\ Snapped(o) \in Nat /\ Pinned(o) \in Nat /\ Probed(o) \in Nat
      BY RefsCount
    <3>5. drops'[o] = drops[o] BY <1>1
    <3>6. Probed(o)' = Probed(o) + Count({b}, o) /\ Probed(o)' \in Nat BY <1>4
    <3> QED BY <3>1, <3>2, <3>3, <3>4, <3>5, <3>6
  <2> QED BY <1>1, <2>1, TakenBalance
<1>6. ProbesHeld'
  <2>1. /\ probing'[h].slot = k /\ \A g \in Hips \ {h} : probing'[g] = probing[g] /\ pc'[g] = pc[g]
    BY <1>1 DEF RefsInv, TypeInv, TypeOK, Probe
  <2>2. ASSUME NEW g \in Hips \ {h}, pc[g] = "probe"
        PROVE  /\ probing[g].slot \in Slots \ {k} /\ reg[probing[g].slot].probe
               /\ \A i \in Hips \ {g} : pc[i] = "probe" => probing[i].slot # probing[g].slot
    BY <1>2, <2>2 DEF RefsInv, ProbesHeld, TypeInv, WellFormed, HipFormed
  <2>3. \A j \in Slots : reg'[j].probe => reg'[j].owner \in Owners
    <3>1. reg[k].owner \in Owners BY <1>1 DEF RefsInv, TypeInv, WellFormed
    <3> QED BY <1>3, <3>1 DEF RefsInv, ProbesHeld
  <2> QED BY <1>3, <2>1, <2>2, <2>3 DEF ProbesHeld
<1>7. Alive' /\ NoneFreed BY <1>1, <1>2, RetainLife
<1> QED BY <1>3, <1>5, <1>6, <1>7, LivingKept DEF ActiveKept

LEMMA ProbeEndRefs ==
  ASSUME RefsInv, FiniteClients, NEW h \in Hips, NEW launched, NEW synced,
         ProbeEnd(h, launched, synced)
  PROVE  Balanced' /\ ProbesHeld' /\ Living'
<1> DEFINE k == probing[h].slot
           b == BufferOf(k)
<1>1. /\ pc[h] = "probe" /\ pc' = [pc EXCEPT ![h] = "run"]
      /\ \/ reg' = [reg EXCEPT ![k].probe = FALSE] /\ drops' = Dropping({b})
         \/ UNCHANGED <<reg, drops>>
      /\ \A g \in Hips \ {h} : probing'[g] = probing[g]
      /\ UNCHANGED <<frames, refs, app, life, snap>>
  BY DEF ProbeEnd, ownerVars, RefsInv, TypeInv, TypeOK
<1>2. k \in Slots /\ reg[k].token # 0 /\ reg[k].probe
  BY <1>1 DEF RefsInv, ProbesHeld, TypeInv, WellFormed, HipFormed
<1>3. b \in Buffer /\ b.owner = reg[k].owner BY <1>2, BufferOfType DEF RefsInv, BufferOf
<1>4. /\ pc'[h] = "run" /\ \A g \in Hips \ {h} : pc'[g] = pc[g]
  BY <1>1 DEF RefsInv, TypeInv, TypeOK
<1>5. CASE UNCHANGED <<reg, drops>>
  <2>1. Settles BY <1>1, <1>5, QuietSettles
  <2>2. drops' \in [Owners -> Nat] BY <1>5 DEF RefsInv, TypeInv, TypeOK
  <2> QED BY <1>1, <1>4, <1>5, <2>1, <2>2, SettlingRefs
<1>6. CASE reg' = [reg EXCEPT ![k].probe = FALSE] /\ drops' = Dropping({b})
  <2>1. /\ ~reg'[k].probe /\ \A j \in Slots \ {k} : reg'[j] = reg[j]
        /\ \A j \in Slots : reg'[j].owner = reg[j].owner /\ reg'[j].active = reg[j].active
    BY <1>2, <1>6 DEF RefsInv, TypeInv, TypeOK, Registration
  <2> HIDE DEF k, b
  <2>2. ASSUME NEW o \in Owners
        PROVE  Probed(o)' = Probed(o) - Count({b}, o) /\ Probed(o)' \in Nat
    <3>1. IsFiniteSet(ProbesOf(o)) /\ Probed(o) \in Nat BY HeldTypes
    <3>2. Count({b}, o) = IF reg[k].owner = o THEN 1 ELSE 0 BY <1>3, CountSingle
    <3>3. IsFiniteSet(ProbesOf(o) \ {k}) /\ Cardinality(ProbesOf(o) \ {k}) \in Nat
      BY <3>1, FS_RemoveElement, FS_CardinalityType
    <3>4. ProbesOf(o)' = ProbesOf(o) \ {k} BY <2>1 DEF ProbesOf
    <3>5. k \in ProbesOf(o) <=> reg[k].owner = o BY <1>2 DEF ProbesOf
    <3>6. Cardinality(ProbesOf(o) \ {k})
            = IF k \in ProbesOf(o) THEN Cardinality(ProbesOf(o)) - 1 ELSE Cardinality(ProbesOf(o))
      BY <3>1, FS_RemoveElement
    <3> QED BY <3>1, <3>2, <3>3, <3>4, <3>5, <3>6 DEF Probed
  <2>3. ASSUME NEW o \in Owners
        PROVE  /\ refs'[o] = refs[o] + (drops'[o] - drops[o]) + (Snapped(o)' - Snapped(o))
                             + (Pinned(o)' - Pinned(o)) + (Probed(o)' - Probed(o))
               /\ drops'[o] \in Nat /\ Probed(o)' \in Nat
    <3>1. drops'[o] = drops[o] + Count({b}, o) BY <1>6 DEF Dropping
    <3>2. Pinned(o)' = Pinned(o) /\ Snapped(o)' = Snapped(o) BY <1>1, PinsSame, SnapSame
    <3>3. Count({b}, o) \in Nat BY <1>3, CountFinite
    <3>4. /\ refs[o] \in Nat /\ drops[o] \in Nat
          /\ Snapped(o) \in Nat /\ Pinned(o) \in Nat /\ Probed(o) \in Nat
      BY RefsCount
    <3>5. refs'[o] = refs[o] BY <1>1
    <3>6. Probed(o)' = Probed(o) - Count({b}, o) /\ Probed(o)' \in Nat BY <2>2
    <3> QED BY <3>1, <3>2, <3>3, <3>4, <3>5, <3>6
  <2>4. Balanced' BY <1>1, <2>3, TakenBalance
  <2>5. ProbesHeld'
    <3>1. ASSUME NEW g \in Hips, pc'[g] = "probe"
          PROVE  /\ probing'[g].slot \in Slots \ {k} /\ reg[probing'[g].slot].probe
                 /\ \A i \in Hips \ {g} : pc'[i] = "probe" => probing'[i].slot # probing'[g].slot
      <4>1. g # h /\ pc[g] = "probe" /\ probing'[g] = probing[g] BY <1>1, <1>4, <3>1
      <4>2. ASSUME NEW i \in Hips, pc'[i] = "probe" PROVE pc[i] = "probe" /\ probing'[i] = probing[i]
        BY <1>1, <1>4, <4>2
      <4>3. probing[g].slot # k BY <1>1, <4>1 DEF RefsInv, ProbesHeld, k
      <4> QED BY <4>1, <4>2, <4>3 DEF RefsInv, ProbesHeld, TypeInv, WellFormed, HipFormed
    <3>2. \A j \in Slots : reg'[j].probe => reg'[j].owner \in Owners BY <2>1 DEF RefsInv, ProbesHeld
    <3> QED BY <2>1, <3>1, <3>2 DEF ProbesHeld
  <2> QED BY <1>1, <2>1, <2>4, <2>5, QuietLife, LivingKept DEF ActiveKept
<1> QED BY <1>1, <1>5, <1>6

LEMMA HipRefs ==
  ASSUME RefsInv, FiniteClients, NEW h \in Hips, HipStep(h), TypeInv'
  PROVE  Balanced' /\ ProbesHeld' /\ Living'
<1>1. drops' \in [Owners -> Nat] BY DEF TypeInv, TypeOK
<1>2. pc \in [Hips -> {"run", "begin", "claim", "marker", "probe"}] BY DEF RefsInv, TypeInv, TypeOK
<1>3. ASSUME Settles, UNCHANGED <<reg, refs, app, life, snap, probing>>,
             \A g \in Hips : pc'[g] = "probe" => pc[g] = "probe"
      PROVE  Balanced' /\ ProbesHeld' /\ Living'
  BY <1>1, <1>3, SettlingRefs
<1>4. ASSUME UNCHANGED <<frames, drops>> PROVE Settles BY <1>4, QuietSettles
<1>5. ASSUME NEW j, j.token = job[h].token, j.frame = job[h].frame, FailJob(h, j) PROVE Settles
  BY <1>5, FailJobSettles
<1>6. CASE HipCheck(h)
  <2>1. Settles BY <1>6, CheckSettles DEF HipCheck, Threads
  <2>2. \A g \in Hips : pc'[g] = "probe" => pc[g] = "probe" BY <1>2, <1>6 DEF HipCheck
  <2> QED BY <1>3, <1>6, <2>1, <2>2 DEF HipCheck, ownerVars
<1>7. CASE HipExpire(h)
  <2>1. Settles BY <1>7, ExpireSettles DEF HipExpire, Threads
  <2>2. \A g \in Hips : pc'[g] = "probe" => pc[g] = "probe" BY <1>2, <1>7 DEF HipExpire
  <2> QED BY <1>3, <1>7, <2>1, <2>2 DEF HipExpire, ownerVars
<1>8. CASE Claim(h)
  <2>1. \A g \in Hips : pc'[g] = "probe" => pc[g] = "probe" BY <1>2, <1>8 DEF Claim
  <2> QED BY <1>3, <1>8, <2>1, ClaimSettles DEF Claim, ownerVars
<1>9. CASE FinishMarker(h)
  <2>1. job[h].active BY <1>9 DEF FinishMarker, RefsInv, TypeInv, WellFormed, HipFormed
  <2>2. FailJob(h, job[h]) \/ Complete(h) BY <1>9 DEF FinishMarker
  <2>3. Settles BY <1>5, <2>1, <2>2, CompleteSettles
  <2>4. \A g \in Hips : pc'[g] = "probe" => pc[g] = "probe" BY <1>2, <1>9 DEF FinishMarker
  <2> QED BY <1>3, <1>9, <2>3, <2>4 DEF FinishMarker, ownerVars
<1>10. ASSUME DeviceSync(h) \/ \E s \in LaunchStreams : StreamSync(h, s)
       PROVE  Balanced' /\ ProbesHeld' /\ Living'
  <2>1. \/ FailJob(h, job[h])
        \/ job[h].active /\ Complete(h)
        \/ UNCHANGED <<frames, drops>>
    BY <1>10 DEF DeviceSync, StreamSync
  <2>2. Settles BY <1>4, <1>5, <2>1, CompleteSettles
  <2>3. UNCHANGED <<reg, refs, app, life, snap, pc, probing>>
    BY <1>10 DEF DeviceSync, StreamSync, ownerVars
  <2> QED BY <1>3, <2>2, <2>3
<1>11. CASE ThreadExit(h)
  <2>1. Settles BY <1>4, <1>11 DEF ThreadExit
  <2>2. \A g \in Hips : pc'[g] = "probe" => pc[g] = "probe" /\ probing'[g] = probing[g]
    BY <1>11 DEF ThreadExit, RefsInv, TypeInv, TypeOK
  <2> QED BY <1>1, <1>11, <2>1, <2>2, SettlingRefs DEF ThreadExit, ownerVars
<1>12. ASSUME NEW f \in Frames, BeginJob(h, f) PROVE Balanced' /\ ProbesHeld' /\ Living'
  <2>1. FailJob(h, job[h]) \/ UNCHANGED <<frames, drops>> BY <1>12 DEF BeginJob
  <2>2. \A g \in Hips : pc'[g] = "probe" => pc[g] = "probe" BY <1>2, <1>12 DEF BeginJob
  <2> QED BY <1>3, <1>4, <1>5, <1>12, <2>1, <2>2 DEF BeginJob, ownerVars
<1>13. ASSUME NEW import \in BOOLEAN, NEW s \in LaunchStreams, Launch(h, import, s)
       PROVE  Balanced' /\ ProbesHeld' /\ Living'
  <2> DEFINE j == job[h]
             routed == IF j.bound = None /\ import THEN [j EXCEPT !.bound = s] ELSE j
  <2>1. FailJob(h, j) \/ FailJob(h, routed) \/ UNCHANGED <<frames, drops>> BY <1>13 DEF Launch
  <2>2. routed.token = j.token /\ routed.frame = j.frame
    BY DEF RefsInv, TypeInv, TypeOK, Job
  <2> HIDE DEF routed
  <2>3. Settles BY <1>4, <1>5, <2>1, <2>2
  <2> QED BY <1>3, <1>13, <2>3 DEF Launch, ownerVars
<1>14. ASSUME NEW exact \in BOOLEAN, SetFlag(h, exact) PROVE Balanced' /\ ProbesHeld' /\ Living'
  <2>1. FailJob(h, job[h]) \/ UNCHANGED <<frames, drops>> BY <1>14 DEF SetFlag
  <2>2. \A g \in Hips : pc'[g] = "probe" => pc[g] = "probe" BY <1>2, <1>14 DEF SetFlag
  <2> QED BY <1>3, <1>4, <1>5, <1>14, <2>1, <2>2 DEF SetFlag, ownerVars
<1> QED
  BY <1>6, <1>7, <1>8, <1>9, <1>10, <1>11, <1>12, <1>13, <1>14, ProbeBeginRefs, ProbeEndRefs DEF HipStep

-----------------------------------------------------------------------------
LEMMA RefsInit == ASSUME FiniteClients PROVE Init => Balanced /\ ProbesHeld /\ Living
<1> SUFFICES ASSUME Init PROVE Balanced /\ ProbesHeld /\ Living OBVIOUS
<1>1. ASSUME NEW o \in Owners
      PROVE  refs[o] = drops[o] + Snapped(o) + Pinned(o) + Probed(o) + (IF app[o] THEN 1 ELSE 0)
  <2>1. Held(snap, Clients, o) = {} BY DEF Init, Held
  <2>2. \A x \in Places : Pins[x] = {} BY DEF Init, FreshFrame, Pins, Places
  <2>3. Held(Pins, Places, o) = {} BY <2>2 DEF Held
  <2>4. ProbesOf(o) = {} BY DEF Init, NoRegistration, ProbesOf
  <2>5. Snapped(o) = 0 /\ Pinned(o) = 0 /\ Probed(o) = 0
    BY <2>1, <2>3, <2>4, FS_EmptySet DEF Snapped, Pinned, Probed
  <2> QED BY <2>5 DEF Init
<1>2. ProbesHeld BY DEF Init, NoRegistration, ProbesHeld
<1>3. Living BY DEF Init, NoRegistration, Living
<1> QED BY <1>1, <1>2, <1>3 DEF Balanced

LEMMA RefsStep ==
  ASSUME FiniteClients
  PROVE  TypeInv /\ Balanced /\ ProbesHeld /\ Living /\ TypeInv' /\ [Next]_vars
           => Balanced' /\ ProbesHeld' /\ Living'
<1> SUFFICES ASSUME RefsInv, TypeInv', [Next]_vars PROVE Balanced' /\ ProbesHeld' /\ Living'
  BY DEF RefsInv
<1>1. CASE UNCHANGED vars
  <2>1. UNCHANGED <<reg, frames, refs, app, life, drops, snap, pc, probing>>
    BY <1>1 DEF vars, ownerVars, hipVars
  <2>2. drops' \in [Owners -> Nat] BY DEF TypeInv, TypeOK
  <2> QED BY <2>1, <2>2, QuietSettles, SettlingRefs
<1>2. CASE Lifetime BY <1>2, RegisterRefs, ReleaseRefs, DestroyRefs, MapRefs DEF Lifetime
<1> QED BY <1>1, <1>2, ClientRefs, HipRefs DEF Next

LEMMA RefsAlways == ASSUME FiniteClients PROVE Spec => []RefsInv
<1>1. Spec => [](Balanced /\ ProbesHeld /\ Living)
  BY RefsInit, RefsStep, WellFormedAlways, PTL DEF Spec
<1> QED BY <1>1, WellFormedAlways, PTL DEF RefsInv

\* Every reference of every owner is accounted for, for any number of owners,
\* registrations, frames and threads: what a publication, snapshot, probe or job
\* takes, it gives back once, whatever fails between.
THEOREM ReferencesAreConserved == ASSUME FiniteClients PROVE Spec => []RefsConserved
<1>1. RefsInv => RefsConserved BY BalancedIsConserved DEF RefsInv
<1> QED BY <1>1, RefsAlways, PTL

\* A reference that is counted keeps its owner from being freed.
LEMMA CountedLives == ASSUME FiniteClients, RefsInv PROVE NoDanglingOwner
<1>1. ASSUME NEW o \in Owners, Snapped(o) > 0 \/ Pinned(o) > 0 \/ Probed(o) > 0
      PROVE  life[o] # "gone"
  <2>1. /\ refs[o] \in Nat /\ drops[o] \in Nat
        /\ Snapped(o) \in Nat /\ Pinned(o) \in Nat /\ Probed(o) \in Nat
        /\ refs[o] = drops[o] + Snapped(o) + Pinned(o) + Probed(o) + (IF app[o] THEN 1 ELSE 0)
    BY RefsCount
  <2>2. refs[o] > 0 BY <1>1, <2>1
  <2> QED BY <2>2 DEF RefsInv, Living
<1>2. ASSUME NEW k \in Slots, reg[k].active \/ reg[k].probe PROVE life[reg[k].owner] # "gone"
  <2>1. CASE reg[k].active BY <2>1 DEF RefsInv, Living
  <2>2. CASE reg[k].probe /\ reg[k].owner \in Owners
    <3> DEFINE o == reg[k].owner
    <3>1. k \in ProbesOf(o) BY <2>2 DEF ProbesOf
    <3>2. IsFiniteSet(ProbesOf(o)) /\ Probed(o) \in Nat BY HeldTypes
    <3>3. Probed(o) > 0 BY <3>1, <3>2, FS_EmptySet DEF Probed
    <3> QED BY <1>1, <2>2, <3>3
  <2>3. reg[k].probe => reg[k].owner \in Owners BY DEF RefsInv, ProbesHeld
  <2> QED BY <1>2, <2>1, <2>2, <2>3
<1>3. ASSUME NEW k \in Slots, NEW i \in Ring, NEW b \in frames[k][i].pins PROVE life[b.owner] # "gone"
  <2> DEFINE o == b.owner
             z == << <<k, i>>, b>>
  <2>1. b \in Buffer /\ o \in Owners BY DEF RefsInv, TypeInv, TypeOK, FrameState, Buffer
  <2>2. z \in Held(Pins, Places, o) BY <2>1 DEF Held, Pins, Places
  <2>3. IsFiniteSet(Held(Pins, Places, o)) /\ Pinned(o) \in Nat
    BY PlacesFinite, HeldFinite DEF Pinned
  <2>4. Pinned(o) > 0 BY <2>2, <2>3, FS_EmptySet DEF Pinned
  <2> QED BY <1>1, <2>1, <2>4
<1>4. ASSUME NEW c \in Clients, NEW b \in snap[c] PROVE life[b.owner] # "gone"
  <2> DEFINE o == b.owner
             z == <<c, b>>
  <2>1. b \in Buffer /\ o \in Owners BY DEF RefsInv, TypeInv, TypeOK, Buffer
  <2>2. z \in Held(snap, Clients, o) BY <2>1 DEF Held
  <2>3. IsFiniteSet(Held(snap, Clients, o)) /\ Snapped(o) \in Nat
    BY HeldFinite DEF Snapped, FiniteClients
  <2>4. Snapped(o) > 0 BY <2>2, <2>3, FS_EmptySet DEF Snapped
  <2> QED BY <1>1, <2>1, <2>4
<1> QED BY <1>2, <1>3, <1>4 DEF NoDanglingOwner

\* The registry holds no reference of its own, yet whatever it can reach under
\* the mutex has not been freed.
THEOREM NoOwnerDangles == ASSUME FiniteClients PROVE Spec => []NoDanglingOwner
<1>1. RefsInv => NoDanglingOwner BY CountedLives
<1> QED BY <1>1, RefsAlways, PTL

=============================================================================
