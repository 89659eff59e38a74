------------------------ MODULE OrderedClientProofs ------------------------
(***************************************************************************)
(* Proofs about the registry together with the vkd3d-proton client, for     *)
(* every number of command lists, queues, registrations, frames and HIP     *)
(* threads, on both streams of the payload.                                 *)
(*                                                                         *)
(* The argument has two halves.  What a frame asks of the GPU (a published  *)
(* input that is not answered, a kernel that may still run) is asked only   *)
(* by the worker that claimed the buffer, and that worker leaves the frame  *)
(* either answered or with the device removed; so no frame is published     *)
(* again while something of it runs.  And what an execute sent is covered   *)
(* by the worker, by a fence or by an allocator that is given up.           *)
(***************************************************************************)
EXTENDS OrderedClient, NrRendezvousProofs

-----------------------------------------------------------------------------
\* What frame f of registration t still asks of the GPU.
Requested(t, f) ==
  \/ \E k \in Slots : reg[k].token = t /\ Holds(k, f) /\ frames[k][Pos(f)].input
                      /\ ~frames[k][Pos(f)].output
  \/ \E g \in gpu : g.token = t /\ g.frame = f

\* A kernel belongs to an active job that synchronises its stream, or to a frame
\* that can no longer be answered.
Running(g) ==
  LET j == job[g.by]
  IN  j.active /\ j.token = g.token /\ j.frame = g.frame /\ g.stream \in JobStreams(j)
Quiet(t, f) ==
  \A k \in Slots : reg[k].token = t /\ Holds(k, f) =>
    LET s == frames[k][Pos(f)]
    IN  \/ s.error \/ ~s.input
        \/ s.owned /\ ~\E h \in Hips : /\ job[h].active /\ job[h].slot = k
                                       /\ Pos(job[h].frame) = Pos(f)
KernelsInv == \A g \in gpu : /\ g.token \in KnownTokens /\ g.frame \in Frames
                             /\ Running(g) \/ Quiet(g.token, g.frame)

RendezvousInv == WakeInv /\ JobOwnsItsState /\ StatesShaped /\ KernelsInv

\* How a step may treat a frame state: it asks for nothing new, and it leaves
\* what cannot be answered so.
Tame(s, d) ==
  d.input => /\ d.output \/ (d.frame = s.frame /\ s.input /\ ~s.output)
             /\ d.error \/ (d.frame = s.frame /\ s.input /\ ~s.error /\ (s.owned => d.owned))
AsksNothing(s, d) == d.input => d.output \/ (d.frame = s.frame /\ s.input /\ ~s.output)

CellsTame == \A k \in Slots, i \in Ring : Tame(frames[k][i], frames'[k][i])
CellsAskNothing == \A k \in Slots, i \in Ring : AsksNothing(frames[k][i], frames'[k][i])
TokensStay == \A k \in Slots : reg'[k].token = reg[k].token \/ \A i \in Ring : ~frames'[k][i].input
KernelsOfJobs == \A g \in gpu' \ gpu : \E h \in Hips :
                   job[h].active /\ g.token = job[h].token /\ g.frame = job[h].frame
AsksNothingNew == CellsAskNothing /\ TokensStay /\ KernelsOfJobs

\* A job that is active stays so, and what is active was so.
JobsLast ==
  \A h \in Hips : job[h].active => /\ job'[h].active /\ job'[h].token = job[h].token
                                   /\ job'[h].frame = job[h].frame
                                   /\ job[h].bound = "work" => job'[h].bound = "work"
NoJobStarts == \A h \in Hips : job'[h].active => SameJob(h)

LEMMA TameReflexive == \A s : Tame(s, s)
  BY DEF Tame

LEMMA TameCells == CellsTame => CellsAskNothing
  BY DEF CellsTame, CellsAskNothing, Tame, AsksNothing

LEMMA SameCells == UNCHANGED frames => CellsTame
  BY TameReflexive DEF CellsTame

LEMMA PutTame ==
  ASSUME TypeInv, NEW k \in Slots, NEW f \in Frames, NEW s, frames' = Put(k, f, s),
         Tame(frames[k][Pos(f)], s)
  PROVE  CellsTame
<1>1. \A j \in Slots, i \in Ring : frames'[j][i] = IF j = k /\ i = Pos(f) THEN s ELSE frames[j][i]
  BY PutAt
<1> QED BY <1>1, TameReflexive DEF CellsTame

\* The state nr_frame gives out, as it is and failed.
LEMMA ObtainedTame ==
  ASSUME TypeInv, NEW k \in Slots, NEW f \in Frames
  PROVE  /\ Tame(frames[k][Pos(f)], Obtained(k, f))
         /\ Tame(frames[k][Pos(f)], Failed(Obtained(k, f)))
         /\ Tame(frames[k][Pos(f)], Failed(frames[k][Pos(f)]))
<1> DEFINE s == frames[k][Pos(f)]
<1>1. s \in FrameState BY PosInRing DEF TypeInv, TypeOK
<1>2. /\ Failed(s).frame = s.frame /\ Failed(s).input = s.input /\ Failed(s).output = s.output
      /\ Failed(s).error
  BY <1>1 DEF FrameState, Failed
<1>3. Tame(s, Failed(s)) BY <1>2 DEF Tame
<1>4. CASE Holds(k, f) BY <1>3, <1>4, TameReflexive DEF Obtained
<1>5. CASE ~Holds(k, f)
  <2>1. Obtained(k, f) = FreshFrame(f) BY <1>5 DEF Obtained
  <2>2. ~FreshFrame(f).input /\ ~Failed(FreshFrame(f)).input BY DEF FreshFrame, Failed
  <2> QED BY <1>3, <2>1, <2>2 DEF Tame
<1> QED BY <1>4, <1>5

LEMMA FailFrameTame == ASSUME TypeInv, NEW t, NEW f \in Frames, FailFrame(t, f) PROVE CellsTame
<1>1. CASE \E k \in Found(t) : Obtainable(k, f) /\ frames' = Put(k, f, Failed(Obtained(k, f)))
  BY <1>1, FoundType, ObtainedTame, PutTame
<1>2. CASE UNCHANGED frames BY <1>2, SameCells
<1> QED BY <1>1, <1>2 DEF FailFrame

LEMMA FailJobTame ==
  ASSUME TypeInv, NEW h \in Hips, NEW j, j.token = job[h].token, j.frame = job[h].frame,
         FailJob(h, j)
  PROVE  CellsTame
<1>1. job[h].token # 0 => job[h].frame \in Frames BY DEF TypeInv, WellFormed, HipFormed
<1> QED BY <1>1, FailFrameTame, SameCells DEF FailJob

LEMMA CheckTame == ASSUME TypeInv, NEW t \in Threads, Check(t) PROVE CellsTame
<1>1. waiter[t].frame \in Frames BY DEF Check, TypeInv, WellFormed
<1> QED BY <1>1, FoundType, ObtainedTame, PutTame, SameCells DEF Check

LEMMA ExpireTame == ASSUME TypeInv, NEW t \in Threads, Expire(t) PROVE CellsTame
<1>1. waiter[t].frame \in Frames BY DEF Expire, TypeInv, WellFormed
<1> QED BY <1>1, FoundType, ObtainedTame, PutTame, SameCells DEF Expire

LEMMA ConsumedTame ==
  ASSUME TypeInv, NEW t, NEW f \in Frames, ConsumerSubmitted(t, f)
  PROVE  CellsTame
<1>1. PICK k \in Found(t) :
        /\ frames[k][Pos(f)].output
        /\ frames' = Put(k, f, [frames[k][Pos(f)] EXCEPT !.consumed = TRUE])
  BY DEF ConsumerSubmitted
<1>2. k \in Slots /\ frames[k][Pos(f)] \in FrameState BY FoundType, PosInRing DEF TypeInv, TypeOK
<1>3. Tame(frames[k][Pos(f)], [frames[k][Pos(f)] EXCEPT !.consumed = TRUE])
  BY <1>1, <1>2 DEF Tame, FrameState
<1> QED BY <1>1, <1>2, <1>3, PutTame

-----------------------------------------------------------------------------
\* Requests and kernels.

LEMMA NothingNewRequested ==
  ASSUME AsksNothingNew, RendezvousInv, NEW t, NEW f \in Frames, Requested(t, f)'
  PROVE  Requested(t, f)
<1>1. Pos(f) \in Ring BY PosInRing
<1>2. ASSUME NEW k \in Slots, reg'[k].token = t, Holds(k, f)', frames'[k][Pos(f)].input,
             ~frames'[k][Pos(f)].output
      PROVE  Requested(t, f)
  <2>1. AsksNothing(frames[k][Pos(f)], frames'[k][Pos(f)])
    BY <1>1 DEF AsksNothingNew, CellsAskNothing
  <2>2. reg[k].token = t BY <1>1, <1>2 DEF AsksNothingNew, TokensStay
  <2> QED BY <1>2, <2>1, <2>2 DEF AsksNothing, Requested, Holds, Pos
<1>3. ASSUME NEW g \in gpu', g.token = t, g.frame = f PROVE Requested(t, f)
  <2>1. CASE g \in gpu BY <1>3, <2>1 DEF Requested
  <2>2. CASE g \notin gpu
    <3>1. PICK h \in Hips : job[h].active /\ t = job[h].token /\ f = job[h].frame
      BY <1>3, <2>2 DEF AsksNothingNew, KernelsOfJobs
    <3>2. LET k == job[h].slot
          IN  /\ k \in Slots /\ reg[k].token = t /\ frames[k][Pos(f)].frame = f
              /\ frames[k][Pos(f)].input /\ ~frames[k][Pos(f)].output
      BY <3>1 DEF RendezvousInv, JobOwnsItsState
    <3> QED BY <3>2 DEF Requested, Holds
  <2> QED BY <2>1, <2>2
<1> QED BY <1>2, <1>3 DEF Requested, Pos, Holds

LEMMA RunningKept ==
  ASSUME JobsLast, RendezvousInv, NEW g \in gpu, Running(g)
  PROVE  Running(g)'
<1>1. g.by \in Hips BY DEF RendezvousInv, WakeInv, TypeInv, TypeOK, Kernel
<1>2. JobStreams(job[g.by]) \subseteq JobStreams(job'[g.by])
  BY <1>1 DEF JobsLast, Running, JobStreams
<1> QED BY <1>1, <1>2 DEF JobsLast, Running, JobStreams

LEMMA QuietKept ==
  ASSUME CellsTame, TokensStay, NoJobStarts, NEW t, NEW f \in Frames, Quiet(t, f)
  PROVE  Quiet(t, f)'
<1>1. Pos(f) \in Ring BY PosInRing
<1> SUFFICES ASSUME NEW k \in Slots, reg'[k].token = t, Holds(k, f)', ~frames'[k][Pos(f)].error,
                    frames'[k][Pos(f)].input
             PROVE  /\ frames'[k][Pos(f)].owned
                    /\ ~\E h \in Hips : /\ job'[h].active /\ job'[h].slot = k
                                        /\ Pos(job'[h].frame) = Pos(f)
  BY DEF Quiet, Holds, Pos
<1> DEFINE s == frames[k][Pos(f)]
           d == frames'[k][Pos(f)]
<1>2. Tame(s, d) BY <1>1 DEF CellsTame
<1>3. s.frame = f /\ s.input /\ ~s.error /\ (s.owned => d.owned)
  BY <1>2 DEF Tame, Holds, Pos
<1>4. reg[k].token = t BY <1>1 DEF TokensStay
<1>5. /\ s.owned
      /\ ~\E h \in Hips : job[h].active /\ job[h].slot = k /\ Pos(job[h].frame) = Pos(f)
  BY <1>3, <1>4 DEF Quiet, Holds
<1> QED BY <1>3, <1>5 DEF NoJobStarts, SameJob

LEMMA KnownKept ==
  ASSUME nextToken \in Int, nextToken' \in {nextToken, nextToken + 1}
  PROVE  KnownTokens \subseteq KnownTokens'
<1>1. \A n \in Int : 1 .. (n - 1) \subseteq 1 .. (n + 1 - 1) OBVIOUS
<1>2. CASE nextToken' = nextToken BY <1>2 DEF KnownTokens
<1>3. CASE nextToken' = nextToken + 1
  <2>1. KnownTokens' = 1 .. (nextToken + 1 - 1) BY <1>3 DEF KnownTokens
  <2> QED BY <1>1, <2>1 DEF KnownTokens
<1> QED BY <1>2, <1>3

\* Steps that neither start nor end a job.
LEMMA KernelsTamed ==
  ASSUME RendezvousInv, CellsTame, TokensStay, NoJobStarts, JobsLast,
         KnownTokens \subseteq KnownTokens',
         \A g \in gpu' \ gpu : g.token \in KnownTokens /\ g.frame \in Frames /\ Running(g)'
  PROVE  KernelsInv'
<1> SUFFICES ASSUME NEW g \in gpu'
             PROVE  /\ g.token \in KnownTokens' /\ g.frame \in Frames
                    /\ Running(g)' \/ Quiet(g.token, g.frame)'
  BY DEF KernelsInv
<1>1. CASE g \in gpu
  <2>1. g.token \in KnownTokens /\ g.frame \in Frames /\ (Running(g) \/ Quiet(g.token, g.frame))
    BY <1>1 DEF RendezvousInv, KernelsInv
  <2> QED BY <1>1, <2>1, RunningKept, QuietKept
<1>2. CASE g \notin gpu BY <1>2
<1> QED BY <1>1, <1>2

\* A kernel that an active job launches on one of its streams.
LEMMA LaunchedByJob ==
  ASSUME RendezvousInv, NEW h \in Hips, job[h].active, NEW stream \in {"marker", "work"}
  PROVE  LET g == KernelOf(h, stream)
         IN  /\ g.by = h /\ g.stream = stream /\ g.token = job[h].token /\ g.frame = job[h].frame
             /\ g.token \in KnownTokens /\ g.frame \in Frames
<1>1. job[h] \in Job /\ job[h].token # 0 /\ job[h].frame \in Frames
  BY DEF RendezvousInv, WakeInv, TypeInv, TypeOK, WellFormed, HipFormed
<1>2. reg[job[h].slot].token = job[h].token /\ job[h].slot \in Slots
  BY DEF RendezvousInv, JobOwnsItsState
<1>3. job[h].token < nextToken BY <1>2 DEF RendezvousInv, WakeInv, TokensUnique
<1>4. job[h].token \in KnownTokens
  BY <1>1, <1>3, SizesAssumption DEF KnownTokens, Job, Tokens, RendezvousInv, WakeInv, TypeInv, TypeOK
<1> QED BY <1>1, <1>4 DEF KernelOf

\* Completing a job ends its requests: answered only when no kernel of the frame
\* is left, failed otherwise.
LEMMA CompleteKernels ==
  ASSUME RendezvousInv, NEW h \in Hips, job[h].active, Complete(h), UNCHANGED <<reg, nextToken>>,
         gpu' \subseteq gpu,
         job[h].sealed => gpu' \subseteq gpu \ WorkOf(h, JobStreams(job[h]))
  PROVE  AsksNothingNew /\ KernelsInv'
<1> USE DEF RendezvousInv, WakeInv
<1> DEFINE j == job[h]
           s == frames[j.slot][Pos(j.frame)]
           bad == j.error \/ s.error \/ Found(j.token) = {} \/ ~s.input \/ s.output \/ s.consumed
           d == [s EXCEPT !.error = @ \/ bad, !.output = @ \/ ~bad, !.owned = FALSE, !.pins = {}]
<1>1. KernelsOfJobs /\ TokensStay /\ KnownTokens \subseteq KnownTokens'
  BY DEF KernelsOfJobs, TokensStay, KnownTokens
<1>2. CASE UNCHANGED <<frames, job>>
  <2>1. NoJobStarts /\ JobsLast BY <1>2 DEF NoJobStarts, JobsLast, SameJob
  <2> QED BY <1>1, <1>2, <2>1, SameCells, TameCells, KernelsTamed DEF AsksNothingNew
<1>3. CASE ~UNCHANGED <<frames, job>>
  <2>1. /\ bad \/ j.sealed
        /\ frames' = Put(j.slot, j.frame, d)
        /\ job' = [job EXCEPT ![h] = [j EXCEPT !.active = FALSE, !.slot = None, !.error = bad]]
    BY <1>3 DEF Complete
  <2>2. j \in Job /\ j.slot \in Slots /\ j.frame \in Frames /\ Pos(j.frame) \in Ring
    BY PosInRing DEF TypeInv, TypeOK, WellFormed, HipFormed
  <2>3. s \in FrameState /\ s.frame = j.frame /\ reg[j.slot].token = j.token /\ ~s.output /\ j.token # 0
    BY <2>2 DEF TypeInv, TypeOK, WellFormed, HipFormed, JobOwnsItsState
  <2>4. /\ d.frame = s.frame /\ d.input = s.input /\ (bad => d.error /\ ~d.output)
        /\ (~bad => d.output)
    BY <2>3 DEF FrameState
  <2>5. bad \in BOOLEAN /\ (~bad => s.input /\ ~s.error)
    BY <2>2, <2>3 DEF FrameState, Job
  <2> HIDE DEF d, bad
  <2>6. /\ ~job'[h].active /\ \A i \in Hips \ {h} : job'[i] = job[i]
    BY <2>1, <2>2 DEF TypeInv, TypeOK, Job
  <2>7. \A m \in Slots, i \in Ring :
          frames'[m][i] = IF m = j.slot /\ i = Pos(j.frame) THEN d ELSE frames[m][i]
    BY <2>1, <2>2, PutAt
  <2>8. CellsAskNothing
    <3>1. AsksNothing(s, d) BY <2>3, <2>4, <2>5 DEF AsksNothing
    <3>2. \A m \in Slots, i \in Ring : AsksNothing(frames[m][i], frames[m][i]) BY DEF AsksNothing
    <3> QED BY <2>7, <3>1, <3>2 DEF CellsAskNothing
  <2>9. ASSUME NEW g \in gpu' PROVE Running(g)' \/ Quiet(g.token, g.frame)'
    <3>1. g \in gpu /\ g.by \in Hips /\ g.frame \in Frames /\ Pos(g.frame) \in Ring
      BY PosInRing DEF TypeInv, TypeOK, Kernel, KernelsInv
    <3>2. CASE Running(g) /\ g.by # h
      BY <2>6, <3>1, <3>2 DEF Running, JobStreams
    <3>3. CASE Running(g) /\ g.by = h
      <4>1. g.token = j.token /\ g.frame = j.frame BY <3>3 DEF Running
      <4>2. bad BY <2>1, <3>1, <3>3 DEF Running, WorkOf
      <4>3. \A k \in Slots : reg'[k].token = g.token => k = j.slot
        BY <2>2, <2>3, <4>1 DEF TokensUnique
      <4>4. frames'[j.slot][Pos(g.frame)].error BY <2>2, <2>4, <2>7, <4>1, <4>2
      <4> QED BY <4>3, <4>4 DEF Quiet, Holds, Pos
    <3>4. CASE ~Running(g)
      <4>1. Quiet(g.token, g.frame) BY <3>1, <3>4 DEF KernelsInv
      <4>2. ASSUME NEW k \in Slots, reg'[k].token = g.token, Holds(k, g.frame)',
                   ~frames'[k][Pos(g.frame)].error, frames'[k][Pos(g.frame)].input
            PROVE  /\ frames'[k][Pos(g.frame)].owned
                   /\ ~\E i \in Hips : /\ job'[i].active /\ job'[i].slot = k
                                       /\ Pos(job'[i].frame) = Pos(g.frame)
        <5>1. CASE k = j.slot /\ Pos(g.frame) = Pos(j.frame)
          <6>1. frames'[k][Pos(g.frame)] = d BY <2>7, <3>1, <5>1
          <6>2. ~bad /\ g.frame = j.frame BY <2>3, <2>4, <2>5, <4>2, <6>1 DEF Holds, Pos
          <6>3. s.input /\ ~s.error /\ reg[k].token = g.token /\ Holds(k, g.frame)
            BY <2>3, <2>5, <4>2, <5>1, <6>2 DEF Holds
          <6> QED BY <4>1, <5>1, <6>3 DEF Quiet
        <5>2. CASE ~(k = j.slot /\ Pos(g.frame) = Pos(j.frame))
          <6>1. frames'[k][Pos(g.frame)] = frames[k][Pos(g.frame)] BY <2>7, <3>1, <5>2
          <6>2. Holds(k, g.frame) /\ reg[k].token = g.token BY <4>2, <6>1 DEF Holds, Pos
          <6> QED BY <2>6, <4>1, <4>2, <6>1, <6>2 DEF Quiet
        <5> QED BY <5>1, <5>2
      <4> QED BY <4>2 DEF Quiet, Holds, Pos
    <3> QED BY <3>2, <3>3, <3>4
  <2> QED BY <1>1, <2>8, <2>9 DEF AsksNothingNew, KernelsInv
<1> QED BY <1>2, <1>3

\* A step of h that keeps the identity of its job, and may launch on its streams.
LEMMA JobKernels ==
  ASSUME RendezvousInv, NEW h \in Hips, NEW j \in Job, job' = [job EXCEPT ![h] = j],
         UNCHANGED <<reg, nextToken>>, CellsTame,
         j.token = job[h].token, j.frame = job[h].frame, j.active = job[h].active,
         j.slot = job[h].slot, job[h].bound = "work" => j.bound = "work",
         \/ gpu' \subseteq gpu
         \/ /\ job[h].active
            /\ \E stream \in JobStreams(j) : gpu' \subseteq gpu \cup {KernelOf(h, stream)}
  PROVE  AsksNothingNew /\ KernelsInv'
<1>1. job'[h] = j /\ \A i \in Hips \ {h} : job'[i] = job[i]
  BY DEF RendezvousInv, WakeInv, TypeInv, TypeOK
<1>2. NoJobStarts /\ JobsLast BY <1>1 DEF NoJobStarts, JobsLast, SameJob
<1>3. TokensStay /\ KnownTokens \subseteq KnownTokens' BY DEF TokensStay, KnownTokens
<1>4. ASSUME NEW g \in gpu' \ gpu
      PROVE  /\ g.token \in KnownTokens /\ g.frame \in Frames /\ Running(g)'
             /\ job[h].active /\ g.token = job[h].token /\ g.frame = job[h].frame
  <2>1. job[h].active /\ \E stream \in JobStreams(j) : g = KernelOf(h, stream) BY <1>4
  <2>2. PICK stream \in JobStreams(j) : g = KernelOf(h, stream) BY <2>1
  <2>3. stream \in {"marker", "work"} BY DEF JobStreams
  <2>4. /\ g.by = h /\ g.stream = stream /\ g.token = job[h].token /\ g.frame = job[h].frame
        /\ g.token \in KnownTokens /\ g.frame \in Frames
    BY <2>1, <2>2, <2>3, LaunchedByJob
  <2>5. Running(g)' BY <1>1, <2>1, <2>4 DEF Running, JobStreams
  <2> QED BY <2>1, <2>4, <2>5
<1>5. KernelsOfJobs BY <1>4 DEF KernelsOfJobs
<1>6. KernelsInv' BY <1>2, <1>3, <1>4, KernelsTamed
<1> QED BY <1>3, <1>5, <1>6, TameCells DEF AsksNothingNew

LEMMA FailJobKernels ==
  ASSUME RendezvousInv, NEW h \in Hips, NEW j \in Job, FailJob(h, j), UNCHANGED <<reg, nextToken>>,
         j.token = job[h].token, j.frame = job[h].frame, j.active = job[h].active,
         j.slot = job[h].slot, job[h].bound = "work" => j.bound = "work",
         \/ gpu' \subseteq gpu
         \/ /\ job[h].active
            /\ \E stream \in JobStreams(j) : gpu' \subseteq gpu \cup {KernelOf(h, stream)}
  PROVE  AsksNothingNew /\ KernelsInv'
<1> DEFINE jj == [j EXCEPT !.error = TRUE]
<1>1. /\ jj \in Job /\ jj.token = j.token /\ jj.frame = j.frame /\ jj.active = j.active
      /\ jj.slot = j.slot /\ jj.bound = j.bound
  BY DEF Job
<1>2. job' = [job EXCEPT ![h] = jj] BY DEF FailJob
<1>3. JobStreams(jj) = JobStreams(j) BY <1>1 DEF JobStreams
<1> HIDE DEF jj
<1>4. CellsTame BY FailJobTame DEF RendezvousInv, WakeInv
<1> QED BY <1>1, <1>2, <1>3, <1>4, JobKernels

\* A thread that claims a frame finds it asking already, and with no kernel that
\* waits to be forgotten.
LEMMA ClaimKernels ==
  ASSUME RendezvousInv, NEW h \in Hips, Claim(h)
  PROVE  AsksNothingNew /\ KernelsInv'
<1> USE DEF RendezvousInv, WakeInv
<1> DEFINE j == job[h]
<1>1. pc[h] = "claim" /\ UNCHANGED <<reg, nextToken, gpu>> BY DEF Claim
<1>2. j \in Job /\ ~j.active /\ j.frame \in Frames /\ Pos(j.frame) \in Ring
  BY <1>1, PosInRing DEF TypeInv, TypeOK, WellFormed, HipFormed
<1>3. KernelsOfJobs /\ TokensStay /\ KnownTokens' = KnownTokens
  BY <1>1 DEF KernelsOfJobs, TokensStay, KnownTokens
<1>4. ASSUME NEW k \in Found(j.token), Claimable(frames[k][Pos(j.frame)]), Holds(k, j.frame),
             frames' = Put(k, j.frame, [frames[k][Pos(j.frame)] EXCEPT !.owned = TRUE]),
             job' = [job EXCEPT ![h].active = TRUE, ![h].slot = k]
      PROVE  AsksNothingNew /\ KernelsInv'
  <2> DEFINE s == frames[k][Pos(j.frame)]
             d == [s EXCEPT !.owned = TRUE]
  <2>1. k \in Slots /\ s \in FrameState /\ s.input /\ ~s.error /\ ~s.owned
    BY <1>2, <1>4, FoundType DEF TypeInv, TypeOK, Claimable
  <2>2. /\ d.frame = s.frame /\ d.input = s.input /\ d.output = s.output /\ d.error = s.error
        /\ d.owned
    BY <2>1 DEF FrameState
  <2>3. frames' = Put(k, j.frame, d) BY <1>4
  <2> HIDE DEF d
  <2>4. CellsTame
    <3>1. Tame(s, d) BY <1>4, <2>1, <2>2 DEF Tame, Claimable
    <3> QED BY <1>2, <2>1, <2>3, <3>1, PutTame
  <2>5. /\ job'[h].slot = k /\ job'[h].frame = j.frame
        /\ \A i \in Hips \ {h} : job'[i] = job[i]
    BY <1>2, <1>4 DEF TypeInv, TypeOK, Job
  <2>6. ASSUME NEW g \in gpu' PROVE Running(g)' \/ Quiet(g.token, g.frame)'
    <3>1. g \in gpu /\ g.by \in Hips /\ g.frame \in Frames /\ Pos(g.frame) \in Ring
      BY <1>1, PosInRing DEF TypeInv, TypeOK, Kernel, KernelsInv
    <3>2. CASE Running(g)
      <4>1. g.by # h BY <1>2, <3>2 DEF Running
      <4> QED BY <2>5, <3>1, <3>2, <4>1 DEF Running, JobStreams
    <3>3. CASE ~Running(g)
      <4>1. Quiet(g.token, g.frame) BY <3>1, <3>3 DEF KernelsInv
      <4>2. ASSUME NEW m \in Slots, reg'[m].token = g.token, Holds(m, g.frame)',
                   ~frames'[m][Pos(g.frame)].error, frames'[m][Pos(g.frame)].input
            PROVE  /\ frames'[m][Pos(g.frame)].owned
                   /\ ~\E i \in Hips : /\ job'[i].active /\ job'[i].slot = m
                                       /\ Pos(job'[i].frame) = Pos(g.frame)
        <5>1. Tame(frames[m][Pos(g.frame)], frames'[m][Pos(g.frame)])
          BY <2>4, <3>1 DEF CellsTame
        <5>2. /\ Holds(m, g.frame) /\ reg[m].token = g.token
              /\ frames[m][Pos(g.frame)].input /\ ~frames[m][Pos(g.frame)].error
              /\ frames[m][Pos(g.frame)].owned => frames'[m][Pos(g.frame)].owned
          BY <1>1, <4>2, <5>1 DEF Tame, Holds, Pos
        <5>3. /\ frames[m][Pos(g.frame)].owned
              /\ ~\E i \in Hips : job[i].active /\ job[i].slot = m /\ Pos(job[i].frame) = Pos(g.frame)
          BY <4>1, <5>2 DEF Quiet
        <5>4. ~(m = k /\ Pos(g.frame) = Pos(j.frame)) BY <2>1, <5>3
        <5> QED BY <2>5, <5>2, <5>3, <5>4
      <4> QED BY <4>2 DEF Quiet, Holds, Pos
    <3> QED BY <3>2, <3>3
  <2> QED BY <1>1, <1>3, <2>4, <2>6, TameCells DEF AsksNothingNew, KernelsInv
<1>5. CASE job' = [job EXCEPT ![h].error = TRUE] /\ UNCHANGED frames
  <2>1. /\ [j EXCEPT !.error = TRUE] \in Job /\ [j EXCEPT !.error = TRUE].token = j.token
        /\ [j EXCEPT !.error = TRUE].frame = j.frame /\ [j EXCEPT !.error = TRUE].active = j.active
        /\ [j EXCEPT !.error = TRUE].slot = j.slot /\ [j EXCEPT !.error = TRUE].bound = j.bound
    BY <1>2 DEF Job
  <2> QED BY <1>1, <1>5, <2>1, SameCells, JobKernels
<1> QED BY <1>4, <1>5 DEF Claim

\* What a thread leaves behind when it exits stays owned by nobody.
LEMMA ThreadExitKernels ==
  ASSUME RendezvousInv, NEW h \in Hips, ThreadExit(h)
  PROVE  AsksNothingNew /\ KernelsInv'
<1> USE DEF RendezvousInv, WakeInv
<1>1. UNCHANGED <<reg, frames, nextToken, gpu>> /\ job' = [job EXCEPT ![h] = NoJob]
  BY DEF ThreadExit
<1>2. ~job'[h].active /\ \A i \in Hips \ {h} : job'[i] = job[i]
  BY <1>1 DEF TypeInv, TypeOK, NoJob
<1>3. ASSUME NEW g \in gpu PROVE Running(g)' \/ Quiet(g.token, g.frame)'
  <2>1. g.by \in Hips /\ g.frame \in Frames BY DEF TypeInv, TypeOK, Kernel, KernelsInv
  <2>2. CASE Running(g) /\ g.by # h BY <1>2, <2>1, <2>2 DEF Running, JobStreams
  <2>3. CASE Running(g) /\ g.by = h
    <3> DEFINE j == job[h]
    <3>1. j.active /\ j.token = g.token /\ j.frame = g.frame BY <2>3 DEF Running
    <3>2. /\ j.slot \in Slots /\ reg[j.slot].token = j.token /\ frames[j.slot][Pos(j.frame)].owned
          /\ \A i \in Hips \ {h} : job[i].active => <<job[i].slot, Pos(job[i].frame)>> # <<j.slot, Pos(j.frame)>>
      BY <3>1 DEF JobOwnsItsState
    <3>3. j.token # 0 BY <3>1 DEF TypeInv, WellFormed, HipFormed
    <3>4. \A k \in Slots : reg[k].token = g.token => k = j.slot
      BY <3>1, <3>2, <3>3 DEF TokensUnique
    <3> QED BY <1>1, <1>2, <3>1, <3>2, <3>4 DEF Quiet, Holds
  <2>4. CASE ~Running(g)
    <3>1. Quiet(g.token, g.frame) BY <2>4 DEF KernelsInv
    <3> QED BY <1>1, <1>2, <3>1 DEF Quiet, Holds, Pos
  <2> QED BY <2>2, <2>3, <2>4
<1>4. KernelsInv' BY <1>1, <1>3 DEF KernelsInv, KnownTokens
<1> QED BY <1>1, <1>4, SameCells, TameCells DEF AsksNothingNew, KernelsOfJobs, TokensStay

\* A step that starts no job, loses none and launches nothing.
LEMMA QuietKernels ==
  ASSUME RendezvousInv, CellsTame, TokensStay, NoJobStarts, JobsLast, nextToken' = nextToken,
         gpu' \subseteq gpu
  PROVE  AsksNothingNew /\ KernelsInv'
<1>1. KnownTokens \subseteq KnownTokens' BY DEF KnownTokens
<1> QED BY <1>1, TameCells, KernelsTamed DEF AsksNothingNew, KernelsOfJobs

\* Every step of a HIP thread asks for nothing new, and whatever it launches its
\* job synchronises or it leaves to a frame that is never answered.
LEMMA HipKernelsTamed ==
  ASSUME RendezvousInv, NEW h \in Hips, HipStep(h)
  PROVE  AsksNothingNew /\ KernelsInv'
<1> DEFINE Goal == AsksNothingNew /\ KernelsInv'
<1> USE DEF RendezvousInv, WakeInv
<1>1. job[h] \in Job /\ HipFormed(h) /\ h \in Threads
  BY DEF TypeInv, TypeOK, WellFormed, Threads
<1>2. ASSUME UNCHANGED <<frames, job, nextToken>>, gpu' \subseteq gpu,
             \A k \in Slots : reg'[k].token = reg[k].token
      PROVE  Goal
  BY <1>2, SameCells, QuietKernels DEF TokensStay, NoJobStarts, JobsLast, SameJob
<1>3. ASSUME NEW j, ~j.active, job' = [job EXCEPT ![h] = j], ~job[h].active,
             UNCHANGED <<reg, frames, nextToken, gpu>>
      PROVE  Goal
  <2>1. NoJobStarts /\ JobsLast BY <1>3 DEF NoJobStarts, JobsLast, SameJob, TypeInv, TypeOK
  <2> QED BY <1>3, <2>1, SameCells, QuietKernels DEF TokensStay
<1>4. ASSUME FailJob(h, job[h]), UNCHANGED <<reg, nextToken>>,
             \/ gpu' \subseteq gpu
             \/ job[h].active /\ \E s \in JobStreams(job[h]) : gpu' \subseteq gpu \cup {KernelOf(h, s)}
      PROVE  Goal
  BY <1>1, <1>4, FailJobKernels
<1>5. CASE HipCheck(h) \/ HipExpire(h)
  <2>1. PICK e \in BOOLEAN : job' = [job EXCEPT ![h].error = e]
    BY <1>5 DEF HipCheck, HipExpire, Refused
  <2>2. UNCHANGED <<reg, nextToken, gpu>> /\ CellsTame
    BY <1>1, <1>5, CheckTame, ExpireTame DEF HipCheck, HipExpire
  <2> DEFINE j == [job[h] EXCEPT !.error = e]
  <2>3. /\ j \in Job /\ j.active = job[h].active /\ j.token = job[h].token /\ j.frame = job[h].frame
        /\ j.slot = job[h].slot /\ j.bound = job[h].bound
    BY <1>1 DEF Job
  <2>4. job' = [job EXCEPT ![h] = j] BY <2>1
  <2> HIDE DEF j
  <2> QED BY <2>2, <2>3, <2>4, JobKernels
<1>6. CASE Claim(h) BY <1>6, ClaimKernels
<1>7. CASE FinishMarker(h)
  <2>1. job[h].active /\ UNCHANGED <<reg, nextToken>> BY <1>1, <1>7 DEF FinishMarker, HipFormed
  <2>2. "marker" \in JobStreams(job[h]) BY DEF JobStreams
  <2>3. \/ FailJob(h, job[h]) /\ gpu' \subseteq gpu \cup {KernelOf(h, "marker")}
        \/ Complete(h) /\ gpu' = gpu \ WorkOf(h, JobStreams(job[h]))
    BY <1>7 DEF FinishMarker
  <2> QED BY <1>4, <2>1, <2>2, <2>3, CompleteKernels
<1>8. CASE DeviceSync(h)
  <2>1. /\ UNCHANGED <<reg, nextToken>>
        /\ \/ FailJob(h, job[h]) /\ UNCHANGED gpu
           \/ job[h].active /\ Complete(h) /\ gpu' = {}
           \/ UNCHANGED <<frames, job>> /\ gpu' = {}
    BY <1>8 DEF DeviceSync
  <2> QED BY <1>2, <1>4, <2>1, CompleteKernels
<1>9. CASE ThreadExit(h) BY <1>9, ThreadExitKernels
<1>10. ASSUME NEW f \in Frames, BeginJob(h, f) PROVE Goal
  <2>1. /\ UNCHANGED <<reg, nextToken, gpu>>
        /\ \/ FailJob(h, job[h])
           \/ /\ UNCHANGED frames /\ ~job[h].active
              /\ \E t : job' = [job EXCEPT ![h] = [NoJob EXCEPT !.token = t, !.frame = f]]
           \/ /\ UNCHANGED frames /\ ~job[h].active
              /\ job' = [job EXCEPT ![h] = [NoJob EXCEPT !.error = TRUE, !.frame = f]]
    BY <1>10 DEF BeginJob
  <2>2. /\ \A t : ~[NoJob EXCEPT !.token = t, !.frame = f].active
        /\ ~[NoJob EXCEPT !.error = TRUE, !.frame = f].active
    BY DEF NoJob
  <2> QED BY <1>3, <1>4, <2>1, <2>2
<1>11. ASSUME NEW s \in LaunchStreams, StreamSync(h, s) PROVE Goal
  <2> DEFINE j == job[h]
             both == (j.error \/ j.sealed) /\ j.bound = "work"
  <2>1. /\ UNCHANGED <<reg, nextToken>>
        /\ \/ FailJob(h, j) /\ gpu' \subseteq gpu
           \/ /\ j.active /\ (s = "marker" \/ s = j.bound) /\ Complete(h)
              /\ gpu' = gpu \ WorkOf(h, IF both THEN JobStreams(j) ELSE {s})
           \/ UNCHANGED <<frames, job>> /\ gpu' \subseteq gpu
    BY <1>11 DEF StreamSync
  <2>2. CASE j.active /\ (s = "marker" \/ s = j.bound) /\ Complete(h)
             /\ gpu' = gpu \ WorkOf(h, IF both THEN JobStreams(j) ELSE {s})
    <3>1. j.sealed => JobStreams(j) \subseteq (IF both THEN JobStreams(j) ELSE {s})
      BY <2>2, StreamsAssumption DEF JobStreams, LaunchStreams
    <3>2. j.sealed => gpu' \subseteq gpu \ WorkOf(h, JobStreams(j)) BY <2>2, <3>1 DEF WorkOf
    <3> QED BY <2>1, <2>2, <3>2, CompleteKernels
  <2> QED BY <1>2, <1>4, <2>1, <2>2
<1>12. ASSUME NEW import \in BOOLEAN, NEW s \in LaunchStreams, Launch(h, import, s) PROVE Goal
  <2> DEFINE j == job[h]
             accepted == ~j.sealed /\ CASE j.bound # None -> s = j.bound
                                        [] j.bound = None -> import \/ s = "marker"
             routed == IF j.bound = None /\ import THEN [j EXCEPT !.bound = s] ELSE j
  <2>1. s \in {"marker", "work"} /\ None \notin {"marker", "work"}
    BY StreamsAssumption, NoneAssumption DEF LaunchStreams
  <2>2. /\ routed \in Job /\ routed.token = j.token /\ routed.frame = j.frame
        /\ routed.active = j.active /\ routed.slot = j.slot
        /\ routed.bound = IF j.bound = None /\ import THEN s ELSE j.bound
    BY <1>1, <2>1 DEF Job
  <2>3. /\ UNCHANGED <<reg, nextToken>> /\ j.active
        /\ \/ FailJob(h, j) /\ gpu' \subseteq gpu
           \/ FailJob(h, routed) /\ gpu' \subseteq gpu
           \/ /\ accepted /\ UNCHANGED frames /\ job' = [job EXCEPT ![h] = routed]
              /\ gpu' \subseteq gpu \cup {KernelOf(h, s)}
    BY <1>12 DEF Launch, WorkOf
  <2>4. accepted => s \in JobStreams(routed)
    BY <1>1, <2>1, <2>2 DEF JobStreams, Job
  <2>5. j.bound = "work" => routed.bound = "work" BY <2>1, <2>2
  <2> HIDE DEF routed, accepted
  <2> QED BY <1>4, <2>2, <2>3, <2>4, <2>5, FailJobKernels, JobKernels, SameCells
<1>13. ASSUME NEW exact \in BOOLEAN, SetFlag(h, exact) PROVE Goal
  <2> DEFINE j == [job[h] EXCEPT !.sealed = TRUE]
  <2>1. /\ j \in Job /\ j.token = job[h].token /\ j.frame = job[h].frame
        /\ j.active = job[h].active /\ j.slot = job[h].slot /\ j.bound = job[h].bound
    BY <1>1 DEF Job
  <2>2. /\ UNCHANGED <<reg, nextToken, gpu>>
        /\ \/ FailJob(h, job[h])
           \/ UNCHANGED frames /\ job' = [job EXCEPT ![h] = j]
    BY <1>13 DEF SetFlag
  <2> HIDE DEF j
  <2> QED BY <1>4, <2>1, <2>2, SameCells, JobKernels
<1>14. ASSUME NEW kind \in ProbeKinds, NEW k \in Slots, ProbeBegin(h, kind, k) PROVE Goal
  <2>1. \A i \in Slots : reg'[i].token = reg[i].token
    BY <1>14 DEF ProbeBegin, TypeInv, TypeOK, Registration
  <2> QED BY <1>2, <1>14, <2>1 DEF ProbeBegin
<1>15. ASSUME NEW launched \in BOOLEAN, NEW synced \in BOOLEAN, ProbeEnd(h, launched, synced)
       PROVE  Goal
  <2>1. \A i \in Slots : reg'[i].token = reg[i].token
    BY <1>15 DEF ProbeEnd, TypeInv, TypeOK, Registration
  <2> QED BY <1>2, <1>15, <2>1 DEF ProbeEnd
<1> QED
  BY <1>5, <1>6, <1>7, <1>8, <1>9, <1>10, <1>11, <1>12, <1>13, <1>14, <1>15 DEF HipStep

-----------------------------------------------------------------------------
\* The other calls of the registry.

LEMMA LifetimeKernelsTamed ==
  ASSUME RendezvousInv, Lifetime
  PROVE  AsksNothingNew /\ KernelsInv' /\ KnownTokens \subseteq KnownTokens'
<1> USE DEF RendezvousInv, WakeInv, TypeInv, TypeOK
<1>1. UNCHANGED <<job, gpu>>
  BY DEF Lifetime, Register, Release, AppRelease, Destroy, Map, hipVars
<1>2. NoJobStarts /\ JobsLast BY <1>1 DEF NoJobStarts, JobsLast, SameJob
<1>3. CellsTame /\ TokensStay /\ nextToken' \in {nextToken, nextToken + 1}
  <2>1. ASSUME NEW o \in Owners, Register(o)
        PROVE  CellsTame /\ TokensStay /\ nextToken' \in {nextToken, nextToken + 1}
    <3>1. PICK k \in Slots :
            /\ reg' = [reg EXCEPT ![k] = [NoRegistration EXCEPT !.active = TRUE, !.token = nextToken,
                                                                !.owner = o]]
            /\ frames' = [frames EXCEPT ![k] = [i \in Ring |-> FreshFrame(None)]]
      BY <2>1 DEF Register
    <3>2. \A i \in Ring : ~frames'[k][i].input BY <3>1 DEF FreshFrame
    <3>3. \A j \in Slots \ {k} : frames'[j] = frames[j] /\ reg'[j] = reg[j] BY <3>1
    <3>4. CellsTame BY <3>2, <3>3, TameReflexive DEF CellsTame, Tame
    <3>5. TokensStay BY <3>2, <3>3 DEF TokensStay
    <3> QED BY <2>1, <3>4, <3>5 DEF Register
  <2>2. ASSUME NEW o \in Owners, Destroy(o)
        PROVE  CellsTame /\ TokensStay /\ nextToken' = nextToken
    <3>1. Retire(VaOf[o]) /\ nextToken' = nextToken BY <2>2 DEF Destroy
    <3>2. \A k \in Slots : reg'[k].token = reg[k].token BY <3>1 DEF Retire, Registration
    <3>3. \A k \in Slots, i \in Ring : frames'[k][i] \in {frames[k][i], Failed(frames[k][i])}
      BY <3>1 DEF Retire
    <3>4. \A s \in FrameState : Tame(s, Failed(s)) BY DEF FrameState, Failed, Tame
    <3>5. CellsTame BY <3>3, <3>4, TameReflexive DEF CellsTame
    <3> QED BY <3>1, <3>2, <3>5 DEF TokensStay
  <2>3. ASSUME NEW o \in Owners, Release(o) \/ AppRelease(o)
        PROVE  CellsTame /\ TokensStay /\ nextToken' = nextToken
    BY <2>3, SameCells DEF Release, AppRelease, TokensStay
  <2>4. ASSUME NEW k \in Slots, Map(k) PROVE CellsTame /\ TokensStay /\ nextToken' = nextToken
    BY <2>4, SameCells DEF Map, TokensStay, Registration
  <2> QED BY <2>1, <2>2, <2>3, <2>4 DEF Lifetime
<1>4. KnownTokens \subseteq KnownTokens' BY <1>3, KnownKept
<1> QED BY <1>1, <1>2, <1>3, <1>4, TameCells, KernelsTamed DEF AsksNothingNew, KernelsOfJobs

LEMMA ClientKernelsTamed ==
  ASSUME RendezvousInv, NEW c \in Clients, NEW t, NEW f,
         \/ Snapshot(c) \/ DropSnapshot(c) \/ ClientCheck(c) \/ ClientExpire(c)
         \/ f \in Frames /\ (WaitOutput(c, t, f) \/ ClientFail(t, f) \/ ConsumerSubmitted(t, f))
  PROVE  AsksNothingNew /\ KernelsInv' /\ UNCHANGED <<reg, nextToken, job, gpu>>
<1>1. UNCHANGED <<reg, nextToken, job, gpu>>
  BY DEF Snapshot, DropSnapshot, ClientCheck, ClientExpire, WaitOutput, ClientFail,
         ConsumerSubmitted, hipVars
<1>2. CellsTame
  BY SameCells, CheckTame, ExpireTame, FailFrameTame, ConsumedTame
     DEF Snapshot, DropSnapshot, ClientCheck, ClientExpire, WaitOutput, ClientFail, RendezvousInv,
         WakeInv, Threads
<1>3. NoJobStarts /\ JobsLast /\ TokensStay BY <1>1 DEF NoJobStarts, JobsLast, SameJob, TokensStay
<1> QED BY <1>1, <1>2, <1>3, QuietKernels

\* A publication asks of the GPU only the frame it publishes, and when nothing
\* of that frame runs no kernel loses what covers it.
LEMMA PublishKernels ==
  ASSUME RendezvousInv, NEW c \in Clients, NEW t, NEW f \in Frames, Publish(c, t, f),
         ~Requested(t, f)
  PROVE  /\ KernelsInv' /\ UNCHANGED <<reg, nextToken>>
         /\ \A u, e : e \in Frames /\ Requested(u, e)' =>
              \/ Requested(u, e)
              \/ /\ u = t /\ e = f
                 /\ \E k \in Found(t) : LET s == frames[k][Pos(f)]
                                        IN  /\ ~(s.frame = f /\ s.input)
                                            /\ frames'[k][Pos(f)].frame = f
                                            /\ frames'[k][Pos(f)].input
<1> USE DEF RendezvousInv, WakeInv
<1>1. UNCHANGED <<reg, nextToken, job, gpu>> BY DEF Publish, hipVars
<1>2. PICK k \in Found(t) :
        \/ frames' = Put(k, f, Obtained(k, f))
        \/ /\ frames' = Put(k, f, [Obtained(k, f) EXCEPT !.pins = snap[c], !.input = TRUE])
           /\ ~Obtained(k, f).input
  BY DEF Publish
<1>3. k \in Slots /\ reg[k].token = t /\ Obtained(k, f) \in FrameState /\ Obtained(k, f).frame = f
      /\ Pos(f) \in Ring
  BY FoundType, ObtainedType, PosInRing DEF Found, TypeInv, TypeOK
<1>4. CASE frames' = Put(k, f, Obtained(k, f))
  <2>1. CellsTame BY <1>3, <1>4, ObtainedTame, PutTame
  <2>2. NoJobStarts /\ JobsLast /\ TokensStay BY <1>1 DEF NoJobStarts, JobsLast, SameJob, TokensStay
  <2>3. AsksNothingNew /\ KernelsInv' BY <1>1, <2>1, <2>2, QuietKernels
  <2> QED BY <1>1, <2>3, NothingNewRequested
<1>5. ASSUME frames' = Put(k, f, [Obtained(k, f) EXCEPT !.pins = snap[c], !.input = TRUE]),
             ~Obtained(k, f).input
      PROVE  /\ KernelsInv'
             /\ \A u, e : e \in Frames /\ Requested(u, e)' => Requested(u, e) \/ (u = t /\ e = f)
             /\ ~(frames[k][Pos(f)].frame = f /\ frames[k][Pos(f)].input)
             /\ frames'[k][Pos(f)].frame = f /\ frames'[k][Pos(f)].input
  <2> DEFINE d == [Obtained(k, f) EXCEPT !.pins = snap[c], !.input = TRUE]
  <2>1. d.frame = f /\ d.input BY <1>3 DEF FrameState
  <2>2. \A m \in Slots, i \in Ring :
          frames'[m][i] = IF m = k /\ i = Pos(f) THEN d ELSE frames[m][i]
    BY <1>3, <1>5, PutAt
  <2> HIDE DEF d
  <2>3. ASSUME NEW g \in gpu PROVE Running(g)' \/ Quiet(g.token, g.frame)'
    <3>1. g.frame \in Frames /\ Pos(g.frame) \in Ring /\ ~(g.token = t /\ g.frame = f)
      BY PosInRing DEF KernelsInv, Requested
    <3>2. CASE Running(g) BY <1>1, <3>2 DEF Running, JobStreams
    <3>3. CASE Quiet(g.token, g.frame)
      <4>1. ASSUME NEW m \in Slots, reg'[m].token = g.token, Holds(m, g.frame)'
            PROVE  frames'[m][Pos(g.frame)] = frames[m][Pos(g.frame)]
        BY <1>1, <1>3, <2>1, <2>2, <3>1, <4>1 DEF Holds, Pos
      <4> QED BY <1>1, <3>3, <4>1 DEF Quiet, Holds, Pos
    <3> QED BY <3>2, <3>3 DEF KernelsInv
  <2>4. KernelsInv' BY <1>1, <2>3 DEF KernelsInv, KnownTokens
  <2>5. ASSUME NEW u, NEW e \in Frames, Requested(u, e)', ~(u = t /\ e = f) PROVE Requested(u, e)
    <3>1. CASE \E g \in gpu : g.token = u /\ g.frame = e BY <3>1 DEF Requested
    <3>2. ASSUME NEW m \in Slots, reg'[m].token = u, Holds(m, e)', frames'[m][Pos(e)].input,
                 ~frames'[m][Pos(e)].output
          PROVE  Requested(u, e)
      <4>1. Pos(e) \in Ring BY PosInRing
      <4>2. frames'[m][Pos(e)] = frames[m][Pos(e)]
        BY <1>1, <1>3, <2>1, <2>2, <2>5, <3>2, <4>1 DEF Holds, Pos
      <4> QED BY <1>1, <3>2, <4>2 DEF Requested, Holds, Pos
    <3> QED BY <1>1, <2>5, <3>1, <3>2 DEF Requested, Pos, Holds
  <2>6. ~(frames[k][Pos(f)].frame = f /\ frames[k][Pos(f)].input)
    BY <1>5 DEF Obtained, Holds
  <2> QED BY <1>3, <2>1, <2>2, <2>4, <2>5, <2>6
<1> QED BY <1>1, <1>2, <1>4, <1>5

-----------------------------------------------------------------------------
\* The client.

SystemTypes ==
  /\ list \in [Clients -> CommandList]
  /\ held \in [Clients -> {"no", "yes", "lost"}]
  /\ removed \in BOOLEAN
  /\ work \in [Queues -> Work]
  /\ timeline \in Nat /\ done \in Nat
  /\ sent \in SUBSET CommandBuffer
  /\ fences \in SUBSET Fence

\* A worker past the claim of its batch.
PastClaim(w) == w.pc \notin {"idle", "claim"}

\* Prefixes are at odd places and suffixes at even ones, and only the end of an
\* execute has an outcome.
WorkFormed(w) ==
  /\ w.pc = "idle" => w.batch = <<>>
  /\ w.pc # "idle" => w.batch \in Batches /\ w.at \in 1 .. 2 * Len(w.batch)
  /\ w.pc = "claim" => w.at = 1
  /\ w.pc \in {"prefix", "publish", "output", "wait", "reacquire"} => w.at % 2 = 1
  /\ w.pc = "consumer" => w.at % 2 = 0
  /\ w.outcome # "ok" => w.pc \in {"reacquire", "finish"}
  /\ w.last <= timeline

\* A list is cut at a producer of its own snapshot, and closed after that.
ListFormed(l) ==
  /\ list[l].armed # 0 => list[l].frame \in Frames /\ list[l].cut = 0
  /\ list[l].cut # 0 => list[l].frame \in Frames /\ \E b \in snap[l] : b.token = list[l].cut
  /\ list[l].closed => list[l].cut # 0
  /\ held[l] # "no" => list[l].closed
  /\ \A b \in snap[l] : b.token \in KnownTokens

\* What a worker waits for is the output of the frame it has published.
WaitFormed(q) ==
  work[q].pc = "wait" =>
    LET u == waiter[Current(work[q])]
    IN  u.st # "no" /\ u.token = TokenOf(work[q]) /\ u.frame = FrameOf(work[q]) /\ u.output

Formed == /\ \A q \in Queues : WorkFormed(work[q]) /\ WaitFormed(q)
          /\ \A l \in Clients : ListFormed(l)
          /\ done <= timeline

\* An allocator that is held has one holder: a worker, a fence, or nobody any more.
Holders ==
  /\ \A q \in Queues : \A l \in Lists(work[q]) : held[l] = "yes"
  /\ \A p, q \in Queues : p # q => Lists(work[p]) \cap Lists(work[q]) = {}
  /\ \A z \in fences : \A l \in z.lists : held[l] = "yes" /\ \A q \in Queues : l \notin Lists(work[q])
  /\ \A y, z \in fences : y # z => y.lists \cap z.lists = {}

\* Whoever holds the allocator of what the GPU may still execute waits for it: the
\* worker that sent it, a fence with a value past it, or for ever.
Accounted(y) ==
  \/ LET w == work[y.queue]
     IN  /\ y.list \in Lists(w) /\ PastClaim(w) /\ y.value <= w.last
         /\ y.value = 0 => w.pc = "finish" /\ w.outcome = "submit"
  \/ \E z \in fences : y.list \in z.lists /\ y.value \in 1 .. z.value
  \/ held[y.list] = "lost"

SentInv == \A y \in sent :
  /\ y.value # 0 => done < y.value /\ y.value <= timeline
  /\ y.buffers = snap[y.list]
  /\ Accounted(y)

\* Past the claim the buffers of a batch are its queue's, and stay so on the GPU.
Claimed ==
  /\ \A q \in Queues : PastClaim(work[q]) =>
       \A l \in Lists(work[q]) : \A b \in snap[l] : \A k \in Found(b.token) : reg[k].queue = q
  /\ ClaimedForTheirQueue

\* What a frame asks of the GPU is asked by a worker that is past its publication
\* and will see the answer or fail, or the device is removed.
Uses(q, t) == PastClaim(work[q]) /\ \E l \in Lists(work[q]) : list[l].cut = t
Stuck(w, t, f) == \/ w.pc \in {"output", "wait"} /\ TokenOf(w) = t /\ FrameOf(w) = f
                  \/ w.pc = "reacquire" /\ w.outcome = "nr"
                  \/ w.pc = "finish"
Doomed(t, f) ==
  \/ Found(t) = {}
  \/ /\ \A q \in Queues : Uses(q, t) => Stuck(work[q], t, f)
     /\ removed \/ \E q \in Queues : Uses(q, t) /\ Stuck(work[q], t, f) /\ work[q].pc # "finish"
RequestsInv == \A t \in KnownTokens, f \in Frames : Requested(t, f) => Doomed(t, f)

\* Before a suffix is submitted its prefix has run and its frame asks for nothing.
SuffixDue(w) == \/ w.pc = "reacquire" /\ w.outcome = "ok"
                \/ w.pc \in {"acquire", "submit"} /\ w.at % 2 = 0
PrefixRun(w) == ~\E y \in sent : y.list = Current(w) /\ y.kind = "prefix"
SuffixReady(w) ==
  /\ w.pc \in {"publish", "output", "wait"} \/ SuffixDue(w) => PrefixRun(w)
  /\ SuffixDue(w) => ~Requested(TokenOf(w), FrameOf(w))
SuffixInv == \A q \in Queues : SuffixReady(work[q])

SystemInv == RendezvousInv /\ SystemTypes /\ Formed /\ Holders /\ SentInv /\ Claimed
             /\ RequestsInv /\ SuffixInv

-----------------------------------------------------------------------------
\* Places in a batch.

LEMMA BatchType ==
  ASSUME NEW b \in Batches
  PROVE  /\ Len(b) \in {1, 2} /\ DOMAIN b = 1 .. Len(b) /\ \A i \in DOMAIN b : b[i] \in Clients
         /\ b \in Seq(Clients)
<1>1. CASE \E l \in Clients : b = <<l>> BY <1>1
<1>2. CASE \E x \in Clients \X Clients : b = <<x[1], x[2]>> BY <1>2
<1> QED BY <1>1, <1>2 DEF Batches

LEMMA CurrentIn ==
  ASSUME NEW w, WorkFormed(w), w.pc # "idle"
  PROVE  /\ Current(w) \in Lists(w) /\ Lists(w) \subseteq Clients
         /\ w.at \in 1 .. 4
         /\ w.at % 2 = 1 => w.at # 2 * Len(w.batch)
<1>1. w.batch \in Batches /\ w.at \in 1 .. 2 * Len(w.batch) BY DEF WorkFormed
<1>2. Len(w.batch) \in {1, 2} /\ DOMAIN w.batch = 1 .. Len(w.batch)
      /\ \A i \in DOMAIN w.batch : w.batch[i] \in Clients
  BY <1>1, BatchType
<1> DEFINE n == Len(w.batch)
           at == w.at
<1>3. at \in 1 .. 2 * n /\ n \in {1, 2} BY <1>1, <1>2
<1> HIDE DEF n, at
<1>4. at \in 1 .. 4 /\ (at % 2 = 1 => at # 2 * n)
  <2>1. CASE n = 1 BY <1>3, <2>1
  <2>2. CASE n = 2 BY <1>3, <2>2
  <2> QED BY <1>3, <2>1, <2>2
<1>5. (at + 1) \div 2 \in 1 .. n
  <2>1. CASE n = 1 BY <1>3, <2>1
  <2>2. CASE n = 2 BY <1>3, <2>2
  <2> QED BY <1>3, <2>1, <2>2
<1>6. (w.at + 1) \div 2 \in DOMAIN w.batch BY <1>2, <1>5 DEF n, at
<1>7. w.at \in 1 .. 4 /\ (w.at % 2 = 1 => w.at # 2 * Len(w.batch)) BY <1>4 DEF n, at
<1> QED BY <1>2, <1>6, <1>7 DEF Current, Lists

\* The suffix of a list comes next after its prefix.
LEMMA SuffixPlace ==
  ASSUME NEW n \in 1 .. 4
  PROVE  /\ n % 2 = 1 => (n + 1) % 2 = 0 /\ (n + 1 + 1) \div 2 = (n + 1) \div 2
         /\ n % 2 # 1 => n % 2 = 0 /\ (n + 1) % 2 = 1
<1>1. n \in {1, 2, 3, 4} OBVIOUS
<1>2. CASE n = 1 BY <1>2
<1>3. CASE n = 2 BY <1>3
<1>4. CASE n = 3 BY <1>4
<1>5. CASE n = 4 BY <1>5
<1> QED BY <1>1, <1>2, <1>3, <1>4, <1>5

LEMMA IdleLists == ASSUME NEW w, WorkFormed(w), w.pc = "idle" PROVE Lists(w) = {}
<1>1. w.batch = <<>> BY DEF WorkFormed
<1> QED BY <1>1 DEF Lists

LEMMA ListsIn == ASSUME SystemTypes, NEW q \in Queues PROVE Lists(work[q]) \subseteq Clients
<1>1. work[q].batch \in Seq(Clients) BY DEF SystemTypes, Work
<1> QED BY <1>1 DEF Lists

-----------------------------------------------------------------------------
\* What a step of the registry leaves to the client.

QueuesKept ==
  \A k \in Slots : reg'[k].active /\ reg'[k].token \in KnownTokens =>
    reg[k].active /\ reg'[k].token = reg[k].token /\ reg'[k].queue = reg[k].queue
RequestsKept == \A t, f : f \in Frames /\ Requested(t, f)' => Requested(t, f)
WaiterKept(c) ==
  waiter[c].st # "no" => /\ waiter'[c].st # "no" /\ waiter'[c].token = waiter[c].token
                         /\ waiter'[c].frame = waiter[c].frame /\ waiter'[c].output = waiter[c].output

LEMMA FoundKept ==
  ASSUME QueuesKept, NEW t \in KnownTokens
  PROVE  /\ Found(t)' \subseteq Found(t)
         /\ \A k \in Found(t)' : reg'[k].queue = reg[k].queue
  BY DEF QueuesKept, Found

LEMMA RequestedKnown ==
  ASSUME RendezvousInv, NEW t, NEW f, Requested(t, f), t \in Nat \ {0}
  PROVE  t \in KnownTokens
<1> USE DEF RendezvousInv, WakeInv
<1>1. CASE \E k \in Slots : reg[k].token = t
  BY <1>1, SizesAssumption DEF TokensUnique, KnownTokens, TypeInv, TypeOK
<1>2. CASE \E g \in gpu : g.token = t BY <1>2 DEF KernelsInv
<1> QED BY <1>1, <1>2 DEF Requested

LEMMA BroadcastWaiter == ASSUME TypeInv, waiter' = Broadcasted PROVE \A c \in Clients : WaiterKept(c)
  BY DEF TypeInv, TypeOK, Broadcasted, Waiting, WaiterKept, Threads

LEMMA SameWaiter == ASSUME NEW c, waiter'[c] = waiter[c] PROVE WaiterKept(c)
  BY DEF WaiterKept

LEMMA FailJobWaiters ==
  ASSUME TypeInv, NEW h \in Hips, NEW j, FailJob(h, j)
  PROVE  \A c \in Clients : WaiterKept(c)
  BY BroadcastWaiter, SameWaiter DEF FailJob, FailFrame

LEMMA CompleteWaiters ==
  ASSUME TypeInv, NEW h \in Hips, Complete(h)
  PROVE  \A c \in Clients : WaiterKept(c)
  BY BroadcastWaiter, SameWaiter DEF Complete

\* A HIP thread wakes clients, and does not touch what they wait for.
LEMMA HipWaiters ==
  ASSUME TypeInv, NEW h \in Hips, HipStep(h)
  PROVE  \A c \in Clients : WaiterKept(c)
<1>1. h \in Threads /\ \A c \in Clients : c # h /\ c \in Threads
  BY ThreadsAssumption DEF Threads
<1>2. CASE HipCheck(h) BY <1>1, <1>2, CheckType, SameWaiter DEF HipCheck
<1>3. CASE HipExpire(h)
  <2>1. waiter' = [Broadcasted EXCEPT ![h] = NotWaiting] BY <1>3 DEF HipExpire, Expire
  <2>2. \A c \in Clients : waiter'[c] = Broadcasted[c] BY <1>1, <2>1 DEF Broadcasted
  <2> QED BY <1>1, <2>2 DEF TypeInv, TypeOK, Broadcasted, Waiting, WaiterKept
<1>4. ASSUME NEW f \in Frames, BeginJob(h, f) PROVE \A c \in Clients : WaiterKept(c)
  <2>1. \/ FailJob(h, job[h]) \/ UNCHANGED waiter \/ \E t : Enter(h, t, f, FALSE)
    BY <1>4 DEF BeginJob
  <2>2. ASSUME NEW t, Enter(h, t, f, FALSE) PROVE \A c \in Clients : waiter'[c] = waiter[c]
    BY <1>1, <2>2 DEF Enter, TypeInv, TypeOK
  <2> QED BY <2>1, <2>2, SameWaiter, FailJobWaiters
<1>5. CASE UNCHANGED waiter BY <1>5, SameWaiter
<1>6. CASE FinishMarker(h) BY <1>6, FailJobWaiters, CompleteWaiters DEF FinishMarker
<1>7. CASE DeviceSync(h) BY <1>5, <1>7, FailJobWaiters, CompleteWaiters DEF DeviceSync
<1>8. ASSUME NEW s \in LaunchStreams, StreamSync(h, s) PROVE \A c \in Clients : WaiterKept(c)
  BY <1>5, <1>8, FailJobWaiters, CompleteWaiters DEF StreamSync
<1>9. ASSUME NEW import \in BOOLEAN, NEW s \in LaunchStreams, Launch(h, import, s)
      PROVE  \A c \in Clients : WaiterKept(c)
  BY <1>5, <1>9, FailJobWaiters DEF Launch
<1>10. ASSUME NEW exact \in BOOLEAN, SetFlag(h, exact) PROVE \A c \in Clients : WaiterKept(c)
  BY <1>5, <1>10, FailJobWaiters DEF SetFlag
<1>11. CASE \/ Claim(h) \/ ThreadExit(h) \/ \E kind \in ProbeKinds, k \in Slots : ProbeBegin(h, kind, k)
            \/ \E launched, synced \in BOOLEAN : ProbeEnd(h, launched, synced)
  BY <1>5, <1>11 DEF Claim, ThreadExit, ProbeBegin, ProbeEnd
<1> QED BY <1>2, <1>3, <1>4, <1>6, <1>7, <1>8, <1>9, <1>10, <1>11 DEF HipStep

\* Lifetime and the HIP threads leave registrations with their queues, and a new
\* one has a new token.
LEMMA OthersKeep ==
  ASSUME RendezvousInv, Lifetime \/ \E h \in Hips : HipStep(h)
  PROVE  /\ QueuesKept /\ RequestsKept /\ KernelsInv' /\ KnownTokens \subseteq KnownTokens'
         /\ UNCHANGED snap /\ \A c \in Clients : WaiterKept(c)
<1> USE DEF RendezvousInv, WakeInv
<1>1. CASE Lifetime
  <2>1. AsksNothingNew /\ KernelsInv' /\ KnownTokens \subseteq KnownTokens'
    BY <1>1, LifetimeKernelsTamed
  <2>2. RequestsKept BY <2>1, NothingNewRequested DEF RequestsKept
  <2>3. UNCHANGED snap /\ (UNCHANGED waiter \/ waiter' = Broadcasted)
    BY <1>1 DEF Lifetime, Register, Release, AppRelease, Destroy, Map, Retire
  <2>4. QueuesKept
    <3>1. ASSUME NEW o \in Owners, Register(o) PROVE QueuesKept
      <4>1. PICK k \in Slots :
              reg' = [reg EXCEPT ![k] = [NoRegistration EXCEPT !.active = TRUE, !.token = nextToken,
                                                               !.owner = o]]
        BY <3>1 DEF Register
      <4>2. reg'[k].token = nextToken /\ \A j \in Slots \ {k} : reg'[j] = reg[j]
        BY <4>1 DEF NoRegistration, TypeInv, TypeOK
      <4>3. nextToken \notin KnownTokens BY SizesAssumption DEF KnownTokens, TypeInv, TypeOK
      <4> QED BY <4>2, <4>3 DEF QueuesKept
    <3>2. ASSUME NEW o \in Owners, Destroy(o) PROVE QueuesKept
      BY <3>2 DEF Destroy, Retire, QueuesKept, TypeInv, TypeOK, Registration
    <3>3. ASSUME NEW k \in Slots, Map(k) PROVE QueuesKept
      BY <3>3 DEF Map, QueuesKept, TypeInv, TypeOK, Registration
    <3>4. ASSUME NEW o \in Owners, Release(o) \/ AppRelease(o) PROVE QueuesKept
      BY <3>4 DEF Release, AppRelease, QueuesKept
    <3> QED BY <1>1, <3>1, <3>2, <3>3, <3>4 DEF Lifetime
  <2> QED BY <2>1, <2>2, <2>3, <2>4, BroadcastWaiter, SameWaiter
<1>2. ASSUME NEW h \in Hips, HipStep(h)
      PROVE  /\ QueuesKept /\ RequestsKept /\ KernelsInv' /\ KnownTokens \subseteq KnownTokens'
             /\ UNCHANGED snap /\ \A c \in Clients : WaiterKept(c)
  <2>1. AsksNothingNew /\ KernelsInv' BY <1>2, HipKernelsTamed
  <2>2. RequestsKept BY <2>1, NothingNewRequested DEF RequestsKept
  <2>3. nextToken' = nextToken /\ UNCHANGED snap
    BY <1>2 DEF HipStep, HipCheck, HipExpire, Claim, FinishMarker, DeviceSync, ThreadExit, BeginJob,
                StreamSync, Launch, SetFlag, ProbeBegin, ProbeEnd
  <2>4. QueuesKept
    <3>1. CASE UNCHANGED reg BY <3>1 DEF QueuesKept
    <3>2. ASSUME NEW kind \in ProbeKinds, NEW k \in Slots, ProbeBegin(h, kind, k) PROVE QueuesKept
      BY <3>2 DEF ProbeBegin, QueuesKept, TypeInv, TypeOK, Registration
    <3>3. ASSUME NEW launched \in BOOLEAN, NEW synced \in BOOLEAN, ProbeEnd(h, launched, synced)
          PROVE  QueuesKept
      <4>1. UNCHANGED reg \/ \E k : reg' = [reg EXCEPT ![k].probe = FALSE] BY <3>3 DEF ProbeEnd
      <4>2. ASSUME NEW k, reg' = [reg EXCEPT ![k].probe = FALSE] PROVE QueuesKept
        BY <4>2 DEF QueuesKept, TypeInv, TypeOK, Registration
      <4> QED BY <3>1, <4>1, <4>2
    <3> QED
      BY <1>2, <3>1, <3>2, <3>3 DEF HipStep, HipCheck, HipExpire, Claim, FinishMarker, DeviceSync,
                                    ThreadExit, BeginJob, StreamSync, Launch, SetFlag
  <2> QED BY <1>2, <2>1, <2>2, <2>3, <2>4, HipWaiters DEF KnownTokens
<1> QED BY <1>1, <1>2

-----------------------------------------------------------------------------
\* How the parts of SystemInv survive a step.

LEMMA InUse ==
  ASSUME SystemInv
  PROVE  /\ \A q \in Queues : Lists(work[q]) \subseteq Clients
         /\ \A q \in Queues : \A l \in Lists(work[q]) : held[l] # "no"
         /\ \A y \in sent : y.list \in Clients /\ y.queue \in Queues /\ y.value \in Nat
                            /\ held[y.list] # "no"
<1> USE DEF SystemInv
<1>1. \A q \in Queues : Lists(work[q]) \subseteq Clients BY ListsIn
<1>2. \A q \in Queues : \A l \in Lists(work[q]) : held[l] # "no" BY DEF Holders
<1>3. \A y \in sent : y.list \in Clients /\ y.queue \in Queues /\ y.value \in Nat
  BY DEF SystemTypes, CommandBuffer
<1>4. \A y \in sent : held[y.list] # "no" BY <1>2, <1>3 DEF SentInv, Accounted, Holders
<1> QED BY <1>1, <1>2, <1>3, <1>4

\* What a worker past its claim holds, it holds on its own.
LEMMA OneUser ==
  ASSUME SystemInv, NEW p \in Queues, NEW q \in Queues, NEW t, Uses(p, t), Uses(q, t), Found(t) # {},
         t # 0
  PROVE  p = q
<1> USE DEF SystemInv
<1>1. PICK k \in Found(t) : TRUE OBVIOUS
<1>2. ASSUME NEW r \in Queues, Uses(r, t) PROVE reg[k].queue = r
  <2>1. PICK l \in Lists(work[r]) : list[l].cut = t /\ PastClaim(work[r]) BY <1>2 DEF Uses
  <2>2. l \in Clients BY <2>1, ListsIn
  <2>3. PICK b \in snap[l] : b.token = t BY <2>1, <2>2 DEF Formed, ListFormed
  <2> QED BY <1>1, <2>1, <2>3 DEF Claimed
<1> QED BY <1>2

WorkerRests(p) ==
  work'[p] = work[p] /\ \A l \in Lists(work[p]) : list'[l] = list[l] /\ snap'[l] = snap[l]

\* A worker that is stuck over a request stays so, or leaves it removed or answered.
StuckKept(q, t, f) ==
  Requested(t, f)' =>
    /\ Uses(q, t)' => Uses(q, t) /\ (Stuck(work[q], t, f) => Stuck(work[q], t, f)')
    /\ Uses(q, t) /\ Stuck(work[q], t, f) /\ work[q].pc # "finish" =>
         removed' \/ (Uses(q, t)' /\ Stuck(work[q], t, f)' /\ work'[q].pc # "finish")

LEMMA DoomedKept ==
  ASSUME QueuesKept, NEW t \in KnownTokens, NEW f, Doomed(t, f), removed => removed',
         Requested(t, f)', \A q \in Queues : StuckKept(q, t, f)
  PROVE  Doomed(t, f)'
<1>1. CASE Found(t) = {} BY <1>1, FoundKept DEF Doomed
<1>2. CASE Found(t) # {}
  <2>1. /\ \A q \in Queues : Uses(q, t) => Stuck(work[q], t, f)
        /\ removed \/ \E q \in Queues : Uses(q, t) /\ Stuck(work[q], t, f) /\ work[q].pc # "finish"
    BY <1>2 DEF Doomed
  <2>2. \A q \in Queues : Uses(q, t)' => Stuck(work[q], t, f)' BY <2>1 DEF StuckKept
  <2>3. removed' \/ \E q \in Queues : Uses(q, t)' /\ Stuck(work[q], t, f)' /\ work'[q].pc # "finish"
    BY <2>1 DEF StuckKept
  <2> QED BY <2>2, <2>3 DEF Doomed
<1> QED BY <1>1, <1>2

LEMMA CurrentIsListed ==
  ASSUME SystemInv, NEW q \in Queues, work[q].pc # "idle"
  PROVE  Current(work[q]) \in Lists(work[q])
  BY CurrentIn DEF SystemInv, Formed

LEMMA RestStuck ==
  ASSUME SystemInv, NEW q \in Queues, WorkerRests(q), NEW t, NEW f
  PROVE  StuckKept(q, t, f)
<1>1. work'[q] = work[q] /\ \A l \in Lists(work[q]) : list'[l] = list[l] BY DEF WorkerRests
<1>2. Uses(q, t)' <=> Uses(q, t) BY <1>1 DEF Uses, PastClaim, Lists
<1>3. CASE work[q].pc = "idle" BY <1>2, <1>3 DEF StuckKept, Uses, PastClaim
<1>4. CASE work[q].pc # "idle"
  <2>1. list'[Current(work[q])] = list[Current(work[q])] BY <1>1, <1>4, CurrentIsListed
  <2>2. Stuck(work[q], t, f)' <=> Stuck(work[q], t, f)
    BY <1>1, <2>1 DEF Stuck, TokenOf, FrameOf, Current
  <2> QED BY <1>1, <1>2, <2>2 DEF StuckKept
<1> QED BY <1>3, <1>4

LEMMA RestFormed ==
  ASSUME SystemInv, NEW q \in Queues, WorkerRests(q), \A l \in Lists(work[q]) : WaiterKept(l),
         timeline' \in {timeline, timeline + 1}
  PROVE  WorkFormed(work[q])' /\ WaitFormed(q)'
<1> USE DEF SystemInv
<1>1. WorkFormed(work[q]) /\ work[q].last \in Nat /\ WaitFormed(q) BY DEF Formed, SystemTypes, Work
<1>2. work'[q] = work[q] BY DEF WorkerRests
<1>3. WorkFormed(work[q])' BY <1>1, <1>2 DEF WorkFormed, SystemTypes
<1>4. ASSUME work[q].pc = "wait" PROVE WaitFormed(q)'
  <2> DEFINE l == Current(work[q])
  <2>1. l \in Lists(work[q]) BY <1>4, CurrentIsListed
  <2>2. list'[l] = list[l] /\ WaiterKept(l) /\ Current(work[q])' = l
    BY <1>2, <2>1 DEF WorkerRests, Current
  <2>3. waiter[l].st # "no" /\ waiter[l].token = list[l].cut /\ waiter[l].frame = list[l].frame
        /\ waiter[l].output
    BY <1>1, <1>4 DEF WaitFormed, TokenOf, FrameOf
  <2> HIDE DEF l
  <2> QED BY <2>2, <2>3 DEF WaitFormed, TokenOf, FrameOf, WaiterKept
<1> QED BY <1>2, <1>3, <1>4 DEF WaitFormed

\* No new prefix of the list, no new request.
LEMMA RestSuffix ==
  ASSUME SystemInv, NEW q \in Queues, WorkerRests(q),
         \A y \in sent' \ sent : y.list \notin Lists(work[q]),
         \A t, f : Uses(q, t) /\ f \in Frames /\ Requested(t, f)' => Requested(t, f)
  PROVE  SuffixReady(work[q])'
<1>1. work'[q] = work[q] BY DEF WorkerRests
<1>2. CASE ~PastClaim(work[q]) BY <1>1, <1>2 DEF SuffixReady, SuffixDue, PastClaim
<1>3. CASE PastClaim(work[q])
  <2> DEFINE l == Current(work[q])
  <2>1. l \in Lists(work[q]) BY <1>3, CurrentIsListed DEF PastClaim
  <2>2. list'[l] = list[l] /\ Current(work[q])' = l BY <1>1, <2>1 DEF WorkerRests, Current
  <2>3. SuffixReady(work[q]) BY DEF SystemInv, SuffixInv
  <2>4. PrefixRun(work[q]) => PrefixRun(work[q])' BY <2>1, <2>2 DEF PrefixRun
  <2>5. PICK t, f : t = list[l].cut /\ f = list[l].frame OBVIOUS
  <2>6. TokenOf(work[q])' = t /\ FrameOf(work[q])' = f /\ TokenOf(work[q]) = t /\ FrameOf(work[q]) = f
    BY <1>1, <2>2, <2>5 DEF TokenOf, FrameOf
  <2>7. Uses(q, t) /\ f \in Frames
    <3>1. l \in Clients /\ held[l] # "no" BY <2>1, InUse
    <3> QED BY <1>3, <2>1, <2>5, <3>1 DEF Uses, SystemInv, Formed, ListFormed
  <2>8. SuffixDue(work[q]) => ~Requested(t, f)' BY <2>3, <2>6, <2>7 DEF SuffixReady
  <2>9. SuffixDue(work[q])' => ~Requested(TokenOf(work[q]), FrameOf(work[q]))'
    BY <1>1, <2>6, <2>8 DEF SuffixDue, Requested
  <2> HIDE DEF l
  <2> QED BY <1>1, <2>3, <2>4, <2>9 DEF SuffixReady, SuffixDue
<1> QED BY <1>2, <1>3

HeldKeep == \A l \in Clients : held[l] # "no" => list'[l] = list[l] /\ snap'[l] = snap[l]

LEMMA ClaimedKept ==
  ASSUME SystemInv, QueuesKept, HeldKeep,
         \A q \in Queues : PastClaim(work[q])' => /\ PastClaim(work[q])
                                                  /\ Lists(work[q])' \subseteq Lists(work[q]),
         \A y \in sent' \ sent : /\ y.queue \in Queues /\ PastClaim(work[y.queue])
                                 /\ y.list \in Lists(work[y.queue]) /\ y.buffers = snap[y.list]
  PROVE  Claimed'
<1> USE DEF SystemInv
<1>1. ASSUME NEW l \in Clients, NEW b \in snap[l], NEW k \in Found(b.token)'
      PROVE  k \in Found(b.token) /\ reg'[k].queue = reg[k].queue
  <2>1. b.token \in KnownTokens BY DEF Formed, ListFormed
  <2> QED BY <2>1, FoundKept, <1>1
<1>2. ASSUME NEW q \in Queues, PastClaim(work[q]), NEW l \in Lists(work[q]), NEW b \in snap[l],
             NEW k \in Found(b.token)'
      PROVE  reg'[k].queue = q
  <2>1. l \in Clients BY ListsIn
  <2> QED BY <1>1, <1>2, <2>1 DEF Claimed
<1>3. ASSUME NEW q \in Queues, PastClaim(work[q])', NEW l \in Lists(work[q])', NEW b \in snap'[l],
             NEW k \in Found(b.token)'
      PROVE  reg'[k].queue = q
  <2>1. l \in Lists(work[q]) /\ PastClaim(work[q]) BY <1>3
  <2>2. snap'[l] = snap[l] BY <2>1, InUse DEF HeldKeep
  <2> QED BY <1>2, <1>3, <2>1, <2>2
<1>4. ASSUME NEW y \in sent', NEW b \in y.buffers, NEW k \in Found(b.token)'
      PROVE  reg'[k].queue = y.queue
  <2>1. CASE y \in sent
    <3>1. y.list \in Clients /\ y.buffers = snap[y.list] BY <2>1, InUse DEF SentInv
    <3>2. k \in Found(b.token) /\ reg'[k].queue = reg[k].queue BY <1>1, <1>4, <3>1
    <3> QED BY <1>4, <2>1, <3>2 DEF Claimed, ClaimedForTheirQueue
  <2>2. CASE y \notin sent BY <1>2, <1>4, <2>2
  <2> QED BY <2>1, <2>2
<1>5. ClaimedForTheirQueue' BY <1>4 DEF ClaimedForTheirQueue
<1> QED BY <1>3, <1>5 DEF Claimed

LEMMA RequestsKeptInv ==
  ASSUME SystemInv, QueuesKept, removed => removed',
         \A t \in Nat \ {0}, f \in Frames : Requested(t, f)' =>
           \/ Requested(t, f) /\ \A q \in Queues : StuckKept(q, t, f)
           \/ Doomed(t, f)'
  PROVE  RequestsInv'
<1> SUFFICES ASSUME NEW t \in KnownTokens', NEW f \in Frames, Requested(t, f)', ~Doomed(t, f)'
             PROVE  FALSE
  BY DEF RequestsInv
<1>1. t \in Nat \ {0} BY DEF KnownTokens
<1>2. Requested(t, f) /\ \A q \in Queues : StuckKept(q, t, f) BY <1>1
<1>3. t \in KnownTokens BY <1>1, <1>2, RequestedKnown DEF SystemInv
<1>4. Doomed(t, f) BY <1>2, <1>3 DEF SystemInv, RequestsInv
<1> QED BY <1>2, <1>3, <1>4, DoomedKept

\* Steps of others: the workers rest.
LEMMA WorkersRest ==
  ASSUME SystemInv, RendezvousInv', SystemTypes', QueuesKept, RequestsKept, HeldKeep,
         UNCHANGED <<held, work, timeline, done, sent, fences>>, removed => removed',
         \A l \in Clients : ListFormed(l)' /\ WaiterKept(l)
  PROVE  SystemInv'
<1> USE DEF SystemInv
<1>1. \A q \in Queues : Lists(work[q])' = Lists(work[q]) /\ work'[q] = work[q] BY DEF Lists
<1>2. \A q \in Queues : WorkerRests(q) BY <1>1, InUse DEF WorkerRests, HeldKeep
<1>3. Formed'
  <2>1. \A q \in Queues : WorkFormed(work[q])' /\ WaitFormed(q)' BY <1>2, InUse, RestFormed
  <2> QED BY <2>1 DEF Formed
<1>4. Holders' BY <1>1 DEF Holders
<1>5. SentInv'
  <2> SUFFICES ASSUME NEW y \in sent
               PROVE  /\ y.value # 0 => done' < y.value /\ y.value <= timeline'
                      /\ y.buffers = snap'[y.list] /\ Accounted(y)'
    BY DEF SentInv
  <2>1. snap'[y.list] = snap[y.list] BY InUse DEF HeldKeep
  <2> QED BY <2>1 DEF SentInv, Accounted, Lists, PastClaim
<1>6. Claimed' BY <1>1, ClaimedKept DEF PastClaim
<1>7. RequestsInv' BY <1>2, RestStuck, RequestsKeptInv DEF RequestsKept
<1>8. SuffixInv' BY <1>2, RestSuffix DEF SuffixInv, RequestsKept
<1> QED BY <1>3, <1>4, <1>5, <1>6, <1>7, <1>8

-----------------------------------------------------------------------------
\* The registry and the recorders.

LEMMA RegistryStep ==
  ASSUME RendezvousInv, [Next]_vars
  PROVE  WakeInv' /\ JobOwnsItsState' /\ StatesShaped'
<1> USE DEF RendezvousInv
<1>1. WakeInv' BY WakeStep
<1>2. StatesShaped' BY WindowStep DEF WakeInv
<1>3. JobOwnsItsState'
  <2>1. CASE UNCHANGED vars BY <2>1 DEF vars, hipVars, JobOwnsItsState, Pos
  <2>2. CASE Next BY <2>2, LifetimeJobs, ClientJobs, HipJobs DEF Next, WakeInv
  <2> QED BY <2>1, <2>2
<1> QED BY <1>1, <1>2, <1>3

LEMMA RendezvousStutter ==
  ASSUME RendezvousInv, UNCHANGED vars
  PROVE  RendezvousInv' /\ QueuesKept /\ RequestsKept /\ KnownTokens' = KnownTokens
         /\ \A c \in Clients : WaiterKept(c)
<1>1. UNCHANGED <<reg, frames, nextToken, waiter, job, gpu, snap>> BY DEF vars, hipVars
<1>2. WakeInv' /\ JobOwnsItsState' /\ StatesShaped' BY RegistryStep
<1>3. KernelsInv'
  BY <1>1 DEF RendezvousInv, KernelsInv, KnownTokens, Running, JobStreams, Quiet, Holds, Pos
<1>4. RequestsKept BY <1>1 DEF RequestsKept, Requested, Holds, Pos
<1> QED BY <1>1, <1>2, <1>3, <1>4, SameWaiter DEF RendezvousInv, QueuesKept, KnownTokens

\* A call of the Vulkan side that is no publication.
LEMMA CallKeeps ==
  ASSUME RendezvousInv, NEW c \in Clients, NEW t, NEW f,
         \/ Snapshot(c) \/ DropSnapshot(c) \/ ClientCheck(c) \/ ClientExpire(c)
         \/ /\ f \in Frames /\ t \in KnownTokens
            /\ WaitOutput(c, t, f) \/ ClientFail(t, f) \/ ConsumerSubmitted(t, f)
  PROVE  RendezvousInv' /\ QueuesKept /\ RequestsKept /\ KnownTokens' = KnownTokens
<1>1. Next BY DEF Next, AnyClient, ClientStep
<1>2. AsksNothingNew /\ KernelsInv' /\ UNCHANGED <<reg, nextToken>> BY ClientKernelsTamed
<1>3. WakeInv' /\ JobOwnsItsState' /\ StatesShaped' BY <1>1, RegistryStep
<1>4. RequestsKept BY <1>2, NothingNewRequested DEF RequestsKept
<1> QED BY <1>2, <1>3, <1>4 DEF RendezvousInv, QueuesKept, KnownTokens

LEMMA ActiveKnown ==
  ASSUME RendezvousInv, NEW k \in Slots, reg[k].active
  PROVE  reg[k].token \in KnownTokens /\ reg[k].token \in Tokens /\ reg[k].token # 0
<1>1. reg[k].token \in Tokens /\ reg[k].token # 0 /\ nextToken \in Nat /\ MaxToken \in Nat
  BY SizesAssumption DEF RendezvousInv, WakeInv, TypeInv, TypeOK, WellFormed, Registration
<1>2. reg[k].token < nextToken BY DEF RendezvousInv, WakeInv, TokensUnique
<1> QED BY <1>1, <1>2 DEF KnownTokens, Tokens

LEMMA OtherListsFormed ==
  ASSUME Formed, KnownTokens \subseteq KnownTokens', NEW l \in Clients, list'[l] = list[l],
         snap'[l] = snap[l], held'[l] = held[l] \/ list[l].closed
  PROVE  ListFormed(l)'
<1>1. ListFormed(l) BY DEF Formed
<1> QED BY <1>1 DEF ListFormed

LEMMA OthersInv ==
  ASSUME SystemInv, Lifetime \/ \E h \in Hips : HipStep(h), UNCHANGED clientVars
  PROVE  SystemInv'
<1> USE DEF SystemInv
<1>1. UNCHANGED <<list, held, removed, work, timeline, done, sent, fences>>
  BY DEF clientVars, recorderVars, gpuVars
<1>2. /\ QueuesKept /\ RequestsKept /\ KernelsInv' /\ KnownTokens \subseteq KnownTokens'
      /\ UNCHANGED snap /\ \A c \in Clients : WaiterKept(c)
  BY OthersKeep
<1>3. RendezvousInv' BY <1>2, RegistryStep DEF Next, RendezvousInv
<1>4. SystemTypes' BY <1>1 DEF SystemTypes
<1>5. \A l \in Clients : ListFormed(l)' BY <1>1, <1>2, OtherListsFormed
<1> QED BY <1>1, <1>2, <1>3, <1>4, <1>5, WorkersRest DEF HeldKeep

LEMMA RecorderInv ==
  ASSUME SystemInv, NEW l \in Clients, Recorder(l)
  PROVE  SystemInv'
<1> USE DEF SystemInv
<1>1. UNCHANGED <<held, work, timeline, done, sent, fences>>
  BY DEF Recorder, Arm, Split, Reject, Close, Reset, gpuVars
<1>2. list[l] \in CommandList /\ ListFormed(l) BY DEF SystemTypes, Formed
\* It is enough to look at the list and its snapshot.
<1>3. ASSUME NEW x, list' = [list EXCEPT ![l] = x], x \in CommandList,
             held[l] = "no" \/ (x = list[l] /\ snap'[l] = snap[l]),
             \A m \in Clients \ {l} : snap'[m] = snap[m],
             ListFormed(l)', removed' \in BOOLEAN, removed => removed',
             RendezvousInv', QueuesKept, RequestsKept, KnownTokens \subseteq KnownTokens',
             \A c \in Clients : WaiterKept(c)
      PROVE  SystemInv'
  <2>1. \A m \in Clients : list'[m] = IF m = l THEN x ELSE list[m] BY <1>3 DEF SystemTypes
  <2>2. SystemTypes' BY <1>1, <1>3 DEF SystemTypes
  <2>3. HeldKeep BY <1>3, <2>1 DEF HeldKeep
  <2>4. \A m \in Clients : ListFormed(m)' BY <1>1, <1>3, <2>1, OtherListsFormed
  <2> QED BY <1>1, <1>3, <2>2, <2>3, <2>4, WorkersRest
<1>4. ASSUME NEW k \in Slots, NEW f \in Frames, Arm(l, k, f) PROVE SystemInv'
  <2> DEFINE x == [list[l] EXCEPT !.armed = reg[k].token, !.frame = f]
  <2>1. /\ ~list[l].closed /\ list[l].cut = 0 /\ UNCHANGED <<vars, removed>>
        /\ list' = [list EXCEPT ![l] = x]
    BY <1>4 DEF Arm, Recording
  <2>2. reg[k].token \in Tokens BY <1>4, ActiveKnown DEF Arm
  <2>3. x \in CommandList /\ x.frame = f /\ x.cut = list[l].cut /\ x.closed = list[l].closed
    BY <1>2, <2>2 DEF CommandList
  <2>4. list'[l] = x BY <2>1 DEF SystemTypes
  <2> HIDE DEF x
  <2>5. RendezvousInv' /\ QueuesKept /\ RequestsKept /\ KnownTokens' = KnownTokens
        /\ \A c \in Clients : WaiterKept(c)
    BY <2>1, RendezvousStutter
  <2>6. ListFormed(l)' /\ held[l] = "no" /\ UNCHANGED snap
    BY <1>1, <1>2, <2>1, <2>3, <2>4, <2>5 DEF ListFormed, vars
  <2> QED BY <1>3, <2>1, <2>3, <2>5, <2>6 DEF SystemTypes
<1>5. CASE Reject(l)
  <2>1. UNCHANGED <<vars, list>> /\ removed' = TRUE BY <1>5 DEF Reject
  <2>2. UNCHANGED snap /\ list' = [list EXCEPT ![l] = list[l]] BY <2>1 DEF SystemTypes, vars
  <2>3. RendezvousInv' /\ QueuesKept /\ RequestsKept /\ KnownTokens' = KnownTokens
        /\ \A c \in Clients : WaiterKept(c)
    BY <2>1, RendezvousStutter
  <2>4. ListFormed(l)' BY <1>1, <1>2, <2>1, <2>2, <2>3 DEF ListFormed
  <2> QED BY <1>2, <1>3, <2>1, <2>2, <2>3, <2>4
<1>6. CASE Close(l)
  <2> DEFINE x == [list[l] EXCEPT !.closed = TRUE]
  <2>1. /\ ~list[l].closed /\ list[l].cut # 0 /\ UNCHANGED <<vars, removed>>
        /\ list' = [list EXCEPT ![l] = x]
    BY <1>6 DEF Close
  <2>2. /\ x \in CommandList /\ x.frame = list[l].frame /\ x.cut = list[l].cut
        /\ x.armed = list[l].armed
    BY <1>2 DEF CommandList
  <2>3. list'[l] = x BY <2>1 DEF SystemTypes
  <2> HIDE DEF x
  <2>4. RendezvousInv' /\ QueuesKept /\ RequestsKept /\ KnownTokens' = KnownTokens
        /\ \A c \in Clients : WaiterKept(c)
    BY <2>1, RendezvousStutter
  <2>5. ListFormed(l)' /\ held[l] = "no" /\ UNCHANGED snap
    BY <1>1, <1>2, <2>1, <2>2, <2>3, <2>4 DEF ListFormed, vars
  <2> QED BY <1>3, <2>1, <2>2, <2>4, <2>5 DEF SystemTypes
<1>7. CASE Reset(l)
  <2>1. DropSnapshot(l) /\ list' = [list EXCEPT ![l] = NewList] /\ held[l] = "no" /\ UNCHANGED removed
    BY <1>7 DEF Reset
  <2>2. /\ snap' = [snap EXCEPT ![l] = {}] /\ UNCHANGED waiter BY <2>1 DEF DropSnapshot
  <2>3. snap'[l] = {} /\ \A m \in Clients \ {l} : snap'[m] = snap[m]
    BY <2>2 DEF RendezvousInv, WakeInv, TypeInv, TypeOK
  <2>4. NewList \in CommandList /\ list'[l] = NewList
    BY <2>1, SizesAssumption DEF SystemTypes, NewList, CommandList, Tokens
  <2>5. RendezvousInv' /\ QueuesKept /\ RequestsKept /\ KnownTokens' = KnownTokens
    BY <2>1, CallKeeps
  <2>6. ListFormed(l)' BY <1>1, <2>1, <2>3, <2>4 DEF ListFormed, NewList
  <2> QED BY <1>3, <2>1, <2>2, <2>3, <2>4, <2>5, <2>6, SameWaiter DEF SystemTypes
<1>8. CASE Split(l)
  <2>1. /\ Snapshot(l) /\ ~list[l].closed /\ list[l].armed # 0
        /\ \/ /\ \E b \in snap'[l] : b.token = list[l].armed
              /\ list' = [list EXCEPT ![l].cut = list[l].armed, ![l].armed = 0]
              /\ UNCHANGED removed
           \/ removed' = TRUE /\ UNCHANGED list
    BY <1>8 DEF Split, Recording
  <2>2. UNCHANGED <<waiter, nextToken>> BY <2>1 DEF Snapshot
  <2>3. PICK S : /\ S \subseteq {BufferOf(k) : k \in {k \in Slots : reg[k].active}}
                 /\ snap' = [snap EXCEPT ![l] = S]
    <3>1. CASE UNCHANGED snap
      <4>1. snap' = [snap EXCEPT ![l] = {}] BY <2>1, <3>1 DEF Snapshot, RendezvousInv, WakeInv, TypeInv, TypeOK
      <4> QED BY <4>1
    <3> QED BY <2>1, <3>1 DEF Snapshot
  <2>4. snap'[l] = S /\ \A m \in Clients \ {l} : snap'[m] = snap[m]
    BY <2>3 DEF RendezvousInv, WakeInv, TypeInv, TypeOK
  <2>5. \A b \in snap'[l] : b.token \in KnownTokens BY <2>3, <2>4, ActiveKnown DEF BufferOf
  <2>6. RendezvousInv' /\ QueuesKept /\ RequestsKept /\ KnownTokens' = KnownTokens
    BY <2>1, CallKeeps
  <2>7. held[l] = "no" BY <1>2, <2>1 DEF ListFormed, SystemTypes
  <2> DEFINE x == [list[l] EXCEPT !.cut = list[l].armed, !.armed = 0]
  <2>8. /\ x \in CommandList /\ x.cut = list[l].armed /\ x.armed = 0 /\ x.frame = list[l].frame
        /\ x.closed = list[l].closed
    <3>1. 0 \in Tokens BY SizesAssumption DEF Tokens
    <3>2. \A c \in CommandList :
            LET d == [c EXCEPT !.cut = c.armed, !.armed = 0]
            IN  /\ d \in CommandList /\ d.cut = c.armed /\ d.armed = 0 /\ d.frame = c.frame
                /\ d.closed = c.closed
      BY <3>1 DEF CommandList
    <3> QED BY <1>2, <3>2
  <2>9. list' = [list EXCEPT ![l] = x] => list'[l] = x BY DEF SystemTypes
  <2>10. \/ /\ \E b \in snap'[l] : b.token = list[l].armed
            /\ list' = [list EXCEPT ![l] = x] /\ UNCHANGED removed
         \/ removed' = TRUE /\ list' = [list EXCEPT ![l] = list[l]]
    BY <2>1 DEF SystemTypes
  <2> HIDE DEF x
  <2>11. CASE /\ \E b \in snap'[l] : b.token = list[l].armed
              /\ list' = [list EXCEPT ![l] = x] /\ UNCHANGED removed
    <3>1. ListFormed(l)' BY <1>1, <1>2, <2>1, <2>5, <2>6, <2>7, <2>8, <2>9, <2>11 DEF ListFormed
    <3> QED BY <1>3, <2>2, <2>4, <2>6, <2>7, <2>8, <2>11, <3>1, SameWaiter DEF SystemTypes
  <2>12. CASE removed' = TRUE /\ list' = [list EXCEPT ![l] = list[l]]
    <3>1. list' = list BY <2>12 DEF SystemTypes
    <3>2. ListFormed(l)' BY <1>1, <1>2, <2>1, <2>5, <2>6, <2>7, <3>1 DEF ListFormed
    <3> QED BY <1>2, <1>3, <2>2, <2>4, <2>6, <2>7, <2>12, <3>2, SameWaiter
  <2> QED BY <2>10, <2>11, <2>12
<1> QED BY <1>4, <1>5, <1>6, <1>7, <1>8 DEF Recorder

-----------------------------------------------------------------------------
\* The steps of a worker inside an execute.

Moved(w, to, n, o) == [w EXCEPT !.pc = to, !.at = n, !.outcome = o]
Stations == {"idle", "claim", "acquire", "submit", "prefix", "publish", "output", "wait",
             "reacquire", "consumer", "finish"}
Outcomes == {"ok", "nr", "submit"}

LEMMA MovedWork ==
  ASSUME NEW w \in Work, NEW to \in Stations, NEW n \in Nat, NEW o \in Outcomes, NEW m,
         m = Moved(w, to, n, o)
  PROVE  /\ m \in Work /\ m.pc = to /\ m.at = n /\ m.outcome = o
         /\ m.batch = w.batch /\ m.last = w.last /\ Lists(m) = Lists(w)
         /\ n = w.at => Current(m) = Current(w) /\ TokenOf(m) = TokenOf(w) /\ FrameOf(m) = FrameOf(w)
<1>1. /\ m \in Work /\ m.pc = to /\ m.at = n /\ m.outcome = o
      /\ m.batch = w.batch /\ m.last = w.last
  BY DEF Moved, Work, Stations, Outcomes
<1>2. Lists(m) = Lists(w) BY <1>1 DEF Lists
<1>3. n = w.at => Current(m) = Current(w) BY <1>1 DEF Current
<1>4. n = w.at => TokenOf(m) = TokenOf(w) /\ FrameOf(m) = FrameOf(w) BY <1>3 DEF TokenOf, FrameOf
<1> QED BY <1>1, <1>2, <1>3, <1>4

\* How the actions write it.
LEMMA MovedForms ==
  ASSUME NEW w \in Work, NEW to, NEW n, NEW o
  PROVE  /\ [w EXCEPT !.pc = to] = Moved(w, to, w.at, w.outcome)
         /\ [w EXCEPT !.pc = to, !.outcome = o] = Moved(w, to, w.at, o)
         /\ [w EXCEPT !.pc = to, !.at = n] = Moved(w, to, n, w.outcome)
  BY DEF Moved, Work

\* The list at hand is cut at a registration and a frame of its own.
LEMMA CutKnown ==
  ASSUME SystemInv, NEW q \in Queues, work[q].pc # "idle"
  PROVE  /\ TokenOf(work[q]) \in KnownTokens /\ TokenOf(work[q]) # 0
         /\ FrameOf(work[q]) \in Frames /\ Current(work[q]) \in Clients
         /\ Current(work[q]) \in Lists(work[q])
         /\ PastClaim(work[q]) => Uses(q, TokenOf(work[q]))
<1> DEFINE l == Current(work[q])
<1>1. l \in Lists(work[q]) BY CurrentIsListed
<1>2. l \in Clients /\ held[l] # "no" BY <1>1, InUse
<1>3. list[l].cut # 0 /\ list[l].frame \in Frames /\ list[l].cut \in KnownTokens
  BY <1>2 DEF SystemInv, Formed, ListFormed
<1> QED BY <1>1, <1>2, <1>3 DEF TokenOf, FrameOf, Uses

LEMMA MoveStuck ==
  ASSUME NEW q \in Queues, work'[q].batch = work[q].batch, UNCHANGED list,
         PastClaim(work[q]), PastClaim(work[q])', NEW t, NEW f,
         \/ ~Stuck(work[q], t, f)
         \/ Stuck(work[q], t, f)' /\ (work'[q].pc # "finish" \/ removed')
  PROVE  StuckKept(q, t, f)
<1>1. Uses(q, t)' <=> Uses(q, t) BY DEF Uses, Lists
<1> QED BY <1>1 DEF StuckKept

LEMMA WorkerMoves ==
  ASSUME SystemInv, RendezvousInv', NEW q \in Queues, NEW w \in Work,
         work' = [work EXCEPT ![q] = w], w.batch = work[q].batch, w.last = work[q].last,
         PastClaim(work[q]), work[q].pc # "finish", PastClaim(w),
         UNCHANGED <<list, held, snap, timeline, done, sent, fences>>,
         removed' \in BOOLEAN, removed => removed', QueuesKept, KnownTokens' = KnownTokens,
         \A c \in Clients \ {Current(work[q])} : WaiterKept(c),
         WorkFormed(w)', WaitFormed(q)', SuffixReady(w)',
         \A t \in Nat \ {0}, f \in Frames : Requested(t, f)' =>
           (Requested(t, f) /\ StuckKept(q, t, f)) \/ Doomed(t, f)',
         \A p \in Queues \ {q} : \A t, f : Uses(p, t) /\ f \in Frames /\ Requested(t, f)' => Requested(t, f)
  PROVE  SystemInv'
<1> USE DEF SystemInv
<1>1. /\ work'[q] = w /\ \A p \in Queues \ {q} : work'[p] = work[p]
      /\ \A p \in Queues : Lists(work[p])' = Lists(work[p])
  BY DEF SystemTypes, Lists
<1>2. \A p \in Queues \ {q} : WorkerRests(p) BY <1>1 DEF WorkerRests
<1>3. SystemTypes' BY DEF SystemTypes
<1>4. Formed'
  <2>1. Current(work[q]) \in Lists(work[q]) BY CurrentIsListed DEF PastClaim
  <2>2. ASSUME NEW p \in Queues \ {q} PROVE WorkFormed(work[p])' /\ WaitFormed(p)'
    <3>1. \A l \in Lists(work[p]) : WaiterKept(l)
      BY <2>1, InUse DEF Holders
    <3> QED BY <1>2, <3>1, RestFormed
  <2>3. WorkFormed(work[q])' BY <1>1 DEF WorkFormed
  <2>4. \A l \in Clients : ListFormed(l)' BY OtherListsFormed
  <2> QED BY <2>2, <2>3, <2>4 DEF Formed
<1>5. Holders' BY <1>1 DEF Holders
<1>6. SentInv'
  <2> SUFFICES ASSUME NEW y \in sent PROVE Accounted(y)'
    BY DEF SentInv
  <2>1. Accounted(y) BY DEF SentInv
  <2>2. CASE y.list \in Lists(work[y.queue]) /\ PastClaim(work[y.queue]) /\ y.value <= work[y.queue].last
             /\ (y.value = 0 => work[y.queue].pc = "finish" /\ work[y.queue].outcome = "submit")
    <3>1. y.queue \in Queues BY InUse
    <3>2. CASE y.queue = q BY <1>1, <2>2, <3>1, <3>2 DEF Accounted, PastClaim
    <3>3. CASE y.queue # q BY <1>1, <2>2, <3>1, <3>3 DEF Accounted, PastClaim
    <3> QED BY <3>2, <3>3
  <2>3. CASE \E z \in fences : y.list \in z.lists /\ y.value \in 1 .. z.value BY <2>3 DEF Accounted
  <2>4. CASE held[y.list] = "lost" BY <2>4 DEF Accounted
  <2> QED BY <2>1, <2>2, <2>3, <2>4 DEF Accounted
<1>7. Claimed'
  <2>1. \A p \in Queues : PastClaim(work[p])' => PastClaim(work[p]) BY <1>1 DEF PastClaim
  <2> QED BY <1>1, <2>1, ClaimedKept DEF HeldKeep
<1>8. RequestsInv'
  <2>1. \A t \in Nat \ {0}, f \in Frames : Requested(t, f)' =>
          (Requested(t, f) /\ \A p \in Queues : StuckKept(p, t, f)) \/ Doomed(t, f)'
    BY <1>2, RestStuck
  <2> QED BY <2>1, RequestsKeptInv
<1>9. SuffixInv'
  <2>1. \A p \in Queues \ {q} : SuffixReady(work[p])' BY <1>2, RestSuffix
  <2>2. SuffixReady(work[q])'
    BY <1>1 DEF SuffixReady, SuffixDue, PrefixRun, TokenOf, FrameOf, Current, Requested
  <2> QED BY <2>1, <2>2 DEF SuffixInv
<1> QED BY <1>3, <1>4, <1>5, <1>6, <1>7, <1>8, <1>9

\* A worker that moves on without a call of the registry, or with one that asks
\* for nothing.
LEMMA MoveInv ==
  ASSUME SystemInv, RendezvousInv', NEW q \in Queues, NEW to \in Stations \ {"idle", "claim"},
         NEW n \in Nat, NEW o \in Outcomes, NEW w, w = Moved(work[q], to, n, o),
         work' = [work EXCEPT ![q] = w], PastClaim(work[q]), work[q].pc # "finish",
         UNCHANGED <<list, held, snap, timeline, done, sent, fences>>,
         removed' \in {removed, TRUE}, QueuesKept, RequestsKept, KnownTokens' = KnownTokens,
         \A c \in Clients \ {Current(work[q])} : WaiterKept(c),
         WorkFormed(w), WaitFormed(q)', SuffixReady(w)',
         \A t, f : f \in Frames /\ Requested(t, f)' =>
           \/ ~Stuck(work[q], t, f)
           \/ Stuck(work[q], t, f)' /\ (work'[q].pc # "finish" \/ removed')
  PROVE  SystemInv'
<1>1. work[q] \in Work BY DEF SystemInv, SystemTypes
<1>2. w \in Work /\ w.batch = work[q].batch /\ w.last = work[q].last /\ w.pc = to
  BY <1>1, MovedWork
<1>3. work'[q] = w /\ PastClaim(w) /\ PastClaim(work[q])'
  BY <1>2 DEF SystemInv, SystemTypes, PastClaim
<1>4. WorkFormed(w)' BY DEF WorkFormed
<1>5. removed' \in BOOLEAN /\ (removed => removed') BY DEF SystemInv, SystemTypes
<1>6. \A t, f : f \in Frames /\ Requested(t, f)' => Requested(t, f) /\ StuckKept(q, t, f)
  BY <1>2, <1>3, MoveStuck DEF RequestsKept
<1>7. \A p \in Queues \ {q} : \A t, f : Uses(p, t) /\ f \in Frames /\ Requested(t, f)' => Requested(t, f)
  BY DEF RequestsKept
<1> HIDE DEF QueuesKept, RequestsKept
<1> QED BY <1>2, <1>3, <1>4, <1>5, <1>6, <1>7, WorkerMoves

\* Where a worker is neither about to submit a suffix nor past its publication.
LEMMA FarFromSuffix ==
  ASSUME NEW w, w.pc \notin {"publish", "output", "wait"}, ~SuffixDue(w)
  PROVE  SuffixReady(w)'
  BY DEF SuffixReady, SuffixDue

LEMMA Turn ==
  ASSUME SystemInv, NEW q \in Queues, NEW to \in Stations, NEW n \in Nat, NEW o \in Outcomes
  PROVE  \E w : /\ w = Moved(work[q], to, n, o)
                /\ w.pc = to /\ w.at = n /\ w.outcome = o
                /\ w.batch = work[q].batch /\ w.last = work[q].last
                /\ n = work[q].at => Current(w) = Current(work[q])
                /\ work' = [work EXCEPT ![q] = w] => work'[q] = w
<1>1. work[q] \in Work BY DEF SystemInv, SystemTypes
<1>2. PICK w : w = Moved(work[q], to, n, o) OBVIOUS
<1>3. /\ w.pc = to /\ w.at = n /\ w.outcome = o /\ w.batch = work[q].batch /\ w.last = work[q].last
      /\ n = work[q].at => Current(w) = Current(work[q])
  BY <1>1, <1>2, MovedWork
<1>4. work' = [work EXCEPT ![q] = w] => work'[q] = w BY DEF SystemInv, SystemTypes
<1> QED BY <1>2, <1>3, <1>4

LEMMA WorkType ==
  ASSUME SystemInv, NEW q \in Queues
  PROVE  /\ work[q] \in Work /\ work[q].at \in Nat /\ work[q].outcome \in Outcomes
         /\ WorkFormed(work[q]) /\ WaitFormed(q) /\ SuffixReady(work[q])
  BY DEF SystemInv, SystemTypes, Work, Outcomes, Formed, SuffixInv

LEMMA StationNames ==
  \A x \in {"acquire", "submit", "prefix", "publish", "output", "wait", "reacquire", "consumer",
            "finish"} : x \in Stations /\ x \in Stations \ {"idle", "claim"}
  BY DEF Stations

LEMMA AcquireInv == ASSUME SystemInv, NEW q \in Queues, Acquire(q) PROVE SystemInv'
<1>1. /\ work[q].pc = "acquire" /\ UNCHANGED <<vars, list, held, removed, timeline, done, sent, fences>>
      /\ work' = [work EXCEPT ![q].pc = "submit"]
  BY DEF Acquire, Goto, recorderVars, gpuVars
<1>2. PICK w : /\ w = Moved(work[q], "submit", work[q].at, work[q].outcome)
               /\ w.pc = "submit" /\ w.at = work[q].at /\ w.outcome = work[q].outcome
               /\ w.batch = work[q].batch /\ w.last = work[q].last /\ Current(w) = Current(work[q])
               /\ work' = [work EXCEPT ![q] = w] => work'[q] = w
  BY WorkType, StationNames, Turn
<1>3. work' = [work EXCEPT ![q] = w] /\ work'[q] = w BY <1>1, <1>2, WorkType, MovedForms
<1>4. /\ RendezvousInv' /\ QueuesKept /\ RequestsKept /\ KnownTokens' = KnownTokens
      /\ UNCHANGED snap /\ \A c \in Clients : WaiterKept(c)
  BY <1>1, RendezvousStutter DEF vars, SystemInv
<1>5. WorkFormed(w) BY <1>1, <1>2, WorkType DEF WorkFormed
<1>6. WaitFormed(q)' BY <1>2, <1>3 DEF WaitFormed
<1>7. SuffixReady(w)'
  <2>1. SuffixDue(w) => SuffixDue(work[q]) BY <1>1, <1>2 DEF SuffixDue
  <2>2. SuffixDue(w) => PrefixRun(work[q]) /\ ~Requested(TokenOf(work[q]), FrameOf(work[q]))
    BY <2>1, WorkType DEF SuffixReady
  <2>3. PrefixRun(work[q]) => PrefixRun(w)' BY <1>1, <1>2 DEF PrefixRun, Current
  <2>4. Requested(TokenOf(w), FrameOf(w))' => Requested(TokenOf(work[q]), FrameOf(work[q]))
    BY <1>1, <1>2 DEF TokenOf, FrameOf, Current, Requested, Holds, Pos, vars, hipVars
  <2> QED BY <1>2, <2>2, <2>3, <2>4 DEF SuffixReady, SuffixDue
<1>8. \A t, f : ~Stuck(work[q], t, f) BY <1>1 DEF Stuck
<1>9. PastClaim(work[q]) /\ work[q].pc # "finish" BY <1>1 DEF PastClaim
<1> QED BY <1>1, <1>2, <1>3, <1>4, <1>5, <1>6, <1>7, <1>8, <1>9, WorkType, StationNames, MoveInv

\* The prefix has run when its signal has been reached: what was sent before it
\* on this allocator has been reached too.
LEMMA PrefixDoneInv == ASSUME SystemInv, NEW q \in Queues, PrefixDone(q) PROVE SystemInv'
<1>1. /\ work[q].pc = "prefix" /\ UNCHANGED <<vars, list, held, removed, timeline, done, sent, fences>>
      /\ work' = [work EXCEPT ![q].pc = "publish"] /\ work[q].last <= done
  BY DEF PrefixDone, Goto, recorderVars, gpuVars
<1>2. PICK w : /\ w = Moved(work[q], "publish", work[q].at, work[q].outcome)
               /\ w.pc = "publish" /\ w.at = work[q].at /\ w.outcome = work[q].outcome
               /\ w.batch = work[q].batch /\ w.last = work[q].last /\ Current(w) = Current(work[q])
               /\ work' = [work EXCEPT ![q] = w] => work'[q] = w
  BY WorkType, StationNames, Turn
<1>3. work' = [work EXCEPT ![q] = w] /\ work'[q] = w BY <1>1, <1>2, WorkType, MovedForms
<1>4. /\ RendezvousInv' /\ QueuesKept /\ RequestsKept /\ KnownTokens' = KnownTokens
      /\ UNCHANGED snap /\ \A c \in Clients : WaiterKept(c)
  BY <1>1, RendezvousStutter DEF vars, SystemInv
<1>5. WorkFormed(w) BY <1>1, <1>2, WorkType DEF WorkFormed
<1>6. WaitFormed(q)' BY <1>2, <1>3 DEF WaitFormed
<1>7. SuffixReady(w)'
  <2>1. ASSUME NEW y \in sent, y.list = Current(work[q]) PROVE FALSE
    <3>1. y.list \in Lists(work[q]) BY <1>1, <2>1, CurrentIsListed
    <3>2. y.queue \in Queues /\ y.value \in Nat /\ Accounted(y) /\ (y.value # 0 => done < y.value)
      BY InUse DEF SystemInv, SentInv
    <3>3. /\ held[y.list] = "yes" /\ \A z \in fences : y.list \notin z.lists
          /\ \A p \in Queues \ {q} : y.list \notin Lists(work[p])
      BY <3>1 DEF SystemInv, Holders
    <3>4. /\ y.list \in Lists(work[y.queue]) /\ y.value <= work[y.queue].last
          /\ y.value = 0 => work[y.queue].pc = "finish"
      BY <3>2, <3>3 DEF Accounted
    <3>5. y.queue = q BY <3>2, <3>3, <3>4
    <3>6. done \in Nat /\ work[q].last \in Nat BY WorkType DEF SystemInv, SystemTypes, Work
    <3> QED BY <1>1, <3>2, <3>4, <3>5, <3>6
  <2>2. PrefixRun(w)' BY <1>1, <1>2, <2>1 DEF PrefixRun, Current
  <2>3. ~SuffixDue(w) BY <1>2 DEF SuffixDue
  <2> QED BY <2>2, <2>3 DEF SuffixReady, SuffixDue
<1>8. \A t, f : ~Stuck(work[q], t, f) BY <1>1 DEF Stuck
<1>9. PastClaim(work[q]) /\ work[q].pc # "finish" BY <1>1 DEF PastClaim
<1> QED BY <1>1, <1>2, <1>3, <1>4, <1>5, <1>6, <1>7, <1>8, <1>9, WorkType, StationNames, MoveInv

\* Giving up: stuck until the device is marked.
LEMMA FailsInv ==
  ASSUME SystemInv, RendezvousInv', NEW q \in Queues, work[q].pc \in {"prefix", "publish", "wait"},
         Fails(q, "reacquire"),
         UNCHANGED <<list, held, removed, snap, timeline, done, sent, fences>>,
         QueuesKept, RequestsKept, KnownTokens' = KnownTokens,
         \A c \in Clients \ {Current(work[q])} : WaiterKept(c)
  PROVE  SystemInv'
<1>1. "nr" \in Outcomes BY DEF Outcomes
<1>2. PICK w : /\ w = Moved(work[q], "reacquire", work[q].at, "nr")
               /\ w.pc = "reacquire" /\ w.at = work[q].at /\ w.outcome = "nr"
               /\ w.batch = work[q].batch /\ w.last = work[q].last
               /\ work' = [work EXCEPT ![q] = w] => work'[q] = w
  BY <1>1, WorkType, StationNames, Turn
<1>3. work' = [work EXCEPT ![q] = w] /\ work'[q] = w
  <2>1. work' = [work EXCEPT ![q] = [work[q] EXCEPT !.pc = "reacquire", !.outcome = "nr"]]
    BY DEF Fails
  <2>2. [work[q] EXCEPT !.pc = "reacquire", !.outcome = "nr"] = w
    BY <1>2, WorkType DEF Moved, Work
  <2> QED BY <1>2, <2>1, <2>2
<1>4. WorkFormed(w) BY <1>2, WorkType DEF WorkFormed
<1>5. WaitFormed(q)' BY <1>2, <1>3 DEF WaitFormed
<1>6. SuffixReady(w)' BY <1>2, FarFromSuffix DEF SuffixDue
<1>7. \A t, f : Stuck(work[q], t, f)' /\ work'[q].pc # "finish" BY <1>2, <1>3 DEF Stuck
<1>8. PastClaim(work[q]) /\ work[q].pc # "finish" BY DEF PastClaim
<1> HIDE DEF QueuesKept, RequestsKept
<1> QED BY <1>1, <1>2, <1>3, <1>4, <1>5, <1>6, <1>7, <1>8, WorkType, StationNames, MoveInv

LEMMA PrefixFailsInv == ASSUME SystemInv, NEW q \in Queues, PrefixFails(q) PROVE SystemInv'
<1>1. /\ work[q].pc = "prefix" /\ UNCHANGED <<list, held, removed, timeline, done, sent, fences>>
      /\ ClientFail(TokenOf(work[q]), FrameOf(work[q])) /\ Fails(q, "reacquire")
  BY DEF PrefixFails, recorderVars, gpuVars
<1>2. RendezvousInv' /\ QueuesKept /\ RequestsKept /\ KnownTokens' = KnownTokens
  BY <1>1, CutKnown, CallKeeps DEF SystemInv
<1>3. UNCHANGED snap /\ waiter' = Broadcasted BY <1>1 DEF ClientFail, FailFrame
<1>4. \A c \in Clients : WaiterKept(c) BY <1>3, BroadcastWaiter DEF SystemInv, RendezvousInv, WakeInv
<1> QED BY <1>1, <1>2, <1>3, <1>4, FailsInv

LEMMA OutputExpiresInv == ASSUME SystemInv, NEW q \in Queues, OutputExpires(q) PROVE SystemInv'
<1> DEFINE c == Current(work[q])
<1>1. /\ work[q].pc = "wait" /\ UNCHANGED <<list, held, removed, timeline, done, sent, fences>>
      /\ ClientExpire(c) /\ Fails(q, "reacquire")
  BY DEF OutputExpires, recorderVars, gpuVars
<1>2. c \in Clients BY <1>1, CutKnown
<1>3. RendezvousInv' /\ QueuesKept /\ RequestsKept /\ KnownTokens' = KnownTokens
  BY <1>1, <1>2, CallKeeps DEF SystemInv
<1>4. UNCHANGED snap /\ waiter' = [Broadcasted EXCEPT ![c] = NotWaiting]
  BY <1>1 DEF ClientExpire, Expire
<1>5. ASSUME NEW d \in Clients \ {c} PROVE WaiterKept(d)
  <2>1. waiter'[d] = Broadcasted[d] BY <1>4 DEF Broadcasted
  <2> QED BY <2>1 DEF SystemInv, RendezvousInv, WakeInv, TypeInv, TypeOK, Broadcasted, Waiting,
                      WaiterKept, Threads
<1> QED BY <1>1, <1>3, <1>4, <1>5, FailsInv

LEMMA EnterWaitInv == ASSUME SystemInv, NEW q \in Queues, EnterWait(q) PROVE SystemInv'
<1> DEFINE c == Current(work[q])
<1>1. /\ work[q].pc = "output" /\ UNCHANGED <<list, held, removed, timeline, done, sent, fences>>
      /\ work' = [work EXCEPT ![q].pc = "wait"]
      /\ WaitOutput(c, TokenOf(work[q]), FrameOf(work[q]))
  BY DEF EnterWait, Goto, recorderVars, gpuVars
<1>2. c \in Clients /\ c \in Threads BY <1>1, CutKnown DEF Threads
<1>3. PICK w : /\ w = Moved(work[q], "wait", work[q].at, work[q].outcome)
               /\ w.pc = "wait" /\ w.at = work[q].at /\ w.outcome = work[q].outcome
               /\ w.batch = work[q].batch /\ w.last = work[q].last /\ Current(w) = Current(work[q])
               /\ work' = [work EXCEPT ![q] = w] => work'[q] = w
  BY WorkType, StationNames, Turn
<1>4. work' = [work EXCEPT ![q] = w] /\ work'[q] = w BY <1>1, <1>3, WorkType, MovedForms
<1>5. RendezvousInv' /\ QueuesKept /\ RequestsKept /\ KnownTokens' = KnownTokens
  BY <1>1, <1>2, CutKnown, CallKeeps DEF SystemInv
<1>6. /\ UNCHANGED snap
      /\ waiter' = [waiter EXCEPT ![c] = [st |-> "enter", token |-> TokenOf(work[q]),
                                          frame |-> FrameOf(work[q]), output |-> TRUE]]
  BY <1>1 DEF WaitOutput, Enter
<1>7. \A d \in Clients \ {c} : WaiterKept(d) BY <1>6, SameWaiter
<1>8. WorkFormed(w) BY <1>1, <1>3, WorkType DEF WorkFormed
<1>9. WaitFormed(q)'
  <2>1. /\ waiter'[c].st = "enter" /\ waiter'[c].token = TokenOf(work[q])
        /\ waiter'[c].frame = FrameOf(work[q]) /\ waiter'[c].output
    BY <1>2, <1>6 DEF SystemInv, RendezvousInv, WakeInv, TypeInv, TypeOK
  <2>2. Current(work[q])' = c BY <1>3, <1>4 DEF Current
  <2>3. TokenOf(work[q])' = TokenOf(work[q]) /\ FrameOf(work[q])' = FrameOf(work[q])
    BY <1>1, <2>2 DEF TokenOf, FrameOf
  <2> QED BY <2>1, <2>2, <2>3 DEF WaitFormed
<1>10. SuffixReady(w)'
  <2>1. PrefixRun(work[q]) BY <1>1, WorkType DEF SuffixReady
  <2>2. PrefixRun(w)' BY <1>1, <1>3, <2>1 DEF PrefixRun, Current
  <2> QED BY <1>3, <2>2 DEF SuffixReady, SuffixDue
<1>11. ASSUME NEW t, NEW f, Stuck(work[q], t, f)
       PROVE  Stuck(work[q], t, f)' /\ work'[q].pc # "finish"
  BY <1>1, <1>3, <1>4, <1>11 DEF Stuck, TokenOf, FrameOf, Current
<1>12. PastClaim(work[q]) /\ work[q].pc # "finish" BY <1>1 DEF PastClaim
<1> HIDE DEF QueuesKept, RequestsKept
<1> QED
  BY <1>1, <1>3, <1>4, <1>5, <1>6, <1>7, <1>8, <1>9, <1>10, <1>11, <1>12, WorkType, StationNames,
     MoveInv

\* What an output proves: nothing of its frame runs any more.
LEMMA RendezvousDrained == RendezvousInv => OutputMeansDrained
<1> USE DEF RendezvousInv, WakeInv
<1> SUFFICES ASSUME RendezvousInv, NEW k \in Slots, NEW i \in Ring
             PROVE  LET s == frames[k][i]
                    IN  /\ s.consumed => s.output
                        /\ s.output /\ ~s.error =>
                             ~\E g \in gpu : g.token = reg[k].token /\ g.frame = s.frame
  BY DEF OutputMeansDrained
<1> DEFINE s == frames[k][i]
<1>1. Sound(s, i) /\ Shaped(s) BY DEF StatesSound, StatesShaped
<1>2. ASSUME s.output, ~s.error, NEW g \in gpu, g.token = reg[k].token, g.frame = s.frame
      PROVE  FALSE
  <2>1. g.frame \in Frames /\ g.frame # None /\ g.token # 0 /\ (Running(g) \/ Quiet(g.token, g.frame))
    BY NoneAssumption, KnownTokenType DEF KernelsInv
  <2>2. Pos(g.frame) = i BY <1>1, <1>2, <2>1 DEF Sound
  <2>3. CASE Running(g)
    <3>1. g.by \in Hips BY DEF TypeInv, TypeOK, Kernel
    <3>2. LET j == job[g.by]
          IN  /\ j.slot \in Slots /\ reg[j.slot].token = g.token
              /\ ~frames[j.slot][Pos(g.frame)].output
      BY <2>3, <3>1 DEF Running, JobOwnsItsState
    <3>3. job[g.by].slot = k BY <1>2, <2>1, <3>2 DEF TokensUnique
    <3> QED BY <1>2, <2>2, <3>2, <3>3
  <2>4. CASE Quiet(g.token, g.frame)
    <3>1. s.error \/ ~s.input \/ s.owned BY <1>2, <2>2, <2>4 DEF Quiet, Holds
    <3> QED BY <1>1, <1>2, <3>1 DEF Sound, Shaped
  <2> QED BY <2>1, <2>3, <2>4
<1> QED BY <1>1, <1>2 DEF Sound

\* A wait for an output that returns ready leaves nothing requested.
LEMMA AnsweredDrained ==
  ASSUME RendezvousInv, NEW u, u.token \in KnownTokens, u.output, Ready(u)
  PROVE  ~Requested(u.token, u.frame)
<1> USE DEF RendezvousInv, WakeInv
<1>1. PICK k \in Found(u.token) : /\ ~Obtained(k, u.frame).error
                                  /\ Obtained(k, u.frame).output
  <2>1. \E k \in Found(u.token) : ~Obtained(k, u.frame).error BY DEF Ready, Live
  <2>2. \E k \in Found(u.token) : Obtained(k, u.frame).output BY DEF Ready
  <2>3. \A j, k \in Found(u.token) : j = k BY KnownTokenType DEF TokensUnique, Found
  <2> QED BY <2>1, <2>2, <2>3
<1>2. Holds(k, u.frame) /\ frames[k][Pos(u.frame)].output /\ ~frames[k][Pos(u.frame)].error
  BY <1>1 DEF Obtained, FreshFrame
<1>3. k \in Slots /\ reg[k].token = u.token /\ u.token # 0
      /\ \A m \in Slots : reg[m].token = u.token => m = k
  BY <1>1, KnownTokenType DEF Found, TokensUnique
<1>4. ASSUME NEW g \in gpu, g.token = u.token, g.frame = u.frame PROVE FALSE
  <2>1. Pos(u.frame) \in Ring BY <1>4, PosInRing DEF KernelsInv
  <2> QED BY <1>2, <1>3, <1>4, <2>1, RendezvousDrained DEF OutputMeansDrained, Holds
<1> QED BY <1>2, <1>3, <1>4 DEF Requested

LEMMA CheckOutputInv == ASSUME SystemInv, NEW q \in Queues, CheckOutput(q) PROVE SystemInv'
<1> DEFINE c == Current(work[q])
           u == waiter[c]
<1>1. /\ work[q].pc = "wait" /\ UNCHANGED <<list, held, removed, timeline, done, sent, fences>>
      /\ ClientCheck(c)
      /\ \/ Pending(u) /\ UNCHANGED work
         \/ Answered(u) /\ work' = [work EXCEPT ![q].pc = "reacquire"]
         \/ Fails(q, "reacquire")
  BY DEF CheckOutput, Goto, recorderVars, gpuVars
<1>2. c \in Clients /\ c \in Threads BY <1>1, CutKnown DEF Threads
<1>3. u.st # "no" /\ u.token = TokenOf(work[q]) /\ u.frame = FrameOf(work[q]) /\ u.output
  BY <1>1, WorkType DEF WaitFormed
<1>4. RendezvousInv' /\ QueuesKept /\ RequestsKept /\ KnownTokens' = KnownTokens
  BY <1>1, <1>2, CallKeeps DEF SystemInv
<1>5. /\ UNCHANGED snap /\ Check(c)
      /\ waiter' = [waiter EXCEPT ![c] = IF Pending(u) THEN [u EXCEPT !.st = "sleep"] ELSE NotWaiting]
  BY <1>1 DEF ClientCheck, Check
<1>6. \A d \in Clients \ {c} : WaiterKept(d) BY <1>5, SameWaiter
<1>7. PastClaim(work[q]) /\ work[q].pc # "finish" BY <1>1 DEF PastClaim
<1>8. CASE Fails(q, "reacquire") BY <1>1, <1>4, <1>5, <1>6, <1>8, FailsInv
<1>9. CASE Pending(u) /\ UNCHANGED work
  <2>1. waiter'[c] = [u EXCEPT !.st = "sleep"] /\ u \in Waiting
    BY <1>2, <1>5, <1>9 DEF SystemInv, RendezvousInv, WakeInv, TypeInv, TypeOK
  <2>2. /\ waiter'[c].st = "sleep" /\ waiter'[c].token = u.token /\ waiter'[c].frame = u.frame
        /\ waiter'[c].output = u.output
    BY <2>1 DEF Waiting
  <2>3. WaiterKept(c) BY <2>2 DEF WaiterKept
  <2>4. SystemTypes' BY <1>1, <1>9 DEF SystemInv, SystemTypes
  <2>5. \A l \in Clients : ListFormed(l)' BY <1>1, <1>4, <1>5, OtherListsFormed DEF SystemInv
  <2> QED BY <1>1, <1>4, <1>5, <1>6, <1>9, <2>3, <2>4, <2>5, WorkersRest DEF HeldKeep
<1>10. CASE Answered(u) /\ work' = [work EXCEPT ![q].pc = "reacquire"]
  <2>1. PICK w : /\ w = Moved(work[q], "reacquire", work[q].at, work[q].outcome)
                 /\ w.pc = "reacquire" /\ w.at = work[q].at /\ w.outcome = work[q].outcome
                 /\ w.batch = work[q].batch /\ w.last = work[q].last /\ Current(w) = c
                 /\ work' = [work EXCEPT ![q] = w] => work'[q] = w
    BY WorkType, StationNames, Turn
  <2>2. work' = [work EXCEPT ![q] = w] /\ work'[q] = w BY <1>10, <2>1, WorkType, MovedForms
  <2>3. PICK t, f : t = TokenOf(work[q]) /\ f = FrameOf(work[q]) OBVIOUS
  <2>4. ~Requested(t, f) /\ f \in Frames
    BY <1>1, <1>3, <1>10, <2>3, CutKnown, AnsweredDrained DEF Answered, SystemInv
  <2>5. ~Requested(t, f)' BY <1>4, <2>4 DEF RequestsKept
  <2>6. TokenOf(w)' = t /\ FrameOf(w)' = f
    BY <1>1, <2>1, <2>3 DEF TokenOf, FrameOf, Current
  <2>7. SuffixReady(w)'
    <3>1. PrefixRun(work[q]) BY <1>1, WorkType DEF SuffixReady
    <3>2. PrefixRun(w)' BY <1>1, <2>1, <3>1 DEF PrefixRun, Current
    <3>3. ~Requested(TokenOf(w), FrameOf(w))' BY <2>5, <2>6 DEF Requested
    <3> QED BY <3>2, <3>3 DEF SuffixReady
  <2>8. WorkFormed(w) BY <1>1, <2>1, WorkType DEF WorkFormed
  <2>9. WaitFormed(q)' BY <2>1, <2>2 DEF WaitFormed
  <2>10. ASSUME NEW x, NEW e, Requested(x, e)' PROVE ~Stuck(work[q], x, e)
    <3>1. ~(x = t /\ e = f) BY <2>5, <2>10
    <3> QED BY <1>1, <2>3, <3>1 DEF Stuck
  <2> HIDE DEF c, u, QueuesKept, RequestsKept
  <2> QED
    BY <1>1, <1>4, <1>5, <1>6, <1>7, <2>1, <2>2, <2>7, <2>8, <2>9, <2>10, WorkType, StationNames,
       MoveInv DEF c
<1> QED BY <1>1, <1>8, <1>9, <1>10

\* To the next submit of the execute, or to its end.
LEMMA ContinueInv ==
  ASSUME SystemInv, RendezvousInv', NEW q \in Queues, work[q].pc \in {"reacquire", "consumer"},
         work[q].outcome = "ok", Continue(q),
         UNCHANGED <<list, held, removed, snap, timeline, done, sent, fences>>,
         QueuesKept, RequestsKept, KnownTokens' = KnownTokens, \A c \in Clients : WaiterKept(c)
  PROVE  SystemInv'
<1> DEFINE at == work[q].at
<1>1. /\ WorkFormed(work[q]) /\ at \in 1 .. 2 * Len(work[q].batch) /\ at \in 1 .. 4
      /\ (work[q].pc = "reacquire" => at % 2 = 1) /\ (work[q].pc = "consumer" => at % 2 = 0)
      /\ Len(work[q].batch) \in Nat /\ (at % 2 = 1 => at # 2 * Len(work[q].batch))
      /\ work[q].batch \in Batches
  BY WorkType, CurrentIn, BatchType DEF WorkFormed
<1>2. PastClaim(work[q]) /\ work[q].pc # "finish" BY DEF PastClaim
<1>3. \A t, f : ~Stuck(work[q], t, f) BY DEF Stuck
<1>4. "ok" \in Outcomes BY DEF Outcomes
<1>5. CASE at = 2 * Len(work[q].batch) /\ work' = [work EXCEPT ![q].pc = "finish"]
  <2>1. PICK w : /\ w = Moved(work[q], "finish", at, work[q].outcome)
                 /\ w.pc = "finish" /\ w.at = at /\ w.outcome = work[q].outcome
                 /\ w.batch = work[q].batch /\ w.last = work[q].last
                 /\ work' = [work EXCEPT ![q] = w] => work'[q] = w
    BY WorkType, StationNames, Turn
  <2>2. work' = [work EXCEPT ![q] = w] /\ work'[q] = w BY <1>5, <2>1, WorkType, MovedForms
  <2>3. WorkFormed(w) BY <1>1, <2>1 DEF WorkFormed
  <2>4. WaitFormed(q)' BY <2>1, <2>2 DEF WaitFormed
  <2>5. SuffixReady(w)' BY <2>1, FarFromSuffix DEF SuffixDue
  <2> HIDE DEF QueuesKept, RequestsKept
  <2> QED BY <1>2, <1>3, <1>4, <2>1, <2>2, <2>3, <2>4, <2>5, WorkType, StationNames, MoveInv
<1>6. ASSUME at # 2 * Len(work[q].batch), NEW to \in {"submit", "acquire"},
             work' = [work EXCEPT ![q].pc = to, ![q].at = at + 1]
      PROVE  SystemInv'
  <2>1. at + 1 \in Nat /\ at + 1 \in 1 .. 2 * Len(work[q].batch) BY <1>1, <1>6
  <2>2. PICK w : /\ w = Moved(work[q], to, at + 1, work[q].outcome)
                 /\ w.pc = to /\ w.at = at + 1 /\ w.outcome = work[q].outcome
                 /\ w.batch = work[q].batch /\ w.last = work[q].last
                 /\ work' = [work EXCEPT ![q] = w] => work'[q] = w
    BY <2>1, WorkType, StationNames, Turn
  <2>3. work' = [work EXCEPT ![q] = w] /\ work'[q] = w
    <3>1. work' = [work EXCEPT ![q] = [work[q] EXCEPT !.pc = to, !.at = at + 1]] BY <1>6
    <3>2. [work[q] EXCEPT !.pc = to, !.at = at + 1] = w BY <2>2, WorkType DEF Moved, Work
    <3> QED BY <2>2, <3>1, <3>2
  <2>4. WorkFormed(w) BY <1>1, <2>1, <2>2 DEF WorkFormed
  <2>5. WaitFormed(q)' BY <2>2, <2>3 DEF WaitFormed
  <2>6. SuffixReady(w)'
    <3>1. CASE at % 2 # 1
      <4>1. (at + 1) % 2 = 1 BY <1>1, <3>1, SuffixPlace
      <4>2. ~SuffixDue(w) BY <2>2, <4>1 DEF SuffixDue
      <4> QED BY <2>2, <4>2, FarFromSuffix
    <3>2. CASE at % 2 = 1
      <4>1. SuffixDue(work[q]) BY <1>1, <3>2 DEF SuffixDue
      <4>2. PrefixRun(work[q]) /\ ~Requested(TokenOf(work[q]), FrameOf(work[q]))
        BY <4>1, WorkType DEF SuffixReady
      <4>3. (at + 1 + 1) \div 2 = (at + 1) \div 2 BY <1>1, <3>2, SuffixPlace
      <4>4. Current(w) = Current(work[q]) BY <2>2, <4>3 DEF Current
      <4>5. PICK t, f : t = TokenOf(work[q]) /\ f = FrameOf(work[q]) OBVIOUS
      <4>6. f \in Frames BY <1>2, <4>5, CutKnown DEF PastClaim
      <4>7. ~Requested(t, f)' BY <4>2, <4>5, <4>6 DEF RequestsKept
      <4>8. TokenOf(w)' = t /\ FrameOf(w)' = f
        BY <4>4, <4>5 DEF TokenOf, FrameOf, Current
      <4>9. ~Requested(TokenOf(w), FrameOf(w))' BY <4>7, <4>8 DEF Requested
      <4>10. PrefixRun(w)' BY <4>2, <4>4 DEF PrefixRun, Current
      <4> QED BY <4>9, <4>10 DEF SuffixReady
    <3> QED BY <3>1, <3>2
  <2> HIDE DEF QueuesKept, RequestsKept
  <2> QED
    BY <1>2, <1>3, <1>4, <2>1, <2>2, <2>3, <2>4, <2>5, <2>6, WorkType, StationNames, MoveInv
<1> QED BY <1>5, <1>6 DEF Continue, Goto

\* Giving the execute up: the device is marked, nobody has to answer any more.
LEMMA GivesUpInv ==
  ASSUME SystemInv, RendezvousInv', NEW q \in Queues, PastClaim(work[q]), work[q].pc # "finish",
         work' = [work EXCEPT ![q] = Moved(work[q], "finish", work[q].at, "nr")], removed' = TRUE,
         UNCHANGED <<list, held, snap, timeline, done, sent, fences>>,
         QueuesKept, RequestsKept, KnownTokens' = KnownTokens, \A c \in Clients : WaiterKept(c)
  PROVE  SystemInv'
<1>1. "nr" \in Outcomes BY DEF Outcomes
<1>2. PICK w : w = Moved(work[q], "finish", work[q].at, "nr") OBVIOUS
<1>3. /\ w.pc = "finish" /\ w.at = work[q].at /\ w.outcome = "nr"
      /\ w.batch = work[q].batch /\ w.last = work[q].last
      /\ work' = [work EXCEPT ![q] = w] /\ work'[q] = w
  <2>1. "finish" \in Stations /\ work[q].at \in Nat /\ work[q] \in Work BY WorkType, StationNames
  <2>2. /\ w.pc = "finish" /\ w.at = work[q].at /\ w.outcome = "nr"
        /\ w.batch = work[q].batch /\ w.last = work[q].last
    BY <1>1, <1>2, <2>1, MovedWork
  <2>3. work' = [work EXCEPT ![q] = w] BY <1>2
  <2>4. work'[q] = w BY <2>3 DEF SystemInv, SystemTypes
  <2> QED BY <2>2, <2>3, <2>4
<1>4. WorkFormed(w) BY <1>3, WorkType DEF WorkFormed, PastClaim
<1>5. WaitFormed(q)' BY <1>3 DEF WaitFormed
<1>6. SuffixReady(w)' BY <1>3, FarFromSuffix DEF SuffixDue
<1>7. \A t, f : Stuck(work[q], t, f)' BY <1>3 DEF Stuck
<1> HIDE DEF QueuesKept, RequestsKept
<1> QED BY <1>1, <1>2, <1>3, <1>4, <1>5, <1>6, <1>7, WorkType, StationNames, MoveInv

LEMMA FailsMoved ==
  ASSUME SystemInv, NEW q \in Queues, NEW to
  PROVE  /\ Fails(q, to) => work' = [work EXCEPT ![q] = Moved(work[q], to, work[q].at, "nr")]
         /\ work[q].outcome = "nr" /\ Goto(q, to) =>
              work' = [work EXCEPT ![q] = Moved(work[q], to, work[q].at, "nr")]
<1>1. /\ [work[q] EXCEPT !.pc = to, !.outcome = "nr"] = Moved(work[q], to, work[q].at, "nr")
      /\ work[q].outcome = "nr" => [work[q] EXCEPT !.pc = to] = Moved(work[q], to, work[q].at, "nr")
  BY WorkType DEF Moved, Work
<1>2. Fails(q, to) => work' = [work EXCEPT ![q] = [work[q] EXCEPT !.pc = to, !.outcome = "nr"]]
  BY DEF Fails
<1>3. Goto(q, to) => work' = [work EXCEPT ![q] = [work[q] EXCEPT !.pc = to]] BY DEF Goto
<1> QED BY <1>1, <1>2, <1>3

LEMMA ReacquireInv == ASSUME SystemInv, NEW q \in Queues, Reacquire(q) PROVE SystemInv'
<1>1. /\ work[q].pc = "reacquire" /\ UNCHANGED <<vars, list, held, timeline, done, sent, fences>>
      /\ \/ work[q].outcome = "ok" /\ Continue(q) /\ UNCHANGED removed
         \/ work[q].outcome = "nr" /\ Goto(q, "finish") /\ removed' = TRUE
         \/ Fails(q, "finish") /\ removed' = TRUE
  BY DEF Reacquire, gpuVars
<1>2. /\ RendezvousInv' /\ QueuesKept /\ RequestsKept /\ KnownTokens' = KnownTokens
      /\ UNCHANGED snap /\ \A c \in Clients : WaiterKept(c)
  BY <1>1, RendezvousStutter DEF vars, SystemInv
<1>3. PastClaim(work[q]) /\ work[q].pc # "finish" BY <1>1 DEF PastClaim
<1> HIDE DEF QueuesKept, RequestsKept
<1> QED BY <1>1, <1>2, <1>3, ContinueInv, GivesUpInv, FailsMoved

LEMMA ConsumerInv == ASSUME SystemInv, NEW q \in Queues, Consumer(q) PROVE SystemInv'
<1>1. /\ work[q].pc = "consumer" /\ UNCHANGED <<list, held, timeline, done, sent, fences>>
      /\ \/ /\ ConsumerSubmitted(TokenOf(work[q]), FrameOf(work[q]))
            /\ Continue(q) /\ UNCHANGED removed
         \/ Fails(q, "finish") /\ removed' = TRUE /\ UNCHANGED vars
  BY DEF Consumer, gpuVars
<1>2. PastClaim(work[q]) /\ work[q].pc # "finish" /\ work[q].outcome = "ok"
  BY <1>1, WorkType DEF PastClaim, WorkFormed
<1>3. CASE /\ ConsumerSubmitted(TokenOf(work[q]), FrameOf(work[q])) /\ Continue(q)
           /\ UNCHANGED removed
  <2>1. RendezvousInv' /\ QueuesKept /\ RequestsKept /\ KnownTokens' = KnownTokens
    BY <1>1, <1>3, CutKnown, CallKeeps DEF SystemInv
  <2>2. UNCHANGED <<snap, waiter>> BY <1>3 DEF ConsumerSubmitted
  <2>3. \A c \in Clients : WaiterKept(c) BY <2>2, SameWaiter
  <2> HIDE DEF QueuesKept, RequestsKept
  <2> QED BY <1>1, <1>2, <1>3, <2>1, <2>2, <2>3, ContinueInv
<1>4. CASE Fails(q, "finish") /\ removed' = TRUE /\ UNCHANGED vars
  <2>1. /\ RendezvousInv' /\ QueuesKept /\ RequestsKept /\ KnownTokens' = KnownTokens
        /\ UNCHANGED snap /\ \A c \in Clients : WaiterKept(c)
    BY <1>4, RendezvousStutter DEF vars, SystemInv
  <2> HIDE DEF QueuesKept, RequestsKept
  <2> QED BY <1>1, <1>2, <1>4, <2>1, GivesUpInv, FailsMoved
<1> QED BY <1>1, <1>3, <1>4

\* The publication is the one step that asks the GPU for something new: nobody
\* else uses the registration, and the worker stays with the frame.
LEMMA PublishInputInv == ASSUME SystemInv, NEW q \in Queues, PublishInput(q) PROVE SystemInv'
<1> DEFINE c == Current(work[q])
<1>1. PICK t, f : t = TokenOf(work[q]) /\ f = FrameOf(work[q]) OBVIOUS
<1> DEFINE Input(s) == s.frame = f /\ s.input
           published == \E k \in Found(t) : ~Input(frames[k][Pos(f)]) /\ Input(frames'[k][Pos(f)])
<1>2. /\ work[q].pc = "publish" /\ UNCHANGED <<list, held, removed, timeline, done, sent, fences>>
      /\ \/ /\ Publish(c, t, f)
            /\ IF published THEN Goto(q, "output") ELSE Fails(q, "reacquire")
         \/ Fails(q, "reacquire") /\ UNCHANGED vars
  BY <1>1 DEF PublishInput, recorderVars, gpuVars
<1>3. c \in Clients /\ t \in KnownTokens /\ t \in Nat \ {0} /\ f \in Frames /\ Uses(q, t)
  BY <1>1, <1>2, CutKnown DEF PastClaim, KnownTokens
<1>4. PastClaim(work[q]) /\ work[q].pc # "finish" BY <1>2 DEF PastClaim
<1>5. \A u, e : ~Stuck(work[q], u, e) BY <1>2 DEF Stuck
<1>6. CASE Fails(q, "reacquire") /\ UNCHANGED vars
  <2>1. /\ RendezvousInv' /\ QueuesKept /\ RequestsKept /\ KnownTokens' = KnownTokens
        /\ UNCHANGED snap /\ \A d \in Clients : WaiterKept(d)
    BY <1>6, RendezvousStutter DEF vars, SystemInv
  <2> HIDE DEF QueuesKept, RequestsKept
  <2> QED BY <1>2, <1>6, <2>1, FailsInv
<1>7. CASE Publish(c, t, f) /\ IF published THEN Goto(q, "output") ELSE Fails(q, "reacquire")
  <2>1. Found(t) # {} BY <1>7 DEF Publish
  <2>2. ~Requested(t, f) BY <1>3, <1>5, <2>1 DEF SystemInv, RequestsInv, Doomed
  <2>3. /\ KernelsInv' /\ UNCHANGED <<reg, nextToken>>
        /\ \A u, e : e \in Frames /\ Requested(u, e)' =>
             Requested(u, e) \/ (u = t /\ e = f /\ published)
    BY <1>3, <1>7, <2>2, PublishKernels DEF SystemInv
  <2>4. Next BY <1>3, <1>7 DEF Next, ClientStep
  <2>5. RendezvousInv' BY <2>3, <2>4, RegistryStep DEF SystemInv, RendezvousInv
  <2>6. QueuesKept /\ KnownTokens' = KnownTokens BY <2>3 DEF QueuesKept, KnownTokens
  <2>7. UNCHANGED snap /\ (UNCHANGED waiter \/ waiter' = Broadcasted) BY <1>7 DEF Publish
  <2>8. \A d \in Clients : WaiterKept(d)
    BY <2>7, BroadcastWaiter, SameWaiter DEF SystemInv, RendezvousInv, WakeInv
  <2>9. CASE ~published
    <3>1. RequestsKept BY <2>3, <2>9 DEF RequestsKept
    <3>2. Fails(q, "reacquire") BY <1>7, <2>9
    <3> HIDE DEF QueuesKept, RequestsKept
    <3> QED BY <1>2, <2>5, <2>6, <2>7, <2>8, <3>1, <3>2, FailsInv
  <2>10. CASE published
    <3>1. PICK w : /\ w = Moved(work[q], "output", work[q].at, work[q].outcome)
                   /\ w.pc = "output" /\ w.at = work[q].at /\ w.outcome = work[q].outcome
                   /\ w.batch = work[q].batch /\ w.last = work[q].last
                   /\ Current(w) = Current(work[q])
                   /\ work' = [work EXCEPT ![q] = w] => work'[q] = w
      BY WorkType, StationNames, Turn
    <3>2. Goto(q, "output") BY <1>7, <2>10
    <3>3. work' = [work EXCEPT ![q] = w] /\ work'[q] = w
      BY <3>1, <3>2, WorkType, MovedForms DEF Goto
    <3>4. w \in Work BY <3>1, WorkType, StationNames, MovedWork
    <3>5. PastClaim(w) /\ PastClaim(work[q])' BY <3>1, <3>3 DEF PastClaim
    <3>6. WorkFormed(w)' BY <1>2, <3>1, WorkType DEF WorkFormed
    <3>7. WaitFormed(q)' BY <3>1, <3>3 DEF WaitFormed
    <3>8. SuffixReady(w)'
      <4>1. PrefixRun(work[q]) BY <1>2, WorkType DEF SuffixReady
      <4>2. PrefixRun(w)' BY <1>2, <3>1, <4>1 DEF PrefixRun, Current
      <4> QED BY <3>1, <4>2 DEF SuffixReady, SuffixDue
    <3>9. \A p \in Queues \ {q} : ~Uses(p, t) BY <1>3, <2>1, OneUser
    <3>10. \A p \in Queues : Uses(p, t)' <=> Uses(p, t)
      <4>1. \A p \in Queues : (PastClaim(work[p])' <=> PastClaim(work[p]))
                              /\ Lists(work[p])' = Lists(work[p])
        BY <1>4, <3>1, <3>3, <3>5 DEF PastClaim, Lists
      <4> QED BY <1>2, <4>1 DEF Uses
    <3>11. Stuck(work[q], t, f)' /\ work'[q].pc # "finish"
      <4>1. TokenOf(work[q])' = t /\ FrameOf(work[q])' = f
        BY <1>1, <1>2, <3>1, <3>3 DEF TokenOf, FrameOf, Current
      <4> QED BY <3>1, <3>3, <4>1 DEF Stuck
    <3>12. Doomed(t, f)' BY <1>3, <3>9, <3>10, <3>11 DEF Doomed
    <3>13. \A u, e : e \in Frames /\ Requested(u, e)' =>
             (Requested(u, e) /\ StuckKept(q, u, e)) \/ Doomed(u, e)'
      <4>1. \A u, e : StuckKept(q, u, e) BY <1>2, <1>4, <1>5, <3>1, <3>3, <3>5, MoveStuck
      <4>2. SUFFICES ASSUME NEW u, NEW e, e \in Frames, Requested(u, e)', ~Requested(u, e)
                     PROVE  Doomed(u, e)'
        BY <4>1
      <4>3. u = t /\ e = f BY <2>3, <4>2
      <4> QED BY <3>12, <4>3
    <3>14. \A p \in Queues \ {q} : \A u, e : Uses(p, u) /\ e \in Frames /\ Requested(u, e)' =>
             Requested(u, e)
      BY <2>3, <3>9
    <3>15. removed' \in BOOLEAN /\ (removed => removed') BY <1>2 DEF SystemInv, SystemTypes
    <3> HIDE DEF QueuesKept, RequestsKept, published, c
    <3> QED
      BY <1>2, <1>4, <2>5, <2>6, <2>7, <2>8, <3>1, <3>3, <3>4, <3>5, <3>6, <3>7, <3>8, <3>13, <3>14,
         <3>15, WorkerMoves
  <2> QED BY <2>9, <2>10
<1> QED BY <1>2, <1>6, <1>7

-----------------------------------------------------------------------------
\* What is sent to the GPU, and who gives the allocators back.

\* A submit that succeeds is covered by its signal, one that fails half-way by
\* the allocators that will be given up.
LEMMA SubmitMoves ==
  ASSUME SystemInv, NEW q \in Queues, Submit(q)
  PROVE  \E m \in Work, v \in Nat :
           /\ work' = [work EXCEPT ![q] = m] /\ m.batch = work[q].batch /\ m.at = work[q].at
           /\ m.last \in {work[q].last, timeline + 1} /\ v <= m.last /\ m.last <= timeline'
           /\ timeline' \in {timeline, timeline + 1}
           /\ v # 0 => v = timeline + 1 /\ timeline' = timeline + 1
           /\ v = 0 => m.pc = "finish" /\ m.outcome = "submit"
           /\ sent \subseteq sent'
           /\ \A y \in sent' \ sent :
                y = [queue |-> q, list |-> Current(work[q]), kind |-> KindAt(work[q]), value |-> v,
                     buffers |-> snap[Current(work[q])]]
           /\ \/ m.pc = "prefix" /\ m.at % 2 = 1
              \/ m.pc = "consumer" /\ m.at % 2 = 0
              \/ m.pc = "finish"
           /\ m.outcome # "ok" => m.pc = "finish"
<1> DEFINE w == work[q]
           buffer(v) == [queue |-> q, list |-> Current(w), kind |-> KindAt(w), value |-> v,
                         buffers |-> snap[Current(w)]]
<1>1. /\ w \in Work /\ w.pc = "submit" /\ w.outcome = "ok" /\ w.last <= timeline
      /\ timeline \in Nat /\ w.last \in Nat
  BY WorkType DEF Submit, WorkFormed, SystemInv, SystemTypes, Work
<1>2. w.at \in 1 .. 4 BY <1>1, WorkType, CurrentIn
<1>3. CASE /\ timeline' = timeline + 1
           /\ sent' = sent \cup {buffer(timeline + 1)}
           /\ work' = [work EXCEPT ![q].last = timeline + 1,
                                   ![q].pc = IF KindAt(w) = "prefix" THEN "prefix" ELSE "consumer"]
  <2>1. PICK to : to = IF KindAt(w) = "prefix" THEN "prefix" ELSE "consumer" OBVIOUS
  <2>2. PICK m : m = [w EXCEPT !.last = timeline + 1, !.pc = to] OBVIOUS
  <2>3. /\ m \in Work /\ m.batch = w.batch /\ m.at = w.at /\ m.last = timeline + 1
        /\ m.outcome = "ok" /\ m.pc = to
    <3>1. to \in {"prefix", "consumer"} /\ timeline + 1 \in Nat BY <1>1, <2>1
    <3> QED BY <1>1, <2>2, <3>1 DEF Work
  <2>4. /\ work' = [work EXCEPT ![q] = m]
        /\ \/ m.pc = "prefix" /\ m.at % 2 = 1
           \/ m.pc = "consumer" /\ m.at % 2 = 0
    <3>1. work' = [work EXCEPT ![q] = m] BY <1>3, <2>1, <2>2
    <3>2. KindAt(w) = "prefix" <=> w.at % 2 = 1 BY DEF KindAt
    <3>3. w.at % 2 # 1 => w.at % 2 = 0 BY <1>2, SuffixPlace
    <3> QED BY <2>1, <2>3, <3>1, <3>2, <3>3
  <2>5. timeline + 1 \in Nat /\ timeline + 1 # 0 /\ timeline + 1 <= m.last /\ m.last <= timeline'
    BY <1>1, <1>3, <2>3
  <2>6. \A y \in sent' \ sent : y = buffer(timeline + 1) BY <1>3
  <2> HIDE DEF buffer
  <2> QED BY <1>3, <2>3, <2>4, <2>5, <2>6 DEF buffer
<1>4. CASE /\ work' = [work EXCEPT ![q].pc = "finish", ![q].outcome = "submit"]
           /\ sent' \in {sent, sent \cup {buffer(0)}} /\ UNCHANGED timeline
  <2>1. PICK m : m = [w EXCEPT !.pc = "finish", !.outcome = "submit"] OBVIOUS
  <2>2. /\ m \in Work /\ m.batch = w.batch /\ m.at = w.at /\ m.last = w.last
        /\ m.outcome = "submit" /\ m.pc = "finish"
    BY <1>1, <2>1 DEF Work
  <2>3. work' = [work EXCEPT ![q] = m] BY <1>4, <2>1
  <2>4. 0 <= m.last /\ m.last <= timeline' BY <1>1, <1>4, <2>2
  <2>5. sent \subseteq sent' /\ \A y \in sent' \ sent : y = buffer(0) BY <1>4
  <2> HIDE DEF buffer
  <2> QED BY <1>4, <2>2, <2>3, <2>4, <2>5 DEF buffer
<1> QED BY <1>3, <1>4 DEF Submit

LEMMA SubmitInv == ASSUME SystemInv, NEW q \in Queues, Submit(q) PROVE SystemInv'
<1> USE DEF SystemInv
<1>1. /\ work[q].pc = "submit" /\ UNCHANGED <<vars, list, held, removed, done, fences>>
  BY DEF Submit, recorderVars
<1>2. PICK m \in Work, v \in Nat :
        /\ work' = [work EXCEPT ![q] = m] /\ m.batch = work[q].batch /\ m.at = work[q].at
        /\ m.last \in {work[q].last, timeline + 1} /\ v <= m.last /\ m.last <= timeline'
        /\ timeline' \in {timeline, timeline + 1}
        /\ v # 0 => v = timeline + 1 /\ timeline' = timeline + 1
        /\ v = 0 => m.pc = "finish" /\ m.outcome = "submit"
        /\ sent \subseteq sent'
        /\ \A y \in sent' \ sent :
             y = [queue |-> q, list |-> Current(work[q]), kind |-> KindAt(work[q]), value |-> v,
                  buffers |-> snap[Current(work[q])]]
        /\ \/ m.pc = "prefix" /\ m.at % 2 = 1
           \/ m.pc = "consumer" /\ m.at % 2 = 0
           \/ m.pc = "finish"
        /\ m.outcome # "ok" => m.pc = "finish"
  BY SubmitMoves
<1>3. /\ RendezvousInv' /\ QueuesKept /\ RequestsKept /\ KnownTokens' = KnownTokens
      /\ UNCHANGED snap /\ \A c \in Clients : WaiterKept(c)
  BY <1>1, RendezvousStutter DEF vars
<1>4. /\ work'[q] = m /\ \A p \in Queues \ {q} : work'[p] = work[p]
      /\ \A p \in Queues : Lists(work[p])' = Lists(work[p])
      /\ \A p \in Queues : PastClaim(work[p])' => PastClaim(work[p])
  BY <1>1, <1>2 DEF SystemTypes, Lists, PastClaim
<1>5. \A p \in Queues \ {q} : WorkerRests(p) BY <1>1, <1>3, <1>4 DEF WorkerRests
<1>6. Current(work[q]) \in Lists(work[q]) /\ Current(work[q]) \in Clients BY <1>1, CutKnown
<1>7. /\ done \in Nat /\ timeline \in Nat /\ done <= timeline /\ work[q].last \in Nat
      /\ work[q].last <= timeline
  BY WorkType DEF SystemTypes, Formed, Work, WorkFormed
<1>8. \A y \in sent' \ sent :
        /\ y.queue = q /\ y.list = Current(work[q]) /\ y.value = v /\ y.buffers = snap[y.list]
        /\ y.kind \in {"prefix", "suffix"}
        /\ y = [queue |-> y.queue, list |-> y.list, kind |-> y.kind, value |-> y.value,
                buffers |-> y.buffers]
  BY <1>2 DEF KindAt
<1>9. SystemTypes'
  <2>1. \A y \in sent' \ sent : y \in CommandBuffer
    <3>1. snap[Current(work[q])] \in SUBSET Buffer
      BY <1>6 DEF RendezvousInv, WakeInv, TypeInv, TypeOK
    <3> QED BY <1>6, <1>8, <3>1 DEF CommandBuffer
  <2> QED BY <1>1, <1>2, <1>7, <2>1 DEF SystemTypes
<1>10. Formed'
  <2>1. ASSUME NEW p \in Queues \ {q} PROVE WorkFormed(work[p])' /\ WaitFormed(p)'
    BY <1>2, <1>3, <1>5, InUse, RestFormed
  <2>2. WorkFormed(work[q])'
    <3>1. WorkFormed(m)' BY <1>1, <1>2, WorkType DEF WorkFormed
    <3> QED BY <1>4, <3>1 DEF WorkFormed
  <2>3. WaitFormed(q)' BY <1>2, <1>4 DEF WaitFormed
  <2>4. \A l \in Clients : ListFormed(l)' BY <1>1, <1>3, OtherListsFormed
  <2>5. done' <= timeline' BY <1>1, <1>2, <1>7
  <2> QED BY <2>1, <2>2, <2>3, <2>4, <2>5 DEF Formed
<1>11. Holders' BY <1>1, <1>4 DEF Holders
<1>12. SentInv'
  <2>1. ASSUME NEW y \in sent
        PROVE  /\ y.value # 0 => done' < y.value /\ y.value <= timeline'
               /\ y.buffers = snap'[y.list] /\ Accounted(y)'
    <3>1. /\ y.value # 0 => done < y.value /\ y.value <= timeline
          /\ y.buffers = snap[y.list] /\ Accounted(y) /\ y.queue \in Queues /\ y.value \in Nat
      BY InUse DEF SentInv
    <3>2. y.value # 0 => done' < y.value /\ y.value <= timeline' BY <1>1, <1>2, <1>7, <3>1
    <3>3. CASE y.queue = q /\ y.list \in Lists(work[q]) /\ y.value <= work[q].last /\ y.value # 0
      <4>1. y.value <= m.last BY <1>2, <1>7, <3>1, <3>3
      <4>2. y.list \in Lists(work[y.queue])' /\ PastClaim(work[y.queue])'
            /\ y.value <= work'[y.queue].last
        BY <1>2, <1>4, <3>3, <4>1 DEF PastClaim
      <4>3. Accounted(y)' BY <3>3, <4>2 DEF Accounted, PastClaim
      <4> QED BY <1>3, <3>1, <3>2, <4>3
    <3>4. CASE y.queue # q
      <4>1. Accounted(y)' BY <1>1, <1>4, <3>1, <3>4 DEF Accounted, PastClaim
      <4> QED BY <1>3, <3>1, <3>2, <4>1
    <3>5. CASE (\E z \in fences : y.list \in z.lists /\ y.value \in 1 .. z.value)
               \/ held[y.list] = "lost"
      <4>1. Accounted(y)' BY <1>1, <3>5 DEF Accounted
      <4> QED BY <1>3, <3>1, <3>2, <4>1
    <3> QED BY <1>1, <3>1, <3>3, <3>4, <3>5 DEF Accounted
  <2>2. ASSUME NEW y \in sent' \ sent
        PROVE  /\ y.value # 0 => done' < y.value /\ y.value <= timeline'
               /\ y.buffers = snap'[y.list] /\ Accounted(y)'
    <3>1. y.value # 0 => done' < y.value /\ y.value <= timeline' BY <1>1, <1>2, <1>7, <1>8
    <3>2. y.list \in Lists(work[y.queue])' /\ PastClaim(work[y.queue])'
          /\ y.value <= work'[y.queue].last
      BY <1>2, <1>4, <1>6, <1>8 DEF PastClaim
    <3>3. y.value = 0 => work'[y.queue].pc = "finish" /\ work'[y.queue].outcome = "submit"
      BY <1>2, <1>4, <1>8
    <3>4. Accounted(y)' BY <3>2, <3>3 DEF Accounted, PastClaim
    <3> QED BY <1>3, <1>8, <3>1, <3>4
  <2> QED BY <2>1, <2>2 DEF SentInv
<1>13. Claimed'
  <2>1. PastClaim(work[q]) BY <1>1 DEF PastClaim
  <2>2. HeldKeep BY <1>1, <1>3 DEF HeldKeep
  <2> QED BY <1>3, <1>4, <1>6, <1>8, <2>1, <2>2, ClaimedKept
<1>14. RequestsInv'
  <2>1. \A t, f : StuckKept(q, t, f)
    <3>1. PastClaim(work[q]) /\ PastClaim(work[q])' BY <1>1, <1>2, <1>4 DEF PastClaim
    <3>2. \A t, f : ~Stuck(work[q], t, f) BY <1>1 DEF Stuck
    <3> QED BY <1>1, <1>2, <1>4, <3>1, <3>2, MoveStuck
  <2>2. \A p \in Queues : \A t, f : StuckKept(p, t, f) BY <1>5, <2>1, RestStuck
  <2> QED BY <1>1, <1>3, <2>2, RequestsKeptInv DEF RequestsKept
<1>15. SuffixInv'
  <2>1. ASSUME NEW p \in Queues \ {q} PROVE SuffixReady(work[p])'
    <3>1. \A y \in sent' \ sent : y.list \notin Lists(work[p]) BY <1>6, <1>8 DEF Holders
    <3> QED BY <1>3, <1>5, <3>1, RestSuffix DEF RequestsKept
  <2>2. SuffixReady(work[q])' BY <1>2, <1>4 DEF SuffixReady, SuffixDue
  <2> QED BY <2>1, <2>2 DEF SuffixInv
<1> QED BY <1>3, <1>9, <1>10, <1>11, <1>12, <1>13, <1>14, <1>15

\* A step that sends nothing: each worker rests, or begins or ends an execute.
LEMMA NothingSentInv ==
  ASSUME SystemInv, UNCHANGED <<vars, list, timeline>>, removed => removed', SystemTypes',
         sent' \subseteq sent, done' <= timeline', Holders', SentInv',
         \A l \in Clients : held'[l] = held[l] \/ list[l].closed,
         \A p \in Queues : \/ WorkerRests(p)
                           \/ /\ work[p].pc \in {"idle", "claim", "finish"}
                              /\ work'[p].pc \in {"idle", "claim"}
                              /\ WorkFormed(work[p])'
  PROVE  SystemInv'
<1> USE DEF SystemInv
<1>1. /\ RendezvousInv' /\ QueuesKept /\ RequestsKept /\ KnownTokens' = KnownTokens
      /\ UNCHANGED snap /\ \A c \in Clients : WaiterKept(c)
  BY RendezvousStutter DEF vars
<1>2. Formed'
  <2>1. ASSUME NEW p \in Queues PROVE WorkFormed(work[p])' /\ WaitFormed(p)'
    <3>1. CASE WorkerRests(p) BY <1>1, <3>1, InUse, RestFormed
    <3>2. CASE WorkFormed(work[p])' /\ work'[p].pc \in {"idle", "claim"} BY <3>2 DEF WaitFormed
    <3> QED BY <3>1, <3>2
  <2>2. \A l \in Clients : ListFormed(l)' BY <1>1, OtherListsFormed
  <2> QED BY <2>1, <2>2 DEF Formed
<1>3. Claimed'
  <2>1. ASSUME NEW p \in Queues, PastClaim(work[p])'
        PROVE  PastClaim(work[p]) /\ Lists(work[p])' \subseteq Lists(work[p])
    BY <2>1 DEF PastClaim, WorkerRests, Lists
  <2>2. HeldKeep BY <1>1 DEF HeldKeep
  <2> QED BY <1>1, <2>1, <2>2, ClaimedKept
<1>4. RequestsInv'
  <2>1. ASSUME NEW p \in Queues, NEW t, NEW f PROVE StuckKept(p, t, f)
    <3>1. CASE WorkerRests(p) BY <3>1, RestStuck
    <3>2. CASE work[p].pc \in {"idle", "claim", "finish"} /\ work'[p].pc \in {"idle", "claim"}
      <4>1. ~Uses(p, t)' BY <3>2 DEF Uses, PastClaim
      <4> QED BY <3>2, <4>1 DEF StuckKept, Uses, PastClaim
    <3> QED BY <3>1, <3>2
  <2> QED BY <1>1, <2>1, RequestsKeptInv DEF RequestsKept
<1>5. SuffixInv'
  <2>1. ASSUME NEW p \in Queues PROVE SuffixReady(work[p])'
    <3>1. CASE WorkerRests(p) BY <1>1, <3>1, RestSuffix DEF RequestsKept
    <3>2. CASE work'[p].pc \in {"idle", "claim"} BY <3>2 DEF SuffixReady, SuffixDue
    <3> QED BY <3>1, <3>2
  <2> QED BY <2>1 DEF SuffixInv
<1> QED BY <1>1, <1>2, <1>3, <1>4, <1>5

LEMMA IdleFormed ==
  ASSUME SystemTypes
  PROVE  Idle \in Work /\ Lists(Idle) = {} /\ WorkFormed(Idle)
  BY DEF Idle, Work, Lists, WorkFormed, SystemTypes

\* The end of an execute: a fence or nobody takes the allocators over.
LEMMA FinishInv == ASSUME SystemInv, NEW q \in Queues, Finish(q) PROVE SystemInv'
<1> USE DEF SystemInv
<1> DEFINE w == work[q]
           z == [value |-> w.last, lists |-> Lists(w)]
<1>1. /\ w.pc = "finish" /\ UNCHANGED <<vars, list, removed, timeline, done, sent>>
      /\ work' = [work EXCEPT ![q] = Idle]
      /\ \/ w.outcome # "submit" /\ fences' = fences \cup {z} /\ UNCHANGED held
         \/ held' = [l \in Clients |-> IF l \in Lists(w) THEN "lost" ELSE held[l]] /\ UNCHANGED fences
  BY DEF Finish, gpuVars, FenceValue
<1>2. z \in Fence /\ Lists(w) \subseteq Clients /\ w.last \in Nat
  BY WorkType, ListsIn DEF Fence, Work
<1>3. /\ work'[q] = Idle /\ \A p \in Queues \ {q} : work'[p] = work[p]
      /\ Lists(work[q])' = {} /\ \A p \in Queues \ {q} : Lists(work[p])' = Lists(work[p])
      /\ Idle \in Work
  <2>1. work'[q] = Idle /\ \A p \in Queues \ {q} : work'[p] = work[p] BY <1>1 DEF SystemTypes
  <2> QED BY <2>1, IdleFormed DEF Lists
<1>4. \A l \in Clients : /\ held'[l] = held[l] \/ (l \in Lists(w) /\ held'[l] = "lost")
                         /\ held[l] = "lost" => held'[l] = "lost"
  BY <1>1 DEF SystemTypes
<1>5. SystemTypes' BY <1>1, <1>2, <1>3 DEF SystemTypes
<1>6. Holders'
  <2>1. \A p \in Queues : \A l \in Lists(work[p])' : held'[l] = "yes"
    BY <1>3, <1>4, ListsIn DEF Holders
  <2>2. \A p, r \in Queues : p # r => Lists(work[p])' \cap Lists(work[r])' = {}
    BY <1>3 DEF Holders
  <2>3. \A y \in fences' : y \in fences \/ (y = z /\ UNCHANGED held)
    BY <1>1
  <2>4. ASSUME NEW y \in fences', NEW l \in y.lists
        PROVE  held'[l] = "yes" /\ \A p \in Queues : l \notin Lists(work[p])'
    <3>1. CASE y \in fences
      <4>1. l \in Clients BY <2>4, <3>1 DEF SystemTypes, Fence
      <4> QED BY <1>3, <1>4, <2>4, <3>1, <4>1 DEF Holders
    <3>2. CASE y = z /\ UNCHANGED held BY <1>3, <2>4, <3>2 DEF Holders
    <3> QED BY <2>3, <3>1, <3>2
  <2>5. \A x, y \in fences' : x # y => x.lists \cap y.lists = {}
    BY <2>3 DEF Holders
  <2> QED BY <2>1, <2>2, <2>4, <2>5 DEF Holders
<1>7. SentInv'
  <2>1. ASSUME NEW y \in sent PROVE Accounted(y)'
    <3>1. /\ y.list \in Clients /\ y.queue \in Queues /\ y.value \in Nat /\ Accounted(y)
      BY InUse DEF SentInv
    <3>2. CASE y.queue = q /\ y.list \in Lists(w) /\ y.value <= w.last
               /\ (y.value = 0 => w.outcome = "submit")
      <4>1. CASE w.outcome # "submit" /\ fences' = fences \cup {z}
        <5>1. y.value \in 1 .. z.value /\ y.list \in z.lists /\ z \in fences'
          BY <1>2, <3>1, <3>2, <4>1
        <5> QED BY <5>1 DEF Accounted
      <4>2. CASE held' = [l \in Clients |-> IF l \in Lists(w) THEN "lost" ELSE held[l]]
        BY <3>1, <3>2, <4>2 DEF Accounted
      <4> QED BY <1>1, <4>1, <4>2
    <3>3. CASE /\ y.queue # q /\ y.list \in Lists(work[y.queue]) /\ PastClaim(work[y.queue])
               /\ y.value <= work[y.queue].last
               /\ y.value = 0 => work[y.queue].pc = "finish" /\ work[y.queue].outcome = "submit"
      BY <1>3, <3>1, <3>3 DEF Accounted, PastClaim
    <3>4. CASE \E x \in fences : y.list \in x.lists /\ y.value \in 1 .. x.value
      <4>1. fences \subseteq fences' BY <1>1
      <4> QED BY <3>4, <4>1 DEF Accounted
    <3>5. CASE held[y.list] = "lost" BY <1>4, <3>1, <3>5 DEF Accounted
    <3> QED BY <3>1, <3>2, <3>3, <3>4, <3>5 DEF Accounted
  <2> QED BY <1>1, <2>1 DEF SentInv, vars
<1>8. \A l \in Clients : held'[l] = held[l] \/ list[l].closed
  BY <1>4 DEF Holders, Formed, ListFormed
<1>9. ASSUME NEW p \in Queues \ {q} PROVE WorkerRests(p)
  BY <1>1, <1>3 DEF WorkerRests, vars
<1>10. WorkFormed(work[q])' /\ work'[q].pc = "idle"
  <2>1. WorkFormed(Idle)' BY <1>5 DEF WorkFormed, Idle, SystemTypes
  <2> QED BY <1>3, <2>1 DEF WorkFormed, Idle
<1>11. done' <= timeline' BY <1>1 DEF Formed
<1> QED BY <1>1, <1>5, <1>6, <1>7, <1>8, <1>9, <1>10, <1>11, NothingSentInv

\* ExecuteCommandLists takes allocators that nobody holds.
LEMMA ExecuteInv ==
  ASSUME SystemInv, NEW q \in Queues, NEW batch \in Batches, Execute(q, batch)
  PROVE  SystemInv'
<1> USE DEF SystemInv
<1>1. PICK m : m = [Idle EXCEPT !.pc = "claim", !.batch = batch, !.at = 1] OBVIOUS
<1> DEFINE lists == Lists(m)
<1>2. /\ work[q].pc = "idle"
      /\ UNCHANGED <<vars, list, removed, timeline, done, sent, fences>>
      /\ work' = [work EXCEPT ![q] = m]
      /\ held' = [l \in Clients |-> IF \E i \in DOMAIN batch : batch[i] = l THEN "yes" ELSE held[l]]
      /\ \A i \in DOMAIN batch : list[batch[i]].closed /\ held[batch[i]] = "no"
  BY <1>1 DEF Execute, gpuVars
<1>3. /\ m.pc = "claim" /\ m.batch = batch /\ m.at = 1 /\ m.last = 0 /\ m.outcome = "ok" /\ m \in Work
      /\ Len(batch) \in {1, 2}
  BY <1>1, BatchType DEF Idle, Work
<1>4. lists \subseteq Clients /\ \A l \in lists : list[l].closed /\ held[l] = "no"
  BY <1>2, <1>3, BatchType DEF Lists
<1>5. \A l \in Clients : held'[l] = IF l \in lists THEN "yes" ELSE held[l] BY <1>2, <1>3 DEF Lists
<1>6. /\ work'[q] = m /\ \A p \in Queues \ {q} : work'[p] = work[p]
      /\ Lists(work[q])' = lists /\ \A p \in Queues \ {q} : Lists(work[p])' = Lists(work[p])
      /\ Lists(work[q]) = {}
  <2>1. work'[q] = m /\ \A p \in Queues \ {q} : work'[p] = work[p] BY <1>2 DEF SystemTypes
  <2> QED BY <1>2, <2>1, WorkType, IdleLists DEF Lists
<1>7. SystemTypes' BY <1>2, <1>3 DEF SystemTypes
<1> HIDE DEF lists
<1>8. \A p \in Queues : \A l \in Lists(work[p]) : l \notin lists
  BY <1>4 DEF Holders
<1>9. Holders'
  <2>1. \A p \in Queues : \A l \in Lists(work[p])' : held'[l] = "yes"
    BY <1>4, <1>5, <1>6, <1>8, ListsIn DEF Holders
  <2>2. \A p, r \in Queues : p # r => Lists(work[p])' \cap Lists(work[r])' = {}
    BY <1>6, <1>8 DEF Holders
  <2>3. ASSUME NEW z \in fences, NEW l \in z.lists
        PROVE  held'[l] = "yes" /\ \A p \in Queues : l \notin Lists(work[p])'
    <3>1. l \in Clients /\ held[l] = "yes" /\ \A p \in Queues : l \notin Lists(work[p])
      BY <2>3 DEF SystemTypes, Fence, Holders
    <3> QED BY <1>4, <1>5, <1>6, <3>1
  <2> QED BY <1>2, <2>1, <2>2, <2>3 DEF Holders
<1>10. SentInv'
  <2>1. ASSUME NEW y \in sent PROVE Accounted(y)'
    <3>1. y.list \in Clients /\ y.queue \in Queues /\ Accounted(y) /\ held[y.list] # "no"
      BY InUse DEF SentInv
    <3>2. held'[y.list] = held[y.list] BY <1>4, <1>5, <3>1
    <3> QED BY <1>2, <1>6, <3>1, <3>2 DEF Accounted, PastClaim
  <2> QED BY <1>2, <2>1 DEF SentInv, vars
<1>11. \A l \in Clients : held'[l] = held[l] \/ list[l].closed BY <1>4, <1>5
<1>12. \A p \in Queues \ {q} : WorkerRests(p) BY <1>2, <1>6 DEF WorkerRests, vars
<1>13. WorkFormed(work[q])' /\ work'[q].pc = "claim"
  <2>1. 1 \in 1 .. 2 * Len(batch) /\ 0 <= timeline'
    <3>1. \A n \in {1, 2} : 1 \in 1 .. 2 * n OBVIOUS
    <3>2. 1 \in 1 .. 2 * Len(batch) BY <1>3, <3>1
    <3>3. timeline \in Nat /\ timeline' = timeline BY <1>2 DEF SystemTypes
    <3> QED BY <3>2, <3>3
  <2>2. WorkFormed(m)' BY <1>3, <2>1 DEF WorkFormed
  <2> QED BY <1>3, <1>6, <2>2 DEF WorkFormed
<1>14. done' <= timeline' BY <1>2 DEF Formed
<1> QED BY <1>2, <1>7, <1>9, <1>10, <1>11, <1>12, <1>13, <1>14, NothingSentInv

\* A signal: everything that was sent with this value has run.
LEMMA GpuSignalsInv == ASSUME SystemInv, GpuSignals PROVE SystemInv'
<1> USE DEF SystemInv
<1>1. /\ done < timeline /\ done' = done + 1 /\ sent' = {x \in sent : x.value # done + 1}
      /\ UNCHANGED <<vars, list, held, removed, work, timeline, fences>>
  BY DEF GpuSignals, recorderVars
<1>2. done \in Nat /\ timeline \in Nat /\ done' <= timeline' BY <1>1 DEF SystemTypes
<1>3. SystemTypes' BY <1>1, <1>2 DEF SystemTypes
<1>4. \A p \in Queues : WorkerRests(p) /\ Lists(work[p])' = Lists(work[p])
  BY <1>1 DEF WorkerRests, Lists, vars
<1>5. Holders' BY <1>1, <1>4 DEF Holders
<1>6. SentInv'
  <2>1. ASSUME NEW y \in sent, y.value # done + 1
        PROVE  /\ y.value # 0 => done' < y.value /\ y.value <= timeline'
               /\ Accounted(y)' /\ y.buffers = snap'[y.list]
    <3>1. /\ y.value # 0 => done < y.value /\ y.value <= timeline
          /\ Accounted(y) /\ y.buffers = snap[y.list] /\ y.queue \in Queues /\ y.value \in Nat
      BY InUse DEF SentInv
    <3>2. y.value # 0 => done' < y.value /\ y.value <= timeline' BY <1>1, <1>2, <2>1, <3>1
    <3>3. Accounted(y)' BY <1>1, <1>4, <3>1 DEF Accounted, PastClaim
    <3> QED BY <1>1, <3>1, <3>2, <3>3 DEF vars
  <2> QED BY <1>1, <2>1 DEF SentInv
<1>7. sent' \subseteq sent /\ \A l \in Clients : held'[l] = held[l] BY <1>1
<1> QED BY <1>1, <1>2, <1>3, <1>4, <1>5, <1>6, <1>7, NothingSentInv

\* A fence gives back allocators of which nothing is on the GPU.
LEMMA ReleaseAllocatorsInv ==
  ASSUME SystemInv, NEW x \in fences, ReleaseAllocators(x)
  PROVE  SystemInv'
<1> USE DEF SystemInv
<1>1. /\ x.value <= done /\ fences' = fences \ {x}
      /\ held' = [l \in Clients |-> IF l \in x.lists THEN "no" ELSE held[l]]
      /\ UNCHANGED <<vars, list, removed, work, timeline, done, sent>>
  BY DEF ReleaseAllocators, gpuVars
<1>2. done \in Nat /\ timeline \in Nat /\ done' <= timeline' BY <1>1 DEF SystemTypes, Formed
<1>3. SystemTypes' BY <1>1 DEF SystemTypes
<1>4. \A p \in Queues : WorkerRests(p) /\ Lists(work[p])' = Lists(work[p])
  BY <1>1 DEF WorkerRests, Lists, vars
<1>5. \A l \in Clients : held'[l] = IF l \in x.lists THEN "no" ELSE held[l] BY <1>1
<1>6. x.lists \subseteq Clients /\ x.value \in Nat BY DEF SystemTypes, Fence
<1>7. \A l \in x.lists : held[l] = "yes" /\ \A p \in Queues : l \notin Lists(work[p])
  BY DEF Holders
<1>8. Holders'
  <2>1. \A p \in Queues : \A l \in Lists(work[p])' : held'[l] = "yes"
    BY <1>4, <1>5, <1>7, ListsIn DEF Holders
  <2>2. \A p, r \in Queues : p # r => Lists(work[p])' \cap Lists(work[r])' = {}
    BY <1>4 DEF Holders
  <2>3. ASSUME NEW z \in fences', NEW l \in z.lists
        PROVE  held'[l] = "yes" /\ \A p \in Queues : l \notin Lists(work[p])'
    <3>1. z \in fences /\ z # x BY <1>1
    <3>2. l \in Clients /\ held[l] = "yes" /\ l \notin x.lists
          /\ \A p \in Queues : l \notin Lists(work[p])
      BY <2>3, <3>1 DEF SystemTypes, Fence, Holders
    <3> QED BY <1>4, <1>5, <3>2
  <2>4. \A y, z \in fences' : y # z => y.lists \cap z.lists = {} BY <1>1 DEF Holders
  <2> QED BY <2>1, <2>2, <2>3, <2>4 DEF Holders
<1>9. SentInv'
  <2>1. ASSUME NEW y \in sent PROVE Accounted(y)'
    <3>1. /\ y.value # 0 => done < y.value
          /\ Accounted(y) /\ y.queue \in Queues /\ y.value \in Nat /\ y.list \in Clients
      BY InUse DEF SentInv
    <3>2. y.list \notin x.lists
      <4> SUFFICES ASSUME y.list \in x.lists PROVE FALSE OBVIOUS
      <4>1. PICK z \in fences : y.list \in z.lists /\ y.value \in 1 .. z.value
        BY <1>7, <3>1 DEF Accounted
      <4>2. z = x BY <4>1 DEF Holders
      <4> QED BY <1>1, <1>2, <1>6, <3>1, <4>1, <4>2
    <3>3. held'[y.list] = held[y.list] BY <1>5, <3>1, <3>2
    <3>4. \A z \in fences : y.list \in z.lists => z \in fences' BY <1>1, <3>2
    <3> QED BY <1>1, <1>4, <3>1, <3>3, <3>4 DEF Accounted, PastClaim
  <2> QED BY <1>1, <2>1 DEF SentInv, vars
<1>10. \A l \in Clients : held'[l] = held[l] \/ list[l].closed
  BY <1>5, <1>7 DEF Formed, ListFormed
<1> QED BY <1>1, <1>2, <1>3, <1>4, <1>8, <1>9, <1>10, NothingSentInv

-----------------------------------------------------------------------------
\* The claim of a batch.

\* Of the rendezvous only the queues of registrations change.
ClaimsFor(q, union) ==
  /\ reg' = [k \in Slots |-> IF reg[k].active /\ BufferOf(k) \in union
                             THEN [reg[k] EXCEPT !.queue = q] ELSE reg[k]]
  /\ UNCHANGED <<frames, nextToken, ownerVars, drops, snap, waiter, hipVars>>

LEMMA ClaimRendezvous ==
  ASSUME RendezvousInv, NEW q \in Queues, NEW union, ClaimsFor(q, union)
  PROVE  /\ RendezvousInv'
         /\ \A t : Found(t)' = Found(t)
         /\ RequestsKept
         /\ \A k \in Slots : reg'[k].queue = IF reg[k].active /\ BufferOf(k) \in union
                                             THEN q ELSE reg[k].queue
<1> USE DEF RendezvousInv, WakeInv, ClaimsFor
<1>1. \A k \in Slots : [reg[k] EXCEPT !.queue = q] \in Registration
  BY DEF TypeInv, TypeOK, Registration
<1>2. \A k \in Slots : /\ reg'[k].token = reg[k].token /\ reg'[k].owner = reg[k].owner
                       /\ reg'[k].active = reg[k].active
                       /\ reg'[k].queue = IF reg[k].active /\ BufferOf(k) \in union
                                          THEN q ELSE reg[k].queue
  BY DEF TypeInv, TypeOK, Registration
<1>3. UNCHANGED <<frames, nextToken, refs, app, life, drops, snap, waiter, job, pc, probing, gpu>>
  BY DEF ownerVars, hipVars
<1>4. TypeInv'
  <2>1. reg' \in [Slots -> Registration] BY <1>1 DEF TypeInv, TypeOK
  <2>2. TypeOK' BY <1>3, <2>1 DEF TypeInv, TypeOK
  <2>3. WellFormed' BY <1>2, <1>3 DEF TypeInv, WellFormed, HipFormed
  <2> QED BY <2>2, <2>3 DEF TypeInv
<1>5. TokensUnique' BY <1>2, <1>3 DEF TokensUnique
<1>6. StatesSound' /\ StatesShaped' BY <1>3 DEF StatesSound, StatesShaped
<1>7. SleepersAwait'
  <2>1. ASSUME NEW t \in Threads, waiter[t].st = "sleep"
        PROVE  \E k \in Slots : Awaited(k, waiter[t])'
    <3>1. PICK k \in Slots : Awaited(k, waiter[t]) BY <2>1 DEF SleepersAwait
    <3>2. Awaited(k, waiter[t])' BY <1>2, <1>3, <3>1 DEF Awaited, Pos
    <3> QED BY <3>2
  <2> QED BY <1>3, <2>1 DEF SleepersAwait
<1>8. JobOwnsItsState'
  BY <1>2, <1>3 DEF JobOwnsItsState, Pos
<1>9. \A t : Found(t)' = Found(t) BY <1>2 DEF Found
<1>10. RequestsKept BY <1>2, <1>3 DEF RequestsKept, Requested, Holds, Pos
<1>11. KernelsInv'
  <2>1. \A t, f : Quiet(t, f) => Quiet(t, f)' BY <1>2, <1>3 DEF Quiet, Holds, Pos
  <2>2. \A g \in gpu : Running(g)' <=> Running(g) BY <1>3 DEF Running, JobStreams
  <2> QED BY <1>3, <2>1, <2>2 DEF KernelsInv, KnownTokens
<1> QED BY <1>2, <1>4, <1>5, <1>6, <1>7, <1>8, <1>9, <1>10, <1>11

\* A claim takes nothing from a worker that has it already.
LEMMA ClaimTakesFree ==
  ASSUME SystemInv, NEW q \in Queues, NEW b, Affine(q, b), NEW k \in Found(b.token), b.token # 0
  PROVE  reg[k].owner = b.owner /\ reg[k].queue \in {None, q} /\ None \notin Queues
<1>1. TokensUnique BY DEF SystemInv, RendezvousInv, WakeInv
<1>2. \A j \in Found(b.token) : j = k BY <1>1 DEF Found, TokensUnique
<1> QED BY <1>2, NoneAssumption DEF Affine

LEMMA BatchClaimed ==
  ASSUME SystemInv, NEW q \in Queues, work[q].pc = "claim", ~removed, NEW union,
         union = UNION {snap[l] : l \in Lists(work[q])}, \A b \in union : Affine(q, b), ClaimsFor(q, union),
         UNCHANGED <<list, held, removed, timeline, done, sent, fences>>,
         work' = [work EXCEPT ![q].pc = "acquire"]
  PROVE  SystemInv'
<1>1. /\ RendezvousInv'
      /\ \A t : Found(t)' = Found(t)
      /\ RequestsKept
      /\ \A k \in Slots : reg'[k].queue = IF reg[k].active /\ BufferOf(k) \in union
                                          THEN q ELSE reg[k].queue
  <2>1. RendezvousInv BY DEF SystemInv
  <2> QED BY <2>1, ClaimRendezvous
<1>2. KnownTokens' = KnownTokens /\ UNCHANGED snap /\ \A c \in Clients : WaiterKept(c)
  BY SameWaiter DEF KnownTokens, ClaimsFor
<1>3. PICK w : /\ w = Moved(work[q], "acquire", work[q].at, work[q].outcome)
               /\ w.pc = "acquire" /\ w.at = work[q].at /\ w.outcome = work[q].outcome
               /\ w.batch = work[q].batch /\ w.last = work[q].last /\ Current(w) = Current(work[q])
               /\ work' = [work EXCEPT ![q] = w] => work'[q] = w
  <2>1. "acquire" \in Stations /\ work[q].at \in Nat /\ work[q].outcome \in Outcomes
    BY WorkType, StationNames
  <2>2. PICK w : w = Moved(work[q], "acquire", work[q].at, work[q].outcome) OBVIOUS
  <2>3. /\ w.pc = "acquire" /\ w.at = work[q].at /\ w.outcome = work[q].outcome
        /\ w.batch = work[q].batch /\ w.last = work[q].last /\ Current(w) = Current(work[q])
    BY <2>1, <2>2, WorkType, MovedWork
  <2>4. work' = [work EXCEPT ![q] = w] => work'[q] = w BY DEF SystemInv, SystemTypes
  <2> QED BY <2>2, <2>3, <2>4
<1>4. work' = [work EXCEPT ![q] = w] /\ work'[q] = w /\ w \in Work
  <2>1. w = [work[q] EXCEPT !.pc = "acquire"] BY <1>3, WorkType DEF Moved, Work
  <2>2. work' = [work EXCEPT ![q] = w] BY <2>1
  <2> QED BY <1>3, <2>1, <2>2, WorkType DEF Work
<1> USE DEF SystemInv
<1>5. /\ \A p \in Queues \ {q} : work'[p] = work[p]
      /\ \A p \in Queues : Lists(work[p])' = Lists(work[p])
  BY <1>3, <1>4 DEF SystemTypes, Lists
<1>6. \A p \in Queues \ {q} : WorkerRests(p) BY <1>2, <1>5 DEF WorkerRests
<1>7. SystemTypes' BY <1>4 DEF SystemTypes
<1>8. WorkFormed(work[q]) /\ work[q].at = 1 BY WorkType DEF WorkFormed
<1>9. Formed'
  <2>1. \A p \in Queues \ {q} : WorkFormed(work[p])' /\ WaitFormed(p)'
    BY <1>2, <1>6, InUse, RestFormed
  <2>2. WorkFormed(work[q])' /\ WaitFormed(q)'
    <3>1. WorkFormed(w)' BY <1>3, <1>8 DEF WorkFormed
    <3> QED BY <1>3, <1>4, <3>1 DEF WorkFormed, WaitFormed
  <2>3. \A l \in Clients : ListFormed(l)' BY <1>2, OtherListsFormed
  <2> QED BY <2>1, <2>2, <2>3 DEF Formed
<1>10. Holders' BY <1>5 DEF Holders
<1>11. SentInv'
  <2>1. ASSUME NEW y \in sent PROVE Accounted(y)'
    <3>1. y.queue \in Queues /\ Accounted(y) BY InUse DEF SentInv
    <3>2. CASE y.queue = q
      BY <1>5, <3>1, <3>2 DEF Accounted, PastClaim
    <3>3. CASE y.queue # q BY <1>5, <3>1, <3>3 DEF Accounted, PastClaim
    <3> QED BY <3>2, <3>3
  <2> QED BY <1>2, <2>1 DEF SentInv
\* Whose token is in the batch, and of a claimed slot.
<1>12. ASSUME NEW l \in Lists(work[q]), NEW b \in snap[l], NEW k \in Found(b.token)
       PROVE  /\ b \in union /\ reg'[k].queue = q /\ reg[k].queue \in {None, q}
  <2>1. b \in union /\ Affine(q, b) BY <1>12
  <2>2. l \in Clients BY <1>12, ListsIn
  <2>3. b.token \in KnownTokens /\ b \in Buffer
    BY <1>12, <2>2 DEF Formed, ListFormed, RendezvousInv, WakeInv, TypeInv, TypeOK
  <2>4. reg[k].owner = b.owner /\ reg[k].queue \in {None, q}
    <3>1. b.token # 0 BY <2>3 DEF KnownTokens
    <3> HIDE DEF SystemInv
    <3> QED BY <1>12, <2>1, <3>1, ClaimTakesFree
  <2>5. k \in Slots /\ reg[k].active /\ reg[k].token = b.token BY DEF Found
  <2>6. BufferOf(k) = b BY <2>3, <2>4, <2>5 DEF BufferOf, Buffer
  <2> QED BY <1>1, <2>1, <2>4, <2>5, <2>6
<1>13. ASSUME NEW p \in Queues, NEW k \in Slots, reg[k].queue = p, reg[k].active
       PROVE  reg'[k].queue = p
  <2>1. CASE BufferOf(k) \in union
    <3>1. PICK l \in Lists(work[q]) : BufferOf(k) \in snap[l] BY <2>1
    <3>2. k \in Found(BufferOf(k).token) BY <1>13 DEF BufferOf, Found
    <3>3. reg'[k].queue = q /\ reg[k].queue \in {None, q} BY <1>12, <3>1, <3>2
    <3> QED BY <1>13, <3>3, NoneAssumption
  <2> QED BY <1>1, <1>13, <2>1
<1>14. Claimed'
  <2>1. ASSUME NEW p \in Queues, PastClaim(work[p])', NEW l \in Lists(work[p])', NEW b \in snap'[l],
               NEW k \in Found(b.token)'
        PROVE  reg'[k].queue = p
    <3>1. l \in Lists(work[p]) /\ b \in snap[l] /\ k \in Found(b.token) /\ k \in Slots
          /\ reg[k].active
      BY <1>1, <1>2, <1>5, <2>1 DEF Found
    <3>2. CASE p = q BY <1>12, <3>1, <3>2
    <3>3. CASE p # q
      <4>1. PastClaim(work[p]) BY <1>5, <2>1, <3>3 DEF PastClaim
      <4> QED BY <1>13, <3>1, <4>1 DEF Claimed
    <3> QED BY <3>2, <3>3
  <2>2. ASSUME NEW y \in sent, NEW b \in y.buffers, NEW k \in Found(b.token)'
        PROVE  reg'[k].queue = y.queue
    <3>1. k \in Found(b.token) /\ k \in Slots /\ reg[k].active /\ y.queue \in Queues
      BY <1>1, <2>2, InUse DEF Found
    <3>2. reg[k].queue = y.queue BY <2>2, <3>1 DEF Claimed, ClaimedForTheirQueue
    <3> QED BY <1>13, <3>1, <3>2
  <2>3. ClaimedForTheirQueue' BY <2>2 DEF ClaimedForTheirQueue
  <2> QED BY <2>1, <2>3 DEF Claimed
<1>15. RequestsInv'
  <2> SUFFICES ASSUME NEW t \in KnownTokens, NEW f \in Frames, Requested(t, f)', Found(t) # {}
               PROVE  Doomed(t, f)'
    BY <1>1, <1>2 DEF RequestsInv, Doomed
  <2>1. Requested(t, f) /\ t # 0
    <3>1. Requested(t, f) BY <1>1 DEF RequestsKept
    <3> QED BY <3>1 DEF KnownTokens
  <2>2. PICK p \in Queues : Uses(p, t) /\ Stuck(work[p], t, f) /\ work[p].pc # "finish"
    BY <2>1 DEF RequestsInv, Doomed
  <2>3. p # q BY <2>2 DEF Uses, PastClaim
  <2>4. ~Uses(q, t)'
    <3> SUFFICES ASSUME NEW l \in Lists(work[q]), list[l].cut = t PROVE FALSE
      BY <1>5 DEF Uses
    <3>1. l \in Clients /\ held[l] # "no" BY InUse
    <3>2. PICK b \in snap[l] : b.token = t BY <2>1, <3>1 DEF Formed, ListFormed
    <3>3. PICK k \in Found(t) : TRUE OBVIOUS
    <3>4. reg[k].queue \in {None, q} BY <1>12, <3>2, <3>3
    <3>5. PICK m \in Lists(work[p]) : list[m].cut = t BY <2>2 DEF Uses
    <3>6. m \in Clients /\ held[m] # "no" BY InUse
    <3>7. PICK d \in snap[m] : d.token = t BY <2>1, <3>5, <3>6 DEF Formed, ListFormed
    <3>8. reg[k].queue = p BY <2>2, <3>3, <3>5, <3>7 DEF Claimed, Uses
    <3> QED BY <2>3, <3>4, <3>8, NoneAssumption
  <2>5. ASSUME NEW r \in Queues \ {q}
        PROVE  (Uses(r, t)' <=> Uses(r, t)) /\ (Uses(r, t) => (Stuck(work[r], t, f)' <=> Stuck(work[r], t, f)))
    <3>1. Uses(r, t)' <=> Uses(r, t) BY <1>5 DEF Uses, PastClaim
    <3>2. Stuck(work[r], t, f)' <=> Stuck(work[r], t, f)
      BY <1>5 DEF Stuck, TokenOf, FrameOf, Current
    <3> QED BY <3>1, <3>2
  <2>6. \A r \in Queues : Uses(r, t)' => Stuck(work[r], t, f)'
    BY <2>1, <2>4, <2>5 DEF RequestsInv, Doomed
  <2>7. Uses(p, t)' /\ Stuck(work[p], t, f)' /\ work'[p].pc # "finish" BY <1>5, <2>2, <2>3, <2>5
  <2> QED BY <2>6, <2>7 DEF Doomed
<1>16. SuffixInv'
  <2>1. \A p \in Queues \ {q} : SuffixReady(work[p])'
    BY <1>1, <1>6, RestSuffix DEF RequestsKept
  <2>2. SuffixReady(work[q])' BY <1>3, <1>4, <1>8 DEF SuffixReady, SuffixDue
  <2> QED BY <2>1, <2>2 DEF SuffixInv
<1> QED BY <1>1, <1>7, <1>9, <1>10, <1>11, <1>14, <1>15, <1>16

LEMMA ClaimBatchInv == ASSUME SystemInv, NEW q \in Queues, ClaimBatch(q) PROVE SystemInv'
<1> USE DEF SystemInv
<1>1. PICK union : union = UNION {snap[l] : l \in Lists(work[q])} OBVIOUS
<1>2. CASE /\ work[q].pc = "claim" /\ ~removed /\ \A b \in union : Affine(q, b)
           /\ ClaimsFor(q, union) /\ work' = [work EXCEPT ![q].pc = "acquire"]
           /\ UNCHANGED <<held, removed>>
  <2>1. UNCHANGED <<list, held, removed, timeline, done, sent, fences>>
    BY <1>2 DEF ClaimBatch, gpuVars
  <2> QED BY <1>1, <1>2, <2>1, BatchClaimed
<1>3. CASE /\ work[q].pc = "claim" /\ removed' = TRUE
           /\ held' = [l \in Clients |-> IF l \in Lists(work[q]) THEN "no" ELSE held[l]]
           /\ work' = [work EXCEPT ![q] = Idle]
           /\ UNCHANGED reg
  <2>1. UNCHANGED <<vars, list, timeline, done, sent, fences>>
    BY <1>3 DEF ClaimBatch, gpuVars, vars
  <2>2. /\ work'[q] = Idle /\ \A p \in Queues \ {q} : work'[p] = work[p]
        /\ Lists(work[q])' = {} /\ \A p \in Queues \ {q} : Lists(work[p])' = Lists(work[p])
        /\ Idle \in Work
    <3>1. work'[q] = Idle /\ \A p \in Queues \ {q} : work'[p] = work[p] BY <1>3 DEF SystemTypes
    <3> QED BY <3>1, IdleFormed DEF Lists
  <2>3. \A l \in Clients : held'[l] = IF l \in Lists(work[q]) THEN "no" ELSE held[l] BY <1>3
  <2>4. SystemTypes' BY <1>3, <2>1, <2>2 DEF SystemTypes
  <2>5. Holders'
    <3>1. \A p \in Queues : \A l \in Lists(work[p])' : held'[l] = "yes"
      BY <2>2, <2>3, ListsIn DEF Holders
    <3>2. \A p, r \in Queues : p # r => Lists(work[p])' \cap Lists(work[r])' = {}
      BY <2>2 DEF Holders
    <3>3. ASSUME NEW z \in fences, NEW l \in z.lists
          PROVE  held'[l] = "yes" /\ \A p \in Queues : l \notin Lists(work[p])'
      <4>1. l \in Clients /\ held[l] = "yes" /\ \A p \in Queues : l \notin Lists(work[p])
        BY <3>3 DEF SystemTypes, Fence, Holders
      <4> QED BY <2>2, <2>3, <4>1
    <3> QED BY <2>1, <3>1, <3>2, <3>3 DEF Holders
  <2>6. SentInv'
    <3>1. ASSUME NEW y \in sent PROVE Accounted(y)'
      <4>1. y.list \in Clients /\ y.queue \in Queues /\ Accounted(y) BY InUse DEF SentInv
      <4>2. y.list \notin Lists(work[q])
        BY <1>3, <4>1 DEF Accounted, PastClaim, Holders
      <4>3. held'[y.list] = held[y.list] BY <2>3, <4>1, <4>2
      <4> QED BY <2>1, <2>2, <4>1, <4>2, <4>3 DEF Accounted, PastClaim
    <3> QED BY <2>1, <3>1 DEF SentInv, vars
  <2>7. \A l \in Clients : held'[l] = held[l] \/ list[l].closed
    BY <2>3 DEF Holders, Formed, ListFormed
  <2>8. \A p \in Queues \ {q} : WorkerRests(p) BY <2>1, <2>2 DEF WorkerRests, vars
  <2>9. WorkFormed(work[q])' /\ work'[q].pc = "idle"
    <3>1. WorkFormed(Idle)' BY <2>4 DEF WorkFormed, Idle, SystemTypes
    <3> QED BY <2>2, <3>1 DEF WorkFormed, Idle
  <2>10. done' <= timeline' BY <2>1 DEF Formed
  <2> QED BY <1>3, <2>1, <2>4, <2>5, <2>6, <2>7, <2>8, <2>9, <2>10, NothingSentInv
<1>4. UNCHANGED <<frames, nextToken, ownerVars, drops, snap, waiter, hipVars>> BY DEF ClaimBatch
<1> QED BY <1>1, <1>2, <1>3, <1>4 DEF ClaimBatch, Goto, ClaimsFor

-----------------------------------------------------------------------------
\* The invariant.

LEMMA SystemStart == SystemInit => SystemInv
<1> SUFFICES ASSUME SystemInit PROVE SystemInv OBVIOUS
<1>1. RendezvousInv
  <2>1. Init BY DEF SystemInit
  <2>2. JobOwnsItsState BY <2>1 DEF Init, NoJob, JobOwnsItsState
  <2>3. KernelsInv BY <2>1 DEF Init, KernelsInv
  <2>4. StatesShaped BY <2>1, WindowInit
  <2> QED BY <2>1, <2>2, <2>3, <2>4, WakeInit DEF RendezvousInv
<1>2. SystemTypes
  <2>1. NewList \in CommandList BY SizesAssumption DEF NewList, CommandList, Tokens
  <2>2. Idle \in Work BY DEF Idle, Work
  <2> QED BY <2>1, <2>2 DEF SystemInit, SystemTypes
<1>3. \A q \in Queues : work[q] = Idle /\ Lists(work[q]) = {} /\ WorkFormed(work[q])
  <2>1. \A q \in Queues : work[q] = Idle BY DEF SystemInit
  <2> QED BY <1>2, <2>1, IdleFormed
<1>4. Formed
  <2>1. \A q \in Queues : WaitFormed(q) BY <1>3 DEF WaitFormed, Idle
  <2>2. \A l \in Clients : ListFormed(l) BY DEF SystemInit, Init, NewList, ListFormed
  <2> QED BY <1>3, <2>1, <2>2 DEF Formed, SystemInit
<1>5. Holders BY <1>3 DEF Holders, SystemInit
<1>6. SentInv BY DEF SentInv, SystemInit
<1>7. Claimed BY <1>3 DEF Claimed, ClaimedForTheirQueue, PastClaim, Idle, SystemInit
<1>8. RequestsInv
  <2>1. KnownTokens = {} BY DEF SystemInit, Init, KnownTokens
  <2> QED BY <2>1 DEF RequestsInv
<1>9. SuffixInv BY <1>3 DEF SuffixInv, SuffixReady, SuffixDue, Idle
<1> QED BY <1>1, <1>2, <1>4, <1>5, <1>6, <1>7, <1>8, <1>9 DEF SystemInv

LEMMA SystemStutter == ASSUME SystemInv, UNCHANGED system PROVE SystemInv'
<1> USE DEF SystemInv
<1>1. UNCHANGED <<vars, list, held, removed, work, timeline, done, sent, fences>>
  BY DEF system, clientVars, recorderVars, gpuVars
<1>2. UNCHANGED snap BY <1>1 DEF vars
<1>3. \A p \in Queues : WorkerRests(p) /\ Lists(work[p])' = Lists(work[p])
  BY <1>1, <1>2 DEF WorkerRests, Lists
<1>4. SystemTypes' BY <1>1 DEF SystemTypes
<1>5. Holders' BY <1>1, <1>3 DEF Holders
<1>6. SentInv'
  <2>1. ASSUME NEW y \in sent, Accounted(y) PROVE Accounted(y)'
    <3>1. y.queue \in Queues BY InUse
    <3> QED BY <1>1, <1>3, <2>1, <3>1 DEF Accounted, PastClaim
  <2> QED BY <1>1, <1>2, <2>1 DEF SentInv
<1>7. done' <= timeline' BY <1>1 DEF Formed
<1> QED BY <1>1, <1>3, <1>4, <1>5, <1>6, <1>7, NothingSentInv

LEMMA SystemStep == SystemInv /\ [SystemNext]_system => SystemInv'
<1> SUFFICES ASSUME SystemInv, [SystemNext]_system PROVE SystemInv' OBVIOUS
<1>1. ASSUME NEW q \in Queues, Worker(q) PROVE SystemInv'
  BY <1>1, ClaimBatchInv, AcquireInv, SubmitInv, PrefixDoneInv, PrefixFailsInv, PublishInputInv,
     EnterWaitInv, CheckOutputInv, OutputExpiresInv, ReacquireInv, ConsumerInv, FinishInv DEF Worker
<1> QED BY <1>1, OthersInv, RecorderInv, ExecuteInv, GpuSignalsInv, ReleaseAllocatorsInv, SystemStutter
        DEF SystemNext

\* The registry and its client meet it in every state.
LEMMA SystemAlways == SystemSpec => []SystemInv
  BY SystemStart, SystemStep, PTL DEF SystemSpec

-----------------------------------------------------------------------------
\* What the client does to the registry is what NrOrdered lets it do, except
\* that a batch is claimed as a whole.
LEMMA CallsOfTheRegistry ==
  ASSUME SystemInv, [SystemNext]_system
  PROVE  [Next]_vars \/ \E q \in Queues : \E union : ClaimsFor(q, union)
<1>1. ASSUME NEW l \in Clients, Recorder(l) PROVE [Next]_vars
  <2>1. Snapshot(l) \/ DropSnapshot(l) \/ UNCHANGED vars
    BY <1>1 DEF Recorder, Split, Reject, Close, Reset, Arm
  <2> QED BY <2>1 DEF Next, ClientStep
<1>2. ASSUME NEW q \in Queues, Worker(q), work[q].pc # "idle"
      PROVE  [Next]_vars \/ \E union : ClaimsFor(q, union)
  <2>1. PICK c \in Clients, t \in KnownTokens, f \in Frames :
          c = Current(work[q]) /\ t = TokenOf(work[q]) /\ f = FrameOf(work[q])
    BY <1>2, CutKnown
  <2>2. CASE ClaimBatch(q)
    <3>1. UNCHANGED <<frames, nextToken, ownerVars, drops, snap, waiter, hipVars>>
      BY <2>2 DEF ClaimBatch
    <3>2. UNCHANGED reg \/ \E union : ClaimsFor(q, union) BY <2>2, <3>1 DEF ClaimBatch, ClaimsFor
    <3> QED BY <3>1, <3>2 DEF vars
  <2>3. CASE Acquire(q) \/ Submit(q) \/ PrefixDone(q) \/ Reacquire(q) \/ Finish(q)
    BY <2>3 DEF Acquire, Submit, PrefixDone, Reacquire, Finish
  <2>4. CASE PrefixFails(q) BY <2>1, <2>4 DEF PrefixFails, Next, AnyClient
  <2>5. CASE PublishInput(q)
    <3>1. Publish(c, t, f) \/ UNCHANGED vars BY <2>1, <2>5 DEF PublishInput
    <3> QED BY <3>1 DEF Next, ClientStep
  <2>6. CASE EnterWait(q) BY <2>1, <2>6 DEF EnterWait, Next, ClientStep
  <2>7. CASE CheckOutput(q) BY <2>1, <2>7 DEF CheckOutput, Next, ClientStep
  <2>8. CASE OutputExpires(q) BY <2>1, <2>8 DEF OutputExpires, Next, ClientStep
  <2>9. CASE Consumer(q)
    <3>1. ConsumerSubmitted(t, f) \/ UNCHANGED vars BY <2>1, <2>9 DEF Consumer
    <3> QED BY <3>1 DEF Next, AnyClient
  <2> QED BY <1>2, <2>2, <2>3, <2>4, <2>5, <2>6, <2>7, <2>8, <2>9 DEF Worker
<1>3. ASSUME NEW q \in Queues, Worker(q) PROVE work[q].pc # "idle"
  BY <1>3 DEF Worker, ClaimBatch, Acquire, Submit, PrefixDone, PrefixFails, PublishInput, EnterWait,
              CheckOutput, OutputExpires, Reacquire, Consumer, Finish
<1>4. ASSUME NEW q \in Queues, NEW batch \in Batches, Execute(q, batch) PROVE [Next]_vars
  BY <1>4 DEF Execute
<1>5. CASE GpuSignals \/ \E x \in fences : ReleaseAllocators(x)
  BY <1>5 DEF GpuSignals, ReleaseAllocators
<1>6. CASE Lifetime \/ \E h \in Hips : HipStep(h) BY <1>6 DEF Next
<1>7. CASE UNCHANGED system BY <1>7 DEF system
<1> QED BY <1>1, <1>2, <1>3, <1>4, <1>5, <1>6, <1>7 DEF SystemNext

LEMMA SystemRefs ==
  ASSUME FiniteClients
  PROVE  SystemInv /\ SystemInv' /\ RefsInv /\ [SystemNext]_system => RefsInv'
<1> SUFFICES ASSUME SystemInv, SystemInv', RefsInv, [SystemNext]_system PROVE RefsInv' OBVIOUS
<1>1. TypeInv' BY DEF SystemInv, RendezvousInv, WakeInv
<1>2. CASE [Next]_vars BY <1>1, <1>2, RefsStep DEF RefsInv
<1>3. ASSUME NEW q \in Queues, NEW union, ClaimsFor(q, union) PROVE RefsInv'
  <2>1. Balanced' /\ ProbesHeld' /\ Living' BY <1>3, ClaimRefs DEF ClaimsFor
  <2> QED BY <1>1, <2>1 DEF RefsInv
<1> QED BY <1>2, <1>3, CallsOfTheRegistry

LEMMA SystemRefsAlways == ASSUME FiniteClients PROVE SystemSpec => []RefsInv
<1>1. SystemInit => RefsInv BY RefsInit, InitType DEF SystemInit, RefsInv
<1> QED BY <1>1, SystemRefs, SystemAlways, PTL DEF SystemSpec

-----------------------------------------------------------------------------
\* Under the calls of the client an output that is published means that every
\* kernel of its frame has been synchronised, on the marker stream and on the
\* work stream: nobody publishes the frame again while something of it runs.
THEOREM ClientOutputsAreDrained == SystemSpec => []OutputMeansDrained
<1>1. SystemInv => OutputMeansDrained BY RendezvousDrained DEF SystemInv
<1> QED BY <1>1, SystemAlways, PTL

\* What is on the GPU belongs to the queue its buffers are claimed for, for any
\* number of queues, lists and batches.
THEOREM QueuesKeepTheirBuffers == SystemSpec => []ClaimedForTheirQueue
<1>1. SystemInv => ClaimedForTheirQueue BY DEF SystemInv, Claimed
<1> QED BY <1>1, SystemAlways, PTL

\* When a suffix is submitted its prefix has run, no kernel of its frame is
\* outstanding, and an input that is published has been answered.
THEOREM SuffixesFollowOutputs == SystemSpec => SuffixAfterOutput
<1>1. SystemInv /\ [SystemNext]_system =>
        [\A x \in sent' \ sent : x.kind = "suffix" =>
           LET t == list[x.list].cut
               f == list[x.list].frame
               s(k) == frames[k][Pos(f)]
           IN  /\ ~\E y \in sent : y.list = x.list /\ y.kind = "prefix"
               /\ ~\E g \in gpu : g.token = t /\ g.frame = f
               /\ \A k \in Slots : reg[k].token = t /\ Holds(k, f) /\ s(k).input => s(k).output]_system
  <2> SUFFICES ASSUME SystemInv, [SystemNext]_system, NEW x \in sent' \ sent, x.kind = "suffix"
               PROVE  LET t == list[x.list].cut
                          f == list[x.list].frame
                          s(k) == frames[k][Pos(f)]
                      IN  /\ ~\E y \in sent : y.list = x.list /\ y.kind = "prefix"
                          /\ ~\E g \in gpu : g.token = t /\ g.frame = f
                          /\ \A k \in Slots : reg[k].token = t /\ Holds(k, f) /\ s(k).input =>
                               s(k).output
    OBVIOUS
  <2>1. PICK q \in Queues : Submit(q)
    <3>1. sent' \subseteq sent \/ \E q \in Queues : Worker(q)
      BY DEF SystemNext, system, clientVars, gpuVars, Recorder, Arm, Split, Reject, Close, Reset, Execute,
             GpuSignals, ReleaseAllocators
    <3>2. ASSUME NEW q \in Queues, Worker(q) PROVE Submit(q) \/ sent' = sent
      BY <3>2 DEF Worker, ClaimBatch, Acquire, PrefixDone, PrefixFails, PublishInput, EnterWait,
                  CheckOutput, OutputExpires, Reacquire, Consumer, Finish, gpuVars
    <3> QED BY <3>1, <3>2
  <2>2. /\ x.list = Current(work[q]) /\ KindAt(work[q]) = "suffix" /\ work[q].pc = "submit"
    BY <2>1, SubmitMoves DEF Submit
  <2>3. work[q].at % 2 = 0
    <3>1. work[q].at \in 1 .. 4 BY <2>2, WorkType, CurrentIn
    <3>2. work[q].at % 2 # 1 BY <2>2 DEF KindAt
    <3> QED BY <3>1, <3>2, SuffixPlace
  <2>4. SuffixDue(work[q]) BY <2>2, <2>3 DEF SuffixDue
  <2>5. PrefixRun(work[q]) /\ ~Requested(TokenOf(work[q]), FrameOf(work[q]))
    BY <2>4, WorkType DEF SuffixReady
  <2> QED BY <2>2, <2>5 DEF PrefixRun, Requested, TokenOf, FrameOf
<1> QED BY <1>1, SystemAlways, PTL DEF SystemSpec, SuffixAfterOutput

\* No buffer is freed that a command buffer on the GPU may still use, for any
\* number of owners, lists and failures.
THEOREM BuffersAreKept == ASSUME FiniteClients PROVE SystemSpec => []BuffersOutliveGpu
<1>1. SystemInv /\ RefsInv => BuffersOutliveGpu
  <2> SUFFICES ASSUME SystemInv, RefsInv, NEW y \in sent, NEW b \in y.buffers
               PROVE  life[b.owner] # "gone"
    BY DEF BuffersOutliveGpu
  <2>1. y.list \in Clients /\ b \in snap[y.list] BY InUse DEF SystemInv, SentInv
  <2> QED BY <2>1, CountedLives DEF NoDanglingOwner
<1> QED BY <1>1, SystemAlways, SystemRefsAlways, PTL

=============================================================================
