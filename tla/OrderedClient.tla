--------------------------- MODULE OrderedClient ---------------------------
(***************************************************************************)
(* The vkd3d-proton side of the rendezvous, composed with the registry and *)
(* the HIP workers of NrOrdered: command lists are recorded and cut where  *)
(* the payload would poll (nr_ordered_command_boundary), queue workers     *)
(* claim their buffers (nr_ordered_claim_submission) and submit prefix and *)
(* suffix apart (d3d12_command_queue_execute, nr_ordered_after_producer).  *)
(*                                                                         *)
(* Clients are command lists, each with an allocator of its own; Queues    *)
(* are D3D12 queues with one worker each, all on one Vulkan queue.  While  *)
(* a worker is inside a call of the registry it is the list's thread.      *)
(***************************************************************************)
EXTENDS NrOrdered, Sequences, Functions

CONSTANTS MaxSubmits \* bound: signals on the timeline of the Vulkan queue

ASSUME SubmitsAssumption == MaxSubmits \in Nat

VARIABLES
  list,      \* list[l]: what the recorder of a command list keeps
  held,      \* held[l]: whether an execute holds a reference to the allocator
  removed,   \* the device is marked as removed
  work,      \* work[q]: what the worker of queue q executes, and where it is
  lock,      \* the worker that holds the Vulkan queue
  timeline,  \* the last value that was submitted for signalling
  done,      \* the value the GPU has reached
  sent,      \* command buffers the GPU may still execute
  fences     \* callbacks that release the allocators of an execute

recorderVars == <<list, held, removed>>
gpuVars == <<timeline, done, sent>>
clientVars == <<recorderVars, work, lock, gpuVars, fences>>
system == <<vars, clientVars>>

-----------------------------------------------------------------------------
\* armed: token of the producer recorded last; cut: token of the boundary; both
\* with frame.  value 0: no signal, because the submit failed half-way.

CommandList == [armed : Tokens, cut : Tokens, frame : Frames \cup {None}, closed : BOOLEAN]
Work == [pc : {"idle", "claim", "acquire", "submit", "prefix", "publish", "output", "wait",
               "reacquire", "consumer", "finish"},
         batch : Seq(Clients), at : Nat, last : Nat, outcome : {"ok", "nr", "submit"}]
CommandBuffer == [queue : Queues, list : Clients, kind : {"prefix", "suffix"}, value : Nat,
                  buffers : SUBSET Buffer]
Fence == [value : Nat, lists : SUBSET Clients]

NewList == [armed |-> 0, cut |-> 0, frame |-> None, closed |-> FALSE]
Idle == [pc |-> "idle", batch |-> <<>>, at |-> 0, last |-> 0, outcome |-> "ok"]

SystemInit ==
  /\ Init
  /\ list = [l \in Clients |-> NewList]
  /\ held = [l \in Clients |-> "no"]
  /\ removed = FALSE
  /\ work = [q \in Queues |-> Idle]
  /\ lock = None
  /\ timeline = 0 /\ done = 0
  /\ sent = {}
  /\ fences = {}

Lists(w) == {w.batch[i] : i \in DOMAIN w.batch}
Current(w) == w.batch[(w.at + 1) \div 2]
KindAt(w) == IF w.at % 2 = 1 THEN "prefix" ELSE "suffix"
TokenOf(w) == list[Current(w)].cut
FrameOf(w) == list[Current(w)].frame

Goto(q, to) == work' = [work EXCEPT ![q].pc = to]
Fails(q, to) == work' = [work EXCEPT ![q].pc = to, ![q].outcome = "nr"]

-----------------------------------------------------------------------------
\* Recording, on threads of the application.  The three modes of the payload's
\* flag shader; a repeated wait is skipped and changes nothing.

Recording(l) == ~list[l].closed /\ ~removed

\* Mode 0: the producer is recorded as it stands.  A second split of one list
\* is beyond the bound of one snapshot per allocator.
Arm(l, k, f) ==
  /\ Recording(l) /\ list[l].cut = 0
  /\ reg[k].active
  /\ list' = [list EXCEPT ![l].armed = reg[k].token, ![l].frame = f]
  /\ UNCHANGED <<vars, held, removed, work, lock, gpuVars, fences>>

\* Mode 1: the first wait splits the list.  The snapshot belongs to the
\* allocator before anything else can fail.
Split(l) ==
  /\ Recording(l) /\ list[l].armed # 0
  /\ Found(list[l].armed) # {}
  /\ Snapshot(l)
  /\ \/ /\ \E b \in snap'[l] : b.token = list[l].armed
        /\ list' = [list EXCEPT ![l].cut = list[l].armed, ![l].armed = 0]
        /\ UNCHANGED removed
     \/ removed' = TRUE /\ UNCHANGED list \* no such token, or no new sequence
  /\ UNCHANGED <<held, work, lock, gpuVars, fences>>

\* Anything else the shader is dispatched with: refused for good.
Reject(l) ==
  /\ Recording(l)
  /\ removed' = TRUE
  /\ UNCHANGED <<vars, list, held, work, lock, gpuVars, fences>>

Close(l) ==
  /\ ~list[l].closed /\ list[l].cut # 0
  /\ list' = [list EXCEPT ![l].closed = TRUE]
  /\ UNCHANGED <<vars, held, removed, work, lock, gpuVars, fences>>

\* Reset of an allocator that no execute holds, and of its list.
Reset(l) ==
  /\ held[l] = "no"
  /\ DropSnapshot(l)
  /\ list' = [list EXCEPT ![l] = NewList]
  /\ UNCHANGED <<held, removed, work, lock, gpuVars, fences>>

\* ExecuteCommandLists hands lists that are not pending to the worker; bounded
\* by the signals that it and the other workers may still need.
Owed(w) == IF w.pc = "idle" THEN 0 ELSE 2 * Len(w.batch) - (w.at - 1)

Execute(q, batch) ==
  /\ work[q].pc = "idle"
  /\ timeline + 2 * Len(batch) + FoldFunction(LAMBDA w, n : Owed(w) + n, 0, work) <= MaxSubmits
  /\ \A i \in DOMAIN batch : list[batch[i]].closed /\ held[batch[i]] = "no"
  /\ work' = [work EXCEPT ![q] = [Idle EXCEPT !.pc = "claim", !.batch = batch, !.at = 1]]
  /\ held' = [l \in Clients |-> IF \E i \in DOMAIN batch : batch[i] = l THEN "yes" ELSE held[l]]
  /\ UNCHANGED <<vars, list, removed, lock, gpuVars, fences>>

-----------------------------------------------------------------------------
\* The worker.

FaultyAffine(q, b) == Found(b.token) # {} \* does not look whose it is
Affine(q, b) == \E k \in Found(b.token) :
                  reg[k].owner = b.owner /\ ~reg[k].probe /\ reg[k].queue \in {None, q}

\* nr_ordered_claim_submission: the union of all snapshots of the batch, or
\* nothing is submitted and the allocators are given back at once.
ClaimBatch(q) ==
  LET w == work[q]
      union == UNION {snap[l] : l \in Lists(w)}
  IN  /\ w.pc = "claim"
      /\ IF ~removed /\ \A b \in union : Affine(q, b)
         THEN /\ reg' = [k \in Slots |-> IF reg[k].active /\ BufferOf(k) \in union
                                         THEN [reg[k] EXCEPT !.queue = q] ELSE reg[k]]
              /\ Goto(q, "acquire")
              /\ UNCHANGED <<held, removed>>
         ELSE /\ removed' = TRUE
              /\ held' = [l \in Clients |-> IF l \in Lists(w) THEN "no" ELSE held[l]]
              /\ work' = [work EXCEPT ![q] = Idle]
              /\ UNCHANGED reg
      /\ UNCHANGED <<frames, nextToken, ownerVars, drops, snap, waiter, hipVars, list, lock, gpuVars, fences>>

Acquire(q) ==
  /\ work[q].pc = "acquire" /\ lock = None
  /\ lock' = q
  /\ Goto(q, "submit")
  /\ UNCHANGED <<vars, recorderVars, gpuVars, fences>>

\* One Vulkan submit, cut at the boundary.  It may fail, also after the
\* commands were sent and before their signal was.
Submit(q) ==
  LET w == work[q]
      buffer(value) == [queue |-> q, list |-> Current(w), kind |-> KindAt(w), value |-> value,
                        buffers |-> snap[Current(w)]]
  IN  /\ w.pc = "submit"
      /\ \/ /\ timeline' = timeline + 1
            /\ sent' = sent \cup {buffer(timeline + 1)}
            /\ work' = [work EXCEPT ![q].last = timeline + 1,
                                    ![q].pc = IF KindAt(w) = "prefix" THEN "prefix" ELSE "consumer"]
            /\ lock' = IF KindAt(w) = "prefix" THEN None ELSE lock
         \/ /\ work' = [work EXCEPT ![q].pc = "finish", ![q].outcome = "submit"]
            /\ sent' \in {sent, sent \cup {buffer(0)}}
            /\ UNCHANGED <<timeline, lock>>
      /\ UNCHANGED <<vars, recorderVars, done, fences>>

\* nr_ordered_after_producer, without the lock: wait for the prefix, ...
PrefixDone(q) ==
  /\ work[q].pc = "prefix" /\ work[q].last <= done
  /\ Goto(q, "publish")
  /\ UNCHANGED <<vars, recorderVars, lock, gpuVars, fences>>

PrefixFails(q) ==
  /\ work[q].pc = "prefix"
  /\ ClientFail(TokenOf(work[q]), FrameOf(work[q]))
  /\ Fails(q, "reacquire")
  /\ UNCHANGED <<recorderVars, lock, gpuVars, fences>>

\* ... publish the input, ...
PublishInput(q) ==
  LET w == work[q]
      t == TokenOf(w)
      f == FrameOf(w)
      Input(s) == s.frame = f /\ s.input
      published == \E k \in Found(t) : ~Input(frames[k][Pos(f)]) /\ Input(frames'[k][Pos(f)])
  IN  /\ w.pc = "publish"
      /\ \/ /\ Publish(Current(w), t, f)
            /\ IF published THEN Goto(q, "output") ELSE Fails(q, "reacquire")
         \/ /\ ~\E k \in Found(t) : Obtainable(k, f)
            /\ Fails(q, "reacquire") /\ UNCHANGED vars
      /\ UNCHANGED <<recorderVars, lock, gpuVars, fences>>

\* ... and wait for the output.
EnterWait(q) ==
  /\ work[q].pc = "output"
  /\ WaitOutput(Current(work[q]), TokenOf(work[q]), FrameOf(work[q]))
  /\ Goto(q, "wait")
  /\ UNCHANGED <<recorderVars, lock, gpuVars, fences>>

FaultyAnswered(w) == ~Pending(w) \* takes any return for an answer
Answered(w) == Ready(w)

CheckOutput(q) ==
  LET w == waiter[Current(work[q])]
  IN  /\ work[q].pc = "wait"
      /\ ClientCheck(Current(work[q]))
      /\ \/ Pending(w) /\ UNCHANGED work
         \/ ~Pending(w) /\ Answered(w) /\ Goto(q, "reacquire")
         \/ ~Pending(w) /\ ~Answered(w) /\ Fails(q, "reacquire")
      /\ UNCHANGED <<recorderVars, lock, gpuVars, fences>>

OutputExpires(q) ==
  /\ work[q].pc = "wait"
  /\ ClientExpire(Current(work[q]))
  /\ Fails(q, "reacquire")
  /\ UNCHANGED <<recorderVars, lock, gpuVars, fences>>

\* The next submit of the execute, at once or staggered; or its end.
Continue(q) ==
  LET w == work[q]
  IN  IF w.at = 2 * Len(w.batch)
      THEN Goto(q, "finish") /\ lock' = q
      ELSE \/ work' = [work EXCEPT ![q].pc = "submit", ![q].at = @ + 1] /\ lock' = q
           \/ work' = [work EXCEPT ![q].pc = "acquire", ![q].at = @ + 1] /\ lock' = None

Reacquire(q) ==
  /\ work[q].pc = "reacquire"
  /\ \/ /\ lock = None /\ work[q].outcome = "ok"
        /\ Continue(q) /\ UNCHANGED removed
     \/ /\ lock = None /\ work[q].outcome = "nr"
        /\ Goto(q, "finish") /\ lock' = q /\ removed' = TRUE
     \/ /\ Fails(q, "finish") /\ removed' = TRUE \* the lock is not to be had
        /\ UNCHANGED lock
  /\ UNCHANGED <<vars, list, held, gpuVars, fences>>

\* A suffix has been submitted.
Consumer(q) ==
  LET w == work[q]
      accepted == \E k \in Found(TokenOf(w)) : LET s == frames[k][Pos(FrameOf(w))]
                    IN Holds(k, FrameOf(w)) /\ s.output /\ ~s.consumed /\ ~s.error
  IN  /\ w.pc = "consumer"
      /\ \/ /\ ConsumerSubmitted(TokenOf(w), FrameOf(w))
            /\ Continue(q) /\ UNCHANGED removed
         \/ /\ ~accepted
            /\ Fails(q, "finish") /\ removed' = TRUE /\ UNCHANGED <<vars, lock>>
      /\ UNCHANGED <<list, held, gpuVars, fences>>

\* Allocators go back when the GPU has passed the last signal of this execute;
\* after a failed submit nothing is known and they are kept.
FaultyFenceValue(w) == w.last - 1
FenceValue(w) == w.last

Finish(q) ==
  LET w == work[q]
  IN  /\ w.pc = "finish"
      /\ lock' = IF lock = q THEN None ELSE lock
      /\ work' = [work EXCEPT ![q] = Idle]
      /\ IF w.outcome # "submit"
         THEN fences' = fences \cup {[value |-> FenceValue(w), lists |-> Lists(w)]} /\ UNCHANGED held
         ELSE held' = [l \in Clients |-> IF l \in Lists(w) THEN "lost" ELSE held[l]] /\ UNCHANGED fences
      /\ UNCHANGED <<vars, list, removed, gpuVars>>

-----------------------------------------------------------------------------
\* The GPU reaches its signals in order; the fence worker runs the callbacks.
GpuSignals ==
  /\ done < timeline
  /\ done' = done + 1
  /\ sent' = {x \in sent : x.value # done + 1}
  /\ UNCHANGED <<vars, recorderVars, work, lock, timeline, fences>>

ReleaseAllocators(x) ==
  /\ x.value <= done
  /\ fences' = fences \ {x}
  /\ held' = [l \in Clients |-> IF l \in x.lists THEN "no" ELSE held[l]]
  /\ UNCHANGED <<vars, list, removed, work, lock, gpuVars>>

-----------------------------------------------------------------------------
Batches == {<<l>> : l \in Clients} \cup {<<x[1], x[2]>> : x \in {x \in Clients \X Clients : x[1] # x[2]}}

Recorder(l) == Split(l) \/ Reject(l) \/ Close(l) \/ Reset(l)
               \/ \E k \in Slots, f \in Frames : Arm(l, k, f)

Worker(q) ==
  \/ ClaimBatch(q) \/ Acquire(q) \/ Submit(q) \/ PrefixDone(q) \/ PrefixFails(q) \/ PublishInput(q)
  \/ EnterWait(q) \/ CheckOutput(q) \/ OutputExpires(q) \/ Reacquire(q) \/ Consumer(q) \/ Finish(q)

SystemNext ==
  \/ (Lifetime \/ \E h \in Hips : HipStep(h)) /\ UNCHANGED clientVars
  \/ \E l \in Clients : Recorder(l)
  \/ \E q \in Queues : Worker(q) \/ \E batch \in Batches : Execute(q, batch)
  \/ GpuSignals
  \/ \E x \in fences : ReleaseAllocators(x)

SystemSpec == SystemInit /\ [][SystemNext]_system

-----------------------------------------------------------------------------
\* Properties.

\* "The suffix must not be sent to the GPU before the matching HIP result
\* exists": when it is submitted its prefix has run, no kernel of its frame is
\* outstanding, and an input that is published has been answered, whatever
\* failed, expired, retired or was recycled while the queue was unlocked.
SuffixAfterOutput ==
  [][\A x \in sent' \ sent : x.kind = "suffix" =>
       LET t == list[x.list].cut
           f == list[x.list].frame
           s(k) == frames[k][Pos(f)]
       IN  /\ ~\E y \in sent : y.list = x.list /\ y.kind = "prefix"
           /\ ~\E g \in gpu : g.token = t /\ g.frame = f
           /\ \A k \in Slots : reg[k].token = t /\ Holds(k, f) /\ s(k).input => s(k).output]_system

\* No buffer is freed that a command buffer on the GPU may still use: the
\* allocator keeps the pins of its snapshot until the last submit of the
\* execute has completed, also when the rendezvous failed half-way.
BuffersOutliveGpu ==
  \A x \in sent : \A b \in x.buffers : life[b.owner] # "gone"

\* What is on the GPU belongs to the queue its buffers are claimed for: two
\* queues never use one buffer, and a batch is claimed as a whole.
ClaimedForTheirQueue ==
  \A x \in sent : \A b \in x.buffers : \A k \in Found(b.token) : reg[k].queue = x.queue

=============================================================================
