---------------------------- MODULE NrOrdered ----------------------------
(***************************************************************************)
(* The CPU rendezvous of native/nr_ordered.c and the HIP entry points of   *)
(* native/hip_bridge.c that drive it.                                      *)
(*                                                                         *)
(* Vulkan queue workers (Clients) and HIP worker threads (Hips) share a    *)
(* registry of buffers under one mutex and one condition variable.  Each   *)
(* critical section of the code is one action; a call that unlocks and     *)
(* locks again is several.  References to an owner (a d3d12_resource) are  *)
(* counted by the owner itself; the releases the code performs after       *)
(* unlocking are the entries of drops, performed one by one by Release.    *)
(*                                                                         *)
(* Error codes are abstracted to "there is one"; gpu holds the kernels     *)
(* whose completion no successful synchronisation has proved yet.          *)
(***************************************************************************)
EXTENDS Integers, FiniteSets

CONSTANTS MaxResources, \* NR_ORDERED_MAX_RESOURCES
          Window,       \* NR_ORDERED_WINDOW
          Owners,       \* d3d12 buffers that are created with the device
          VaOf,         \* their device addresses; equal for placed aliases
          Frames,       \* frame numbers of the payload
          Clients,      \* Vulkan queue workers, with their allocator's snapshot
          Hips,         \* HIP worker threads
          Queues,       \* logical D3D12 queue identities
          WorkStreams,  \* streams for k_import: {"marker"} up to 0.4.0
          ProbeKinds,   \* startup probes the payload performs
          MaxToken,     \* bound: registrations in a behaviour
          MaxRefs,      \* INT_MAX, the count at which try_retain gives up
          None          \* NULL, and a slot of the ring that is not used

ASSUME SizesAssumption == /\ MaxResources \in Nat \ {0}
                          /\ Window \in Nat \ {0}
                          /\ MaxToken \in Nat
                          /\ MaxRefs \in Nat
ASSUME FramesAssumption == Frames \subseteq Nat
ASSUME OwnersAssumption == IsFiniteSet(Owners)
ASSUME NoneAssumption == None \notin Owners \cup Frames \cup Queues \cup Nat \cup {"marker", "work"}
ASSUME StreamsAssumption == WorkStreams \subseteq {"marker", "work"}
ASSUME ThreadsAssumption == Clients \cap Hips = {}
ASSUME ProbesAssumption == ProbeKinds \subseteq 1..3

Slots == 0 .. MaxResources - 1
Ring == 0 .. Window - 1
Threads == Clients \cup Hips
Tokens == 0 .. MaxToken \* 0: none

VARIABLES
  reg,        \* reg[k]: the registration in slot k of nr_resources
  frames,     \* frames[k][i]: the frame states of that slot
  nextToken,  \* nr_next_token
  refs,       \* internal_refcount of each owner
  app,        \* the application still holds its reference
  drops,      \* references given up under the mutex, released after it
  life,       \* live, dying (the count reached zero) or gone (freed)
  snap,       \* snap[c]: the snapshot of the client's command allocator
  waiter,     \* waiter[t]: what a thread in nr_wait_state waits for
  job,        \* job[h]: the thread-local nr_job
  pc,         \* where HIP thread h is
  probing,    \* probing[h]: the thread-local nr_probe and the probe under way
  gpu         \* kernels launched and not yet proved complete

ownerVars == <<refs, app, life>>
hipVars == <<job, pc, probing, gpu>>
vars == <<reg, frames, nextToken, ownerVars, drops, snap, waiter, hipVars>>

-----------------------------------------------------------------------------
\* Records.  A bundle of pins is the set of its buffers: the empty set is NULL.

Buffer == [token : Tokens, owner : Owners]
Registration == [active : BOOLEAN, token : Tokens, owner : Owners \cup {None},
                 queue : Queues \cup {None}, mapped : BOOLEAN, probe : BOOLEAN]
FrameState == [frame : Frames \cup {None}, input : BOOLEAN, output : BOOLEAN, consumed : BOOLEAN,
               error : BOOLEAN, owned : BOOLEAN, pins : SUBSET Buffer]
Waiting == [st : {"no", "enter", "sleep", "woken"}, token : Tokens, frame : Frames \cup {None},
            output : BOOLEAN]
Job == [active : BOOLEAN, error : BOOLEAN, sealed : BOOLEAN, bound : {None, "marker", "work"},
        token : Tokens, frame : Frames \cup {None}, slot : Slots \cup {None}]
Probe == [phase : 0..3, token : Tokens, kind : 0..3, slot : Slots \cup {None}]
Kernel == [by : Hips, stream : {"marker", "work"}, token : Tokens, frame : Frames \cup {None}]

NoRegistration == [active |-> FALSE, token |-> 0, owner |-> None, queue |-> None,
                   mapped |-> FALSE, probe |-> FALSE]
FreshFrame(f) == [frame |-> f, input |-> FALSE, output |-> FALSE, consumed |-> FALSE,
                  error |-> FALSE, owned |-> FALSE, pins |-> {}]
NotWaiting == [st |-> "no", token |-> 0, frame |-> None, output |-> FALSE]
NoJob == [active |-> FALSE, error |-> FALSE, sealed |-> FALSE, bound |-> None,
          token |-> 0, frame |-> None, slot |-> None]
NoProbe == [phase |-> 0, token |-> 0, kind |-> 0, slot |-> None]

Init ==
  /\ reg = [k \in Slots |-> NoRegistration]
  /\ frames = [k \in Slots |-> [i \in Ring |-> FreshFrame(None)]]
  /\ nextToken = 1
  /\ refs = [o \in Owners |-> 1]
  /\ app = [o \in Owners |-> TRUE]
  /\ drops = [o \in Owners |-> 0]
  /\ life = [o \in Owners |-> "live"]
  /\ snap = [c \in Clients |-> {}]
  /\ waiter = [t \in Threads |-> NotWaiting]
  /\ job = [h \in Hips |-> NoJob]
  /\ pc = [h \in Hips |-> "run"]
  /\ probing = [h \in Hips |-> NoProbe]
  /\ gpu = {}

-----------------------------------------------------------------------------
\* The registry as the critical sections see it.

Pos(f) == f % Window
BufferOf(k) == [token |-> reg[k].token, owner |-> reg[k].owner]

\* The slots nr_find_token may return: at most one.
Found(t) == {k \in Slots : reg[k].active /\ reg[k].token = t}

\* nr_frame: the state a call with create = 1 works on, and whether there is one.
FaultyHolds(k, f) == frames[k][Pos(f)].frame # None \* forgets to compare the frame
Holds(k, f) == frames[k][Pos(f)].frame = f
FaultyRecyclable(s) == s.pins = {} /\ ~s.owned \* gives away an unconsumed output
Recyclable(s) == s.pins = {} /\ ~s.owned /\ (s.frame = None \/ s.consumed \/ s.error)
Obtainable(k, f) == Holds(k, f) \/ Recyclable(frames[k][Pos(f)])
Obtained(k, f) == IF Holds(k, f) THEN frames[k][Pos(f)] ELSE FreshFrame(f)
Put(k, f, s) == [frames EXCEPT ![k] = [@ EXCEPT ![Pos(f)] = s]]

Busy(k) == reg[k].probe \/ \E i \in Ring : frames[k][i].pins # {} \/ frames[k][i].owned

\* nr_ordered_try_retain never revives a count of zero and never overflows.
FaultyRetainable(o) == refs[o] < MaxRefs \* revives a dying owner
Retainable(o) == refs[o] > 0 /\ refs[o] < MaxRefs

\* Reference counts after retaining or dropping every buffer of a bundle.
Count(bundle, o) == Cardinality({b \in bundle : b.owner = o})
FaultyRetaining(bundle) == refs
Retaining(bundle) == [o \in Owners |-> refs[o] + Count(bundle, o)]
Dropping(bundle) == [o \in Owners |-> drops[o] + Count(bundle, o)]

\* nr_detach_pins is for states no job owns; the job keeps its pins.
FaultyFailed(s) == [s EXCEPT !.error = TRUE, !.pins = {}] \* takes a job's pins
Failed(s) == [s EXCEPT !.error = TRUE, !.pins = IF s.owned THEN @ ELSE {}]

\* pthread_cond_broadcast
FaultyBroadcasted == waiter
Broadcasted == [t \in Threads |-> IF waiter[t].st = "sleep" THEN [waiter[t] EXCEPT !.st = "woken"]
                                  ELSE waiter[t]]

-----------------------------------------------------------------------------
\* Registration and lifetime.

\* CreateSharedHandle on a live buffer.  A second registration of the same
\* resource, an address that is registered already and a full table change
\* nothing here: the first returns the token, the others remove the device.
Register(o) ==
  /\ app[o]
  /\ ~\E k \in Slots : reg[k].active /\ VaOf[reg[k].owner] = VaOf[o]
  /\ nextToken <= MaxToken
  /\ \E k \in Slots :
       /\ ~reg[k].active /\ ~Busy(k)
       /\ \A j \in Slots : j < k => reg[j].active \/ Busy(j)
       /\ reg' = [reg EXCEPT ![k] = [NoRegistration EXCEPT !.active = TRUE, !.token = nextToken,
                                                           !.owner = o]]
       /\ frames' = [frames EXCEPT ![k] = [i \in Ring |-> FreshFrame(None)]]
  /\ nextToken' = nextToken + 1
  /\ UNCHANGED <<ownerVars, drops, snap, waiter, hipVars>>

\* hipImportExternalMemory and hipExternalMemoryGetMappedBuffer of a
\* registered buffer have both returned.
Map(k) ==
  /\ reg[k].active /\ ~reg[k].mapped
  /\ reg' = [reg EXCEPT ![k].mapped = TRUE]
  /\ UNCHANGED <<frames, nextToken, ownerVars, drops, snap, waiter, hipVars>>

\* d3d12_resource_decref: whoever takes the count to zero destroys the resource.
Decref(o) ==
  /\ refs' = [refs EXCEPT ![o] = @ - 1]
  /\ life' = IF refs[o] = 1 THEN [life EXCEPT ![o] = "dying"] ELSE life

FaultyRelease(o) == \* a release too many
  /\ drops' = [drops EXCEPT ![o] = @ - 1]
  /\ Decref(o)
  /\ UNCHANGED <<reg, frames, nextToken, app, snap, waiter, hipVars>>

\* One release callback, run without the mutex.
Release(o) ==
  /\ drops[o] > 0
  /\ drops' = [drops EXCEPT ![o] = @ - 1]
  /\ Decref(o)
  /\ UNCHANGED <<reg, frames, nextToken, app, snap, waiter, hipVars>>

AppRelease(o) ==
  /\ app[o]
  /\ app' = [app EXCEPT ![o] = FALSE]
  /\ Decref(o)
  /\ UNCHANGED <<reg, frames, nextToken, drops, snap, waiter, hipVars>>

\* nr_retire_resource: every registration at this address ends, its frames
\* fail, and the pins no job owns are dropped.
Retire(va) ==
  LET Hit(k) == reg[k].active /\ VaOf[reg[k].owner] = va
      lost == {x \in Slots \X Ring : Hit(x[1]) /\ ~frames[x[1]][x[2]].owned}
      Lost(o) == UNION {{<<x, b>> : b \in {b \in frames[x[1]][x[2]].pins : b.owner = o}} : x \in lost}
  IN  /\ reg' = [k \in Slots |-> IF Hit(k) THEN [reg[k] EXCEPT !.active = FALSE] ELSE reg[k]]
      /\ frames' = [k \in Slots |-> IF Hit(k) THEN [i \in Ring |-> Failed(frames[k][i])]
                                    ELSE frames[k]]
      /\ drops' = [o \in Owners |-> drops[o] + Cardinality(Lost(o))]
      /\ waiter' = Broadcasted

\* d3d12_resource_destroy: the last reference is gone; retire, then free.
Destroy(o) ==
  /\ life[o] = "dying"
  /\ Retire(VaOf[o])
  /\ life' = [life EXCEPT ![o] = "gone"]
  /\ UNCHANGED <<nextToken, refs, app, snap, hipVars>>

-----------------------------------------------------------------------------
\* The calls of the Vulkan side.

\* nr_snapshot: one pin on every mapped buffer, or none at all: the pins taken
\* before a retain fails are released after unlocking.
Snapshot(c) ==
  LET mapped == {k \in Slots : reg[k].active /\ reg[k].mapped}
      dead == {k \in mapped : ~Retainable(reg[k].owner)}
      before == {k \in mapped : \A d \in dead : k < d}
      taken == {BufferOf(k) : k \in before}
  IN  /\ snap[c] = {} /\ mapped # {}
      /\ refs' = Retaining(taken)
      /\ IF dead = {} THEN snap' = [snap EXCEPT ![c] = taken] /\ UNCHANGED drops
                      ELSE drops' = Dropping(taken) /\ UNCHANGED snap
      /\ UNCHANGED <<reg, frames, nextToken, app, life, waiter, hipVars>>

\* The allocator is reset or freed.
DropSnapshot(c) ==
  /\ snap[c] # {}
  /\ drops' = Dropping(snap[c])
  /\ snap' = [snap EXCEPT ![c] = {}]
  /\ UNCHANGED <<reg, frames, nextToken, ownerVars, waiter, hipVars>>

\* nr_claim_queue, when it succeeds; a refused claim changes nothing.
ClaimQueue(c, q) ==
  /\ snap[c] # {}
  /\ \A b \in snap[c] : \E k \in Found(b.token) :
       reg[k].owner = b.owner /\ ~reg[k].probe /\ reg[k].queue \in {None, q}
  /\ reg' = [k \in Slots |-> IF reg[k].active /\ BufferOf(k) \in snap[c]
                             THEN [reg[k] EXCEPT !.queue = q] ELSE reg[k]]
  /\ UNCHANGED <<frames, nextToken, ownerVars, drops, snap, waiter, hipVars>>

\* nr_publish_input.  The frame state is created even when the call then
\* refuses; the retains before a failing one are released after unlocking.
Publish(c, t, f) ==
  /\ snap[c] # {}
  /\ \E k \in Found(t) :
       /\ Obtainable(k, f)
       /\ LET s == Obtained(k, f)
              entries == {j \in Slots : reg[j].active /\ BufferOf(j) \in snap[c]}
              valid == /\ ~s.consumed /\ ~s.error /\ ~s.input /\ ~s.output /\ ~s.owned /\ s.pins = {}
                       /\ \A b \in snap[c] : \E j \in entries : BufferOf(j) = b
                       /\ k \in entries
              dead == {j \in entries : ~Retainable(reg[j].owner)}
              before == {BufferOf(j) : j \in {j \in entries : \A d \in dead : j < d}}
          IN  \/ /\ valid /\ dead = {}
                 /\ frames' = Put(k, f, [s EXCEPT !.pins = snap[c], !.input = TRUE])
                 /\ refs' = Retaining(snap[c])
                 /\ waiter' = Broadcasted
                 /\ UNCHANGED drops
              \/ /\ valid /\ dead # {}
                 /\ frames' = Put(k, f, s)
                 /\ refs' = Retaining(before) /\ drops' = Dropping(before)
                 /\ UNCHANGED waiter
              \/ /\ ~valid
                 /\ frames' = Put(k, f, s)
                 /\ UNCHANGED <<refs, drops, waiter>>
  /\ UNCHANGED <<reg, nextToken, app, life, snap, hipVars>>

\* nr_fail, called by either side.
FailFrame(t, f) ==
  /\ \/ \E k \in Found(t) :
          /\ Obtainable(k, f)
          /\ LET s == Obtained(k, f)
             IN  /\ frames' = Put(k, f, Failed(s))
                 /\ drops' = IF s.owned THEN drops ELSE Dropping(s.pins)
     \/ /\ ~\E k \in Found(t) : Obtainable(k, f)
        /\ UNCHANGED <<frames, drops>>
  /\ waiter' = Broadcasted

ClientFail(t, f) ==
  /\ FailFrame(t, f)
  /\ UNCHANGED <<reg, nextToken, ownerVars, snap, hipVars>>

\* nr_consumer_submitted, when it succeeds; a refusal changes nothing.
ConsumerSubmitted(t, f) ==
  /\ \E k \in Found(t) :
       LET s == frames[k][Pos(f)]
       IN  /\ Holds(k, f) /\ s.output /\ ~s.consumed /\ ~s.error
           /\ frames' = Put(k, f, [s EXCEPT !.consumed = TRUE])
  /\ UNCHANGED <<reg, nextToken, ownerVars, drops, snap, waiter, hipVars>>

-----------------------------------------------------------------------------
\* nr_wait_state.  A waiter sleeps on the condition variable until a broadcast
\* ("woken"), a spurious wakeup or its deadline.

Enter(t, token, f, output) ==
  waiter' = [waiter EXCEPT ![t] = [st |-> "enter", token |-> token, frame |-> f, output |-> output]]

\* What the loop finds under the mutex.
Live(w) == \E k \in Found(w.token) :
             Obtainable(k, w.frame) /\ ~Obtained(k, w.frame).consumed /\ ~Obtained(k, w.frame).error
Ready(w) == /\ Live(w)
            /\ \E k \in Found(w.token) : IF w.output THEN Obtained(k, w.frame).output
                                                     ELSE Obtained(k, w.frame).input
Refused(w) == ~Live(w)
Pending(w) == Live(w) /\ ~Ready(w)

\* One turn of the loop: return, or sleep (again).
Check(t) ==
  LET w == waiter[t]
  IN  /\ w.st # "no"
      /\ \/ \E k \in Found(w.token) : Obtainable(k, w.frame)
                                      /\ frames' = Put(k, w.frame, Obtained(k, w.frame))
         \/ ~(\E k \in Found(w.token) : Obtainable(k, w.frame)) /\ UNCHANGED frames
      /\ waiter' = [waiter EXCEPT ![t] = IF Pending(w) THEN [w EXCEPT !.st = "sleep"] ELSE NotWaiting]

FaultyExpire(t) == \* waits again
  /\ waiter[t].st \in {"sleep", "woken"}
  /\ waiter' = Broadcasted
  /\ UNCHANGED <<frames, drops>>

\* The deadline passed.  The thread takes the mutex without looking at the
\* predicate again: whatever arrived meanwhile, the frame fails.
Expire(t) ==
  LET w == waiter[t]
  IN  /\ w.st \in {"sleep", "woken"}
      /\ \/ \E k \in Found(w.token) :
              LET s == frames[k][Pos(w.frame)]
              IN  /\ Holds(k, w.frame)
                  /\ frames' = Put(k, w.frame, Failed(s))
                  /\ drops' = IF s.owned THEN drops ELSE Dropping(s.pins)
         \/ ~(\E k \in Found(w.token) : Holds(k, w.frame)) /\ UNCHANGED <<frames, drops>>
      /\ waiter' = [Broadcasted EXCEPT ![t] = NotWaiting]

WaitOutput(c, t, f) ==
  /\ waiter[c].st = "no"
  /\ Enter(c, t, f, TRUE)
  /\ UNCHANGED <<reg, frames, nextToken, ownerVars, drops, snap, hipVars>>

ClientCheck(c) ==
  /\ Check(c)
  /\ UNCHANGED <<reg, nextToken, ownerVars, drops, snap, hipVars>>

ClientExpire(c) ==
  /\ Expire(c)
  /\ UNCHANGED <<reg, nextToken, ownerVars, snap, hipVars>>

-----------------------------------------------------------------------------
\* The HIP worker: one job at a time, kept in thread-local storage.

WorkOf(h, streams) == {g \in gpu : g.by = h /\ g.stream \in streams}
KernelOf(h, stream) == [by |-> h, stream |-> stream, token |-> job[h].token, frame |-> job[h].frame]

\* nr_job_error: the job and its frame fail; the job keeps its pins.
FailJob(h, j) ==
  /\ job' = [job EXCEPT ![h] = [j EXCEPT !.error = TRUE]]
  /\ IF j.token # 0 THEN FailFrame(j.token, j.frame) ELSE UNCHANGED <<frames, drops, waiter>>

\* nr_begin_job, up to the wait: the flag pointer is looked up in the mapped
\* buffers.  A job that is still active is failed and kept.
BeginJob(h, f) ==
  /\ pc[h] = "run"
  /\ \/ /\ job[h].active
        /\ FailJob(h, job[h])
        /\ UNCHANGED pc
     \/ /\ ~job[h].active
        /\ \E k \in Slots :
             /\ reg[k].active /\ reg[k].mapped
             /\ job' = [job EXCEPT ![h] = [NoJob EXCEPT !.token = reg[k].token, !.frame = f]]
             /\ Enter(h, reg[k].token, f, FALSE)
        /\ pc' = [pc EXCEPT ![h] = "begin"]
        /\ UNCHANGED <<frames, drops>>
     \/ /\ ~job[h].active
        /\ job' = [job EXCEPT ![h] = [NoJob EXCEPT !.error = TRUE, !.frame = f]]
        /\ UNCHANGED <<frames, drops, waiter, pc>>
  /\ UNCHANGED <<reg, nextToken, ownerVars, snap, probing, gpu>>

\* The wait of nr_begin_job returns, or goes (back) to sleep.
HipCheck(h) ==
  LET w == waiter[h]
  IN  /\ Check(h)
      /\ pc' = [pc EXCEPT ![h] = IF Ready(w) THEN "claim" ELSE IF Refused(w) THEN "run" ELSE @]
      /\ job' = [job EXCEPT ![h].error = Refused(w)]
      /\ UNCHANGED <<reg, nextToken, ownerVars, drops, snap, probing, gpu>>

HipExpire(h) ==
  /\ Expire(h)
  /\ pc' = [pc EXCEPT ![h] = "run"]
  /\ job' = [job EXCEPT ![h].error = TRUE]
  /\ UNCHANGED <<reg, nextToken, ownerVars, snap, probing, gpu>>

\* The second critical section of nr_begin_job: everything may have changed
\* since the wait returned, so the frame is looked up and judged again.
Claimable(s) == /\ s.input /\ s.pins # {}
                /\ ~s.output /\ ~s.consumed /\ ~s.error /\ ~s.owned

Claim(h) ==
  LET j == job[h]
      s(k) == frames[k][Pos(j.frame)]
      claimable == {k \in Found(j.token) : Holds(k, j.frame) /\ Claimable(s(k))}
  IN  /\ pc[h] = "claim"
      /\ pc' = [pc EXCEPT ![h] = "run"]
      /\ \/ \E k \in claimable :
              /\ frames' = Put(k, j.frame, [s(k) EXCEPT !.owned = TRUE])
              /\ job' = [job EXCEPT ![h].active = TRUE, ![h].slot = k]
         \/ /\ claimable = {}
            /\ job' = [job EXCEPT ![h].error = TRUE]
            /\ UNCHANGED frames
      /\ UNCHANGED <<reg, nextToken, ownerVars, drops, snap, waiter, probing, gpu>>

\* stub_launch of k_import or of an inference kernel while a job is active, with
\* nr_route_job_launch.  The first import binds the work stream; a stream other
\* than the marker's is drained behind the marker first.
Launch(h, import, stream) ==
  LET j == job[h]
      accepted == ~j.sealed /\ CASE j.bound # None -> stream = j.bound
                                 [] j.bound = None -> import \/ stream = "marker"
      switches == j.bound = None /\ import /\ stream # "marker"
      routed == IF j.bound = None /\ import THEN [j EXCEPT !.bound = stream] ELSE j
      left == IF switches THEN gpu \ WorkOf(h, {"marker"}) ELSE gpu
  IN  /\ pc[h] = "run" /\ j.active /\ ~j.error
      /\ \/ /\ ~accepted \/ switches      \* refused, or the marker drain failed
            /\ FailJob(h, j) /\ UNCHANGED gpu
         \/ /\ accepted                   \* hipLaunchKernel failed
            /\ FailJob(h, routed) /\ gpu' = left
         \/ /\ accepted
            /\ job' = [job EXCEPT ![h] = routed]
            /\ gpu' = left \cup {KernelOf(h, stream)}
            /\ UNCHANGED <<frames, drops, waiter>>
      /\ UNCHANGED <<reg, nextToken, ownerVars, snap, pc, probing>>

\* stub_launch of k_flag_set, up to nr_seal_job: exact says that stream, flags
\* and frame are those of the job.  Without a job it fails the last one's frame.
SetFlag(h, exact) ==
  LET j == job[h]
  IN  /\ pc[h] = "run" /\ ~j.error
      /\ IF j.active /\ ~j.sealed /\ exact /\ Found(j.token) # {}
         THEN /\ job' = [job EXCEPT ![h].sealed = TRUE]
              /\ pc' = [pc EXCEPT ![h] = "marker"]
              /\ UNCHANGED <<frames, drops, waiter>>
         ELSE FailJob(h, j) /\ UNCHANGED pc
      /\ UNCHANGED <<reg, nextToken, ownerVars, snap, probing, gpu>>

\* nr_complete_job after a successful synchronisation.  A healthy job that is
\* not sealed goes on; any other ends, and only here its pins are dropped.
Complete(h) ==
  LET j == job[h]
      s == frames[j.slot][Pos(j.frame)]
      bad == j.error \/ s.error \/ Found(j.token) = {} \/ ~s.input \/ s.output \/ s.consumed
  IN  IF ~bad /\ ~j.sealed THEN UNCHANGED <<frames, drops, waiter, job>>
      ELSE /\ frames' = Put(j.slot, j.frame, [s EXCEPT !.error = @ \/ bad, !.output = @ \/ ~bad,
                                                       !.owned = FALSE, !.pins = {}])
           /\ drops' = Dropping(s.pins)
           /\ job' = [job EXCEPT ![h] = [j EXCEPT !.active = FALSE, !.slot = None, !.error = bad]]
           /\ waiter' = Broadcasted

FaultyJobStreams(j) == {"marker"}
JobStreams(j) == IF j.bound = "work" THEN {"marker", "work"} ELSE {"marker"}

\* The rest of the k_flag_set launch: drain the work stream, launch the marker,
\* synchronise it, complete.  Each of the three may fail.
FinishMarker(h) ==
  LET j == job[h]
      left == gpu \ WorkOf(h, JobStreams(j) \ {"marker"})
  IN  /\ pc[h] = "marker"
      /\ \/ j.bound = "work" /\ FailJob(h, j) /\ UNCHANGED gpu
         \/ FailJob(h, j) /\ gpu' = left
         \/ FailJob(h, j) /\ gpu' = left \cup {KernelOf(h, "marker")}
         \/ Complete(h) /\ gpu' = gpu \ WorkOf(h, JobStreams(j))
      /\ pc' = [pc EXCEPT ![h] = "run"]
      /\ UNCHANGED <<reg, nextToken, ownerVars, snap, probing>>

\* stub_streamsync: a failed or sealed job on two streams needs both of them.
StreamSync(h, stream) ==
  LET j == job[h]
      mine == j.active /\ (stream = "marker" \/ stream = j.bound)
      both == (j.error \/ j.sealed) /\ j.bound = "work"
  IN  /\ pc[h] = "run"
      /\ \/ /\ mine /\ FailJob(h, j) /\ UNCHANGED gpu
         \/ /\ mine /\ both /\ FailJob(h, j) /\ gpu' = gpu \ WorkOf(h, {stream})
         \/ /\ mine /\ Complete(h)
            /\ gpu' = gpu \ WorkOf(h, IF both THEN JobStreams(j) ELSE {stream})
         \/ /\ ~mine /\ gpu' = gpu \ WorkOf(h, {stream})
            /\ UNCHANGED <<frames, drops, waiter, job>>
      /\ UNCHANGED <<reg, nextToken, ownerVars, snap, pc, probing>>

\* stub_sync: hipDeviceSynchronize covers every stream of every thread.
DeviceSync(h) ==
  /\ pc[h] = "run"
  /\ \/ /\ job[h].active /\ FailJob(h, job[h]) /\ UNCHANGED gpu
     \/ /\ gpu' = {}
        /\ IF job[h].active THEN Complete(h) ELSE UNCHANGED <<frames, drops, waiter, job>>
  /\ UNCHANGED <<reg, nextToken, ownerVars, snap, pc, probing>>

\* The thread ends and with it its nr_job: the frame stays owned, its pins stay
\* in the process-wide list.
ThreadExit(h) ==
  /\ pc[h] = "run"
  /\ job' = [job EXCEPT ![h] = NoJob]
  /\ probing' = [probing EXCEPT ![h] = NoProbe]
  /\ UNCHANGED <<reg, frames, nextToken, ownerVars, drops, snap, waiter, pc, gpu>>

-----------------------------------------------------------------------------
\* The startup probes (nr_try_startup_probe): 1, 2, 3, in this order and on one
\* buffer, each synchronised before it returns.

\* The probe pins its buffer and is launched with the mutex released.
ProbeBegin(h, kind, k) ==
  LET p == probing[h]
  IN  /\ pc[h] = "run" /\ ~job[h].active /\ ~job[h].error
      /\ reg[k].active /\ reg[k].mapped /\ ~Busy(k)
      /\ kind = 1 \/ (p.phase = kind - 1 /\ p.token = reg[k].token)
      /\ Retainable(reg[k].owner)
      /\ reg' = [reg EXCEPT ![k].probe = TRUE]
      /\ refs' = Retaining({BufferOf(k)})
      /\ probing' = [probing EXCEPT ![h].kind = kind, ![h].slot = k]
      /\ pc' = [pc EXCEPT ![h] = "probe"]
      /\ UNCHANGED <<frames, nextToken, app, life, drops, snap, waiter, job, gpu>>

\* Launch and synchronisation have returned.  A failed synchronisation proves
\* nothing: the pin and the busy mark stay for good.
ProbeEnd(h, launched, synced) ==
  LET p == probing[h]
      k == p.slot
      next == IF launched /\ synced /\ p.kind # 3 THEN p.kind ELSE 0
      token == IF launched /\ synced THEN reg[k].token ELSE p.token
  IN  /\ pc[h] = "probe"
      /\ IF synced THEN /\ reg' = [reg EXCEPT ![k].probe = FALSE]
                        /\ drops' = Dropping({BufferOf(k)})
                   ELSE UNCHANGED <<reg, drops>>
      /\ probing' = [probing EXCEPT ![h] = [phase |-> next, token |-> token, kind |-> 0, slot |-> None]]
      /\ pc' = [pc EXCEPT ![h] = "run"]
      /\ UNCHANGED <<frames, nextToken, ownerVars, snap, waiter, job, gpu>>

-----------------------------------------------------------------------------
KnownTokens == 1 .. (nextToken - 1)
LaunchStreams == {"marker"} \cup WorkStreams

Lifetime == \/ \E o \in Owners : Register(o) \/ Release(o) \/ AppRelease(o) \/ Destroy(o)
            \/ \E k \in Slots : Map(k)

ClientStep(c) ==
  \/ Snapshot(c) \/ DropSnapshot(c) \/ ClientCheck(c) \/ ClientExpire(c)
  \/ \E q \in Queues : ClaimQueue(c, q)
  \/ \E t \in KnownTokens, f \in Frames : Publish(c, t, f) \/ WaitOutput(c, t, f)

AnyClient == \E t \in KnownTokens, f \in Frames : ClientFail(t, f) \/ ConsumerSubmitted(t, f)

HipStep(h) ==
  \/ HipCheck(h) \/ HipExpire(h) \/ Claim(h) \/ FinishMarker(h) \/ DeviceSync(h) \/ ThreadExit(h)
  \/ \E f \in Frames : BeginJob(h, f)
  \/ \E s \in LaunchStreams : StreamSync(h, s) \/ \E import \in BOOLEAN : Launch(h, import, s)
  \/ \E exact \in BOOLEAN : SetFlag(h, exact)
  \/ \E kind \in ProbeKinds, k \in Slots : ProbeBegin(h, kind, k)
  \/ \E launched, synced \in BOOLEAN : ProbeEnd(h, launched, synced)

Next == Lifetime \/ AnyClient \/ (\E c \in Clients : ClientStep(c)) \/ (\E h \in Hips : HipStep(h))

Spec == Init /\ [][Next]_vars

\* The threads in nr_wait_state are scheduled and their deadlines (2000 ms in
\* every caller) pass.  Nothing is assumed of the threads they wait for.
WaitFairness ==
  /\ \A c \in Clients : /\ WF_vars(waiter[c].st # "sleep" /\ ClientCheck(c))
                       /\ WF_vars(ClientExpire(c))
  /\ \A h \in Hips : /\ WF_vars(waiter[h].st # "sleep" /\ HipCheck(h))
                    /\ WF_vars(HipExpire(h)) /\ WF_vars(Claim(h))

FairSpec == Spec /\ WaitFairness

-----------------------------------------------------------------------------
\* Properties.

\* Every variable has its type; no release happens that was not owed.
TypeOK ==
  /\ reg \in [Slots -> Registration]
  /\ frames \in [Slots -> [Ring -> FrameState]]
  /\ nextToken \in 1 .. MaxToken + 1
  /\ refs \in [Owners -> Int]
  /\ app \in [Owners -> BOOLEAN]
  /\ drops \in [Owners -> Nat]
  /\ life \in [Owners -> {"live", "dying", "gone"}]
  /\ snap \in [Clients -> SUBSET Buffer]
  /\ waiter \in [Threads -> Waiting]
  /\ job \in [Hips -> Job]
  /\ pc \in [Hips -> {"run", "begin", "claim", "marker", "probe"}]
  /\ probing \in [Hips -> Probe]
  /\ gpu \in SUBSET Kernel

\* What the actions rely on besides the types: threads that wait or own a frame
\* know its registration and frame, and every registration in use has an owner.
HipFormed(h) ==
  /\ job[h].token # 0 => job[h].frame \in Frames
  /\ job[h].active => job[h].token # 0 /\ job[h].slot \in Slots
  /\ waiter[h].st # "no" => pc[h] = "begin"
  /\ pc[h] \in {"begin", "claim"} => job[h].token # 0 /\ ~job[h].active
  /\ pc[h] = "marker" => job[h].active
  /\ pc[h] = "probe" => probing[h].slot \in Slots /\ reg[probing[h].slot].token # 0

WellFormed ==
  /\ \A k \in Slots : reg[k].token # 0 \/ reg[k].active => reg[k].token # 0 /\ reg[k].owner \in Owners
  /\ \A t \in Threads : waiter[t].st # "no" => waiter[t].frame \in Frames
  /\ \A h \in Hips : HipFormed(h)

TypeInv == TypeOK /\ WellFormed

\* Every reference the owners count is accounted for: the application's, one
\* per buffer of a snapshot or bundle, one per probe, and those about to be
\* released.  A partial publish, a failed snapshot, a retirement and every
\* error path give back exactly what they took.
RefsConserved ==
  \A o \in Owners :
    LET snapped == UNION {{<<c, b>> : b \in {b \in snap[c] : b.owner = o}} : c \in Clients}
        pinned == UNION {{<<x, b>> : b \in {b \in frames[x[1]][x[2]].pins : b.owner = o}}
                           : x \in Slots \X Ring}
        probed == {k \in Slots : reg[k].probe /\ reg[k].owner = o}
    IN  refs[o] = drops[o] + Cardinality(snapped) + Cardinality(pinned) + Cardinality(probed)
                  + (IF app[o] THEN 1 ELSE 0)

\* The registry holds no reference of its own, yet no lookup under the mutex
\* (nr_snapshot, nr_publish_input, a probe) ever reaches a freed owner.
NoDanglingOwner ==
  /\ \A k \in Slots : reg[k].active \/ reg[k].probe => life[reg[k].owner] # "gone"
  /\ \A k \in Slots, i \in Ring : \A b \in frames[k][i].pins : life[b.owner] # "gone"
  /\ \A c \in Clients : \A b \in snap[c] : life[b.owner] # "gone"

\* The pointer nr_job.state stays valid while a job is active, through
\* retirement, failure, timeouts and re-registration: it is the state of the
\* job's own registration and frame, owned, and no other job's.
JobOwnsItsState ==
  \A h \in Hips : job[h].active =>
    LET j == job[h]
        s == frames[j.slot][Pos(j.frame)]
    IN  /\ j.slot \in Slots /\ reg[j.slot].token = j.token
        /\ s.frame = j.frame /\ s.owned /\ s.input /\ s.pins # {} /\ ~s.output /\ ~s.consumed
        /\ \A g \in Hips \ {h} :
             job[g].active => <<job[g].slot, Pos(job[g].frame)>> # <<j.slot, Pos(j.frame)>>

\* A published output, and so a submitted consumer, means that every kernel of
\* that frame was covered by a successful synchronisation, whichever of the two
\* streams it ran on and whatever failed before.
OutputMeansDrained ==
  \A k \in Slots, i \in Ring :
    LET s == frames[k][i]
    IN  /\ s.consumed => s.output
        /\ s.output /\ ~s.error =>
             ~\E g \in gpu : g.token = reg[k].token /\ g.frame = s.frame

\* While a kernel may still run, the buffers of its frame are pinned: "failed
\* sync proves nothing about outstanding accesses: quarantine".
PinsCoverGpuWork ==
  \A g \in gpu : \E k \in Slots :
    /\ reg[k].token = g.token
    /\ Holds(k, g.frame) /\ frames[k][Pos(g.frame)].pins # {}

\* No wakeup is lost: while a thread sleeps, what it waits for has not happened
\* (no readiness, no error, no retirement), whoever caused it.
NoLostWakeup ==
  \A t \in Threads : waiter[t].st = "sleep" => Pending(waiter[t])

\* Every wait ends, also when the partner died, the frame was recycled or the
\* resource retired: a Vulkan worker leaves wait_output and a HIP worker leaves
\* the launch of k_flag_wait.
WaitsEnd ==
  /\ \A c \in Clients : waiter[c].st # "no" ~> waiter[c].st = "no"
  /\ \A h \in Hips : pc[h] = "begin" ~> pc[h] = "run"

-----------------------------------------------------------------------------
\* The frame window implements FrameProtocol.
Stage(s) == CASE s.error /\ s.owned -> "failing"
              [] s.error /\ ~s.owned -> "failed"
              [] ~s.error /\ s.consumed -> "consumed"
              [] ~s.error /\ ~s.consumed /\ s.output -> "ready"
              [] ~s.error /\ ~s.consumed /\ ~s.output /\ s.owned -> "running"
              [] ~s.error /\ ~s.consumed /\ ~s.output /\ ~s.owned /\ s.input -> "published"
              [] OTHER -> "open"
Cells == [k \in Slots |-> [i \in Ring |->
            [frame |-> frames[k][i].frame, stage |-> Stage(frames[k][i]),
             pinned |-> frames[k][i].pins # {}]]]

Protocol == INSTANCE FrameProtocol WITH cell <- Cells

\* Every step of the registry moves its frames as the protocol allows: an input
\* is published once, taken by one job, answered once and consumed once; a late
\* signal does not turn a timeout into success; and pins are held exactly from
\* publication to settlement.
FrameProtocolProperty == Protocol!Spec

=============================================================================
