------------------------- MODULE NrRendezvousProofs -------------------------
(***************************************************************************)
(* Three proofs about the threads that meet at the registry, for every      *)
(* number of registrations, threads and frames: no wakeup is lost in        *)
(* nr_wait_state; a payload on the marker stream keeps the buffers of its   *)
(* kernels pinned and publishes no output before they are done; and the     *)
(* frame window implements FrameProtocol.                                   *)
(***************************************************************************)
EXTENDS NrOrderedProofs

-----------------------------------------------------------------------------
(* Wakeups. *)

\* Registrations are told apart by their tokens.
TokensUnique ==
  /\ \A k \in Slots : reg[k].token < nextToken
  /\ \A j, k \in Slots : reg[j].token # 0 /\ reg[j].token = reg[k].token => j = k

\* An output answers an input, only an output is consumed, and a frame is where
\* its number puts it.
Sound(s, i) == /\ s.output => s.input
               /\ s.consumed => s.output
               /\ s.frame # None => Pos(s.frame) = i
StatesSound == \A k \in Slots, i \in Ring : Sound(frames[k][i], i)

\* What a sleeping thread waits for is the open frame state k holds for it.
Awaited(k, w) ==
  LET s == frames[k][Pos(w.frame)]
  IN  /\ reg[k].active /\ reg[k].token = w.token
      /\ s.frame = w.frame /\ ~s.consumed /\ ~s.error /\ ~s.output /\ (w.output \/ ~s.input)

SleepersAwait ==
  \A t \in Threads : waiter[t].st = "sleep" => \E k \in Slots : Awaited(k, waiter[t])

WakeInv == TypeInv /\ TokensUnique /\ StatesSound /\ SleepersAwait

-----------------------------------------------------------------------------
\* How a step may treat the sleepers: wake them all, or leave them asleep and
\* what they wait for as it is.

Woken == \A t \in Threads : waiter'[t].st # "sleep"
StillAsleep == \A t \in Threads : waiter'[t].st = "sleep" => waiter'[t] = waiter[t]

Same(s, d) == /\ d.frame = s.frame /\ d.input = s.input /\ d.output = s.output
              /\ d.consumed = s.consumed /\ d.error = s.error
\* States that are still open keep their progress.
Gentle ==
  \A k \in Slots, i \in Ring :
    LET s == frames[k][i]
    IN  reg[k].active /\ s.frame # None /\ ~s.consumed /\ ~s.error /\ ~s.output
          => Same(s, frames'[k][i])
StillRegistered ==
  \A k \in Slots : reg[k].active => reg'[k].active /\ reg'[k].token = reg[k].token

LEMMA WokenAwait == Woken => SleepersAwait'
  BY DEF Woken, SleepersAwait

LEMMA AsleepAwait ==
  ASSUME WakeInv, StillAsleep, Gentle, StillRegistered
  PROVE  SleepersAwait'
<1> SUFFICES ASSUME NEW t \in Threads, waiter'[t].st = "sleep"
             PROVE  \E k \in Slots : Awaited(k, waiter[t])'
  BY DEF SleepersAwait
<1>1. waiter'[t] = waiter[t] BY DEF StillAsleep
<1>2. PICK k \in Slots : Awaited(k, waiter[t]) BY <1>1 DEF WakeInv, SleepersAwait
<1>3. waiter[t].frame \in Frames /\ waiter[t].frame # None
  BY <1>1, NoneAssumption DEF WakeInv, TypeInv, WellFormed
<1>4. Pos(waiter[t].frame) \in Ring BY <1>3, PosInRing
<1>5. Same(frames[k][Pos(waiter[t].frame)], frames'[k][Pos(waiter[t].frame)])
  BY <1>2, <1>3, <1>4 DEF Gentle, Awaited
<1>6. Awaited(k, waiter[t])'
  BY <1>1, <1>2, <1>5 DEF Awaited, Same, StillRegistered, Pos
<1> QED BY <1>6

LEMMA BroadcastWakes ==
  ASSUME TypeInv, waiter' = Broadcasted
  PROVE  Woken
  BY DEF TypeInv, TypeOK, Broadcasted, Waiting, Woken

LEMMA SameWaiters == UNCHANGED waiter => StillAsleep
  BY DEF StillAsleep

LEMMA SameFrames == ASSUME UNCHANGED frames PROVE Gentle /\ (StatesSound => StatesSound')
  BY DEF Gentle, Same, StatesSound, Sound

LEMMA PutSound ==
  ASSUME TypeInv, StatesSound, NEW k \in Slots, NEW f \in Frames, NEW s, Sound(s, Pos(f)),
         frames' = Put(k, f, s)
  PROVE  StatesSound'
<1>1. \A j \in Slots, i \in Ring : frames'[j][i] = IF j = k /\ i = Pos(f) THEN s ELSE frames[j][i]
  BY PutAt
<1> QED BY <1>1 DEF StatesSound, Sound

LEMMA ObtainedSound ==
  ASSUME TypeInv, StatesSound, NEW k \in Slots, NEW f \in Frames
  PROVE  Sound(Obtained(k, f), Pos(f)) /\ Sound(Failed(Obtained(k, f)), Pos(f))
<1>1. Sound(Obtained(k, f), Pos(f))
  BY PosInRing DEF StatesSound, Sound, Obtained, FreshFrame
<1>2. Obtained(k, f) \in FrameState
  BY ObtainedType DEF TypeInv, TypeOK
<1>3. ASSUME NEW s \in FrameState, Sound(s, Pos(f)) PROVE Sound(Failed(s), Pos(f))
  BY <1>3 DEF Sound, Failed, FrameState
<1> QED BY <1>1, <1>2, <1>3

\* nr_frame recycles no open state.
LEMMA PutGentle ==
  ASSUME TypeInv, NEW k \in Slots, NEW f \in Frames, Obtainable(k, f), NEW s,
         Same(Obtained(k, f), s), frames' = Put(k, f, s)
  PROVE  Gentle
<1>1. \A j \in Slots, i \in Ring : frames'[j][i] = IF j = k /\ i = Pos(f) THEN s ELSE frames[j][i]
  BY PutAt
<1>2. ASSUME LET s0 == frames[k][Pos(f)]
             IN  s0.frame # None /\ ~s0.consumed /\ ~s0.error
      PROVE  Same(frames[k][Pos(f)], s)
  BY <1>2 DEF Obtainable, Obtained, Recyclable, Same
<1> QED BY <1>1, <1>2 DEF Gentle, Same

-----------------------------------------------------------------------------
\* The calls that change a frame.

LEMMA FailFrameWake ==
  ASSUME WakeInv, NEW t, NEW f \in Frames, FailFrame(t, f)
  PROVE  StatesSound' /\ Woken
<1>1. Woken BY FailFrameType, BroadcastWakes DEF WakeInv
<1>2. CASE \E k \in Found(t) : Obtainable(k, f)
  <2>1. PICK k \in Found(t) : frames' = Put(k, f, Failed(Obtained(k, f)))
    BY <1>2 DEF FailFrame
  <2>2. k \in Slots BY DEF Found
  <2> QED BY <1>1, <2>1, <2>2, ObtainedSound, PutSound DEF WakeInv
<1>3. CASE UNCHANGED frames BY <1>1, <1>3, SameFrames DEF WakeInv
<1> QED BY <1>2, <1>3 DEF FailFrame

LEMMA FailJobWake ==
  ASSUME WakeInv, NEW h \in Hips, NEW j, j.token # 0 => j.frame \in Frames, FailJob(h, j),
         UNCHANGED reg
  PROVE  StatesSound' /\ SleepersAwait'
<1>1. CASE j.token # 0
  BY <1>1, FailFrameWake, WokenAwait DEF FailJob
<1>2. CASE j.token = 0
  <2>1. UNCHANGED <<frames, waiter>> BY <1>2 DEF FailJob
  <2>2. StillRegistered BY DEF StillRegistered
  <2> QED BY <2>1, <2>2, SameFrames, SameWaiters, AsleepAwait DEF WakeInv
<1> QED BY <1>1, <1>2

\* A turn of the loop of thread t: if it goes to sleep, what it waits for is open.
LEMMA CheckWake ==
  ASSUME WakeInv, NEW t \in Threads, Check(t), UNCHANGED reg
  PROVE  StatesSound' /\ SleepersAwait'
<1> DEFINE w == waiter[t]
<1>1. w.frame \in Frames /\ w \in Waiting /\ Pos(w.frame) \in Ring
  BY PosInRing DEF Check, WakeInv, TypeInv, TypeOK, WellFormed
<1>2. /\ \A u \in Threads \ {t} : waiter'[u] = waiter[u]
      /\ waiter'[t] = IF Pending(w) THEN [w EXCEPT !.st = "sleep"] ELSE NotWaiting
  BY DEF Check, WakeInv, TypeInv, TypeOK
<1>3. StillRegistered BY DEF StillRegistered
<1>4. Gentle /\ StatesSound'
  <2>1. ASSUME NEW k \in Found(w.token), Obtainable(k, w.frame),
               frames' = Put(k, w.frame, Obtained(k, w.frame))
        PROVE  Gentle /\ StatesSound'
    <3>1. k \in Slots BY DEF Found
    <3>2. Same(Obtained(k, w.frame), Obtained(k, w.frame)) BY DEF Same
    <3> QED BY <1>1, <2>1, <3>1, <3>2, PutGentle, PutSound, ObtainedSound DEF WakeInv
  <2> QED BY <2>1, SameFrames DEF Check, WakeInv
<1>5. ASSUME Pending(w) PROVE \E k \in Slots : Awaited(k, waiter[t])'
  <2>1. PICK k \in Found(w.token) : Obtainable(k, w.frame) /\ ~Obtained(k, w.frame).consumed
                                    /\ ~Obtained(k, w.frame).error
    BY <1>5 DEF Pending, Live
  <2>2. k \in Slots /\ reg[k].active /\ reg[k].token = w.token BY DEF Found
  <2>3. \A j \in Found(w.token) : j = k BY <2>2 DEF Found, WakeInv, TokensUnique, TypeInv, WellFormed
  <2>4. frames' = Put(k, w.frame, Obtained(k, w.frame))
    BY <2>1, <2>3 DEF Check
  <2>5. frames'[k][Pos(w.frame)] = Obtained(k, w.frame)
    BY <1>1, <2>2, <2>4, PutAt DEF WakeInv
  <2>6. Obtained(k, w.frame).frame = w.frame /\ Sound(Obtained(k, w.frame), Pos(w.frame))
    BY <1>1, <2>2, ObtainedType, ObtainedSound DEF WakeInv, TypeInv, TypeOK
  <2>7. IF w.output THEN ~Obtained(k, w.frame).output ELSE ~Obtained(k, w.frame).input
    BY <1>5, <2>1 DEF Pending, Ready
  <2>8. waiter'[t].token = w.token /\ waiter'[t].frame = w.frame /\ waiter'[t].output = w.output
    BY <1>1, <1>2, <1>5 DEF Waiting
  <2>9. ~Obtained(k, w.frame).output /\ (w.output \/ ~Obtained(k, w.frame).input)
    BY <1>1, <2>6, <2>7 DEF Sound
  <2>10. Awaited(k, waiter[t])'
    BY <2>1, <2>2, <2>5, <2>6, <2>8, <2>9 DEF Awaited, Pos
  <2> QED BY <2>2, <2>10
<1>6. ASSUME NEW u \in Threads, waiter'[u].st = "sleep"
      PROVE  \E k \in Slots : Awaited(k, waiter[u])'
  <2>1. CASE u = t
    <3>1. NotWaiting.st # "sleep" BY DEF NotWaiting
    <3>2. Pending(w) BY <1>2, <1>6, <2>1, <3>1
    <3> QED BY <1>5, <2>1, <3>2
  <2>2. CASE u # t
    <3>1. waiter'[u] = waiter[u] BY <1>2, <2>2
    <3>2. PICK k \in Slots : Awaited(k, waiter[u]) BY <1>6, <3>1 DEF WakeInv, SleepersAwait
    <3>3. waiter[u].frame # None /\ Pos(waiter[u].frame) \in Ring
      BY <1>6, <3>1, NoneAssumption, PosInRing DEF WakeInv, TypeInv, WellFormed
    <3>4. Same(frames[k][Pos(waiter[u].frame)], frames'[k][Pos(waiter[u].frame)])
      BY <1>4, <3>2, <3>3 DEF Gentle, Awaited
    <3>5. Awaited(k, waiter[u])' BY <1>3, <3>1, <3>2, <3>4 DEF Awaited, Same, StillRegistered, Pos
    <3> QED BY <3>5
  <2> QED BY <2>1, <2>2
<1> QED BY <1>4, <1>6 DEF SleepersAwait

LEMMA ExpireWake ==
  ASSUME WakeInv, NEW t \in Threads, Expire(t)
  PROVE  StatesSound' /\ SleepersAwait'
<1> DEFINE w == waiter[t]
<1>1. w.frame \in Frames /\ Pos(w.frame) \in Ring
  BY PosInRing DEF Expire, WakeInv, TypeInv, WellFormed
<1>2. Woken
  <2>1. waiter' = [Broadcasted EXCEPT ![t] = NotWaiting] BY DEF Expire
  <2>2. \A u \in Threads : waiter'[u] = NotWaiting \/ waiter'[u] = Broadcasted[u]
    BY <2>1 DEF Broadcasted
  <2>3. NotWaiting.st # "sleep" /\ \A u \in Threads : Broadcasted[u].st # "sleep"
    BY DEF NotWaiting, WakeInv, TypeInv, TypeOK, Broadcasted, Waiting
  <2> QED BY <2>2, <2>3 DEF Woken
<1>3. StatesSound'
  <2>1. ASSUME NEW k \in Found(w.token), frames' = Put(k, w.frame, Failed(frames[k][Pos(w.frame)]))
        PROVE  StatesSound'
    <3>1. k \in Slots BY DEF Found
    <3>2. Sound(frames[k][Pos(w.frame)], Pos(w.frame)) BY <1>1, <3>1 DEF WakeInv, StatesSound
    <3>3. Sound(Failed(frames[k][Pos(w.frame)]), Pos(w.frame))
      BY <1>1, <3>1, <3>2 DEF Sound, Failed, FrameState, WakeInv, TypeInv, TypeOK
    <3> QED BY <1>1, <2>1, <3>1, <3>3, PutSound DEF WakeInv
  <2> QED BY <2>1, SameFrames DEF Expire, WakeInv
<1> QED BY <1>2, <1>3, WokenAwait

LEMMA PublishWake ==
  ASSUME WakeInv, NEW c, NEW t, NEW f \in Frames, Publish(c, t, f)
  PROVE  StatesSound' /\ SleepersAwait'
<1>1. PICK k \in Found(t) : Obtainable(k, f) /\
        LET s == Obtained(k, f)
        IN  \/ /\ frames' = Put(k, f, [s EXCEPT !.pins = snap[c], !.input = TRUE])
               /\ waiter' = Broadcasted
            \/ frames' = Put(k, f, s) /\ UNCHANGED waiter
  BY DEF Publish
<1> DEFINE s == Obtained(k, f)
<1>2. k \in Slots /\ UNCHANGED reg BY DEF Found, Publish
<1>3. s \in FrameState /\ Sound(s, Pos(f)) BY <1>2, ObtainedType, ObtainedSound DEF WakeInv, TypeInv, TypeOK
<1>4. CASE /\ frames' = Put(k, f, [s EXCEPT !.pins = snap[c], !.input = TRUE])
           /\ waiter' = Broadcasted
  <2>1. Sound([s EXCEPT !.pins = snap[c], !.input = TRUE], Pos(f)) BY <1>3 DEF FrameState, Sound
  <2> QED BY <1>2, <1>4, <2>1, PutSound, BroadcastWakes, WokenAwait DEF WakeInv
<1>5. CASE frames' = Put(k, f, s) /\ UNCHANGED waiter
  <2>1. Same(s, s) BY DEF Same
  <2>2. Gentle /\ StillAsleep /\ StillRegistered
    BY <1>1, <1>2, <1>5, <2>1, PutGentle, SameWaiters DEF WakeInv, StillRegistered
  <2> QED BY <1>2, <1>3, <1>5, <2>2, PutSound, AsleepAwait DEF WakeInv
<1> QED BY <1>1, <1>4, <1>5

\* Completing a job gives an output only where there was an input.
LEMMA CompleteWake ==
  ASSUME WakeInv, NEW h \in Hips, job[h].active, Complete(h), UNCHANGED reg
  PROVE  StatesSound' /\ SleepersAwait'
<1> DEFINE j == job[h]
           s == frames[j.slot][Pos(j.frame)]
           bad == j.error \/ s.error \/ Found(j.token) = {} \/ ~s.input \/ s.output \/ s.consumed
           d == [s EXCEPT !.error = @ \/ bad, !.output = @ \/ ~bad, !.owned = FALSE, !.pins = {}]
<1>1. j.slot \in Slots /\ j.frame \in Frames
  BY DEF WakeInv, TypeInv, WellFormed, HipFormed
<1>2. CASE UNCHANGED <<frames, waiter>>
  <2>1. StillRegistered BY DEF StillRegistered
  <2> QED BY <1>2, <2>1, SameFrames, SameWaiters, AsleepAwait DEF WakeInv
<1>3. CASE frames' = Put(j.slot, j.frame, d) /\ waiter' = Broadcasted
  <2>1. s \in FrameState /\ Sound(s, Pos(j.frame))
    BY <1>1, PosInRing DEF WakeInv, TypeInv, TypeOK, StatesSound
  <2>2. /\ d.input = s.input /\ d.consumed = s.consumed /\ d.frame = s.frame
        /\ (d.output => s.output \/ ~bad) /\ (s.output => d.output)
    BY <2>1 DEF FrameState
  <2>3. Sound(d, Pos(j.frame)) BY <2>1, <2>2 DEF Sound
  <2> HIDE DEF d
  <2> QED BY <1>1, <1>3, <2>3, PutSound, BroadcastWakes, WokenAwait DEF WakeInv
<1> QED BY <1>2, <1>3 DEF Complete

-----------------------------------------------------------------------------
\* The steps.

\* A step that leaves frames, waiters and what is registered alone.
LEMMA QuietWake ==
  ASSUME WakeInv, UNCHANGED frames, StillAsleep, StillRegistered
  PROVE  StatesSound' /\ SleepersAwait'
  BY SameFrames, AsleepAwait DEF WakeInv

LEMMA LifetimeWake ==
  ASSUME WakeInv, Lifetime
  PROVE  TokensUnique' /\ StatesSound' /\ SleepersAwait'
<1> USE DEF WakeInv, TypeInv, TypeOK
<1>1. ASSUME NEW o \in Owners, Register(o)
      PROVE  TokensUnique' /\ StatesSound' /\ SleepersAwait'
  <2> DEFINE r == [NoRegistration EXCEPT !.active = TRUE, !.token = nextToken, !.owner = o]
  <2>1. PICK k \in Slots : /\ ~reg[k].active /\ reg' = [reg EXCEPT ![k] = r]
                           /\ frames' = [frames EXCEPT ![k] = [i \in Ring |-> FreshFrame(None)]]
    BY <1>1 DEF Register
  <2>2. nextToken' = nextToken + 1 /\ nextToken \in Nat /\ UNCHANGED waiter
    BY <1>1, SizesAssumption DEF Register
  <2>3. r.token = nextToken BY DEF NoRegistration
  <2>4. \A j \in Slots : reg[j].token \in Nat /\ reg[j].token < nextToken
    BY SizesAssumption DEF Registration, Tokens, TokensUnique
  <2>5. TokensUnique' BY <2>1, <2>2, <2>3, <2>4 DEF TokensUnique
  <2>6. Gentle /\ StillAsleep /\ StillRegistered
    BY <2>1, <2>2 DEF Gentle, Same, StillAsleep, StillRegistered
  <2>7. StatesSound' BY <2>1 DEF StatesSound, Sound, FreshFrame
  <2> QED BY <2>5, <2>6, <2>7, AsleepAwait
<1>2. ASSUME NEW o \in Owners, Destroy(o)
      PROVE  TokensUnique' /\ StatesSound' /\ SleepersAwait'
  <2> DEFINE Hit(k) == reg[k].active /\ VaOf[reg[k].owner] = VaOf[o]
  <2>1. /\ reg' = [k \in Slots |-> IF Hit(k) THEN [reg[k] EXCEPT !.active = FALSE] ELSE reg[k]]
        /\ frames' = [k \in Slots |-> IF Hit(k) THEN [i \in Ring |-> Failed(frames[k][i])] ELSE frames[k]]
        /\ waiter' = Broadcasted /\ nextToken' = nextToken
    BY <1>2 DEF Destroy, Retire
  <2>2. \A k \in Slots : reg'[k].token = reg[k].token /\ (reg'[k].active => reg[k].active)
    BY <2>1 DEF Registration
  <2>3. TokensUnique' BY <2>1, <2>2 DEF TokensUnique
  <2>4. \A s \in FrameState : \A i : Sound(s, i) => Sound(Failed(s), i)
    BY DEF Sound, Failed, FrameState
  <2>5. StatesSound' BY <2>1, <2>4 DEF StatesSound
  <2> QED BY <2>1, <2>3, <2>5, BroadcastWakes, WokenAwait
<1>3. ASSUME NEW o \in Owners, Release(o) \/ AppRelease(o)
      PROVE  TokensUnique' /\ StatesSound' /\ SleepersAwait'
  <2>1. UNCHANGED <<reg, frames, nextToken, waiter>> BY <1>3 DEF Release, AppRelease
  <2> QED BY <2>1, SameWaiters, QuietWake DEF StillRegistered, TokensUnique
<1>4. ASSUME NEW k \in Slots, Map(k)
      PROVE  TokensUnique' /\ StatesSound' /\ SleepersAwait'
  <2>1. UNCHANGED <<frames, nextToken, waiter>> BY <1>4 DEF Map
  <2>2. \A j \in Slots : reg'[j].token = reg[j].token /\ reg'[j].active = reg[j].active
    BY <1>4 DEF Map, Registration
  <2> QED BY <2>1, <2>2, SameWaiters, QuietWake DEF StillRegistered, TokensUnique
<1> QED BY <1>1, <1>2, <1>3, <1>4 DEF Lifetime

\* No step of a client or HIP thread changes a token or ends a registration.
RegistrationsKept ==
  /\ \A k \in Slots : reg'[k].token = reg[k].token /\ reg'[k].active = reg[k].active
  /\ nextToken' = nextToken

LEMMA KeptUnique == ASSUME TokensUnique, RegistrationsKept PROVE TokensUnique' /\ StillRegistered
  BY DEF TokensUnique, RegistrationsKept, StillRegistered

LEMMA ClientWake ==
  ASSUME WakeInv, AnyClient \/ \E c \in Clients : ClientStep(c)
  PROVE  RegistrationsKept /\ StatesSound' /\ SleepersAwait'
<1>1. ASSUME NEW t \in KnownTokens, NEW f \in Frames, ClientFail(t, f)
      PROVE  RegistrationsKept /\ StatesSound' /\ SleepersAwait'
  BY <1>1, FailFrameWake, WokenAwait DEF ClientFail, RegistrationsKept
<1>2. ASSUME NEW t \in KnownTokens, NEW f \in Frames, ConsumerSubmitted(t, f)
      PROVE  RegistrationsKept /\ StatesSound' /\ SleepersAwait'
  <2>1. PICK k \in Found(t) :
          /\ frames[k][Pos(f)].output
          /\ frames' = Put(k, f, [frames[k][Pos(f)] EXCEPT !.consumed = TRUE])
    BY <1>2 DEF ConsumerSubmitted
  <2>2. k \in Slots /\ frames[k][Pos(f)] \in FrameState /\ Sound(frames[k][Pos(f)], Pos(f))
    BY PosInRing DEF Found, WakeInv, TypeInv, TypeOK, StatesSound
  <2>3. Sound([frames[k][Pos(f)] EXCEPT !.consumed = TRUE], Pos(f)) BY <2>1, <2>2 DEF Sound, FrameState
  <2>4. \A j \in Slots, i \in Ring : frames[j][i].output \/ frames'[j][i] = frames[j][i]
    BY <2>1, <2>2, PutAt DEF WakeInv
  <2>5. Gentle BY <2>4 DEF Gentle, Same
  <2>6. UNCHANGED <<reg, nextToken, waiter>> BY <1>2 DEF ConsumerSubmitted
  <2> QED BY <2>1, <2>2, <2>3, <2>5, <2>6, PutSound, SameWaiters, AsleepAwait
          DEF WakeInv, RegistrationsKept, StillRegistered
<1>3. ASSUME NEW c \in Clients, NEW t \in KnownTokens, NEW f \in Frames, Publish(c, t, f)
      PROVE  RegistrationsKept /\ StatesSound' /\ SleepersAwait'
  BY <1>3, PublishWake DEF Publish, RegistrationsKept
<1>4. ASSUME NEW c \in Clients, NEW t \in KnownTokens, NEW f \in Frames, WaitOutput(c, t, f)
      PROVE  RegistrationsKept /\ StatesSound' /\ SleepersAwait'
  <2>1. UNCHANGED <<reg, frames, nextToken>> BY <1>4 DEF WaitOutput
  <2>2. StillAsleep
    BY <1>4 DEF WaitOutput, Enter, StillAsleep, WakeInv, TypeInv, TypeOK
  <2> QED BY <2>1, <2>2, QuietWake DEF RegistrationsKept, StillRegistered
<1>5. ASSUME NEW c \in Clients, ClientCheck(c)
      PROVE  RegistrationsKept /\ StatesSound' /\ SleepersAwait'
  BY <1>5, CheckWake DEF ClientCheck, Threads, RegistrationsKept
<1>6. ASSUME NEW c \in Clients, ClientExpire(c)
      PROVE  RegistrationsKept /\ StatesSound' /\ SleepersAwait'
  BY <1>6, ExpireWake DEF ClientExpire, Threads, RegistrationsKept
<1>7. ASSUME NEW c \in Clients, Snapshot(c) \/ DropSnapshot(c)
      PROVE  RegistrationsKept /\ StatesSound' /\ SleepersAwait'
  <2>1. UNCHANGED <<reg, frames, nextToken, waiter>> BY <1>7 DEF Snapshot, DropSnapshot
  <2> QED BY <2>1, SameWaiters, QuietWake DEF RegistrationsKept, StillRegistered
<1>8. ASSUME NEW c \in Clients, NEW q \in Queues, ClaimQueue(c, q)
      PROVE  RegistrationsKept /\ StatesSound' /\ SleepersAwait'
  <2>1. UNCHANGED <<frames, nextToken, waiter>> BY <1>8 DEF ClaimQueue
  <2>2. \A k \in Slots : reg'[k].token = reg[k].token /\ reg'[k].active = reg[k].active
    BY <1>8 DEF ClaimQueue, WakeInv, TypeInv, TypeOK, Registration
  <2> QED BY <2>1, <2>2, SameWaiters, QuietWake DEF RegistrationsKept, StillRegistered
<1> QED BY <1>1, <1>2, <1>3, <1>4, <1>5, <1>6, <1>7, <1>8 DEF AnyClient, ClientStep

LEMMA HipWake ==
  ASSUME WakeInv, NEW h \in Hips, HipStep(h)
  PROVE  RegistrationsKept /\ StatesSound' /\ SleepersAwait'
<1> DEFINE Goal == RegistrationsKept /\ StatesSound' /\ SleepersAwait'
<1>1. /\ job[h] \in Job /\ HipFormed(h) /\ h \in Threads
      /\ job[h].token # 0 => job[h].frame \in Frames
  BY DEF WakeInv, TypeInv, TypeOK, WellFormed, HipFormed, Threads
\* Steps that only touch the job, its thread and the GPU.
<1>2. ASSUME UNCHANGED <<reg, frames, nextToken, waiter>> PROVE Goal
  BY <1>2, SameWaiters, QuietWake DEF RegistrationsKept, StillRegistered
\* Steps that fail or complete the job.
<1>3. ASSUME NEW j, j.token = job[h].token, j.frame = job[h].frame, FailJob(h, j),
             UNCHANGED <<reg, nextToken>>
      PROVE  Goal
  BY <1>1, <1>3, FailJobWake DEF RegistrationsKept
<1>4. ASSUME job[h].active, Complete(h), UNCHANGED <<reg, nextToken>> PROVE Goal
  BY <1>4, CompleteWake DEF RegistrationsKept
<1>5. CASE HipCheck(h) BY <1>1, <1>5, CheckWake DEF HipCheck, RegistrationsKept
<1>6. CASE HipExpire(h) BY <1>1, <1>6, ExpireWake DEF HipExpire, RegistrationsKept
<1>7. CASE Claim(h)
  <2> DEFINE j == job[h]
  <2>1. UNCHANGED <<reg, nextToken, waiter>> BY <1>7 DEF Claim
  <2>2. j.frame \in Frames BY <1>1, <1>7 DEF Claim, HipFormed
  <2>3. ASSUME NEW k \in Found(j.token), Holds(k, j.frame),
               frames' = Put(k, j.frame, [frames[k][Pos(j.frame)] EXCEPT !.owned = TRUE])
        PROVE  Goal
    <3>1. k \in Slots /\ Obtainable(k, j.frame) /\ Obtained(k, j.frame) = frames[k][Pos(j.frame)]
      BY <2>3 DEF Found, Obtainable, Obtained
    <3>2. Obtained(k, j.frame) \in FrameState /\ Sound(Obtained(k, j.frame), Pos(j.frame))
      BY <2>2, <3>1, ObtainedType, ObtainedSound DEF WakeInv, TypeInv, TypeOK
    <3> DEFINE d == [Obtained(k, j.frame) EXCEPT !.owned = TRUE]
    <3>3. Sound(d, Pos(j.frame)) /\ Same(Obtained(k, j.frame), d) BY <3>2 DEF Sound, Same, FrameState
    <3>4. frames' = Put(k, j.frame, d) BY <2>3, <3>1
    <3> HIDE DEF d
    <3>5. Gentle /\ StatesSound'
      BY <2>2, <3>1, <3>3, <3>4, PutGentle, PutSound DEF WakeInv
    <3> QED BY <2>1, <3>5, SameWaiters, AsleepAwait DEF RegistrationsKept, StillRegistered
  <2> QED BY <1>2, <1>7, <2>1, <2>3 DEF Claim
<1>8. CASE FinishMarker(h)
  <2>1. job[h].active BY <1>1, <1>8 DEF FinishMarker, HipFormed
  <2>2. UNCHANGED <<reg, nextToken>> /\ (FailJob(h, job[h]) \/ Complete(h)) BY <1>8 DEF FinishMarker
  <2> QED BY <1>3, <1>4, <2>1, <2>2
<1>9. CASE DeviceSync(h)
  <2>1. /\ UNCHANGED <<reg, nextToken>>
        /\ \/ FailJob(h, job[h])
           \/ job[h].active /\ Complete(h)
           \/ UNCHANGED <<frames, waiter>>
    BY <1>9 DEF DeviceSync
  <2> QED BY <1>2, <1>3, <1>4, <2>1
<1>10. CASE ThreadExit(h) BY <1>2, <1>10 DEF ThreadExit
<1>11. ASSUME NEW f \in Frames, BeginJob(h, f) PROVE Goal
  <2>1. UNCHANGED <<reg, nextToken>> BY <1>11 DEF BeginJob
  <2>2. CASE FailJob(h, job[h]) BY <1>3, <2>1, <2>2
  <2>3. CASE UNCHANGED <<frames, waiter>> BY <1>2, <2>1, <2>3
  <2>4. ASSUME NEW t, Enter(h, t, f, FALSE), UNCHANGED frames PROVE Goal
    <3>1. StillAsleep BY <1>1, <2>4 DEF Enter, StillAsleep, WakeInv, TypeInv, TypeOK
    <3> QED BY <2>1, <2>4, <3>1, QuietWake DEF RegistrationsKept, StillRegistered
  <2> QED BY <1>11, <2>2, <2>3, <2>4 DEF BeginJob
<1>12. ASSUME NEW s \in LaunchStreams, StreamSync(h, s) PROVE Goal
  <2>1. /\ UNCHANGED <<reg, nextToken>>
        /\ \/ FailJob(h, job[h])
           \/ job[h].active /\ Complete(h)
           \/ UNCHANGED <<frames, waiter>>
    BY <1>12 DEF StreamSync
  <2> QED BY <1>2, <1>3, <1>4, <2>1
<1>13. ASSUME NEW import \in BOOLEAN, NEW s \in LaunchStreams, Launch(h, import, s) PROVE Goal
  <2> DEFINE j == job[h]
             routed == IF j.bound = None /\ import THEN [j EXCEPT !.bound = s] ELSE j
  <2>1. routed.token = j.token /\ routed.frame = j.frame BY <1>1 DEF Job
  <2>2. /\ UNCHANGED <<reg, nextToken>>
        /\ FailJob(h, j) \/ FailJob(h, routed) \/ UNCHANGED <<frames, waiter>>
    BY <1>13 DEF Launch
  <2> HIDE DEF routed
  <2> QED BY <1>2, <1>3, <2>1, <2>2
<1>14. ASSUME NEW exact \in BOOLEAN, SetFlag(h, exact) PROVE Goal
  <2>1. UNCHANGED <<reg, nextToken>> /\ (FailJob(h, job[h]) \/ UNCHANGED <<frames, waiter>>)
    BY <1>14 DEF SetFlag
  <2> QED BY <1>2, <1>3, <2>1
<1>15. ASSUME NEW kind \in ProbeKinds, NEW k \in Slots, ProbeBegin(h, kind, k) PROVE Goal
  <2>1. UNCHANGED <<frames, nextToken, waiter>> BY <1>15 DEF ProbeBegin
  <2>2. \A i \in Slots : reg'[i].token = reg[i].token /\ reg'[i].active = reg[i].active
    BY <1>15 DEF ProbeBegin, WakeInv, TypeInv, TypeOK, Registration
  <2> QED BY <2>1, <2>2, SameWaiters, QuietWake DEF RegistrationsKept, StillRegistered
<1>16. ASSUME NEW launched \in BOOLEAN, NEW synced \in BOOLEAN, ProbeEnd(h, launched, synced) PROVE Goal
  <2>1. UNCHANGED <<frames, nextToken, waiter>> BY <1>16 DEF ProbeEnd
  <2>2. UNCHANGED reg \/ reg' = [reg EXCEPT ![probing[h].slot].probe = FALSE]
    BY <1>16 DEF ProbeEnd
  <2>3. \A i \in Slots : reg'[i].token = reg[i].token /\ reg'[i].active = reg[i].active
    <3>1. CASE UNCHANGED reg BY <3>1
    <3>2. CASE reg' = [reg EXCEPT ![probing[h].slot].probe = FALSE]
      <4>1. \A i \in Slots : reg'[i] = reg[i] \/ reg'[i] = [reg[i] EXCEPT !.probe = FALSE]
        BY <3>2 DEF WakeInv, TypeInv, TypeOK
      <4>2. \A r \in Registration : /\ [r EXCEPT !.probe = FALSE].token = r.token
                                    /\ [r EXCEPT !.probe = FALSE].active = r.active
        BY DEF Registration
      <4> QED BY <4>1, <4>2 DEF WakeInv, TypeInv, TypeOK
    <3> QED BY <2>2, <3>1, <3>2
  <2> QED BY <2>1, <2>3, SameWaiters, QuietWake DEF RegistrationsKept, StillRegistered
<1> QED BY <1>5, <1>6, <1>7, <1>8, <1>9, <1>10, <1>11, <1>12, <1>13, <1>14, <1>15, <1>16 DEF HipStep

-----------------------------------------------------------------------------
LEMMA WakeInit == Init => WakeInv
<1> SUFFICES ASSUME Init PROVE WakeInv
  OBVIOUS
<1>1. TokensUnique BY DEF Init, NoRegistration, TokensUnique
<1>2. StatesSound BY DEF Init, FreshFrame, StatesSound, Sound
<1>3. SleepersAwait BY DEF Init, NotWaiting, SleepersAwait
<1> QED BY <1>1, <1>2, <1>3, InitType DEF WakeInv

LEMMA WakeStep == WakeInv /\ [Next]_vars => WakeInv'
<1> SUFFICES ASSUME WakeInv, [Next]_vars PROVE WakeInv'
  OBVIOUS
<1>1. TypeInv' BY TypeStep DEF WakeInv
<1>2. CASE UNCHANGED vars
  <2>1. UNCHANGED <<reg, frames, nextToken, waiter>> BY <1>2 DEF vars
  <2> QED BY <1>1, <2>1, SameWaiters, QuietWake, KeptUnique DEF RegistrationsKept, StillRegistered, WakeInv
<1>3. CASE Next
  <2>1. TokensUnique' /\ StatesSound' /\ SleepersAwait'
    BY <1>3, LifetimeWake, ClientWake, HipWake, KeptUnique DEF Next, WakeInv
  <2> QED BY <1>1, <2>1 DEF WakeInv
<1> QED BY <1>2, <1>3

\* No wakeup is lost, for any number of registrations, frames and threads: whatever
\* ends what a thread waits for broadcasts, and whatever does not broadcast leaves
\* it pending; in particular no frame that is waited for is recycled.
THEOREM NoWakeupIsLost == Spec => []NoLostWakeup
<1>1. WakeInv => NoLostWakeup
  <2> SUFFICES ASSUME WakeInv, NEW t \in Threads, waiter[t].st = "sleep"
               PROVE  Pending(waiter[t])
    BY DEF NoLostWakeup
  <2> DEFINE w == waiter[t]
  <2>1. PICK k \in Slots : Awaited(k, w) BY DEF WakeInv, SleepersAwait
  <2>2. k \in Found(w.token) /\ \A j \in Found(w.token) : j = k
    BY <2>1 DEF Awaited, Found, WakeInv, TokensUnique, TypeInv, WellFormed
  <2>3. Obtainable(k, w.frame) /\ Obtained(k, w.frame) = frames[k][Pos(w.frame)]
    BY <2>1 DEF Awaited, Obtainable, Obtained, Holds
  <2>4. Live(w) BY <2>1, <2>2, <2>3 DEF Awaited, Live
  <2>5. ~Ready(w) BY <2>1, <2>2, <2>3 DEF Awaited, Ready
  <2> QED BY <2>4, <2>5 DEF Pending
<1> QED BY <1>1, WakeInit, WakeStep, PTL DEF Spec

-----------------------------------------------------------------------------
(* Kernels, for payloads that use the marker stream alone.  With a work      *)
(* stream calls in an arbitrary order break both PinsCoverGpuWork and        *)
(* OutputMeansDrained; OrderedClientProofs proves the second for both        *)
(* streams when the calls are made as the client makes them.                 *)

MarkerOnly == WorkStreams \subseteq {"marker"}

\* The frame of kernel g is owned, pinned and not answered, and if a job owns
\* it that job belongs to the thread that launched g.
KernelHeld(g) ==
  \E k \in Slots :
    LET s == frames[k][Pos(g.frame)]
    IN  /\ reg[k].token = g.token /\ g.token # 0
        /\ s.frame = g.frame /\ s.owned /\ s.pins # {} /\ ~s.output
        /\ \A h \in Hips : job[h].active /\ job[h].slot = k /\ Pos(job[h].frame) = Pos(g.frame)
                             => h = g.by

MarkerKernel == [by : Hips, stream : {"marker"}, token : Tokens, frame : Frames]
KernelsHeld == gpu \subseteq MarkerKernel /\ \A g \in gpu : KernelHeld(g)

GpuInv == WakeInv /\ JobOwnsItsState /\ KernelsHeld

-----------------------------------------------------------------------------
\* A step that keeps what is owned and activates no job keeps a kernel's frame.
LEMMA HeldKept ==
  ASSUME TypeInv, NEW g \in MarkerKernel, KernelHeld(g), OwnedKept, TokensKept,
         \A h \in Hips : job'[h].active => SameJob(h)
  PROVE  KernelHeld(g)'
<1>1. PICK k \in Slots :
        LET s == frames[k][Pos(g.frame)]
        IN  /\ reg[k].token = g.token /\ g.token # 0
            /\ s.frame = g.frame /\ s.owned /\ s.pins # {} /\ ~s.output
            /\ \A h \in Hips : job[h].active /\ job[h].slot = k /\ Pos(job[h].frame) = Pos(g.frame)
                                 => h = g.by
  BY DEF KernelHeld
<1>2. Pos(g.frame) \in Ring BY PosInRing DEF MarkerKernel
<1>3. Kept(frames[k][Pos(g.frame)], frames'[k][Pos(g.frame)]) BY <1>1, <1>2 DEF OwnedKept
<1>4. reg'[k].token = g.token BY <1>1, <1>2 DEF TokensKept
<1>5. \A h \in Hips : job'[h].active /\ job'[h].slot = k /\ Pos(job'[h].frame) = Pos(g.frame)
                        => h = g.by
  BY <1>1 DEF SameJob
<1> QED BY <1>1, <1>3, <1>4, <1>5 DEF KernelHeld, Kept, Pos

LEMMA KernelsKept ==
  ASSUME GpuInv, OwnedKept, TokensKept, \A h \in Hips : job'[h].active => SameJob(h),
         gpu' \subseteq gpu
  PROVE  KernelsHeld'
<1>1. gpu' \subseteq MarkerKernel BY DEF GpuInv, KernelsHeld
<1>2. \A g \in gpu' : KernelHeld(g)'
  BY HeldKept DEF GpuInv, KernelsHeld, WakeInv
<1> QED BY <1>1, <1>2 DEF KernelsHeld, MarkerKernel

\* A kernel launched by an active job finds its frame pinned.
LEMMA LaunchHeld ==
  ASSUME GpuInv, NEW h \in Hips, job[h].active
  PROVE  KernelOf(h, "marker") \in MarkerKernel /\ KernelHeld(KernelOf(h, "marker"))
<1> DEFINE j == job[h]
           g == KernelOf(h, "marker")
<1>1. j \in Job /\ j.token # 0 /\ j.frame \in Frames /\ j.slot \in Slots
  BY DEF GpuInv, WakeInv, TypeInv, TypeOK, WellFormed, HipFormed
<1>2. g.by = h /\ g.token = j.token /\ g.frame = j.frame /\ g \in MarkerKernel
  BY <1>1 DEF KernelOf, MarkerKernel, Job
<1> HIDE DEF g
<1>3. /\ reg[j.slot].token = j.token
      /\ LET s == frames[j.slot][Pos(j.frame)]
         IN  s.frame = j.frame /\ s.owned /\ s.pins # {} /\ ~s.output
  BY DEF GpuInv, JobOwnsItsState
<1>4. \A i \in Hips : job[i].active /\ job[i].slot = j.slot /\ Pos(job[i].frame) = Pos(j.frame)
                        => i = h
  BY DEF GpuInv, JobOwnsItsState
<1>5. KernelHeld(g) BY <1>1, <1>2, <1>3, <1>4 DEF KernelHeld
<1> QED BY <1>2, <1>5 DEF g

LEMMA KernelsAdded ==
  ASSUME GpuInv, OwnedKept, TokensKept, \A i \in Hips : job'[i].active => SameJob(i),
         NEW h \in Hips, job[h].active, gpu' \subseteq gpu \cup {KernelOf(h, "marker")}
  PROVE  KernelsHeld'
<1> DEFINE n == KernelOf(h, "marker")
<1>1. n \in MarkerKernel /\ KernelHeld(n) BY LaunchHeld
<1> HIDE DEF n
<1>2. \A g \in gpu \cup {n} : g \in MarkerKernel /\ KernelHeld(g)
  BY <1>1 DEF GpuInv, KernelsHeld
<1>3. gpu' \subseteq gpu \cup {n} BY DEF n
<1>4. \A g \in gpu' : KernelHeld(g)'
  BY <1>2, <1>3, HeldKept DEF GpuInv, WakeInv
<1>5. gpu' \subseteq MarkerKernel BY <1>2, <1>3
<1> QED BY <1>4, <1>5 DEF KernelsHeld, MarkerKernel

\* Failing a job keeps every owned state.
LEMMA FailJobOwned ==
  ASSUME TypeInv, NEW h \in Hips, NEW j \in Job, FailJob(h, j), UNCHANGED reg,
         j.token = job[h].token, j.frame = job[h].frame, j.active = job[h].active, j.slot = job[h].slot
  PROVE  OwnedKept /\ TokensKept /\ \A i \in Hips : job'[i].active => SameJob(i)
<1> DEFINE jj == [j EXCEPT !.error = TRUE]
<1>1. /\ jj.token = j.token /\ jj.frame = j.frame /\ jj.active = j.active /\ jj.slot = j.slot
      /\ jj \in Job
  BY DEF Job
<1>2. job' = [job EXCEPT ![h] = jj] BY DEF FailJob
<1> HIDE DEF jj
<1>3. \A i \in Hips : job'[i].active => SameJob(i)
  BY <1>1, <1>2 DEF SameJob, TypeInv, TypeOK
<1>4. OwnedKept
  <2>1. CASE j.token # 0
    <3>1. j.frame \in Frames BY <2>1 DEF TypeInv, WellFormed, HipFormed
    <3> QED BY <2>1, <3>1, FailFrameKept DEF FailJob
  <2>2. CASE j.token = 0 BY <2>2, UnchangedKept DEF FailJob
  <2> QED BY <2>1, <2>2
<1> QED BY <1>3, <1>4 DEF TokensKept

\* Completing a job touches no other frame, and leaves none of its kernels.
LEMMA CompleteHeld ==
  ASSUME GpuInv, NEW h \in Hips, job[h].active, Complete(h), UNCHANGED reg,
         gpu' \subseteq gpu \ WorkOf(h, {"marker"})
  PROVE  KernelsHeld'
<1> DEFINE j == job[h]
<1>1. CASE UNCHANGED <<frames, job>>
  BY <1>1, UnchangedKept, KernelsKept DEF SameJob, TokensKept
<1>2. CASE ~UNCHANGED <<frames, job>>
  <2>1. PICK d, e : /\ frames' = Put(j.slot, j.frame, d)
                    /\ job' = [job EXCEPT ![h] = [j EXCEPT !.active = FALSE, !.slot = None, !.error = e]]
    BY <1>2 DEF Complete
  <2>2. j \in Job /\ j.slot \in Slots /\ j.frame \in Frames
    BY DEF GpuInv, WakeInv, TypeInv, TypeOK, WellFormed, HipFormed
  <2>3. ~job'[h].active /\ \A i \in Hips \ {h} : job'[i] = job[i]
    BY <2>1, <2>2 DEF GpuInv, WakeInv, TypeInv, TypeOK, Job
  <2>4. \A k \in Slots, i \in Ring : <<k, i>> # <<j.slot, Pos(j.frame)>> => frames'[k][i] = frames[k][i]
    BY <2>1, <2>2, PutAt DEF GpuInv, WakeInv
  <2>5. ASSUME NEW g \in gpu' PROVE KernelHeld(g)'
    <3>1. g \in gpu /\ g \in MarkerKernel /\ g.by # h
      BY DEF GpuInv, KernelsHeld, WorkOf, MarkerKernel
    <3>2. PICK k \in Slots :
            LET s == frames[k][Pos(g.frame)]
            IN  /\ reg[k].token = g.token /\ g.token # 0
                /\ s.frame = g.frame /\ s.owned /\ s.pins # {} /\ ~s.output
                /\ \A i \in Hips : job[i].active /\ job[i].slot = k /\ Pos(job[i].frame) = Pos(g.frame)
                                     => i = g.by
      BY <3>1 DEF GpuInv, KernelsHeld, KernelHeld
    <3>3. <<k, Pos(g.frame)>> # <<j.slot, Pos(j.frame)>> BY <3>1, <3>2
    <3>4. frames'[k][Pos(g.frame)] = frames[k][Pos(g.frame)]
      BY <3>1, <3>3, <2>4, PosInRing DEF MarkerKernel
    <3>5. \A i \in Hips : job'[i].active /\ job'[i].slot = k /\ Pos(job'[i].frame) = Pos(g.frame)
                            => i = g.by
      BY <2>3, <3>2
    <3> QED BY <3>2, <3>4, <3>5 DEF KernelHeld, Pos
  <2> QED BY <2>5 DEF GpuInv, KernelsHeld, MarkerKernel
<1> QED BY <1>1, <1>2

\* A frame that is claimed was owned by nobody, so it has no kernel.
LEMMA ClaimHeld ==
  ASSUME GpuInv, NEW h \in Hips, Claim(h)
  PROVE  KernelsHeld'
<1> DEFINE j == job[h]
<1>1. pc[h] = "claim" /\ UNCHANGED <<reg, gpu>> BY DEF Claim
<1>2. j \in Job /\ ~j.active /\ j.frame \in Frames
  BY <1>1 DEF GpuInv, WakeInv, TypeInv, TypeOK, WellFormed, HipFormed
<1>3. ASSUME NEW k \in Found(j.token), Claimable(frames[k][Pos(j.frame)]),
             frames' = Put(k, j.frame, [frames[k][Pos(j.frame)] EXCEPT !.owned = TRUE]),
             job' = [job EXCEPT ![h].active = TRUE, ![h].slot = k],
             NEW g \in gpu
      PROVE  KernelHeld(g)'
  <2>1. g \in MarkerKernel /\ Pos(g.frame) \in Ring
    BY PosInRing DEF GpuInv, KernelsHeld, MarkerKernel
  <2>2. PICK m \in Slots :
          LET s == frames[m][Pos(g.frame)]
          IN  /\ reg[m].token = g.token /\ g.token # 0
              /\ s.frame = g.frame /\ s.owned /\ s.pins # {} /\ ~s.output
              /\ \A i \in Hips : job[i].active /\ job[i].slot = m /\ Pos(job[i].frame) = Pos(g.frame)
                                   => i = g.by
    BY DEF GpuInv, KernelsHeld, KernelHeld
  <2>3. k \in Slots /\ <<m, Pos(g.frame)>> # <<k, Pos(j.frame)>>
    BY <1>3, <2>2 DEF Found, Claimable
  <2>4. frames'[m][Pos(g.frame)] = frames[m][Pos(g.frame)]
    BY <1>2, <1>3, <2>1, <2>3, PutAt DEF GpuInv, WakeInv
  <2>5. job'[h].slot = k /\ job'[h].frame = j.frame /\ \A i \in Hips \ {h} : job'[i] = job[i]
    BY <1>2, <1>3 DEF GpuInv, WakeInv, TypeInv, TypeOK, Job
  <2>6. \A i \in Hips : job'[i].active /\ job'[i].slot = m /\ Pos(job'[i].frame) = Pos(g.frame)
                          => i = g.by
    BY <2>2, <2>3, <2>5
  <2> QED BY <1>1, <2>2, <2>4, <2>6 DEF KernelHeld, Pos
<1>4. CASE job' = [job EXCEPT ![h].error = TRUE] /\ UNCHANGED frames
  <2>1. \A i \in Hips : job'[i].active => SameJob(i)
    BY <1>2, <1>4 DEF SameJob, GpuInv, WakeInv, TypeInv, TypeOK, Job
  <2> QED BY <1>1, <1>4, <2>1, UnchangedKept, KernelsKept DEF TokensKept
<1>5. gpu' \subseteq MarkerKernel BY <1>1 DEF GpuInv, KernelsHeld
<1> QED BY <1>1, <1>3, <1>4, <1>5 DEF Claim, KernelsHeld, MarkerKernel

-----------------------------------------------------------------------------
LEMMA LifetimeKernels == ASSUME GpuInv, Lifetime PROVE KernelsHeld'
<1> USE DEF GpuInv, WakeInv
<1>1. ASSUME UNCHANGED <<job, gpu>>, OwnedKept, TokensKept PROVE KernelsHeld'
  BY <1>1, KernelsKept DEF SameJob
<1>2. ASSUME NEW o \in Owners, Register(o) PROVE KernelsHeld'
  <2>1. PICK k \in Slots :
          /\ ~Busy(k)
          /\ reg' = [reg EXCEPT ![k] = [NoRegistration EXCEPT !.active = TRUE, !.token = nextToken,
                                                              !.owner = o]]
          /\ frames' = [frames EXCEPT ![k] = [i \in Ring |-> FreshFrame(None)]]
    BY <1>2 DEF Register
  <2>2. \A i \in Ring : ~frames[k][i].owned BY <2>1 DEF Busy
  <2>3. \A m \in Slots \ {k} : reg'[m] = reg[m] /\ frames'[m] = frames[m]
    BY <2>1 DEF TypeInv, TypeOK
  <2>4. OwnedKept /\ TokensKept BY <2>2, <2>3 DEF OwnedKept, Kept, TokensKept
  <2> QED BY <1>1, <1>2, <2>4 DEF Register, hipVars
<1>3. ASSUME NEW o \in Owners, Destroy(o) PROVE KernelsHeld'
  <2> DEFINE Hit(k) == reg[k].active /\ VaOf[reg[k].owner] = VaOf[o]
  <2>1. /\ reg' = [k \in Slots |-> IF Hit(k) THEN [reg[k] EXCEPT !.active = FALSE] ELSE reg[k]]
        /\ frames' = [k \in Slots |-> IF Hit(k) THEN [i \in Ring |-> Failed(frames[k][i])] ELSE frames[k]]
        /\ UNCHANGED <<job, gpu>>
    BY <1>3 DEF Destroy, Retire, hipVars
  <2>2. \A k \in Slots : reg'[k].token = reg[k].token BY <2>1 DEF Registration, TypeInv, TypeOK
  <2>3. \A k \in Slots, i \in Ring :
          frames'[k][i] = frames[k][i] \/ frames'[k][i] = Failed(frames[k][i])
    BY <2>1 DEF TypeInv, TypeOK
  <2>4. ASSUME NEW k \in Slots, NEW i \in Ring, frames[k][i].owned, ~frames[k][i].output
        PROVE  Kept(frames[k][i], frames'[k][i])
    <3>1. frames[k][i] \in FrameState BY DEF TypeInv, TypeOK
    <3>2. CASE frames'[k][i] = frames[k][i] BY <2>4, <3>2 DEF Kept
    <3>3. CASE frames'[k][i] = Failed(frames[k][i]) BY <2>4, <3>1, <3>3, FailedKept
    <3> QED BY <2>3, <3>2, <3>3
  <2>5. OwnedKept BY <2>4 DEF OwnedKept
  <2> QED BY <1>1, <2>1, <2>2, <2>5 DEF TokensKept
<1>4. ASSUME NEW o \in Owners, Release(o) \/ AppRelease(o) PROVE KernelsHeld'
  BY <1>1, <1>4, UnchangedKept DEF Release, AppRelease, hipVars, TokensKept
<1>5. ASSUME NEW k \in Slots, Map(k) PROVE KernelsHeld'
  <2>1. \A m \in Slots : reg'[m].token = reg[m].token
    BY <1>5 DEF Map, TypeInv, TypeOK, Registration
  <2> QED BY <1>1, <1>5, <2>1, UnchangedKept DEF Map, hipVars, TokensKept
<1> QED BY <1>2, <1>3, <1>4, <1>5 DEF Lifetime

LEMMA ClientKernels ==
  ASSUME GpuInv, AnyClient \/ \E c \in Clients : ClientStep(c)
  PROVE  KernelsHeld'
<1> USE DEF GpuInv, WakeInv
<1>1. TokensKept BY ClientWake DEF TokensKept, RegistrationsKept
<1>2. ASSUME UNCHANGED <<job, gpu>>, OwnedKept PROVE KernelsHeld'
  BY <1>1, <1>2, KernelsKept DEF SameJob
<1>3. ASSUME NEW t \in KnownTokens, NEW f \in Frames, ClientFail(t, f) PROVE KernelsHeld'
  BY <1>2, <1>3, FailFrameKept DEF ClientFail, hipVars
<1>4. ASSUME NEW t \in KnownTokens, NEW f \in Frames, ConsumerSubmitted(t, f) PROVE KernelsHeld'
  <2>1. PICK k \in Found(t) :
          /\ frames[k][Pos(f)].output
          /\ frames' = Put(k, f, [frames[k][Pos(f)] EXCEPT !.consumed = TRUE])
    BY <1>4 DEF ConsumerSubmitted
  <2>2. OwnedKept BY <2>1, FoundType, PutKept
  <2> QED BY <1>2, <1>4, <2>2 DEF ConsumerSubmitted, hipVars
<1>5. ASSUME NEW c \in Clients, NEW t \in KnownTokens, NEW f \in Frames, Publish(c, t, f)
      PROVE  KernelsHeld'
  BY <1>2, <1>5, PublishKept DEF Publish, hipVars
<1>6. ASSUME NEW c \in Clients, ClientCheck(c) \/ ClientExpire(c) PROVE KernelsHeld'
  BY <1>2, <1>6, CheckKept, ExpireKept DEF ClientCheck, ClientExpire, Threads, hipVars
<1>7. ASSUME UNCHANGED <<frames, job, gpu>> PROVE KernelsHeld'
  BY <1>2, <1>7, UnchangedKept
<1>8. ASSUME NEW c \in Clients, ClientStep(c) PROVE KernelsHeld'
  BY <1>5, <1>6, <1>7, <1>8
  DEF ClientStep, Snapshot, DropSnapshot, ClaimQueue, WaitOutput, hipVars
<1> QED BY <1>3, <1>4, <1>8 DEF AnyClient

LEMMA HipKernels == ASSUME MarkerOnly, GpuInv, NEW h \in Hips, HipStep(h) PROVE KernelsHeld'
<1> USE DEF GpuInv, WakeInv
<1>1. /\ job[h] \in Job /\ HipFormed(h) /\ h \in Threads
      /\ LaunchStreams = {"marker"}
  BY DEF TypeInv, TypeOK, WellFormed, Threads, MarkerOnly, LaunchStreams
<1>2. TokensKept BY HipWake DEF TokensKept, RegistrationsKept
\* Steps that fail the job, that complete it, and that end with none active.
<1>3. ASSUME NEW j \in Job, FailJob(h, j), UNCHANGED reg, j.token = job[h].token,
             j.frame = job[h].frame, j.active = job[h].active, j.slot = job[h].slot,
             \/ gpu' \subseteq gpu
             \/ job[h].active /\ gpu' \subseteq gpu \cup {KernelOf(h, "marker")}
      PROVE  KernelsHeld'
  BY <1>3, FailJobOwned, KernelsKept, KernelsAdded
<1>4. ASSUME OwnedKept, NEW j, job' = [job EXCEPT ![h] = j], gpu' \subseteq gpu,
             j.active => /\ job[h].active /\ j.token = job[h].token /\ j.frame = job[h].frame
                         /\ j.slot = job[h].slot
      PROVE  KernelsHeld'
  <2>1. job'[h] = j /\ \A i \in Hips \ {h} : job'[i] = job[i] BY <1>4 DEF TypeInv, TypeOK
  <2>2. \A i \in Hips : job'[i].active => SameJob(i) BY <1>4, <2>1 DEF SameJob
  <2> QED BY <1>2, <1>4, <2>2, KernelsKept
<1>5. ASSUME UNCHANGED <<frames, job>>, gpu' \subseteq gpu PROVE KernelsHeld'
  BY <1>2, <1>5, UnchangedKept, KernelsKept DEF SameJob
<1>6. CASE HipCheck(h)
  <2>1. Check(h) /\ UNCHANGED gpu /\ job' = [job EXCEPT ![h].error = Refused(waiter[h])]
    BY <1>6 DEF HipCheck
  <2> DEFINE j == [job[h] EXCEPT !.error = Refused(waiter[h])]
  <2>2. j.active = job[h].active /\ j.token = job[h].token /\ j.frame = job[h].frame
        /\ j.slot = job[h].slot
    BY <1>1 DEF Job
  <2>3. job' = [job EXCEPT ![h] = j] BY <2>1
  <2> HIDE DEF j
  <2> QED BY <1>1, <1>4, <2>1, <2>2, <2>3, CheckKept
<1>7. CASE HipExpire(h)
  <2>1. Expire(h) /\ UNCHANGED gpu /\ job' = [job EXCEPT ![h].error = TRUE]
    BY <1>7 DEF HipExpire
  <2> DEFINE j == [job[h] EXCEPT !.error = TRUE]
  <2>2. j.active = job[h].active /\ j.token = job[h].token /\ j.frame = job[h].frame
        /\ j.slot = job[h].slot
    BY <1>1 DEF Job
  <2>3. job' = [job EXCEPT ![h] = j] BY <2>1
  <2> HIDE DEF j
  <2> QED BY <1>1, <1>4, <2>1, <2>2, <2>3, ExpireKept
<1>8. CASE Claim(h) BY <1>8, ClaimHeld
<1>9. CASE FinishMarker(h)
  <2>1. job[h].active BY <1>1, <1>9 DEF FinishMarker, HipFormed
  <2>2. /\ UNCHANGED reg
        /\ \/ FailJob(h, job[h]) /\ gpu' \subseteq gpu \cup {KernelOf(h, "marker")}
           \/ Complete(h) /\ gpu' \subseteq gpu \ WorkOf(h, {"marker"})
    BY <1>9 DEF FinishMarker, WorkOf, JobStreams
  <2> QED BY <1>1, <1>3, <2>1, <2>2, CompleteHeld
<1>10. CASE DeviceSync(h)
  <2>1. /\ UNCHANGED reg
        /\ \/ FailJob(h, job[h]) /\ UNCHANGED gpu
           \/ job[h].active /\ Complete(h) /\ gpu' = {}
           \/ UNCHANGED <<frames, job>> /\ gpu' = {}
    BY <1>10 DEF DeviceSync
  <2> QED BY <1>1, <1>3, <1>5, <2>1, CompleteHeld
<1>11. CASE ThreadExit(h)
  <2>1. UNCHANGED <<reg, frames, gpu>> /\ job' = [job EXCEPT ![h] = NoJob] /\ ~NoJob.active
    BY <1>11 DEF ThreadExit, NoJob
  <2> QED BY <1>4, <2>1, UnchangedKept
<1>12. ASSUME NEW f \in Frames, BeginJob(h, f) PROVE KernelsHeld'
  <2>1. /\ UNCHANGED <<reg, gpu>>
        /\ \/ FailJob(h, job[h])
           \/ /\ UNCHANGED frames
              /\ \E t : job' = [job EXCEPT ![h] = [NoJob EXCEPT !.token = t, !.frame = f]]
           \/ /\ UNCHANGED frames
              /\ job' = [job EXCEPT ![h] = [NoJob EXCEPT !.error = TRUE, !.frame = f]]
    BY <1>12 DEF BeginJob
  <2>2. /\ \A t : ~[NoJob EXCEPT !.token = t, !.frame = f].active
        /\ ~[NoJob EXCEPT !.error = TRUE, !.frame = f].active
    BY DEF NoJob
  <2>3. CASE FailJob(h, job[h]) BY <1>1, <1>3, <2>1, <2>3
  <2>4. ASSUME NEW j, ~j.active, job' = [job EXCEPT ![h] = j], UNCHANGED frames PROVE KernelsHeld'
    BY <1>4, <2>1, <2>4, UnchangedKept
  <2> QED BY <2>1, <2>2, <2>3, <2>4
<1>13. ASSUME NEW s \in LaunchStreams, StreamSync(h, s) PROVE KernelsHeld'
  <2>1. /\ UNCHANGED reg
        /\ \/ FailJob(h, job[h]) /\ gpu' \subseteq gpu
           \/ job[h].active /\ Complete(h) /\ gpu' \subseteq gpu \ WorkOf(h, {"marker"})
           \/ UNCHANGED <<frames, job>> /\ gpu' \subseteq gpu
    BY <1>1, <1>13 DEF StreamSync, WorkOf, JobStreams
  <2> QED BY <1>1, <1>3, <1>5, <2>1, CompleteHeld
<1>14. ASSUME NEW import \in BOOLEAN, NEW s \in LaunchStreams, Launch(h, import, s) PROVE KernelsHeld'
  <2> DEFINE j == job[h]
             routed == IF j.bound = None /\ import THEN [j EXCEPT !.bound = s] ELSE j
  <2>1. s = "marker" BY <1>1
  <2>2. /\ routed \in Job /\ routed.token = j.token /\ routed.frame = j.frame
        /\ routed.active = j.active /\ routed.slot = j.slot
    BY <1>1, <2>1 DEF Job
  <2>3. /\ UNCHANGED reg /\ j.active
        /\ gpu' \subseteq gpu \cup {KernelOf(h, "marker")}
        /\ \/ FailJob(h, j)
           \/ FailJob(h, routed)
           \/ UNCHANGED frames /\ job' = [job EXCEPT ![h] = routed]
    BY <1>14, <2>1 DEF Launch, WorkOf
  <2> HIDE DEF routed
  <2>4. CASE UNCHANGED frames /\ job' = [job EXCEPT ![h] = routed]
    <3>1. \A i \in Hips : job'[i].active => SameJob(i)
      BY <2>2, <2>4 DEF SameJob, TypeInv, TypeOK
    <3> QED BY <1>2, <2>3, <2>4, <3>1, UnchangedKept, KernelsAdded
  <2> QED BY <1>1, <1>3, <2>2, <2>3, <2>4
<1>15. ASSUME NEW exact \in BOOLEAN, SetFlag(h, exact) PROVE KernelsHeld'
  <2> DEFINE j == [job[h] EXCEPT !.sealed = TRUE]
  <2>1. j.token = job[h].token /\ j.frame = job[h].frame /\ j.active = job[h].active
        /\ j.slot = job[h].slot
    BY <1>1 DEF Job
  <2>2. /\ UNCHANGED <<reg, gpu>>
        /\ \/ FailJob(h, job[h])
           \/ UNCHANGED frames /\ job' = [job EXCEPT ![h] = j]
    BY <1>15 DEF SetFlag
  <2> HIDE DEF j
  <2> QED BY <1>1, <1>3, <1>4, <2>1, <2>2, UnchangedKept
<1>16. ASSUME NEW kind \in ProbeKinds, NEW k \in Slots, ProbeBegin(h, kind, k) PROVE KernelsHeld'
  BY <1>5, <1>16 DEF ProbeBegin
<1>17. ASSUME NEW launched \in BOOLEAN, NEW synced \in BOOLEAN, ProbeEnd(h, launched, synced)
       PROVE  KernelsHeld'
  BY <1>5, <1>17 DEF ProbeEnd
<1> QED
  BY <1>6, <1>7, <1>8, <1>9, <1>10, <1>11, <1>12, <1>13, <1>14, <1>15, <1>16, <1>17 DEF HipStep

-----------------------------------------------------------------------------
LEMMA GpuInit == Init => GpuInv
<1> SUFFICES ASSUME Init PROVE GpuInv
  OBVIOUS
<1>1. JobOwnsItsState BY DEF Init, NoJob, JobOwnsItsState
<1>2. KernelsHeld BY DEF Init, KernelsHeld
<1> QED BY <1>1, <1>2, WakeInit DEF GpuInv

LEMMA GpuStep == ASSUME MarkerOnly PROVE GpuInv /\ [Next]_vars => GpuInv'
<1> SUFFICES ASSUME GpuInv, [Next]_vars PROVE GpuInv'
  OBVIOUS
<1>1. WakeInv' BY WakeStep DEF GpuInv
<1>2. CASE UNCHANGED vars
  <2>1. UNCHANGED <<reg, frames, job, gpu>> BY <1>2 DEF vars, hipVars
  <2>2. TokensKept /\ \A g \in Hips : job'[g].active => SameJob(g)
    BY <2>1 DEF TokensKept, SameJob
  <2> QED BY <1>1, <2>1, <2>2, UnchangedKept, JobsKept, KernelsKept DEF GpuInv, WakeInv
<1>3. CASE Next
  <2>1. JobOwnsItsState' BY <1>3, LifetimeJobs, ClientJobs, HipJobs DEF Next, GpuInv, WakeInv
  <2>2. KernelsHeld' BY <1>3, LifetimeKernels, ClientKernels, HipKernels DEF Next
  <2> QED BY <1>1, <2>1, <2>2 DEF GpuInv
<1> QED BY <1>2, <1>3

\* With the marker stream alone, the buffers of every kernel that may still run are
\* pinned, whatever failed, timed out, retired or exited.
THEOREM PinsCoverWork == ASSUME MarkerOnly PROVE Spec => []PinsCoverGpuWork
<1>1. GpuInv => PinsCoverGpuWork
  BY DEF GpuInv, KernelsHeld, KernelHeld, PinsCoverGpuWork, Holds
<1> QED BY <1>1, GpuInit, GpuStep, PTL DEF Spec

\* With the marker stream alone, an output that is published means that no kernel of
\* its frame is outstanding, and only such an output is consumed.
THEOREM OutputsAreDrained == ASSUME MarkerOnly PROVE Spec => []OutputMeansDrained
<1>1. GpuInv => OutputMeansDrained
  <2> SUFFICES ASSUME GpuInv, NEW k \in Slots, NEW i \in Ring
               PROVE  LET s == frames[k][i]
                      IN  /\ s.consumed => s.output
                          /\ s.output /\ ~s.error =>
                               ~\E g \in gpu : g.token = reg[k].token /\ g.frame = s.frame
    BY DEF OutputMeansDrained
  <2>1. Sound(frames[k][i], i) BY DEF GpuInv, WakeInv, StatesSound
  <2>2. ASSUME NEW g \in gpu, g.token = reg[k].token, g.frame = frames[k][i].frame
        PROVE  ~frames[k][i].output
    <3>1. g \in MarkerKernel /\ KernelHeld(g) BY DEF GpuInv, KernelsHeld
    <3>2. g.frame # None BY <3>1, NoneAssumption DEF MarkerKernel
    <3>3. Pos(g.frame) = i BY <2>1, <2>2, <3>2 DEF Sound
    <3>4. PICK m \in Slots : /\ reg[m].token = g.token /\ g.token # 0
                             /\ ~frames[m][Pos(g.frame)].output
      BY <3>1 DEF KernelHeld
    <3>5. m = k BY <2>2, <3>4 DEF GpuInv, WakeInv, TokensUnique
    <3> QED BY <3>3, <3>4, <3>5
  <2> QED BY <2>1, <2>2 DEF Sound
<1> QED BY <1>1, GpuInit, GpuStep, PTL DEF Spec

-----------------------------------------------------------------------------
(* The frame window implements FrameProtocol. *)

\* What the flags of a frame state say together, whatever happened to it.
Shaped(s) == /\ s.output => s.input
             /\ s.consumed => s.output
             /\ s.owned => s.input /\ ~s.output
             /\ s.pins # {} <=> s.owned \/ (s.input /\ ~s.output /\ ~s.error)
StatesShaped == \A k \in Slots, i \in Ring : Shaped(frames[k][i])

WindowInv == TypeInv /\ JobOwnsItsState /\ StatesShaped

\* The cell that stands for a frame state, and what each step has to show.
CellOf(s) == [frame |-> s.frame, stage |-> Stage(s), pinned |-> s.pins # {}]
Implements == StatesShaped' /\ [Protocol!Next]_Cells

-----------------------------------------------------------------------------
\* One frame state.

LEMMA StageOf ==
  \A s \in FrameState :
    Stage(s) = IF s.error THEN IF s.owned THEN "failing" ELSE "failed"
               ELSE IF s.consumed THEN "consumed"
               ELSE IF s.output THEN "ready"
               ELSE IF s.owned THEN "running"
               ELSE IF s.input THEN "published" ELSE "open"
  BY DEF Stage, FrameState

\* The state nr_frame gives out is the one that was there, or a fresh one in a
\* vacant place.
LEMMA ObtainedCell ==
  ASSUME WindowInv, NEW k \in Slots, NEW f \in Frames, Obtainable(k, f)
  PROVE  /\ Obtained(k, f) \in FrameState /\ Shaped(Obtained(k, f))
         /\ \/ Obtained(k, f) = frames[k][Pos(f)]
            \/ /\ Obtained(k, f) = FreshFrame(f)
               /\ Protocol!Recycle(CellOf(frames[k][Pos(f)]), CellOf(FreshFrame(f)))
<1> DEFINE s == frames[k][Pos(f)]
<1>1. s \in FrameState /\ Shaped(s) BY PosInRing DEF WindowInv, StatesShaped, TypeInv, TypeOK
<1>2. FreshFrame(f) \in FrameState BY FreshFrameType
<1>3. Shaped(FreshFrame(f)) BY DEF Shaped, FreshFrame
<1>4. CASE Holds(k, f) BY <1>1, <1>4 DEF Obtained
<1>5. CASE ~Holds(k, f)
  <2>1. Recyclable(s) /\ Obtained(k, f) = FreshFrame(f) BY <1>5 DEF Obtainable, Obtained
  <2> HIDE DEF s
  <2>2. Protocol!Vacant(CellOf(s))
    BY <1>1, <2>1, StageOf DEF Recyclable, Protocol!Vacant, CellOf
  <2>3. CellOf(FreshFrame(f)) = Protocol!New(f, "open", FALSE)
    BY <1>2, StageOf DEF CellOf, FreshFrame, Protocol!New
  <2>4. Protocol!Recycle(CellOf(s), CellOf(FreshFrame(f))) BY <2>2, <2>3 DEF Protocol!Recycle
  <2> QED BY <1>2, <1>3, <2>1, <2>4 DEF s
<1> QED BY <1>4, <1>5

\* A failure marks a job's frame and ends any other.
LEMMA FailedCell ==
  ASSUME NEW s \in FrameState, Shaped(s)
  PROVE  Shaped(Failed(s)) /\ Protocol!Fail(CellOf(s), CellOf(Failed(s)))
<1>1. Failed(s) \in FrameState BY FailedType
<1>2. Failed(s) = [s EXCEPT !.error = TRUE, !.pins = IF s.owned THEN s.pins ELSE {}] BY DEF Failed
<1>3. /\ Failed(s).frame = s.frame /\ Failed(s).input = s.input /\ Failed(s).output = s.output
      /\ Failed(s).consumed = s.consumed /\ Failed(s).owned = s.owned /\ Failed(s).error
      /\ Failed(s).pins = IF s.owned THEN s.pins ELSE {}
  BY <1>2 DEF FrameState
<1>4. Shaped(Failed(s)) BY <1>3 DEF Shaped
<1>5. CASE s.owned
  <2>1. Stage(s) \in {"running", "failing"} BY <1>5, StageOf DEF Shaped
  <2>2. CellOf(Failed(s)) = Protocol!New(s.frame, "failing", TRUE)
    BY <1>1, <1>3, <1>5, StageOf DEF CellOf, Shaped, Protocol!New
  <2> QED BY <1>4, <2>1, <2>2 DEF Protocol!Fail, CellOf
<1>6. CASE ~s.owned
  <2>1. Stage(s) \notin {"running", "failing"} BY <1>6, StageOf
  <2>2. CellOf(Failed(s)) = Protocol!New(s.frame, "failed", FALSE)
    BY <1>1, <1>3, <1>6, StageOf DEF CellOf, Protocol!New
  <2> QED BY <1>4, <2>1, <2>2 DEF Protocol!Fail, CellOf
<1> QED BY <1>5, <1>6

-----------------------------------------------------------------------------
\* Putting one frame state in place of another moves one cell.

LEMMA CellAt == \A k \in Slots, i \in Ring : Cells[k][i] = CellOf(frames[k][i])
  BY DEF Cells, CellOf

LEMMA PutCell ==
  ASSUME WindowInv, NEW k \in Slots, NEW f \in Frames, NEW s, Shaped(s), frames' = Put(k, f, s),
         \/ s = frames[k][Pos(f)]
         \/ Protocol!CellStep(CellOf(frames[k][Pos(f)]), CellOf(s))
  PROVE  Implements
<1> DEFINE p == Pos(f)
<1>1. p \in Ring BY PosInRing
<1>2. \A j \in Slots, i \in Ring : frames'[j][i] = IF j = k /\ i = p THEN s ELSE frames[j][i]
  BY PutAt DEF WindowInv
<1> HIDE DEF p
<1>3. StatesShaped' BY <1>2 DEF WindowInv, StatesShaped, Shaped
<1>4. Cells' = [Cells EXCEPT ![k] = [Cells[k] EXCEPT ![p] = CellOf(s)]]
  <2> DEFINE C(x) == CellOf(x)
  <2>1. /\ Cells = [j \in Slots |-> [i \in Ring |-> C(frames[j][i])]]
        /\ Cells' = [j \in Slots |-> [i \in Ring |-> C(frames'[j][i])]]
    BY DEF Cells, CellOf
  <2> HIDE DEF C
  <2>2. [i \in Ring |-> C(frames'[k][i])] = [[i \in Ring |-> C(frames[k][i])] EXCEPT ![p] = C(s)]
    BY <1>1, <1>2
  <2>3. \A j \in Slots \ {k} : [i \in Ring |-> C(frames'[j][i])] = [i \in Ring |-> C(frames[j][i])]
    BY <1>2
  <2>4. Cells' = [Cells EXCEPT ![k] = [Cells[k] EXCEPT ![p] = C(s)]] BY <2>1, <2>2, <2>3
  <2> QED BY <2>4 DEF C
<1>5. Cells'[k][p] = CellOf(s) /\ Cells[k][p] = CellOf(frames[k][p]) BY <1>1, <1>4 DEF Cells, CellOf
<1>6. CASE s = frames[k][p]
  <2>1. Cells' = Cells BY <1>1, <1>2, <1>6 DEF Cells
  <2> QED BY <1>3, <2>1 DEF Implements
<1>7. CASE Protocol!CellStep(CellOf(frames[k][p]), CellOf(s))
  <2>1. Protocol!Move BY <1>1, <1>4, <1>5, <1>7 DEF Protocol!Move
  <2> QED BY <1>3, <2>1 DEF Implements, Protocol!Next
<1> QED BY <1>6, <1>7 DEF p

LEMMA StutterCell == ASSUME WindowInv, UNCHANGED frames PROVE Implements
<1>1. StatesShaped' BY DEF WindowInv, StatesShaped, Shaped
<1>2. Cells' = Cells BY DEF Cells
<1> QED BY <1>1, <1>2 DEF Implements

-----------------------------------------------------------------------------
\* The calls that change one frame.

LEMMA FailFrameCell ==
  ASSUME WindowInv, NEW t, NEW f \in Frames, FailFrame(t, f)
  PROVE  Implements
<1>1. CASE UNCHANGED frames BY <1>1, StutterCell
<1>2. CASE \E k \in Found(t) : Obtainable(k, f) /\ frames' = Put(k, f, Failed(Obtained(k, f)))
  <2>1. PICK k \in Found(t) : Obtainable(k, f) /\ frames' = Put(k, f, Failed(Obtained(k, f)))
    BY <1>2
  <2>2. k \in Slots BY FoundType DEF WindowInv
  <2> DEFINE o == Obtained(k, f)
             c == CellOf(frames[k][Pos(f)])
  <2>3. /\ o \in FrameState /\ Shaped(o)
        /\ \/ o = frames[k][Pos(f)]
           \/ o = FreshFrame(f) /\ Protocol!Recycle(c, CellOf(FreshFrame(f)))
    BY <2>1, <2>2, ObtainedCell
  <2> HIDE DEF o
  <2>4. Shaped(Failed(o)) /\ Protocol!Fail(CellOf(o), CellOf(Failed(o))) BY <2>3, FailedCell
  <2>5. CellOf(o) \in Protocol!Cell
    BY <2>3, StageOf DEF CellOf, Protocol!Cell, Protocol!Stages, FrameState
  <2>6. Protocol!CellStep(c, CellOf(Failed(o)))
    BY <2>3, <2>4, <2>5 DEF Protocol!CellStep, Protocol!FailNew
  <2> QED BY <2>1, <2>2, <2>4, <2>6, PutCell DEF o
<1> QED BY <1>1, <1>2 DEF FailFrame

LEMMA FailJobCell ==
  ASSUME WindowInv, NEW h \in Hips, NEW j, j.token = job[h].token, j.frame = job[h].frame,
         FailJob(h, j)
  PROVE  Implements
<1>1. CASE j.token = 0 BY <1>1, StutterCell DEF FailJob
<1>2. CASE j.token # 0
  <2>1. j.frame \in Frames BY <1>2 DEF WindowInv, TypeInv, WellFormed, HipFormed
  <2> QED BY <1>2, <2>1, FailFrameCell DEF FailJob
<1> QED BY <1>1, <1>2

LEMMA CheckCell == ASSUME WindowInv, NEW t \in Threads, Check(t) PROVE Implements
<1> DEFINE f == waiter[t].frame
<1>1. f \in Frames BY DEF Check, WindowInv, TypeInv, WellFormed
<1>2. CASE UNCHANGED frames BY <1>2, StutterCell
<1>3. CASE \E k \in Found(waiter[t].token) : Obtainable(k, f) /\ frames' = Put(k, f, Obtained(k, f))
  <2>1. PICK k \in Found(waiter[t].token) : Obtainable(k, f) /\ frames' = Put(k, f, Obtained(k, f))
    BY <1>3
  <2>2. k \in Slots BY FoundType DEF WindowInv
  <2> HIDE DEF f
  <2> QED BY <1>1, <2>1, <2>2, ObtainedCell, PutCell DEF Protocol!CellStep
<1> QED BY <1>2, <1>3 DEF Check

LEMMA ExpireCell == ASSUME WindowInv, NEW t \in Threads, Expire(t) PROVE Implements
<1> DEFINE f == waiter[t].frame
<1>1. f \in Frames BY DEF Expire, WindowInv, TypeInv, WellFormed
<1>2. CASE UNCHANGED frames BY <1>2, StutterCell
<1>3. CASE \E k \in Found(waiter[t].token) : frames' = Put(k, f, Failed(frames[k][Pos(f)]))
  <2>1. PICK k \in Found(waiter[t].token) : frames' = Put(k, f, Failed(frames[k][Pos(f)])) BY <1>3
  <2>2. k \in Slots BY FoundType DEF WindowInv
  <2> HIDE DEF f
  <2>3. frames[k][Pos(f)] \in FrameState /\ Shaped(frames[k][Pos(f)])
    BY <1>1, <2>2, PosInRing DEF WindowInv, TypeInv, TypeOK, StatesShaped
  <2> QED BY <1>1, <2>1, <2>2, <2>3, FailedCell, PutCell DEF Protocol!CellStep
<1> QED BY <1>2, <1>3 DEF Expire

LEMMA PublishCell ==
  ASSUME WindowInv, NEW c \in Clients, NEW t, NEW f \in Frames, Publish(c, t, f)
  PROVE  Implements
<1>1. PICK k \in Found(t) :
        /\ Obtainable(k, f)
        /\ \/ frames' = Put(k, f, Obtained(k, f))
           \/ LET s == Obtained(k, f)
              IN  /\ ~s.consumed /\ ~s.error /\ ~s.input /\ ~s.output /\ ~s.owned
                  /\ frames' = Put(k, f, [s EXCEPT !.pins = snap[c], !.input = TRUE])
  BY DEF Publish
<1>2. k \in Slots /\ snap[c] # {} /\ snap[c] \in SUBSET Buffer
  BY FoundType DEF Publish, WindowInv, TypeInv, TypeOK
<1> DEFINE o == Obtained(k, f)
           a == CellOf(frames[k][Pos(f)])
           p == [o EXCEPT !.pins = snap[c], !.input = TRUE]
<1>3. /\ o \in FrameState /\ Shaped(o)
      /\ \/ o = frames[k][Pos(f)]
         \/ o = FreshFrame(f) /\ Protocol!Recycle(a, CellOf(FreshFrame(f)))
  BY <1>1, <1>2, ObtainedCell
<1>4. CASE frames' = Put(k, f, o)
  BY <1>2, <1>3, <1>4, PutCell DEF Protocol!CellStep
<1>5. CASE /\ ~o.consumed /\ ~o.error /\ ~o.input /\ ~o.output /\ ~o.owned
           /\ frames' = Put(k, f, p)
  <2> HIDE DEF o, a
  <2>1. /\ p \in FrameState /\ p.frame = o.frame /\ p.input /\ ~p.output /\ ~p.consumed /\ ~p.error
        /\ ~p.owned /\ p.pins # {}
    BY <1>2, <1>3, <1>5 DEF FrameState
  <2> HIDE DEF p
  <2>2. Shaped(p) BY <2>1 DEF Shaped
  <2>3. CellOf(p) = Protocol!New(o.frame, "published", TRUE)
    BY <2>1, StageOf DEF CellOf, Protocol!New
  <2>4. Stage(o) = "open" BY <1>3, <1>5, StageOf
  <2>5. CellOf(o) \in Protocol!Cell
    BY <1>3, StageOf DEF CellOf, Protocol!Cell, Protocol!Stages, FrameState
  <2>6. Protocol!Open(a, CellOf(o)) BY <1>3, <2>4 DEF Protocol!Open, CellOf, a
  <2>7. Protocol!CellStep(a, CellOf(p))
    BY <2>3, <2>5, <2>6 DEF Protocol!CellStep, Protocol!Publish, CellOf
  <2> QED BY <1>2, <1>5, <2>2, <2>7, PutCell DEF a
<1> QED BY <1>1, <1>4, <1>5

LEMMA ConsumedCell ==
  ASSUME WindowInv, NEW t, NEW f \in Frames, ConsumerSubmitted(t, f)
  PROVE  Implements
<1>1. PICK k \in Found(t) :
        LET s == frames[k][Pos(f)]
        IN  /\ s.output /\ ~s.consumed /\ ~s.error
            /\ frames' = Put(k, f, [s EXCEPT !.consumed = TRUE])
  BY DEF ConsumerSubmitted
<1> DEFINE s == frames[k][Pos(f)]
           d == [s EXCEPT !.consumed = TRUE]
<1>2. k \in Slots BY FoundType DEF WindowInv
<1>3. s \in FrameState /\ Shaped(s)
  BY <1>2, PosInRing DEF WindowInv, TypeInv, TypeOK, StatesShaped
<1> HIDE DEF s
<1>4. s.output /\ ~s.consumed /\ ~s.error /\ frames' = Put(k, f, d) BY <1>1 DEF s
<1>5. /\ d \in FrameState /\ d.frame = s.frame /\ d.input = s.input /\ d.output = s.output
      /\ d.consumed /\ d.error = s.error /\ d.owned = s.owned /\ d.pins = s.pins
  BY <1>3 DEF FrameState
<1> HIDE DEF d
<1>6. Shaped(d) BY <1>3, <1>4, <1>5 DEF Shaped
<1>7. Stage(s) = "ready" BY <1>3, <1>4, StageOf DEF Shaped
<1>8. CellOf(d) = Protocol!New(s.frame, "consumed", FALSE)
  BY <1>3, <1>4, <1>5, StageOf DEF CellOf, Protocol!New, Shaped
<1>9. Protocol!CellStep(CellOf(s), CellOf(d))
  BY <1>7, <1>8 DEF Protocol!CellStep, Protocol!Consume, CellOf
<1> QED BY <1>2, <1>4, <1>6, <1>9, PutCell DEF s

LEMMA ClaimCell == ASSUME WindowInv, NEW h \in Hips, Claim(h) PROVE Implements
<1> DEFINE f == job[h].frame
<1>1. f \in Frames BY DEF Claim, WindowInv, TypeInv, WellFormed, HipFormed
<1>2. CASE UNCHANGED frames BY <1>2, StutterCell
<1>3. CASE \E k \in Found(job[h].token) :
             /\ Claimable(frames[k][Pos(f)])
             /\ frames' = Put(k, f, [frames[k][Pos(f)] EXCEPT !.owned = TRUE])
  <2>1. PICK k \in Found(job[h].token) :
             /\ Claimable(frames[k][Pos(f)])
             /\ frames' = Put(k, f, [frames[k][Pos(f)] EXCEPT !.owned = TRUE])
    BY <1>3
  <2>2. k \in Slots BY FoundType DEF WindowInv
  <2> DEFINE s == frames[k][Pos(f)]
             d == [s EXCEPT !.owned = TRUE]
  <2>3. s \in FrameState BY <1>1, <2>2, PosInRing DEF WindowInv, TypeInv, TypeOK
  <2> HIDE DEF s
  <2>4. Claimable(s) /\ frames' = Put(k, f, d) BY <2>1 DEF s
  <2>5. /\ d \in FrameState /\ d.frame = s.frame /\ d.input /\ ~d.output
        /\ ~d.consumed /\ ~d.error /\ d.owned /\ d.pins # {}
    BY <2>3, <2>4 DEF FrameState, Claimable
  <2> HIDE DEF d, f
  <2>6. Shaped(d) BY <2>5 DEF Shaped
  <2>7. Stage(s) = "published" BY <2>3, <2>4, StageOf DEF Claimable
  <2>8. CellOf(d) = Protocol!New(s.frame, "running", TRUE)
    BY <2>5, StageOf DEF CellOf, Protocol!New
  <2>9. Protocol!CellStep(CellOf(s), CellOf(d))
    BY <2>7, <2>8 DEF Protocol!CellStep, Protocol!Take, CellOf
  <2> QED BY <1>1, <2>2, <2>4, <2>6, <2>9, PutCell DEF s
<1> QED BY <1>2, <1>3 DEF Claim

\* Only the job that owns a frame ends it, and its state is what it was given.
LEMMA CompleteCell ==
  ASSUME WindowInv, NEW h \in Hips, job[h].active, Complete(h)
  PROVE  Implements
<1> DEFINE f == job[h].frame
           k == job[h].slot
           s == frames[k][Pos(f)]
<1>1. f \in Frames /\ k \in Slots
  BY DEF WindowInv, TypeInv, WellFormed, HipFormed
<1>2. CASE UNCHANGED frames BY <1>2, StutterCell
<1>3. ASSUME NEW bad \in BOOLEAN, s.error => bad,
             frames' = Put(k, f, [s EXCEPT !.error = s.error \/ bad, !.output = s.output \/ ~bad,
                                           !.owned = FALSE, !.pins = {}])
      PROVE  Implements
  <2> DEFINE d == [s EXCEPT !.error = s.error \/ bad, !.output = s.output \/ ~bad,
                            !.owned = FALSE, !.pins = {}]
  <2>1. s \in FrameState /\ s.owned /\ s.input /\ ~s.output /\ ~s.consumed
    BY <1>1, PosInRing DEF WindowInv, TypeInv, TypeOK, JobOwnsItsState
  <2>2. frames' = Put(k, f, d) BY <1>3
  <2>3. s.error => bad BY <1>3
  <2> HIDE DEF s
  <2>4. /\ d \in FrameState /\ d.frame = s.frame /\ d.input /\ d.output = ~bad
        /\ ~d.consumed /\ d.error = bad /\ ~d.owned /\ d.pins = {}
    BY <2>1, <2>3 DEF FrameState
  <2> HIDE DEF d, k, f
  <2>5. Shaped(d) BY <2>4 DEF Shaped
  <2>6. Stage(s) = IF s.error THEN "failing" ELSE "running" BY <2>1, StageOf
  <2>7. CellOf(d) = Protocol!New(s.frame, IF bad THEN "failed" ELSE "ready", FALSE)
    BY <2>4, StageOf DEF CellOf, Protocol!New
  <2>8. Protocol!CellStep(CellOf(s), CellOf(d))
    BY <2>3, <2>6, <2>7 DEF Protocol!CellStep, Protocol!Finish, Protocol!Settle, CellOf
  <2> QED BY <1>1, <2>2, <2>5, <2>8, PutCell DEF s
<1>4. \/ UNCHANGED frames
      \/ LET bad == job[h].error \/ s.error \/ Found(job[h].token) = {} \/ ~s.input \/ s.output \/ s.consumed
         IN  frames' = Put(k, f, [s EXCEPT !.error = s.error \/ bad, !.output = s.output \/ ~bad,
                                           !.owned = FALSE, !.pins = {}])
  BY DEF Complete
<1>5. (job[h].error \/ s.error \/ Found(job[h].token) = {} \/ ~s.input \/ s.output \/ s.consumed)
        \in BOOLEAN
  OBVIOUS
<1> HIDE DEF s, f, k
<1> QED BY <1>2, <1>3, <1>4, <1>5

-----------------------------------------------------------------------------
\* Registration begins a row of cells where nothing is pinned; retirement fails
\* every cell of the rows at one address.

LEMMA RegisterCell == ASSUME WindowInv, NEW o \in Owners, Register(o) PROVE Implements
<1>1. PICK k \in Slots :
        /\ ~Busy(k)
        /\ frames' = [frames EXCEPT ![k] = [i \in Ring |-> FreshFrame(None)]]
  BY DEF Register
<1>2. frames' \in [Slots -> [Ring -> FrameState]]
      /\ \A j \in Slots, i \in Ring : frames'[j][i] = IF j = k THEN FreshFrame(None) ELSE frames[j][i]
  BY <1>1, FreshFrameType DEF WindowInv, TypeInv, TypeOK
<1>3. Shaped(FreshFrame(None)) BY DEF Shaped, FreshFrame
<1>4. StatesShaped' BY <1>2, <1>3 DEF WindowInv, StatesShaped, Shaped
<1>5. CellOf(FreshFrame(None)) = Protocol!New(None, "open", FALSE)
  BY FreshFrameType, StageOf DEF CellOf, FreshFrame, Protocol!New
<1>6. \A i \in Ring : ~Cells[k][i].pinned BY <1>1 DEF Busy, Cells
<1>7. Cells' = [Cells EXCEPT ![k] = [i \in Ring |-> Protocol!New(None, "open", FALSE)]]
  <2> DEFINE C(x) == CellOf(x)
  <2>1. /\ Cells = [j \in Slots |-> [i \in Ring |-> C(frames[j][i])]]
        /\ Cells' = [j \in Slots |-> [i \in Ring |-> C(frames'[j][i])]]
    BY DEF Cells, CellOf
  <2>2. C(FreshFrame(None)) = Protocol!New(None, "open", FALSE) BY <1>5
  <2> HIDE DEF C
  <2>3. [i \in Ring |-> C(frames'[k][i])] = [i \in Ring |-> Protocol!New(None, "open", FALSE)]
    BY <1>2, <2>2
  <2>4. \A j \in Slots \ {k} : [i \in Ring |-> C(frames'[j][i])] = [i \in Ring |-> C(frames[j][i])]
    BY <1>2
  <2> QED BY <2>1, <2>3, <2>4
<1>8. Protocol!Begin BY <1>6, <1>7 DEF Protocol!Begin
<1> QED BY <1>4, <1>8 DEF Implements, Protocol!Next

LEMMA DestroyCell == ASSUME WindowInv, NEW o \in Owners, Destroy(o) PROVE Implements
<1> DEFINE Hit(k) == reg[k].active /\ VaOf[reg[k].owner] = VaOf[o]
<1>1. frames' = [k \in Slots |-> IF Hit(k) THEN [i \in Ring |-> Failed(frames[k][i])] ELSE frames[k]]
  BY DEF Destroy, Retire
<1>2. \A k \in Slots, i \in Ring :
        frames'[k][i] = IF Hit(k) THEN Failed(frames[k][i]) ELSE frames[k][i]
  BY <1>1
<1>3. \A k \in Slots, i \in Ring : frames[k][i] \in FrameState /\ Shaped(frames[k][i])
  BY DEF WindowInv, TypeInv, TypeOK, StatesShaped
<1> HIDE DEF Hit
<1>4. ASSUME NEW k \in Slots, NEW i \in Ring PROVE Shaped(frames'[k][i])
  BY <1>2, <1>3, FailedCell
<1>5. StatesShaped' BY <1>4 DEF StatesShaped, Shaped
<1>6. ASSUME NEW k \in Slots, Hit(k), NEW i \in Ring
      PROVE  Protocol!Fail(Cells[k][i], Cells'[k][i])
  <2>1. Protocol!Fail(CellOf(frames[k][i]), CellOf(Failed(frames[k][i]))) BY <1>3, FailedCell
  <2>2. Cells[k][i] = CellOf(frames[k][i]) BY CellAt
  <2>3. Cells'[k][i] = CellOf(frames'[k][i]) BY DEF Cells, CellOf
  <2> QED BY <1>2, <1>6, <2>1, <2>2, <2>3
<1>7. ASSUME NEW k \in Slots, ~Hit(k) PROVE Cells'[k] = Cells[k]
  BY <1>2, <1>7 DEF Cells
<1>8. Protocol!End BY <1>6, <1>7 DEF Protocol!End
<1> QED BY <1>5, <1>8 DEF Implements, Protocol!Next

-----------------------------------------------------------------------------
LEMMA LifetimeCell == ASSUME WindowInv, Lifetime PROVE Implements
<1>1. ASSUME NEW o \in Owners, Release(o) \/ AppRelease(o) PROVE Implements
  BY <1>1, StutterCell DEF Release, AppRelease
<1>2. ASSUME NEW k \in Slots, Map(k) PROVE Implements BY <1>2, StutterCell DEF Map
<1> QED BY <1>1, <1>2, RegisterCell, DestroyCell DEF Lifetime

LEMMA ClientCell ==
  ASSUME WindowInv, AnyClient \/ \E c \in Clients : ClientStep(c)
  PROVE  Implements
<1>1. ASSUME NEW t \in KnownTokens, NEW f \in Frames, ClientFail(t, f) \/ ConsumerSubmitted(t, f)
      PROVE  Implements
  BY <1>1, FailFrameCell, ConsumedCell DEF ClientFail
<1>2. ASSUME NEW c \in Clients, ClientCheck(c) \/ ClientExpire(c) PROVE Implements
  BY <1>2, CheckCell, ExpireCell DEF ClientCheck, ClientExpire, Threads
<1>3. ASSUME UNCHANGED frames PROVE Implements BY <1>3, StutterCell
<1>4. ASSUME NEW c \in Clients, ClientStep(c) PROVE Implements
  BY <1>2, <1>3, <1>4, PublishCell
  DEF ClientStep, Snapshot, DropSnapshot, ClaimQueue, WaitOutput
<1> QED BY <1>1, <1>4 DEF AnyClient

LEMMA HipCell == ASSUME WindowInv, NEW h \in Hips, HipStep(h) PROVE Implements
<1>1. ASSUME UNCHANGED frames PROVE Implements BY <1>1, StutterCell
<1>2. ASSUME NEW j, j.token = job[h].token, j.frame = job[h].frame, FailJob(h, j) PROVE Implements
  BY <1>2, FailJobCell
<1>3. CASE HipCheck(h) \/ HipExpire(h)
  BY <1>3, CheckCell, ExpireCell DEF HipCheck, HipExpire, Threads
<1>4. CASE Claim(h) BY <1>4, ClaimCell
<1>5. CASE FinishMarker(h)
  <2>1. job[h].active BY <1>5 DEF FinishMarker, WindowInv, TypeInv, WellFormed, HipFormed
  <2>2. FailJob(h, job[h]) \/ Complete(h) BY <1>5 DEF FinishMarker
  <2> QED BY <1>2, <2>1, <2>2, CompleteCell
<1>6. ASSUME DeviceSync(h) \/ \E s \in LaunchStreams : StreamSync(h, s) PROVE Implements
  <2>1. \/ FailJob(h, job[h])
        \/ job[h].active /\ Complete(h)
        \/ UNCHANGED frames
    BY <1>6 DEF DeviceSync, StreamSync
  <2> QED BY <1>1, <1>2, <2>1, CompleteCell
<1>7. CASE ThreadExit(h) BY <1>1, <1>7 DEF ThreadExit
<1>8. ASSUME NEW f \in Frames, BeginJob(h, f) PROVE Implements
  <2>1. FailJob(h, job[h]) \/ UNCHANGED frames BY <1>8 DEF BeginJob
  <2> QED BY <1>1, <1>2, <2>1
<1>9. ASSUME NEW import \in BOOLEAN, NEW s \in LaunchStreams, Launch(h, import, s) PROVE Implements
  <2> DEFINE j == job[h]
             routed == IF j.bound = None /\ import THEN [j EXCEPT !.bound = s] ELSE j
  <2>1. FailJob(h, j) \/ FailJob(h, routed) \/ UNCHANGED frames BY <1>9 DEF Launch
  <2>2. routed.token = j.token /\ routed.frame = j.frame
    BY DEF WindowInv, TypeInv, TypeOK, Job
  <2> HIDE DEF routed
  <2> QED BY <1>1, <1>2, <2>1, <2>2
<1>10. ASSUME NEW exact \in BOOLEAN, SetFlag(h, exact) PROVE Implements
  <2>1. FailJob(h, job[h]) \/ UNCHANGED frames BY <1>10 DEF SetFlag
  <2> QED BY <1>1, <1>2, <2>1
<1>11. ASSUME NEW kind \in ProbeKinds, NEW k \in Slots, ProbeBegin(h, kind, k) PROVE Implements
  BY <1>1, <1>11 DEF ProbeBegin
<1>12. ASSUME NEW launched \in BOOLEAN, NEW synced \in BOOLEAN, ProbeEnd(h, launched, synced)
       PROVE  Implements
  BY <1>1, <1>12 DEF ProbeEnd
<1> QED BY <1>3, <1>4, <1>5, <1>6, <1>7, <1>8, <1>9, <1>10, <1>11, <1>12 DEF HipStep

LEMMA WindowInit == Init => StatesShaped /\ Protocol!Init
<1> SUFFICES ASSUME Init PROVE StatesShaped /\ Protocol!Init OBVIOUS
<1>1. \A k \in Slots, i \in Ring : frames[k][i] = FreshFrame(None) BY DEF Init
<1>2. Shaped(FreshFrame(None)) BY DEF Shaped, FreshFrame
<1>3. StatesShaped BY <1>1, <1>2 DEF StatesShaped
<1>4. CellOf(FreshFrame(None)) = Protocol!New(None, "open", FALSE)
  BY FreshFrameType, StageOf DEF CellOf, FreshFrame, Protocol!New
<1>5. Cells = [k \in Slots |-> [i \in Ring |-> Protocol!New(None, "open", FALSE)]]
  <2> DEFINE C(x) == CellOf(x)
  <2>1. Cells = [k \in Slots |-> [i \in Ring |-> C(frames[k][i])]] BY DEF Cells, CellOf
  <2>2. C(FreshFrame(None)) = Protocol!New(None, "open", FALSE) BY <1>4
  <2> HIDE DEF C
  <2> QED BY <1>1, <2>1, <2>2
<1> QED BY <1>3, <1>5 DEF Protocol!Init

LEMMA WindowStep ==
  TypeInv /\ JobOwnsItsState /\ StatesShaped /\ [Next]_vars => StatesShaped' /\ [Protocol!Next]_Cells
<1> SUFFICES ASSUME WindowInv, [Next]_vars PROVE Implements
  BY DEF WindowInv, Implements
<1>1. CASE UNCHANGED vars BY <1>1, StutterCell DEF vars
<1> QED BY <1>1, LifetimeCell, ClientCell, HipCell DEF Next

\* The frame window implements FrameProtocol for every window, number of
\* registrations, threads and streams: inputs are published and taken once,
\* answers come once and are consumed once, failures are final, and pins last
\* from the publication to the settlement.
THEOREM FramesImplementProtocol == Spec => FrameProtocolProperty
<1>1. Spec => []StatesShaped /\ [][Protocol!Next]_Cells
  BY WindowInit, WindowStep, WellFormedAlways, JobOwnership, PTL DEF Spec
<1>2. Spec => Protocol!Init BY WindowInit DEF Spec
<1> QED BY <1>1, <1>2, PTL DEF FrameProtocolProperty, Protocol!Spec
=============================================================================
