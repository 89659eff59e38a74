# A TLA+ model of DLSS-NR on AMD for Linux

The program lets a Windows DirectX 12 payload run its neural renderer on HIP
under Wine/Proton. Three pieces cooperate on every frame: the game's Vulkan
submission (a patched vkd3d-proton), the payload's HIP worker, and between them
a registry of shared buffers in the native bridge. Around them are caches of
repacked weights and an installer that finds a HIP runtime, converts the model
and changes game directories.

The models describe what can go wrong *between* these parts: who may touch a
buffer when, which thread may sleep, what a failure in one place takes away in
another. Source files are named relative to `src/`.

## 1. Inventory

| Component | State | Operations | Interacts through |
| --- | --- | --- | --- |
| Ordered rendezvous, `native/nr_ordered.c` | `nr_resources[128]`, each with 8 frame states; `nr_pin_bundles`; `nr_next_token`; one mutex, one condition variable | register, snapshot, claim queue, retire, publish input, wait output, consumer submitted, fail; startup probes | called from Vulkan queue workers and HIP threads; calls the owner's retain/release callbacks |
| HIP job control, `native/hip_bridge.c` with `nr_begin_job` … `nr_complete_job` | thread-local `nr_job`, `nr_probe` | `stub_launch` (wait, import, kernels, set flag), `stub_sync`, `stub_streamsync` | real HIP runtime; registry |
| Bridge loading and forwarding, `native/hip_bridge.c` | resolved pointers | `ensure_hip`, `hip_preload_deps`, one-line stubs | `dlopen`, HIP |
| vkd3d-proton client: lifetime, `sources/vkd3d-proton-ordered.patch` | `internal_refcount` of resources, snapshots of allocators | try_retain, release, destroy → retire | registry |
| vkd3d-proton client: recording and submission, same patch | per-list armed/wait token, boundaries, queue ids, timeline value | command boundary, claim submission, execute, after producer | registry, Vulkan queue lock and timeline |
| c32 caches, `native/c32_prepack.c`, `native/active_c32.c` | allocation table, weight table, frame budget | track, invalidate, untrack, get, validate, launch | memory stubs of the bridge |
| Deployment, `dlssnr/deploy.py` | store with manifest, backups, journal; game files | install, update, recover, uninstall, status | file system, lock |
| Model conversion, `dlssnr/conversion.py`, `dlssnr/lmxxf.py` | cached weights, staging folders, lock files | convert, validate, publish, retain staging | Wine processes, other installers |
| Runtime discovery, `dlssnr/runtime.py` | managed venv with its marker, record file | probe candidates, install wheel | probe processes, pip, network |
| Front end, `dlssnr/cli.py`, `dlssnr/launch_support.py` | the run's consents and evidence; the user's launch line | install, dry run, doctor, status, uninstall, runtime | all of the above |
| Inspection, `dlssnr/games.py` | chains of imports still to follow | select executable, find the loader, choose runner | game tree, terminal |
| Assets, upstream | none | digests that accept or refuse | front end |
| Release and audit tools, PE trampoline | none another actor sees | | |

Correctness, component by component:

* **Rendezvous.** Every reference taken from an owner is given back exactly
  once; nobody reaches a freed owner; buffers stay pinned while a kernel may use
  them; the frame window hands an input to one job, an output to one consumer;
  a timeout is final; nobody sleeps through what he waits for; every wait ends.
* **Job control.** Output is published only when every stream the job used was
  drained; a failed synchronisation proves nothing, so pins are quarantined; the
  thread-local pointer into the registry never dangles.
* **Client.** A consumer is submitted only after its output, a queue claims all
  buffers of a batch or none, nothing of a failed batch is submitted.
* **Caches.** A packed table is used only while its source is unchanged.
* **Conversion.** The shared weights and bridge are whole or absent for whoever
  looks, with or without the lock; no folder is removed under a Wine process;
  every call ends although Wine need not.
* **Front end and runtime.** Only what was checked and agreed to is deployed;
  reading commands write nothing; exit codes are true; a shared runtime that works
  and a foreign one are left alone; a run does not refuse what an earlier run made.
* **Inspection.** The mod goes beside the game; the evidence of its loading is what
  the loader would do; nothing is skipped in silence; the confirmed runner is used.
* **The user's texts.** Required settings hold, the user's stay, another run
  changes nothing.
* **Deployment.** Wherever a command fails or is killed, what the user had is in
  its place or in the backups, what differs from it is accounted for by a journal, and
  the next commands come to the originals or to one complete installation.

What makes them hard is listed, with lines, under `hazards` in `PROJECT.json`:
threads that meet under a mutex but compute between two critical sections;
timeouts that race answers; tables of fixed size whose slots are reused;
failures half-way through a sequence of retains; threads that die; two GPU
streams, only one of which carries the completion marker; a Vulkan queue that is
unlocked in the middle of a submission; crashes between file operations; processes
that outlive the one that waits for them.

## 2. Modules

### NrOrdered, FrameProtocol

`NrOrdered` models the rendezvous and job control as one state machine, because
their invariants relate the variables of both.

| Variable | Code |
| --- | --- |
| `reg[k]` | `nr_resources[k]` without its frames: `active`, `token`, `owner`, `queue`, `mapped`, `probe_busy` |
| `frames[k][i]` | `nr_resources[k].frames[i]`; `frame = None` stands for `!used`; `owned` is `job_owned`; `pins` the bundle's buffers |
| `nextToken` | `nr_next_token` |
| `refs`, `app`, `life` | `internal_refcount`, whether the application still holds its reference, and whether the destructor ran |
| `drops` | releases a critical section has detached and not yet performed |
| `snap[c]` | the allocator's `nr_snapshots` |
| `waiter[t]` | a thread in `nr_wait_state` and whether it sleeps |
| `job[h]`, `probing[h]` | the thread-locals `nr_job`, `nr_probe` |
| `pc[h]` | where a HIP thread is when a call spans several critical sections |
| `gpu` | kernels launched and not covered by a successful synchronisation since |

Atomicity follows the mutex: a critical section is one action. Calls that lock
several times are several actions. `nr_begin_job` is `BeginJob`, `HipCheck`
(each turn of the wait loop) or `HipExpire`, then `Claim`. The launch of
`k_flag_set` is `SetFlag` (with `nr_seal_job`) and `FinishMarker`, so other
threads run between. A startup probe is `ProbeBegin` and `ProbeEnd`. Releases are
performed after unlocking, one by one, in any order: `Release`. The last one
leads to `Destroy`, which retires what is registered at the buffer's address.
Spurious wakeups are allowed (`Check` of a sleeping thread). The result of every
HIP call is a free choice.

`KernelOf` and `WorkOf` stand for the HIP runtime: a launch adds a kernel, a
successful stream synchronisation removes those of that stream, a device
synchronisation removes all, a failure removes none. A launch that reports an
error has not started; a marker launch followed by a failed synchronisation has.

Abstracted: error codes (only "there is one"); `device`, `size`, `buffer` and
range checks (one device, and the buffer's identity is its owner); the pointers
passed to `k_flag_set` (`exact`); allocation failure of a bundle, which changes
nothing; the query `ms = 0`, which has no caller; the device reference of
`nr_ordered_try_retain`; a marker stream other than the null stream, whose
refusal is one of `Launch`'s failures. A refused call that changes nothing is a
stutter. `Map` is one action for import and mapping.

`FrameProtocol` is what the registry promises of each frame state: a frame is
*open*, then *published* (pinned), *running* under one job (pinned), *ready*,
*consumed*; it may fail at any point; a failure unpins at once unless a job
runs, in which case it is *failing* (pinned) until that job settles it; only a
vacant state is given to another frame. `NrOrdered` maps to it by `Cells`, and
`FrameProtocolProperty` says that it implements it.

`MCNrOrdered` instantiates `NrOrdered` for TLC; the theorems are in
`NrOrderedProofs` and `NrRendezvousProofs`. The operators whose names begin with `Faulty` are the definitions as
a plausible mistake would have them: with one put in place of the original, the
property it is paired with under `mutants` must fail.

### OrderedClient

`OrderedClient` EXTENDS `NrOrdered` and composes it with its caller: the recorder
of command lists, the queue workers, the Vulkan timeline and the GPU. Where
`NrOrdered` lets clients call the registry in any order, here each call is made
from where `sources/vkd3d-proton-ordered.patch` makes it; the HIP workers, the
owners' lifetime and retirement go on as before.

| Variable | Code |
| --- | --- |
| `list[l]` | the recorder's armed producer, the boundary it was cut at, and whether it is closed |
| `held[l]` | whether an execute holds the allocator: `"yes"`, `"no"`, or `"lost"` after a submit of unknown outcome |
| `removed` | the device is marked as removed |
| `work[q]` | the D3D12 queue's worker: its batch, the next submit, the last signal, what went wrong |
| `lock` | who holds the Vulkan queue, on which all D3D12 queues of the instance submit |
| `timeline`, `done`, `sent` | signals submitted, signals reached, command buffers the GPU may still execute |
| `fences` | callbacks that give allocators back |

`ClaimBatch` is `nr_ordered_claim_submission`; `Acquire`, `Submit`, `Continue` and
`Finish` are the cut submits of `d3d12_command_queue_execute`; `PrefixDone` …
`OutputExpires` are `nr_ordered_after_producer`, which runs with the queue unlocked,
so workers of other queues submit in between; `Reacquire` takes it back, or fails.
While a worker is inside a call of the registry it is the list's thread `l`, so
`waiter[l]` and `snap[l]` serve both modules.

Bounds in the model: one split per list (the code allows
`VKD3D_MAX_COMMAND_LIST_SEQUENCES`, four sequences, and treats each like the first)
and one allocator per list, so `snap[l]` is the snapshot of the only split.
`MaxSubmits` bounds signals; `Execute` counts what running workers may still need
(`Owed`), so that the bound never stops a worker half-way. Not modelled:
breadcrumbs and tracing, the fallback and serializing submits, the barriers that
are recorded around a boundary, and a failure of the very first queue acquire,
which is upstream's code.

`OrderedClientProofs` holds the theorems; it EXTENDS those of the registry, because a step
of the whole is a step of `NrOrdered` or a claim of several buffers at once.

### SharedCaches

What installers of different games share: `convert_weights` of
`dlssnr/conversion.py` and `_cache` of `dlssnr/deploy.py`, with every process a
possible victim of a kill.

| Variable | Code |
| --- | --- |
| `lock`, `cached` | `.convert.lock` and the lock of the bridge's directory; the two cached files |
| `folder`, `exists`, `made` | the staging folder of a call, those on disk, the weights in each |
| `wine` | Wine processes in a folder: the converter (`"setup"`) and what outlives it (`"server"`) |
| `digest`, `failed`, `safe` | the validated digest, the pending exception, `safe_to_remove` |

`Return` and `Expire` are the two ends of `subprocess.run(timeout=180)`; `Stop` and
`Await` are `wineserver -k` and `-w`, of which only the second says anything about
what still runs. `flock` never waits here: a call that finds a lock taken raises.

### Installer

One user, one command after the other: `main` of `dlssnr/cli.py` with its phases,
the candidates, probes and wheel installation of `dlssnr/runtime.py`, and between
them games that are started and a driver that comes and goes. `host`, `game`,
`data`, `venv`, `lib` and `cached` are what is outside and on disk; `run` is the
record of `main`'s locals. A command-line option and the answer to the question that
replaces it are one consent. What `install_game` and `convert_weights` do inside is
the subject of `Deploy` and `SharedCaches`; here each is a beginning and an end, with
what may be left in between. `list-games`, `list-protons` and `--self-test` keep no state
and are left out.

`NativeProbe` is the set of answers a library's probe may give. Every library may just
fail, a whole one too: `dlopen` misses an ELF dependency of the host, a metadata call
fails, the architecture is not plain, or the child crashes or is out of time. Only a whole
one answers `ok`, and only with a driver; when the driver is missing or shows no device
it fails for that, which ends the run (`Refuse`). `SkipCandidate` is the loop of
`ensure_runtime` that notes a plain error in `failed` (the code's `errors`) and goes on;
it also stands for a record that cannot be written, which the loop swallows alike.
`AskWheel` is the second call of `ensure_runtime` after the user has agreed, which tries
everything once more. So a whole library may be reinstalled over: the code does that
when its probe failed, and `WheelIsLastResort` says what must have come before. Abstracted:
digests, wording, what is read of each device, and several places of the system and
of a supplied directory as one; the managed venv stands before the system, and the roots
named by `ROCM_PATH` and `HIP_PATH`, which the code tries first, are not told apart.

### Inspection

`resolve_exe`, `prompt_game_executable` and `select_game_executable`; the bounded walk
of imports in `inspect_game`; `resolve_proton` and `confirm_runner`. What each file is, what
each module imports and the runners are chosen freely at the start; parsers of PE, ELF and VDF
files and the walk of the file system are those choices. The DLLs, their names and folders,
`MAX_DEPTH` and the 512 modules are constants; `MCInspection` gives a small tree, and
bounds small enough that both cut the walk. `Chains` says what the loader would do: a set of
sequences, defined without the walk. `InspectionProofs` holds the theorems.

### UserText

The INI text (`_ini`, `_select_wait_method`) and the launch line
(`merge_launch_options`) as sequences of lines and tokens, rewritten in turn by
installer, overlay and user. Here the conversions themselves are the subject and
are modelled by what they do to lines and tokens.

Its properties speak of the whole text, not of single keys: `UserSettingsKept` says where
each old line is found again, that the additions stand together and where, and
`LineKeepsTheUsers` gives each token of the field its place in the printed line. That the next
run accepts what this one wrote, and changes nothing in it, is part of them, since
`install_game` compares texts to tell whether there is anything to do. `MaxLines` and
`MaxTokens` bound the texts of the start only; runs and edits may make them longer. The
theorems are in `UserTextProofs`.

### Deploy

`Deploy` models the commands of `dlssnr/deploy.py` on one game directory, one
action per change of a file or a directory, because a kill or an exception may
fall between any two.

| Variable | Code |
| --- | --- |
| `files["game"]` | the files of `TARGETS` in the game's directory |
| `files["backups"]`, `["undo"]`, `["update"]` | the same files in the store's `backups/` and `undo/` and in the directory of update snapshots |
| `dirs` | which of the store, its three subdirectories and the update folder exist |
| `temps` | which of them hold a `.copy-` or `.write-` file a kill has left |
| `manifest`, `marker` | `manifest.json` and `update.json` as they are on disk, or `None` |
| `op`, `pc`, `todo` | the running command, its next operation, the files its loop has left |
| `data`, `plan`, `prev` | the manifest, update journal and `previous` in its memory |
| `budget` | how many kills, failing operations and edits may still happen |

A content stands for a digest and a mode. Loops over `TARGETS` take the files in
any order: manifests are written with sorted keys, so the order of a recovery is
not that of the first run. `_atomic_copy` and `_journal` rename a complete
temporary over the target, so each is one action; a kill during one is a kill
before it that may leave its temporary (`Writing`, `Crash`). An operation that
raises does so before its effect (`Error`); a check of the code that fails raises
too (`Refused`, `Refuse`); `Caught` says which handler runs, for both. `flock`
admits one command at a time and the kernel frees the lock of a killed one, so
there is one process. `Edit` is the game's overlay: `running_game` is asked when
a command begins, and the game may be started after that.

Two steps of the code that no property tells apart from their neighbour are
merged with it: staging payloads and caching the bridge with the journal entry
that follows (`Installing`, and `Prior` for an update), and the two `mkdir` of
`MkUndo`. Not modelled: symlink checks, dry runs, the launch script's
text, `logs/`. The bridge cache outside the game's directory is in `SharedCaches`,
the text of the settings in `UserText`.

`MCDeploy` instantiates it; `DeployProofs` holds the theorems.

### Transaction

What `Deploy` comes to, in seven variables: an undo log with atomic updates. A file is
saved (`Save`), claimed by a journal (`Claim`), and only then written (`Write`); what is written
is free while nothing is shown as installed, and one of two versions within an update's
`scope`. A version is shown (`Show`) and an update begun, committed or aborted only where the
files are in place; claims are given up (`Release`) only where a file is as it was. The
settings are left out of what must be in place, because the overlay rewrites them. `Reversible`
is what the log is for.

`Deploy` implements it by the mapping `Undoing` at its end. It reads the disk alone, so a kill
is a stutter:

| `Transaction` | in `Deploy` |
| --- | --- |
| `game` | `files["game"]` |
| `saved` | what needs no backup, or has it in `backups/` |
| `claimed` | what the manifest says was touched, unless it says `removed`, and what an update journalled as `ready` replaces |
| `mode` | `updating` while `update.json` says `ready`, else `installed` if `manifest.json` does |
| `version`, `next` | the contents those journals name, or else the originals |

An update is in force when `MarkCommitted` writes `update.json`, not when `NewManifest` writes the
manifest: a recovery in between goes back, and `Transaction` sees nothing of that manifest.
`Begin`, `Commit` and `Abort` are the writes of `ready`, `committed` and `restored`; `Show` is
`Installed`, or `Undone` after a failed uninstallation; `Withdraw` is `Uninstalling` or `Removed`.

## 3. Runs

| Run | Instance | Question |
| --- | --- | --- |
| `window` | 1 slot, window 1, 2 frames, 1 client, 1 HIP thread; fairness | Do the frame states implement `FrameProtocol`? Is a wakeup lost, a job's state taken, a running kernel's buffer unpinned? Does every wait end? |
| `alias` | 2 slots, 2 owners at one address, 3 registrations, probes 1, 2, 3 | Are references conserved on every partial failure, and is no freed owner reached, while aliases retire each other's registrations and slots are reused? |
| `client` | 2 lists, 2 queues, 2 frames, batches of 1 and 2, marker and work stream | With the client's order of calls: is every suffix behind its answer, is output published only after both streams were drained, are buffers alive under the GPU and used by one queue? |
| `recovery` | marker and work stream, clients in any order | Violated, see below. |
| `killed` | 3 files, 2 of them the user's; 2 releases; 2 kills; fairness | Are originals in reach and settled installations whole, and do the commands implement `Transaction`, wherever a command and its recovery are killed? Does a repeated uninstallation get rid of the store? |
| `failing` | the settings are the user's too; one kill, one failing operation, one edit | Do the handlers keep originals, snapshots and readable journals? |
| `first_journal` | as `killed`, with debris in the store | Violated, see below. |
| `shared_caches` | 2 installers, 2 folders, 2 kills; fairness | Are shared files whole or absent for everyone, staging folders kept under Wine, and does every call end? |
| `installer` | umask 0022, 3 commands, one killed | Is only what was checked deployed, do readers write nothing, are exit codes true, and is the shared runtime replaced only as a last resort? |
| `umask` | umask 0002, one command | Violated, see below. |
| `inspection` | 3 executables, 4 DLLs in 3 folders, 2 runners; chains of 3, 3 modules | What is selected, what does the evidence mean, which runner is used? |
| `user_text` | INIs of up to 3 lines, launch lines of up to 4 tokens, 1 edit | Do required settings, the user's settings, the saved choice and the user's options survive? |

**Bounds.** `MaxToken` bounds registrations, `MaxRefs` is `INT_MAX` scaled to the
number of references an instance can take, so that the refusal of `try_retain`
happens; `MaxResources`, `Window` and the sets are the code's constants scaled
down. The hazards need few actors: two frames to compete for a state, two threads
of a side to compete for a frame, two buffers for a partial failure or an alias,
one re-registration for the reuse of a slot. Nothing in the code counts further
than "another one": loops over slots and buffers treat them alike, and positions
matter only as equal or different. Every run of `NrOrdered` has one HIP thread; that
no number of them makes two jobs share a state is the theorem `JobOwnership`, and
the other properties of `NrOrdered` in `window` and `alias` are theorems for any number too.

`client` has the two queues and two lists that a race for a buffer takes, a window of
one, so that two frames collide, and four signals: two executes of one list, or one
batch of two. Lists and queues are interchangeable, hence the symmetry. There
`OutputMeansDrained` is checked with the client's own order of calls: with clients that
call the registry in any order it falls with `PinsCoverGpuWork` in `recovery`.

For `Deploy` three files are one of each kind: the settings, which the overlay
rewrites and which some checks tolerate; the weights, which alone may be kept and
so get their backup late; and one for all the others, which the code treats
alike. Two releases give one update over one installation and a way back. `MaxCrashes` of
two kills a command and its recovery.

`shared_caches`: two folders let a second conversion start beside one whose staging
folder was kept; with two installers every step of one meets every step of the other.
`installer`: three commands are an installation, what it has left, and one more look
at that; `UserText` needs three lines for a header, a key in it and one elsewhere, four
tokens for an entry before and after `%command%` with an option of the user between.
`inspection`: four DLLs give a name that lies in two folders, a DLL reached by a short
and by a long chain, and a walk cut by depth and by number.

Deadlock is checked in every run but `inspection`, whose program ends.

**Fairness in `window`** (`WaitFairness`): a thread inside `nr_wait_state`
that is not blocked on the condition variable is scheduled, the deadline of a
timed wait passes (every caller passes 2000 ms to `pthread_cond_clockwait`), and
`nr_begin_job` goes on after its wait. Nothing is assumed of the threads it waits
for, of the GPU, or of the releases.

**Fairness in `shared_caches`** (`FairSpec`): a started installer takes its next
step, which is the scheduler's promise; its waits have deadlines, so `Expire` is such
a step. Nothing is assumed of Wine.

**Fairness in `killed`** (`UserFairness`): a command that is not killed goes on
to its end, which is what a sequential program does, and the user asks for an
uninstallation again and again, between whatever other commands. `killed` is
without edits, because the code refuses on purpose to recover over settings that
somebody has changed meanwhile ("retain journal"), and with debris only where
`_cleanup` and `_update_cleanup` know it: in `stage/` and `update/`. What other
debris does, and a failing operation, is what the runs below show; the safety properties are checked
with all of it in `failing`.

**`recovery`, violated.** `stub_streamsync` says "A recovery sync of only one queue
cannot release a failed two-queue job" (`native/hip_bridge.c:870`). It looks at
the thread-local `nr_job.error`. When *another* thread fails the frame — an
expired `wait_output`, `nr_fail`, retirement — `s->error` is set but
`nr_job.error` is not. If the payload then synchronises the marker stream before
it sets the flag, only that stream is drained, `nr_complete_job(0)` finds
`s->error`, and releases the pins while kernels on the work stream may still
run. `window` shows that with one stream (`WorkStreams = {"marker"}`, the
payloads up to 0.4.0) pins do cover all GPU work, and `PinsCoverWork` proves it for any
number of threads and frames.

**`first_journal`, violated.** A kill while the *first* `manifest.json` is written
leaves its temporary in the store (`_atomic_bytes`, `dlssnr/deploy.py:136`). The store
is then no empty claim, and there is no manifest: install and uninstall both answer
"Missing transaction manifest; run uninstall to recover an empty claim", for ever.

Two more ways to break `UninstallSucceeds` can be had from `killed.cfg`:

* with `Debris = {"backups"}`: when an update replaces weights that were kept so far,
  it backs them up without a staging directory (`dlssnr/deploy.py:719`), so a kill
  leaves a temporary in `backups/`, where `_cleanup` knows none (lines 535, 570): after
  the recovery every further update and uninstall is refused;
* with `MaxErrors = 2`: when the final verification of an installation fails, the
  manifest on disk says `installed` while the handler restores files (line 858). If that
  stops half-way, uninstall takes the manifest at its word and refuses the restored
  file, although the message has just asked for it ("run uninstall for recovery").

None of the three loses a file: `OriginalsKept` and `TransactionProperty` are theorems, so they
hold with all debris and all failures.

**`umask`, violated.** `_install_wheel` and `_write_json` make
`~/.local/share/dlssnr-linux` with the user's umask; under 0002 it is open to the group,
and `_cache` then refuses it as insecure (`dlssnr/deploy.py:315`), after the runtime
and the model were prepared, on every run. `OwnWorkAccepted` also falls under 0022 when
a run is killed between the creation of `rocm-venv` and its marker: the next one takes the
empty directory for somebody else's. `FilledVenvIsRecognised` is what does hold: a venv
with a library in it bears the marker, so under 0022 only a foreign or an empty one is
refused; under 0002 the marked venv is refused as well.

## 4. Proofs

Every theorem holds for every value of the constants that satisfies the named
assumptions of its module, so for any number of threads, frames, files, installers,
kills. The runs' properties that are theorems:

| Module | Theorems |
| --- | --- |
| `NrOrderedProofs` | `TypeCorrect`, `WellFormedAlways`, `JobOwnership`; under `FiniteClients`: `ReferencesAreConserved`, `NoOwnerDangles` |
| `NrRendezvousProofs` | `NoWakeupIsLost`, `FramesImplementProtocol`; under `MarkerOnly`: `PinsCoverWork`, `OutputsAreDrained` |
| `OrderedClientProofs` | `ClientOutputsAreDrained`, `QueuesKeepTheirBuffers`, `SuffixesFollowOutputs`; under `FiniteClients`: `BuffersAreKept` |
| `DeployProofs` | `DeployTypes`, `OriginalsAreKept`, `ChangesAreAccountable`, `JournalsAreAccepted`, `SnapshotsAreKept`, `DeployIsTransaction`; as long as `NothingFailed`: `SettledFilesAreWhole` |
| `SharedCachesProofs` | `CacheTypes`, `CachesAreWhole`, `StagingIsKept`, `PublishedStays` |
| `InstallerProofs` | `InstallerTypes`, `ChecksPrecedeDeployment`, `ExitsAreTrue`, `FilledVenvsAreRecognised`, `ReadersWriteNothing`, `WheelReplacesWhatFailed`, `ForeignVenvStays` |
| `InspectionProofs` | `GameIsSelected`, `EvidenceIsExact`, `NothingIsSkipped`, `RunnerIsConfirmed` |
| `UserTextProofs` | `SettingsAreRequired`, `SettingsAreKept`, `WaitChoiceIsKept`, `UpdatesSettle`, `LaunchLineIsKept` |

### The registry

`NrOrderedProofs`:

* `WellFormedAlways`: `TypeInv`, which is `TypeOK` and `WellFormed`. Types alone
  are not inductive: `Destroy` and `Complete` index `frames` by a job's slot and
  frame, and `HipCheck` puts a frame state at the position a waiter names, so the
  invariant also says that waiting threads and active jobs carry a registration
  and a frame, and that `pc` agrees with `waiter` and `job`. One lemma per action;
  the steps of a HIP thread share `FailJobStep`, `LocalStep` and `CompleteStep`,
  and `WellFormedKept`/`WellFormedHip` say what a step need not disturb.
* `TypeCorrect`: `TypeOK`.
* `JobOwnership`: `JobOwnsItsState`. It is inductive relative to `TypeInv`. The
  argument has two halves. First, no step but the completion of a job changes an
  owned state in anything the job relies on (`OwnedKept`): `nr_frame` does not
  recycle it (`OwnedIsHeld`), a failure only marks it (`FailedKept`), a
  registration avoids its slot. Second, a claim takes only states nobody owns
  (`ClaimJobs`), so two jobs never share one, and completing one leaves the others
  (`CompleteJobs`).

Assumptions: sizes are positive, frames are naturals, owners are finitely many,
`None` is none of the values, streams are the two named, clients and HIP threads
are different threads, probes are of kinds 1 to 3.

`NrRendezvousProofs` holds three arguments. `NoLostWakeup` is proved with `WakeInv`: a sleeper waits for something that
is still open, in the state that a frame number has in the registration of its token
(`SleepersAwait`). That needs tokens to be unique, since a sleeper is found by token
(`TokensUnique`), and states to be sound. A step either wakes everybody or leaves what
sleepers wait for open, and no frame with a waiter is recycled.

`PinsCoverGpuWork` and `OutputMeansDrained` are proved for payloads that launch
on the marker stream alone. `KernelsHeld` says that the frame of every kernel is owned,
pinned and unanswered, and that a job on it is the launching thread's; a job settles only
after its stream was drained, and a thread that exits leaves its frame owned for ever. With
a work stream the first of them is false (`recovery`), which is why it is an assumption; the
second is proved for both streams with the client, below.

The refinement: `Init` maps to `Init` of `FrameProtocol`, and every
action to one of its steps or a stutter. A cell is a function of its frame state, so
each lemma says which cells an action moves and how; `StatesShaped` relates the flags of a
state, above all that it is pinned exactly while an input is open or a job owns it.

The second part of `NrOrderedProofs` proves the books of the owners. `Balanced` splits the sum of `RefsConserved`
into snapshots, pins, probes and releases under way; `RowChange` says what replacing one
bundle of a family does to the number of references in it, and so a publication, a
retirement and a completion each move exactly what they take. `Living` says that an owner is
alive exactly while it is referenced and that an active registration's owner is not freed:
its destruction, which retires, comes between. `ProbesHeld` says that no two probes mark
one slot. The counting is done with the library's facts on finite sets, for which
the command lists have to be finitely many (`FiniteClients`).

### The registry with its client

`OrderedClientProofs` proves, for any number of lists, queues, frames and HIP threads and for
both streams, what `client` checks. `SystemInv` is inductive, and TLC has checked it on the
instance of `client`. Along `SystemSpec` the registry keeps the invariants of its own
theorems: `SystemNext` makes its steps, or claims a batch (`ClaimsFor`), for which each is
shown once more.

* `ClientOutputsAreDrained`. That pins cover GPU work is false with two streams; that an
  output is published only after its kernels were drained is true all the same, because the
  client never publishes a frame again while something of it runs. `RequestsInv` says so: what
  is open on the GPU (a published input without an answer, a kernel: `Requested`) is asked
  only by the worker that claimed the buffer, and that worker leaves the frame answered or
  the device removed, after which nobody publishes. There is one such worker, because a buffer
  has one queue (`Claimed`). `KernelsInv` then says that the stream of every kernel is one its
  job will synchronise, or that its frame can no longer be answered.
* `QueuesKeepTheirBuffers` is part of the same invariant.
* `SuffixesFollowOutputs` (an action property): `SuffixInv` carries the output that was waited
  for up to the submission, across the unlocked queue; the token is compared, so a new
  registration in the slot does not pass for the old one.
* `BuffersAreKept`. `SentInv` and `Holders` say that a command buffer on the GPU is covered by
  the worker that sent it, by a fence that gives its allocator back, or by an allocator that
  is given up for good after a submit of unknown outcome. Each keeps its snapshot, and by
  `RefsInv` of `NrOrderedProofs` a snapshot keeps its buffers.

### The installer's parts

`DeployProofs` proves, for any set of files, any releases, and any number of kills,
failing operations and edits, that

* `DeployTypes`: `TypeOK`;
* `OriginalsAreKept`: `OriginalsKept`;
* `ChangesAreAccountable`: a file that differs from what the user had is named by a manifest
  that is not `removed`, or by the update that replaces it (`Accountable`);
* `JournalsAreAccepted`: `JournalsAccepted`;
* `SnapshotsAreKept`: `SnapshotsKept`.

One inductive invariant, `IInv`, gives the first three; TLC has checked its parts on the
instances of `killed` and `failing`. `DiskInv` is the heart of it and speaks of the disk alone,
since a kill leaves nothing else: every manifest tells the truth about originals
(`Faithful`), an update journal agrees with the manifest beside it (`Planned`), a
file that differs from its original is named by the manifest or by a ready
journal, and *whatever is so named is backed up* (`Secured`). The last clause is
what `OriginalsKept` lacks to be inductive: intent is journalled before the
rename, so a file must be secured when it is named, not when it is replaced.
`InstallInv`, `RemoveInv` and `UpdateInv` carry what a command has established on
its way to the next write of the disk: the backups done before `Installing`, the
files restored before `Removed`, the late backup of kept weights before
`MarkReady`; that the files `Recover` put back are the manifest's before `Restored`.
`StoreInv` says that journals need the store. Each action has a lemma; those that
only move the process cite `DiskUntouched`, those that write a file `DiskFiles`,
those that write the manifest `DiskManifest`; `Elsewhere` disposes of the parts
that do not speak of where the command goes. An exception is one lemma
(`CaughtStep`) and so is a kill (`HaltStep`).

The last two need `JInv`, which is inductive beside `IInv`; TLC has checked it on the same
instances. `_validate_manifest` asks more of a manifest in some states than in
others, so what matters is which states the manifest in memory may still be written in
(`Fits`): an installation may write `installed` only when its loop has touched every file that
is not kept, and a failed uninstallation goes back to the state it found (`CarriedInv`, `prev`).
The plan of an update holds two accepted manifests (`PlanInv`), which is why either may be put
on the disk. `TakenInv` follows the snapshots: out of the loop means taken, except that
kept weights are taken one step before they leave it, and since only the weights may be kept
no other file waits there.

`SettledFilesAreWhole` adds `WInv`, also checked by TLC. Its heart is that an installation's
files are whole in the order in which the loops leave `todo`: what an installation copied, what
a recovery put back, what an update replaced and snapshotted (`SnapshotsWhole`), each for the
manifest that the journals will show. The property is `NothingFailed => SettledIsWhole`, with
any number of kills and edits. Without the hypothesis it is false: from `killed.cfg` with
`MaxErrors = 2`, or with `MaxErrors = 1` and a kill, TLC finds an installation whose final
verification fails and whose rollback then stops half-way, which leaves a manifest that says
`installed` over files that are partly restored (section 3).

`DeployIsTransaction` proves the refinement, with every failure and kill, from `IInv`, `JInv` and
`TInv`. The last says that what a journal begins to show is in place: what an installation has
copied so far and the manifest as it wrote it last (`InstallTx`); what an uninstallation found
and saved, so that undoing it puts the installation back (`RemoveTx`); what an update checked
before and after it replaced files, and that its two versions differ only where it took
snapshots (`UpdateTx`, `PendingTx`, `Stepwise`). It is not `WInv`: that follows the files as long
as the manifest says `installed`, which a failed rollback breaks; this one only to the write
that says so first. TLC has checked `TInv` on the instances of `killed` and `failing`. Each
action of `Transaction` has a lemma (`TxSave` ... `TxAbort`), and `TxInstall` to `TxEdit` take
the actions of `Deploy` to them; `TxSwap` is the stutter of the two writes of a manifest within an
update. `TransactionIsReversible` is about `Transaction` alone.

Assumptions (`FilesAssumption`, `ContentAssumption`, `BoundAssumption`,
`DebrisAssumption`, `NoneAssumption`): the settings and the weights are two different
targets; a release's content is neither the user's nor what the overlay writes;
`None` is no journal. The first part of `ContentAssumption` is what lets a model speak of
"differs from the original"; a file the release shares with the user is its own backup.

`SharedCachesProofs` proves with `IInv` that cached files are whole, that staging folders
outlive Wine, and that nothing published is withdrawn. What makes it inductive is what a
conversion knows of its own folder (`OwnFolder`): it is on disk, no Wine process is in it
while it may be removed, and the digest it copies by was that of whole weights; and, in
`TypeOK`, that whoever is inside a conversion holds its lock, so the folder is nobody else's.

`InstallerProofs` proves with `IInv` what a run knows phase by phase: which command may be
where (`ByCommand`), which consents and evidence are established (`Established`), that the
library found is still what it was (`RuntimeFound`), that whoever fills the venv may download,
has made or checked it, and has seen the system's library and a whole managed one fail
(`WheelInv`), and what the game looks like until the deployment (`GameAsItWas`).
The action properties follow from the same invariant. `InstallerTypes` is the type
correctness of the record of `main`'s locals.

`InspectionProofs` proves the four properties of `inspection` for any tree, any bounds and any
answers, with `IInv`, which TLC has checked on small trees. The walk of the imports is a
breadth-first search with a cut: a module met on a chain of `MAX_DEPTH` modules is not followed,
and since it is scheduled only once, a *shorter* chain that came later would be lost with it.
`QueueInv` says why none comes: chains wait in the order of their length, and each is a
shortest one to the module it ends in (no chain of `Reach(Len - 1)` ends there). So a module
that a chain within the bound reaches is met on such a chain, and what is cut is beyond the
bound on every chain. `WalkInv` says that all that chains of the current length reach was
scheduled; when a longer chain is taken up, every module of the shorter ones is `Done`, and its
imports are `Followed` (`NextChain`). At the end `AllReached` takes the first module of a chain
that was not scheduled, a least number of a set; that and not induction over the chain is
what the provers can do.

`UserTextProofs` proves the five properties of `user_text` for texts of any length; the
invariant is `UserTextInv`, that both texts are sequences of lines and of tokens and that the
five hold. What has to be known is what `Ini` and `Merge` compute. Neither needs
induction: `Ini` is one splice of a text whose lines were rewritten in place, so `Layout`
says outright where each line of the old text stands in the new one, which lines were added and
that the one section ends with the last of them (`NewSection` for a text without it, `OldSection`
for one with it, on the library's facts on concatenation). The added lines are a set laid out by
`SetToSeq`, of which only that it lists each element once is used (`SetToSeqIs`). From
`Layout` follow the kept lines (`LayoutKeeps`) and `Settled`, that the section holds each forced
key once; from `Settled` the required values, the wait method that the next run
reads (`WaitWritten`) and that this run finds nothing to do (`RunAgain`). A refused run
leaves the text. For the launch line `LineOf` says where launcher and `%command%` stand
and `MovedBy` by how much each token was moved; `MergeEmpty`, `MergeReplaces` and
`MergeInserts` are the three ways of `merge_launch_options`, `MovedTwice` composes the
completion of the field with the merge, and `LineStays` is the next run. `BoundsAssumption` says
that the bounds are numbers.

### Only model-checked

After an operation
has failed `SettledIsWhole` is no theorem. Left to TLC for good: `WaitsEnd`, `UninstallSucceeds` and
`EveryCallEnds`, liveness under fairness. Every other property of the passing runs is a theorem.

## 5. Plan

Done: the registry and job control with their proofs and the refinement of
`FrameProtocol`; the client that drives them; deployment with the refinement of `Transaction`;
the shared caches; the front end
with runtime discovery; inspection; the user's texts.

All of it has its safety properties as theorems.

Left, in this order:

1. `NrImport`: shared handles that the system reuses, external memory and mappings, in place of
   the one action `Map`. Property: a mapping is attached to the registration its memory came from.
2. `C32Cache`, if the payload's threads become known.

## 6. Not modelled

* **The optimized backend of `dlssnr/lmxxf.py`** (`numpy_python`, `prepare_weights`,
  `activate`): `upstream.VERSION` is 0.5.0, for which `lmxxf.supported` is always false, so
  no run of this release reaches it. Its launch entry is in `UserText`, because
  users paste lines of other releases.
* **The c32 caches** (`native/c32_prepack.c`, `native/active_c32.c`): what could go wrong
  in them, an invalidation or a free that races a launch, takes several host threads of
  the payload, which is not in the repository; with one thread the calls are
  sequential and each does its lookup anew.
* **Loading the bridge** and its one-line stubs, and **the PE trampoline**: one
  initialisation and forwarding.
* **Handles** (`nr_associate_import`, `nr_associate_mapping`): one action `Map`.
* **Parsers** of PE, ELF, VDF and JSON, **digests**, the walk of the file system: every
  outcome they may have is an input of the models.
* **Two wheel installations at once**: the front end's user runs one command at a time;
  `runtime.py` takes a lock around them as `convert_weights` does.
* **Release and audit tooling** (`build_release.py`, `stage_upstream.py`,
  `scripts/audit_upstream.py`): single runs of a developer, without concurrency or recovery.
* GPU arithmetic and the contents of buffers.
