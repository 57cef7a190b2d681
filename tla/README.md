# Formal models of Nextcore-GPU

TLA+ modules, TLC configurations and TLAPS proofs for the parts of
Nextcore-GPU that keep state or decide what is accepted: the Vulkan compute
session and its choice of a device, the SPIR-V profile and the validator process,
the compute pipeline manager, the guest-facing SGPU session and its wire codec,
the command executor, the synchronization objects, the virtual device, the
textures, the framebuffers and the rasterizer, the Metal transport and what is
reported of guest Metal.

    tlc -workers 2 -config MCVulkanSession.cfg MCVulkanSession
    tlapm SgpuSessionProofs.tla

Every definition is written from the Rust source (`src/src/*.rs` below, given as
`file:line`). `PROJECT.json` maps each definition to its lines and lists the
runs, the hazards and the theorems.

## 1. Inventory

| Component | Source | State | Operations |
|---|---|---|---|
| Vulkan session | `vulkan_compute.rs` | driver objects, `in_flight`, cached pipeline and its key | open, `dispatch` (prepare, upload, record, submit, wait, read back), poison, drop |
| Compute manager | `compute.rs` | pipelines, storage buffers, an optional backend | create, delete, write, `dispatch` |
| SGPU session | `sgpu_compute.rs` | guest handles, guest kernels, byte account, command counter | register, unregister, write, `submit`, `submit_wire` |
| Wire codec | `sgpu_command.rs` | none | encode and decode a command window |
| Command executor | `command_executor.rs` | vertex and index buffers, bindings, active pass, counter | create, write, `execute` and its variants |
| Synchronization | `sync.rs` | fences (two words), semaphores, events | create, signal, wait with a timeout, reset, `reset_all` |
| SPIR-V profile | `vulkan_compute.rs:234` | none | word-level inspection of a module |
| Validator process | `vulkan_compute.rs:440` | a temporary file, a child process | `validate_module` |
| Device selection | `vulkan_compute.rs:551-891` | none | probe, match, choose memory types, check limits |
| Virtual device | `virtual_device.rs` | host buffers | validated copy lists |
| Textures | `texture.rs` | textures, samplers | create, upload, download, sample |
| Framebuffer | `framebuffer.rs` | pixels, dirty flag, front and back buffer | clear, set, present |
| Rasterizer | `rasterizer.rs` | depth buffer | triangles, lines |
| Render pipelines | `render_pipeline.rs` | an id counter | descriptions |
| Metal transport | `metal_transport.rs` | none | parse a frame, refuse to execute it |
| Metal gates and probes | `metal_d10_gates.rs`, `metal_*probe.rs`, `metal_acceptance.rs`, `metal_public_abi.rs`, `display_path_freeze.rs` | none; a Vulkan instance while a probe runs | evaluate a transcript, probe, answer guest calls |
| Tables | `canonical_spec.rs`, `adapters/`, `translator.rs` | none | lookups |

How they interact: a guest's list goes through the **SGPU session**, which
checks it as a whole and hands each dispatch to the **command executor**; the
executor calls the **compute manager** with a private fence; the manager copies
the bound ranges and calls the **Vulkan session**, which asks the **validator
process** and then drives the GPU. All calls are synchronous and borrow their
callee exclusively. Concurrency enters at three places: the GPU, which works on
a submission whether or not the host still waits for it; threads that share
fences, semaphores and events; threads that validate modules at once, next to a
child process and the files of an earlier run.

What is hard in it, and what makes it correct:

- *Vulkan session.* Every driver call may fail; `queue_submit` may fail after
  the device took the work; `wait_for_fences` may time out while the GPU works
  on. Nothing the GPU may touch may be destroyed or reused, nothing else may
  leak, a half-built pipeline may not be mistaken for a cached one, and bytes
  reported as results must be bytes the GPU wrote.
- *Compute manager.* A dispatch is all or nothing for the storage buffers, its
  fence is the sign that all of them are updated, and it touches only the
  ranges it declares.
- *SGPU session.* What preflight checked must still hold at every command of
  the list; a report names exactly the prefix that took effect; a guest reaches
  registered buffers only; the byte account equals what is registered.
- *Command executor.* Bindings and the active pass outlive a list and its
  errors; a failed command leaves nothing, a completed one stays.
- *Synchronization.* `signal` and `reset` of a fence are two stores each;
  `reset_all` is no snapshot; a wait races its timeout.
- *Validator.* Two threads, a deadline, a child that hangs, a crash that leaves
  a file under a name a successor may choose again.
- *Codecs and profiles.* Wire lists, Metal frames and SPIR-V modules come from
  outside; what is accepted must be exactly what the later stages assume.
- *Device selection.* What the report of a device promises is checked again, in
  other words, when a dispatch arrives; the two must agree.
- *Virtual device.* A copy list is validated as a whole, then executed; no access
  of the second loop may fail.
- *Framebuffers.* Pixels, strides and channel orders agree between operations; sums
  of 32-bit coordinates.
- *Rasterizer.* With the depth test the nearest triangle shows, in whatever order the
  triangles come; clipping loses no point and adds none; the loop of a line must meet
  its end exactly, wherever the end is.
- *Textures.* Ids are never taken up again; a coordinate outside of a texture is folded
  to the texel its address mode names; the offset of a texel is computed in u32.
- *Metal reports.* Only one live transcript with all four tokens verifies Metal, and a
  report names all that was missing; no call of a guest succeeds, not even with an empty list
  of devices; a probe that fails midway still answers and cleans up after itself.

The hazards, each at its line with the properties that cover it, are listed in
`PROJECT.json`.

## 2. Modules

`X.tla` is a component, `MCX.tla` gives the values of its constants, `MCX.cfg`
the run, `XProofs.tla` its theorems. Definitions under a comment *Faulty
variant* are single plausible mistakes: no specification uses them, and
substituted for the definition they stand before (or after, when two variants
share a comment) each of them breaks the property that is there to detect it.
They document what the property is sensitive to.

### VulkanSession, BackendContract

`VulkanSession` models `VulkanComputeBackend::dispatch`
(`vulkan_compute.rs:188`), `Session` and the GPU.

- `live` counts the driver's objects per kind, `held` the handles recorded in
  the session's fields. `Create` makes an object and records it; `Destroy` is
  `mem::take` followed by destroy calls. Losing a handle makes `live > held`,
  a double destroy makes `live` negative.
- `pc` and `step` are the place in `dispatch`: `prepare`/`build`
  (`prepare_pipeline`), `buffer`/`allocate`/`upload` for each binding, `record`
  for the pools and the fence, `submit`, `wait`, `readback`, `return`.
- `memory` keeps, per binding, what the host and what the device see, so that a
  missing flush or invalidate shows as `"undef"` or stale bytes. Bytes are
  `"in"` (uploaded), `"out"` (the requested shader's result), `"junk"`,
  `"undef"`.
- `GpuComplete` is the GPU. It may happen at any time after a submission, also
  after a timeout, after poison and after the backend is dropped.
- `session = "taken"` is poison: `dispatch` took the session out of the backend
  and dropped it; `Drop` keeps every object when `in_flight` is set.

`BackendContract` states what the manager relies on: an answered call has no
work left on the GPU, or the backend refuses for good; what the GPU may still
use exists. `VulkanSession!ImplementsContract` maps the session to it.

### ComputeManager

Pipelines and storage buffers are functions over ids; a descriptor keeps the
product of its workgroup dimensions and its bindings as a sequence. `call` is
the dispatch under way: checks and copies (`BeginDispatch`), the backend
(`BackendFails`, `BackendCompletes`), one `Readback` per binding, one `Commit`
per binding, `SignalFence`, `ReturnDispatch`. The backend is the promise of
`BackendContract`: it answers with results for every binding or fails, with or
without poison. `SetFence` and `ResetFence` are other threads that share the
host's fences. `BeginExecutorDispatch` is the executor's call with a fence
nobody else has. A range is the pair of its offset and size; that the code
computes its end with `checked_add` is part of `InStorage`.

### SgpuSession, SubmissionContract

`SgpuSession` extends `ComputeManager`: the same storage, pipelines and dispatch,
driven by a session. `mode` tells whether the host owns the manager, a session
owns it, or a list is being executed. `Submit` accepts a list that passed
`WithinLimits` and `ValidCommand` for every command; `ExecuteCopy`,
`ExecuteDispatch` and `FinishDispatch` run it, checking again what the code
checks again (`Accessible`, `Runnable`) and reporting `"stale"` if that fails.
The host keeps its manager's operations while there is no session and loses
them while there is one, which is what the move into `SgpuComputeSession::new`
does.

`SubmissionContract` is the guest's view: either nothing happens, or a prefix of
the list takes effect and the report gives its length. In the mapping a buffer
under a running commit loop appears as it was before the dispatch (`Undone`),
so one command is one step of the contract.

### CommandExecutor

Also extends `ComputeManager`. Commands are records; those whose effect is read
by nobody (`SetViewport`, `PushConstants`, `BindTexture`, ...) are one
operation. A draw is reduced to the number of vertices it decodes: that decides
between drawing, the error for incomplete triangles and nothing. The
framebuffer is `"blank"`, `"cleared"` or `"drawn"`. `DrawPanics` is the index
into an empty slice of framebuffers; the model lets a caller catch it and go on.
`start` is a history variable: the data when the current command began.
Index buffers hold the numbers `read_index` returns; a bound index type that
differs from the buffer's is not modelled, nor is 32-bit overflow of
`first_index + i`.

### GpuSync

A fence is `flag` and `value`; `SignalFence`/`RaiseFlag` and
`ResetFence`/`ClearValue` are the two stores of `signal` and `reset`. Semaphores
and events are one atomic word. A waiting thread alternates `Check` and
`CompareClock`. `reset_all` visits the fences, the semaphores and the events.
Creating an object needs the manager exclusively, so it waits for every thread
inside a call of the manager, but not for threads that use a cloned fence.
`clear`, `since` and `overlapped` are history variables.
Atomic accesses interleave. The code uses release stores and acquire loads; no
operation loads a word after storing another one, so store-load reordering is
not observable within an operation. Two readers that disagree about the order of
two independent writers are not modelled.

### SpirvValidator

`validate_module` step by step for several threads of one process: the path from
the process id and the static counter, `create_new`, write, spawn, poll, kill,
reap. `Crash` ends the process at any point and starts a successor that counts
from one again under any process id. A poll that finds the child running changes
nothing and is no step of its own. Removing an existing file and killing a child
are assumed to work; the code ignores their errors. `Binaries` are the modules as the file
holds them, to `spirv-val` mere bytes.

### VirtualDevice

`GpuMemoryManager` and `write_command_buffer` (`virtual_device.rs`). `run` is the
list being written: the validation loop, then the execution loop, a command per
step; `run.before` is the memory when the call began. `freed` is a history
variable. Handles are numbers, at most `MaxHandles` of them.

### SgpuWire

The codec of `sgpu_command.rs`, byte by byte: `EncodeList` is the guest's encoder,
the actions are `decode_window` and `SgpuCommandList::decode` with one action per
early return. A number inside a command is the sequence of its bytes, so that no
byte can be lost unnoticed; counts, offsets and lengths, which the code computes
with, are integers, and the largest 64-bit number is a constant. `Widths` is the
layout that encoder and record decoder share, `RecordLength` the table the cursor
goes by; both come from the code, and `DecodesExactly` relates them.

### SpirvProfile

`inspect_spirv` reads a module instruction by instruction. An instruction is a
record of what the pass looks at; one it ignores is `"plain"`. The header, byte
lengths and the characters of names are left out, as is the malformed instruction
whose word count leaves the module.

### DeviceSelection

From the configuration to the memory of a buffer: the reports of all devices
(`baseline_rejections`), the selection by ids and UUID, the creation of the device,
the limits of a dispatch and the choice of a memory type. A device is a record of
what these checks look at.

### MetalTransport

Frames are sequences of bytes; a byte has `Base` values, 256 in the code and 5 in
the run. A number of four or eight bytes is written as its two halves, the low one
first (`Bytes16`, `Bytes32`, `Bytes64`), and read the same way (`Word16`, ...), which is
little endian without powers of `Base`. The layout of every frame is
the code's, and 64-bit overflow happens at `5^8`. `HeaderChecks` and `BodyChecks`
list the early returns in their order. `execute_shape` refuses everything, as the
code does.

### Framebuffer

`LinearFramebuffer` and `DoubleBuffer`. An operation is one step: its checks
(`Panics`, `Refused`) and the writes it makes one after the other (`Writes`), which
stop at the first behind the end. `OverflowChecks` tells builds apart: `x + w`
panics or wraps. `from_raw` takes any stride and data; the model gives it rows
that do not overlap and data that hold them, of less than `2^32` bytes (`WellFormed`;
an offset is a `u32`). `Operation` is what an operation may be given: any coordinates of
32 bits and any colour, for `blit` a source that is well-formed.

### Rasterizer, MCDrawing

Extends `Framebuffer`: triangles and lines end in its pixels (`Put` is `set_pixel`).
A triangle of a list is one step, which paints the points of its bounding box in the
order of the code's loops (`Scan`, `Paint`); a line is one step per point (`Walk` is the
error term and the next point, `LinePoint` adds the painting). `BeginPass` is what the
executor does at the beginning of a render pass. `RasterSpec` lets the owner of the
framebuffer draw between calls as well (`OwnerDraws`), after which the scene is no longer
known until the next pass; the steps of `MCDrawing` are some of its steps.

The code computes in f32. Here positions lie on a grid of `1/Unit` pixel, depths and
colours are multiples of `1/One`, and a barycentric weight is a numerator over the area
of its triangle, so that every comparison is exact; the scenes of `MCDrawing` have areas
that are powers of two, for which f32 is exact as well. Some of what the model keeps
is easily overlooked: depths are interpolated from the undivided `position.z`
(`rasterizer.rs:281`) while the divided one is computed and dropped; outside of the depth
buffer everything is at distance 1.0 (`get_depth`); the colour of a line takes `t = 0`
when `dx + dy = 0`, which is every diagonal (`rasterizer.rs:356`); and the clear depth of
a pass is ignored. `scene` is a history variable: what was drawn since the depth buffer
was cleared.

### TextureStore

`TextureManager`: both tables with their counters, and `sample_2d`. Data are in units of
four bytes, coordinates in units of `1/Grid`. `made` is a history variable, the owner's
view: what was created, what was last put into it, and whether it was deleted. Three
properties of the code are kept as they are: `address_u` serves both axes and `address_v`
none, the filters are never read (sampling is always nearest), and `ClampToBorder` returns
the edge texel, there being no border colour. `told` is the latest question and its
answer. A texture may have planes larger than the offset can reach; then sampling panics
or, without overflow checks, reads another texel.

### MetalTrack

The evaluator of guest transcripts, the acceptance report, the guest ABI, the display
path freeze and the two probes. A transcript is the set of gates whose token its text
contains, with its provenance. The soft detection of host Vulkan runs step by step, each
of which may fail, with the instance it creates in `instances`. The evaluator keeps nothing
between transcripts; `receipt` is the latest answer of any of these parts.

### Modules that put components together

`Stores` takes the virtual device and the texture store, `Preflight` the
SPIR-V profile and the device selection (`MCVirtualDevice` and `MCPreflight` give them their
constants, `StoresProofs` and `PreflightProofs` their theorems), `MCTransports` the two byte formats and the
Metal reports, `MCDrawing` the framebuffer's own operations and the rasterizer. The first
three pairs share no state: each runs while the other is at rest, which loses no
behaviour of either.

## 3. Runs

| Run | States | Bounds |
|---|---|---|
| `vulkan_session` | 34 thousand | four requests, pairwise different in exactly one part of the pipeline key; up to two bindings; four pipeline builds |
| `compute_manager` | 223 thousand | two pipelines, two buffers of two or four bytes, seven descriptors, one shared fence |
| `sgpu_session` | 420 thousand | two handles, one kernel id, two buffers, lists of up to two commands, one list over the limit |
| `gpu_sync` | 437 thousand up to symmetry | three threads, one object of each kind, two payloads |
| `command_executor` | 2.2 million | two graphics buffers and a texture, or one graphics buffer and a kernel; seven lists |
| `spirv_validator` | 220 thousand | two threads, three calls per process, one crash |
| `virtual_device` | 1.2 million | two allocations, lists of up to two copies; two textures of six descriptors, one sampler, four pairs of coordinates |
| `preflight` | 106 thousand | three complete modules and every edit of one instruction, two for some; up to three devices, seven configurations |
| `transports` | 140 thousand | sGPU: lists of up to three commands, one more than `MaxCommands`, windows around every length; Metal: 1500 requests, and every frame of three of them with one byte changed or cut anywhere; every transcript, guest call and failure of the probe |
| `drawing` | 35 thousand | two framebuffer operations on a padded and on a dense framebuffer; two rasterizer calls on one of four by three pixels, eight meshes of at most two triangles, 29 lines |
| `framebuffer_release` | violation | the framebuffer operations without overflow checks |
| `raster_bgra` | violation | the rasterizer on a framebuffer in format bgra8 |

Why they are enough:

- `vulkan_session`: the key has three parts and a request differs from another
  in each of them alone; two bindings distinguish "this view" from "the other
  view" in both loops; four builds allow build, rebuild, failed rebuild and
  another. The GPU needs at most one outstanding submission: a dispatch that is not
  resolved poisons the backend.
- `compute_manager`: a descriptor for each clause of `validate_dispatch` that
  fails alone, one at an offset, one with two bindings; sizes so that a binding
  can end at, before and behind the end of its buffer.
- `sgpu_session`: the totals are small enough that two resources exceed the byte
  cap, two lists exceed the counter, and one list exceeds the length limit.
- `gpu_sync` has a third thread because a waiter, a signaler and a resetter, or two
  signalers and a resetter, are the smallest races. Threads are interchangeable in
  every action and property, so the run reduces by their permutations.
- `command_executor`: no command relates a texture to a kernel, so the host sets up
  one or the other (the constraint `Separate`); the pass, which draws and dispatches
  share, is in both halves.
- `spirv_validator`: three calls let a successor meet a stale name and then get
  past it; a second crash adds only another stale file.
- `virtual_device`: two copies can chain, overlap or fail in either place. Textures are
  wide, high, empty, in formats of one and of two units, and larger than the offset can
  reach (`2^32` bytes, eight units in the run); coordinates lie inside, on the far edge,
  before and behind the texture in both axes.
- `transports`: sGPU lists at the limit and above it, of the shortest and the longest
  records; the tags and the count are replaced by every small value. The transcripts are
  all sets of tokens under all provenances, and need no bound.
- `preflight`: the checks concern one instruction or the relation of two, so
  one edit of a complete module meets each of them alone; a device for each missing
  requirement, two that share ids and two that share all.
- `drawing`: the second operation finds what the first one drew; coordinates lie on
  both sides of each edge and next to `2^32` (128 in the run). Two calls let a triangle
  meet one that is nearer, farther, at the same depth or drawn without the depth test,
  or a depth buffer that was cleared or does not cover the frame; triangles are of both
  windings, tilted, degenerate, clipped and outside; lines reach every point of the
  frame from a corner, and two cross it with both ends outside, one in each direction. A
  line much longer than these ends in the overflow panic that the model has for small
  integers as the code for large ones (one in the run does): such a line says nothing about
  the picture.

Deadlock is checked in every run but two. In `vulkan_session` the host may drop
the backend, after which nothing happens; in `spirv_validator` the process may
have no module left to validate and simply rests.

Type invariants are proved where a module has proofs (`ManagerTypeOK`, the `TypeOK` of
`SgpuSession`, `VulkanSession`, `GpuSync` and `SpirvValidator`, `MemoryTypeOK` and
`RunTypeOK` of the virtual device) and are therefore in no run.

What the runs show:

- `vulkan_session`: whatever fails, and whenever the GPU finishes, nothing it may
  use is destroyed (`InFlightRetained`), nothing else leaks and no handle is
  lost (`HandlesExact`), a pipeline outlives its users (`PipelineOutlivesUsers`),
  success means the bytes that the GPU wrote with the requested shader
  (`OkMeansGpuOutput`), every dispatch returns (`DispatchReturns`), and callers get
  the contract: poison included (`ImplementsContract`).
- `compute_manager`: dispatches are atomic (`DispatchAtomic`), complete
  (`CommitComplete`), confined to their ranges (`DispatchConfined`) and signal
  only their own fence and only at the end (`FenceAfterCommit`).
- `sgpu_session`: the registry stays sound under any sequence of calls
  (`RegistrySound`), the account is exact and the command counter in its
  width (`AccountingExact`), preflight suffices (`OnlyBackendFails`), guests are
  confined (`GuestConfined`), a list is reported as the contract says
  (`ImplementsContract`).
- `gpu_sync`: a quiet fence whose flag is down has value 0 however
  its users raced (`QuietFenceIsZero`), a raised flag publishes a signaled value
  unless a reset ran into the signal (`FlagPublishesValue`: that exception is
  real, a fence can end up raised with value 0), a wait gives up only if the
  object was not ready at some moment of it (`TimeoutMeansUnset`), `reset_all`
  leaves set only what was signaled meanwhile (`ResetAllClears`).
- `command_executor`: at every command the counter has grown by one for each
  dispatch and for each draw inside a pass, and no dispatch lies inside one,
  also in the list after a failed draw that left its pass active
  (`ListAccounted`; what a pass is follows from the commands and from the pass
  the list found, not from the executor's own flag), a failed command leaves
  nothing and is not counted (`FailedCommandLeavesNoTrace`).
- `spirv_validator`: acceptance is spirv-val's verdict on this very module
  (`AcceptedIsValid`), a finished call leaves no child and no file
  (`NothingLeftBehind`), stale files are left alone (`OnlyOwnFiles`), calls
  return although the child hangs (`CallReturns`).
- `virtual_device`: a refused list changed nothing (`AllOrNothing`), an accepted one
  is executed in its order and named no freed buffer (`OkMeansWholeList`); every answer
  about a texture tells what its owner last put there, and a sample is a texel that the
  address mode names (`AnswersExact`).
- `transports`: the sGPU decoder accepts exactly the encoded lists within the limits and
  returns the list that was encoded (`DecodesExactly`); a Metal frame is parsed exactly
  if it is the encoding of a meaningful request (`ParsesExactly`); no report claims Metal
  without one live transcript that has all the evidence, and each names exactly what was
  missing; no guest call succeeds; the detection of Vulkan answers and leaves no instance
  behind, whichever of its steps fails (`HonestReports`).
- `preflight`: the limits are checked with the size the shader really has
  (`LimitsSeeTheRealSize`), the bindings are those of its storage buffers
  (`BindingsExact`), and the complete modules pass (`ProfileAccepted`); no other device than the named one is opened
  (`OpensOnlyTheNamed`), the report's baseline suffices for the least dispatch
  (`BaselineSuffices`), memory is mappable, large enough and coherent if possible
  (`MemorySuits`).
- `drawing`: a framebuffer operation changes exactly the points of its rectangle, or
  nothing (`DrawsExactly`); after any two calls of the rasterizer the picture is the
  scene, point by point (`PictureExact`); every line ends (`LinesEnd`).
- `framebuffer_release` shows a disagreement between code and tests
  (`OutsideRefused`): `fill_rect` and `blit` add 32-bit coordinates before they compare
  them (`framebuffer.rs:195`, `203`, `231`). Without overflow checks a sum wraps and a
  rectangle far outside is accepted; `x = 2^32 - 1`, `w = 1` on row 1 paints the last
  pixel of row 0. With overflow checks the call panics where the error type and the
  tests promise `OutOfBounds`.
- `raster_bgra` shows another (`ColoursKept`): the rasterizer puts a colour into the
  order of the framebuffer (`rasterizer.rs:301`, `363`) and `set_pixel` does so again, so
  in a Bgra8 or Bgrx8 framebuffer red and blue are exchanged. The tests of the rasterizer
  use Rgba8, for which both conversions are the identity; a test of the framebuffer
  (`tests/gpu_framebuffer.rs:32`) says that Bgra8 keeps a colour.

### Fairness

| Specification | Assumption | Why |
|---|---|---|
| `VulkanSession!FairSpec` | `WF(Host)` | the calling thread runs, and `wait_for_fences` has a timeout; the GPU is not assumed ever to finish |
| `MCDrawing!DrawingSpec` | `WF` of `Walk` | the loop of `rasterize_line` is not interrupted: a call runs until it returns |
| `SpirvValidator!ValidatorSpec` | `WF` per thread, `WF` of its clock | threads are scheduled and time passes; the child is not assumed ever to exit |

The other specifications state safety only.

## 4. Proofs

Eight modules of theorems prove, for all values of the constants that satisfy the
assumption of their module, what the runs check on small instances. No bound on sizes,
numbers, threads or the length of a behaviour is left. The argument is always the same:
an inductive invariant, shown to hold at the start, to be kept by every action (one step
per action) and to imply the property. What has to be added to the properties to make
them inductive says why the code is right.

*ComputeManager* (`ComputeManagerProofs`). `ManagerTypeOK`, `DispatchAtomic` and
`CommitComplete` are not inductive on their own. `ManagerInv` adds `CallShape` (while a
dispatch is under way its id names a valid descriptor, and the sequences of views and
results have the lengths and sizes its bindings declare, as far as the read loop got) and
`CommitProgress` (the bindings before `turn` already hold their results and the others
still their old bytes). The step of `CommitProgress` needs that no two bindings share a
buffer, the clause of `validate_dispatch` (`NoAliasing`) without which a later commit
would overwrite an earlier one. Theorems: `ManagerTypeCorrect`, `DispatchIsAtomic`,
`CommitIsComplete`, `FenceSignalsCommit`, `DispatchIsConfined`.

*SgpuSession* (`SgpuSessionProofs`). `SessionInv` keeps `ManagerInv` and adds
`RegistrySound`, `Preflighted` (every command of the list that is being executed still
passes `ValidCommand`, because nothing that executes changes the registry, a pipeline or
the size of a buffer), `Position`, `CallOfCurrent` and `NoSessionNoHandles`. Theorems:
`TypeCorrect`, `RegistryIsSound`, `PreflightSuffices`, `GuestIsConfined`.
`AccountingIsExact` is about a sum over the registered buffers; that a sum grows by what
is added is proved by induction on finite sets. `SubmissionRefinesContract`
is the refinement: the initial states map to those of `SubmissionContract`, and every step
to one of its steps or a stutter.

*VulkanSession* (`VulkanSessionProofs`). `SessionInv` has three layers. Where the host is:
which values of `pc`, `step` and `session` go together, and that at most one submission is
unresolved (`ControlInv`). Which objects exist there: for each kind how many handles the
session's fields hold at that place, how many are live, and that the pipeline held is the
one of its recorded key (`HeldInv`, `KeyInv`, `DispatchInv`). Which bytes they hold
(`DataInv`). `HandlesExact` alone is not inductive, since a destroy step is right only at
the place where the handle is held. Theorems: `SessionTypeCorrect`,
`SubmissionsAreRetained`, `NothingLeaksOrDies`, `OkIsGpuOutput`, `PipelinesOutlive`, and
the refinement `SessionRefinesContract` of `BackendContract`. Assumed: requests with equal
words, entry point and bindings mean the same shader (`RequestsAssumption`).

*CommandExecutor* (`CommandExecutorProofs`). `ExecutorInv` adds to `ListAccounted` how far
the list got, that the dispatch under way is the list's (`DispatchOfList`), and that the
data are those of the command's start until the first store (`UnchangedSoFar`). Theorems:
`StatisticsAreExact`, `FailedCommandsLeaveNoTrace`.

*GpuSync* (`SoftwareProofs`, which has the parts of the crate that work in memory of their
own: synchronization objects and drawing). `QuietFenceIsZero` and `FlagPublishesValue` hold between the
two stores of a call only because of who is in between: `HalfDone` says what a fence may
look like while somebody signals or resets it, `LookedFirst` that a wait looked at its object
before the clock, `SweptIsClear` what `reset_all` has behind it. Theorems:
`QuietFencesAreZero`, `FlagsPublishValues`, `TimeoutsAreHonest`, `SweepsAreComplete`.

*Framebuffer* (`SoftwareProofs` too). `FrameInv` says that both framebuffers keep the shape
they were made with. Beneath `DrawingIsExact` lies what a sequence of writes leaves: where
all of them are inside and agree on what they want, the bytes they name are as wanted and
the others as they were (`WritesLand`; the fold is followed with the recursive function it
is defined by, as for lists of copies). No byte belongs to two points, rows and padding
considered (`PlacesApart`), so the writes of `clear`, `set_pixel`, `fill_rect` and `blit` say
of each point of their rectangle what is asked for, and of no other point anything.
Theorems: `FramebuffersFormed` (in either build), `DrawingIsExact`. The second has the
hypothesis `OverflowChecks`, and needs it: without the checks a sum of coordinates wraps,
as `framebuffer_release` shows.

*Rasterizer* (`SoftwareProofs` too). `PictureExact` speaks of the moments between calls only;
`PictureInv` says what is on the way there. Three parts:

- `DepthExact`: each value of the depth buffer is the depth of the nearest of the triangles
  that were drawn with the test and cover the point, or the far plane. So the code's one
  comparison is a comparison with all of them (`AheadOfNearest`), whatever their order.
- `LineExact`: a line under way is at a point of its own, and `err` is a function of that
  point: after `u` steps in x and `v` in y of a line that spans `a` by `b` it is
  `(v + 1) * a - (u + 1) * b` (`Term`). From this follow the two comparisons of `e2`: the next
  point is again the nearest to the ideal line (`WalkNext`).
- `SeenExact`: what is seen is the scene, and over it the points that the line under way
  has been at.

A triangle is one step with a loop inside. The bounding box comes once to each of its
points and leaves out none whose centre the triangle covers (`ScanCovers`: where weights of
one sign balance, the centre is between the corners); the signs of the code's weights
decide what the property says with areas (`WeightsAreShares`); and the points of the scan
do not disturb each other (`DoneNext`), so that after the loop each point is as if the
triangle had been drawn there alone (`TriangleDrawn`). Theorems: `RasterIsFormed`,
`PictureIsExact`, for any number of calls, triangles of any size, winding and position,
and any framebuffer and depth buffer. Hypotheses: `OverflowChecks`, since in a build without
them the walk of a line with coordinates far apart may wrap; and `OneColour`, that the
lines have one colour, for which `PictureExact` is stated. Arithmetic is exact in the
model: what f32 rounds is outside of the theorem.

*SpirvProfile, DeviceSelection, SpirvValidator* (`PreflightProofs`). `ProfileInv` says that
after `at` instructions `seen` is exactly what they say, so that at the end it is what the
module says, in whatever order; `TheRealSizeIsChecked`, `ReflectionIsExact` and
`TheProfileIsAccepted` follow. `SelectionInv`: the reports cover the devices in the order
shown, and the chosen device stays the only match. Theorems: `TheNamedIsOpened`,
`BaselineIsEnough`, `MemoryIsSuitable`. `ValidatorInv`: paths are fresh, a call's file is its
own and complete from `spawn` on, a file of this process has a call that holds it, and a
child that accepted has seen the module of its caller. Theorems: `CallsCleanUp`,
`AcceptanceIsSound`, `OldFilesStay`. Assumed: modules, devices and configurations have the
fields the code reads (`ModulesAssumption`, `SelectionAssumption`).

*VirtualDevice, TextureStore* (`StoresProofs`). `AllOrNothing` needs to know that no access
of the execution loop can fail: `DeviceInv` says that the commands validated so far are
executable in the memory of the start, and that execution changes contents but neither
handles nor sizes. Theorems: `ListsAreAllOrNothing`, `HandlesAreNotReused`,
`OkIsTheWholeList` (executing a list of any length is folding it; the fold is followed with
the recursive function it is defined by, whose existence is proved by induction on the sets
`1..n`). `TextureInv` relates the table to the account of the owners: ids were given in
order, a live texture is in the table with the data its owner put there. Most of
`AnswersAreExact` is arithmetic: a folded coordinate of any sign and size is one of
the places that the address mode shows. Its hypothesis `OffsetsFit` says that the build has
overflow checks or that no plane exceeds a 32-bit offset, and it is needed: otherwise
the product wraps and `sample_2d` returns another texel. `StoresAreApart`: the run that
takes both stores together checks each specification.

*MetalTransport* (`TransportProofs`). `TransportInv` says that a shape that was found is
meaningful and that the frame is its encoding. Beneath it lie the facts that the encoding
of numbers, headers, payloads and frames is one to one, from the digits of a number
upwards, and that the checks of a body accept exactly the meaningful shapes (two ranges
overlap exactly if they share a byte). Theorem: `FramesAreRequests`, for bytes of any size
above four, any magic, limit, frames and shapes.

*SgpuWire* (`TransportProofs` too). `WireInv` says of the loop over the records that the
payload up to the cursor is the count and the encoding of the commands decoded so far, and
that they are the first commands of every list whose encoding the window names.
Beneath it: a record and its command determine each other, and what the encoder joins is
followed with the recursive function that `FlattenSeq` is defined by (`Joined`), whose
existence, lengths and prefixes are proved by induction on the number of parts. Theorem:
`PayloadsAreLists`, for any limit below `2^32`, any lists, snapshots and windows.

*MetalTrack* (`TransportProofs` too). `TrackInv` adds to `HonestReports` that an instance of
Vulkan exists exactly between its creation and its destruction, and what the detection has
found at each of its steps. What a report names is followed through the list of codes
(`MissingAreNamed`): the codes are exactly what is missing, and as something is missing from
every report that does not verify, the fallback code is never given. Theorem: `ReportsAreHonest`, with the
feature `vulkan` and without it (the run has it).

What attempts to prove showed about the models:

- `AnswersExact` excused a panic by a texture with more *data* than the offset can reach.
  That is false: with depth 0 a texture has no data, and a coordinate on a far row still
  overflows. The clause now speaks of the plane, and the run has such a texture.
- The arms of the address modes overlapped, which left `CASE` a choice; they are now exclusive.
- `BindingsExact` assumed modules that assign each variable once. The assumption was not
  needed and is gone.

Only model-checked:

- liveness (`DispatchReturns`, `CallReturns`, `LinesEnd`): fairness and `ENABLED` are out of the
  prover's reach;
- what is violated cannot be proved: `OutsideRefused` and `ColoursKept`, as the runs show.

## 5. Plan

Order: what is modelled first is what later modules rest on.

1. Done: `VulkanSession` with `BackendContract`, `ComputeManager`, `SgpuSession`
   with `SubmissionContract`, `GpuSync`, `CommandExecutor`, `SpirvValidator`; the
   invariants of manager and session proved.
2. Done: `SgpuWire`, `VirtualDevice` with its proofs, `SpirvProfile`,
   `DeviceSelection`, `MetalTransport`, `Framebuffer`.
3. Done: `TextureStore`, `Rasterizer`, `MetalTrack`; `MCPreflight`, `MCTransports`,
   `MCVirtualDevice` and `MCDrawing` take the components that fit together in one run.
4. Done: the proofs of section 4. Every invariant and every action property that a
   passing run checks is a theorem; what is left there is liveness.
5. `SessionDevice`: `SgpuSession` over `VulkanSession` itself instead of its
   contract, on an instance small enough for both; the resolution of a bound index type
   that differs from its buffer's.

Abstract specifications worth adding with them: an atomic fence for a `GpuSync` whose resets do not
overlap its signals.

## 6. Not modelled

- `render_pipeline.rs`, `canonical_spec.rs`, `translator.rs`, `adapters/`: data types
  and constant tables without state; a model would repeat the table.
- Rounding of f32, vertices behind the viewer (`w <= 0`), the thickness of a line (the
  code computes half of it and drops it), texture coordinates and normals (carried along
  and never read), the blend functions and vector products (formulas that nothing
  calls).
- Texture filters, mip levels, anisotropy and comparison functions: stored, never read.
- Logging, wording of errors, names of devices.
- Zero handles and ids, which registration refuses before anything else.
- `examples/`, `research/`, `validation/`: recorded evidence and earlier copies
  of the sources.
