# TLA+ models of the deko3d renderer backend

This directory models the deko3d backend of mpv (`src/video/out/deko3d/`,
`src/video/out/hwdec/hwdec_deko3d.c`) in TLA+ and checks the models with TLC.
The backend turns mpv's `ra` calls (create textures and buffers, clear, blit,
run render passes, time them) into deko3d command lists. It submits them to a
single GPU queue that runs asynchronously from the CPU.
`PROJECT.json` lists every component, run, mutant, finding and hazard, and maps
every modelled definition to the source lines it stands for.

## The system

| Part | Source | State | Operations |
|---|---|---|---|
| Command ring | `common.h`, `libmpv_dk.c` | one `DkCmdBuf`; `cur_cmdbuf_slice`; `RA_DK_NUM_CMDBUFS` (3) memory slices with a fence each; `first_frame`; `client_done_fence` | `begin_frame`, `done_frame`, and the submits of every handler |
| GPU queue | deko3d (not in the repository) | the lists, fence signals and waits submitted but not yet executed | executes in order, asynchronously |
| Descriptor table | `ra_dk.c` 337-385 | `allocated_descriptors[2]` (128 bits), sampler and image descriptor arrays | `ra_dk_register_texture`, `ra_dk_unregister_texture` |
| Textures | `ra_dk.c` 387-622 | memblock, image, `descriptor_idx` | `dk_tex_create`, `dk_tex_destroy`, `dk_tex_upload`, `dk_tex_download` |
| Buffers | `ra_dk.c` 624-697 | memblock, fence, `is_cpu_cached` | `dk_buf_create/destroy/update/poll` |
| Command encoder | `ra_dk.c` 699-765, 1062-1209 | a raster pass's vertex memblock | `dk_clear`, `dk_blit`, `dk_renderpass_run` |
| Pipelines and shader cache | `ra_dk.c` 771-1060 | shader memblock, cached code blob | `dk_renderpass_create/destroy`, `save_shader_code`, `load_shader_code` |
| Timer queries | `ra_dk.c` 1211-1258 | `num_queries`, query memblock; per timer `query_idx[2]`, `cur_idx`, `result` | `dk_timer_create/destroy/start/stop` |
| Imported-resource cache | `hwdec_deko3d.c` | cached entries (handle, frames context, memblock, plane textures), plane layouts | `mapper_map`, `destroy_cache_entry`, `mapper_uninit` |
| Formats | `ra_dk.c` 29-52, 222-244; `libmpv_dk.c` 77-111 | the static `formats[]` table and the `ra->formats` list built from it; `cur_fbo`'s parameters | `wrap_fbo` looks the client's `DkImageFormat` up |
| Context | `context.c`, `libmpv_dk.c` 41-76, 157-164, `ra_dk.c` 194-335 | the queue, command memblock, command buffer, descriptor and query memblocks | libmpv `init`/`destroy`, `ra_dk_ctx_init`/`uninit`, `ra_create_dk`, `ra_init_dk`, `dk_destroy` |

How the parts interact:
- Every handler records into the one shared command buffer.
- Some handlers also submit the command list: `dk_tex_upload` and
  `dk_tex_download` submit and then block on a fence; `dk_timer_stop` and a
  cache hit in `mapper_map` submit without waiting.
- `begin_frame` moves to the next slice, clears the command buffer and waits
  for that slice's fence. `done_frame` signals the fences but submits
  nothing.
- Textures, including the planes of imported frames, take a slot in the
  descriptor table when they are created.
- `dk_renderpass_run_raster` and `dk_buf_update` call `dkQueueWaitIdle`
  before they overwrite memory from the CPU.

The hard behaviours:
- The CPU and the GPU interleave, and the GPU may lag behind the CPU by
  several submissions.
- Memory is reused while GPU work that reads it may still be queued: command
  slices, vertex memory, buffers, imported frames and timestamp slots.
- Allocation failure paths run halfway through a create.
- Fixed pools fill up: 128 descriptor slots and 64 timers.
- Data persisted by one run (the shader cache blob) is trusted by the next.

## Modules

| Module | Models | Checked by |
|---|---|---|
| `CommandRing` | the render context's life (init, with failure at any create, and destroy), the slice ring, the frame protocol of `libmpv_dk.c`, every handler's use of the command buffer, the GPU queue | `ring_pass`, `ring_dropped` |
| `DescriptorTable` (+ `MCDescriptorTable`) | `ra_dk_register_texture` / `ra_dk_unregister_texture` and texture create/destroy | `desc_pass`, `desc_distinct` |
| `TimerQuery` (+ `MCTimerQuery`) | the query pool and `dk_timer_*` against the GPU's timestamp writes | `timer_pass` |
| `RenderCoherence` | vertex memory and buffer contents written by the CPU against the draws and dispatches the GPU runs later | `render_pass`, `render_vao`, `render_buf_update` |
| `ImportCache` (+ `MCImportCache`) | the cache of `hwdec_deko3d.c`, composed with the descriptor allocator and the GPU queue | `import_pass`, `import_evict` |
| `ImportCacheSpec` | what the cache promises (spec 4.7), as an abstract specification that `ImportCache` refines | `import_pass` |
| `PipelineCache` (+ `MCPipelineCache`) | `dk_renderpass_create`, its compile and load paths, and `save_shader_code` / `load_shader_code` | `pipeline_pass`, `pipeline_truncated` |

The `MC*` modules only declare model values and symmetry sets.

### `CommandRing` (the ring and the GPU queue)

**State.**
- `cur` is `cur_cmdbuf_slice`.
- `gen` is the parity of each slice's use.
- `firstFrame` and `clientDone` stand for `first_frame` and
  `client_done_fence`.
- `pending` says whether the command buffer holds commands not yet submitted.
- `queue` holds the submitted items: lists tagged with their slice and its
  parity, and fence signals and waits.
- `inFrame` says whether the caller is between `begin_frame` and `done_frame`.
- `phase` is the libmpv render context: none, ready, or an init that failed.
- `live` is the set of GPU objects `ra_init_dk` made and `dk_destroy` has not
  yet destroyed.
- `fbo` is `cur_fbo`: the index of its format in `ra->formats` (0 while
  `talloc_zero` left it NULL) and the format the client declared.

**Actions.**
- `BeginFrame` and `DoneFrame` are translated line by line.
- Every `ra` handler is one action, reduced to what it does with the command
  buffer: it records only, or submits, or submits and waits.
- A blocking wait on work the caller just submitted (`dkFenceWait(f, -1)` after
  the submit, or `dkQueueWaitIdle`) is a guard that the queue is empty. The
  queue is FIFO and the caller is blocked while it waits, so the two are
  equivalent.
- `GpuExecute` pops the head of the queue.
- `LibmpvInit` is libmpv `init`. It calls `RaDkCtxInit` (`ra_dk_ctx_init`),
  then `RaCreateDk` (`ra_create_dk`), then `RaInitDk` (`ra_init_dk`).
  `ra_init_dk` makes the five objects in order (`GpuObjs`) and returns -1 at
  the first create that fails (`InitOutcomes`). `ra_create_dk` then runs
  `DkDestroy` on what was made.
- `LibmpvDestroy` is libmpv `destroy`, outside a frame. It runs
  `RaDkCtxUninit`, that is `ra_free`, which calls `dk_destroy`: wait for the
  queue to be idle, then destroy each object whose handle is not NULL.
  Afterwards a new render context may be created.
- `WrapFbo` is `wrap_fbo`. `FindFormat` is its loop over `RaFormats`
  (`ra->formats`, built in the order of `DkFormats`, the hardware-format
  column of `formats[]`). The loop assigns `fmt` before testing it, so it
  leaves the first match, or the last entry when nothing matches.

**Constants.** `NumSlices` is `RA_DK_NUM_CMDBUFS`; `MaxQueue` bounds the queue;
`WorkBetweenFrames` says whether the caller may use the `ra` outside
`begin_frame`/`done_frame` (mpv's render loop does not; a libmpv client could);
`InitMayFail` lets any create in `ra_init_dk` return NULL; `ClientFormats` are
the formats a client puts in its `mpv_deko3d_fbo`.

### `DescriptorTable`

**State.** `allocated` maps each word to its set of set bits; `descIdx` holds
each texture's `descriptor_idx`; `live` says which textures exist.

**Operators and actions.**
- `Take(a)` is the word scan with `__builtin_ctzll(~*pos)`: the result index
  and the new bitset. `RegisterTexture` applies it.
- `Releases(a, idx)` is the set of bitsets `ra_dk_unregister_texture` may
  leave. For `idx = -1` the shift is undefined; the model takes either the
  AArch64 result (the count is taken mod 64, clearing bit 63 of word 0) or no
  store.
- `TexCreate` is either a success that registers, or (if `CreateMayFail`) the
  failure path, which calls `dk_tex_destroy` on a zeroed `tex_priv` and so
  unregisters slot 0.
- `TexDestroy` unregisters the texture's slot.

Because `Take` and `Releases` are pure operators, `ImportCache` reuses them
through `INSTANCE DescriptorTable` on its own bitset.

### `TimerQuery`

**State.** `numQueries` is `priv->num_queries`; per timer, `state` (absent,
live, or the NULL that `dk_timer_create` returned), `queryIdx`, `curIdx` and
`result`; `mem` is the query memblock; `cmdbuf` and `queue` hold the recorded
and the submitted counter reports.

**Actions.** `TimerCreate`, `TimerDestroy`, `TimerStart` and `TimerStop`
translate their functions; `GpuReport` executes the oldest report.

**Abstraction of timestamps.** A GPU timestamp is replaced by the cycle that
wrote it: a tag `<<t, n>>`, where the cycle number `n` is a history variable
kept modulo `CycleMod`. GPU timestamps only grow, so the code's test
`query_data[3] > query_data[1]` holds exactly when the slot's latest write was
an end report. The result is the pair of tags whose timestamps the code
subtracts, or `<<>>` for 0.

### `RenderCoherence`

Data is a version number: every set of vertex data or buffer contents the
caller hands over gets the next one. A draw or dispatch is recorded with the
versions it must read, and the GPU compares them with what memory holds when
it executes the command; a mismatch is added to the history `misread`.
- `RunRaster(bound, large, grow)` is `dk_renderpass_run` of a raster pass:
  the vertex memblock is (re)created after `dkQueueWaitIdle` when missing or
  too small (and the run returns if that fails); small vertex data is an
  inline push command, large data a `memcpy` after another `dkQueueWaitIdle`.
  `RunCompute` records a dispatch.
- `BufUpdate(b)` is `dk_buf_update`: a push-constants command for a uniform
  buffer, a `memcpy` after `dkQueueWaitIdle` otherwise.
- `BufCreate(b)` is `dk_buf_create`: a new memblock, then the initial data
  (if any) written as `dk_buf_update` would write it. A failed
  `dkMemBlockCreate` returns NULL and leaves nothing behind. `BufDestroy(b)`
  is `dk_buf_destroy`, which frees the memory at once. The caller is
  responsible for not freeing memory that an unfinished submission uses
  (spec 5), so the action's guard is that no recorded or queued command
  reads the buffer (`Reads`). Runs bind only buffers that exist.
- `AfterRun` is the caller's `timer_stop`, which submits, when
  `TimedPasses`; `Submit` is any other submitting handler.
- `GpuPushVertices`, `GpuPushConstants`, `GpuDraw`, `GpuDispatch` execute the
  head of the queue.

mpv's shader cache wraps every pass run in a timer, so passes are submitted at
once; `TimedPasses = FALSE` is the case where the timer could not be created
(the query pool of `TimerQuery` has run dry, which happens after 64 timers).

### `ImportCache` and `ImportCacheSpec`

**State.** `allocated` is the ra's descriptor bitset; `slots[e]` the
`descriptor_idx` of each plane of entry `e = <<c, h>>` (handle `h` of the
`c`-th frames context); `cache` is `priv->cached_textures`; `curCtx` the
frames context the decoder outputs; `mapped` the entry `mapper->tex[]` shows;
`queue` the submitted passes that sample an entry.

**Actions.**
- `MapperMap(h)` is the whole of `mapper_map`: destroy the stale entries
  (`Stale`, `DestroyEntries`, `DestroyCacheEntry`), then reuse a cached entry,
  or build one (`RegisterPlanes`, a `RECURSIVE` run of `Take` over the
  planes), or fail before any plane is registered when `av_buffer_ref` or
  `dkMemBlockCreate` fails. mpv's `talloc_zero` aborts instead of returning
  NULL, so the branch at `hwdec_deko3d.c:255` is never taken.
- `DecoderReinit` moves to a new frames context; `MapperUninit` destroys
  every entry; `Render` queues a pass sampling the mapped entry;
  `GpuSample` runs one.

**Refinement.** `ImportCacheSpec` states the cache without bitsets: an entry
holds a set of slots, a map evicts the entries of other contexts, then
reuses the handle's entry or gives a new one `NumPlanes` slots no kept entry
holds, or fails. `ImportCache` maps to it by `held[e]` = the set of
`slots[e]` and `Slots` = all indices, and `import_pass` checks `Abs!Spec` as a
property.

### `PipelineCache`

Compiled code is a sequence of abstract bytes `<<src, stage, i>>`, its length
per source and stage chosen in the initial state (what `uam_get_code_size`
returns). A blob is its header fields and its whole byte sequence, the first
`HdrLen` bytes standing for the header.
- `SaveShaderCode(v, f, c)` lays out the header offsets the way
  `save_shader_code` does; `LoadShaderCode(blob, want)` is the set of outcomes
  of `load_shader_code`, and `StageCode` copies `size` bytes from `offset`
  with no check against the blob's length (bytes past the end are `Junk`).
- `Compile(src)` and `LoadOrCompile(src)` are the outcome sets of the two
  shader paths; `CreateRaster` and `CreateCompute` finish the create (vertex
  memblock for raster passes) with `Created` or the `fail_1` path `Failed`.
- `vtxInput` is the vertex attribute in a raster source's params (one
  `ra_vartype` of int, float or byte_unorm, and a `dim_v` of 1 to 4, fixed in
  the initial state). `vao` is the pass's `vao_attribs`: `CreateRaster` fills
  it with `VaoAttrib`, that is `map_vertex_attrib_type` and
  `map_vertex_attrib_size` (a `DkVtxAttribSize_NxB` is the pair `<<N, B>>`).
  mpv never passes a matrix as a vertex input, so `dim_m` is 1. With a matrix,
  `map_vertex_attrib_size` would ignore `dim_m` and return a vector's size,
  although its comment says matrices are not supported.
- `DamageBlob` is the fault model of the persisted program: another magic,
  another version, cut inside the header, or cut inside the code.

## Runs

| Run | Expect | Checks | Shows |
|---|---|---|---|
| `ring_pass` | pass | `TypeOK`, `NoSliceOverwrite`, `GpuObjectsOwned`, `QueuedWorkMemoryAlive` | when the ring is used only inside frames, the fence wait in `begin_frame` keeps the CPU off slices the GPU still reads. Across contexts created and destroyed, with `ra_init_dk` failing at any create, exactly the objects of a live context exist. `dk_destroy` never frees the queue or command memory under queued work. (41 553 states, `WrapFbo` included) |
| `ring_dropped` | violation | `NoRecordedWorkDropped` | `begin_frame` clears commands recorded since the last submit; `done_frame` never submits them |
| `desc_pass` | pass | `TypeOK`, `RegisterTakesLowestFreeSlot` | at the bitset level, registration sets the lowest free slot of the whole table, or nothing when it is full, with failed creates interleaved |
| `desc_distinct` | violation | `DistinctSlots` | two live textures share a `descriptor_idx`: the first texture placed in word 1 is handed index 0 again (`ra_dk.c:352`) |
| `timer_pass` | pass | `TypeOK`, `TimerResultFromOneCycle`, `QuerySlotsExclusive` | a non-zero result never pairs timestamps of two cycles or of two timers, however far the GPU lags; a destroyed timer's queued reports never land in a later timer's slots (191 369 states) |
| `render_pass` | pass | `TypeOK`, `VertexDataCoherent`, `BufferDataCoherent` | with every pass timed, the `dkQueueWaitIdle` before each CPU write covers every earlier read |
| `render_vao` | violation | `VertexDataCoherent` | with an untimed pass, a reallocation frees the vertex memblock under a recorded, unsubmitted inline push (`ra_dk.c:1078`) |
| `render_buf_update` | violation | `BufferDataCoherent` | with an untimed pass, `dk_buf_update` memcpys under a recorded, unsubmitted pass that reads the buffer (`ra_dk.c:685`) |
| `import_pass` | pass | `TypeOK`, `SlotsOwned`, `CacheSpec` | the set bits are exactly the slots of cached planes through eviction, uninit and failed maps, and the mapper refines `ImportCacheSpec` (9 067 states) |
| `import_evict` | violation | `SampledImportsAlive` | an entry is destroyed while a queued pass still samples it (`hwdec_deko3d.c:213`, `:162`) |
| `pipeline_pass` | pass | `TypeOK`, `ShadersAreCompiledCode`, `VertexAttribsMatchInputs` | a pass loaded from a persisted program, even one with a bad magic, version or header length, gets exactly the compiled code. Every live raster pass describes its vertex input with the component count, width and class of its vartype (221 952 states) |
| `pipeline_truncated` | violation | `ShadersAreCompiledCode` | a program cut inside its code with an intact header is loaded, reading past the end of the blob (`ra_dk.c:836-837`) |

Each property of a passing run has a mutant in `PROJECT.json`: a plausible
bug under which TLC finds the property violated.
- `NoSliceOverwrite`: `begin_frame` without its fence wait. `TypeOK` (ring):
  no modulo on the slice index. `GpuObjectsOwned`: `ra_create_dk` returns
  NULL without `dk_destroy`. `QueuedWorkMemoryAlive`: `dk_destroy` without its
  `dkQueueWaitIdle`.
- `RegisterTakesLowestFreeSlot`: a scan of word 0 only. `TypeOK`
  (descriptors): a scan that does not skip full words.
- `TimerResultFromOneCycle`: `dk_timer_start` without the `end > start` test.
  `QuerySlotsExclusive`: `dk_timer_destroy` handing a live timer's two slots
  back to `num_queries`. `TypeOK` (timers): `dk_timer_create` without the
  pool check.
- `VertexDataCoherent`: no wait before the vertex `memcpy`.
  `BufferDataCoherent`: `dk_buf_update` without its wait. `TypeOK` (render):
  no check of the vertex memblock allocation.
- `TypeOK` (import): the plane loop runs one plane too far. `SlotsOwned`:
  `destroy_cache_entry` unregisters plane 0 only. `CacheSpec`: the eviction
  test compares the wrong pointer, so nothing is ever evicted.
- `ShadersAreCompiledCode`: `save_shader_code` does not advance past the
  vertex code. `TypeOK` (pipelines): `load_shader_code` loads every stage.
  `VertexAttribsMatchInputs`: `map_vertex_attrib_size` with BYTE_UNORM
  falling into the INT/FLOAT case.

## Bounds and why they suffice

**`CommandRing`.** 3 slices as in the code. A failure at each of the five
creates of `ra_init_dk` is reached, and contexts are created and destroyed
any number of times. A queue of at most 6 items is two
full frames of work in flight plus fences, enough for the GPU to lag a whole
ring turn behind.

**`DescriptorTable`.** Two words of two bits keep the structure of two 64-bit
words: word 0 fills up and the scan moves to word 1, then both fill and
registration fails. Five textures are one more than the table holds.

**`TimerQuery`.** Two timers and a pool of 4 slots (two timers' worth) reach
exhaustion; cycles counted modulo 4 separate cycles k, k-1 and k-2; a queue
of 4 reports lets the GPU lag two full cycles behind.

**`RenderCoherence`.** Both buffer kinds, two vertex memblocks (one
reallocation), 4 data versions and 4 commands in flight: enough for a run to
be recorded, a second run to write, and the first to execute afterwards.

**`ImportCache`.** Two handles, two planes, three frames contexts (two
evictions) and one 4-bit word. Two entries fill the table exactly, so the
entries of a new context can only get slots if eviction gives slots back. A
queue of 2 lets a sample wait across a map. A third handle would exhaust the
table. The new entry would then hold no slot while the map still succeeds,
which `CacheSpec` rejects; see the hazard at `hwdec_deko3d.c:266`.
`SlotsOwned` alone still holds with three handles.

**`PipelineCache`.** One raster and one compute source, stage code of 1 or 2
bytes and a 2-byte header: the offsets of all three stages differ, a header
cut and a code cut are distinct, and each of the four damage modes applies.
The raster source's vertex input ranges over all 12 vartype and `dim_v`
combinations the renderer can pass.

## Fairness

The only fairness is weak fairness of the GPU steps (`GpuExecute`,
`GpuReport`, the `Gpu*` actions of `RenderCoherence`, `GpuSample`): submitted
work always completes (spec 5: "once submitted, work runs to completion"). The
caller is not obliged to do anything.

No liveness property is checked. Every blocking wait in the code is one of
these:
- a `dkFenceWait(-1)` or `dkQueueWaitIdle` on work already submitted to the
  FIFO queue;
- the `begin_frame` wait on a slice fence signalled by an earlier
  `done_frame`.

So "the wait returns" is the same as "the GPU drains what was submitted"
under the fairness above, whatever the code does, and no mutant of the code
could break it. The only wait on another party is the GPU's
`dkQueueWaitFence` on the client's ready fence. The client's swapchain
signals that fence, and the swapchain is not in this repository.

## Not modelled, and why

- **Shader compilation** itself calls an external compiler; `PipelineCache`
  models only its outcome (code of a fixed length, or failure).
- **Format capabilities.** Only the hardware-format column of `formats[]`
  is modelled (`DkFormats`), because `wrap_fbo` looks it up. The capability
  columns are constant data that mpv's renderer, outside this repository,
  reads.
- **`wrap_fbo` with a format outside the table.** The loop leaves `fmt` at
  the last entry (`BGRX8_Unorm`) when nothing matches, so the `!fmt` check at
  `libmpv_dk.c:91` never fires. The call returns 0 where the spec's error
  taxonomy (d) asks for a parameter error. `ring_pass` gives the client only
  table formats, where the lookup cannot go wrong, so no property is checked
  on `wrap_fbo` there. The failing case needs a violation run of its own, and
  the project has no free run slot.
- **`render_dk3d.h`** only declares the parameter structures of the render
  API. The swapchain functions of `context.c` are all left unset.
- **The GPU itself** is abstract: a FIFO that eventually runs what it is given.
- **Memory sizes and layouts** are left out except where a property is about
  them (timestamps, shader code bytes).
- **`dk_buf_poll`** needs the fence's value semantics; see the hazard at
  `ra_dk.c:696`.

## Plan

Done:
1. `CommandRing` (with the context lifecycle), `DescriptorTable`, `TimerQuery`.
2. `RenderCoherence`: vertex and buffer data against the GPU's reads.
3. `ImportCache`, composed with `DescriptorTable`, refining `ImportCacheSpec`.
4. `PipelineCache`: the shader cache round trip and damaged blobs.
5. The format table and `wrap_fbo` in `CommandRing`; vertex attributes in
   `PipelineCache`; query-slot exclusivity in `TimerQuery`.

Next:
6. The upload-buffer pool and `dk_buf_poll` with fence values (hazard at
   `ra_dk.c:696`).
7. Descriptor exhaustion through the import cache with the renderer's own
   textures sharing the table (hazards at `hwdec_deko3d.c:266` and
   `ra_dk.c:357`). This needs a run slot of its own.
8. A violation run for `wrap_fbo` with a format outside the table (hazard
   at `libmpv_dk.c:91`), which also needs a run slot.
