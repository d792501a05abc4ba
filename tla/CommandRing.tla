---------------------------- MODULE CommandRing ----------------------------
(***************************************************************************)
(* The command-buffer ring of the deko3d backend and the GPU queue it      *)
(* feeds.                                                                  *)
(*                                                                         *)
(* One DkCmdBuf records into one of RA_DK_NUM_CMDBUFS slices of a single   *)
(* memblock (common.h).  begin_frame (libmpv_dk.c) moves to the next       *)
(* slice, clears the command buffer and waits for that slice's fence;      *)
(* done_frame signals the fences on the queue.  In between, the ra_dk.c    *)
(* handlers either only record into the command buffer, or finish the      *)
(* current list and submit it, some of them also blocking until the GPU    *)
(* has executed it.  The GPU executes the queue asynchronously, in order.  *)
(*                                                                         *)
(* Data is abstracted away: the command buffer is "has unsubmitted         *)
(* commands or not", a submitted list is tagged with the slice whose       *)
(* memory holds it and with the parity of that slice's use, so that a list *)
(* still queued from an earlier use of the slice can be told apart.        *)
(*                                                                         *)
(* A blocking wait on work the caller just submitted (dkFenceWait(f, -1)   *)
(* right after dkQueueSubmitCommands, or dkQueueWaitIdle) is modelled as   *)
(* a guard that the GPU queue has drained: the queue is FIFO and nothing   *)
(* else is submitted while the caller waits, so the wait returns exactly   *)
(* when everything submitted before it, and the list itself, has run.     *)
(***************************************************************************)
EXTENDS Naturals, Sequences
LOCAL INSTANCE SequencesExt

CONSTANTS
  NumSlices,          \* RA_DK_NUM_CMDBUFS
  MaxQueue,           \* bound on the number of items in flight in the queue
  WorkBetweenFrames,  \* whether the caller also uses the ra between frames
  InitMayFail,        \* whether a create in ra_init_dk may return NULL
  ClientFormats       \* DkImageFormats the client may put in its mpv_deko3d_fbo

ASSUME /\ NumSlices \in Nat \ {0}
       /\ MaxQueue \in Nat \ {0}
       /\ WorkBetweenFrames \in BOOLEAN
       /\ InitMayFail \in BOOLEAN
       /\ ClientFormats # {}

Slices == 0 .. NumSlices - 1

(* Kinds of queue items: a command list, dkQueueSignalFence on a slice     *)
(* fence, the signal of the client's done fence, dkQueueWaitFence on the   *)
(* client's ready fence.                                                   *)
Kinds == {"list", "fence", "done", "ready"}

VARIABLES
  cur,         \* priv->dk->cur_cmdbuf_slice
  gen,         \* per slice, parity of the number of times it was rebound
  firstFrame,  \* priv->first_frame in libmpv_dk.c
  clientDone,  \* priv->client_done_fence # NULL
  pending,     \* dk->cmdbuf holds recorded commands not yet submitted
  queue,       \* items submitted to dk->queue and not yet executed by the GPU
  inFrame,     \* the render loop is between begin_frame and done_frame
  phase,       \* the libmpv render context: "none", "ready", or "failed" init
  live,        \* the GPU objects of ra_init_dk not yet destroyed
  fbo          \* priv->cur_fbo: index of its format in ra->formats (0 for
               \* NULL) and the format the client's fbo declared for it

vars == <<cur, gen, firstFrame, clientDone, pending, queue, inFrame, phase, live, fbo>>
ctx == <<phase, live, fbo>>

Item(k, s, g) == [kind |-> k, slice |-> s, gen |-> g]

(* dkFenceWait(&cmdbuf_fences[s], -1) returns once no signal of that      *)
(* fence is still queued; a fence never signalled (zeroed) is signalled.   *)
FenceSignaled(s) ==
  ~\E i \in DOMAIN queue : queue[i].kind = "fence" /\ queue[i].slice = s

Room(n) == Len(queue) + n <= MaxQueue

(* The caller of the ra may use it: inside a frame, or between frames if   *)
(* the configuration allows it.                                            *)
MayRecord == phase = "ready" /\ (inFrame \/ WorkBetweenFrames)

(* Recording a command only: nothing is submitted. *)
Record ==
  /\ pending' = TRUE
  /\ UNCHANGED <<cur, gen, firstFrame, clientDone, queue, inFrame, phase, live, fbo>>

(* dkQueueSubmitCommands(queue, dkCmdBufFinishList(cmdbuf)). *)
Submit ==
  /\ Room(1)
  /\ queue' = Append(queue, Item("list", cur, gen[cur]))
  /\ pending' = FALSE
  /\ UNCHANGED <<cur, gen, firstFrame, clientDone, inFrame, phase, live, fbo>>

(* Submit followed by a blocking wait on a fence signalled by the list.    *)
SubmitAndWait ==
  /\ queue = <<>>
  /\ pending' = FALSE
  /\ UNCHANGED <<cur, gen, firstFrame, clientDone, queue, inFrame, phase, live, fbo>>

-----------------------------------------------------------------------------
(* The hardware format column of formats[] (ra_dk.c), in table order; the  *)
(* other columns are capability data no property is about.                 *)
DkFormats ==
  << "R8_Unorm", "RG8_Unorm", "RGBA8_Unorm", "R16_Unorm", "RG16_Unorm",
     "RGBA16_Unorm", "R32_Uint", "RG32_Uint", "RGB32_Uint", "RGBA32_Uint",
     "R16_Float", "RG16_Float", "RGBA16_Float", "R32_Float", "RG32_Float",
     "RGB32_Float", "RGBA32_Float", "RGB10A2_Unorm", "RG11B10_Float",
     "BGRA8_Unorm", "BGRX8_Unorm" >>

(* ra->formats: ra_init_dk appends one ra_format per entry, in order. *)
RaFormats == DkFormats

NoFbo == [fmt |-> 0, asked |-> ""]

(* wrap_fbo's lookup: fmt is assigned before the test on every iteration, *)
(* so the loop leaves the first entry whose format matches, or the last    *)
(* entry when none does; it is NULL only for an empty table.               *)
FindFormat(tbl, f) ==
  LET i == SelectInSeq(tbl, LAMBDA x : x = f)
  IN IF i # 0 THEN i ELSE Len(tbl)

-----------------------------------------------------------------------------
(* The GPU objects ra_init_dk creates, in the order it creates them: the   *)
(* queue, the command memblock, the command buffer, the descriptor         *)
(* memblock, the query memblock.                                           *)
GpuObjs == <<"queue", "cmdbufMem", "cmdbuf", "descMem", "queryMem">>

(* The objects made when the create after the n-th one returns NULL. *)
Created(n) == {GpuObjs[i] : i \in 1 .. n}

(* The outcomes of ra_init_dk: the number of objects made before it        *)
(* returns -1, or all of them.                                             *)
InitOutcomes == IF InitMayFail THEN 0 .. Len(GpuObjs) ELSE {Len(GpuObjs)}

(* A variant of dk_destroy that does not wait for the queue to be idle.    *)
DkDestroyNoWait(objs) == [waits |-> FALSE, frees |-> objs]

(* dk_destroy on a ra whose objects objs were made: wait for the queue to  *)
(* be idle if there is one, then destroy each object whose handle is not   *)
(* NULL.                                                                   *)
DkDestroy(objs) == [waits |-> "queue" \in objs, frees |-> objs]

(* ra_init_dk returning after making the first n objects: -1 unless all  *)
(* were made.                                                               *)
RaInitDk(n) == [made |-> Created(n), ok |-> n = Len(GpuObjs)]

(* A variant of ra_create_dk that returns NULL without dk_destroy. *)
RaCreateDkNoDestroy(n) ==
  LET r == RaInitDk(n)
  IN [ok |-> r.ok, left |-> r.made, waits |-> FALSE]

(* ra_create_dk: on failure dk_destroy runs on the partly made ra.  The    *)
(* objects it leaves, and whether it waits for the queue.                  *)
RaCreateDk(n) ==
  LET r == RaInitDk(n)
      d == DkDestroy(r.made)
  IN IF r.ok THEN [ok |-> TRUE, left |-> r.made, waits |-> FALSE]
             ELSE [ok |-> FALSE, left |-> r.made \ d.frees, waits |-> d.waits]

(* ra_dk_ctx_init: the swapchain (host memory) and ra_create_dk. *)
RaDkCtxInit(n) == RaCreateDk(n)

(* ra_dk_ctx_uninit: free the swapchain; ra_free calls dk_destroy. *)
RaDkCtxUninit == DkDestroy(Created(Len(GpuObjs)))

(* No render context exists yet. *)
Init ==
  /\ cur = 0
  /\ gen = [s \in Slices |-> 0]
  /\ firstFrame = TRUE
  /\ clientDone = FALSE
  /\ pending = FALSE
  /\ queue = <<>>
  /\ inFrame = FALSE
  /\ phase = "none"
  /\ live = {}
  /\ fbo = NoFbo

(* libmpv init.  Without init params it returns before making anything    *)
(* (as n = 0).  Else ra_dk_ctx_init; on failure init returns               *)
(* MPV_ERROR_UNSUPPORTED.  On success ra_init_dk has recorded the          *)
(* descriptor-set bindings into slice 0, submitted them and waited for the *)
(* queue to be idle, and init sets first_frame.                            *)
LibmpvInit ==
  /\ phase = "none"
  /\ \E n \in InitOutcomes :
       LET c == RaDkCtxInit(n)
       IN /\ c.waits => queue = <<>>
          /\ live' = live \cup c.left
          /\ IF c.ok
             THEN /\ queue = <<>>
                  /\ phase' = "ready"
                  /\ cur' = 0
                  /\ gen' = [s \in Slices |-> 0]
                  /\ firstFrame' = TRUE
                  /\ clientDone' = FALSE
                  /\ pending' = FALSE
             ELSE /\ phase' = "failed"
                  /\ UNCHANGED <<cur, gen, firstFrame, clientDone, pending>>
  /\ fbo' = NoFbo
  /\ UNCHANGED <<queue, inFrame>>

(* libmpv destroy, called outside a frame once init has returned: if       *)
(* ra_ctx was made, ra_dk_ctx_uninit; ra_free does nothing when init      *)
(* failed and left no ra.  Commands recorded and not submitted are         *)
(* dropped with the command buffer.                                        *)
LibmpvDestroy ==
  /\ phase \in {"ready", "failed"}
  /\ ~inFrame
  /\ IF phase = "ready"
     THEN /\ RaDkCtxUninit.waits => queue = <<>>
          /\ live' = live \ RaDkCtxUninit.frees
     ELSE UNCHANGED live
  /\ phase' = "none"
  /\ UNCHANGED <<cur, gen, firstFrame, clientDone, pending, queue, inFrame, fbo>>

(* A variant of begin_frame without the wait on the slice's fence, relying *)
(* on the GPU-side wait for the client's ready fence alone.                *)
BeginFrameWithoutFenceWait ==
  /\ phase = "ready"
  /\ ~inFrame
  /\ Room(1)
  /\ firstFrame => queue = <<>>
  /\ cur' = (cur + 1) % NumSlices
  /\ gen' = [gen EXCEPT ![cur'] = 1 - @]
  /\ firstFrame' = FALSE
  /\ pending' = FALSE
  /\ \E done \in BOOLEAN, ready \in BOOLEAN :
       /\ clientDone' = done
       /\ queue' = IF ready THEN Append(queue, Item("ready", cur', gen'[cur']))
                            ELSE queue
  /\ inFrame' = TRUE
  /\ UNCHANGED ctx

(* A variant of begin_frame that advances the slice index without the      *)
(* modulo RA_DK_NUM_CMDBUFS.                                               *)
BeginFrameNoWrap ==
  /\ phase = "ready"
  /\ ~inFrame
  /\ Room(1)
  /\ firstFrame => queue = <<>>
  /\ cur' = cur + 1
  /\ FenceSignaled(cur')
  /\ gen' = [gen EXCEPT ![cur'] = 1 - @]
  /\ firstFrame' = FALSE
  /\ pending' = FALSE
  /\ \E done \in BOOLEAN, ready \in BOOLEAN :
       /\ clientDone' = done
       /\ queue' = IF ready THEN Append(queue, Item("ready", cur', 0)) ELSE queue
  /\ inFrame' = TRUE
  /\ UNCHANGED ctx

(* begin_frame: on the first frame wait for the queue to be idle; move to  *)
(* the next slice, clear the command buffer (dropping anything recorded    *)
(* and not submitted), wait for the slice's fence; remember the client's   *)
(* done fence and make the queue wait for its ready fence if there is one. *)
BeginFrame ==
  /\ phase = "ready"
  /\ ~inFrame
  /\ Room(1)
  /\ firstFrame => queue = <<>>
  /\ cur' = (cur + 1) % NumSlices
  /\ FenceSignaled(cur')
  /\ gen' = [gen EXCEPT ![cur'] = 1 - @]
  /\ firstFrame' = FALSE
  /\ pending' = FALSE
  /\ \E done \in BOOLEAN, ready \in BOOLEAN :
       /\ clientDone' = done
       /\ queue' = IF ready THEN Append(queue, Item("ready", cur', gen'[cur']))
                            ELSE queue
  /\ inFrame' = TRUE
  /\ UNCHANGED ctx

(* done_frame: signal the client's done fence if any, then the slice's     *)
(* fence, on the queue, and flush.  The command buffer is not submitted.   *)
DoneFrame ==
  /\ inFrame
  /\ Room(2)
  /\ queue' = queue \o (IF clientDone THEN <<Item("done", cur, gen[cur])>> ELSE <<>>)
                    \o <<Item("fence", cur, gen[cur])>>
  /\ inFrame' = FALSE
  /\ UNCHANGED <<cur, gen, firstFrame, clientDone, pending, phase, live, fbo>>

(* wrap_fbo, called by the render loop before begin_frame: look the       *)
(* client's format up in ra->formats; return MPV_ERROR_INVALID_PARAMETER   *)
(* if that gave NULL, else set cur_fbo's parameters (format included) and  *)
(* image.                                                                  *)
WrapFbo ==
  /\ phase = "ready"
  /\ ~inFrame
  /\ \E f \in ClientFormats :
       LET i == FindFormat(RaFormats, f)
       IN /\ i # 0
          /\ fbo' = [fmt |-> i, asked |-> f]
  /\ UNCHANGED <<cur, gen, firstFrame, clientDone, pending, queue, inFrame, phase, live>>

-----------------------------------------------------------------------------
(* dk_tex_create: an initial upload is a host-memory dk_tex_upload (submit *)
(* and wait); then ra_dk_register_texture records a descriptor barrier.    *)
TexCreate ==
  /\ MayRecord
  /\ \E initialData \in BOOLEAN : initialData => queue = <<>>
  /\ Record

(* dk_tex_upload: from a CPU-cached ra_buf it only records the copy and    *)
(* returns; from another buffer or from host memory it submits and waits.  *)
TexUpload ==
  /\ MayRecord
  /\ \/ Record
     \/ SubmitAndWait

(* dk_tex_download: records the copy, submits and waits. *)
TexDownload ==
  /\ MayRecord
  /\ SubmitAndWait

(* dk_clear and dk_blit only record. *)
DkClear == MayRecord /\ Record
DkBlit  == MayRecord /\ Record

(* dk_renderpass_run: bindings, barrier and the draw or dispatch are       *)
(* recorded; a raster pass whose vertex memblock must grow, or whose       *)
(* vertex data exceed 0x7ffc bytes, first waits for the queue to be idle.  *)
RenderpassRun ==
  /\ MayRecord
  /\ \E waitIdle \in BOOLEAN : waitIdle => queue = <<>>
  /\ Record

(* dk_timer_start records a timestamp; dk_timer_stop records one and       *)
(* submits the command buffer.                                             *)
TimerStart == MayRecord /\ Record
TimerStop  == MayRecord /\ Submit

(* mapper_map (hwdec_deko3d.c): a cached frame records an invalidation     *)
(* barrier and submits; a new one registers its planes (barriers only).    *)
MapperMap ==
  /\ MayRecord
  /\ \/ Submit
     \/ Record

(* The GPU executes the oldest queued item. *)
GpuExecute ==
  /\ queue # <<>>
  /\ queue' = Tail(queue)
  /\ UNCHANGED <<cur, gen, firstFrame, clientDone, pending, inFrame, phase, live, fbo>>

Next ==
  \/ LibmpvInit \/ LibmpvDestroy
  \/ WrapFbo \/ BeginFrame \/ DoneFrame
  \/ TexCreate \/ TexUpload \/ TexDownload \/ DkClear \/ DkBlit
  \/ RenderpassRun \/ TimerStart \/ TimerStop \/ MapperMap
  \/ GpuExecute

(* The GPU always makes progress; the caller is not obliged to do anything. *)
Spec == Init /\ [][Next]_vars /\ WF_vars(GpuExecute)

-----------------------------------------------------------------------------
TypeOK ==
  /\ cur \in Slices
  /\ gen \in [Slices -> {0, 1}]
  /\ firstFrame \in BOOLEAN
  /\ clientDone \in BOOLEAN
  /\ pending \in BOOLEAN
  /\ inFrame \in BOOLEAN
  /\ queue \in Seq([kind : Kinds, slice : Slices, gen : {0, 1}])
  /\ Len(queue) <= MaxQueue
  /\ phase \in {"none", "ready", "failed"}
  /\ live \subseteq Created(Len(GpuObjs))
  /\ fbo \in [fmt : 0 .. Len(RaFormats), asked : ClientFormats \cup {""}]

(* The GPU never reads a command list from slice memory that the CPU has   *)
(* started to overwrite: while the CPU records into the current slice, no  *)
(* list from an earlier use of that slice is still queued.  This is what   *)
(* the fence wait in begin_frame is for (libmpv_dk.c:132).                 *)
NoSliceOverwrite ==
  \A i \in DOMAIN queue :
    (queue[i].kind = "list" /\ queue[i].slice = cur) => queue[i].gen = gen[cur]

(* The GPU objects alive are exactly those of a render context that is    *)
(* up: a ra_init_dk that fails part way destroys what it made, and         *)
(* destroy frees everything init made, context after context.              *)
GpuObjectsOwned == live = IF phase = "ready" THEN Created(Len(GpuObjs)) ELSE {}

(* No queued GPU work outlives the queue and the command memory it runs    *)
(* from: done_frame returns without waiting for the frame's work, and      *)
(* dk_destroy must drain the queue before destroying them.                 *)
QueuedWorkMemoryAlive ==
  queue # <<>> => {"queue", "cmdbufMem", "cmdbuf"} \subseteq live

(* Commands recorded into the command buffer are never thrown away: a step *)
(* that moves to the next slice (begin_frame, which clears the command     *)
(* buffer) never finds recorded commands that were not submitted.          *)
NoRecordedWorkDropped ==
  [][cur' # cur => ~pending]_vars

=============================================================================
