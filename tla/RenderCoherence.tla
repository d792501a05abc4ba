--------------------------- MODULE RenderCoherence ---------------------------
(***************************************************************************)
(* Data the GPU reads for a render pass, against the CPU writes of         *)
(* ra_dk.c that replace it: the vertex memblock of a raster pass           *)
(* (dk_renderpass_run_raster) and buffers bound to passes (dk_buf_update,  *)
(* dk_renderpass_run).                                                     *)
(*                                                                         *)
(* Data is a version number: every set of vertex data or buffer contents   *)
(* the caller hands over gets the next one.  A draw or dispatch is         *)
(* recorded with the versions it must read; the GPU checks, when it        *)
(* executes the command, what the memory holds then.  Inline writes        *)
(* (dkCmdBufPushData, dkCmdBufPushConstants) are commands executed in      *)
(* order; memcpy writes take effect at once.                               *)
(*                                                                         *)
(* The caller is mpv's shader cache: each renderpass_run is wrapped in a  *)
(* timer, and dk_timer_stop submits the command buffer, unless the timer   *)
(* could not be created (TimedPasses = FALSE, e.g. once the query pool of  *)
(* TimerQuery has run dry).                                                *)
(***************************************************************************)
EXTENDS Naturals, Sequences

CONSTANTS
  BufTypes,         \* buffer types bound to passes: "uniform", "storage"
  LargeVertexData,  \* whether vertex data may exceed the 0x7ffc inline limit
  VaoMayGrow,       \* whether a run may need a larger vertex memblock
  TimedPasses,      \* whether every pass run is followed by dk_timer_stop
  MaxVer,           \* bound on data versions handed out
  MaxEpoch,         \* bound on vertex memblocks created
  MaxCmds           \* bound on commands recorded or queued

ASSUME /\ BufTypes \subseteq {"uniform", "storage"}
       /\ LargeVertexData \in BOOLEAN /\ VaoMayGrow \in BOOLEAN
       /\ TimedPasses \in BOOLEAN
       /\ MaxVer \in Nat /\ MaxEpoch \in Nat \ {0} /\ MaxCmds \in Nat

Versions == 0 .. MaxVer
Epochs == 1 .. MaxEpoch

(* Commands that touch pass data.  A read carries the versions it expects  *)
(* of the buffers bound to it.                                             *)
Cmds ==
  [op : {"pushVtx"}, epoch : Epochs, v : Versions]
  \cup [op : {"draw"}, epoch : Epochs, v : Versions, bufs : UNION {[B -> Versions] : B \in SUBSET BufTypes}]
  \cup [op : {"dispatch"}, bufs : UNION {[B -> Versions] : B \in SUBSET BufTypes}]
  \cup [op : {"pushConst"}, b : BufTypes, v : Versions]

VARIABLES
  vao,       \* pass_priv->vao_memblock: its creation number, 0 for NULL
  nEpochs,   \* vertex memblocks created so far
  vaoMem,    \* version held by the current vertex memblock
  bufCpu,    \* per buffer, version last handed to dk_buf_update
  bufMem,    \* per buffer, version its memory holds
  bufLive,   \* the buffers that exist (dk_buf_create returned non-NULL)
  ver,       \* last version handed out
  cmdbuf,    \* commands recorded and not yet submitted
  queue,     \* commands submitted and not yet executed
  misread    \* kinds of data some executed command read wrongly (history)

vars == <<vao, nEpochs, vaoMem, bufCpu, bufMem, bufLive, ver, cmdbuf, queue, misread>>

(* The versions a pass reading the bound buffers must see. *)
Expect(bound) == [b \in bound |-> bufCpu[b]]

(* timer_stop after the run: dkQueueSubmitCommands of the command buffer. *)
AfterRun(cmds) ==
  /\ Len(queue) + Len(cmds) <= MaxCmds
  /\ IF TimedPasses THEN /\ queue' = queue \o cmds /\ cmdbuf' = <<>>
                 ELSE /\ cmdbuf' = cmds /\ UNCHANGED queue

-----------------------------------------------------------------------------
Init ==
  /\ vao = 0
  /\ nEpochs = 0
  /\ vaoMem = 0
  /\ bufCpu = [b \in BufTypes |-> 0]
  /\ bufMem = [b \in BufTypes |-> 0]
  /\ bufLive = {}
  /\ ver = 0
  /\ cmdbuf = <<>>
  /\ queue = <<>>
  /\ misread = {}

(* A variant of run_raster that does not wait for the queue before the     *)
(* memcpy of large vertex data.                                            *)
RunRasterNoWaitBeforeCopy(bound, large, grow) ==
  LET realloc == vao = 0 \/ grow
      e == IF realloc THEN nEpochs + 1 ELSE vao
      v == ver + 1
  IN /\ ver < MaxVer
     /\ large => LargeVertexData
     /\ grow => VaoMayGrow
     /\ realloc => queue = <<>> /\ nEpochs < MaxEpoch
     /\ ver' = v
     /\ nEpochs' = IF realloc THEN nEpochs + 1 ELSE nEpochs
     /\ vao' = e
     /\ IF large
        THEN /\ vaoMem' = v
             /\ AfterRun(Append(cmdbuf, [op |-> "draw", epoch |-> e, v |-> v, bufs |-> Expect(bound)]))
        ELSE /\ vaoMem' = IF realloc THEN 0 ELSE vaoMem
             /\ AfterRun(cmdbuf \o <<[op |-> "pushVtx", epoch |-> e, v |-> v],
                                     [op |-> "draw", epoch |-> e, v |-> v, bufs |-> Expect(bound)]>>)
     /\ UNCHANGED <<bufCpu, bufMem, bufLive, misread>>

(* A variant of run_raster that goes on when the new vertex memblock      *)
(* cannot be created, binding a NULL memblock.                             *)
RunRasterNoAllocCheck(bound, large, grow) ==
  LET realloc == vao = 0 \/ grow
      v == ver + 1
  IN /\ ver < MaxVer
     /\ large => LargeVertexData
     /\ grow => VaoMayGrow
     /\ realloc => queue = <<>> /\ nEpochs < MaxEpoch
     /\ \E ok \in BOOLEAN :
          LET e == IF ~realloc THEN vao ELSE IF ok THEN nEpochs + 1 ELSE 0
          IN /\ ~realloc => ok
             /\ large => queue = <<>>
             /\ ver' = v
             /\ nEpochs' = IF realloc /\ ok THEN nEpochs + 1 ELSE nEpochs
             /\ vao' = e
             /\ vaoMem' = IF large THEN v ELSE IF realloc THEN 0 ELSE vaoMem
             /\ AfterRun(cmdbuf \o (IF large THEN <<>> ELSE <<[op |-> "pushVtx", epoch |-> e, v |-> v]>>)
                                \o <<[op |-> "draw", epoch |-> e, v |-> v, bufs |-> Expect(bound)]>>)
     /\ UNCHANGED <<bufCpu, bufMem, bufLive, misread>>

(* dk_renderpass_run of a raster pass with the buffers `bound` as inputs,  *)
(* then timer_stop.  A missing or too small vertex memblock is replaced    *)
(* after dkQueueWaitIdle; if it cannot be created the run returns.  Small  *)
(* vertex data is pushed inline into the command buffer; large vertex data *)
(* is memcpy'd after another dkQueueWaitIdle.                              *)
RunRaster(bound, large, grow) ==
  LET realloc == vao = 0 \/ grow
      v == ver + 1
  IN /\ ver < MaxVer
     /\ large => LargeVertexData
     /\ grow => VaoMayGrow
     /\ realloc => queue = <<>> /\ nEpochs < MaxEpoch
     /\ \E ok \in BOOLEAN :
          /\ ~realloc => ok
          /\ IF ~ok
             THEN /\ vao' = 0
                  /\ UNCHANGED <<nEpochs, vaoMem, ver>>
                  /\ AfterRun(cmdbuf)
             ELSE LET e == IF realloc THEN nEpochs + 1 ELSE vao
                  IN /\ large => queue = <<>>
                     /\ ver' = v
                     /\ nEpochs' = IF realloc THEN nEpochs + 1 ELSE nEpochs
                     /\ vao' = e
                     /\ vaoMem' = IF large THEN v ELSE IF realloc THEN 0 ELSE vaoMem
                     /\ AfterRun(cmdbuf \o (IF large THEN <<>> ELSE <<[op |-> "pushVtx", epoch |-> e, v |-> v]>>)
                                        \o <<[op |-> "draw", epoch |-> e, v |-> v, bufs |-> Expect(bound)]>>)
     /\ UNCHANGED <<bufCpu, bufMem, bufLive, misread>>

(* dk_renderpass_run of a compute pass: dispatch reading the bound         *)
(* buffers, then timer_stop.                                               *)
RunCompute(bound) ==
  /\ AfterRun(Append(cmdbuf, [op |-> "dispatch", bufs |-> Expect(bound)]))
  /\ UNCHANGED <<vao, nEpochs, vaoMem, bufCpu, bufMem, bufLive, ver, misread>>

(* A variant of dk_buf_update that writes a non-uniform buffer without    *)
(* waiting for the queue.                                                  *)
BufUpdateNoWait(b) ==
  /\ ver < MaxVer
  /\ ver' = ver + 1
  /\ bufCpu' = [bufCpu EXCEPT ![b] = ver + 1]
  /\ IF b = "uniform"
     THEN /\ cmdbuf' = Append(cmdbuf, [op |-> "pushConst", b |-> b, v |-> ver + 1])
          /\ UNCHANGED bufMem
     ELSE /\ bufMem' = [bufMem EXCEPT ![b] = ver + 1]
          /\ UNCHANGED cmdbuf
  /\ UNCHANGED <<vao, nEpochs, vaoMem, bufLive, queue, misread>>

(* dk_buf_update: a uniform buffer is written by dkCmdBufPushConstants;    *)
(* another one by memcpy after dkQueueWaitIdle.                            *)
BufUpdate(b) ==
  /\ ver < MaxVer
  /\ ver' = ver + 1
  /\ bufCpu' = [bufCpu EXCEPT ![b] = ver + 1]
  /\ IF b = "uniform"
     THEN /\ cmdbuf' = Append(cmdbuf, [op |-> "pushConst", b |-> b, v |-> ver + 1])
          /\ UNCHANGED bufMem
     ELSE /\ queue = <<>>
          /\ bufMem' = [bufMem EXCEPT ![b] = ver + 1]
          /\ UNCHANGED cmdbuf
  /\ UNCHANGED <<vao, nEpochs, vaoMem, bufLive, queue, misread>>

(* Whether command c reads buffer b. *)
Reads(c, b) ==
  \/ c.op \in {"draw", "dispatch"} /\ b \in DOMAIN c.bufs
  \/ c.op = "pushConst" /\ c.b = b

(* A variant of dk_buf_create that tests buf->params.initial_data, which   *)
(* it has just set to NULL, and so never uploads the initial data.         *)
BufCreateDropsInitialData(b) ==
  /\ b \notin bufLive
  /\ bufLive' = bufLive \cup {b}
  /\ \E init \in BOOLEAN :
       /\ init => ver < MaxVer
       /\ ver' = IF init THEN ver + 1 ELSE ver
       /\ bufCpu' = [bufCpu EXCEPT ![b] = IF init THEN ver + 1 ELSE 0]
       /\ bufMem' = [bufMem EXCEPT ![b] = 0]
       /\ UNCHANGED cmdbuf
  /\ UNCHANGED <<vao, nEpochs, vaoMem, queue, misread>>

(* dk_buf_create of a buffer of type b: a new memblock (a failed           *)
(* dkMemBlockCreate frees the buffer and returns NULL, leaving nothing);   *)
(* with initial data, dk_buf_update writes it: a push-constants command    *)
(* for a uniform buffer, a memcpy after dkQueueWaitIdle otherwise.         *)
(* Without initial data the contents are the zero version.                 *)
BufCreate(b) ==
  /\ b \notin bufLive
  /\ bufLive' = bufLive \cup {b}
  /\ \E init \in BOOLEAN :
       IF ~init
       THEN /\ bufCpu' = [bufCpu EXCEPT ![b] = 0]
            /\ bufMem' = [bufMem EXCEPT ![b] = 0]
            /\ UNCHANGED <<ver, cmdbuf>>
       ELSE /\ ver < MaxVer
            /\ ver' = ver + 1
            /\ bufCpu' = [bufCpu EXCEPT ![b] = ver + 1]
            /\ IF b = "uniform"
               THEN /\ cmdbuf' = Append(cmdbuf, [op |-> "pushConst", b |-> b, v |-> ver + 1])
                    /\ bufMem' = [bufMem EXCEPT ![b] = 0]
               ELSE /\ queue = <<>>
                    /\ bufMem' = [bufMem EXCEPT ![b] = ver + 1]
                    /\ UNCHANGED cmdbuf
  /\ UNCHANGED <<vao, nEpochs, vaoMem, queue, misread>>

(* dk_buf_destroy: the memblock is destroyed at once, with no wait.  The   *)
(* caller must not free memory an unfinished submission still references   *)
(* (spec 5), so no recorded or queued command reads the buffer.            *)
BufDestroy(b) ==
  /\ b \in bufLive
  /\ \A i \in DOMAIN cmdbuf : ~Reads(cmdbuf[i], b)
  /\ \A i \in DOMAIN queue : ~Reads(queue[i], b)
  /\ bufLive' = bufLive \ {b}
  /\ UNCHANGED <<vao, nEpochs, vaoMem, bufCpu, bufMem, ver, cmdbuf, queue, misread>>

(* Any other handler that submits the command buffer (dk_tex_download,    *)
(* a cache hit of mapper_map, ...).                                        *)
Submit ==
  /\ cmdbuf # <<>>
  /\ queue' = queue \o cmdbuf
  /\ cmdbuf' = <<>>
  /\ UNCHANGED <<vao, nEpochs, vaoMem, bufCpu, bufMem, bufLive, ver, misread>>

-----------------------------------------------------------------------------
(* The GPU executes the oldest command. *)
BufsStale(c) == \E b \in DOMAIN c.bufs : bufMem[b] # c.bufs[b]

GpuPushVertices ==
  /\ queue # <<>> /\ Head(queue).op = "pushVtx"
  /\ LET c == Head(queue)
     IN IF c.epoch = vao
        THEN vaoMem' = c.v /\ UNCHANGED misread
        ELSE misread' = misread \cup {"vertex"} /\ UNCHANGED vaoMem
  /\ queue' = Tail(queue)
  /\ UNCHANGED <<vao, nEpochs, bufCpu, bufMem, bufLive, ver, cmdbuf>>

GpuPushConstants ==
  /\ queue # <<>> /\ Head(queue).op = "pushConst"
  /\ bufMem' = [bufMem EXCEPT ![Head(queue).b] = Head(queue).v]
  /\ queue' = Tail(queue)
  /\ UNCHANGED <<vao, nEpochs, vaoMem, bufCpu, bufLive, ver, cmdbuf, misread>>

GpuDraw ==
  /\ queue # <<>> /\ Head(queue).op = "draw"
  /\ LET c == Head(queue)
     IN misread' = misread \cup (IF c.epoch # vao \/ vaoMem # c.v THEN {"vertex"} ELSE {})
                           \cup (IF BufsStale(c) THEN {"buffer"} ELSE {})
  /\ queue' = Tail(queue)
  /\ UNCHANGED <<vao, nEpochs, vaoMem, bufCpu, bufMem, bufLive, ver, cmdbuf>>

GpuDispatch ==
  /\ queue # <<>> /\ Head(queue).op = "dispatch"
  /\ misread' = misread \cup (IF BufsStale(Head(queue)) THEN {"buffer"} ELSE {})
  /\ queue' = Tail(queue)
  /\ UNCHANGED <<vao, nEpochs, vaoMem, bufCpu, bufMem, bufLive, ver, cmdbuf>>

Next ==
  \/ \E bound \in SUBSET bufLive :
       \/ \E large, grow \in BOOLEAN : RunRaster(bound, large, grow)
       \/ RunCompute(bound)
  \/ \E b \in bufLive : BufUpdate(b)
  \/ \E b \in BufTypes : BufCreate(b) \/ BufDestroy(b)
  \/ Submit
  \/ GpuPushVertices \/ GpuPushConstants \/ GpuDraw \/ GpuDispatch

Spec == Init /\ [][Next]_vars /\ WF_vars(GpuPushVertices \/ GpuPushConstants \/ GpuDraw \/ GpuDispatch)

-----------------------------------------------------------------------------
TypeOK ==
  /\ vao \in 0 .. MaxEpoch /\ nEpochs \in 0 .. MaxEpoch
  /\ vaoMem \in Versions /\ ver \in Versions
  /\ bufCpu \in [BufTypes -> Versions] /\ bufMem \in [BufTypes -> Versions]
  /\ bufLive \subseteq BufTypes
  /\ cmdbuf \in Seq(Cmds) /\ queue \in Seq(Cmds)
  /\ misread \subseteq {"vertex", "buffer"}

(* Every draw reads, from a live vertex memblock, the vertex data it was   *)
(* recorded with, however the GPU lags: the dkQueueWaitIdle before a       *)
(* memcpy or a reallocation in run_raster covers every earlier draw.       *)
VertexDataCoherent == "vertex" \notin misread

(* Every draw and dispatch reads the buffer contents handed to             *)
(* dk_buf_update before it was recorded, and no later ones.                *)
BufferDataCoherent == "buffer" \notin misread

=============================================================================
