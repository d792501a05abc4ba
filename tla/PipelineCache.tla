---------------------------- MODULE PipelineCache ----------------------------
(***************************************************************************)
(* Render-pass creation and the shader-code cache of ra_dk.c.              *)
(*                                                                         *)
(* dk_renderpass_create makes a raster pass (vertex and fragment shaders)  *)
(* or a compute pass.  When the caller supplies a cached program, the pass *)
(* first tries load_shader_code: check the header's magic and version,    *)
(* allocate a code memblock and copy each stage's bytes from the blob at   *)
(* the header's offset.  Otherwise, or when the load fails, it compiles    *)
(* the sources and save_shader_code appends a header and the stage code to *)
(* pass->params.cached_program, which the caller persists (spec 4.4).     *)
(*                                                                         *)
(* Code is a sequence of abstract bytes <<src, stage, i>>; the compiler    *)
(* output for each source has a length fixed in the initial state.  A blob *)
(* is its header fields and its whole byte sequence, the first HdrLen      *)
(* bytes standing for the header itself.                                   *)
(***************************************************************************)
EXTENDS Integers, Sequences

CONSTANTS
  RasterSrcs,     \* shader sources of raster passes
  ComputeSrcs,    \* shader sources of compute passes
  MaxCode,        \* longest compiled code of a stage, in abstract bytes
  HdrLen,         \* sizeof(struct dk_shadercache_hdr), in abstract bytes
  Damage,         \* ways a persisted blob may be damaged or outdated
  CompileMayFail, \* uam_create_compiler or uam_compile_dksh may fail
  AllocMayFail    \* dkMemBlockCreate may fail

ASSUME /\ MaxCode \in Nat \ {0}
       /\ HdrLen \in Nat \ {0}
       /\ Damage \subseteq {"magic", "version", "short", "truncated"}
       /\ CompileMayFail \in BOOLEAN
       /\ AllocMayFail \in BOOLEAN

Srcs == RasterSrcs \cup ComputeSrcs
StageSet == {"vertex", "fragment", "compute"}

(* The stages whose DkShader pointer the pass hands to load_shader_code. *)
StagesOf(src) == IF src \in RasterSrcs THEN {"vertex", "fragment"} ELSE {"compute"}

Bytes == Srcs \X StageSet \X (1 .. MaxCode)
Junk == <<"heap", "junk", 0>>  \* a byte memcpy reads past the end of the blob
UninitCode == <<>>             \* a DkShader load_shader_code left untouched
NoBlob == [magic |-> "none"]   \* an empty cached_program (len 0)
NoPass == <<>>

(* The ra_vartype of a vertex input (mpv uses these three for vertex      *)
(* attributes) and its component count dim_v; dim_m is always 1.           *)
VarTypes == {"int", "float", "byte_unorm"}
VtxInputs == [type : VarTypes, dimV : 1 .. 4]

(* map_vertex_attrib_type: the DkVtxAttribType of a vartype. *)
MapVertexAttribType(t) ==
  CASE t = "int" -> "Sint" [] t = "float" -> "Float" [] t = "byte_unorm" -> "Unorm"

(* A variant of map_vertex_attrib_size whose INT/FLOAT case labels also    *)
(* take BYTE_UNORM.                                                         *)
MapVertexAttribSizeMerged(t, dimV) == <<dimV, 32>>

(* map_vertex_attrib_size: DkVtxAttribSize_<n>x<bits> as <<n, bits>>, 32-bit *)
(* components for INT and FLOAT, 8-bit ones for BYTE_UNORM, -1 for a       *)
(* dim_v outside 1..4.                                                      *)
MapVertexAttribSize(t, dimV) ==
  IF dimV \notin 1 .. 4 THEN -1
  ELSE IF t \in {"int", "float"} THEN <<dimV, 32>> ELSE <<dimV, 8>>

(* The DkVtxAttribState the loop of dk_renderpass_create_raster fills in  *)
(* for a vertex input (its offset is data and left out).                   *)
VaoAttrib(inp) ==
  [type |-> MapVertexAttribType(inp.type), size |-> MapVertexAttribSize(inp.type, inp.dimV)]

(* dk_shadercache_magic and dk_shadercache_version. *)
Magic == "DKCH"
Version == 1

VARIABLES
  codeSize,  \* what uam_get_code_size gives for each source and stage
  stored,    \* the cached program the caller keeps for each source
  made,      \* per source, the stage code of its live pass, or NoPass
  vtxInput,  \* the vertex attribute in the params of each raster source
  vao        \* per raster source, pass_priv->vao_attribs of its live pass

vars == <<codeSize, stored, made, vtxInput, vao>>

(* The code the compiler produces for a stage of a source. *)
Code(src, st) == [i \in 1 .. codeSize[src][st] |-> <<src, st, i>>]

(* The blob save_shader_code appends: the header with the given offsets  *)
(* (0 for an absent stage) and sizes, then the code of each stage.         *)
Blob(v, f, c, fOff, cOff) ==
  LET code == [st \in StageSet |-> CASE st = "vertex" -> v
                                    [] st = "fragment" -> f
                                    [] st = "compute" -> c]
      at == [st \in StageSet |-> CASE st = "vertex" -> HdrLen
                                  [] st = "fragment" -> fOff
                                  [] st = "compute" -> cOff]
  IN [magic |-> Magic, version |-> Version,
      off  |-> [st \in StageSet |-> IF code[st] # <<>> THEN at[st] ELSE 0],
      size |-> [st \in StageSet |-> Len(code[st])],
      data |-> [i \in 1 .. HdrLen |-> "hdr"] \o v \o f \o c]

(* A variant of save_shader_code that places the fragment code right     *)
(* after the header, without advancing past the vertex code.               *)
SaveShaderCodeNoAdvance(v, f, c) == Blob(v, f, c, HdrLen, HdrLen + Len(f))

(* save_shader_code: offsets start after the header; "offset +=" of the   *)
(* previous stage's length runs only when the next stage is present.      *)
SaveShaderCode(v, f, c) ==
  LET fOff == IF f # <<>> THEN HdrLen + Len(v) ELSE HdrLen
      cOff == IF c # <<>> THEN fOff + Len(f) ELSE fOff
  IN Blob(v, f, c, fOff, cOff)

(* One stage of load_shader_code: a zero size leaves the DkShader as it   *)
(* is; else memcpy the size bytes at the offset into the code memblock,    *)
(* with no check against data.len: bytes past the end are whatever follows *)
(* the blob in memory.                                                     *)
StageCode(blob, st) ==
  IF blob.size[st] = 0 THEN UninitCode
  ELSE [i \in 1 .. blob.size[st] |->
          IF blob.off[st] + i <= Len(blob.data) THEN blob.data[blob.off[st] + i] ELSE Junk]

(* A variant of load_shader_code that loads every stage of the blob,     *)
(* whichever DkShader pointers the pass passed.                            *)
LoadShaderCodeAllStages(blob, want) ==
  IF \/ Len(blob.data) < HdrLen
     \/ blob.magic # Magic \/ blob.version # Version
  THEN {[ok |-> FALSE]}
  ELSE {[ok |-> TRUE, sh |-> [st \in StageSet |-> StageCode(blob, st)]]}
         \cup (IF AllocMayFail THEN {[ok |-> FALSE]} ELSE {})

(* load_shader_code: the outcomes it may have.  It fails on a blob shorter *)
(* than the header, a wrong magic or version, or a failed memblock         *)
(* allocation; else it loads the stages the pass wants.                    *)
LoadShaderCode(blob, want) ==
  IF \/ Len(blob.data) < HdrLen
     \/ blob.magic # Magic \/ blob.version # Version
  THEN {[ok |-> FALSE]}
  ELSE {[ok |-> TRUE, sh |-> [st \in want |-> StageCode(blob, st)]]}
         \cup (IF AllocMayFail THEN {[ok |-> FALSE]} ELSE {})

-----------------------------------------------------------------------------
Init ==
  /\ codeSize \in [Srcs -> [StageSet -> 1 .. MaxCode]]
  /\ stored = [s \in Srcs |-> NoBlob]
  /\ made = [s \in Srcs |-> NoPass]
  /\ vtxInput \in [RasterSrcs -> VtxInputs]
  /\ vao = [s \in RasterSrcs |-> NoPass]

(* The end of a successful create: the pass exists with shaders sh; a      *)
(* non-empty cached_program prog is persisted by the caller.               *)
Created(src, sh, prog) ==
  /\ made' = [made EXCEPT ![src] = sh]
  /\ stored' = IF prog = NoBlob THEN stored ELSE [stored EXCEPT ![src] = prog]

(* goto fail_1: dk_renderpass_destroy frees what was allocated, the       *)
(* create returns NULL and the caller persists nothing.                    *)
Failed(src) ==
  /\ made' = [made EXCEPT ![src] = NoPass]
  /\ UNCHANGED stored

(* The compile branch: a failing compiler or code memblock fails the      *)
(* create; else the code is written to the memblock and saved with        *)
(* save_shader_code.  Its outcomes.                                        *)
Compile(src) ==
  LET get(st) == IF st \in StagesOf(src) THEN Code(src, st) ELSE <<>>
  IN (IF CompileMayFail \/ AllocMayFail THEN {[ok |-> FALSE]} ELSE {})
       \cup {[ok |-> TRUE, sh |-> [st \in StagesOf(src) |-> Code(src, st)],
              prog |-> SaveShaderCode(get("vertex"), get("fragment"), get("compute"))]}

(* The shaders of a pass: load the cached program if there is one, and    *)
(* compile when there is none or the load fails.  Their outcomes.          *)
LoadOrCompile(src) ==
  LET blob == stored[src]
      loads == IF blob = NoBlob THEN {[ok |-> FALSE]}
               ELSE LoadShaderCode(blob, StagesOf(src))
  IN UNION {IF o.ok THEN {[ok |-> TRUE, sh |-> o.sh, prog |-> NoBlob]}
                    ELSE Compile(src) : o \in loads}

(* dk_renderpass_create_raster: shaders, then the vertex attributes, then  *)
(* the vertex memblock, which may fail to allocate.  (talloc_array aborts  *)
(* rather than return NULL.)                                               *)
CreateRaster(src) ==
  \E o \in LoadOrCompile(src) :
    IF o.ok THEN \/ Created(src, o.sh, o.prog)
                    /\ vao' = [vao EXCEPT ![src] = <<VaoAttrib(vtxInput[src])>>]
                 \/ AllocMayFail /\ Failed(src) /\ vao' = [vao EXCEPT ![src] = NoPass]
            ELSE Failed(src) /\ vao' = [vao EXCEPT ![src] = NoPass]

(* dk_renderpass_create_compute: shaders only. *)
CreateCompute(src) ==
  \E o \in LoadOrCompile(src) :
    /\ IF o.ok THEN Created(src, o.sh, o.prog) ELSE Failed(src)
    /\ UNCHANGED vao

(* dk_renderpass_create: a new pass with cached_program cleared, then the *)
(* raster or compute path.                                                 *)
RenderpassCreate(src) ==
  /\ made[src] = NoPass
  /\ IF src \in RasterSrcs THEN CreateRaster(src) ELSE CreateCompute(src)
  /\ UNCHANGED <<codeSize, vtxInput>>

(* dk_renderpass_destroy. *)
RenderpassDestroy(src) ==
  /\ made[src] # NoPass
  /\ made' = [made EXCEPT ![src] = NoPass]
  /\ vao' = IF src \in RasterSrcs THEN [vao EXCEPT ![src] = NoPass] ELSE vao
  /\ UNCHANGED <<codeSize, stored, vtxInput>>

(* The persisted program is damaged or was written by another build:       *)
(* another magic, another version, cut short inside the header, or cut     *)
(* short inside the code with the header intact.                           *)
DamageBlob(src) ==
  /\ stored[src] # NoBlob
  /\ \E d \in Damage :
       stored' = [stored EXCEPT ![src] =
                    CASE d = "magic" -> [@ EXCEPT !.magic = "XXXX"]
                      [] d = "version" -> [@ EXCEPT !.version = Version + 1]
                      [] d = "short" -> [@ EXCEPT !.data = SubSeq(@, 1, HdrLen - 1)]
                      [] d = "truncated" -> [@ EXCEPT !.data = SubSeq(@, 1, Len(@) - 1)]]
  /\ UNCHANGED <<codeSize, made, vtxInput, vao>>

Next ==
  \E src \in Srcs :
    \/ RenderpassCreate(src)
    \/ RenderpassDestroy(src)
    \/ DamageBlob(src)

Spec == Init /\ [][Next]_vars

-----------------------------------------------------------------------------
TypeOK ==
  /\ codeSize \in [Srcs -> [StageSet -> 1 .. MaxCode]]
  /\ \A src \in Srcs :
       \/ made[src] = NoPass
       \/ made[src] \in [StagesOf(src) -> Seq(Bytes \cup {Junk})]
  /\ vtxInput \in [RasterSrcs -> VtxInputs]

(* Spec 8, round trip: every live pass has, for each of its stages,       *)
(* exactly the code the compiler produced for that stage, whether it was  *)
(* compiled or loaded from a cached program the code saved earlier, and   *)
(* whatever damage the persisted program suffered.                         *)
ShadersAreCompiledCode ==
  \A src \in Srcs :
    made[src] # NoPass => made[src] = [st \in StagesOf(src) |-> Code(src, st)]


(* Spec 4.4: a raster pass's vertex-attribute descriptors are derived      *)
(* from the semantic type of each input: as many components as dim_v, of  *)
(* the width mpv gives the vartype (4 bytes for INT and FLOAT, 1 for        *)
(* BYTE_UNORM), read as signed integers, floats or normalized bytes, for  *)
(* every live raster pass, however it got its shaders.                     *)
VertexAttribsMatchInputs ==
  \A src \in RasterSrcs :
    made[src] # NoPass =>
      LET inp == vtxInput[src]
          bytes == IF inp.type = "byte_unorm" THEN 1 ELSE 4
          class == [int |-> "Sint", float |-> "Float", byte_unorm |-> "Unorm"]
      IN vao[src] = <<[type |-> class[inp.type], size |-> <<inp.dimV, 8 * bytes>>]>>

=============================================================================
