----------------------------- MODULE ImportCache -----------------------------
(***************************************************************************)
(* The imported-frame cache of hwdec_deko3d.c, composed with the          *)
(* descriptor allocator of ra_dk.c and with the GPU queue.                 *)
(*                                                                         *)
(* mapper_map imports a decoded surface (an nvmap handle of a frames       *)
(* context) as a memblock with one image per plane, registers every plane  *)
(* in the descriptor table and appends the entry to priv->cached_textures. *)
(* On every call it first destroys the entries of other frames contexts;  *)
(* a later call for a cached handle reuses the entry.  The renderer        *)
(* samples the mapped planes in passes the GPU runs later.                 *)
(*                                                                         *)
(* An entry is <<c, h>>: handle h of the c-th frames context.  Its planes  *)
(* keep their descriptor_idx in slots[e].  The allocator is the one of     *)
(* DescriptorTable (Take, Releases), on the same bitset.                   *)
(***************************************************************************)
EXTENDS Integers, Sequences

CONSTANTS
  Handles,       \* surface handles (av_nvtegra_map_get_handle) of a pool
  NumCtx,        \* frames contexts the decoder goes through
  NumPlanes,     \* priv->num_planes
  NumWords,      \* MP_ARRAY_SIZE(allocated_descriptors)
  WordBits,      \* bits per descriptor word (64 in the code)
  AllocMayFail,  \* av_buffer_ref or dkMemBlockCreate may fail
  MaxQueue       \* bound on queued GPU work that samples a frame

ASSUME /\ NumCtx \in Nat \ {0}
       /\ NumPlanes \in 1 .. 3
       /\ AllocMayFail \in BOOLEAN
       /\ MaxQueue \in Nat \ {0}

VARIABLES
  allocated,  \* priv->allocated_descriptors of the ra: word -> set bits
  slots,      \* descriptor_idx of each plane of an entry, <<>> if never built
  cache,      \* the entries of priv->cached_textures
  curCtx,     \* the frames context of the frames the decoder now outputs
  mapped,     \* the entry mapper->tex[] point to after a successful map
  queue       \* submitted passes not yet executed, by the entry they sample

vars == <<allocated, slots, cache, curCtx, mapped, queue>>

DT == INSTANCE DescriptorTable
        WITH Texs <- {}, CreateMayFail <- FALSE, descIdx <- <<>>, live <- <<>>

Ctxs == 1 .. NumCtx
Entries == Ctxs \X Handles
NoEntry == <<>>
SlotIdx == -1 .. NumWords * WordBits - 1

(* The descriptor slots the planes of the cached entries hold. *)
OwnedSlots == {slots[e][i] : i \in 1 .. NumPlanes, e \in cache} \ {-1}

(* A variant of the eviction test comparing frames_ctx with the          *)
(* AVBufferRef mapper->src->hwctx instead of its data: no entry matches.   *)
StaleAllEntries(es, c) == es

(* The entries of es that the loop at line 211 destroys: those whose      *)
(* frames_ctx is not the one of the frame being mapped.                    *)
Stale(es, c) == {s \in es : s[1] # c}

(* n successive ra_dk_register_texture calls: the bitset they leave and    *)
(* the indices they store.                                                 *)
RECURSIVE TakeN(_, _)
TakeN(a, n) ==
  IF n = 0 THEN [alloc |-> a, idxs |-> <<>>]
  ELSE LET r == DT!Take(a)
           rest == TakeN(r.alloc, n - 1)
       IN [alloc |-> rest.alloc, idxs |-> <<r.idx>> \o rest.idxs]

(* Successive ra_dk_unregister_texture calls: the bitsets they may leave. *)
RECURSIVE ReleaseSeq(_, _)
ReleaseSeq(a, idxs) ==
  IF idxs = <<>> THEN {a}
  ELSE UNION {ReleaseSeq(a2, Tail(idxs)) : a2 \in DT!Releases(a, Head(idxs))}

(* A variant of the plane loop of mapper_map running to                   *)
(* i <= num_planes.                                                        *)
RegisterPlanesOffByOne(a) == TakeN(a, NumPlanes + 1)

(* The plane loop of mapper_map: register every plane in order. *)
RegisterPlanes(a) == TakeN(a, NumPlanes)

(* A variant of destroy_cache_entry unregistering only plane 0. *)
DestroyCacheEntryFirstPlane(a, idxs) == ReleaseSeq(a, SubSeq(idxs, 1, 1))

(* destroy_cache_entry: unregister every plane, destroy the memblock,     *)
(* unref buf_ref.  Nothing waits for the GPU.                              *)
DestroyCacheEntry(a, idxs) == ReleaseSeq(a, idxs)

(* destroy_cache_entry on each entry of es (bit clears commute, so the    *)
(* order does not matter).                                                 *)
RECURSIVE DestroyEntries(_, _)
DestroyEntries(a, es) ==
  IF es = {} THEN {a}
  ELSE LET e == CHOOSE x \in es : TRUE
       IN UNION {DestroyEntries(a2, es \ {e}) : a2 \in DestroyCacheEntry(a, slots[e])}

-----------------------------------------------------------------------------
(* mapper_init: an empty cache; the ra has no slot in use. *)
Init ==
  /\ allocated = [w \in DT!Words |-> {}]
  /\ slots = [e \in Entries |-> <<>>]
  /\ cache = {}
  /\ curCtx = 1
  /\ mapped = NoEntry
  /\ queue = <<>>

(* mapper_map of a frame with handle h of the current frames context.     *)
(* Stale entries are destroyed first.  A hit reuses the entry (barrier and *)
(* submit only).  A miss builds one: av_buffer_ref or dkMemBlockCreate may *)
(* fail, returning -1 before any plane is registered (mpv's talloc_zero    *)
(* aborts on failure, so the branch at line 255 is never taken); else     *)
(* every plane is registered and the entry appended.  A plane that got no *)
(* slot (descriptor_idx -1) does not fail the map.                         *)
MapperMap(h) ==
  /\ LET e == <<curCtx, h>>
         kept == cache \ Stale(cache, curCtx)
     IN \E a1 \in DestroyEntries(allocated, cache \ kept) :
          IF e \in kept
          THEN /\ allocated' = a1
               /\ cache' = kept
               /\ mapped' = e
               /\ UNCHANGED slots
          ELSE \/ LET r == RegisterPlanes(a1)
                  IN /\ allocated' = r.alloc
                     /\ slots' = [slots EXCEPT ![e] = r.idxs]
                     /\ cache' = kept \cup {e}
                     /\ mapped' = e
               \/ /\ AllocMayFail
                  /\ allocated' = a1
                  /\ cache' = kept
                  /\ mapped' = NoEntry
                  /\ UNCHANGED slots
  /\ UNCHANGED <<curCtx, queue>>

(* The decoder starts outputting frames of a new frames context (a        *)
(* reinit); the cache still holds entries of the old one.                  *)
DecoderReinit ==
  /\ curCtx < NumCtx
  /\ curCtx' = curCtx + 1
  /\ UNCHANGED <<allocated, slots, cache, mapped, queue>>

(* mapper_uninit: destroy every entry; the next mapper_init starts empty. *)
MapperUninit ==
  /\ \E a1 \in DestroyEntries(allocated, cache) : allocated' = a1
  /\ cache' = {}
  /\ mapped' = NoEntry
  /\ UNCHANGED <<slots, curCtx, queue>>

(* A render pass samples the mapped planes; dk_timer_stop submits it. *)
Render ==
  /\ mapped # NoEntry
  /\ Len(queue) < MaxQueue
  /\ queue' = Append(queue, mapped)
  /\ UNCHANGED <<allocated, slots, cache, curCtx, mapped>>

(* The GPU runs the oldest queued pass. *)
GpuSample ==
  /\ queue # <<>>
  /\ queue' = Tail(queue)
  /\ UNCHANGED <<allocated, slots, cache, curCtx, mapped>>

Next ==
  \/ \E h \in Handles : MapperMap(h)
  \/ DecoderReinit
  \/ MapperUninit
  \/ Render
  \/ GpuSample

Spec == Init /\ [][Next]_vars /\ WF_vars(GpuSample)

-----------------------------------------------------------------------------
TypeOK ==
  /\ allocated \in [DT!Words -> SUBSET DT!Bits]
  /\ slots \in [Entries -> {<<>>} \cup [1 .. NumPlanes -> SlotIdx]]
  /\ cache \subseteq Entries
  /\ curCtx \in Ctxs
  /\ mapped \in Entries \cup {NoEntry}
  /\ queue \in Seq(Entries)

(* The set bits of the descriptor table are exactly the slots held by the *)
(* planes of cached entries: eviction and mapper_uninit give back every   *)
(* slot mapper_map registered and none of another entry, and a failed map *)
(* leaves none set.                                                        *)
SlotsOwned == DT!SetSlots(allocated) = OwnedSlots

(* Every queued pass samples an entry still in the cache: its memblock is *)
(* alive and its descriptor slots still describe its planes (spec 3: GPU  *)
(* memory is freed only when no pending work references it).              *)
SampledImportsAlive == \A i \in 1 .. Len(queue) : queue[i] \in cache

(* mapper_map, destroy_cache_entry and mapper_uninit implement the cache  *)
(* of spec 4.7: the entries of the current frames context are kept and     *)
(* reused, entries are evicted exactly when the context changes, and the  *)
(* planes of a new entry take NumPlanes distinct slots that no cached      *)
(* entry holds.                                                            *)
Abs == INSTANCE ImportCacheSpec
         WITH Slots <- 0 .. NumWords * WordBits - 1,
              held <- [e \in Entries |-> {slots[e][i] : i \in DOMAIN slots[e]}]

CacheSpec == Abs!Spec

=============================================================================
