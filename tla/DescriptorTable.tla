--------------------------- MODULE DescriptorTable ---------------------------
(***************************************************************************)
(* The descriptor-slot allocator of ra_dk.c: priv->allocated_descriptors   *)
(* is an array of 64-bit words, one bit per sampler+image descriptor pair. *)
(* ra_dk_register_texture takes a free bit and stores its index in the     *)
(* texture's descriptor_idx, ra_dk_unregister_texture clears the bit at    *)
(* descriptor_idx.  Textures are created and destroyed by dk_tex_create    *)
(* and dk_tex_destroy, which call them.                                    *)
(*                                                                         *)
(* A word is the set of its set bits; WordBits stands for the 64 of the    *)
(* code, NumWords for MP_ARRAY_SIZE(allocated_descriptors).                *)
(***************************************************************************)
EXTENDS Integers, FiniteSetsExt

CONSTANTS
  NumWords,       \* MP_ARRAY_SIZE(priv->allocated_descriptors)
  WordBits,       \* bits per word (64 in the code)
  Texs,           \* textures the caller may create
  CreateMayFail   \* whether dk_tex_create may fail before registering

ASSUME /\ NumWords \in Nat \ {0}
       /\ WordBits \in Nat \ {0}
       /\ CreateMayFail \in BOOLEAN

Words == 0 .. NumWords - 1
Bits  == 0 .. WordBits - 1

VARIABLES
  allocated,   \* priv->allocated_descriptors: word -> set of set bits
  descIdx,     \* tex_priv->descriptor_idx of each texture
  live         \* the texture exists (created and not yet destroyed)

vars == <<allocated, descIdx, live>>

(* Slots as the descriptor arrays index them: word w, bit b is slot        *)
(* w * 64 + b.                                                             *)
Slot(w, b) == w * WordBits + b
FreeSlots == UNION {{Slot(w, b) : b \in Bits \ allocated[w]} : w \in Words}
SetSlots(a) == UNION {{Slot(w, b) : b \in a[w]} : w \in Words}

(* A variant of ra_dk_register_texture whose scan stops after the first   *)
(* word (an off-by-one in the loop bound).                                 *)
RegisterTextureFirstWordOnly(t) ==
  LET open == {w \in {0} : allocated[w] # Bits}
  IN IF open = {}
     THEN /\ descIdx' = [descIdx EXCEPT ![t] = -1]
          /\ UNCHANGED allocated
     ELSE LET b == Min(Bits \ allocated[0])
          IN /\ descIdx' = [descIdx EXCEPT ![t] = b]
             /\ allocated' = [allocated EXCEPT ![0] = @ \cup {b}]

(* A variant of ra_dk_register_texture without the test that skips full   *)
(* words: __builtin_ctzll(~*pos) of a full word is ctz(0), 64 on AArch64.  *)
RegisterTextureNoFullWordSkip(t) ==
  LET b == IF allocated[0] = Bits THEN WordBits ELSE Min(Bits \ allocated[0])
  IN /\ descIdx' = [descIdx EXCEPT ![t] = b]
     /\ allocated' = [allocated EXCEPT ![0] = @ \cup {b}]

(* ra_dk_register_texture's scan: skip the words equal to -1ull; in the    *)
(* first other one take the lowest clear bit (__builtin_ctzll(~*pos)), set *)
(* it and store that bit number as descriptor_idx; if every word is full,  *)
(* descriptor_idx stays -1.  The new index and bitset.                     *)
Take(a) ==
  LET open == {w \in Words : a[w] # Bits}
  IN IF open = {}
     THEN [idx |-> -1, alloc |-> a]
     ELSE LET w == Min(open)
              b == Min(Bits \ a[w])
          IN [idx |-> b, alloc |-> [a EXCEPT ![w] = @ \cup {b}]]

(* ra_dk_register_texture: the scan; on failure it logs and returns. *)
RegisterTexture(t) ==
  LET r == Take(allocated)
  IN /\ descIdx' = [descIdx EXCEPT ![t] = r.idx]
     /\ allocated' = r.alloc

(* allocated[idx / 64] &= ~(1ull << (idx % 64)): the bitsets it may leave. *)
(* For idx = -1 (a texture that got no slot) C gives word 0 and a shift    *)
(* by -1, which is undefined: the AArch64 shift takes the count modulo 64  *)
(* and clears bit 63 of word 0; a compiler may also drop the store.        *)
Releases(a, idx) ==
  IF idx >= 0
  THEN {[a EXCEPT ![idx \div WordBits] = @ \ {idx % WordBits}]}
  ELSE {[a EXCEPT ![0] = @ \ cleared] : cleared \in {{WordBits - 1}, {}}}

(* ra_dk_unregister_texture. *)
UnregisterTexture(idx) == allocated' \in Releases(allocated, idx)

-----------------------------------------------------------------------------
Init ==
  /\ allocated = [w \in Words |-> {}]
  /\ descIdx = [t \in Texs |-> 0]
  /\ live = [t \in Texs |-> FALSE]

(* dk_tex_create: on success the texture is registered.  When the image    *)
(* type is unknown, the memblock cannot be created or the initial upload   *)
(* fails, dk_tex_destroy runs on the fresh tex_priv, whose descriptor_idx  *)
(* is still 0 from talloc_zero, and unregisters slot 0.                    *)
TexCreate(t) ==
  /\ ~live[t]
  /\ \/ /\ live' = [live EXCEPT ![t] = TRUE]
        /\ RegisterTexture(t)
     \/ /\ CreateMayFail
        /\ UnregisterTexture(0)
        /\ UNCHANGED <<descIdx, live>>

(* dk_tex_destroy: unregister descriptor_idx, free the memblock. *)
TexDestroy(t) ==
  /\ live[t]
  /\ UnregisterTexture(descIdx[t])
  /\ live' = [live EXCEPT ![t] = FALSE]
  /\ UNCHANGED descIdx

Next == \E t \in Texs : TexCreate(t) \/ TexDestroy(t)

Spec == Init /\ [][Next]_vars

-----------------------------------------------------------------------------
TypeOK ==
  /\ allocated \in [Words -> SUBSET Bits]
  /\ descIdx \in [Texs -> -1 .. NumWords * WordBits - 1]
  /\ live \in [Texs -> BOOLEAN]

(* An allocation takes the lowest free slot of the whole table and fails   *)
(* only when no slot is free (spec: "allocation scans for the lowest free  *)
(* bit; exhaustion is a hard allocation failure").  Stated on the bitset   *)
(* itself, not on the index handed back.                                   *)
RegisterTakesLowestFreeSlot ==
  [][\A t \in Texs :
       (~live[t] /\ live'[t]) =>
         IF FreeSlots = {}
         THEN descIdx'[t] = -1 /\ allocated' = allocated
         ELSE SetSlots(allocated') = SetSlots(allocated) \cup {Min(FreeSlots)}
    ]_vars

(* No two live textures use the same descriptor slot: a texture's sampler  *)
(* and image descriptors are never overwritten by another texture's        *)
(* registration (spec: "allocation never returns an index already set").   *)
DistinctSlots ==
  \A t1, t2 \in Texs :
    (t1 # t2 /\ live[t1] /\ live[t2] /\ descIdx[t1] >= 0)
      => descIdx[t1] # descIdx[t2]

=============================================================================
