--------------------------- MODULE ImportCacheSpec ---------------------------
(***************************************************************************)
(* What the imported-resource cache promises (spec 4.7 and 8), without    *)
(* bitsets or plane order.  An entry is <<c, h>>: handle h of the c-th    *)
(* frames context; held[e] is the set of descriptor slots its planes hold. *)
(*                                                                         *)
(* A mapping request first evicts the entries of other contexts, which     *)
(* gives their slots back.  An entry for the handle is then reused as it   *)
(* is; otherwise a new one takes NumPlanes slots no cached entry holds, or *)
(* the request fails and the cache keeps only the surviving entries.      *)
(***************************************************************************)
EXTENDS Naturals, FiniteSets

CONSTANTS Handles, NumCtx, NumPlanes, Slots

VARIABLES cache, held, curCtx, mapped

vars == <<cache, held, curCtx, mapped>>

Entries == (1 .. NumCtx) \X Handles
NoEntry == <<>>

(* The slots no entry of es holds. *)
FreeFor(es) == Slots \ UNION {held[e] : e \in es}

Init ==
  /\ cache = {}
  /\ held = [e \in Entries |-> {}]
  /\ curCtx = 1
  /\ mapped = NoEntry

Map(h) ==
  LET e == <<curCtx, h>>
      kept == {s \in cache : s[1] = curCtx}
  IN /\ UNCHANGED curCtx
     /\ IF e \in kept
        THEN /\ cache' = kept
             /\ mapped' = e
             /\ UNCHANGED held
        ELSE \/ \E S \in SUBSET FreeFor(kept) :
                  /\ Cardinality(S) = NumPlanes
                  /\ cache' = kept \cup {e}
                  /\ held' = [held EXCEPT ![e] = S]
                  /\ mapped' = e
             \/ /\ cache' = kept
                /\ mapped' = NoEntry
                /\ UNCHANGED held

NewContext ==
  /\ curCtx < NumCtx
  /\ curCtx' = curCtx + 1
  /\ UNCHANGED <<cache, held, mapped>>

DropAll ==
  /\ cache' = {}
  /\ mapped' = NoEntry
  /\ UNCHANGED <<held, curCtx>>

Next == (\E h \in Handles : Map(h)) \/ NewContext \/ DropAll

Spec == Init /\ [][Next]_vars

=============================================================================
