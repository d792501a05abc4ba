----------------------------- MODULE TimerQuery -----------------------------
(***************************************************************************)
(* GPU timers of ra_dk.c (dk_timer_create/destroy/start/stop).            *)
(*                                                                         *)
(* Every timer owns RA_DK_NUM_QUERIES (2) query slots of a zero-filled     *)
(* query memblock, taken from priv->num_queries.  A slot holds a start and *)
(* an end timestamp written by the GPU when it executes the                *)
(* dkCmdBufReportCounter commands.  dk_timer_start switches to the other  *)
(* slot, computes the result from what that slot holds, and records the    *)
(* start report; dk_timer_stop records the end report and submits.  The    *)
(* GPU executes submitted reports asynchronously, in order.                *)
(*                                                                         *)
(* A timestamp is abstracted to the cycle that wrote it: a tag <<t, n>>    *)
(* for the n-th start/stop cycle of timer t (n modulo CycleMod).  GPU      *)
(* timestamps only grow, so "end > start" in a slot (ra_dk.c:1241) holds   *)
(* exactly when the slot's latest write was an end report; the result is   *)
(* the pair of tags whose timestamps it subtracts, or <<>> for zero.       *)
(***************************************************************************)
EXTENDS Naturals, Sequences, FiniteSets

CONSTANTS
  Timers,       \* ra_timer objects the renderer may create
  MaxQueries,   \* RA_DK_MAX_QUERIES
  CycleMod,     \* cycles of a timer are told apart modulo CycleMod
  MaxQueue      \* bound on submitted reports not yet executed

ASSUME /\ MaxQueries \in Nat
       /\ CycleMod \in Nat \ {0, 1, 2}
       /\ MaxQueue \in Nat \ {0}

NumQueries == 2                 \* RA_DK_NUM_QUERIES
Queries == 0 .. MaxQueries - 1
Tags == Timers \X (0 .. CycleMod - 1)
Slots == [last : {"none", "start", "end"}, sBy : Tags \cup {<<>>}, eBy : Tags \cup {<<>>}]
Reports == [q : Queries, field : {"start", "end"}, tag : Tags]

VARIABLES
  numQueries,  \* priv->num_queries
  state,       \* per timer: "absent", "live", or "null" (timer_create returned NULL)
  queryIdx,    \* priv_timer->query_idx
  curIdx,      \* priv_timer->cur_idx
  result,      \* priv_timer->result
  running,     \* the renderer is between timer_start and timer_stop
  cycle,       \* per timer, number of its current cycle modulo CycleMod
  mem,         \* the query memblock, one slot per query index
  cmdbuf,      \* reports recorded and not yet submitted
  queue        \* reports submitted and not yet executed by the GPU

vars == <<numQueries, state, queryIdx, curIdx, result, running, cycle, mem, cmdbuf, queue>>

Report(q, f, t, n) == [q |-> q, field |-> f, tag |-> <<t, n>>]

(* The query a timer uses in its current cycle. *)
CurQuery(t, idx) == queryIdx[t][idx + 1]

(* What dk_timer_start computes from a slot: end - start if end > start,   *)
(* else 0.                                                                 *)
Elapsed(slot) == IF slot.last = "end" THEN <<slot.sBy, slot.eBy>> ELSE <<>>

-----------------------------------------------------------------------------
(* ra_init_dk: num_queries = 0, the query memblock is zero-filled. *)
Init ==
  /\ numQueries = 0
  /\ state = [t \in Timers |-> "absent"]
  /\ queryIdx = [t \in Timers |-> <<0, 0>>]
  /\ curIdx = [t \in Timers |-> 0]
  /\ result = [t \in Timers |-> <<>>]
  /\ running = [t \in Timers |-> FALSE]
  /\ cycle = [t \in Timers |-> 0]
  /\ mem = [q \in Queries |-> [last |-> "none", sBy |-> <<>>, eBy |-> <<>>]]
  /\ cmdbuf = <<>>
  /\ queue = <<>>

(* A variant of dk_timer_create without the check that the pool has two  *)
(* free slots left.                                                        *)
TimerCreateUnchecked(t) ==
  /\ state[t] = "absent"
  /\ state' = [state EXCEPT ![t] = "live"]
  /\ queryIdx' = [queryIdx EXCEPT ![t] = <<numQueries, numQueries + 1>>]
  /\ numQueries' = numQueries + NumQueries
  /\ curIdx' = [curIdx EXCEPT ![t] = 0]
  /\ result' = [result EXCEPT ![t] = <<>>]
  /\ cycle' = [cycle EXCEPT ![t] = 0]
  /\ UNCHANGED <<running, mem, cmdbuf, queue>>

(* dk_timer_create: NULL when the pool cannot give two more slots; else a  *)
(* zeroed timer taking the next two slot indices.                          *)
TimerCreate(t) ==
  /\ state[t] = "absent"
  /\ IF numQueries + NumQueries > MaxQueries
     THEN /\ state' = [state EXCEPT ![t] = "null"]
          /\ UNCHANGED <<numQueries, queryIdx, curIdx, result, cycle>>
     ELSE /\ state' = [state EXCEPT ![t] = "live"]
          /\ queryIdx' = [queryIdx EXCEPT ![t] = <<numQueries, numQueries + 1>>]
          /\ numQueries' = numQueries + NumQueries
          /\ curIdx' = [curIdx EXCEPT ![t] = 0]
          /\ result' = [result EXCEPT ![t] = <<>>]
          /\ cycle' = [cycle EXCEPT ![t] = 0]
  /\ UNCHANGED <<running, mem, cmdbuf, queue>>

(* A variant of dk_timer_destroy that hands the slots of a timer back to  *)
(* the pool by lowering num_queries.                                       *)
TimerDestroyReturnsSlots(t) ==
  /\ state[t] \in {"live", "null"}
  /\ ~running[t]
  /\ state' = [state EXCEPT ![t] = "absent"]
  /\ numQueries' = IF state[t] = "live" THEN numQueries - NumQueries ELSE numQueries
  /\ UNCHANGED <<queryIdx, curIdx, result, running, cycle, mem, cmdbuf, queue>>

(* dk_timer_destroy: frees the timer (if any); its slots are not returned. *)
TimerDestroy(t) ==
  /\ state[t] \in {"live", "null"}
  /\ ~running[t]
  /\ state' = [state EXCEPT ![t] = "absent"]
  /\ UNCHANGED <<numQueries, queryIdx, curIdx, result, running, cycle, mem, cmdbuf, queue>>

(* A variant of dk_timer_start without the end > start check: the         *)
(* unsigned difference of whatever the slot holds.                         *)
TimerStartUnchecked(t) ==
  /\ state[t] = "live"
  /\ ~running[t]
  /\ LET idx == (curIdx[t] + 1) % NumQueries
         slot == mem[CurQuery(t, idx)]
     IN /\ curIdx' = [curIdx EXCEPT ![t] = idx]
        /\ result' = [result EXCEPT ![t] =
                        IF slot.last = "none" THEN <<>> ELSE <<slot.sBy, slot.eBy>>]
        /\ cycle' = [cycle EXCEPT ![t] = (@ + 1) % CycleMod]
        /\ cmdbuf' = Append(cmdbuf, Report(CurQuery(t, idx), "start", t, (cycle[t] + 1) % CycleMod))
  /\ running' = [running EXCEPT ![t] = TRUE]
  /\ UNCHANGED <<numQueries, state, queryIdx, mem, queue>>

(* dk_timer_start: switch slot, read the slot's previous timestamps into   *)
(* result, record the start report.                                        *)
TimerStart(t) ==
  /\ state[t] = "live"
  /\ ~running[t]
  /\ LET idx == (curIdx[t] + 1) % NumQueries
     IN /\ curIdx' = [curIdx EXCEPT ![t] = idx]
        /\ result' = [result EXCEPT ![t] = Elapsed(mem[CurQuery(t, idx)])]
        /\ cycle' = [cycle EXCEPT ![t] = (@ + 1) % CycleMod]
        /\ cmdbuf' = Append(cmdbuf, Report(CurQuery(t, idx), "start", t, (cycle[t] + 1) % CycleMod))
  /\ running' = [running EXCEPT ![t] = TRUE]
  /\ UNCHANGED <<numQueries, state, queryIdx, mem, queue>>

(* dk_timer_stop: record the end report in the same slot, submit the      *)
(* command buffer, return result.                                          *)
TimerStop(t) ==
  /\ running[t]
  /\ Len(queue) + Len(cmdbuf) + 1 <= MaxQueue
  /\ queue' = queue \o Append(cmdbuf, Report(CurQuery(t, curIdx[t]), "end", t, cycle[t]))
  /\ cmdbuf' = <<>>
  /\ running' = [running EXCEPT ![t] = FALSE]
  /\ UNCHANGED <<numQueries, state, queryIdx, curIdx, result, cycle, mem>>

(* The GPU executes the oldest report: it writes its timestamp. *)
GpuReport ==
  /\ queue # <<>>
  /\ LET r == Head(queue)
     IN mem' = [mem EXCEPT ![r.q] =
                  IF r.field = "start" THEN [@ EXCEPT !.last = "start", !.sBy = r.tag]
                                       ELSE [@ EXCEPT !.last = "end", !.eBy = r.tag]]
  /\ queue' = Tail(queue)
  /\ UNCHANGED <<numQueries, state, queryIdx, curIdx, result, running, cycle, cmdbuf>>

Next ==
  \/ GpuReport
  \/ \E t \in Timers :
       TimerCreate(t) \/ TimerDestroy(t) \/ TimerStart(t) \/ TimerStop(t)

Spec == Init /\ [][Next]_vars /\ WF_vars(GpuReport)

-----------------------------------------------------------------------------
TypeOK ==
  /\ numQueries \in 0 .. MaxQueries
  /\ state \in [Timers -> {"absent", "live", "null"}]
  /\ queryIdx \in [Timers -> Queries \X Queries \cup {<<0, 0>>}]
  /\ curIdx \in [Timers -> 0 .. NumQueries - 1]
  /\ result \in [Timers -> {<<>>} \cup ((Tags \cup {<<>>}) \X (Tags \cup {<<>>}))]
  /\ running \in [Timers -> BOOLEAN]
  /\ cycle \in [Timers -> 0 .. CycleMod - 1]
  /\ mem \in [Queries -> Slots]
  /\ cmdbuf \in Seq(Reports)
  /\ queue \in Seq(Reports)

(* A non-zero timer result is the end minus the start of one and the same *)
(* start/stop cycle of that same timer: the asynchronous read-back in      *)
(* dk_timer_start never pairs timestamps of two cycles, nor reads another  *)
(* timer's slot.                                                           *)
TimerResultFromOneCycle ==
  \A t \in Timers :
    (state[t] = "live" /\ result[t] # <<>>)
      => /\ result[t][1] = result[t][2]
         /\ result[t][1][1] = t


(* Every timestamp in a query slot of a live timer, written by the GPU or  *)
(* still to be written by a recorded or submitted report, was reported by  *)
(* that timer.  dk_timer_destroy never returns slots to num_queries        *)
(* (ra_dk.c:1214-1230), which is what keeps a destroyed timer's reports,   *)
(* still queued on the GPU, out of the slots of a timer created later.     *)
QuerySlotsExclusive ==
  \A t \in Timers : state[t] = "live" =>
    LET own == {queryIdx[t][1], queryIdx[t][2]}
    IN /\ \A q \in own : {mem[q].sBy, mem[q].eBy} \subseteq {<<>>} \cup ({t} \X (0 .. CycleMod - 1))
       /\ \A i \in 1 .. Len(cmdbuf) : cmdbuf[i].q \in own => cmdbuf[i].tag[1] = t
       /\ \A i \in 1 .. Len(queue) : queue[i].q \in own => queue[i].tag[1] = t

=============================================================================
