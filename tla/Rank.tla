-------------------------------- MODULE Rank --------------------------------
(***************************************************************************)
(* The scheduler of one rank: the queues of a `Unit`, form_batch and       *)
(* commit_pass, on top of the KV cache of module KvTree.  Every step here  *)
(* is a step of KvTree or leaves it alone.                                 *)
(*                                                                         *)
(* A worker of one aggregated rank with chunked prefill.  The engine       *)
(* handles one event at a time: `form` is the handler that is running and  *)
(* how far it got, and no event is taken before it is Off.  Passes and     *)
(* transfers last as long as they like (a transfer may take no time), and  *)
(* which of them are still under way is not kept, only whether they block  *)
(* the worker; a request arrives any time after those it depends on are    *)
(* done.                                                                   *)
(***************************************************************************)
EXTENDS KvTree, SequencesExt

CONSTANTS
  SeqCap,     \* StackSpec::max_num_seqs
  TokCap,     \* StackSpec::max_num_batched_tokens
  Interval,   \* StackSpec::prefill_interval
  Mix,        \* StackSpec::mix_prefill_decode
  Overlap     \* StackSpec::overlap_bulk

ASSUME CapsAssumption ==
  /\ SeqCap \in Nat \ {0} /\ TokCap \in Nat \ {0} /\ Interval \in Nat \ {0}
  /\ Mix \in BOOLEAN /\ Overlap \in BOOLEAN

VARIABLES
  running,    \* Unit::running
  waiting,    \* Unit::waiting
  busy,       \* Worker::busy
  batch,      \* Worker::batch of the rank
  since,      \* Unit::since_prefill, counted up to Interval
  blocked,    \* now_ < Worker::blocked_until
  form        \* form_batch or commit_pass: todo, its loops still to run;
              \* i, the index in running; budget, seqs; decoding; short, the
              \* decode at i got no room

queues == <<running, waiting, busy, batch, since, blocked>>
rankvars == <<vars, queues, form>>

Off == [todo |-> <<>>, on |-> FALSE, i |-> 0, budget |-> 0, seqs |-> 0,
        decoding |-> FALSE, short |-> FALSE]

Decoding(run, state) == \E i \in DOMAIN run : state[run[i]] = "decode"

(* form_batch from the top of its loop: which loops it runs, in order.     *)
(* "fallback" stands for add_decodes() on a batch that is still empty.     *)
Opened(run, state) ==
  LET decoding == Decoding(run, state) IN
  [todo |-> IF Interval > 1 /\ decoding /\ since + 1 < Interval
              THEN <<"decode", "fallback">>
            ELSE IF Mix /\ ~ (Interval > 1 /\ decoding)
              THEN <<"decode", "prefill", "admit">>
            ELSE <<"prefill", "admit", "fallback">>,
   on |-> TRUE, i |-> 1, budget |-> TokCap, seqs |-> 0,
   decoding |-> decoding, short |-> FALSE]

(* The loop at the head of todo ends. *)
Ended(f, b) ==
  [f EXCEPT !.i = 1, !.short = FALSE,
            !.todo = IF Len(@) > 1 /\ @[2] = "fallback"
                       THEN (IF b = <<>> THEN <<"decode">> ELSE <<>>)
                     ELSE Tail(@)]

In(loop) == form.on /\ form.todo # <<>> /\ Head(form.todo) = loop

Full == form.budget <= 0 \/ form.seqs >= SeqCap

Loading == {r \in Reqs : st[r] = "loading"}

(* Indices the loop over running still has to visit. *)
Todo(state) == {j \in form.i .. Len(running) : st[running[j]] = state}

-----------------------------------------------------------------------------
(* add_decodes                                                             *)

DecodeRoom == form.budget >= 1 + Nextn /\ form.seqs < SeqCap

DecodeGrow ==
  LET j == Min(Todo("decode")) IN
  /\ In("decode") /\ ~ form.short
  /\ Todo("decode") # {} /\ DecodeRoom
  /\ BeginGrow(running[j], 1 + Nextn)
  /\ form' = [form EXCEPT !.i = j]
  /\ UNCHANGED queues

DecodeGrowFailed ==
  /\ In("decode")
  /\ GrowFailed
  /\ form' = [form EXCEPT !.short = TRUE]
  /\ UNCHANGED queues

(* The youngest decode behind the one at i makes room for it. *)
Younger == {j \in form.i + 1 .. Len(running) : st[running[j]] = "decode"}

Preempted(r) == PreemptKeep(r) \/ PreemptDrop(r) \/ PreemptPrefill(r)

DecodePreempt ==
  LET j == Max(Younger) IN
  /\ In("decode") /\ form.short /\ Younger # {}
  /\ Preempted(running[j])
  /\ running' = RemoveAt(running, j)
  /\ waiting' = <<running[j]>> \o waiting
  /\ form' = [form EXCEPT !.short = FALSE]
  /\ UNCHANGED <<busy, batch, since, blocked>>

DecodeSkip ==
  /\ In("decode") /\ form.short /\ Younger = {}
  /\ form' = [form EXCEPT !.short = FALSE, !.i = @ + 1]
  /\ UNCHANGED <<vars, queues>>

DecodesEnd ==
  /\ In("decode") /\ Idle /\ ~ form.short
  /\ Todo("decode") = {} \/ ~ DecodeRoom
  /\ form' = Ended(form, batch)
  /\ UNCHANGED <<vars, queues>>

-----------------------------------------------------------------------------
(* add_prefills                                                            *)

(* Mutant: the chunk size is not looked at. *)
ChunkRest(r) == Min({left[r], form.budget})

Chunk(r) == Min({left[r], ChunkTokens, form.budget})

PrefillGrow ==
  LET j == Min(Todo("prefill")) IN
  /\ In("prefill") /\ Todo("prefill") # {} /\ ~ Full
  /\ BeginGrow(running[j], Chunk(running[j]))
  /\ form' = [form EXCEPT !.i = j]
  /\ UNCHANGED queues

PrefillGrowFailed ==
  /\ In("prefill")
  /\ GrowFailed
  /\ form' = [form EXCEPT !.i = @ + 1]
  /\ UNCHANGED queues

PrefillsEnd ==
  /\ In("prefill") /\ Idle
  /\ Todo("prefill") = {} \/ Full
  /\ form' = Ended(form, batch)
  /\ UNCHANGED <<vars, queues>>

RejectFront ==
  /\ In("admit") /\ waiting # <<>> /\ ~ Full
  /\ Reject(Head(waiting))
  /\ waiting' = Tail(waiting)
  /\ UNCHANGED <<running, busy, batch, since, blocked, form>>

AdmitFront ==
  LET r == Head(waiting)
      chunk == Min({ChunkTokens, form.budget})
  IN
  /\ In("admit") /\ waiting # <<>> /\ ~ Full
  /\ \E h \in Hits(r) :
       \/ BeginLoad(r, h)
       \/ PinWhole(r, h, chunk)
       \/ Free # {} /\ PinSplit(r, h, FirstFree({}), chunk)
  /\ UNCHANGED <<queues, form>>

(* queue_transfer: without overlap the worker waits until the transfer is  *)
(* over.                                                                   *)
Transfers == blocked' \in (IF Overlap THEN {FALSE} ELSE {blocked, TRUE})

(* Mutant: a request whose load started stays in front of the queue. *)
FrontStays == LoadStart /\ UNCHANGED <<queues, form>>

FrontLoading ==
  /\ LoadStart
  /\ Transfers
  /\ waiting' = Tail(waiting)
  /\ UNCHANGED <<running, busy, batch, since, form>>

FrontBlocked ==
  /\ LoadBlocked \/ AdmitBlocked
  /\ form' = Ended(form, batch)
  /\ UNCHANGED queues

(* An admitted request gets its first chunk at once: admission has made    *)
(* room for it (AdmittedFits), so that add_prefill_chunk cannot fail here. *)
FrontAdmitted ==
  /\ AdmitOk
  /\ waiting' = Tail(waiting)
  /\ running' = Append(running, Head(waiting))
  /\ form' = [form EXCEPT !.todo = <<"chunk">> \o @, !.i = Len(running')]
  /\ UNCHANGED <<busy, batch, since, blocked>>

FirstChunk ==
  /\ In("chunk")
  /\ BeginGrow(running[form.i], Chunk(running[form.i]))
  /\ UNCHANGED <<queues, form>>

AdmissionsEnd ==
  /\ In("admit") /\ Idle
  /\ waiting = <<>> \/ Full
  /\ form' = Ended(form, batch)
  /\ UNCHANGED <<vars, queues>>

(* A request that got its tokens joins the batch. *)
Batched ==
  LET r == op.req IN
  /\ GrowOk
  /\ batch' = Append(batch, [req |-> r, tokens |-> op.tok, prefill |-> st[r] = "prefill"])
  /\ form' = [form EXCEPT !.budget = @ - op.tok, !.seqs = @ + 1, !.i = @ + 1,
                          !.todo = IF Head(@) = "chunk" THEN Tail(@) ELSE @]
  /\ UNCHANGED <<running, waiting, busy, since, blocked>>

-----------------------------------------------------------------------------
(* The end of form_batch, and the events.                                  *)

Formed == form.on /\ form.todo = <<>> /\ Idle

(* Mutants: a batch that is not empty is given up; an empty one is not. *)
StalledBusy == running # <<>> /\ Loading = {}
StalledNever == FALSE

Stalled == batch = <<>> /\ running # <<>> /\ Loading = {}

(* An empty rank with running requests preempts the youngest, and forms    *)
(* its batch again.                                                        *)
FormAgain ==
  LET r == Last(running) IN
  /\ Formed /\ Stalled
  /\ Preempted(r)
  /\ running' = Front(running)
  /\ waiting' = <<r>> \o waiting
  /\ batch' = <<>>
  /\ form' = Opened(running', st')
  /\ UNCHANGED <<busy, since, blocked>>

StartPass ==
  /\ Formed /\ ~ Stalled
  /\ busy' = (batch # <<>>)
  /\ since' = IF batch = <<>> THEN since
              ELSE IF Interval > 1 /\ form.decoding /\ \E i \in DOMAIN batch : batch[i].prefill
                THEN 0
              ELSE Min({since + 1, Interval})
  /\ form' = Off
  /\ UNCHANGED <<vars, running, waiting, batch, blocked>>

(* Mutant: no pass is tried when nothing runs. *)
TryStartRunning ==
  form' = IF busy' \/ blocked' \/ running' = <<>> THEN Off ELSE Opened(running', st')

(* try_start_pass *)
TryStart == form' = IF busy' \/ blocked' THEN Off ELSE Opened(running', st')

(* enqueue *)
Arrive(r) ==
  /\ ~ form.on
  /\ Queued(r) /\ ~ Contains(waiting, r)
  /\ waiting' = Append(waiting, r)
  /\ UNCHANGED <<vars, running, busy, batch, since, blocked>>
  /\ TryStart

(* EvTransfer: a transfer that blocked the worker, or the last such one, is *)
(* over.                                                                   *)
Loaded(r) ==
  /\ ~ form.on
  /\ LoadDone(r)
  /\ waiting' = <<r>> \o waiting
  /\ blocked' \in {blocked, FALSE}
  /\ UNCHANGED <<running, busy, batch, since>>
  /\ TryStart

(* A write-back, of this rank or of another worker: every worker tries.    *)
Written ==
  /\ NTiers > 1
  /\ ~ form.on
  /\ blocked' \in {blocked, FALSE}
  /\ UNCHANGED <<vars, running, waiting, busy, batch, since>>
  /\ TryStart

Committed(r) ==
  \/ CommitChunk(r)
  \/ LET id == FirstFree({}) IN
       \/ Cardinality(Free) > 0 /\ CommitPrefill(r, id, id)
       \/ Cardinality(Free) > 1 /\ CommitPrefill(r, id, FirstFree({id}))
  \/ \E k \in 1 .. 1 + Nextn : CommitDecode(r, k) \/ CommitLast(r, k)

(* What commit_pass leaves of running.                                     *)
StillServed(run, state) ==
  FoldLeft(LAMBDA kept, r : IF state[r] \in {"prefill", "decode"} THEN Append(kept, r) ELSE kept,
           <<>>, run)

(* The pass is over: commit_pass takes the requests in batch order; then   *)
(* the next batch is formed.                                               *)
Commit ==
  /\ busy /\ (form.on => In("commit"))
  /\ Committed(Head(batch).req)
  /\ batch' = Tail(batch)
  /\ UNCHANGED <<waiting, since, blocked>>
  /\ IF Len(batch) > 1
       THEN /\ form' = [Off EXCEPT !.on = TRUE, !.todo = <<"commit">>]
            /\ UNCHANGED <<running, busy>>
       ELSE /\ running' = StillServed(running, st')
            /\ busy' = FALSE
            /\ TryStart

-----------------------------------------------------------------------------

(* The primers of the first plays are queued before the first pass forms.  *)
RankInit ==
  /\ Init
  /\ running = <<>>
  /\ waiting \in SetToAllKPermutations({r \in Reqs : Before[r] = {}})
  /\ busy = FALSE /\ blocked = FALSE
  /\ batch = <<>>
  /\ since = 0
  /\ form = Opened(<<>>, st)

Evict ==
  /\ \/ Offload /\ Transfers
     \/ Drop /\ UNCHANGED blocked
     \/ \E v \in lru : (EvictDown(v) \/ EvictLast(v)) /\ UNCHANGED blocked
  /\ UNCHANGED <<running, waiting, busy, batch, since, form>>

(* lookup() is called by the router and by admission. *)
Lapse ==
  /\ ~ form.on \/ In("admit")
  /\ \E n \in live : Expire(n)
  /\ UNCHANGED <<queues, form>>

FormBatch ==
  \/ Evict
  \/ DecodeGrow \/ DecodeGrowFailed \/ DecodePreempt \/ DecodeSkip \/ DecodesEnd
  \/ PrefillGrow \/ PrefillGrowFailed \/ PrefillsEnd
  \/ RejectFront \/ AdmitFront \/ FrontLoading \/ FrontBlocked \/ FrontAdmitted
  \/ FirstChunk \/ AdmissionsEnd
  \/ Batched
  \/ FormAgain \/ StartPass

RankNext ==
  \/ FormBatch
  \/ Commit
  \/ \E r \in Reqs : Arrive(r) \/ Loaded(r)
  \/ Written
  \/ Lapse

RankSpec == RankInit /\ [][RankNext]_rankvars

(* Handlers run to their end; a pass ends, and so does a transfer that     *)
(* blocks the worker.  A request that may arrive and a load that is under  *)
(* way have a time at which the event loop takes them, however many passes *)
(* it handles before.                                                      *)
Fairness ==
  /\ WF_rankvars(FormBatch)
  /\ WF_rankvars(Commit)
  /\ WF_rankvars(Written /\ blocked /\ ~ blocked')
  /\ \A r \in Reqs : SF_rankvars(Arrive(r)) /\ SF_rankvars(Loaded(r))

FairSpec == RankSpec /\ Fairness

-----------------------------------------------------------------------------
(* Properties.                                                             *)

RankTypeOK ==
  /\ running \in Seq(Reqs) /\ waiting \in Seq(Reqs)
  /\ busy \in BOOLEAN /\ blocked \in BOOLEAN
  /\ batch \in Seq([req : Reqs, tokens : Nat, prefill : BOOLEAN])
  /\ since \in 0 .. Interval
  /\ form.i \in Nat /\ form.budget \in 0 .. TokCap /\ form.seqs \in 0 .. SeqCap
  /\ form.todo \in Seq({"decode", "prefill", "admit", "chunk", "fallback", "commit"})

(* No request is lost or queued twice by the moves between the queues:     *)
(* between two events running holds the requests being served, waiting     *)
(* holds queued ones, each once, and a request that loads is in neither.   *)
QueuesExact ==
  /\ IsInjective(running) /\ IsInjective(waiting)
  /\ \A i \in DOMAIN waiting : st[waiting[i]] = "queued"
  /\ ~ form.on => Range(running) = {r \in Reqs : Serving(r)}

BatchTokens == FoldSeq(LAMBDA b, n : b.tokens + n, 0, batch)

(* What a pass computes is still there when it ends: its entries are       *)
(* distinct requests that hold the tokens allocated to them, none of them  *)
(* was preempted meanwhile, and the limits of a batch are kept.            *)
BatchValid ==
  /\ \A i, j \in DOMAIN batch : batch[i].req = batch[j].req => i = j
  /\ \A i \in DOMAIN batch :
       /\ pend[batch[i].req] = batch[i].tokens /\ batch[i].tokens > 0
       /\ Contains(running, batch[i].req)
       /\ st[batch[i].req] = (IF batch[i].prefill THEN "prefill" ELSE "decode")
  /\ Len(batch) <= SeqCap
  /\ BatchTokens <= TokCap
  /\ \A r \in Reqs : pend[r] > 0 => \E i \in DOMAIN batch : batch[i].req = r

(* Admission makes room for what the first chunk then takes. *)
AdmittedFits == In("chunk") => ~ Short

(* A rank at rest has nothing left to do: with no pass and no load under   *)
(* way nothing would start it again for a request that waits.              *)
NotStuck ==
  ~ form.on /\ ~ busy /\ ~ blocked /\ Loading = {} => running = <<>> /\ waiting = <<>>

(* The scheduler drives the cache as KvTree lets it be driven, so that     *)
(* what holds of KvTree for any scheduler holds under this one.            *)
ImplementsKvTree == Spec

(* Every request is served or rejected in the end. *)
Served == \A r \in Reqs : <>(st[r] = "done")

=============================================================================
