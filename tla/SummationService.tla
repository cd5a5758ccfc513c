-------------------------- MODULE SummationService --------------------------
(***************************************************************************)
(* The summation service: one client thread hands tasks to one background  *)
(* thread through comm_channel[0] and collects them from comm_channel[1].  *)
(* Both channels are SPSCQueues, used here as the bounded queues that      *)
(* module SPSCQueue is proved to implement.                                *)
(*                                                                         *)
(* A task is the number of its submission and its agg_width; of the sum    *)
(* itself only whether it was computed is kept.  submited_compute_task     *)
(* returns the token 0 for every task and sync_compute_task and            *)
(* peek_compute_task ignore the token they are given.                      *)
(*                                                                         *)
(* A definition named D_what is D with a plausible bug; it stands before D *)
(* and nothing uses it but the runs that show a property can fail.         *)
(***************************************************************************)
EXTENDS Naturals, Sequences

CONSTANTS
  Bound,      \* what a channel holds (1023 for the 1024 slots of the code)
  Widths,     \* the agg_width values clients ask for
  MaxTasks    \* bound on the number of submissions

ASSUME BoundAssumption == Bound \in Nat \ {0}
ASSUME WidthsAssumption == Widths \subseteq Nat
ASSUME MaxTasksAssumption == MaxTasks \in Nat

VARIABLES
  comm_channel,   \* the two queues
  cpc,            \* where the client thread is
  pending,        \* the task it is pushing
  submitted,      \* how many tasks it has pushed
  collected,      \* how many completions sync or peek have returned
  bpc,            \* where the background thread is, "off" before it exists
  task,           \* the background thread's task_info
  summed          \* the tasks whose sum has been stored

clientvars == <<cpc, pending, submitted, collected>>
bgvars     == <<bpc, task, summed>>
vars       == <<comm_channel, clientvars, bgvars>>

Tasks == [id : 1 .. MaxTasks, agg_width : Widths]

NoTask == [id |-> 0, agg_width |-> 0]

Init ==
  /\ comm_channel = [q \in {0, 1} |-> << >>]
  /\ cpc = "idle"
  /\ pending = NoTask
  /\ submitted = 0
  /\ collected = 0
  /\ bpc = "off"
  /\ task = NoTask
  /\ summed = {}

-----------------------------------------------------------------------------
(* The client thread. *)

StartServiceAsync_always ==
  /\ cpc = "idle"
  /\ bpc' = "pop"
  /\ task' = NoTask
  /\ UNCHANGED <<comm_channel, clientvars, summed>>

(* start_service_async: a second call only warns. *)
StartServiceAsync ==
  /\ cpc = "idle"
  /\ bpc = "off"
  /\ bpc' = "pop"
  /\ UNCHANGED <<comm_channel, clientvars, task, summed>>

(* submited_compute_task is called ... *)
SubmitedComputeTask(w) ==
  /\ cpc = "idle"
  /\ submitted < MaxTasks
  /\ cpc' = "submit"
  /\ pending' = [id |-> submitted + 1, agg_width |-> w]
  /\ UNCHANGED <<comm_channel, submitted, collected, bgvars>>

(* ... and returns when push has found room. *)
SubmitPush ==
  /\ cpc = "submit"
  /\ Len(comm_channel[0]) < Bound
  /\ comm_channel' = [comm_channel EXCEPT ![0] = Append(@, pending)]
  /\ submitted' = submitted + 1
  /\ cpc' = "idle"
  /\ pending' = NoTask
  /\ UNCHANGED <<collected, bgvars>>

(* sync_compute_task is called ... *)
SyncComputeTask ==
  /\ cpc = "idle"
  /\ cpc' = "sync"
  /\ UNCHANGED <<comm_channel, pending, submitted, collected, bgvars>>

(* ... and returns when blocking_pop has found a completion. *)
SyncPop ==
  /\ cpc = "sync"
  /\ comm_channel[1] # << >>
  /\ comm_channel' = [comm_channel EXCEPT ![1] = Tail(@)]
  /\ collected' = collected + 1
  /\ cpc' = "idle"
  /\ UNCHANGED <<pending, submitted, bgvars>>

PeekComputeTask_counts_misses ==
  /\ cpc = "idle"
  /\ IF comm_channel[1] = << >>
       THEN UNCHANGED comm_channel
       ELSE comm_channel' = [comm_channel EXCEPT ![1] = Tail(@)]
  /\ collected' = collected + 1
  /\ UNCHANGED <<cpc, pending, submitted, bgvars>>

(* peek_compute_task returns false, changing nothing, or takes one. *)
PeekComputeTask ==
  /\ cpc = "idle"
  /\ comm_channel[1] # << >>
  /\ comm_channel' = [comm_channel EXCEPT ![1] = Tail(@)]
  /\ collected' = collected + 1
  /\ UNCHANGED <<cpc, pending, submitted, bgvars>>

(* The destructor joins the background thread, if there is one: its loop   *)
(* has no end, so this call never returns.                                 *)
Destroy ==
  /\ cpc = "idle"
  /\ cpc' = IF bpc = "off" THEN "destroyed" ELSE "join"
  /\ UNCHANGED <<comm_channel, pending, submitted, collected, bgvars>>

-----------------------------------------------------------------------------
(* The background thread. *)

BgPop ==
  /\ bpc = "pop"
  /\ comm_channel[0] # << >>
  /\ task' = Head(comm_channel[0])
  /\ comm_channel' = [comm_channel EXCEPT ![0] = Tail(@)]
  /\ bpc' = "reduce"
  /\ UNCHANGED <<clientvars, summed>>

ReduceSum_half_open ==
  /\ bpc = "reduce"
  /\ summed' = IF task.agg_width \in 2 .. 19 THEN summed \cup {task.id} ELSE summed
  /\ bpc' = "push"
  /\ UNCHANGED <<comm_channel, clientvars, task>>

(* reduce_sum has a case that adds this many sources. *)
KnownWidths == 2 .. 20

(* reduce_sum: any other width is reported on stderr, nothing is stored,   *)
(* and the task still counts as done.                                      *)
ReduceSum ==
  /\ bpc = "reduce"
  /\ summed' = IF task.agg_width \in KnownWidths THEN summed \cup {task.id} ELSE summed
  /\ bpc' = "push"
  /\ UNCHANGED <<comm_channel, clientvars, task>>

BgPush_slot_wasted ==
  /\ bpc = "push"
  /\ Len(comm_channel[1]) + 1 < Bound
  /\ comm_channel' = [comm_channel EXCEPT ![1] = Append(@, task)]
  /\ bpc' = "pop"
  /\ task' = NoTask
  /\ UNCHANGED <<clientvars, summed>>

(* The task goes to fin_queue, once there is room. *)
BgPush ==
  /\ bpc = "push"
  /\ Len(comm_channel[1]) < Bound
  /\ comm_channel' = [comm_channel EXCEPT ![1] = Append(@, task)]
  /\ bpc' = "pop"
  /\ task' = NoTask
  /\ UNCHANGED <<clientvars, summed>>

-----------------------------------------------------------------------------

ClientReturns == SubmitPush \/ SyncPop

Client ==
  \/ StartServiceAsync
  \/ \E w \in Widths : SubmitedComputeTask(w)
  \/ SyncComputeTask
  \/ PeekComputeTask \/ Destroy
  \/ ClientReturns

Background == BgPop \/ ReduceSum \/ BgPush

Next == Client \/ Background

(* Both threads are scheduled; which calls the client makes is up to it. *)
Spec == Init /\ [][Next]_vars /\ WF_vars(Background) /\ WF_vars(ClientReturns)

-----------------------------------------------------------------------------
(* Properties. *)

(* The state of the two threads and of the channels between them; no more  *)
(* completions are collected than tasks were submitted.                    *)
TypeOK ==
  /\ comm_channel \in [{0, 1} -> Seq(Tasks)]
  /\ \A q \in {0, 1} : Len(comm_channel[q]) <= Bound
  /\ cpc \in {"idle", "submit", "sync", "join", "destroyed"}
  /\ pending \in Tasks \cup {NoTask}
  /\ submitted \in 0 .. MaxTasks
  /\ collected \in 0 .. submitted
  /\ bpc \in {"off", "pop", "reduce", "push"}
  /\ task \in Tasks \cup {NoTask}
  /\ summed \subseteq 1 .. MaxTasks

(* The tasks in the service, oldest first: finished, in work, waiting. *)
Pipeline ==
  comm_channel[1] \o (IF bpc \in {"reduce", "push"} THEN <<task>> ELSE << >>) \o comm_channel[0]

(* The token says nothing about which task is meant, yet the k-th return   *)
(* of sync or peek means that the k-th submitted task is done: its sum is  *)
(* stored if its width is one reduce_sum knows, and the background thread  *)
(* will not touch its buffers any more.                                    *)
CompletionsInOrder ==
  /\ \A k \in DOMAIN Pipeline : Pipeline[k].id = collected + k
  /\ submitted = collected + Len(Pipeline)
  /\ \A k \in DOMAIN comm_channel[1] :
       comm_channel[1][k].agg_width \in 2 .. 20 => comm_channel[1][k].id \in summed

FIFO == INSTANCE BoundedFIFO WITH
          Values <- Tasks, Bound <- 2 * Bound + 1, queue <- Pipeline, out <- NoTask

(* To the client the two channels and the thread are one queue of          *)
(* 2 * Bound + 1 tasks: none is lost, duplicated or overtaken, also when   *)
(* start_service_async is called again.                                    *)
ImplementsFIFO == FIFO!Spec

(* A call returns.  sync_compute_task does if the service runs and a task  *)
(* is in it.  submited_compute_task does unless 2 * Bound + 1 tasks are    *)
(* already in the service: below that limit a full channel or a blocked    *)
(* background thread only delays it, at the limit only the caller itself   *)
(* could have made room.  The destructor does not, but the tasks submitted *)
(* before it are still worked off while it waits, as far as there is room  *)
(* for them.                                                               *)
CallsReturn ==
  /\ (/\ bpc # "off"
      /\ \/ cpc = "sync" /\ submitted > collected
         \/ cpc = "submit" /\ submitted - collected <= 2 * Bound)  ~>  (cpc = "idle")
  /\ (cpc = "join") ~> (comm_channel[0] = << >> \/ Len(comm_channel[1]) = Bound)

=============================================================================
