---------------------- MODULE SummationService_proofs ----------------------
(***************************************************************************)
(* Proofs, for channels of every size, that the summation service is type  *)
(* correct, that completions come in the order of the submissions, each    *)
(* with its sum stored, and that the service implements a FIFO queue of    *)
(* 2 * Bound + 1 tasks.                                                    *)
(***************************************************************************)
EXTENDS SummationService, SequenceTheorems, TLAPS

(* The background thread holds a task between BgPop and BgPush. *)
Busy == bpc \in {"reduce", "push"}

(* How many tasks are not waiting in comm_channel[0]. *)
Ahead == Len(comm_channel[1]) + (IF Busy THEN 1 ELSE 0)

(* The inductive invariant.  CompletionsInOrder numbers the tasks by their *)
(* place in Pipeline; this numbers them by their place in each channel,    *)
(* and adds what the client is about to submit and that the sum of the     *)
(* task being pushed is stored already.                                    *)
IInv ==
  /\ TypeOK
  /\ cpc = "submit" => /\ pending \in Tasks
                       /\ pending.id = submitted + 1
  /\ Busy => /\ task \in Tasks
             /\ task.id = collected + Len(comm_channel[1]) + 1
  /\ bpc = "push" /\ task.agg_width \in KnownWidths => task.id \in summed
  /\ \A k \in 1 .. Len(comm_channel[1]) :
       /\ comm_channel[1][k].id = collected + k
       /\ comm_channel[1][k].agg_width \in KnownWidths => comm_channel[1][k].id \in summed
  /\ \A k \in 1 .. Len(comm_channel[0]) : comm_channel[0][k].id = collected + Ahead + k
  /\ submitted = collected + Ahead + Len(comm_channel[0])

(* The initial state satisfies the inductive invariant. *)
LEMMA InitIInv == Init => IInv
  BY BoundAssumption, MaxTasksAssumption DEF Init, IInv, TypeOK, Busy, Ahead

(* What the code reads of a task. *)
LEMMA TaskType == \A t \in Tasks : t.id \in 1 .. MaxTasks /\ t.agg_width \in Nat
  BY WidthsAssumption DEF Tasks

(* No task is NoTask, which has number 0. *)
LEMMA NoTaskIsNone == NoTask \notin Tasks
  BY MaxTasksAssumption DEF NoTask, Tasks

(* The oldest completion is removed, by sync or by peek. *)
LEMMA CollectIInv ==
  ASSUME IInv, comm_channel[1] # << >>,
         comm_channel' = [comm_channel EXCEPT ![1] = Tail(@)],
         collected' = collected + 1,
         cpc' = "idle", UNCHANGED <<pending, submitted, bgvars>>
  PROVE  IInv'
<1> USE BoundAssumption, MaxTasksAssumption
<1> DEFINE q == comm_channel[1]
<1>1. q \in Seq(Tasks) /\ Len(q) \in 1 .. Bound /\ q = comm_channel[1]
      /\ comm_channel[0] \in Seq(Tasks)
  BY EmptySeq DEF IInv, TypeOK
<1>2. /\ Tail(q) \in Seq(Tasks)
      /\ Len(Tail(q)) = Len(q) - 1
      /\ \A i \in 1 .. Len(Tail(q)) : Tail(q)[i] = q[i + 1]
  BY <1>1, HeadTailProperties
<1> HIDE DEF q
<1>3. comm_channel'[1] = Tail(q) /\ comm_channel'[0] = comm_channel[0]
      /\ comm_channel' \in [{0, 1} -> Seq(Tasks)]
  BY <1>1, <1>2 DEF IInv, TypeOK
<1>4. Len(comm_channel'[1]) = Len(comm_channel[1]) - 1 /\ Ahead' = Ahead - 1
      /\ Len(comm_channel'[0]) = Len(comm_channel[0])
  BY <1>1, <1>2, <1>3 DEF Ahead, Busy, bgvars
<1>5. TypeOK'
  BY <1>1, <1>2, <1>3, <1>4 DEF IInv, TypeOK, bgvars, Ahead
<1>6. \A k \in 1 .. Len(comm_channel'[1]) :
        /\ comm_channel'[1][k].id = collected' + k
        /\ comm_channel'[1][k].agg_width \in KnownWidths => comm_channel'[1][k].id \in summed'
  BY <1>1, <1>2, <1>3, <1>4 DEF IInv, TypeOK, bgvars
<1>a. Ahead \in Nat /\ Len(comm_channel[0]) \in Nat
  BY DEF IInv, TypeOK, Ahead
<1>7. \A k \in 1 .. Len(comm_channel'[0]) : comm_channel'[0][k].id = collected' + Ahead' + k
  BY <1>a, <1>1, <1>3, <1>4 DEF IInv, TypeOK
<1>8. submitted' = collected' + Ahead' + Len(comm_channel'[0])
  BY <1>a, <1>1, <1>4 DEF IInv, TypeOK
<1>9. QED
  BY <1>1, <1>4, <1>5, <1>6, <1>7, <1>8 DEF IInv, TypeOK, bgvars, Busy

(* Every step of either thread preserves the inductive invariant. *)
LEMMA NextIInv == IInv /\ [Next]_vars => IInv'
<1> SUFFICES ASSUME IInv, [Next]_vars PROVE IInv'
  OBVIOUS
<1> USE BoundAssumption, MaxTasksAssumption
<1>a. /\ comm_channel \in [{0, 1} -> Seq(Tasks)]
      /\ comm_channel[0] \in Seq(Tasks) /\ comm_channel[1] \in Seq(Tasks)
      /\ Len(comm_channel[0]) \in 0 .. Bound /\ Len(comm_channel[1]) \in 0 .. Bound
      /\ Ahead \in Nat
  BY DEF IInv, TypeOK, Ahead
<1>1. CASE StartServiceAsync
  BY <1>1 DEF StartServiceAsync, clientvars, IInv, TypeOK, Busy, Ahead
<1>2. ASSUME NEW w \in Widths, SubmitedComputeTask(w) PROVE IInv'
  BY <1>2 DEF SubmitedComputeTask, bgvars, IInv, TypeOK, Busy, Ahead, Tasks
<1>3. CASE SyncComputeTask
  BY <1>3 DEF SyncComputeTask, bgvars, IInv, TypeOK, Busy, Ahead
<1>4. CASE PeekComputeTask
  BY <1>4, CollectIInv DEF PeekComputeTask
<1>5. CASE Destroy
  BY <1>5 DEF Destroy, bgvars, IInv, TypeOK, Busy, Ahead
<1>6. CASE SubmitPush
  <2>1. comm_channel'[1] = comm_channel[1] /\ comm_channel'[0] = Append(comm_channel[0], pending)
    BY <1>6, <1>a DEF SubmitPush
  <2>2. pending \in Tasks /\ pending.id = submitted + 1 /\ submitted \in 0 .. MaxTasks
    BY <1>6 DEF SubmitPush, IInv, TypeOK
  <2>3. /\ comm_channel'[0] \in Seq(Tasks)
        /\ Len(comm_channel'[0]) = Len(comm_channel[0]) + 1
        /\ \A i \in 1 .. Len(comm_channel[0]) : comm_channel'[0][i] = comm_channel[0][i]
        /\ comm_channel'[0][Len(comm_channel[0]) + 1] = pending
    BY <2>1, <2>2, <1>a, AppendProperties
  <2>4. comm_channel' \in [{0, 1} -> Seq(Tasks)]
    BY <1>6, <1>a, <2>1, <2>3 DEF SubmitPush
  <2>5. TypeOK'
    BY <1>6, <1>a, <2>1, <2>2, <2>3, <2>4, TaskType DEF SubmitPush, IInv, TypeOK, bgvars
  <2>6. Ahead' = Ahead
    BY <1>6, <2>1 DEF SubmitPush, bgvars, Ahead, Busy
  <2>7. \A k \in 1 .. Len(comm_channel'[0]) : comm_channel'[0][k].id = collected' + Ahead' + k
    <3>1. ASSUME NEW k \in 1 .. Len(comm_channel'[0]), k # Len(comm_channel[0]) + 1
          PROVE  comm_channel'[0][k].id = collected' + Ahead' + k
      BY <3>1, <1>6, <1>a, <2>3, <2>6 DEF SubmitPush, IInv
    <3>2. pending.id = collected + Ahead + (Len(comm_channel[0]) + 1)
      BY <2>2, <1>a DEF IInv, TypeOK
    <3>3. QED
      BY <3>1, <3>2, <1>6, <2>3, <2>6 DEF SubmitPush
  <2>8. submitted' = collected' + Ahead' + Len(comm_channel'[0])
    BY <1>6, <1>a, <2>3, <2>6 DEF SubmitPush, IInv, TypeOK
  <2>9. QED
    BY <1>6, <2>1, <2>5, <2>7, <2>8 DEF SubmitPush, IInv, bgvars, Busy
<1>7. CASE SyncPop
  BY <1>7, CollectIInv DEF SyncPop
<1>8. CASE BgPop
  <2> DEFINE q == comm_channel[0]
  <2>1. q \in Seq(Tasks) /\ Len(q) \in 1 .. Bound /\ Head(q) = q[1] /\ q = comm_channel[0]
    BY <1>8, <1>a, EmptySeq DEF BgPop
  <2>2. /\ Head(q) \in Tasks
        /\ Tail(q) \in Seq(Tasks)
        /\ Len(Tail(q)) = Len(q) - 1
        /\ \A i \in 1 .. Len(Tail(q)) : Tail(q)[i] = q[i + 1]
    BY <1>8, <2>1, HeadTailProperties DEF BgPop
  <2> HIDE DEF q
  <2>3. comm_channel'[0] = Tail(q) /\ comm_channel'[1] = comm_channel[1]
        /\ comm_channel' \in [{0, 1} -> Seq(Tasks)] /\ task' = Head(q)
    BY <1>8, <1>a, <2>1, <2>2 DEF BgPop
  <2>4. Ahead = Len(comm_channel[1]) /\ Ahead' = Len(comm_channel[1]) + 1 /\ Busy' /\ ~Busy
    BY <1>8, <1>a, <2>3 DEF BgPop, Ahead, Busy
  <2>5. TypeOK'
    BY <1>8, <1>a, <2>1, <2>2, <2>3 DEF BgPop, IInv, TypeOK, clientvars
  <2>6. task' \in Tasks /\ task'.id = collected' + Len(comm_channel'[1]) + 1
    BY <1>8, <1>a, <2>1, <2>2, <2>3, <2>4 DEF BgPop, IInv, TypeOK, clientvars
  <2>7. \A k \in 1 .. Len(comm_channel'[0]) : comm_channel'[0][k].id = collected' + Ahead' + k
    BY <1>8, <1>a, <2>1, <2>2, <2>3, <2>4 DEF BgPop, IInv, TypeOK, clientvars
  <2>8. submitted' = collected' + Ahead' + Len(comm_channel'[0])
    BY <1>8, <1>a, <2>1, <2>2, <2>3, <2>4 DEF BgPop, IInv, TypeOK, clientvars
  <2>9. QED
    BY <1>8, <2>3, <2>5, <2>6, <2>7, <2>8 DEF BgPop, IInv, clientvars
<1>9. CASE ReduceSum
  BY <1>9, <1>a, TaskType DEF ReduceSum, clientvars, IInv, TypeOK, Busy, Ahead
<1>10. CASE BgPush
  <2>1. comm_channel'[0] = comm_channel[0] /\ comm_channel'[1] = Append(comm_channel[1], task)
    BY <1>10, <1>a DEF BgPush
  <2>2. task \in Tasks /\ task.id = collected + Len(comm_channel[1]) + 1
        /\ (task.agg_width \in KnownWidths => task.id \in summed)
    BY <1>10 DEF BgPush, IInv, Busy
  <2>3. /\ comm_channel'[1] \in Seq(Tasks)
        /\ Len(comm_channel'[1]) = Len(comm_channel[1]) + 1
        /\ \A i \in 1 .. Len(comm_channel[1]) : comm_channel'[1][i] = comm_channel[1][i]
        /\ comm_channel'[1][Len(comm_channel[1]) + 1] = task
    BY <2>1, <2>2, <1>a, AppendProperties
  <2>4. comm_channel' \in [{0, 1} -> Seq(Tasks)]
    BY <1>10, <1>a, <2>1, <2>3 DEF BgPush
  <2>5. TypeOK'
    BY <1>10, <1>a, <2>1, <2>3, <2>4 DEF BgPush, IInv, TypeOK, clientvars
  <2>6. Ahead' = Ahead /\ ~Busy' /\ Ahead = Len(comm_channel[1]) + 1
    BY <1>10, <1>a, <2>3 DEF BgPush, Ahead, Busy
  <2>7. \A k \in 1 .. Len(comm_channel'[1]) :
          /\ comm_channel'[1][k].id = collected' + k
          /\ comm_channel'[1][k].agg_width \in KnownWidths => comm_channel'[1][k].id \in summed'
    <3> TAKE k \in 1 .. Len(comm_channel'[1])
    <3>1. CASE k = Len(comm_channel[1]) + 1
      <4>1. comm_channel'[1][k] = task /\ collected + Len(comm_channel[1]) + 1 = collected + k
        BY <3>1, <2>3, <1>a DEF IInv, TypeOK
      <4>2. QED
        BY <4>1, <1>10, <2>2 DEF BgPush, clientvars
    <3>2. CASE k \in 1 .. Len(comm_channel[1])
      BY <3>2, <1>10, <2>3 DEF BgPush, IInv, clientvars
    <3>3. QED
      BY <3>1, <3>2, <1>a, <2>3
  <2>8. QED
    BY <1>10, <2>1, <2>5, <2>6, <2>7 DEF BgPush, IInv, clientvars
<1>11. CASE UNCHANGED vars
  BY <1>11 DEF vars, clientvars, bgvars, IInv, TypeOK, Busy, Ahead
<1>12. QED
  BY <1>1, <1>2, <1>3, <1>4, <1>5, <1>6, <1>7, <1>8, <1>9, <1>10, <1>11
     DEF Next, Client, ClientReturns, Background

(* The inductive invariant holds in every reachable state. *)
LEMMA Inductive == Spec => []IInv
  BY InitIInv, NextIInv, PTL DEF Spec

(* Every variable keeps its type, the channels stay within their bound and *)
(* no more completions are collected than tasks were submitted.            *)
THEOREM TypeCorrect == Spec => []TypeOK
<1>1. IInv => TypeOK
  BY DEF IInv
<1>2. QED
  BY <1>1, Inductive, PTL

-----------------------------------------------------------------------------
(* The channels and the task in work as one sequence. *)

InWork == IF Busy THEN <<task>> ELSE << >>

(* What Pipeline is, position by position. *)
PipelineOK ==
  /\ Len(comm_channel[0]) \in 0 .. Bound
  /\ Len(comm_channel[1]) \in 0 .. Bound
  /\ Ahead \in Nat
  /\ Pipeline \in Seq(Tasks)
  /\ Len(Pipeline) = Ahead + Len(comm_channel[0])
  /\ \A k \in 1 .. Len(comm_channel[1]) : Pipeline[k] = comm_channel[1][k]
  /\ Busy => Pipeline[Len(comm_channel[1]) + 1] = task
  /\ \A k \in Ahead + 1 .. Ahead + Len(comm_channel[0]) :
       Pipeline[k] = comm_channel[0][k - Ahead]

(* The inductive invariant makes Pipeline a sequence of tasks. *)
LEMMA PipelineType == IInv => PipelineOK
<1> SUFFICES ASSUME IInv PROVE PipelineOK
  OBVIOUS
<1> USE BoundAssumption
<1> DEFINE a == comm_channel[1]
           b == comm_channel[0]
           m == InWork
<1>1. /\ a \in Seq(Tasks) /\ Len(a) \in 0 .. Bound
      /\ b \in Seq(Tasks) /\ Len(b) \in 0 .. Bound
  BY DEF IInv, TypeOK
<1>2. /\ m \in Seq(Tasks) /\ Len(m) = (IF Busy THEN 1 ELSE 0)
      /\ Busy => m[1] = task
  BY DEF IInv, InWork
<1>3. Pipeline = (a \o m) \o b /\ Ahead = Len(a) + Len(m)
  BY <1>2 DEF Pipeline, InWork, Busy, Ahead
<1> HIDE DEF a, b, m
<1>4. /\ a \o m \in Seq(Tasks)
      /\ Len(a \o m) = Ahead
      /\ \A i \in 1 .. Ahead :
           (a \o m)[i] = IF i <= Len(a) THEN a[i] ELSE m[i - Len(a)]
  BY <1>1, <1>2, <1>3, ConcatProperties
<1>5. /\ Pipeline \in Seq(Tasks)
      /\ Len(Pipeline) = Ahead + Len(b)
      /\ \A i \in 1 .. Ahead + Len(b) :
           Pipeline[i] = IF i <= Ahead THEN (a \o m)[i] ELSE b[i - Ahead]
  BY <1>1, <1>3, <1>4, ConcatProperties
<1>6. Len(m) \in {0, 1} /\ (Busy => Len(m) = 1)
  BY <1>2
<1>7. \A k \in 1 .. Len(a) : Pipeline[k] = a[k]
  BY <1>1, <1>3, <1>4, <1>5, <1>6
<1>8. Busy => Pipeline[Len(a) + 1] = task
  BY <1>1, <1>2, <1>3, <1>4, <1>5, <1>6
<1>9. \A k \in Ahead + 1 .. Ahead + Len(b) : Pipeline[k] = b[k - Ahead]
  BY <1>1, <1>3, <1>5, <1>6
<1>10. Ahead \in Nat
  BY <1>1, <1>3, <1>6
<1>11. QED
  BY <1>1, <1>5, <1>7, <1>8, <1>9, <1>10 DEF PipelineOK, a, b

(* The k-th completion that sync or peek returns is that of the k-th       *)
(* submission, with its sum stored if reduce_sum knows its width.          *)
THEOREM CompletionOrder == Spec => []CompletionsInOrder
<1>1. IInv => CompletionsInOrder
  <2> SUFFICES ASSUME IInv PROVE CompletionsInOrder
    OBVIOUS
  <2>1. PipelineOK
    BY PipelineType
  <2>2. DOMAIN Pipeline = 1 .. Len(Pipeline) /\ collected \in Nat
    BY <2>1, LenProperties, MaxTasksAssumption DEF PipelineOK, IInv, TypeOK
  <2>a. /\ \A k \in 1 .. Len(comm_channel[1]) : comm_channel[1][k].id = collected + k
        /\ Len(comm_channel[0]) \in Nat /\ Len(comm_channel[1]) \in Nat /\ Ahead \in Nat
        /\ submitted = collected + Ahead + Len(comm_channel[0])
        /\ DOMAIN comm_channel[1] = 1 .. Len(comm_channel[1])
    BY <2>1 DEF PipelineOK, IInv, TypeOK
  <2>3. \A k \in DOMAIN Pipeline : Pipeline[k].id = collected + k
    <3> TAKE k \in DOMAIN Pipeline
    <3>1. CASE k <= Len(comm_channel[1])
      BY <3>1, <2>1, <2>2, <2>a DEF PipelineOK
    <3>2. CASE k > Ahead
      <4>1. k - Ahead \in 1 .. Len(comm_channel[0]) /\ Pipeline[k] = comm_channel[0][k - Ahead]
        BY <3>2, <2>1, <2>2 DEF PipelineOK
      <4>2. comm_channel[0][k - Ahead].id = collected + Ahead + (k - Ahead)
        BY <4>1 DEF IInv
      <4>3. QED
        BY <4>1, <4>2, <2>1, <2>2 DEF PipelineOK
    <3>3. CASE k > Len(comm_channel[1]) /\ k <= Ahead
      <4>1. k \in Nat
        BY <2>1, <2>2, <2>a DEF PipelineOK
      <4>2. CASE Busy
        <5>1. k = Len(comm_channel[1]) + 1
          BY <4>1, <4>2, <3>3, <2>a DEF Ahead
        <5>2. task.id = collected + Len(comm_channel[1]) + 1
          BY <4>2 DEF IInv
        <5>3. Pipeline[Len(comm_channel[1]) + 1] = task
          BY <4>2, <2>1 DEF PipelineOK
        <5>4. QED
          BY <5>1, <5>2, <5>3, <2>2, <2>a
      <4>3. CASE ~Busy
        BY <4>1, <4>3, <3>3, <2>a DEF Ahead
      <4>4. QED
        BY <4>2, <4>3
    <3>4. QED
      BY <3>1, <3>2, <3>3, <2>1, <2>2 DEF PipelineOK
  <2>b. Len(Pipeline) = Ahead + Len(comm_channel[0])
    BY <2>1 DEF PipelineOK
  <2>4. submitted = collected + Len(Pipeline)
    <3>1. PICK h \in Nat, l \in Nat : /\ submitted = collected + h + l
                                      /\ Len(Pipeline) = h + l
      BY <2>a, <2>b, Zenon
    <3>2. QED
      BY <3>1, <2>2
  <2>5. \A k \in DOMAIN comm_channel[1] :
          comm_channel[1][k].agg_width \in 2 .. 20 => comm_channel[1][k].id \in summed
    BY <2>a DEF IInv, KnownWidths
  <2>6. QED
    BY <2>3, <2>4, <2>5 DEF CompletionsInOrder
<1>2. QED
  BY <1>1, Inductive, PTL

-----------------------------------------------------------------------------
(* Refinement. *)

(* The service starts as the empty queue. *)
LEMMA InitRefines == Init => FIFO!Init
<1> SUFFICES ASSUME Init PROVE FIFO!Init
  OBVIOUS
<1>1. PipelineOK
  BY InitIInv, PipelineType
<1>2. Len(Pipeline) = 0 /\ Pipeline \in Seq(Tasks)
  BY <1>1 DEF Init, PipelineOK, Ahead, Busy
<1>3. Pipeline = << >>
  BY <1>2
<1>4. QED
  BY <1>3, NoTaskIsNone DEF FIFO!Init

(* Handing a task from one channel to the thread, or from the thread to    *)
(* the other channel, moves no task to another place in the pipeline.      *)
LEMMA PipelineSame ==
  ASSUME PipelineOK, PipelineOK', Len(Pipeline') = Len(Pipeline),
         \A k \in 1 .. Len(Pipeline) : Pipeline'[k] = Pipeline[k]
  PROVE  Pipeline' = Pipeline
  BY SeqEqual DEF PipelineOK

(* Taking the oldest completion takes the oldest task of the pipeline. *)
LEMMA CollectRefines ==
  ASSUME IInv, PipelineOK, PipelineOK', comm_channel[1] # << >>,
         comm_channel' = [comm_channel EXCEPT ![1] = Tail(@)],
         UNCHANGED bgvars
  PROVE  FIFO!Drop
<1> DEFINE q == comm_channel[1]
<1>1. q \in Seq(Tasks) /\ q # << >> /\ Len(q) \in Nat \ {0}
  BY EmptySeq DEF IInv, TypeOK
<1>2. comm_channel'[1] = Tail(q) /\ comm_channel'[0] = comm_channel[0]
  BY DEF IInv, TypeOK
<1>3. /\ Tail(q) \in Seq(Tasks)
      /\ Len(Tail(q)) = Len(q) - 1
      /\ \A i \in 1 .. Len(Tail(q)) : Tail(q)[i] = q[i + 1]
  BY <1>1, HeadTailProperties
<1>4. Ahead' = Ahead - 1 /\ Ahead >= Len(q) /\ (Busy => Ahead = Len(q) + 1)
      /\ (~Busy => Ahead = Len(q)) /\ (Busy' <=> Busy) /\ task' = task
  <2>1. (Busy' <=> Busy) /\ task' = task
    BY DEF Busy, bgvars
  <2>2. comm_channel'[1] \in Seq(Tasks) /\ Len(comm_channel'[1]) = Len(q) - 1
    BY <1>2, <1>3
  <2>3. CASE Busy
    <3>1. Ahead = Len(q) + 1 /\ Ahead' = Len(comm_channel'[1]) + 1
      BY <2>1, <2>3 DEF Ahead
    <3>2. QED
      BY <3>1, <2>1, <2>2, <2>3, <1>1
  <2>4. CASE ~Busy
    <3>1. Ahead = Len(q) /\ Ahead' = Len(comm_channel'[1])
      <4>1. Ahead = Len(comm_channel[1]) + 0 /\ Ahead' = Len(comm_channel'[1]) + 0
        BY <2>1, <2>4 DEF Ahead
      <4>2. Len(comm_channel[1]) \in Nat /\ Len(comm_channel'[1]) \in Nat
        BY <1>1, <2>2
      <4>3. QED
        BY <4>1, <4>2
    <3>2. QED
      BY <3>1, <2>1, <2>2, <2>4, <1>1
  <2>5. QED
    BY <2>3, <2>4
<1>5. /\ Pipeline \in Seq(Tasks) /\ Len(Pipeline) \in Nat \ {0}
      /\ Pipeline' \in Seq(Tasks) /\ Len(Pipeline') = Len(Pipeline) - 1
      /\ Len(Pipeline) = Ahead + Len(comm_channel[0])
      /\ Len(comm_channel[0]) \in Nat /\ Ahead \in Nat
  <2>1. Len(Pipeline') = Ahead' + Len(comm_channel'[0]) /\ Pipeline' \in Seq(Tasks)
    BY DEF PipelineOK
  <2>2. /\ Len(Pipeline) = Ahead + Len(comm_channel[0]) /\ Pipeline \in Seq(Tasks)
        /\ Len(comm_channel[0]) \in Nat /\ Ahead \in Nat
    BY BoundAssumption DEF PipelineOK
  <2>3. QED
    BY <2>1, <2>2, <1>1, <1>2, <1>4
<1>6. Pipeline # << >>
  BY <1>5, EmptySeq
<1>7. /\ Tail(Pipeline) \in Seq(Tasks)
      /\ Len(Tail(Pipeline)) = Len(Pipeline) - 1
      /\ \A i \in 1 .. Len(Tail(Pipeline)) : Tail(Pipeline)[i] = Pipeline[i + 1]
  BY <1>5, <1>6, HeadTailProperties
<1>8. ASSUME NEW k \in 1 .. Len(Pipeline')
      PROVE  Pipeline'[k] = Pipeline[k + 1]
  <2> HIDE DEF q
  <2>0. k \in Nat /\ k <= Len(Pipeline) - 1
    BY <1>5
  <2>1. CASE k <= Len(q) - 1
    <3>1. k \in 1 .. Len(Tail(q)) /\ k + 1 \in 1 .. Len(q)
      BY <2>0, <2>1, <1>1, <1>3
    <3>2. Pipeline'[k] = Tail(q)[k]
      BY <3>1, <1>2 DEF PipelineOK
    <3>3. Pipeline[k + 1] = q[k + 1]
      BY <3>1 DEF PipelineOK, q
    <3>4. QED
      BY <3>1, <3>2, <3>3, <1>3
  <2>2. CASE k = Len(q) /\ Busy
    <3>1. Pipeline[Len(q) + 1] = task
      BY <2>2 DEF PipelineOK, q
    <3>2. Pipeline'[Len(comm_channel'[1]) + 1] = task
      BY <2>2, <1>4 DEF PipelineOK
    <3>3. Len(comm_channel'[1]) + 1 = k
      BY <2>2, <1>1, <1>2, <1>3
    <3>4. QED
      BY <3>1, <3>2, <3>3, <2>2
  <2>3. CASE k >= Ahead
    <3>1. /\ k + 1 \in Ahead + 1 .. Ahead + Len(comm_channel[0])
          /\ k \in Ahead' + 1 .. Ahead' + Len(comm_channel[0])
          /\ k - Ahead' = k + 1 - Ahead
      BY <2>0, <2>3, <1>4, <1>5
    <3>2. Pipeline[k + 1] = comm_channel[0][k + 1 - Ahead]
      BY <3>1 DEF PipelineOK
    <3>3. Pipeline'[k] = comm_channel[0][k - Ahead']
      BY <3>1, <1>2 DEF PipelineOK
    <3>4. QED
      BY <3>1, <3>2, <3>3
  <2>4. QED
    BY <2>0, <2>1, <2>2, <2>3, <1>1, <1>4, <1>5
<1>9. Pipeline' = Tail(Pipeline)
  <2>1. \A k \in 1 .. Len(Pipeline') : Pipeline'[k] = Tail(Pipeline)[k]
    BY <1>5, <1>7, <1>8
  <2>2. QED
    BY <2>1, <1>5, <1>7, SeqEqual
<1>10. QED
  BY <1>6, <1>9 DEF FIFO!Drop

(* Every step of the service is a step of the FIFO or leaves it alone. *)
LEMMA StepRefines == IInv /\ IInv' /\ [Next]_vars => [FIFO!Next]_(FIFO!vars)
<1> SUFFICES ASSUME IInv, IInv', [Next]_vars
             PROVE  FIFO!Next \/ UNCHANGED FIFO!vars
  OBVIOUS
<1> USE BoundAssumption
<1>a. PipelineOK
  BY PipelineType
<1>b. PipelineOK'
  <2>1. (IInv => PipelineOK)'
    BY PipelineType, PTL
  <2>2. QED
    BY <2>1
<1>c. /\ comm_channel \in [{0, 1} -> Seq(Tasks)]
      /\ comm_channel[0] \in Seq(Tasks) /\ comm_channel[1] \in Seq(Tasks)
      /\ comm_channel'[0] \in Seq(Tasks) /\ comm_channel'[1] \in Seq(Tasks)
  BY DEF IInv, TypeOK
<1>d. /\ Len(comm_channel[0]) \in Nat /\ Len(comm_channel[1]) \in Nat /\ Ahead \in Nat
      /\ Len(Pipeline) = Ahead + Len(comm_channel[0])
      /\ Len(Pipeline') = Ahead' + Len(comm_channel'[0])
  BY <1>a, <1>b DEF PipelineOK
<1>1. CASE StartServiceAsync
  BY <1>1 DEF StartServiceAsync, FIFO!vars, Pipeline
<1>2. ASSUME NEW w \in Widths, SubmitedComputeTask(w) PROVE UNCHANGED FIFO!vars
  BY <1>2 DEF SubmitedComputeTask, bgvars, FIFO!vars, Pipeline
<1>3. CASE SyncComputeTask
  BY <1>3 DEF SyncComputeTask, bgvars, FIFO!vars, Pipeline
<1>4. CASE PeekComputeTask
  BY <1>4, <1>a, <1>b, CollectRefines DEF PeekComputeTask, FIFO!Next
<1>5. CASE Destroy
  BY <1>5 DEF Destroy, bgvars, FIFO!vars, Pipeline
<1>6. CASE SubmitPush
  <2>1. comm_channel'[1] = comm_channel[1] /\ comm_channel'[0] = Append(comm_channel[0], pending)
        /\ bpc' = bpc /\ task' = task
    BY <1>6, <1>c DEF SubmitPush, bgvars
  <2>2. pending \in Tasks
    BY <1>6 DEF SubmitPush, IInv
  <2> DEFINE front == comm_channel[1] \o InWork
  <2>3. InWork \in Seq(Tasks) /\ front \in Seq(Tasks)
    <3>1. InWork \in Seq(Tasks)
      BY DEF IInv, InWork
    <3>2. QED
      BY <3>1, <1>c, ConcatProperties
  <2>4. Pipeline = front \o comm_channel[0]
    BY DEF Pipeline, InWork, Busy
  <2>5. Pipeline' = front \o Append(comm_channel[0], pending)
    BY <2>1 DEF Pipeline, InWork, Busy
  <2> HIDE DEF front
  <2>6. front \o Append(comm_channel[0], pending) = Append(front \o comm_channel[0], pending)
    <3>1. Append(comm_channel[0], pending) = comm_channel[0] \o <<pending>>
          /\ <<pending>> \in Seq(Tasks)
      BY <1>c, <2>2, AppendIsConcat
    <3>2. front \o comm_channel[0] \in Seq(Tasks)
      BY <1>c, <2>3, ConcatProperties
    <3>3. Append(front \o comm_channel[0], pending) = (front \o comm_channel[0]) \o <<pending>>
      BY <3>2, <2>2, AppendIsConcat
    <3>4. (front \o comm_channel[0]) \o <<pending>> = front \o (comm_channel[0] \o <<pending>>)
      BY <3>1, <1>c, <2>3, ConcatAssociative, SMTT(30)
    <3>5. QED
      BY <3>1, <3>3, <3>4
  <2>7. Len(Pipeline) < 2 * Bound + 1
    <3>1. Len(comm_channel[0]) < Bound /\ Len(Pipeline) = Ahead + Len(comm_channel[0])
          /\ Len(comm_channel[0]) \in Nat /\ Len(comm_channel[1]) \in 0 .. Bound
      BY <1>6, <1>a DEF SubmitPush, PipelineOK
    <3>2. Ahead \in 0 .. Bound + 1
      BY <3>1, <1>c DEF Ahead
    <3>3. QED
      BY <3>1, <3>2
  <2>8. FIFO!Push
    BY <2>2, <2>4, <2>5, <2>6, <2>7 DEF FIFO!Push
  <2>9. QED
    BY <2>8 DEF FIFO!Next
<1>7. CASE SyncPop
  BY <1>7, <1>a, <1>b, CollectRefines DEF SyncPop, FIFO!Next
<1>8. CASE BgPop
  <2>1. /\ comm_channel'[0] = Tail(comm_channel[0]) /\ comm_channel'[1] = comm_channel[1]
        /\ task' = Head(comm_channel[0]) /\ comm_channel[0] # << >>
        /\ Busy' /\ ~Busy
    BY <1>8, <1>c DEF BgPop, Busy
  <2>2. /\ Len(Tail(comm_channel[0])) = Len(comm_channel[0]) - 1
        /\ \A i \in 1 .. Len(Tail(comm_channel[0])) :
             Tail(comm_channel[0])[i] = comm_channel[0][i + 1]
        /\ Head(comm_channel[0]) = comm_channel[0][1]
        /\ Len(comm_channel[0]) >= 1
    BY <2>1, <1>c, HeadTailProperties, EmptySeq
  <2>a. /\ Len(comm_channel'[0]) = Len(comm_channel[0]) - 1
        /\ Len(comm_channel'[1]) = Len(comm_channel[1])
    BY <2>1, <2>2
  <2>3. Ahead = Len(comm_channel[1]) /\ Ahead' = Ahead + 1
    BY <2>1, <1>a DEF Ahead, PipelineOK
  <2>4. Len(Pipeline') = Len(Pipeline)
    BY <2>a, <2>3, <1>c, <1>d
  <2>5. ASSUME NEW k \in 1 .. Len(Pipeline) PROVE Pipeline'[k] = Pipeline[k]
    <3>0. k \in Nat /\ k <= Ahead + Len(comm_channel[0])
      BY <1>d
    <3>1. CASE k <= Ahead
      <4>1. k \in 1 .. Len(comm_channel[1])
        BY <3>0, <3>1, <2>3
      <4>2. Pipeline[k] = comm_channel[1][k] /\ Pipeline'[k] = comm_channel'[1][k]
        BY <4>1, <2>1, <1>a, <1>b DEF PipelineOK
      <4>3. QED
        BY <4>2, <2>1
    <3>2. CASE k = Ahead + 1
      <4>1. k = Len(comm_channel'[1]) + 1 /\ k \in Ahead + 1 .. Ahead + Len(comm_channel[0])
            /\ k - Ahead = 1
        BY <3>0, <3>2, <2>2, <2>a, <2>3, <1>c, <1>d
      <4>2. Pipeline[k] = comm_channel[0][k - Ahead]
        BY <4>1, <1>a DEF PipelineOK
      <4>3. Pipeline'[Len(comm_channel'[1]) + 1] = task'
        BY <2>1, <1>b DEF PipelineOK
      <4>4. QED
        BY <4>1, <4>2, <4>3, <2>1, <2>2
    <3>3. CASE k > Ahead + 1
      <4>1. /\ k \in Ahead + 1 .. Ahead + Len(comm_channel[0])
            /\ k \in Ahead' + 1 .. Ahead' + Len(comm_channel'[0])
            /\ k - Ahead' \in 1 .. Len(Tail(comm_channel[0]))
            /\ k - Ahead = (k - Ahead') + 1
        BY <3>0, <3>3, <2>2, <2>a, <2>3, <1>c, <1>d
      <4>2. Pipeline[k] = comm_channel[0][k - Ahead]
        BY <4>1, <1>a DEF PipelineOK
      <4>3. Pipeline'[k] = comm_channel'[0][k - Ahead']
        BY <4>1, <1>b DEF PipelineOK
      <4>4. QED
        BY <4>1, <4>2, <4>3, <2>1, <2>2
    <3>4. QED
      BY <3>0, <3>1, <3>2, <3>3, <1>d
  <2>6. QED
    BY <2>4, <2>5, <1>a, <1>b, PipelineSame DEF FIFO!vars
<1>9. CASE ReduceSum
  BY <1>9 DEF ReduceSum, FIFO!vars, Pipeline
<1>10. CASE BgPush
  <2>1. /\ comm_channel'[0] = comm_channel[0] /\ comm_channel'[1] = Append(comm_channel[1], task)
        /\ Busy /\ ~Busy' /\ task \in Tasks
    BY <1>10, <1>c DEF BgPush, Busy, IInv
  <2>2. /\ Len(comm_channel'[1]) = Len(comm_channel[1]) + 1
        /\ \A i \in 1 .. Len(comm_channel[1]) : comm_channel'[1][i] = comm_channel[1][i]
        /\ comm_channel'[1][Len(comm_channel[1]) + 1] = task
    BY <2>1, <1>c, AppendProperties
  <2>3. Ahead = Len(comm_channel[1]) + 1 /\ Ahead' = Ahead
    BY <2>1, <2>2, <1>a DEF Ahead, PipelineOK
  <2>4. Len(Pipeline') = Len(Pipeline)
    BY <2>1, <2>3, <1>d
  <2>5. ASSUME NEW k \in 1 .. Len(Pipeline) PROVE Pipeline'[k] = Pipeline[k]
    <3>0. k \in Nat /\ k <= Ahead + Len(comm_channel[0])
      BY <1>d
    <3>1. CASE k <= Ahead
      <4>1. k \in 1 .. Len(comm_channel'[1])
        BY <3>0, <3>1, <2>2, <2>3
      <4>2. Pipeline'[k] = comm_channel'[1][k]
        BY <4>1, <1>b DEF PipelineOK
      <4>3. CASE k = Len(comm_channel[1]) + 1
        BY <4>2, <4>3, <2>1, <2>2, <1>a DEF PipelineOK
      <4>4. CASE k \in 1 .. Len(comm_channel[1])
        BY <4>2, <4>4, <2>2, <1>a DEF PipelineOK
      <4>5. QED
        BY <4>1, <4>3, <4>4, <2>2, <1>d
    <3>2. CASE k > Ahead
      <4>1. /\ k \in Ahead + 1 .. Ahead + Len(comm_channel[0])
            /\ k \in Ahead' + 1 .. Ahead' + Len(comm_channel'[0])
        BY <3>0, <3>2, <2>1, <2>3, <1>c, <1>d
      <4>2. Pipeline[k] = comm_channel[0][k - Ahead]
        BY <4>1, <1>a DEF PipelineOK
      <4>3. Pipeline'[k] = comm_channel'[0][k - Ahead']
        BY <4>1, <1>b DEF PipelineOK
      <4>4. QED
        BY <4>2, <4>3, <2>1, <2>3
    <3>3. QED
      BY <3>0, <3>1, <3>2, <1>d
  <2>6. QED
    BY <2>4, <2>5, <1>a, <1>b, PipelineSame DEF FIFO!vars
<1>11. CASE UNCHANGED vars
  BY <1>11 DEF vars, bgvars, FIFO!vars, Pipeline
<1>12. QED
  BY <1>1, <1>2, <1>3, <1>4, <1>5, <1>6, <1>7, <1>8, <1>9, <1>10, <1>11
     DEF Next, Client, ClientReturns, Background

(* Whatever the size of the channels and however the threads interleave,   *)
(* the service is one FIFO queue of 2 * Bound + 1 tasks to its client.     *)
THEOREM Refinement == Spec => ImplementsFIFO
  BY Inductive, InitRefines, StepRefines, PTL DEF Spec, ImplementsFIFO, FIFO!Spec

=============================================================================
