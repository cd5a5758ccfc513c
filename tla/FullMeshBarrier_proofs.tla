----------------------- MODULE FullMeshBarrier_proofs -----------------------
(***************************************************************************)
(* Proofs, for every number of members and late connections, that the      *)
(* server of the full-mesh benchmark uses no context before it is built,   *)
(* finds the queues empty that its comment says must be empty, and         *)
(* implements AllReduceBarrier for the connections that start the barrier, *)
(* whichever clients are killed.                                           *)
(***************************************************************************)
EXTENDS FullMeshBarrier, SequenceTheorems, FiniteSetTheorems, TLAPS

Elems(s) == {s[k] : k \in 1 .. Len(s)}

(* The contexts the sync thread counts. *)
Counted == {ctx_group[k] : k \in 1 .. max_QP}

Types ==
  /\ ctx_group \in Seq(Conns)
  /\ conn \in [Conns -> {"none", "building", "accepted", "established", "freed"}]
  /\ ppc \in [Conns -> {"none", "poll", "signal"}]
  /\ q1 \in [Conns -> Nat] /\ q2 \in [Conns -> Nat]
  /\ data \in [Conns -> Nat] /\ grants \in [Conns -> Nat]
  /\ wire \in [Conns -> {<< >>, <<"name">>, <<"data">>}]
  /\ inbox \in [Conns -> {<< >>, <<666>>, <<888>>}]
  /\ spc \in {"off", "start", "first", "signal", "scan"}
  /\ index \in Nat \ {0} /\ last \in Nat /\ max_QP \in Nat

(* A context is in ctx_group from its build on, once; the event loop       *)
(* builds one at a time, and the late ones last.                           *)
ConnsOK ==
  /\ \A j, k \in 1 .. Len(ctx_group) : ctx_group[j] = ctx_group[k] => j = k
  /\ Cardinality(Elems(ctx_group)) = Len(ctx_group)
  /\ Elems(ctx_group) = {c \in Conns : conn[c] \in {"accepted", "established", "freed"}}
  /\ \A c, d \in Conns : conn[c] = "building" /\ conn[d] = "building" => c = d
  /\ \A c \in Late : conn[c] # "none" => Members \subseteq Elems(ctx_group)

(* Server and client of a connection pass one token back and forth: it is  *)
(* in the inbox, on the wire or with the poll_cq thread, unless the        *)
(* connection was freed.                                                   *)
Token(c) ==
  /\ inbox[c] # << >> => wire[c] = << >> /\ ppc[c] = "poll" /\ conn[c] = "established"
  /\ wire[c] # << >> => ppc[c] = "poll" /\ conn[c] = "established"
  /\ ppc[c] = "signal" => conn[c] \in {"established", "freed"}
  /\ conn[c] \in {"building", "accepted"} => ppc[c] = "poll"
  /\ data[c] <= grants[c]
  /\ inbox[c] = <<888>> => grants[c] = data[c] + 1
  /\ inbox[c] # <<888>> /\ conn[c] # "freed" => grants[c] = data[c]
  /\ wire[c] = <<"data">> => data[c] > 0

TokenOK == \A c \in Conns : Token(c)

(* How far the sync thread is, and what it can rely on. *)
SyncOK ==
  /\ spc = "off" => Len(ctx_group) < Cardinality(Members)
  /\ spc # "off" => Members \subseteq Elems(ctx_group)
  /\ max_QP <= Len(ctx_group) /\ last <= Len(ctx_group)
  /\ spc \in {"first", "signal", "scan"} => Members \subseteq Counted
  /\ spc = "signal" => max_QP <= last
  /\ bitmap \subseteq Counted
  /\ spc \in {"off", "start", "first"} => \A c \in Conns : q1[c] = 0 /\ q2[c] = 0 /\ grants[c] = 0

(* The signals given to c, and the arrivals of c that are not yet taken    *)
(* together with the signals not yet answered by data.                     *)
Sent(c) == q1[c] + grants[c]
Load(c) == q1[c] + grants[c] + q2[c] + (IF wire[c] = <<"data">> THEN 1 ELSE 0)

(* Whether the k-th context has been signalled and its arrival not taken. *)
Owed(k) ==
  IF \/ spc = "scan" /\ ctx_group[k] \notin bitmap
     \/ spc = "signal" /\ k < index
  THEN 1 ELSE 0

(* Every counted context has at most the one signal or arrival it owes;    *)
(* all are signalled equally often while they are scanned, and differ by   *)
(* what they owe while they are signalled.                                 *)
EpochOK ==
  /\ \A k \in 1 .. max_QP : Load(ctx_group[k]) <= data[ctx_group[k]] + Owed(k)
  /\ spc = "scan" => \A j, k \in 1 .. max_QP : Sent(ctx_group[j]) = Sent(ctx_group[k])
  /\ spc = "signal" => \A j, k \in 1 .. max_QP :
       Sent(ctx_group[j]) + Owed(k) = Sent(ctx_group[k]) + Owed(j)

IInv == Types /\ ConnsOK /\ TokenOK /\ SyncOK /\ EpochOK

-----------------------------------------------------------------------------
(* Lemmas. *)

(* Inboxes and wires hold at most one entry. *)
LEMMA OneEntry ==
  /\ \A x : Append(<< >>, x) = <<x>> /\ Tail(<<x>>) = << >> /\ Head(<<x>>) = x /\ <<x>> # << >>
  /\ <<666>> # <<888>> /\ <<"name">> # <<"data">>
  OBVIOUS

(* What an entry of ctx_group is. *)
LEMMA CtxFacts ==
  ASSUME IInv
  PROVE  /\ ctx_group \in Seq(Conns) /\ Len(ctx_group) \in Nat
         /\ max_QP \in Nat /\ last \in Nat /\ index \in Nat /\ index >= 1
         /\ \A k \in 1 .. max_QP : k \in 1 .. Len(ctx_group) /\ ctx_group[k] \in Conns
         /\ \A k \in 1 .. Len(ctx_group) : ctx_group[k] \in Conns
         /\ \A j, k \in 1 .. Len(ctx_group) : ctx_group[j] = ctx_group[k] => j = k
         /\ Counted \subseteq Elems(ctx_group) /\ Elems(ctx_group) \subseteq Conns
<1>1. ctx_group \in Seq(Conns) /\ max_QP \in Nat /\ max_QP <= Len(ctx_group)
      /\ last \in Nat /\ index \in Nat \ {0}
  BY DEF IInv, Types, SyncOK
<1>2. \A k \in 1 .. max_QP : k \in 1 .. Len(ctx_group)
  BY <1>1
<1>3. \A k \in 1 .. Len(ctx_group) : ctx_group[k] \in Conns
  BY <1>1
<1>4. \A j, k \in 1 .. Len(ctx_group) : ctx_group[j] = ctx_group[k] => j = k
  BY DEF IInv, ConnsOK
<1>5. Counted \subseteq Elems(ctx_group) /\ Elems(ctx_group) \subseteq Conns
  BY <1>2, <1>3 DEF Counted, Elems
<1>6. QED
  BY <1>1, <1>2, <1>3, <1>4, <1>5

(* Loads, signals and what is owed are natural numbers. *)
LEMMA Counts ==
  ASSUME Types, NEW c \in Conns
  PROVE  /\ q1[c] \in Nat /\ q2[c] \in Nat /\ data[c] \in Nat /\ grants[c] \in Nat
         /\ Sent(c) \in Nat /\ Load(c) \in Nat
  BY DEF Types, Sent, Load

(* At most one is owed. *)
LEMMA OwedBit == \A k : Owed(k) \in {0, 1}
  BY DEF Owed

(* The initial state. *)
LEMMA InitIInv == Init => IInv
<1> SUFFICES ASSUME Init PROVE IInv
  OBVIOUS
<1>1. Types
  BY DEF Init, Types
<1>2. ctx_group = << >> /\ Elems(ctx_group) = {} /\ Len(ctx_group) = 0 /\ Counted = {}
  BY DEF Init, Elems, Counted
<1>3. Cardinality(Members) \in Nat \ {0}
  BY MembersAssumption, FS_CardinalityType, FS_EmptySet
<1>4. ConnsOK
  <2>1. Cardinality(Elems(ctx_group)) = Len(ctx_group)
    BY <1>2, FS_EmptySet
  <2>2. \A c \in Conns : conn[c] = "none"
    BY DEF Init
  <2>3. \A c \in Late : c \in Conns
    BY DEF Conns
  <2>4. QED
    BY <1>2, <2>1, <2>2, <2>3 DEF ConnsOK
<1>5. TokenOK
  BY DEF Init, TokenOK, Token
<1>6. SyncOK
  BY <1>2, <1>3 DEF Init, SyncOK
<1>7. EpochOK
  BY DEF Init, EpochOK
<1>8. QED
  BY <1>1, <1>4, <1>5, <1>6, <1>7 DEF IInv

(* A step that leaves the counted contexts and what they owe as they are   *)
(* keeps the epoch in order if it adds to no load but by data, and signals *)
(* nobody.                                                                 *)
LEMMA EpochFrame ==
  ASSUME IInv, Types', max_QP' = max_QP,
         \A k \in 1 .. max_QP : ctx_group'[k] = ctx_group[k] /\ Owed(k)' = Owed(k),
         spc' = "scan" => spc = "scan", spc' = "signal" => spc = "signal",
         \A c \in Conns : Sent(c)' = Sent(c) /\ Load(c)' + data[c] <= Load(c) + data'[c]
  PROVE  EpochOK'
<1>1. ASSUME NEW k \in 1 .. max_QP'
      PROVE  Load(ctx_group[k])' <= data'[ctx_group'[k]] + Owed(k)'
  <2>0. PICK c \in Conns : c = ctx_group[k]
    BY CtxFacts
  <2>1. k \in 1 .. max_QP /\ ctx_group[k] = c /\ ctx_group'[k] = c
    BY <2>0
  <2>2. Load(c) <= data[c] + Owed(k)
    BY <2>1 DEF IInv, EpochOK
  <2>3. Load(c) \in Nat /\ data[c] \in Nat /\ Owed(k) \in Nat
    BY <2>1, Counts, OwedBit DEF IInv
  <2>4. Load(c)' \in Nat /\ data'[c] \in Nat
    <3>1. q1'[c] \in Nat /\ q2'[c] \in Nat /\ data'[c] \in Nat /\ grants'[c] \in Nat
      BY DEF Types
    <3>2. QED
      BY <3>1 DEF Load
  <2>5. Load(c)' <= data'[c] + Owed(k)
    BY <2>1, <2>2, <2>3, <2>4
  <2>6. Load(ctx_group[k])' = Load(c)'
    BY <2>1 DEF Load
  <2>7. QED
    BY <2>1, <2>5, <2>6
<1>2. ASSUME NEW j \in 1 .. max_QP', NEW k \in 1 .. max_QP'
      PROVE  /\ spc' = "scan" => Sent(ctx_group[j])' = Sent(ctx_group[k])'
             /\ spc' = "signal" =>
                  Sent(ctx_group[j])' + Owed(k)' = Sent(ctx_group[k])' + Owed(j)'
  <2>1. j \in 1 .. max_QP /\ k \in 1 .. max_QP /\ ctx_group[j] \in Conns /\ ctx_group[k] \in Conns
        /\ ctx_group'[j] = ctx_group[j] /\ ctx_group'[k] = ctx_group[k]
    BY CtxFacts
  <2>2. Sent(ctx_group[j])' = Sent(ctx_group[j]) /\ Sent(ctx_group[k])' = Sent(ctx_group[k])
    BY <2>1 DEF Sent
  <2>3. Owed(j)' = Owed(j) /\ Owed(k)' = Owed(k)
    BY <2>1
  <2>4. QED
    BY <2>1, <2>2, <2>3 DEF IInv, EpochOK
<1>3. QED
  BY <1>1, <1>2 DEF EpochOK

(* A step that touches neither the contexts nor the sync thread.           *)
LEMMA ThreadFrame ==
  ASSUME IInv, Types', UNCHANGED <<ctx_group, spc, index, last, max_QP, bitmap>>,
         \A c \in Conns : Sent(c)' = Sent(c) /\ Load(c)' + data[c] <= Load(c) + data'[c],
         spc \in {"off", "start", "first"} =>
           \A c \in Conns : q1'[c] = 0 /\ q2'[c] = 0 /\ grants'[c] = 0
  PROVE  SyncOK' /\ EpochOK'
<1>1. SyncOK'
  <2>1. Counted' = Counted /\ Elems(ctx_group)' = Elems(ctx_group)
    BY DEF Counted, Elems
  <2>2. QED
    BY <2>1 DEF IInv, SyncOK
<1>2. \A k \in 1 .. max_QP : ctx_group'[k] = ctx_group[k] /\ Owed(k)' = Owed(k)
  BY DEF Owed
<1>3. EpochOK'
  BY <1>2, EpochFrame
<1>4. QED
  BY <1>1, <1>3

(* A step of connection c leaves the tokens of the others alone. *)
LEMMA TokenFrame ==
  ASSUME IInv, NEW c \in Conns, Token(c)',
         \A d \in Conns : d # c => /\ inbox'[d] = inbox[d] /\ wire'[d] = wire[d]
                                   /\ ppc'[d] = ppc[d] /\ conn'[d] = conn[d]
                                   /\ data'[d] = data[d] /\ grants'[d] = grants[d]
  PROVE  TokenOK'
<1>1. ASSUME NEW d \in Conns, d # c PROVE Token(d)'
  <2>1. Token(d)
    BY DEF IInv, TokenOK
  <2>2. QED
    BY <1>1, <2>1 DEF Token
<1>2. QED
  BY <1>1 DEF TokenOK

(* A step that builds and frees nothing. *)
LEMMA ConnsFrame ==
  ASSUME IInv, UNCHANGED <<ctx_group, conn>>
  PROVE  ConnsOK'
<1>1. Elems(ctx_group)' = Elems(ctx_group)
  BY DEF Elems
<1>2. QED
  BY <1>1 DEF IInv, ConnsOK

-----------------------------------------------------------------------------
(* The event loop. *)

(* CONNECT_REQUEST begins. *)
LEMMA BuildContextIInv ==
  ASSUME IInv, NEW c \in Conns, BuildContext(c)
  PROVE  IInv'
<1>1. /\ conn[c] = "none" /\ \A d \in Conns : conn[d] # "building"
      /\ c \in Late => \A m \in Members : conn[m] # "none"
      /\ conn' = [conn EXCEPT ![c] = "building"]
      /\ ppc' = [ppc EXCEPT ![c] = "poll"]
  BY DEF BuildContext
<1>2. UNCHANGED <<ctx_group, q1, q2, wire, inbox, spc, index, last, max_QP, bitmap, data, grants>>
  BY DEF BuildContext, syncvars
<1>3. conn \in [Conns -> {"none", "building", "accepted", "established", "freed"}]
      /\ ppc \in [Conns -> {"none", "poll", "signal"}]
  BY DEF IInv, Types
<1>4. /\ conn'[c] = "building" /\ ppc'[c] = "poll"
      /\ \A d \in Conns : d # c => conn'[d] = conn[d] /\ ppc'[d] = ppc[d]
  BY <1>1, <1>3
<1>5. Types'
  BY <1>1, <1>2, <1>3 DEF IInv, Types
<1>6. ConnsOK'
  <2>1. Elems(ctx_group') = {d \in Conns : conn'[d] \in {"accepted", "established", "freed"}}
    BY <1>1, <1>2, <1>4 DEF IInv, ConnsOK
  <2>2. \A d \in Conns : conn'[d] = "building" => d = c
    BY <1>1, <1>4
  <2>3. ASSUME NEW d \in Late, conn'[d] # "none" PROVE Members \subseteq Elems(ctx_group')
    <3>1. CASE d = c
      <4>1. ASSUME NEW m \in Members PROVE m \in Elems(ctx_group)
        <5>1. m \in Conns /\ conn[m] # "none" /\ conn[m] # "building"
          BY <3>1, <1>1 DEF Conns
        <5>2. QED
          BY <5>1, <1>3 DEF IInv, ConnsOK
      <4>2. QED
        BY <4>1, <1>2
    <3>2. CASE d # c
      BY <3>2, <2>3, <1>2, <1>4 DEF IInv, ConnsOK, Conns
    <3>3. QED
      BY <3>1, <3>2
  <2>4. QED
    BY <2>1, <2>2, <2>3, <1>2 DEF IInv, ConnsOK
<1>7. TokenOK'
  <2>1. Token(c)
    BY DEF IInv, TokenOK
  <2>2. Token(c)'
    BY <2>1, <1>1, <1>2, <1>4 DEF Token
  <2>3. QED
    BY <2>2, <1>2, <1>4, TokenFrame
<1>8. \A d \in Conns : Sent(d)' = Sent(d) /\ Load(d)' = Load(d)
  BY <1>2 DEF Sent, Load
<1>9. SyncOK' /\ EpochOK'
  <2>1. \A d \in Conns : Load(d)' + data[d] <= Load(d) + data'[d]
    BY <1>2, <1>8, Counts DEF IInv
  <2>2. spc \in {"off", "start", "first"} =>
          \A d \in Conns : q1'[d] = 0 /\ q2'[d] = 0 /\ grants'[d] = 0
    BY <1>2 DEF IInv, SyncOK
  <2>3. QED
    BY <2>1, <2>2, <1>2, <1>5, <1>8, ThreadFrame
<1>10. QED
  BY <1>5, <1>6, <1>7, <1>9 DEF IInv

(* ESTABLISHED, and DISCONNECTED. *)
LEMMA ConnectionIInv ==
  ASSUME IInv, NEW c \in Conns, Established(c) \/ OnDisconnect(c)
  PROVE  IInv'
<1>1. UNCHANGED <<ctx_group, q1, q2, ppc, spc, index, last, max_QP, bitmap, data, grants>>
  BY DEF Established, OnDisconnect, syncvars
<1>2. /\ conn \in [Conns -> {"none", "building", "accepted", "established", "freed"}]
      /\ wire \in [Conns -> {<< >>, <<"name">>, <<"data">>}]
      /\ inbox \in [Conns -> {<< >>, <<666>>, <<888>>}]
  BY DEF IInv, Types
<1>3. Token(c)
  BY DEF IInv, TokenOK
<1>4. \/ /\ conn[c] = "accepted" /\ conn' = [conn EXCEPT ![c] = "established"]
         /\ wire' = wire /\ inbox' = [inbox EXCEPT ![c] = <<666>>] /\ inbox[c] = << >>
         /\ wire[c] = << >>
      \/ /\ conn[c] = "established" /\ conn' = [conn EXCEPT ![c] = "freed"]
         /\ wire' = [wire EXCEPT ![c] = << >>] /\ inbox' = [inbox EXCEPT ![c] = << >>]
  <2>1. CASE Established(c)
    <3>1. conn[c] = "accepted" /\ inbox' = [inbox EXCEPT ![c] = Append(@, 666)]
          /\ conn' = [conn EXCEPT ![c] = "established"] /\ wire' = wire
      BY <2>1 DEF Established, SendMessage
    <3>2. inbox[c] = << >> /\ wire[c] = << >>
      BY <3>1, <1>3 DEF Token
    <3>3. QED
      BY <3>1, <3>2, OneEntry
  <2>2. CASE OnDisconnect(c)
    BY <2>2 DEF OnDisconnect
  <2>3. QED
    BY <2>1, <2>2
<1>5. \A d \in Conns : d # c => /\ conn'[d] = conn[d] /\ wire'[d] = wire[d]
                                /\ inbox'[d] = inbox[d]
  BY <1>2, <1>4
<1>6. Types'
  <2>1. conn' \in [Conns -> {"none", "building", "accepted", "established", "freed"}]
    BY <1>2, <1>4
  <2>2. wire' \in [Conns -> {<< >>, <<"name">>, <<"data">>}]
    BY <1>2, <1>4
  <2>3. inbox' \in [Conns -> {<< >>, <<666>>, <<888>>}]
    BY <1>2, <1>4
  <2>4. QED
    BY <2>1, <2>2, <2>3, <1>1 DEF IInv, Types
<1>7. ConnsOK'
  <2>1. conn[c] \in {"accepted", "established"} /\ conn'[c] \in {"established", "freed"}
    BY <1>2, <1>4
  <2>2. \A d \in Conns : /\ conn'[d] \in {"accepted", "established", "freed"}
                             <=> conn[d] \in {"accepted", "established", "freed"}
                         /\ conn'[d] = "building" <=> conn[d] = "building"
                         /\ conn'[d] = "none" <=> conn[d] = "none"
    BY <2>1, <1>5
  <2>3. \A d \in Late : d \in Conns
    BY DEF Conns
  <2>4. QED
    BY <2>2, <2>3, <1>1 DEF IInv, ConnsOK
<1>8. TokenOK'
  <2>1. Token(c)'
    <3>1. CASE conn[c] = "accepted" /\ conn' = [conn EXCEPT ![c] = "established"]
               /\ wire' = wire /\ inbox' = [inbox EXCEPT ![c] = <<666>>] /\ inbox[c] = << >>
               /\ wire[c] = << >>
      <4>1. conn'[c] = "established" /\ inbox'[c] = <<666>> /\ wire'[c] = << >>
        BY <3>1, <1>2
      <4>2. inbox[c] # <<888>>
        BY <3>1, OneEntry
      <4>3. QED
        BY <4>1, <4>2, <3>1, <1>1, <1>3, OneEntry DEF Token
    <3>2. CASE conn[c] = "established" /\ conn' = [conn EXCEPT ![c] = "freed"]
               /\ wire' = [wire EXCEPT ![c] = << >>] /\ inbox' = [inbox EXCEPT ![c] = << >>]
      <4>1. conn'[c] = "freed" /\ inbox'[c] = << >> /\ wire'[c] = << >>
        BY <3>2, <1>2
      <4>2. QED
        BY <4>1, <3>2, <1>1, <1>3, OneEntry DEF Token
    <3>3. QED
      BY <1>4, <3>1, <3>2
  <2>2. QED
    BY <2>1, <1>1, <1>5, TokenFrame
<1>9. SyncOK' /\ EpochOK'
  <2>1. \A d \in Conns : Sent(d)' = Sent(d)
    BY <1>1 DEF Sent
  <2>2. ASSUME NEW d \in Conns PROVE wire'[d] = <<"data">> => wire[d] = <<"data">>
    BY <1>2, <1>4, OneEntry
  <2>3. ASSUME NEW d \in Conns PROVE Load(d)' + data[d] <= Load(d) + data'[d]
    <3>1. q1[d] \in Nat /\ q2[d] \in Nat /\ data[d] \in Nat /\ grants[d] \in Nat
      BY Counts DEF IInv
    <3>2. QED
      BY <3>1, <2>2, <1>1 DEF Load
  <2>4. spc \in {"off", "start", "first"} =>
          \A d \in Conns : q1'[d] = 0 /\ q2'[d] = 0 /\ grants'[d] = 0
    BY <1>1 DEF IInv, SyncOK
  <2>5. QED
    BY <2>1, <2>3, <2>4, <1>1, <1>6, ThreadFrame
<1>10. QED
  BY <1>6, <1>7, <1>8, <1>9 DEF IInv

(* CONNECT_REQUEST ends: the context joins ctx_group, and the one that     *)
(* completes the members starts the sync thread.                           *)
LEMMA ConnectRequestIInv ==
  ASSUME IInv, NEW c \in Conns, ConnectRequest(c)
  PROVE  IInv'
<1> DEFINE n == Len(ctx_group)
<1>1. /\ conn[c] = "building" /\ conn' = [conn EXCEPT ![c] = "accepted"]
      /\ ctx_group' = Append(ctx_group, c)
      /\ spc' = IF n + 1 = Cardinality(Members) THEN "start" ELSE spc
  BY DEF ConnectRequest
<1>2. UNCHANGED <<q1, q2, ppc, wire, inbox, index, last, max_QP, bitmap, data, grants>>
  BY DEF ConnectRequest
<1>3. /\ conn \in [Conns -> {"none", "building", "accepted", "established", "freed"}]
      /\ ctx_group \in Seq(Conns)
  BY DEF IInv, Types
<1>4. /\ conn'[c] = "accepted" /\ \A d \in Conns : d # c => conn'[d] = conn[d]
  BY <1>1, <1>3
<1>5. /\ ctx_group' \in Seq(Conns) /\ n \in Nat /\ Len(ctx_group') = n + 1
      /\ \A k \in 1 .. n : ctx_group'[k] = ctx_group[k]
      /\ ctx_group'[n + 1] = c
  BY <1>1, <1>3, AppendProperties
<1>6. c \notin Elems(ctx_group)
  BY <1>1 DEF IInv, ConnsOK
<1>7. Elems(ctx_group') = Elems(ctx_group) \cup {c}
  BY <1>5 DEF Elems
<1>8. max_QP \in Nat /\ max_QP <= n /\ last \in Nat /\ last <= n
  BY DEF IInv, SyncOK, Types
<1>9. Elems(ctx_group) \subseteq Conns /\ IsFiniteSet(Elems(ctx_group))
      /\ Cardinality(Elems(ctx_group)) = n
  <2>1. Elems(ctx_group) \subseteq Conns /\ Cardinality(Elems(ctx_group)) = n
    BY CtxFacts DEF IInv, ConnsOK
  <2>2. IsFiniteSet(Conns)
    BY MembersAssumption, LateAssumption, FS_Union DEF Conns
  <2>3. QED
    BY <2>1, <2>2, FS_Subset
<1>10. Cardinality(Elems(ctx_group')) = n + 1 /\ IsFiniteSet(Elems(ctx_group'))
  BY <1>6, <1>7, <1>9, FS_AddElement
<1>a. Cardinality(Members) \in Nat
  BY MembersAssumption, FS_CardinalityType
<1>11. Types'
  <2>1. conn' \in [Conns -> {"none", "building", "accepted", "established", "freed"}]
    BY <1>1, <1>3
  <2>2. spc' \in {"off", "start", "first", "signal", "scan"}
    BY <1>1 DEF IInv, Types
  <2>3. QED
    BY <2>1, <2>2, <1>2, <1>5, ZenonT(30) DEF IInv, Types
<1>12. ConnsOK'
  <2>1. ASSUME NEW j \in 1 .. n + 1, NEW k \in 1 .. n + 1, ctx_group'[j] = ctx_group'[k]
        PROVE  j = k
    <3>1. \A i \in 1 .. n : ctx_group[i] # c
      BY <1>6 DEF Elems
    <3>2. \A i, l \in 1 .. n : ctx_group[i] = ctx_group[l] => i = l
      BY DEF IInv, ConnsOK
    <3> HIDE DEF n
    <3>3. (j \in 1 .. n \/ j = n + 1) /\ (k \in 1 .. n \/ k = n + 1)
      BY <1>5
    <3>4. QED
      BY <2>1, <3>1, <3>2, <3>3, <1>5
  <2>2. Elems(ctx_group') = {d \in Conns : conn'[d] \in {"accepted", "established", "freed"}}
    <3>1. Elems(ctx_group) = {d \in Conns : conn[d] \in {"accepted", "established", "freed"}}
      BY DEF IInv, ConnsOK
    <3>2. QED
      BY <3>1, <1>4, <1>7
  <2>3. \A d, e \in Conns : conn'[d] = "building" /\ conn'[e] = "building" => d = e
    BY <1>4 DEF IInv, ConnsOK
  <2>4. \A d \in Late : conn'[d] # "none" => Members \subseteq Elems(ctx_group')
    BY <1>1, <1>4, <1>7 DEF IInv, ConnsOK, Conns
  <2>5. QED
    BY <2>1, <2>2, <2>3, <2>4, <1>5, <1>10 DEF ConnsOK
<1>13. TokenOK'
  <2>1. Token(c)
    BY DEF IInv, TokenOK
  <2>2. Token(c)'
    BY <2>1, <1>1, <1>2, <1>4 DEF Token
  <2>3. QED
    BY <2>2, <1>2, <1>4, TokenFrame
<1>14. Counted' = Counted
  BY <1>2, <1>5, <1>8 DEF Counted
<1>15. n + 1 = Cardinality(Members) => spc = "off" /\ Members \subseteq Elems(ctx_group')
  <2>1. SUFFICES ASSUME n + 1 = Cardinality(Members)
                 PROVE  spc = "off" /\ Members \subseteq Elems(ctx_group')
    OBVIOUS
  <2>2. ~(Members \subseteq Elems(ctx_group))
    <3>1. SUFFICES ASSUME Members \subseteq Elems(ctx_group) PROVE FALSE
      OBVIOUS
    <3>2. Cardinality(Members) <= n
      BY <3>1, <1>9, FS_Subset
    <3>3. QED
      BY <2>1, <3>2, <1>5, <1>a
  <2>3. spc = "off"
    BY <2>2 DEF IInv, SyncOK
  <2>4. \A d \in Late : conn[d] = "none"
    BY <2>2 DEF IInv, ConnsOK
  <2>5. Elems(ctx_group') \subseteq Members
    <3>1. \A d \in Elems(ctx_group') : d \in Conns /\ conn[d] # "none"
      BY <1>1, <1>7, <1>9 DEF IInv, ConnsOK
    <3>2. QED
      BY <3>1, <2>4 DEF Conns
  <2>6. Elems(ctx_group') = Members
    BY <2>1, <2>5, <1>10, MembersAssumption, FS_Subset
  <2>7. QED
    BY <2>3, <2>6
<1>16. SyncOK'
  <2>1. spc' = "off" => Len(ctx_group') < Cardinality(Members)
    <3>1. SUFFICES ASSUME spc' = "off" PROVE n + 1 < Cardinality(Members)
      BY <1>5
    <3>2. spc = "off" /\ n + 1 # Cardinality(Members)
      BY <3>1, <1>1
    <3>3. n < Cardinality(Members)
      BY <3>2 DEF IInv, SyncOK
    <3> HIDE DEF n
    <3>4. QED
      BY <3>2, <3>3, <1>5, <1>a
  <2>2. spc' # "off" => Members \subseteq Elems(ctx_group')
    BY <1>1, <1>7, <1>15 DEF IInv, SyncOK
  <2>3. max_QP' <= Len(ctx_group') /\ last' <= Len(ctx_group')
    <3> HIDE DEF n
    <3>1. max_QP <= n + 1 /\ last <= n + 1
      BY <1>5, <1>8
    <3>2. QED
      BY <3>1, <1>2, <1>5
  <2>4. spc' \in {"off", "start", "first"} => spc \in {"off", "start", "first"}
    BY <1>1, <1>15
  <2>5. spc' \in {"first", "signal", "scan"} => spc' = spc
    BY <1>1
  <2>6. QED
    BY <2>1, <2>2, <2>3, <2>4, <2>5, <1>2, <1>14 DEF IInv, SyncOK
<1>17. EpochOK'
  <2>1. ASSUME NEW k \in 1 .. max_QP
        PROVE  ctx_group'[k] = ctx_group[k] /\ Owed(k)' = Owed(k)
    <3>1. ctx_group'[k] = ctx_group[k]
      BY <1>5, <1>8
    <3>2. CASE spc' = spc
      BY <3>1, <3>2, <1>2 DEF Owed
    <3>3. CASE spc = "off" /\ spc' = "start"
      BY <3>1, <3>3 DEF Owed
    <3>4. QED
      BY <3>1, <3>2, <3>3, <1>1, <1>15
  <2>2. ASSUME NEW d \in Conns
        PROVE  Sent(d)' = Sent(d) /\ Load(d)' + data[d] <= Load(d) + data'[d]
    <3>1. Sent(d)' = Sent(d) /\ Load(d)' = Load(d) /\ data'[d] = data[d]
      BY <1>2 DEF Sent, Load
    <3>2. Load(d) \in Nat /\ data[d] \in Nat
      BY Counts DEF IInv
    <3>3. QED
      BY <3>1, <3>2
  <2>3. (spc' = "scan" => spc = "scan") /\ (spc' = "signal" => spc = "signal")
    BY <1>1
  <2>4. QED
    BY <2>1, <2>2, <2>3, <1>2, <1>11, EpochFrame
<1>18. QED
  BY <1>11, <1>12, <1>13, <1>16, <1>17 DEF IInv

(* What only concerns the connection managers changes nothing here. *)
LEMMA IdleIInv ==
  ASSUME IInv, UNCHANGED <<ctx_group, conn, q1, q2, ppc, wire, inbox, spc, index, last, max_QP,
                           bitmap, data, grants>>
  PROVE  IInv'
<1>1. Types' /\ Counted' = Counted /\ Elems(ctx_group)' = Elems(ctx_group)
  BY DEF IInv, Types, Counted, Elems
<1>2. ConnsOK'
  BY <1>1 DEF IInv, ConnsOK
<1>3. TokenOK'
  BY DEF IInv, TokenOK, Token
<1>4. SyncOK'
  BY <1>1 DEF IInv, SyncOK
<1>5. EpochOK'
  BY DEF IInv, EpochOK, Owed, Sent, Load
<1>6. QED
  BY <1>1, <1>2, <1>3, <1>4, <1>5 DEF IInv

-----------------------------------------------------------------------------
(* The poll_cq threads of client and server. *)

(* A client answers the memory region with its name, a grant with data. *)
LEMMA ClientPollIInv ==
  ASSUME IInv, NEW c \in Conns, ClientPoll(c)
  PROVE  IInv'
<1>1. UNCHANGED <<ctx_group, conn, q1, q2, ppc, spc, index, last, max_QP, bitmap, grants>>
  BY DEF ClientPoll, syncvars, cm
<1>2. /\ wire \in [Conns -> {<< >>, <<"name">>, <<"data">>}]
      /\ inbox \in [Conns -> {<< >>, <<666>>, <<888>>}]
      /\ data \in [Conns -> Nat]
  BY DEF IInv, Types
<1>3. Token(c)
  BY DEF IInv, TokenOK
<1>4. /\ inbox[c] # << >> /\ inbox' = [inbox EXCEPT ![c] = Tail(@)]
      /\ \/ /\ Head(inbox[c]) = 666 /\ data' = data
            /\ wire' = [wire EXCEPT ![c] = Append(@, "name")]
         \/ /\ Head(inbox[c]) # 666 /\ data' = [data EXCEPT ![c] = @ + 1]
            /\ wire' = [wire EXCEPT ![c] = Append(@, "data")]
  BY DEF ClientPoll, WriteLargeBlock
<1>5. wire[c] = << >> /\ ppc[c] = "poll" /\ conn[c] = "established"
  BY <1>3, <1>4 DEF Token
<1>6. inbox[c] \in {<<666>>, <<888>>}
  BY <1>2, <1>4
<1>7. inbox' = [inbox EXCEPT ![c] = << >>]
  <2>1. Tail(inbox[c]) = << >>
    <3>1. CASE inbox[c] = <<666>>
      BY <3>1
    <3>2. CASE inbox[c] = <<888>>
      BY <3>2
    <3>3. QED
      BY <1>6, <3>1, <3>2
  <2>2. QED
    BY <2>1, <1>4
<1>8. \/ /\ inbox[c] = <<666>> /\ data' = data /\ wire' = [wire EXCEPT ![c] = <<"name">>]
      \/ /\ inbox[c] = <<888>> /\ data' = [data EXCEPT ![c] = @ + 1]
         /\ wire' = [wire EXCEPT ![c] = <<"data">>]
  BY <1>4, <1>5, <1>6, OneEntry
<1>9. Types'
  <2>1. wire' \in [Conns -> {<< >>, <<"name">>, <<"data">>}]
    BY <1>2, <1>8
  <2>2. inbox' \in [Conns -> {<< >>, <<666>>, <<888>>}]
    BY <1>2, <1>7
  <2>3. data' \in [Conns -> Nat]
    BY <1>2, <1>8
  <2>4. QED
    BY <2>1, <2>2, <2>3, <1>1 DEF IInv, Types
<1>10. /\ inbox'[c] = << >>
       /\ \A d \in Conns : d # c => inbox'[d] = inbox[d] /\ wire'[d] = wire[d] /\ data'[d] = data[d]
  BY <1>2, <1>7, <1>8
<1>11. data[c] \in Nat /\ grants[c] \in Nat /\ q1[c] \in Nat /\ q2[c] \in Nat
  BY Counts DEF IInv
<1>12. \/ inbox[c] = <<666>> /\ data'[c] = data[c] /\ wire'[c] = <<"name">>
       \/ inbox[c] = <<888>> /\ data'[c] = data[c] + 1 /\ wire'[c] = <<"data">>
  BY <1>2, <1>8
<1>13. TokenOK'
  <2>1. grants'[c] = data'[c]
    BY <1>1, <1>3, <1>5, <1>11, <1>12, OneEntry DEF Token
  <2>2. wire'[c] = <<"data">> => data'[c] > 0
    BY <1>11, <1>12, OneEntry
  <2>3. data'[c] <= grants'[c]
    BY <2>1, <1>1, <1>11
  <2>4. Token(c)'
    BY <2>1, <2>2, <2>3, <1>1, <1>5, <1>10, OneEntry DEF Token
  <2>5. QED
    BY <2>4, <1>1, <1>10, TokenFrame
<1>14. ConnsOK'
  BY <1>1, ConnsFrame
<1>15. SyncOK' /\ EpochOK'
  <2>1. ASSUME NEW d \in Conns
        PROVE  Sent(d)' = Sent(d) /\ Load(d)' + data[d] <= Load(d) + data'[d]
    <3>1. Sent(d)' = Sent(d)
      BY <1>1 DEF Sent
    <3>2. data[d] \in Nat /\ grants[d] \in Nat /\ q1[d] \in Nat /\ q2[d] \in Nat
      BY Counts DEF IInv
    <3>3. CASE d = c
      BY <3>1, <3>2, <3>3, <1>1, <1>5, <1>12, OneEntry DEF Load
    <3>4. CASE d # c
      BY <3>1, <3>2, <3>4, <1>1, <1>10 DEF Load
    <3>5. QED
      BY <3>3, <3>4
  <2>2. spc \in {"off", "start", "first"} =>
          \A d \in Conns : q1'[d] = 0 /\ q2'[d] = 0 /\ grants'[d] = 0
    BY <1>1 DEF IInv, SyncOK
  <2>3. QED
    BY <2>1, <2>2, <1>1, <1>9, ThreadFrame
<1>16. QED
  BY <1>9, <1>13, <1>14, <1>15 DEF IInv

(* The server polls an arrival. *)
LEMMA PollCqIInv ==
  ASSUME IInv, NEW c \in Conns, PollCq(c)
  PROVE  IInv'
<1>1. UNCHANGED <<ctx_group, conn, q1, inbox, spc, index, last, max_QP, bitmap, data, grants>>
  BY DEF PollCq, syncvars, cm
<1>2. /\ wire \in [Conns -> {<< >>, <<"name">>, <<"data">>}]
      /\ ppc \in [Conns -> {"none", "poll", "signal"}]
      /\ q2 \in [Conns -> Nat]
  BY DEF IInv, Types
<1>3. Token(c)
  BY DEF IInv, TokenOK
<1>4. /\ wire[c] # << >> /\ wire' = [wire EXCEPT ![c] = Tail(@)]
      /\ q2' = IF Head(wire[c]) = "name" THEN q2 ELSE [q2 EXCEPT ![c] = @ + 1]
      /\ ppc' = [ppc EXCEPT ![c] = "signal"]
  BY DEF PollCq, Push
<1>5. conn[c] = "established" /\ inbox[c] = << >>
  BY <1>3, <1>4 DEF Token
<1>6. wire[c] \in {<<"name">>, <<"data">>}
  BY <1>2, <1>4
<1>7. wire' = [wire EXCEPT ![c] = << >>]
  <2>1. Tail(wire[c]) = << >>
    <3>1. CASE wire[c] = <<"name">>
      BY <3>1
    <3>2. CASE wire[c] = <<"data">>
      BY <3>2
    <3>3. QED
      BY <1>6, <3>1, <3>2
  <2>2. QED
    BY <2>1, <1>4
<1>8. \/ wire[c] = <<"name">> /\ q2' = q2
      \/ wire[c] = <<"data">> /\ q2' = [q2 EXCEPT ![c] = @ + 1]
  BY <1>4, <1>6, OneEntry
<1>9. Types'
  <2>1. wire' \in [Conns -> {<< >>, <<"name">>, <<"data">>}]
    BY <1>2, <1>7
  <2>2. ppc' \in [Conns -> {"none", "poll", "signal"}]
    BY <1>2, <1>4
  <2>3. q2' \in [Conns -> Nat]
    BY <1>2, <1>8
  <2>4. QED
    BY <2>1, <2>2, <2>3, <1>1 DEF IInv, Types
<1>10. /\ wire'[c] = << >> /\ ppc'[c] = "signal"
       /\ \A d \in Conns : d # c => wire'[d] = wire[d] /\ ppc'[d] = ppc[d] /\ q2'[d] = q2[d]
  BY <1>2, <1>4, <1>7, <1>8
<1>11. \/ wire[c] = <<"name">> /\ q2'[c] = q2[c]
       \/ wire[c] = <<"data">> /\ q2'[c] = q2[c] + 1
  BY <1>2, <1>8
<1>12. TokenOK'
  <2>1. Token(c)'
    BY <1>1, <1>3, <1>5, <1>10, OneEntry DEF Token
  <2>2. QED
    BY <2>1, <1>1, <1>10, TokenFrame
<1>13. ConnsOK'
  BY <1>1, ConnsFrame
<1>14. SyncOK' /\ EpochOK'
  <2>1. ASSUME NEW d \in Conns
        PROVE  Sent(d)' = Sent(d) /\ Load(d)' + data[d] <= Load(d) + data'[d]
    <3>1. Sent(d)' = Sent(d)
      BY <1>1 DEF Sent
    <3>2. data[d] \in Nat /\ grants[d] \in Nat /\ q1[d] \in Nat /\ q2[d] \in Nat
      BY Counts DEF IInv
    <3>3. CASE d = c
      BY <3>1, <3>2, <3>3, <1>1, <1>10, <1>11, OneEntry DEF Load
    <3>4. CASE d # c
      BY <3>1, <3>2, <3>4, <1>1, <1>10 DEF Load
    <3>5. QED
      BY <3>3, <3>4
  <2>2. ASSUME spc \in {"off", "start", "first"}, NEW d \in Conns
        PROVE  q1'[d] = 0 /\ q2'[d] = 0 /\ grants'[d] = 0
    <3>1. q1[d] = 0 /\ q2[d] = 0 /\ grants[d] = 0 /\ grants[c] = 0
      BY <2>2 DEF IInv, SyncOK
    <3>2. data[c] <= 0
      BY <3>1, <1>3 DEF Token
    <3>3. wire[c] # <<"data">>
      BY <3>2, <1>3, Counts DEF Token, IInv
    <3>4. QED
      BY <3>1, <3>3, <1>1, <1>8
  <2>3. QED
    BY <2>1, <2>2, <1>1, <1>9, ThreadFrame
<1>15. QED
  BY <1>9, <1>12, <1>13, <1>14 DEF IInv

(* The server answers an arrival when it was signalled. *)
LEMMA AnswerArrivalIInv ==
  ASSUME IInv, NEW c \in Conns, AnswerArrival(c)
  PROVE  IInv'
<1>1. UNCHANGED <<ctx_group, conn, q2, wire, spc, index, last, max_QP, bitmap, data>>
  BY DEF AnswerArrival, syncvars, cm
<1>2. /\ inbox \in [Conns -> {<< >>, <<666>>, <<888>>}]
      /\ ppc \in [Conns -> {"none", "poll", "signal"}]
      /\ q1 \in [Conns -> Nat] /\ grants \in [Conns -> Nat]
  BY DEF IInv, Types
<1>3. Token(c)
  BY DEF IInv, TokenOK
<1>4. /\ ppc[c] = "signal" /\ conn[c] # "freed" /\ q1[c] > 0
      /\ q1' = [q1 EXCEPT ![c] = @ - 1]
      /\ inbox' = [inbox EXCEPT ![c] = Append(@, 888)]
      /\ grants' = [grants EXCEPT ![c] = @ + 1]
      /\ ppc' = [ppc EXCEPT ![c] = "poll"]
  BY DEF AnswerArrival, CanPop, Pop, SendMessage
<1>5. inbox[c] = << >> /\ wire[c] = << >> /\ conn[c] = "established"
  BY <1>3, <1>4 DEF Token
<1>6. inbox' = [inbox EXCEPT ![c] = <<888>>]
  BY <1>4, <1>5, OneEntry
<1>7. data[c] \in Nat /\ grants[c] \in Nat /\ q1[c] \in Nat /\ q2[c] \in Nat
  BY Counts DEF IInv
<1>8. /\ inbox'[c] = <<888>> /\ ppc'[c] = "poll" /\ q1'[c] = q1[c] - 1 /\ grants'[c] = grants[c] + 1
      /\ \A d \in Conns : d # c => /\ inbox'[d] = inbox[d] /\ ppc'[d] = ppc[d]
                                    /\ q1'[d] = q1[d] /\ grants'[d] = grants[d]
  <2>1. inbox'[c] = <<888>> /\ \A d \in Conns : d # c => inbox'[d] = inbox[d]
    BY <1>2, <1>6
  <2>2. ppc'[c] = "poll" /\ \A d \in Conns : d # c => ppc'[d] = ppc[d]
    BY <1>2, <1>4
  <2>3. q1'[c] = q1[c] - 1 /\ \A d \in Conns : d # c => q1'[d] = q1[d]
    BY <1>2, <1>4
  <2>4. grants'[c] = grants[c] + 1 /\ \A d \in Conns : d # c => grants'[d] = grants[d]
    BY <1>2, <1>4
  <2>5. QED
    BY <2>1, <2>2, <2>3, <2>4
<1>9. Types'
  <2>1. inbox' \in [Conns -> {<< >>, <<666>>, <<888>>}]
    BY <1>2, <1>6
  <2>2. ppc' \in [Conns -> {"none", "poll", "signal"}]
    BY <1>2, <1>4
  <2>3. q1' \in [Conns -> Nat]
    <3>1. q1[c] - 1 \in Nat
      BY <1>4, <1>7
    <3>2. QED
      BY <3>1, <1>2, <1>4
  <2>4. grants' \in [Conns -> Nat]
    BY <1>2, <1>4
  <2>5. QED
    BY <2>1, <2>2, <2>3, <2>4, <1>1 DEF IInv, Types
<1>10. TokenOK'
  <2>1. grants[c] = data[c]
    BY <1>3, <1>4, <1>5, OneEntry DEF Token
  <2>2. grants'[c] = data'[c] + 1 /\ data'[c] <= grants'[c]
    BY <2>1, <1>1, <1>7, <1>8
  <2>3. Token(c)'
    BY <2>2, <1>1, <1>3, <1>5, <1>8, OneEntry DEF Token
  <2>4. QED
    BY <2>3, <1>1, <1>8, TokenFrame
<1>11. ConnsOK'
  BY <1>1, ConnsFrame
<1>12. SyncOK' /\ EpochOK'
  <2>1. ASSUME NEW d \in Conns
        PROVE  Sent(d)' = Sent(d) /\ Load(d)' + data[d] <= Load(d) + data'[d]
    <3>1. data[d] \in Nat /\ grants[d] \in Nat /\ q1[d] \in Nat /\ q2[d] \in Nat
      BY Counts DEF IInv
    <3>2. q1'[d] + grants'[d] = q1[d] + grants[d]
      <4>1. CASE d = c
        BY <4>1, <1>7, <1>8
      <4>2. CASE d # c
        BY <4>2, <1>8
      <4>3. QED
        BY <4>1, <4>2
    <3>3. Sent(d)' = Sent(d) /\ Load(d)' = Load(d)
      BY <3>2, <1>1 DEF Sent, Load
    <3>4. QED
      BY <3>3, <1>1, Counts DEF IInv
  <2>2. ASSUME spc \in {"off", "start", "first"} PROVE FALSE
    BY <2>2, <1>4 DEF IInv, SyncOK
  <2>3. QED
    BY <2>1, <2>2, <1>1, <1>9, ThreadFrame
<1>13. QED
  BY <1>9, <1>10, <1>11, <1>12 DEF IInv

-----------------------------------------------------------------------------
(* The sync thread. *)

(* It changes no connection and moves no token. *)
LEMMA SyncFrame ==
  ASSUME IInv, UNCHANGED <<ctx_group, conn, ppc, wire, inbox, data, grants>>
  PROVE  ConnsOK' /\ TokenOK' /\ Elems(ctx_group)' = Elems(ctx_group)
<1>1. ConnsOK'
  BY ConnsFrame
<1>2. TokenOK'
  BY DEF IInv, TokenOK, Token
<1>3. QED
  BY <1>1, <1>2 DEF Elems

(* max_QP is read. *)
LEMMA SyncStartIInv ==
  ASSUME IInv, SyncStart
  PROVE  IInv'
<1>1. spc = "start" /\ spc' = "first" /\ max_QP' = Len(ctx_group)
  BY DEF SyncStart
<1>2. UNCHANGED <<ctx_group, conn, q1, q2, ppc, wire, inbox, index, last, bitmap, data, grants>>
  BY DEF SyncStart, cm
<1>3. ConnsOK' /\ TokenOK' /\ Elems(ctx_group)' = Elems(ctx_group)
  BY <1>2, SyncFrame
<1>4. Len(ctx_group) \in Nat
  BY CtxFacts
<1>5. Types'
  BY <1>1, <1>2, <1>4 DEF IInv, Types
<1>6. Counted' = Elems(ctx_group)
  BY <1>1, <1>2 DEF Counted, Elems
<1>7. \A c \in Conns : q1[c] = 0 /\ q2[c] = 0 /\ grants[c] = 0
  BY <1>1 DEF IInv, SyncOK
<1>8. SyncOK'
  <2>1. bitmap \subseteq Elems(ctx_group) /\ Members \subseteq Elems(ctx_group)
    BY <1>1, CtxFacts DEF IInv, SyncOK
  <2>2. last <= Len(ctx_group)
    BY DEF IInv, SyncOK
  <2>3. QED
    BY <2>1, <2>2, <1>1, <1>2, <1>3, <1>4, <1>6, <1>7 DEF SyncOK
<1>9. EpochOK'
  <2>1. ASSUME NEW k \in 1 .. max_QP'
        PROVE  Load(ctx_group[k])' <= data'[ctx_group'[k]] + Owed(k)'
    <3>1. PICK c \in Conns : c = ctx_group[k]
      BY <1>1, CtxFacts
    <3>2. q1[c] = 0 /\ q2[c] = 0 /\ grants[c] = 0 /\ data[c] \in Nat /\ Token(c)
      BY <1>7, Counts DEF IInv, TokenOK
    <3>3. data[c] = 0 /\ wire[c] # <<"data">>
      BY <3>2 DEF Token
    <3>4. Load(ctx_group[k])' = 0 /\ data'[ctx_group'[k]] = 0
      BY <3>1, <3>2, <3>3, <1>2 DEF Load
    <3>5. Owed(k)' = 0
      BY <1>1 DEF Owed
    <3>6. QED
      BY <3>4, <3>5
  <2>2. QED
    BY <2>1, <1>1 DEF EpochOK
<1>10. QED
  BY <1>3, <1>5, <1>8, <1>9 DEF IInv

(* When all bits are set, every counted context has been taken. *)
LEMMA AllTaken ==
  ASSUME IInv, Cardinality(bitmap) = max_QP
  PROVE  bitmap = Counted
<1>1. /\ ctx_group \in Seq(Conns) /\ max_QP \in Nat
      /\ \A k \in 1 .. max_QP : k \in 1 .. Len(ctx_group)
      /\ \A j, k \in 1 .. Len(ctx_group) : ctx_group[j] = ctx_group[k] => j = k
  BY CtxFacts
<1>2. IsFiniteSet(1 .. max_QP) /\ Cardinality(1 .. max_QP) = max_QP
  BY <1>1, FS_Interval
<1> DEFINE f == [k \in 1 .. max_QP |-> ctx_group[k]]
<1>3. f \in Bijection(1 .. max_QP, Counted)
  <2>1. f \in Injection(1 .. max_QP, Counted)
    BY <1>1 DEF Counted, Injection, IsInjective
  <2>2. f \in Surjection(1 .. max_QP, Counted)
    BY DEF Counted, Surjection
  <2>3. QED
    BY <2>1, <2>2 DEF Bijection
<1>4. IsFiniteSet(Counted) /\ Cardinality(Counted) = max_QP
  <2>1. ExistsBijection(1 .. max_QP, Counted)
    BY <1>3 DEF ExistsBijection
  <2>2. QED
    BY <1>2, <2>1, FS_Bijection
<1>5. bitmap \subseteq Counted
  BY DEF IInv, SyncOK
<1>6. QED
  BY <1>4, <1>5, FS_Subset

(* A loop over the contexts begins. *)
LEMMA SyncLoopBeginIInv ==
  ASSUME IInv, SyncLoopBegin
  PROVE  IInv'
<1>1. /\ spc = "first" \/ (spc = "scan" /\ Cardinality(bitmap) = max_QP)
      /\ spc' = "signal" /\ index' = 1 /\ last' = Len(ctx_group)
  BY DEF SyncLoopBegin
<1>2. UNCHANGED <<ctx_group, conn, q1, q2, ppc, wire, inbox, max_QP, bitmap, data, grants>>
  BY DEF SyncLoopBegin, cm
<1>3. ConnsOK' /\ TokenOK' /\ Elems(ctx_group)' = Elems(ctx_group)
  BY <1>2, SyncFrame
<1>4. Len(ctx_group) \in Nat
  BY CtxFacts
<1>5. Types'
  BY <1>1, <1>2, <1>4 DEF IInv, Types
<1>6. Counted' = Counted
  BY <1>2 DEF Counted
<1>7. SyncOK'
  <2>1. max_QP <= Len(ctx_group) /\ bitmap \subseteq Counted
        /\ Members \subseteq Counted /\ Members \subseteq Elems(ctx_group)
    BY <1>1 DEF IInv, SyncOK
  <2>2. QED
    BY <2>1, <1>1, <1>2, <1>3, <1>4, <1>6 DEF SyncOK
<1>8. \A k \in 1 .. max_QP : Owed(k) = 0
  <2>1. CASE spc = "first"
    BY <2>1 DEF Owed
  <2>2. CASE spc = "scan" /\ Cardinality(bitmap) = max_QP
    <3>1. \A k \in 1 .. max_QP : ctx_group[k] \in bitmap
      BY <2>2, AllTaken DEF Counted
    <3>2. QED
      BY <2>2, <3>1 DEF Owed
  <2>3. QED
    BY <1>1, <2>1, <2>2
<1>9. \A j, k \in 1 .. max_QP : Sent(ctx_group[j]) = Sent(ctx_group[k])
  <2>1. CASE spc = "first"
    <3>1. ASSUME NEW k \in 1 .. max_QP PROVE Sent(ctx_group[k]) = 0
      BY <2>1, CtxFacts DEF IInv, SyncOK, Sent
    <3>2. QED
      BY <3>1
  <2>2. CASE spc = "scan"
    BY <2>2 DEF IInv, EpochOK
  <2>3. QED
    BY <1>1, <2>1, <2>2
<1>10. \A k \in 1 .. max_QP : Owed(k)' = 0
  BY <1>1, CtxFacts DEF Owed
<1>11. \A k \in 1 .. max_QP : /\ Load(ctx_group[k])' = Load(ctx_group[k])
                              /\ Sent(ctx_group[k])' = Sent(ctx_group[k])
  BY <1>2 DEF Load, Sent
<1>12. EpochOK'
  <2>1. \A k \in 1 .. max_QP : Load(ctx_group[k]) <= data[ctx_group[k]] + Owed(k)
    BY DEF IInv, EpochOK
  <2>2. \A k \in 1 .. max_QP' : Load(ctx_group[k])' <= data'[ctx_group'[k]] + Owed(k)'
    BY <2>1, <1>2, <1>8, <1>10, <1>11
  <2>3. \A j, k \in 1 .. max_QP' : Sent(ctx_group[j])' + Owed(k)' = Sent(ctx_group[k])' + Owed(j)'
    BY <1>2, <1>9, <1>10, <1>11
  <2>4. QED
    BY <2>2, <2>3, <1>1 DEF EpochOK
<1>13. QED
  BY <1>3, <1>5, <1>7, <1>12 DEF IInv

(* One context is signalled. *)
LEMMA SyncSignalIInv ==
  ASSUME IInv, SyncSignal
  PROVE  IInv'
<1>1. /\ spc = "signal" /\ spc' = "signal" /\ index <= last /\ index' = index + 1
      /\ q1' = [q1 EXCEPT ![ctx_group[index]] = @ + 1]
  BY DEF SyncSignal, Push
<1>2. UNCHANGED <<ctx_group, conn, q2, ppc, wire, inbox, last, max_QP, bitmap, data, grants>>
  BY DEF SyncSignal, cm
<1>3. ConnsOK' /\ TokenOK' /\ Elems(ctx_group)' = Elems(ctx_group)
  BY <1>2, SyncFrame
<1>4. index \in Nat /\ last \in Nat /\ index >= 1 /\ index \in 1 .. Len(ctx_group)
  <2>1. last <= Len(ctx_group)
    BY DEF IInv, SyncOK
  <2>2. QED
    BY <2>1, <1>1, CtxFacts
<1>5. PICK c \in Conns : c = ctx_group[index]
  BY <1>4, CtxFacts
<1>6. q1 \in [Conns -> Nat]
  BY DEF IInv, Types
<1>7. q1' \in [Conns -> Nat] /\ q1'[c] = q1[c] + 1 /\ \A d \in Conns : d # c => q1'[d] = q1[d]
  BY <1>1, <1>5, <1>6
<1>8. Types'
  <2>1. index' \in Nat \ {0}
    BY <1>1, <1>4
  <2>2. QED
    BY <2>1, <1>1, <1>2, <1>7 DEF IInv, Types
<1>9. SyncOK'
  <2>1. Counted' = Counted
    BY <1>2 DEF Counted
  <2>2. QED
    BY <2>1, <1>1, <1>2, <1>3 DEF IInv, SyncOK
<1>10. ASSUME NEW k \in 1 .. max_QP
       PROVE  /\ k = index => /\ ctx_group[k] = c /\ Owed(k) = 0 /\ Owed(k)' = 1
              /\ k # index => /\ ctx_group[k] # c /\ Owed(k)' = Owed(k)
  <2>1. k \in Nat /\ k \in 1 .. Len(ctx_group)
    BY CtxFacts
  <2>2. CASE k = index
    BY <2>2, <1>1, <1>4, <1>5 DEF Owed
  <2>3. CASE k # index
    <3>1. ctx_group[k] # c
      BY <2>1, <2>3, <1>4, <1>5, CtxFacts
    <3>2. k < index + 1 <=> k < index
      BY <2>1, <2>3, <1>4
    <3>3. Owed(k)' = Owed(k)
      BY <3>2, <1>1 DEF Owed
    <3>4. QED
      BY <2>3, <3>1, <3>3
  <2>4. QED
    BY <2>2, <2>3
<1>11. ASSUME NEW k \in 1 .. max_QP
       PROVE  /\ Sent(ctx_group[k])' + Owed(k) = Sent(ctx_group[k]) + Owed(k)'
              /\ Load(ctx_group[k])' + Owed(k) = Load(ctx_group[k]) + Owed(k)'
              /\ Sent(ctx_group[k])' \in Nat /\ Load(ctx_group[k])' \in Nat
  <2>1. PICK d \in Conns : d = ctx_group[k]
    BY CtxFacts
  <2>2. q1[d] \in Nat /\ q2[d] \in Nat /\ grants[d] \in Nat
    BY Counts DEF IInv
  <2>3. /\ Sent(ctx_group[k]) = q1[d] + grants[d]
        /\ Sent(ctx_group[k])' = q1'[d] + grants[d]
        /\ Load(ctx_group[k]) = q1[d] + grants[d] + q2[d] + (IF wire[d] = <<"data">> THEN 1 ELSE 0)
        /\ Load(ctx_group[k])' = q1'[d] + grants[d] + q2[d] + (IF wire[d] = <<"data">> THEN 1 ELSE 0)
    BY <2>1, <1>2 DEF Sent, Load
  <2>4. CASE k = index
    <3>1. d = c /\ Owed(k) = 0 /\ Owed(k)' = 1 /\ q1'[d] = q1[d] + 1
      BY <2>1, <2>4, <1>7, <1>10
    <3>2. QED
      BY <2>2, <2>3, <3>1
  <2>5. CASE k # index
    <3>1. d # c /\ Owed(k) = Owed(k)' /\ q1'[d] = q1[d]
      BY <2>1, <2>5, <1>7, <1>10
    <3>2. Owed(k) \in Nat
      BY OwedBit
    <3>3. QED
      BY <2>2, <2>3, <3>1, <3>2
  <2>6. QED
    BY <2>4, <2>5
<1>12. \A k \in 1 .. max_QP : Owed(k) \in Nat /\ Owed(k)' \in Nat
  <2>1. (\A k : Owed(k) \in {0, 1})'
    BY OwedBit, PTL
  <2>2. QED
    BY <2>1, OwedBit
<1>13. \A k \in 1 .. max_QP : /\ Sent(ctx_group[k]) \in Nat /\ Load(ctx_group[k]) \in Nat
                              /\ data[ctx_group[k]] \in Nat
  BY CtxFacts, Counts DEF IInv
<1>14. EpochOK'
  <2>1. ASSUME NEW k \in 1 .. max_QP'
        PROVE  Load(ctx_group[k])' <= data'[ctx_group'[k]] + Owed(k)'
    <3>1. k \in 1 .. max_QP /\ data'[ctx_group'[k]] = data[ctx_group[k]]
      BY <1>2
    <3>2. Load(ctx_group[k]) <= data[ctx_group[k]] + Owed(k)
      BY <3>1 DEF IInv, EpochOK
    <3>3. QED
      BY <3>1, <3>2, <1>11, <1>12, <1>13
  <2>2. ASSUME NEW j \in 1 .. max_QP', NEW k \in 1 .. max_QP'
        PROVE  Sent(ctx_group[j])' + Owed(k)' = Sent(ctx_group[k])' + Owed(j)'
    <3>1. j \in 1 .. max_QP /\ k \in 1 .. max_QP
      BY <1>2
    <3>2. Sent(ctx_group[j]) + Owed(k) = Sent(ctx_group[k]) + Owed(j)
      BY <3>1, <1>1 DEF IInv, EpochOK
    <3>3. QED
      BY <3>1, <3>2, <1>11, <1>12, <1>13
  <2>3. QED
    BY <2>1, <2>2, <1>1 DEF EpochOK
<1>15. QED
  BY <1>3, <1>8, <1>9, <1>14 DEF IInv

(* The loop over the contexts ends. *)
LEMMA SyncLoopEndIInv ==
  ASSUME IInv, SyncLoopEnd
  PROVE  IInv'
<1>1. /\ spc = "signal" /\ spc' = "scan" /\ index > last /\ index' = 1 /\ bitmap' = {}
  BY DEF SyncLoopEnd
<1>2. UNCHANGED <<ctx_group, conn, q1, q2, ppc, wire, inbox, last, max_QP, data, grants>>
  BY DEF SyncLoopEnd, cm
<1>3. ConnsOK' /\ TokenOK' /\ Elems(ctx_group)' = Elems(ctx_group)
  BY <1>2, SyncFrame
<1>4. Types'
  BY <1>1, <1>2 DEF IInv, Types
<1>5. Counted' = Counted
  BY <1>2 DEF Counted
<1>6. SyncOK'
  BY <1>1, <1>2, <1>3, <1>5 DEF IInv, SyncOK
<1>7. ASSUME NEW k \in 1 .. max_QP PROVE Owed(k) = 1 /\ Owed(k)' = 1
  <2>1. k < index
    <3>1. max_QP <= last
      BY <1>1 DEF IInv, SyncOK
    <3>2. QED
      BY <3>1, <1>1, CtxFacts
  <2>2. QED
    BY <2>1, <1>1 DEF Owed
<1>8. \A k \in 1 .. max_QP : /\ Load(ctx_group[k])' = Load(ctx_group[k])
                             /\ Sent(ctx_group[k])' = Sent(ctx_group[k])
  BY <1>2 DEF Load, Sent
<1>9. \A k \in 1 .. max_QP : Sent(ctx_group[k]) \in Nat
  BY CtxFacts, Counts DEF IInv
<1>10. EpochOK'
  <2>1. \A k \in 1 .. max_QP' : Load(ctx_group[k])' <= data'[ctx_group'[k]] + Owed(k)'
    <3>1. \A k \in 1 .. max_QP : Load(ctx_group[k]) <= data[ctx_group[k]] + Owed(k)
      BY DEF IInv, EpochOK
    <3>2. QED
      BY <3>1, <1>2, <1>7, <1>8
  <2>2. ASSUME NEW j \in 1 .. max_QP, NEW k \in 1 .. max_QP
        PROVE  Sent(ctx_group[j]) = Sent(ctx_group[k])
    <3>1. Sent(ctx_group[j]) + Owed(k) = Sent(ctx_group[k]) + Owed(j)
      BY <1>1 DEF IInv, EpochOK
    <3>2. QED
      BY <3>1, <1>7, <1>9
  <2>3. QED
    BY <2>1, <2>2, <1>1, <1>2, <1>8 DEF EpochOK
<1>11. QED
  BY <1>3, <1>4, <1>6, <1>10 DEF IInv

(* A context of the scan has nothing to take or is taken already, or a     *)
(* pass is over.                                                           *)
LEMMA SyncPassIInv ==
  ASSUME IInv, spc = "scan", index' \in Nat \ {0},
         UNCHANGED <<ctx_group, conn, q1, q2, ppc, wire, inbox, spc, last, max_QP, bitmap,
                     data, grants>>
  PROVE  IInv'
<1>1. ConnsOK' /\ TokenOK' /\ Elems(ctx_group)' = Elems(ctx_group)
  BY SyncFrame
<1>2. Types'
  BY DEF IInv, Types
<1>3. Counted' = Counted
  BY DEF Counted
<1>4. SyncOK'
  BY <1>1, <1>3 DEF IInv, SyncOK
<1>5. \A k \in 1 .. max_QP : ctx_group'[k] = ctx_group[k] /\ Owed(k)' = Owed(k)
  BY DEF Owed
<1>6. ASSUME NEW d \in Conns
      PROVE  Sent(d)' = Sent(d) /\ Load(d)' + data[d] <= Load(d) + data'[d]
  <2>1. Sent(d)' = Sent(d) /\ Load(d)' = Load(d) /\ data'[d] = data[d]
    BY DEF Sent, Load
  <2>2. Load(d) \in Nat /\ data[d] \in Nat
    BY Counts DEF IInv
  <2>3. QED
    BY <2>1, <2>2
<1>7. EpochOK'
  BY <1>2, <1>5, <1>6, EpochFrame
<1>8. QED
  BY <1>1, <1>2, <1>4, <1>7 DEF IInv

(* One context of the scan. *)
LEMMA SyncScanIInv ==
  ASSUME IInv, SyncScan
  PROVE  IInv'
<1>1. /\ spc = "scan" /\ index <= max_QP /\ index' = index + 1
      /\ UNCHANGED <<ctx_group, conn, q1, ppc, wire, inbox, spc, last, max_QP, data, grants>>
  BY DEF SyncScan, cm
<1>2. index \in Nat /\ index >= 1 /\ index \in 1 .. max_QP /\ index' \in Nat \ {0}
  BY <1>1, CtxFacts
<1>3. PICK c \in Conns : c = ctx_group[index]
  BY <1>2, CtxFacts
<1>4. \/ c \notin bitmap /\ q2[c] > 0 /\ q2' = [q2 EXCEPT ![c] = @ - 1] /\ bitmap' = bitmap \cup {c}
      \/ q2' = q2 /\ bitmap' = bitmap
  BY <1>3 DEF SyncScan, CanPop, Pop
<1>5. CASE q2' = q2 /\ bitmap' = bitmap
  BY <1>1, <1>2, <1>5, SyncPassIInv
<1>6. CASE c \notin bitmap /\ q2[c] > 0 /\ q2' = [q2 EXCEPT ![c] = @ - 1]
           /\ bitmap' = bitmap \cup {c}
  <2>1. ConnsOK' /\ TokenOK' /\ Elems(ctx_group)' = Elems(ctx_group)
    BY <1>1, SyncFrame
  <2>2. q2 \in [Conns -> Nat] /\ q2[c] \in Nat
    BY DEF IInv, Types
  <2>3. q2' \in [Conns -> Nat] /\ q2'[c] + 1 = q2[c] /\ \A d \in Conns : d # c => q2'[d] = q2[d]
    <3>1. q2[c] - 1 \in Nat
      BY <2>2, <1>6
    <3>2. q2'[c] = q2[c] - 1
      BY <2>2, <1>6
    <3>3. q2'[c] + 1 = q2[c]
      BY <3>2, <2>2
    <3>4. QED
      BY <3>1, <3>3, <2>2, <1>6
  <2>4. Types'
    BY <2>3, <1>1, <1>2 DEF IInv, Types
  <2>5. SyncOK'
    <3>1. Counted' = Counted
      BY <1>1 DEF Counted
    <3>2. bitmap' \subseteq Counted
      BY <1>2, <1>3, <1>6 DEF IInv, SyncOK, Counted
    <3>3. QED
      BY <3>1, <3>2, <2>1, <1>1 DEF IInv, SyncOK
  <2>6. ASSUME NEW k \in 1 .. max_QP
        PROVE  /\ k = index => ctx_group[k] = c /\ Owed(k) = 1 /\ Owed(k)' = 0
               /\ k # index => ctx_group[k] # c /\ Owed(k)' = Owed(k)
    <3>1. CASE k = index
      BY <3>1, <1>1, <1>3, <1>6 DEF Owed
    <3>2. CASE k # index
      <4>1. ctx_group[k] # c
        BY <3>2, <1>2, <1>3, CtxFacts
      <4>2. QED
        BY <4>1, <3>2, <1>1, <1>6 DEF Owed
    <3>3. QED
      BY <3>1, <3>2
  <2>7. ASSUME NEW k \in 1 .. max_QP
        PROVE  /\ Sent(ctx_group[k])' = Sent(ctx_group[k])
               /\ Load(ctx_group[k])' <= data'[ctx_group'[k]] + Owed(k)'
    <3>1. PICK d \in Conns : d = ctx_group[k]
      BY CtxFacts
    <3>2. q1[d] \in Nat /\ q2[d] \in Nat /\ grants[d] \in Nat /\ data[d] \in Nat
      BY Counts DEF IInv
    <3>3. /\ Sent(ctx_group[k])' = Sent(ctx_group[k])
          /\ Load(ctx_group[k]) = q1[d] + grants[d] + q2[d] + (IF wire[d] = <<"data">> THEN 1 ELSE 0)
          /\ Load(ctx_group[k])' = q1[d] + grants[d] + q2'[d] + (IF wire[d] = <<"data">> THEN 1 ELSE 0)
          /\ data[ctx_group[k]] = data[d] /\ data'[ctx_group'[k]] = data[d]
      BY <3>1, <1>1 DEF Sent, Load
    <3>4. Load(ctx_group[k]) <= data[d] + Owed(k)
      BY <3>1 DEF IInv, EpochOK
    <3>5. q2'[d] \in Nat
      BY <2>3
    <3>6. CASE k = index
      <4>1. d = c /\ Owed(k) = 1 /\ Owed(k)' = 0 /\ q2'[d] + 1 = q2[d]
        BY <3>1, <3>6, <2>3, <2>6
      <4>2. QED
        BY <4>1, <3>2, <3>3, <3>4, <3>5
    <3>7. CASE k # index
      <4>1. d # c /\ Owed(k)' = Owed(k) /\ q2'[d] = q2[d]
        BY <3>1, <3>7, <2>3, <2>6
      <4>2. QED
        BY <4>1, <3>2, <3>3, <3>4
    <3>8. QED
      BY <3>6, <3>7
  <2>8. EpochOK'
    <3>1. \A j, k \in 1 .. max_QP : Sent(ctx_group[j]) = Sent(ctx_group[k])
      BY <1>1 DEF IInv, EpochOK
    <3>2. QED
      BY <3>1, <2>7, <1>1 DEF EpochOK
  <2>9. QED
    BY <2>1, <2>4, <2>5, <2>8 DEF IInv
<1>7. QED
  BY <1>4, <1>5, <1>6

-----------------------------------------------------------------------------

(* Every step of server and clients preserves the invariant. *)
LEMMA NextIInv == IInv /\ [Next]_vars => IInv'
<1> SUFFICES ASSUME IInv, [Next]_vars PROVE IInv'
  OBVIOUS
<1> DEFINE Kept == UNCHANGED <<ctx_group, conn, q1, q2, ppc, wire, inbox, spc, index, last, max_QP,
                               bitmap, data, grants>>
<1>1. CASE Kept
  BY <1>1, IdleIInv
<1> HIDE DEF Kept
<1>2. CASE EventLoop
  <2>1. CASE ServerInit
    BY <2>1, <1>1 DEF ServerInit, syncvars, Kept
  <2>2. CASE \E c \in Conns : BuildContext(c)
    BY <2>2, BuildContextIInv
  <2>3. CASE \E c \in Conns : ConnectRequest(c)
    BY <2>3, ConnectRequestIInv
  <2>4. CASE \E c \in Conns : Established(c) \/ OnDisconnect(c)
    BY <2>4, ConnectionIInv
  <2>5. QED
    BY <1>2, <2>1, <2>2, <2>3, <2>4 DEF EventLoop
<1>3. CASE Sync
  <2>1. CASE SyncStart
    BY <2>1, SyncStartIInv
  <2>2. CASE SyncLoopBegin
    BY <2>2, SyncLoopBeginIInv
  <2>3. CASE SyncSignal
    BY <2>3, SyncSignalIInv
  <2>4. CASE SyncLoopEnd
    BY <2>4, SyncLoopEndIInv
  <2>5. CASE SyncScan
    BY <2>5, SyncScanIInv
  <2>6. CASE SyncScanAgain
    <3>1. /\ spc = "scan" /\ index' \in Nat \ {0}
          /\ UNCHANGED <<ctx_group, conn, q1, q2, ppc, wire, inbox, spc, last, max_QP, bitmap,
                         data, grants>>
      BY <2>6 DEF SyncScanAgain, cm
    <3>2. QED
      BY <3>1, SyncPassIInv
  <2>7. QED
    BY <1>3, <2>1, <2>2, <2>3, <2>4, <2>5, <2>6 DEF Sync
<1>4. CASE up /\ ServerEnds
  BY <1>1, <1>4 DEF ServerEnds, syncvars, Kept
<1>5. CASE \E c \in Conns : PollThread(c)
  <2>1. PICK c \in Conns : PollCq(c) \/ AnswerArrival(c)
    BY <1>5 DEF PollThread
  <2>2. QED
    BY <2>1, PollCqIInv, AnswerArrivalIInv
<1>6. CASE \E c \in Conns : Client(c)
  <2>1. PICK c \in Conns : Client(c)
    BY <1>6
  <2>2. CASE ClientPoll(c)
    BY <2>2, ClientPollIInv
  <2>3. CASE AddrResolved(c) \/ RouteResolved(c) \/ ClientEstablished(c)
    BY <2>3, <1>1 DEF AddrResolved, RouteResolved, ClientEstablished, CpcStep, syncvars, Kept
  <2>4. QED
    BY <2>1, <2>2, <2>3 DEF Client
<1>7. CASE \E c \in Conns : Rejected(c) \/ Die(c) \/ ClientDisconnected(c)
  BY <1>7, <1>1 DEF Rejected, Die, ClientDisconnected, CpcStep, syncvars, Kept
<1>8. CASE UNCHANGED vars
  BY <1>8, <1>1 DEF vars, cm, syncvars, Kept
<1>9. QED
  BY <1>2, <1>3, <1>4, <1>5, <1>6, <1>7, <1>8 DEF Next

(* So it holds in every state server and clients can reach. *)
LEMMA Inductive == Spec => []IInv
<1>1. Init => IInv
  BY InitIInv
<1>2. IInv /\ [Next]_vars => IInv'
  BY NextIInv
<1>3. QED
  BY <1>1, <1>2, PTL DEF Spec

-----------------------------------------------------------------------------
(* The theorems. *)

(* The poll_cq thread that build_context starts before it makes the queues *)
(* never gets to use them before they are there.                           *)
THEOREM ContextBuilt == Spec => []BuiltBeforeUse
<1>1. IInv => BuiltBeforeUse
  <2> SUFFICES ASSUME IInv, NEW c \in Conns, ppc[c] = "signal"
               PROVE  \E k \in DOMAIN ctx_group : ctx_group[k] = c
    BY DEF BuiltBeforeUse
  <2>1. conn[c] \in {"established", "freed"}
    BY DEF IInv, TokenOK, Token
  <2>2. c \in Elems(ctx_group)
    BY <2>1 DEF IInv, ConnsOK
  <2>3. ctx_group \in Seq(Conns) /\ DOMAIN ctx_group = 1 .. Len(ctx_group)
    BY CtxFacts, LenProperties
  <2>4. QED
    BY <2>2, <2>3 DEF Elems
<1>2. QED
  BY <1>1, Inductive, PTL

(* The comment "MUST be empty" is right for every context the sync thread  *)
(* counts: an arrival needs a grant, and a grant a signal of this epoch.   *)
THEOREM EmptyWhenSignalled == Spec => []MustBeEmpty
<1>1. IInv => MustBeEmpty
  <2> SUFFICES ASSUME IInv, spc = "signal", NEW k \in index .. max_QP
               PROVE  q2[ctx_group[k]] = 0
    BY DEF MustBeEmpty
  <2>1. k \in 1 .. max_QP /\ ~(k < index)
    BY CtxFacts
  <2>2. PICK c \in Conns : c = ctx_group[k]
    BY <2>1, CtxFacts
  <2>3. Owed(k) = 0
    BY <2>1 DEF Owed
  <2>4. Load(c) <= data[c] + Owed(k)
    BY <2>1, <2>2 DEF IInv, EpochOK
  <2>5. data[c] <= grants[c]
    BY DEF IInv, TokenOK, Token
  <2>6. q1[c] \in Nat /\ q2[c] \in Nat /\ grants[c] \in Nat /\ data[c] \in Nat
    BY Counts DEF IInv
  <2>7. q2[c] = 0
    <3>1. PICK w \in {0, 1} : Load(c) = q1[c] + grants[c] + q2[c] + w
      BY DEF Load
    <3>2. QED
      BY <3>1, <2>3, <2>4, <2>5, <2>6
  <2>8. QED
    BY <2>2, <2>7
<1>2. QED
  BY <1>1, Inductive, PTL

(* A member is only granted what every member has contributed to. *)
LEMMA GrantedLast ==
  ASSUME IInv, NEW c \in Members, NEW d \in Members, q1[c] > 0
  PROVE  grants[c] <= data[d]
<1>1. c \in Conns /\ d \in Conns
  BY DEF Conns
<1>2. /\ q1[c] \in Nat /\ q2[c] \in Nat /\ grants[c] \in Nat /\ data[c] \in Nat
      /\ q1[d] \in Nat /\ q2[d] \in Nat /\ grants[d] \in Nat /\ data[d] \in Nat
  BY <1>1, Counts DEF IInv
<1>3. spc \in {"signal", "scan"}
  <2>1. spc \notin {"off", "start", "first"}
    BY <1>1, <1>2 DEF IInv, SyncOK
  <2>2. QED
    BY <2>1 DEF IInv, Types
<1>4. Members \subseteq Counted
  BY <1>3 DEF IInv, SyncOK
<1>5. PICK j \in 1 .. max_QP : c = ctx_group[j]
  BY <1>4 DEF Counted
<1>6. PICK k \in 1 .. max_QP : d = ctx_group[k]
  BY <1>4 DEF Counted
<1>7. Load(c) <= data[c] + Owed(j) /\ Load(d) <= data[d] + Owed(k)
  BY <1>5, <1>6 DEF IInv, EpochOK
<1>8. Owed(j) \in {0, 1} /\ Owed(k) \in {0, 1}
  BY OwedBit
<1>9. data[c] <= grants[c]
  BY <1>1 DEF IInv, TokenOK, Token
<1>10. PICK v \in {0, 1} : Load(c) = q1[c] + grants[c] + q2[c] + v
  BY DEF Load
<1>11. PICK w \in {0, 1} : Load(d) = q1[d] + grants[d] + q2[d] + w
  BY DEF Load
<1>12. Owed(j) = 1 /\ q1[c] = 1
  BY <1>2, <1>7, <1>8, <1>9, <1>10
<1>13. q1[d] + grants[d] <= data[d] + Owed(k)
  BY <1>2, <1>7, <1>8, <1>11
<1>14. Sent(c) = grants[c] + 1 /\ Sent(d) = q1[d] + grants[d]
  BY <1>2, <1>12 DEF Sent
<1>15. CASE spc = "scan"
  <2>1. Sent(c) = Sent(d)
    BY <1>5, <1>6, <1>15 DEF IInv, EpochOK
  <2>2. grants[c] + 1 = q1[d] + grants[d]
    BY <2>1, <1>14
  <2>3. grants[c] + 1 <= data[d] + Owed(k)
    BY <2>2, <1>13
  <2>4. QED
    BY <2>3, <1>2, <1>8
<1>16. CASE spc = "signal"
  <2>1. Sent(c) + Owed(k) = Sent(d) + Owed(j)
    BY <1>5, <1>6, <1>16 DEF IInv, EpochOK
  <2>2. QED
    BY <2>1, <1>2, <1>8, <1>12, <1>13, <1>14
<1>17. QED
  BY <1>3, <1>15, <1>16

(* An answer after the first releases its client from a round all members  *)
(* have contributed to; a client's data contributes to the round it was    *)
(* last released into; nothing else counts.                                *)
LEMMA StepSimulation == IInv /\ [Next]_vars => [Barrier!Next]_(Barrier!vars)
<1> SUFFICES ASSUME IInv, [Next]_vars PROVE [Barrier!Next]_(Barrier!vars)
  OBVIOUS
<1>1. ASSUME data' = data, grants' = grants PROVE [Barrier!Next]_(Barrier!vars)
  BY <1>1 DEF Barrier!vars, Contributed, Released
<1>2. ASSUME NEW c \in Conns, ClientPoll(c) PROVE [Barrier!Next]_(Barrier!vars)
  <2>1. grants' = grants /\ inbox[c] # << >>
    BY <1>2 DEF ClientPoll
  <2>2. data \in [Conns -> Nat] /\ inbox[c] \in {<< >>, <<666>>, <<888>>}
    BY DEF IInv, Types
  <2>3. CASE Head(inbox[c]) = 666
    BY <1>1, <1>2, <2>1, <2>3 DEF ClientPoll
  <2>4. CASE Head(inbox[c]) # 666
    <3>1. data' = [data EXCEPT ![c] = @ + 1]
      BY <1>2, <2>4 DEF ClientPoll
    <3>2. inbox[c] # <<666>>
      <4>1. SUFFICES ASSUME inbox[c] = << 666 >> PROVE FALSE
        OBVIOUS
      <4>2. Head(inbox[c]) = 666
        BY <4>1
      <4>3. QED
        BY <4>2, <2>4
    <3>3. inbox[c] = <<888>>
      BY <3>2, <2>1, <2>2
    <3>4. grants[c] = data[c] + 1 /\ data[c] \in Nat /\ grants[c] \in Nat
      BY <3>3, Counts DEF IInv, TokenOK, Token
    <3>5. CASE c \in Members
      <4>1. Contributed[c] = data[c] /\ Released[c] = data[c]
        BY <3>4, <3>5 DEF Contributed, Released
      <4>2. Contributed' = [Contributed EXCEPT ![c] = @ + 1]
        BY <3>1, <3>5, <2>2, ZenonT(30) DEF Contributed, Conns
      <4>3. Released' = Released
        BY <2>1 DEF Released
      <4>4. Barrier!Contribute(c)
        BY <4>1, <4>2, <4>3 DEF Barrier!Contribute
      <4>5. QED
        BY <4>4, <3>5 DEF Barrier!Next
    <3>6. CASE c \notin Members
      <4>1. \A m \in Members : data'[m] = data[m]
        BY <3>1, <3>6, <2>2 DEF Conns
      <4>2. Contributed' = Contributed /\ Released' = Released
        BY <4>1, <2>1 DEF Contributed, Released
      <4>3. QED
        BY <4>2 DEF Barrier!vars
    <3>7. QED
      BY <3>5, <3>6
  <2>5. QED
    BY <2>3, <2>4
<1>3. ASSUME NEW c \in Conns, AnswerArrival(c) PROVE [Barrier!Next]_(Barrier!vars)
  <2>1. data' = data /\ grants' = [grants EXCEPT ![c] = @ + 1] /\ q1[c] > 0
    BY <1>3 DEF AnswerArrival, CanPop
  <2>2. grants \in [Conns -> Nat] /\ grants[c] \in Nat
    BY DEF IInv, Types
  <2>3. grants'[c] = grants[c] + 1 /\ \A d \in Conns : d # c => grants'[d] = grants[d]
    BY <2>1, <2>2
  <2>4. Contributed' = Contributed
    BY <2>1 DEF Contributed
  <2>5. CASE c \in Members /\ grants[c] > 0
    <3>1. ASSUME NEW d \in Members PROVE Released[c] < Contributed[d]
      <4>1. grants[c] <= data[d] /\ data[d] \in Nat
        BY <2>1, <2>5, GrantedLast, Counts DEF IInv, Conns
      <4>2. Released[c] = grants[c] - 1 /\ Contributed[d] = data[d]
        BY <2>2, <2>5 DEF Released, Contributed
      <4>3. QED
        BY <4>1, <4>2, <2>2
    <3>2. Released' = [Released EXCEPT ![c] = @ + 1]
      <4>1. ASSUME NEW d \in Members PROVE Released'[d] = [Released EXCEPT ![c] = @ + 1][d]
        <5>1. CASE d = c
          <6>1. Released'[c] = grants'[c] - 1 /\ Released[c] = grants[c] - 1
            BY <2>2, <2>3, <2>5 DEF Released
          <6>2. [Released EXCEPT ![c] = @ + 1][c] = Released[c] + 1
            BY <2>5 DEF Released
          <6>3. QED
            BY <5>1, <6>1, <6>2, <2>2, <2>3
        <5>2. CASE d # c
          BY <5>2, <2>3 DEF Released, Conns
        <5>3. QED
          BY <5>1, <5>2
      <4>2. QED
        BY <4>1 DEF Released
    <3>3. Barrier!Release(c)
      BY <3>1, <3>2, <2>4 DEF Barrier!Release
    <3>4. QED
      BY <3>3, <2>5 DEF Barrier!Next
  <2>6. CASE c \notin Members \/ grants[c] = 0
    <3>1. ASSUME NEW d \in Members PROVE Released'[d] = Released[d]
      <4>1. CASE d = c
        BY <4>1, <2>2, <2>3, <2>6 DEF Released
      <4>2. CASE d # c
        BY <4>2, <2>3 DEF Released, Conns
      <4>3. QED
        BY <4>1, <4>2
    <3>2. Released' = Released
      BY <3>1 DEF Released
    <3>3. QED
      BY <3>2, <2>4 DEF Barrier!vars
  <2>7. QED
    BY <2>2, <2>5, <2>6
<1>4. CASE EventLoop
  BY <1>1, <1>4 DEF EventLoop, ServerInit, BuildContext, ConnectRequest, Established, OnDisconnect
<1>5. CASE Sync
  BY <1>1, <1>5 DEF Sync, SyncStart, SyncLoopBegin, SyncSignal, SyncLoopEnd, SyncScan, SyncScanAgain
<1>6. CASE up /\ ServerEnds
  BY <1>1, <1>6 DEF ServerEnds
<1>7. ASSUME NEW c \in Conns, PollThread(c) PROVE [Barrier!Next]_(Barrier!vars)
  <2>1. CASE PollCq(c)
    BY <1>1, <2>1 DEF PollCq
  <2>2. QED
    BY <1>3, <1>7, <2>1 DEF PollThread
<1>8. ASSUME NEW c \in Conns, Client(c) PROVE [Barrier!Next]_(Barrier!vars)
  <2>1. CASE AddrResolved(c) \/ RouteResolved(c) \/ ClientEstablished(c)
    BY <1>1, <2>1 DEF AddrResolved, RouteResolved, ClientEstablished, CpcStep
  <2>2. QED
    BY <1>2, <1>8, <2>1 DEF Client
<1>9. CASE \E c \in Conns : Rejected(c) \/ Die(c) \/ ClientDisconnected(c)
  BY <1>1, <1>9 DEF Rejected, Die, ClientDisconnected, CpcStep
<1>10. CASE UNCHANGED vars
  BY <1>1, <1>10 DEF vars
<1>11. QED
  BY <1>4, <1>5, <1>6, <1>7, <1>8, <1>9, <1>10 DEF Next

(* The threads, their queues and the clients are a barrier per epoch for   *)
(* the connections that start it, however many they are, whoever joins     *)
(* late and whoever is killed.                                             *)
THEOREM Refinement == Spec => ImplementsBarrier
<1>1. Init => Barrier!Init
  <2> SUFFICES ASSUME Init PROVE Barrier!Init
    OBVIOUS
  <2>1. \A c \in Members : data[c] = 0 /\ grants[c] = 0
    BY DEF Init, Conns
  <2>2. QED
    BY <2>1 DEF Barrier!Init, Contributed, Released
<1>2. IInv /\ [Next]_vars => [Barrier!Next]_(Barrier!vars)
  BY StepSimulation
<1>3. QED
  BY <1>1, <1>2, Inductive, PTL DEF Spec, ImplementsBarrier, Barrier!Spec

=============================================================================
