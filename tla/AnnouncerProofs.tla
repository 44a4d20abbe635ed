--------------------------- MODULE AnnouncerProofs ---------------------------
(***************************************************************************)
(* Theorems about Announcer, for every value of its constants.             *)
(***************************************************************************)
EXTENDS AnnouncerRefinement, SequenceTheorems, TLAPS

------------------------------------------------------------------------------
(* What set_status does to the history *)

\* The eviction loop runs at most once, because the history was within its cap.
LEMMA ExcessIsZeroOrOne ==
  ASSUME NEW n \in Nat, n <= MaxStatuses
  PROVE  /\ Excess(n) = 0
         /\ Excess(n + 1) = (IF n = MaxStatuses THEN 1 ELSE 0)
BY QueueCaps DEF Excess

\* Recording a status for an id without a record: the id goes to the back,
\* and a full history loses its front.
LEMMA SetStatusNew ==
  ASSUME NEW id \in Nat, NEW status,
         status_order \in Seq(Nat), Len(status_order) <= MaxStatuses,
         id \notin DOMAIN statuses,
         SetStatus(id, status)
  PROVE  LET e == IF Len(status_order) = MaxStatuses THEN 1 ELSE 0
         IN  /\ status_order' \in Seq(Nat)
             /\ Len(status_order') = Len(status_order) + 1 - e
             /\ \A i \in 1..(Len(status_order') - 1) : status_order'[i] = status_order[i + e]
             /\ status_order'[Len(status_order')] = id
             /\ DOMAIN statuses' =
                  (DOMAIN statuses \ {status_order[i] : i \in 1..e}) \cup {id}
             /\ \A k \in DOMAIN statuses' :
                  statuses'[k] = IF k = id THEN status ELSE statuses[k]
<1> DEFINE e == IF Len(status_order) = MaxStatuses THEN 1 ELSE 0
           order == Append(status_order, id)
<1>0. Len(status_order) \in Nat /\ e \in {0, 1} /\ e <= Len(status_order)
  BY LenProperties, QueueCaps
<1>1. /\ order \in Seq(Nat)
      /\ Len(order) = Len(status_order) + 1
      /\ \A i \in 1..Len(status_order) : order[i] = status_order[i]
      /\ order[Len(status_order) + 1] = id
  BY AppendProperties
<1>2. Excess(Len(order)) = e
  BY <1>1, ExcessIsZeroOrOne
<1>3. /\ status_order' = SubSeq(order, e + 1, Len(order))
      /\ statuses' = [k \in (DOMAIN statuses \ {order[i] : i \in 1..e}) \cup {id} |->
                        IF k = id THEN status ELSE statuses[k]]
  BY <1>2 DEF SetStatus
<1>4. /\ status_order' \in Seq(Nat)
      /\ Len(status_order') = Len(order) - e
      /\ \A i \in 1..(Len(order) - e) : status_order'[i] = order[i + e]
  <2>1. \A i \in (e + 1)..Len(order) : order[i] \in Nat
    BY <1>1, ElementOfSeq
  <2>2. /\ SubSeq(order, e + 1, Len(order)) \in Seq(Nat)
        /\ Len(SubSeq(order, e + 1, Len(order))) =
             (IF e + 1 <= Len(order) THEN Len(order) - (e + 1) + 1 ELSE 0)
        /\ \A i \in 1..(Len(order) - (e + 1) + 1) :
             SubSeq(order, e + 1, Len(order))[i] = order[(e + 1) + i - 1]
    <3> HIDE DEF e, order
    <3>1. e + 1 \in Int /\ Len(order) \in Int
      BY <1>1, LenProperties DEF e
    <3> QED
      BY <3>1, <2>1, SubSeqProperties
  <2> HIDE DEF e, order
  <2>3. Len(order) - (e + 1) + 1 = Len(order) - e /\ e + 1 <= Len(order)
    BY <1>0, <1>1
  <2>4. \A i \in 1..(Len(order) - e) : (e + 1) + i - 1 = i + e
    BY <1>0, <1>1
  <2> QED
    BY <2>2, <2>3, <2>4, <1>3
<1>5. {order[i] : i \in 1..e} = {status_order[i] : i \in 1..e}
  <2>1. \A i \in 1..e : i \in 1..Len(status_order)
    BY QueueCaps
  <2> QED
    BY <1>1, <2>1
<1> QED
  <2>1. Len(status_order') = Len(status_order) + 1 - e
    BY <1>0, <1>1, <1>4
  <2>2. /\ \A i \in 1..(Len(status_order') - 1) : status_order'[i] = status_order[i + e]
        /\ status_order'[Len(status_order')] = id
    <3> HIDE DEF e, order
    <3>1. \A i \in 1..(Len(status_order') - 1) :
            i \in 1..(Len(order) - e) /\ i + e \in 1..Len(status_order)
      BY <1>0, <1>1, <2>1
    <3>2. /\ Len(status_order') \in 1..(Len(order) - e)
          /\ Len(status_order') + e = Len(status_order) + 1
      BY <1>0, <1>1, <2>1
    <3> QED
      BY <1>1, <1>4, <3>1, <3>2
  <2>3. /\ DOMAIN statuses' = (DOMAIN statuses \ {status_order[i] : i \in 1..e}) \cup {id}
        /\ \A k \in DOMAIN statuses' :
             statuses'[k] = IF k = id THEN status ELSE statuses[k]
    BY <1>3, <1>5
  <2> QED
    BY <1>4, <2>1, <2>2, <2>3

\* Types of the status history, and that it survives a set_status.
HistoryType ==
  /\ status_order \in Seq(Nat)
  /\ DOMAIN statuses \subseteq Nat
  /\ \A id \in DOMAIN statuses : statuses[id] \in BatchStatus

LEMMA SetStatusKeepsHistory ==
  ASSUME NEW id \in Nat, NEW status \in BatchStatus,
         HistoryType, HistoryBounded, SetStatus(id, status)
  PROVE  HistoryType' /\ HistoryBounded'
<1>0. Len(status_order) \in Nat /\ Len(status_order) <= MaxStatuses
  BY LenProperties DEF HistoryType, HistoryBounded
<1>r. Range(status_order) = {status_order[i] : i \in 1..Len(status_order)}
  BY RangeEquality DEF HistoryType
<1>1. CASE id \in DOMAIN statuses
  <2>1. /\ status_order' = status_order
        /\ DOMAIN statuses' = DOMAIN statuses
        /\ \A k \in DOMAIN statuses : statuses'[k] = IF k = id THEN status ELSE statuses[k]
    BY <1>1 DEF SetStatus
  <2>2. HistoryType'
    BY <2>1 DEF HistoryType
  <2>3. HistoryBounded'
    BY <2>1 DEF HistoryBounded
  <2> QED
    BY <2>2, <2>3
<1>2. CASE id \notin DOMAIN statuses
  <2> DEFINE e == IF Len(status_order) = MaxStatuses THEN 1 ELSE 0
  <2>e. e \in {0, 1} /\ e <= Len(status_order) /\ Len(status_order) + 1 - e <= MaxStatuses
    BY <1>0, QueueCaps
  <2>1. /\ status_order' \in Seq(Nat)
        /\ Len(status_order') = Len(status_order) + 1 - e
        /\ \A i \in 1..(Len(status_order') - 1) : status_order'[i] = status_order[i + e]
        /\ status_order'[Len(status_order')] = id
        /\ DOMAIN statuses' = (DOMAIN statuses \ {status_order[i] : i \in 1..e}) \cup {id}
        /\ \A k \in DOMAIN statuses' : statuses'[k] = IF k = id THEN status ELSE statuses[k]
    BY <1>0, <1>2, SetStatusNew DEF HistoryType
  <2> HIDE DEF e
  <2>2. HistoryType'
    BY <2>1 DEF HistoryType
  <2>n. /\ Len(status_order') \in Nat
        /\ \A i \in 1..(Len(status_order') - 1) : i + e \in 1..Len(status_order)
    BY <2>1, <2>e, <1>0
  <2>u. \A i, j \in 1..Len(status_order) : status_order[i] = status_order[j] => i = j
    BY DEF HistoryBounded
  <2>3. Range(status_order') = {status_order'[i] : i \in 1..Len(status_order')}
    BY <2>1, RangeEquality
  <2>d. DOMAIN statuses = {status_order[i] : i \in 1..Len(status_order)}
    BY <1>r DEF HistoryBounded
  <2>4. Range(status_order') \subseteq DOMAIN statuses'
    <3> SUFFICES ASSUME NEW i \in 1..Len(status_order')
                 PROVE  status_order'[i] \in DOMAIN statuses'
      BY <2>3
    <3>1. CASE i = Len(status_order')
      BY <3>1, <2>1
    <3>2. CASE i # Len(status_order')
      <4>1. i \in 1..(Len(status_order') - 1) /\ i + e \in 1..Len(status_order)
        BY <3>2, <2>n
      <4>2. status_order'[i] = status_order[i + e] /\ status_order[i + e] \in DOMAIN statuses
        BY <4>1, <2>1, <2>d
      <4>3. \A j \in 1..e : j \in 1..Len(status_order) /\ j # i + e
        BY <4>1, <2>e, <1>0
      <4>4. status_order[i + e] \notin {status_order[j] : j \in 1..e}
        BY <4>1, <4>3, <2>u
      <4> QED
        BY <4>2, <4>4, <2>1
    <3> QED
      BY <3>1, <3>2
  <2>5. DOMAIN statuses' \subseteq Range(status_order')
    <3> SUFFICES ASSUME NEW k \in DOMAIN statuses', k # id
                 PROVE  k \in Range(status_order')
      BY <2>1, <2>3, <2>n, <2>e, <1>0
    <3>1. PICK j \in 1..Len(status_order) : status_order[j] = k
      BY <2>1, <2>d
    <3>2. j \notin 1..e
      BY <3>1, <2>1
    <3>3. j - e \in 1..(Len(status_order') - 1) /\ (j - e) + e = j
      BY <3>2, <2>1, <2>e, <1>0
    <3>4. status_order'[j - e] = k
      BY <3>1, <3>3, <2>1
    <3> QED
      BY <3>3, <3>4, <2>3, <2>n
  <2>6. ASSUME NEW i \in 1..Len(status_order'), NEW j \in 1..Len(status_order'),
               status_order'[i] = status_order'[j]
        PROVE  i = j
    <3>1. \A k \in 1..(Len(status_order') - 1) : status_order'[k] # id
      BY <2>1, <2>n, <2>d, <1>2
    <3>2. CASE i = Len(status_order') \/ j = Len(status_order')
      BY <3>1, <3>2, <2>6, <2>1, <2>n
    <3>3. CASE i # Len(status_order') /\ j # Len(status_order')
      <4>1. i \in 1..(Len(status_order') - 1) /\ j \in 1..(Len(status_order') - 1)
        BY <3>3, <2>n
      <4>2. status_order[i + e] = status_order[j + e]
        BY <4>1, <2>6, <2>1
      <4>3. i + e = j + e
        BY <4>1, <4>2, <2>n, <2>u
      <4> QED
        BY <4>1, <4>3, <2>e, <1>0
    <3> QED
      BY <3>2, <3>3
  <2>7. HistoryBounded'
    BY <2>1, <2>e, <2>4, <2>5, <2>6 DEF HistoryBounded
  <2> QED
    BY <2>2, <2>7
<1> QED
  BY <1>1, <1>2

------------------------------------------------------------------------------
(* The queue's other operations *)

\* take_pending splits the queue into what it returns and what it leaves.
LEMMA TakeSplits ==
  ASSUME NEW max \in Nat \ {0}, pending \in Seq(Item), pending # <<>>
  PROVE  LET n == TakeLen(max)
         IN  /\ n \in 1..Len(pending) /\ n <= max
             /\ Taken(max) \in Seq(Item)
             /\ Len(Taken(max)) = n
             /\ \A i \in 1..n : Taken(max)[i] = pending[i]
             /\ TakePending(max) =>
                  /\ pending' \in Seq(Item)
                  /\ Len(pending') = Len(pending) - n
                  /\ \A i \in 1..(Len(pending) - n) : pending'[i] = pending[i + n]
<1> DEFINE n == TakeLen(max)
<1>1. Len(pending) \in Nat \ {0}
  BY EmptySeq, LenProperties
<1>2. n \in 1..Len(pending) /\ n <= max
  BY <1>1 DEF TakeLen
<1> HIDE DEF n
<1>3. \A i \in 1..Len(pending) : pending[i] \in Item
  BY ElementOfSeq
<1>4. /\ SubSeq(pending, 1, n) \in Seq(Item)
      /\ Len(SubSeq(pending, 1, n)) = (IF 1 <= n THEN n - 1 + 1 ELSE 0)
      /\ \A i \in 1..(n - 1 + 1) : SubSeq(pending, 1, n)[i] = pending[1 + i - 1]
  <2>1. n \in Int /\ \A i \in 1..n : pending[i] \in Item
    BY <1>1, <1>2, <1>3
  <2> QED
    BY <2>1, SubSeqProperties
<1>5. /\ Len(SubSeq(pending, 1, n)) = n
      /\ \A i \in 1..n : SubSeq(pending, 1, n)[i] = pending[i]
  BY <1>1, <1>2, <1>4
<1>6. /\ SubSeq(pending, n + 1, Len(pending)) \in Seq(Item)
      /\ Len(SubSeq(pending, n + 1, Len(pending))) =
           (IF n + 1 <= Len(pending) THEN Len(pending) - (n + 1) + 1 ELSE 0)
      /\ \A i \in 1..(Len(pending) - (n + 1) + 1) :
           SubSeq(pending, n + 1, Len(pending))[i] = pending[(n + 1) + i - 1]
  <2>1. n + 1 \in Int /\ Len(pending) \in Int /\ \A i \in (n + 1)..Len(pending) : pending[i] \in Item
    BY <1>1, <1>2, <1>3
  <2> QED
    BY <2>1, SubSeqProperties
<1>7. /\ Len(SubSeq(pending, n + 1, Len(pending))) = Len(pending) - n
      /\ \A i \in 1..(Len(pending) - n) :
           SubSeq(pending, n + 1, Len(pending))[i] = pending[i + n]
  <2> DEFINE rest == SubSeq(pending, n + 1, Len(pending))
  <2>1. /\ Len(rest) = (IF n + 1 <= Len(pending) THEN Len(pending) - (n + 1) + 1 ELSE 0)
        /\ \A i \in 1..(Len(pending) - (n + 1) + 1) : rest[i] = pending[(n + 1) + i - 1]
    BY <1>6
  <2> HIDE DEF rest
  <2>2. Len(rest) = Len(pending) - n
    BY <1>1, <1>2, <2>1
  <2>3. ASSUME NEW i \in 1..(Len(pending) - n)
        PROVE  rest[i] = pending[i + n]
    <3>1. i \in 1..(Len(pending) - (n + 1) + 1) /\ (n + 1) + i - 1 = i + n
      BY <1>1, <1>2
    <3> QED
      BY <2>1, <3>1
  <2> QED
    BY <2>2, <2>3 DEF rest
<1>8. Taken(max) = SubSeq(pending, 1, n)
  BY DEF Taken, n
<1>9. TakePending(max) => pending' = SubSeq(pending, n + 1, Len(pending))
  BY DEF TakePending, n
<1>10. n = TakeLen(max)
  BY DEF n
<1> QED
  BY <1>2, <1>4, <1>5, <1>6, <1>7, <1>8, <1>9, <1>10

\* An accepted note goes to the back of the queue under the next id.
LEMMA EnqueueAppends ==
  ASSUME NEW entry \in Entry, pending \in Seq(Item), next_id \in Nat, Enqueue(entry)
  PROVE  /\ pending' \in Seq(Item)
         /\ Len(pending) < MaxPending
         /\ Len(pending') = Len(pending) + 1
         /\ \A i \in 1..Len(pending) : pending'[i] = pending[i]
         /\ pending'[Len(pending) + 1] = [id |-> next_id, entry |-> entry]
         /\ next_id' = next_id + 1
         /\ SetStatus(next_id, Pending)
<1>1. [id |-> next_id, entry |-> entry] \in Item
  BY DEF Item
<1>2. Len(pending) \in Nat
  BY LenProperties
<1> QED
  BY <1>1, <1>2, AppendProperties, QueueCaps DEF Enqueue, QueueFull

------------------------------------------------------------------------------
(* Types and bounds *)

LEMMA BoundsInit == Init => BoundsInv
<1> SUFFICES ASSUME Init PROVE BoundsInv
  OBVIOUS
<1>1. pending = <<>> /\ next_id = 0 /\ status_order = <<>> /\ DOMAIN statuses = {}
  BY DEF Init, QueueInit
<1>2. Range(status_order) = {}
  BY <1>1 DEF Range
<1>3. TypeOK
  BY <1>1 DEF Init, TypeOK, BatchStatus, Pending, NoSig
<1>4. WorkShape
  BY <1>1, QueueCaps, AnnouncerConstants DEF Init, WorkShape
<1>5. HistoryBounded
  BY <1>1, <1>2, QueueCaps DEF HistoryBounded
<1> QED
  BY <1>3, <1>4, <1>5 DEF BoundsInv

LEMMA BoundsStep == BoundsInv /\ [Next]_vars => BoundsInv'
<1> SUFFICES ASSUME BoundsInv, [Next]_vars PROVE BoundsInv'
  OBVIOUS
<1>t. TypeOK /\ WorkShape /\ HistoryBounded /\ HistoryType
  BY DEF BoundsInv, TypeOK, HistoryType
<1>s. Pending \in BatchStatus /\ Failed \in BatchStatus /\ NoSig \in Nat
  BY DEF BatchStatus, Pending, Failed, NoSig
<1>f. Failed.state # "pending"
  BY DEF Failed
<1>h. UNCHANGED <<statuses, status_order>> => HistoryType' /\ HistoryBounded'
  BY <1>t DEF HistoryType, HistoryBounded
<1>1. ASSUME NEW req \in Requests, PostAnnounce(req)
      PROVE  BoundsInv'
  <2>1. ToNoteEntry(req) \in Entry
    BY <1>1 DEF PostAnnounce, Entry
  <2>2. /\ pending' \in Seq(Item) /\ Len(pending) < MaxPending /\ Len(pending') = Len(pending) + 1
        /\ next_id' = next_id + 1
        /\ SetStatus(next_id, Pending)
    BY <1>1, <1>t, <2>1, EnqueueAppends DEF PostAnnounce, TypeOK
  <2>3. HistoryType' /\ HistoryBounded'
    BY <1>t, <1>s, <2>2, SetStatusKeepsHistory DEF TypeOK
  <2>4. accepted' \in Seq(Entry)
    BY <1>1, <1>t, <2>1, AppendProperties DEF PostAnnounce, TypeOK
  <2>5. TypeOK'
    BY <1>1, <1>t, <2>2, <2>3, <2>4 DEF PostAnnounce, TypeOK, HistoryType, publisherVars
  <2>6. WorkShape'
    BY <1>1, <1>t, <2>2, LenProperties, QueueCaps DEF PostAnnounce, TypeOK, WorkShape, publisherVars
  <2> QED
    BY <2>3, <2>5, <2>6 DEF BoundsInv
<1>2. ASSUME NEW req \in Requests, RefuseAnnounce(req)
      PROVE  BoundsInv'
  BY <1>2, <1>t DEF RefuseAnnounce, vars, queueVars, publisherVars, BoundsInv, TypeOK, WorkShape, HistoryBounded
<1>3. CASE Drain
  <2>1. pending # <<>> /\ batch' = Taken(MaxBatch) /\ TakePending(MaxBatch)
        /\ UNCHANGED <<statuses, status_order>>
    BY <1>3 DEF Drain, TakePending
  <2>2. LET n == TakeLen(MaxBatch)
        IN  /\ n \in 1..Len(pending) /\ n <= MaxBatch
            /\ batch' \in Seq(Item) /\ Len(batch') = n
            /\ pending' \in Seq(Item) /\ Len(pending') = Len(pending) - n
    BY <1>t, <2>1, TakeSplits, AnnouncerConstants DEF TypeOK
  <2>3. TypeOK'
    BY <1>3, <1>t, <2>1, <2>2 DEF Drain, TakePending, TypeOK
  <2>4. /\ Len(pending') <= MaxPending /\ Len(batch') <= MaxBatch /\ batch' # <<>>
    BY <1>t, <2>2, LenProperties, QueueCaps, AnnouncerConstants DEF TypeOK, WorkShape
  <2>5. WorkShape'
    BY <1>3, <1>t, <2>4 DEF Drain, WorkShape
  <2> QED
    BY <1>h, <2>1, <2>3, <2>5 DEF BoundsInv
<1>4. ASSUME NEW status \in BatchStatus, status.state # "pending",
             Conclude(status), pc \in {"publishing", "confirming"}
      PROVE  BoundsInv'
  <2>1. batch # <<>> /\ settled = 0 /\ Len(batch) > 0
    BY <1>4, <1>t, EmptySeq DEF WorkShape, TypeOK
  <2>2. TypeOK'
    BY <1>4, <1>t DEF Conclude, TypeOK, queueVars
  <2>3. WorkShape'
    BY <1>4, <1>t, <2>1 DEF Conclude, WorkShape, queueVars
  <2> QED
    BY <1>4, <1>h, <2>2, <2>3 DEF BoundsInv, Conclude, queueVars
<1>5. CASE Send
  <2>1. [sig |-> next_sig, epoch |-> epoch, batch |-> batch] \in Transaction
    BY <1>t DEF TypeOK, Transaction
  <2>2. TypeOK'
    BY <1>5, <1>t, <2>1 DEF Send, TypeOK, queueVars
  <2>3. WorkShape'
    BY <1>5, <1>t DEF Send, WorkShape, queueVars
  <2> QED
    BY <1>5, <1>h, <2>2, <2>3 DEF BoundsInv, Send, queueVars
<1>6. CASE SendRefused
  BY <1>6, <1>4, <1>s, <1>f DEF SendRefused
<1>7. CASE ConfirmOk
  <2>1. Confirmed(sig) \in BatchStatus /\ Confirmed(sig).state # "pending"
    BY <1>t DEF TypeOK, Confirmed, BatchStatus
  <2> QED
    BY <1>7, <1>4, <2>1 DEF ConfirmOk
<1>8. CASE ConfirmExpired
  BY <1>8, <1>4, <1>s, <1>f DEF ConfirmExpired
<1>9. CASE RpcFails
  BY <1>9, <1>4, <1>s, <1>f DEF RpcFails
<1>10. CASE Settle
  <2>1. settled + 1 \in 1..Len(batch)
    BY <1>10, <1>t, LenProperties DEF Settle, WorkShape, TypeOK
  <2>2. batch[settled + 1].id \in Nat
    <3>1. batch \in Seq(Item)
      BY <1>t DEF TypeOK
    <3>2. batch[settled + 1] \in Item
      BY <2>1, <3>1, ElementOfSeq
    <3> QED
      BY <3>2 DEF Item
  <2>3. HistoryType' /\ HistoryBounded'
    BY <1>10, <1>t, <2>2, SetStatusKeepsHistory DEF Settle, TypeOK
  <2>4. CASE settled + 1 < Len(batch)
    <3>1. /\ settled' = settled + 1 /\ UNCHANGED <<pc, batch, sig, outcome>>
          /\ UNCHANGED <<pending, next_id, ledger, mode, network, next_sig, epoch, accepted>>
      BY <1>10, <2>4 DEF Settle
    <3>2. TypeOK'
      BY <1>t, <2>3, <3>1 DEF TypeOK, HistoryType
    <3>3. WorkShape'
      BY <1>10, <1>t, <2>4, <3>1 DEF WorkShape, Settle
    <3> QED
      BY <2>3, <3>2, <3>3 DEF BoundsInv
  <2>5. CASE ~(settled + 1 < Len(batch))
    <3>1. /\ pc' = "sleeping" /\ batch' = <<>> /\ sig' = NoSig /\ outcome' = Pending /\ settled' = 0
          /\ UNCHANGED <<pending, next_id, ledger, mode, network, next_sig, epoch, accepted>>
      BY <1>10, <2>5 DEF Settle
    <3>2. TypeOK'
      BY <1>t, <1>s, <2>3, <3>1 DEF TypeOK, HistoryType
    <3>3. WorkShape'
      BY <1>t, <3>1, AnnouncerConstants DEF WorkShape
    <3> QED
      BY <2>3, <3>2, <3>3 DEF BoundsInv
  <2> QED
    BY <2>4, <2>5
<1>11. ASSUME NEW tx \in network, Land(tx)
       PROVE  BoundsInv'
  <2>1. ledger' \in Seq(Transaction)
    BY <1>11, <1>t, AppendProperties DEF Land, Execute, TypeOK
  <2>2. TypeOK'
    BY <1>11, <1>t, <2>1 DEF Land, TypeOK, queueVars, publisherVars
  <2>3. WorkShape'
    BY <1>11, <1>t DEF Land, WorkShape, queueVars, publisherVars
  <2> QED
    BY <1>11, <1>h, <2>2, <2>3 DEF BoundsInv, Land, queueVars
<1>12. ASSUME NEW tx \in network, Expire(tx)
       PROVE  BoundsInv'
  <2>1. TypeOK'
    BY <1>12, <1>t DEF Expire, TypeOK, queueVars, publisherVars
  <2>2. WorkShape'
    BY <1>12, <1>t DEF Expire, WorkShape, queueVars, publisherVars
  <2> QED
    BY <1>12, <1>h, <2>1, <2>2 DEF BoundsInv, Expire, queueVars
<1>13. CASE Restart
  <2>1. /\ pending' = <<>> /\ next_id' = 0 /\ status_order' = <<>> /\ DOMAIN statuses' = {}
        /\ pc' = "sleeping" /\ batch' = <<>> /\ sig' = NoSig /\ outcome' = Pending /\ settled' = 0
        /\ accepted' = <<>> /\ mode' \in {"publish", "collect"} /\ epoch' = epoch + 1
        /\ UNCHANGED <<ledger, network, next_sig>>
    BY <1>13 DEF Restart
  <2>2. TypeOK'
    BY <1>t, <1>s, <2>1 DEF TypeOK
  <2>3. WorkShape'
    BY <2>1, QueueCaps, AnnouncerConstants DEF WorkShape
  <2>4. Range(status_order') = {}
    BY <2>1 DEF Range
  <2>5. HistoryBounded'
    BY <2>1, <2>4, QueueCaps DEF HistoryBounded
  <2> QED
    BY <2>2, <2>3, <2>5 DEF BoundsInv
<1>14. CASE UNCHANGED vars
  BY <1>14, <1>t DEF vars, queueVars, publisherVars, BoundsInv, TypeOK, WorkShape, HistoryBounded
<1> QED
  BY <1>1, <1>2, <1>3, <1>5, <1>6, <1>7, <1>8, <1>9, <1>10, <1>11, <1>12, <1>13, <1>14 DEF Next

\* Every variable keeps its type, whatever the caps and the faults.
THEOREM TypeCorrect == Spec => []TypeOK
<1>1. BoundsInv => TypeOK
  BY DEF BoundsInv
<1> QED
  BY BoundsInit, BoundsStep, <1>1, PTL DEF Spec

\* service.rs set_status: the eviction order and the status map list the same
\* ids, each once, and never more than the cap, even where late outcomes are
\* recorded for ids the history had already evicted.
THEOREM HistoryAlwaysBounded == Spec => []HistoryBounded
<1>1. BoundsInv => HistoryBounded
  BY DEF BoundsInv
<1> QED
  BY BoundsInit, BoundsStep, <1>1, PTL DEF Spec

------------------------------------------------------------------------------
(* The queue loses and reorders nothing *)

LEMMA LengthsAreNat ==
  ASSUME TypeOK
  PROVE  /\ Len(pending) \in Nat /\ Len(batch) \in Nat
         /\ Len(accepted) \in Nat /\ Len(status_order) \in Nat
         /\ next_id \in Nat /\ settled \in Nat
BY LenProperties DEF TypeOK

LEMMA QueueInvInit == Init => QueueInv
<1> SUFFICES ASSUME Init PROVE QueueInv
  OBVIOUS
<1>1. pending = <<>> /\ batch = <<>> /\ accepted = <<>> /\ next_id = 0
  BY DEF Init, QueueInit
<1>2. IdShape
  BY <1>1 DEF IdShape, BatchStart, QueueStart
<1> QED
  BY <1>2, BoundsInit DEF QueueInv

LEMMA QueueInvStep == QueueInv /\ [Next]_vars => QueueInv'
<1> SUFFICES ASSUME QueueInv, [Next]_vars PROVE IdShape'
  BY BoundsStep DEF QueueInv
<1>t. TypeOK /\ WorkShape /\ IdShape /\ TypeOK'
  BY BoundsStep DEF QueueInv, BoundsInv
<1>n. /\ Len(pending) \in Nat /\ Len(batch) \in Nat
      /\ Len(accepted) \in Nat /\ next_id \in Nat
  BY <1>t, LengthsAreNat
\* A step that moves nothing, seen from the four variables IdShape reads.
<1>u. UNCHANGED <<pending, batch, accepted, next_id>> => IdShape'
  BY <1>t DEF IdShape, BatchStart, QueueStart
<1>1. ASSUME NEW req \in Requests, PostAnnounce(req)
      PROVE  IdShape'
  <2> DEFINE entry == ToNoteEntry(req)
  <2>1. entry \in Entry
    BY <1>1 DEF PostAnnounce, Entry
  <2>2. /\ Len(pending') = Len(pending) + 1
        /\ \A i \in 1..Len(pending) : pending'[i] = pending[i]
        /\ pending'[Len(pending) + 1] = [id |-> next_id, entry |-> entry]
        /\ next_id' = next_id + 1
    BY <1>1, <1>t, <2>1, EnqueueAppends DEF PostAnnounce, TypeOK
  <2>3. /\ Len(accepted') = Len(accepted) + 1
        /\ \A i \in 1..Len(accepted) : accepted'[i] = accepted[i]
        /\ accepted'[Len(accepted) + 1] = entry
    BY <1>1, <1>t, <2>1, AppendProperties DEF PostAnnounce, TypeOK
  <2>4. batch' = batch
    BY <1>1 DEF PostAnnounce, publisherVars
  <2> HIDE DEF entry
  <2>5. BatchStart' = BatchStart /\ QueueStart' = QueueStart
    BY <1>n, <2>2, <2>4 DEF BatchStart, QueueStart
  <2>6. /\ BatchStart \in Nat /\ QueueStart \in Nat /\ next_id = Len(accepted)
        /\ BatchStart + Len(batch) + Len(pending) = next_id
        /\ QueueStart + Len(pending) = next_id
    BY <1>n, <1>t DEF IdShape, BatchStart, QueueStart
  <2>7. ASSUME NEW i \in 1..Len(batch')
        PROVE  batch'[i].id = BatchStart' + i - 1 /\ batch'[i].entry = accepted'[BatchStart' + i]
    <3>1. i \in 1..Len(batch) /\ BatchStart + i \in 1..Len(accepted)
      BY <2>4, <2>6, <1>n
    <3> QED
      BY <1>t, <2>3, <2>4, <2>5, <3>1 DEF IdShape
  <2>8. ASSUME NEW i \in 1..Len(pending')
        PROVE  pending'[i].id = QueueStart' + i - 1 /\ pending'[i].entry = accepted'[QueueStart' + i]
    <3>1. CASE i = Len(pending) + 1
      <4>1. QueueStart + i = Len(accepted) + 1 /\ QueueStart + i - 1 = next_id
        BY <2>6, <3>1, <1>n
      <4> QED
        BY <2>2, <2>3, <2>5, <3>1, <4>1
    <3>2. CASE i # Len(pending) + 1
      <4>1. i \in 1..Len(pending) /\ QueueStart + i \in 1..Len(accepted)
        BY <2>2, <2>6, <3>2, <1>n
      <4> QED
        BY <1>t, <2>2, <2>3, <2>5, <4>1 DEF IdShape
    <3> QED
      BY <3>1, <3>2
  <2> QED
    BY <2>2, <2>3, <2>5, <2>6, <2>7, <2>8 DEF IdShape
<1>3. CASE Drain
  <2> DEFINE n == TakeLen(MaxBatch)
  <2>1. pending # <<>> /\ batch' = Taken(MaxBatch) /\ TakePending(MaxBatch)
        /\ UNCHANGED <<next_id, accepted>> /\ batch = <<>>
    BY <1>3, <1>t DEF Drain, TakePending, WorkShape
  <2>2. /\ n \in 1..Len(pending) /\ Len(batch') = n
        /\ \A i \in 1..n : batch'[i] = pending[i]
        /\ Len(pending') = Len(pending) - n
        /\ \A i \in 1..(Len(pending) - n) : pending'[i] = pending[i + n]
    BY <1>t, <2>1, TakeSplits, AnnouncerConstants DEF TypeOK
  <2> HIDE DEF n
  <2>3. BatchStart' = QueueStart /\ QueueStart' = QueueStart + n /\ BatchStart = QueueStart
    BY <1>n, <2>1, <2>2 DEF BatchStart, QueueStart
  <2>4. QueueStart \in Nat
    BY <1>n, <1>t, <2>3 DEF IdShape, QueueStart
  <2>5. ASSUME NEW i \in 1..Len(batch')
        PROVE  batch'[i].id = BatchStart' + i - 1 /\ batch'[i].entry = accepted'[BatchStart' + i]
    BY <1>n, <1>t, <2>1, <2>2, <2>3 DEF IdShape
  <2>6. ASSUME NEW i \in 1..Len(pending')
        PROVE  pending'[i].id = QueueStart' + i - 1 /\ pending'[i].entry = accepted'[QueueStart' + i]
    <3>1. /\ i \in 1..(Len(pending) - n) /\ i + n \in 1..Len(pending)
          /\ QueueStart + (i + n) = (QueueStart + n) + i
      BY <1>n, <2>2, <2>4
    <3>2. pending[i + n].id = QueueStart + (i + n) - 1 /\ pending[i + n].entry = accepted[QueueStart + (i + n)]
      BY <1>t, <3>1 DEF IdShape
    <3>3. QueueStart + (i + n) - 1 = (QueueStart + n) + i - 1
      BY <1>n, <2>2, <2>4
    <3>4. pending'[i] = pending[i + n] /\ accepted' = accepted
      BY <2>1, <2>2, <3>1
    <3> QED
      BY <2>3, <3>1, <3>2, <3>3, <3>4
  <2> QED
    BY <1>t, <2>1, <2>3, <2>4, <2>5, <2>6 DEF IdShape
<1>10. CASE Settle
  <2>1. CASE settled + 1 < Len(batch)
    BY <1>10, <1>u, <2>1 DEF Settle
  <2>2. CASE ~(settled + 1 < Len(batch))
    <3>1. batch' = <<>> /\ UNCHANGED <<pending, next_id, accepted>>
      BY <1>10, <2>2 DEF Settle
    <3>2. BatchStart' = QueueStart /\ QueueStart' = QueueStart /\ QueueStart >= 0
      BY <1>n, <1>t, <3>1 DEF BatchStart, QueueStart, IdShape
    <3> QED
      BY <1>t, <3>1, <3>2 DEF IdShape
  <2> QED
    BY <2>1, <2>2
<1>13. CASE Restart
  <2>1. pending' = <<>> /\ batch' = <<>> /\ accepted' = <<>> /\ next_id' = 0
    BY <1>13 DEF Restart
  <2> QED
    BY <2>1 DEF IdShape, BatchStart, QueueStart
<1>15. UNCHANGED <<pending, batch, accepted, next_id>>
         \/ Drain \/ Settle \/ Restart \/ \E req \in Requests : PostAnnounce(req)
  BY DEF Next, RefuseAnnounce, Send, SendRefused, ConfirmOk, ConfirmExpired, RpcFails,
         Conclude, Land, Expire, vars, queueVars, publisherVars
<1> QED
  BY <1>1, <1>3, <1>10, <1>13, <1>15, <1>u

\* The mutex hands every accepted note from handler to publisher exactly once,
\* in order, under its own id: batch and queue form an unbroken run of ids.
THEOREM FifoAlwaysIntact == Spec => []FifoIntact
<1>1. ASSUME QueueInv PROVE FifoIntact
  <2> DEFINE waiting == batch \o pending
  <2>t. TypeOK /\ IdShape
    BY <1>1 DEF QueueInv, BoundsInv
  <2>n. Len(pending) \in Nat /\ Len(batch) \in Nat /\ next_id \in Nat
    BY <2>t, LengthsAreNat
  <2>1. /\ Len(waiting) = Len(batch) + Len(pending)
        /\ \A i \in 1..(Len(batch) + Len(pending)) :
             waiting[i] = IF i <= Len(batch) THEN batch[i] ELSE pending[i - Len(batch)]
    BY <2>t, ConcatProperties DEF TypeOK
  <2> HIDE DEF waiting
  <2>2. next_id - Len(waiting) = BatchStart /\ BatchStart \in Nat /\ QueueStart = BatchStart + Len(batch)
    BY <2>n, <2>t, <2>1 DEF BatchStart, QueueStart, IdShape
  <2>3. ASSUME NEW i \in 1..Len(waiting)
        PROVE  waiting[i].id = BatchStart + i - 1 /\ waiting[i].entry = accepted[BatchStart + i]
    <3>1. CASE i <= Len(batch)
      BY <2>n, <2>t, <2>1, <3>1 DEF IdShape
    <3>2. CASE ~(i <= Len(batch))
      <4>1. /\ i - Len(batch) \in 1..Len(pending)
            /\ QueueStart + (i - Len(batch)) = BatchStart + i
        BY <2>n, <2>1, <2>2, <3>2
      <4>2. waiting[i] = pending[i - Len(batch)]
        BY <2>n, <2>1, <3>2
      <4> DEFINE j == i - Len(batch)
      <4>3. pending[j].id = QueueStart + j - 1 /\ pending[j].entry = accepted[QueueStart + j]
        BY <2>t, <4>1 DEF IdShape
      <4>4. QueueStart + j - 1 = BatchStart + i - 1
        BY <2>n, <2>2
      <4> QED
        BY <4>1, <4>2, <4>3, <4>4
    <3> QED
      BY <3>1, <3>2
  <2> QED
    BY <2>2, <2>3 DEF FifoIntact, waiting
<1> QED
  BY QueueInvInit, QueueInvStep, <1>1, PTL DEF Spec

------------------------------------------------------------------------------
(* The status history, when the caps leave room for the work in hand *)

\* An interval that loses e numbers at its start and gains the next one.
LEMMA WindowSlides ==
  ASSUME NEW a \in Int, NEW n \in Int, NEW e \in Nat, a + e <= n
  PROVE  ((a..(n - 1)) \ (a..(a + e - 1))) \cup {n} = (a + e)..n
OBVIOUS

LEMMA HistoryInvInit == Init => HistoryInv
<1> SUFFICES ASSUME Init PROVE HistoryInv
  OBVIOUS
<1>1. status_order = <<>> /\ next_id = 0 /\ DOMAIN statuses = {}
  BY DEF Init, QueueInit
<1>2. HistoryShape /\ StatusShape
  BY <1>1, QueueCaps DEF HistoryShape, StatusShape
<1> QED
  BY <1>2, QueueInvInit DEF HistoryInv

\* The record the publisher writes next is still there, and says "pending".
LEMMA NextToSettleIsRetained ==
  ASSUME CapsFit, HistoryInv, pc = "settling"
  PROVE  /\ settled + 1 \in 1..Len(batch)
         /\ batch[settled + 1].id = BatchStart + settled
         /\ BatchStart + settled \in DOMAIN statuses
<1>t. TypeOK /\ WorkShape /\ IdShape /\ HistoryShape
  BY DEF HistoryInv, QueueInv, BoundsInv
<1>n. /\ Len(pending) \in Nat /\ Len(batch) \in Nat /\ next_id \in Nat
      /\ settled \in Nat /\ Len(status_order) \in Nat
  BY <1>t, LengthsAreNat
<1>1. settled + 1 \in 1..Len(batch)
  BY <1>n, <1>t DEF WorkShape
<1>2. batch[settled + 1].id = BatchStart + settled
  <2>1. batch[settled + 1].id = BatchStart + (settled + 1) - 1
    BY <1>t, <1>1 DEF IdShape
  <2> QED
    BY <2>1, <1>n DEF BatchStart
<1>3. BatchStart + settled \in (next_id - Len(status_order))..(next_id - 1)
  <2>1. Len(pending) + Len(batch) <= MaxStatuses
    BY <1>n, <1>t, QueueCaps, AnnouncerConstants DEF CapsFit, WorkShape
  <2>2. BatchStart \in Int /\ BatchStart >= 0
    BY <1>n, <1>t DEF BatchStart, IdShape
  <2>3. BatchStart + settled <= next_id - 1
    BY <1>n, <1>1 DEF BatchStart
  <2>4. BatchStart + settled >= next_id - Len(status_order)
    BY <1>n, <1>t, <2>1, <2>2 DEF BatchStart, HistoryShape
  <2> QED
    BY <1>n, <2>2, <2>3, <2>4
<1> QED
  BY <1>1, <1>2, <1>3, <1>t DEF HistoryShape

LEMMA HistoryInvStep ==
  ASSUME CapsFit
  PROVE  HistoryInv /\ [Next]_vars => HistoryInv'
<1> SUFFICES ASSUME HistoryInv, [Next]_vars PROVE HistoryShape' /\ StatusShape'
  BY QueueInvStep DEF HistoryInv
<1>t. TypeOK /\ WorkShape /\ HistoryBounded /\ IdShape /\ HistoryShape /\ StatusShape
  BY DEF HistoryInv, QueueInv, BoundsInv
<1>n. /\ Len(pending) \in Nat /\ Len(batch) \in Nat /\ next_id \in Nat
      /\ settled \in Nat /\ Len(status_order) \in Nat
  BY <1>t, LengthsAreNat
<1>b. BatchStart \in Int
  BY <1>n DEF BatchStart
<1>h. UNCHANGED <<status_order, statuses, next_id>> => HistoryShape'
  BY <1>t DEF HistoryShape
<1>s. UNCHANGED <<statuses>> /\ BatchStart' + settled' = BatchStart + settled => StatusShape'
  BY <1>t DEF StatusShape
<1>1. ASSUME NEW req \in Requests, PostAnnounce(req)
      PROVE  HistoryShape' /\ StatusShape'
  <2> DEFINE e == IF Len(status_order) = MaxStatuses THEN 1 ELSE 0
             L == Len(status_order)
  <2>1. ToNoteEntry(req) \in Entry
    BY <1>1 DEF PostAnnounce, Entry
  <2>2. /\ Len(pending') = Len(pending) + 1
        /\ next_id' = next_id + 1
        /\ SetStatus(next_id, Pending)
    BY <1>1, <1>t, <2>1, EnqueueAppends DEF PostAnnounce, TypeOK
  <2>3. next_id \notin DOMAIN statuses
    BY <1>n, <1>t DEF HistoryShape
  <2>4. /\ Len(status_order') = L + 1 - e
        /\ \A i \in 1..(Len(status_order') - 1) : status_order'[i] = status_order[i + e]
        /\ status_order'[Len(status_order')] = next_id
        /\ DOMAIN statuses' = (DOMAIN statuses \ {status_order[i] : i \in 1..e}) \cup {next_id}
        /\ \A k \in DOMAIN statuses' : statuses'[k] = IF k = next_id THEN Pending ELSE statuses[k]
    BY <1>t, <1>n, <2>2, <2>3, SetStatusNew DEF TypeOK, HistoryShape
  <2>e. e \in {0, 1} /\ e <= L /\ (e = 1 <=> L = MaxStatuses) /\ L <= MaxStatuses /\ L \in Nat
    BY <1>n, <1>t, QueueCaps DEF HistoryShape
  <2> HIDE DEF e, L
  <2>f. \A i \in 1..L : status_order[i] = next_id - L + i - 1
    BY <1>t DEF HistoryShape, L
  <2>5. ASSUME NEW i \in 1..Len(status_order')
        PROVE  status_order'[i] = next_id' - Len(status_order') + i - 1
    <3>1. CASE i = Len(status_order')
      BY <1>n, <2>2, <2>4, <2>e, <3>1
    <3>2. CASE i # Len(status_order')
      <4>1. i \in 1..(Len(status_order') - 1) /\ i + e \in 1..L
        BY <2>4, <2>e, <3>2
      <4>2. status_order'[i] = next_id - L + (i + e) - 1
        BY <2>4, <2>f, <4>1
      <4> QED
        BY <1>n, <2>2, <2>4, <2>e, <4>1, <4>2
    <3> QED
      BY <3>1, <3>2
  <2>6. {status_order[i] : i \in 1..e} = (next_id - L)..(next_id - L + e - 1)
    <3>1. CASE e = 0
      BY <1>n, <2>e, <3>1
    <3>2. CASE e = 1
      <4>1. status_order[1] = next_id - L
        BY <1>n, <2>e, <2>f, <3>2
      <4>2. {status_order[i] : i \in 1..e} = {status_order[1]}
        BY <3>2
      <4> QED
        BY <1>n, <2>e, <3>2, <4>1, <4>2
    <3> QED
      BY <2>e, <3>1, <3>2
  <2>7. DOMAIN statuses' = (next_id' - Len(status_order'))..(next_id' - 1)
    <3>1. DOMAIN statuses = (next_id - L)..(next_id - 1)
      BY <1>t DEF HistoryShape, L
    <3>2. next_id' - Len(status_order') = next_id - L + e /\ next_id' - 1 = next_id
      BY <1>n, <2>2, <2>4, <2>e
    <3> DEFINE a == next_id - L
    <3>3. a \in Int /\ e \in Nat /\ a + e <= next_id
      BY <1>n, <2>e
    <3>4. DOMAIN statuses' = ((a..(next_id - 1)) \ (a..(a + e - 1))) \cup {next_id}
      BY <2>4, <2>6, <3>1
    <3> HIDE DEF a
    <3>5. ((a..(next_id - 1)) \ (a..(a + e - 1))) \cup {next_id} = (a + e)..next_id
      BY <1>n, <3>3, WindowSlides
    <3> QED
      BY <3>2, <3>4, <3>5 DEF a
  <2>8. \/ Len(status_order') = next_id'
        \/ Len(status_order') = MaxStatuses /\ MaxStatuses <= next_id'
    BY <1>n, <1>t, <2>2, <2>4, <2>e, QueueCaps DEF HistoryShape, L
  <2>9. Len(status_order') <= MaxStatuses
    BY <2>4, <2>e, QueueCaps
  <2>10. HistoryShape'
    BY <2>5, <2>7, <2>8, <2>9 DEF HistoryShape
  <2>11. /\ settled = 0 /\ settled' = 0 /\ BatchStart' = BatchStart
         /\ next_id >= BatchStart
    BY <1>1, <1>n, <1>t, <2>2 DEF PostAnnounce, LockFree, WorkShape, publisherVars, BatchStart
  <2>12. StatusShape'
    <3> SUFFICES ASSUME NEW id \in DOMAIN statuses'
                 PROVE  statuses'[id].state = "pending" <=> id >= BatchStart + 0
      BY <1>b, <2>11 DEF StatusShape
    <3>1. CASE id = next_id
      BY <1>b, <2>4, <2>11, <3>1 DEF Pending
    <3>2. CASE id # next_id
      BY <1>t, <1>b, <2>4, <2>11, <3>2 DEF StatusShape
    <3> QED
      BY <3>1, <3>2
  <2> QED
    BY <2>10, <2>12
<1>3. CASE Drain
  <2>1. /\ pending # <<>> /\ batch' = Taken(MaxBatch) /\ TakePending(MaxBatch)
        /\ UNCHANGED <<next_id, status_order, statuses, settled>> /\ Len(batch) = 0
    BY <1>3, <1>t DEF Drain, TakePending, WorkShape
  <2>2. LET n == TakeLen(MaxBatch)
        IN  n \in 1..Len(pending) /\ Len(batch') = n /\ Len(pending') = Len(pending) - n
    BY <1>t, <2>1, TakeSplits, AnnouncerConstants DEF TypeOK
  <2>3. BatchStart' = BatchStart
    BY <1>n, <2>1, <2>2 DEF BatchStart
  <2> QED
    BY <1>h, <1>s, <2>1, <2>3
<1>10. CASE Settle
  <2> DEFINE id == BatchStart + settled
  <2>1. /\ settled + 1 \in 1..Len(batch) /\ batch[settled + 1].id = id /\ id \in DOMAIN statuses
    BY <1>10, NextToSettleIsRetained DEF Settle
  <2>2. /\ status_order' = status_order /\ next_id' = next_id
        /\ DOMAIN statuses' = DOMAIN statuses
        /\ \A k \in DOMAIN statuses : statuses'[k] = IF k = id THEN outcome ELSE statuses[k]
    BY <1>10, <2>1 DEF Settle, SetStatus
  <2>3. BatchStart' + settled' = id + 1
    <3>1. CASE settled + 1 < Len(batch)
      <4>1. settled' = settled + 1 /\ UNCHANGED <<batch, pending, next_id>>
        BY <1>10, <3>1 DEF Settle
      <4> QED
        BY <1>n, <4>1 DEF BatchStart
    <3>2. CASE ~(settled + 1 < Len(batch))
      <4>1. settled' = 0 /\ batch' = <<>> /\ UNCHANGED <<pending, next_id>>
        BY <1>10, <3>2 DEF Settle
      <4>2. Len(batch) = settled + 1
        BY <1>n, <2>1, <3>2
      <4> QED
        BY <1>n, <4>1, <4>2 DEF BatchStart
    <3> QED
      BY <3>1, <3>2
  <2>4. outcome.state # "pending"
    BY <1>10, <1>t DEF Settle, WorkShape
  <2>5. StatusShape'
    <3> SUFFICES ASSUME NEW k \in DOMAIN statuses
                 PROVE  statuses'[k].state = "pending" <=> k >= id + 1
      BY <2>2, <2>3 DEF StatusShape
    <3>1. k \in Nat /\ id \in Int
      BY <1>t, <1>n, <1>b DEF TypeOK
    <3>2. CASE k = id
      BY <2>2, <2>4, <3>1, <3>2
    <3>3. CASE k # id
      <4>1. statuses[k].state = "pending" <=> k >= id
        BY <1>t DEF StatusShape
      <4> QED
        BY <2>2, <3>1, <3>3, <4>1
    <3> QED
      BY <3>2, <3>3
  <2>6. HistoryShape'
    BY <1>t, <2>2 DEF HistoryShape
  <2> QED
    BY <2>5, <2>6
<1>13. CASE Restart
  <2>1. next_id' = 0 /\ status_order' = <<>> /\ DOMAIN statuses' = {}
    BY <1>13 DEF Restart
  <2> QED
    BY <2>1, QueueCaps DEF HistoryShape, StatusShape
<1>14. UNCHANGED <<statuses, status_order, next_id, pending, batch, settled>>
         => HistoryShape' /\ StatusShape'
  BY <1>h, <1>s DEF BatchStart
<1>15. UNCHANGED <<statuses, status_order, next_id, pending, batch, settled>>
         \/ Drain \/ Settle \/ Restart \/ \E req \in Requests : PostAnnounce(req)
  BY DEF Next, RefuseAnnounce, Send, SendRefused, ConfirmOk, ConfirmExpired, RpcFails,
         Conclude, Land, Expire, vars, queueVars, publisherVars
<1> QED
  BY <1>1, <1>3, <1>10, <1>13, <1>14, <1>15

LEMMA UnresolvedIsAnInterval ==
  ASSUME QueueInv
  PROVE  Unresolved = (BatchStart + settled)..(next_id - 1)
<1>t. TypeOK /\ WorkShape /\ IdShape
  BY DEF QueueInv, BoundsInv
<1>n. Len(pending) \in Nat /\ Len(batch) \in Nat /\ next_id \in Nat /\ settled \in Nat
  BY <1>t, LengthsAreNat
<1>s. settled <= Len(batch)
  BY <1>n, <1>t DEF WorkShape
<1>1. /\ BatchStart \in Int /\ QueueStart = BatchStart + Len(batch)
      /\ next_id = QueueStart + Len(pending)
  BY <1>n DEF BatchStart, QueueStart
<1>2. ASSUME NEW id \in Unresolved
      PROVE  id \in (BatchStart + settled)..(next_id - 1)
  <2>1. CASE \E i \in 1..Len(pending) : id = pending[i].id
    <3>1. PICK i \in 1..Len(pending) : id = pending[i].id
      BY <2>1
    <3>2. id = QueueStart + i - 1
      BY <1>t, <3>1 DEF IdShape
    <3> QED
      BY <1>n, <1>s, <1>1, <3>2
  <2>2. CASE \E i \in (settled + 1)..Len(batch) : id = batch[i].id
    <3>1. PICK i \in (settled + 1)..Len(batch) : id = batch[i].id
      BY <2>2
    <3>2. i \in 1..Len(batch)
      BY <1>n
    <3>3. id = BatchStart + i - 1
      BY <1>t, <3>1, <3>2 DEF IdShape
    <3> QED
      BY <1>n, <1>s, <1>1, <3>3
  <2> QED
    BY <2>1, <2>2 DEF Unresolved
<1>3. ASSUME NEW id \in (BatchStart + settled)..(next_id - 1)
      PROVE  id \in Unresolved
  <2>1. CASE id >= QueueStart
    <3> DEFINE i == id - QueueStart + 1
    <3>1. i \in 1..Len(pending) /\ id = QueueStart + i - 1
      BY <1>n, <1>1, <2>1
    <3>2. pending[i].id = id
      BY <1>t, <3>1 DEF IdShape
    <3> QED
      BY <3>1, <3>2 DEF Unresolved
  <2>2. CASE ~(id >= QueueStart)
    <3> DEFINE i == id - BatchStart + 1
    <3>1. i \in (settled + 1)..Len(batch) /\ i \in 1..Len(batch) /\ id = BatchStart + i - 1
      BY <1>n, <1>1, <2>2
    <3>2. batch[i].id = id
      BY <1>t, <3>1 DEF IdShape
    <3> QED
      BY <3>1, <3>2 DEF Unresolved
  <2> QED
    BY <2>1, <2>2
<1> QED
  BY <1>2, <1>3

\* service.rs keeps a separate cap on statuses: as long as it is at least the
\* queue's cap plus one batch, an accepted note can always be polled and says
\* "pending" exactly until the publisher records its outcome.
THEOREM PendingUntilResolved ==
  ASSUME CapsFit
  PROVE  Spec => []PendingIffUnresolved
<1>1. ASSUME HistoryInv PROVE PendingIffUnresolved
  <2>t. TypeOK /\ WorkShape /\ IdShape /\ HistoryShape /\ StatusShape /\ QueueInv
    BY <1>1 DEF HistoryInv, QueueInv, BoundsInv
  <2>n. /\ Len(pending) \in Nat /\ Len(batch) \in Nat /\ next_id \in Nat
        /\ settled \in Nat /\ Len(status_order) \in Nat
    BY <2>t, LengthsAreNat
  <2>u. Unresolved = (BatchStart + settled)..(next_id - 1)
    BY <2>t, UnresolvedIsAnInterval
  <2>1. Len(pending) + Len(batch) <= MaxStatuses
    BY <2>n, <2>t, QueueCaps, AnnouncerConstants DEF CapsFit, WorkShape
  <2>2. BatchStart \in Int /\ BatchStart >= 0 /\ BatchStart >= next_id - Len(status_order)
    BY <2>n, <2>t, <2>1 DEF BatchStart, IdShape, HistoryShape
  <2>3. \A id \in Unresolved : id \in DOMAIN statuses /\ id >= BatchStart + settled
    BY <2>n, <2>t, <2>u, <2>2 DEF HistoryShape
  <2>4. \A id \in DOMAIN statuses \ Unresolved : ~(id >= BatchStart + settled)
    BY <2>n, <2>t, <2>u, <2>2 DEF HistoryShape
  <2> QED
    BY <2>t, <2>3, <2>4 DEF PendingIffUnresolved, StatusShape, Status
<1> QED
  BY HistoryInvInit, HistoryInvStep, <1>1, PTL DEF Spec

------------------------------------------------------------------------------
(* What a step may never do to the history *)

\* main.rs settles a note once: no later batch, and no other note of the same
\* batch, overwrites an outcome a client may have read.
THEOREM OutcomeStaysFinal ==
  ASSUME CapsFit
  PROVE  Spec => OutcomeIsFinal
<1>1. ASSUME HistoryInv, [Next]_vars, epoch' = epoch,
             NEW id \in DOMAIN statuses, Status(id) # "pending", id \in DOMAIN statuses'
      PROVE  statuses'[id] = statuses[id]
  <2>t. TypeOK /\ HistoryShape /\ StatusShape
    BY <1>1 DEF HistoryInv, QueueInv, BoundsInv
  <2>n. next_id \in Nat /\ Len(status_order) \in Nat /\ id # next_id
    BY <2>t, LengthsAreNat DEF HistoryShape
  <2>1. ASSUME NEW req \in Requests, PostAnnounce(req)
        PROVE  statuses'[id] = statuses[id]
    <3>1. SetStatus(next_id, Pending)
      BY <2>1 DEF PostAnnounce, Enqueue
    <3> QED
      BY <1>1, <2>n, <3>1 DEF SetStatus
  <2>2. CASE Settle
    <3>1. /\ batch[settled + 1].id = BatchStart + settled
          /\ BatchStart + settled \in DOMAIN statuses
      BY <1>1, <2>2, NextToSettleIsRetained DEF Settle
    <3>2. id # BatchStart + settled
      <4> SUFFICES ASSUME id = BatchStart + settled PROVE FALSE
        OBVIOUS
      <4>1. BatchStart + settled \in Nat
        BY <2>t, <3>1 DEF TypeOK
      <4> QED
        BY <1>1, <2>t, <4>1 DEF StatusShape, Status
    <3> QED
      BY <1>1, <2>2, <3>1, <3>2 DEF Settle, SetStatus
  <2>3. CASE Restart
    BY <1>1, <2>3, <2>t DEF Restart, TypeOK
  <2>4. CASE UNCHANGED statuses
    BY <2>4
  <2> QED
    BY <1>1, <2>1, <2>2, <2>3, <2>4
       DEF Next, RefuseAnnounce, Drain, TakePending, Send, SendRefused, ConfirmOk, ConfirmExpired,
           RpcFails, Conclude, Land, Expire, vars, queueVars
<1>2. HistoryInv /\ [Next]_vars =>
        [\A id \in DOMAIN statuses :
           epoch' = epoch /\ Status(id) # "pending" /\ id \in DOMAIN statuses'
             => statuses'[id] = statuses[id]]_vars
  BY <1>1
<1> QED
  BY HistoryInvInit, HistoryInvStep, <1>2, PTL DEF Spec, OutcomeIsFinal

\* What a step that is not a crash removes from the history.
LEMMA ForgetsStep ==
  ASSUME CapsFit, HistoryInv, [Next]_vars, epoch' = epoch,
         NEW id \in DOMAIN statuses \ DOMAIN statuses'
  PROVE  Status(id) # "pending" /\ \A kept \in DOMAIN statuses' : id < kept
<1> DEFINE L == Len(status_order)
<1>t. TypeOK /\ WorkShape /\ HistoryShape /\ StatusShape
  BY DEF HistoryInv, QueueInv, BoundsInv
<1>n. /\ Len(pending) \in Nat /\ Len(batch) \in Nat /\ next_id \in Nat
      /\ settled \in Nat /\ L \in Nat
  BY <1>t, LengthsAreNat
<1>1. ASSUME NEW req \in Requests, PostAnnounce(req)
      PROVE  Status(id) # "pending" /\ \A kept \in DOMAIN statuses' : id < kept
  <2>1. SetStatus(next_id, Pending) /\ Len(pending) < MaxPending
    BY <1>1, <1>n, QueueCaps DEF PostAnnounce, Enqueue, QueueFull
  <2>2. next_id \notin DOMAIN statuses
    BY <1>n, <1>t DEF HistoryShape
  <2> DEFINE e == IF L = MaxStatuses THEN 1 ELSE 0
  <2>3. DOMAIN statuses' = (DOMAIN statuses \ {status_order[i] : i \in 1..e}) \cup {next_id}
    BY <1>t, <1>n, <2>1, <2>2, SetStatusNew DEF TypeOK, HistoryShape
  <2>4. id \in {status_order[i] : i \in 1..e}
    BY <2>3
  <2>5. L = MaxStatuses /\ id = status_order[1]
    BY <2>4
  <2>6. id = next_id - L
    BY <1>n, <1>t, <2>5, QueueCaps DEF HistoryShape
  <2>7. \A kept \in DOMAIN statuses' : kept # id /\ kept \in (next_id - L)..next_id
    BY <1>n, <1>t, <2>3 DEF HistoryShape
  <2>8. ~(id >= BatchStart + settled)
    BY <1>n, <1>t, <2>1, <2>5, <2>6, QueueCaps, AnnouncerConstants
       DEF CapsFit, WorkShape, BatchStart
  <2> QED
    BY <1>n, <1>t, <2>6, <2>7, <2>8 DEF StatusShape, Status
<1>2. CASE Settle
  <2>1. /\ batch[settled + 1].id = BatchStart + settled
        /\ BatchStart + settled \in DOMAIN statuses
    BY <1>2, NextToSettleIsRetained DEF Settle
  <2> QED
    BY <1>2, <2>1 DEF Settle, SetStatus
<1>3. CASE Restart
  BY <1>3, <1>t DEF Restart, TypeOK
<1>4. CASE UNCHANGED statuses
  BY <1>4
<1> QED
  BY <1>1, <1>2, <1>3, <1>4
     DEF Next, RefuseAnnounce, Drain, TakePending, Send, SendRefused, ConfirmOk, ConfirmExpired,
         RpcFails, Conclude, Land, Expire, vars, queueVars

\* service.rs evicts while it enqueues; the record it loses is the oldest one,
\* and its note has been settled.
THEOREM OldestResolvedForgottenFirst ==
  ASSUME CapsFit
  PROVE  Spec => ForgetsOldestResolved
<1>1. HistoryInv /\ [Next]_vars =>
        [epoch' = epoch =>
           \A id \in DOMAIN statuses \ DOMAIN statuses' :
             /\ Status(id) # "pending"
             /\ \A kept \in DOMAIN statuses' : id < kept]_vars
  BY ForgetsStep
<1> QED
  BY HistoryInvInit, HistoryInvStep, <1>1, PTL DEF Spec, ForgetsOldestResolved
==============================================================================
