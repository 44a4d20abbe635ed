---------------------------- MODULE PublishProofs ----------------------------
(***************************************************************************)
(* Theorems about what Announcer says of the chain, and does to it, for    *)
(* every value of its constants, and that it implements AnnounceService.   *)
(***************************************************************************)
EXTENDS AnnouncerProofs, WellFoundedInduction

------------------------------------------------------------------------------
(* Small facts *)

\* What set_status writes, whether or not it evicts.
LEMMA SetStatusWrites ==
  ASSUME NEW id, NEW status, SetStatus(id, status)
  PROVE  /\ DOMAIN statuses' \subseteq DOMAIN statuses \cup {id}
         /\ \A k \in DOMAIN statuses' :
              statuses'[k] = IF k = id THEN status ELSE statuses[k]
BY DEF SetStatus

\* What has landed is what stands somewhere in the ledger.
LEMMA LandedIsLedger ==
  ASSUME ledger \in Seq(Transaction)
  PROVE  /\ Landed = {ledger[n] : n \in 1..Len(ledger)}
         /\ Landed \subseteq Transaction
         /\ Len(ledger) \in Nat
<1>1. Landed = {ledger[n] : n \in 1..Len(ledger)}
  BY RangeEquality DEF Landed
<1>2. \A n \in 1..Len(ledger) : ledger[n] \in Transaction
  BY ElementOfSeq
<1> QED
  BY <1>1, <1>2, LenProperties

\* A transaction that lands joins the others at the end.
LEMMA LandingAppends ==
  ASSUME ledger \in Seq(Transaction), NEW tx \in Transaction, Execute(tx)
  PROVE  /\ Len(ledger') = Len(ledger) + 1
         /\ \A n \in 1..Len(ledger) : ledger'[n] = ledger[n]
         /\ ledger'[Len(ledger) + 1] = tx
         /\ Landed' = Landed \cup {tx}
<1>1. /\ ledger' \in Seq(Transaction)
      /\ Len(ledger') = Len(ledger) + 1
      /\ \A n \in 1..Len(ledger) : ledger'[n] = ledger[n]
      /\ ledger'[Len(ledger) + 1] = tx
  BY AppendProperties DEF Execute
<1>2. Landed' = {ledger'[n] : n \in 1..Len(ledger')}
  BY <1>1, RangeEquality DEF Landed
<1>3. Len(ledger) \in Nat /\ Landed = {ledger[n] : n \in 1..Len(ledger)}
  BY LandedIsLedger
<1>4. 1..Len(ledger') = 1..Len(ledger) \cup {Len(ledger) + 1}
  BY <1>1, <1>3
<1> QED
  BY <1>1, <1>2, <1>3, <1>4

------------------------------------------------------------------------------
(* PublishInv is inductive *)

LEMMA PublishInvInit == Init => PublishInv
<1> SUFFICES ASSUME Init PROVE PublishInv
  OBVIOUS
<1>1. /\ ledger = <<>> /\ network = {} /\ DOMAIN statuses = {} /\ next_sig = 1
      /\ pc = "sleeping" /\ sig = NoSig
  BY DEF Init, QueueInit
<1>2. ledger \in Seq(Transaction) /\ Len(ledger) = 0
  BY <1>1, EmptySeq
<1>3. Landed = {}
  BY <1>2, LandedIsLedger
<1>4. Sent = {}
  BY <1>1, <1>3 DEF Sent
<1>5. SignatureShape /\ SentShape /\ SentOnce /\ OutcomeShape /\ ConfirmedIsPublished
  BY <1>1, <1>2, <1>3, <1>4
     DEF SignatureShape, SentShape, SentOnce, OutcomeShape, ConfirmedIsPublished, NoSig
<1> QED
  BY <1>5, QueueInvInit DEF PublishInv

LEMMA PublishInvStep == PublishInv /\ [Next]_vars => PublishInv'
<1> SUFFICES ASSUME PublishInv, [Next]_vars
             PROVE  SignatureShape' /\ SentShape' /\ SentOnce' /\ OutcomeShape'
                      /\ ConfirmedIsPublished'
  BY QueueInvStep DEF PublishInv
<1>p. SignatureShape /\ SentShape /\ SentOnce /\ OutcomeShape /\ ConfirmedIsPublished
  BY DEF PublishInv
<1>t. TypeOK /\ WorkShape /\ IdShape
  BY DEF PublishInv, QueueInv, BoundsInv
<1>n. /\ Len(pending) \in Nat /\ Len(batch) \in Nat /\ next_id \in Nat
      /\ Len(accepted) = next_id /\ settled \in Nat /\ next_sig \in Nat /\ epoch \in Nat
      /\ BatchStart \in Nat
  BY <1>t, LengthsAreNat DEF IdShape, BatchStart, TypeOK
<1>l. Landed \subseteq Transaction /\ Sent \subseteq Transaction /\ Len(ledger) \in Nat
  BY <1>t, LandedIsLedger DEF TypeOK, Sent
<1>i. \A tx \in Sent : \A i \in 1..Len(tx.batch) : tx.batch[i].id \in Nat
  <2> SUFFICES ASSUME NEW tx \in Sent, NEW i \in 1..Len(tx.batch)
               PROVE  tx.batch[i].id \in Nat
    OBVIOUS
  <2>1. tx.batch \in Seq(Item)
    BY <1>l DEF Transaction
  <2>2. tx.batch[i] \in Item
    BY <2>1, ElementOfSeq
  <2> QED
    BY <2>2 DEF Item
<1>d. DOMAIN statuses \subseteq Nat /\ \A id \in DOMAIN statuses : id < next_id
  BY <1>t, <1>p DEF TypeOK, OutcomeShape
\* Steps that leave the chain, the network and the signatures alone.
<1>g. ASSUME UNCHANGED <<ledger, network, next_sig, epoch>>
      PROVE  /\ Sent' = Sent /\ Landed' = Landed /\ SentOnce'
             /\ (/\ pc' \in {"sleeping", "publishing"} => sig' = NoSig
                 /\ sig' < next_sig) => SignatureShape'
  <2>1. Sent' = Sent /\ Landed' = Landed
    BY <1>g DEF Sent, Landed, Range
  <2>2. SentOnce'
    BY <1>p, <2>1 DEF SentOnce
  <2>3. (/\ pc' \in {"sleeping", "publishing"} => sig' = NoSig
         /\ sig' < next_sig) => SignatureShape'
    BY <1>p, <1>g, <2>1 DEF SignatureShape
  <2> QED
    BY <2>1, <2>2, <2>3
<1>1. ASSUME NEW req \in Requests, PostAnnounce(req)
      PROVE  SignatureShape' /\ SentShape' /\ SentOnce' /\ OutcomeShape'
               /\ ConfirmedIsPublished'
  <2>1. ToNoteEntry(req) \in Entry
    BY <1>1 DEF PostAnnounce, Entry
  <2>2. /\ Len(pending') = Len(pending) + 1 /\ next_id' = next_id + 1
        /\ SetStatus(next_id, Pending)
    BY <1>1, <1>t, <2>1, EnqueueAppends DEF PostAnnounce, TypeOK
  <2>3. /\ UNCHANGED <<pc, batch, sig, outcome, ledger, network, next_sig, epoch>>
        /\ pc # "settling"
    BY <1>1 DEF PostAnnounce, publisherVars, LockFree
  <2>4. \A i \in 1..Len(accepted) : accepted'[i] = accepted[i]
    BY <1>1, <1>t, <2>1, AppendProperties DEF PostAnnounce, TypeOK
  <2>5. BatchStart' = BatchStart
    BY <1>n, <2>2, <2>3 DEF BatchStart
  <2>6. Sent' = Sent /\ Landed' = Landed /\ SentOnce' /\ SignatureShape'
    BY <1>g, <1>p, <2>3 DEF SignatureShape
  <2>7. \A id \in Nat : id < next_id => id + 1 \in 1..Len(accepted)
    BY <1>n
  <2>8. SentShape'
    <3>1. \A tx \in Sent : Own(tx)' <=> Own(tx)
      BY <2>3 DEF Own
    <3>2. \A tx \in Sent' : Own(tx)' => tx.epoch = epoch' /\ tx.batch = batch'
      BY <1>p, <2>3, <2>6, <3>1 DEF SentShape
    <3>3. ASSUME NEW tx \in Sent, tx.epoch = epoch, NEW i \in 1..Len(tx.batch)
          PROVE  /\ tx.batch[i].id < next_id'
                 /\ tx.batch[i].entry = accepted'[tx.batch[i].id + 1]
                 /\ Own(tx) \/ tx.batch[i].id < BatchStart'
      <4>1. /\ tx.batch[i].id < next_id
            /\ tx.batch[i].entry = accepted[tx.batch[i].id + 1]
            /\ Own(tx) \/ tx.batch[i].id < BatchStart
        BY <1>p, <3>3 DEF SentShape
      <4>2. tx.batch[i].id + 1 \in 1..Len(accepted)
        BY <1>i, <2>7, <4>1
      <4> QED
        BY <1>n, <1>i, <2>2, <2>4, <2>5, <4>1, <4>2
    <3> QED
      BY <2>3, <2>6, <3>1, <3>2, <3>3 DEF SentShape
  <2>9. OutcomeShape'
    BY <1>n, <1>d, <2>2, <2>3, SetStatusWrites DEF OutcomeShape
  <2>10. ConfirmedIsPublished'
    <3> SUFFICES ASSUME NEW id \in DOMAIN statuses', statuses'[id].state = "confirmed"
                 PROVE  \E tx \in Landed :
                          /\ tx.sig = statuses'[id].sig /\ tx.epoch = epoch
                          /\ \E i \in 1..Len(tx.batch) :
                               tx.batch[i].id = id /\ tx.batch[i].entry = accepted'[id + 1]
      BY <2>3, <2>6 DEF ConfirmedIsPublished, Status
    <3>1. id # next_id /\ id \in DOMAIN statuses /\ statuses'[id] = statuses[id]
      BY <2>2, SetStatusWrites DEF Pending
    <3>2. accepted'[id + 1] = accepted[id + 1]
      BY <1>d, <2>4, <2>7, <3>1
    <3> QED
      BY <1>p, <3>1, <3>2 DEF ConfirmedIsPublished, Status
  <2> QED
    BY <2>6, <2>8, <2>9, <2>10
<1>3. CASE Drain
  <2>1. /\ pending # <<>> /\ batch' = Taken(MaxBatch) /\ TakePending(MaxBatch)
        /\ UNCHANGED <<next_id, statuses, sig, outcome, ledger, network, next_sig, epoch, accepted>>
        /\ Len(batch) = 0 /\ pc = "sleeping" /\ pc' = "publishing"
    BY <1>3, <1>t DEF Drain, TakePending, WorkShape
  <2>2. LET n == TakeLen(MaxBatch)
        IN  n \in 1..Len(pending) /\ Len(batch') = n /\ Len(pending') = Len(pending) - n
    BY <1>t, <2>1, TakeSplits, AnnouncerConstants DEF TypeOK
  <2>3. BatchStart' = BatchStart
    BY <1>n, <2>1, <2>2 DEF BatchStart
  <2>4. Sent' = Sent /\ Landed' = Landed /\ SentOnce' /\ SignatureShape'
    BY <1>g, <1>p, <2>1 DEF SignatureShape
  <2>5. SentShape'
    BY <1>p, <2>1, <2>3, <2>4 DEF SentShape, Own
  <2>6. OutcomeShape' /\ ConfirmedIsPublished'
    BY <1>p, <2>1, <2>4 DEF OutcomeShape, ConfirmedIsPublished, Status
  <2> QED
    BY <2>4, <2>5, <2>6
<1>4. CASE Send
  <2>1. /\ UNCHANGED <<pending, next_id, statuses, batch, outcome, ledger, epoch, accepted>>
        /\ pc = "publishing" /\ pc' = "confirming"
        /\ sig' = next_sig /\ next_sig' = next_sig + 1
    BY <1>4 DEF Send, queueVars
  <2>0. PICK new : new = [sig |-> next_sig, epoch |-> epoch, batch |-> batch]
    OBVIOUS
  <2>3. /\ network' = network \cup {new}
        /\ new.sig = next_sig /\ new.epoch = epoch /\ new.batch = batch
    BY <1>4, <2>0 DEF Send
  <2>2. Landed' = Landed /\ Sent' = Sent \cup {new}
    BY <2>1, <2>3 DEF Sent, Landed, Range
  <2>4. new \notin Sent /\ \A tx \in Sent : tx.sig # next_sig
    BY <1>n, <1>p, <1>l, <2>3 DEF SignatureShape, Transaction
  <2>5. SignatureShape'
    <3>1. next_sig' >= 1 /\ sig' < next_sig'
      BY <1>n, <2>1
    <3>2. \A tx \in Sent' : 1 <= tx.sig /\ tx.sig < next_sig' /\ tx.epoch <= epoch'
      BY <1>n, <1>p, <1>l, <2>1, <2>2, <2>3 DEF SignatureShape, Transaction
    <3>3. \A tx, other \in Sent' : tx.sig = other.sig => tx = other
      BY <1>p, <2>2, <2>3, <2>4 DEF SignatureShape
    <3>4. \A m, n \in 1..Len(ledger') : ledger'[m] = ledger'[n] => m = n
      BY <1>p, <2>1 DEF SignatureShape
    <3>5. Landed' \cap network' = {}
      BY <1>p, <2>2, <2>3, <2>4 DEF SignatureShape, Sent
    <3> QED
      BY <2>1, <3>1, <3>2, <3>3, <3>4, <3>5 DEF SignatureShape
  <2>6. BatchStart' = BatchStart
    BY <2>1 DEF BatchStart
  <2>7. \A i \in 1..Len(batch) : /\ batch[i].id = BatchStart + i - 1
                                 /\ batch[i].entry = accepted[BatchStart + i]
                                 /\ batch[i].id < next_id
                                 /\ batch[i].id + 1 = BatchStart + i
                                 /\ batch[i].id >= BatchStart
    <3> SUFFICES ASSUME NEW i \in 1..Len(batch)
                 PROVE  /\ batch[i].id = BatchStart + i - 1
                        /\ batch[i].entry = accepted[BatchStart + i]
                        /\ batch[i].id < next_id
                        /\ batch[i].id + 1 = BatchStart + i
                        /\ batch[i].id >= BatchStart
      OBVIOUS
    <3>1. batch[i].id = BatchStart + i - 1 /\ batch[i].entry = accepted[BatchStart + i]
      BY <1>t DEF IdShape
    <3>2. BatchStart + Len(batch) <= next_id
      BY <1>n DEF BatchStart
    <3> QED
      BY <1>n, <3>1, <3>2
  <2>8. \A tx \in Sent : tx.epoch = epoch => \A i \in 1..Len(tx.batch) :
          /\ tx.batch[i].id < next_id /\ tx.batch[i].id < BatchStart
          /\ tx.batch[i].entry = accepted[tx.batch[i].id + 1]
    BY <1>p, <2>1 DEF SentShape, Own
  <2>9. SentShape'
    <3>1. \A tx \in Sent' : Own(tx)' => tx.epoch = epoch' /\ tx.batch = batch'
      BY <2>1, <2>2, <2>3, <2>4 DEF Own
    <3>2. Own(new)'
      BY <2>1, <2>3 DEF Own
    <3>3. ASSUME NEW tx \in Sent', tx.epoch = epoch', NEW i \in 1..Len(tx.batch)
          PROVE  /\ tx.batch[i].id < next_id'
                 /\ tx.batch[i].entry = accepted'[tx.batch[i].id + 1]
                 /\ Own(tx)' \/ tx.batch[i].id < BatchStart'
      <4>1. CASE tx \in Sent
        BY <2>1, <2>6, <2>8, <3>3, <4>1
      <4>2. CASE tx = new
        <5>1. tx.batch = batch
          BY <2>3, <4>2
        <5>2. /\ batch[i].id < next_id /\ batch[i].id + 1 = BatchStart + i
              /\ batch[i].entry = accepted[BatchStart + i]
          BY <2>7, <5>1
        <5>3. i \in 1..Len(batch) /\ Own(tx)'
          BY <3>2, <4>2, <5>1
        <5>4. accepted'[batch[i].id + 1] = accepted[BatchStart + i]
          BY <2>1, <5>2
        <5> QED
          BY <2>1, <5>1, <5>2, <5>3, <5>4
      <4> QED
        BY <2>2, <4>1, <4>2
    <3> QED
      BY <3>1, <3>3 DEF SentShape
  <2>10. SentOnce'
    <3> SUFFICES ASSUME NEW tx \in Sent', NEW other \in Sent', tx.epoch = other.epoch,
                        NEW i \in 1..Len(tx.batch), NEW j \in 1..Len(other.batch),
                        tx.batch[i].id = other.batch[j].id
                 PROVE  tx = other /\ i = j
      BY DEF SentOnce
    <3>1. CASE tx \in Sent /\ other \in Sent
      BY <1>p, <3>1 DEF SentOnce
    <3>2. CASE tx = new /\ other = new
      <4>1. batch[i].id = BatchStart + i - 1 /\ batch[j].id = BatchStart + j - 1
        BY <2>3, <2>7, <3>2
      <4>2. BatchStart + i - 1 = BatchStart + j - 1
        BY <2>3, <3>2, <4>1
      <4> QED
        BY <1>n, <2>3, <3>2, <4>2
    <3>3. CASE tx = new /\ other \in Sent
      <4>1. other.batch[j].id < BatchStart /\ other.batch[j].id \in Nat
        BY <1>i, <2>3, <2>8, <3>3
      <4>2. batch[i].id >= BatchStart /\ batch[i].id = other.batch[j].id
        BY <2>3, <2>7, <3>3
      <4> QED
        BY <1>n, <4>1, <4>2
    <3>4. CASE tx \in Sent /\ other = new
      <4>1. tx.batch[i].id < BatchStart /\ tx.batch[i].id \in Nat
        BY <1>i, <2>3, <2>8, <3>4
      <4>2. batch[j].id >= BatchStart /\ batch[j].id = tx.batch[i].id
        BY <2>3, <2>7, <3>4
      <4> QED
        BY <1>n, <4>1, <4>2
    <3> QED
      BY <2>2, <3>1, <3>2, <3>3, <3>4
  <2>11. OutcomeShape' /\ ConfirmedIsPublished'
    BY <1>p, <2>1, <2>2 DEF OutcomeShape, ConfirmedIsPublished, Status
  <2> QED
    BY <2>5, <2>9, <2>10, <2>11
\* The publisher learns, or assumes, how its transaction fared.
<1>5. ASSUME NEW status, Conclude(status), pc \in {"publishing", "confirming"},
             status.state = "confirmed" => status.sig = sig /\ sig \in Sigs(Landed)
      PROVE  SignatureShape' /\ SentShape' /\ SentOnce' /\ OutcomeShape'
               /\ ConfirmedIsPublished'
  <2>1. /\ UNCHANGED <<pending, next_id, statuses, batch, sig, ledger, network, next_sig, epoch, accepted>>
        /\ pc' = "settling" /\ outcome' = status
    BY <1>5 DEF Conclude, queueVars
  <2>2. Sent' = Sent /\ Landed' = Landed /\ SentOnce' /\ SignatureShape'
    BY <1>g, <1>p, <2>1 DEF SignatureShape
  <2>3. \A tx \in Sent : Own(tx)' <=> Own(tx)
    BY <1>5, <1>p, <1>l, <2>1 DEF Own, SignatureShape, NoSig, Transaction
  <2>4. BatchStart' = BatchStart
    BY <2>1 DEF BatchStart
  <2>5. SentShape'
    BY <1>p, <2>1, <2>2, <2>3, <2>4 DEF SentShape
  <2>6. OutcomeShape' /\ ConfirmedIsPublished'
    BY <1>p, <1>5, <2>1, <2>2 DEF OutcomeShape, ConfirmedIsPublished, Status
  <2> QED
    BY <2>2, <2>5, <2>6
<1>6. CASE SendRefused \/ ConfirmOk \/ ConfirmExpired \/ RpcFails
  BY <1>5, <1>6 DEF SendRefused, ConfirmOk, ConfirmExpired, RpcFails, Failed, Confirmed
<1>10. CASE Settle
  <2> DEFINE item == batch[settled + 1]
  <2>1. /\ pc = "settling" /\ SetStatus(item.id, outcome)
        /\ UNCHANGED <<pending, next_id, ledger, network, next_sig, epoch, accepted>>
        /\ settled + 1 \in 1..Len(batch)
    BY <1>10, <1>n, <1>t DEF Settle, WorkShape
  <2>2. item.id = BatchStart + settled /\ item.entry = accepted[item.id + 1]
    <3>1. item.id = BatchStart + (settled + 1) - 1 /\ item.entry = accepted[BatchStart + (settled + 1)]
      BY <1>t, <2>1 DEF IdShape
    <3>2. BatchStart + (settled + 1) - 1 = BatchStart + settled
          /\ BatchStart + (settled + 1) = (BatchStart + settled) + 1
      BY <1>n
    <3> QED
      BY <3>1, <3>2
  <2>3. BatchStart + Len(batch) <= next_id
    BY <1>n DEF BatchStart
  <2> HIDE DEF item
  <2>4. \/ UNCHANGED <<pc, batch, sig, outcome>>
        \/ pc' = "sleeping" /\ batch' = <<>> /\ sig' = NoSig /\ outcome' = Pending
    BY <1>10 DEF Settle
  <2>5. Sent' = Sent /\ Landed' = Landed /\ SentOnce' /\ SignatureShape'
    BY <1>g, <1>n, <1>p, <2>1, <2>4 DEF SignatureShape, NoSig
  <2>6. SentShape'
    <3>1. CASE UNCHANGED <<pc, batch, sig, outcome>>
      <4>1. BatchStart' = BatchStart /\ \A tx \in Sent : Own(tx)' <=> Own(tx)
        BY <2>1, <3>1 DEF BatchStart, Own
      <4> QED
        BY <1>p, <2>1, <2>5, <3>1, <4>1 DEF SentShape
    <3>2. CASE pc' = "sleeping" /\ batch' = <<>> /\ sig' = NoSig /\ outcome' = Pending
      <4>1. BatchStart' = BatchStart + Len(batch)
        BY <1>n, <2>1, <3>2 DEF BatchStart
      <4>2. ASSUME NEW tx \in Sent, tx.epoch = epoch, NEW i \in 1..Len(tx.batch)
            PROVE  tx.batch[i].id < BatchStart + Len(batch)
        <5>1. CASE Own(tx)
          <6>1. tx.batch = batch
            BY <1>p, <5>1 DEF SentShape
          <6>2. batch[i].id = BatchStart + i - 1
            BY <1>t, <6>1 DEF IdShape
          <6> QED
            BY <1>n, <6>1, <6>2
        <5>2. CASE ~Own(tx)
          <6>1. tx.batch[i].id < BatchStart /\ tx.batch[i].id \in Nat
            BY <1>i, <1>p, <4>2, <5>2 DEF SentShape
          <6> QED
            BY <1>n, <6>1
        <5> QED
          BY <5>1, <5>2
      <4>3. \A tx \in Sent : ~Own(tx)'
        BY <3>2 DEF Own
      <4> QED
        BY <1>p, <2>1, <2>5, <4>1, <4>2, <4>3 DEF SentShape
    <3> QED
      BY <2>4, <3>1, <3>2
  <2>7. OutcomeShape'
    <3>1. \A id \in DOMAIN statuses' : id < next_id'
      BY <1>n, <1>d, <2>1, <2>2, <2>3, SetStatusWrites
    <3>2. pc' = "settling" /\ outcome'.state = "confirmed" =>
            outcome'.sig = sig' /\ sig' \in Sigs(Landed')
      BY <1>p, <2>1, <2>4, <2>5 DEF OutcomeShape
    <3> QED
      BY <3>1, <3>2 DEF OutcomeShape
  <2>8. ConfirmedIsPublished'
    <3> SUFFICES ASSUME NEW id \in DOMAIN statuses', statuses'[id].state = "confirmed"
                 PROVE  \E tx \in Landed :
                          /\ tx.sig = statuses'[id].sig /\ tx.epoch = epoch
                          /\ \E i \in 1..Len(tx.batch) :
                               tx.batch[i].id = id /\ tx.batch[i].entry = accepted[id + 1]
      BY <2>1, <2>5 DEF ConfirmedIsPublished, Status
    <3>1. CASE id = item.id
      <4>1. statuses'[id] = outcome
        BY <2>1, <3>1, SetStatusWrites
      <4>2. PICK tx \in Landed : tx.sig = sig /\ outcome.sig = sig
        BY <1>p, <2>1, <4>1 DEF OutcomeShape, Sigs
      <4>3. tx.epoch = epoch /\ tx.batch = batch
        BY <1>p, <2>1, <4>2 DEF SentShape, Own, Sent
      <4> QED
        BY <2>1, <2>2, <3>1, <4>1, <4>2, <4>3 DEF item
    <3>2. CASE id # item.id
      <4>1. id \in DOMAIN statuses /\ statuses'[id] = statuses[id]
        BY <2>1, <3>2, SetStatusWrites
      <4> QED
        BY <1>p, <4>1 DEF ConfirmedIsPublished, Status
    <3> QED
      BY <3>1, <3>2
  <2> QED
    BY <2>5, <2>6, <2>7, <2>8
<1>11. ASSUME NEW tx \in network, Land(tx)
       PROVE  SignatureShape' /\ SentShape' /\ SentOnce' /\ OutcomeShape'
                /\ ConfirmedIsPublished'
  <2>1. /\ network' = network \ {tx} /\ Execute(tx) /\ tx \in Transaction
        /\ UNCHANGED <<pending, next_id, statuses, pc, batch, sig, outcome, next_sig, epoch, accepted>>
    BY <1>11, <1>t DEF Land, queueVars, publisherVars, TypeOK
  <2>2. /\ Len(ledger') = Len(ledger) + 1
        /\ \A n \in 1..Len(ledger) : ledger'[n] = ledger[n]
        /\ ledger'[Len(ledger) + 1] = tx
        /\ Landed' = Landed \cup {tx}
    BY <1>t, <2>1, LandingAppends DEF TypeOK
  <2>3. Sent' = Sent /\ tx \notin Landed
    BY <1>p, <2>1, <2>2 DEF Sent, SignatureShape
  <2>4. SignatureShape'
    <3>1. \A n \in 1..Len(ledger) : ledger[n] \in Landed
      BY <1>t, LandedIsLedger DEF TypeOK
    <3>2. ASSUME NEW m \in 1..Len(ledger'), NEW n \in 1..Len(ledger'), ledger'[m] = ledger'[n]
          PROVE  m = n
      <4>1. \A k \in 1..Len(ledger') : k \in 1..Len(ledger) \/ k = Len(ledger) + 1
        BY <1>l, <2>2
      <4> QED
        BY <1>p, <2>2, <2>3, <3>1, <3>2, <4>1 DEF SignatureShape
    <3>3. Landed' \cap network' = {}
      BY <1>p, <2>1, <2>2 DEF SignatureShape
    <3> QED
      BY <1>p, <2>1, <2>3, <3>2, <3>3 DEF SignatureShape
  <2>5. SentShape' /\ SentOnce'
    BY <1>p, <2>1, <2>3 DEF SentShape, SentOnce, Own, BatchStart
  <2>6. OutcomeShape' /\ ConfirmedIsPublished'
    BY <1>p, <2>1, <2>2 DEF OutcomeShape, ConfirmedIsPublished, Status, Sigs
  <2> QED
    BY <2>4, <2>5, <2>6
<1>12. ASSUME NEW tx \in network, Expire(tx)
       PROVE  SignatureShape' /\ SentShape' /\ SentOnce' /\ OutcomeShape'
                /\ ConfirmedIsPublished'
  <2>1. /\ network' = network \ {tx}
        /\ UNCHANGED <<pending, next_id, statuses, pc, batch, sig, outcome, ledger, next_sig, epoch, accepted>>
    BY <1>12 DEF Expire, queueVars, publisherVars
  <2>2. Landed' = Landed /\ Sent' \subseteq Sent
    BY <2>1 DEF Sent, Landed, Range
  <2>3. SignatureShape'
    BY <1>p, <2>1, <2>2 DEF SignatureShape
  <2>4. SentShape' /\ SentOnce'
    BY <1>p, <2>1, <2>2 DEF SentShape, SentOnce, Own, BatchStart
  <2>5. OutcomeShape' /\ ConfirmedIsPublished'
    BY <1>p, <2>1, <2>2 DEF OutcomeShape, ConfirmedIsPublished, Status
  <2> QED
    BY <2>3, <2>4, <2>5
<1>13. CASE Restart
  <2>1. /\ epoch' = epoch + 1 /\ DOMAIN statuses' = {} /\ pc' = "sleeping" /\ sig' = NoSig
        /\ UNCHANGED <<ledger, network, next_sig>>
    BY <1>13 DEF Restart
  <2>2. Landed' = Landed /\ Sent' = Sent
    BY <2>1 DEF Sent, Landed, Range
  <2>3. SignatureShape'
    BY <1>n, <1>l, <1>p, <2>1, <2>2 DEF SignatureShape, NoSig, Transaction
  <2>4. SentShape'
    <3>1. \A tx \in Sent : tx.epoch # epoch'
      BY <1>n, <1>l, <1>p, <2>1 DEF SignatureShape, Transaction
    <3> QED
      BY <2>1, <2>2, <3>1 DEF SentShape, Own
  <2>5. SentOnce' /\ OutcomeShape' /\ ConfirmedIsPublished'
    BY <1>p, <2>1, <2>2 DEF SentOnce, OutcomeShape, ConfirmedIsPublished
  <2> QED
    BY <2>3, <2>4, <2>5
<1>14. CASE UNCHANGED vars
  <2>1. UNCHANGED <<pending, next_id, statuses, pc, batch, sig, outcome, ledger, network, next_sig,
                    epoch, accepted>>
    BY <1>14 DEF vars, queueVars, publisherVars
  <2>2. Sent' = Sent /\ Landed' = Landed /\ SentOnce' /\ SignatureShape'
    BY <1>g, <1>p, <2>1 DEF SignatureShape
  <2>3. SentShape' /\ OutcomeShape' /\ ConfirmedIsPublished'
    BY <1>p, <2>1, <2>2
       DEF SentShape, Own, BatchStart, OutcomeShape, ConfirmedIsPublished, Status
  <2> QED
    BY <2>2, <2>3
<1> QED
  BY <1>1, <1>3, <1>4, <1>6, <1>10, <1>11, <1>12, <1>13, <1>14 DEF Next, RefuseAnnounce

------------------------------------------------------------------------------
(* Theorems *)

\* However requests, RPC faults, late transactions and crashes interleave, the
\* status endpoint says "confirmed" only of a note that is on the pinboard, with
\* the signature of the transaction that carries it (main.rs: publisher_loop).
THEOREM ConfirmedAlwaysPublished == Spec => []ConfirmedIsPublished
<1>1. PublishInv => ConfirmedIsPublished
  BY DEF PublishInv
<1> QED
  BY PublishInvInit, PublishInvStep, <1>1, PTL DEF Spec

\* Draining hands a note to one transaction and nothing puts it back: whatever
\* fails, the service never publishes a note twice.
THEOREM NeverPublishedTwice == Spec => []PublishedOnce
<1>1. ASSUME PublishInv PROVE PublishedOnce
  <2> SUFFICES ASSUME NEW m \in 1..Len(ledger), NEW n \in 1..Len(ledger),
                      ledger[m].epoch = ledger[n].epoch,
                      NEW i \in 1..Len(ledger[m].batch), NEW j \in 1..Len(ledger[n].batch),
                      ledger[m].batch[i].id = ledger[n].batch[j].id
               PROVE  m = n /\ i = j
    BY DEF PublishedOnce
  <2>1. SignatureShape /\ SentOnce /\ ledger \in Seq(Transaction)
    BY <1>1 DEF PublishInv, QueueInv, BoundsInv, TypeOK
  <2>2. ledger[m] \in Sent /\ ledger[n] \in Sent
    BY <2>1, LandedIsLedger DEF Sent
  <2>3. ledger[m] = ledger[n] /\ i = j
    BY <2>1, <2>2 DEF SentOnce
  <2> QED
    BY <2>1, <2>3 DEF SignatureShape
<1> QED
  BY PublishInvInit, PublishInvStep, <1>1, PTL DEF Spec

------------------------------------------------------------------------------
(* How large a transaction is *)

LEMMA LeastElement ==
  ASSUME NEW S \in SUBSET Nat, S # {}
  PROVE  \E i \in S : \A j \in S : ~(j < i)
<1>1. IsWellFoundedOn(OpToRel(<, Nat), Nat)
  BY NatLessThanWellFounded
<1>2. PICK i \in S : \A j \in S : ~(<<j, i>> \in OpToRel(<, Nat))
  BY <1>1, WFMin, Zenon
<1> QED
  BY <1>2 DEF OpToRel

\* The recursive function of TxBytes exists, and each entry adds no more than the largest
\* there may be.  Both are shown for a least counterexample.
LEMMA TxBytesBounded ==
  ASSUME NEW entries \in Seq(Entry)
  PROVE  /\ TxBytes(entries) \in Nat
         /\ TxBytes(entries) <= TxOverhead + Len(entries) * (EntryBytes + SdkMaxMetadataLen)
<1> DEFINE len == Len(entries)
           largest == EntryBytes + SdkMaxMetadataLen
           Adds(f, n) == IF n = 0 THEN TxOverhead ELSE f[n - 1] + EntryBytes + entries[n].metadata_len
           Sums(f, k) == f \in [0..k -> Nat] /\ \A n \in 0..k : f[n] = Adds(f, n)
           upTo == CHOOSE f : f = [n \in 0..len |-> Adds(f, n)]
<1>1. /\ len \in Nat /\ TxOverhead \in Nat /\ EntryBytes \in Nat /\ SdkMaxMetadataLen \in Nat
      /\ largest \in Nat
  BY LenProperties, AnnouncerConstants
<1>2. \A n \in 1..len : entries[n].metadata_len \in Nat /\ entries[n].metadata_len <= SdkMaxMetadataLen
  <2> SUFFICES ASSUME NEW n \in 1..len
               PROVE  entries[n].metadata_len \in Nat /\ entries[n].metadata_len <= SdkMaxMetadataLen
    OBVIOUS
  <2>1. entries[n] \in Entry
    BY ElementOfSeq
  <2>2. PICK req \in Requests : ValidRequest(req) /\ entries[n] = ToNoteEntry(req)
    BY <2>1 DEF Entry
  <2>3. entries[n].metadata_len = req.metadata_len
    BY <2>2 DEF ToNoteEntry
  <2> QED
    BY <2>2, <2>3, AnnouncerConstants DEF ValidRequest
<1>3. TxBytes(entries) = upTo[len]
  BY DEF TxBytes
<1> HIDE DEF largest
<1>4. \A k \in 0..len : \E f : Sums(f, k)
  <2> DEFINE Bad == {k \in 0..len : ~\E f : Sums(f, k)}
  <2> SUFFICES ASSUME Bad # {} PROVE FALSE
    OBVIOUS
  <2>1. Bad \in SUBSET Nat
    BY <1>1
  <2>2. PICK k \in Bad : \A j \in Bad : ~(j < k)
    BY <2>1, LeastElement
  <2>3. k \in 0..len
    BY <2>2
  <2>4. CASE k = 0
    <3>1. Sums([n \in 0..0 |-> TxOverhead], 0)
      BY <1>1
    <3> QED
      BY <2>2, <2>4, <3>1
  <2>5. CASE k # 0
    <3>1. k - 1 \in 0..len /\ k - 1 < k /\ k \in 1..len
      BY <1>1, <2>3, <2>5
    <3>2. PICK f : Sums(f, k - 1)
      BY <2>2, <3>1
    <3> DEFINE g == [n \in 0..k |-> IF n = k THEN Adds(f, k) ELSE f[n]]
    <3>3. Adds(f, k) \in Nat
      BY <1>1, <1>2, <2>5, <3>1, <3>2
    <3>4. \A n \in 0..k : g[n] = Adds(g, n)
      <4> SUFFICES ASSUME NEW n \in 0..k PROVE g[n] = Adds(g, n)
        OBVIOUS
      <4>1. n # 0 => n - 1 \in 0..(k - 1) /\ n - 1 # k
        BY <2>3
      <4>2. n # 0 => g[n - 1] = f[n - 1]
        BY <2>3, <4>1
      <4>3. Adds(g, n) = Adds(f, n)
        BY <4>2
      <4>4. n # k => n \in 0..(k - 1)
        BY <2>3
      <4> HIDE DEF Adds
      <4> QED
        BY <3>2, <4>3, <4>4
    <3>5. g \in [0..k -> Nat]
      <4>1. \A n \in 0..k : n # k => n \in 0..(k - 1)
        BY <2>3
      <4> HIDE DEF Adds
      <4> QED
        BY <3>2, <3>3, <4>1
    <3> HIDE DEF g, Adds
    <3>6. Sums(g, k)
      BY <3>4, <3>5
    <3> QED
      BY <2>2, <3>6
  <2> QED
    BY <2>4, <2>5
<1>5. /\ upTo[0] = TxOverhead
      /\ \A n \in 1..len : upTo[n] = upTo[n - 1] + EntryBytes + entries[n].metadata_len
  <2>0. len \in 0..len
    BY <1>1
  <2>1. PICK f : Sums(f, len)
    <3> HIDE DEF Sums
    <3> QED
      BY <1>4, <2>0
  <2>2. f = [n \in 0..len |-> f[n]]
    BY <2>1
  <2>3. [n \in 0..len |-> f[n]] = [n \in 0..len |-> Adds(f, n)]
    BY <2>1
  <2>4. \E h : h = [n \in 0..len |-> Adds(h, n)]
    <3> HIDE DEF Adds
    <3> QED
      BY <2>2, <2>3, Zenon
  <2>5. upTo = [n \in 0..len |-> Adds(upTo, n)]
    <3> HIDE DEF Adds
    <3> QED
      BY <2>4, Zenon
  <2> HIDE DEF upTo
  <2>6. \A n \in 0..len : upTo[n] = Adds(upTo, n)
    BY <2>5
  <2>7. 0 \in 0..len /\ \A n \in 1..len : n \in 0..len /\ n # 0
    BY <1>1
  <2> QED
    BY <2>6, <2>7
<1> HIDE DEF upTo
<1>6. \A n \in 0..len : upTo[n] \in Nat /\ upTo[n] <= TxOverhead + n * largest
  <2> DEFINE Bad == {n \in 0..len : ~(upTo[n] \in Nat /\ upTo[n] <= TxOverhead + n * largest)}
  <2> SUFFICES ASSUME Bad # {} PROVE FALSE
    OBVIOUS
  <2>1. Bad \in SUBSET Nat
    BY <1>1
  <2>2. PICK n \in Bad : \A j \in Bad : ~(j < n)
    BY <2>1, LeastElement
  <2>3. CASE n = 0
    <3>1. 0 * largest = 0
      BY <1>1
    <3> QED
      BY <1>1, <1>5, <2>2, <2>3, <3>1
  <2>4. CASE n # 0
    <3>1. n \in 1..len /\ n - 1 \in 0..len /\ n - 1 < n
      BY <1>1, <2>2, <2>4
    <3>2. upTo[n - 1] \in Nat /\ upTo[n - 1] <= TxOverhead + (n - 1) * largest
      BY <2>2, <3>1
    <3>3. /\ upTo[n] = upTo[n - 1] + EntryBytes + entries[n].metadata_len
          /\ entries[n].metadata_len \in Nat /\ entries[n].metadata_len <= SdkMaxMetadataLen
      BY <1>2, <1>5, <3>1
    <3>4. (n - 1) * largest + largest = n * largest /\ (n - 1) * largest \in Nat
      BY <1>1, <3>1
    <3>5. EntryBytes + entries[n].metadata_len <= largest
      BY <1>1, <3>3 DEF largest
    <3>6. upTo[n] \in Nat /\ upTo[n] <= TxOverhead + n * largest
      <4> DEFINE less == (n - 1) * largest
                 more == n * largest
                 added == EntryBytes + entries[n].metadata_len
      <4>1. less + largest = more /\ less \in Nat /\ upTo[n - 1] <= TxOverhead + less
        BY <3>2, <3>4
      <4>2. upTo[n] = upTo[n - 1] + added /\ added \in Nat /\ added <= largest
        <5>1. \A a, b, c \in Nat : a + b + c = a + (b + c)
          OBVIOUS
        <5>2. upTo[n - 1] + EntryBytes + entries[n].metadata_len = upTo[n - 1] + added
          BY <1>1, <3>2, <3>3, <5>1
        <5>3. added \in Nat /\ added <= largest
          BY <1>1, <3>3, <3>5
        <5> HIDE DEF added
        <5> QED
          BY <3>3, <5>2, <5>3
      <4> HIDE DEF less, more, added
      <4>3. upTo[n] \in Nat /\ upTo[n] <= TxOverhead + more
        BY <1>1, <3>2, <4>1, <4>2
      <4> QED
        BY <4>3 DEF more
    <3> QED
      BY <2>2, <3>6
  <2> QED
    BY <2>3, <2>4
<1>7. len \in 0..len
  BY <1>1
<1> QED
  BY <1>3, <1>6, <1>7 DEF largest

------------------------------------------------------------------------------
(* When nothing goes wrong *)

LEMMA EntriesTyped ==
  ASSUME TypeOK
  PROVE  Entries(batch) \in Seq(Entry) /\ Len(Entries(batch)) = Len(batch)
<1>1. batch \in Seq(Item) /\ Len(batch) \in Nat
  BY LenProperties DEF TypeOK
<1>2. \A i \in 1..Len(batch) : batch[i] \in Item
  BY <1>1, ElementOfSeq
<1>3. \A i \in 1..Len(batch) : batch[i].entry \in Entry
  BY <1>2 DEF Item
<1> QED
  BY <1>1, <1>3, IsASeq DEF Entries

LEMMA HealthyInit == Init => HealthyInv
<1> SUFFICES ASSUME Init PROVE HealthyInv
  OBVIOUS
<1>1. pc = "sleeping" /\ outcome = Pending /\ statuses = [id \in {} |-> Pending]
  BY DEF Init, QueueInit
<1> QED
  BY <1>1 DEF HealthyInv, Pending

\* The program takes every batch that the service builds.
LEMMA ProgramTakesBatch ==
  ASSUME SdkWithinProgram, BoundsInv, pc = "publishing"
  PROVE  PostBatchResult(Entries(batch)) = "ok"
<1>t. TypeOK /\ WorkShape
  BY DEF BoundsInv
<1>1. batch \in Seq(Item) /\ batch # <<>> /\ Len(batch) <= MaxBatch
  BY <1>t DEF TypeOK, WorkShape
<1>2. Len(batch) \in Nat /\ Len(batch) # 0
  BY <1>1, LenProperties, EmptySeq
<1>3. \A i \in 1..Len(batch) : batch[i].entry.metadata_len \in Nat
                              /\ batch[i].entry.metadata_len <= SdkMaxMetadataLen
  <2> SUFFICES ASSUME NEW i \in 1..Len(batch)
               PROVE  /\ batch[i].entry.metadata_len \in Nat
                      /\ batch[i].entry.metadata_len <= SdkMaxMetadataLen
    OBVIOUS
  <2>1. batch[i] \in Item
    BY <1>1, ElementOfSeq
  <2>2. batch[i].entry \in Entry
    BY <2>1 DEF Item
  <2>3. PICK req \in Requests : ValidRequest(req) /\ batch[i].entry = ToNoteEntry(req)
    BY <2>2 DEF Entry
  <2>4. batch[i].entry.metadata_len = req.metadata_len
    BY <2>3 DEF ToNoteEntry
  <2> QED
    BY <2>3, <2>4, AnnouncerConstants DEF ValidRequest
<1>4. /\ Len(Entries(batch)) = Len(batch)
      /\ \A i \in 1..Len(batch) : Entries(batch)[i] = batch[i].entry
  BY <1>2 DEF Entries
<1>5. ~(Len(Entries(batch)) = 0) /\ ~(Len(Entries(batch)) > MaxBatchEntries)
  BY <1>1, <1>2, <1>4, AnnouncerConstants, PinboardLimits DEF SdkWithinProgram
<1>6. ~\E i \in 1..Len(Entries(batch)) : Entries(batch)[i].metadata_len > MaxMetadataLen
  BY <1>3, <1>4, AnnouncerConstants, PinboardLimits DEF SdkWithinProgram
<1> QED
  BY <1>5, <1>6 DEF PostBatchResult

\* As long as batches fit, no step brings a failure in: the node takes every batch, and what
\* it took is waiting in the network or on the chain until the publisher sees it there.
LEMMA HealthyStep ==
  ASSUME SdkWithinProgram, BoundsInv, BoundsInv', BatchFits, HealthyInv, [Next]_vars
  PROVE  HealthyInv'
<1> SUFFICES ASSUME ~Faults
             PROVE  /\ pc' = "confirming" => sig' \in Sigs(Sent)'
                    /\ outcome'.state # "failed"
                    /\ \A id \in DOMAIN statuses' : statuses'[id].state # "failed"
  BY DEF HealthyInv
<1>i. /\ pc = "confirming" => sig \in Sigs(Sent)
      /\ outcome.state # "failed"
      /\ \A id \in DOMAIN statuses : statuses[id].state # "failed"
  BY DEF HealthyInv
<1>t. TypeOK /\ WorkShape
  BY DEF BoundsInv
<1>1. ASSUME NEW req \in Requests, PostAnnounce(req)
      PROVE  HealthyInv'
  <2>1. SetStatus(next_id, Pending) /\ UNCHANGED <<pc, outcome, sig, network, ledger>>
    BY <1>1 DEF PostAnnounce, Enqueue, publisherVars
  <2>2. \A id \in DOMAIN statuses' : statuses'[id].state # "failed"
    BY <1>i, <2>1, SetStatusWrites DEF Pending
  <2> QED
    BY <1>i, <2>1, <2>2 DEF HealthyInv, Sent, Sigs, Landed, Range
<1>2. CASE Drain
  <2>1. pc' = "publishing" /\ UNCHANGED <<outcome, statuses>>
    BY <1>2 DEF Drain, TakePending
  <2> QED
    BY <1>i, <2>1
<1>3. CASE Send
  <2>1. /\ network' = network \cup {[sig |-> next_sig, epoch |-> epoch, batch |-> batch]}
        /\ sig' = next_sig /\ UNCHANGED <<outcome, statuses>>
    BY <1>3 DEF Send, queueVars
  <2>2. [sig |-> next_sig, epoch |-> epoch, batch |-> batch] \in Sent'
    BY <2>1 DEF Sent
  <2> QED
    BY <1>i, <2>1, <2>2 DEF Sigs
<1>4. ~SendRefused
  <2>1. TxBytes(Entries(batch)) \in Nat /\ PacketDataSize \in Nat
    BY <1>t, EntriesTyped, TxBytesBounded, AnnouncerConstants
  <2> QED
    BY <2>1, ProgramTakesBatch DEF SendRefused, NodeRefuses, BatchFits
<1>5. CASE ConfirmOk
  <2>1. outcome' = Confirmed(sig) /\ pc' = "settling" /\ UNCHANGED statuses
    BY <1>5 DEF ConfirmOk, Conclude, queueVars
  <2> QED
    BY <1>i, <2>1 DEF Confirmed
<1>6. ~ConfirmExpired
  BY <1>i DEF ConfirmExpired, Sigs, Sent
<1>7. ~RpcFails /\ \A tx \in network : ~Expire(tx)
  BY DEF RpcFails, Expire
<1>8. CASE Settle
  <2>1. /\ SetStatus(batch[settled + 1].id, outcome) /\ pc = "settling"
        /\ (pc' = "settling" /\ outcome' = outcome) \/ (pc' = "sleeping" /\ outcome' = Pending)
    BY <1>8 DEF Settle
  <2>2. \A id \in DOMAIN statuses' : statuses'[id].state # "failed"
    BY <1>i, <2>1, SetStatusWrites
  <2> QED
    BY <1>i, <2>1, <2>2 DEF Pending
<1>9. ASSUME NEW tx \in network, Land(tx)
      PROVE  HealthyInv'
  <2>1. /\ network' = network \ {tx} /\ UNCHANGED <<pc, sig, outcome, statuses>>
        /\ Landed' = Landed \cup {tx}
    BY <1>t, <1>9, LandingAppends DEF Land, queueVars, publisherVars, TypeOK
  <2>2. Sent' = Sent
    BY <2>1 DEF Sent
  <2> QED
    BY <1>i, <2>1, <2>2 DEF HealthyInv, Sigs
<1>10. CASE Restart
  <2>1. pc' = "sleeping" /\ outcome' = Pending /\ statuses' = [id \in {} |-> Pending]
    BY <1>10 DEF Restart
  <2> QED
    BY <2>1 DEF Pending
<1>11. CASE UNCHANGED vars
  BY <1>i, <1>11 DEF vars, queueVars, publisherVars, Sent, Sigs, Landed, Range
<1> QED
  BY <1>1, <1>2, <1>3, <1>4, <1>5, <1>6, <1>7, <1>8, <1>9, <1>10, <1>11
     DEF Next, RefuseAnnounce, HealthyInv

LEMMA HealthyImplies == HealthyInv => HealthyNeverFails
  BY DEF HealthyInv, HealthyNeverFails, Status

\* Without faults, a note fails in no other way than by a batch that does not fit a
\* transaction: whatever the service admits pinboard accepts, every batch is built within
\* the program's limits, and no transaction is given up that may still execute.
THEOREM OnlyLargeBatchesFail ==
  ASSUME SdkWithinProgram
  PROVE  Spec /\ []BatchFits => []HealthyNeverFails
<1>1. BoundsInv /\ HealthyInv /\ BatchFits /\ [Next]_vars => (BoundsInv /\ HealthyInv)'
  BY BoundsStep, HealthyStep
<1> QED
  BY <1>1, BoundsInit, HealthyInit, HealthyImplies, PTL DEF Spec

\* A batch of a few notes fits if as many of the largest kind do.
LEMMA ShortBatchFits ==
  ASSUME NEW N \in Nat, TxOverhead + N * (EntryBytes + SdkMaxMetadataLen) <= PacketDataSize,
         BoundsInv, Len(batch) <= N
  PROVE  BatchFits
<1> SUFFICES TxBytes(Entries(batch)) <= PacketDataSize
  BY DEF BatchFits
<1> DEFINE largest == EntryBytes + SdkMaxMetadataLen
<1>1. batch \in Seq(Item) /\ Len(batch) \in Nat
  BY LenProperties DEF BoundsInv, TypeOK, WorkShape
<1>2. Entries(batch) \in Seq(Entry) /\ Len(Entries(batch)) = Len(batch)
  BY EntriesTyped DEF BoundsInv
<1>3. TxBytes(Entries(batch)) \in Nat /\ TxBytes(Entries(batch)) <= TxOverhead + Len(batch) * largest
  BY <1>2, TxBytesBounded
<1>4. /\ largest \in Nat /\ TxOverhead \in Nat /\ PacketDataSize \in Nat
      /\ TxOverhead + N * largest <= PacketDataSize
  BY AnnouncerConstants
<1> HIDE DEF largest
<1> DEFINE inHand == Len(batch) * largest
           most == N * largest
<1>5. inHand \in Nat /\ most \in Nat /\ inHand <= most
  BY <1>1, <1>4
<1>6. TxBytes(Entries(batch)) <= TxOverhead + inHand /\ TxOverhead + most <= PacketDataSize
  BY <1>3, <1>4
<1> HIDE DEF inHand, most
<1> QED
  BY <1>3, <1>4, <1>5, <1>6

\* Without faults, no note fails of a service whose batches never have more notes than a
\* transaction holds of the largest kind.  With the code's constants these are 10 notes,
\* 183 + 10 * 103 <= 1232, of the 40 that MAX_BATCH lets into a batch: a service that is
\* never more than 10 notes behind publishes all it is given.
THEOREM ShortBatchesNeverFail ==
  ASSUME SdkWithinProgram, NEW N \in Nat,
         TxOverhead + N * (EntryBytes + SdkMaxMetadataLen) <= PacketDataSize
  PROVE  Spec /\ [](Len(batch) <= N) => []HealthyNeverFails
<1>1. BoundsInv /\ HealthyInv /\ Len(batch) <= N /\ [Next]_vars => (BoundsInv /\ HealthyInv)'
  BY BoundsStep, HealthyStep, ShortBatchFits
<1> QED
  BY <1>1, BoundsInit, HealthyInit, HealthyImplies, PTL DEF Spec

------------------------------------------------------------------------------
(***************************************************************************)
(* The announcement service implements AnnounceService: the initial state  *)
(* maps to an initial state, and every step to a step or to a stutter.     *)
(***************************************************************************)

\* Both invariants together, which the refinement draws on.
ServiceInv == HistoryInv /\ PublishInv

------------------------------------------------------------------------------
(* The notes in a sequence of items, and in a set of transactions *)

LEMMA NoNotes ==
  ASSUME NEW e
  PROVE  ItemsOf(<<>>, e) = {} /\ NotesOf({}) = {}
BY DEF ItemsOf, NotesOf

LEMMA NotesOfUnion ==
  ASSUME NEW S, NEW tx
  PROVE  NotesOf(S \cup {tx}) = NotesOf(S) \cup ItemsOf(tx.batch, tx.epoch)
BY DEF NotesOf

LEMMA NotesOfSubset ==
  ASSUME NEW S, NEW T, S \subseteq T
  PROVE  NotesOf(S) \subseteq NotesOf(T)
BY DEF NotesOf

\* Without the transaction that lands, its notes are no longer open.
LEMMA NotesLeaveNetwork ==
  ASSUME PublishInv, NEW tx \in network
  PROVE  NotesOf(network \ {tx}) = NotesOf(network) \ ItemsOf(tx.batch, tx.epoch)
<1>p. SentOnce /\ network \subseteq Sent
  BY DEF PublishInv, Sent
<1>1. ASSUME NEW other \in network \ {tx}, NEW note \in ItemsOf(other.batch, other.epoch),
             note \in ItemsOf(tx.batch, tx.epoch)
      PROVE  FALSE
  <2>1. PICK i \in 1..Len(other.batch) : note = <<other.epoch, other.batch[i].id>>
    BY <1>1 DEF ItemsOf
  <2>2. PICK j \in 1..Len(tx.batch) : note = <<tx.epoch, tx.batch[j].id>>
    BY <1>1 DEF ItemsOf
  <2>3. other.epoch = tx.epoch /\ other.batch[i].id = tx.batch[j].id
    BY <2>1, <2>2
  <2> QED
    BY <1>p, <2>3 DEF SentOnce
<1>2. NotesOf(network) = NotesOf(network \ {tx}) \cup ItemsOf(tx.batch, tx.epoch)
  BY DEF NotesOf
<1>3. NotesOf(network \ {tx}) \cap ItemsOf(tx.batch, tx.epoch) = {}
  BY <1>1 DEF NotesOf
<1> QED
  BY <1>2, <1>3

\* Nor are they waiting in the service.
LEMMA SentNotesNotWaiting ==
  ASSUME PublishInv, NEW tx \in network
  PROVE  ItemsOf(tx.batch, tx.epoch) \cap (ItemsOf(pending, epoch) \cup ItemsOf(Unsent, epoch)) = {}
<1>t. TypeOK /\ IdShape /\ SentShape /\ tx \in Sent
  BY DEF PublishInv, QueueInv, BoundsInv, Sent
<1>n. Len(pending) \in Nat /\ Len(batch) \in Nat /\ next_id \in Nat
  BY <1>t, LengthsAreNat
<1>b. BatchStart \in Nat /\ QueueStart = BatchStart + Len(batch)
  BY <1>n, <1>t DEF BatchStart, QueueStart, IdShape
<1> SUFFICES ASSUME NEW i \in 1..Len(tx.batch), tx.epoch = epoch
             PROVE  /\ \A j \in 1..Len(pending) : pending[j].id # tx.batch[i].id
                    /\ pc = "publishing" => \A j \in 1..Len(batch) : batch[j].id # tx.batch[i].id
  BY NoNotes DEF ItemsOf, Unsent
<1>i. tx.batch[i].id \in Nat
  <2>1. tx.batch \in Seq(Item)
    BY <1>t DEF TypeOK, Transaction
  <2>2. tx.batch[i] \in Item
    BY <2>1, ElementOfSeq
  <2> QED
    BY <2>2 DEF Item
<1>1. CASE Own(tx)
  <2>1. tx.batch = batch /\ pc # "publishing"
    BY <1>t, <1>1 DEF SentShape, Own
  <2>2. batch[i].id = BatchStart + i - 1 /\ i \in 1..Len(batch)
    BY <1>t, <2>1 DEF IdShape
  <2>3. \A j \in 1..Len(pending) : pending[j].id = QueueStart + j - 1
    BY <1>t DEF IdShape
  <2>4. \A j \in 1..Len(pending) : QueueStart + j - 1 # BatchStart + i - 1
    BY <1>n, <1>b, <2>2
  <2> QED
    BY <2>1, <2>2, <2>3, <2>4
<1>2. CASE ~Own(tx)
  <2>1. tx.batch[i].id < BatchStart
    BY <1>t, <1>2 DEF SentShape
  <2>2. \A j \in 1..Len(pending) : pending[j].id = QueueStart + j - 1
    BY <1>t DEF IdShape
  <2>3. \A j \in 1..Len(batch) : batch[j].id = BatchStart + j - 1
    BY <1>t DEF IdShape
  <2>4. /\ \A j \in 1..Len(pending) : tx.batch[i].id < QueueStart + j - 1
        /\ \A j \in 1..Len(batch) : tx.batch[i].id < BatchStart + j - 1
    BY <1>n, <1>b, <1>i, <2>1
  <2> QED
    BY <1>i, <2>2, <2>3, <2>4
<1> QED
  BY <1>1, <1>2

------------------------------------------------------------------------------
(* Each step *)

LEMMA AcceptStep ==
  ASSUME CapsFit, ServiceInv, [Next]_vars, NEW req \in Requests, PostAnnounce(req)
  PROVE  Service!Accept
<1> DEFINE oldest == next_id' - Len(status_order')
<1>t. /\ TypeOK /\ HistoryShape /\ IdShape /\ HistoryShape' /\ TypeOK' /\ HistoryInv
  BY HistoryInvStep DEF ServiceInv, HistoryInv, QueueInv, BoundsInv
<1>n. /\ next_id \in Nat /\ Len(status_order) \in Nat /\ Len(pending) \in Nat
      /\ Len(status_order') \in Nat
  BY <1>t, LengthsAreNat, LenProperties DEF TypeOK
<1>e. ToNoteEntry(req) \in Entry
  BY DEF PostAnnounce, Entry
<1>1. /\ Len(pending') = Len(pending) + 1
      /\ \A i \in 1..Len(pending) : pending'[i] = pending[i]
      /\ pending'[Len(pending) + 1] = [id |-> next_id, entry |-> ToNoteEntry(req)]
      /\ next_id' = next_id + 1 /\ SetStatus(next_id, Pending)
  BY <1>t, <1>e, EnqueueAppends DEF PostAnnounce, TypeOK
<1>2. UNCHANGED <<epoch, pc, batch, network, ledger>>
  BY DEF PostAnnounce, publisherVars
<1>3. OpenNotes' = OpenNotes \cup {<<epoch, next_id>>}
  <2>1. 1..Len(pending') = 1..Len(pending) \cup {Len(pending) + 1}
    BY <1>n, <1>1
  <2>2. ItemsOf(pending, epoch)' = ItemsOf(pending, epoch) \cup {<<epoch, next_id>>}
    <3>1. \A i \in 1..Len(pending) : pending'[i].id = pending[i].id
      BY <1>1
    <3>2. pending'[Len(pending) + 1].id = next_id
      BY <1>1
    <3>3. ItemsOf(pending, epoch)' = {<<epoch, pending'[i].id>> : i \in 1..Len(pending')}
      BY <1>2 DEF ItemsOf
    <3>4. {<<epoch, pending'[i].id>> : i \in 1..Len(pending) \cup {Len(pending) + 1}} =
            {<<epoch, pending[i].id>> : i \in 1..Len(pending)} \cup {<<epoch, next_id>>}
      BY <3>1, <3>2, Zenon
    <3> QED
      BY <2>1, <3>3, <3>4 DEF ItemsOf
  <2>3. Unsent' = Unsent
    BY <1>2 DEF Unsent
  <2> QED
    BY <1>2, <2>2, <2>3 DEF OpenNotes, ItemsOf, NotesOf
<1>4. PublishedNotes' = PublishedNotes
  BY <1>2 DEF PublishedNotes, Landed, Range
<1>5. /\ oldest \in 0..next_id
      /\ DOMAIN statuses' = oldest..next_id
      /\ DOMAIN statuses = (next_id - Len(status_order))..(next_id - 1)
  <2>1. 1 <= Len(status_order') /\ Len(status_order') <= next_id'
    BY <1>n, <1>t, <1>1, QueueCaps DEF HistoryShape
  <2>2. oldest \in 0..next_id
    BY <1>n, <1>1, <2>1
  <2>3. DOMAIN statuses' = oldest..(next_id' - 1)
    BY <1>t DEF HistoryShape
  <2>4. next_id' - 1 = next_id
    BY <1>n, <1>1
  <2>5. DOMAIN statuses = (next_id - Len(status_order))..(next_id - 1)
    BY <1>t DEF HistoryShape
  <2> QED
    BY <2>2, <2>3, <2>4, <2>5
<1>6. /\ next_id \notin DOMAIN statuses
      /\ DOMAIN statuses' \subseteq DOMAIN statuses \cup {next_id}
      /\ \A k \in DOMAIN statuses' :
           statuses'[k] = IF k = next_id THEN Pending ELSE statuses[k]
  BY <1>n, <1>1, <1>5, SetStatusWrites
<1>7. \A id \in DOMAIN statuses : id \notin DOMAIN statuses' => statuses[id].state # "pending"
  BY <1>t, <1>2, ForgetsStep DEF Status
<1> HIDE DEF oldest
<1>8. {id \in DOMAIN statuses : id >= oldest} \cup {next_id} = DOMAIN statuses'
  BY <1>n, <1>5, <1>6
<1>9. DOMAIN Tickets = DOMAIN statuses /\ \A id \in DOMAIN statuses : Tickets[id] = statuses[id].state
  BY DEF Tickets
<1>10. Tickets' = [id \in {k \in DOMAIN Tickets : k >= oldest} \cup {next_id} |->
                     IF id = next_id THEN "pending" ELSE Tickets[id]]
  <2>1. Tickets' = [id \in DOMAIN statuses' |->
                      IF id = next_id THEN "pending" ELSE statuses[id].state]
    BY <1>6 DEF Tickets, Pending
  <2>2. \A id \in DOMAIN statuses' : id # next_id => statuses[id].state = Tickets[id]
    BY <1>6, <1>9
  <2> QED
    BY <1>8, <1>9, <2>1, <2>2
<1>11. \A id \in DOMAIN Tickets \ {k \in DOMAIN Tickets : k >= oldest} : Tickets[id] # "pending"
  BY <1>5, <1>6, <1>7, <1>8, <1>9
<1> QED
  BY <1>1, <1>2, <1>3, <1>4, <1>5, <1>10, <1>11 DEF Service!Accept, Service!Retained

LEMMA ResolveStep ==
  ASSUME CapsFit, ServiceInv, Settle
  PROVE  Service!Resolve
<1> DEFINE id == BatchStart + settled
<1>t. /\ TypeOK /\ IdShape /\ StatusShape /\ WorkShape /\ HistoryInv
      /\ SentShape /\ OutcomeShape
  BY DEF ServiceInv, HistoryInv, PublishInv, QueueInv, BoundsInv
<1>1. /\ settled + 1 \in 1..Len(batch) /\ batch[settled + 1].id = id /\ id \in DOMAIN statuses
  BY <1>t, NextToSettleIsRetained DEF Settle
<1>2. /\ statuses' = [statuses EXCEPT ![id] = outcome]
      /\ UNCHANGED <<pending, next_id, ledger, network, epoch>>
      /\ pc = "settling" /\ pc' # "publishing" /\ outcome.state \in {"confirmed", "failed"}
  BY <1>1, <1>t DEF Settle, SetStatus, WorkShape, TypeOK, BatchStatus
<1>3. OpenNotes' = OpenNotes /\ PublishedNotes' = PublishedNotes
  BY <1>2 DEF OpenNotes, PublishedNotes, Unsent, ItemsOf, NotesOf, Landed, Range
<1>4. Tickets[id] = "pending" /\ id \in DOMAIN Tickets
  <2>1. id \in Nat
    BY <1>1, <1>t DEF TypeOK
  <2> QED
    BY <1>1, <1>t, <2>1 DEF Tickets, StatusShape
<1>5. Tickets' = [Tickets EXCEPT ![id] = outcome.state]
  BY <1>1, <1>2 DEF Tickets
<1>6. outcome.state = "confirmed" => <<epoch, id>> \in PublishedNotes
  <2> SUFFICES ASSUME outcome.state = "confirmed" PROVE <<epoch, id>> \in PublishedNotes
    OBVIOUS
  <2>1. PICK tx \in Landed : tx.sig = sig
    BY <1>t, <1>2 DEF OutcomeShape, Sigs
  <2>2. tx.epoch = epoch /\ tx.batch = batch
    BY <1>t, <1>2, <2>1 DEF SentShape, Own, Sent
  <2>3. <<epoch, id>> \in ItemsOf(tx.batch, tx.epoch)
    BY <1>1, <2>2 DEF ItemsOf
  <2> QED
    BY <2>3 DEF PublishedNotes, NotesOf
<1> HIDE DEF id
<1> QED
  BY <1>2, <1>3, <1>4, <1>5, <1>6 DEF Service!Resolve

LEMMA PublishStep ==
  ASSUME ServiceInv, NEW tx \in network, Land(tx)
  PROVE  Service!Publish
<1> DEFINE notes == ItemsOf(tx.batch, tx.epoch)
<1>t. TypeOK /\ PublishInv
  BY DEF ServiceInv, PublishInv, QueueInv, BoundsInv
<1>1. /\ UNCHANGED <<pending, next_id, statuses, epoch, pc, batch>>
      /\ network' = network \ {tx} /\ Landed' = Landed \cup {tx}
  BY <1>t, LandingAppends DEF Land, queueVars, publisherVars, TypeOK
<1>2. PublishedNotes' = PublishedNotes \cup notes
  BY <1>1, NotesOfUnion DEF PublishedNotes
<1>3. ItemsOf(pending, epoch)' = ItemsOf(pending, epoch) /\ ItemsOf(Unsent, epoch)' = ItemsOf(Unsent, epoch)
  BY <1>1 DEF ItemsOf, Unsent
<1>4. NotesOf(network)' = NotesOf(network) \ notes
  BY <1>t, <1>1, NotesLeaveNetwork
<1>5. notes \cap (ItemsOf(pending, epoch) \cup ItemsOf(Unsent, epoch)) = {}
  BY <1>t, SentNotesNotWaiting
<1>6. notes \subseteq OpenNotes
  BY DEF OpenNotes, NotesOf
<1> HIDE DEF notes
<1>7. OpenNotes' = OpenNotes \ notes
  BY <1>3, <1>4, <1>5 DEF OpenNotes
<1>8. Tickets' = Tickets
  BY <1>1 DEF Tickets
<1> QED
  BY <1>1, <1>2, <1>6, <1>7, <1>8 DEF Service!Publish

LEMMA CrashStep ==
  ASSUME Restart
  PROVE  Service!Crash
<1>1. /\ epoch' = epoch + 1 /\ next_id' = 0 /\ statuses' = [id \in {} |-> Pending]
      /\ pending' = <<>> /\ pc' = "sleeping" /\ UNCHANGED <<ledger, network>>
  BY DEF Restart
<1>2. Tickets' = [id \in {} |-> "pending"]
  BY <1>1 DEF Tickets
<1>3. OpenNotes' = NotesOf(network)
  BY <1>1, NoNotes DEF OpenNotes, Unsent, ItemsOf, NotesOf
<1>4. OpenNotes' \in SUBSET OpenNotes
  BY <1>3 DEF OpenNotes
<1>5. PublishedNotes' = PublishedNotes
  BY <1>1 DEF PublishedNotes, Landed, Range
<1> QED
  BY <1>1, <1>2, <1>4, <1>5 DEF Service!Crash, Service!NoTickets

\* The publisher drops an unsent batch, or the network a transaction.
LEMMA GiveUpStep ==
  ASSUME \/ SendRefused \/ ConfirmOk \/ ConfirmExpired \/ RpcFails
         \/ \E tx \in network : Expire(tx)
  PROVE  Service!GiveUp
<1>1. /\ UNCHANGED <<pending, next_id, statuses, epoch, batch, ledger>>
      /\ network' \subseteq network /\ (pc' # pc => pc' # "publishing")
  BY DEF SendRefused, ConfirmOk, ConfirmExpired, RpcFails, Conclude, Expire, queueVars, publisherVars
<1>2. ItemsOf(Unsent, epoch)' \subseteq ItemsOf(Unsent, epoch)
  BY <1>1, NoNotes DEF Unsent, ItemsOf
<1>3. NotesOf(network)' \subseteq NotesOf(network)
  BY <1>1 DEF NotesOf
<1>4. ItemsOf(pending, epoch)' = ItemsOf(pending, epoch)
  BY <1>1 DEF ItemsOf
<1>5. OpenNotes' \in SUBSET OpenNotes
  BY <1>2, <1>3, <1>4 DEF OpenNotes
<1>6. PublishedNotes' = PublishedNotes /\ Tickets' = Tickets
  BY <1>1 DEF PublishedNotes, Landed, Range, Tickets
<1> QED
  BY <1>1, <1>5, <1>6 DEF Service!GiveUp

\* Draining and sending move notes, and are not seen.
LEMMA HiddenStep ==
  ASSUME ServiceInv, Drain \/ Send \/ UNCHANGED vars
  PROVE  UNCHANGED Service!serviceVars
<1>t. TypeOK /\ WorkShape
  BY DEF ServiceInv, HistoryInv, QueueInv, BoundsInv
<1>1. UNCHANGED <<next_id, statuses, epoch, ledger>>
  BY DEF Drain, TakePending, Send, vars, queueVars
<1>2. PublishedNotes' = PublishedNotes /\ Tickets' = Tickets
  BY <1>1 DEF PublishedNotes, Landed, Range, Tickets
<1>3. CASE Drain
  <2> DEFINE n == TakeLen(MaxBatch)
  <2>1. /\ pending # <<>> /\ batch' = Taken(MaxBatch) /\ TakePending(MaxBatch)
        /\ pc = "sleeping" /\ pc' = "publishing" /\ network' = network
    BY <1>3 DEF Drain
  <2>2. /\ n \in 1..Len(pending) /\ Len(batch') = n
        /\ \A i \in 1..n : batch'[i] = pending[i]
        /\ Len(pending') = Len(pending) - n
        /\ \A i \in 1..(Len(pending) - n) : pending'[i] = pending[i + n]
    BY <1>t, <2>1, TakeSplits, AnnouncerConstants DEF TypeOK
  <2> HIDE DEF n
  <2>n. Len(pending) \in Nat
    BY <1>t, LengthsAreNat
  <2>3. ItemsOf(pending, epoch) \subseteq ItemsOf(pending, epoch)' \cup ItemsOf(batch, epoch)'
    <3> SUFFICES ASSUME NEW i \in 1..Len(pending)
                 PROVE  \/ \E j \in 1..Len(pending') : pending[i].id = pending'[j].id
                        \/ \E j \in 1..Len(batch') : pending[i].id = batch'[j].id
      BY <1>1 DEF ItemsOf
    <3>1. CASE i <= n
      BY <2>n, <2>2, <3>1
    <3>2. CASE ~(i <= n)
      <4>1. i - n \in 1..(Len(pending) - n) /\ (i - n) + n = i
        BY <2>n, <2>2, <3>2
      <4>2. pending'[i - n] = pending[i]
        BY <2>2, <4>1
      <4> QED
        BY <2>2, <4>1, <4>2
    <3> QED
      BY <3>1, <3>2
  <2>4. ItemsOf(pending, epoch)' \cup ItemsOf(batch, epoch)' \subseteq ItemsOf(pending, epoch)
    <3>1. \A i \in 1..Len(batch') : i \in 1..Len(pending) /\ batch'[i] = pending[i]
      BY <2>n, <2>2
    <3>2. \A i \in 1..Len(pending') : i + n \in 1..Len(pending) /\ pending'[i] = pending[i + n]
      BY <2>n, <2>2
    <3> QED
      BY <1>1, <3>1, <3>2 DEF ItemsOf
  <2>5. ItemsOf(Unsent, epoch) = {} /\ ItemsOf(Unsent, epoch)' = ItemsOf(batch, epoch)'
    BY <2>1, NoNotes DEF Unsent, ItemsOf
  <2>6. NotesOf(network)' = NotesOf(network)
    BY <2>1 DEF NotesOf
  <2>7. OpenNotes' = OpenNotes
    BY <2>3, <2>4, <2>5, <2>6 DEF OpenNotes
  <2> QED
    BY <1>1, <1>2, <2>7 DEF Service!serviceVars
<1>4. CASE Send
  <2>0. PICK new : new = [sig |-> next_sig, epoch |-> epoch, batch |-> batch]
    OBVIOUS
  <2>1. /\ network' = network \cup {new} /\ new.epoch = epoch /\ new.batch = batch
        /\ pc = "publishing" /\ pc' = "confirming" /\ UNCHANGED <<pending, batch>>
    BY <1>4, <2>0 DEF Send, queueVars
  <2>2. NotesOf(network)' = NotesOf(network) \cup ItemsOf(batch, epoch)
    BY <2>1, NotesOfUnion
  <2>3. ItemsOf(Unsent, epoch) = ItemsOf(batch, epoch) /\ ItemsOf(Unsent, epoch)' = {}
    BY <2>1, NoNotes DEF Unsent, ItemsOf
  <2>4. ItemsOf(pending, epoch)' = ItemsOf(pending, epoch)
    BY <1>1, <2>1 DEF ItemsOf
  <2>5. OpenNotes' = OpenNotes
    BY <2>2, <2>3, <2>4 DEF OpenNotes
  <2> QED
    BY <1>1, <1>2, <2>5 DEF Service!serviceVars
<1>5. CASE UNCHANGED vars
  <2>1. UNCHANGED <<pending, pc, batch, network>>
    BY <1>5 DEF vars, queueVars, publisherVars
  <2>2. OpenNotes' = OpenNotes
    BY <1>1, <2>1 DEF OpenNotes, Unsent, ItemsOf, NotesOf
  <2> QED
    BY <1>1, <1>2, <2>2 DEF Service!serviceVars
<1> QED
  BY <1>3, <1>4, <1>5

------------------------------------------------------------------------------
(* The theorem *)

LEMMA InitMaps == Init => Service!ServiceInit
<1> SUFFICES ASSUME Init PROVE Service!ServiceInit
  OBVIOUS
<1>1. /\ epoch = 0 /\ next_id = 0 /\ statuses = [id \in {} |-> Pending]
      /\ pending = <<>> /\ pc = "sleeping" /\ ledger = <<>> /\ network = {}
  BY DEF Init, QueueInit
<1>2. Tickets = [id \in {} |-> "pending"]
  BY <1>1 DEF Tickets
<1>3. OpenNotes = {}
  BY <1>1, NoNotes DEF OpenNotes, Unsent
<1>4. Landed = {}
  <2>1. ledger \in Seq(Transaction) /\ Len(ledger) = 0
    BY <1>1, EmptySeq
  <2> QED
    BY <2>1, LandedIsLedger
<1>5. PublishedNotes = {}
  BY <1>4, NoNotes DEF PublishedNotes
<1> QED
  BY <1>1, <1>2, <1>3, <1>5 DEF Service!ServiceInit, Service!NoTickets

LEMMA StepMaps ==
  ASSUME CapsFit
  PROVE  ServiceInv /\ [Next]_vars => [Service!ServiceNext]_(Service!serviceVars)
<1> SUFFICES ASSUME ServiceInv, [Next]_vars
             PROVE  Service!ServiceNext \/ UNCHANGED Service!serviceVars
  OBVIOUS
<1>1. ASSUME NEW req \in Requests, PostAnnounce(req)
      PROVE  Service!Accept
  BY <1>1, AcceptStep
<1>2. CASE Drain \/ Send \/ UNCHANGED vars
  BY <1>2, HiddenStep
<1>3. CASE SendRefused \/ ConfirmOk \/ ConfirmExpired \/ RpcFails \/ \E tx \in network : Expire(tx)
  BY <1>3, GiveUpStep DEF Service!ServiceNext
<1>4. CASE Settle
  BY <1>4, ResolveStep DEF Service!ServiceNext
<1>5. ASSUME NEW tx \in network, Land(tx)
      PROVE  Service!Publish
  BY <1>5, PublishStep
<1>6. CASE Restart
  BY <1>6, CrashStep DEF Service!ServiceNext
<1> QED
  BY <1>1, <1>2, <1>3, <1>4, <1>5, <1>6 DEF Next, RefuseAnnounce, Service!ServiceNext

\* Seen through its status endpoint and the pinboard, the service with its
\* queue, lock, batches, RPC faults and crashes does nothing that the abstract
\* service may not do, as long as the history cap leaves room for the work in
\* hand.
THEOREM ServiceIsImplemented ==
  ASSUME CapsFit
  PROVE  Spec => ImplementsService
<1>1. Init => ServiceInv
  BY HistoryInvInit, PublishInvInit DEF ServiceInv
<1>2. ServiceInv /\ [Next]_vars => ServiceInv'
  BY HistoryInvStep, PublishInvStep DEF ServiceInv
<1> QED
  BY <1>1, <1>2, InitMaps, StepMaps, PTL DEF Spec, ImplementsService, Service!ServiceSpec
==============================================================================
