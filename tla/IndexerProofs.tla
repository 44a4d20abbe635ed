---------------------------- MODULE IndexerProofs ----------------------------
(***************************************************************************)
(* Theorems about Indexer, for every value of its constants.               *)
(***************************************************************************)
EXTENDS IndexerInvariant, SequenceTheorems, FiniteSetTheorems, WellFoundedInduction, TLAPS

------------------------------------------------------------------------------
(* What the operations produce *)

\* insert: the row goes to the back, and a full store loses its front.
LEMMA InsertSlides ==
  ASSUME NEW row \in Row, items \in Seq(Row), dropped \in Nat, Len(items) <= Cap, Insert(row)
  PROVE  LET over == IF Len(items) = Cap THEN 1 ELSE 0
         IN  /\ items' \in Seq(Row)
             /\ dropped' = dropped + over
             /\ Len(items') = Len(items) + 1 - over
             /\ \A i \in 1..(Len(items') - 1) : items'[i] = items[i + over]
             /\ items'[Len(items')] = row
<1> DEFINE over == IF Len(items) = Cap THEN 1 ELSE 0
           all == Append(items, row)
<1>0. Len(items) \in Nat /\ Cap \in Nat \ {0} /\ over \in {0, 1} /\ over <= Len(items)
  BY StoreCap, LenProperties
<1>1. /\ all \in Seq(Row)
      /\ Len(all) = Len(items) + 1
      /\ \A i \in 1..Len(items) : all[i] = items[i]
      /\ all[Len(items) + 1] = row
  BY AppendProperties
<1>2. (IF Len(all) > Cap THEN Len(all) - Cap ELSE 0) = over
  BY <1>0, <1>1
<1>3. items' = SubSeq(all, over + 1, Len(all)) /\ dropped' = dropped + over
  BY <1>2 DEF Insert
<1> HIDE DEF over, all
<1>4. /\ items' \in Seq(Row)
      /\ Len(items') = (IF over + 1 <= Len(all) THEN Len(all) - (over + 1) + 1 ELSE 0)
      /\ \A i \in 1..(Len(all) - (over + 1) + 1) : items'[i] = all[(over + 1) + i - 1]
  <2>1. over + 1 \in Int /\ Len(all) \in Int
    BY <1>0, <1>1
  <2>2. \A i \in (over + 1)..Len(all) : all[i] \in Row
    BY <1>0, <1>1, ElementOfSeq
  <2> QED
    BY <2>1, <2>2, <1>3, SubSeqProperties
<1>5. /\ Len(items') = Len(items) + 1 - over
      /\ Len(all) - (over + 1) + 1 = Len(items')
      /\ \A i \in Nat : (over + 1) + i - 1 = i + over
  BY <1>0, <1>1, <1>4
<1>6. \A i \in 1..Len(items') : items'[i] = all[i + over]
  BY <1>4, <1>5
<1>7. /\ Len(items') \in 1..Len(items') /\ Len(items') + over = Len(items) + 1
      /\ \A i \in 1..(Len(items') - 1) : i \in 1..Len(items') /\ i + over \in 1..Len(items)
  BY <1>0, <1>5
<1>8. /\ \A i \in 1..(Len(items') - 1) : items'[i] = items[i + over]
      /\ items'[Len(items')] = row
  BY <1>1, <1>6, <1>7
<1> QED
  BY <1>3, <1>4, <1>5, <1>8 DEF over

\* A number of logged notes is a natural number.
LEMMA EmittedCountIsNat ==
  ASSUME NEW entries \in Batches
  PROVE  EmittedCount(entries) \in Nat
<1>1. Len(entries) \in Nat
  BY IndexerConstants, LenProperties
<1> DEFINE upTo == {i \in 1..Len(entries) :
                     \A j \in 1..i : entries[j].metadata_len <= MaxMetadataLen}
<1>2. IsFiniteSet(1..Len(entries))
  BY <1>1, FS_Interval
<1>3. upTo \in SUBSET (1..Len(entries))
  OBVIOUS
<1>4. IsFiniteSet(upTo)
  BY <1>2, <1>3, FS_Subset
<1>5. Cardinality(upTo) \in Nat
  BY <1>4, FS_CardinalityType
<1> QED
  BY <1>5 DEF EmittedCount

\* The rows of one message: of one transaction, with its slot, in order.
LEMMA RowsOfMessage ==
  ASSUME ledger \in Seq(Tx), NEW n \in 1..Len(ledger)
  PROVE  /\ NotesFromLog(n) \in Seq(Row)
         /\ EmittedCount(ledger[n].entries) \in Nat
         /\ Len(NotesFromLog(n)) = EmittedCount(ledger[n].entries)
         /\ \A i \in 1..Len(NotesFromLog(n)) :
              NotesFromLog(n)[i] = [slot |-> ledger[n].slot, tx |-> n, pos |-> i]
<1> DEFINE count == EmittedCount(ledger[n].entries)
           rows == [i \in 1..count |-> [slot |-> ledger[n].slot, tx |-> n, pos |-> i]]
<1>1. ledger[n] \in Tx
  BY ElementOfSeq
<1>2. ledger[n].slot \in Nat /\ ledger[n].entries \in Batches /\ n \in Nat
  BY <1>1, LenProperties DEF Tx
<1>3. count \in Nat
  BY <1>2, EmittedCountIsNat
<1>4. \A i \in 1..count : [slot |-> ledger[n].slot, tx |-> n, pos |-> i] \in Row
  BY <1>2, <1>3 DEF Row
<1>5. NotesFromLog(n) = rows
  BY DEF NotesFromLog
<1> HIDE DEF count
<1>6. rows \in [1..count -> Row]
  BY <1>4
<1>7. rows \in Seq(Row) /\ Len(rows) = count
  BY <1>3, <1>6
<1> QED
  BY <1>3, <1>5, <1>7 DEF count

------------------------------------------------------------------------------
(* The actions, as far as they change chain, messages and store *)

\* A confirmed transaction takes the next position, at the slot of the last
\* one or a later one.
LEMMA ConfirmAppends ==
  ASSUME IngestTypes, ChainShape,
         NEW slot \in Tip..MaxSlot, NEW entries \in Batches, Confirm(slot, entries)
  PROVE  /\ ledger' \in Seq(Tx)
         /\ Len(ledger') = Len(ledger) + 1
         /\ \A n \in 1..Len(ledger) : ledger'[n] = ledger[n]
         /\ ledger'[Len(ledger) + 1] = [slot |-> slot, entries |-> entries]
         /\ ChainShape'
<1> DEFINE tx == [slot |-> slot, entries |-> entries]
<1>0. Len(ledger) \in Nat /\ MaxSlot \in Nat
  BY LenProperties, IndexerConstants DEF IngestTypes
<1>1. /\ Tip \in Nat
      /\ \A n \in 1..Len(ledger) : ledger[n].slot \in Nat /\ ledger[n].slot <= Tip
  <2>1. \A n \in 1..Len(ledger) : ledger[n].slot \in Nat
    <3>1. \A n \in 1..Len(ledger) : ledger[n] \in Tx
      BY ElementOfSeq DEF IngestTypes
    <3> QED
      BY <3>1 DEF Tx
  <2>2. CASE ledger = <<>>
    <3>1. Tip = 1 /\ Len(ledger) = 0
      BY <2>2 DEF Tip
    <3> QED
      BY <3>1
  <2>3. CASE ledger # <<>>
    <3>1. Len(ledger) \in 1..Len(ledger)
      BY <2>3, <1>0, EmptySeq DEF IngestTypes
    <3>2. Tip = ledger[Len(ledger)].slot
      BY <2>3 DEF Tip
    <3>3. \A n \in 1..Len(ledger) : n <= Len(ledger)
      BY <1>0
    <3> QED
      BY <2>1, <3>1, <3>2, <3>3 DEF ChainShape
  <2> QED
    BY <2>2, <2>3
<1>2. slot \in Nat /\ Tip <= slot
  BY <1>0, <1>1
<1>3. tx \in Tx
  BY <1>2 DEF Tx
<1>4. ledger' = Append(ledger, tx)
  BY DEF Confirm, Execute
<1>5. /\ ledger' \in Seq(Tx)
      /\ Len(ledger') = Len(ledger) + 1
      /\ \A n \in 1..Len(ledger) : ledger'[n] = ledger[n]
      /\ ledger'[Len(ledger) + 1] = tx
  BY <1>3, <1>4, AppendProperties DEF IngestTypes
<1>6. ChainShape'
  <2> SUFFICES ASSUME NEW m \in 1..Len(ledger'), NEW n \in 1..Len(ledger'), m <= n
               PROVE  ledger'[m].slot <= ledger'[n].slot
    BY DEF ChainShape
  <2>1. CASE n \in 1..Len(ledger)
    <3>1. m \in 1..Len(ledger)
      BY <1>0, <2>1
    <3> QED
      BY <2>1, <3>1, <1>5 DEF ChainShape
  <2>2. CASE n = Len(ledger) + 1
    <3>1. ledger'[n].slot = slot
      BY <2>2, <1>5
    <3>2. CASE m = n
      BY <3>1, <3>2, <1>2
    <3>3. CASE m \in 1..Len(ledger)
      BY <3>1, <3>3, <1>1, <1>2, <1>5
    <3> QED
      BY <3>2, <3>3, <2>2, <1>0
  <2> QED
    BY <2>1, <2>2, <1>0, <1>5
<1> QED
  BY <1>5, <1>6

\* One note goes from the message in hand to the store and the history.
LEMMA OnNoteMoves ==
  ASSUME IngestTypes, OnNote
  PROVE  /\ Head(current) \in Row /\ Head(current) = current[1] /\ 1 \in 1..Len(current)
         /\ current' \in Seq(Row)
         /\ Len(current') = Len(current) - 1
         /\ \A i \in 1..Len(current') : current'[i] = current[i + 1] /\ i + 1 \in 1..Len(current)
         /\ ingested' \in Seq(Row)
         /\ Len(ingested') = Len(ingested) + 1
         /\ \A i \in 1..Len(ingested) : ingested'[i] = ingested[i]
         /\ ingested'[Len(ingested) + 1] = Head(current)
<1>1. current \in Seq(Row) /\ current # <<>> /\ ingested \in Seq(Row)
  BY DEF IngestTypes, OnNote
<1>2. Len(current) \in Nat \ {0}
  BY <1>1, EmptySeq
<1>3. /\ Head(current) \in Row
      /\ Tail(current) \in Seq(Row)
      /\ Len(Tail(current)) = Len(current) - 1
      /\ \A i \in 1..Len(Tail(current)) : Tail(current)[i] = current[i + 1]
  BY <1>1, HeadTailProperties
<1>4. Head(current) = current[1]
  BY <1>1
<1>5. current' = Tail(current) /\ ingested' = Append(ingested, Head(current))
  BY DEF OnNote
<1>6. \A i \in 1..Len(current') : i + 1 \in 1..Len(current)
  BY <1>2, <1>3, <1>5
<1>7. 1 \in 1..Len(current)
  BY <1>2
<1> QED
  BY <1>1, <1>3, <1>4, <1>5, <1>6, <1>7, AppendProperties

\* A message becomes the rows in hand.
LEMMA NextMessageParses ==
  ASSUME IngestTypes, FeedShape, NextMessage
  PROVE  /\ 1 \in 1..Len(feed) /\ feed[1] \in 1..Len(ledger)
         /\ current = <<>> /\ current' = NotesFromLog(feed[1])
         /\ feed' \in Seq(Nat)
         /\ Len(feed') = Len(feed) - 1
         /\ \A i \in 1..Len(feed') : feed'[i] = feed[i + 1] /\ i + 1 \in 1..Len(feed)
<1>1. feed \in Seq(Nat) /\ feed # <<>>
  BY DEF IngestTypes, NextMessage
<1>2. Len(feed) \in Nat \ {0}
  BY <1>1, EmptySeq
<1>3. /\ Tail(feed) \in Seq(Nat)
      /\ Len(Tail(feed)) = Len(feed) - 1
      /\ \A i \in 1..Len(Tail(feed)) : Tail(feed)[i] = feed[i + 1]
  BY <1>1, HeadTailProperties
<1>4. Head(feed) = feed[1]
  BY <1>1
<1>5. 1 \in 1..Len(feed)
  BY <1>2
<1>6. \A i \in 1..Len(Tail(feed)) : i + 1 \in 1..Len(feed)
  BY <1>2, <1>3
<1> QED
  BY <1>3, <1>4, <1>5, <1>6 DEF NextMessage, FeedShape

\* What a broken connection still delivers is a front part of what was sent.
LEMMA CutKeepsFront ==
  ASSUME IngestTypes, NEW arrived \in 0..Len(feed), Cut(arrived)
  PROVE  /\ feed' \in Seq(Nat)
         /\ Len(feed') = arrived
         /\ \A i \in 1..Len(feed') : feed'[i] = feed[i] /\ i \in 1..Len(feed)
<1>1. feed \in Seq(Nat) /\ Len(feed) \in Nat
  BY LenProperties DEF IngestTypes
<1>2. feed' = SubSeq(feed, 1, arrived)
  BY DEF Cut
<1>3. arrived \in Nat /\ \A i \in 1..arrived : i \in 1..Len(feed)
  BY <1>1
<1>4. \A i \in 1..arrived : feed[i] \in Nat
  BY <1>1, <1>3, ElementOfSeq
<1>5. /\ feed' \in Seq(Nat)
      /\ Len(feed') = (IF 1 <= arrived THEN arrived - 1 + 1 ELSE 0)
      /\ \A i \in 1..(arrived - 1 + 1) : feed'[i] = feed[1 + i - 1]
  BY <1>2, <1>3, <1>4, SubSeqProperties
<1>6. /\ Len(feed') = arrived
      /\ arrived - 1 + 1 = arrived
      /\ \A i \in 1..arrived : 1 + i - 1 = i
  BY <1>3, <1>5
<1> QED
  BY <1>3, <1>5, <1>6

------------------------------------------------------------------------------
(* The inductive invariant *)

LEMMA IndexInvInit == Init => IndexInv
<1> SUFFICES ASSUME Init PROVE IndexInv
  OBVIOUS
<1>1. /\ ledger = <<>> /\ items = <<>> /\ feed = <<>> /\ current = <<>> /\ ingested = <<>>
      /\ dropped = 0 /\ base = 0
  BY DEF Init, StoreInit
<1>2. IngestTypes
  BY <1>1, EmptySeq DEF IngestTypes
<1>3. ChainShape /\ FeedShape /\ RowShape
  BY <1>1 DEF ChainShape, FeedShape, RowShape
<1>4. StoreIsWindow
  BY <1>1, StoreCap DEF StoreIsWindow
<1> QED
  BY <1>2, <1>3, <1>4 DEF IndexInv

\* Steps that change neither the messages nor the store.
LEMMA IndexInvUnchanged ==
  ASSUME IndexInv, UNCHANGED <<ledger, items, dropped, feed, current, ingested, base>>
  PROVE  IndexInv'
<1>1. IngestTypes' /\ ChainShape' /\ FeedShape'
  BY DEF IndexInv, IngestTypes, ChainShape, FeedShape
<1>2. RowShape'
  BY DEF IndexInv, RowShape, Placed, Before
<1>3. StoreIsWindow'
  BY DEF IndexInv, StoreIsWindow
<1> QED
  BY <1>1, <1>2, <1>3 DEF IndexInv

\* What is placed stays placed while the chain grows and the messages to come
\* are among those that were, or newer than every transaction so far.
LEMMA PlacedStays ==
  ASSUME NEW row, Placed(row), Len(ledger) \in Nat, Len(ledger') \in Nat,
         Len(ledger) <= Len(ledger'),
         \A n \in 1..Len(ledger) : ledger'[n] = ledger[n],
         \A i \in 1..Len(feed') :
           feed'[i] = Len(ledger) + 1 \/ \E j \in 1..Len(feed) : feed'[i] = feed[j]
  PROVE  /\ row.tx \in 1..Len(ledger')
         /\ row.slot = ledger'[row.tx].slot
         /\ \A i \in 1..Len(feed') : row.tx < feed'[i]
<1>1. row.tx \in 1..Len(ledger) /\ row.slot = ledger[row.tx].slot
      /\ \A i \in 1..Len(feed) : row.tx < feed[i]
  BY DEF Placed
<1>2. row.tx \in 1..Len(ledger') /\ row.slot = ledger'[row.tx].slot
  BY <1>1
<1>3. ASSUME NEW i \in 1..Len(feed') PROVE row.tx < feed'[i]
  <2>1. CASE feed'[i] = Len(ledger) + 1
    BY <1>1, <2>1
  <2>2. CASE \E j \in 1..Len(feed) : feed'[i] = feed[j]
    BY <1>1, <2>2
  <2> QED
    BY <2>1, <2>2
<1> QED
  BY <1>2, <1>3

LEMMA ConfirmKeepsIndexInv ==
  ASSUME IndexInv, NEW slot \in Tip..MaxSlot, NEW entries \in Batches, Confirm(slot, entries)
  PROVE  IndexInv'
<1>1. IngestTypes /\ ChainShape /\ FeedShape /\ RowShape /\ StoreIsWindow
  BY DEF IndexInv
<1>2. /\ ledger' \in Seq(Tx)
      /\ Len(ledger') = Len(ledger) + 1
      /\ \A n \in 1..Len(ledger) : ledger'[n] = ledger[n]
      /\ ChainShape'
  BY <1>1, ConfirmAppends
<1>3. UNCHANGED <<items, dropped, current, ingested, base>>
  BY DEF Confirm, storeVars
<1>4. Len(ledger) \in Nat /\ Len(ledger') \in Nat /\ Len(feed) \in Nat
  BY <1>1, <1>2, LenProperties DEF IngestTypes
<1>5. /\ feed' \in Seq(Nat)
      /\ \/ feed' = feed
         \/ /\ Len(feed') = Len(feed) + 1
            /\ \A i \in 1..Len(feed) : feed'[i] = feed[i]
            /\ feed'[Len(feed) + 1] = Len(ledger) + 1
  <2>1. feed \in Seq(Nat) /\ Len(ledger) + 1 \in Nat
    BY <1>1, <1>4 DEF IngestTypes
  <2>2. feed' = feed \/ feed' = Append(feed, Len(ledger) + 1)
    BY DEF Confirm
  <2> DEFINE longer == Append(feed, Len(ledger) + 1)
  <2>3. /\ longer \in Seq(Nat)
        /\ Len(longer) = Len(feed) + 1
        /\ \A i \in 1..Len(feed) : longer[i] = feed[i]
        /\ longer[Len(feed) + 1] = Len(ledger) + 1
    BY <2>1, AppendProperties
  <2>4. feed' = feed \/ feed' = longer
    BY <2>2
  <2> HIDE DEF longer
  <2> QED
    BY <2>1, <2>3, <2>4
<1>6. \A i \in 1..Len(feed') :
        feed'[i] = Len(ledger) + 1 \/ \E j \in 1..Len(feed) : feed'[i] = feed[j]
  BY <1>4, <1>5
<1>7. IngestTypes'
  BY <1>1, <1>2, <1>3, <1>5 DEF IngestTypes
<1>8. FeedShape'
  <2>1. /\ \A i \in 1..Len(feed) : feed[i] \in 1..Len(ledger)
        /\ \A i, j \in 1..Len(feed) : i < j => feed[i] < feed[j]
    BY <1>1 DEF FeedShape
  <2>2. \A i \in 1..Len(feed') : feed'[i] \in 1..Len(ledger')
    BY <2>1, <1>2, <1>4, <1>6
  <2>3. ASSUME NEW i \in 1..Len(feed'), NEW j \in 1..Len(feed'), i < j
        PROVE  feed'[i] < feed'[j]
    <3>1. CASE feed' = feed
      BY <2>1, <2>3, <3>1
    <3>2. CASE /\ Len(feed') = Len(feed) + 1
               /\ \A k \in 1..Len(feed) : feed'[k] = feed[k]
               /\ feed'[Len(feed) + 1] = Len(ledger) + 1
      <4>1. i \in 1..Len(feed)
        BY <2>3, <3>2, <1>4
      <4>2. CASE j \in 1..Len(feed)
        BY <2>1, <2>3, <3>2, <4>1, <4>2
      <4>3. CASE j = Len(feed) + 1
        BY <2>1, <3>2, <4>1, <4>3, <1>4
      <4> QED
        BY <4>2, <4>3, <3>2, <1>4
    <3> QED
      BY <3>1, <3>2, <1>5
  <2> QED
    BY <2>2, <2>3 DEF FeedShape
<1>9. RowShape'
  <2>1. ASSUME NEW row, Placed(row)
        PROVE  /\ row.tx \in 1..Len(ledger')
               /\ row.slot = ledger'[row.tx].slot
               /\ \A i \in 1..Len(feed') : row.tx < feed'[i]
    BY <2>1, <1>2, <1>4, <1>6, PlacedStays
  <2>2. /\ \A i \in 1..Len(current) : Placed(current[i])
        /\ \A i \in 1..Len(ingested) : Placed(ingested[i])
    BY <1>1 DEF RowShape
  <2>3. /\ \A i \in 1..Len(current') : Placed(current[i])'
        /\ \A i \in 1..Len(ingested') : Placed(ingested[i])'
    BY <2>1, <2>2, <1>3 DEF Placed
  <2> QED
    BY <2>3, <1>1, <1>3 DEF RowShape, Before
<1>10. StoreIsWindow'
  BY <1>1, <1>3 DEF StoreIsWindow
<1> QED
  BY <1>2, <1>7, <1>8, <1>9, <1>10 DEF IndexInv

LEMMA CutKeepsIndexInv ==
  ASSUME IndexInv, NEW arrived \in 0..Len(feed), Cut(arrived)
  PROVE  IndexInv'
<1>1. IngestTypes /\ ChainShape /\ FeedShape /\ RowShape /\ StoreIsWindow
  BY DEF IndexInv
<1>2. UNCHANGED <<ledger, items, dropped, current, ingested, base>>
  BY DEF Cut, storeVars
<1>3. /\ feed' \in Seq(Nat)
      /\ \A i \in 1..Len(feed') : feed'[i] = feed[i] /\ i \in 1..Len(feed)
  BY <1>1, CutKeepsFront
<1>4. IngestTypes' /\ ChainShape'
  BY <1>1, <1>2, <1>3 DEF IngestTypes, ChainShape
<1>5. FeedShape'
  BY <1>1, <1>2, <1>3 DEF FeedShape
<1>6. RowShape'
  <2>1. \A row : Placed(row) => row.tx \in 1..Len(ledger) /\ row.slot = ledger[row.tx].slot
                                /\ \A i \in 1..Len(feed') : row.tx < feed'[i]
    BY <1>3 DEF Placed
  <2>2. /\ \A i \in 1..Len(current) : Placed(current[i])
        /\ \A i \in 1..Len(ingested) : Placed(ingested[i])
    BY <1>1 DEF RowShape
  <2>3. /\ \A i \in 1..Len(current') : Placed(current[i])'
        /\ \A i \in 1..Len(ingested') : Placed(ingested[i])'
    BY <2>1, <2>2, <1>2 DEF Placed
  <2> QED
    BY <2>3, <1>1, <1>2 DEF RowShape, Before
<1>7. StoreIsWindow'
  BY <1>1, <1>2 DEF StoreIsWindow
<1> QED
  BY <1>4, <1>5, <1>6, <1>7 DEF IndexInv

LEMMA NextMessageKeepsIndexInv ==
  ASSUME IndexInv, NextMessage
  PROVE  IndexInv'
<1>1. IngestTypes /\ ChainShape /\ FeedShape /\ RowShape /\ StoreIsWindow
  BY DEF IndexInv
<1>2. UNCHANGED <<ledger, items, dropped, ingested, base>>
  BY DEF NextMessage, storeVars, historyVars
<1>3. /\ 1 \in 1..Len(feed) /\ feed[1] \in 1..Len(ledger)
      /\ current = <<>> /\ current' = NotesFromLog(feed[1])
      /\ feed' \in Seq(Nat)
      /\ \A i \in 1..Len(feed') : feed'[i] = feed[i + 1] /\ i + 1 \in 1..Len(feed)
  BY <1>1, NextMessageParses
<1> DEFINE n == feed[1]
<1>4. /\ current' \in Seq(Row)
      /\ \A i \in 1..Len(current') :
           current'[i] = [slot |-> ledger[n].slot, tx |-> n, pos |-> i]
  BY <1>1, <1>3, RowsOfMessage DEF IngestTypes
<1>5. \A i \in 1..Len(current') :
        /\ current'[i].slot = ledger[n].slot
        /\ current'[i].tx = n
        /\ current'[i].pos = i
  <2> SUFFICES ASSUME NEW i \in 1..Len(current')
               PROVE  /\ current'[i].slot = ledger[n].slot
                      /\ current'[i].tx = n
                      /\ current'[i].pos = i
    OBVIOUS
  <2>1. PICK row : row = current'[i]
    OBVIOUS
  <2>2. row = [slot |-> ledger[n].slot, tx |-> n, pos |-> i]
    BY <2>1, <1>4
  <2> HIDE DEF n
  <2>3. row.slot = ledger[n].slot /\ row.tx = n /\ row.pos = i
    BY <2>2
  <2> QED
    BY <2>1, <2>3
<1>6. \A i \in 1..Len(feed') : n < feed'[i]
  <2>1. \A i \in 1..Len(feed') : 1 < i + 1
    BY <1>3, LenProperties
  <2> QED
    BY <2>1, <1>1, <1>3 DEF FeedShape
<1>7. IngestTypes' /\ ChainShape'
  BY <1>1, <1>2, <1>3, <1>4 DEF IngestTypes, ChainShape
<1>8. FeedShape'
  <2>1. \A i, j \in 1..Len(feed') : i < j => i + 1 < j + 1
    BY <1>3, LenProperties
  <2> QED
    BY <2>1, <1>1, <1>2, <1>3 DEF FeedShape
<1>9. RowShape'
  <2>1. \A i \in 1..Len(current') : Placed(current[i])'
    BY <1>2, <1>3, <1>5, <1>6 DEF Placed
  <2>2. \A i \in 1..Len(ingested) : Placed(ingested[i]) /\ ingested[i].tx < n
    BY <1>1, <1>3 DEF RowShape, Placed
  <2>3. \A i \in 1..Len(ingested') : Placed(ingested[i])'
    BY <2>2, <1>2, <1>3 DEF Placed
  <2>4. \A i, j \in 1..Len(current') : i < j => Before(current[i], current[j])'
    BY <1>5 DEF Before
  <2>5. \A i \in 1..Len(ingested'), j \in 1..Len(current') : Before(ingested[i], current[j])'
    BY <2>2, <1>2, <1>5 DEF Before
  <2>6. \A i, j \in 1..Len(ingested') : i < j => Before(ingested[i], ingested[j])'
    BY <1>1, <1>2 DEF RowShape, Before
  <2> QED
    BY <2>1, <2>3, <2>4, <2>5, <2>6 DEF RowShape
<1>10. StoreIsWindow'
  BY <1>1, <1>2 DEF StoreIsWindow
<1> QED
  BY <1>7, <1>8, <1>9, <1>10 DEF IndexInv

LEMMA OnNoteKeepsIndexInv ==
  ASSUME IndexInv, OnNote
  PROVE  IndexInv'
<1>1. IngestTypes /\ ChainShape /\ FeedShape /\ RowShape /\ StoreIsWindow
  BY DEF IndexInv
<1>2. UNCHANGED <<ledger, feed, base>> /\ Insert(Head(current))
  BY DEF OnNote
<1>3. /\ Head(current) \in Row /\ Head(current) = current[1] /\ 1 \in 1..Len(current)
      /\ current' \in Seq(Row)
      /\ \A i \in 1..Len(current') : current'[i] = current[i + 1] /\ i + 1 \in 1..Len(current)
      /\ ingested' \in Seq(Row)
      /\ Len(ingested') = Len(ingested) + 1
      /\ \A i \in 1..Len(ingested) : ingested'[i] = ingested[i]
      /\ ingested'[Len(ingested) + 1] = Head(current)
  BY <1>1, OnNoteMoves
<1>4. Len(ingested) \in Nat /\ Len(items) \in Nat /\ Len(current') \in Nat /\ Cap \in Nat \ {0}
      /\ base \in Nat /\ dropped \in Nat
  BY <1>1, <1>3, LenProperties, StoreCap DEF IngestTypes
<1> DEFINE row == current[1]
           over == IF Len(items) = Cap THEN 1 ELSE 0
<1>5. /\ items' \in Seq(Row)
      /\ dropped' = dropped + over
      /\ Len(items') = Len(items) + 1 - over
      /\ \A i \in 1..(Len(items') - 1) : items'[i] = items[i + over]
      /\ items'[Len(items')] = row
  BY <1>1, <1>2, <1>3, InsertSlides DEF IngestTypes, StoreIsWindow
<1>6. over \in {0, 1} /\ over <= Len(items) /\ Len(items) + 1 - over <= Cap
  BY <1>1, <1>4 DEF StoreIsWindow
<1> HIDE DEF over
<1>7. IngestTypes' /\ ChainShape' /\ FeedShape'
  <2>1. dropped' \in Nat
    BY <1>4, <1>5, <1>6
  <2> QED
    BY <2>1, <1>1, <1>2, <1>3, <1>5 DEF IngestTypes, ChainShape, FeedShape
<1>8. RowShape'
  <2>0. /\ \A i \in 1..Len(current) : Placed(current[i])
        /\ \A i \in 1..Len(ingested) : Placed(ingested[i])
        /\ \A i, j \in 1..Len(current) : i < j => Before(current[i], current[j])
        /\ \A i, j \in 1..Len(ingested) : i < j => Before(ingested[i], ingested[j])
        /\ \A i \in 1..Len(ingested), j \in 1..Len(current) : Before(ingested[i], current[j])
    BY <1>1 DEF RowShape
  <2>1. \A r : Placed(r)' <=> Placed(r)
    BY <1>2 DEF Placed
  <2>2. \A i \in 1..Len(ingested') : \/ i \in 1..Len(ingested) /\ ingested'[i] = ingested[i]
                                     \/ i = Len(ingested) + 1 /\ ingested'[i] = row
    BY <1>3, <1>4
  <2>3. \A i \in 1..Len(current') : Placed(current'[i])
    BY <2>0, <1>3
  <2>4. \A i \in 1..Len(ingested') : Placed(ingested'[i])
    BY <2>0, <2>2, <1>3
  <2>5. \A i, j \in 1..Len(current') : i < j => Before(current'[i], current'[j])
    <3>1. \A i, j \in 1..Len(current') : i < j => i + 1 < j + 1
      BY <1>4
    <3> QED
      BY <3>1, <2>0, <1>3
  <2>6. \A i, j \in 1..Len(ingested') : i < j => Before(ingested'[i], ingested'[j])
    <3>1. \A i, j \in 1..Len(ingested') : i < j => i \in 1..Len(ingested)
      BY <1>3, <1>4
    <3> QED
      BY <3>1, <2>0, <2>2, <1>3
  <2>7. \A i \in 1..Len(ingested'), j \in 1..Len(current') : Before(ingested'[i], current'[j])
    <3>1. \A j \in 1..Len(current') : 1 < j + 1
      BY <1>4
    <3> QED
      BY <3>1, <2>0, <2>2, <1>3
  <2>8. /\ \A i \in 1..Len(current') : Placed(current[i])'
        /\ \A i \in 1..Len(ingested') : Placed(ingested[i])'
    BY <2>3, <2>4, <1>2 DEF Placed
  <2> QED
    BY <2>5, <2>6, <2>7, <2>8 DEF RowShape, Before
<1>9. StoreIsWindow'
  <2>1. /\ Len(items) <= Cap
        /\ base + dropped + Len(items) = Len(ingested)
        /\ \A i \in 1..Len(items) : items[i] = ingested[base + dropped + i]
    BY <1>1 DEF StoreIsWindow
  <2>2. Len(items') <= Cap /\ base' + dropped' + Len(items') = Len(ingested')
    <3> HIDE DEF row
    <3>1. /\ base' = base /\ dropped' = dropped + over
          /\ Len(items') = Len(items) + 1 - over /\ Len(ingested') = Len(ingested) + 1
      BY <1>2, <1>3, <1>5
    <3>2. over \in Nat
      BY <1>6
    <3> QED
      BY <2>1, <3>1, <3>2, <1>4, <1>6
  <2>3. ASSUME NEW i \in 1..Len(items')
        PROVE  items'[i] = ingested'[base' + dropped' + i]
    <3>1. CASE i = Len(items')
      <4>1. base' + dropped' + i = Len(ingested) + 1
        BY <2>2, <3>1, <1>3
      <4> QED
        BY <4>1, <3>1, <1>3, <1>5
    <3>2. CASE i # Len(items')
      <4>1. /\ i \in 1..(Len(items') - 1)
            /\ i + over \in 1..Len(items)
        BY <3>2, <1>4, <1>5, <1>6
      <4>2. items'[i] = ingested[base + dropped + (i + over)]
        BY <4>1, <2>1, <1>5
      <4>3. /\ base' + dropped' + i = base + dropped + (i + over)
            /\ base + dropped + (i + over) \in 1..Len(ingested)
        BY <4>1, <2>1, <1>2, <1>4, <1>5, <1>6
      <4> QED
        BY <4>2, <4>3, <1>3
    <3> QED
      BY <3>1, <3>2
  <2> QED
    BY <2>2, <2>3 DEF StoreIsWindow
<1> QED
  BY <1>7, <1>8, <1>9 DEF IndexInv

LEMMA RestartKeepsIndexInv ==
  ASSUME IndexInv, Restart
  PROVE  IndexInv'
<1>1. IngestTypes /\ ChainShape /\ RowShape
  BY DEF IndexInv
<1>2. /\ items' = <<>> /\ dropped' = 0 /\ feed' = <<>> /\ current' = <<>>
      /\ base' = Len(ingested)
      /\ UNCHANGED <<ledger, ingested>>
  BY DEF Restart
<1>3. Len(ingested) \in Nat
  BY <1>1, LenProperties DEF IngestTypes
<1>4. IngestTypes' /\ ChainShape' /\ FeedShape'
  BY <1>1, <1>2, <1>3, EmptySeq DEF IngestTypes, ChainShape, FeedShape
<1>5. RowShape'
  BY <1>1, <1>2 DEF RowShape, Placed, Before
<1>6. StoreIsWindow'
  BY <1>2, <1>3, StoreCap DEF StoreIsWindow
<1> QED
  BY <1>4, <1>5, <1>6 DEF IndexInv

LEMMA IndexInvStep == IndexInv /\ [Next]_vars => IndexInv'
<1> SUFFICES ASSUME IndexInv, [Next]_vars PROVE IndexInv'
  OBVIOUS
<1>1. ASSUME NEW slot \in Tip..MaxSlot, NEW entries \in Batches, Confirm(slot, entries)
      PROVE  IndexInv'
  BY <1>1, ConfirmKeepsIndexInv
<1>2. CASE Connect
  BY <1>2, IndexInvUnchanged DEF Connect, storeVars, historyVars
<1>3. CASE StreamEnds
  BY <1>3, IndexInvUnchanged DEF StreamEnds, storeVars, historyVars
<1>4. CASE NextMessage
  BY <1>4, NextMessageKeepsIndexInv
<1>5. CASE OnNote
  BY <1>5, OnNoteKeepsIndexInv
<1>6. ASSUME NEW arrived \in 0..Len(feed), Cut(arrived) PROVE IndexInv'
  BY <1>6, CutKeepsIndexInv
<1>7. CASE Restart
  BY <1>7, RestartKeepsIndexInv
<1>8. CASE Poll
  BY <1>8, IndexInvUnchanged DEF Poll, storeVars, ingestVars, historyVars
<1>9. CASE UNCHANGED vars
  BY <1>9, IndexInvUnchanged DEF vars, storeVars, ingestVars, historyVars
<1> QED
  BY <1>1, <1>2, <1>3, <1>4, <1>5, <1>6, <1>7, <1>8, <1>9 DEF Next

\* Chain, store and ingest task keep their types.
THEOREM IngestTyped == Spec => []IngestTypes
<1>1. IndexInv => IngestTypes
  BY DEF IndexInv
<1> QED
  BY <1>1, IndexInvInit, IndexInvStep, PTL DEF Spec

\* The store is exactly the newest rows of what this run of the process
\* ingested, and /health accounts for all the others.
THEOREM StoreIsAlwaysWindow == Spec => []StoreIsWindow
<1>1. IndexInv => StoreIsWindow
  BY DEF IndexInv
<1> QED
  BY <1>1, IndexInvInit, IndexInvStep, PTL DEF Spec

\* Whatever connections and crashes do, the indexer ingests notes in the order
\* of the chain, each at most once, with ascending slots.
THEOREM IngestsInChainOrder == Spec => []InChainOrder
<1>1. IndexInv => InChainOrder
  <2> SUFFICES ASSUME IndexInv, NEW i \in 1..Len(ingested), NEW j \in 1..Len(ingested), i < j
               PROVE  /\ ingested[i].slot <= ingested[j].slot
                      /\ \/ ingested[i].tx < ingested[j].tx
                         \/ ingested[i].tx = ingested[j].tx /\ ingested[i].pos < ingested[j].pos
    BY DEF InChainOrder
  <2>1. Placed(ingested[i]) /\ Placed(ingested[j]) /\ Before(ingested[i], ingested[j])
    BY DEF IndexInv, RowShape
  <2>2. ingested[i].tx <= ingested[j].tx
    BY <2>1 DEF Before, Placed
  <2>3. ingested[i].slot <= ingested[j].slot
    BY <2>1, <2>2 DEF IndexInv, ChainShape, Placed
  <2> QED
    BY <2>1, <2>3 DEF Before
<1> QED
  BY <1>1, IndexInvInit, IndexInvStep, PTL DEF Spec

------------------------------------------------------------------------------
(* No note gets lost inside the task *)

\* The rows of a message stand for the notes its transaction logged.
LEMMA RowsAreLogged ==
  ASSUME ledger \in Seq(Tx), NEW n \in 1..Len(ledger)
  PROVE  NotesIn(NotesFromLog(n)) = Logged(n)
<1> DEFINE count == EmittedCount(ledger[n].entries)
<1>1. /\ count \in Nat
      /\ Len(NotesFromLog(n)) = count
      /\ \A i \in 1..count : NotesFromLog(n)[i] = [slot |-> ledger[n].slot, tx |-> n, pos |-> i]
  BY RowsOfMessage
<1>2. \A i \in 1..count : NoteOf(NotesFromLog(n)[i]) = <<n, i>>
  BY <1>1 DEF NoteOf
<1>3. Logged(n) = {<<n, i>> : i \in 1..count}
  BY DEF Logged
<1>4. NotesIn(NotesFromLog(n)) = {NoteOf(NotesFromLog(n)[i]) : i \in 1..count}
  BY <1>1 DEF NotesIn
<1> QED
  BY <1>2, <1>3, <1>4

LEMMA ConfirmDropsNone ==
  ASSUME IndexInv, NoneDropped,
         NEW slot \in Tip..MaxSlot, NEW entries \in Batches, Confirm(slot, entries)
  PROVE  NoneDropped'
<1>1. IngestTypes /\ ChainShape /\ FeedShape
  BY DEF IndexInv
<1>2. Len(ledger) \in Nat /\ Len(feed) \in Nat /\ feed \in Seq(Nat)
  BY <1>1, LenProperties DEF IngestTypes
<1>3. PICK new \in Nat : new = Len(ledger) + 1
  BY <1>2
<1>4. /\ Len(ledger') = new
      /\ \A n \in 1..Len(ledger) : ledger'[n] = ledger[n]
      /\ ledger'[new] = [slot |-> slot, entries |-> entries]
  BY <1>1, <1>3, ConfirmAppends
<1>5. PICK notes : notes = [n \in 1..new |-> {n} \X (1..EmittedCount(ledger'[n].entries))]
  OBVIOUS
<1>6. /\ \A n \in 1..Len(ledger) : n \in 1..new /\ notes[n] = Logged(n)
      /\ \A n \in 1..new : notes[n] = {n} \X (1..EmittedCount(ledger'[n].entries))
  BY <1>2, <1>3, <1>4, <1>5 DEF Logged
<1>7. /\ 1..new = 1..Len(ledger) \cup {new}
      /\ \A i \in 1..Len(feed) : feed[i] \in 1..Len(ledger)
  BY <1>1, <1>2, <1>3 DEF FeedShape
<1>8. notes[new] = {<<new, i>> : i \in 1..EmittedCount(entries)}
  <2>1. new \in 1..new /\ ledger'[new].entries = entries
    BY <1>4, <1>7
  <2> QED
    BY <2>1, <1>6
<1>9. UNION {Logged(n) : n \in 1..Len(ledger)} = UNION {notes[n] : n \in 1..Len(ledger)}
  BY <1>6
<1>10. NotesOfTxs(feed) = UNION {notes[feed[i]] : i \in 1..Len(feed)}
  BY <1>6, <1>7 DEF NotesOfTxs
<1>11. (UNION {Logged(n) : n \in 1..Len(ledger)})'
         = (UNION {notes[n] : n \in 1..Len(ledger)}) \cup notes[new]
  <2>1. (UNION {Logged(n) : n \in 1..Len(ledger)})' = UNION {notes[n] : n \in 1..new}
    BY <1>4, <1>6 DEF Logged
  <2> QED
    BY <2>1, <1>7
<1>12. UNCHANGED <<current, ingested>>
  BY DEF Confirm
<1>13. (NotesOfTxs(feed) \cup missed)' = NotesOfTxs(feed) \cup missed \cup notes[new]
  <2>1. CASE link = "up"
    <3>1. missed' = missed /\ feed' = Append(feed, new)
      BY <1>3, <2>1 DEF Confirm
    <3> DEFINE longer == Append(feed, new)
    <3>2. /\ Len(longer) = Len(feed) + 1
          /\ \A i \in 1..Len(feed) : longer[i] = feed[i]
          /\ longer[Len(feed) + 1] = new
      BY <1>2, AppendProperties
    <3>3. 1..(Len(feed) + 1) = 1..Len(feed) \cup {Len(feed) + 1}
      BY <1>2
    <3>4. \A i \in 1..Len(feed') : feed'[i] \in 1..new
      BY <1>7, <3>1, <3>2, <3>3
    <3>5. NotesOfTxs(feed)' = UNION {notes[feed'[i]] : i \in 1..Len(feed')}
      BY <1>6, <3>4 DEF NotesOfTxs, Logged
    <3>6. {feed'[i] : i \in 1..Len(feed')} = {feed[i] : i \in 1..Len(feed)} \cup {new}
      BY <3>1, <3>2, <3>3
    <3>7. UNION {notes[feed'[i]] : i \in 1..Len(feed')}
            = (UNION {notes[feed[i]] : i \in 1..Len(feed)}) \cup notes[new]
      <4>1. UNION {notes[feed'[i]] : i \in 1..Len(feed')}
              = UNION {notes[n] : n \in {feed'[i] : i \in 1..Len(feed')}}
        OBVIOUS
      <4>2. UNION {notes[feed[i]] : i \in 1..Len(feed)}
              = UNION {notes[n] : n \in {feed[i] : i \in 1..Len(feed)}}
        OBVIOUS
      <4> QED
        BY <4>1, <4>2, <3>6
    <3> QED
      BY <3>1, <3>5, <3>7, <1>10
  <2>2. CASE link # "up"
    <3>1. missed' = missed \cup {<<new, i>> : i \in 1..EmittedCount(entries)} /\ feed' = feed
      BY <1>3, <2>2 DEF Confirm
    <3>2. NotesOfTxs(feed)' = UNION {notes[feed[i]] : i \in 1..Len(feed)}
      BY <1>6, <1>7, <3>1 DEF NotesOfTxs, Logged
    <3> QED
      BY <3>1, <3>2, <1>8, <1>10
  <2> QED
    BY <2>1, <2>2
<1> QED
  BY <1>9, <1>11, <1>12, <1>13 DEF NoneDropped, NotesIn

LEMMA CutDropsNone ==
  ASSUME IndexInv, NoneDropped, NEW arrived \in 0..Len(feed), Cut(arrived)
  PROVE  NoneDropped'
<1>1. feed \in Seq(Nat) /\ Len(feed) \in Nat
  BY LenProperties DEF IndexInv, IngestTypes
<1>2. /\ UNCHANGED <<ledger, current, ingested>>
      /\ missed' = missed \cup NotesOfTxs(SubSeq(feed, arrived + 1, Len(feed)))
  BY DEF Cut
<1>3. /\ Len(feed') = arrived
      /\ \A i \in 1..arrived : feed'[i] = feed[i]
  BY CutKeepsFront DEF IndexInv
<1> DEFINE rest == SubSeq(feed, arrived + 1, Len(feed))
<1>4. {feed[i] : i \in 1..Len(feed)}
        = {feed[i] : i \in 1..arrived} \cup {rest[i] : i \in 1..Len(rest)}
  <2>1. arrived + 1 \in Int /\ Len(feed) \in Int
        /\ \A i \in (arrived + 1)..Len(feed) : i \in 1..Len(feed) /\ feed[i] \in Nat
    BY <1>1, ElementOfSeq
  <2>2. /\ Len(rest) = (IF arrived + 1 <= Len(feed) THEN Len(feed) - (arrived + 1) + 1 ELSE 0)
        /\ \A i \in 1..(Len(feed) - (arrived + 1) + 1) : rest[i] = feed[(arrived + 1) + i - 1]
    BY <2>1, SubSeqProperties
  <2> HIDE DEF rest
  <2>3. /\ Len(rest) = Len(feed) - arrived
        /\ Len(feed) - (arrived + 1) + 1 = Len(feed) - arrived
        /\ \A i \in 1..(Len(feed) - arrived) : (arrived + 1) + i - 1 = arrived + i
    BY <1>1, <2>2
  <2>4. \A i \in 1..Len(rest) : rest[i] = feed[arrived + i] /\ arrived + i \in 1..Len(feed)
    BY <1>1, <2>2, <2>3
  <2>5. \A k \in 1..Len(feed) : k \in 1..arrived \/ (k - arrived \in 1..Len(rest)
                                                      /\ rest[k - arrived] = feed[k])
    <3> SUFFICES ASSUME NEW k \in 1..Len(feed), k \notin 1..arrived
                 PROVE  k - arrived \in 1..Len(rest) /\ rest[k - arrived] = feed[k]
      OBVIOUS
    <3>1. k - arrived \in 1..Len(rest) /\ arrived + (k - arrived) = k
      BY <1>1, <2>3
    <3>2. rest[k - arrived] = feed[arrived + (k - arrived)]
      BY <3>1, <2>4
    <3> QED
      BY <3>1, <3>2
  <2>6. \A i \in 1..arrived : i \in 1..Len(feed)
    BY <1>1
  <2> QED
    BY <2>4, <2>5, <2>6
<1>5. NotesOfTxs(feed)' = UNION {Logged(n) : n \in {feed[i] : i \in 1..arrived}}
  <2>1. NotesOfTxs(feed)' = UNION {Logged(feed'[i]) : i \in 1..Len(feed')}
    BY <1>2 DEF NotesOfTxs, Logged
  <2>2. {feed'[i] : i \in 1..Len(feed')} = {feed[i] : i \in 1..arrived}
    BY <1>3
  <2>3. UNION {Logged(feed'[i]) : i \in 1..Len(feed')}
          = UNION {Logged(n) : n \in {feed'[i] : i \in 1..Len(feed')}}
    OBVIOUS
  <2> QED
    BY <2>1, <2>2, <2>3
<1>6. NotesOfTxs(feed) = UNION {Logged(n) : n \in {feed[i] : i \in 1..Len(feed)}}
  BY DEF NotesOfTxs
<1>7. NotesOfTxs(rest) = UNION {Logged(n) : n \in {rest[i] : i \in 1..Len(rest)}}
  BY DEF NotesOfTxs
<1>8. NotesOfTxs(feed)' \cup NotesOfTxs(rest) = NotesOfTxs(feed)
  <2> HIDE DEF rest
  <2> QED
    BY <1>4, <1>5, <1>6, <1>7
<1>9. (UNION {Logged(n) : n \in 1..Len(ledger)})' = UNION {Logged(n) : n \in 1..Len(ledger)}
  BY <1>2 DEF Logged
<1> QED
  BY <1>2, <1>8, <1>9 DEF NoneDropped, NotesIn

LEMMA NextMessageDropsNone ==
  ASSUME IndexInv, NoneDropped, NextMessage
  PROVE  NoneDropped'
<1>1. /\ ledger \in Seq(Tx)
      /\ 1 \in 1..Len(feed) /\ feed[1] \in 1..Len(ledger)
      /\ current = <<>> /\ current' = NotesFromLog(feed[1])
      /\ Len(feed') = Len(feed) - 1
      /\ \A i \in 1..Len(feed') : feed'[i] = feed[i + 1] /\ i + 1 \in 1..Len(feed)
      /\ Len(feed) \in Nat
  BY NextMessageParses, LenProperties DEF IndexInv, IngestTypes
<1>2. UNCHANGED <<ledger, ingested, missed>>
  BY DEF NextMessage, historyVars
<1>3. NotesIn(current') = Logged(feed[1])
  BY <1>1, RowsAreLogged
<1>4. NotesIn(current) = {}
  BY <1>1 DEF NotesIn
<1>5. {feed[i] : i \in 1..Len(feed)} = {feed[1]} \cup {feed'[i] : i \in 1..Len(feed')}
  <2>1. \A k \in 1..Len(feed) : k = 1 \/ (k - 1 \in 1..Len(feed') /\ feed'[k - 1] = feed[k])
    <3> SUFFICES ASSUME NEW k \in 1..Len(feed), k # 1
                 PROVE  k - 1 \in 1..Len(feed') /\ feed'[k - 1] = feed[k]
      OBVIOUS
    <3>1. k - 1 \in 1..Len(feed') /\ (k - 1) + 1 = k
      BY <1>1
    <3>2. feed'[k - 1] = feed[(k - 1) + 1]
      BY <3>1, <1>1
    <3> QED
      BY <3>1, <3>2
  <2>2. /\ \A i \in 1..Len(feed') : i + 1 \in 1..Len(feed) /\ feed'[i] = feed[i + 1]
        /\ 1 \in 1..Len(feed)
    BY <1>1
  <2>3. {feed[i] : i \in 1..Len(feed)} \subseteq {feed[1]} \cup {feed'[i] : i \in 1..Len(feed')}
    BY <2>1
  <2>4. {feed[1]} \cup {feed'[i] : i \in 1..Len(feed')} \subseteq {feed[i] : i \in 1..Len(feed)}
    BY <2>2
  <2> QED
    BY <2>3, <2>4
<1>6. NotesOfTxs(feed) = UNION {Logged(n) : n \in {feed[i] : i \in 1..Len(feed)}}
  BY DEF NotesOfTxs
<1>7. NotesOfTxs(feed)' = UNION {Logged(n) : n \in {feed'[i] : i \in 1..Len(feed')}}
  BY <1>2 DEF NotesOfTxs, Logged
<1>8. NotesOfTxs(feed) = NotesIn(current)' \cup NotesOfTxs(feed)'
  <2>1. NotesIn(current)' = Logged(feed[1])
    BY <1>3 DEF NotesIn
  <2> QED
    BY <2>1, <1>5, <1>6, <1>7
<1>9. (UNION {Logged(n) : n \in 1..Len(ledger)})' = UNION {Logged(n) : n \in 1..Len(ledger)}
  BY <1>2 DEF Logged
<1>10. NotesIn(ingested)' = NotesIn(ingested)
  BY <1>2 DEF NotesIn
<1> QED
  BY <1>2, <1>4, <1>8, <1>9, <1>10 DEF NoneDropped

LEMMA OnNoteDropsNone ==
  ASSUME IndexInv, NoneDropped, OnNote
  PROVE  NoneDropped'
<1>1. /\ 1 \in 1..Len(current) /\ Head(current) = current[1]
      /\ Len(current') = Len(current) - 1
      /\ \A i \in 1..Len(current') : current'[i] = current[i + 1] /\ i + 1 \in 1..Len(current)
      /\ Len(ingested') = Len(ingested) + 1
      /\ \A i \in 1..Len(ingested) : ingested'[i] = ingested[i]
      /\ ingested'[Len(ingested) + 1] = Head(current)
      /\ Len(current) \in Nat /\ Len(ingested) \in Nat
  BY OnNoteMoves, LenProperties DEF IndexInv, IngestTypes
<1>2. UNCHANGED <<ledger, feed, missed>>
  BY DEF OnNote
<1>3. NotesIn(current) = {NoteOf(current[1])} \cup NotesIn(current')
  <2>1. \A k \in 1..Len(current) :
          k = 1 \/ (k - 1 \in 1..Len(current') /\ current'[k - 1] = current[k])
    <3> SUFFICES ASSUME NEW k \in 1..Len(current), k # 1
                 PROVE  k - 1 \in 1..Len(current') /\ current'[k - 1] = current[k]
      OBVIOUS
    <3>1. k - 1 \in 1..Len(current') /\ (k - 1) + 1 = k
      BY <1>1
    <3>2. current'[k - 1] = current[(k - 1) + 1]
      BY <3>1, <1>1
    <3> QED
      BY <3>1, <3>2
  <2> QED
    BY <2>1, <1>1 DEF NotesIn
<1>4. NotesIn(ingested') = NotesIn(ingested) \cup {NoteOf(current[1])}
  <2>1. 1..Len(ingested') = 1..Len(ingested) \cup {Len(ingested) + 1}
    BY <1>1
  <2> QED
    BY <2>1, <1>1 DEF NotesIn
<1>5. /\ (UNION {Logged(n) : n \in 1..Len(ledger)})' = UNION {Logged(n) : n \in 1..Len(ledger)}
      /\ NotesOfTxs(feed)' = NotesOfTxs(feed)
  BY <1>2 DEF NotesOfTxs, Logged
<1>6. NotesIn(current)' = NotesIn(current') /\ NotesIn(ingested)' = NotesIn(ingested')
  BY DEF NotesIn
<1> QED
  BY <1>2, <1>3, <1>4, <1>5, <1>6 DEF NoneDropped

LEMMA OthersDropNone ==
  ASSUME NoneDropped, UNCHANGED <<ledger, feed, current, ingested, missed>>
  PROVE  NoneDropped'
BY DEF NoneDropped, NotesOfTxs, NotesIn, Logged

LEMMA NoneDroppedStep == IndexInv /\ NoneDropped /\ [Next]_vars => NoneDropped'
<1> SUFFICES ASSUME IndexInv, NoneDropped, [Next]_vars PROVE NoneDropped'
  OBVIOUS
<1>1. ASSUME NEW slot \in Tip..MaxSlot, NEW entries \in Batches, Confirm(slot, entries)
      PROVE  NoneDropped'
  BY <1>1, ConfirmDropsNone
<1>2. CASE Connect
  BY <1>2, OthersDropNone DEF Connect, historyVars
<1>3. CASE StreamEnds
  BY <1>3, OthersDropNone DEF StreamEnds, historyVars
<1>4. CASE NextMessage
  BY <1>4, NextMessageDropsNone
<1>5. CASE OnNote
  BY <1>5, OnNoteDropsNone
<1>6. ASSUME NEW arrived \in 0..Len(feed), Cut(arrived) PROVE NoneDropped'
  BY <1>6, CutDropsNone
<1>7. CASE Restart
  <2>1. /\ feed' = <<>> /\ current' = <<>> /\ UNCHANGED <<ledger, ingested>>
        /\ missed' = missed \cup NotesIn(current) \cup NotesOfTxs(feed)
    BY <1>7 DEF Restart
  <2>2. NotesIn(current)' = {} /\ NotesOfTxs(feed)' = {}
    BY <2>1 DEF NotesIn, NotesOfTxs
  <2>3. /\ (UNION {Logged(n) : n \in 1..Len(ledger)})' = UNION {Logged(n) : n \in 1..Len(ledger)}
        /\ NotesIn(ingested)' = NotesIn(ingested)
    BY <2>1 DEF NotesIn, Logged
  <2> QED
    BY <2>1, <2>2, <2>3 DEF NoneDropped
<1>8. CASE Poll
  BY <1>8, OthersDropNone DEF Poll, ingestVars, historyVars
<1>9. CASE UNCHANGED vars
  BY <1>9, OthersDropNone DEF vars, ingestVars, historyVars
<1> QED
  BY <1>1, <1>2, <1>3, <1>4, <1>5, <1>6, <1>7, <1>8, <1>9 DEF Next

\* Every note logged on the chain is ingested, on its way, or was lost by the
\* network or a crash: never by the task.
THEOREM IngestDropsNone == Spec => []NoneDropped
<1>1. Init => NoneDropped
  BY DEF Init, NoneDropped, NotesIn, NotesOfTxs
<1> QED
  BY <1>1, IndexInvInit, IndexInvStep, NoneDroppedStep, PTL DEF Spec

------------------------------------------------------------------------------
(* What a client is served *)

\* A set of naturals with a bound has a greatest element, which Max names.
LEMMA GreatestElement ==
  ASSUME NEW S \in SUBSET Nat, S # {}, NEW b \in Nat, \A x \in S : x <= b
  PROVE  Max(S) \in S /\ \A x \in S : Max(S) >= x
<1> DEFINE Below == {n \in Nat : \E x \in S : n = b - x}
<1>1. IsWellFoundedOn(OpToRel(<, Nat), Nat)
  BY NatLessThanWellFounded
<1>2. Below \in SUBSET Nat /\ Below # {}
  <2>1. PICK x \in S : x <= b
    OBVIOUS
  <2>2. b - x \in Nat
    BY <2>1
  <2> QED
    BY <2>1, <2>2
<1> HIDE DEF Below
<1>3. PICK least \in Below : \A n \in Below : ~(<<n, least>> \in OpToRel(<, Nat))
  BY <1>1, <1>2, WFMin, Zenon
<1>4. \A n \in Below : ~(n < least)
  BY <1>2, <1>3 DEF OpToRel
<1>5. PICK top \in S : least = b - top
  BY <1>3 DEF Below
<1>6. \A x \in S : top >= x
  <2> SUFFICES ASSUME NEW x \in S, x > top PROVE FALSE
    BY <1>5
  <2>1. b - x \in Below
    BY DEF Below
  <2> QED
    BY <1>4, <1>5, <2>1
<1> QED
  BY <1>5, <1>6 DEF Max

\* Slots ascend along the rows ever ingested, and so along the store.
LEMMA SlotsAscend ==
  ASSUME IndexInv
  PROVE  /\ Len(items) \in Nat /\ Len(ingested) \in Nat
         /\ \A i \in 1..Len(ingested) : ingested[i].slot \in Nat
         /\ \A i, j \in 1..Len(ingested) : i <= j => ingested[i].slot <= ingested[j].slot
         /\ \A i \in 1..Len(items) : items[i].slot \in Nat
         /\ \A i, j \in 1..Len(items) : i <= j => items[i].slot <= items[j].slot
         /\ \A i \in 1..Len(items) : \E k \in 1..Len(ingested) : items[i] = ingested[k]
<1>i. IngestTypes /\ ChainShape /\ RowShape /\ StoreIsWindow
  BY DEF IndexInv
<1>1. /\ Len(items) \in Nat /\ Len(ingested) \in Nat /\ Len(ledger) \in Nat
      /\ base \in Nat /\ dropped \in Nat
      /\ \A i \in 1..Len(ingested) : ingested[i] \in Row
  BY <1>i, LenProperties, ElementOfSeq DEF IngestTypes
<1>2. \A i \in 1..Len(ingested) : ingested[i].slot \in Nat /\ ingested[i].tx \in Nat
  BY <1>1 DEF Row
<1>3. \A i, j \in 1..Len(ingested) : i <= j => ingested[i].slot <= ingested[j].slot
  <2> SUFFICES ASSUME NEW i \in 1..Len(ingested), NEW j \in 1..Len(ingested), i < j
               PROVE  ingested[i].slot <= ingested[j].slot
    BY <1>1, <1>2
  <2>1. Placed(ingested[i]) /\ Placed(ingested[j]) /\ ingested[i].tx <= ingested[j].tx
    BY <1>i, <1>2 DEF RowShape, Before
  <2> QED
    BY <1>i, <2>1 DEF Placed, ChainShape
<1>4. \A i \in 1..Len(items) : /\ base + dropped + i \in 1..Len(ingested)
                               /\ items[i] = ingested[base + dropped + i]
  BY <1>i, <1>1 DEF StoreIsWindow
<1>5. \A i, j \in 1..Len(items) : i <= j => items[i].slot <= items[j].slot
  <2> SUFFICES ASSUME NEW i \in 1..Len(items), NEW j \in 1..Len(items), i <= j
               PROVE  items[i].slot <= items[j].slot
    OBVIOUS
  <2>1. base + dropped + i <= base + dropped + j
    BY <1>1
  <2> QED
    BY <1>3, <1>4, <2>1
<1> QED
  BY <1>1, <1>2, <1>3, <1>4, <1>5

\* A row that is kept and not in the page comes after every row of the page.
LEMMA PageIsFront ==
  ASSUME Len(items) \in Nat, NEW from \in Nat, NEW limit \in Nat,
         NEW i \in Kept(from) \ Query(from, limit), NEW m \in Query(from, limit)
  PROVE  m < i
<1> DEFINE ahead(k) == {j \in Kept(from) : j < k}
<1>1. Kept(from) \subseteq 1..Len(items)
  BY DEF Kept
<1>2. i \in 1..Len(items) /\ m \in 1..Len(items)
  BY <1>1 DEF Query
<1> SUFFICES ASSUME i <= m PROVE FALSE
  BY <1>2
<1>3. IsFiniteSet(1..Len(items))
  BY FS_Interval
<1>4. IsFiniteSet(ahead(m)) /\ ahead(i) \subseteq ahead(m)
  BY <1>1, <1>2, <1>3, FS_Subset
<1>5. /\ Cardinality(ahead(i)) \in Nat /\ Cardinality(ahead(m)) \in Nat
      /\ Cardinality(ahead(i)) <= Cardinality(ahead(m))
  BY <1>4, FS_Subset, FS_CardinalityType
<1>6. Cardinality(ahead(m)) < limit /\ ~(Cardinality(ahead(i)) < limit)
  BY DEF Query
<1> QED
  BY <1>5, <1>6

\* The limit the server applies.
LEMMA EffectiveLimitIsNat == EffectiveLimit(ClientLimit) \in Nat
<1> DEFINE asked == IF ClientLimit = NoLimit THEN DefaultLimit ELSE ClientLimit
<1>1. asked \in Nat /\ MaxLimit \in Nat
  BY IndexerConstants
<1> HIDE DEF asked
<1>2. \E x \in {asked, MaxLimit} : \A y \in {asked, MaxLimit} : x <= y
  BY <1>1
<1>3. Min({asked, MaxLimit}) \in {asked, MaxLimit}
  BY <1>2 DEF Min
<1> QED
  BY <1>1, <1>3 DEF EffectiveLimit, asked

\* A poll goes on from the slot of a row that it returns, or from where it was.
LEMMA PollAdvances ==
  ASSUME IndexInv, SinceShape, Poll
  PROVE  /\ since' \in Nat /\ since <= since'
         /\ since' = since \/ \E m \in Page : since' = items[m].slot
         /\ Page \subseteq 1..Len(items)
<1> DEFINE slots == {since} \cup {items[i].slot : i \in Page}
<1>0. since \in Nat /\ Page \subseteq 1..Len(items)
  BY DEF SinceShape, Page, Query, Kept
<1>1. \A i, j \in 1..Len(items) : i <= j => items[i].slot <= items[j].slot
  BY SlotsAscend
<1>2. Len(items) \in Nat /\ \A i \in 1..Len(items) : items[i].slot \in Nat
  BY SlotsAscend
<1>3. slots \in SUBSET Nat /\ slots # {}
  BY <1>0, <1>2
<1>4. PICK b \in Nat : \A x \in slots : x <= b
  <2>1. CASE Page = {}
    BY <1>0, <2>1
  <2>2. CASE Page # {}
    <3>1. Len(items) \in 1..Len(items)
      BY <1>0, <1>2, <2>2
    <3>2. items[Len(items)].slot \in Nat
      BY <1>2, <3>1
    <3>3. \A i \in Page : i \in 1..Len(items) /\ i <= Len(items) /\ items[i].slot \in Nat
      BY <1>0, <1>2
    <3>4. \A i \in Page : items[i].slot <= items[Len(items)].slot
      BY <1>1, <3>1, <3>3
    <3>5. \A i \in Page : items[i].slot <= since + items[Len(items)].slot
      BY <1>0, <3>2, <3>3, <3>4
    <3>6. since <= since + items[Len(items)].slot /\ since + items[Len(items)].slot \in Nat
      BY <1>0, <3>2
    <3> QED
      BY <3>5, <3>6
  <2> QED
    BY <2>1, <2>2
<1>5. since' = Max(slots)
  BY DEF Poll
<1> HIDE DEF slots
<1>6. since' \in slots /\ \A x \in slots : since' >= x
  BY <1>3, <1>4, <1>5, GreatestElement
<1> QED
  BY <1>0, <1>3, <1>6 DEF slots

LEMMA PollKeepsServedInv ==
  ASSUME ServedInv, Poll
  PROVE  SinceShape' /\ NeverSkips'
<1>i. IndexInv /\ SinceShape /\ NeverSkips
  BY DEF ServedInv
<1>0. UNCHANGED <<items, ingested>> /\ got' = got \cup {NoteOf(items[i]) : i \in Page}
  BY DEF Poll, storeVars, historyVars
<1>1. /\ since \in Nat /\ since' \in Nat /\ since <= since' /\ Page \subseteq 1..Len(items)
      /\ since' = since \/ \E m \in Page : since' = items[m].slot
  BY <1>i, PollAdvances DEF SinceShape
<1>2. /\ Len(items) \in Nat /\ \A i \in 1..Len(items) : items[i].slot \in Nat
      /\ \A i, j \in 1..Len(items) : i <= j => items[i].slot <= items[j].slot
      /\ \A i \in 1..Len(items) : \E k \in 1..Len(ingested) : items[i] = ingested[k]
  BY <1>i, SlotsAscend
<1>3. SinceShape'
  <2>1. CASE since' = since
    BY <1>i, <1>0, <2>1 DEF SinceShape
  <2>2. ASSUME NEW m \in Page, since' = items[m].slot
        PROVE  SinceShape'
    <3>1. PICK k \in 1..Len(ingested) : items[m] = ingested[k]
      BY <1>1, <1>2
    <3> QED
      BY <1>0, <1>1, <2>2, <3>1 DEF SinceShape
  <2> QED
    BY <1>1, <2>1, <2>2
<1>4. ASSUME NEW i \in 1..Len(items), items[i].slot < since'
      PROVE  NoteOf(items[i]) \in got'
  <2>1. CASE items[i].slot < since
    BY <1>i, <1>0, <2>1 DEF NeverSkips
  <2>2. CASE i \in Page
    BY <1>0, <2>2
  <2>3. CASE ~(items[i].slot < since) /\ i \notin Page
    <3>1. items[i].slot \in Nat /\ items[i].slot >= since /\ since' # since
      BY <1>1, <1>2, <1>4, <2>3
    <3>2. i \in Kept(since) \ Query(since, EffectiveLimit(ClientLimit))
      BY <2>3, <3>1 DEF Kept, Page
    <3>3. PICK m \in Query(since, EffectiveLimit(ClientLimit)) : since' = items[m].slot
      BY <1>1, <3>1 DEF Page
    <3>4. m < i
      BY <1>1, <1>2, <3>2, <3>3, PageIsFront, EffectiveLimitIsNat
    <3>5. m \in 1..Len(items)
      BY <1>1, <3>3 DEF Page
    <3>6. m <= i
      BY <1>2, <3>4, <3>5
    <3>7. since' <= items[i].slot
      BY <1>2, <3>3, <3>5, <3>6
    <3> QED
      BY <1>1, <1>4, <3>1, <3>7
  <2> QED
    BY <2>1, <2>2, <2>3
<1>5. NeverSkips'
  BY <1>0, <1>4 DEF NeverSkips, NoteOf
<1> QED
  BY <1>3, <1>5

\* A row that is inserted is of no earlier slot than any before it.
LEMMA OnNoteKeepsServedInv ==
  ASSUME ServedInv, OnNote
  PROVE  SinceShape' /\ NeverSkips'
<1>i. IndexInv /\ SinceShape /\ NeverSkips /\ IngestTypes /\ RowShape /\ ChainShape /\ StoreIsWindow
  BY DEF ServedInv, IndexInv
<1>0. UNCHANGED <<since, got>> /\ Insert(Head(current))
  BY DEF OnNote, clientVars
<1>1. /\ Head(current) \in Row /\ Head(current) = current[1] /\ 1 \in 1..Len(current)
      /\ Len(ingested') = Len(ingested) + 1
      /\ \A i \in 1..Len(ingested) : ingested'[i] = ingested[i]
  BY <1>i, OnNoteMoves
<1> DEFINE over == IF Len(items) = Cap THEN 1 ELSE 0
<1>2. /\ Len(items') = Len(items) + 1 - over
      /\ \A i \in 1..(Len(items') - 1) : items'[i] = items[i + over]
      /\ items'[Len(items')] = current[1]
  BY <1>i, <1>0, <1>1, InsertSlides DEF IngestTypes, StoreIsWindow
<1>3. /\ Len(items) \in Nat /\ Len(ingested) \in Nat /\ over \in {0, 1}
      /\ \A i \in 1..Len(ingested) : ingested[i].slot \in Nat
  BY <1>i, SlotsAscend
<1> HIDE DEF over
<1>4. SinceShape'
  <2>1. 1..Len(ingested) \subseteq 1..Len(ingested')
    BY <1>1, <1>3
  <2> QED
    BY <1>i, <1>0, <1>1, <2>1 DEF SinceShape
<1>5. current[1].slot \in Nat /\ since <= current[1].slot
  <2>1. current[1].slot \in Nat
    BY <1>1 DEF Row
  <2>2. CASE since = 0
    BY <2>1, <2>2
  <2>3. ASSUME NEW k \in 1..Len(ingested), since <= ingested[k].slot
        PROVE  since <= current[1].slot
    <3>1. Placed(ingested[k]) /\ Placed(current[1]) /\ Before(ingested[k], current[1])
      BY <1>i, <1>1 DEF RowShape
    <3>2. Len(ledger) \in Nat
      BY <1>i, LenProperties DEF IngestTypes
    <3>3. ingested[k].tx <= current[1].tx
      BY <3>1, <3>2 DEF Placed, Before
    <3>4. ingested[k].slot <= current[1].slot
      BY <1>i, <3>1, <3>3 DEF Placed, ChainShape
    <3> QED
      BY <1>i, <1>3, <2>1, <2>3, <3>4 DEF SinceShape
  <2> QED
    BY <1>i, <2>1, <2>2, <2>3 DEF SinceShape
<1>6. ASSUME NEW i \in 1..Len(items'), items'[i].slot < since
      PROVE  NoteOf(items'[i]) \in got
  <2>1. i # Len(items')
    BY <1>i, <1>2, <1>5, <1>6 DEF SinceShape
  <2>2. i \in 1..(Len(items') - 1) /\ i + over \in 1..Len(items)
    BY <1>2, <1>3, <2>1
  <2> QED
    BY <1>i, <1>2, <1>6, <2>2 DEF NeverSkips
<1>7. NeverSkips'
  BY <1>0, <1>6 DEF NeverSkips, NoteOf
<1> QED
  BY <1>4, <1>7

LEMMA ServedInvStep == ServedInv /\ [Next]_vars => ServedInv'
<1> SUFFICES ASSUME ServedInv, [Next]_vars PROVE ServedInv'
  OBVIOUS
<1>i. IndexInv /\ SinceShape /\ NeverSkips /\ IndexInv'
  BY IndexInvStep DEF ServedInv
<1>1. ASSUME UNCHANGED <<items, ingested, since, got>>
      PROVE  ServedInv'
  BY <1>i, <1>1 DEF ServedInv, SinceShape, NeverSkips, NoteOf
<1>2. ASSUME NEW slot \in Tip..MaxSlot, NEW entries \in Batches, Confirm(slot, entries)
      PROVE  ServedInv'
  BY <1>1, <1>2 DEF Confirm, storeVars, clientVars
<1>3. CASE Connect \/ StreamEnds \/ NextMessage \/ UNCHANGED vars
  BY <1>1, <1>3 DEF Connect, StreamEnds, NextMessage, vars, storeVars, clientVars, historyVars
<1>4. ASSUME NEW arrived \in 0..Len(feed), Cut(arrived)
      PROVE  ServedInv'
  BY <1>1, <1>4 DEF Cut, storeVars, clientVars
<1>5. CASE OnNote
  BY <1>i, <1>5, OnNoteKeepsServedInv DEF ServedInv
<1>6. CASE Restart
  <2>1. items' = <<>> /\ UNCHANGED <<since, got, ingested>>
    BY <1>6 DEF Restart, clientVars
  <2> QED
    BY <1>i, <2>1 DEF ServedInv, SinceShape, NeverSkips
<1>7. CASE Poll
  BY <1>i, <1>7, PollKeepsServedInv DEF ServedInv
<1> QED
  BY <1>2, <1>3, <1>4, <1>5, <1>6, <1>7 DEF Next

\* Going on from the highest slot seen skips nothing: neither when a page ends inside a slot
\* or a transaction, nor when rows are evicted, the connection breaks or the process dies
\* between two polls.
THEOREM ClientNeverSkips == Spec => []NeverSkips
<1>1. Init => ServedInv
  <2> SUFFICES ASSUME Init PROVE ServedInv
    OBVIOUS
  <2>1. IndexInv
    BY IndexInvInit
  <2>2. since = 0 /\ items = <<>>
    BY DEF Init, StoreInit
  <2> QED
    BY <2>1, <2>2 DEF ServedInv, SinceShape, NeverSkips
<1>2. ServedInv => NeverSkips
  BY DEF ServedInv
<1> QED
  BY <1>1, <1>2, ServedInvStep, PTL DEF Spec
==============================================================================
