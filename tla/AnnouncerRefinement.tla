------------------------- MODULE AnnouncerRefinement -------------------------
(***************************************************************************)
(* The service of Announcer keeps the promise of AnnounceService: tickets  *)
(* are the status records, and a note is open while it waits in the queue, *)
(* in an unsent batch or in the network.                                   *)
(***************************************************************************)
EXTENDS AnnouncerInvariant

ItemsOf(items, e) == {<<e, items[i].id>> : i \in 1..Len(items)}
NotesOf(txs) == UNION {ItemsOf(tx.batch, tx.epoch) : tx \in txs}

Unsent == IF pc = "publishing" THEN batch ELSE <<>>

Tickets == [id \in DOMAIN statuses |-> statuses[id].state]
OpenNotes == ItemsOf(pending, epoch) \cup ItemsOf(Unsent, epoch) \cup NotesOf(network)
PublishedNotes == NotesOf(Landed)

Service == INSTANCE AnnounceService WITH
  run <- epoch, next <- next_id, ticket <- Tickets,
  open <- OpenNotes, published <- PublishedNotes

\* Every behaviour of the service, seen through its status endpoint and the
\* pinboard, is one the abstract service allows.
ImplementsService == Service!ServiceSpec
==============================================================================
