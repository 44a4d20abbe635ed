--------------------------- MODULE AnnounceService ---------------------------
(***************************************************************************)
(* What the announcement service promises its clients, without queue,      *)
(* batches, locks or transactions (docs/srfc/design/announcer.md, section  *)
(* 4.1).  A client that submits a note gets a ticket; the ticket is        *)
(* resolved once; "confirmed" is only said of a published note; a note is  *)
(* published at most once; only resolved tickets are ever forgotten,       *)
(* oldest first; and a crash loses every ticket, but not what is already   *)
(* on its way to the chain.                                                *)
(***************************************************************************)
EXTENDS Integers

VARIABLES
  run,        \* how often the service has crashed
  next,       \* the next ticket of this run
  ticket,     \* what a client that asks is told about a ticket
  open,       \* <<run, ticket>> of the notes that may yet be published
  published   \* <<run, ticket>> of the notes that were

serviceVars == <<run, next, ticket, open, published>>

NoTickets == [id \in {} |-> "pending"]

ServiceInit ==
  run = 0 /\ next = 0 /\ ticket = NoTickets /\ open = {} /\ published = {}

\* Forgetting: every ticket older than oldest, all of them resolved.
Retained(oldest) == {id \in DOMAIN ticket : id >= oldest}

Accept ==
  /\ next' = next + 1
  /\ open' = open \cup {<<run, next>>}
  /\ \E oldest \in 0..next :
       /\ \A id \in DOMAIN ticket \ Retained(oldest) : ticket[id] # "pending"
       /\ ticket' = [id \in Retained(oldest) \cup {next} |->
                       IF id = next THEN "pending" ELSE ticket[id]]
  /\ UNCHANGED <<run, published>>

Publish ==
  /\ \E notes \in SUBSET open :
       published' = published \cup notes /\ open' = open \ notes
  /\ UNCHANGED <<run, next, ticket>>

GiveUp ==
  /\ open' \in SUBSET open
  /\ UNCHANGED <<run, next, ticket, published>>

Resolve ==
  /\ \E id \in DOMAIN ticket :
       /\ ticket[id] = "pending"
       /\ \/ ticket' = [ticket EXCEPT ![id] = "failed"]
          \/ <<run, id>> \in published /\ ticket' = [ticket EXCEPT ![id] = "confirmed"]
  /\ UNCHANGED <<run, next, open, published>>

Crash ==
  /\ run' = run + 1 /\ next' = 0 /\ ticket' = NoTickets
  /\ open' \in SUBSET open
  /\ UNCHANGED published

ServiceNext == Accept \/ Publish \/ GiveUp \/ Resolve \/ Crash

ServiceSpec == ServiceInit /\ [][ServiceNext]_serviceVars
==============================================================================
