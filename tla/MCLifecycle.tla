----------------------------- MODULE MCLifecycle -----------------------------
(***************************************************************************)
(* Instances of Lifecycle for TLC, on the groups of MCGroups.              *)
(***************************************************************************)
EXTENDS Lifecycle, MCGroups

TheLabels == {0}

\* A note of someone else's payment: with the view tag 1 the recipient's keys take it for
\* theirs, with the view tag 0 they do not.
Other(tag) == [kind |-> "note", note |-> [ephemeral_pub |-> ThePublicKey(9), view_tag |-> tag]]
Mixed == <<[kind |-> "garbled"], [kind |-> "short"], Other(0)>>
Recognisable == {t \in {0, 1} : view_tag_matches(Scan, ThePublicKey(9), t)}

Confusing == {Mixed} \cup {<<[kind |-> "text"], Other(t)>> : t \in Recognisable}
==============================================================================
