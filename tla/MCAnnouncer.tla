----------------------------- MODULE MCAnnouncer -----------------------------
(* Instances of Announcer for TLC. *)
EXTENDS AnnouncerRefinement

\* Two notes that differ in size, and one request for each check of
\* request_to_note_entry that refuses it.
SmallRequests ==
  { [scheme_id |-> 1, ephemeral_pub |-> "r1", metadata_len |-> 0],
    [scheme_id |-> 1, ephemeral_pub |-> "r2", metadata_len |-> 1] }
RefusedRequests ==
  { [scheme_id |-> 0, ephemeral_pub |-> "r3", metadata_len |-> 0],
    [scheme_id |-> 1, ephemeral_pub |-> Undecodable, metadata_len |-> 0],
    [scheme_id |-> 1, ephemeral_pub |-> "r3", metadata_len |-> Undecodable],
    [scheme_id |-> 1, ephemeral_pub |-> "r3", metadata_len |-> 2] }
MixedRequests == SmallRequests \cup RefusedRequests

\* The smallest note there is: no metadata.
BareRequest == { [scheme_id |-> 1, ephemeral_pub |-> "r1", metadata_len |-> 0] }
==============================================================================
