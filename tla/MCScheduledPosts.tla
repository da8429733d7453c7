-------------------------- MODULE MCScheduledPosts --------------------------
(* A model-checking instance of ScheduledPosts.                            *)
EXTENDS ScheduledPosts

OneSlug == [p \in Posts |-> "a"]
Unknown == [op: {"other"}, slug: {"a"}, kind: {"published"}]
=============================================================================
