-------------------------- MODULE MCArticlePipeline -------------------------
(* Model-checking instances of ArticlePipeline.                            *)
EXTENDS ArticlePipeline

Ask(op, kind) == [op |-> op, slug |-> "a", kind |-> kind]

Edits  == {Ask("insert", "published"), Ask("update", "published"),
           Ask("delete", "published")}
=============================================================================
