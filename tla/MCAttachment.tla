----------------------------- MODULE MCAttachment -----------------------------
(* TLC instance of Attachment. *)
EXTENDS Attachment

\* A node has measured nobody yet, or all of them, the lowest id best.
LowestBest == {[l \in Leaders |-> NoScore], [l \in Leaders |-> l]}
=============================================================================
