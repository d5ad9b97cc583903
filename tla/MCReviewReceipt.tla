--------------------------- MODULE MCReviewReceipt ---------------------------
(* Instances of ReviewReceipt for TLC. *)
EXTENDS ReviewReceipt, TLC

CONSTANTS accepted, disputed, dev

\* Two sessions of one reviewee: one confirmed, whose database phase rescores,
\* one disputed by the reviewee, whose phase rescores or only projects.
OneReviewee == accepted :> dev @@ disputed :> dev

\* A plan with a skill score event, and one without.
SkillCounts == accepted :> 1 @@ disputed :> 0

HandlerSymmetry == Permutations(Handler)

=============================================================================
