---------------------------- MODULE FollowedFeed ----------------------------
(***************************************************************************)
(* What a reader of the notification feed is promised, whatever index      *)
(* serves it: the feed follows the revisions of the canonical store, never *)
(* runs ahead of it and never goes back, and at the moment another index   *)
(* takes over nothing is missing from it.                                  *)
(***************************************************************************)
EXTENDS Naturals

CONSTANT Notification

VARIABLES
    revision,  \* revision of each notification in the canonical store, 0 before it is accepted
    visible    \* revision the feed shows

FeedInit ==
    /\ revision = [n \in Notification |-> 0]
    /\ visible = [n \in Notification |-> 0]

\* Accepting, reading and deleting a notification each give it its next revision.
Change(n) ==
    /\ revision' = [revision EXCEPT ![n] = @ + 1]
    /\ UNCHANGED visible

\* A delivery shows a newer revision than before, not always the newest.
Show(n) ==
    /\ visible'[n] \in (visible[n] + 1)..revision[n]
    /\ visible' = [visible EXCEPT ![n] = visible'[n]]
    /\ UNCHANGED revision

TakeOver ==
    /\ visible' = revision
    /\ UNCHANGED revision

FeedNext == TakeOver \/ \E n \in Notification : Change(n) \/ Show(n)

FeedSpec == FeedInit /\ [][FeedNext]_<<revision, visible>>

=============================================================================
