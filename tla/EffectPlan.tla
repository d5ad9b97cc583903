------------------------------ MODULE EffectPlan ------------------------------
(***************************************************************************)
(* What a processing receipt promises, with no handler, lock or cursor: a  *)
(* confirmed item is recorded in the database exactly once, its effects    *)
(* first reach the outside world in the order of its plan and only after   *)
(* that, and it is finished only when all of them did.                     *)
(***************************************************************************)
EXTENDS Naturals

CONSTANTS
    Item,      \* items to be processed
    Length     \* the length of each item's plan

VARIABLES
    phase,     \* "waiting", "offered", "recorded", "finished"
    reached    \* ordinals of the effects that reached the outside world

PlanInit ==
    /\ phase = [c \in Item |-> "waiting"]
    /\ reached = [c \in Item |-> {}]

Advance(c, from, to) ==
    /\ phase[c] = from
    /\ phase' = [phase EXCEPT ![c] = to]
    /\ UNCHANGED reached

Offer(c) == Advance(c, "waiting", "offered")
Record(c) == Advance(c, "offered", "recorded")
Finish(c) == reached[c] = 0..(Length[c] - 1) /\ Advance(c, "recorded", "finished")

Reach(c, i) ==
    /\ phase[c] \in {"recorded", "finished"}
    /\ \A j \in 0..(i - 1) : j \in reached[c]
    /\ reached' = [reached EXCEPT ![c] = @ \cup {i}]
    /\ UNCHANGED phase

PlanNext ==
    \E c \in Item :
        \/ Offer(c)
        \/ Record(c)
        \/ Finish(c)
        \/ \E i \in 0..(Length[c] - 1) : Reach(c, i)

PlanSpec == PlanInit /\ [][PlanNext]_<<phase, reached>>

-----------------------------------------------------------------------------
(* What a reader of the promise may rely on. *)

\* No effect is seen of an item that is not recorded.
EffectsAreRecorded ==
    \A c \in Item : phase[c] \in {"waiting", "offered"} => reached[c] = {}

\* Whoever sees an effect has been able to see all that precede it in the plan.
EffectsAreAPrefix ==
    \A c \in Item : \A i \in reached[c] : 0..i \subseteq reached[c]

\* Nothing of a finished plan is missing.
FinishedIsReached ==
    \A c \in Item : phase[c] = "finished" => reached[c] = 0..(Length[c] - 1)

\* An item is recorded and finished for good, and no effect is taken back.
PlanMovesOn ==
    [][\A c \in Item :
          /\ reached[c] \subseteq reached'[c]
          /\ phase[c] = "finished" => phase'[c] = "finished" /\ reached'[c] = reached[c]
          /\ phase[c] = "recorded" => phase'[c] \in {"recorded", "finished"}
      ]_<<phase, reached>>

=============================================================================
