--------------------------- MODULE EffectPlanProofs ---------------------------
(***************************************************************************)
(* What follows from EffectPlan alone.  ReviewReceiptProofs shows that the *)
(* receipts implement it.                                                  *)
(***************************************************************************)
EXTENDS EffectPlan, TLAPS

planVars == <<phase, reached>>

\* Length is the plan of each item.
LengthAssumption == Length \in [Item -> Nat]

\* The invariant: the effects of an item grow from the front of its plan.
PlanOrderInv ==
    /\ phase \in [Item -> {"waiting", "offered", "recorded", "finished"}]
    /\ reached \in [Item -> SUBSET Nat]
    /\ \A c \in Item : reached[c] \subseteq 0..(Length[c] - 1)
    /\ EffectsAreRecorded
    /\ EffectsAreAPrefix
    /\ FinishedIsReached

\* Nothing is offered and nothing reached at the start.
LEMMA PlanInitInv == PlanInit => PlanOrderInv
  BY DEF PlanInit, PlanOrderInv, EffectsAreRecorded, EffectsAreAPrefix, FinishedIsReached

\* A phase changes one step forward, and to "finished" only with all effects.
LEMMA AdvanceKeepsOrder ==
  ASSUME PlanOrderInv, NEW c \in Item, Offer(c) \/ Record(c) \/ Finish(c)
  PROVE  PlanOrderInv'
  <1>1. /\ reached' = reached
        /\ phase' \in [Item -> {"waiting", "offered", "recorded", "finished"}]
        /\ \A k \in Item \ {c} : phase'[k] = phase[k]
    BY DEF Offer, Record, Finish, Advance, PlanOrderInv
  <1>2. /\ phase'[c] \in {"waiting", "offered"} => phase[c] = "waiting"
        /\ phase'[c] = "finished" => reached[c] = 0..(Length[c] - 1)
    BY DEF Offer, Record, Finish, Advance, PlanOrderInv
  <1>3. QED
    BY <1>1, <1>2 DEF PlanOrderInv, EffectsAreRecorded, EffectsAreAPrefix, FinishedIsReached

\* An effect is reached behind all earlier ones.
LEMMA ReachKeepsOrder ==
  ASSUME LengthAssumption, PlanOrderInv, NEW c \in Item, NEW i \in 0..(Length[c] - 1), Reach(c, i)
  PROVE  PlanOrderInv'
  <1> USE DEF PlanOrderInv, LengthAssumption
  <1>1. /\ phase' = phase
        /\ reached' \in [Item -> SUBSET Nat]
        /\ reached'[c] = reached[c] \cup {i}
        /\ \A k \in Item \ {c} : reached'[k] = reached[k]
    BY DEF Reach
  <1>2. \A k \in Item : reached'[k] \subseteq 0..(Length[k] - 1)
    BY <1>1
  <1>3. EffectsAreRecorded'
    BY <1>1 DEF EffectsAreRecorded, Reach
  <1>4. EffectsAreAPrefix'
    <2>1. 0..i \subseteq reached'[c]
      BY <1>1 DEF Reach
    <2>2. QED
      BY <1>1, <2>1 DEF EffectsAreAPrefix
  <1>5. FinishedIsReached'
    BY <1>1 DEF FinishedIsReached
  <1>6. QED
    BY <1>1, <1>2, <1>3, <1>4, <1>5

\* Every step keeps the order of the effects.
LEMMA PlanStep ==
  ASSUME LengthAssumption, PlanOrderInv, [PlanNext]_planVars
  PROVE  PlanOrderInv'
  <1>1. CASE UNCHANGED planVars
    BY <1>1 DEF planVars, PlanOrderInv, EffectsAreRecorded, EffectsAreAPrefix, FinishedIsReached
  <1>2. QED
    BY <1>1, AdvanceKeepsOrder, ReachKeepsOrder DEF PlanNext

\* A consumer of the effects sees a prefix of a recorded plan, and the whole of a
\* finished one.
THEOREM PlanIsEnough ==
  ASSUME LengthAssumption
  PROVE  PlanSpec => [](EffectsAreRecorded /\ EffectsAreAPrefix /\ FinishedIsReached)
  <1>1. PlanOrderInv /\ [PlanNext]_planVars => PlanOrderInv'
    BY PlanStep
  <1>2. PlanOrderInv => EffectsAreRecorded /\ EffectsAreAPrefix /\ FinishedIsReached
    BY DEF PlanOrderInv
  <1>3. QED
    BY <1>1, <1>2, PlanInitInv, PTL DEF PlanSpec, planVars

\* Nothing of a plan is taken back, and a finished one is closed.
THEOREM PlansMoveOn ==
  ASSUME LengthAssumption
  PROVE  PlanSpec => PlanMovesOn
  <1> DEFINE Moves == \A c \in Item :
          /\ reached[c] \subseteq reached'[c]
          /\ phase[c] = "finished" => phase'[c] = "finished" /\ reached'[c] = reached[c]
          /\ phase[c] = "recorded" => phase'[c] \in {"recorded", "finished"}
  <1>1. PlanOrderInv /\ [PlanNext]_planVars => PlanOrderInv'
    BY PlanStep
  <1>2. PlanOrderInv /\ [PlanNext]_planVars => [Moves]_planVars
    <2> SUFFICES ASSUME PlanOrderInv, PlanNext PROVE Moves
      BY DEF planVars
    <2>1. ASSUME NEW k \in Item, Offer(k) \/ Record(k) \/ Finish(k) PROVE Moves
      BY <2>1 DEF Offer, Record, Finish, Advance, PlanOrderInv
    <2>2. ASSUME NEW k \in Item, NEW i \in 0..(Length[k] - 1), Reach(k, i) PROVE Moves
      <3>1. reached'[k] = reached[k] \cup {i} /\ \A c \in Item \ {k} : reached'[c] = reached[c]
        BY <2>2 DEF Reach, PlanOrderInv
      <3>2. phase[k] = "finished" => i \in reached[k]
        BY DEF PlanOrderInv, FinishedIsReached
      <3>3. QED
        BY <2>2, <3>1, <3>2 DEF Reach, PlanOrderInv
    <2>3. QED
      BY <2>1, <2>2 DEF PlanNext
  <1>3. QED
    BY <1>1, <1>2, PlanInitInv, PTL DEF PlanSpec, planVars, PlanMovesOn

=============================================================================
