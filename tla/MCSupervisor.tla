---------------------------- MODULE MCSupervisor ----------------------------
(***************************************************************************)
(* Plans of the supervisor for TLC.  The host submits plans of one child;  *)
(* the supervisor's contract allows up to 16.                              *)
(***************************************************************************)
EXTENDS AssistantSupervisor, TLC

CONSTANTS p1, p2, p3, c1, c2, c3

\* One child per parent, which bears its parent's name: parents are symmetric.
SingleChildPlans == [p \in {p1, p2, p3} |-> <<p>>]
ParentSymmetry == Permutations({p1, p2, p3})

MixedPlans == (p1 :> <<c1, c2>>) @@ (p2 :> <<c3>>)
=============================================================================
