--------------------------- MODULE PaymentPromise ---------------------------
(***************************************************************************)
(* What an instant payment promises its requester, in two variables: how   *)
(* often the money of each request moved, and which requests were told     *)
(* that their payment went through.                                        *)
(***************************************************************************)
EXTENDS Naturals

CONSTANT Obligations

VARIABLES landed, told

vars == <<landed, told>>

Init == landed = [o \in Obligations |-> 0] /\ told = {}

Land(o) ==
  /\ landed[o] = 0
  /\ landed' = [landed EXCEPT ![o] = 1]
  /\ UNCHANGED told

Tell(o) ==
  /\ landed[o] = 1
  /\ told' = told \cup {o}
  /\ UNCHANGED landed

Next == \E o \in Obligations : Land(o) \/ Tell(o)

Spec == Init /\ [][Next]_vars
=============================================================================
