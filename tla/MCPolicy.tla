------------------------------ MODULE MCPolicy ------------------------------
(***************************************************************************)
(* A small instance of PolicyStorage.  The epochs wrap from 3 to 0, and    *)
(* the weights of one policy add up beyond WeightMod.                      *)
(***************************************************************************)
EXTENDS PolicyStorage

CONSTANTS a, b, c

NewPolicy(e, voters, weights, threshold) ==
    [rewardEpochID |-> e, voters |-> voters, weights |-> weights,
     threshold |-> threshold]

MCPolicies == {NewPolicy(2, <<a, b>>, <<1, 2>>, 1),
               NewPolicy(3, <<a, b>>, <<2, 2>>, 2),
               NewPolicy(3, <<a, b, c>>, <<5, 4, 1>>, 4),
               NewPolicy(0, <<b, c>>, <<2, 1>>, 2),
               NewPolicy(0, <<c>>, <<3>>, 0),
               NewPolicy(1, <<a>>, <<1>>, 0)}
=============================================================================
