--------------------------- MODULE MCAuthorization ---------------------------
(***************************************************************************)
(* Admission over bounded inputs.                                          *)
(***************************************************************************)
EXTENDS Admission

CONSTANTS a, b, c

MCAddresses == {a, b, c}
Lists(n) == UNION {[1 .. m -> MCAddresses] : m \in 0 .. n}
MCSignerLists == Lists(2) \cup {<<a, b, c>>}

\* 15 voting units in all, 9 + 8 wrap beyond WeightMod, a zero threshold.
MCPolicies ==
    {[voters |-> <<a, b>>, weights |-> <<7, 8>>, threshold |-> 7],
     [voters |-> <<a, b, c>>, weights |-> <<3, 3, 4>>, threshold |-> 5],
     [voters |-> <<a, b>>, weights |-> <<9, 8>>, threshold |-> 8],
     [voters |-> <<a, c>>, weights |-> <<1, 1>>, threshold |-> 0]}

MCRequests ==
    [cosigners : Lists(2), cosignersThreshold : 0 .. 2,
     fdc : {TRUE}, thresholdBIPS : {3999, 4000, 4999, 5000, 9999, 10000}]
    \cup
    [cosigners : Lists(2), cosignersThreshold : 0 .. 2,
     fdc : {TRUE, FALSE}, thresholdBIPS : {0}]

MCWallets == [cosigners : {<< >>, <<a>>, <<a, b>>, <<b, c>>, <<a, a>>},
              threshold : 0 .. 2]
=============================================================================
