------------------------------- MODULE MCNode -------------------------------
(***************************************************************************)
(* Small instances of Node.                                                *)
(***************************************************************************)
EXTENDS Node, TLC

CONSTANTS a, b, c, safe, manager, zero, ext, dflt

MCAddresses == {a, b, c, safe, manager, zero}

Plain(signers, threshold) ==
    [set |-> FALSE, signers |-> signers, threshold |-> threshold,
     safe |-> zero, teeManager |-> zero]

\* Two that can be set, and four that cannot.
MCGovernances ==
    {Plain(<<a, b>>, 2),
     [Plain(<<b, c>>, 2) EXCEPT !.safe = safe, !.teeManager = manager],
     Plain(<<a>>, 0), Plain(<<a>>, 2), Plain(<<a, zero>>, 1),
     [Plain(<<a, b>>, 1) EXCEPT !.safe = safe]}

\* A signer listed twice.
RepeatedGovernances == {Plain(<<a, a>>, 2), Plain(<<a, b>>, 2)}

ListA == {"A"}
ListB == {"B"}
MCPathLists == {ListA, ListB}

Request(paths, nonce, extension, signers) ==
    [paths |-> paths, nonce |-> nonce, signers |-> signers, safe |-> {},
     hash |-> ListHash(14, extension, nonce, paths)]

WithSafe(r, chain, to, owners) ==
    [r EXCEPT !.safe = {[safe |-> safe, chain |-> chain, to |-> to,
                         call |-> TRUE, owners |-> owners,
                         data |-> ListHash(14, ext, r.nonce, r.paths)]}]

\* Signed by either governance, for either extension, by one signer twice, with
\* a stranger, on another chain, and two lists with one nonce.
MCRequests ==
    {Request(ListA, 1, ext, <<a, b>>),
     Request(ListB, 1, ext, <<b, a>>),
     Request(ListB, 1, dflt, <<b, c>>),
     Request(ListB, 2, dflt, <<a, b>>),
     WithSafe(Request(ListA, 2, ext, <<b, b>>), 14, manager, {b, c}),
     WithSafe(Request(ListB, 3, ext, <<a, b, c>>), 15, manager, {b, c}),
     WithSafe(Request(ListA, 3, ext, << >>), 14, safe, {b, c})}

HandlerSymmetry == Permutations(Handlers)
=============================================================================
