---------------------------- MODULE MCKeyBackup ----------------------------
(***************************************************************************)
(* Small instances of KeyBackup: all lists of up to three small weights,   *)
(* and some whose sum reaches or passes the width.                         *)
(***************************************************************************)
EXTENDS KeyBackup

MCPolicies ==
    UNION {[1 .. n -> 0 .. 2] : n \in 0 .. 3}
        \cup {<<7>>, <<1, 6>>, <<3, 3, 1>>, <<1, 1, 5>>, <<5, 0, 1>>}
        \cup {<<5, 3>>, <<4, 4, 1>>, <<7, 1, 3>>}
=============================================================================
