---------------------------- MODULE MCKeyRestore ----------------------------
(***************************************************************************)
(* An instance of KeyRestore: two backups of a key for three owners, each  *)
(* an admin and a provider, one of them too light for a share.             *)
(***************************************************************************)
EXTENDS KeyRestore

MCAdminShares == [o1 |-> <<1>>, o2 |-> <<2>>, o3 |-> <<3>>]
MCProviderShares == [o1 |-> <<1, 2>>, o2 |-> <<3, 4>>, o3 |-> << >>]

true(id) == [id |-> id, field |-> "order", admins |-> {"o1", "o2", "o3"},
             adminsThreshold |-> 2, providersThreshold |-> 3]

\* The true metadata, and others that differ from it in one thing.
MCMetadata ==
    {true("b1"), true("b2"),
     [true("b1") EXCEPT !.field = "above256"],
     [true("b1") EXCEPT !.field = "unknown"],
     [true("b1") EXCEPT !.admins = {"o1", "o2"}],
     [true("b1") EXCEPT !.admins = {"o1", "o2", "o3", "o4"}],
     [true("b1") EXCEPT !.adminsThreshold = 1],
     [true("b1") EXCEPT !.adminsThreshold = 3],
     [true("b1") EXCEPT !.providersThreshold = 0],
     [true("b1") EXCEPT !.providersThreshold = 2],
     [true("b1") EXCEPT !.providersThreshold = 4]}

Bring(splits) == [readable |-> TRUE, splits |-> splits]
Admin(o) == KeySplit("b1", "admin", o)
Provider(o) == KeySplit("b1", "provider", o)
Foreign(g, o) == KeySplit("b2", g, o)

\* A split with one more share than was signed.
Changed(s) == [s EXCEPT !.shares = Append(@, 4), !.signed = FALSE]

MCMessages ==
    {[readable |-> FALSE, splits |-> << >>],
     Bring(<< >>),
     Bring(<<Admin("o1"), Provider("o1")>>),
     Bring(<<Provider("o2"), Admin("o2")>>),
     Bring(<<Admin("o3"), Provider("o3")>>),
     Bring(<<Provider("o1")>>),
     Bring(<<Provider("o2")>>),
     Bring(<<Provider("o2"), Provider("o2")>>),
     Bring(<<Admin("o3"), Changed(Provider("o1"))>>),
     Bring(<<Admin("o1"), Foreign("provider", "o1")>>),
     Bring(<<Foreign("provider", "o2"), Foreign("admin", "o2")>>),
     Bring(<<Admin("o1"), Admin("o2"), Provider("o2")>>)}
=============================================================================
