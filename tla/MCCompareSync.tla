---------------------------- MODULE MCCompareSync ---------------------------
(* Two tables, compared once or again, and synced while results change.    *)
EXTENDS SyncPanel

MCOrder == <<"a", "b">>
Selection == [source |-> [conn |-> "c1", db |-> "d"], target |-> [conn |-> "c2", db |-> "d"]]
MCStored ==
  {[data |-> TRUE, limit |-> 1,
    raw |-> [filter |-> "all", concurrency |-> 5, tab |-> "data", legacyTables |-> FALSE,
             search |-> {"a", "b"}, history |-> <<Selection>>]]}
MCListings == {[source |-> {"a", "b"}, target |-> {"a", "b"}], [source |-> {"a"}, target |-> {"b"}]}
MCStrategies == {"overwrite-structure"}
=============================================================================
