----------------------------- MODULE MCCommands -----------------------------
(***************************************************************************)
(* Three workspace folders, one more than the server keeps, a file below    *)
(* two of them, two URIs of one file; shards of two runs, a second shard of *)
(* one of them, one of another module and a damaged one, a temporary and a  *)
(* terminal profile; cells of two bits, two of them in one table.  Two roots *)
(* that share a callee, growth for one of them; scores with which a tier    *)
(* pays, only accompanies one that pays, and is worse than the baseline.    *)
(***************************************************************************)
EXTENDS Commands

MCSourcesBelow == <<{1, 2}, {3}, {3, 4}>>
MCDiskText == [f \in 1 .. 4 |-> IF f = 1 THEN "long" ELSE "a"]
MCFileOf == <<2, 2>>

MCKind == <<"shard", "shard", "shard", "shard", "shard", "temporary", "final">>
MCHolds == <<2, 1, 3, 4, -1, -1, -1>>
MCTableOf == [scalar |-> "none", low |-> "table", high |-> "table"]

MCShard(run, identity, a, b, saturated, low) ==
    [run |-> run, identity |-> identity,
     count |-> [scalar |-> a, low |-> b, high |-> 1],
     flag |-> [table |-> saturated], overflowed |-> low,
     incomplete |-> run = 8]
MCShards == <<MCShard(7, 0, 1, 2, FALSE, FALSE), MCShard(8, 0, 2, 2, FALSE, FALSE),
              MCShard(7, 0, 3, 1, FALSE, TRUE), MCShard(9, 1, 0, 0, FALSE, FALSE)>>
MCInputs == {<<0>>, <<1, 2>>, <<0, 2>>, <<>>}

MCUnits == <<10, 6>>
MCWork == <<1, 1>>

MCRequests == {<<"executable", "profile">>}
=============================================================================
