-------------------------- MODULE MCStorageAnalysis --------------------------
(***************************************************************************)
(* Contracts of three functions over two state variables and a constant:   *)
(* main, of four blocks, and two straight functions that may call each     *)
(* other, main, and other contracts.                                       *)
(***************************************************************************)
EXTENDS StorageAnalysis

Load(v)     == [op |-> "Load", ref |-> v]
Store(v)    == [op |-> "Store", ref |-> v]
Internal(f) == [op |-> "Internal", ref |-> f]
External    == [op |-> "External", ref |-> ""]
Other       == [op |-> "Other", ref |-> ""]

MCLocation == {"balance", "total", "MAX"}
MCMutable  == {"balance", "total"}

IfElse == 0 :> <<1, 2>> @@ 1 :> <<3>> @@ 2 :> <<3>> @@ 3 :> <<>>
While  == 0 :> <<1>> @@ 1 :> <<2, 3>> @@ 2 :> <<1>> @@ 3 :> <<>>

Preds(succ) ==
    [b \in DOMAIN succ |-> SetToSortSeq({c \in DOMAIN succ : b \in ToSet(succ[c])}, <)]
Function(succ, body, modifier) ==
    [entry |-> 0, blocks |-> DOMAIN succ, succ |-> succ, pred |-> Preds(succ),
     code |-> body, modifier |-> modifier]
Straight(q, modifier) == Function(0 :> <<>>, 0 :> q, modifier)

EntryBodies == {<<Load("balance"), Store("balance")>>, <<External, Load("total")>>}
InnerBodies == {<<>>, <<Store("total"), External>>, <<Load("MAX"), Internal("other"), Load("total")>>}
ExitBodies  == {<<Load("balance")>>, <<Internal("helper"), Store("total")>>}

Mains ==
    {Function(succ, 0 :> c0 @@ 1 :> <<Load("balance")>> @@ 2 :> c2 @@ 3 :> c3, "Checked") :
        succ \in {IfElse, While}, c0 \in EntryBodies, c2 \in InnerBodies, c3 \in ExitBodies}
Helpers ==
    {<<Straight(<<Load("total"), Internal("other")>>, "Checked"), Straight(<<Internal("helper")>>, "Checked")>>,
     <<Straight(<<Store("balance")>>, "Reentrant"), Straight(<<Store("total"), Internal("main")>>, "Guarded")>>,
     <<Straight(<<Internal("other")>>, "Guarded"), Straight(<<External, Load("balance")>>, "Checked")>>,
     <<Straight(<<Store("MAX")>>, "Checked"), Straight(<<External, Store("total")>>, "Guarded")>>}

Contract(order, main, helpers) ==
    [order |-> order, fns |-> [main |-> main, helper |-> helpers[1], other |-> helpers[2]]]
MCContracts ==
    {Contract(IF helpers[1].modifier = "Checked" THEN <<"main", "helper", "other">>
              ELSE <<"helper", "other", "main">>, main, helpers) :
        main \in Mains, helpers \in Helpers}

(* A loop that stores and then calls another contract.                      *)
StoreThenCallInLoop ==
    {Contract(<<"main", "helper", "other">>,
              Function(While, 0 :> <<>> @@ 1 :> <<Load("balance")>> @@ 2 :> <<Store("total"), External>>
                              @@ 3 :> <<>>, "Checked"),
              <<Straight(<<>>, "Checked"), Straight(<<>>, "Checked")>>)}
=============================================================================
