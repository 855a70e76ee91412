------------------------------- MODULE MCStore -------------------------------
(* Three titles over two overlapping ranges: the bridge's config and the    *)
(* tool's.  Seeds collide with each other and leave the bridge's range.     *)
EXTENDS StoreCallers, TLC

CONSTANTS Carport, Garage, Pump

MCTitles == {Carport, Garage, Pump}
MCDIs == 40 .. 42
MCRanges == {<<40, 41>>, <<40, 42>>}

MCSeedMaps ==
    {Carport :> 41 @@ Garage :> None @@ Pump :> None,
     Carport :> 41 @@ Garage :> 41 @@ Pump :> None,
     Carport :> None @@ Garage :> 42 @@ Pump :> 40}

MCAdoptValues ==
    {Carport :> 8 @@ Garage :> None @@ Pump :> None,
     Carport :> 8 @@ Garage :> 5 @@ Pump :> None}

MCCounter(offset, source, adopt, dirty) ==
    [offset |-> offset, source |-> source, adopt |-> adopt,
     published |-> source + offset, dirty |-> dirty, low |-> 0]

MCCounters == {MCCounter(-3, 5, None, TRUE), MCCounter(0, 5, None, FALSE)}

MCInitialFiles ==
    {NoFile, [NoFile EXCEPT ![Garage] = FreshRecord(42)]}
=============================================================================
