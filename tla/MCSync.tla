-------------------------------- MODULE MCSync --------------------------------
(* Instances of the bridge: three loadpoints for identity, one for energy.  *)
EXTENDS DryRun, TLC

CONSTANTS Carport, Garage, Pump

TwoDIs == 40 .. 41
BothRange == <<40, 41>>
OneRange == {BothRange}

\* Empty, reordered, renamed (Pump for Garage), a duplicate, more titles
\* than instances.
ManyLists == {<<>>,
              <<Carport>>,
              <<Garage, Carport>>,
              <<Carport, Pump>>,
              <<Garage, Carport, Garage>>,
              <<Pump, Garage, Carport>>}

LiveLists == {<<Carport>>, <<Garage, Carport>>, <<Garage, Carport, Garage>>}

OneList == {<<Carport>>}

EmptyFile == {NoFile}

\* A fresh start, and one that takes a legacy service's counter over.
LegacyFile == [NoFile EXCEPT ![Carport] =
                  [FreshRecord(40) EXCEPT !.adopt = 7]]
SmallLegacyFile == [NoFile EXCEPT ![Carport] =
                  [FreshRecord(40) EXCEPT !.adopt = 1]]
EnergyFiles == {NoFile, LegacyFile, SmallLegacyFile}
OnlySmallLegacyFile == {SmallLegacyFile}
=============================================================================
