----------------------------- MODULE MCMigration -----------------------------
(* Two installs, two titles of one spelling and a third, a bridge range     *)
(* that some of the installs lie outside of.                                *)
EXTENDS Migration, TLC

CONSTANTS Carport, CARPORT, Garage

MCTitles == {Carport, CARPORT, Garage}
MCNames == {"carport", "garage"}
MCLower == Carport :> "carport" @@ CARPORT :> "carport" @@ Garage :> "garage"

MCDIs == 40 .. 42
MCBridgeRange == <<40, 41>>
MCToolRange == <<40, 42>>
MCRanges == {MCBridgeRange, MCToolRange}

MCInstall(di, index, name, script) ==
    [di |-> di, index |-> index, name |-> name, script |-> script]

\* By name and by index; a stale index and no instance; the same instance
\* twice; both out of the bridge's range.
MCSetups ==
    {<<MCInstall(40, None, "garage", TRUE), MCInstall(41, 0, "carport", TRUE)>>,
     <<MCInstall(41, 1, "carport", TRUE), MCInstall(None, 0, None, FALSE)>>,
     <<MCInstall(40, None, "carport", TRUE), MCInstall(40, 0, None, FALSE)>>,
     <<MCInstall(42, None, "garage", TRUE)>>}

MCLists == {<<>>, <<Carport>>, <<Garage, Carport>>, <<Carport, CARPORT, Garage>>}

MCMode(auto, dryRun, uninstallOld, toolRange) ==
    [auto |-> auto, dryRun |-> dryRun, uninstallOld |-> uninstallOld,
     ignoreRunning |-> FALSE, range |-> toolRange]

MCModes == {MCMode(TRUE, FALSE, TRUE, MCToolRange),
            MCMode(TRUE, TRUE, TRUE, MCToolRange),
            MCMode(FALSE, FALSE, TRUE, MCToolRange),
            MCMode(FALSE, FALSE, FALSE, MCBridgeRange)}

AutoModes == {MCMode(TRUE, FALSE, TRUE, MCToolRange)}

MCFiles == {NoFile}
==============================================================================
