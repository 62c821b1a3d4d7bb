-------------------------------- MODULE MCTools --------------------------------
(* Six programs that do not interact, checked in one run: its first state    *)
(* chooses which of them runs.                                               *)
EXTENDS MorphoDriver, MorphoAdmin, ChainMonitor, StorageBenchmark, Counters, NativeFungible

CONSTANTS c1, c2, c3

VARIABLE tool   \* MorphoAdmin counts as two

NoTokens == [u \in Users |-> 0]
OneNativeToken == [o \in NativeOwners |-> 1]
ChainsFiles == {<<c1, Comment, c2>>, <<c1, Malformed>>, <<Comment>>}

ToolsInit ==
  /\ tool \in {"driver", "signatures", "owner", "monitor", "storage", "counters", "native"}
  /\ price = ORACLE_PRICE_SCALE   \* read by nobody before the oracle is deployed
  /\ DriverInit /\ AdminInit /\ MonitorInit /\ StorageInit /\ CountersInit /\ NativeInit

adminOwnVars == <<signatureVars, ownerVars>>
morphoVars == <<driverVars, adminOwnVars>>

ToolsNext ==
  /\ UNCHANGED tool
  /\ \/ /\ tool = "driver" /\ DriverNext
        /\ UNCHANGED <<adminOwnVars, monitorVars, storageVars, countersVars, nativeVars>>
     \/ /\ \/ tool = "signatures" /\ Authorize
           \/ tool = "owner" /\ Administer
        /\ UNCHANGED <<scriptVars, monitorVars, storageVars, countersVars, nativeVars>>
     \/ /\ tool = "monitor" /\ MonitorNext
        /\ UNCHANGED <<morphoVars, storageVars, countersVars, nativeVars>>
     \/ /\ tool = "storage" /\ StorageNext
        /\ UNCHANGED <<morphoVars, monitorVars, countersVars, nativeVars>>
     \/ /\ tool = "counters" /\ CountersNext
        /\ UNCHANGED <<morphoVars, monitorVars, storageVars, nativeVars>>
     \/ /\ tool = "native" /\ NativeNext
        /\ UNCHANGED <<morphoVars, monitorVars, storageVars, countersVars>>

toolsVars == <<tool, morphoVars, monitorVars, storageVars, countersVars, nativeVars>>

ToolsSpec == ToolsInit /\ [][ToolsNext]_toolsVars

=============================================================================
