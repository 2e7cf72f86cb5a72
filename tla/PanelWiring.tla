----------------------------- MODULE PanelWiring -----------------------------
(***************************************************************************)
(* How apps/panel picks its adapters: the environment is read into a       *)
(* PanelConfig, buildAdjudication chooses an adapter for each port.        *)
(***************************************************************************)

(* The environment: a profile and the optional variables that are set.     *)
Profiles == {"test", "replay", "demo", "local"}
OptionalNames ==
  {"PANEL_PRIVATE_KEY", "ARBITRATOR_ADDRESS", "KEEPERHUB_MCP_URL",
   "KEEPERHUB_API_KEY", "ENS_PUBLIC_RESOLVER_ADDRESS"}

ReadPanelConfig(profile, env) == [appProfile |-> profile, has |-> env]

(* AdjudicationModule hands readPanelConfig eight variables by name; of the *)
(* optional ones only the key is among them.                               *)
ServiceConfig(profile, env) ==
  ReadPanelConfig(profile, env \cap {"PANEL_PRIVATE_KEY"})

PickExecution(config) ==
  IF {"ARBITRATOR_ADDRESS", "KEEPERHUB_MCP_URL", "KEEPERHUB_API_KEY"}
       \subseteq config.has
  THEN "OnchainKeeper" ELSE "DirectTx"

PickIdentity(config) ==
  IF {"ENS_PUBLIC_RESOLVER_ADDRESS", "PANEL_PRIVATE_KEY"} \subseteq config.has
  THEN "EnsReputation" ELSE "ReadonlyEns"

BuildTest ==
  [inference |-> "Stub", storage |-> "Memory", execution |-> "LogOnly",
   identity |-> "Memory"]

(* Without a funded key the stub answers, and files are written instead of *)
(* 0G blobs.                                                               *)
BuildReplay(config, frozen) ==
  LET funded == "PANEL_PRIVATE_KEY" \in config.has
  IN
  [inference |-> IF ~funded THEN "Stub"
                 ELSE IF frozen THEN "FrozenReplay" ELSE "Replay",
   storage   |-> IF funded THEN "OgStorage" ELSE "Filesystem",
   execution |-> PickExecution(config),
   identity  |-> PickIdentity(config)]

(* buildLocal throws without a key: the service does not start.            *)
Starts(config) ==
  config.appProfile = "local" => "PANEL_PRIVATE_KEY" \in config.has

BuildAdjudication(config) ==
  CASE config.appProfile = "test" -> BuildTest
    [] config.appProfile \in {"replay", "local"} -> BuildReplay(config, FALSE)
    [] config.appProfile = "demo" -> BuildReplay(config, TRUE)
=============================================================================
