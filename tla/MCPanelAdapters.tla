--------------------------- MODULE MCPanelAdapters ---------------------------
(* Two adjudications of a panel of two: of two disputes whose parties meet *)
(* under different names, or of two that read alike.                       *)
EXTENDS PanelAdapters

CONSTANTS a1, a2, d1, d2, d3

MCCallers == {a1, a2} \X (0..PanelSize)
MCBundles == {a1, a2}
MCWriters == {a1, a2} \X {"claimant", "respondent"}

(* One list with a model of a family twice, one without a second family,   *)
(* one with a service that names no model, one whose names differ in case. *)
MCNames == {"qwen-max", "qwen-plus", "glm", "GLM", "0xa", "0xb", "0xc"}
MCLower == [n \in MCNames |-> IF n = "GLM" THEN "glm" ELSE n]
MCWordIn == [n \in MCNames |-> IF n \in {"qwen-max", "qwen-plus"} THEN "qwen"
                               ELSE IF MCLower[n] = "glm" THEN "glm" ELSE "none"]
MCPrefixOf == MCLower
Service(provider, model) ==
  [provider |-> provider, model |-> model, inference |-> TRUE]
Other(provider) == [provider |-> provider, model |-> "glm", inference |-> FALSE]
Twice == <<Service("0xa", "qwen-max"), Service("0xb", "qwen-plus"),
           Service("0xc", "glm")>>
OneFamily == <<Other("0xc"), Service("0xa", "qwen-max"),
               Service("0xb", "qwen-plus")>>
Unnamed == <<Service("0xb", "glm"), Service("0xa", None)>>
Cased == <<Service("0xa", "glm"), Service("0xb", "GLM")>>
MCListings == {Twice, OneFamily, Unnamed, Cased}
MCStub == <<Service("0xa", "qwen-plus"), Service("0xb", "glm")>>

(* d3 reads as d1 does; its second panelist gets the choices in another    *)
(* order than that of d1.                                                  *)
MCDisputes == {d1, d2, d3}
MCContent == [d \in MCDisputes |-> IF d = d2 THEN "theirs" ELSE "ours"]
MCOffset == [x \in MCDisputes \X (1..PanelSize) |->
               IF x[2] = 1 THEN 0 ELSE IF x[1] = d3 THEN 1 ELSE 2]
MCPrompts == {Prompt(d, i) : d \in MCDisputes, i \in 1..PanelSize}
MCQuestions == [model : MCNames, prompt : MCPrompts]
MCStubAnswer == [q \in MCQuestions |-> IF q.model = "glm" THEN "REJECT"
                                       ELSE "REFUND"]

Alice == <<"alice", "eth">>
Bob == <<"bob", "eth">>
AliceHere == <<"alice", "tribune", "eth">>
Carol == <<"carol", "eth">>
MCEnsNames == {Alice, Bob, AliceHere, Carol}
MCClaimant == [d \in MCDisputes |-> IF d = d2 THEN Carol ELSE Alice]
MCRespondent == [d \in MCDisputes |-> IF d = d2 THEN AliceHere ELSE Bob]
MCSpace == <<"tribune", "eth">>

Setting(config, disputeOf, horizon, listings, recorded) ==
  [config |-> config, disputeOf |-> disputeOf, horizon |-> horizon,
   listings |-> listings, fixtures |-> recorded]

Key == {"PANEL_PRIVATE_KEY"}
KeyAndEns == Key \cup {"ENS_PUBLIC_RESOLVER_ADDRESS"}
Once == a1 :> d1
Alike == (a1 :> d1) @@ (a2 :> d3)
Both == (a1 :> d1) @@ (a2 :> d2)

Recorded(glm, qwen) ==
  LET says(q) == IF q.model = "glm" THEN glm ELSE qwen
  IN  [q \in {q \in MCQuestions : q.model \in {"glm", "qwen-max"}} |->
        IF says(q) = "unreadable" THEN Truncated
        ELSE [says |-> says(q), to |-> q]]
Empty == <<>>

(* The stub for two disputes; recording 0G's answers, once while time      *)
(* passes and twice for disputes that read alike; and replaying what an    *)
(* earlier run left, a truncated file among it, or with reputations on ENS.*)
MCSettings ==
  {Setting(ServiceConfig(profile, {}), Both, 0, {Twice}, Empty) :
     profile \in {"test", "demo"}}
  \cup {Setting(ServiceConfig("local", KeyAndEns), Once, 1, MCListings, Empty),
        Setting(ServiceConfig("local", KeyAndEns), Alike, 0, {OneFamily}, Empty),
        Setting(ServiceConfig("demo", KeyAndEns), Both, 0, MCListings,
                Recorded("REFUND", "unreadable")),
        Setting(ReadPanelConfig("demo", KeyAndEns), Both, 0, {Twice},
                Recorded("REFUND", "REJECT"))}
(* A panel of three over a list of two families.                           *)
MCFewSettings ==
  {Setting(ServiceConfig("local", Key), Once, 0, {Twice}, Empty)}
=============================================================================
