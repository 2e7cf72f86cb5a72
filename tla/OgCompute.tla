------------------------------ MODULE OgCompute ------------------------------
(***************************************************************************)
(* OgComputeAdapter: the catalogue of services, cached for a time, the     *)
(* broker that is started once, and one inference call.  Callers run       *)
(* concurrently and stop at every await.                                   *)
(***************************************************************************)
EXTENDS PanelSelection

CONSTANTS
  Callers,     \* calls of listAvailableModels and runPanelist
  Listings,    \* what the network may list: sequences of services
  CatalogTtl,  \* catalogTtlMs
  MaxTime,     \* bound: time the clock grows to
  Answers      \* what a provider may answer: a vote, or text that is none

ASSUME OgComputeAssumption ==
  /\ CatalogTtl \in Nat \ {0} /\ MaxTime \in Nat
  /\ Listings \subseteq Seq(Services)

VARIABLES
  now,      \* Date.now()
  listed,   \* what listService would answer now
  broker,   \* brokerPromise
  catalog,  \* this.catalog
  og        \* og[c]: where caller c is

ogVars == <<now, listed, broker, catalog, og>>

(* A caller is in fetchCatalog until it has a listing, then asks.          *)
OgIdle == [pc |-> "Idle", model |-> None, since |-> 0, listing |-> None]
Stages == {"Idle", "Broker", "Request", "Response", "Listed", "Threw"}

(* A listing is what the network said and when.                            *)
Snapshots == [services : Listings, at : 0..MaxTime]

OgInit ==
  /\ now = 0 /\ listed \in Listings
  /\ broker = "None" /\ catalog = None
  /\ og = [c \in Callers |-> OgIdle]

Goes(c, stage) == og' = [og EXCEPT ![c].pc = stage]

-----------------------------------------------------------------------------
Fresh == catalog # None /\ now - catalog.fetchedAt < CatalogTtl

(* fetchCatalog: a fresh catalogue is returned at once, ...                *)
FromCatalog(c, model) ==
  /\ Fresh
  /\ og' = [og EXCEPT ![c] = [@ EXCEPT !.pc = "Listed", !.model = model,
                                       !.listing = catalog.snapshot]]
  /\ UNCHANGED <<now, listed, broker, catalog>>

(* ... otherwise the time is noted and the broker awaited.  getBroker keeps *)
(* its promise, a rejected one too.                                        *)
AwaitBroker(c, model) ==
  /\ ~Fresh
  /\ og' = [og EXCEPT ![c] = [@ EXCEPT !.pc = "Broker", !.model = model,
                                       !.since = now]]
  /\ broker' = IF broker = "None" THEN "Starting" ELSE broker
  /\ UNCHANGED <<now, listed, catalog>>

FetchCatalog(c, model) ==
  og[c].pc = "Idle" /\ (FromCatalog(c, model) \/ AwaitBroker(c, model))

(* The packages are imported and the broker is created, or not.            *)
BrokerSettles ==
  /\ broker = "Starting" /\ broker' \in {"Up", "Failed"}
  /\ UNCHANGED <<now, listed, catalog, og>>

CallsListService(c) ==
  /\ og[c].pc = "Broker" /\ broker = "Up"
  /\ Goes(c, "Request")
  /\ UNCHANGED <<now, listed, broker, catalog>>

(* The network reads its list and sends it.                                *)
NetworkLists(c) ==
  /\ og[c].pc = "Request"
  /\ og' = [og EXCEPT ![c].pc = "Response",
                      ![c].listing = [services |-> listed, at |-> now]]
  /\ UNCHANGED <<now, listed, broker, catalog>>

(* The catalogue is as old as the time noted before the request.           *)
SinceAnswer(c) == now
SinceRequest(c) == og[c].since

StoresCatalog(c) ==
  /\ og[c].pc = "Response"
  /\ catalog' = [fetchedAt |-> SinceRequest(c), snapshot |-> og[c].listing]
  /\ Goes(c, "Listed")
  /\ UNCHANGED <<now, listed, broker>>

(* The broker did not start, or listService failed.                        *)
CatalogFails(c) ==
  /\ \/ og[c].pc = "Broker" /\ broker = "Failed"
     \/ og[c].pc \in {"Request", "Response"}
  /\ Goes(c, "Threw")
  /\ UNCHANGED <<now, listed, broker, catalog>>

ListingSteps(c) ==
  CallsListService(c) \/ NetworkLists(c) \/ StoresCatalog(c) \/ CatalogFails(c)

-----------------------------------------------------------------------------
(* The rest of runPanelist, once the services are known.  The provider is  *)
(* found in the listing; the model it is asked for is the one its metadata *)
(* name, which is the network's to say.                                    *)
ServicesOf(c) == og[c].listing.services
ProviderOf(c) ==
  PickProviderByModel(InferenceOnly(ServicesOf(c)), og[c].model)

(* The provider's answer to what it was asked; one that processResponse    *)
(* does not vouch for is thrown away, one it throws on is kept.            *)
Reply(c, question, says) ==
  [says |-> says, to |-> question]

Replies(c, question) ==
  {Reply(c, question, says) : says \in IF ProviderOf(c) = None THEN {} ELSE Answers}

(* No provider; the metadata, the headers, the request, its status or its  *)
(* body failed; or the attestation did.                                    *)
InferenceFails(c) == og[c].pc \in {"Listed", "Threw"}

-----------------------------------------------------------------------------
(* Time passes, and what the network offers may have changed by then.      *)
Tick ==
  /\ now < MaxTime /\ now' = now + 1
  /\ listed' \in Listings
  /\ UNCHANGED <<broker, catalog, og>>

OgTypeOK ==
  /\ now \in 0..MaxTime /\ listed \in Listings
  /\ broker \in {"None", "Starting", "Up", "Failed"}
  /\ \/ catalog = None
     \/ catalog \in [fetchedAt : 0..now, snapshot : Snapshots]
  /\ \A c \in Callers :
       /\ og[c].pc \in Stages /\ og[c].model \in Names \cup {None}
       /\ og[c].since \in 0..now
       /\ og[c].listing \in Snapshots \cup {None}

(* A catalogue that is handed out without asking the network is younger    *)
(* than its time to live, counted from when the network compiled it.       *)
CachedListingIsYoung ==
  Fresh => now - catalog.snapshot.at < CatalogTtl

=============================================================================
