---------------------------- MODULE BundleStorage ----------------------------
(***************************************************************************)
(* The storage adapters: put stores a content and, next to it, who may     *)
(* read it: two uploads to 0G (the sealed payload, then the companion with *)
(* its keys), two files, or one entry in memory.                           *)
(***************************************************************************)
EXTENDS Integers

CONSTANT Bundles

VARIABLES
  parts,  \* parts[b]: the parts of bundle b that were stored
  put     \* put[b]: where its put() is

storageVars == <<parts, put>>

StorageInit ==
  /\ parts = [b \in Bundles |-> {}]
  /\ put = [b \in Bundles |-> "Idle"]

Stored(b, part) == parts' = [parts EXCEPT ![b] = @ \cup part]
PutGoes(b, stage) == put' = [put EXCEPT ![b] = stage]

PutsInMemory(b) ==
  /\ put[b] = "Idle"
  /\ Stored(b, {"content", "readers"}) /\ PutGoes(b, "Stored")

(* The payload, or the .bin file.                                          *)
PutsContent(b) ==
  /\ put[b] = "Idle"
  /\ Stored(b, {"content"}) /\ PutGoes(b, "Content")

(* The companion, or the .json file; only then put() returns the URI.      *)
PutsReaders(b) ==
  /\ put[b] = "Content"
  /\ Stored(b, {"readers"}) /\ PutGoes(b, "Stored")

(* Either fails.  What was stored before stays.                            *)
Swallowed == "Stored"
Thrown == "Failed"
UploadFails(b) ==
  /\ put[b] \in {"Idle", "Content"}
  /\ PutGoes(b, Thrown)
  /\ UNCHANGED parts

(* getIndexer: the SDK or ethers cannot be loaded, now or when an earlier  *)
(* call tried; indexerPromise keeps the rejection.                         *)
IndexerFails(b) ==
  /\ put[b] = "Idle"
  /\ PutGoes(b, Thrown)
  /\ UNCHANGED parts

Put(b, adapter) ==
  \/ adapter = "Memory" /\ PutsInMemory(b)
  \/ adapter # "Memory"
     /\ (PutsContent(b) \/ PutsReaders(b) \/ UploadFails(b))
  \/ adapter = "OgStorage" /\ IndexerFails(b)

PutSettled(b) == put[b] \in {"Stored", "Failed"}

(* get(): the companion is downloaded first, and one of its envelopes opens *)
(* the payload.                                                            *)
Gets(b) == "readers" \in parts[b] /\ "content" \in parts[b]

StorageTypeOK ==
  /\ parts \in [Bundles -> SUBSET {"content", "readers"}]
  /\ put \in [Bundles -> {"Idle", "Content", "Stored", "Failed"}]
=============================================================================
