---------------------------- MODULE PanelSelection ----------------------------
(***************************************************************************)
(* From what the 0G network lists to three panelists and back:             *)
(* AdjudicationService picks models of distinct families, OgComputeAdapter *)
(* finds a provider for the name of a model.  Each has a familyKey of its  *)
(* own.                                                                    *)
(***************************************************************************)
EXTENDS Integers, SequencesExt, FiniteSetsExt

CONSTANTS
  Names,      \* model names and provider addresses
  Lower,      \* Lower[name]: the name in lower case
  WordIn,     \* WordIn[name]: the first known family Lower[name] contains, if any
  PrefixOf,   \* PrefixOf[name]: what precedes the first separator of Lower[name]
  PanelSize,  \* three in adjudicate()
  None

KnownWords == {"llama", "deepseek", "qwen", "glm", "mistral", "gemma"}

ASSUME SelectionAssumption ==
  /\ WordIn \in [Names -> KnownWords \cup {"none"}]
  /\ \A m, n \in Names :
       Lower[m] = Lower[n] => WordIn[m] = WordIn[n] /\ PrefixOf[m] = PrefixOf[n]
  /\ PanelSize \in Nat \ {0}
  /\ None \notin Names

(* A service of the network: `model` may be missing.                       *)
Services ==
  [provider : Names, model : Names \cup {None}, inference : BOOLEAN]

FamilyKey(name) ==
  IF WordIn[name] # "none" THEN WordIn[name] ELSE PrefixOf[name]

(* The adapter compares in lower case; a missing model is the empty string.*)
LowerCase(name) == IF name = None THEN "" ELSE Lower[name]

(* Its families: no gemma.                                                 *)
OgFamilyKey(name) ==
  IF name = None THEN ""
  ELSE IF WordIn[name] \notin {"none", "gemma"} THEN WordIn[name]
  ELSE PrefixOf[name]

(* The elements of a list at some indices, in the order of the list.       *)
Ascending(indices) ==
  LET places == 1..Cardinality(indices)
  IN  CHOOSE f \in [places -> indices] : \A j, k \in places : j < k => f[j] < f[k]

InOrder(list, indices) ==
  [k \in 1..Cardinality(indices) |-> list[Ascending(indices)[k]]]

(* listAvailableModels                                                     *)
InferenceOnly(services) ==
  InOrder(services, {i \in DOMAIN services : services[i].inference})
NameOf(s) == IF s.model = None THEN s.provider ELSE s.model
ModelNames(services) ==
  [i \in DOMAIN InferenceOnly(services) |-> NameOf(InferenceOnly(services)[i])]

-----------------------------------------------------------------------------
(* pickDistinctModels: the first model of each family, then, while there   *)
(* are too few, the others in the order of the list, each once; here names *)
(* that differ in case are two.                                            *)
FirstOfFamily(models) ==
  {i \in DOMAIN models :
     \A j \in 1..(i - 1) : FamilyKey(models[j]) # FamilyKey(models[i])}

FirstOfName(models) ==
  {i \in DOMAIN models : \A j \in 1..(i - 1) : models[j] # models[i]}

FirstListed(models) ==
  SubSeq(models, 1, Min({PanelSize, Len(models)}))
PickDistinctModels(models) ==
  LET firsts == FirstOfFamily(models)
      picked == InOrder(models, firsts)
                  \o InOrder(models, FirstOfName(models) \ firsts)
  IN  SubSeq(picked, 1, Min({PanelSize, Len(picked)}))

(* pickProviderByModel: the first model of that name in whatever case, else*)
(* one of its family, else whatever comes first.  None if nothing is listed.*)
OfFamily(services, requested) ==
  InOrder(services, {i \in DOMAIN services :
                       OgFamilyKey(services[i].model) = OgFamilyKey(requested)})
OfModel(services, requested) ==
  InOrder(services, {i \in DOMAIN services :
                       LowerCase(services[i].model) = LowerCase(requested)})

ByFamily(services, requested) ==
  Head(OfFamily(services, requested) \o services \o <<None>>)
PickProviderByModel(services, requested) ==
  Head(OfModel(services, requested) \o OfFamily(services, requested)
         \o services \o <<None>>)
=============================================================================
