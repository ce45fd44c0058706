--------------------------- MODULE Serialization ---------------------------
(***************************************************************************)
(* toJSON and fromJSON.  A payload is a record with the fields of BTreeJSON; *)
(* Null stands for a field, or an entry, of the wrong type, and for the      *)
(* optional deleteRebalancePolicy when it is left out.  Payloads are those   *)
(* others hand to fromJSON; the tree loaded from one that is accepted has    *)
(* the configuration the constants give, and the caller goes on with it.     *)
(***************************************************************************)
EXTENDS Integrity

CONSTANTS
    Payloads,               \* the payloads of other origin than toJSON
    MaxSerializedEntries    \* MAX_SERIALIZED_ENTRIES

MinNodeCapacity == 3
MaxNodeCapacity == 16384

-----------------------------------------------------------------------------

ConfigOf(s) ==
    [maxLeafEntries |-> s.maxLeafEntries, maxBranchChildren |-> s.maxBranchChildren,
     duplicateKeys |-> DuplicateKeys, enableEntryIdLookup |-> s.entryKeys # Null,
     autoScale |-> AutoScale,
     deleteRebalancePolicy |->
         IF DeleteRebalancePolicy = "standard" THEN Null ELSE DeleteRebalancePolicy]

SerializeToJSON(s) ==
    LET entries == EntriesFrom(s, s.leftmostLeaf, 1)
    IN  [version |-> 1, config |-> ConfigOf(s),
         entries |-> [i \in DOMAIN entries |->
                         [key |-> entries[i].key, value |-> entries[i].value]]]

ValidateStructure(json) ==
    /\ json.version = 1 /\ json.config # Null /\ json.entries # Null
    /\ Len(json.entries) <= MaxSerializedEntries
    /\ \A i \in DOMAIN json.entries : json.entries[i] # Null

ValidateCapacity(value) == value # Null /\ value \in MinNodeCapacity..MaxNodeCapacity
ValidateConfig(cfg) ==
    /\ cfg.duplicateKeys \in {"allow", "reject", "replace"}
    /\ cfg.enableEntryIdLookup \in BOOLEAN /\ cfg.autoScale \in BOOLEAN
    /\ ValidateCapacity(cfg.maxLeafEntries) /\ ValidateCapacity(cfg.maxBranchChildren)
    /\ cfg.autoScale => /\ cfg.maxLeafEntries >= Tiers[1].maxLeaf
                        /\ cfg.maxBranchChildren >= Tiers[1].maxBranch
ValidateBTreeJSON(json) == ValidateStructure(json) /\ ValidateConfig(json.config)

ValidateSortOrder(json) ==
    \A i \in 2..Len(json.entries) :
        LET before == json.entries[i - 1].key
            key == json.entries[i].key
        IN  before < key \/ (before = key /\ json.config.duplicateKeys = "allow")

(* The policy is the one option validateConfig leaves to the constructor. *)
PolicyOf(cfg) ==
    IF cfg.deleteRebalancePolicy = Null THEN "standard" ELSE cfg.deleteRebalancePolicy
IsLoadable(json) ==
    /\ ValidateBTreeJSON(json) /\ ValidateSortOrder(json)
    /\ PolicyOf(json.config) \in {"standard", "lazy"}

(* Faulty variant of FromJSON: the capacities start at the first tier. *)
FromJSONAtTier0(json) ==
    IF IsLoadable(json) THEN PutManyEntries(CreateInitialState, json.entries)
    ELSE Thrown(Null)

FromJSON(json) ==
    IF IsLoadable(json)
    THEN PutManyEntries(WithCapacity(CreateInitialState, json.config.maxLeafEntries,
                                     json.config.maxBranchChildren), json.entries)
    ELSE Thrown(Null)

(* A loadable payload with other options is one for other constants. *)
HasTheseOptions(json) ==
    /\ json.config.duplicateKeys = DuplicateKeys
    /\ json.config.enableEntryIdLookup = EnableEntryIdLookup
    /\ json.config.autoScale = AutoScale
    /\ PolicyOf(json.config) = DeleteRebalancePolicy
ASSUME PayloadAssumption == \A json \in Payloads : IsLoadable(json) => HasTheseOptions(json)

-----------------------------------------------------------------------------
(* The caller goes on with the tree that fromJSON builds. *)
Load(json) == ~FromJSON(json).threw /\ state' = Collect(FromJSON(json).tree)
LoadPayload == \E json \in Payloads : Load(json)
Reload == Load(SerializeToJSON(state))

SerialNext == Next \/ Reload \/ LoadPayload
SerialSpec == Init /\ [][SerialNext]_state

(* Every tree comes back from its own payload with the same pairs in the     *)
(* same order, capacities and options, and sound, whatever tier it grew to   *)
(* or shrank from; only one beyond the size limit is refused                 *)
(* (serialization.ts:89, InMemoryBTree.ts:298).                              *)
RoundTrips ==
    LET json == SerializeToJSON(state)
        back == FromJSON(json)
    IN  IF state.entryCount > MaxSerializedEntries THEN back.threw
        ELSE /\ ~back.threw
             /\ SerializeToJSON(back.tree) = json
             /\ AssertInvariants(back.tree)
=============================================================================
