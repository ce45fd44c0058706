---------------------------- MODULE OrderedTree ----------------------------
(***************************************************************************)
(* What InMemoryBTree promises, without its nodes: a set of entries ordered *)
(* by (key, entryId) and the counter that hands out entry ids.  Every        *)
(* operation is a function of the tree that yields the next tree, the value  *)
(* returned and whether it threw; nothing here is a state machine, so the    *)
(* same operators serve InMemoryBTree.tla, the replicas of Coordinator.tla   *)
(* and the history of LinearTree.tla.  Keys are integers: compareKeys is a   *)
(* total order and only that order is used.                                  *)
(***************************************************************************)
EXTENDS Integers, Sequences, FiniteSets
Seqs == INSTANCE SequencesExt

CONSTANTS
    Null,                \* the null an operation returns; a model value
    DuplicateKeys,       \* duplicateKeys: "allow", "reject" or "replace"
    EnableEntryIdLookup, \* enableEntryIdLookup
    MaxSequence          \* Number.MAX_SAFE_INTEGER

ASSUME PolicyAssumption == DuplicateKeys \in {"allow", "reject", "replace"}
ASSUME LookupAssumption == EnableEntryIdLookup \in BOOLEAN
ASSUME SequenceAssumption == MaxSequence \in Nat

EmptyTree == [entries |-> {}, nextSequence |-> 0]

Returned(t, r) == [tree |-> t, result |-> r, threw |-> FALSE]
Thrown(t) == [tree |-> t, result |-> Null, threw |-> TRUE]

-----------------------------------------------------------------------------
(* The order of the leaves and the lookups that descend to one position. *)

Precedes(d, e) ==
    \/ d.key < e.key
    \/ d.key = e.key /\ d.entryId < e.entryId

FirstOf(S) ==
    IF S = {} THEN Null ELSE CHOOSE e \in S : \A d \in S : d = e \/ Precedes(e, d)
LastOf(S) ==
    IF S = {} THEN Null ELSE CHOOSE e \in S : \A d \in S : d = e \/ Precedes(d, e)

Matching(t, key) == {e \in t.entries : e.key = key}
HasKey(t, key) == Matching(t, key) # {}
WithId(t, id) == {e \in t.entries : e.entryId = id}

(* A RangeBounds record names each end "inclusive" or "exclusive". *)
InRange(t, startKey, endKey, options) ==
    {e \in t.entries :
        /\ startKey < e.key \/ (startKey = e.key /\ options.lowerBound = "inclusive")
        /\ e.key < endKey \/ (e.key = endKey /\ options.upperBound = "inclusive")}

-----------------------------------------------------------------------------
(* Writes. *)

(* With reject and replace a key has at most one entry, the one in front of  *)
(* the insertion point; it is looked at before the sequence counter is.      *)
Put(t, key, value) ==
    LET id == t.nextSequence
        hit == LastOf(Matching(t, key))
        duplicate == DuplicateKeys # "allow" /\ HasKey(t, key)
    IN  CASE duplicate /\ DuplicateKeys = "reject" -> Thrown(t)
          [] duplicate /\ DuplicateKeys = "replace" ->
               Returned([t EXCEPT !.entries =
                           (@ \ {hit}) \union {[hit EXCEPT !.value = value]}],
                        hit.entryId)
          [] ~duplicate /\ id >= MaxSequence -> Thrown(t)
          [] OTHER ->
               Returned([entries |-> t.entries \union
                                       {[key |-> key, entryId |-> id, value |-> value]},
                         nextSequence |-> id + 1], id)

Ascending(entries) ==
    \A i \in 2..Len(entries) :
        \/ entries[i - 1].key < entries[i].key
        \/ entries[i - 1].key = entries[i].key /\ DuplicateKeys = "allow"

(* The populated tree takes the entries one at a time: what was inserted     *)
(* before a put throws stays inserted.                                       *)
PutEach(t, entries) ==
    LET PutNext(sofar, e) ==
            LET p == Put(sofar.tree, e.key, e.value)
            IN  CASE sofar.threw -> sofar
                  [] ~sofar.threw /\ p.threw -> Thrown(sofar.tree)
                  [] OTHER -> Returned(p.tree, Append(sofar.result, p.result))
    IN  Seqs!FoldLeft(PutNext, Returned(t, <<>>), entries)

(* bulkLoadEntries: consecutive ids from base on. *)
LoadedFrom(base, entries) ==
    Returned([entries |-> {[key |-> entries[i].key, entryId |-> base + i - 1,
                            value |-> entries[i].value] : i \in DOMAIN entries},
              nextSequence |-> base + Len(entries)],
             [i \in DOMAIN entries |-> base + i - 1])

(* The empty tree is bulk loaded: all entries or none. *)
BulkLoad(t, entries) ==
    IF t.nextSequence + Len(entries) > MaxSequence
    THEN Thrown(t)
    ELSE LoadedFrom(t.nextSequence, entries)

PutMany(t, entries) ==
    CASE entries = <<>> -> Returned(t, <<>>)
      [] entries # <<>> /\ ~Ascending(entries) -> Thrown(t)
      [] entries # <<>> /\ Ascending(entries) /\ t.entries = {} -> BulkLoad(t, entries)
      [] OTHER -> PutEach(t, entries)

(* Takes the entry e out of the tree and returns it; Null when there is none. *)
Take(t, e) ==
    IF e = Null THEN Returned(t, Null)
    ELSE Returned([t EXCEPT !.entries = @ \ {e}], e)

Remove(t, key) == Take(t, FirstOf(Matching(t, key)))
PopFirst(t) == Take(t, FirstOf(t.entries))
PopLast(t) == Take(t, LastOf(t.entries))

RemoveById(t, id) ==
    IF EnableEntryIdLookup THEN Take(t, FirstOf(WithId(t, id))) ELSE Thrown(t)

UpdateById(t, id, value) ==
    LET e == FirstOf(WithId(t, id))
    IN  CASE ~EnableEntryIdLookup -> Thrown(t)
          [] EnableEntryIdLookup /\ e = Null -> Returned(t, Null)
          [] OTHER -> LET updated == [e EXCEPT !.value = value]
                      IN  Returned([t EXCEPT !.entries = (@ \ {e}) \union {updated}],
                                   updated)

DeleteRange(t, startKey, endKey, options) ==
    LET S == InRange(t, startKey, endKey, options)
    IN  Returned([t EXCEPT !.entries = @ \ S], Cardinality(S))

(* clear forgets the entries and keeps the counter: ids are not reused. *)
Clear(t) == Returned([t EXCEPT !.entries = {}], Null)

(* BTreeMutation: what a call, or a log, may ask of the tree.                *)
WriteTypes == {"put", "putMany", "remove", "removeById", "updateById",
               "popFirst", "popLast", "deleteRange", "clear"}
IsMutation(m) ==
    /\ m.type \in WriteTypes
    /\ m.type \in {"put", "remove"} => m.key \in Int
    /\ m.type = "putMany" => /\ m.entries \in Seq(Seqs!ToSet(m.entries))
                             /\ \A i \in DOMAIN m.entries : m.entries[i].key \in Int
    /\ m.type = "deleteRange" => m.startKey \in Int /\ m.endKey \in Int

(* applyMutationLocal.  "init" leaves the tree alone and is kept beside the  *)
(* mutation it was appended with (Coordinator.tla), so it is not listed.     *)
Apply(t, m) ==
    CASE m.type = "put" -> Put(t, m.key, m.value)
      [] m.type = "putMany" -> PutMany(t, m.entries)
      [] m.type = "remove" -> Remove(t, m.key)
      [] m.type = "removeById" -> RemoveById(t, m.entryId)
      [] m.type = "updateById" -> UpdateById(t, m.entryId, m.value)
      [] m.type = "popFirst" -> PopFirst(t)
      [] m.type = "popLast" -> PopLast(t)
      [] m.type = "deleteRange" -> DeleteRange(t, m.startKey, m.endKey, m.options)
      [] m.type = "clear" -> Clear(t)

(* The ids that m would hand out reach beyond the last one there is.         *)
Overflows(t, m) ==
    CASE m.type = "put" -> t.nextSequence >= MaxSequence
      [] m.type = "putMany" -> t.nextSequence + Len(m.entries) > MaxSequence
      [] OTHER -> FALSE

-----------------------------------------------------------------------------
(* What every operation relies on and keeps. *)

Counted(t) ==
    /\ t = [entries |-> t.entries, nextSequence |-> t.nextSequence]
    /\ t.nextSequence \in Nat

IsEntry(e, t) ==
    /\ e = [key |-> e.key, entryId |-> e.entryId, value |-> e.value]
    /\ e.key \in Int
    /\ e.entryId \in Nat /\ e.entryId < t.nextSequence

WellFormed(t) ==
    /\ Counted(t) /\ t.nextSequence <= MaxSequence
    /\ IsFiniteSet(t.entries)
    /\ \A e \in t.entries : IsEntry(e, t)
    /\ \A d, e \in t.entries : d.entryId = e.entryId => d = e
    /\ DuplicateKeys # "allow" => \A d, e \in t.entries : d.key = e.key => d = e

-----------------------------------------------------------------------------
(* The evaluators of writeOps.ts: whether a write is worth appending, judged *)
(* on the local tree.  "invalid" throws BTreeValidationError, "nothing"      *)
(* returns null, "append" hands the mutation to the store.                   *)

(* Faulty variant of Rejected: a putMany is not checked for order.           *)
RejectedByKey(t, m) ==
    \/ m.type = "put" /\ DuplicateKeys = "reject" /\ HasKey(t, m.key)
    \/ /\ m.type = "putMany" /\ DuplicateKeys = "reject"
       /\ \E i \in DOMAIN m.entries : HasKey(t, m.entries[i].key)
    \/ m.type \in {"removeById", "updateById"} /\ ~EnableEntryIdLookup

Rejected(t, m) ==
    \/ /\ m.type = "put"
       /\ DuplicateKeys = "reject" /\ HasKey(t, m.key)
    \/ /\ m.type = "putMany"
       /\ \/ ~Ascending(m.entries)
          \/ DuplicateKeys = "reject" /\ \E i \in DOMAIN m.entries : HasKey(t, m.entries[i].key)
    \/ m.type \in {"removeById", "updateById"} /\ ~EnableEntryIdLookup

Absent(t, m) ==
    \/ m.type = "remove" /\ ~HasKey(t, m.key)
    \/ m.type \in {"removeById", "updateById"} /\ WithId(t, m.entryId) = {}
    \/ m.type \in {"popFirst", "popLast"} /\ t.entries = {}
    \/ m.type = "deleteRange" /\ InRange(t, m.startKey, m.endKey, m.options) = {}

Evaluate(t, m) ==
    CASE Rejected(t, m) -> "invalid"
      [] ~Rejected(t, m) /\ Absent(t, m) -> "nothing"
      [] OTHER -> "append"
=============================================================================
