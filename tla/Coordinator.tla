---------------------------- MODULE Coordinator ----------------------------
(***************************************************************************)
(* ConcurrentInMemoryBTree instances over one shared store: every instance   *)
(* keeps a replica of the tree, runs its calls one at a time through a       *)
(* promise chain, and writes by sync -> evaluate -> append, where the append *)
(* is a compare-and-set on the version of the store's log.                   *)
(*                                                                           *)
(* A call (put, get, sync, ...) is a number in Ops, given out in the order   *)
(* the calls are made, and everything the call carries is a function of that *)
(* number; a step is one run of the event loop between two awaits, or one    *)
(* step of the store.  The version of the log is the number of batches in it *)
(* as in tests/helpers/sharedTreeStoreStubs.ts.  A crashed instance is one   *)
(* that takes no further step (no safety property assumes fairness), and the *)
(* instance that replaces it is another member of Coordinators.              *)
(***************************************************************************)
EXTENDS OrderedTree

CONSTANTS
    Coordinators,             \* the instances
    Fingerprint,              \* configFingerprint of each
    ReadMode,                 \* readMode of each: "strong" or "local"
    MaxRetries,               \* maxRetries
    MaxSyncMutationsPerBatch, \* maxSyncMutationsPerBatch
    Requests,                 \* what a caller may ask for
    MaxOps,                   \* bound: the calls made in one behaviour
    StaleReads,               \* may the store serve a read from an old version?
    SpuriousRefusals,         \* may it refuse an append that it could apply?
    StoreFailures             \* may its promises reject?

ReadTypes == {"read", "syncThenRead", "sync"}
Writes == {r \in Requests : r.type \in WriteTypes}
Fingerprints == {Fingerprint[c] : c \in Coordinators}
Ops == 1..MaxOps

ASSUME RetriesAssumption == MaxRetries \in Nat \ {0}
ASSUME SyncLimitAssumption == MaxSyncMutationsPerBatch \in Nat \ {0}
ASSUME OpsAssumption == MaxOps \in Nat
ASSUME ReadModeAssumption == ReadMode \in [Coordinators -> {"strong", "local"}]
ASSUME RequestsAssumption == \A r \in Requests : r.type \in WriteTypes \union ReadTypes
ASSUME WritesAssumption == \A m \in Writes : IsMutation(m)
ASSUME NullAssumption == Null \notin Fingerprints /\ Null \notin Requests

VARIABLES
    log,            \* the store: a sequence of [op, init, mutation] batches
    applied,        \* batches applied to the tree of each instance, in order
    currentVersion, \* of each instance
    initSeen,       \* of each instance
    corrupted,      \* of each instance
    operationQueue, \* of each instance: the last call chained, 0 if none
    invoked,        \* how many calls have been made
    owner,          \* call -> the instance it was made on
    request,        \* call -> what it asks for
    after,          \* call -> the call in front of it in operationQueue, or 0
    since,          \* call -> the log's version when the call was made (history)
    pc,             \* call -> "idle", "queued", "running" or "done"
    attempt,        \* call -> retries so far
    wire,           \* call -> where its latest request to the store has got to
    base,           \* call -> the version that request was made at
    carriesInit,    \* call -> does its append prepend an init mutation?
    answer,         \* call -> the version in the store's answer
    outcome,        \* call -> how it settled, "pending" before it does
    result,         \* call -> the value it settled with
    at              \* call -> the version of the tree the result speaks of (history)

store == log
replicas == <<applied, currentVersion, initSeen, corrupted>>
callers == <<operationQueue, invoked, owner, request, after, since>>
exchange == <<attempt, wire, base, carriesInit, answer>>
settlement == <<outcome, result, at>>
vars == <<store, replicas, callers, pc, exchange, settlement>>

-----------------------------------------------------------------------------
(* A batch holds one caller's mutation, behind an init mutation when it is   *)
(* the first its instance knows of; init leaves the tree as it is.           *)
Batch == [op : Ops, init : Fingerprints \union {Null}, mutation : Writes]

(* The tree after some mutations, one after the other, from an empty one.    *)
Run(mutations) ==
    LET ApplyNext(t, m) == Apply(t, m).tree
    IN  Seqs!FoldLeft(ApplyNext, EmptyTree, mutations)

Replay(batches) == Run([i \in DOMAIN batches |-> batches[i].mutation])

Tree(c) == Replay(applied[c])

(* The positions of todo whose mutation throws when todo is replayed behind done. *)
Throwing(done, todo) ==
    {i \in DOMAIN todo :
        Apply(Replay(done \o SubSeq(todo, 1, i - 1)), todo[i].mutation).threw}

MutationCount(batches) ==
    Len(batches) + Cardinality({i \in DOMAIN batches : batches[i].init # Null})

Init ==
    /\ log = <<>>
    /\ applied = [c \in Coordinators |-> <<>>]
    /\ currentVersion = [c \in Coordinators |-> 0]
    /\ initSeen = [c \in Coordinators |-> FALSE]
    /\ corrupted = [c \in Coordinators |-> FALSE]
    /\ operationQueue = [c \in Coordinators |-> 0]
    /\ invoked = 0
    /\ owner = [o \in Ops |-> Null]
    /\ request = [o \in Ops |-> Null]
    /\ after = [o \in Ops |-> 0]
    /\ since = [o \in Ops |-> 0]
    /\ pc = [o \in Ops |-> "idle"]
    /\ attempt = [o \in Ops |-> 0]
    /\ wire = [o \in Ops |-> "none"]
    /\ base = [o \in Ops |-> 0]
    /\ carriesInit = [o \in Ops |-> FALSE]
    /\ answer = [o \in Ops |-> 0]
    /\ outcome = [o \in Ops |-> "pending"]
    /\ result = [o \in Ops |-> Null]
    /\ at = [o \in Ops |-> 0]

(* The promise of call o settles: with the value r of the tree at version v, *)
(* or, for a failure, with an error. *)
Settle(o, how, r, v) ==
    /\ pc' = [pc EXCEPT ![o] = "done"]
    /\ outcome' = [outcome EXCEPT ![o] = how]
    /\ result' = [result EXCEPT ![o] = r]
    /\ at' = [at EXCEPT ![o] = v]

Fail(o, how) == Settle(o, how, Null, 0)

-----------------------------------------------------------------------------
(* Calls and the operation queue. *)

(* A call chains itself behind the calls made before it: runExclusive. *)
Invoke(c, r) ==
    LET o == invoked + 1
    IN  /\ invoked < MaxOps
        /\ ~(r.type = "putMany" /\ r.entries = <<>>)
        /\ invoked' = o
        /\ owner' = [owner EXCEPT ![o] = c]
        /\ request' = [request EXCEPT ![o] = r]
        /\ after' = [after EXCEPT ![o] = operationQueue[c]]
        /\ operationQueue' = [operationQueue EXCEPT ![c] = o]
        /\ since' = [since EXCEPT ![o] = Len(log)]
        /\ pc' = [pc EXCEPT ![o] = "queued"]
        /\ UNCHANGED <<store, replicas, exchange, settlement>>

(* putMany of no entries answers at once and never enters the queue. *)
PutNothing(c, r) ==
    LET o == invoked + 1
    IN  /\ invoked < MaxOps
        /\ r.type = "putMany" /\ r.entries = <<>>
        /\ invoked' = o
        /\ owner' = [owner EXCEPT ![o] = c]
        /\ request' = [request EXCEPT ![o] = r]
        /\ since' = [since EXCEPT ![o] = Len(log)]
        /\ Settle(o, "empty", <<>>, 0)
        /\ UNCHANGED <<store, replicas, operationQueue, after, exchange>>

(* Faulty variants of Ready: calls are not chained at all; a call that fails *)
(* breaks the chain.                                                         *)
ReadyAtOnce(o) == pc[o] = "queued"
ReadyAfterSuccess(o) ==
    /\ pc[o] = "queued"
    /\ after[o] # 0 => outcome[after[o]] \in {"committed", "observed", "nothing"}

(* The promise in front has settled, either way. *)
Ready(o) ==
    /\ pc[o] = "queued"
    /\ after[o] # 0 => pc[after[o]] = "done"

(* Faulty variant of ReadsLocally: readMode is not looked at. *)
ReadsAlwaysLocally(o) == request[o].type = "read"

ReadsLocally(o) == request[o].type = "read" /\ ReadMode[owner[o]] = "local"

RefuseCorrupted(o) ==
    /\ Ready(o)
    /\ corrupted[owner[o]]
    /\ Fail(o, "corrupted")
    /\ UNCHANGED <<store, replicas, callers, exchange>>

AnswerLocally(o) ==
    /\ Ready(o)
    /\ ~corrupted[owner[o]]
    /\ ReadsLocally(o)
    /\ Settle(o, "observed", Tree(owner[o]).entries, currentVersion[owner[o]])
    /\ UNCHANGED <<store, replicas, callers, exchange>>

(* getLogEntriesSince(currentVersion) is sent. *)
AskForLog(o) ==
    /\ wire' = [wire EXCEPT ![o] = "asked"]
    /\ base' = [base EXCEPT ![o] = currentVersion[owner[o]]]
    /\ UNCHANGED <<carriesInit, answer>>

(* Faulty variant of StartSync: a corrupted instance goes on working. *)
StartSyncAnyway(o) ==
    /\ Ready(o)
    /\ ~ReadsLocally(o)
    /\ pc' = [pc EXCEPT ![o] = "running"]
    /\ AskForLog(o)
    /\ UNCHANGED <<store, replicas, callers, attempt, settlement>>

StartSync(o) ==
    /\ Ready(o)
    /\ ~corrupted[owner[o]]
    /\ ~ReadsLocally(o)
    /\ pc' = [pc EXCEPT ![o] = "running"]
    /\ AskForLog(o)
    /\ UNCHANGED <<store, replicas, callers, attempt, settlement>>

-----------------------------------------------------------------------------
(* The store.  Batches never change once logged, so the answer to a read is  *)
(* only the version it speaks of; a read nobody waits for is not served.     *)

ServeLog(o) ==
    /\ pc[o] = "running" /\ wire[o] = "asked"
    /\ \E v \in 0..Len(log) :
          /\ StaleReads \/ v = Len(log)
          /\ answer' = [answer EXCEPT ![o] = v]
    /\ wire' = [wire EXCEPT ![o] = "served"]
    /\ UNCHANGED <<store, replicas, callers, pc, attempt, base, carriesInit, settlement>>

(* Faulty variant of ApplyAppend: no compare-and-set on the version. *)
AppendUnconditionally(o) ==
    /\ wire[o] = "sent"
    /\ log' = Append(log, [op |-> o,
                           init |-> IF carriesInit[o] THEN Fingerprint[owner[o]] ELSE Null,
                           mutation |-> request[o]])
    /\ wire' = [wire EXCEPT ![o] = "appended"]
    /\ answer' = [answer EXCEPT ![o] = Len(log) + 1]
    /\ UNCHANGED <<replicas, callers, pc, attempt, base, carriesInit, settlement>>

(* An append may be served after its caller was told that it failed. *)
ApplyAppend(o) ==
    /\ wire[o] = "sent"
    /\ Len(log) = base[o]
    /\ log' = Append(log, [op |-> o,
                           init |-> IF carriesInit[o] THEN Fingerprint[owner[o]] ELSE Null,
                           mutation |-> request[o]])
    /\ wire' = [wire EXCEPT ![o] = "appended"]
    /\ answer' = [answer EXCEPT ![o] = Len(log) + 1]
    /\ UNCHANGED <<replicas, callers, pc, attempt, base, carriesInit, settlement>>

RefuseAppend(o) ==
    /\ wire[o] = "sent"
    /\ Len(log) # base[o] \/ SpuriousRefusals
    /\ wire' = [wire EXCEPT ![o] = "refused"]
    /\ answer' = [answer EXCEPT ![o] = Len(log)]
    /\ UNCHANGED <<store, replicas, callers, pc, attempt, base, carriesInit, settlement>>

-----------------------------------------------------------------------------
(* syncUnlocked, once the log has been served. *)

HasLog(o) == pc[o] = "running" /\ wire[o] = "served"
Unseen(o) == SubSeq(log, base[o] + 1, answer[o])

Oversized(o) == MutationCount(Unseen(o)) > MaxSyncMutationsPerBatch
Mismatched(o) ==
    \E i \in DOMAIN Unseen(o) : Unseen(o)[i].init \notin {Null, Fingerprint[owner[o]]}
ReplayThrows(o) == Throwing(applied[owner[o]], Unseen(o)) # {}
Replays(o) == HasLog(o) /\ ~Oversized(o) /\ ~Mismatched(o) /\ ~ReplayThrows(o)

(* Faulty variant of RefuseOversized: it applies what the limit allows.      *)
RefuseOversizedPartway(o) ==
    LET c == owner[o]
    IN  /\ HasLog(o)
        /\ Oversized(o)
        /\ applied' = [applied EXCEPT ![c] = Append(@, Head(Unseen(o)))]
        /\ currentVersion' = [currentVersion EXCEPT ![c] = @ + 1]
        /\ initSeen' = [initSeen EXCEPT ![c] = TRUE]
        /\ Fail(o, "oversized")
        /\ UNCHANGED <<store, corrupted, callers, exchange>>

(* validateSyncLog, validateMutationBatch: the replica is left as it was. *)
RefuseOversized(o) ==
    /\ HasLog(o)
    /\ Oversized(o)
    /\ Fail(o, "oversized")
    /\ UNCHANGED <<store, replicas, callers, exchange>>

(* Faulty variant of RefuseMismatched: the batch is validated inside the try *)
(* block of the replay. *)
RefuseMismatchedInTry(o) ==
    /\ HasLog(o)
    /\ ~Oversized(o) /\ Mismatched(o)
    /\ corrupted' = [corrupted EXCEPT ![owner[o]] = TRUE]
    /\ Fail(o, "mismatched")
    /\ UNCHANGED <<store, applied, currentVersion, initSeen, callers, exchange>>

RefuseMismatched(o) ==
    /\ HasLog(o)
    /\ ~Oversized(o) /\ Mismatched(o)
    /\ Fail(o, "mismatched")
    /\ UNCHANGED <<store, replicas, callers, exchange>>

(* Faulty variant of SeesInit: the replay does not note an init mutation. *)
SeesNoInit(batches) == FALSE

SeesInit(batches) == \E i \in DOMAIN batches : batches[i].init # Null

(* The batches in front of the first that throws stay applied, and of that   *)
(* one whatever it did before it threw.                                      *)
FailReplay(o) ==
    LET c == owner[o]
        throwing == Throwing(applied[c], Unseen(o))
    IN  /\ HasLog(o)
        /\ ~Oversized(o) /\ ~Mismatched(o)
        /\ \E i \in throwing :
              LET replayed == SubSeq(Unseen(o), 1, i)
              IN  /\ \A j \in throwing : i <= j
                  /\ applied' = [applied EXCEPT ![c] = @ \o replayed]
                  /\ initSeen' = [initSeen EXCEPT ![c] = @ \/ SeesInit(replayed)]
        /\ corrupted' = [corrupted EXCEPT ![c] = TRUE]
        /\ Fail(o, "replayFailed")
        /\ UNCHANGED <<store, currentVersion, callers, exchange>>

(* Faulty variant of SyncedVersion: it follows an old answer back. *)
VersionOfAnswer(o) == answer[o]

(* An answer no newer than the replica is ignored: Unseen is then empty. *)
SyncedVersion(o) == IF answer[o] > base[o] THEN answer[o] ELSE base[o]
SyncedTree(o) == Replay(applied[owner[o]] \o Unseen(o))

CatchUp(o) ==
    LET c == owner[o]
    IN  /\ applied' = [applied EXCEPT ![c] = @ \o Unseen(o)]
        /\ currentVersion' = [currentVersion EXCEPT ![c] = SyncedVersion(o)]
        /\ initSeen' = [initSeen EXCEPT ![c] = @ \/ SeesInit(Unseen(o))]
        /\ UNCHANGED <<store, corrupted, callers>>

(* sync, the strong reads and syncThenRead end here. *)
AnswerSynced(o) ==
    /\ Replays(o)
    /\ request[o].type \in ReadTypes
    /\ CatchUp(o)
    /\ Settle(o, "observed",
              IF request[o].type = "sync" THEN Null ELSE SyncedTree(o).entries,
              SyncedVersion(o))
    /\ UNCHANGED exchange

-----------------------------------------------------------------------------
(* appendAndApply, from the evaluation to the answer of the store. *)

(* Faulty variant of Verdict: the evaluation comes before the sync. *)
VerdictBeforeSync(o) == Evaluate(Tree(owner[o]), request[o])

Verdict(o) == Evaluate(SyncedTree(o), request[o])

AnswerUnappended(o) ==
    /\ Replays(o)
    /\ request[o].type \in WriteTypes
    /\ Verdict(o) \in {"invalid", "nothing"}
    /\ CatchUp(o)
    /\ Settle(o, Verdict(o), Null, SyncedVersion(o))
    /\ UNCHANGED exchange

SendAppend(o) ==
    /\ Replays(o)
    /\ request[o].type \in WriteTypes
    /\ Verdict(o) = "append"
    /\ CatchUp(o)
    /\ wire' = [wire EXCEPT ![o] = "sent"]
    /\ base' = [base EXCEPT ![o] = SyncedVersion(o)]
    /\ carriesInit' = [carriesInit EXCEPT
                          ![o] = ~(initSeen[owner[o]] \/ SeesInit(Unseen(o)))]
    /\ UNCHANGED <<pc, attempt, answer, settlement>>

(* The append was applied: the same mutation is applied here, at the version *)
(* the store gave it.                                                        *)
HasAppended(o) == pc[o] = "running" /\ wire[o] = "appended"
LocalApply(o) == Apply(Tree(owner[o]), request[o])

ApplyLocally(o) ==
    LET c == owner[o]
    IN  /\ HasAppended(o)
        /\ applied' = [applied EXCEPT ![c] = Append(@, log[answer[o]])]
        /\ initSeen' = [initSeen EXCEPT ![c] = @ \/ carriesInit[o]]

FinishAppend(o) ==
    /\ ApplyLocally(o)
    /\ ~LocalApply(o).threw
    /\ currentVersion' = [currentVersion EXCEPT ![owner[o]] = answer[o]]
    /\ Settle(o, "committed", LocalApply(o).result, answer[o])
    /\ UNCHANGED <<store, corrupted, callers, exchange>>

FailApply(o) ==
    /\ ApplyLocally(o)
    /\ LocalApply(o).threw
    /\ corrupted' = [corrupted EXCEPT ![owner[o]] = TRUE]
    /\ Fail(o, "applyFailed")
    /\ UNCHANGED <<store, currentVersion, callers, exchange>>

(* Faulty variants of WasRefused: result.applied is not looked at; an append *)
(* that is not answered in time counts as refused.                           *)
WasAnswered(o) == pc[o] = "running" /\ wire[o] \in {"refused", "appended"}
WasRefusedOrLate(o) == pc[o] = "running" /\ wire[o] \in {"refused", "sent"}

(* The append was refused: sync again, unless the retries are used up. *)
WasRefused(o) == pc[o] = "running" /\ wire[o] = "refused"

(* Faulty variants of Retry and GiveUp: one attempt too many, one too few. *)
RetryOnceMore(o) ==
    /\ WasRefused(o)
    /\ attempt[o] + 1 <= MaxRetries
    /\ attempt' = [attempt EXCEPT ![o] = @ + 1]
    /\ AskForLog(o)
    /\ UNCHANGED <<store, replicas, callers, pc, settlement>>
GiveUpEarly(o) ==
    /\ WasRefused(o)
    /\ attempt[o] + 2 >= MaxRetries
    /\ Fail(o, "exhausted")
    /\ UNCHANGED <<store, replicas, callers, exchange>>

Retry(o) ==
    /\ WasRefused(o)
    /\ attempt[o] + 1 < MaxRetries
    /\ attempt' = [attempt EXCEPT ![o] = @ + 1]
    /\ AskForLog(o)
    /\ UNCHANGED <<store, replicas, callers, pc, settlement>>

GiveUp(o) ==
    /\ WasRefused(o)
    /\ attempt[o] + 1 >= MaxRetries
    /\ Fail(o, "exhausted")
    /\ UNCHANGED <<store, replicas, callers, exchange>>

(* getLogEntriesSince rejects, or answers something that is not a log. *)
SyncRejects(o) ==
    /\ StoreFailures
    /\ pc[o] = "running" /\ wire[o] \in {"asked", "served"}
    /\ Fail(o, "syncFailed")
    /\ UNCHANGED <<store, replicas, callers, exchange>>

(* append rejects, or its answer breaks the contract of                      *)
(* assertAppendVersionContract; whatever became of the append, or becomes of *)
(* it later, the call has failed.                                            *)
AppendRejects(o) ==
    /\ StoreFailures
    /\ pc[o] = "running" /\ wire[o] \in {"sent", "appended", "refused"}
    /\ Fail(o, "appendFailed")
    /\ UNCHANGED <<store, replicas, callers, exchange>>

-----------------------------------------------------------------------------
Step(o) ==
    \/ RefuseCorrupted(o) \/ AnswerLocally(o) \/ StartSync(o)
    \/ RefuseOversized(o) \/ RefuseMismatched(o) \/ FailReplay(o)
    \/ AnswerSynced(o) \/ AnswerUnappended(o) \/ SendAppend(o)
    \/ FinishAppend(o) \/ FailApply(o) \/ Retry(o) \/ GiveUp(o)

Serve(o) == ServeLog(o) \/ ApplyAppend(o) \/ RefuseAppend(o)

Disturb(o) == SyncRejects(o) \/ AppendRejects(o)

Next ==
    \/ \E c \in Coordinators, r \in Requests : Invoke(c, r) \/ PutNothing(c, r)
    \/ \E o \in Ops : Step(o) \/ Serve(o) \/ Disturb(o)

Spec == Init /\ [][Next]_vars

(* Promise reactions are never dropped by the event loop, and the store      *)
(* answers every request; nothing is assumed of the callers.                 *)
Fairness == \A o \in Ops : WF_vars(Step(o)) /\ WF_vars(Serve(o))

FairSpec == Spec /\ Fairness
-----------------------------------------------------------------------------
(* Properties. *)

Failures == {"corrupted", "oversized", "mismatched", "replayFailed", "exhausted",
             "syncFailed", "appendFailed", "applyFailed"}
Answers == {"committed", "observed", "nothing", "invalid"}
(* The failures, and the answers, that promise the call changed nothing. *)
Effectless == (Failures \ {"appendFailed", "applyFailed"}) \union (Answers \ {"committed"})

(* Shape of the state, and what each place of a call says of the others. *)
TypeOK ==
    /\ log \in Seq(Batch)
    /\ applied \in [Coordinators -> Seq(Batch)]
    /\ currentVersion \in [Coordinators -> Nat]
    /\ initSeen \in [Coordinators -> BOOLEAN]
    /\ corrupted \in [Coordinators -> BOOLEAN]
    /\ operationQueue \in [Coordinators -> 0..MaxOps]
    /\ invoked \in 0..MaxOps
    /\ owner \in [Ops -> Coordinators \union {Null}]
    /\ request \in [Ops -> Requests \union {Null}]
    /\ after \in [Ops -> 0..MaxOps]
    /\ since \in [Ops -> Nat]
    /\ pc \in [Ops -> {"idle", "queued", "running", "done"}]
    /\ attempt \in [Ops -> 0..(MaxRetries - 1)]
    /\ wire \in [Ops -> {"none", "asked", "served", "sent", "appended", "refused"}]
    /\ base \in [Ops -> Nat]
    /\ carriesInit \in [Ops -> BOOLEAN]
    /\ answer \in [Ops -> Nat]
    /\ outcome \in [Ops -> Answers \union Failures \union {"pending", "empty"}]
    /\ DOMAIN result = Ops
    /\ at \in [Ops -> Nat]

(* A healthy replica holds exactly the log up to currentVersion: no batch    *)
(* missing, repeated or out of order, whatever interleaving of syncs,        *)
(* appends, late answers and failures led there (coordinator.ts:44-64 and    *)
(* 108-135).                                                                 *)
ReplicaIsLogPrefix ==
    \A c \in Coordinators :
        ~corrupted[c] => /\ currentVersion[c] <= Len(log)
                         /\ applied[c] = SubSeq(log, 1, currentVersion[c])

(* A corrupted replica stopped at a mutation that throws on the log itself,  *)
(* not at something only this instance did: every peer that gets so far      *)
(* stops there too (coordinator.ts:57-63, 128-135).                          *)
CorruptionIsInTheLog ==
    \A c \in Coordinators :
        corrupted[c] => /\ applied[c] = SubSeq(log, 1, Len(applied[c]))
                        /\ Throwing(<<>>, applied[c]) = {Len(applied[c])}

(* Every mutation in the log was found worth appending on exactly the tree   *)
(* it is applied to: nothing came in between its evaluation and its place    *)
(* (coordinator.ts:95-118, ADR-0012).                                        *)
WritesAreJudgedInPlace ==
    \A i \in DOMAIN log :
        Evaluate(Replay(SubSeq(log, 1, i - 1)), log[i].mutation) = "append"

(* Only an exhausted sequence counter gets a throwing mutation into the log: *)
(* a mutation judged against one tree is never applied to another            *)
(* (coordinator.ts:99-113, writeOps.ts).                                     *)
OnlyOverflowPoisons ==
    \A i \in Throwing(<<>>, log) :
        Overflows(Replay(SubSeq(log, 1, i - 1)), log[i].mutation)

(* The first batch, and no other, carries an init mutation, and only         *)
(* instances of that configuration have a batch in the log or a tree that is *)
(* not empty (coordinator.ts:102-107, helpers.ts:92-109).                    *)
ConfigurationIsAgreed ==
    /\ \A i \in DOMAIN log : log[i].init # Null <=> i = 1
    /\ \A i \in DOMAIN log : Fingerprint[owner[log[i].op]] = log[1].init
    /\ \A c \in Coordinators : applied[c] # <<>> => Fingerprint[c] = log[1].init

(* A call puts at most one batch in the log, however often it retries and    *)
(* however late its append is served (coordinator.ts:94-136).                *)
AtMostOnce == \A i, j \in DOMAIN log : log[i].op = log[j].op => i = j

(* A call that settled by saying it changed nothing has no batch in the log  *)
(* and no append under way: not a refused write, not an exhausted one, not   *)
(* one whose sync failed.                                                    *)
EffectlessCallsLeaveNoTrace ==
    \A o \in Ops : outcome[o] \in Effectless =>
        /\ \A i \in DOMAIN log : log[i].op # o
        /\ wire[o] # "sent"

(* Every answer is the one a single tree would give that runs the log's      *)
(* mutations one after the other: a committed call at its own place in the   *)
(* log, the others at the version they saw.  A write that was told there was *)
(* nothing to do, or was refused, would do nothing there, or throw.          *)
AnswersAreSequential ==
    \A o \in Ops :
        /\ outcome[o] \in Answers => at[o] <= Len(log)
        /\ outcome[o] = "committed" =>
             LET done == Apply(Replay(SubSeq(log, 1, at[o] - 1)), request[o])
             IN  log[at[o]].op = o /\ ~done.threw /\ result[o] = done.result
        /\ outcome[o] = "observed" /\ request[o].type # "sync" =>
             result[o] = Replay(SubSeq(log, 1, at[o])).entries
        /\ outcome[o] \in {"nothing", "invalid"} =>
             LET seen == Replay(SubSeq(log, 1, at[o]))
                 done == Apply(seen, request[o])
             IN  /\ Evaluate(seen, request[o]) = outcome[o]
                 /\ done.threw <=> outcome[o] = "invalid"
                 /\ outcome[o] = "nothing" =>
                      /\ done.tree = seen
                      /\ done.result = IF request[o].type = "deleteRange" THEN 0 ELSE Null

(* The entry ids a committed write was given.                                *)
Given(o) ==
    CASE request[o].type = "put" -> {result[o]}
      [] request[o].type = "putMany" -> Seqs!ToSet(result[o])
      [] OTHER -> {}

(* An entry id is handed out once, whichever instances the calls were made   *)
(* on: every replica numbers its entries alike, and no two calls are given   *)
(* the ids of the same place in the log.  Under replace a put returns the id *)
(* of the entry it replaced (mutations.ts:79-115, coordinator.ts:117-123).   *)
IdsAreHandedOutOnce ==
    DuplicateKeys # "replace" =>
        \A o, p \in Ops :
            o # p /\ outcome[o] = "committed" /\ outcome[p] = "committed" =>
                Given(o) \intersect Given(p) = {}

(* No answer is older than its call: a write always, a read unless the       *)
(* instance reads locally or the store serves old versions (ADR-0021:        *)
(* strong reads are linearizable).                                           *)
AnswersAreFresh ==
    \A o \in Ops :
        /\ outcome[o] = "committed" => at[o] > since[o]
        /\ /\ outcome[o] \in Answers /\ ~StaleReads
           /\ request[o].type = "read" => ReadMode[owner[o]] = "strong"
           => at[o] >= since[o]

(* The calls of one instance see the log grow: each sees what the earlier    *)
(* ones saw and wrote, in local mode and under stale reads too (ADR-0003).   *)
SessionIsMonotonic ==
    \A o, p \in Ops :
        /\ o < p /\ owner[o] = owner[p]
        /\ outcome[o] \in Answers /\ outcome[p] \in Answers
        => /\ at[o] <= at[p]
           /\ outcome[p] = "committed" => at[o] < at[p]

(* Retries run out only because others made progress: as many batches of     *)
(* other calls as there were attempts (coordinator.ts:94-140).               *)
GivingUpMeansOthersCommitted ==
    \A o \in Ops :
        outcome[o] = "exhausted" /\ ~StaleReads /\ ~SpuriousRefusals =>
            Cardinality({i \in (since[o] + 1)..Len(log) : log[i].op # o}) >= MaxRetries

(* The batch that exceeds maxSyncMutationsPerBatch is refused before any of  *)
(* it is applied (spec 6.3), so an instance that fell behind so far stays    *)
(* there: unless the store answers with an old log, none of its later calls  *)
(* is answered, but for local reads (syncLogValidation.ts:16).               *)
OversizedIsForGood ==
    \A o, p \in Ops :
        /\ o < p /\ owner[o] = owner[p] /\ ~StaleReads
        /\ outcome[o] = "oversized" /\ outcome[p] \in Answers
        => ReadsLocally(p)

(* From the moment it is corrupted an instance answers no call from its tree *)
(* and its replica never changes (spec 6.3, coordinator.ts:70-73).           *)
CorruptionIsFinal ==
    [][\A c \in Coordinators : corrupted[c] =>
          /\ corrupted'[c] /\ applied'[c] = applied[c]
          /\ currentVersion'[c] = currentVersion[c]
          /\ \A o \in Ops : owner[o] = c /\ outcome[o] = "pending" =>
                 outcome'[o] \notin Answers]_vars

(* Every call settles, in whatever way: the queue of an instance never       *)
(* stalls, a retry loop always ends.                                         *)
EveryCallSettles ==
    \A o \in Ops : pc[o] \in {"queued", "running"} ~> pc[o] = "done"

(* What spec 6.3 says of a corrupted instance: all its later operations      *)
(* throw.                                                                    *)
CorruptedInstanceAlwaysThrows ==
    [][\A o \in Ops : pc[o] # "done" /\ pc'[o] = "done" /\ corrupted[owner'[o]] =>
          outcome'[o] \in Failures]_vars

(* What spec 6.3 says of recovery: an instance created to replace a          *)
(* corrupted one is not corrupted by what it finds in the store.             *)
NewInstanceRecovers ==
    [][\A c, d \in Coordinators :
          corrupted[c] /\ applied[d] = <<>> => ~corrupted'[d]]_vars
=============================================================================
