------------------------- MODULE CoordinatorProofs -------------------------
(***************************************************************************)
(* Theorems about Coordinator.tla, for every number of instances, calls and  *)
(* retries and every sequential tree.  The trees never have to be opened: a  *)
(* replica is the sequence of batches applied to it, and what Replay, Apply  *)
(* and Evaluate make of that sequence is the same wherever the sequence is.  *)
(* The inductive invariant comes in layers, each proved from those above it: *)
(* the places of a call (TypeInv), the queue of an instance, which runs one  *)
(* call at a time (QueueInv), the log, in which a call has at most one batch *)
(* (LogInv), and the replicas: a healthy one is the log up to currentVersion *)
(* (ReplicaInv).                                                             *)
(***************************************************************************)
EXTENDS Coordinator, SequenceTheorems, FiniteSetTheorems, TLAPS

-----------------------------------------------------------------------------
(* Facts about numbers and sequences. *)

LEMMA OpsAreNumbers == \A o \in Ops : o \in Nat /\ o >= 1 /\ o <= MaxOps
  BY OpsAssumption DEF Ops

(* A slice that ends inside a sequence is a sequence of the same elements. *)
LEMMA SliceTyped ==
  ASSUME NEW S, NEW s \in Seq(S), NEW m \in Nat, NEW n \in Nat, n <= Len(s)
  PROVE  /\ SubSeq(s, m + 1, n) \in Seq(S)
         /\ Len(SubSeq(s, m + 1, n)) = IF m < n THEN n - m ELSE 0
         /\ \A i \in 1..(n - m) : SubSeq(s, m + 1, n)[i] = s[m + i]
<1>1. \A i \in (m + 1)..n : s[i] \in S
  BY ElementOfSeq, LenProperties
<1> QED BY <1>1, SubSeqProperties

-----------------------------------------------------------------------------
(* Types, and what the places of one call say of each other. *)

CallPlaced(o) ==
    /\ pc[o] # "idle" <=> o <= invoked
    /\ pc[o] # "idle" => owner[o] \in Coordinators /\ request[o] \in Requests
    /\ pc[o] \in {"idle", "queued"} => wire[o] = "none"
    /\ outcome[o] = "pending" <=> pc[o] # "done"
    /\ wire[o] \in {"sent", "appended", "refused"} => request[o] \in Writes
    /\ wire[o] \in {"served", "appended", "refused"} => answer[o] <= Len(log)
    /\ wire[o] = "appended" => answer[o] = base[o] + 1

TypeInv == TypeOK /\ \A o \in Ops : CallPlaced(o)

LEMMA TypeInit == Init => TypeInv
  BY OpsAreNumbers, OpsAssumption, RetriesAssumption, EmptySeq
  DEF Init, TypeInv, TypeOK, CallPlaced, Answers, Failures

(* The slice of the log a sync replays. *)
LEMMA UnseenTyped ==
  ASSUME TypeInv, NEW o \in Ops, HasLog(o)
  PROVE  /\ owner[o] \in Coordinators /\ base[o] \in Nat /\ answer[o] \in 0..Len(log)
         /\ Unseen(o) \in Seq(Batch)
         /\ Len(Unseen(o)) = IF base[o] < answer[o] THEN answer[o] - base[o] ELSE 0
         /\ \A i \in 1..(answer[o] - base[o]) : Unseen(o)[i] = log[base[o] + i]
<1>1. /\ log \in Seq(Batch) /\ base[o] \in Nat /\ answer[o] \in Nat /\ answer[o] <= Len(log)
      /\ owner[o] \in Coordinators
  BY DEF TypeInv, TypeOK, CallPlaced, HasLog
<1>2. Len(log) \in Nat
  BY <1>1, LenProperties
<1>3. /\ SubSeq(log, base[o] + 1, answer[o]) \in Seq(Batch)
      /\ Len(SubSeq(log, base[o] + 1, answer[o])) =
           IF base[o] < answer[o] THEN answer[o] - base[o] ELSE 0
      /\ \A i \in 1..(answer[o] - base[o]) :
           SubSeq(log, base[o] + 1, answer[o])[i] = log[base[o] + i]
  BY <1>1, <1>2, SliceTyped, SMTT(30)
<1>4. answer[o] \in 0..Len(log)
  BY <1>1, <1>2
<1> QED BY <1>1, <1>3, <1>4 DEF Unseen

LEMMA CatchUpTyped ==
  ASSUME TypeInv, NEW o \in Ops, HasLog(o), CatchUp(o)
  PROVE  /\ applied' \in [Coordinators -> Seq(Batch)]
         /\ currentVersion' \in [Coordinators -> Nat]
         /\ initSeen' \in [Coordinators -> BOOLEAN]
         /\ SyncedVersion(o) \in Nat
         /\ UNCHANGED <<store, corrupted, callers>>
<1>1. applied[owner[o]] \o Unseen(o) \in Seq(Batch)
  BY UnseenTyped, ConcatProperties DEF TypeInv, TypeOK
<1>2. SyncedVersion(o) \in Nat
  BY UnseenTyped DEF SyncedVersion
<1>3. SeesInit(Unseen(o)) \in BOOLEAN
  BY DEF SeesInit
<1> QED BY <1>1, <1>2, <1>3, UnseenTyped DEF CatchUp, TypeInv, TypeOK

LEMMA AppliedAnswer ==
  ASSUME TypeInv, NEW o \in Ops, HasAppended(o)
  PROVE  /\ owner[o] \in Coordinators
         /\ answer[o] \in 1..Len(log) /\ log[answer[o]] \in Batch
         /\ Append(applied[owner[o]], log[answer[o]]) \in Seq(Batch)
<1>1. owner[o] \in Coordinators /\ answer[o] \in 1..Len(log) /\ log \in Seq(Batch)
  BY LenProperties DEF TypeInv, TypeOK, CallPlaced, HasAppended
<1>2. log[answer[o]] \in Batch
  BY <1>1, ElementOfSeq
<1> QED BY <1>1, <1>2, AppendProperties DEF TypeInv, TypeOK

(* The batch an append puts at the end of the log. *)
LEMMA LogGrows ==
  ASSUME TypeInv, NEW o \in Ops, ApplyAppend(o)
  PROVE  \E b \in Batch :
           /\ b.op = o /\ b.mutation = request[o]
           /\ b.init = IF carriesInit[o] THEN Fingerprint[owner[o]] ELSE Null
           /\ log' = Append(log, b) /\ log' \in Seq(Batch)
           /\ Len(log) \in Nat /\ Len(log') = Len(log) + 1
           /\ \A i \in 1..Len(log) : log'[i] = log[i]
           /\ log'[Len(log) + 1] = b
<1> DEFINE b == [op |-> o,
                 init |-> IF carriesInit[o] THEN Fingerprint[owner[o]] ELSE Null,
                 mutation |-> request[o]]
<1>1. /\ log' = Append(log, b) /\ request[o] \in Writes /\ owner[o] \in Coordinators
      /\ log \in Seq(Batch)
  BY DEF ApplyAppend, TypeInv, TypeOK, CallPlaced
<1>2. b \in Batch
  BY <1>1 DEF Batch, Fingerprints
<1> HIDE DEF b
<1>3. Len(log) \in Nat
  BY <1>1, LenProperties
<1>4. /\ log' \in Seq(Batch) /\ Len(log') = Len(log) + 1
      /\ \A i \in 1..Len(log) : log'[i] = log[i]
      /\ log'[Len(log) + 1] = b
  BY <1>1, <1>2, AppendProperties
<1>5. /\ b.op = o /\ b.mutation = request[o]
      /\ b.init = IF carriesInit[o] THEN Fingerprint[owner[o]] ELSE Null
  BY DEF b
<1> QED BY <1>1, <1>2, <1>3, <1>4, <1>5

LEMMA TypeInvoke ==
  ASSUME TypeInv, NEW c \in Coordinators, NEW r \in Requests,
         Invoke(c, r) \/ PutNothing(c, r)
  PROVE  TypeInv'
<1>1. PICK o \in Ops : o = invoked + 1 /\ invoked \in Nat
  BY OpsAssumption DEF TypeInv, TypeOK, Invoke, PutNothing, Ops
<1>2. Len(log) \in Nat /\ o \in 1..MaxOps
  BY LenProperties, OpsAreNumbers, OpsAssumption DEF TypeInv, TypeOK
<1>3. CASE Invoke(c, r)
  <2>1. /\ invoked' = o
        /\ owner' = [owner EXCEPT ![o] = c]
        /\ request' = [request EXCEPT ![o] = r]
        /\ after' = [after EXCEPT ![o] = operationQueue[c]]
        /\ operationQueue' = [operationQueue EXCEPT ![c] = o]
        /\ since' = [since EXCEPT ![o] = Len(log)]
        /\ pc' = [pc EXCEPT ![o] = "queued"]
        /\ UNCHANGED <<store, replicas, exchange, settlement>>
    BY <1>1, <1>3 DEF Invoke
  <2>a. /\ invoked' \in 0..MaxOps
        /\ operationQueue' \in [Coordinators -> 0..MaxOps]
    BY <2>1, <1>1, <1>2, OpsAssumption DEF TypeInv, TypeOK
  <2>b. /\ owner' \in [Ops -> Coordinators \union {Null}]
        /\ request' \in [Ops -> Requests \union {Null}]
        /\ after' \in [Ops -> 0..MaxOps]
        /\ since' \in [Ops -> Nat]
        /\ pc' \in [Ops -> {"idle", "queued", "running", "done"}]
    BY <2>1, <1>2 DEF TypeInv, TypeOK
  <2>2. TypeOK'
    BY <2>1, <2>a, <2>b DEF TypeInv, TypeOK, store, replicas, exchange, settlement
  <2>3. ASSUME NEW x \in Ops PROVE CallPlaced(x)'
    <3>1. CASE x = o
      BY <2>1, <1>1, <3>1, OpsAreNumbers
      DEF TypeInv, TypeOK, CallPlaced, store, replicas, exchange, settlement
    <3>2. CASE x # o
      <4>1. /\ pc'[x] = pc[x] /\ owner'[x] = owner[x] /\ request'[x] = request[x]
            /\ CallPlaced(x)
        BY <2>1, <3>2 DEF TypeInv, TypeOK
      <4>2. x <= invoked' <=> x <= invoked
        <5>1. invoked \in Nat /\ x \in Nat /\ o = invoked + 1 /\ invoked' = o
          BY <2>1, <1>1, OpsAreNumbers, OpsAssumption DEF TypeInv, TypeOK
        <5> QED BY <5>1, <3>2
      <4> QED BY <2>1, <4>1, <4>2 DEF CallPlaced, store, replicas, exchange, settlement
    <3> QED BY <3>1, <3>2
  <2> QED BY <2>2, <2>3 DEF TypeInv
<1>4. CASE PutNothing(c, r)
  <2>1. /\ invoked' = o
        /\ owner' = [owner EXCEPT ![o] = c]
        /\ request' = [request EXCEPT ![o] = r]
        /\ since' = [since EXCEPT ![o] = Len(log)]
        /\ pc' = [pc EXCEPT ![o] = "done"]
        /\ outcome' = [outcome EXCEPT ![o] = "empty"]
        /\ result' = [result EXCEPT ![o] = <<>>]
        /\ at' = [at EXCEPT ![o] = 0]
        /\ UNCHANGED <<store, replicas, operationQueue, after, exchange>>
    BY <1>1, <1>4 DEF PutNothing, Settle
  <2>a. invoked' \in 0..MaxOps
    BY <2>1, <1>1, <1>2, OpsAssumption
  <2>b. /\ owner' \in [Ops -> Coordinators \union {Null}]
        /\ request' \in [Ops -> Requests \union {Null}]
        /\ since' \in [Ops -> Nat]
        /\ pc' \in [Ops -> {"idle", "queued", "running", "done"}]
        /\ outcome' \in [Ops -> Answers \union Failures \union {"pending", "empty"}]
        /\ DOMAIN result' = Ops
        /\ at' \in [Ops -> Nat]
    BY <2>1, <1>2 DEF TypeInv, TypeOK
  <2>2. TypeOK'
    BY <2>1, <2>a, <2>b DEF TypeInv, TypeOK, store, replicas, exchange
  <2>3. ASSUME NEW x \in Ops PROVE CallPlaced(x)'
    <3>1. CASE x = o
      BY <2>1, <1>1, <3>1, OpsAreNumbers
      DEF TypeInv, TypeOK, CallPlaced, store, replicas, exchange
    <3>2. CASE x # o
      <4>1. /\ pc'[x] = pc[x] /\ owner'[x] = owner[x] /\ request'[x] = request[x]
            /\ outcome'[x] = outcome[x] /\ CallPlaced(x)
        BY <2>1, <3>2 DEF TypeInv, TypeOK
      <4>2. x <= invoked' <=> x <= invoked
        <5>1. invoked \in Nat /\ x \in Nat /\ o = invoked + 1 /\ invoked' = o
          BY <2>1, <1>1, OpsAreNumbers, OpsAssumption DEF TypeInv, TypeOK
        <5> QED BY <5>1, <3>2
      <4> QED BY <2>1, <4>1, <4>2 DEF CallPlaced, store, replicas, exchange
    <3> QED BY <3>1, <3>2
  <2> QED BY <2>2, <2>3 DEF TypeInv
<1> QED BY <1>3, <1>4

(* Steps that only settle a call. *)
LEMMA TypeSettle ==
  ASSUME TypeInv, NEW o \in Ops,
         \/ RefuseCorrupted(o) \/ AnswerLocally(o) \/ RefuseOversized(o)
         \/ RefuseMismatched(o) \/ GiveUp(o) \/ SyncRejects(o) \/ AppendRejects(o)
  PROVE  TypeInv'
<1>1. CASE RefuseCorrupted(o)
  <2>1. TypeOK'
    BY <1>1, RetriesAssumption
    DEF TypeInv, TypeOK, CallPlaced, Answers, Failures, RefuseCorrupted, Ready, Fail,
        Settle, store, replicas, callers, exchange, settlement
  <2>2. ASSUME NEW x \in Ops PROVE CallPlaced(x)'
    BY <1>1, OpsAreNumbers
    DEF TypeInv, TypeOK, CallPlaced, RefuseCorrupted, Ready, Fail, Settle, store, replicas,
        callers, exchange, settlement
  <2> QED BY <2>1, <2>2 DEF TypeInv
<1>2. CASE AnswerLocally(o)
  <2>1. TypeOK'
    BY <1>2, RetriesAssumption
    DEF TypeInv, TypeOK, CallPlaced, Answers, Failures, AnswerLocally, Ready, Settle, store,
        replicas, callers, exchange, settlement
  <2>2. ASSUME NEW x \in Ops PROVE CallPlaced(x)'
    BY <1>2, OpsAreNumbers
    DEF TypeInv, TypeOK, CallPlaced, AnswerLocally, Ready, Settle, store, replicas, callers,
        exchange, settlement
  <2> QED BY <2>1, <2>2 DEF TypeInv
<1>3. CASE RefuseOversized(o)
  <2>1. TypeOK'
    BY <1>3, RetriesAssumption
    DEF TypeInv, TypeOK, CallPlaced, Answers, Failures, RefuseOversized, HasLog, Fail,
        Settle, store, replicas, callers, exchange, settlement
  <2>2. ASSUME NEW x \in Ops PROVE CallPlaced(x)'
    BY <1>3, OpsAreNumbers
    DEF TypeInv, TypeOK, CallPlaced, RefuseOversized, HasLog, Fail, Settle, store, replicas,
        callers, exchange, settlement
  <2> QED BY <2>1, <2>2 DEF TypeInv
<1>4. CASE RefuseMismatched(o)
  <2>1. TypeOK'
    BY <1>4, RetriesAssumption
    DEF TypeInv, TypeOK, CallPlaced, Answers, Failures, RefuseMismatched, HasLog, Fail,
        Settle, store, replicas, callers, exchange, settlement
  <2>2. ASSUME NEW x \in Ops PROVE CallPlaced(x)'
    BY <1>4, OpsAreNumbers
    DEF TypeInv, TypeOK, CallPlaced, RefuseMismatched, HasLog, Fail, Settle, store,
        replicas, callers, exchange, settlement
  <2> QED BY <2>1, <2>2 DEF TypeInv
<1>5. CASE GiveUp(o)
  <2>1. TypeOK'
    BY <1>5, RetriesAssumption
    DEF TypeInv, TypeOK, CallPlaced, Answers, Failures, GiveUp, WasRefused, Fail, Settle,
        store, replicas, callers, exchange, settlement
  <2>2. ASSUME NEW x \in Ops PROVE CallPlaced(x)'
    BY <1>5, OpsAreNumbers
    DEF TypeInv, TypeOK, CallPlaced, GiveUp, WasRefused, Fail, Settle, store, replicas,
        callers, exchange, settlement
  <2> QED BY <2>1, <2>2 DEF TypeInv
<1>6. CASE SyncRejects(o)
  <2>1. TypeOK'
    BY <1>6, RetriesAssumption
    DEF TypeInv, TypeOK, CallPlaced, Answers, Failures, SyncRejects, Fail, Settle, store,
        replicas, callers, exchange, settlement
  <2>2. ASSUME NEW x \in Ops PROVE CallPlaced(x)'
    BY <1>6, OpsAreNumbers
    DEF TypeInv, TypeOK, CallPlaced, SyncRejects, Fail, Settle, store, replicas, callers,
        exchange, settlement
  <2> QED BY <2>1, <2>2 DEF TypeInv
<1>7. CASE AppendRejects(o)
  <2>1. TypeOK'
    BY <1>7, RetriesAssumption
    DEF TypeInv, TypeOK, CallPlaced, Answers, Failures, AppendRejects, Fail, Settle, store,
        replicas, callers, exchange, settlement
  <2>2. ASSUME NEW x \in Ops PROVE CallPlaced(x)'
    BY <1>7, OpsAreNumbers
    DEF TypeInv, TypeOK, CallPlaced, AppendRejects, Fail, Settle, store, replicas, callers,
        exchange, settlement
  <2> QED BY <2>1, <2>2 DEF TypeInv
<1> QED BY <1>1, <1>2, <1>3, <1>4, <1>5, <1>6, <1>7

(* Steps of the store. *)
LEMMA TypeStore ==
  ASSUME TypeInv, NEW o \in Ops,
         ServeLog(o) \/ ApplyAppend(o) \/ RefuseAppend(o)
  PROVE  TypeInv'
<1>1. CASE ServeLog(o)
  <2>0. Len(log) \in Nat
    BY LenProperties DEF TypeInv, TypeOK
  <2>a. PICK v \in 0..Len(log) : answer' = [answer EXCEPT ![o] = v]
    BY <1>1 DEF ServeLog
  <2>b. /\ wire' \in [Ops -> {"none", "asked", "served", "sent", "appended", "refused"}]
        /\ answer' \in [Ops -> Nat]
    BY <1>1, <2>0, <2>a DEF ServeLog, TypeInv, TypeOK
  <2>1. TypeOK'
    BY <1>1, <2>b DEF ServeLog, TypeInv, TypeOK, store, replicas, callers, settlement
  <2>2. ASSUME NEW x \in Ops PROVE CallPlaced(x)'
    BY <1>1, OpsAreNumbers
    DEF TypeInv, TypeOK, CallPlaced, ServeLog, store, replicas, callers, exchange,
        settlement
  <2> QED BY <2>1, <2>2 DEF TypeInv
<1>2. CASE ApplyAppend(o)
  <2>0. log' \in Seq(Batch) /\ Len(log) \in Nat /\ Len(log') = Len(log) + 1
    BY <1>2, LogGrows
  <2>a. /\ wire' = [wire EXCEPT ![o] = "appended"]
        /\ answer' = [answer EXCEPT ![o] = Len(log) + 1]
        /\ UNCHANGED <<replicas, callers, pc, attempt, base, carriesInit, settlement>>
    BY <1>2 DEF ApplyAppend
  <2>b. /\ wire' \in [Ops -> {"none", "asked", "served", "sent", "appended", "refused"}]
        /\ answer' \in [Ops -> Nat]
    BY <2>0, <2>a DEF TypeInv, TypeOK
  <2>1. TypeOK'
    BY <2>0, <2>a, <2>b DEF TypeInv, TypeOK, replicas, callers, settlement
  <2>2. ASSUME NEW x \in Ops PROVE CallPlaced(x)'
    <3>1. CASE x = o
      BY <1>2, <2>0, <3>1
      DEF TypeInv, TypeOK, CallPlaced, ApplyAppend, replicas, callers, settlement
    <3>2. CASE x # o
      <4>1. /\ wire'[x] = wire[x] /\ answer'[x] = answer[x] /\ answer[x] \in Nat
            /\ CallPlaced(x)
        BY <1>2, <3>2 DEF TypeInv, TypeOK, ApplyAppend
      <4>2. answer[x] <= Len(log) => answer'[x] <= Len(log')
        BY <2>0, <4>1
      <4> QED BY <1>2, <4>1, <4>2 DEF CallPlaced, ApplyAppend, callers, settlement
    <3> QED BY <3>1, <3>2
  <2> QED BY <2>1, <2>2 DEF TypeInv
<1>3. CASE RefuseAppend(o)
  <2>0. Len(log) \in Nat
    BY LenProperties DEF TypeInv, TypeOK
  <2>a. PICK v \in Nat : answer' = [answer EXCEPT ![o] = v]
    BY <1>3, <2>0 DEF RefuseAppend
  <2>b. /\ wire' \in [Ops -> {"none", "asked", "served", "sent", "appended", "refused"}]
        /\ answer' \in [Ops -> Nat]
    BY <1>3, <2>a DEF RefuseAppend, TypeInv, TypeOK
  <2>1. TypeOK'
    BY <1>3, <2>b DEF RefuseAppend, TypeInv, TypeOK, store, replicas, callers, settlement
  <2>2. ASSUME NEW x \in Ops PROVE CallPlaced(x)'
    BY <1>3, OpsAreNumbers
    DEF TypeInv, TypeOK, CallPlaced, RefuseAppend, store, replicas, callers, exchange,
        settlement
  <2> QED BY <2>1, <2>2 DEF TypeInv
<1> QED BY <1>1, <1>2, <1>3

(* Steps that ask the store for its log. *)
LEMMA TypeAsk ==
  ASSUME TypeInv, NEW o \in Ops,
         StartSync(o) \/ Retry(o)
  PROVE  TypeInv'
<1>1. CASE StartSync(o)
  <2>1. TypeOK'
    BY <1>1, RetriesAssumption
    DEF TypeInv, TypeOK, CallPlaced, Answers, Failures, StartSync, Ready, AskForLog, store,
        replicas, callers, exchange, settlement
  <2>2. ASSUME NEW x \in Ops PROVE CallPlaced(x)'
    BY <1>1, OpsAreNumbers
    DEF TypeInv, TypeOK, CallPlaced, StartSync, Ready, AskForLog, store, replicas, callers,
        exchange, settlement
  <2> QED BY <2>1, <2>2 DEF TypeInv
<1>2. CASE Retry(o)
  <2>0. attempt' \in [Ops -> 0..(MaxRetries - 1)]
    BY <1>2, RetriesAssumption DEF TypeInv, TypeOK, Retry
  <2>1. TypeOK'
    BY <1>2, <2>0
    DEF TypeInv, TypeOK, CallPlaced, Retry, WasRefused, AskForLog, store, replicas, callers, settlement
  <2>2. ASSUME NEW x \in Ops PROVE CallPlaced(x)'
    BY <1>2, OpsAreNumbers
    DEF TypeInv, TypeOK, CallPlaced, Retry, WasRefused, AskForLog, store, replicas, callers,
        exchange, settlement
  <2> QED BY <2>1, <2>2 DEF TypeInv
<1> QED BY <1>1, <1>2

(* Steps that replay what the store served. *)
LEMMA TypeReplay ==
  ASSUME TypeInv, NEW o \in Ops,
         FailReplay(o) \/ AnswerSynced(o) \/ AnswerUnappended(o) \/ SendAppend(o)
  PROVE  TypeInv'
<1>1. CASE FailReplay(o)
  <2>1. HasLog(o)
    BY <1>1 DEF FailReplay
  <2>2. PICK i \in DOMAIN Unseen(o) :
           /\ applied' = [applied EXCEPT ![owner[o]] = @ \o SubSeq(Unseen(o), 1, i)]
           /\ initSeen' = [initSeen EXCEPT ![owner[o]] = @ \/ SeesInit(SubSeq(Unseen(o), 1, i))]
    BY <1>1 DEF FailReplay, Throwing
  <2>3. SubSeq(Unseen(o), 1, i) \in Seq(Batch)
    BY <2>1, <2>2, UnseenTyped, LenProperties, SliceTyped, Z3
  <2>4. applied' \in [Coordinators -> Seq(Batch)]
    BY <2>1, <2>2, <2>3, UnseenTyped, ConcatProperties DEF TypeInv, TypeOK
  <2>5. SeesInit(SubSeq(Unseen(o), 1, i)) \in BOOLEAN
    BY DEF SeesInit
  <2>6. initSeen' \in [Coordinators -> BOOLEAN]
    BY <2>1, <2>2, <2>5, UnseenTyped DEF TypeInv, TypeOK
  <2>7. TypeOK'
    BY <1>1, <2>4, <2>6
    DEF TypeInv, TypeOK, Failures, FailReplay, Fail, Settle, store, callers, exchange
  <2>8. ASSUME NEW x \in Ops PROVE CallPlaced(x)'
    BY <1>1, OpsAreNumbers
    DEF TypeInv, TypeOK, CallPlaced, FailReplay, HasLog, Fail, Settle, store, callers, exchange
  <2> QED BY <2>7, <2>8 DEF TypeInv
<1>2. CASE AnswerSynced(o)
  <2>1. CatchUp(o) /\ HasLog(o)
    BY <1>2 DEF AnswerSynced, Replays
  <2>2. TypeOK'
    BY <1>2, <2>1, CatchUpTyped
    DEF TypeInv, TypeOK, Answers, AnswerSynced, Settle, store, callers, exchange
  <2>3. ASSUME NEW x \in Ops PROVE CallPlaced(x)'
    BY <1>2, <2>1, CatchUpTyped, OpsAreNumbers
    DEF TypeInv, TypeOK, CallPlaced, AnswerSynced, HasLog, Settle, store, callers, exchange
  <2> QED BY <2>2, <2>3 DEF TypeInv
<1>3. CASE AnswerUnappended(o)
  <2>1. CatchUp(o) /\ HasLog(o)
    BY <1>3 DEF AnswerUnappended, Replays
  <2>2. TypeOK'
    BY <1>3, <2>1, CatchUpTyped
    DEF TypeInv, TypeOK, Answers, AnswerUnappended, Settle, store, callers, exchange
  <2>3. ASSUME NEW x \in Ops PROVE CallPlaced(x)'
    BY <1>3, <2>1, CatchUpTyped, OpsAreNumbers
    DEF TypeInv, TypeOK, CallPlaced, AnswerUnappended, HasLog, Settle, store, callers, exchange
  <2> QED BY <2>2, <2>3 DEF TypeInv
<1>4. CASE SendAppend(o)
  <2>1. CatchUp(o) /\ HasLog(o)
    BY <1>4 DEF SendAppend, Replays
  <2>0. carriesInit' \in [Ops -> BOOLEAN]
    BY <1>4 DEF SendAppend, TypeInv, TypeOK
  <2>2. TypeOK'
    BY <1>4, <2>0, <2>1, CatchUpTyped
    DEF TypeInv, TypeOK, SendAppend, store, callers, settlement
  <2>3. request[o] \in Writes
    BY <1>4, <2>1 DEF SendAppend, HasLog, TypeInv, TypeOK, CallPlaced, Writes
  <2>4. ASSUME NEW x \in Ops PROVE CallPlaced(x)'
    BY <1>4, <2>1, <2>3, CatchUpTyped, OpsAreNumbers
    DEF TypeInv, TypeOK, CallPlaced, SendAppend, HasLog, store, callers, settlement
  <2> QED BY <2>2, <2>4 DEF TypeInv
<1> QED BY <1>1, <1>2, <1>3, <1>4

(* Steps that apply an appended mutation to the replica. *)
LEMMA TypeApply ==
  ASSUME TypeInv, NEW o \in Ops, FinishAppend(o) \/ FailApply(o)
  PROVE  TypeInv'
<1>1. HasAppended(o) /\ ApplyLocally(o)
  BY DEF FinishAppend, FailApply, ApplyLocally
<1>2. applied' \in [Coordinators -> Seq(Batch)] /\ initSeen' \in [Coordinators -> BOOLEAN]
  BY <1>1, AppliedAnswer DEF ApplyLocally, TypeInv, TypeOK
<1>3. CASE FinishAppend(o)
  <2>1. TypeOK'
    BY <1>2, <1>3
    DEF TypeInv, TypeOK, Answers, FinishAppend, Settle, store, callers, exchange
  <2>2. ASSUME NEW x \in Ops PROVE CallPlaced(x)'
    BY <1>1, <1>3, OpsAreNumbers
    DEF TypeInv, TypeOK, CallPlaced, FinishAppend, HasAppended, Settle, store, callers, exchange
  <2> QED BY <2>1, <2>2 DEF TypeInv
<1>4. CASE FailApply(o)
  <2>1. TypeOK'
    BY <1>2, <1>4
    DEF TypeInv, TypeOK, Failures, FailApply, Fail, Settle, store, callers, exchange
  <2>2. ASSUME NEW x \in Ops PROVE CallPlaced(x)'
    BY <1>1, <1>4, OpsAreNumbers
    DEF TypeInv, TypeOK, CallPlaced, FailApply, HasAppended, Fail, Settle, store, callers, exchange
  <2> QED BY <2>1, <2>2 DEF TypeInv
<1> QED BY <1>3, <1>4

LEMMA TypeStep == TypeInv /\ [Next]_vars => TypeInv'
<1> SUFFICES ASSUME TypeInv, [Next]_vars PROVE TypeInv'
  OBVIOUS
<1>1. CASE UNCHANGED vars
  BY <1>1 DEF vars, store, replicas, callers, exchange, settlement, TypeInv, TypeOK, CallPlaced
<1>2. ASSUME NEW c \in Coordinators, NEW r \in Requests, Invoke(c, r) \/ PutNothing(c, r)
      PROVE  TypeInv'
  BY <1>2, TypeInvoke
<1>3. ASSUME NEW o \in Ops, Step(o) \/ Serve(o) \/ Disturb(o) PROVE TypeInv'
  BY <1>3, TypeSettle, TypeStore, TypeAsk, TypeReplay, TypeApply DEF Step, Serve, Disturb
<1> QED BY <1>1, <1>2, <1>3 DEF Next

(* The state of the instances, of the store and of every call keeps its      *)
(* shape, whatever the number of instances, calls and retries.               *)
THEOREM TypeCorrect == Spec => []TypeOK
<1>1. Spec => []TypeInv
  BY TypeInit, TypeStep, PTL DEF Spec
<1>2. TypeInv => TypeOK
  BY DEF TypeInv
<1> QED BY <1>1, <1>2, PTL
-----------------------------------------------------------------------------
(* What a step of one call leaves alone. *)

Steps(o) == Step(o) \/ Serve(o) \/ Disturb(o)

Progresses(o) ==
    \/ pc'[o] = pc[o] /\ pc[o] \in {"running", "done"}
    \/ Ready(o) /\ pc'[o] \in {"running", "done"}
    \/ pc[o] = "running" /\ pc'[o] = "done"

Frame(o) ==
    /\ UNCHANGED <<operationQueue, invoked, owner, request, after, since>>
    /\ \A x \in Ops \ {o} :
          /\ pc'[x] = pc[x] /\ outcome'[x] = outcome[x]
          /\ result'[x] = result[x] /\ at'[x] = at[x]
          /\ wire'[x] = wire[x] /\ base'[x] = base[x] /\ answer'[x] = answer[x]
          /\ carriesInit'[x] = carriesInit[x]
    /\ Progresses(o)
    /\ pc[o] = "done" => /\ outcome'[o] = outcome[o] /\ result'[o] = result[o]
                         /\ at'[o] = at[o]
    /\ outcome'[o] = "empty" => outcome[o] = "empty"

LEMMA StepFrame ==
  ASSUME TypeInv, NEW o \in Ops, Steps(o)
  PROVE  Frame(o)
<1> USE DEF TypeInv, TypeOK, CallPlaced, Frame, Progresses, store, replicas, callers,
            exchange, settlement, Settle, Fail
<1>1. CASE RefuseCorrupted(o)
  BY <1>1 DEF RefuseCorrupted, Ready
<1>2. CASE AnswerLocally(o)
  BY <1>2 DEF AnswerLocally, Ready
<1>3. CASE StartSync(o)
  BY <1>3 DEF StartSync, Ready, AskForLog
<1>4. CASE RefuseOversized(o)
  BY <1>4 DEF RefuseOversized, HasLog
<1>5. CASE RefuseMismatched(o)
  BY <1>5 DEF RefuseMismatched, HasLog
<1>6. CASE FailReplay(o)
  BY <1>6 DEF FailReplay, HasLog
<1>7. CASE AnswerSynced(o)
  BY <1>7 DEF AnswerSynced, CatchUp, Replays, HasLog
<1>8. CASE AnswerUnappended(o)
  BY <1>8 DEF AnswerUnappended, CatchUp, Replays, HasLog
<1>9. CASE SendAppend(o)
  BY <1>9 DEF SendAppend, CatchUp, Replays, HasLog
<1>10. CASE FinishAppend(o)
  BY <1>10 DEF FinishAppend, ApplyLocally, HasAppended
<1>11. CASE FailApply(o)
  BY <1>11 DEF FailApply, ApplyLocally, HasAppended
<1>12. CASE Retry(o)
  BY <1>12 DEF Retry, WasRefused, AskForLog
<1>13. CASE GiveUp(o)
  BY <1>13 DEF GiveUp, WasRefused
<1>14. CASE ServeLog(o)
  BY <1>14 DEF ServeLog
<1>15. CASE ApplyAppend(o)
  BY <1>15 DEF ApplyAppend
<1>16. CASE RefuseAppend(o)
  BY <1>16 DEF RefuseAppend
<1>17. CASE SyncRejects(o)
  BY <1>17 DEF SyncRejects
<1>18. CASE AppendRejects(o)
  BY <1>18 DEF AppendRejects
<1> QED
  BY <1>1, <1>2, <1>3, <1>4, <1>5, <1>6, <1>7, <1>8, <1>9,
     <1>10, <1>11, <1>12, <1>13, <1>14, <1>15, <1>16, <1>17, <1>18
  DEF Steps, Step, Serve, Disturb

-----------------------------------------------------------------------------
(* The operation queue. *)

(* Calls that went through the queue: all but putMany of no entries. *)
Queued(o) == pc[o] # "idle" /\ outcome[o] # "empty"

LastIsQueued(c) ==
    operationQueue[c] # 0 =>
        /\ operationQueue[c] \in Ops
        /\ Queued(operationQueue[c]) /\ owner[operationQueue[c]] = c

ChainedInOrder(o) ==
    Queued(o) => /\ o <= operationQueue[owner[o]]
                 /\ after[o] # 0 => /\ after[o] \in Ops /\ after[o] < o
                                    /\ Queued(after[o]) /\ owner[after[o]] = owner[o]

RunsAfter(p, o) ==
    Queued(p) /\ Queued(o) /\ owner[p] = owner[o] /\ p < o =>
        /\ p <= after[o]
        /\ pc[o] \in {"running", "done"} => pc[p] = "done"

QueueInv ==
    /\ \A c \in Coordinators : LastIsQueued(c)
    /\ \A o \in Ops : ChainedInOrder(o)
    /\ \A p, o \in Ops : RunsAfter(p, o)

LEMMA QueueInit == Init => QueueInv
  BY OpsAreNumbers DEF Init, QueueInv, LastIsQueued, ChainedInOrder, RunsAfter, Queued

LEMMA QueueInvoke ==
  ASSUME TypeInv, QueueInv, NEW c \in Coordinators, NEW r \in Requests, Invoke(c, r)
  PROVE  QueueInv'
<1>1. PICK n \in Ops : n = invoked + 1 /\ invoked \in Nat
  BY OpsAssumption DEF TypeInv, TypeOK, Invoke, Ops
<1>2. /\ owner' = [owner EXCEPT ![n] = c]
      /\ after' = [after EXCEPT ![n] = operationQueue[c]]
      /\ operationQueue' = [operationQueue EXCEPT ![c] = n]
      /\ pc' = [pc EXCEPT ![n] = "queued"]
      /\ UNCHANGED outcome
  BY <1>1 DEF Invoke, settlement
<1>3. /\ pc[n] = "idle" /\ outcome[n] = "pending"
      /\ \A x \in Ops : pc[x] # "idle" => x < n /\ owner[x] \in Coordinators
      /\ operationQueue \in [Coordinators -> 0..MaxOps] /\ after \in [Ops -> 0..MaxOps]
      /\ owner \in [Ops -> Coordinators \union {Null}]
      /\ pc \in [Ops -> {"idle", "queued", "running", "done"}]
  <2>1. /\ operationQueue \in [Coordinators -> 0..MaxOps] /\ after \in [Ops -> 0..MaxOps]
        /\ owner \in [Ops -> Coordinators \union {Null}]
        /\ pc \in [Ops -> {"idle", "queued", "running", "done"}]
    BY DEF TypeInv, TypeOK
  <2>2. \A x \in Ops : /\ pc[x] # "idle" <=> x <= invoked
                       /\ pc[x] # "idle" => owner[x] \in Coordinators
                       /\ outcome[x] = "pending" <=> pc[x] # "done"
    BY DEF TypeInv, CallPlaced
  <2>3. \A x \in Ops : x \in Nat
    BY OpsAreNumbers
  <2>4. \A x \in Ops : pc[x] # "idle" => x < n
    BY <1>1, <2>2, <2>3
  <2>5. pc[n] = "idle"
    BY <1>1, <2>2, <2>3
  <2> QED BY <2>1, <2>2, <2>4, <2>5
<1>a. pc'[n] = "queued" /\ \A x \in Ops \ {n} : pc'[x] = pc[x]
  BY <1>2, <1>3
<1>4. /\ \A x \in Ops : outcome'[x] = outcome[x]
      /\ owner'[n] = c /\ after'[n] = operationQueue[c]
      /\ \A x \in Ops \ {n} : owner'[x] = owner[x] /\ after'[x] = after[x]
      /\ operationQueue'[c] = n
      /\ \A d \in Coordinators \ {c} : operationQueue'[d] = operationQueue[d]
  BY <1>2, <1>3
<1>5. ASSUME NEW d \in Coordinators PROVE LastIsQueued(d)'
  BY <1>a, <1>3, <1>4 DEF QueueInv, LastIsQueued, Queued
<1>6. ASSUME NEW o \in Ops PROVE ChainedInOrder(o)'
  <2>1. CASE o = n
    BY <2>1, <1>a, <1>3, <1>4, OpsAreNumbers DEF QueueInv, LastIsQueued, ChainedInOrder, Queued
  <2>2. CASE o # n
    BY <2>2, <1>a, <1>3, <1>4, OpsAreNumbers DEF QueueInv, ChainedInOrder, Queued
  <2> QED BY <2>1, <2>2
<1>7. ASSUME NEW p \in Ops, NEW o \in Ops PROVE RunsAfter(p, o)'
  <2>1. CASE o = n
    BY <2>1, <1>a, <1>3, <1>4, OpsAreNumbers DEF QueueInv, ChainedInOrder, RunsAfter, Queued
  <2>2. CASE o # n
    BY <2>2, <1>a, <1>3, <1>4, OpsAreNumbers DEF QueueInv, RunsAfter, Queued
  <2> QED BY <2>1, <2>2
<1> QED BY <1>5, <1>6, <1>7 DEF QueueInv

LEMMA QueueNothing ==
  ASSUME TypeInv, QueueInv, NEW c \in Coordinators, NEW r \in Requests, PutNothing(c, r)
  PROVE  QueueInv'
<1>0. invoked \in 0..MaxOps /\ invoked < MaxOps
  BY DEF TypeInv, TypeOK, PutNothing
<1>1. PICK n \in Ops : n = invoked + 1 /\ invoked \in Nat
  BY <1>0, OpsAssumption DEF Ops
<1>2. /\ owner' = [owner EXCEPT ![n] = c]
      /\ UNCHANGED <<after, operationQueue>>
      /\ pc' = [pc EXCEPT ![n] = "done"]
      /\ outcome' = [outcome EXCEPT ![n] = "empty"]
  BY <1>1 DEF PutNothing, Settle
<1>3. /\ pc[n] = "idle" /\ outcome[n] = "pending"
      /\ outcome \in [Ops -> Answers \union Failures \union {"pending", "empty"}]
      /\ pc \in [Ops -> {"idle", "queued", "running", "done"}]
      /\ owner \in [Ops -> Coordinators \union {Null}]
  BY <1>1, OpsAreNumbers DEF TypeInv, TypeOK, CallPlaced
<1>4. outcome'[n] = "empty" /\ \A x \in Ops \ {n} : outcome'[x] = outcome[x]
  BY <1>2, <1>3
<1>5. \A x \in Ops \ {n} : owner'[x] = owner[x] /\ pc'[x] = pc[x]
  BY <1>2, <1>3
<1>6. ASSUME NEW d \in Coordinators PROVE LastIsQueued(d)'
  BY <1>2, <1>3, <1>4, <1>5 DEF QueueInv, LastIsQueued, Queued
<1>7. ASSUME NEW o \in Ops PROVE ChainedInOrder(o)'
  BY <1>2, <1>3, <1>4, <1>5 DEF QueueInv, ChainedInOrder, Queued
<1>8. ASSUME NEW p \in Ops, NEW o \in Ops PROVE RunsAfter(p, o)'
  BY <1>2, <1>3, <1>4, <1>5 DEF QueueInv, RunsAfter, Queued
<1> QED BY <1>6, <1>7, <1>8 DEF QueueInv

LEMMA QueueFrame ==
  ASSUME TypeInv, QueueInv, NEW o \in Ops, Frame(o), TypeInv'
  PROVE  QueueInv'
<1>1. \A x \in Ops : (pc'[x] # "idle" /\ outcome'[x] # "empty") <=> Queued(x)
  BY DEF Frame, Queued, Progresses, Ready, TypeInv, CallPlaced
<1>2. \A x \in Ops : pc[x] = "done" => pc'[x] = "done"
  BY DEF Frame, Progresses, Ready
<1>3. UNCHANGED <<operationQueue, owner, after>>
  BY DEF Frame
<1>4. ASSUME NEW c \in Coordinators PROVE LastIsQueued(c)'
  BY <1>1, <1>3 DEF QueueInv, LastIsQueued, Queued
<1>5. ASSUME NEW x \in Ops PROVE ChainedInOrder(x)'
  BY <1>1, <1>3 DEF QueueInv, ChainedInOrder, Queued
<1>6. ASSUME NEW p \in Ops, NEW x \in Ops PROVE RunsAfter(p, x)'
  <2> SUFFICES ASSUME Queued(p), Queued(x), owner[p] = owner[x], p < x
               PROVE  p <= after[x] /\ (pc'[x] \in {"running", "done"} => pc'[p] = "done")
    BY <1>1, <1>3 DEF RunsAfter, Queued
  <2>1. RunsAfter(p, x) /\ ChainedInOrder(x)
    BY DEF QueueInv
  <2>2. p <= after[x]
    BY <2>1 DEF RunsAfter
  <2>3. CASE pc[x] \in {"running", "done"}
    BY <2>1, <2>2, <2>3, <1>2 DEF RunsAfter
  <2>4. CASE pc[x] \notin {"running", "done"} /\ pc'[x] \in {"running", "done"}
    <3>1. x = o /\ Ready(x)
      BY <2>4 DEF Frame, Progresses
    <3>2. after[x] # 0 /\ after[x] \in Ops /\ Queued(after[x]) /\ owner[after[x]] = owner[p]
      BY <2>1, <2>2, OpsAreNumbers DEF ChainedInOrder
    <3>3. pc[after[x]] = "done"
      BY <3>1, <3>2 DEF Ready
    <3>4. CASE p = after[x]
      BY <3>3, <3>4, <1>2, <2>2
    <3>5. CASE p # after[x]
      <4>1. p < after[x]
        BY <3>5, <3>2, <2>2, OpsAreNumbers
      <4>2. RunsAfter(p, after[x])
        BY <3>2 DEF QueueInv
      <4> QED BY <4>1, <4>2, <3>2, <3>3, <1>2, <2>2 DEF RunsAfter
    <3> QED BY <3>4, <3>5
  <2> QED BY <2>2, <2>3, <2>4
<1> QED BY <1>4, <1>5, <1>6 DEF QueueInv

LEMMA QueueStep == TypeInv /\ QueueInv /\ [Next]_vars => QueueInv'
<1> SUFFICES ASSUME TypeInv, QueueInv, [Next]_vars PROVE QueueInv'
  OBVIOUS
<1>0. TypeInv'
  BY TypeStep
<1>1. CASE UNCHANGED vars
  BY <1>1 DEF vars, callers, settlement, QueueInv, LastIsQueued, ChainedInOrder, RunsAfter, Queued
<1>2. ASSUME NEW c \in Coordinators, NEW r \in Requests, Invoke(c, r) \/ PutNothing(c, r)
      PROVE  QueueInv'
  BY <1>2, QueueInvoke, QueueNothing
<1>3. ASSUME NEW o \in Ops, Steps(o) PROVE QueueInv'
  BY <1>0, <1>3, StepFrame, QueueFrame
<1> QED BY <1>1, <1>2, <1>3 DEF Next, Steps

(* Only one call of an instance runs at a time. *)
LEMMA RunsAlone ==
  ASSUME TypeInv, QueueInv, NEW o \in Ops, NEW p \in Ops,
         pc[o] = "running", pc[p] = "running", owner[o] = owner[p]
  PROVE  o = p
<1>1. Queued(o) /\ Queued(p)
  BY DEF Queued, TypeInv, CallPlaced
<1>2. RunsAfter(o, p) /\ RunsAfter(p, o)
  BY DEF QueueInv
<1> QED BY <1>1, <1>2, OpsAreNumbers DEF RunsAfter

-----------------------------------------------------------------------------
(* The log. *)

Logged(i) ==
    /\ wire[log[i].op] = "appended" /\ answer[log[i].op] = i
    /\ log[i].mutation = request[log[i].op]

LogInv ==
    /\ \A i \in 1..Len(log) : Logged(i)
    /\ \A o \in Ops : wire[o] = "appended" => log[answer[o]].op = o

(* Only ApplyAppend changes the log or what the store knows of an append. *)
LEMMA OnlyAppendsLog ==
  ASSUME TypeInv, NEW o \in Ops, Steps(o), ~ApplyAppend(o)
  PROVE  /\ log' = log
         /\ wire'[o] = "appended" <=> wire[o] = "appended"
         /\ wire[o] = "appended" => answer'[o] = answer[o]
<1> USE DEF TypeInv, TypeOK, CallPlaced, store, replicas, callers, exchange, settlement
<1>1. CASE RefuseCorrupted(o) \/ AnswerLocally(o)
  BY <1>1 DEF RefuseCorrupted, AnswerLocally
<1>2. CASE StartSync(o)
  BY <1>2 DEF StartSync, Ready, AskForLog
<1>3. CASE RefuseOversized(o) \/ RefuseMismatched(o) \/ FailReplay(o)
  BY <1>3 DEF RefuseOversized, RefuseMismatched, FailReplay
<1>4. CASE AnswerSynced(o) \/ AnswerUnappended(o)
  BY <1>4 DEF AnswerSynced, AnswerUnappended, CatchUp
<1>5. CASE SendAppend(o)
  BY <1>5 DEF SendAppend, CatchUp, Replays, HasLog
<1>6. CASE FinishAppend(o) \/ FailApply(o)
  BY <1>6 DEF FinishAppend, FailApply
<1>7. CASE Retry(o)
  BY <1>7 DEF Retry, WasRefused, AskForLog
<1>8. CASE GiveUp(o) \/ SyncRejects(o) \/ AppendRejects(o)
  BY <1>8 DEF GiveUp, SyncRejects, AppendRejects
<1>9. CASE ServeLog(o)
  BY <1>9 DEF ServeLog
<1>10. CASE RefuseAppend(o)
  BY <1>10 DEF RefuseAppend
<1> QED
  BY <1>1, <1>2, <1>3, <1>4, <1>5, <1>6, <1>7, <1>8, <1>9, <1>10
  DEF Steps, Step, Serve, Disturb

LEMMA LoggedTyped ==
  ASSUME TypeInv
  PROVE  /\ Len(log) \in Nat /\ DOMAIN log = 1..Len(log)
         /\ \A i \in 1..Len(log) : log[i] \in Batch /\ log[i].op \in Ops
<1>1. log \in Seq(Batch)
  BY DEF TypeInv, TypeOK
<1>2. \A i \in 1..Len(log) : log[i] \in Batch
  BY <1>1, ElementOfSeq
<1> QED BY <1>1, <1>2, LenProperties DEF Batch

LEMMA LogInit == Init => LogInv
  BY OpsAreNumbers DEF Init, LogInv, Logged

(* Calls, and the steps that leave the log alone. *)
LEMMA LogKept ==
  ASSUME TypeInv, LogInv, log' = log,
         \A x \in Ops : /\ wire'[x] = "appended" <=> wire[x] = "appended"
                        /\ wire[x] = "appended" => /\ answer'[x] = answer[x]
                                                   /\ request'[x] = request[x]
  PROVE  LogInv'
<1>1. ASSUME NEW i \in 1..Len(log) PROVE Logged(i)'
  BY LoggedTyped DEF LogInv, Logged
<1>2. ASSUME NEW x \in Ops, wire'[x] = "appended" PROVE log'[answer'[x]].op = x
  BY <1>2 DEF LogInv
<1> QED BY <1>1, <1>2 DEF LogInv

LEMMA LogAppended ==
  ASSUME TypeInv, LogInv, NEW o \in Ops, ApplyAppend(o)
  PROVE  LogInv'
<1>1. PICK b \in Batch :
        /\ b.op = o /\ b.mutation = request[o] /\ log' = Append(log, b)
        /\ Len(log) \in Nat /\ Len(log') = Len(log) + 1
        /\ \A i \in 1..Len(log) : log'[i] = log[i]
        /\ log'[Len(log) + 1] = b
  BY LogGrows
<1>2. /\ wire[o] = "sent" /\ wire'[o] = "appended" /\ answer'[o] = Len(log) + 1
      /\ \A x \in Ops \ {o} : wire'[x] = wire[x] /\ answer'[x] = answer[x]
      /\ request' = request
  BY DEF ApplyAppend, TypeInv, TypeOK, callers
<1>3. ASSUME NEW i \in 1..Len(log') PROVE Logged(i)'
  <2>1. CASE i = Len(log) + 1
    BY <1>1, <1>2, <2>1 DEF Logged
  <2>2. CASE i # Len(log) + 1
    <3>1. i \in 1..Len(log) /\ log'[i] = log[i]
      BY <1>1, <2>2
    <3>2. Logged(i) /\ log[i].op \in Ops
      BY <3>1, LoggedTyped DEF LogInv
    <3>3. log[i].op # o
      BY <3>2, <1>2 DEF Logged
    <3> QED BY <3>1, <3>2, <3>3, <1>2 DEF Logged
  <2> QED BY <2>1, <2>2
<1>4. ASSUME NEW x \in Ops, wire'[x] = "appended" PROVE log'[answer'[x]].op = x
  <2>1. CASE x = o
    BY <2>1, <1>1, <1>2
  <2>2. CASE x # o
    <3>1. wire[x] = "appended" /\ answer'[x] = answer[x] /\ answer[x] \in 1..Len(log)
      BY <1>1, <1>2, <1>4, <2>2 DEF TypeInv, TypeOK, CallPlaced
    <3> QED BY <1>1, <3>1 DEF LogInv
  <2> QED BY <2>1, <2>2
<1> QED BY <1>3, <1>4 DEF LogInv

LEMMA LogStep == TypeInv /\ LogInv /\ [Next]_vars => LogInv'
<1> SUFFICES ASSUME TypeInv, LogInv, [Next]_vars PROVE LogInv'
  OBVIOUS
<1>1. CASE UNCHANGED vars
  BY <1>1 DEF vars, store, exchange, callers, LogInv, Logged
<1>2. ASSUME NEW c \in Coordinators, NEW r \in Requests, Invoke(c, r) \/ PutNothing(c, r)
      PROVE  LogInv'
  <2>1. PICK n \in Ops : n = invoked + 1 /\ invoked \in Nat
    BY <1>2, OpsAssumption DEF TypeInv, TypeOK, Invoke, PutNothing, Ops
  <2>2. wire[n] = "none"
    BY <2>1, OpsAreNumbers DEF TypeInv, CallPlaced
  <2>3. /\ log' = log /\ wire' = wire /\ answer' = answer
        /\ request' = [request EXCEPT ![n] = r]
    BY <1>2, <2>1 DEF Invoke, PutNothing, store, exchange
  <2> QED BY <2>2, <2>3, LogKept DEF TypeInv, TypeOK
<1>3. ASSUME NEW o \in Ops, Steps(o) PROVE LogInv'
  <2>1. CASE ApplyAppend(o)
    BY <2>1, LogAppended
  <2>2. CASE ~ApplyAppend(o)
    BY <1>3, <2>2, StepFrame, OnlyAppendsLog, LogKept DEF Frame
  <2> QED BY <2>1, <2>2
<1> QED BY <1>1, <1>2, <1>3 DEF Next, Steps

(* A call puts at most one batch in the log, however often it retries and    *)
(* however late its append is served: for every number of calls, instances   *)
(* and retries, with a store that fails, lags and refuses at will.           *)
THEOREM CallsAppendOnce == Spec => []AtMostOnce
<1>1. Spec => [](TypeInv /\ LogInv)
  BY TypeInit, LogInit, TypeStep, LogStep, PTL DEF Spec
<1>2. TypeInv /\ LogInv => AtMostOnce
  BY LoggedTyped DEF LogInv, Logged, AtMostOnce
<1> QED BY <1>1, <1>2, PTL

-----------------------------------------------------------------------------
(* The replicas. *)

(* The elements of s are those at the front of l. *)
Agrees(s, l) == Len(s) <= Len(l) /\ \A i \in 1..Len(s) : s[i] = l[i]

ReplicaOk(c) ==
    /\ Agrees(applied[c], log)
    /\ currentVersion[c] <= Len(applied[c])
    /\ ~corrupted[c] => Len(applied[c]) = currentVersion[c]

(* A running call works from the version its instance is still at. *)
RunOk(o) ==
    pc[o] = "running" => ~corrupted[owner[o]] /\ base[o] = currentVersion[owner[o]]

ReplicaInv ==
    /\ \A c \in Coordinators : ReplicaOk(c)
    /\ \A o \in Ops : RunOk(o)

LEMMA AgreesConcat ==
  ASSUME NEW S, NEW s \in Seq(S), NEW t \in Seq(S), NEW l \in Seq(S),
         Agrees(s, l), Len(s) + Len(t) <= Len(l),
         \A i \in 1..Len(t) : t[i] = l[Len(s) + i]
  PROVE  /\ s \o t \in Seq(S) /\ Len(s \o t) = Len(s) + Len(t)
         /\ Agrees(s \o t, l)
<1>1. /\ Len(s) \in Nat /\ Len(t) \in Nat /\ Len(l) \in Nat
      /\ s \o t \in Seq(S) /\ Len(s \o t) = Len(s) + Len(t)
      /\ \A i \in 1..(Len(s) + Len(t)) :
            (s \o t)[i] = IF i <= Len(s) THEN s[i] ELSE t[i - Len(s)]
  BY LenProperties, ConcatProperties
<1>2. ASSUME NEW i \in 1..(Len(s) + Len(t)) PROVE (s \o t)[i] = l[i]
  <2>1. CASE i <= Len(s)
    BY <1>1, <2>1 DEF Agrees
  <2>2. CASE i > Len(s)
    <3>1. i - Len(s) \in 1..Len(t) /\ Len(s) + (i - Len(s)) = i
      BY <1>1, <2>2
    <3> QED BY <1>1, <2>2, <3>1
  <2> QED BY <1>1, <2>1, <2>2
<1> QED BY <1>1, <1>2 DEF Agrees

LEMMA AgreesAppend ==
  ASSUME NEW S, NEW s \in Seq(S), NEW l \in Seq(S), Agrees(s, l), Len(s) + 1 <= Len(l)
  PROVE  /\ Len(Append(s, l[Len(s) + 1])) = Len(s) + 1
         /\ Agrees(Append(s, l[Len(s) + 1]), l)
<1>1. Len(s) \in Nat /\ Len(l) \in Nat
  BY LenProperties
<1>2. l[Len(s) + 1] \in S
  BY <1>1, ElementOfSeq
<1> QED BY <1>1, <1>2, AppendProperties DEF Agrees

(* What a step may do to the instance of its call. *)
Synced(o) ==        \* it was healthy and caught up with what the store served
    /\ HasLog(o) /\ CatchUp(o)
    /\ pc'[o] = "running" => base'[o] = SyncedVersion(o)

Stopped(o) ==       \* it was healthy and stopped inside what the store served
    /\ HasLog(o) /\ pc'[o] = "done" /\ log' = log /\ currentVersion' = currentVersion
    /\ corrupted' = [corrupted EXCEPT ![owner[o]] = TRUE]
    /\ \E i \in DOMAIN Unseen(o) :
          applied' = [applied EXCEPT ![owner[o]] = @ \o SubSeq(Unseen(o), 1, i)]

Applied(o) ==       \* it applied its own append, at the store's version or in vain
    /\ HasAppended(o) /\ pc'[o] = "done" /\ log' = log
    /\ applied' = [applied EXCEPT ![owner[o]] = Append(@, log[answer[o]])]
    /\ \/ currentVersion' = [currentVersion EXCEPT ![owner[o]] = answer[o]] /\ corrupted' = corrupted
       \/ currentVersion' = currentVersion /\ corrupted' = [corrupted EXCEPT ![owner[o]] = TRUE]

Rested(o) ==        \* nothing
    /\ UNCHANGED <<applied, currentVersion, corrupted>>
    /\ log' = log \/ ApplyAppend(o)
    /\ pc'[o] = "running" =>
         \/ pc[o] = "running" /\ base'[o] = base[o]
         \/ /\ pc[o] = "running" \/ ~corrupted[owner[o]]
            /\ base'[o] = currentVersion[owner[o]]

LEMMA StepOnReplica ==
  ASSUME TypeInv, NEW o \in Ops, Steps(o)
  PROVE  Synced(o) \/ Stopped(o) \/ Applied(o) \/ Rested(o)
<1> USE DEF TypeInv, TypeOK, store, replicas, callers, exchange, settlement, Settle, Fail
<1>1. CASE RefuseCorrupted(o) \/ AnswerLocally(o)
  BY <1>1 DEF RefuseCorrupted, AnswerLocally, Rested
<1>2. CASE StartSync(o)
  BY <1>2 DEF StartSync, AskForLog, Rested
<1>3. CASE RefuseOversized(o) \/ RefuseMismatched(o)
  BY <1>3 DEF RefuseOversized, RefuseMismatched, Rested
<1>4. CASE FailReplay(o)
  BY <1>4 DEF FailReplay, Throwing, Stopped
<1>5. CASE AnswerSynced(o) \/ AnswerUnappended(o)
  BY <1>5 DEF AnswerSynced, AnswerUnappended, Replays, Synced
<1>6. CASE SendAppend(o)
  BY <1>6 DEF SendAppend, Replays, Synced
<1>7. CASE FinishAppend(o)
  BY <1>7 DEF FinishAppend, ApplyLocally, Applied
<1>8. CASE FailApply(o)
  BY <1>8 DEF FailApply, ApplyLocally, Applied
<1>9. CASE Retry(o)
  BY <1>9 DEF Retry, WasRefused, AskForLog, Rested
<1>10. CASE GiveUp(o) \/ SyncRejects(o) \/ AppendRejects(o)
  BY <1>10 DEF GiveUp, SyncRejects, AppendRejects, Rested
<1>11. CASE ServeLog(o) \/ ApplyAppend(o) \/ RefuseAppend(o)
  BY <1>11 DEF ServeLog, ApplyAppend, RefuseAppend, Rested
<1> QED
  BY <1>1, <1>2, <1>3, <1>4, <1>5, <1>6, <1>7, <1>8, <1>9, <1>10, <1>11
  DEF Steps, Step, Serve, Disturb

LEMMA ReplicaInit == Init => ReplicaInv
  BY EmptySeq DEF Init, ReplicaInv, ReplicaOk, RunOk, Agrees

(* The log only grows at its end, so that what agreed with it still does. *)
LEMMA StillAgrees ==
  ASSUME TypeInv, NEW o \in Ops, log' = log \/ ApplyAppend(o),
         NEW s \in Seq(Batch), Agrees(s, log)
  PROVE  Agrees(s, log')
<1>1. Len(s) \in Nat
  BY LenProperties
<1>2. CASE log' = log
  BY <1>2
<1>3. CASE ApplyAppend(o)
  BY <1>1, <1>3, LogGrows DEF Agrees
<1> QED BY <1>2, <1>3

(* The slice that a running call replays continues its replica. *)
LEMMA UnseenContinues ==
  ASSUME TypeInv, ReplicaInv, NEW o \in Ops, HasLog(o)
  PROVE  /\ owner[o] \in Coordinators /\ ~corrupted[owner[o]]
         /\ base[o] = Len(applied[owner[o]]) /\ base[o] = currentVersion[owner[o]]
         /\ Len(applied[owner[o]]) \in Nat /\ Len(Unseen(o)) \in Nat
         /\ base[o] + Len(Unseen(o)) <= Len(log)
         /\ SyncedVersion(o) = base[o] + Len(Unseen(o))
         /\ \A i \in 1..Len(Unseen(o)) : Unseen(o)[i] = log[Len(applied[owner[o]]) + i]
<1>1. pc[o] = "running" /\ RunOk(o)
  BY DEF HasLog, ReplicaInv
<1>2. owner[o] \in Coordinators /\ ReplicaOk(owner[o])
  BY UnseenTyped DEF ReplicaInv
<1>3. Len(applied[owner[o]]) \in Nat /\ Len(log) \in Nat
  BY <1>2, LenProperties DEF TypeInv, TypeOK
<1>4. Agrees(applied[owner[o]], log)
  BY <1>2 DEF ReplicaOk
<1>5. /\ ~corrupted[owner[o]] /\ base[o] = currentVersion[owner[o]]
      /\ base[o] = Len(applied[owner[o]]) /\ base[o] <= Len(log)
  BY <1>1, <1>2, <1>4 DEF RunOk, ReplicaOk, Agrees
<1>6. /\ answer[o] \in Nat /\ answer[o] <= Len(log)
      /\ Len(Unseen(o)) = IF base[o] < answer[o] THEN answer[o] - base[o] ELSE 0
      /\ \A i \in 1..(answer[o] - base[o]) : Unseen(o)[i] = log[base[o] + i]
  BY <1>3, UnseenTyped
<1>7. /\ Len(Unseen(o)) \in Nat /\ base[o] + Len(Unseen(o)) <= Len(log)
      /\ SyncedVersion(o) = base[o] + Len(Unseen(o))
  BY <1>3, <1>5, <1>6 DEF SyncedVersion
<1>8. ASSUME NEW i \in 1..Len(Unseen(o)) PROVE Unseen(o)[i] = log[Len(applied[owner[o]]) + i]
  <2>1. i \in 1..(answer[o] - base[o])
    BY <1>3, <1>5, <1>6
  <2> QED BY <1>5, <1>6, <2>1
<1> QED BY <1>2, <1>3, <1>5, <1>7, <1>8

LEMMA ReplicaSynced ==
  ASSUME TypeInv, ReplicaInv, NEW o \in Ops, Synced(o), NEW c \in Coordinators
  PROVE  ReplicaOk(c)'
<1>1. /\ log' = log /\ corrupted' = corrupted
      /\ applied' = [applied EXCEPT ![owner[o]] = @ \o Unseen(o)]
      /\ currentVersion' = [currentVersion EXCEPT ![owner[o]] = SyncedVersion(o)]
      /\ HasLog(o)
  BY DEF Synced, CatchUp, store
<1>2. CASE c # owner[o]
  BY <1>1, <1>2 DEF ReplicaInv, ReplicaOk, TypeInv, TypeOK
<1>3. CASE c = owner[o]
  <2>1. /\ applied[c] \in Seq(Batch) /\ Unseen(o) \in Seq(Batch) /\ log \in Seq(Batch)
        /\ Agrees(applied[c], log)
    BY <1>1, UnseenTyped DEF TypeInv, TypeOK, ReplicaInv, ReplicaOk
  <2>a. /\ Len(applied[c]) + Len(Unseen(o)) <= Len(log)
        /\ \A i \in 1..Len(Unseen(o)) : Unseen(o)[i] = log[Len(applied[c]) + i]
    BY <1>1, <1>3, UnseenContinues
  <2>2. /\ Len(applied[c] \o Unseen(o)) = Len(applied[c]) + Len(Unseen(o))
        /\ Agrees(applied[c] \o Unseen(o), log)
    BY <2>1, <2>a, AgreesConcat
  <2>3. /\ applied'[c] = applied[c] \o Unseen(o)
        /\ currentVersion'[c] = Len(applied[c]) + Len(Unseen(o))
    BY <1>1, <1>3, UnseenContinues DEF TypeInv, TypeOK
  <2>4. Len(applied[c]) \in Nat /\ Len(Unseen(o)) \in Nat
    BY <1>1, <1>3, UnseenContinues
  <2>5. Agrees(applied[c], log)' /\ Len(applied'[c]) = currentVersion'[c]
    BY <1>1, <2>2, <2>3
  <2>6. currentVersion'[c] \in Nat
    BY <2>3, <2>4
  <2> QED BY <2>5, <2>6 DEF ReplicaOk
<1> QED BY <1>2, <1>3

LEMMA ReplicaStopped ==
  ASSUME TypeInv, ReplicaInv, NEW o \in Ops, Stopped(o), NEW c \in Coordinators
  PROVE  ReplicaOk(c)'
<1>1. PICK i \in DOMAIN Unseen(o) :
        applied' = [applied EXCEPT ![owner[o]] = @ \o SubSeq(Unseen(o), 1, i)]
  BY DEF Stopped
<1>2. /\ log' = log /\ HasLog(o) /\ currentVersion' = currentVersion
      /\ corrupted' = [corrupted EXCEPT ![owner[o]] = TRUE]
  BY DEF Stopped
<1>3. CASE c # owner[o]
  BY <1>1, <1>2, <1>3 DEF ReplicaInv, ReplicaOk, TypeInv, TypeOK
<1>4. CASE c = owner[o]
  <2> DEFINE t == SubSeq(Unseen(o), 1, i)
  <2>1. /\ applied[c] \in Seq(Batch) /\ Unseen(o) \in Seq(Batch) /\ log \in Seq(Batch)
        /\ Agrees(applied[c], log)
    BY <1>2, UnseenTyped DEF TypeInv, TypeOK, ReplicaInv, ReplicaOk
  <2>2. Len(Unseen(o)) \in Nat /\ i \in 1..Len(Unseen(o))
    BY <2>1, LenProperties
  <2>3. /\ t \in Seq(Batch) /\ Len(t) = i /\ \A j \in 1..i : t[j] = Unseen(o)[j]
    <3>1. /\ SubSeq(Unseen(o), 0 + 1, i) \in Seq(Batch)
          /\ Len(SubSeq(Unseen(o), 0 + 1, i)) = IF 0 < i THEN i - 0 ELSE 0
          /\ \A j \in 1..(i - 0) : SubSeq(Unseen(o), 0 + 1, i)[j] = Unseen(o)[0 + j]
      BY <2>1, <2>2, SliceTyped
    <3> QED BY <3>1, <2>2
  <2> HIDE DEF t
  <2>a. /\ Len(applied[c]) \in Nat /\ Len(log) \in Nat
        /\ Len(applied[c]) + Len(Unseen(o)) <= Len(log)
        /\ \A j \in 1..Len(Unseen(o)) : Unseen(o)[j] = log[Len(applied[c]) + j]
    BY <1>2, <1>4, <2>1, UnseenContinues, LenProperties
  <2>b. ASSUME NEW j \in 1..Len(t) PROVE t[j] = log[Len(applied[c]) + j]
    <3>1. j \in 1..i
      BY <2>3
    <3>2. t[j] = Unseen(o)[j] /\ j \in 1..Len(Unseen(o))
      BY <2>2, <2>3, <3>1
    <3> QED BY <3>2, <2>a
  <2>4. Len(applied[c]) + Len(t) <= Len(log) /\ \A j \in 1..Len(t) : t[j] = log[Len(applied[c]) + j]
    <3>1. Len(t) = i /\ i <= Len(Unseen(o))
      BY <2>2, <2>3
    <3>2. Len(applied[c]) + Len(t) <= Len(log)
      BY <3>1, <2>2, <2>a
    <3> QED BY <3>2, <2>b
  <2>5. Agrees(applied[c] \o t, log) /\ Len(applied[c] \o t) = Len(applied[c]) + i
    <3>1. t \in Seq(Batch) /\ Len(t) = i
      BY <2>3
    <3>2. /\ Len(applied[c] \o t) = Len(applied[c]) + Len(t)
          /\ Agrees(applied[c] \o t, log)
      BY <2>1, <2>4, <3>1, AgreesConcat
    <3> QED BY <3>1, <3>2
  <2>6. applied'[c] = applied[c] \o t /\ corrupted'[c]
    BY <1>1, <1>2, <1>4 DEF t, TypeInv, TypeOK
  <2>7. currentVersion'[c] = Len(applied[c]) /\ Len(applied[c]) \in Nat
    BY <1>2, <1>4, UnseenContinues
  <2> QED BY <1>2, <2>2, <2>5, <2>6, <2>7 DEF ReplicaOk
<1> QED BY <1>3, <1>4

LEMMA ReplicaApplied ==
  ASSUME TypeInv, ReplicaInv, NEW o \in Ops, Applied(o), NEW c \in Coordinators
  PROVE  ReplicaOk(c)'
<1>1. /\ log' = log /\ HasAppended(o)
      /\ applied' = [applied EXCEPT ![owner[o]] = Append(@, log[answer[o]])]
  BY DEF Applied
<1>2. CASE c # owner[o]
  BY <1>1, <1>2 DEF Applied, ReplicaInv, ReplicaOk, TypeInv, TypeOK
<1>3. CASE c = owner[o]
  <2>1. /\ applied[c] \in Seq(Batch) /\ log \in Seq(Batch) /\ Agrees(applied[c], log)
        /\ ~corrupted[c] /\ base[o] = currentVersion[c] /\ Len(applied[c]) = currentVersion[c]
        /\ answer[o] = base[o] + 1 /\ answer[o] \in 1..Len(log)
    BY <1>1, <1>3, AppliedAnswer
    DEF TypeInv, TypeOK, CallPlaced, HasAppended, ReplicaInv, ReplicaOk, RunOk
  <2>2. answer[o] = Len(applied[c]) + 1 /\ Len(applied[c]) \in Nat
    BY <2>1, LenProperties
  <2>3. /\ Len(Append(applied[c], log[answer[o]])) = Len(applied[c]) + 1
        /\ Agrees(Append(applied[c], log[answer[o]]), log)
    BY <2>1, <2>2, AgreesAppend
  <2>4. applied'[c] = Append(applied[c], log[answer[o]])
    BY <1>1, <1>3 DEF TypeInv, TypeOK
  <2>5. currentVersion'[c] = Len(applied[c]) + 1 \/ (currentVersion'[c] = Len(applied[c]) /\ corrupted'[c])
    BY <1>3, <2>1, <2>2 DEF Applied, TypeInv, TypeOK
  <2> QED BY <1>1, <2>2, <2>3, <2>4, <2>5 DEF ReplicaOk
<1> QED BY <1>2, <1>3

LEMMA ReplicaRested ==
  ASSUME TypeInv, ReplicaInv, NEW o \in Ops, Rested(o), NEW c \in Coordinators
  PROVE  ReplicaOk(c)'
<1>1. /\ log' = log \/ ApplyAppend(o)
      /\ applied' = applied /\ currentVersion' = currentVersion /\ corrupted' = corrupted
  BY DEF Rested
<1>2. applied[c] \in Seq(Batch) /\ ReplicaOk(c)
  BY DEF TypeInv, TypeOK, ReplicaInv
<1> QED BY <1>1, <1>2, StillAgrees DEF ReplicaOk

LEMMA RunKept ==
  ASSUME TypeInv, QueueInv, ReplicaInv, NEW o \in Ops, Frame(o),
         Synced(o) \/ Stopped(o) \/ Applied(o) \/ Rested(o), NEW x \in Ops
  PROVE  RunOk(x)'
<1> SUFFICES ASSUME pc'[x] = "running"
             PROVE  ~corrupted'[owner[x]] /\ base'[x] = currentVersion'[owner[x]]
  BY DEF RunOk, Frame
<1>1. RunOk(x) /\ RunOk(o)
  BY DEF ReplicaInv
<1>2. CASE x = o
  <2>1. CASE Synced(o)
    <3>1. /\ ~corrupted[owner[o]] /\ corrupted' = corrupted /\ owner[o] \in Coordinators
          /\ currentVersion' = [currentVersion EXCEPT ![owner[o]] = SyncedVersion(o)]
          /\ base'[o] = SyncedVersion(o)
      BY <1>2, <2>1, UnseenTyped, <1>1 DEF Synced, HasLog, RunOk, CatchUp
    <3> QED BY <1>2, <3>1 DEF TypeInv, TypeOK
  <2>2. CASE Stopped(o) \/ Applied(o)
    BY <1>2, <2>2 DEF Stopped, Applied
  <2>3. CASE Rested(o)
    BY <1>1, <1>2, <2>3 DEF Rested, RunOk
  <2> QED BY <2>1, <2>2, <2>3
<1>3. CASE x # o
  <2>1. pc[x] = "running" /\ base'[x] = base[x] /\ owner[x] \in Coordinators
    BY <1>3 DEF Frame, TypeInv, CallPlaced
  <2>2. ~corrupted[owner[x]] /\ base[x] = currentVersion[owner[x]]
    BY <1>1, <2>1 DEF RunOk
  <2>3. CASE Rested(o)
    BY <2>1, <2>2, <2>3 DEF Rested
  <2>4. CASE Synced(o) \/ Stopped(o) \/ Applied(o)
    <3>1. pc[o] = "running"
      BY <2>4 DEF Synced, Stopped, Applied, HasLog, HasAppended
    <3>2. owner[x] # owner[o]
      BY <1>3, <2>1, <3>1, RunsAlone
    <3>3. corrupted'[owner[x]] = corrupted[owner[x]]
      BY <2>1, <2>4, <3>2 DEF Synced, Stopped, Applied, CatchUp, TypeInv, TypeOK
    <3>4. currentVersion'[owner[x]] = currentVersion[owner[x]]
      BY <2>1, <2>4, <3>2 DEF Synced, Stopped, Applied, CatchUp, TypeInv, TypeOK
    <3> QED BY <2>1, <2>2, <3>3, <3>4
  <2> QED BY <2>3, <2>4
<1> QED BY <1>2, <1>3

LEMMA ReplicaStep == TypeInv /\ QueueInv /\ ReplicaInv /\ [Next]_vars => ReplicaInv'
<1> SUFFICES ASSUME TypeInv, QueueInv, ReplicaInv, [Next]_vars PROVE ReplicaInv'
  OBVIOUS
<1>1. CASE UNCHANGED vars
  BY <1>1 DEF vars, store, replicas, callers, exchange, ReplicaInv, ReplicaOk, RunOk, Agrees
<1>2. ASSUME NEW c \in Coordinators, NEW r \in Requests, Invoke(c, r) \/ PutNothing(c, r)
      PROVE  ReplicaInv'
  <2>1. PICK n \in Ops : n = invoked + 1 /\ invoked \in Nat
    BY <1>2, OpsAssumption DEF TypeInv, TypeOK, Invoke, PutNothing, Ops
  <2>2. /\ UNCHANGED <<log, applied, currentVersion, corrupted, base>>
        /\ owner' = [owner EXCEPT ![n] = c]
        /\ pc'[n] # "running" /\ \A x \in Ops \ {n} : pc'[x] = pc[x]
    BY <1>2, <2>1 DEF Invoke, PutNothing, Settle, store, replicas, exchange, TypeInv, TypeOK
  <2>3. ASSUME NEW d \in Coordinators PROVE ReplicaOk(d)'
    BY <2>2 DEF ReplicaInv, ReplicaOk, Agrees
  <2>4. ASSUME NEW x \in Ops PROVE RunOk(x)'
    BY <2>2 DEF ReplicaInv, RunOk, TypeInv, TypeOK
  <2> QED BY <2>3, <2>4 DEF ReplicaInv
<1>3. ASSUME NEW o \in Ops, Steps(o) PROVE ReplicaInv'
  <2>1. (Synced(o) \/ Stopped(o) \/ Applied(o) \/ Rested(o)) /\ Frame(o)
    BY <1>3, StepOnReplica, StepFrame
  <2>2. ASSUME NEW d \in Coordinators PROVE ReplicaOk(d)'
    BY <2>1, ReplicaSynced, ReplicaStopped, ReplicaApplied, ReplicaRested
  <2>3. ASSUME NEW x \in Ops PROVE RunOk(x)'
    BY <2>1, RunKept
  <2> QED BY <2>2, <2>3 DEF ReplicaInv
<1> QED BY <1>1, <1>2, <1>3 DEF Next, Steps

LEMMA AgreementIsPrefix ==
  ASSUME NEW S, NEW s \in Seq(S), NEW l \in Seq(S), Agrees(s, l)
  PROVE  Len(s) <= Len(l) /\ s = SubSeq(l, 1, Len(s))
<1>1. Len(s) \in Nat /\ Len(l) \in Nat /\ Len(s) <= Len(l)
  BY LenProperties DEF Agrees
<1>2. /\ SubSeq(l, 0 + 1, Len(s)) \in Seq(S)
      /\ Len(SubSeq(l, 0 + 1, Len(s))) = IF 0 < Len(s) THEN Len(s) - 0 ELSE 0
      /\ \A i \in 1..(Len(s) - 0) : SubSeq(l, 0 + 1, Len(s))[i] = l[0 + i]
  BY <1>1, SliceTyped
<1>3. /\ SubSeq(l, 1, Len(s)) \in Seq(S) /\ Len(SubSeq(l, 1, Len(s))) = Len(s)
      /\ \A i \in 1..Len(s) : SubSeq(l, 1, Len(s))[i] = s[i]
  BY <1>1, <1>2 DEF Agrees
<1> QED BY <1>1, <1>3, SeqEqual

(* A healthy replica is exactly the log up to its version, for every number  *)
(* of instances, calls and retries, and whatever the store fails, delays or  *)
(* serves stale: no late answer makes an instance apply a batch twice or     *)
(* skip one.                                                                 *)
THEOREM ReplicasFollowTheLog == Spec => []ReplicaIsLogPrefix
<1>1. Spec => [](TypeInv /\ QueueInv /\ ReplicaInv)
  BY TypeInit, QueueInit, ReplicaInit, TypeStep, QueueStep, ReplicaStep, PTL DEF Spec
<1>2. TypeInv /\ ReplicaInv => ReplicaIsLogPrefix
  <2> SUFFICES ASSUME TypeInv, ReplicaInv, NEW c \in Coordinators, ~corrupted[c]
               PROVE  /\ currentVersion[c] <= Len(log)
                      /\ applied[c] = SubSeq(log, 1, currentVersion[c])
    BY DEF ReplicaIsLogPrefix
  <2>1. applied[c] \in Seq(Batch) /\ log \in Seq(Batch)
    BY DEF TypeInv, TypeOK
  <2>2. Agrees(applied[c], log) /\ Len(applied[c]) = currentVersion[c]
    BY DEF ReplicaInv, ReplicaOk
  <2> QED BY <2>1, <2>2, AgreementIsPrefix
<1> QED BY <1>1, <1>2, PTL

-----------------------------------------------------------------------------
(***************************************************************************)
(* What callers are told: a call that says it changed nothing left no trace  *)
(* (TraceInv), the calls of an instance see the log grow (SessionInv), no    *)
(* answer is older than its call (FreshInv), retries run out only under      *)
(* contention (ContentionInv), a corrupted instance answers nothing more,    *)
(* and the instances that share a log share its configuration.               *)
(***************************************************************************)

(* The ways a call moves on or settles, seen from the call. *)

FailsCleanly(o) ==
    /\ outcome'[o] \in Effectless \ Answers
    /\ wire[o] \notin {"sent", "appended"}
    /\ outcome'[o] = "exhausted" => WasRefused(o) /\ attempt[o] + 1 >= MaxRetries

FailsInDoubt(o) == outcome'[o] \in {"appendFailed", "applyFailed"}

ObservesLocally(o) ==
    /\ outcome'[o] = "observed" /\ pc[o] = "queued"
    /\ ReadsLocally(o) /\ ~corrupted[owner[o]]
    /\ at'[o] = currentVersion[owner[o]] /\ UNCHANGED currentVersion

ObservesSynced(o) ==
    /\ outcome'[o] \in {"observed", "nothing", "invalid"}
    /\ HasLog(o)
    /\ at'[o] = SyncedVersion(o)
    /\ currentVersion' = [currentVersion EXCEPT ![owner[o]] = SyncedVersion(o)]

Commits(o) ==
    /\ outcome'[o] = "committed"
    /\ HasAppended(o)
    /\ at'[o] = answer[o]
    /\ currentVersion' = [currentVersion EXCEPT ![owner[o]] = answer[o]]

Settles(o) ==
    /\ pc[o] \in {"queued", "running"} /\ outcome[o] = "pending" /\ pc'[o] = "done"
    /\ UNCHANGED <<log, exchange>>
    /\ \/ FailsCleanly(o) \/ FailsInDoubt(o)
       \/ ObservesLocally(o) \/ ObservesSynced(o) \/ Commits(o)

Asks(o) ==
    /\ wire'[o] = "asked" /\ pc'[o] = "running"
    /\ \/ pc[o] = "queued" /\ ~corrupted[owner[o]] /\ attempt' = attempt
       \/ WasRefused(o) /\ attempt' = [attempt EXCEPT ![o] = @ + 1]
    /\ UNCHANGED <<log, carriesInit, answer, settlement>>

LEMMA StepOnCall ==
  ASSUME TypeInv, NEW o \in Ops, Steps(o)
  PROVE  \/ Settles(o) \/ Asks(o) \/ SendAppend(o)
         \/ ServeLog(o) \/ ApplyAppend(o) \/ RefuseAppend(o)
<1> USE DEF TypeInv, TypeOK, CallPlaced, store, replicas, callers, exchange, settlement,
            Settle, Fail, Settles, Effectless, Answers, Failures
<1>1. CASE RefuseCorrupted(o)
  BY <1>1 DEF RefuseCorrupted, Ready, FailsCleanly
<1>2. CASE AnswerLocally(o)
  BY <1>2 DEF AnswerLocally, Ready, ObservesLocally
<1>3. CASE StartSync(o)
  BY <1>3 DEF StartSync, Ready, AskForLog, Asks
<1>4. CASE RefuseOversized(o)
  BY <1>4 DEF RefuseOversized, HasLog, FailsCleanly
<1>5. CASE RefuseMismatched(o)
  BY <1>5 DEF RefuseMismatched, HasLog, FailsCleanly
<1>6. CASE FailReplay(o)
  BY <1>6 DEF FailReplay, HasLog, FailsCleanly
<1>7. CASE AnswerSynced(o)
  BY <1>7 DEF AnswerSynced, Replays, HasLog, CatchUp, ObservesSynced
<1>8. CASE AnswerUnappended(o)
  BY <1>8 DEF AnswerUnappended, Replays, HasLog, CatchUp, ObservesSynced
<1>9. CASE FinishAppend(o)
  BY <1>9 DEF FinishAppend, ApplyLocally, HasAppended, Commits
<1>10. CASE FailApply(o)
  BY <1>10 DEF FailApply, ApplyLocally, HasAppended, FailsInDoubt
<1>11. CASE Retry(o)
  BY <1>11 DEF Retry, WasRefused, AskForLog, Asks
<1>12. CASE GiveUp(o)
  BY <1>12 DEF GiveUp, WasRefused, FailsCleanly
<1>13. CASE SyncRejects(o)
  BY <1>13 DEF SyncRejects, FailsCleanly
<1>14. CASE AppendRejects(o)
  BY <1>14 DEF AppendRejects, FailsInDoubt
<1> QED
  BY <1>1, <1>2, <1>3, <1>4, <1>5, <1>6, <1>7, <1>8, <1>9, <1>10, <1>11, <1>12, <1>13, <1>14
  DEF Steps, Step, Serve, Disturb

(* A call that is made finds a number nobody has used. *)
LEMMA InvokeFrame ==
  ASSUME TypeInv, NEW c \in Coordinators, NEW r \in Requests,
         Invoke(c, r) \/ PutNothing(c, r)
  PROVE  \E n \in Ops :
           /\ pc[n] = "idle" /\ wire[n] = "none" /\ outcome[n] = "pending"
           /\ outcome'[n] \in {"pending", "empty"} /\ pc'[n] \in {"queued", "done"}
           /\ owner' = [owner EXCEPT ![n] = c] /\ since' = [since EXCEPT ![n] = Len(log)]
           /\ request' = [request EXCEPT ![n] = r]
           /\ UNCHANGED <<log, replicas, exchange>>
           /\ \A x \in Ops \ {n} : /\ pc'[x] = pc[x] /\ outcome'[x] = outcome[x]
                                   /\ result'[x] = result[x] /\ at'[x] = at[x]
<1>1. PICK n \in Ops : n = invoked + 1 /\ invoked \in Nat
  BY OpsAssumption DEF TypeInv, TypeOK, Invoke, PutNothing, Ops
<1>2. pc[n] = "idle" /\ wire[n] = "none" /\ outcome[n] = "pending"
  BY <1>1, OpsAreNumbers DEF TypeInv, CallPlaced
<1>3. CASE Invoke(c, r)
  BY <1>1, <1>2, <1>3 DEF Invoke, settlement, store, TypeInv, TypeOK
<1>4. CASE PutNothing(c, r)
  <2>1. /\ pc' = [pc EXCEPT ![n] = "done"] /\ outcome' = [outcome EXCEPT ![n] = "empty"]
        /\ result' = [result EXCEPT ![n] = <<>>] /\ at' = [at EXCEPT ![n] = 0]
        /\ owner' = [owner EXCEPT ![n] = c] /\ since' = [since EXCEPT ![n] = Len(log)]
        /\ request' = [request EXCEPT ![n] = r]
        /\ UNCHANGED <<log, replicas, exchange>>
    BY <1>1, <1>4 DEF PutNothing, Settle, store
  <2>2. \A x \in Ops \ {n} : /\ pc'[x] = pc[x] /\ outcome'[x] = outcome[x] /\ at'[x] = at[x]
    BY <2>1 DEF TypeInv, TypeOK
  <2>3. \A x \in Ops \ {n} : result'[x] = result[x]
    BY <2>1
  <2>4. outcome'[n] = "empty" /\ pc'[n] = "done"
    BY <2>1 DEF TypeInv, TypeOK
  <2> QED BY <1>2, <2>1, <2>2, <2>3, <2>4
<1> QED BY <1>3, <1>4

-----------------------------------------------------------------------------
(* Calls that changed nothing. *)

TraceInv == \A o \in Ops : outcome[o] \in Effectless => wire[o] \notin {"sent", "appended"}

LEMMA TraceInit == Init => TraceInv
  BY DEF Init, TraceInv

LEMMA TraceStep == TypeInv /\ TraceInv /\ [Next]_vars => TraceInv'
<1> SUFFICES ASSUME TypeInv, TraceInv, [Next]_vars PROVE TraceInv'
  OBVIOUS
<1> USE DEF Effectless, Answers, Failures
<1>1. CASE UNCHANGED vars
  BY <1>1 DEF vars, exchange, settlement, TraceInv
<1>2. ASSUME NEW c \in Coordinators, NEW r \in Requests, Invoke(c, r) \/ PutNothing(c, r)
      PROVE  TraceInv'
  BY <1>2, InvokeFrame DEF TraceInv, exchange
<1>3. ASSUME NEW o \in Ops, Steps(o) PROVE TraceInv'
  <2>1. Frame(o)
    BY <1>3, StepFrame
  <2>2. ASSUME outcome'[o] \in Effectless PROVE wire'[o] \notin {"sent", "appended"}
    <3>1. CASE Settles(o)
      BY <2>2, <3>1
      DEF Settles, FailsCleanly, FailsInDoubt, ObservesLocally, ObservesSynced, Commits,
          HasLog, exchange, TypeInv, CallPlaced
    <3>2. CASE Asks(o) \/ ServeLog(o)
      BY <3>2 DEF Asks, ServeLog, TypeInv, TypeOK
    <3>3. CASE SendAppend(o)
      BY <2>2, <3>3 DEF SendAppend, Replays, HasLog, settlement, TypeInv, CallPlaced
    <3>4. CASE ApplyAppend(o)
      BY <2>2, <3>4 DEF ApplyAppend, settlement, TraceInv
    <3>5. CASE RefuseAppend(o)
      BY <3>5 DEF RefuseAppend, TypeInv, TypeOK
    <3> QED BY <1>3, <3>1, <3>2, <3>3, <3>4, <3>5, StepOnCall
  <2> QED BY <2>1, <2>2 DEF Frame, TraceInv
<1> QED BY <1>1, <1>2, <1>3 DEF Next, Steps

LEMMA TracelessCalls ==
  ASSUME TypeInv, LogInv, TraceInv
  PROVE  EffectlessCallsLeaveNoTrace
  BY LoggedTyped DEF LogInv, Logged, TraceInv, EffectlessCallsLeaveNoTrace

(* A call that told its caller it changed nothing has no batch in the log    *)
(* and will never have one: refused, given up, or failed before its append.  *)
THEOREM NoTraceOfEffectlessCalls == Spec => []EffectlessCallsLeaveNoTrace
<1>1. Spec => [](TypeInv /\ LogInv /\ TraceInv)
  BY TypeInit, LogInit, TraceInit, TypeStep, LogStep, TraceStep, PTL DEF Spec
<1> QED BY <1>1, TracelessCalls, PTL

-----------------------------------------------------------------------------
(* Sessions. *)

(* An answer speaks of no version that its instance has not reached. *)
Reached(o) == outcome[o] \in Answers => at[o] <= currentVersion[owner[o]]

InSession(o, p) ==
    /\ o < p /\ owner[o] = owner[p]
    /\ outcome[o] \in Answers /\ outcome[p] \in Answers
    => /\ at[o] <= at[p]
       /\ outcome[p] = "committed" => at[o] < at[p]

SessionInv ==
    /\ \A o \in Ops : Reached(o)
    /\ \A o, p \in Ops : InSession(o, p)

LEMMA SessionInit == Init => SessionInv
  BY DEF Init, SessionInv, Reached, InSession, Answers

(* Replicas move forward, and an answer comes from where its replica is. *)
LEMMA VersionsGrow ==
  ASSUME TypeInv, ReplicaInv, NEW o \in Ops, Steps(o), NEW c \in Coordinators
  PROVE  currentVersion[c] \in Nat /\ currentVersion'[c] \in Nat
         /\ currentVersion[c] <= currentVersion'[c]
<1>0. currentVersion[c] \in Nat
  BY DEF TypeInv, TypeOK
<1>1. CASE Synced(o)
  <2>1. currentVersion' = [currentVersion EXCEPT ![owner[o]] = SyncedVersion(o)] /\ HasLog(o)
    BY <1>1 DEF Synced, CatchUp
  <2>2. /\ base[o] = currentVersion[owner[o]] /\ base[o] \in Nat /\ answer[o] \in Nat
        /\ owner[o] \in Coordinators
    BY <2>1, UnseenContinues DEF TypeInv, TypeOK
  <2>3. SyncedVersion(o) \in Nat /\ currentVersion[owner[o]] <= SyncedVersion(o)
    BY <2>2 DEF SyncedVersion
  <2> QED BY <1>0, <2>1, <2>3 DEF TypeInv, TypeOK
<1>2. CASE Stopped(o) \/ Rested(o)
  BY <1>0, <1>2 DEF Stopped, Rested
<1>3. CASE Applied(o)
  <2>1. /\ HasAppended(o)
        /\ \/ currentVersion' = [currentVersion EXCEPT ![owner[o]] = answer[o]]
           \/ currentVersion' = currentVersion
    BY <1>3 DEF Applied
  <2>2. /\ base[o] = currentVersion[owner[o]] /\ base[o] \in Nat /\ answer[o] = base[o] + 1
        /\ owner[o] \in Coordinators
    BY <2>1, AppliedAnswer DEF HasAppended, ReplicaInv, RunOk, TypeInv, TypeOK, CallPlaced
  <2>3. answer[o] \in Nat /\ currentVersion[owner[o]] <= answer[o]
    BY <2>2
  <2>4. CASE currentVersion' = currentVersion
    BY <1>0, <2>4
  <2>5. CASE currentVersion' = [currentVersion EXCEPT ![owner[o]] = answer[o]]
    BY <1>0, <2>3, <2>5 DEF TypeInv, TypeOK
  <2> QED BY <2>1, <2>4, <2>5
<1> QED BY <1>1, <1>2, <1>3, StepOnReplica

LEMMA AnswerIsCurrent ==
  ASSUME TypeInv, ReplicaInv, NEW o \in Ops, Settles(o), outcome'[o] \in Answers
  PROVE  /\ owner[o] \in Coordinators
         /\ at'[o] \in Nat /\ currentVersion[owner[o]] \in Nat
         /\ at'[o] = currentVersion'[owner[o]]
         /\ currentVersion[owner[o]] <= at'[o]
         /\ outcome'[o] = "committed" => currentVersion[owner[o]] < at'[o]
<1> USE DEF Effectless, Answers, Failures
<1>0. owner[o] \in Coordinators /\ currentVersion[owner[o]] \in Nat
  BY DEF Settles, TypeInv, TypeOK, CallPlaced
<1>1. CASE ObservesLocally(o)
  BY <1>0, <1>1 DEF ObservesLocally
<1>2. CASE ObservesSynced(o)
  <2>1. /\ base[o] = currentVersion[owner[o]] /\ base[o] \in Nat /\ answer[o] \in Nat
    BY <1>2, UnseenContinues DEF ObservesSynced, TypeInv, TypeOK
  <2>2. SyncedVersion(o) \in Nat /\ currentVersion[owner[o]] <= SyncedVersion(o)
    BY <2>1 DEF SyncedVersion
  <2> QED BY <1>0, <1>2, <2>2 DEF ObservesSynced, TypeInv, TypeOK
<1>3. CASE Commits(o)
  <2>1. /\ base[o] = currentVersion[owner[o]] /\ base[o] \in Nat /\ answer[o] = base[o] + 1
    BY <1>3 DEF Commits, HasAppended, ReplicaInv, RunOk, TypeInv, TypeOK, CallPlaced
  <2> QED BY <1>0, <1>3, <2>1 DEF Commits, TypeInv, TypeOK
<1>4. ~FailsCleanly(o) /\ ~FailsInDoubt(o)
  BY DEF FailsCleanly, FailsInDoubt
<1> QED BY <1>1, <1>2, <1>3, <1>4 DEF Settles

(* Only settling changes an outcome. *)
LEMMA OutcomeKept ==
  ASSUME TypeInv, NEW o \in Ops, Steps(o), ~Settles(o)
  PROVE  UNCHANGED <<outcome, result, at>>
  BY StepOnCall
  DEF Asks, SendAppend, ServeLog, ApplyAppend, RefuseAppend, settlement

LEMMA SessionStep == TypeInv /\ QueueInv /\ ReplicaInv /\ SessionInv /\ [Next]_vars => SessionInv'
<1> SUFFICES ASSUME TypeInv, QueueInv, ReplicaInv, SessionInv, [Next]_vars PROVE SessionInv'
  OBVIOUS
<1>1. CASE UNCHANGED vars
  BY <1>1 DEF vars, replicas, callers, settlement, SessionInv, Reached, InSession
<1>2. ASSUME NEW c \in Coordinators, NEW r \in Requests, Invoke(c, r) \/ PutNothing(c, r)
      PROVE  SessionInv'
  <2>1. PICK n \in Ops :
          /\ outcome'[n] \in {"pending", "empty"} /\ UNCHANGED currentVersion
          /\ \A x \in Ops \ {n} : /\ owner'[x] = owner[x] /\ outcome'[x] = outcome[x]
                                  /\ at'[x] = at[x]
    BY <1>2, InvokeFrame DEF replicas, TypeInv, TypeOK
  <2>2. outcome'[n] \notin Answers
    BY <2>1 DEF Answers
  <2> QED BY <2>1, <2>2 DEF SessionInv, Reached, InSession
<1>3. ASSUME NEW o \in Ops, Steps(o) PROVE SessionInv'
  <2>1. /\ UNCHANGED owner
        /\ \A x \in Ops \ {o} : /\ outcome'[x] = outcome[x] /\ at'[x] = at[x]
                                /\ pc'[x] = pc[x]
    BY <1>3, StepFrame DEF Frame
  <2>2. ASSUME NEW x \in Ops, outcome[x] \in Answers PROVE owner[x] \in Coordinators
    BY <2>2 DEF TypeInv, CallPlaced, Answers
  <2>3. ASSUME NEW x \in Ops PROVE Reached(x)'
    <3> SUFFICES ASSUME outcome'[x] \in Answers PROVE at'[x] <= currentVersion'[owner[x]]
      BY <2>1 DEF Reached
    <3>1. CASE x = o /\ Settles(o)
      BY <3>1, AnswerIsCurrent
    <3>2. CASE x # o \/ ~Settles(o)
      <4>1. outcome'[x] = outcome[x] /\ at'[x] = at[x]
        BY <1>3, <2>1, <3>2, OutcomeKept
      <4>2. owner[x] \in Coordinators /\ at[x] <= currentVersion[owner[x]] /\ at[x] \in Nat
        BY <4>1, <2>2 DEF SessionInv, Reached, TypeInv, TypeOK
      <4>3. /\ currentVersion[owner[x]] \in Nat /\ currentVersion'[owner[x]] \in Nat
            /\ currentVersion[owner[x]] <= currentVersion'[owner[x]]
        BY <1>3, <4>2, VersionsGrow
      <4> QED BY <4>1, <4>2, <4>3
    <3> QED BY <3>1, <3>2
  <2>4. ASSUME NEW x \in Ops, NEW y \in Ops PROVE InSession(x, y)'
    <3> SUFFICES ASSUME x < y, owner[x] = owner[y],
                        outcome'[x] \in Answers, outcome'[y] \in Answers
                 PROVE  /\ at'[x] <= at'[y]
                        /\ outcome'[y] = "committed" => at'[x] < at'[y]
      BY <2>1 DEF InSession
    <3>0. x \in Nat /\ y \in Nat /\ x # y
      BY OpsAreNumbers
    <3>1. CASE ~Settles(o) \/ (x # o /\ y # o)
      <4>1. /\ outcome'[x] = outcome[x] /\ at'[x] = at[x]
            /\ outcome'[y] = outcome[y] /\ at'[y] = at[y]
        BY <1>3, <2>1, <3>1, OutcomeKept
      <4> QED BY <4>1 DEF SessionInv, InSession
    <3>2. CASE Settles(o) /\ y = o
      <4>1. outcome'[x] = outcome[x] /\ at'[x] = at[x]
        BY <2>1, <3>0, <3>2
      <4>2. at[x] <= currentVersion[owner[o]] /\ at[x] \in Nat
        BY <3>2, <4>1 DEF SessionInv, Reached, TypeInv, TypeOK
      <4>3. /\ at'[o] \in Nat /\ currentVersion[owner[o]] \in Nat
            /\ currentVersion[owner[o]] <= at'[o]
            /\ outcome'[o] = "committed" => currentVersion[owner[o]] < at'[o]
        BY <3>2, AnswerIsCurrent
      <4> QED BY <3>2, <4>1, <4>2, <4>3
    <3>3. CASE Settles(o) /\ x = o
      <4>1. outcome'[y] = outcome[y]
        BY <2>1, <3>0, <3>3
      <4>2. pc[y] = "done" /\ Queued(y)
        BY <4>1 DEF TypeInv, CallPlaced, Queued, Answers
      <4>3. pc[x] \in {"queued", "running"} /\ Queued(x)
        BY <3>3 DEF Settles, Queued
      <4>4. RunsAfter(x, y)
        BY DEF QueueInv
      <4> QED BY <4>2, <4>3, <4>4 DEF RunsAfter
    <3> QED BY <3>1, <3>2, <3>3
  <2> QED BY <2>3, <2>4 DEF SessionInv
<1> QED BY <1>1, <1>2, <1>3 DEF Next, Steps

(* The calls of one instance see the log grow, whatever old versions the     *)
(* store serves and in local mode too: each sees what the earlier ones saw   *)
(* and wrote.                                                                *)
THEOREM SessionsAreMonotonic == Spec => []SessionIsMonotonic
<1>1. Spec => [](TypeInv /\ QueueInv /\ ReplicaInv /\ SessionInv)
  BY TypeInit, QueueInit, ReplicaInit, SessionInit,
     TypeStep, QueueStep, ReplicaStep, SessionStep, PTL DEF Spec
<1>2. SessionInv => SessionIsMonotonic
  BY DEF SessionInv, InSession, SessionIsMonotonic
<1> QED BY <1>1, <1>2, PTL

-----------------------------------------------------------------------------
(* Freshness. *)

(* What has been served or appended for a call is no older than the call. *)
HeardSince(o) ==
    /\ since[o] <= Len(log)
    /\ wire[o] = "appended" => since[o] < answer[o]
    /\ ~StaleReads /\ wire[o] = "served" => since[o] <= answer[o]

FreshAnswer(o) ==
    /\ outcome[o] = "committed" => at[o] > since[o]
    /\ /\ outcome[o] \in Answers /\ ~StaleReads
       /\ request[o].type = "read" => ReadMode[owner[o]] = "strong"
       => at[o] >= since[o]

FreshInv == \A o \in Ops : HeardSince(o) /\ FreshAnswer(o)

LEMMA FreshInit == Init => FreshInv
  BY EmptySeq DEF Init, FreshInv, HeardSince, FreshAnswer, Answers

LEMMA LogLength ==
  ASSUME TypeInv, NEW o \in Ops, Steps(o)
  PROVE  Len(log) \in Nat /\ Len(log') \in Nat /\ Len(log) <= Len(log')
<1>1. Len(log) \in Nat
  BY LoggedTyped
<1>2. CASE ApplyAppend(o)
  <2>1. Len(log') = Len(log) + 1
    BY <1>2, LogGrows
  <2> QED BY <1>1, <2>1
<1>3. CASE ~ApplyAppend(o)
  BY <1>1, <1>3, OnlyAppendsLog
<1> QED BY <1>2, <1>3

LEMMA FreshStep == TypeInv /\ FreshInv /\ [Next]_vars => FreshInv'
<1> SUFFICES ASSUME TypeInv, FreshInv, [Next]_vars PROVE FreshInv'
  OBVIOUS
<1>1. CASE UNCHANGED vars
  BY <1>1 DEF vars, store, callers, exchange, settlement, FreshInv, HeardSince, FreshAnswer
<1>2. ASSUME NEW c \in Coordinators, NEW r \in Requests, Invoke(c, r) \/ PutNothing(c, r)
      PROVE  FreshInv'
  <2>1. PICK n \in Ops :
          /\ wire[n] = "none" /\ outcome'[n] \in {"pending", "empty"}
          /\ since'[n] = Len(log) /\ UNCHANGED <<log, wire, answer>>
          /\ \A x \in Ops \ {n} : /\ owner'[x] = owner[x] /\ request'[x] = request[x]
                                  /\ since'[x] = since[x]
                                  /\ outcome'[x] = outcome[x] /\ at'[x] = at[x]
    BY <1>2, InvokeFrame DEF exchange, TypeInv, TypeOK
  <2>2. outcome'[n] \notin Answers
    BY <2>1 DEF Answers
  <2>3. HeardSince(n)' /\ FreshAnswer(n)'
    BY <2>1, <2>2, LoggedTyped DEF HeardSince, FreshAnswer, Answers
  <2>4. ASSUME NEW x \in Ops \ {n} PROVE HeardSince(x)' /\ FreshAnswer(x)'
    BY <2>1 DEF FreshInv, HeardSince, FreshAnswer
  <2> QED BY <2>3, <2>4 DEF FreshInv
<1>3. ASSUME NEW o \in Ops, Steps(o) PROVE FreshInv'
  <2>1. /\ UNCHANGED <<owner, request, since>>
        /\ \A x \in Ops \ {o} : /\ outcome'[x] = outcome[x] /\ at'[x] = at[x]
                                /\ wire'[x] = wire[x] /\ answer'[x] = answer[x]
    BY <1>3, StepFrame DEF Frame
  <2>2. /\ \A x \in Ops : since[x] \in Nat
        /\ Len(log) \in Nat /\ Len(log') \in Nat /\ Len(log) <= Len(log')
    BY <1>3, LogLength DEF TypeInv, TypeOK
  <2>3. ASSUME NEW x \in Ops \ {o} PROVE HeardSince(x)' /\ FreshAnswer(x)'
    BY <2>1, <2>2 DEF FreshInv, HeardSince, FreshAnswer
  <2>4. HeardSince(o)'
    <3>1. since'[o] <= Len(log')
      BY <2>1, <2>2 DEF FreshInv, HeardSince
    <3>2. CASE Settles(o)
      BY <2>1, <3>1, <3>2 DEF Settles, exchange, FreshInv, HeardSince
    <3>3. CASE Asks(o) \/ SendAppend(o) \/ RefuseAppend(o)
      BY <3>1, <3>3 DEF Asks, SendAppend, RefuseAppend, HeardSince, TypeInv, TypeOK
    <3>4. CASE ServeLog(o)
      <4>1. PICK v \in 0..Len(log) : /\ StaleReads \/ v = Len(log)
                                     /\ answer' = [answer EXCEPT ![o] = v]
        BY <3>4 DEF ServeLog
      <4>2. wire'[o] = "served" /\ answer'[o] = v
        BY <3>4, <4>1 DEF ServeLog, TypeInv, TypeOK
      <4> QED BY <2>1, <3>1, <4>1, <4>2 DEF FreshInv, HeardSince
    <3>5. CASE ApplyAppend(o)
      <4>1. wire'[o] = "appended" /\ answer'[o] = Len(log) + 1
        BY <3>5 DEF ApplyAppend, TypeInv, TypeOK
      <4> QED BY <2>1, <2>2, <3>1, <4>1 DEF FreshInv, HeardSince
    <3> QED BY <1>3, <3>2, <3>3, <3>4, <3>5, StepOnCall
  <2>5. FreshAnswer(o)'
    <3>1. CASE ~Settles(o)
      BY <1>3, <2>1, <3>1, OutcomeKept DEF FreshInv, FreshAnswer
    <3>2. CASE Settles(o)
      <4>1. CASE FailsCleanly(o) \/ FailsInDoubt(o)
        BY <4>1 DEF FailsCleanly, FailsInDoubt, FreshAnswer, Effectless, Answers, Failures
      <4>2. CASE ObservesLocally(o)
        BY <2>1, <4>2 DEF ObservesLocally, ReadsLocally, FreshAnswer
      <4>3. CASE ObservesSynced(o)
        <5>1. /\ answer[o] \in Nat /\ base[o] \in Nat /\ wire[o] = "served"
              /\ outcome'[o] # "committed" /\ at'[o] = SyncedVersion(o)
          BY <4>3 DEF ObservesSynced, HasLog, TypeInv, TypeOK
        <5>2. SyncedVersion(o) \in Nat /\ answer[o] <= SyncedVersion(o)
          BY <5>1 DEF SyncedVersion
        <5>3. ~StaleReads => since[o] <= answer[o]
          BY <5>1 DEF FreshInv, HeardSince
        <5> QED BY <2>1, <2>2, <5>1, <5>2, <5>3 DEF FreshAnswer
      <4>4. CASE Commits(o)
        <5>1. /\ answer[o] \in Nat /\ at'[o] = answer[o] /\ since[o] < answer[o]
          BY <4>4 DEF Commits, HasAppended, FreshInv, HeardSince, TypeInv, TypeOK
        <5> QED BY <2>1, <2>2, <5>1 DEF FreshAnswer
      <4> QED BY <3>2, <4>1, <4>2, <4>3, <4>4 DEF Settles
    <3> QED BY <3>1, <3>2
  <2> QED BY <2>3, <2>4, <2>5 DEF FreshInv
<1> QED BY <1>1, <1>2, <1>3 DEF Next, Steps

(* A committed write is newer than its call, and so is any answer but a      *)
(* local read when the store serves its latest log.                          *)
THEOREM AnswersNeverPredateTheirCall == Spec => []AnswersAreFresh
<1>1. Spec => [](TypeInv /\ FreshInv)
  BY TypeInit, FreshInit, TypeStep, FreshStep, PTL DEF Spec
<1>2. FreshInv => AnswersAreFresh
  BY DEF FreshInv, FreshAnswer, AnswersAreFresh
<1> QED BY <1>1, <1>2, PTL

-----------------------------------------------------------------------------
(* Retries.  With a store that answers from its latest log and refuses only  *)
(* what it must, every refusal was caused by a batch that came in between.   *)

HonestStore == ~StaleReads /\ ~SpuriousRefusals

(* How much of the log the call knows of, or provoked, by its next step. *)
Contended(o) ==
    /\ pc[o] = "queued" => attempt[o] = 0
    /\ pc[o] = "idle" => attempt[o] = 0
    /\ pc[o] = "running" =>
         /\ wire[o] \in {"asked", "served", "sent", "appended", "refused"}
         /\ wire[o] = "asked" => since[o] + attempt[o] <= Len(log)
         /\ wire[o] = "served" => since[o] + attempt[o] <= answer[o]
         /\ wire[o] = "sent" => since[o] + attempt[o] <= base[o]
         /\ wire[o] = "refused" => since[o] + attempt[o] + 1 <= Len(log)
    /\ outcome[o] = "exhausted" => since[o] + MaxRetries <= Len(log)

ContentionInv == HonestStore => \A o \in Ops : Contended(o)

LEMMA ContentionInit == Init => ContentionInv
  BY DEF Init, ContentionInv, Contended

LEMMA ContentionStep ==
  TypeInv /\ ReplicaInv /\ FreshInv /\ ContentionInv /\ [Next]_vars => ContentionInv'
<1> SUFFICES ASSUME TypeInv, ReplicaInv, FreshInv, ContentionInv, [Next]_vars, HonestStore
             PROVE  \A o \in Ops : Contended(o)'
  BY DEF ContentionInv
<1>0. \A x \in Ops : Contended(x)
  BY DEF ContentionInv
<1>1. CASE UNCHANGED vars
  BY <1>0, <1>1 DEF vars, store, callers, exchange, settlement, Contended
<1>2. ASSUME NEW c \in Coordinators, NEW r \in Requests, Invoke(c, r) \/ PutNothing(c, r)
      PROVE  \A o \in Ops : Contended(o)'
  <2>1. PICK n \in Ops :
          /\ pc[n] = "idle" /\ outcome'[n] \in {"pending", "empty"} /\ pc'[n] \in {"queued", "done"}
          /\ UNCHANGED <<log, exchange>>
          /\ \A x \in Ops \ {n} : /\ since'[x] = since[x] /\ outcome'[x] = outcome[x]
                                  /\ pc'[x] = pc[x]
    BY <1>2, InvokeFrame DEF TypeInv, TypeOK
  <2> QED BY <1>0, <2>1 DEF Contended, exchange
<1>3. ASSUME NEW o \in Ops, Steps(o) PROVE \A x \in Ops : Contended(x)'
  <2>1. /\ UNCHANGED since
        /\ \A x \in Ops \ {o} : /\ outcome'[x] = outcome[x] /\ wire'[x] = wire[x]
                                /\ answer'[x] = answer[x] /\ base'[x] = base[x]
                                /\ pc'[x] = pc[x]
    BY <1>3, StepFrame DEF Frame
  <2>2. /\ \A x \in Ops : since[x] \in Nat /\ attempt[x] \in Nat
        /\ Len(log) \in Nat /\ Len(log') \in Nat /\ Len(log) <= Len(log') /\ MaxRetries \in Nat
    <3>1. \A x \in Ops : since[x] \in Nat /\ attempt[x] \in Nat
      BY DEF TypeInv, TypeOK
    <3> QED BY <1>3, <3>1, LogLength, RetriesAssumption
  <2>3. ASSUME NEW x \in Ops \ {o} PROVE Contended(x)'
    <3>1. attempt'[x] = attempt[x]
      <4>1. attempt' = attempt \/ attempt' = [attempt EXCEPT ![o] = @ + 1]
        BY <1>3, StepOnCall
        DEF Settles, Asks, SendAppend, ServeLog, ApplyAppend, RefuseAppend, exchange
      <4>2. attempt \in [Ops -> 0..(MaxRetries - 1)]
        BY DEF TypeInv, TypeOK
      <4> QED BY <4>1, <4>2
    <3> QED BY <1>0, <2>1, <2>2, <3>1 DEF Contended
  <2>4. CASE Settles(o)
    <3>1. pc'[o] = "done" /\ UNCHANGED <<log, exchange>>
      BY <2>4 DEF Settles
    <3>2. ASSUME outcome'[o] = "exhausted" PROVE since[o] + MaxRetries <= Len(log)
      <4>1. WasRefused(o) /\ attempt[o] + 1 >= MaxRetries
        BY <2>4, <3>2
        DEF Settles, FailsCleanly, FailsInDoubt, ObservesLocally, ObservesSynced, Commits
      <4>2. since[o] + attempt[o] + 1 <= Len(log)
        BY <1>0, <4>1 DEF Contended, WasRefused
      <4> QED BY <2>2, <4>1, <4>2
    <3> QED BY <2>1, <2>3, <3>1, <3>2 DEF Contended
  <2>5. CASE Asks(o)
    <3>1. wire'[o] = "asked" /\ pc'[o] = "running" /\ outcome'[o] = outcome[o] /\ log' = log
      BY <2>5 DEF Asks, settlement
    <3>2. since[o] <= Len(log)
      BY DEF FreshInv, HeardSince
    <3>3. since[o] + attempt'[o] <= Len(log)
      <4>1. CASE pc[o] = "queued" /\ attempt' = attempt
        BY <1>0, <2>2, <3>2, <4>1 DEF Contended
      <4>2. CASE WasRefused(o) /\ attempt' = [attempt EXCEPT ![o] = @ + 1]
        <5>1. since[o] + attempt[o] + 1 <= Len(log) /\ attempt'[o] = attempt[o] + 1
          BY <1>0, <4>2 DEF Contended, WasRefused, TypeInv, TypeOK
        <5> QED BY <2>2, <5>1
      <4> QED BY <2>5, <4>1, <4>2 DEF Asks
    <3>4. outcome[o] # "exhausted"
      BY <2>5, <3>1 DEF Asks, WasRefused, TypeInv, CallPlaced
    <3>5. Contended(o)'
      BY <2>1, <3>1, <3>3, <3>4 DEF Contended
    <3> QED BY <2>3, <3>5
  <2>6. CASE SendAppend(o)
    <3>1. /\ wire'[o] = "sent" /\ base'[o] = SyncedVersion(o) /\ HasLog(o) /\ pc'[o] = "running"
          /\ outcome'[o] = outcome[o] /\ attempt' = attempt
      BY <2>6 DEF SendAppend, Replays, HasLog, settlement, TypeInv, TypeOK
    <3>2. /\ since[o] + attempt[o] <= answer[o] /\ answer[o] \in Nat /\ base[o] \in Nat
      BY <1>0, <3>1 DEF Contended, HasLog, TypeInv, TypeOK
    <3>3. SyncedVersion(o) \in Nat /\ answer[o] <= SyncedVersion(o)
      BY <3>2 DEF SyncedVersion
    <3>4. since[o] + attempt[o] <= SyncedVersion(o)
      BY <2>2, <3>2, <3>3
    <3>5. outcome[o] # "exhausted"
      BY <3>1 DEF HasLog, TypeInv, CallPlaced
    <3>6. Contended(o)'
      BY <2>1, <3>1, <3>4, <3>5 DEF Contended
    <3> QED BY <2>3, <3>6
  <2>7. CASE ServeLog(o)
    <3>1. /\ wire[o] = "asked" /\ pc[o] = "running" /\ wire'[o] = "served"
          /\ answer'[o] = Len(log) /\ pc' = pc /\ outcome' = outcome /\ attempt' = attempt
          /\ log' = log
      BY <2>7, LoggedTyped DEF ServeLog, HonestStore, store, settlement, TypeInv, TypeOK
    <3>2. Contended(o)'
      BY <1>0, <2>1, <3>1 DEF Contended
    <3> QED BY <2>3, <3>2
  <2>8. CASE ApplyAppend(o)
    <3>1. /\ wire'[o] = "appended" /\ pc' = pc /\ outcome' = outcome /\ attempt' = attempt
      BY <2>8 DEF ApplyAppend, settlement, TypeInv, TypeOK
    <3>2. Contended(o)'
      BY <1>0, <2>1, <2>2, <3>1 DEF Contended
    <3> QED BY <2>3, <3>2
  <2>9. CASE RefuseAppend(o)
    <3>1. /\ wire[o] = "sent" /\ wire'[o] = "refused" /\ Len(log) # base[o]
          /\ pc' = pc /\ outcome' = outcome /\ attempt' = attempt /\ log' = log
      BY <2>9 DEF RefuseAppend, HonestStore, store, settlement, TypeInv, TypeOK
    <3>2. ASSUME pc[o] = "running" PROVE since[o] + attempt[o] + 1 <= Len(log)
      <4>1. since[o] + attempt[o] <= base[o] /\ base[o] \in Nat
        BY <1>0, <3>1, <3>2 DEF Contended, TypeInv, TypeOK
      <4>2. base[o] <= Len(log)
        <5>1. owner[o] \in Coordinators /\ base[o] = currentVersion[owner[o]]
          BY <3>2 DEF ReplicaInv, RunOk, TypeInv, CallPlaced
        <5>2. ReplicaOk(owner[o]) /\ applied[owner[o]] \in Seq(Batch)
          BY <5>1 DEF ReplicaInv, TypeInv, TypeOK
        <5> QED BY <2>2, <4>1, <5>1, <5>2, LenProperties DEF ReplicaOk, Agrees
      <4> QED BY <2>2, <3>1, <4>1, <4>2
    <3>3. Contended(o)'
      BY <1>0, <2>1, <3>1, <3>2 DEF Contended
    <3> QED BY <2>3, <3>3
  <2> QED BY <1>3, <2>4, <2>5, <2>6, <2>7, <2>8, <2>9, StepOnCall
<1> QED BY <1>1, <1>2, <1>3 DEF Next, Steps

LEMMA ExhaustedByOthers ==
  ASSUME TypeInv, LogInv, TraceInv, ContentionInv
  PROVE  GivingUpMeansOthersCommitted
<1> SUFFICES ASSUME NEW o \in Ops, outcome[o] = "exhausted", HonestStore
             PROVE  Cardinality({i \in (since[o] + 1)..Len(log) : log[i].op # o}) >= MaxRetries
  BY DEF GivingUpMeansOthersCommitted, HonestStore
<1>1. /\ since[o] \in Nat /\ Len(log) \in Nat /\ MaxRetries \in Nat
      /\ since[o] + MaxRetries <= Len(log)
  BY LoggedTyped, RetriesAssumption DEF ContentionInv, Contended, TypeInv, TypeOK
<1>2. \A i \in 1..Len(log) : log[i].op # o
  BY DEF TraceInv, LogInv, Logged, Effectless, Failures
<1> DEFINE first == since[o] + 1
           last == Len(log)
<1>3. {i \in first..last : log[i].op # o} = first..last
  BY <1>1, <1>2
<1>4. first \in Int /\ last \in Int /\ first + MaxRetries <= last + 1 /\ MaxRetries >= 0
  BY <1>1
<1> HIDE DEF first, last
<1>5. Cardinality(first..last) = IF first > last THEN 0 ELSE last - first + 1
  BY <1>4, FS_Interval
<1>6. Cardinality(first..last) >= MaxRetries
  BY <1>1, <1>4, <1>5
<1> QED BY <1>3, <1>6 DEF first, last

(* A write is given up only because as many batches of other calls came in   *)
(* between, whatever MaxRetries is.                                          *)
THEOREM OnlyContentionExhausts == Spec => []GivingUpMeansOthersCommitted
<1>1. Spec => [](TypeInv /\ QueueInv /\ ReplicaInv /\ LogInv /\ TraceInv /\ FreshInv
                 /\ ContentionInv)
  BY TypeInit, QueueInit, ReplicaInit, LogInit, TraceInit, FreshInit, ContentionInit,
     TypeStep, QueueStep, ReplicaStep, LogStep, TraceStep, FreshStep, ContentionStep,
     PTL DEF Spec
<1> QED BY <1>1, ExhaustedByOthers, PTL

-----------------------------------------------------------------------------
(* Corruption. *)

LEMMA CorruptedStays ==
  ASSUME TypeInv, ReplicaInv, [Next]_vars, NEW c \in Coordinators, corrupted[c]
  PROVE  /\ corrupted'[c] /\ applied'[c] = applied[c]
         /\ currentVersion'[c] = currentVersion[c]
         /\ \A o \in Ops : owner[o] = c /\ outcome[o] = "pending" => outcome'[o] \notin Answers
<1> USE DEF Answers
<1>1. CASE UNCHANGED vars
  BY <1>1 DEF vars, replicas, settlement
<1>2. ASSUME NEW d \in Coordinators, NEW r \in Requests, Invoke(d, r) \/ PutNothing(d, r)
      PROVE  /\ UNCHANGED <<corrupted, applied, currentVersion>>
             /\ \A o \in Ops : outcome[o] = "pending" => outcome'[o] \notin Answers
  BY <1>2, InvokeFrame DEF replicas
<1>3. ASSUME NEW o \in Ops, Steps(o)
      PROVE  /\ corrupted'[c] /\ applied'[c] = applied[c]
             /\ currentVersion'[c] = currentVersion[c]
             /\ \A x \in Ops : owner[x] = c /\ outcome[x] = "pending" => outcome'[x] \notin Answers
  <2>1. pc[o] = "running" => owner[o] # c
    BY DEF ReplicaInv, RunOk
  <2>2. corrupted'[c] /\ applied'[c] = applied[c] /\ currentVersion'[c] = currentVersion[c]
    <3>1. CASE Rested(o)
      BY <3>1 DEF Rested
    <3>2. CASE Synced(o) \/ Stopped(o) \/ Applied(o)
      <4>1. pc[o] = "running"
        BY <3>2 DEF Synced, Stopped, Applied, HasLog, HasAppended
      <4>2. owner[o] # c
        BY <2>1, <4>1
      <4> QED BY <3>2, <4>2 DEF Synced, Stopped, Applied, CatchUp, TypeInv, TypeOK
    <3> QED BY <1>3, <3>1, <3>2, StepOnReplica
  <2>3. ASSUME NEW x \in Ops, owner[x] = c, outcome[x] = "pending"
        PROVE  outcome'[x] \notin Answers
    <3>1. CASE x # o
      BY <1>3, <2>3, <3>1, StepFrame DEF Frame
    <3>2. CASE x = o /\ ~Settles(o)
      BY <1>3, <2>3, <3>2, OutcomeKept
    <3>3. CASE x = o /\ Settles(o)
      <4>1. ~ObservesLocally(o) /\ ~ObservesSynced(o) /\ ~Commits(o)
        BY <2>1, <2>3, <3>3 DEF ObservesLocally, ObservesSynced, Commits, HasLog, HasAppended
      <4> QED BY <3>3, <4>1 DEF Settles, FailsCleanly, FailsInDoubt
    <3> QED BY <3>1, <3>2, <3>3
  <2> QED BY <2>2, <2>3
<1> QED BY <1>1, <1>2, <1>3 DEF Next, Steps

(* From the moment it is corrupted an instance answers no call from its tree *)
(* and its replica never changes.                                            *)
THEOREM CorruptedForGood == Spec => CorruptionIsFinal
<1>1. TypeInv /\ ReplicaInv /\ [Next]_vars =>
        [\A c \in Coordinators : corrupted[c] =>
            /\ corrupted'[c] /\ applied'[c] = applied[c]
            /\ currentVersion'[c] = currentVersion[c]
            /\ \A o \in Ops : owner[o] = c /\ outcome[o] = "pending" =>
                   outcome'[o] \notin Answers]_vars
  BY CorruptedStays
<1>2. Spec => [](TypeInv /\ QueueInv /\ ReplicaInv)
  BY TypeInit, QueueInit, ReplicaInit, TypeStep, QueueStep, ReplicaStep, PTL DEF Spec
<1> QED BY <1>1, <1>2, PTL DEF Spec, CorruptionIsFinal

-----------------------------------------------------------------------------
(* One configuration per log: the first batch, and no other, carries an init *)
(* mutation, however many instances start at once; an instance of another    *)
(* configuration neither writes nor replays anything.  The invariant ties    *)
(* initSeen, from which an instance decides whether to prepend an init, to   *)
(* what it has applied, and the init of an append that is under way to the   *)
(* version it was made at.                                                   *)

BatchConfigured(i) ==
    /\ log[i].init # Null <=> i = 1
    /\ Fingerprint[owner[log[i].op]] = log[1].init

InitKnown(c) ==
    /\ initSeen[c] <=> Len(applied[c]) > 0
    /\ Len(applied[c]) > 0 => Fingerprint[c] = log[1].init

Prepends(o) ==
    /\ wire[o] \in {"sent", "appended"} => (carriesInit[o] <=> base[o] = 0)
    /\ wire[o] = "sent" =>
         /\ base[o] <= Len(log)
         /\ base[o] > 0 => Fingerprint[owner[o]] = log[1].init

ConfigurationInv ==
    /\ \A i \in 1..Len(log) : BatchConfigured(i)
    /\ \A c \in Coordinators : InitKnown(c)
    /\ \A o \in Ops : Prepends(o)

LEMMA ConfigurationInit == Init => ConfigurationInv
  BY EmptySeq DEF Init, ConfigurationInv, InitKnown, Prepends

(* A replica that applies the first of the batches it was served has seen    *)
(* the init mutation if and only if it has applied anything at all.          *)
LEMMA ReplayedInit ==
  ASSUME TypeInv, ReplicaInv, ConfigurationInv, NEW o \in Ops, HasLog(o), ~Mismatched(o),
         NEW r \in Seq(Batch), Len(r) <= Len(Unseen(o)), \A j \in 1..Len(r) : r[j] = Unseen(o)[j]
  PROVE  /\ Len(applied[owner[o]] \o r) = Len(applied[owner[o]]) + Len(r)
         /\ Len(applied[owner[o]]) \in Nat /\ Len(r) \in Nat
         /\ (initSeen[owner[o]] \/ SeesInit(r)) <=> Len(applied[owner[o]]) + Len(r) > 0
         /\ Len(applied[owner[o]]) + Len(r) > 0 => Fingerprint[owner[o]] = log[1].init
<1> DEFINE c == owner[o]
<1>1. /\ c \in Coordinators /\ Len(Unseen(o)) \in Nat
      /\ Len(applied[c]) + Len(Unseen(o)) <= Len(log)
      /\ \A i \in 1..Len(Unseen(o)) : Unseen(o)[i] = log[Len(applied[c]) + i]
  BY UnseenContinues
<1>2. /\ applied[c] \in Seq(Batch) /\ Len(applied[c]) \in Nat /\ Len(r) \in Nat
      /\ Unseen(o) \in Seq(Batch)
      /\ Len(applied[c] \o r) = Len(applied[c]) + Len(r)
  <2>1. applied[c] \in Seq(Batch)
    BY <1>1 DEF TypeInv, TypeOK
  <2>2. Unseen(o) \in Seq(Batch)
    BY UnseenTyped
  <2>3. Len(applied[c]) \in Nat /\ Len(r) \in Nat
    BY <2>1, LenProperties
  <2>4. Len(applied[c] \o r) = Len(applied[c]) + Len(r)
    BY <2>1, ConcatProperties
  <2> QED BY <2>1, <2>2, <2>3, <2>4
<1>3. InitKnown(c)
  BY <1>1 DEF ConfigurationInv
<1>4. DOMAIN r = 1..Len(r) /\ DOMAIN Unseen(o) = 1..Len(Unseen(o))
  BY <1>2, LenProperties
<1>5. CASE Len(applied[c]) > 0
  BY <1>2, <1>3, <1>5 DEF InitKnown
<1>6. CASE Len(applied[c]) = 0 /\ Len(r) = 0
  <2>1. ~SeesInit(r)
    BY <1>4, <1>6 DEF SeesInit
  <2> QED BY <1>2, <1>3, <1>6, <2>1 DEF InitKnown
<1>7. CASE Len(applied[c]) = 0 /\ Len(r) > 0
  <2>0. Len(log) \in Nat
    BY LoggedTyped
  <2>1. 1 \in 1..Len(r) /\ 1 \in 1..Len(Unseen(o)) /\ 1 \in 1..Len(log)
    BY <1>1, <1>2, <1>7, <2>0
  <2>2. r[1] = log[1] /\ Unseen(o)[1] = log[1]
    <3>1. r[1] = Unseen(o)[1]
      BY <2>1
    <3>2. Unseen(o)[1] = log[Len(applied[c]) + 1] /\ Len(applied[c]) + 1 = 1
      BY <1>1, <1>7, <2>1
    <3> QED BY <3>1, <3>2
  <2>3. log[1].init # Null
    BY <2>1 DEF ConfigurationInv, BatchConfigured
  <2>4. SeesInit(r)
    BY <1>4, <2>1, <2>2, <2>3 DEF SeesInit
  <2>5. log[1].init = Fingerprint[c]
    BY <1>4, <2>1, <2>2, <2>3 DEF Mismatched
  <2> QED BY <1>2, <1>7, <2>4, <2>5
<1> QED BY <1>2, <1>5, <1>6, <1>7

(* The first batch of the log stays where it is. *)
LEMMA FirstBatchStays ==
  ASSUME TypeInv, NEW o \in Ops, Steps(o), Len(log) > 0
  PROVE  log'[1] = log[1]
<1>1. CASE ApplyAppend(o)
  <2>1. \A i \in 1..Len(log) : log'[i] = log[i]
    BY <1>1, LogGrows
  <2> QED BY <2>1, LoggedTyped
<1>2. CASE ~ApplyAppend(o)
  BY <1>2, OnlyAppendsLog
<1> QED BY <1>1, <1>2

LEMMA LogConfigured ==
  ASSUME TypeInv, LogInv, ConfigurationInv, NEW o \in Ops, Steps(o), UNCHANGED owner,
         NEW i \in 1..Len(log')
  PROVE  BatchConfigured(i)'
<1>1. CASE ~ApplyAppend(o)
  BY <1>1, OnlyAppendsLog DEF ConfigurationInv, BatchConfigured
<1>2. CASE ApplyAppend(o)
  <2>1. PICK b \in Batch :
          /\ b.op = o
          /\ b.init = IF carriesInit[o] THEN Fingerprint[owner[o]] ELSE Null
          /\ Len(log) \in Nat /\ Len(log') = Len(log) + 1
          /\ \A j \in 1..Len(log) : log'[j] = log[j]
          /\ log'[Len(log) + 1] = b
    BY <1>2, LogGrows
  <2>2. /\ Len(log) = base[o] /\ wire[o] = "sent" /\ Prepends(o)
        /\ owner[o] \in Coordinators
    BY <1>2 DEF ApplyAppend, ConfigurationInv, TypeInv, CallPlaced
  <2>3. Fingerprint[owner[o]] # Null
    BY <2>2, NullAssumption DEF Fingerprints
  <2>4. CASE i # Len(log) + 1
    <3>1. i \in 1..Len(log) /\ 1 \in 1..Len(log) /\ log'[i] = log[i] /\ log'[1] = log[1]
      BY <2>1, <2>4
    <3>2. BatchConfigured(i)
      BY <3>1 DEF ConfigurationInv
    <3> QED BY <3>1, <3>2 DEF BatchConfigured
  <2>5. CASE i = Len(log) + 1 /\ Len(log) = 0
    <3>1. carriesInit[o] /\ i = 1 /\ log'[1] = b
      BY <2>1, <2>2, <2>5 DEF Prepends
    <3> QED BY <2>1, <2>3, <3>1 DEF BatchConfigured
  <2>6. CASE i = Len(log) + 1 /\ Len(log) > 0
    <3>1. ~carriesInit[o] /\ i # 1 /\ log'[i] = b
      BY <2>1, <2>2, <2>6 DEF Prepends
    <3>2. log'[1] = log[1] /\ Fingerprint[owner[o]] = log[1].init
      BY <2>1, <2>2, <2>6 DEF Prepends
    <3> QED BY <2>1, <3>1, <3>2 DEF BatchConfigured
  <2> QED BY <2>1, <2>4, <2>5, <2>6
<1> QED BY <1>1, <1>2

LEMMA InitNoted ==
  ASSUME TypeInv, LogInv, ReplicaInv, ConfigurationInv, NEW o \in Ops, Steps(o),
         NEW c \in Coordinators
  PROVE  InitKnown(c)'
<1>0. /\ InitKnown(c) /\ Len(applied[c]) \in Nat /\ Len(applied[c]) <= Len(log)
      /\ Len(log) \in Nat
  BY LenProperties, LoggedTyped DEF ConfigurationInv, ReplicaInv, ReplicaOk, Agrees, TypeInv, TypeOK
<1>a. Len(applied[c]) > 0 => log'[1] = log[1]
  BY <1>0, FirstBatchStays
<1>1. ASSUME applied'[c] = applied[c], initSeen'[c] = initSeen[c] PROVE InitKnown(c)'
  BY <1>0, <1>a, <1>1 DEF InitKnown
<1>2. CASE FailReplay(o)
  <2>1. /\ HasLog(o) /\ ~Mismatched(o) /\ log' = log
    BY <1>2 DEF FailReplay, store
  <2>2. PICK i \in DOMAIN Unseen(o) :
          /\ applied' = [applied EXCEPT ![owner[o]] = @ \o SubSeq(Unseen(o), 1, i)]
          /\ initSeen' = [initSeen EXCEPT ![owner[o]] = @ \/ SeesInit(SubSeq(Unseen(o), 1, i))]
    BY <1>2 DEF FailReplay, Throwing
  <2>3. CASE c # owner[o]
    BY <1>1, <2>2, <2>3 DEF TypeInv, TypeOK
  <2>4. CASE c = owner[o]
    <3> DEFINE r == SubSeq(Unseen(o), 1, i)
    <3>1. Unseen(o) \in Seq(Batch) /\ Len(Unseen(o)) \in Nat /\ i \in 1..Len(Unseen(o))
      BY <2>1, <2>2, UnseenTyped, LenProperties
    <3>2. r \in Seq(Batch) /\ Len(r) = i /\ \A j \in 1..i : r[j] = Unseen(o)[j]
      <4>1. /\ SubSeq(Unseen(o), 0 + 1, i) \in Seq(Batch)
            /\ Len(SubSeq(Unseen(o), 0 + 1, i)) = IF 0 < i THEN i - 0 ELSE 0
            /\ \A j \in 1..(i - 0) : SubSeq(Unseen(o), 0 + 1, i)[j] = Unseen(o)[0 + j]
        BY <3>1, SliceTyped
      <4> QED BY <4>1, <3>1
    <3>3. applied'[c] = applied[c] \o r /\ (initSeen'[c] <=> initSeen[c] \/ SeesInit(r))
      BY <2>2, <2>4 DEF TypeInv, TypeOK
    <3> HIDE DEF r
    <3>4. /\ Len(applied[c] \o r) = Len(applied[c]) + Len(r)
          /\ (initSeen[c] \/ SeesInit(r)) <=> Len(applied[c]) + Len(r) > 0
          /\ Len(applied[c]) + Len(r) > 0 => Fingerprint[c] = log[1].init
      BY <2>1, <2>4, <3>1, <3>2, ReplayedInit
    <3> QED BY <2>1, <3>3, <3>4 DEF InitKnown
  <2> QED BY <2>3, <2>4
<1>3. CASE HasLog(o) /\ ~Mismatched(o) /\ CatchUp(o)
  <2>1. /\ applied' = [applied EXCEPT ![owner[o]] = @ \o Unseen(o)]
        /\ initSeen' = [initSeen EXCEPT ![owner[o]] = @ \/ SeesInit(Unseen(o))]
        /\ log' = log
    BY <1>3 DEF CatchUp, store
  <2>2. CASE c # owner[o]
    BY <1>1, <2>1, <2>2 DEF TypeInv, TypeOK
  <2>3. CASE c = owner[o]
    <3>1. Unseen(o) \in Seq(Batch) /\ Len(Unseen(o)) \in Nat
      BY <1>3, UnseenTyped, LenProperties
    <3>2. applied'[c] = applied[c] \o Unseen(o)
          /\ (initSeen'[c] <=> initSeen[c] \/ SeesInit(Unseen(o)))
      BY <2>1, <2>3 DEF TypeInv, TypeOK
    <3>3. /\ Len(applied[c] \o Unseen(o)) = Len(applied[c]) + Len(Unseen(o))
          /\ (initSeen[c] \/ SeesInit(Unseen(o))) <=> Len(applied[c]) + Len(Unseen(o)) > 0
          /\ Len(applied[c]) + Len(Unseen(o)) > 0 => Fingerprint[c] = log[1].init
      BY <1>3, <2>3, <3>1, ReplayedInit
    <3> QED BY <2>1, <3>2, <3>3 DEF InitKnown
  <2> QED BY <2>2, <2>3
<1>4. CASE ApplyLocally(o) /\ log' = log
  <2>1. /\ HasAppended(o) /\ pc[o] = "running" /\ wire[o] = "appended"
        /\ applied' = [applied EXCEPT ![owner[o]] = Append(@, log[answer[o]])]
        /\ initSeen' = [initSeen EXCEPT ![owner[o]] = @ \/ carriesInit[o]]
    BY <1>4 DEF ApplyLocally, HasAppended
  <2>2. CASE c # owner[o]
    BY <1>1, <2>1, <2>2 DEF TypeInv, TypeOK
  <2>3. CASE c = owner[o]
    <3>1. /\ answer[o] \in 1..Len(log) /\ log[answer[o]].op = o /\ log[answer[o]] \in Batch
      BY <2>1, AppliedAnswer DEF LogInv
    <3>2. Fingerprint[c] = log[1].init
      BY <2>3, <3>1 DEF ConfigurationInv, BatchConfigured
    <3>3. /\ base[o] = Len(applied[c]) /\ (carriesInit[o] <=> base[o] = 0)
      BY <2>1, <2>3 DEF ConfigurationInv, Prepends, ReplicaInv, RunOk, ReplicaOk
    <3>4. /\ applied'[c] = Append(applied[c], log[answer[o]])
          /\ initSeen'[c] <=> initSeen[c] \/ carriesInit[o]
      BY <2>1, <2>3 DEF TypeInv, TypeOK
    <3>5. Len(applied'[c]) = Len(applied[c]) + 1
      BY <3>1, <3>4, AppendProperties DEF TypeInv, TypeOK
    <3>6. initSeen'[c]
      BY <1>0, <3>3, <3>4 DEF InitKnown
    <3> QED BY <1>0, <1>4, <3>2, <3>5, <3>6 DEF InitKnown
  <2> QED BY <2>2, <2>3
<1>5. CASE applied' = applied /\ initSeen' = initSeen
  BY <1>1, <1>5
<1>6. \/ FailReplay(o) \/ (HasLog(o) /\ ~Mismatched(o) /\ CatchUp(o))
      \/ (ApplyLocally(o) /\ log' = log) \/ (applied' = applied /\ initSeen' = initSeen)
  BY DEF Steps, Step, Serve, Disturb, RefuseCorrupted, AnswerLocally, StartSync,
         RefuseOversized, RefuseMismatched, AnswerSynced, AnswerUnappended, SendAppend,
         FinishAppend, FailApply, Retry, GiveUp, ServeLog, ApplyAppend, RefuseAppend,
         SyncRejects, AppendRejects, Replays, AskForLog, replicas, store
<1> QED BY <1>2, <1>3, <1>4, <1>5, <1>6

LEMMA InitPrepended ==
  ASSUME TypeInv, ReplicaInv, ConfigurationInv, NEW o \in Ops, Steps(o), Frame(o),
         NEW x \in Ops
  PROVE  Prepends(x)'
<1>0. /\ Prepends(x) /\ base[x] \in Nat /\ UNCHANGED owner
      /\ Len(log) \in Nat /\ Len(log') \in Nat /\ Len(log) <= Len(log')
  BY LogLength DEF ConfigurationInv, Frame, TypeInv, TypeOK
<1>1. ASSUME wire'[x] \in {"sent", "appended"} => wire'[x] = wire[x] \/ wire[x] = "sent",
             carriesInit'[x] = carriesInit[x], base'[x] = base[x]
      PROVE  Prepends(x)'
  <2>1. wire[x] = "sent" /\ base[x] > 0 => log'[1] = log[1]
    BY <1>0, FirstBatchStays DEF Prepends
  <2> QED BY <1>0, <1>1, <2>1 DEF Prepends
<1>2. CASE x # o
  BY <1>1, <1>2 DEF Frame
<1>3. CASE x = o /\ ~SendAppend(o)
  <2>1. CASE Asks(o)
    BY <1>3, <2>1 DEF Asks, Prepends
  <2>2. CASE Settles(o)
    BY <1>1, <1>3, <2>2 DEF Settles, exchange
  <2>3. CASE ServeLog(o) \/ RefuseAppend(o)
    BY <1>3, <2>3 DEF ServeLog, RefuseAppend, Prepends, TypeInv, TypeOK
  <2>4. CASE ApplyAppend(o)
    BY <1>1, <1>3, <2>4 DEF ApplyAppend
  <2> QED BY <1>3, <2>1, <2>2, <2>3, <2>4, StepOnCall
<1>4. CASE x = o /\ SendAppend(o)
  <2>1. /\ HasLog(o) /\ ~Mismatched(o) /\ log' = log
        /\ base'[o] = SyncedVersion(o)
        /\ carriesInit'[o] <=> ~(initSeen[owner[o]] \/ SeesInit(Unseen(o)))
    BY <1>4 DEF SendAppend, Replays, CatchUp, store, TypeInv, TypeOK
  <2>2. /\ SyncedVersion(o) = Len(applied[owner[o]]) + Len(Unseen(o))
        /\ Len(applied[owner[o]]) + Len(Unseen(o)) <= Len(log)
        /\ Unseen(o) \in Seq(Batch) /\ Len(Unseen(o)) \in Nat /\ Len(applied[owner[o]]) \in Nat
    BY <2>1, UnseenContinues, UnseenTyped
  <2>3. /\ (initSeen[owner[o]] \/ SeesInit(Unseen(o))) <=>
              Len(applied[owner[o]]) + Len(Unseen(o)) > 0
        /\ Len(applied[owner[o]]) + Len(Unseen(o)) > 0 => Fingerprint[owner[o]] = log[1].init
    BY <2>1, <2>2, ReplayedInit
  <2> QED BY <1>0, <1>4, <2>1, <2>2, <2>3 DEF Prepends
<1> QED BY <1>2, <1>3, <1>4

LEMMA ConfigurationStep ==
  TypeInv /\ LogInv /\ ReplicaInv /\ ConfigurationInv /\ [Next]_vars => ConfigurationInv'
<1> SUFFICES ASSUME TypeInv, LogInv, ReplicaInv, ConfigurationInv, [Next]_vars
             PROVE  ConfigurationInv'
  OBVIOUS
<1>1. CASE UNCHANGED vars
  BY <1>1 DEF vars, store, replicas, callers, exchange, ConfigurationInv, BatchConfigured,
              InitKnown, Prepends
<1>2. ASSUME NEW c \in Coordinators, NEW r \in Requests, Invoke(c, r) \/ PutNothing(c, r)
      PROVE  ConfigurationInv'
  <2>1. PICK n \in Ops :
          /\ wire[n] = "none" /\ UNCHANGED <<log, replicas, exchange>>
          /\ \A x \in Ops \ {n} : owner'[x] = owner[x]
    BY <1>2, InvokeFrame DEF TypeInv, TypeOK
  <2>2. ASSUME NEW i \in 1..Len(log') PROVE BatchConfigured(i)'
    <3>1. log' = log /\ i \in 1..Len(log) /\ log[i].op \in Ops /\ log[i].op # n
      BY <2>1, LoggedTyped DEF LogInv, Logged
    <3> QED BY <2>1, <3>1 DEF ConfigurationInv, BatchConfigured
  <2>3. ASSUME NEW d \in Coordinators PROVE InitKnown(d)'
    BY <2>1 DEF ConfigurationInv, InitKnown, replicas
  <2>4. ASSUME NEW x \in Ops PROVE Prepends(x)'
    BY <2>1 DEF ConfigurationInv, Prepends, exchange
  <2> QED BY <2>2, <2>3, <2>4 DEF ConfigurationInv
<1>3. ASSUME NEW o \in Ops, Steps(o) PROVE ConfigurationInv'
  <2>1. Frame(o) /\ UNCHANGED owner
    BY <1>3, StepFrame DEF Frame
  <2>2. ASSUME NEW i \in 1..Len(log') PROVE BatchConfigured(i)'
    BY <1>3, <2>1, LogConfigured
  <2>3. ASSUME NEW c \in Coordinators PROVE InitKnown(c)'
    BY <1>3, InitNoted
  <2>4. ASSUME NEW x \in Ops PROVE Prepends(x)'
    BY <1>3, <2>1, InitPrepended
  <2> QED BY <2>2, <2>3, <2>4 DEF ConfigurationInv
<1> QED BY <1>1, <1>2, <1>3 DEF Next, Steps

(* However many instances start at once, the log has one init mutation, in   *)
(* its first batch, and only instances of that configuration have written    *)
(* to it or applied anything from it.                                        *)
THEOREM OneConfigurationPerLog == Spec => []ConfigurationIsAgreed
<1>1. Spec => [](TypeInv /\ QueueInv /\ LogInv /\ ReplicaInv /\ ConfigurationInv)
  BY TypeInit, QueueInit, LogInit, ReplicaInit, ConfigurationInit,
     TypeStep, QueueStep, LogStep, ReplicaStep, ConfigurationStep, PTL DEF Spec
<1>2. TypeInv /\ ConfigurationInv => ConfigurationIsAgreed
  <2> SUFFICES ASSUME TypeInv, ConfigurationInv PROVE ConfigurationIsAgreed
    OBVIOUS
  <2>1. ASSUME NEW c \in Coordinators, applied[c] # <<>> PROVE Fingerprint[c] = log[1].init
    <3>1. applied[c] \in Seq(Batch) /\ Len(applied[c]) \in Nat /\ Len(applied[c]) # 0
      BY <2>1, LenProperties, EmptySeq DEF TypeInv, TypeOK
    <3> QED BY <3>1 DEF ConfigurationInv, InitKnown
  <2> QED BY <2>1, LoggedTyped DEF ConfigurationInv, BatchConfigured, ConfigurationIsAgreed
<1> QED BY <1>1, <1>2, PTL
=============================================================================
